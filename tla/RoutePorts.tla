------------------------------ MODULE RoutePorts ------------------------------
(***************************************************************************)
(* The ports of a Service on their way to the istio cluster: newService    *)
(* zeroes node ports in the very slice of the cached Service, and          *)
(* newVirtualService takes the first port, which ends the process if there *)
(* is none.  Which path a sync takes depends on the record, so that the    *)
(* record's creation and its teardown are here as well, with every call    *)
(* that may fail.  A Service that the informer has decoded stays where it  *)
(* is while the cache moves on to the next one, and so does its sync.      *)
(*                                                                         *)
(* No two ServiceRoutes ask for the same route: the objects of a route     *)
(* belong to the one that asks for it.  Endpoints come and go with their   *)
(* Service; they, the DestinationRule and the Gateway have no ports.       *)
(***************************************************************************)
EXTENDS Naturals, Sequences

CONSTANTS
    Keys,           \* namespace/name of ServiceRoutes and of their Services
    Workers,        \* goroutines running runWorker
    Routes,         \* values of spec.routeName, each ServiceRoute's own
    PortLists,      \* the lists of ports that a Service may have
    None,
    MaxChanges,     \* bound on the changes of Services and ServiceRoutes
    MaxFaults       \* bound on the calls that are lost and the processes killed

Stripped(list) == [i \in DOMAIN list |-> [list[i] EXCEPT !.node = 0]]

PortsAssumption ==
    /\ \A list \in PortLists : list \in Seq([port : Nat \ {0}, node : Nat])
    /\ None \notin Keys \cup Routes \cup Nat /\ MaxChanges \in Nat /\ MaxFaults \in Nat

VARIABLES
    asks,       \* key |-> route of the cached ServiceRoute, None without one
    source,     \* key |-> ports of the Service on the application cluster
    past,       \* key |-> the lists of ports it has had
    changes,    \* changes of Services and ServiceRoutes so far
    heap,       \* key |-> ports of the decoded Services, the last one cached
    current,    \* key |-> the cached one is the source's
    rec,        \* key |-> route of its record on the istio cluster, or None
    svc,        \* key |-> route |-> ports of its Service on the istio cluster, or None
    vs,         \* key |-> route |-> port of its VirtualService, or None
    running,    \* worker |-> the key it syncs, or None
    want,       \* worker |-> the route its ServiceRoute asked for at the start
    pc,         \* worker |-> where its sync is
    cell, at,   \* worker |-> the decoded Service it was given, and its loop's index
    up,         \* the controller's process runs
    panics,     \* key |-> how often its sync has ended the process
    lapses,     \* key |-> how often its record was deleted, or not created when due
    faults      \* calls lost and processes killed so far

sourceVars == <<asks, source, past, changes>>
cacheVars == <<heap, current>>
objectVars == <<svc, vs>>
recordVars == <<rec, lapses>>
loopVars == <<cell, at>>
syncVars == <<running, want, pc, loopVars>>
processVars == <<up, panics>>
vars == <<sourceVars, cacheVars, objectVars, recordVars, syncVars, processVars, faults>>

Tearing == {"delService", "delVirtual", "delRecord"}
Holding == {"record", "create", "virtual", "update"}
Labels == {"idle", "decide"} \cup Tearing \cup Holding

TypeOK ==
    /\ asks \in [Keys -> Routes \cup {None}]
    /\ source \in [Keys -> PortLists] /\ past \in [Keys -> SUBSET PortLists]
    /\ changes \in 0 .. MaxChanges /\ faults \in 0 .. MaxFaults
    /\ heap \in [Keys -> Seq(Seq([port : Nat \ {0}, node : Nat]))]
    /\ current \in [Keys -> BOOLEAN]
    /\ rec \in [Keys -> Routes \cup {None}] /\ lapses \in [Keys -> Nat]
    /\ vs \in [Keys -> [Routes -> (Nat \ {0}) \cup {None}]]
    /\ running \in [Workers -> Keys \cup {None}] /\ pc \in [Workers -> Labels]
    /\ \A w \in Workers : pc[w] \in Holding =>
           /\ want[w] \in Routes /\ cell[w] \in DOMAIN heap[running[w]]
           /\ at[w] \in 0 .. Len(heap[running[w]][cell[w]])
    /\ up \in BOOLEAN /\ panics \in [Keys -> Nat]

NoObjects == [k \in Keys |-> [n \in Routes |-> None]]

Init ==
    /\ asks \in [Keys -> Routes \cup {None}] /\ source \in [Keys -> PortLists]
    /\ past = [k \in Keys |-> {source[k]}] /\ changes = 0
    /\ rec = [k \in Keys |-> None] /\ svc = NoObjects /\ vs = NoObjects
    /\ heap = [k \in Keys |-> <<>>] /\ current = [k \in Keys |-> FALSE]
    /\ running = [w \in Workers |-> None] /\ want = [w \in Workers |-> None]
    /\ pc = [w \in Workers |-> "idle"]
    /\ cell = [w \in Workers |-> 0] /\ at = [w \in Workers |-> 0]
    /\ up = TRUE /\ panics = [k \in Keys |-> 0] /\ lapses = [k \in Keys |-> 0]
    /\ faults = 0

-----------------------------------------------------------------------------
(* Users and the informers.  A sync reads a ServiceRoute only once and only *)
(* from the cache, so that its change is taken to be the event's.           *)

Change == changes < MaxChanges /\ changes' = changes + 1

UserAsks(k, n) ==
    /\ n # asks[k] /\ Change
    /\ asks' = [asks EXCEPT ![k] = n]
    /\ UNCHANGED <<source, past, cacheVars, objectVars, recordVars, syncVars, processVars, faults>>

ServiceChanges(k, list) ==
    /\ list # source[k] /\ Change
    /\ source' = [source EXCEPT ![k] = list]
    /\ past' = [past EXCEPT ![k] = @ \cup {list}]
    /\ current' = [current EXCEPT ![k] = FALSE]
    /\ UNCHANGED <<asks, heap, objectVars, recordVars, syncVars, processVars, faults>>

ServiceEvent(k) ==
    /\ up /\ ~ current[k]
    /\ heap' = [heap EXCEPT ![k] = Append(@, source[k])]
    /\ current' = [current EXCEPT ![k] = TRUE]
    /\ UNCHANGED <<sourceVars, objectVars, recordVars, syncVars, processVars, faults>>

-----------------------------------------------------------------------------
(* A sync.  A call is answered or lost; no error of one is looked at.      *)

Answered == UNCHANGED faults
Lost == faults < MaxFaults /\ faults' = faults + 1

\* The sync goes on, or ends.
Goto(w, label) ==
    /\ pc' = [pc EXCEPT ![w] = label]
    /\ running' = IF label = "idle" THEN [running EXCEPT ![w] = None] ELSE running
    /\ UNCHANGED want

\* A ServiceRoute that is gone, or asks for no route, is done with after its teardown.
AfterTeardown(n) == IF n = None THEN "idle" ELSE "decide"

\* A resync asks for every key again and again.  The record that names another
\* route than the ServiceRoute condemns it, unless the record cannot be read.
StartSync(w, k) ==
    /\ up /\ running[w] = None /\ \A v \in Workers : running[v] # k
    /\ running' = [running EXCEPT ![w] = k]
    /\ want' = [want EXCEPT ![w] = asks[k]]
    /\ LET condemned == rec[k] # None /\ rec[k] # asks[k]
       IN  \/ condemned /\ Answered /\ pc' = [pc EXCEPT ![w] = "delService"]
           \/ /\ asks[k] # None /\ pc' = [pc EXCEPT ![w] = "decide"]
              /\ IF condemned THEN Lost ELSE Answered
    /\ UNCHANGED <<sourceVars, cacheVars, objectVars, recordVars, loopVars, processVars>>

\* The sync deletes its record's Service or VirtualService, one of "objects".
Without(objects, w) == [objects EXCEPT ![running[w]][rec[running[w]]] = None]

DeleteService(w) ==
    /\ pc[w] = "delService"
    /\ \/ Answered /\ svc' = Without(svc, w)
       \/ Lost /\ UNCHANGED svc
    /\ Goto(w, "delVirtual")
    /\ UNCHANGED <<sourceVars, cacheVars, vs, recordVars, loopVars, processVars>>

DeleteVirtualService(w) ==
    /\ pc[w] = "delVirtual"
    /\ \/ Answered /\ vs' = Without(vs, w)
       \/ Lost /\ UNCHANGED vs
    /\ Goto(w, "delRecord")
    /\ UNCHANGED <<sourceVars, cacheVars, svc, recordVars, loopVars, processVars>>

\* There is no record, now, to keep the ServiceRoute from being created again.
Lapse(w) == lapses' = [lapses EXCEPT ![running[w]] = @ + 1]

DeleteRecord(w) ==
    /\ pc[w] = "delRecord"
    /\ \/ Answered /\ rec' = [rec EXCEPT ![running[w]] = None] /\ Lapse(w)
       \/ Lost /\ UNCHANGED recordVars
    /\ Goto(w, AfterTeardown(want[w]))
    /\ UNCHANGED <<sourceVars, cacheVars, objectVars, loopVars, processVars>>

\* The cached Service is taken, if there is one, and the record and the Service
\* of the wanted route are looked up.  An error counts as a record or a Service.
Decide(w) ==
    /\ pc[w] = "decide"
    /\ LET k == running[w]
           taken == svc[k][want[w]] # None
       IN  \/ heap[k] = <<>> /\ Answered /\ Goto(w, "idle") /\ UNCHANGED loopVars
           \/ /\ heap[k] # <<>>
              /\ cell' = [cell EXCEPT ![w] = Len(heap[k])] /\ at' = [at EXCEPT ![w] = 0]
              /\ \/ rec[k] # None /\ Answered /\ Goto(w, "update")
                 \/ rec[k] = None /\ Lost /\ (Goto(w, "update") \/ Goto(w, "idle"))
                 \/ rec[k] = None /\ Answered /\ Goto(w, IF taken THEN "idle" ELSE "record")
    /\ UNCHANGED <<sourceVars, cacheVars, objectVars, recordVars, processVars>>

\* Mutant: the record is left for the end of the creation.
SkipRecord(w) ==
    /\ pc[w] = "record"
    /\ Answered /\ Goto(w, "create")
    /\ UNCHANGED <<sourceVars, cacheVars, objectVars, recordVars, loopVars, processVars>>

\* The creation goes on without the record if its call is lost.
CreateRecord(w) ==
    /\ pc[w] = "record"
    /\ \/ Answered /\ rec' = [rec EXCEPT ![running[w]] = want[w]] /\ UNCHANGED lapses
       \/ Lost /\ Lapse(w) /\ UNCHANGED rec
    /\ Goto(w, "create")
    /\ UNCHANGED <<sourceVars, cacheVars, objectVars, loopVars, processVars>>

-----------------------------------------------------------------------------
(* The cached Service, which the sync was given.                           *)

Given(w) == heap[running[w]][cell[w]]

\* newService: one round of the loop over the shared slice.
ZeroNodePort(w) ==
    /\ pc[w] \in {"create", "update"} /\ at[w] < Len(Given(w))
    /\ heap' = [heap EXCEPT ![running[w]][cell[w]][at[w] + 1].node = 0]
    /\ at' = [at EXCEPT ![w] = @ + 1]
    /\ UNCHANGED <<sourceVars, current, objectVars, recordVars, running, want, pc, cell,
                   processVars, faults>>

\* A Service without ports is refused, and so is a second one of the name; one
\* to update that is missing is created by some API servers.
Send(w, list) ==
    /\ pc[w] \in {"create", "update"} /\ at[w] = Len(Given(w))
    /\ LET k == running[w]
           there == svc[k][want[w]] # None
       IN  \/ /\ list # <<>> /\ (pc[w] = "create" => ~ there) /\ Answered
              /\ svc' = [svc EXCEPT ![k][want[w]] = list]
           \/ /\ list = <<>> \/ (pc[w] = "create" <=> there)
              /\ Answered /\ UNCHANGED svc
           \/ Lost /\ UNCHANGED svc
    /\ Goto(w, IF pc[w] = "create" THEN "virtual" ELSE "idle")
    /\ UNCHANGED <<sourceVars, cacheVars, vs, recordVars, loopVars, processVars>>

\* Mutant: the Service is looked up in the cache again.
SendCached(w) == running[w] # None /\ Send(w, heap[running[w]][Len(heap[running[w]])])

SendService(w) == Send(w, Given(w))

CreateVirtualService(w) ==
    /\ pc[w] = "virtual" /\ Given(w) # <<>>
    /\ LET k == running[w]
       IN  \/ Answered /\ vs' = [vs EXCEPT ![k][want[w]] = IF @ = None THEN Given(w)[1].port ELSE @]
           \/ Lost /\ UNCHANGED vs
    /\ Goto(w, "idle")
    /\ UNCHANGED <<sourceVars, cacheVars, svc, recordVars, loopVars, processVars>>

\* The process ends, with its caches and all its syncs.
Ends ==
    /\ up' = FALSE
    /\ heap' = [k \in Keys |-> <<>>] /\ current' = [k \in Keys |-> FALSE]
    /\ running' = [w \in Workers |-> None] /\ want' = [w \in Workers |-> None]
    /\ pc' = [w \in Workers |-> "idle"]
    /\ cell' = [w \in Workers |-> 0] /\ at' = [w \in Workers |-> 0]

\* svc.Spec.Ports[0] of no ports.
Panic(w) ==
    /\ pc[w] = "virtual" /\ Given(w) = <<>>
    /\ Ends
    /\ panics' = [panics EXCEPT ![running[w]] = @ + 1]
    /\ UNCHANGED <<sourceVars, objectVars, recordVars, faults>>

\* Someone else ends the process.
Kill ==
    /\ up /\ Lost /\ Ends
    /\ UNCHANGED <<sourceVars, objectVars, recordVars, panics>>

Restart ==
    /\ ~ up
    /\ up' = TRUE
    /\ UNCHANGED <<sourceVars, cacheVars, objectVars, recordVars, syncVars, panics, faults>>

Step(w) ==
    \/ DeleteService(w) \/ DeleteVirtualService(w) \/ DeleteRecord(w)
    \/ Decide(w) \/ CreateRecord(w)
    \/ ZeroNodePort(w) \/ SendService(w) \/ CreateVirtualService(w) \/ Panic(w)

Next ==
    \/ \E k \in Keys : \/ ServiceEvent(k) \/ \E list \in PortLists : ServiceChanges(k, list)
                       \/ \E n \in Routes \cup {None} : UserAsks(k, n)
    \/ \E w \in Workers : Step(w) \/ \E k \in Keys : StartSync(w, k)
    \/ Kill \/ Restart

SafetySpec == Init /\ [][Next]_vars

(* Syncs go on, every cached ServiceRoute is synced again, events arrive,  *)
(* and the StatefulSet starts the process again.                           *)
Fairness ==
    /\ \A w \in Workers : WF_vars(Step(w))
    /\ \A k \in Keys : /\ WF_vars(ServiceEvent(k))
                       /\ SF_vars(\E w \in Workers : StartSync(w, k))
    /\ WF_vars(Restart)

Spec == SafetySpec /\ Fairness

-----------------------------------------------------------------------------
\* No node port leaves the application cluster, and the ports that do are
\* those of one version of the Service, although the informer may replace the
\* Service while the loop runs over the shared slice.
NodePortsStayHome ==
    \A k \in Keys : \A n \in Routes :
        svc[k][n] # None => svc[k][n] \in {Stripped(list) : list \in past[k]}

\* A Service without ports ends the process again only after the record of its
\* ServiceRoute has been deleted, or its creation lost: a record makes the
\* syncs after the restart take the other path, and so it must be there before
\* the sync gets to the ports.
PanicsAreCounted == \A k \in Keys : panics[k] <= lapses[k] + (IF rec[k] = None THEN 0 ELSE 1)

(* What the code does not keep.                                            *)

\* No ServiceRoute ends the process twice.
PanicsOnce == \A k \in Keys : panics[k] <= 1

\* "compares the actual state with the desired, and attempts to converge the
\* two" (syncHandler): the VirtualService of a route leads to the first port
\* of its Service, in the end.
PortIsFollowed ==
    <>[](\A k \in Keys : \A n \in Routes :
             vs[k][n] # None /\ source[k] # <<>> => vs[k][n] = source[k][1].port)

\* "If the resource doesn't exist, we'll create it" (syncHandler): a route
\* whose Service has ports in the end has a VirtualService.
MissingRouteIsCreated ==
    \A k \in Keys : \A n \in Routes :
        <>[](asks[k] = n /\ source[k] # <<>>) => <>(vs[k][n] # None)

=============================================================================
