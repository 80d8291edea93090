------------------------------ MODULE RouteSync ------------------------------
(***************************************************************************)
(* syncHandler and the event handlers of controller.go, between the        *)
(* application clusters (ServiceRoutes, Endpoints, Services and the        *)
(* informer caches that lag them) and the istio cluster (the record kept   *)
(* for each ServiceRoute, the four objects of each route and the shared    *)
(* Gateway).  Every API call is a step of its own, so other workers, other *)
(* controllers, users and crashes come in between.                         *)
(*                                                                         *)
(* syncHandler drops the error of every call it makes: the err tested at   *)
(* its end is never assigned once the caches have been read.  A sync       *)
(* therefore always ends in Forget, and the work queue is used through the *)
(* contract of KeyedWork, which WorkQueue implements.                      *)
(*                                                                         *)
(* Resource versions are modelled by what they decide.  The copy of an     *)
(* object that a worker writes back is "fresh" until somebody else changes *)
(* the object; the API server refuses the write of a copy that is not.     *)
(***************************************************************************)
EXTENDS Naturals

CONSTANTS
    Keys,       \* namespace/name of ServiceRoutes, their Endpoints and Service
    Workers,    \* goroutines running runWorker
    Clusters,   \* application clusters, each with its own controller process
    ClusterOf,  \* Keys \cup Workers -> Clusters
    Routes,     \* route names
    NoRoute,    \* the empty spec.routeName
    Data,       \* contents of Endpoints and of Services
    Taken,      \* the status "already taken. please change routeName."
    None,
    Budget      \* how often the environment may act, by kind of action

Kinds == {"ep", "svc", "vs", "dr"}
Bounded == {"edits", "backend", "gateway", "faults", "crashes"}

ASSUME RouteSyncAssumption ==
    /\ ClusterOf \in [Keys \cup Workers -> Clusters]
    /\ None \notin Keys \cup Routes \cup Data \cup {NoRoute, Taken}
    /\ Routes \cap {NoRoute, Taken} = {}
    /\ Budget \in [Bounded -> Nat]

VARIABLES
    foo,        \* key |-> the ServiceRoute on its application cluster, or None
    fooCache,   \* key |-> the informer's copy of it
    fooLag,     \* key |-> a change of it has not reached the informer yet
    ep, svc,    \* key |-> contents of its Endpoints and its Service, or None
    epCache, svcCache,
    rec,        \* key |-> route named by its record on the istio cluster, or None
    objs,       \* kind |-> route |-> the object of that name, or None
    gw,         \* the routes with a host on the Gateway, or None without one
    pending, running,   \* the work queue (KeyedWork)
    pc, job,    \* worker |-> next step of syncHandler, and its local variables
    spent       \* environment actions so far

appVars == <<foo, fooCache, fooLag, ep, svc, epCache, svcCache>>
istioVars == <<rec, objs, gw>>
workVars == <<pending, running>>
vars == <<appVars, istioVars, workVars, pc, job, spent>>

Queue == INSTANCE KeyedWork

FooObjects == [route : Routes \cup {NoRoute}, status : Routes \cup {None, Taken}]
Contents == Data \cup {None}
IstioObjects == [from : Keys, data : Contents]

\* None is no object and no Gateway.
ASSUME NoneAssumption ==
    None \notin FooObjects \cup IstioObjects /\ \A hosts \in SUBSET Routes : hosts # None

Labels == {"idle", "lookUp", "delEp", "delSvc", "delVS", "delDR", "delGwGet",
           "delGwPut", "delRec", "caches", "decide", "crRec", "crEp", "crSvc",
           "crVS", "crDR", "crGwGet", "crGwPut", "status", "taken", "upSvc",
           "upEp", "done"}

Jobs == [foo : FooObjects \cup {None},      \* the ServiceRoute it syncs
         fresh : BOOLEAN,                   \* nobody changed it since
         doomed : Routes \cup {None},       \* routetodelete
         ep : Contents, svc : Contents,     \* the source objects it copies
         gwFresh : BOOLEAN]                 \* nobody changed the Gateway since its Get

NoJob == [foo |-> None, fresh |-> FALSE, doomed |-> None,
          ep |-> None, svc |-> None, gwFresh |-> FALSE]

TypeOK ==
    /\ foo \in [Keys -> FooObjects \cup {None}]
    /\ fooCache \in [Keys -> FooObjects \cup {None}]
    /\ fooLag \in [Keys -> BOOLEAN]
    /\ ep \in [Keys -> Contents] /\ svc \in [Keys -> Contents]
    /\ epCache \in [Keys -> Contents] /\ svcCache \in [Keys -> Contents]
    /\ rec \in [Keys -> Routes \cup {None}]
    /\ objs \in [Kinds -> [Routes -> IstioObjects \cup {None}]]
    /\ gw \in (SUBSET Routes) \cup {None}
    /\ pending \subseteq Keys
    /\ running \in [Workers -> Keys \cup {None}]
    /\ pc \in [Workers -> Labels]
    /\ job \in [Workers -> Jobs]
    /\ spent \in [Bounded -> Nat]

(* A controller that has just synced its caches, in front of an istio      *)
(* cluster nobody has used.  Run does not wait for the cache of Services.  *)
Init ==
    /\ foo \in [Keys -> [route : Routes \cup {NoRoute}, status : {None}] \cup {None}]
    /\ fooCache = foo
    /\ fooLag = [k \in Keys |-> FALSE]
    /\ ep \in [Keys -> Contents] /\ svc \in [Keys -> Contents]
    /\ epCache = ep
    /\ svcCache = [k \in Keys |-> None]
    /\ rec = [k \in Keys |-> None]
    /\ objs = [kind \in Kinds |-> [r \in Routes |-> None]]
    /\ gw \in {{}, None}
    /\ pending = {k \in Keys : foo[k] # None}
    /\ running = [w \in Workers |-> None]
    /\ pc = [w \in Workers |-> "idle"]
    /\ job = [w \in Workers |-> NoJob]
    /\ spent = [what \in Bounded |-> 0]

Spend(what) ==
    /\ spent[what] < Budget[what]
    /\ spent' = [spent EXCEPT ![what] = @ + 1]

\* A call that never took effect, or a Get that failed otherwise than with NotFound.
CallFails == Spend("faults")

-----------------------------------------------------------------------------
(* Users and controllers of the application clusters.                      *)

\* A write of k by somebody else: whoever works on a copy of it is stale.
ChangeFoo(k, new) ==
    /\ foo' = [foo EXCEPT ![k] = new]
    /\ fooLag' = [fooLag EXCEPT ![k] = TRUE]
    /\ job' = [w \in Workers |->
                  IF running[w] = k THEN [job[w] EXCEPT !.fresh = FALSE] ELSE job[w]]
    /\ UNCHANGED <<fooCache, ep, svc, epCache, svcCache, istioVars, workVars, pc>>

UserCreates(k, r) ==
    /\ foo[k] = None
    /\ Spend("edits")
    /\ ChangeFoo(k, [route |-> r, status |-> None])

\* Also an edit of something else, a label, when r is the route it has.
UserEdits(k, r) ==
    /\ foo[k] # None
    /\ Spend("edits")
    /\ ChangeFoo(k, [foo[k] EXCEPT !.route = r])

UserDeletes(k) ==
    /\ foo[k] # None
    /\ Spend("edits")
    /\ ChangeFoo(k, None)

EndpointsChange(k, c) ==
    /\ c # ep[k]
    /\ Spend("backend")
    /\ ep' = [ep EXCEPT ![k] = c]
    /\ UNCHANGED <<foo, fooCache, fooLag, svc, epCache, svcCache, istioVars, workVars, pc, job>>

ServiceChanges(k, c) ==
    /\ c # svc[k]
    /\ Spend("backend")
    /\ svc' = [svc EXCEPT ![k] = c]
    /\ UNCHANGED <<foo, fooCache, fooLag, ep, epCache, svcCache, istioVars, workVars, pc, job>>

GatewayStale == [w \in Workers |-> [job[w] EXCEPT !.gwFresh = FALSE]]

\* The owner of the Gateway edits something else in it, deletes it, or
\* creates it again.
GatewayChanges(new) ==
    /\ new \in IF gw = None THEN {{}} ELSE {gw, None}
    /\ Spend("gateway")
    /\ gw' = new
    /\ job' = GatewayStale
    /\ UNCHANGED <<appVars, rec, objs, workVars, pc>>

-----------------------------------------------------------------------------
(* Informers and their handlers.                                           *)

\* enqueueServiceRoute: mark the key for a sync.
Enqueue(k) == Queue!Request(k)

\* handleObject: the Endpoints' ServiceRoute is the cached one of its name.
HandleObject(k) == IF fooCache[k] # None THEN Enqueue(k) ELSE UNCHANGED workVars

\* AddFunc, UpdateFunc and DeleteFunc of the ServiceRoute informer.  Changes
\* that arrive one by one may be taken together: only the last one can be
\* seen by a sync that could have written the object.
FooEvent(k) ==
    /\ fooLag[k]
    /\ fooCache' = [fooCache EXCEPT ![k] = foo[k]]
    /\ fooLag' = [fooLag EXCEPT ![k] = FALSE]
    /\ Enqueue(k)
    /\ UNCHANGED <<foo, ep, svc, epCache, svcCache, istioVars, pc, job, spent>>

\* A deletion seen by a relist arrives as DeletedFinalStateUnknown, of which
\* enqueueServiceRoute cannot make a key.
FooTombstone(k) ==
    /\ fooLag[k] /\ foo[k] = None /\ fooCache[k] # None
    /\ CallFails
    /\ fooCache' = [fooCache EXCEPT ![k] = None]
    /\ fooLag' = [fooLag EXCEPT ![k] = FALSE]
    /\ UNCHANGED <<foo, ep, svc, epCache, svcCache, istioVars, workVars, pc, job>>

\* Mutant: the resync is filtered by resource version, as it is for Endpoints.
FilteredResync(k) == fooCache[k] # None /\ UNCHANGED vars

\* Every 30 seconds UpdateFunc is called for each cached ServiceRoute.
Resync(k) ==
    /\ fooCache[k] # None
    /\ Enqueue(k)
    /\ UNCHANGED <<appVars, istioVars, pc, job, spent>>

\* A change of Endpoints; their resync is filtered by resource version.
EndpointsEvent(k) ==
    /\ epCache[k] # ep[k]
    /\ epCache' = [epCache EXCEPT ![k] = ep[k]]
    /\ HandleObject(k)
    /\ UNCHANGED <<foo, fooCache, fooLag, ep, svc, svcCache, istioVars, pc, job, spent>>

\* Nobody listens to the Service informer.
ServiceEvent(k) ==
    /\ svcCache[k] # svc[k]
    /\ svcCache' = [svcCache EXCEPT ![k] = svc[k]]
    /\ UNCHANGED <<foo, fooCache, fooLag, ep, svc, epCache, istioVars, workVars, pc, job, spent>>

-----------------------------------------------------------------------------
(* syncHandler, one API call per step.                                     *)

Goto(w, label) == pc' = [pc EXCEPT ![w] = label]

\* Mutant: the queue does not keep a key that is in hand from other workers.
SharedStart(w, k) ==
    /\ ClusterOf[w] = ClusterOf[k]
    /\ running[w] = None /\ k \in pending
    /\ pending' = pending \ {k}
    /\ running' = [running EXCEPT ![w] = k]
    /\ Goto(w, "lookUp")
    /\ UNCHANGED <<appVars, istioVars, job, spent>>

StartSync(w, k) ==
    /\ ClusterOf[w] = ClusterOf[k]
    /\ Queue!Start(w, k)
    /\ Goto(w, "lookUp")
    /\ UNCHANGED <<appVars, istioVars, job, spent>>

\* Mutant: an edit of spec.routeName condemns nothing.
ForgetfulLookUp(w) ==
    /\ pc[w] = "lookUp"
    /\ LET k == running[w]
           doomed == IF fooCache[k] = None THEN rec[k] ELSE None
       IN  /\ job' = [job EXCEPT ![w] = [NoJob EXCEPT !.foo = fooCache[k],
                                                      !.fresh = ~ fooLag[k],
                                                      !.doomed = doomed]]
           /\ Goto(w, IF doomed # None THEN "delEp" ELSE "caches")
    /\ UNCHANGED <<appVars, istioVars, workVars, spent>>

\* Read the ServiceRoute from the cache and its record from the istio
\* cluster; a record of another route, or of a ServiceRoute that is gone,
\* condemns that route.  Without the record nothing is condemned.
LookUp(w) ==
    LET k == running[w]
        doomed == IF fooCache[k] = None \/ fooCache[k].route # rec[k] THEN rec[k] ELSE None
    IN  /\ pc[w] = "lookUp"
        /\ \E r \in {doomed, None} :
              /\ IF r = doomed THEN UNCHANGED spent ELSE CallFails
              /\ job' = [job EXCEPT ![w] = [NoJob EXCEPT !.foo = fooCache[k],
                                                         !.fresh = ~ fooLag[k],
                                                         !.doomed = r]]
              /\ Goto(w, IF r # None THEN "delEp" ELSE "caches")
        /\ UNCHANGED <<appVars, istioVars, workVars>>

DeleteObject(w, here, kind, next) ==
    /\ pc[w] = here
    /\ \/ objs' = [objs EXCEPT ![kind][job[w].doomed] = None] /\ UNCHANGED spent
       \/ CallFails /\ UNCHANGED objs
    /\ Goto(w, next)
    /\ UNCHANGED <<appVars, rec, gw, workVars, job>>

\* A missing Gateway is skipped; after any other error an empty Gateway is
\* written back, which has no effect.
GetGateway(w, here, found, missing) ==
    /\ pc[w] = here
    /\ \/ gw = None /\ Goto(w, missing) /\ UNCHANGED <<job, spent>>
       \/ /\ gw # None
          /\ job' = [job EXCEPT ![w].gwFresh = TRUE]
          /\ Goto(w, found)
          /\ UNCHANGED spent
       \/ CallFails /\ Goto(w, found) /\ UNCHANGED job
    /\ UNCHANGED <<appVars, istioVars, workVars>>

\* Write back the Gateway with its hosts edited; a conflict is not retried.
PutGateway(w, here, hosts, next) ==
    /\ pc[w] = here
    /\ \/ job[w].gwFresh /\ gw' = hosts /\ UNCHANGED spent
       \/ ~ job[w].gwFresh /\ UNCHANGED <<gw, spent>>
       \/ CallFails /\ UNCHANGED gw
    /\ job' = IF gw' # gw THEN GatewayStale ELSE [job EXCEPT ![w].gwFresh = FALSE]
    /\ Goto(w, next)
    /\ UNCHANGED <<appVars, rec, objs, workVars>>

\* Mutant: the record is blanked instead of deleted.
BlankRecord(w) ==
    /\ pc[w] = "delRec"
    /\ rec' = [rec EXCEPT ![running[w]] = NoRoute]
    /\ Goto(w, "caches")
    /\ UNCHANGED <<appVars, objs, gw, workVars, job, spent>>

\* The hosts of the Gateway without the condemned route.
HostsWithout(w) == gw \ {job[w].doomed}

DeleteRecord(w) ==
    /\ pc[w] = "delRec"
    /\ \/ rec' = [rec EXCEPT ![running[w]] = None] /\ UNCHANGED spent
       \/ CallFails /\ UNCHANGED rec
    /\ Goto(w, "caches")
    /\ UNCHANGED <<appVars, objs, gw, workVars, job>>

\* Mutants: the record goes first; the DestinationRule stays; the host stays.
RecordFirst(w) ==
    \/ /\ pc[w] = "delEp" /\ rec[running[w]] # None
       /\ rec' = [rec EXCEPT ![running[w]] = None]
       /\ UNCHANGED <<appVars, objs, gw, workVars, pc, job, spent>>
    \/ /\ pc[w] \in {"delEp", "delSvc"} /\ rec[running[w]] = None
       /\ \/ DeleteObject(w, "delEp", "ep", "delSvc")
          \/ DeleteObject(w, "delSvc", "svc", "caches")
KeepRule(w) ==
    \/ DeleteObject(w, "delEp", "ep", "delSvc")
    \/ DeleteObject(w, "delSvc", "svc", "delVS")
    \/ DeleteObject(w, "delVS", "vs", "delRec")
    \/ DeleteRecord(w)
KeepHost(w) ==
    \/ DeleteObject(w, "delEp", "ep", "delSvc")
    \/ DeleteObject(w, "delSvc", "svc", "delVS")
    \/ DeleteObject(w, "delVS", "vs", "delDR")
    \/ DeleteObject(w, "delDR", "dr", "delRec")
    \/ DeleteRecord(w)

TearDown(w) ==
    \/ DeleteObject(w, "delEp", "ep", "delSvc")
    \/ DeleteObject(w, "delSvc", "svc", "delVS")
    \/ DeleteObject(w, "delVS", "vs", "delDR")
    \/ DeleteObject(w, "delDR", "dr", "delGwGet")
    \/ GetGateway(w, "delGwGet", "delGwPut", "delRec")
    \/ PutGateway(w, "delGwPut", HostsWithout(w), "delRec")
    \/ DeleteRecord(w)

\* Nothing more to do for a ServiceRoute that is gone, has no route name, or
\* lacks its Endpoints or its Service in the caches.
ReadCaches(w) ==
    LET k == running[w]
        f == job[w].foo
        complete == f # None /\ f.route # NoRoute /\ epCache[k] # None /\ svcCache[k] # None
    IN  /\ pc[w] = "caches"
        /\ IF complete
           THEN /\ job' = [job EXCEPT ![w].ep = epCache[k], ![w].svc = svcCache[k]]
                /\ Goto(w, "decide")
           ELSE Goto(w, "done") /\ UNCHANGED job
        /\ UNCHANGED <<appVars, istioVars, workVars, spent>>

\* Mutant: a Service of the route's name does not stop the creation.
CarelessDecide(w) ==
    /\ pc[w] = "decide"
    /\ Goto(w, IF rec[running[w]] # None THEN "upSvc" ELSE "crRec")
    /\ UNCHANGED <<appVars, istioVars, workVars, job, spent>>

\* Look up the record again, and the istio Service of the route's name.
\* Only NotFound is told apart from other outcomes.
Decide(w) ==
    LET recorded == rec[running[w]] # None
        named == objs["svc"][job[w].foo.route] # None
    IN  /\ pc[w] = "decide"
        /\ \/ recorded /\ Goto(w, "upSvc") /\ UNCHANGED spent
           \/ ~ recorded /\ CallFails /\ Goto(w, "upSvc")
           \/ ~ recorded /\ named /\ Goto(w, "taken") /\ UNCHANGED spent
           \/ ~ recorded /\ ~ named /\ CallFails /\ Goto(w, "taken")
           \/ ~ recorded /\ ~ named /\ Goto(w, "crRec") /\ UNCHANGED spent
        /\ UNCHANGED <<appVars, istioVars, workVars, job>>

\* newServiceRoutes: the record carries the route's name and nothing else.
RecordOf(w) == job[w].foo.route

CreateRecord(w) ==
    /\ pc[w] = "crRec"
    /\ \/ /\ rec' = [rec EXCEPT ![running[w]] = IF @ = None THEN RecordOf(w) ELSE @]
          /\ UNCHANGED spent
       \/ CallFails /\ UNCHANGED rec
    /\ Goto(w, "crEp")
    /\ UNCHANGED <<appVars, objs, gw, workVars, job>>

\* newEndpoint, newService, newVirtualService and newDestinationRule.
Made(w, kind) ==
    [from |-> running[w],
     data |-> CASE kind = "ep" -> job[w].ep
                [] kind \in {"svc", "vs"} -> job[w].svc
                [] kind = "dr" -> None]

\* The hosts of the Gateway and the new route; one that is there already stays.
HostsWith(w) == gw \cup {job[w].foo.route}

Named(w, kind) == objs[kind][job[w].foo.route] # None

\* A write of the route's object that the API server accepts if it applies.
PutObject(w, here, kind, applies, next) ==
    /\ pc[w] = here
    /\ \/ applies /\ UNCHANGED spent
          /\ objs' = [objs EXCEPT ![kind][job[w].foo.route] = Made(w, kind)]
       \/ ~ applies /\ UNCHANGED <<objs, spent>>
       \/ CallFails /\ UNCHANGED objs
    /\ Goto(w, next)
    /\ UNCHANGED <<appVars, rec, gw, workVars, job>>

CreateObject(w, here, kind, next) == PutObject(w, here, kind, ~ Named(w, kind), next)

\* Some API servers create what is missing, others refuse.
UpdateObject(w, here, kind, next) ==
    \E creates \in BOOLEAN : PutObject(w, here, kind, creates \/ Named(w, kind), next)

\* Mutant: the status is written whatever became of the ServiceRoute.
ForcedStatus(w, here, status) ==
    /\ pc[w] = here
    /\ foo[running[w]] # None
    /\ foo' = [foo EXCEPT ![running[w]] = [job[w].foo EXCEPT !.status = status]]
    /\ fooLag' = [fooLag EXCEPT ![running[w]] = TRUE]
    /\ Goto(w, "done")
    /\ UNCHANGED <<fooCache, ep, svc, epCache, svcCache, istioVars, workVars, job, spent>>

\* Update of the ServiceRoute with the cached copy and a new status.
PutStatus(w, here, status) ==
    LET k == running[w]
        new == [job[w].foo EXCEPT !.status = status]
    IN  /\ pc[w] = here
        /\ \/ /\ job[w].fresh
              /\ foo' = [foo EXCEPT ![k] = new]
              /\ fooLag' = [fooLag EXCEPT ![k] = @ \/ new # foo[k]]
              /\ UNCHANGED spent
           \/ ~ job[w].fresh /\ UNCHANGED <<foo, fooLag, spent>>
           \/ CallFails /\ UNCHANGED <<foo, fooLag>>
        /\ Goto(w, "done")
        /\ UNCHANGED <<fooCache, ep, svc, epCache, svcCache, istioVars, workVars, job>>

\* Mutant: the record is created once the route is complete.
RecordLast(w) ==
    \/ pc[w] = "crRec" /\ Goto(w, "crEp")
       /\ UNCHANGED <<appVars, istioVars, workVars, job, spent>>
    \/ CreateObject(w, "crEp", "ep", "crSvc")
    \/ CreateObject(w, "crSvc", "svc", "crVS")

Create(w) ==
    \/ CreateRecord(w)
    \/ CreateObject(w, "crEp", "ep", "crSvc")
    \/ CreateObject(w, "crSvc", "svc", "crVS")
    \/ CreateObject(w, "crVS", "vs", "crDR")
    \/ CreateObject(w, "crDR", "dr", "crGwGet")
    \/ GetGateway(w, "crGwGet", "crGwPut", "done")
    \/ PutGateway(w, "crGwPut", HostsWith(w), "status")
    \/ PutStatus(w, "status", job[w].foo.route)

Refuse(w) == PutStatus(w, "taken", Taken)

\* Mutant: only the Service is brought up to date.
HalfUpdate(w) == UpdateObject(w, "upSvc", "svc", "done")

Update(w) ==
    \/ UpdateObject(w, "upSvc", "svc", "upEp")
    \/ UpdateObject(w, "upEp", "ep", "done")

FinishSync(w) ==
    /\ pc[w] = "done"
    /\ Queue!Finish(w)
    /\ Goto(w, "idle")
    /\ job' = [job EXCEPT ![w] = NoJob]
    /\ UNCHANGED <<appVars, istioVars, spent>>

Step(w) ==
    \/ LookUp(w) \/ TearDown(w) \/ ReadCaches(w) \/ Decide(w)
    \/ Create(w) \/ Refuse(w) \/ Update(w) \/ FinishSync(w)

\* The controller of a cluster dies and a new one has synced its caches.  Its
\* informers report every ServiceRoute that exists.
Crash(c) ==
    LET mine == {k \in Keys : ClusterOf[k] = c}
        Reload(cache, store) == [k \in Keys |-> IF k \in mine THEN store[k] ELSE cache[k]]
    IN  /\ Spend("crashes")
        /\ fooCache' = Reload(fooCache, foo)
        /\ fooLag' = [k \in Keys |-> fooLag[k] /\ k \notin mine]
        /\ epCache' = Reload(epCache, ep)
        /\ svcCache' = [k \in Keys |-> IF k \in mine THEN None ELSE svcCache[k]]
        /\ pending' = (pending \ mine) \cup {k \in mine : foo[k] # None}
        /\ running' = [w \in Workers |-> IF ClusterOf[w] = c THEN None ELSE running[w]]
        /\ pc' = [w \in Workers |-> IF ClusterOf[w] = c THEN "idle" ELSE pc[w]]
        /\ job' = [w \in Workers |-> IF ClusterOf[w] = c THEN NoJob ELSE job[w]]
        /\ UNCHANGED <<foo, ep, svc, istioVars>>

Environment ==
    \/ \E k \in Keys, r \in Routes \cup {NoRoute} : UserCreates(k, r) \/ UserEdits(k, r)
    \/ \E k \in Keys : UserDeletes(k)
    \/ \E k \in Keys, c \in Contents : EndpointsChange(k, c) \/ ServiceChanges(k, c)
    \/ \E new \in {gw, None, {}} : GatewayChanges(new)

Informers == \E k \in Keys : FooEvent(k) \/ FooTombstone(k) \/ Resync(k)
                             \/ EndpointsEvent(k) \/ ServiceEvent(k)

Next ==
    \/ Environment
    \/ Informers
    \/ \E w \in Workers, k \in Keys : StartSync(w, k)
    \/ \E w \in Workers : Step(w)
    \/ \E c \in Clusters : Crash(c)

SafetySpec == Init /\ [][Next]_vars

(* A worker is scheduled and its API calls return.  The queue hands out    *)
(* every key that stays pending (ImplementsKeyedWork of WorkQueue).  Watch *)
(* events arrive and the resync timer ticks.  Users, backends, the owner   *)
(* of the Gateway, lost calls and crashes come or stay away as they like.  *)
Fairness ==
    /\ \A w \in Workers : WF_vars(Step(w))
    /\ \A k \in Keys : SF_vars(\E w \in Workers : StartSync(w, k))
    /\ \A k \in Keys : /\ WF_vars(FooEvent(k)) /\ WF_vars(Resync(k))
                       /\ WF_vars(EndpointsEvent(k)) /\ WF_vars(ServiceEvent(k))

Spec == SafetySpec /\ Fairness

-----------------------------------------------------------------------------
(* Properties that hold for any number of workers and controllers.         *)

TearDownLabels == {"delEp", "delSvc", "delVS", "delDR", "delGwGet", "delGwPut", "delRec"}
CreateLabels == {"crEp", "crSvc", "crVS", "crDR", "crGwGet", "crGwPut", "status"}
UpdateLabels == {"upSvc", "upEp"}

\* The route that a sync tears down, over seven calls and with other syncs,
\* users and crashes in between, is all along the one its own record names.
TearsDownOwnRoute ==
    \A w \in Workers :
        pc[w] \in TearDownLabels => job[w].doomed = rec[running[w]] /\ job[w].doomed # None

\* While no call fails, a sync that creates or updates the objects of a route
\* has, all along, a record that names this route.
WritesOwnRoute ==
    spent["faults"] = 0 =>
        \A w \in Workers :
            pc[w] \in CreateLabels \cup UpdateLabels => rec[running[w]] = job[w].foo.route

\* While no call fails, what was copied to the istio cluster on behalf of a
\* ServiceRoute is always covered by its record, so that a later sync can find
\* and delete it: the record is created first and deleted last, whatever races
\* and crashes come in between.
NoOrphans ==
    spent["faults"] = 0 =>
        \A kind \in Kinds, r \in Routes :
            objs[kind][r] # None => rec[objs[kind][r].from] = r

\* While no call fails, the status gets a route's full name only when the
\* record names that route and spec.routeName still asks for it; writing the
\* status back from the cached copy never undoes an edit.
NamesOwnRoute ==
    \A k \in Keys :
        /\ spent'["faults"] = 0
        /\ foo[k] # None /\ foo'[k] # None
        /\ foo'[k].status \in Routes
        => \/ foo'[k].status = foo[k].status
           \/ foo'[k].status = rec[k] /\ foo'[k].route = rec[k] /\ foo[k].route = rec[k]
NameIsEarned == [][NamesOwnRoute]_vars

\* From its look at the cache to its last call a sync has the ServiceRoute in
\* hand, and a copy that is fresh or not.
HasCopy(w) == pc[w] \notin {"idle", "lookUp", "done"}

Copy == INSTANCE LaggedCopy WITH
    Routes <- Routes \cup {NoRoute},
    Statuses <- Routes \cup {None, Taken},
    lag <- fooLag,
    hand <- [w \in Workers |-> IF HasCopy(w) THEN running[w] ELSE None],
    fresh <- [w \in Workers |-> HasCopy(w) /\ job[w].fresh /\ job[w].foo # None]

\* Whatever fails or crashes, ServiceRoutes change only as their users or a sync
\* with an up-to-date copy want, and such a sync writes the status and nothing
\* else: the contract that RouteCache keeps with resource versions.
UsesLaggedCopy == [][Copy!Next]_(Copy!copyVars)

-----------------------------------------------------------------------------
(* Properties of syncs that do not race and are not disturbed.  Syncs of   *)
(* different ServiceRoutes can only race in two places: one records a name *)
(* while the Service that stands for it is missing in the middle of        *)
(* another's creation or teardown, and two edit the Gateway at once.       *)

ServiceMissing == {"delVS", "delDR", "delGwGet", "delGwPut", "delRec", "crEp", "crSvc"}
GatewayInHand == {"delGwPut", "crGwPut"}

NoNameRace ==
    \A v, w \in Workers :
        pc[v] \in ServiceMissing /\ pc[w] = "crRec" => rec[running[v]] # job[w].foo.route

NoGatewayRace ==
    \A v, w \in Workers : pc[v] \in GatewayInHand /\ pc[w] \in GatewayInHand => v = w

\* The records are leases: one ServiceRoute per route.
Lease == INSTANCE RouteLease WITH held <- rec
LeasesRoutes == Lease!Spec

\* Between two syncs of a ServiceRoute, the objects that were made from it are
\* the four objects of the route that its record names, and no others.
WholeRoutes ==
    \A k \in Keys : ~ Queue!InHand(k) =>
        \A kind \in Kinds, r \in Routes :
            rec[k] = r <=> objs[kind][r] # None /\ objs[kind][r].from = k

\* The Gateway never has a host of a route without a record, and a recorded
\* route has its host between two syncs of its ServiceRoute.
HostsAreRecorded ==
    gw # None =>
        /\ gw \subseteq {rec[k] : k \in Keys}
        /\ \A k \in Keys : rec[k] # None /\ ~ Queue!InHand(k) => rec[k] \in gw

\* The route of w's ServiceRoute is all there, as w found its backend.
Serves(w) ==
    LET r == job[w].foo.route
    IN  /\ rec[running[w]] = r
        /\ objs["ep"][r] = Made(w, "ep") /\ objs["svc"][r] = Made(w, "svc")
        /\ objs["vs"][r] # None /\ objs["dr"][r] # None
        /\ gw # None => r \in gw

\* What a sync has done when it ends: there is no record without a ServiceRoute;
\* with one and its backend, the route is served from them, or the status says
\* "already taken", unless the ServiceRoute has been changed meanwhile.
SyncServes ==
    \A w \in Workers : pc[w] = "done" =>
        /\ job[w].foo = None => rec[running[w]] = None
        /\ job[w].ep # None =>
              \/ Serves(w)
              \/ /\ rec[running[w]] = None
                 /\ job[w].fresh => foo[running[w]].status = Taken

\* What a sync is there for: without a ServiceRoute no record; with one that
\* names a route and has its backend, the route is its own, or another's.
Settled(k) ==
    LET r == foo[k].route
    IN  IF foo[k] = None THEN rec[k] = None
        ELSE IF r = NoRoute \/ ep[k] = None \/ svc[k] = None THEN rec[k] \in {r, None}
        ELSE \/ /\ rec[k] = r
                /\ objs["ep"][r] = [from |-> k, data |-> ep[k]]
                /\ objs["svc"][r] = [from |-> k, data |-> svc[k]]
                /\ objs["vs"][r] # None /\ objs["dr"][r] # None
                /\ gw # None => r \in gw
             \/ \E j \in Keys \ {k} : rec[j] = r

\* Once users and backends stop, every ServiceRoute is settled for good, even
\* where no event announces that there is something to do (a route given up
\* by another, a Service that changed).
Converges == <>[](\A k \in Keys : Settled(k))

-----------------------------------------------------------------------------
(* What comments and the README say, and syncHandler does not keep.        *)

\* "istio svc routename doesn't exist either, then ACTION:CREATE": a route
\* is given to a ServiceRoute when nobody has it, so never to two.
RoutesAreExclusive == Lease!Exclusive

\* "Upon completion, the controller will update the status with FQDN": the
\* full name is only announced once the Gateway has a host for it.
NameIsServed ==
    [][\A k \in Keys :
          foo[k] # None /\ foo'[k] # None /\ foo'[k].status \in Routes
          => foo'[k].status = foo[k].status \/ (gw # None /\ foo'[k].status \in gw)]_vars

\* The same sentence for a controller left alone: in the end the holder of a
\* route that is served finds its full name in the status.
HolderLearnsName ==
    <>[](\A k \in Keys :
            foo[k] # None /\ gw # None /\ rec[k] = foo[k].route => foo[k].status = rec[k])

=============================================================================
