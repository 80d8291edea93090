--------------------------- MODULE InformerFactory ---------------------------
(***************************************************************************)
(* sharedInformerFactory (pkg/generated/informers/externalversions): one   *)
(* informer per type, made on the first request and run once, with a mutex *)
(* around every method but the waiting of WaitForCacheSync.  Callers are   *)
(* goroutines that share the factory.                                      *)
(***************************************************************************)
EXTENDS Naturals, Sequences

CONSTANTS
    Types,      \* object types, the keys of the factory's maps
    Callers,    \* goroutines that call the factory
    None,
    MaxCalls    \* calls per caller

FactoryAssumption == None \notin Types \cup Callers \cup Nat /\ MaxCalls \in Nat

VARIABLES
    lock,       \* the caller that holds the mutex, or None
    informers,  \* type |-> number of its informer, or None
    started,    \* the types marked in startedInformers
    runs,       \* number of an informer |-> Run goroutines it has
    synced,     \* the informers whose HasSynced is true
    stopped,    \* stopCh is closed
    pc, type,   \* caller |-> where it is, and the type it asks for
    got,        \* caller |-> type |-> the informer it was given, or None
    covered,    \* caller |-> informers it had when its last Start returned
    waits,      \* caller |-> informers its WaitForCacheSync still waits for
    calls       \* caller |-> calls so far

mapVars == <<informers, started, runs>>
callVars == <<type, got, covered, waits, calls>>
vars == <<lock, mapVars, synced, stopped, pc, callVars>>

Made == 1 .. Len(runs)

TypeOK ==
    /\ lock \in Callers \cup {None}
    /\ informers \in [Types -> Made \cup {None}]
    /\ started \subseteq Types
    /\ runs \in Seq(Nat)
    /\ synced \subseteq Made
    /\ stopped \in BOOLEAN
    /\ pc \in [Callers -> {"idle", "InformerFor", "lookUp", "make", "Start", "launch",
                           "WaitForCacheSync", "wait"}]
    /\ type \in [Callers -> Types \cup {None}]
    /\ got \in [Callers -> [Types -> Made \cup {None}]]
    /\ covered \in [Callers -> SUBSET Made] /\ waits \in [Callers -> SUBSET Made]
    /\ calls \in [Callers -> 0 .. MaxCalls]

Init ==
    /\ lock = None
    /\ informers = [t \in Types |-> None]
    /\ started = {}
    /\ runs = <<>>
    /\ synced = {}
    /\ stopped = FALSE
    /\ pc = [c \in Callers |-> "idle"]
    /\ type = [c \in Callers |-> None]
    /\ got = [c \in Callers |-> [t \in Types |-> None]]
    /\ covered = [c \in Callers |-> {}]
    /\ waits = [c \in Callers |-> {}]
    /\ calls = [c \in Callers |-> 0]

Goto(c, label) == pc' = [pc EXCEPT ![c] = label]
Return(c) == Goto(c, "idle") /\ lock' = None

\* A method is called, for InformerFor by way of Informer, Lister or ForResource.
Call(c, method, t) ==
    /\ pc[c] = "idle" /\ calls[c] < MaxCalls
    /\ calls' = [calls EXCEPT ![c] = @ + 1]
    /\ type' = [type EXCEPT ![c] = t]
    /\ Goto(c, method)
    /\ UNCHANGED <<lock, mapVars, synced, stopped, got, covered, waits>>

Lock(c, method, label) ==
    /\ pc[c] = method /\ lock = None
    /\ lock' = c
    /\ Goto(c, label)
    /\ UNCHANGED <<mapVars, synced, stopped, callVars>>

\* Mutant: the lock is released between the test and the insertion.
UnlockingLookUp(c) ==
    /\ pc[c] = "lookUp" /\ informers[type[c]] = None
    /\ lock' = None
    /\ Goto(c, "make")
    /\ UNCHANGED <<mapVars, synced, stopped, callVars>>

LookUp(c) ==
    /\ pc[c] = "lookUp"
    /\ IF informers[type[c]] # None
       THEN got' = [got EXCEPT ![c][type[c]] = informers[type[c]]] /\ Return(c)
       ELSE Goto(c, "make") /\ UNCHANGED <<lock, got>>
    /\ UNCHANGED <<mapVars, synced, stopped, type, covered, waits, calls>>

Make(c) ==
    LET new == Len(runs) + 1
    IN  /\ pc[c] = "make"
        /\ runs' = Append(runs, 0)
        /\ informers' = [informers EXCEPT ![type[c]] = new]
        /\ got' = [got EXCEPT ![c][type[c]] = new]
        /\ Return(c)
        /\ UNCHANGED <<started, synced, stopped, type, covered, waits, calls>>

\* Mutant: nothing is marked as started.
UnmarkedLaunch(c, t) ==
    /\ pc[c] = "launch"
    /\ informers[t] # None /\ runs[informers[t]] < 2
    /\ runs' = [runs EXCEPT ![informers[t]] = @ + 1]
    /\ UNCHANGED <<lock, informers, started, synced, stopped, pc, callVars>>

Launch(c, t) ==
    /\ pc[c] = "launch"
    /\ informers[t] # None /\ t \notin started
    /\ runs' = [runs EXCEPT ![informers[t]] = @ + 1]
    /\ started' = started \cup {t}
    /\ UNCHANGED <<lock, informers, synced, stopped, pc, callVars>>

\* Mutant: the loop ends at the first informer that has been started before.
HastyStartReturns(c) ==
    /\ pc[c] = "launch"
    /\ started # {} \/ \A t \in Types : informers[t] = None
    /\ covered' = [covered EXCEPT ![c] = {got[c][t] : t \in Types} \ {None}]
    /\ Return(c)
    /\ UNCHANGED <<mapVars, synced, stopped, type, got, waits, calls>>

StartReturns(c) ==
    /\ pc[c] = "launch"
    /\ \A t \in Types : informers[t] # None => t \in started
    /\ covered' = [covered EXCEPT ![c] = {got[c][t] : t \in Types} \ {None}]
    /\ Return(c)
    /\ UNCHANGED <<mapVars, synced, stopped, type, got, waits, calls>>

\* Mutants: the lock is kept while waiting; informers not yet synced are left out.
LockedWait(c) ==
    /\ pc[c] = "WaitForCacheSync" /\ lock = None
    /\ lock' = c
    /\ waits' = [waits EXCEPT ![c] = {informers[t] : t \in started}]
    /\ Goto(c, "wait")
    /\ UNCHANGED <<mapVars, synced, stopped, type, got, covered, calls>>
ImpatientSnapshot(c) ==
    /\ pc[c] = "WaitForCacheSync" /\ lock = None
    /\ waits' = [waits EXCEPT ![c] = {informers[t] : t \in started} \cap synced]
    /\ Goto(c, "wait")
    /\ UNCHANGED <<lock, mapVars, synced, stopped, type, got, covered, calls>>

\* The started informers are copied under the lock, which is released again.
Snapshot(c) ==
    /\ pc[c] = "WaitForCacheSync" /\ lock = None
    /\ waits' = [waits EXCEPT ![c] = {informers[t] : t \in started}]
    /\ Goto(c, "wait")
    /\ UNCHANGED <<lock, mapVars, synced, stopped, type, got, covered, calls>>

\* cache.WaitForCacheSync for one of them: synced, or given up after the stop.
Await(c, i) ==
    /\ pc[c] = "wait" /\ i \in waits[c]
    /\ i \in synced \/ stopped
    /\ waits' = [waits EXCEPT ![c] = @ \ {i}]
    /\ UNCHANGED <<lock, mapVars, synced, stopped, pc, type, got, covered, calls>>

WaitReturns(c) ==
    /\ pc[c] = "wait" /\ waits[c] = {}
    /\ Goto(c, "idle")
    /\ UNCHANGED <<lock, mapVars, synced, stopped, callVars>>

\* The first list of a running informer has been stored, if it ever arrives.
CacheSyncs(i) ==
    /\ runs[i] > 0 /\ i \notin synced /\ ~ stopped
    /\ synced' = synced \cup {i}
    /\ UNCHANGED <<lock, mapVars, stopped, pc, callVars>>

Stop ==
    /\ ~ stopped
    /\ stopped' = TRUE
    /\ UNCHANGED <<lock, mapVars, synced, pc, callVars>>

Critical(c) ==
    \/ LookUp(c) \/ Make(c) \/ StartReturns(c)
    \/ \E t \in Types : Launch(c, t)

Enter(c) == Lock(c, "InformerFor", "lookUp") \/ Lock(c, "Start", "launch")

Next ==
    \/ \E c \in Callers, t \in Types : Call(c, "InformerFor", t)
    \/ \E c \in Callers, method \in {"Start", "WaitForCacheSync"} : Call(c, method, None)
    \/ \E c \in Callers : Enter(c) \/ Critical(c) \/ Snapshot(c) \/ WaitReturns(c)
    \/ \E c \in Callers : \E i \in waits[c] : Await(c, i)
    \/ \E i \in Made : CacheSyncs(i)
    \/ Stop

Spec == Init /\ [][Next]_vars

-----------------------------------------------------------------------------
\* All callers that ask for a type are given the same informer, and none is
\* made that the factory does not know.
InformersAreShared ==
    /\ \A c \in Callers, t \in Types : got[c][t] \in {None, informers[t]}
    /\ Made = {informers[t] : t \in Types} \ {None}

\* "This allows Start() to be called multiple times safely" (startedInformers):
\* no informer is run twice, whoever calls Start and how often.
RunsOnce == \A i \in Made : runs[i] <= 1

\* "Start initializes all requested informers": when it returns, whatever any
\* caller has been given is running.
StartIsComplete ==
    [][\A c \in Callers :
          pc[c] = "launch" /\ pc'[c] = "idle" =>
              \A d \in Callers, t \in Types : got[d][t] # None => runs[got[d][t]] > 0]_vars

\* "WaitForCacheSync waits for all started informers' cache were synced":
\* what a caller asked for and then started has synced when its wait returns,
\* whatever other callers did in between, unless the stop came first.
WaitIsComplete ==
    [][\A c \in Callers :
          pc[c] = "wait" /\ pc'[c] = "idle" /\ ~ stopped => covered[c] \subseteq synced]_vars

\* Whoever holds the lock can go on without anybody's help: a caller that waits
\* for caches, perhaps for ever, holds up nobody else.
HolderGoesOn == lock # None => ENABLED Critical(lock)

=============================================================================
