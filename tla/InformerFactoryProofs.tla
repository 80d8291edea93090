------------------------ MODULE InformerFactoryProofs ------------------------
(***************************************************************************)
(* The factory hands out one informer per type and runs it once, for any   *)
(* number of types and of callers.                                         *)
(***************************************************************************)
EXTENDS InformerFactory, TLAPS

Labels == {"idle", "InformerFor", "lookUp", "make", "Start", "launch", "WaitForCacheSync", "wait"}

MapsInv ==
    /\ informers \in [Types -> Made \cup {None}]
    /\ started \subseteq Types
    /\ runs \in Seq(Nat)
    /\ got \in [Callers -> [Types -> Made \cup {None}]]

\* Callers inside the lock hold it, and ask for a type if they look one up.
LockInv ==
    /\ pc \in [Callers -> Labels]
    /\ type \in [Callers -> Types \cup {None}]
    /\ \A c \in Callers : pc[c] \in {"lookUp", "make", "launch"} <=> lock = c
    /\ \A c \in Callers : pc[c] \in {"InformerFor", "lookUp", "make"} => type[c] \in Types
    /\ \A c \in Callers : pc[c] = "make" => informers[type[c]] = None

\* One informer per type, run when its type is marked.
RunInv ==
    /\ \A t, u \in Types : informers[t] # None /\ informers[t] = informers[u] => t = u
    /\ \A t \in Types : informers[t] # None =>
           runs[informers[t]] = IF t \in started THEN 1 ELSE 0
    /\ \A t \in started : informers[t] # None

IInv == MapsInv /\ LockInv /\ RunInv /\ InformersAreShared

LEMMA InvInit ==
    ASSUME FactoryAssumption, Init
    PROVE  IInv
<1>1. runs = <<>> /\ Made = {}
    BY DEF Init, Made
<1>2. MapsInv
    BY <1>1 DEF Init, MapsInv
<1>3. LockInv
    BY DEF Init, LockInv, Labels, FactoryAssumption
<1>4. RunInv /\ InformersAreShared
    BY <1>1 DEF Init, RunInv, InformersAreShared
<1> QED BY <1>2, <1>3, <1>4 DEF IInv

\* A step of one caller that leaves the factory's maps alone.
LEMMA CallerKeeps ==
    ASSUME FactoryAssumption, IInv, NEW c \in Callers, NEW label \in Labels,
           Goto(c, label), UNCHANGED <<informers, started, runs, got>>,
           type' \in [Callers -> Types \cup {None}],
           \A d \in Callers \ {c} : type'[d] = type[d],
           label \in {"lookUp", "make", "launch"} => lock' = c,
           label \notin {"lookUp", "make", "launch"} => lock' # c,
           \A d \in Callers \ {c} : lock' = d <=> lock = d,
           label \in {"InformerFor", "lookUp", "make"} => type'[c] \in Types,
           label = "make" => informers[type'[c]] = None
    PROVE  IInv'
<1>1. Made' = Made
    BY DEF Made
<1>2. MapsInv' /\ RunInv' /\ InformersAreShared'
    BY <1>1 DEF IInv, MapsInv, RunInv, InformersAreShared
<1>3. pc' \in [Callers -> Labels] /\ \A d \in Callers : pc'[d] = IF d = c THEN label ELSE pc[d]
    BY DEF Goto, IInv, LockInv
<1>4. \A d \in Callers : pc'[d] \in {"lookUp", "make", "launch"} <=> lock' = d
    BY <1>3 DEF IInv, LockInv
<1>5. \A d \in Callers : pc'[d] \in {"InformerFor", "lookUp", "make"} => type'[d] \in Types
    BY <1>3 DEF IInv, LockInv
<1>6. \A d \in Callers : pc'[d] = "make" => informers'[type'[d]] = None
    BY <1>3 DEF IInv, LockInv
<1>7. LockInv'
    BY <1>3, <1>4, <1>5, <1>6 DEF LockInv
<1> QED BY <1>2, <1>7 DEF IInv

LEMMA CallKeeps ==
    ASSUME FactoryAssumption, IInv, NEW c \in Callers,
           \/ \E t \in Types : Call(c, "InformerFor", t)
           \/ \E method \in {"Start", "WaitForCacheSync"} : Call(c, method, None)
    PROVE  IInv'
<1>1. PICK method \in {"InformerFor", "Start", "WaitForCacheSync"}, t \in Types \cup {None} :
          Call(c, method, t) /\ (method = "InformerFor" => t \in Types)
    OBVIOUS
<1>2. /\ pc[c] = "idle" /\ Goto(c, method) /\ type' = [type EXCEPT ![c] = t]
      /\ UNCHANGED <<informers, started, runs, got, lock>>
    BY <1>1 DEF Call, mapVars
<1>3. method \in Labels
    BY DEF Labels
<1>4. /\ type' \in [Callers -> Types \cup {None}] /\ type'[c] = t
      /\ \A d \in Callers \ {c} : type'[d] = type[d]
    BY <1>2 DEF IInv, LockInv
<1>5. lock' # c
    BY <1>2 DEF IInv, LockInv
<1> QED BY <1>1, <1>2, <1>3, <1>4, <1>5, CallerKeeps

LEMMA EnterKeeps ==
    ASSUME FactoryAssumption, IInv, NEW c \in Callers, Enter(c)
    PROVE  IInv'
<1>1. PICK label \in {"lookUp", "launch"} :
          /\ pc[c] = (IF label = "lookUp" THEN "InformerFor" ELSE "Start")
          /\ lock = None /\ lock' = c /\ Goto(c, label)
          /\ UNCHANGED <<informers, started, runs, got, type>>
    BY DEF Enter, Lock, mapVars, callVars
<1>2. label \in Labels /\ \A d \in Callers : d # None
    BY DEF Labels, FactoryAssumption
<1>3. /\ type' \in [Callers -> Types \cup {None}]
      /\ label = "lookUp" => type'[c] \in Types
    BY <1>1 DEF IInv, LockInv
<1> QED BY <1>1, <1>2, <1>3, CallerKeeps

LEMMA LeaveKeeps ==
    ASSUME FactoryAssumption, IInv, NEW c \in Callers,
           StartReturns(c) \/ Snapshot(c) \/ WaitReturns(c)
    PROVE  IInv'
<1>1. PICK label \in {"idle", "wait"} :
          /\ Goto(c, label) /\ UNCHANGED <<informers, started, runs, got, type>>
          /\ \/ pc[c] = "launch" /\ lock' = None
             \/ pc[c] \in {"WaitForCacheSync", "wait"} /\ lock' = lock
    BY DEF StartReturns, Snapshot, WaitReturns, Return, mapVars, callVars
<1>2. label \in Labels /\ \A d \in Callers : d # None
    BY DEF Labels, FactoryAssumption
<1>3. lock' # c /\ \A d \in Callers \ {c} : lock' = d <=> lock = d
    BY <1>1, <1>2 DEF IInv, LockInv
<1>4. type' \in [Callers -> Types \cup {None}]
    BY <1>1 DEF IInv, LockInv
<1> QED BY <1>1, <1>2, <1>3, <1>4, CallerKeeps

\* The caller that is alone inside the lock and gives it back.
LEMMA ReturnKeepsLock ==
    ASSUME FactoryAssumption, LockInv, NEW c \in Callers, lock = c, Return(c), type' = type,
           \A d \in Callers \ {c} : pc[d] # "make"
    PROVE  LockInv'
<1>1. pc' \in [Callers -> Labels] /\ \A d \in Callers : pc'[d] = IF d = c THEN "idle" ELSE pc[d]
    BY DEF Return, Goto, LockInv, Labels
<1>2. lock' = None /\ \A d \in Callers : d # None
    BY DEF Return, FactoryAssumption
<1>3. \A d \in Callers \ {c} : pc[d] \notin {"lookUp", "make", "launch"}
    BY DEF LockInv
<1> QED BY <1>1, <1>2, <1>3 DEF LockInv

LEMMA LookUpKeeps ==
    ASSUME FactoryAssumption, IInv, NEW c \in Callers, LookUp(c)
    PROVE  IInv'
<1> DEFINE t == type[c]
<1>1. pc[c] = "lookUp" /\ lock = c /\ t \in Types
    BY DEF LookUp, IInv, LockInv
<1>2. \A d \in Callers \ {c} : pc[d] # "make"
    BY <1>1 DEF IInv, LockInv
<1>3. UNCHANGED <<informers, started, runs, type>> /\ Made' = Made
    BY DEF LookUp, mapVars, Made
<1>4. CASE informers[t] # None
    <2>1. got' = [got EXCEPT ![c][t] = informers[t]] /\ Return(c)
        BY <1>4 DEF LookUp
    <2>2. LockInv'
        BY <1>1, <1>2, <1>3, <2>1, ReturnKeepsLock DEF IInv
    <2>3. MapsInv'
        BY <1>1, <1>3, <1>4, <2>1 DEF IInv, MapsInv
    <2>4. \A d \in Callers, u \in Types :
              got'[d][u] = IF d = c /\ u = t THEN informers[t] ELSE got[d][u]
        BY <1>1, <2>1 DEF IInv, MapsInv
    <2>5. InformersAreShared'
        BY <1>3, <2>4 DEF IInv, InformersAreShared
    <2>6. RunInv'
        BY <1>3 DEF IInv, RunInv
    <2> QED BY <2>2, <2>3, <2>5, <2>6 DEF IInv
<1>5. CASE informers[t] = None
    <2>1. Goto(c, "make") /\ UNCHANGED <<lock, got>>
        BY <1>5 DEF LookUp
    <2>2. "make" \in Labels /\ type' \in [Callers -> Types \cup {None}]
        BY <1>3 DEF Labels, IInv, LockInv
    <2> QED BY <1>1, <1>3, <1>5, <2>1, <2>2, CallerKeeps
<1> QED BY <1>4, <1>5

\* A new informer gets a number that no type has.
LEMMA MakeKeeps ==
    ASSUME FactoryAssumption, IInv, NEW c \in Callers, Make(c)
    PROVE  IInv'
<1> DEFINE t == type[c]
           n == Len(runs)
<1>1. /\ pc[c] = "make" /\ lock = c /\ t \in Types /\ informers[t] = None
    BY DEF Make, IInv, LockInv
<1>2. /\ runs' = Append(runs, 0) /\ informers' = [informers EXCEPT ![t] = n + 1]
      /\ got' = [got EXCEPT ![c][t] = n + 1] /\ Return(c)
      /\ UNCHANGED <<started, type>>
    BY DEF Make
<1>3. LockInv'
    <2>1. \A d \in Callers \ {c} : pc[d] # "make"
        BY <1>1 DEF IInv, LockInv
    <2> QED BY <1>1, <1>2, <2>1, ReturnKeepsLock DEF IInv
<1>4. /\ runs' \in Seq(Nat) /\ Len(runs') = n + 1 /\ n \in Nat
      /\ runs'[n + 1] = 0 /\ \A i \in 1 .. n : runs'[i] = runs[i]
    BY <1>2 DEF IInv, MapsInv
<1>5. Made = 1 .. n /\ Made' = 1 .. n + 1 /\ Made' = Made \cup {n + 1} /\ n + 1 \notin Made
    BY <1>4 DEF Made
<1>6. None \notin Made' /\ n + 1 # None
    BY <1>4, <1>5 DEF FactoryAssumption
<1>7. /\ \A u \in Types : informers'[u] = IF u = t THEN n + 1 ELSE informers[u]
      /\ \A u \in Types : informers[u] \in Made \cup {None}
      /\ informers' \in [Types -> Made' \cup {None}]
    BY <1>1, <1>2, <1>5 DEF IInv, MapsInv
<1>8. /\ \A d \in Callers, u \in Types :
              got'[d][u] = IF d = c /\ u = t THEN n + 1 ELSE got[d][u]
      /\ got' \in [Callers -> [Types -> Made' \cup {None}]]
    BY <1>1, <1>2, <1>5 DEF IInv, MapsInv
<1>9. MapsInv'
    BY <1>2, <1>4, <1>7, <1>8 DEF IInv, MapsInv
<1>10. RunInv'
    <2>1. t \notin started
        BY <1>1 DEF IInv, RunInv, MapsInv
    <2>2. \A u \in Types : informers'[u] # None =>
              runs'[informers'[u]] = IF u \in started' THEN 1 ELSE 0
        BY <1>2, <1>4, <1>5, <1>7, <2>1 DEF IInv, RunInv
    <2>3. \A u, v \in Types : informers'[u] # None /\ informers'[u] = informers'[v] => u = v
        BY <1>5, <1>6, <1>7 DEF IInv, RunInv
    <2>4. \A u \in started' : informers'[u] # None
        BY <1>2, <1>6, <1>7 DEF IInv, RunInv, MapsInv
    <2> QED BY <2>2, <2>3, <2>4 DEF RunInv
<1>11. InformersAreShared'
    <2>1. \A d \in Callers, u \in Types : got'[d][u] \in {None, informers'[u]}
        BY <1>1, <1>7, <1>8 DEF IInv, InformersAreShared
    <2>2. {informers'[u] : u \in Types} \ {None}
              = ({informers[u] : u \in Types} \ {None}) \cup {n + 1}
        BY <1>1, <1>6, <1>7
    <2> QED BY <1>5, <2>1, <2>2 DEF IInv, InformersAreShared
<1> QED BY <1>3, <1>9, <1>10, <1>11 DEF IInv

LEMMA LaunchKeeps ==
    ASSUME FactoryAssumption, IInv, NEW c \in Callers, NEW t \in Types, Launch(c, t)
    PROVE  IInv'
<1> DEFINE i == informers[t]
<1>1. /\ i # None /\ t \notin started /\ runs' = [runs EXCEPT ![i] = @ + 1]
      /\ started' = started \cup {t} /\ UNCHANGED <<lock, informers, pc, type, got>>
    BY DEF Launch, callVars
<1>2. i \in Made /\ runs[i] = 0
    BY <1>1 DEF IInv, MapsInv, RunInv
<1>3. /\ runs' \in Seq(Nat) /\ Made' = Made
      /\ \A j \in Made : runs'[j] = IF j = i THEN 1 ELSE runs[j]
    BY <1>1, <1>2 DEF IInv, MapsInv, Made
<1>4. MapsInv' /\ LockInv' /\ InformersAreShared'
    BY <1>1, <1>3 DEF IInv, MapsInv, LockInv, InformersAreShared
<1>5. RunInv'
    <2>1. \A u \in Types : informers[u] \in Made \cup {None}
        BY DEF IInv, MapsInv
    <2>2. \A u \in Types : informers'[u] # None =>
              runs'[informers'[u]] = IF u \in started' THEN 1 ELSE 0
        BY <1>1, <1>2, <1>3, <2>1 DEF IInv, RunInv
    <2> QED BY <1>1, <2>2 DEF IInv, RunInv
<1> QED BY <1>4, <1>5 DEF IInv

LEMMA InvStep ==
    ASSUME FactoryAssumption, IInv, [Next]_vars
    PROVE  IInv'
<1>1. ASSUME NEW c \in Callers,
             \/ \E t \in Types : Call(c, "InformerFor", t)
             \/ \E method \in {"Start", "WaitForCacheSync"} : Call(c, method, None)
      PROVE  IInv'
    BY <1>1, CallKeeps
<1>2. ASSUME NEW c \in Callers, Enter(c) \/ Critical(c) \/ Snapshot(c) \/ WaitReturns(c)
      PROVE  IInv'
    BY <1>2, EnterKeeps, LeaveKeeps, LookUpKeeps, MakeKeeps, LaunchKeeps DEF Critical
<1>3. CASE \/ \E c \in Callers : \E i \in waits[c] : Await(c, i)
           \/ \E i \in Made : CacheSyncs(i)
           \/ Stop
           \/ UNCHANGED vars
    <2>1. UNCHANGED <<lock, informers, started, runs, pc, type, got>>
        BY <1>3 DEF Await, CacheSyncs, Stop, vars, mapVars, callVars
    <2>2. Made' = Made
        BY <2>1 DEF Made
    <2> QED BY <2>1, <2>2 DEF IInv, MapsInv, LockInv, RunInv, InformersAreShared
<1> QED BY <1>1, <1>2, <1>3 DEF Next

LEMMA InvHolds ==
    ASSUME FactoryAssumption
    PROVE  Spec => []IInv
<1>1. Init => IInv
    BY InvInit
<1>2. IInv /\ [Next]_vars => IInv'
    BY InvStep
<1> QED BY <1>1, <1>2, PTL DEF Spec

-----------------------------------------------------------------------------
\* All callers that ask for a type are given the same informer, however many
\* ask at the same time.
THEOREM OneInformerPerType ==
    ASSUME FactoryAssumption
    PROVE  Spec => []InformersAreShared
<1>1. IInv => InformersAreShared
    BY DEF IInv
<1> QED BY <1>1, InvHolds, PTL

\* No informer is run twice, however many callers call Start and how often.
THEOREM OneRunPerInformer ==
    ASSUME FactoryAssumption
    PROVE  Spec => []RunsOnce
<1>1. IInv => RunsOnce
    <2> SUFFICES ASSUME IInv, NEW i \in Made PROVE runs[i] <= 1
        BY DEF RunsOnce
    <2>1. PICK t \in Types : informers[t] = i /\ informers[t] # None
        BY DEF IInv, InformersAreShared
    <2>2. runs[i] \in {0, 1}
        BY <2>1 DEF IInv, RunInv
    <2> QED BY <2>2
<1> QED BY <1>1, InvHolds, PTL

-----------------------------------------------------------------------------
(* Start and WaitForCacheSync: what a caller had when its Start returned   *)
(* has been started, and its wait has not lost sight of it.                *)

StartedInformers == {informers[t] : t \in started}

WaitTypes ==
    /\ lock \in Callers \cup {None} /\ synced \subseteq Made /\ stopped \in BOOLEAN
    /\ covered \in [Callers -> SUBSET Made] /\ waits \in [Callers -> SUBSET Made]
    /\ calls \in [Callers -> 0 .. MaxCalls]

WaitInv ==
    \A c \in Callers :
        /\ covered[c] \subseteq StartedInformers
        /\ pc[c] = "wait" /\ ~ stopped => covered[c] \subseteq synced \cup waits[c]

StartInv == IInv /\ WaitTypes /\ WaitInv

LEMMA StartInvInit ==
    ASSUME FactoryAssumption, Init
    PROVE  StartInv
<1>1. IInv
    BY InvInit
<1>2. calls \in [Callers -> 0 .. MaxCalls]
    BY DEF Init, FactoryAssumption
<1>3. WaitTypes
    BY <1>2 DEF Init, WaitTypes
<1>4. WaitInv
    BY DEF Init, WaitInv
<1> QED BY <1>1, <1>3, <1>4 DEF StartInv

\* What has been made and what has been started stays so.
LEMMA FactoryGrows ==
    ASSUME FactoryAssumption, IInv, [Next]_vars
    PROVE  /\ Made \subseteq Made' /\ StartedInformers \subseteq StartedInformers'
           /\ StartedInformers \subseteq Made
<1>1. StartedInformers \subseteq Made
    BY DEF StartedInformers, IInv, MapsInv, RunInv
<1>2. CASE UNCHANGED <<informers, started, runs>>
    BY <1>1, <1>2 DEF Made, StartedInformers
<1>3. ASSUME NEW c \in Callers, Make(c)
      PROVE  Made \subseteq Made' /\ StartedInformers \subseteq StartedInformers'
    <2>1. Made \subseteq Made'
        <3>1. runs \in Seq(Nat) /\ runs' = Append(runs, 0)
            BY <1>3 DEF Make, IInv, MapsInv
        <3>2. Len(runs) \in Nat /\ Len(runs') = Len(runs) + 1
            BY <3>1
        <3> QED BY <3>2 DEF Made
    <2>2. informers[type[c]] = None /\ started' = started /\ started \subseteq Types
        BY <1>3 DEF Make, IInv, LockInv, MapsInv
    <2>3. \A t \in started : informers'[t] = informers[t]
        BY <1>3, <2>2 DEF Make, IInv, MapsInv, RunInv
    <2> QED BY <2>1, <2>2, <2>3 DEF StartedInformers
<1>4. ASSUME NEW c \in Callers, NEW t \in Types, Launch(c, t)
      PROVE  Made \subseteq Made' /\ StartedInformers \subseteq StartedInformers'
    <2>1. Made' = Made
        BY <1>4 DEF Launch, Made, IInv, MapsInv
    <2> QED BY <1>4, <2>1 DEF Launch, StartedInformers
<1> QED BY <1>1, <1>2, <1>3, <1>4 DEF Next, vars, mapVars, Call, Enter, Lock, Critical, LookUp,
           StartReturns, Snapshot, WaitReturns, Await, CacheSyncs, Stop

\* What the steps of one caller do to the others' view: nothing.
LEMMA CallerKeepsWaits ==
    ASSUME FactoryAssumption, StartInv, NEW c \in Callers,
           \/ \E t \in Types : Call(c, "InformerFor", t)
           \/ \E method \in {"Start", "WaitForCacheSync"} : Call(c, method, None)
           \/ Enter(c) \/ Critical(c) \/ Snapshot(c) \/ WaitReturns(c)
           \/ \E i \in waits[c] : Await(c, i),
           Made \subseteq Made', StartedInformers \subseteq StartedInformers',
           StartedInformers \subseteq Made
    PROVE  WaitTypes' /\ WaitInv'
<1> USE DEF StartInv
<1>1. pc \in [Callers -> Labels]
    BY DEF IInv, LockInv
<1>2. ASSUME UNCHANGED <<synced, stopped, covered, waits>>, NEW label, Goto(c, label), label # "wait",
             lock' \in Callers \cup {None}, calls' \in [Callers -> 0 .. MaxCalls]
      PROVE  WaitTypes' /\ WaitInv'
    <2>1. WaitTypes'
        BY <1>2 DEF WaitTypes
    <2>2. \A d \in Callers : pc'[d] = "wait" => pc[d] = "wait"
        BY <1>1, <1>2 DEF Goto
    <2>3. WaitInv'
        BY <1>2, <2>2 DEF WaitInv
    <2> QED BY <2>1, <2>3
<1>3. ASSUME NEW method \in {"InformerFor", "Start", "WaitForCacheSync"}, NEW t, Call(c, method, t)
      PROVE  WaitTypes' /\ WaitInv'
    <2>1. calls' \in [Callers -> 0 .. MaxCalls]
        BY <1>3 DEF Call, WaitTypes, FactoryAssumption
    <2> QED BY <1>2, <1>3, <2>1 DEF Call, WaitTypes
<1>4. CASE Enter(c)
    BY <1>2, <1>4 DEF Enter, Lock, callVars, WaitTypes
<1>5. CASE LookUp(c) \/ Make(c)
    BY <1>2, <1>5 DEF LookUp, Make, Return, WaitTypes
<1>6. CASE WaitReturns(c)
    BY <1>2, <1>6 DEF WaitReturns, callVars, WaitTypes
<1>7. ASSUME NEW t \in Types, Launch(c, t)
      PROVE  WaitTypes' /\ WaitInv'
    BY <1>7 DEF Launch, callVars, WaitTypes, WaitInv
<1>8. CASE StartReturns(c)
    <2> DEFINE mine == {got[c][t] : t \in Types} \ {None}
    <2>1. /\ UNCHANGED <<informers, started, runs, synced, stopped, waits, calls>>
          /\ covered' = [covered EXCEPT ![c] = mine] /\ lock' = None /\ Goto(c, "idle")
        BY <1>8 DEF StartReturns, Return, mapVars
    <2>2. mine \subseteq StartedInformers
        <3> SUFFICES ASSUME NEW t \in Types, got[c][t] # None PROVE got[c][t] \in StartedInformers
            OBVIOUS
        <3>1. got[c][t] = informers[t]
            BY DEF IInv, InformersAreShared
        <3> QED BY <1>8, <3>1 DEF StartReturns, StartedInformers
    <2> HIDE DEF mine
    <2>3. WaitTypes'
        BY <2>1, <2>2 DEF WaitTypes
    <2>4. \A d \in Callers : pc'[d] = "wait" => pc[d] = "wait" /\ d # c
        BY <1>1, <2>1 DEF Goto
    <2>5. \A d \in Callers : covered'[d] = IF d = c THEN mine ELSE covered[d]
        BY <2>1 DEF WaitTypes
    <2> QED BY <2>1, <2>2, <2>3, <2>4, <2>5 DEF WaitInv
<1>9. CASE Snapshot(c)
    <2>1. /\ UNCHANGED <<lock, synced, stopped, covered, calls>>
          /\ waits' = [waits EXCEPT ![c] = StartedInformers] /\ Goto(c, "wait")
        BY <1>9 DEF Snapshot, StartedInformers
    <2>2. WaitTypes'
        BY <2>1 DEF WaitTypes
    <2>3. \A d \in Callers : /\ waits'[d] = IF d = c THEN StartedInformers ELSE waits[d]
                             /\ d # c => pc'[d] = pc[d]
        BY <1>1, <2>1 DEF WaitTypes, Goto
    <2> QED BY <2>1, <2>2, <2>3 DEF WaitInv
<1>10. ASSUME NEW i \in waits[c], Await(c, i)
       PROVE  WaitTypes' /\ WaitInv'
    <2>1. /\ UNCHANGED <<lock, synced, stopped, pc, covered, calls>>
          /\ waits' = [waits EXCEPT ![c] = @ \ {i}] /\ (i \in synced \/ stopped)
        BY <1>10 DEF Await
    <2>2. WaitTypes'
        BY <2>1 DEF WaitTypes
    <2>3. \A d \in Callers : waits'[d] = IF d = c THEN waits[d] \ {i} ELSE waits[d]
        BY <2>1 DEF WaitTypes
    <2> QED BY <2>1, <2>2, <2>3 DEF WaitInv
<1> QED BY <1>3, <1>4, <1>5, <1>6, <1>7, <1>8, <1>9, <1>10 DEF Critical

LEMMA StartInvStep ==
    ASSUME FactoryAssumption, StartInv, [Next]_vars
    PROVE  StartInv'
<1>1. IInv'
    BY InvStep DEF StartInv
<1>2. /\ Made \subseteq Made' /\ StartedInformers \subseteq StartedInformers'
      /\ StartedInformers \subseteq Made
    BY FactoryGrows DEF StartInv
<1>3. WaitTypes' /\ WaitInv'
    <2>1. ASSUME NEW i \in Made, CacheSyncs(i)
          PROVE  WaitTypes' /\ WaitInv'
        BY <1>2, <2>1 DEF CacheSyncs, callVars, StartInv, WaitTypes, WaitInv
    <2>2. CASE Stop
        BY <1>2, <2>2 DEF Stop, callVars, StartInv, WaitTypes, WaitInv
    <2>3. CASE UNCHANGED vars
        BY <1>2, <2>3 DEF vars, callVars, StartInv, WaitTypes, WaitInv
    <2> QED BY <1>2, <2>1, <2>2, <2>3, CallerKeepsWaits DEF Next
<1> QED BY <1>1, <1>3 DEF StartInv

LEMMA StartInvHolds ==
    ASSUME FactoryAssumption
    PROVE  Spec => []StartInv
<1>1. Init => StartInv
    BY StartInvInit
<1>2. StartInv /\ [Next]_vars => StartInv'
    BY StartInvStep
<1> QED BY <1>1, <1>2, PTL DEF Spec

LEMMA StartInvTypes == StartInv => TypeOK
BY DEF StartInv, IInv, MapsInv, LockInv, WaitTypes, TypeOK, Labels

\* Every variable of the factory keeps its type: in particular no caller is
\* ever given, or waits for, an informer that has not been made.
THEOREM TypeCorrect ==
    ASSUME FactoryAssumption
    PROVE  Spec => []TypeOK
BY StartInvTypes, StartInvHolds, PTL

\* The step with which a Start returns, and the one with which a wait returns.
LEMMA ReturnsAreComplete ==
    ASSUME FactoryAssumption, StartInv, [Next]_vars, NEW c \in Callers, pc'[c] = "idle"
    PROVE  /\ pc[c] = "launch" =>
                  \A d \in Callers, t \in Types : got[d][t] # None => runs[got[d][t]] > 0
           /\ pc[c] = "wait" /\ ~ stopped => covered[c] \subseteq synced
<1>1. pc \in [Callers -> Labels]
    BY DEF StartInv, IInv, LockInv
<1>2. ASSUME pc[c] = "launch"
      PROVE  StartReturns(c)
    BY <1>1, <1>2 DEF Next, vars, Call, Enter, Lock, Critical, LookUp, Make, Return, Goto, Launch,
          StartReturns, Snapshot, WaitReturns, Await, CacheSyncs, Stop
<1>3. ASSUME pc[c] = "wait"
      PROVE  WaitReturns(c)
    BY <1>1, <1>3 DEF Next, vars, Call, Enter, Lock, Critical, LookUp, Make, Return, Goto, Launch,
          StartReturns, Snapshot, WaitReturns, Await, CacheSyncs, Stop
<1>4. ASSUME pc[c] = "launch", NEW d \in Callers, NEW t \in Types, got[d][t] # None
      PROVE  runs[got[d][t]] > 0
    <2>1. got[d][t] = informers[t]
        BY <1>4 DEF StartInv, IInv, InformersAreShared
    <2>2. t \in started
        BY <1>2, <1>4, <2>1 DEF StartReturns
    <2>3. runs[informers[t]] = 1
        BY <1>4, <2>1, <2>2 DEF StartInv, IInv, RunInv
    <2> QED BY <2>1, <2>3
<1>5. ASSUME pc[c] = "wait", ~ stopped
      PROVE  covered[c] \subseteq synced
    BY <1>3, <1>5 DEF WaitReturns, StartInv, WaitInv
<1> QED BY <1>4, <1>5

\* When Start returns to its caller, every informer that anybody was given is
\* running, also those that others asked for or started in the meantime.
THEOREM StartsAll ==
    ASSUME FactoryAssumption
    PROVE  Spec => StartIsComplete
<1>1. ASSUME StartInv, [Next]_vars
      PROVE  [\A c \in Callers :
                 pc[c] = "launch" /\ pc'[c] = "idle" =>
                    \A d \in Callers, t \in Types : got[d][t] # None => runs[got[d][t]] > 0]_vars
    BY <1>1, ReturnsAreComplete
<1> QED BY <1>1, StartInvHolds, PTL DEF Spec, StartIsComplete

\* When WaitForCacheSync returns before the stop, the informers that its caller
\* had when its Start returned have synced, whatever others did meanwhile.
THEOREM WaitsForAll ==
    ASSUME FactoryAssumption
    PROVE  Spec => WaitIsComplete
<1>1. ASSUME StartInv, [Next]_vars
      PROVE  [\A c \in Callers :
                 pc[c] = "wait" /\ pc'[c] = "idle" /\ ~ stopped => covered[c] \subseteq synced]_vars
    BY <1>1, ReturnsAreComplete
<1> QED BY <1>1, StartInvHolds, PTL DEF Spec, WaitIsComplete

\* The guards of a step of Critical: a caller looks up, makes an informer, or
\* has an informer left to launch or none left.
MayGoOn(c) ==
    \/ pc[c] \in {"lookUp", "make"}
    \/ pc[c] = "launch" /\ \/ \E t \in Types : informers[t] # None /\ t \notin started
                           \/ \A t \in Types : informers[t] # None => t \in started

HolderMayGoOn == lock # None => lock \in Callers /\ MayGoOn(lock)

\* Whoever holds the lock is at a step whose guards hold, never at one that
\* waits for the lock or for caches: HolderGoesOn with the guards spelled out
\* where that has ENABLED.
THEOREM HolderIsNotHeldUp ==
    ASSUME FactoryAssumption
    PROVE  Spec => []HolderMayGoOn
<1>1. Init => lock \in Callers \cup {None}
    BY DEF Init
<1>2. lock \in Callers \cup {None} /\ [Next]_vars => (lock \in Callers \cup {None})'
    BY DEF Next, vars, Call, Enter, Lock, Critical, LookUp, Make, Return, Launch, StartReturns,
          Snapshot, WaitReturns, Await, CacheSyncs, Stop
<1>3. IInv /\ lock \in Callers \cup {None} => HolderMayGoOn
    BY DEF IInv, LockInv, HolderMayGoOn, MayGoOn
<1> QED BY <1>1, <1>2, <1>3, InvHolds, PTL DEF Spec

=============================================================================
