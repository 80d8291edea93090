--------------------------- MODULE LifecycleProofs ---------------------------
(***************************************************************************)
(* The safety of the process for any number of workers, and any bound on   *)
(* keys and signals.                                                       *)
(***************************************************************************)
EXTENDS Lifecycle, TLAPS

-----------------------------------------------------------------------------
(* No early sync: workers are launched after the wait, and what has synced *)
(* stays so.                                                               *)

Launched == {"block", "shutDown", "return"}

SyncInv ==
    /\ cache \in [Caches -> {"absent", "registered", "running", "synced"}]
    /\ worker \in [Workers -> {"absent", "until", "get", "sync", "gone"}]
    /\ main \in {"launch"} \cup Launched => AwaitedSynced
    /\ \A w \in Workers : worker[w] # "absent" => main \in Launched

LEMMA SyncInvInit == Init => SyncInv
BY DEF Init, SyncInv, Launched

\* main goes on: caches that have synced keep on being so, up to the launch.
LEMMA MainKeepsSyncInv ==
    ASSUME SyncInv, Main
    PROVE  SyncInv'
<1> USE DEF SyncInv, Launched, AwaitedSynced, MainGoes, Exit
<1>1. CASE SetupSignalHandler
    BY <1>1 DEF SetupSignalHandler
<1>2. CASE Configure
    BY <1>2 DEF Configure
<1>3. CASE NewController
    BY <1>3 DEF NewController
<1>4. CASE StartInformers
    BY <1>4 DEF StartInformers
<1>5. CASE AwaitCaches
    BY <1>5 DEF AwaitCaches
<1>6. CASE WaitFails
    BY <1>6 DEF WaitFails
<1>7. CASE LaunchWorkers
    BY <1>7 DEF LaunchWorkers
<1>8. CASE Block
    BY <1>8 DEF Block
<1>9. CASE ShutDown
    BY <1>9 DEF ShutDown
<1>10. CASE MainReturns
    BY <1>10 DEF MainReturns
<1> QED BY <1>1, <1>2, <1>3, <1>4, <1>5, <1>6, <1>7, <1>8, <1>9, <1>10 DEF Main

LEMMA WorkerKeepsSyncInv ==
    ASSUME SyncInv, NEW w \in Workers, Worker(w)
    PROVE  SyncInv'
<1>1. PICK to \in {"until", "get", "sync", "gone"} : WorkerGoes(w, to)
    BY DEF Worker, Until, Get, SyncEnds
<1>2. worker[w] # "absent"
    BY DEF Worker, Until, Get, SyncEnds
<1>3. \A v \in Workers : worker'[v] = IF v = w THEN to ELSE worker[v]
    BY <1>1 DEF WorkerGoes, SyncInv
<1> QED BY <1>1, <1>2, <1>3 DEF WorkerGoes, SyncInv, AwaitedSynced

LEMMA SyncInvStep == SyncInv /\ [Next]_vars => SyncInv'
<1> SUFFICES ASSUME SyncInv, [Next]_vars PROVE SyncInv'
    OBVIOUS
<1>1. CASE Signal \/ FirstSignal \/ SecondSignal \/ Enqueue
    BY <1>1 DEF Signal, FirstSignal, SecondSignal, Enqueue, Exit, SyncInv, AwaitedSynced
<1>2. CASE Main
    BY <1>2, MainKeepsSyncInv
<1>3. ASSUME NEW c \in Caches, CacheSyncs(c)
      PROVE  SyncInv'
    BY <1>3 DEF CacheSyncs, SyncInv, AwaitedSynced, Awaited, Caches
<1>4. ASSUME NEW w \in Workers, Worker(w)
      PROVE  SyncInv'
    BY <1>4, WorkerKeepsSyncInv
<1>5. ASSUME NEW w \in Workers, SyncPanics(w)
      PROVE  SyncInv'
    BY <1>5 DEF SyncPanics, Exit, SyncInv, AwaitedSynced
<1>6. CASE UNCHANGED vars
    BY <1>6 DEF vars, SyncInv, AwaitedSynced
<1> QED BY <1>1, <1>2, <1>3, <1>4, <1>5, <1>6 DEF Next

\* However many workers there are, none syncs before the Endpoints and the
\* ServiceRoutes have been listed.
THEOREM NoSyncIsEarly == SafetySpec => []NoEarlySync
<1>1. SyncInv => NoEarlySync
    BY DEF SyncInv, NoEarlySync, Launched
<1> QED BY <1>1, SyncInvInit, SyncInvStep, PTL DEF SafetySpec

-----------------------------------------------------------------------------
(* Types: the channel of the handler holds two signals, main and the       *)
(* workers are where they can be, and the process ends with known codes.   *)

LEMMA MainKeepsTypes ==
    ASSUME TypeOK, Main
    PROVE  TypeOK'
<1> USE DEF TypeOK, MainGoes, Exit
<1>1. CASE SetupSignalHandler
    BY <1>1 DEF SetupSignalHandler
<1>2. CASE Configure
    BY <1>2 DEF Configure
<1>3. CASE NewController
    BY <1>3 DEF NewController
<1>4. CASE StartInformers
    BY <1>4 DEF StartInformers
<1>5. CASE AwaitCaches
    BY <1>5 DEF AwaitCaches
<1>6. CASE WaitFails
    BY <1>6 DEF WaitFails
<1>7. CASE LaunchWorkers
    BY <1>7 DEF LaunchWorkers
<1>8. CASE Block
    BY <1>8 DEF Block
<1>9. CASE ShutDown
    BY <1>9 DEF ShutDown
<1>10. CASE MainReturns
    BY <1>10 DEF MainReturns
<1> QED BY <1>1, <1>2, <1>3, <1>4, <1>5, <1>6, <1>7, <1>8, <1>9, <1>10 DEF Main

LEMMA TypeInit ==
    ASSUME LifecycleAssumption, Init
    PROVE  TypeOK
<1>1. inbox \in 0 .. 2 /\ backlog \in 0 .. MaxBacklog /\ sent \in 0 .. MaxSignals
    BY DEF LifecycleAssumption, Init
<1>2. cache \in [Caches -> {"absent", "registered", "running", "synced"}]
    BY DEF Init
<1> QED BY <1>1, <1>2 DEF Init, TypeOK

LEMMA TypeStep ==
    ASSUME LifecycleAssumption, TypeOK, [Next]_vars
    PROVE  TypeOK'
<1> USE DEF TypeOK, LifecycleAssumption, Exit
<1>1. CASE Signal
    BY <1>1 DEF Signal
<1>2. CASE FirstSignal \/ SecondSignal
    <2>1. CASE FirstSignal
        BY <2>1 DEF FirstSignal
    <2>2. CASE SecondSignal
        BY <2>2 DEF SecondSignal
    <2> QED BY <1>2, <2>1, <2>2
<1>3. CASE Main
    BY <1>3, MainKeepsTypes
<1>4. CASE Enqueue
    BY <1>4 DEF Enqueue
<1>5. ASSUME NEW c \in Caches, CacheSyncs(c)
      PROVE  TypeOK'
    BY <1>5 DEF CacheSyncs
<1>6. ASSUME NEW w \in Workers, Worker(w)
      PROVE  TypeOK'
    BY <1>6 DEF Worker, Until, Get, SyncEnds, WorkerGoes
<1>7. ASSUME NEW w \in Workers, SyncPanics(w)
      PROVE  TypeOK'
    BY <1>7 DEF SyncPanics
<1>8. CASE UNCHANGED vars
    BY <1>8 DEF vars
<1> QED BY <1>1, <1>2, <1>3, <1>4, <1>5, <1>6, <1>7, <1>8 DEF Next

\* Every variable of the process keeps its type: in particular the channel for
\* signals never holds more than two, and no key is taken from an empty queue.
THEOREM TypeCorrect ==
    ASSUME LifecycleAssumption
    PROVE  SafetySpec => []TypeOK
<1>1. Init => TypeOK
    BY TypeInit
<1>2. TypeOK /\ [Next]_vars => TypeOK'
    BY TypeStep
<1> QED BY <1>1, <1>2, PTL DEF SafetySpec

-----------------------------------------------------------------------------
(* Exit codes: every signal is counted once, in the channel or by the      *)
(* handler, and main goes past the stop only after it.                     *)

SignalInv ==
    /\ inbox \in Nat /\ sent \in Nat
    /\ handler = "none" => inbox = 0 /\ ~ stop
    /\ handler = "first" => inbox <= sent /\ ~ stop
    /\ handler = "second" => inbox + 1 <= sent /\ stop
    /\ handler \in {"none", "first", "second"}
    /\ main = "signals" => handler = "none"

StopInv ==
    /\ main \in {"shutDown", "return", "failed"} => stop
    /\ main = "return" => queueDown
    /\ queueDown => stop
    /\ stop => sent >= 1
    /\ code = 1 => sent >= 2 /\ stop
    /\ code = 0 => stop /\ queueDown

CodeInv == SignalInv /\ StopInv

LEMMA CodeInvInit ==
    ASSUME LifecycleAssumption, Init
    PROVE  CodeInv
<1>1. Alive # 0 /\ Alive # 1
    BY DEF LifecycleAssumption
<1> QED BY <1>1 DEF Init, CodeInv, SignalInv, StopInv

LEMMA CodeInvStep == CodeInv /\ [Next]_vars => CodeInv'
<1> SUFFICES ASSUME CodeInv, [Next]_vars PROVE CodeInv'
    OBVIOUS
<1> USE DEF CodeInv, SignalInv, StopInv, Exit
<1>1. CASE Signal
    BY <1>1 DEF Signal
<1>2. CASE FirstSignal
    BY <1>2 DEF FirstSignal
<1>3. CASE SecondSignal
    BY <1>3 DEF SecondSignal
<1>4. CASE Main
    <2> USE DEF MainGoes
    <2>1. CASE SetupSignalHandler
        BY <2>1 DEF SetupSignalHandler
    <2>2. CASE Configure
        BY <2>2 DEF Configure
    <2>3. CASE NewController \/ StartInformers \/ AwaitCaches
        BY <2>3 DEF NewController, StartInformers, AwaitCaches
    <2>4. CASE WaitFails
        BY <2>4 DEF WaitFails
    <2>5. CASE LaunchWorkers
        BY <2>5 DEF LaunchWorkers
    <2>6. CASE Block
        BY <2>6 DEF Block
    <2>7. CASE ShutDown
        BY <2>7 DEF ShutDown
    <2>8. CASE MainReturns
        BY <2>8 DEF MainReturns
    <2> QED BY <1>4, <2>1, <2>2, <2>3, <2>4, <2>5, <2>6, <2>7, <2>8 DEF Main
<1>5. CASE Enqueue \/ \E c \in Caches : CacheSyncs(c)
    BY <1>5 DEF Enqueue, CacheSyncs
<1>6. ASSUME NEW w \in Workers, Worker(w) \/ SyncPanics(w)
      PROVE  CodeInv'
    BY <1>6 DEF Worker, Until, Get, SyncEnds, WorkerGoes, SyncPanics
<1>7. CASE UNCHANGED vars
    BY <1>7 DEF vars
<1> QED BY <1>1, <1>2, <1>3, <1>4, <1>5, <1>6, <1>7 DEF Next

\* The exit code of the process says what happened to it: 1 takes two signals,
\* and 0 a signal and an orderly end.
THEOREM CodesAreEarned ==
    ASSUME LifecycleAssumption
    PROVE  SafetySpec => []ExitCodesAreEarned
<1>1. Init => CodeInv
    BY CodeInvInit
<1>2. CodeInv => ExitCodesAreEarned
    BY DEF CodeInv, SignalInv, StopInv, ExitCodesAreEarned
<1> QED BY <1>1, <1>2, CodeInvStep, PTL DEF SafetySpec

=============================================================================
