------------------------------ MODULE MCProcess ------------------------------
(***************************************************************************)
(* The controller's process: the work queue and its workers (WorkQueue),   *)
(* main, signals and exit codes (Lifecycle), and the factories that make   *)
(* its informers (InformerFactory).  Lifecycle has its own, coarser, view  *)
(* of the queue; the three share no variable, and a behaviour exercises    *)
(* one of them while the others rest.                                      *)
(***************************************************************************)
EXTENDS WorkQueue

CONSTANTS
    Alive, MaxBacklog, MaxSignals,          \* of Lifecycle
    Types, Callers, MaxCalls                \* of InformerFactory

VARIABLES
    part,                                   \* the module that moves
    main, handler, inbox, stop, cache, worker, backlog, queueDown, code,
    sent,                                   \* of Lifecycle
    lock, informers, started, runs, synced, stopped, callPc, type, got, covered, waits,
    calls                                   \* of InformerFactory

lifeVars == <<main, handler, inbox, stop, cache, worker, backlog, queueDown, code, sent>>
factoryVars == <<lock, informers, started, runs, synced, stopped, callPc, type, got,
                 covered, waits, calls>>
processVars == <<part, vars, lifeVars, factoryVars>>

Life == INSTANCE Lifecycle
Factory == INSTANCE InformerFactory WITH pc <- callPc

ASSUME ProcessAssumption == Life!LifecycleAssumption /\ Factory!FactoryAssumption

ProcessInit ==
    /\ part \in {"queue", "life", "factory"}
    /\ Init /\ Life!Init /\ Factory!Init

ProcessNext ==
    /\ UNCHANGED part
    /\ \/ part = "queue" /\ Next /\ UNCHANGED <<lifeVars, factoryVars>>
       \/ part = "life" /\ Life!Next /\ UNCHANGED <<vars, factoryVars>>
       \/ part = "factory" /\ Factory!Next /\ UNCHANGED <<vars, lifeVars>>

(* The fairness of WorkQueue and of Lifecycle, for the behaviours in which *)
(* they are what moves.                                                    *)
QueueMoves == part = "queue"
LifeMoves == part = "life" /\ code = Alive
ProcessFairness ==
    /\ \A w \in Workers : WF_vars(QueueMoves /\ ~ shuttingDown /\ Worker(w))
    /\ \A k \in Keys : WF_vars(QueueMoves /\ ~ shuttingDown /\ BackOffEnds(k))
    /\ WF_lifeVars(LifeMoves /\ Life!Main)
    /\ WF_lifeVars(LifeMoves /\ (Life!FirstSignal \/ Life!SecondSignal))
    /\ \A w \in Workers : WF_lifeVars(LifeMoves /\ Life!Worker(w))

ProcessSpec == ProcessInit /\ [][ProcessNext]_processVars /\ ProcessFairness

-----------------------------------------------------------------------------
(* The properties of the instances, under the names they have there.       *)

\* The variables of the process and of the factory keep to their types.
TypesOK == Life!TypeOK /\ Factory!TypeOK

\* No sync begins before the caches that the workers wait for have synced.
NoEarlySync == Life!NoEarlySync

\* Exit code 1 takes a second signal, exit code 0 a signal and an orderly end.
ExitCodesAreEarned == Life!ExitCodesAreEarned

\* A signal ends the process, wherever it is.
SignalEndsProcess == Life!SignalEndsProcess

\* Once the awaited caches have synced, a waiting key is taken, or the process ends.
KeysAreTaken == Life!KeysAreTaken

\* All callers that ask for a type are given the one informer of that type.
InformersAreShared == Factory!InformersAreShared

\* No informer is run twice, whoever calls Start and how often.
RunsOnce == Factory!RunsOnce

\* When Start returns, every informer that has been handed out is running.
StartIsComplete == Factory!StartIsComplete

\* When WaitForCacheSync returns before the stop, what its caller had started
\* has synced.
WaitIsComplete == Factory!WaitIsComplete

\* Whoever holds the factory's lock can go on without anybody's help.
HolderGoesOn == Factory!HolderGoesOn

=============================================================================
