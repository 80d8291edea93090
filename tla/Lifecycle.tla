------------------------------ MODULE Lifecycle ------------------------------
(***************************************************************************)
(* The controller's process from main to its exit: the goroutines of main  *)
(* (with Controller.Run), of the signal handler (pkg/signals), of the      *)
(* informers and of the workers.  When the process ends, whatever its      *)
(* other goroutines were doing ends with it.                               *)
(*                                                                         *)
(* The work queue is reduced to the number of its keys, a sync to its      *)
(* beginning and its end.                                                  *)
(***************************************************************************)
EXTENDS Naturals

CONSTANTS
    Workers,        \* the goroutines that Run launches (two, in main)
    Alive,          \* no exit code yet
    MaxBacklog,     \* bound on the keys in the queue
    MaxSignals      \* bound on the signals sent to the process

Caches == {"endpoints", "services", "serviceroutes"}
Awaited == {"endpoints", "serviceroutes"}   \* deploymentsSynced, foosSynced

LifecycleAssumption ==
    /\ Alive \notin Nat
    /\ MaxBacklog \in Nat /\ MaxSignals \in Nat

VARIABLES
    main,           \* where the goroutine of main is
    handler,        \* the signal that the handler's goroutine waits for
    inbox,          \* signals in its channel, which holds two
    stop,           \* stopCh is closed
    cache,          \* informer |-> how far it is
    worker,         \* goroutine of wait.Until |-> where it is
    backlog,        \* keys in the queue
    queueDown,      \* the queue has been shut down
    code,           \* exit code of the process, or Alive
    sent            \* signals sent so far

vars == <<main, handler, inbox, stop, cache, worker, backlog, queueDown, code, sent>>

TypeOK ==
    /\ main \in {"signals", "configs", "factories", "startKube", "startRoutes", "check",
                 "poll", "launch", "block", "shutDown", "return", "failed"}
    /\ handler \in {"none", "first", "second"}
    /\ inbox \in 0 .. 2
    /\ stop \in BOOLEAN
    /\ cache \in [Caches -> {"absent", "registered", "running", "synced"}]
    /\ worker \in [Workers -> {"absent", "until", "get", "sync", "gone"}]
    /\ backlog \in 0 .. MaxBacklog
    /\ queueDown \in BOOLEAN
    /\ code \in {Alive, 0, 1, 2, 143, 255}
    /\ sent \in 0 .. MaxSignals

Init ==
    /\ main = "signals"
    /\ handler = "none"
    /\ inbox = 0
    /\ stop = FALSE
    /\ cache = [c \in Caches |-> "absent"]
    /\ worker = [w \in Workers |-> "absent"]
    /\ backlog = 0
    /\ queueDown = FALSE
    /\ code = Alive
    /\ sent = 0

Exit(n) == code' = n

-----------------------------------------------------------------------------
(* Signals.                                                                *)

\* Mutant: the channel has no limit.
RoomySignal ==
    /\ handler # "none" /\ sent < MaxSignals
    /\ sent' = sent + 1
    /\ inbox' = inbox + 1
    /\ UNCHANGED <<main, handler, stop, cache, worker, backlog, queueDown, code>>

\* A signal that comes before Notify kills the process; one that does not
\* fit into the channel is dropped.
Signal ==
    /\ sent < MaxSignals
    /\ sent' = sent + 1
    /\ IF handler = "none"
       THEN Exit(143) /\ UNCHANGED inbox
       ELSE inbox' = (IF inbox < 2 THEN inbox + 1 ELSE inbox) /\ UNCHANGED code
    /\ UNCHANGED <<main, handler, stop, cache, worker, backlog, queueDown>>

SetupSignalHandler ==
    /\ main = "signals"
    /\ handler' = "first"
    /\ main' = "configs"
    /\ UNCHANGED <<inbox, stop, cache, worker, backlog, queueDown, code, sent>>

\* Mutant: the process exits at once.
ExitAtFirst ==
    /\ handler = "first" /\ inbox > 0
    /\ Exit(1)
    /\ UNCHANGED <<main, handler, inbox, stop, cache, worker, backlog, queueDown, sent>>

FirstSignal ==
    /\ handler = "first" /\ inbox > 0
    /\ inbox' = inbox - 1
    /\ stop' = TRUE
    /\ handler' = "second"
    /\ UNCHANGED <<main, cache, worker, backlog, queueDown, code, sent>>

SecondSignal ==
    /\ handler = "second" /\ inbox > 0
    /\ Exit(1)
    /\ UNCHANGED <<main, handler, inbox, stop, cache, worker, backlog, queueDown, sent>>

-----------------------------------------------------------------------------
(* main, NewController and Run.                                            *)

MainGoes(from, to) ==
    /\ main = from
    /\ main' = to
    /\ UNCHANGED <<handler, inbox, stop, worker, backlog, queueDown, code, sent>>

\* Configurations and clients; any error of them is fatal.
Configure ==
    \/ MainGoes("configs", "factories") /\ UNCHANGED cache
    \/ /\ main = "configs"
       /\ Exit(255)
       /\ UNCHANGED <<main, handler, inbox, stop, cache, worker, backlog, queueDown, sent>>

NewController ==
    /\ MainGoes("factories", "startKube")
    /\ cache' = [c \in Caches |-> "registered"]

\* Start of kubeInformerFactory, then of exampleInformerFactory.
StartInformers ==
    \/ /\ MainGoes("startKube", "startRoutes")
       /\ cache' = [cache EXCEPT !["endpoints"] = "running", !["services"] = "running"]
    \/ /\ MainGoes("startRoutes", "check")
       /\ cache' = [cache EXCEPT !["serviceroutes"] = "running"]

AwaitedSynced == \A c \in Awaited : cache[c] = "synced"

\* Mutants: only Endpoints are awaited; the caches are looked at only once.
AwaitEndpoints ==
    /\ main \in {"check", "poll"}
    /\ MainGoes(main, IF cache["endpoints"] = "synced" THEN "launch" ELSE "poll")
    /\ UNCHANGED cache
AwaitOnce ==
    /\ main = "check"
    /\ MainGoes(main, IF AwaitedSynced THEN "launch" ELSE "poll")
    /\ UNCHANGED cache

\* cache.WaitForCacheSync looks at the caches once, then again and again.
AwaitCaches ==
    \/ MainGoes("check", IF AwaitedSynced THEN "launch" ELSE "poll") /\ UNCHANGED cache
    \/ AwaitedSynced /\ MainGoes("poll", "launch") /\ UNCHANGED cache

\* Mutant: the wait for the caches does not end with the stop.
DeafWait == FALSE /\ UNCHANGED vars

\* The wait ends with the stop: Run returns an error, with the queue shut down.
WaitFails ==
    /\ main = "poll" /\ stop
    /\ main' = "failed"
    /\ queueDown' = TRUE
    /\ UNCHANGED <<handler, inbox, stop, cache, worker, backlog, code, sent>>

\* go wait.Until(c.runWorker, time.Second, stopCh), threadiness times.
LaunchWorkers ==
    /\ main = "launch"
    /\ main' = "block"
    /\ worker' = [w \in Workers |-> "until"]
    /\ UNCHANGED <<handler, inbox, stop, cache, backlog, queueDown, code, sent>>

\* <-stopCh
Block == stop /\ MainGoes("block", "shutDown") /\ UNCHANGED cache

\* The deferred ShutDown, with which Run returns nil.
ShutDown ==
    /\ main = "shutDown"
    /\ main' = "return"
    /\ queueDown' = TRUE
    /\ UNCHANGED <<handler, inbox, stop, cache, worker, backlog, code, sent>>

MainReturns ==
    /\ main \in {"return", "failed"}
    /\ Exit(IF main = "return" THEN 0 ELSE 255)
    /\ UNCHANGED <<main, handler, inbox, stop, cache, worker, backlog, queueDown, sent>>

Main ==
    \/ SetupSignalHandler \/ Configure \/ NewController \/ StartInformers \/ AwaitCaches
    \/ WaitFails \/ LaunchWorkers \/ Block \/ ShutDown \/ MainReturns

-----------------------------------------------------------------------------
(* Informers and workers.                                                  *)

\* The first list has been stored, unless the informer was stopped before.
CacheSyncs(c) ==
    /\ cache[c] = "running" /\ ~ stop
    /\ cache' = [cache EXCEPT ![c] = "synced"]
    /\ UNCHANGED <<main, handler, inbox, stop, worker, backlog, queueDown, code, sent>>

\* An event handler adds a key; a queue that is shut down takes none.
Enqueue ==
    /\ \E c \in Awaited : cache[c] \in {"running", "synced"}
    /\ ~ queueDown /\ backlog < MaxBacklog
    /\ backlog' = backlog + 1
    /\ UNCHANGED <<main, handler, inbox, stop, cache, worker, queueDown, code, sent>>

WorkerGoes(w, to) ==
    /\ worker' = [worker EXCEPT ![w] = to]
    /\ UNCHANGED <<main, handler, inbox, stop, cache, queueDown, code, sent>>

\* wait.Until calls runWorker, now and a second after it has returned, but
\* not after the stop.
Until(w) ==
    /\ worker[w] = "until"
    /\ WorkerGoes(w, IF stop THEN "gone" ELSE "get")
    /\ UNCHANGED backlog

\* Get hands out keys until the queue is empty, also after the shutdown.
Get(w) ==
    /\ worker[w] = "get"
    /\ \/ backlog > 0 /\ backlog' = backlog - 1 /\ WorkerGoes(w, "sync")
       \/ backlog = 0 /\ queueDown /\ UNCHANGED backlog /\ WorkerGoes(w, "until")

SyncEnds(w) == worker[w] = "sync" /\ WorkerGoes(w, "get") /\ UNCHANGED backlog

\* HandleCrash logs a panic of a sync and panics again.
SyncPanics(w) ==
    /\ worker[w] = "sync"
    /\ Exit(2)
    /\ UNCHANGED <<main, handler, inbox, stop, cache, worker, backlog, queueDown, sent>>

Worker(w) == Until(w) \/ Get(w) \/ SyncEnds(w)

Next ==
    /\ code = Alive
    /\ \/ Signal \/ FirstSignal \/ SecondSignal \/ Main \/ Enqueue
       \/ \E c \in Caches : CacheSyncs(c)
       \/ \E w \in Workers : Worker(w) \/ SyncPanics(w)

SafetySpec == Init /\ [][Next]_vars

(* Goroutines are scheduled and syncs end.  Signals, keys and panics come  *)
(* or stay away, and the API servers may never answer a list.              *)
Fairness ==
    /\ WF_vars(code = Alive /\ Main)
    /\ WF_vars(code = Alive /\ (FirstSignal \/ SecondSignal))
    /\ \A w \in Workers : WF_vars(code = Alive /\ Worker(w))

Spec == SafetySpec /\ Fairness

-----------------------------------------------------------------------------
\* No sync begins before the Endpoints and the ServiceRoutes that exist are
\* in the caches, so that none is taken for deleted at the start.
NoEarlySync == \A w \in Workers : worker[w] = "sync" => AwaitedSynced

\* "If a second signal is caught, the program is terminated with exit code 1",
\* and only then; it ends with 0 only on a signal, with the queue shut down.
ExitCodesAreEarned ==
    /\ code = 1 => sent >= 2 /\ stop
    /\ code = 0 => sent >= 1 /\ stop /\ queueDown
    /\ queueDown => stop

\* A signal ends the process, wherever it is: while it starts, while it waits
\* for caches that never sync, and while workers are in the middle of syncs.
SignalEndsProcess == sent > 0 ~> code # Alive

\* Workers come up as soon as Endpoints and ServiceRoutes have synced,
\* whatever becomes of the Services: a waiting key is taken, or the process ends.
KeysAreTaken ==
    AwaitedSynced /\ backlog > 0 ~> code # Alive \/ \E w \in Workers : worker[w] = "sync"

\* "it will shutdown the workqueue and wait for workers to finish processing
\* their current work items" (Run): the process does not return from main
\* while a worker is in the middle of a sync.
WorkersFinish == [][code' = 0 => \A w \in Workers : worker[w] # "sync"]_vars

\* "Wait for the caches to be synced before starting workers" (Run), which
\* reads the Services' HasSynced into servicesSynced and never asks it.
CachesComeFirst ==
    \A w \in Workers : worker[w] = "sync" => \A c \in Caches : cache[c] = "synced"

=============================================================================
