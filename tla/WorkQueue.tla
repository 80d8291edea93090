------------------------------ MODULE WorkQueue ------------------------------
(***************************************************************************)
(* The rate-limited work queue of the controller and the workers that      *)
(* drain it.  The queue is client-go's (util/workqueue): a FIFO slice of   *)
(* keys, a dirty set, a processing set, a heap of delayed keys and a       *)
(* failure count per key, each operation one critical section of its lock. *)
(* The workers are runWorker and processNextWorkItem of controller.go,     *)
(* with syncHandler reduced to its outcome: an error or none.              *)
(*                                                                         *)
(* enqueueServiceRoute only ever adds the string that MetaNamespaceKeyFunc *)
(* returns, so the branch of processNextWorkItem for an item that is not a *)
(* string is unreachable and has no action.                                *)
(***************************************************************************)
EXTENDS Naturals, Sequences, Functions

CONSTANTS
    Keys,           \* namespace/name keys of ServiceRoutes
    Workers,        \* goroutines running runWorker
    None,           \* what a worker without an item holds
    MaxFailures     \* the failure count of a key saturates here

ASSUME WorkQueueAssumption ==
    /\ None \notin Keys
    /\ MaxFailures \in Nat \ {0}

VARIABLES
    queue,          \* keys ready to be handed out, first come first served
    dirty,          \* keys that need a sync
    processing,     \* keys handed out and not yet done
    waiting,        \* keys whose back-off is running
    failures,       \* key |-> failed syncs since the last Forget
    shuttingDown,
    item,           \* worker |-> the key it holds, or None
    pc              \* worker |-> where it is in processNextWorkItem

queueVars == <<queue, dirty, processing, waiting, failures, shuttingDown>>
vars == <<queueVars, item, pc>>

TypeOK ==
    /\ queue \in Seq(Keys)
    /\ dirty \subseteq Keys
    /\ processing \subseteq Keys
    /\ waiting \subseteq Keys
    /\ failures \in [Keys -> 0 .. MaxFailures]
    /\ shuttingDown \in BOOLEAN
    /\ item \in [Workers -> Keys \cup {None}]
    /\ pc \in [Workers -> {"get", "sync", "done", "stopped"}]

Init ==
    /\ queue = <<>>
    /\ dirty = {}
    /\ processing = {}
    /\ waiting = {}
    /\ failures = [k \in Keys |-> 0]
    /\ shuttingDown = FALSE
    /\ item = [w \in Workers |-> None]
    /\ pc = [w \in Workers |-> "get"]

Goto(w, label) == pc' = [pc EXCEPT ![w] = label]

-----------------------------------------------------------------------------
(* The queue's operations.                                                 *)

\* Add: mark the key, and line it up unless it is lined up or handed out.
Insert(k) ==
    /\ dirty' = IF shuttingDown THEN dirty ELSE dirty \cup {k}
    /\ queue' = IF ~ shuttingDown /\ k \notin dirty \cup processing
                THEN Append(queue, k)
                ELSE queue

\* Mutant: the failure count is not capped.
UncappedBackOff(k) ==
    /\ failures' = [failures EXCEPT ![k] = @ + 1]
    /\ waiting' = IF shuttingDown THEN waiting ELSE waiting \cup {k}

\* AddRateLimited: one more failure, and a back-off before the key returns.
BackOff(k) ==
    /\ failures' = [failures EXCEPT ![k] = IF @ < MaxFailures THEN @ + 1 ELSE @]
    /\ waiting' = IF shuttingDown THEN waiting ELSE waiting \cup {k}

\* Done: a key marked while it was handed out is lined up again.
Release(k) ==
    /\ processing' = processing \ {k}
    /\ queue' = IF k \in dirty THEN Append(queue, k) ELSE queue

-----------------------------------------------------------------------------
(* Event handlers, the delaying queue's timer and Run's deferred ShutDown. *)

Add(k) ==
    /\ Insert(k)
    /\ UNCHANGED <<processing, waiting, failures, shuttingDown, item, pc>>

BackOffEnds(k) ==
    /\ k \in waiting
    /\ waiting' = waiting \ {k}
    /\ Insert(k)
    /\ UNCHANGED <<processing, failures, shuttingDown, item, pc>>

\* The delaying queue stops its timer loop, so delayed keys are dropped.
ShutDown ==
    /\ ~ shuttingDown
    /\ shuttingDown' = TRUE
    /\ waiting' = {}
    /\ UNCHANGED <<queue, dirty, processing, failures, item, pc>>

-----------------------------------------------------------------------------
(* processNextWorkItem.                                                    *)

\* Mutant: the key stays marked when it is handed out.
MarkedGet(w) ==
    /\ pc[w] = "get" /\ queue # <<>>
    /\ item' = [item EXCEPT ![w] = Head(queue)]
    /\ processing' = processing \cup {Head(queue)}
    /\ queue' = Tail(queue)
    /\ Goto(w, "sync")
    /\ UNCHANGED <<dirty, waiting, failures, shuttingDown>>

\* Mutant: Done is called at once instead of deferred.
HastyGet(w) ==
    /\ pc[w] = "get" /\ queue # <<>>
    /\ item' = [item EXCEPT ![w] = Head(queue)]
    /\ dirty' = dirty \ {Head(queue)}
    /\ queue' = Tail(queue)
    /\ Goto(w, "sync")
    /\ UNCHANGED <<processing, waiting, failures, shuttingDown>>

Get(w) ==
    /\ pc[w] = "get"
    /\ queue # <<>>
    /\ LET k == Head(queue)
       IN  /\ item' = [item EXCEPT ![w] = k]
           /\ processing' = processing \cup {k}
           /\ dirty' = dirty \ {k}
    /\ queue' = Tail(queue)
    /\ Goto(w, "sync")
    /\ UNCHANGED <<waiting, failures, shuttingDown>>

\* Get reports the shutdown only once the queue is drained.
Stop(w) ==
    /\ pc[w] = "get"
    /\ queue = <<>>
    /\ shuttingDown
    /\ Goto(w, "stopped")
    /\ UNCHANGED <<queueVars, item>>

\* Mutant: the error path calls Done, and the deferred Done follows.
DoneTwice(w) ==
    /\ pc[w] = "sync"
    /\ BackOff(item[w])
    /\ Release(item[w])
    /\ Goto(w, "done")
    /\ UNCHANGED <<dirty, shuttingDown, item>>

SyncFails(w) ==
    /\ pc[w] = "sync"
    /\ BackOff(item[w])
    /\ Goto(w, "done")
    /\ UNCHANGED <<queue, dirty, processing, shuttingDown, item>>

\* Mutant: a sync without an error is not followed by Forget.
Unforgotten(w) ==
    /\ pc[w] = "sync"
    /\ Goto(w, "done")
    /\ UNCHANGED <<queueVars, item>>

\* A sync without an error is followed by Forget.
SyncSucceeds(w) ==
    /\ pc[w] = "sync"
    /\ failures' = [failures EXCEPT ![item[w]] = 0]
    /\ Goto(w, "done")
    /\ UNCHANGED <<queue, dirty, processing, waiting, shuttingDown, item>>

\* Mutant: Done is not called.
NeverDone(w) ==
    /\ pc[w] = "done"
    /\ item' = [item EXCEPT ![w] = None]
    /\ Goto(w, "get")
    /\ UNCHANGED queueVars

\* The deferred Done, after which runWorker loops.
Done(w) ==
    /\ pc[w] = "done"
    /\ Release(item[w])
    /\ item' = [item EXCEPT ![w] = None]
    /\ Goto(w, "get")
    /\ UNCHANGED <<dirty, waiting, failures, shuttingDown>>

Worker(w) == Get(w) \/ Stop(w) \/ SyncFails(w) \/ SyncSucceeds(w) \/ Done(w)

Next ==
    \/ \E k \in Keys : Add(k) \/ BackOffEnds(k)
    \/ ShutDown
    \/ \E w \in Workers : Worker(w)

SafetySpec == Init /\ [][Next]_vars

(* A worker goroutine is scheduled and its sync returns; a timer fires.    *)
(* Nobody has to add a key or to shut the queue down.  ShutDown is Run's   *)
(* deferred call, after which main returns and the process exits: whatever *)
(* a worker still does then, it cannot be relied on to do.                 *)
Fairness ==
    /\ \A w \in Workers : WF_vars(~ shuttingDown /\ Worker(w))
    /\ \A k \in Keys : WF_vars(~ shuttingDown /\ BackOffEnds(k))

Spec == SafetySpec /\ Fairness

-----------------------------------------------------------------------------
(* Properties.                                                             *)

\* "We are never processing the same item simultaneously in two different
\* workers" (comment on Controller.workqueue).
NeverSharedKey ==
    \A v, w \in Workers : item[v] # None /\ item[v] = item[w] => v = w

\* The slice holds, once each, exactly the marked keys that nobody holds: a
\* key can neither be lined up twice nor be marked and forgotten.
QueueIsBacklog ==
    /\ Range(queue) = dirty \ processing
    /\ IsInjective(queue)

\* A key whose last sync failed is on its way to another sync, whatever
\* order AddRateLimited, the back-off timer and the deferred Done come in
\* ("the item is put back on the workqueue", processNextWorkItem).
FailedKeyIsKept ==
    \A k \in Keys :
        failures[k] > 0 /\ ~ shuttingDown => k \in waiting \cup dirty \cup processing

\* A requested key is handed out, however often other keys and the key itself
\* come back, unless the queue is shut down and the process ends.
RequestIsServed == \A k \in Keys : k \in dirty ~> k \notin dirty \/ shuttingDown

\* The queue and its workers are the keyed work that RouteSync assumes, and its
\* fairness as well as long as the process lives.
Work == INSTANCE KeyedWork WITH pending <- dirty, running <- item
ImplementsKeyedWork == Work!SafetySpec /\ (<>shuttingDown \/ Work!Fairness)

=============================================================================
