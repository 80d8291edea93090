------------------------------ MODULE KeyedWork ------------------------------
(***************************************************************************)
(* What the controller relies on its work queue for, and nothing more.     *)
(* Keys wait in a set, a worker takes one, and no key is in the hands of   *)
(* two workers.  A key requested while it is being worked on is kept for   *)
(* another turn.  controller.go states this contract at the workqueue      *)
(* field of Controller; WorkQueue.tla shows that client-go's queue keeps   *)
(* it, and RouteSync.tla builds the sync handler on it.                    *)
(***************************************************************************)

CONSTANTS
    Keys,       \* namespace/name keys of ServiceRoutes
    Workers,    \* goroutines running runWorker
    None        \* "no key": what an idle worker holds

VARIABLES
    pending,    \* the keys that ask for a sync
    running     \* worker |-> the key it is syncing, or None

workVars == <<pending, running>>

TypeOK ==
    /\ pending \subseteq Keys
    /\ running \in [Workers -> Keys \cup {None}]

Init ==
    /\ pending = {}
    /\ running = [w \in Workers |-> None]

InHand(k) == \E w \in Workers : running[w] = k

\* An event handler asks for a sync of k; asking twice is asking once.
Request(k) ==
    /\ pending' = pending \cup {k}
    /\ UNCHANGED running

\* An idle worker takes a pending key that no worker holds.
Start(w, k) ==
    /\ running[w] = None
    /\ k \in pending
    /\ ~ InHand(k)
    /\ pending' = pending \ {k}
    /\ running' = [running EXCEPT ![w] = k]

\* The worker is through with its key; a request made meanwhile stands.
Finish(w) ==
    /\ running[w] # None
    /\ running' = [running EXCEPT ![w] = None]
    /\ UNCHANGED pending

Next ==
    \/ \E k \in Keys : Request(k)
    \/ \E w \in Workers, k \in Keys : Start(w, k)
    \/ \E w \in Workers : Finish(w)

SafetySpec == Init /\ [][Next]_workVars

\* A pending key that is again and again free to be taken is taken.
Fairness == \A k \in Keys : SF_workVars(\E w \in Workers : Start(w, k))

Spec == SafetySpec /\ Fairness

\* No key is in the hands of two workers.
NeverSharedKey ==
    \A v, w \in Workers : running[v] # None /\ running[v] = running[w] => v = w

=============================================================================
