------------------------------ MODULE LaggedCopy ------------------------------
(***************************************************************************)
(* What RouteSync takes for granted about ServiceRoutes, their cache and   *)
(* the write of a status: a change makes the cache lag and every copy in   *)
(* the hands of a worker stale; a worker gets a fresh copy exactly when    *)
(* the cache does not lag; only a fresh copy can be written back.          *)
(***************************************************************************)

CONSTANTS
    Keys,       \* namespace/name of ServiceRoutes
    Workers,
    Routes,     \* values of spec.routeName
    Statuses,
    None

VARIABLES
    foo,        \* key |-> the ServiceRoute, or None
    lag,        \* key |-> a change of it has not reached the cache yet
    hand,       \* worker |-> the key it works on, or None
    fresh       \* worker |-> its copy is the ServiceRoute as it is

copyVars == <<foo, lag, hand, fresh>>

FooObjects == [route : Routes, status : Statuses]

Init ==
    /\ foo = [k \in Keys |-> None]
    /\ lag = [k \in Keys |-> FALSE]
    /\ hand = [w \in Workers |-> None]
    /\ fresh = [w \in Workers |-> FALSE]

\* One that comes and goes unseen leaves nothing to be seen.
Change(k, new) ==
    /\ foo' = [foo EXCEPT ![k] = new]
    /\ \E late \in {TRUE, new # None} : lag' = [lag EXCEPT ![k] = late]
    /\ fresh' = [w \in Workers |-> fresh[w] /\ hand[w] # k]
    /\ UNCHANGED hand

CatchUp(K) ==
    /\ lag' = [k \in Keys |-> lag[k] /\ k \notin K]
    /\ UNCHANGED <<foo, hand, fresh>>

Take(w, k) ==
    /\ hand[w] = None /\ \A v \in Workers : hand[v] # k
    /\ hand' = [hand EXCEPT ![w] = k]
    /\ fresh' = [fresh EXCEPT ![w] = ~ lag[k] /\ foo[k] # None]
    /\ UNCHANGED <<foo, lag>>

Finish(w) ==
    /\ hand[w] # None
    /\ hand' = [hand EXCEPT ![w] = None]
    /\ fresh' = [fresh EXCEPT ![w] = FALSE]

\* A process ends, what its workers had is lost, and the next one reads anew.
Restart(W, K) ==
    /\ hand' = [w \in Workers |-> IF w \in W THEN None ELSE hand[w]]
    /\ fresh' = [w \in Workers |-> fresh[w] /\ w \notin W]
    /\ lag' = [k \in Keys |-> lag[k] /\ k \notin K]
    /\ UNCHANGED foo

PutStatus(w, status) ==
    /\ fresh[w]
    /\ foo' = [foo EXCEPT ![hand[w]].status = status]
    /\ lag' = [lag EXCEPT ![hand[w]] = @ \/ foo' # foo]
    /\ Finish(w)

Next ==
    \/ \E k \in Keys, new \in FooObjects \cup {None} : Change(k, new)
    \/ \E K \in SUBSET Keys : CatchUp(K)
    \/ \E w \in Workers, k \in Keys : Take(w, k)
    \/ \E w \in Workers, s \in Statuses : PutStatus(w, s)
    \/ \E w \in Workers : Finish(w) /\ UNCHANGED <<foo, lag>>
    \/ \E W \in SUBSET Workers, K \in SUBSET Keys : Restart(W, K)

Spec == Init /\ [][Next]_copyVars

=============================================================================
