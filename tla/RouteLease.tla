------------------------------ MODULE RouteLease ------------------------------
(***************************************************************************)
(* What a route provider owes its users: a route name belongs to at most   *)
(* one ServiceRoute at a time, and it changes hands only by being given    *)
(* back first.  RouteSync implements this with the records it keeps on the *)
(* istio cluster while its syncs do not race and nothing fails.            *)
(***************************************************************************)

CONSTANTS
    Keys,       \* ServiceRoutes
    Routes,     \* route names
    None        \* no route

VARIABLE held   \* key |-> the route it holds, or None

TypeOK == held \in [Keys -> Routes \cup {None}]

Init == held = [k \in Keys |-> None]

Claim(k, r) ==
    /\ held[k] = None
    /\ \A j \in Keys : held[j] # r
    /\ held' = [held EXCEPT ![k] = r]

Release(k) ==
    /\ held[k] # None
    /\ held' = [held EXCEPT ![k] = None]

Next == \E k \in Keys : Release(k) \/ \E r \in Routes : Claim(k, r)

Spec == Init /\ [][Next]_held

Exclusive == \A j, k \in Keys : held[k] # None /\ held[j] = held[k] => j = k

=============================================================================
