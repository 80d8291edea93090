----------------------------- MODULE MCRouteSync -----------------------------
(* Constants for RouteSync, shared by its runs.                            *)
EXTENDS RouteSync, TLC

CONSTANTS k1, k2, w1, w2, r1, r2, c1, c2, d1, d2

OneCluster == [x \in Keys \cup Workers |-> c1]

TwoClusters == [x \in Keys \cup Workers |-> IF x \in {k1, w1} THEN c1 ELSE c2]

NoBudget == [what \in Bounded |-> 0]
RaceBudget == [NoBudget EXCEPT !["edits"] = 1]
FaultBudget == [NoBudget EXCEPT !["edits"] = 1, !["gateway"] = 1, !["faults"] = 1]
CalmBudget == [NoBudget EXCEPT !["edits"] = 2, !["backend"] = 1]
LiveBudget == [NoBudget EXCEPT !["edits"] = 1, !["backend"] = 1]
EditBudget == [NoBudget EXCEPT !["edits"] = 1]
LossBudget == [NoBudget EXCEPT !["faults"] = 1]
RestartBudget == [NoBudget EXCEPT !["edits"] = 1, !["crashes"] = 1]

NamesMayBeSwapped == Permutations({k1, k2}) \cup Permutations({r1, r2})
AllMayBeSwapped == NamesMayBeSwapped \cup Permutations({w1, w2})

SwapClusters == [x \in {k1, k2, w1, w2, c1, c2} |->
                    CASE x = k1 -> k2 [] x = k2 -> k1 [] x = w1 -> w2 [] x = w2 -> w1
                      [] x = c1 -> c2 [] x = c2 -> c1]
ClustersMayBeSwapped == {SwapClusters}

\* Two ServiceRoutes that name a route and have a backend, and a Gateway
\* without routes yet.
Ready ==
    /\ \A k \in Keys : foo[k] # None /\ foo[k].route # NoRoute
    /\ ep = [k \in Keys |-> d1]
    /\ svc = [k \in Keys |-> d1]
    /\ gw = {}

MCInit == Init /\ Ready
MCSafetySpec == MCInit /\ [][Next]_vars
MCSpec == MCSafetySpec /\ Fairness

\* A state constraint: workers happen not to race, while either users or
\* backends change something.
StaysCalm == NoNameRace /\ NoGatewayRace /\ (spent["edits"] = 0 \/ spent["backend"] = 0)

\* Both ask for the same route from the start.
ContendedInit == MCInit /\ \A k \in Keys : foo[k].route = r1
ContendedSpec == ContendedInit /\ [][Next]_vars /\ Fairness

=============================================================================
