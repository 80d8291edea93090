----------------------------- MODULE MCRoutePorts -----------------------------
(* A Service without ports, one with a port and one with two ports.        *)
EXTENDS RoutePorts

Port(p, n) == [port |-> p, node |-> n]
SomeLists == {<<>>, <<Port(80, 30080)>>, <<Port(443, 30443), Port(80, 0)>>}
=============================================================================
