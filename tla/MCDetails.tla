------------------------------ MODULE MCDetails ------------------------------
(***************************************************************************)
(* What RouteSync leaves out, each in a module of its own: the resource    *)
(* versions of ServiceRoutes (RouteCache), the host lists of the Gateway   *)
(* (GatewayHosts), the names of records (RecordNames) and the ports of     *)
(* Services (RoutePorts).  They share no variable, so that nothing can     *)
(* happen between two of them, and a behaviour exercises one of them while *)
(* the others rest.                                                        *)
(***************************************************************************)
EXTENDS RouteCache

CONSTANTS
    Syncs, OwnHosts, Managed, OtherPort, MaxWrites,     \* of GatewayHosts
    PortKeys, PortWorkers, MaxChanges, MaxFaults        \* of RoutePorts

VARIABLES
    part,                                   \* the module that moves
    servers, gwVersion, owned, copy,        \* of GatewayHosts
    wish, records,                          \* of RecordNames
    asks, source, lists, changes, heap, current, rec, svc, vs, running, want, pc, cell, at, up,
    panics, lapses, faults                  \* of RoutePorts

hostVars == <<servers, gwVersion, owned, copy>>
nameVars == <<wish, records>>
portVars == <<asks, source, lists, changes, heap, current, rec, svc, vs, running, want, pc,
              cell, at, up, panics, lapses, faults>>

Hosts == INSTANCE GatewayHosts WITH MaxVersion <- MaxWrites, version <- gwVersion

\* Labels over a letter and the dash, those without "--" first.
PlainLabels == {<<"a">>, <<"a", "a">>, <<"a", "-", "a">>, <<"a", "-", "a", "-", "a">>}
Labels == PlainLabels \cup {<<"a", "-", "-", "a">>}
Naming == INSTANCE RecordNames WITH
    Clusters <- PlainLabels, Namespaces <- PlainLabels, Names <- Labels, Routes <- {"route"}

\* A Service without ports, one with a port and one with two ports.
Port(p, n) == [port |-> p, node |-> n]
SomeLists == {<<>>, <<Port(80, 30080)>>, <<Port(443, 30443), Port(80, 0)>>}
Ports == INSTANCE RoutePorts WITH
    Keys <- PortKeys, Workers <- PortWorkers, PortLists <- SomeLists, past <- lists

ASSUME DetailsAssumption ==
    Hosts!GatewayAssumption /\ Naming!RecordNamesAssumption /\ Ports!PortsAssumption

DetailsInit ==
    /\ part \in {"cache", "hosts", "names", "ports"}
    /\ Init /\ Hosts!Init /\ Ports!Init
    /\ part # "ports" => \A k \in PortKeys : asks[k] = None /\ source[k] = <<>>
    /\ IF part = "names" THEN Naming!Init ELSE wish = <<>> /\ records = <<>>

DetailsNext ==
    /\ UNCHANGED part
    /\ \/ /\ part = "cache" /\ Next
          /\ UNCHANGED <<hostVars, nameVars, portVars>>
       \/ /\ part = "hosts" /\ Hosts!Next
          /\ UNCHANGED <<vars, nameVars, portVars>>
       \/ /\ part = "names" /\ Naming!Next
          /\ UNCHANGED <<vars, hostVars, portVars>>
       \/ /\ part = "ports" /\ Ports!Next
          /\ UNCHANGED <<vars, hostVars, nameVars>>

\* Only RouteCache has a liveness property, and is treated fairly.
DetailsSpec == DetailsInit /\ [][DetailsNext]_<<part, vars, hostVars, nameVars, portVars>>
               /\ Fairness

-----------------------------------------------------------------------------
(* The properties, under the names they have in their modules.             *)

\* All variables keep to their types.
TypesOK == TypeOK /\ Hosts!TypeOK /\ Naming!TypeOK /\ Ports!TypeOK

\* The owner of the Gateway finds exactly its own hosts, whatever controllers write.
OwnerIsObeyed == Hosts!OwnerIsObeyed

\* No host is listed twice in a server.
HostsAreListedOnce == Hosts!HostsAreListedOnce

\* The two managed servers host the same routes.
ServersAgree == Hosts!ServersAgree

\* Each write of the Gateway adds or removes one route of the set it hosts.
EditsAreSetEdits == Hosts!EditsAreSetEdits

\* A ServiceRoute finds only its own record under the name it composes.
RecordIsOwn == Naming!RecordIsOwn

\* What a route's Service offers are the ports of one version, without node ports.
NodePortsStayHome == Ports!NodePortsStayHome

\* A ServiceRoute ends the process again only after its record was lost or deleted.
PanicsAreCounted == Ports!PanicsAreCounted

=============================================================================
