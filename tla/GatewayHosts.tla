----------------------------- MODULE GatewayHosts -----------------------------
(***************************************************************************)
(* The host lists of the shared Gateway, which syncHandler reads, edits    *)
(* and writes back while other syncs, other controllers and the owner of   *)
(* the Gateway do the same.  RouteSync keeps the Gateway as the set of the *)
(* routes it hosts; here it is what it is, a list of servers with a list   *)
(* of hosts each.  The host routeName.istio_suffix is written routeName.   *)
(***************************************************************************)
EXTENDS Naturals, Sequences, FiniteSetsExt, Functions

CONSTANTS
    Syncs,          \* syncs of any controller that come to the Gateway
    Routes,         \* the hosts of routes
    OwnHosts,       \* the hosts that the owner of the Gateway lists
    Managed,        \* server ports istio_gateway_http and istio_gateway_https
    OtherPort,      \* a server port that is neither
    None,
    MaxVersion      \* bound on the writes of the Gateway

GatewayAssumption ==
    /\ Routes \cap OwnHosts = {}
    /\ OtherPort \notin Managed /\ IsFiniteSet(Managed)
    /\ MaxVersion \in Nat

VARIABLES
    servers,        \* the Gateway: port |-> hosts
    version,        \* its resource version
    owned,          \* port |-> the hosts the owner wants there
    copy            \* sync |-> the Gateway it got and what it is to do, or None

vars == <<servers, version, owned, copy>>

Ports == Managed \cup {OtherPort}
Hosts == Routes \cup OwnHosts

TypeOK ==
    /\ servers \in [Ports -> Seq(Hosts)]
    /\ version \in 0 .. MaxVersion
    /\ owned \in [Ports -> SUBSET OwnHosts]
    /\ \A s \in Syncs : copy[s] # None => /\ copy[s].servers \in [Ports -> Seq(Hosts)]
                                          /\ copy[s].version \in 0 .. version
                                          /\ copy[s].route \in Routes
                                          /\ copy[s].adds \in BOOLEAN

Init ==
    /\ servers = [p \in Ports |-> <<>>]
    /\ version = 0
    /\ owned = [p \in Ports |-> {}]
    /\ copy = [s \in Syncs |-> None]

-----------------------------------------------------------------------------
(* The edits.                                                              *)

\* Mutant: the host is appended without a look at the list.
AppendHost(hosts, h) == Append(hosts, h)

AddHost(hosts, h) == IF h \in Range(hosts) THEN hosts ELSE Append(hosts, h)

\* Mutants: the list is cut, but the last host is not moved; or it is moved
\* and blanked, and the list is not cut.
CutHost(hosts, h) == IF h \in Range(hosts) THEN SubSeq(hosts, 1, Len(hosts) - 1) ELSE hosts
BlankHost(hosts, h) ==
    IF h \notin Range(hosts) THEN hosts
    ELSE [hosts EXCEPT ![Min({j \in DOMAIN hosts : hosts[j] = h})] = hosts[Len(hosts)],
                       ![Len(hosts)] = ""]

\* The last host takes the place of the first match, and the list is cut.
RemoveHost(hosts, h) ==
    IF h \notin Range(hosts) THEN hosts
    ELSE LET j == Min({i \in DOMAIN hosts : hosts[i] = h})
         IN  SubSeq([hosts EXCEPT ![j] = hosts[Len(hosts)]], 1, Len(hosts) - 1)

\* Mutant: the loop over the servers ends with the first one that matches.
EditOneServer(job) ==
    LET first == CHOOSE p \in Managed : TRUE
    IN  [job.servers EXCEPT ![first] = IF job.adds THEN AddHost(@, job.route)
                                       ELSE RemoveHost(@, job.route)]

\* The servers with one of the two port names are edited, the others kept.
Edited(job) ==
    [p \in Ports |-> IF p \notin Managed THEN job.servers[p]
                     ELSE IF job.adds THEN AddHost(job.servers[p], job.route)
                     ELSE RemoveHost(job.servers[p], job.route)]

-----------------------------------------------------------------------------
GetGateway(s, adds, r) ==
    /\ copy[s] = None
    /\ copy' = [copy EXCEPT ![s] = [servers |-> servers, version |-> version,
                                    adds |-> adds, route |-> r]]
    /\ UNCHANGED <<servers, version, owned>>

Drop(s) == copy' = [copy EXCEPT ![s] = None]

\* A write of a Gateway; one that changes nothing keeps the version.
Write(new) ==
    /\ new # servers => version < MaxVersion
    /\ servers' = new
    /\ version' = IF new # servers THEN version + 1 ELSE version

\* Mutant: a new object is sent, without the version of the Get.
PutBlindly(s) ==
    /\ copy[s] # None
    /\ Write(Edited(copy[s]))
    /\ Drop(s)
    /\ UNCHANGED owned

\* The copy is sent with the version it was read with.
PutGateway(s) ==
    /\ copy[s] # None /\ copy[s].version = version
    /\ Write(Edited(copy[s]))
    /\ Drop(s)
    /\ UNCHANGED owned

\* A conflict, a lost call or a crash; nothing is tried again.
PutFails(s) ==
    /\ copy[s] # None
    /\ Drop(s)
    /\ UNCHANGED <<servers, version, owned>>

\* The owner puts a host of its own anywhere into a list, or takes one out.
OwnerLists(p, h, i) ==
    /\ h \notin owned[p]
    /\ Write([servers EXCEPT ![p] = (SubSeq(@, 1, i) \o <<h>>) \o SubSeq(@, i + 1, Len(@))])
    /\ owned' = [owned EXCEPT ![p] = @ \cup {h}]
    /\ UNCHANGED copy

OwnerRemoves(p, i) ==
    /\ servers[p][i] \in OwnHosts
    /\ Write([servers EXCEPT ![p] = SubSeq(@, 1, i - 1) \o SubSeq(@, i + 1, Len(@))])
    /\ owned' = [owned EXCEPT ![p] = @ \ {servers[p][i]}]
    /\ UNCHANGED copy

Next ==
    \/ \E s \in Syncs, r \in Routes, adds \in BOOLEAN : GetGateway(s, adds, r)
    \/ \E s \in Syncs : PutGateway(s) \/ PutFails(s)
    \/ \E p \in Ports, h \in OwnHosts : \E i \in 0 .. Len(servers[p]) : OwnerLists(p, h, i)
    \/ \E p \in Ports : \E i \in 1 .. Len(servers[p]) : OwnerRemoves(p, i)

Spec == Init /\ [][Next]_vars

-----------------------------------------------------------------------------
\* No write of a controller, which sends all the servers back, loses, revives
\* or doubles a host of the owner, whatever the owner did since the Get.
OwnerIsObeyed ==
    \A p \in Ports : Range(servers[p]) \cap OwnHosts = owned[p]

\* No host is listed twice, so that the break after the first match in a
\* teardown leaves none behind.
HostsAreListedOnce == \A p \in Ports : IsInjective(servers[p])

\* All servers with one of the two port names host the same routes.
ServersAgree ==
    \A p, q \in Managed : Range(servers[p]) \cap Routes = Range(servers[q]) \cap Routes

\* The Gateway is the set that RouteSync takes it for: a write adds or removes
\* one route, and the others stay as they are at that moment.
Hosted == (UNION {Range(servers[p]) : p \in Ports}) \cap Routes
EditsAreSetEdits ==
    [][\E r \in Routes : Hosted' \in {Hosted, Hosted \cup {r}, Hosted \ {r}}]_vars

=============================================================================
