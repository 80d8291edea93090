----------------------------- MODULE RecordNames -----------------------------
(***************************************************************************)
(* The names of the records that the controllers keep on the istio         *)
(* cluster, cluster--namespace--name.  RouteSync gives each ServiceRoute a *)
(* record of its own; here records are found, created and deleted by their *)
(* composed name, in one namespace for the controllers of all clusters.    *)
(*                                                                         *)
(* Names are sequences of characters, of which only the dash matters.      *)
(* Cluster names come from a flag and are taken for labels here.           *)
(***************************************************************************)
EXTENDS Naturals, Sequences

CONSTANTS
    Clusters, Namespaces, Names,    \* sets of labels
    Routes,
    None

Dash == "-"
Doubled(s) == \E i \in 1 .. Len(s) - 1 : s[i] = Dash /\ s[i + 1] = Dash

\* A label neither begins nor ends with a dash.
IsLabel(s) == s # <<>> /\ s[1] # Dash /\ s[Len(s)] # Dash

\* Kubernetes allows "--" in labels.  With it in the name of a cluster or of
\* a namespace two ServiceRoutes can have the same record.
RecordNamesAssumption ==
    /\ \A s \in Clusters \cup Namespaces \cup Names : s \in Seq(STRING) /\ IsLabel(s)
    /\ \A s \in Clusters \cup Namespaces : ~ Doubled(s)
    /\ None \notin Routes

ServiceRoutes == [cluster : Clusters, ns : Namespaces, name : Names]

\* Mutant: a single dash separates the parts.
DashedName(k) == k.cluster \o <<Dash>> \o k.ns \o <<Dash>> \o k.name

RecordName(k) == k.cluster \o <<Dash, Dash>> \o k.ns \o <<Dash, Dash>> \o k.name

VARIABLES
    wish,       \* ServiceRoute |-> the route it asks for, or None
    records     \* name |-> the record of that name, or None

vars == <<wish, records>>

Records == [rv : {0}, route : Routes, from : ServiceRoutes]
Api == INSTANCE ServiceRouteApi

TypeOK ==
    /\ DOMAIN wish \subseteq ServiceRoutes
    /\ \A k \in DOMAIN wish : wish[k] \in Routes \cup {None}
    /\ \A k \in DOMAIN wish : records[RecordName(k)] \in Records \cup {None}

\* Any two ServiceRoutes of any two clusters.
Init ==
    \E j, k \in ServiceRoutes :
        /\ wish = [i \in {j, k} |-> None]
        /\ records = [s \in {RecordName(i) : i \in {j, k}} |-> None]

UserAsks(k, r) ==
    /\ wish[k] # r
    /\ wish' = [wish EXCEPT ![k] = r]
    /\ UNCHANGED records

Lookup(k) == Api!Get(records, RecordName(k))

NewRecord(k) == [rv |-> 0, route |-> wish[k], from |-> k]

\* A record of another route than the one asked for condemns that route, and
\* is deleted when the route is torn down.
Condemn(k) ==
    /\ Lookup(k).err = "" /\ Lookup(k).obj.route # wish[k]
    /\ records' = Api!Delete(records, RecordName(k)).store
    /\ UNCHANGED wish

\* "istio record doesn't exist, new"
Claim(k) ==
    /\ wish[k] # None /\ Lookup(k).err = "NotFound"
    /\ records' = Api!Create(records, RecordName(k), NewRecord(k), 0).store
    /\ UNCHANGED wish

Next ==
    \E k \in DOMAIN wish :
        Condemn(k) \/ Claim(k) \/ \E r \in Routes \cup {None} : UserAsks(k, r)

Spec == Init /\ [][Next]_vars

-----------------------------------------------------------------------------
\* The record that a sync finds under the name it composes is the one made
\* for the same ServiceRoute, so that it never condemns the route of another.
RecordIsOwn ==
    \A k \in DOMAIN wish : Lookup(k).err = "" => Lookup(k).obj.from = k

=============================================================================
