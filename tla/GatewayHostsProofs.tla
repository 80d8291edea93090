-------------------------- MODULE GatewayHostsProofs --------------------------
(***************************************************************************)
(* The host lists of the Gateway stay what their readers take them for,    *)
(* for any number of syncs, routes, hosts and servers.                     *)
(***************************************************************************)
EXTENDS GatewayHosts, SequenceTheorems, TLAPS

-----------------------------------------------------------------------------
(* The edits of one list, which holds each host once.                      *)

LEMMA AddHostAdds ==
    ASSUME NEW S, NEW q \in Seq(S), NEW h \in S, IsInjective(q)
    PROVE  /\ AddHost(q, h) \in Seq(S)
           /\ Range(AddHost(q, h)) = Range(q) \cup {h}
           /\ IsInjective(AddHost(q, h))
<1>1. CASE h \in Range(q)
    BY <1>1 DEF AddHost
<1>2. CASE h \notin Range(q)
    <2> DEFINE a == Append(q, h)
               n == Len(q)
    <2>1. /\ a \in Seq(S) /\ n \in Nat /\ DOMAIN a = 1 .. n + 1 /\ DOMAIN q = 1 .. n
          /\ a[n + 1] = h /\ \A i \in 1 .. n : a[i] = q[i]
        OBVIOUS
    <2>2. \A i \in 1 .. n : q[i] # h
        BY <1>2, <2>1 DEF Range
    <2>3. \A i \in 1 .. n + 1 : i \in 1 .. n \/ i = n + 1
        BY <2>1
    <2>4. n + 1 \in 1 .. n + 1 /\ \A i \in 1 .. n : i \in 1 .. n + 1
        BY <2>1
    <2> HIDE DEF a, n
    <2>5. Range(a) = Range(q) \cup {h}
        BY <2>1, <2>3, <2>4 DEF Range
    <2>6. IsInjective(a)
        BY <2>1, <2>2, <2>3 DEF IsInjective
    <2> QED BY <1>2, <2>1, <2>5, <2>6 DEF AddHost, a
<1> QED BY <1>1, <1>2

\* What has the last host in the place of the j-th, and is cut by one, has lost
\* the j-th host and no other.
LEMMA RemoveHostRemoves ==
    ASSUME NEW S, NEW q \in Seq(S), NEW h \in S, IsInjective(q)
    PROVE  /\ RemoveHost(q, h) \in Seq(S)
           /\ Range(RemoveHost(q, h)) = Range(q) \ {h}
           /\ IsInjective(RemoveHost(q, h))
<1>1. CASE h \notin Range(q)
    BY <1>1 DEF RemoveHost
<1>2. CASE h \in Range(q)
    <2> DEFINE n == Len(q)
               j == Min({i \in DOMAIN q : q[i] = h})
               m == [q EXCEPT ![j] = q[n]]
               c == SubSeq(m, 1, n - 1)
    <2>1. n \in Nat /\ DOMAIN q = 1 .. n
        OBVIOUS
    <2>2. PICK i \in 1 .. n : q[i] = h
        BY <1>2, <2>1 DEF Range
    <2>3. {x \in DOMAIN q : q[x] = h} = {i}
        BY <2>1, <2>2 DEF IsInjective
    <2>4. j = i
        BY <2>1, <2>2, <2>3 DEF Min
    <2> HIDE DEF j
    <2>5. m \in Seq(S) /\ Len(m) = n
        BY <2>1, <2>2, <2>4
    <2>6. /\ c \in Seq(S) /\ DOMAIN c = 1 .. n - 1
          /\ \A x \in 1 .. n - 1 : c[x] = m[x]
        BY <2>1, <2>2, <2>5
    <2>7. \A x \in 1 .. n - 1 : c[x] = IF x = j THEN q[n] ELSE q[x]
        BY <2>1, <2>4, <2>6
    <2>8. RemoveHost(q, h) = c
        BY <1>2 DEF RemoveHost, j
    <2> HIDE DEF n, m, c
    <2>9. Range(c) \subseteq Range(q) \ {h}
        <3> SUFFICES ASSUME NEW x \in 1 .. n - 1 PROVE c[x] \in Range(q) /\ c[x] # h
            BY <2>6 DEF Range
        <3>1. x \in 1 .. n /\ n \in 1 .. n /\ x # n
            BY <2>1
        <3>2. CASE x = j
            BY <2>1, <2>2, <2>4, <2>7, <3>1, <3>2 DEF Range, IsInjective
        <3>3. CASE x # j
            BY <2>1, <2>2, <2>4, <2>7, <3>1, <3>3 DEF Range, IsInjective
        <3> QED BY <3>2, <3>3
    <2>10. Range(q) \ {h} \subseteq Range(c)
        <3> SUFFICES ASSUME NEW x \in 1 .. n, q[x] # h PROVE q[x] \in Range(c)
            BY <2>1 DEF Range
        <3>1. CASE x = n
            <4>1. j \in 1 .. n - 1 /\ c[j] = q[x]
                BY <2>1, <2>2, <2>4, <2>7, <3>1
            <4> QED BY <2>6, <4>1 DEF Range
        <3>2. CASE x # n
            <4>1. x \in 1 .. n - 1 /\ x # j
                BY <2>1, <2>2, <2>4, <3>2
            <4> QED BY <2>6, <2>7, <4>1 DEF Range
        <3> QED BY <3>1, <3>2
    <2>11. IsInjective(c)
        <3> SUFFICES ASSUME NEW x \in 1 .. n - 1, NEW y \in 1 .. n - 1, c[x] = c[y]
                     PROVE  x = y
            BY <2>6 DEF IsInjective
        <3>1. x \in 1 .. n /\ y \in 1 .. n /\ n \in 1 .. n /\ x # n /\ y # n
            BY <2>1
        <3> QED BY <2>1, <2>7, <3>1 DEF IsInjective
    <2> QED BY <2>6, <2>8, <2>9, <2>10, <2>11
<1> QED BY <1>1, <1>2

\* The owner's edits: a host comes in behind the i-th, or the i-th goes.
LEMMA InsertionAdds ==
    ASSUME NEW S, NEW q \in Seq(S), NEW h \in S, IsInjective(q), h \notin Range(q),
           NEW i \in 0 .. Len(q)
    PROVE  LET new == (SubSeq(q, 1, i) \o <<h>>) \o SubSeq(q, i + 1, Len(q))
           IN  new \in Seq(S) /\ Range(new) = Range(q) \cup {h} /\ IsInjective(new)
<1> DEFINE n == Len(q)
           front == SubSeq(q, 1, i)
           back == SubSeq(q, i + 1, n)
           new == (front \o <<h>>) \o back
<1>1. n \in Nat /\ i \in Nat /\ i <= n /\ DOMAIN q = 1 .. n
    OBVIOUS
<1>2. /\ front \in Seq(S) /\ Len(front) = i /\ \A x \in 1 .. i : front[x] = q[x]
    BY <1>1
<1>3. /\ back \in Seq(S) /\ Len(back) = n - i /\ \A x \in 1 .. n - i : back[x] = q[i + x]
    <2> HIDE DEF n
    <2>1. \A x \in i + 1 .. n : q[x] \in S
        BY <1>1
    <2>2. /\ back \in Seq(S) /\ Len(back) = IF i + 1 <= n THEN n - (i + 1) + 1 ELSE 0
          /\ \A x \in 1 .. n - (i + 1) + 1 : back[x] = q[(i + 1) + x - 1]
        BY <1>1, <2>1, SubSeqProperties
    <2> QED BY <1>1, <2>2
<1> HIDE DEF n, front, back
<1>4. /\ new \in Seq(S) /\ Len(new) = n + 1 /\ DOMAIN new = 1 .. n + 1
    BY <1>1, <1>2, <1>3
<1>5. /\ \A x \in 1 .. i : new[x] = q[x]
      /\ new[i + 1] = h
      /\ \A x \in i + 1 .. n : new[x + 1] = q[x]
    <2>1. ASSUME NEW x \in 1 .. i PROVE new[x] = q[x]
        BY <1>1, <1>2, <1>3
    <2>2. new[i + 1] = h
        BY <1>1, <1>2, <1>3
    <2>3. ASSUME NEW x \in i + 1 .. n PROVE new[x + 1] = q[x]
        <3>1. new[x + 1] = back[x - i]
            BY <1>1, <1>2, <1>3
        <3>2. x - i \in 1 .. n - i /\ i + (x - i) = x
            BY <1>1
        <3>3. back[x - i] = q[i + (x - i)]
            BY <1>3, <3>2
        <3> QED BY <3>1, <3>2, <3>3
    <2> QED BY <2>1, <2>2, <2>3
<1> HIDE DEF new
<1>6. \A x \in 1 .. n : q[x] # h
    BY <1>1 DEF Range
\* Where each host of the new list was in the old one.
<1> DEFINE old(z) == IF z <= i THEN z ELSE z - 1
<1>7. \A z \in 1 .. n + 1 : z # i + 1 => old(z) \in 1 .. n /\ new[z] = q[old(z)]
    <2> SUFFICES ASSUME NEW z \in 1 .. n + 1, z # i + 1
                 PROVE  old(z) \in 1 .. n /\ new[z] = q[old(z)]
        OBVIOUS
    <2>1. CASE z <= i
        BY <1>1, <1>5, <2>1
    <2>2. CASE z > i
        <3>1. z - 1 \in i + 1 .. n /\ (z - 1) + 1 = z /\ old(z) = z - 1
            BY <1>1, <2>2
        <3>2. new[(z - 1) + 1] = q[z - 1]
            BY <1>5, <3>1
        <3> QED BY <1>1, <3>1, <3>2
    <2> QED BY <1>1, <2>1, <2>2
<1>8. Range(new) \subseteq Range(q) \cup {h}
    <2> SUFFICES ASSUME NEW z \in 1 .. n + 1 PROVE new[z] \in Range(q) \cup {h}
        BY <1>4 DEF Range
    <2> HIDE DEF old
    <2> QED BY <1>1, <1>5, <1>7 DEF Range
<1>9. Range(q) \cup {h} \subseteq Range(new)
    <2>1. i + 1 \in 1 .. n + 1 /\ new[i + 1] = h
        BY <1>1, <1>5
    <2>2. ASSUME NEW x \in 1 .. n PROVE q[x] \in Range(new)
        <3>1. CASE x <= i
            <4>1. x \in 1 .. n + 1 /\ new[x] = q[x]
                BY <1>1, <1>5, <3>1
            <4> QED BY <1>4, <4>1 DEF Range
        <3>2. CASE x > i
            <4>1. x + 1 \in 1 .. n + 1 /\ new[x + 1] = q[x]
                BY <1>1, <1>5, <3>2
            <4> QED BY <1>4, <4>1 DEF Range
        <3> QED BY <1>1, <3>1, <3>2
    <2> QED BY <1>1, <1>4, <2>1, <2>2 DEF Range
<1>10. IsInjective(new)
    <2> SUFFICES ASSUME NEW x \in 1 .. n + 1, NEW y \in 1 .. n + 1, new[x] = new[y]
                 PROVE  x = y
        BY <1>4 DEF IsInjective
    <2>1. (x = i + 1) <=> (y = i + 1)
        <3> HIDE DEF old
        <3> QED BY <1>5, <1>6, <1>7
    <2>2. CASE x # i + 1 /\ y # i + 1
        <3>1. old(x) = old(y)
            <4> HIDE DEF old
            <4> QED BY <1>1, <1>7, <2>2 DEF IsInjective
        <3> QED BY <1>1, <2>2, <3>1
    <2> QED BY <2>1, <2>2
<1> QED BY <1>4, <1>8, <1>9, <1>10 DEF new, front, back, n

LEMMA DeletionRemoves ==
    ASSUME NEW S, NEW q \in Seq(S), IsInjective(q), NEW i \in 1 .. Len(q)
    PROVE  LET new == SubSeq(q, 1, i - 1) \o SubSeq(q, i + 1, Len(q))
           IN  new \in Seq(S) /\ Range(new) = Range(q) \ {q[i]} /\ IsInjective(new)
<1> DEFINE n == Len(q)
           front == SubSeq(q, 1, i - 1)
           back == SubSeq(q, i + 1, n)
           new == front \o back
<1>1. n \in Nat /\ i \in 1 .. n /\ DOMAIN q = 1 .. n /\ \A x \in 1 .. n : q[x] \in S
    OBVIOUS
<1> HIDE DEF n
<1>2. /\ front \in Seq(S) /\ Len(front) = i - 1
      /\ \A x \in 1 .. i - 1 : front[x] = q[x]
    <2>1. \A x \in 1 .. i - 1 : q[x] \in S
        BY <1>1
    <2>2. /\ front \in Seq(S) /\ Len(front) = IF 1 <= i - 1 THEN (i - 1) - 1 + 1 ELSE 0
          /\ \A x \in 1 .. (i - 1) - 1 + 1 : front[x] = q[1 + x - 1]
        BY <1>1, <2>1, SubSeqProperties
    <2> QED BY <1>1, <2>2
<1>3. /\ back \in Seq(S) /\ Len(back) = n - i
      /\ \A x \in 1 .. n - i : back[x] = q[i + x]
    <2>1. \A x \in i + 1 .. n : q[x] \in S
        BY <1>1
    <2>2. /\ back \in Seq(S) /\ Len(back) = IF i + 1 <= n THEN n - (i + 1) + 1 ELSE 0
          /\ \A x \in 1 .. n - (i + 1) + 1 : back[x] = q[(i + 1) + x - 1]
        BY <1>1, <2>1, SubSeqProperties
    <2> QED BY <1>1, <2>2
<1> HIDE DEF front, back
<1>4. new \in Seq(S) /\ Len(new) = n - 1 /\ DOMAIN new = 1 .. n - 1
    <2>1. new \in Seq(S) /\ Len(new) = Len(front) + Len(back)
        BY <1>2, <1>3, ConcatProperties
    <2>2. Len(new) = n - 1
        BY <1>1, <1>2, <1>3, <2>1
    <2> QED BY <2>1, <2>2
<1>5. /\ \A x \in 1 .. i - 1 : new[x] = q[x]
      /\ \A x \in i .. n - 1 : new[x] = q[x + 1]
    <2>1. ASSUME NEW x \in 1 .. i - 1 PROVE new[x] = q[x]
        BY <1>1, <1>2, <1>3
    <2>2. ASSUME NEW x \in i .. n - 1 PROVE new[x] = q[x + 1]
        <3>1. new[x] = back[x - (i - 1)]
            BY <1>1, <1>2, <1>3
        <3>2. x - (i - 1) \in 1 .. n - i /\ i + (x - (i - 1)) = x + 1
            BY <1>1
        <3>3. back[x - (i - 1)] = q[i + (x - (i - 1))]
            BY <1>3, <3>2
        <3> QED BY <3>1, <3>2, <3>3
    <2> QED BY <2>1, <2>2
<1> HIDE DEF new
<1> DEFINE old(z) == IF z < i THEN z ELSE z + 1
<1>6. \A z \in 1 .. n - 1 : old(z) \in 1 .. n /\ old(z) # i /\ new[z] = q[old(z)]
    BY <1>1, <1>5
<1>7. Range(new) \subseteq Range(q) \ {q[i]}
    <2> SUFFICES ASSUME NEW z \in 1 .. n - 1 PROVE new[z] \in Range(q) /\ new[z] # q[i]
        BY <1>4 DEF Range
    <2> HIDE DEF old
    <2> QED BY <1>1, <1>6 DEF Range, IsInjective
<1>8. Range(q) \ {q[i]} \subseteq Range(new)
    <2> SUFFICES ASSUME NEW x \in 1 .. n, q[x] # q[i] PROVE q[x] \in Range(new)
        BY <1>1 DEF Range
    <2>1. CASE x < i
        <3>1. x \in 1 .. n - 1 /\ new[x] = q[x]
            BY <1>1, <1>5, <2>1
        <3> QED BY <1>4, <3>1 DEF Range
    <2>2. CASE x > i
        <3>1. x - 1 \in i .. n - 1 /\ x - 1 \in 1 .. n - 1 /\ (x - 1) + 1 = x
            BY <1>1, <2>2
        <3>2. new[x - 1] = q[x]
            BY <1>5, <3>1
        <3> QED BY <1>4, <3>1, <3>2 DEF Range
    <2> QED BY <1>1, <2>1, <2>2
<1>9. IsInjective(new)
    <2> SUFFICES ASSUME NEW x \in 1 .. n - 1, NEW y \in 1 .. n - 1, new[x] = new[y]
                 PROVE  x = y
        BY <1>4 DEF IsInjective
    <2>1. old(x) = old(y)
        <3> HIDE DEF old
        <3> QED BY <1>1, <1>6 DEF IsInjective
    <2> QED BY <1>1, <2>1
<1> QED BY <1>4, <1>7, <1>8, <1>9 DEF new, front, back, n

-----------------------------------------------------------------------------
(* The inductive invariant.                                                *)

\* A Gateway as the controllers and its owner want it: each list holds its
\* hosts once, the managed lists the same routes and the other one none.
GoodServers(g) ==
    /\ g \in [Ports -> Seq(Hosts)]
    /\ \A p \in Ports : IsInjective(g[p])
    /\ \A p, q \in Managed : Range(g[p]) \cap Routes = Range(g[q]) \cap Routes
    /\ Range(g[OtherPort]) \cap Routes = {}

IInv ==
    /\ GoodServers(servers) /\ OwnerIsObeyed
    /\ version \in Nat
    /\ DOMAIN copy = Syncs /\ DOMAIN owned = Ports
    /\ \A s \in Syncs : copy[s] # None =>
           /\ copy[s].version \in Nat /\ copy[s].version <= version
           /\ copy[s].version = version => copy[s].servers = servers
           /\ copy[s].route \in Routes /\ copy[s].adds \in BOOLEAN

LEMMA InvInit ==
    ASSUME Init
    PROVE  IInv
<1>1. \A p \in Ports : servers[p] = <<>> /\ owned[p] = {}
    BY DEF Init
<1>2. <<>> \in Seq(Hosts) /\ Range(<<>>) = {} /\ IsInjective(<<>>)
    BY DEF Range, IsInjective
<1>3. GoodServers(servers)
    BY <1>1, <1>2 DEF Init, GoodServers, Ports
<1>4. OwnerIsObeyed
    BY <1>1, <1>2 DEF OwnerIsObeyed
<1> QED BY <1>3, <1>4 DEF Init, IInv

\* Editing a good Gateway: the route comes or goes in the managed servers, and
\* everything else stays.
LEMMA EditKeepsOthers ==
    ASSUME GatewayAssumption, NEW job, job.route \in Routes, GoodServers(job.servers)
    PROVE  /\ GoodServers(Edited(job))
           /\ \A p \in Ports :
                  Range(Edited(job)[p]) \cap OwnHosts = Range(job.servers[p]) \cap OwnHosts
           /\ \A p \in Managed :
                  Range(Edited(job)[p]) = IF job.adds THEN Range(job.servers[p]) \cup {job.route}
                                          ELSE Range(job.servers[p]) \ {job.route}
           /\ Edited(job)[OtherPort] = job.servers[OtherPort]
<1> DEFINE r == job.route
           g == job.servers
           e == Edited(job)
<1>1. /\ r \in Hosts /\ r \notin OwnHosts
      /\ \A p \in Managed : p \in Ports /\ p # OtherPort
      /\ OtherPort \in Ports /\ OtherPort \notin Managed
    BY DEF GatewayAssumption, Hosts, Ports
<1>2. /\ DOMAIN e = Ports
      /\ e = [p \in Ports |-> e[p]]
      /\ \A p \in Ports \ Managed : e[p] = g[p]
      /\ \A p \in Managed : e[p] = IF job.adds THEN AddHost(g[p], r) ELSE RemoveHost(g[p], r)
    BY <1>1 DEF Edited
<1>3. \A p \in Ports : g[p] \in Seq(Hosts) /\ IsInjective(g[p])
    BY DEF GoodServers
<1>4. ASSUME NEW p \in Managed
      PROVE  /\ e[p] \in Seq(Hosts) /\ IsInjective(e[p])
             /\ Range(e[p]) = IF job.adds THEN Range(g[p]) \cup {r} ELSE Range(g[p]) \ {r}
    <2> DEFINE l == g[p]
    <2>1. l \in Seq(Hosts) /\ IsInjective(l) /\ e[p] = IF job.adds THEN AddHost(l, r) ELSE RemoveHost(l, r)
        BY <1>1, <1>2, <1>3
    <2> HIDE DEF l, e
    <2>2. /\ AddHost(l, r) \in Seq(Hosts) /\ IsInjective(AddHost(l, r))
          /\ Range(AddHost(l, r)) = Range(l) \cup {r}
        BY <1>1, <2>1, AddHostAdds
    <2>3. /\ RemoveHost(l, r) \in Seq(Hosts) /\ IsInjective(RemoveHost(l, r))
          /\ Range(RemoveHost(l, r)) = Range(l) \ {r}
        BY <1>1, <2>1, RemoveHostRemoves
    <2> QED BY <2>1, <2>2, <2>3 DEF l
<1>5. \A p \in Ports : e[p] \in Seq(Hosts) /\ IsInjective(e[p])
    BY <1>2, <1>3, <1>4
<1>6. e[OtherPort] = g[OtherPort]
    BY <1>1, <1>2
<1> HIDE DEF e
<1>7. \A p \in Ports : Range(e[p]) \cap OwnHosts = Range(g[p]) \cap OwnHosts
    BY <1>1, <1>2, <1>4
<1>8. \A p, q \in Managed : Range(e[p]) \cap Routes = Range(e[q]) \cap Routes
    BY <1>4 DEF GoodServers
<1>9. e \in [Ports -> Seq(Hosts)]
    BY <1>2, <1>5
<1>10. GoodServers(e)
    BY <1>5, <1>6, <1>8, <1>9 DEF GoodServers
<1> QED BY <1>4, <1>6, <1>7, <1>10 DEF e

\* A write, of whatever it may be, leaves every copy with an old version or
\* with the Gateway as it is.
LEMMA WriteAgesCopies ==
    ASSUME IInv, NEW new, Write(new)
    PROVE  /\ servers' = new /\ version' \in Nat
           /\ \A s \in Syncs : copy[s] # None =>
                  /\ copy[s].version <= version'
                  /\ copy[s].version = version' => copy[s].servers = servers'
<1>1. CASE new = servers
    BY <1>1 DEF Write, IInv
<1>2. CASE new # servers
    BY <1>2 DEF Write, IInv
<1> QED BY <1>1, <1>2

\* The owner's edit of one list leaves a good Gateway.
LEMMA OwnerKeepsGood ==
    ASSUME GatewayAssumption, GoodServers(servers), NEW p \in Ports, NEW list \in Seq(Hosts),
           IsInjective(list), Range(list) \cap Routes = Range(servers[p]) \cap Routes
    PROVE  GoodServers([servers EXCEPT ![p] = list])
<1> DEFINE g == [servers EXCEPT ![p] = list]
<1>1. \A q \in Ports : g[q] = IF q = p THEN list ELSE servers[q]
    BY DEF GoodServers
<1>2. \A q \in Ports : Range(g[q]) \cap Routes = Range(servers[q]) \cap Routes
    BY <1>1
<1>3. g \in [Ports -> Seq(Hosts)]
    BY DEF GoodServers
<1>4. OtherPort \in Ports /\ Managed \subseteq Ports
    BY DEF Ports
<1> HIDE DEF g
<1>5. GoodServers(g)
    BY <1>1, <1>2, <1>3, <1>4 DEF GoodServers
<1> QED BY <1>5 DEF g

LEMMA GetKeeps ==
    ASSUME IInv, NEW s \in Syncs, NEW r \in Routes, NEW adds \in BOOLEAN, GetGateway(s, adds, r)
    PROVE  IInv'
<1> DEFINE got == [servers |-> servers, version |-> version, adds |-> adds, route |-> r]
<1>1. copy' = [copy EXCEPT ![s] = got] /\ UNCHANGED <<servers, version, owned>>
    BY DEF GetGateway
<1>2. /\ DOMAIN copy' = Syncs
      /\ \A d \in Syncs : copy'[d] = IF d = s THEN got ELSE copy[d]
    BY <1>1 DEF IInv
<1>3. got.servers = servers /\ got.version = version /\ got.adds = adds /\ got.route = r
    OBVIOUS
<1>4. GoodServers(servers)' /\ OwnerIsObeyed'
    BY <1>1 DEF IInv, GoodServers, OwnerIsObeyed
<1> HIDE DEF got
<1> QED BY <1>1, <1>2, <1>3, <1>4 DEF IInv

LEMMA PutKeeps ==
    ASSUME GatewayAssumption, IInv, NEW s \in Syncs, PutGateway(s)
    PROVE  IInv'
<1> DEFINE job == copy[s]
<1>1. /\ job # None /\ job.version = version /\ Write(Edited(job))
      /\ copy' = [copy EXCEPT ![s] = None] /\ owned' = owned
    BY DEF PutGateway, Drop
<1>2. job.servers = servers /\ job.route \in Routes
    BY <1>1 DEF IInv
<1>3. /\ servers' = Edited(job) /\ version' \in Nat
      /\ \A d \in Syncs : copy[d] # None =>
             /\ copy[d].version <= version'
             /\ copy[d].version = version' => copy[d].servers = servers'
    BY <1>1, WriteAgesCopies
<1>4. /\ GoodServers(Edited(job))
      /\ \A p \in Ports : Range(Edited(job)[p]) \cap OwnHosts = Range(servers[p]) \cap OwnHosts
    <2> HIDE DEF job
    <2>1. GoodServers(job.servers)
        BY <1>2 DEF IInv
    <2> QED BY <1>2, <2>1, EditKeepsOthers
<1>5. /\ DOMAIN copy' = Syncs
      /\ \A d \in Syncs : copy'[d] = IF d = s THEN None ELSE copy[d]
    BY <1>1 DEF IInv
<1>6. GoodServers(servers)'
    BY <1>3, <1>4 DEF GoodServers
<1>7. OwnerIsObeyed'
    BY <1>1, <1>3, <1>4 DEF IInv, OwnerIsObeyed
<1> QED BY <1>1, <1>3, <1>5, <1>6, <1>7 DEF IInv

LEMMA FailKeeps ==
    ASSUME IInv, NEW s \in Syncs, PutFails(s)
    PROVE  IInv'
<1>1. copy' = [copy EXCEPT ![s] = None] /\ UNCHANGED <<servers, version, owned>>
    BY DEF PutFails, Drop
<1>2. /\ DOMAIN copy' = Syncs
      /\ \A d \in Syncs : copy'[d] = IF d = s THEN None ELSE copy[d]
    BY <1>1 DEF IInv
<1>3. GoodServers(servers)' /\ OwnerIsObeyed'
    BY <1>1 DEF IInv, GoodServers, OwnerIsObeyed
<1> QED BY <1>1, <1>2, <1>3 DEF IInv

\* What the owner does to one list, it wants.
LEMMA OwnerEditKeeps ==
    ASSUME GatewayAssumption, IInv, NEW p \in Ports, NEW list \in Seq(Hosts), NEW wanted,
           IsInjective(list), Range(list) \cap Routes = Range(servers[p]) \cap Routes,
           Range(list) \cap OwnHosts = wanted,
           Write([servers EXCEPT ![p] = list]), owned' = [owned EXCEPT ![p] = wanted],
           copy' = copy
    PROVE  /\ IInv'
           /\ \A x \in Ports : Range(servers'[x]) \cap Routes = Range(servers[x]) \cap Routes
<1> DEFINE g == [servers EXCEPT ![p] = list]
<1>1. GoodServers(g)
    BY OwnerKeepsGood DEF IInv
<1>2. /\ servers' = g /\ version' \in Nat
      /\ \A d \in Syncs : copy[d] # None =>
             /\ copy[d].version <= version'
             /\ copy[d].version = version' => copy[d].servers = servers'
    BY WriteAgesCopies
<1>3. \A q \in Ports : g[q] = IF q = p THEN list ELSE servers[q]
    BY DEF IInv, GoodServers
<1>4. /\ DOMAIN owned' = Ports
      /\ \A q \in Ports : owned'[q] = IF q = p THEN wanted ELSE owned[q]
    BY DEF IInv
<1> HIDE DEF g
<1>5. OwnerIsObeyed'
    BY <1>2, <1>3, <1>4 DEF IInv, OwnerIsObeyed
<1>6. GoodServers(servers)'
    BY <1>1, <1>2 DEF GoodServers
<1>7. IInv'
    BY <1>2, <1>4, <1>5, <1>6 DEF IInv
<1>8. \A x \in Ports : Range(servers'[x]) \cap Routes = Range(servers[x]) \cap Routes
    BY <1>2, <1>3
<1> QED BY <1>7, <1>8

LEMMA OwnerListsKeeps ==
    ASSUME GatewayAssumption, IInv, NEW p \in Ports, NEW h \in OwnHosts,
           NEW i \in 0 .. Len(servers[p]), OwnerLists(p, h, i)
    PROVE  /\ IInv'
           /\ \A x \in Ports : Range(servers'[x]) \cap Routes = Range(servers[x]) \cap Routes
<1> DEFINE q == servers[p]
           list == (SubSeq(q, 1, i) \o <<h>>) \o SubSeq(q, i + 1, Len(q))
<1>1. q \in Seq(Hosts) /\ IsInjective(q) /\ Range(q) \cap OwnHosts = owned[p]
    BY DEF IInv, GoodServers, OwnerIsObeyed
<1>2. h \notin owned[p] /\ h \in Hosts /\ h \notin Routes
    BY DEF OwnerLists, GatewayAssumption, Hosts
<1>3. h \notin Range(q) /\ i \in 0 .. Len(q)
    BY <1>1, <1>2
<1>4. list \in Seq(Hosts) /\ Range(list) = Range(q) \cup {h} /\ IsInjective(list)
    <2> HIDE DEF q
    <2> QED BY <1>1, <1>2, <1>3, InsertionAdds
<1>5. /\ Write([servers EXCEPT ![p] = list])
      /\ owned' = [owned EXCEPT ![p] = owned[p] \cup {h}] /\ copy' = copy
    <2>1. DOMAIN servers = Ports /\ DOMAIN owned = Ports
        BY DEF IInv, GoodServers
    <2> QED BY <2>1 DEF OwnerLists
<1> HIDE DEF list
<1>6. /\ Range(list) \cap Routes = Range(servers[p]) \cap Routes
      /\ Range(list) \cap OwnHosts = owned[p] \cup {h}
    BY <1>1, <1>2, <1>4
<1> QED BY <1>4, <1>5, <1>6, OwnerEditKeeps

LEMMA OwnerRemovesKeeps ==
    ASSUME GatewayAssumption, IInv, NEW p \in Ports, NEW i \in 1 .. Len(servers[p]),
           OwnerRemoves(p, i)
    PROVE  /\ IInv'
           /\ \A x \in Ports : Range(servers'[x]) \cap Routes = Range(servers[x]) \cap Routes
<1> DEFINE q == servers[p]
           list == SubSeq(q, 1, i - 1) \o SubSeq(q, i + 1, Len(q))
<1>1. q \in Seq(Hosts) /\ IsInjective(q) /\ Range(q) \cap OwnHosts = owned[p]
    BY DEF IInv, GoodServers, OwnerIsObeyed
<1>2. q[i] \in OwnHosts /\ q[i] \notin Routes
    BY DEF OwnerRemoves, GatewayAssumption
<1>3. list \in Seq(Hosts) /\ Range(list) = Range(q) \ {q[i]} /\ IsInjective(list)
    <2>1. i \in 1 .. Len(q)
        OBVIOUS
    <2> HIDE DEF q
    <2> QED BY <1>1, <2>1, DeletionRemoves
<1>4. /\ Write([servers EXCEPT ![p] = list])
      /\ owned' = [owned EXCEPT ![p] = owned[p] \ {q[i]}] /\ copy' = copy
    <2>1. DOMAIN servers = Ports /\ DOMAIN owned = Ports
        BY DEF IInv, GoodServers
    <2> QED BY <2>1 DEF OwnerRemoves
<1> HIDE DEF list
<1>5. /\ Range(list) \cap Routes = Range(servers[p]) \cap Routes
      /\ Range(list) \cap OwnHosts = owned[p] \ {q[i]}
    BY <1>1, <1>2, <1>3
<1> QED BY <1>3, <1>4, <1>5, OwnerEditKeeps

LEMMA InvStep ==
    ASSUME GatewayAssumption, IInv, [Next]_vars
    PROVE  IInv'
<1>1. ASSUME NEW s \in Syncs, NEW r \in Routes, NEW adds \in BOOLEAN, GetGateway(s, adds, r)
      PROVE  IInv'
    BY <1>1, GetKeeps
<1>2. ASSUME NEW s \in Syncs, PutGateway(s) PROVE IInv'
    BY <1>2, PutKeeps
<1>3. ASSUME NEW s \in Syncs, PutFails(s) PROVE IInv'
    BY <1>3, FailKeeps
<1>4. ASSUME NEW p \in Ports, NEW h \in OwnHosts, NEW i \in 0 .. Len(servers[p]),
             OwnerLists(p, h, i)
      PROVE  IInv'
    BY <1>4, OwnerListsKeeps
<1>5. ASSUME NEW p \in Ports, NEW i \in 1 .. Len(servers[p]), OwnerRemoves(p, i)
      PROVE  IInv'
    BY <1>5, OwnerRemovesKeeps
<1>6. CASE UNCHANGED vars
    BY <1>6 DEF vars, IInv, GoodServers, OwnerIsObeyed
<1> QED BY <1>1, <1>2, <1>3, <1>4, <1>5, <1>6 DEF Next

LEMMA InvHolds ==
    ASSUME GatewayAssumption
    PROVE  Spec => []IInv
<1>1. Init => IInv
    BY InvInit
<1>2. IInv /\ [Next]_vars => IInv'
    BY InvStep
<1> QED BY <1>1, <1>2, PTL DEF Spec

-----------------------------------------------------------------------------
(* Types: the versions stay below their bound, and a copy, however old, is *)
(* a Gateway as it once was.                                               *)

LEMMA WriteKeepsVersion ==
    ASSUME GatewayAssumption, TypeOK, NEW new, Write(new)
    PROVE  version' \in 0 .. MaxVersion /\ version <= version'
BY DEF Write, TypeOK, GatewayAssumption

\* A step that leaves the copies alone, but for one that it drops.
LEMMA WriteKeepsTypes ==
    ASSUME TypeOK, IInv, IInv', version' \in 0 .. MaxVersion, version <= version',
           owned' \in [Ports -> SUBSET OwnHosts],
           copy' = copy \/ \E s \in Syncs : Drop(s)
    PROVE  TypeOK'
<1>1. \A s \in Syncs : copy'[s] # None => copy'[s] = copy[s]
    BY DEF Drop, IInv
<1>2. \A n \in 0 .. version : n \in 0 .. version'
    BY DEF TypeOK
<1> QED BY <1>1, <1>2 DEF TypeOK, IInv, GoodServers, Ports, Hosts

LEMMA TypeInit ==
    ASSUME GatewayAssumption, Init
    PROVE  TypeOK
<1>1. 0 \in 0 .. MaxVersion
    BY DEF GatewayAssumption
<1>2. servers \in [Ports -> Seq(Hosts)]
    BY InvInit DEF IInv, GoodServers
<1> QED BY <1>1, <1>2 DEF Init, TypeOK

LEMMA TypeStep ==
    ASSUME GatewayAssumption, IInv, TypeOK, [Next]_vars
    PROVE  TypeOK'
<1>1. IInv'
    BY InvStep
<1>2. ASSUME NEW s \in Syncs, NEW r \in Routes, NEW adds \in BOOLEAN, GetGateway(s, adds, r)
      PROVE  TypeOK'
    <2> DEFINE got == [servers |-> servers, version |-> version, adds |-> adds, route |-> r]
    <2>1. UNCHANGED <<servers, version, owned>>
        BY <1>2 DEF GetGateway
    <2>2. \A t \in Syncs : copy'[t] = IF t = s THEN got ELSE copy[t]
        BY <1>2 DEF GetGateway, IInv
    <2>3. version \in 0 .. version
        BY DEF IInv
    <2> QED BY <2>1, <2>2, <2>3 DEF TypeOK, Ports, Hosts
<1>3. ASSUME NEW s \in Syncs, PutGateway(s)
      PROVE  TypeOK'
    <2>1. version' \in 0 .. MaxVersion /\ version <= version'
        BY <1>3, WriteKeepsVersion DEF PutGateway
    <2>2. Drop(s) /\ owned' = owned
        BY <1>3 DEF PutGateway
    <2> QED BY <1>1, <2>1, <2>2, WriteKeepsTypes DEF TypeOK
<1>4. ASSUME NEW s \in Syncs, PutFails(s)
      PROVE  TypeOK'
    <2>1. Drop(s) /\ UNCHANGED <<servers, version, owned>>
        BY <1>4 DEF PutFails
    <2>2. version' \in 0 .. MaxVersion /\ version <= version'
        BY <2>1 DEF TypeOK, GatewayAssumption
    <2> QED BY <1>1, <2>1, <2>2, WriteKeepsTypes DEF TypeOK
<1>5. ASSUME NEW p \in Ports, NEW h \in OwnHosts, NEW i \in 0 .. Len(servers[p]),
             OwnerLists(p, h, i)
      PROVE  TypeOK'
    <2>1. version' \in 0 .. MaxVersion /\ version <= version'
        BY <1>5, WriteKeepsVersion DEF OwnerLists
    <2>2. copy' = copy /\ owned' = [owned EXCEPT ![p] = @ \cup {h}]
        BY <1>5 DEF OwnerLists
    <2>3. owned' \in [Ports -> SUBSET OwnHosts]
        BY <2>2 DEF TypeOK
    <2> QED BY <1>1, <2>1, <2>2, <2>3, WriteKeepsTypes
<1>6. ASSUME NEW p \in Ports, NEW i \in 1 .. Len(servers[p]), OwnerRemoves(p, i)
      PROVE  TypeOK'
    <2>1. version' \in 0 .. MaxVersion /\ version <= version'
        BY <1>6, WriteKeepsVersion DEF OwnerRemoves
    <2>2. copy' = copy /\ owned' = [owned EXCEPT ![p] = @ \ {servers[p][i]}]
        BY <1>6 DEF OwnerRemoves
    <2>3. owned' \in [Ports -> SUBSET OwnHosts]
        BY <2>2 DEF TypeOK
    <2> QED BY <1>1, <2>1, <2>2, <2>3, WriteKeepsTypes
<1>7. CASE UNCHANGED vars
    BY <1>7 DEF vars, TypeOK
<1> QED BY <1>2, <1>3, <1>4, <1>5, <1>6, <1>7 DEF Next

\* Every variable of the Gateway keeps its type: in particular no edit of a
\* list leaves anything there but hosts of routes and of the owner.
THEOREM TypeCorrect ==
    ASSUME GatewayAssumption
    PROVE  Spec => []TypeOK
<1>1. Init => TypeOK
    BY TypeInit
<1>2. IInv /\ TypeOK /\ [Next]_vars => TypeOK'
    BY TypeStep
<1> QED BY <1>1, <1>2, InvHolds, PTL DEF Spec

-----------------------------------------------------------------------------
\* Whatever the controllers write back, the hosts of the owner in each server
\* are those that it wants there: the version of the Get, which PutGateway
\* sends, turns every write that would undo the owner's into a conflict.
THEOREM OwnHostsStay ==
    ASSUME GatewayAssumption
    PROVE  Spec => []OwnerIsObeyed
<1>1. IInv => OwnerIsObeyed
    BY DEF IInv
<1> QED BY <1>1, InvHolds, PTL

\* Every list holds each host once, so that the search of the teardown, which
\* breaks at the first match (controller.go:320-332), finds all there is.
THEOREM HostsAreUnique ==
    ASSUME GatewayAssumption
    PROVE  Spec => []HostsAreListedOnce
<1>1. IInv => HostsAreListedOnce
    BY DEF IInv, GoodServers, HostsAreListedOnce
<1> QED BY <1>1, InvHolds, PTL

\* The http and the https server always host the same routes.
THEOREM ManagedServersAgree ==
    ASSUME GatewayAssumption
    PROVE  Spec => []ServersAgree
<1>1. IInv => ServersAgree
    BY DEF IInv, GoodServers, ServersAgree
<1> QED BY <1>1, InvHolds, PTL

\* A sync's write gives one route to the hosted ones or takes one away.
LEMMA PutEditsOneRoute ==
    ASSUME GatewayAssumption, IInv, NEW s \in Syncs, PutGateway(s)
    PROVE  \E r \in Routes : Hosted' \in {Hosted, Hosted \cup {r}, Hosted \ {r}}
<1> DEFINE job == copy[s]
           r == job.route
<1>1. /\ job # None /\ job.version = version /\ servers' = Edited(job)
      /\ job.servers = servers /\ r \in Routes
    BY DEF PutGateway, Write, IInv
<1> HIDE DEF job
<1>2. /\ \A p \in Managed :
             Range(servers'[p]) = IF job.adds THEN Range(servers[p]) \cup {r}
                                  ELSE Range(servers[p]) \ {r}
      /\ servers'[OtherPort] = servers[OtherPort]
    <2>1. GoodServers(job.servers)
        BY <1>1 DEF IInv
    <2> QED BY <1>1, <2>1, EditKeepsOthers
<1>3. Range(servers[OtherPort]) \cap Routes = {}
    BY DEF IInv, GoodServers
<1> HIDE DEF r
<1>4. Hosted = (UNION {Range(servers[p]) : p \in Managed}) \cap Routes
    BY <1>3 DEF Hosted, Ports
<1>5. Hosted' = (UNION {Range(servers'[p]) : p \in Managed}) \cap Routes
    BY <1>2, <1>3 DEF Hosted, Ports
<1>6. CASE Managed = {}
    BY <1>1, <1>4, <1>5, <1>6
<1>7. CASE Managed # {} /\ job.adds
    <2>1. Hosted' = Hosted \cup {r}
        BY <1>1, <1>2, <1>4, <1>5, <1>7
    <2> QED BY <1>1, <2>1
<1>8. CASE ~job.adds
    <2>1. Hosted' = Hosted \ {r}
        BY <1>1, <1>2, <1>4, <1>5, <1>8
    <2> QED BY <1>1, <2>1
<1> QED BY <1>6, <1>7, <1>8

LEMMA SameRoutes ==
    ASSUME \A p \in Ports : Range(servers'[p]) \cap Routes = Range(servers[p]) \cap Routes
    PROVE  Hosted' = Hosted
<1>1. Hosted = UNION {Range(servers[p]) \cap Routes : p \in Ports}
    BY DEF Hosted
<1>2. Hosted' = UNION {Range(servers'[p]) \cap Routes : p \in Ports}
    BY DEF Hosted, Ports
<1> QED BY <1>1, <1>2

\* The reduction that RouteSync makes: seen from any one of its readers, the
\* whole lists that a PutGateway sends change the set of hosted routes by the
\* one route of that sync, and the edits of the owner change nothing.
THEOREM GatewayIsASet ==
    ASSUME GatewayAssumption, Routes # {}
    PROVE  Spec => EditsAreSetEdits
<1> DEFINE OneRoute == \E r \in Routes : Hosted' \in {Hosted, Hosted \cup {r}, Hosted \ {r}}
<1>1. ASSUME Hosted' = Hosted PROVE OneRoute
    <2>1. PICK r \in Routes : TRUE
        OBVIOUS
    <2> QED BY <1>1, <2>1
<1>2. IInv /\ [Next]_vars => [OneRoute]_vars
    <2> SUFFICES ASSUME IInv, Next PROVE OneRoute
        OBVIOUS
    <2> HIDE DEF OneRoute
    <2>1. ASSUME NEW s \in Syncs, NEW r \in Routes, NEW adds \in BOOLEAN, GetGateway(s, adds, r)
          PROVE  OneRoute
        BY <1>1, <2>1, SameRoutes DEF GetGateway
    <2>2. ASSUME NEW s \in Syncs, PutGateway(s) PROVE OneRoute
        BY <2>2, PutEditsOneRoute DEF OneRoute
    <2>3. ASSUME NEW s \in Syncs, PutFails(s) PROVE OneRoute
        BY <1>1, <2>3, SameRoutes DEF PutFails
    <2>4. ASSUME NEW p \in Ports, NEW h \in OwnHosts, NEW i \in 0 .. Len(servers[p]),
                 OwnerLists(p, h, i)
          PROVE  OneRoute
        BY <1>1, <2>4, OwnerListsKeeps, SameRoutes
    <2>5. ASSUME NEW p \in Ports, NEW i \in 1 .. Len(servers[p]), OwnerRemoves(p, i)
          PROVE  OneRoute
        BY <1>1, <2>5, OwnerRemovesKeeps, SameRoutes
    <2> QED BY <2>1, <2>2, <2>3, <2>4, <2>5 DEF Next
<1>3. Spec => [][OneRoute]_vars
    <2> HIDE DEF OneRoute
    <2> QED BY <1>2, InvHolds, PTL DEF Spec
<1> QED BY <1>3 DEF EditsAreSetEdits

=============================================================================
