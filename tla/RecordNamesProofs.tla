-------------------------- MODULE RecordNamesProofs --------------------------
(***************************************************************************)
(* Different ServiceRoutes have different records, for labels of any       *)
(* length over any characters: where the first "--" of a composed name is, *)
(* the cluster ends, and where the next one is, the namespace does.        *)
(***************************************************************************)
EXTENDS RecordNames, SequenceTheorems, TLAPS

\* What is in front of the first "--": a part that has none inside and does
\* not end with a dash is not longer than another one that can be there.
LEMMA FirstPartIsNotShorter ==
    ASSUME NEW S, NEW a \in Seq(S), NEW b \in Seq(S), NEW p \in Seq(S), NEW q \in Seq(S),
           Dash \in S, ~ Doubled(b), b # <<>>, b[Len(b)] # Dash,
           a \o <<Dash, Dash>> \o p = b \o <<Dash, Dash>> \o q
    PROVE  Len(a) >= Len(b)
<1> DEFINE n == Len(a)
           s == a \o <<Dash, Dash>> \o p
           t == b \o <<Dash, Dash>> \o q
<1> SUFFICES ASSUME n < Len(b) PROVE FALSE
    OBVIOUS
<1>1. n \in Nat /\ Len(b) \in Nat /\ s = t
    <2>1. s = t
        OBVIOUS
    <2>2. n \in Nat /\ Len(b) \in Nat
        OBVIOUS
    <2> QED BY <2>1, <2>2
<1>2. s[n + 1] = Dash /\ s[n + 2] = Dash
    OBVIOUS
<1>3. \A i \in 1 .. Len(b) : t[i] = b[i]
    OBVIOUS
<1>4. CASE n + 2 <= Len(b)
    <2>1. b[n + 1] = Dash /\ b[n + 2] = Dash
        BY <1>1, <1>2, <1>3, <1>4
    <2>2. n + 1 \in 1 .. Len(b) - 1 /\ (n + 1) + 1 = n + 2
        BY <1>1, <1>4
    <2> QED BY <2>1, <2>2 DEF Doubled
<1>5. CASE n + 1 = Len(b)
    BY <1>1, <1>2, <1>3, <1>5
<1> QED BY <1>1, <1>4, <1>5

\* Both parts are the same, and so is what follows the separator.
LEMMA FirstPartIsUnique ==
    ASSUME NEW S, NEW a \in Seq(S), NEW b \in Seq(S), NEW p \in Seq(S), NEW q \in Seq(S),
           Dash \in S,
           ~ Doubled(a), a # <<>>, a[Len(a)] # Dash,
           ~ Doubled(b), b # <<>>, b[Len(b)] # Dash,
           a \o <<Dash, Dash>> \o p = b \o <<Dash, Dash>> \o q
    PROVE  a = b /\ p = q
<1> DEFINE s == a \o <<Dash, Dash>> \o p
           t == b \o <<Dash, Dash>> \o q
<1>1. Len(a) >= Len(b)
    BY FirstPartIsNotShorter
<1>2. Len(b) >= Len(a)
    BY FirstPartIsNotShorter
<1>3. Len(a) = Len(b)
    BY <1>1, <1>2
<1>4. /\ \A i \in 1 .. Len(a) : s[i] = a[i]
      /\ \A i \in 1 .. Len(b) : t[i] = b[i]
    OBVIOUS
<1>5. a = b
    BY <1>3, <1>4
<1>6. Len(s) = Len(a) + 2 + Len(p) /\ Len(t) = Len(b) + 2 + Len(q)
    OBVIOUS
<1>7. Len(p) = Len(q)
    BY <1>3, <1>6
<1>8. /\ \A i \in 1 .. Len(p) : s[Len(a) + 2 + i] = p[i]
      /\ \A i \in 1 .. Len(q) : t[Len(b) + 2 + i] = q[i]
    OBVIOUS
<1>9. p = q
    BY <1>3, <1>7, <1>8
<1> QED BY <1>5, <1>9

\* The names that the controllers compose for the records of two ServiceRoutes
\* differ, wherever single dashes are.
THEOREM RecordNamesDiffer ==
    ASSUME RecordNamesAssumption,
           NEW j \in ServiceRoutes, NEW k \in ServiceRoutes, RecordName(j) = RecordName(k)
    PROVE  j = k
<1> DEFINE S == STRING \cup {Dash}
           Rest(i) == (i.ns \o <<Dash, Dash>>) \o i.name
<1>1. Dash \in S /\ <<Dash, Dash>> \in Seq(S)
    OBVIOUS
<1>2. ASSUME NEW i \in ServiceRoutes
      PROVE  /\ i.cluster \in Seq(S) /\ i.ns \in Seq(S) /\ i.name \in Seq(S)
             /\ ~ Doubled(i.cluster) /\ i.cluster # <<>> /\ i.cluster[Len(i.cluster)] # Dash
             /\ ~ Doubled(i.ns) /\ i.ns # <<>> /\ i.ns[Len(i.ns)] # Dash
    <2>1. i.cluster \in Clusters /\ i.ns \in Namespaces /\ i.name \in Names
        BY DEF ServiceRoutes
    <2>2. \A l \in Seq(STRING) : l \in Seq(S)
        OBVIOUS
    <2> QED BY <2>1, <2>2 DEF RecordNamesAssumption, IsLabel
<1> HIDE DEF S
<1>3. ASSUME NEW i \in ServiceRoutes
      PROVE  /\ Rest(i) \in Seq(S)
             /\ RecordName(i) = (i.cluster \o <<Dash, Dash>>) \o Rest(i)
    <2>1. /\ i.cluster \in Seq(S) /\ i.ns \in Seq(S) /\ i.name \in Seq(S)
          /\ i.cluster \o <<Dash, Dash>> \in Seq(S) /\ i.ns \o <<Dash, Dash>> \in Seq(S)
        BY <1>1, <1>2, ConcatProperties
    <2> DEFINE c == i.cluster \o <<Dash, Dash>>
               d == <<Dash, Dash>>
               m == i.ns
               n == i.name
    <2>2. Rest(i) \in Seq(S)
        BY <2>1, ConcatProperties
    <2>3. RecordName(i) = ((c \o m) \o d) \o n /\ Rest(i) = (m \o d) \o n
        BY DEF RecordName
    <2>4. c \in Seq(S) /\ d \in Seq(S) /\ m \in Seq(S) /\ n \in Seq(S) /\ m \o d \in Seq(S)
        BY <1>1, <2>1
    <2> HIDE DEF c, d, m, n
    <2>5. (c \o m) \o d = c \o (m \o d)
        BY <2>4, ConcatAssociative
    <2>6. (c \o (m \o d)) \o n = c \o ((m \o d) \o n)
        <3> DEFINE e == m \o d
        <3>1. e \in Seq(S)
            BY <2>4
        <3> HIDE DEF e
        <3>2. (c \o e) \o n = c \o (e \o n)
            BY <2>4, <3>1, ConcatAssociative
        <3> QED BY <3>2 DEF e
    <2>7. RecordName(i) = c \o Rest(i)
        BY <2>3, <2>5, <2>6
    <2> QED BY <2>2, <2>7 DEF c
<1>4. j.cluster = k.cluster /\ Rest(j) = Rest(k)
    <2> DEFINE a == j.cluster
               b == k.cluster
               p == Rest(j)
               q == Rest(k)
    <2>1. a \o <<Dash, Dash>> \o p = b \o <<Dash, Dash>> \o q
        BY <1>3
    <2>2. a \in Seq(S) /\ b \in Seq(S) /\ p \in Seq(S) /\ q \in Seq(S)
        BY <1>2, <1>3
    <2>3. /\ ~ Doubled(a) /\ a # <<>> /\ a[Len(a)] # Dash
          /\ ~ Doubled(b) /\ b # <<>> /\ b[Len(b)] # Dash
        BY <1>2
    <2> HIDE DEF a, b, p, q
    <2>4. a = b /\ p = q
        BY <1>1, <2>1, <2>2, <2>3, FirstPartIsUnique
    <2> QED BY <2>4 DEF a, b, p, q
<1>5. j.ns = k.ns /\ j.name = k.name
    <2> DEFINE a == j.ns
               b == k.ns
               p == j.name
               q == k.name
    <2>1. a \o <<Dash, Dash>> \o p = b \o <<Dash, Dash>> \o q
        BY <1>4
    <2>2. a \in Seq(S) /\ b \in Seq(S) /\ p \in Seq(S) /\ q \in Seq(S)
        BY <1>2, <1>3
    <2>3. /\ ~ Doubled(a) /\ a # <<>> /\ a[Len(a)] # Dash
          /\ ~ Doubled(b) /\ b # <<>> /\ b[Len(b)] # Dash
        BY <1>2
    <2> HIDE DEF a, b, p, q
    <2>4. a = b /\ p = q
        BY <1>1, <2>1, <2>2, <2>3, FirstPartIsUnique
    <2> QED BY <2>4 DEF a, b, p, q
<1> QED BY <1>4, <1>5 DEF ServiceRoutes

-----------------------------------------------------------------------------
\* The inductive invariant: under the name of each ServiceRoute there is its
\* own record or none.
NamesInv ==
    /\ DOMAIN wish \subseteq ServiceRoutes
    /\ DOMAIN records = {RecordName(k) : k \in DOMAIN wish}
    /\ \A k \in DOMAIN wish : records[RecordName(k)] # None => records[RecordName(k)].from = k

\* What a write under the name of k leaves there is nobody else's.
LEMMA WriteKeepsNames ==
    ASSUME RecordNamesAssumption, NamesInv, NEW k \in DOMAIN wish, NEW new,
           new # None => new.from = k,
           records' = [records EXCEPT ![RecordName(k)] = new], UNCHANGED wish
    PROVE  NamesInv'
<1>1. DOMAIN records' = DOMAIN records /\ wish' = wish
    OBVIOUS
<1>2. \A i \in DOMAIN wish :
          records'[RecordName(i)] = IF i = k THEN new ELSE records[RecordName(i)]
    <2> SUFFICES ASSUME NEW i \in DOMAIN wish
                 PROVE  records'[RecordName(i)] = IF i = k THEN new ELSE records[RecordName(i)]
        OBVIOUS
    <2>1. RecordName(i) \in DOMAIN records
        BY DEF NamesInv
    <2>2. i # k => RecordName(i) # RecordName(k)
        BY RecordNamesDiffer DEF NamesInv
    <2> QED BY <2>1, <2>2
<1> QED BY <1>1, <1>2 DEF NamesInv

LEMMA NamesInvInit == Init => NamesInv
<1> SUFFICES ASSUME NEW j \in ServiceRoutes, NEW k \in ServiceRoutes,
                    wish = [i \in {j, k} |-> None],
                    records = [s \in {RecordName(i) : i \in {j, k}} |-> None]
             PROVE  NamesInv
    BY DEF Init
<1>1. DOMAIN wish = {j, k} /\ DOMAIN records = {RecordName(i) : i \in {j, k}}
    OBVIOUS
<1>2. \A i \in {j, k} : records[RecordName(i)] = None
    OBVIOUS
<1> QED BY <1>1, <1>2 DEF NamesInv

LEMMA NamesInvStep ==
    ASSUME RecordNamesAssumption, NamesInv, [Next]_vars
    PROVE  NamesInv'
<1>1. ASSUME NEW k \in DOMAIN wish, NEW r \in Routes \cup {None}, UserAsks(k, r)
      PROVE  NamesInv'
    <2>1. DOMAIN wish' = DOMAIN wish /\ records' = records
        BY <1>1 DEF UserAsks
    <2> QED BY <2>1 DEF NamesInv
<1>2. ASSUME NEW k \in DOMAIN wish, Condemn(k)
      PROVE  NamesInv'
    <2>1. records[RecordName(k)] # None
        BY <1>2 DEF Condemn, Lookup, Api!Get, Api!Answer
    <2>2. records' = [records EXCEPT ![RecordName(k)] = None] /\ wish' = wish
        BY <1>2, <2>1 DEF Condemn, Api!Delete, Api!Answer
    <2> QED BY <2>2, WriteKeepsNames
<1>3. ASSUME NEW k \in DOMAIN wish, Claim(k)
      PROVE  NamesInv'
    <2> DEFINE new == [NewRecord(k) EXCEPT !.rv = 0]
    <2>1. records[RecordName(k)] = None
        BY <1>3 DEF Claim, Lookup, Api!Get, Api!Answer
    <2>2. records' = [records EXCEPT ![RecordName(k)] = new] /\ wish' = wish
        BY <1>3, <2>1 DEF Claim, Api!Create, Api!Stored, Api!Answer
    <2>3. new.from = k
        BY DEF NewRecord
    <2> QED BY <2>2, <2>3, WriteKeepsNames
<1>4. CASE UNCHANGED vars
    BY <1>4 DEF vars, NamesInv
<1> QED BY <1>1, <1>2, <1>3, <1>4 DEF Next

\* However ServiceRoutes are edited and records made and deleted, a sync finds
\* under the name it composes only the record of its own ServiceRoute.
THEOREM RecordsAreOwn ==
    ASSUME RecordNamesAssumption
    PROVE  Spec => []RecordIsOwn
<1>1. Init => NamesInv
    BY NamesInvInit
<1>2. NamesInv /\ [Next]_vars => NamesInv'
    BY NamesInvStep
<1>3. NamesInv => RecordIsOwn
    BY DEF NamesInv, RecordIsOwn, Lookup, Api!Get, Api!Answer
<1> QED BY <1>1, <1>2, <1>3, PTL DEF Spec

-----------------------------------------------------------------------------
(* Types.                                                                  *)

LEMMA TypeInit == Init => TypeOK
<1> SUFFICES ASSUME NEW j \in ServiceRoutes, NEW k \in ServiceRoutes,
                    wish = [i \in {j, k} |-> None],
                    records = [s \in {RecordName(i) : i \in {j, k}} |-> None]
             PROVE  TypeOK
    BY DEF Init
<1>1. DOMAIN wish = {j, k} /\ \A i \in {j, k} : wish[i] = None
    OBVIOUS
<1>2. \A i \in {j, k} : records[RecordName(i)] = None
    OBVIOUS
<1> QED BY <1>1, <1>2 DEF TypeOK

\* A call that leaves a record, or none, under the name of k.
LEMMA WriteKeepsTypes ==
    ASSUME TypeOK, NamesInv, NEW k \in DOMAIN wish, NEW new \in Records \cup {None},
           records' = [records EXCEPT ![RecordName(k)] = new], UNCHANGED wish
    PROVE  TypeOK'
<1>1. \A i \in DOMAIN wish : RecordName(i) \in DOMAIN records
    BY DEF NamesInv
<1>2. \A i \in DOMAIN wish : records'[RecordName(i)] \in {new, records[RecordName(i)]}
    BY <1>1
<1> QED BY <1>2 DEF TypeOK, Records, ServiceRoutes

LEMMA TypeStep ==
    ASSUME NamesInv, TypeOK, [Next]_vars
    PROVE  TypeOK'
<1>1. ASSUME NEW k \in DOMAIN wish, NEW r \in Routes \cup {None}, UserAsks(k, r)
      PROVE  TypeOK'
    <2>1. wish' = [wish EXCEPT ![k] = r] /\ records' = records
        BY <1>1 DEF UserAsks
    <2>2. DOMAIN wish' = DOMAIN wish /\ \A i \in DOMAIN wish : wish'[i] \in {r, wish[i]}
        BY <2>1
    <2> QED BY <2>1, <2>2 DEF TypeOK, Records, ServiceRoutes
<1>2. ASSUME NEW k \in DOMAIN wish, Condemn(k)
      PROVE  TypeOK'
    <2>1. records[RecordName(k)] # None
        BY <1>2 DEF Condemn, Lookup, Api!Get, Api!Answer
    <2>2. records' = [records EXCEPT ![RecordName(k)] = None] /\ wish' = wish
        BY <1>2, <2>1 DEF Condemn, Api!Delete, Api!Answer
    <2> QED BY <2>2, WriteKeepsTypes
<1>3. ASSUME NEW k \in DOMAIN wish, Claim(k)
      PROVE  TypeOK'
    <2> DEFINE new == [NewRecord(k) EXCEPT !.rv = 0]
    <2>1. records[RecordName(k)] = None
        BY <1>3 DEF Claim, Lookup, Api!Get, Api!Answer
    <2>2. records' = [records EXCEPT ![RecordName(k)] = new] /\ wish' = wish
        BY <1>3, <2>1 DEF Claim, Api!Create, Api!Stored, Api!Answer
    <2>3. wish[k] \in Routes /\ k \in ServiceRoutes
        BY <1>3 DEF Claim, TypeOK
    <2>4. new \in Records
        BY <2>3 DEF NewRecord, Records
    <2> HIDE DEF new
    <2> QED BY <2>2, <2>4, WriteKeepsTypes
<1>4. CASE UNCHANGED vars
    BY <1>4 DEF vars, TypeOK, Records, ServiceRoutes
<1> QED BY <1>1, <1>2, <1>3, <1>4 DEF Next

\* Wishes and records keep their types: a record is never made for a
\* ServiceRoute that asks for no route.
THEOREM TypeCorrect ==
    ASSUME RecordNamesAssumption
    PROVE  Spec => []TypeOK
<1>1. Init => NamesInv /\ TypeOK
    BY NamesInvInit, TypeInit
<1>2. NamesInv /\ TypeOK /\ [Next]_vars => NamesInv' /\ TypeOK'
    BY NamesInvStep, TypeStep
<1> QED BY <1>1, <1>2, PTL DEF Spec

=============================================================================
