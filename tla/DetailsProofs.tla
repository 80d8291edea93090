---------------------------- MODULE DetailsProofs ----------------------------
(***************************************************************************)
(* Resource versions, watches and the informer's cache for any number of   *)
(* ServiceRoutes and workers, and that they behave as the lagging copy of  *)
(* RouteSync; then the safety of all the details together (MCDetails),     *)
(* from that of each.                                                      *)
(***************************************************************************)
EXTENDS MCDetails, SequenceTheorems, TLAPS

-----------------------------------------------------------------------------
(* The inductive invariant.                                                *)

Version(k, obj) == obj = None \/ <<k, obj>> \in past
Current(k, obj) == obj = server[k] /\ obj # None

\* Everything that anybody holds is a version that the server has had.
History ==
    /\ \A k \in Keys : Version(k, server[k]) /\ Version(k, cache[k])
    /\ \A k \in Keys : \A i \in DOMAIN events[k] : Version(k, events[k][i].obj)
    /\ \A w \in Workers : seen[w] # None => hand[w] \in Keys /\ <<hand[w], seen[w]>> \in past

\* A resource version names one version of an object.
Versions ==
    /\ \A k \in Keys, o \in Objects : <<k, o>> \in past => o.rv <= version
    /\ \A k \in Keys, o, p \in Objects :
           <<k, o>> \in past /\ <<k, p>> \in past /\ o.rv = p.rv => o = p

\* The watch does not go back: what comes after the current version is it again.
Ordered ==
    \A k \in Keys :
        /\ Current(k, cache[k]) => \A i \in DOMAIN events[k] : Current(k, events[k][i].obj)
        /\ \A i, j \in DOMAIN events[k] :
               i < j /\ Current(k, events[k][i].obj) => Current(k, events[k][j].obj)

KeysAreNotShared ==
    \A v, w \in Workers : hand[v] = hand[w] /\ hand[v] # None => v = w

IInv == TypeOK /\ History /\ Versions /\ Ordered /\ KeysAreNotShared

Events == [kind : Kinds, obj : Contents]

LEMMA InvInit ==
    ASSUME Init
    PROVE  IInv
<1> USE RouteCacheAssumption
<1>1. TypeOK
    BY DEF Init, Nothing, TypeOK, Contents
<1>2. History /\ Versions /\ Ordered /\ KeysAreNotShared
    BY DEF Init, Nothing, History, Version, Versions, Ordered, Current, KeysAreNotShared
<1> QED BY <1>1, <1>2 DEF IInv

-----------------------------------------------------------------------------
(* Calls of the API server.                                                *)

Same == UNCHANGED <<serverVars, cacheVars>>

\* The ServiceRoute k becomes new, which has a version of its own, and the
\* watch is told.
Changes(k, new) ==
    /\ new = None \/ (new \in Objects /\ new.rv = version + 1)
    /\ version < MaxVersion
    /\ server' = [server EXCEPT ![k] = new]
    /\ version' = version + 1
    /\ past' = IF new # None THEN past \cup {<<k, new>>} ELSE past
    /\ events' = IF watching THEN [events EXCEPT ![k] = Append(@, Event(new))] ELSE events
    /\ UNCHANGED <<watching, cache, notes, breaks>>

\* An answer that leaves the store as it is, and one that has stored new.
LEMMA ApplyIs ==
    ASSUME IInv, NEW k \in Keys, NEW answer, Apply(k, answer), NEW new,
           new = None \/ (new \in Objects /\ new.rv = version + 1),
           answer.store = server \/ answer.store = [server EXCEPT ![k] = new]
    PROVE  Same \/ Changes(k, new)
<1>1. CASE answer.store = server
    BY <1>1 DEF Apply, Same, serverVars, cacheVars
<1>2. CASE answer.store # server
    <2>1. server \in [Keys -> Contents]
        BY DEF IInv, TypeOK
    <2>2. answer.store = [server EXCEPT ![k] = new] /\ answer.store[k] = new
        BY <1>2, <2>1
    <2> QED BY <1>2, <2>2 DEF Apply, Changes
<1> QED BY <1>1, <1>2

LEMMA CreateChanges ==
    ASSUME IInv, NEW k \in Keys, NEW r \in Routes, UserCreates(k, r)
    PROVE  UNCHANGED workVars /\ (Same \/ \E new \in Contents : Changes(k, new))
<1> USE RouteCacheAssumption
<1> DEFINE blank == [rv |-> 0, route |-> r, status |-> None]
           new == [rv |-> version + 1, route |-> r, status |-> None]
           answer == Api!Create(server, k, blank, version + 1)
<1>1. answer.store = [server EXCEPT ![k] = new]
    <2>1. [blank EXCEPT !.rv = version + 1] = new
        OBVIOUS
    <2>2. server[k] = None
        BY DEF UserCreates
    <2> HIDE DEF blank, new
    <2> QED BY <2>1, <2>2 DEF Api!Create, Api!Stored, Api!Answer
<1>2. Apply(k, answer) /\ UNCHANGED workVars
    BY DEF UserCreates
<1>3. CASE answer.store = server
    BY <1>2, <1>3 DEF Apply, Same, serverVars, cacheVars
<1>4. CASE answer.store # server
    <2>1. new \in Objects
        BY <1>2, <1>4 DEF Apply, Objects, Statuses, IInv, TypeOK
    <2> HIDE DEF answer, new
    <2>2. new \in Objects /\ new.rv = version + 1
        BY <2>1 DEF new
    <2>3. Same \/ Changes(k, new)
        BY <1>1, <1>2, <2>2, ApplyIs
    <2> QED BY <1>2, <2>1, <2>3 DEF Contents
<1> QED BY <1>3, <1>4

LEMMA EditChanges ==
    ASSUME IInv, NEW k \in Keys, NEW r \in Routes, UserEdits(k, r)
    PROVE  UNCHANGED workVars /\ (Same \/ \E new \in Contents : Changes(k, new))
<1> USE RouteCacheAssumption
<1> DEFINE old == server[k]
           edited == [old EXCEPT !.route = r]
           new == [edited EXCEPT !.rv = version + 1]
           answer == Api!Update(server, k, edited, version + 1)
<1>1. Apply(k, answer) /\ UNCHANGED workVars /\ old # None
    BY DEF UserEdits
<1>2. old \in Objects
    BY <1>1 DEF IInv, TypeOK, Contents
<1>3. answer.store = server \/ answer.store = [server EXCEPT ![k] = new]
    BY <1>1, <1>2 DEF Objects, Api!Update, Api!Stored, Api!Answer
<1>4. CASE answer.store = server
    BY <1>1, <1>4 DEF Apply, Same, serverVars, cacheVars
<1>5. CASE answer.store # server
    <2>1. version + 1 \in 1 .. MaxVersion
        BY <1>1, <1>5 DEF Apply, IInv, TypeOK
    <2>2. new \in Objects /\ new.rv = version + 1
        BY <1>2, <2>1 DEF Objects
    <2> HIDE DEF answer, new
    <2>3. Same \/ Changes(k, new)
        BY <1>1, <1>3, <2>2, ApplyIs
    <2> QED BY <1>1, <2>2, <2>3 DEF Contents
<1> QED BY <1>4, <1>5

LEMMA DeleteChanges ==
    ASSUME IInv, NEW k \in Keys, UserDeletes(k)
    PROVE  UNCHANGED workVars /\ (Same \/ \E new \in Contents : Changes(k, new))
<1> DEFINE answer == Api!Delete(server, k)
<1>1. answer.store = [server EXCEPT ![k] = None]
    BY DEF UserDeletes, Api!Delete, Api!Answer
<1>2. Apply(k, answer) /\ UNCHANGED workVars
    BY DEF UserDeletes
<1> HIDE DEF answer
<1>3. Same \/ Changes(k, None)
    BY <1>1, <1>2, ApplyIs
<1> QED BY <1>2, <1>3 DEF Contents

\* The status is written into the version that it was computed from, or it is
\* not written.
LEMMA StatusChanges ==
    ASSUME IInv, NEW w \in Workers, NEW s \in Statuses, PutStatus(w, s)
    PROVE  /\ hand[w] \in Keys /\ EndSync(w)
           /\ \/ Same
              \/ LET new == [rv |-> version + 1, route |-> seen[w].route, status |-> s]
                 IN  /\ seen[w] = server[hand[w]] /\ s # seen[w].status
                     /\ new \in Objects /\ Changes(hand[w], new)
<1> USE RouteCacheAssumption
<1> DEFINE k == hand[w]
           old == seen[w]
           body == [DeepCopy(old) EXCEPT !.status = s]
           new == [rv |-> version + 1, route |-> old.route, status |-> s]
           answer == Api!Update(server, k, body, version + 1)
<1>1. Apply(k, answer) /\ EndSync(w) /\ old # None /\ k \in Keys
    BY DEF PutStatus, IInv, TypeOK
<1>2. old \in Objects /\ <<k, old>> \in past
    BY <1>1 DEF IInv, TypeOK, Contents, History
<1>3. body = [rv |-> old.rv, route |-> old.route, status |-> s]
    BY DEF DeepCopy
<1>4. CASE server[k] = None \/ (server[k] # None /\ body.rv # server[k].rv)
    <2>1. answer.store = server
        BY <1>4 DEF Api!Update, Api!Answer
    <2> QED BY <1>1, <2>1 DEF Apply, Same, serverVars, cacheVars
<1>5. CASE server[k] # None /\ body.rv = server[k].rv
    <2>1. server[k] \in Objects /\ <<k, server[k]>> \in past
        BY <1>1, <1>5 DEF IInv, TypeOK, Contents, History, Version
    <2>2. server[k] = old
        BY <1>1, <1>2, <1>3, <1>5, <2>1 DEF IInv, Versions
    <2>3. [body EXCEPT !.rv = version + 1] = new
        <3> HIDE DEF body
        <3> QED BY <1>3
    <2>4. answer.store = server \/ answer.store = [server EXCEPT ![k] = new]
        BY <1>5, <2>3 DEF Api!Update, Api!Stored, Api!Answer
    <2>5. CASE answer.store = server
        BY <1>1, <2>5 DEF Apply, Same, serverVars, cacheVars
    <2>6. CASE answer.store # server
        <3>1. version + 1 \in 1 .. MaxVersion
            BY <1>1, <2>6 DEF Apply, IInv, TypeOK
        <3>2. new \in Objects /\ new.rv = version + 1
            BY <1>2, <3>1 DEF Objects
        <3>3. s # old.status
            <4> SUFFICES ASSUME s = old.status PROVE answer.store = server
                BY <2>6
            <4>1. body = old
                <5> HIDE DEF body, old
                <5> QED BY <1>2, <1>3 DEF Objects
            <4> HIDE DEF body
            <4> QED BY <1>5, <2>2, <4>1 DEF Api!Update, Api!Answer
        <3> HIDE DEF answer, new
        <3>4. Same \/ Changes(k, new)
            BY <1>1, <2>4, <3>2, ApplyIs
        <3> QED BY <1>1, <2>2, <3>2, <3>3, <3>4 DEF new
    <2> QED BY <2>5, <2>6
<1>6. (server[k] = None \/ (server[k] # None /\ body.rv # server[k].rv))
      \/ (server[k] # None /\ body.rv = server[k].rv)
    OBVIOUS
<1> QED BY <1>4, <1>5, <1>6

-----------------------------------------------------------------------------
(* Each step keeps the invariant.                                          *)

LEMMA AppendedEvents ==
    ASSUME IInv, NEW k \in Keys, NEW new \in Contents, Changes(k, new), NEW j \in Keys
    PROVE  /\ events'[j] \in Seq(Events)
           /\ \A i \in DOMAIN events'[j] :
                  \/ i \in DOMAIN events[j] /\ events'[j][i] = events[j][i]
                  \/ /\ j = k /\ i = Len(events[j]) + 1
                     /\ events'[j][i].obj = new
<1>1. events \in [Keys -> Seq(Events)] /\ events[j] \in Seq(Events)
    BY DEF IInv, TypeOK, Events
<1>2. Event(new) \in Events /\ Event(new).obj = new
    BY DEF Event, Events, Kinds
<1>3. CASE watching /\ j = k
    <2> DEFINE old == events[j]
               added == Append(old, Event(new))
    <2>1. events'[j] = added
        BY <1>1, <1>3 DEF Changes
    <2> HIDE DEF old
    <2>2. old \in Seq(Events)
        BY <1>1 DEF old
    <2>3. /\ added \in Seq(Events) /\ DOMAIN added = 1 .. Len(old) + 1
          /\ DOMAIN old = 1 .. Len(old)
          /\ added[Len(old) + 1] = Event(new)
          /\ \A i \in 1 .. Len(old) : added[i] = old[i]
        BY <1>2, <2>2
    <2> HIDE DEF added
    <2>4. \A i \in 1 .. Len(old) + 1 : i \in 1 .. Len(old) \/ i = Len(old) + 1
        BY <2>2
    <2> QED BY <1>2, <1>3, <2>1, <2>3, <2>4 DEF old
<1>4. CASE ~ (watching /\ j = k)
    <2>1. events'[j] = events[j]
        BY <1>1, <1>4 DEF Changes
    <2> QED BY <1>1, <2>1
<1> QED BY <1>3, <1>4

\* A new version is nobody's yet.
LEMMA NewIsNew ==
    ASSUME IInv, NEW k \in Keys, NEW new \in Contents, Changes(k, new), new # None,
           NEW o \in Contents, Version(k, o)
    PROVE  o # new
<1>1. new.rv = version + 1 /\ version \in Nat
    BY DEF Changes, IInv, TypeOK
<1>2. CASE o \in Objects /\ <<k, o>> \in past
    <2>1. o.rv <= version /\ o.rv \in Nat
        BY <1>2 DEF IInv, Versions, Objects
    <2> QED BY <1>1, <2>1
<1> QED BY <1>2 DEF Version, Contents

LEMMA ChangeKeeps ==
    ASSUME IInv, NEW k \in Keys, NEW new \in Contents, Changes(k, new)
    PROVE  /\ server' \in [Keys -> Contents] /\ cache' = cache
           /\ version' \in 0 .. MaxVersion /\ watching' = watching
           /\ events' \in [Keys -> Seq(Events)]
           /\ notes' = notes /\ breaks' = breaks
           /\ past' \subseteq Keys \X Objects
           /\ Versions' /\ Ordered'
           /\ \A j \in Keys, o \in Contents : Version(j, o) => Version(j, o)'
           /\ \A j \in Keys : Version(j, server[j])'
           /\ \A j \in Keys : \A i \in DOMAIN events'[j] : Version(j, events[j][i].obj)'
<1> USE RouteCacheAssumption
<1>1. /\ server \in [Keys -> Contents] /\ cache \in [Keys -> Contents]
      /\ version \in Nat /\ version < MaxVersion
      /\ events \in [Keys -> Seq(Events)] /\ past \subseteq Keys \X Objects
    <2>1. version < MaxVersion
        BY DEF Changes
    <2>2. version \in 0 .. MaxVersion /\ MaxVersion \in Nat
        BY DEF IInv, TypeOK
    <2>3. version \in Nat
        BY <2>2
    <2> QED BY <2>1, <2>3 DEF IInv, TypeOK, Events
<1>2. /\ server' = [server EXCEPT ![k] = new] /\ version' = version + 1
      /\ past' = IF new # None THEN past \cup {<<k, new>>} ELSE past
      /\ UNCHANGED <<watching, cache, notes, breaks>>
      /\ new # None => new \in Objects /\ new.rv = version + 1
    BY DEF Changes
<1>3. server' \in [Keys -> Contents] /\ past' \subseteq Keys \X Objects
      /\ version' \in 0 .. MaxVersion
    BY <1>1, <1>2 DEF Contents
<1>4. events' \in [Keys -> Seq(Events)]
    <2>1. DOMAIN events' = Keys /\ events' = [j \in Keys |-> events'[j]]
        BY <1>1 DEF Changes
    <2> QED BY <2>1, AppendedEvents
<1>5. \A j \in Keys, o \in Contents : Version(j, o) => Version(j, o)'
    BY <1>2 DEF Version
<1>6. \A j \in Keys : server'[j] = IF j = k THEN new ELSE server[j]
    BY <1>1, <1>2
<1>7. Version(k, new)'
    BY <1>2 DEF Version
<1>8. \A j \in Keys : Version(j, server[j])'
    BY <1>1, <1>5, <1>6, <1>7 DEF IInv, History, Version
<1>9. ASSUME NEW j \in Keys, NEW i \in DOMAIN events'[j]
      PROVE  events'[j][i].obj \in Contents /\ Version(j, events[j][i].obj)'
    <2>1. CASE i \in DOMAIN events[j] /\ events'[j][i] = events[j][i]
        <3>1. events[j][i] \in Events
            BY <1>1, <2>1
        <3> QED BY <1>5, <2>1, <3>1 DEF IInv, History, Events, Version
    <2>2. CASE j = k /\ events'[j][i].obj = new
        BY <1>7, <2>2 DEF Version
    <2> QED BY <2>1, <2>2, AppendedEvents
<1>10. Versions'
    <2>1. ASSUME NEW j \in Keys, NEW o \in Objects, <<j, o>> \in past' PROVE o.rv <= version'
        <3>1. CASE <<j, o>> \in past
            BY <1>1, <1>2, <3>1 DEF IInv, Versions, Objects
        <3>2. CASE o = new /\ new # None
            BY <1>1, <1>2, <3>2
        <3> QED BY <1>2, <2>1, <3>1, <3>2
    <2>2. ASSUME NEW j \in Keys, NEW o \in Objects, NEW p \in Objects,
                 <<j, o>> \in past', <<j, p>> \in past', o.rv = p.rv
          PROVE  o = p
        <3>1. \A q \in Objects : <<j, q>> \in past => q.rv <= version /\ q.rv \in Nat
            BY DEF IInv, Versions, Objects
        <3>2. CASE <<j, o>> \in past /\ <<j, p>> \in past
            BY <2>2, <3>2 DEF IInv, Versions
        <3>3. CASE new # None /\ o = new /\ <<j, p>> \in past
            BY <1>1, <1>2, <2>2, <3>1, <3>3
        <3>4. CASE new # None /\ p = new /\ <<j, o>> \in past
            BY <1>1, <1>2, <2>2, <3>1, <3>4
        <3> QED BY <1>2, <2>2, <3>2, <3>3, <3>4
    <2> QED BY <2>1, <2>2 DEF Versions
<1>11. Ordered'
    <2> SUFFICES ASSUME NEW j \in Keys
                 PROVE  /\ Current(j, cache[j])' =>
                               \A i \in DOMAIN events'[j] : Current(j, events[j][i].obj)'
                        /\ \A i, l \in DOMAIN events'[j] :
                               i < l /\ Current(j, events[j][i].obj)'
                                   => Current(j, events[j][l].obj)'
        BY DEF Ordered
    <2>1. CASE j # k
        <3>1. events'[j] = events[j] /\ server'[j] = server[j] /\ cache'[j] = cache[j]
            BY <1>1, <1>2, <1>6, <2>1 DEF Changes
        <3> QED BY <3>1 DEF IInv, Ordered, Current
    <2>2. CASE j = k
        <3>1. ~ Current(j, cache[j])'
            <4>1. cache[j] \in Contents /\ Version(j, cache[j])
                BY <1>1 DEF IInv, History
            <4> QED BY <1>2, <1>6, <2>2, <4>1, NewIsNew DEF Current
        <3>2. ASSUME NEW i \in DOMAIN events'[j], NEW l \in DOMAIN events'[j], i < l
              PROVE  ~ Current(j, events[j][i].obj)'
            <4>0. DOMAIN events[j] = 1 .. Len(events[j]) /\ Len(events[j]) \in Nat
                BY <1>1
            <4>1. i # Len(events[j]) + 1
                BY <3>2, <4>0, AppendedEvents
            <4>2. i \in DOMAIN events[j] /\ events'[j][i] = events[j][i]
                BY <4>1, AppendedEvents
            <4>3. events[j][i] \in Events
                BY <1>1, <4>2
            <4>4. events[j][i].obj \in Contents /\ Version(j, events[j][i].obj)
                BY <4>2, <4>3 DEF IInv, History, Events
            <4> QED BY <1>6, <2>2, <4>2, <4>4, NewIsNew DEF Current
        <3> QED BY <3>1, <3>2
    <2> QED BY <2>1, <2>2
<1> QED BY <1>2, <1>3, <1>4, <1>5, <1>8, <1>9, <1>10, <1>11

\* What the invariant says of the workers depends on nothing but what they hold
\* and on the versions that there have been.
LEMMA CallKeeps ==
    ASSUME IInv, UNCHANGED workVars \/ \E w \in Workers : EndSync(w),
           Same \/ \E k \in Keys, new \in Contents : Changes(k, new)
    PROVE  IInv'
<1>1. /\ \A w \in Workers : \/ hand'[w] = hand[w] /\ seen'[w] = seen[w]
                            \/ hand'[w] = None /\ seen'[w] = None
      /\ hand' \in [Workers -> Keys \cup {None}] /\ seen' \in [Workers -> Contents]
      /\ pending' = pending /\ looked' = looked
    BY DEF EndSync, workVars, IInv, TypeOK, Contents
<1>2. KeysAreNotShared'
    BY <1>1 DEF KeysAreNotShared, IInv
<1> DEFINE Kept ==
          /\ server' \in [Keys -> Contents] /\ cache' = cache
          /\ version' \in 0 .. MaxVersion /\ watching' = watching
          /\ events' \in [Keys -> Seq(Events)]
          /\ notes' = notes /\ breaks' = breaks
          /\ past' \subseteq Keys \X Objects
          /\ Versions' /\ Ordered'
          /\ \A j \in Keys, o \in Contents : Version(j, o) => Version(j, o)'
          /\ \A j \in Keys : Version(j, server[j])'
          /\ \A j \in Keys : \A i \in DOMAIN events'[j] : Version(j, events[j][i].obj)'
<1>3. Kept
    <2>1. CASE Same
        <3>1. /\ UNCHANGED <<server, version, past>>
              /\ UNCHANGED <<watching, events, cache, notes, breaks>>
            BY <2>1 DEF Same, serverVars, cacheVars
        <3>2. Versions' /\ Ordered'
            BY <3>1 DEF IInv, Versions, Ordered, Current
        <3>3. /\ \A j \in Keys, o \in Contents : Version(j, o) => Version(j, o)'
              /\ \A j \in Keys : Version(j, server[j])'
              /\ \A j \in Keys : \A i \in DOMAIN events'[j] : Version(j, events[j][i].obj)'
            BY <3>1 DEF IInv, History, Version
        <3>4. /\ server' \in [Keys -> Contents] /\ version' \in 0 .. MaxVersion
              /\ events' \in [Keys -> Seq(Events)] /\ past' \subseteq Keys \X Objects
            BY <3>1 DEF IInv, TypeOK, Events
        <3> QED BY <3>1, <3>2, <3>3, <3>4
    <2>2. ASSUME NEW k \in Keys, NEW new \in Contents, Changes(k, new)
          PROVE  Kept
        BY <2>2, ChangeKeeps
    <2> QED BY <2>1, <2>2
<1>4. TypeOK'
    BY <1>1, <1>3 DEF IInv, TypeOK, Events
<1>5. History'
    <2>1. \A j \in Keys : Version(j, cache[j])'
        BY <1>3 DEF IInv, TypeOK, History, Version
    <2>2. ASSUME NEW w \in Workers, seen'[w] # None
          PROVE  hand'[w] \in Keys /\ <<hand'[w], seen'[w]>> \in past'
        <3>1. hand'[w] = hand[w] /\ seen'[w] = seen[w] /\ seen[w] \in Contents
            BY <1>1, <2>2 DEF IInv, TypeOK
        <3>2. hand[w] \in Keys /\ Version(hand[w], seen[w])
            BY <2>2, <3>1 DEF IInv, History, Version
        <3>3. Version(hand[w], seen[w])'
            <4>1. <<hand[w], seen[w]>> \in past'
                BY <1>3, <2>2, <3>1, <3>2 DEF Version
            <4> QED BY <3>1, <4>1 DEF Version
        <3> QED BY <2>2, <3>1, <3>2, <3>3 DEF Version
    <2> QED BY <1>3, <2>1, <2>2 DEF History
<1> QED BY <1>2, <1>3, <1>4, <1>5 DEF IInv

\* What has been listed is what there is.
LEMMA ListIsCurrent ==
    ASSUME IInv, WatchBreaks \/ ListAndWatch
    PROVE  \A k \in Keys : \A i \in DOMAIN events'[k] : events'[k][i].obj = server[k]
<1>1. CASE WatchBreaks
    BY <1>1 DEF WatchBreaks
<1>2. CASE ListAndWatch
    <2> SUFFICES ASSUME NEW k \in Keys, NEW i \in DOMAIN events'[k]
                 PROVE  events'[k][i].obj = server[k]
        OBVIOUS
    <2>1. events'[k] = CASE k \in Api!List(server) -> <<Event(server[k])>>
                         [] server[k] = None /\ cache[k] # None ->
                               <<[kind |-> "tombstone", obj |-> None]>>
                         [] OTHER -> <<>>
        BY <1>2 DEF ListAndWatch
    <2>2. k \in Api!List(server) <=> server[k] # None
        BY DEF Api!List, IInv, TypeOK
    <2> QED BY <2>1, <2>2 DEF Event
<1> QED BY <1>1, <1>2

LEMMA ListKeeps ==
    ASSUME IInv, WatchBreaks \/ ListAndWatch
    PROVE  IInv'
<1>1. UNCHANGED <<serverVars, cache, notes, workVars>>
    BY DEF WatchBreaks, ListAndWatch
<1>2. /\ watching' \in BOOLEAN /\ breaks' \in 0 .. MaxBreaks
      /\ events' \in [Keys -> Seq(Events)]
    <2>1. CASE WatchBreaks
        <3>1. events' = [k \in Keys |-> <<>>] /\ <<>> \in Seq(Events)
            BY <2>1 DEF WatchBreaks
        <3>2. events' \in [Keys -> Seq(Events)]
            BY <3>1
        <3>3. breaks \in 0 .. MaxBreaks /\ breaks < MaxBreaks /\ breaks' = breaks + 1
            BY <2>1 DEF WatchBreaks, IInv, TypeOK
        <3>4. breaks' \in 0 .. MaxBreaks
            BY <3>3, RouteCacheAssumption
        <3>5. watching' = FALSE
            BY <2>1 DEF WatchBreaks
        <3> QED BY <3>2, <3>4, <3>5
    <2>2. CASE ListAndWatch
        <3>1. ASSUME NEW k \in Keys
              PROVE  /\ <<Event(server[k])>> \in Seq(Events)
                     /\ <<[kind |-> "tombstone", obj |-> None]>> \in Seq(Events)
                     /\ <<>> \in Seq(Events)
            <4>1. server[k] \in Contents /\ None \in Contents
                BY DEF IInv, TypeOK, Contents
            <4>2. Event(server[k]) \in Events
                BY <4>1 DEF Event, Events, Kinds
            <4>3. [kind |-> "tombstone", obj |-> None] \in Events
                BY <4>1 DEF Events, Kinds
            <4> QED BY <4>2, <4>3
        <3>2. events' \in [Keys -> Seq(Events)]
            BY <2>2, <3>1 DEF ListAndWatch
        <3>3. watching' = TRUE /\ breaks' = breaks
            BY <2>2 DEF ListAndWatch
        <3> QED BY <3>2, <3>3 DEF IInv, TypeOK
    <2> QED BY <2>1, <2>2
<1>3. \A k \in Keys : \A i \in DOMAIN events'[k] : events'[k][i].obj = server[k]
    BY ListIsCurrent
<1>4. TypeOK'
    BY <1>1, <1>2 DEF IInv, TypeOK, Events, serverVars, workVars
<1>5. Versions' /\ KeysAreNotShared'
    BY <1>1 DEF IInv, Versions, KeysAreNotShared, serverVars, workVars
<1>6. History'
    BY <1>1, <1>3 DEF IInv, History, Version, serverVars, workVars
<1>7. Ordered'
    BY <1>1, <1>3 DEF IInv, Ordered, Current, serverVars
<1> QED BY <1>4, <1>5, <1>6, <1>7 DEF IInv

\* What the reflector stores moves from the head of the events to the cache.
LEMMA StoreIs ==
    ASSUME IInv, NEW k \in Keys, Store(k)
    PROVE  /\ UNCHANGED <<serverVars, watching, breaks, workVars>>
           /\ 1 \in DOMAIN events[k]
           /\ cache' = [cache EXCEPT ![k] = events[k][1].obj]
           /\ notes' = [notes EXCEPT ![k] = @ \cup {events[k][1].kind}]
           /\ events[k][1] \in Events
           /\ events' \in [Keys -> Seq(Events)]
           /\ \A j \in Keys \ {k} : events'[j] = events[j] /\ cache'[j] = cache[j]
           /\ \A i \in DOMAIN events'[k] :
                  i + 1 \in DOMAIN events[k] /\ events'[k][i] = events[k][i + 1]
<1> DEFINE old == events[k]
<1>1. old \in Seq(Events) /\ old # <<>> /\ events \in [Keys -> Seq(Events)]
    BY DEF Store, IInv, TypeOK, Events
<1>2. events' = [events EXCEPT ![k] = Tail(old)]
    BY DEF Store
<1>3. /\ 1 \in DOMAIN old /\ Head(old) = old[1] /\ old[1] \in Events
      /\ Tail(old) \in Seq(Events)
      /\ \A i \in DOMAIN Tail(old) : i + 1 \in DOMAIN old /\ Tail(old)[i] = old[i + 1]
    <2> HIDE DEF old
    <2> QED BY <1>1
<1>4. cache \in [Keys -> Contents]
    BY DEF IInv, TypeOK
<1> HIDE DEF old
<1>5. events'[k] = Tail(old) /\ events' \in [Keys -> Seq(Events)]
    BY <1>1, <1>2, <1>3
<1> QED BY <1>1, <1>2, <1>3, <1>4, <1>5 DEF Store, old

LEMMA StoreKeeps ==
    ASSUME IInv, NEW k \in Keys, Store(k)
    PROVE  IInv'
<1> DEFINE first == events[k][1]
<1>1. first \in Events /\ 1 \in DOMAIN events[k] /\ Version(k, first.obj)
    BY StoreIs DEF IInv, History
<1>2. \A j \in Keys : cache'[j] = IF j = k THEN first.obj ELSE cache[j]
    BY StoreIs DEF IInv, TypeOK
<1>3. TypeOK'
    <2>1. cache' \in [Keys -> Contents] /\ notes' \in [Keys -> SUBSET Kinds]
        <3>1. first.obj \in Contents /\ first.kind \in Kinds
            BY <1>1 DEF Events
        <3>2. cache \in [Keys -> Contents] /\ notes \in [Keys -> SUBSET Kinds]
            BY DEF IInv, TypeOK
        <3>3. /\ cache' = [cache EXCEPT ![k] = first.obj]
              /\ notes' = [notes EXCEPT ![k] = notes[k] \cup {first.kind}]
            BY <3>2, StoreIs
        <3> HIDE DEF first
        <3> QED BY <3>1, <3>2, <3>3
    <2> QED BY <2>1, StoreIs DEF IInv, TypeOK, Events, serverVars, workVars
<1>4. Versions' /\ KeysAreNotShared'
    BY StoreIs DEF IInv, Versions, KeysAreNotShared, serverVars, workVars
<1>5. past' = past /\ server' = server /\ hand' = hand /\ seen' = seen
    BY StoreIs DEF serverVars, workVars
<1>6. History'
    <2>1. \A j \in Keys : Version(j, server[j])' /\ Version(j, cache[j])'
        BY <1>1, <1>2, <1>5 DEF IInv, History, Version
    <2>2. \A j \in Keys : \A i \in DOMAIN events'[j] : Version(j, events[j][i].obj)'
        <3> SUFFICES ASSUME NEW j \in Keys, NEW i \in DOMAIN events'[j]
                     PROVE  Version(j, events'[j][i].obj)
            BY <1>5 DEF Version
        <3>1. CASE j = k
            BY <3>1, StoreIs DEF IInv, History
        <3>2. CASE j # k
            <4>1. events'[j] = events[j]
                BY <3>2, StoreIs
            <4> QED BY <4>1 DEF IInv, History
        <3> QED BY <3>1, <3>2
    <2> QED BY <1>5, <2>1, <2>2 DEF IInv, History
<1>7. Ordered'
    <2> SUFFICES ASSUME NEW j \in Keys
                 PROVE  /\ Current(j, cache[j])' =>
                               \A i \in DOMAIN events'[j] : Current(j, events[j][i].obj)'
                        /\ \A i, l \in DOMAIN events'[j] :
                               i < l /\ Current(j, events[j][i].obj)'
                                   => Current(j, events[j][l].obj)'
        BY DEF Ordered
    <2>1. CASE j # k
        <3>1. events'[j] = events[j] /\ cache'[j] = cache[j] /\ server'[j] = server[j]
            BY <1>5, <2>1, StoreIs
        <3> QED BY <3>1 DEF IInv, Ordered, Current
    <2>2. CASE j = k
        <3>1. \A i \in DOMAIN events'[k] : /\ i \in Nat /\ 1 < i + 1 /\ i + 1 \in DOMAIN events[k]
                                           /\ events'[k][i] = events[k][i + 1]
            <4>1. events'[k] \in Seq(Events)
                BY StoreIs
            <4>2. \A i \in DOMAIN events'[k] : i \in Nat /\ 1 < i + 1
                BY <4>1
            <4> QED BY <4>2, StoreIs
        <3>2. \A i, l \in DOMAIN events[k] :
                  i < l /\ Current(k, events[k][i].obj) => Current(k, events[k][l].obj)
            BY DEF IInv, Ordered
        <3>3. \A i, l \in DOMAIN events'[k] : i < l => i + 1 < l + 1
            BY <3>1
        <3> QED BY <1>1, <1>2, <1>5, <2>2, <3>1, <3>2, <3>3 DEF Current
    <2> QED BY <2>1, <2>2
<1> QED BY <1>3, <1>4, <1>6, <1>7 DEF IInv

LEMMA NotifyKeeps ==
    ASSUME IInv, NEW k \in Keys, Resync(k) \/ \E kind \in notes[k] : Handle(k, kind)
    PROVE  IInv'
<1>1. UNCHANGED <<serverVars, watching, events, cache, breaks, hand, seen, looked>>
    BY DEF Resync, Handle, workVars
<1>2. notes' \in [Keys -> SUBSET Kinds] /\ pending' \subseteq Keys
    BY DEF Resync, Handle, workVars, IInv, TypeOK, Kinds
<1>3. TypeOK'
    BY <1>1, <1>2 DEF IInv, TypeOK, serverVars
<1>4. History' /\ Versions' /\ Ordered' /\ KeysAreNotShared'
    BY <1>1 DEF IInv, History, Version, Versions, Ordered, Current, KeysAreNotShared,
                serverVars
<1> QED BY <1>3, <1>4 DEF IInv

LEMMA LookUpKeeps ==
    ASSUME IInv, NEW w \in Workers, NEW k \in Keys, LookUp(w, k)
    PROVE  IInv'
<1>1. /\ UNCHANGED <<serverVars, cacheVars>>
      /\ \A v \in Workers : /\ hand'[v] = IF v = w THEN k ELSE hand[v]
                            /\ seen'[v] = IF v = w THEN cache[k] ELSE seen[v]
    BY DEF LookUp, IInv, TypeOK
<1>2. TypeOK'
    BY DEF LookUp, IInv, TypeOK, serverVars, cacheVars
<1>3. History'
    BY <1>1 DEF IInv, History, Version, serverVars, cacheVars
<1>4. Versions' /\ Ordered'
    BY <1>1 DEF IInv, Versions, Ordered, Current, serverVars, cacheVars
<1>5. KeysAreNotShared'
    BY <1>1 DEF LookUp, IInv, KeysAreNotShared
<1> QED BY <1>2, <1>3, <1>4, <1>5 DEF IInv

LEMMA InvStep ==
    ASSUME IInv, [Next]_vars
    PROVE  IInv'
<1>1. ASSUME NEW k \in Keys, NEW r \in Routes, UserCreates(k, r) PROVE IInv'
    BY <1>1, CreateChanges, CallKeeps
<1>2. ASSUME NEW k \in Keys, NEW r \in Routes, UserEdits(k, r) PROVE IInv'
    BY <1>2, EditChanges, CallKeeps
<1>3. ASSUME NEW k \in Keys, UserDeletes(k) PROVE IInv'
    BY <1>3, DeleteChanges, CallKeeps
<1>4. CASE WatchBreaks \/ ListAndWatch
    BY <1>4, ListKeeps
<1>5. ASSUME NEW k \in Keys, Store(k) PROVE IInv'
    BY <1>5, StoreKeeps
<1>6. ASSUME NEW k \in Keys, Resync(k) \/ \E kind \in notes[k] : Handle(k, kind) PROVE IInv'
    BY <1>6, NotifyKeeps
<1>7. ASSUME NEW w \in Workers, NEW k \in Keys, LookUp(w, k) PROVE IInv'
    BY <1>7, LookUpKeeps
<1>8. ASSUME NEW w \in Workers, NEW s \in Statuses, PutStatus(w, s) PROVE IInv'
    <2> DEFINE new == [rv |-> version + 1, route |-> seen[w].route, status |-> s]
    <2>1. /\ hand[w] \in Keys /\ EndSync(w)
          /\ Same \/ (new \in Objects /\ Changes(hand[w], new))
        BY <1>8, StatusChanges
    <2> HIDE DEF new
    <2>2. Same \/ \E k \in Keys, n \in Contents : Changes(k, n)
        BY <2>1 DEF Contents
    <2> QED BY <2>1, <2>2, CallKeeps
<1>9. ASSUME NEW w \in Workers, WriteNothing(w) PROVE IInv'
    BY <1>9, CallKeeps DEF WriteNothing, Same
<1>10. CASE UNCHANGED vars
    BY <1>10, CallKeeps DEF vars, Same
<1> QED BY <1>1, <1>2, <1>3, <1>4, <1>5, <1>6, <1>7, <1>8, <1>9, <1>10 DEF Next, Informer

LEMMA InvHolds == SafetySpec => []IInv
<1>1. Init => IInv
    BY InvInit
<1>2. IInv /\ [Next]_vars => IInv'
    BY InvStep
<1> QED BY <1>1, <1>2, PTL DEF SafetySpec

\* Every variable keeps its type, for any number of ServiceRoutes and workers.
THEOREM TypeCorrect == SafetySpec => []TypeOK
<1>1. IInv => TypeOK
    BY DEF IInv
<1> QED BY <1>1, InvHolds, PTL

\* Nobody edits an object of the cache, and no refused write is left in it: what
\* the cache and the syncs hold are versions that the API server has had.
THEOREM CachedObjectsAreReadOnly == SafetySpec => []CacheIsHistory
<1>1. IInv => CacheIsHistory
    BY DEF IInv, History, Version, CacheIsHistory
<1> QED BY <1>1, InvHolds, PTL

-----------------------------------------------------------------------------
(* The refinement: resource versions as the flags of RouteSync.            *)

Foo == [k \in Keys |-> IF server[k] = None THEN None
                       ELSE [route |-> server[k].route, status |-> server[k].status]]
Lag == [k \in Keys |-> \/ cache[k] # server[k]
                       \/ \E i \in DOMAIN events[k] : events[k][i].obj # server[k]]
Fresh == [w \in Workers |-> seen[w] # None /\ seen[w] = server[hand[w]]]

View(obj) == IF obj = None THEN None ELSE [route |-> obj.route, status |-> obj.status]
Lags(k) == \/ cache[k] # server[k]
           \/ \E i \in DOMAIN events[k] : events[k][i].obj # server[k]
IsFresh(w) == seen[w] # None /\ seen[w] = server[hand[w]]

LEMMA Points ==
    /\ \A k \in Keys : Foo[k] = View(server[k]) /\ Foo'[k] = View(server'[k])
    /\ \A k \in Keys : (Lag[k] <=> Lags(k)) /\ (Lag'[k] <=> Lags(k)')
    /\ \A w \in Workers : (Fresh[w] <=> IsFresh(w)) /\ (Fresh'[w] <=> IsFresh(w)')
<1>1. \A k \in Keys : Foo[k] = View(server[k]) /\ Foo'[k] = View(server'[k])
    BY DEF Foo, View
<1>2. \A k \in Keys : (Lag[k] <=> Lags(k)) /\ (Lag'[k] <=> Lags(k)')
    BY DEF Lag, Lags
<1>3. \A w \in Workers : (Fresh[w] <=> IsFresh(w)) /\ (Fresh'[w] <=> IsFresh(w)')
    BY DEF Fresh, IsFresh
<1> QED BY <1>1, <1>2, <1>3

\* A change of a ServiceRoute makes its cache lag and every copy of it stale.
LEMMA ChangeIsSeen ==
    ASSUME IInv, NEW k \in Keys, NEW new \in Contents, Changes(k, new)
    PROVE  /\ View(new) \in Copy!FooObjects \cup {None}
           /\ Foo' = [Foo EXCEPT ![k] = View(new)]
           /\ new # None => Lags(k)'
           /\ \A j \in Keys \ {k} : Lags(j)' <=> Lags(j)
           /\ \A w \in Workers : seen[w] # None /\ hand[w] = k => seen[w] # server'[k]
           /\ \A j \in Keys \ {k} : server'[j] = server[j]
<1>1. \A j \in Keys : server'[j] = IF j = k THEN new ELSE server[j]
    BY DEF Changes, IInv, TypeOK
<1>2. cache' = cache /\ \A j \in Keys \ {k} : events'[j] = events[j]
    BY DEF Changes, IInv, TypeOK
<1>3. View(new) \in Copy!FooObjects \cup {None}
    BY DEF View, Contents, Objects, Copy!FooObjects
<1>4. Foo' = [Foo EXCEPT ![k] = View(new)]
    BY <1>1 DEF Foo, View
<1>5. new # None => Lags(k)'
    <2> SUFFICES ASSUME new # None PROVE cache'[k] # server'[k]
        BY DEF Lags
    <2>1. cache[k] \in Contents /\ Version(k, cache[k])
        BY DEF IInv, TypeOK, History
    <2> QED BY <1>1, <1>2, <2>1, NewIsNew
<1>6. \A w \in Workers : seen[w] # None /\ hand[w] = k => seen[w] # server'[k]
    <2> SUFFICES ASSUME NEW w \in Workers, seen[w] # None, hand[w] = k PROVE seen[w] # new
        BY <1>1
    <2>1. seen[w] \in Contents /\ Version(k, seen[w])
        BY DEF IInv, TypeOK, History, Version
    <2> QED BY <2>1, NewIsNew
<1>7. \A j \in Keys \ {k} : Lags(j)' <=> Lags(j)
    BY <1>1, <1>2 DEF Lags
<1> QED BY <1>1, <1>3, <1>4, <1>5, <1>6, <1>7

LEMMA UserChangeIsChange ==
    ASSUME IInv, NEW k \in Keys, NEW new \in Contents, Changes(k, new), UNCHANGED workVars
    PROVE  Copy!Next
<1> DEFINE v == View(new)
           late == Lags(k)'
<1>1. Foo' = [Foo EXCEPT ![k] = v] /\ v \in Copy!FooObjects \cup {None}
    BY ChangeIsSeen
<1>2. late \in {TRUE, v # None}
    <2>1. new # None => late
        BY ChangeIsSeen
    <2>2. new = None => v = None
        BY DEF View
    <2>3. late \in BOOLEAN
        BY DEF Lags
    <2> QED BY <2>1, <2>2, <2>3
<1>3. Lag' = [Lag EXCEPT ![k] = late]
    <2>1. \A j \in Keys : Lag'[j] = IF j = k THEN late ELSE Lag[j]
        <3>1. \A j \in Keys : (Lag'[j] <=> Lags(j)') /\ (Lag[j] <=> Lags(j))
            BY Points
        <3>2. \A j \in Keys \ {k} : Lags(j)' <=> Lags(j)
            BY ChangeIsSeen
        <3>3. \A j \in Keys : Lag[j] \in BOOLEAN /\ Lag'[j] \in BOOLEAN
            BY DEF Lag
        <3>4. late \in BOOLEAN
            BY DEF Lags
        <3> HIDE DEF late
        <3>5. late <=> Lags(k)'
            BY DEF late
        <3> QED BY <3>1, <3>2, <3>3, <3>4, <3>5
    <2>2. Lag = [j \in Keys |-> Lag[j]] /\ Lag' = [j \in Keys |-> Lag'[j]]
        BY DEF Lag
    <2> HIDE DEF late
    <2> QED BY <2>1, <2>2
<1>4. Fresh' = [w \in Workers |-> Fresh[w] /\ hand[w] # k]
    <2>1. hand' = hand /\ seen' = seen
        BY DEF workVars
    <2>2. ASSUME NEW w \in Workers
          PROVE  (seen'[w] # None /\ seen'[w] = server'[hand'[w]])
                    <=> (Fresh[w] /\ hand[w] # k)
        <3>1. seen[w] # None => hand[w] \in Keys
            BY DEF IInv, History
        <3> QED BY <2>1, <3>1, ChangeIsSeen DEF Fresh
    <2> QED BY <2>2 DEF Fresh
<1>5. hand' = hand
    BY DEF workVars
<1> HIDE DEF v, late
<1>6. Copy!Change(k, v)
    BY <1>1, <1>2, <1>3, <1>4, <1>5 DEF Copy!Change, Foo, Lag, Fresh
<1> QED BY <1>1, <1>6 DEF Copy!Next

\* The cache catches up with the server, all at once or by one ServiceRoute.
LEMMA ArrivalIsCatchUp ==
    ASSUME IInv, UNCHANGED <<server, hand, seen>>, \A k \in Keys : Lags(k)' => Lags(k)
    PROVE  Copy!Next
<1>1. PICK K \in SUBSET Keys : \A k \in Keys : k \in K <=> ~ Lag'[k]
    <2> WITNESS {k \in Keys : ~ Lag'[k]} \in SUBSET Keys
    <2> QED OBVIOUS
<1>2. Lag' = [k \in Keys |-> Lag[k] /\ k \notin K]
    <2>1. \A k \in Keys : Lags(k)' <=> Lag[k] /\ k \notin K
        BY <1>1, Points
    <2> QED BY <2>1 DEF Lag, Lags
<1>3. Foo' = Foo /\ hand' = hand /\ Fresh' = Fresh
    BY DEF Foo, Fresh
<1>4. Copy!CatchUp(K)
    BY <1>2, <1>3 DEF Copy!CatchUp, Foo, Lag, Fresh
<1> QED BY <1>4 DEF Copy!Next

LEMMA ArrivalsOnlyArrive ==
    ASSUME IInv, \/ WatchBreaks \/ ListAndWatch
                 \/ \E k \in Keys : Store(k)
    PROVE  UNCHANGED <<server, hand, seen>> /\ \A k \in Keys : Lags(k)' => Lags(k)
<1>1. CASE WatchBreaks
    BY <1>1 DEF WatchBreaks, serverVars, workVars, Lags
<1>2. CASE ListAndWatch
    <2>1. UNCHANGED <<server, hand, seen, cache>>
        BY <1>2 DEF ListAndWatch, serverVars, workVars
    <2>2. \A k \in Keys : \A i \in DOMAIN events'[k] : events'[k][i].obj = server[k]
        BY <1>2, ListIsCurrent
    <2> QED BY <2>1, <2>2 DEF Lags
<1>3. ASSUME NEW k \in Keys, Store(k)
      PROVE  UNCHANGED <<server, hand, seen>> /\ \A j \in Keys : Lags(j)' => Lags(j)
    <2>1. UNCHANGED <<server, hand, seen>>
        BY <1>3, StoreIs DEF serverVars, workVars
    <2>2. ASSUME NEW j \in Keys, Lags(j)' PROVE Lags(j)
        <3>1. CASE j # k
            BY <1>3, <2>1, <2>2, <3>1, StoreIs DEF Lags
        <3>2. CASE j = k
            <4>1. cache'[k] = events[k][1].obj /\ 1 \in DOMAIN events[k]
                BY <1>3, StoreIs DEF IInv, TypeOK
            <4>2. \A i \in DOMAIN events'[k] :
                      i + 1 \in DOMAIN events[k] /\ events'[k][i] = events[k][i + 1]
                BY <1>3, StoreIs
            <4> QED BY <2>1, <2>2, <3>2, <4>1, <4>2 DEF Lags
        <3> QED BY <3>1, <3>2
    <2> QED BY <2>1, <2>2
<1> QED BY <1>1, <1>2, <1>3

\* A sync that begins has a fresh copy exactly when the cache does not lag:
\* what is still on its way then is the cached version again.
LEMMA LookUpIsTake ==
    ASSUME IInv, NEW w \in Workers, NEW k \in Keys, LookUp(w, k)
    PROVE  Copy!Next
<1> USE RouteCacheAssumption
<1>1. /\ hand[w] = None /\ \A v \in Workers : hand[v] # k
      /\ hand' = [hand EXCEPT ![w] = k]
      /\ \A v \in Workers : hand'[v] = (IF v = w THEN k ELSE hand[v])
                            /\ seen'[v] = (IF v = w THEN cache[k] ELSE seen[v])
      /\ server' = server /\ cache' = cache /\ events' = events
    BY DEF LookUp, IInv, TypeOK, serverVars, cacheVars
<1>2. Foo' = Foo /\ Lag' = Lag
    BY <1>1 DEF Foo, Lag
<1>3. Foo[k] # None <=> server[k] # None
    <2>1. server[k] \in Contents
        BY DEF IInv, TypeOK
    <2>2. server[k] # None => [route |-> server[k].route, status |-> server[k].status]
                                  \in [route : Routes, status : Statuses]
        BY <2>1 DEF Contents, Objects
    <2> QED BY <2>2 DEF Foo
<1>4. (cache[k] # None /\ cache[k] = server[k]) <=> (~ Lag[k] /\ Foo[k] # None)
    <2>1. Current(k, cache[k]) => ~ Lags(k)
        BY DEF IInv, Ordered, Current, Lags
    <2>2. ~ Lags(k) => cache[k] = server[k]
        BY DEF Lags
    <2> QED BY <1>3, <2>1, <2>2, Points DEF Current
<1>5. Fresh' = [Fresh EXCEPT ![w] = ~ Lag[k] /\ Foo[k] # None]
    <2> DEFINE t == ~ Lag[k] /\ Foo[k] # None
    <2>1. ASSUME NEW v \in Workers
          PROVE  (seen'[v] # None /\ seen'[v] = server'[hand'[v]])
                    <=> IF v = w THEN t ELSE Fresh[v]
        BY <1>1, <1>4 DEF Fresh
    <2>2. t \in BOOLEAN
        OBVIOUS
    <2> HIDE DEF t
    <2>3. Fresh' = [Fresh EXCEPT ![w] = t]
        BY <2>1, <2>2 DEF Fresh
    <2> QED BY <2>3 DEF t
<1>6. Copy!Take(w, k)
    BY <1>1, <1>2, <1>5 DEF Copy!Take, Foo, Lag, Fresh
<1> QED BY <1>6 DEF Copy!Next

LEMMA EndIsFinish ==
    ASSUME IInv, NEW w \in Workers, hand[w] # None, EndSync(w),
           \A v \in Workers \ {w} : (seen[v] # None /\ seen[v] = server'[hand[v]]) <=> Fresh[v]
    PROVE  Copy!Finish(w)
<1>1. \A v \in Workers : hand'[v] = (IF v = w THEN None ELSE hand[v])
                         /\ seen'[v] = (IF v = w THEN None ELSE seen[v])
    BY DEF EndSync, IInv, TypeOK
<1>2. hand' = [hand EXCEPT ![w] = None]
    BY DEF EndSync
<1>3. Fresh' = [Fresh EXCEPT ![w] = FALSE]
    <2>1. \A v \in Workers : (seen'[v] # None /\ seen'[v] = server'[hand'[v]])
                                <=> IF v = w THEN FALSE ELSE Fresh[v]
        BY <1>1
    <2> QED BY <2>1 DEF Fresh
<1> QED BY <1>2, <1>3 DEF Copy!Finish, Fresh

LEMMA SilentEndIsFinish ==
    ASSUME IInv, NEW w \in Workers, hand[w] # None, EndSync(w), Same
    PROVE  Copy!Next
<1>1. server' = server /\ cache' = cache /\ events' = events
    BY DEF Same, serverVars, cacheVars
<1>2. Copy!Finish(w)
    BY <1>1, EndIsFinish DEF Fresh
<1>3. Foo' = Foo /\ Lag' = Lag
    BY <1>1 DEF Foo, Lag
<1> QED BY <1>2, <1>3 DEF Copy!Next, Foo, Lag

LEMMA StatusIsStatus ==
    ASSUME IInv, NEW w \in Workers, NEW s \in Statuses, PutStatus(w, s)
    PROVE  Copy!Next
<1> USE RouteCacheAssumption
<1> DEFINE new == [rv |-> version + 1, route |-> seen[w].route, status |-> s]
<1>1. PICK k \in Keys :
         /\ k = hand[w] /\ EndSync(w)
         /\ \/ Same
            \/ seen[w] = server[k] /\ s # seen[w].status /\ new \in Objects /\ Changes(k, new)
    BY StatusChanges
<1>2. hand[w] # None /\ seen[w] # None
    BY DEF PutStatus
<1>3. CASE Same
    BY <1>1, <1>2, <1>3, SilentEndIsFinish
<1>4. CASE seen[w] = server[k] /\ s # seen[w].status /\ new \in Objects /\ Changes(k, new)
    <2>1. new \in Contents /\ new # None
        BY <1>4 DEF Contents
    <2>2. Fresh[w]
        BY <1>1, <1>2, <1>4 DEF Fresh
    <2>3. Foo' = [Foo EXCEPT ![k].status = s]
        <3>1. Foo[k] = [route |-> seen[w].route, status |-> seen[w].status]
            BY <1>1, <1>2, <1>4 DEF Foo
        <3>2. View(new) = [route |-> seen[w].route, status |-> s]
            BY <2>1 DEF View
        <3>3. Foo' = [Foo EXCEPT ![k] = View(new)]
            BY <1>1, <1>4, <2>1, ChangeIsSeen
        <3>4. [Foo[k] EXCEPT !.status = s] = View(new)
            <4> HIDE DEF new
            <4> QED BY <3>1, <3>2
        <3> HIDE DEF new
        <3> QED BY <3>3, <3>4
    <2>4. Copy!Finish(w)
        <3>1. \A v \in Workers \ {w} : hand[v] # k
            BY <1>1, <1>2 DEF IInv, KeysAreNotShared
        <3>2. \A v \in Workers : seen[v] # None => hand[v] \in Keys
            BY DEF IInv, History
        <3>3. \A j \in Keys \ {k} : server'[j] = server[j]
            BY <1>1, <1>4, <2>1, ChangeIsSeen
        <3>4. \A v \in Workers \ {w} :
                  (seen[v] # None /\ seen[v] = server'[hand[v]]) <=> Fresh[v]
            BY <3>1, <3>2, <3>3 DEF Fresh
        <3> QED BY <1>1, <1>2, <3>4, EndIsFinish
    <2>5. Lag' = [Lag EXCEPT ![k] = @ \/ Foo' # Foo]
        <3>1. Foo' # Foo
            <4>1. Foo[k] = [route |-> seen[w].route, status |-> seen[w].status]
                BY <1>1, <1>2, <1>4 DEF Foo
            <4>2. Foo'[k].status = s
                <5>1. Foo[k].status = seen[w].status /\ DOMAIN Foo[k] = {"route", "status"}
                    BY <4>1
                <5>2. DOMAIN Foo = Keys
                    BY DEF Foo
                <5> HIDE DEF new
                <5> QED BY <1>1, <2>3, <5>1, <5>2
            <4> QED BY <1>4, <4>1, <4>2
        <3>2. Lags(k)' /\ \A j \in Keys \ {k} : Lags(j)' <=> Lags(j)
            BY <1>1, <1>4, <2>1, ChangeIsSeen
        <3>3. Lag'[k] /\ \A j \in Keys \ {k} : Lag'[j] <=> Lag[j]
            BY <1>1, <3>2, Points
        <3>4. /\ Lag = [j \in Keys |-> Lag[j]] /\ Lag' = [j \in Keys |-> Lag'[j]]
              /\ \A j \in Keys : Lag[j] \in BOOLEAN /\ Lag'[j] \in BOOLEAN
            BY DEF Lag
        <3> HIDE DEF new
        <3>5. \A j \in Keys : Lag'[j] = IF j = k THEN (Lag[k] \/ Foo' # Foo) ELSE Lag[j]
            BY <1>1, <3>1, <3>3, <3>4
        <3> QED BY <3>4, <3>5
    <2>6. Copy!PutStatus(w, s)
        BY <1>1, <2>2, <2>3, <2>4, <2>5 DEF Copy!PutStatus, Foo, Lag, Fresh
    <2> QED BY <2>6 DEF Copy!Next
<1> QED BY <1>1, <1>3, <1>4

LEMMA StepIsCopyStep ==
    ASSUME IInv, [Next]_vars
    PROVE  Copy!Next \/ UNCHANGED <<Foo, Lag, hand, Fresh>>
<1>1. ASSUME NEW k \in Keys, UNCHANGED workVars,
             Same \/ \E new \in Contents : Changes(k, new)
      PROVE  Copy!Next \/ UNCHANGED <<Foo, Lag, hand, Fresh>>
    <2>1. CASE Same
        BY <1>1, <2>1 DEF Same, serverVars, cacheVars, workVars, Foo, Lag, Fresh
    <2>2. ASSUME NEW new \in Contents, Changes(k, new) PROVE Copy!Next
        BY <1>1, <2>2, UserChangeIsChange
    <2> QED BY <1>1, <2>1, <2>2
<1>2. ASSUME NEW k \in Keys, NEW r \in Routes, UserCreates(k, r) \/ UserEdits(k, r)
      PROVE  Copy!Next \/ UNCHANGED <<Foo, Lag, hand, Fresh>>
    BY <1>1, <1>2, CreateChanges, EditChanges
<1>3. ASSUME NEW k \in Keys, UserDeletes(k)
      PROVE  Copy!Next \/ UNCHANGED <<Foo, Lag, hand, Fresh>>
    BY <1>1, <1>3, DeleteChanges
<1>4. CASE WatchBreaks \/ ListAndWatch \/ \E k \in Keys : Store(k)
    BY <1>4, ArrivalsOnlyArrive, ArrivalIsCatchUp
<1>5. ASSUME NEW k \in Keys, Resync(k) \/ \E kind \in notes[k] : Handle(k, kind)
      PROVE  UNCHANGED <<Foo, Lag, hand, Fresh>>
    <2>1. UNCHANGED <<server, events, cache, hand, seen>>
        BY <1>5 DEF Resync, Handle, serverVars, workVars
    <2> QED BY <2>1 DEF Foo, Lag, Fresh
<1>6. ASSUME NEW w \in Workers, NEW k \in Keys, LookUp(w, k) PROVE Copy!Next
    BY <1>6, LookUpIsTake
<1>7. ASSUME NEW w \in Workers, NEW s \in Statuses, PutStatus(w, s) PROVE Copy!Next
    BY <1>7, StatusIsStatus
<1>8. ASSUME NEW w \in Workers, WriteNothing(w) PROVE Copy!Next
    BY <1>8, SilentEndIsFinish DEF WriteNothing, Same
<1>9. CASE UNCHANGED vars
    BY <1>9 DEF vars, serverVars, cacheVars, workVars, Foo, Lag, Fresh
<1> QED BY <1>2, <1>3, <1>4, <1>5, <1>6, <1>7, <1>8, <1>9 DEF Next, Informer

\* RouteSync keeps a flag for the lag of a cache and one for the freshness of a
\* copy, where the code has resource versions, lists, watches and a conflict:
\* every behaviour of the latter is one of the former.
THEOREM VersionsAreFlags == SafetySpec => ImplementsLaggedCopy
<1>1. Init => Copy!Init
    <2> SUFFICES ASSUME Init PROVE Copy!Init
        OBVIOUS
    <2>1. /\ \A k \in Keys : server[k] = None /\ cache[k] = None /\ events[k] = <<>>
          /\ \A w \in Workers : seen[w] = None
          /\ hand = [w \in Workers |-> None]
        BY DEF Init, Nothing
    <2>2. Foo = [k \in Keys |-> None]
        BY <2>1 DEF Foo
    <2>3. Lag = [k \in Keys |-> FALSE]
        BY <2>1 DEF Lag
    <2>4. Fresh = [w \in Workers |-> FALSE]
        BY <2>1 DEF Fresh
    <2> QED BY <2>1, <2>2, <2>3, <2>4 DEF Copy!Init, Foo, Lag, Fresh
<1>2. IInv /\ [Next]_vars => [Copy!Next]_(Copy!copyVars)
    BY StepIsCopyStep DEF Copy!copyVars, Foo, Lag, Fresh
<1> QED BY <1>1, <1>2, InvHolds, PTL DEF SafetySpec, ImplementsLaggedCopy, Copy!Spec

-----------------------------------------------------------------------------
(* All details together.  HostsP, NamingP and PortsP are Hosts, Naming and *)
(* Ports again, with what has been proved of them.                         *)

HostsP == INSTANCE GatewayHostsProofs WITH MaxVersion <- MaxWrites, version <- gwVersion
NamingP == INSTANCE RecordNamesProofs WITH
    Clusters <- PlainLabels, Namespaces <- PlainLabels, Names <- Labels, Routes <- {"route"}
PortsP == INSTANCE RoutePortsProofs WITH
    Keys <- PortKeys, Workers <- PortWorkers, PortLists <- SomeLists, past <- lists

LEMMA HostsAreHosts ==
    /\ HostsP!GatewayAssumption
    /\ Hosts!Init <=> HostsP!Init
    /\ Hosts!Next <=> HostsP!Next
<1>1. HostsP!GatewayAssumption
    BY DetailsAssumption
       DEF Hosts!GatewayAssumption, HostsP!GatewayAssumption, Hosts!IsFiniteSet, HostsP!IsFiniteSet
<1>2. Hosts!Init <=> HostsP!Init
    BY DEF Hosts!Init, HostsP!Init, Hosts!Ports, HostsP!Ports
<1>3. Hosts!Next <=> HostsP!Next
    BY DEF Hosts!Next, HostsP!Next, Hosts!Ports, HostsP!Ports, Hosts!Hosts, HostsP!Hosts,
           Hosts!Range, HostsP!Range, Hosts!Min, HostsP!Min, Hosts!AddHost, HostsP!AddHost,
           Hosts!RemoveHost, HostsP!RemoveHost, Hosts!Edited, HostsP!Edited, Hosts!GetGateway,
           HostsP!GetGateway, Hosts!Drop, HostsP!Drop, Hosts!Write, HostsP!Write, Hosts!PutGateway,
           HostsP!PutGateway, Hosts!PutFails, HostsP!PutFails, Hosts!OwnerLists, HostsP!OwnerLists,
           Hosts!OwnerRemoves, HostsP!OwnerRemoves
<1> QED BY <1>1, <1>2, <1>3

LEMMA NamesAreNames ==
    /\ NamingP!RecordNamesAssumption
    /\ Naming!Init <=> NamingP!Init
    /\ Naming!Next <=> NamingP!Next
<1>1. NamingP!RecordNamesAssumption
    BY DetailsAssumption
       DEF Naming!RecordNamesAssumption, NamingP!RecordNamesAssumption, Naming!IsLabel,
           NamingP!IsLabel, Naming!Doubled, NamingP!Doubled, Naming!Dash, NamingP!Dash
<1>2. Naming!Init <=> NamingP!Init
    BY DEF Naming!Init, NamingP!Init, Naming!ServiceRoutes, NamingP!ServiceRoutes,
           Naming!RecordName, NamingP!RecordName, Naming!Dash, NamingP!Dash
<1>3. Naming!Next <=> NamingP!Next
    BY DEF Naming!Next, NamingP!Next, Naming!UserAsks, NamingP!UserAsks, Naming!Condemn,
           NamingP!Condemn, Naming!Claim, NamingP!Claim, Naming!Lookup, NamingP!Lookup,
           Naming!NewRecord, NamingP!NewRecord, Naming!RecordName, NamingP!RecordName, Naming!Dash,
           NamingP!Dash, Naming!Api!Get, NamingP!Api!Get, Naming!Api!Delete, NamingP!Api!Delete,
           Naming!Api!Create, NamingP!Api!Create, Naming!Api!Stored, NamingP!Api!Stored,
           Naming!Api!Answer, NamingP!Api!Answer
<1> QED BY <1>1, <1>2, <1>3

LEMMA PortsArePorts ==
    /\ PortsP!PortsAssumption
    /\ Ports!Init <=> PortsP!Init
    /\ Ports!Next <=> PortsP!Next
<1>1. PortsP!PortsAssumption
    BY DetailsAssumption DEF Ports!PortsAssumption, PortsP!PortsAssumption
<1>2. Ports!Init <=> PortsP!Init
    BY DEF Ports!Init, PortsP!Init, Ports!NoObjects, PortsP!NoObjects
<1>3. Ports!Next <=> PortsP!Next
    BY DEF Ports!Next, PortsP!Next, Ports!UserAsks, PortsP!UserAsks, Ports!ServiceEvent,
           PortsP!ServiceEvent, Ports!ServiceChanges, PortsP!ServiceChanges, Ports!Change,
           PortsP!Change, Ports!Step, PortsP!Step, Ports!StartSync, PortsP!StartSync,
           Ports!Answered, PortsP!Answered, Ports!Lost, PortsP!Lost, Ports!Goto, PortsP!Goto,
           Ports!AfterTeardown, PortsP!AfterTeardown, Ports!Without, PortsP!Without,
           Ports!DeleteService, PortsP!DeleteService, Ports!DeleteVirtualService,
           PortsP!DeleteVirtualService, Ports!Lapse, PortsP!Lapse, Ports!DeleteRecord,
           PortsP!DeleteRecord, Ports!Decide, PortsP!Decide, Ports!CreateRecord,
           PortsP!CreateRecord, Ports!Given, PortsP!Given, Ports!ZeroNodePort,
           PortsP!ZeroNodePort, Ports!SendService, PortsP!SendService, Ports!Send, PortsP!Send,
           Ports!CreateVirtualService, PortsP!CreateVirtualService, Ports!Panic, PortsP!Panic,
           Ports!Kill, PortsP!Kill, Ports!Ends, PortsP!Ends, Ports!Restart, PortsP!Restart,
           Ports!sourceVars, PortsP!sourceVars, Ports!cacheVars, PortsP!cacheVars,
           Ports!objectVars, PortsP!objectVars, Ports!recordVars, PortsP!recordVars,
           Ports!loopVars, PortsP!loopVars, Ports!syncVars, PortsP!syncVars, Ports!processVars,
           PortsP!processVars
<1> QED BY <1>1, <1>2, <1>3

\* A step of the details is a step of one of them and leaves the others as they
\* are, so that each behaves as it does alone; but the records, which have no
\* ServiceRoutes when it is not their turn.
LEMMA DetailsAreAlone ==
    DetailsSpec => /\ SafetySpec /\ HostsP!Spec /\ PortsP!SafetySpec
                   /\ [](NamingP!NamesInv /\ NamingP!TypeOK)
<1> DEFINE NamesSafe == NamingP!NamesInv /\ NamingP!TypeOK
<1>1. DetailsInit => Init /\ HostsP!Init /\ PortsP!Init
    BY HostsAreHosts, PortsArePorts DEF DetailsInit
<1>2. DetailsInit => NamesSafe
    <2>1. ASSUME wish = <<>>, records = <<>>
          PROVE  NamesSafe
        <3>1. DOMAIN wish = {} /\ DOMAIN records = {}
            BY <2>1
        <3> QED BY <3>1 DEF NamingP!NamesInv, NamingP!TypeOK
    <2>2. NamingP!Init => NamesSafe
        BY NamingP!NamesInvInit, NamingP!TypeInit
    <2> QED BY <2>1, <2>2, NamesAreNames DEF DetailsInit
<1>3. ASSUME [DetailsNext]_<<part, vars, hostVars, nameVars, portVars>>
      PROVE  /\ [Next]_vars /\ [HostsP!Next]_(HostsP!vars) /\ [NamingP!Next]_(NamingP!vars)
             /\ [PortsP!Next]_(PortsP!vars)
    <2>1. [Next]_vars
        BY <1>3 DEF DetailsNext
    <2>2. [HostsP!Next]_(HostsP!vars)
        BY <1>3, HostsAreHosts DEF DetailsNext, hostVars, HostsP!vars
    <2>3. [NamingP!Next]_(NamingP!vars)
        BY <1>3, NamesAreNames DEF DetailsNext, nameVars, NamingP!vars
    <2>4. [PortsP!Next]_(PortsP!vars)
        BY <1>3, PortsArePorts
           DEF DetailsNext, portVars, PortsP!vars, PortsP!sourceVars, PortsP!cacheVars,
               PortsP!objectVars, PortsP!recordVars, PortsP!loopVars, PortsP!syncVars,
               PortsP!processVars
    <2> QED BY <2>1, <2>2, <2>3, <2>4
<1>4. NamesSafe /\ [NamingP!Next]_(NamingP!vars) => NamesSafe'
    BY NamesAreNames, NamingP!NamesInvStep, NamingP!TypeStep
<1> QED BY <1>1, <1>2, <1>3, <1>4, PTL
        DEF DetailsSpec, SafetySpec, HostsP!Spec, PortsP!SafetySpec

\* All the variables of the details keep their types.
THEOREM DetailsTypes == DetailsSpec => []TypesOK
<1>1. SafetySpec => []TypeOK
    BY TypeCorrect
<1>2. HostsP!Spec => []HostsP!TypeOK
    BY HostsAreHosts, HostsP!TypeCorrect
<1>3. PortsP!SafetySpec => []PortsP!TypeOK
    BY PortsArePorts, PortsP!TypeCorrect
<1>4. HostsP!TypeOK => Hosts!TypeOK
    BY DEF Hosts!TypeOK, HostsP!TypeOK, Hosts!Ports, HostsP!Ports, Hosts!Hosts, HostsP!Hosts
<1>5. NamingP!TypeOK => Naming!TypeOK
    BY DEF Naming!TypeOK, NamingP!TypeOK, Naming!ServiceRoutes, NamingP!ServiceRoutes,
           Naming!Records, NamingP!Records, Naming!RecordName, NamingP!RecordName, Naming!Dash,
           NamingP!Dash
<1>6. PortsP!TypeOK => Ports!TypeOK
    BY DEF Ports!TypeOK, PortsP!TypeOK, Ports!Labels, PortsP!Labels, Ports!Holding, PortsP!Holding,
           Ports!Tearing, PortsP!Tearing
<1> QED BY <1>1, <1>2, <1>3, <1>4, <1>5, <1>6, DetailsAreAlone, PTL DEF TypesOK

\* The owner of the Gateway finds exactly its own hosts.
THEOREM OwnerFindsItsHosts == DetailsSpec => []OwnerIsObeyed
<1>1. HostsP!Spec => []HostsP!OwnerIsObeyed
    BY HostsAreHosts, HostsP!OwnHostsStay
<1>2. HostsP!OwnerIsObeyed => OwnerIsObeyed
    BY DEF OwnerIsObeyed, Hosts!OwnerIsObeyed, HostsP!OwnerIsObeyed, Hosts!Ports, HostsP!Ports,
           Hosts!Range, HostsP!Range
<1> QED BY <1>1, <1>2, DetailsAreAlone, PTL

\* No server lists a host twice.
THEOREM NoHostIsDoubled == DetailsSpec => []HostsAreListedOnce
<1>1. HostsP!Spec => []HostsP!HostsAreListedOnce
    BY HostsAreHosts, HostsP!HostsAreUnique
<1>2. HostsP!HostsAreListedOnce => HostsAreListedOnce
    BY DEF HostsAreListedOnce, Hosts!HostsAreListedOnce, HostsP!HostsAreListedOnce, Hosts!Ports,
           HostsP!Ports, Hosts!IsInjective, HostsP!IsInjective
<1> QED BY <1>1, <1>2, DetailsAreAlone, PTL

\* The two managed servers host the same routes.
THEOREM BothServersServe == DetailsSpec => []ServersAgree
<1>1. HostsP!Spec => []HostsP!ServersAgree
    BY HostsAreHosts, HostsP!ManagedServersAgree
<1>2. HostsP!ServersAgree => ServersAgree
    BY DEF ServersAgree, Hosts!ServersAgree, HostsP!ServersAgree, Hosts!Range, HostsP!Range
<1> QED BY <1>1, <1>2, DetailsAreAlone, PTL

\* A write of the Gateway, among all that the details do, changes the hosted
\* routes by one at most.
THEOREM WritesEditASet ==
    ASSUME Routes # {}
    PROVE  DetailsSpec => EditsAreSetEdits
<1>1. HostsP!Spec => HostsP!EditsAreSetEdits
    BY HostsAreHosts, HostsP!GatewayIsASet
<1>2. HostsP!EditsAreSetEdits => EditsAreSetEdits
    BY PTL DEF EditsAreSetEdits, Hosts!EditsAreSetEdits, HostsP!EditsAreSetEdits, Hosts!Hosted,
               HostsP!Hosted, Hosts!Ports, HostsP!Ports, Hosts!Range, HostsP!Range, Hosts!vars,
               HostsP!vars
<1> QED BY <1>1, <1>2, DetailsAreAlone, PTL

\* Under the name that a sync composes it finds its own ServiceRoute's record.
THEOREM RecordsStayApart == DetailsSpec => []RecordIsOwn
<1>1. NamingP!NamesInv => NamingP!RecordIsOwn
    BY DEF NamingP!NamesInv, NamingP!RecordIsOwn, NamingP!Lookup, NamingP!Api!Get,
           NamingP!Api!Answer
<1>2. NamingP!RecordIsOwn => RecordIsOwn
    BY DEF RecordIsOwn, Naming!RecordIsOwn, NamingP!RecordIsOwn, Naming!Lookup, NamingP!Lookup,
           Naming!RecordName, NamingP!RecordName, Naming!Dash, NamingP!Dash, Naming!Api!Get,
           NamingP!Api!Get, Naming!Api!Answer, NamingP!Api!Answer
<1> QED BY <1>1, <1>2, DetailsAreAlone, PTL

\* The ports on the istio cluster are those of one version, without node ports.
THEOREM NoNodePortLeaves == DetailsSpec => []NodePortsStayHome
<1>1. PortsP!SafetySpec => []PortsP!NodePortsStayHome
    BY PortsArePorts, PortsP!OffersAreStripped
<1>2. PortsP!NodePortsStayHome => NodePortsStayHome
    BY DEF NodePortsStayHome, Ports!NodePortsStayHome, PortsP!NodePortsStayHome, Ports!Stripped,
           PortsP!Stripped
<1> QED BY <1>1, <1>2, DetailsAreAlone, PTL

\* A ServiceRoute ends the process again only after its record was lost or deleted.
THEOREM CrashesAreCounted == DetailsSpec => []PanicsAreCounted
<1>1. PortsP!SafetySpec => []PortsP!PanicsAreCounted
    BY PortsArePorts, PortsP!PanicsNeedLapses
<1>2. PortsP!PanicsAreCounted => PanicsAreCounted
    BY DEF PanicsAreCounted, Ports!PanicsAreCounted, PortsP!PanicsAreCounted
<1> QED BY <1>1, <1>2, DetailsAreAlone, PTL

=============================================================================
