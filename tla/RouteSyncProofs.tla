--------------------------- MODULE RouteSyncProofs ---------------------------
(***************************************************************************)
(* Invariants of RouteSync for every number of ServiceRoutes, workers,     *)
(* controllers, routes and for every budget of the environment; the        *)
(* contracts that KeyedWork and LaggedCopy state, kept by its steps; and   *)
(* what holds of syncs that do not race, with the deployments that do not. *)
(***************************************************************************)
EXTENDS RouteSync, TLAPS

-----------------------------------------------------------------------------
(* What the type invariant rests on.                                       *)

\* A worker is idle exactly when it holds no key.
IdleIsFree == \A w \in Workers : pc[w] = "idle" <=> running[w] = None

\* No key is in the hands of two workers.
KeyInOneHand ==
    \A v, w \in Workers : running[v] # None /\ running[v] = running[w] => v = w

\* Past the reading of the caches a sync has a ServiceRoute with a route name.
Serving == {"decide", "crRec", "taken"} \cup CreateLabels \cup UpdateLabels
HasRoute ==
    \A w \in Workers :
        pc[w] \in Serving => job[w].foo \in FooObjects /\ job[w].foo.route \in Routes

\* A fresh copy of the Gateway is a copy of one that exists.
FreshGatewayExists == \A w \in Workers : job[w].gwFresh => gw \in SUBSET Routes

Structure == IdleIsFree /\ KeyInOneHand /\ HasRoute /\ FreshGatewayExists

LEMMA SpendAdds ==
    ASSUME spent \in [Bounded -> Nat], NEW what \in Bounded, Spend(what)
    PROVE  /\ spent' \in [Bounded -> Nat]
           /\ what = "faults" => spent'["faults"] # 0
           /\ what # "faults" => spent'["faults"] = spent["faults"]
BY DEF Spend, Bounded

THEOREM TypeInit == Init => TypeOK /\ Structure
<1> SUFFICES ASSUME Init PROVE TypeOK /\ Structure
    OBVIOUS
<1>1. TypeOK
    <2>1. foo \in [Keys -> FooObjects \cup {None}]
        BY DEF Init, FooObjects
    <2>2. objs \in [Kinds -> [Routes -> IstioObjects \cup {None}]]
        BY DEF Init
    <2>3. NoJob \in Jobs
        BY DEF NoJob, Jobs, Contents
    <2> QED BY <2>1, <2>2, <2>3 DEF Init, TypeOK, Contents, Labels
<1>2. Structure
    BY DEF Init, Structure, IdleIsFree, KeyInOneHand, HasRoute, FreshGatewayExists,
           NoJob, Serving, CreateLabels, UpdateLabels
<1> QED BY <1>1, <1>2

\* Users, backends, the owner of the Gateway and the informers.
LEMMA EnvironmentKeepsStructure ==
    ASSUME TypeOK, Structure, Environment \/ Informers
    PROVE  TypeOK' /\ Structure'
<1> USE DEF TypeOK, Structure
<1>1. ASSUME NEW k \in Keys, NEW new \in FooObjects \cup {None},
             ChangeFoo(k, new), spent' \in [Bounded -> Nat]
      PROVE  TypeOK' /\ Structure'
    <2>1. job' \in [Workers -> Jobs]
        BY <1>1 DEF ChangeFoo, Jobs
    <2>2. TypeOK'
        BY <1>1, <2>1 DEF ChangeFoo, istioVars, workVars
    <2>3. \A w \in Workers : job'[w].foo = job[w].foo /\ job'[w].gwFresh = job[w].gwFresh
        BY <1>1 DEF ChangeFoo, Jobs
    <2>4. Structure'
        BY <1>1, <2>3 DEF ChangeFoo, istioVars, workVars, IdleIsFree, KeyInOneHand, HasRoute,
                          FreshGatewayExists
    <2> QED BY <2>2, <2>4
<1>2. ASSUME NEW k \in Keys, NEW r \in Routes \cup {NoRoute},
             UserCreates(k, r) \/ UserEdits(k, r) \/ UserDeletes(k)
      PROVE  TypeOK' /\ Structure'
    <2>1. spent' \in [Bounded -> Nat]
        BY <1>2, SpendAdds DEF UserCreates, UserEdits, UserDeletes, Bounded
    <2>2. PICK new \in FooObjects \cup {None} : ChangeFoo(k, new)
        BY <1>2 DEF UserCreates, UserEdits, UserDeletes, FooObjects
    <2> QED BY <1>1, <2>1, <2>2
<1>3. ASSUME NEW k \in Keys, NEW c \in Contents, EndpointsChange(k, c) \/ ServiceChanges(k, c)
      PROVE  TypeOK' /\ Structure'
    <2>1. spent' \in [Bounded -> Nat]
        BY <1>3, SpendAdds DEF EndpointsChange, ServiceChanges, Bounded
    <2> QED
        BY <1>3, <2>1 DEF EndpointsChange, ServiceChanges, istioVars, workVars, IdleIsFree,
                          KeyInOneHand, HasRoute, FreshGatewayExists
<1>4. ASSUME NEW new \in {gw, None, {}}, GatewayChanges(new)
      PROVE  TypeOK' /\ Structure'
    <2>1. spent' \in [Bounded -> Nat]
        BY <1>4, SpendAdds DEF GatewayChanges, Bounded
    <2>2. job' \in [Workers -> Jobs]
        BY <1>4 DEF GatewayChanges, GatewayStale, Jobs
    <2>3. TypeOK'
        BY <1>4, <2>1, <2>2 DEF GatewayChanges, appVars, workVars
    <2>4. \A w \in Workers : job'[w].foo = job[w].foo /\ job'[w].gwFresh = FALSE
        BY <1>4 DEF GatewayChanges, GatewayStale, Jobs
    <2>5. Structure'
        BY <1>4, <2>4 DEF GatewayChanges, workVars, IdleIsFree, KeyInOneHand, HasRoute,
                          FreshGatewayExists
    <2> QED BY <2>3, <2>5
<1>5. ASSUME NEW k \in Keys, FooEvent(k) \/ Resync(k) \/ EndpointsEvent(k) \/ ServiceEvent(k)
      PROVE  TypeOK' /\ Structure'
    <2>1. TypeOK'
        BY <1>5 DEF FooEvent, Resync, EndpointsEvent, ServiceEvent, Enqueue, HandleObject,
                    Queue!Request, appVars, istioVars, workVars
    <2>2. UNCHANGED <<pc, job, running, gw>>
        BY <1>5 DEF FooEvent, Resync, EndpointsEvent, ServiceEvent, Enqueue, HandleObject,
                    Queue!Request, istioVars, workVars
    <2> QED BY <2>1, <2>2 DEF IdleIsFree, KeyInOneHand, HasRoute, FreshGatewayExists
<1>6. ASSUME NEW k \in Keys, FooTombstone(k)
      PROVE  TypeOK' /\ Structure'
    <2>1. spent' \in [Bounded -> Nat]
        BY <1>6, SpendAdds DEF FooTombstone, CallFails, Bounded
    <2> QED
        BY <1>6, <2>1 DEF FooTombstone, istioVars, workVars, IdleIsFree, KeyInOneHand, HasRoute,
                          FreshGatewayExists
<1> QED BY <1>2, <1>3, <1>4, <1>5, <1>6 DEF Environment, Informers
\* What a write of one object does to objs.
LEMMA OneObject ==
    ASSUME objs \in [Kinds -> [Routes -> IstioObjects \cup {None}]],
           NEW kind \in Kinds, NEW r, NEW o \in IstioObjects \cup {None},
           objs' = [objs EXCEPT ![kind][r] = o]
    PROVE  /\ objs' \in [Kinds -> [Routes -> IstioObjects \cup {None}]]
           /\ \A x \in Kinds, y \in Routes :
                 objs'[x][y] = IF x = kind /\ y = r THEN o ELSE objs[x][y]
<1>1. [objs[kind] EXCEPT ![r] = o] \in [Routes -> IstioObjects \cup {None}]
    OBVIOUS
<1>2. objs' = [objs EXCEPT ![kind] = [objs[kind] EXCEPT ![r] = o]]
    OBVIOUS
<1>3. objs'[kind] = [objs[kind] EXCEPT ![r] = o]
    BY <1>2
<1>4. \A x \in Kinds : x # kind => objs'[x] = objs[x]
    BY <1>2
<1> QED BY <1>1, <1>2, <1>3, <1>4

-----------------------------------------------------------------------------
(* The calls of syncHandler, for any place they are made from.             *)

LEMMA LookUpStep ==
    ASSUME TypeOK, IdleIsFree, NEW w \in Workers, LookUp(w)
    PROVE  /\ spent' \in [Bounded -> Nat] /\ job' \in [Workers -> Jobs]
           /\ running[w] \in Keys /\ pc[w] = "lookUp"
           /\ \A v \in Workers \ {w} : job'[v] = job[v] /\ pc'[v] = pc[v]
           /\ job'[w].foo = fooCache[running[w]]
           /\ job'[w].fresh = ~ fooLag[running[w]]
           /\ job'[w].gwFresh = FALSE
           /\ pc' = [pc EXCEPT ![w] = IF job'[w].doomed # None THEN "delEp" ELSE "caches"]
           /\ job'[w].doomed \in {rec[running[w]], None}
           /\ \/ spent'["faults"] # 0
              \/ /\ spent' = spent
                 /\ job'[w].doomed = IF fooCache[running[w]] = None
                                        \/ fooCache[running[w]].route # rec[running[w]]
                                    THEN rec[running[w]] ELSE None
<1> DEFINE k == running[w]
           doomed == IF fooCache[k] = None \/ fooCache[k].route # rec[k] THEN rec[k] ELSE None
           new(r) == [NoJob EXCEPT !.foo = fooCache[k], !.fresh = ~ fooLag[k], !.doomed = r]
<1>1. k \in Keys /\ pc[w] = "lookUp"
    BY DEF TypeOK, IdleIsFree, LookUp
<1>2. PICK r \in {doomed, None} :
         /\ IF r = doomed THEN UNCHANGED spent ELSE CallFails
         /\ job' = [job EXCEPT ![w] = new(r)]
         /\ pc' = [pc EXCEPT ![w] = IF r # None THEN "delEp" ELSE "caches"]
    BY DEF LookUp, Goto
<1>3. doomed \in {rec[k], None} /\ rec[k] \in Routes \cup {None}
    BY <1>1 DEF TypeOK
<1>4. new(r) \in Jobs
    BY <1>1, <1>3 DEF TypeOK, NoJob, Jobs, Contents
<1>5. /\ spent' \in [Bounded -> Nat]
      /\ spent'["faults"] # 0 \/ (spent' = spent /\ r = doomed)
    BY <1>2, SpendAdds DEF CallFails, Bounded, TypeOK
<1>6. job'[w] = new(r) /\ job' \in [Workers -> Jobs]
      /\ \A v \in Workers \ {w} : job'[v] = job[v] /\ pc'[v] = pc[v]
    BY <1>2, <1>4 DEF TypeOK
<1>7. /\ job'[w].foo = fooCache[k] /\ job'[w].fresh = ~ fooLag[k]
      /\ job'[w].gwFresh = FALSE /\ job'[w].doomed = r
    BY <1>6 DEF NoJob
<1> QED BY <1>1, <1>2, <1>3, <1>5, <1>6, <1>7

LEMMA GetGatewayStep ==
    ASSUME TypeOK, FreshGatewayExists, NEW w \in Workers,
           NEW here, NEW found, NEW missing, GetGateway(w, here, found, missing)
    PROVE  /\ spent' \in [Bounded -> Nat] /\ job' \in [Workers -> Jobs]
           /\ spent'["faults"] = 0 => spent["faults"] = 0
           /\ \A v \in Workers :
                 /\ job'[v].foo = job[v].foo /\ job'[v].doomed = job[v].doomed
                 /\ job'[v].fresh = job[v].fresh /\ (job'[v].gwFresh => gw \in SUBSET Routes)
           /\ pc[w] = here
           /\ \/ pc' = [pc EXCEPT ![w] = found] \/ pc' = [pc EXCEPT ![w] = missing]
<1>1. /\ spent' \in [Bounded -> Nat]
      /\ spent'["faults"] = 0 => spent["faults"] = 0
    BY SpendAdds DEF GetGateway, CallFails, Bounded, TypeOK
<1>2. CASE job' = job
    BY <1>1, <1>2 DEF GetGateway, Goto, TypeOK, FreshGatewayExists
<1>3. CASE gw # None /\ job' = [job EXCEPT ![w].gwFresh = TRUE]
    <2>1. [job[w] EXCEPT !.gwFresh = TRUE] \in Jobs
        BY DEF Jobs, TypeOK
    <2>2. job' = [job EXCEPT ![w] = [job[w] EXCEPT !.gwFresh = TRUE]]
        BY <1>3
    <2>3. job' \in [Workers -> Jobs]
        BY <2>1, <2>2 DEF TypeOK
    <2>4. \A v \in Workers : /\ job'[v].foo = job[v].foo /\ job'[v].doomed = job[v].doomed
                             /\ job'[v].fresh = job[v].fresh
        BY <2>2 DEF Jobs, TypeOK
    <2>5. gw \in SUBSET Routes
        BY <1>3 DEF TypeOK
    <2> QED BY <1>1, <1>3, <2>3, <2>4, <2>5 DEF GetGateway, Goto
<1> QED BY <1>2, <1>3 DEF GetGateway

LEMMA PutGatewayStep ==
    ASSUME TypeOK, FreshGatewayExists, NEW w \in Workers,
           NEW here, NEW next, NEW hosts, PutGateway(w, here, hosts, next),
           job[w].gwFresh => hosts \in SUBSET Routes
    PROVE  /\ spent' \in [Bounded -> Nat] /\ job' \in [Workers -> Jobs]
           /\ gw' \in (SUBSET Routes) \cup {None}
           /\ spent'["faults"] = 0 => spent["faults"] = 0
           /\ \A v \in Workers :
                 /\ job'[v].foo = job[v].foo /\ job'[v].doomed = job[v].doomed
                 /\ job'[v].fresh = job[v].fresh /\ (job'[v].gwFresh => gw' \in SUBSET Routes)
           /\ pc[w] = here /\ pc' = [pc EXCEPT ![w] = next]
<1>1. /\ spent' \in [Bounded -> Nat]
      /\ spent'["faults"] = 0 => spent["faults"] = 0
    BY SpendAdds DEF PutGateway, CallFails, Bounded, TypeOK
<1>2. /\ gw' \in (SUBSET Routes) \cup {None}
      /\ gw' = gw \/ gw' = hosts
      /\ gw' # gw => gw' \in SUBSET Routes
    BY DEF PutGateway, TypeOK
<1>3. CASE job' = GatewayStale
    <2>1. /\ job' \in [Workers -> Jobs]
          /\ \A v \in Workers :
                 /\ job'[v].foo = job[v].foo /\ job'[v].doomed = job[v].doomed
                 /\ job'[v].fresh = job[v].fresh /\ job'[v].gwFresh = FALSE
        BY <1>3 DEF GatewayStale, Jobs, TypeOK
    <2> QED BY <1>1, <1>2, <2>1 DEF PutGateway, Goto
<1>4. CASE gw' = gw /\ job' = [job EXCEPT ![w].gwFresh = FALSE]
    <2>1. [job[w] EXCEPT !.gwFresh = FALSE] \in Jobs
        BY DEF Jobs, TypeOK
    <2>2. job' = [job EXCEPT ![w] = [job[w] EXCEPT !.gwFresh = FALSE]]
        BY <1>4
    <2>3. job' \in [Workers -> Jobs]
        BY <2>1, <2>2 DEF TypeOK
    <2>4. \A v \in Workers : /\ job'[v].foo = job[v].foo /\ job'[v].doomed = job[v].doomed
                             /\ job'[v].fresh = job[v].fresh
                             /\ (job'[v].gwFresh => job[v].gwFresh)
        BY <2>2 DEF Jobs, TypeOK
    <2> QED BY <1>1, <1>2, <1>4, <2>3, <2>4 DEF PutGateway, Goto, FreshGatewayExists
<1> QED BY <1>3, <1>4 DEF PutGateway

LEMMA DeleteObjectStep ==
    ASSUME TypeOK, NEW w \in Workers, NEW kind \in Kinds, NEW here, NEW next,
           DeleteObject(w, here, kind, next)
    PROVE  /\ spent' \in [Bounded -> Nat]
           /\ objs' \in [Kinds -> [Routes -> IstioObjects \cup {None}]]
           /\ spent'["faults"] = 0 => spent["faults"] = 0
           /\ \A x \in Kinds, r \in Routes : objs'[x][r] \in {objs[x][r], None}
           /\ spent'["faults"] = 0 /\ job[w].doomed \in Routes
                 => objs'[kind][job[w].doomed] = None
<1>1. /\ spent' \in [Bounded -> Nat]
      /\ spent'["faults"] = 0 => spent["faults"] = 0
    BY SpendAdds DEF DeleteObject, CallFails, Bounded, TypeOK
<1>2. CASE objs' = [objs EXCEPT ![kind][job[w].doomed] = None]
    <2>1. objs \in [Kinds -> [Routes -> IstioObjects \cup {None}]] /\ kind \in Kinds
        BY DEF TypeOK
    <2>2. /\ objs' \in [Kinds -> [Routes -> IstioObjects \cup {None}]]
          /\ \A x \in Kinds, y \in Routes :
                objs'[x][y] = IF x = kind /\ y = job[w].doomed THEN None ELSE objs[x][y]
        BY <1>2, <2>1, OneObject
    <2> QED BY <1>1, <2>2
<1>3. CASE CallFails /\ objs' = objs
    BY <1>1, <1>3, SpendAdds DEF CallFails, Bounded, TypeOK
<1> QED BY <1>2, <1>3 DEF DeleteObject

LEMMA PutObjectStep ==
    ASSUME TypeOK, NEW w \in Workers, NEW kind \in Kinds, NEW here, NEW applies, NEW next,
           running[w] \in Keys, job[w].foo.route \in Routes,
           PutObject(w, here, kind, applies, next)
    PROVE  /\ spent' \in [Bounded -> Nat]
           /\ objs' \in [Kinds -> [Routes -> IstioObjects \cup {None}]]
           /\ spent'["faults"] = 0 => spent["faults"] = 0
           /\ \A x \in Kinds, r \in Routes :
                 \/ objs'[x][r] = objs[x][r]
                 \/ r = job[w].foo.route /\ objs'[x][r].from = running[w]
<1>1. /\ spent' \in [Bounded -> Nat]
      /\ spent'["faults"] = 0 => spent["faults"] = 0
    BY SpendAdds DEF PutObject, CallFails, Bounded, TypeOK
<1>2. CASE objs' = [objs EXCEPT ![kind][job[w].foo.route] = Made(w, kind)]
    <2>1. Made(w, kind) \in IstioObjects /\ Made(w, kind).from = running[w]
        <3>1. job[w].ep \in Contents /\ job[w].svc \in Contents /\ None \in Contents
            BY DEF TypeOK, Jobs, Contents
        <3> QED BY <3>1 DEF Made, IstioObjects, Kinds
    <2> QED BY <1>1, <1>2, <2>1, OneObject DEF TypeOK
<1>3. CASE objs' = objs
    BY <1>1, <1>3 DEF TypeOK
<1> QED BY <1>2, <1>3 DEF PutObject

LEMMA PutStatusStep ==
    ASSUME TypeOK, NEW w \in Workers, NEW here, NEW status \in Routes \cup {Taken},
           running[w] \in Keys, job[w].foo \in FooObjects,
           PutStatus(w, here, status)
    PROVE  /\ spent' \in [Bounded -> Nat]
           /\ foo' \in [Keys -> FooObjects \cup {None}]
           /\ fooLag' \in [Keys -> BOOLEAN]
           /\ spent'["faults"] = 0 => spent["faults"] = 0
           /\ \/ foo' = foo /\ fooLag' = fooLag
              \/ /\ job[w].fresh
                 /\ \A k \in Keys : k # running[w] => foo'[k] = foo[k] /\ fooLag'[k] = fooLag[k]
                 /\ foo'[running[w]].route = job[w].foo.route
                 /\ foo'[running[w]].status = status
                 /\ ~ fooLag'[running[w]] => ~ fooLag[running[w]]
                                            /\ foo'[running[w]] = foo[running[w]]
<1> DEFINE new == [job[w].foo EXCEPT !.status = status]
<1>1. /\ spent' \in [Bounded -> Nat]
      /\ spent'["faults"] = 0 => spent["faults"] = 0
    BY SpendAdds DEF PutStatus, CallFails, Bounded, TypeOK
<1>2. new \in FooObjects /\ new.route = job[w].foo.route /\ new.status = status
    BY DEF FooObjects
<1>3. \/ foo' = foo /\ fooLag' = fooLag
      \/ /\ job[w].fresh
         /\ foo' = [foo EXCEPT ![running[w]] = new]
         /\ fooLag' = [fooLag EXCEPT ![running[w]] = @ \/ new # foo[running[w]]]
    BY DEF PutStatus
<1>4. CASE foo' = foo /\ fooLag' = fooLag
    BY <1>1, <1>4 DEF TypeOK
<1>5. CASE /\ job[w].fresh
           /\ foo' = [foo EXCEPT ![running[w]] = new]
           /\ fooLag' = [fooLag EXCEPT ![running[w]] = @ \/ new # foo[running[w]]]
    <2>1. /\ foo' \in [Keys -> FooObjects \cup {None}]
          /\ fooLag' \in [Keys -> BOOLEAN]
        BY <1>2, <1>5 DEF TypeOK
    <2>2. /\ foo'[running[w]] = new
          /\ \A k \in Keys : k # running[w] => foo'[k] = foo[k] /\ fooLag'[k] = fooLag[k]
          /\ fooLag'[running[w]] = (fooLag[running[w]] \/ new # foo[running[w]])
        BY <1>5 DEF TypeOK
    <2> HIDE DEF new
    <2> QED BY <1>1, <1>2, <1>5, <2>1, <2>2
<1> QED BY <1>3, <1>4, <1>5

LEMMA RecordStep ==
    ASSUME TypeOK, HasRoute, NEW w \in Workers, running[w] \in Keys,
           DeleteRecord(w) \/ CreateRecord(w)
    PROVE  /\ spent' \in [Bounded -> Nat]
           /\ spent'["faults"] = 0 => spent["faults"] = 0
           /\ rec' \in [Keys -> Routes \cup {None}]
           /\ \A k \in Keys : k # running[w] => rec'[k] = rec[k]
           /\ spent'["faults"] = 0 /\ DeleteRecord(w) => rec'[running[w]] = None
           /\ spent'["faults"] = 0 /\ CreateRecord(w) /\ rec[running[w]] = None
                 => rec'[running[w]] = job[w].foo.route
           /\ CreateRecord(w) /\ rec[running[w]] # None => rec' = rec
<1>1. /\ spent' \in [Bounded -> Nat]
      /\ spent'["faults"] = 0 => spent["faults"] = 0 /\ spent' = spent
    BY SpendAdds DEF DeleteRecord, CreateRecord, CallFails, Bounded, TypeOK
<1>2. CASE DeleteRecord(w)
    <2>1. pc[w] # "crRec"
        BY <1>2 DEF DeleteRecord
    <2>2. ~ CreateRecord(w)
        BY <2>1 DEF CreateRecord
    <2>3. /\ rec' = [rec EXCEPT ![running[w]] = None] \/ (rec' = rec /\ CallFails)
        BY <1>2 DEF DeleteRecord
    <2>4. CallFails => spent'["faults"] # 0
        BY SpendAdds DEF CallFails, Bounded, TypeOK
    <2> QED BY <1>1, <2>2, <2>3, <2>4 DEF TypeOK
<1>3. CASE CreateRecord(w)
    <2>1. pc[w] = "crRec"
        BY <1>3 DEF CreateRecord
    <2>2. ~ DeleteRecord(w)
        BY <2>1 DEF DeleteRecord
    <2>3. job[w].foo.route \in Routes
        BY <2>1 DEF HasRoute, Serving
    <2>4. \/ rec' = [rec EXCEPT ![running[w]] = IF @ = None THEN job[w].foo.route ELSE @]
          \/ rec' = rec /\ CallFails
        BY <1>3 DEF CreateRecord, RecordOf
    <2>5. CallFails => spent'["faults"] # 0
        BY SpendAdds DEF CallFails, Bounded, TypeOK
    <2> QED BY <1>1, <2>2, <2>3, <2>4, <2>5 DEF TypeOK
<1> QED BY <1>2, <1>3

LEMMA ReadCachesStep ==
    ASSUME TypeOK, NEW w \in Workers, running[w] \in Keys, ReadCaches(w)
    PROVE  /\ job' \in [Workers -> Jobs]
           /\ \A v \in Workers : /\ job'[v].foo = job[v].foo
                                /\ job'[v].doomed = job[v].doomed
                                /\ job'[v].fresh = job[v].fresh
                                /\ job'[v].gwFresh = job[v].gwFresh
           /\ pc[w] = "caches"
           /\ \/ pc' = [pc EXCEPT ![w] = "done"]
              \/ /\ pc' = [pc EXCEPT ![w] = "decide"]
                 /\ job[w].foo \in FooObjects /\ job[w].foo.route \in Routes
<1> DEFINE k == running[w]
           new == [job[w] EXCEPT !.ep = epCache[k], !.svc = svcCache[k]]
<1>1. CASE /\ job' = [job EXCEPT ![w].ep = epCache[k], ![w].svc = svcCache[k]]
           /\ pc' = [pc EXCEPT ![w] = "decide"]
           /\ job[w].foo # None /\ job[w].foo.route # NoRoute
    <2>1. job' = [job EXCEPT ![w] = new]
        <3>1. \A v \in Workers : [job EXCEPT ![w].ep = epCache[k], ![w].svc = svcCache[k]][v]
                                = [job EXCEPT ![w] = new][v]
            BY DEF TypeOK, Jobs
        <3> QED BY <1>1, <3>1 DEF TypeOK
    <2>2. new \in Jobs /\ new.foo = job[w].foo /\ new.doomed = job[w].doomed
          /\ new.fresh = job[w].fresh /\ new.gwFresh = job[w].gwFresh
        BY DEF TypeOK, Jobs
    <2>3. job[w].foo \in FooObjects /\ job[w].foo.route \in Routes
        BY <1>1 DEF TypeOK, Jobs, FooObjects
    <2>4. job' \in [Workers -> Jobs] /\ \A v \in Workers : job'[v] = IF v = w THEN new ELSE job[v]
        BY <2>1, <2>2 DEF TypeOK
    <2> HIDE DEF new
    <2> QED BY <1>1, <2>2, <2>3, <2>4 DEF ReadCaches
<1>2. CASE job' = job /\ pc' = [pc EXCEPT ![w] = "done"]
    BY <1>2 DEF ReadCaches, TypeOK
<1> QED BY <1>1, <1>2 DEF ReadCaches, Goto

LEMMA DecideStep ==
    ASSUME TypeOK, NEW w \in Workers, Decide(w)
    PROVE  /\ spent' \in [Bounded -> Nat]
           /\ spent'["faults"] = 0 => spent["faults"] = 0
           /\ pc[w] = "decide"
           /\ \/ pc' = [pc EXCEPT ![w] = "taken"]
              \/ pc' = [pc EXCEPT ![w] = "crRec"] /\ rec[running[w]] = None
              \/ pc' = [pc EXCEPT ![w] = "upSvc"]
                 /\ (spent'["faults"] # 0 \/ rec[running[w]] # None)
BY SpendAdds DEF Decide, Goto, CallFails, Bounded, TypeOK

-----------------------------------------------------------------------------
(* Types and structure are kept.                                           *)

LEMMA SameSyncKeepsStructure ==
    ASSUME TypeOK, Structure, NEW w \in Workers, NEW next,
           pc[w] # "idle", next # "idle", next \in Serving => pc[w] \in Serving,
           pc' = [pc EXCEPT ![w] = next], running' = running,
           \A v \in Workers : job'[v].foo = job[v].foo /\ (job'[v].gwFresh => gw' \in SUBSET Routes)
    PROVE  Structure'
BY DEF TypeOK, Structure, IdleIsFree, KeyInOneHand, HasRoute, FreshGatewayExists

LEMMA WorkerKeepsTypes ==
    ASSUME TypeOK, Structure, NEW w \in Workers, Step(w)
    PROVE  TypeOK' /\ Structure'
<1>1. CASE LookUp(w)
    <2>1. /\ spent' \in [Bounded -> Nat] /\ job' \in [Workers -> Jobs]
          /\ pc[w] = "lookUp"
          /\ \A v \in Workers \ {w} : job'[v] = job[v] /\ pc'[v] = pc[v]
          /\ job'[w].gwFresh = FALSE
          /\ pc' = [pc EXCEPT ![w] = IF job'[w].doomed # None THEN "delEp" ELSE "caches"]
        BY <1>1, LookUpStep DEF Structure
    <2>2. PICK label \in {"delEp", "caches"} : pc' = [pc EXCEPT ![w] = label]
        BY <2>1
    <2>3. TypeOK'
        BY <1>1, <2>1, <2>2 DEF LookUp, TypeOK, appVars, istioVars, workVars, Labels
    <2>4. running' = running /\ gw' = gw /\ pc'[w] = label
        BY <1>1, <2>2 DEF LookUp, istioVars, workVars, TypeOK
    <2>5. Structure'
        BY <2>1, <2>2, <2>4 DEF Structure, IdleIsFree, KeyInOneHand, HasRoute,
              FreshGatewayExists, Serving, CreateLabels, UpdateLabels, TypeOK
    <2> QED BY <2>3, <2>5
<1>2. ASSUME NEW here \in Labels \ ({"idle"} \cup Serving), NEW kind \in Kinds,
             NEW next \in Labels \ ({"idle"} \cup Serving), DeleteObject(w, here, kind, next)
      PROVE  TypeOK' /\ Structure'
    <2>1. /\ spent' \in [Bounded -> Nat]
          /\ objs' \in [Kinds -> [Routes -> IstioObjects \cup {None}]]
        BY <1>2, DeleteObjectStep
    <2>2. TypeOK'
        BY <1>2, <2>1 DEF DeleteObject, Goto, TypeOK, appVars, workVars
    <2>3. Structure'
        BY <1>2, SameSyncKeepsStructure DEF DeleteObject, Goto, workVars, Structure,
              FreshGatewayExists
    <2> QED BY <2>2, <2>3
<1>3. ASSUME NEW here \in Labels \ {"idle"}, NEW found \in Labels \ {"idle"},
             NEW missing \in Labels \ {"idle"}, {found, missing} \cap Serving # {} => here \in Serving,
             GetGateway(w, here, found, missing)
      PROVE  TypeOK' /\ Structure'
    <2>1. /\ spent' \in [Bounded -> Nat] /\ job' \in [Workers -> Jobs]
          /\ \A v \in Workers : job'[v].foo = job[v].foo /\ (job'[v].gwFresh => gw \in SUBSET Routes)
          /\ pc[w] = here
          /\ \/ pc' = [pc EXCEPT ![w] = found] \/ pc' = [pc EXCEPT ![w] = missing]
        BY <1>3, GetGatewayStep DEF Structure
    <2>2. TypeOK'
        BY <1>3, <2>1 DEF GetGateway, TypeOK, appVars, istioVars, workVars
    <2>3. running' = running /\ gw' = gw
        BY <1>3 DEF GetGateway, istioVars, workVars
    <2>4. Structure'
        BY <1>3, <2>1, <2>3, SameSyncKeepsStructure
    <2> QED BY <2>2, <2>4
<1>4. ASSUME NEW here \in Labels \ {"idle"}, NEW next \in Labels \ {"idle"}, NEW hosts,
             next \in Serving => here \in Serving,
             job[w].gwFresh => hosts \in SUBSET Routes,
             PutGateway(w, here, hosts, next)
      PROVE  TypeOK' /\ Structure'
    <2>1. /\ spent' \in [Bounded -> Nat] /\ job' \in [Workers -> Jobs]
          /\ gw' \in (SUBSET Routes) \cup {None}
          /\ \A v \in Workers : job'[v].foo = job[v].foo /\ (job'[v].gwFresh => gw' \in SUBSET Routes)
          /\ pc[w] = here /\ pc' = [pc EXCEPT ![w] = next]
        BY <1>4, PutGatewayStep DEF Structure
    <2>2. TypeOK'
        BY <1>4, <2>1 DEF PutGateway, TypeOK, appVars, workVars
    <2>3. running' = running
        BY <1>4 DEF PutGateway, workVars
    <2>4. Structure'
        BY <1>4, <2>1, <2>3, SameSyncKeepsStructure
    <2> QED BY <2>2, <2>4
<1>5. CASE DeleteRecord(w) \/ CreateRecord(w)
    <2>1. PICK next \in {"caches", "crEp"} :
             /\ pc' = [pc EXCEPT ![w] = next]
             /\ pc[w] # "idle" /\ (next \in Serving => pc[w] \in Serving)
        BY <1>5 DEF DeleteRecord, CreateRecord, Goto, Serving, CreateLabels, UpdateLabels
    <2>2. running[w] \in Keys
        BY <2>1 DEF Structure, IdleIsFree, TypeOK
    <2>3. spent' \in [Bounded -> Nat] /\ rec' \in [Keys -> Routes \cup {None}]
        BY <1>5, <2>2, RecordStep DEF Structure
    <2>4. TypeOK'
        BY <1>5, <2>1, <2>3 DEF DeleteRecord, CreateRecord, TypeOK, appVars, workVars, Labels
    <2>5. running' = running /\ gw' = gw /\ job' = job
        BY <1>5 DEF DeleteRecord, CreateRecord, workVars
    <2>6. Structure'
        BY <2>1, <2>5, SameSyncKeepsStructure DEF Structure, FreshGatewayExists
    <2> QED BY <2>4, <2>6
<1>6. CASE ReadCaches(w)
    <2>1. pc[w] = "caches" /\ running[w] \in Keys
        BY <1>6 DEF ReadCaches, Structure, IdleIsFree, TypeOK
    <2>2. /\ job' \in [Workers -> Jobs]
          /\ \A v \in Workers : job'[v].foo = job[v].foo /\ job'[v].gwFresh = job[v].gwFresh
          /\ \/ pc' = [pc EXCEPT ![w] = "done"]
             \/ /\ pc' = [pc EXCEPT ![w] = "decide"]
                /\ job[w].foo \in FooObjects /\ job[w].foo.route \in Routes
        BY <1>6, <2>1, ReadCachesStep
    <2>3. TypeOK'
        BY <1>6, <2>2 DEF ReadCaches, TypeOK, appVars, istioVars, workVars, Labels
    <2>4. running' = running /\ gw' = gw
        BY <1>6 DEF ReadCaches, istioVars, workVars
    <2>5. Structure'
        BY <2>1, <2>2, <2>4 DEF Structure, IdleIsFree, KeyInOneHand, HasRoute,
              FreshGatewayExists, Serving, CreateLabels, UpdateLabels, TypeOK
    <2> QED BY <2>3, <2>5
<1>7. CASE Decide(w)
    <2>1. spent' \in [Bounded -> Nat] /\ pc[w] = "decide"
          /\ \E next \in {"taken", "crRec", "upSvc"} : pc' = [pc EXCEPT ![w] = next]
        BY <1>7, DecideStep
    <2>2. TypeOK'
        BY <1>7, <2>1 DEF Decide, TypeOK, appVars, istioVars, workVars, Labels
    <2>3. running' = running /\ gw' = gw /\ job' = job
        BY <1>7 DEF Decide, istioVars, workVars
    <2>4. Structure'
        BY <2>1, <2>3, SameSyncKeepsStructure DEF Structure, FreshGatewayExists, Serving,
              CreateLabels, UpdateLabels
    <2> QED BY <2>2, <2>4
<1>8. ASSUME NEW here \in Serving, NEW kind \in Kinds, NEW applies,
             NEW next \in Labels \ {"idle"}, PutObject(w, here, kind, applies, next)
      PROVE  TypeOK' /\ Structure'
    <2>1. pc[w] \in Serving /\ pc[w] # "idle"
        BY <1>8 DEF PutObject, Serving, CreateLabels, UpdateLabels
    <2>2. running[w] \in Keys /\ job[w].foo.route \in Routes
        BY <2>1 DEF Structure, IdleIsFree, HasRoute, TypeOK
    <2>3. /\ spent' \in [Bounded -> Nat]
          /\ objs' \in [Kinds -> [Routes -> IstioObjects \cup {None}]]
        BY <1>8, <2>2, PutObjectStep
    <2>4. TypeOK'
        BY <1>8, <2>3 DEF PutObject, Goto, TypeOK, appVars, workVars
    <2>5. Structure'
        BY <1>8, <2>1, SameSyncKeepsStructure DEF PutObject, Goto, workVars, Structure,
              FreshGatewayExists
    <2> QED BY <2>4, <2>5
<1>9. ASSUME NEW here \in Serving, NEW status \in Routes \cup {Taken}, PutStatus(w, here, status)
      PROVE  TypeOK' /\ Structure'
    <2>1. pc[w] \in Serving /\ pc[w] # "idle"
        BY <1>9 DEF PutStatus, Serving, CreateLabels, UpdateLabels
    <2>2. running[w] \in Keys /\ job[w].foo \in FooObjects
        BY <2>1 DEF Structure, IdleIsFree, HasRoute, TypeOK
    <2>3. /\ spent' \in [Bounded -> Nat]
          /\ foo' \in [Keys -> FooObjects \cup {None}]
          /\ fooLag' \in [Keys -> BOOLEAN]
        BY <1>9, <2>2, PutStatusStep
    <2>4. TypeOK'
        BY <1>9, <2>3 DEF PutStatus, Goto, TypeOK, istioVars, workVars, Labels
    <2>5. running' = running /\ gw' = gw /\ job' = job /\ pc' = [pc EXCEPT ![w] = "done"]
        BY <1>9 DEF PutStatus, Goto, istioVars, workVars
    <2>6. Structure'
        BY <2>1, <2>5, SameSyncKeepsStructure DEF Structure, FreshGatewayExists
    <2> QED BY <2>4, <2>6
<1>10. CASE FinishSync(w)
    <2>1. NoJob \in Jobs /\ NoJob.gwFresh = FALSE
        BY DEF NoJob, Jobs, Contents
    <2>2. /\ running' = [running EXCEPT ![w] = None] /\ pending' = pending
          /\ pc' = [pc EXCEPT ![w] = "idle"] /\ job' = [job EXCEPT ![w] = NoJob]
        BY <1>10 DEF FinishSync, Queue!Finish, Goto
    <2>3. TypeOK'
        BY <1>10, <2>1, <2>2 DEF FinishSync, TypeOK, appVars, istioVars, Labels
    <2>4. Structure'
        BY <1>10, <2>1, <2>2 DEF FinishSync, istioVars, Structure, IdleIsFree, KeyInOneHand,
              HasRoute, FreshGatewayExists, Serving, CreateLabels, UpdateLabels, TypeOK
    <2> QED BY <2>3, <2>4
<1>11. CASE TearDown(w)
    <2>1. job[w].gwFresh => HostsWithout(w) \in SUBSET Routes
        BY DEF HostsWithout, Structure, FreshGatewayExists, TypeOK
    <2>2. CASE DeleteObject(w, "delEp", "ep", "delSvc")
        BY <1>2, <2>2 DEF Labels, Kinds, Serving, CreateLabels, UpdateLabels
    <2>3. CASE DeleteObject(w, "delSvc", "svc", "delVS")
        BY <1>2, <2>3 DEF Labels, Kinds, Serving, CreateLabels, UpdateLabels
    <2>4. CASE DeleteObject(w, "delVS", "vs", "delDR")
        BY <1>2, <2>4 DEF Labels, Kinds, Serving, CreateLabels, UpdateLabels
    <2>5. CASE DeleteObject(w, "delDR", "dr", "delGwGet")
        BY <1>2, <2>5 DEF Labels, Kinds, Serving, CreateLabels, UpdateLabels
    <2>6. CASE GetGateway(w, "delGwGet", "delGwPut", "delRec")
        BY <1>3, <2>6 DEF Labels, Serving, CreateLabels, UpdateLabels
    <2>7. CASE PutGateway(w, "delGwPut", HostsWithout(w), "delRec")
        BY <1>4, <2>1, <2>7 DEF Labels, Serving, CreateLabels, UpdateLabels
    <2>8. CASE DeleteRecord(w)
        BY <1>5, <2>8
    <2> QED BY <1>11, <2>2, <2>3, <2>4, <2>5, <2>6, <2>7, <2>8 DEF TearDown
<1>12. ASSUME pc[w] \in Serving
       PROVE  job[w].foo.route \in Routes
    BY <1>12 DEF Structure, HasRoute
<1>13. CASE Create(w)
    <2>1. pc[w] \in Serving
        BY <1>13 DEF Create, CreateRecord, CreateObject, PutObject, GetGateway, PutGateway,
              PutStatus, Serving, CreateLabels, UpdateLabels
    <2>2. job[w].gwFresh => HostsWith(w) \in SUBSET Routes
        BY <1>12, <2>1 DEF HostsWith, Structure, FreshGatewayExists
    <2>3. CASE CreateRecord(w)
        BY <1>5, <2>3
    <2>4. CASE CreateObject(w, "crEp", "ep", "crSvc")
        BY <1>8, <2>4 DEF CreateObject, Labels, Kinds, Serving, CreateLabels
    <2>5. CASE CreateObject(w, "crSvc", "svc", "crVS")
        BY <1>8, <2>5 DEF CreateObject, Labels, Kinds, Serving, CreateLabels
    <2>6. CASE CreateObject(w, "crVS", "vs", "crDR")
        BY <1>8, <2>6 DEF CreateObject, Labels, Kinds, Serving, CreateLabels
    <2>7. CASE CreateObject(w, "crDR", "dr", "crGwGet")
        BY <1>8, <2>7 DEF CreateObject, Labels, Kinds, Serving, CreateLabels
    <2>8. CASE GetGateway(w, "crGwGet", "crGwPut", "done")
        BY <1>3, <2>8 DEF Labels, Serving, CreateLabels
    <2>9. CASE PutGateway(w, "crGwPut", HostsWith(w), "status")
        BY <1>4, <2>2, <2>9 DEF Labels, Serving, CreateLabels
    <2>10. CASE PutStatus(w, "status", job[w].foo.route)
        BY <1>9, <1>12, <2>1, <2>10 DEF Serving, CreateLabels
    <2> QED BY <1>13, <2>3, <2>4, <2>5, <2>6, <2>7, <2>8, <2>9, <2>10 DEF Create
<1>14. CASE Refuse(w)
    BY <1>9, <1>14 DEF Refuse, Serving
<1>15. CASE Update(w)
    <2>1. CASE UpdateObject(w, "upSvc", "svc", "upEp")
        BY <1>8, <2>1 DEF UpdateObject, Labels, Kinds, Serving, UpdateLabels
    <2>2. CASE UpdateObject(w, "upEp", "ep", "done")
        BY <1>8, <2>2 DEF UpdateObject, Labels, Kinds, Serving, UpdateLabels
    <2> QED BY <1>15, <2>1, <2>2 DEF Update
<1> QED BY <1>1, <1>6, <1>7, <1>10, <1>11, <1>13, <1>14, <1>15 DEF Step

LEMMA StartKeepsTypes ==
    ASSUME TypeOK, Structure, NEW w \in Workers, NEW k \in Keys, StartSync(w, k)
    PROVE  TypeOK' /\ Structure'
<1>1. /\ running[w] = None /\ running' = [running EXCEPT ![w] = k]
      /\ pending' = pending \ {k} /\ pc' = [pc EXCEPT ![w] = "lookUp"]
      /\ \A v \in Workers : running[v] # k
    BY DEF StartSync, Queue!Start, Queue!InHand, Goto
<1>2. TypeOK'
    BY <1>1 DEF StartSync, TypeOK, appVars, istioVars, Labels
<1>3. k # None
    BY RouteSyncAssumption
<1>4. Structure'
    BY <1>1, <1>3 DEF StartSync, istioVars, Structure, IdleIsFree, KeyInOneHand, HasRoute,
          FreshGatewayExists, Serving, CreateLabels, UpdateLabels, TypeOK
<1> QED BY <1>2, <1>4

LEMMA CrashKeepsTypes ==
    ASSUME TypeOK, Structure, NEW c \in Clusters, Crash(c)
    PROVE  TypeOK' /\ Structure'
<1>1. spent' \in [Bounded -> Nat]
    BY SpendAdds DEF Crash, Bounded, TypeOK
<1>2. NoJob \in Jobs /\ NoJob.gwFresh = FALSE /\ None \in Contents
    BY DEF NoJob, Jobs, Contents
<1>3. TypeOK'
    BY <1>1, <1>2 DEF Crash, TypeOK, istioVars, Labels
<1>4. \A w \in Workers :
         \/ running'[w] = None /\ pc'[w] = "idle" /\ job'[w] = NoJob
         \/ running'[w] = running[w] /\ pc'[w] = pc[w] /\ job'[w] = job[w]
    BY DEF Crash
<1>5. gw' = gw
    BY DEF Crash, istioVars
<1>6. Structure'
    BY <1>2, <1>4, <1>5 DEF Structure, IdleIsFree, KeyInOneHand, HasRoute, FreshGatewayExists,
          Serving, CreateLabels, UpdateLabels
<1> QED BY <1>3, <1>6

LEMMA TypeStep == TypeOK /\ Structure /\ [Next]_vars => TypeOK' /\ Structure'
<1> SUFFICES ASSUME TypeOK, Structure, [Next]_vars PROVE TypeOK' /\ Structure'
    OBVIOUS
<1>1. CASE UNCHANGED vars
    BY <1>1 DEF vars, appVars, istioVars, workVars, TypeOK, Structure, IdleIsFree, KeyInOneHand,
          HasRoute, FreshGatewayExists
<1> QED
    BY <1>1, EnvironmentKeepsStructure, StartKeepsTypes, WorkerKeepsTypes, CrashKeepsTypes
       DEF Next

\* Every variable keeps its type, for all values of the constants.
THEOREM TypeCorrect == SafetySpec => []TypeOK
<1>1. Init => TypeOK /\ Structure
    BY TypeInit
<1>2. TypeOK /\ Structure /\ [Next]_vars => (TypeOK /\ Structure)'
    BY TypeStep
<1> QED BY <1>1, <1>2, PTL DEF SafetySpec

-----------------------------------------------------------------------------
(* What a sync knows, and that nobody takes it away.                       *)

\* The cache of a ServiceRoute without undelivered changes is its content.
CacheIsCurrent == \A k \in Keys : ~ fooLag[k] => fooCache[k] = foo[k]

\* A sync tears down the route of its own record, and a fresh copy of its
\* ServiceRoute is the ServiceRoute.
Knows(w) ==
    /\ pc[w] \in TearDownLabels => job[w].doomed = rec[running[w]] /\ job[w].doomed # None
    /\ pc[w] \notin {"idle", "lookUp", "done"} /\ job[w].fresh => foo[running[w]] = job[w].foo

\* No object of this kind is left from the ServiceRoute that w syncs.
Gone(w, kind) ==
    \A r \in Routes : objs[kind][r] # None => objs[kind][r].from # running[w]

\* What else it knows while no call fails: where its record stands, and which
\* objects the teardown has behind it.
KnowsWhenCalm(w) ==
    /\ pc[w] \in {"caches", "decide"} => rec[running[w]] \in {None, job[w].foo.route}
    /\ pc[w] = "crRec" => rec[running[w]] = None
    /\ pc[w] \in CreateLabels \cup UpdateLabels => rec[running[w]] = job[w].foo.route
    /\ pc[w] \in TearDownLabels \ {"delEp"} => Gone(w, "ep")
    /\ pc[w] \in TearDownLabels \ {"delEp", "delSvc"} => Gone(w, "svc")
    /\ pc[w] \in TearDownLabels \ {"delEp", "delSvc", "delVS"} => Gone(w, "vs")
    /\ pc[w] \in {"delGwGet", "delGwPut", "delRec"} => Gone(w, "dr")

Knowledge ==
    /\ CacheIsCurrent
    /\ \A w \in Workers : Knows(w)
    /\ spent["faults"] = 0 => \A w \in Workers : KnowsWhenCalm(w)
    /\ NoOrphans

IInv == TypeOK /\ Structure /\ Knowledge

\* A step of w leaves the syncs of the others and what they know alone.
LeavesOthers(w) ==
    \A v \in Workers \ {w} :
        /\ pc'[v] = pc[v] /\ running'[v] = running[v]
        /\ job'[v].foo = job[v].foo /\ job'[v].doomed = job[v].doomed
        /\ job'[v].fresh = job[v].fresh
        /\ running[v] \in Keys => /\ rec'[running[v]] = rec[running[v]]
                                 /\ foo'[running[v]] = foo[running[v]]

\* It deletes objects, or makes some in the name of its own ServiceRoute.
LeavesObjects(w) ==
    \A x \in Kinds, r \in Routes :
        \/ objs'[x][r] \in {objs[x][r], None}
        \/ objs'[x][r].from = running[w]

LEMMA WorkerLeavesOthers ==
    ASSUME TypeOK, Structure, NEW w \in Workers, Step(w)
    PROVE  /\ LeavesOthers(w) /\ LeavesObjects(w)
           /\ spent'["faults"] = 0 => spent["faults"] = 0
           /\ running[w] \in Keys
<1>1. pc[w] # "idle"
    BY DEF Step, LookUp, TearDown, ReadCaches, Decide, Create, Refuse, Update, FinishSync,
           DeleteObject, GetGateway, PutGateway, DeleteRecord, CreateRecord, CreateObject,
           UpdateObject, PutObject, PutStatus
<1>2. running[w] \in Keys
    BY <1>1 DEF Structure, IdleIsFree, TypeOK
<1>3. \A v \in Workers \ {w} : running[v] \in Keys => running[v] # running[w]
    BY <1>2, RouteSyncAssumption DEF Structure, KeyInOneHand
<1>4. CASE LookUp(w)
    <2>1. /\ \A v \in Workers \ {w} : job'[v] = job[v] /\ pc'[v] = pc[v]
          /\ spent'["faults"] = 0 => spent["faults"] = 0
        BY <1>4, LookUpStep DEF Structure
    <2> QED BY <1>2, <1>4, <2>1 DEF LookUp, appVars, istioVars, workVars, LeavesOthers, LeavesObjects
<1>5. ASSUME NEW here, NEW kind \in Kinds, NEW next, DeleteObject(w, here, kind, next)
      PROVE  LeavesOthers(w) /\ LeavesObjects(w) /\ (spent'["faults"] = 0 => spent["faults"] = 0)
    <2>1. /\ \A x \in Kinds, r \in Routes : objs'[x][r] \in {objs[x][r], None}
          /\ spent'["faults"] = 0 => spent["faults"] = 0
        BY <1>5, DeleteObjectStep
    <2> QED BY <1>5, <2>1 DEF DeleteObject, Goto, TypeOK, appVars, workVars, LeavesOthers, LeavesObjects
<1>6. ASSUME NEW here, NEW found, NEW missing, GetGateway(w, here, found, missing)
      PROVE  LeavesOthers(w) /\ LeavesObjects(w) /\ (spent'["faults"] = 0 => spent["faults"] = 0)
    <2>1. /\ spent'["faults"] = 0 => spent["faults"] = 0
          /\ \A v \in Workers : /\ job'[v].foo = job[v].foo /\ job'[v].doomed = job[v].doomed
                               /\ job'[v].fresh = job[v].fresh
          /\ \/ pc' = [pc EXCEPT ![w] = found] \/ pc' = [pc EXCEPT ![w] = missing]
        BY <1>6, GetGatewayStep DEF Structure
    <2> QED BY <1>6, <2>1 DEF GetGateway, TypeOK, appVars, istioVars, workVars, LeavesOthers, LeavesObjects
<1>7. ASSUME NEW here, NEW next, NEW hosts, PutGateway(w, here, hosts, next),
             job[w].gwFresh => hosts \in SUBSET Routes
      PROVE  LeavesOthers(w) /\ LeavesObjects(w) /\ (spent'["faults"] = 0 => spent["faults"] = 0)
    <2>1. /\ spent'["faults"] = 0 => spent["faults"] = 0
          /\ \A v \in Workers : /\ job'[v].foo = job[v].foo /\ job'[v].doomed = job[v].doomed
                               /\ job'[v].fresh = job[v].fresh
          /\ pc' = [pc EXCEPT ![w] = next]
        BY <1>7, PutGatewayStep DEF Structure
    <2> QED BY <1>7, <2>1 DEF PutGateway, TypeOK, appVars, workVars, LeavesOthers, LeavesObjects
<1>8. CASE DeleteRecord(w) \/ CreateRecord(w)
    <2>1. /\ spent'["faults"] = 0 => spent["faults"] = 0
          /\ \A k \in Keys : k # running[w] => rec'[k] = rec[k]
        BY <1>2, <1>8, RecordStep DEF Structure
    <2> QED BY <1>2, <1>3, <1>8, <2>1 DEF DeleteRecord, CreateRecord, Goto, TypeOK, appVars, workVars, LeavesOthers,
               LeavesObjects
<1>9. CASE ReadCaches(w)
    <2>1. /\ \A v \in Workers : /\ job'[v].foo = job[v].foo /\ job'[v].doomed = job[v].doomed
                               /\ job'[v].fresh = job[v].fresh
          /\ \/ pc' = [pc EXCEPT ![w] = "done"] \/ pc' = [pc EXCEPT ![w] = "decide"]
        BY <1>2, <1>9, ReadCachesStep
    <2> QED BY <1>2, <1>9, <2>1 DEF ReadCaches, TypeOK, appVars, istioVars, workVars, LeavesOthers, LeavesObjects
<1>10. CASE Decide(w)
    <2>1. /\ spent'["faults"] = 0 => spent["faults"] = 0
          /\ \E next \in {"taken", "crRec", "upSvc"} : pc' = [pc EXCEPT ![w] = next]
        BY <1>10, DecideStep
    <2> QED BY <1>2, <1>10, <2>1 DEF Decide, TypeOK, appVars, istioVars, workVars, LeavesOthers, LeavesObjects
<1>11. ASSUME NEW here \in Serving, NEW kind \in Kinds, NEW applies, NEW next,
              PutObject(w, here, kind, applies, next)
       PROVE  LeavesOthers(w) /\ LeavesObjects(w) /\ (spent'["faults"] = 0 => spent["faults"] = 0)
    <2>1. job[w].foo.route \in Routes
        BY <1>11 DEF PutObject, Structure, HasRoute
    <2>2. /\ spent'["faults"] = 0 => spent["faults"] = 0
          /\ \A x \in Kinds, r \in Routes :
                objs'[x][r] = objs[x][r] \/ objs'[x][r].from = running[w]
        BY <1>2, <1>11, <2>1, PutObjectStep
    <2> QED BY <1>11, <2>2 DEF PutObject, Goto, TypeOK, appVars, workVars, LeavesOthers, LeavesObjects
<1>12. ASSUME NEW here \in Serving, NEW status \in Routes \cup {Taken}, PutStatus(w, here, status)
       PROVE  LeavesOthers(w) /\ LeavesObjects(w) /\ (spent'["faults"] = 0 => spent["faults"] = 0)
    <2>1. job[w].foo \in FooObjects
        BY <1>12 DEF PutStatus, Structure, HasRoute
    <2>2. /\ spent'["faults"] = 0 => spent["faults"] = 0
          /\ \A k \in Keys : k # running[w] => foo'[k] = foo[k]
        BY <1>2, <1>12, <2>1, PutStatusStep
    <2> QED BY <1>3, <1>12, <2>2 DEF PutStatus, Goto, TypeOK, istioVars, workVars, LeavesOthers, LeavesObjects
<1>13. CASE FinishSync(w)
    BY <1>2, <1>13 DEF FinishSync, Queue!Finish, Goto, TypeOK, appVars, istioVars, LeavesOthers, LeavesObjects
<1>14. CASE TearDown(w)
    <2>1. job[w].gwFresh => HostsWithout(w) \in SUBSET Routes
        BY DEF HostsWithout, Structure, FreshGatewayExists
    <2> QED BY <1>2, <1>5, <1>6, <1>7, <1>8, <1>14, <2>1 DEF TearDown, Kinds
<1>15. CASE Create(w)
    <2>1. pc[w] \in Serving
        BY <1>15 DEF Create, CreateRecord, CreateObject, PutObject, GetGateway, PutGateway,
              PutStatus, Serving, CreateLabels, UpdateLabels
    <2>2. job[w].foo.route \in Routes
        BY <2>1 DEF Structure, HasRoute
    <2>3. job[w].gwFresh => HostsWith(w) \in SUBSET Routes
        BY <2>2 DEF HostsWith, Structure, FreshGatewayExists
    <2>4. ASSUME NEW here \in {"crEp", "crSvc", "crVS", "crDR"}, NEW kind \in Kinds, NEW next,
                 CreateObject(w, here, kind, next)
          PROVE  LeavesOthers(w) /\ LeavesObjects(w) /\ (spent'["faults"] = 0 => spent["faults"] = 0)
        BY <1>11, <2>4 DEF CreateObject, Serving, CreateLabels
    <2>5. CASE PutStatus(w, "status", job[w].foo.route)
        BY <1>2, <1>12, <2>2, <2>5 DEF Serving, CreateLabels
    <2> QED BY <1>2, <1>6, <1>7, <1>8, <1>15, <2>3, <2>4, <2>5 DEF Create, Kinds
<1>16. CASE Refuse(w)
    BY <1>2, <1>12, <1>16 DEF Refuse, Serving
<1>17. CASE Update(w)
    BY <1>2, <1>11, <1>17 DEF Update, UpdateObject, Kinds, Serving, UpdateLabels
<1> QED BY <1>4, <1>9, <1>10, <1>13, <1>14, <1>15, <1>16, <1>17 DEF Step

LEMMA OthersKeepKnowing ==
    ASSUME TypeOK, Structure, Knowledge, NEW w \in Workers, LeavesOthers(w), LeavesObjects(w),
           running[w] \in Keys,
           spent'["faults"] = 0 => spent["faults"] = 0,
           NEW v \in Workers \ {w}
    PROVE  Knows(v)' /\ (spent'["faults"] = 0 => KnowsWhenCalm(v)')
<1>1. /\ pc'[v] = pc[v] /\ running'[v] = running[v]
      /\ job'[v].foo = job[v].foo /\ job'[v].doomed = job[v].doomed
      /\ job'[v].fresh = job[v].fresh
    BY DEF LeavesOthers
<1>2. CASE pc[v] = "idle"
    BY <1>1, <1>2 DEF Knows, KnowsWhenCalm, TearDownLabels, CreateLabels, UpdateLabels
<1>3. CASE pc[v] # "idle"
    <2>1. running[v] \in Keys
        BY <1>3 DEF Structure, IdleIsFree, TypeOK
    <2>2. running[v] # running[w]
        BY <2>1, RouteSyncAssumption DEF Structure, KeyInOneHand
    <2>3. rec'[running[v]] = rec[running[v]] /\ foo'[running[v]] = foo[running[v]]
        BY <2>1 DEF LeavesOthers
    <2>4. Knows(v)'
        BY <1>1, <2>3 DEF Knowledge, Knows
    <2>5. ASSUME NEW kind \in Kinds, Gone(v, kind)
          PROVE  Gone(v, kind)'
        BY <1>1, <2>2, <2>5 DEF LeavesObjects, Gone
    <2>6. ASSUME spent'["faults"] = 0
          PROVE  KnowsWhenCalm(v)'
        <3>1. KnowsWhenCalm(v)
            BY <2>6 DEF Knowledge
        <3> QED BY <1>1, <2>3, <2>5, <3>1 DEF KnowsWhenCalm, Kinds
    <2> QED BY <2>4, <2>6
<1> QED BY <1>2, <1>3

\* What is left of Knowledge when the other syncs are taken care of.
KeepsKnowing(w) ==
    /\ CacheIsCurrent' /\ Knows(w)' /\ NoOrphans'
    /\ (spent'["faults"] = 0 => KnowsWhenCalm(w)')

\* A step that changes only the Gateway, the queue and other locals of w.
LEMMA LocalStepKeepsRest ==
    ASSUME Knowledge, UNCHANGED <<foo, fooCache, fooLag, rec, objs>>,
           spent'["faults"] = 0 => spent["faults"] = 0
    PROVE  CacheIsCurrent' /\ NoOrphans'
BY DEF Knowledge, CacheIsCurrent, NoOrphans

LEMMA LookUpKeepsKnowing ==
    ASSUME TypeOK, Structure, Knowledge, NEW w \in Workers, running[w] \in Keys, LookUp(w)
    PROVE  KeepsKnowing(w)
<1>1. /\ job'[w].foo = fooCache[running[w]] /\ job'[w].fresh = ~ fooLag[running[w]]
      /\ pc'[w] = IF job'[w].doomed # None THEN "delEp" ELSE "caches"
      /\ job'[w].doomed \in {rec[running[w]], None}
      /\ \/ spent'["faults"] # 0
         \/ job'[w].doomed = IF fooCache[running[w]] = None
                                \/ fooCache[running[w]].route # rec[running[w]]
                             THEN rec[running[w]] ELSE None
      /\ spent'["faults"] = 0 => spent["faults"] = 0
    BY LookUpStep DEF Structure, TypeOK
<1>2. UNCHANGED <<foo, fooCache, fooLag, rec, objs, running>>
    BY DEF LookUp, appVars, istioVars, workVars
<1>3. Knows(w)'
    <2>1. pc'[w] \in TearDownLabels => job'[w].doomed = rec'[running'[w]] /\ job'[w].doomed # None
        BY <1>1, <1>2 DEF TearDownLabels
    <2>2. job'[w].fresh => foo'[running'[w]] = job'[w].foo
        BY <1>1, <1>2 DEF Knowledge, CacheIsCurrent
    <2> QED BY <2>1, <2>2 DEF Knows
<1>4. spent'["faults"] = 0 => KnowsWhenCalm(w)'
    BY <1>1, <1>2 DEF KnowsWhenCalm, TearDownLabels, CreateLabels, UpdateLabels
<1>5. CacheIsCurrent' /\ NoOrphans'
    BY <1>1, <1>2, LocalStepKeepsRest
<1> QED BY <1>3, <1>4, <1>5 DEF KeepsKnowing

LEMMA DeletionKeepsKnowing ==
    ASSUME TypeOK, Structure, Knowledge, NEW w \in Workers, running[w] \in Keys,
           NEW here \in TearDownLabels, NEW kind \in Kinds, NEW next \in TearDownLabels,
           DeleteObject(w, here, kind, next)
    PROVE  /\ CacheIsCurrent' /\ Knows(w)' /\ NoOrphans'
           /\ (spent'["faults"] = 0 => Gone(w, kind)' /\ KnowsWhenCalm(w))
           /\ \A x \in Kinds : Gone(w, x) => Gone(w, x)'
           /\ pc[w] = here /\ pc'[w] = next
<1>1. /\ \A x \in Kinds, r \in Routes : objs'[x][r] \in {objs[x][r], None}
      /\ (spent'["faults"] = 0 /\ job[w].doomed \in Routes => objs'[kind][job[w].doomed] = None)
      /\ (spent'["faults"] = 0 => spent["faults"] = 0)
    BY DeleteObjectStep
<1>2. /\ UNCHANGED <<foo, fooCache, fooLag, rec, running, job>>
      /\ pc[w] = here /\ pc'[w] = next
    BY DEF DeleteObject, Goto, appVars, workVars, TypeOK
<1>3. Knows(w)
    BY DEF Knowledge
<1>4. job[w].doomed = rec[running[w]] /\ job[w].doomed # None
    BY <1>2, <1>3 DEF Knows
<1>5. job[w].doomed \in Routes
    BY <1>4 DEF TypeOK
<1>6. ASSUME spent'["faults"] = 0
      PROVE  Gone(w, kind)'
    <2>1. \A r \in Routes : objs[kind][r] # None => rec[objs[kind][r].from] = r
        BY <1>1, <1>6 DEF Knowledge, NoOrphans
    <2>2. objs'[kind][job[w].doomed] = None
        BY <1>1, <1>5, <1>6
    <2>3. \A r \in Routes : objs'[kind][r] # None => objs'[kind][r].from # running[w]
        BY <1>1, <1>4, <2>1, <2>2
    <2> QED BY <1>2, <2>3 DEF Gone
<1>7. \A x \in Kinds : Gone(w, x) => Gone(w, x)'
    BY <1>1, <1>2 DEF Gone
<1>8. Knows(w)'
    BY <1>2, <1>3 DEF Knows, TearDownLabels
<1>9. NoOrphans'
    BY <1>1, <1>2 DEF Knowledge, NoOrphans
<1>10. CacheIsCurrent'
    BY <1>2 DEF Knowledge, CacheIsCurrent
<1>11. spent'["faults"] = 0 => KnowsWhenCalm(w)
    BY <1>1 DEF Knowledge
<1> QED BY <1>2, <1>6, <1>7, <1>8, <1>9, <1>10, <1>11

LEMMA RecordDeletionKeepsKnowing ==
    ASSUME TypeOK, Structure, Knowledge, NEW w \in Workers, running[w] \in Keys, DeleteRecord(w)
    PROVE  KeepsKnowing(w)
<1>1. /\ \A j \in Keys : j # running[w] => rec'[j] = rec[j]
      /\ (spent'["faults"] = 0 => rec'[running[w]] = None /\ spent["faults"] = 0)
    BY RecordStep DEF Structure
<1>2. /\ UNCHANGED <<foo, fooCache, fooLag, objs, running, job>>
      /\ pc[w] = "delRec" /\ pc'[w] = "caches"
    BY DEF DeleteRecord, Goto, appVars, workVars, TypeOK
<1>3. Knows(w) /\ (spent'["faults"] = 0 => KnowsWhenCalm(w))
    BY <1>1 DEF Knowledge
<1>4. Knows(w)'
    BY <1>2, <1>3 DEF Knows, TearDownLabels
<1>5. spent'["faults"] = 0 => KnowsWhenCalm(w)'
    BY <1>1, <1>2 DEF KnowsWhenCalm, TearDownLabels, CreateLabels, UpdateLabels
<1>6. ASSUME spent'["faults"] = 0, NEW kind \in Kinds, NEW r \in Routes, objs[kind][r] # None
      PROVE  rec'[objs[kind][r].from] = r
    <2>1. rec[objs[kind][r].from] = r
        BY <1>1, <1>6 DEF Knowledge, NoOrphans
    <2>2. Gone(w, "ep") /\ Gone(w, "svc") /\ Gone(w, "vs") /\ Gone(w, "dr")
        BY <1>2, <1>3, <1>6 DEF KnowsWhenCalm, TearDownLabels
    <2>3. objs[kind][r].from # running[w]
        BY <1>6, <2>2 DEF Gone, Kinds
    <2>4. objs[kind][r].from \in Keys
        BY <1>6 DEF TypeOK, IstioObjects
    <2> QED BY <1>1, <2>1, <2>3, <2>4
<1>7. NoOrphans'
    BY <1>2, <1>6 DEF NoOrphans
<1>8. CacheIsCurrent'
    BY <1>2 DEF Knowledge, CacheIsCurrent
<1> QED BY <1>4, <1>5, <1>7, <1>8 DEF KeepsKnowing

LEMMA TearDownKeepsKnowing ==
    ASSUME TypeOK, Structure, Knowledge, NEW w \in Workers, running[w] \in Keys, TearDown(w)
    PROVE  KeepsKnowing(w)
<1>1. CASE DeleteObject(w, "delEp", "ep", "delSvc")
    <2>1. /\ CacheIsCurrent' /\ Knows(w)' /\ NoOrphans'
          /\ (spent'["faults"] = 0 => Gone(w, "ep")')
          /\ pc'[w] = "delSvc"
        BY <1>1, DeletionKeepsKnowing DEF TearDownLabels, Kinds
    <2> QED BY <2>1 DEF KeepsKnowing, KnowsWhenCalm, TearDownLabels, CreateLabels, UpdateLabels
<1>2. CASE DeleteObject(w, "delSvc", "svc", "delVS")
    <2>1. /\ CacheIsCurrent' /\ Knows(w)' /\ NoOrphans'
          /\ (spent'["faults"] = 0 => Gone(w, "svc")' /\ KnowsWhenCalm(w))
          /\ (Gone(w, "ep") => Gone(w, "ep")')
          /\ pc[w] = "delSvc" /\ pc'[w] = "delVS"
        BY <1>2, DeletionKeepsKnowing DEF TearDownLabels, Kinds
    <2> QED BY <2>1 DEF KeepsKnowing, KnowsWhenCalm, TearDownLabels, CreateLabels, UpdateLabels
<1>3. CASE DeleteObject(w, "delVS", "vs", "delDR")
    <2>1. /\ CacheIsCurrent' /\ Knows(w)' /\ NoOrphans'
          /\ (spent'["faults"] = 0 => Gone(w, "vs")' /\ KnowsWhenCalm(w))
          /\ (Gone(w, "ep") => Gone(w, "ep")') /\ (Gone(w, "svc") => Gone(w, "svc")')
          /\ pc[w] = "delVS" /\ pc'[w] = "delDR"
        BY <1>3, DeletionKeepsKnowing DEF TearDownLabels, Kinds
    <2> QED BY <2>1 DEF KeepsKnowing, KnowsWhenCalm, TearDownLabels, CreateLabels, UpdateLabels
<1>4. CASE DeleteObject(w, "delDR", "dr", "delGwGet")
    <2>1. /\ CacheIsCurrent' /\ Knows(w)' /\ NoOrphans'
          /\ (spent'["faults"] = 0 => Gone(w, "dr")' /\ KnowsWhenCalm(w))
          /\ (Gone(w, "ep") => Gone(w, "ep")') /\ (Gone(w, "svc") => Gone(w, "svc")')
          /\ (Gone(w, "vs") => Gone(w, "vs")')
          /\ pc[w] = "delDR" /\ pc'[w] = "delGwGet"
        BY <1>4, DeletionKeepsKnowing DEF TearDownLabels, Kinds
    <2> QED BY <2>1 DEF KeepsKnowing, KnowsWhenCalm, TearDownLabels, CreateLabels, UpdateLabels
<1>5. ASSUME UNCHANGED <<foo, fooCache, fooLag, rec, objs, running>>,
             job'[w].foo = job[w].foo, job'[w].doomed = job[w].doomed,
             job'[w].fresh = job[w].fresh,
             spent'["faults"] = 0 => spent["faults"] = 0,
             \/ pc[w] = "delGwGet" /\ pc'[w] \in {"delGwPut", "delRec"}
             \/ pc[w] = "delGwPut" /\ pc'[w] = "delRec"
      PROVE  KeepsKnowing(w)
    <2>1. Knows(w) /\ (spent'["faults"] = 0 => KnowsWhenCalm(w))
        BY <1>5 DEF Knowledge
    <2>2. Knows(w)'
        BY <1>5, <2>1 DEF Knows, TearDownLabels
    <2>3. \A x \in Kinds : Gone(w, x) => Gone(w, x)'
        BY <1>5 DEF Gone
    <2>4. spent'["faults"] = 0 => KnowsWhenCalm(w)'
        BY <1>5, <2>1, <2>3 DEF KnowsWhenCalm, TearDownLabels, CreateLabels, UpdateLabels, Kinds
    <2>5. CacheIsCurrent' /\ NoOrphans'
        BY <1>5, LocalStepKeepsRest
    <2> QED BY <2>2, <2>4, <2>5 DEF KeepsKnowing
<1>6. CASE GetGateway(w, "delGwGet", "delGwPut", "delRec")
    <2>1. /\ job'[w].foo = job[w].foo /\ job'[w].doomed = job[w].doomed
          /\ job'[w].fresh = job[w].fresh
          /\ (spent'["faults"] = 0 => spent["faults"] = 0)
          /\ pc[w] = "delGwGet"
          /\ pc' = [pc EXCEPT ![w] = "delGwPut"] \/ pc' = [pc EXCEPT ![w] = "delRec"]
        BY <1>6, GetGatewayStep DEF Structure
    <2>2. pc'[w] \in {"delGwPut", "delRec"}
        BY <2>1 DEF TypeOK
    <2>3. UNCHANGED <<foo, fooCache, fooLag, rec, objs, running>>
        BY <1>6 DEF GetGateway, appVars, istioVars, workVars
    <2> QED BY <1>5, <2>1, <2>2, <2>3
<1>7. CASE PutGateway(w, "delGwPut", HostsWithout(w), "delRec")
    <2>1. job[w].gwFresh => HostsWithout(w) \in SUBSET Routes
        BY DEF HostsWithout, Structure, FreshGatewayExists
    <2>2. /\ job'[w].foo = job[w].foo /\ job'[w].doomed = job[w].doomed
          /\ job'[w].fresh = job[w].fresh
          /\ (spent'["faults"] = 0 => spent["faults"] = 0)
          /\ pc[w] = "delGwPut" /\ pc' = [pc EXCEPT ![w] = "delRec"]
        BY <1>7, <2>1, PutGatewayStep DEF Structure
    <2>3. pc'[w] = "delRec"
        BY <2>2 DEF TypeOK
    <2>4. UNCHANGED <<foo, fooCache, fooLag, rec, objs, running>>
        BY <1>7 DEF PutGateway, appVars, workVars
    <2> QED BY <1>5, <2>2, <2>3, <2>4
<1>8. CASE DeleteRecord(w)
    BY <1>8, RecordDeletionKeepsKnowing
<1> QED BY <1>1, <1>2, <1>3, <1>4, <1>6, <1>7, <1>8 DEF TearDown

\* Between reading the caches and the end a sync keeps what it knows of its
\* record as long as it only changes its own locals, its queue or its Gateway.
LEMMA ServingStepKeepsKnowing ==
    ASSUME TypeOK, Structure, Knowledge, NEW w \in Workers,
           UNCHANGED <<foo, fooCache, fooLag, rec, running>>,
           job'[w].foo = job[w].foo, job'[w].fresh = job[w].fresh,
           pc[w] \in CreateLabels \cup UpdateLabels,
           pc[w] # "crRec",
           pc'[w] \in (CreateLabels \ {"crRec"}) \cup UpdateLabels \cup {"done"},
           spent'["faults"] = 0 => spent["faults"] = 0
    PROVE  /\ CacheIsCurrent' /\ Knows(w)'
           /\ (spent'["faults"] = 0 => KnowsWhenCalm(w)')
<1>1. Knows(w) /\ (spent'["faults"] = 0 => KnowsWhenCalm(w))
    BY DEF Knowledge
<1>2. Knows(w)'
    BY <1>1 DEF Knows, TearDownLabels, CreateLabels, UpdateLabels
<1>3. spent'["faults"] = 0 => KnowsWhenCalm(w)'
    BY <1>1 DEF KnowsWhenCalm, TearDownLabels, CreateLabels, UpdateLabels
<1>4. CacheIsCurrent'
    BY DEF Knowledge, CacheIsCurrent
<1> QED BY <1>2, <1>3, <1>4

LEMMA ObjectWriteKeepsKnowing ==
    ASSUME TypeOK, Structure, Knowledge, NEW w \in Workers, running[w] \in Keys,
           NEW kind \in Kinds, NEW applies,
           NEW here \in (CreateLabels \ {"crRec"}) \cup UpdateLabels,
           NEW next \in (CreateLabels \ {"crRec"}) \cup UpdateLabels \cup {"done"},
           PutObject(w, here, kind, applies, next)
    PROVE  KeepsKnowing(w)
<1>1. /\ UNCHANGED <<foo, fooCache, fooLag, rec, running, job>>
      /\ pc[w] = here /\ pc'[w] = next
    BY DEF PutObject, Goto, appVars, workVars, TypeOK
<1>2. job[w].foo.route \in Routes
    BY <1>1 DEF Structure, HasRoute, Serving
<1>3. /\ (spent'["faults"] = 0 => spent["faults"] = 0)
      /\ \A x \in Kinds, r \in Routes :
            \/ objs'[x][r] = objs[x][r]
            \/ r = job[w].foo.route /\ objs'[x][r].from = running[w]
    BY <1>2, PutObjectStep
<1>4. /\ CacheIsCurrent' /\ Knows(w)'
      /\ (spent'["faults"] = 0 => KnowsWhenCalm(w)')
    BY <1>1, <1>3, ServingStepKeepsKnowing DEF CreateLabels, UpdateLabels
<1>5. ASSUME spent'["faults"] = 0, NEW x \in Kinds, NEW r \in Routes, objs'[x][r] # None
      PROVE  rec'[objs'[x][r].from] = r
    <2>1. CASE objs'[x][r] = objs[x][r]
        BY <1>1, <1>3, <1>5, <2>1 DEF Knowledge, NoOrphans
    <2>2. CASE r = job[w].foo.route /\ objs'[x][r].from = running[w]
        <3>1. KnowsWhenCalm(w)
            BY <1>3, <1>5 DEF Knowledge
        <3>2. rec[running[w]] = job[w].foo.route
            BY <1>1, <3>1 DEF KnowsWhenCalm
        <3> QED BY <1>1, <2>2, <3>2
    <2> QED BY <1>3, <2>1, <2>2
<1>6. NoOrphans'
    BY <1>5 DEF NoOrphans
<1> QED BY <1>4, <1>6 DEF KeepsKnowing

LEMMA RecordCreationKeepsKnowing ==
    ASSUME TypeOK, Structure, Knowledge, NEW w \in Workers, running[w] \in Keys, CreateRecord(w)
    PROVE  KeepsKnowing(w)
<1>1. /\ \A j \in Keys : j # running[w] => rec'[j] = rec[j]
      /\ (spent'["faults"] = 0 => spent["faults"] = 0)
      /\ (spent'["faults"] = 0 /\ rec[running[w]] = None
             => rec'[running[w]] = job[w].foo.route)
    BY RecordStep DEF Structure
<1>2. /\ UNCHANGED <<foo, fooCache, fooLag, objs, running, job>>
      /\ pc[w] = "crRec" /\ pc'[w] = "crEp"
    BY DEF CreateRecord, Goto, appVars, workVars, TypeOK
<1>3. Knows(w) /\ (spent'["faults"] = 0 => KnowsWhenCalm(w))
    BY <1>1 DEF Knowledge
<1>4. spent'["faults"] = 0 => rec[running[w]] = None
    BY <1>2, <1>3 DEF KnowsWhenCalm
<1>5. Knows(w)'
    BY <1>2, <1>3 DEF Knows, TearDownLabels
<1>6. spent'["faults"] = 0 => KnowsWhenCalm(w)'
    BY <1>1, <1>2, <1>4 DEF KnowsWhenCalm, TearDownLabels, CreateLabels, UpdateLabels
<1>7. ASSUME spent'["faults"] = 0, NEW kind \in Kinds, NEW r \in Routes, objs[kind][r] # None
      PROVE  rec'[objs[kind][r].from] = r
    <2>1. rec[objs[kind][r].from] = r
        BY <1>1, <1>7 DEF Knowledge, NoOrphans
    <2>2. objs[kind][r].from # running[w]
        BY <1>4, <1>7, <2>1, RouteSyncAssumption
    <2>3. objs[kind][r].from \in Keys
        BY <1>7 DEF TypeOK, IstioObjects
    <2> QED BY <1>1, <2>1, <2>2, <2>3
<1>8. NoOrphans'
    BY <1>2, <1>7 DEF NoOrphans
<1>9. CacheIsCurrent'
    BY <1>2 DEF Knowledge, CacheIsCurrent
<1> QED BY <1>5, <1>6, <1>8, <1>9 DEF KeepsKnowing

LEMMA StatusKeepsKnowing ==
    ASSUME TypeOK, Structure, Knowledge, NEW w \in Workers, running[w] \in Keys,
           NEW here \in Serving, NEW status \in Routes \cup {Taken}, PutStatus(w, here, status)
    PROVE  KeepsKnowing(w)
<1>1. /\ UNCHANGED <<fooCache, rec, objs, running, job>>
      /\ pc[w] = here /\ pc'[w] = "done"
    BY DEF PutStatus, Goto, istioVars, workVars, TypeOK
<1>2. job[w].foo \in FooObjects
    BY <1>1 DEF Structure, HasRoute
<1>3. /\ (spent'["faults"] = 0 => spent["faults"] = 0)
      /\ \A k \in Keys : ~ fooLag'[k] => ~ fooLag[k] /\ foo'[k] = foo[k]
    BY <1>2, PutStatusStep
<1>4. Knows(w)' /\ KnowsWhenCalm(w)'
    BY <1>1 DEF Knows, KnowsWhenCalm, TearDownLabels, CreateLabels, UpdateLabels
<1>5. CacheIsCurrent' /\ NoOrphans'
    BY <1>1, <1>3 DEF Knowledge, CacheIsCurrent, NoOrphans
<1> QED BY <1>4, <1>5 DEF KeepsKnowing

LEMMA CreateKeepsKnowing ==
    ASSUME TypeOK, Structure, Knowledge, NEW w \in Workers, running[w] \in Keys, Create(w)
    PROVE  KeepsKnowing(w)
<1>1. pc[w] \in Serving
    BY DEF Create, CreateRecord, CreateObject, PutObject, GetGateway, PutGateway, PutStatus,
           Serving, CreateLabels, UpdateLabels
<1>2. job[w].foo.route \in Routes
    BY <1>1 DEF Structure, HasRoute
<1>3. CASE CreateRecord(w)
    BY <1>3, RecordCreationKeepsKnowing
<1>4. ASSUME NEW here \in {"crEp", "crSvc", "crVS", "crDR"}, NEW kind \in Kinds,
             NEW next \in {"crSvc", "crVS", "crDR", "crGwGet"}, CreateObject(w, here, kind, next)
      PROVE  KeepsKnowing(w)
    BY <1>4, ObjectWriteKeepsKnowing DEF CreateObject, CreateLabels
<1>5. CASE GetGateway(w, "crGwGet", "crGwPut", "done")
    <2>1. /\ job'[w].foo = job[w].foo /\ job'[w].fresh = job[w].fresh
          /\ (spent'["faults"] = 0 => spent["faults"] = 0)
          /\ pc[w] = "crGwGet"
          /\ pc' = [pc EXCEPT ![w] = "crGwPut"] \/ pc' = [pc EXCEPT ![w] = "done"]
        BY <1>5, GetGatewayStep DEF Structure
    <2>2. pc'[w] \in {"crGwPut", "done"}
        BY <2>1 DEF TypeOK
    <2>3. UNCHANGED <<foo, fooCache, fooLag, rec, objs, running>>
        BY <1>5 DEF GetGateway, appVars, istioVars, workVars
    <2>4. CacheIsCurrent' /\ NoOrphans'
        BY <2>1, <2>3, LocalStepKeepsRest
    <2> QED BY <2>1, <2>2, <2>3, <2>4, ServingStepKeepsKnowing DEF CreateLabels, KeepsKnowing
<1>6. CASE PutGateway(w, "crGwPut", HostsWith(w), "status")
    <2>1. job[w].gwFresh => HostsWith(w) \in SUBSET Routes
        BY <1>2 DEF HostsWith, Structure, FreshGatewayExists
    <2>2. /\ job'[w].foo = job[w].foo /\ job'[w].fresh = job[w].fresh
          /\ (spent'["faults"] = 0 => spent["faults"] = 0)
          /\ pc[w] = "crGwPut" /\ pc' = [pc EXCEPT ![w] = "status"]
        BY <1>6, <2>1, PutGatewayStep DEF Structure
    <2>3. pc'[w] = "status"
        BY <2>2 DEF TypeOK
    <2>4. UNCHANGED <<foo, fooCache, fooLag, rec, objs, running>>
        BY <1>6 DEF PutGateway, appVars, workVars
    <2>5. CacheIsCurrent' /\ NoOrphans'
        BY <2>2, <2>4, LocalStepKeepsRest
    <2> QED BY <2>2, <2>3, <2>4, <2>5, ServingStepKeepsKnowing DEF CreateLabels, KeepsKnowing
<1>7. CASE PutStatus(w, "status", job[w].foo.route)
    BY <1>2, <1>7, StatusKeepsKnowing DEF Serving, CreateLabels
<1> QED BY <1>3, <1>4, <1>5, <1>6, <1>7 DEF Create, Kinds

LEMMA WorkerKeepsKnowledge ==
    ASSUME TypeOK, Structure, Knowledge, NEW w \in Workers, Step(w)
    PROVE  Knowledge'
<1>1. /\ LeavesOthers(w) /\ LeavesObjects(w) /\ running[w] \in Keys
      /\ (spent'["faults"] = 0 => spent["faults"] = 0)
    BY WorkerLeavesOthers
<1>2. SUFFICES KeepsKnowing(w)
    BY <1>1, <1>2, OthersKeepKnowing DEF Knowledge, KeepsKnowing
<1>3. Knows(w) /\ (spent'["faults"] = 0 => KnowsWhenCalm(w))
    BY <1>1 DEF Knowledge
<1>4. CASE ReadCaches(w)
    <2>1. /\ job'[w].foo = job[w].foo /\ job'[w].fresh = job[w].fresh
          /\ pc[w] = "caches"
          /\ \/ pc' = [pc EXCEPT ![w] = "done"] \/ pc' = [pc EXCEPT ![w] = "decide"]
        BY <1>1, <1>4, ReadCachesStep
    <2>2. pc'[w] \in {"decide", "done"}
        BY <2>1 DEF TypeOK
    <2>3. UNCHANGED <<foo, fooCache, fooLag, rec, objs, running>>
        BY <1>4 DEF ReadCaches, appVars, istioVars, workVars
    <2>4. Knows(w)' /\ (spent'["faults"] = 0 => KnowsWhenCalm(w)')
        BY <1>3, <2>1, <2>2, <2>3 DEF Knows, KnowsWhenCalm, TearDownLabels, CreateLabels, UpdateLabels
    <2> QED BY <1>1, <2>3, <2>4, LocalStepKeepsRest DEF KeepsKnowing
<1>5. CASE Decide(w)
    <2>1. /\ pc[w] = "decide"
          /\ \/ pc'[w] = "taken"
             \/ pc'[w] = "crRec" /\ rec[running[w]] = None
             \/ pc'[w] = "upSvc" /\ (spent'["faults"] # 0 \/ rec[running[w]] # None)
        BY <1>5, DecideStep DEF TypeOK
    <2>2. UNCHANGED <<foo, fooCache, fooLag, rec, objs, running, job>>
        BY <1>5 DEF Decide, appVars, istioVars, workVars
    <2>3. Knows(w)'
        BY <1>3, <2>1, <2>2 DEF Knows, TearDownLabels
    <2>4. spent'["faults"] = 0 => KnowsWhenCalm(w)'
        BY <1>3, <2>1, <2>2 DEF KnowsWhenCalm, TearDownLabels, CreateLabels, UpdateLabels
    <2> QED BY <1>1, <2>2, <2>3, <2>4, LocalStepKeepsRest DEF KeepsKnowing
<1>6. CASE Update(w)
    BY <1>1, <1>6, ObjectWriteKeepsKnowing DEF Update, UpdateObject, UpdateLabels, Kinds
<1>7. CASE FinishSync(w)
    <2>1. /\ UNCHANGED <<foo, fooCache, fooLag, rec, objs>>
          /\ pc'[w] = "idle"
        BY <1>7 DEF FinishSync, Goto, appVars, istioVars, TypeOK
    <2>2. Knows(w)' /\ KnowsWhenCalm(w)'
        BY <2>1 DEF Knows, KnowsWhenCalm, TearDownLabels, CreateLabels, UpdateLabels
    <2> QED BY <1>1, <2>1, <2>2, LocalStepKeepsRest DEF KeepsKnowing
<1>8. CASE LookUp(w)
    BY <1>1, <1>8, LookUpKeepsKnowing
<1>9. CASE TearDown(w)
    BY <1>1, <1>9, TearDownKeepsKnowing
<1>10. CASE Create(w)
    BY <1>1, <1>10, CreateKeepsKnowing
<1>11. CASE Refuse(w)
    BY <1>1, <1>11, StatusKeepsKnowing DEF Refuse, Serving
<1> QED BY <1>4, <1>5, <1>6, <1>7, <1>8, <1>9, <1>10, <1>11 DEF Step

\* What the surroundings of the syncs leave alone: a copy of a ServiceRoute
\* that somebody changes is no longer fresh.
LeavesSyncs ==
    /\ UNCHANGED <<rec, objs, running, pc>>
    /\ \A w \in Workers :
          /\ job'[w].foo = job[w].foo /\ job'[w].doomed = job[w].doomed
          /\ (running[w] \in Keys /\ job'[w].fresh
                 => job[w].fresh /\ foo'[running[w]] = foo[running[w]])
    /\ (spent'["faults"] = 0 => spent["faults"] = 0)

LEMMA EnvironmentLeavesSyncs ==
    ASSUME TypeOK, Environment
    PROVE  LeavesSyncs
<1>1. ASSUME NEW k \in Keys, NEW new, ChangeFoo(k, new), spent'["faults"] = spent["faults"]
      PROVE  LeavesSyncs
    <2>1. \A w \in Workers :
             IF running[w] = k THEN job'[w] = [job[w] EXCEPT !.fresh = FALSE]
                               ELSE job'[w] = job[w]
        BY <1>1 DEF ChangeFoo
    <2>2. \A w \in Workers : job[w] \in Jobs
        BY DEF TypeOK
    <2>3. \A w \in Workers : /\ job'[w].foo = job[w].foo /\ job'[w].doomed = job[w].doomed
                             /\ (job'[w].fresh => running[w] # k /\ job[w].fresh)
        BY <2>1, <2>2 DEF Jobs
    <2>4. \A j \in Keys : j # k => foo'[j] = foo[j]
        BY <1>1 DEF ChangeFoo, TypeOK
    <2> QED BY <1>1, <2>3, <2>4 DEF ChangeFoo, istioVars, workVars, LeavesSyncs
<1>2. ASSUME NEW k \in Keys, NEW r, UserCreates(k, r) \/ UserEdits(k, r) \/ UserDeletes(k)
      PROVE  LeavesSyncs
    <2>1. spent'["faults"] = spent["faults"]
        BY <1>2, SpendAdds DEF UserCreates, UserEdits, UserDeletes, Bounded, TypeOK
    <2> QED BY <1>1, <1>2, <2>1 DEF UserCreates, UserEdits, UserDeletes
<1>3. ASSUME NEW k \in Keys, NEW c, EndpointsChange(k, c) \/ ServiceChanges(k, c)
      PROVE  LeavesSyncs
    <2>1. spent'["faults"] = spent["faults"]
        BY <1>3, SpendAdds DEF EndpointsChange, ServiceChanges, Bounded, TypeOK
    <2> QED BY <1>3, <2>1 DEF EndpointsChange, ServiceChanges, istioVars, workVars, LeavesSyncs
<1>4. ASSUME NEW new, GatewayChanges(new)
      PROVE  LeavesSyncs
    <2>1. spent'["faults"] = spent["faults"]
        BY <1>4, SpendAdds DEF GatewayChanges, Bounded, TypeOK
    <2>2. \A w \in Workers : /\ job'[w].foo = job[w].foo /\ job'[w].doomed = job[w].doomed
                             /\ job'[w].fresh = job[w].fresh
        BY <1>4 DEF GatewayChanges, GatewayStale, Jobs, TypeOK
    <2> QED BY <1>4, <2>1, <2>2 DEF GatewayChanges, appVars, workVars, LeavesSyncs
<1> QED BY <1>2, <1>3, <1>4 DEF Environment

LEMMA EnvironmentKeepsCaches ==
    ASSUME TypeOK, Knowledge, Environment
    PROVE  CacheIsCurrent'
<1>1. ASSUME NEW k \in Keys, NEW new, ChangeFoo(k, new)
      PROVE  CacheIsCurrent'
    <2>1. /\ fooCache' = fooCache /\ fooLag'[k]
          /\ \A j \in Keys : j # k => foo'[j] = foo[j] /\ fooLag'[j] = fooLag[j]
        BY <1>1 DEF ChangeFoo, TypeOK
    <2> QED BY <2>1 DEF Knowledge, CacheIsCurrent
<1>2. CASE UNCHANGED <<foo, fooCache, fooLag>>
    BY <1>2 DEF Knowledge, CacheIsCurrent
<1> QED BY <1>1, <1>2 DEF Environment, UserCreates, UserEdits, UserDeletes, EndpointsChange,
           ServiceChanges, GatewayChanges, appVars

LEMMA InformersLeaveSyncs ==
    ASSUME TypeOK, Knowledge, Informers
    PROVE  LeavesSyncs /\ CacheIsCurrent'
<1>1. ASSUME NEW k \in Keys,
             FooEvent(k) \/ FooTombstone(k) \/ Resync(k) \/ EndpointsEvent(k) \/ ServiceEvent(k)
      PROVE  LeavesSyncs /\ CacheIsCurrent'
    <2>1. UNCHANGED <<foo, rec, objs, running, pc, job>>
        BY <1>1 DEF FooEvent, FooTombstone, Resync, EndpointsEvent, ServiceEvent, Enqueue,
              HandleObject, Queue!Request, appVars, istioVars, workVars
    <2>2. spent'["faults"] = 0 => spent["faults"] = 0
        BY <1>1, SpendAdds DEF FooEvent, FooTombstone, CallFails, Resync, EndpointsEvent,
              ServiceEvent, Bounded, TypeOK
    <2>3. \/ UNCHANGED <<fooCache, fooLag>>
          \/ /\ fooCache' = [fooCache EXCEPT ![k] = foo[k]]
             /\ fooLag' = [fooLag EXCEPT ![k] = FALSE]
        BY <1>1 DEF FooEvent, FooTombstone, Resync, EndpointsEvent, ServiceEvent, appVars
    <2>4. CacheIsCurrent'
        BY <2>1, <2>3 DEF Knowledge, CacheIsCurrent, TypeOK
    <2>5. LeavesSyncs
        BY <2>1, <2>2 DEF LeavesSyncs
    <2> QED BY <2>4, <2>5
<1> QED BY <1>1 DEF Informers

LEMMA EnvironmentKeepsKnowledge ==
    ASSUME TypeOK, Structure, Knowledge, Environment \/ Informers
    PROVE  Knowledge'
<1>1. LeavesSyncs /\ CacheIsCurrent'
    BY EnvironmentLeavesSyncs, EnvironmentKeepsCaches, InformersLeaveSyncs
<1>2. ASSUME NEW w \in Workers
      PROVE  Knows(w)' /\ (spent'["faults"] = 0 => KnowsWhenCalm(w)')
    <2>1. Knows(w) /\ (spent'["faults"] = 0 => KnowsWhenCalm(w))
        BY <1>1 DEF Knowledge, LeavesSyncs
    <2>2. \A x \in Kinds : Gone(w, x) => Gone(w, x)'
        BY <1>1 DEF Gone, LeavesSyncs
    <2>3. pc[w] # "idle" => running[w] \in Keys
        BY DEF Structure, IdleIsFree, TypeOK
    <2>4. Knows(w)'
        BY <1>1, <2>1, <2>3 DEF Knows, LeavesSyncs
    <2>5. spent'["faults"] = 0 => KnowsWhenCalm(w)'
        BY <1>1, <2>1, <2>2 DEF KnowsWhenCalm, Kinds, LeavesSyncs
    <2> QED BY <2>4, <2>5
<1>3. NoOrphans'
    BY <1>1 DEF Knowledge, NoOrphans, LeavesSyncs
<1> QED BY <1>1, <1>2, <1>3 DEF Knowledge

LEMMA StartKeepsKnowledge ==
    ASSUME TypeOK, Structure, Knowledge, NEW w \in Workers, NEW k \in Keys, StartSync(w, k)
    PROVE  Knowledge'
<1>1. /\ running' = [running EXCEPT ![w] = k] /\ pc' = [pc EXCEPT ![w] = "lookUp"]
      /\ UNCHANGED <<foo, fooCache, fooLag, rec, objs, job, spent>>
    BY DEF StartSync, Queue!Start, Goto, appVars, istioVars
<1>2. ASSUME NEW v \in Workers
      PROVE  Knows(v)' /\ (spent'["faults"] = 0 => KnowsWhenCalm(v)')
    <2>1. CASE v = w
        <3>1. pc'[v] = "lookUp"
            BY <1>1, <2>1 DEF TypeOK
        <3> QED BY <3>1 DEF Knows, KnowsWhenCalm, TearDownLabels, CreateLabels, UpdateLabels
    <2>2. CASE v # w
        <3>1. pc'[v] = pc[v] /\ running'[v] = running[v]
            BY <1>1, <2>2 DEF TypeOK
        <3>2. \A x \in Kinds : Gone(v, x) => Gone(v, x)'
            BY <1>1, <3>1 DEF Gone
        <3>3. Knows(v) /\ (spent'["faults"] = 0 => KnowsWhenCalm(v))
            BY <1>1 DEF Knowledge
        <3> QED BY <1>1, <3>1, <3>2, <3>3 DEF Knows, KnowsWhenCalm, Kinds
    <2> QED BY <2>1, <2>2
<1>3. CacheIsCurrent' /\ NoOrphans'
    BY <1>1, LocalStepKeepsRest
<1> QED BY <1>2, <1>3 DEF Knowledge

LEMMA CrashKeepsKnowledge ==
    ASSUME TypeOK, Structure, Knowledge, NEW c \in Clusters, Crash(c)
    PROVE  Knowledge'
<1>1. /\ UNCHANGED <<foo, rec, objs>>
      /\ \A w \in Workers :
            \/ pc'[w] = "idle"
            \/ pc'[w] = pc[w] /\ running'[w] = running[w] /\ job'[w] = job[w]
    BY DEF Crash, istioVars
<1>2. \A k \in Keys : ~ fooLag'[k] => \/ fooCache'[k] = foo[k]
                                      \/ ~ fooLag[k] /\ fooCache'[k] = fooCache[k]
    BY DEF Crash
<1>3. spent'["faults"] = spent["faults"]
    BY SpendAdds DEF Crash, Bounded, TypeOK
<1>4. CacheIsCurrent' /\ NoOrphans'
    BY <1>1, <1>2, <1>3 DEF Knowledge, CacheIsCurrent, NoOrphans
<1>5. ASSUME NEW w \in Workers
      PROVE  Knows(w)' /\ (spent'["faults"] = 0 => KnowsWhenCalm(w)')
    <2>1. CASE pc'[w] = "idle"
        BY <2>1 DEF Knows, KnowsWhenCalm, TearDownLabels, CreateLabels, UpdateLabels
    <2>2. CASE pc'[w] = pc[w] /\ running'[w] = running[w] /\ job'[w] = job[w]
        <3>1. \A x \in Kinds : Gone(w, x) => Gone(w, x)'
            BY <1>1, <2>2 DEF Gone
        <3>2. Knows(w) /\ (spent'["faults"] = 0 => KnowsWhenCalm(w))
            BY <1>3 DEF Knowledge
        <3> QED BY <1>1, <2>2, <3>1, <3>2 DEF Knows, KnowsWhenCalm, Kinds
    <2> QED BY <1>1, <2>1, <2>2
<1> QED BY <1>4, <1>5 DEF Knowledge

LEMMA KnowledgeStep == IInv /\ [Next]_vars => IInv'
<1> SUFFICES ASSUME TypeOK, Structure, Knowledge, [Next]_vars PROVE IInv'
    BY DEF IInv
<1>1. TypeOK' /\ Structure'
    BY TypeStep
<1>2. CASE UNCHANGED vars
    <2>1. UNCHANGED <<foo, fooCache, fooLag, rec, objs, running, pc, job, spent>>
        BY <1>2 DEF vars, appVars, istioVars, workVars
    <2>2. Knowledge'
        BY <2>1 DEF Knowledge, CacheIsCurrent, Knows, KnowsWhenCalm, Gone, NoOrphans
    <2> QED BY <1>1, <2>2 DEF IInv
<1>3. CASE Next
    <2>1. Knowledge'
        BY <1>3, EnvironmentKeepsKnowledge, StartKeepsKnowledge, WorkerKeepsKnowledge,
           CrashKeepsKnowledge DEF Next
    <2> QED BY <1>1, <2>1 DEF IInv
<1> QED BY <1>2, <1>3

LEMMA KnowledgeInit == Init => IInv
<1> SUFFICES ASSUME Init PROVE IInv
    OBVIOUS
<1>1. TypeOK /\ Structure
    BY TypeInit
<1>2. Knowledge
    BY DEF Init, Knowledge, CacheIsCurrent, Knows, KnowsWhenCalm, NoOrphans, TearDownLabels,
           CreateLabels, UpdateLabels
<1> QED BY <1>1, <1>2 DEF IInv

THEOREM Knowing == SafetySpec => []IInv
BY KnowledgeInit, KnowledgeStep, PTL DEF SafetySpec

\* Whatever calls fail, a sync only ever tears down the route that the record
\* of its own ServiceRoute names: no other sync, user or crash can change this
\* record while the seven calls of the teardown are under way.
THEOREM TeardownIsOwn == SafetySpec => []TearsDownOwnRoute
<1>1. IInv => TearsDownOwnRoute
    BY DEF IInv, Knowledge, Knows, TearsDownOwnRoute
<1> QED BY <1>1, Knowing, PTL

\* Without failed calls a sync that creates or updates objects holds, from the
\* first call to the last, a record that names their route.  (The status is
\* written when the record is there, and the record is written first.)
THEOREM WritesAreOwn == SafetySpec => []WritesOwnRoute
<1>1. IInv => WritesOwnRoute
    BY DEF IInv, Knowledge, KnowsWhenCalm, WritesOwnRoute
<1> QED BY <1>1, Knowing, PTL

\* Without failed calls nothing on the istio cluster is ever without a record
\* through which a later sync can find it, for any number of workers,
\* controllers and crashes.
THEOREM NothingIsOrphaned == SafetySpec => []NoOrphans
<1>1. IInv => NoOrphans
    BY DEF IInv, Knowledge
<1> QED BY <1>1, Knowing, PTL

\* A sync writes a full name only while the record of that route is its own.
LEMMA WorkerNamesOwnRoute ==
    ASSUME IInv, NEW w \in Workers, Step(w)
    PROVE  NamesOwnRoute
<1>1. running[w] \in Keys /\ (spent'["faults"] = 0 => spent["faults"] = 0)
    BY WorkerLeavesOthers DEF IInv
<1>2. ASSUME NEW here \in Serving, NEW status \in Routes \cup {Taken},
             PutStatus(w, here, status),
             status = Taken \/ (here = "status" /\ status = job[w].foo.route)
      PROVE  NamesOwnRoute
    <2>1. pc[w] = here
        BY <1>2 DEF PutStatus
    <2>2. job[w].foo \in FooObjects
        BY <2>1 DEF IInv, Structure, HasRoute
    <2>3. \/ foo' = foo
          \/ /\ job[w].fresh
             /\ \A k \in Keys : k # running[w] => foo'[k] = foo[k]
             /\ foo'[running[w]].route = job[w].foo.route
             /\ foo'[running[w]].status = status
        BY <1>1, <1>2, <2>2, PutStatusStep DEF IInv
    <2>4. job[w].fresh => foo[running[w]] = job[w].foo
        BY <1>2, <2>1 DEF IInv, Knowledge, Knows, Serving, CreateLabels, UpdateLabels
    <2>5. here = "status" /\ spent'["faults"] = 0 => rec[running[w]] = job[w].foo.route
        BY <1>1, <2>1 DEF IInv, Knowledge, KnowsWhenCalm, CreateLabels
    <2>6. Taken \notin Routes
        BY RouteSyncAssumption
    <2> QED BY <1>2, <2>3, <2>4, <2>5, <2>6 DEF NamesOwnRoute
<1>3. CASE foo' = foo
    BY <1>3 DEF NamesOwnRoute
<1>4. CASE Create(w)
    <2>1. CASE PutStatus(w, "status", job[w].foo.route)
        <3>1. job[w].foo.route \in Routes
            BY <2>1 DEF PutStatus, IInv, Structure, HasRoute, Serving, CreateLabels
        <3> QED BY <1>2, <2>1, <3>1 DEF Serving, CreateLabels
    <2> QED BY <1>3, <1>4, <2>1 DEF Create, CreateRecord, CreateObject, PutObject, GetGateway,
               PutGateway, appVars
<1>5. CASE Refuse(w)
    BY <1>2, <1>5 DEF Refuse, Serving
<1> QED BY <1>3, <1>4, <1>5 DEF Step, LookUp, TearDown, DeleteObject, GetGateway, PutGateway,
           DeleteRecord, ReadCaches, Decide, Update, UpdateObject, PutObject, FinishSync, appVars

LEMMA EnvironmentNamesNothing ==
    ASSUME TypeOK, Environment
    PROVE  NamesOwnRoute
<1>1. ASSUME NEW k \in Keys, NEW new, ChangeFoo(k, new),
             \/ foo[k] = None \/ new = None
             \/ foo[k] \in FooObjects /\ new.status = foo[k].status
      PROVE  NamesOwnRoute
    <2>1. foo'[k] = new /\ \A j \in Keys : j # k => foo'[j] = foo[j]
        BY <1>1 DEF ChangeFoo, TypeOK
    <2> QED BY <1>1, <2>1 DEF NamesOwnRoute
<1>2. ASSUME NEW k \in Keys, NEW r, UserCreates(k, r) \/ UserEdits(k, r) \/ UserDeletes(k)
      PROVE  NamesOwnRoute
    <2>1. CASE UserEdits(k, r)
        <3>1. foo[k] \in FooObjects
            BY <2>1 DEF UserEdits, TypeOK
        <3>2. [foo[k] EXCEPT !.route = r].status = foo[k].status
            BY <3>1 DEF FooObjects
        <3> QED BY <1>1, <2>1, <3>1, <3>2 DEF UserEdits
    <2> QED BY <1>1, <1>2, <2>1 DEF UserCreates, UserDeletes
<1>3. CASE foo' = foo
    BY <1>3 DEF NamesOwnRoute
<1> QED BY <1>2, <1>3 DEF Environment, EndpointsChange, ServiceChanges, GatewayChanges, appVars

\* Without failed calls a status only ever gets the full name of a route whose
\* record is there and which spec.routeName still asks for.
THEOREM NamesAreEarned == SafetySpec => NameIsEarned
<1>1. IInv /\ [Next]_vars => [NamesOwnRoute]_vars
    <2> SUFFICES ASSUME IInv, Next PROVE NamesOwnRoute
        OBVIOUS
    <2>1. CASE foo' = foo
        BY <2>1 DEF NamesOwnRoute
    <2> QED BY <2>1, WorkerNamesOwnRoute, EnvironmentNamesNothing
            DEF IInv, Next, Informers, FooEvent, FooTombstone, Resync, EndpointsEvent,
                ServiceEvent, StartSync, Crash, appVars
<1> QED BY <1>1, Knowing, PTL DEF SafetySpec, NameIsEarned

-----------------------------------------------------------------------------
(* The contracts that the syncs rest on, KeyedWork and LaggedCopy, seen    *)
(* from the side that relies on them.                                      *)

\* The event handlers and the workers use the queue only as its contract says.
THEOREM QueueIsUsedByContract ==
    SafetySpec => [][Queue!Next \/ \E c \in Clusters : Crash(c)]_workVars
<1>1. ASSUME [Next]_vars
      PROVE  Queue!Next \/ (\E c \in Clusters : Crash(c)) \/ UNCHANGED workVars
    <2>1. CASE Environment
        BY <2>1 DEF Environment, UserCreates, UserEdits, UserDeletes, ChangeFoo, EndpointsChange,
              ServiceChanges, GatewayChanges, workVars
    <2>2. CASE Informers
        BY <2>2 DEF Informers, FooEvent, FooTombstone, Resync, EndpointsEvent, ServiceEvent,
              Enqueue, HandleObject, Queue!Next, workVars
    <2>3. ASSUME NEW w \in Workers, NEW k \in Keys, StartSync(w, k)
          PROVE  Queue!Next
        BY <2>3 DEF StartSync, Queue!Next
    <2>4. ASSUME NEW w \in Workers, Step(w)
          PROVE  Queue!Next \/ UNCHANGED workVars
        BY <2>4 DEF Step, LookUp, TearDown, DeleteObject, GetGateway, PutGateway, DeleteRecord,
              ReadCaches, Decide, Create, CreateRecord, CreateObject, PutObject, PutStatus, Refuse,
              Update, UpdateObject, FinishSync, Queue!Next
    <2> QED BY <1>1, <2>1, <2>2, <2>3, <2>4 DEF Next, vars
<1> QED BY <1>1, PTL DEF SafetySpec

\* What LaggedCopy sees of the syncs.
Hand == [w \in Workers |-> IF HasCopy(w) THEN running[w] ELSE None]
Fresh == [w \in Workers |-> HasCopy(w) /\ job[w].fresh /\ job[w].foo # None]

LEMMA SameCopies ==
    ASSUME UNCHANGED <<foo, fooLag>>,
           \A w \in Workers :
              /\ HasCopy(w)' <=> HasCopy(w)
              /\ HasCopy(w) => /\ running'[w] = running[w]
                               /\ job'[w].fresh = job[w].fresh /\ job'[w].foo = job[w].foo
    PROVE  UNCHANGED Copy!copyVars
<1>1. Hand' = Hand
    BY DEF Hand
<1>2. Fresh' = Fresh
    BY DEF Fresh
<1> QED BY <1>1, <1>2 DEF Copy!copyVars, Hand, Fresh

LEMMA ChangeIsChange ==
    ASSUME TypeOK, NEW k \in Keys, NEW new \in FooObjects \cup {None}, ChangeFoo(k, new)
    PROVE  Copy!Next
<1>1. /\ foo' = [foo EXCEPT ![k] = new] /\ fooLag' = [fooLag EXCEPT ![k] = TRUE]
      /\ \A w \in Workers : /\ HasCopy(w)' <=> HasCopy(w)
                            /\ running'[w] = running[w] /\ job'[w].foo = job[w].foo
                            /\ job'[w].fresh <=> job[w].fresh /\ running[w] # k
    BY DEF ChangeFoo, workVars, HasCopy, TypeOK, Jobs
<1>2. Hand' = Hand
    BY <1>1 DEF Hand
<1>3. Fresh' = [w \in Workers |-> Fresh[w] /\ Hand[w] # k]
    BY <1>1 DEF Hand, Fresh
<1>4. Copy!Change(k, new)
    BY <1>1, <1>2, <1>3 DEF Copy!Change, Hand, Fresh
<1>5. new \in Copy!FooObjects \cup {None}
    BY DEF FooObjects, Copy!FooObjects
<1> QED BY <1>4, <1>5 DEF Copy!Next

LEMMA SurroundingsKeepContract ==
    ASSUME TypeOK, Environment \/ Informers
    PROVE  Copy!Next \/ UNCHANGED Copy!copyVars
<1>1. ASSUME NEW k \in Keys, NEW r \in Routes \cup {NoRoute},
             UserCreates(k, r) \/ UserEdits(k, r) \/ UserDeletes(k)
      PROVE  Copy!Next
    <2>1. PICK new \in FooObjects \cup {None} : ChangeFoo(k, new)
        BY <1>1 DEF UserCreates, UserEdits, UserDeletes, FooObjects, TypeOK
    <2> QED BY <2>1, ChangeIsChange
<1>2. ASSUME NEW k, NEW c, EndpointsChange(k, c) \/ ServiceChanges(k, c)
      PROVE  UNCHANGED Copy!copyVars
    BY <1>2, SameCopies DEF EndpointsChange, ServiceChanges, workVars, HasCopy
<1>3. ASSUME NEW new, GatewayChanges(new)
      PROVE  UNCHANGED Copy!copyVars
    BY <1>3, SameCopies DEF GatewayChanges, GatewayStale, appVars, workVars, HasCopy, TypeOK, Jobs
<1>4. ASSUME NEW k \in Keys, FooEvent(k) \/ FooTombstone(k)
      PROVE  Copy!Next
    <2>1. /\ UNCHANGED <<foo, pc, job, running>>
          /\ fooLag' = [j \in Keys |-> fooLag[j] /\ j \notin {k}]
        BY <1>4 DEF FooEvent, FooTombstone, Enqueue, Queue!Request, workVars, TypeOK
    <2>2. Hand' = Hand /\ Fresh' = Fresh
        BY <2>1 DEF Hand, Fresh, HasCopy
    <2>3. Copy!CatchUp({k})
        BY <2>1, <2>2 DEF Copy!CatchUp, Hand, Fresh
    <2> QED BY <2>3 DEF Copy!Next
<1>5. ASSUME NEW k, Resync(k) \/ EndpointsEvent(k) \/ ServiceEvent(k)
      PROVE  UNCHANGED Copy!copyVars
    BY <1>5, SameCopies DEF Resync, EndpointsEvent, ServiceEvent, Enqueue, HandleObject,
       Queue!Request, appVars, workVars, HasCopy
<1> QED BY <1>1, <1>2, <1>3, <1>4, <1>5 DEF Environment, Informers

LEMMA StartKeepsContract ==
    ASSUME TypeOK, Structure, NEW w \in Workers, NEW k \in Keys, StartSync(w, k)
    PROVE  UNCHANGED Copy!copyVars
<1>1. /\ UNCHANGED <<foo, fooLag, job>>
      /\ running' = [running EXCEPT ![w] = k] /\ pc' = [pc EXCEPT ![w] = "lookUp"]
      /\ pc[w] = "idle"
    BY DEF StartSync, Queue!Start, Goto, appVars, Structure, IdleIsFree
<1> QED BY <1>1, SameCopies DEF HasCopy, TypeOK

LEMMA CrashKeepsContract ==
    ASSUME TypeOK, NEW c \in Clusters, Crash(c)
    PROVE  Copy!Next
<1> DEFINE W == {w \in Workers : ClusterOf[w] = c}
           K == {k \in Keys : ClusterOf[k] = c}
<1>1. /\ foo' = foo /\ fooLag' = [k \in Keys |-> fooLag[k] /\ k \notin K]
      /\ \A w \in Workers :
            /\ w \in W => ~ HasCopy(w)'
            /\ w \notin W => pc'[w] = pc[w] /\ running'[w] = running[w] /\ job'[w] = job[w]
    BY DEF Crash, HasCopy
<1>2. Hand' = [w \in Workers |-> IF w \in W THEN None ELSE Hand[w]]
    BY <1>1 DEF Hand, HasCopy
<1>3. Fresh' = [w \in Workers |-> Fresh[w] /\ w \notin W]
    BY <1>1 DEF Fresh, HasCopy
<1>4. Copy!Restart(W, K)
    BY <1>1, <1>2, <1>3 DEF Copy!Restart, Hand, Fresh
<1>5. W \in SUBSET Workers /\ K \in SUBSET Keys
    OBVIOUS
<1> QED BY <1>4, <1>5 DEF Copy!Next

\* A call in the middle of a sync.
LEMMA SyncGoesOn ==
    ASSUME NEW w \in Workers, LeavesOthers(w), UNCHANGED <<foo, fooLag>>,
           HasCopy(w), HasCopy(w)', running'[w] = running[w],
           job'[w].foo = job[w].foo, job'[w].fresh = job[w].fresh
    PROVE  UNCHANGED Copy!copyVars
BY SameCopies DEF LeavesOthers, HasCopy

\* The last call of a sync gives the copy out of the hand.
LEMMA SyncLetsGo ==
    ASSUME TypeOK, NEW w \in Workers, LeavesOthers(w), running[w] \in Keys,
           HasCopy(w), ~ HasCopy(w)'
    PROVE  Copy!Finish(w)
<1>1. Hand[w] # None
    BY RouteSyncAssumption DEF Hand
<1>2. Hand' = [Hand EXCEPT ![w] = None]
    BY DEF Hand, HasCopy, LeavesOthers
<1>3. Fresh' = [Fresh EXCEPT ![w] = FALSE]
    BY DEF Fresh, HasCopy, LeavesOthers
<1> QED BY <1>1, <1>2, <1>3 DEF Copy!Finish, Hand, Fresh

LEMMA SyncEnds ==
    ASSUME TypeOK, NEW w \in Workers, LeavesOthers(w), running[w] \in Keys,
           HasCopy(w), ~ HasCopy(w)', UNCHANGED <<foo, fooLag>>
    PROVE  Copy!Next
BY SyncLetsGo DEF Copy!Next

LEMMA LookUpTakesCopy ==
    ASSUME IInv, NEW w \in Workers, LookUp(w)
    PROVE  Copy!Next
<1>0. PICK k \in Keys : k = running[w]
    BY LookUpStep DEF IInv, Structure
<1>1. /\ pc[w] = "lookUp" /\ UNCHANGED <<foo, fooLag, running>>
      /\ \A v \in Workers \ {w} : job'[v] = job[v] /\ pc'[v] = pc[v]
      /\ job'[w].foo = fooCache[k] /\ job'[w].fresh = ~ fooLag[k]
      /\ pc'[w] \in {"delEp", "caches"}
    <2>1. UNCHANGED <<foo, fooLag, running>>
        BY DEF LookUp, appVars, workVars
    <2>2. pc \in [Workers -> Labels]
        BY DEF IInv, TypeOK
    <2> QED BY <1>0, <2>1, <2>2, LookUpStep DEF IInv, Structure
<1>2. ~ HasCopy(w) /\ HasCopy(w)' /\ \A v \in Workers \ {w} : HasCopy(v)' <=> HasCopy(v)
    BY <1>1 DEF HasCopy
<1>3. Hand[w] = None /\ \A v \in Workers : Hand[v] # k
    BY <1>0, <1>1, <1>2, RouteSyncAssumption DEF Hand, IInv, Structure, KeyInOneHand
<1>4. Hand' = [Hand EXCEPT ![w] = k]
    BY <1>0, <1>1, <1>2 DEF Hand
<1>5. Fresh' = [Fresh EXCEPT ![w] = ~ fooLag[k] /\ foo[k] # None]
    <2>1. job'[w].fresh /\ job'[w].foo # None <=> ~ fooLag[k] /\ foo[k] # None
        BY <1>1 DEF IInv, Knowledge, CacheIsCurrent
    <2> QED BY <1>1, <1>2, <2>1 DEF Fresh
<1>6. Copy!Take(w, k)
    BY <1>1, <1>3, <1>4, <1>5 DEF Copy!Take, Hand, Fresh
<1> QED BY <1>6 DEF Copy!Next

LEMMA StatusIsCopied ==
    ASSUME IInv, NEW w \in Workers, LeavesOthers(w), running[w] \in Keys,
           NEW here \in {"status", "taken"}, NEW status \in Routes \cup {Taken},
           PutStatus(w, here, status)
    PROVE  Copy!Next
<1> DEFINE k == running[w]
           new == [job[w].foo EXCEPT !.status = status]
<1>1. pc[w] = here /\ pc'[w] = "done" /\ HasCopy(w) /\ ~ HasCopy(w)'
    BY DEF PutStatus, Goto, HasCopy, IInv, TypeOK
<1>2. CASE UNCHANGED <<foo, fooLag>>
    BY <1>1, <1>2, SyncEnds DEF IInv
<1>3. CASE /\ job[w].fresh /\ foo' = [foo EXCEPT ![k] = new]
           /\ fooLag' = [fooLag EXCEPT ![k] = @ \/ new # foo[k]]
    <2>1. foo[k] = job[w].foo
        BY <1>1, <1>3 DEF IInv, Knowledge, Knows
    <2>2. job[w].foo \in FooObjects
        BY <1>1 DEF IInv, Structure, HasRoute, Serving, CreateLabels
    <2>3. foo' = [foo EXCEPT ![k].status = status]
        BY <1>3, <2>1
    <2>4. new # foo[k] <=> foo' # foo
        BY <1>3 DEF IInv, TypeOK
    <2> HIDE DEF new
    <2>5. fooLag' = [fooLag EXCEPT ![k] = @ \/ foo' # foo]
        BY <1>3, <2>4 DEF IInv, TypeOK
    <2>6. Hand[w] = k /\ Fresh[w]
        BY <1>1, <1>3, <2>2, NoneAssumption DEF Hand, Fresh
    <2>7. Copy!Finish(w)
        BY <1>1, SyncLetsGo DEF IInv
    <2>8. Copy!PutStatus(w, status)
        BY <2>3, <2>5, <2>6, <2>7 DEF Copy!PutStatus, Hand, Fresh
    <2> QED BY <2>8 DEF Copy!Next
<1> QED BY <1>2, <1>3 DEF PutStatus

LEMMA WorkerKeepsContract ==
    ASSUME IInv, NEW w \in Workers, Step(w)
    PROVE  Copy!Next \/ UNCHANGED Copy!copyVars
<1>1. LeavesOthers(w) /\ running[w] \in Keys
    BY WorkerLeavesOthers DEF IInv
<1>2. ASSUME UNCHANGED <<foo, fooLag>>, running'[w] = running[w], HasCopy(w),
             job'[w].foo = job[w].foo, job'[w].fresh = job[w].fresh
      PROVE  Copy!Next \/ UNCHANGED Copy!copyVars
    BY <1>1, <1>2, SyncGoesOn, SyncEnds DEF IInv
<1>3. CASE TearDown(w) \/ ReadCaches(w) \/ Decide(w) \/ Update(w)
    <2>1. job'[w].foo = job[w].foo /\ job'[w].fresh = job[w].fresh
        BY <1>3 DEF TearDown, DeleteObject, GetGateway, PutGateway, GatewayStale, DeleteRecord,
              ReadCaches, Decide, Update, UpdateObject, PutObject, IInv, TypeOK, Jobs
    <2> QED BY <1>2, <1>3, <2>1 DEF TearDown, DeleteObject, GetGateway, PutGateway, DeleteRecord,
               ReadCaches, Decide, Update, UpdateObject, PutObject, HasCopy, appVars, workVars
<1>4. CASE Create(w)
    <2>1. CASE PutStatus(w, "status", job[w].foo.route)
        <3>1. job[w].foo.route \in Routes
            BY <2>1 DEF PutStatus, IInv, Structure, HasRoute, Serving, CreateLabels
        <3> QED BY <1>1, <2>1, <3>1, StatusIsCopied
    <2>2. CASE ~ PutStatus(w, "status", job[w].foo.route)
        <3>1. job'[w].foo = job[w].foo /\ job'[w].fresh = job[w].fresh
            BY <1>4, <2>2 DEF Create, CreateRecord, CreateObject, PutObject, GetGateway, PutGateway,
                  GatewayStale, IInv, TypeOK, Jobs
        <3> QED BY <1>2, <1>4, <2>2, <3>1 DEF Create, CreateRecord, CreateObject, PutObject,
                   GetGateway, PutGateway, HasCopy, appVars, workVars
    <2> QED BY <2>1, <2>2
<1>5. CASE Refuse(w)
    BY <1>1, <1>5, StatusIsCopied DEF Refuse
<1>6. CASE FinishSync(w)
    <2>1. UNCHANGED <<foo, fooLag>> /\ ~ HasCopy(w) /\ ~ HasCopy(w)'
        BY <1>6 DEF FinishSync, Goto, appVars, HasCopy, IInv, TypeOK
    <2> QED BY <1>1, <2>1, SameCopies DEF LeavesOthers, HasCopy
<1> QED BY <1>3, <1>4, <1>5, <1>6, LookUpTakesCopy DEF Step

\* ServiceRoutes, caches and copies behave in RouteSync as RouteCache has them,
\* which implements the same contract with resource versions.
THEOREM CopiesFollowContract == SafetySpec => UsesLaggedCopy
<1>1. ASSUME IInv, [Next]_vars
      PROVE  [Copy!Next]_(Copy!copyVars)
    <2>1. CASE UNCHANGED vars
        BY <2>1, SameCopies DEF vars, appVars, workVars, HasCopy
    <2>2. TypeOK /\ Structure
        BY <1>1 DEF IInv
    <2> QED BY <1>1, <2>1, <2>2, SurroundingsKeepContract, StartKeepsContract, CrashKeepsContract,
               WorkerKeepsContract DEF Next
<1> QED BY <1>1, Knowing, PTL DEF SafetySpec, UsesLaggedCopy

-----------------------------------------------------------------------------
(* Any number of workers and controllers, whose calls do not fail, whose   *)
(* processes do not die and who do not race: the promises of RouteLease    *)
(* and the invariants that hold between two syncs of a ServiceRoute.       *)

Undisturbed == Budget["faults"] = 0 /\ Budget["crashes"] = 0

\* The calls before which a sync's route lacks its object of a kind, the
\* record being there, and those before which it lacks its host.
LastDeletions == {"delGwGet", "delGwPut", "delRec"}
MissingAt == [kind \in Kinds |->
    LastDeletions \cup
        CASE kind = "ep"  -> {"delSvc", "delVS", "delDR", "crEp"}
          [] kind = "svc" -> ServiceMissing
          [] kind = "vs"  -> {"delDR", "crEp", "crSvc", "crVS"}
          [] kind = "dr"  -> {"crEp", "crSvc", "crVS", "crDR"}]
HostMissingAt == {"delRec", "crEp", "crSvc", "crVS", "crDR", "crGwGet", "crGwPut"}

\* A sync of j is about to make one of these calls.
At(j, labels) == \E w \in Workers : running[w] = j /\ pc[w] \in labels

\* A recorded route has an object of each kind, except while a sync of its
\* ServiceRoute has just deleted it or not made it yet.
Placed ==
    \A j \in Keys, kind \in Kinds :
        rec[j] # None => (objs[kind][rec[j]] # None <=> ~ At(j, MissingAt[kind]))

\* The name that Decide has found free stays so until it is recorded.
NameIsFree == \A w \in Workers : pc[w] = "crRec" => objs["svc"][job[w].foo.route] = None

Calm == spent["faults"] = 0 /\ spent["crashes"] = 0

LeaseInv == IInv /\ Calm /\ RoutesAreExclusive /\ Placed /\ NameIsFree

\* w takes a step from a good state in which nobody races.
Moves(w) == LeaseInv /\ NoNameRace /\ Structure' /\ Calm' /\ LeavesOthers(w)

\* A sync of j is w's, if w holds j, and otherwise nothing w touches.
LEMMA OneHand ==
    ASSUME Structure, Structure', NEW w \in Workers, LeavesOthers(w), NEW j \in Keys, NEW labels
    PROVE  /\ running[w] = j => (At(j, labels) <=> pc[w] \in labels)
           /\ running'[w] = j => (At(j, labels)' <=> pc'[w] \in labels)
           /\ running[w] # j /\ running'[w] # j => (At(j, labels)' <=> At(j, labels))
           /\ running[w] # j /\ running'[w] = j => ~ At(j, labels)
           /\ running[w] = j /\ running'[w] # j => ~ At(j, labels)'
BY RouteSyncAssumption DEF At, LeavesOthers, Structure, KeyInOneHand

LEMMA StaysCalm ==
    ASSUME Undisturbed, TypeOK, Calm, [Next]_vars
    PROVE  Calm'
<1>1. \A what \in {"faults", "crashes"} : ~ Spend(what)
    BY DEF Undisturbed, Calm, Spend
<1>2. \A what \in Bounded \ {"faults", "crashes"} : Spend(what) => Calm'
    BY DEF Calm, Spend, TypeOK, Bounded
<1>3. ~ CallFails /\ \A c : ~ Crash(c)
    BY <1>1 DEF CallFails, Crash
<1>4. CASE spent' = spent
    BY <1>4 DEF Calm
<1>5. CASE Environment
    BY <1>2, <1>5 DEF Environment, UserCreates, UserEdits, UserDeletes, EndpointsChange,
          ServiceChanges, GatewayChanges, Bounded
<1>6. CASE Informers
    BY <1>3, <1>4, <1>6 DEF Informers, FooEvent, FooTombstone, Resync, EndpointsEvent, ServiceEvent
<1>7. ASSUME NEW w \in Workers, Step(w)
      PROVE  Calm'
    <2>1. CASE LookUp(w)
        BY <1>3, <1>4, <2>1 DEF LookUp
    <2>2. CASE TearDown(w)
        BY <1>3, <1>4, <2>2 DEF TearDown, DeleteObject, GetGateway, PutGateway, DeleteRecord
    <2>3. CASE ReadCaches(w) \/ FinishSync(w)
        BY <1>4, <2>3 DEF ReadCaches, FinishSync
    <2>4. CASE Decide(w)
        BY <1>3, <1>4, <2>4 DEF Decide
    <2>5. CASE Create(w) \/ Refuse(w) \/ Update(w)
        BY <1>3, <1>4, <2>5 DEF Create, CreateRecord, CreateObject, PutObject, GetGateway,
              PutGateway, PutStatus, Refuse, Update, UpdateObject
    <2> QED BY <1>7, <2>1, <2>2, <2>3, <2>4, <2>5 DEF Step
<1> QED BY <1>3, <1>4, <1>5, <1>6, <1>7 DEF Next, StartSync, vars

\* A step that writes no object and no record, between calls that find the
\* same objects missing.
LEMMA SameObjects ==
    ASSUME NEW w \in Workers, Moves(w), UNCHANGED <<rec, objs>>,
           \/ /\ running[w] = None \/ \A kind \in Kinds : pc[w] \notin MissingAt[kind]
              /\ running'[w] = None \/ \A kind \in Kinds : pc'[w] \notin MissingAt[kind]
           \/ /\ running'[w] = running[w]
              /\ \A kind \in Kinds : pc[w] \in MissingAt[kind] <=> pc'[w] \in MissingAt[kind]
    PROVE  RoutesAreExclusive' /\ Placed'
<1>1. RoutesAreExclusive'
    BY DEF Moves, LeaseInv, RoutesAreExclusive, Lease!Exclusive
<1>2. ASSUME NEW j \in Keys, NEW kind \in Kinds
      PROVE  At(j, MissingAt[kind])' <=> At(j, MissingAt[kind])
    BY OneHand, RouteSyncAssumption DEF Moves, LeaseInv, IInv
<1>3. Placed'
    BY <1>2 DEF Moves, LeaseInv, Placed
<1> QED BY <1>1, <1>3

\* A step that makes or deletes one object of the recorded route.
LEMMA OneObjectPlaced ==
    ASSUME NEW w \in Workers, Moves(w),
           UNCHANGED <<rec, running>>, running[w] \in Keys, rec[running[w]] \in Routes,
           NEW kind \in Kinds, NEW o,
           \A x \in Kinds, r \in Routes :
              objs'[x][r] = IF x = kind /\ r = rec[running[w]] THEN o ELSE objs[x][r],
           pc'[w] \in MissingAt[kind] <=> o = None,
           \A x \in Kinds \ {kind} : pc[w] \in MissingAt[x] <=> pc'[w] \in MissingAt[x]
    PROVE  RoutesAreExclusive' /\ Placed'
<1>1. RoutesAreExclusive'
    BY DEF Moves, LeaseInv, RoutesAreExclusive, Lease!Exclusive
<1>2. ASSUME NEW j \in Keys, NEW x \in Kinds, rec[j] # None
      PROVE  objs'[x][rec[j]] # None <=> ~ At(j, MissingAt[x])'
    <2>1. rec[j] \in Routes
        BY <1>2 DEF Moves, LeaseInv, IInv, TypeOK
    <2>2. CASE j # running[w]
        <3>1. rec[j] # rec[running[w]]
            BY <1>2, <2>2 DEF Moves, LeaseInv, RoutesAreExclusive, Lease!Exclusive
        <3>2. At(j, MissingAt[x])' <=> At(j, MissingAt[x])
            BY <2>2, OneHand DEF Moves, LeaseInv, IInv
        <3> QED BY <1>2, <2>1, <3>1, <3>2 DEF Moves, LeaseInv, Placed
    <2>3. CASE j = running[w]
        <3>1. /\ At(j, MissingAt[x]) <=> pc[w] \in MissingAt[x]
              /\ At(j, MissingAt[x])' <=> pc'[w] \in MissingAt[x]
            BY <2>3, OneHand DEF Moves, LeaseInv, IInv
        <3> QED BY <1>2, <2>1, <2>3, <3>1 DEF Moves, LeaseInv, Placed
    <2> QED BY <2>2, <2>3
<1>3. Placed'
    BY <1>2 DEF Placed
<1> QED BY <1>1, <1>3

LeaseRest == RoutesAreExclusive /\ Placed /\ NameIsFree

LEMMA NoCallFails ==
    ASSUME TypeOK, Calm'
    PROVE  ~ CallFails
BY SpendAdds DEF TypeOK, Calm, CallFails, Bounded

\* A name that another sync has found free stays so, unless w makes the Service
\* of that name, which would be a race.
LEMMA NamesStayFree ==
    ASSUME NEW w \in Workers, Moves(w), pc'[w] # "crRec",
           \A r \in Routes :
              \/ objs["svc"][r] = None => objs'["svc"][r] = None
              \/ pc[w] \in ServiceMissing /\ r = rec[running[w]]
    PROVE  NameIsFree'
<1> SUFFICES ASSUME NEW v \in Workers, pc'[v] = "crRec"
             PROVE  objs'["svc"][job'[v].foo.route] = None
    BY DEF NameIsFree
<1>1. pc[v] = "crRec" /\ job'[v].foo = job[v].foo
    BY DEF Moves, LeavesOthers
<1>2. job[v].foo.route \in Routes /\ objs["svc"][job[v].foo.route] = None
    BY <1>1 DEF Moves, LeaseInv, IInv, Structure, HasRoute, Serving, NameIsFree
<1>3. pc[w] \in ServiceMissing => rec[running[w]] # job[v].foo.route
    BY <1>1 DEF Moves, NoNameRace
<1> QED BY <1>1, <1>2, <1>3

LEMMA QuietStepKeepsRest ==
    ASSUME NEW w \in Workers, Moves(w), running[w] \in Keys,
           UNCHANGED <<rec, objs, running>>, NEW here, NEW next, pc[w] = here, pc'[w] = next,
           next # "crRec",
           \A kind \in Kinds : here \in MissingAt[kind] <=> next \in MissingAt[kind]
    PROVE  LeaseRest'
BY SameObjects, NamesStayFree DEF Moves, LeaseInv, IInv, LeaseRest

LEMMA DeletionKeepsRest ==
    ASSUME NEW w \in Workers, Moves(w), running[w] \in Keys,
           NEW here \in TearDownLabels, NEW kind \in Kinds, NEW next \in MissingAt[kind],
           next # "crRec",
           \A x \in Kinds \ {kind} : here \in MissingAt[x] <=> next \in MissingAt[x],
           DeleteObject(w, here, kind, next)
    PROVE  LeaseRest'
<1>1. /\ pc[w] = here /\ pc'[w] = next /\ UNCHANGED <<rec, running>>
      /\ objs' = [objs EXCEPT ![kind][job[w].doomed] = None]
    BY NoCallFails DEF Moves, LeaseInv, IInv, TypeOK, DeleteObject, Goto, workVars
<1>2. job[w].doomed = rec[running[w]] /\ rec[running[w]] \in Routes
    BY <1>1 DEF Moves, LeaseInv, IInv, TypeOK, Knowledge, Knows
<1>3. \A x \in Kinds, r \in Routes :
          objs'[x][r] = IF x = kind /\ r = rec[running[w]] THEN None ELSE objs[x][r]
    BY <1>1, <1>2, OneObject DEF Moves, LeaseInv, IInv, TypeOK
<1> QED BY <1>1, <1>2, <1>3, OneObjectPlaced, NamesStayFree DEF Moves, LeaseInv, IInv, LeaseRest

\* The object that is to be made is missing, so that the API server makes it.
LEMMA CreationIsDone ==
    ASSUME NEW w \in Workers, Moves(w), running[w] \in Keys,
           NEW here \in CreateLabels, NEW kind \in Kinds, NEW next, here \in MissingAt[kind],
           CreateObject(w, here, kind, next)
    PROVE  /\ pc[w] = here /\ pc'[w] = next /\ UNCHANGED <<rec, running, job>>
           /\ rec[running[w]] = job[w].foo.route /\ job[w].foo.route \in Routes
           /\ Made(w, kind) # None
           /\ \A x \in Kinds, y \in Routes :
                 objs'[x][y] = IF x = kind /\ y = job[w].foo.route THEN Made(w, kind)
                                                                  ELSE objs[x][y]
<1> DEFINE r == job[w].foo.route
<1>1. /\ pc[w] = here /\ pc'[w] = next /\ UNCHANGED <<rec, running, job>>
    BY DEF Moves, LeaseInv, IInv, TypeOK, CreateObject, PutObject, Goto, workVars
<1>2. rec[running[w]] = r /\ r \in Routes /\ rec[running[w]] # None
    BY <1>1, RouteSyncAssumption
       DEF Moves, LeaseInv, IInv, Structure, HasRoute, Serving, Knowledge, KnowsWhenCalm, Calm
<1>3. objs[kind][r] = None
    BY <1>1, <1>2, OneHand DEF Moves, LeaseInv, IInv, Placed
<1>4. objs' = [objs EXCEPT ![kind][r] = Made(w, kind)]
    BY <1>3, NoCallFails DEF Moves, LeaseInv, IInv, CreateObject, PutObject, Named
<1>5. Made(w, kind) \in IstioObjects
    BY DEF Made, IstioObjects, Kinds, Moves, LeaseInv, IInv, TypeOK, Jobs, Contents
<1>6. \A x \in Kinds, y \in Routes :
          objs'[x][y] = IF x = kind /\ y = r THEN Made(w, kind) ELSE objs[x][y]
    BY <1>2, <1>4, <1>5, OneObject DEF Moves, LeaseInv, IInv, TypeOK
<1> HIDE DEF r
<1> QED BY <1>1, <1>2, <1>5, <1>6, NoneAssumption DEF r

LEMMA CreationKeepsRest ==
    ASSUME NEW w \in Workers, Moves(w), running[w] \in Keys,
           NEW here \in CreateLabels, NEW kind \in Kinds, NEW next,
           here \in MissingAt[kind], next \notin MissingAt[kind], next # "crRec",
           \A x \in Kinds \ {kind} : here \in MissingAt[x] <=> next \in MissingAt[x],
           CreateObject(w, here, kind, next)
    PROVE  LeaseRest'
<1>1. /\ pc[w] = here /\ pc'[w] = next /\ UNCHANGED <<rec, running>>
      /\ rec[running[w]] \in Routes /\ Made(w, kind) # None
      /\ \A x \in Kinds, y \in Routes :
            objs'[x][y] = IF x = kind /\ y = rec[running[w]] THEN Made(w, kind) ELSE objs[x][y]
    BY CreationIsDone
<1>2. RoutesAreExclusive' /\ Placed'
    BY <1>1, OneObjectPlaced
<1>3. kind = "svc" => here \in ServiceMissing
    BY DEF MissingAt, LastDeletions, ServiceMissing, Kinds
<1>4. NameIsFree'
    BY <1>1, <1>3, NamesStayFree DEF Kinds
<1> QED BY <1>2, <1>4 DEF LeaseRest

\* The object that is to be changed is there, so that the API server takes it.
LEMMA UpdateIsDone ==
    ASSUME NEW w \in Workers, Moves(w), running[w] \in Keys,
           NEW here \in UpdateLabels, NEW kind \in Kinds, NEW next,
           UpdateObject(w, here, kind, next)
    PROVE  /\ pc[w] = here /\ pc'[w] = next /\ UNCHANGED <<rec, running, job>>
           /\ rec[running[w]] = job[w].foo.route /\ job[w].foo.route \in Routes
           /\ objs[kind][job[w].foo.route] # None /\ Made(w, kind) # None
           /\ \A x \in Kinds, y \in Routes :
                 objs'[x][y] = IF x = kind /\ y = job[w].foo.route THEN Made(w, kind)
                                                                  ELSE objs[x][y]
<1> DEFINE r == job[w].foo.route
<1>1. /\ pc[w] = here /\ pc'[w] = next /\ UNCHANGED <<rec, running, job>>
    BY DEF Moves, LeaseInv, IInv, TypeOK, UpdateObject, PutObject, Goto, workVars
<1>2. rec[running[w]] = r /\ r \in Routes /\ rec[running[w]] # None
    BY <1>1, RouteSyncAssumption
       DEF Moves, LeaseInv, IInv, Structure, HasRoute, Serving, Knowledge, KnowsWhenCalm, Calm
<1>3. here \notin MissingAt[kind]
    BY DEF MissingAt, LastDeletions, ServiceMissing, UpdateLabels, Kinds
<1>4. objs[kind][r] # None
    BY <1>1, <1>2, <1>3, OneHand DEF Moves, LeaseInv, IInv, Placed
<1>5. objs' = [objs EXCEPT ![kind][r] = Made(w, kind)]
    BY <1>4, NoCallFails DEF Moves, LeaseInv, IInv, UpdateObject, PutObject, Named
<1>6. Made(w, kind) \in IstioObjects
    BY DEF Made, IstioObjects, Kinds, Moves, LeaseInv, IInv, TypeOK, Jobs, Contents
<1>7. \A x \in Kinds, y \in Routes :
          objs'[x][y] = IF x = kind /\ y = r THEN Made(w, kind) ELSE objs[x][y]
    BY <1>2, <1>5, <1>6, OneObject DEF Moves, LeaseInv, IInv, TypeOK
<1> HIDE DEF r
<1> QED BY <1>1, <1>2, <1>4, <1>6, <1>7, NoneAssumption DEF r

LEMMA UpdateKeepsRest ==
    ASSUME NEW w \in Workers, Moves(w), running[w] \in Keys,
           NEW here \in UpdateLabels, NEW kind \in Kinds, NEW next \in {"upEp", "done"},
           UpdateObject(w, here, kind, next)
    PROVE  LeaseRest'
<1>1. /\ pc[w] = here /\ pc'[w] = next /\ UNCHANGED <<rec, running>>
      /\ rec[running[w]] \in Routes
      /\ objs[kind][rec[running[w]]] # None /\ Made(w, kind) # None
      /\ \A x \in Kinds, y \in Routes :
            objs'[x][y] = IF x = kind /\ y = rec[running[w]] THEN Made(w, kind) ELSE objs[x][y]
    BY UpdateIsDone
<1>2. \A x \in Kinds : here \notin MissingAt[x] /\ next \notin MissingAt[x]
    BY DEF MissingAt, LastDeletions, ServiceMissing, UpdateLabels, Kinds
<1>3. RoutesAreExclusive' /\ Placed'
    BY <1>1, <1>2, OneObjectPlaced
<1>4. NameIsFree'
    BY <1>1, NamesStayFree DEF Kinds
<1> QED BY <1>3, <1>4 DEF LeaseRest

LEMMA RecordDeletionKeepsRest ==
    ASSUME NEW w \in Workers, Moves(w), running[w] \in Keys, DeleteRecord(w)
    PROVE  LeaseRest'
<1>1. /\ pc[w] = "delRec" /\ pc'[w] = "caches" /\ UNCHANGED <<objs, running>>
      /\ rec' = [rec EXCEPT ![running[w]] = None]
    BY NoCallFails DEF Moves, LeaseInv, IInv, TypeOK, DeleteRecord, Goto, workVars
<1>2. \A j \in Keys : rec'[j] = IF j = running[w] THEN None ELSE rec[j]
    BY <1>1 DEF Moves, LeaseInv, IInv, TypeOK
<1>3. RoutesAreExclusive'
    BY <1>2 DEF Moves, LeaseInv, RoutesAreExclusive, Lease!Exclusive
<1>4. ASSUME NEW j \in Keys, NEW kind \in Kinds, rec'[j] # None
      PROVE  objs'[kind][rec'[j]] # None <=> ~ At(j, MissingAt[kind])'
    <2>1. j # running[w] /\ rec'[j] = rec[j]
        BY <1>2, <1>4
    <2>2. At(j, MissingAt[kind])' <=> At(j, MissingAt[kind])
        BY <1>1, <2>1, OneHand DEF Moves, LeaseInv, IInv
    <2> QED BY <1>1, <1>4, <2>1, <2>2 DEF Moves, LeaseInv, Placed
<1>5. Placed'
    BY <1>4 DEF Placed
<1> QED BY <1>1, <1>3, <1>5, NamesStayFree DEF LeaseRest

\* When a name is about to be recorded no record has it, and no object.
LEMMA NameIsFreeThroughout ==
    ASSUME NEW w \in Workers, Moves(w), running[w] \in Keys, pc[w] = "crRec"
    PROVE  /\ rec[running[w]] = None
           /\ \A j \in Keys : rec[j] # job[w].foo.route
           /\ \A kind \in Kinds : objs[kind][job[w].foo.route] = None
<1> DEFINE r == job[w].foo.route
<1>1. rec[running[w]] = None
    BY DEF Moves, LeaseInv, IInv, Knowledge, KnowsWhenCalm, Calm
<1>2. r \in Routes /\ r # None
    BY RouteSyncAssumption DEF Moves, LeaseInv, IInv, Structure, HasRoute, Serving
<1>3. objs["svc"][r] = None
    BY DEF Moves, LeaseInv, NameIsFree
<1>4. \A j \in Keys : rec[j] # r
    <2> SUFFICES ASSUME NEW j \in Keys, rec[j] = r PROVE FALSE
        OBVIOUS
    <2>1. At(j, MissingAt["svc"])
        BY <1>2, <1>3 DEF Moves, LeaseInv, Placed, Kinds
    <2>2. PICK v \in Workers : running[v] = j /\ pc[v] \in MissingAt["svc"]
        BY <2>1 DEF At
    <2>3. pc[v] \in ServiceMissing
        BY <2>2 DEF MissingAt, LastDeletions, ServiceMissing, Kinds
    <2> QED BY <2>2, <2>3 DEF Moves, NoNameRace
<1>5. ASSUME NEW kind \in Kinds, objs[kind][r] # None
      PROVE  FALSE
    <2>1. objs[kind][r].from \in Keys /\ rec[objs[kind][r].from] = r
        BY <1>2, <1>5 DEF Moves, LeaseInv, IInv, TypeOK, IstioObjects, Knowledge, NoOrphans, Calm
    <2> QED BY <1>4, <2>1
<1> QED BY <1>1, <1>4, <1>5

LEMMA RecordCreationKeepsRest ==
    ASSUME NEW w \in Workers, Moves(w), running[w] \in Keys, CreateRecord(w)
    PROVE  LeaseRest'
<1> DEFINE r == job[w].foo.route
<1>1. /\ pc[w] = "crRec" /\ pc'[w] = "crEp" /\ UNCHANGED <<objs, running>>
    BY DEF Moves, LeaseInv, IInv, TypeOK, CreateRecord, Goto, workVars
<1>2. /\ rec[running[w]] = None
      /\ \A j \in Keys : rec[j] # r
      /\ \A kind \in Kinds : objs[kind][r] = None
    BY <1>1, NameIsFreeThroughout
<1>3. rec' = [rec EXCEPT ![running[w]] = r]
    BY <1>2, NoCallFails DEF Moves, LeaseInv, IInv, CreateRecord, RecordOf
<1>4. \A j \in Keys : rec'[j] = IF j = running[w] THEN r ELSE rec[j]
    BY <1>3 DEF Moves, LeaseInv, IInv, TypeOK
<1> HIDE DEF r
<1>5. RoutesAreExclusive'
    BY <1>2, <1>4 DEF Moves, LeaseInv, RoutesAreExclusive, Lease!Exclusive
<1>6. \A kind \in Kinds : "crRec" \notin MissingAt[kind] /\ "crEp" \in MissingAt[kind]
    BY DEF MissingAt, LastDeletions, ServiceMissing, Kinds
<1>7. ASSUME NEW j \in Keys, NEW kind \in Kinds, rec'[j] # None
      PROVE  objs'[kind][rec'[j]] # None <=> ~ At(j, MissingAt[kind])'
    <2>1. CASE j = running[w]
        <3>1. At(j, MissingAt[kind])'
            BY <1>1, <1>6, <2>1, OneHand DEF Moves, LeaseInv, IInv
        <3> QED BY <1>1, <1>2, <1>4, <2>1, <3>1
    <2>2. CASE j # running[w]
        <3>1. At(j, MissingAt[kind])' <=> At(j, MissingAt[kind])
            BY <1>1, <2>2, OneHand DEF Moves, LeaseInv, IInv
        <3> QED BY <1>1, <1>4, <1>7, <2>2, <3>1 DEF Moves, LeaseInv, Placed
    <2> QED BY <2>1, <2>2
<1>8. Placed'
    BY <1>7 DEF Placed
<1> QED BY <1>1, <1>5, <1>8, NamesStayFree DEF LeaseRest

LEMMA WorkerKeepsRest ==
    ASSUME NEW w \in Workers, Moves(w), Step(w)
    PROVE  LeaseRest'
<1> USE DEF Kinds, LastDeletions, ServiceMissing, MissingAt
<1>1. running[w] \in Keys
    BY WorkerLeavesOthers DEF Moves, LeaseInv, IInv
<1>2. CASE LookUp(w)
    <2>1. /\ UNCHANGED <<rec, objs, running>> /\ pc[w] = "lookUp"
          /\ pc'[w] \in {"delEp", "caches"}
        BY <1>2 DEF LookUp, Goto, istioVars, workVars, Moves, LeaseInv, IInv, TypeOK
    <2> QED BY <1>1, <2>1, QuietStepKeepsRest
<1>3. CASE TearDown(w)
    <2> USE DEF TearDownLabels
    <2>1. CASE DeleteObject(w, "delEp", "ep", "delSvc")
        BY <1>1, <2>1, DeletionKeepsRest
    <2>2. CASE DeleteObject(w, "delSvc", "svc", "delVS")
        BY <1>1, <2>2, DeletionKeepsRest
    <2>3. CASE DeleteObject(w, "delVS", "vs", "delDR")
        BY <1>1, <2>3, DeletionKeepsRest
    <2>4. CASE DeleteObject(w, "delDR", "dr", "delGwGet")
        BY <1>1, <2>4, DeletionKeepsRest
    <2>5. CASE \/ GetGateway(w, "delGwGet", "delGwPut", "delRec")
               \/ PutGateway(w, "delGwPut", HostsWithout(w), "delRec")
        <3>1. /\ UNCHANGED <<rec, objs, running>> /\ pc[w] \in {"delGwGet", "delGwPut"}
              /\ pc'[w] \in {"delGwPut", "delRec"}
            BY <2>5 DEF GetGateway, PutGateway, Goto, istioVars, workVars, Moves, LeaseInv, IInv,
                  TypeOK
        <3> QED BY <1>1, <3>1, QuietStepKeepsRest
    <2>6. CASE DeleteRecord(w)
        BY <1>1, <2>6, RecordDeletionKeepsRest
    <2> QED BY <1>3, <2>1, <2>2, <2>3, <2>4, <2>5, <2>6 DEF TearDown
<1>4. CASE ReadCaches(w)
    <2>1. /\ UNCHANGED <<rec, objs, running>> /\ pc[w] = "caches"
          /\ pc'[w] \in {"decide", "done"}
        BY <1>4 DEF ReadCaches, Goto, istioVars, workVars, Moves, LeaseInv, IInv, TypeOK
    <2> QED BY <1>1, <2>1, QuietStepKeepsRest
<1>5. CASE Decide(w)
    <2>1. /\ UNCHANGED <<rec, objs, running, job>> /\ pc[w] = "decide"
          /\ \/ pc'[w] \in {"upSvc", "taken"}
             \/ pc'[w] = "crRec" /\ objs["svc"][job[w].foo.route] = None
        BY <1>5 DEF Decide, Goto, istioVars, workVars, Moves, LeaseInv, IInv, TypeOK
    <2>2. CASE pc'[w] \in {"upSvc", "taken"}
        BY <1>1, <2>1, <2>2, QuietStepKeepsRest
    <2>3. CASE pc'[w] = "crRec" /\ objs["svc"][job[w].foo.route] = None
        <3>1. NameIsFree'
            BY <2>1, <2>3 DEF Moves, LeaseInv, LeavesOthers, NameIsFree
        <3>2. \A kind \in Kinds : pc[w] \notin MissingAt[kind] /\ pc'[w] \notin MissingAt[kind]
            BY <2>1, <2>3
        <3> QED BY <2>1, <3>1, <3>2, SameObjects DEF Moves, LeaseInv, IInv, LeaseRest
    <2> QED BY <2>1, <2>2, <2>3
<1>6. CASE Create(w)
    <2> USE DEF CreateLabels
    <2>1. CASE CreateRecord(w)
        BY <1>1, <2>1, RecordCreationKeepsRest
    <2>2. CASE CreateObject(w, "crEp", "ep", "crSvc")
        BY <1>1, <2>2, CreationKeepsRest
    <2>3. CASE CreateObject(w, "crSvc", "svc", "crVS")
        BY <1>1, <2>3, CreationKeepsRest
    <2>4. CASE CreateObject(w, "crVS", "vs", "crDR")
        BY <1>1, <2>4, CreationKeepsRest
    <2>5. CASE CreateObject(w, "crDR", "dr", "crGwGet")
        BY <1>1, <2>5, CreationKeepsRest
    <2>6. CASE \/ GetGateway(w, "crGwGet", "crGwPut", "done")
               \/ PutGateway(w, "crGwPut", HostsWith(w), "status")
               \/ PutStatus(w, "status", job[w].foo.route)
        <3>1. /\ UNCHANGED <<rec, objs, running>> /\ pc[w] \in {"crGwGet", "crGwPut", "status"}
              /\ pc'[w] \in {"crGwPut", "done", "status"}
            BY <2>6 DEF GetGateway, PutGateway, PutStatus, Goto, istioVars, workVars, Moves,
                  LeaseInv, IInv, TypeOK
        <3> QED BY <1>1, <3>1, QuietStepKeepsRest
    <2> QED BY <1>6, <2>1, <2>2, <2>3, <2>4, <2>5, <2>6 DEF Create
<1>7. CASE Refuse(w)
    <2>1. UNCHANGED <<rec, objs, running>> /\ pc[w] = "taken" /\ pc'[w] = "done"
        BY <1>7 DEF Refuse, PutStatus, Goto, istioVars, workVars, Moves, LeaseInv, IInv, TypeOK
    <2> QED BY <1>1, <2>1, QuietStepKeepsRest
<1>8. CASE Update(w)
    BY <1>1, <1>8, UpdateKeepsRest DEF Update, UpdateLabels
<1>9. CASE FinishSync(w)
    <2>1. UNCHANGED <<rec, objs>> /\ pc[w] = "done" /\ pc'[w] = "idle"
        BY <1>9 DEF FinishSync, Goto, istioVars, Moves, LeaseInv, IInv, TypeOK
    <2>2. \A kind \in Kinds : pc[w] \notin MissingAt[kind] /\ pc'[w] \notin MissingAt[kind]
        BY <2>1
    <2> QED BY <2>1, <2>2, SameObjects, NamesStayFree DEF Moves, LeaseInv, IInv, LeaseRest
<1> QED BY <1>2, <1>3, <1>4, <1>5, <1>6, <1>7, <1>8, <1>9 DEF Step

LEMMA StartLeavesOthers ==
    ASSUME TypeOK, NEW w \in Workers, NEW k \in Keys, StartSync(w, k)
    PROVE  LeavesOthers(w)
BY DEF TypeOK, StartSync, Queue!Start, Goto, appVars, istioVars, LeavesOthers

LEMMA StartKeepsRest ==
    ASSUME NEW w \in Workers, Moves(w), NEW k \in Keys, StartSync(w, k)
    PROVE  LeaseRest'
<1>1. /\ UNCHANGED <<rec, objs>> /\ running[w] = None /\ pc'[w] = "lookUp"
    BY DEF StartSync, Queue!Start, Goto, istioVars, Moves, LeaseInv, IInv, TypeOK
<1>2. \A kind \in Kinds : pc'[w] \notin MissingAt[kind]
    BY <1>1 DEF MissingAt, LastDeletions, ServiceMissing, Kinds
<1> QED BY <1>1, <1>2, SameObjects, NamesStayFree DEF Moves, LeaseInv, IInv, LeaseRest

\* What goes on around the sync, and a step that changes nothing.
LEMMA SurroundingsKeepRest ==
    ASSUME LeaseInv, UNCHANGED <<rec, objs, running, pc>>,
           \A w \in Workers : job'[w].foo = job[w].foo
    PROVE  LeaseRest'
BY DEF LeaseInv, LeaseRest, RoutesAreExclusive, Lease!Exclusive, Placed, At, NameIsFree

LEMMA LeaseInit == Init => LeaseInv
<1> SUFFICES ASSUME Init PROVE LeaseInv
    OBVIOUS
<1>1. IInv
    BY KnowledgeInit
<1>2. Calm /\ RoutesAreExclusive /\ Placed /\ NameIsFree
    BY DEF Init, Calm, Bounded, RoutesAreExclusive, Lease!Exclusive, Placed, NameIsFree
<1> QED BY <1>1, <1>2 DEF LeaseInv

LEMMA LeaseStep ==
    ASSUME Undisturbed, LeaseInv, NoNameRace, [Next]_vars
    PROVE  LeaseInv'
<1>1. IInv' /\ Calm'
    BY KnowledgeStep, StaysCalm DEF LeaseInv, IInv
<1>2. LeaseRest'
    <2>1. CASE Environment \/ Informers
        BY <2>1, EnvironmentLeavesSyncs, InformersLeaveSyncs, SurroundingsKeepRest
           DEF LeaseInv, IInv, LeavesSyncs
    <2>2. CASE UNCHANGED vars
        BY <2>2, SurroundingsKeepRest DEF vars, istioVars, workVars
    <2>3. \A c \in Clusters : ~ Crash(c)
        BY DEF Undisturbed, LeaseInv, Calm, Crash, Spend
    <2>4. ASSUME NEW w \in Workers, Step(w)
          PROVE  LeaseRest'
        <3>1. Moves(w)
            BY <1>1, <2>4, WorkerLeavesOthers DEF Moves, LeaseInv, IInv
        <3> QED BY <2>4, <3>1, WorkerKeepsRest
    <2>5. ASSUME NEW w \in Workers, NEW k \in Keys, StartSync(w, k)
          PROVE  LeaseRest'
        <3>1. LeavesOthers(w)
            BY <2>5, StartLeavesOthers DEF LeaseInv, IInv
        <3>2. Moves(w)
            BY <1>1, <3>1 DEF Moves, LeaseInv, IInv
        <3> QED BY <2>5, <3>2, StartKeepsRest
    <2> QED BY <2>1, <2>2, <2>3, <2>4, <2>5 DEF Next
<1> QED BY <1>1, <1>2 DEF LeaseInv, LeaseRest

LEMMA LeaseHolds ==
    ASSUME Undisturbed
    PROVE  SafetySpec /\ []NoNameRace => []LeaseInv
<1>1. LeaseInv /\ NoNameRace /\ [Next]_vars => LeaseInv'
    BY LeaseStep
<1> QED BY <1>1, LeaseInit, PTL DEF SafetySpec

\* Left alone, syncs that do not race over a name leave no route half built and
\* none half torn down, whatever other syncs are in the middle of: between two
\* syncs of a ServiceRoute its route has all four objects, and nothing else is
\* left of it.
THEOREM RoutesAreWhole ==
    ASSUME Undisturbed
    PROVE  SafetySpec /\ []NoNameRace => []WholeRoutes
<1>1. LeaseInv => WholeRoutes
    <2> SUFFICES ASSUME LeaseInv, NEW k \in Keys, ~ Queue!InHand(k),
                        NEW kind \in Kinds, NEW r \in Routes
                 PROVE  rec[k] = r <=> objs[kind][r] # None /\ objs[kind][r].from = k
        BY DEF WholeRoutes
    <2>1. objs[kind][r] # None => /\ objs[kind][r].from \in Keys
                                 /\ rec[objs[kind][r].from] = r
        BY DEF LeaseInv, IInv, TypeOK, IstioObjects, Knowledge, NoOrphans, Calm
    <2>2. rec[k] = r => objs[kind][r] # None
        <3>1. ~ At(k, MissingAt[kind])
            BY DEF Queue!InHand, At
        <3> QED BY <3>1, RouteSyncAssumption DEF LeaseInv, Placed
    <2>3. \A j \in Keys : rec[j] = r /\ rec[k] = r => j = k
        BY RouteSyncAssumption DEF LeaseInv, RoutesAreExclusive, Lease!Exclusive
    <2> QED BY <2>1, <2>2, <2>3
<1> QED BY <1>1, LeaseHolds, PTL

\* Left alone and without such a race, the records are leases: a route is given
\* to a ServiceRoute when nobody has it, and given back before it is given to
\* another.
THEOREM RoutesAreLeased ==
    ASSUME Undisturbed
    PROVE  SafetySpec /\ []NoNameRace => LeasesRoutes
<1>1. Init => Lease!Init
    BY DEF Init, Lease!Init
<1>2. ASSUME LeaseInv, NoNameRace, LeaseInv', [Next]_vars
      PROVE  [Lease!Next]_rec
    <2> USE DEF LeaseInv
    <2>1. CASE Environment \/ Informers
        BY <1>2, <2>1, EnvironmentLeavesSyncs, InformersLeaveSyncs DEF LeaseInv, IInv, LeavesSyncs
    <2>2. ASSUME NEW w \in Workers, DeleteRecord(w)
          PROVE  [Lease!Next]_rec
        <3>1. running[w] \in Keys /\ pc[w] = "delRec"
            BY <1>2, <2>2, WorkerLeavesOthers DEF LeaseInv, IInv, Step, TearDown, DeleteRecord
        <3>2. rec[running[w]] # None
            BY <1>2, <3>1 DEF LeaseInv, IInv, Knowledge, Knows, TearDownLabels
        <3>3. rec' = [rec EXCEPT ![running[w]] = None]
            BY <1>2, <2>2, NoCallFails DEF DeleteRecord, LeaseInv, IInv
        <3> QED BY <3>1, <3>2, <3>3 DEF Lease!Next, Lease!Release
    <2>3. ASSUME NEW w \in Workers, CreateRecord(w)
          PROVE  [Lease!Next]_rec
        <3>1. running[w] \in Keys /\ pc[w] = "crRec"
            BY <1>2, <2>3, WorkerLeavesOthers DEF LeaseInv, IInv, Step, Create, CreateRecord
        <3>2. /\ rec[running[w]] = None
              /\ \A j \in Keys : rec[j] # job[w].foo.route
            BY <1>2, <2>3, <3>1, NameIsFreeThroughout, WorkerLeavesOthers
               DEF Moves, IInv, Step, Create
        <3>3. job[w].foo.route \in Routes
            BY <1>2, <3>1 DEF LeaseInv, IInv, Structure, HasRoute, Serving
        <3>4. rec' = [rec EXCEPT ![running[w]] = job[w].foo.route]
            BY <1>2, <2>3, <3>2, NoCallFails DEF CreateRecord, RecordOf, LeaseInv, IInv
        <3> QED BY <3>1, <3>2, <3>3, <3>4 DEF Lease!Next, Lease!Claim
    <2>4. ASSUME NEW w \in Workers, Step(w), ~ DeleteRecord(w), ~ CreateRecord(w)
          PROVE  rec' = rec
        BY <2>4 DEF Step, LookUp, TearDown, DeleteObject, GetGateway, PutGateway, ReadCaches,
              Decide, Create, CreateObject, PutObject, PutStatus, Refuse, Update, UpdateObject,
              FinishSync, istioVars
    <2>5. ASSUME NEW w \in Workers, NEW k \in Keys, StartSync(w, k)
          PROVE  rec' = rec
        BY <2>5 DEF StartSync, istioVars
    <2>6. CASE UNCHANGED vars \/ \E c \in Clusters : Crash(c)
        BY <2>6 DEF vars, istioVars, Crash
    <2> QED BY <1>2, <2>1, <2>2, <2>3, <2>4, <2>5, <2>6 DEF Next
<1> QED BY <1>1, <1>2, LeaseHolds, PTL DEF SafetySpec, LeasesRoutes, Lease!Spec

-----------------------------------------------------------------------------
(* The hosts of the Gateway, when its owner lets it be and no two syncs    *)
(* edit it at once: then no write of it is ever refused, and it follows    *)
(* the records.                                                            *)

OwnerRests == Budget["gateway"] = 0

\* The Gateway has a host for each recorded route, except while a sync of its
\* ServiceRoute has just removed it or not added it yet.
HostsPlaced ==
    gw # None =>
        \A r \in Routes : r \in gw <=> \E j \in Keys : rec[j] = r /\ ~ At(j, HostMissingAt)

\* A copy of the Gateway that is about to be written back is fresh.
CopyIsFresh ==
    gw # None => \A w \in Workers : pc[w] \in GatewayInHand => job[w].gwFresh

HostRest == spent["gateway"] = 0 /\ HostsPlaced /\ CopyIsFresh
HostInv == LeaseInv /\ HostRest

LEMMA OwnerStaysAtRest ==
    ASSUME OwnerRests, TypeOK, spent["gateway"] = 0, [Next]_vars
    PROVE  spent'["gateway"] = 0
<1>1. ~ Spend("gateway")
    BY DEF OwnerRests, Spend
<1>2. \A what \in Bounded \ {"gateway"} : Spend(what) => spent'["gateway"] = 0
    BY DEF Spend, TypeOK, Bounded
<1>3. CallFails \/ (\E c : Crash(c)) => spent'["gateway"] = 0
    BY <1>2 DEF CallFails, Crash, Bounded
<1>4. CASE Environment
    BY <1>1, <1>2, <1>4 DEF Environment, UserCreates, UserEdits, UserDeletes, EndpointsChange,
          ServiceChanges, GatewayChanges, Bounded
<1>5. CASE Informers
    BY <1>3, <1>5 DEF Informers, FooEvent, FooTombstone, Resync, EndpointsEvent, ServiceEvent
<1>6. ASSUME NEW w \in Workers, Step(w)
      PROVE  spent'["gateway"] = 0
    <2>1. CASE LookUp(w)
        BY <1>3, <2>1 DEF LookUp
    <2>2. CASE TearDown(w)
        BY <1>3, <2>2 DEF TearDown, DeleteObject, GetGateway, PutGateway, DeleteRecord
    <2>3. CASE ReadCaches(w) \/ FinishSync(w)
        BY <2>3 DEF ReadCaches, FinishSync
    <2>4. CASE Decide(w)
        BY <1>3, <2>4 DEF Decide
    <2>5. CASE Create(w) \/ Refuse(w) \/ Update(w)
        BY <1>3, <2>5 DEF Create, CreateRecord, CreateObject, PutObject, GetGateway, PutGateway,
              PutStatus, Refuse, Update, UpdateObject
    <2> QED BY <1>6, <2>1, <2>2, <2>3, <2>4, <2>5 DEF Step
<1> QED BY <1>3, <1>4, <1>5, <1>6 DEF Next, StartSync, vars

\* Only who has the Gateway in hand can make the copies of others stale.
LeavesCopies(w) ==
    \/ pc[w] \in GatewayInHand
    \/ \A v \in Workers \ {w} : job'[v].gwFresh = job[v].gwFresh

\* w takes a step from a good state in which nobody races.
HostMoves(w) == Moves(w) /\ HostInv /\ NoGatewayRace /\ LeavesCopies(w)

LEMMA WorkerLeavesCopies ==
    ASSUME TypeOK, NEW w \in Workers, Step(w)
    PROVE  LeavesCopies(w)
<1>1. CASE UNCHANGED job
    BY <1>1 DEF LeavesCopies
<1>2. ASSUME NEW new, job' = [job EXCEPT ![w] = new]
      PROVE  LeavesCopies(w)
    BY <1>2 DEF LeavesCopies, TypeOK
<1>3. CASE LookUp(w)
    <2>1. PICK r : job' = [job EXCEPT ![w] = [NoJob EXCEPT !.foo = fooCache[running[w]],
                                                          !.fresh = ~ fooLag[running[w]],
                                                          !.doomed = r]]
        BY <1>3 DEF LookUp
    <2> QED BY <1>2, <2>1
<1>4. ASSUME NEW here, NEW found, NEW missing, GetGateway(w, here, found, missing)
      PROVE  LeavesCopies(w)
    <2>1. CASE job' = [job EXCEPT ![w].gwFresh = TRUE]
        BY <2>1 DEF LeavesCopies, TypeOK
    <2> QED BY <1>1, <1>4, <2>1 DEF GetGateway
<1>5. ASSUME NEW here \in GatewayInHand, NEW hosts, NEW next, PutGateway(w, here, hosts, next)
      PROVE  LeavesCopies(w)
    BY <1>5 DEF PutGateway, LeavesCopies
<1>6. CASE TearDown(w)
    BY <1>1, <1>4, <1>5, <1>6 DEF TearDown, DeleteObject, DeleteRecord, GatewayInHand
<1>7. CASE ReadCaches(w)
    <2>1. CASE job' = [job EXCEPT ![w].ep = epCache[running[w]], ![w].svc = svcCache[running[w]]]
        BY <2>1 DEF LeavesCopies, TypeOK
    <2> QED BY <1>1, <1>7, <2>1 DEF ReadCaches
<1>8. CASE Decide(w) \/ Refuse(w) \/ Update(w)
    BY <1>1, <1>8 DEF Decide, Refuse, PutStatus, Update, UpdateObject, PutObject
<1>9. CASE Create(w)
    BY <1>1, <1>4, <1>5, <1>9 DEF Create, CreateRecord, CreateObject, PutObject, PutStatus,
       GatewayInHand
<1>10. CASE FinishSync(w)
    BY <1>2, <1>10 DEF FinishSync
<1> QED BY <1>3, <1>6, <1>7, <1>8, <1>9, <1>10 DEF Step

LEMMA CopiesStayFresh ==
    ASSUME NEW w \in Workers, HostMoves(w), gw # None,
           pc'[w] \in GatewayInHand => job'[w].gwFresh
    PROVE  CopyIsFresh'
<1> SUFFICES ASSUME NEW v \in Workers, pc'[v] \in GatewayInHand
             PROVE  job'[v].gwFresh
    BY DEF CopyIsFresh
<1>1. CASE v # w
    <2>1. pc[v] \in GatewayInHand
        BY <1>1 DEF HostMoves, Moves, LeavesOthers
    <2>2. pc[w] \notin GatewayInHand
        BY <1>1, <2>1 DEF HostMoves, NoGatewayRace
    <2>3. job'[v].gwFresh = job[v].gwFresh
        BY <1>1, <2>2 DEF HostMoves, LeavesCopies
    <2> QED BY <2>1, <2>3 DEF HostMoves, HostInv, HostRest, CopyIsFresh
<1> QED BY <1>1

\* A step that writes neither a record nor the Gateway.
LEMMA SameHosts ==
    ASSUME NEW w \in Workers, HostMoves(w), UNCHANGED <<rec, gw>>,
           \/ gw = None
           \/ /\ pc'[w] \in GatewayInHand => job'[w].gwFresh
              /\ \/ /\ running[w] = None \/ pc[w] \notin HostMissingAt
                    /\ running'[w] = None \/ pc'[w] \notin HostMissingAt
                 \/ /\ running'[w] = running[w]
                    /\ pc[w] \in HostMissingAt <=> pc'[w] \in HostMissingAt
    PROVE  HostsPlaced' /\ CopyIsFresh'
<1>1. CASE gw = None
    BY <1>1 DEF HostsPlaced, CopyIsFresh
<1>2. CASE gw # None
    <2>1. ASSUME NEW j \in Keys
          PROVE  At(j, HostMissingAt)' <=> At(j, HostMissingAt)
        BY <1>2, OneHand, RouteSyncAssumption DEF HostMoves, Moves, LeaseInv, IInv
    <2>2. HostsPlaced'
        BY <1>2, <2>1 DEF HostMoves, HostInv, HostRest, HostsPlaced
    <2>3. CopyIsFresh'
        BY <1>2, CopiesStayFresh
    <2> QED BY <2>2, <2>3
<1> QED BY <1>1, <1>2

\* The write of a record: its route has no host before, and none after.
LEMMA RecordKeepsHosts ==
    ASSUME NEW w \in Workers, HostMoves(w), UNCHANGED <<gw, running>>, running[w] \in Keys,
           \A j \in Keys : j # running[w] => rec'[j] = rec[j],
           rec[running[w]] = None \/ pc[w] \in HostMissingAt,
           rec'[running[w]] = None \/ pc'[w] \in HostMissingAt,
           pc'[w] \notin GatewayInHand
    PROVE  HostsPlaced' /\ CopyIsFresh'
<1>1. CopyIsFresh'
    BY CopiesStayFresh DEF CopyIsFresh
<1>2. ASSUME gw # None, NEW r \in Routes
      PROVE  r \in gw <=> \E j \in Keys : rec'[j] = r /\ ~ At(j, HostMissingAt)'
    <2>1. r # None
        BY RouteSyncAssumption
    <2>2. ASSUME NEW j \in Keys
          PROVE  rec[j] = r /\ ~ At(j, HostMissingAt) <=> rec'[j] = r /\ ~ At(j, HostMissingAt)'
        BY <2>1, OneHand DEF HostMoves, Moves, LeaseInv, IInv
    <2> QED BY <1>2, <2>2 DEF HostMoves, HostInv, HostRest, HostsPlaced
<1>3. HostsPlaced'
    BY <1>2 DEF HostsPlaced
<1> QED BY <1>1, <1>3

\* The write of the Gateway, of which the worker has a fresh copy if there is one.
LEMMA WriteKeepsHosts ==
    ASSUME NEW w \in Workers, HostMoves(w), running[w] \in Keys,
           \/ PutGateway(w, "delGwPut", HostsWithout(w), "delRec")
           \/ PutGateway(w, "crGwPut", HostsWith(w), "status")
    PROVE  HostsPlaced' /\ CopyIsFresh'
<1> DEFINE k == running[w]
<1>1. /\ UNCHANGED <<rec, running>>
      /\ \/ pc[w] = "delGwPut" /\ pc'[w] = "delRec"
         \/ pc[w] = "crGwPut" /\ pc'[w] = "status"
    BY DEF PutGateway, Goto, workVars, HostMoves, Moves,
              LeaseInv, IInv, TypeOK
<1>2. gw # None => CopyIsFresh'
    BY <1>1, CopiesStayFresh DEF GatewayInHand
<1>3. CASE gw = None
    <2>1. ~ job[w].gwFresh
        BY <1>3, NoneAssumption DEF HostMoves, Moves, LeaseInv, IInv, Structure, FreshGatewayExists
    <2>2. gw' = gw
        BY <2>1 DEF PutGateway
    <2> QED BY <1>3, <2>2 DEF HostsPlaced, CopyIsFresh
<1>4. CASE gw # None
    <2>1. job[w].gwFresh
        BY <1>1, <1>4 DEF HostMoves, HostInv, HostRest, CopyIsFresh, GatewayInHand
    <2>2. gw' = IF pc[w] = "delGwPut" THEN HostsWithout(w) ELSE HostsWith(w)
        BY <1>1, <2>1, NoCallFails DEF PutGateway, HostMoves, Moves, LeaseInv, IInv
    <2>3. /\ pc[w] = "delGwPut" => job[w].doomed = rec[k]
          /\ pc[w] = "crGwPut" => job[w].foo.route = rec[k]
        BY DEF HostMoves, Moves, LeaseInv, IInv, Knowledge, Knows, KnowsWhenCalm, TearDownLabels,
               CreateLabels, Calm
    <2>4. gw' = IF pc[w] = "delGwPut" THEN gw \ {rec[k]} ELSE gw \cup {rec[k]}
        BY <1>1, <2>2, <2>3 DEF HostsWithout, HostsWith
    <2>5. ASSUME NEW r \in Routes
          PROVE  r \in gw' <=> \E j \in Keys : rec[j] = r /\ ~ At(j, HostMissingAt)'
        <3>1. r \in gw <=> \E j \in Keys : rec[j] = r /\ ~ At(j, HostMissingAt)
            BY <1>4 DEF HostMoves, Moves, HostInv, HostRest, HostsPlaced
        <3>2. r # None
            BY RouteSyncAssumption
        <3>3. \A j \in Keys : rec[j] = r /\ rec[k] = r => j = k
            BY <3>2 DEF HostMoves, Moves, LeaseInv, RoutesAreExclusive, Lease!Exclusive
        <3>4. ASSUME NEW j \in Keys
              PROVE  IF j = k THEN /\ At(j, HostMissingAt) <=> pc[w] \in HostMissingAt
                                   /\ At(j, HostMissingAt)' <=> pc'[w] \in HostMissingAt
                              ELSE At(j, HostMissingAt)' <=> At(j, HostMissingAt)
            BY <1>1, OneHand DEF HostMoves, Moves, LeaseInv, IInv
        <3>5. CASE pc[w] = "delGwPut"
            <4>1. pc[w] \notin HostMissingAt /\ pc'[w] \in HostMissingAt
                BY <1>1, <3>5 DEF HostMissingAt
            <4>2. gw' = gw \ {rec[k]}
                BY <2>4, <3>5
            <4> QED BY <3>1, <3>3, <3>4, <4>1, <4>2
        <3>6. CASE pc[w] = "crGwPut"
            <4>1. pc[w] \in HostMissingAt /\ pc'[w] \notin HostMissingAt
                BY <1>1, <3>6 DEF HostMissingAt
            <4>2. gw' = gw \cup {rec[k]}
                BY <2>4, <3>6
            <4> QED BY <3>1, <3>3, <3>4, <4>1, <4>2
        <3> QED BY <1>1, <3>5, <3>6
    <2> QED BY <1>1, <1>2, <1>4, <2>5 DEF HostsPlaced
<1> QED BY <1>3, <1>4

LEMMA WorkerKeepsHosts ==
    ASSUME NEW w \in Workers, HostMoves(w), Step(w)
    PROVE  HostsPlaced' /\ CopyIsFresh'
<1> USE DEF HostMissingAt, GatewayInHand
<1>1. running[w] \in Keys
    BY WorkerLeavesOthers DEF HostMoves, Moves, LeaseInv, IInv
<1>2. ASSUME UNCHANGED <<rec, gw, running>>, pc[w] \in HostMissingAt <=> pc'[w] \in HostMissingAt,
             pc'[w] \notin {"delGwPut", "crGwPut"}
      PROVE  HostsPlaced' /\ CopyIsFresh'
    BY <1>2, SameHosts
<1>3. CASE LookUp(w) \/ ReadCaches(w) \/ Decide(w) \/ Refuse(w)
    <2>1. /\ UNCHANGED <<rec, gw, running>> /\ pc[w] \in {"lookUp", "caches", "decide", "taken"}
          /\ pc'[w] \in {"delEp", "caches", "decide", "upSvc", "taken", "crRec", "done"}
        BY <1>3 DEF LookUp, ReadCaches, Decide, Refuse, PutStatus, Goto, istioVars, workVars,
              HostMoves, Moves, LeaseInv, IInv, TypeOK
    <2> QED BY <1>2, <2>1
<1>4. ASSUME NEW here, NEW kind, NEW next, NEW applies,
             DeleteObject(w, here, kind, next) \/ PutObject(w, here, kind, applies, next),
             here \in HostMissingAt <=> next \in HostMissingAt,
             next \notin {"delGwPut", "crGwPut"}
      PROVE  HostsPlaced' /\ CopyIsFresh'
    <2>1. UNCHANGED <<rec, gw, running>> /\ pc[w] = here /\ pc'[w] = next
        BY <1>4 DEF DeleteObject, PutObject, Goto, workVars, HostMoves, Moves,
              LeaseInv, IInv, TypeOK
    <2> QED BY <1>2, <1>4, <2>1
<1>5. CASE \/ GetGateway(w, "delGwGet", "delGwPut", "delRec")
           \/ GetGateway(w, "crGwGet", "crGwPut", "done")
    <2>1. /\ UNCHANGED <<rec, gw, running>>
          /\ \/ gw = None
             \/ /\ job' = [job EXCEPT ![w].gwFresh = TRUE]
                /\ \/ pc[w] = "delGwGet" /\ pc'[w] = "delGwPut"
                   \/ pc[w] = "crGwGet" /\ pc'[w] = "crGwPut"
        BY <1>5, NoCallFails DEF GetGateway, Goto, istioVars, workVars, HostMoves, Moves,
              LeaseInv, IInv, TypeOK
    <2>2. job' = [job EXCEPT ![w].gwFresh = TRUE] => job'[w].gwFresh
        BY DEF HostMoves, Moves, LeaseInv, IInv, TypeOK, Jobs
    <2> QED BY <2>1, <2>2, SameHosts
<1>6. CASE DeleteRecord(w)
    <2>1. /\ UNCHANGED <<gw, running>> /\ pc[w] = "delRec" /\ pc'[w] = "caches"
          /\ rec' = [rec EXCEPT ![running[w]] = None]
        BY <1>6, NoCallFails DEF DeleteRecord, Goto, workVars, HostMoves, Moves,
              LeaseInv, IInv, TypeOK
    <2>2. rec'[running[w]] = None /\ \A j \in Keys : j # running[w] => rec'[j] = rec[j]
        BY <1>1, <2>1 DEF HostMoves, Moves, LeaseInv, IInv, TypeOK
    <2> QED BY <1>1, <2>1, <2>2, RecordKeepsHosts
<1>7. CASE CreateRecord(w)
    <2>1. /\ UNCHANGED <<gw, running>> /\ pc[w] = "crRec" /\ pc'[w] = "crEp"
          /\ \A j \in Keys : j # running[w] => rec'[j] = rec[j]
        BY <1>1, <1>7 DEF CreateRecord, Goto, workVars, HostMoves, Moves,
              LeaseInv, IInv, TypeOK
    <2>2. rec[running[w]] = None
        BY <1>1, <2>1, NameIsFreeThroughout DEF HostMoves, Moves, HostInv
    <2> QED BY <1>1, <2>1, <2>2, RecordKeepsHosts
<1>8. CASE PutStatus(w, "status", job[w].foo.route)
    <2>1. UNCHANGED <<rec, gw, running>> /\ pc[w] = "status" /\ pc'[w] = "done"
        BY <1>8 DEF PutStatus, Goto, istioVars, workVars, HostMoves, Moves,
              LeaseInv, IInv, TypeOK
    <2> QED BY <1>2, <2>1
<1>9. CASE FinishSync(w)
    <2>1. UNCHANGED <<rec, gw>> /\ pc[w] = "done" /\ pc'[w] = "idle"
        BY <1>9 DEF FinishSync, Goto, istioVars, HostMoves, Moves, LeaseInv, IInv,
              TypeOK
    <2> QED BY <2>1, SameHosts
<1>10. CASE TearDown(w)
    <2>1. CASE \/ DeleteObject(w, "delEp", "ep", "delSvc")
               \/ DeleteObject(w, "delSvc", "svc", "delVS")
               \/ DeleteObject(w, "delVS", "vs", "delDR")
               \/ DeleteObject(w, "delDR", "dr", "delGwGet")
        BY <1>4, <2>1
    <2> QED BY <1>1, <1>5, <1>6, <1>10, <2>1, WriteKeepsHosts DEF TearDown
<1>11. CASE Create(w)
    BY <1>1, <1>4, <1>5, <1>7, <1>8, <1>11, WriteKeepsHosts DEF Create, CreateObject
<1>12. CASE Update(w)
    BY <1>4, <1>12 DEF Update, UpdateObject
<1> QED BY <1>3, <1>9, <1>10, <1>11, <1>12 DEF Step

LEMMA SurroundingsKeepHosts ==
    ASSUME HostInv, UNCHANGED <<rec, gw, running, pc>>,
           \A w \in Workers : job'[w].gwFresh = job[w].gwFresh
    PROVE  HostsPlaced' /\ CopyIsFresh'
BY DEF HostInv, HostRest, HostsPlaced, CopyIsFresh, At

LEMMA EnvironmentKeepsHosts ==
    ASSUME OwnerRests, HostInv, Environment \/ Informers
    PROVE  HostsPlaced' /\ CopyIsFresh'
<1>1. UNCHANGED <<rec, running, pc>>
    BY EnvironmentLeavesSyncs, InformersLeaveSyncs DEF HostInv, LeaseInv, IInv, LeavesSyncs
<1>2. ASSUME NEW k, NEW new, ChangeFoo(k, new)
      PROVE  gw' = gw /\ \A w \in Workers : job'[w].gwFresh = job[w].gwFresh
    BY <1>2 DEF ChangeFoo, istioVars, HostInv, LeaseInv, IInv, TypeOK, Jobs
<1>3. \A new : ~ GatewayChanges(new)
    BY DEF OwnerRests, GatewayChanges, Spend, HostInv, HostRest
<1>4. CASE Environment
    BY <1>1, <1>2, <1>3, <1>4, SurroundingsKeepHosts DEF Environment, UserCreates, UserEdits,
       UserDeletes, EndpointsChange, ServiceChanges, istioVars
<1>5. CASE Informers
    BY <1>1, <1>5, SurroundingsKeepHosts DEF Informers, FooEvent, FooTombstone, Resync,
       EndpointsEvent, ServiceEvent, istioVars
<1> QED BY <1>4, <1>5

LEMMA HostStep ==
    ASSUME Undisturbed, OwnerRests, HostInv, NoNameRace, NoGatewayRace, [Next]_vars
    PROVE  HostInv'
<1>1. LeaseInv' /\ spent'["gateway"] = 0
    BY LeaseStep, OwnerStaysAtRest DEF HostInv, HostRest, LeaseInv, IInv
<1> DEFINE Good(w) == LeavesOthers(w) /\ LeavesCopies(w)
<1>0. ASSUME NEW w \in Workers, Good(w)
      PROVE  HostMoves(w)
    BY <1>0, <1>1 DEF HostMoves, Moves, HostInv, LeaseInv, IInv
<1>2. ASSUME NEW w \in Workers, NEW k \in Keys, StartSync(w, k)
      PROVE  HostsPlaced' /\ CopyIsFresh'
    <2>1. UNCHANGED <<rec, gw>> /\ running[w] = None /\ pc'[w] = "lookUp"
        BY <1>2 DEF StartSync, Queue!Start, Goto, istioVars, HostInv, LeaseInv, IInv, TypeOK
    <2>2. job' = job
        BY <1>2 DEF StartSync
    <2>3. HostMoves(w)
        BY <1>0, <1>2, <2>2, StartLeavesOthers DEF LeavesCopies, HostInv, LeaseInv, IInv
    <2> QED BY <2>1, <2>3, SameHosts DEF HostMissingAt, GatewayInHand
<1>3. ASSUME UNCHANGED vars
      PROVE  HostsPlaced' /\ CopyIsFresh'
    <2>1. UNCHANGED <<rec, gw, running, pc, job>>
        BY <1>3 DEF vars, istioVars, workVars
    <2> QED BY <2>1, SurroundingsKeepHosts
<1>4. \A c \in Clusters : ~ Crash(c)
    BY DEF Undisturbed, HostInv, LeaseInv, Calm, Crash, Spend
<1>5. HostsPlaced' /\ CopyIsFresh'
    <2>1. ASSUME NEW w \in Workers, Step(w)
          PROVE  HostsPlaced' /\ CopyIsFresh'
        <3>1. HostMoves(w)
            BY <1>0, <2>1, WorkerLeavesOthers, WorkerLeavesCopies DEF HostInv, LeaseInv, IInv
        <3> QED BY <2>1, <3>1, WorkerKeepsHosts
    <2> QED BY <1>2, <1>3, <1>4, <2>1, EnvironmentKeepsHosts DEF Next
<1> QED BY <1>1, <1>5 DEF HostInv, HostRest

LEMMA HostInit == Init => HostInv
<1> SUFFICES ASSUME Init PROVE HostInv
    OBVIOUS
<1>1. HostRest
    BY RouteSyncAssumption DEF Init, Bounded, HostRest, HostsPlaced, CopyIsFresh, GatewayInHand
<1> QED BY <1>1, LeaseInit DEF HostInv

LEMMA HostHolds ==
    ASSUME Undisturbed, OwnerRests
    PROVE  SafetySpec /\ []NoNameRace /\ []NoGatewayRace => []HostInv
<1>1. HostInv /\ NoNameRace /\ NoGatewayRace /\ [Next]_vars => HostInv'
    BY HostStep
<1> QED BY <1>1, HostInit, PTL DEF SafetySpec

\* Left alone, syncs that do not race keep the Gateway exact, although they
\* read and write it in separate calls and between those of others: it has no
\* host of a route without a record, and that of every recorded route of whose
\* ServiceRoute no sync is under way.
THEOREM HostsAreExact ==
    ASSUME Undisturbed, OwnerRests
    PROVE  SafetySpec /\ []NoNameRace /\ []NoGatewayRace => []HostsAreRecorded
<1>1. HostInv => HostsAreRecorded
    <2> SUFFICES ASSUME HostInv, gw # None
                 PROVE  /\ gw \subseteq {rec[k] : k \in Keys}
                        /\ \A k \in Keys : rec[k] # None /\ ~ Queue!InHand(k) => rec[k] \in gw
        BY DEF HostsAreRecorded
    <2>1. gw \subseteq Routes /\ \A k \in Keys : rec[k] # None => rec[k] \in Routes
        BY DEF HostInv, LeaseInv, IInv, TypeOK
    <2>2. \A k \in Keys : ~ Queue!InHand(k) => ~ At(k, HostMissingAt)
        BY DEF Queue!InHand, At
    <2> QED BY <2>1, <2>2 DEF HostInv, HostRest, HostsPlaced
<1> QED BY <1>1, HostHolds, PTL

-----------------------------------------------------------------------------
(* What a sync has done when it ends, under the same conditions.           *)

\* The calls before which the objects that carry the backend are in place.
EpMadeAt == {"crSvc", "crVS", "crDR", "crGwGet", "crGwPut", "status"}
SvcMadeAt == {"crVS", "crDR", "crGwGet", "crGwPut", "status", "upEp"}

CarriesBackend(w) ==
    LET r == job[w].foo.route
    IN  rec[running[w]] = r /\ \A kind \in {"ep", "svc"} : objs[kind][r] = Made(w, kind)

\* How far w has come towards what it promises.
Delivers(w) ==
    LET r == job[w].foo.route
    IN  /\ pc[w] \in TearDownLabels \cup {"caches"} => job[w].ep = None
        /\ pc[w] \in {"caches", "done"} /\ job[w].foo = None => rec[running[w]] = None
        /\ pc[w] = "taken" => rec[running[w]] = None
        /\ pc[w] \in EpMadeAt => objs["ep"][r] = Made(w, "ep")
        /\ pc[w] \in SvcMadeAt => objs["svc"][r] = Made(w, "svc")
        /\ pc[w] = "done" /\ job[w].ep # None =>
              \/ CarriesBackend(w) /\ r \in Routes
              \/ /\ rec[running[w]] = None
                 /\ job[w].fresh => foo[running[w]].status = Taken

ServeInv == HostInv /\ \A w \in Workers : Delivers(w)

\* What a step of w leaves of the work of the others: the backends they copy
\* and the routes that are not its own.
LeavesWork(w) ==
    /\ \A v \in Workers \ {w} : job'[v].ep = job[v].ep /\ job'[v].svc = job[v].svc
    /\ \A x \in Kinds, r \in Routes :
          objs'[x][r] = objs[x][r] \/ (running[w] \in Keys /\ r = rec[running[w]])

LEMMA WorkerLeavesWork ==
    ASSUME LeaseInv, NEW w \in Workers, Moves(w), Step(w)
    PROVE  LeavesWork(w)
<1> USE DEF LeavesWork
<1>1. running[w] \in Keys
    BY WorkerLeavesOthers DEF LeaseInv, IInv
<1>2. ASSUME UNCHANGED objs, UNCHANGED job \/ \E new : job' = [job EXCEPT ![w] = new]
      PROVE  LeavesWork(w)
    BY <1>2 DEF LeaseInv, IInv, TypeOK
<1>3. ASSUME UNCHANGED job,
             \A x \in Kinds, r \in Routes : objs'[x][r] = objs[x][r] \/ r = rec[running[w]]
      PROVE  LeavesWork(w)
    BY <1>1, <1>3
<1>4. CASE LookUp(w)
    <2>1. PICK r : job' = [job EXCEPT ![w] = [NoJob EXCEPT !.foo = fooCache[running[w]],
                                                          !.fresh = ~ fooLag[running[w]],
                                                          !.doomed = r]]
        BY <1>4 DEF LookUp
    <2> QED BY <1>2, <1>4, <2>1 DEF LookUp, istioVars
<1>5. ASSUME NEW here, NEW found, NEW missing, GetGateway(w, here, found, missing)
      PROVE  LeavesWork(w)
    <2>1. CASE job' = [job EXCEPT ![w].gwFresh = TRUE]
        BY <1>2, <1>5, <2>1 DEF GetGateway, istioVars
    <2> QED BY <1>2, <1>5, <2>1 DEF GetGateway, istioVars
<1>6. ASSUME NEW here, NEW hosts, NEW next, PutGateway(w, here, hosts, next)
      PROVE  LeavesWork(w)
    <2>1. CASE job' = [job EXCEPT ![w].gwFresh = FALSE]
        BY <1>2, <1>6, <2>1 DEF PutGateway
    <2>2. CASE job' = GatewayStale
        BY <1>6, <2>2 DEF PutGateway, GatewayStale, LeaseInv, IInv, TypeOK, Jobs
    <2> QED BY <1>6, <2>1, <2>2 DEF PutGateway
<1>7. ASSUME NEW here \in TearDownLabels, NEW kind \in Kinds, NEW next,
             DeleteObject(w, here, kind, next)
      PROVE  LeavesWork(w)
    <2>1. job[w].doomed = rec[running[w]]
        BY <1>7 DEF DeleteObject, LeaseInv, IInv, Knowledge, Knows
    <2>2. \A x \in Kinds, r \in Routes : objs'[x][r] = objs[x][r] \/ r = rec[running[w]]
        BY <1>7, <2>1, OneObject DEF DeleteObject, LeaseInv, IInv, TypeOK
    <2> QED BY <1>3, <1>7, <2>2 DEF DeleteObject
<1>8. ASSUME NEW here \in CreateLabels \cup UpdateLabels, NEW kind \in Kinds, NEW applies, NEW next,
             PutObject(w, here, kind, applies, next)
      PROVE  LeavesWork(w)
    <2>1. job[w].foo.route = rec[running[w]] /\ job[w].foo.route \in Routes
        BY <1>8 DEF PutObject, LeaseInv, IInv, Calm, Knowledge, KnowsWhenCalm, Structure, HasRoute,
              Serving
    <2>2. \A x \in Kinds, r \in Routes : objs'[x][r] = objs[x][r] \/ r = rec[running[w]]
        BY <1>1, <1>8, <2>1, PutObjectStep DEF LeaseInv, IInv
    <2> QED BY <1>3, <1>8, <2>2 DEF PutObject
<1>9. CASE TearDown(w)
    BY <1>2, <1>5, <1>6, <1>7, <1>9 DEF TearDown, DeleteRecord, TearDownLabels, Kinds
<1>10. CASE ReadCaches(w)
    <2>1. CASE job' = [job EXCEPT ![w].ep = epCache[running[w]], ![w].svc = svcCache[running[w]]]
        BY <1>10, <2>1 DEF ReadCaches, istioVars, LeaseInv, IInv, TypeOK
    <2> QED BY <1>2, <1>10, <2>1 DEF ReadCaches, istioVars
<1>11. CASE Decide(w) \/ Refuse(w)
    BY <1>2, <1>11 DEF Decide, Refuse, PutStatus, istioVars
<1>12. CASE Create(w)
    BY <1>2, <1>5, <1>6, <1>8, <1>12 DEF Create, CreateRecord, CreateObject, PutStatus, istioVars,
       CreateLabels, Kinds
<1>13. CASE Update(w)
    BY <1>8, <1>13 DEF Update, UpdateObject, UpdateLabels, Kinds
<1>14. CASE FinishSync(w)
    BY <1>2, <1>14 DEF FinishSync, istioVars
<1> QED BY <1>4, <1>9, <1>10, <1>11, <1>12, <1>13, <1>14 DEF Step

\* The routes of two ServiceRoutes in hand are different.
LEMMA OthersDeliver ==
    ASSUME ServeInv, NEW w \in Workers, Moves(w), LeavesWork(w), NEW v \in Workers \ {w}
    PROVE  Delivers(v)'
<1> DEFINE r == job[v].foo.route
<1>1. /\ pc'[v] = pc[v] /\ running'[v] = running[v] /\ job'[v].foo = job[v].foo
      /\ job'[v].ep = job[v].ep /\ job'[v].svc = job[v].svc /\ job'[v].fresh = job[v].fresh
    BY DEF Moves, LeavesOthers, LeavesWork
<1>2. CASE pc[v] = "idle"
    BY <1>1, <1>2 DEF Delivers, TearDownLabels, CreateLabels, UpdateLabels, Serving, EpMadeAt,
       SvcMadeAt
<1>3. CASE pc[v] # "idle"
    <2>1. running[v] \in Keys
        BY <1>3 DEF Moves, LeaseInv, IInv, TypeOK, Structure, IdleIsFree
    <2>2. rec'[running[v]] = rec[running[v]] /\ foo'[running[v]] = foo[running[v]]
        BY <2>1 DEF Moves, LeavesOthers
    <2>3. ASSUME rec[running[v]] = r, r \in Routes, NEW kind \in Kinds
          PROVE  objs'[kind][r] = objs[kind][r]
        <3>1. running[w] # running[v]
            BY <2>1, RouteSyncAssumption DEF Moves, LeaseInv, IInv, Structure, KeyInOneHand
        <3>2. r # None
            BY <2>3, RouteSyncAssumption
        <3>3. ~ (running[w] \in Keys /\ r = rec[running[w]])
            BY <2>1, <2>3, <3>1, <3>2 DEF Moves, LeaseInv, RoutesAreExclusive, Lease!Exclusive
        <3> QED BY <2>3, <3>3 DEF LeavesWork
    <2>4. pc[v] \in EpMadeAt \cup SvcMadeAt => rec[running[v]] = r /\ r \in Routes
        BY DEF Moves, LeaseInv, IInv, Calm, Knowledge, KnowsWhenCalm, Structure, HasRoute, Serving,
               EpMadeAt, SvcMadeAt, CreateLabels, UpdateLabels
    <2>5. \A kind \in Kinds : Made(v, kind)' = Made(v, kind)
        BY <1>1 DEF Made
    <2>6. Delivers(v)
        BY DEF ServeInv
    <2>7. pc[v] \in EpMadeAt => objs'["ep"][r] = Made(v, "ep")'
        BY <2>3, <2>4, <2>5, <2>6 DEF Delivers, Kinds
    <2>8. pc[v] \in SvcMadeAt => objs'["svc"][r] = Made(v, "svc")'
        BY <2>3, <2>4, <2>5, <2>6 DEF Delivers, Kinds
    <2>9. CarriesBackend(v) /\ r \in Routes => CarriesBackend(v)'
        BY <1>1, <2>2, <2>3, <2>5 DEF CarriesBackend, Kinds
    <2> QED BY <1>1, <2>2, <2>6, <2>7, <2>8, <2>9 DEF Delivers
<1> QED BY <1>2, <1>3

\* A call that leaves what has been achieved as it is.
LEMMA QuietStepDelivers ==
    ASSUME ServeInv, NEW w \in Workers, UNCHANGED <<rec, objs, running, foo>>,
           job'[w].foo = job[w].foo, job'[w].ep = job[w].ep, job'[w].svc = job[w].svc,
           \/ pc[w] \in TearDownLabels /\ pc'[w] \in TearDownLabels
           \/ /\ pc[w] \in Serving /\ pc'[w] \in Serving /\ pc'[w] # "taken"
              /\ pc'[w] \in EpMadeAt => pc[w] \in EpMadeAt
              /\ pc'[w] \in SvcMadeAt => pc[w] \in SvcMadeAt
    PROVE  Delivers(w)'
<1>1. \A kind \in {"ep", "svc"} : Made(w, kind)' = Made(w, kind)
    BY DEF Made
<1>2. Delivers(w)
    BY DEF ServeInv
<1> QED BY <1>1, <1>2 DEF Delivers, TearDownLabels, CreateLabels, UpdateLabels, Serving, EpMadeAt,
           SvcMadeAt

\* The last call of a sync that has served its route.
LEMMA ServedSyncDelivers ==
    ASSUME ServeInv, NEW w \in Workers, UNCHANGED <<rec, objs, running>>,
           job'[w].foo = job[w].foo, job'[w].ep = job[w].ep, job'[w].svc = job[w].svc,
           pc[w] \in EpMadeAt \cap SvcMadeAt, pc'[w] = "done"
    PROVE  Delivers(w)'
<1>1. \A kind \in {"ep", "svc"} : Made(w, kind)' = Made(w, kind)
    BY DEF Made
<1>2. Delivers(w) /\ pc[w] \in CreateLabels
    BY DEF ServeInv, CreateLabels, EpMadeAt, SvcMadeAt
<1>3. rec[running[w]] = job[w].foo.route /\ job[w].foo.route \in Routes /\ job[w].foo # None
    BY <1>2, NoneAssumption DEF ServeInv, HostInv, LeaseInv, IInv, Calm, Knowledge, KnowsWhenCalm,
       Structure, HasRoute, Serving
<1>4. CarriesBackend(w)'
    BY <1>1, <1>2, <1>3 DEF Delivers, CarriesBackend
<1> QED BY <1>3, <1>4 DEF Delivers, TearDownLabels, CreateLabels, UpdateLabels, Serving, EpMadeAt,
           SvcMadeAt

LEMMA CreationDelivers ==
    ASSUME ServeInv, NEW w \in Workers, Moves(w), running[w] \in Keys,
           NEW here \in CreateLabels, NEW kind \in Kinds, NEW next \in CreateLabels,
           here \in MissingAt[kind],
           \/ kind = "ep" /\ next = "crSvc"
           \/ kind = "svc" /\ here = "crSvc"
           \/ kind \in {"vs", "dr"} /\ here \in EpMadeAt \cap SvcMadeAt,
           CreateObject(w, here, kind, next)
    PROVE  Delivers(w)'
<1>1. /\ pc[w] = here /\ pc'[w] = next /\ UNCHANGED <<rec, running, job>>
      /\ \A x \in Kinds : objs'[x][job[w].foo.route] =
                             IF x = kind THEN Made(w, kind) ELSE objs[x][job[w].foo.route]
    BY CreationIsDone
<1>2. \A x \in {"ep", "svc"} : Made(w, x)' = Made(w, x)
    BY <1>1 DEF Made
<1>3. Delivers(w)
    BY DEF ServeInv
<1>4. pc[w] \in Serving
    BY <1>1 DEF Serving
<1>5. job'[w].foo # None
    BY <1>1, <1>4, NoneAssumption DEF Moves, LeaseInv, IInv, Structure, HasRoute
<1>6. next \in EpMadeAt => objs'["ep"][job'[w].foo.route] = Made(w, "ep")'
    BY <1>1, <1>2, <1>3 DEF Delivers, Kinds, EpMadeAt, SvcMadeAt
<1>7. next \in SvcMadeAt => objs'["svc"][job'[w].foo.route] = Made(w, "svc")'
    BY <1>1, <1>2, <1>3 DEF Delivers, Kinds, EpMadeAt, SvcMadeAt
<1> QED BY <1>1, <1>5, <1>6, <1>7 DEF Delivers, TearDownLabels, CreateLabels

LEMMA UpdateDelivers ==
    ASSUME ServeInv, NEW w \in Workers, Moves(w), running[w] \in Keys, Update(w)
    PROVE  Delivers(w)'
<1> USE DEF TearDownLabels, CreateLabels, UpdateLabels, Serving, EpMadeAt, SvcMadeAt
<1>1. Delivers(w)
    BY DEF ServeInv
<1>2. CASE UpdateObject(w, "upSvc", "svc", "upEp")
    <2>1. /\ pc[w] = "upSvc" /\ pc'[w] = "upEp" /\ UNCHANGED <<rec, running, job>>
          /\ objs'["svc"][job[w].foo.route] = Made(w, "svc")
        BY <1>2, UpdateIsDone DEF Kinds
    <2>2. Made(w, "svc")' = Made(w, "svc")
        BY <2>1 DEF Made
    <2> QED BY <1>1, <2>1, <2>2 DEF Delivers
<1>3. CASE UpdateObject(w, "upEp", "ep", "done")
    <2>1. /\ pc[w] = "upEp" /\ pc'[w] = "done" /\ UNCHANGED <<rec, running, job>>
          /\ rec[running[w]] = job[w].foo.route /\ job[w].foo.route \in Routes
          /\ objs'["ep"][job[w].foo.route] = Made(w, "ep")
          /\ objs'["svc"][job[w].foo.route] = objs["svc"][job[w].foo.route]
        BY <1>3, UpdateIsDone DEF Kinds
    <2>2. \A kind \in {"ep", "svc"} : Made(w, kind)' = Made(w, kind)
        BY <2>1 DEF Made
    <2>3. CarriesBackend(w)' /\ job[w].foo # None
        BY <1>1, <2>1, <2>2, NoneAssumption
           DEF CarriesBackend, Delivers, Moves, LeaseInv, IInv, Structure, HasRoute
    <2> QED BY <2>1, <2>3 DEF Delivers
<1> QED BY <1>2, <1>3 DEF Update

LEMMA WorkerDelivers ==
    ASSUME ServeInv, NEW w \in Workers, Moves(w), Step(w)
    PROVE  Delivers(w)'
<1> USE DEF TearDownLabels, CreateLabels, UpdateLabels, Serving, EpMadeAt, SvcMadeAt
<1>1. running[w] \in Keys /\ Delivers(w)
    BY WorkerLeavesOthers DEF ServeInv, Moves, LeaseInv, IInv
<1>2. CASE LookUp(w)
    <2>1. /\ job'[w].foo = fooCache[running[w]]
          /\ pc' = [pc EXCEPT ![w] = IF job'[w].doomed # None THEN "delEp" ELSE "caches"]
          /\ job'[w].doomed = IF fooCache[running[w]] = None
                                 \/ fooCache[running[w]].route # rec[running[w]]
                              THEN rec[running[w]] ELSE None
        BY <1>2, LookUpStep DEF Moves, LeaseInv, IInv, Structure, Calm
    <2>2. UNCHANGED <<rec, running>> /\ job'[w].ep = None
        BY <1>2 DEF LookUp, NoJob, istioVars, workVars, Moves, LeaseInv, IInv, TypeOK
    <2>3. /\ pc'[w] \in {"delEp", "caches"}
          /\ pc'[w] = "caches" => job'[w].doomed = None
        BY <2>1 DEF Moves, LeaseInv, IInv, TypeOK
    <2> QED BY <2>1, <2>2, <2>3 DEF Delivers
<1>3. CASE DeleteRecord(w)
    <2>1. /\ pc[w] = "delRec" /\ pc'[w] = "caches" /\ UNCHANGED <<running, job>>
          /\ rec' = [rec EXCEPT ![running[w]] = None]
        BY <1>3, NoCallFails DEF DeleteRecord, Goto, workVars, Moves, LeaseInv, IInv, TypeOK
    <2>2. rec'[running[w]] = None
        BY <1>1, <2>1 DEF Moves, LeaseInv, IInv, TypeOK
    <2> QED BY <1>1, <2>1, <2>2 DEF Delivers
<1>4. ASSUME NEW here, NEW found, NEW missing, GetGateway(w, here, found, missing)
      PROVE  /\ UNCHANGED <<rec, objs, running, foo>>
             /\ pc[w] = here /\ pc'[w] \in {found, missing} /\ job'[w].foo = job[w].foo
             /\ job'[w].ep = job[w].ep /\ job'[w].svc = job[w].svc
    BY <1>4 DEF GetGateway, Goto, appVars, istioVars, workVars, Moves, LeaseInv, IInv, TypeOK, Jobs
<1>5. ASSUME NEW here, NEW hosts, NEW next, PutGateway(w, here, hosts, next)
      PROVE  /\ UNCHANGED <<rec, objs, running, foo>>
             /\ pc[w] = here /\ pc'[w] = next /\ job'[w].foo = job[w].foo
             /\ job'[w].ep = job[w].ep /\ job'[w].svc = job[w].svc
    BY <1>5 DEF PutGateway, GatewayStale, Goto, appVars, workVars, Moves, LeaseInv, IInv, TypeOK,
       Jobs
<1>6. CASE TearDown(w)
    <2>1. CASE \E here \in TearDownLabels, kind \in Kinds, next \in TearDownLabels :
                  DeleteObject(w, here, kind, next)
        <3>1. /\ UNCHANGED <<rec, running, job>>
              /\ pc[w] \in TearDownLabels /\ pc'[w] \in TearDownLabels
            BY <2>1 DEF DeleteObject, Goto, workVars, Moves, LeaseInv, IInv, TypeOK
        <3> QED BY <1>1, <3>1 DEF Delivers
    <2>2. CASE GetGateway(w, "delGwGet", "delGwPut", "delRec")
        BY <1>4, <2>2, QuietStepDelivers
    <2>3. CASE PutGateway(w, "delGwPut", HostsWithout(w), "delRec")
        BY <1>5, <2>3, QuietStepDelivers
    <2> QED BY <1>3, <1>6, <2>1, <2>2, <2>3 DEF TearDown, Kinds
<1>7. CASE ReadCaches(w)
    <2>1. /\ UNCHANGED <<rec, running>> /\ pc[w] = "caches" /\ job'[w].foo = job[w].foo
          /\ \/ pc'[w] = "decide"
             \/ pc'[w] = "done" /\ UNCHANGED job
        BY <1>1, <1>7, ReadCachesStep
           DEF ReadCaches, Goto, istioVars, workVars, Moves, LeaseInv, IInv, TypeOK
    <2> QED BY <1>1, <2>1 DEF Delivers
<1>8. CASE Decide(w)
    <2>1. /\ UNCHANGED <<rec, running, job>> /\ pc[w] = "decide"
          /\ \/ pc'[w] \in {"upSvc", "crRec"}
             \/ pc'[w] = "taken" /\ rec[running[w]] = None
        BY <1>8, NoCallFails DEF Decide, Goto, istioVars, workVars, Moves, LeaseInv, IInv, TypeOK
    <2> QED BY <1>1, <2>1 DEF Delivers
<1>9. CASE Refuse(w)
    <2>1. UNCHANGED <<rec, running, job>> /\ pc[w] = "taken" /\ pc'[w] = "done"
        BY <1>9 DEF Refuse, PutStatus, Goto, istioVars, workVars, Moves, LeaseInv, IInv, TypeOK
    <2>2. job[w].fresh => foo'[running[w]].status = Taken
        <3>1. job[w].foo \in FooObjects
            BY <2>1 DEF Moves, LeaseInv, IInv, Structure, HasRoute
        <3>2. job[w].fresh =>
                 foo' = [foo EXCEPT ![running[w]] = [job[w].foo EXCEPT !.status = Taken]]
            BY <1>9, NoCallFails DEF Refuse, PutStatus, Moves, LeaseInv, IInv
        <3> QED BY <1>1, <3>1, <3>2 DEF Moves, LeaseInv, IInv, TypeOK, FooObjects
    <2> QED BY <1>1, <2>1, <2>2 DEF Delivers
<1>10. CASE Create(w)
    <2>1. CASE CreateRecord(w)
        <3>1. UNCHANGED <<running, job>> /\ pc[w] = "crRec" /\ pc'[w] = "crEp"
            BY <2>1 DEF CreateRecord, Goto, workVars, Moves, LeaseInv, IInv, TypeOK
        <3> QED BY <1>1, <3>1 DEF Delivers
    <2>2. CASE \/ CreateObject(w, "crEp", "ep", "crSvc")
               \/ CreateObject(w, "crSvc", "svc", "crVS")
               \/ CreateObject(w, "crVS", "vs", "crDR")
               \/ CreateObject(w, "crDR", "dr", "crGwGet")
        BY <1>1, <2>2, CreationDelivers DEF MissingAt, LastDeletions, ServiceMissing, Kinds
    <2>3. CASE GetGateway(w, "crGwGet", "crGwPut", "done")
        BY <1>4, <2>3, QuietStepDelivers, ServedSyncDelivers
    <2>4. CASE PutGateway(w, "crGwPut", HostsWith(w), "status")
        BY <1>5, <2>4, QuietStepDelivers
    <2>5. CASE PutStatus(w, "status", job[w].foo.route)
        <3>1. UNCHANGED <<rec, objs, running, job>> /\ pc[w] = "status" /\ pc'[w] = "done"
            BY <2>5 DEF PutStatus, Goto, istioVars, workVars, Moves, LeaseInv, IInv, TypeOK
        <3> QED BY <3>1, ServedSyncDelivers
    <2> QED BY <1>10, <2>1, <2>2, <2>3, <2>4, <2>5 DEF Create
<1>11. CASE FinishSync(w)
    <2>1. pc'[w] = "idle"
        BY <1>11 DEF FinishSync, Goto, Moves, LeaseInv, IInv, TypeOK
    <2> QED BY <2>1 DEF Delivers
<1> QED BY <1>1, <1>2, <1>6, <1>7, <1>8, <1>9, <1>10, <1>11, UpdateDelivers DEF Step

LEMMA SurroundingsDeliver ==
    ASSUME ServeInv, Environment \/ Informers, NEW w \in Workers
    PROVE  Delivers(w)'
<1>1. LeavesSyncs
    BY EnvironmentLeavesSyncs, InformersLeaveSyncs DEF ServeInv, HostInv, LeaseInv, IInv
<1>2. job'[w].ep = job[w].ep /\ job'[w].svc = job[w].svc
    <2>1. ASSUME NEW k, NEW new, ChangeFoo(k, new)
          PROVE  job'[w].ep = job[w].ep /\ job'[w].svc = job[w].svc
        BY <2>1 DEF ChangeFoo, ServeInv, HostInv, LeaseInv, IInv, TypeOK, Jobs
    <2>2. ASSUME NEW new, GatewayChanges(new)
          PROVE  job'[w].ep = job[w].ep /\ job'[w].svc = job[w].svc
        BY <2>2 DEF GatewayChanges, GatewayStale, ServeInv, HostInv, LeaseInv, IInv, TypeOK, Jobs
    <2> QED BY <2>1, <2>2 DEF Environment, UserCreates, UserEdits, UserDeletes, EndpointsChange,
               ServiceChanges, Informers, FooEvent, FooTombstone, Resync, EndpointsEvent,
               ServiceEvent
<1>3. Delivers(w) /\ (pc[w] # "idle" => running[w] \in Keys)
    BY DEF ServeInv, HostInv, LeaseInv, IInv, TypeOK, Structure, IdleIsFree
<1>4. \A kind \in {"ep", "svc"} : Made(w, kind)' = Made(w, kind)
    BY <1>1, <1>2 DEF Made, LeavesSyncs
<1>5. CarriesBackend(w)' <=> CarriesBackend(w)
    BY <1>1, <1>4 DEF CarriesBackend, LeavesSyncs
<1> QED BY <1>1, <1>2, <1>3, <1>4, <1>5 DEF Delivers, LeavesSyncs

LEMMA ServeStep ==
    ASSUME Undisturbed, OwnerRests, ServeInv, NoNameRace, NoGatewayRace, [Next]_vars
    PROVE  ServeInv'
<1>1. HostInv'
    BY HostStep DEF ServeInv
<1>2. ASSUME NEW w \in Workers, LeavesOthers(w), LeavesWork(w), Delivers(w)'
      PROVE  \A v \in Workers : Delivers(v)'
    <2>1. Moves(w)
        BY <1>1, <1>2 DEF Moves, ServeInv, HostInv, LeaseInv, IInv
    <2> QED BY <1>2, <2>1, OthersDeliver
<1>3. ASSUME NEW w \in Workers, Step(w)
      PROVE  \A v \in Workers : Delivers(v)'
    <2>1. Moves(w)
        BY <1>1, <1>3, WorkerLeavesOthers DEF Moves, ServeInv, HostInv, LeaseInv, IInv
    <2> QED BY <1>2, <1>3, <2>1, WorkerLeavesWork, WorkerDelivers DEF Moves
<1>4. ASSUME NEW w \in Workers, NEW k \in Keys, StartSync(w, k)
      PROVE  \A v \in Workers : Delivers(v)'
    <2>1. LeavesOthers(w)
        BY <1>4, StartLeavesOthers DEF ServeInv, HostInv, LeaseInv, IInv
    <2>2. LeavesWork(w)
        BY <1>4 DEF StartSync, istioVars, LeavesWork
    <2>3. pc'[w] = "lookUp"
        BY <1>4 DEF StartSync, Goto, ServeInv, HostInv, LeaseInv, IInv, TypeOK
    <2>4. Delivers(w)'
        BY <2>3 DEF Delivers, TearDownLabels, CreateLabels, UpdateLabels, Serving, EpMadeAt,
           SvcMadeAt
    <2> QED BY <1>2, <2>1, <2>2, <2>4
<1>5. CASE UNCHANGED vars
    <2>1. UNCHANGED <<foo, rec, objs, running, pc, job>>
        BY <1>5 DEF vars, appVars, istioVars, workVars
    <2>2. ASSUME NEW v \in Workers
          PROVE  Delivers(v)'
        <3>1. \A kind \in {"ep", "svc"} : Made(v, kind)' = Made(v, kind)
            BY <2>1 DEF Made
        <3>2. CarriesBackend(v)' <=> CarriesBackend(v)
            BY <2>1, <3>1 DEF CarriesBackend
        <3> QED BY <2>1, <3>1, <3>2 DEF ServeInv, Delivers
    <2> QED BY <1>1, <2>2 DEF ServeInv
<1>6. \A c \in Clusters : ~ Crash(c)
    BY DEF Undisturbed, ServeInv, HostInv, LeaseInv, Calm, Crash, Spend
<1> QED BY <1>1, <1>3, <1>4, <1>5, <1>6, SurroundingsDeliver DEF Next, ServeInv

\* Left alone, and without races, a sync has done what it is there for when it
\* ends, whatever other syncs, users and backends did during its calls.
THEOREM SyncsServe ==
    ASSUME Undisturbed, OwnerRests
    PROVE  SafetySpec /\ []NoNameRace /\ []NoGatewayRace => []SyncServes
<1>1. Init => ServeInv
    <2> SUFFICES ASSUME Init PROVE ServeInv
        OBVIOUS
    <2>1. HostInv
        BY HostInit
    <2> QED BY <2>1 DEF Init, ServeInv, Delivers, TearDownLabels, CreateLabels, UpdateLabels,
               Serving, EpMadeAt, SvcMadeAt
<1>2. ServeInv /\ NoNameRace /\ NoGatewayRace /\ [Next]_vars => ServeInv'
    BY ServeStep
<1>3. ServeInv => SyncServes
    <2> SUFFICES ASSUME ServeInv, NEW w \in Workers, pc[w] = "done", job[w].ep # None,
                        CarriesBackend(w), job[w].foo.route \in Routes
                 PROVE  Serves(w)
        BY DEF ServeInv, Delivers, SyncServes
    <2> DEFINE r == job[w].foo.route
    <2>1. running[w] \in Keys /\ rec[running[w]] = r /\ r # None
        BY RouteSyncAssumption
           DEF CarriesBackend, ServeInv, HostInv, LeaseInv, IInv, TypeOK, Structure, IdleIsFree
    <2>2. ASSUME NEW labels, "done" \notin labels
          PROVE  ~ At(running[w], labels)
        BY <2>1, <2>2, RouteSyncAssumption
           DEF At, ServeInv, HostInv, LeaseInv, IInv, Structure, KeyInOneHand
    <2>3. \A kind \in Kinds : objs[kind][r] # None
        BY <2>1, <2>2 DEF ServeInv, HostInv, LeaseInv, Placed, MissingAt, LastDeletions,
           ServiceMissing, Kinds
    <2>4. gw # None => r \in gw
        BY <2>1, <2>2 DEF ServeInv, HostInv, HostRest, HostsPlaced, HostMissingAt
    <2> QED BY <2>1, <2>3, <2>4 DEF Serves, CarriesBackend, Kinds
<1> QED BY <1>1, <1>2, <1>3, PTL DEF SafetySpec

-----------------------------------------------------------------------------
(* Names that are divided among clusters or ServiceRoutes: races over a    *)
(* name stay among those it belongs to, whatever fails or crashes, and     *)
(* there are none if each ServiceRoute has names of its own.               *)

\* Each name has a home, and only ServiceRoutes that belong there ask for it.
AsksAtHome(Group, Home) ==
    \A k \in Keys : foo[k] # None /\ foo[k].route \in Routes => Home[foo[k].route] = Group[k]

\* Caches, records and syncs then have no other names.
StaysAtHome(Group, Home) ==
    /\ \A k \in Keys : /\ fooCache[k] # None /\ fooCache[k].route \in Routes
                             => Home[fooCache[k].route] = Group[k]
                       /\ rec[k] # None => Home[rec[k]] = Group[k]
    /\ \A w \in Workers :
          pc[w] \notin {"idle", "lookUp"} /\ job[w].foo # None /\ job[w].foo.route \in Routes
             => Home[job[w].foo.route] = Group[running[w]]

LEMMA WorkerStaysAtHome ==
    ASSUME NEW Group, NEW Home, TypeOK, Structure, StaysAtHome(Group, Home),
           NEW w \in Workers, Step(w)
    PROVE  StaysAtHome(Group, Home)'
<1>1. LeavesOthers(w) /\ running[w] \in Keys
    BY WorkerLeavesOthers
<1>2. ASSUME fooCache' = fooCache,
             \A k \in Keys : rec'[k] # None => Home[rec'[k]] = Group[k],
             \/ pc'[w] = "idle"
             \/ /\ running'[w] = running[w] /\ job'[w].foo = job[w].foo
                /\ pc[w] \notin {"idle", "lookUp"}
             \/ running'[w] = running[w] /\ job'[w].foo = fooCache[running[w]]
      PROVE  StaysAtHome(Group, Home)'
    BY <1>1, <1>2 DEF StaysAtHome, LeavesOthers
<1>3. CASE LookUp(w)
    <2>1. job'[w].foo = fooCache[running[w]]
        BY <1>3, LookUpStep DEF Structure
    <2> QED BY <1>2, <1>3, <2>1 DEF LookUp, appVars, istioVars, workVars, StaysAtHome
<1>4. CASE CreateRecord(w)
    <2>1. job[w].foo.route \in Routes /\ job[w].foo # None /\ pc[w] = "crRec"
        BY <1>4, NoneAssumption DEF CreateRecord, Structure, HasRoute, Serving
    <2>2. \A k \in Keys : rec'[k] = rec[k] \/ (k = running[w] /\ rec'[k] = job[w].foo.route)
        BY <1>4 DEF CreateRecord, RecordOf, TypeOK
    <2>3. \A k \in Keys : rec'[k] # None => Home[rec'[k]] = Group[k]
        BY <2>1, <2>2 DEF StaysAtHome
    <2> QED BY <1>2, <1>4, <2>3 DEF CreateRecord, appVars, workVars
<1>5. CASE DeleteRecord(w)
    <2>1. \A k \in Keys : rec'[k] \in {rec[k], None}
        BY <1>5 DEF DeleteRecord, TypeOK
    <2>2. \A k \in Keys : rec'[k] # None => Home[rec'[k]] = Group[k]
        BY <2>1 DEF StaysAtHome
    <2> QED BY <1>2, <1>5, <2>2 DEF DeleteRecord, appVars, workVars
<1>6. CASE FinishSync(w)
    <2>1. pc'[w] = "idle" /\ UNCHANGED <<fooCache, rec>>
        BY <1>6 DEF FinishSync, Goto, appVars, istioVars, TypeOK
    <2> QED BY <1>2, <2>1 DEF StaysAtHome
<1>7. CASE \/ TearDown(w) /\ ~ DeleteRecord(w)
           \/ Create(w) /\ ~ CreateRecord(w)
           \/ ReadCaches(w) \/ Decide(w) \/ Refuse(w) \/ Update(w)
    <2>1. /\ UNCHANGED <<fooCache, rec, running>> /\ pc[w] \notin {"idle", "lookUp"}
          /\ job'[w].foo = job[w].foo
        BY <1>7 DEF TearDown, DeleteObject, GetGateway, PutGateway, GatewayStale, Create,
              CreateObject, PutObject, PutStatus, ReadCaches, Decide, Refuse, Update, UpdateObject,
              appVars, istioVars, workVars, TypeOK, Jobs
    <2> QED BY <1>2, <2>1 DEF StaysAtHome
<1> QED BY <1>3, <1>4, <1>5, <1>6, <1>7 DEF Step

LEMMA HomeStep ==
    ASSUME NEW Group, NEW Home, TypeOK, Structure, AsksAtHome(Group, Home),
           StaysAtHome(Group, Home), [Next]_vars
    PROVE  StaysAtHome(Group, Home)'
<1>1. ASSUME UNCHANGED rec,
             \A k \in Keys : fooCache'[k] \in {fooCache[k], foo[k]},
             \A w \in Workers :
                \/ pc'[w] \in {"idle", "lookUp"}
                \/ pc'[w] = pc[w] /\ running'[w] = running[w] /\ job'[w].foo = job[w].foo
      PROVE  StaysAtHome(Group, Home)'
    BY <1>1 DEF StaysAtHome, AsksAtHome
<1>2. CASE Environment
    BY <1>1, <1>2, EnvironmentLeavesSyncs DEF LeavesSyncs, Environment, UserCreates, UserEdits,
       UserDeletes, ChangeFoo, EndpointsChange, ServiceChanges, GatewayChanges, appVars
<1>3. CASE Informers
    <2>1. UNCHANGED <<rec, pc, running, job>>
        BY <1>3 DEF Informers, FooEvent, FooTombstone, Resync, EndpointsEvent, ServiceEvent,
              Enqueue, HandleObject, Queue!Request, istioVars, workVars
    <2>2. \A k \in Keys : fooCache'[k] \in {fooCache[k], foo[k]}
        BY <1>3 DEF Informers, FooEvent, FooTombstone, Resync, EndpointsEvent, ServiceEvent,
              appVars, TypeOK
    <2> QED BY <1>1, <2>1, <2>2
<1>4. ASSUME NEW w \in Workers, NEW k \in Keys, StartSync(w, k)
      PROVE  StaysAtHome(Group, Home)'
    <2>1. /\ UNCHANGED <<fooCache, rec, job>>
          /\ \A v \in Workers : \/ pc'[v] = "lookUp"
                                \/ pc'[v] = pc[v] /\ running'[v] = running[v]
        BY <1>4 DEF StartSync, Queue!Start, Goto, appVars, istioVars, TypeOK
    <2> QED BY <1>1, <2>1
<1>5. ASSUME NEW c \in Clusters, Crash(c)
      PROVE  StaysAtHome(Group, Home)'
    <2>1. /\ rec' = rec /\ \A k \in Keys : fooCache'[k] \in {fooCache[k], foo[k]}
          /\ \A w \in Workers :
                \/ pc'[w] = "idle"
                \/ pc'[w] = pc[w] /\ running'[w] = running[w] /\ job'[w] = job[w]
        BY <1>5 DEF Crash, istioVars
    <2> QED BY <1>1, <2>1
<1>6. CASE UNCHANGED vars
    BY <1>1, <1>6 DEF vars, appVars, istioVars, workVars
<1> QED BY <1>2, <1>3, <1>4, <1>5, <1>6, WorkerStaysAtHome DEF Next

LEMMA HomeInit ==
    ASSUME NEW Group, NEW Home, Init, AsksAtHome(Group, Home)
    PROVE  StaysAtHome(Group, Home)
BY DEF Init, AsksAtHome, StaysAtHome

\* Two syncs of which one still creates what the other is about to claim are of
\* the same home.
RacesStayAtHome(Group) ==
    \A v, w \in Workers :
        pc[v] \in ServiceMissing /\ pc[w] = "crRec" /\ rec[running[v]] = job[w].foo.route =>
            Group[running[v]] = Group[running[w]]

\* Both syncs of a race over a name are of the home of that name.
LEMMA RacersShareAHome ==
    ASSUME IInv, NEW Group, NEW Home, StaysAtHome(Group, Home)
    PROVE  RacesStayAtHome(Group)
<1> SUFFICES ASSUME NEW v \in Workers, NEW w \in Workers, pc[v] \in ServiceMissing, pc[w] = "crRec",
                    rec[running[v]] = job[w].foo.route
             PROVE  Group[running[v]] = Group[running[w]]
    BY DEF RacesStayAtHome
<1>1. running[v] \in Keys /\ running[w] \in Keys
    BY DEF IInv, TypeOK, Structure, IdleIsFree, ServiceMissing
<1>2. job[w].foo.route \in Routes /\ job[w].foo # None /\ rec[running[v]] # None
    BY NoneAssumption, RouteSyncAssumption DEF IInv, Structure, HasRoute, Serving
<1> QED BY <1>1, <1>2 DEF StaysAtHome

\* When no name is asked for in two clusters, syncs of different clusters never
\* race over a name, with any number of workers in each, whatever calls are
\* lost and however often controllers crash; those of one cluster may.
THEOREM RacesStayInCluster ==
    ASSUME NEW Home
    PROVE  SafetySpec /\ []AsksAtHome(ClusterOf, Home) => []RacesStayAtHome(ClusterOf)
<1>1. IInv /\ StaysAtHome(ClusterOf, Home) => RacesStayAtHome(ClusterOf)
    BY RacersShareAHome
<1>2. Init /\ AsksAtHome(ClusterOf, Home) => StaysAtHome(ClusterOf, Home)
    BY HomeInit
<1>3. IInv /\ AsksAtHome(ClusterOf, Home) /\ StaysAtHome(ClusterOf, Home) /\ [Next]_vars
         => StaysAtHome(ClusterOf, Home)'
    BY HomeStep DEF IInv
<1> QED BY <1>1, <1>2, <1>3, Knowing, PTL DEF SafetySpec

\* Each ServiceRoute is a home of its own.
OwnKey == [k \in Keys |-> k]

\* Any number of workers and controllers, when each ServiceRoute has names of
\* its own: they never race over a name.
THEOREM OwnNamesNeverRace ==
    ASSUME NEW Home
    PROVE  SafetySpec /\ []AsksAtHome(OwnKey, Home) => []NoNameRace
<1>1. IInv /\ StaysAtHome(OwnKey, Home) => NoNameRace
    <2> SUFFICES ASSUME IInv, StaysAtHome(OwnKey, Home) PROVE NoNameRace
        OBVIOUS
    <2>1. RacesStayAtHome(OwnKey)
        BY RacersShareAHome
    <2>2. SUFFICES ASSUME NEW v \in Workers, NEW w \in Workers, pc[v] \in ServiceMissing,
                          pc[w] = "crRec", rec[running[v]] = job[w].foo.route
                   PROVE  FALSE
        BY DEF NoNameRace
    <2>3. running[v] \in Keys /\ running[w] \in Keys
        BY <2>2 DEF IInv, TypeOK, Structure, IdleIsFree, ServiceMissing
    <2>4. running[v] = running[w] /\ running[v] # None
        BY <2>1, <2>2, <2>3, RouteSyncAssumption DEF RacesStayAtHome, OwnKey
    <2>5. v = w
        BY <2>4 DEF IInv, Structure, KeyInOneHand
    <2> QED BY <2>2, <2>5 DEF ServiceMissing
<1>2. Init /\ AsksAtHome(OwnKey, Home) => StaysAtHome(OwnKey, Home)
    BY HomeInit
<1>3. IInv /\ AsksAtHome(OwnKey, Home) /\ StaysAtHome(OwnKey, Home) /\ [Next]_vars
         => StaysAtHome(OwnKey, Home)'
    BY HomeStep DEF IInv
<1> QED BY <1>1, <1>2, <1>3, Knowing, PTL DEF SafetySpec

\* Left alone, names of their own make the records of ServiceRoutes leases, and
\* their routes whole between syncs, with any number of workers.
THEOREM OwnNamesAreLeased ==
    ASSUME Undisturbed, NEW Home
    PROVE  SafetySpec /\ []AsksAtHome(OwnKey, Home) => LeasesRoutes /\ []WholeRoutes
BY OwnNamesNeverRace, RoutesAreLeased, RoutesAreWhole, PTL

=============================================================================
