--------------------------- MODULE RoutePortsProofs ---------------------------
(***************************************************************************)
(* For any ServiceRoutes, workers, routes and lists of ports: what is      *)
(* offered on the istio cluster is one version of the ports without node   *)
(* ports, and a ServiceRoute ends the process no more often than its       *)
(* record allows.                                                          *)
(***************************************************************************)
EXTENDS RoutePorts, TLAPS

-----------------------------------------------------------------------------
(* Syncs.  A key is with one worker at a time, so that its record changes  *)
(* only under the hands of the sync that has looked at it.                 *)

SyncInv ==
    /\ asks \in [Keys -> Routes \cup {None}] /\ rec \in [Keys -> Routes \cup {None}]
    /\ running \in [Workers -> Keys \cup {None}] /\ pc \in [Workers -> Labels]
    /\ want \in [Workers -> Routes \cup {None}]
    /\ \A w \in Workers : pc[w] = "idle" <=> running[w] = None
    /\ \A v, w \in Workers : v # w /\ running[v] = running[w] => running[w] = None
    /\ \A w \in Workers : pc[w] \in Holding \cup {"decide"} => want[w] \in Routes
    /\ \A w \in Workers : pc[w] \in Tearing => rec[running[w]] \in Routes
    /\ \A w \in Workers : pc[w] = "record" => rec[running[w]] = None

LEMMA SyncInvInit == Init => SyncInv
BY DEF Init, SyncInv, Labels, Holding, Tearing

\* A sync at work has a key.
LEMMA AtWork ==
    ASSUME SyncInv, NEW w \in Workers, pc[w] # "idle"
    PROVE  running[w] \in Keys
BY DEF SyncInv

\* What Goto does to the workers.
LEMMA GotoMoves ==
    ASSUME SyncInv, NEW w \in Workers, NEW label \in Labels, Goto(w, label)
    PROVE  /\ pc' \in [Workers -> Labels] /\ running' \in [Workers -> Keys \cup {None}]
           /\ want' = want
           /\ \A v \in Workers : pc'[v] = IF v = w THEN label ELSE pc[v]
           /\ \A v \in Workers : running'[v] = IF v = w /\ label = "idle" THEN None ELSE running[v]
BY DEF Goto, SyncInv

\* A step within a sync touches no record but its own key's.
LEMMA StepInSync ==
    ASSUME PortsAssumption, SyncInv, NEW w \in Workers, NEW label \in Labels,
           pc[w] # "idle", Goto(w, label), asks' = asks,
           rec' \in [Keys -> Routes \cup {None}],
           \A k \in Keys : k # running[w] => rec'[k] = rec[k],
           label \in Holding \cup {"decide"} => want[w] \in Routes,
           label \in Tearing => rec'[running[w]] \in Routes,
           label = "record" => rec'[running[w]] = None
    PROVE  SyncInv'
<1>1. /\ pc' \in [Workers -> Labels] /\ running' \in [Workers -> Keys \cup {None}]
      /\ want' = want
      /\ \A v \in Workers : pc'[v] = IF v = w THEN label ELSE pc[v]
      /\ \A v \in Workers : running'[v] = IF v = w /\ label = "idle" THEN None ELSE running[v]
    BY GotoMoves
<1>2. running[w] \in Keys /\ None \notin Keys
    BY AtWork DEF PortsAssumption
<1>3. \A v \in Workers : pc'[v] = "idle" <=> running'[v] = None
    BY <1>1, <1>2 DEF SyncInv
<1>4. \A u, v \in Workers : u # v /\ running'[u] = running'[v] => running'[v] = None
    BY <1>1 DEF SyncInv
<1>5. ASSUME NEW v \in Workers
      PROVE  /\ pc'[v] \in Tearing => rec'[running'[v]] \in Routes
             /\ pc'[v] = "record" => rec'[running'[v]] = None
    <2>1. CASE v = w
        BY <1>1, <2>1 DEF Tearing
    <2>2. CASE v # w /\ running[v] # None
        <3>1. running[v] \in Keys /\ running[v] # running[w]
            BY <1>2, <2>2 DEF SyncInv
        <3> QED BY <1>1, <2>2, <3>1 DEF SyncInv
    <2>3. CASE v # w /\ running[v] = None
        BY <1>1, <2>3 DEF SyncInv, Tearing
    <2> QED BY <2>1, <2>2, <2>3
<1>6. \A v \in Workers : pc'[v] \in Holding \cup {"decide"} => want'[v] \in Routes
    BY <1>1 DEF SyncInv
<1>7. asks' \in [Keys -> Routes \cup {None}] /\ want' \in [Workers -> Routes \cup {None}]
    BY <1>1 DEF SyncInv
<1> QED BY <1>1, <1>3, <1>4, <1>5, <1>6, <1>7 DEF SyncInv

LEMMA StartSyncInv ==
    ASSUME PortsAssumption, SyncInv, NEW w \in Workers, NEW k \in Keys, StartSync(w, k)
    PROVE  /\ SyncInv'
           /\ running' = [running EXCEPT ![w] = k]
           /\ \E label \in {"delService", "decide"} : pc' = [pc EXCEPT ![w] = label]
<1>1. PICK label \in {"delService", "decide"} :
          /\ pc' = [pc EXCEPT ![w] = label]
          /\ label = "delService" => rec[k] # None
          /\ label = "decide" => asks[k] # None
    BY DEF StartSync
<1>2. /\ running' = [running EXCEPT ![w] = k] /\ want' = [want EXCEPT ![w] = asks[k]]
      /\ running[w] = None /\ \A v \in Workers : running[v] # k
      /\ asks' = asks /\ rec' = rec
    BY DEF StartSync, sourceVars, recordVars
<1>3. None \notin Keys /\ rec[k] \in Routes \cup {None} /\ asks[k] \in Routes \cup {None}
    BY DEF PortsAssumption, SyncInv
<1>4. label \in Labels
    BY DEF Labels, Tearing
<1>5. /\ pc' \in [Workers -> Labels] /\ running' \in [Workers -> Keys \cup {None}]
      /\ want' \in [Workers -> Routes \cup {None}]
      /\ \A v \in Workers : /\ pc'[v] = (IF v = w THEN label ELSE pc[v])
                            /\ running'[v] = (IF v = w THEN k ELSE running[v])
                            /\ want'[v] = (IF v = w THEN asks[k] ELSE want[v])
    BY <1>1, <1>2, <1>3, <1>4 DEF SyncInv
<1>6. \A v \in Workers : pc'[v] = "idle" <=> running'[v] = None
    BY <1>3, <1>5 DEF SyncInv
<1>7. \A u, v \in Workers : u # v /\ running'[u] = running'[v] => running'[v] = None
    BY <1>2, <1>5 DEF SyncInv
<1>8. \A v \in Workers : pc'[v] \in Holding \cup {"decide"} => want'[v] \in Routes
    BY <1>1, <1>3, <1>5 DEF SyncInv, Holding
<1>9. \A v \in Workers : /\ pc'[v] \in Tearing => rec'[running'[v]] \in Routes
                         /\ pc'[v] = "record" => rec'[running'[v]] = None
    BY <1>1, <1>2, <1>3, <1>5 DEF SyncInv, Tearing
<1>10. SyncInv'
    BY <1>2, <1>5, <1>6, <1>7, <1>8, <1>9 DEF SyncInv
<1> QED BY <1>1, <1>2, <1>10

\* The steps of a sync that neither touch its record nor end the process: from
\* where they start, and where they lead.
Other(w) ==
    \/ DeleteService(w) \/ DeleteVirtualService(w) \/ Decide(w)
    \/ SendService(w) \/ CreateVirtualService(w)

LEMMA OtherMoves ==
    ASSUME SyncInv, NEW w \in Workers, Other(w)
    PROVE  /\ UNCHANGED <<sourceVars, cacheVars, recordVars, processVars>>
           /\ pc[w] # "idle"
           /\ \E label \in Labels :
                  /\ Goto(w, label)
                  /\ label \in Holding \cup {"decide"} => pc[w] \in Holding \cup {"decide"}
                  /\ label \in Tearing => pc[w] \in Tearing
                  /\ label = "record" => rec[running[w]] = None
                  /\ label \in {"create", "virtual"} => pc[w] = "create"
                  /\ label # "idle" /\ label \in Holding => pc[w] = "decide" \/ UNCHANGED loopVars
<1>1. CASE DeleteService(w)
    BY <1>1 DEF DeleteService, Labels, Tearing, Holding
<1>2. CASE DeleteVirtualService(w)
    BY <1>2 DEF DeleteVirtualService, Labels, Tearing, Holding
<1>3. CASE Decide(w)
    BY <1>3 DEF Decide, Labels, Tearing, Holding
<1>4. CASE SendService(w)
    BY <1>4 DEF SendService, Send, Labels, Tearing, Holding
<1>5. CASE CreateVirtualService(w)
    BY <1>5 DEF CreateVirtualService, Labels, Tearing, Holding
<1> QED BY <1>1, <1>2, <1>3, <1>4, <1>5 DEF Other

LEMMA OtherKeepsSync ==
    ASSUME PortsAssumption, SyncInv, NEW w \in Workers, Other(w)
    PROVE  SyncInv'
<1>1. /\ UNCHANGED <<sourceVars, recordVars>> /\ pc[w] # "idle"
      /\ \E label \in Labels :
             /\ Goto(w, label)
             /\ label \in Holding \cup {"decide"} => pc[w] \in Holding \cup {"decide"}
             /\ label \in Tearing => pc[w] \in Tearing
             /\ label = "record" => rec[running[w]] = None
    BY OtherMoves
<1>2. PICK label \in Labels :
             /\ Goto(w, label)
             /\ label \in Holding \cup {"decide"} => pc[w] \in Holding \cup {"decide"}
             /\ label \in Tearing => pc[w] \in Tearing
             /\ label = "record" => rec[running[w]] = None
    BY <1>1
<1>3. asks' = asks /\ rec' = rec
    BY <1>1 DEF sourceVars, recordVars
<1>4. /\ label \in Holding \cup {"decide"} => want[w] \in Routes
      /\ label \in Tearing => rec[running[w]] \in Routes
      /\ rec \in [Keys -> Routes \cup {None}]
    BY <1>2 DEF SyncInv
<1> QED BY <1>1, <1>2, <1>3, <1>4, StepInSync

LEMMA DeleteRecordKeepsSync ==
    ASSUME PortsAssumption, SyncInv, NEW w \in Workers, DeleteRecord(w)
    PROVE  SyncInv'
<1>1. /\ pc[w] = "delRecord" /\ Goto(w, AfterTeardown(want[w])) /\ asks' = asks
      /\ rec' = [rec EXCEPT ![running[w]] = None] \/ rec' = rec
    BY DEF DeleteRecord, sourceVars, recordVars
<1>2. /\ AfterTeardown(want[w]) \in {"idle", "decide"}
      /\ AfterTeardown(want[w]) = "decide" => want[w] \in Routes
    BY DEF AfterTeardown, SyncInv
<1>3. running[w] \in Keys
    BY <1>1, AtWork
<1>4. /\ rec' \in [Keys -> Routes \cup {None}]
      /\ \A k \in Keys : k # running[w] => rec'[k] = rec[k]
    BY <1>1, <1>3 DEF SyncInv
<1> QED BY <1>1, <1>2, <1>3, <1>4, StepInSync DEF Labels, Holding, Tearing

LEMMA CreateRecordKeepsSync ==
    ASSUME PortsAssumption, SyncInv, NEW w \in Workers, CreateRecord(w)
    PROVE  SyncInv'
<1>1. /\ pc[w] = "record" /\ Goto(w, "create") /\ asks' = asks
      /\ rec' = [rec EXCEPT ![running[w]] = want[w]] \/ rec' = rec
    BY DEF CreateRecord, sourceVars, recordVars
<1>2. running[w] \in Keys /\ want[w] \in Routes
    BY <1>1, AtWork DEF SyncInv, Holding
<1>3. /\ rec' \in [Keys -> Routes \cup {None}]
      /\ \A k \in Keys : k # running[w] => rec'[k] = rec[k]
    BY <1>1, <1>2 DEF SyncInv
<1> QED BY <1>1, <1>2, <1>3, StepInSync DEF Labels, Holding, Tearing

\* Once the process has ended, nothing syncs.
LEMMA EndsKeepsSync ==
    ASSUME SyncInv, Ends, UNCHANGED <<asks, rec>>
    PROVE  SyncInv'
BY DEF Ends, SyncInv, Labels, Holding, Tearing

LEMMA SyncInvStep ==
    ASSUME PortsAssumption, SyncInv, [Next]_vars
    PROVE  SyncInv'
<1>1. ASSUME NEW k \in Keys, ServiceEvent(k) \/ \E list \in PortLists : ServiceChanges(k, list)
      PROVE  SyncInv'
    BY <1>1 DEF ServiceEvent, ServiceChanges, SyncInv, sourceVars, recordVars, syncVars
<1>2. ASSUME NEW k \in Keys, NEW n \in Routes \cup {None}, UserAsks(k, n)
      PROVE  SyncInv'
    <2>1. asks' \in [Keys -> Routes \cup {None}] /\ UNCHANGED <<rec, running, want, pc>>
        BY <1>2 DEF UserAsks, SyncInv, recordVars, syncVars
    <2> QED BY <2>1 DEF SyncInv
<1>3. ASSUME NEW w \in Workers, NEW k \in Keys, StartSync(w, k)
      PROVE  SyncInv'
    BY <1>3, StartSyncInv
<1>4. ASSUME NEW w \in Workers, Other(w)
      PROVE  SyncInv'
    BY <1>4, OtherKeepsSync
<1>5. ASSUME NEW w \in Workers, DeleteRecord(w) \/ CreateRecord(w)
      PROVE  SyncInv'
    BY <1>5, DeleteRecordKeepsSync, CreateRecordKeepsSync
<1>6. ASSUME NEW w \in Workers, ZeroNodePort(w)
      PROVE  SyncInv'
    BY <1>6 DEF ZeroNodePort, SyncInv, sourceVars, recordVars
<1>7. ASSUME NEW w \in Workers, Panic(w) \/ Kill
      PROVE  SyncInv'
    BY <1>7, EndsKeepsSync DEF Panic, Kill, sourceVars, recordVars
<1>8. CASE Kill
    BY <1>8, EndsKeepsSync DEF Kill, sourceVars, recordVars
<1>9. CASE Restart \/ UNCHANGED vars
    BY <1>9 DEF Restart, vars, SyncInv, sourceVars, recordVars, syncVars
<1> QED BY <1>1, <1>2, <1>3, <1>4, <1>5, <1>6, <1>7, <1>8, <1>9 DEF Next, Step, Other

-----------------------------------------------------------------------------
(* Crashes.  A ServiceRoute may end the process once for its record and    *)
(* once for each of its lapses, and a sync that is on its way to the ports *)
(* has one of these still to spend.                                        *)

Credit(k) == lapses[k] + (IF rec[k] = None THEN 0 ELSE 1)

CountInv ==
    /\ panics \in [Keys -> Nat] /\ lapses \in [Keys -> Nat]
    /\ \A k \in Keys : panics[k] <= Credit(k)
    /\ \A w \in Workers : pc[w] \in {"create", "virtual"} => panics[running[w]] < Credit(running[w])

LEMMA CountInvInit == Init => CountInv
BY DEF Init, CountInv, Credit

LEMMA CreditIsNat ==
    ASSUME CountInv, NEW k \in Keys
    PROVE  Credit(k) \in Nat /\ panics[k] \in Nat
BY DEF CountInv, Credit

\* Steps that touch neither records nor counters, and lead no sync to the ports.
LEMMA CountKept ==
    ASSUME CountInv, UNCHANGED <<rec, lapses, panics>>,
           \A w \in Workers : pc'[w] \in {"create", "virtual"} =>
               pc[w] \in {"create", "virtual"} /\ running'[w] = running[w]
    PROVE  CountInv'
<1>1. \A k : Credit(k)' = Credit(k)
    BY DEF Credit
<1> QED BY <1>1 DEF CountInv

\* While a sync turns a record into a lapse, or finds that it has neither, the
\* other syncs look at other records.
LEMMA DeleteRecordKeepsCount ==
    ASSUME PortsAssumption, SyncInv, CountInv, NEW w \in Workers, DeleteRecord(w)
    PROVE  CountInv'
<1> PICK k \in Keys : k = running[w]
    BY AtWork DEF DeleteRecord
<1>1. /\ pc[w] = "delRecord" /\ Goto(w, AfterTeardown(want[w])) /\ panics' = panics
      /\ \/ rec' = [rec EXCEPT ![k] = None] /\ lapses' = [lapses EXCEPT ![k] = @ + 1]
         \/ rec' = rec /\ lapses' = lapses
    BY DEF DeleteRecord, Lapse, processVars, recordVars
<1>2. AfterTeardown(want[w]) \in {"idle", "decide"}
    BY DEF AfterTeardown
<1>3. \A v \in Workers : pc'[v] \in {"create", "virtual"} =>
          v # w /\ pc[v] = pc'[v] /\ running'[v] = running[v] /\ running[v] # k
    BY <1>1, <1>2, GotoMoves, AtWork DEF Labels, SyncInv
<1>4. CASE rec' = rec /\ lapses' = lapses
    BY <1>1, <1>3, <1>4, CountKept
<1>5. CASE rec' = [rec EXCEPT ![k] = None] /\ lapses' = [lapses EXCEPT ![k] = @ + 1]
    <2>1. lapses' \in [Keys -> Nat] /\ \A j \in Keys : Credit(j) <= Credit(j)'
        BY <1>5 DEF CountInv, SyncInv, Credit
    <2>2. \A j \in Keys : j # k => Credit(j)' = Credit(j)
        BY <1>5 DEF CountInv, SyncInv, Credit
    <2>3. \A j \in Keys : Credit(j)' \in Nat
        BY <2>1 DEF Credit
    <2>4. \A j \in Keys : panics'[j] <= Credit(j)'
        BY <1>1, <2>1, <2>3, CreditIsNat DEF CountInv
    <2>5. ASSUME NEW v \in Workers, pc'[v] \in {"create", "virtual"}
          PROVE  (panics[running[v]] < Credit(running[v]))'
        <3>1. PICK j \in Keys : j = running[v]
            BY <1>3, <2>5, AtWork
        <3>2. panics'[j] < Credit(j)'
            BY <1>1, <1>3, <2>2, <2>5, <3>1 DEF CountInv
        <3>3. running'[v] = j
            BY <1>3, <2>5, <3>1
        <3> QED BY <3>2, <3>3 DEF Credit
    <2> QED BY <1>1, <2>1, <2>4, <2>5 DEF CountInv
<1> QED BY <1>1, <1>4, <1>5

LEMMA CreateRecordKeepsCount ==
    ASSUME PortsAssumption, SyncInv, CountInv, NEW w \in Workers, CreateRecord(w)
    PROVE  CountInv'
<1> PICK k \in Keys : k = running[w]
    BY AtWork DEF CreateRecord
<1>1. /\ pc[w] = "record" /\ Goto(w, "create") /\ panics' = panics
      /\ \/ rec' = [rec EXCEPT ![k] = want[w]] /\ lapses' = lapses
         \/ rec' = rec /\ lapses' = [lapses EXCEPT ![k] = @ + 1]
    BY DEF CreateRecord, Lapse, processVars
<1>2. rec[k] = None /\ want[w] \in Routes /\ want[w] # None
    BY <1>1 DEF SyncInv, Holding, PortsAssumption
<1>3. /\ running' = running
      /\ \A v \in Workers : v # w /\ pc'[v] \in {"create", "virtual"} =>
             pc[v] = pc'[v] /\ running[v] # k
    BY <1>1, GotoMoves, AtWork DEF Goto, Labels, Holding, SyncInv
<1>4. /\ lapses' \in [Keys -> Nat]
      /\ Credit(k)' = Credit(k) + 1 /\ \A j \in Keys : j # k => Credit(j)' = Credit(j)
    BY <1>1, <1>2 DEF CountInv, SyncInv, Credit
<1>5. \A j \in Keys : panics'[j] <= Credit(j)'
    BY <1>1, <1>4, CreditIsNat DEF CountInv
<1>6. ASSUME NEW v \in Workers, pc'[v] \in {"create", "virtual"}
      PROVE  (panics[running[v]] < Credit(running[v]))'
    <2>1. PICK j \in Keys : j = running[v] /\ (v # w => j # k)
        BY <1>3, <1>6, AtWork
    <2>2. panics'[j] < Credit(j)'
        <3>1. CASE v = w
            BY <1>1, <1>4, <2>1, <3>1, CreditIsNat DEF CountInv
        <3>2. CASE v # w
            BY <1>1, <1>3, <1>4, <1>6, <2>1, <3>2 DEF CountInv
        <3> QED BY <3>1, <3>2
    <2>3. running'[v] = j
        BY <1>3, <2>1
    <2> QED BY <2>2, <2>3 DEF Credit
<1> QED BY <1>1, <1>4, <1>5, <1>6 DEF CountInv

LEMMA PanicKeepsCount ==
    ASSUME SyncInv, CountInv, NEW w \in Workers, Panic(w)
    PROVE  CountInv'
<1> PICK k \in Keys : k = running[w]
    BY AtWork DEF Panic
<1>1. /\ pc[w] = "virtual" /\ UNCHANGED <<rec, lapses>>
      /\ panics' = [panics EXCEPT ![k] = @ + 1]
      /\ pc' = [v \in Workers |-> "idle"]
    BY DEF Panic, Ends, recordVars
<1>2. panics[k] < Credit(k)
    BY <1>1 DEF CountInv
<1>3. \A j \in Keys : Credit(j)' = Credit(j)
    BY <1>1 DEF Credit
<1>4. panics' \in [Keys -> Nat] /\ \A j \in Keys : panics'[j] <= Credit(j)'
    BY <1>1, <1>2, <1>3, CreditIsNat DEF CountInv
<1> QED BY <1>1, <1>4 DEF CountInv

LEMMA CountInvStep ==
    ASSUME PortsAssumption, SyncInv, CountInv, [Next]_vars
    PROVE  CountInv'
<1>1. ASSUME NEW k \in Keys, \/ ServiceEvent(k) \/ \E list \in PortLists : ServiceChanges(k, list)
                             \/ \E n \in Routes \cup {None} : UserAsks(k, n)
      PROVE  CountInv'
    BY <1>1, CountKept
       DEF ServiceEvent, ServiceChanges, UserAsks, recordVars, syncVars, processVars
<1>2. ASSUME NEW w \in Workers, NEW k \in Keys, StartSync(w, k)
      PROVE  CountInv'
    <2>1. UNCHANGED <<rec, lapses, panics>>
        BY <1>2 DEF StartSync, recordVars, processVars
    <2>2. \A v \in Workers : pc'[v] \in {"create", "virtual"} =>
              pc[v] \in {"create", "virtual"} /\ running'[v] = running[v]
        BY <1>2, StartSyncInv DEF SyncInv
    <2> QED BY <2>1, <2>2, CountKept
<1>3. ASSUME NEW w \in Workers, Other(w)
      PROVE  CountInv'
    <2>1. UNCHANGED <<rec, lapses, panics>>
        BY <1>3, OtherMoves DEF recordVars, processVars
    <2>2. PICK label \in Labels :
              Goto(w, label) /\ (label \in {"create", "virtual"} => pc[w] = "create")
        BY <1>3, OtherMoves
    <2>3. \A v \in Workers : pc'[v] \in {"create", "virtual"} =>
              pc[v] \in {"create", "virtual"} /\ running'[v] = running[v]
        BY <2>2, GotoMoves
    <2> QED BY <2>1, <2>3, CountKept
<1>4. ASSUME NEW w \in Workers, DeleteRecord(w) \/ CreateRecord(w) \/ Panic(w)
      PROVE  CountInv'
    BY <1>4, DeleteRecordKeepsCount, CreateRecordKeepsCount, PanicKeepsCount
<1>5. ASSUME NEW w \in Workers, ZeroNodePort(w)
      PROVE  CountInv'
    BY <1>5, CountKept DEF ZeroNodePort, recordVars, processVars
<1>6. CASE Kill
    BY <1>6, CountKept DEF Kill, Ends, recordVars
<1>7. CASE Restart \/ UNCHANGED vars
    BY <1>7, CountKept DEF Restart, vars, recordVars, syncVars, processVars
<1> QED BY <1>1, <1>2, <1>3, <1>4, <1>5, <1>6, <1>7 DEF Next, Step, Other

\* However many ServiceRoutes there are, and however their Services and routes
\* change, whatever calls are lost and whenever the process is killed: a
\* Service without ports ends the process once, and again only after a record
\* was deleted or could not be created.
THEOREM PanicsNeedLapses ==
    ASSUME PortsAssumption
    PROVE  SafetySpec => []PanicsAreCounted
<1>1. CountInv => PanicsAreCounted
    BY DEF CountInv, Credit, PanicsAreCounted
<1>2. Init => SyncInv /\ CountInv
    BY SyncInvInit, CountInvInit
<1>3. SyncInv /\ CountInv /\ [Next]_vars => SyncInv' /\ CountInv'
    BY SyncInvStep, CountInvStep
<1> QED BY <1>1, <1>2, <1>3, PTL DEF SafetySpec

-----------------------------------------------------------------------------
(* Ports.  The loop zeroes the slice in place: up to its index, and the    *)
(* slice is an old version of the ports but for zeroed node ports.         *)

Elements == [port : Nat \ {0}, node : Nat]
Offers(k) == {Stripped(list) : list \in past[k]}

PortInv ==
    /\ source \in [Keys -> PortLists] /\ past \in [Keys -> SUBSET PortLists]
    /\ \A k \in Keys : source[k] \in past[k]
    /\ heap \in [Keys -> Seq(Seq(Elements))]
    /\ \A k \in Keys : \A i \in DOMAIN heap[k] : Stripped(heap[k][i]) \in Offers(k)
    /\ DOMAIN cell = Workers /\ DOMAIN at = Workers
    /\ DOMAIN svc = Keys /\ \A k \in Keys : DOMAIN svc[k] = Routes
    /\ \A w \in Workers : pc[w] \in Holding =>
           /\ running[w] \in Keys /\ cell[w] \in DOMAIN heap[running[w]]
           /\ at[w] \in 0 .. Len(Given(w))
           /\ \A i \in 1 .. at[w] : Given(w)[i].node = 0
    /\ \A k \in Keys : \A n \in Routes : svc[k][n] # None => svc[k][n] \in Offers(k)

LEMMA PortInvInit ==
    ASSUME Init
    PROVE  PortInv
BY DEF Init, PortInv, NoObjects, Holding

\* Zeroing a node port changes nothing of what is left without node ports.
LEMMA ZeroedIsStripped ==
    ASSUME NEW list \in Seq(Elements), NEW i \in 1 .. Len(list)
    PROVE  LET zeroed == [list EXCEPT ![i].node = 0]
           IN  /\ zeroed \in Seq(Elements) /\ Len(zeroed) = Len(list)
               /\ zeroed[i].node = 0 /\ \A j \in 1 .. Len(list) : j # i => zeroed[j] = list[j]
               /\ Stripped(zeroed) = Stripped(list)
<1> DEFINE zeroed == [list EXCEPT ![i].node = 0]
           e == [list[i] EXCEPT !.node = 0]
<1>1. list[i] \in Elements /\ DOMAIN list = 1 .. Len(list)
    OBVIOUS
<1>2. e \in Elements /\ e.node = 0 /\ [e EXCEPT !.node = 0] = e
    BY <1>1 DEF Elements
<1>3. zeroed = [list EXCEPT ![i] = e]
    OBVIOUS
<1> HIDE DEF e
<1>4. /\ zeroed \in Seq(Elements) /\ Len(zeroed) = Len(list)
      /\ DOMAIN zeroed = 1 .. Len(list) /\ zeroed[i] = e
      /\ \A j \in 1 .. Len(list) : j # i => zeroed[j] = list[j]
    BY <1>1, <1>2, <1>3
<1> HIDE DEF zeroed
<1>5. Stripped(zeroed) = Stripped(list)
    BY <1>1, <1>2, <1>4 DEF Stripped, e
<1> QED BY <1>2, <1>4, <1>5 DEF zeroed

\* What has no node port left is what it is without node ports.
LEMMA AllZeroIsStripped ==
    ASSUME NEW list \in Seq(Elements), \A i \in 1 .. Len(list) : list[i].node = 0
    PROVE  Stripped(list) = list
<1>1. DOMAIN list = 1 .. Len(list) /\ \A i \in 1 .. Len(list) : list[i] \in Elements
    OBVIOUS
<1>2. \A i \in DOMAIN list : [list[i] EXCEPT !.node = 0] = list[i]
    BY <1>1 DEF Elements
<1>3. list = [i \in DOMAIN list |-> list[i]]
    OBVIOUS
<1> QED BY <1>2, <1>3 DEF Stripped

\* The invariant of one worker's sync, which is all that other steps endanger.
InLoop(w) ==
    /\ running[w] \in Keys /\ cell[w] \in DOMAIN heap[running[w]]
    /\ at[w] \in 0 .. Len(Given(w))
    /\ \A i \in 1 .. at[w] : Given(w)[i].node = 0

\* A sync that is at the end of its loop holds an offer.
LEMMA LoopEndsClean ==
    ASSUME PortInv, NEW w \in Workers, pc[w] \in Holding, at[w] = Len(Given(w))
    PROVE  running[w] \in Keys /\ Given(w) \in Offers(running[w])
<1> DEFINE list == Given(w)
           k == running[w]
<1>1. k \in Keys /\ cell[w] \in DOMAIN heap[k] /\ heap[k] \in Seq(Seq(Elements))
    BY DEF PortInv
<1>2. list \in Seq(Elements) /\ Stripped(list) \in Offers(k)
    BY <1>1 DEF Given, PortInv
<1>3. \A i \in 1 .. Len(list) : list[i].node = 0
    BY DEF PortInv
<1> HIDE DEF list
<1>4. Stripped(list) = list
    BY <1>2, <1>3, AllZeroIsStripped
<1> QED BY <1>1, <1>2, <1>4 DEF list

\* What a step leaves alone if it does not touch the slices: all that is left to
\* show is about the syncs and the Services that it touches.
LEMMA SlicesKept ==
    ASSUME PortInv, UNCHANGED <<source, past, heap>>,
           DOMAIN cell' = Workers, DOMAIN at' = Workers,
           DOMAIN svc' = Keys, \A k \in Keys : DOMAIN svc'[k] = Routes,
           \A w \in Workers : pc'[w] \in Holding =>
               \/ InLoop(w)'
               \/ pc[w] \in Holding /\ running'[w] = running[w] /\ cell'[w] = cell[w] /\ at'[w] = at[w],
           \A k \in Keys : \A n \in Routes :
               svc'[k][n] \in {svc[k][n], None} \/ svc'[k][n] \in Offers(k)
    PROVE  PortInv'
<1>2. \A k \in Keys : Offers(k)' = Offers(k)
    BY DEF Offers
<1>3. ASSUME NEW w \in Workers, pc'[w] \in Holding PROVE InLoop(w)'
    <2>1. CASE pc[w] \in Holding /\ running'[w] = running[w] /\ cell'[w] = cell[w] /\ at'[w] = at[w]
        <3>1. Given(w)' = Given(w)
            BY <2>1 DEF Given
        <3> QED BY <2>1, <3>1 DEF PortInv, InLoop
    <2> QED BY <1>3, <2>1
<1>4. \A k \in Keys : \A n \in Routes : svc'[k][n] # None => svc'[k][n] \in Offers(k)'
    BY <1>2 DEF PortInv
<1>5. \A k \in Keys : \A i \in DOMAIN heap'[k] : Stripped(heap'[k][i]) \in Offers(k)'
    BY <1>2 DEF PortInv
<1> QED BY <1>3, <1>4, <1>5 DEF PortInv, InLoop

LEMMA ServiceChangesKeeps ==
    ASSUME PortInv, NEW k \in Keys, NEW list \in PortLists, ServiceChanges(k, list)
    PROVE  PortInv'
<1>1. /\ source' = [source EXCEPT ![k] = list]
      /\ past' = [past EXCEPT ![k] = @ \cup {list}]
      /\ UNCHANGED <<heap, svc, running, pc, cell, at>>
    BY DEF ServiceChanges, objectVars, syncVars, loopVars
<1>2. /\ source' \in [Keys -> PortLists] /\ past' \in [Keys -> SUBSET PortLists]
      /\ \A j \in Keys : source'[j] \in past'[j] /\ past[j] \subseteq past'[j]
    BY <1>1 DEF PortInv
<1>3. \A j \in Keys : Offers(j) \subseteq Offers(j)'
    BY <1>2 DEF Offers
<1>4. \A w \in Workers : Given(w)' = Given(w)
    BY <1>1 DEF Given
<1> QED BY <1>1, <1>2, <1>3, <1>4 DEF PortInv

LEMMA ServiceEventKeeps ==
    ASSUME PortsAssumption, PortInv, NEW k \in Keys, ServiceEvent(k)
    PROVE  PortInv'
<1> DEFINE old == heap[k]
           new == Append(old, source[k])
<1>1. /\ heap' = [heap EXCEPT ![k] = new]
      /\ UNCHANGED <<source, past, svc, running, pc, cell, at>>
    BY DEF ServiceEvent, sourceVars, objectVars, syncVars, loopVars
<1>2. source[k] \in Seq(Elements) /\ source[k] \in past[k] /\ old \in Seq(Seq(Elements))
    BY DEF PortInv, PortsAssumption, Elements
<1>3. /\ new \in Seq(Seq(Elements)) /\ DOMAIN new = 1 .. Len(old) + 1
      /\ DOMAIN old = 1 .. Len(old)
      /\ new[Len(old) + 1] = source[k] /\ \A i \in DOMAIN old : new[i] = old[i]
    <2> HIDE DEF old
    <2>1. source[k] \in Seq(Elements) /\ old \in Seq(Seq(Elements))
        BY <1>2
    <2> QED BY <2>1
<1> HIDE DEF new
<1>4. \A j \in Keys : heap'[j] = IF j = k THEN new ELSE heap[j]
    BY <1>1 DEF PortInv
<1>5. heap' \in [Keys -> Seq(Seq(Elements))]
    BY <1>1, <1>3 DEF PortInv
<1>6. \A j \in Keys : Offers(j)' = Offers(j)
    BY <1>1 DEF Offers
<1>7. ASSUME NEW j \in Keys, NEW i \in DOMAIN heap'[j]
      PROVE  Stripped(heap'[j][i]) \in Offers(j)
    <2>1. CASE j = k /\ i = Len(old) + 1
        BY <1>2, <1>3, <1>4, <2>1 DEF Offers
    <2>2. CASE j = k /\ i # Len(old) + 1
        <3>1. i \in DOMAIN old
            BY <1>3, <1>4, <2>2
        <3> QED BY <1>3, <1>4, <2>2, <3>1 DEF PortInv
    <2>3. CASE j # k
        BY <1>4, <2>3 DEF PortInv
    <2> QED BY <2>1, <2>2, <2>3
<1>8. ASSUME NEW w \in Workers, pc'[w] \in Holding
      PROVE  InLoop(w)'
    <2>1. InLoop(w)
        BY <1>1, <1>8 DEF PortInv, InLoop
    <2>2. heap'[running[w]][cell[w]] = heap[running[w]][cell[w]] /\ cell[w] \in DOMAIN heap'[running[w]]
        <3>1. CASE running[w] = k
            <4>1. cell[w] \in DOMAIN old
                BY <2>1, <3>1 DEF InLoop
            <4>2. cell[w] \in DOMAIN new /\ new[cell[w]] = old[cell[w]]
                <5>1. \A i \in 1 .. Len(old) : i \in 1 .. Len(old) + 1
                    BY <1>2
                <5> QED BY <1>3, <4>1, <5>1
            <4> QED BY <1>4, <2>1, <3>1, <4>2 DEF InLoop
        <3>2. CASE running[w] # k
            BY <1>4, <2>1, <3>2 DEF InLoop
        <3> QED BY <3>1, <3>2
    <2>3. Given(w)' = Given(w)
        BY <1>1, <2>2 DEF Given
    <2> QED BY <1>1, <2>1, <2>2, <2>3 DEF InLoop
<1> QED BY <1>1, <1>5, <1>6, <1>7, <1>8 DEF PortInv, InLoop

\* One round of the loop: the slice is zeroed at the index, for all who share it.
LEMMA ZeroKeeps ==
    ASSUME PortInv, NEW w \in Workers, ZeroNodePort(w)
    PROVE  PortInv'
<1> PICK k \in Keys : k = running[w]
    BY DEF ZeroNodePort, PortInv, Holding
<1> PICK c \in DOMAIN heap[k] : c = cell[w]
    BY DEF ZeroNodePort, PortInv, Holding
<1>0. k = running[w] /\ c = cell[w]
    OBVIOUS
<1>1. PICK i \in 1 .. Len(heap[k][c]) : i = at[w] + 1
    <2>1. heap[k][c] = Given(w) /\ at[w] < Len(Given(w)) /\ at[w] \in 0 .. Len(Given(w))
        BY <1>0 DEF ZeroNodePort, PortInv, Given, Holding
    <2>2. Len(Given(w)) \in Nat
        BY <1>0, <2>1 DEF PortInv
    <2> QED BY <2>1, <2>2
<1> DEFINE old == heap[k][c]
           new == [old EXCEPT ![i].node = 0]
<1>2. /\ heap' = [heap EXCEPT ![k][c] = new]
      /\ at' = [at EXCEPT ![w] = i]
      /\ UNCHANGED <<source, past, svc, running, pc, cell>>
    BY <1>0, <1>1 DEF ZeroNodePort, sourceVars, objectVars, PortInv
<1>3. old \in Seq(Elements) /\ heap[k] \in Seq(Seq(Elements))
    BY DEF PortInv
<1>4. /\ new \in Seq(Elements) /\ Len(new) = Len(old) /\ Stripped(new) = Stripped(old)
      /\ new[i].node = 0 /\ \A j \in 1 .. Len(old) : j # i => new[j] = old[j]
    <2>1. old \in Seq(Elements) /\ i \in 1 .. Len(old)
        BY <1>1, <1>3
    <2> HIDE DEF old
    <2> QED BY <2>1, ZeroedIsStripped
<1> HIDE DEF new
<1>5. \A j \in Keys : /\ DOMAIN heap'[j] = DOMAIN heap[j]
                      /\ \A d \in DOMAIN heap[j] :
                             heap'[j][d] = IF j = k /\ d = c THEN new ELSE heap[j][d]
    BY <1>2, <1>3 DEF PortInv
<1>6. heap' \in [Keys -> Seq(Seq(Elements))]
    <2>1. [heap[k] EXCEPT ![c] = new] \in Seq(Seq(Elements))
        BY <1>3, <1>4
    <2> QED BY <1>2, <2>1 DEF PortInv
<1>7. \A j \in Keys : Offers(j)' = Offers(j)
    BY <1>2 DEF Offers
<1>8. \A j \in Keys : \A d \in DOMAIN heap'[j] : Stripped(heap'[j][d]) \in Offers(j)
    <2> SUFFICES ASSUME NEW j \in Keys, NEW d \in DOMAIN heap[j]
                 PROVE  Stripped(heap'[j][d]) \in Offers(j)
        BY <1>5
    <2>1. Stripped(heap[j][d]) \in Offers(j)
        BY DEF PortInv
    <2>2. Stripped(heap'[j][d]) = Stripped(heap[j][d])
        <3>1. CASE j = k /\ d = c
            BY <1>4, <1>5, <3>1
        <3>2. CASE ~ (j = k /\ d = c)
            BY <1>5, <3>2
        <3> QED BY <3>1, <3>2
    <2> QED BY <2>1, <2>2
<1>9. ASSUME NEW v \in Workers, pc'[v] \in Holding
      PROVE  InLoop(v)'
    <2>1. InLoop(v) /\ pc[v] \in Holding
        BY <1>2, <1>9 DEF PortInv, InLoop
    <2>2. /\ Given(v) = heap[running[v]][cell[v]] /\ Given(v)' = heap'[running[v]][cell[v]]
          /\ cell[v] \in DOMAIN heap'[running[v]]
        BY <1>2, <1>5, <2>1 DEF Given, InLoop
    <2>3. CASE running[v] = k /\ cell[v] = c
        <3>1. Given(v) = old /\ Given(v)' = new
            BY <1>5, <2>2, <2>3
        <3>2. at'[v] = IF v = w THEN i ELSE at[v]
            BY <1>2 DEF PortInv
        <3>3. at'[v] \in 0 .. Len(new)
            BY <1>1, <1>4, <2>1, <3>1, <3>2 DEF InLoop
        <3>4. ASSUME NEW j \in 1 .. at'[v] PROVE new[j].node = 0
            <4>1. CASE j = i
                BY <1>4, <4>1
            <4>2. CASE j # i
                <5>1. j \in 1 .. Len(old) /\ j \in 1 .. at[v]
                    BY <1>0, <1>1, <1>3, <2>1, <3>1, <3>2, <3>3, <4>2, <1>4 DEF InLoop
                <5>2. old[j].node = 0
                    BY <2>1, <3>1, <5>1 DEF InLoop
                <5> QED BY <1>4, <4>2, <5>1, <5>2
            <4> QED BY <4>1, <4>2
        <3> QED BY <1>2, <2>1, <2>2, <3>1, <3>3, <3>4 DEF InLoop
    <2>4. CASE ~ (running[v] = k /\ cell[v] = c)
        <3>1. Given(v)' = Given(v) /\ v # w
            BY <1>0, <1>5, <2>1, <2>2, <2>4 DEF InLoop
        <3>2. at'[v] = at[v]
            BY <1>2, <3>1 DEF PortInv
        <3> QED BY <1>2, <2>1, <2>2, <3>1, <3>2 DEF InLoop
    <2> QED BY <2>3, <2>4
<1>10. DOMAIN at' = Workers
    BY <1>2 DEF PortInv
<1> QED BY <1>2, <1>6, <1>7, <1>8, <1>9, <1>10 DEF PortInv, InLoop

\* A sync takes the last of the decoded Services, and starts its loop with it.
LEMMA DecideKeeps ==
    ASSUME SyncInv, PortInv, NEW w \in Workers, Decide(w)
    PROVE  PortInv'
<1> PICK k \in Keys : k = running[w]
    BY AtWork DEF Decide
<1>1. /\ UNCHANGED <<source, past, heap, svc>> /\ pc[w] = "decide"
      /\ \/ Goto(w, "idle") /\ UNCHANGED <<cell, at>>
         \/ /\ heap[k] # <<>> /\ cell' = [cell EXCEPT ![w] = Len(heap[k])]
            /\ at' = [at EXCEPT ![w] = 0]
            /\ \E label \in Labels \ {"idle"} : Goto(w, label)
         \/ /\ cell' = [cell EXCEPT ![w] = Len(heap[k])] /\ at' = [at EXCEPT ![w] = 0]
            /\ Goto(w, "idle")
    BY DEF Decide, sourceVars, cacheVars, objectVars, loopVars, Labels, Holding
<1>2. /\ DOMAIN cell' = Workers /\ DOMAIN at' = Workers
      /\ \A v \in Workers : v # w => cell'[v] = cell[v] /\ at'[v] = at[v]
    BY <1>1 DEF PortInv
<1>3. \A v \in Workers : v # w => pc'[v] = pc[v] /\ running'[v] = running[v]
    BY <1>1, GotoMoves DEF Labels
<1>4. ASSUME pc'[w] \in Holding
      PROVE  InLoop(w)'
    <2>1. /\ heap[k] # <<>> /\ heap[k] \in Seq(Seq(Elements))
          /\ cell' = [cell EXCEPT ![w] = Len(heap[k])] /\ at' = [at EXCEPT ![w] = 0]
          /\ running'[w] = k
        BY <1>1, <1>4, GotoMoves DEF PortInv, Labels, Holding
    <2>2. Len(heap[k]) \in DOMAIN heap[k] /\ heap[k][Len(heap[k])] \in Seq(Elements)
        BY <2>1
    <2>3. /\ cell'[w] = Len(heap[k]) /\ at'[w] = 0 /\ heap' = heap
          /\ Given(w)' = heap[k][Len(heap[k])]
        BY <1>1, <2>1 DEF PortInv, Given
    <2>4. 0 \in 0 .. Len(Given(w)') /\ \A i \in 1 .. 0 : Given(w)'[i].node = 0
        BY <2>2, <2>3
    <2> QED BY <2>1, <2>2, <2>3, <2>4 DEF InLoop
<1>5. DOMAIN svc' = Keys /\ \A j \in Keys : DOMAIN svc'[j] = Routes
    BY <1>1 DEF PortInv
<1> QED BY <1>1, <1>2, <1>3, <1>4, <1>5, SlicesKept

\* A call about one object of the istio cluster changes no other.
LEMMA OneObject ==
    ASSUME DOMAIN svc = Keys, \A j \in Keys : DOMAIN svc[j] = Routes,
           NEW k \in Keys, NEW r, NEW put, svc' = [svc EXCEPT ![k][r] = put]
    PROVE  /\ DOMAIN svc' = Keys /\ \A j \in Keys : DOMAIN svc'[j] = Routes
           /\ \A j \in Keys : \A n \in Routes :
                  svc'[j][n] = IF j = k /\ n = r THEN put ELSE svc[j][n]
<1>1. \A j \in Keys : svc'[j] = IF j = k THEN [svc[k] EXCEPT ![r] = put] ELSE svc[j]
    OBVIOUS
<1> QED BY <1>1

\* The other steps of a sync keep to the slice they have, and only write what is
\* an offer.
LEMMA SyncStepKeeps ==
    ASSUME SyncInv, PortInv, NEW w \in Workers,
           \/ DeleteService(w) \/ DeleteVirtualService(w) \/ DeleteRecord(w)
           \/ CreateRecord(w) \/ SendService(w) \/ CreateVirtualService(w)
    PROVE  PortInv'
<1> PICK k \in Keys : k = running[w]
    BY AtWork DEF DeleteService, DeleteVirtualService, DeleteRecord, CreateRecord, SendService,
                  Send, CreateVirtualService
<1>1. /\ UNCHANGED <<source, past, heap, cell, at>>
      /\ \E label \in Labels : Goto(w, label) /\ (label \in Holding => pc[w] \in Holding)
    <2>1. AfterTeardown(want[w]) \in {"idle", "decide"}
        BY DEF AfterTeardown
    <2> QED BY <2>1 DEF DeleteService, DeleteVirtualService, DeleteRecord, CreateRecord,
                        SendService, Send, CreateVirtualService, sourceVars, cacheVars, loopVars,
                        Labels, Holding, Tearing
<1>2. PICK label \in Labels : Goto(w, label) /\ (label \in Holding => pc[w] \in Holding)
    BY <1>1
<1>3. \A v \in Workers : pc'[v] \in Holding => pc[v] \in Holding /\ running'[v] = running[v]
    BY <1>2, GotoMoves DEF Holding
<1>4. /\ DOMAIN svc' = Keys /\ \A j \in Keys : DOMAIN svc'[j] = Routes
      /\ \A j \in Keys : \A n \in Routes :
             svc'[j][n] \in {svc[j][n], None} \/ svc'[j][n] \in Offers(j)
    <2>0. DOMAIN svc = Keys /\ \A j \in Keys : DOMAIN svc[j] = Routes
        BY DEF PortInv
    <2>1. CASE SendService(w)
        <3>1. Given(w) \in Offers(k)
            BY <2>1, LoopEndsClean DEF SendService, Send, Holding
        <3>2. svc' = svc \/ svc' = [svc EXCEPT ![k][want[w]] = Given(w)]
            BY <2>1 DEF SendService, Send
        <3>3. CASE svc' = svc
            BY <3>3 DEF PortInv
        <3>4. CASE svc' = [svc EXCEPT ![k][want[w]] = Given(w)]
            BY <2>0, <3>1, <3>4, OneObject
        <3> QED BY <3>2, <3>3, <3>4
    <2>2. CASE DeleteService(w)
        <3>1. svc' = svc \/ svc' = [svc EXCEPT ![k][rec[k]] = None]
            BY <2>2 DEF DeleteService, Without
        <3>2. CASE svc' = svc
            BY <3>2 DEF PortInv
        <3>3. CASE svc' = [svc EXCEPT ![k][rec[k]] = None]
            BY <2>0, <3>3, OneObject
        <3> QED BY <3>1, <3>2, <3>3
    <2>3. CASE DeleteVirtualService(w) \/ DeleteRecord(w) \/ CreateRecord(w) \/ CreateVirtualService(w)
        BY <2>3 DEF DeleteVirtualService, DeleteRecord, CreateRecord, CreateVirtualService,
                    objectVars, PortInv
    <2> QED BY <2>1, <2>2, <2>3
<1>5. DOMAIN cell' = Workers /\ DOMAIN at' = Workers
    BY <1>1 DEF PortInv
<1> QED BY <1>1, <1>3, <1>4, <1>5, SlicesKept

LEMMA EndsKeeps ==
    ASSUME PortInv, Ends, UNCHANGED <<source, past, svc>>
    PROVE  PortInv'
<1>1. /\ heap' = [k \in Keys |-> <<>>]
      /\ pc' = [v \in Workers |-> "idle"]
      /\ DOMAIN cell' = Workers /\ DOMAIN at' = Workers
    BY DEF Ends
<1>2. \A k \in Keys : Offers(k)' = Offers(k)
    BY DEF Offers
<1>3. heap' \in [Keys -> Seq(Seq(Elements))] /\ \A k \in Keys : DOMAIN heap'[k] = {}
    BY <1>1
<1>4. \A w \in Workers : pc'[w] \notin Holding
    BY <1>1 DEF Holding
<1> QED BY <1>1, <1>2, <1>3, <1>4 DEF PortInv

LEMMA PortInvStep ==
    ASSUME PortsAssumption, SyncInv, PortInv, [Next]_vars
    PROVE  PortInv'
<1>1. ASSUME NEW k \in Keys, ServiceEvent(k) PROVE PortInv'
    BY <1>1, ServiceEventKeeps
<1>2. ASSUME NEW k \in Keys, NEW list \in PortLists, ServiceChanges(k, list) PROVE PortInv'
    BY <1>2, ServiceChangesKeeps
<1>3. ASSUME NEW w \in Workers, NEW k \in Keys, StartSync(w, k) PROVE PortInv'
    <2>1. UNCHANGED <<source, past, heap, svc, cell, at>>
        BY <1>3 DEF StartSync, sourceVars, cacheVars, objectVars, loopVars
    <2>2. \A v \in Workers : pc'[v] \in Holding => pc[v] \in Holding /\ running'[v] = running[v]
        BY <1>3, StartSyncInv DEF SyncInv, Holding
    <2> QED BY <2>1, <2>2, SlicesKept DEF PortInv
<1>4. ASSUME NEW w \in Workers, ZeroNodePort(w) PROVE PortInv'
    BY <1>4, ZeroKeeps
<1>5. ASSUME NEW w \in Workers, DeleteRecord(w) \/ CreateRecord(w) \/ Other(w)
      PROVE  PortInv'
    BY <1>5, SyncStepKeeps, DecideKeeps DEF Other
<1>6. ASSUME NEW w \in Workers, Panic(w) PROVE PortInv'
    BY <1>6, EndsKeeps DEF Panic, sourceVars, objectVars
<1>7. CASE Kill
    BY <1>7, EndsKeeps DEF Kill, sourceVars, objectVars
<1>8. CASE Restart \/ UNCHANGED vars \/ \E k \in Keys, n \in Routes \cup {None} : UserAsks(k, n)
    <2>1. UNCHANGED <<source, past, heap, svc, running, pc, cell, at>>
        BY <1>8 DEF Restart, UserAsks, vars, sourceVars, cacheVars, objectVars, syncVars, loopVars
    <2> QED BY <2>1, SlicesKept DEF PortInv
<1> QED BY <1>1, <1>2, <1>3, <1>4, <1>5, <1>6, <1>7, <1>8 DEF Next, Step, Other

\* No node port leaves the application cluster, and the ports that do belong to
\* one version of the Service, however many syncs zero the slices they share
\* with the cache while it moves on.
THEOREM OffersAreStripped ==
    ASSUME PortsAssumption
    PROVE  SafetySpec => []NodePortsStayHome
<1>1. PortInv => NodePortsStayHome
    BY DEF PortInv, Offers, NodePortsStayHome
<1>2. Init => SyncInv /\ PortInv
    BY SyncInvInit, PortInvInit
<1>3. SyncInv /\ PortInv /\ [Next]_vars => SyncInv' /\ PortInv'
    BY SyncInvStep, PortInvStep
<1> QED BY <1>1, <1>2, <1>3, PTL DEF SafetySpec

-----------------------------------------------------------------------------
(* Types: a worker that has got past its decision has a slice, and an      *)
(* index into it, and a VirtualService is only given the port of a list    *)
(* that has one.                                                           *)

RestOK ==
    /\ changes \in 0 .. MaxChanges /\ faults \in 0 .. MaxFaults
    /\ current \in [Keys -> BOOLEAN] /\ up \in BOOLEAN
    /\ vs \in [Keys -> [Routes -> (Nat \ {0}) \cup {None}]]

PortTypes == SyncInv /\ CountInv /\ PortInv /\ RestOK

LEMMA PortTypesInit ==
    ASSUME PortsAssumption, Init
    PROVE  PortTypes
<1>1. 0 \in 0 .. MaxChanges /\ 0 \in 0 .. MaxFaults
    BY DEF PortsAssumption
<1>2. RestOK
    BY <1>1 DEF Init, RestOK, NoObjects
<1> QED BY <1>2, SyncInvInit, CountInvInit, PortInvInit DEF PortTypes

\* A call that is answered or lost keeps the count of faults within its bound.
LEMMA FaultsAreBounded ==
    ASSUME PortsAssumption, RestOK, Answered \/ Lost
    PROVE  faults' \in 0 .. MaxFaults
BY DEF PortsAssumption, RestOK, Answered, Lost

LEMMA RestStep ==
    ASSUME PortsAssumption, SyncInv, PortInv, RestOK, [Next]_vars
    PROVE  RestOK'
<1>1. ASSUME NEW k \in Keys, ServiceEvent(k)
      PROVE  RestOK'
    BY <1>1 DEF ServiceEvent, RestOK, sourceVars, objectVars, processVars
<1>2. ASSUME NEW k \in Keys, \/ \E list \in PortLists : ServiceChanges(k, list)
                             \/ \E n \in Routes \cup {None} : UserAsks(k, n)
      PROVE  RestOK'
    <2>1. Change /\ UNCHANGED <<faults, up, vs>> /\ current' \in [Keys -> BOOLEAN]
        BY <1>2 DEF ServiceChanges, UserAsks, RestOK, cacheVars, objectVars, processVars
    <2>2. changes' \in 0 .. MaxChanges
        BY <2>1 DEF Change, RestOK, PortsAssumption
    <2> QED BY <2>1, <2>2 DEF RestOK
<1>3. ASSUME NEW w \in Workers,
             \/ \E k \in Keys : StartSync(w, k)
             \/ DeleteService(w) \/ DeleteRecord(w) \/ Decide(w) \/ CreateRecord(w)
             \/ SendService(w)
      PROVE  RestOK'
    <2>1. UNCHANGED <<changes, current, up, vs>>
        BY <1>3 DEF StartSync, DeleteService, DeleteRecord, Decide, CreateRecord, SendService,
                    Send, sourceVars, cacheVars, objectVars, processVars
    <2>2. Answered \/ Lost
        BY <1>3 DEF StartSync, DeleteService, DeleteRecord, Decide, CreateRecord, SendService, Send
    <2> QED BY <2>1, <2>2, FaultsAreBounded DEF RestOK
<1>4. ASSUME NEW w \in Workers, DeleteVirtualService(w)
      PROVE  RestOK'
    <2>1. UNCHANGED <<changes, current, up>> /\ (Answered \/ Lost)
          /\ (vs' = Without(vs, w) \/ vs' = vs)
        BY <1>4 DEF DeleteVirtualService, sourceVars, cacheVars, processVars
    <2>2. vs' \in [Keys -> [Routes -> (Nat \ {0}) \cup {None}]]
        <3>1. CASE vs' = [vs EXCEPT ![running[w]][rec[running[w]]] = None]
            <4>1. \A k \in Keys : [vs[k] EXCEPT ![rec[running[w]]] = None]
                                     \in [Routes -> (Nat \ {0}) \cup {None}]
                BY DEF RestOK
            <4>2. running[w] \in Keys
                BY <1>4, AtWork DEF DeleteVirtualService
            <4> QED BY <3>1, <4>1, <4>2 DEF RestOK
        <3> QED BY <2>1, <3>1 DEF Without, RestOK
    <2> QED BY <2>1, <2>2, FaultsAreBounded DEF RestOK
<1>5. ASSUME NEW w \in Workers, ZeroNodePort(w)
      PROVE  RestOK'
    BY <1>5 DEF ZeroNodePort, RestOK, sourceVars, objectVars, processVars
<1>6. ASSUME NEW w \in Workers, CreateVirtualService(w)
      PROVE  RestOK'
    <2> DEFINE k == running[w]
    <2>1. k \in Keys /\ Given(w) \in Seq(Elements) /\ Given(w) # <<>>
        BY <1>6 DEF PortInv, CreateVirtualService, Given, Holding
    <2>2. Given(w)[1] \in Elements
        BY <2>1
    <2>3. Given(w)[1].port \in Nat \ {0}
        BY <2>2 DEF Elements
    <2>4. vs' \in [Keys -> [Routes -> (Nat \ {0}) \cup {None}]]
        BY <1>6, <2>3 DEF CreateVirtualService, RestOK
    <2>5. UNCHANGED <<changes, current, up>> /\ (Answered \/ Lost)
        BY <1>6 DEF CreateVirtualService, sourceVars, cacheVars, processVars
    <2> QED BY <2>4, <2>5, FaultsAreBounded DEF RestOK
<1>7. ASSUME NEW w \in Workers, Panic(w)
      PROVE  RestOK'
    BY <1>7 DEF Panic, Ends, RestOK, sourceVars, objectVars
<1>8. CASE Kill
    <2>1. UNCHANGED <<changes, vs>> /\ Lost /\ up' = FALSE /\ current' = [k \in Keys |-> FALSE]
        BY <1>8 DEF Kill, Ends, sourceVars, objectVars
    <2> QED BY <2>1, FaultsAreBounded DEF RestOK
<1>9. CASE Restart \/ UNCHANGED vars
    BY <1>9 DEF Restart, vars, RestOK, sourceVars, cacheVars, objectVars, processVars
<1> QED BY <1>1, <1>2, <1>3, <1>4, <1>5, <1>6, <1>7, <1>8, <1>9 DEF Next, Step

\* Every variable of the ports keeps its type: in particular the index of a
\* loop stays within the slice it runs over, a sync that may write has a route,
\* and no VirtualService leads to a port that is none.
THEOREM TypeCorrect ==
    ASSUME PortsAssumption
    PROVE  SafetySpec => []TypeOK
<1>1. Init => PortTypes
    BY PortTypesInit
<1>2. PortTypes /\ [Next]_vars => PortTypes'
    BY SyncInvStep, CountInvStep, PortInvStep, RestStep DEF PortTypes
<1>3. PortTypes => TypeOK
    BY DEF PortTypes, SyncInv, CountInv, PortInv, RestOK, TypeOK, Elements, Given
<1> QED BY <1>1, <1>2, <1>3, PTL DEF SafetySpec

=============================================================================
