---------------------------- MODULE ProcessProofs ----------------------------
(***************************************************************************)
(* The safety of the work queue for every set of keys and workers, and     *)
(* that each of its steps is one of KeyedWork or a stutter; then the       *)
(* safety of the whole process (MCProcess), from that of its parts.        *)
(***************************************************************************)
EXTENDS MCProcess, TLAPS

-----------------------------------------------------------------------------
(* The slice of the queue.                                                 *)

LEMMA AppendNew ==
    ASSUME NEW S, NEW q \in Seq(S), NEW k \in S, k \notin Range(q), IsInjective(q)
    PROVE  /\ Append(q, k) \in Seq(S)
           /\ Range(Append(q, k)) = Range(q) \cup {k}
           /\ IsInjective(Append(q, k))
<1> DEFINE a == Append(q, k)
           n == Len(q)
<1>1. a \in Seq(S) /\ n \in Nat /\ DOMAIN a = 1 .. n + 1 /\ DOMAIN q = 1 .. n
    OBVIOUS
<1>2. a[n + 1] = k /\ \A i \in 1 .. n : a[i] = q[i]
    OBVIOUS
<1>3. \A i \in 1 .. n : q[i] # k
    BY <1>1 DEF Range
<1>4. Range(a) = Range(q) \cup {k}
    <2>1. \A i \in 1 .. n + 1 : i \in 1 .. n \/ i = n + 1
        BY <1>1
    <2>2. Range(a) \subseteq Range(q) \cup {k}
        BY <1>1, <1>2, <2>1 DEF Range
    <2>3. Range(q) \subseteq Range(a)
        <3> SUFFICES ASSUME NEW i \in 1 .. n PROVE q[i] \in Range(a)
            BY <1>1 DEF Range
        <3>1. i \in 1 .. n + 1 /\ a[i] = q[i]
            BY <1>1, <1>2
        <3> QED BY <1>1, <3>1 DEF Range
    <2>4. k \in Range(a)
        <3>1. n + 1 \in 1 .. n + 1
            BY <1>1
        <3> QED BY <1>1, <1>2, <3>1 DEF Range
    <2> QED BY <2>2, <2>3, <2>4
<1>5. IsInjective(a)
    <2> SUFFICES ASSUME NEW i \in 1 .. n + 1, NEW j \in 1 .. n + 1, a[i] = a[j]
                 PROVE  i = j
        BY <1>1 DEF IsInjective
    <2>1. CASE i \in 1 .. n /\ j \in 1 .. n
        BY <1>1, <1>2, <2>1 DEF IsInjective
    <2>2. CASE i = n + 1 \/ j = n + 1
        BY <1>1, <1>2, <1>3, <2>2
    <2> QED BY <1>1, <2>1, <2>2
<1> QED BY <1>1, <1>4, <1>5

LEMMA TailOfInjective ==
    ASSUME NEW S, NEW q \in Seq(S), q # <<>>, IsInjective(q)
    PROVE  /\ Tail(q) \in Seq(S) /\ Head(q) \in Range(q) /\ Head(q) \in S
           /\ Range(Tail(q)) = Range(q) \ {Head(q)}
           /\ IsInjective(Tail(q))
<1> DEFINE t == Tail(q)
           n == Len(q)
<1>1. /\ t \in Seq(S) /\ n \in Nat \ {0} /\ DOMAIN q = 1 .. n /\ DOMAIN t = 1 .. n - 1
      /\ Head(q) = q[1] /\ \A i \in 1 .. n - 1 : t[i] = q[i + 1]
    OBVIOUS
<1>2. \A i, j \in 1 .. n : q[i] = q[j] => i = j
    BY <1>1 DEF IsInjective
<1>3. IsInjective(t)
    <2> SUFFICES ASSUME NEW i \in 1 .. n - 1, NEW j \in 1 .. n - 1, t[i] = t[j]
                 PROVE  i = j
        BY <1>1 DEF IsInjective
    <2>1. i + 1 \in 1 .. n /\ j + 1 \in 1 .. n /\ q[i + 1] = q[j + 1]
        BY <1>1
    <2> QED BY <1>2, <2>1
<1>4. Range(t) \subseteq Range(q) \ {Head(q)}
    <2> SUFFICES ASSUME NEW i \in 1 .. n - 1
                 PROVE  t[i] \in Range(q) /\ t[i] # Head(q)
        BY <1>1 DEF Range
    <2>1. i + 1 \in 1 .. n /\ 1 \in 1 .. n /\ i + 1 # 1 /\ t[i] = q[i + 1]
        BY <1>1
    <2> QED BY <1>1, <1>2, <2>1 DEF Range
<1>5. Range(q) \ {Head(q)} \subseteq Range(t)
    <2> SUFFICES ASSUME NEW i \in 1 .. n, q[i] # Head(q) PROVE q[i] \in Range(t)
        BY <1>1 DEF Range
    <2>1. i - 1 \in 1 .. n - 1 /\ t[i - 1] = q[i]
        BY <1>1
    <2> QED BY <1>1, <2>1 DEF Range
<1>6. Head(q) \in Range(q)
    BY <1>1 DEF Range
<1> QED BY <1>1, <1>3, <1>4, <1>5, <1>6

-----------------------------------------------------------------------------
(* The inductive invariant.                                                *)

\* A worker holds a key between Get and Done, and the processing set is what
\* the workers hold.
HandsAreProcessing ==
    /\ \A w \in Workers : item[w] # None <=> pc[w] \in {"sync", "done"}
    /\ processing = {item[w] : w \in Workers} \ {None}

\* Before its Done a failed key is already on its way back, so that Done may
\* take it out of the processing set.
RetryIsUnderWay ==
    \A w \in Workers :
        pc[w] = "done" /\ ~ shuttingDown /\ failures[item[w]] > 0 =>
            item[w] \in waiting \cup dirty

IInv ==
    /\ TypeOK /\ HandsAreProcessing /\ NeverSharedKey
    /\ QueueIsBacklog /\ FailedKeyIsKept /\ RetryIsUnderWay

LEMMA InvInit == Init => IInv
<1> SUFFICES ASSUME Init PROVE IInv
    OBVIOUS
<1>1. TypeOK
    <2>1. queue \in Seq(Keys)
        BY DEF Init
    <2>2. failures \in [Keys -> 0 .. MaxFailures]
        BY WorkQueueAssumption DEF Init
    <2> QED BY <2>1, <2>2 DEF Init, TypeOK
<1>2. QueueIsBacklog
    BY DEF Init, QueueIsBacklog, Range, IsInjective
<1>3. HandsAreProcessing
    BY DEF Init, HandsAreProcessing
<1> QED
    BY <1>1, <1>2, <1>3 DEF Init, IInv, NeverSharedKey, FailedKeyIsKept, RetryIsUnderWay

\* Add, with which a handler or a timer marks a key.
LEMMA InsertKeeps ==
    ASSUME IInv, NEW k \in Keys, Insert(k), UNCHANGED processing
    PROVE  /\ queue' \in Seq(Keys) /\ dirty' \subseteq Keys
           /\ dirty \subseteq dirty' /\ (~ shuttingDown => k \in dirty')
           /\ QueueIsBacklog'
<1> USE DEF IInv, TypeOK, QueueIsBacklog, Insert
<1>1. CASE shuttingDown \/ k \in dirty \cup processing
    <2>1. queue' = queue /\ dirty' \subseteq Keys /\ dirty \subseteq dirty'
        BY <1>1
    <2>2. dirty' \ processing = dirty \ processing
        BY <1>1
    <2> QED BY <2>1, <2>2
<1>2. CASE ~ shuttingDown /\ k \notin dirty \cup processing
    <2>1. queue' = Append(queue, k) /\ dirty' = dirty \cup {k}
        BY <1>2
    <2>2. k \notin Range(queue)
        BY <1>2
    <2>3. /\ queue' \in Seq(Keys) /\ Range(queue') = Range(queue) \cup {k}
          /\ IsInjective(queue')
        BY <2>1, <2>2, AppendNew
    <2>4. dirty' \ processing = (dirty \ processing) \cup {k}
        BY <1>2, <2>1
    <2> QED BY <2>1, <2>3, <2>4
<1> QED BY <1>1, <1>2

LEMMA AddKeeps ==
    ASSUME IInv, NEW k \in Keys, Add(k)
    PROVE  IInv'
<1>1. /\ Insert(k) /\ UNCHANGED <<processing, waiting, failures, shuttingDown, item, pc>>
    BY DEF Add
<1>2. /\ queue' \in Seq(Keys) /\ dirty' \subseteq Keys /\ dirty \subseteq dirty'
      /\ QueueIsBacklog'
    BY <1>1, InsertKeeps
<1> QED
    BY <1>1, <1>2 DEF IInv, TypeOK, HandsAreProcessing, NeverSharedKey, FailedKeyIsKept,
                      RetryIsUnderWay

LEMMA BackOffEndsKeeps ==
    ASSUME IInv, NEW k \in Keys, BackOffEnds(k)
    PROVE  IInv'
<1>1. /\ Insert(k) /\ waiting' = waiting \ {k}
      /\ UNCHANGED <<processing, failures, shuttingDown, item, pc>>
    BY DEF BackOffEnds
<1>2. /\ queue' \in Seq(Keys) /\ dirty' \subseteq Keys /\ dirty \subseteq dirty'
      /\ ~ shuttingDown => k \in dirty'
      /\ QueueIsBacklog'
    BY <1>1, InsertKeeps
<1>3. ~ shuttingDown => waiting \cup dirty \subseteq waiting' \cup dirty'
    BY <1>1, <1>2
<1>4. FailedKeyIsKept' /\ RetryIsUnderWay'
    BY <1>1, <1>3 DEF IInv, FailedKeyIsKept, RetryIsUnderWay
<1> QED
    BY <1>1, <1>2, <1>4 DEF IInv, TypeOK, HandsAreProcessing, NeverSharedKey

LEMMA ShutDownKeeps ==
    ASSUME IInv, ShutDown
    PROVE  IInv'
BY DEF ShutDown, IInv, TypeOK, HandsAreProcessing, NeverSharedKey, QueueIsBacklog,
       FailedKeyIsKept, RetryIsUnderWay

LEMMA GetKeeps ==
    ASSUME IInv, NEW w \in Workers, Get(w)
    PROVE  IInv'
<1> DEFINE k == Head(queue)
<1>1. /\ pc[w] = "get" /\ queue # <<>> /\ queue' = Tail(queue)
      /\ item' = [item EXCEPT ![w] = k] /\ processing' = processing \cup {k}
      /\ dirty' = dirty \ {k} /\ pc' = [pc EXCEPT ![w] = "sync"]
      /\ UNCHANGED <<waiting, failures, shuttingDown>>
    BY DEF Get, Goto
<1>2. /\ queue' \in Seq(Keys) /\ k \in Range(queue) /\ k \in Keys
      /\ Range(queue') = Range(queue) \ {k} /\ IsInjective(queue')
    BY <1>1, TailOfInjective DEF IInv, TypeOK, QueueIsBacklog
<1>3. k \in dirty /\ k \notin processing /\ k # None
    BY <1>2, WorkQueueAssumption DEF IInv, QueueIsBacklog
<1>4. TypeOK'
    BY <1>1, <1>2 DEF IInv, TypeOK
<1>5. \A v \in Workers : v # w => item'[v] = item[v] /\ pc'[v] = pc[v]
    BY <1>1 DEF IInv, TypeOK
<1>6. item[w] = None /\ item'[w] = k /\ pc'[w] = "sync"
    BY <1>1 DEF IInv, TypeOK, HandsAreProcessing
<1>7. HandsAreProcessing'
    <2>1. \A v \in Workers : item'[v] # None <=> pc'[v] \in {"sync", "done"}
        BY <1>3, <1>5, <1>6 DEF IInv, HandsAreProcessing
    <2>2. {item'[v] : v \in Workers} \ {None} = ({item[v] : v \in Workers} \ {None}) \cup {k}
        BY <1>3, <1>5, <1>6
    <2> QED BY <1>1, <2>1, <2>2 DEF IInv, HandsAreProcessing
<1>8. \A v \in Workers : item[v] # k
    BY <1>3 DEF IInv, HandsAreProcessing
<1>9. NeverSharedKey'
    BY <1>5, <1>6, <1>8 DEF IInv, NeverSharedKey
<1>10. QueueIsBacklog'
    <2>1. dirty' \ processing' = (dirty \ processing) \ {k}
        BY <1>1
    <2> QED BY <1>2, <2>1 DEF IInv, QueueIsBacklog
<1>11. FailedKeyIsKept'
    BY <1>1 DEF IInv, FailedKeyIsKept
<1>12. RetryIsUnderWay'
    <2> SUFFICES ASSUME NEW v \in Workers, pc'[v] = "done", ~ shuttingDown',
                        failures'[item'[v]] > 0
                 PROVE  item'[v] \in waiting' \cup dirty'
        BY DEF RetryIsUnderWay
    <2>1. v # w /\ item'[v] = item[v] /\ pc[v] = "done"
        BY <1>5, <1>6
    <2>2. item[v] \in waiting \cup dirty
        BY <1>1, <2>1 DEF IInv, RetryIsUnderWay
    <2>3. item[v] # k
        BY <1>8
    <2> QED BY <1>1, <2>1, <2>2, <2>3
<1> QED BY <1>4, <1>7, <1>9, <1>10, <1>11, <1>12 DEF IInv

LEMMA StopKeeps ==
    ASSUME IInv, NEW w \in Workers, Stop(w)
    PROVE  IInv'
<1>1. /\ pc[w] = "get" /\ pc' = [pc EXCEPT ![w] = "stopped"] /\ UNCHANGED <<queueVars, item>>
    BY DEF Stop, Goto
<1>2. TypeOK'
    BY <1>1 DEF IInv, TypeOK, queueVars
<1>3. \A v \in Workers : pc'[v] = IF v = w THEN "stopped" ELSE pc[v]
    BY <1>1 DEF IInv, TypeOK
<1>4. HandsAreProcessing'
    BY <1>1, <1>3 DEF IInv, HandsAreProcessing, queueVars
<1>5. NeverSharedKey' /\ QueueIsBacklog' /\ FailedKeyIsKept'
    BY <1>1 DEF IInv, NeverSharedKey, QueueIsBacklog, FailedKeyIsKept, queueVars
<1>6. RetryIsUnderWay'
    BY <1>1, <1>3 DEF IInv, RetryIsUnderWay, queueVars
<1> QED BY <1>2, <1>4, <1>5, <1>6 DEF IInv

\* A sync ends, in one way or the other: its key stays in hand, and what
\* changes is its failure count, with a back-off if it failed.
LEMMA SyncKeeps ==
    ASSUME IInv, NEW w \in Workers, SyncFails(w) \/ SyncSucceeds(w)
    PROVE  IInv'
<1> DEFINE k == item[w]
<1>1. /\ pc[w] = "sync" /\ pc' = [pc EXCEPT ![w] = "done"]
      /\ UNCHANGED <<queue, dirty, processing, shuttingDown, item>>
    BY DEF SyncFails, SyncSucceeds, Goto
<1>2. k \in Keys /\ k \in processing
    BY <1>1 DEF IInv, TypeOK, HandsAreProcessing
<1>3. waiting \subseteq waiting' /\ waiting' \subseteq Keys
    BY <1>2 DEF SyncFails, SyncSucceeds, BackOff, IInv, TypeOK
<1>4. /\ failures' \in [Keys -> 0 .. MaxFailures]
      /\ \A j \in Keys \ {k} : failures'[j] = failures[j]
    BY <1>2, WorkQueueAssumption DEF SyncFails, SyncSucceeds, BackOff, IInv, TypeOK
<1>5. ~ shuttingDown /\ failures'[k] > 0 => k \in waiting'
    BY <1>2 DEF SyncFails, SyncSucceeds, BackOff, IInv, TypeOK
<1>6. TypeOK'
    BY <1>1, <1>3, <1>4 DEF IInv, TypeOK
<1>7. \A v \in Workers : pc'[v] = IF v = w THEN "done" ELSE pc[v]
    BY <1>1 DEF IInv, TypeOK
<1>8. HandsAreProcessing'
    BY <1>1, <1>7 DEF IInv, HandsAreProcessing
<1>9. NeverSharedKey' /\ QueueIsBacklog'
    BY <1>1 DEF IInv, NeverSharedKey, QueueIsBacklog
<1>10. FailedKeyIsKept'
    <2> SUFFICES ASSUME NEW j \in Keys, failures'[j] > 0, ~ shuttingDown'
                 PROVE  j \in waiting' \cup dirty' \cup processing'
        BY DEF FailedKeyIsKept
    <2>1. CASE j = k
        BY <1>1, <1>2, <2>1
    <2>2. CASE j # k
        BY <1>1, <1>3, <1>4, <2>2 DEF IInv, FailedKeyIsKept
    <2> QED BY <2>1, <2>2
<1>11. RetryIsUnderWay'
    <2> SUFFICES ASSUME NEW v \in Workers, pc'[v] = "done", ~ shuttingDown',
                        failures'[item'[v]] > 0
                 PROVE  item'[v] \in waiting' \cup dirty'
        BY DEF RetryIsUnderWay
    <2>1. CASE v = w
        BY <1>1, <1>5, <2>1
    <2>2. CASE v # w
        <3>1. pc[v] = "done" /\ item[v] # None /\ item[v] \in Keys
            BY <1>7, <2>2 DEF IInv, TypeOK, HandsAreProcessing
        <3>2. item[v] # k
            BY <2>2, <3>1 DEF IInv, NeverSharedKey
        <3>3. failures[item[v]] > 0
            BY <1>1, <1>4, <3>1, <3>2
        <3> QED BY <1>1, <1>3, <3>1, <3>3 DEF IInv, RetryIsUnderWay
    <2> QED BY <2>1, <2>2
<1> QED BY <1>6, <1>8, <1>9, <1>10, <1>11 DEF IInv

\* Done: a marked key goes back into the slice, where it was not.
LEMMA DoneKeeps ==
    ASSUME IInv, NEW w \in Workers, Done(w)
    PROVE  IInv'
<1> DEFINE k == item[w]
<1>1. /\ pc[w] = "done" /\ processing' = processing \ {k}
      /\ queue' = (IF k \in dirty THEN Append(queue, k) ELSE queue)
      /\ item' = [item EXCEPT ![w] = None] /\ pc' = [pc EXCEPT ![w] = "get"]
      /\ UNCHANGED <<dirty, waiting, failures, shuttingDown>>
    BY DEF Done, Release, Goto
<1>2. k \in Keys /\ k \in processing /\ k # None
    BY <1>1 DEF IInv, TypeOK, HandsAreProcessing
<1>3. queue' \in Seq(Keys) /\ QueueIsBacklog'
    <2>1. CASE k \in dirty
        <3>1. k \notin Range(queue)
            BY <1>2 DEF IInv, QueueIsBacklog
        <3>2. /\ queue' \in Seq(Keys) /\ Range(queue') = Range(queue) \cup {k}
              /\ IsInjective(queue')
            BY <1>1, <1>2, <2>1, <3>1, AppendNew DEF IInv, TypeOK, QueueIsBacklog
        <3>3. dirty' \ processing' = (dirty \ processing) \cup {k}
            BY <1>1, <2>1
        <3> QED BY <3>2, <3>3 DEF IInv, QueueIsBacklog
    <2>2. CASE k \notin dirty
        <3>1. dirty' \ processing' = dirty \ processing
            BY <1>1, <2>2
        <3> QED BY <1>1, <2>2, <3>1 DEF IInv, TypeOK, QueueIsBacklog
    <2> QED BY <2>1, <2>2
<1>4. TypeOK'
    BY <1>1, <1>3 DEF IInv, TypeOK
<1>5. \A v \in Workers : /\ item'[v] = IF v = w THEN None ELSE item[v]
                         /\ pc'[v] = IF v = w THEN "get" ELSE pc[v]
    BY <1>1 DEF IInv, TypeOK
<1>6. \A v \in Workers : v # w => item[v] # k
    BY <1>2 DEF IInv, NeverSharedKey
<1>7. HandsAreProcessing'
    <2>1. \A v \in Workers : item'[v] # None <=> pc'[v] \in {"sync", "done"}
        BY <1>5 DEF IInv, HandsAreProcessing
    <2>2. {item'[v] : v \in Workers} \ {None} = ({item[v] : v \in Workers} \ {None}) \ {k}
        BY <1>5, <1>6
    <2> QED BY <1>1, <2>1, <2>2 DEF IInv, HandsAreProcessing
<1>8. NeverSharedKey'
    BY <1>5 DEF IInv, NeverSharedKey
<1>9. FailedKeyIsKept'
    <2> SUFFICES ASSUME NEW j \in Keys, failures'[j] > 0, ~ shuttingDown'
                 PROVE  j \in waiting' \cup dirty' \cup processing'
        BY DEF FailedKeyIsKept
    <2>1. CASE j = k
        BY <1>1, <2>1 DEF IInv, RetryIsUnderWay
    <2>2. CASE j # k
        BY <1>1, <2>2 DEF IInv, FailedKeyIsKept
    <2> QED BY <2>1, <2>2
<1>10. RetryIsUnderWay'
    BY <1>1, <1>5 DEF IInv, RetryIsUnderWay
<1> QED BY <1>3, <1>4, <1>7, <1>8, <1>9, <1>10 DEF IInv

LEMMA InvStep == IInv /\ [Next]_vars => IInv'
<1> SUFFICES ASSUME IInv, [Next]_vars PROVE IInv'
    OBVIOUS
<1>1. ASSUME NEW k \in Keys, Add(k) \/ BackOffEnds(k) PROVE IInv'
    BY <1>1, AddKeeps, BackOffEndsKeeps
<1>2. CASE ShutDown
    BY <1>2, ShutDownKeeps
<1>3. ASSUME NEW w \in Workers, Worker(w) PROVE IInv'
    BY <1>3, GetKeeps, StopKeeps, SyncKeeps, DoneKeeps DEF Worker
<1>4. CASE UNCHANGED vars
    BY <1>4 DEF vars, queueVars, IInv, TypeOK, HandsAreProcessing, NeverSharedKey,
                QueueIsBacklog, FailedKeyIsKept, RetryIsUnderWay
<1> QED BY <1>1, <1>2, <1>3, <1>4 DEF Next

LEMMA InvHolds == SafetySpec => []IInv
<1>1. Init => IInv
    BY InvInit
<1>2. IInv /\ [Next]_vars => IInv'
    BY InvStep
<1> QED BY <1>1, <1>2, PTL DEF SafetySpec

-----------------------------------------------------------------------------
\* The variables of the queue and its workers keep to their types; the failure
\* count saturates.
THEOREM TypeCorrect == SafetySpec => []TypeOK
<1>1. IInv => TypeOK
    BY DEF IInv
<1> QED BY <1>1, InvHolds, PTL

\* No two workers process the same item at the same time, however many there
\* are and however often a key is added meanwhile.
THEOREM KeysAreNotShared == SafetySpec => []NeverSharedKey
<1>1. IInv => NeverSharedKey
    BY DEF IInv
<1> QED BY <1>1, InvHolds, PTL

\* The slice of the queue is the backlog: no marked key is forgotten and none
\* is lined up twice.
THEOREM BacklogIsQueued == SafetySpec => []QueueIsBacklog
<1>1. IInv => QueueIsBacklog
    BY DEF IInv
<1> QED BY <1>1, InvHolds, PTL

\* A failed key is kept for another sync until the queue is shut down.
THEOREM FailuresAreRetried == SafetySpec => []FailedKeyIsKept
<1>1. IInv => FailedKeyIsKept
    BY DEF IInv
<1> QED BY <1>1, InvHolds, PTL

-----------------------------------------------------------------------------
(* The refinement.                                                         *)

LEMMA InsertIsRequest ==
    ASSUME NEW k \in Keys, Insert(k), UNCHANGED item
    PROVE  Work!Request(k) \/ UNCHANGED <<dirty, item>>
BY DEF Insert, Work!Request

LEMMA QueueStepIsWork == IInv /\ [Next]_vars => [Work!Next]_(Work!workVars)
<1> SUFFICES ASSUME IInv, [Next]_vars
             PROVE  Work!Next \/ UNCHANGED <<dirty, item>>
    BY DEF Work!workVars
<1>1. ASSUME NEW k \in Keys, Add(k) \/ BackOffEnds(k)
      PROVE  Work!Next \/ UNCHANGED <<dirty, item>>
    BY <1>1, InsertIsRequest DEF Add, BackOffEnds, Work!Next
<1>2. ASSUME NEW w \in Workers, Get(w)
      PROVE  Work!Next
    <2> DEFINE k == Head(queue)
    <2>1. k \in Range(queue) /\ k \in Keys
        BY <1>2, TailOfInjective DEF Get, IInv, TypeOK, QueueIsBacklog
    <2>2. k \in dirty /\ ~ Work!InHand(k)
        BY <2>1, WorkQueueAssumption DEF IInv, QueueIsBacklog, HandsAreProcessing, Work!InHand
    <2>3. item[w] = None
        BY <1>2 DEF Get, IInv, HandsAreProcessing
    <2>4. Work!Start(w, k)
        BY <1>2, <2>2, <2>3 DEF Get, Work!Start
    <2> QED BY <2>1, <2>4 DEF Work!Next
<1>3. ASSUME NEW w \in Workers, Done(w)
      PROVE  Work!Next
    <2>1. item[w] # None
        BY <1>3 DEF Done, IInv, HandsAreProcessing
    <2>2. Work!Finish(w)
        BY <1>3, <2>1 DEF Done, Work!Finish
    <2> QED BY <2>2 DEF Work!Next
<1>4. ASSUME NEW w \in Workers, Stop(w) \/ SyncFails(w) \/ SyncSucceeds(w)
      PROVE  UNCHANGED <<dirty, item>>
    BY <1>4 DEF Stop, SyncFails, SyncSucceeds, queueVars
<1>5. CASE ShutDown
    BY <1>5 DEF ShutDown
<1>6. CASE UNCHANGED vars
    BY <1>6 DEF vars, queueVars
<1> QED BY <1>1, <1>2, <1>3, <1>4, <1>5, <1>6 DEF Next, Worker

\* Every behaviour of the queue with its workers is one of keyed work, which
\* is all that RouteSync knows of it.
THEOREM QueueIsKeyedWork == SafetySpec => Work!SafetySpec
<1>1. Init => Work!Init
    BY DEF Init, Work!Init
<1>2. IInv /\ [Next]_vars => [Work!Next]_(Work!workVars)
    BY QueueStepIsWork
<1> QED BY <1>1, <1>2, InvHolds, PTL DEF SafetySpec, Work!SafetySpec

-----------------------------------------------------------------------------
(* The process.  LifeP and FactoryP are Life and Factory again, with what  *)
(* has been proved of them.                                                *)

LifeP == INSTANCE LifecycleProofs
FactoryP == INSTANCE InformerFactoryProofs WITH pc <- callPc

LEMMA LifeIsLifecycle ==
    /\ LifeP!LifecycleAssumption
    /\ Life!Init <=> LifeP!Init
    /\ Life!Next <=> LifeP!Next
<1>1. LifeP!LifecycleAssumption
    BY ProcessAssumption DEF Life!LifecycleAssumption, LifeP!LifecycleAssumption
<1>2. Life!Init <=> LifeP!Init
    BY DEF Life!Init, LifeP!Init, Life!Caches, LifeP!Caches
<1>3. Life!Next <=> LifeP!Next
    BY DEF Life!Next, LifeP!Next, Life!Caches, LifeP!Caches, Life!Awaited, LifeP!Awaited,
           Life!AwaitedSynced, LifeP!AwaitedSynced, Life!Exit, LifeP!Exit, Life!Signal,
           LifeP!Signal, Life!FirstSignal, LifeP!FirstSignal, Life!SecondSignal, LifeP!SecondSignal,
           Life!Main, LifeP!Main, Life!SetupSignalHandler, LifeP!SetupSignalHandler, Life!Configure,
           LifeP!Configure, Life!MainGoes, LifeP!MainGoes, Life!NewController, LifeP!NewController,
           Life!StartInformers, LifeP!StartInformers, Life!AwaitCaches, LifeP!AwaitCaches,
           Life!WaitFails, LifeP!WaitFails, Life!LaunchWorkers, LifeP!LaunchWorkers, Life!Block,
           LifeP!Block, Life!ShutDown, LifeP!ShutDown, Life!MainReturns, LifeP!MainReturns,
           Life!Enqueue, LifeP!Enqueue, Life!CacheSyncs, LifeP!CacheSyncs, Life!Worker,
           LifeP!Worker, Life!WorkerGoes, LifeP!WorkerGoes, Life!Until, LifeP!Until, Life!Get,
           LifeP!Get, Life!SyncEnds, LifeP!SyncEnds, Life!SyncPanics, LifeP!SyncPanics
<1> QED BY <1>1, <1>2, <1>3

LEMMA FactoryIsFactory ==
    /\ FactoryP!FactoryAssumption
    /\ Factory!Init <=> FactoryP!Init
    /\ Factory!Next <=> FactoryP!Next
<1>1. FactoryP!FactoryAssumption
    BY ProcessAssumption DEF Factory!FactoryAssumption, FactoryP!FactoryAssumption
<1>2. Factory!Init <=> FactoryP!Init
    BY DEF Factory!Init, FactoryP!Init
<1>3. Factory!Next <=> FactoryP!Next
    BY DEF Factory!Next, FactoryP!Next, Factory!Made, FactoryP!Made, Factory!Call, FactoryP!Call,
           Factory!Enter, FactoryP!Enter, Factory!Lock, FactoryP!Lock, Factory!Critical,
           FactoryP!Critical, Factory!LookUp, FactoryP!LookUp, Factory!Make, FactoryP!Make,
           Factory!Goto, FactoryP!Goto, Factory!Return, FactoryP!Return, Factory!Launch,
           FactoryP!Launch, Factory!StartReturns, FactoryP!StartReturns, Factory!Snapshot,
           FactoryP!Snapshot, Factory!Await, FactoryP!Await, Factory!WaitReturns,
           FactoryP!WaitReturns, Factory!CacheSyncs, FactoryP!CacheSyncs, Factory!Stop,
           FactoryP!Stop, Factory!mapVars, FactoryP!mapVars, Factory!callVars, FactoryP!callVars
<1> QED BY <1>1, <1>2, <1>3

\* A step of the process is a step of one of its parts and leaves the others
\* as they are, so that each part behaves as it does alone.
LEMMA PartsAreAlone == ProcessSpec => SafetySpec /\ LifeP!SafetySpec /\ FactoryP!Spec
<1>1. ProcessInit => Init /\ LifeP!Init /\ FactoryP!Init
    BY LifeIsLifecycle, FactoryIsFactory DEF ProcessInit
<1>2. ASSUME [ProcessNext]_processVars
      PROVE  [Next]_vars /\ [LifeP!Next]_(LifeP!vars) /\ [FactoryP!Next]_(FactoryP!vars)
    <2>1. [Next]_vars
        BY <1>2 DEF ProcessNext, processVars
    <2>2. [LifeP!Next]_(LifeP!vars)
        BY <1>2, LifeIsLifecycle DEF ProcessNext, processVars, lifeVars, LifeP!vars
    <2>3. [FactoryP!Next]_(FactoryP!vars)
        BY <1>2, FactoryIsFactory
           DEF ProcessNext, processVars, factoryVars, FactoryP!vars, FactoryP!mapVars,
               FactoryP!callVars
    <2> QED BY <2>1, <2>2, <2>3
<1> QED BY <1>1, <1>2, PTL DEF ProcessSpec, SafetySpec, LifeP!SafetySpec, FactoryP!Spec

\* The variables of the process and of the factory keep their types, for any
\* workers, types, callers and bounds.
THEOREM ProcessTypes == ProcessSpec => []TypesOK
<1>1. LifeP!SafetySpec => []LifeP!TypeOK
    BY LifeIsLifecycle, LifeP!TypeCorrect
<1>2. FactoryP!Spec => []FactoryP!TypeOK
    BY FactoryIsFactory, FactoryP!TypeCorrect
<1>3. LifeP!TypeOK => Life!TypeOK
    BY DEF Life!TypeOK, LifeP!TypeOK, Life!Caches, LifeP!Caches
<1>4. FactoryP!TypeOK => Factory!TypeOK
    BY DEF Factory!TypeOK, FactoryP!TypeOK, Factory!Made, FactoryP!Made
<1> QED BY <1>1, <1>2, <1>3, <1>4, PartsAreAlone, PTL DEF TypesOK

\* No worker of the process syncs before the Endpoints and the ServiceRoutes
\* have been listed.
THEOREM ProcessWaits == ProcessSpec => []NoEarlySync
<1>1. LifeP!SafetySpec => []LifeP!NoEarlySync
    BY LifeP!NoSyncIsEarly
<1>2. LifeP!NoEarlySync => NoEarlySync
    BY DEF NoEarlySync, Life!NoEarlySync, LifeP!NoEarlySync, Life!AwaitedSynced,
           LifeP!AwaitedSynced, Life!Awaited, LifeP!Awaited
<1> QED BY <1>1, <1>2, PartsAreAlone, PTL

\* The process ends with 1 only after two signals, and with 0 only after one
\* and with its queue shut down.
THEOREM ProcessExits == ProcessSpec => []ExitCodesAreEarned
<1>1. LifeP!SafetySpec => []LifeP!ExitCodesAreEarned
    BY LifeIsLifecycle, LifeP!CodesAreEarned
<1>2. LifeP!ExitCodesAreEarned => ExitCodesAreEarned
    BY DEF ExitCodesAreEarned, Life!ExitCodesAreEarned, LifeP!ExitCodesAreEarned
<1> QED BY <1>1, <1>2, PartsAreAlone, PTL

\* All callers in the process share one informer per type.
THEOREM ProcessShares == ProcessSpec => []InformersAreShared
<1>1. FactoryP!Spec => []FactoryP!InformersAreShared
    BY FactoryIsFactory, FactoryP!OneInformerPerType
<1>2. FactoryP!InformersAreShared => InformersAreShared
    BY DEF InformersAreShared, Factory!InformersAreShared, FactoryP!InformersAreShared,
           Factory!Made, FactoryP!Made
<1> QED BY <1>1, <1>2, PartsAreAlone, PTL

\* No informer of the process is run twice.
THEOREM ProcessRunsOnce == ProcessSpec => []RunsOnce
<1>1. FactoryP!Spec => []FactoryP!RunsOnce
    BY FactoryIsFactory, FactoryP!OneRunPerInformer
<1>2. FactoryP!RunsOnce => RunsOnce
    BY DEF RunsOnce, Factory!RunsOnce, FactoryP!RunsOnce, Factory!Made, FactoryP!Made
<1> QED BY <1>1, <1>2, PartsAreAlone, PTL

\* A Start that returns to its caller in the process leaves no informer that
\* anybody was given at rest.
THEOREM ProcessStartsAll == ProcessSpec => StartIsComplete
<1>1. FactoryP!Spec => FactoryP!StartIsComplete
    BY FactoryIsFactory, FactoryP!StartsAll
<1>2. FactoryP!StartIsComplete => StartIsComplete
    BY PTL DEF StartIsComplete, Factory!StartIsComplete, FactoryP!StartIsComplete,
           Factory!vars, FactoryP!vars, Factory!mapVars, FactoryP!mapVars, Factory!callVars,
           FactoryP!callVars
<1> QED BY <1>1, <1>2, PartsAreAlone, PTL

\* A WaitForCacheSync that returns in the process before the stop has waited
\* for all that its caller had started.
THEOREM ProcessWaitsForAll == ProcessSpec => WaitIsComplete
<1>1. FactoryP!Spec => FactoryP!WaitIsComplete
    BY FactoryIsFactory, FactoryP!WaitsForAll
<1>2. FactoryP!WaitIsComplete => WaitIsComplete
    BY PTL DEF WaitIsComplete, Factory!WaitIsComplete, FactoryP!WaitIsComplete,
           Factory!vars, FactoryP!vars, Factory!mapVars, FactoryP!mapVars, Factory!callVars,
           FactoryP!callVars
<1> QED BY <1>1, <1>2, PartsAreAlone, PTL

=============================================================================
