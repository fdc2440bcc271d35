--------------------------- MODULE VsaAlertProofs ---------------------------
(***************************************************************************)
(* Proofs about VsaAlert, for any peers, scenarios, debounce count, queue  *)
(* sizes and number of restarts.                                           *)
(***************************************************************************)
EXTENDS VsaAlert, FiniteSetTheorems, SequenceTheorems, TLAPS

USE KindAssumption, PeerAssumption, ScenarioAssumption, BoundAssumption

\* A step of one of the threads, of the peers, or a restart.
LEMMA Steps ==
  ASSUME [Next]_vars
  PROVE  \/ Preprocess \/ NoNeighbour \/ ClearAlert \/ AddWarning \/ DelWarning \/ LStore
         \/ LTell \/ Receive \/ RStore \/ RTell
         \/ (\E a \in Alarms : Hear(a)) \/ (\E a \in Alarms : PeerReports(a))
         \/ Tell
         \/ (\E p \in DOMAIN threats : PeerMoves(p))
         \/ Restart
         \/ UNCHANGED vars
  BY DEF Next, LNext, RNext

\* The head of a queue is one of its messages.
LEMMA HeadIn ==
  ASSUME NEW S, NEW q \in Seq(S), q # <<>>
  PROVE  Head(q) \in S
  OBVIOUS

----------------------------------------------------------------------------
\* Types

\* vsa_init leaves the module in a state of the declared types.
LEMMA InitType == Init => TypeOK
<1> SUFFICES ASSUME Init PROVE TypeOK
  OBVIOUS
<1>1. torn \in BOOLEAN /\ followed \in BOOLEAN /\ threats \in {s.threats : s \in Scenarios}
  BY DEF Init
<1>2. vsaQ \in Seq([id : Alarms, on : BOOLEAN]) /\ sysQ \in Seq(Messages) /\ lTodo \in Seq(Items)
      /\ Len(vsaQ) = 0 /\ Len(sysQ) = 0
  BY DEF Init
<1>3. view \in [Peers -> Kinds \cup {Gone, Safe}] /\ ccwId \in [Peers -> Kinds \cup {NoKind}]
  BY DEF Init
<1>4. ccwCnt \in [Peers -> 0..Debounce] /\ restarts \in 0..MaxRestarts
  BY DEF Init
<1>5. Len(vsaQ) <= VsaQueueSize /\ Len(sysQ) <= SysQueueSize
  BY <1>2
<1>6. told \in SUBSET Ids /\ unheard \in SUBSET Ids /\ reported \in SUBSET Alarms /\ pend \in SUBSET Ids
  BY DEF Init
<1>7. /\ lPc = "wait" /\ lOp = NoOp /\ lReg = {}
      /\ rPc = "wait" /\ rOp = NoOp /\ rReg = {}
  BY DEF Init
<1> QED
  BY <1>1, <1>2, <1>3, <1>4, <1>5, <1>6, <1>7 DEF TypeOK

\* alert_pend stays a set of alerts.
LEMMA UpdateType ==
  ASSUME NEW op \in Messages, NEW bits \in SUBSET Ids
  PROVE  Update(op, bits) \in SUBSET Ids
  BY DEF Messages, Update

\* The messages t-vsa-l and t-vsa-r send.
LMessages == [id : Kinds, on : BOOLEAN]
RMessages == [id : Alarms, on : BOOLEAN]

LEMMA MessageTypes == LMessages \subseteq Messages /\ RMessages \subseteq Messages
  BY DEF LMessages, RMessages, Messages, Ids

\* sys_add_event_queue keeps q-sys within its size.
LEMMA TellType ==
  ASSUME TypeOK, NEW op \in Messages, AddSysEvent(op)
  PROVE  /\ sysQ' \in Seq(Messages) /\ Len(sysQ') <= SysQueueSize
         /\ told' \in SUBSET Ids /\ unheard' \in SUBSET Ids
<1>1. CASE NotFollowed
  BY <1>1 DEF TypeOK, NotFollowed, sysVars
<1>2. CASE Queued(op)
  <2>1. Len(sysQ) < SysQueueSize /\ sysQ' = Append(sysQ, op)
    BY <1>2 DEF Queued
  <2>2. sysQ' \in Seq(Messages) /\ Len(sysQ') = Len(sysQ) + 1
    BY <2>1 DEF TypeOK
  <2>3. Len(sysQ') <= SysQueueSize
    BY <2>1, <2>2 DEF TypeOK
  <2> QED
    BY <1>2, <2>2, <2>3 DEF TypeOK, Queued
<1>3. CASE Dropped(op)
  BY <1>3 DEF TypeOK, Dropped, Messages
<1> QED
  BY <1>1, <1>2, <1>3 DEF AddSysEvent

\* The parts of TypeOK about the two threads.
LTypeOK ==
  /\ lPc \in {"wait", "judge", "store", "tell"} /\ lTodo \in Seq(Items)
  /\ lPc = "judge" => lTodo # <<>>
  /\ lOp \in IF lPc \in {"store", "tell"} THEN LMessages ELSE {NoOp}
  /\ lReg \in SUBSET Ids

RTypeOK ==
  /\ rPc \in {"wait", "store", "tell"} /\ rReg \in SUBSET Ids
  /\ rOp \in IF rPc = "wait" THEN {NoOp} ELSE RMessages

LEMMA ThreadTypes == TypeOK => LTypeOK /\ RTypeOK
  BY DEF TypeOK, LTypeOK, RTypeOK, LMessages, RMessages

\* Dealing with the item at the head of a round keeps the types, if the list does.
LEMMA FinishType ==
  ASSUME TypeOK, lPc = "judge", NEW change \in BOOLEAN, NEW op,
         change => op \in LMessages,
         Finish(change, op),
         ccwId' \in [Peers -> Kinds \cup {NoKind}] /\ ccwCnt' \in [Peers -> 0..Debounce]
  PROVE  TypeOK'
<1>1. lTodo' \in Seq(Items) /\ (Len(lTodo) # 1 => lTodo' # <<>>)
  <2>1. lTodo \in Seq(Items) /\ lTodo # <<>> /\ lTodo' = Tail(lTodo)
    BY DEF TypeOK, Finish
  <2>2. Len(lTodo) \in Nat /\ Len(lTodo) # 0
    BY <2>1
  <2>3. lTodo' \in Seq(Items) /\ Len(lTodo') = Len(lTodo) - 1
    BY <2>1, <2>2
  <2> QED
    BY <2>2, <2>3
<1>2. LTypeOK'
  <2>1. LTypeOK /\ pend \in SUBSET Ids
    BY ThreadTypes DEF TypeOK
  <2>2. CASE change
    BY <1>1, <2>1, <2>2 DEF LTypeOK, Finish
  <2>3. CASE ~change
    BY <1>1, <2>1, <2>3 DEF LTypeOK, Finish
  <2> QED
    BY <2>2, <2>3
<1>3. pend' \in SUBSET Ids
  <2>1. change => Update(op, pend) \in SUBSET Ids
    BY UpdateType, MessageTypes DEF TypeOK
  <2> QED
    BY <2>1 DEF TypeOK, Finish
<1>4. UNCHANGED <<setting, view, reported, rVars, vsaQ, sysVars, restarts>>
  BY DEF Finish
<1> QED
  BY <1>2, <1>3, <1>4 DEF TypeOK, LTypeOK, LMessages, rVars, sysVars, setting

\* The item at the head of a round: one of the two tests, or a peer's verdict.
LEMMA HeadType ==
  ASSUME TypeOK, lPc = "judge"
  PROVE  /\ Head(lTodo) \in Items
         /\ Head(lTodo).pid = NoPeer => Head(lTodo).id \in Kinds
         /\ Head(lTodo).pid # NoPeer => /\ Head(lTodo).pid \in Peers
                                        /\ Head(lTodo).id \in Kinds \cup {NoKind}
<1>1. Head(lTodo) \in Items
  BY DEF TypeOK
<1> QED
  BY <1>1 DEF Items

\* vsa_preprocess_pos leaves a verdict per peer of the table, about peers.
LEMMA RoundType ==
  ASSUME TypeOK, Preprocess
  PROVE  lTodo' \in Seq(Items) /\ lTodo' # <<>> /\ view' \in [Peers -> Kinds \cup {Gone, Safe}]
<1>1. PICK missed \in SUBSET Present, order \in Orders(Present) :
        /\ lTodo' \in Copies(order, missed)
        /\ view' = [p \in Peers |-> IF p \in missed THEN Gone ELSE view[p]]
  BY DEF Preprocess
<1>2. IsFiniteSet(Present) /\ Present # {}
  BY FS_Subset DEF Present, Preprocess
<1>3. Cardinality(Present) \in Nat /\ Cardinality(Present) # 0
  BY <1>2, FS_CardinalityType, FS_EmptySet
<1>4. DOMAIN order = 1..Cardinality(Present)
  BY DEF Orders
<1>5. lTodo' \in [1..Cardinality(Present) -> [pid : Peers, id : Kinds \cup {NoKind}]]
  BY <1>1, <1>4 DEF Copies
<1>6. lTodo' \in [1..Cardinality(Present) -> Items]
  BY <1>5 DEF Items
<1>7. lTodo' \in Seq(Items) /\ Len(lTodo') = Cardinality(Present)
  BY <1>3, <1>6
<1>8. lTodo' # <<>>
  BY <1>3, <1>7
<1>9. view' \in [Peers -> Kinds \cup {Gone, Safe}]
  BY <1>1 DEF TypeOK
<1> QED
  BY <1>7, <1>8, <1>9

\* The steps of t-vsa-l keep the types.
LEMMA LType ==
  ASSUME TypeOK, Preprocess \/ NoNeighbour \/ ClearAlert \/ AddWarning \/ DelWarning \/ LStore
                 \/ LTell
  PROVE  TypeOK'
<1>1. CASE Preprocess
  <2>1. lTodo' \in Seq(Items) /\ lTodo' # <<>> /\ view' \in [Peers -> Kinds \cup {Gone, Safe}]
    BY <1>1, RoundType
  <2>2. lPc' = "judge"
    BY <1>1 DEF Preprocess
  <2>3. UNCHANGED <<setting, reported, crdVars, pend, lOp, lReg, rVars, vsaQ, sysVars,
                    restarts>>
    BY <1>1 DEF Preprocess
  <2>4. lOp \in {NoOp} /\ lPc' \notin {"store", "tell"}
    BY <1>1, <2>2, ThreadTypes DEF Preprocess, LTypeOK
  <2> QED
    BY <2>1, <2>2, <2>3, <2>4 DEF TypeOK, setting, crdVars, rVars, sysVars
<1>2. CASE NoNeighbour
  <2>1. lTodo' = <<[pid |-> NoPeer, id |-> Crd], [pid |-> NoPeer, id |-> Rear]>> /\ lPc' = "judge"
    BY <1>2 DEF NoNeighbour
  <2>2. [pid |-> NoPeer, id |-> Crd] \in Items /\ [pid |-> NoPeer, id |-> Rear] \in Items
    BY DEF Items, Kinds
  <2>3. lTodo' \in Seq(Items) /\ lTodo' # <<>>
    BY <2>1, <2>2
  <2>4. UNCHANGED <<setting, view, reported, crdVars, pend, lOp, lReg, rVars, vsaQ,
                    sysVars, restarts>>
    BY <1>2 DEF NoNeighbour
  <2>5. lOp \in {NoOp} /\ lPc' \notin {"store", "tell"}
    BY <1>2, <2>1, ThreadTypes DEF NoNeighbour, LTypeOK
  <2> QED
    BY <2>1, <2>3, <2>4, <2>5 DEF TypeOK, setting, crdVars, rVars, sysVars
<1>3. CASE ClearAlert
  <2> DEFINE k == Head(lTodo).id
  <2>1. k \in Kinds /\ lPc = "judge"
    BY <1>3, HeadType DEF ClearAlert
  <2>2. [id |-> k, on |-> FALSE] \in LMessages
    BY <2>1 DEF LMessages
  <2>3. Finish(k \in pend, [id |-> k, on |-> FALSE]) /\ UNCHANGED crdVars
    BY <1>3 DEF ClearAlert
  <2>4. ccwId' \in [Peers -> Kinds \cup {NoKind}] /\ ccwCnt' \in [Peers -> 0..Debounce]
    BY <2>3 DEF TypeOK, crdVars
  <2>5. (k \in pend) \in BOOLEAN
    OBVIOUS
  <2> HIDE DEF k
  <2> QED
    BY <2>1, <2>2, <2>3, <2>4, <2>5, FinishType
<1>4. CASE AddWarning
  <2> DEFINE p == Head(lTodo).pid
             k == Head(lTodo).id
  <2>1. p \in Peers /\ k \in Kinds /\ lPc = "judge"
    BY <1>4, HeadType DEF AddWarning
  <2>2. [id |-> k, on |-> TRUE] \in LMessages
    BY <2>1 DEF LMessages
  <2>3. Finish(Enough(p, k) /\ k \notin pend, [id |-> k, on |-> TRUE])
    BY <1>4 DEF AddWarning
  <2>4. \/ /\ ccwId' = [ccwId EXCEPT ![p] = k]
           /\ ccwCnt' = [ccwCnt EXCEPT ![p] = 1]
        \/ /\ ccwId[p] = k /\ ~Enough(p, k)
           /\ ccwCnt' = [ccwCnt EXCEPT ![p] = @ + 1]
           /\ UNCHANGED ccwId
        \/ UNCHANGED crdVars
    BY <1>4 DEF AddWarning
  <2> HIDE DEF p, k
  <2>5. ccwId' \in [Peers -> Kinds \cup {NoKind}]
    BY <2>1, <2>4 DEF TypeOK, crdVars
  <2>6. ccwCnt' \in [Peers -> 0..Debounce]
    <3>1. ccwCnt[p] \in 0..Debounce /\ 1 \in 0..Debounce
      BY <2>1 DEF TypeOK
    <3>2. ccwId[p] = k /\ ~Enough(p, k) => ccwCnt[p] + 1 \in 0..Debounce
      BY <3>1 DEF Enough
    <3> QED
      BY <2>1, <2>4, <3>1, <3>2 DEF TypeOK, crdVars
  <2>7. (Enough(p, k) /\ k \notin pend) \in BOOLEAN
    OBVIOUS
  <2> QED
    BY <2>1, <2>2, <2>3, <2>5, <2>6, <2>7, FinishType
<1>5. CASE DelWarning
  <2> DEFINE p == Head(lTodo).pid
             k == ccwId[p]
             over == k # NoKind /\ ccwCnt[p] = 0
             change == over /\ k \in pend /\ Orphan(k, p)
  <2>1. p \in Peers /\ lPc = "judge"
    BY <1>5, HeadType DEF DelWarning
  <2>2. /\ Finish(change, [id |-> k, on |-> FALSE])
        /\ ccwId' = IF over THEN [ccwId EXCEPT ![p] = NoKind] ELSE ccwId
        /\ ccwCnt' = [ccwCnt EXCEPT ![p] = CountDown(ccwCnt[p])]
    BY <1>5 DEF DelWarning
  <2> HIDE DEF p
  <2>3. change => [id |-> k, on |-> FALSE] \in LMessages
    BY <2>1 DEF TypeOK, LMessages
  <2>4. ccwId' \in [Peers -> Kinds \cup {NoKind}]
    BY <2>1, <2>2 DEF TypeOK
  <2>5. ccwCnt[p] \in 0..Debounce
    BY <2>1 DEF TypeOK
  <2>6. CountDown(ccwCnt[p]) \in 0..Debounce
    BY <2>5 DEF CountDown
  <2>7. ccwCnt' \in [Peers -> 0..Debounce]
    BY <2>2, <2>6 DEF TypeOK
  <2>8. change \in BOOLEAN
    OBVIOUS
  <2> HIDE DEF k, over, change
  <2> QED
    BY <2>1, <2>2, <2>3, <2>4, <2>7, <2>8, FinishType
<1>6. CASE LStore
  <2>1. lOp \in LMessages /\ pend' = Update(lOp, lReg) /\ LTypeOK
    BY <1>6, ThreadTypes DEF LStore, LTypeOK
  <2>2. pend' \in SUBSET Ids
    BY <2>1, UpdateType, MessageTypes DEF LTypeOK
  <2>3. LTypeOK'
    BY <1>6, <2>1 DEF LStore, LTypeOK
  <2>4. UNCHANGED <<setting, view, reported, crdVars, rVars, vsaQ, sysVars, restarts>>
    BY <1>6 DEF LStore
  <2> QED
    BY <2>2, <2>3, <2>4 DEF TypeOK, LTypeOK, LMessages, setting, crdVars, rVars, sysVars
<1>7. CASE LTell
  <2>1. lOp \in LMessages /\ AddSysEvent(lOp) /\ LTypeOK
    BY <1>7, ThreadTypes DEF LTell, LTypeOK
  <2>2. /\ sysQ' \in Seq(Messages) /\ Len(sysQ') <= SysQueueSize
        /\ told' \in SUBSET Ids /\ unheard' \in SUBSET Ids
    BY <2>1, TellType, MessageTypes
  <2>3. LTypeOK'
    BY <1>7, <2>1 DEF LTell, LTypeOK
  <2>4. UNCHANGED <<setting, view, reported, crdVars, pend, rVars, vsaQ, restarts>>
    BY <1>7 DEF LTell
  <2> QED
    BY <2>2, <2>3, <2>4 DEF TypeOK, LTypeOK, LMessages, setting, crdVars, rVars
<1> QED
  BY <1>1, <1>2, <1>3, <1>4, <1>5, <1>6, <1>7

\* The steps of t-vsa-r keep the types.
LEMMA RType ==
  ASSUME TypeOK, Receive \/ RStore \/ RTell
  PROVE  TypeOK'
<1>0. RTypeOK
  BY ThreadTypes
<1>1. CASE Receive
  <2> DEFINE m == Head(vsaQ)
  <2>1. m \in RMessages
    <3>1. vsaQ \in Seq(RMessages) /\ vsaQ # <<>>
      BY <1>1 DEF Receive, TypeOK, RMessages
    <3> QED
      BY <3>1, HeadIn
  <2>2. vsaQ' \in Seq([id : Alarms, on : BOOLEAN]) /\ Len(vsaQ') <= VsaQueueSize
    <3>1. vsaQ \in Seq([id : Alarms, on : BOOLEAN]) /\ vsaQ # <<>> /\ vsaQ' = Tail(vsaQ)
      BY <1>1 DEF Receive, TypeOK
    <3>2. Len(vsaQ) \in Nat /\ Len(vsaQ) # 0
      BY <3>1
    <3>3. vsaQ' \in Seq([id : Alarms, on : BOOLEAN]) /\ Len(vsaQ') = Len(vsaQ) - 1
      BY <3>1, <3>2
    <3> QED
      BY <3>2, <3>3 DEF TypeOK
  <2>3. rOp' = m /\ (pend' = pend \/ pend' = Update(m, pend))
    BY <1>1 DEF Receive
  <2>4. (rPc' = "store" /\ rReg' = pend) \/ (rPc' = "tell" /\ rReg' = rReg)
    BY <1>1 DEF Receive
  <2>5. UNCHANGED <<setting, view, reported, crdVars, lVars, sysVars, restarts>>
    BY <1>1 DEF Receive
  <2> HIDE DEF m
  <2>6. pend' \in SUBSET Ids
    BY <2>1, <2>3, UpdateType, MessageTypes DEF TypeOK
  <2>7. RTypeOK'
    BY <1>0, <2>1, <2>3, <2>4 DEF RTypeOK, TypeOK
  <2> QED
    BY <2>2, <2>5, <2>6, <2>7
    DEF TypeOK, RTypeOK, RMessages, setting, crdVars, lVars, sysVars
<1>2. CASE RStore
  <2>1. rOp \in RMessages /\ pend' = Update(rOp, rReg)
    BY <1>0, <1>2 DEF RStore, RTypeOK
  <2>2. pend' \in SUBSET Ids
    BY <1>0, <2>1, UpdateType, MessageTypes DEF RTypeOK
  <2>3. RTypeOK'
    BY <1>0, <1>2, <2>1 DEF RStore, RTypeOK
  <2>4. UNCHANGED <<setting, view, reported, crdVars, lVars, vsaQ, sysVars, restarts>>
    BY <1>2 DEF RStore
  <2> QED
    BY <2>2, <2>3, <2>4 DEF TypeOK, RTypeOK, RMessages, setting, crdVars, lVars, sysVars
<1>3. CASE RTell
  <2>1. rOp \in RMessages /\ AddSysEvent(rOp)
    BY <1>0, <1>3 DEF RTell, RTypeOK
  <2>2. /\ sysQ' \in Seq(Messages) /\ Len(sysQ') <= SysQueueSize
        /\ told' \in SUBSET Ids /\ unheard' \in SUBSET Ids
    BY <2>1, TellType, MessageTypes
  <2>3. RTypeOK'
    BY <1>0, <1>3 DEF RTell, RTypeOK
  <2>4. UNCHANGED <<setting, view, reported, crdVars, pend, lVars, vsaQ, restarts>>
    BY <1>3 DEF RTell
  <2> QED
    BY <2>2, <2>3, <2>4 DEF TypeOK, RTypeOK, RMessages, setting, crdVars, lVars
<1> QED
  BY <1>1, <1>2, <1>3

\* What the other threads, the peers and a restart do keeps the types.
LEMMA OtherType ==
  ASSUME TypeOK,
         \/ \E a \in Alarms : Hear(a) \/ PeerReports(a)
         \/ Tell
         \/ \E p \in DOMAIN threats : PeerMoves(p)
         \/ Restart
  PROVE  TypeOK'
<1>1. ASSUME NEW a \in Alarms, Hear(a)
      PROVE  TypeOK'
  <2> DEFINE m == [id |-> a, on |-> a \in reported]
  <2>1. m \in [id : Alarms, on : BOOLEAN]
    OBVIOUS
  <2>2. vsaQ' = Append(vsaQ, m) /\ Len(vsaQ) < VsaQueueSize
    BY <1>1 DEF Hear
  <2> HIDE DEF m
  <2>3. vsaQ' \in Seq([id : Alarms, on : BOOLEAN]) /\ Len(vsaQ') = Len(vsaQ) + 1
    BY <2>1, <2>2 DEF TypeOK
  <2>4. Len(vsaQ') <= VsaQueueSize
    BY <2>2, <2>3 DEF TypeOK
  <2>5. UNCHANGED <<setting, view, reported, crdVars, pend, lVars, rVars, sysVars, restarts>>
    BY <1>1 DEF Hear
  <2> QED
    BY <2>3, <2>4, <2>5 DEF TypeOK, setting, crdVars, lVars, rVars, sysVars
<1>2. ASSUME NEW a \in Alarms, PeerReports(a)
      PROVE  TypeOK'
  <2>1. reported' \in SUBSET Alarms
    BY <1>2 DEF PeerReports, TypeOK
  <2>2. UNCHANGED <<setting, view, crdVars, pend, lVars, rVars, vsaQ, sysVars, restarts>>
    BY <1>2 DEF PeerReports
  <2> QED
    BY <2>1, <2>2 DEF TypeOK, setting, crdVars, lVars, rVars, sysVars
<1>3. CASE Tell
  <2>1. sysQ \in Seq(Messages) /\ sysQ # <<>> /\ sysQ' = Tail(sysQ)
    BY <1>3 DEF Tell, TypeOK
  <2>2. Len(sysQ) \in Nat /\ Len(sysQ) # 0 /\ Head(sysQ) \in Messages
    BY <2>1
  <2>3. sysQ' \in Seq(Messages) /\ Len(sysQ') = Len(sysQ) - 1
    BY <2>1, <2>2
  <2>4. Len(sysQ') <= SysQueueSize
    BY <2>2, <2>3 DEF TypeOK
  <2>5. told' \in SUBSET Ids
    BY <1>3, <2>2, UpdateType DEF Tell, TypeOK
  <2>6. UNCHANGED <<setting, view, reported, crdVars, pend, lVars, rVars, vsaQ, unheard, restarts>>
    BY <1>3 DEF Tell
  <2> QED
    BY <2>3, <2>4, <2>5, <2>6 DEF TypeOK, setting, crdVars, lVars, rVars
<1>4. ASSUME NEW p \in DOMAIN threats, PeerMoves(p)
      PROVE  TypeOK'
  <2>1. PICK v \in threats[p] \cup {Gone, Safe} : view' = [view EXCEPT ![p] = v]
    BY <1>4 DEF PeerMoves
  <2>2. v \in Kinds \cup {Gone, Safe}
    BY <2>1 DEF TypeOK
  <2>3. view' \in [Peers -> Kinds \cup {Gone, Safe}]
    BY <2>1, <2>2 DEF TypeOK
  <2>4. UNCHANGED <<setting, reported, crdVars, pend, lVars, rVars, vsaQ, sysVars, restarts>>
    BY <1>4 DEF PeerMoves
  <2> QED
    BY <2>3, <2>4 DEF TypeOK, setting, crdVars, lVars, rVars, sysVars
<1>5. CASE Restart
  <2>1. restarts' \in 0..MaxRestarts
    BY <1>5 DEF Restart, TypeOK
  <2>2. view' \in [Peers -> Kinds \cup {Gone, Safe}] /\ ccwId' \in [Peers -> Kinds \cup {NoKind}]
    BY <1>5 DEF Restart
  <2>3. ccwCnt' \in [Peers -> 0..Debounce]
    BY <1>5 DEF Restart
  <2>4. reported' \in SUBSET Alarms /\ told' \in SUBSET Ids /\ pend' \in SUBSET Ids
    BY <1>5 DEF Restart
  <2>5. sysQ' = sysQ /\ sysQ \in Seq(Messages) /\ Len(sysQ') <= SysQueueSize
    BY <1>5 DEF Restart, TypeOK
  <2>6. unheard' \in SUBSET Ids
    <3>1. \A i \in DOMAIN sysQ : sysQ[i].id \in Ids
      <4>1. \A i \in DOMAIN sysQ : sysQ[i] \in Messages
        BY <2>5
      <4> QED
        BY <4>1 DEF Messages
    <3> QED
      BY <1>5, <3>1 DEF Restart
  <2>7. /\ lPc' = "wait" /\ lTodo' = <<>> /\ lOp' = NoOp /\ lReg' = {}
        /\ rPc' = "wait" /\ rOp' = NoOp /\ rReg' = {}
        /\ UNCHANGED <<setting, vsaQ>>
    BY <1>5 DEF Restart
  <2>8. lTodo' \in Seq(Items)
    BY <2>7
  <2> QED
    BY <2>1, <2>2, <2>3, <2>4, <2>5, <2>6, <2>7, <2>8 DEF TypeOK, setting
<1> QED
  BY <1>1, <1>2, <1>3, <1>4, <1>5

\* Every variable keeps its type; q-vsa and q-sys stay within their sizes and no
\* count passes the debounce limit.
THEOREM TypeCorrect == Spec => []TypeOK
<1>1. TypeOK /\ [Next]_vars => TypeOK'
  <2> SUFFICES ASSUME TypeOK, [Next]_vars PROVE TypeOK'
    OBVIOUS
  <2>1. CASE UNCHANGED vars
    BY <2>1 DEF vars, setting, crdVars, lVars, rVars, sysVars, TypeOK
  <2> QED
    BY <2>1, Steps, LType, RType, OtherType
<1> QED
  BY <1>1, InitType, PTL DEF Spec

----------------------------------------------------------------------------
\* Atomic updates: what is pending has its cause

\* With atomic updates neither thread is ever between a load and a store.
Atomic == ~torn => lPc # "store" /\ rPc # "store"

CauseInv == TypeOK /\ Atomic /\ PendingHasCause

\* An update of the list and of alert_pend by t-vsa-l.
LEMMA FinishCause ==
  ASSUME ~torn, NEW change, NEW op, Finish(change, op)
  PROVE  /\ pend' = IF change THEN Update(op, pend) ELSE pend
         /\ lOp' = IF change THEN op ELSE lOp
         /\ lPc' # "store" /\ rPc' = rPc /\ rOp' = rOp
         /\ UNCHANGED setting /\ UNCHANGED sysVars
  BY DEF Finish, rVars

\* t-vsa-r has messages about alarms only.
LEMMA ReceiveAtomic ==
  ASSUME TypeOK, ~torn, Receive
  PROVE  /\ Head(vsaQ) \in RMessages
         /\ pend' = Update(Head(vsaQ), pend) /\ rOp' = Head(vsaQ) /\ rPc' = "tell"
<1>1. vsaQ \in Seq(RMessages) /\ vsaQ # <<>>
  BY DEF Receive, TypeOK, RMessages
<1>2. Head(vsaQ) \in RMessages
  BY <1>1, HeadIn
<1> QED
  BY <1>2 DEF Receive

\* The scenario of a behaviour is fixed.
LEMMA SettingFixed == [Next]_vars => UNCHANGED setting
  BY Steps DEF Preprocess, NoNeighbour, ClearAlert, AddWarning, DelWarning, Finish, LStore,
       LTell, Receive, RStore, RTell, Hear, PeerReports, Tell, PeerMoves, Restart, vars

\* The invariant holds at the start and is kept by every step.
LEMMA CauseInit == Init => CauseInv
  BY InitType DEF Init, CauseInv, Atomic, PendingHasCause

LEMMA CauseStep ==
  ASSUME CauseInv, TypeOK', [Next]_vars
  PROVE  CauseInv'
<1>1. SUFFICES ASSUME ~torn'
               PROVE  /\ lPc' # "store" /\ rPc' # "store"
                      /\ \A k \in Kinds : k \in pend' => \E p \in Peers : ccwId'[p] = k
  BY DEF CauseInv, Atomic, PendingHasCause
<1>2. torn' = torn
  BY SettingFixed DEF setting
<1>3. /\ ~torn /\ lPc # "store" /\ rPc # "store"
      /\ \A k \in Kinds : k \in pend => \E p \in Peers : ccwId[p] = k
  BY <1>1, <1>2 DEF CauseInv, Atomic, PendingHasCause
<1>4. ASSUME UNCHANGED <<pend, crdVars>>, lPc' # "store", rPc' # "store"
      PROVE  /\ lPc' # "store" /\ rPc' # "store"
             /\ \A k \in Kinds : k \in pend' => \E p \in Peers : ccwId'[p] = k
  BY <1>3, <1>4 DEF crdVars
<1>5. CASE Preprocess
  BY <1>3, <1>4, <1>5 DEF Preprocess, rVars
<1>6. CASE NoNeighbour
  BY <1>3, <1>4, <1>6 DEF NoNeighbour, rVars
<1>7. CASE ClearAlert
  <2> DEFINE op == [id |-> Head(lTodo).id, on |-> FALSE]
  <2>1. Finish(Head(lTodo).id \in pend, op) /\ ccwId' = ccwId
    BY <1>7 DEF ClearAlert, crdVars
  <2>2. pend' \in SUBSET pend
    BY <1>3, <2>1, FinishCause DEF Update
  <2>3. lPc' # "store" /\ rPc' = rPc
    BY <1>3, <2>1, FinishCause
  <2> QED
    BY <1>3, <2>1, <2>2, <2>3
<1>8. CASE AddWarning
  <2> DEFINE p == Head(lTodo).pid
             k == Head(lTodo).id
             op == [id |-> k, on |-> TRUE]
  <2>1. TypeOK /\ lPc = "judge"
    BY <1>8 DEF AddWarning, CauseInv
  <2>2. p \in Peers /\ k \in Kinds
    BY <1>8, <2>1, HeadType DEF AddWarning
  <2>3. Finish(Enough(p, k) /\ k \notin pend, op)
    BY <1>8 DEF AddWarning
  <2>4. \/ MayJoin(p) /\ ccwId' = [ccwId EXCEPT ![p] = k]
        \/ ccwId' = ccwId
    BY <1>8 DEF AddWarning, crdVars
  <2> HIDE DEF p, k
  <2>5. pend' \in SUBSET (IF Enough(p, k) THEN pend \cup {k} ELSE pend)
    <3>1. Update(op, pend) = pend \cup {k}
      BY DEF Update
    <3>2. pend' = IF Enough(p, k) /\ k \notin pend THEN Update(op, pend) ELSE pend
      BY <1>3, <2>3, FinishCause
    <3> QED
      BY <3>1, <3>2
  <2>6. Enough(p, k) => ccwId[p] = k
    BY DEF Enough
  <2>7. \A q \in Peers : ccwId[q] # NoKind => ccwId'[q] = ccwId[q]
    BY <2>1, <2>2, <2>4 DEF MayJoin, TypeOK
  <2>8. \A j \in Kinds : j \in pend' => \E q \in Peers : ccwId[q] = j
    BY <1>3, <2>2, <2>5, <2>6
  <2>9. \A j \in Kinds : j # NoKind
    OBVIOUS
  <2>10. \A j \in Kinds : j \in pend' => \E q \in Peers : ccwId'[q] = j
    BY <2>7, <2>8, <2>9
  <2>11. lPc' # "store" /\ rPc' = rPc
    BY <1>3, <2>3, FinishCause
  <2> QED
    BY <1>3, <2>10, <2>11
<1>9. CASE DelWarning
  <2> DEFINE p == Head(lTodo).pid
             k == ccwId[p]
             over == k # NoKind /\ ccwCnt[p] = 0
             change == over /\ k \in pend /\ Orphan(k, p)
             op == [id |-> k, on |-> FALSE]
  <2>1. TypeOK /\ lPc = "judge"
    BY <1>9 DEF DelWarning, CauseInv
  <2>2. p \in Peers
    BY <1>9, <2>1, HeadType DEF DelWarning
  <2>3. Finish(change, op) /\ ccwId' = IF over THEN [ccwId EXCEPT ![p] = NoKind] ELSE ccwId
    BY <1>9 DEF DelWarning
  <2>4. pend' = (IF change THEN pend \ {k} ELSE pend) /\ lPc' # "store" /\ rPc' = rPc
    <3>1. Update(op, pend) = pend \ {k}
      BY DEF Update
    <3> HIDE DEF op, change
    <3>2. pend' = (IF change THEN Update(op, pend) ELSE pend) /\ lPc' # "store" /\ rPc' = rPc
      BY <1>3, <2>3, FinishCause
    <3> QED
      BY <3>1, <3>2
  <2>5. \A q \in Peers \ {p} : ccwId'[q] = ccwId[q]
    BY <2>1, <2>3 DEF TypeOK
  <2>6. ~over => ccwId' = ccwId
    BY <2>3
  <2>7. ASSUME NEW j \in Kinds, j \in pend', over
        PROVE  \E q \in Peers \ {p} : ccwId[q] = j
    <3>1. CASE change
      <4>1. j \in pend /\ j # k
        BY <2>4, <2>7, <3>1
      <4> QED
        BY <1>3, <4>1
    <3>2. CASE ~change
      <4>1. j \in pend /\ (k \in pend => ~Orphan(k, p))
        BY <2>4, <2>7, <3>2
      <4> QED
        BY <1>3, <4>1 DEF Orphan
    <3> QED
      BY <3>1, <3>2
  <2> HIDE DEF p, k, over, change
  <2>8. \A j \in Kinds : j \in pend' => \E q \in Peers : ccwId'[q] = j
    <3> SUFFICES ASSUME NEW j \in Kinds, j \in pend' PROVE \E q \in Peers : ccwId'[q] = j
      OBVIOUS
    <3>1. CASE over
      BY <2>5, <2>7, <3>1
    <3>2. CASE ~over
      BY <1>3, <2>4, <2>6, <3>2
    <3> QED
      BY <3>1, <3>2
  <2> QED
    BY <1>3, <2>4, <2>8
<1>10. CASE LStore \/ RStore
  BY <1>3, <1>10 DEF LStore, RStore
<1>11. CASE Receive
  <2>1. Head(vsaQ).id \in Alarms /\ pend' = Update(Head(vsaQ), pend) /\ rPc' = "tell"
    BY <1>3, <1>11, ReceiveAtomic DEF CauseInv, RMessages
  <2>2. \A k \in Kinds : k \in pend' => k \in pend
    BY <2>1 DEF Update
  <2>3. ccwId' = ccwId /\ lPc' = lPc
    BY <1>11 DEF Receive, crdVars, lVars
  <2> QED
    BY <1>3, <2>1, <2>2, <2>3
<1>12. CASE \E a \in Alarms : Hear(a)
  BY <1>3, <1>4, <1>12 DEF Hear, lVars, rVars
<1>13. CASE \E a \in Alarms : PeerReports(a)
  BY <1>3, <1>4, <1>13 DEF PeerReports, lVars, rVars
<1>14. CASE Tell
  BY <1>3, <1>4, <1>14 DEF Tell, lVars, rVars
<1>15. CASE \E p \in DOMAIN threats : PeerMoves(p)
  BY <1>3, <1>4, <1>15 DEF PeerMoves, lVars, rVars
<1>16. CASE Restart
  BY <1>16 DEF Restart
<1>17. CASE UNCHANGED vars
  BY <1>3, <1>4, <1>17 DEF vars, lVars, rVars
<1>18. CASE LTell \/ RTell
  BY <1>3, <1>4, <1>18 DEF LTell, RTell, lVars, rVars
<1> QED
  BY <1>5, <1>6, <1>7, <1>8, <1>9, <1>10, <1>11, <1>12, <1>13, <1>14, <1>15, <1>16, <1>17,
     <1>18, Steps

\* With atomic updates, a pending close range alert always has a peer's node of its
\* kind in crd_list: ccw_add_list raises it with one there, and ccw_del_list does not
\* take the last one out without withdrawing it.
THEOREM CauseCorrect == Spec => []PendingHasCause
<1>1. Spec => []CauseInv
  <2>1. CauseInv /\ TypeOK' /\ [Next]_vars => CauseInv'
    BY CauseStep
  <2> QED
    BY <2>1, CauseInit, TypeCorrect, PTL DEF Spec
<1>2. CauseInv => PendingHasCause
  BY DEF CauseInv
<1> QED
  BY <1>1, <1>2, PTL

----------------------------------------------------------------------------
\* What the driver is told

\* A message put at the end of a queue is the last word about its alert, and about
\* no other.
LEMMA LastWordAppend ==
  ASSUME NEW q \in Seq(Messages), NEW m \in Messages, NEW before, NEW id
  PROVE  LastWordIsOn(id, Append(q, m), before)
           <=> IF m.id = id THEN m.on = TRUE ELSE LastWordIsOn(id, q, before)
<1> DEFINE r == Append(q, m)
           n == Len(q)
           old == {i \in DOMAIN q : q[i].id = id}
           new == {i \in DOMAIN r : r[i].id = id}
<1>1. n \in Nat /\ DOMAIN q = 1..n /\ DOMAIN r = 1..(n + 1)
  OBVIOUS
<1>2. r[n + 1] = m /\ \A i \in 1..n : r[i] = q[i]
  OBVIOUS
<1> HIDE DEF r, n
<1>3. CASE m.id = id
  <2>1. n + 1 \in new /\ \A j \in new : j <= n + 1
    BY <1>1, <1>2, <1>3
  <2>2. (\E i \in new : r[i].on /\ \A j \in new : j <= i) <=> r[n + 1].on
    <3>1. \A i \in new : (\A j \in new : j <= i) => i = n + 1
      BY <1>1, <2>1
    <3> QED
      BY <2>1, <3>1
  <2>3. LastWordIsOn(id, r, before) <=> r[n + 1].on
    BY <2>1, <2>2 DEF LastWordIsOn
  <2>4. m.on \in BOOLEAN
    BY DEF Messages
  <2> QED
    BY <1>2, <1>3, <2>3, <2>4 DEF r
<1>4. CASE m.id # id
  <2>1. new = old /\ old \subseteq 1..n
    BY <1>1, <1>2, <1>4
  <2>2. \A i \in old : r[i] = q[i]
    BY <1>1, <1>2
  <2>3. LastWordIsOn(id, r, before) <=> LastWordIsOn(id, q, before)
    BY <2>1, <2>2 DEF LastWordIsOn
  <2> QED
    BY <1>4, <2>3 DEF r
<1> QED
  BY <1>3, <1>4

\* Telling the driver the first message leaves the last word what it is.
LEMMA LastWordTail ==
  ASSUME NEW q \in Seq(Messages), q # <<>>, NEW before, NEW id
  PROVE  LastWordIsOn(id, Tail(q), Update(Head(q), before)) <=> LastWordIsOn(id, q, before)
<1> DEFINE r == Tail(q)
           n == Len(q)
           old == {i \in DOMAIN q : q[i].id = id}
           new == {i \in DOMAIN r : r[i].id = id}
<1>1. n \in Nat \ {0} /\ DOMAIN q = 1..n /\ DOMAIN r = 1..(n - 1) /\ Head(q) = q[1]
  OBVIOUS
<1>2. \A i \in 1..(n - 1) : r[i] = q[i + 1]
  OBVIOUS
<1> HIDE DEF r, n
<1>3. \A i \in 1..(n - 1) : i \in new <=> i + 1 \in old
  BY <1>1, <1>2
<1>4. \A i \in old : i = 1 \/ (i - 1 \in new /\ i - 1 \in 1..(n - 1))
  BY <1>1, <1>3
<1>5. CASE new = {}
  <2>1. LastWordIsOn(id, r, Update(Head(q), before)) <=> id \in Update(Head(q), before)
    BY <1>5 DEF LastWordIsOn
  <2>2. CASE q[1].id = id
    <3>1. old = {1}
      BY <1>1, <1>4, <1>5, <2>2
    <3>2. LastWordIsOn(id, q, before) <=> q[1].on
      BY <3>1 DEF LastWordIsOn
    <3>3. id \in Update(q[1], before) <=> q[1].on
      BY <2>2 DEF Update
    <3> QED
      BY <1>1, <2>1, <3>2, <3>3 DEF r
  <2>3. CASE q[1].id # id
    <3>1. old = {}
      BY <1>1, <1>4, <1>5, <2>3
    <3>2. LastWordIsOn(id, q, before) <=> id \in before
      BY <3>1 DEF LastWordIsOn
    <3>3. id \in Update(q[1], before) <=> id \in before
      BY <2>3 DEF Update
    <3> QED
      BY <1>1, <2>1, <3>2, <3>3 DEF r
  <2> QED
    BY <2>2, <2>3
<1>6. CASE new # {}
  <2>1. PICK x \in new : x \in 1..(n - 1)
    BY <1>1, <1>6
  <2>2. x + 1 \in old
    BY <1>3, <2>1
  <2>3. ASSUME NEW i \in new, r[i].on, \A j \in new : j <= i
        PROVE  \E k \in old : q[k].on /\ \A j \in old : j <= k
    <3>1. i \in 1..(n - 1) /\ i + 1 \in old /\ q[i + 1].on
      BY <1>1, <1>2, <1>3, <2>3
    <3>2. \A j \in old : j <= i + 1
      BY <1>1, <1>4, <2>3, <3>1
    <3> QED
      BY <3>1, <3>2
  <2>4. ASSUME NEW k \in old, q[k].on, \A j \in old : j <= k
        PROVE  \E i \in new : r[i].on /\ \A j \in new : j <= i
    <3>1. k \in 1..n /\ x + 1 <= k
      BY <1>1, <2>2, <2>4
    <3>2. k - 1 \in new /\ k - 1 \in 1..(n - 1)
      BY <1>1, <1>4, <2>1, <3>1
    <3>3. r[k - 1] = q[k]
      BY <1>1, <1>2, <3>1, <3>2
    <3>4. \A j \in new : j \in 1..(n - 1) /\ j + 1 \in old
      BY <1>1, <1>3
    <3>5. \A j \in new : j <= k - 1
      BY <1>1, <2>4, <3>1, <3>4
    <3> QED
      BY <2>4, <3>2, <3>3, <3>5
  <2>5. (\E i \in new : r[i].on /\ \A j \in new : j <= i)
          <=> (\E k \in old : q[k].on /\ \A j \in old : j <= k)
    BY <2>3, <2>4
  <2> QED
    BY <1>6, <2>2, <2>5 DEF LastWordIsOn, r
<1> QED
  BY <1>5, <1>6

\* What DriverFollows says of one alert, given the message in hand of the thread that
\* raises and withdraws it.
Says(op, id) ==
  IF op.id = id THEN op.on = TRUE <=> id \in pend
                ELSE id \in unheard \/ (LastWordIsOn(id, sysQ, told) <=> id \in pend)

\* t-vsa-l deals with the close range alerts and t-vsa-r with the others, so that only
\* one thread has a message about an alert in hand.
OwnersSay == /\ \A id \in Kinds : Says(lOp, id)
             /\ \A id \in Alarms : Says(rOp, id)

\* The message a thread has in hand is about an alert of its own, or there is none.
LEMMA Hands ==
  ASSUME TypeOK
  PROVE  /\ lOp = NoOp \/ lOp \in LMessages
         /\ rOp = NoOp \/ rOp \in RMessages
         /\ \A m \in InHand : m.on \in BOOLEAN
         /\ \A id \in Kinds : rOp.id # id /\ (lOp.id = id <=> \E m \in InHand : m.id = id)
         /\ \A id \in Alarms : lOp.id # id /\ (rOp.id = id <=> \E m \in InHand : m.id = id)
<1>1. (lOp = NoOp \/ lOp \in LMessages) /\ (rOp = NoOp \/ rOp \in RMessages)
  BY ThreadTypes DEF LTypeOK, RTypeOK
<1>2. lOp.id \in Kinds \cup {NoKind} /\ lOp.on \in BOOLEAN
  <2>1. CASE lOp = NoOp
    BY <2>1 DEF NoOp
  <2>2. CASE lOp \in LMessages
    BY <2>2 DEF LMessages
  <2> QED
    BY <1>1, <2>1, <2>2
<1>3. rOp.id \in Alarms \cup {NoKind} /\ rOp.on \in BOOLEAN
  <2>1. CASE rOp = NoOp
    BY <2>1 DEF NoOp
  <2>2. CASE rOp \in RMessages
    BY <2>2 DEF RMessages
  <2> QED
    BY <1>1, <2>1, <2>2
<1>4. InHand = {m \in {lOp, rOp} : m.id \in Kinds \cup Alarms}
  BY DEF InHand, Ids
<1>5. \A m \in InHand : m.on \in BOOLEAN
  BY <1>2, <1>3, <1>4
<1>6. \A id \in Kinds : rOp.id # id /\ (lOp.id = id <=> \E m \in InHand : m.id = id)
  BY <1>3, <1>4
<1>7. \A id \in Alarms : lOp.id # id /\ (rOp.id = id <=> \E m \in InHand : m.id = id)
  BY <1>2, <1>4
<1> QED
  BY <1>1, <1>5, <1>6, <1>7

LEMMA FollowsIsSaying ==
  ASSUME TypeOK, followed, ~torn
  PROVE  DriverFollows <=> OwnersSay
<1>1. ASSUME NEW id \in Kinds
      PROVE  Says(lOp, id) <=> \/ \E m \in InHand : m.id = id /\ (m.on <=> id \in pend)
                               \/ /\ \A m \in InHand : m.id # id
                                  /\ id \in unheard \/ (LastWordIsOn(id, sysQ, told) <=> id \in pend)
  <2>1. \A m \in InHand : m.id = id => m = lOp
    BY <1>1, Hands DEF InHand
  <2>2. lOp.id = id => lOp \in InHand
    BY <1>1 DEF InHand, Ids
  <2>3. lOp.id = id => lOp.on \in BOOLEAN
    BY <2>2, Hands
  <2> QED
    BY <2>1, <2>2, <2>3 DEF Says
<1>2. ASSUME NEW id \in Alarms
      PROVE  Says(rOp, id) <=> \/ \E m \in InHand : m.id = id /\ (m.on <=> id \in pend)
                               \/ /\ \A m \in InHand : m.id # id
                                  /\ id \in unheard \/ (LastWordIsOn(id, sysQ, told) <=> id \in pend)
  <2>1. \A m \in InHand : m.id = id => m = rOp
    BY <1>2, Hands DEF InHand
  <2>2. rOp.id = id => rOp \in InHand
    BY <1>2 DEF InHand, Ids
  <2>3. rOp.id = id => rOp.on \in BOOLEAN
    BY <2>2, Hands
  <2> QED
    BY <2>1, <2>2, <2>3 DEF Says
<1> QED
  BY <1>1, <1>2 DEF DriverFollows, OwnersSay, Ids

\* A thread with no message in hand changes its own bit and takes the message in hand.
LEMMA UpdateSays ==
  ASSUME NEW old, NEW op \in Messages, NEW id, old.id # id,
         Says(old, id), pend' = Update(op, pend), UNCHANGED sysVars
  PROVE  IF op.id = id THEN op.on = TRUE <=> id \in pend'
         ELSE id \in unheard' \/ (LastWordIsOn(id, sysQ', told') <=> id \in pend')
<1>1. op.on \in BOOLEAN
  BY DEF Messages
<1>2. op.id = id => (op.on = TRUE <=> id \in pend')
  BY <1>1 DEF Update
<1>3. op.id # id => (id \in pend' <=> id \in pend)
  BY DEF Update
<1>4. UNCHANGED <<sysQ, told, unheard>>
  BY DEF sysVars
<1>5. id \in unheard \/ (LastWordIsOn(id, sysQ, told) <=> id \in pend)
  BY DEF Says
<1> HIDE DEF LastWordIsOn
<1> QED
  BY <1>2, <1>3, <1>4, <1>5

\* The other thread's alerts are left alone by an update.
LEMMA UpdateKeeps ==
  ASSUME NEW op \in Messages, NEW own, NEW id, op.id # id,
         Says(own, id), pend' = Update(op, pend), UNCHANGED sysVars
  PROVE  IF own.id = id THEN own.on = TRUE <=> id \in pend'
         ELSE id \in unheard' \/ (LastWordIsOn(id, sysQ', told') <=> id \in pend')
<1>1. id \in pend' <=> id \in pend
  BY DEF Update
<1>2. UNCHANGED <<sysQ, told, unheard>>
  BY DEF sysVars
<1> HIDE DEF LastWordIsOn
<1> QED
  BY <1>1, <1>2 DEF Says

\* Sending the message in hand, or losing it, settles its alert.
LEMMA SendSettles ==
  ASSUME TypeOK, followed, NEW op \in Messages, AddSysEvent(op), pend' = pend,
         Says(op, op.id)
  PROVE  op.id \in unheard' \/ (LastWordIsOn(op.id, sysQ', told') <=> op.id \in pend')
<1>1. CASE Queued(op)
  <2>1. sysQ' = Append(sysQ, op) /\ told' = told /\ sysQ \in Seq(Messages)
    BY <1>1 DEF Queued, TypeOK
  <2>2. LastWordIsOn(op.id, sysQ', told') <=> op.on = TRUE
    BY <2>1, LastWordAppend
  <2> QED
    BY <2>2 DEF Says
<1>2. CASE Dropped(op)
  BY <1>2 DEF Dropped
<1> QED
  BY <1>1, <1>2 DEF AddSysEvent, NotFollowed

\* It leaves the other alerts as they are.
LEMMA SendKeeps ==
  ASSUME TypeOK, followed, NEW op \in Messages, AddSysEvent(op), pend' = pend,
         NEW own, NEW id, op.id # id, Says(own, id)
  PROVE  IF own.id = id THEN own.on = TRUE <=> id \in pend'
         ELSE id \in unheard' \/ (LastWordIsOn(id, sysQ', told') <=> id \in pend')
<1>1. CASE own.id = id
  BY <1>1 DEF Says
<1>2. CASE own.id # id
  <2>1. id \in unheard \/ (LastWordIsOn(id, sysQ, told) <=> id \in pend)
    BY <1>2 DEF Says
  <2>2. CASE Queued(op)
    <3>1. sysQ' = Append(sysQ, op) /\ told' = told /\ sysQ \in Seq(Messages)
      BY <2>2 DEF Queued, TypeOK
    <3>2. LastWordIsOn(id, sysQ', told') <=> LastWordIsOn(id, sysQ, told)
      BY <3>1, LastWordAppend
    <3>3. id \in unheard => id \in unheard'
      BY <2>2 DEF Queued
    <3> QED
      BY <1>2, <2>1, <3>2, <3>3
  <2>3. CASE Dropped(op)
    <3>1. UNCHANGED <<sysQ, told>> /\ (id \in unheard => id \in unheard')
      BY <2>3 DEF Dropped
    <3> HIDE DEF LastWordIsOn
    <3> QED
      BY <1>2, <2>1, <3>1
  <2> QED
    BY <2>2, <2>3 DEF AddSysEvent, NotFollowed
<1> QED
  BY <1>1, <1>2

\* The three kinds of item of a round.
LEMMA FinishSays ==
  ASSUME TypeOK, OwnersSay, ~torn, lPc = "judge", NEW change, NEW op, change => op \in LMessages,
         Finish(change, op)
  PROVE  OwnersSay'
<1>1. lOp = NoOp
  BY ThreadTypes DEF LTypeOK
<1>2. rOp' = rOp /\ UNCHANGED sysVars
  BY FinishCause
<1>3. CASE change
  <2>1. op \in LMessages /\ op \in Messages /\ pend' = Update(op, pend) /\ lOp' = op
    BY <1>3, FinishCause, MessageTypes
  <2>2. \A id \in Kinds : lOp.id # id
    BY <1>1 DEF NoOp
  <2>3. \A id \in Alarms : op.id # id
    BY <2>1 DEF LMessages
  <2>4. ASSUME NEW id \in Kinds
        PROVE  IF op.id = id THEN op.on = TRUE <=> id \in pend'
               ELSE id \in unheard' \/ (LastWordIsOn(id, sysQ', told') <=> id \in pend')
    <3>1. Says(lOp, id) /\ lOp.id # id
      BY <2>2 DEF OwnersSay
    <3> QED
      BY <1>2, <2>1, <3>1, UpdateSays
  <2>5. ASSUME NEW id \in Alarms
        PROVE  IF rOp.id = id THEN rOp.on = TRUE <=> id \in pend'
               ELSE id \in unheard' \/ (LastWordIsOn(id, sysQ', told') <=> id \in pend')
    <3>1. Says(rOp, id) /\ op.id # id
      BY <2>3 DEF OwnersSay
    <3> QED
      BY <1>2, <2>1, <3>1, UpdateKeeps
  <2> QED
    BY <1>2, <2>1, <2>4, <2>5 DEF OwnersSay, Says
<1>4. CASE ~change
  <2>1. lOp' = lOp /\ pend' = pend
    BY <1>4, FinishCause
  <2> QED
    BY <1>2, <2>1 DEF OwnersSay, Says, sysVars
<1> QED
  BY <1>3, <1>4

\* A thread sends the message it has in hand.
LEMMA TellSays ==
  ASSUME TypeOK, OwnersSay, followed, LTell \/ RTell
  PROVE  OwnersSay'
<1>1. CASE LTell
  <2>1. lOp \in LMessages
    BY <1>1, ThreadTypes DEF LTypeOK, LTell
  <2>2. /\ lOp \in Messages /\ AddSysEvent(lOp) /\ pend' = pend
        /\ lOp' = NoOp /\ rOp' = rOp
    BY <1>1, <2>1, MessageTypes DEF LTell, rVars
  <2>3. lOp.id \in Kinds
    BY <2>1 DEF LMessages
  <2>4. ASSUME NEW id \in Kinds
        PROVE  id \in unheard' \/ (LastWordIsOn(id, sysQ', told') <=> id \in pend')
    <3>1. Says(lOp, id)
      BY DEF OwnersSay
    <3>2. CASE lOp.id = id
      BY <2>2, <3>1, <3>2, SendSettles
    <3>3. CASE lOp.id # id
      BY <2>2, <3>1, <3>3, SendKeeps
    <3> QED
      BY <3>2, <3>3
  <2>5. ASSUME NEW id \in Alarms
        PROVE  IF rOp.id = id THEN rOp.on = TRUE <=> id \in pend'
               ELSE id \in unheard' \/ (LastWordIsOn(id, sysQ', told') <=> id \in pend')
    <3>1. Says(rOp, id) /\ lOp.id # id
      BY <2>3 DEF OwnersSay
    <3> QED
      BY <2>2, <3>1, SendKeeps
  <2>6. \A id \in Kinds : NoOp.id # id
    BY DEF NoOp
  <2> QED
    BY <2>2, <2>4, <2>5, <2>6 DEF OwnersSay, Says
<1>2. CASE RTell
  <2>1. rOp \in RMessages
    BY <1>2, ThreadTypes DEF RTypeOK, RTell
  <2>2. /\ rOp \in Messages /\ AddSysEvent(rOp) /\ pend' = pend
        /\ rOp' = NoOp /\ lOp' = lOp
    BY <1>2, <2>1, MessageTypes DEF RTell, lVars
  <2>3. rOp.id \in Alarms
    BY <2>1 DEF RMessages
  <2>4. ASSUME NEW id \in Alarms
        PROVE  id \in unheard' \/ (LastWordIsOn(id, sysQ', told') <=> id \in pend')
    <3>1. Says(rOp, id)
      BY DEF OwnersSay
    <3>2. CASE rOp.id = id
      BY <2>2, <3>1, <3>2, SendSettles
    <3>3. CASE rOp.id # id
      BY <2>2, <3>1, <3>3, SendKeeps
    <3> QED
      BY <3>2, <3>3
  <2>5. ASSUME NEW id \in Kinds
        PROVE  IF lOp.id = id THEN lOp.on = TRUE <=> id \in pend'
               ELSE id \in unheard' \/ (LastWordIsOn(id, sysQ', told') <=> id \in pend')
    <3>1. Says(lOp, id) /\ rOp.id # id
      BY <2>3 DEF OwnersSay
    <3> QED
      BY <2>2, <3>1, SendKeeps
  <2>6. \A id \in Alarms : NoOp.id # id
    BY DEF NoOp
  <2> QED
    BY <2>2, <2>4, <2>5, <2>6 DEF OwnersSay, Says
<1> QED
  BY <1>1, <1>2

\* t-vsa-r takes a message off q-vsa and updates alert_pend.
LEMMA ReceiveSays ==
  ASSUME TypeOK, OwnersSay, ~torn, Receive
  PROVE  OwnersSay'
<1> DEFINE op == Head(vsaQ)
<1>1. op \in RMessages /\ op \in Messages /\ pend' = Update(op, pend) /\ rOp' = op
  BY ReceiveAtomic, MessageTypes
<1>2. lOp' = lOp /\ UNCHANGED sysVars
  BY DEF Receive, lVars
<1>3. rOp = NoOp
  BY ThreadTypes DEF RTypeOK, Receive
<1> HIDE DEF op
<1>4. \A id \in Alarms : rOp.id # id
  BY <1>3 DEF NoOp
<1>5. \A id \in Kinds : op.id # id
  BY <1>1 DEF RMessages
<1>6. ASSUME NEW id \in Alarms
      PROVE  IF op.id = id THEN op.on = TRUE <=> id \in pend'
             ELSE id \in unheard' \/ (LastWordIsOn(id, sysQ', told') <=> id \in pend')
  <2>1. Says(rOp, id) /\ rOp.id # id
    BY <1>4 DEF OwnersSay
  <2> QED
    BY <1>1, <1>2, <2>1, UpdateSays
<1>7. ASSUME NEW id \in Kinds
      PROVE  IF lOp.id = id THEN lOp.on = TRUE <=> id \in pend'
             ELSE id \in unheard' \/ (LastWordIsOn(id, sysQ', told') <=> id \in pend')
  <2>1. Says(lOp, id) /\ op.id # id
    BY <1>5 DEF OwnersSay
  <2> QED
    BY <1>1, <1>2, <2>1, UpdateKeeps
<1> QED
  BY <1>1, <1>2, <1>6, <1>7 DEF OwnersSay, Says

\* Nothing is pending, in hand or told at the start.
LEMMA FollowsInit == Init => DriverFollows
<1> SUFFICES ASSUME Init PROVE DriverFollows
  OBVIOUS
<1>1. InHand = {}
  BY DEF Init, InHand, NoOp, Ids
<1> QED
  BY <1>1 DEF Init, DriverFollows, LastWordIsOn

LEMMA FollowsStep ==
  ASSUME CauseInv, TypeOK', DriverFollows, [Next]_vars
  PROVE  DriverFollows'
<1>1. SUFFICES ASSUME ~torn', followed'
               PROVE  DriverFollows'
  BY DEF DriverFollows
<1>2. ~torn /\ followed
  <2>1. torn' = torn /\ followed' = followed
    BY SettingFixed DEF setting
  <2> QED
    BY <1>1, <2>1
<1>3. lPc # "store" /\ rPc # "store" /\ TypeOK
  BY <1>2 DEF CauseInv, Atomic
<1>4. OwnersSay
  BY <1>2, <1>3, FollowsIsSaying
<1>5. SUFFICES OwnersSay'
  <2>1. (TypeOK /\ followed /\ ~torn => (DriverFollows <=> OwnersSay))'
    BY FollowsIsSaying, PTL
  <2> QED
    BY <1>1, <2>1
<1>6. ASSUME UNCHANGED <<pend, lOp, rOp, sysVars>> PROVE OwnersSay'
  BY <1>4, <1>6 DEF OwnersSay, Says, sysVars
<1>7. CASE Preprocess \/ NoNeighbour
  BY <1>6, <1>7 DEF Preprocess, NoNeighbour, rVars
<1>8. CASE ClearAlert
  <2> DEFINE op == [id |-> Head(lTodo).id, on |-> FALSE]
  <2>1. lPc = "judge" /\ op \in LMessages
    BY <1>3, <1>8, HeadType DEF ClearAlert, LMessages
  <2>2. Finish(Head(lTodo).id \in pend, op)
    BY <1>8 DEF ClearAlert
  <2> HIDE DEF op
  <2> QED
    BY <1>2, <1>3, <1>4, <2>1, <2>2, FinishSays
<1>9. CASE AddWarning
  <2> DEFINE op == [id |-> Head(lTodo).id, on |-> TRUE]
             change == Enough(Head(lTodo).pid, Head(lTodo).id) /\ Head(lTodo).id \notin pend
  <2>1. lPc = "judge" /\ op \in LMessages
    BY <1>3, <1>9, HeadType DEF AddWarning, LMessages
  <2>2. Finish(change, op)
    BY <1>9 DEF AddWarning
  <2> HIDE DEF op, change
  <2> QED
    BY <1>2, <1>3, <1>4, <2>1, <2>2, FinishSays
<1>10. CASE DelWarning
  <2> DEFINE p == Head(lTodo).pid
             k == ccwId[p]
             change == (k # NoKind /\ ccwCnt[p] = 0) /\ k \in pend /\ Orphan(k, p)
             op == [id |-> k, on |-> FALSE]
  <2>1. lPc = "judge" /\ p \in Peers
    BY <1>3, <1>10, HeadType DEF DelWarning
  <2>2. Finish(change, op)
    BY <1>10 DEF DelWarning
  <2> HIDE DEF p
  <2>3. change => op \in LMessages
    BY <1>3, <2>1 DEF TypeOK, LMessages
  <2> HIDE DEF change, op
  <2> QED
    BY <1>2, <1>3, <1>4, <2>1, <2>2, <2>3, FinishSays
<1>11. CASE LStore \/ RStore
  BY <1>3, <1>11 DEF LStore, RStore
<1>12. CASE LTell \/ RTell
  BY <1>2, <1>3, <1>4, <1>12, TellSays
<1>13. CASE Receive
  BY <1>2, <1>3, <1>4, <1>13, ReceiveSays
<1>14. CASE (\E a \in Alarms : Hear(a)) \/ (\E a \in Alarms : PeerReports(a))
  BY <1>6, <1>14 DEF Hear, PeerReports, lVars, rVars
<1>15. CASE \E p \in DOMAIN threats : PeerMoves(p)
  BY <1>6, <1>15 DEF PeerMoves, lVars, rVars
<1>16. CASE Tell
  <2>1. sysQ \in Seq(Messages) /\ sysQ # <<>>
    BY <1>3, <1>16 DEF Tell, TypeOK
  <2>2. /\ sysQ' = Tail(sysQ) /\ told' = Update(Head(sysQ), told)
        /\ UNCHANGED <<pend, unheard, lOp, rOp>>
    BY <1>16 DEF Tell, lVars, rVars
  <2>3. \A id : LastWordIsOn(id, sysQ', told') <=> LastWordIsOn(id, sysQ, told)
    BY <2>1, <2>2, LastWordTail
  <2> QED
    BY <1>4, <2>2, <2>3 DEF OwnersSay, Says
<1>17. CASE Restart
  <2>1. /\ pend' = {} /\ told' = {} /\ lOp' = NoOp /\ rOp' = NoOp
        /\ sysQ' = sysQ /\ unheard' = {sysQ[i].id : i \in DOMAIN sysQ}
    BY <1>17 DEF Restart
  <2>2. ASSUME NEW id \in Kinds \cup Alarms
        PROVE  NoOp.id # id /\ (id \in unheard' \/ ~LastWordIsOn(id, sysQ', told'))
    <3>1. NoOp.id # id
      BY DEF NoOp
    <3>2. id \notin unheard' => {i \in DOMAIN sysQ : sysQ[i].id = id} = {}
      BY <2>1
    <3> QED
      BY <2>1, <3>1, <3>2 DEF LastWordIsOn
  <2> QED
    BY <2>1, <2>2 DEF OwnersSay, Says
<1>18. CASE UNCHANGED vars
  BY <1>6, <1>18 DEF vars, lVars, rVars
<1> QED
  BY <1>7, <1>8, <1>9, <1>10, <1>11, <1>12, <1>13, <1>14, <1>15, <1>16, <1>17, <1>18, Steps

\* With atomic updates, a message a thread has in hand says what alert_pend says, and
\* with none in hand the last word to the driver does, except for the alerts whose last
\* message found q-sys full or was left there by a previous run.
THEOREM DriverInformed == Spec => []DriverFollows
<1>1. Spec => []CauseInv
  <2>1. CauseInv /\ TypeOK' /\ [Next]_vars => CauseInv'
    BY CauseStep
  <2> QED
    BY <2>1, CauseInit, TypeCorrect, PTL DEF Spec
<1>2. CauseInv /\ TypeOK' /\ DriverFollows /\ [Next]_vars => DriverFollows'
  BY FollowsStep
<1> QED
  BY <1>1, <1>2, TypeCorrect, FollowsInit, PTL DEF Spec

=============================================================================
