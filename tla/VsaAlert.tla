------------------------------ MODULE VsaAlert ------------------------------
(***************************************************************************)
(* Raising and withdrawing the driver's alerts in the VSA module.          *)
(*                                                                         *)
(*  - t-vsa-l (vsa_base_proc) looks at every neighbour once per 100 ms,    *)
(*    keeps a debounced list of the dangerous ones (crd_list) and raises   *)
(*    or withdraws the close range alerts;                                 *)
(*  - t-vsa-r (vsa_thread_entry) raises and withdraws the alerts about     *)
(*    what the neighbours themselves report (Alarms), on messages of q-vsa;*)
(*  - the receive thread and the timer thread put those messages there,    *)
(*    from the VAM_EVT_PEER_ALARM handler;                                 *)
(*  - t-sys takes START / STOP messages from q-sys and tells the driver.   *)
(*                                                                         *)
(* t-vsa-l and t-vsa-r both change alert_pend with |= and &= .  On the ARM *)
(* target such an update is a load and a store and one of two overlapping  *)
(* updates can be lost: torn = TRUE.  torn = FALSE is the build in which   *)
(* they are atomic, which separates what the design keeps from what the    *)
(* lost updates break.  The message to t-sys is a statement after the      *)
(* update in either build, and other threads run in between.               *)
(*                                                                         *)
(* The geometry is abstracted to its verdict, a danger or Safe per peer.   *)
(* crd_list holds at most one node per peer (ccw_flag), so it is kept as   *)
(* two functions of the peer.  ccw_del_list reads ccw_id from a node it    *)
(* has just freed: the model has it unchanged, which holds as long as no   *)
(* other thread is given the block in between (free overwrites only the    *)
(* links).  VSA_ID_VOT is left out: t-vsa-r has no case for its messages.  *)
(***************************************************************************)
EXTENDS Naturals, Sequences, FiniteSets

CONSTANTS
  Peers,         \* the vehicles around
  Crd, Rear,     \* the close range dangers: VSA_ID_CRD, VSA_ID_CRD_REAR
  Alarms,        \* the alarms peers report: VSA_ID_VBD, VSA_ID_EBD
  Debounce,      \* CCW_DEBOUNCE
  VsaQueueSize,  \* VSA_QUEUE_SIZE
  SysQueueSize,  \* SYS_QUEUE_SIZE
  MaxRestarts,   \* bound of the model
  Scenarios,     \* the values of torn, followed and threats to consider, as records
  Gone, Safe, NoKind, NoPeer

Kinds == {Crd, Rear}

ASSUME KindAssumption     == /\ Crd # Rear /\ Gone # Safe
                             /\ {NoKind, Gone, Safe} \cap (Kinds \cup Alarms) = {}
                             /\ Kinds \cap Alarms = {}
ASSUME PeerAssumption     == IsFiniteSet(Peers) /\ NoPeer \notin Peers
ASSUME BoundAssumption    == /\ Debounce \in Nat \ {0} /\ MaxRestarts \in Nat
                             /\ VsaQueueSize \in Nat \ {0} /\ SysQueueSize \in Nat \ {0}
ASSUME ScenarioAssumption ==
  \A s \in Scenarios : /\ s.torn \in BOOLEAN /\ s.followed \in BOOLEAN
                       /\ DOMAIN s.threats \subseteq Peers
                       /\ \A p \in DOMAIN s.threats : s.threats[p] \subseteq Kinds

VARIABLES
  torn,          \* an update of alert_pend is a load and a store
  followed,      \* the model follows q-sys and what the driver is told
  threats,       \* the peers that may come by, and the dangers each may pose
  view,          \* what the neighbour table and the geometry say of each peer
  reported,      \* the alarms that, as the peers report them, concern the driver
  ccwId, ccwCnt, \* crd_list: kind and count of the node of each peer
  pend,          \* alert_pend
  lPc, lTodo,    \* t-vsa-l: what is left of its round, [pid, id] in order
  lOp, lReg,     \*   its update of alert_pend, stored and then told to t-sys, and
                 \*   alert_pend as loaded for it
  rPc, rOp, rReg, \* t-vsa-r
  vsaQ,          \* q-vsa
  sysQ,          \* q-sys: its alert messages
  told,          \* the alerts the driver was last told are on
  unheard,       \* history: the alerts whose last message was dropped, or was put
                 \*   in q-sys by a previous run
  restarts

setting == <<torn, followed, threats>>
crdVars == <<ccwId, ccwCnt>>
lVars   == <<lPc, lTodo, lOp, lReg>>
rVars   == <<rPc, rOp, rReg>>
sysVars == <<sysQ, told, unheard>>
vars == <<setting, view, reported, crdVars, pend, lVars, rVars, vsaQ, sysVars,
          restarts>>

Ids      == Kinds \cup Alarms
Messages == [id : Ids, on : BOOLEAN]
NoOp     == [id |-> NoKind, on |-> FALSE]
Items    == [pid : Peers, id : Kinds \cup {NoKind}] \cup [pid : {NoPeer}, id : Kinds]

(***************************************************************************)
(* The process starts                                                      *)
(***************************************************************************)

Init ==
  /\ \E s \in Scenarios : torn = s.torn /\ followed = s.followed /\ threats = s.threats
  /\ view = [p \in Peers |-> Gone] /\ reported = {}
  /\ ccwId = [p \in Peers |-> NoKind] /\ ccwCnt = [p \in Peers |-> 0]
  /\ pend = {}
  /\ lPc = "wait" /\ lTodo = <<>> /\ lOp = NoOp /\ lReg = {}
  /\ rPc = "wait" /\ rOp = NoOp /\ rReg = {}
  /\ vsaQ = <<>> /\ sysQ = <<>>
  /\ told = {} /\ unheard = {} /\ restarts = 0

\* The process ends, for whatever reason, and is started again: vsa_init clears
\* its variables, but osal_queue_create opens a POSIX queue that exists with
\* the messages it holds.
Restart ==
  /\ restarts < MaxRestarts
  /\ restarts' = restarts + 1
  /\ view' = [p \in Peers |-> Gone] /\ reported' = {}
  /\ ccwId' = [p \in Peers |-> NoKind] /\ ccwCnt' = [p \in Peers |-> 0]
  /\ pend' = {}
  /\ lPc' = "wait" /\ lTodo' = <<>> /\ lOp' = NoOp /\ lReg' = {}
  /\ rPc' = "wait" /\ rOp' = NoOp /\ rReg' = {}
  /\ told' = {} /\ unheard' = {sysQ[i].id : i \in DOMAIN sysQ}
  /\ UNCHANGED <<setting, vsaQ, sysQ>>

(***************************************************************************)
(* An update of alert_pend and the message that goes with it               *)
(***************************************************************************)

\* alert_pend |= bit, or &= ~bit, applied to these bits
Update(op, bits) == IF op.on THEN bits \cup {op.id} ELSE bits \ {op.id}

\* What the driver is told feeds nothing back
NotFollowed == ~followed /\ UNCHANGED sysVars

Queued(op) ==
  /\ followed /\ Len(sysQ) < SysQueueSize
  /\ sysQ' = Append(sysQ, op) /\ unheard' = unheard \ {op.id}
  /\ UNCHANGED told

Dropped(op) ==
  /\ followed
  /\ unheard' = unheard \cup {op.id}
  /\ UNCHANGED <<sysQ, told>>

\* Only the start of an alert is told
AddSysStart(op) == IF op.on THEN Queued(op) \/ Dropped(op) \/ NotFollowed ELSE UNCHANGED sysVars

\* sys_add_event_queue: it does not block, and nobody reads its result.  The
\* messages the queue has for other than alerts may leave it no room at any time.
AddSysEvent(op) == Queued(op) \/ Dropped(op) \/ NotFollowed

(***************************************************************************)
(* t-vsa-l                                                                 *)
(***************************************************************************)

Present == {p \in Peers : view[p] # Gone}

\* The orders in which the table may hold these peers
Orders(S) == {s \in [1..Cardinality(S) -> S] : \A i, j \in DOMAIN s : i # j => s[i] # s[j]}

Verdict(p) == [pid |-> p, id |-> IF view[p] \in Kinds THEN view[p] ELSE NoKind]

\* What vsa_preprocess_pos leaves in position_node, for the pids in order, when
\* the lookup fails for those missed: a failed lookup goes unnoticed, and finds
\* in remote_status what the lookup before left there; the first finds what is
\* on the stack, at best the status of an earlier round.
Copies(order, missed) ==
  {c \in [DOMAIN order -> [pid : Peers, id : Kinds \cup {NoKind}]] :
     \A i \in DOMAIN order :
       IF order[i] \notin missed THEN c[i] = Verdict(order[i])
       ELSE IF i > 1 THEN c[i] = c[i - 1]
       ELSE c[i].pid \in DOMAIN threats /\ c[i].id \in threats[c[i].pid] \cup {NoKind}}

\* A round starts: the pids are taken from the table, and each is looked up.  The
\* peers that leave in between are missed; their leaving is part of this step.
Preprocess ==
  /\ lPc = "wait" /\ Present # {}
  /\ \E missed \in SUBSET Present, order \in Orders(Present) :
       /\ lTodo' \in Copies(order, missed)
       /\ view' = [p \in Peers |-> IF p \in missed THEN Gone ELSE view[p]]
  /\ lPc' = "judge"
  /\ UNCHANGED <<setting, reported, crdVars, pend, lOp, lReg, rVars, vsaQ, sysVars,
                 restarts>>

\* There is no neighbour: the round is two tests of alert_pend
NoNeighbour ==
  /\ lPc = "wait" /\ Present = {}
  /\ lTodo' = <<[pid |-> NoPeer, id |-> Crd], [pid |-> NoPeer, id |-> Rear]>>
  /\ lPc' = "judge"
  /\ UNCHANGED <<setting, view, reported, crdVars, pend, lOp, lReg, rVars, vsaQ,
                 sysVars, restarts>>

\* With the item at the head dealt with, t-vsa-l updates alert_pend if it has to
Finish(change, op) ==
  /\ lPc' = IF change THEN IF torn THEN "store" ELSE "tell"
            ELSE IF Len(lTodo) = 1 THEN "wait" ELSE "judge"
  /\ lOp' = IF change THEN op ELSE lOp
  /\ lReg' = IF change /\ torn THEN pend ELSE lReg
  /\ pend' = IF change /\ ~torn THEN Update(op, pend) ELSE pend
  /\ lTodo' = Tail(lTodo)
  /\ UNCHANGED <<setting, view, reported, rVars, vsaQ, sysVars, restarts>>

\* One of the two tests: a pending alert is withdrawn, the list left as it is
ClearAlert ==
  /\ lPc = "judge" /\ Head(lTodo).pid = NoPeer
  /\ LET k == Head(lTodo).id IN Finish(k \in pend, [id |-> k, on |-> FALSE])
  /\ UNCHANGED crdVars

\* The node's count tested with > for >=
EnoughLate(p, k) == ccwId[p] = k /\ ccwCnt[p] > Debounce

\* The node's count tested, but not that it is there for this danger
EnoughOfAny(p, k) == ccwId[p] # NoKind /\ ccwCnt[p] >= Debounce

\* The danger has been there often enough to be announced
Enough(p, k) == ccwId[p] = k /\ ccwCnt[p] >= Debounce

\* A node is added to an empty list only: ccw_flag is never set
MayJoinEmpty(p) == \A q \in Peers : ccwId[q] = NoKind

\* Neither the empty list nor ccw_flag keeps the peer from getting a node
MayJoin(p) == ccwId[p] = NoKind

\* ccw_add_list: a new node, one more round of the same danger, the alert when
\* there were enough of them; nothing when the node is there for another danger
AddWarning ==
  /\ lPc = "judge" /\ Head(lTodo).pid # NoPeer /\ Head(lTodo).id # NoKind
  /\ LET p == Head(lTodo).pid
         k == Head(lTodo).id
     IN  /\ \/ /\ MayJoin(p)
               /\ ccwId' = [ccwId EXCEPT ![p] = k]
               /\ ccwCnt' = [ccwCnt EXCEPT ![p] = 1]
            \/ /\ ccwId[p] = k /\ ~Enough(p, k)
               /\ ccwCnt' = [ccwCnt EXCEPT ![p] = @ + 1]
               /\ UNCHANGED ccwId
            \/ /\ ~MayJoin(p) /\ (ccwId[p] = k => Enough(p, k))
               /\ UNCHANGED crdVars
         /\ Finish(Enough(p, k) /\ k \notin pend, [id |-> k, on |-> TRUE])

\* The count is not decremented
CountKept(n) == n

CountDown(n) == IF n > 0 THEN n - 1 ELSE n

\* vsa_search_warning, once the node of p has been removed: no other is of kind k
Orphan(k, p) == \A q \in Peers \ {p} : ccwId[q] # k

\* ccw_del_list: the count goes down to 0, then the node is removed and the alert
\* withdrawn, if it was the last of its kind
DelWarning ==
  /\ lPc = "judge" /\ Head(lTodo).pid # NoPeer /\ Head(lTodo).id = NoKind
  /\ LET p == Head(lTodo).pid
         k == ccwId[p]
         over == k # NoKind /\ ccwCnt[p] = 0
     IN  /\ ccwId' = IF over THEN [ccwId EXCEPT ![p] = NoKind] ELSE ccwId
         /\ ccwCnt' = [ccwCnt EXCEPT ![p] = CountDown(@)]
         /\ Finish(over /\ k \in pend /\ Orphan(k, p), [id |-> k, on |-> FALSE])

LStore ==
  /\ lPc = "store"
  /\ pend' = Update(lOp, lReg)
  /\ lPc' = "tell" /\ lReg' = {}
  /\ UNCHANGED <<setting, view, reported, crdVars, lTodo, lOp, rVars, vsaQ, sysVars,
                 restarts>>

\* The message that goes with the update
LTell ==
  /\ lPc = "tell"
  /\ AddSysEvent(lOp)
  /\ lPc' = IF lTodo = <<>> THEN "wait" ELSE "judge"
  /\ lOp' = NoOp
  /\ UNCHANGED <<setting, view, reported, crdVars, pend, lTodo, lReg, rVars, vsaQ,
                 restarts>>

(***************************************************************************)
(* t-vsa-r                                                                 *)
(***************************************************************************)

\* vsa_accident_recieve_proc, vsa_eebl_recieve_proc
Receive ==
  /\ rPc = "wait" /\ vsaQ # <<>>
  /\ vsaQ' = Tail(vsaQ)
  /\ rOp' = Head(vsaQ)
  /\ IF torn THEN rPc' = "store" /\ rReg' = pend /\ UNCHANGED pend
             ELSE rPc' = "tell" /\ pend' = Update(Head(vsaQ), pend) /\ UNCHANGED rReg
  /\ UNCHANGED <<setting, view, reported, crdVars, lVars, sysVars, restarts>>

RStore ==
  /\ rPc = "store"
  /\ pend' = Update(rOp, rReg)
  /\ rPc' = "tell" /\ rReg' = {}
  /\ UNCHANGED <<setting, view, reported, crdVars, lVars, rOp, vsaQ, sysVars, restarts>>

RTell ==
  /\ rPc = "tell"
  /\ AddSysEvent(rOp)
  /\ rPc' = "wait" /\ rOp' = NoOp
  /\ UNCHANGED <<setting, view, reported, crdVars, pend, lVars, rReg, vsaQ, restarts>>

(***************************************************************************)
(* The threads that call vsa_receive_alarm_update, t-sys, the other cars   *)
(***************************************************************************)

\* The branch that asks for the alert to be withdrawn is missing
HearStart(a) ==
  /\ a \in reported \ pend
  /\ Len(vsaQ) < VsaQueueSize
  /\ vsaQ' = Append(vsaQ, [id |-> a, on |-> TRUE])
  /\ UNCHANGED <<setting, view, reported, crdVars, pend, lVars, rVars, sysVars, restarts>>

\* The handler's test for one alarm: a message when the verdict is not what is
\* pending.  vsa_add_event_queue does not block, and its result is not read.
\* The verdict needs the peer's position node; when there is none yet the judge
\* dereferences a null pointer, and Restart is what follows.
Hear(a) ==
  /\ (a \in reported) # (a \in pend)
  /\ Len(vsaQ) < VsaQueueSize
  /\ vsaQ' = Append(vsaQ, [id |-> a, on |-> a \in reported])
  /\ UNCHANGED <<setting, view, reported, crdVars, pend, lVars, rVars, sysVars, restarts>>

\* sys_manage_proc
Tell ==
  /\ sysQ # <<>>
  /\ sysQ' = Tail(sysQ)
  /\ told' = Update(Head(sysQ), told)
  /\ UNCHANGED <<setting, view, reported, crdVars, pend, lVars, rVars, vsaQ, unheard,
                 restarts>>

\* A peer enters or leaves the table, or moves
PeerMoves(p) ==
  /\ view' \in {[view EXCEPT ![p] = v] : v \in (threats[p] \cup {Gone, Safe}) \ {view[p]}}
  /\ UNCHANGED <<setting, reported, crdVars, pend, lVars, rVars, vsaQ, sysVars, restarts>>

\* An alarm starts or ceases to concern the driver
PeerReports(a) ==
  /\ reported' = IF a \in reported THEN reported \ {a} ELSE reported \cup {a}
  /\ UNCHANGED <<setting, view, crdVars, pend, lVars, rVars, vsaQ, sysVars, restarts>>

LNext == Preprocess \/ NoNeighbour \/ ClearAlert \/ AddWarning \/ DelWarning \/ LStore \/ LTell
RNext == Receive \/ RStore \/ RTell

Next ==
  \/ LNext
  \/ RNext
  \/ \E a \in Alarms : Hear(a) \/ PeerReports(a)
  \/ Tell
  \/ \E p \in DOMAIN threats : PeerMoves(p)
  \/ Restart

Spec == Init /\ [][Next]_vars

\* tm-pos releases sem_vsa_proc every 100 ms, so that t-vsa-l starts one round
\* after the other; it and t-vsa-r wait for nothing else.  A peer that reports an
\* alarm sends it in every frame, and each has the handler called; that it is called
\* when nobody reports the alarm any more is not assumed.  Nothing is assumed of t-sys.
FairSpec == /\ Spec
            /\ WF_vars(LNext)
            /\ WF_vars(RNext)
            /\ \A a \in Alarms : WF_vars(a \in reported /\ Hear(a))

(***************************************************************************)
(* Properties                                                              *)
(***************************************************************************)

\* The types of the variables, the bounds of the two queues and of the counts
TypeOK ==
  /\ torn \in BOOLEAN /\ followed \in BOOLEAN /\ threats \in {s.threats : s \in Scenarios}
  /\ view \in [Peers -> Kinds \cup {Gone, Safe}] /\ reported \in SUBSET Alarms
  /\ ccwId \in [Peers -> Kinds \cup {NoKind}] /\ ccwCnt \in [Peers -> 0..Debounce]
  /\ pend \in SUBSET Ids
  /\ lPc \in {"wait", "judge", "store", "tell"} /\ lTodo \in Seq(Items)
  /\ lPc = "judge" => lTodo # <<>>
  /\ lOp \in IF lPc \in {"store", "tell"} THEN [id : Kinds, on : BOOLEAN] ELSE {NoOp}
  /\ lReg \in SUBSET Ids
  /\ rPc \in {"wait", "store", "tell"} /\ rReg \in SUBSET Ids
  /\ rOp \in IF rPc = "wait" THEN {NoOp} ELSE [id : Alarms, on : BOOLEAN]
  /\ vsaQ \in Seq([id : Alarms, on : BOOLEAN]) /\ Len(vsaQ) <= VsaQueueSize
  /\ sysQ \in Seq(Messages) /\ Len(sysQ) <= SysQueueSize
  /\ told \in SUBSET Ids /\ unheard \in SUBSET Ids
  /\ restarts \in 0..MaxRestarts

\* With atomic updates, a pending close range alert has its cause in crd_list: some
\* peer's node is of that kind.  This is what makes the alert go away again, since
\* only removing a node, or an empty table, withdraws it.
PendingHasCause ==
  ~torn => \A k \in Kinds : k \in pend => \E p \in Peers : ccwId[p] = k

\* The last word about an alert, in the messages q or else in what the driver was
\* told before, is that it is on
LastWordIsOn(id, q, before) ==
  LET about == {i \in DOMAIN q : q[i].id = id}
  IN  IF about = {} THEN id \in before
      ELSE \E i \in about : q[i].on /\ \A j \in about : j <= i

\* The messages whose update is done and which are not sent yet
InHand == {m \in {lOp, rOp} : m.id \in Ids}

\* With atomic updates, alert_pend and what the driver is told part for no more than
\* the time between update and message, alert by alert: a message in hand says what
\* alert_pend says; with none in hand, the last word in q-sys or told before it does,
\* unless that message found q-sys full or a previous run left it there, and then
\* from the next message on.
DriverFollows ==
  followed /\ ~torn => \A id \in Ids :
    \/ \E m \in InHand : m.id = id /\ (m.on <=> id \in pend)
    \/ /\ \A m \in InHand : m.id # id
       /\ id \in unheard \/ (LastWordIsOn(id, sysQ, told) <=> id \in pend)

\* Nobody keeps entering and leaving the table
TableSettles == \A p \in Peers : <>[](view[p] = Gone) \/ <>[](view[p] # Gone)

\* A danger that lasts is announced, again and again if the other thread's updates
\* undo it.  It needs a table that settles (a failed lookup judges a peer twice) and
\* a list that does not hold the peer for the other danger, which ccw_add_list
\* does not replace.
DangerAnnounced ==
  \A p \in Peers : \A k \in Kinds :
    TableSettles /\ <>[](view[p] = k /\ ccwId[p] \in {k, NoKind}) => []<>(k \in pend)

\* With atomic updates, when nobody is dangerous any more the alerts are withdrawn
\* for good, provided the list holds no peer that has left the table: those are
\* never looked at.
AlertsWithdrawn ==
  ~torn /\ TableSettles
     /\ <>[](\A p \in Peers : view[p] \in {Gone, Safe} /\ (view[p] = Gone => ccwId[p] = NoKind))
    => <>[](pend \cap Kinds = {})

\* An alarm that keeps being reported is pending, again and again: a start that found
\* q-vsa full is sent again, doubled or outdated messages and those of the previous
\* run do no lasting harm, nor do lost updates.  When it is reported no more it is
\* withdrawn as dependably only if the handler keeps being called, by the frames of a
\* peer whose safety extension does not report it (WF of Hear): the sweep calls it
\* once, and frames without the extension do not call it.
AlarmFollows ==
  \A a \in Alarms :
    /\ <>[](a \in reported) => []<>(a \in pend)
    /\ <>[](a \notin reported) /\ WF_vars(Hear(a)) => []<>(a \notin pend)
=============================================================================
