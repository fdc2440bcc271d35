------------------------- MODULE VamBroadcastProofs -------------------------
(***************************************************************************)
(* Proofs about VamBroadcast, for every queue size and for atomic and torn *)
(* updates of p_vam->flag.                                                 *)
(***************************************************************************)
EXTENDS VamBroadcast, SequenceTheorems, TLAPS

\* A step of one of the four threads.
LEMMA Threads ==
  ASSUME [Next]_vars
  PROVE  \/ \E m \in Requests : Request(m)
         \/ VamStep
         \/ (\E t \in Timers : Expire(t)) \/ TmrStep
         \/ Evam \/ PauseSet \/ PauseArm
         \/ UNCHANGED vars
  BY DEF Next

\* vam_add_event_queue keeps the queue a sequence of messages within its size.
LEMMA EnqueueType ==
  ASSUME queue \in Seq(Messages), Len(queue) <= QueueSize,
         NEW m \in Messages, Enqueue(m)
  PROVE  queue' \in Seq(Messages) /\ Len(queue') <= QueueSize
<1>1. CASE Len(queue) < QueueSize
  <2>1. queue' = Append(queue, m)
    BY <1>1 DEF Enqueue
  <2>2. queue' \in Seq(Messages) /\ Len(queue') = Len(queue) + 1
    BY <2>1
  <2> QED
    BY <1>1, <2>2, QueueAssumption
<1>2. CASE ~(Len(queue) < QueueSize)
  BY <1>2 DEF Enqueue
<1> QED
  BY <1>1, <1>2

\* vam_init leaves the module in a state of the declared types.
LEMMA InitType == Init => TypeOK
  BY TornAssumption, QueueAssumption
  DEF Init, TypeOK, Flags, Timers, Messages, Requests

\* A store to the flag keeps the types, whatever the thread had loaded.
LEMMA StoreType ==
  ASSUME TypeOK, NEW new \in SUBSET Flags, StoreFlag(new)
  PROVE  flag' \subseteq Flags /\ passed' \in 0 .. 2
  BY DEF TypeOK, StoreFlag

\* A load-and-store update starts from a set of flags.
LEMMA BaseType ==
  ASSUME TypeOK, NEW reg \in SUBSET Flags
  PROVE  Base(reg) \in SUBSET Flags
  BY DEF TypeOK, Base

\* The steps of the vam thread keep the types.
LEMMA VamType ==
  ASSUME TypeOK, VamStep
  PROVE  TypeOK'
<1> USE DEF TypeOK, VamUnchanged, tmrVars, rxVars
<1>1. CASE VamRecv
  <2>1. Head(queue) \in Messages /\ Tail(queue) \in Seq(Messages)
    BY <1>1 DEF VamRecv
  <2>2. Len(Tail(queue)) = Len(queue) - 1
    BY <1>1 DEF VamRecv
  <2> QED
    BY <1>1, <2>1, <2>2, QueueAssumption DEF VamRecv
<1>2. CASE VamLoad("start", "startRx")
  BY <1>2 DEF VamLoad
<1>3. CASE StartRx
  <2>1. Base(vamReg) \in SUBSET Flags
    BY BaseType
  <2> QED
    BY <1>3, <2>1, StoreType DEF StartRx, Timers
<1>4. CASE VamLoad("startTx", "startTxStore")
  BY <1>4 DEF VamLoad
<1>5. CASE StartTx
  <2>1. Base(vamReg) \cup {"TX"} \in SUBSET Flags
    BY BaseType DEF Flags
  <2> QED
    BY <1>5, <2>1, StoreType DEF StartTx
<1>6. CASE StartBsm
  BY <1>6 DEF StartBsm, Timers
<1>7. CASE StopTimer
  BY <1>7 DEF StopTimer
<1>8. CASE VamLoad("stopFlag", "stopStore")
  BY <1>8 DEF VamLoad
<1>9. CASE StopFlag
  <2>1. Base(vamReg) \ {"TX"} \in SUBSET Flags
    BY BaseType
  <2> QED
    BY <1>9, <2>1, StoreType DEF StopFlag
<1>10. CASE Sweep
  BY <1>10 DEF Sweep, ChangePeriod, Timers
<1>11. CASE GpsUpdate
  BY <1>11 DEF GpsUpdate, ChangePeriod, Timers
<1>12. CASE GpsTest
  BY <1>12 DEF GpsTest
<1>13. CASE GpsFixed
  <2>1. Base(vamReg) \cup {"GPS"} \in SUBSET Flags
    BY BaseType DEF Flags
  <2> QED
    BY <1>13, <2>1, StoreType DEF GpsFixed
<1>14. CASE GpsArm
  BY <1>14 DEF GpsArm, Timers
<1>15. CASE SendBsm
  BY <1>15 DEF SendBsm
<1> QED
  BY <1>1, <1>2, <1>3, <1>4, <1>5, <1>6, <1>7, <1>8, <1>9, <1>10, <1>11,
     <1>12, <1>13, <1>14, <1>15 DEF VamStep

\* The timer callbacks keep the types.
LEMMA TmrType ==
  ASSUME TypeOK, TmrStep \/ \E t \in Timers : Expire(t)
  PROVE  TypeOK'
<1> USE DEF TypeOK, TmrUnchanged, vamVars, rxVars
<1>1. CASE \E t \in Timers : Expire(t)
  BY <1>1 DEF Expire
<1>2. CASE Tick
  BY <1>2 DEF Tick
<1>3. CASE QueueBsm
  <2>1. queue' \in Seq(Messages) /\ Len(queue') <= QueueSize
    BY <1>3, EnqueueType DEF QueueBsm, Messages
  <2>2. passed' \in 0 .. 2
    BY <1>3 DEF QueueBsm
  <2> QED
    BY <1>3, <2>1, <2>2 DEF QueueBsm
<1>4. CASE QueueSweep
  <2>1. queue' \in Seq(Messages) /\ Len(queue') <= QueueSize
    BY <1>4, EnqueueType DEF QueueSweep, Messages
  <2> QED
    BY <1>4, <2>1 DEF QueueSweep
<1>5. CASE PauseEnd
  BY <1>5 DEF PauseEnd
<1>6. CASE PauseClear
  <2>1. Base(tmrReg) \ {"PAUSE"} \in SUBSET Flags
    BY BaseType
  <2> QED
    BY <1>6, <2>1, StoreType DEF PauseClear
<1>7. CASE GpsLife
  BY <1>7 DEF GpsLife
<1>8. CASE GpsLost
  <2>1. Base(tmrReg) \ {"GPS"} \in SUBSET Flags
    BY BaseType
  <2> QED
    BY <1>8, <2>1, StoreType DEF GpsLost
<1> QED
  BY <1>1, <1>2, <1>3, <1>4, <1>5, <1>6, <1>7, <1>8 DEF TmrStep

\* The receive thread and the senders of requests keep the types.
LEMMA RxType ==
  ASSUME TypeOK,
         Evam \/ PauseSet \/ PauseArm \/ \E m \in Requests : Request(m)
  PROVE  TypeOK'
<1> USE DEF TypeOK, RxUnchanged, vamVars, tmrVars, rxVars
<1>1. CASE Evam
  BY <1>1 DEF Evam
<1>2. CASE PauseSet
  <2>1. Base(rxReg) \cup {"PAUSE"} \in SUBSET Flags
    BY BaseType DEF Flags
  <2> QED
    BY <1>2, <2>1, StoreType DEF PauseSet
<1>3. CASE PauseArm
  BY <1>3 DEF PauseArm, Timers
<1>4. CASE \E m \in Requests : Request(m)
  <2> PICK m \in Requests : Request(m)
    BY <1>4
  <2>1. queue' \in Seq(Messages) /\ Len(queue') <= QueueSize
    BY EnqueueType DEF Request, Messages
  <2> QED
    BY <2>1 DEF Request
<1> QED
  BY <1>1, <1>2, <1>3, <1>4

\* Type correctness: in particular vam_add_event_queue never overfills the
\* queue, however fast the timers and the other threads send.
THEOREM TypeCorrect == Spec => []TypeOK
<1>1. TypeOK /\ [Next]_vars => TypeOK'
  <2> SUFFICES ASSUME TypeOK, [Next]_vars PROVE TypeOK'
    OBVIOUS
  <2>1. CASE UNCHANGED vars
    BY <2>1 DEF TypeOK, vars, vamVars, tmrVars, rxVars
  <2> QED
    BY <2>1, Threads, VamType, TmrType, RxType
<1> QED
  BY <1>1, InitType, PTL DEF Spec
-----------------------------------------------------------------------------
(***************************************************************************)
(* The pause.  A callback that stands before its send read the flag while  *)
(* no pause was in force, so the history of the pause is still empty; and  *)
(* the history counts only while PAUSE is set.                             *)
(***************************************************************************)
PauseInv ==
  /\ passed \in {0, 1}
  /\ passed = 1 => "PAUSE" \in flag /\ tmrPc # "tick"

\* Every store to the flag, of any thread, torn or not, keeps PauseInv.
LEMMA StorePause ==
  ASSUME PauseInv, NEW new, StoreFlag(new), tmrPc' # "tick" \/ tmrPc' = tmrPc
  PROVE  PauseInv'
  BY DEF PauseInv, StoreFlag

\* No step of vsm_pause_bsm_broadcast, of the timer callbacks or of the vam
\* thread lets a second BSM pass.
LEMMA PauseStep ==
  ASSUME PauseInv, [Next]_vars
  PROVE  PauseInv'
<1>1. CASE UNCHANGED vars
  BY <1>1 DEF PauseInv, vars, tmrVars
<1>2. CASE VamStep
  <2>1. UNCHANGED tmrPc
    BY <1>2 DEF VamStep, VamUnchanged, tmrVars, VamRecv, VamLoad, StartRx,
         StartTx, StartBsm, StopTimer, StopFlag, Sweep, GpsUpdate, GpsTest,
         GpsFixed, GpsArm, SendBsm
  <2>2. CASE StartRx \/ StartTx \/ StopFlag \/ GpsFixed
    BY <2>1, <2>2, StorePause DEF StartRx, StartTx, StopFlag, GpsFixed
  <2>3. CASE UNCHANGED <<flag, passed>>
    BY <2>1, <2>3 DEF PauseInv
  <2> QED
    BY <1>2, <2>2, <2>3 DEF VamStep, VamRecv, VamLoad, StartBsm, StopTimer,
       Sweep, GpsUpdate, GpsTest, GpsArm, SendBsm
<1>3. CASE TmrStep
  <2>1. CASE Tick
    BY <2>1 DEF Tick, PauseInv
  <2>2. CASE QueueBsm
    BY <2>2 DEF QueueBsm, PauseInv
  <2>3. CASE PauseClear \/ GpsLost
    BY <2>3, StorePause DEF PauseClear, GpsLost
  <2>4. CASE QueueSweep \/ PauseEnd \/ GpsLife
    BY <2>4 DEF QueueSweep, PauseEnd, GpsLife, PauseInv
  <2> QED
    BY <1>3, <2>1, <2>2, <2>3, <2>4 DEF TmrStep
<1>4. CASE \E t \in Timers : Expire(t)
  BY <1>4 DEF Expire, Timers, PauseInv
<1>5. CASE PauseSet
  BY <1>5, StorePause DEF PauseSet, RxUnchanged, tmrVars
<1>6. CASE Evam \/ PauseArm
  BY <1>6 DEF Evam, PauseArm, RxUnchanged, tmrVars, PauseInv
<1>7. CASE \E m \in Requests : Request(m)
  BY <1>7 DEF Request, tmrVars, PauseInv
<1> QED
  BY <1>1, <1>2, <1>3, <1>4, <1>5, <1>6, <1>7, Threads

\* During a pause at most the one BSM goes out whose callback had already
\* tested the flag, also when updates of the flag are lost.
THEOREM OnePassPerPause == Spec => []PauseLetsOnePass
<1>1. Init => PauseInv
  BY DEF Init, PauseInv
<1>2. PauseInv /\ [Next]_vars => PauseInv'
  BY PauseStep
<1>3. PauseInv => PauseLetsOnePass
  BY DEF PauseInv, PauseLetsOnePass
<1> QED
  BY <1>1, <1>2, <1>3, PTL DEF Spec
-----------------------------------------------------------------------------
(***************************************************************************)
(* Starting and stopping.  With atomic updates only StartTx adds TX and    *)
(* only StopTimer disarms the timer, and each is on its way to the step    *)
(* that completes it.                                                      *)
(***************************************************************************)

\* With atomic updates a store leaves TX as it was, unless it is StartTx.
LEMMA StoreTx ==
  ASSUME ~torn, NEW reg, NEW f,
         \/ StoreFlag(Base(reg))
         \/ f # "TX" /\ StoreFlag(Base(reg) \cup {f})
         \/ StoreFlag(Base(reg) \ {f})
  PROVE  "TX" \in flag' => "TX" \in flag
  BY DEF StoreFlag, Base

\* The flag and the timer agree at every step of the vam thread.
LEMMA VamTimer ==
  ASSUME TimerFollowsFlag, VamStep
  PROVE  TimerFollowsFlag'
<1> SUFFICES ASSUME ~torn', "TX" \in flag',
                    vamPc' \notin {"startBsm", "stopFlag", "stopStore"}
             PROVE  "bsm" \in armed'
  BY DEF TimerFollowsFlag
<1> USE DEF TimerFollowsFlag, VamUnchanged
<1>1. CASE VamRecv
  BY <1>1 DEF VamRecv
<1>2. CASE VamLoad("start", "startRx") \/ VamLoad("startTx", "startTxStore")
  BY <1>2 DEF VamLoad
<1>3. CASE StartRx
  BY <1>3, StoreTx DEF StartRx
<1>4. CASE StartTx
  BY <1>4 DEF StartTx
<1>5. CASE StartBsm
  BY <1>5 DEF StartBsm
<1>6. CASE StopTimer \/ VamLoad("stopFlag", "stopStore")
  BY <1>6 DEF StopTimer, VamLoad
<1>7. CASE StopFlag
  BY <1>7 DEF StopFlag, StoreFlag
<1>8. CASE Sweep \/ GpsUpdate
  BY <1>8 DEF Sweep, GpsUpdate, ChangePeriod
<1>9. CASE GpsTest \/ GpsArm \/ SendBsm
  BY <1>9 DEF GpsTest, GpsArm, SendBsm
<1>10. CASE GpsFixed
  BY <1>10, StoreTx DEF GpsFixed
<1> QED
  BY <1>1, <1>2, <1>3, <1>4, <1>5, <1>6, <1>7, <1>8, <1>9, <1>10 DEF VamStep

\* ... and no other thread disturbs them: the timer of BSMs is periodic.
LEMMA OtherTimer ==
  ASSUME TimerFollowsFlag, [Next]_vars, ~VamStep
  PROVE  TimerFollowsFlag'
<1> SUFFICES ASSUME ~torn', "TX" \in flag',
                    vamPc' \notin {"startBsm", "stopFlag", "stopStore"}
             PROVE  "bsm" \in armed'
  BY DEF TimerFollowsFlag
<1> USE DEF TimerFollowsFlag, vamVars
<1>1. CASE UNCHANGED vars
  BY <1>1 DEF vars
<1>2. CASE \E t \in Timers : Expire(t)
  BY <1>2 DEF Expire, TmrUnchanged
<1>3. CASE TmrStep
  <2>1. CASE PauseClear
    BY <2>1, StoreTx DEF PauseClear, TmrUnchanged
  <2>2. CASE GpsLost
    BY <2>2, StoreTx DEF GpsLost, TmrUnchanged
  <2>3. CASE Tick \/ QueueBsm \/ QueueSweep \/ PauseEnd \/ GpsLife
    BY <2>3 DEF Tick, QueueBsm, QueueSweep, PauseEnd, GpsLife, TmrUnchanged
  <2> QED
    BY <1>3, <2>1, <2>2, <2>3 DEF TmrStep
<1>4. CASE PauseSet
  BY <1>4, StoreTx DEF PauseSet, RxUnchanged
<1>5. CASE Evam \/ PauseArm
  BY <1>5 DEF Evam, PauseArm, RxUnchanged
<1>6. CASE \E m \in Requests : Request(m)
  BY <1>6 DEF Request
<1> QED
  BY <1>1, <1>2, <1>3, <1>4, <1>5, <1>6, Threads

\* Whenever BSMs are switched on, and no start or stop is half done, the timer
\* that sends them runs.
THEOREM TimerRuns == Spec => []TimerFollowsFlag
<1>1. Init => TimerFollowsFlag
  BY DEF Init, TimerFollowsFlag
<1>2. TimerFollowsFlag /\ [Next]_vars => TimerFollowsFlag'
  BY VamTimer, OtherTimer
<1> QED
  BY <1>1, <1>2, PTL DEF Spec
-----------------------------------------------------------------------------
(***************************************************************************)
(* Stopping.  With atomic updates TX is set by a start only, and no start  *)
(* is under way once a stop has been carried out.                          *)
(***************************************************************************)
Starting == {"start", "startRx", "startTx", "startTxStore", "startBsm"}

StopInv ==
  /\ stopped => vamPc \notin Starting
  /\ ~torn /\ stopped => "TX" \notin flag

\* The steps of the vam thread keep it: a start taken up clears stopped, and
\* StopFlag, which sets it, clears TX.
LEMMA VamStop ==
  ASSUME TypeOK, StopInv, VamStep
  PROVE  StopInv'
<1> USE DEF StopInv, Starting, VamUnchanged
<1>1. CASE VamRecv
  <2>1. Head(queue) \in Messages
    BY <1>1 DEF TypeOK, VamRecv
  <2> QED
    BY <1>1, <2>1 DEF VamRecv, Messages, Requests
<1>2. CASE VamLoad("start", "startRx") \/ VamLoad("startTx", "startTxStore")
  BY <1>2 DEF VamLoad
<1>3. CASE StartRx
  BY <1>3, StoreTx DEF StartRx
<1>4. CASE StartTx
  BY <1>4 DEF StartTx
<1>5. CASE StartBsm
  BY <1>5 DEF StartBsm
<1>6. CASE StopTimer \/ VamLoad("stopFlag", "stopStore")
  BY <1>6 DEF StopTimer, VamLoad
<1>7. CASE StopFlag
  BY <1>7 DEF StopFlag, StoreFlag
<1>8. CASE Sweep \/ GpsUpdate
  BY <1>8 DEF Sweep, GpsUpdate
<1>9. CASE GpsTest \/ GpsArm \/ SendBsm
  BY <1>9 DEF GpsTest, GpsArm, SendBsm
<1>10. CASE GpsFixed
  BY <1>10, StoreTx DEF GpsFixed
<1> QED
  BY <1>1, <1>2, <1>3, <1>4, <1>5, <1>6, <1>7, <1>8, <1>9, <1>10 DEF VamStep

\* ... and so do the other threads, whose stores leave TX as it is.
LEMMA OtherStop ==
  ASSUME StopInv, [Next]_vars, ~VamStep
  PROVE  StopInv'
<1> USE DEF StopInv, vamVars
<1>1. CASE UNCHANGED vars
  BY <1>1 DEF vars
<1>2. CASE \E t \in Timers : Expire(t)
  BY <1>2 DEF Expire, TmrUnchanged
<1>3. CASE TmrStep
  <2>1. CASE PauseClear
    BY <2>1, StoreTx DEF PauseClear, TmrUnchanged
  <2>2. CASE GpsLost
    BY <2>2, StoreTx DEF GpsLost, TmrUnchanged
  <2>3. CASE Tick \/ QueueBsm \/ QueueSweep \/ PauseEnd \/ GpsLife
    BY <2>3 DEF Tick, QueueBsm, QueueSweep, PauseEnd, GpsLife, TmrUnchanged
  <2> QED
    BY <1>3, <2>1, <2>2, <2>3 DEF TmrStep
<1>4. CASE PauseSet
  BY <1>4, StoreTx DEF PauseSet, RxUnchanged
<1>5. CASE Evam \/ PauseArm
  BY <1>5 DEF Evam, PauseArm, RxUnchanged
<1>6. CASE \E m \in Requests : Request(m)
  BY <1>6 DEF Request
<1> QED
  BY <1>1, <1>2, <1>3, <1>4, <1>5, <1>6, Threads

\* With TX cleared the callback does not go on to send.
LEMMA SilentStep ==
  ASSUME [Next]_vars, "TX" \notin flag, tmrPc # "tick"
  PROVE  tmrPc' # "tick"
<1>1. CASE UNCHANGED vars
  BY <1>1 DEF vars, tmrVars
<1>2. CASE VamStep
  BY <1>2 DEF VamStep, VamUnchanged, tmrVars, VamRecv, VamLoad, StartRx,
     StartTx, StartBsm, StopTimer, StopFlag, Sweep, GpsUpdate, GpsTest,
     GpsFixed, GpsArm, SendBsm
<1>3. CASE TmrStep
  BY <1>3 DEF TmrStep, Tick, QueueBsm, QueueSweep, PauseEnd, PauseClear,
     GpsLife, GpsLost
<1>4. CASE \E t \in Timers : Expire(t)
  BY <1>4 DEF Expire, Timers
<1>5. CASE Evam \/ PauseSet \/ PauseArm
  BY <1>5 DEF Evam, PauseSet, PauseArm, RxUnchanged, tmrVars
<1>6. CASE \E m \in Requests : Request(m)
  BY <1>6 DEF Request, tmrVars
<1> QED
  BY <1>1, <1>2, <1>3, <1>4, <1>5, <1>6, Threads

\* vam_stop is final with atomic updates: sweeps and GPS messages queued before
\* it start the timer again, but its callback sends nothing.
THEOREM StopIsFinal == Spec => StopHolds
<1>1. Init => StopInv
  BY DEF Init, StopInv, Starting
<1>2. TypeOK /\ StopInv /\ [Next]_vars => StopInv'
  BY VamStop, OtherStop
<1>3. StopInv /\ [Next]_vars =>
        [~torn /\ stopped /\ stopped' => (tmrPc' = "tick" => tmrPc = "tick")]_vars
  BY SilentStep DEF StopInv
<1> QED
  BY <1>1, <1>2, <1>3, TypeCorrect, PTL DEF Spec, StopHolds
-----------------------------------------------------------------------------
(***************************************************************************)
(* The GPS fix.  Not only the flag but every copy of it in a thread's      *)
(* register is covered by the timer, so no lost update leaves a fix that   *)
(* nobody doubts.                                                          *)
(***************************************************************************)
Believed == "GPS" \in flag \cup vamReg \cup tmrReg \cup rxReg

WatchInv == Believed => "gps" \in armed \/ vamPc = "gpsArm"

\* A timer that runs goes on running but for vam_stop's and one-shot expiries.
LEMMA GpsTimerStays ==
  ASSUME [Next]_vars, "gps" \in armed
  PROVE  "gps" \in armed'
<1>1. CASE VamStep
  BY <1>1 DEF VamStep, VamRecv, VamLoad, StartRx,
     StartTx, StartBsm, StopTimer, StopFlag, Sweep, GpsUpdate, GpsTest,
     GpsFixed, GpsArm, SendBsm, ChangePeriod
<1>2. CASE TmrStep
  BY <1>2 DEF TmrStep, Tick, QueueBsm, QueueSweep, PauseEnd, PauseClear,
     GpsLife, GpsLost
<1>3. CASE \E t \in Timers : Expire(t)
  BY <1>3 DEF Expire, Timers
<1> QED
  BY <1>1, <1>2, <1>3, Threads
  DEF vars, Evam, PauseSet, PauseArm, RxUnchanged, Request

\* Only the vam thread, on its way to start the timer, begins to believe a fix.
LEMMA BeliefBegins ==
  ASSUME [Next]_vars, ~Believed, Believed'
  PROVE  vamPc' = "gpsArm"
<1> USE DEF Believed
<1>1. CASE UNCHANGED vars
  BY <1>1 DEF vars, vamVars, tmrVars, rxVars
<1>2. CASE VamStep
  BY <1>2 DEF VamStep, VamUnchanged, tmrVars, rxVars, VamRecv, VamLoad, StartRx,
     StartTx, StartBsm, StopTimer, StopFlag, Sweep, GpsUpdate, GpsTest,
     GpsFixed, GpsArm, SendBsm, StoreFlag, Base
<1>3. CASE TmrStep
  BY <1>3 DEF TmrStep, TmrUnchanged, vamVars, rxVars, Tick, QueueBsm, QueueSweep,
     PauseEnd, PauseClear, GpsLife, GpsLost, StoreFlag, Base
<1>4. CASE \E t \in Timers : Expire(t)
  BY <1>4 DEF Expire, TmrUnchanged, vamVars, rxVars
<1>5. CASE Evam \/ PauseSet \/ PauseArm
  BY <1>5 DEF Evam, PauseSet, PauseArm, RxUnchanged, vamVars, tmrVars, StoreFlag, Base
<1>6. CASE \E m \in Requests : Request(m)
  BY <1>6 DEF Request, vamVars, tmrVars, rxVars
<1> QED
  BY <1>1, <1>2, <1>3, <1>4, <1>5, <1>6, Threads

\* On its way there it does not turn aside.
LEMMA ArmingEnds ==
  ASSUME [Next]_vars, vamPc = "gpsArm", vamPc' # "gpsArm"
  PROVE  "gps" \in armed'
<1>1. VamStep
  BY Threads DEF vars, vamVars, TmrStep, TmrUnchanged, Tick, QueueBsm, QueueSweep,
     PauseEnd, PauseClear, GpsLife, GpsLost, Expire, Evam, PauseSet, PauseArm,
     RxUnchanged, Request
<1> QED
  BY <1>1 DEF VamStep, VamRecv, VamLoad, StartRx, StartTx, StartBsm, StopTimer,
     StopFlag, Sweep, GpsUpdate, GpsTest, GpsFixed, GpsArm, SendBsm

\* A fix is never believed without the timer that clears it, torn updates or not.
THEOREM FixIsWatched == Spec => []GpsWatched
<1>1. Init => WatchInv
  BY DEF Init, WatchInv, Believed
<1>2. WatchInv /\ [Next]_vars => WatchInv'
  BY GpsTimerStays, BeliefBegins, ArmingEnds DEF WatchInv
<1>3. WatchInv => GpsWatched
  BY DEF WatchInv, GpsWatched, Believed
<1> QED
  BY <1>1, <1>2, <1>3, PTL DEF Spec
=============================================================================
