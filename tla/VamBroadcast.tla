---------------------------- MODULE VamBroadcast ----------------------------
(***************************************************************************)
(* Starting, stopping and pausing the periodic BSM broadcast of the VAM    *)
(* module, and the detection of a lost GPS fix.                            *)
(*                                                                         *)
(* Three threads write the bits of p_vam->flag with plain |= and &= :      *)
(*                                                                         *)
(*  - the vam thread, which takes messages from its bounded queue          *)
(*    (vam_main_proc);                                                     *)
(*  - the timer thread, which runs the callbacks of all osal timers one    *)
(*    after the other;                                                     *)
(*  - the receive thread, which pauses the broadcast when an EVAM arrives  *)
(*    (bsm_pause_mode 2).                                                  *)
(*                                                                         *)
(* On the ARM target such an update is a load and a store, and one of two  *)
(* overlapping updates can be lost.  torn = TRUE is that build; with       *)
(* torn = FALSE the updates are atomic, which separates what the design    *)
(* keeps from what the lost updates break.                                 *)
(*                                                                         *)
(* VAM_FLAG_RX is never read and is left out, but its update is not: it    *)
(* can lose the others'.  TX_BSM_ALERT is set by the safety applications   *)
(* only, which main does not start; so the branch of the BSM callback that *)
(* clears it (cv_vam_vsm.c:118-129) is left out.                           *)
(*                                                                         *)
(* Timers start, stop and expire as in TimerService, which OsTimer         *)
(* implements; stopping one does not wait for its callback.                *)
(***************************************************************************)
EXTENDS Naturals, Sequences, FiniteSets

CONSTANTS
  QueueSize,   \* VAM_QUEUE_SIZE
  TornModes    \* the values of torn to consider

ASSUME QueueAssumption == QueueSize \in Nat \ {0}
ASSUME TornAssumption  == TornModes \subseteq BOOLEAN

VARIABLES
  torn,        \* a flag update is a load and a store
  flag,        \* the bits of p_vam->flag that are set
  armed,       \* the running timers
  queue,       \* queue_vam
  vamPc, vamReg,   \* vam thread; its loaded copy of flag
  tmrPc, tmrReg,   \* timer thread
  rxPc, rxReg,     \* receive thread
  stopped,     \* history: no start was taken up since the last full stop
  passed       \* history: BSMs queued since the pause in force began (0..2)

vamVars == <<vamPc, vamReg>>
tmrVars == <<tmrPc, tmrReg>>
rxVars  == <<rxPc, rxReg>>
vars == <<torn, flag, armed, queue, vamVars, tmrVars, rxVars, stopped, passed>>

Flags    == {"TX", "PAUSE", "GPS"}
Timers   == {"bsm", "neigh", "pause", "gps"}
Requests == {"start", "stop", "gps"}    \* what other threads send
Messages == Requests \cup {"neigh", "bsm"}

\* vam_init: memset to 0, every timer created TIMER_STOPPED
Init ==
  /\ torn \in TornModes
  /\ flag = {} /\ armed = {} /\ queue = <<>>
  /\ vamPc = "idle" /\ vamReg = {}
  /\ tmrPc = "idle" /\ tmrReg = {}
  /\ rxPc = "idle" /\ rxReg = {}
  /\ stopped = TRUE /\ passed = 0

\* vam_add_event_queue waiting for room instead of dropping: no bound
EnqueueUnbounded(m) == queue' = Append(queue, m)

\* vam_add_event_queue with OSAL_NO_WAIT: the message is dropped when full
Enqueue(m) ==
  queue' = IF Len(queue) < QueueSize THEN Append(queue, m) ELSE queue

\* what a flag update starts from when it stores, given what it loaded
Base(reg) == IF torn THEN reg ELSE flag

\* the history of the pause follows every store to flag
StoreFlag(new) ==
  /\ flag' = new
  /\ passed' = IF "PAUSE" \in new /\ "PAUSE" \in flag THEN passed ELSE 0

(***************************************************************************)
(* vsm_update_bsm_bcast_timer: osal_timer_change stops the timer, sets its *)
(* time and starts it, so a timer that was stopped runs afterwards.  The   *)
(* period that is wanted depends on the neighbours and on the speed, and   *)
(* may or may not be the one in use.                                       *)
(***************************************************************************)
ChangePeriod == armed' = armed \cup {"bsm"} \/ UNCHANGED armed
-----------------------------------------------------------------------------
(***************************************************************************)
(* Other threads: the CLI's bsm start|stop (vam_start, vam_stop), main's   *)
(* vam_start, and the GPS driver.                                          *)
(***************************************************************************)
Request(m) ==
  /\ Enqueue(m)
  /\ UNCHANGED <<torn, flag, armed, vamVars, tmrVars, rxVars, stopped, passed>>
-----------------------------------------------------------------------------
(***************************************************************************)
(* vam thread.                                                             *)
(***************************************************************************)
VamUnchanged == UNCHANGED <<torn, tmrVars, rxVars>>

VamRecv ==
  /\ vamPc = "idle" /\ queue # <<>>
  /\ vamPc' = Head(queue) /\ queue' = Tail(queue)
  /\ stopped' = (stopped /\ Head(queue) # "start")
  /\ UNCHANGED <<flag, armed, vamReg, passed>> /\ VamUnchanged

VamLoad(from, to) ==
  /\ vamPc = from
  /\ vamReg' = flag /\ vamPc' = to
  /\ UNCHANGED <<flag, armed, queue, stopped, passed>> /\ VamUnchanged

\* flag |= VAM_FLAG_RX; bsm_boardcast_mode may have been set to disabled
StartRx ==
  /\ vamPc = "startRx"
  /\ StoreFlag(Base(vamReg))
  /\ armed' = armed \cup {"neigh"}
  /\ vamReg' = {} /\ vamPc' \in {"startTx", "idle"}
  /\ UNCHANGED <<queue, stopped>> /\ VamUnchanged

StartTx ==
  /\ vamPc = "startTxStore"
  /\ StoreFlag(Base(vamReg) \cup {"TX"})
  /\ vamReg' = {} /\ vamPc' = "startBsm"
  /\ UNCHANGED <<armed, queue, stopped>> /\ VamUnchanged

\* vsm_start_bsm_broadcast without osal_timer_change and osal_timer_start
StartBsmUnarmed ==
  /\ vamPc = "startBsm"
  /\ vamPc' = "idle"
  /\ UNCHANGED <<flag, armed, queue, vamReg, stopped, passed>> /\ VamUnchanged

\* vsm_start_bsm_broadcast
StartBsm ==
  /\ vamPc = "startBsm"
  /\ armed' = armed \cup {"bsm"}
  /\ vamPc' = "idle"
  /\ UNCHANGED <<flag, queue, vamReg, stopped, passed>> /\ VamUnchanged

StopTimer ==
  /\ vamPc = "stop"
  /\ armed' = IF "TX" \in flag THEN armed \ {"bsm"} ELSE armed
  /\ vamPc' = "stopFlag"
  /\ UNCHANGED <<flag, queue, vamReg, stopped, passed>> /\ VamUnchanged

\* flag &= ~VAM_FLAG_RX only
StopFlagKeepTx ==
  /\ vamPc = "stopStore"
  /\ StoreFlag(Base(vamReg))
  /\ armed' = armed \ {"neigh"}
  /\ vamReg' = {} /\ vamPc' = "idle" /\ stopped' = TRUE
  /\ UNCHANGED queue /\ VamUnchanged

\* flag &= ~(VAM_FLAG_RX|VAM_FLAG_TX_BSM)
StopFlag ==
  /\ vamPc = "stopStore"
  /\ StoreFlag(Base(vamReg) \ {"TX"})
  /\ armed' = armed \ {"neigh"}
  /\ vamReg' = {} /\ vamPc' = "idle" /\ stopped' = TRUE
  /\ UNCHANGED queue /\ VamUnchanged

\* VAM_MSG_NEIGH_TIMEOUT: vam_update_sta ends in vsm_update_bsm_bcast_timer
Sweep ==
  /\ vamPc = "neigh"
  /\ ChangePeriod
  /\ vamPc' = "idle"
  /\ UNCHANGED <<flag, queue, vamReg, stopped, passed>> /\ VamUnchanged

\* VAM_MSG_GPSDATA: lip_update_local; the speed changed, or it did not
GpsUpdate ==
  /\ vamPc = "gps"
  /\ ChangePeriod
  /\ vamPc' = "gpsTest"
  /\ UNCHANGED <<flag, queue, vamReg, stopped, passed>> /\ VamUnchanged

GpsTest ==
  /\ vamPc = "gpsTest"
  /\ IF "GPS" \in flag THEN vamPc' = "gpsArm" /\ UNCHANGED vamReg
                       ELSE vamPc' = "gpsStore" /\ vamReg' = flag
  /\ UNCHANGED <<flag, armed, queue, stopped, passed>> /\ VamUnchanged

GpsFixed ==
  /\ vamPc = "gpsStore"
  /\ StoreFlag(Base(vamReg) \cup {"GPS"})
  /\ vamReg' = {} /\ vamPc' = "gpsArm"
  /\ UNCHANGED <<armed, queue, stopped>> /\ VamUnchanged

\* refresh the timer
GpsArm ==
  /\ vamPc = "gpsArm"
  /\ armed' = armed \cup {"gps"}
  /\ vamPc' = "idle"
  /\ UNCHANGED <<flag, queue, vamReg, stopped, passed>> /\ VamUnchanged

\* VAM_MSG_RCPTX: rcp_send_bsm
SendBsm ==
  /\ vamPc = "bsm"
  /\ vamPc' = "idle"
  /\ UNCHANGED <<flag, armed, queue, vamReg, stopped, passed>>
  /\ VamUnchanged

VamStep == \/ VamRecv
           \/ VamLoad("start", "startRx") \/ StartRx
           \/ VamLoad("startTx", "startTxStore") \/ StartTx \/ StartBsm
           \/ StopTimer \/ VamLoad("stopFlag", "stopStore") \/ StopFlag
           \/ Sweep \/ GpsUpdate \/ GpsTest \/ GpsFixed \/ GpsArm \/ SendBsm
-----------------------------------------------------------------------------
(***************************************************************************)
(* Timer thread.                                                           *)
(***************************************************************************)
TmrUnchanged == UNCHANGED <<torn, vamVars, rxVars, stopped>>

\* no timer is requeued
ExpireOnce(t) ==
  /\ tmrPc = "idle" /\ t \in armed
  /\ armed' = armed \ {t}
  /\ tmrPc' = t
  /\ UNCHANGED <<flag, queue, tmrReg, passed>> /\ TmrUnchanged

\* thread_func: an interval timer is requeued, timer_bsm_pause is one-shot
Expire(t) ==
  /\ tmrPc = "idle" /\ t \in armed
  /\ armed' = armed \ (IF t = "pause" THEN {t} ELSE {})
  /\ tmrPc' = t
  /\ UNCHANGED <<flag, queue, tmrReg, passed>> /\ TmrUnchanged

\* timer_send_bsm_callback without the test of VAM_FLAG_TX_BSM_PAUSE
TickUnpaused ==
  /\ tmrPc = "bsm"
  /\ tmrPc' = IF "TX" \in flag THEN "tick" ELSE "idle"
  /\ UNCHANGED <<flag, armed, queue, tmrReg, passed>> /\ TmrUnchanged

\* timer_send_bsm_callback
Tick ==
  /\ tmrPc = "bsm"
  /\ tmrPc' = IF "TX" \in flag /\ "PAUSE" \notin flag THEN "tick" ELSE "idle"
  /\ UNCHANGED <<flag, armed, queue, tmrReg, passed>> /\ TmrUnchanged

QueueBsm ==
  /\ tmrPc = "tick"
  /\ Enqueue("bsm")
  /\ passed' = IF "PAUSE" \in flag /\ passed < 2 THEN passed + 1 ELSE passed
  /\ tmrPc' = "idle"
  /\ UNCHANGED <<flag, armed, tmrReg>> /\ TmrUnchanged

\* timer_neigh_time_callback
QueueSweep ==
  /\ tmrPc = "neigh"
  /\ Enqueue("neigh")
  /\ tmrPc' = "idle"
  /\ UNCHANGED <<flag, armed, tmrReg, passed>> /\ TmrUnchanged

\* timer_bsm_pause_callback
PauseEnd ==
  /\ tmrPc = "pause"
  /\ IF "TX" \in flag THEN tmrPc' = "pauseStore" /\ tmrReg' = flag
                      ELSE tmrPc' = "idle" /\ UNCHANGED tmrReg
  /\ UNCHANGED <<flag, armed, queue, passed>> /\ TmrUnchanged

PauseClear ==
  /\ tmrPc = "pauseStore"
  /\ StoreFlag(Base(tmrReg) \ {"PAUSE"})
  /\ tmrReg' = {} /\ tmrPc' = "idle"
  /\ UNCHANGED <<armed, queue>> /\ TmrUnchanged

\* timer_gps_life_callback
GpsLife ==
  /\ tmrPc = "gps"
  /\ IF "GPS" \in flag THEN tmrPc' = "gpsStore" /\ tmrReg' = flag
                       ELSE tmrPc' = "idle" /\ UNCHANGED tmrReg
  /\ UNCHANGED <<flag, armed, queue, passed>> /\ TmrUnchanged

GpsLost ==
  /\ tmrPc = "gpsStore"
  /\ StoreFlag(Base(tmrReg) \ {"GPS"})
  /\ tmrReg' = {} /\ tmrPc' = "idle"
  /\ UNCHANGED <<armed, queue>> /\ TmrUnchanged

TmrStep == \/ Tick \/ QueueBsm \/ QueueSweep
           \/ PauseEnd \/ PauseClear \/ GpsLife \/ GpsLost
-----------------------------------------------------------------------------
(***************************************************************************)
(* Receive thread: an EVAM arrives (rcp_parse_msg, bsm_pause_mode 2);      *)
(* vsm_pause_bsm_broadcast.                                                *)
(***************************************************************************)
RxUnchanged == UNCHANGED <<torn, queue, vamVars, tmrVars, stopped>>

Evam ==
  /\ rxPc = "idle" /\ "PAUSE" \notin flag
  /\ rxReg' = flag /\ rxPc' = "store"
  /\ UNCHANGED <<flag, armed, passed>> /\ RxUnchanged

PauseSet ==
  /\ rxPc = "store"
  /\ StoreFlag(Base(rxReg) \cup {"PAUSE"})
  /\ rxReg' = {} /\ rxPc' = "arm"
  /\ UNCHANGED armed /\ RxUnchanged

PauseArm ==
  /\ rxPc = "arm"
  /\ armed' = armed \cup {"pause"}
  /\ rxPc' = "idle"
  /\ UNCHANGED <<flag, rxReg, passed>> /\ RxUnchanged
-----------------------------------------------------------------------------
Next == \/ \E m \in Requests : Request(m)
        \/ VamStep
        \/ \E t \in Timers : Expire(t)
        \/ TmrStep
        \/ Evam \/ PauseSet \/ PauseArm

(***************************************************************************)
(* Every thread runs.  The timer thread fires its timers in the order of   *)
(* their expiry times, so one that stays armed and is not restarted fires. *)
(* The pause timer is restarted by an EVAM and the GPS timer by a GPS      *)
(* message only.  Nothing is assumed of the BSM timer: in the automatic    *)
(* mode a change of speed restarts it, as often as GPS messages come.      *)
(***************************************************************************)
Fairness == /\ WF_vars(VamStep) /\ WF_vars(TmrStep)
            /\ WF_vars(PauseSet \/ PauseArm)
            /\ SF_vars(Expire("pause")) /\ SF_vars(Expire("gps"))

Spec     == Init /\ [][Next]_vars
FairSpec == Spec /\ Fairness
-----------------------------------------------------------------------------
\* The type invariant; the queue never holds more than QueueSize messages.
TypeOK ==
  /\ torn \in BOOLEAN
  /\ flag \subseteq Flags /\ armed \subseteq Timers
  /\ queue \in Seq(Messages) /\ Len(queue) <= QueueSize
  /\ vamPc \in Messages \cup {"idle", "startRx", "startTx", "startTxStore",
                              "startBsm", "stopFlag", "stopStore",
                              "gpsTest", "gpsStore", "gpsArm"}
  /\ vamReg \subseteq Flags
  /\ tmrPc \in Timers \cup {"idle", "tick", "pauseStore", "gpsStore"}
  /\ tmrReg \subseteq Flags
  /\ rxPc \in {"idle", "store", "arm"} /\ rxReg \subseteq Flags
  /\ stopped \in BOOLEAN
  /\ passed \in 0 .. 2

\* While a pause is in force the timer queues at most the one BSM whose
\* callback had already read the flag (timer_send_bsm_callback).
PauseLetsOnePass == passed <= 1

\* With atomic updates the bit that says BSMs are sent never outlives the
\* timer that sends them, although the neighbour sweep and the GPS handler
\* restart that timer too: a missed start cannot be repaired later.
TimerFollowsFlag ==
  ~torn /\ "TX" \in flag /\ vamPc \notin {"startBsm", "stopFlag", "stopStore"}
    => "bsm" \in armed

\* "bsm stop: stop sending bsm" (vam_cmd.c:138): once a stop has been carried
\* out and no start follows, the callback queues no more BSMs.
StopSilences == <>[]stopped => <>[](tmrPc # "tick")

\* With atomic updates a stop holds, though sweeps and GPS messages that were
\* queued before it start the broadcast timer again: after a stop has been
\* carried out and before a start is taken up no callback decides to send.
StopHolds ==
  [][~torn /\ stopped /\ stopped' => (tmrPc' = "tick" => tmrPc = "tick")]_vars

\* Whenever the module believes its GPS fix, the timer that doubts it runs or is
\* about to be started, although any of three threads may store the bit again
\* from an old copy of the flag (lip_update_local, timer_gps_life_callback).
GpsWatched == "GPS" \in flag => "gps" \in armed \/ vamPc = "gpsArm"

\* A GPS fix that is not renewed is reported lost (vam_get_gps_status), even
\* when the update that clears the bit is itself lost: the timer repeats it.
GpsLossSeen ==
  <>[](vamPc \notin {"gps", "gpsTest", "gpsStore"}) => []<>("GPS" \notin flag)

\* "bsm start: start sending bsm" (vam_cmd.c:137): with the broadcast on and
\* no further EVAM arriving, a pause ends.  The callback that ends it does so
\* only while the broadcast is on, and it runs once.
PauseEnds ==
  <>[]("TX" \in flag /\ rxPc = "idle") => []<>("PAUSE" \notin flag)
=============================================================================
