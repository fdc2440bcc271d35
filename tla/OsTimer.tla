------------------------------ MODULE OsTimer -------------------------------
(***************************************************************************)
(* The timers of osal/linux/os_timer.c: one timer thread with a queue of   *)
(* timers in the order of their expiry times, and the calls that create,   *)
(* start, stop, change and delete timers.  __timer_mutex guards it all and *)
(* is released while a callback runs and while the thread waits.           *)
(*                                                                         *)
(* Times are kept relative to the monotonic clock: rem[t] is the time left *)
(* until t expires, negative when it is overdue.  Clock values a thread    *)
(* has read get an age.  The thread waits by the real-time clock, which    *)
(* every regained GPS fix sets, forward or back, to a whole second         *)
(* (lip_update_local, gps_to_rtc).                                         *)
(*                                                                         *)
(* A timer that is not queued has rem = 0 here; its expirytime is read     *)
(* only after it has been set again.                                       *)
(***************************************************************************)
EXTENDS Integers, SequencesExt

CONSTANTS
  Timers, NoTimer,
  OneShot,   \* the timers created with TIMER_ONESHOT
  Callers,   \* the threads that call
  Self,      \* the timer thread, calling from within a callback
  Periods,   \* values of millisec
  MaxLate,   \* bound: how late a thread may run, how old a clock value gets
  Jumps,     \* by how much the real-time clock may be set forward or back (< 0)
  MaxBack    \* bound: how far back it is set, on balance, during one wait

ASSUME NamesAssumption == OneShot \subseteq Timers /\ NoTimer \notin Timers
ASSUME TimesAssumption == Periods \subseteq Nat \ {0} /\ MaxLate \in Nat
ASSUME JumpsAssumption == Jumps \subseteq Int /\ MaxBack \in Nat

VARIABLES
  inuse, armed, millisec, interval, rem,   \* struct timer_node
  queue,                        \* timer_queue
  thPc, current, thAge,         \* timer thread; the age of its "now"
  timed, wake,                  \* real time left of its pthread_cond_timedwait
  back,                         \* history: how far back the clock was set since
  cPc, cTimer, cMs, cAge        \* callers; cMs = 0 stops the timer

nodeVars == <<inuse, armed, millisec, interval, rem>>
thVars   == <<thPc, current, thAge, timed, wake, back>>
cVars    == <<cPc, cTimer, cMs, cAge>>
vars     == <<nodeVars, queue, thVars, cVars>>

Queued == { queue[i] : i \in DOMAIN queue }

\* the thread is created with the first timer and waits for the queue to fill
Init ==
  /\ inuse = [t \in Timers |-> FALSE] /\ armed = [t \in Timers |-> FALSE]
  /\ millisec = [t \in Timers |-> 0] /\ interval = [t \in Timers |-> 0]
  /\ rem = [t \in Timers |-> 0]
  /\ queue = <<>>
  /\ thPc = "wait" /\ current = NoTimer /\ thAge = 0
  /\ timed = FALSE /\ wake = 0 /\ back = 0
  /\ cPc = [c \in Callers |-> "idle"] /\ cTimer = [c \in Callers |-> NoTimer]
  /\ cMs = [c \in Callers |-> 0] /\ cAge = [c \in Callers |-> 0]
-----------------------------------------------------------------------------
(***************************************************************************)
(* The queue.                                                              *)
(***************************************************************************)
\* nothing is unlinked
UnlinkedNot(t) == queue

\* list_unlink_ip
Unlinked(t) ==
  IF t \in Queued THEN RemoveAt(queue, CHOOSE i \in DOMAIN queue : queue[i] = t)
                  ELSE queue

\* the comparison turned round
PlaceReversed(q, x) ==
  CHOOSE i \in 1 .. Len(q) + 1 : /\ \A j \in 1 .. i - 1 : rem[q[j]] >= x
                                 /\ i <= Len(q) => rem[q[i]] < x

\* before the first timer that expires later
Place(q, x) ==
  CHOOSE i \in 1 .. Len(q) + 1 : /\ \A j \in 1 .. i - 1 : rem[q[j]] <= x
                                 /\ i <= Len(q) => rem[q[i]] > x

\* __timer_thread_queue_timer, of a timer that is in no queue
Enqueue(q, t, x) ==
  /\ queue' = InsertAt(q, Place(q, x), t)
  /\ rem' = [rem EXCEPT ![t] = x]

AtHead(q, x) == Place(q, x) = 1
-----------------------------------------------------------------------------
(***************************************************************************)
(* Timer thread: thread_func, thread_expire_timer.  It holds the mutex     *)
(* while it is at "inner".                                                 *)
(***************************************************************************)
Unlocked == thPc # "inner"

ThUnchanged == UNCHANGED <<inuse, armed, millisec, cVars>>
NoWait      == UNCHANGED <<timed, wake, back>>

\* one round of the outer loop begins: takes the mutex, reads the clock
ThRun ==
  /\ thPc = "run"
  /\ thPc' = "inner" /\ thAge' = 0
  /\ UNCHANGED <<interval, rem, queue, current>> /\ NoWait /\ ThUnchanged

\* the first timer is due by the clock value read before
Due == queue # <<>> /\ rem[Head(queue)] <= -thAge

\* whole intervals are added until the expiry time is not past: at least one
NextTime(t) ==
  LET late == -(rem[t] + thAge)
      n    == IF late = 0 THEN 1 ELSE (late + interval[t] - 1) \div interval[t]
  IN  rem[t] + n * interval[t]

\* a periodic timer is not queued again
ThFireOnce ==
  /\ thPc = "inner" /\ Due
  /\ queue' = Tail(queue) /\ rem' = [rem EXCEPT ![Head(queue)] = 0]
  /\ current' = Head(queue)
  /\ thPc' = "callback"
  /\ UNCHANGED <<interval, thAge>> /\ NoWait /\ ThUnchanged

\* takes the timer off, queues it again if it is periodic, releases the mutex
ThFire ==
  /\ thPc = "inner" /\ Due
  /\ LET t == Head(queue)
     IN  /\ IF interval[t] > 0
              THEN Enqueue(Tail(queue), t, NextTime(t))
              ELSE queue' = Tail(queue) /\ rem' = [rem EXCEPT ![t] = 0]
         /\ current' = t
  /\ thPc' = "callback"
  /\ UNCHANGED <<interval, thAge>> /\ NoWait /\ ThUnchanged

\* the callback returns; deleters are woken; the clock is not read again
ThReturn ==
  /\ thPc = "callback" /\ (Self \in Callers => cPc[Self] = "idle")
  /\ current' = NoTimer
  /\ thPc' = "inner"
  /\ UNCHANGED <<interval, rem, queue, thAge>> /\ NoWait /\ ThUnchanged

\* waits for the first timer, by the real-time clock, or for a call
ThSleep ==
  /\ thPc = "inner" /\ ~Due
  /\ thPc' = "wait" /\ thAge' = 0
  /\ timed' = (queue # <<>>)
  /\ wake' = IF queue # <<>> THEN rem[Head(queue)] ELSE 0
  /\ back' = 0
  /\ UNCHANGED <<interval, rem, queue, current>> /\ ThUnchanged

Wakes == thPc' = "run" /\ timed' = FALSE /\ wake' = 0 /\ back' = 0

TimedOut ==
  /\ thPc = "wait" /\ timed /\ wake <= 0
  /\ Wakes
  /\ UNCHANGED <<interval, rem, queue, current, thAge>> /\ ThUnchanged

ThStep == ThRun \/ ThFire \/ ThSleep \/ TimedOut
-----------------------------------------------------------------------------
(***************************************************************************)
(* Calls.  A timer is used from the return of osal_timer_create to the     *)
(* call of osal_timer_delete (os_timer.c:1108-1113); the timer thread      *)
(* calls from within callbacks only.                                       *)
(***************************************************************************)
May(c) == cPc[c] = "idle" /\ (c = Self => thPc = "callback")

Used(t) == /\ inuse[t]
           /\ \A c \in Callers : cTimer[c] = t => cPc[c] \notin {"new", "delete"}

Calls(c, pc, t, ms) ==
  /\ cPc' = [cPc EXCEPT ![c] = pc] /\ cTimer' = [cTimer EXCEPT ![c] = t]
  /\ cMs' = [cMs EXCEPT ![c] = ms] /\ cAge' = [cAge EXCEPT ![c] = 0]

Returns(c) == Calls(c, "idle", NoTimer, 0)

\* os_timer_add up to __timer_settime; ms = 0 with TIMER_STOPPED
Create(c, t, p, ms) ==
  /\ May(c) /\ Unlocked /\ ~inuse[t]
  /\ inuse' = [inuse EXCEPT ![t] = TRUE] /\ armed' = [armed EXCEPT ![t] = FALSE]
  /\ millisec' = [millisec EXCEPT ![t] = p]
  /\ Calls(c, "new", t, ms)
  /\ UNCHANGED <<interval, rem, queue, thVars>>

\* os_timer_start up to __timer_settime, which reads the clock before it
\* takes the mutex; a change of the period starts the timer at its end
Start(c, t) ==
  /\ \/ May(c) /\ Used(t)
     \/ cPc[c] = "changed" /\ t = cTimer[c]
  /\ Unlocked
  /\ Calls(c, "set", t, millisec[t])
  /\ UNCHANGED <<nodeVars, queue, thVars>>

\* ... without list_unlink_ip
DisarmQueued(t) ==
  /\ UNCHANGED <<queue, rem>>
  /\ armed' = [armed EXCEPT ![t] = FALSE]
  /\ interval' = [interval EXCEPT ![t] = 0]

\* the node's side of __timer_settime with value 0
Disarm(t) ==
  /\ queue' = Unlinked(t) /\ rem' = [rem EXCEPT ![t] = 0]
  /\ armed' = [armed EXCEPT ![t] = FALSE]
  /\ interval' = [interval EXCEPT ![t] = 0]

\* osal_timer_stop; stopping a timer does not wait for its callback
Stop(c, t) ==
  /\ May(c) /\ Used(t) /\ Unlocked
  /\ Disarm(t)
  /\ UNCHANGED <<inuse, millisec, thVars, cVars>>

\* osal_timer_change: stops the timer, ...
Change(c, t, p) ==
  /\ May(c) /\ Used(t) /\ Unlocked
  /\ Disarm(t)
  /\ Calls(c, "change", t, p)
  /\ UNCHANGED <<inuse, millisec, thVars>>

\* ... sets its period, ...
SetPeriod(c) ==
  /\ cPc[c] = "change" /\ Unlocked
  /\ millisec' = [millisec EXCEPT ![cTimer[c]] = cMs[c]]
  /\ Calls(c, "changed", cTimer[c], 0)
  /\ UNCHANGED <<inuse, armed, interval, rem, queue, thVars>>

\* __timer_settime without the wakeup of the thread
SetTimeQuiet(c) ==
  LET t == cTimer[c]
  IN  /\ cPc[c] \in {"new", "set"} /\ cMs[c] > 0 /\ Unlocked
      /\ \E age \in 0 .. cAge[c] : Enqueue(Unlinked(t), t, cMs[c] - age)
      /\ armed' = [armed EXCEPT ![t] = TRUE]
      /\ interval' = [interval EXCEPT ![t] = IF t \in OneShot THEN 0 ELSE cMs[c]]
      /\ Returns(c)
      /\ UNCHANGED <<inuse, millisec, thVars>>

\* __timer_settime: the thread is woken after the mutex is released, when
\* the timer became the first
SetTime(c) ==
  LET t == cTimer[c]
  IN  /\ cPc[c] \in {"new", "set"} /\ cMs[c] > 0 /\ Unlocked
      /\ \E age \in 0 .. cAge[c] :
           /\ Enqueue(Unlinked(t), t, cMs[c] - age)
           /\ IF AtHead(Unlinked(t), cMs[c] - age)
                THEN Calls(c, "wake", t, 0) ELSE Returns(c)
      /\ armed' = [armed EXCEPT ![t] = TRUE]
      /\ interval' = [interval EXCEPT ![t] = IF t \in OneShot THEN 0 ELSE cMs[c]]
      /\ UNCHANGED <<inuse, millisec, thVars>>

\* ... of a timer created with TIMER_STOPPED
SetStopped(c) ==
  /\ cPc[c] = "new" /\ cMs[c] = 0 /\ Unlocked
  /\ Disarm(cTimer[c])
  /\ Returns(c)
  /\ UNCHANGED <<inuse, millisec, thVars>>

\* __timer_thread_wakeup
WakeUp(c) ==
  /\ cPc[c] = "wake"
  /\ IF thPc = "wait" THEN Wakes ELSE UNCHANGED <<thPc, timed, wake, back>>
  /\ Returns(c)
  /\ UNCHANGED <<nodeVars, queue, current, thAge>>

\* the end of __timer_delete
Dispose(t) ==
  /\ queue' = Unlinked(t) /\ rem' = [rem EXCEPT ![t] = 0]
  /\ inuse' = [inuse EXCEPT ![t] = FALSE]
  /\ UNCHANGED <<armed, millisec, interval, thVars>>

\* __timer_delete, with no other call on the timer under way: waits for the
\* callback unless it is called from there, or the timer has been stopped
Delete(c, t) ==
  /\ May(c) /\ Used(t) /\ Unlocked
  /\ \A d \in Callers : cTimer[d] # t
  /\ IF armed[t] /\ current = t /\ c # Self
       THEN Calls(c, "delete", t, 0) /\ UNCHANGED <<nodeVars, queue, thVars>>
       ELSE Dispose(t) /\ UNCHANGED cVars

Deleted(c) ==
  /\ cPc[c] = "delete" /\ Unlocked /\ current # cTimer[c]
  /\ Dispose(cTimer[c])
  /\ Returns(c)

Call(c) == \E t \in Timers :
  \/ \E p \in Periods : \/ Create(c, t, p, p) \/ Create(c, t, p, 0)
                        \/ Change(c, t, p)
  \/ May(c) /\ Start(c, t)
  \/ Stop(c, t) \/ Delete(c, t)

GoOn(c) == \/ \E t \in Timers : cPc[c] = "changed" /\ Start(c, t)
           \/ SetPeriod(c) \/ SetTime(c) \/ SetStopped(c) \/ WakeUp(c)
           \/ Deleted(c)
-----------------------------------------------------------------------------
(***************************************************************************)
(* Time.                                                                   *)
(***************************************************************************)
Reading(c) == cPc[c] \in {"new", "set"}

\* nobody runs later than MaxLate, not counting what the clock adds to a wait
InTime == /\ \A t \in Queued : rem[t] + back > -MaxLate
          /\ \A c \in Callers : Reading(c) => cAge[c] < MaxLate
          /\ thAge < MaxLate

Tick ==
  /\ InTime
  /\ rem' = [t \in Timers |-> IF t \in Queued THEN rem[t] - 1 ELSE rem[t]]
  /\ cAge' = [c \in Callers |-> IF Reading(c) THEN cAge[c] + 1 ELSE cAge[c]]
  /\ thAge' = IF thPc \in {"inner", "callback"} THEN thAge + 1 ELSE thAge
  /\ wake' = IF timed /\ wake > -MaxLate THEN wake - 1 ELSE wake
  /\ UNCHANGED <<inuse, armed, millisec, interval, queue, thPc, current, timed, back>>
  /\ UNCHANGED <<cPc, cTimer, cMs>>

\* gps_to_rtc: settimeofday; only a wait under way notices
ClockSet(j) ==
  /\ timed /\ wake - j \in -MaxLate .. MaxLate + MaxBack
  /\ wake' = wake - j
  /\ back' = IF back > j THEN back - j ELSE 0
  /\ back' <= MaxBack
  /\ UNCHANGED <<nodeVars, queue, thPc, current, thAge, timed, cVars>>

Next == \/ ThStep \/ ThReturn
        \/ \E c \in Callers : Call(c) \/ GoOn(c)
        \/ Tick \/ \E j \in Jumps : ClockSet(j)

(***************************************************************************)
(* Threads run, also when they compete for the mutex, callbacks return,    *)
(* and time goes on.                                                       *)
(***************************************************************************)
Fairness == /\ WF_vars(ThStep) /\ SF_vars(ThReturn) /\ WF_vars(Tick)
            /\ \A c \in Callers : SF_vars(GoOn(c))

Spec     == Init /\ [][Next]_vars
FairSpec == Spec /\ Fairness
-----------------------------------------------------------------------------
\* The type invariant; a timer is queued once.
TypeOK ==
  /\ inuse \in [Timers -> BOOLEAN] /\ armed \in [Timers -> BOOLEAN]
  /\ millisec \in [Timers -> Nat] /\ interval \in [Timers -> Nat]
  /\ rem \in [Timers -> Int]
  /\ queue \in Seq(Timers)
  /\ \A i, j \in DOMAIN queue : queue[i] = queue[j] => i = j
  /\ thPc \in {"wait", "run", "inner", "callback"}
  /\ current \in Timers \cup {NoTimer} /\ thAge \in Nat
  /\ timed \in BOOLEAN /\ wake \in Int /\ back \in 0 .. MaxBack
  /\ cPc \in [Callers -> {"idle", "new", "set", "change", "changed", "wake",
                          "delete"}]
  /\ cTimer \in [Callers -> Timers \cup {NoTimer}]
  /\ cMs \in [Callers -> Nat] /\ cAge \in [Callers -> Nat]

\* The callbacks are called "in chronological order" (os_timer.c:468), which
\* rests on the order of the queue: whatever calls and requeueings interleave,
\* it is sorted, and holds armed timers in use only (the thread dereferences
\* each of them).
QueueSorted ==
  /\ \A i, j \in DOMAIN queue : i < j => rem[queue[i]] <= rem[queue[j]]
  /\ \A t \in Queued : inuse[t] /\ armed[t]

\* "... as close to their scheduled time as possible": a waiting thread wakes
\* up when the first timer expires, or is about to be woken.  Callers wake it
\* after they released the mutex, and only for a new first timer.  It wakes up
\* late by no more than the clock was set back since it began to wait: "wait
\* until the expiry time of the first node" (os_timer.c:544) is by that clock.
WakesInTime ==
  thPc = "wait" /\ queue # <<>> =>
    \/ timed /\ wake <= rem[Head(queue)] + back
    \/ \E c \in Callers : cPc[c] = "wake"

\* A user's view: a periodic timer runs while it is armed, a one-shot timer
\* until it expires.
Running == { t \in Timers : inuse[t] /\ armed[t] /\ (t \in OneShot => t \in Queued) }

\* The timers keep what TimerService promises: only a running timer is called,
\* one at a time, never once it is stopped, and periodic ones stay running.
Service == INSTANCE TimerService WITH running <- Running, serving <- current
TimersServe == Service!Spec

\* A timer that runs and that nobody stops or starts again is called, again
\* and again if it is periodic: no other timer and no call starves it, nor does
\* the clock, as long as MaxBack bounds how far back it is set during one wait.
Served ==
  \A t \in Timers :
    <>[](t \in Running /\ \A c \in Callers : cTimer[c] # t) => []<>(current = t)
=============================================================================
