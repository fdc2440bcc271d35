---------------------------- MODULE TimerService ----------------------------
(***************************************************************************)
(* What the users of osal timers rely on: a timer runs from its start to   *)
(* its stop (a one-shot timer to its expiry), and the callbacks of running *)
(* timers are called one at a time.  Stopping a timer does not wait for    *)
(* its callback.                                                           *)
(***************************************************************************)
CONSTANTS
  Timers,
  OneShot,   \* the timers created with TIMER_ONESHOT
  NoTimer

VARIABLES
  running,   \* the timers that will expire
  serving    \* the timer whose callback is being called

Init == running = {} /\ serving = NoTimer

\* osal_timer_start
Start(t) == running' = running \cup {t} /\ UNCHANGED serving

\* osal_timer_stop
Stop(t) == running' = running \ {t} /\ UNCHANGED serving

Expire(t) ==
  /\ serving = NoTimer /\ t \in running
  /\ serving' = t
  /\ running' = IF t \in OneShot THEN running \ {t} ELSE running

Return ==
  /\ serving # NoTimer
  /\ serving' = NoTimer /\ UNCHANGED running

Next == \/ \E t \in Timers : Start(t) \/ Stop(t) \/ Expire(t)
        \/ Return

Spec == Init /\ [][Next]_<<running, serving>>
=============================================================================
