# A verification project for the road-side unit

The program (C, `src/`) is the firmware of a vehicle-to-everything unit. It
receives basic safety messages (BSM) and emergency messages (EVAM) of other
stations, keeps a table of neighbours, broadcasts its own BSMs, forwards other
stations' messages over several hops, and warns of dangers. This directory
holds TLA+ modules translated from that code, TLC configurations that check
them, and theorems about them with proofs checked by TLAPS.

`PROJECT.json` lists components, runs, mutants, hazards, findings and theorems,
and maps every definition to the source lines it stands for. Source comments
are in GBK; quotations in `PROJECT.json` are in UTF-8.

## 1. The system

### 1.1 Threads

| thread | created in | what it runs |
|---|---|---|
| vam (`t-vam`) | `vam_init` | `vam_main_proc` on messages of `queue_vam` (20 entries) |
| timer thread | `os_timer.c` | the callbacks of all osal timers, one after the other |
| receive thread | wnet / wifi driver | `fp_recv` -> LLC -> DSMP -> `rcp_parse_msg`, `mda_handle` |
| mda (`t-mda`) | `mda_init` | one round per tick of `timer_forward`, waits on `sem_mda` |
| gps | gps driver | reads sentences, queues `VAM_MSG_GPSDATA` |
| sys, hi | `sys_init` | start-up messages; LED and voice output |
| vsa-l, vsa-r | `vsa_init` | close range alerts every 100 ms; messages of `q-vsa`. `main` has the module's start commented out (`cv_sys_main.c:81-102`), `SYS_MSG_INITED` starts it |
| oam server, one per client | `oam_int_main.c` | management requests |
| CLI | `app/oam/agent/cli` | operator commands, calling the APIs of the others |

Threads share one global, `p_cms_envar`, and three kinds of glue: POSIX message
queues (sent to without waiting, so a full queue drops), semaphores, and timers.

### 1.2 Components

For each: state, operations, interactions, what is hard, what makes it correct.

**Neighbour table** (`cv_vam_vsm.c`, `cv_vam_rcp.c`, `cv_vam_api.c`, `list.h`).
State: the array `remote`, the lists `neighbour_list` and `sta_free_list`,
`neighbour_cnt`, `sem_sta`. Operations: `vam_find_sta` (receive thread) finds or
allocates a record, which `rcp_parse_bsm`/`rcp_parse_evam` fill in; `vam_update_sta`
(vam thread, every second) ages records and moves expired ones to the free list;
`vam_get_peer_*` read. Hard: the search takes no semaphore; the record is named,
counted and filled after the semaphore is released; the counter is updated by two
threads; the sweep tests a record's lives and then acts on them, while the receive
thread may renew it. Correct when: the lists stay two well-formed rings holding
every record once, locked walks stay on their list, a peer has one record, a lookup
ends, an abandoned table drains, the count is the list's length.

**BSM broadcast and GPS fix** (`cv_vam_main.c`, `cv_vam_vsm.c`, `cv_vam_lip.c`).
State: `p_vam->flag`, the timers `timer_send_bsm`, `timer_neigh_time`,
`timer_bsm_pause`, `timer_gps_life`, `queue_vam`. Operations: start and stop
messages, the timer callbacks, `vsm_pause_bsm_broadcast` on a received EVAM,
`vsm_update_bsm_bcast_timer` from the sweep and from GPS data. Hard: three
threads update `flag` with plain `|=` and `&=`; timers are stopped without
waiting for their callback; queue overflow drops. Correct when: started means
sending, stopped means silent, a pause holds back BSMs and ends, a lost fix is
noticed.

**Multi-hop forwarding** (`cv_vam_mda.c`). State: `rx_history_table`,
`forward_waiting_list` with delays kept as increments, `sem_forward`,
`sem_history`, transmit buffers. Operations: `mda_handle` (receive thread)
records a new frame, copies it and inserts it by delay, or cancels a waiting
copy; `forward_handler` and `history_handler` (mda thread) send and age. Hard:
insertion re-bases increments; the search for a copy to cancel is unlocked.
Correct when: a buffer has one owner until released once, a frame is recorded
once, no frame is late, every waiting frame leaves.

**OSAL timers** (`osal_timer.c`, `linux/os_timer.c`). State: a queue ordered by
expiry time, a thread, flags per timer. Operations: create, start, stop, set
time, delete, expire. Hard: a callback runs without the mutex while its timer is
stopped, restarted or deleted; an interval timer is requeued before its callback
runs; the thread waits on the real-time clock, which every regained GPS fix sets
to a whole second (`cv_vam_lip.c:111-118`, `cv_drv_rtc.c:193-198`), so forward or
back.
Correct when: the queue is ordered, an armed timer fires at its time and a
stopped one does not fire again, delete waits for a running callback.

**OSAL queues, semaphores, tasks.** Bounded queues; POSIX queues outlive a
restart. Correct when: bounded, first in first out, no stale messages.

**Wnet** (`cv_wnet_fp.c`, `_llc.c`, `_dsmp.c`). Header processing and transmit
and receive buffers. Correct when: each buffer is released exactly once.

**VSA** (`cv_vsa_main.c`). State: `alert_pend`, a bit per alert; `crd_list`, the
endangering vehicles with debouncing counters; the positions of all neighbours,
copied at the start of a round. Operations: t-vsa-l judges every neighbour once
per 100 ms and raises or withdraws the close range alerts; t-vsa-r does so for
what neighbours report, on messages of `q-vsa`, which the receive and the timer
thread put there; each change is told to t-sys through `q-sys`. Hard: both
threads change `alert_pend` with `|=` and `&=`; both queues drop when full and
survive a restart; a neighbour can leave between the copying of the pids and
the look-ups. Correct when: a pending alert has its cause, a lasting danger is
announced and a past one withdrawn, and what the driver was told last agrees
with `alert_pend`.

**OAM** (`app/oam/internal`, `external`, `cmn`). Server: accept loop, client
table, one thread per client. Client library: request records with semaphores,
a time limit, responses matched by id. Correct when: a response answers its own
request, records and client slots are given back, a client thread serves its
own socket.

**Left aside**: position and heading arithmetic (floating point), NMEA text,
parameters, LED and voice output, NTRIP, wifi and RTC drivers, the CLI framework,
debug output, sample and test programs, `library/` (third party), `Reference/`.

### 1.3 What the build decides

The target is ARM (arm-linux gcc, `-O2`): `flag |= x`, `cnt++`, `life--` are a
load and a store, and a whole word or byte is read or written at once.
`RSU_TEST` is not defined. `VAM_MDA_ENABLE` is defined as 0 but tested with
`#ifdef`, so forwarding is compiled in. Nothing sets `VAM_FLAG_TX_EVAM` or calls
`vsm_start_evam_broadcast`, and nobody sends `VAM_MSG_RCPRX`. The pause of the
broadcast happens when `bsm_pause_mode` is 2.

## 2. Modules

### VamNeighbour and PeerTable (instances: MCVamNeighbour; proofs: VamNeighbourProofs, VamWalkProofs)

The links `nxt`, `prv` of all records and of the two list heads are modelled as
stored; `ListMove`, `ListMoveTail` are `list.h`. The three threads have a program
counter each. The receive thread: `RxFrame` starts the scan, `RxHit`/`RxAdvance`
look at one record at a time without the semaphore, `RxAlloc` or `RxFull` is the
section under `sem_sta`, then `RxCountLoad`/`RxCountStore`, `RxPid`, `RxLife`,
`RxAlertLife`, `RxMask` are the writes in the code's order. The sweep: `SwTake`
takes the semaphore, `SwLoad`/`SwStore` and `SwLoadAlert`/`SwStoreAlert` age a record,
`SwTestAlert`, `SwTestMask` and `SwClear` are the test whether its alert is over and
the clearing of it, `SwTest` and `SwKick`, `SwUncount` the test whether the peer is
gone and its removal, then `SwRelease`, the empty-table reset and the period. Tests
and effects are apart since the receive thread writes lives and alert of a known
peer without the semaphore, at any moment in between. A reader:
`ApiTake`, `ApiAdvance`, `ApiRelease`. `home` is a history variable: the list a
record was last moved to. Contents other than pid, lives and alert mask are
abstracted. A `list_move` under the semaphore is one step.

`PeerTable` is what all this is to its users: a table of slots, each free or one
peer's, with lives and alert. `Shown` is the mapping: a record is its peer's while
it is on `neighbour_list`, except between its allocation and the writing of the
id. A record kicked while it is being filled in stays out of sight. `PeerTable`
keeps three weaknesses of the code: a peer just admitted shows what the slot held
before; ageing may undo a renewal; and what ageing found still takes effect when the
peer has been heard in between, so a live peer can be dropped and a fresh alert
wiped, of a slot that was found over just before (`ending`, `leaving`). `TableServes`
is the refinement; it maps these two to the record the sweep is about to act on.

### VamBroadcast (proofs: VamBroadcastProofs)

`flag` is the set of its bits, `armed` the running timers, `queue` the messages.
Every update of `flag` is a load (into `vamReg`, `tmrReg` or `rxReg`) and a
store; `torn` says whether the store uses the loaded value (the ARM build) or
the current one (atomic updates, a what-if that separates design from races).
`Request` is a call of `vam_start`, `vam_stop` or the GPS driver. `ChangePeriod` is
`vsm_update_bsm_bcast_timer`, which restarts the timer if the period changed;
whether it did depends on neighbours and speed and is left open. `Expire(t)` is
the timer thread taking a timer that is due; the callbacks follow step by step.
`stopped` and `passed` are history variables for the properties. The four timers are
written after `TimerService`, which `OsTimer` implements; that is how the module was
made and not a theorem, as nothing shows that `armed` allows all that the timer thread
may do. Left out is the branch of the BSM callback that counts down and clears
`VAM_FLAG_TX_BSM_ALERT` (`cv_vam_vsm.c:117-129`), one more writer of `flag`: the bit is
set by the vehicle's own alarms only, which are not modelled, so the branch is dead.

### TimerService and OsTimer (instances: MCOsTimer; proofs: OsTimerProofs)

`TimerService` is what users of osal timers rely on: `running` is the set of
timers between their start and their stop (for a one-shot timer, its expiry),
`serving` the timer whose callback runs. Only a running timer expires, one at a
time; `Stop` does not wait for the callback.

`OsTimer` is `os_timer.c`. `inuse`, `armed`, `millisec`, `interval` are fields of
a `timer_node`; `queue` is the thread's `timer_queue`; `Unlinked` is
`list_unlink_ip`, `Place`/`Enqueue` are `__timer_thread_queue_timer`. Times are
relative: `rem[t]` is the expiry time less the monotonic clock, so a `Tick` takes
one off for each queued timer, and a clock value that a thread holds (`now` of
`thread_func` and of `__timer_settime`) is kept as its age (`thAge`, `cAge`). The
times of the program are differences only, which makes this exact and keeps the
states finite. `wake` is what is left of the thread's wait on the real-time
clock; `ClockSet` is the setting of it by `gps_to_rtc`, forward or back by a member of
`Jumps`, and `back` is how far back it was set since the wait began, at most `MaxBack`.

The mutex is held for one step of a caller, and by the thread while it is at
`inner`: `ThRun` (reads the clock), `ThFire` (takes the first timer, requeues it if
periodic, calls back without the mutex), `ThReturn`, `ThSleep`. A call of several
critical sections is several steps: create is `Create` then `SetTime` or
`SetStopped`; start is `Start` (reads `millisec`), then `SetTime`, then `WakeUp` after
the mutex is released; change is `Change`, `SetPeriod`, `Start`...; delete waits in
`Deleted`. Callers are threads and `Self`, the timer thread in a callback. They
keep to the protocol the comments state: a timer is used between the return of
its creation and its deletion.

Refinement: `running` is the timers in use and armed, of the one-shot ones those
that are queued (firing does not clear `armed`); `serving` is `current`.
`TimersServe` states it.

### MdaForward and MdaInsert (instances: MCMdaForward; proofs: MdaForwardProofs, MdaInsertProofs)

`recMsg`, `recLife` are the history table, `list` the waiting buffers in order,
`bMsg`, `bLeft`, `bDelay` their fields. `RxFrame`..`RxRemove` follow `mda_handle`;
`TickEmpty`, `TickWaits`, `TickTakes`, `MdaSend`, `MdaAge` are a round of the mda
thread. A search that follows a freed buffer or a removal of one sets `broken`,
after which no step is taken: what follows is outside the program. `due` is a
history variable: the ticks a waiting frame may still take.

`MdaInsert` is the loop of `add_forward_list` on links, including the case where
`list_add` links a node next to itself. `InsertionByLinks` says that `RxAddFirst`
and `RxAddLoops` of `MdaForward` are what the loop does with a list. TLC evaluates
it for every list of up to three buffers with increments -2..4 at the start of the
runs of MCMdaForward (`InsertionChecked`); `MdaInsertProofs` proves it for all lists.

### OamLink, OamClient, OamServer, Oam and RequestReply (instances: MCOam; proofs: OamProofs)

`OamLink` is the TCP connection of each agent process: `link` is its end of it,
`up` and `down` the frames that have arrived and are not read. A frame carries
the number of a request and, as its data, who asked. Both sides handle the first
frame of what one `recv` returns and drop the rest (`After`).

`OamClient` is the library in the agent: `reqs` is `g_sdk_ctrl.req`, a record per
request under way with its semaphore, `reqNext` is `req_next`. The mutex
`g_sdk_ctrl.mutex` covers short sections, so a section is a step: a caller of
`cv_oam_sdk_api_request` allocates a record and sends (`Request`, or `TooMany`,
`SendFails`), wakes up (`Answered` or `TimedOut`) and releases it (`Return`); the
receive thread matches an answer with a record and posts (`Response`), or closes
the socket (`Shut`). Between `TimedOut` and `Return` the record is still in use.
The length check of `cv_oam_sdk_api_rsp` is `Fits`: the length of a record's
message changes its byte order with the first answer, so no second one fits.

`OamServer` is the accept loop and its threads. `sockfd` is the loop's
`client_sockfd`, of which each thread has the address: `Start` reads it for
receiving and `Receive` for answering. Descriptors are as the system gives them,
the lowest free one first, and a thread that was given another's descriptor closes
that (`Close`). `slotFd` and `clientCnt` stand for the client table, of which the
code uses the first entry's descriptor and the count.

`Oam` composes them: `Connect`, and `Exit`, an agent's end in the middle of
whatever it does. Left out: a `recv` that ends within a frame, interrupted calls,
byte order of the data, raw data and events (nothing sends them), the end of the
server process.

`RequestReply` is what a caller of `cv_oam_sdk_api_request` may rely on: from the call
to the return, and at no other time, its message is written; it takes one answer at
most, of its own process's requests the one to itself, and is OK only with an answer.
Records, semaphores and streams do not appear in it. It keeps two weaknesses of the
code: an answer meant for another process may come, and one that comes between the
time-out and the return turns the result from a time-out into OK. `RequestsKept` is
the refinement: `asked` is the number in the caller's record.

### VsaAlert (instances: MCVsaAlert; proofs: VsaAlertProofs)

`pend` is `alert_pend` as a set of alerts, `ccwId` and `ccwCnt` are the node each
peer has in `crd_list` (it never has two: `MayJoin` stands for both tests of
`ccw_add_list`), `view` is what the neighbour table and the geometry would say of
each peer, `reported` the alarms that concern this vehicle. `Preprocess` starts a
round of t-vsa-l with the positions of all neighbours (`lTodo`); a neighbour that
leaves in between makes a look-up fail unnoticed, so that its place holds the peer
before it once more (`Copies`). `AddWarning`, `DelWarning` are `ccw_add_list`,
`ccw_del_list` with the counting; `ClearAlert` the withdrawal when no neighbour is
left. `Receive` is t-vsa-r, `Hear` the event handler that compares what is
reported with `alert_pend` and sends a message if they differ. With `torn` an
update of `alert_pend` is a load and a later `LStore` or `RStore`, as on ARM; without,
one step. The message to t-sys is a further step in either case (`LTell`, `RTell`):
the code has two statements (`cv_vsa_main.c:483-484`, `979-983`), and the other threads
run between them. `Restart` is a new run of the process on the old queues.

`sysQ`, `told` and `unheard` follow what reaches t-sys, in the scenario with `followed`
only, which keeps the states few; what the driver is told feeds nothing back.
`AddSysEvent` queues the message or drops it: `q-sys` may be full at any time, because
others use it too. `unheard` is a history variable, the alerts whose last message was
dropped or was left in `q-sys` by a previous run. `told` is what t-sys last passed on to
the human interface; the code behind it that lights the lamps is compiled out (`#if 0`).
Left out: the
alarms this vehicle raises itself (keys and braking; they share `q-vsa` with the
others and nothing else), messages about VSA_ID_VOT, which t-vsa-r ignores.

## 3. Runs

Every run finishes in about three minutes or less with two workers.

| run | bounds | shows |
|---|---|---|
| neighbour | 2 records, 3 peers, lives 1, counter modulo 2 | the lists stay linked, no record is lost, locked walks stay on the list, one record per peer, the table is a PeerTable |
| neighbour_drains | 2 records, 1 peer | with no more frames the table ends empty and is known to be |
| neighbour_scan (violation) | 1 record, 2 peers | an unlocked lookup can loop for ever on the free list |
| broadcast | queue of 1, both values of `torn` | one BSM per pause; timer and bit agree; stop is final with atomic updates; a believed fix is watched and a lost one seen even with torn updates |
| broadcast_pause (violation) | atomic updates | a pause that expires while stopped never ends |
| broadcast_stop (violation) | torn updates | a lost update undoes a stop |
| timer | 1 periodic and 1 one-shot timer, 1 thread and callbacks that call, periods 1 and 2, lateness up to 2, the clock set by -1 or 1, back by at most 1 during a wait | the queue stays in order and holds armed timers once, no wakeup is lost, a wait is longer than it should be by what the clock was set back and no more, OsTimer implements TimerService, running timers are called again and again |
| oam | agents with 3 callers and with 1, 2 records, 2 requests per agent, 2 threads and descriptors | requests own their records, OAM_E_OK means an answer and not another request's, the count covers the open connections, the library is a RequestReply |
| oam_answer (violation) | as oam | an answer goes to the agent that connected last |
| vsa | two peers dangerous in one way, or one in two ways, the latter also torn; one alarm, debouncing 1, queues of 1, one restart | causes, announcements, withdrawals and what the driver is told, through overlapping updates, dropped messages, messages sent after the update they tell of, and a restart |
| forward | 3 frames, 2 records, 3 buffers, delays 0..2, hops 0, 1, 3 | one owner per buffer, one record per frame, no frame late |
| forward_loop (violation) | 2 frames, 2 buffers | the insertion loop never ends, frames stop leaving |

Why these bounds are enough to be interesting. Neighbour: there are more peers than
records, so the free list runs dry; lives of one expire at each sweep, in the middle
of any other operation; the counter wraps below zero after a single lost update, as
0 - 1 = 255 does. Broadcast: a queue of one entry is always either empty or full, so
each message is both accepted and dropped in some run. Longer queues add only delay
between sending and handling; the safety part was also explored with two entries.
Timers: two timers can be in either order or due together, periods of 1 and 2 with
lateness of 2 make a periodic timer miss a whole interval, and a callback and a
thread can call at once; `MaxLate` bounds how late anything runs (`InTime` stops
time until it has run), as threads may be late by any amount; the lateness that a
clock set back adds to a wait does not count. How far a set clock goes beyond a wait
is cut at the same bound, how far it is set back during a wait at `MaxBack`, without
which a wait need never end. Management: one caller more than records, so the table
fills up; two requests per agent, so an answer can come late, to a record that is
used again; answers of equal and of different length; a descriptor that is closed
and given out again. Alerts: two peers are needed for one to be the cause when the
other leaves, and for a look-up that fails to repeat another peer; two kinds of
danger, for a peer that is listed for one and now poses the other; queues of one are
full in the middle of anything, and a restart finds them empty or full; a debouncing
count of 1 has the same three cases (absent, counting, enough) as the program's.
Torn updates are explored for one peer, where t-vsa-l and t-vsa-r still overlap at
every step; what the driver is told is followed for one peer of one danger, one
alarm and a queue of one, where each message is queued, dropped or left over from a
previous run. Forwarding: one more frame than records, so live records are replaced;
delay 0, equal and different delays; hops 0 (which wraps to 255), 1 (used up) and 3.

`CHECK_DEADLOCK FALSE` for forwarding: when the heap is broken or the receive
thread loops, the model (or program) really may stop. And for oam: agents end, and
the bound on their requests is reached.

### Fairness

A thread that can run eventually runs: weak fairness per thread. Semaphores wake
a waiter at the next release, and the sweep is queued every second: strong
fairness of `SwTake` and `RxAlloc`. The pause timer is started again only by a
further EVAM and the GPS timer only by a GPS message; timers are served in order
of expiry, so each fires if it stays armed: strong fairness of those two.
In OsTimer the timer thread runs, callers compete with it for the mutex and get
it in the end (strong fairness), a callback returns although it may call, and
time goes on; with these alone `Served` says no running timer is starved, as long as
the clock is not set back without bound during one wait.
In VsaAlert the two threads go on (`tm-pos` releases t-vsa-l every 100 ms), and the
handler is called again and again for an alarm while it is reported: a reporting peer
repeats it in each frame. Nothing more is assumed of the handler. When peers fall
silent, the sweep clears the mask and calls it once (`cv_vam_vsm.c:312-338`); BSMs
without the safety extension do not call it (`cv_vam_rcp.c:387-395`) and EVAMs never
do. So `AlarmFollows` has two halves: a reported alarm becomes pending again and again
without further ado, and one no longer reported is withdrawn if the handler keeps
being called, by frames of a peer whose extension does not report it. Without that
premise TLC finds the withdrawal violated: a stop that meets a full `q-vsa`, or a start
queued before it, leaves the alert on and nothing repeats the stop. t-sys owes nothing.
`AlertsWithdrawn` holds with atomic updates only: a store of t-vsa-r can bring back
a bit t-vsa-l has just cleared, and nothing is left in `crd_list` to clear it
again. Both it and `DangerAnnounced` speak of a table that settles, as a failed
look-up counts another peer twice.
Nothing is assumed of the BSM timer: a change of speed restarts it
(`cv_vam_vsm.c:163`), and restarts can starve it. No fairness of requests and
received frames: the environment owes nothing.

### Findings

1. `vam_find_sta` can follow a kicked record onto the free list and never return
   (`LookupEnds`).
2. An EVAM, a stop, the pause's time-out and a start leave the broadcast on and
   paused for good (`PauseEnds`).
3. A stop can be undone by the pause time-out's overlapping store
   (`StopSilences`).
4. A frame whose delay is not shorter than the first waiting one's makes
   `add_forward_list` loop with `sem_forward` held (`EveryFrameLeaves`); that it does
   so on every list is a theorem (`InsertionIsByLinks`).
5. A thread of the management server answers on the descriptor that was accepted
   last, so an agent can get another's answers and never its own
   (`AnswersTheAsker`).

## 4. Proofs

Theorems hold for every value of the constants that meets the modules' named
assumptions (finite set of records, distinct names, positive sizes).

**VamNeighbourProofs.** `TableInv`, inductive, is the conjunction of
  - `TypeOK`, `WellLinked`;
  - `LockOK`: whose turn the semaphore says it is;
  - `LockedWalksStay`, `SweepOK`: where the sweep's cursor and record are;
  - `UniquePids`;
  - the existence of a ranking of the cells that increases along each list
    (`Ranked`) and of which an unlocked scan in progress has, on
    `neighbour_list`, passed only records not of the wanted peer (`Searched`).

The ranking is the strengthening that matters: a scan without a semaphore misses
no record of the wanted peer, because records are inserted at the head by the
scanning thread only and only removals happen meanwhile. A scan that strayed to
the free list never reaches `RxMiss`, which is why it allocates no duplicate.
From `TableInv` follow `TypeCorrect`, `ListsStayLinked`, `WalksStay` and
`OneRecordPerPeer`.

`TableImplements` shows each step to be a step of `PeerTable` or a stutter, with two
further invariants: `Filling` (a record being filled in has its sender's id, and its
fields are written as its message's kind demands) and `Ageing` (the counts the sweep
has loaded are not above the record's: it may undo a renewal, but cannot prolong a
life). The sweep's tests map to `FindAlertOver` and `FindGone`, what it does on them
to `CancelAlert` and `Drop`, whatever was written to the record in between. `Admit`
needs `Searched`: no other record in view is the peer's.

**VamWalkProofs.** `NoRecordIsLost` follows from `TableInv`, but not at once: `Walk`
is defined by recursion, and linked cells alone say nothing of what a walk reaches.
`StepsExist` and `WalkSteps` show that the walk is as many steps along `nxt` as there
are cells. `StepsStay` keeps the steps on their list. `StepsClimb` says that steps
which have not met record `m` climb through the ranks below that of `m`; they would
then visit more different records than there are (`StepsMeet`, by the pigeonhole
theorem of the library). Each of these is shown with the least step that would be an
exception (`LeastNumber`), which replaces an induction over the steps.

**VamBroadcastProofs.** `TypeCorrect`, `TimerRuns` (`TimerFollowsFlag` is
inductive once types are known) and `OnePassPerPause`. The last one's invariant
says that while a pause is in force and the timer thread stands between its test
of the flag and its queueing, nothing has been queued in that pause yet; it
holds with torn updates too, since a store that drops the bit ends the pause.

`StopIsFinal` says that a stop holds; its invariant is
that after a stop no start is under way and, with atomic updates, the bit is clear;
the timer itself may well run again. `FixIsWatched` needs every copy of the flag in
its invariant (`WatchInv`): a thread that stores an old copy brings back a fix only
if the timer that doubts it runs.

**OsTimerProofs.** `TimerInvariant`, inductive, is the conjunction of
  - types, and `QueueOK`: the queue holds a timer once, in order of expiry;
  - `NodesOK`: queued timers are in use, armed, and have no interval just if they
    are one-shot (`ThFire` decides by the interval whether to queue again, so
    without this a fired one-shot timer could come back);
  - `CallsOK`: a call is about a timer in use, and who creates or deletes it is
    alone on it. A call of several critical sections is not protected by the
    mutex between them; this conjunct is what makes its next section, which
    queues the timer, find it still in use;
  - `ThreadOK`: `current` is set just while a callback runs.

The work is in the lemmas on the queue: `PlaceFound` (the insertion loop stops at
one place), `EnqueueQueue` (order, contents and new first timer after insertion,
from the library's facts on subsequences) and `UnlinkedQueue`. From the invariant
follow `TypeCorrect` and `QueueStaysSorted`; with it `NoLostWakeup` shows
`WakesInTime` inductive, whatever the `Jumps`: `wake` and `back` grow together when
the clock is set back, and when it is set forward `wake` falls by at least as much
as `back`. What does not hold is the comment's "wait until the expiry time of the
first node" (`os_timer.c:544-545`): the wait is on the real-time clock, and each
time that is set back, by the fraction of a second a GPS fix cuts off, say, the
timers are late by as much (`WakesInTime` with `back` left out is violated at once).
`ServesTimers` shows that every step is a step of `TimerService` or a stutter.

**OamProofs.** `OamInvariant`, inductive, is the conjunction of
  - types, and `RecordsOwned`;
  - `FramesSound`: a frame under way (in a stream, or in the hands of a server
    thread) has a number its process has given out, and if a record in use has
    that number, the record is the frame's caller's;
  - `NumbersGiven`: records in use have numbers given out;
  - `AnswersOK`: what a message holds is the answer to its record's request, if it
    is from its process at all, and whoever was posted has one.

`FramesSound` is what a late answer depends on: the number is all that is compared,
and a record is used again while answers to its former request are under way.
`RecordsMoveOn` says what the client's steps do to records, and `StaysSound` that
frames stay sound under it. From the invariant follow `TypeCorrect`,
`RequestsOwnRecords` and `OkMeansAnswered`. The last one says no more about answers
from other processes than the code guarantees, which is nothing (finding 5).
`CountIsEnough` needs an invariant of its own: the count covers the open
connections together with the descriptor accepted last, which `AddClient` does
not count again.

`RequestsAreKept` maps each step of agents and server to one of `RequestReply` or to a
stutter. `Ask` needs `NumbersGiven`, as a new number must differ from those under
way; `Reply` needs `RecordsOwned`, so that the record found is that of a caller still
waiting, and the soundness of the frame; `Wake` needs `AnswersOK`.

Numbers are not reused in the model (`MaxId` of them, any number); the program
reuses one after 2^32 requests.

**MdaForwardProofs.** `MdaInv`, inductive, is the conjunction of
  - types in parts (`RecOK`, `ListOK`, `BufOK`, `RxOK`, `MdaOK`), with what each
    thread holds at each point;
  - `Owned`: a free buffer has no owner, another exactly one;
  - `Fresh` and `OneRecord`: the frame about to be recorded has no live record,
    since the mda thread only ages records in between;
  - `OnTime`: there are departure ticks `w` for the waiting frames, one after the
    other (`Apart`), that the increments keep (`Covers`) and that are early enough
    (`Soon`), a schedule (`Spaced`).

The schedule is the strengthening that matters. The sum of the increments before a
frame is not its waiting time: an increment can be negative, because a frame put
first takes its delay off all the others and not off the next one only, and a
removed frame takes its increment with it; yet each frame ahead costs a tick of its
own. `SpacedAdded`, `SpacedWithout` and `SpacedTicked` give the new schedule after a
frame is put first, is taken or cancelled, and after a tick. From the invariant
follow `TypeCorrect`, `OneOwnerPerBuffer`, `RecordsUnique` and `FramesOnTime`. They
speak of runs up to a use of a released buffer (`broken`), which ends them.

**MdaInsertProofs.** `InsertionIsByLinks` says that the loop of `add_forward_list`,
with its links and fields, ends on every list as `RxAddFirst` or `RxAddLoops` say.
`Loop` is a recursive function of the number of rounds; `RoundsExist` and
`LoopRounds` give its equation, by the least number of rounds for which there is
none. A frame with a shorter delay is linked in front in the first round, and
`Passed` says that after k rounds its delay is off the first k buffers, so the loop
ends at the head (`ShorterIsFirst`). With any other delay the frame is linked behind
the first buffer, so the loop comes to it, and links it next to itself: `Caught`
holds from the second round on (`LongerLoops`). Both are by the least round at which
they fail.

**VsaAlertProofs.** `CauseInv`, inductive, is the conjunction of `TypeOK`, `Atomic`
(without torn updates no store is outstanding) and `PendingHasCause`. It needs no
more, since with atomic updates t-vsa-l alone touches the close range bits and
`crd_list`. `DriverInformed` shows `DriverFollows` on top of it. Update and message
being two steps, the proof follows whose message is in hand: t-vsa-l updates close
range alerts only and t-vsa-r alarms only (`OwnersSay`), so that no other update of
the same alert comes between an update and its message (`UpdateSays`,
`UpdateKeeps`); the message when it is sent becomes the last word, or its alert
joins `unheard` (`SendSettles`), and leaves the last word about the others alone
(`SendKeeps`, `LastWordAppend`); `LastWordTail` says that t-sys taking a message
changes no last word.

Model-checked only: all liveness properties (`Drains`, `GpsLossSeen`, `Served`,
`DangerAnnounced`, `AlertsWithdrawn`, `AlarmFollows`). They rest on fairness, so on
when actions are enabled, which the prover does not reason about. Every safety
property of a passing run is also a theorem. TLC's instance of Oam reaches neither
the link states "reset" and "shut" nor the closing of a descriptor that is another
connection's; of these only the proofs speak.

## 5. Not modelled

Position, heading and delay arithmetic (floating point): delays are arbitrary
within their bound. Message fields that no property reads. Start-up order: tasks
are created before the semaphores they take. Failed allocation. The alarms the
vehicle raises itself. The receive buffers of the lower layers (`fp_recv` leaks one
for every frame of an unknown type) and the ring of sentence buffers of the GPS
driver. `PROJECT.json` gives a reason per component and per uncovered hazard.

Most of the repository's lines are not this program's logic and are left alone:
third-party headers and sources (`library/`: openssl, libnl, readline; `nl80211.h`,
`ieee802_11_defs.h`, `radiotap.*`), the command line framework (`vty.c`, `command.c`,
`vtysh.c`, a copy of a routing suite's, of which the program uses one command set),
the NTRIP client and the serial, RTC and wifi drivers, which pass bytes between
devices without a protocol state of their own.

## 6. Plan

Written, in this order: VamNeighbour, its proofs, VamBroadcast, its proofs,
MdaForward with MdaInsert, TimerService and OsTimer, its proofs, Oam and its
modules, its proofs, VsaAlert, its proofs, the proofs of MdaForward, VamWalkProofs,
PeerTable and RequestReply with the refinements to them, MdaInsertProofs.

Next, most important first:

1. Composition of VamBroadcast with the neighbour sweep (period and counter).
2. The GPS driver's ring of sentences against the messages that point into it.
3. The vehicle's own alarms: keys, braking, and the EVAMs they would start.
4. Wnet's receive buffers.
