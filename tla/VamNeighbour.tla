---------------------------- MODULE VamNeighbour ----------------------------
(***************************************************************************)
(* The neighbour table of the VAM module (app/vam): a fixed array of       *)
(* station records linked either on neighbour_list or on sta_free_list,    *)
(* shared by                                                               *)
(*                                                                         *)
(*  - the receive thread (driver -> FP -> LLC -> DSMP -> rcp_parse_msg),   *)
(*    which looks a sender up with vam_find_sta, links a free record when  *)
(*    the sender is unknown, and then fills the record in;                 *)
(*  - the vam thread, which once a second ages every record and moves the  *)
(*    expired ones back to the free list (vam_update_sta);                 *)
(*  - the callers of the vam_get_peer_* functions.                         *)
(*                                                                         *)
(* sem_sta guards the links, but vam_find_sta scans neighbour_list without *)
(* it and the record is filled in after it was released.  Each thread is   *)
(* split into steps accordingly.  The target is an ARM build, so counter   *)
(* updates such as neighbour_cnt++ and life-- are a load and a store, and  *)
(* the sweep's tests are apart from what it does on them: the receive      *)
(* thread writes a record's lives and alert at any moment in between.  A   *)
(* list_move is one step here: its four stores are made by a thread that   *)
(* holds sem_sta, and the order in which an unlocked scan sees them adds   *)
(* no cell it could stray to.                                              *)
(***************************************************************************)
EXTENDS Naturals, FiniteSets

CONSTANTS
  Nodes,      \* the records remote[VAM_NEIGHBOUR_MAXNUM]
  NH,         \* &p_vam->neighbour_list
  FH,         \* &p_vam->sta_free_list
  Pids,       \* temporary ids of the peers (never the local pid)
  NoPid,      \* the all-zero id a record holds after the memset in vam_init
  MaxLife,    \* VAM_NEIGHBOUR_MAXLIFE
  AlertLife,  \* VAM_REMOTE_ALERT_MAXLIFE
  CntMod,     \* 256: neighbour_cnt is a uint8_t
  CrowdAt     \* 50: above it the broadcast period becomes 200 ms

ASSUME NodesAssumption == IsFiniteSet(Nodes) /\ NH \notin Nodes /\ FH \notin Nodes /\ NH # FH
ASSUME PidsAssumption  == NoPid \notin Pids
ASSUME LifeAssumption  == MaxLife \in Nat \ {0} /\ AlertLife \in Nat \ {0}
ASSUME CountAssumption == CntMod \in Nat \ {0} /\ CrowdAt \in Nat

VARIABLES
  nxt, prv,   \* the links of every record and of the two list heads
  home,       \* history: the head of the list a record was last moved to
  pid,        \* vam_stastatus_t.pid of each record
  life, alertLife, mask,   \* the record's life, alert_life, alert_mask # 0
  cnt,        \* p_vam->neighbour_cnt
  sem,        \* holder of sem_sta: "none", "vam" or "api"
  got,        \* the static gotNeighbour of vam_update_sta
  crowded,    \* the broadcast timer runs with the 200 ms period
  rxPc, rxMsg, rxPos, rxTmp,   \* receive thread: pos / p_sta, loaded counter
  swPc, swPos, swNode, swLife, swAlert, swCnt, swEmpty,   \* vam_update_sta
  apiPc, apiPos, apiPid        \* a vam_get_peer_* caller

listVars == <<nxt, prv, home>>
recVars  == <<pid, life, alertLife, mask>>
rxVars   == <<rxPc, rxMsg, rxPos, rxTmp>>
swVars   == <<swPc, swPos, swNode, swLife, swAlert, swCnt, swEmpty>>
apiVars  == <<apiPc, apiPos, apiPid>>
vars == <<listVars, recVars, cnt, sem, got, crowded, rxVars, swVars, apiVars>>

Cells == Nodes \cup {NH, FH}

(***************************************************************************)
(* What the receive thread is handed: a BSM, a BSM with the safety         *)
(* extension, or an EVAM; alert is alert_mask # 0 as decoded.              *)
(***************************************************************************)
Messages ==
  { m \in [from : Pids, kind : {"bsm", "ext", "evam"}, alert : BOOLEAN] :
      m.kind = "bsm" => ~m.alert }

NoMsg == [from |-> NoPid, kind |-> "bsm", alert |-> FALSE]

(***************************************************************************)
(* list.h.  Unlink is __list_del, LinkBetween is __list_add.               *)
(***************************************************************************)
UnlinkNxt(n) == [nxt EXCEPT ![prv[n]] = nxt[n]]
UnlinkPrvForgotten(n) == prv   \* without next->prev = prev
UnlinkPrv(n) == [prv EXCEPT ![nxt[n]] = prv[n]]

\* list_move(n, h): the record becomes the first of h
ListMove(n, h) ==
  LET q == UnlinkNxt(n)[h]
  IN  /\ nxt' = [UnlinkNxt(n) EXCEPT ![n] = q, ![h] = n]
      /\ prv' = [UnlinkPrv(n) EXCEPT ![q] = n, ![n] = h]
      /\ home' = [home EXCEPT ![n] = h]

\* list_move_tail without the __list_del: the record stays linked where it was
ListMoveTailNoDel(n, h) ==
  LET p == prv[h]
  IN  /\ nxt' = [nxt EXCEPT ![n] = h, ![p] = n]
      /\ prv' = [prv EXCEPT ![h] = n, ![n] = p]
      /\ home' = [home EXCEPT ![n] = h]

\* list_move_tail(n, h): the record becomes the last of h
ListMoveTail(n, h) ==
  LET p == UnlinkPrv(n)[h]
  IN  /\ nxt' = [UnlinkNxt(n) EXCEPT ![n] = h, ![p] = n]
      /\ prv' = [UnlinkPrv(n) EXCEPT ![h] = n, ![n] = p]
      /\ home' = [home EXCEPT ![n] = h]
-----------------------------------------------------------------------------
(***************************************************************************)
(* vam_init: every record on the free list, in array order, memset to 0.   *)
(* Order is any numbering of the records.                                  *)
(***************************************************************************)
Order == CHOOSE f \in [Nodes -> 1 .. Cardinality(Nodes)] :
           /\ \A m, n \in Nodes : f[m] = f[n] => m = n
           /\ \A i \in 1 .. Cardinality(Nodes) : \E n \in Nodes : f[n] = i
NodeAt(i) == CHOOSE n \in Nodes : Order[n] = i
CellAt(i) == IF i \in 1 .. Cardinality(Nodes) THEN NodeAt(i) ELSE FH

Init ==
  /\ nxt = [c \in Cells |-> IF c = NH THEN NH
                            ELSE IF c = FH THEN CellAt(1)
                            ELSE CellAt(Order[c] + 1)]
  /\ prv = [c \in Cells |-> IF c = NH THEN NH
                            ELSE IF c = FH THEN CellAt(Cardinality(Nodes))
                            ELSE CellAt(Order[c] - 1)]
  /\ home = [n \in Nodes |-> FH]
  /\ pid = [n \in Nodes |-> NoPid]
  /\ life = [n \in Nodes |-> 0]
  /\ alertLife = [n \in Nodes |-> 0]
  /\ mask = [n \in Nodes |-> FALSE]
  /\ cnt = 0 /\ sem = "none" /\ got = FALSE /\ crowded = FALSE
  /\ rxPc = "idle" /\ rxMsg = NoMsg /\ rxPos = NH /\ rxTmp = 0
  /\ swPc = "idle" /\ swPos = NH /\ swNode = NH
  /\ swLife = 0 /\ swAlert = 0 /\ swCnt = 0 /\ swEmpty = TRUE
  /\ apiPc = "idle" /\ apiPos = NH /\ apiPid = NoPid
-----------------------------------------------------------------------------
(***************************************************************************)
(* Receive thread: rcp_parse_bsm and rcp_parse_evam around vam_find_sta.   *)
(***************************************************************************)
RxUnchanged == UNCHANGED <<sem, got, crowded, swVars, apiVars>>

\* the scan begins at the second record
RxFrameSkipsFirst ==
  /\ rxPc = "idle"
  /\ rxMsg' \in Messages
  /\ rxPos' = IF nxt[NH] = NH THEN NH ELSE nxt[nxt[NH]]
  /\ rxPc' = "scan"
  /\ UNCHANGED <<listVars, recVars, cnt, rxTmp>> /\ RxUnchanged

\* a frame arrives; list_for_each_entry starts at neighbour_list.next
RxFrame ==
  /\ rxPc = "idle"
  /\ rxMsg' \in Messages
  /\ rxPos' = nxt[NH]
  /\ rxPc' = "scan"
  /\ UNCHANGED <<listVars, recVars, cnt, rxTmp>> /\ RxUnchanged

FirstWrite == IF rxMsg.kind = "evam" THEN "alertLife" ELSE "life"

\* the scan compares any cell but neighbour_list itself; the bytes after the
\* free list's head are a pointer and never equal a peer's id
Matches(c) == c \in Nodes /\ pid[c] = rxMsg.from

RxHit ==
  /\ rxPc = "scan" /\ rxPos # NH /\ Matches(rxPos)
  /\ rxPc' = FirstWrite
  /\ UNCHANGED <<listVars, recVars, cnt, rxMsg, rxPos, rxTmp>> /\ RxUnchanged

RxAdvance ==
  /\ rxPc = "scan" /\ rxPos # NH /\ ~Matches(rxPos)
  /\ rxPos' = nxt[rxPos]
  /\ UNCHANGED <<listVars, recVars, cnt, rxPc, rxMsg, rxTmp>> /\ RxUnchanged

RxMiss ==
  /\ rxPc = "scan" /\ rxPos = NH
  /\ rxPc' = "alloc"
  /\ UNCHANGED <<listVars, recVars, cnt, rxMsg, rxPos, rxTmp>> /\ RxUnchanged

\* without the list_empty test
RxAllocUnchecked ==
  /\ rxPc = "alloc" /\ sem = "none"
  /\ ListMove(nxt[FH], NH)
  /\ rxPos' = nxt[FH]
  /\ rxPc' = "count"
  /\ UNCHANGED <<recVars, cnt, rxMsg, rxTmp>> /\ RxUnchanged

\* takes sem_sta, links the first free record, releases sem_sta
RxAlloc ==
  /\ rxPc = "alloc" /\ sem = "none" /\ nxt[FH] # FH
  /\ ListMove(nxt[FH], NH)
  /\ rxPos' = nxt[FH]
  /\ rxPc' = "count"
  /\ UNCHANGED <<recVars, cnt, rxMsg, rxTmp>> /\ RxUnchanged

RxIdle == /\ rxPc' = "idle" /\ rxMsg' = NoMsg /\ rxPos' = NH

\* no free sta
RxFull ==
  /\ rxPc = "alloc" /\ sem = "none" /\ nxt[FH] = FH
  /\ RxIdle
  /\ UNCHANGED <<listVars, recVars, cnt, rxTmp>> /\ RxUnchanged

RxCountLoad ==
  /\ rxPc = "count"
  /\ rxTmp' = cnt
  /\ rxPc' = "count2"
  /\ UNCHANGED <<listVars, recVars, cnt, rxMsg, rxPos>> /\ RxUnchanged

RxCountStore ==
  /\ rxPc = "count2"
  /\ cnt' = (rxTmp + 1) % CntMod
  /\ rxTmp' = 0
  /\ rxPc' = "pid"
  /\ UNCHANGED <<listVars, recVars, rxMsg, rxPos>> /\ RxUnchanged

RxPid ==
  /\ rxPc = "pid"
  /\ pid' = [pid EXCEPT ![rxPos] = rxMsg.from]
  /\ rxPc' = FirstWrite
  /\ UNCHANGED <<listVars, life, alertLife, mask, cnt, rxMsg, rxPos, rxTmp>>
  /\ RxUnchanged

\* p_sta->life = VAM_NEIGHBOUR_MAXLIFE (BSM only)
RxLife ==
  /\ rxPc = "life"
  /\ life' = [life EXCEPT ![rxPos] = MaxLife]
  /\ IF rxMsg.kind = "ext"
       THEN rxPc' = "alertLife" /\ UNCHANGED <<rxMsg, rxPos>>
       ELSE RxIdle
  /\ UNCHANGED <<listVars, pid, alertLife, mask, cnt, rxTmp>> /\ RxUnchanged

RxAlertLife ==
  /\ rxPc = "alertLife"
  /\ alertLife' = [alertLife EXCEPT ![rxPos] = AlertLife]
  /\ rxPc' = "mask"
  /\ UNCHANGED <<listVars, pid, life, mask, cnt, rxMsg, rxPos, rxTmp>>
  /\ RxUnchanged

RxMask ==
  /\ rxPc = "mask"
  /\ mask' = [mask EXCEPT ![rxPos] = rxMsg.alert]
  /\ RxIdle
  /\ UNCHANGED <<listVars, pid, life, alertLife, cnt, rxTmp>> /\ RxUnchanged

\* the receive thread's own steps; a frame is the environment's
RxStep == \/ RxHit \/ RxAdvance \/ RxMiss \/ RxAlloc \/ RxFull
          \/ RxCountLoad \/ RxCountStore \/ RxPid
          \/ RxLife \/ RxAlertLife \/ RxMask
-----------------------------------------------------------------------------
(***************************************************************************)
(* vam thread: vam_update_sta on VAM_MSG_NEIGH_TIMEOUT.                    *)
(***************************************************************************)
SwUnchanged == UNCHANGED <<rxVars, apiVars>>

SwTake ==
  /\ swPc = "idle" /\ sem = "none"
  /\ sem' = "vam"
  /\ swPos' = nxt[NH] /\ swEmpty' = TRUE
  /\ swPc' = "load"
  /\ UNCHANGED <<listVars, recVars, cnt, got, crowded>>
  /\ UNCHANGED <<swNode, swLife, swAlert, swCnt>> /\ SwUnchanged

\* p_sta_node = pos without prefetching pos->next: the cursor stays behind
SwLoadNoPrefetch ==
  /\ swPc = "load" /\ swPos # NH
  /\ swEmpty' = FALSE /\ got' = TRUE
  /\ swNode' = swPos /\ UNCHANGED swPos
  /\ swLife' = life[swPos]
  /\ swPc' = "store"
  /\ UNCHANGED <<listVars, recVars, cnt, sem, crowded, swAlert, swCnt>>
  /\ SwUnchanged

\* takes a record, prefetches its successor, loads life
SwLoad ==
  /\ swPc = "load" /\ swPos # NH
  /\ swEmpty' = FALSE /\ got' = TRUE
  /\ swNode' = swPos /\ swPos' = nxt[swPos]
  /\ swLife' = life[swPos]
  /\ swPc' = "store"
  /\ UNCHANGED <<listVars, recVars, cnt, sem, crowded, swAlert, swCnt>>
  /\ SwUnchanged

\* the last second of a life is never counted down
AgedButLast(f, old) == IF old > 1 THEN [f EXCEPT ![swNode] = old - 1] ELSE f

Aged(f, old) == IF old > 0 THEN [f EXCEPT ![swNode] = old - 1] ELSE f

SwOnly == UNCHANGED <<listVars, pid, cnt, sem, got, crowded, swPos, swCnt, swEmpty>>

SwStore ==
  /\ swPc = "store"
  /\ life' = Aged(life, swLife)
  /\ swLife' = 0
  /\ swPc' = "loadAlert"
  /\ UNCHANGED <<alertLife, mask, swNode, swAlert>> /\ SwOnly /\ SwUnchanged

SwLoadAlert ==
  /\ swPc = "loadAlert"
  /\ swAlert' = alertLife[swNode]
  /\ swPc' = "storeAlert"
  /\ UNCHANGED <<life, alertLife, mask, swNode, swLife>> /\ SwOnly /\ SwUnchanged

SwStoreAlert ==
  /\ swPc = "storeAlert"
  /\ alertLife' = Aged(alertLife, swAlert)
  /\ swAlert' = 0
  /\ swPc' = "testAlert"
  /\ UNCHANGED <<life, mask, swNode, swLife>> /\ SwOnly /\ SwUnchanged

\* the two loads of the test whether one neighbour's alert is over
SwTestAlert ==
  /\ swPc = "testAlert"
  /\ swPc' = IF alertLife[swNode] = 0 THEN "testMask" ELSE "test"
  /\ UNCHANGED <<life, alertLife, mask, swNode, swLife, swAlert>>
  /\ SwOnly /\ SwUnchanged

SwTestMask ==
  /\ swPc = "testMask"
  /\ swPc' = IF mask[swNode] THEN "clear" ELSE "test"
  /\ UNCHANGED <<life, alertLife, mask, swNode, swLife, swAlert>>
  /\ SwOnly /\ SwUnchanged

\* alert_mask = 0, whatever was received since the test
SwClear ==
  /\ swPc = "clear"
  /\ mask' = [mask EXCEPT ![swNode] = FALSE]
  /\ swPc' = "test"
  /\ UNCHANGED <<life, alertLife, swNode, swLife, swAlert>>
  /\ SwOnly /\ SwUnchanged

\* a peer goes as soon as either life ran out
ExpiredEither(n) == life[n] = 0 \/ alertLife[n] = 0

\* (one step: alert_life, read last, decides, and 0 it was before)
Expired(n) == life[n] = 0 /\ alertLife[n] = 0

SwTest ==
  /\ swPc = "test"
  /\ \/ Expired(swNode) /\ swPc' = "kick" /\ UNCHANGED swNode
     \/ ~Expired(swNode) /\ swPc' = "load" /\ swNode' = NH
  /\ UNCHANGED <<life, alertLife, mask, swLife, swAlert>> /\ SwOnly /\ SwUnchanged

\* the record goes to the tail of the free list, renewed in between or not
SwKick ==
  /\ swPc = "kick"
  /\ ListMoveTail(swNode, FH)
  /\ swCnt' = cnt
  /\ swNode' = NH /\ swPc' = "uncount"
  /\ UNCHANGED <<recVars, cnt, sem, got, crowded>>
  /\ UNCHANGED <<swPos, swLife, swAlert, swEmpty>> /\ SwUnchanged

SwUncount ==
  /\ swPc = "uncount"
  /\ cnt' = (swCnt + CntMod - 1) % CntMod
  /\ swCnt' = 0
  /\ swPc' = "load"
  /\ UNCHANGED <<listVars, recVars, sem, got, crowded>>
  /\ UNCHANGED <<swPos, swNode, swLife, swAlert, swEmpty>> /\ SwUnchanged

SwRelease ==
  /\ swPc = "load" /\ swPos = NH
  /\ sem' = "none"
  /\ swPc' = "reset"
  /\ UNCHANGED <<listVars, recVars, cnt, got, crowded>>
  /\ UNCHANGED <<swPos, swNode, swLife, swAlert, swCnt, swEmpty>> /\ SwUnchanged

\* neighbour list turn to empty
SwReset ==
  /\ swPc = "reset"
  /\ IF got /\ swEmpty THEN got' = FALSE /\ cnt' = 0
                       ELSE UNCHANGED <<got, cnt>>
  /\ swPc' = "period"
  /\ UNCHANGED <<listVars, recVars, sem, crowded>>
  /\ UNCHANGED <<swPos, swNode, swLife, swAlert, swCnt, swEmpty>> /\ SwUnchanged

\* vsm_update_bsm_bcast_timer in the fixed-period mode
SwPeriod ==
  /\ swPc = "period"
  /\ crowded' = (cnt > CrowdAt)
  /\ swEmpty' = TRUE
  /\ swPc' = "idle"
  /\ UNCHANGED <<listVars, recVars, cnt, sem, got>>
  /\ UNCHANGED <<swPos, swNode, swLife, swAlert, swCnt>> /\ SwUnchanged

SwStep == \/ SwLoad \/ SwStore \/ SwLoadAlert \/ SwStoreAlert
          \/ SwTestAlert \/ SwTestMask \/ SwClear \/ SwTest \/ SwKick \/ SwUncount
          \/ SwRelease \/ SwReset \/ SwPeriod
-----------------------------------------------------------------------------
(***************************************************************************)
(* vam_get_peer_status, vam_get_peer_current_status, vam_set_peer_cnt: a   *)
(* scan for one id under sem_sta.                                          *)
(***************************************************************************)
ApiUnchanged ==
  UNCHANGED <<listVars, recVars, cnt, got, crowded, rxVars, swVars>>

ApiTake ==
  /\ apiPc = "idle" /\ sem = "none"
  /\ sem' = "api"
  /\ apiPid' \in Pids
  /\ apiPos' = nxt[NH]
  /\ apiPc' = "walk"
  /\ ApiUnchanged

ApiAdvance ==
  /\ apiPc = "walk" /\ apiPos # NH
  /\ ~(apiPos \in Nodes /\ pid[apiPos] = apiPid)
  /\ apiPos' = nxt[apiPos]
  /\ UNCHANGED <<sem, apiPc, apiPid>> /\ ApiUnchanged

\* end of the list, or the record was found and copied
ApiRelease ==
  /\ apiPc = "walk"
  /\ apiPos = NH \/ (apiPos \in Nodes /\ pid[apiPos] = apiPid)
  /\ sem' = "none"
  /\ apiPc' = "idle" /\ apiPos' = NH /\ apiPid' = NoPid
  /\ ApiUnchanged
-----------------------------------------------------------------------------
Next == \/ RxFrame \/ RxStep
        \/ SwTake \/ SwStep
        \/ ApiTake \/ ApiAdvance \/ ApiRelease

(***************************************************************************)
(* Every thread runs.  The sweep is queued again every second for as long  *)
(* as the module runs, and a waiter of sem_sta is woken by the next        *)
(* release: SwTake and RxAlloc are strongly fair.                          *)
(***************************************************************************)
Fairness == /\ WF_vars(RxStep) /\ SF_vars(RxAlloc)
            /\ WF_vars(SwStep) /\ SF_vars(SwTake)
            /\ WF_vars(ApiAdvance \/ ApiRelease)

Spec     == Init /\ [][Next]_vars
FairSpec == Spec /\ Fairness
-----------------------------------------------------------------------------
(***************************************************************************)
(* Properties.                                                             *)
(***************************************************************************)
RxLinked == rxPc \in {"count", "count2", "pid"}

\* the sweep is about a record
OnRecord == {"store", "loadAlert", "storeAlert", "testAlert", "testMask", "clear",
             "test", "kick"}

\* The type invariant: every variable of the table and of the three threads.
TypeOK ==
  /\ nxt \in [Cells -> Cells] /\ prv \in [Cells -> Cells]
  /\ home \in [Nodes -> {NH, FH}]
  /\ pid \in [Nodes -> Pids \cup {NoPid}]
  /\ life \in [Nodes -> 0 .. MaxLife]
  /\ alertLife \in [Nodes -> 0 .. AlertLife]
  /\ mask \in [Nodes -> BOOLEAN]
  /\ cnt \in 0 .. CntMod - 1
  /\ sem \in {"none", "vam", "api"}
  /\ got \in BOOLEAN /\ crowded \in BOOLEAN
  /\ rxPc \in {"idle", "scan", "alloc", "count", "count2", "pid",
               "life", "alertLife", "mask"}
  /\ rxMsg \in Messages \cup {NoMsg}
  /\ rxPc # "idle" => rxMsg \in Messages
  /\ rxPos \in Cells
  /\ rxPc \in {"count", "count2", "pid", "life", "alertLife", "mask"}
       => rxPos \in Nodes
  /\ rxTmp \in 0 .. CntMod - 1
  /\ swPc \in {"idle", "load", "uncount", "reset", "period"} \cup OnRecord
  /\ swPos \in Cells
  /\ swNode \in Nodes \cup {NH}
  /\ swPc \in OnRecord => swNode \in Nodes
  /\ swLife \in 0 .. MaxLife /\ swAlert \in 0 .. AlertLife
  /\ swCnt \in 0 .. CntMod - 1 /\ swEmpty \in BOOLEAN
  /\ apiPc \in {"idle", "walk"} /\ apiPos \in Cells
  /\ apiPid \in Pids \cup {NoPid}

HomeOf(c) == IF c \in Nodes THEN home[c] ELSE c
Listed == { n \in Nodes : home[n] = NH }

\* Both lists stay doubly linked and never run into each other, whatever the
\* receive thread and the sweep (vam_find_sta, vam_update_sta) interleave:
\* each neighbour of a cell points back at it and is on the same list.
WellLinked ==
  \A c \in Cells :
    /\ prv[nxt[c]] = c /\ nxt[prv[c]] = c
    /\ HomeOf(nxt[c]) = HomeOf(c)

\* The cells a walk from head h meets before it returns to h (at most one
\* round: the walk is cut after as many steps as there are cells).
Walk(h) ==
  LET at[i \in 0 .. Cardinality(Cells)] == IF i = 0 THEN nxt[h] ELSE nxt[at[i - 1]]
  IN  { at[i] : i \in { j \in DOMAIN at : \A k \in 0 .. j : at[k] # h } }

\* No record leaks: a walk of neighbour_list meets exactly the records last
\* moved there, a walk of sta_free_list exactly the others (vam_list_sta
\* prints the neighbours as VAM_NEIGHBOUR_MAXNUM minus the free ones).
NoRecordLost == Walk(NH) = Listed /\ Walk(FH) = Nodes \ Listed

\* The threads that walk neighbour_list under sem_sta always stand on it: the
\* successor vam_update_sta prefetched is still linked there after it kicked
\* the record, and a vam_get_peer_* scan never strays to the free list.
LockedWalksStay ==
  /\ sem = "vam" => HomeOf(swPos) = NH
  /\ sem = "api" => HomeOf(apiPos) = NH

\* A peer has one record: two records of neighbour_list never hold the same
\* pid, although vam_find_sta searches without sem_sta while the sweep unlinks.
\* The record being set up still shows the pid of its previous owner.
UniquePids ==
  \A m, n \in Listed :
    \/ m = n \/ pid[m] # pid[n]
    \/ RxLinked /\ rxPos \in {m, n}

\* A record as the users of the table see it: it is its peer's from the moment
\* the peer's id is in it and for as long as it is on neighbour_list.
Shown(n) ==
  IF home[n] = NH /\ ~(RxLinked /\ rxPos = n)
    THEN [owner |-> pid[n], life |-> life[n], alertLife |-> alertLife[n],
          alert |-> mask[n]]
    ELSE [owner |-> NoPid, life |-> 0, alertLife |-> 0, alert |-> FALSE]

\* The record the sweep found expired and is about to act on.
Ending  == IF swPc \in {"testMask", "clear"} THEN {swNode} ELSE {}
Leaving == IF swPc = "kick" THEN {swNode} ELSE {}

Table == INSTANCE PeerTable WITH
           Slots <- Nodes, Nobody <- NoPid,
           heard <- rxMsg, table <- [n \in Nodes |-> Shown(n)],
           ending <- Ending, leaving <- Leaving

\* The lists, the unlocked scan of vam_find_sta and the sweep together are a
\* PeerTable: no peer is renewed, aged, cancelled or dropped in another's place,
\* and none is cancelled or dropped that was not found expired just before.
TableServes == Table!Spec

\* Once no peer is heard any more the table drains and the module knows it is
\* empty (gotNeighbour is cleared), even when neighbour_cnt wrapped meanwhile.
Drains == <>[](rxPc = "idle") => <>[](nxt[NH] = NH /\ ~got)

(***************************************************************************)
(* What the code does not keep.                                            *)
(***************************************************************************)
\* cv_vam_vsm.c:261: a lookup finds the record, or "not found, allocate new
\* one".  The scan runs without sem_sta: when its cursor's record is kicked
\* it goes on along the free list, which never leads back to neighbour_list,
\* and the receive thread loops there for good.
LookupEnds == rxPc = "scan" ~> rxPc # "scan"
=============================================================================
