----------------------------- MODULE MdaForward -----------------------------
(***************************************************************************)
(* Multi-hop forwarding of received frames (cv_vam_mda.c).                 *)
(*                                                                         *)
(*  - The receive thread hands every BSM and EVAM to mda_handle.  A frame  *)
(*    that is new (no live record in rx_history_table) and has hops left   *)
(*    is copied to a transmit buffer, recorded, and put on                 *)
(*    forward_waiting_list with a delay.  When another station forwards    *)
(*    the same frame first, the waiting copy is cancelled.                 *)
(*  - The mda thread takes the first buffer off the list when its delay    *)
(*    has run out, and sends it; it also ages the records.                 *)
(*                                                                         *)
(* The list keeps delays as increments over the buffer before.  sem_forward*)
(* guards it, but the search for a copy to cancel takes no semaphore and   *)
(* its result is used after the mda thread may have sent and freed it.     *)
(***************************************************************************)
EXTENDS Integers, Sequences, FiniteSets, SequencesExt

CONSTANTS
  Msgs,       \* (temporary_id, msg_count) of the frames of other stations
  NoMsg,      \* an unused record or buffer
  Hops,       \* values of the 3-bit field hops of received frames
  Bufs,       \* transmit buffers; bound on the copies that exist at a time
  NoBuf,
  MaxDelay,   \* the largest delay of alg_farest_node (69 ticks)
  HistNum,    \* RX_HISTORY_NUM
  MaxHistLife \* MAX_HISTORY_LIFE

ASSUME NamesAssumption == NoMsg \notin Msgs /\ NoBuf \notin Bufs
ASSUME BufsAssumption  == IsFiniteSet(Bufs)
ASSUME HopsAssumption  == Hops \subseteq 0 .. 7
ASSUME SizeAssumption  ==
  MaxDelay \in Nat /\ HistNum \in Nat \ {0} /\ MaxHistLife \in Nat \ {0}

VARIABLES
  recMsg, recLife,       \* rx_history_table
  list,                  \* forward_waiting_list
  bMsg, bLeft, bDelay,   \* mda_forward_t of each buffer; NoMsg: it is free
  sem,                   \* holder of sem_forward: "none" or "rx"
  rxPc, rxMsg, rxLeft, rxBuf, rxDelay,
  mdaPc, mdaBuf,
  ageDue,                \* flag_history_timeout
  broken,                \* history: a buffer was used after it had been freed
  due                    \* history: ticks a waiting buffer may still take

recVars == <<recMsg, recLife>>
bufVars == <<list, bMsg, bLeft, bDelay, due>>
rxVars  == <<rxPc, rxMsg, rxLeft, rxBuf, rxDelay>>
mdaVars == <<mdaPc, mdaBuf>>
vars == <<recVars, bufVars, sem, rxVars, mdaVars, ageDue, broken>>

Slots == 1 .. HistNum

\* mda_init
Init ==
  /\ recMsg = [i \in Slots |-> NoMsg] /\ recLife = [i \in Slots |-> 0]
  /\ list = <<>>
  /\ bMsg = [b \in Bufs |-> NoMsg] /\ bLeft = [b \in Bufs |-> 0]
  /\ bDelay = [b \in Bufs |-> 0] /\ due = [b \in Bufs |-> 0]
  /\ sem = "none"
  /\ rxPc = "idle" /\ rxMsg = NoMsg /\ rxLeft = 0
  /\ rxBuf = NoBuf /\ rxDelay = 0
  /\ mdaPc = "idle" /\ mdaBuf = NoBuf
  /\ ageDue = FALSE /\ broken = FALSE

Listed == { list[i] : i \in DOMAIN list }
PlaceOf(b) == CHOOSE i \in DOMAIN list : list[i] = b
Free(b) == bMsg[b] = NoMsg

\* the fields of a buffer given back to malloc
Release(b) ==
  /\ bMsg' = [bMsg EXCEPT ![b] = NoMsg]
  /\ bLeft' = [bLeft EXCEPT ![b] = 0]
  /\ bDelay' = [bDelay EXCEPT ![b] = 0]
  /\ due' = [due EXCEPT ![b] = 0]

RxIdle == /\ rxPc' = "idle" /\ rxMsg' = NoMsg /\ rxLeft' = 0
          /\ rxBuf' = NoBuf /\ rxDelay' = 0
-----------------------------------------------------------------------------
(***************************************************************************)
(* Receive thread: mda_handle.                                             *)
(***************************************************************************)
\* a step of this thread alone; none follows a corrupted heap
RxAlone == ~broken /\ UNCHANGED <<mdaVars, ageDue>>

\* the search ends at the first record that is not in use
RecordedBeforeGap(m) ==
  \E i \in Slots : /\ recMsg[i] = m
                   /\ \A j \in 1 .. i : recLife[j] > 0

\* find_history_record
Recorded(m) == \E i \in Slots : recLife[i] > 0 /\ recMsg[i] = m

\* src_sta->left_hops -= 1 on a uint8_t; a new frame whose hops are used up
\* is dropped
RxFrame(m, h) ==
  LET left == (h + 255) % 256
  IN  /\ rxPc = "idle"
      /\ \/ /\ Recorded(m)
            /\ rxPc' = "known" /\ rxMsg' = m /\ rxLeft' = left
         \/ /\ ~Recorded(m) /\ left > 0
            /\ rxPc' = "new" /\ rxMsg' = m /\ rxLeft' = left
      /\ UNCHANGED <<recVars, bufVars, sem, rxBuf, rxDelay, broken>>
      /\ RxAlone

\* alg_farest_node found the forwarder not ahead of this station
RxNotAhead ==
  /\ rxPc = "new"
  /\ RxIdle
  /\ UNCHANGED <<recVars, bufVars, sem, broken>> /\ RxAlone

\* rcp_create_forward_msg
RxCreate ==
  /\ rxPc = "new"
  /\ rxDelay' \in 0 .. MaxDelay
  /\ \E b \in Bufs : Free(b) /\ rxBuf' = b
  /\ bMsg' = [bMsg EXCEPT ![rxBuf'] = rxMsg]
  /\ bLeft' = [bLeft EXCEPT ![rxBuf'] = rxLeft]
  /\ rxPc' = "record"
  /\ UNCHANGED <<recVars, list, bDelay, due, sem, rxMsg, rxLeft, broken>>
  /\ RxAlone

\* the first record out of use, or else the last of those with least life
Slot ==
  LET unused == { i \in Slots : recLife[i] <= 0 }
      least  == { i \in Slots : \A j \in Slots : recLife[i] <= recLife[j] }
  IN  IF unused # {} THEN CHOOSE i \in unused : \A j \in unused : i <= j
                     ELSE CHOOSE i \in least : \A j \in least : i >= j

\* add_history_record
RxRecord ==
  /\ rxPc = "record"
  /\ recMsg' = [recMsg EXCEPT ![Slot] = rxMsg]
  /\ recLife' = [recLife EXCEPT ![Slot] = MaxHistLife]
  /\ rxPc' = "add"
  /\ UNCHANGED <<bufVars, sem, rxMsg, rxLeft, rxBuf, rxDelay, broken>>
  /\ RxAlone

\* a tick more, but never more than there is to wait for at all
Longer(d) == IF d < MaxDelay + Cardinality(Bufs) THEN d + 1 ELSE d

\* add_forward_list, first on the list: the increments of all the others
\* are reduced.  A frame without delay costs them the tick that sends it.
RxAddFirst ==
  /\ rxPc = "add" /\ sem = "none"
  /\ list # <<>> => rxDelay < bDelay[Head(list)]
  /\ list' = <<rxBuf>> \o list
  /\ bDelay' = [b \in Bufs |-> IF b = rxBuf THEN rxDelay
                               ELSE IF b \in Listed THEN bDelay[b] - rxDelay
                               ELSE bDelay[b]]
  /\ due' = [b \in Bufs |-> IF b = rxBuf /\ rxDelay > 0 THEN rxDelay
                            ELSE IF b = rxBuf \/ (b \in Listed /\ rxDelay = 0)
                                   THEN Longer(due[b])
                            ELSE due[b]]
  /\ RxIdle
  /\ UNCHANGED <<recVars, bMsg, bLeft, sem, broken>> /\ RxAlone

\* add_forward_list when the first buffer's delay is not longer: the frame is
\* linked behind it, the loop goes on to the frame itself, links it before or
\* behind itself, and never leaves it again
RxAddLoops ==
  /\ rxPc = "add" /\ sem = "none"
  /\ list # <<>> /\ rxDelay >= bDelay[Head(list)]
  /\ sem' = "rx"
  /\ rxPc' = "loop"
  /\ UNCHANGED <<recVars, bufVars, rxMsg, rxLeft, rxBuf, rxDelay, broken>>
  /\ RxAlone

\* find_forward_list, without sem_forward: starts at the first buffer
RxFind ==
  /\ rxPc = "known"
  /\ IF list = <<>> THEN RxIdle
     ELSE rxBuf' = Head(list) /\ rxPc' = "scan" /\ UNCHANGED <<rxMsg, rxLeft, rxDelay>>
  /\ UNCHANGED <<recVars, bufVars, sem, broken>> /\ RxAlone

RxFound ==
  /\ rxPc = "scan" /\ ~Free(rxBuf) /\ bMsg[rxBuf] = rxMsg
  /\ rxPc' = "judge"
  /\ UNCHANGED <<recVars, bufVars, sem, rxMsg, rxLeft, rxBuf, rxDelay, broken>>
  /\ RxAlone

\* the buffers behind b; one just taken off the list still points to the rest
Behind(b) ==
  IF b \in Listed THEN SubSeq(list, PlaceOf(b) + 1, Len(list)) ELSE list

RxOn ==
  /\ rxPc = "scan" /\ ~Free(rxBuf) /\ bMsg[rxBuf] # rxMsg
  /\ IF Behind(rxBuf) = <<>> THEN RxIdle
     ELSE rxBuf' = Head(Behind(rxBuf)) /\ UNCHANGED <<rxPc, rxMsg, rxLeft, rxDelay>>
  /\ UNCHANGED <<recVars, bufVars, sem, broken>> /\ RxAlone

\* the scan follows the link of a buffer that was freed under it
RxScanGone ==
  /\ rxPc = "scan" /\ Free(rxBuf)
  /\ broken' = TRUE
  /\ UNCHANGED <<recVars, bufVars, sem, rxVars>> /\ RxAlone

\* the copy has fewer hops left; a buffer already freed holds anything
RxCancel ==
  /\ rxPc = "judge"
  /\ Free(rxBuf) \/ rxLeft < bLeft[rxBuf]
  /\ rxPc' = "remove"
  /\ UNCHANGED <<recVars, bufVars, sem, rxMsg, rxLeft, rxBuf, rxDelay, broken>>
  /\ RxAlone

RxLeave ==
  /\ rxPc = "judge"
  /\ Free(rxBuf) \/ rxLeft >= bLeft[rxBuf]
  /\ RxIdle
  /\ UNCHANGED <<recVars, bufVars, sem, broken>> /\ RxAlone

\* remove_from_forward_list without wnet_release_txbuf
RxRemoveLeaks ==
  /\ rxPc = "remove" /\ sem = "none" /\ rxBuf \in Listed
  /\ list' = RemoveAt(list, PlaceOf(rxBuf))
  /\ RxIdle
  /\ UNCHANGED <<recVars, bMsg, bLeft, bDelay, due, sem, broken>>
  /\ RxAlone

\* remove_from_forward_list
RxRemove ==
  /\ rxPc = "remove" /\ sem = "none" /\ rxBuf \in Listed
  /\ list' = RemoveAt(list, PlaceOf(rxBuf))
  /\ Release(rxBuf)
  /\ RxIdle
  /\ UNCHANGED <<recVars, sem, broken>> /\ RxAlone

\* ... of a buffer the mda thread took meanwhile: unlinked and freed twice,
\* after which the heap and the list can hold anything
RxRemoveGone ==
  /\ rxPc = "remove" /\ sem = "none" /\ rxBuf \notin Listed
  /\ broken' = TRUE
  /\ UNCHANGED <<recVars, bufVars, sem, rxVars>> /\ RxAlone

RxStep == \/ RxNotAhead \/ RxCreate \/ RxRecord \/ RxAddFirst \/ RxAddLoops
          \/ RxFind \/ RxFound \/ RxOn \/ RxScanGone
          \/ RxCancel \/ RxLeave \/ RxRemove \/ RxRemoveGone
-----------------------------------------------------------------------------
(***************************************************************************)
(* mda thread: one round for every tick of timer_forward.                  *)
(***************************************************************************)
MdaAlone == ~broken /\ UNCHANGED <<sem, rxVars, broken>>

\* one tick less for every waiting buffer
Ticked == [b \in Bufs |-> IF b \in Listed THEN due[b] - 1 ELSE due[b]]

NextRound == mdaPc' = "age" /\ UNCHANGED mdaBuf

\* forward_handler: nothing waits
TickEmpty ==
  /\ mdaPc = "idle" /\ sem = "none" /\ list = <<>>
  /\ NextRound
  /\ UNCHANGED <<recVars, bufVars, ageDue>> /\ MdaAlone

\* the first buffer waits on although its delay is 0
TickWaitsLong ==
  /\ mdaPc = "idle" /\ sem = "none" /\ list # <<>>
  /\ bDelay[Head(list)] - 1 >= 0
  /\ bDelay' = [bDelay EXCEPT ![Head(list)] = @ - 1]
  /\ due' = Ticked
  /\ NextRound
  /\ UNCHANGED <<recVars, list, bMsg, bLeft, ageDue>> /\ MdaAlone

TickWaits ==
  /\ mdaPc = "idle" /\ sem = "none" /\ list # <<>>
  /\ bDelay[Head(list)] - 1 > 0
  /\ bDelay' = [bDelay EXCEPT ![Head(list)] = @ - 1]
  /\ due' = Ticked
  /\ NextRound
  /\ UNCHANGED <<recVars, list, bMsg, bLeft, ageDue>> /\ MdaAlone

\* without list_del
TickTakesNoDel ==
  /\ mdaPc = "idle" /\ sem = "none" /\ list # <<>>
  /\ bDelay[Head(list)] - 1 <= 0
  /\ bDelay' = [bDelay EXCEPT ![Head(list)] = @ - 1]
  /\ due' = Ticked
  /\ mdaBuf' = Head(list)
  /\ mdaPc' = "send"
  /\ UNCHANGED <<recVars, list, bMsg, bLeft, ageDue>> /\ MdaAlone

TickTakes ==
  /\ mdaPc = "idle" /\ sem = "none" /\ list # <<>>
  /\ bDelay[Head(list)] - 1 <= 0
  /\ bDelay' = [bDelay EXCEPT ![Head(list)] = @ - 1]
  /\ due' = Ticked
  /\ mdaBuf' = Head(list) /\ list' = Tail(list)
  /\ mdaPc' = "send"
  /\ UNCHANGED <<recVars, bMsg, bLeft, ageDue>> /\ MdaAlone

\* rcp_send_forward_msg; fp_send releases the buffer in every case
MdaSend ==
  /\ mdaPc = "send"
  /\ Release(mdaBuf)
  /\ mdaPc' = "age" /\ mdaBuf' = NoBuf
  /\ UNCHANGED <<recVars, list, ageDue>> /\ MdaAlone

\* history_handler; a record below 0 is out of use like one at 0
MdaAge ==
  /\ mdaPc = "age"
  /\ ageDue' = FALSE
  /\ recLife' = [i \in Slots |-> IF ageDue /\ recLife[i] > 0
                                   THEN recLife[i] - 1 ELSE recLife[i]]
  /\ mdaPc' = "idle"
  /\ UNCHANGED <<recMsg, bufVars, mdaBuf>> /\ MdaAlone

MdaStep == TickEmpty \/ TickWaits \/ TickTakes \/ MdaSend \/ MdaAge

\* timer_rx_history_callback
HistoryTimer ==
  /\ ~broken
  /\ ageDue' = TRUE
  /\ UNCHANGED <<recVars, bufVars, sem, rxVars, mdaVars, broken>>
-----------------------------------------------------------------------------
Next == \/ \E m \in Msgs, h \in Hops : RxFrame(m, h)
        \/ RxStep \/ MdaStep \/ HistoryTimer

(***************************************************************************)
(* timer_forward ticks for ever, so the mda thread's rounds go on.  A      *)
(* waiter of sem_forward gets it when it is released.                      *)
(***************************************************************************)
Fairness == WF_vars(RxStep) /\ WF_vars(MdaStep)

Spec     == Init /\ [][Next]_vars
FairSpec == Spec /\ Fairness
-----------------------------------------------------------------------------
\* The type invariant; no buffer is on the list twice.
TypeOK ==
  /\ recMsg \in [Slots -> Msgs \cup {NoMsg}]
  /\ recLife \in [Slots -> 0 .. MaxHistLife]
  /\ list \in Seq(Bufs)
  /\ \A i, j \in DOMAIN list : list[i] = list[j] => i = j
  /\ bMsg \in [Bufs -> Msgs \cup {NoMsg}] /\ bLeft \in [Bufs -> 0 .. 255]
  /\ bDelay \in [Bufs -> Int] /\ due \in [Bufs -> Int]
  /\ sem \in {"none", "rx"}
  /\ rxPc \in {"idle", "new", "record", "add", "loop", "known", "scan",
              "judge", "remove"}
  /\ rxMsg \in Msgs \cup {NoMsg} /\ rxLeft \in 0 .. 255
  /\ rxBuf \in Bufs \cup {NoBuf} /\ rxDelay \in 0 .. MaxDelay
  /\ mdaPc \in {"idle", "send", "age"} /\ mdaBuf \in Bufs \cup {NoBuf}
  /\ ageDue \in BOOLEAN /\ broken \in BOOLEAN

RxOwns(b)  == b = rxBuf /\ rxPc \in {"record", "add", "loop"}
MdaOwns(b) == b = mdaBuf

\* A transmit buffer has one owner until it is released: the receive thread
\* that fills it, the list, or the mda thread that sends it.  None is lost.
OneOwner ==
  \A b \in Bufs :
    Cardinality({ o \in {"rx", "list", "mda"} :
                    \/ o = "rx" /\ RxOwns(b)
                    \/ o = "list" /\ b \in Listed
                    \/ o = "mda" /\ MdaOwns(b) }) = IF Free(b) THEN 0 ELSE 1

\* A frame has one live record, although the mda thread ages the records
\* between the search and the entry (find_history_record, add_history_record).
OneRecord ==
  \A i, j \in Slots :
    recLife[i] > 0 /\ recLife[j] > 0 /\ recMsg[i] = recMsg[j] => i = j

\* The increments keep every frame on time: it waits its own delay (one tick
\* at least), and a tick more for each frame put before it without delay.
NeverLate == \A b \in Listed : due[b] > 0

\* cv_vam_mda.c:151: with the delays kept as increments the timer handler has
\* to look at the first frames only, and so forwards every frame that waits.
\* A frame whose delay is not shorter than the first one's makes the receive
\* thread loop on the list with sem_forward taken.
EveryFrameLeaves == \A b \in Bufs : b \in Listed ~> b \notin Listed \/ broken
=============================================================================
