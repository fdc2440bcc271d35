------------------------------ MODULE PeerTable ------------------------------
(***************************************************************************)
(* What the neighbour table is to its users: each slot is free or holds    *)
(* one peer, and each peer has at most one slot.  A slot's lives and its   *)
(* alert change only by what its own peer sends and by ageing, which ends  *)
(* an alert or drops a peer only after it found the lives over.            *)
(*                                                                         *)
(* Three weaknesses are part of the promise: a peer is admitted before the *)
(* slot is filled in, so for a moment it shows what the slot held before;  *)
(* ageing may undo a renewal, since it stores a count loaded earlier; and  *)
(* what ageing found still takes effect when the peer has been heard in    *)
(* between: a live peer may be dropped, a fresh alert ended, once a sweep. *)
(***************************************************************************)
EXTENDS Naturals

CONSTANTS
  Slots,
  Messages,    \* what can be heard: a sender, a kind and an alert
  NoMsg,
  Nobody,
  MaxLife, AlertLife

VARIABLES
  heard,       \* the message being taken in
  table,
  ending,      \* the slot whose alert ageing found over and may be about to end
  leaving      \* the slot whose peer ageing found gone and is about to drop

found == <<ending, leaving>>

Free == [owner |-> Nobody, life |-> 0, alertLife |-> 0, alert |-> FALSE]

Init == /\ heard = NoMsg /\ table = [n \in Slots |-> Free]
        /\ ending = {} /\ leaving = {}

Hear(m) == heard = NoMsg /\ heard' = m /\ UNCHANGED <<table, found>>

\* the message is dropped, or nothing is left to take from it
Finish == heard' = NoMsg /\ UNCHANGED <<table, found>>

Becomes(n, p, l, a, w) ==
  table' = [table EXCEPT ![n] =
              [owner |-> p, life |-> l, alertLife |-> a, alert |-> w]]

Admit(n) ==
  /\ heard \in Messages /\ table[n] = Free
  /\ \A o \in Slots : table[o].owner # heard.from
  /\ \E l \in 0 .. MaxLife, a \in 0 .. AlertLife, w \in BOOLEAN :
       Becomes(n, heard.from, l, a, w)
  /\ UNCHANGED <<heard, found>>

\* the peer of a slot is heard again
Own(n) == heard \in Messages /\ table[n].owner = heard.from

Renew(n) ==
  /\ Own(n) /\ heard.kind # "evam"
  /\ Becomes(n, table[n].owner, MaxLife, table[n].alertLife, table[n].alert)
  /\ heard' \in {heard, NoMsg} /\ UNCHANGED found

RenewAlert(n) ==
  /\ Own(n) /\ heard.kind # "bsm"
  /\ Becomes(n, table[n].owner, table[n].life, AlertLife, table[n].alert)
  /\ UNCHANGED <<heard, found>>

Alert(n) ==
  /\ Own(n) /\ heard.kind # "bsm"
  /\ Becomes(n, table[n].owner, table[n].life, table[n].alertLife, heard.alert)
  /\ heard' = NoMsg /\ UNCHANGED found

\* ageing deals with one slot at a time
Settled == ending = {} /\ leaving = {}

Age(n) ==
  /\ Settled
  /\ \E l \in 0 .. table[n].life, a \in 0 .. table[n].alertLife :
       Becomes(n, table[n].owner, l, a, table[n].alert)
  /\ UNCHANGED <<heard, found>>

FindAlertOver(n) ==
  /\ Settled
  /\ table[n].alertLife = 0
  /\ ending' = {n} /\ UNCHANGED <<heard, table, leaving>>

CancelAlert(n) ==
  /\ ending = {n} /\ ending' = {}
  /\ Becomes(n, table[n].owner, table[n].life, table[n].alertLife, FALSE)
  /\ UNCHANGED <<heard, leaving>>

FindGone(n) ==
  /\ Settled /\ table[n].life = 0 /\ table[n].alertLife = 0
  /\ leaving' = {n} /\ UNCHANGED <<heard, table, ending>>

Drop(n) ==
  /\ leaving = {n} /\ leaving' = {}
  /\ table' = [table EXCEPT ![n] = Free]
  /\ UNCHANGED <<heard, ending>>

Next == \/ \E m \in Messages : Hear(m)
        \/ Finish
        \/ \E n \in Slots : \/ Admit(n) \/ Renew(n) \/ RenewAlert(n) \/ Alert(n)
                            \/ Age(n) \/ FindAlertOver(n) \/ CancelAlert(n)
                            \/ FindGone(n) \/ Drop(n)

Spec == Init /\ [][Next]_<<heard, table, found>>
=============================================================================
