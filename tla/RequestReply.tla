---------------------------- MODULE RequestReply ----------------------------
(***************************************************************************)
(* What a caller of cv_oam_sdk_api_request is promised.  Its message is    *)
(* written by the library from the call to the return and at no other      *)
(* time; it takes at most one answer, and of its own process's requests    *)
(* only the answer to itself; the result is OK only with an answer.  The   *)
(* call may time out at any moment, and a late answer may still make the   *)
(* result OK before it returns.                                            *)
(*                                                                         *)
(* No promise is made about answers to other processes: the server may     *)
(* send them here.                                                         *)
(***************************************************************************)
CONSTANTS
  Callers,
  Proc,        \* the process of each caller
  Numbers,     \* of requests
  Answers,     \* [id, from]: the request that is answered
  NoAnswer

VARIABLES
  phase,       \* "idle", "wait", or "done" when the wait is over
  asked,       \* the number of the request under way, if there is one
  result, answer   \* in the caller's message

Init ==
  /\ phase = [c \in Callers |-> "idle"] /\ asked = [c \in Callers |-> {}]
  /\ result = [c \in Callers |-> "none"] /\ answer = [c \in Callers |-> NoAnswer]

Begins(c, r) ==
  /\ phase[c] = "idle"
  /\ result' = [result EXCEPT ![c] = r] /\ answer' = [answer EXCEPT ![c] = NoAnswer]

\* returns at once
Refuse(c) ==
  /\ \E r \in {"too_much", "not_sent"} : Begins(c, r)
  /\ UNCHANGED <<phase, asked>>

\* no other request of the process that is under way has the number
Ask(c) ==
  /\ Begins(c, "ok")
  /\ phase' = [phase EXCEPT ![c] = "wait"]
  /\ \E n \in Numbers :
       /\ \A d \in Callers : Proc[d] = Proc[c] => n \notin asked[d]
       /\ asked' = [asked EXCEPT ![c] = {n}]

Reply(c) ==
  /\ phase[c] # "idle" /\ answer[c] = NoAnswer
  /\ \E m \in Answers :
       /\ Proc[m.from] = Proc[c] => m.from = c /\ m.id \in asked[c]
       /\ answer' = [answer EXCEPT ![c] = m]
  /\ result' = [result EXCEPT ![c] = "ok"]
  /\ UNCHANGED <<phase, asked>>

Wake(c) ==
  /\ phase[c] = "wait" /\ answer[c] # NoAnswer
  /\ phase' = [phase EXCEPT ![c] = "done"]
  /\ UNCHANGED <<asked, result, answer>>

TimeOut(c) ==
  /\ phase[c] = "wait"
  /\ phase' = [phase EXCEPT ![c] = "done"]
  /\ result' = [result EXCEPT ![c] = "timeout"]
  /\ UNCHANGED <<asked, answer>>

Return(c) ==
  /\ phase[c] = "done"
  /\ phase' = [phase EXCEPT ![c] = "idle"] /\ asked' = [asked EXCEPT ![c] = {}]
  /\ UNCHANGED <<result, answer>>

Next == \E c \in Callers :
          \/ Refuse(c) \/ Ask(c) \/ Reply(c) \/ Wake(c) \/ TimeOut(c) \/ Return(c)

Spec == Init /\ [][Next]_<<phase, asked, result, answer>>
=============================================================================
