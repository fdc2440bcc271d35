------------------------------ MODULE OamClient -----------------------------
(***************************************************************************)
(* The client library of the management agents: oam_ext_sdk.c, and the     *)
(* receive thread of oam_ext_main.c.                                       *)
(*                                                                         *)
(* g_sdk_ctrl.mutex is taken and released within one section of code, so   *)
(* each section is a step.  Callers wait outside it, on the semaphore of   *)
(* their record, with a time-out.                                          *)
(***************************************************************************)
EXTENDS OamLink

CONSTANTS
  Callers, NoCaller,
  Proc,       \* the process of each caller
  Size,       \* the length of each caller's request, and of its answer
  NReq,       \* CV_SDK_MAX_REQ
  MaxId,      \* bound: requests of a process (req_next is 32 bits wide)
  NoAnswer

ASSUME CallersAssumption == NoCaller \notin Callers /\ Proc \in [Callers -> Procs]
ASSUME AnswerAssumption == NoAnswer \notin [id : Nat, from : Callers]
ASSUME SizesAssumption == NReq \in Nat \ {0} /\ MaxId \in Nat

VARIABLES
  reqs, reqNext,   \* g_sdk_ctrl of each process
  pc, rec,         \* callers: where they are in cv_oam_sdk_api_request
  ret, data        \* callers' messages: msg->ret, and the answer copied into it

clientVars == <<reqs, reqNext, pc, rec, ret, data>>

Reqs   == 1 .. NReq
Unused == [valid |-> FALSE, id |-> 0, msg |-> NoCaller, sem |-> 0]

ClientInit ==
  /\ reqs = [p \in Procs |-> [i \in Reqs |-> Unused]]
  /\ reqNext = [p \in Procs |-> 0]
  /\ pc = [c \in Callers |-> "idle"] /\ rec = [c \in Callers |-> 0]
  /\ ret = [c \in Callers |-> "none"] /\ data = [c \in Callers |-> NoAnswer]

First(S) == CHOOSE i \in S : \A j \in S : i <= j

\* the records cv_sdk_req_record_alloc chooses from
Free(p) == { i \in Reqs : ~reqs[p][i].valid }

\* any record in use
FoundAny(p, id) == { i \in Reqs : reqs[p][i].valid }

\* the records cv_sdk_req_record_find stops at
Found(p, id) == { i \in Reqs : reqs[p][i].valid /\ reqs[p][i].id = id }

(***************************************************************************)
(* cv_oam_sdk_api_request.                                                 *)
(***************************************************************************)
May(c) == pc[c] = "idle" /\ link[Proc[c]] \in {"on", "reset", "shut"}

\* all records are in use
TooMany(c) ==
  /\ May(c) /\ Free(Proc[c]) = {}
  /\ ret' = [ret EXCEPT ![c] = "too_much"] /\ data' = [data EXCEPT ![c] = NoAnswer]
  /\ UNCHANGED <<reqs, reqNext, pc, rec, linkVars>>

\* the socket is closed: the record is released at once
SendFails(c) ==
  LET p == Proc[c]
  IN  /\ May(c) /\ Free(p) # {} /\ link[p] = "shut" /\ reqNext[p] < MaxId
      /\ reqNext' = [reqNext EXCEPT ![p] = @ + 1]
      /\ ret' = [ret EXCEPT ![c] = "not_sent"] /\ data' = [data EXCEPT ![c] = NoAnswer]
      /\ UNCHANGED <<reqs, pc, rec, linkVars>>

\* msg->ret is OAM_E_OK from here on
Request(c) ==
  LET p == Proc[c]
      i == First(Free(p))
      n == reqNext[p]
  IN  /\ May(c) /\ Free(p) # {} /\ link[p] # "shut" /\ n < MaxId
      /\ reqs' = [reqs EXCEPT ![p][i] =
                    [valid |-> TRUE, id |-> n, msg |-> c, sem |-> 0]]
      /\ reqNext' = [reqNext EXCEPT ![p] = n + 1]
      /\ SendUp(p, [id |-> n, from |-> c])
      /\ pc' = [pc EXCEPT ![c] = "wait"] /\ rec' = [rec EXCEPT ![c] = i]
      /\ ret' = [ret EXCEPT ![c] = "ok"] /\ data' = [data EXCEPT ![c] = NoAnswer]
      /\ UNCHANGED <<link, down>>

Answered(c) ==
  LET p == Proc[c]
  IN  /\ pc[c] = "wait" /\ reqs[p][rec[c]].sem > 0
      /\ reqs' = [reqs EXCEPT ![p][rec[c]].sem = @ - 1]
      /\ pc' = [pc EXCEPT ![c] = "done"]
      /\ UNCHANGED <<reqNext, rec, ret, data, linkVars>>

\* the wait ends without the semaphore; the result is stored outside the mutex
TimedOut(c) ==
  /\ pc[c] = "wait"
  /\ pc' = [pc EXCEPT ![c] = "done"] /\ ret' = [ret EXCEPT ![c] = "timeout"]
  /\ UNCHANGED <<reqs, reqNext, rec, data, linkVars>>

\* the record is not released after a time-out
ReturnKeeps(c) ==
  /\ pc[c] = "done"
  /\ reqs' = IF ret[c] = "timeout" THEN reqs
             ELSE [reqs EXCEPT ![Proc[c]][rec[c]] = Unused]
  /\ pc' = [pc EXCEPT ![c] = "idle"] /\ rec' = [rec EXCEPT ![c] = 0]
  /\ UNCHANGED <<reqNext, ret, data, linkVars>>

\* releases the record
Return(c) ==
  /\ pc[c] = "done"
  /\ reqs' = [reqs EXCEPT ![Proc[c]][rec[c]] = Unused]
  /\ pc' = [pc EXCEPT ![c] = "idle"] /\ rec' = [rec EXCEPT ![c] = 0]
  /\ UNCHANGED <<reqNext, ret, data, linkVars>>

Caller(c) ==
  /\ link[Proc[c]] # "gone"
  /\ TooMany(c) \/ SendFails(c) \/ Request(c) \/ Answered(c) \/ TimedOut(c) \/ Return(c)

(***************************************************************************)
(* The receive thread: cv_oam_proc_thread, cv_oam_sdk_api_rsp.             *)
(***************************************************************************)
\* a second answer is as good as the first
FitsAgain(m, c) == Size[m.from] = Size[c]

\* The length in a record's message is in network order until an answer is
\* copied over it, so a second answer never has the length expected.
Fits(m, c) == data[c] = NoAnswer /\ Size[m.from] = Size[c]

Response(p, k) ==
  /\ link[p] \in {"on", "reset"} /\ k \in 1 .. Len(down[p])
  /\ down' = [down EXCEPT ![p] = After(@, k)]
  /\ LET m == Head(down[p])
         i == First(Found(p, m.id))
         c == reqs[p][i].msg
     IN  IF Found(p, m.id) # {} /\ Fits(m, c)
           THEN /\ data' = [data EXCEPT ![c] = m] /\ ret' = [ret EXCEPT ![c] = "ok"]
                /\ reqs' = [reqs EXCEPT ![p][i].sem = @ + 1]
           ELSE UNCHANGED <<data, ret, reqs>>
  /\ UNCHANGED <<reqNext, pc, rec, link, up>>

\* the connection is reset: closes the socket, and does not connect again
Shut(p) ==
  /\ link[p] = "reset" /\ down[p] = <<>>
  /\ link' = [link EXCEPT ![p] = "shut"]
  /\ UNCHANGED <<up, down, clientVars>>

RxThread(p) == Shut(p) \/ \E k \in 1 .. Len(down[p]) : Response(p, k)
=============================================================================
