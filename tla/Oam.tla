--------------------------------- MODULE Oam --------------------------------
(***************************************************************************)
(* Management agents and the server of the road-side unit.                 *)
(***************************************************************************)
EXTENDS OamClient, OamServer

Init == LinkInit /\ ClientInit /\ ServerInit

vars == <<linkVars, clientVars, serverVars>>

\* cv_oam_client_init: done when the connection waits to be accepted
Connect(p) ==
  /\ link[p] = "off"
  /\ link' = [link EXCEPT ![p] = "on"]
  /\ backlog' = Append(backlog, p)
  /\ UNCHANGED <<up, down, clientVars>>
  /\ UNCHANGED <<sock, sockfd, slotFd, clientCnt, thVars>>

\* The agent ends, in a request perhaps; unread answers reset the connection.
Exit(p) ==
  /\ link[p] \in {"on", "reset", "shut"}
  /\ link' = [link EXCEPT ![p] = "gone"]
  /\ up' = IF down[p] = <<>> THEN up ELSE [up EXCEPT ![p] = <<>>]
  /\ down' = [down EXCEPT ![p] = <<>>]
  /\ UNCHANGED <<clientVars, serverVars>>

Next ==
  \/ \E p \in Procs : Connect(p) \/ Exit(p) \/ (RxThread(p) /\ UNCHANGED serverVars)
  \/ \E c \in Callers : Caller(c) /\ UNCHANGED serverVars
  \/ Server /\ UNCHANGED clientVars

Spec == Init /\ [][Next]_vars
-----------------------------------------------------------------------------
Frames == [id : 0 .. MaxId, from : Callers]

\* The type invariant.
TypeOK ==
  /\ link \in [Procs -> {"off", "on", "reset", "shut", "gone"}]
  /\ up \in [Procs -> Seq(Frames)] /\ down \in [Procs -> Seq(Frames)]
  /\ reqs \in [Procs -> [Reqs -> [valid : BOOLEAN, id : 0 .. MaxId,
                                  msg : Callers \cup {NoCaller}, sem : 0 .. 1]]]
  /\ reqNext \in [Procs -> 0 .. MaxId]
  /\ pc \in [Callers -> {"idle", "wait", "done"}] /\ rec \in [Callers -> 0 .. NReq]
  /\ ret \in [Callers -> {"none", "ok", "too_much", "not_sent", "timeout"}]
  /\ data \in [Callers -> Frames \cup {NoAnswer}]
  /\ backlog \in Seq(Procs) /\ sock \in [Fds -> Procs \cup {NoProc}]
  /\ sockfd \in Fds \cup {0} /\ slotFd \in Fds \cup {0} /\ clientCnt \in Nat
  /\ thPc \in [Threads -> {"none", "start", "run", "handle", "close"}]
  /\ thFd \in [Threads -> Fds \cup {0}] /\ thTo \in [Threads -> Fds \cup {0}]
  /\ thReq \in [Threads -> Frames \cup {NoFrame}]

\* Requests and records belong together: each record in use is that of one
\* caller that is still in cv_oam_sdk_api_request, and names that caller's
\* message, which lives on its stack.  So no late answer is copied into a
\* message whose function has returned (oam_ext_sdk.c:176), and no record is
\* lost to the table.
RecordsOwned ==
  /\ \A c \in Callers : pc[c] # "idle" =>
       rec[c] \in Reqs /\ reqs[Proc[c]][rec[c]].valid /\ reqs[Proc[c]][rec[c]].msg = c
  /\ \A p \in Procs, i \in Reqs : reqs[p][i].valid =>
       LET c == reqs[p][i].msg
       IN  c \in Callers /\ Proc[c] = p /\ pc[c] # "idle" /\ rec[c] = i

\* A request that is about to return OAM_E_OK has an answer, and not one to
\* another request of its process: records and their semaphores are reused,
\* answers come late, after a time-out, or not at all.
OkIsAnswered ==
  \A c \in Callers : pc[c] = "done" /\ ret[c] = "ok" =>
    /\ data[c] # NoAnswer
    /\ Proc[data[c].from] = Proc[c] =>
         data[c] = [id |-> reqs[Proc[c]][rec[c]].id, from |-> c]

\* The client library keeps its promise to its callers, whatever time-outs, late,
\* doubled and misdirected answers do to the records they share.
AskedBy(c) == IF pc[c] = "idle" THEN {} ELSE {reqs[Proc[c]][rec[c]].id}
Requests == INSTANCE RequestReply WITH
              Numbers <- 0 .. MaxId, Answers <- Frames,
              phase <- pc, asked <- [c \in Callers |-> AskedBy(c)],
              result <- ret, answer <- data
RequestsKept == Requests!Spec

\* The server stops accepting by client_cnt (oam_int_main.c:133).  It is never
\* decremented, and not incremented when a connection gets the descriptor of the
\* one accepted before; still it never falls short of the open connections.
CountCoversOpen == Cardinality(Open) <= clientCnt

\* "A new thread reads what the client sends, handles it, and sends the answer
\* to the client" (oam_int_main.c:140, in Chinese): an answer arrives at the
\* process that asked.
AnswersTheAsker ==
  \A p \in Procs : \A i \in 1 .. Len(down[p]) : Proc[down[p][i].from] = p
=============================================================================
