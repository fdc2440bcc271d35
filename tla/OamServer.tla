------------------------------ MODULE OamServer -----------------------------
(***************************************************************************)
(* The management server in the road-side unit: the accept loop and one    *)
(* thread per connection (oam_int_main.c), which handles the requests      *)
(* (oam_int_sdk.c).                                                        *)
(*                                                                         *)
(* cv_oam_rx_thread gets the ADDRESS of the accept loop's client_sockfd.   *)
(* It reads it when it starts, and again for every request.                *)
(*                                                                         *)
(* No entry of the client table ever becomes valid: the loop over it stops *)
(* at the first entry, whose sock_fd is all that is kept here, and         *)
(* cv_oam_server_free_client finds nothing to free.                        *)
(***************************************************************************)
EXTENDS OamLink, FiniteSets

CONSTANTS
  NoProc,
  Fds,          \* descriptors of accepted sockets, numbered from 1
  Threads,      \* bound: receive threads at a time
  MaxClients,   \* OAM_MAX_CLIENT_NUM
  NoFrame

ASSUME ServerAssumption == NoProc \notin Procs /\ Fds \subseteq Nat \ {0} /\ MaxClients \in Nat

VARIABLES
  backlog,                 \* connections that wait to be accepted
  sock,                    \* whose connection a descriptor is
  sockfd,                  \* client_sockfd; 0 stands for -1
  slotFd, clientCnt,       \* client[0].sock_fd, client_cnt
  thPc, thFd, thReq, thTo  \* receive threads; the frame and clientfd in hand

thVars     == <<thPc, thFd, thReq, thTo>>
serverVars == <<backlog, sock, sockfd, slotFd, clientCnt, thVars>>

ServerInit ==
  /\ backlog = <<>> /\ sock = [f \in Fds |-> NoProc]
  /\ sockfd = 0 /\ slotFd = 0 /\ clientCnt = 0
  /\ thPc = [t \in Threads |-> "none"] /\ thFd = [t \in Threads |-> 0]
  /\ thReq = [t \in Threads |-> NoFrame] /\ thTo = [t \in Threads |-> 0]

Open   == { f \in Fds : sock[f] # NoProc }
Lowest == CHOOSE f \in Fds \ Open : \A g \in Fds \ Open : f <= g

(***************************************************************************)
(* cv_oam_proc_thread: the accept loop.                                    *)
(***************************************************************************)
MayAccept == clientCnt <= MaxClients

\* a connection is not counted
AddClientUncounted(fd) == slotFd' = fd /\ clientCnt' = clientCnt

\* cv_oam_server_add_client
AddClient(fd) ==
  /\ slotFd' = fd
  /\ clientCnt' = IF slotFd = fd THEN clientCnt ELSE clientCnt + 1

\* accepts a connection, starts its thread and counts it
Accept(t) ==
  /\ MayAccept /\ backlog # <<>> /\ Fds \ Open # {} /\ thPc[t] = "none"
  /\ backlog' = Tail(backlog)
  /\ sock' = [sock EXCEPT ![Lowest] = Head(backlog)]
  /\ sockfd' = Lowest
  /\ thPc' = [thPc EXCEPT ![t] = "start"]
  /\ AddClient(Lowest)
  /\ UNCHANGED <<thFd, thReq, thTo, linkVars>>

\* accept fails: a connection was given up meanwhile, or a signal came
AcceptFails ==
  /\ MayAccept
  /\ sockfd' = 0
  /\ UNCHANGED <<backlog, sock, slotFd, clientCnt, thVars, linkVars>>

(***************************************************************************)
(* cv_oam_rx_thread.                                                       *)
(***************************************************************************)
Start(t) ==
  /\ thPc[t] = "start"
  /\ thPc' = [thPc EXCEPT ![t] = "run"] /\ thFd' = [thFd EXCEPT ![t] = sockfd]
  /\ UNCHANGED <<backlog, sock, sockfd, slotFd, clientCnt, thReq, thTo, linkVars>>

Peer(t) == IF thFd[t] \in Fds THEN sock[thFd[t]] ELSE NoProc

\* recv, and cv_oam_sdk_msg_handler up to the handler; the agents ask for
\* nothing the server has no handler for
Receive(t, k) ==
  LET p == Peer(t)
  IN  /\ thPc[t] = "run" /\ p # NoProc /\ k \in 1 .. Len(up[p])
      /\ up' = [up EXCEPT ![p] = After(@, k)]
      /\ thPc' = [thPc EXCEPT ![t] = "handle"]
      /\ thReq' = [thReq EXCEPT ![t] = Head(up[p])]
      /\ thTo' = [thTo EXCEPT ![t] = sockfd]
      /\ UNCHANGED <<backlog, sock, sockfd, slotFd, clientCnt, thFd, link, down>>

\* the handler returns, and cv_oam_send_msg; a send to a closed socket fails
Answer(t) ==
  LET p == IF thTo[t] \in Fds THEN sock[thTo[t]] ELSE NoProc
  IN  /\ thPc[t] = "handle"
      /\ down' = IF p # NoProc /\ link[p] = "on"
                   THEN [down EXCEPT ![p] = Append(@, thReq[t])] ELSE down
      /\ thPc' = [thPc EXCEPT ![t] = "run"]
      /\ thReq' = [thReq EXCEPT ![t] = NoFrame] /\ thTo' = [thTo EXCEPT ![t] = 0]
      /\ UNCHANGED <<backlog, sock, sockfd, slotFd, clientCnt, thFd, link, up>>

\* recv returns 0 as the agent is gone, or fails on a closed descriptor
Eof(t) ==
  LET p == Peer(t)
  IN  /\ thPc[t] = "run"
      /\ p # NoProc => link[p] = "gone" /\ up[p] = <<>>
      /\ thPc' = [thPc EXCEPT ![t] = "close"]
      /\ UNCHANGED <<backlog, sock, sockfd, slotFd, clientCnt, thFd, thReq, thTo, linkVars>>

\* closes the descriptor, whoever's it is by now, and ends
Close(t) ==
  LET p == Peer(t)
  IN  /\ thPc[t] = "close"
      /\ sock' = IF p # NoProc THEN [sock EXCEPT ![thFd[t]] = NoProc] ELSE sock
      /\ IF p # NoProc /\ link[p] = "on"
           THEN link' = [link EXCEPT ![p] = "reset"] /\ up' = [up EXCEPT ![p] = <<>>]
           ELSE UNCHANGED <<link, up>>
      /\ thPc' = [thPc EXCEPT ![t] = "none"] /\ thFd' = [thFd EXCEPT ![t] = 0]
      /\ UNCHANGED <<backlog, sockfd, slotFd, clientCnt, thReq, thTo, down>>

Server ==
  \/ AcceptFails
  \/ \E t \in Threads :
       \/ Accept(t) \/ Start(t) \/ Answer(t) \/ Eof(t) \/ Close(t)
       \/ \E p \in Procs : \E k \in 1 .. Len(up[p]) : Receive(t, k)
=============================================================================
