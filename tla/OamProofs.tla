------------------------------ MODULE OamProofs -----------------------------
(***************************************************************************)
(* Proofs about Oam: types, requests that own their records, answers that  *)
(* reach no other request of a process, the count of connections, and that *)
(* the client library implements RequestReply.                             *)
(***************************************************************************)
EXTENDS Oam, FiniteSetTheorems, WellFoundedInduction, TLAPS

(***************************************************************************)
(* What First and Lowest choose.                                           *)
(***************************************************************************)
\* A set of numbers has a least one.
LEMMA Least ==
  ASSUME NEW S \in SUBSET Nat, S # {}
  PROVE  \E i \in S : \A j \in S : i <= j
<1> DEFINE Upto == { 0 .. i : i \in S }
<1>1. Upto # {}
  OBVIOUS
<1>2. Upto \subseteq FiniteSubsetsOf(Nat)
  <2> SUFFICES ASSUME NEW i \in S PROVE 0 .. i \in SUBSET Nat /\ IsFiniteSet(0 .. i)
    BY DEF FiniteSubsetsOf
  <2>1. i \in Int /\ 0 \in Int /\ 0 .. i \subseteq Nat
    OBVIOUS
  <2> QED
    BY <2>1, FS_Interval
<1>3. PICK U \in Upto : \A V \in Upto : ~(<<V, U>> \in StrictSubsetOrdering(Nat))
  BY <1>1, <1>2, FS_StrictSubsetOrderingWellFounded, WFMin
<1>4. PICK i \in S : U = 0 .. i
  OBVIOUS
<1>5. SUFFICES ASSUME NEW j \in S, j < i PROVE FALSE
  BY <1>4
<1>6. <<0 .. j, U>> \in StrictSubsetOrdering(Nat)
  <2>1. 0 .. j \in SUBSET Nat /\ U \in SUBSET Nat
    BY <1>4
  <2>2. 0 .. j \subseteq U /\ i \in U /\ i \notin 0 .. j
    BY <1>4, <1>5
  <2> QED
    BY <2>1, <2>2 DEF StrictSubsetOrdering
<1> QED
  BY <1>3, <1>6

\* The first record of those allowed is one of them.
LEMMA FirstOf ==
  ASSUME NEW S \in SUBSET Reqs, S # {}
  PROVE  First(S) \in S
<1>1. S \in SUBSET Nat
  BY SizesAssumption DEF Reqs
<1> QED
  BY <1>1, Least DEF First

\* accept returns a descriptor that is not open.
LEMMA LowestIsFree ==
  ASSUME Fds \ Open # {}
  PROVE  Lowest \in Fds /\ sock[Lowest] = NoProc
<1>1. Fds \ Open \in SUBSET Nat
  BY ServerAssumption
<1>2. Lowest \in Fds \ Open
  BY <1>1, Least DEF Lowest
<1> QED
  BY <1>2 DEF Open

\* What is left of a stream after a recv was there before.
LEMMA StreamAfter ==
  ASSUME NEW s \in Seq(Frames), NEW k \in 1 .. Len(s)
  PROVE  /\ After(s, k) \in Seq(Frames) /\ Head(s) \in Frames /\ 1 \in 1 .. Len(s)
         /\ Head(s) = s[1]
         /\ \A i \in 1 .. Len(After(s, k)) : \E j \in 1 .. Len(s) : After(s, k)[i] = s[j]
<1>1. Len(s) \in Nat /\ k \in Nat /\ 1 <= k /\ k <= Len(s) /\ \A j \in 1 .. Len(s) : s[j] \in Frames
  OBVIOUS
<1>2. s # <<>> /\ Head(s) = s[1] /\ 1 \in 1 .. Len(s)
  BY <1>1
<1> DEFINE a == SubSeq(s, k + 1, Len(s))
<1>3. /\ a \in Seq(Frames) /\ Len(a) = Len(s) - k
      /\ \A i \in 1 .. Len(s) - k : a[i] = s[k + i] /\ k + i \in 1 .. Len(s)
  BY <1>1
<1> QED
  BY <1>1, <1>2, <1>3 DEF After

\* A stream with a frame appended has that frame and those there before.
LEMMA StreamAppend ==
  ASSUME NEW s \in Seq(Frames), NEW f \in Frames
  PROVE  /\ Append(s, f) \in Seq(Frames)
         /\ \A k \in 1 .. Len(Append(s, f)) :
              Append(s, f)[k] = f \/ (k \in 1 .. Len(s) /\ Append(s, f)[k] = s[k])
<1> DEFINE a == Append(s, f)
<1>1. /\ a \in Seq(Frames) /\ Len(s) \in Nat /\ Len(a) = Len(s) + 1
      /\ a[Len(s) + 1] = f /\ \A k \in 1 .. Len(s) : a[k] = s[k]
  OBVIOUS
<1>2. \A k \in 1 .. Len(a) : k = Len(s) + 1 \/ k \in 1 .. Len(s)
  BY <1>1
<1> HIDE DEF a
<1>3. \A k \in 1 .. Len(a) : a[k] = f \/ (k \in 1 .. Len(s) /\ a[k] = s[k])
  BY <1>1, <1>2
<1> QED
  BY <1>1, <1>3 DEF a
-----------------------------------------------------------------------------
(***************************************************************************)
(* The inductive invariant.                                                *)
(***************************************************************************)
LinkTypes ==
  /\ link \in [Procs -> {"off", "on", "reset", "shut", "gone"}]
  /\ up \in [Procs -> Seq(Frames)] /\ down \in [Procs -> Seq(Frames)]

RecordType == [valid : BOOLEAN, id : 0 .. MaxId, msg : Callers \cup {NoCaller}, sem : 0 .. 1]

ClientTypes ==
  /\ reqs \in [Procs -> [Reqs -> RecordType]]
  /\ reqNext \in [Procs -> 0 .. MaxId]
  /\ pc \in [Callers -> {"idle", "wait", "done"}] /\ rec \in [Callers -> 0 .. NReq]
  /\ ret \in [Callers -> {"none", "ok", "too_much", "not_sent", "timeout"}]
  /\ data \in [Callers -> Frames \cup {NoAnswer}]

ServerTypes ==
  /\ backlog \in Seq(Procs) /\ sock \in [Fds -> Procs \cup {NoProc}]
  /\ sockfd \in Fds \cup {0} /\ slotFd \in Fds \cup {0} /\ clientCnt \in Nat
  /\ thPc \in [Threads -> {"none", "start", "run", "handle", "close"}]
  /\ thFd \in [Threads -> Fds \cup {0}] /\ thTo \in [Threads -> Fds \cup {0}]
  /\ thReq \in [Threads -> Frames \cup {NoFrame}]

\* A frame that is under way: its number has been given out, and whichever
\* record of its process has that number is about the frame's caller.
Sound(f) ==
  /\ f.id < reqNext[Proc[f.from]]
  /\ \A i \in Reqs :
       LET r == reqs[Proc[f.from]][i] IN r.valid /\ r.id = f.id => r.msg = f.from

FramesSound ==
  /\ \A p \in Procs : /\ \A k \in 1 .. Len(up[p]) : Sound(up[p][k])
                      /\ \A k \in 1 .. Len(down[p]) : Sound(down[p][k])
  /\ \A t \in Threads : thPc[t] = "handle" => thReq[t] \in Frames /\ Sound(thReq[t])

NumbersGiven == \A p \in Procs, i \in Reqs : reqs[p][i].valid => reqs[p][i].id < reqNext[p]

\* The answer in a message is the right one, if it is from this process, and
\* whoever has been posted or returns OAM_E_OK has one.
AnswersOK == \A c \in Callers : pc[c] # "idle" =>
  LET r == reqs[Proc[c]][rec[c]]
  IN  /\ data[c] # NoAnswer /\ Proc[data[c].from] = Proc[c] =>
           data[c] = [id |-> r.id, from |-> c]
      /\ r.sem # 0 => data[c] # NoAnswer
      /\ pc[c] = "wait" => ret[c] = "ok"
      /\ pc[c] = "done" /\ ret[c] = "ok" => data[c] # NoAnswer

ClientInv == RecordsOwned /\ NumbersGiven /\ AnswersOK

Inv == LinkTypes /\ ClientTypes /\ ServerTypes /\ FramesSound /\ ClientInv

\* The inductive invariant is as strong as the invariants the run checks.
LEMMA InvImplies == Inv => TypeOK /\ RecordsOwned /\ OkIsAnswered
<1> SUFFICES ASSUME Inv PROVE TypeOK /\ RecordsOwned /\ OkIsAnswered
  OBVIOUS
<1>1. TypeOK
  BY DEF Inv, TypeOK, LinkTypes, ClientTypes, ServerTypes, RecordType
<1>2. OkIsAnswered
  <2> SUFFICES ASSUME NEW c \in Callers, pc[c] = "done", ret[c] = "ok"
               PROVE  /\ data[c] # NoAnswer
                      /\ Proc[data[c].from] = Proc[c] =>
                           data[c] = [id |-> reqs[Proc[c]][rec[c]].id, from |-> c]
    BY DEF OkIsAnswered
  <2> QED
    BY DEF Inv, ClientInv, AnswersOK
<1> QED
  BY <1>1, <1>2 DEF Inv, ClientInv

\* No frame, no record in use, nobody in a request.
LEMMA InvInit == Init => Inv
<1> SUFFICES ASSUME Init PROVE Inv
  OBVIOUS
<1> USE DEF Init, LinkInit, ClientInit, ServerInit
<1>1. LinkTypes
  BY DEF LinkTypes
<1>2. ClientTypes
  <2>1. Unused \in RecordType /\ 0 \in 0 .. MaxId /\ 0 \in 0 .. NReq
    BY SizesAssumption DEF Unused, RecordType
  <2> QED
    BY <2>1 DEF ClientTypes
<1>3. ServerTypes
  BY DEF ServerTypes
<1>4. FramesSound
  BY DEF FramesSound
<1>5. ClientInv
  BY DEF ClientInv, RecordsOwned, NumbersGiven, AnswersOK, Unused
<1> QED
  BY <1>1, <1>2, <1>3, <1>4, <1>5 DEF Inv

(***************************************************************************)
(* Steps of callers and receive threads.                                   *)
(***************************************************************************)
\* Records are released, or used again with a number not given out before.
RecordsMoveOn ==
  /\ \A p \in Procs : reqNext[p] <= reqNext'[p]
  /\ \A p \in Procs, i \in Reqs : reqs'[p][i].valid =>
       \/ /\ reqs[p][i].valid
          /\ reqs'[p][i].id = reqs[p][i].id /\ reqs'[p][i].msg = reqs[p][i].msg
       \/ reqs'[p][i].id >= reqNext[p]

\* A frame under way stays sound.
LEMMA StaysSound ==
  ASSUME ClientTypes, ClientTypes', RecordsMoveOn, NEW f \in Frames, Sound(f)
  PROVE  Sound(f)'
<1> DEFINE p == Proc[f.from]
<1>1. p \in Procs /\ f.id \in Nat
  BY CallersAssumption, SizesAssumption DEF Frames
<1>2. reqNext[p] \in Nat /\ reqNext'[p] \in Nat /\ \A i \in Reqs : reqs'[p][i].id \in Nat
  BY <1>1, SizesAssumption DEF ClientTypes, RecordType
<1>3. f.id < reqNext'[p]
  BY <1>1, <1>2 DEF RecordsMoveOn, Sound
<1>4. ASSUME NEW i \in Reqs, reqs'[p][i].valid, reqs'[p][i].id = f.id
      PROVE  reqs'[p][i].msg = f.from
  <2>1. reqs'[p][i].id < reqNext[p]
    BY <1>4 DEF Sound
  <2>2. reqs[p][i].valid /\ reqs[p][i].id = f.id /\ reqs'[p][i].msg = reqs[p][i].msg
    BY <1>1, <1>2, <1>4, <2>1 DEF RecordsMoveOn
  <2> QED
    BY <2>2 DEF Sound
<1> QED
  BY <1>3, <1>4 DEF Sound

\* The frames under way are sound, if each is a frame that is.
LEMMA FramesSoundNext ==
  ASSUME \A p \in Procs : \A k \in 1 .. Len(up'[p]) :
           \E f \in Frames : f = up'[p][k] /\ Sound(f)',
         \A p \in Procs : \A k \in 1 .. Len(down'[p]) :
           \E f \in Frames : f = down'[p][k] /\ Sound(f)',
         \A t \in Threads : thPc'[t] = "handle" =>
           \E f \in Frames : f = thReq'[t] /\ Sound(f)'
  PROVE  FramesSound'
<1>1. ASSUME NEW p \in Procs, NEW k \in 1 .. Len(up'[p]) PROVE Sound(up[p][k])'
  <2>1. PICK f \in Frames : f = up'[p][k] /\ Sound(f)'
    BY <1>1
  <2> QED
    BY ONLY <2>1 DEF Sound
<1>2. ASSUME NEW p \in Procs, NEW k \in 1 .. Len(down'[p]) PROVE Sound(down[p][k])'
  <2>1. PICK f \in Frames : f = down'[p][k] /\ Sound(f)'
    BY <1>2
  <2> QED
    BY ONLY <2>1 DEF Sound
<1>3. ASSUME NEW t \in Threads, thPc'[t] = "handle"
      PROVE  thReq'[t] \in Frames /\ Sound(thReq[t])'
  <2>1. PICK f \in Frames : f = thReq'[t] /\ Sound(f)'
    BY <1>3
  <2>2. Sound(thReq[t])'
    BY ONLY <2>1 DEF Sound
  <2> QED
    BY <2>1, <2>2
<1> QED
  BY <1>1, <1>2, <1>3 DEF FramesSound

\* All the frames do, when the server and the streams stay the same.
LEMMA FramesStaySound ==
  ASSUME LinkTypes, ClientTypes, ClientTypes', RecordsMoveOn, FramesSound,
         UNCHANGED serverVars,
         up' = up, down' = down
  PROVE  FramesSound'
<1>1. \A p \in Procs : /\ \A k \in 1 .. Len(up[p]) : up[p][k] \in Frames
                       /\ \A k \in 1 .. Len(down[p]) : down[p][k] \in Frames
  BY DEF LinkTypes
<1>2. thPc' = thPc /\ thReq' = thReq
  BY DEF serverVars, thVars
<1>3. \A f \in Frames : Sound(f) => Sound(f)'
  BY StaysSound
<1> QED
  BY <1>1, <1>2, <1>3 DEF FramesSound

\* A request that ends at once changes no record.
LEMMA RefusedKeepsInv ==
  ASSUME Inv, NEW c \in Callers, TooMany(c) \/ SendFails(c), UNCHANGED serverVars
  PROVE  Inv'
<1>1. /\ LinkTypes /\ ClientTypes /\ ServerTypes /\ FramesSound
      /\ RecordsOwned /\ NumbersGiven /\ AnswersOK
  BY DEF Inv, ClientInv
<1>2. /\ UNCHANGED <<reqs, pc, rec, link, up, down>> /\ pc[c] = "idle"
      /\ \/ reqNext' = reqNext
         \/ /\ reqNext[Proc[c]] < MaxId
            /\ reqNext' = [reqNext EXCEPT ![Proc[c]] = @ + 1]
      /\ data' = [data EXCEPT ![c] = NoAnswer]
      /\ \E r \in {"too_much", "not_sent"} : ret' = [ret EXCEPT ![c] = r]
  <2>1. CASE TooMany(c)
    BY <2>1 DEF TooMany, May, linkVars
  <2>2. CASE SendFails(c)
    BY <2>2 DEF SendFails, May, linkVars
  <2> QED
    BY <2>1, <2>2
<1>3. Proc[c] \in Procs
  BY CallersAssumption
<1>4. /\ reqNext' \in [Procs -> 0 .. MaxId]
      /\ \A p \in Procs : reqNext[p] \in Nat /\ reqNext'[p] \in Nat /\ reqNext[p] <= reqNext'[p]
  <2>1. /\ MaxId \in Nat /\ reqNext \in [Procs -> 0 .. MaxId]
        /\ \A p \in Procs : reqNext[p] \in 0 .. MaxId /\ reqNext[p] \in Nat
    BY <1>1, SizesAssumption DEF ClientTypes
  <2>2. CASE reqNext' = reqNext
    BY <2>1, <2>2
  <2>3. CASE reqNext[Proc[c]] < MaxId /\ reqNext' = [reqNext EXCEPT ![Proc[c]] = @ + 1]
    <3>1. reqNext[Proc[c]] + 1 \in 0 .. MaxId
      BY <1>3, <2>1, <2>3
    <3> QED
      BY <1>3, <2>1, <2>3, <3>1
  <2> QED
    BY <1>2, <2>2, <2>3
<1>5. ClientTypes' /\ LinkTypes'
  BY <1>1, <1>2, <1>4 DEF ClientTypes, LinkTypes
<1>6. ServerTypes'
  BY <1>1 DEF ServerTypes, serverVars, thVars
<1>7. RecordsMoveOn
  BY <1>2, <1>4 DEF RecordsMoveOn
<1>8. FramesSound'
  BY <1>1, <1>2, <1>5, <1>7, FramesStaySound
<1>9. RecordsOwned'
  BY <1>1, <1>2 DEF RecordsOwned
<1>10. NumbersGiven'
  <2>1. \A p \in Procs, i \in Reqs : reqs[p][i].id \in Nat
    BY <1>1, SizesAssumption DEF ClientTypes, RecordType
  <2> QED
    BY <1>1, <1>2, <1>4, <2>1 DEF NumbersGiven
<1>11. AnswersOK'
  <2> SUFFICES ASSUME NEW d \in Callers, pc[d] # "idle"
               PROVE  d # c /\ data'[d] = data[d] /\ ret'[d] = ret[d]
    BY <1>1, <1>2 DEF AnswersOK
  <2> QED
    BY <1>1, <1>2 DEF ClientTypes
<1> QED
  BY <1>5, <1>6, <1>8, <1>9, <1>10, <1>11 DEF Inv, ClientInv

\* A request is sent: a free record gets a number not given out before.
LEMMA RequestKeepsInv ==
  ASSUME Inv, NEW c \in Callers, Request(c), UNCHANGED serverVars
  PROVE  Inv'
<1> DEFINE p == Proc[c]
<1>1. /\ LinkTypes /\ ClientTypes /\ ServerTypes /\ FramesSound
      /\ RecordsOwned /\ NumbersGiven /\ AnswersOK
  BY DEF Inv, ClientInv
<1>3. p \in Procs
  BY CallersAssumption
<1>4. PICK i \in Reqs : i = First(Free(p)) /\ ~reqs[p][i].valid
  <2>1. First(Free(p)) \in Free(p)
    BY FirstOf DEF Free, Request
  <2> QED
    BY <2>1 DEF Free
<1>5. PICK n \in 0 .. MaxId : n = reqNext[p] /\ n + 1 \in 0 .. MaxId /\ n \in Nat
  BY <1>1, <1>3, SizesAssumption DEF ClientTypes, Request
<1> DEFINE f == [id |-> n, from |-> c]
           r == [valid |-> TRUE, id |-> n, msg |-> c, sem |-> 0]
<1>2. /\ pc[c] = "idle" /\ n < MaxId
      /\ reqs' = [reqs EXCEPT ![p][i] = r]
      /\ reqNext' = [reqNext EXCEPT ![p] = n + 1]
      /\ pc' = [pc EXCEPT ![c] = "wait"] /\ rec' = [rec EXCEPT ![c] = i]
      /\ ret' = [ret EXCEPT ![c] = "ok"] /\ data' = [data EXCEPT ![c] = NoAnswer]
      /\ UNCHANGED <<link, down>> /\ SendUp(p, f)
  BY <1>4, <1>5 DEF Request, May
<1>6. r \in RecordType /\ f \in Frames
  BY <1>5 DEF RecordType, Frames
<1> HIDE DEF r, f, p
<1>7. /\ reqs'[p][i] = r
      /\ \A q \in Procs, j \in Reqs : <<q, j>> # <<p, i>> => reqs'[q][j] = reqs[q][j]
  BY <1>1, <1>2, <1>3, <1>4 DEF ClientTypes
<1>8. ClientTypes'
  <2>1. reqs' \in [Procs -> [Reqs -> RecordType]]
    BY <1>1, <1>2, <1>3, <1>4, <1>6 DEF ClientTypes
  <2>2. reqNext' \in [Procs -> 0 .. MaxId]
    BY <1>1, <1>2, <1>3, <1>5 DEF ClientTypes
  <2>3. i \in 0 .. NReq
    BY <1>4, SizesAssumption DEF Reqs
  <2> QED
    BY <1>1, <1>2, <2>1, <2>2, <2>3 DEF ClientTypes
<1>9. RecordsMoveOn
  <2>1. \A q \in Procs : reqNext[q] <= reqNext'[q]
    <3>1. \A q \in Procs : reqNext[q] \in Nat
      BY <1>1, SizesAssumption DEF ClientTypes
    <3> QED
      BY <1>1, <1>2, <1>3, <1>5, <3>1 DEF ClientTypes
  <2>2. ASSUME NEW q \in Procs, NEW j \in Reqs, reqs'[q][j].valid
        PROVE  \/ /\ reqs[q][j].valid
                  /\ reqs'[q][j].id = reqs[q][j].id /\ reqs'[q][j].msg = reqs[q][j].msg
               \/ reqs'[q][j].id >= reqNext[q]
    <3>1. CASE q = p /\ j = i
      BY <1>5, <1>7, <3>1 DEF r
    <3>2. CASE ~(q = p /\ j = i)
      BY <1>7, <2>2, <3>2
    <3> QED
      BY <3>1, <3>2
  <2> QED
    BY <2>1, <2>2 DEF RecordsMoveOn
<1>10. Sound(f)'
  <2>1. reqNext'[p] = n + 1 /\ f.from = c /\ f.id = n /\ Proc[f.from] = p
    BY <1>1, <1>2, <1>3 DEF ClientTypes, f, p
  <2>2. ASSUME NEW j \in Reqs, reqs'[p][j].valid, reqs'[p][j].id = n
        PROVE  reqs'[p][j].msg = c
    <3>1. CASE j = i
      BY <1>7, <3>1 DEF r
    <3>2. CASE j # i
      <4>1. reqs[p][j].valid /\ reqs[p][j].id = n
        BY <1>3, <1>7, <2>2, <3>2
      <4>2. n < n
        BY <1>1, <1>3, <1>5, <4>1 DEF NumbersGiven
      <4> QED
        BY <1>5, <4>2
    <3> QED
      BY <3>1, <3>2
  <2> QED
    BY <1>5, <2>1, <2>2 DEF Sound
<1>11. LinkTypes' /\ \A q \in Procs : \A k \in 1 .. Len(up'[q]) :
         up'[q][k] = f \/ (k \in 1 .. Len(up[q]) /\ up'[q][k] = up[q][k])
  <2>1. CASE up' = up
    BY <1>1, <1>2, <2>1 DEF LinkTypes
  <2>2. CASE up' = [up EXCEPT ![p] = Append(@, f)]
    <3>1. up[p] \in Seq(Frames)
      BY <1>1, <1>3 DEF LinkTypes
    <3>2. /\ Append(up[p], f) \in Seq(Frames)
          /\ \A k \in 1 .. Len(Append(up[p], f)) :
               Append(up[p], f)[k] = f \/
                 (k \in 1 .. Len(up[p]) /\ Append(up[p], f)[k] = up[p][k])
      BY <1>6, <3>1, StreamAppend
    <3> QED
      BY <1>1, <1>2, <1>3, <2>2, <3>2 DEF LinkTypes
  <2> QED
    BY <1>2, <2>1, <2>2 DEF SendUp
<1>12. FramesSound'
  <2>1. \A g \in Frames : Sound(g) => Sound(g)'
    BY <1>1, <1>8, <1>9, StaysSound
  <2>2. thPc' = thPc /\ thReq' = thReq /\ down' = down
    BY <1>2 DEF serverVars, thVars
  <2>3. \A q \in Procs : /\ \A k \in 1 .. Len(up[q]) : up[q][k] \in Frames
                         /\ \A k \in 1 .. Len(down[q]) : down[q][k] \in Frames
    BY <1>1 DEF LinkTypes
  <2>4. \A q \in Procs : \A k \in 1 .. Len(up'[q]) :
          \E g \in Frames : g = up'[q][k] /\ Sound(g)'
    BY <1>1, <1>6, <1>10, <1>11, <2>1, <2>3 DEF FramesSound
  <2>5. \A q \in Procs : \A k \in 1 .. Len(down'[q]) :
          \E g \in Frames : g = down'[q][k] /\ Sound(g)'
    BY <1>1, <2>1, <2>2, <2>3 DEF FramesSound
  <2>6. \A t \in Threads : thPc'[t] = "handle" =>
          \E g \in Frames : g = thReq'[t] /\ Sound(g)'
    BY <1>1, <2>1, <2>2 DEF FramesSound
  <2> QED
    BY <2>4, <2>5, <2>6, FramesSoundNext
<1>13. RecordsOwned'
  <2>1. ASSUME NEW d \in Callers, pc'[d] # "idle"
        PROVE  /\ rec'[d] \in Reqs /\ reqs'[Proc[d]][rec'[d]].valid
               /\ reqs'[Proc[d]][rec'[d]].msg = d
    <3>1. CASE d = c
      <4>1. rec'[d] = i
        BY <1>1, <1>2, <3>1 DEF ClientTypes
      <4> QED
        BY <1>4, <1>7, <3>1, <4>1 DEF r, p
    <3>2. CASE d # c
      <4>1. /\ pc[d] # "idle" /\ rec'[d] = rec[d] /\ rec[d] \in Reqs
            /\ reqs[Proc[d]][rec[d]].valid /\ reqs[Proc[d]][rec[d]].msg = d
        BY <1>1, <1>2, <2>1, <3>2 DEF ClientTypes, RecordsOwned
      <4>2. Proc[d] \in Procs /\ <<Proc[d], rec[d]>> # <<p, i>>
        BY <1>4, <4>1, CallersAssumption
      <4> QED
        BY <1>7, <4>1, <4>2
    <3> QED
      BY <3>1, <3>2
  <2>2. ASSUME NEW q \in Procs, NEW j \in Reqs, reqs'[q][j].valid
        PROVE  LET d == reqs'[q][j].msg
               IN  d \in Callers /\ Proc[d] = q /\ pc'[d] # "idle" /\ rec'[d] = j
    <3>1. CASE q = p /\ j = i
      BY <1>1, <1>2, <1>7, <3>1 DEF ClientTypes, r, p
    <3>2. CASE ~(q = p /\ j = i)
      <4>1. reqs'[q][j] = reqs[q][j] /\ reqs[q][j].valid
        BY <1>7, <2>2, <3>2
      <4>2. /\ reqs[q][j].msg \in Callers /\ Proc[reqs[q][j].msg] = q
            /\ pc[reqs[q][j].msg] # "idle" /\ rec[reqs[q][j].msg] = j
        BY <1>1, <4>1 DEF RecordsOwned
      <4>3. reqs[q][j].msg # c
        BY <1>2, <4>2
      <4> QED
        BY <1>1, <1>2, <4>1, <4>2, <4>3 DEF ClientTypes
    <3> QED
      BY <3>1, <3>2
  <2> QED
    BY <2>1, <2>2 DEF RecordsOwned
<1>14. NumbersGiven'
  <2> SUFFICES ASSUME NEW q \in Procs, NEW j \in Reqs, reqs'[q][j].valid
               PROVE  reqs'[q][j].id < reqNext'[q]
    BY DEF NumbersGiven
  <2>1. CASE q = p /\ j = i
    BY <1>1, <1>2, <1>3, <1>5, <1>7, <2>1 DEF ClientTypes, r
  <2>2. CASE ~(q = p /\ j = i)
    <3>1. reqs'[q][j] = reqs[q][j] /\ reqs[q][j].id < reqNext[q]
      BY <1>1, <1>7, <2>2 DEF NumbersGiven
    <3>2. reqNext[q] <= reqNext'[q] /\ reqNext[q] \in Nat /\ reqNext'[q] \in Nat /\ reqs[q][j].id \in Nat
      BY <1>1, <1>8, <1>9, SizesAssumption DEF RecordsMoveOn, ClientTypes, RecordType
    <3> QED
      BY <3>1, <3>2
  <2> QED
    BY <2>1, <2>2
<1>15. AnswersOK'
  <2> SUFFICES ASSUME NEW d \in Callers, pc'[d] # "idle"
               PROVE  LET s == reqs'[Proc[d]][rec'[d]]
                      IN  /\ data'[d] # NoAnswer /\ Proc[data'[d].from] = Proc[d] =>
                               data'[d] = [id |-> s.id, from |-> d]
                          /\ s.sem # 0 => data'[d] # NoAnswer
                          /\ pc'[d] = "wait" => ret'[d] = "ok"
                          /\ pc'[d] = "done" /\ ret'[d] = "ok" => data'[d] # NoAnswer
    BY DEF AnswersOK
  <2>1. CASE d = c
    <3>1. rec'[d] = i /\ data'[d] = NoAnswer /\ pc'[d] = "wait" /\ ret'[d] = "ok"
      BY <1>1, <1>2, <2>1 DEF ClientTypes
    <3>2. reqs'[Proc[d]][rec'[d]].sem = 0
      BY <1>7, <2>1, <3>1 DEF r, p
    <3> QED
      BY <3>1, <3>2
  <2>2. CASE d # c
    <3>1. /\ pc[d] # "idle" /\ pc'[d] = pc[d] /\ rec'[d] = rec[d] /\ rec[d] \in Reqs
          /\ reqs[Proc[d]][rec[d]].valid
          /\ data'[d] = data[d] /\ ret'[d] = ret[d]
      BY <1>1, <1>2, <2>2 DEF ClientTypes, RecordsOwned
    <3>2. Proc[d] \in Procs /\ <<Proc[d], rec[d]>> # <<p, i>>
      BY <1>4, <3>1, CallersAssumption
    <3>3. reqs'[Proc[d]][rec'[d]] = reqs[Proc[d]][rec[d]]
      BY <1>7, <3>1, <3>2
    <3> QED
      BY <1>1, <3>1, <3>3 DEF AnswersOK
  <2> QED
    BY <2>1, <2>2
<1>16. ServerTypes'
  BY <1>1 DEF ServerTypes, serverVars, thVars
<1> QED
  BY <1>8, <1>11, <1>12, <1>13, <1>14, <1>15, <1>16 DEF Inv, ClientInv

\* The semaphore is taken: the answer is there.
LEMMA AnsweredKeepsInv ==
  ASSUME Inv, NEW c \in Callers, Answered(c), UNCHANGED serverVars
  PROVE  Inv'
<1> DEFINE p == Proc[c]
<1>1. /\ LinkTypes /\ ClientTypes /\ ServerTypes /\ FramesSound
      /\ RecordsOwned /\ NumbersGiven /\ AnswersOK
  BY DEF Inv, ClientInv
<1>2. /\ pc[c] = "wait" /\ reqs[p][rec[c]].sem > 0
      /\ reqs' = [reqs EXCEPT ![p][rec[c]].sem = @ - 1]
      /\ pc' = [pc EXCEPT ![c] = "done"]
      /\ UNCHANGED <<reqNext, rec, ret, data, link, up, down>>
  BY DEF Answered, linkVars
<1>3. p \in Procs
  BY CallersAssumption
<1>4. PICK i \in Reqs : i = rec[c]
  BY <1>1, <1>2 DEF RecordsOwned
<1>5. reqs[p][i] \in RecordType /\ reqs[p][i].sem = 1
  BY <1>1, <1>2, <1>3, <1>4 DEF ClientTypes, RecordType
<1>6. [reqs[p][i] EXCEPT !.sem = 0] \in RecordType
  BY <1>5 DEF RecordType
<1>7. reqs' = [reqs EXCEPT ![p][i] = [reqs[p][i] EXCEPT !.sem = 0]]
  BY <1>1, <1>2, <1>3, <1>4, <1>5 DEF ClientTypes, RecordType
<1>8. ASSUME NEW q \in Procs, NEW j \in Reqs
      PROVE  /\ reqs'[q][j].valid = reqs[q][j].valid
             /\ reqs'[q][j].id = reqs[q][j].id /\ reqs'[q][j].msg = reqs[q][j].msg
             /\ reqs'[q][j].sem # 0 => reqs[q][j].sem # 0
  <2>1. CASE q = p /\ j = i
    <3>1. reqs'[q][j] = [reqs[p][i] EXCEPT !.sem = 0]
      BY <1>1, <1>3, <1>7, <2>1 DEF ClientTypes
    <3> QED
      BY <1>5, <2>1, <3>1 DEF RecordType
  <2>2. CASE ~(q = p /\ j = i)
    BY <1>1, <1>3, <1>7, <2>2 DEF ClientTypes
  <2> QED
    BY <2>1, <2>2
<1>9. ClientTypes' /\ LinkTypes' /\ ServerTypes'
  <2>1. reqs' \in [Procs -> [Reqs -> RecordType]]
    BY <1>1, <1>3, <1>4, <1>6, <1>7 DEF ClientTypes
  <2>2. ClientTypes'
    BY <1>1, <1>2, <2>1 DEF ClientTypes
  <2>3. LinkTypes' /\ ServerTypes'
    BY <1>1, <1>2 DEF LinkTypes, ServerTypes, serverVars, thVars
  <2> QED
    BY <2>2, <2>3
<1>10. RecordsMoveOn
  <2>1. \A q \in Procs : reqNext'[q] = reqNext[q] /\ reqNext[q] \in Nat
    BY <1>1, <1>2, SizesAssumption DEF ClientTypes
  <2> QED
    BY <1>8, <2>1 DEF RecordsMoveOn
<1>11. FramesSound'
  BY <1>1, <1>2, <1>9, <1>10, FramesStaySound
<1>12. \A d \in Callers : pc'[d] # "idle" => pc[d] # "idle" /\ Proc[d] \in Procs
  BY <1>1, <1>2, CallersAssumption DEF ClientTypes
<1>13. \A d \in Callers : pc[d] # "idle" => pc'[d] # "idle"
  BY <1>1, <1>2 DEF ClientTypes
<1>14. RecordsOwned' /\ NumbersGiven'
  <2>1. ASSUME NEW d \in Callers, pc'[d] # "idle"
        PROVE  /\ rec'[d] \in Reqs /\ reqs'[Proc[d]][rec'[d]].valid
               /\ reqs'[Proc[d]][rec'[d]].msg = d
    <3>1. /\ rec'[d] = rec[d] /\ rec[d] \in Reqs /\ Proc[d] \in Procs
          /\ reqs[Proc[d]][rec[d]].valid /\ reqs[Proc[d]][rec[d]].msg = d
      BY <1>1, <1>2, <1>12, <2>1 DEF RecordsOwned
    <3> QED
      BY <1>8, <3>1
  <2>2. ASSUME NEW q \in Procs, NEW j \in Reqs, reqs'[q][j].valid
        PROVE  /\ LET d == reqs'[q][j].msg
                  IN  d \in Callers /\ Proc[d] = q /\ pc'[d] # "idle" /\ rec'[d] = j
               /\ reqs'[q][j].id < reqNext'[q]
    <3>1. reqs[q][j].valid
      BY <1>8, <2>2
    <3>2. /\ reqs[q][j].msg \in Callers /\ Proc[reqs[q][j].msg] = q
          /\ pc[reqs[q][j].msg] # "idle" /\ rec[reqs[q][j].msg] = j
          /\ reqs[q][j].id < reqNext[q]
      BY <1>1, <3>1 DEF RecordsOwned, NumbersGiven
    <3>3. reqs'[q][j].msg = reqs[q][j].msg /\ reqs'[q][j].id = reqs[q][j].id
      BY <1>8
    <3> QED
      BY <1>2, <1>13, <3>2, <3>3
  <2> QED
    BY <2>1, <2>2 DEF RecordsOwned, NumbersGiven
<1>15. AnswersOK'
  <2> SUFFICES ASSUME NEW d \in Callers, pc'[d] # "idle"
               PROVE  LET s == reqs'[Proc[d]][rec[d]]
                      IN  /\ data[d] # NoAnswer /\ Proc[data[d].from] = Proc[d] =>
                               data[d] = [id |-> s.id, from |-> d]
                          /\ s.sem # 0 => data[d] # NoAnswer
                          /\ pc'[d] = "wait" => ret[d] = "ok"
                          /\ pc'[d] = "done" /\ ret[d] = "ok" => data[d] # NoAnswer
    BY <1>2 DEF AnswersOK
  <2>1. /\ pc[d] # "idle" /\ Proc[d] \in Procs /\ rec[d] \in Reqs
    BY <1>1, <1>12 DEF RecordsOwned
  <2>2. CASE d = c
    <3>1. data[d] # NoAnswer /\ pc'[d] = "done"
      BY <1>1, <1>2, <1>4, <1>5, <2>2 DEF AnswersOK, ClientTypes
    <3>2. reqs'[Proc[d]][rec[d]].id = reqs[Proc[d]][rec[d]].id
      BY <1>8, <2>1
    <3>3. Proc[data[d].from] = Proc[d] =>
            data[d] = [id |-> reqs[Proc[d]][rec[d]].id, from |-> d]
      BY <1>1, <2>1, <3>1 DEF AnswersOK
    <3> QED
      BY <3>1, <3>2, <3>3
  <2>3. CASE d # c
    BY <1>1, <1>2, <1>8, <2>1, <2>3 DEF AnswersOK, ClientTypes
  <2> QED
    BY <2>2, <2>3
<1> QED
  BY <1>9, <1>11, <1>14, <1>15 DEF Inv, ClientInv

\* The wait ends without the semaphore: nothing more is promised to the caller.
LEMMA TimedOutKeepsInv ==
  ASSUME Inv, NEW c \in Callers, TimedOut(c), UNCHANGED serverVars
  PROVE  Inv'
<1>1. /\ LinkTypes /\ ClientTypes /\ ServerTypes /\ FramesSound
      /\ RecordsOwned /\ NumbersGiven /\ AnswersOK
  BY DEF Inv, ClientInv
<1>2. /\ pc[c] = "wait" /\ pc' = [pc EXCEPT ![c] = "done"]
      /\ ret' = [ret EXCEPT ![c] = "timeout"]
      /\ UNCHANGED <<reqs, reqNext, rec, data, link, up, down>>
  BY DEF TimedOut, linkVars
<1>3. ClientTypes' /\ LinkTypes' /\ ServerTypes'
  BY <1>1, <1>2 DEF ClientTypes, LinkTypes, ServerTypes, serverVars, thVars
<1>4. RecordsMoveOn
  <2>1. \A q \in Procs : reqNext'[q] = reqNext[q] /\ reqNext[q] \in Nat
    BY <1>1, <1>2, SizesAssumption DEF ClientTypes
  <2> QED
    BY <1>2, <2>1 DEF RecordsMoveOn
<1>5. FramesSound'
  BY <1>1, <1>2, <1>3, <1>4, FramesStaySound
<1>6. \A d \in Callers : pc[d] # "idle" <=> pc'[d] # "idle"
  BY <1>1, <1>2 DEF ClientTypes
<1>7. RecordsOwned' /\ NumbersGiven'
  BY <1>1, <1>2, <1>6 DEF RecordsOwned, NumbersGiven
<1>8. AnswersOK'
  BY <1>1, <1>2, <1>6 DEF AnswersOK, ClientTypes
<1> QED
  BY <1>3, <1>5, <1>7, <1>8 DEF Inv, ClientInv

\* The record is released with its caller: no other caller's record is touched.
LEMMA ReturnKeepsInv ==
  ASSUME Inv, NEW c \in Callers, Return(c), UNCHANGED serverVars
  PROVE  Inv'
<1> DEFINE p == Proc[c]
<1>1. /\ LinkTypes /\ ClientTypes /\ ServerTypes /\ FramesSound
      /\ RecordsOwned /\ NumbersGiven /\ AnswersOK
  BY DEF Inv, ClientInv
<1>2. /\ pc[c] = "done" /\ pc' = [pc EXCEPT ![c] = "idle"] /\ rec' = [rec EXCEPT ![c] = 0]
      /\ reqs' = [reqs EXCEPT ![p][rec[c]] = Unused]
      /\ UNCHANGED <<reqNext, ret, data, link, up, down>>
  BY DEF Return, linkVars
<1>3. p \in Procs
  BY CallersAssumption
<1>4. PICK i \in Reqs : i = rec[c]
  BY <1>1, <1>2 DEF RecordsOwned
<1>5. Unused \in RecordType /\ ~Unused.valid /\ 0 \in 0 .. NReq
  BY SizesAssumption DEF Unused, RecordType
<1>6. /\ reqs'[p][i] = Unused
      /\ \A q \in Procs, j \in Reqs : <<q, j>> # <<p, i>> => reqs'[q][j] = reqs[q][j]
  BY <1>1, <1>2, <1>3, <1>4 DEF ClientTypes
<1>7. ClientTypes' /\ LinkTypes' /\ ServerTypes'
  <2>1. reqs' \in [Procs -> [Reqs -> RecordType]]
    BY <1>1, <1>2, <1>3, <1>4, <1>5 DEF ClientTypes
  <2>2. ClientTypes'
    BY <1>1, <1>2, <1>5, <2>1 DEF ClientTypes
  <2>3. LinkTypes' /\ ServerTypes'
    BY <1>1, <1>2 DEF LinkTypes, ServerTypes, serverVars, thVars
  <2> QED
    BY <2>2, <2>3
<1>8. \A q \in Procs, j \in Reqs : reqs'[q][j].valid =>
        <<q, j>> # <<p, i>> /\ reqs'[q][j] = reqs[q][j] /\ reqs[q][j].valid
  <2> SUFFICES ASSUME NEW q \in Procs, NEW j \in Reqs, reqs'[q][j].valid
               PROVE  <<q, j>> # <<p, i>>
    BY <1>6
  <2> QED
    BY <1>5, <1>6
<1>9. RecordsMoveOn
  <2>1. \A q \in Procs : reqNext'[q] = reqNext[q] /\ reqNext[q] \in Nat
    BY <1>1, <1>2, SizesAssumption DEF ClientTypes
  <2> QED
    BY <1>8, <2>1 DEF RecordsMoveOn
<1>10. FramesSound'
  BY <1>1, <1>2, <1>7, <1>9, FramesStaySound
<1>11. ASSUME NEW d \in Callers, pc'[d] # "idle"
       PROVE  /\ d # c /\ pc'[d] = pc[d] /\ rec'[d] = rec[d] /\ rec[d] \in Reqs
              /\ Proc[d] \in Procs /\ reqs'[Proc[d]][rec[d]] = reqs[Proc[d]][rec[d]]
              /\ reqs[Proc[d]][rec[d]].valid /\ reqs[Proc[d]][rec[d]].msg = d
  <2>1. d # c /\ pc'[d] = pc[d] /\ rec'[d] = rec[d]
    BY <1>1, <1>2, <1>11 DEF ClientTypes
  <2>2. /\ rec[d] \in Reqs /\ Proc[d] \in Procs
        /\ reqs[Proc[d]][rec[d]].valid /\ reqs[Proc[d]][rec[d]].msg = d
    BY <1>1, <1>11, <2>1, CallersAssumption DEF RecordsOwned
  <2>3. reqs[p][i].msg = c
    BY <1>1, <1>2, <1>4 DEF RecordsOwned
  <2>4. <<Proc[d], rec[d]>> # <<p, i>>
    BY <2>1, <2>2, <2>3
  <2> QED
    BY <1>6, <2>1, <2>2, <2>4
<1>12. RecordsOwned' /\ NumbersGiven'
  <2>1. ASSUME NEW q \in Procs, NEW j \in Reqs, reqs'[q][j].valid
        PROVE  /\ LET d == reqs'[q][j].msg
                  IN  d \in Callers /\ Proc[d] = q /\ pc'[d] # "idle" /\ rec'[d] = j
               /\ reqs'[q][j].id < reqNext'[q]
    <3>1. <<q, j>> # <<p, i>> /\ reqs'[q][j] = reqs[q][j] /\ reqs[q][j].valid
      BY <1>8, <2>1
    <3>2. /\ reqs[q][j].msg \in Callers /\ Proc[reqs[q][j].msg] = q
          /\ pc[reqs[q][j].msg] # "idle" /\ rec[reqs[q][j].msg] = j
          /\ reqs[q][j].id < reqNext[q]
      BY <1>1, <3>1 DEF RecordsOwned, NumbersGiven
    <3>3. reqs[q][j].msg # c
      BY <1>4, <3>1, <3>2
    <3> QED
      BY <1>1, <1>2, <3>1, <3>2, <3>3 DEF ClientTypes
  <2> QED
    BY <1>11, <2>1 DEF RecordsOwned, NumbersGiven
<1>13. AnswersOK'
  BY <1>1, <1>2, <1>11 DEF AnswersOK
<1> QED
  BY <1>7, <1>10, <1>12, <1>13 DEF Inv, ClientInv

(***************************************************************************)
(* Frames that are received, sent or lost.                                 *)
(***************************************************************************)
\* The frames under way are some of those that were, and stay sound.
LEMMA FramesMoveOn ==
  ASSUME ClientTypes, ClientTypes', RecordsMoveOn,
         \A p \in Procs :
           /\ \A k \in 1 .. Len(up'[p]) : \E f \in Frames : f = up'[p][k] /\ Sound(f)
           /\ \A k \in 1 .. Len(down'[p]) : \E f \in Frames : f = down'[p][k] /\ Sound(f),
         \A t \in Threads : thPc'[t] = "handle" =>
           \E f \in Frames : f = thReq'[t] /\ Sound(f)
  PROVE  FramesSound'
<1>1. \A f \in Frames : Sound(f) => Sound(f)'
  BY StaysSound
<1>2. \A p \in Procs :
        /\ \A k \in 1 .. Len(up'[p]) : \E f \in Frames : f = up'[p][k] /\ Sound(f)'
        /\ \A k \in 1 .. Len(down'[p]) : \E f \in Frames : f = down'[p][k] /\ Sound(f)'
  BY <1>1
<1>3. \A t \in Threads : thPc'[t] = "handle" =>
        \E f \in Frames : f = thReq'[t] /\ Sound(f)'
  BY <1>1
<1> QED
  BY <1>2, <1>3, FramesSoundNext

\* What FramesSound says of each frame.
LEMMA FramesWere ==
  ASSUME LinkTypes, FramesSound
  PROVE  /\ \A p \in Procs :
              /\ up[p] \in Seq(Frames) /\ down[p] \in Seq(Frames)
              /\ \A k \in 1 .. Len(up[p]) : up[p][k] \in Frames /\ Sound(up[p][k])
              /\ \A k \in 1 .. Len(down[p]) : down[p][k] \in Frames /\ Sound(down[p][k])
         /\ \A t \in Threads : thPc[t] = "handle" => thReq[t] \in Frames /\ Sound(thReq[t])
BY DEF LinkTypes, FramesSound

\* An answer is taken from the stream; what is left of it was there before.
LEMMA ResponseStreams ==
  ASSUME Inv, NEW p \in Procs, NEW k \in 1 .. Len(down[p]), Response(p, k), UNCHANGED serverVars
  PROVE  /\ LinkTypes' /\ ServerTypes'
         /\ Head(down[p]) \in Frames /\ Sound(Head(down[p]))
         /\ ClientTypes' /\ RecordsMoveOn => FramesSound'
<1>1. LinkTypes /\ ClientTypes /\ ServerTypes /\ FramesSound
  BY DEF Inv
<1>2. down' = [down EXCEPT ![p] = After(@, k)] /\ link' = link /\ up' = up
  BY DEF Response
<1> DEFINE s == down[p]
<1>3. /\ s \in Seq(Frames) /\ \A j \in 1 .. Len(s) : s[j] \in Frames /\ Sound(s[j])
  BY <1>1, FramesWere
<1>4. /\ After(s, k) \in Seq(Frames) /\ Head(s) \in Frames /\ 1 \in 1 .. Len(s)
      /\ Head(s) = s[1]
      /\ \A i \in 1 .. Len(After(s, k)) : \E j \in 1 .. Len(s) : After(s, k)[i] = s[j]
  BY <1>3, StreamAfter
<1>5. Sound(Head(s))
  BY <1>3, <1>4
<1>6. LinkTypes' /\ ServerTypes'
  BY <1>1, <1>2, <1>4 DEF LinkTypes, ServerTypes, serverVars, thVars
<1>7. ASSUME ClientTypes', RecordsMoveOn PROVE FramesSound'
  <2>1. ASSUME NEW q \in Procs, NEW i \in 1 .. Len(down'[q])
        PROVE  \E f \in Frames : f = down'[q][i] /\ Sound(f)
    <3>1. CASE q = p
      <4>1. down'[q] = After(s, k)
        BY <1>1, <1>2, <3>1 DEF LinkTypes
      <4>2. PICK j \in 1 .. Len(s) : down'[q][i] = s[j]
        BY <1>4, <2>1, <4>1
      <4> QED
        BY <1>3, <4>2
    <3>2. CASE q # p
      <4>1. down'[q] = down[q]
        BY <1>1, <1>2, <3>2 DEF LinkTypes
      <4> QED
        BY <1>1, <2>1, <4>1, FramesWere
    <3> QED
      BY <3>1, <3>2
  <2>2. \A q \in Procs : \A i \in 1 .. Len(up'[q]) :
          \E f \in Frames : f = up'[q][i] /\ Sound(f)
    BY <1>1, <1>2, FramesWere
  <2>3. \A t \in Threads : thPc'[t] = "handle" =>
          \E f \in Frames : f = thReq'[t] /\ Sound(f)
    BY <1>1, FramesWere DEF serverVars, thVars
  <2> QED
    BY <1>1, <1>7, <2>1, <2>2, <2>3, FramesMoveOn
<1> QED
  BY <1>4, <1>5, <1>6, <1>7

\* An answer is copied into the message of the record with its number, if that
\* message has none yet.
LEMMA ResponseKeepsInv ==
  ASSUME Inv, NEW p \in Procs, NEW k \in 1 .. Len(down[p]), Response(p, k), UNCHANGED serverVars
  PROVE  Inv'
<1>1. /\ LinkTypes /\ ClientTypes /\ ServerTypes /\ FramesSound
      /\ RecordsOwned /\ NumbersGiven /\ AnswersOK
  BY DEF Inv, ClientInv
<1>2. PICK m \in Frames : m = Head(down[p]) /\ Sound(m)
  BY ResponseStreams
<1>3. PICK i : i = First(Found(p, m.id))
  OBVIOUS
<1>4. PICK c : c = reqs[p][i].msg
  OBVIOUS
<1>5. UNCHANGED <<reqNext, pc, rec>>
  BY DEF Response
<1>6. CASE UNCHANGED <<data, ret, reqs>>
  <2>1. ClientTypes' /\ ClientInv'
    BY <1>1, <1>5, <1>6 DEF ClientTypes, ClientInv, RecordsOwned, NumbersGiven, AnswersOK
  <2>2. RecordsMoveOn
    <3>1. \A q \in Procs : reqNext[q] \in Nat
      BY <1>1, SizesAssumption DEF ClientTypes
    <3> QED
      BY <1>5, <1>6, <3>1 DEF RecordsMoveOn
  <2> QED
    BY <2>1, <2>2, ResponseStreams DEF Inv
<1>7. CASE /\ Found(p, m.id) # {} /\ Fits(m, c)
           /\ data' = [data EXCEPT ![c] = m] /\ ret' = [ret EXCEPT ![c] = "ok"]
           /\ reqs' = [reqs EXCEPT ![p][i].sem = @ + 1]
  <2>1. i \in Reqs /\ reqs[p][i].valid /\ reqs[p][i].id = m.id
    <3>1. i \in Found(p, m.id)
      BY <1>3, <1>7, FirstOf DEF Found
    <3> QED
      BY <3>1 DEF Found
  <2>2. c \in Callers /\ Proc[c] = p /\ pc[c] # "idle" /\ rec[c] = i
    BY <1>1, <1>4, <2>1 DEF RecordsOwned
  <2>3. reqs[p][i] \in RecordType /\ reqs[p][i].sem = 0
    <3>1. reqs[p][i].sem # 0 => data[c] # NoAnswer
      BY <1>1, <2>2 DEF AnswersOK
    <3> QED
      BY <1>1, <1>7, <2>1, <3>1 DEF ClientTypes, Fits
  <2>4. [reqs[p][i] EXCEPT !.sem = 1] \in RecordType
    BY <2>3 DEF RecordType
  <2>5. reqs' = [reqs EXCEPT ![p][i] = [reqs[p][i] EXCEPT !.sem = 1]]
    BY <1>1, <1>7, <2>1, <2>3 DEF ClientTypes, RecordType
  <2>6. /\ reqs'[p][i] = [reqs[p][i] EXCEPT !.sem = 1]
        /\ \A q \in Procs, j \in Reqs : <<q, j>> # <<p, i>> => reqs'[q][j] = reqs[q][j]
    BY <1>1, <2>1, <2>5 DEF ClientTypes
  <2>7. ASSUME NEW q \in Procs, NEW j \in Reqs
        PROVE  /\ reqs'[q][j].valid = reqs[q][j].valid
               /\ reqs'[q][j].id = reqs[q][j].id /\ reqs'[q][j].msg = reqs[q][j].msg
    <3>1. CASE q = p /\ j = i
      BY <2>3, <2>6, <3>1 DEF RecordType
    <3>2. CASE ~(q = p /\ j = i)
      BY <2>6, <3>2
    <3> QED
      BY <3>1, <3>2
  <2>8. ClientTypes'
    <3>1. reqs' \in [Procs -> [Reqs -> RecordType]]
      BY <1>1, <2>1, <2>4, <2>5 DEF ClientTypes
    <3> QED
      BY <1>1, <1>2, <1>5, <1>7, <3>1 DEF ClientTypes
  <2>9. RecordsMoveOn
    <3>1. \A q \in Procs : reqNext[q] \in Nat
      BY <1>1, SizesAssumption DEF ClientTypes
    <3> QED
      BY <1>5, <2>7, <3>1 DEF RecordsMoveOn
  <2>10. RecordsOwned' /\ NumbersGiven'
    <3>1. ASSUME NEW d \in Callers, pc'[d] # "idle"
          PROVE  /\ rec'[d] \in Reqs /\ reqs'[Proc[d]][rec'[d]].valid
                 /\ reqs'[Proc[d]][rec'[d]].msg = d
      <4>1. /\ rec'[d] = rec[d] /\ rec[d] \in Reqs /\ Proc[d] \in Procs
            /\ reqs[Proc[d]][rec[d]].valid /\ reqs[Proc[d]][rec[d]].msg = d
        BY <1>1, <1>5, <3>1, CallersAssumption DEF RecordsOwned
      <4> QED
        BY <2>7, <4>1
    <3>2. ASSUME NEW q \in Procs, NEW j \in Reqs, reqs'[q][j].valid
          PROVE  /\ LET d == reqs'[q][j].msg
                    IN  d \in Callers /\ Proc[d] = q /\ pc'[d] # "idle" /\ rec'[d] = j
                 /\ reqs'[q][j].id < reqNext'[q]
      <4>1. reqs[q][j].valid
        BY <2>7, <3>2
      <4>2. /\ reqs[q][j].msg \in Callers /\ Proc[reqs[q][j].msg] = q
            /\ pc[reqs[q][j].msg] # "idle" /\ rec[reqs[q][j].msg] = j
            /\ reqs[q][j].id < reqNext[q]
        BY <1>1, <4>1 DEF RecordsOwned, NumbersGiven
      <4>3. reqs'[q][j].msg = reqs[q][j].msg /\ reqs'[q][j].id = reqs[q][j].id
        BY <2>7
      <4> QED
        BY <1>5, <4>2, <4>3
    <3> QED
      BY <3>1, <3>2 DEF RecordsOwned, NumbersGiven
  <2>11. AnswersOK'
    <3> SUFFICES ASSUME NEW d \in Callers, pc[d] # "idle"
                 PROVE  LET s == reqs'[Proc[d]][rec[d]]
                        IN  /\ data'[d] # NoAnswer /\ Proc[data'[d].from] = Proc[d] =>
                                 data'[d] = [id |-> s.id, from |-> d]
                            /\ s.sem # 0 => data'[d] # NoAnswer
                            /\ pc[d] = "wait" => ret'[d] = "ok"
                            /\ pc[d] = "done" /\ ret'[d] = "ok" => data'[d] # NoAnswer
      BY <1>5 DEF AnswersOK
    <3>1. CASE d = c
      <4>1. data'[d] = m /\ ret'[d] = "ok"
        BY <1>1, <1>7, <2>2, <3>1 DEF ClientTypes
      <4>2. m # NoAnswer
        BY AnswerAssumption, SizesAssumption DEF Frames
      <4>3. reqs'[Proc[d]][rec[d]].id = m.id
        BY <2>1, <2>2, <2>7, <3>1
      <4>4. Proc[m.from] = p => m.from = c
        BY <1>2, <1>4, <2>1 DEF Sound
      <4>5. m = [id |-> m.id, from |-> m.from]
        BY DEF Frames
      <4> QED
        BY <2>2, <3>1, <4>1, <4>2, <4>3, <4>4, <4>5
    <3>2. CASE d # c
      <4>1. data'[d] = data[d] /\ ret'[d] = ret[d]
        BY <1>1, <1>7, <3>2 DEF ClientTypes
      <4>2. /\ rec[d] \in Reqs /\ Proc[d] \in Procs /\ reqs[Proc[d]][rec[d]].msg = d
        BY <1>1, CallersAssumption DEF RecordsOwned
      <4>3. <<Proc[d], rec[d]>> # <<p, i>>
        BY <1>4, <3>2, <4>2
      <4>4. reqs'[Proc[d]][rec[d]] = reqs[Proc[d]][rec[d]]
        BY <2>6, <4>2, <4>3
      <4> QED
        BY <1>1, <4>1, <4>4 DEF AnswersOK
    <3> QED
      BY <3>1, <3>2
  <2> QED
    BY <2>8, <2>9, <2>10, <2>11, ResponseStreams DEF Inv, ClientInv
<1> QED
  BY <1>2, <1>3, <1>4, <1>6, <1>7 DEF Response

(***************************************************************************)
(* Steps of connections and of the server.                                 *)
(***************************************************************************)
\* What the client keeps is not touched.
LEMMA ClientKept ==
  ASSUME Inv, UNCHANGED clientVars
  PROVE  ClientTypes' /\ ClientInv' /\ RecordsMoveOn
<1>1. UNCHANGED <<reqs, reqNext, pc, rec, ret, data>>
  BY DEF clientVars
<1>2. ClientTypes /\ RecordsOwned /\ NumbersGiven /\ AnswersOK
  BY DEF Inv, ClientInv
<1>3. ClientTypes' /\ ClientInv'
  BY <1>1, <1>2 DEF ClientTypes, ClientInv, RecordsOwned, NumbersGiven, AnswersOK
<1>4. \A q \in Procs : reqNext[q] \in Nat
  BY <1>2, SizesAssumption DEF ClientTypes
<1> QED
  BY <1>1, <1>3, <1>4 DEF RecordsMoveOn

\* An end of a connection changes; what is under way gets lost, or stays.
LEMMA LinkKeepsInv ==
  ASSUME Inv, NEW p \in Procs,
         (Shut(p) /\ UNCHANGED serverVars) \/ Connect(p) \/ Exit(p)
  PROVE  Inv'
<1>1. LinkTypes /\ ServerTypes /\ FramesSound
  BY DEF Inv
<1>2. /\ \E s \in {"on", "shut", "gone"} : link' = [link EXCEPT ![p] = s]
      /\ up' = up \/ up' = [up EXCEPT ![p] = <<>>]
      /\ down' = down \/ down' = [down EXCEPT ![p] = <<>>]
      /\ backlog' = backlog \/ backlog' = Append(backlog, p)
      /\ UNCHANGED <<sock, sockfd, slotFd, clientCnt, thPc, thFd, thReq, thTo>>
      /\ UNCHANGED clientVars
  <2>1. CASE Shut(p) /\ UNCHANGED serverVars
    BY <2>1 DEF Shut, serverVars, thVars
  <2>2. CASE Connect(p)
    BY <2>2 DEF Connect, thVars, clientVars
  <2>3. CASE Exit(p)
    BY <2>3 DEF Exit, serverVars, thVars
  <2> QED
    BY <2>1, <2>2, <2>3
<1>3. ClientTypes /\ ClientTypes' /\ ClientInv' /\ RecordsMoveOn
  BY <1>2, ClientKept DEF Inv
<1>4. ServerTypes'
  <2>1. Append(backlog, p) \in Seq(Procs)
    BY <1>1 DEF ServerTypes
  <2>2. backlog' \in Seq(Procs)
    BY <1>1, <1>2, <2>1 DEF ServerTypes
  <2> QED
    BY <1>1, <1>2, <2>2 DEF ServerTypes
<1>5. <<>> \in Seq(Frames) /\ Len(<<>>) = 0
  OBVIOUS
<1>6. LinkTypes'
  BY <1>1, <1>2, <1>5 DEF LinkTypes
<1>7. \A q \in Procs : /\ up'[q] = up[q] \/ up'[q] = <<>>
                       /\ down'[q] = down[q] \/ down'[q] = <<>>
  BY <1>1, <1>2 DEF LinkTypes
<1>8. \A q \in Procs :
        /\ \A k \in 1 .. Len(up'[q]) : \E f \in Frames : f = up'[q][k] /\ Sound(f)
        /\ \A k \in 1 .. Len(down'[q]) : \E f \in Frames : f = down'[q][k] /\ Sound(f)
  BY <1>1, <1>5, <1>7, FramesWere
<1>9. \A t \in Threads : thPc'[t] = "handle" => \E f \in Frames : f = thReq'[t] /\ Sound(f)
  BY <1>1, <1>2, FramesWere
<1>10. FramesSound'
  BY <1>3, <1>8, <1>9, FramesMoveOn
<1> QED
  BY <1>3, <1>4, <1>6, <1>10 DEF Inv

\* A connection is accepted, or a thread starts, sees the end of its connection
\* or closes: no thread has a request in hand that it had not.
LEMMA ServingKeepsInv ==
  ASSUME Inv, UNCHANGED clientVars, NEW t \in Threads,
         Accept(t) \/ Start(t) \/ Eof(t) \/ Close(t)
  PROVE  Inv'
<1>1. LinkTypes /\ ServerTypes /\ FramesSound
  BY DEF Inv
<1>2. /\ ServerTypes' /\ thReq' = thReq /\ down' = down
      /\ thPc' = thPc \/ \E s \in {"none", "start", "run", "close"} : thPc' = [thPc EXCEPT ![t] = s]
      /\ link' = link \/ \E p \in Procs : link' = [link EXCEPT ![p] = "reset"]
      /\ up' = up \/ \E p \in Procs : up' = [up EXCEPT ![p] = <<>>]
  <2>1. CASE Accept(t)
    <3>1. Lowest \in Fds
      BY <2>1, LowestIsFree DEF Accept
    <3>2. Head(backlog) \in Procs /\ Tail(backlog) \in Seq(Procs)
      BY <1>1, <2>1 DEF Accept, ServerTypes
    <3> QED
      BY <1>1, <2>1, <3>1, <3>2 DEF Accept, AddClient, ServerTypes, linkVars
  <2>2. CASE Start(t)
    BY <1>1, <2>2 DEF Start, ServerTypes, linkVars
  <2>3. CASE Eof(t)
    BY <1>1, <2>3 DEF Eof, ServerTypes, linkVars
  <2>4. CASE Close(t)
    <3>1. Peer(t) # NoProc => thFd[t] \in Fds /\ Peer(t) \in Procs
      BY <1>1 DEF Peer, ServerTypes
    <3>2. sock' \in [Fds -> Procs \cup {NoProc}]
      BY <1>1, <2>4, <3>1 DEF Close, ServerTypes
    <3>3. ServerTypes'
      BY <1>1, <2>4, <3>2 DEF Close, ServerTypes
    <3> QED
      BY <2>4, <3>1, <3>3 DEF Close
  <2> QED
    BY <2>1, <2>2, <2>3, <2>4
<1>3. ClientTypes /\ ClientTypes' /\ ClientInv' /\ RecordsMoveOn
  BY ClientKept DEF Inv
<1>4. <<>> \in Seq(Frames) /\ Len(<<>>) = 0
  OBVIOUS
<1>5. LinkTypes'
  BY <1>1, <1>2, <1>4 DEF LinkTypes
<1>6. \A q \in Procs : up'[q] = up[q] \/ up'[q] = <<>>
  BY <1>1, <1>2 DEF LinkTypes
<1>7. \A q \in Procs :
        /\ \A k \in 1 .. Len(up'[q]) : \E f \in Frames : f = up'[q][k] /\ Sound(f)
        /\ \A k \in 1 .. Len(down'[q]) : \E f \in Frames : f = down'[q][k] /\ Sound(f)
  <2>1. \A q \in Procs :
          /\ \A k \in 1 .. Len(up[q]) : up[q][k] \in Frames /\ Sound(up[q][k])
          /\ \A k \in 1 .. Len(down[q]) : down[q][k] \in Frames /\ Sound(down[q][k])
    BY <1>1, FramesWere
  <2>2. \A q \in Procs : Len(up'[q]) = 0 \/ up'[q] = up[q]
    BY <1>4, <1>6
  <2>3. ASSUME NEW q \in Procs, NEW k \in 1 .. Len(up'[q]) PROVE up'[q] = up[q]
    BY <2>2, <2>3
  <2>4. down' = down
    BY <1>2
  <2> QED
    BY <2>1, <2>3, <2>4
<1>8. \A u \in Threads : thPc'[u] = "handle" => thPc[u] = "handle"
  BY <1>1, <1>2 DEF ServerTypes
<1>9. \A u \in Threads : thPc'[u] = "handle" => \E f \in Frames : f = thReq'[u] /\ Sound(f)
  BY <1>1, <1>2, <1>8, FramesWere
<1>10. FramesSound'
  BY <1>3, <1>7, <1>9, FramesMoveOn
<1> QED
  BY <1>2, <1>3, <1>5, <1>10 DEF Inv

\* The frame a thread has in hand comes from the head of a stream.
LEMMA ReceiveKeepsInv ==
  ASSUME Inv, UNCHANGED clientVars, NEW t \in Threads, NEW k \in Nat, Receive(t, k)
  PROVE  Inv'
<1>1. LinkTypes /\ ServerTypes /\ FramesSound
  BY DEF Inv
<1>2. PICK p \in Procs : p = Peer(t) /\ k \in 1 .. Len(up[p])
  BY <1>1 DEF Receive, Peer, ServerTypes
<1> DEFINE s == up[p]
<1>3. /\ up' = [up EXCEPT ![p] = After(s, k)] /\ thReq' = [thReq EXCEPT ![t] = Head(s)]
      /\ thPc' = [thPc EXCEPT ![t] = "handle"] /\ thTo' = [thTo EXCEPT ![t] = sockfd]
      /\ UNCHANGED <<backlog, sock, sockfd, slotFd, clientCnt, thFd, link, down>>
  BY <1>2 DEF Receive
<1>4. s \in Seq(Frames) /\ \A j \in 1 .. Len(s) : s[j] \in Frames /\ Sound(s[j])
  BY <1>1, FramesWere
<1>5. /\ After(s, k) \in Seq(Frames) /\ Head(s) \in Frames /\ 1 \in 1 .. Len(s)
      /\ Head(s) = s[1]
      /\ \A i \in 1 .. Len(After(s, k)) : \E j \in 1 .. Len(s) : After(s, k)[i] = s[j]
  BY <1>2, <1>4, StreamAfter
<1>6. LinkTypes' /\ ServerTypes'
  BY <1>1, <1>3, <1>5 DEF LinkTypes, ServerTypes
<1>7. ClientTypes /\ ClientTypes' /\ ClientInv' /\ RecordsMoveOn
  BY ClientKept DEF Inv
<1>8. ASSUME NEW q \in Procs, NEW i \in 1 .. Len(up'[q])
      PROVE  \E f \in Frames : f = up'[q][i] /\ Sound(f)
  <2>1. CASE q = p
    <3>1. up'[q] = After(s, k)
      BY <1>1, <1>3, <2>1 DEF LinkTypes
    <3>2. PICK j \in 1 .. Len(s) : up'[q][i] = s[j]
      BY <1>5, <1>8, <3>1
    <3> QED
      BY <1>4, <3>2
  <2>2. CASE q # p
    <3>1. up'[q] = up[q]
      BY <1>1, <1>3, <2>2 DEF LinkTypes
    <3> QED
      BY <1>1, <1>8, <3>1, FramesWere
  <2> QED
    BY <2>1, <2>2
<1>9. \A q \in Procs : \A i \in 1 .. Len(down'[q]) :
        \E f \in Frames : f = down'[q][i] /\ Sound(f)
  BY <1>1, <1>3, FramesWere
<1>10. ASSUME NEW u \in Threads, thPc'[u] = "handle"
       PROVE  \E f \in Frames : f = thReq'[u] /\ Sound(f)
  <2>1. CASE u = t
    BY <1>1, <1>3, <1>4, <1>5, <2>1 DEF ServerTypes
  <2>2. CASE u # t
    <3>1. thPc[u] = "handle" /\ thReq'[u] = thReq[u]
      BY <1>1, <1>3, <1>10, <2>2 DEF ServerTypes
    <3> QED
      BY <1>1, <3>1, FramesWere
  <2> QED
    BY <2>1, <2>2
<1>11. FramesSound'
  BY <1>7, <1>8, <1>9, <1>10, FramesMoveOn
<1> QED
  BY <1>6, <1>7, <1>11 DEF Inv

\* The frame a thread has in hand goes down a stream, or is lost.
LEMMA AnswerKeepsInv ==
  ASSUME Inv, UNCHANGED clientVars, NEW t \in Threads, Answer(t)
  PROVE  Inv'
<1>1. LinkTypes /\ ServerTypes /\ FramesSound
  BY DEF Inv
<1>2. /\ \/ down' = down
         \/ \E p \in Procs : down' = [down EXCEPT ![p] = Append(@, thReq[t])]
      /\ thPc' = [thPc EXCEPT ![t] = "run"]
      /\ thReq' = [thReq EXCEPT ![t] = NoFrame] /\ thTo' = [thTo EXCEPT ![t] = 0]
      /\ UNCHANGED <<backlog, sock, sockfd, slotFd, clientCnt, thFd, link, up>>
      /\ thPc[t] = "handle"
  BY <1>1 DEF Answer, ServerTypes
<1>3. PICK m \in Frames : m = thReq[t] /\ Sound(m)
  BY <1>1, <1>2, FramesWere
<1>4. ServerTypes'
  BY <1>1, <1>2 DEF ServerTypes
<1>5. ClientTypes /\ ClientTypes' /\ ClientInv' /\ RecordsMoveOn
  BY ClientKept DEF Inv
<1>6. /\ LinkTypes'
      /\ \A q \in Procs : \A i \in 1 .. Len(down'[q]) :
           \E f \in Frames : f = down'[q][i] /\ Sound(f)
  <2>1. CASE down' = down
    BY <1>1, <1>2, <2>1, FramesWere DEF LinkTypes
  <2>2. ASSUME NEW p \in Procs, down' = [down EXCEPT ![p] = Append(@, m)]
        PROVE  /\ LinkTypes'
               /\ \A q \in Procs : \A i \in 1 .. Len(down'[q]) :
                    \E f \in Frames : f = down'[q][i] /\ Sound(f)
    <3>1. down[p] \in Seq(Frames)
      BY <1>1 DEF LinkTypes
    <3>2. /\ Append(down[p], m) \in Seq(Frames)
          /\ \A k \in 1 .. Len(Append(down[p], m)) :
               Append(down[p], m)[k] = m \/
                 (k \in 1 .. Len(down[p]) /\ Append(down[p], m)[k] = down[p][k])
      BY <3>1, StreamAppend
    <3>3. LinkTypes'
      BY <1>1, <1>2, <2>2, <3>2 DEF LinkTypes
    <3>4. ASSUME NEW q \in Procs, NEW i \in 1 .. Len(down'[q])
          PROVE  \E f \in Frames : f = down'[q][i] /\ Sound(f)
      <4>1. CASE q = p
        <5>1. down'[q] = Append(down[p], m)
          BY <1>1, <2>2, <4>1 DEF LinkTypes
        <5> QED
          BY <1>1, <1>3, <3>2, <3>4, <5>1, FramesWere
      <4>2. CASE q # p
        <5>1. down'[q] = down[q]
          BY <1>1, <2>2, <4>2 DEF LinkTypes
        <5> QED
          BY <1>1, <3>4, <5>1, FramesWere
      <4> QED
        BY <4>1, <4>2
    <3> QED
      BY <3>3, <3>4
  <2> QED
    BY <1>2, <1>3, <2>1, <2>2
<1>7. \A q \in Procs : \A i \in 1 .. Len(up'[q]) : \E f \in Frames : f = up'[q][i] /\ Sound(f)
  BY <1>1, <1>2, FramesWere
<1>8. ASSUME NEW u \in Threads, thPc'[u] = "handle"
      PROVE  \E f \in Frames : f = thReq'[u] /\ Sound(f)
  <2>1. thPc[u] = "handle" /\ thReq'[u] = thReq[u]
    BY <1>1, <1>2, <1>8 DEF ServerTypes
  <2> QED
    BY <1>1, <2>1, FramesWere
<1>9. FramesSound'
  BY <1>5, <1>6, <1>7, <1>8, FramesMoveOn
<1> QED
  BY <1>4, <1>5, <1>6, <1>9 DEF Inv

\* Every step of the composition.
LEMMA InvNext == Inv /\ [Next]_vars => Inv'
<1> SUFFICES ASSUME Inv, [Next]_vars PROVE Inv'
  OBVIOUS
<1>1. ASSUME NEW p \in Procs, Connect(p) \/ Exit(p) \/ (RxThread(p) /\ UNCHANGED serverVars)
      PROVE  Inv'
  <2>1. CASE Connect(p) \/ Exit(p) \/ (Shut(p) /\ UNCHANGED serverVars)
    BY <2>1, LinkKeepsInv
  <2>2. ASSUME NEW k \in 1 .. Len(down[p]), Response(p, k), UNCHANGED serverVars PROVE Inv'
    BY <2>2, ResponseKeepsInv
  <2> QED
    BY <1>1, <2>1, <2>2 DEF RxThread
<1>2. ASSUME NEW c \in Callers, Caller(c), UNCHANGED serverVars PROVE Inv'
  <2>1. CASE TooMany(c) \/ SendFails(c)
    BY <1>2, <2>1, RefusedKeepsInv
  <2>2. CASE Request(c)
    BY <1>2, <2>2, RequestKeepsInv
  <2>3. CASE Answered(c)
    BY <1>2, <2>3, AnsweredKeepsInv
  <2>4. CASE TimedOut(c)
    BY <1>2, <2>4, TimedOutKeepsInv
  <2>5. CASE Return(c)
    BY <1>2, <2>5, ReturnKeepsInv
  <2> QED
    BY <1>2, <2>1, <2>2, <2>3, <2>4, <2>5 DEF Caller
<1>3. ASSUME AcceptFails, UNCHANGED clientVars PROVE Inv'
  <2>1. LinkTypes /\ ServerTypes /\ FramesSound
    BY DEF Inv
  <2>2. UNCHANGED <<backlog, sock, slotFd, clientCnt, thPc, thFd, thReq, thTo, link, up, down>>
    BY <1>3 DEF AcceptFails, thVars, linkVars
  <2>3. LinkTypes' /\ ServerTypes'
    BY <1>3, <2>1, <2>2 DEF LinkTypes, ServerTypes, AcceptFails
  <2>4. ClientTypes /\ ClientTypes' /\ ClientInv' /\ RecordsMoveOn
    BY <1>3, ClientKept DEF Inv
  <2>5. FramesSound'
    BY <2>1, <2>2, <2>4, FramesMoveOn, FramesWere
  <2> QED
    BY <2>3, <2>4, <2>5 DEF Inv
<1>4. ASSUME NEW t \in Threads, Accept(t) \/ Start(t) \/ Eof(t) \/ Close(t), UNCHANGED clientVars
      PROVE  Inv'
  BY <1>4, ServingKeepsInv
<1>5. ASSUME NEW t \in Threads, Answer(t), UNCHANGED clientVars PROVE Inv'
  BY <1>5, AnswerKeepsInv
<1>6. ASSUME NEW t \in Threads, NEW p \in Procs, NEW k \in 1 .. Len(up[p]), Receive(t, k),
             UNCHANGED clientVars
      PROVE  Inv'
  <2>1. k \in Nat
    BY DEF Inv, LinkTypes
  <2> QED
    BY <1>6, <2>1, ReceiveKeepsInv
<1>7. CASE UNCHANGED vars
  <2>1. UNCHANGED <<linkVars, clientVars, serverVars>>
    BY <1>7 DEF vars
  <2>2. UNCHANGED <<link, up, down>>
    BY <2>1 DEF linkVars
  <2>3. LinkTypes /\ ClientTypes /\ ServerTypes /\ FramesSound
    BY DEF Inv
  <2>4. ClientTypes' /\ ClientInv' /\ RecordsMoveOn
    BY <2>1, ClientKept
  <2>5. LinkTypes' /\ ServerTypes'
    BY <2>1, <2>2, <2>3 DEF LinkTypes, ServerTypes, serverVars, thVars
  <2>6. FramesSound'
    BY <2>1, <2>2, <2>3, <2>4, FramesStaySound
  <2> QED
    BY <2>4, <2>5, <2>6 DEF Inv
<1> QED
  BY <1>1, <1>2, <1>3, <1>4, <1>5, <1>6, <1>7 DEF Next, Server

(***************************************************************************)
(* The count of connections.                                               *)
(***************************************************************************)
\* What client_cnt covers: the open connections, and the one accepted last,
\* even when it is closed.  A connection that gets that descriptor again is
\* not counted, and need not be.
Counted  == Open \cup ({slotFd} \ {0})
CountInv == ServerTypes /\ IsFiniteSet(Counted) /\ Cardinality(Counted) <= clientCnt

\* A set with less in it is no larger.
LEMMA FewerCounted ==
  ASSUME CountInv, NEW S, S \subseteq Counted
  PROVE  IsFiniteSet(S) /\ Cardinality(S) \in Nat /\ Cardinality(S) <= clientCnt
<1>1. IsFiniteSet(Counted) /\ Cardinality(Counted) <= clientCnt /\ clientCnt \in Nat
  BY DEF CountInv, ServerTypes
<1>2. IsFiniteSet(S) /\ Cardinality(S) <= Cardinality(Counted)
  BY <1>1, FS_Subset
<1>3. Cardinality(S) \in Nat /\ Cardinality(Counted) \in Nat
  BY <1>1, <1>2, FS_CardinalityType
<1> QED
  BY <1>1, <1>2, <1>3

\* Only Accept adds to the counted connections, and only Close takes from them.
LEMMA CountNext == Inv /\ Inv' /\ CountInv /\ [Next]_vars => CountInv'
<1> SUFFICES ASSUME Inv, Inv', CountInv, [Next]_vars PROVE CountInv'
  OBVIOUS
<1>1. ServerTypes /\ ServerTypes'
  BY DEF Inv
<1>2. CASE /\ clientCnt' = clientCnt /\ slotFd' = slotFd
           /\ sock' = sock \/ \E f \in Fds : sock' = [sock EXCEPT ![f] = NoProc]
  <2>1. Open' \subseteq Open
    BY <1>1, <1>2 DEF Open, ServerTypes
  <2>2. Counted' \subseteq Counted
    BY <1>2, <2>1 DEF Counted
  <2>3. IsFiniteSet(Counted') /\ Cardinality(Counted') <= clientCnt
    BY <2>2, FewerCounted
  <2> QED
    BY <1>1, <1>2, <2>3 DEF CountInv
<1>3. ASSUME NEW t \in Threads, Accept(t) PROVE CountInv'
  <2>1. Lowest \in Fds /\ Lowest # 0 /\ sock[Lowest] = NoProc
    BY <1>3, LowestIsFree, ServerAssumption DEF Accept
  <2>2. Head(backlog) \in Procs
    BY <1>1, <1>3 DEF Accept, ServerTypes
  <2>3. PICK f \in Fds : f = Lowest /\ f # 0
    BY <2>1
  <2>4. /\ sock' = [sock EXCEPT ![f] = Head(backlog)] /\ slotFd' = f
        /\ clientCnt' = IF slotFd = f THEN clientCnt ELSE clientCnt + 1
    BY <1>3, <2>3 DEF Accept, AddClient
  <2>5. Open' = Open \cup {f}
    BY <1>1, <2>2, <2>3, <2>4, ServerAssumption DEF Open, ServerTypes
  <2>6. Counted' = Open \cup {f}
    BY <2>3, <2>4, <2>5 DEF Counted
  <2>7. CASE slotFd = f
    <3>1. Counted' \subseteq Counted
      BY <2>3, <2>6, <2>7 DEF Counted
    <3>2. IsFiniteSet(Counted') /\ Cardinality(Counted') <= clientCnt
      BY <3>1, FewerCounted
    <3> QED
      BY <1>1, <2>4, <2>7, <3>2 DEF CountInv
  <2>8. CASE slotFd # f
    <3>1. IsFiniteSet(Open) /\ Cardinality(Open) \in Nat /\ Cardinality(Open) <= clientCnt
      BY FewerCounted DEF Counted
    <3>2. f \notin Open
      BY <2>1, <2>3 DEF Open
    <3>3. IsFiniteSet(Open \cup {f}) /\ Cardinality(Open \cup {f}) = Cardinality(Open) + 1
      BY <3>1, <3>2, FS_AddElement
    <3>4. clientCnt \in Nat /\ clientCnt' = clientCnt + 1
      BY <1>1, <2>4, <2>8 DEF ServerTypes
    <3> QED
      BY <1>1, <2>6, <3>1, <3>3, <3>4 DEF CountInv
  <2> QED
    BY <2>7, <2>8
<1>4. ASSUME NEW t \in Threads, Close(t) PROVE CountInv'
  <2>1. Peer(t) # NoProc => thFd[t] \in Fds
    BY DEF Peer
  <2> QED
    BY <1>2, <1>4, <2>1 DEF Close
<1>5. CASE AcceptFails
  BY <1>2, <1>5 DEF AcceptFails
<1>6. ASSUME NEW t \in Threads,
             \/ Start(t) \/ Answer(t) \/ Eof(t)
             \/ \E p \in Procs : \E k \in 1 .. Len(up[p]) : Receive(t, k)
      PROVE  CountInv'
  BY <1>2, <1>6 DEF Start, Answer, Eof, Receive
<1>7. CASE \E p \in Procs : Connect(p)
  BY <1>2, <1>7 DEF Connect
<1>8. CASE UNCHANGED serverVars
  BY <1>2, <1>8 DEF serverVars
<1>9. CASE UNCHANGED vars
  BY <1>8, <1>9 DEF vars
<1> QED
  BY <1>3, <1>4, <1>5, <1>6, <1>7, <1>8, <1>9 DEF Next, Server, Exit

(***************************************************************************)
(* The client library implements RequestReply.                             *)
(***************************************************************************)
\* What the callers have asked, as RequestReply sees it.
Asked == [c \in Callers |-> AskedBy(c)]

\* A caller that stays in its request, or out of it, asks what it did.
LEMMA AskedStays ==
  ASSUME NEW d \in Callers, pc'[d] = "idle" <=> pc[d] = "idle",
         pc[d] # "idle" =>
           reqs'[Proc[d]][rec'[d]].id = reqs[Proc[d]][rec[d]].id
  PROVE  Asked'[d] = Asked[d]
<1>1. Asked[d] = AskedBy(d) /\ Asked'[d] = AskedBy(d)'
  BY DEF Asked
<1>2. AskedBy(d)' = AskedBy(d)
  BY DEF AskedBy
<1> QED
  BY <1>1, <1>2

\* The same of all callers.
LEMMA AllAskedStay ==
  ASSUME ClientTypes,
         \A d \in Callers : pc'[d] = "idle" <=> pc[d] = "idle",
         rec' = rec, RecordsOwned,
         \A p \in Procs, i \in Reqs : reqs'[p][i].id = reqs[p][i].id
  PROVE  Asked' = Asked
<1>1. ASSUME NEW d \in Callers PROVE Asked'[d] = Asked[d]
  <2>1. pc[d] # "idle" => rec[d] \in Reqs /\ Proc[d] \in Procs
    BY CallersAssumption DEF RecordsOwned
  <2> QED
    BY <2>1, AskedStays
<1> QED
  BY <1>1 DEF Asked

\* What RequestReply sees of a step in which the client takes no part.
LEMMA ClientStutters ==
  ASSUME UNCHANGED clientVars
  PROVE  UNCHANGED <<pc, Asked, ret, data>>
<1>1. UNCHANGED <<reqs, pc, rec, ret, data>>
  BY DEF clientVars
<1> QED
  BY <1>1 DEF Asked, AskedBy

\* A request that ends at once.
LEMMA RefuseMaps ==
  ASSUME Inv, NEW c \in Callers, TooMany(c) \/ SendFails(c)
  PROVE  Requests!Refuse(c)
<1>1. /\ UNCHANGED <<reqs, pc, rec>> /\ pc[c] = "idle"
      /\ data' = [data EXCEPT ![c] = NoAnswer]
  BY DEF TooMany, SendFails, May
<1>2. \E r \in {"too_much", "not_sent"} : ret' = [ret EXCEPT ![c] = r]
  <2>1. CASE TooMany(c)
    BY <2>1 DEF TooMany
  <2>2. CASE SendFails(c)
    BY <2>2 DEF SendFails
  <2> QED
    BY <2>1, <2>2
<1>3. Asked' = Asked
  BY <1>1 DEF Asked, AskedBy
<1> QED
  BY <1>1, <1>2, <1>3 DEF Requests!Refuse, Requests!Begins, Asked

\* A request that is sent: its number is not that of a request under way.
LEMMA AskMaps ==
  ASSUME Inv, NEW c \in Callers, Request(c)
  PROVE  Requests!Ask(c)
<1> DEFINE p == Proc[c]
<1>1. ClientTypes /\ RecordsOwned /\ NumbersGiven
  BY DEF Inv, ClientInv
<1>2. p \in Procs
  BY CallersAssumption
<1>3. PICK i \in Reqs : i = First(Free(p)) /\ ~reqs[p][i].valid
  <2>1. First(Free(p)) \in Free(p)
    BY FirstOf DEF Free, Request
  <2> QED
    BY <2>1 DEF Free
<1>4. PICK n \in 0 .. MaxId : n = reqNext[p] /\ n \in Nat
  BY <1>1, <1>2, SizesAssumption DEF ClientTypes
<1> DEFINE r == [valid |-> TRUE, id |-> n, msg |-> c, sem |-> 0]
<1>5. /\ pc[c] = "idle"
      /\ reqs' = [reqs EXCEPT ![p][i] = r]
      /\ pc' = [pc EXCEPT ![c] = "wait"] /\ rec' = [rec EXCEPT ![c] = i]
      /\ ret' = [ret EXCEPT ![c] = "ok"] /\ data' = [data EXCEPT ![c] = NoAnswer]
  BY <1>3, <1>4 DEF Request, May
<1>6. /\ reqs'[p][i] = r
      /\ \A q \in Procs, j \in Reqs : <<q, j>> # <<p, i>> => reqs'[q][j] = reqs[q][j]
  BY <1>1, <1>2, <1>3, <1>5 DEF ClientTypes
<1>7. pc'[c] = "wait" /\ rec'[c] = i
  BY <1>1, <1>5 DEF ClientTypes
<1>8. Asked'[c] = {n}
  <2>1. AskedBy(c)' = {reqs'[p][rec'[c]].id}
    BY <1>7 DEF AskedBy
  <2> QED
    BY <1>6, <1>7, <2>1 DEF Asked
<1>9. ASSUME NEW d \in Callers, d # c PROVE Asked'[d] = Asked[d]
  <2>1. pc'[d] = pc[d] /\ rec'[d] = rec[d]
    BY <1>1, <1>5, <1>9 DEF ClientTypes
  <2>2. ASSUME pc[d] # "idle" PROVE reqs'[Proc[d]][rec[d]] = reqs[Proc[d]][rec[d]]
    <3>1. Proc[d] \in Procs /\ rec[d] \in Reqs /\ reqs[Proc[d]][rec[d]].valid
      BY <1>1, <2>2, CallersAssumption DEF RecordsOwned
    <3>2. <<Proc[d], rec[d]>> # <<p, i>>
      BY <1>3, <3>1
    <3> QED
      BY <1>6, <3>1, <3>2
  <2> QED
    BY <2>1, <2>2, AskedStays
<1>10. Asked' = [Asked EXCEPT ![c] = {n}]
  BY <1>8, <1>9 DEF Asked
<1>11. ASSUME NEW d \in Callers, Proc[d] = p PROVE n \notin Asked[d]
  <2>1. CASE pc[d] = "idle"
    BY <2>1 DEF Asked, AskedBy
  <2>2. CASE pc[d] # "idle"
    <3>1. rec[d] \in Reqs /\ reqs[p][rec[d]].valid
      BY <1>1, <1>11, <2>2 DEF RecordsOwned
    <3>2. reqs[p][rec[d]].id \in Nat /\ reqs[p][rec[d]].id < n
      BY <1>1, <1>2, <1>4, <3>1, SizesAssumption DEF NumbersGiven, ClientTypes, RecordType
    <3>3. Asked[d] = {reqs[p][rec[d]].id}
      BY <1>11, <2>2 DEF Asked, AskedBy
    <3> QED
      BY <1>4, <3>2, <3>3
  <2> QED
    BY <2>1, <2>2
<1>12. \E k \in 0 .. MaxId :
         /\ \A d \in Callers : Proc[d] = Proc[c] => k \notin Asked[d]
         /\ Asked' = [Asked EXCEPT ![c] = {k}]
  BY <1>4, <1>10, <1>11
<1> QED
  BY <1>5, <1>12 DEF Requests!Ask, Requests!Begins, Asked

\* An answer that fits the record it names is taken; others are dropped.
LEMMA ReplyMaps ==
  ASSUME Inv, NEW p \in Procs, NEW k \in 1 .. Len(down[p]), Response(p, k)
  PROVE  (\E c \in Callers : Requests!Reply(c)) \/ UNCHANGED <<pc, Asked, ret, data>>
<1>1. ClientTypes /\ RecordsOwned
  BY DEF Inv, ClientInv
<1>2. PICK m \in Frames : m = Head(down[p]) /\ Sound(m)
  <2>1. down[p] \in Seq(Frames)
    BY DEF Inv, LinkTypes
  <2>2. Head(down[p]) = down[p][1] /\ Head(down[p]) \in Frames /\ 1 \in 1 .. Len(down[p])
    BY <2>1, StreamAfter
  <2> QED
    BY <2>2 DEF Inv, FramesSound
<1>3. PICK i : i = First(Found(p, m.id))
  OBVIOUS
<1>4. PICK c : c = reqs[p][i].msg
  OBVIOUS
<1>5. UNCHANGED <<pc, rec>>
  BY DEF Response
<1>6. CASE UNCHANGED <<data, ret, reqs>>
  BY <1>5, <1>6 DEF Asked, AskedBy
<1>7. CASE /\ Found(p, m.id) # {} /\ Fits(m, c)
           /\ data' = [data EXCEPT ![c] = m] /\ ret' = [ret EXCEPT ![c] = "ok"]
           /\ reqs' = [reqs EXCEPT ![p][i].sem = @ + 1]
  <2>1. i \in Reqs /\ reqs[p][i].valid /\ reqs[p][i].id = m.id
    <3>1. i \in Found(p, m.id)
      BY <1>3, <1>7, FirstOf DEF Found
    <3> QED
      BY <3>1 DEF Found
  <2>2. c \in Callers /\ Proc[c] = p /\ pc[c] # "idle" /\ rec[c] = i
    BY <1>1, <1>4, <2>1 DEF RecordsOwned
  <2>3. \A q \in Procs, j \in Reqs : reqs'[q][j].id = reqs[q][j].id
    BY <1>1, <1>7, <2>1 DEF ClientTypes, RecordType
  <2>4. Asked' = Asked
    BY <1>1, <1>5, <2>3, AllAskedStay
  <2>5. Proc[m.from] = Proc[c] => m.from = c /\ m.id \in Asked[c]
    <3>1. Proc[m.from] = p => m.from = c
      BY <1>2, <1>4, <2>1 DEF Sound
    <3>2. Asked[c] = {m.id}
      BY <2>1, <2>2 DEF Asked, AskedBy
    <3> QED
      BY <2>2, <3>1, <3>2
  <2>6. data[c] = NoAnswer
    BY <1>7 DEF Fits
  <2>7. Requests!Reply(c)
    BY <1>2, <1>5, <1>7, <2>2, <2>4, <2>5, <2>6 DEF Requests!Reply, Asked
  <2> QED
    BY <2>2, <2>7
<1> QED
  BY <1>2, <1>3, <1>4, <1>6, <1>7 DEF Response

\* The wait ends: with the semaphore there is an answer.
LEMMA WaitMaps ==
  ASSUME Inv, NEW c \in Callers
  PROVE  /\ Answered(c) => Requests!Wake(c)
         /\ TimedOut(c) => Requests!TimeOut(c)
<1>1. ClientTypes /\ RecordsOwned /\ AnswersOK
  BY DEF Inv, ClientInv
<1>2. ASSUME Answered(c) PROVE Requests!Wake(c)
  <2> DEFINE p == Proc[c]
  <2>1. /\ pc[c] = "wait" /\ reqs[p][rec[c]].sem > 0 /\ pc' = [pc EXCEPT ![c] = "done"]
        /\ reqs' = [reqs EXCEPT ![p][rec[c]].sem = @ - 1]
        /\ UNCHANGED <<rec, ret, data>>
    BY <1>2 DEF Answered
  <2>2. p \in Procs /\ rec[c] \in Reqs
    BY <1>1, <2>1, CallersAssumption DEF RecordsOwned
  <2>3. reqs[p][rec[c]].sem # 0
    BY <1>1, <2>1, <2>2 DEF ClientTypes, RecordType
  <2>4. data[c] # NoAnswer
    BY <1>1, <2>1, <2>3 DEF AnswersOK
  <2>5. \A q \in Procs, j \in Reqs : reqs'[q][j].id = reqs[q][j].id
    BY <1>1, <2>1, <2>2 DEF ClientTypes, RecordType
  <2>6. \A d \in Callers : pc'[d] = "idle" <=> pc[d] = "idle"
    BY <1>1, <2>1 DEF ClientTypes
  <2>7. Asked' = Asked
    BY <1>1, <2>1, <2>5, <2>6, AllAskedStay
  <2> QED
    BY <2>1, <2>4, <2>7 DEF Requests!Wake, Asked
<1>3. ASSUME TimedOut(c) PROVE Requests!TimeOut(c)
  <2>1. /\ pc[c] = "wait" /\ pc' = [pc EXCEPT ![c] = "done"]
        /\ ret' = [ret EXCEPT ![c] = "timeout"]
        /\ UNCHANGED <<reqs, rec, data>>
    BY <1>3 DEF TimedOut
  <2>2. \A d \in Callers : pc'[d] = "idle" <=> pc[d] = "idle"
    BY <1>1, <2>1 DEF ClientTypes
  <2>3. Asked' = Asked
    BY <1>1, <2>1, <2>2, AllAskedStay
  <2> QED
    BY <2>1, <2>3 DEF Requests!TimeOut, Asked
<1> QED
  BY <1>2, <1>3

\* The call returns, and its number is free.
LEMMA ReturnMaps ==
  ASSUME Inv, NEW c \in Callers, Return(c)
  PROVE  Requests!Return(c)
<1> DEFINE p == Proc[c]
<1>1. ClientTypes /\ RecordsOwned
  BY DEF Inv, ClientInv
<1>2. /\ pc[c] = "done" /\ pc' = [pc EXCEPT ![c] = "idle"] /\ rec' = [rec EXCEPT ![c] = 0]
      /\ reqs' = [reqs EXCEPT ![p][rec[c]] = Unused]
      /\ UNCHANGED <<ret, data>>
  BY DEF Return
<1>3. p \in Procs
  BY CallersAssumption
<1>4. PICK i \in Reqs : i = rec[c] /\ reqs[p][i].msg = c
  BY <1>1, <1>2 DEF RecordsOwned
<1>5. \A q \in Procs, j \in Reqs : <<q, j>> # <<p, i>> => reqs'[q][j] = reqs[q][j]
  BY <1>1, <1>2, <1>3, <1>4 DEF ClientTypes
<1>6. Asked'[c] = {}
  <2>1. pc'[c] = "idle"
    BY <1>1, <1>2 DEF ClientTypes
  <2> QED
    BY <2>1 DEF Asked, AskedBy
<1>7. ASSUME NEW d \in Callers, d # c PROVE Asked'[d] = Asked[d]
  <2>1. pc'[d] = pc[d] /\ rec'[d] = rec[d]
    BY <1>1, <1>2, <1>7 DEF ClientTypes
  <2>2. ASSUME pc[d] # "idle" PROVE reqs'[Proc[d]][rec[d]] = reqs[Proc[d]][rec[d]]
    <3>1. Proc[d] \in Procs /\ rec[d] \in Reqs /\ reqs[Proc[d]][rec[d]].msg = d
      BY <1>1, <2>2, CallersAssumption DEF RecordsOwned
    <3>2. <<Proc[d], rec[d]>> # <<p, i>>
      BY <1>4, <1>7, <3>1
    <3> QED
      BY <1>5, <3>1, <3>2
  <2> QED
    BY <2>1, <2>2, AskedStays
<1>8. Asked' = [Asked EXCEPT ![c] = {}]
  BY <1>6, <1>7 DEF Asked
<1> QED
  BY <1>2, <1>8 DEF Requests!Return, Asked

\* Every step is one of RequestReply, or shows it nothing.
LEMMA RequestsNext == Inv /\ [Next]_vars => [Requests!Next]_<<pc, Asked, ret, data>>
<1> SUFFICES ASSUME Inv, [Next]_vars
             PROVE  Requests!Next \/ UNCHANGED <<pc, Asked, ret, data>>
  OBVIOUS
<1>1. ASSUME NEW c \in Callers, Caller(c) PROVE Requests!Next
  <2>1. \/ Requests!Refuse(c) \/ Requests!Ask(c) \/ Requests!Wake(c)
        \/ Requests!TimeOut(c) \/ Requests!Return(c)
    BY <1>1, RefuseMaps, AskMaps, WaitMaps, ReturnMaps DEF Caller
  <2> QED
    BY <2>1 DEF Requests!Next
<1>2. ASSUME NEW p \in Procs, RxThread(p)
      PROVE  Requests!Next \/ UNCHANGED <<pc, Asked, ret, data>>
  <2>1. CASE Shut(p)
    BY <2>1, ClientStutters DEF Shut
  <2>2. ASSUME NEW k \in 1 .. Len(down[p]), Response(p, k)
        PROVE  Requests!Next \/ UNCHANGED <<pc, Asked, ret, data>>
    BY <2>2, ReplyMaps DEF Requests!Next
  <2> QED
    BY <1>2, <2>1, <2>2 DEF RxThread
<1>3. CASE UNCHANGED clientVars
  BY <1>3, ClientStutters
<1>4. \/ \E c \in Callers : Caller(c)
      \/ \E p \in Procs : RxThread(p)
      \/ UNCHANGED clientVars
  BY DEF Next, Connect, Exit, vars
<1> QED
  BY <1>1, <1>2, <1>3, <1>4
-----------------------------------------------------------------------------
(***************************************************************************)
(* The theorems.                                                           *)
(***************************************************************************)
\* Frames, records, callers and answers always belong together as Inv says.
THEOREM OamInvariant == Spec => []Inv
<1> QED
  BY InvInit, InvNext, PTL DEF Spec

\* Every variable keeps its type: no semaphore of a record is posted twice.
THEOREM TypeCorrect == Spec => []TypeOK
<1>1. Inv => TypeOK
  BY InvImplies
<1> QED
  BY <1>1, OamInvariant, PTL

\* However requests, time-outs and late answers interleave, a record in use is
\* that of the one caller that waits with it (oam_ext_sdk.c:176).
THEOREM RequestsOwnRecords == Spec => []RecordsOwned
<1>1. Inv => RecordsOwned
  BY InvImplies
<1> QED
  BY <1>1, OamInvariant, PTL

\* OAM_E_OK means an answer, and never that to another request of the process.
THEOREM OkMeansAnswered == Spec => []OkIsAnswered
<1>1. Inv => OkIsAnswered
  BY InvImplies
<1> QED
  BY <1>1, OamInvariant, PTL

\* client_cnt never falls short of the open connections (oam_int_main.c:133).
THEOREM CountIsEnough == Spec => []CountCoversOpen
<1>1. Init => CountInv
  <2> SUFFICES ASSUME Init PROVE CountInv
    OBVIOUS
  <2>1. ServerTypes
    BY InvInit DEF Inv
  <2>2. Counted = {} /\ clientCnt = 0
    BY DEF Init, ServerInit, Counted, Open
  <2> QED
    BY <2>1, <2>2, FS_EmptySet DEF CountInv
<1>2. CountInv => CountCoversOpen
  <2> SUFFICES ASSUME CountInv PROVE Cardinality(Open) <= clientCnt
    BY DEF CountCoversOpen
  <2> QED
    BY FewerCounted DEF Counted
<1> QED
  BY <1>1, <1>2, CountNext, OamInvariant, PTL DEF Spec

\* The client library keeps the promise of RequestReply to its callers: through
\* time-outs, late and doubled answers and records used again, only a request
\* that is under way has its message written, and with its own answer.
THEOREM RequestsAreKept == Spec => RequestsKept
<1>1. Init => Requests!Init
  <2> SUFFICES ASSUME Init PROVE Requests!Init
    OBVIOUS
  <2>1. \A c \in Callers : AskedBy(c) = {}
    BY DEF Init, ClientInit, AskedBy
  <2> QED
    BY <2>1 DEF Init, ClientInit, Requests!Init
<1>2. Inv /\ [Next]_vars =>
        [Requests!Next]_<<pc, [c \in Callers |-> AskedBy(c)], ret, data>>
  BY RequestsNext DEF Asked
<1> QED
  BY <1>1, <1>2, OamInvariant, PTL DEF Spec, RequestsKept, Requests!Spec
=============================================================================
