--------------------------- MODULE MdaInsertProofs ---------------------------
(***************************************************************************)
(* What the loop of add_forward_list does, for lists of any length: proofs *)
(* about MdaInsert.                                                        *)
(***************************************************************************)
EXTENDS MdaInsert, WellFoundedInduction, TLAPS

\* A set of numbers has a least one.
LEMMA LeastNumber ==
  ASSUME NEW T, T \subseteq Nat, T # {}
  PROVE  \E x \in T : \A y \in T : x <= y
<1>1. PICK x \in T : \A y \in T : ~(<<y, x>> \in OpToRel(<, Nat))
  BY NatLessThanWellFounded, WFMin
<1>2. \A y \in T : ~(y < x)
  BY <1>1 DEF OpToRel
<1> QED
  BY <1>2

(***************************************************************************)
(* The loop as a sequence of rounds.                                       *)
(***************************************************************************)
\* a round, unless the loop has ended
Step(s, n) == IF s.pos = Head0 THEN s ELSE Round(s, New(n))

\* f takes k steps of the loop.
Rounds(f, d, D, n, k) ==
  f = [i \in 0 .. k |-> IF i = 0 THEN Start(d, D) ELSE Step(f[i - 1], n)]

\* Steps can always be taken.
LEMMA RoundsExist ==
  ASSUME NEW d, NEW D, NEW n, NEW k \in Nat
  PROVE  \E f : Rounds(f, d, D, n, k)
<1> DEFINE T == { j \in Nat : ~ \E f : Rounds(f, d, D, n, j) }
<1> SUFFICES ASSUME T # {} PROVE FALSE
  OBVIOUS
<1>1. PICK m \in T : \A j \in T : m <= j
  BY LeastNumber
<1>2. m \in Nat
  OBVIOUS
<1>3. CASE m = 0
  <2>1. Rounds([i \in 0 .. 0 |-> Start(d, D)], d, D, n, 0)
    BY DEF Rounds
  <2> QED
    BY <1>3, <2>1
<1>4. CASE m # 0
  <2>1. m - 1 \in Nat /\ ~(m <= m - 1)
    BY <1>2, <1>4
  <2>2. PICK f : Rounds(f, d, D, n, m - 1)
    BY <1>1, <2>1
  <2> DEFINE g == [i \in 0 .. m |-> IF i <= m - 1 THEN f[i] ELSE Step(f[m - 1], n)]
  <2>3. \A i \in 0 .. m - 1 : f[i] = IF i = 0 THEN Start(d, D) ELSE Step(f[i - 1], n)
    BY <2>2 DEF Rounds
  <2>4. ASSUME NEW i \in 0 .. m
        PROVE  g[i] = IF i = 0 THEN Start(d, D) ELSE Step(g[i - 1], n)
    <3>1. CASE i = 0
      <4>1. 0 \in 0 .. m - 1 /\ g[0] = f[0]
        BY <1>2, <2>1
      <4> QED
        BY <2>3, <3>1, <4>1
    <3>2. CASE i # 0 /\ i <= m - 1
      <4>1. i \in 0 .. m - 1 /\ i - 1 \in 0 .. m - 1 /\ i - 1 \in 0 .. m
        BY <1>2, <2>1, <3>2
      <4>2. g[i] = f[i] /\ g[i - 1] = f[i - 1]
        BY <3>2, <4>1
      <4> QED
        BY <2>3, <3>2, <4>1, <4>2
    <3>3. CASE i = m
      <4>1. m - 1 \in 0 .. m /\ m - 1 <= m - 1 /\ ~(m <= m - 1)
        BY <1>2, <2>1
      <4>2. g[i] = Step(f[m - 1], n) /\ g[m - 1] = f[m - 1]
        BY <3>3, <4>1
      <4> QED
        BY <1>4, <3>3, <4>2
    <3>4. i = 0 \/ (i # 0 /\ i <= m - 1) \/ i = m
      BY <1>2
    <3> QED
      BY <3>1, <3>2, <3>3, <3>4
  <2>5. Rounds(g, d, D, n, m)
    <3>1. g = [i \in 0 .. m |-> g[i]]
      OBVIOUS
    <3> HIDE DEF g
    <3> QED
      BY <2>4, <3>1 DEF Rounds
  <2> QED
    BY <2>5
<1> QED
  BY <1>3, <1>4

\* Loop is where such steps lead.
LEMMA LoopRounds ==
  ASSUME NEW n \in Nat, NEW d \in [1 .. n -> Int], NEW D
  PROVE  /\ Len(d) = n
         /\ \E f : /\ f[0] = Start(d, D)
                   /\ \A i \in 1 .. n + 2 : f[i] = Step(f[i - 1], n)
                   /\ Loop(d, D) = f[n + 2]
<1>1. Len(d) = n
  OBVIOUS
<1> DEFINE at[k \in 0 .. Len(d) + 2] ==
             IF k = 0 THEN Start(d, D)
             ELSE IF at[k - 1].pos = Head0 THEN at[k - 1]
             ELSE Round(at[k - 1], New(Len(d)))
           Recursive(f) == f = [k \in 0 .. Len(d) + 2 |->
             IF k = 0 THEN Start(d, D)
             ELSE IF f[k - 1].pos = Head0 THEN f[k - 1]
             ELSE Round(f[k - 1], New(Len(d)))]
<1>2. PICK f : Rounds(f, d, D, Len(d), Len(d) + 2)
  <2>1. Len(d) + 2 \in Nat
    BY <1>1
  <2> QED
    BY ONLY <2>1, RoundsExist
<1>3. Recursive(f)
  BY <1>2 DEF Rounds, Step
<1>4. Recursive(at)
  BY <1>3 DEF at
<1>5. Loop(d, D) = at[Len(d) + 2]
  BY DEF Loop, at
<1> HIDE DEF at
<1>6. \A i \in 0 .. Len(d) + 2 : at[i] = IF i = 0 THEN Start(d, D) ELSE Step(at[i - 1], Len(d))
  BY <1>4 DEF Step
<1>7. at[0] = Start(d, D) /\ \A i \in 1 .. n + 2 : at[i] = Step(at[i - 1], n)
  BY <1>1, <1>6
<1> QED
  BY <1>1, <1>5, <1>7

(***************************************************************************)
(* One round.                                                              *)
(***************************************************************************)
Cells(n) == 0 .. n + 1

LoopState(n) ==
  [nxt : [Cells(n) -> Cells(n)], prv : [Cells(n) -> Cells(n)],
   delay : [1 .. n + 1 -> Int], total : Int, adj : Int, inserted : BOOLEAN,
   pos : Cells(n)]

\* The fields of t are those of s but for the delay at its position and the position.
RoundOf(t, s) ==
  /\ s.nxt = t.nxt /\ s.prv = t.prv
  /\ s.total = t.total /\ s.adj = t.adj /\ s.inserted = t.inserted
  /\ s.delay = IF t.adj > 0 THEN Less(t.delay, t.pos, t.adj) ELSE t.delay
  /\ s.pos = t.nxt[t.pos]

\* The types of the fields.
LEMMA StateFields ==
  ASSUME NEW n \in Nat, NEW s \in LoopState(n)
  PROVE  /\ s.nxt \in [Cells(n) -> Cells(n)] /\ s.prv \in [Cells(n) -> Cells(n)]
         /\ s.delay \in [1 .. n + 1 -> Int] /\ s.total \in Int /\ s.adj \in Int
         /\ s.inserted \in BOOLEAN /\ s.pos \in Cells(n)
  BY DEF LoopState

\* __list_add changes the links only.
Added(t, s, new, prev, next) ==
  /\ t.nxt = [[s.nxt EXCEPT ![new] = next] EXCEPT ![prev] = new]
  /\ t.prv = [[s.prv EXCEPT ![next] = new] EXCEPT ![new] = prev]
  /\ t.delay = s.delay /\ t.inserted = s.inserted /\ t.pos = s.pos

\* What __list_add leaves in the fields.
LEMMA AddFields ==
  ASSUME NEW n \in Nat, NEW s \in LoopState(n), NEW new \in Cells(n),
         NEW prev \in Cells(n), NEW next \in Cells(n)
  PROVE  /\ ListAdd(s, new, prev, next) \in LoopState(n)
         /\ Added(ListAdd(s, new, prev, next), s, new, prev, next)
  BY DEF LoopState, ListAdd, Added

\* The part of a round behind the insertion.
LEMMA RoundFields ==
  ASSUME NEW n \in Nat, NEW s, NEW new, NEW t \in LoopState(n), Insert(s, new) = t,
         t.pos = s.pos, t.pos # Head0
  PROVE  Round(s, new) \in LoopState(n) /\ RoundOf(t, Round(s, new))
<1> DEFINE u == [t EXCEPT !.delay = IF t.adj > 0 THEN Less(@, t.pos, t.adj) ELSE @,
                          !.pos = t.nxt[t.pos]]
<1>1. Round(s, new) = u
  BY DEF Round
<1>2. u \in LoopState(n)
  <2>1. t.pos \in 1 .. n + 1
    <3>1. t.pos \in Cells(n)
      BY DEF LoopState
    <3> QED
      BY <3>1 DEF Cells, Head0
  <2> DEFINE e == IF t.adj > 0 THEN Less(t.delay, t.pos, t.adj) ELSE t.delay
  <2>2. e \in [1 .. n + 1 -> Int]
    BY <2>1 DEF LoopState, Less
  <2>3. t.nxt[t.pos] \in Cells(n)
    BY DEF LoopState
  <2>4. u = [[t EXCEPT !.delay = e] EXCEPT !.pos = t.nxt[t.pos]]
    OBVIOUS
  <2> HIDE DEF e, u
  <2> QED
    BY <2>2, <2>3, <2>4 DEF LoopState
<1>3. RoundOf(t, u)
  BY DEF LoopState, Cells, RoundOf
<1> QED
  BY <1>1, <1>2, <1>3

\* The new buffer is linked before the one at hand.
Before(t, s, new) ==
  /\ t.nxt = [[s.nxt EXCEPT ![new] = s.pos] EXCEPT ![s.prv[s.pos]] = new]
  /\ t.prv = [[s.prv EXCEPT ![s.pos] = new] EXCEPT ![new] = s.prv[s.pos]]
  /\ t.delay = s.delay /\ t.inserted /\ t.pos = s.pos
  /\ t.adj = s.delay[new] - s.total

\* The first branch of the insertion.
LEMMA InsertBefore ==
  ASSUME NEW n \in Nat, NEW s \in LoopState(n), NEW new \in 1 .. n + 1,
         s.pos \in 1 .. n + 1,
         ~s.inserted, s.total + s.delay[s.pos] > s.delay[new]
  PROVE  Insert(s, new) \in LoopState(n) /\ Before(Insert(s, new), s, new)
<1> DEFINE l == ListAdd(s, new, s.prv[s.pos], s.pos)
           total == s.total + s.delay[s.pos]
           adj == s.delay[new] - (total - s.delay[s.pos])
           t == [l EXCEPT !.total = total, !.inserted = TRUE, !.adj = adj]
<1>1. Insert(s, new) = t
  BY DEF Insert
<1>2. /\ s.prv[s.pos] \in Cells(n) /\ s.pos \in Cells(n) /\ new \in Cells(n)
      /\ s.total \in Int /\ s.delay[s.pos] \in Int /\ s.delay[new] \in Int
  <2>1. s.pos \in Cells(n) /\ new \in Cells(n)
    BY DEF Cells
  <2> QED
    BY <2>1, StateFields
<1>3. total \in Int /\ adj \in Int /\ adj = s.delay[new] - s.total
  BY <1>2
<1>4. l \in LoopState(n) /\ Added(l, s, new, s.prv[s.pos], s.pos)
  BY ONLY <1>2, n \in Nat, s \in LoopState(n), AddFields
<1> HIDE DEF l, total, adj
<1>5. /\ t \in LoopState(n) /\ t.nxt = l.nxt /\ t.prv = l.prv /\ t.delay = l.delay
      /\ t.inserted /\ t.pos = l.pos /\ t.adj = adj
  BY <1>3, <1>4 DEF LoopState
<1> HIDE DEF t
<1> QED
  BY <1>1, <1>3, <1>4, <1>5 DEF Before, Added

\* The new buffer is linked behind the one at hand, and the loop goes on.
Behind(t, s, new) ==
  /\ t.nxt = [[s.nxt EXCEPT ![new] = s.nxt[s.pos]] EXCEPT ![s.pos] = new]
  /\ t.inserted = s.inserted /\ t.pos = s.pos

\* The second branch of the insertion.
LEMMA InsertBehind ==
  ASSUME NEW n \in Nat, NEW s \in LoopState(n), NEW new \in 1 .. n + 1,
         s.pos \in 1 .. n + 1,
         ~s.inserted, ~(s.total + s.delay[s.pos] > s.delay[new])
  PROVE  Insert(s, new) \in LoopState(n) /\ Behind(Insert(s, new), s, new)
<1> DEFINE l == ListAdd(s, new, s.pos, s.nxt[s.pos])
           total == s.total + s.delay[s.pos]
           e == Less(l.delay, new, total)
           t == [l EXCEPT !.total = total, !.delay = e]
<1>1. Insert(s, new) = t
  BY DEF Insert
<1>2. /\ s.nxt[s.pos] \in Cells(n) /\ s.pos \in Cells(n) /\ new \in Cells(n)
      /\ s.total \in Int /\ s.delay[s.pos] \in Int
  <2>1. s.pos \in Cells(n) /\ new \in Cells(n)
    BY DEF Cells
  <2> QED
    BY <2>1, StateFields
<1>3. total \in Int
  BY <1>2
<1>4. l \in LoopState(n) /\ Added(l, s, new, s.pos, s.nxt[s.pos])
  BY ONLY <1>2, n \in Nat, s \in LoopState(n), AddFields
<1> HIDE DEF l, total
<1>5. e \in [1 .. n + 1 -> Int]
  <2>1. l.delay \in [1 .. n + 1 -> Int]
    BY <1>4, StateFields
  <2> QED
    BY <1>3, <2>1 DEF Less
<1> HIDE DEF e
<1>6. t \in LoopState(n) /\ t.nxt = l.nxt /\ t.inserted = l.inserted /\ t.pos = l.pos
  BY <1>3, <1>4, <1>5 DEF LoopState
<1> HIDE DEF t
<1> QED
  BY <1>1, <1>4, <1>6 DEF Behind, Added

\* The state before the loop.
Started(s, n, d, D) ==
  /\ s.nxt = [c \in Cells(n) |-> IF c < n THEN c + 1 ELSE 0]
  /\ s.prv = [c \in Cells(n) |-> IF c = 0 THEN n ELSE c - 1]
  /\ s.delay = [c \in 1 .. n + 1 |-> IF c <= n THEN d[c] ELSE D]
  /\ s.total = 0 /\ ~s.inserted /\ s.pos = 1

\* The fields before the first round.
LEMMA StartFields ==
  ASSUME NEW n \in Nat, n # 0, NEW d \in [1 .. n -> Int], NEW D \in Nat
  PROVE  Start(d, D) \in LoopState(n) /\ Started(Start(d, D), n, d, D)
<1>1. Len(d) = n
  BY LoopRounds
<1> QED
  BY <1>1 DEF Start, Started, LoopState, Cells, Head0

(***************************************************************************)
(* A delay not shorter than the first buffer's.                            *)
(***************************************************************************)
\* The loop stands on the new buffer, which is linked to itself.
Caught(s, n) == s \in LoopState(n) /\ s.pos = New(n) /\ s.nxt[New(n)] = New(n)

\* A loop that comes to the new buffer before it is inserted is caught, and
\* nothing leads out of that.
LEMMA GetsCaught ==
  ASSUME NEW n \in Nat, NEW s \in LoopState(n), s.pos = New(n),
         ~s.inserted \/ s.nxt[New(n)] = New(n)
  PROVE  Caught(Round(s, New(n)), n)
<1> DEFINE new == New(n)
           t == Insert(s, new)
<1>1. /\ new \in 1 .. n + 1 /\ new # Head0 /\ s.pos = new
      /\ ~s.inserted \/ s.nxt[new] = new
  BY DEF New, Head0
<1>2. t \in LoopState(n) /\ t.pos = new /\ t.nxt[new] = new
  <2>1. CASE s.inserted
    BY <1>1, <2>1 DEF Insert
  <2>2. CASE ~s.inserted /\ s.total + s.delay[new] > s.delay[new]
    <3>1. t \in LoopState(n) /\ Before(t, s, new)
      BY ONLY <1>1, <2>2, n \in Nat, s \in LoopState(n), InsertBefore
    <3>2. s.nxt \in [Cells(n) -> Cells(n)] /\ new \in Cells(n)
      BY <1>1, StateFields DEF Cells
    <3> HIDE DEF t
    <3> QED
      BY <1>1, <3>1, <3>2 DEF Before
  <2>3. CASE ~s.inserted /\ ~(s.total + s.delay[new] > s.delay[new])
    <3>1. t \in LoopState(n) /\ Behind(t, s, new)
      BY ONLY <1>1, <2>3, n \in Nat, s \in LoopState(n), InsertBehind
    <3>2. s.nxt \in [Cells(n) -> Cells(n)] /\ new \in Cells(n)
      BY <1>1, StateFields DEF Cells
    <3> HIDE DEF t
    <3> QED
      BY <1>1, <3>1, <3>2 DEF Behind
  <2> QED
    BY <2>1, <2>2, <2>3
<1> HIDE DEF t
<1>3. Round(s, new) \in LoopState(n) /\ RoundOf(t, Round(s, new))
  BY <1>1, <1>2, RoundFields DEF t
<1> QED
  BY <1>2, <1>3 DEF RoundOf, Caught

\* After two rounds the loop is caught for good.
LEMMA LongerLoops ==
  ASSUME NEW n \in Nat, n # 0, NEW d \in [1 .. n -> Int], NEW D \in Nat, D >= d[1]
  PROVE  Stuck(Loop(d, D), New(n))
<1> DEFINE new == New(n)
           s == Start(d, D)
           t == Insert(s, new)
<1>1. PICK f : /\ f[0] = s
               /\ \A i \in 1 .. n + 2 : f[i] = Step(f[i - 1], n)
               /\ Loop(d, D) = f[n + 2]
  BY LoopRounds
<1>2. /\ s \in LoopState(n) /\ s.pos = 1 /\ ~s.inserted /\ s.total = 0
      /\ s.delay[1] = d[1] /\ s.delay[new] = D
  <2>1. s \in LoopState(n) /\ Started(s, n, d, D)
    BY StartFields
  <2> HIDE DEF s
  <2> QED
    BY <2>1 DEF Started, New
<1> HIDE DEF s
<1>3. new \in 1 .. n + 1 /\ new # Head0 /\ new # 1 /\ 1 \in 1 .. n + 1 /\ 1 # Head0
  BY DEF New, Head0
<1>4. t \in LoopState(n) /\ Behind(t, s, new)
  <2>1. d[1] \in Int /\ ~(s.total + s.delay[s.pos] > s.delay[new])
    BY <1>2
  <2> QED
    BY ONLY <1>2, <1>3, <2>1, n \in Nat, InsertBehind
<1>5. t.pos = 1 /\ ~t.inserted /\ t.nxt[1] = new
  <2>1. s.nxt \in [Cells(n) -> Cells(n)] /\ 1 \in Cells(n) /\ new \in Cells(n)
    <3>1. 1 \in Cells(n) /\ new \in Cells(n)
      BY <1>3 DEF Cells
    <3> QED
      BY <1>2, <3>1, StateFields
  <2> HIDE DEF t
  <2> QED
    BY <1>2, <1>3, <1>4, <2>1 DEF Behind
<1>6. Round(s, new) \in LoopState(n) /\ RoundOf(t, Round(s, new))
  BY <1>2, <1>3, <1>4, <1>5, RoundFields
<1> HIDE DEF t
<1>7. f[1] \in LoopState(n) /\ f[1].pos = new /\ ~f[1].inserted
  <2>1. f[1] = Round(s, new)
    <3>1. 1 \in 1 .. n + 2 /\ 1 - 1 = 0
      OBVIOUS
    <3>2. f[1] = Step(s, n)
      BY <1>1, <3>1
    <3> QED
      BY <1>2, <1>3, <3>2 DEF Step
  <2> QED
    BY <1>5, <1>6, <2>1 DEF RoundOf
<1>8. ASSUME NEW k \in 2 .. n + 2 PROVE Caught(f[k], n)
  <2> DEFINE T == { j \in 2 .. n + 2 : ~Caught(f[j], n) }
  <2> SUFFICES ASSUME T # {} PROVE FALSE
    OBVIOUS
  <2>1. T \subseteq Nat
    OBVIOUS
  <2>2. PICK m \in T : \A j \in T : m <= j
    BY <2>1, LeastNumber
  <2>3. m \in 1 .. n + 2 /\ m - 1 \in 1 .. n + 2 /\ ~(m <= m - 1) /\ (m = 2 \/ m - 1 \in 2 .. n + 2)
    BY <2>2
  <2>4. /\ f[m - 1] \in LoopState(n) /\ f[m - 1].pos = new
        /\ ~f[m - 1].inserted \/ f[m - 1].nxt[new] = new
    <3>1. CASE m = 2
      BY <1>7, <3>1
    <3>2. CASE m # 2
      <4>1. m - 1 \notin T
        BY <2>2, <2>3
      <4> QED
        BY <2>3, <3>2, <4>1 DEF Caught
    <3> QED
      BY <3>1, <3>2
  <2>5. f[m] = Round(f[m - 1], new)
    BY <1>1, <1>3, <2>3, <2>4 DEF Step
  <2>6. Caught(f[m], n)
    BY <2>4, <2>5, GetsCaught
  <2> QED
    BY <2>2, <2>6
<1>9. Caught(f[n + 2], n)
  BY <1>8
<1>10. Caught(Round(f[n + 2], new), n)
  BY <1>9, GetsCaught DEF Caught
<1> QED
  BY <1>1, <1>9, <1>10 DEF Stuck, Caught

(***************************************************************************)
(* A delay shorter than the first buffer's.                                *)
(***************************************************************************)
\* The links with the new buffer first; the delays when it has been taken off
\* those of k others.
Nxt(n) == [c \in Cells(n) |-> IF c = 0 THEN n + 1 ELSE IF c = n + 1 THEN 1
                             ELSE IF c < n THEN c + 1 ELSE 0]
Prv(n) == [c \in Cells(n) |-> IF c = 0 THEN n ELSE IF c = 1 THEN n + 1
                             ELSE IF c = n + 1 THEN 0 ELSE c - 1]
Taken(n, d, D, k) ==
  [c \in 1 .. n + 1 |-> IF c <= k THEN d[c] - D ELSE IF c <= n THEN d[c] ELSE D]

Passed(s, n, d, D, k) ==
  /\ s \in LoopState(n) /\ s.inserted /\ s.adj = D
  /\ s.nxt = Nxt(n) /\ s.prv = Prv(n) /\ s.delay = Taken(n, d, D, k)
  /\ s.pos = IF k < n THEN k + 1 ELSE 0

\* The delay is taken off that of one more.
LEMMA TakenNext ==
  ASSUME NEW n \in Nat, NEW d \in [1 .. n -> Int], NEW D \in Nat, NEW k \in 0 .. n - 1
  PROVE  Taken(n, d, D, k + 1) = IF D > 0 THEN Less(Taken(n, d, D, k), k + 1, D)
                                 ELSE Taken(n, d, D, k)
<1> DEFINE e == Taken(n, d, D, k)
           g == Taken(n, d, D, k + 1)
<1>1. k \in Nat /\ k + 1 <= n /\ k + 1 \in 1 .. n + 1
  OBVIOUS
<1>2. e \in [1 .. n + 1 -> Int] /\ g \in [1 .. n + 1 -> Int]
  BY DEF Taken
<1>3. /\ e[k + 1] = d[k + 1] /\ g[k + 1] = d[k + 1] - D
      /\ d[k + 1] \in Int
  BY <1>1 DEF Taken
<1>4. \A c \in 1 .. n + 1 : c # k + 1 => g[c] = e[c]
  <2> SUFFICES ASSUME NEW c \in 1 .. n + 1, c # k + 1 PROVE g[c] = e[c]
    OBVIOUS
  <2>1. c <= k + 1 <=> c <= k
    BY <1>1
  <2> QED
    BY <2>1 DEF Taken
<1> HIDE DEF e, g
<1>5. CASE D > 0
  <2>1. Less(e, k + 1, D) = [e EXCEPT ![k + 1] = g[k + 1]]
    BY <1>3 DEF Less
  <2>2. g = [e EXCEPT ![k + 1] = g[k + 1]]
    BY <1>1, <1>2, <1>4
  <2> QED
    BY <1>5, <2>1, <2>2 DEF e, g
<1>6. CASE D = 0
  <2>1. \A c \in 1 .. n + 1 : g[c] = e[c]
    BY <1>3, <1>4, <1>6
  <2>2. g = e
    BY <1>2, <2>1
  <2> QED
    BY <1>6, <2>2 DEF e, g
<1> QED
  BY <1>5, <1>6

\* A round with the new buffer linked.
LEMMA OneMoreLess ==
  ASSUME NEW n \in Nat, NEW d \in [1 .. n -> Int], NEW D \in Nat, NEW k \in 0 .. n - 1,
         NEW t, NEW s \in LoopState(n), RoundOf(t, s),
         t.adj = D, t.pos = k + 1, t.inserted,
         t.nxt = Nxt(n), t.prv = Prv(n), t.delay = Taken(n, d, D, k)
  PROVE  Passed(s, n, d, D, k + 1)
<1>1. /\ s.inserted /\ s.adj = D /\ s.nxt = Nxt(n) /\ s.prv = Prv(n)
      /\ s.delay = IF D > 0 THEN Less(Taken(n, d, D, k), k + 1, D) ELSE Taken(n, d, D, k)
      /\ s.pos = Nxt(n)[k + 1]
  BY DEF RoundOf
<1>2. s.delay = Taken(n, d, D, k + 1)
  BY <1>1, TakenNext
<1>3. Nxt(n)[k + 1] = IF k + 1 < n THEN k + 1 + 1 ELSE 0
  BY DEF Nxt, Cells
<1> QED
  BY <1>1, <1>2, <1>3 DEF Passed

\* The loop passes all buffers and ends.
LEMMA ShorterIsFirst ==
  ASSUME NEW n \in Nat, n # 0, NEW d \in [1 .. n -> Int], NEW D \in Nat, D < d[1]
  PROVE  AddedFirst(Loop(d, D), d, D)
<1> DEFINE new == New(n)
           s == Start(d, D)
           t == Insert(s, new)
<1>1. PICK f : /\ f[0] = s
               /\ \A i \in 1 .. n + 2 : f[i] = Step(f[i - 1], n)
               /\ Loop(d, D) = f[n + 2]
  BY ONLY n \in Nat, d \in [1 .. n -> Int], LoopRounds
<1>2. s \in LoopState(n) /\ Started(s, n, d, D)
  BY StartFields
<1> HIDE DEF s
<1>3. /\ new \in 1 .. n + 1 /\ new = n + 1 /\ new \in Cells(n) /\ 1 \in Cells(n)
      /\ 1 \in 1 .. n + 1 /\ 1 # Head0 /\ Head0 = 0
  BY DEF New, Head0, Cells
<1>4. /\ s.pos = 1 /\ ~s.inserted /\ s.total = 0 /\ d[1] \in Int
      /\ s.delay[1] = d[1] /\ s.delay[new] = D /\ s.prv[1] = 0
  BY <1>2, <1>3 DEF Started
<1>5. t \in LoopState(n) /\ Before(t, s, new)
  <2>1. s.total + s.delay[s.pos] > s.delay[new]
    BY <1>4
  <2> QED
    BY ONLY <1>2, <1>3, <1>4, <2>1, n \in Nat, InsertBefore
<1> HIDE DEF t
<1>6. t.adj = D /\ t.pos = 1 /\ t.inserted
  BY <1>4, <1>5 DEF Before
<1>7. t.nxt = Nxt(n)
  <2>1. t.nxt = [[s.nxt EXCEPT ![n + 1] = 1] EXCEPT ![0] = n + 1]
    BY <1>3, <1>4, <1>5 DEF Before
  <2> QED
    BY <1>2, <2>1 DEF Started, Nxt, Cells
<1>8. t.prv = Prv(n)
  <2>1. t.prv = [[s.prv EXCEPT ![1] = n + 1] EXCEPT ![n + 1] = 0]
    BY <1>3, <1>4, <1>5 DEF Before
  <2>2. s.prv = [c \in Cells(n) |-> IF c = 0 THEN n ELSE c - 1]
    BY <1>2 DEF Started
  <2>3. t.prv \in [Cells(n) -> Cells(n)] /\ s.prv \in [Cells(n) -> Cells(n)]
    BY <1>2, <1>5, StateFields
  <2>4. ASSUME NEW c \in Cells(n) PROVE t.prv[c] = Prv(n)[c]
    <3>1. t.prv[c] = IF c = n + 1 THEN 0 ELSE IF c = 1 THEN n + 1 ELSE s.prv[c]
      BY <2>1, <2>3
    <3>2. n + 1 # 0 /\ n + 1 # 1
      OBVIOUS
    <3>3. s.prv[c] = IF c = 0 THEN n ELSE c - 1
      BY <2>2
    <3>4. Prv(n)[c] = IF c = 0 THEN n ELSE IF c = 1 THEN n + 1
                      ELSE IF c = n + 1 THEN 0 ELSE c - 1
      BY DEF Prv
    <3> QED
      BY <3>1, <3>2, <3>3, <3>4
  <2>5. Prv(n) = [c \in Cells(n) |-> Prv(n)[c]]
    BY DEF Prv
  <2> QED
    BY <2>3, <2>4, <2>5
<1>9. t.delay = Taken(n, d, D, 0)
  <2>1. t.delay = [c \in 1 .. n + 1 |-> IF c <= n THEN d[c] ELSE D]
    BY <1>2, <1>5 DEF Before, Started
  <2> QED
    BY <2>1 DEF Taken
<1>10. Passed(f[1], n, d, D, 1)
  <2>1. f[1] = Round(s, new)
    <3>1. 1 \in 1 .. n + 2 /\ 1 - 1 = 0
      OBVIOUS
    <3>2. f[1] = Step(s, n)
      BY <1>1, <3>1
    <3> QED
      BY <1>3, <1>4, <3>2 DEF Step
  <2>2. Round(s, new) \in LoopState(n) /\ RoundOf(t, Round(s, new))
    BY <1>3, <1>4, <1>5, <1>6, RoundFields DEF t
  <2>3. 0 \in 0 .. n - 1 /\ 0 + 1 = 1
    OBVIOUS
  <2>4. Passed(Round(s, new), n, d, D, 0 + 1)
    BY <1>6, <1>7, <1>8, <1>9, <2>2, <2>3, OneMoreLess
  <2> QED
    BY <2>1, <2>3, <2>4
<1>11. ASSUME NEW k \in 1 .. n PROVE Passed(f[k], n, d, D, k)
  <2> DEFINE T == { j \in 1 .. n : ~Passed(f[j], n, d, D, j) }
  <2> SUFFICES ASSUME T # {} PROVE FALSE
    OBVIOUS
  <2>1. T \subseteq Nat
    OBVIOUS
  <2>2. PICK m \in T : \A j \in T : m <= j
    BY <2>1, LeastNumber
  <2>3. m \in 1 .. n /\ m # 1 /\ ~Passed(f[m], n, d, D, m)
    BY <1>10, <2>2
  <2>4. PICK k1 \in 1 .. n : k1 = m - 1 /\ k1 + 1 = m /\ k1 \in 0 .. n - 1 /\ k1 < n
    BY <2>3
  <2>5. k1 \notin T
    BY <2>2, <2>4
  <2>6. Passed(f[k1], n, d, D, k1)
    BY <2>5
  <2>7. f[k1].pos = k1 + 1 /\ f[k1].pos # Head0 /\ f[k1] \in LoopState(n) /\ f[k1].inserted
    BY <1>3, <2>4, <2>6 DEF Passed
  <2>8. f[m] = Round(f[k1], new)
    <3>1. m \in 1 .. n + 2 /\ m - 1 = k1
      BY <2>3, <2>4
    <3> QED
      BY <1>1, <2>7, <3>1 DEF Step
  <2>9. Insert(f[k1], new) = f[k1]
    BY <2>7 DEF Insert
  <2>10. f[m] \in LoopState(n) /\ RoundOf(f[k1], f[m])
    BY <2>7, <2>8, <2>9, RoundFields
  <2>11. Passed(f[m], n, d, D, k1 + 1)
    <3>1. /\ f[k1].adj = D /\ f[k1].pos = k1 + 1 /\ f[k1].inserted
          /\ f[k1].nxt = Nxt(n) /\ f[k1].prv = Prv(n) /\ f[k1].delay = Taken(n, d, D, k1)
      BY <2>6, <2>7 DEF Passed
    <3> QED
      BY ONLY <2>4, <2>10, <3>1, n \in Nat, d \in [1 .. n -> Int], D \in Nat, OneMoreLess
  <2> QED
    BY <2>3, <2>4, <2>11
<1>12. Passed(f[n + 2], n, d, D, n)
  <2>1. Passed(f[n], n, d, D, n)
    BY <1>11
  <2>2. f[n].pos = Head0
    BY <1>3, <2>1 DEF Passed
  <2>3. f[n + 1] = f[n]
    <3>1. n + 1 \in 1 .. n + 2 /\ n + 1 - 1 = n
      OBVIOUS
    <3> QED
      BY <1>1, <2>2, <3>1 DEF Step
  <2>4. f[n + 2] = f[n]
    <3>1. n + 2 \in 1 .. n + 2 /\ n + 2 - 1 = n + 1
      OBVIOUS
    <3> QED
      BY <1>1, <2>2, <2>3, <3>1 DEF Step
  <2> QED
    BY <2>1, <2>4
<1> DEFINE l == f[n + 2]
<1>13. l.pos = 0 /\ l.nxt = Nxt(n) /\ l.prv = Prv(n) /\ l.delay = Taken(n, d, D, n)
  BY <1>12 DEF Passed
<1> HIDE DEF l
<1>14. /\ l.nxt[0] = n + 1 /\ l.nxt[n + 1] = 1
       /\ \A c \in 1 .. n : l.nxt[c] = IF c < n THEN c + 1 ELSE 0
  BY <1>13 DEF Nxt, Cells
<1>15. \A c \in 0 .. n + 1 : l.prv[l.nxt[c]] = c
  <2> SUFFICES ASSUME NEW c \in 0 .. n + 1 PROVE l.prv[l.nxt[c]] = c
    OBVIOUS
  <2>1. /\ l.prv[0] = n /\ l.prv[1] = n + 1 /\ l.prv[n + 1] = 0
        /\ \A b \in 2 .. n : l.prv[b] = b - 1
    BY <1>13 DEF Prv, Cells
  <2>2. c = 0 \/ c = n + 1 \/ c = n \/ (c \in 1 .. n /\ c < n /\ c + 1 \in 2 .. n)
    OBVIOUS
  <2> QED
    BY <1>14, <2>1, <2>2
<1>16. l.delay = [c \in 1 .. n + 1 |-> IF c <= n THEN d[c] - D ELSE D]
  BY <1>13 DEF Taken
<1>17. Len(d) = n
  BY LoopRounds
<1> QED
  BY <1>1, <1>3, <1>13, <1>14, <1>15, <1>16, <1>17 DEF AddedFirst, l

\* On a list of any length, add_forward_list puts a frame with a shorter delay
\* than the first one's in front, as RxAddFirst of MdaForward says, and with any
\* other delay it loops on the new frame for ever, as RxAddLoops says.
THEOREM InsertionIsByLinks ==
  \A n \in Nat \ {0} : \A d \in [1 .. n -> Int], D \in Nat : InsertionByLinks(d, D)
<1> SUFFICES ASSUME NEW n \in Nat \ {0}, NEW d \in [1 .. n -> Int], NEW D \in Nat
             PROVE  InsertionByLinks(d, D)
  OBVIOUS
<1>1. Len(d) = n /\ d[1] \in Int
  BY LoopRounds
<1>2. CASE D < d[1]
  BY <1>2, ShorterIsFirst DEF InsertionByLinks
<1>3. CASE ~(D < d[1])
  <2>1. D >= d[1]
    BY <1>1, <1>3
  <2> QED
    BY <1>1, <1>3, <2>1, LongerLoops DEF InsertionByLinks
<1> QED
  BY <1>2, <1>3
==============================================================================
