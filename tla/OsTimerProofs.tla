--------------------------- MODULE OsTimerProofs ----------------------------
(***************************************************************************)
(* Theorems about OsTimer, for any timers, callers, periods and lateness.  *)
(***************************************************************************)
EXTENDS OsTimer, SequenceTheorems, FiniteSetTheorems, TLAPS

(***************************************************************************)
(* The queue as a sequence.                                                *)
(***************************************************************************)
Elements(q) == { q[i] : i \in DOMAIN q }

Once(q)    == \A i, j \in DOMAIN q : q[i] = q[j] => i = j
Sorted(q)  == \A i, j \in DOMAIN q : i < j => rem[q[i]] <= rem[q[j]]

\* There is a first timer that expires later, or the end of the queue: the
\* loop of __timer_thread_queue_timer stops at one place.
LEMMA PlaceFound ==
  ASSUME NEW q \in Seq(Timers), rem \in [Timers -> Int], NEW x \in Int
  PROVE  /\ Place(q, x) \in 1 .. Len(q) + 1
         /\ \A j \in 1 .. Place(q, x) - 1 : rem[q[j]] <= x
         /\ Place(q, x) <= Len(q) => rem[q[Place(q, x)]] > x
<1> DEFINE Stops(i) == i <= Len(q) => rem[q[i]] > x
           Upto == { 1 .. i : i \in { k \in 1 .. Len(q) + 1 : Stops(k) } }
<1>1. Len(q) \in Nat /\ \A i \in 1 .. Len(q) : q[i] \in Timers
  OBVIOUS
<1>2. Upto # {}
  <2>1. Len(q) + 1 \in 1 .. Len(q) + 1 /\ Stops(Len(q) + 1)
    BY <1>1
  <2> QED
    BY <2>1
<1>3. Upto \subseteq FiniteSubsetsOf(Nat)
  <2> SUFFICES ASSUME NEW k \in 1 .. Len(q) + 1
               PROVE  1 .. k \in SUBSET Nat /\ IsFiniteSet(1 .. k)
    BY DEF FiniteSubsetsOf
  <2>1. k \in Int /\ 1 \in Int /\ 1 .. k \subseteq Nat
    BY <1>1
  <2> QED
    BY <2>1, FS_Interval
<1>4. PICK U \in Upto : \A V \in Upto : ~(<<V, U>> \in StrictSubsetOrdering(Nat))
  BY <1>2, <1>3, FS_StrictSubsetOrderingWellFounded, WFMin
<1>5. PICK m \in 1 .. Len(q) + 1 : Stops(m) /\ U = 1 .. m
  OBVIOUS
<1>6. \A j \in 1 .. m - 1 : ~Stops(j)
  <2> SUFFICES ASSUME NEW j \in 1 .. m - 1, Stops(j) PROVE FALSE
    OBVIOUS
  <2>1. 1 .. j \in Upto
    BY <1>1
  <2>2. <<1 .. j, U>> \in StrictSubsetOrdering(Nat)
    <3>1. 1 .. j \in SUBSET Nat /\ U \in SUBSET Nat
      BY <1>5
    <3>2. 1 .. j \subseteq U /\ m \in U /\ m \notin 1 .. j
      BY <1>1, <1>5
    <3> QED
      BY <3>1, <3>2 DEF StrictSubsetOrdering
  <2> QED
    BY <1>4, <2>1, <2>2
<1>7. \A j \in 1 .. m - 1 : rem[q[j]] <= x
  BY <1>1, <1>6
<1> HIDE DEF Upto
<1> QED
  BY <1>5, <1>7 DEF Place

\* The elements of a concatenation, by the lengths of its parts.
LEMMA Concatenated ==
  ASSUME NEW a \in Seq(Timers), NEW b \in Seq(Timers), NEW k \in Nat, NEW l \in Nat,
         k = Len(a), l = Len(a) + Len(b)
  PROVE  /\ a \o b \in Seq(Timers) /\ Len(a \o b) = l
         /\ \A j \in 1 .. l : (a \o b)[j] = IF j <= k THEN a[j] ELSE b[j - k]
  BY ConcatProperties

\* InsertAt puts t at place i and moves the later timers up by one.
LEMMA Inserted ==
  ASSUME NEW q \in Seq(Timers), NEW i \in 1 .. Len(q) + 1, NEW t \in Timers
  PROVE  /\ InsertAt(q, i, t) \in Seq(Timers)
         /\ Len(InsertAt(q, i, t)) = Len(q) + 1
         /\ \A j \in 1 .. Len(q) + 1 : InsertAt(q, i, t)[j] =
              IF j < i THEN q[j] ELSE IF j = i THEN t ELSE q[j - 1]
<1> DEFINE a == SubSeq(q, 1, i - 1)
           b == SubSeq(q, i, Len(q))
<1>1. Len(q) \in Nat /\ \A j \in 1 .. Len(q) : q[j] \in Timers
  OBVIOUS
<1>2. /\ a \in Seq(Timers) /\ Len(a) = i - 1
      /\ \A j \in 1 .. i - 1 : a[j] = q[j]
  BY <1>1, SubSeqProperties
<1>3. /\ b \in Seq(Timers) /\ Len(b) = Len(q) - i + 1
      /\ \A j \in 1 .. Len(q) - i + 1 : b[j] = q[i + j - 1]
  BY <1>1, SubSeqProperties
<1>4. <<t>> \in Seq(Timers) /\ Len(<<t>>) = 1 /\ <<t>>[1] = t
  OBVIOUS
<1> HIDE DEF a, b
<1> DEFINE c == a \o <<t>>
<1>5. /\ c \in Seq(Timers) /\ Len(c) = i
      /\ \A j \in 1 .. i : c[j] = IF j < i THEN q[j] ELSE t
  BY <1>1, <1>2, <1>4, ConcatProperties
<1> HIDE DEF c
<1>6. /\ c \o b \in Seq(Timers)
      /\ Len(c \o b) = Len(q) + 1
      /\ \A j \in 1 .. Len(q) + 1 : (c \o b)[j] =
           IF j < i THEN q[j] ELSE IF j = i THEN t ELSE q[j - 1]
  <2>1. i \in Nat /\ Len(q) + 1 \in Nat /\ Len(q) + 1 = Len(c) + Len(b)
    BY <1>1, <1>3, <1>5
  <2>2. /\ c \o b \in Seq(Timers) /\ Len(c \o b) = Len(q) + 1
        /\ \A j \in 1 .. Len(q) + 1 : (c \o b)[j] = IF j <= i THEN c[j] ELSE b[j - i]
    BY ONLY <1>3, <1>5, <2>1, Concatenated
  <2>3. ASSUME NEW j \in 1 .. Len(q) + 1, j > i
        PROVE  b[j - i] = q[j - 1]
    <3>1. j - i \in 1 .. Len(q) - i + 1 /\ i + (j - i) - 1 = j - 1
      BY <1>1, <2>3
    <3> QED
      BY <1>3, <3>1
  <2>4. ASSUME NEW j \in 1 .. Len(q) + 1, j <= i
        PROVE  c[j] = IF j < i THEN q[j] ELSE t
    <3>1. j \in 1 .. i
      BY <1>1, <2>4
    <3> QED
      BY <1>5, <3>1
  <2> QED
    BY <1>1, <2>2, <2>3, <2>4
<1> QED
  BY <1>6 DEF InsertAt, a, b, c

\* RemoveAt leaves the earlier timers and moves the later ones down by one.
LEMMA Removed ==
  ASSUME NEW q \in Seq(Timers), NEW i \in 1 .. Len(q)
  PROVE  /\ RemoveAt(q, i) \in Seq(Timers)
         /\ Len(RemoveAt(q, i)) = Len(q) - 1
         /\ \A j \in 1 .. Len(q) - 1 :
              RemoveAt(q, i)[j] = IF j < i THEN q[j] ELSE q[j + 1]
<1> DEFINE a == SubSeq(q, 1, i - 1)
           b == SubSeq(q, i + 1, Len(q))
<1>1. Len(q) \in Nat /\ \A j \in 1 .. Len(q) : q[j] \in Timers
  OBVIOUS
<1>2. /\ a \in Seq(Timers) /\ Len(a) = i - 1
      /\ \A j \in 1 .. i - 1 : a[j] = q[j]
  BY <1>1, SubSeqProperties
<1>3. /\ b \in Seq(Timers) /\ Len(b) = Len(q) - i
      /\ \A j \in 1 .. Len(q) - i : b[j] = q[i + j]
  BY <1>1, SubSeqProperties
<1> HIDE DEF a, b
<1>4. /\ a \o b \in Seq(Timers) /\ Len(a \o b) = Len(q) - 1
      /\ \A j \in 1 .. Len(q) - 1 : (a \o b)[j] = IF j < i THEN q[j] ELSE q[j + 1]
  <2> DEFINE m == i - 1
  <2>1. m \in Nat /\ Len(q) - 1 \in Nat /\ m = Len(a) /\ Len(q) - 1 = Len(a) + Len(b)
    BY <1>1, <1>2, <1>3
  <2> HIDE DEF m
  <2>2. /\ a \o b \in Seq(Timers) /\ Len(a \o b) = Len(q) - 1
        /\ \A j \in 1 .. Len(q) - 1 : (a \o b)[j] = IF j <= m THEN a[j] ELSE b[j - m]
    BY ONLY <1>2, <1>3, <2>1, Concatenated
  <2>3. ASSUME NEW j \in 1 .. Len(q) - 1, j >= i
        PROVE  b[j - m] = q[j + 1]
    <3>1. j - m \in 1 .. Len(q) - i /\ i + (j - m) = j + 1
      BY <1>1, <2>3 DEF m
    <3> QED
      BY <1>3, <3>1
  <2>4. ASSUME NEW j \in 1 .. Len(q) - 1, j < i
        PROVE  a[j] = q[j] /\ j <= m
    BY <1>1, <1>2, <2>4 DEF m
  <2>5. \A j \in 1 .. Len(q) - 1 : j <= m => j < i
    BY <1>1 DEF m
  <2> QED
    BY <1>1, <2>2, <2>3, <2>4, <2>5
<1> QED
  BY <1>4 DEF RemoveAt, a, b
-----------------------------------------------------------------------------
(***************************************************************************)
(* The queue operations keep it in order.                                  *)
(***************************************************************************)
\* A sequence without its i-th element.
LEMMA WithoutOne ==
  ASSUME rem \in [Timers -> Int],
         NEW q \in Seq(Timers), Once(q), Sorted(q), NEW i \in 1 .. Len(q),
         NEW r \in Seq(Timers), Len(r) = Len(q) - 1,
         \A j \in 1 .. Len(q) - 1 : r[j] = IF j < i THEN q[j] ELSE q[j + 1]
  PROVE  /\ Once(r) /\ Sorted(r)
         /\ Elements(r) = Elements(q) \ {q[i]}
         /\ r # <<>> => rem[Head(q)] <= rem[Head(r)]
<1>1. /\ Len(q) \in Nat /\ Len(r) \in Nat
      /\ DOMAIN q = 1 .. Len(q) /\ DOMAIN r = 1 .. Len(q) - 1
      /\ \A j \in 1 .. Len(q) : q[j] \in Timers
  OBVIOUS
<1> DEFINE old(j) == IF j < i THEN j ELSE j + 1
<1>2. \A j \in DOMAIN r : old(j) \in DOMAIN q \ {i} /\ r[j] = q[old(j)]
  <2> SUFFICES ASSUME NEW j \in DOMAIN r
               PROVE  old(j) \in DOMAIN q \ {i} /\ r[j] = q[old(j)]
    OBVIOUS
  <2>1. j \in 1 .. Len(q) - 1 /\ j \in Int /\ i \in Int /\ 1 <= i /\ i <= Len(q)
    BY <1>1
  <2>2. CASE j < i
    BY <1>1, <2>1, <2>2
  <2>3. CASE ~(j < i)
    <3>1. r[j] = q[j + 1] /\ old(j) = j + 1
      BY <2>1, <2>3
    <3>2. j + 1 \in 1 .. Len(q) /\ j + 1 # i
      BY <1>1, <2>1, <2>3
    <3> QED
      BY <1>1, <3>1, <3>2
  <2> QED
    BY <2>2, <2>3
<1>3. \A j, k \in DOMAIN r : (j < k => old(j) < old(k)) /\ (old(j) = old(k) => j = k)
  <2>1. \A j, k \in Int : (j < k => old(j) < old(k)) /\ (old(j) = old(k) => j = k)
    OBVIOUS
  <2>2. DOMAIN r \subseteq Int
    BY <1>1
  <2> HIDE DEF old
  <2> QED
    BY <2>1, <2>2
<1>4. Once(r)
  <2> SUFFICES ASSUME NEW j \in DOMAIN r, NEW k \in DOMAIN r, r[j] = r[k]
               PROVE  j = k
    BY DEF Once
  <2> HIDE DEF old
  <2>1. old(j) = old(k)
    BY <1>2 DEF Once
  <2> QED
    BY <1>3, <2>1
<1>5. Sorted(r)
  BY <1>1, <1>2, <1>3 DEF Sorted
<1>6. Elements(r) = Elements(q) \ {q[i]}
  <2>1. \A j \in DOMAIN r : r[j] \in Elements(q) /\ r[j] # q[i]
    BY <1>1, <1>2 DEF Once, Elements
  <2>2. ASSUME NEW k \in DOMAIN q, q[k] # q[i]
        PROVE  \E j \in DOMAIN r : r[j] = q[k]
    <3>1. CASE k < i
      <4>1. k \in DOMAIN r /\ r[k] = q[k]
        BY <1>1, <1>2, <3>1
      <4> QED
        BY <4>1
    <3>2. CASE k > i
      <4>1. k - 1 \in DOMAIN r /\ old(k - 1) = k
        <5>1. k \in 1 .. Len(q) /\ i \in 1 .. Len(q) /\ Len(q) \in Nat /\ ~(k - 1 < i)
          BY <1>1, <3>2
        <5>2. k - 1 \in 1 .. Len(q) - 1
          BY <3>2, <5>1
        <5> QED
          BY <1>1, <5>1, <5>2
      <4> QED
        BY <1>2, <4>1
    <3>3. k # i
      BY <2>2
    <3> QED
      BY <1>1, <3>1, <3>2, <3>3
  <2>3. Elements(r) \subseteq Elements(q) \ {q[i]}
    BY <2>1 DEF Elements
  <2>4. Elements(q) \ {q[i]} \subseteq Elements(r)
    <3> SUFFICES ASSUME NEW t \in Elements(q), t # q[i] PROVE t \in Elements(r)
      OBVIOUS
    <3>1. PICK k \in DOMAIN q : q[k] = t
      BY DEF Elements
    <3>2. PICK j \in DOMAIN r : r[j] = q[k]
      BY <2>2, <3>1
    <3> QED
      BY <3>1, <3>2 DEF Elements
  <2> QED
    BY <2>3, <2>4
<1>7. ASSUME r # <<>> PROVE rem[Head(q)] <= rem[Head(r)]
  <2>1. 1 \in DOMAIN r /\ 1 \in DOMAIN q /\ Head(r) = r[1] /\ Head(q) = q[1]
    BY <1>1, <1>7
  <2>2. old(1) \in DOMAIN q /\ (old(1) = 1 \/ 1 < old(1)) /\ r[1] = q[old(1)]
    BY <1>1, <1>2, <2>1
  <2> HIDE DEF old
  <2>3. CASE old(1) = 1
    BY <1>1, <2>1, <2>2, <2>3
  <2>4. CASE 1 < old(1)
    BY <2>1, <2>2, <2>4 DEF Sorted
  <2> QED
    BY <2>2, <2>3, <2>4
<1> QED
  BY <1>4, <1>5, <1>6, <1>7

\* list_unlink_ip takes out the timer, if it is there, and keeps the order.
LEMMA UnlinkedQueue ==
  ASSUME rem \in [Timers -> Int], queue \in Seq(Timers), Once(queue), Sorted(queue),
         NEW t \in Timers
  PROVE  /\ Unlinked(t) \in Seq(Timers) /\ Once(Unlinked(t)) /\ Sorted(Unlinked(t))
         /\ Elements(Unlinked(t)) = Queued \ {t}
         /\ Unlinked(t) # <<>> =>
              queue # <<>> /\ rem[Head(queue)] <= rem[Head(Unlinked(t))]
<1>1. CASE t \notin Queued
  <2>1. Unlinked(t) = queue /\ Elements(queue) = Queued
    BY <1>1 DEF Unlinked, Elements, Queued
  <2>2. queue # <<>> => rem[Head(queue)] \in Int
    BY HeadTailProperties
  <2> QED
    BY <1>1, <2>1, <2>2
<1>2. CASE t \in Queued
  <2> DEFINE i == CHOOSE k \in DOMAIN queue : queue[k] = t
  <2>1. i \in DOMAIN queue /\ queue[i] = t
    BY <1>2 DEF Queued
  <2>2. Unlinked(t) = RemoveAt(queue, i)
    BY <1>2 DEF Unlinked
  <2> HIDE DEF i
  <2>3. i \in 1 .. Len(queue) /\ queue # <<>> /\ Elements(queue) = Queued
    BY <2>1 DEF Elements, Queued
  <2>4. /\ Unlinked(t) \in Seq(Timers) /\ Len(Unlinked(t)) = Len(queue) - 1
        /\ \A j \in 1 .. Len(queue) - 1 :
             Unlinked(t)[j] = IF j < i THEN queue[j] ELSE queue[j + 1]
    BY <2>2, <2>3, Removed
  <2> QED
    BY <2>1, <2>3, <2>4, WithoutOne
<1> QED
  BY <1>1, <1>2

\* The thread takes the first timer.
LEMMA TailQueue ==
  ASSUME rem \in [Timers -> Int], queue \in Seq(Timers), Once(queue), Sorted(queue),
         queue # <<>>
  PROVE  /\ Head(queue) \in Queued
         /\ Tail(queue) \in Seq(Timers) /\ Once(Tail(queue)) /\ Sorted(Tail(queue))
         /\ Elements(Tail(queue)) = Queued \ {Head(queue)}
<1>1. /\ Len(queue) \in Nat \ {0} /\ 1 \in 1 .. Len(queue) /\ Head(queue) = queue[1]
      /\ 1 \in DOMAIN queue /\ Elements(queue) = Queued
  BY DEF Elements, Queued
<1>2. /\ Tail(queue) \in Seq(Timers) /\ Len(Tail(queue)) = Len(queue) - 1
      /\ \A j \in 1 .. Len(queue) - 1 : Tail(queue)[j] = queue[j + 1]
  BY HeadTailProperties
<1>3. \A j \in 1 .. Len(queue) - 1 :
        Tail(queue)[j] = IF j < 1 THEN queue[j] ELSE queue[j + 1]
  BY <1>1, <1>2
<1>4. /\ Once(Tail(queue)) /\ Sorted(Tail(queue))
      /\ Elements(Tail(queue)) = Elements(queue) \ {queue[1]}
  BY <1>1, <1>2, <1>3, WithoutOne
<1> QED
  BY <1>1, <1>2, <1>4 DEF Queued

\* __timer_thread_queue_timer keeps the order, and reports a new first timer.
LEMMA EnqueueQueue ==
  ASSUME rem \in [Timers -> Int],
         NEW q \in Seq(Timers), Once(q), Sorted(q),
         NEW t \in Timers, t \notin Elements(q), NEW x \in Int,
         Enqueue(q, t, x)
  PROVE  /\ queue' \in Seq(Timers) /\ rem' \in [Timers -> Int] /\ queue' # <<>>
         /\ Once(queue') /\ Sorted(queue)'
         /\ Queued' = Elements(q) \cup {t}
         /\ ~AtHead(q, x) =>
              q # <<>> /\ Head(queue') = Head(q) /\ rem'[Head(q)] = rem[Head(q)]
<1> DEFINE i == Place(q, x)
           old(j) == IF j < i THEN j ELSE j - 1
<1>1. /\ Len(q) \in Nat /\ DOMAIN q = 1 .. Len(q)
      /\ \A j \in 1 .. Len(q) : q[j] \in Timers /\ q[j] # t
  BY DEF Elements
<1>2. /\ i \in 1 .. Len(q) + 1
      /\ \A j \in 1 .. i - 1 : rem[q[j]] <= x
      /\ i <= Len(q) => rem[q[i]] > x
  BY PlaceFound
<1>3. /\ rem' \in [Timers -> Int] /\ rem'[t] = x
      /\ \A u \in Timers : u # t => rem'[u] = rem[u]
  BY DEF Enqueue
<1>4. queue' = InsertAt(q, i, t)
  BY DEF Enqueue
<1> HIDE DEF i
<1>5. /\ queue' \in Seq(Timers) /\ Len(queue') = Len(q) + 1
      /\ \A j \in 1 .. Len(q) + 1 :
           queue'[j] = IF j < i THEN q[j] ELSE IF j = i THEN t ELSE q[j - 1]
  <2>1. /\ InsertAt(q, i, t) \in Seq(Timers) /\ Len(InsertAt(q, i, t)) = Len(q) + 1
        /\ \A j \in 1 .. Len(q) + 1 : InsertAt(q, i, t)[j] =
             IF j < i THEN q[j] ELSE IF j = i THEN t ELSE q[j - 1]
    <3>1. i \in 1 .. Len(q) + 1
      BY <1>2
    <3> QED
      BY ONLY q \in Seq(Timers), t \in Timers, <3>1, Inserted
  <2> QED
    BY <1>4, <2>1, Zenon
<1>6. DOMAIN queue' = 1 .. Len(q) + 1 /\ queue'[i] = t /\ queue' # <<>>
  BY <1>1, <1>2, <1>5
<1>7. /\ \A j \in DOMAIN queue' : j # i => old(j) \in DOMAIN q /\ queue'[j] = q[old(j)]
      /\ \A j, k \in DOMAIN queue' : j # i /\ k # i /\ j < k => old(j) < old(k)
      /\ \A j \in DOMAIN queue' : j < i => old(j) < i
      /\ \A j \in DOMAIN queue' : j > i => old(j) >= i
  <2>1. ASSUME NEW j \in DOMAIN queue', j # i
        PROVE  old(j) \in 1 .. Len(q) /\ queue'[j] = q[old(j)]
    <3>1. CASE j < i
      BY <1>1, <1>2, <1>5, <1>6, <3>1
    <3>2. CASE j > i
      BY <1>1, <1>2, <1>5, <1>6, <3>2
    <3> QED
      BY <1>2, <1>6, <2>1, <3>1, <3>2
  <2>2. ASSUME NEW j \in DOMAIN queue', NEW k \in DOMAIN queue', j # i, k # i, j < k
        PROVE  old(j) < old(k)
    BY <1>1, <1>2, <1>6, <2>2
  <2>3. \A j \in DOMAIN queue' : j < i => old(j) < i
    BY <1>1, <1>2, <1>6
  <2>4. \A j \in DOMAIN queue' : j > i => old(j) >= i
    BY <1>1, <1>2, <1>6
  <2> QED
    BY <1>1, <2>1, <2>2, <2>3, <2>4
<1>8. \A k \in DOMAIN q : \E j \in DOMAIN queue' : queue'[j] = q[k]
  <2> TAKE k \in DOMAIN q
  <2>1. CASE k < i
    <3>1. k \in DOMAIN queue' /\ queue'[k] = q[k]
      BY <1>1, <1>5, <1>6, <2>1
    <3> QED
      BY <3>1
  <2>2. CASE k >= i
    <3>1. k + 1 \in DOMAIN queue' /\ queue'[k + 1] = q[k]
      BY <1>1, <1>2, <1>5, <1>6, <2>2
    <3> QED
      BY <3>1
  <2> QED
    BY <1>1, <1>2, <2>1, <2>2
<1>9. \A j \in DOMAIN queue' : j # i => rem'[queue'[j]] = rem[q[old(j)]]
  BY <1>1, <1>3, <1>7
<1>10. (\A k \in DOMAIN q : rem[q[k]] \in Int) /\ i \in Int
  BY <1>1, <1>2
<1> HIDE DEF old
<1>11. Once(queue')
  <2> SUFFICES ASSUME NEW j \in DOMAIN queue', NEW k \in DOMAIN queue',
                      queue'[j] = queue'[k]
               PROVE  j = k
    BY DEF Once
  <2>1. CASE j = i \/ k = i
    BY <1>1, <1>6, <1>7, <2>1
  <2>2. CASE j # i /\ k # i
    <3>1. old(j) = old(k)
      BY <1>7, <2>2 DEF Once
    <3>2. j \in Int /\ k \in Int /\ old(j) \in Int
      BY <1>1, <1>6, <1>7, <2>2
    <3>3. ~(j < k) /\ ~(k < j)
      BY <1>7, <2>2, <3>1, <3>2
    <3> QED
      BY <3>2, <3>3
  <2> QED
    BY <2>1, <2>2
<1>12. Sorted(queue)'
  <2> SUFFICES ASSUME NEW j \in DOMAIN queue', NEW k \in DOMAIN queue', j < k
               PROVE  rem'[queue'[j]] <= rem'[queue'[k]]
    BY DEF Sorted
  <2>1. CASE j = i
    <3>1. k # i /\ k > i /\ old(k) \in DOMAIN q /\ old(k) >= i
      BY <1>6, <1>7, <1>10, <2>1
    <3>2. i \in DOMAIN q /\ rem[q[i]] > x
      BY <1>1, <1>2, <3>1
    <3>3. rem[q[i]] <= rem[q[old(k)]]
      <4>1. CASE old(k) = i
        BY <1>10, <3>2, <4>1
      <4>2. CASE old(k) > i
        BY <3>1, <3>2, <4>2 DEF Sorted
      <4> QED
        BY <1>1, <3>1, <3>2, <4>1, <4>2
    <3>4. rem'[queue'[j]] = x /\ rem'[queue'[k]] = rem[q[old(k)]]
      BY <1>3, <1>6, <1>9, <2>1, <3>1
    <3> QED
      BY <1>10, <3>1, <3>2, <3>3, <3>4
  <2>2. CASE k = i
    <3>1. j # i /\ j < i /\ old(j) \in DOMAIN q /\ old(j) < i
      BY <1>6, <1>7, <1>10, <2>2
    <3>2. rem[q[old(j)]] <= x
      BY <1>1, <1>2, <3>1
    <3>3. j # i /\ rem'[queue'[j]] = rem[q[old(j)]] /\ rem'[queue'[k]] = x
      BY <1>3, <1>6, <1>9, <1>10, <2>2
    <3> QED
      BY <3>2, <3>3
  <2>3. CASE j # i /\ k # i
    <3>1. /\ old(j) \in DOMAIN q /\ old(k) \in DOMAIN q /\ old(j) < old(k)
          /\ rem'[queue'[j]] = rem[q[old(j)]] /\ rem'[queue'[k]] = rem[q[old(k)]]
      BY <1>7, <1>9, <2>3
    <3> QED
      BY <3>1 DEF Sorted
  <2> QED
    BY <2>1, <2>2, <2>3
<1>13. Queued' = Elements(q) \cup {t}
  <2>1. \A j \in DOMAIN queue' : queue'[j] \in Elements(q) \cup {t}
    BY <1>6, <1>7 DEF Elements
  <2>2. \A k \in DOMAIN q : q[k] \in Queued'
    BY <1>8 DEF Queued
  <2>3. t \in Queued'
    BY <1>1, <1>2, <1>6 DEF Queued
  <2> QED
    BY <2>1, <2>2, <2>3 DEF Queued, Elements
<1>14. ASSUME ~AtHead(q, x)
       PROVE  q # <<>> /\ Head(queue') = Head(q) /\ rem'[Head(q)] = rem[Head(q)]
  <2>1. i # 1
    BY <1>14 DEF AtHead, i
  <2>2. 1 < i /\ 1 \in DOMAIN q /\ 1 \in 1 .. Len(q) + 1 /\ queue'[1] = q[1]
    BY <1>1, <1>2, <1>5, <2>1
  <2>3. q # <<>> /\ Head(q) = q[1] /\ Head(queue') = queue'[1]
    BY <1>1, <1>5, <1>6, <2>2
  <2> QED
    BY <1>1, <1>3, <2>2, <2>3
<1> QED
  BY <1>3, <1>5, <1>6, <1>11, <1>12, <1>13, <1>14
-----------------------------------------------------------------------------
(***************************************************************************)
(* The inductive invariant.                                                *)
(***************************************************************************)
QueueOK == /\ rem \in [Timers -> Int] /\ queue \in Seq(Timers)
           /\ Once(queue) /\ Sorted(queue)

\* whoever is queued is in use and armed, and has an interval if periodic
NodesOK == \A t \in Queued : inuse[t] /\ armed[t] /\ (interval[t] = 0 <=> t \in OneShot)

\* a call is about a timer in use; nobody else creates or deletes that timer
CallsOK == \A c \in Callers :
  /\ cPc[c] = "idle" <=> cTimer[c] = NoTimer
  /\ cTimer[c] # NoTimer => inuse[cTimer[c]]
  /\ cPc[c] \in {"new", "delete"} => \A d \in Callers \ {c} : cTimer[d] # cTimer[c]

ThreadOK == thPc = "callback" <=> current # NoTimer

CallTypes ==
  /\ cPc \in [Callers -> {"idle", "new", "set", "change", "changed", "wake", "delete"}]
  /\ cTimer \in [Callers -> Timers \cup {NoTimer}]
  /\ cMs \in [Callers -> Nat] /\ cAge \in [Callers -> Nat]

NodeTypes ==
  /\ inuse \in [Timers -> BOOLEAN] /\ armed \in [Timers -> BOOLEAN]
  /\ millisec \in [Timers -> Nat] /\ interval \in [Timers -> Nat]

ThreadTypes ==
  /\ thPc \in {"wait", "run", "inner", "callback"}
  /\ current \in Timers \cup {NoTimer} /\ thAge \in Nat
  /\ wake \in Int /\ back \in 0 .. MaxBack

TimedType == timed \in BOOLEAN

Inv == /\ NodeTypes /\ ThreadTypes /\ TimedType /\ CallTypes
       /\ QueueOK /\ NodesOK /\ CallsOK /\ ThreadOK

\* The inductive invariant is as strong as the invariants the runs check.
LEMMA InvImplies == Inv => TypeOK /\ QueueSorted
<1> SUFFICES ASSUME Inv PROVE TypeOK /\ QueueSorted
  OBVIOUS
<1>1. /\ inuse \in [Timers -> BOOLEAN] /\ armed \in [Timers -> BOOLEAN]
      /\ millisec \in [Timers -> Nat] /\ interval \in [Timers -> Nat]
      /\ rem \in [Timers -> Int] /\ queue \in Seq(Timers)
      /\ \A i, j \in DOMAIN queue : queue[i] = queue[j] => i = j
  BY DEF Inv, NodeTypes, QueueOK, Once
<1>2. TypeOK
  BY <1>1, Zenon DEF Inv, ThreadTypes, TimedType, CallTypes, TypeOK
<1>3. QueueSorted
  BY DEF Inv, QueueOK, NodesOK, Sorted, QueueSorted
<1> QED
  BY <1>2, <1>3

\* One caller moves on to another section of its call.
LEMMA CallsType ==
  ASSUME CallTypes, NEW c \in Callers, NEW t \in Timers \cup {NoTimer}, NEW ms \in Nat,
         NEW pc \in {"idle", "new", "set", "change", "changed", "wake", "delete"},
         Calls(c, pc, t, ms)
  PROVE  /\ CallTypes'
         /\ cPc'[c] = pc /\ cTimer'[c] = t
         /\ \A d \in Callers \ {c} : cPc'[d] = cPc[d] /\ cTimer'[d] = cTimer[d]
  BY DEF CallTypes, Calls

\* A call that neither begins nor ends the use of a timer.
LEMMA CallGoesOn ==
  ASSUME CallTypes, CallsOK, NEW c \in Callers, NEW t \in Timers, NEW ms \in Nat,
         NEW pc \in {"set", "change", "changed", "wake"},
         Calls(c, pc, t, ms), inuse[t], inuse' = inuse,
         t = cTimer[c] \/ Used(t)
  PROVE  CallTypes' /\ CallsOK'
<1>1. /\ CallTypes' /\ cPc'[c] = pc /\ cTimer'[c] = t
      /\ \A d \in Callers \ {c} : cPc'[d] = cPc[d] /\ cTimer'[d] = cTimer[d]
  BY CallsType
<1>2. \A d \in Callers \ {c} : cPc[d] \in {"new", "delete"} => cTimer[d] # t
  BY NamesAssumption DEF CallsOK, Used
<1> QED
  BY <1>1, <1>2, NamesAssumption DEF CallsOK

\* A call returns; the others are not concerned.
LEMMA CallEnds ==
  ASSUME CallTypes, CallsOK, NEW c \in Callers, Returns(c), inuse' = inuse
  PROVE  CallTypes' /\ CallsOK'
<1>1. /\ CallTypes' /\ cPc'[c] = "idle" /\ cTimer'[c] = NoTimer
      /\ \A d \in Callers \ {c} : cPc'[d] = cPc[d] /\ cTimer'[d] = cTimer[d]
  BY CallsType DEF Returns
<1> QED
  BY <1>1 DEF CallsOK

\* A step of the thread or of time: calls and timers in use stay the same.
LEMMA CallsUndisturbed ==
  ASSUME CallTypes, CallsOK, UNCHANGED cVars, inuse' = inuse
  PROVE  CallTypes' /\ CallsOK'
  BY DEF CallTypes, CallsOK, cVars

\* A step that leaves queue and expiry times alone.
LEMMA QueueUndisturbed ==
  ASSUME QueueOK, UNCHANGED <<rem, queue>>
  PROVE  QueueOK' /\ Queued' = Queued
  BY DEF QueueOK, Once, Sorted, Queued

\* A timer is taken out of the queue.
LEMMA OutOfQueue ==
  ASSUME QueueOK, NEW t \in Timers,
         queue' = Unlinked(t), rem' = [rem EXCEPT ![t] = 0]
  PROVE  /\ QueueOK' /\ Queued' = Queued \ {t}
         /\ queue' # <<>> => queue # <<>> /\ rem[Head(queue)] <= rem'[Head(queue')]
<1>1. /\ queue' \in Seq(Timers) /\ Once(queue') /\ Sorted(queue')
      /\ Elements(queue') = Queued \ {t}
      /\ queue' # <<>> => queue # <<>> /\ rem[Head(queue)] <= rem[Head(queue')]
  BY UnlinkedQueue DEF QueueOK
<1>2. Queued' = Elements(queue')
  BY DEF Queued, Elements
<1>3. \A i \in DOMAIN queue' : queue'[i] # t /\ queue'[i] \in Timers
  <2>1. \A i \in DOMAIN queue' : queue'[i] \in Elements(queue')
    BY DEF Elements
  <2>2. \A i \in DOMAIN queue' : queue'[i] \in Timers
    BY <1>1
  <2> QED
    BY <1>1, <2>1, <2>2
<1>4. /\ rem' \in [Timers -> Int]
      /\ \A u \in Timers : u # t => rem'[u] = rem[u]
  BY DEF QueueOK
<1>5. Sorted(queue)'
  BY <1>1, <1>3, <1>4 DEF Sorted
<1>6. queue' # <<>> => rem'[Head(queue')] = rem[Head(queue')]
  <2> SUFFICES ASSUME queue' # <<>> PROVE rem'[Head(queue')] = rem[Head(queue')]
    OBVIOUS
  <2>1. Head(queue') = queue'[1] /\ 1 \in DOMAIN queue'
    BY <1>1
  <2> QED
    BY <1>3, <1>4, <2>1
<1> QED
  BY <1>1, <1>2, <1>4, <1>5, <1>6 DEF QueueOK, Once
-----------------------------------------------------------------------------
(***************************************************************************)
(* Each action keeps the invariant.                                        *)
(***************************************************************************)
\* No timer is in use and nobody calls.
LEMMA InvInit == Init => Inv
<1> SUFFICES ASSUME Init PROVE Inv
  OBVIOUS
<1>1. QueueOK /\ Queued = {}
  BY EmptySeq DEF Init, QueueOK, Once, Sorted, Queued
<1>2. NodeTypes /\ ThreadTypes /\ TimedType /\ CallTypes
  <2>1. NodeTypes
    BY DEF Init, NodeTypes
  <2>2. ThreadTypes
    BY JumpsAssumption DEF Init, ThreadTypes
  <2>3. CallTypes
    BY DEF Init, CallTypes
  <2>4. TimedType
    BY Zenon DEF Init, TimedType
  <2> QED
    BY <2>1, <2>2, <2>3, <2>4
<1>3. NodesOK /\ CallsOK /\ ThreadOK
  BY <1>1 DEF Init, NodesOK, CallsOK, ThreadOK
<1> QED
  BY <1>1, <1>2, <1>3 DEF Inv

\* The expiry time a periodic timer is given next.
LEMMA NextTimeType ==
  ASSUME rem \in [Timers -> Int], thAge \in Nat, NEW t \in Timers,
         interval[t] \in Nat, interval[t] > 0
  PROVE  NextTime(t) \in Int
<1> DEFINE late == -(rem[t] + thAge)
           n == IF late = 0 THEN 1 ELSE (late + interval[t] - 1) \div interval[t]
<1>1. late \in Int /\ interval[t] \in Int /\ rem[t] \in Int
  OBVIOUS
<1> HIDE DEF late
<1>2. n \in Int
  <2>1. \A a \in Int, b \in Int : b > 0 => a \div b \in Int
    OBVIOUS
  <2>2. late + interval[t] - 1 \in Int
    BY <1>1
  <2> QED
    BY <1>1, <2>1, <2>2
<1> HIDE DEF n
<1>3. n * interval[t] \in Int
  BY <1>1, <1>2
<1>4. rem[t] + n * interval[t] \in Int
  BY <1>1, <1>3
<1> QED
  BY <1>4 DEF NextTime, n, late

\* The expiry of the first timer, which is queued again if it is periodic.
LEMMA FireQueue ==
  ASSUME Inv, ThFire
  PROVE  /\ QueueOK' /\ Head(queue) \in Queued
         /\ Queued' = IF interval[Head(queue)] > 0 THEN Queued
                                                   ELSE Queued \ {Head(queue)}
<1> DEFINE t == Head(queue)
<1>1. QueueOK /\ NodeTypes /\ ThreadTypes /\ queue # <<>>
  BY DEF Inv, ThFire, Due
<1>2. /\ t \in Queued /\ t \in Timers
      /\ Tail(queue) \in Seq(Timers) /\ Once(Tail(queue)) /\ Sorted(Tail(queue))
      /\ Elements(Tail(queue)) = Queued \ {t}
  BY <1>1, TailQueue, HeadTailProperties DEF QueueOK
<1> HIDE DEF t
<1>3. CASE interval[t] > 0
  <2>1. Enqueue(Tail(queue), t, NextTime(t))
    BY <1>3 DEF ThFire, t
  <2>2. NextTime(t) \in Int
    BY <1>1, <1>2, <1>3, NextTimeType DEF QueueOK, NodeTypes, ThreadTypes
  <2>3. /\ queue' \in Seq(Timers) /\ rem' \in [Timers -> Int]
        /\ Once(queue') /\ Sorted(queue)' /\ Queued' = (Queued \ {t}) \cup {t}
    BY <1>1, <1>2, <2>1, <2>2, EnqueueQueue DEF QueueOK
  <2> QED
    BY <1>2, <1>3, <2>3 DEF QueueOK, Once, t
<1>4. CASE ~(interval[t] > 0)
  <2>1. queue' = Tail(queue) /\ rem' = [rem EXCEPT ![t] = 0]
    BY <1>4 DEF ThFire, t
  <2>2. Queued' = Queued \ {t}
    BY <1>2, <2>1 DEF Queued, Elements
  <2>3. \A i \in DOMAIN queue' : queue'[i] # t /\ queue'[i] \in Timers
    <3>1. \A i \in DOMAIN queue' : queue'[i] \in Elements(queue')
      BY DEF Elements
    <3>2. \A i \in DOMAIN queue' : queue'[i] \in Timers
      BY <1>2, <2>1
    <3> QED
      BY <1>2, <2>1, <3>1, <3>2
  <2>4. /\ rem' \in [Timers -> Int]
        /\ \A u \in Timers : u # t => rem'[u] = rem[u]
    BY <1>1, <1>2, <2>1 DEF QueueOK
  <2>5. Sorted(queue)'
    BY <1>2, <2>1, <2>3, <2>4 DEF Sorted
  <2> QED
    BY <1>2, <1>4, <2>1, <2>2, <2>4, <2>5 DEF QueueOK, Once, t
<1> QED
  BY <1>3, <1>4

\* The timer thread: thread_func and thread_expire_timer.
LEMMA ThreadKeepsInv ==
  ASSUME Inv, ThStep \/ ThReturn
  PROVE  Inv'
<1>1. /\ QueueOK /\ NodesOK /\ CallsOK /\ ThreadOK
      /\ NodeTypes /\ ThreadTypes /\ TimedType /\ CallTypes
  BY DEF Inv
<1>2. UNCHANGED <<inuse, armed, millisec, cVars>> /\ CallTypes' /\ CallsOK'
  BY <1>1, CallsUndisturbed
  DEF ThStep, ThRun, ThFire, ThReturn, ThSleep, TimedOut, ThUnchanged
<1>0. TimedType'
  <2>1. timed' = timed \/ timed' = FALSE \/ timed' = (queue # <<>>)
    BY DEF ThStep, ThRun, ThFire, ThReturn, ThSleep, TimedOut, Wakes, NoWait
  <2> QED
    BY <1>1, <2>1, Zenon DEF TimedType
<1>3. CASE ThFire
  <2>1. /\ QueueOK' /\ Head(queue) \in Queued
        /\ Queued' = IF interval[Head(queue)] > 0 THEN Queued
                                                  ELSE Queued \ {Head(queue)}
    BY <1>3, FireQueue
  <2>2. Head(queue) \in Timers
    BY <1>1, <2>1 DEF QueueOK, Queued
  <2>3. NodesOK' /\ NodeTypes'
    BY <1>1, <1>2, <1>3, <2>1 DEF NodesOK, NodeTypes, ThFire
  <2>4. ThreadOK' /\ ThreadTypes'
    BY <1>1, <1>3, <2>2, NamesAssumption DEF ThreadOK, ThreadTypes, ThFire, NoWait
  <2> QED
    BY <1>0, <1>2, <2>1, <2>3, <2>4 DEF Inv
<1>4. CASE ~ThFire
  <2>1. UNCHANGED <<rem, queue, interval>>
    BY <1>4 DEF ThStep, ThRun, ThReturn, ThSleep, TimedOut
  <2>2. QueueOK' /\ NodesOK' /\ NodeTypes'
    BY <1>1, <1>2, <2>1, QueueUndisturbed DEF NodesOK, NodeTypes
  <2>3. queue # <<>> => rem[Head(queue)] \in Int
    BY <1>1, HeadTailProperties DEF QueueOK
  <2>4. ThreadOK' /\ ThreadTypes'
    <3>1. CASE ThRun
      BY <1>1, <3>1 DEF ThreadOK, ThreadTypes, ThRun, NoWait
    <3>2. CASE TimedOut
      BY <1>1, <3>2, JumpsAssumption DEF ThreadOK, ThreadTypes, TimedOut, Wakes
    <3>3. CASE ThReturn
      BY <1>1, <3>3 DEF ThreadOK, ThreadTypes, ThReturn, NoWait
    <3>4. CASE ThSleep
      BY <1>1, <2>3, <3>4, JumpsAssumption DEF ThreadOK, ThreadTypes, ThSleep
    <3> QED
      BY <1>4, <3>1, <3>2, <3>3, <3>4 DEF ThStep
  <2> QED
    BY <1>0, <1>2, <2>2, <2>4 DEF Inv
<1> QED
  BY <1>3, <1>4

\* A step that leaves the thread where it is.
LEMMA ThreadUndisturbed ==
  ASSUME ThreadTypes, TimedType, ThreadOK, UNCHANGED thVars
  PROVE  ThreadTypes' /\ TimedType' /\ ThreadOK'
<1>1. ThreadTypes' /\ ThreadOK'
  BY DEF ThreadTypes, ThreadOK, thVars
<1>2. TimedType'
  BY Zenon DEF TimedType, thVars
<1> QED
  BY <1>1, <1>2

\* Creating a timer: no call is about it yet.
LEMMA CreateKeepsInv ==
  ASSUME Inv, NEW c \in Callers, NEW t \in Timers, NEW p \in Periods,
         NEW ms \in Periods \cup {0}, Create(c, t, p, ms)
  PROVE  Inv'
<1>1. ThreadTypes' /\ TimedType' /\ ThreadOK'
  BY ThreadUndisturbed DEF Inv, Create
<1>2. QueueOK' /\ Queued' = Queued
  BY QueueUndisturbed DEF Inv, Create
<1>3. NodeTypes'
  BY TimesAssumption DEF Inv, NodeTypes, Create
<1>4. NodesOK'
  <2>1. t \notin Queued
    BY DEF Inv, NodesOK, Create
  <2> QED
    BY <1>2, <2>1 DEF Inv, NodesOK, NodeTypes, QueueOK, Queued, Create
<1>5. /\ CallTypes' /\ cPc'[c] = "new" /\ cTimer'[c] = t
      /\ \A d \in Callers \ {c} : cPc'[d] = cPc[d] /\ cTimer'[d] = cTimer[d]
  BY CallsType, TimesAssumption DEF Inv, Create
<1>6. /\ \A d \in Callers : cTimer[d] # t
      /\ inuse'[t] /\ \A u \in Timers \ {t} : inuse'[u] = inuse[u]
  BY NamesAssumption DEF Inv, CallsOK, NodeTypes, Create
<1>7. \A d \in Callers : cTimer[d] \in Timers \cup {NoTimer}
  BY DEF Inv, CallTypes
<1>8. CallsOK'
  BY <1>5, <1>6, <1>7, NamesAssumption DEF Inv, CallsOK
<1> QED
  BY <1>1, <1>2, <1>3, <1>4, <1>5, <1>8 DEF Inv

\* Stopping a timer, alone or as part of another call.
LEMMA DisarmKeeps ==
  ASSUME Inv, NEW t \in Timers, Disarm(t), inuse' = inuse, millisec' = millisec
  PROVE  QueueOK' /\ NodeTypes' /\ NodesOK'
<1>1. QueueOK' /\ Queued' = Queued \ {t}
  BY OutOfQueue DEF Inv, Disarm
<1>2. NodeTypes'
  BY DEF Inv, NodeTypes, Disarm
<1>3. \A u \in Queued' : u \in Timers
  BY <1>1 DEF Inv, QueueOK, Queued
<1>4. NodesOK'
  BY <1>1, <1>3 DEF Inv, NodesOK, NodeTypes, Disarm
<1> QED
  BY <1>1, <1>2, <1>4

\* __timer_settime arms the timer and queues it, queued before or not.
LEMMA SetTimeKeepsInv ==
  ASSUME Inv, NEW c \in Callers, SetTime(c)
  PROVE  Inv'
<1> DEFINE t == cTimer[c]
<1>1. /\ QueueOK /\ NodesOK /\ NodeTypes /\ CallTypes /\ CallsOK
      /\ t \in Timers /\ inuse[t]
  BY DEF Inv, CallTypes, CallsOK, SetTime
<1>2. PICK age \in 0 .. cAge[c] :
        /\ Enqueue(Unlinked(t), t, cMs[c] - age)
        /\ IF AtHead(Unlinked(t), cMs[c] - age)
             THEN Calls(c, "wake", t, 0) ELSE Returns(c)
  BY DEF SetTime
<1>3. /\ inuse' = inuse /\ millisec' = millisec
      /\ armed' = [armed EXCEPT ![t] = TRUE]
      /\ interval' = [interval EXCEPT ![t] = IF t \in OneShot THEN 0 ELSE cMs[c]]
      /\ cMs[c] > 0 /\ UNCHANGED thVars
  BY DEF SetTime
<1> HIDE DEF t
<1>4. cMs[c] \in Nat /\ cMs[c] - age \in Int
  BY <1>1 DEF CallTypes
<1>5. /\ Unlinked(t) \in Seq(Timers) /\ Once(Unlinked(t)) /\ Sorted(Unlinked(t))
      /\ Elements(Unlinked(t)) = Queued \ {t}
  BY <1>1, UnlinkedQueue DEF QueueOK
<1>6. /\ queue' \in Seq(Timers) /\ rem' \in [Timers -> Int]
      /\ Once(queue') /\ Sorted(queue)' /\ Queued' = (Queued \ {t}) \cup {t}
  BY <1>1, <1>2, <1>4, <1>5, EnqueueQueue DEF QueueOK
<1>7. QueueOK'
  BY <1>6 DEF QueueOK, Once
<1>8. NodeTypes'
  BY <1>1, <1>3, <1>4 DEF NodeTypes
<1>9. NodesOK'
  <2>1. \A u \in Queued : u \in Timers
    BY <1>1 DEF QueueOK, Queued
  <2> QED
    BY <1>1, <1>3, <1>4, <1>6, <2>1 DEF NodesOK, NodeTypes
<1>10. CallTypes' /\ CallsOK'
  <2>1. CASE Calls(c, "wake", t, 0)
    BY <1>1, <1>3, <2>1, CallGoesOn DEF t
  <2>2. CASE Returns(c)
    BY <1>1, <1>3, <2>2, CallEnds
  <2> QED
    BY <1>2, <2>1, <2>2
<1>11. ThreadTypes' /\ TimedType' /\ ThreadOK'
  BY <1>3, ThreadUndisturbed DEF Inv
<1> QED
  BY <1>7, <1>8, <1>9, <1>10, <1>11 DEF Inv

\* Deleting a timer: no other call is about it.
LEMMA DisposeKeeps ==
  ASSUME Inv, NEW t \in Timers, Dispose(t)
  PROVE  /\ QueueOK' /\ NodeTypes' /\ NodesOK'
         /\ ThreadTypes' /\ TimedType' /\ ThreadOK'
         /\ \A u \in Timers \ {t} : inuse'[u] = inuse[u]
<1>1. QueueOK' /\ Queued' = Queued \ {t}
  BY OutOfQueue DEF Inv, Dispose
<1>2. NodeTypes' /\ \A u \in Timers \ {t} : inuse'[u] = inuse[u]
  BY DEF Inv, NodeTypes, Dispose
<1>3. \A u \in Queued' : u \in Timers
  BY <1>1 DEF Inv, QueueOK, Queued
<1>4. NodesOK'
  BY <1>1, <1>2, <1>3 DEF Inv, NodesOK, Dispose
<1>5. ThreadTypes' /\ TimedType' /\ ThreadOK'
  BY ThreadUndisturbed DEF Inv, Dispose
<1> QED
  BY <1>1, <1>2, <1>4, <1>5

\* __timer_delete, up to its wait for the callback.
LEMMA DeleteKeepsInv ==
  ASSUME Inv, NEW c \in Callers, NEW t \in Timers, Delete(c, t)
  PROVE  Inv'
<1>1. /\ \A d \in Callers : cTimer[d] # t /\ cTimer[d] \in Timers \cup {NoTimer}
      /\ inuse[t]
  BY DEF Inv, CallTypes, Delete, Used
<1>2. CASE Calls(c, "delete", t, 0) /\ UNCHANGED <<nodeVars, queue, thVars>>
  <2>1. /\ CallTypes' /\ cPc'[c] = "delete" /\ cTimer'[c] = t
        /\ \A d \in Callers \ {c} : cPc'[d] = cPc[d] /\ cTimer'[d] = cTimer[d]
    BY <1>2, CallsType DEF Inv
  <2>2. CallsOK'
    BY <1>1, <1>2, <2>1, NamesAssumption DEF Inv, CallsOK, nodeVars
  <2>3. ThreadTypes' /\ TimedType' /\ ThreadOK'
    BY <1>2, ThreadUndisturbed DEF Inv
  <2>4. QueueOK' /\ NodeTypes' /\ NodesOK'
    BY <1>2, QueueUndisturbed DEF Inv, NodeTypes, NodesOK, nodeVars
  <2> QED
    BY <2>1, <2>2, <2>3, <2>4 DEF Inv
<1>3. CASE Dispose(t) /\ UNCHANGED cVars
  <2>1. CallTypes' /\ CallsOK'
    BY <1>1, <1>3, DisposeKeeps DEF Inv, CallTypes, CallsOK, cVars
  <2> QED
    BY <1>3, <2>1, DisposeKeeps DEF Inv
<1> QED
  BY <1>2, <1>3 DEF Delete

\* __timer_delete after its wait: the timer is still this caller's alone.
LEMMA DeletedKeepsInv ==
  ASSUME Inv, NEW c \in Callers, Deleted(c)
  PROVE  Inv'
<1>1. /\ cTimer[c] \in Timers /\ Dispose(cTimer[c])
      /\ \A d \in Callers \ {c} : cTimer[d] # cTimer[c]
  BY DEF Inv, CallTypes, CallsOK, Deleted
<1>2. /\ CallTypes' /\ cPc'[c] = "idle" /\ cTimer'[c] = NoTimer
      /\ \A d \in Callers \ {c} : cPc'[d] = cPc[d] /\ cTimer'[d] = cTimer[d]
  BY CallsType DEF Inv, Deleted, Returns
<1>3. \A u \in Timers \ {cTimer[c]} : inuse'[u] = inuse[u]
  BY <1>1, DisposeKeeps
<1>4. \A d \in Callers : cTimer[d] \in Timers \cup {NoTimer}
  BY DEF Inv, CallTypes
<1>5. CallsOK'
  BY <1>1, <1>2, <1>3, <1>4 DEF Inv, CallsOK
<1> QED
  BY <1>1, <1>2, <1>5, DisposeKeeps DEF Inv

\* The steps of a call that leave the queue alone.
LEMMA QuietKeepsInv ==
  ASSUME Inv, NEW c \in Callers,
         (\E t \in Timers : Start(c, t)) \/ SetPeriod(c) \/ WakeUp(c)
  PROVE  Inv'
<1>1. UNCHANGED <<inuse, armed, interval, rem, queue, current>>
  BY DEF Start, SetPeriod, WakeUp, nodeVars, thVars
<1>2. QueueOK' /\ NodesOK'
  BY <1>1, QueueUndisturbed DEF Inv, NodesOK
<1>3. CASE \E t \in Timers : Start(c, t)
  <2>1. PICK t \in Timers : Start(c, t)
    BY <1>3
  <2>2. inuse[t] /\ (t = cTimer[c] \/ Used(t)) /\ millisec[t] \in Nat
    BY <2>1, NamesAssumption DEF Inv, NodeTypes, CallsOK, Start, Used
  <2>3. CallTypes' /\ CallsOK'
    BY <1>1, <2>1, <2>2, CallGoesOn DEF Inv, Start
  <2>4. ThreadTypes' /\ TimedType' /\ ThreadOK'
    BY <2>1, ThreadUndisturbed DEF Inv, Start
  <2>5. NodeTypes'
    BY <2>1 DEF Inv, NodeTypes, Start, nodeVars
  <2> QED
    BY <1>2, <2>3, <2>4, <2>5 DEF Inv
<1>4. CASE SetPeriod(c)
  <2>1. cTimer[c] \in Timers /\ inuse[cTimer[c]] /\ cMs[c] \in Nat
    BY <1>4 DEF Inv, CallTypes, CallsOK, SetPeriod
  <2>2. CallTypes' /\ CallsOK'
    BY <1>1, <1>4, <2>1, CallGoesOn DEF Inv, SetPeriod
  <2>3. ThreadTypes' /\ TimedType' /\ ThreadOK'
    BY <1>4, ThreadUndisturbed DEF Inv, SetPeriod
  <2>4. NodeTypes'
    BY <1>4, <2>1 DEF Inv, NodeTypes, SetPeriod
  <2> QED
    BY <1>2, <2>2, <2>3, <2>4 DEF Inv
<1>5. CASE WakeUp(c)
  <2>1. CallTypes' /\ CallsOK'
    BY <1>1, <1>5, CallEnds DEF Inv, WakeUp
  <2>2. NodeTypes'
    BY <1>5 DEF Inv, NodeTypes, WakeUp, nodeVars
  <2>3. ThreadTypes' /\ ThreadOK'
    BY <1>5, JumpsAssumption DEF Inv, ThreadTypes, ThreadOK, WakeUp, Wakes
  <2>4. TimedType'
    <3>1. timed' = timed \/ timed' = FALSE
      BY <1>5 DEF WakeUp, Wakes
    <3> QED
      BY <3>1, Zenon DEF Inv, TimedType
  <2> QED
    BY <1>2, <2>1, <2>2, <2>3, <2>4 DEF Inv
<1> QED
  BY <1>3, <1>4, <1>5

\* The steps of a call that stop a timer.
LEMMA StoppingKeepsInv ==
  ASSUME Inv, NEW c \in Callers,
         \/ \E t \in Timers : Stop(c, t) \/ \E p \in Periods : Change(c, t, p)
         \/ SetStopped(c)
  PROVE  Inv'
<1>1. CASE \E t \in Timers : Stop(c, t)
  <2>1. PICK t \in Timers : Stop(c, t)
    BY <1>1
  <2>2. QueueOK' /\ NodeTypes' /\ NodesOK'
    BY <2>1, DisarmKeeps DEF Stop
  <2>3. ThreadTypes' /\ TimedType' /\ ThreadOK'
    BY <2>1, ThreadUndisturbed DEF Inv, Stop
  <2>4. CallTypes' /\ CallsOK'
    BY <2>1, CallsUndisturbed DEF Inv, Stop
  <2> QED
    BY <2>2, <2>3, <2>4 DEF Inv
<1>2. CASE \E t \in Timers, p \in Periods : Change(c, t, p)
  <2>1. PICK t \in Timers, p \in Periods : Change(c, t, p)
    BY <1>2
  <2>2. QueueOK' /\ NodeTypes' /\ NodesOK'
    BY <2>1, DisarmKeeps DEF Change
  <2>3. ThreadTypes' /\ TimedType' /\ ThreadOK'
    BY <2>1, ThreadUndisturbed DEF Inv, Change
  <2>4. p \in Nat /\ inuse[t] /\ Used(t) /\ inuse' = inuse /\ Calls(c, "change", t, p)
    BY <2>1, TimesAssumption DEF Change, Used
  <2>5. CallTypes' /\ CallsOK'
    BY <2>4, CallGoesOn DEF Inv
  <2> QED
    BY <2>2, <2>3, <2>5 DEF Inv
<1>3. CASE SetStopped(c)
  <2>1. cTimer[c] \in Timers
    BY <1>3 DEF Inv, CallTypes, CallsOK, SetStopped
  <2>2. QueueOK' /\ NodeTypes' /\ NodesOK'
    BY <1>3, <2>1, DisarmKeeps DEF SetStopped
  <2>3. ThreadTypes' /\ TimedType' /\ ThreadOK'
    BY <1>3, ThreadUndisturbed DEF Inv, SetStopped
  <2>4. CallTypes' /\ CallsOK'
    BY <1>3, CallEnds DEF Inv, SetStopped
  <2> QED
    BY <2>2, <2>3, <2>4 DEF Inv
<1> QED
  BY <1>1, <1>2, <1>3

\* Time passes, for all queued timers alike, or the clock is set.
LEMMA TimeKeepsInv ==
  ASSUME Inv, Tick \/ \E j \in Jumps : ClockSet(j)
  PROVE  Inv'
<1>1. UNCHANGED <<inuse, armed, millisec, interval, queue, thPc, current, timed>>
      /\ UNCHANGED <<cPc, cTimer, cMs>>
  BY DEF Tick, ClockSet, nodeVars, cVars
<1>2. NodeTypes' /\ NodesOK' /\ CallsOK' /\ ThreadOK'
  BY <1>1 DEF Inv, NodeTypes, NodesOK, CallsOK, ThreadOK, Queued
<1>3. TimedType'
  BY <1>1, Zenon DEF Inv, TimedType
<1>4. CASE Tick
  <2>1. ThreadTypes'
    BY <1>4, TimesAssumption DEF Inv, ThreadTypes, Tick
  <2>2. CallTypes'
    BY <1>4 DEF Inv, CallTypes, Tick
  <2>3. /\ rem' \in [Timers -> Int]
        /\ \A t \in Queued : rem'[t] = rem[t] - 1
    BY <1>4 DEF Inv, QueueOK, Queued, Tick
  <2>4. \A i \in DOMAIN queue : queue[i] \in Queued /\ rem[queue[i]] \in Int
    BY DEF Inv, QueueOK, Queued
  <2>5. QueueOK'
    BY <1>1, <2>3, <2>4 DEF Inv, QueueOK, Once, Sorted
  <2> QED
    BY <1>2, <1>3, <2>1, <2>2, <2>5 DEF Inv
<1>5. CASE \E j \in Jumps : ClockSet(j)
  <2>1. ThreadTypes'
    <3>1. PICK j \in Jumps : ClockSet(j)
      BY <1>5
    <3>2. back' \in 0 .. MaxBack
      BY <3>1, JumpsAssumption DEF Inv, ThreadTypes, ClockSet
    <3> QED
      BY <3>1, <3>2, TimesAssumption, JumpsAssumption DEF Inv, ThreadTypes, ClockSet
  <2>2. CallTypes' /\ QueueOK'
    BY <1>5, QueueUndisturbed DEF Inv, CallTypes, ClockSet, cVars, nodeVars
  <2> QED
    BY <1>2, <1>3, <2>1, <2>2 DEF Inv
<1> QED
  BY <1>4, <1>5

\* Every step keeps the invariant.
LEMMA InvNext == Inv /\ [Next]_vars => Inv'
<1> SUFFICES ASSUME Inv, [Next]_vars PROVE Inv'
  OBVIOUS
<1>1. CASE ThStep \/ ThReturn
  BY <1>1, ThreadKeepsInv
<1>2. ASSUME NEW c \in Callers, Call(c) PROVE Inv'
  <2>1. PICK t \in Timers :
          \/ \E p \in Periods : \/ Create(c, t, p, p) \/ Create(c, t, p, 0)
                                \/ Change(c, t, p)
          \/ Start(c, t) \/ Stop(c, t) \/ Delete(c, t)
    BY <1>2 DEF Call
  <2>2. CASE \E p \in Periods : Create(c, t, p, p) \/ Create(c, t, p, 0)
    BY <2>2, CreateKeepsInv
  <2>3. CASE Stop(c, t) \/ \E p \in Periods : Change(c, t, p)
    BY <2>3, StoppingKeepsInv
  <2>4. CASE Start(c, t)
    BY <2>4, QuietKeepsInv
  <2>5. CASE Delete(c, t)
    BY <2>5, DeleteKeepsInv
  <2> QED
    BY <2>1, <2>2, <2>3, <2>4, <2>5
<1>3. ASSUME NEW c \in Callers, GoOn(c) PROVE Inv'
  BY <1>3, QuietKeepsInv, StoppingKeepsInv, SetTimeKeepsInv, DeletedKeepsInv DEF GoOn
<1>4. CASE Tick \/ \E j \in Jumps : ClockSet(j)
  BY <1>4, TimeKeepsInv
<1>5. CASE UNCHANGED vars
  <2>1. UNCHANGED nodeVars /\ UNCHANGED thVars /\ UNCHANGED cVars /\ queue' = queue
    BY <1>5 DEF vars
  <2>2. QueueOK' /\ NodeTypes' /\ NodesOK'
    BY <2>1, QueueUndisturbed DEF Inv, NodeTypes, NodesOK, nodeVars
  <2>3. ThreadTypes' /\ TimedType' /\ ThreadOK'
    BY <2>1, ThreadUndisturbed DEF Inv
  <2>4. CallTypes' /\ CallsOK'
    BY <2>1, CallsUndisturbed DEF Inv, nodeVars
  <2> QED
    BY <2>2, <2>3, <2>4 DEF Inv
<1> QED
  BY <1>1, <1>2, <1>3, <1>4, <1>5 DEF Next

\* The queue is sorted and holds each timer once, queued timers are in use, armed
\* and have the interval their kind calls for, and a call of several critical
\* sections of __timer_mutex finds its timer still in use at the next one.
THEOREM TimerInvariant == Spec => []Inv
  BY InvInit, InvNext, PTL DEF Spec

\* Every variable of the timers keeps its type, and no timer is queued twice.
THEOREM TypeCorrect == Spec => []TypeOK
  BY TimerInvariant, InvImplies, PTL

\* The thread finds armed timers in use, in the order of their expiry times.
THEOREM QueueStaysSorted == Spec => []QueueSorted
  BY TimerInvariant, InvImplies, PTL
-----------------------------------------------------------------------------
(***************************************************************************)
(* No wakeup is lost.                                                      *)
(***************************************************************************)
\* The first timer expires no earlier than before, and no waker has gone.
LEMMA WakesKept ==
  ASSUME Inv, WakesInTime, Inv',
         UNCHANGED <<thPc, timed, wake, back>>,
         queue' # <<>> => queue # <<>> /\ rem[Head(queue)] <= rem'[Head(queue')],
         \A c \in Callers : cPc[c] = "wake" => cPc'[c] = "wake"
  PROVE  WakesInTime'
<1> SUFFICES ASSUME thPc' = "wait", queue' # <<>>,
                    ~ \E c \in Callers : cPc'[c] = "wake"
             PROVE  timed' /\ wake' <= rem'[Head(queue')] + back'
  BY DEF WakesInTime
<1>1. rem[Head(queue)] \in Int /\ rem'[Head(queue')] \in Int /\ wake \in Int /\ back \in Nat
  BY HeadTailProperties DEF Inv, QueueOK, ThreadTypes
<1>2. thPc = "wait"
  BY DEF Inv, ThreadTypes
<1>3. timed /\ wake <= rem[Head(queue)] + back
  BY <1>2 DEF WakesInTime
<1>4. timed'
  BY <1>3, Zenon
<1>5. wake' <= rem'[Head(queue')] + back'
  BY <1>1, <1>3
<1> QED
  BY <1>4, <1>5

\* A caller that is about to wake the thread stays so when others move on.
LEMMA WakersStay ==
  ASSUME CallTypes, NEW c \in Callers, cPc[c] # "wake",
         cVars' = cVars \/ \E pc, t, ms : Calls(c, pc, t, ms)
  PROVE  \A d \in Callers : cPc[d] = "wake" => cPc'[d] = "wake"
  BY DEF CallTypes, Calls, cVars

\* __timer_settime wakes the thread for a new first timer, and only for one.
LEMMA SetTimeWakes ==
  ASSUME Inv, WakesInTime, Inv', NEW c \in Callers, SetTime(c)
  PROVE  WakesInTime'
<1> DEFINE t == cTimer[c]
<1>1. QueueOK /\ CallTypes /\ t \in Timers /\ cPc[c] # "wake" /\ UNCHANGED thVars
  BY DEF Inv, CallTypes, CallsOK, SetTime
<1>2. PICK age \in 0 .. cAge[c] :
        /\ Enqueue(Unlinked(t), t, cMs[c] - age)
        /\ IF AtHead(Unlinked(t), cMs[c] - age)
             THEN Calls(c, "wake", t, 0) ELSE Returns(c)
  BY DEF SetTime
<1> HIDE DEF t
<1> DEFINE x == cMs[c] - age
<1>3. x \in Int
  BY <1>1 DEF CallTypes
<1> HIDE DEF x
<1>4. CASE AtHead(Unlinked(t), x)
  <2>1. cPc'[c] = "wake"
    BY <1>1, <1>2, <1>4 DEF CallTypes, Calls, x
  <2> QED
    BY <2>1 DEF WakesInTime
<1>5. CASE ~AtHead(Unlinked(t), x)
  <2>1. /\ Unlinked(t) \in Seq(Timers) /\ Once(Unlinked(t)) /\ Sorted(Unlinked(t))
        /\ Elements(Unlinked(t)) = Queued \ {t}
        /\ Unlinked(t) # <<>> =>
             queue # <<>> /\ rem[Head(queue)] <= rem[Head(Unlinked(t))]
    BY <1>1, UnlinkedQueue DEF QueueOK
  <2>2. Enqueue(Unlinked(t), t, x)
    BY <1>2 DEF x
  <2>3. /\ Unlinked(t) # <<>> /\ Head(queue') = Head(Unlinked(t))
        /\ rem'[Head(Unlinked(t))] = rem[Head(Unlinked(t))]
    BY <1>1, <1>3, <1>5, <2>1, <2>2, EnqueueQueue DEF QueueOK
  <2>4. Returns(c)
    BY <1>2, <1>5 DEF x
  <2>5. \A d \in Callers : cPc[d] = "wake" => cPc'[d] = "wake"
    BY <1>1, <2>4, WakersStay DEF Returns
  <2> QED
    BY <1>1, <2>1, <2>3, <2>5, WakesKept DEF thVars
<1> QED
  BY <1>4, <1>5

\* The other calls make the first timer expire later, if anything.
LEMMA CallWakes ==
  ASSUME Inv, WakesInTime, Inv', NEW c \in Callers, Call(c) \/ GoOn(c), ~WakeUp(c)
  PROVE  WakesInTime'
<1>1. rem[Head(queue)] <= rem[Head(queue)] \/ queue = <<>>
  BY HeadTailProperties DEF Inv, QueueOK
<1>2. CASE /\ UNCHANGED <<queue, rem, thVars>> /\ cPc[c] # "wake"
           /\ cVars' = cVars \/ \E pc, t, ms : Calls(c, pc, t, ms)
  BY <1>1, <1>2, WakersStay, WakesKept DEF Inv, thVars
<1>3. CASE /\ UNCHANGED thVars /\ cPc[c] # "wake"
           /\ \E t \in Timers : queue' = Unlinked(t) /\ rem' = [rem EXCEPT ![t] = 0]
           /\ cVars' = cVars \/ \E pc, t, ms : Calls(c, pc, t, ms)
  <2>1. queue' # <<>> => queue # <<>> /\ rem[Head(queue)] <= rem'[Head(queue')]
    BY <1>3, OutOfQueue DEF Inv
  <2> QED
    BY <1>3, <2>1, WakersStay, WakesKept DEF Inv, thVars
<1>4. CASE SetTime(c)
  BY <1>4, SetTimeWakes
<1>5. ASSUME NEW t \in Timers, NEW p \in Periods,
             Create(c, t, p, p) \/ Create(c, t, p, 0)
      PROVE  WakesInTime'
  BY <1>2, <1>5 DEF Create, May
<1>6. ASSUME NEW t \in Timers, Start(c, t) PROVE WakesInTime'
  BY <1>2, <1>6 DEF Start, May, nodeVars
<1>7. CASE SetPeriod(c)
  BY <1>2, <1>7 DEF SetPeriod
<1>8. ASSUME NEW t \in Timers, Stop(c, t) PROVE WakesInTime'
  BY <1>3, <1>8 DEF Stop, May, Disarm
<1>9. ASSUME NEW t \in Timers, NEW p \in Periods, Change(c, t, p) PROVE WakesInTime'
  BY <1>3, <1>9 DEF Change, May, Disarm
<1>10. CASE SetStopped(c)
  <2>1. cTimer[c] \in Timers
    BY <1>10 DEF Inv, CallTypes, CallsOK, SetStopped
  <2> QED
    BY <1>3, <1>10, <2>1 DEF SetStopped, Disarm, Returns
<1>11. ASSUME NEW t \in Timers, Delete(c, t) PROVE WakesInTime'
  BY <1>2, <1>3, <1>11 DEF Delete, May, Dispose, nodeVars
<1>12. CASE Deleted(c)
  <2>1. cTimer[c] \in Timers
    BY <1>12 DEF Inv, CallTypes, CallsOK, Deleted
  <2> QED
    BY <1>3, <1>12, <2>1 DEF Deleted, Dispose, Returns
<1> QED
  BY <1>4, <1>5, <1>6, <1>7, <1>8, <1>9, <1>10, <1>11, <1>12 DEF Call, GoOn

\* The thread waits for the first timer, or does not wait.
LEMMA ThreadWakes ==
  ASSUME Inv, ThStep \/ ThReturn
  PROVE  WakesInTime'
<1>1. CASE ThRun \/ ThFire \/ ThReturn \/ TimedOut
  BY <1>1 DEF ThRun, ThFire, ThReturn, TimedOut, Wakes, WakesInTime
<1>2. CASE ThSleep
  <2> SUFFICES ASSUME queue' # <<>> PROVE timed' /\ wake' <= rem'[Head(queue')] + back'
    BY DEF WakesInTime
  <2>1. queue' = queue /\ rem' = rem /\ wake' = rem[Head(queue)] /\ queue # <<>>
        /\ back' = 0
    BY <1>2 DEF ThSleep
  <2>2. timed'
    BY <1>2, <2>1, Zenon DEF ThSleep
  <2>3. rem[Head(queue)] \in Int
    BY <2>1, HeadTailProperties DEF Inv, QueueOK
  <2>4. wake' <= rem'[Head(queue')] + back'
    BY <2>1, <2>3
  <2> QED
    BY <2>2, <2>4
<1> QED
  BY <1>1, <1>2 DEF ThStep

\* __timer_thread_wakeup: the thread does not wait any more.
LEMMA WakeUpWakes ==
  ASSUME NEW c \in Callers, WakeUp(c)
  PROVE  WakesInTime'
  BY DEF WakeUp, Wakes, WakesInTime

\* The wait and the time to the first expiry get shorter alike.
LEMMA TickWakes ==
  ASSUME Inv, WakesInTime, Tick
  PROVE  WakesInTime'
<1> SUFFICES ASSUME thPc' = "wait", queue' # <<>>,
                    ~ \E c \in Callers : cPc'[c] = "wake"
             PROVE  timed' /\ wake' <= rem'[Head(queue')] + back'
  BY DEF WakesInTime
<1> DEFINE h == Head(queue)
<1>1. queue' = queue /\ thPc' = thPc /\ cPc' = cPc /\ timed' = timed
      /\ back' = back
  BY DEF Tick
<1>2. timed /\ wake <= rem[h] + back
  BY <1>1 DEF WakesInTime
<1>3. h \in Queued /\ h \in Timers
  BY <1>1, TailQueue, HeadTailProperties DEF Inv, QueueOK
<1> HIDE DEF h
<1>4. rem[h] \in Int /\ wake \in Int /\ MaxLate \in Nat /\ back \in Nat
  BY <1>3, TimesAssumption DEF Inv, QueueOK, ThreadTypes
<1>5. rem'[h] = rem[h] - 1 /\ rem[h] + back > -MaxLate
  BY <1>3 DEF Tick, InTime
<1>6. wake' = IF wake > -MaxLate THEN wake - 1 ELSE wake
  BY <1>2 DEF Tick
<1>7. wake' <= rem'[h] + back'
  BY <1>1, <1>2, <1>4, <1>5, <1>6
<1>8. timed'
  BY <1>1, <1>2, Zenon
<1> QED
  BY <1>1, <1>7, <1>8 DEF h

\* Setting the clock moves the end of the wait by as much as it is counted,
\* and forward at least by that.
LEMMA ClockSetWakes ==
  ASSUME Inv, WakesInTime, NEW j \in Int, ClockSet(j)
  PROVE  WakesInTime'
<1> SUFFICES ASSUME thPc' = "wait", queue' # <<>>,
                    ~ \E c \in Callers : cPc'[c] = "wake"
             PROVE  timed' /\ wake' <= rem'[Head(queue')] + back'
  BY DEF WakesInTime
<1>1. /\ queue' = queue /\ rem' = rem /\ thPc' = thPc /\ cPc' = cPc
      /\ timed' = timed /\ wake' = wake - j
      /\ back' = IF back > j THEN back - j ELSE 0
  BY DEF ClockSet, nodeVars, cVars
<1>2. timed /\ wake <= rem[Head(queue)] + back
  BY <1>1 DEF WakesInTime
<1>3. rem[Head(queue)] \in Int /\ wake \in Int /\ back \in Nat
  BY <1>1, HeadTailProperties DEF Inv, QueueOK, ThreadTypes
<1>4. wake' <= rem'[Head(queue')] + back'
  BY <1>1, <1>2, <1>3
<1>5. timed'
  BY <1>1, <1>2, Zenon
<1> QED
  BY <1>4, <1>5

\* Every step keeps the wakeup.
LEMMA NextWakes ==
  ASSUME Inv, Inv', WakesInTime, [Next]_vars
  PROVE  WakesInTime'
<1>1. CASE UNCHANGED vars
  BY <1>1 DEF vars, nodeVars, thVars, cVars, WakesInTime
<1>2. CASE ThStep \/ ThReturn
  BY <1>2, ThreadWakes
<1>3. ASSUME NEW c \in Callers, Call(c) \/ GoOn(c) PROVE WakesInTime'
  BY <1>3, CallWakes, WakeUpWakes
<1>4. CASE Tick
  BY <1>4, TickWakes
<1>5. ASSUME NEW j \in Jumps, ClockSet(j) PROVE WakesInTime'
  BY <1>5, ClockSetWakes, JumpsAssumption
<1> QED
  BY <1>1, <1>2, <1>3, <1>4, <1>5 DEF Next

\* The timer thread never sleeps past the expiry of its first timer by more
\* than the real-time clock was set back meanwhile, with the clock read before
\* the mutex is taken, the thread woken after it is released, and late wakers in
\* between.
THEOREM NoLostWakeup == Spec => []WakesInTime
<1>1. Init => WakesInTime
  BY DEF Init, WakesInTime
<1>2. Inv /\ Inv' /\ WakesInTime /\ [Next]_vars => WakesInTime'
  BY NextWakes
<1> QED
  BY <1>1, <1>2, TimerInvariant, PTL DEF Spec
-----------------------------------------------------------------------------
(***************************************************************************)
(* OsTimer implements TimerService.                                        *)
(***************************************************************************)
\* A step that takes a timer out of service, if it ran at all.
LEMMA ServiceStop ==
  ASSUME NEW t \in Timers, Queued' = Queued \ {t}, current' = current,
         \A u \in Timers \ {t} : inuse'[u] = inuse[u] /\ armed'[u] = armed[u],
         ~(inuse'[t] /\ armed'[t])
  PROVE  Service!Stop(t)
<1>1. \A u \in Timers : u \in Running' <=> u \in Running /\ u # t
  BY DEF Running
<1>2. Running' = Running \ {t}
  BY <1>1 DEF Running
<1> QED
  BY <1>2 DEF Service!Stop

\* The expiry of the first timer.
LEMMA ServiceExpire ==
  ASSUME Inv, ThFire
  PROVE  Service!Expire(Head(queue))
<1> DEFINE t == Head(queue)
<1>1. /\ t \in Queued
      /\ Queued' = IF interval[t] > 0 THEN Queued ELSE Queued \ {t}
  BY FireQueue
<1>2. t \in Timers /\ inuse' = inuse /\ armed' = armed
  BY <1>1 DEF Inv, QueueOK, Queued, ThFire, ThUnchanged
<1>3. current = NoTimer /\ current' = t
  BY DEF Inv, ThreadOK, ThFire
<1> HIDE DEF t
<1>4. inuse[t] /\ armed[t] /\ (interval[t] > 0 <=> t \notin OneShot)
  BY <1>1, <1>2 DEF Inv, NodesOK, NodeTypes
<1>5. t \in Running
  BY <1>1, <1>2, <1>4 DEF Running
<1>6. CASE t \in OneShot
  <2>1. \A u \in Timers : u \in Running' <=> u \in Running /\ u # t
    BY <1>1, <1>2, <1>4, <1>6 DEF Running
  <2>2. Running' = Running \ {t}
    BY <2>1 DEF Running
  <2> QED
    BY <1>3, <1>5, <1>6, <2>2 DEF Service!Expire, t
<1>7. CASE t \notin OneShot
  <2>1. Running' = Running
    BY <1>1, <1>2, <1>4, <1>7 DEF Running
  <2> QED
    BY <1>3, <1>5, <1>7, <2>1 DEF Service!Expire, t
<1> QED
  BY <1>6, <1>7

\* __timer_settime puts a timer into service, or leaves it there.
LEMMA ServiceStart ==
  ASSUME Inv, NEW c \in Callers, SetTime(c)
  PROVE  cTimer[c] \in Timers /\ Service!Start(cTimer[c])
<1> DEFINE t == cTimer[c]
<1>1. t \in Timers /\ inuse[t]
  BY DEF Inv, CallTypes, CallsOK, SetTime
<1>2. PICK age \in 0 .. cAge[c] : Enqueue(Unlinked(t), t, cMs[c] - age)
  BY DEF SetTime
<1>3. /\ inuse' = inuse /\ armed' = [armed EXCEPT ![t] = TRUE] /\ current' = current
  BY DEF SetTime, thVars
<1> HIDE DEF t
<1>4. cMs[c] - age \in Int
  BY DEF Inv, CallTypes
<1>5. /\ Unlinked(t) \in Seq(Timers) /\ Once(Unlinked(t)) /\ Sorted(Unlinked(t))
      /\ Elements(Unlinked(t)) = Queued \ {t}
  BY <1>1, UnlinkedQueue DEF Inv, QueueOK
<1>6. Queued' = (Queued \ {t}) \cup {t}
  BY <1>1, <1>2, <1>4, <1>5, EnqueueQueue DEF Inv, QueueOK
<1>7. \A u \in Timers : u \in Running' <=> u \in Running \/ u = t
  BY <1>1, <1>3, <1>6 DEF Inv, NodeTypes, Running
<1>8. Running' = Running \cup {t}
  BY <1>1, <1>7 DEF Running
<1> QED
  BY <1>1, <1>3, <1>8 DEF Service!Start, t

\* Disarming a timer takes it out of service.
LEMMA DisarmStops ==
  ASSUME Inv, NEW t \in Timers, Disarm(t), inuse' = inuse, current' = current
  PROVE  Service!Stop(t)
<1>1. Queued' = Queued \ {t}
  BY OutOfQueue DEF Inv, Disarm
<1>2. /\ ~armed'[t]
      /\ \A u \in Timers \ {t} : armed'[u] = armed[u]
  BY DEF Inv, NodeTypes, Disarm
<1> QED
  BY <1>1, <1>2, ServiceStop

\* Deleting a timer takes it out of service.
LEMMA DisposeStops ==
  ASSUME Inv, NEW t \in Timers, Dispose(t)
  PROVE  Service!Stop(t)
<1>1. Queued' = Queued \ {t} /\ armed' = armed /\ current' = current
  BY OutOfQueue DEF Inv, Dispose, thVars
<1>2. /\ ~inuse'[t]
      /\ \A u \in Timers \ {t} : inuse'[u] = inuse[u]
  BY DEF Inv, NodeTypes, Dispose
<1> QED
  BY <1>1, <1>2, ServiceStop

\* What a user cannot see.
LEMMA ServiceQuiet ==
  ASSUME UNCHANGED <<inuse, armed, queue, current>>
  PROVE  UNCHANGED <<Running, current>>
  BY DEF Running, Queued

\* Every section of a call is a start, a stop or nothing a user can see.
LEMMA CallServes ==
  ASSUME Inv, NEW c \in Callers, Call(c) \/ GoOn(c)
  PROVE  Service!Next \/ UNCHANGED <<Running, current>>
<1>1. CASE \E t \in Timers : Service!Stop(t)
  BY <1>1 DEF Service!Next
<1>2. CASE UNCHANGED <<inuse, armed, queue, current>>
  BY <1>2, ServiceQuiet
<1>3. ASSUME NEW t \in Timers, NEW p \in Periods,
             Create(c, t, p, p) \/ Create(c, t, p, 0)
      PROVE  UNCHANGED <<Running, current>>
  <2>1. /\ ~inuse[t] /\ ~armed'[t] /\ queue' = queue /\ current' = current
        /\ \A u \in Timers \ {t} : inuse'[u] = inuse[u] /\ armed'[u] = armed[u]
    BY <1>3 DEF Inv, NodeTypes, Create, thVars
  <2>2. Queued' = Queued
    BY <2>1 DEF Queued
  <2>3. \A u \in Timers : u \in Running' <=> u \in Running
    BY <2>1, <2>2 DEF Running
  <2>4. Running' = Running
    BY <2>3 DEF Running
  <2> QED
    BY <2>1, <2>4
<1>4. CASE SetTime(c)
  BY <1>4, ServiceStart DEF Service!Next
<1>5. ASSUME NEW t \in Timers, Stop(c, t) \/ \E p \in Periods : Change(c, t, p)
      PROVE  Service!Stop(t)
  BY <1>5, DisarmStops DEF Stop, Change, thVars
<1>6. ASSUME SetStopped(c)
      PROVE  \E t \in Timers : Service!Stop(t)
  <2>1. cTimer[c] \in Timers
    BY <1>6 DEF Inv, CallTypes, CallsOK, SetStopped
  <2> QED
    BY <1>6, <2>1, DisarmStops DEF SetStopped, thVars
<1>7. ASSUME Deleted(c)
      PROVE  \E t \in Timers : Service!Stop(t)
  <2>1. cTimer[c] \in Timers
    BY <1>7 DEF Inv, CallTypes, CallsOK, Deleted
  <2> QED
    BY <1>7, <2>1, DisposeStops DEF Deleted
<1>8. ASSUME NEW t \in Timers, Delete(c, t)
      PROVE  Service!Stop(t) \/ UNCHANGED <<inuse, armed, queue, current>>
  BY <1>8, DisposeStops DEF Delete, nodeVars, thVars
<1>9. ASSUME (\E t \in Timers : Start(c, t)) \/ SetPeriod(c) \/ WakeUp(c)
      PROVE  UNCHANGED <<inuse, armed, queue, current>>
  BY <1>9 DEF Start, SetPeriod, WakeUp, nodeVars, thVars
<1> QED
  BY <1>1, <1>2, <1>3, <1>4, <1>5, <1>6, <1>7, <1>8, <1>9 DEF Call, GoOn

\* Every step is a step of TimerService or nothing a user can see.
LEMMA StepServes ==
  ASSUME Inv, [Next]_vars
  PROVE  Service!Next \/ UNCHANGED <<Running, current>>
<1>1. CASE UNCHANGED vars \/ Tick \/ \E j \in Jumps : ClockSet(j)
  BY <1>1, ServiceQuiet DEF vars, nodeVars, thVars, Tick, ClockSet
<1>2. CASE ThFire
  <2>1. Head(queue) \in Timers
    BY <1>2, FireQueue DEF Inv, QueueOK, Queued
  <2> QED
    BY <1>2, <2>1, ServiceExpire DEF Service!Next
<1>3. CASE ThReturn
  <2>1. inuse' = inuse /\ armed' = armed /\ queue' = queue
    BY <1>3 DEF ThReturn, ThUnchanged
  <2>2. Running' = Running
    BY <2>1 DEF Running, Queued
  <2>3. current # NoTimer /\ current' = NoTimer
    BY <1>3 DEF Inv, ThreadOK, ThReturn
  <2> QED
    BY <2>2, <2>3 DEF Service!Next, Service!Return
<1>4. CASE ThRun \/ ThSleep \/ TimedOut
  BY <1>4, ServiceQuiet DEF ThRun, ThSleep, TimedOut, ThUnchanged
<1>5. ASSUME NEW c \in Callers, Call(c) \/ GoOn(c)
      PROVE  Service!Next \/ UNCHANGED <<Running, current>>
  BY <1>5, CallServes
<1> QED
  BY <1>1, <1>2, <1>3, <1>4, <1>5 DEF Next, ThStep

\* The timers of os_timer.c keep what TimerService promises their users: only
\* a running timer is called, one at a time, and never once it is stopped.
THEOREM ServesTimers == Spec => TimersServe
<1>1. Init => Service!Init
  BY DEF Init, Service!Init, Running
<1>2. Inv /\ [Next]_vars => [Service!Next]_<<Running, current>>
  BY StepServes
<1> QED
  BY <1>1, <1>2, TimerInvariant, PTL DEF Spec, TimersServe, Service!Spec
=============================================================================
