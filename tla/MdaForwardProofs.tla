-------------------------- MODULE MdaForwardProofs --------------------------
(***************************************************************************)
(* Proofs about MdaForward, for any frames, buffers, delays and sizes.     *)
(***************************************************************************)
EXTENDS MdaForward, FiniteSetTheorems, SequenceTheorems, TLAPS

USE NamesAssumption, SizeAssumption

Once(q)     == \A i, j \in DOMAIN q : q[i] = q[j] => i = j
Elements(q) == { q[i] : i \in DOMAIN q }
-----------------------------------------------------------------------------
(***************************************************************************)
(* Sequences without repetition.                                           *)
(***************************************************************************)
\* Linking b first moves the others up by one.
LEMMA Added ==
  ASSUME NEW q \in Seq(Bufs), Once(q), NEW b \in Bufs, b \notin Elements(q)
  PROVE  LET r == <<b>> \o q
         IN  /\ r \in Seq(Bufs) /\ Len(r) = Len(q) + 1
             /\ r[1] = b /\ \A i \in 1 .. Len(q) : r[i + 1] = q[i]
             /\ Once(r) /\ Elements(r) = Elements(q) \cup {b}
<1> DEFINE r == <<b>> \o q
<1>1. <<b>> \in Seq(Bufs) /\ Len(<<b>>) = 1 /\ <<b>>[1] = b /\ Len(q) \in Nat
  OBVIOUS
<1>2. /\ r \in Seq(Bufs) /\ Len(r) = Len(q) + 1
      /\ \A i \in 1 .. Len(q) + 1 : r[i] = IF i <= 1 THEN <<b>>[i] ELSE q[i - 1]
  BY <1>1, ConcatProperties
<1> HIDE DEF r
<1>3. r[1] = b
  BY <1>1, <1>2
<1>4. \A i \in 1 .. Len(q) : r[i + 1] = q[i]
  <2> SUFFICES ASSUME NEW i \in 1 .. Len(q) PROVE r[i + 1] = q[i]
    OBVIOUS
  <2>1. i + 1 \in 1 .. Len(q) + 1 /\ ~(i + 1 <= 1) /\ (i + 1) - 1 = i
    BY <1>1
  <2> QED
    BY <1>2, <2>1
<1>5. DOMAIN r = 1 .. Len(q) + 1 /\ DOMAIN q = 1 .. Len(q)
  BY <1>2
<1>6. \A i \in DOMAIN r : i = 1 \/ (i - 1 \in DOMAIN q /\ r[i] = q[i - 1])
  <2> SUFFICES ASSUME NEW i \in DOMAIN r, i # 1
               PROVE  i - 1 \in DOMAIN q /\ r[i] = q[i - 1]
    OBVIOUS
  <2>1. i - 1 \in 1 .. Len(q) /\ (i - 1) + 1 = i
    BY <1>1, <1>5
  <2> QED
    BY <1>4, <1>5, <2>1
<1>7. Once(r)
  <2> SUFFICES ASSUME NEW i \in DOMAIN r, NEW j \in DOMAIN r, r[i] = r[j] PROVE i = j
    BY DEF Once
  <2>1. i \in Int /\ j \in Int
    BY <1>1, <1>5
  <2>2. CASE i = 1 \/ j = 1
    BY <1>3, <1>6, <2>2 DEF Elements
  <2>3. CASE i # 1 /\ j # 1
    <3>1. i - 1 = j - 1
      BY <1>6, <2>3 DEF Once
    <3> QED
      BY <2>1, <3>1
  <2> QED
    BY <2>2, <2>3
<1>8. Elements(r) = Elements(q) \cup {b}
  <2>1. Elements(r) \subseteq Elements(q) \cup {b}
    BY <1>3, <1>6 DEF Elements
  <2>2. ASSUME NEW i \in DOMAIN q PROVE q[i] \in Elements(r)
    <3>1. i + 1 \in DOMAIN r /\ r[i + 1] = q[i]
      BY <1>1, <1>4, <1>5
    <3> QED
      BY <3>1 DEF Elements
  <2>3. b \in Elements(r)
    BY <1>1, <1>3, <1>5 DEF Elements
  <2> QED
    BY <2>1, <2>2, <2>3 DEF Elements
<1> QED
  BY <1>2, <1>3, <1>4, <1>7, <1>8 DEF r

\* A sequence without its k-th element.
LEMMA WithoutOne ==
  ASSUME NEW q \in Seq(Bufs), Once(q), NEW k \in 1 .. Len(q),
         NEW r \in Seq(Bufs), Len(r) = Len(q) - 1,
         \A i \in 1 .. Len(q) - 1 : r[i] = IF i < k THEN q[i] ELSE q[i + 1]
  PROVE  Once(r) /\ Elements(r) = Elements(q) \ {q[k]}
<1>1. /\ Len(q) \in Nat /\ k \in Int /\ 1 <= k /\ k <= Len(q)
      /\ DOMAIN q = 1 .. Len(q) /\ DOMAIN r = 1 .. Len(q) - 1
  OBVIOUS
<1>2. \A i \in DOMAIN r : \/ i < k /\ i \in DOMAIN q /\ r[i] = q[i]
                          \/ i >= k /\ i + 1 \in DOMAIN q /\ r[i] = q[i + 1]
  <2> SUFFICES ASSUME NEW i \in DOMAIN r
               PROVE  \/ i < k /\ i \in DOMAIN q /\ r[i] = q[i]
                      \/ i >= k /\ i + 1 \in DOMAIN q /\ r[i] = q[i + 1]
    OBVIOUS
  <2>1. i \in 1 .. Len(q) - 1 /\ i \in 1 .. Len(q) /\ i + 1 \in 1 .. Len(q)
    BY <1>1
  <2>2. CASE i < k
    BY <1>1, <2>1, <2>2
  <2>3. CASE ~(i < k)
    <3>1. i >= k
      BY <1>1, <2>1, <2>3
    <3> QED
      BY <1>1, <2>1, <2>3, <3>1
  <2> QED
    BY <2>2, <2>3
<1>3. Once(r)
  <2> SUFFICES ASSUME NEW i \in DOMAIN r, NEW j \in DOMAIN r, r[i] = r[j] PROVE i = j
    BY DEF Once
  <2>1. i \in Int /\ j \in Int
    BY <1>1
  <2>2. CASE i < k /\ j < k
    BY <1>1, <1>2, <2>1, <2>2 DEF Once
  <2>3. CASE i >= k /\ j >= k
    <3>1. i + 1 = j + 1
      BY <1>1, <1>2, <2>1, <2>3 DEF Once
    <3> QED
      BY <2>1, <3>1
  <2>4. CASE i < k /\ j >= k
    <3>1. i = j + 1
      BY <1>1, <1>2, <2>1, <2>4 DEF Once
    <3> QED
      BY <1>1, <2>1, <2>4, <3>1
  <2>5. CASE i >= k /\ j < k
    <3>1. i + 1 = j
      BY <1>1, <1>2, <2>1, <2>5 DEF Once
    <3> QED
      BY <1>1, <2>1, <2>5, <3>1
  <2> QED
    BY <1>1, <2>1, <2>2, <2>3, <2>4, <2>5
<1>4. ASSUME NEW i \in DOMAIN r PROVE r[i] \in Elements(q) \ {q[k]}
  <2>1. k # i + 1 \/ i < k
    BY <1>1
  <2>2. CASE i < k /\ i \in DOMAIN q /\ r[i] = q[i]
    <3>1. i # k
      BY <1>1, <2>2
    <3> QED
      BY <1>1, <2>2, <3>1 DEF Once, Elements
  <2>3. CASE i >= k /\ i + 1 \in DOMAIN q /\ r[i] = q[i + 1]
    <3>1. i + 1 # k
      BY <1>1, <2>3
    <3> QED
      BY <1>1, <2>3, <3>1 DEF Once, Elements
  <2> QED
    BY <1>2, <2>2, <2>3
<1>5. ASSUME NEW i \in DOMAIN q, q[i] # q[k] PROVE q[i] \in Elements(r)
  <2>1. i # k /\ i \in Int
    BY <1>1, <1>5
  <2>2. CASE i < k
    <3>1. i \in DOMAIN r /\ r[i] = q[i]
      BY <1>1, <2>1, <2>2
    <3> QED
      BY <3>1 DEF Elements
  <2>3. CASE i > k
    <3>1. i - 1 \in 1 .. Len(q) - 1 /\ ~(i - 1 < k) /\ (i - 1) + 1 = i
      BY <1>1, <2>3
    <3>2. r[i - 1] = q[i]
      BY <3>1
    <3> QED
      BY <1>1, <3>1, <3>2 DEF Elements
  <2> QED
    BY <1>1, <2>1, <2>2, <2>3
<1> QED
  BY <1>3, <1>4, <1>5 DEF Elements

\* The elements of a concatenation, by the lengths of its parts.
LEMMA Concatenated ==
  ASSUME NEW a \in Seq(Bufs), NEW b \in Seq(Bufs), NEW k \in Nat, NEW l \in Nat,
         k = Len(a), l = Len(a) + Len(b)
  PROVE  /\ a \o b \in Seq(Bufs) /\ Len(a \o b) = l
         /\ \A i \in 1 .. l : (a \o b)[i] = IF i <= k THEN a[i] ELSE b[i - k]
  BY ConcatProperties

\* RemoveAt leaves the earlier elements and moves the later ones down by one.
LEMMA Removed ==
  ASSUME NEW q \in Seq(Bufs), Once(q), NEW k \in 1 .. Len(q)
  PROVE  LET r == RemoveAt(q, k)
         IN  /\ r \in Seq(Bufs) /\ Len(r) = Len(q) - 1
             /\ \A i \in 1 .. Len(q) - 1 : r[i] = IF i < k THEN q[i] ELSE q[i + 1]
             /\ Once(r) /\ Elements(r) = Elements(q) \ {q[k]}
<1> DEFINE r == RemoveAt(q, k)
           a == SubSeq(q, 1, k - 1)
           b == SubSeq(q, k + 1, Len(q))
<1>1. Len(q) \in Nat /\ \A i \in 1 .. Len(q) : q[i] \in Bufs
  OBVIOUS
<1>2. a \in Seq(Bufs) /\ Len(a) = k - 1 /\ \A i \in 1 .. k - 1 : a[i] = q[i]
  BY <1>1, SubSeqProperties
<1>3. b \in Seq(Bufs) /\ Len(b) = Len(q) - k /\ \A i \in 1 .. Len(q) - k : b[i] = q[k + i]
  BY <1>1, SubSeqProperties
<1> HIDE DEF a, b
<1>4. /\ a \o b \in Seq(Bufs) /\ Len(a \o b) = Len(q) - 1
      /\ \A i \in 1 .. Len(q) - 1 :
           (a \o b)[i] = IF i <= k - 1 THEN a[i] ELSE b[i - (k - 1)]
  <2>1. /\ k - 1 \in Nat /\ k - 1 = Len(a)
        /\ Len(q) - 1 \in Nat /\ Len(q) - 1 = Len(a) + Len(b)
    BY <1>1, <1>2, <1>3
  <2> QED
    BY ONLY <1>2, <1>3, <2>1, Concatenated
<1>5. ASSUME NEW i \in 1 .. Len(q) - 1, i < k PROVE (a \o b)[i] = q[i]
  <2>1. i <= k - 1 /\ i \in 1 .. k - 1
    BY <1>1, <1>5
  <2> QED
    BY <1>2, <1>4, <2>1
<1>6. ASSUME NEW i \in 1 .. Len(q) - 1, ~(i < k) PROVE (a \o b)[i] = q[i + 1]
  <2>1. /\ ~(i <= k - 1) /\ i - (k - 1) \in 1 .. Len(q) - k
        /\ k + (i - (k - 1)) = i + 1
    BY <1>1, <1>6
  <2> QED
    BY <1>3, <1>4, <2>1
<1>7. /\ r \in Seq(Bufs) /\ Len(r) = Len(q) - 1
      /\ \A i \in 1 .. Len(q) - 1 : r[i] = IF i < k THEN q[i] ELSE q[i + 1]
  BY <1>4, <1>5, <1>6 DEF RemoveAt, a, b
<1> HIDE DEF r
<1>8. Once(r) /\ Elements(r) = Elements(q) \ {q[k]}
  BY <1>7, WithoutOne
<1> QED
  BY <1>7, <1>8 DEF r

\* The first element taken off.
LEMMA Taken ==
  ASSUME NEW q \in Seq(Bufs), Once(q), q # <<>>
  PROVE  /\ Head(q) = q[1] /\ Head(q) \in Elements(q) /\ 1 \in 1 .. Len(q)
         /\ Tail(q) \in Seq(Bufs) /\ Len(Tail(q)) = Len(q) - 1
         /\ \A i \in 1 .. Len(q) - 1 : Tail(q)[i] = q[i + 1]
         /\ Once(Tail(q)) /\ Elements(Tail(q)) = Elements(q) \ {Head(q)}
<1>1. /\ Len(q) \in Nat \ {0} /\ Head(q) = q[1] /\ 1 \in 1 .. Len(q) /\ 1 \in DOMAIN q
      /\ Tail(q) \in Seq(Bufs) /\ Len(Tail(q)) = Len(q) - 1
      /\ \A i \in 1 .. Len(q) - 1 : Tail(q)[i] = q[i + 1]
  BY HeadTailProperties
<1>2. \A i \in 1 .. Len(q) - 1 : Tail(q)[i] = IF i < 1 THEN q[i] ELSE q[i + 1]
  BY <1>1
<1>3. Once(Tail(q)) /\ Elements(Tail(q)) = Elements(q) \ {q[1]}
  BY <1>1, <1>2, WithoutOne
<1> QED
  BY <1>1, <1>3 DEF Elements

\* No more buffers can wait than there are.
LEMMA LenBound ==
  ASSUME IsFiniteSet(Bufs), NEW q \in Seq(Bufs), Once(q)
  PROVE  Len(q) <= Cardinality(Bufs) /\ Cardinality(Bufs) \in Nat
<1>1. Len(q) \in Nat /\ DOMAIN q = 1 .. Len(q) /\ Cardinality(Bufs) \in Nat
  BY FS_CardinalityType
<1>2. IsFiniteSet(1 .. Len(q)) /\ Cardinality(1 .. Len(q)) = Len(q)
  <2>1. 1 \in Int /\ Len(q) \in Int /\ (IF 1 > Len(q) THEN 0 ELSE Len(q) - 1 + 1) = Len(q)
    BY <1>1
  <2> QED
    BY <2>1, FS_Interval
<1>3. q \in Injection(1 .. Len(q), Bufs)
  <2>1. q \in [1 .. Len(q) -> Bufs]
    BY <1>1
  <2> QED
    BY <1>1, <2>1 DEF Once, Injection, IsInjective
<1>4. Cardinality(1 .. Len(q)) <= Cardinality(Bufs)
  BY <1>3, FS_Injection
<1> QED
  BY <1>1, <1>2, <1>4
-----------------------------------------------------------------------------
(***************************************************************************)
(* When the waiting frames leave.                                          *)
(***************************************************************************)
\* The buffers of q leave within w ticks, one after the other, when b holds the
\* increments, and that is early enough for u.  A w exists for every list there
\* is; increments alone do not say it, as they can fall below 0, where the
\* frame still takes a tick.
Soon(w, q, u) == \A i \in 1 .. Len(q) : i <= w[i] /\ w[i] <= u[q[i]] /\ w[i] <= MaxDelay + i

Apart(w, q) == \A i, j \in 1 .. Len(q) : i < j => w[j] - w[i] >= j - i

Covers(w, q, b) ==
  /\ Len(q) > 0 => b[q[1]] <= w[1]
  /\ \A i \in 1 .. Len(q) - 1 : b[q[i + 1]] <= w[i + 1] - w[i]

Spaced(w, q, b, u) ==
  w \in [1 .. Len(q) -> Int] /\ Soon(w, q, u) /\ Apart(w, q) /\ Covers(w, q, b)

\* f gives every buffer a number of ticks.
Ticks(f) == f \in [Bufs -> Int]

\* r is q with x before it; r is q without its k-th element.
Follows(q, x, r) == /\ Len(r) = Len(q) + 1 /\ r[1] = x
                    /\ \A i \in 1 .. Len(q) : r[i + 1] = q[i]
Skips(q, k, r) ==
  /\ Len(r) = Len(q) - 1
  /\ \A i \in 1 .. Len(q) - 1 : r[i] = IF i < k THEN q[i] ELSE q[i + 1]

\* What the steps do to the increments and to the ticks that are left.
Reduced(q, b, b2, d) == \A i \in 1 .. Len(q) : b2[q[i]] = b[q[i]] - d
LeftFor(q, w, u2, c) == \A i \in 1 .. Len(q) : u2[q[i]] >= w[i] + c
Kept(q, k, b, b2)    == \A i \in 1 .. Len(q) : i # k => b2[q[i]] = b[q[i]]
LeftBut(q, k, u, u2) ==
  /\ \A i \in 1 .. Len(q) : i < k => u2[q[i]] = u[q[i]]
  /\ \A i \in 1 .. Len(q) : i > k => u2[q[i]] >= u[q[i]] - 1

\* Every frame leaves at least as many ticks after the first as there are
\* frames in between.
LEMMA BehindFirst ==
  ASSUME NEW q \in Seq(Bufs), NEW w, w \in [1 .. Len(q) -> Int], Apart(w, q),
         NEW i \in 1 .. Len(q)
  PROVE  w[i] >= w[1] + i - 1 /\ w[1] \in Int /\ w[i] \in Int /\ 1 \in 1 .. Len(q)
<1>1. Len(q) \in Nat /\ i \in Nat /\ i >= 1 /\ i <= Len(q)
  OBVIOUS
<1>2. 1 \in 1 .. Len(q) /\ w[1] \in Int /\ w[i] \in Int
  BY <1>1
<1>3. CASE i = 1
  BY <1>2, <1>3
<1>4. CASE i # 1
  <2>1. w[i] - w[1] >= i - 1
    BY <1>1, <1>2, <1>4 DEF Apart
  <2> QED
    BY <1>1, <1>2, <2>1
<1> QED
  BY <1>2, <1>3, <1>4

\* A frame put before the others, whose increments lose its delay d: it takes
\* d + c ticks, and the others c more than before.
LEMMA SpacedAdded ==
  ASSUME NEW q \in Seq(Bufs), NEW r, NEW x \in Bufs,
         Follows(q, x, r),
         NEW b, NEW u, NEW w, Ticks(b), Ticks(u), Spaced(w, q, b, u),
         NEW b2, NEW u2, Ticks(b2), Ticks(u2),
         NEW d \in 0 .. MaxDelay, NEW c \in 0 .. 1, d + c >= 1,
         Len(q) > 0 => d < b[q[1]],
         b2[x] = d, Reduced(q, b, b2, d), u2[x] >= d + c, LeftFor(q, w, u2, c)
  PROVE  \E w2 : Spaced(w2, r, b2, u2)
<1> DEFINE w2 == [i \in 1 .. Len(r) |-> IF i = 1 THEN d + c ELSE w[i - 1] + c]
<1>0. w \in [1 .. Len(q) -> Int] /\ Soon(w, q, u) /\ Apart(w, q) /\ Covers(w, q, b)
  BY DEF Spaced
<1>1. /\ Len(q) \in Nat /\ Len(r) \in Nat /\ d \in Nat /\ c \in Nat /\ c <= 1 /\ d <= MaxDelay
      /\ Len(r) = Len(q) + 1 /\ \A i \in 1 .. Len(q) : q[i] \in Bufs /\ w[i] \in Int
  BY <1>0 DEF Follows
<1>2. w2[1] = d + c /\ 1 \in 1 .. Len(r)
  BY <1>1
<1>3. \A i \in 1 .. Len(q) : i + 1 \in 1 .. Len(r) /\ w2[i + 1] = w[i] + c
  <2> SUFFICES ASSUME NEW i \in 1 .. Len(q)
               PROVE  i + 1 \in 1 .. Len(r) /\ w2[i + 1] = w[i] + c
    OBVIOUS
  <2>1. i + 1 \in 1 .. Len(r) /\ i + 1 # 1 /\ (i + 1) - 1 = i
    BY <1>1
  <2> QED
    BY <2>1
<1>4. w2 \in [1 .. Len(r) -> Int]
  <2> SUFFICES ASSUME NEW i \in 1 .. Len(r), i # 1 PROVE w[i - 1] + c \in Int
    BY <1>1
  <2>1. i - 1 \in 1 .. Len(q)
    BY <1>1
  <2> QED
    BY <1>1, <2>1
<1> HIDE DEF w2
<1>5. \A i \in 1 .. Len(r) : i = 1 \/ (\E j \in 1 .. Len(q) : i = j + 1)
  <2> SUFFICES ASSUME NEW i \in 1 .. Len(r), i # 1
               PROVE  \E j \in 1 .. Len(q) : i = j + 1
    OBVIOUS
  <2>1. i - 1 \in 1 .. Len(q) /\ i = (i - 1) + 1
    BY <1>1
  <2> QED
    BY <2>1
<1>6. \A j \in 1 .. Len(q) : w[j] - d >= j /\ w[j] \in Int
  <2> SUFFICES ASSUME NEW j \in 1 .. Len(q) PROVE w[j] - d >= j /\ w[j] \in Int
    OBVIOUS
  <2>1. w[j] >= w[1] + j - 1 /\ w[1] \in Int /\ w[j] \in Int /\ 1 \in 1 .. Len(q)
    BY <1>0, BehindFirst
  <2>2. d < b[q[1]] /\ b[q[1]] <= w[1] /\ b[q[1]] \in Int
    <3>1. Len(q) > 0 /\ q[1] \in Bufs
      BY <1>1, <2>1
    <3> QED
      BY <1>0, <3>1 DEF Covers, Ticks
  <2> QED
    BY <1>1, <2>1, <2>2
<1>7. \A i \in 1 .. Len(r) : i <= w2[i] /\ w2[i] <= u2[r[i]] /\ w2[i] <= MaxDelay + i
  <2> SUFFICES ASSUME NEW i \in 1 .. Len(r)
               PROVE  i <= w2[i] /\ w2[i] <= u2[r[i]] /\ w2[i] <= MaxDelay + i
    OBVIOUS
  <2>1. CASE i = 1
    <3>1. w2[i] = d + c /\ r[i] = x /\ u2[x] \in Int
      BY <1>2, <2>1 DEF Follows, Ticks
    <3> QED
      BY <1>1, <2>1, <3>1
  <2>2. ASSUME NEW j \in 1 .. Len(q), i = j + 1
        PROVE  i <= w2[i] /\ w2[i] <= u2[r[i]] /\ w2[i] <= MaxDelay + i
    <3>1. w2[i] = w[j] + c /\ r[i] = q[j] /\ u2[q[j]] >= w[j] + c /\ u2[q[j]] \in Int
      BY <1>1, <1>3, <2>2 DEF Follows, LeftFor, Ticks
    <3>2. w[j] - d >= j /\ w[j] \in Int /\ w[j] <= MaxDelay + j
      BY <1>0, <1>6 DEF Soon
    <3> QED
      BY <1>1, <2>2, <3>1, <3>2
  <2> QED
    BY <1>5, <2>1, <2>2
<1>8. ASSUME NEW i \in 1 .. Len(r), NEW j \in 1 .. Len(r), i < j
      PROVE  w2[j] - w2[i] >= j - i
  <2>1. PICK l \in 1 .. Len(q) : j = l + 1
    BY <1>1, <1>5, <1>8
  <2>2. w2[j] = w[l] + c /\ w[l] - d >= l /\ w[l] \in Int
    BY <1>3, <1>6, <2>1
  <2>3. CASE i = 1
    BY <1>1, <1>2, <2>1, <2>2, <2>3
  <2>4. ASSUME NEW k \in 1 .. Len(q), i = k + 1
        PROVE  w2[j] - w2[i] >= j - i
    <3>1. w2[i] = w[k] + c /\ w[k] \in Int /\ k < l
      BY <1>1, <1>3, <1>8, <2>1, <2>4
    <3>2. w[l] - w[k] >= l - k
      BY <1>0, <3>1 DEF Apart
    <3> QED
      BY <1>1, <2>1, <2>2, <2>4, <3>1, <3>2
  <2> QED
    BY <1>5, <2>3, <2>4
<1>9. ASSUME NEW i \in 1 .. Len(r) - 1
      PROVE  b2[r[i + 1]] <= w2[i + 1] - w2[i]
  <2>1. i \in 1 .. Len(q) /\ i \in 1 .. Len(r) /\ r[i + 1] = q[i] /\ q[i] \in Bufs
    BY <1>1 DEF Follows
  <2>2. b2[r[i + 1]] = b[q[i]] - d /\ w2[i + 1] = w[i] + c /\ b[q[i]] \in Int /\ w[i] \in Int
    BY <1>1, <1>3, <2>1 DEF Reduced, Ticks
  <2>3. CASE i = 1
    <3>1. b[q[1]] <= w[1]
      BY <1>0, <1>1, <2>1 DEF Covers
    <3> QED
      BY <1>1, <1>2, <2>2, <2>3, <3>1
  <2>4. ASSUME NEW k \in 1 .. Len(q), i = k + 1
        PROVE  b2[r[i + 1]] <= w2[i + 1] - w2[i]
    <3>1. w2[i] = w[k] + c /\ w[k] \in Int /\ k \in 1 .. Len(q) - 1
      BY <1>1, <1>3, <2>1, <2>4
    <3>2. b[q[i]] <= w[i] - w[k]
      BY <1>0, <2>4, <3>1 DEF Covers
    <3>3. w2[i + 1] - w2[i] = w[i] - w[k]
      BY <1>1, <2>2, <3>1
    <3>4. b[q[i]] - d <= b[q[i]] /\ b[q[i]] - d \in Int
      BY <1>1, <2>2
    <3>5. w[i] - w[k] \in Int
      BY <2>2, <3>1
    <3>6. b[q[i]] - d <= w[i] - w[k]
      BY <2>2, <3>2, <3>4, <3>5
    <3> QED
      BY <2>2, <3>3, <3>6
  <2> QED
    BY <1>5, <2>1, <2>3, <2>4
<1>10. b2[r[1]] <= w2[1]
  BY <1>1, <1>2 DEF Follows
<1> QED
  BY <1>4, <1>7, <1>8, <1>9, <1>10 DEF Spaced, Soon, Apart, Covers

\* A frame gone from the list: those behind it leave a tick earlier at least, which
\* is what makes up for a tick in which it has been taken.
LEMMA SpacedWithout ==
  ASSUME NEW q \in Seq(Bufs), NEW r, NEW k \in 1 .. Len(q),
         Skips(q, k, r),
         NEW b, NEW u, NEW w, Ticks(b), Ticks(u), Spaced(w, q, b, u),
         NEW b2, NEW u2, Ticks(b2), Ticks(u2),
         Kept(q, k, b, b2), LeftBut(q, k, u, u2)
  PROVE  \E w2 : Spaced(w2, r, b2, u2)
<1> DEFINE w2 == [i \in 1 .. Len(r) |-> IF i < k THEN w[i] ELSE w[i + 1] - 1]
<1>0. w \in [1 .. Len(q) -> Int] /\ Soon(w, q, u) /\ Apart(w, q) /\ Covers(w, q, b)
  BY DEF Spaced
<1>1. /\ Len(q) \in Nat /\ Len(r) \in Nat /\ k \in Nat /\ 1 <= k /\ k <= Len(q)
      /\ Len(r) = Len(q) - 1 /\ \A i \in 1 .. Len(q) : q[i] \in Bufs /\ w[i] \in Int
  BY <1>0 DEF Skips
<1>2. \A i \in 1 .. Len(r) : /\ i \in 1 .. Len(q) /\ i + 1 \in 1 .. Len(q) /\ i \in Nat
                             /\ w[i] \in Int /\ w[i + 1] \in Int
  <2> SUFFICES ASSUME NEW i \in 1 .. Len(r)
               PROVE  i \in 1 .. Len(q) /\ i + 1 \in 1 .. Len(q) /\ i \in Nat
    BY <1>1
  <2> QED
    BY <1>1
<1>3. ASSUME NEW i \in 1 .. Len(r), i < k
      PROVE  r[i] = q[i] /\ w2[i] = w[i]
  BY <1>1, <1>3 DEF Skips
<1>4. ASSUME NEW i \in 1 .. Len(r), ~(i < k)
      PROVE  r[i] = q[i + 1] /\ w2[i] = w[i + 1] - 1
  BY <1>1, <1>4 DEF Skips
<1>5. w2 \in [1 .. Len(r) -> Int]
  BY <1>2
<1> HIDE DEF w2
<1>6. \A i, j \in 1 .. Len(q) : i < j => w[j] - w[i] >= j - i
  BY <1>0 DEF Apart
<1>7. ASSUME NEW i \in 1 .. Len(r)
      PROVE  i <= w2[i] /\ w2[i] <= u2[r[i]] /\ w2[i] <= MaxDelay + i
  <2>1. CASE i < k
    <3>1. i <= w[i] /\ w[i] <= u[q[i]] /\ w[i] <= MaxDelay + i /\ u2[q[i]] = u[q[i]]
      BY <1>0, <1>2, <2>1 DEF Soon, LeftBut
    <3> QED
      BY <1>2, <1>3, <2>1, <3>1
  <2>2. CASE ~(i < k)
    <3>1. i + 1 <= w[i + 1] /\ w[i + 1] <= u[q[i + 1]] /\ w[i + 1] <= MaxDelay + (i + 1)
      BY <1>0, <1>2 DEF Soon
    <3>2. u2[q[i + 1]] >= u[q[i + 1]] - 1 /\ u[q[i + 1]] \in Int /\ u2[q[i + 1]] \in Int
      <4>1. i + 1 \in 1 .. Len(q) /\ i + 1 > k /\ q[i + 1] \in Bufs
        BY <1>1, <1>2, <2>2
      <4> QED
        BY <4>1 DEF LeftBut, Ticks
    <3>3. r[i] = q[i + 1] /\ w2[i] = w[i + 1] - 1 /\ w[i + 1] \in Int /\ i \in Int
      BY <1>2, <1>4, <2>2
    <3>4. i <= w2[i] /\ w2[i] <= MaxDelay + i
      BY <3>1, <3>3, SizeAssumption
    <3>5. w2[i] <= u2[q[i + 1]]
      BY <3>1, <3>2, <3>3
    <3> QED
      BY <3>3, <3>4, <3>5
  <2> QED
    BY <2>1, <2>2
<1>8. ASSUME NEW i \in 1 .. Len(r), NEW j \in 1 .. Len(r), i < j
      PROVE  w2[j] - w2[i] >= j - i
  <2>1. /\ i \in 1 .. Len(q) /\ j \in 1 .. Len(q) /\ i + 1 \in 1 .. Len(q)
        /\ j + 1 \in 1 .. Len(q) /\ i \in Int /\ j \in Int
        /\ w[i] \in Int /\ w[i + 1] \in Int /\ w[j] \in Int /\ w[j + 1] \in Int
    BY <1>2
  <2>2. CASE j < k
    BY <1>1, <1>3, <1>6, <1>8, <2>1, <2>2
  <2>3. CASE i < k /\ ~(j < k)
    <3>1. w2[j] = w[j + 1] - 1 /\ w2[i] = w[i]
      BY <1>3, <1>4, <2>3
    <3>2. w[j + 1] - w[i] >= (j + 1) - i
      BY <1>6, <1>8, <2>1
    <3> QED
      BY <2>1, <3>1, <3>2
  <2>4. CASE ~(i < k) /\ ~(j < k)
    <3>1. w2[j] = w[j + 1] - 1 /\ w2[i] = w[i + 1] - 1
      BY <1>4, <2>4
    <3>2. w[j + 1] - w[i + 1] >= (j + 1) - (i + 1)
      BY <1>6, <1>8, <2>1
    <3> QED
      BY <2>1, <3>1, <3>2
  <2> QED
    BY <1>1, <1>8, <2>1, <2>2, <2>3, <2>4
<1>9. ASSUME Len(r) > 0 PROVE b2[r[1]] <= w2[1]
  <2>1. 1 \in 1 .. Len(r) /\ 1 \in 1 .. Len(q) /\ 2 \in 1 .. Len(q) /\ 1 \in 1 .. Len(q) - 1
    BY <1>1, <1>9
  <2>2. CASE 1 < k
    <3>1. r[1] = q[1] /\ w2[1] = w[1] /\ b2[q[1]] = b[q[1]]
      BY <1>1, <1>3, <2>1, <2>2 DEF Kept
    <3> QED
      BY <1>0, <1>1, <2>1, <3>1 DEF Covers
  <2>3. CASE ~(1 < k)
    <3>1. k = 1
      BY <1>1, <2>3
    <3>2. r[1] = q[2] /\ w2[1] = w[2] - 1 /\ b2[q[2]] = b[q[2]] /\ b[q[2]] \in Int
      <4>1. r[1] = q[1 + 1] /\ w2[1] = w[1 + 1] - 1
        BY <1>4, <2>1, <2>3
      <4>2. b2[q[2]] = b[q[2]] /\ q[2] \in Bufs
        BY <1>1, <2>1, <3>1 DEF Kept
      <4> QED
        BY <4>1, <4>2 DEF Ticks
    <3>3. b[q[1 + 1]] <= w[1 + 1] - w[1] /\ 1 <= w[1]
      BY <1>0, <2>1 DEF Soon, Covers
    <3>4. w[1] \in Int /\ w[2] \in Int
      BY <1>1, <2>1
    <3> QED
      BY <3>2, <3>3, <3>4
  <2> QED
    BY <2>2, <2>3
<1>10. ASSUME NEW i \in 1 .. Len(r) - 1
       PROVE  b2[r[i + 1]] <= w2[i + 1] - w2[i]
  <2> DEFINE j == i + 1
  <2>1. i \in 1 .. Len(r) /\ j \in 1 .. Len(r) /\ i \in Nat /\ j \in 1 .. Len(q) - 1
        /\ i \in 1 .. Len(q) - 1
    BY <1>1
  <2>2. /\ q[j] \in Bufs /\ q[j + 1] \in Bufs
        /\ b[q[j]] \in Int /\ b[q[j + 1]] \in Int
        /\ w[i] \in Int /\ w[j] \in Int /\ w[j + 1] \in Int
    <3>1. q[j] \in Bufs /\ q[j + 1] \in Bufs
      BY <1>1, <1>2, <2>1
    <3> QED
      BY <1>2, <2>1, <3>1 DEF Ticks
  <2>3. b[q[j]] <= w[j] - w[i] /\ b[q[j + 1]] <= w[j + 1] - w[j]
    BY <1>0, <2>1 DEF Covers
  <2>4. j = i + 1 /\ i < j
    BY <2>1
  <2>5. j \in 1 .. Len(q) /\ j + 1 \in 1 .. Len(q) /\ j \in Nat /\ i \in 1 .. Len(q)
    BY <1>2, <2>1
  <2> HIDE DEF j
  <2>6. b2[r[j]] <= w2[j] - w2[i]
    <3>1. CASE j < k
      <4>1. r[j] = q[j] /\ w2[j] = w[j] /\ w2[i] = w[i] /\ b2[q[j]] = b[q[j]]
        <5>1. i < k /\ j # k /\ k \in Nat
          BY <1>1, <2>1, <2>4, <2>5, <3>1
        <5>2. b2[q[j]] = b[q[j]]
          BY <2>5, <5>1 DEF Kept
        <5> QED
          BY <1>3, <2>1, <3>1, <5>1, <5>2
      <4> QED
        BY <2>3, <4>1
    <3>2. CASE ~(j < k) /\ i < k
      <4>1. r[j] = q[j + 1] /\ w2[j] = w[j + 1] - 1 /\ w2[i] = w[i]
        BY <1>3, <1>4, <2>1, <3>2
      <4>2. b2[q[j + 1]] = b[q[j + 1]]
        BY <1>1, <2>5, <3>2 DEF Kept
      <4>3. w[j] - w[i] >= 1
        BY <1>6, <2>4, <2>5
      <4> QED
        BY <2>2, <2>3, <4>1, <4>2, <4>3
    <3>3. CASE ~(j < k) /\ ~(i < k)
      <4>1. r[j] = q[j + 1] /\ w2[j] = w[j + 1] - 1 /\ w2[i] = w[j] - 1
        BY <1>4, <2>1, <2>4, <3>3
      <4>2. b2[q[j + 1]] = b[q[j + 1]]
        BY <1>1, <2>5, <3>3 DEF Kept
      <4> QED
        BY <2>2, <2>3, <4>1, <4>2
    <3> QED
      BY <3>1, <3>2, <3>3
  <2> QED
    BY <2>4, <2>6
<1> QED
  BY <1>5, <1>7, <1>8, <1>9, <1>10 DEF Spaced, Soon, Apart, Covers

\* A tick in which the first frame waits on: all leave a tick earlier.
LEMMA SpacedTicked ==
  ASSUME NEW q \in Seq(Bufs), Once(q), Len(q) > 0,
         NEW b, NEW u, NEW w, Ticks(b), Ticks(u), Spaced(w, q, b, u),
         NEW b2, NEW u2, Ticks(b2), Ticks(u2),
         b[q[1]] - 1 > 0, b2 = [b EXCEPT ![q[1]] = @ - 1],
         Reduced(q, u, u2, 1)
  PROVE  \E w2 : Spaced(w2, q, b2, u2)
<1> DEFINE w2 == [i \in 1 .. Len(q) |-> w[i] - 1]
<1>0. w \in [1 .. Len(q) -> Int] /\ Soon(w, q, u) /\ Apart(w, q) /\ Covers(w, q, b)
  BY DEF Spaced
<1>1. /\ Len(q) \in Nat /\ 1 \in 1 .. Len(q)
      /\ \A i \in 1 .. Len(q) : q[i] \in Bufs /\ w[i] \in Int
  BY <1>0
<1>2. w2 \in [1 .. Len(q) -> Int] /\ \A i \in 1 .. Len(q) : w2[i] = w[i] - 1
  BY <1>1
<1> HIDE DEF w2
<1>3. b[q[1]] <= w[1] /\ b2[q[1]] = b[q[1]] - 1 /\ b[q[1]] \in Int /\ w[1] \in Int
  <2>1. b[q[1]] <= w[1]
    BY <1>0 DEF Covers
  <2>2. q[1] \in Bufs /\ w[1] \in Int
    BY <1>1
  <2> QED
    BY <2>1, <2>2 DEF Ticks
<1>4. ASSUME NEW i \in 1 .. Len(q)
      PROVE  i <= w2[i] /\ w2[i] <= u2[q[i]] /\ w2[i] <= MaxDelay + i
  <2>1. w[i] >= w[1] + i - 1
    BY <1>0, BehindFirst
  <2>2. u2[q[i]] = u[q[i]] - 1
    BY DEF Reduced
  <2>3. w[i] <= u[q[i]] /\ w[i] <= MaxDelay + i /\ w[i] \in Int /\ u[q[i]] \in Int /\ i \in Int
    <3>1. w[i] <= u[q[i]] /\ w[i] <= MaxDelay + i
      BY <1>0 DEF Soon
    <3>2. q[i] \in Bufs /\ w[i] \in Int
      BY <1>1
    <3> QED
      BY <3>1, <3>2 DEF Ticks
  <2> QED
    <3>1. w2[i] = w[i] - 1
      BY <1>2
    <3>2. w[1] >= 2 /\ w[1] \in Int
      BY <1>3
    <3>3. i <= w[i] - 1
      BY <2>1, <2>3, <3>2
    <3>4. w[i] - 1 <= u2[q[i]] /\ w[i] - 1 <= MaxDelay + i
      BY <2>2, <2>3
    <3> QED
      BY <3>1, <3>3, <3>4
<1>5. ASSUME NEW i \in 1 .. Len(q), NEW j \in 1 .. Len(q), i < j
      PROVE  w2[j] - w2[i] >= j - i
  <2>1. w[j] - w[i] >= j - i
    BY <1>0, <1>5 DEF Apart
  <2> QED
    BY <1>1, <1>2, <2>1
<1>6. ASSUME NEW i \in 1 .. Len(q) - 1
      PROVE  b2[q[i + 1]] <= w2[i + 1] - w2[i]
  <2>1. i + 1 \in 1 .. Len(q) /\ i \in 1 .. Len(q) /\ i + 1 # 1
    BY <1>1
  <2>2. q[i + 1] # q[1]
    BY <1>1, <2>1 DEF Once
  <2>3. b2[q[i + 1]] = b[q[i + 1]] /\ b[q[i + 1]] \in Int
    <3>1. q[i + 1] \in Bufs /\ q[1] \in Bufs
      BY <1>1, <2>1
    <3> QED
      BY <2>2, <3>1 DEF Ticks
  <2>4. b[q[i + 1]] <= w[i + 1] - w[i] /\ w[i] \in Int /\ w[i + 1] \in Int
    BY <1>0, <1>1, <2>1 DEF Covers
  <2> QED
    BY <1>2, <2>1, <2>3, <2>4
<1>7. b2[q[1]] <= w2[1]
  BY <1>1, <1>2, <1>3
<1> QED
  BY <1>2, <1>4, <1>5, <1>6, <1>7 DEF Spaced, Soon, Apart, Covers
-----------------------------------------------------------------------------
(***************************************************************************)
(* The inductive invariant, in parts.                                      *)
(***************************************************************************)
RecOK  == /\ recMsg \in [Slots -> Msgs \cup {NoMsg}]
          /\ recLife \in [Slots -> 0 .. MaxHistLife]
ListOK == list \in Seq(Bufs) /\ Once(list)
BufOK  == /\ bMsg \in [Bufs -> Msgs \cup {NoMsg}] /\ bLeft \in [Bufs -> 0 .. 255]
          /\ Ticks(bDelay) /\ Ticks(due)

\* The threads, and what they hold on the way.
RxOK ==
  /\ sem \in {"none", "rx"}
  /\ rxPc \in {"idle", "new", "record", "add", "loop", "known", "scan",
              "judge", "remove"}
  /\ rxMsg \in Msgs \cup {NoMsg} /\ rxLeft \in 0 .. 255
  /\ rxBuf \in Bufs \cup {NoBuf} /\ rxDelay \in 0 .. MaxDelay
  /\ rxPc # "idle" => rxMsg \in Msgs
  /\ rxPc \notin {"idle", "new", "known"} => rxBuf \in Bufs
MdaOK ==
  /\ mdaPc \in {"idle", "send", "age"}
  /\ mdaPc = "send" => mdaBuf \in Bufs
  /\ mdaPc # "send" => mdaBuf = NoBuf
  /\ ageDue \in BOOLEAN /\ broken \in BOOLEAN

\* A buffer that is not free has exactly one owner, a free one has none.
Owned ==
  \A b \in Bufs :
    /\ Free(b) <=> ~RxOwns(b) /\ b \notin Listed /\ ~MdaOwns(b)
    /\ RxOwns(b) => b \notin Listed /\ ~MdaOwns(b)
    /\ MdaOwns(b) => b \notin Listed

\* A frame the receive thread is about to record has no live record yet.
Fresh == rxPc \in {"new", "record"} => ~Recorded(rxMsg)

\* The frames that wait leave in time, and no frame is late when it is taken.
OnTime == /\ \E w : Spaced(w, list, bDelay, due)
          /\ \A b \in Bufs : due[b] >= 0

MdaInv == /\ RecOK /\ ListOK /\ BufOK /\ RxOK /\ MdaOK
          /\ Owned /\ Fresh /\ OneRecord /\ OnTime

LEMMA PartsType == RecOK /\ ListOK /\ BufOK /\ RxOK /\ MdaOK => TypeOK
  BY DEF RecOK, ListOK, BufOK, RxOK, MdaOK, TypeOK, Once, Ticks

\* What the steps that write a part of the state are.
LEMMA Frames ==
  ASSUME [Next]_vars
  PROVE  /\ UNCHANGED recVars \/ RxRecord \/ MdaAge
         /\ UNCHANGED list \/ RxAddFirst \/ RxRemove \/ TickTakes
         /\ UNCHANGED <<bMsg, bLeft>> \/ RxCreate \/ RxRemove \/ MdaSend
         /\ UNCHANGED <<bDelay, due>>
              \/ RxAddFirst \/ RxRemove \/ TickWaits \/ TickTakes \/ MdaSend
         /\ UNCHANGED mdaVars \/ MdaStep
         /\ UNCHANGED rxVars \/ RxStep \/ \E m \in Msgs, h \in Hops : RxFrame(m, h)
<1> USE DEF vars, recVars, bufVars, mdaVars, rxVars, RxAlone, MdaAlone
<1>1. CASE \E m \in Msgs, h \in Hops : RxFrame(m, h)
  BY <1>1 DEF RxFrame
<1>2. CASE RxStep
  BY <1>2 DEF RxStep, RxNotAhead, RxCreate, RxRecord, RxAddFirst, RxAddLoops, RxFind,
              RxFound, RxOn, RxScanGone, RxCancel, RxLeave, RxRemove, RxRemoveGone
<1>3. CASE MdaStep
  BY <1>3 DEF MdaStep, TickEmpty, TickWaits, TickTakes, MdaSend, MdaAge
<1>4. CASE HistoryTimer
  BY <1>4 DEF HistoryTimer
<1>5. CASE UNCHANGED vars
  BY <1>5
<1> QED
  BY <1>1, <1>2, <1>3, <1>4, <1>5 DEF Next

\* The list as the steps that write it leave it.
LEMMA ListSteps ==
  ASSUME ListOK, Owned, BufOK, RxOK
  PROVE  /\ RxAddFirst => /\ rxBuf \in Bufs /\ rxBuf \notin Listed
                          /\ list' \in Seq(Bufs) /\ Follows(list, rxBuf, list')
                          /\ Once(list') /\ Listed' = Listed \cup {rxBuf}
         /\ RxRemove   => /\ rxBuf \in Bufs /\ PlaceOf(rxBuf) \in 1 .. Len(list)
                          /\ list[PlaceOf(rxBuf)] = rxBuf
                          /\ list' \in Seq(Bufs) /\ Skips(list, PlaceOf(rxBuf), list')
                          /\ Once(list') /\ Listed' = Listed \ {rxBuf}
         /\ TickTakes  => /\ Head(list) = list[1] /\ Head(list) \in Listed
                          /\ 1 \in 1 .. Len(list)
                          /\ list' \in Seq(Bufs) /\ Skips(list, 1, list')
                          /\ Once(list') /\ Listed' = Listed \ {Head(list)}
<1>1. /\ list \in Seq(Bufs) /\ Once(list) /\ Listed = Elements(list)
      /\ Listed' = Elements(list') /\ DOMAIN list = 1 .. Len(list) /\ Len(list) \in Nat
  BY DEF ListOK, Listed, Elements
<1>2. ASSUME RxAddFirst
      PROVE  /\ rxBuf \in Bufs /\ rxBuf \notin Listed
             /\ list' \in Seq(Bufs) /\ Follows(list, rxBuf, list')
             /\ Once(list') /\ Listed' = Listed \cup {rxBuf}
  <2>1. rxBuf \in Bufs /\ list' = <<rxBuf>> \o list /\ rxPc = "add"
    BY <1>2 DEF RxAddFirst, RxOK
  <2>2. rxBuf \notin Listed
    BY <2>1 DEF Owned, RxOwns
  <2>3. rxBuf \notin Elements(list)
    BY <1>1, <2>2
  <2>4. /\ list' \in Seq(Bufs) /\ Len(list') = Len(list) + 1
        /\ list'[1] = rxBuf /\ \A i \in 1 .. Len(list) : list'[i + 1] = list[i]
        /\ Once(list') /\ Elements(list') = Elements(list) \cup {rxBuf}
    BY ONLY <1>1, <2>1, <2>3, Added
  <2> QED
    BY <1>1, <2>1, <2>2, <2>4 DEF Follows
<1>3. ASSUME RxRemove
      PROVE  /\ rxBuf \in Bufs /\ PlaceOf(rxBuf) \in 1 .. Len(list)
             /\ list[PlaceOf(rxBuf)] = rxBuf
             /\ list' \in Seq(Bufs) /\ Skips(list, PlaceOf(rxBuf), list')
             /\ Once(list') /\ Listed' = Listed \ {rxBuf}
  <2>1. rxBuf \in Bufs /\ rxBuf \in Listed /\ list' = RemoveAt(list, PlaceOf(rxBuf))
    BY <1>3 DEF RxRemove, RxOK
  <2>2. \E i \in DOMAIN list : list[i] = rxBuf
    BY <2>1 DEF Listed
  <2>3. PlaceOf(rxBuf) \in 1 .. Len(list) /\ list[PlaceOf(rxBuf)] = rxBuf
    BY <1>1, <2>2 DEF PlaceOf
  <2>4. /\ list' \in Seq(Bufs) /\ Len(list') = Len(list) - 1
        /\ \A i \in 1 .. Len(list) - 1 :
             list'[i] = IF i < PlaceOf(rxBuf) THEN list[i] ELSE list[i + 1]
        /\ Once(list') /\ Elements(list') = Elements(list) \ {list[PlaceOf(rxBuf)]}
    BY ONLY <1>1, <2>1, <2>3, Removed
  <2> QED
    BY <1>1, <2>1, <2>3, <2>4 DEF Skips
<1>4. ASSUME TickTakes
      PROVE  /\ Head(list) = list[1] /\ Head(list) \in Listed /\ 1 \in 1 .. Len(list)
             /\ list' \in Seq(Bufs) /\ Skips(list, 1, list')
             /\ Once(list') /\ Listed' = Listed \ {Head(list)}
  <2>1. list # <<>> /\ list' = Tail(list)
    BY <1>4 DEF TickTakes
  <2>2. \A i \in 1 .. Len(list) - 1 : ~(i < 1)
    BY <1>1
  <2> QED
    BY <1>1, <2>1, <2>2, Taken DEF Skips
<1> QED
  BY <1>2, <1>3, <1>4
-----------------------------------------------------------------------------
(***************************************************************************)
(* Every step preserves the parts.                                         *)
(***************************************************************************)
LEMMA RecStep == ASSUME RecOK, RxOK, [Next]_vars PROVE RecOK'
<1>1. CASE UNCHANGED recVars
  BY <1>1 DEF RecOK, recVars, Slots
<1>2. CASE RxRecord
  <2>1. rxMsg \in Msgs \cup {NoMsg} /\ MaxHistLife \in 0 .. MaxHistLife
    BY SizeAssumption DEF RxOK
  <2> QED
    BY <1>2, <2>1 DEF RxRecord, RecOK, Slots
<1>3. CASE MdaAge
  <2>1. recMsg' = recMsg
    BY <1>3 DEF MdaAge
  <2>2. ASSUME NEW i \in Slots
        PROVE  (IF ageDue /\ recLife[i] > 0 THEN recLife[i] - 1 ELSE recLife[i])
                 \in 0 .. MaxHistLife
    <3>1. recLife[i] \in 0 .. MaxHistLife
      BY DEF RecOK
    <3>2. CASE ageDue /\ recLife[i] > 0
      <4>1. recLife[i] - 1 \in 0 .. MaxHistLife
        BY <3>1, <3>2
      <4> QED
        BY <3>2, <4>1
    <3>3. CASE ~(ageDue /\ recLife[i] > 0)
      BY <3>1, <3>3
    <3> QED
      BY <3>2, <3>3
  <2>3. recLife' = [i \in Slots |-> IF ageDue /\ recLife[i] > 0
                                      THEN recLife[i] - 1 ELSE recLife[i]]
    BY <1>3 DEF MdaAge
  <2> QED
    BY <2>1, <2>2, <2>3 DEF RecOK, Slots
<1> QED
  BY <1>1, <1>2, <1>3, Frames

LEMMA ListStep == ASSUME ListOK, BufOK, RxOK, Owned, [Next]_vars PROVE ListOK'
<1>1. CASE UNCHANGED list
  BY <1>1 DEF ListOK, Once
<1>2. CASE RxAddFirst \/ RxRemove \/ TickTakes
  BY <1>2, ListSteps DEF ListOK, Once
<1> QED
  BY <1>1, <1>2, Frames

\* More time is never less time.
LEMMA MoreTime ==
  ASSUME NEW d \in Int
  PROVE  /\ Longer(d) \in Int /\ Longer(d) >= d
         /\ \A e \in Int : e < MaxDelay + Cardinality(Bufs) /\ e <= d => Longer(d) >= e + 1
<1>1. MaxDelay + Cardinality(Bufs) \in Int
  BY BufsAssumption, SizeAssumption, FS_CardinalityType
<1> DEFINE most == MaxDelay + Cardinality(Bufs)
<1>2. most \in Int
  BY <1>1
<1> HIDE DEF most
<1>3. Longer(d) = IF d < most THEN d + 1 ELSE d
  BY DEF Longer, most
<1>4. CASE d < most
  BY <1>2, <1>3, <1>4 DEF most
<1>5. CASE ~(d < most)
  <2>1. Longer(d) = d /\ d >= most
    BY <1>2, <1>3, <1>5
  <2>2. \A e \in Int : e < most => d >= e + 1
    BY <1>2, <2>1
  <2> QED
    BY <2>1, <2>2 DEF most
<1> QED
  BY <1>4, <1>5

LEMMA BufStep == ASSUME BufOK, ListOK, RxOK, MdaOK, [Next]_vars PROVE BufOK'
<1>1. /\ rxLeft \in 0 .. 255 /\ rxMsg \in Msgs \cup {NoMsg} /\ rxDelay \in Int
      /\ NoMsg \in Msgs \cup {NoMsg} /\ 0 \in 0 .. 255
  BY SizeAssumption DEF RxOK
<1>2. bMsg' \in [Bufs -> Msgs \cup {NoMsg}] /\ bLeft' \in [Bufs -> 0 .. 255]
  <2>1. CASE UNCHANGED <<bMsg, bLeft>>
    BY <2>1 DEF BufOK
  <2>2. CASE RxCreate
    BY <1>1, <2>2 DEF RxCreate, BufOK
  <2>3. CASE RxRemove \/ MdaSend
    BY <1>1, <2>3 DEF RxRemove, MdaSend, Release, BufOK
  <2> QED
    BY <2>1, <2>2, <2>3, Frames
<1>3. bDelay' \in [Bufs -> Int] /\ due' \in [Bufs -> Int]
  <2>1. bDelay \in [Bufs -> Int] /\ due \in [Bufs -> Int]
    BY DEF BufOK, Ticks
  <2>2. CASE UNCHANGED <<bDelay, due>>
    BY <2>1, <2>2
  <2>3. CASE RxAddFirst
    <3>1. \A b \in Bufs : bDelay[b] - rxDelay \in Int /\ Longer(due[b]) \in Int
      BY <1>1, <2>1, MoreTime
    <3> QED
      BY <1>1, <2>1, <2>3, <3>1 DEF RxAddFirst
  <2>4. CASE RxRemove \/ MdaSend
    BY <2>1, <2>4 DEF RxRemove, MdaSend, Release
  <2>5. CASE TickWaits \/ TickTakes
    <3>1. \A b \in Bufs : bDelay[b] - 1 \in Int /\ due[b] - 1 \in Int
      BY <2>1
    <3>2. bDelay' = [bDelay EXCEPT ![Head(list)] = @ - 1] /\ due' = Ticked
      BY <2>5 DEF TickWaits, TickTakes
    <3>3. bDelay' \in [Bufs -> Int]
      BY <2>1, <3>1, <3>2
    <3>4. due' \in [Bufs -> Int]
      BY <2>1, <3>1, <3>2 DEF Ticked
    <3> QED
      BY <3>3, <3>4
  <2> QED
    BY <2>2, <2>3, <2>4, <2>5, Frames
<1> QED
  BY <1>2, <1>3 DEF BufOK, Ticks

\* The elements of a list that is not empty, and of one behind a buffer, are buffers.
LEMMA RxReaches ==
  ASSUME ListOK
  PROVE  /\ list # <<>> => Head(list) \in Bufs
         /\ \A b : Behind(b) # <<>> => Head(Behind(b)) \in Bufs
<1>1. list \in Seq(Bufs) /\ Len(list) \in Nat
  BY DEF ListOK
<1>2. \A q \in Seq(Bufs) : q # <<>> => Head(q) \in Bufs
  BY HeadTailProperties
<1>3. ASSUME NEW b PROVE Behind(b) \in Seq(Bufs)
  <2>1. CASE b \in Listed
    <3>1. \E i \in DOMAIN list : list[i] = b
      BY <2>1 DEF Listed
    <3>2. PlaceOf(b) \in DOMAIN list
      BY <3>1 DEF PlaceOf
    <3>3. /\ PlaceOf(b) + 1 \in Nat
          /\ \A i \in PlaceOf(b) + 1 .. Len(list) : list[i] \in Bufs
      BY <1>1, <3>2
    <3>4. SubSeq(list, PlaceOf(b) + 1, Len(list)) \in Seq(Bufs)
      BY <1>1, <3>2, <3>3, SubSeqProperties
    <3> QED
      BY <2>1, <3>4 DEF Behind
  <2>2. CASE b \notin Listed
    BY <1>1, <2>2 DEF Behind
  <2> QED
    BY <2>1, <2>2
<1> QED
  BY <1>1, <1>2, <1>3

LEMMA RxStepOK == ASSUME RxOK, ListOK, [Next]_vars PROVE RxOK'
<1> USE DEF RxOK
<1>1. CASE \E m \in Msgs, h \in Hops : RxFrame(m, h)
  <2>1. PICK m \in Msgs, h \in Hops : RxFrame(m, h)
    BY <1>1
  <2>2. (h + 255) % 256 \in 0 .. 255
    BY HopsAssumption
  <2> QED
    BY <2>1, <2>2 DEF RxFrame
<1>2. CASE RxStep
  <2> USE DEF RxIdle
  <2>1. CASE RxNotAhead \/ RxLeave
    BY <2>1, SizeAssumption DEF RxNotAhead, RxLeave
  <2>2. CASE RxCreate
    BY <2>2 DEF RxCreate
  <2>3. CASE RxRecord
    BY <2>3 DEF RxRecord
  <2>4. CASE RxAddFirst \/ RxRemove
    BY <2>4, SizeAssumption DEF RxAddFirst, RxRemove
  <2>5. CASE RxAddLoops
    BY <2>5 DEF RxAddLoops
  <2>6. CASE RxFind
    <3>1. CASE list = <<>>
      BY <2>6, <3>1, SizeAssumption DEF RxFind
    <3>2. CASE list # <<>>
      <4>1. Head(list) \in Bufs
        BY <3>2, RxReaches
      <4> QED
        BY <2>6, <3>2, <4>1 DEF RxFind
    <3> QED
      BY <3>1, <3>2
  <2>7. CASE RxFound \/ RxCancel
    BY <2>7 DEF RxFound, RxCancel
  <2>8. CASE RxOn
    <3>1. CASE Behind(rxBuf) = <<>>
      BY <2>8, <3>1, SizeAssumption DEF RxOn
    <3>2. CASE Behind(rxBuf) # <<>>
      <4>1. Head(Behind(rxBuf)) \in Bufs
        BY <3>2, RxReaches
      <4> QED
        BY <2>8, <3>2, <4>1 DEF RxOn
    <3> QED
      BY <3>1, <3>2
  <2>9. CASE RxScanGone \/ RxRemoveGone
    BY <2>9 DEF RxScanGone, RxRemoveGone, rxVars
  <2> QED
    BY <1>2, <2>1, <2>2, <2>3, <2>4, <2>5, <2>6, <2>7, <2>8, <2>9 DEF RxStep
<1>3. CASE UNCHANGED <<sem, rxVars>>
  BY <1>3 DEF rxVars
<1>4. MdaStep \/ HistoryTimer \/ UNCHANGED vars => UNCHANGED <<sem, rxVars>>
  BY DEF MdaStep, TickEmpty, TickWaits, TickTakes, MdaSend, MdaAge, MdaAlone, HistoryTimer,
         vars
<1> QED
  BY <1>1, <1>2, <1>3, <1>4 DEF Next

LEMMA MdaStepOK == ASSUME MdaOK, ListOK, [Next]_vars PROVE MdaOK'
<1> USE DEF MdaOK
<1>1. CASE \E m \in Msgs, h \in Hops : RxFrame(m, h)
  BY <1>1 DEF RxFrame, RxAlone, mdaVars
<1>2. CASE RxStep
  BY <1>2 DEF RxStep, RxNotAhead, RxCreate, RxRecord, RxAddFirst, RxAddLoops, RxFind, RxFound,
              RxOn, RxScanGone, RxCancel, RxLeave, RxRemove, RxRemoveGone, RxAlone, mdaVars
<1>3. CASE MdaStep
  <2>1. CASE TickEmpty \/ TickWaits
    BY <2>1 DEF TickEmpty, TickWaits, NextRound, MdaAlone
  <2>2. CASE TickTakes
    BY <2>2, RxReaches DEF TickTakes, MdaAlone
  <2>3. CASE MdaSend
    BY <2>3 DEF MdaSend, MdaAlone
  <2>4. CASE MdaAge
    BY <2>4 DEF MdaAge, MdaAlone
  <2> QED
    BY <1>3, <2>1, <2>2, <2>3, <2>4 DEF MdaStep
<1>4. CASE HistoryTimer \/ UNCHANGED vars
  BY <1>4 DEF HistoryTimer, vars, mdaVars
<1> QED
  BY <1>1, <1>2, <1>3, <1>4 DEF Next

\* The steps that neither hand a buffer over nor release one.
LEMMA OwnersStay ==
  ASSUME [Next]_vars, ~RxCreate, ~RxAddFirst, ~RxRemove, ~TickTakes, ~MdaSend, MdaOK
  PROVE  /\ UNCHANGED <<bMsg, list, mdaBuf>>
         /\ \A b : RxOwns(b)' <=> RxOwns(b)
<1>1. UNCHANGED <<bMsg, list>>
  BY Frames
<1>2. mdaBuf' = mdaBuf
  <2>1. CASE UNCHANGED mdaVars
    BY <2>1 DEF mdaVars
  <2>2. CASE MdaStep
    BY <2>2 DEF MdaStep, TickEmpty, TickWaits, NextRound, MdaAge
  <2> QED
    BY <2>1, <2>2, Frames
<1>3. \A b : RxOwns(b)' <=> RxOwns(b)
  <2> USE DEF RxOwns
  <2>1. CASE UNCHANGED rxVars
    BY <2>1 DEF rxVars
  <2>2. CASE \E m \in Msgs, h \in Hops : RxFrame(m, h)
    BY <2>2 DEF RxFrame
  <2>3. CASE RxStep
    <3> USE DEF RxIdle
    <3>1. CASE RxNotAhead \/ RxLeave \/ RxFound \/ RxCancel
      BY <3>1 DEF RxNotAhead, RxLeave, RxFound, RxCancel
    <3>2. CASE RxRecord \/ RxAddLoops
      BY <3>2 DEF RxRecord, RxAddLoops
    <3>3. CASE RxFind
      BY <3>3 DEF RxFind
    <3>4. CASE RxOn
      BY <3>4 DEF RxOn
    <3>5. CASE RxScanGone \/ RxRemoveGone
      BY <3>5 DEF RxScanGone, RxRemoveGone, rxVars
    <3> QED
      BY <2>3, <3>1, <3>2, <3>3, <3>4, <3>5 DEF RxStep
  <2> QED
    BY <2>1, <2>2, <2>3, Frames
<1> QED
  BY <1>1, <1>2, <1>3

LEMMA OwnedStep ==
  ASSUME Owned, ListOK, BufOK, RxOK, MdaOK, [Next]_vars
  PROVE  Owned'
<1> SUFFICES ASSUME NEW b \in Bufs
             PROVE  /\ Free(b)' <=> ~RxOwns(b)' /\ b \notin Listed' /\ ~MdaOwns(b)'
                    /\ RxOwns(b)' => b \notin Listed' /\ ~MdaOwns(b)'
                    /\ MdaOwns(b)' => b \notin Listed'
  BY DEF Owned
<1>0. /\ Free(b) <=> ~RxOwns(b) /\ b \notin Listed /\ ~MdaOwns(b)
      /\ RxOwns(b) => b \notin Listed /\ ~MdaOwns(b)
      /\ MdaOwns(b) => b \notin Listed
  BY DEF Owned
<1>1. CASE ~RxCreate /\ ~RxAddFirst /\ ~RxRemove /\ ~TickTakes /\ ~MdaSend
  <2>1. UNCHANGED <<bMsg, list, mdaBuf>> /\ (RxOwns(b)' <=> RxOwns(b))
    BY <1>1, OwnersStay
  <2> QED
    BY <1>0, <2>1 DEF Free, Listed, MdaOwns
<1>2. CASE RxCreate
  <2>1. /\ rxBuf' \in Bufs /\ Free(rxBuf') /\ bMsg' = [bMsg EXCEPT ![rxBuf'] = rxMsg]
        /\ rxPc = "new" /\ rxPc' = "record" /\ list' = list /\ mdaBuf' = mdaBuf
    BY <1>2 DEF RxCreate, RxAlone, mdaVars
  <2>2. rxMsg # NoMsg
    BY <2>1, NamesAssumption DEF RxOK
  <2>3. ~RxOwns(b) /\ (RxOwns(b)' <=> b = rxBuf')
    BY <2>1 DEF RxOwns
  <2>4. Listed' = Listed /\ (MdaOwns(b)' <=> MdaOwns(b))
    BY <2>1 DEF Listed, MdaOwns
  <2>5. CASE b = rxBuf'
    <3>1. ~Free(b)'
      BY <2>1, <2>2, <2>5 DEF Free, BufOK
    <3> QED
      BY <1>0, <2>1, <2>3, <2>4, <2>5, <3>1
  <2>6. CASE b # rxBuf'
    <3>1. Free(b)' <=> Free(b)
      BY <2>1, <2>6 DEF Free, BufOK
    <3> QED
      BY <1>0, <2>3, <2>4, <2>6, <3>1
  <2> QED
    BY <2>5, <2>6
<1>3. CASE RxAddFirst
  <2>1. Listed' = Listed \cup {rxBuf} /\ rxPc = "add" /\ rxPc' = "idle"
    BY <1>3, ListSteps DEF RxAddFirst, RxIdle
  <2>2. bMsg' = bMsg /\ mdaBuf' = mdaBuf
    BY <1>3 DEF RxAddFirst, RxAlone, mdaVars
  <2>3. (RxOwns(b) <=> b = rxBuf) /\ ~RxOwns(b)'
    BY <2>1 DEF RxOwns
  <2> QED
    BY <1>0, <2>1, <2>2, <2>3 DEF Free, MdaOwns
<1>4. CASE RxRemove
  <2>1. /\ Listed' = Listed \ {rxBuf} /\ rxBuf \in Listed /\ rxBuf \in Bufs
        /\ rxPc = "remove" /\ rxPc' = "idle"
    BY <1>4, ListSteps DEF RxRemove, RxIdle
  <2>2. bMsg' = [bMsg EXCEPT ![rxBuf] = NoMsg] /\ mdaBuf' = mdaBuf
    BY <1>4 DEF RxRemove, Release, RxAlone, mdaVars
  <2>3. ~RxOwns(b) /\ ~RxOwns(b)'
    BY <2>1 DEF RxOwns
  <2>4. Free(b)' <=> Free(b) \/ b = rxBuf
    BY <2>1, <2>2 DEF Free, BufOK
  <2> QED
    BY <1>0, <2>1, <2>2, <2>3, <2>4 DEF MdaOwns
<1>5. CASE TickTakes
  <2>1. /\ Listed' = Listed \ {Head(list)} /\ Head(list) \in Listed
        /\ mdaBuf' = Head(list) /\ mdaPc = "idle" /\ bMsg' = bMsg
    BY <1>5, ListSteps DEF TickTakes
  <2>2. rxPc' = rxPc /\ rxBuf' = rxBuf
    BY <1>5 DEF TickTakes, MdaAlone, rxVars
  <2>3. ~MdaOwns(b)
    BY <2>1, NamesAssumption DEF MdaOwns, MdaOK
  <2>4. RxOwns(b)' <=> RxOwns(b)
    BY <2>2 DEF RxOwns
  <2> QED
    BY <1>0, <2>1, <2>3, <2>4 DEF Free, MdaOwns
<1>6. CASE MdaSend
  <2>1. /\ mdaBuf \in Bufs /\ mdaBuf' = NoBuf /\ list' = list
        /\ bMsg' = [bMsg EXCEPT ![mdaBuf] = NoMsg]
    BY <1>6 DEF MdaSend, MdaOK, Release
  <2>2. rxPc' = rxPc /\ rxBuf' = rxBuf
    BY <1>6 DEF MdaSend, MdaAlone, rxVars
  <2>3. ~MdaOwns(b)' /\ (MdaOwns(b) <=> b = mdaBuf)
    BY <2>1, NamesAssumption DEF MdaOwns
  <2>4. (RxOwns(b)' <=> RxOwns(b)) /\ Listed' = Listed
    BY <2>1, <2>2 DEF RxOwns, Listed
  <2>5. Free(b)' <=> Free(b) \/ b = mdaBuf
    BY <2>1 DEF Free, BufOK
  <2> QED
    BY <1>0, <2>3, <2>4, <2>5
<1> QED
  BY <1>1, <1>2, <1>3, <1>4, <1>5, <1>6

\* A record lives no longer than before, except the one that is entered.
LEMMA RecordsStay ==
  ASSUME RecOK, [Next]_vars, ~RxRecord
  PROVE  recMsg' = recMsg /\ \A i \in Slots : recLife'[i] > 0 => recLife[i] > 0
<1>1. CASE UNCHANGED recVars
  BY <1>1 DEF recVars
<1>2. CASE MdaAge
  <2>1. \A i \in Slots : recLife[i] \in Int
    BY DEF RecOK
  <2>2. /\ recMsg' = recMsg
        /\ \A i \in Slots : recLife'[i] = IF ageDue /\ recLife[i] > 0
                                            THEN recLife[i] - 1 ELSE recLife[i]
    BY <1>2 DEF MdaAge
  <2>3. ASSUME NEW i \in Slots, recLife'[i] > 0 PROVE recLife[i] > 0
    <3>1. CASE ageDue /\ recLife[i] > 0
      BY <3>1
    <3>2. CASE ~(ageDue /\ recLife[i] > 0)
      BY <2>2, <2>3, <3>2
    <3> QED
      BY <3>1, <3>2
  <2> QED
    BY <2>2, <2>3
<1> QED
  BY <1>1, <1>2, Frames

LEMMA FreshStep == ASSUME Fresh, RecOK, [Next]_vars PROVE Fresh'
<1> SUFFICES ASSUME rxPc' \in {"new", "record"} PROVE ~Recorded(rxMsg)'
  BY DEF Fresh
<1>1. ~RxRecord
  BY DEF RxRecord
<1>2. \A m : Recorded(m)' => Recorded(m)
  BY <1>1, RecordsStay DEF Recorded, Slots
<1>3. ~Recorded(rxMsg')
  <2>1. CASE UNCHANGED rxVars
    BY <2>1 DEF rxVars, Fresh
  <2>2. CASE \E m \in Msgs, h \in Hops : RxFrame(m, h)
    BY <2>2 DEF RxFrame
  <2>3. CASE RxStep
    <3>1. rxPc = "new" /\ rxMsg' = rxMsg
      BY <1>1, <2>3 DEF RxStep, RxNotAhead, RxCreate, RxAddFirst, RxAddLoops, RxFind, RxFound,
              RxOn, RxScanGone, RxCancel, RxLeave, RxRemove, RxRemoveGone, RxIdle, rxVars
    <3> QED
      BY <3>1 DEF Fresh
  <2> QED
    BY <2>1, <2>2, <2>3, Frames
<1> QED
  BY <1>2, <1>3 DEF Recorded

LEMMA OneRecordStep == ASSUME OneRecord, Fresh, RecOK, [Next]_vars PROVE OneRecord'
<1>1. CASE ~RxRecord
  BY <1>1, RecordsStay DEF OneRecord, Slots
<1>2. CASE RxRecord
  <2>1. /\ recMsg' = [recMsg EXCEPT ![Slot] = rxMsg] /\ rxPc = "record"
        /\ recLife' = [recLife EXCEPT ![Slot] = MaxHistLife]
    BY <1>2 DEF RxRecord
  <2>2. \A i \in Slots : recLife[i] > 0 => recMsg[i] # rxMsg
    BY <2>1 DEF Fresh, Recorded
  <2>3. \A i \in Slots : i # Slot => recMsg'[i] = recMsg[i] /\ recLife'[i] = recLife[i]
    BY <2>1 DEF RecOK
  <2>4. Slot \in Slots => recMsg'[Slot] = rxMsg
    BY <2>1 DEF RecOK
  <2> QED
    BY <2>2, <2>3, <2>4 DEF OneRecord, Slots
<1> QED
  BY <1>1, <1>2

\* Only what the list holds counts.
LEMMA SpacedSame ==
  ASSUME NEW q \in Seq(Bufs), NEW b, NEW u, NEW w, Spaced(w, q, b, u), NEW b2, NEW u2,
         \A y \in Elements(q) : b2[y] = b[y] /\ u2[y] = u[y]
  PROVE  Spaced(w, q, b2, u2)
<1>1. Len(q) \in Nat /\ \A i \in 1 .. Len(q) : q[i] \in Elements(q)
  BY DEF Elements
<1>2. \A i \in 1 .. Len(q) : b2[q[i]] = b[q[i]] /\ u2[q[i]] = u[q[i]]
  BY <1>1
<1>3. /\ Len(q) > 0 => 1 \in 1 .. Len(q)
      /\ \A i \in 1 .. Len(q) - 1 : i + 1 \in 1 .. Len(q)
  BY <1>1
<1>4. Covers(w, q, b) /\ Soon(w, q, u) /\ Apart(w, q) /\ w \in [1 .. Len(q) -> Int]
  BY DEF Spaced
<1>5. Covers(w, q, b2)
  BY <1>2, <1>3, <1>4 DEF Covers
<1>6. Soon(w, q, u2)
  BY <1>2, <1>4 DEF Soon
<1> QED
  BY <1>4, <1>5, <1>6 DEF Spaced

\* Every waiting frame has a tick left.
LEMMA SomeTimeLeft ==
  ASSUME ListOK, BufOK, OnTime
  PROVE  \A b \in Listed : b \in Bufs /\ due[b] \in Int /\ due[b] > 0
<1> SUFFICES ASSUME NEW i \in DOMAIN list
             PROVE  list[i] \in Bufs /\ due[list[i]] \in Int /\ due[list[i]] > 0
  BY DEF Listed
<1>1. list \in Seq(Bufs) /\ i \in 1 .. Len(list) /\ Len(list) \in Nat /\ list[i] \in Bufs
  BY DEF ListOK
<1>2. PICK w : Spaced(w, list, bDelay, due)
  BY DEF OnTime
<1>3. w[i] \in Int /\ i <= w[i] /\ w[i] <= due[list[i]]
  BY <1>1, <1>2 DEF Spaced, Soon
<1>4. due[list[i]] \in Int
  BY <1>1 DEF BufOK, Ticks
<1> QED
  BY <1>1, <1>3, <1>4

LEMMA OnTimeAdd ==
  ASSUME ListOK, BufOK, RxOK, Owned, OnTime, BufOK', RxAddFirst
  PROVE  OnTime'
<1> DEFINE c == IF rxDelay = 0 THEN 1 ELSE 0
<1>1. /\ rxBuf \in Bufs /\ rxBuf \notin Listed /\ list' \in Seq(Bufs)
      /\ Follows(list, rxBuf, list') /\ Once(list') /\ list \in Seq(Bufs)
  BY ListSteps DEF ListOK
<1>2. /\ Ticks(bDelay) /\ Ticks(due) /\ Ticks(bDelay') /\ Ticks(due')
      /\ \A b \in Bufs : due[b] \in Int /\ due[b] >= 0
  BY DEF BufOK, Ticks, OnTime
<1>3. rxDelay \in 0 .. MaxDelay /\ c \in 0 .. 1 /\ rxDelay + c >= 1
  BY SizeAssumption DEF RxOK
<1>4. /\ bDelay' = [b \in Bufs |-> IF b = rxBuf THEN rxDelay
                                   ELSE IF b \in Listed THEN bDelay[b] - rxDelay
                                   ELSE bDelay[b]]
      /\ due' = [b \in Bufs |-> IF b = rxBuf /\ rxDelay > 0 THEN rxDelay
                                ELSE IF b = rxBuf \/ (b \in Listed /\ rxDelay = 0)
                                       THEN Longer(due[b])
                                ELSE due[b]]
  BY DEF RxAddFirst
<1>5. Len(list) > 0 => rxDelay < bDelay[list[1]]
  <2>1. list # <<>> => rxDelay < bDelay[Head(list)]
    BY DEF RxAddFirst
  <2>2. Len(list) > 0 => list # <<>> /\ Head(list) = list[1]
    BY <1>1, HeadTailProperties
  <2> QED
    BY <2>1, <2>2
<1>6. PICK w : Spaced(w, list, bDelay, due)
  BY DEF OnTime
<1>7. \A i \in 1 .. Len(list) : list[i] \in Bufs /\ list[i] \in Listed /\ list[i] # rxBuf
  BY <1>1 DEF Listed
<1>8. bDelay'[rxBuf] = rxDelay /\ Reduced(list, bDelay, bDelay', rxDelay)
  BY <1>1, <1>4, <1>7 DEF Reduced
<1>9. MaxDelay \in Nat /\ Cardinality(Bufs) \in Nat /\ Len(list) + 1 <= Cardinality(Bufs)
  <2>1. Len(list') <= Cardinality(Bufs) /\ Cardinality(Bufs) \in Nat
    BY <1>1, BufsAssumption, LenBound
  <2> QED
    BY <1>1, <2>1, SizeAssumption DEF Follows
<1>10. due'[rxBuf] >= rxDelay + c
  <2>1. CASE rxDelay = 0
    <3>1. due'[rxBuf] = Longer(due[rxBuf])
      BY <1>1, <1>4, <2>1
    <3>2. Len(list) \in Nat /\ 0 < MaxDelay + Cardinality(Bufs)
      BY <1>1, <1>9
    <3>3. due[rxBuf] \in Int /\ 0 <= due[rxBuf] /\ 0 \in Int
      BY <1>1, <1>2
    <3>4. Longer(due[rxBuf]) >= 0 + 1
      BY ONLY <3>2, <3>3, MoreTime
    <3> QED
      BY <2>1, <3>1, <3>4
  <2>2. CASE rxDelay # 0
    <3>1. due'[rxBuf] = rxDelay
      BY <1>1, <1>3, <1>4, <2>2
    <3> QED
      BY <1>3, <2>2, <3>1
  <2> QED
    BY <2>1, <2>2
<1>11. LeftFor(list, w, due', c)
  <2> SUFFICES ASSUME NEW i \in 1 .. Len(list) PROVE due'[list[i]] >= w[i] + c
    BY DEF LeftFor
  <2>1. /\ w[i] \in Int /\ w[i] <= due[list[i]] /\ w[i] <= MaxDelay + i
        /\ i \in Nat /\ i <= Len(list) /\ Len(list) \in Nat
    BY <1>1, <1>6 DEF Spaced, Soon
  <2>2. list[i] \in Bufs /\ list[i] \in Listed /\ list[i] # rxBuf /\ due[list[i]] \in Int
    BY <1>2, <1>7
  <2>3. CASE rxDelay = 0
    <3>1. due'[list[i]] = Longer(due[list[i]])
      BY <1>4, <2>2, <2>3
    <3>2. w[i] < MaxDelay + Cardinality(Bufs)
      BY <1>9, <2>1
    <3>3. Longer(due[list[i]]) >= w[i] + 1
      BY <2>1, <2>2, <3>2, MoreTime
    <3> QED
      BY <2>3, <3>1, <3>3
  <2>4. CASE rxDelay # 0
    <3>1. due'[list[i]] = due[list[i]]
      BY <1>4, <2>2, <2>4
    <3> QED
      BY <2>1, <2>2, <2>4, <3>1
  <2> QED
    BY <2>3, <2>4
<1> HIDE DEF c
<1>12. \E w2 : Spaced(w2, list', bDelay', due')
  BY <1>1, <1>2, <1>3, <1>5, <1>6, <1>8, <1>10, <1>11, SpacedAdded
<1>13. ASSUME NEW b \in Bufs PROVE due'[b] >= 0
  <2>1. due[b] \in Int /\ due[b] >= 0 /\ Longer(due[b]) \in Int /\ Longer(due[b]) >= due[b]
    BY <1>2, MoreTime
  <2>2. rxDelay >= 0
    BY <1>3
  <2>3. due'[b] \in {rxDelay, due[b], Longer(due[b])}
    BY <1>4
  <2>4. Longer(due[b]) >= 0
    BY <2>1
  <2> QED
    BY <2>1, <2>2, <2>3, <2>4
<1> QED
  BY <1>12, <1>13 DEF OnTime

LEMMA OnTimeRemove ==
  ASSUME ListOK, BufOK, RxOK, Owned, OnTime, BufOK', RxRemove
  PROVE  OnTime'
<1> DEFINE k == PlaceOf(rxBuf)
<1>1. /\ rxBuf \in Bufs /\ k \in 1 .. Len(list) /\ list[k] = rxBuf
      /\ Skips(list, k, list') /\ list \in Seq(Bufs) /\ Once(list)
  BY ListSteps DEF ListOK
<1>2. /\ Ticks(bDelay) /\ Ticks(due) /\ Ticks(bDelay') /\ Ticks(due')
      /\ \A b \in Bufs : due[b] \in Int /\ due[b] >= 0
  BY DEF BufOK, Ticks, OnTime
<1>3. /\ bDelay' = [bDelay EXCEPT ![rxBuf] = 0] /\ due' = [due EXCEPT ![rxBuf] = 0]
  BY DEF RxRemove, Release
<1> HIDE DEF k
<1>4. \A i \in 1 .. Len(list) : list[i] \in Bufs /\ (i # k => list[i] # rxBuf)
  BY <1>1 DEF Once
<1>5. ASSUME NEW i \in 1 .. Len(list), i # k
      PROVE  bDelay'[list[i]] = bDelay[list[i]] /\ due'[list[i]] = due[list[i]]
  BY <1>2, <1>3, <1>4, <1>5 DEF Ticks
<1>6. Kept(list, k, bDelay, bDelay')
  BY <1>5 DEF Kept
<1>7. LeftBut(list, k, due, due')
  <2>1. ASSUME NEW i \in 1 .. Len(list), i < k PROVE due'[list[i]] = due[list[i]]
    <3>1. i # k
      BY <1>1, <2>1
    <3> QED
      BY <1>5, <3>1
  <2>2. ASSUME NEW i \in 1 .. Len(list), i > k PROVE due'[list[i]] >= due[list[i]] - 1
    <3>1. i # k
      BY <1>1, <2>2
    <3>2. due'[list[i]] = due[list[i]] /\ due[list[i]] \in Int
      BY <1>2, <1>4, <1>5, <3>1
    <3> QED
      BY <3>2
  <2> QED
    BY <2>1, <2>2 DEF LeftBut
<1>8. PICK w : Spaced(w, list, bDelay, due)
  BY DEF OnTime
<1>9. \E w2 : Spaced(w2, list', bDelay', due')
  BY <1>1, <1>2, <1>6, <1>7, <1>8, SpacedWithout
<1>10. \A b \in Bufs : due'[b] >= 0
  BY <1>2, <1>3
<1> QED
  BY <1>9, <1>10 DEF OnTime

LEMMA OnTimeTaken ==
  ASSUME ListOK, BufOK, RxOK, Owned, OnTime, BufOK', TickTakes
  PROVE  OnTime'
<1>1. /\ Head(list) = list[1] /\ 1 \in 1 .. Len(list) /\ Head(list) \in Listed
      /\ Skips(list, 1, list') /\ list \in Seq(Bufs) /\ Once(list)
  BY ListSteps DEF ListOK
<1>2. /\ Ticks(bDelay) /\ Ticks(due) /\ Ticks(bDelay') /\ Ticks(due')
      /\ \A b \in Bufs : due[b] \in Int /\ due[b] >= 0
  BY DEF BufOK, Ticks, OnTime
<1>3. /\ bDelay' = [bDelay EXCEPT ![list[1]] = @ - 1]
      /\ due' = [b \in Bufs |-> IF b \in Listed THEN due[b] - 1 ELSE due[b]]
  BY <1>1 DEF TickTakes, Ticked
<1>4. \A i \in 1 .. Len(list) : list[i] \in Bufs /\ list[i] \in Listed /\ (i # 1 => list[i] # list[1])
  BY <1>1 DEF Once, Listed
<1>5. Kept(list, 1, bDelay, bDelay')
  BY <1>2, <1>3, <1>4 DEF Kept, Ticks
<1>6. LeftBut(list, 1, due, due')
  <2>1. \A i \in 1 .. Len(list) : ~(i < 1)
    BY <1>1
  <2>2. ASSUME NEW i \in 1 .. Len(list) PROVE due'[list[i]] >= due[list[i]] - 1
    <3>1. due'[list[i]] = due[list[i]] - 1 /\ due[list[i]] \in Int
      BY <1>2, <1>3, <1>4
    <3> QED
      BY <3>1
  <2> QED
    BY <2>1, <2>2 DEF LeftBut
<1>7. PICK w : Spaced(w, list, bDelay, due)
  BY DEF OnTime
<1>8. \E w2 : Spaced(w2, list', bDelay', due')
  BY <1>1, <1>2, <1>5, <1>6, <1>7, SpacedWithout
<1>9. ASSUME NEW b \in Bufs PROVE due'[b] >= 0
  <2>1. CASE b \in Listed
    <3>1. due[b] > 0 /\ due[b] \in Int /\ due'[b] = due[b] - 1
      BY <1>3, <2>1, SomeTimeLeft
    <3> QED
      BY <3>1
  <2>2. CASE b \notin Listed
    BY <1>2, <1>3, <2>2
  <2> QED
    BY <2>1, <2>2
<1> QED
  BY <1>8, <1>9 DEF OnTime

LEMMA OnTimeWaits ==
  ASSUME ListOK, BufOK, OnTime, BufOK', TickWaits
  PROVE  OnTime'
<1>1. /\ Head(list) = list[1] /\ 1 \in 1 .. Len(list) /\ Len(list) > 0
      /\ list' = list /\ list \in Seq(Bufs) /\ Once(list)
  <2>1. list # <<>> /\ list' = list
    BY DEF TickWaits
  <2> QED
    BY <2>1, Taken DEF ListOK
<1>2. /\ Ticks(bDelay) /\ Ticks(due) /\ Ticks(bDelay') /\ Ticks(due')
      /\ \A b \in Bufs : due[b] \in Int /\ due[b] >= 0
  BY DEF BufOK, Ticks, OnTime
<1>3. /\ bDelay' = [bDelay EXCEPT ![list[1]] = @ - 1] /\ bDelay[list[1]] - 1 > 0
      /\ due' = [b \in Bufs |-> IF b \in Listed THEN due[b] - 1 ELSE due[b]]
  BY <1>1 DEF TickWaits, Ticked
<1>4. \A i \in 1 .. Len(list) : list[i] \in Bufs /\ list[i] \in Listed
  BY <1>1 DEF Listed
<1>5. Reduced(list, due, due', 1)
  BY <1>3, <1>4 DEF Reduced
<1>6. PICK w : Spaced(w, list, bDelay, due)
  BY DEF OnTime
<1>7. \E w2 : Spaced(w2, list, bDelay', due')
  BY <1>1, <1>2, <1>3, <1>5, <1>6, SpacedTicked
<1>8. ASSUME NEW b \in Bufs PROVE due'[b] >= 0
  <2>1. CASE b \in Listed
    <3>1. due[b] > 0 /\ due[b] \in Int /\ due'[b] = due[b] - 1
      BY <1>3, <2>1, SomeTimeLeft
    <3> QED
      BY <3>1
  <2>2. CASE b \notin Listed
    BY <1>2, <1>3, <2>2
  <2> QED
    BY <2>1, <2>2
<1> QED
  BY <1>1, <1>7, <1>8 DEF OnTime

LEMMA OnTimeStep ==
  ASSUME ListOK, BufOK, RxOK, MdaOK, Owned, OnTime, BufOK', [Next]_vars
  PROVE  OnTime'
<1>1. CASE UNCHANGED <<list, bDelay, due>>
  BY <1>1 DEF OnTime
<1>2. CASE RxAddFirst \/ RxRemove \/ TickTakes \/ TickWaits
  BY <1>2, OnTimeAdd, OnTimeRemove, OnTimeTaken, OnTimeWaits
<1>3. CASE MdaSend
  <2>1. /\ list' = list /\ mdaBuf \in Bufs /\ mdaBuf \notin Listed /\ list \in Seq(Bufs)
        /\ bDelay' = [bDelay EXCEPT ![mdaBuf] = 0] /\ due' = [due EXCEPT ![mdaBuf] = 0]
    BY <1>3 DEF MdaSend, Release, MdaOK, Owned, MdaOwns, ListOK
  <2>2. bDelay \in [Bufs -> Int] /\ due \in [Bufs -> Int]
    BY DEF BufOK, Ticks
  <2>3. \A y \in Elements(list) : y \in Bufs /\ y # mdaBuf
    BY <2>1 DEF Elements, Listed
  <2>4. \A y \in Elements(list) : bDelay'[y] = bDelay[y] /\ due'[y] = due[y]
    BY <2>1, <2>2, <2>3
  <2>5. PICK w : Spaced(w, list, bDelay, due)
    BY DEF OnTime
  <2>6. Spaced(w, list, bDelay', due')
    <3>1. list \in Seq(Bufs)
      BY <2>1
    <3> QED
      BY ONLY <3>1, <2>4, <2>5, SpacedSame, Zenon
  <2>7. \A b \in Bufs : due'[b] >= 0
    BY <2>1, <2>2 DEF OnTime
  <2> QED
    BY <2>1, <2>6, <2>7 DEF OnTime
<1> QED
  BY <1>1, <1>2, <1>3, Frames
-----------------------------------------------------------------------------
(***************************************************************************)
(* The theorems.                                                           *)
(***************************************************************************)
LEMMA MdaStart == Init => MdaInv
<1> SUFFICES ASSUME Init PROVE MdaInv
  OBVIOUS
<1> USE DEF Init
<1>1. RecOK
  BY SizeAssumption DEF RecOK, Slots
<1>2. MdaOK /\ RxOK
  <2>1. 0 \in 0 .. MaxDelay /\ 0 \in 0 .. 255
    BY SizeAssumption
  <2> QED
    BY <2>1 DEF MdaOK, RxOK
<1>3. ListOK /\ BufOK /\ Listed = {}
  BY DEF ListOK, BufOK, Once, Ticks, Listed
<1>4. Owned
  BY <1>3, NamesAssumption DEF Owned, Free, RxOwns, MdaOwns
<1>5. Fresh /\ OneRecord
  BY DEF Fresh, OneRecord, Slots
<1>6. OnTime
  <2>1. Len(list) = 0 /\ 1 .. 0 = {} /\ 1 .. 0 - 1 = {}
    OBVIOUS
  <2>2. Spaced([i \in 1 .. 0 |-> 0], list, bDelay, due)
    BY <2>1 DEF Spaced, Soon, Apart, Covers
  <2> QED
    BY <2>2 DEF OnTime
<1> QED
  BY <1>1, <1>2, <1>3, <1>4, <1>5, <1>6 DEF MdaInv

\* The invariant of both threads.
THEOREM MdaInvariant == Spec => []MdaInv
<1>1. MdaInv /\ [Next]_vars => MdaInv'
  <2> SUFFICES ASSUME MdaInv, [Next]_vars PROVE MdaInv'
    OBVIOUS
  <2>1. /\ RecOK /\ ListOK /\ BufOK /\ RxOK /\ MdaOK
        /\ Owned /\ Fresh /\ OneRecord /\ OnTime
    BY DEF MdaInv
  <2>2. RecOK' /\ ListOK' /\ BufOK' /\ RxOK' /\ MdaOK'
    BY <2>1, RecStep, ListStep, BufStep, RxStepOK, MdaStepOK
  <2>3. Owned' /\ Fresh' /\ OneRecord' /\ OnTime'
    BY <2>1, <2>2, OwnedStep, FreshStep, OneRecordStep, OnTimeStep
  <2> QED
    BY <2>2, <2>3 DEF MdaInv
<1> QED
  BY <1>1, MdaStart, PTL DEF Spec

\* The variables have their types, and no buffer is on the list twice.
THEOREM TypeCorrect == Spec => []TypeOK
<1>1. MdaInv => TypeOK
  BY PartsType DEF MdaInv
<1> QED
  BY <1>1, MdaInvariant, PTL

\* Who owns a buffer, counted.
LEMMA OwnersCounted ==
  ASSUME NEW r \in BOOLEAN, NEW l \in BOOLEAN, NEW m \in BOOLEAN,
         NEW owners, owners = { o \in {"rx", "list", "mda"} :
                                  \/ o = "rx" /\ r
                                  \/ o = "list" /\ l
                                  \/ o = "mda" /\ m }
  PROVE  /\ ~r /\ ~l /\ ~m => Cardinality(owners) = 0
         /\ r /\ ~l /\ ~m => Cardinality(owners) = 1
         /\ ~r /\ l /\ ~m => Cardinality(owners) = 1
         /\ ~r /\ ~l /\ m => Cardinality(owners) = 1
<1>1. CASE ~r /\ ~l /\ ~m
  <2>1. owners = {}
    BY <1>1
  <2> QED
    BY <1>1, <2>1, FS_EmptySet
<1>2. CASE r /\ ~l /\ ~m
  <2>1. "rx" \in owners
    BY <1>2, Zenon
  <2>2. \A o \in owners : o = "rx"
    BY <1>2
  <2>3. owners = {"rx"}
    BY <2>1, <2>2
  <2> QED
    BY <1>2, <2>3, FS_Singleton
<1>3. CASE ~r /\ l /\ ~m
  <2>1. "list" \in owners
    BY <1>3, Zenon
  <2>2. \A o \in owners : o = "list"
    BY <1>3
  <2>3. owners = {"list"}
    BY <2>1, <2>2
  <2> QED
    BY <1>3, <2>3, FS_Singleton
<1>4. CASE ~r /\ ~l /\ m
  <2>1. "mda" \in owners
    BY <1>4, Zenon
  <2>2. \A o \in owners : o = "mda"
    BY <1>4
  <2>3. owners = {"mda"}
    BY <2>1, <2>2
  <2> QED
    BY <1>4, <2>3, FS_Singleton
<1> QED
  BY <1>1, <1>2, <1>3, <1>4

\* A buffer has one owner until it is released, and none is lost: the receive
\* thread, the list and the mda thread hand it on (MdaForward!OneOwner).
THEOREM OneOwnerPerBuffer == Spec => []OneOwner
<1>1. MdaInv => OneOwner
  <2> SUFFICES ASSUME MdaInv, NEW b \in Bufs
               PROVE  Cardinality({ o \in {"rx", "list", "mda"} :
                                      \/ o = "rx" /\ RxOwns(b)
                                      \/ o = "list" /\ b \in Listed
                                      \/ o = "mda" /\ MdaOwns(b) })
                        = IF Free(b) THEN 0 ELSE 1
    BY DEF OneOwner
  <2> DEFINE owners == { o \in {"rx", "list", "mda"} :
                           \/ o = "rx" /\ RxOwns(b)
                           \/ o = "list" /\ b \in Listed
                           \/ o = "mda" /\ MdaOwns(b) }
  <2>1. /\ RxOwns(b) \in BOOLEAN /\ (b \in Listed) \in BOOLEAN /\ MdaOwns(b) \in BOOLEAN
        /\ Free(b) \in BOOLEAN
    BY DEF RxOwns, MdaOwns, Free
  <2>2. /\ Free(b) <=> ~RxOwns(b) /\ b \notin Listed /\ ~MdaOwns(b)
        /\ RxOwns(b) => b \notin Listed /\ ~MdaOwns(b)
        /\ MdaOwns(b) => b \notin Listed
    BY DEF MdaInv, Owned
  <2>3. /\ ~RxOwns(b) /\ b \notin Listed /\ ~MdaOwns(b) => Cardinality(owners) = 0
        /\ RxOwns(b) /\ b \notin Listed /\ ~MdaOwns(b) => Cardinality(owners) = 1
        /\ ~RxOwns(b) /\ b \in Listed /\ ~MdaOwns(b) => Cardinality(owners) = 1
        /\ ~RxOwns(b) /\ b \notin Listed /\ MdaOwns(b) => Cardinality(owners) = 1
    BY <2>1, OwnersCounted
  <2> HIDE DEF owners
  <2>4. CASE Free(b)
    <3>1. Cardinality(owners) = 0
      BY <2>2, <2>3, <2>4
    <3> QED
      BY <2>4, <3>1 DEF owners
  <2>5. CASE ~Free(b)
    <3>1. Cardinality(owners) = 1
      <4>1. CASE RxOwns(b)
        BY <2>2, <2>3, <4>1
      <4>2. CASE b \in Listed
        BY <2>2, <2>3, <4>2
      <4>3. CASE MdaOwns(b)
        BY <2>2, <2>3, <4>3
      <4> QED
        BY <2>2, <2>5, <4>1, <4>2, <4>3
    <3> QED
      BY <2>5, <3>1 DEF owners
  <2> QED
    BY <2>4, <2>5
<1> QED
  BY <1>1, MdaInvariant, PTL

\* A frame has one live record, although records are aged between the search
\* and the entry (MdaForward!OneRecord).
THEOREM RecordsUnique == Spec => []OneRecord
<1>1. MdaInv => OneRecord
  BY DEF MdaInv
<1> QED
  BY <1>1, MdaInvariant, PTL

\* No waiting frame is late: the increments of forward_waiting_list keep the
\* delays, whatever is put before a frame or taken away (MdaForward!NeverLate).
THEOREM FramesOnTime == Spec => []NeverLate
<1>1. MdaInv => NeverLate
  BY SomeTimeLeft DEF MdaInv, NeverLate
<1> QED
  BY <1>1, MdaInvariant, PTL
=============================================================================
