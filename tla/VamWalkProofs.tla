---------------------------- MODULE VamWalkProofs ----------------------------
(***************************************************************************)
(* NoRecordLost of VamNeighbour, for any number of records: what a walk    *)
(* along the links meets.  The walk is a function defined by recursion on  *)
(* its steps; that it exists, and what it meets, is shown with the least   *)
(* step that would be an exception.                                        *)
(***************************************************************************)
EXTENDS VamNeighbourProofs, WellFoundedInduction

\* A set of numbers has a least one.
LEMMA LeastNumber ==
  ASSUME NEW T, T \subseteq Nat, T # {}
  PROVE  \E x \in T : \A y \in T : x <= y
<1>1. PICK x \in T : \A y \in T : ~(<<y, x>> \in OpToRel(<, Nat))
  BY NatLessThanWellFounded, WFMin
<1>2. \A y \in T : ~(y < x)
  BY <1>1 DEF OpToRel
<1> QED
  BY <1>2

\* f takes steps along nxt, from h's successor.
Steps(f, h, n) ==
  /\ f \in [0 .. n -> Cells]
  /\ f[0] = nxt[h]
  /\ \A i \in 1 .. n : f[i] = nxt[f[i - 1]]

\* Steps can always be taken.
LEMMA StepsExist ==
  ASSUME nxt \in [Cells -> Cells], NEW h \in Cells, NEW n \in Nat
  PROVE  \E f : Steps(f, h, n)
<1> DEFINE T == { k \in Nat : ~ \E f : Steps(f, h, k) }
<1> SUFFICES ASSUME T # {} PROVE FALSE
  OBVIOUS
<1>1. PICK m \in T : \A k \in T : m <= k
  BY LeastNumber
<1>2. m \in Nat
  OBVIOUS
<1>3. CASE m = 0
  <2>1. Steps([i \in 0 .. 0 |-> nxt[h]], h, 0)
    BY DEF Steps
  <2> QED
    BY <1>3, <2>1
<1>4. CASE m # 0
  <2>1. m - 1 \in Nat /\ ~(m <= m - 1)
    BY <1>2, <1>4
  <2>2. PICK f : Steps(f, h, m - 1)
    BY <1>1, <2>1
  <2> DEFINE g == [i \in 0 .. m |-> IF i <= m - 1 THEN f[i] ELSE nxt[f[m - 1]]]
  <2>3. /\ f \in [0 .. m - 1 -> Cells] /\ f[0] = nxt[h]
        /\ \A i \in 1 .. m - 1 : f[i] = nxt[f[i - 1]]
    BY <2>2 DEF Steps
  <2>4. m - 1 \in 0 .. m - 1 /\ \A i \in 0 .. m : i <= m - 1 => i \in 0 .. m - 1
    BY <1>2, <2>1
  <2>5. g \in [0 .. m -> Cells]
    BY <2>3, <2>4
  <2>6. g[0] = nxt[h]
    BY <1>2, <2>1, <2>3
  <2>7. ASSUME NEW i \in 1 .. m PROVE g[i] = nxt[g[i - 1]]
    <3>1. i \in 0 .. m /\ i - 1 \in 0 .. m /\ i - 1 <= m - 1 /\ i \in Int
      BY <1>2
    <3>2. g[i - 1] = f[i - 1]
      BY <3>1
    <3>3. CASE i <= m - 1
      <4>1. i \in 1 .. m - 1 /\ g[i] = f[i]
        BY <1>2, <3>1, <3>3
      <4> QED
        BY <2>3, <3>2, <4>1
    <3>4. CASE ~(i <= m - 1)
      <4>1. i - 1 = m - 1
        BY <1>2, <3>1, <3>4
      <4>2. g[i] = nxt[f[m - 1]]
        BY <3>1, <3>4
      <4> QED
        BY <3>2, <4>1, <4>2
    <3> QED
      BY <3>3, <3>4
  <2> HIDE DEF g
  <2>8. Steps(g, h, m)
    BY <2>5, <2>6, <2>7 DEF Steps
  <2> QED
    BY <2>8
<1> QED
  BY <1>3, <1>4

\* Walk is about such steps.
LEMMA WalkSteps ==
  ASSUME nxt \in [Cells -> Cells], NEW h \in Cells, Cardinality(Cells) \in Nat
  PROVE  \E f : /\ Steps(f, h, Cardinality(Cells))
                /\ Walk(h) = { f[i] : i \in { j \in 0 .. Cardinality(Cells) :
                                                 \A k \in 0 .. j : f[k] # h } }
<1> DEFINE at[i \in 0 .. Cardinality(Cells)] == IF i = 0 THEN nxt[h] ELSE nxt[at[i - 1]]
           N == Cardinality(Cells)
           Recursive(f) == f = [i \in 0 .. N |-> IF i = 0 THEN nxt[h] ELSE nxt[f[i - 1]]]
<1>1. PICK f : Steps(f, h, N)
  BY StepsExist
<1>2. Recursive(f)
  <2>1. f \in [0 .. N -> Cells] /\ f[0] = nxt[h] /\ \A i \in 1 .. N : f[i] = nxt[f[i - 1]]
    BY <1>1 DEF Steps
  <2>2. \A i \in 0 .. N : i = 0 \/ i \in 1 .. N
    OBVIOUS
  <2>3. \A i \in 0 .. N : f[i] = IF i = 0 THEN nxt[h] ELSE nxt[f[i - 1]]
    BY <2>1, <2>2
  <2> QED
    BY <2>1, <2>3
<1>3. Recursive(at)
  BY <1>2 DEF at
<1>4. Walk(h) = { at[i] : i \in { j \in DOMAIN at : \A k \in 0 .. j : at[k] # h } }
  BY DEF Walk, at
<1> HIDE DEF at
<1>5. DOMAIN at = 0 .. N /\ at[0] = nxt[h] /\ \A i \in 1 .. N : at[i] = nxt[at[i - 1]]
  BY <1>3
<1>6. ASSUME NEW j \in 0 .. N PROVE at[j] \in Cells
  <2> DEFINE T == { k \in 0 .. N : at[k] \notin Cells }
  <2> SUFFICES ASSUME T # {} PROVE FALSE
    OBVIOUS
  <2>1. T \subseteq Nat
    OBVIOUS
  <2>2. PICK m \in T : \A k \in T : m <= k
    BY <2>1, LeastNumber
  <2>3. m \in 0 .. N /\ at[m] \notin Cells
    OBVIOUS
  <2>4. m # 0
    BY <1>5, <2>3
  <2>5. m \in 1 .. N /\ m - 1 \in 0 .. N /\ ~(m <= m - 1)
    BY <2>3, <2>4
  <2>6. m - 1 \notin T
    BY <2>2, <2>5
  <2>7. at[m - 1] \in Cells
    BY <2>5, <2>6
  <2> QED
    BY <1>5, <2>3, <2>5, <2>7
<1>7. \A j \in 0 .. N : at[j] = IF j = 0 THEN nxt[h] ELSE nxt[at[j - 1]]
  BY <1>3
<1>8. at \in [0 .. N -> Cells]
  BY <1>3, <1>6
<1>9. Steps(at, h, N)
  BY <1>5, <1>8 DEF Steps
<1>10. Walk(h) = { at[i] : i \in { j \in 0 .. N : \A k \in 0 .. j : at[k] # h } }
  BY <1>4, <1>5
<1> QED
  BY <1>9, <1>10

\* Steps from the head of a list stay on that list.
LEMMA StepsStay ==
  ASSUME ListTypeOK, WellLinked, NEW h \in {NH, FH}, NEW N \in Nat,
         NEW f, Steps(f, h, N), NEW j \in 0 .. N
  PROVE  HomeOf(f[j]) = h
<1> DEFINE T == { k \in 0 .. N : HomeOf(f[k]) # h }
<1> SUFFICES ASSUME T # {} PROVE FALSE
  OBVIOUS
<1>1. T \subseteq Nat
  OBVIOUS
<1>2. PICK m \in T : \A k \in T : m <= k
  BY <1>1, LeastNumber
<1>3. m \in 0 .. N /\ HomeOf(f[m]) # h
  OBVIOUS
<1>4. /\ f \in [0 .. N -> Cells] /\ f[0] = nxt[h]
      /\ \A i \in 1 .. N : f[i] = nxt[f[i - 1]]
  BY DEF Steps
<1>5. h \in Cells /\ HomeOf(h) = h
  BY NodesAssumption DEF Cells, HomeOf
<1>6. HomeOf(f[0]) = h
  BY <1>4, <1>5 DEF WellLinked
<1>7. m \in 1 .. N /\ m - 1 \in 0 .. N /\ ~(m <= m - 1)
  BY <1>3, <1>6
<1>8. m - 1 \notin T
  BY <1>2, <1>7
<1>9. HomeOf(f[m - 1]) = h /\ f[m - 1] \in Cells
  BY <1>4, <1>7, <1>8
<1>10. f[m] = nxt[f[m - 1]]
  BY <1>4, <1>7
<1> QED
  BY <1>3, <1>9, <1>10 DEF WellLinked

\* As long as they have not met record m of the list, steps from its head
\* climb through the ranks below m.
Climbs(f, r, m, j) ==
  /\ f[j] \in Nodes /\ r[f[j]] < r[m]
  /\ j # 0 => r[f[j - 1]] < r[f[j]]

LEMMA StepsClimb ==
  ASSUME ListTypeOK, WellLinked, NEW h \in {NH, FH}, NEW N \in Nat,
         NEW f, Steps(f, h, N), NEW r, Ranked(r), NEW m \in Nodes, home[m] = h,
         ~ \E i \in 0 .. N : f[i] = m /\ \A k \in 0 .. i : f[k] # h,
         NEW j \in 0 .. N
  PROVE  Climbs(f, r, m, j)
<1> DEFINE T == { k \in 0 .. N : ~Climbs(f, r, m, k) }
<1> SUFFICES ASSUME T # {} PROVE FALSE
  OBVIOUS
<1>1. T \subseteq Nat
  OBVIOUS
<1>2. PICK x \in T : \A k \in T : x <= k
  BY <1>1, LeastNumber
<1>3. x \in 0 .. N /\ ~Climbs(f, r, m, x)
  OBVIOUS
<1>4. /\ f \in [0 .. N -> Cells] /\ f[0] = nxt[h]
      /\ \A i \in 1 .. N : f[i] = nxt[f[i - 1]]
  BY DEF Steps
<1>5. h \notin Nodes
  BY NodesAssumption
<1>6. ASSUME NEW k \in 0 .. N, k < x PROVE Climbs(f, r, m, k)
  <2>1. k \notin T
    BY <1>1, <1>2, <1>3, <1>6
  <2> QED
    BY <2>1
<1>7. ASSUME NEW k \in 0 .. N, k < x PROVE f[k] \in Nodes
  BY <1>6, <1>7 DEF Climbs
<1>8. HomeOf(f[x]) = h
  BY <1>3, StepsStay
<1>9. f[x] # m
  <2> SUFFICES ASSUME f[x] = m PROVE FALSE
    OBVIOUS
  <2>1. ASSUME NEW k \in 0 .. x PROVE f[k] # h
    <3>1. k = x \/ (k < x /\ k \in 0 .. N)
      BY <1>3
    <3> QED
      BY <1>5, <1>7, <3>1
  <2> QED
    BY <1>3, <2>1
<1>10. r \in [Nodes -> Int] /\ \A k, n \in Nodes : home[k] = home[n] /\ r[k] = r[n] => k = n
  BY DEF Ranked
<1>11. ASSUME f[x] \in Nodes, r[f[x]] <= r[m] PROVE r[f[x]] < r[m]
  <2>1. home[f[x]] = home[m]
    BY <1>8, <1>11 DEF HomeOf
  <2>2. r[f[x]] # r[m]
    BY <1>9, <1>10, <1>11, <2>1
  <2>3. r[f[x]] \in Int /\ r[m] \in Int
    BY <1>10, <1>11
  <2> QED
    BY <1>11, <2>2, <2>3
<1>12. CASE x = 0
  <2>1. f[x] \in Nodes /\ r[f[x]] <= r[m]
    BY <1>4, <1>12 DEF Ranked
  <2> QED
    BY <1>3, <1>11, <1>12, <2>1 DEF Climbs
<1>13. CASE x # 0
  <2>1. x \in 1 .. N /\ x - 1 \in 0 .. N /\ x - 1 < x
    BY <1>3, <1>13
  <2>2. f[x - 1] \in Nodes /\ r[f[x - 1]] < r[m]
    BY <1>6, <2>1 DEF Climbs
  <2>3. home[f[x - 1]] = home[m]
    BY <2>1, <2>2, StepsStay DEF HomeOf
  <2>4. f[x] = nxt[f[x - 1]]
    BY <1>4, <2>1
  <2>5. f[x] \in Nodes /\ r[f[x]] <= r[m] /\ r[f[x - 1]] < r[f[x]]
    BY <2>2, <2>3, <2>4 DEF Ranked
  <2> QED
    BY <1>3, <1>11, <2>5 DEF Climbs
<1> QED
  BY <1>12, <1>13

\* Steps that climb never come back to a record.
LEMMA ClimbingSteps ==
  ASSUME NEW N \in Nat, NEW f, NEW r \in [Nodes -> Int], NEW m,
         \A j \in 0 .. N : Climbs(f, r, m, j),
         NEW i \in 0 .. N, NEW j \in 0 .. N, i < j
  PROVE  r[f[i]] < r[f[j]]
<1> DEFINE T == { k \in 0 .. N : i < k /\ ~(r[f[i]] < r[f[k]]) }
<1> SUFFICES ASSUME T # {} PROVE FALSE
  OBVIOUS
<1>1. T \subseteq Nat
  OBVIOUS
<1>2. PICK x \in T : \A k \in T : x <= k
  BY <1>1, LeastNumber
<1>3. x \in 0 .. N /\ i < x /\ ~(r[f[i]] < r[f[x]])
  OBVIOUS
<1>4. x - 1 \in 0 .. N /\ x # 0 /\ ~(x <= x - 1) /\ (i = x - 1 \/ i < x - 1)
  BY <1>3
<1>5. x - 1 \notin T
  BY <1>2, <1>4
<1>6. i = x - 1 \/ r[f[i]] < r[f[x - 1]]
  BY <1>4, <1>5
<1>7. r[f[x - 1]] < r[f[x]]
  BY <1>3, <1>4 DEF Climbs
<1>8. f[i] \in Nodes /\ f[x - 1] \in Nodes /\ f[x] \in Nodes
  BY <1>3, <1>4 DEF Climbs
<1>9. r[f[i]] \in Int /\ r[f[x - 1]] \in Int /\ r[f[x]] \in Int
  BY <1>8
<1> QED
  BY <1>3, <1>6, <1>7, <1>9

\* There are more cells than records.
LEMMA MoreCells ==
  /\ Cardinality(Nodes) \in Nat /\ Cardinality(Cells) \in Nat
  /\ Cardinality(Nodes) <= Cardinality(Cells)
<1>1. IsFiniteSet(Nodes)
  BY NodesAssumption
<1>2. IsFiniteSet(Nodes \cup {NH})
  BY <1>1, FS_AddElement
<1>3. IsFiniteSet((Nodes \cup {NH}) \cup {FH})
  BY <1>2, FS_AddElement
<1>4. Cells = (Nodes \cup {NH}) \cup {FH}
  BY DEF Cells
<1>5. IsFiniteSet(Cells)
  BY <1>3, <1>4
<1>6. Cardinality(Nodes) <= Cardinality(Cells)
  <2>1. Nodes \in SUBSET Cells
    BY DEF Cells
  <2> QED
    BY <1>5, <2>1, FS_Subset
<1> QED
  BY <1>1, <1>5, <1>6, FS_CardinalityType

\* As many steps as there are cells meet every record of the list.
LEMMA StepsMeet ==
  ASSUME ListTypeOK, WellLinked, NEW h \in {NH, FH}, NEW N \in Nat,
         Cardinality(Nodes) <= N,
         NEW f, Steps(f, h, N), NEW r, Ranked(r), NEW m \in Nodes, home[m] = h
  PROVE  \E i \in 0 .. N : f[i] = m /\ \A k \in 0 .. i : f[k] # h
<1> SUFFICES ASSUME ~ \E i \in 0 .. N : f[i] = m /\ \A k \in 0 .. i : f[k] # h
             PROVE  FALSE
  OBVIOUS
<1>1. \A j \in 0 .. N : Climbs(f, r, m, j)
  BY StepsClimb
<1>2. f \in [0 .. N -> Nodes]
  <2>1. f \in [0 .. N -> Cells]
    BY DEF Steps
  <2>2. \A j \in 0 .. N : f[j] \in Nodes
    BY <1>1 DEF Climbs
  <2> QED
    BY <2>1, <2>2
<1>3. IsFiniteSet(0 .. N) /\ Cardinality(0 .. N) = N + 1
  <2>1. 0 \in Int /\ N \in Int /\ ~(0 > N)
    OBVIOUS
  <2>2. /\ IsFiniteSet(0 .. N)
        /\ Cardinality(0 .. N) = IF 0 > N THEN 0 ELSE N - 0 + 1
    BY ONLY <2>1, FS_Interval
  <2> QED
    BY <2>1, <2>2
<1>4. IsFiniteSet(Nodes) /\ Cardinality(Nodes) < Cardinality(0 .. N)
  BY <1>3, MoreCells, NodesAssumption
<1>5. \E i, j \in 0 .. N : i # j /\ f[i] = f[j]
  BY ONLY <1>2, <1>3, <1>4, FS_PigeonHole
<1>6. PICK i \in 0 .. N, j \in 0 .. N : i # j /\ f[i] = f[j]
  BY <1>5
<1>7. r \in [Nodes -> Int]
  BY DEF Ranked
<1>8. r[f[i]] \in Int /\ r[f[j]] \in Int
  BY <1>2, <1>7
<1>9. CASE i < j
  <2>1. r[f[i]] < r[f[j]]
    BY <1>1, <1>7, <1>9, ClimbingSteps
  <2> QED
    BY <1>6, <1>8, <2>1
<1>10. CASE j < i
  <2>1. r[f[j]] < r[f[i]]
    BY <1>1, <1>7, <1>10, ClimbingSteps
  <2> QED
    BY <1>6, <1>8, <2>1
<1> QED
  BY <1>6, <1>9, <1>10

\* A walk meets exactly the records of its list.
LEMMA WalkMeets ==
  ASSUME ListTypeOK, WellLinked, NEW h \in {NH, FH}, NEW r, Ranked(r)
  PROVE  Walk(h) = { n \in Nodes : home[n] = h }
<1> DEFINE N == Cardinality(Cells)
<1>1. N \in Nat /\ Cardinality(Nodes) <= N
  BY MoreCells
<1>2. h \in Cells /\ nxt \in [Cells -> Cells]
  BY DEF Cells, ListTypeOK
<1>3. PICK f : /\ Steps(f, h, N)
               /\ Walk(h) = { f[i] : i \in { j \in 0 .. N : \A k \in 0 .. j : f[k] # h } }
  BY <1>1, <1>2, WalkSteps
<1> HIDE DEF N
<1>4. ASSUME NEW c \in Walk(h) PROVE c \in Nodes /\ home[c] = h
  <2>1. PICK j \in 0 .. N : c = f[j] /\ \A k \in 0 .. j : f[k] # h
    BY <1>3, <1>4
  <2>2. c # h
    BY <1>1, <2>1
  <2>3. HomeOf(c) = h
    BY <1>1, <1>3, <2>1, StepsStay
  <2> QED
    BY <2>2, <2>3 DEF HomeOf
<1>5. ASSUME NEW m \in Nodes, home[m] = h PROVE m \in Walk(h)
  <2>1. \E i \in 0 .. N : f[i] = m /\ \A k \in 0 .. i : f[k] # h
    BY <1>1, <1>3, <1>5, StepsMeet
  <2> QED
    BY <1>3, <2>1
<1> QED
  BY <1>4, <1>5

\* No record leaks: whatever the receive thread, the sweep and the API scans
\* interleave, a walk of neighbour_list meets exactly the records moved there
\* and a walk of sta_free_list exactly the others (vam_list_sta counts on it).
THEOREM NoRecordIsLost == Spec => []NoRecordLost
<1>1. TableInv => NoRecordLost
  <2> SUFFICES ASSUME TableInv PROVE NoRecordLost
    OBVIOUS
  <2>1. TypeOK /\ WellLinked /\ \E r : Ranked(r)
    BY DEF TableInv
  <2>2. ListTypeOK
    BY <2>1 DEF TypeOK, ListTypeOK
  <2>3. PICK r : Ranked(r)
    BY <2>1
  <2>4. \A h \in {NH, FH} : Walk(h) = { n \in Nodes : home[n] = h }
    BY <2>1, <2>2, <2>3, WalkMeets
  <2>5. { n \in Nodes : home[n] = FH } = Nodes \ Listed
    BY <2>2, NodesAssumption DEF ListTypeOK, Listed
  <2> QED
    BY <2>4, <2>5 DEF NoRecordLost, Listed
<1> QED
  BY <1>1, TableInvariant, PTL
==============================================================================
