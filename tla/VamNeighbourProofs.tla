------------------------- MODULE VamNeighbourProofs -------------------------
(***************************************************************************)
(* Theorems about VamNeighbour, for any number of records, peers, lives    *)
(* and count width.                                                        *)
(*                                                                         *)
(* Links are reasoned about with a rank: a numbering of the records that   *)
(* grows along each list and is consecutive there.  It says of pointers    *)
(* what reachability says, without an induction over the walk.             *)
(***************************************************************************)
EXTENDS VamNeighbour, Integers, FiniteSetTheorems, TLAPS

(***************************************************************************)
(* The initial lists.                                                      *)
(***************************************************************************)
\* Order numbers the records 1 .. Cardinality(Nodes), each number once: the
\* loop of vam_init that links remote[0], remote[1], ... exists.
LEMMA OrderNumbers ==
  /\ Cardinality(Nodes) \in Nat
  /\ Order \in [Nodes -> 1 .. Cardinality(Nodes)]
  /\ \A m, n \in Nodes : Order[m] = Order[n] => m = n
  /\ \A i \in 1 .. Cardinality(Nodes) : \E n \in Nodes : Order[n] = i
<1> DEFINE N == Cardinality(Nodes)
           Numbers(f) == /\ \A m, n \in Nodes : f[m] = f[n] => m = n
                         /\ \A i \in 1 .. N : \E n \in Nodes : f[n] = i
<1>1. N \in Nat /\ ExistsBijection(1 .. N, Nodes)
  BY NodesAssumption, FS_CardinalityType
<1>2. PICK b \in [1 .. N -> Nodes] :
        /\ \A i, j \in 1 .. N : b[i] = b[j] => i = j
        /\ \A n \in Nodes : \E i \in 1 .. N : b[i] = n
  BY <1>1 DEF ExistsBijection, Bijection, Injection, Surjection, IsInjective
<1> DEFINE f == [n \in Nodes |-> CHOOSE i \in 1 .. N : b[i] = n]
<1>3. f \in [Nodes -> 1 .. N] /\ \A n \in Nodes : b[f[n]] = n
  BY <1>2
<1>4. Numbers(f)
  <2>1. ASSUME NEW m \in Nodes, NEW n \in Nodes, f[m] = f[n]  PROVE m = n
    BY <1>3, <2>1
  <2>2. ASSUME NEW i \in 1 .. N  PROVE \E n \in Nodes : f[n] = i
    <3>1. b[i] \in Nodes  BY <1>2, <2>2
    <3>2. f[b[i]] \in 1 .. N /\ b[f[b[i]]] = b[i]  BY <1>3, <3>1
    <3>3. f[b[i]] = i  BY <1>2, <2>2, <3>2
    <3> QED  BY <3>1, <3>3
  <2> QED  BY <2>1, <2>2
<1>5. \E g \in [Nodes -> 1 .. N] : Numbers(g)  BY <1>3, <1>4
<1>6. Order = CHOOSE g \in [Nodes -> 1 .. N] : Numbers(g)  BY DEF Order
<1>7. Order \in [Nodes -> 1 .. N] /\ Numbers(Order)  BY <1>5, <1>6
<1> QED  BY <1>1, <1>7

\* The records' numbers and the record with a number are inverse to each other.
LEMMA CellAtNumbers ==
  /\ \A i \in 1 .. Cardinality(Nodes) : CellAt(i) \in Nodes /\ Order[CellAt(i)] = i
  /\ \A n \in Nodes : CellAt(Order[n]) = n
  /\ \A i \in Int : i \notin 1 .. Cardinality(Nodes) => CellAt(i) = FH
<1>1. ASSUME NEW i \in 1 .. Cardinality(Nodes)
      PROVE  CellAt(i) \in Nodes /\ Order[CellAt(i)] = i
  BY <1>1, OrderNumbers DEF CellAt, NodeAt
<1>2. ASSUME NEW n \in Nodes  PROVE CellAt(Order[n]) = n
  <2>1. Order[n] \in 1 .. Cardinality(Nodes)  BY <1>2, OrderNumbers
  <2> QED  BY <1>1, <1>2, <2>1, OrderNumbers
<1> QED  BY <1>1, <1>2 DEF CellAt

-----------------------------------------------------------------------------
(***************************************************************************)
(* Types.                                                                  *)
(***************************************************************************)
\* vam_init leaves every variable in its type.
LEMMA InitTypeOK == Init => TypeOK
<1> SUFFICES ASSUME Init PROVE TypeOK  OBVIOUS
<1> USE NodesAssumption, LifeAssumption, CountAssumption DEF Init
<1>1. Cardinality(Nodes) \in Nat /\ \A n \in Nodes : Order[n] \in Int
  BY OrderNumbers
<1>2. \A i \in Int : CellAt(i) \in Cells
  BY CellAtNumbers DEF Cells
<1>3. nxt \in [Cells -> Cells]
  BY <1>1, <1>2 DEF Cells
<1>4. prv \in [Cells -> Cells]
  BY <1>1, <1>2 DEF Cells
<1>5. /\ home \in [Nodes -> {NH, FH}]
      /\ pid \in [Nodes -> Pids \cup {NoPid}]
      /\ life \in [Nodes -> 0 .. MaxLife]
      /\ alertLife \in [Nodes -> 0 .. AlertLife]
      /\ mask \in [Nodes -> BOOLEAN]
  OBVIOUS
<1>6. cnt \in 0 .. CntMod - 1 /\ rxTmp \in 0 .. CntMod - 1 /\ swCnt \in 0 .. CntMod - 1
  OBVIOUS
<1>7. swLife \in 0 .. MaxLife /\ swAlert \in 0 .. AlertLife
  OBVIOUS
<1>8. NH \in Cells  BY DEF Cells
<1> QED  BY <1>3, <1>4, <1>5, <1>6, <1>7, <1>8 DEF TypeOK, OnRecord

-----------------------------------------------------------------------------
(***************************************************************************)
(* The lists: what a move from one list to the other preserves.            *)
(***************************************************************************)
ListTypeOK == /\ nxt \in [Cells -> Cells] /\ prv \in [Cells -> Cells]
              /\ home \in [Nodes -> {NH, FH}]

HomeAfter(c) == IF c \in Nodes THEN home'[c] ELSE c

\* list_move and list_move_tail keep the links' types.
LEMMA MoveType ==
  ASSUME ListTypeOK, NEW n \in Nodes, NEW h \in {NH, FH},
         ListMove(n, h) \/ ListMoveTail(n, h)
  PROVE  ListTypeOK'
<1> USE DEF ListTypeOK, Cells
<1>1. CASE ListMove(n, h)
  BY <1>1 DEF ListMove, UnlinkNxt, UnlinkPrv
<1>2. CASE ListMoveTail(n, h)
  BY <1>2 DEF ListMoveTail, UnlinkNxt, UnlinkPrv
<1> QED  BY <1>1, <1>2

\* The neighbours of a record that is on the other list than h: none of them
\* is h's, so unlinking the record leaves h's list alone.
LEMMA OtherList ==
  ASSUME ListTypeOK, WellLinked, NEW n \in Nodes, NEW h \in {NH, FH}, home[n] # h
  PROVE  /\ HomeOf(h) = h /\ HomeOf(n) = home[n]
         /\ prv[n] \in Cells /\ nxt[n] \in Cells
         /\ HomeOf(prv[n]) = home[n] /\ HomeOf(nxt[n]) = home[n]
         /\ HomeOf(nxt[h]) = h /\ HomeOf(prv[h]) = h
         /\ UnlinkNxt(n)[h] = nxt[h] /\ UnlinkPrv(n)[h] = prv[h]
         /\ nxt[h] \in Cells /\ prv[h] \in Cells
<1> USE NodesAssumption DEF ListTypeOK, Cells
<1>1. HomeOf(h) = h /\ HomeOf(n) = home[n]  BY DEF HomeOf
<1>2. prv[n] \in Cells /\ nxt[n] \in Cells /\ nxt[h] \in Cells /\ prv[h] \in Cells
  OBVIOUS
<1>3. HomeOf(nxt[n]) = home[n] /\ HomeOf(nxt[h]) = h
  BY <1>1 DEF WellLinked
<1>4. HomeOf(prv[n]) = home[n] /\ HomeOf(prv[h]) = h
  BY <1>1, <1>2 DEF WellLinked
<1>5. UnlinkNxt(n)[h] = nxt[h] /\ UnlinkPrv(n)[h] = prv[h]
  BY <1>1, <1>3, <1>4 DEF UnlinkNxt, UnlinkPrv
<1> QED  BY <1>1, <1>2, <1>3, <1>4, <1>5

\* Where every link points after a record moved to the front of the other list.
LEMMA MoveFrontLinks ==
  ASSUME ListTypeOK, WellLinked, NEW n \in Nodes, NEW h \in {NH, FH},
         home[n] # h, ListMove(n, h)
  PROVE  \A c \in Cells :
           /\ nxt'[c] = IF c = h THEN n ELSE IF c = n THEN nxt[h]
                        ELSE IF c = prv[n] THEN nxt[n] ELSE nxt[c]
           /\ prv'[c] = IF c = n THEN h ELSE IF c = nxt[h] THEN n
                        ELSE IF c = nxt[n] THEN prv[n] ELSE prv[c]
           /\ HomeAfter(c) = IF c = n THEN h ELSE HomeOf(c)
<1> USE OtherList, NodesAssumption
<1>1. ASSUME NEW c \in Cells
      PROVE  HomeAfter(c) = IF c = n THEN h ELSE HomeOf(c)
  BY <1>1 DEF ListMove, HomeOf, HomeAfter, ListTypeOK
<1>2. ASSUME NEW c \in Cells
      PROVE  nxt'[c] = IF c = h THEN n ELSE IF c = n THEN nxt[h]
                       ELSE IF c = prv[n] THEN nxt[n] ELSE nxt[c]
  BY <1>2 DEF ListMove, UnlinkNxt, ListTypeOK, Cells
<1>3. ASSUME NEW c \in Cells
      PROVE  prv'[c] = IF c = n THEN h ELSE IF c = nxt[h] THEN n
                       ELSE IF c = nxt[n] THEN prv[n] ELSE prv[c]
  BY <1>3 DEF ListMove, UnlinkNxt, UnlinkPrv, ListTypeOK, Cells
<1> QED  BY <1>1, <1>2, <1>3

\* Where every link points after a record moved to the tail of the other list.
LEMMA MoveTailLinks ==
  ASSUME ListTypeOK, WellLinked, NEW n \in Nodes, NEW h \in {NH, FH},
         home[n] # h, ListMoveTail(n, h)
  PROVE  \A c \in Cells :
           /\ nxt'[c] = IF c = prv[h] THEN n ELSE IF c = n THEN h
                        ELSE IF c = prv[n] THEN nxt[n] ELSE nxt[c]
           /\ prv'[c] = IF c = n THEN prv[h] ELSE IF c = h THEN n
                        ELSE IF c = nxt[n] THEN prv[n] ELSE prv[c]
           /\ HomeAfter(c) = IF c = n THEN h ELSE HomeOf(c)
<1> USE OtherList, NodesAssumption
<1>1. ASSUME NEW c \in Cells
      PROVE  HomeAfter(c) = IF c = n THEN h ELSE HomeOf(c)
  BY <1>1 DEF ListMoveTail, HomeOf, HomeAfter, ListTypeOK
<1>2. ASSUME NEW c \in Cells
      PROVE  nxt'[c] = IF c = prv[h] THEN n ELSE IF c = n THEN h
                       ELSE IF c = prv[n] THEN nxt[n] ELSE nxt[c]
  BY <1>2 DEF ListMoveTail, UnlinkNxt, UnlinkPrv, ListTypeOK, Cells
<1>3. ASSUME NEW c \in Cells
      PROVE  prv'[c] = IF c = n THEN prv[h] ELSE IF c = h THEN n
                       ELSE IF c = nxt[n] THEN prv[n] ELSE prv[c]
  BY <1>3 DEF ListMoveTail, UnlinkPrv, ListTypeOK, Cells
<1> QED  BY <1>1, <1>2, <1>3

\* A record moved from one list to the other leaves both doubly linked.
LEMMA MoveWellLinked ==
  ASSUME ListTypeOK, WellLinked, NEW n \in Nodes, NEW h \in {NH, FH},
         home[n] # h, ListMove(n, h) \/ ListMoveTail(n, h)
  PROVE  WellLinked'
<1> USE NodesAssumption, OtherList
<1>0. h \in Cells /\ n \in Cells /\ n # h
  BY DEF Cells
<1>1. ASSUME NEW c \in Cells
      PROVE  /\ nxt[c] \in Cells /\ prv[c] \in Cells
             /\ prv[nxt[c]] = c /\ nxt[prv[c]] = c
             /\ HomeOf(nxt[c]) = HomeOf(c) /\ HomeOf(prv[c]) = HomeOf(c)
  <2>1. nxt[c] \in Cells /\ prv[c] \in Cells  BY <1>1 DEF ListTypeOK
  <2> QED  BY <1>1, <2>1 DEF WellLinked
<1>2. CASE ListMove(n, h)
  <2>1. ASSUME NEW c \in Cells
        PROVE  /\ prv'[nxt'[c]] = c /\ nxt'[prv'[c]] = c
               /\ HomeAfter(nxt'[c]) = HomeAfter(c)
    <3> DEFINE a == nxt'[c]
               b == prv'[c]
    <3>1. a \in Cells /\ b \in Cells
      BY <1>0, <1>1, <1>2, <2>1, MoveFrontLinks
    <3>2. prv'[a] = c
      BY <1>0, <1>1, <1>2, <2>1, <3>1, MoveFrontLinks
    <3>3. nxt'[b] = c
      BY <1>0, <1>1, <1>2, <2>1, <3>1, MoveFrontLinks
    <3>4. HomeAfter(a) = HomeAfter(c)
      BY <1>0, <1>1, <1>2, <2>1, <3>1, MoveFrontLinks
    <3> QED  BY <3>2, <3>3, <3>4
  <2> QED  BY <2>1 DEF WellLinked, HomeOf, HomeAfter
<1>3. CASE ListMoveTail(n, h)
  <2>1. ASSUME NEW c \in Cells
        PROVE  /\ prv'[nxt'[c]] = c /\ nxt'[prv'[c]] = c
               /\ HomeAfter(nxt'[c]) = HomeAfter(c)
    <3> DEFINE a == nxt'[c]
               b == prv'[c]
    <3>1. a \in Cells /\ b \in Cells
      BY <1>0, <1>1, <1>3, <2>1, MoveTailLinks
    <3>2. prv'[a] = c
      BY <1>0, <1>1, <1>3, <2>1, <3>1, MoveTailLinks
    <3>3. nxt'[b] = c
      BY <1>0, <1>1, <1>3, <2>1, <3>1, MoveTailLinks
    <3>4. HomeAfter(a) = HomeAfter(c)
      BY <1>0, <1>1, <1>3, <2>1, <3>1, MoveTailLinks
    <3> QED  BY <3>2, <3>3, <3>4
  <2> QED  BY <2>1 DEF WellLinked, HomeOf, HomeAfter
<1> QED  BY <1>2, <1>3

\* r ranks the records along each list, without gaps: from a list's head, or
\* from a record of the list, nxt leads to the record of the next higher rank.
Ranked(r) ==
  /\ r \in [Nodes -> Int]
  /\ \A m, n \in Nodes : home[m] = home[n] /\ r[m] = r[n] => m = n
  /\ \A n \in Nodes : nxt[n] \in Nodes => r[n] < r[nxt[n]]
  /\ \A n \in Nodes : nxt[home[n]] \in Nodes /\ r[nxt[home[n]]] <= r[n]
  /\ \A m, n \in Nodes :
       home[m] = home[n] /\ r[m] < r[n] => nxt[m] \in Nodes /\ r[nxt[m]] <= r[n]

\* The order of the other records does not change when one record moves.
LEMMA MoveFrontRanked ==
  ASSUME ListTypeOK, WellLinked, NEW n \in Nodes, NEW h \in {NH, FH},
         home[n] # h, ListMove(n, h), NEW r, Ranked(r)
  PROVE  \E s : Ranked(s)' /\ \A m \in Nodes : m # n => s[m] = r[m]
<1> DEFINE low == IF nxt[h] \in Nodes THEN r[nxt[h]] - 1 ELSE 0
<1>s. PICK s : s = [r EXCEPT ![n] = low]  OBVIOUS
<1> USE NodesAssumption, OtherList, MoveFrontLinks
<1>1. s \in [Nodes -> Int] /\ s[n] = low /\ \A m \in Nodes : m # n => s[m] = r[m]
  BY <1>s DEF Ranked
<1>2. /\ home' \in [Nodes -> {NH, FH}]
      /\ \A m \in Nodes : home'[m] = IF m = n THEN h ELSE home[m]
  BY DEF ListMove, ListTypeOK
<1>3. \A m \in Nodes : m # n /\ home[m] = h => nxt[h] \in Nodes /\ low < r[m]
  BY DEF Ranked
<1>4. \A m \in Cells : nxt[m] = n <=> m = prv[n]
  BY DEF WellLinked, Cells, ListTypeOK
<1>5. \A m \in Nodes : nxt[m] \in Cells /\ HomeOf(nxt[m]) = home[m]
  BY DEF WellLinked, Cells, ListTypeOK, HomeOf
<1>6. ASSUME NEW m \in Nodes, NEW k \in Nodes, home'[m] = home'[k], s[m] = s[k]
      PROVE  m = k
  BY <1>1, <1>2, <1>3, <1>6 DEF Ranked
<1>7. ASSUME NEW m \in Nodes, nxt'[m] \in Nodes  PROVE s[m] < s[nxt'[m]]
  <2>1. CASE m = n
    <3>1. nxt'[m] = nxt[h] /\ nxt[h] # n  BY <2>1 DEF Cells, HomeOf
    <3> QED  BY <1>1, <1>7, <2>1, <3>1 DEF Ranked
  <2>2. CASE m # n /\ m = prv[n]
    <3>1. nxt[m] = n /\ nxt'[m] = nxt[n]  BY <1>4, <2>2 DEF Cells
    <3>2. r[m] < r[n] /\ r[n] < r[nxt[n]]  BY <1>7, <3>1 DEF Ranked
    <3>3. nxt[n] # n  BY <3>2 DEF Ranked
    <3> QED  BY <1>1, <1>7, <2>2, <3>1, <3>2, <3>3 DEF Ranked
  <2>3. CASE m # n /\ m # prv[n]
    <3>1. nxt'[m] = nxt[m] /\ nxt[m] # n  BY <1>4, <2>3 DEF Cells
    <3> QED  BY <1>1, <1>7, <2>3, <3>1 DEF Ranked
  <2> QED  BY <2>1, <2>2, <2>3
<1>8. ASSUME NEW m \in Nodes
      PROVE  nxt'[home'[m]] \in Nodes /\ s[nxt'[home'[m]]] <= s[m]
  <2>1. CASE home'[m] = h
    <3>1. nxt'[h] = n  BY DEF Cells
    <3> QED  BY <1>1, <1>2, <1>3, <2>1, <3>1 DEF Ranked
  <2>2. CASE home'[m] # h
    <3>1. m # n /\ home'[m] = home[m] /\ home[m] = home[n]
      BY <1>2, <2>2 DEF ListTypeOK, Cells
    <3>0. home[m] \in Cells /\ home[m] # n /\ home[m] # h
      BY <3>1, <2>2 DEF ListTypeOK, Cells
    <3>2. nxt[home[m]] \in Nodes /\ r[nxt[home[m]]] <= r[m]
      BY DEF Ranked
    <3>3. CASE home[m] = prv[n]
      <4>1. nxt[home[m]] = n /\ nxt'[home[m]] = nxt[n]
        BY <1>4, <3>0, <3>3
      <4>2. r[n] < r[m]  BY <3>1, <3>2, <4>1 DEF Ranked
      <4>3. nxt[n] \in Nodes /\ r[nxt[n]] <= r[m] /\ nxt[n] # n
        BY <3>1, <4>2 DEF Ranked
      <4> QED  BY <1>1, <3>1, <4>1, <4>3
    <3>4. CASE home[m] # prv[n]
      <4>1. nxt'[home[m]] = nxt[home[m]] /\ nxt[home[m]] # n
        BY <1>4, <3>0, <3>4
      <4> QED  BY <1>1, <3>1, <3>2, <4>1
    <3> QED  BY <3>3, <3>4
  <2> QED  BY <2>1, <2>2
<1>9. ASSUME NEW m \in Nodes, NEW k \in Nodes, home'[m] = home'[k], s[m] < s[k]
      PROVE  nxt'[m] \in Nodes /\ s[nxt'[m]] <= s[k]
  <2>1. CASE m = n
    <3>1. k # n /\ home[k] = h  BY <1>1, <1>2, <1>9, <2>1
    <3>2. nxt'[n] = nxt[h] /\ nxt[h] # n  BY DEF Cells, HomeOf
    <3> QED  BY <1>1, <1>3, <2>1, <3>1, <3>2 DEF Ranked
  <2>2. CASE m # n /\ k = n
    BY <1>1, <1>2, <1>3, <1>9, <2>2 DEF Ranked
  <2>3. CASE m # n /\ k # n
    <3>1. home[m] = home[k] /\ r[m] < r[k]  BY <1>1, <1>2, <1>9, <2>3
    <3>2. nxt[m] \in Nodes /\ r[nxt[m]] <= r[k]  BY <3>1 DEF Ranked
    <3>3. CASE m = prv[n]
      <4>1. nxt[m] = n /\ nxt'[m] = nxt[n]  BY <1>4, <2>3, <3>3 DEF Cells
      <4>2. home[n] = home[m]  BY <1>5, <4>1 DEF HomeOf
      <4>3. r[n] < r[k]
        <5>1. r[n] <= r[k] /\ home[n] = home[k]  BY <3>1, <3>2, <4>1, <4>2
        <5>2. r[n] # r[k] /\ r[n] \in Int /\ r[k] \in Int
          BY <2>3, <5>1 DEF Ranked
        <5> QED  BY <5>1, <5>2
      <4>4. nxt[n] \in Nodes /\ r[nxt[n]] <= r[k] /\ nxt[n] # n
        BY <3>1, <4>2, <4>3 DEF Ranked
      <4> QED  BY <1>1, <2>3, <4>1, <4>4
    <3>4. CASE m # prv[n]
      <4>1. nxt'[m] = nxt[m] /\ nxt[m] # n  BY <1>4, <2>3, <3>4 DEF Cells
      <4> QED  BY <1>1, <2>3, <3>2, <4>1
    <3> QED  BY <3>3, <3>4
  <2> QED  BY <2>1, <2>2, <2>3
<1>10. Ranked(s)'
  BY <1>1, <1>6, <1>7, <1>8, <1>9 DEF Ranked
<1> QED  BY <1>1, <1>10

\* The same for a move to the tail.
LEMMA MoveTailRanked ==
  ASSUME ListTypeOK, WellLinked, NEW n \in Nodes, NEW h \in {NH, FH},
         home[n] # h, ListMoveTail(n, h), NEW r, Ranked(r)
  PROVE  \E s : Ranked(s)' /\ \A m \in Nodes : m # n => s[m] = r[m]
<1> DEFINE high == IF prv[h] \in Nodes THEN r[prv[h]] + 1 ELSE 0
<1>s. PICK s : s = [r EXCEPT ![n] = high]  OBVIOUS
<1> USE NodesAssumption, OtherList, MoveTailLinks
<1>1. s \in [Nodes -> Int] /\ s[n] = high /\ \A m \in Nodes : m # n => s[m] = r[m]
  BY <1>s DEF Ranked
<1>2. /\ home' \in [Nodes -> {NH, FH}]
      /\ \A m \in Nodes : home'[m] = IF m = n THEN h ELSE home[m]
  BY DEF ListMoveTail, ListTypeOK
<1>3. ASSUME NEW m \in Nodes, home[m] = h
      PROVE  /\ prv[h] \in Nodes /\ home[prv[h]] = h /\ nxt[prv[h]] = h
             /\ r[m] < high /\ nxt[h] \in Nodes
  <2>1. nxt[h] \in Nodes  BY <1>3 DEF Ranked
  <2>2. nxt[prv[h]] = h /\ h \notin Nodes  BY DEF WellLinked, Cells
  <2>3. prv[h] \in Nodes /\ home[prv[h]] = h
    BY <2>1, <2>2 DEF HomeOf, Cells
  <2>4. ~(r[prv[h]] < r[m])  BY <1>3, <2>2, <2>3 DEF Ranked
  <2>5. r[prv[h]] \in Int /\ r[m] \in Int  BY <2>3 DEF Ranked
  <2> QED  BY <2>1, <2>2, <2>3, <2>4, <2>5
<1>4. \A m \in Cells : nxt[m] = n <=> m = prv[n]
  BY DEF WellLinked, Cells, ListTypeOK
<1>5. \A m \in Nodes : nxt[m] \in Cells /\ HomeOf(nxt[m]) = home[m]
  BY DEF WellLinked, Cells, ListTypeOK, HomeOf
<1>6. ASSUME NEW m \in Nodes, NEW k \in Nodes, home'[m] = home'[k], s[m] = s[k]
      PROVE  m = k
  BY <1>1, <1>2, <1>3, <1>6 DEF Ranked
<1>7. ASSUME NEW m \in Nodes, nxt'[m] \in Nodes  PROVE s[m] < s[nxt'[m]]
  <2>0. m # n  BY <1>7 DEF Cells
  <2>1. CASE m = prv[h]
    <3>1. nxt'[m] = n /\ high = r[m] + 1  BY <2>1, <1>7 DEF Cells
    <3> QED  BY <1>1, <2>0, <3>1 DEF Ranked
  <2>2. CASE m # prv[h] /\ m = prv[n]
    <3>1. nxt[m] = n /\ nxt'[m] = nxt[n]  BY <1>4, <2>0, <2>2 DEF Cells
    <3>2. r[m] < r[n] /\ r[n] < r[nxt[n]]  BY <1>7, <3>1 DEF Ranked
    <3>3. nxt[n] # n  BY <3>2 DEF Ranked
    <3> QED  BY <1>1, <1>7, <2>0, <3>1, <3>2, <3>3 DEF Ranked
  <2>3. CASE m # prv[h] /\ m # prv[n]
    <3>1. nxt'[m] = nxt[m] /\ nxt[m] # n  BY <1>4, <2>0, <2>3 DEF Cells
    <3> QED  BY <1>1, <1>7, <2>0, <3>1 DEF Ranked
  <2> QED  BY <2>1, <2>2, <2>3
<1>8. ASSUME NEW m \in Nodes
      PROVE  nxt'[home'[m]] \in Nodes /\ s[nxt'[home'[m]]] <= s[m]
  <2>1. CASE m # n /\ home'[m] = h
    <3>1. home[m] = h  BY <1>2, <2>1
    <3>2. prv[h] # h /\ prv[n] # h  BY <1>3, <3>1 DEF HomeOf
    <3>3. nxt'[h] = nxt[h] /\ nxt[h] # n  BY <3>2 DEF Cells, HomeOf
    <3> QED  BY <1>1, <2>1, <3>1, <3>3 DEF Ranked
  <2>2. CASE m = n
    <3>1. home'[m] = h  BY <1>2, <2>2
    <3>2. CASE prv[h] = h
      <4>1. nxt'[h] = n  BY <3>2 DEF Cells
      <4> QED  BY <1>1, <2>2, <3>1, <4>1
    <3>3. CASE prv[h] # h
      <4>1. prv[h] \in Nodes /\ home[prv[h]] = h  BY <3>3 DEF Cells, HomeOf
      <4>2. nxt[h] \in Nodes /\ r[nxt[h]] <= r[prv[h]]  BY <4>1 DEF Ranked
      <4>3. nxt'[h] = nxt[h] /\ nxt[h] # n  BY <3>3 DEF Cells, HomeOf
      <4> QED  BY <1>1, <2>2, <3>1, <4>1, <4>2, <4>3 DEF Ranked
    <3> QED  BY <3>2, <3>3
  <2>3. CASE m # n /\ home'[m] # h
    <3>1. home'[m] = home[m] /\ home[m] = home[n]
      BY <1>2, <2>3 DEF ListTypeOK, Cells
    <3>0. home[m] \in Cells /\ home[m] # n /\ home[m] # prv[h]
      BY <3>1, <2>3 DEF ListTypeOK, Cells, HomeOf
    <3>2. nxt[home[m]] \in Nodes /\ r[nxt[home[m]]] <= r[m]
      BY DEF Ranked
    <3>3. CASE home[m] = prv[n]
      <4>1. nxt[home[m]] = n /\ nxt'[home[m]] = nxt[n]
        BY <1>4, <3>0, <3>3
      <4>2. r[n] < r[m]  BY <2>3, <3>1, <3>2, <4>1 DEF Ranked
      <4>3. nxt[n] \in Nodes /\ r[nxt[n]] <= r[m] /\ nxt[n] # n
        BY <3>1, <4>2 DEF Ranked
      <4> QED  BY <1>1, <2>3, <3>1, <4>1, <4>3
    <3>4. CASE home[m] # prv[n]
      <4>1. nxt'[home[m]] = nxt[home[m]] /\ nxt[home[m]] # n
        BY <1>4, <3>0, <3>4
      <4> QED  BY <1>1, <2>3, <3>1, <3>2, <4>1
    <3> QED  BY <3>3, <3>4
  <2> QED  BY <2>1, <2>2, <2>3
<1>9. ASSUME NEW m \in Nodes, NEW k \in Nodes, home'[m] = home'[k], s[m] < s[k]
      PROVE  nxt'[m] \in Nodes /\ s[nxt'[m]] <= s[k]
  <2>1. CASE m = n
    <3>1. k # n /\ home[k] = h  BY <1>1, <1>2, <1>9, <2>1
    <3>2. s[k] = r[k] /\ r[k] < high /\ s[m] = high
      BY <1>1, <1>3, <2>1, <3>1
    <3>3. r[k] \in Int /\ high \in Int  BY DEF Ranked
    <3> QED  BY <1>9, <3>2, <3>3
  <2>2. CASE m # n /\ k = n
    <3>1. home[m] = h  BY <1>2, <1>9, <2>2
    <3>2. prv[h] \in Nodes /\ home[prv[h]] = h /\ nxt[prv[h]] = h /\ r[m] < high
      BY <1>3, <3>1
    <3>3. CASE m = prv[h]
      <4>1. nxt'[m] = n  BY <3>3 DEF Cells
      <4> QED  BY <1>1, <2>2, <4>1
    <3>4. CASE m # prv[h]
      <4>1. r[m] < r[prv[h]]
        <5>1. r[m] # r[prv[h]]  BY <3>1, <3>2, <3>4 DEF Ranked
        <5> QED  BY <3>2, <5>1 DEF Ranked
      <4>2. nxt[m] \in Nodes /\ r[nxt[m]] <= r[prv[h]]
        BY <3>1, <3>2, <4>1 DEF Ranked
      <4>3. m # prv[n]  BY <3>1 DEF HomeOf
      <4>4. nxt'[m] = nxt[m] /\ nxt[m] # n  BY <1>4, <2>2, <3>4, <4>3 DEF Cells
      <4> QED  BY <1>1, <2>2, <3>2, <4>2, <4>4 DEF Ranked
    <3> QED  BY <3>3, <3>4
  <2>3. CASE m # n /\ k # n
    <3>1. home[m] = home[k] /\ r[m] < r[k]  BY <1>1, <1>2, <1>9, <2>3
    <3>2. nxt[m] \in Nodes /\ r[nxt[m]] <= r[k]  BY <3>1 DEF Ranked
    <3>0. m # prv[h]  BY <3>2 DEF WellLinked, Cells
    <3>3. CASE m = prv[n]
      <4>1. nxt[m] = n /\ nxt'[m] = nxt[n]  BY <1>4, <2>3, <3>0, <3>3 DEF Cells
      <4>2. home[n] = home[m]  BY <1>5, <4>1 DEF HomeOf
      <4>3. r[n] < r[k]
        <5>1. r[n] <= r[k] /\ home[n] = home[k]  BY <3>1, <3>2, <4>1, <4>2
        <5>2. r[n] # r[k] /\ r[n] \in Int /\ r[k] \in Int
          BY <2>3, <5>1 DEF Ranked
        <5> QED  BY <5>1, <5>2
      <4>4. nxt[n] \in Nodes /\ r[nxt[n]] <= r[k] /\ nxt[n] # n
        BY <3>1, <4>2, <4>3 DEF Ranked
      <4> QED  BY <1>1, <2>3, <4>1, <4>4
    <3>4. CASE m # prv[n]
      <4>1. nxt'[m] = nxt[m] /\ nxt[m] # n  BY <1>4, <2>3, <3>0, <3>4 DEF Cells
      <4> QED  BY <1>1, <2>3, <3>2, <4>1
    <3> QED  BY <3>3, <3>4
  <2> QED  BY <2>1, <2>2, <2>3
<1>10. Ranked(s)'
  BY <1>1, <1>6, <1>7, <1>8, <1>9 DEF Ranked
<1> QED  BY <1>1, <1>10

-----------------------------------------------------------------------------
(***************************************************************************)
(* The inductive invariant.                                                *)
(***************************************************************************)
\* Who is inside the critical section of sem_sta.
LockOK ==
  /\ sem = "vam" <=> swPc \in {"load", "uncount"} \cup OnRecord
  /\ sem = "api" <=> apiPc = "walk"

\* The record the sweep works on is still a neighbour, and the prefetched
\* successor is another cell.
SweepOK == swPc \in OnRecord => home[swNode] = NH /\ swPos # swNode

\* What the unlocked scan has established.  While its cursor is on
\* neighbour_list every record before it holds another pid; after a miss no
\* neighbour holds the pid; nor does one besides the record being set up.
Searched(r) ==
  /\ rxPc = "scan" /\ HomeOf(rxPos) = NH =>
       \A n \in Listed :
         (rxPos \in Nodes => r[n] < r[rxPos]) => pid[n] # rxMsg.from
  /\ rxPc = "alloc" => \A n \in Listed : pid[n] # rxMsg.from
  /\ RxLinked => \A n \in Listed : n # rxPos => pid[n] # rxMsg.from

TableInv ==
  /\ TypeOK /\ WellLinked /\ LockOK /\ LockedWalksStay /\ SweepOK
  /\ UniquePids
  /\ \E r : Ranked(r) /\ Searched(r)

\* The initial lists: all records on the free list, in order.
LEMMA InitLists == Init => WellLinked /\ \E r : Ranked(r)
<1> SUFFICES ASSUME Init PROVE WellLinked /\ \E r : Ranked(r)  OBVIOUS
<1> DEFINE N == Cardinality(Nodes)
<1> USE NodesAssumption, OrderNumbers, CellAtNumbers
<1>1. /\ nxt \in [Cells -> Cells] /\ prv \in [Cells -> Cells]
      /\ \A c \in Cells : HomeOf(c) = IF c = NH THEN NH ELSE FH
  BY InitTypeOK DEF Init, TypeOK, HomeOf, Cells
<1>2. /\ nxt[NH] = NH /\ prv[NH] = NH
      /\ nxt[FH] = CellAt(1) /\ prv[FH] = CellAt(N)
      /\ \A n \in Nodes : nxt[n] = CellAt(Order[n] + 1) /\ prv[n] = CellAt(Order[n] - 1)
  BY DEF Init, Cells
<1>3. \A n \in Nodes : Order[n] \in 1 .. N
  OBVIOUS
<1>4. ASSUME NEW c \in Cells
      PROVE  prv[nxt[c]] = c /\ nxt[prv[c]] = c /\ HomeOf(nxt[c]) = HomeOf(c)
  <2>1. CASE c = NH  BY <1>2, <2>1
  <2>2. CASE c = FH
    <3>1. CASE N = 0
      BY <1>1, <1>2, <2>2, <3>1 DEF Cells
    <3>2. CASE N > 0
      BY <1>1, <1>2, <2>2, <3>2 DEF Cells
    <3> QED  BY <3>1, <3>2
  <2>3. CASE c \in Nodes
    <3>1. nxt[c] \in Cells /\ prv[c] \in Cells /\ nxt[c] # NH /\ prv[c] # NH
      <4>1. Order[c] + 1 \in Int /\ Order[c] - 1 \in Int  BY <1>3, <2>3
      <4> QED  BY <1>2, <2>3, <4>1 DEF Cells
    <3>2. prv[nxt[c]] = c
      <4>1. CASE Order[c] = N
        BY <1>2, <1>3, <2>3, <4>1
      <4>2. CASE Order[c] # N
        <5>1. Order[c] + 1 \in 1 .. N  BY <1>3, <2>3, <4>2
        <5>2. nxt[c] \in Nodes /\ Order[nxt[c]] = Order[c] + 1
          BY <1>2, <2>3, <5>1
        <5>3. prv[nxt[c]] = CellAt(Order[c])  BY <1>2, <1>3, <2>3, <5>2
        <5> QED  BY <2>3, <5>3
      <4> QED  BY <4>1, <4>2
    <3>3. nxt[prv[c]] = c
      <4>1. CASE Order[c] = 1
        BY <1>2, <1>3, <2>3, <4>1
      <4>2. CASE Order[c] # 1
        <5>1. Order[c] - 1 \in 1 .. N  BY <1>3, <2>3, <4>2
        <5>2. prv[c] \in Nodes /\ Order[prv[c]] = Order[c] - 1
          BY <1>2, <2>3, <5>1
        <5>3. nxt[prv[c]] = CellAt(Order[c])  BY <1>2, <1>3, <2>3, <5>2
        <5> QED  BY <2>3, <5>3
      <4> QED  BY <4>1, <4>2
    <3> QED  BY <1>1, <2>3, <3>1, <3>2, <3>3
  <2> QED  BY <2>1, <2>2, <2>3 DEF Cells
<1>5. Ranked(Order)
  <2>1. Order \in [Nodes -> Int] /\ \A n \in Nodes : home[n] = FH
    BY DEF Init
  <2>2. ASSUME NEW n \in Nodes, nxt[n] \in Nodes
        PROVE  Order[n] < Order[nxt[n]]
    <3>1. Order[n] + 1 \in 1 .. N  BY <1>2, <1>3, <2>2
    <3> QED  BY <1>2, <1>3, <2>2, <3>1
  <2>3. ASSUME NEW n \in Nodes
        PROVE  nxt[home[n]] \in Nodes /\ Order[nxt[home[n]]] <= Order[n]
    <3>1. 1 \in 1 .. N  BY <1>3, <2>3
    <3> QED  BY <1>2, <1>3, <2>1, <2>3, <3>1
  <2>4. ASSUME NEW m \in Nodes, NEW n \in Nodes, Order[m] < Order[n]
        PROVE  nxt[m] \in Nodes /\ Order[nxt[m]] <= Order[n]
    <3>1. Order[m] + 1 \in 1 .. N  BY <1>3, <2>4
    <3> QED  BY <1>2, <1>3, <2>4, <3>1
  <2> QED  BY <2>1, <2>2, <2>3, <2>4 DEF Ranked
<1> QED  BY <1>4, <1>5 DEF WellLinked

\* The first free record exists and is a record when the free list is not empty.
LEMMA FirstFree ==
  ASSUME TypeOK, WellLinked, nxt[FH] # FH
  PROVE  nxt[FH] \in Nodes /\ home[nxt[FH]] = FH
BY NodesAssumption DEF TypeOK, WellLinked, Cells, HomeOf

\* The sweep stands on a record when it has not reached the end of the list.
LEMMA SweepOnRecord ==
  ASSUME TypeOK, LockOK, LockedWalksStay, swPc = "load", swPos # NH
  PROVE  swPos \in Nodes /\ home[swPos] = NH
BY NodesAssumption DEF TypeOK, LockOK, LockedWalksStay, Cells, HomeOf

\* uint8_t arithmetic stays in range.
LEMMA CountRange ==
  ASSUME NEW k \in Nat
  PROVE  k % CntMod \in 0 .. CntMod - 1
BY CountAssumption

\* No step of any thread leaves the types.
LEMMA TypeStep ==
  ASSUME TypeOK, WellLinked, LockOK, LockedWalksStay, [Next]_vars
  PROVE  TypeOK'
<1> USE NodesAssumption, LifeAssumption, CountAssumption DEF TypeOK, Cells, OnRecord
<1>1. CASE RxFrame
  BY <1>1 DEF RxFrame, RxUnchanged, listVars, recVars, swVars, apiVars
<1>2. CASE RxHit
  BY <1>2 DEF RxHit, RxUnchanged, listVars, recVars, swVars, apiVars, FirstWrite, Matches
<1>3. CASE RxAdvance
  BY <1>3 DEF RxAdvance, RxUnchanged, listVars, recVars, swVars, apiVars
<1>4. CASE RxMiss
  BY <1>4 DEF RxMiss, RxUnchanged, listVars, recVars, swVars, apiVars
<1>5. CASE RxAlloc
  <2>1. nxt[FH] \in Nodes  BY <1>5, FirstFree DEF RxAlloc
  <2>2. ListTypeOK'  BY <1>5, <2>1, MoveType DEF RxAlloc, ListTypeOK
  <2> QED  BY <1>5, <2>1, <2>2 DEF RxAlloc, ListTypeOK, RxUnchanged, recVars, swVars, apiVars
<1>6. CASE RxFull
  BY <1>6 DEF RxFull, RxUnchanged, listVars, recVars, swVars, apiVars, RxIdle
<1>7. CASE RxCountLoad
  BY <1>7 DEF RxCountLoad, RxUnchanged, listVars, recVars, swVars, apiVars
<1>8. CASE RxCountStore
  <2>1. cnt' \in 0 .. CntMod - 1
    <3>1. rxTmp + 1 \in Nat  OBVIOUS
    <3> QED  BY <1>8, <3>1, CountRange DEF RxCountStore
  <2>2. 0 \in 0 .. CntMod - 1  OBVIOUS
  <2> QED  BY <1>8, <2>1, <2>2 DEF RxCountStore, RxUnchanged, listVars, recVars, swVars, apiVars
<1>9. CASE RxPid
  <2>1. rxMsg.from \in Pids  BY <1>9 DEF RxPid, Messages
  <2> QED  BY <1>9, <2>1 DEF RxPid, RxUnchanged, listVars, recVars, swVars, apiVars, FirstWrite
<1>10. CASE RxLife
  BY <1>10 DEF RxLife, RxUnchanged, listVars, recVars, swVars, apiVars, RxIdle
<1>11. CASE RxAlertLife
  BY <1>11 DEF RxAlertLife, RxUnchanged, listVars, recVars, swVars, apiVars
<1>12. CASE RxMask
  <2>1. rxMsg.alert \in BOOLEAN  BY <1>12 DEF RxMask, Messages
  <2>2. mask' \in [Nodes -> BOOLEAN]  BY <1>12, <2>1 DEF RxMask
  <2> QED  BY <1>12, <2>2 DEF RxMask, RxUnchanged, listVars, recVars, swVars, apiVars, RxIdle
<1>13. CASE SwTake
  BY <1>13 DEF SwTake, SwUnchanged, listVars, recVars, rxVars, apiVars
<1>14. CASE SwLoad
  <2>1. swPos \in Nodes  BY <1>14, SweepOnRecord DEF SwLoad
  <2>2. /\ UNCHANGED <<listVars, recVars, cnt, sem, crowded, rxVars, apiVars>>
        /\ UNCHANGED <<swAlert, swCnt>> /\ swEmpty' \in BOOLEAN /\ got' \in BOOLEAN
    BY <1>14 DEF SwLoad, SwUnchanged
  <2>3. /\ swNode' \in Nodes /\ swPos' \in Cells /\ swPc' = "store"
        /\ swLife' \in 0 .. MaxLife
    BY <1>14, <2>1 DEF SwLoad
  <2> QED  BY <2>2, <2>3 DEF listVars, recVars, rxVars, apiVars
<1>15. CASE SwStore \/ SwLoadAlert \/ SwStoreAlert
  BY <1>15 DEF SwStore, SwLoadAlert, SwStoreAlert, SwOnly, SwUnchanged, listVars,
     rxVars, apiVars, Aged
<1>16. CASE SwTestAlert \/ SwTestMask \/ SwClear \/ SwTest
  <2>1. CASE SwTestAlert \/ SwTestMask
    BY <2>1 DEF SwTestAlert, SwTestMask, SwOnly, SwUnchanged, listVars, rxVars, apiVars
  <2>2. CASE SwClear
    BY <2>2 DEF SwClear, SwOnly, SwUnchanged, listVars, rxVars, apiVars
  <2>3. CASE SwTest
    <3>1. swPc' \in {"kick", "load"} /\ swNode' \in Nodes \cup {NH}
          /\ (swPc' = "kick" => swNode' \in Nodes)
      BY <2>3 DEF SwTest
    <3>2. UNCHANGED <<listVars, recVars, cnt, sem, got, crowded, rxVars, apiVars>>
          /\ UNCHANGED <<swPos, swLife, swAlert, swCnt, swEmpty>>
      BY <2>3 DEF SwTest, SwOnly, SwUnchanged, recVars
    <3> QED
      BY <3>1, <3>2 DEF listVars, recVars, rxVars, apiVars
  <2> QED
    BY <1>16, <2>1, <2>2, <2>3
<1>17. CASE SwKick
  <2>1. swNode \in Nodes  BY <1>17 DEF SwKick
  <2>2. ListTypeOK'  BY <1>17, <2>1, MoveType DEF SwKick, ListTypeOK
  <2> QED  BY <1>17, <2>1, <2>2 DEF SwKick, ListTypeOK, SwUnchanged, recVars, rxVars, apiVars
<1>18. CASE SwUncount
  <2>1. cnt' \in 0 .. CntMod - 1
    <3>1. swCnt + CntMod - 1 \in Nat  OBVIOUS
    <3> QED  BY <1>18, <3>1, CountRange DEF SwUncount
  <2>2. 0 \in 0 .. CntMod - 1  OBVIOUS
  <2> QED  BY <1>18, <2>1, <2>2 DEF SwUncount, SwUnchanged, listVars, recVars, rxVars, apiVars
<1>19. CASE SwRelease
  BY <1>19 DEF SwRelease, SwUnchanged, listVars, recVars, rxVars, apiVars
<1>20. CASE SwReset
  <2>1. 0 \in 0 .. CntMod - 1  OBVIOUS
  <2>2. cnt' \in 0 .. CntMod - 1
    BY <1>20, <2>1 DEF SwReset
  <2>4. got' \in BOOLEAN
    BY <1>20 DEF SwReset
  <2>3. /\ UNCHANGED <<listVars, recVars, sem, crowded, rxVars, apiVars>>
        /\ UNCHANGED <<swPos, swNode, swLife, swAlert, swCnt, swEmpty>>
        /\ swPc' = "period"
    BY <1>20 DEF SwReset, SwUnchanged
  <2> QED  BY <2>2, <2>3, <2>4 DEF SwUnchanged, listVars, recVars, rxVars, apiVars
<1>21. CASE SwPeriod
  BY <1>21 DEF SwPeriod, SwUnchanged, listVars, recVars, rxVars, apiVars
<1>22. CASE ApiTake
  BY <1>22 DEF ApiTake, ApiUnchanged, listVars, recVars, rxVars, swVars
<1>23. CASE ApiAdvance
  BY <1>23 DEF ApiAdvance, ApiUnchanged, listVars, recVars, rxVars, swVars
<1>24. CASE ApiRelease
  BY <1>24 DEF ApiRelease, ApiUnchanged, listVars, recVars, rxVars, swVars
<1>25. CASE UNCHANGED vars
  BY <1>25 DEF vars, listVars, recVars, rxVars, swVars, apiVars
<1> QED
  BY <1>1, <1>2, <1>3, <1>4, <1>5, <1>6, <1>7, <1>8, <1>9, <1>10, <1>11, <1>12, <1>13, <1>14, <1>15, <1>16, <1>17, <1>18, <1>19, <1>20, <1>21, <1>22, <1>23, <1>24, <1>25 DEF Next, RxStep, SwStep

\* Links change only where the code calls list_move or list_move_tail.
LEMMA WhoMoves ==
  ASSUME [Next]_vars
  PROVE  RxAlloc \/ SwKick \/ UNCHANGED listVars
BY DEF Next, RxStep, SwStep, vars, RxUnchanged, SwUnchanged, ApiUnchanged,
       RxFrame, RxHit, RxAdvance, RxMiss, RxFull, RxCountLoad, RxCountStore,
       RxPid, RxLife, RxAlertLife, RxMask, SwTake, SwLoad, SwStore, SwLoadAlert,
       SwStoreAlert, SwTestAlert, SwTestMask, SwClear, SwTest, SwOnly, SwUncount,
       SwRelease, SwReset, SwPeriod, ApiTake, ApiAdvance, ApiRelease

\* Both lists stay doubly linked.
LEMMA WellLinkedStep ==
  ASSUME TypeOK, WellLinked, LockOK, SweepOK, [Next]_vars
  PROVE  WellLinked'
<1> USE NodesAssumption
<1>0. ListTypeOK  BY DEF TypeOK, ListTypeOK
<1>1. CASE RxAlloc
  <2>1. nxt[FH] \in Nodes /\ home[nxt[FH]] = FH
    BY <1>1, FirstFree DEF RxAlloc
  <2> QED  BY <1>0, <1>1, <2>1, MoveWellLinked DEF RxAlloc
<1>2. CASE SwKick
  <2>1. swNode \in Nodes /\ home[swNode] = NH
    BY <1>2 DEF SwKick, SweepOK, TypeOK, OnRecord
  <2> QED  BY <1>0, <1>2, <2>1, MoveWellLinked DEF SwKick
<1>3. CASE UNCHANGED listVars
  BY <1>3 DEF listVars, WellLinked, HomeOf
<1> QED  BY <1>1, <1>2, <1>3, WhoMoves

\* The critical sections of sem_sta exclude each other and their cursors stay
\* on neighbour_list.
LEMMA LockStep ==
  ASSUME TypeOK, WellLinked, LockOK, LockedWalksStay, SweepOK,
         NEW r, Ranked(r), [Next]_vars
  PROVE  LockOK' /\ LockedWalksStay' /\ SweepOK'
<1> USE NodesAssumption DEF LockOK, LockedWalksStay, SweepOK, HomeOf, OnRecord
<1>1. CASE RxAlloc
  BY <1>1 DEF RxAlloc, RxUnchanged, swVars, apiVars
<1>2. CASE SwKick
  <2>1. swNode \in Nodes /\ home[swNode] = NH /\ swPos # swNode /\ sem = "vam"
    BY <1>2 DEF SwKick, TypeOK
  <2>2. home' = [home EXCEPT ![swNode] = FH] /\ swPos' = swPos
    BY <1>2 DEF SwKick, ListMoveTail
  <2>3. swPos \in Nodes => home'[swPos] = home[swPos]
    BY <2>1, <2>2 DEF TypeOK
  <2> QED  BY <1>2, <2>1, <2>2, <2>3 DEF SwKick, SwUnchanged, apiVars
<1>3. CASE SwTake
  <2>1. HomeOf(nxt[NH]) = NH  BY DEF WellLinked, Cells
  <2> QED  BY <1>3, <2>1 DEF SwTake, SwUnchanged, apiVars, listVars
<1>4. CASE SwLoad
  <2>1. swPos \in Nodes /\ home[swPos] = NH
    BY <1>4, SweepOnRecord DEF SwLoad
  <2>2. HomeOf(nxt[swPos]) = NH  BY <2>1 DEF WellLinked, Cells
  <2>3. nxt[swPos] # swPos  BY <2>1 DEF Ranked
  <2> QED  BY <1>4, <2>1, <2>2, <2>3 DEF SwLoad, SwUnchanged, apiVars, listVars
<1>5. CASE ApiTake
  <2>1. HomeOf(nxt[NH]) = NH  BY DEF WellLinked, Cells
  <2> QED  BY <1>5, <2>1 DEF ApiTake, ApiUnchanged, swVars, listVars
<1>6. CASE ApiAdvance
  <2>1. HomeOf(nxt[apiPos]) = HomeOf(apiPos)
    BY DEF WellLinked, TypeOK
  <2> QED  BY <1>6, <2>1 DEF ApiAdvance, ApiUnchanged, swVars, listVars
<1>7. CASE ApiRelease
  BY <1>7 DEF ApiRelease, ApiUnchanged, swVars, listVars
<1>8. CASE \/ SwStore \/ SwLoadAlert \/ SwStoreAlert
           \/ SwTestAlert \/ SwTestMask \/ SwClear \/ SwTest
  BY <1>8 DEF SwStore, SwLoadAlert, SwStoreAlert, SwTestAlert, SwTestMask, SwClear, SwTest,
     SwOnly, SwUnchanged, apiVars, listVars
<1>9. CASE SwUncount
  BY <1>9 DEF SwUncount, SwUnchanged, apiVars, listVars
<1>10. CASE SwRelease \/ SwReset \/ SwPeriod
  BY <1>10 DEF SwRelease, SwReset, SwPeriod, SwUnchanged, apiVars, listVars
<1>11. CASE RxFrame \/ (RxStep /\ ~RxAlloc)
  <2>1. UNCHANGED <<listVars, sem, swVars, apiVars>>
    BY <1>11 DEF RxStep, RxUnchanged, RxFrame, RxHit, RxAdvance, RxMiss,
       RxFull, RxCountLoad, RxCountStore, RxPid, RxLife, RxAlertLife, RxMask
  <2> QED  BY <2>1 DEF listVars, swVars, apiVars
<1>12. CASE UNCHANGED vars
  BY <1>12 DEF vars, listVars, swVars, apiVars
<1> QED
  BY <1>1, <1>2, <1>3, <1>4, <1>5, <1>6, <1>7, <1>8, <1>9, <1>10, <1>11,
     <1>12 DEF Next, RxStep, SwStep

\* The unlocked scan of vam_find_sta: what it has established about the
\* records it passed stays true while the sweep unlinks some of them, so the
\* record it sets up after a miss is the peer's only one.
LEMMA SearchStep ==
  ASSUME TypeOK, WellLinked, LockOK, SweepOK, UniquePids,
         NEW r, Ranked(r), Searched(r), [Next]_vars
  PROVE  UniquePids' /\ \E s : Ranked(s)' /\ Searched(s)'
<1> USE NodesAssumption
<1>0. /\ ListTypeOK
      /\ r \in [Nodes -> Int]
      /\ Listed \subseteq Nodes /\ \A n \in Listed : home[n] = NH
  BY DEF TypeOK, ListTypeOK, Ranked, Listed
<1>a. ASSUME UNCHANGED listVars  PROVE Ranked(r)' /\ Listed' = Listed
  BY <1>a DEF listVars, Ranked, Listed
<1>1. CASE RxFrame
  <2>1. UNCHANGED listVars /\ pid' = pid /\ rxPc' = "scan" /\ rxPos' = nxt[NH]
    BY <1>1 DEF RxFrame, recVars
  <2>2. UniquePids'  BY <1>1, <2>1, <1>a DEF UniquePids, RxLinked, RxFrame
  <2>3. ASSUME NEW n \in Listed
        PROVE  nxt[NH] \in Nodes /\ ~(r[n] < r[nxt[NH]])
    BY <1>0, <2>3 DEF Ranked
  <2>4. Searched(r)'  BY <1>a, <2>1, <2>3 DEF Searched, RxLinked
  <2> QED  BY <1>a, <2>1, <2>2, <2>4
<1>2. CASE RxAdvance
  <2>1. /\ UNCHANGED listVars /\ pid' = pid /\ rxPc' = "scan" /\ rxPc = "scan"
        /\ rxPos' = nxt[rxPos] /\ rxMsg' = rxMsg /\ rxPos # NH /\ rxPos \in Cells
        /\ ~Matches(rxPos)
    BY <1>2 DEF RxAdvance, recVars, TypeOK
  <2>2. UniquePids'  BY <2>1, <1>a DEF UniquePids, RxLinked
  <2>3. ASSUME HomeOf(rxPos)' = NH, NEW n \in Listed,
               nxt[rxPos] \in Nodes => r[n] < r[nxt[rxPos]]
        PROVE  pid[n] # rxMsg.from
    <3>1. HomeOf(nxt[rxPos]) = NH  BY <2>1, <2>3 DEF HomeOf, listVars
    <3>2. HomeOf(rxPos) = NH  BY <2>1, <3>1 DEF WellLinked
    <3>3. rxPos \in Nodes /\ home[rxPos] = NH
      BY <2>1, <3>2 DEF HomeOf, Cells
    <3>4. CASE r[n] < r[rxPos]
      BY <2>1, <3>2, <3>4 DEF Searched
    <3>5. CASE n = rxPos
      BY <2>1, <3>3, <3>5 DEF Matches
    <3>6. CASE n # rxPos /\ ~(r[n] < r[rxPos])
      <4>1. r[rxPos] < r[n]
        <5>1. r[rxPos] # r[n]  BY <1>0, <3>3, <3>6 DEF Ranked
        <5> QED  BY <1>0, <3>3, <3>6, <5>1
      <4>2. nxt[rxPos] \in Nodes /\ r[nxt[rxPos]] <= r[n]
        BY <1>0, <3>3, <4>1 DEF Ranked
      <4> QED  BY <1>0, <2>3, <4>2
    <3> QED  BY <3>4, <3>5, <3>6
  <2>4. Searched(r)'
    BY <1>a, <2>1, <2>3 DEF Searched, RxLinked
  <2> QED  BY <1>a, <2>1, <2>2, <2>4
<1>3. CASE RxMiss
  <2>1. /\ UNCHANGED listVars /\ pid' = pid /\ rxPc' = "alloc" /\ rxPc = "scan"
        /\ rxMsg' = rxMsg /\ rxPos = NH
    BY <1>3 DEF RxMiss, recVars
  <2>2. UniquePids'  BY <2>1, <1>a DEF UniquePids, RxLinked
  <2>3. HomeOf(rxPos) = NH  BY <2>1 DEF HomeOf
  <2>4. Searched(r)'  BY <1>a, <2>1, <2>3 DEF Searched, RxLinked
  <2> QED  BY <1>a, <2>1, <2>2, <2>4
<1>4. CASE RxAlloc
  <2>1. nxt[FH] \in Nodes /\ home[nxt[FH]] = FH
    BY <1>4, FirstFree DEF RxAlloc
  <2>2. PICK s : Ranked(s)'
    BY <1>0, <1>4, <2>1, MoveFrontRanked DEF RxAlloc
  <2>3. /\ rxPc = "alloc" /\ rxPc' = "count" /\ rxPos' = nxt[FH]
        /\ pid' = pid /\ rxMsg' = rxMsg
        /\ home' = [home EXCEPT ![nxt[FH]] = NH]
    BY <1>4 DEF RxAlloc, recVars, ListMove
  <2>4. Listed' = Listed \cup {nxt[FH]}
    BY <2>1, <2>3 DEF Listed, TypeOK
  <2>5. \A n \in Listed : pid[n] # rxMsg.from  BY <2>3 DEF Searched
  <2>6. Searched(s)'  BY <2>3, <2>4, <2>5 DEF Searched, RxLinked
  <2>7. UniquePids'  BY <2>3, <2>4 DEF UniquePids, RxLinked
  <2> QED  BY <2>2, <2>6, <2>7
<1>5. CASE RxCountLoad \/ RxCountStore
  <2>1. /\ UNCHANGED listVars /\ pid' = pid /\ RxLinked /\ RxLinked'
        /\ rxMsg' = rxMsg /\ rxPos' = rxPos /\ rxPc' \in {"count2", "pid"}
    BY <1>5 DEF RxCountLoad, RxCountStore, recVars, RxLinked
  <2>2. UniquePids'  BY <2>1, <1>a DEF UniquePids
  <2>3. Searched(r)'  BY <2>1, <1>a DEF Searched
  <2> QED  BY <1>a, <2>1, <2>2, <2>3
<1>6. CASE RxPid
  <2>1. /\ UNCHANGED listVars /\ RxLinked /\ ~RxLinked'
        /\ rxPc' \in {"life", "alertLife"}
        /\ pid' = [pid EXCEPT ![rxPos] = rxMsg.from] /\ rxPos \in Nodes
    BY <1>6 DEF RxPid, RxLinked, FirstWrite, TypeOK
  <2>2. ASSUME NEW m \in Listed, NEW n \in Listed, m # n
        PROVE  pid'[m] # pid'[n]
    <3>1. pid'[m] = IF m = rxPos THEN rxMsg.from ELSE pid[m]
      BY <1>0, <2>1 DEF TypeOK
    <3>2. pid'[n] = IF n = rxPos THEN rxMsg.from ELSE pid[n]
      BY <1>0, <2>1 DEF TypeOK
    <3>3. CASE rxPos \in {m, n}
      BY <2>1, <2>2, <3>1, <3>2, <3>3 DEF Searched
    <3>4. CASE rxPos \notin {m, n}
      BY <2>2, <3>1, <3>2, <3>4 DEF UniquePids
    <3> QED  BY <3>3, <3>4
  <2>3. UniquePids'  BY <1>a, <2>1, <2>2 DEF UniquePids
  <2>4. Searched(r)'  BY <2>1 DEF Searched
  <2> QED  BY <1>a, <2>1, <2>3, <2>4
<1>7. CASE RxHit \/ RxFull \/ RxLife \/ RxAlertLife \/ RxMask
  <2>1. /\ UNCHANGED listVars /\ pid' = pid /\ ~RxLinked /\ ~RxLinked'
        /\ rxPc' \notin {"scan", "alloc"}
    BY <1>7 DEF RxHit, RxFull, RxLife, RxAlertLife, RxMask, RxIdle, recVars,
                FirstWrite, RxLinked
  <2>2. UniquePids'  BY <2>1, <1>a DEF UniquePids
  <2>3. Searched(r)'  BY <2>1 DEF Searched
  <2> QED  BY <1>a, <2>1, <2>2, <2>3
<1>8. CASE SwKick
  <2>1. swNode \in Nodes /\ home[swNode] = NH
    BY <1>8 DEF SwKick, SweepOK, TypeOK, OnRecord
  <2>2. PICK s : Ranked(s)' /\ \A m \in Nodes : m # swNode => s[m] = r[m]
    BY <1>0, <1>8, <2>1, MoveTailRanked DEF SwKick
  <2>3. /\ pid' = pid /\ UNCHANGED rxVars
        /\ home' = [home EXCEPT ![swNode] = FH]
    BY <1>8 DEF SwKick, SwUnchanged, ListMoveTail, recVars
  <2>4. Listed' = Listed \ {swNode} /\ \A n \in Listed' : n # swNode
    BY <2>1, <2>3 DEF Listed, TypeOK
  <2>5. rxPos' = rxPos /\ rxPc' = rxPc /\ rxMsg' = rxMsg /\ RxLinked' = RxLinked
    BY <2>3 DEF rxVars, RxLinked
  <2>6. UniquePids'  BY <2>3, <2>4, <2>5 DEF UniquePids
  <2>7. ASSUME HomeOf(rxPos)' = NH
        PROVE  HomeOf(rxPos) = NH /\ rxPos # swNode
    BY <2>1, <2>3, <2>5, <2>7 DEF HomeOf, TypeOK
  <2>8. Searched(s)'
    <3>1. ASSUME rxPc = "scan", HomeOf(rxPos)' = NH, NEW n \in Listed',
                 rxPos \in Nodes => s[n] < s[rxPos]
          PROVE  pid[n] # rxMsg.from
      <4>1. n \in Listed /\ n # swNode  BY <2>4, <3>1
      <4>2. rxPos \in Nodes => r[n] < r[rxPos]
        BY <1>0, <2>2, <2>7, <3>1, <4>1
      <4> QED  BY <2>7, <3>1, <4>1, <4>2 DEF Searched
    <3> QED  BY <2>3, <2>4, <2>5, <3>1 DEF Searched
  <2> QED  BY <2>2, <2>6, <2>8
<1>9. CASE UNCHANGED <<listVars, pid, rxVars>>
  <2>1. UniquePids'  BY <1>9, <1>a DEF UniquePids, rxVars, RxLinked
  <2>2. Searched(r)'
    BY <1>9, <1>a DEF Searched, rxVars, RxLinked, HomeOf, listVars
  <2> QED  BY <1>9, <1>a, <2>1, <2>2
<1>10. ASSUME SwTake \/ (SwStep /\ ~SwKick) \/ ApiTake \/ ApiAdvance \/ ApiRelease
       PROVE  UNCHANGED <<listVars, pid, rxVars>>
  BY <1>10 DEF SwStep, SwTake, SwLoad, SwStore, SwLoadAlert, SwStoreAlert,
     SwTestAlert, SwTestMask, SwClear, SwTest, SwOnly, SwUncount, SwRelease, SwReset,
     SwPeriod, SwUnchanged, ApiTake, ApiAdvance, ApiRelease,
     ApiUnchanged, recVars
<1>11. UNCHANGED vars => UNCHANGED <<listVars, pid, rxVars>>
  BY DEF vars, recVars
<1> QED
  BY <1>1, <1>2, <1>3, <1>4, <1>5, <1>6, <1>7, <1>8, <1>9, <1>10, <1>11
  DEF Next, RxStep

-----------------------------------------------------------------------------
(***************************************************************************)
(* The theorems.                                                           *)
(***************************************************************************)
\* The conjunction of the table's invariants is inductive.
THEOREM TableInvariant == Spec => []TableInv
<1>1. Init => TableInv
  <2> SUFFICES ASSUME Init PROVE TableInv  OBVIOUS
  <2>1. TypeOK /\ WellLinked  BY InitTypeOK, InitLists
  <2>2. LockOK /\ LockedWalksStay /\ SweepOK
    BY DEF Init, LockOK, LockedWalksStay, SweepOK, OnRecord
  <2>3. Listed = {}  BY NodesAssumption DEF Init, Listed
  <2>4. UniquePids  BY <2>3 DEF UniquePids
  <2>5. \A r : Searched(r)  BY <2>3 DEF Searched
  <2> QED  BY <2>1, <2>2, <2>4, <2>5, InitLists DEF TableInv
<1>2. TableInv /\ [Next]_vars => TableInv'
  <2> SUFFICES ASSUME TableInv, [Next]_vars PROVE TableInv'  OBVIOUS
  <2>1. PICK r : Ranked(r) /\ Searched(r)  BY DEF TableInv
  <2>2. TypeOK' /\ WellLinked'
    BY TypeStep, WellLinkedStep DEF TableInv
  <2>3. LockOK' /\ LockedWalksStay' /\ SweepOK'
    BY <2>1, LockStep DEF TableInv
  <2>4. UniquePids' /\ \E s : Ranked(s)' /\ Searched(s)'
    BY <2>1, SearchStep DEF TableInv
  <2> QED  BY <2>2, <2>3, <2>4 DEF TableInv
<1> QED  BY <1>1, <1>2, PTL DEF Spec

\* Every variable of the table and of its threads keeps its type.
THEOREM TypeCorrect == Spec => []TypeOK
<1>1. TableInv => TypeOK  BY DEF TableInv
<1> QED  BY <1>1, TableInvariant, PTL

\* neighbour_list and sta_free_list stay doubly linked and disjoint.
THEOREM ListsStayLinked == Spec => []WellLinked
<1>1. TableInv => WellLinked  BY DEF TableInv
<1> QED  BY <1>1, TableInvariant, PTL

\* A walk under sem_sta (vam_update_sta, vam_get_peer_*) never leaves
\* neighbour_list, even when the sweep kicks the record it stands on.
THEOREM WalksStay == Spec => []LockedWalksStay
<1>1. TableInv => LockedWalksStay  BY DEF TableInv
<1> QED  BY <1>1, TableInvariant, PTL

\* vam_find_sta never gives a peer a second record.
THEOREM OneRecordPerPeer == Spec => []UniquePids
<1>1. TableInv => UniquePids  BY DEF TableInv
<1> QED  BY <1>1, TableInvariant, PTL
-----------------------------------------------------------------------------
(***************************************************************************)
(* The table as its users see it.  A record that is filled in is its       *)
(* sender's, and the counts the sweep loaded are not above the record's.   *)
(***************************************************************************)
Filling ==
  /\ rxPc = "idle" => rxMsg = NoMsg
  /\ rxPc \in {"life", "alertLife", "mask"} => pid[rxPos] = rxMsg.from
  /\ rxPc = "life" => rxMsg.kind # "evam"
  /\ rxPc \in {"alertLife", "mask"} => rxMsg.kind # "bsm"

Ageing ==
  /\ swPc = "store" => swLife <= life[swNode]
  /\ swPc = "storeAlert" => swAlert <= alertLife[swNode]

\* Only the receive thread has a message in hand and writes ids.
LEMMA WhoFills ==
  ASSUME [Next]_vars
  PROVE  RxFrame \/ RxStep \/ UNCHANGED <<pid, rxVars>>
BY DEF Next, SwStep, vars, recVars, SwUnchanged, ApiUnchanged,
       SwTake, SwLoad, SwStore, SwLoadAlert, SwStoreAlert, SwTestAlert, SwTestMask,
       SwClear, SwTest, SwOnly, SwKick, SwUncount, SwRelease, SwReset, SwPeriod, ApiTake,
       ApiAdvance, ApiRelease

LEMMA FillingStep ==
  ASSUME TypeOK, Filling, [Next]_vars
  PROVE  Filling'
<1> USE DEF Filling
<1>1. CASE RxFrame \/ RxAdvance \/ RxMiss \/ RxAlloc
  BY <1>1 DEF RxFrame, RxAdvance, RxMiss, RxAlloc
<1>2. CASE RxCountLoad \/ RxCountStore
  BY <1>2 DEF RxCountLoad, RxCountStore
<1>3. CASE RxHit
  BY <1>3 DEF RxHit, Matches, FirstWrite, recVars
<1>4. CASE RxPid
  <2>1. pid'[rxPos] = rxMsg.from
    BY <1>4 DEF RxPid, TypeOK
  <2> QED
    BY <1>4, <2>1 DEF RxPid, FirstWrite
<1>5. CASE RxLife
  BY <1>5 DEF RxLife, RxIdle
<1>6. CASE RxAlertLife \/ RxMask \/ RxFull
  BY <1>6 DEF RxAlertLife, RxMask, RxFull, RxIdle
<1>7. CASE UNCHANGED <<pid, rxVars>>
  BY <1>7 DEF rxVars
<1> QED
  BY <1>1, <1>2, <1>3, <1>4, <1>5, <1>6, <1>7, WhoFills DEF RxStep

\* A renewal between the sweep's load and its store only raises a life.
LEMMA AgeingStep ==
  ASSUME TypeOK, LockOK, LockedWalksStay, Ageing, [Next]_vars
  PROVE  Ageing'
<1> USE LifeAssumption DEF Ageing
<1>0. CASE SwLoadAlert
  <2>1. swNode \in Nodes
    BY <1>0 DEF SwLoadAlert, TypeOK, OnRecord
  <2> QED
    BY <1>0, <2>1 DEF SwLoadAlert, TypeOK
<1>1. CASE SwLoad
  <2>1. swPos \in Nodes
    BY <1>1, SweepOnRecord DEF SwLoad
  <2> QED
    BY <1>1, <2>1 DEF SwLoad, recVars, TypeOK
<1>2. CASE RxLife
  <2>1. life' = [life EXCEPT ![rxPos] = MaxLife] /\ alertLife' = alertLife
        /\ UNCHANGED swVars
    BY <1>2 DEF RxLife, RxUnchanged
  <2> QED
    BY <2>1 DEF swVars, TypeOK
<1>3. CASE RxAlertLife
  <2>1. alertLife' = [alertLife EXCEPT ![rxPos] = AlertLife] /\ life' = life
        /\ UNCHANGED swVars
    BY <1>3 DEF RxAlertLife, RxUnchanged
  <2> QED
    BY <2>1 DEF swVars, TypeOK
<1>4. CASE UNCHANGED <<life, alertLife, swVars>>
  BY <1>4 DEF swVars
<1>5. ASSUME swPc' \notin {"store", "storeAlert"}
      PROVE  Ageing'
  BY <1>5
<1> QED
  BY <1>0, <1>1, <1>2, <1>3, <1>4, <1>5 DEF Next, RxStep, SwStep, vars, recVars,
     RxUnchanged, SwUnchanged, ApiUnchanged, RxFrame, RxHit, RxAdvance, RxMiss,
     RxAlloc, RxFull, RxCountLoad, RxCountStore, RxPid, RxMask, SwTake, SwStore,
     SwStoreAlert, SwTestAlert, SwTestMask, SwClear, SwTest, SwKick, SwUncount, SwRelease,
     SwReset, SwPeriod, ApiTake, ApiAdvance, ApiRelease

Shows == [n \in Nodes |-> Shown(n)]
Hidden == [owner |-> NoPid, life |-> 0, alertLife |-> 0, alert |-> FALSE]
InView(n) == home[n] = NH /\ ~(RxLinked /\ rxPos = n)

\* What a record shows depends on its place and on its own fields alone.
LEMMA ViewOf ==
  ASSUME NEW n \in Nodes
  PROVE  /\ ~InView(n) => Shown(n) = Hidden
         /\ InView(n) => Shown(n) = [owner |-> pid[n], life |-> life[n],
                             alertLife |-> alertLife[n], alert |-> mask[n]]
         /\ ~InView(n)' => Shown(n)' = Hidden
         /\ InView(n)' => Shown(n)' = [owner |-> pid'[n], life |-> life'[n],
                             alertLife |-> alertLife'[n], alert |-> mask'[n]]
BY DEF Shown, InView, Hidden

\* Steps that leave the records and their places alone show nothing.
LEMMA NothingShows ==
  ASSUME UNCHANGED <<home, pid, life, alertLife, mask>>,
         \A n \in Nodes : home[n] = NH => (InView(n)' <=> InView(n))
  PROVE  Shows' = Shows
<1>1. ASSUME NEW n \in Nodes
      PROVE  Shown(n)' = Shown(n)
  <2>1. InView(n)' <=> InView(n)
    BY DEF InView
  <2> QED
    BY <2>1, ViewOf
<1> QED
  BY <1>1 DEF Shows

\* Renewing, ageing and cancelling write fields of one record.
LEMMA FieldShows ==
  ASSUME TypeOK, NEW k \in Nodes, NEW l, NEW a, NEW w,
         UNCHANGED <<home, pid>>, \A n \in Nodes : InView(n)' <=> InView(n),
         life' = [life EXCEPT ![k] = l], alertLife' = [alertLife EXCEPT ![k] = a],
         mask' = [mask EXCEPT ![k] = w]
  PROVE  Shows' = IF InView(k)
                    THEN [Shows EXCEPT ![k] = [owner |-> pid[k], life |-> l,
                                               alertLife |-> a, alert |-> w]]
                    ELSE Shows
<1>1. ASSUME NEW n \in Nodes, n # k
      PROVE  Shown(n)' = Shown(n)
  <2>1. /\ pid'[n] = pid[n] /\ life'[n] = life[n]
        /\ alertLife'[n] = alertLife[n] /\ mask'[n] = mask[n]
    BY <1>1 DEF TypeOK
  <2>2. InView(n)' <=> InView(n)
    OBVIOUS
  <2> QED
    BY <2>1, <2>2, ViewOf
<1>2. /\ InView(k) => Shown(k)' = [owner |-> pid[k], life |-> l,
                                   alertLife |-> a, alert |-> w]
      /\ ~InView(k) => Shown(k)' = Shown(k)
  <2>1. life'[k] = l /\ alertLife'[k] = a /\ mask'[k] = w /\ pid'[k] = pid[k]
    BY DEF TypeOK
  <2>2. InView(k)' <=> InView(k)
    OBVIOUS
  <2> QED
    BY <2>1, <2>2, ViewOf
<1> QED
  BY <1>1, <1>2 DEF Shows

TableVars == <<rxMsg, Shows, <<Ending, Leaving>>>>
TableStep == [Table!Next]_TableVars

\* The slot of a record in view.
LEMMA SlotOf ==
  ASSUME NEW k \in Nodes, InView(k)
  PROVE  /\ Shows[k] = Shown(k)
         /\ Shows[k].owner = pid[k] /\ Shows[k].life = life[k]
         /\ Shows[k].alertLife = alertLife[k] /\ Shows[k].alert = mask[k]
<1>1. Shows[k] = Shown(k)
  BY DEF Shows
<1>2. /\ Shown(k).owner = pid[k] /\ Shown(k).life = life[k]
      /\ Shown(k).alertLife = alertLife[k] /\ Shown(k).alert = mask[k]
  BY ViewOf
<1> QED
  BY <1>1, <1>2

\* The record of the sender in hand, as it is shown.
LEMMA OwnRecord ==
  ASSUME TypeOK, Filling, rxPc \in {"life", "alertLife", "mask"}
  PROVE  /\ rxPos \in Nodes /\ rxMsg \in Messages
         /\ InView(rxPos) => Table!Own(rxPos)
<1>1. rxPos \in Nodes /\ rxMsg \in Messages
  BY DEF TypeOK
<1> QED
  BY <1>1, ViewOf DEF Filling, Table!Own, Shows

\* Filling a record in: rcp_parse_bsm and rcp_parse_evam write one field at a
\* time.  A record kicked meanwhile is filled in out of sight.
LEMMA FillServes ==
  ASSUME TypeOK, Filling, RxLife \/ RxAlertLife \/ RxMask
  PROVE  TableStep
<1> DEFINE k == rxPos
<1>1. /\ k \in Nodes /\ rxMsg \in Messages
      /\ InView(k) => Table!Own(k)
  BY OwnRecord DEF RxLife, RxAlertLife, RxMask
<1>2. /\ UNCHANGED <<home, pid>>
      /\ \A n \in Nodes : InView(n)' <=> InView(n)
  BY DEF RxLife, RxAlertLife, RxMask, RxIdle, RxLinked, InView, listVars
<1>3. UNCHANGED <<Ending, Leaving>>
  BY DEF RxLife, RxAlertLife, RxMask, RxUnchanged, swVars, Ending, Leaving
<1>4. CASE RxLife
  <2>1. /\ rxMsg.kind # "evam" /\ rxMsg' \in {rxMsg, NoMsg}
        /\ life' = [life EXCEPT ![k] = MaxLife]
        /\ alertLife' = [alertLife EXCEPT ![k] = alertLife[k]]
        /\ mask' = [mask EXCEPT ![k] = mask[k]]
    BY <1>4 DEF RxLife, RxIdle, Filling, TypeOK
  <2>2. CASE InView(k)
    <3>1. Shows' = [Shows EXCEPT ![k] = [owner |-> pid[k], life |-> MaxLife,
                      alertLife |-> alertLife[k], alert |-> mask[k]]]
      BY <1>1, <1>2, <2>1, <2>2, FieldShows
    <3>2. Table!Renew(k)
      BY <1>1, <1>3, <2>1, <2>2, <3>1, SlotOf DEF Table!Renew, Table!Becomes, Table!found, Shows
    <3> QED
      BY <1>1, <3>2 DEF TableStep, Table!Next
  <2>3. CASE ~InView(k)
    <3>1. Shows' = Shows
      BY <1>1, <1>2, <2>1, <2>3, FieldShows
    <3> QED
      BY <1>3, <2>1, <3>1 DEF TableStep, TableVars, Table!Next, Table!Finish, Table!found, Shows
  <2> QED
    BY <2>2, <2>3
<1>5. CASE RxAlertLife
  <2>1. /\ rxMsg.kind # "bsm" /\ rxMsg' = rxMsg
        /\ life' = [life EXCEPT ![k] = life[k]]
        /\ alertLife' = [alertLife EXCEPT ![k] = AlertLife]
        /\ mask' = [mask EXCEPT ![k] = mask[k]]
    BY <1>5 DEF RxAlertLife, Filling, TypeOK
  <2>2. CASE InView(k)
    <3>1. Shows' = [Shows EXCEPT ![k] = [owner |-> pid[k], life |-> life[k],
                      alertLife |-> AlertLife, alert |-> mask[k]]]
      BY <1>1, <1>2, <2>1, <2>2, FieldShows
    <3>2. Table!RenewAlert(k)
      BY <1>1, <1>3, <2>1, <2>2, <3>1, SlotOf DEF Table!RenewAlert, Table!Becomes, Table!found, Shows
    <3> QED
      BY <1>1, <3>2 DEF TableStep, Table!Next
  <2>3. CASE ~InView(k)
    <3>1. Shows' = Shows
      BY <1>1, <1>2, <2>1, <2>3, FieldShows
    <3> QED
      BY <1>3, <2>1, <3>1 DEF TableStep, TableVars
  <2> QED
    BY <2>2, <2>3
<1>6. CASE RxMask
  <2>1. /\ rxMsg.kind # "bsm" /\ rxMsg' = NoMsg
        /\ life' = [life EXCEPT ![k] = life[k]]
        /\ alertLife' = [alertLife EXCEPT ![k] = alertLife[k]]
        /\ mask' = [mask EXCEPT ![k] = rxMsg.alert]
    BY <1>6 DEF RxMask, RxIdle, Filling, TypeOK
  <2>2. CASE InView(k)
    <3>1. Shows' = [Shows EXCEPT ![k] = [owner |-> pid[k], life |-> life[k],
                      alertLife |-> alertLife[k], alert |-> rxMsg.alert]]
      BY <1>1, <1>2, <2>1, <2>2, FieldShows
    <3>2. Table!Alert(k)
      BY <1>1, <1>3, <2>1, <2>2, <3>1, SlotOf DEF Table!Alert, Table!Becomes, Table!found, Shows
    <3> QED
      BY <1>1, <3>2 DEF TableStep, Table!Next
  <2>3. CASE ~InView(k)
    <3>1. Shows' = Shows
      BY <1>1, <1>2, <2>1, <2>3, FieldShows
    <3> QED
      BY <1>3, <2>1, <3>1 DEF TableStep, Table!Next, Table!Finish, Table!found, Shows
  <2> QED
    BY <2>2, <2>3
<1> QED
  BY <1>4, <1>5, <1>6

\* Setting a record up: it comes into view when the peer's id is in it.
LEMMA AdmitServes ==
  ASSUME TypeOK, Filling, NEW r, Searched(r), RxPid
  PROVE  TableStep
<1> PICK k : k = rxPos
  OBVIOUS
<1> USE PidsAssumption
<1>1. k \in Nodes /\ rxMsg \in Messages /\ rxMsg.from \in Pids /\ RxLinked
  BY DEF RxPid, TypeOK, Messages, RxLinked
<1>2. /\ UNCHANGED <<home, life, alertLife, mask, rxMsg, rxPos>> /\ ~RxLinked'
      /\ pid' = [pid EXCEPT ![k] = rxMsg.from]
  BY DEF RxPid, listVars, RxLinked, FirstWrite
<1>0. UNCHANGED <<Ending, Leaving>>
  BY DEF RxPid, RxUnchanged, swVars, Ending, Leaving
<1>3. ASSUME NEW n \in Nodes, n # k
      PROVE  Shown(n)' = Shown(n)
  <2>1. pid'[n] = pid[n]
    BY <1>2, <1>3 DEF TypeOK
  <2>2. InView(n)' <=> InView(n)
    BY <1>1, <1>2, <1>3 DEF InView
  <2> QED
    BY <1>2, <2>1, <2>2, ViewOf
<1>4. Shown(k) = Hidden
  BY <1>1, ViewOf DEF InView
<1>5. CASE home[k] = NH
  <2>1. InView(k)'
    BY <1>2, <1>5 DEF InView
  <2>2. Shown(k)' = [owner |-> rxMsg.from, life |-> life[k],
                     alertLife |-> alertLife[k], alert |-> mask[k]]
    BY <1>1, <1>2, <2>1, ViewOf DEF TypeOK
  <2>3. Shows' = [Shows EXCEPT ![k] = [owner |-> rxMsg.from, life |-> life[k],
                     alertLife |-> alertLife[k], alert |-> mask[k]]]
    BY <1>1, <1>3, <2>2 DEF Shows
  <2>4. Shows[k] = Table!Free
    BY <1>1, <1>4 DEF Shows, Hidden, Table!Free
  <2>5. ASSUME NEW o \in Nodes
        PROVE  Shows[o].owner # rxMsg.from
    <3>1. CASE InView(o)
      <4>1. o \in Listed /\ o # k
        BY <1>1, <3>1 DEF InView, Listed
      <4>2. pid[o] # rxMsg.from
        BY <1>1, <4>1 DEF Searched
      <4> QED
        BY <3>1, <4>2, SlotOf
    <3>2. CASE ~InView(o)
      <4>1. Shows[o] = Hidden
        BY <3>2, ViewOf DEF Shows
      <4> QED
        BY <1>1, <4>1 DEF Hidden
    <3> QED
      BY <3>1, <3>2
  <2>6. /\ life[k] \in 0 .. MaxLife /\ alertLife[k] \in 0 .. AlertLife
        /\ mask[k] \in BOOLEAN
    BY <1>1 DEF TypeOK
  <2>7. Table!Admit(k)
    <3>1. Table!Becomes(k, rxMsg.from, life[k], alertLife[k], mask[k])
      BY <2>3 DEF Table!Becomes, Shows
    <3>2. \E l \in 0 .. MaxLife, a \in 0 .. AlertLife, w \in BOOLEAN :
            Table!Becomes(k, rxMsg.from, l, a, w)
      BY <2>6, <3>1
    <3>3. \A o \in Nodes : [n \in Nodes |-> Shown(n)][o].owner # rxMsg.from
      BY <2>5 DEF Shows
    <3> QED
      BY <1>0, <1>1, <1>2, <2>4, <3>2, <3>3 DEF Table!Admit, Table!found, Shows
  <2> QED
    BY <1>1, <2>7 DEF TableStep, Table!Next
<1>6. CASE home[k] # NH
  <2>1. ~InView(k)'
    BY <1>2, <1>6 DEF InView
  <2>2. Shown(k)' = Shown(k)
    BY <1>1, <1>4, <2>1, ViewOf
  <2>3. Shows' = Shows
    BY <1>3, <2>2 DEF Shows
  <2> QED
    BY <1>0, <1>2, <2>3 DEF TableStep, TableVars
<1> QED
  BY <1>5, <1>6

\* A record taken from the free list is still hidden.
LEMMA AllocServes ==
  ASSUME TypeOK, WellLinked, RxAlloc
  PROVE  TableStep
<1> DEFINE k == nxt[FH]
<1>1. k \in Nodes /\ home[k] = FH /\ NH # FH
  BY FirstFree, NodesAssumption DEF RxAlloc
<1>2. /\ home' = [home EXCEPT ![k] = NH] /\ rxMsg' = rxMsg
      /\ UNCHANGED <<pid, life, alertLife, mask>>
      /\ ~RxLinked /\ RxLinked' /\ rxPos' = k
      /\ UNCHANGED <<Ending, Leaving>>
  BY DEF RxAlloc, ListMove, RxLinked, recVars, RxUnchanged, swVars, Ending, Leaving
<1>3. ASSUME NEW n \in Nodes
      PROVE  Shown(n)' = Shown(n)
  <2>1. InView(n)' <=> InView(n)
    BY <1>1, <1>2 DEF InView, TypeOK
  <2> QED
    BY <1>2, <2>1, ViewOf
<1> QED
  BY <1>2, <1>3 DEF TableStep, TableVars, Shows

\* Counting a record's lives down is ageing, in view or not.
LEMMA AgedServes ==
  ASSUME TypeOK, NEW k \in Nodes, NEW l \in 0 .. life[k], NEW a \in 0 .. alertLife[k],
         UNCHANGED <<home, pid, mask, rxVars>>,
         life' = [life EXCEPT ![k] = l], alertLife' = [alertLife EXCEPT ![k] = a],
         swPc \notin {"testMask", "clear", "kick"}, swPc' \notin {"testMask", "clear", "kick"}
  PROVE  TableStep
<1>1. /\ mask' = [mask EXCEPT ![k] = mask[k]] /\ rxMsg' = rxMsg
      /\ \A n \in Nodes : InView(n)' <=> InView(n)
  BY DEF TypeOK, rxVars, InView, RxLinked
<1>2. Ending = {} /\ Leaving = {} /\ Ending' = {} /\ Leaving' = {}
  BY DEF Ending, Leaving
<1>3. CASE InView(k)
  <2>1. Shows' = [Shows EXCEPT ![k] = [owner |-> pid[k], life |-> l,
                    alertLife |-> a, alert |-> mask[k]]]
    BY <1>1, <1>3, FieldShows
  <2>2. Table!Age(k)
    <3>1. l \in 0 .. Shows[k].life /\ a \in 0 .. Shows[k].alertLife
      BY <1>3, SlotOf
    <3>2. Table!Becomes(k, Shows[k].owner, l, a, Shows[k].alert)
      BY <1>3, <2>1, SlotOf DEF Table!Becomes, Shows
    <3> QED
      BY <1>1, <1>2, <3>1, <3>2 DEF Table!Age, Table!Settled, Table!found, Shows
  <2> QED
    BY <2>2 DEF TableStep, Table!Next
<1>4. CASE ~InView(k)
  <2>1. Shows' = Shows
    BY <1>1, <1>4, FieldShows
  <2> QED
    BY <1>1, <1>2, <2>1 DEF TableStep, TableVars
<1> QED
  BY <1>3, <1>4

\* Either store of the sweep counts down from what it loaded, or does nothing.
LEMMA AgeServes ==
  ASSUME TypeOK, Ageing, SwStore \/ SwStoreAlert
  PROVE  TableStep
<1> DEFINE k == swNode
<1>1. k \in Nodes /\ life[k] \in Nat /\ alertLife[k] \in Nat
  BY LifeAssumption DEF SwStore, SwStoreAlert, TypeOK, OnRecord
<1>2. UNCHANGED <<home, pid, mask, rxVars>>
  BY DEF SwStore, SwStoreAlert, SwOnly, SwUnchanged, listVars
<1>3. swPc \notin {"testMask", "clear", "kick"} /\ swPc' \notin {"testMask", "clear", "kick"}
  BY DEF SwStore, SwStoreAlert
<1>4. CASE SwStore
  <2>1. PICK l \in 0 .. life[k] : life' = [life EXCEPT ![k] = l]
    <3>1. CASE swLife > 0
      <4>1. swLife - 1 \in 0 .. life[k]
        BY <1>1, <1>4, <3>1, LifeAssumption DEF SwStore, Ageing, TypeOK
      <4> QED
        BY <1>4, <3>1, <4>1 DEF SwStore, Aged
    <3>2. CASE ~(swLife > 0)
      BY <1>1, <1>4, <3>2 DEF SwStore, Aged, TypeOK
    <3> QED
      BY <3>1, <3>2
  <2>2. alertLife' = [alertLife EXCEPT ![k] = alertLife[k]]
    BY <1>4 DEF SwStore, TypeOK
  <2>3. alertLife[k] \in 0 .. alertLife[k]
    BY <1>1
  <2> HIDE DEF k
  <2> QED
    BY <1>1, <1>2, <1>3, <2>1, <2>2, <2>3, AgedServes
<1>5. CASE SwStoreAlert
  <2>1. PICK a \in 0 .. alertLife[k] : alertLife' = [alertLife EXCEPT ![k] = a]
    <3>1. CASE swAlert > 0
      <4>1. swAlert - 1 \in 0 .. alertLife[k]
        BY <1>1, <1>5, <3>1, LifeAssumption DEF SwStoreAlert, Ageing, TypeOK
      <4> QED
        BY <1>5, <3>1, <4>1 DEF SwStoreAlert, Aged
    <3>2. CASE ~(swAlert > 0)
      BY <1>1, <1>5, <3>2 DEF SwStoreAlert, Aged, TypeOK
    <3> QED
      BY <3>1, <3>2
  <2>2. life' = [life EXCEPT ![k] = life[k]]
    BY <1>5 DEF SwStoreAlert, TypeOK
  <2>3. life[k] \in 0 .. life[k]
    BY <1>1
  <2> HIDE DEF k
  <2> QED
    BY <1>1, <1>2, <1>3, <2>1, <2>2, <2>3, AgedServes
<1> QED
  BY <1>4, <1>5

\* The sweep's tests find a life over only when the record shows that it is.
LEMMA TestServes ==
  ASSUME TypeOK, SwTestAlert \/ SwTest
  PROVE  TableStep
<1> DEFINE k == swNode
<1>1. k \in Nodes
  BY DEF SwTestAlert, SwTest, TypeOK, OnRecord
<1>2. /\ UNCHANGED <<home, pid, life, alertLife, mask, rxMsg>>
      /\ \A n \in Nodes : InView(n)' <=> InView(n)
  BY DEF SwTestAlert, SwTest, SwOnly, SwUnchanged, rxVars, listVars, InView, RxLinked
<1>3. Shows' = Shows
  BY <1>2, NothingShows
<1>4. Ending = {} /\ Leaving = {}
  BY DEF SwTestAlert, SwTest, Ending, Leaving
<1>5. /\ alertLife[k] = 0 => Shows[k].alertLife = 0
      /\ Expired(k) => Shows[k].life = 0 /\ Shows[k].alertLife = 0
  <2>1. CASE InView(k)
    BY <1>1, <2>1, ViewOf DEF Expired, Shows
  <2>2. CASE ~InView(k)
    BY <1>1, <2>2, ViewOf DEF Shows, Hidden
  <2> QED
    BY <2>1, <2>2
<1>6. CASE SwTestAlert
  <2>1. CASE alertLife[k] = 0
    <3>1. Ending' = {k} /\ Leaving' = {}
      BY <1>6, <2>1 DEF SwTestAlert, Ending, Leaving
    <3>2. Table!FindAlertOver(k)
      BY <1>2, <1>3, <1>4, <1>5, <2>1, <3>1 DEF Table!FindAlertOver, Table!Settled, Shows
    <3> QED
      BY <1>1, <3>2 DEF TableStep, Table!Next
  <2>2. CASE alertLife[k] # 0
    <3>1. Ending' = {} /\ Leaving' = {}
      BY <1>6, <2>2 DEF SwTestAlert, Ending, Leaving
    <3> QED
      BY <1>2, <1>3, <1>4, <3>1 DEF TableStep, TableVars
  <2> QED
    BY <2>1, <2>2
<1>7. CASE SwTest
  <2>1. CASE Expired(k)
    <3>1. Ending' = {} /\ Leaving' = {k}
      BY <1>7, <2>1 DEF SwTest, Ending, Leaving
    <3>2. Table!FindGone(k)
      BY <1>2, <1>3, <1>4, <1>5, <2>1, <3>1 DEF Table!FindGone, Table!Settled, Shows
    <3> QED
      BY <1>1, <3>2 DEF TableStep, Table!Next
  <2>2. CASE ~Expired(k)
    <3>1. Ending' = {} /\ Leaving' = {}
      BY <1>7, <2>2 DEF SwTest, Ending, Leaving
    <3> QED
      BY <1>2, <1>3, <1>4, <3>1 DEF TableStep, TableVars
  <2> QED
    BY <2>1, <2>2
<1> QED
  BY <1>6, <1>7

\* An alert that was found over is ended, or there is none to end.
LEMMA ClearServes ==
  ASSUME TypeOK, SwTestMask \/ SwClear
  PROVE  TableStep
<1> DEFINE k == swNode
<1>1. k \in Nodes
  BY DEF SwTestMask, SwClear, TypeOK, OnRecord
<1>2. /\ UNCHANGED <<home, pid, life, alertLife, rxMsg>>
      /\ \A n \in Nodes : InView(n)' <=> InView(n)
      /\ mask' = [mask EXCEPT ![k] = FALSE] \/ UNCHANGED mask
  BY DEF SwTestMask, SwClear, SwOnly, SwUnchanged, rxVars, listVars, InView, RxLinked
<1>3. Ending = {k} /\ Leaving = {} /\ Leaving' = {}
  BY DEF SwTestMask, SwClear, Ending, Leaving
<1>4. CASE SwTestMask /\ mask[k]
  <2>1. Shows' = Shows
    BY <1>2, <1>4, NothingShows DEF SwTestMask
  <2>2. Ending' = {k}
    BY <1>4 DEF SwTestMask, Ending
  <2> QED
    BY <1>2, <1>3, <2>1, <2>2 DEF TableStep, TableVars
<1>5. CASE SwClear \/ ~mask[k]
  <2>1. Ending' = {}
    BY <1>5 DEF SwTestMask, SwClear, Ending
  <2>2. /\ life' = [life EXCEPT ![k] = life[k]]
        /\ alertLife' = [alertLife EXCEPT ![k] = alertLife[k]]
        /\ mask' = [mask EXCEPT ![k] = FALSE]
    BY <1>1, <1>2, <1>5 DEF SwTestMask, SwClear, TypeOK
  <2>3. CASE InView(k)
    <3>1. Shows' = [Shows EXCEPT ![k] = [owner |-> pid[k], life |-> life[k],
                      alertLife |-> alertLife[k], alert |-> FALSE]]
      BY <1>1, <1>2, <2>2, <2>3, FieldShows
    <3> QED
      BY <1>1, <1>2, <1>3, <2>1, <2>3, <3>1, SlotOf
      DEF Table!CancelAlert, Table!Becomes, Shows, TableStep, Table!Next
  <2>4. CASE ~InView(k)
    <3>1. Shows' = Shows
      BY <1>1, <1>2, <2>2, <2>4, FieldShows
    <3>2. Shows[k] = Hidden
      BY <1>1, <2>4, ViewOf DEF Shows
    <3>3. Shows' = [Shows EXCEPT ![k] = [owner |-> Shows[k].owner, life |-> Shows[k].life,
                      alertLife |-> Shows[k].alertLife, alert |-> FALSE]]
      <4>1. Shows = [Shows EXCEPT ![k] = Shows[k]]
        BY <1>1 DEF Shows
      <4>2. [owner |-> Hidden.owner, life |-> Hidden.life,
             alertLife |-> Hidden.alertLife, alert |-> FALSE] = Hidden
        BY DEF Hidden
      <4> QED
        BY <3>1, <3>2, <4>1, <4>2
    <3> QED
      BY <1>1, <1>2, <1>3, <2>1, <3>3
      DEF Table!CancelAlert, Table!Becomes, Shows, TableStep, Table!Next
  <2> QED
    BY <2>3, <2>4
<1> QED
  BY <1>4, <1>5

\* A kicked record leaves the view, if it was in it: its peer is dropped.
LEMMA KickServes ==
  ASSUME TypeOK, SwKick
  PROVE  TableStep
<1> PICK k : k = swNode
  OBVIOUS
<1>1. k \in Nodes /\ NH # FH
  BY NodesAssumption DEF SwKick, TypeOK, OnRecord
<1>2. /\ home' = [home EXCEPT ![k] = FH]
      /\ UNCHANGED <<recVars, rxMsg, rxPc, rxPos>>
  BY <1>1 DEF SwKick, SwUnchanged, rxVars, ListMoveTail
<1>3. ASSUME NEW n \in Nodes, n # k
      PROVE  Shown(n)' = Shown(n)
  <2>1. InView(n)' <=> InView(n)
    BY <1>2, <1>3 DEF InView, RxLinked, TypeOK
  <2> QED
    BY <1>2, <1>3, <2>1, ViewOf DEF recVars
<1>4. Shown(k)' = Hidden
  <2>1. ~InView(k)'
    BY <1>1, <1>2 DEF InView, TypeOK
  <2> QED
    BY <1>1, <2>1, ViewOf
<1>5. Shows' = [Shows EXCEPT ![k] = Table!Free]
  BY <1>1, <1>3, <1>4 DEF Shows, Hidden, Table!Free
<1>6. Ending = {} /\ Leaving = {k} /\ Ending' = {} /\ Leaving' = {}
  BY DEF SwKick, Ending, Leaving
<1>7. Table!Drop(k)
  BY <1>2, <1>5, <1>6 DEF Table!Drop, Shows
<1> QED
  BY <1>1, <1>7 DEF TableStep, Table!Next

\* The other steps show nothing of what they do.
LEMMA OthersServe ==
  ASSUME TypeOK, Filling, [Next]_vars, ~RxAlloc, ~RxPid,
         ~(RxLife \/ RxAlertLife \/ RxMask), ~(SwStore \/ SwStoreAlert),
         ~(SwTestAlert \/ SwTest), ~(SwTestMask \/ SwClear), ~SwKick
  PROVE  TableStep
<1>0. UNCHANGED <<swPc, swNode>> => UNCHANGED <<Ending, Leaving>>
  BY DEF Ending, Leaving
<1>1. CASE RxFrame
  <2>1. /\ UNCHANGED <<home, pid, life, alertLife, mask>>
        /\ UNCHANGED <<swPc, swNode>> /\ \A n \in Nodes : InView(n)' <=> InView(n)
    BY <1>1 DEF RxFrame, RxUnchanged, swVars, listVars, recVars, InView, RxLinked
  <2>2. Shows' = Shows
    BY <2>1, NothingShows
  <2>3. Table!Hear(rxMsg') /\ rxMsg' \in Messages
    BY <1>0, <1>1, <2>1, <2>2 DEF RxFrame, Filling, Table!Hear, Table!found, Shows
  <2> QED
    BY <2>3 DEF TableStep, Table!Next
<1>2. CASE RxFull
  <2>1. /\ UNCHANGED <<home, pid, life, alertLife, mask>> /\ rxMsg' = NoMsg
        /\ UNCHANGED <<swPc, swNode>> /\ \A n \in Nodes : InView(n)' <=> InView(n)
    BY <1>2 DEF RxFull, RxIdle, RxUnchanged, swVars, listVars, recVars, InView, RxLinked
  <2>2. Shows' = Shows
    BY <2>1, NothingShows
  <2> QED
    BY <1>0, <2>1, <2>2 DEF TableStep, Table!Next, Table!Finish, Table!found, Shows
<1>3. CASE RxHit \/ RxAdvance \/ RxMiss \/ RxCountLoad \/ RxCountStore
  <2>1. /\ UNCHANGED <<home, pid, life, alertLife, mask, rxMsg>>
        /\ UNCHANGED <<swPc, swNode>> /\ \A n \in Nodes : InView(n)' <=> InView(n)
    BY <1>3 DEF RxUnchanged, swVars, RxHit, RxAdvance, RxMiss, RxCountLoad, RxCountStore, FirstWrite,
       listVars, recVars, InView, RxLinked
  <2>2. Shows' = Shows
    BY <2>1, NothingShows
  <2> QED
    BY <1>0, <2>1, <2>2 DEF TableStep, TableVars
<1>4. CASE /\ UNCHANGED <<listVars, recVars, rxVars>>
           /\ UNCHANGED <<swPc, swNode>> \/ {swPc, swPc'} \cap {"testMask", "clear", "kick"} = {}
  <2>1. /\ UNCHANGED <<home, pid, life, alertLife, mask, rxMsg>>
        /\ \A n \in Nodes : InView(n)' <=> InView(n)
    BY <1>4 DEF listVars, recVars, rxVars, InView, RxLinked
  <2>2. Shows' = Shows
    BY <2>1, NothingShows
  <2>3. UNCHANGED <<Ending, Leaving>>
    BY <1>4 DEF Ending, Leaving
  <2> QED
    BY <2>1, <2>2, <2>3 DEF TableStep, TableVars
<1>5. ASSUME SwTake \/ SwStep
      PROVE  /\ UNCHANGED <<listVars, recVars, rxVars>>
             /\ {swPc, swPc'} \cap {"testMask", "clear", "kick"} = {}
  BY <1>5 DEF SwStep, SwTake, SwLoad, SwLoadAlert, SwUncount, SwRelease, SwReset,
     SwPeriod, SwOnly, SwUnchanged, recVars
<1>6. ASSUME ApiTake \/ ApiAdvance \/ ApiRelease \/ UNCHANGED vars
      PROVE  UNCHANGED <<listVars, recVars, rxVars, swPc, swNode>>
  BY <1>6 DEF vars, swVars, ApiTake, ApiAdvance, ApiRelease, ApiUnchanged
<1> QED
  BY <1>1, <1>2, <1>3, <1>4, <1>5, <1>6 DEF Next, RxStep

\* The table is a PeerTable: the links, the unlocked scan, the torn counts and
\* the field-by-field filling in of app/vam show each peer its own record only.
THEOREM TableImplements == Spec => TableServes
<1>1. Init => Filling /\ Ageing /\ Table!Init
  <2>1. Init => Shows = [n \in Nodes |-> Hidden]
    BY NodesAssumption DEF Init, Shows, Shown, Hidden
  <2> QED
    BY <2>1 DEF Init, Filling, Ageing, Table!Init, Table!Free, Shows, Hidden, Ending, Leaving
<1>2. TableInv /\ Filling /\ Ageing /\ [Next]_vars => Filling' /\ Ageing'
  BY FillingStep, AgeingStep DEF TableInv
<1>3. TableInv /\ Filling /\ Ageing /\ [Next]_vars => TableStep
  <2> SUFFICES ASSUME TableInv, Filling, Ageing, [Next]_vars
               PROVE  TableStep
    OBVIOUS
  <2>1. PICK r : Searched(r)
    BY DEF TableInv
  <2>2. RxPid => TableStep
    BY <2>1, AdmitServes DEF TableInv
  <2> QED
    BY <2>2, FillServes, AllocServes, AgeServes, TestServes, ClearServes,
       KickServes, OthersServe
    DEF TableInv
<1>4. TableStep => [Table!Next]_<<rxMsg, [n \in Nodes |-> Shown(n)], Table!found>>
  BY DEF TableStep, TableVars, Table!found, Shows
<1> QED
  BY <1>1, <1>2, <1>3, <1>4, TableInvariant, PTL DEF Spec, TableServes, Table!Spec
=============================================================================
