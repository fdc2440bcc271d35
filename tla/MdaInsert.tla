------------------------------ MODULE MdaInsert ------------------------------
(***************************************************************************)
(* The loop of add_forward_list (cv_vam_mda.c), on the links of the list   *)
(* as list.h writes them.  MdaForward models the call by what it does to   *)
(* the sequence of waiting buffers; InsertionByLinks says that this is     *)
(* what the loop does.                                                     *)
(***************************************************************************)
EXTENDS Integers, Sequences

Head0  == 0            \* &p_mda->forward_waiting_list
New(n) == n + 1        \* the new buffer; 1 .. n are the waiting ones

\* __list_add(new, prev, next); the assignments follow each other, which
\* matters when new is linked next to itself
ListAdd(s, new, prev, next) ==
  [s EXCEPT !.prv = [[@ EXCEPT ![next] = new] EXCEPT ![new] = prev],
            !.nxt = [[@ EXCEPT ![new] = next] EXCEPT ![prev] = new]]

\* a list of buffers with increments d, and a new one with delay D; its own
\* links are not yet set
Start(d, D) ==
  LET n == Len(d)
  IN  [nxt   |-> [c \in 0 .. n + 1 |-> IF c < n THEN c + 1 ELSE Head0],
       prv   |-> [c \in 0 .. n + 1 |-> IF c = 0 THEN n ELSE c - 1],
       delay |-> [c \in 1 .. n + 1 |-> IF c <= n THEN d[c] ELSE D],
       total |-> 0, adj |-> 0, inserted |-> FALSE, pos |-> 1]

Less(delay, c, x) == [delay EXCEPT ![c] = @ - x]

\* the part of the loop body under inserted == 0
Insert(s, new) ==
  LET p     == s.pos
      total == s.total + s.delay[p]
  IN  IF s.inserted THEN s
      ELSE IF total > s.delay[new]
        THEN [ListAdd(s, new, s.prv[p], p) EXCEPT
                !.total = total, !.inserted = TRUE,
                !.adj = s.delay[new] - (total - s.delay[p])]
        ELSE [ListAdd(s, new, p, s.nxt[p]) EXCEPT
                !.total = total, !.delay = Less(@, new, total)]

\* one round of list_for_each_entry
Round(s, new) ==
  LET t == Insert(s, new)
  IN  [t EXCEPT !.delay = IF t.adj > 0 THEN Less(@, s.pos, t.adj) ELSE @,
                !.pos = t.nxt[s.pos]]

\* where the loop is after as many rounds as it can need
Loop(d, D) ==
  LET at[k \in 0 .. Len(d) + 2] ==
        IF k = 0 THEN Start(d, D)
        ELSE IF at[k - 1].pos = Head0 THEN at[k - 1]
        ELSE Round(at[k - 1], New(Len(d)))
  IN  at[Len(d) + 2]

\* the loop stands on the new buffer, which is linked to itself; no further
\* round changes that
Stuck(s, new) ==
  /\ s.pos = new /\ s.nxt[new] = new
  /\ LET t == Round(s, new) IN t.pos = new /\ t.nxt[new] = new

\* RxAddFirst: the new buffer is first, its delay taken off all the others
AddedFirst(s, d, D) ==
  LET n == Len(d)
  IN  /\ s.pos = Head0
      /\ s.nxt[Head0] = New(n) /\ s.nxt[New(n)] = 1
      /\ \A c \in 1 .. n : s.nxt[c] = IF c < n THEN c + 1 ELSE Head0
      /\ \A c \in 0 .. n + 1 : s.prv[s.nxt[c]] = c
      /\ s.delay = [c \in 1 .. n + 1 |-> IF c <= n THEN d[c] - D ELSE D]

\* A shorter delay than the first buffer's is inserted first (RxAddFirst), any
\* other one ends in the loop (RxAddLoops).
InsertionByLinks(d, D) ==
  IF D < d[1] THEN AddedFirst(Loop(d, D), d, D)
              ELSE Stuck(Loop(d, D), New(Len(d)))
=============================================================================
