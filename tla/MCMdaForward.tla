---------------------------- MODULE MCMdaForward ----------------------------
(***************************************************************************)
(* Instances of MdaForward for TLC: one frame more than there are records, *)
(* and three copies at a time.  MdaForward's insertion is compared with    *)
(* that of MdaInsert for all short lists.                                  *)
(***************************************************************************)
EXTENDS MdaForward, MdaInsert, TLC

CONSTANTS
  MaxLen,   \* bound: the longest list
  Delays    \* bound: the increments of the buffers, the new one's delay

\* Frames and buffers are interchangeable.
Symmetry == Permutations(Msgs) \cup Permutations(Bufs)

\* Increments of waiting buffers can fall below 0.
DelaysChecked == -2 .. 4

\* RxAddFirst and RxAddLoops are what the loop on the links does.
ASSUME InsertionChecked ==
  \A n \in 1 .. MaxLen : \A d \in [1 .. n -> Delays], D \in Delays \cap Nat :
    InsertionByLinks(d, D)
=============================================================================
