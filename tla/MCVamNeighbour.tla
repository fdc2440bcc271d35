--------------------------- MODULE MCVamNeighbour ---------------------------
(***************************************************************************)
(* Instances of VamNeighbour for TLC.  There is one peer more than there   *)
(* are records, so the free list runs out, and lives are short, so records *)
(* expire in the middle of the other threads' operations.                  *)
(***************************************************************************)
EXTENDS VamNeighbour, TLC

\* Peers are interchangeable.  Records are not: Order numbers them.
PeerSymmetry == Permutations(Pids)
=============================================================================
