-------------------------------- MODULE MCOam -------------------------------
(***************************************************************************)
(* Instances of Oam for TLC: an agent with one caller more than records,   *)
(* and an agent with one caller.                                           *)
(***************************************************************************)
EXTENDS Oam, TLC

CONSTANTS a1, a2, a3, b1, pa, pb

\* b1's requests are as long as those of a1 and a2
OneAgent == [c \in Callers |-> IF c = b1 THEN pb ELSE pa]
TwoSizes == [c \in Callers |-> IF c = a3 THEN 2 ELSE 1]
FdPerThread == 1 .. Cardinality(Threads)

\* Threads are interchangeable, and so are callers that ask the same.
Symmetries == Permutations(Threads) \cup Permutations({a1, a2} \cap Callers)
=============================================================================
