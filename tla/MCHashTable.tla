---------------------------- MODULE MCHashTable ----------------------------
(***************************************************************************)
(* A table of ten positions with the order of FULL_MDOC: a signed region   *)
(* of two blocks, a region after an unused position and an unused position *)
(* at the end.  Messages end on both sides of a block and of their         *)
(* regions; the prover changes what was built of some of them.             *)
(***************************************************************************)
EXTENDS HashTable

Region(f, n) == [first |-> f, blocks |-> n]

MCRegions ==
  [signed |-> Region(0, 2), attribute |-> Region(2, 2), ssc |-> Region(4, 1),
   seed |-> Region(8, 1), nym |-> Region(6, 2)]

\* The layout of the code, which the theorems cover as well.
FullMdoc == INSTANCE HashTable WITH
  POSITIONS <- 32,
  Regions <- [signed |-> Region(0, 22), attribute |-> Region(22, 2), ssc |-> Region(24, 3),
              seed |-> Region(30, 1), nym |-> Region(28, 2)]

ASSUME MCAssumption == LayoutAssumption /\ FullMdoc!LayoutAssumption

\* State constraint: which messages' tables are changed.
FewForged == changes = 0 \/ (msg.signed \in {70, 150} /\ msg.attribute = 60 /\ msg.ssc = 50)
=============================================================================
