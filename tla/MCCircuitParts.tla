--------------------------- MODULE MCCircuitParts ---------------------------
(***************************************************************************)
(* The parts of the circuits with the sizes of the code where TLC can, and *)
(* with smaller ones on both sides of each boundary where it cannot.       *)
(***************************************************************************)
EXTENDS CircuitParts, FiniteSets

Region(f, n) == [first |-> f, blocks |-> n]

\* FULL_MDOC's signed message and items, and AGE's attribute at the end of the table.
MCRegions == {Region(0, 22), Region(22, 2), Region(24, 3), Region(30, 2)}

Aux(i) == <<"aux", i>>
Input(i) == <<"input", i>>

\* Segments that fill their padding and segments that do not, one of them empty as the
\* step's rest segment is, a row without entries, and a circuit past the budget.
MCCircuits ==
  {[shared |-> 3, precommitted |-> 1, rest |-> 2, public |-> 2,
    rows |-> <<<<Aux(0), Aux(3), Input(0)>>, <<Aux(2), Aux(5), Input(2)>>, <<Aux(4)>>>>],
   [shared |-> 2, precommitted |-> 3, rest |-> 0, public |-> 1,
    rows |-> <<<<Aux(1), Aux(4)>>, <<>>, <<Input(1), Aux(2)>>, <<Aux(0)>>>>],
   [shared |-> 9, precommitted |-> 3, rest |-> 3, public |-> 1, rows |-> <<<<Aux(0)>>>>]}

\* digestIDs on both sides of every class boundary and of the top bit.
Number(n) == [i \in 0..3 |-> (n \div (256 ^ (3 - i))) % 256]
MCDigestIds ==
  {Number(n) : n \in {0, 23, 24, 26, 255, 256, 65535, 65536, 2147483647}}
  \cup {[i \in 0..3 |-> IF i = 0 THEN 128 ELSE 0]}

\* Two messages of two blocks and one block; a digest no chain of blocks has.
MCMessageBlocks == <<2, 1>>
MCMaxBytes == <<119, 55>>
MCStrayDigest == <<"stray">>

\* State constraint: at most this many changed fields in one folded presentation.
MaxChanges == 3
Changes ==
  LET built == Fold!from_witness(proof.lens)
  IN  Cardinality({j \in Fold!Indices : j \in DOMAIN proof.hash.digests =>
                      proof.hash.digests[j] # built.digests[j]})
    + Cardinality({j \in Fold!Indices : proof.hash.blocks[j] # built.blocks[j]})
    + Cardinality({i \in DOMAIN proof.steps : proof.steps[i] # i - 1})
FewChanges == phase \in {"building", "refused"} \/ Changes <= MaxChanges
=============================================================================
