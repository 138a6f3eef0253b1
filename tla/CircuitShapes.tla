--------------------------- MODULE CircuitShapes ---------------------------
(***************************************************************************)
(* The circuits as data: shapes() writes the shapes of the blank circuits, *)
(* Keys::from_shapes (engine/statement.rs) refuses any bytes but the       *)
(* approved ones, and setup_from_shapes_in (engine/app.rs) validates them  *)
(* and replays them as a circuit.  A shape keeps its columns padded per    *)
(* segment; a circuit numbers its private variables without gaps.          *)
(*                                                                         *)
(* One of the two shapes and one of its three matrices stand for all, and  *)
(* the coefficients are left out: an entry is a column.                    *)
(***************************************************************************)
EXTENDS Naturals, Sequences, FiniteSets, SequencesExt

CONSTANTS
  Circuits,     \* [shared, precommitted, rest, public, rows]: sizes, and columns of each row
  Width,        \* segments are padded to a multiple of it (2048)
  Budget,       \* rules and padded values at most
  MaxSize,      \* bound on a damaged number
  MaxFaults     \* bound on the numbers damaged

Aux(i) == <<"aux", i>>
Input(i) == <<"input", i>>

\* What a row may name: a private value, the constant one or a public value.
Variables(c) ==
  {Aux(i) : i \in 0..c.shared + c.precommitted + c.rest - 1} \cup {Input(i) : i \in 0..c.public}

CircuitAssumption ==
  \A c \in Circuits :
    /\ c = [shared |-> c.shared, precommitted |-> c.precommitted, rest |-> c.rest,
            public |-> c.public, rows |-> c.rows]
    /\ c.shared \in Nat /\ c.precommitted \in Nat /\ c.rest \in Nat /\ c.public \in Nat
    /\ c.rows \in Seq(Seq(Variables(c)))

WidthAssumption ==
  /\ Width \in Nat \ {0} /\ Budget \in Nat /\ MaxSize \in Nat /\ MaxFaults \in Nat
  /\ CircuitAssumption

Padded(n) == Width * ((n + Width - 1) \div Width)

\* The padded values of a shape.
Values(s) == s.num_shared + s.num_precommitted + s.num_rest

-----------------------------------------------------------------------------
(* The prover's serialization of a shape (ShapeCS, external).              *)

\* The padded column of a variable.
Column(c, v) ==
  IF v[1] = "input" THEN Padded(c.shared) + Padded(c.precommitted) + Padded(c.rest) + v[2]
  ELSE IF v[2] < c.shared THEN v[2]
  ELSE IF v[2] < c.shared + c.precommitted THEN Padded(c.shared) + v[2] - c.shared
  ELSE Padded(c.shared) + Padded(c.precommitted) + v[2] - c.shared - c.precommitted

\* The columns of the rules, padded with empty rows, and where each row ends.
Columns(c) ==
  [r \in 1..Padded(Len(c.rows)) |->
     IF r <= Len(c.rows) THEN [k \in DOMAIN c.rows[r] |-> Column(c, c.rows[r][k])] ELSE <<>>]

RowEnds(rows) ==
  LET ends[r \in 0..Len(rows)] == IF r = 0 THEN 0 ELSE ends[r - 1] + Len(rows[r]) IN ends

\* Compressed sparse rows.
Stored(c) ==
  LET rows == Columns(c)
      ends == RowEnds(rows)
  IN [num_cons |-> Len(rows), num_cons_unpadded |-> Len(c.rows),
      num_shared |-> Padded(c.shared), num_shared_unpadded |-> c.shared,
      num_precommitted |-> Padded(c.precommitted), num_precommitted_unpadded |-> c.precommitted,
      num_rest |-> Padded(c.rest), num_rest_unpadded |-> c.rest,
      num_public |-> c.public, num_challenges |-> 0,
      cols |-> Padded(c.shared) + Padded(c.precommitted) + Padded(c.rest) + 1 + c.public,
      entries |-> ends[Len(rows)],
      indices |-> FlattenSeq(rows),
      indptr |-> [r \in 1..Len(rows) + 1 |-> ends[r - 1]]]

-----------------------------------------------------------------------------
(* Reading it back.                                                        *)

\* Mutant: the last pointer is not compared with the number of entries.
validate_matrix_NoEnd(s, cols) ==
  /\ s.cols = cols /\ Len(s.indices) = s.entries
  /\ Len(s.indptr) = s.num_cons + 1
  /\ s.indptr[1] = 0
  /\ \A r \in 1..Len(s.indptr) - 1 : s.indptr[r] <= s.indptr[r + 1]
  /\ \A k \in DOMAIN s.indices : s.indices[k] < cols

\* StoredMatrix::validate.
validate_matrix(s, cols) ==
  /\ s.cols = cols /\ Len(s.indices) = s.entries
  /\ Len(s.indptr) = s.num_cons + 1
  /\ s.indptr[1] = 0 /\ s.indptr[Len(s.indptr)] = s.entries
  /\ \A r \in 1..Len(s.indptr) - 1 : s.indptr[r] <= s.indptr[r + 1]
  /\ \A k \in DOMAIN s.indices : s.indices[k] < cols

\* StoredShape::validate.
validate(s) ==
  /\ s.num_cons_unpadded <= s.num_cons /\ s.num_shared_unpadded <= s.num_shared
  /\ s.num_precommitted_unpadded <= s.num_precommitted /\ s.num_rest_unpadded <= s.num_rest
  /\ validate_matrix(s, Values(s) + 1 + s.num_challenges + s.num_public)

within_budget(rules, values) == rules <= Budget /\ values <= Budget

\* Mutant: the segments are taken to be as long as their padding.
variable_Padded(s, column) ==
  IF column < Values(s) THEN Aux(column) ELSE Input(column - Values(s))

\* StoredShape::variable.
variable(s, column) ==
  LET rest == s.num_shared + s.num_precommitted
  IN IF column < s.num_shared THEN Aux(column)
     ELSE IF column < rest THEN Aux(s.num_shared_unpadded + column - s.num_shared)
     ELSE IF column < Values(s)
          THEN Aux(s.num_shared_unpadded + s.num_precommitted_unpadded + column - rest)
     ELSE Input(column - Values(s))

\* StoredShape::row: the entries a row's pointers name.
RowEntries(s, r) == s.indptr[r] + 1 .. s.indptr[r + 1]

row(s, r) ==
  [k \in 1..s.indptr[r + 1] - s.indptr[r] |-> variable(s, s.indices[s.indptr[r] + k])]

\* ShapeReplay: what setup synthesizes.
ShapeReplay(s) ==
  [shared |-> s.num_shared_unpadded, precommitted |-> s.num_precommitted_unpadded,
   rest |-> s.num_rest_unpadded, public |-> s.num_challenges + s.num_public,
   rows |-> [r \in 1..s.num_cons_unpadded |-> row(s, r)]]

\* shapes(): nothing is published past the budget.
shapes(c) == within_budget(Stored(c).num_cons, Values(Stored(c)))

\* setup_from_shapes_in and Keys::from_shapes: the digest, the validation, the budget.
from_shapes(bytes, approved) ==
  IF bytes # approved THEN [code |-> "UnknownCircuit"]
  ELSE IF ~(validate(bytes) /\ within_budget(bytes.num_cons, Values(bytes)))
       THEN [code |-> "InvalidShapes"]
  ELSE [code |-> "OK", circuit |-> ShapeReplay(bytes)]

-----------------------------------------------------------------------------

VARIABLES
  circuit,     \* the circuit of the code in this repository
  bytes,       \* the artifact as it reaches the loader
  faults,      \* numbers damaged on the way
  loaded       \* what from_shapes returned

vars == <<circuit, bytes, faults, loaded>>

Init ==
  /\ circuit \in Circuits /\ shapes(circuit)
  /\ bytes = Stored(circuit) /\ faults = 0 /\ loaded = [code |-> "none"]

\* The artifact is damaged: a size, a pointer or a column is another number, or one is lost.
Damaged ==
  {[bytes EXCEPT ![f] = n] :
     f \in {"num_cons", "num_cons_unpadded", "num_shared", "num_shared_unpadded",
            "num_rest", "num_public", "num_challenges", "cols", "entries"},
     n \in 0..MaxSize}
  \cup {[bytes EXCEPT !.indptr[r] = n] : r \in DOMAIN bytes.indptr, n \in 0..MaxSize}
  \cup {[bytes EXCEPT !.indices[k] = n] : k \in DOMAIN bytes.indices, n \in 0..MaxSize}
  \cup (IF bytes.indices = <<>> THEN {} ELSE {[bytes EXCEPT !.indices = Tail(@)]})
  \cup (IF bytes.indptr = <<>> THEN {} ELSE {[bytes EXCEPT !.indptr = Tail(@)]})

Damage(b) ==
  /\ loaded.code = "none"
  /\ bytes' = b /\ faults' = faults + 1
  /\ UNCHANGED <<circuit, loaded>>

Load ==
  /\ loaded.code = "none"
  /\ loaded' = from_shapes(bytes, Stored(circuit))
  /\ UNCHANGED <<circuit, bytes, faults>>

Next == Load \/ (faults < MaxFaults /\ \E b \in Damaged : Damage(b))

Spec == Init /\ [][Next]_vars

-----------------------------------------------------------------------------

\* The keys are of the circuit in this repository: replayed from the approved artifact, with
\* its padded columns, every row names the variables it named and every size is the same.
\* A damaged artifact gives no keys.
KeysAreTheCircuits ==
  /\ loaded.code = "OK" => loaded.circuit = circuit /\ bytes = Stored(circuit)
  /\ faults = 0 => loaded.code \in {"none", "OK"}

\* A shape that validate accepts, however damaged, is read without an index out of bounds:
\* every row's pointers stay within the entries, and an entry's column is a variable or a
\* padding column of a segment.
ValidatedIsReadable ==
  validate(bytes) =>
    \A r \in 1..bytes.num_cons_unpadded :
      /\ r + 1 \in DOMAIN bytes.indptr
      /\ \A k \in RowEntries(bytes, r) :
           k \in DOMAIN bytes.indices /\ bytes.indices[k] < bytes.cols
=============================================================================
