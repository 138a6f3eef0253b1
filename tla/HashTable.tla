----------------------------- MODULE HashTable -----------------------------
(***************************************************************************)
(* The hash table of a nym_auth proof (engine/table.rs): with_messages     *)
(* copies the padded messages of a credential into fixed regions, the step *)
(* circuit at each position (engine/step.rs) checks one compression, and   *)
(* the core reads a digest as the state after a message's last block       *)
(* (gadgets/window.rs, Message::open).                                     *)
(*                                                                         *)
(* A message is its name and its length in bytes, a block its message and  *)
(* number, and a hash state the sequence of blocks compressed so far, so   *)
(* that two chains agree only when they are one chain.  What is left in    *)
(* memory is no part of the model: Blocks and Table are wiped when dropped,*)
(* the padded copy of the signed bytes in with_messages is not.            *)
(***************************************************************************)
EXTENDS Naturals, Sequences, FiniteSets

CONSTANTS
  POSITIONS,          \* positions of the table
  Regions,            \* [signed, attribute, ssc, seed, nym]: first position and size
  SignedLens, AttributeLens, SscLens,   \* lengths a credential's messages may have
  MaxChanges          \* bound on the entries a prover changes

\* Every message has a region of its own, the signed one's at the start of the table.
LayoutAssumption ==
  /\ POSITIONS \in Nat \ {0} /\ MaxChanges \in Nat
  /\ Regions \in [{"signed", "attribute", "ssc", "seed", "nym"} -> [first : Nat, blocks : Nat \ {0}]]
  /\ Regions.signed.first = 0
  /\ \A r \in DOMAIN Regions : Regions[r].first + Regions[r].blocks <= POSITIONS
  /\ \A q, r \in DOMAIN Regions :
       \/ q = r
       \/ Regions[q].first + Regions[q].blocks <= Regions[r].first
       \/ Regions[r].first + Regions[r].blocks <= Regions[q].first
  /\ SignedLens \subseteq Nat \ {0} /\ AttributeLens \subseteq Nat /\ SscLens \subseteq Nat

Position == 0..POSITIONS - 1
Names == <<"signed", "attribute", "ssc", "seed", "nym">>    \* in with_messages' order
SeedLen == 16
NymLen == 119      \* DST, the seed, prover_input and verifier_input

-----------------------------------------------------------------------------
(* Padding and hashing.                                                    *)

IV == <<>>

Zero == [of |-> "zero", n |-> 0]

\* Blocks of a padded message: a one bit, zeros and a 64-bit length.
PadBlocks(len) == (len + 9 + 63) \div 64

pad(name, len) == [k \in 1..PadBlocks(len) |-> [of |-> name, n |-> k - 1]]

sha256(name, len) == pad(name, len)

compress(state, block) == Append(state, block)

\* Mutant: the padding is forgotten.
last_block_NoPadding(len) == len \div 64

\* The block that ends a message, from its first; the blocks before an offset.
last_block(len) == (len + 8) \div 64

blocks_before(offset) == offset \div 64

starts_from_iv(j) == \E r \in {"attribute", "ssc", "seed", "nym"} : j = Regions[r].first

\* Table::from_blocks_in: the state after each position.
from_blocks_in(blocks, start) ==
  LET before(j, s) == IF j = Regions.signed.first THEN start
                      ELSE IF starts_from_iv(j) THEN IV ELSE s
      states[j \in Position] ==
        compress(before(j, IF j = 0 THEN IV ELSE states[j - 1]), blocks[j])
  IN [blocks |-> blocks, states |-> states, start |-> start]

-----------------------------------------------------------------------------
(* The circuits.                                                           *)

\* Cells::state_before_in.
state_before_in(table, j) ==
  IF j = Regions.signed.first THEN table.start
  ELSE IF starts_from_iv(j) THEN IV
  ELSE table.states[j - 1]

\* The rule of the step at position j.
compression(table, j) == table.states[j] = compress(state_before_in(table, j), table.blocks[j])

\* Mutant: a proof's instances may all show one position.
verified_AnyPositions(p) == \A i \in Position : compression(p.table, p.reported[i])

\* The proof verifies and step instance i reports position i.
verified(p) ==
  /\ \A i \in Position : compression(p.table, p.reported[i])
  /\ \A i \in Position : p.reported[i] = i

\* Message::open: the state after the selected block of a region.
open(table, r, last) == table.states[Regions[r].first + last]

-----------------------------------------------------------------------------

VARIABLES
  pc,         \* "idle", "copy", "built", "refused", "dropped"
  msg,        \* the lengths of the messages, and the blocks skipped
  todo,       \* messages still to copy, padded, with their regions
  blocks,     \* with_messages' blocks
  start,      \* the state after the skipped blocks
  proof,      \* [table, reported] once there is a table
  changes     \* entries a prover has changed in it

vars == <<pc, msg, todo, blocks, start, proof, changes>>

NoBlocks == [j \in Position |-> Zero]
NoProof == [table |-> [blocks |-> NoBlocks, states |-> [j \in Position |-> IV], start |-> IV],
            reported |-> [j \in Position |-> j]]

Init ==
  /\ pc = "idle" /\ todo = <<>> /\ blocks = NoBlocks /\ start = IV /\ changes = 0
  /\ msg = [signed |-> 0, attribute |-> 0, ssc |-> 0, seed |-> SeedLen, nym |-> NymLen, skipped |-> 0]
  /\ proof = NoProof

\* MdocWitness::build up to the loop of with_messages: the first value read sits at `offset`, and the
\* blocks of the signed message before it are hashed into the start state.
Begin(s, a, c, offset) ==
  /\ pc = "idle" /\ offset < s
  /\ LET skipped == blocks_before(offset)
         signed == pad("signed", s)
         m == [msg EXCEPT !.signed = s, !.attribute = a, !.ssc = c, !.skipped = skipped]
     IN /\ msg' = m
        /\ start' = SubSeq(signed, 1, skipped)
        /\ todo' = [i \in DOMAIN Names |->
             [region |-> Names[i],
              padded |-> IF i = 1 THEN SubSeq(signed, skipped + 1, Len(signed))
                         ELSE pad(Names[i], m[Names[i]])]]
  /\ pc' = "copy"
  /\ UNCHANGED <<blocks, proof, changes>>

Fits(t) == Len(t.padded) <= Regions[t.region].blocks

Copy ==
  /\ pc = "copy" /\ todo # <<>> /\ Fits(Head(todo))
  /\ LET r == Regions[Head(todo).region]
         p == Head(todo).padded
     IN blocks' = [j \in Position |->
                     IF j \in r.first..r.first + Len(p) - 1 THEN p[j - r.first + 1] ELSE blocks[j]]
  /\ todo' = Tail(todo)
  /\ UNCHANGED <<pc, msg, start, proof, changes>>

\* A message that does not fit: the error drops Blocks.
Refuse ==
  /\ pc = "copy" /\ todo # <<>> /\ ~Fits(Head(todo))
  /\ pc' = "refused" /\ todo' = <<>> /\ blocks' = NoBlocks
  /\ UNCHANGED <<msg, start, proof, changes>>

\* The table takes the blocks out of Blocks.
Build ==
  /\ pc = "copy" /\ todo = <<>>
  /\ pc' = "built" /\ blocks' = NoBlocks
  /\ proof' = [table |-> from_blocks_in(blocks, start), reported |-> [j \in Position |-> j]]
  /\ UNCHANGED <<msg, todo, start, changes>>

\* A prover changes an entry of the shared table or what a step instance reports.
Change(p) ==
  /\ pc = "built" /\ changes < MaxChanges
  /\ changes' = changes + 1 /\ proof' = p
  /\ UNCHANGED <<pc, msg, todo, blocks, start>>

Changed ==
  LET t == proof.table
  IN {[proof EXCEPT !.table.blocks[j] = t.blocks[k]] : j, k \in Position}
     \cup {[proof EXCEPT !.table = from_blocks_in([t.blocks EXCEPT ![j] = t.blocks[k]], t.start)] :
             j, k \in Position}
     \cup {[proof EXCEPT !.table.states[j] = t.states[k]] : j, k \in Position}
     \cup {[proof EXCEPT !.table.states[j] = compress(IV, t.blocks[j])] : j \in Position}
     \cup {[proof EXCEPT !.table.start = t.states[j]] : j \in Position}
     \cup {[proof EXCEPT !.reported[i] = j] : i, j \in Position}

\* Table's Drop.
DropTable ==
  /\ pc = "built"
  /\ pc' = "dropped" /\ proof' = NoProof
  /\ UNCHANGED <<msg, todo, blocks, start, changes>>

Next ==
  \/ \E s \in SignedLens, a \in AttributeLens, c \in SscLens :
       \E offset \in {0, s \div 2, s - 1} : Begin(s, a, c, offset)
  \/ Copy \/ Refuse \/ Build \/ DropTable
  \/ \E p \in IF changes < MaxChanges THEN Changed ELSE {} : Change(p)

Spec == Init /\ [][Next]_vars

-----------------------------------------------------------------------------

\* last_block(sig_structure.len()) - skipped for the signed message.
Last(r) == last_block(msg[r]) - IF r = "signed" THEN msg.skipped ELSE 0

\* The core reads true digests from the table build makes: for every message with_messages
\* accepts, the last block is inside the region and the state after it is the message's
\* SHA-256, also when the message's first blocks were skipped or its padding fills the
\* region to the last byte.  Every step accepts that table.
DigestsAreRead ==
  pc = "built" /\ changes = 0 =>
    /\ \A r \in DOMAIN Regions :
         /\ Last(r) < Regions[r].blocks
         /\ open(proof.table, r, Last(r)) = sha256(r, msg[r])
    /\ verified(proof)

\* Whatever a prover writes into the table, an accepted one holds in every region the hash
\* of the blocks that are there: from the initial value, and in the signed region from the
\* start state.
AcceptedIsHashed ==
  pc = "built" /\ verified(proof) =>
    \A r \in DOMAIN Regions : \A k \in 0..Regions[r].blocks - 1 :
      LET first == Regions[r].first
      IN open(proof.table, r, k) =
           (IF r = "signed" THEN proof.table.start ELSE IV)
             \o [i \in 1..k + 1 |-> proof.table.blocks[first + i - 1]]
=============================================================================
