----------------------------- MODULE FoldedHash -----------------------------
(***************************************************************************)
(* sha256_mc.rs and mdoc_age_mc.rs: the two messages of an age proof are   *)
(* hashed by folded step instances, one compression each, which read their *)
(* block and digests out of a shared witness that one commitment covers.   *)
(* The core binds the padded messages to the shared blocks and selects the *)
(* digest of each message's terminal block.                                *)
(*                                                                         *)
(* A presentation is built from the messages; before it is proved its      *)
(* holder may change what the public fields of HashWitness and StepCircuit *)
(* let it change.  vega_mc_zkp is external: it accepts a proof when every  *)
(* instance is satisfied over one shared witness and the number of step    *)
(* instances is the expected one.                                          *)
(***************************************************************************)
EXTENDS Sha256, Sequences

CONSTANTS
    MessageBlocks,      \* layout(): the blocks of each message, in order
    MaxBytes,           \* byte budget of each message
    Lengths,            \* lengths the messages are tried with
    StrayDigest         \* a digest no chain of blocks has

LayoutAssumption ==
    /\ MessageBlocks \in Seq(Nat \ {0})
    /\ MaxBytes \in Seq(Nat) /\ Len(MaxBytes) = Len(MessageBlocks)
    /\ \A m \in DOMAIN MessageBlocks : MaxBytes[m] + 9 <= MessageBlocks[m] * BlockBytes
    /\ Lengths \subseteq Nat

Messages == DOMAIN MessageBlocks

\* The blocks of the first k messages.
BlocksOfFirst[k \in 0..Len(MessageBlocks)] ==
    IF k = 0 THEN 0 ELSE BlocksOfFirst[k - 1] + MessageBlocks[k]

\* HashLayout::message_start, total_blocks, is_first_of_message.
message_start(m) == BlocksOfFirst[m - 1]
total_blocks == BlocksOfFirst[Len(MessageBlocks)]
is_first_of_message_FirstOnly(j) == j = 0   \* mutant: one message only
is_first_of_message(j) == \E m \in Messages : j = message_start(m)

Indices == 0..(total_blocks - 1)

\* Byte i of message m: messages differ from each other everywhere.
MessageByte(m, i) == 256 * m + i

\* HashWitness::from_witness: the native blocks and digests of a message.
native_buffer(m, n) ==
    padded_buffer([i \in 0..(n - 1) |-> MessageByte(m, i)], n, MessageBlocks[m])

MessageOf(j) == CHOOSE m \in Messages :
                    j \in message_start(m)..(message_start(m) + MessageBlocks[m] - 1)

from_witness(lens) ==
    [blocks  |-> [j \in Indices |->
        LET m == MessageOf(j) IN Block(native_buffer(m, lens[m]), j - message_start(m))],
     digests |-> [j \in Indices |->
        LET m == MessageOf(j)
        IN  BlockStates(native_buffer(m, lens[m]), MessageBlocks[m])[j - message_start(m) + 1]]]

\* HashWitness::check: the vectors have the shape the layout demands.
check(hash) == DOMAIN hash.blocks = Indices /\ DOMAIN hash.digests = Indices

\* synthesize_step at an index: the compression of the selected block, from
\* the IV at a message boundary and from the previous digest elsewhere, is the
\* shared digest of that block.
StepSatisfied(hash, step) ==
    /\ step \in Indices
    /\ hash.digests[step] =
         Compress(IF is_first_of_message(step) THEN IV ELSE hash.digests[step - 1],
                  hash.blocks[step])

\* bind_message_to_shared: the core's padded message is the shared blocks.
bind_message_to_shared(hash, m, n) ==
    \A b \in 0..(MessageBlocks[m] - 1) :
        hash.blocks[message_start(m) + b] = Block(native_buffer(m, n), b)

\* select_digest with the length selector: the digest of the terminal block.
select_digest(hash, m, n) == hash.digests[message_start(m) + terminal_block_for_len(n) - 1]

CoreSatisfied(hash, lens) == \A m \in Messages : bind_message_to_shared(hash, m, lens[m])

\* vega_mc_zkp::verify with the instance count it is told to expect.
ProofVerifies(p) ==
    /\ check(p.hash)
    /\ Len(p.steps) = total_blocks
    /\ \A i \in DOMAIN p.steps : StepSatisfied(p.hash, p.steps[i])
    /\ CoreSatisfied(p.hash, p.lens)

\* Mutant of verify_age: only the number of step instances is checked.
verify_age_AnyIndices(p) == ProofVerifies(p)

\* verify_age, the folded form: the published step indices are 0, 1, 2, ...
verify_age(p) ==
    /\ ProofVerifies(p)
    /\ \A i \in DOMAIN p.steps : p.steps[i] = i - 1
-----------------------------------------------------------------------------
VARIABLES
    phase,      \* "building", "built", "refused", "accepted", "rejected"
    proof,      \* the message lengths, the shared witness, the step indices
    altered     \* whether a public field was changed after build

vars == <<phase, proof, altered>>

NoHash == [blocks |-> <<>>, digests |-> <<>>]

Init ==
    /\ phase = "building"
    /\ proof \in [lens : [Messages -> Lengths], hash : {NoHash}, steps : {<<>>}]
    /\ altered = FALSE

\* build, when every message fits its budget.
Build ==
    /\ phase = "building"
    /\ \A m \in Messages : Fits(proof.lens[m], MaxBytes[m], MessageBlocks[m])
    /\ proof' = [proof EXCEPT !.hash = from_witness(proof.lens),
                              !.steps = [i \in 1..total_blocks |-> i - 1]]
    /\ phase' = "built"
    /\ UNCHANGED altered

\* build returns Unsatisfiable for a message over its budget.
Refuse ==
    /\ phase = "building"
    /\ \E m \in Messages : ~Fits(proof.lens[m], MaxBytes[m], MessageBlocks[m])
    /\ phase' = "refused"
    /\ UNCHANGED <<proof, altered>>

\* Another digest in the shared witness of every instance: a stray one, or
\* one of the digests already there.
SetDigest(j, d) ==
    /\ phase = "built"
    /\ proof' = [proof EXCEPT !.hash.digests[j] = d]
    /\ altered' = TRUE
    /\ UNCHANGED phase

\* Another block in it.
SetBlock(j, k) ==
    /\ phase = "built"
    /\ proof' = [proof EXCEPT !.hash.blocks[j] = proof.hash.blocks[k]]
    /\ altered' = TRUE
    /\ UNCHANGED phase

\* Another index for one of the step instances.
SetStep(i, j) ==
    /\ phase = "built"
    /\ proof' = [proof EXCEPT !.steps[i] = j]
    /\ altered' = TRUE
    /\ UNCHANGED phase

\* A witness that lost its last digest.
Truncate ==
    /\ phase = "built"
    /\ check(proof.hash)
    /\ proof' = [proof EXCEPT !.hash.digests =
                    [j \in Indices \ {total_blocks - 1} |-> proof.hash.digests[j]]]
    /\ altered' = TRUE
    /\ UNCHANGED phase

\* prove, then verify_age.
Verify ==
    /\ phase = "built"
    /\ phase' = IF verify_age(proof) THEN "accepted" ELSE "rejected"
    /\ UNCHANGED <<proof, altered>>

Next ==
    \/ Build \/ Refuse \/ Truncate \/ Verify
    \/ /\ check(proof.hash)
       /\ \/ \E j \in Indices, d \in {StrayDigest} \cup {proof.hash.digests[k] : k \in Indices} :
                d # proof.hash.digests[j] /\ SetDigest(j, d)
          \/ \E j, k \in Indices : j # k /\ SetBlock(j, k)
          \/ \E i \in 1..total_blocks, j \in Indices : j # proof.steps[i] /\ SetStep(i, j)

Spec == Init /\ [][Next]_vars
-----------------------------------------------------------------------------
\* Whatever was done to the shared witness and to the step indices, a proof
\* that verify_age accepts hands the signature check the real SHA-256 of both
\* messages (mdoc_age_mc.rs: every block index is claimed exactly once).
SelectedDigestIsReal ==
    phase = "accepted" =>
        \A m \in Messages :
            select_digest(proof.hash, m, proof.lens[m]) =
                Rfc6234([i \in 0..(proof.lens[m] - 1) |-> MessageByte(m, i)], proof.lens[m])

\* What build makes of messages within budget is accepted, at every length up
\* to the one that fills the last block (completeness of the fold).
HonestFoldIsAccepted == phase = "rejected" => altered
=============================================================================
