----------------------------- MODULE Sha256Walk -----------------------------
(***************************************************************************)
(* sha256_var on a message that grows byte by byte to the widest claim,    *)
(* with whatever the circuit's caller left in the raw bytes behind it.     *)
(***************************************************************************)
EXTENDS Sha256

CONSTANTS
    MAX_VAR_MESSAGE_BYTES,  \* longest message the gadget takes
    NUM_BLOCKS              \* blocks it always compresses

BudgetAssumption ==
    /\ MAX_VAR_MESSAGE_BYTES \in Nat
    /\ NUM_BLOCKS \in Nat
    /\ MAX_VAR_MESSAGE_BYTES + 9 <= NUM_BLOCKS * BlockBytes

VARIABLES
    len,    \* real_len
    tail    \* the byte the caller filled the rest of raw_bits with

vars == <<len, tail>>

\* Bytes of the message, told apart by their position and from the padding's.
MessageByte(i) == 256 + i

raw_bits == [i \in 0..(MAX_VAR_MESSAGE_BYTES - 1) |->
                IF i < len THEN MessageByte(i) ELSE tail]

Init == len = 0 /\ tail \in {0, MarkerByte}

Append == len < MAX_VAR_MESSAGE_BYTES /\ len' = len + 1 /\ UNCHANGED tail

Next == Append

Spec == Init /\ [][Next]_vars

\* For every length the gadget takes, the digest it selects is SHA-256 of the
\* message by RFC 6234: bytes behind the message never reach it, the marker and
\* the length never fall outside the terminal block (sha256_var.rs).
DigestIsRfc6234 ==
    sha256_var_sized(raw_bits, len, NUM_BLOCKS) = Rfc6234(raw_bits, len)
=============================================================================
