------------------------------- MODULE Sha256 -------------------------------
(***************************************************************************)
(* sha256_var.rs: SHA-256 of a message of witnessed length in a circuit of *)
(* fixed shape.  The compression function is a constructor (two chains of  *)
(* blocks have one digest only if they are one chain); everything around   *)
(* it, the padding and the choice of the terminal block, is computed.      *)
(* Bytes of messages are integers; a buffer is a function from positions.  *)
(***************************************************************************)
EXTENDS Integers

BlockBytes == 64
MarkerByte == 128       \* 0x80

\* SHA256_IV and sha256_compression_function, compress_native.
IV == <<>>
Compress(h, block) == <<h, block>>

\* Mutant of terminal_block_for_len: a whole block more than needed.
terminal_block_for_len_ExtraBlock(n) == (n * 8 + 1 + 64) \div 512 + 2

\* terminal_block_for_len: the blocks an n-byte message occupies once padded.
terminal_block_for_len(n) == (n * 8 + 1 + 64 + 511) \div 512

\* Byte k, big-endian, of the message's length in bits as a u64.  Messages are
\* shorter than 2^21 bytes, so the first five bytes are zero.
len_byte(real_len, k) ==
    IF k < 5 THEN 0 ELSE ((real_len * 8) \div (256 ^ (7 - k))) % 256

\* Mutant of injected_byte: the length field is looked for at a fixed place.
injected_byte_FixedField(byte_idx, real_len) ==
    LET start == 2 * BlockBytes - 8 IN
    IF byte_idx = real_len THEN MarkerByte
    ELSE IF byte_idx \in start..(start + 7) THEN len_byte(real_len, byte_idx - start)
    ELSE 0

\* injected_byte: what the padding puts at a position past the message.
injected_byte(byte_idx, real_len) ==
    LET start == terminal_block_for_len(real_len) * BlockBytes - 8 IN
    IF byte_idx = real_len THEN MarkerByte
    ELSE IF byte_idx \in start..(start + 7) THEN len_byte(real_len, byte_idx - start)
    ELSE 0

\* native_padded_buffer_sized refuses what its buffer cannot hold ...
Fits(message_len, max_message_bytes, num_blocks) ==
    /\ message_len <= max_message_bytes
    /\ max_message_bytes + 9 <= num_blocks * BlockBytes

\* ... and otherwise returns the message with its padding; padded_buffer_bits
\* constrains the circuit's buffer to the same bytes: below the length the
\* caller's raw bytes, from there on what injected_byte says.
padded_buffer(raw, real_len, num_blocks) ==
    [i \in 0..(num_blocks * BlockBytes - 1) |->
        IF i < real_len THEN raw[i] ELSE injected_byte(i, real_len)]

Block(buffer, b) == [i \in 0..(BlockBytes - 1) |-> buffer[b * BlockBytes + i]]

\* The chaining values before and after every block of a buffer.
BlockStates(buffer, num_blocks) ==
    LET state[k \in 0..num_blocks] ==
            IF k = 0 THEN IV ELSE Compress(state[k - 1], Block(buffer, k - 1))
    IN  state

\* sha256_var_sized: every block is compressed, the state after the terminal
\* block of the witnessed length is selected.
sha256_var_sized(raw, real_len, num_blocks) ==
    BlockStates(padded_buffer(raw, real_len, num_blocks), num_blocks)
        [terminal_block_for_len(real_len)]

-----------------------------------------------------------------------------
\* SHA-256 as RFC 6234 defines it: 0x80, the fewest zeros that leave eight
\* bytes in a block, the length in bits; then every block in turn.
ZeroBytes(n) == CHOOSE k \in 0..(BlockBytes - 1) : (n + 1 + k) % BlockBytes = BlockBytes - 8

RfcBuffer(raw, n) ==
    [i \in 0..(n + 1 + ZeroBytes(n) + 7) |->
        IF i < n THEN raw[i]
        ELSE IF i = n THEN MarkerByte
        ELSE IF i <= n + ZeroBytes(n) THEN 0
        ELSE len_byte(n, i - (n + 1 + ZeroBytes(n)))]

Rfc6234(raw, n) ==
    LET blocks == (n + 1 + ZeroBytes(n) + 8) \div BlockBytes
    IN  BlockStates(RfcBuffer(raw, n), blocks)[blocks]
=============================================================================
