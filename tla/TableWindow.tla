---------------------------- MODULE TableWindow ----------------------------
(***************************************************************************)
(* Message::read of engine/gadgets/window.rs: the core circuit reads `len` *)
(* bytes of a message in the hash table at an offset the prover picks.  A  *)
(* one-hot selector picks a block of the region, another a chunk of it,    *)
(* and a shifter drops up to fifteen bytes; one rule keeps the window      *)
(* inside the blocks the message's digest covers.                          *)
(*                                                                         *)
(* Bytes are named by their place in the table, so that what is read says  *)
(* where it was read.                                                      *)
(***************************************************************************)
EXTENDS Integers, Sequences

CONSTANTS
  Regions,        \* [first, blocks]: the regions of the layout that are read
  Lens,           \* lengths of windows the core reads
  POSITIONS,
  OFFSET_BITS     \* range of the rule that keeps a window inside

TableAssumption ==
  /\ POSITIONS \in Nat \ {0}
  /\ 2 ^ OFFSET_BITS \in Nat /\ 64 * POSITIONS <= 2 ^ OFFSET_BITS
  /\ Regions \subseteq [first : Nat, blocks : Nat]
  /\ \A r \in Regions : r.first + r.blocks <= POSITIONS
  /\ Lens \subseteq Nat \ {0}

CHUNK_BYTES == 16
CHUNKS_PER_BLOCK == 4
Outside == -1           \* the zero that Cells::chunk gives past the table

CeilDiv(a, b) == (a + b - 1) \div b

\* Cells::chunk: the places of the bytes of chunk c.
chunk(c) ==
  [i \in 1..CHUNK_BYTES |->
     IF c < CHUNKS_PER_BLOCK * POSITIONS THEN CHUNK_BYTES * c + i - 1 ELSE Outside]

chunks(len) == CeilDiv(len + CHUNK_BYTES - 1, CHUNK_BYTES)

\* `reached`: the chunk r chunks after the first one of block b.
reached(region, b, r) == chunk(CHUNKS_PER_BLOCK * (region.first + b) + r)

\* The bytes of the selected chunks, end to end.
selected(region, b, c, len) ==
  [t \in 1..CHUNK_BYTES * chunks(len) |->
     reached(region, b, c + (t - 1) \div CHUNK_BYTES)[((t - 1) % CHUNK_BYTES) + 1]]

\* One stage of the shifter, a choice per byte it keeps.
stage(w, step, shift, len) ==
  [t \in 1..len + step - 1 |-> IF (shift \div step) % 2 = 1 THEN w[t + step] ELSE w[t]]

\* Mutant: the stage of two bytes is left out.
shifted_NoTwo(w, shift, len) ==
  stage(stage(stage(w, 8, shift, len), 4, shift, len), 1, shift, len)

\* The stages of 8, 4, 2 and 1 bytes.
shifted(w, shift, len) ==
  stage(stage(stage(stage(w, 8, shift, len), 4, shift, len), 2, shift, len), 1, shift, len)

offset(s) == 64 * s.block + CHUNK_BYTES * s.chunk + s.shift

\* Mutant: the window may reach to the end of its region.
inside_Region(s) ==
  LET room == 64 * s.region.blocks - offset(s) - s.len
  IN room \in 0..2 ^ OFFSET_BITS - 1

\* "inside the signed blocks": 64 * (last + 1) - (offset + len) has OFFSET_BITS bits.  A
\* negative room is a field element far above them.
inside(s) ==
  LET room == 64 * (s.last + 1) - offset(s) - s.len
  IN room \in 0..2 ^ OFFSET_BITS - 1

\* Message::read under its rules: the selectors have one bit set each.
read(s) == shifted(selected(s.region, s.block, s.chunk, s.len), s.shift, s.len)

\* read_values, what the witness generator records at the offset `at`.
read_values(region, at, len) ==
  LET b == at \div 64
      block == IF b < region.blocks THEN b ELSE 0
  IN shifted(selected(region, block, (at % 64) \div CHUNK_BYTES, len), at % CHUNK_BYTES, len)

-----------------------------------------------------------------------------

VARIABLES sel, window       \* the prover's selectors, and the bytes read or <<>>

vars == <<sel, window>>

\* The block, the chunk and the shift of a window of n bytes, and the message's last block.
Choices(r, n) ==
  [region : {r}, len : {n}, last : 0..r.blocks - 1, block : 0..r.blocks - 1,
   chunk : 0..CHUNKS_PER_BLOCK - 1, shift : 0..CHUNK_BYTES - 1]

Selectors == UNION {Choices(r, n) : r \in Regions, n \in Lens}

Init == sel \in Selectors /\ window = <<>>

Read ==
  /\ window = <<>> /\ inside(sel)
  /\ window' = read(sel)
  /\ UNCHANGED sel

Next == Read

Spec == Init /\ [][Next]_vars

-----------------------------------------------------------------------------

\* Whatever the selectors, an accepted window is a run of the message's own bytes: it starts
\* at the offset the selectors add up to and ends in a block the digest covers, so it shows
\* neither the next message nor a block past the last one, which no digest fixes.
WindowsReadSignedBytes ==
  window # <<>> =>
    /\ window = [t \in 1..sel.len |-> 64 * sel.region.first + offset(sel) + t - 1]
    /\ offset(sel) + sel.len <= 64 * (sel.last + 1)

\* Every value inside the message can be read: some choice of the selectors gives each
\* offset, and what the witness generator records there is what the rules read.
HonestWindowsRead ==
  LET at == offset(sel)
  IN at + sel.len <= 64 * (sel.last + 1) =>
       /\ inside(sel)
       /\ sel = [sel EXCEPT !.block = at \div 64, !.chunk = (at % 64) \div CHUNK_BYTES,
                            !.shift = at % CHUNK_BYTES]
       /\ read_values(sel.region, at, sel.len)
            = [t \in 1..sel.len |-> 64 * sel.region.first + at + t - 1]
=============================================================================
