------------------------------ MODULE MsoSplice ------------------------------
(***************************************************************************)
(* mso.rs, mso_splice.rs, onehot_cursor.rs: a Sig_structure is assembled   *)
(* in a circuit of fixed shape although every digestID in it may have any  *)
(* of four widths.  Where a field starts is not a number but a one-hot     *)
(* distribution over the offsets it may start at, and a byte of the output *)
(* is the OR of everything that may be placed on it.                       *)
(*                                                                         *)
(* A byte is named by the field it belongs to and its place in that field; *)
(* an output byte is the set of the bytes that were ORed into it.          *)
(***************************************************************************)
EXTENDS Sha256, SequencesExt

DIGEST_ID_WIDTHS == {1, 2, 3, 5}
MAX_CBOR_UINT_BYTES == 5
ENTRY_TAIL_LEN == 2 + 32
NUM_ENTRIES == 4
MAX_DIGEST_SECTION_BYTES == NUM_ENTRIES * (MAX_CBOR_UINT_BYTES + ENTRY_TAIL_LEN)

TIMESTAMP_LEN == 20
SIG_STRUCTURE_PREFIX_NO_LEN == 18
PAYLOAD_HEADER_NO_LEN == 3
LengthField == 2

\* SEG_PREFIX_BASE, the three timestamps and the segments between them.
prefix_fixed_len == 66 + TIMESTAMP_LEN + 12 + TIMESTAMP_LEN + 13 + TIMESTAMP_LEN + 33

\* SEG_AFTER_DIGESTS, SEG_BETWEEN_XY and SEG_AFTER_DEVICE_KEY around x and y.
suffix_fixed_len == 33 + 32 + 3 + 32 + 24

\* The prefix alloc_sig_structure_bits hands to the assembly: both headers with
\* their length fields, then the fixed start of the MSO.
prefix_len ==
    SIG_STRUCTURE_PREFIX_NO_LEN + LengthField + PAYLOAD_HEADER_NO_LEN + LengthField
        + prefix_fixed_len

MAX_SIG_STRUCTURE_BYTES == prefix_len + MAX_DIGEST_SECTION_BYTES + suffix_fixed_len

SIG_STRUCTURE_NUM_BLOCKS == terminal_block_for_len(MAX_SIG_STRUCTURE_BYTES)

\* Mutant of compute_lengths: the inner length field is not counted.
compute_lengths_NoField(section_len) ==
    LET mso_body_len == prefix_fixed_len + section_len + suffix_fixed_len
    IN  [mso_body_len |-> mso_body_len, payload_len |-> PAYLOAD_HEADER_NO_LEN + mso_body_len]

\* compute_lengths
compute_lengths(section_len) ==
    LET mso_body_len == prefix_fixed_len + section_len + suffix_fixed_len
    IN  [mso_body_len |-> mso_body_len,
         payload_len |-> PAYLOAD_HEADER_NO_LEN + LengthField + mso_body_len]

\* alloc_one_hot: the selectors of the given values, one of them set.
alloc_one_hot(values, real_value) == [v \in values |-> v = real_value]

\* Mutant of convolve_sum: of the pairs with one sum only the first is wired.
convolve_sum_FirstPair(a, b) ==
    [s \in {x + y : x \in DOMAIN a, y \in DOMAIN b} |->
        LET x == Min({z \in DOMAIN a : s - z \in DOMAIN b}) IN a[x] /\ b[s - x]]

\* convolve_sum: the distribution of a sum, pairs with one sum merged by OR.
convolve_sum(a, b) ==
    [s \in {x + y : x \in DOMAIN a, y \in DOMAIN b} |->
        \E x \in DOMAIN a, y \in DOMAIN b : x + y = s /\ a[x] /\ b[y]]

Shift(d, n) == [v \in {u + n : u \in DOMAIN d} |-> d[v - n]]

-----------------------------------------------------------------------------
VARIABLES
    real_widths,    \* the width of every digestID encoded so far
    starts,         \* start_onehots with start_values_list
    ends,           \* end_onehots with end_values_list
    assembled       \* the output buffer, empty before it is built

vars == <<real_widths, starts, ends, assembled>>

\* The first field starts right behind the prefix: a constant selector.
Init ==
    /\ real_widths = <<>>
    /\ starts = <<[v \in {prefix_len} |-> TRUE]>>
    /\ ends = <<>>
    /\ assembled = <<>>

\* One entry of the cursor chain, for a digestID whose encoding has width w.
ChainEntry(w) ==
    LET i == Len(real_widths) + 1
        width_onehot == alloc_one_hot(DIGEST_ID_WIDTHS, w)
        end == IF Cardinality(DOMAIN starts[i]) = 1
               THEN Shift(width_onehot, CHOOSE v \in DOMAIN starts[i] : TRUE)
               ELSE convolve_sum(starts[i], width_onehot)
    IN  /\ i <= NUM_ENTRIES
        /\ real_widths' = Append(real_widths, w)
        /\ ends' = Append(ends, end)
        /\ starts' = Append(starts, Shift(end, ENTRY_TAIL_LEN))
        /\ UNCHANGED assembled

Entries == 1..NUM_ENTRIES
SuffixEntry == NUM_ENTRIES + 1

\* Placement::Variable: what entry i's digestID adds to output byte p.
VariableTerm(i, p) ==
    {<<"digest_id", i, p - c>> : c \in {c \in DOMAIN starts[i] :
        /\ starts[i][c]
        /\ \E w \in DIGEST_ID_WIDTHS : w = real_widths[i] /\ p \in c..(c + w - 1)}}

\* Placement::Fixed: what a field of fixed length adds to output byte p.
FixedTerm(name, i, len, onehot, p) ==
    {<<name, i, p - c>> : c \in {c \in DOMAIN onehot : onehot[c] /\ p \in c..(c + len - 1)}}

\* Mutant of assemble_from_placements: the suffix follows the last digestID,
\* not the last digest.
assemble_from_placements_SuffixEarly(p) ==
    UNION {VariableTerm(i, p) : i \in Entries}
    \cup UNION {FixedTerm("tail", i, ENTRY_TAIL_LEN, ends[i], p) : i \in Entries}
    \cup FixedTerm("suffix", 0, suffix_fixed_len, ends[NUM_ENTRIES], p)

\* assemble_from_placements, for one byte past the prefix.
assemble_from_placements(p) ==
    UNION {VariableTerm(i, p) : i \in Entries}
    \cup UNION {FixedTerm("tail", i, ENTRY_TAIL_LEN, ends[i], p) : i \in Entries}
    \cup FixedTerm("suffix", 0, suffix_fixed_len, starts[SuffixEntry], p)

\* The end of assemble_mso_sig_structure: the placements, the prefix copied in.
Assemble ==
    /\ Len(real_widths) = NUM_ENTRIES
    /\ assembled = <<>>
    /\ assembled' = [q \in 1..MAX_SIG_STRUCTURE_BYTES |->
                        IF q <= prefix_len THEN {<<"prefix", 0, q - 1>>}
                        ELSE assemble_from_placements(q - 1)]
    /\ UNCHANGED <<real_widths, starts, ends>>

Next == (\E w \in DIGEST_ID_WIDTHS : ChainEntry(w)) \/ Assemble

Spec == Init /\ [][Next]_vars

-----------------------------------------------------------------------------
real_digest_section_len == SumFunction(real_widths) + NUM_ENTRIES * ENTRY_TAIL_LEN

real_len == prefix_len + real_digest_section_len + suffix_fixed_len

Field(name, i, len) == [k \in 1..len |-> <<name, i, k - 1>>]

\* native_mso_sig_structure_bytes: the fields one after the other.
native_mso_sig_structure_bytes ==
    Field("prefix", 0, prefix_len)
    \o FlattenSeq([i \in Entries |-> Field("digest_id", i, real_widths[i])
                                        \o Field("tail", i, ENTRY_TAIL_LEN)])
    \o Field("suffix", 0, suffix_fixed_len)

\* The two CBOR length fields, computed before anything is placed, count the
\* bytes that really follow them in the assembled buffer, and fit two bytes;
\* the hash of the buffer has a terminal block (mso.rs, compute_lengths).
LengthFieldsAgree ==
    LET lengths == compute_lengths(real_digest_section_len)
        Following(n) == Cardinality({q \in DOMAIN assembled : q > n /\ assembled[q] # {}})
        payload_start == SIG_STRUCTURE_PREFIX_NO_LEN + LengthField
    IN  /\ lengths.payload_len = Following(payload_start)
        /\ lengths.mso_body_len =
             Following(payload_start + PAYLOAD_HEADER_NO_LEN + LengthField)
        /\ lengths.payload_len < 2 ^ 16
        /\ Fits(real_len, MAX_SIG_STRUCTURE_BYTES, SIG_STRUCTURE_NUM_BLOCKS)

\* The circuit's buffer is the native Sig_structure whatever the widths and however
\* the cursors' sums coincide: no byte is written twice, none is left out, every
\* byte behind it is zero (mso_splice.rs: "ranges never overlap"), and its length
\* fields count what follows them.
AssembledIsNative ==
    assembled # <<>> =>
        /\ Len(native_mso_sig_structure_bytes) = real_len
        /\ \A q \in 1..MAX_SIG_STRUCTURE_BYTES :
               assembled[q] = IF q <= real_len THEN {native_mso_sig_structure_bytes[q]} ELSE {}
        /\ LengthFieldsAgree
=============================================================================
