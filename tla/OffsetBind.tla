----------------------------- MODULE OffsetBind -----------------------------
(***************************************************************************)
(* offset_bind.rs: facts about an mdoc proved at witnessed offsets of its  *)
(* signed bytes.  A byte is a pair: <<"byte", v>> for framing (heads,      *)
(* lengths, padding), <<name, k>> for byte k of a literal, a name, a       *)
(* digest or a coordinate.  Offsets count from zero, as in the code.       *)
(*                                                                         *)
(* Bits are packed into field elements and unpacked again under            *)
(* constraints that leave one assignment, so the gadgets are stated on     *)
(* bytes.  A prover writes its own assignment, so a check made natively is *)
(* a conjunct here only where a constraint repeats it, or the verifier     *)
(* does on the published windows and counts.  Two selections of one offset *)
(* that no constraint ties are two fields of the witness.                  *)
(***************************************************************************)
EXTENDS Integers, SequencesExt

CONSTANTS
    NameLen,                \* namespaces and docTypes with their lengths
    MAX_NAMESPACE_ENTRIES   \* steps of the entry walk

ASSUME NamesAssumption ==
    /\ \A n \in DOMAIN NameLen : NameLen[n] \in Nat
    /\ MAX_NAMESPACE_ENTRIES \in Nat

Names == DOMAIN NameLen

Byte(v) == <<"byte", v>>
Bytes(vs) == [k \in DOMAIN vs |-> Byte(vs[k])]
Literal(name, len) == [k \in 1..len |-> <<name, k - 1>>]
BytesAt(bytes, at, len) == SubSeq(bytes, at + 1, at + len)

MAX_ANCHOR_WINDOW == 48
ANCHOR_TEXT_WINDOW == 40
DIGEST_VALUE_LEN == 34
ENTRY_HEAD_WINDOW == 7
BSTR32 == Bytes(<<88, 32>>)     \* 58 20
TIMESTAMP_LEN == 20

VALUE_DIGESTS_OPEN_KEY == Literal("valueDigests", 13)
DEVICE_KEY_INFO == Literal("deviceKeyInfo", 33)
DEVICE_KEY_X_DELTA == Len(DEVICE_KEY_INFO)
DEVICE_KEY_Y_DELTA == DEVICE_KEY_X_DELTA + 32 + 3
DOC_TYPE_KEY == Literal("docType", 8)
VALIDITY_OPEN == Literal("validityInfo", 23)
VALIDITY_MID_FROM == Literal("validFrom", 12)
VALIDITY_MID_UNTIL == Literal("validUntil", 13)
VALID_FROM_DELTA == 23 + TIMESTAMP_LEN + 12
VALID_UNTIL_DELTA == VALID_FROM_DELTA + TIMESTAMP_LEN + 13
VALIDITY_WINDOW_LEN == VALID_UNTIL_DELTA + TIMESTAMP_LEN

\* map_header and tstr_header: one byte below 24, two from there to 255.
map_header(n) == IF n < 24 THEN Bytes(<<160 + n>>) ELSE Bytes(<<184, n>>)
tstr_header(len) == IF len < 24 THEN Bytes(<<96 + len>>) ELSE Bytes(<<120, len>>)

NameBytes(n) == tstr_header(NameLen[n]) \o Literal(n, NameLen[n])

\* The anchors whose content depends on the document.
ns_open(w) == NameBytes(w.namespace) \o map_header(w.num_entries)
doc_type_entry(w) == DOC_TYPE_KEY \o NameBytes(w.doc_type)

namespace_prefix_len(w) == Len(ns_open(w))
doc_type_prefix_len(w) == Len(doc_type_entry(w))

\* window_offsets, anchor_offsets: every offset at which a window fits.
window_offsets(len, window_len) == 0..(len - window_len)
anchor_offsets(len) == window_offsets(len, MAX_ANCHOR_WINDOW)

\* select_anchor with enforce_window_equals: the literal stands at a candidate.
select_anchor(bytes, at, literal) ==
    /\ at \in anchor_offsets(Len(bytes))
    /\ BytesAt(bytes, at, Len(literal)) = literal

\* select_masked_text_anchor: a window of fixed width, blank past the prefix.
MaskedWindow(bytes, at, prefix_len) ==
    [k \in 1..ANCHOR_TEXT_WINDOW |->
        IF k <= prefix_len THEN bytes[at + k] ELSE Byte(0)]

select_masked_text_anchor(bytes, at, prefix_len) ==
    /\ prefix_len \in 1..ANCHOR_TEXT_WINDOW
    /\ at \in anchor_offsets(Len(bytes))

\* enforce_ge: the difference fits 16 bits and is the one that was witnessed.
enforce_ge(value, floor, native_difference) ==
    /\ value - floor >= 0 /\ value - floor < 65536
    /\ value - floor = native_difference

-----------------------------------------------------------------------------
\* digest_id_width: what the head byte announces, 0 when it is no digestID.
digest_id_width(bytes, at) ==
    IF at >= Len(bytes) \/ bytes[at + 1][1] # "byte" THEN 0
    ELSE LET b == bytes[at + 1][2]
         IN  IF b < 24 THEN 1 ELSE IF b = 24 THEN 2 ELSE IF b = 25 THEN 3
             ELSE IF b = 26 THEN 5 ELSE 0

\* Where the entry at an offset ends, -1 when it has no head.
entry_end(bytes, at) ==
    LET width == IF at < 0 THEN 0 ELSE digest_id_width(bytes, at)
    IN  IF width = 0 THEN -1 ELSE at + width + DIGEST_VALUE_LEN

\* native_region_end: where n entries from here on end.
native_region_end(bytes, region_start, n) ==
    LET end[i \in 0..n] == IF i = 0 THEN region_start ELSE entry_end(bytes, end[i - 1])
    IN  end[n]

\* walk_namespace_entries: every entry is a digestID followed by 58 20.  The
\* first step reads where the region starts, so the landmark must be it.
walk_namespace_entries(bytes, region_start, native_start, n) ==
    /\ n \in 1..MAX_NAMESPACE_ENTRIES
    /\ native_start = region_start
    /\ native_region_end(bytes, region_start, n) \in Nat
    /\ \A i \in 0..(n - 1) :
         LET at == native_region_end(bytes, region_start, i) IN
         /\ at \in window_offsets(Len(bytes), ENTRY_HEAD_WINDOW)
         /\ BytesAt(bytes, at + digest_id_width(bytes, at), 2) = BSTR32

-----------------------------------------------------------------------------
\* The first entry: ns_offset, which is selected apart from the published window, and
\* the length of the prefix published with that window.
region_start(w) == w.namespace_offset + namespace_prefix_len(w)

\* Mutant of region_end: the key that closes the whole table.
region_end_Table(bytes, w) == w.device_key_info

\* RegionBinding::region_end: the end of the walk.
region_end(bytes, w) == native_region_end(bytes, region_start(w), w.num_entries)

\* The coordinates bind_digest_region reads at fixed deltas of the anchor.
device_key(bytes, w) ==
    <<BytesAt(bytes, w.device_key_info + DEVICE_KEY_X_DELTA, 32),
      BytesAt(bytes, w.device_key_info + DEVICE_KEY_Y_DELTA, 32)>>

\* bind_digest_region, anchor by anchor.  The namespace is selected twice: where its
\* header is published, and where the walk of its entries starts from.
bind_digest_region(bytes, w) ==
    /\ w.num_entries < 256
    /\ select_anchor(bytes, w.value_digests_key, VALUE_DIGESTS_OPEN_KEY)
    /\ select_masked_text_anchor(bytes, w.namespace_key, namespace_prefix_len(w))
    /\ BytesAt(bytes, w.namespace_key, namespace_prefix_len(w)) = ns_open(w)
    /\ w.namespace_offset \in anchor_offsets(Len(bytes))
    /\ LET table_body == w.value_digests_key + Len(VALUE_DIGESTS_OPEN_KEY) + 1
       IN  enforce_ge(w.namespace_offset, table_body, w.namespace_offset - table_body)
    /\ select_anchor(bytes, w.device_key_info, DEVICE_KEY_INFO)
    /\ walk_namespace_entries(bytes, region_start(w), w.region_start, w.num_entries)
    /\ enforce_ge(w.device_key_info, native_region_end(bytes, region_start(w), w.num_entries),
                  w.device_key_info
                    - native_region_end(bytes, w.region_start, w.num_entries))
    /\ \A delta \in {DEVICE_KEY_X_DELTA, DEVICE_KEY_Y_DELTA} :
           w.device_key_info + delta \in anchor_offsets(Len(bytes))
    /\ select_masked_text_anchor(bytes, w.doc_type_key, doc_type_prefix_len(w))
    /\ BytesAt(bytes, w.doc_type_key, doc_type_prefix_len(w)) = doc_type_entry(w)

\* bind_validity: one window whose literals pin every timestamp in it.
bind_validity(bytes, at) ==
    /\ at + VALIDITY_WINDOW_LEN <= Len(bytes)
    /\ select_anchor(bytes, at, VALIDITY_OPEN)
    /\ BytesAt(bytes, at + Len(VALIDITY_OPEN) + TIMESTAMP_LEN, 12) = VALIDITY_MID_FROM
    /\ BytesAt(bytes, at + VALID_FROM_DELTA + TIMESTAMP_LEN, 13) = VALIDITY_MID_UNTIL

Digits(bytes) == [k \in DOMAIN bytes |-> bytes[k][2]]

valid_from(bytes, at) == Digits(BytesAt(bytes, at + VALID_FROM_DELTA, TIMESTAMP_LEN))
valid_until(bytes, at) == Digits(BytesAt(bytes, at + VALID_UNTIL_DELTA, TIMESTAMP_LEN))
=============================================================================
