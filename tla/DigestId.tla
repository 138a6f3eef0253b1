------------------------------ MODULE DigestId ------------------------------
(***************************************************************************)
(* The digestID of an IssuerSignedItem: its canonical CBOR encoding        *)
(* (cbor_uint.rs) and the gadget that reads it out of an item's bytes      *)
(* (digest_id_extract.rs).  A u32 is the function of its four big-endian   *)
(* bytes, a window the five bytes of an item at DIGEST_ID_OFFSET_BYTES.    *)
(*                                                                         *)
(* The gadget is modelled as the relation its constraints state between a  *)
(* window and a witness, bit equations taken eight at a time.  An item is  *)
(* issued, then a witness is tried on it: the one extract_digest_id        *)
(* assigns from the caller's digest_id, or any other assignment.           *)
(***************************************************************************)
EXTENDS Integers

CONSTANTS
    IssuedBytes,    \* the bytes the items that are issued are made of
    WitnessBytes,   \* the bytes the witnesses that are tried are made of
    DigestIds       \* the values callers ask the gadget to extract

BytesAssumption ==
    /\ IssuedBytes \subseteq 0..255
    /\ WitnessBytes \subseteq 0..255
    /\ DigestIds \subseteq [0..3 -> 0..255]

U32 == [0..3 -> 0..255]
Window == [0..4 -> 0..255]
Classes == 0..3

MaxDigestIdTop == 127   \* MAX_DIGEST_ID = 2^31 - 1: the top byte is below 128
FirstMarker == 24       \* 0x18, the first byte that announces an argument

\* Mutant of length_class: a 24 is taken to fit the first byte.
length_class_Inclusive(v) ==
    IF v[0] = 0 /\ v[1] = 0
    THEN IF v[2] = 0 THEN (IF v[3] <= FirstMarker THEN 0 ELSE 1) ELSE 2
    ELSE 3

\* length_class: which of the four lengths a value needs.
length_class(v) ==
    IF v[0] = 0 /\ v[1] = 0
    THEN IF v[2] = 0 THEN (IF v[3] < FirstMarker THEN 0 ELSE 1) ELSE 2
    ELSE 3

\* class_byte_width
class_byte_width(c) == CASE c = 0 -> 1 [] c = 1 -> 2 [] c = 2 -> 3 [] c = 3 -> 5

\* Number of bytes of the value that the class carries, right-aligned.
ValueBytes(c) == IF c = 0 THEN 1 ELSE class_byte_width(c) - 1

\* value_byte_out_pos: which byte of the value window byte b holds in class c.
value_byte_out_pos(c, b) == 4 - ValueBytes(c) + (IF c = 0 THEN b ELSE b - 1)

\* CLASS_MARKERS
Marker(c) == FirstMarker + c - 1

\* What window byte b must be, for a byte of the encoding in class c.
ExpectedByte(c, v, b) ==
    IF c # 0 /\ b = 0 THEN Marker(c) ELSE v[value_byte_out_pos(c, b)]

\* encode_cbor_uint, in an item whose later fields are the bytes of rest.
encode_cbor_uint(v, rest) ==
    [b \in 0..4 |-> IF b < class_byte_width(length_class(v))
                    THEN ExpectedByte(length_class(v), v, b) ELSE rest[b]]

Zeros == [b \in 0..4 |-> 0]

\* The class the first byte announces, 4 when it is none of the four forms.
MarkerClass(b) ==
    IF b < FirstMarker THEN 0 ELSE IF b <= FirstMarker + 2 THEN b - FirstMarker + 1 ELSE 4

\* decode_cbor_uint: the value and the width, or NoUint.
NoUint == [width |-> 0, value |-> [i \in 0..3 |-> 0]]

decode_cbor_uint(w) ==
    LET c == MarkerClass(w[0]) IN
    IF c \notin Classes THEN NoUint
    ELSE [width |-> class_byte_width(c),
          value |-> [i \in 0..3 |->
              IF i < 4 - ValueBytes(c) THEN 0
              ELSE w[i - (4 - ValueBytes(c)) + (IF c = 0 THEN 0 ELSE 1)]]]

-----------------------------------------------------------------------------
\* A witness: the set of class selectors that are 1, and the value's bytes.
Witness == [selector : SUBSET Classes, value : U32]

\* Mutant of Satisfied: the bytes a narrow class does not cover stay free.
Satisfied_HighBytesFree(w, x) ==
    \E c \in Classes :
         /\ x.selector = {c}
         /\ \A b \in 0..(class_byte_width(c) - 1) : w[b] = ExpectedByte(c, x.value, b)
         /\ c = 0 => w[0] < FirstMarker
         /\ c = 3 => w[1] <= MaxDigestIdTop

\* extract_digest_id, steps 1 to 7: the constraints, byte for byte.
Satisfied(w, x) ==
    \E c \in Classes :
         /\ x.selector = {c}
         /\ \A b \in 0..(class_byte_width(c) - 1) : w[b] = ExpectedByte(c, x.value, b)
         /\ \A i \in 0..(3 - ValueBytes(c)) : x.value[i] = 0
         /\ c = 0 => w[0] < FirstMarker
         /\ c = 3 => w[1] <= MaxDigestIdTop

\* ExtractedDigestId::encoded_bits: the window, zero past the encoding.
encoded_bits(w, x) ==
    [b \in 0..4 |-> IF \E c \in x.selector : b < class_byte_width(c) THEN w[b] ELSE 0]

\* The witness extract_digest_id assigns for the caller's digest_id.
AssignedWitness(v) == [selector |-> {length_class(v)}, value |-> v]

-----------------------------------------------------------------------------
VARIABLES
    window,     \* the item's bytes at DIGEST_ID_OFFSET_BYTES
    issued,     \* the digestID its issuer encoded: one, or none
    exposed     \* the values and encodings satisfied circuits have exposed

vars == <<window, issued, exposed>>

\* An item whose issuer encoded a digestID below 2^31, or any other bytes.
Init ==
    /\ exposed = {}
    /\ \E rest \in [0..4 -> IssuedBytes] :
          \/ window = rest /\ issued = {}
          \/ \E v \in DigestIds :
                /\ v[0] <= MaxDigestIdTop
                /\ window = encode_cbor_uint(v, rest)
                /\ issued = {v}

Expose(x) ==
    /\ Satisfied(window, x)
    /\ exposed' = exposed \cup {[value |-> x.value, encoded |-> encoded_bits(window, x)]}
    /\ UNCHANGED <<window, issued>>

\* extract_digest_id called with a digest_id (the caller checked its bound).
Extract(v) == v[0] <= MaxDigestIdTop /\ Expose(AssignedWitness(v))

\* A satisfying assignment that extract_digest_id did not make.
Assign(x) == Expose(x)

Next ==
    \/ \E v \in DigestIds : Extract(v)
    \/ \E s \in SUBSET Classes, v \in [0..3 -> WitnessBytes] :
          Assign([selector |-> s, value |-> v])

Spec == Init /\ [][Next]_vars
-----------------------------------------------------------------------------
\* Whatever satisfies the gadget exposes the digestID a CBOR decoder reads out
\* of the item's own bytes, below 2^31, and hands on exactly its encoding: no
\* second value is satisfiable (digest_id_extract.rs, steps 4 to 7).
ExposedIsEmbedded ==
    \A e \in exposed :
        LET d == decode_cbor_uint(window) IN
        /\ d # NoUint
        /\ e.value = d.value
        /\ e.value[0] <= MaxDigestIdTop
        /\ e.encoded = [b \in 0..4 |-> IF b < d.width THEN window[b] ELSE 0]

\* An item issued with a digestID below 2^31 can be extracted: the witness the
\* gadget assigns for that digestID satisfies every constraint, whatever bytes
\* follow the encoding (digest_id_extract.rs, the active mask of step 2).
CanonicalIsExtracted == \A v \in issued : Satisfied(window, AssignedWitness(v))
=============================================================================
