------------------------------- MODULE MdocAge -------------------------------
(***************************************************************************)
(* mdoc_age.rs and mdoc_age_circuit.rs: a holder proves to a verifier that *)
(* the birth_date an issuer signed is not after a cutoff, that the         *)
(* credential is live, and that its device signed this session.            *)
(*                                                                         *)
(* Issuers and devices are given by CONSTANTS; the module builds the bytes *)
(* they sign, so what a verifier accepts can be compared with what was     *)
(* issued.  A wallet fills in an MdocAgeWitness, which the holder may then *)
(* change field by field.  Two things the witness has once and a prover    *)
(* that writes its own assignment may choose apart are fields of their     *)
(* own: the second selection of the namespace (OffsetBind), and the bytes  *)
(* behind the signed ones, which the hash does not read.  Signatures and   *)
(* the proof system are external and ideal.                                *)
(***************************************************************************)
EXTENDS OffsetBind

CONSTANTS
    Items,                  \* IssuerSignedItems, by number
    Credentials,            \* the credentials that were issued
    Devices,                \* the coordinates of the devices' public keys
    Sessions,               \* what the verifiers demand: ExpectedContext
    MAX_SIG_STRUCTURE_BYTES,
    MAX_CLAIM_BYTES,
    Earlier,                \* credential and session of signatures made before
    Changes                 \* sets of witness fields a holder changes together

-----------------------------------------------------------------------------
\* The bytes issuers sign.

MIN_SALT_BYTES == 16
MAX_SALT_BYTES == 32
ELEMENT_VALUE == Literal("elementValue", 13)

Identifier(element) == Literal("elementIdentifier", 18) \o Literal(element, 11)
IDENTIFIER_LITERAL == Identifier("birth_date")

\* DateEncoding::prefix, and the form with an approximate_mask, which issuers
\* may use and the circuit does not accept.
prefix(encoding) ==
    CASE encoding = "Bare" -> Literal("full-date", 4)
      [] encoding = "PhotoIdMap" -> Literal("map1", 12) \o Literal("full-date", 4)
      [] encoding = "Masked" -> Literal("map2", 12) \o Literal("full-date", 4)
ALL == {"Bare", "PhotoIdMap"}

date_rel(encoding) == Len(ELEMENT_VALUE) + Len(prefix(encoding))
identifier_rel(encoding) == date_rel(encoding) + 10

DigitBytes(ds) == [k \in DOMAIN ds |-> <<"digit", ds[k]>>]

\* A date YYYYMMDD as the ten characters YYYY-MM-DD, each less '0'; a time on
\* that day as twenty, YYYY-MM-DDT00:00:00Z.
DateDigits(n) ==
    LET d(unit) == (n \div unit) % 10
    IN  <<d(10000000), d(1000000), d(100000), d(10000), -3, d(1000), d(100), -3, d(10), d(1)>>
TimeDigits(n) == DateDigits(n) \o <<36, 0, 0, 10, 0, 0, 10, 0, 0, 42>>

\* An IssuerSignedItem: what precedes its value, and its value and identifier.
ItemHead(it) ==
    Literal("item head", 12)
    \o Literal("salt", it.salt + (IF it.salt < 24 THEN 1 ELSE 2))
    \o Literal("digestID", 9) \o Bytes(it.id)
ItemValue(it) ==
    ELEMENT_VALUE \o prefix(it.encoding) \o DigitBytes(DateDigits(it.date))
    \o Identifier(it.element)
ItemBytes(i) == ItemHead(Items[i]) \o ItemValue(Items[i])

\* SHA-256 of an item: 32 bytes no other bytes have.
ItemDigest(i) == [k \in 1..32 |-> <<"sha256", 32 * i + k>>]

EntryBytes(i) == Bytes(Items[i].id) \o BSTR32 \o ItemDigest(i)
NamespaceBytes(ns) ==
    NameBytes(ns.name) \o map_header(Len(ns.items))
    \o FlattenSeq([k \in DOMAIN ns.items |-> EntryBytes(ns.items[k])])

\* The Sig_structure, from its start to the docType, the validity, the digests and the
\* device key to the end.
Opening(c) ==
    Literal("Sig_structure", 26) \o DOC_TYPE_KEY \o NameBytes(c.doc_type) \o Literal("version", 12)
Validity(c) ==
    VALIDITY_OPEN \o DigitBytes(TimeDigits(c.from)) \o VALIDITY_MID_FROM \o DigitBytes(TimeDigits(c.from))
    \o VALIDITY_MID_UNTIL \o DigitBytes(TimeDigits(c.until))
ValueDigests(c) ==
    VALUE_DIGESTS_OPEN_KEY \o map_header(Len(c.namespaces))
    \o FlattenSeq([k \in DOMAIN c.namespaces |-> NamespaceBytes(c.namespaces[k])])
DeviceKeyInfo(c) ==
    DEVICE_KEY_INFO \o Devices[c.device][1] \o Literal("y label", 3) \o Devices[c.device][2]
    \o Literal("digestAlgorithm", 24)
SigStructure(c) == Opening(c) \o Validity(c) \o ValueDigests(c) \o DeviceKeyInfo(c)

\* Tables of the above, so that they are computed once.
ItemTable == [i \in DOMAIN Items |-> ItemBytes(i)]
SigTable == [c \in DOMAIN Credentials |-> SigStructure(Credentials[c])]

\* resize(MAX, 0)
Padded(bytes, max) == bytes \o [k \in 1..(max - Len(bytes)) |-> Byte(0)]

PaddedSig == [c \in DOMAIN Credentials |-> Padded(SigTable[c], MAX_SIG_STRUCTURE_BYTES)]
PaddedItem == [i \in DOMAIN Items |-> Padded(ItemTable[i], MAX_CLAIM_BYTES)]

-----------------------------------------------------------------------------
\* What issuers, devices and verifiers may be.

LastDay == 99999999
Day == 0..LastDay       \* YYYYMMDD
\* The literals of the signed bytes that the circuit looks for, and all of them.
Anchors == {"docType", "validityInfo", "valueDigests", "deviceKeyInfo"}
SigTags ==
    Anchors \cup {"Sig_structure", "version", "digit", "validFrom", "validUntil", "byte",
                  "sha256", "y label", "digestAlgorithm"}
ItemTags ==
    {"item head", "salt", "digestID", "byte", "elementValue", "full-date", "map1", "map2",
     "digit", "elementIdentifier", "birth_date"} \cup {Items[i].element : i \in DOMAIN Items}
DeviceTags == {Devices[d][j][k][1] : d \in DOMAIN Devices, j \in 1..2, k \in 1..32}

Cell == (Names \cup SigTags \cup ItemTags \cup DeviceTags) \X Int

\* A digestID is an unsigned integer in CBOR: its first byte tells its length.
IsDigestId(id) ==
    /\ id \in Seq(Nat)
    /\ \/ Len(id) = 1 /\ id[1] < 24
       \/ Len(id) = 2 /\ id[1] = 24
       \/ Len(id) = 3 /\ id[1] = 25
       \/ Len(id) = 5 /\ id[1] = 26

\* No element is called as the key in front of its value.
IsItem(it) ==
    /\ it.salt \in Nat
    /\ IsDigestId(it.id)
    /\ it.encoding \in {"Bare", "PhotoIdMap", "Masked"}
    /\ it.element # "elementValue"
    /\ it.date \in Day

IsCredential(c) ==
    /\ c.doc_type \in Names
    /\ c.from \in Day /\ c.until \in Day
    /\ c.device \in DOMAIN Devices
    /\ c.namespaces \in Seq([name : Names, items : Seq(DOMAIN Items)])
    /\ \A k \in DOMAIN c.namespaces : Len(c.namespaces[k].items) < 256

Coordinate == [1..32 -> DeviceTags \X Int]

IsSession(s) == s.cutoff \in Day /\ s.now \in Day /\ s.accepted \subseteq Names \X Names

Fields == {"value_digests_key", "namespace_key", "namespace_offset", "region_start", "device_key_info",
    "doc_type_key", "validity_info", "digest_offset", "namespace", "doc_type",
    "num_entries", "item", "value_key_offset", "encoding", "issuer", "device_auth",
    "device_auth_digest", "cutoff", "now", "behind"}

\* Names are no literals.  Coordinates of public keys spell neither a name nor a literal
\* the circuit looks for; they may spell a digest.
ASSUME IssuedAssumption ==
    /\ Names \cap SigTags = {}
    /\ DeviceTags \cap (Names \cup Anchors) = {}
    /\ \A n \in Names : NameLen[n] >= 1
    /\ DOMAIN Items \subseteq Nat
    /\ \A i \in DOMAIN Items : IsItem(Items[i])
    /\ \A c \in DOMAIN Credentials : IsCredential(Credentials[c])
    /\ \A d \in DOMAIN Devices : Devices[d] \in Coordinate \X Coordinate
    /\ \A d, e \in DOMAIN Devices : Devices[d] = Devices[e] => d = e
    /\ \A s \in DOMAIN Sessions : IsSession(Sessions[s])
    /\ Earlier \subseteq (DOMAIN Credentials) \X (DOMAIN Sessions)
    /\ UNION Changes \subseteq Fields
    /\ MAX_SIG_STRUCTURE_BYTES \in Nat /\ MAX_CLAIM_BYTES \in Nat

\* What the circuit has room for: names within their windows, a namespace within the walk,
\* and bytes within the buffers.  The namespaces of a credential are the keys of a map.
\* Offsets are compared over 16 bits (OffsetBind), which every real budget is far below.
FitsWindows(c) ==
    /\ Len(DOC_TYPE_KEY) + Len(NameBytes(c.doc_type)) <= ANCHOR_TEXT_WINDOW
    /\ \A r \in DOMAIN c.namespaces :
         LET ns == c.namespaces[r] IN
         /\ Len(NameBytes(ns.name)) + Len(map_header(Len(ns.items))) <= ANCHOR_TEXT_WINDOW
         /\ Len(ns.items) <= MAX_NAMESPACE_ENTRIES
         /\ \A t \in DOMAIN c.namespaces : c.namespaces[t].name = ns.name => t = r

WithinBudget ==
    /\ MAX_SIG_STRUCTURE_BYTES < 65536
    /\ \A c \in DOMAIN Credentials :
         Len(SigTable[c]) <= MAX_SIG_STRUCTURE_BYTES /\ FitsWindows(Credentials[c])
    /\ \A i \in DOMAIN Items :
         /\ Len(ItemTable[i]) <= MAX_CLAIM_BYTES
         /\ MIN_SALT_BYTES <= Items[i].salt /\ Items[i].salt <= MAX_SALT_BYTES

-----------------------------------------------------------------------------
\* The circuit.

\* element_value_key_offset and candidate_value_key_offsets.
element_value_key_offset(salt, width) ==
    2 + 2 + 1 + 7 + (IF salt < 24 THEN 1 ELSE 2) + salt + 9 + width
candidate_value_key_offsets ==
    {element_value_key_offset(s, w) : s \in MIN_SALT_BYTES..MAX_SALT_BYTES, w \in {1, 2, 3, 5}}

\* extract_birth_date: the literals around a date, all of it hashed bytes.
extract_birth_date(item, at, encoding) ==
    LET bytes == PaddedItem[item]
        last == at + identifier_rel(encoding) + Len(IDENTIFIER_LITERAL) - 1
    IN  /\ at \in candidate_value_key_offsets
        /\ encoding \in ALL
        /\ last < Len(ItemTable[item])
        /\ BytesAt(bytes, at, Len(ELEMENT_VALUE)) = ELEMENT_VALUE
        /\ BytesAt(bytes, at + Len(ELEMENT_VALUE), Len(prefix(encoding))) = prefix(encoding)
        /\ BytesAt(bytes, at + identifier_rel(encoding), Len(IDENTIFIER_LITERAL))
             = IDENTIFIER_LITERAL

\* birth_date_bytes: the ten characters both sides read.
birth_date_bytes(w) ==
    Digits(BytesAt(PaddedItem[w.item], w.value_key_offset + date_rel(w.encoding), 10))

\* Mutant of date_not_after: dates that are equal do not pass.
date_not_after_Strict(date, cutoff) ==
    \E i \in DOMAIN date : date[i] < cutoff[i] /\ \A j \in 1..(i - 1) : date[j] = cutoff[j]

\* date_not_after: bytewise from the left, with a flag for "equal so far".
date_not_after(date, cutoff) ==
    \/ \E i \in DOMAIN date : date[i] < cutoff[i] /\ \A j \in 1..(i - 1) : date[j] = cutoff[j]
    \/ \A i \in DOMAIN date : date[i] = cutoff[i]

\* The bits of the buffer: the signed bytes, and behind them zeros, or the bytes of
\* another credential.  The hash covers the signed length only, and its mask of the
\* bytes that are real is dropped.
NoTail == 0
sig_bytes(w) ==
    IF w.behind = NoTail THEN PaddedSig[w.cred]
    ELSE SubSeq(SigTable[w.cred] \o PaddedSig[w.behind], 1, MAX_SIG_STRUCTURE_BYTES)

\* synthesize_credential: everything that does not depend on the verifier.
synthesize_credential(w) ==
    LET bytes == sig_bytes(w) IN
    /\ Len(SigTable[w.cred]) <= MAX_SIG_STRUCTURE_BYTES
    /\ Len(ItemTable[w.item]) <= MAX_CLAIM_BYTES
    /\ w.issuer = Credentials[w.cred].issuer    \* the issuer's signature
    /\ bind_digest_region(bytes, w)
    /\ w.digest_offset \in window_offsets(MAX_SIG_STRUCTURE_BYTES, 32)
    /\ enforce_ge(w.digest_offset, region_start(w), w.digest_offset - w.region_start)
    /\ enforce_ge(region_end(bytes, w), w.digest_offset + 32,
                  region_end(bytes, w) - (w.digest_offset + 32))
    /\ BytesAt(bytes, w.digest_offset, 32) = ItemDigest(w.item)
    /\ extract_birth_date(w.item, w.value_key_offset, w.encoding)
    /\ bind_validity(bytes, w.validity_info)

\* synthesize_session: the device's signature over the verifier's digest, and
\* a credential that is live at the verifier's time.
synthesize_session(w) ==
    LET bytes == sig_bytes(w) IN
    /\ Devices[w.device_auth.key] = device_key(bytes, w)
    /\ w.device_auth.digest = w.device_auth_digest
    /\ date_not_after(valid_from(bytes, w.validity_info), TimeDigits(w.now))
    /\ date_not_after(TimeDigits(w.now), valid_until(bytes, w.validity_info))

\* prove makes a proof of a witness that satisfies both halves.
Satisfied(w) == synthesize_credential(w) /\ synthesize_session(w)

\* Mutant of public_values: the windows are published as they stand.
public_values_Unmasked(w) ==
    [issuer |-> w.issuer,
     doc_type |-> BytesAt(sig_bytes(w), w.doc_type_key, ANCHOR_TEXT_WINDOW),
     namespace |-> BytesAt(sig_bytes(w), w.namespace_key, ANCHOR_TEXT_WINDOW),
     prefix_len |-> namespace_prefix_len(w),
     num_entries |-> w.num_entries,
     cutoff |-> DateDigits(w.cutoff), now |-> TimeDigits(w.now),
     device_auth_digest |-> w.device_auth_digest,
     old_enough |-> date_not_after(birth_date_bytes(w), DateDigits(w.cutoff))]

\* public_values, of a witness that satisfies the circuit.
public_values(w) ==
    [issuer |-> w.issuer,
     doc_type |-> MaskedWindow(sig_bytes(w), w.doc_type_key, doc_type_prefix_len(w)),
     namespace |-> MaskedWindow(sig_bytes(w), w.namespace_key, namespace_prefix_len(w)),
     prefix_len |-> namespace_prefix_len(w),
     num_entries |-> w.num_entries,
     cutoff |-> DateDigits(w.cutoff), now |-> TimeDigits(w.now),
     device_auth_digest |-> w.device_auth_digest,
     old_enough |-> date_not_after(birth_date_bytes(w), DateDigits(w.cutoff))]

-----------------------------------------------------------------------------
\* The verifier.

\* read_tstr: where the string at an offset of a window starts and ends, in
\* canonical form only.
read_tstr(window, at) ==
    LET h == window[at + 1][2] IN
    CASE h \in 96..119 -> [ok |-> TRUE, start |-> at + 1, end |-> at + 1 + h - 96]
      [] h = 120 /\ window[at + 2][2] >= 24 ->
            [ok |-> at + 2 + window[at + 2][2] <= ANCHOR_TEXT_WINDOW,
             start |-> at + 2, end |-> at + 2 + window[at + 2][2]]
      [] OTHER -> [ok |-> FALSE, start |-> 0, end |-> 0]

\* The name a window spells there.
Spells(window, t, name) ==
    /\ t.ok
    /\ t.end - t.start = NameLen[name]
    /\ BytesAt(window, t.start, NameLen[name]) = Literal(name, NameLen[name])

\* The entry-count map header that follows the namespace: its length and its
\* count, canonical forms only.
map_entries(window, at) ==
    LET h == window[at + 1][2] IN
    CASE h \in 160..183 -> [ok |-> TRUE, len |-> 1, entries |-> h - 160]
      [] h = 184 -> [ok |-> window[at + 2][2] >= 24, len |-> 2, entries |-> window[at + 2][2]]
      [] OTHER -> [ok |-> FALSE, len |-> 0, entries |-> 0]

\* check_public_values, behind verify_age.
check_public_values(v, s) ==
    LET doc == read_tstr(v.doc_type, Len(DOC_TYPE_KEY))
        ns == read_tstr(v.namespace, 0)
        map == map_entries(v.namespace, ns.end)
    IN  /\ v.old_enough
        /\ v.device_auth_digest = s.device_auth_digest
        /\ v.cutoff = DateDigits(s.cutoff)
        /\ v.now = TimeDigits(s.now)
        /\ BytesAt(v.doc_type, 0, Len(DOC_TYPE_KEY)) = DOC_TYPE_KEY
        /\ map.ok
        /\ v.prefix_len = ns.end + map.len
        /\ v.num_entries = map.entries
        /\ \E a \in s.accepted : Spells(v.doc_type, doc, a[1]) /\ Spells(v.namespace, ns, a[2])
        /\ s.policy = "Only" => v.issuer \in s.issuers
-----------------------------------------------------------------------------
\* What a wallet fills in.

\* Where some bytes stand first in a credential, from an offset on.
Locate(c, from, cells) ==
    CHOOSE at \in from..(Len(SigTable[c]) - Len(cells)) :
        /\ BytesAt(SigTable[c], at, Len(cells)) = cells
        /\ \A q \in from..(at - 1) : BytesAt(SigTable[c], q, Len(cells)) # cells

\* The namespaces with a birth_date, and that item.
BirthDate(ns) ==
    CHOOSE k \in DOMAIN ns.items : Items[ns.items[k]].element = "birth_date"
Provable ==
    {q \in UNION {{c} \X DOMAIN Credentials[c].namespaces : c \in DOMAIN Credentials} :
        \E k \in DOMAIN Credentials[q[1]].namespaces[q[2]].items :
            Items[Credentials[q[1]].namespaces[q[2]].items[k]].element = "birth_date"}

\* The credential's part of an MdocAgeWitness, for one of its namespaces.
WalletTable ==
    [q \in Provable |->
        LET c == Credentials[q[1]]
            ns == c.namespaces[q[2]]
            item == ns.items[BirthDate(ns)]
            table == Locate(q[1], 0, VALUE_DIGESTS_OPEN_KEY)
            key == Locate(q[1], table, NameBytes(ns.name) \o map_header(Len(ns.items)))
        IN  [cred |-> q[1], issuer |-> c.issuer, namespace |-> ns.name,
             doc_type |-> c.doc_type, num_entries |-> Len(ns.items),
             value_digests_key |-> table,
             namespace_key |-> key, namespace_offset |-> key,
             region_start |-> key + Len(NameBytes(ns.name) \o map_header(Len(ns.items))),
             device_key_info |-> Locate(q[1], 0, DEVICE_KEY_INFO),
             doc_type_key |-> Locate(q[1], 0, DOC_TYPE_KEY),
             validity_info |-> Locate(q[1], 0, VALIDITY_OPEN),
             item |-> item, behind |-> NoTail,
             digest_offset |-> Locate(q[1], key, ItemDigest(item)),
             value_key_offset |->
                element_value_key_offset(Items[item].salt, Len(Items[item].id)),
             encoding |-> IF Items[item].encoding \in ALL
                          THEN Items[item].encoding ELSE "PhotoIdMap"]]

Signature(c, digest) == [key |-> Credentials[c].device, digest |-> digest]

\* The whole witness, for one verifier.
Witness(q, s) ==
    [f \in Fields \cup {"cred"} |->
        CASE f = "cutoff" -> s.cutoff
          [] f = "now" -> s.now
          [] f = "device_auth_digest" -> s.device_auth_digest
          [] f = "device_auth" -> Signature(q[1], s.device_auth_digest)
          [] OTHER -> WalletTable[q][f]]

\* The offsets at which something begins in the signed bytes, and the next ones.
Boundaries ==
    [c \in DOMAIN Credentials |->
        LET starts == {at \in 1..(Len(SigTable[c]) - 1) :
                         SigTable[c][at + 1][1] # SigTable[c][at][1]}
        IN  starts \cup {at + 1 : at \in starts}]

\* The same in the buffer of a witness, with those of what stands behind.
BoundariesOf(w) ==
    Boundaries[w.cred] \cup
        (IF w.behind = NoTail THEN {}
         ELSE {Len(SigTable[w.cred]) + at : at \in {0} \cup Boundaries[w.behind]})

-----------------------------------------------------------------------------
VARIABLES
    asked,      \* the session the wallet answers, or NoSession
    draft,      \* its witness
    changed,    \* the fields of the witness its holder changed
    signed,     \* what devices have signed
    proof,      \* the public values of the proof that was made, if one was
    accepted    \* the sessions whose verifier accepted it

vars == <<asked, draft, changed, signed, proof, accepted>>

NoSession == 0
NoWitness == [cred |-> 0]
NoProof == [issuer |-> "none"]

\* Devices may have signed for sessions before.
Init ==
    /\ asked = NoSession
    /\ draft = NoWitness
    /\ changed = {}
    /\ signed = {Signature(e[1], Sessions[e[2]].device_auth_digest) : e \in Earlier}
    /\ proof = NoProof
    /\ accepted = {}

\* The device signs the session's digest, the wallet fills in the witness.
Fill(q, s) ==
    /\ asked = NoSession
    /\ asked' = s
    /\ draft' = Witness(q, Sessions[s])
    /\ signed' = signed \cup {Signature(q[1], Sessions[s].device_auth_digest)}
    /\ UNCHANGED <<changed, proof, accepted>>

\* The values a holder may put into a field.
Values(f) ==
    CASE f \in {"value_digests_key", "namespace_key", "region_start", "device_key_info",
                "doc_type_key", "validity_info", "digest_offset"} -> BoundariesOf(draft)
      [] f = "namespace_offset" ->
            {at - namespace_prefix_len(draft) : at \in BoundariesOf(draft)}
      [] f \in {"namespace", "doc_type"} -> Names
      [] f = "num_entries" -> 0..(MAX_NAMESPACE_ENTRIES + 1)
      [] f = "item" -> DOMAIN Items
      [] f = "value_key_offset" -> 38..61
      [] f = "encoding" -> ALL
      [] f = "issuer" -> {c.issuer : c \in Range(Credentials)}
      [] f = "device_auth" -> signed
      [] f = "device_auth_digest" -> {s.device_auth_digest : s \in Range(Sessions)}
      [] f = "cutoff" -> {s.cutoff : s \in Range(Sessions)}
      [] f = "now" -> {s.now : s \in Range(Sessions)}
      [] f = "behind" -> DOMAIN Credentials

Change(f) ==
    /\ asked # NoSession
    /\ proof = NoProof
    /\ changed \cup {f} \in Changes
    /\ \E v \in Values(f) \ {draft[f]} : draft' = [draft EXCEPT ![f] = v]
    /\ changed' = changed \cup {f}
    /\ UNCHANGED <<asked, signed, proof, accepted>>

\* prove
Prove ==
    /\ asked # NoSession
    /\ proof = NoProof
    /\ Satisfied(draft)
    /\ proof' = public_values(draft)
    /\ UNCHANGED <<asked, draft, changed, signed, accepted>>

\* verify_age, by any verifier the proof is sent to.
Verify(s) ==
    /\ proof # NoProof
    /\ s \notin accepted
    /\ check_public_values(proof, Sessions[s])
    /\ accepted' = accepted \cup {s}
    /\ UNCHANGED <<asked, draft, changed, signed, proof>>

Next ==
    \/ \E q \in Provable, s \in DOMAIN Sessions : Fill(q, s)
    \/ \E f \in UNION Changes \ changed : Change(f)
    \/ Prove
    \/ \E s \in DOMAIN Sessions : Verify(s)

Spec == Init /\ [][Next]_vars
-----------------------------------------------------------------------------
\* c carries, in a namespace of that name, a birth_date not after the cutoff.
AttestsAge(c, name, cutoff) ==
    \E ns \in Range(c.namespaces) : \E i \in Range(ns.items) :
        /\ ns.name = name
        /\ Items[i].element = "birth_date"
        /\ Items[i].encoding # "Masked"
        /\ Items[i].date <= cutoff

\* An accepted proof means what its verifier asked: an issuer it takes signed a
\* credential of an accepted docType, live now, with a birth_date not after the
\* cutoff, and the device bound in that credential signed this session, whatever
\* offsets the holder supplied (offset_bind.rs, mdoc_age_circuit.rs
\* check_public_values).  The date is one of the accepted namespace when the walk
\* starts from the header that is published; all but the issuer presupposes that
\* nothing stands behind the signed bytes (mdoc_age.rs:688).
AcceptedIsEntitled ==
    \A s \in accepted :
        LET ctx == Sessions[s]
            c == Credentials[draft.cred]
        IN  /\ c.issuer = proof.issuer
            /\ ctx.policy = "Only" => c.issuer \in ctx.issuers
            /\ draft.behind = NoTail =>
                 /\ \E a \in ctx.accepted :
                      /\ c.doc_type = a[1]
                      /\ \E name \in Names : AttestsAge(c, name, ctx.cutoff)
                      /\ draft.namespace_offset = draft.namespace_key =>
                            AttestsAge(c, a[2], ctx.cutoff)
                 /\ c.from <= ctx.now /\ ctx.now <= c.until
                 /\ [key |-> c.device, digest |-> ctx.device_auth_digest] \in signed

\* "Proves that `region_start .. region_end` really is the requested namespace's
\* digest region inside the signed bytes" (offset_bind.rs:1205-1206): an accepted
\* proof is about a birth_date of a namespace the verifier accepts.  The code
\* selects the published header and the start of the region apart.
DateOfRequestedNamespace ==
    \A s \in accepted :
        draft.behind = NoTail =>
            \E a \in Sessions[s].accepted :
                AttestsAge(Credentials[draft.cred], a[2], Sessions[s].cutoff)

\* Whether an unchanged answer to a session is one its verifier asked for.
Deserves(w, s) ==
    LET c == Credentials[w.cred] IN
    /\ Items[w.item].encoding \in ALL
    /\ Items[w.item].date <= s.cutoff
    /\ <<w.doc_type, w.namespace>> \in s.accepted
    /\ s.policy = "Only" => c.issuer \in s.issuers
    /\ c.from <= s.now /\ s.now <= c.until

\* A wallet that deserves to be accepted is: every salt length, digestID width,
\* number of namespaces and of entries, a birthday on the cutoff and a
\* credential that fills the byte budget included (offset_bind.rs, CIRCUIT-02).
HonestIsAccepted ==
    asked # NoSession /\ changed = {} /\ Deserves(draft, Sessions[asked]) =>
        /\ Satisfied(draft)
        /\ check_public_values(public_values(draft), Sessions[asked])

\* Two holders whose credentials agree on what a verifier may learn (issuer,
\* docType, namespace and its number of entries) give the same public values:
\* no digest, digestID, device key or validity date shows through the windows
\* (mdoc_age.rs, MdocAgeOutputs: what is not here).
NothingLinkable ==
    proof # NoProof /\ changed = {} =>
        \A q \in Provable :
            LET w == Witness(q, Sessions[asked]) IN
            (/\ Satisfied(w)
             /\ <<w.issuer, w.doc_type, w.namespace, w.num_entries>> =
                  <<draft.issuer, draft.doc_type, draft.namespace, draft.num_entries>>
             /\ (Items[w.item].date <= Sessions[asked].cutoff) = proof.old_enough)
            => public_values(w) = proof
=============================================================================
