# A TLA+ verification of zk-cred-vega

`zk-cred-vega` turns an ISO mdoc credential into a zero-knowledge proof: a wallet proves that a
genuine issuer signed a credential whose holder is of age, that the credential is valid now and
that its device key signed the verifier's challenge, and reveals nothing but a pseudonym that is
stable at one verifier and unlinkable across verifiers (`nym_auth`). Verifiers reach the code
through a Go package over a C ABI.

A second, generic path discloses chosen claims of an mdoc (`lib.rs`), and a third proves an age
from an mdoc with its digests left where they are (`mdoc_age*.rs`).

This directory models the parts of the program that carry its own logic: the lifetime of the
native keys under concurrent Go calls, the C entry points and what they leave in the caller's
variables, the calendar arithmetic of the age rule, the `nym_auth` statement in a protocol with
wallets, verifiers, replays and a prover that does not follow the rules, the hash table and the
windows its core circuit reads, the stored circuit shapes, the generic presentation with its
chain of prepared states, and the byte-level circuits (SHA-256 padding, the assembly of the signed
structure, digestIDs, offsets) against what an issuer's encoder or RFC 6234 says.

Paths below are relative to the repository's root.

## The system's parts

| Part | Where | State | Operations | Talks to |
|---|---|---|---|---|
| Go wrapper | `go/nymauth/nymauth.go` | `Keys{mu, p}`, C copies of each call's arguments | `LoadKeys`, `Verify`, `Prove`, `Close`, finalizer; `DeriveChallenge`, `ChallengeDigest`, `VerifierInput` | C ABI |
| C ABI of nym_auth | `src/nymauth_go_ffi.rs`, `include/zk_cred_vega_nymauth_go.h` | boxed keys, proof buffers, the caller's seed buffer | `load_keys`, `free_keys`, `prove`, `verify`, `free_buffer`, challenge functions | engine |
| uniffi surface | `src/nymauth_vega.rs` | `Keys` behind an `Arc` | as above, for Kotlin and Swift | engine |
| Statement | `engine/statement.rs` | none | `prove`, `verify`, `check_range`, dates and times | app, mdoc |
| Challenge | `engine/challenge.rs` | none | `derive`, `digest_of_transcript`, `verifier_input` | callers |
| Core circuit | `engine/mdoc.rs`, `presentation.rs`, `pseudonym.rs`, `request.rs` | the witness | the rules, in two segments | table |
| Hash table, step circuit | `engine/table.rs`, `step.rs` | 32 blocks and chained states | one compression per step instance | core |
| Application of the prover | `engine/app.rs` | keys, prepared state | set-up from stored shapes, `first_broken`, `prepare`, `prove`, `accept_pseudonym` | vega-prover |
| Generic mdoc path | `src/lib.rs`, `mdoc_core.rs` | `VegaMdocPrepState`: the prepared proof and its nonce | `setup`, `prep_prove`, `prove`, `verify`, `verify_and_check_binding` | vega-prover, the two below |
| Sig_structure assembly | `src/mso.rs`, `mso_splice.rs`, `onehot_cursor.rs` | none | one-hot cursors, placements, length fields | `mdoc_core.rs` |
| digestIDs | `src/cbor_uint.rs`, `digest_id_extract.rs` | none | encode, decode, extract | `lib.rs` |
| Age proof over an mdoc | `src/mdoc_age.rs`, `mdoc_age_circuit.rs`, `mdoc_age_mc.rs`, `offset_bind.rs` | the holder's witness | `prove`, `verify_age`, `check_public_values` | SHA-256 circuits |
| SHA-256 of variable length | `src/sha256_var.rs`, `sha256_mc.rs` | the shared witness | padding, terminal block, folded steps | mdoc circuits |
| Generic FFI | `src/ffi_api.rs`, `src/go_ffi.rs` | key handles, error strings, the caller's out-variables | deserialise, verify, free | generic path |
| Arithmetic gadgets | `p256_ecc.rs`, `ecdsa.rs`, `nonnative/`, `engine/gadgets/` | none | constraints over a prime field | circuits |

What is hard here, and hard to test:

- **Concurrency.** Goroutines share one `Keys`: a `Close` may meet a running proof, another
  `Close`, or the finalizer, and two `Prove`s may share one `Holder` and race on its seed.
- **Failure paths.** The holder's seed must be erased on every way out: an argument past its
  limit, a broken rule, a panic in the engine. C buffers must be released on the same paths.
- **Ordering and replay.** Proofs arrive late, twice, at another verifier or in another session;
  a rogue verifier relays the challenge of an honest one.
- **Soundness by composition.** The step instances hash the table, the core reads it: only
  together, and only when every instance reports its own position, do they tie the issuer's
  signature, the birth date, the committed seed and the pseudonym to *one* credential.
- **Soundness in the constraints.** A prover writes its own assignment: two variables that the
  synthesis fills from one field of the witness are two values unless a constraint equates them.
- **Boundaries.** Leap years and eras, the 365-day window, sentinels for absent bounds, the
  second at which validity begins or ends, subtraction in a prime field; the message length at
  which SHA-256 needs another block, the digestID at which CBOR needs another byte, the credential
  that fills its byte budget.
- **Witnessed offsets.** Where a digest, a name or a window starts is the prover's choice; only
  the anchors and walks around it make an offset mean what the issuer meant.
- **Reused memory.** C callers hand in the same result and error variables call after call.
- **What a proof shows.** Blinded digests, lengths and windows must not show more than was
  disclosed, nor link two presentations that were prepared apart.

`PROJECT.json` lists each of these at its line under `hazards`.

## The modules

### The wrapper's keys: `KeyLifetime`, `NymKeys`, `NymKeysProofs`

`KeyLifetime` is what the documentation of `Keys` promises: the circuit is absent, open or
closed; an operation runs on an open circuit, which then stays open until the operation ends, or
is refused because the circuit is closed; the circuit is released once.

`NymKeys` is the code. A goroutine has a program counter that walks through `Verify`, `Prove` or
`Close` line by line: the refusal of long arguments before the lock, `RLock`, the copies into C
memory, the read of `k.p` as an argument, the native call, the zeroing of the caller's seed (two
steps, since it is a loop another goroutine may observe halfway), `GoBytes` and `free_buffer`, the
deferred frees and the deferred `RUnlock`. `p` is the Go pointer and `native` the allocation
behind it, so freed memory behind a non-nil pointer is a state the model can reach.
`readers`, `rwait` and `wlock` are `sync.RWMutex`: an announced writer holds back new readers and,
when it unlocks, lets in those it held back. `cseed` and `cbuf` are the C memory a call owns.
The finalizer is one more process; it starts only once no goroutine references `k`.

Correspondence: `arg` is the value of `k.p` passed to C; `seed[h]` is `h.SecretSeed`; `spent` is a
history variable, the Holders whose `Prove` has returned; `users` are the goroutines that still
hold a reference (a goroutine inside a call does, `runtime.KeepAlive` and the deferred unlock
guarantee it, so `Drop` needs an idle goroutine).

### The C entry point: `NymAbi`, `NymAbiProofs`

`zk_cred_vega_nymauth_prove` step by step: the view of the seed, the pointer checks, clearing the
outputs, reading the slices, the engine, the zeroing, the outputs; a panic may replace any step
under `catch_unwind`. The caller calls repeatedly with the same output variables and frees what
they hold. Arguments are what the code tests of them: null or not, within their caps or not.

### The calendar: `Calendar`, `CalendarWalk`

`Calendar` holds `days_in_month`, `date`, `time`, `days`, `check_range` and the `YYYYMMDD`
comparison of the circuit. A text is abstracted to what its parser sees. `CalendarWalk` is the
reference: a calendar that turns one page a day and only knows how long each month is.

### The statement and the protocol: `NymRules`, `NymProtocol`, `MCNymProtocol`, `NymProtocolProofs`

`NymRules` has the core circuit's rules as a sequence in synthesis order (`age_part`, `nym_part`,
`presentation_check`, `pseudonym_check`), so that `first_broken` and the refusal code are the
code's. SHA-256 and ECDSA are symbolic. The witness is split as the circuit splits it: `bytes`
holds the messages in the table and `digest` the states the core reads after them. The two agree
only for a message whose every position is reported by some step instance (`StepRules`).
`prove` and `verify` follow `statement.rs` early return by early return.

`NymProtocol` puts them in a world: verifiers issue requests and keep the statement they computed
(the integration contract: own clock, own identifier, fresh nonce), rogue ones reuse nonces and
name other verifiers; wallets sign and prove; a verifier runs `verify` on any proof made so far,
whole, cut or with trailing bytes, in any of its sessions. `VerifyForged` is a prover that does
not run `prove` at all: it fills the table with any mixture of items and signed messages of
several credentials, its own items, its own signed message where no chain pins it, the seeds it
knows and every signature ever made, and lets one step instance report another position.

### The hash table: `HashTable`, `MCHashTable`, `HashTableProofs`

`with_messages` copies the padded messages one after the other into the regions of a layout
(`Begin`, `Copy`), refuses one that does not fit (`Refuse`), and chains
the states (`Build`); `Change` is a prover that writes blocks, states, the start and the reported
positions as it likes. `compression` is what the step instance at a position checks, `verified`
the verifier's check of the positions, `open` how the core reads a digest. A hash state is the
sequence of the blocks compressed so far, so two chains agree only when they are one. What stays in
memory is not modelled: `Blocks` and `Table` are wiped when dropped, the padded copy of the signed
bytes is not (see the comments below).

### What the core reads: `TableWindow`, `RequestPattern`, and their proofs in `CircuitProofs`

`TableWindow` is `Message::read`: a one-hot block, a one-hot chunk and a shifter, with the rule that
keeps the window inside the blocks up to the message's last. Bytes are named by their place in
the table, so a window says where it was read. `RequestPattern` is `request.rs`: the pattern at the
right end of a window and the thermometer of compared bytes, over credentials in which letters may
look like CBOR heads. The windows of the code hold 34 to 85 bytes and the short head reaches 23;
the model keeps the order of these numbers (`ShortLimit < MaxText < WindowLen`) at a smaller scale.

### Stored shapes: `CircuitShapes`, and its proofs in `CircuitProofs`

`shapes` writes a blank circuit with its segments padded, `Damage` changes numbers of the artifact,
`Load` is `Keys::from_shapes`: approved bytes, `validate`, `within_budget`, replay. A circuit is
the list of its rows' variables, so a replay that confuses padding columns with variables shows.

### The generic presentation: `MdocPresentation`, `MCMdocPresentation`, `MdocPresentationProofs`

The UniFFI calls `prep_prove`, `prove` and `verify` as actions over `states` (the serialised prep
states a wallet keeps, the ones `prove` returned included), `proofs` and the last `verdict`. A
proof is the public values of one step circuit per claim slot and of the core. `check_slot` is the
body of the loop of `verify_and_check_binding`. `Mistakes` are arguments that a caller gets wrong
(other claims than prepared, a claim that is too long, a digestID that is not the item's);
`Fold` is a prover that writes the assignment of every circuit itself. A satisfied core circuit of a
credential pins what it hashes (`signed_ids`, `signed_digests`); what it exposes (`digest_ids`,
`claim_digests`) is allocated again at `mdoc_core.rs:365-396` and is any combination over
`FoldedItems` and the credential's own items, and so are the item, the nonce and the exposed length of every
step. The history field `agrees` of a proof says for which slots the exposed values are the
hashed ones; for a proof of `prove` they all are.

### digestIDs: `DigestId`, and its proofs in `CircuitProofs`

`cbor_uint.rs` as operators on the four bytes of a `u32`, and `extract_digest_id` as the relation
its constraints state between a five-byte window and a witness. `Expose` tries a witness the code
would not assign, `Extract` the one it does.

### SHA-256: `Sha256`, `Sha256Walk`, `FoldedHash`, and their proofs in `CircuitProofs`

`Sha256` has the padding of `sha256_var.rs` byte by byte, the terminal block and the selection, and
RFC 6234 written down independently (`Rfc6234`). `Sha256Walk` grows a message with stale bytes
behind it. `FoldedHash` is the form of `sha256_mc.rs` and `mdoc_age_mc.rs`: the steps read their
block and the previous digest out of one shared witness, the core binds the messages to it, and
`verify_age` insists on the step indices 0, 1, 2, ....

### Assembling the signed bytes: `MsoSplice`

Four entries of any width each, chained by `ChainEntry` with the one-hot distributions of
`onehot_cursor.rs`, then placed. An output byte is the set of the bytes ORed into it, so an
overlap is visible as a set of two. Sizes are the source's; there are no constants.

### The parts of the circuits together: `CircuitParts`, `MCCircuitParts`, `CircuitProofs`

`CalendarWalk`, `TableWindow`, `RequestPattern`, `CircuitShapes`, `DigestId`, `Sha256Walk`,
`FoldedHash` and `MsoSplice` share no state. `CircuitParts` has the constants and variables of all and is their sum:
the variable `part` says whose behaviour this is, and the others stay where they begin. Its
properties are those of the parts; `HonestWitnessesAreAccepted` joins the four that say that what an
honest prover builds is accepted. The parts' assumptions on their constants are definitions, and
`PartsAssumption` assumes them all.

### The age proof: `OffsetBind`, `MdocAge`, `MCMdocAge`, `MdocAgeProofs`

`OffsetBind` states the gadgets of `offset_bind.rs` on bytes: anchors, masked text windows, the
walk over a namespace's entries, the digest region, the device key and the validity window, with
the source's literals and deltas. `MdocAge` builds the bytes that issuers sign for the credentials
given as constants, lets a wallet `Fill` a witness for a session, lets its holder `Change` fields,
and proves and verifies. A byte is named by what it belongs to, so reading a device key as if it
were a digest is a real possibility: one device's key spells the digest of an item its holder made up.

The witness has two fields more than `MdocAgeWitness`, for what a prover may assign apart:
`namespace_offset`, the second selection of the namespace (`offset_bind.rs:1285`), from which
`region_start` is computed while `namespace_key` locates the published header; and `behind`, whose
bytes fill the buffer past the signed length, where the hash does not look and no mask is applied
(`sig_bytes`; `mdoc_age.rs:688`). The other selections that the code makes twice are tied by
constraints: the windows of the device key's coordinates to their deltas from the anchor, the heads of the walk
to its cursor, count and prefix length to the numbers published. Where the code compares natively and nothing
more, the model has the comparison only if the verifier repeats it on the published windows, as it
does for the docType and the namespace's name and count.

What issuers, devices and verifiers may be is `IssuedAssumption`; the run's constants are one
instance of it.

### The C verifier: `GoFfi`, `MCGoFfi`, `GoFfiProofs`

Threads call `zk_cred_vega_deserialize_verifier_key` and `zk_cred_vega_verify` with out-variables of their own,
share handles, free strings and handles. A call is three steps: it clears the error variable, the
body runs under `catch_unwind` (or panics), the result or the error is written. `uniffi_verify`
stands beside it for `SurfacesAgree`, which leaves out one case: an input marked present with
length 0, which the C ABI hands on as an empty byte string and UniFFI cannot express (an empty
vector means absent there). `MCGoFfi` gives two threads
few arguments or one thread all of them (the constraint `AloneOrFew`).

## The runs

| Run | Bounds | What it shows |
|---|---|---|
| `NymKeys` | 2 goroutines and the finalizer, 1 Holder shared by all | memory safety of the handle, erased seeds, no leak, refinement of `KeyLifetime`; every call returns, every `Close` releases |
| `NymProtocol_adversary` | 2 wallets, 5 credentials, 1 honest and 1 rogue verifier, 2 sessions, 2 nonces and a short one, 3 ranges, 2 moments | authenticity, consent, replay and the bound on pseudonyms |
| `NymProtocol_wallets` | 12 wallets with defects, 2 sessions | completeness of `prove`, meaning of the refusal codes |
| `NymAbi` | 3 calls | the seed and the outputs on every path of the C function |
| `NymAbi_seed` | 1 call | **expected violation**, see below |
| `MdocPresentation` | 5 credentials, a stranger's item, 2 slots, `MaxPreps` = 2, `MaxProofs` = 2, `FoldedNonces` = 2 | an accepted presentation is one credential's, as far as the constraints tie it to what was signed; completeness, linking, reuse of states |
| `MdocPresentation_core` | the same | **expected violation**, see below |
| `MdocAge` | 7 credentials (one with 24 entries), 3 sessions, 1 changed field of 20 or one of 8 pairs that locate the digest, the namespace or what stands behind the signed bytes | soundness, completeness, unlinkability |
| `MdocAge_namespace` | 1 credential of 3 namespaces, 1 session, up to 4 changed fields in a fixed order | **expected violation**, see below |
| `GoFfi` | `MaxCalls` = 3; 2 threads with 1 key, or 1 thread with 2 keys and 8 shapes of input | results and error strings under interleaving, failure and panic; both surfaces accept and show the same |
| `HashTable` | 10 positions in the order of `FULL_MDOC`, 10 x 7 x 3 message lengths around block boundaries, any number of skipped blocks the code allows; `MaxChanges` = 2, on the tables of two messages (the constraint `FewForged`) | digests read are the messages', what the steps accept is hashed |
| `CircuitParts` | *Dates:* 2 walks of 401 years, from year 1 and to 9999. *Windows:* 4 regions of `FULL_MDOC` and `AGE`, 7 window lengths of the code, every selector. *Patterns:* texts to 4 letters of 3, windows of 6, any position. *Shapes:* 3 circuits, `MaxFaults` = 2 damaged numbers up to `MaxSize`. *digestIDs:* issued bytes 0, 24 to 26, 128, witness bytes 0, 23, 24, 128. *SHA-256:* every length from 0 to 176 bytes, 3 blocks, the source's. *Folded:* messages of 2 and 1 blocks, lengths 0, 55, 56, 119, 120, `MaxChanges` = 3. *Assembly:* all combinations of four widths, the source's sizes | `days`, `date`, `check_range` and the circuit's comparison agree with the walked calendar; windows stay in signed bytes and every such window can be read; a pattern matches whole values only, and does match them; approved bytes give the circuit, validated ones are read within bounds; the exposed digestID is the embedded one, canonical ones are extracted; the selected digest is RFC 6234's; an accepted fold holds real digests, an honest one is accepted; cursors, buffer and length fields are the native ones |

Why the bounds are enough for the questions asked. Two goroutines give a reader inside the native
call and a writer waiting, or two readers of one Holder, and the finalizer is a second writer; the theorems below remove this bound and most of the others. A walk of 401 years crosses a whole era, all
four kinds of century and the year-0 arithmetic of January and February of year 1; the last walk
ends on 9999-12-31, the sentinel. Two sessions suffice for replay and relay because each attack
moves one proof or one signature from one session to one other. The moments are the last second
of validity of one credential (and the first of all) and the second after. `MaxSessions`, `MaxCalls`, `Starts` and
`Span` are the bounds here; each is a constant named in a guard.

For the newer runs: a table of ten positions has every kind of neighbour (a region after the
signed one, one after an unused position, an unused position at the end); a forgery by the table
needs a block or state and the state behind it, two changes. Two slots suffice for the binding check
because each claim is compared with its own entry of the core, and a swap needs two; two preps and
two proofs give a chain of states, and two chains of one credential. In `FoldedHash` a step that
repeats another's index frees one digest, and using it takes three changes. In `MdocAge` one
changed field is what a slip of a wallet or one gadget's missing constraint lets through, and the
fields that must conspire to move the digest region or the published namespace are changed two at a time, on the two
credentials where a second place for a digest exists; bytes behind the signed ones are tried together with
an offset that can point at them, on a credential that expires on the day of a session (the constraint `SmallPairs`). Lengths, salts,
digestIDs and dates stand on both sides of each boundary of the source. The bounds are
`MaxChanges`, `MaxFaults`, `MaxSize`, `MaxPreps`, `MaxProofs`, `FoldedNonces`, `MaxCalls`,
`MaxText`, the sets `FoldedItems` and `Changes`, and the state constraints `SmallPairs`, `RegionFollows`,
`FewChanges` (of the folded hash), `FewForged` and `AloneOrFew`.

`RangeIsWideEnough` states the rule with its exception: `9999-12-31` names no upper bound and is
accepted whatever the lower one.

The runs check no type invariants; those of `NymKeys`, `NymAbi`, `NymProtocol`, `GoFfi`,
`MdocPresentation`, `HashTable` and `MdocAge` are parts of the inductive invariants that are proved.

Deadlock is not checked where the system may stop: goroutines may never call again, callers may
have used up `MaxCalls` or `MaxSessions`, a walk, a proof or an assembly ends.

### Fairness

Only `CallsReturn` and `CloseReleases` of `NymKeys` need it. A goroutine inside a call keeps taking steps (weak fairness of
`Continue`; the Go scheduler is preemptive and a native call terminates). A goroutine waiting in
`Lock` for the inner mutex gets it if it is free again and again (strong fairness of
`LockAnnounce`), which `sync.Mutex` provides: a waiter that has waited for a millisecond is
handed the lock. Nothing makes a caller call, close or drop its reference, and nothing makes the
garbage collector run.

### The disagreements, and comments to correct

Three runs check what a comment says and the code does not do.

`NymAbi_seed` checks what the header says, `holder->secret_seed is zeroed on every path`
(`include/zk_cred_vega_nymauth_go.h:87`), and TLC refutes it. The code views the seed only when its
length is at most `MAX_SMALL` (4096), so a longer buffer comes back with `InvalidArg` and untouched.
A comment in the function states the narrower promise, which `SaneSeedIsZeroed` checks and which
holds; the Go wrapper refuses such a seed itself and zeroes it.

`MdocPresentation_core` checks that the second allocation of the digestIDs and digests in the core
circuit "doesn't weaken anything" (`src/mdoc_core.rs:382-384`; at 362-363 "there's only one source of
truth, so no separate consistency check is needed here"). The bits exposed at 365-396 are not
those hashed at 323 and no constraint equates them, so `ExposedIsSigned` fails: with the signature of
one credential the core exposes the digest of an item nobody signed, and `verify_and_check_binding`
reports that item under the issuer's key. The public `new` assigns both from one field, but, as
`src/digest_id_extract.rs:253-256` puts it, that "binds an honest caller, not a prover that writes
witnesses directly". Exposing the bits that `alloc_sig_structure_bits` allocated would close it, as the
code already does for the body.

`MdocAge_namespace` checks that `bind_digest_region` "proves that `region_start .. region_end` really is
the requested namespace's digest region" (`src/offset_bind.rs:1205-1206`). `ns_offset` (1285-1293) and
the published window (1294-1301) are two one-hot selections, equal only in what `synthesize` assigns, so
`DateOfRequestedNamespace` fails: the holder of a credential with several namespaces publishes the
header of `iso` with its one entry and starts the region at an entry of `dtc`, whose birth date the
verifier did not ask for. Returning the offset of the published window from
`select_masked_text_anchor` and using it for `region_start` would close it.

One more divergence has no run of its own: "the signature and the bytes every later step reads cannot
diverge" (`src/mdoc_age.rs:696-697`). The hash reads the signed length only ("bits at or beyond
`real_len*8` are never read (don't-care in the caller's witness)", `src/sha256_var.rs:199-201`), its mask
of real bytes is dropped at `mdoc_age.rs:688`, and the landmarks are searched over the whole buffer.
`AcceptedIsEntitled` therefore presupposes `behind = NoTail` for all but the issuer. With that premise
taken out TLC shows a credential that has expired accepted as live, from the validity of another one
that stands behind its bytes.

The following comments say other than the code they stand at, without harm to a property above:

- the nonce is said to be "generated fresh by `prove` on every call (never reused across
  presentations of the same credential)" (`src/lib.rs:223`). `prove` takes it as an argument, and the FFI
  passes the one stored in the prior state, since the prepared part of the proof is bound to it.
  Presentations that continue one state share their blinded digests; ones prepared apart do not,
  which is what `LinkedOnlyByPrep` states;
- "`real_len` is always meaningful" (`src/ffi_api.rs:158`) and "`real_len` itself is exposed regardless
  of `disclosed`" (`src/lib.rs:771-772`). It is masked to 0 for an undisclosed claim
  (`src/lib.rs:331` and 401-405), so that the length of a hidden value does not show. The
  exposed length is also an allocation of its own, apart from the one the hash uses (393-400);
  `verify_and_check_binding` compares it with the length of the bytes supplied, so this is harmless;
- the extraction of a digestID is documented for "a canonical CBOR major-type-0 unsigned integer"
  (`src/digest_id_extract.rs:78`); the constraints accept `18 00` as 0 too. The value is still the
  embedded one (`ExposedIsEmbedded`);
- `region_end` is documented as the offset of `deviceKeyInfo` (`src/offset_bind.rs:1127-1129`); it is the end
  of the requested namespace. Soundness needs that when there are several: with the documented
  end, the mutant `region_end_Table`, `AcceptedIsEntitled` fails;
- the docType and namespace windows are said to be "published verbatim" (`src/offset_bind.rs:777-778`),
  with trailing bytes that "are whatever the MSO has there" (1134-1135), "followed by whatever the MSO has
  next" (`src/mdoc_age.rs:161-163`). They are masked past the text, and `NothingLinkable` needs them to be: its
  mutant publishes them as they stand;
- "the extraction touches at most index 115" (`src/mdoc_age.rs:677`). It reads past that for long
  salts and wide digestIDs; the padded item has 176 bytes, so nothing is out of range;
- a message rejected by `with_messages` "leaves nothing behind" (`src/nymauth_vega/engine/table.rs:235-236`), and the
  blocks are "wiped on every way out" (279). That is so of the blocks and of the copies in
  `Zeroizing`, but `pad(signed)` at 275 is a plain `Vec` with the whole signed message, dropped without
  being wiped.

## The theorems

All proofs are checked by TLAPS, for every value of the constants. Assumptions on constants are
named in the module that declares them, and TLC evaluates each on the constants of a run: directly
where the module states `ASSUME`, through `MCAssumption` of the MC module where the assumption is a
definition (it is in modules that are also instantiated), which the theorems then take as a hypothesis.

`NymKeysProofs` (any set of goroutines, any Holders) proves `TypeOK`, `NoUseAfterFree`,
`NoDoubleFree`, `SeedsErased`, `NothingLeftBehind`, and that `NymKeys` implements `KeyLifetime`.
Its assumption is `ProcAssumption` (the finalizer is not a caller's goroutine, `NoProc` is
nobody). None of the properties is inductive alone. The invariant `IInv` adds

- `LockInv`: the announced writer is unique, it works only when no reader holds the lock, and a
  reader at work holds it. This is the mutual exclusion the rest stands on;
- `HandleInv`: `k.p` points at live keys *except* between `free_keys` and `k.p = nil`, where some
  writer is at `wnil`. With `LockInv` no reader is at work then, which is why the two statements
  of `Close` need not be atomic;
- `CallInv`: the handle passed to a running native call is still the one in `k.p`;
- `SeedInv`: past its zeroing loop a `Prove` has a zero seed, whatever other `Prove`s do to it;
- `MemInv`: which C buffers a call owns at each step.

`NoUseAfterFree` follows from `CallInv`, `HandleInv` and `LockInv` together; the refinement
needs all of `IInv`.

`NymAbiProofs` proves `SaneSeedIsZeroed` and `OutputsAreThisCalls` for any bound on the number of
calls. Neither is inductive: a proof may only be written over a cleared output, and the pseudonym
of an earlier call must not pass for this call's. `IInv` adds that the pointer checks were passed
where the slices are read (`SeedInv`), and that while a call runs its proof output is cleared and
the pseudonym output is older than the call (`OutputInv`).

`NymProtocolProofs` (any wallets, credentials, verifiers, nonces, ranges, moments and number of
sessions) proves all six properties of the protocol and its `TypeOK`. Besides `ProtocolAssumption`
(honest and rogue verifiers are distinct; ranges and moments are texts of dates and times, which
may or may not parse) it uses `IssuanceAssumption`: an issuer signs messages of its own, which list
items it hands out and no others, a birth date it hands out is a date, and a message a wallet shows
as the trusted issuer's was issued. The invariant says where everything came from:

- `SessionsOk`: a session's challenge is derived from its verifier and nonce, and an honest
  verifier uses a nonce once, so a challenge tells its session (`ChallengeTells`, `StatementTells`);
- `ConsentsOk`: a device signature was made by a holder's device for a session;
- `ProofsOk`: a proof of `prove` is that of a wallet that had all `prove` asks for, with its own
  device's signature made;
- `AcceptedOk`: an accepted pseudonym came with such a proof for this very session, or with a forged
  one that has one credential as a whole behind it, a known seed and a usable signature.

The last case is the work: `ForgedShows` takes any table that the adversary fills and goes from the step
rules to the digests the core read, from the issuer's signature to the message under it, from there to the items,
the seed and the pseudonym, so that mixtures of two credentials drop out. That a proof counts for no
other statement (`PublicTellsStatement`) rests on dates and times being told apart by their digits.
Three theorems need a fact about the world that the code cannot provide, and name it:

- `SeedsAreOwn` (each wallet draws its own seed) for `HonestNymsAreProvedFor`;
- `SeedsComeWithDevices` (an issuer that commits to a holder's seed names that holder's device, and the
  adversary cannot sign with it) for `ConsentIsForTheSession`;
- `DevicesComeWithSeeds` (a signed message that names a holder's device has a holder's
  commitment) for `NymsAreBoundByCredentials`.

`MdocPresentationProofs` (any credentials, slots, bounds on preps and proofs) proves
`DisclosedIsSigned`, `LinkedOnlyByPrep` and `HonestProofsAreAccepted`, from
`ItemAssumption`: credentials have items, and an item has a digestID and a length that is not 0. The
invariant says of a prep state that its prepared values carry its nonce, that its circuits can be
built again and that no other state has its nonce (`prove` hands back the state it was given); of a
proof of `prove`, that it continues a state the wallet holds; of any valid proof, whoever assigned its
variables, that the key and body of its core are a credential's, that the core exposes that credential's
digestID and digest in every slot that `agrees` (`CoreIsSigned`), and that its step values are a step
circuit's. `DisclosedIsSigned` therefore holds of `Fold` with the two allocations of the core assigned
freely; what it says of a slot where they differ is only that the plaintext carries its reported digestID and
length. More is not true of the constraints, as `MdocPresentation_core` shows. For a proof of `prove`
every slot agrees.

`GoFfiProofs` (any threads, keys, inputs and number of calls; `CapsAssumption`: the caps are positive
and inputs are arrays of `CDisclosedInput`) proves `ErrorsAreOwnedOnce`, `ResultIsThisCalls` and
`SurfacesAgree`. The invariant has two halves. `Pointers`: a live string is named by the error variable
of one thread, the variable is null during a call (so `set_error_out` never overwrites a live
string), and what an allocation returns is new. `Results`: a handle is live as long as a call uses it, the outcome
a call returns with is that of its own arguments, and the result is untouched until then.

`HashTableProofs` (any layout that `LayoutAssumption` allows: disjoint regions within the table, the
signed one first, which TLC evaluates for `FULL_MDOC` too; messages of any length, any number of
changes) proves `AcceptedIsHashed` and `DigestsAreRead`. The invariant follows `with_messages`: the first *n* padded messages lie in
their regions and the others are still to be copied (`CopyOk`); a built table that nobody changed has all five and the
chained states of its blocks (`BuiltOk`). `AcceptedIsHashed` is the chain argument: take the first
position of a region whose state is not the hash of the blocks up to it. It is not the
first of its region, where the step circuit takes the initial state (or, for the signed message,
the start), and elsewhere the step circuit of that very position takes the state before it, which is a hash. It
needs the verifier's check that instance *i* reports position *i*.

`CircuitProofs` proves properties of `CircuitParts` from `PartsAssumption`, part by part. A step of
the sum is a step of one part, so each part has an invariant of its own under `part = ...`.
*digestIDs* (the bytes are bytes): `ExposedIsEmbedded`, by the four widths a `u32` has in CBOR;
the invariant holds `CanonicalIsExtracted` too. *Windows* (regions lie within the table and
the table's bytes fit into `OFFSET_BITS`): `WindowsReadSignedBytes`; the four stages of the shifter drop exactly
`shift` bytes, and the chunk that holds byte *t* of the window is the one the division says. The lemma
`WindowsAreRead` adds `HonestWindowsRead`. *Request patterns* (the sizes are numbers in the source's order):
`MatchIsTheWholeValue`; a pattern that matches ends where the credential's value ends, since the head
before it says how long the value is. The lemma `WindowsAreMatched` adds `HonestWindowMatches`.

*SHA-256* (block counts and lengths are numbers, the budget fits the blocks): `DigestIsRfc6234` for
messages of any length and anything behind them. `PaddingEnds` and `BuffersAgree` compare the injected
bytes with the padding of RFC 6234 up to the terminal block, marker and length included;
`SameBytesSameState` says that the chain of states depends on the blocks up to its end only, so what lies
behind the terminal block never reaches the digest. *Folded SHA-256* (`LayoutAssumption`: any number of
messages, each with at least one block and room for its budget and the nine bytes of padding): the places of the
messages among the shared blocks are disjoint and cover every index (`PlaceIsUnique`,
`EveryIndexIsPlaced`), so with the check of `verify_age` that step *i* claims index *i* every digest is
computed, and the first one that is not the chain's cannot exist (`CheckedIsReal`). `FoldInv` carries
`SelectedDigestIsReal` through whatever a holder changes, and that a presentation nobody changed verifies
(`BuiltVerifies`). *Shapes* (`CircuitAssumption`: a circuit has sizes, and rows over its own variables):
`ShapesAreReadAsWritten`. A padded column is read back as the variable it was written for
(`ColumnIsRead`), the flattened rows are cut again where they were joined (`StoredEntries`,
`RowIsRead`), so the replay of an undamaged artifact is the circuit; and non-decreasing pointers that
end at the number of entries keep every row within them (`LastIsGreatest`), however the artifact was
damaged. `ShapeInv` says that only the artifact as written loads. With `BuiltVerifies`,
`WindowsAreRead`, `WindowsAreMatched` and the digestIDs' invariant, `HonestWitnessesAreAccepted` holds as a whole.

*Dates* (`WalkAssumption`: a walk ends by the year 9999): `days` of the next page is `days` plus one
on every date from 0001-01-01 to 9999-12-31, and so `DaysCountsPages` holds from any first year over
any span. The argument removes the era (`DaysParts`: era and year of era together count
`365y + y/4 - y/100 + y/400`), then treats the three ways a page turns: within a month, at the end
of a month (`MonthStep`, the `153m + 2` formula against the table of month lengths), and at the end
of February, where the year that begins in March changes and the leap rule of `days_in_month` must
agree with the divisions (`YearStep`).

`RangeIsWideEnough` and `OnlyRealDatesParse` follow on the whole walk, and `DigitsKeepOrder`: on the
calendar `YYYYMMDD` numbers are ordered as the dates are, lie below 10^8 < 2^27, and so the
difference the circuit ranges over 27 bits is one exactly when the order holds.

`MdocAgeProofs` (any credentials, items, devices and sessions, a holder that changes any fields of its
witness, any byte budgets) proves `AcceptedIsEntitled` and `NothingLinkable` from `IssuedAssumption`:

- digestIDs are CBOR unsigned integers whose first byte tells their length, dates have eight digits, a
  namespace has fewer than 256 items; these are the forms the circuit was written for;
- the name of a docType or namespace is not one of the literals of the encoding, no element is called
  `elementValue`, and two devices have different keys;
- the coordinates of a device's public key spell neither a name nor a literal the circuit looks for.
  The shortest of these anchors is over ten bytes long with the text behind it, and who knows a
  private key has no such choice over the public one. A coordinate *may* be the digest of an item.

Whether an offset means what the issuer meant is decided by the first cells of the anchors. Each
literal the circuit looks for stands once in the signed bytes (`OnlyAt`, carried through the parts
of the Sig_structure by `AloneLeft` and `AloneRight`), so a witnessed offset at which the anchor is
found is the issuer's own (`SigIs`, `Anchored`): `DocTypeBound`, `ValidityBound`, `DeviceBound`. This
needs the zeros behind the signed bytes (`PaddedSigIs`), the premise `behind = NoTail`; what a prover
puts there instead may hold every anchor again. Wherever the walk starts, it ends in front of the device
key, so the digest lies out of reach of a device key that spells one, and the item hashed is
one the credential lists (`ItemListed`; a cell of a digest names its item, `SameDigest`). The
literals around its date make it a `birth_date` (`BirthDateBound`), and digits are compared as the
dates are. That much holds of every assignment.

Which namespace it is takes the second premise, `namespace_offset = namespace_key`. A
namespace's name may stand in several places; the anchor wants the offset behind `valueDigests` and
the map header behind the name, and `NamespaceAt` and `NamespaceBound` find one of the issuer's
namespaces there. The walk goes over `num_entries` entries, whose heads tell their widths, and so
ends where that namespace ends; the digest lies in between (`DigestBound`), and the item is one of
that namespace's (`ItemCarried`). On the verifier's side
`SpellsName` and `AcceptedNames` say that a window that spells an accepted name holds that name.
The lemma `Entitled` joins these for a witness with any offsets, not only the ones `Change` tries.
Without the second premise `MdocAge_namespace` refutes the conclusion; of the first, see above.

`AcceptedIsEntitled` speaks of the witness at hand and of a verdict given earlier, so it is not
inductive. `AgeInv` adds that a stored proof is one of the witness at hand, that this witness names an
issued credential and satisfied the circuit, that what is among `signed` was signed with a device's
key, that a witness nobody changed is a wallet's, and that a session accepted nothing but that
proof. `NothingLinkable` follows from the same invariant: the windows shown are masked to the text,
and two texts with the same name are the same cells (`PublicIs`, `AlikeShown`).

The converse, `HonestIsAccepted`, is the theorem `HonestAccepted`: an unchanged wallet that answers what
was asked satisfies the circuit and passes the verifier's check. It needs room, and `WithinBudget` says
which: the padded buffers hold the signed bytes and the items, docType and namespace names fit their
windows of 40 bytes with what stands around them, a namespace has no more entries than the walk has
steps, salts have 16 to 32 bytes, offsets stay below the 2^16 over which they are compared, and the
namespaces of a credential have different names, as keys of a map do. `MCMdocAge` states it as
`MCAssumption`, so TLC evaluates it on the run's constants. The argument is that what the wallet finds
by searching is there and is the real thing: the first place at which an anchor is found from a lower
bound on is the issuer's own or one as good (`Located`, `NamespaceFound`, `DigestFound`), the walk
stops at the head of every entry and then behind the last (`WalkStops`), the date is one of the candidate
offsets for its salt and digestID width (`BirthDateShown`), and the verifier reads back from the shown
windows the names it accepts.

The functions that walk over blocks, messages and rows are recursive. What they compute is proved from
their equations: `ChainExists`, `SumsExist` and `FlattenExists` show that a function with the equation
exists, and an induction is a set of counterexamples and its least element (`Least`).

Only model-checked, and why:

- liveness of `NymKeys`: fairness is out of the prover's reach;
- `AssembledIsNative`: `MsoSplice` has the source's sizes and no constants, so the run covers every
  combination of widths there is.

## What is abstracted, and what is not modelled

- Hashes are injective and signatures unforgeable; a vega-prover proof is valid exactly when a
  witness satisfies the rules (knowledge soundness and completeness are assumed, zero knowledge
  is not modelled).
- The table has seven positions instead of 32: each message one position, the signed message two,
  one position unused, as 27 and 31 are in `FULL_MDOC`.
- Times are compared as pairs of date and clock digits rather than as 47-bit differences: both are
  below 10^14 < 2^47, so the range check decides the same order; TLC's integers are 32 bits wide.
- In `NymRules` CBOR, windows and byte offsets are abstract: a credential is a record, and `parses`
  says whether its encoding is well formed. `TableWindow`, `RequestPattern` and `HashTable` check
  what the rules take from the layers below.
- The gadgets' bits are stated on bytes where constraints leave one assignment of the bits
  (packing, unpacking, Boolean selectors). Variables are tied only where a constraint ties them:
  where an adversary writes an assignment, values that the synthesis takes from one field but that no
  constraint equates are separate choices (`MdocPresentation`, `MdocAge`, `DigestId`,
  `TableWindow`, `HashTable`, `FoldedHash`).
- The rerandomisation of prepared commitments is vega-prover's; `LinkedOnlyByPrep` is about the nonces
  and blinded digests only. What is left in freed memory is modelled for the seed of the C and Go entry
  points and nowhere else.
- `CircuitShapes`: one shape and one matrix stand for all; coefficients and the overflow of `usize`
  sums are left out.
- `FoldedHash`, `MdocAge`: vega-prover checks the number of step instances and that all share one
  witness; that is taken from how the code calls it.

Not modelled, and why:

- P-256, ECDSA and the non-native arithmetic (`ecdsa.rs`, `p256_ecc.rs`, `gadget_utils.rs`,
  `nonnative/`, `engine/gadgets/{lc,values,sha256,p256}.rs`): equations over 256-bit primes. At a
  size TLC can enumerate, the carries and limb bounds that could be wrong are not there.
- The compression function of SHA-256: a fixed computation with published test vectors.
- `setup` of the generic path and the UniFFI key loaders: a call of vega-prover and conversions.
- The challenge functions and `load_keys` of the C ABI of nym_auth: they keep no state; what the
  challenge binds is in `NymRules`.
- Fixtures, examples, benchmarks and the binding generator.

## Plan

1. *Done:* the wrapper's keys, the C prove entry and the calendar, each with its proofs; the
   statement and the protocol.
2. *Done:* stored shapes, the hash table and its windows, the request patterns, the generic mdoc
   path and its two surfaces, digestIDs, SHA-256 plain and folded, the assembly of the signed
   structure, the age proof.
3. *Done:* the proofs of the protocol, the generic presentation, the C verifier, the hash table,
   digestIDs, windows, request patterns, stored shapes, SHA-256 plain and folded, the calendar, and the
   soundness, unlinkability and completeness of the age proof.
4. Next: the field gadgets of the engine, from which the circuits are built.
