---------------------------- MODULE CircuitParts ----------------------------
(***************************************************************************)
(* The parts of the circuits that share no state: the dates of a nym_auth  *)
(* statement, the windows its core reads in the hash table and the         *)
(* patterns it compares them with, the stored shapes of its circuits, and  *)
(* below the mdoc proofs reading a digestID, hashing a message, folding    *)
(* its compressions and assembling the signed bytes.  A behaviour is one   *)
(* of theirs; the others stay where they begin.                            *)
(***************************************************************************)
EXTENDS Integers, Sequences

CONSTANTS
  Starts, Span,                                                       \* CalendarWalk
  Regions, Lens, POSITIONS, OFFSET_BITS,                              \* TableWindow
  Key, LongHead, ShortLimit, WindowLen, Letters, MaxText, Before,     \* RequestPattern
  Circuits, Width, Budget, MaxSize, MaxFaults,                        \* CircuitShapes
  IssuedBytes, WitnessBytes, DigestIds,                               \* DigestId
  MAX_VAR_MESSAGE_BYTES, NUM_BLOCKS,                                  \* Sha256Walk
  MessageBlocks, MaxBytes, Lengths, StrayDigest                       \* FoldedHash

VARIABLES
  part,                                       \* the part of this behaviour
  first_year, today, passed,                  \* CalendarWalk
  sel, seen,                                  \* TableWindow
  cred, asked, shown,                         \* RequestPattern
  circuit, bytes, faults, loaded,             \* CircuitShapes
  window, issued, exposed,                    \* DigestId
  len, tail,                                  \* Sha256Walk
  phase, proof, altered,                      \* FoldedHash
  real_widths, starts, ends, assembled        \* MsoSplice

dateVars == <<first_year, today, passed>>
windowVars == <<sel, seen>>
requestVars == <<cred, asked, shown>>
shapeVars == <<circuit, bytes, faults, loaded>>
digestVars == <<window, issued, exposed>>
walkVars == <<len, tail>>
foldVars == <<phase, proof, altered>>
spliceVars == <<real_widths, starts, ends, assembled>>

Dates == INSTANCE CalendarWalk
Windows == INSTANCE TableWindow WITH window <- seen
Request == INSTANCE RequestPattern
Shapes == INSTANCE CircuitShapes
DigestId == INSTANCE DigestId
Walk == INSTANCE Sha256Walk
Fold == INSTANCE FoldedHash
Splice == INSTANCE MsoSplice

ASSUME PartsAssumption ==
  /\ Dates!WalkAssumption
  /\ Windows!TableAssumption /\ Request!BytesAssumption /\ Shapes!WidthAssumption
  /\ DigestId!BytesAssumption /\ Walk!BudgetAssumption /\ Fold!LayoutAssumption

-----------------------------------------------------------------------------

DateIdle == first_year = 0 /\ today = "none" /\ passed = 0
WindowIdle == sel = "none" /\ seen = <<>>
RequestIdle == cred = "none" /\ asked = "none" /\ shown = Request!Nowhere
ShapeIdle == circuit = "none" /\ bytes = "none" /\ faults = 0 /\ loaded = "none"
DigestIdle == window = DigestId!Zeros /\ issued = {} /\ exposed = {}
WalkIdle == len = 0 /\ tail = 0
FoldIdle == phase = "building" /\ proof = "none" /\ altered = FALSE

Init ==
  /\ part \in {"dates", "window", "request", "shape", "digest_id", "walk", "fold", "splice"}
  /\ IF part = "dates" THEN Dates!Init ELSE DateIdle
  /\ IF part = "window" THEN Windows!Init ELSE WindowIdle
  /\ IF part = "request" THEN Request!Init ELSE RequestIdle
  /\ IF part = "shape" THEN Shapes!Init ELSE ShapeIdle
  /\ IF part = "digest_id" THEN DigestId!Init ELSE DigestIdle
  /\ IF part = "walk" THEN Walk!Init ELSE WalkIdle
  /\ IF part = "fold" THEN Fold!Init ELSE FoldIdle
  /\ Splice!Init

\* The variables of the other parts stay.
OthersStay ==
  /\ part # "dates" => UNCHANGED dateVars
  /\ part # "window" => UNCHANGED windowVars
  /\ part # "request" => UNCHANGED requestVars
  /\ part # "shape" => UNCHANGED shapeVars
  /\ part # "digest_id" => UNCHANGED digestVars
  /\ part # "walk" => UNCHANGED walkVars
  /\ part # "fold" => UNCHANGED foldVars
  /\ part # "splice" => UNCHANGED spliceVars

Next ==
  /\ \/ part = "dates" /\ Dates!NextDay
     \/ part = "window" /\ Windows!Next
     \/ part = "request" /\ Request!Next
     \/ part = "shape" /\ Shapes!Next
     \/ part = "digest_id" /\ DigestId!Next
     \/ part = "walk" /\ Walk!Next
     \/ part = "fold" /\ Fold!Next
     \/ part = "splice" /\ Splice!Next
  /\ OthersStay /\ UNCHANGED part

vars ==
  <<part, dateVars, windowVars, requestVars, shapeVars, digestVars, walkVars, foldVars, spliceVars>>

Spec == Init /\ [][Next]_vars

-----------------------------------------------------------------------------

\* The closed formula of `days` (statement.rs) counts the days of the calendar.
DaysCountsPages == part = "dates" => Dates!DaysCountsPages

\* Every date of the calendar parses, and the day after the last of a month does not (statement.rs).
OnlyRealDatesParse == part = "dates" => Dates!OnlyRealDatesParse

\* check_range (statement.rs) accepts a range exactly when it spans at least 365 days or has no upper bound.
RangeIsWideEnough == part = "dates" => Dates!RangeIsWideEnough

\* The YYYYMMDD numbers the circuit compares in 27 bits are ordered as the dates are.
DigitsKeepOrder == part = "dates" => Dates!DigitsKeepOrder

\* Message::read of window.rs shows bytes of the message only.
WindowsReadSignedBytes == part = "window" => Windows!WindowsReadSignedBytes

\* check of request.rs matches whole values.
MatchIsTheWholeValue == part = "request" => Request!MatchIsTheWholeValue

\* Keys::from_shapes gives the circuit of the code or nothing, and what StoredShape::validate
\* accepts is read within bounds, however damaged (app.rs, statement.rs).
ShapesAreReadAsWritten ==
  part = "shape" => Shapes!KeysAreTheCircuits /\ Shapes!ValidatedIsReadable

\* digest_id_extract.rs exposes the digestID of the item's own bytes.
ExposedIsEmbedded == part = "digest_id" => DigestId!ExposedIsEmbedded

\* sha256_var.rs selects the digest of RFC 6234.
DigestIsRfc6234 == part = "walk" => Walk!DigestIsRfc6234

\* verify_age of mdoc_age_mc.rs accepts real digests only.
SelectedDigestIsReal == part = "fold" => Fold!SelectedDigestIsReal

\* What an honest prover builds is accepted: every window of signed bytes (window.rs), the
\* requested value where window_at puts the window (request.rs), every canonical digestID
\* (digest_id_extract.rs) and every folded hash of two messages (mdoc_age_mc.rs).
HonestWitnessesAreAccepted ==
  /\ part = "window" => Windows!HonestWindowsRead
  /\ part = "request" => Request!HonestWindowMatches
  /\ part = "digest_id" => DigestId!CanonicalIsExtracted
  /\ part = "fold" => Fold!HonestFoldIsAccepted

\* mso_splice.rs assembles the native Sig_structure, mso.rs its length fields.
AssembledIsNative == part = "splice" => Splice!AssembledIsNative
=============================================================================
