--------------------------- MODULE RequestPattern ---------------------------
(***************************************************************************)
(* engine/request.rs: the verifier names a docType or an element as a      *)
(* pattern at the right end of a window of fixed length, and a thermometer *)
(* of bits says how many of the window's bytes are compared.  The prover   *)
(* picks where in the signed message the window sits (TableWindow).        *)
(*                                                                         *)
(* A message is what the issuer wrote around one text: some bytes, the     *)
(* key, the CBOR text, some bytes.  The key is one byte here, written      *)
(* once, as the issuer is trusted to; letters may look like heads.         *)
(***************************************************************************)
EXTENDS Integers, Sequences

CONSTANTS
  Key,            \* the byte of the key
  LongHead,       \* 0x78, the first of the two bytes of a longer text's head
  ShortLimit,     \* lengths below it have a head of one byte (24)
  WindowLen,      \* bytes of the window, all of them with a thermometer bit
  Letters,        \* bytes of texts
  MaxText,        \* bound on the length of a text
  Before          \* how many bytes precede the key

BytesAssumption ==
  /\ Key \notin Letters /\ Key # LongHead /\ Key \notin 0..MaxText
  /\ MaxText \in Nat /\ ShortLimit \in 1..MaxText /\ WindowLen \in Nat \ {0}
  /\ LongHead \in Nat /\ LongHead >= ShortLimit      \* the two heads are told apart
  /\ Before \subseteq Nat

Texts == UNION {[1..n -> Letters] : n \in 1..MaxText}

Error == [ok |-> FALSE]

\* The head of a CBOR text.
text_head(n) == IF n < ShortLimit THEN <<n>> ELSE <<LongHead, n>>

\* Pattern::new.
new(bytes) == IF Len(bytes) > WindowLen THEN Error ELSE [ok |-> TRUE, bytes |-> bytes]

\* Mutant: the pattern is the value alone.
pattern_NoKey(text) == new(text_head(Len(text)) \o text)

\* Pattern::doc_type and Pattern::identifier: key, head and text.
pattern(text) == new(<<Key>> \o text_head(Len(text)) \o text)

\* Mutant: the pattern is put at the left end.
aligned_Left(p) ==
  [i \in 1..WindowLen |-> IF i <= Len(p.bytes) THEN p.bytes[i] ELSE 0]

\* Pattern::aligned and the thermometer's count, the public values of a pattern.
aligned(p) ==
  [i \in 1..WindowLen |->
     LET at == WindowLen - Len(p.bytes) IN IF i > at THEN p.bytes[i - at] ELSE 0]

count(p) == Len(p.bytes)

\* Window::position of thermometer bit k, from 0.
position(k) == WindowLen - 1 - k

\* check: a byte counts when its bit is set, and what counts equals the pattern's window.
check(window, p) ==
  \A i \in 1..WindowLen :
    LET bit == \E k \in 0..count(p) - 1 : position(k) = i - 1
    IN (IF bit THEN window[i] ELSE 0) = aligned(p)[i]

-----------------------------------------------------------------------------
(* The message and the prover's window.                                    *)

\* What the issuer signed around a text: bytes that are no key before it and after it.
Message(c) ==
  [i \in 1..c.before |-> LongHead] \o <<Key>> \o text_head(Len(c.text)) \o c.text
    \o [i \in 1..WindowLen |-> 1]

find(bytes) == CHOOSE i \in DOMAIN bytes : bytes[i] = Key /\ \A j \in 1..i - 1 : bytes[j] # Key

\* window_at: the window that ends where the text after the key ends, counted from 0.
window_at(bytes) ==
  LET at == find(bytes) + 1
      head == bytes[at]
      end == IF head < ShortLimit THEN at + head ELSE at + 1 + bytes[at + 1]
  IN IF end < WindowLen THEN Error ELSE [ok |-> TRUE, at |-> end - WindowLen]

Window(bytes, at) == SubSeq(bytes, at + 1, at + WindowLen)

-----------------------------------------------------------------------------

VARIABLES cred, asked, shown     \* the credential, the text asked for, the accepted offset

vars == <<cred, asked, shown>>

Nowhere == -1

Init ==
  /\ cred \in [before : Before, text : Texts]
  /\ asked \in Texts
  /\ shown = Nowhere

\* The prover shows the window at any offset.
Show(at) ==
  /\ shown = Nowhere
  /\ pattern(asked).ok
  /\ check(Window(Message(cred), at), pattern(asked))
  /\ shown' = at
  /\ UNCHANGED <<cred, asked>>

Next == \E at \in 0..Len(Message(cred)) - WindowLen : Show(at)

Spec == Init /\ [][Next]_vars

-----------------------------------------------------------------------------

\* A pattern matches a whole value, never a part of a longer one: wherever the prover puts
\* the window, it is accepted only on a credential with exactly the text asked for.
MatchIsTheWholeValue == shown # Nowhere => cred.text = asked

\* And on such a credential the window build chooses is accepted, whatever comes before it.
HonestWindowMatches ==
  LET w == window_at(Message(cred))
  IN cred.text = asked /\ pattern(asked).ok /\ w.ok
       => check(Window(Message(cred), w.at), pattern(asked))
=============================================================================
