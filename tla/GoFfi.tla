------------------------------- MODULE GoFfi -------------------------------
(***************************************************************************)
(* The C ABI of the generic mdoc verifier (src/go_ffi.rs) as the threads   *)
(* of a Go service use it: a verifier key is deserialised into a handle,   *)
(* threads share the handle, every call fills the caller's out-variables,  *)
(* and error strings and handles are freed by the caller.  A panic may     *)
(* stop the body of a call anywhere.  verify_and_check_binding is the one  *)
(* of MdocPresentation, reduced to which item each slot discloses; the     *)
(* UniFFI entry point (ffi_api::verify) stands beside it for comparison.   *)
(***************************************************************************)
EXTENDS Naturals, Integers, Sequences, FiniteSets

CONSTANTS
  Threads,
  MAX_CLAIMS_V1, MAX_CLAIM_BYTES_V1,
  Artifacts,        \* published verifier keys
  Proofs,           \* [key, slots]: the key a proof verifies with, Some item or None per slot
  Inputs,           \* arrays of CDisclosedInput
  MaxCalls          \* bound on the calls

\* The struct of one slot: a flag, a length and a fixed array of bytes.
CDisclosedInput == [present : Nat, len : Nat, bytes : [1..MAX_CLAIM_BYTES_V1 -> Nat]]

CapsAssumption ==
  /\ MAX_CLAIMS_V1 \in Nat \ {0} /\ MAX_CLAIM_BYTES_V1 \in Nat \ {0} /\ MaxCalls \in Nat
  /\ Inputs \subseteq Seq(CDisclosedInput)

Slots  == 1..MAX_CLAIMS_V1
Null   == 0                       \* a null pointer; what call n allocates is n
None   == [some |-> FALSE, bytes |-> <<>>]
Some(b) == [some |-> TRUE, bytes |-> b]

Error == [ok |-> FALSE]
Ok(x) == [ok |-> TRUE, value |-> x]

\* A pointer and a length: those of x, a length of zero whatever the pointer, a null pointer
\* with a length, or bytes that bincode refuses.
Buffers(X) == {[is |-> "data", of |-> x] : x \in X}
              \cup {[is |-> k, of |-> Null] : k \in {"empty", "null", "garbage"}}

\* bytes_or_empty, the check for emptiness and bincode.
deserialize(b) == IF b.is = "data" THEN Ok(b.of) ELSE Error

-----------------------------------------------------------------------------
(* The body of zk_cred_vega_verify.                                        *)

\* Mutant: the whole array is taken, whatever the length says.
disclosed_bytes_Whole(d) ==
  IF d.present = 0 THEN Ok(None)
  ELSE IF d.len > MAX_CLAIM_BYTES_V1 THEN Error
  ELSE Ok(Some(d.bytes))

disclosed_bytes(d) ==
  IF d.present = 0 THEN Ok(None)
  ELSE IF d.len > MAX_CLAIM_BYTES_V1 THEN Error
  ELSE Ok(Some(SubSeq(d.bytes, 1, d.len)))

\* verify, then verify_and_check_binding: a claim per slot, or Error.
verified(key, proof, disclosed) ==
  IF proof.key # key \/ disclosed # proof.slots THEN Error
  ELSE Ok([i \in Slots |->
             [disclosed |-> IF disclosed[i].some THEN 1 ELSE 0,
              real_len |-> Len(disclosed[i].bytes), plaintext |-> disclosed[i].bytes]])

\* The fixed-size twin of a claim: the plaintext at the front of a zeroed array.
to_c_claim(c) ==
  [c EXCEPT !.plaintext = [j \in 1..MAX_CLAIM_BYTES_V1 |->
                             IF j <= Len(c.plaintext) THEN c.plaintext[j] ELSE 0]]

to_c_result(claims) == [i \in Slots |-> to_c_claim(claims[i])]

verify(key, a) ==
  LET proof == deserialize(a.proof)
      disclosed == [i \in DOMAIN a.disclosed |-> disclosed_bytes(a.disclosed[i])]
  IN IF \/ a.handle = Null \/ ~proof.ok \/ a.disclosed = <<>>
        \/ Len(a.disclosed) # MAX_CLAIMS_V1
     THEN Error
     ELSE IF \E i \in Slots : ~disclosed[i].ok THEN Error
     ELSE LET v == verified(key, proof.value, [i \in Slots |-> disclosed[i].value])
          IN IF v.ok THEN Ok(to_c_result(v.value)) ELSE Error

\* ffi_api::verify with the same proof, key and bytes: an empty entry is None there.
uniffi_verify(key, proof, entries) ==
  LET p == deserialize(proof)
  IN IF ~p.ok \/ Len(entries) # MAX_CLAIMS_V1 THEN Error
     ELSE verified(key, p.value,
                   [i \in Slots |-> IF entries[i] = <<>> THEN None ELSE Some(entries[i])])

-----------------------------------------------------------------------------

VARIABLES
  keys,       \* live handles: a function from handles to artifacts
  strings,    \* live error strings
  pc, args,   \* each thread's call
  out,        \* what its body returned
  status, result_out, error_out, handle_out,   \* each thread's out-variables
  before,     \* the thread's result_out when it made its call
  calls       \* calls so far

vars == <<keys, strings, pc, args, out, status, result_out, error_out, handle_out, before, calls>>

\* Before its first call a thread has made none.
NoCall == [op |-> "none", wants |-> FALSE]

NoResult == <<>>

Init ==
  /\ keys = [h \in {} |-> "none"] /\ strings = {} /\ calls = 0
  /\ pc = [t \in Threads |-> "idle"] /\ args = [t \in Threads |-> NoCall]
  /\ out = [t \in Threads |-> Error] /\ status = [t \in Threads |-> 0]
  /\ result_out = [t \in Threads |-> NoResult] /\ before = result_out
  /\ error_out = [t \in Threads |-> Null] /\ handle_out = [t \in Threads |-> Null]

\* Mutant: the variable is left as it was until there is an error to write.
clear_error_out_Keeps(t, wants) == error_out' = error_out

clear_error_out(t, wants) ==
  error_out' = IF wants THEN [error_out EXCEPT ![t] = Null] ELSE error_out

\* A thread makes a call.  It has freed the string of its last call if it passes the same
\* variable again, though the freed pointer may still be in it; `wants` is whether it
\* passes a variable at all.
Call(t, a) ==
  /\ pc[t] = "idle" /\ calls < MaxCalls
  /\ a.wants => error_out[t] \notin strings
  /\ clear_error_out(t, a.wants)
  /\ calls' = calls + 1
  /\ pc' = [pc EXCEPT ![t] = "body"]
  /\ args' = [args EXCEPT ![t] = a]
  /\ before' = [before EXCEPT ![t] = result_out[t]]
  /\ UNCHANGED <<keys, strings, out, status, result_out, handle_out>>

\* The closure under catch_unwind.
Body(t) ==
  /\ pc[t] = "body"
  /\ pc' = [pc EXCEPT ![t] = "return"]
  /\ out' = [out EXCEPT ![t] =
       IF args[t].op = "deserialize" THEN deserialize(args[t].bytes)
       ELSE verify(IF args[t].handle = Null THEN "none" ELSE keys[args[t].handle], args[t])]
  /\ UNCHANGED <<keys, strings, args, status, result_out, error_out, handle_out, before, calls>>

\* A panic anywhere in the closure.
Panic(t) ==
  /\ pc[t] = "body"
  /\ pc' = [pc EXCEPT ![t] = "return"]
  /\ out' = [out EXCEPT ![t] = [ok |-> FALSE, panic |-> TRUE]]
  /\ UNCHANGED <<keys, strings, args, status, result_out, error_out, handle_out, before, calls>>

\* A pointer no live string or handle has.
Fresh == CHOOSE n \in 1..2 * MaxCalls :
           n \notin strings \cup DOMAIN keys /\ \A t \in Threads : error_out[t] # n

set_error_out(t) ==
  IF args[t].wants
  THEN /\ strings' = strings \cup {Fresh}
       /\ error_out' = [error_out EXCEPT ![t] = Fresh]
  ELSE UNCHANGED <<strings, error_out>>

\* zk_cred_vega_deserialize_verifier_key's match.
ReturnKey(t) ==
  /\ pc[t] = "return" /\ args[t].op = "deserialize"
  /\ pc' = [pc EXCEPT ![t] = "idle"]
  /\ IF out[t].ok
     THEN /\ keys' = [h \in DOMAIN keys \cup {Fresh} |->
                        IF h = Fresh THEN out[t].value ELSE keys[h]]
          /\ handle_out' = [handle_out EXCEPT ![t] = Fresh]
          /\ UNCHANGED <<strings, error_out>>
     ELSE /\ handle_out' = [handle_out EXCEPT ![t] = Null]
          /\ set_error_out(t)
          /\ UNCHANGED keys
  /\ out' = [out EXCEPT ![t] = Error]
  /\ UNCHANGED <<args, status, result_out, before, calls>>

\* Mutant: a failed call fills the result too, with what it has of one.
ReturnVerdict_Writes(t) ==
  /\ pc[t] = "return" /\ args[t].op = "verify"
  /\ pc' = [pc EXCEPT ![t] = "idle"]
  /\ result_out' = IF args[t].result
                   THEN [result_out EXCEPT ![t] = IF out[t].ok THEN out[t].value ELSE NoResult]
                   ELSE result_out
  /\ IF out[t].ok
     THEN status' = [status EXCEPT ![t] = 0] /\ UNCHANGED <<strings, error_out>>
     ELSE status' = [status EXCEPT ![t] = IF "panic" \in DOMAIN out[t] THEN -2 ELSE -1]
          /\ set_error_out(t)
  /\ out' = [out EXCEPT ![t] = Error]
  /\ UNCHANGED <<keys, args, handle_out, before, calls>>

\* zk_cred_vega_verify's match.
ReturnVerdict(t) ==
  /\ pc[t] = "return" /\ args[t].op = "verify"
  /\ pc' = [pc EXCEPT ![t] = "idle"]
  /\ IF out[t].ok
     THEN /\ status' = [status EXCEPT ![t] = 0]
          /\ result_out' = IF args[t].result THEN [result_out EXCEPT ![t] = out[t].value]
                           ELSE result_out
          /\ UNCHANGED <<strings, error_out>>
     ELSE /\ status' = [status EXCEPT ![t] = IF "panic" \in DOMAIN out[t] THEN -2 ELSE -1]
          /\ set_error_out(t)
          /\ UNCHANGED result_out
  /\ out' = [out EXCEPT ![t] = Error]
  /\ UNCHANGED <<keys, args, handle_out, before, calls>>

InUse(h) == \E t \in Threads : pc[t] # "idle" /\ args[t].op = "verify" /\ args[t].handle = h

\* The caller frees a handle no call is using, once; nobody passes it afterwards.
free_verifier_key(h) ==
  /\ h \in DOMAIN keys /\ ~InUse(h)
  /\ keys' = [k \in DOMAIN keys \ {h} |-> keys[k]]
  /\ UNCHANGED <<strings, pc, args, out, status, result_out, error_out, handle_out, before, calls>>

\* The caller frees its error string; its variable still holds the pointer.
free_error_string(t) ==
  /\ pc[t] = "idle" /\ error_out[t] \in strings
  /\ strings' = strings \ {error_out[t]}
  /\ UNCHANGED <<keys, pc, args, out, status, result_out, error_out, handle_out, before, calls>>

DeserializeArgs ==
  [op : {"deserialize"}, wants : BOOLEAN, bytes : Buffers(Artifacts)]

VerifyArgs ==
  [op : {"verify"}, wants : BOOLEAN, result : BOOLEAN, handle : DOMAIN keys \cup {Null},
   proof : Buffers(Proofs), disclosed : Inputs]

Next ==
  \/ \E t \in Threads :
       \/ \E a \in DeserializeArgs \cup VerifyArgs : Call(t, a)
       \/ Body(t) \/ Panic(t) \/ ReturnKey(t) \/ ReturnVerdict(t) \/ free_error_string(t)
  \/ \E h \in DOMAIN keys : free_verifier_key(h)

Spec == Init /\ [][Next]_vars

-----------------------------------------------------------------------------

Returned(t, op) == pc[t] = "idle" /\ args[t].op = op

\* What a proof shows, as the caller reads it.
Shown(proof) ==
  [i \in Slots |->
     LET b == proof.slots[i].bytes
     IN [disclosed |-> IF proof.slots[i].some THEN 1 ELSE 0, real_len |-> Len(b),
         plaintext |-> b \o [j \in 1..MAX_CLAIM_BYTES_V1 - Len(b) |-> 0]]]

\* A thread that reuses its CVerifyResult never takes an earlier result for this call's:
\* after 0 it holds exactly what this call's proof shows, nothing of an earlier plaintext
\* left behind it, and after a failure or a panic it is as the thread passed it.
ResultIsThisCalls ==
  \A t \in Threads : Returned(t, "verify") =>
    IF status[t] = 0
    THEN args[t].result => result_out[t] = Shown(args[t].proof.of)
    ELSE result_out[t] = before[t]

Succeeded(t) == IF args[t].op = "verify" THEN status[t] = 0 ELSE handle_out[t] # Null

\* Strings are freed once and none is lost: each live string is in one caller's variable,
\* and a thread that passed a variable finds null in it after success (never the string it
\* freed before) and a string after a failure.
ErrorsAreOwnedOnce ==
  /\ \A s \in strings : Cardinality({t \in Threads : error_out[t] = s}) = 1
  /\ \A t \in Threads : pc[t] = "idle" /\ args[t].wants =>
       (Succeeded(t) <=> error_out[t] = Null)

\* The entries a UniFFI caller passes for the same disclosure.
Entries(disclosed) ==
  [i \in DOMAIN disclosed |->
     IF disclosed[i].present = 0 THEN <<>> ELSE SubSeq(disclosed[i].bytes, 1, disclosed[i].len)]

\* The C entry point and the UniFFI one accept the same presentations: a proof the key
\* verifies, with the bytes of every disclosed item and of no other, and nothing else.
SurfacesAgree ==
  \A t \in Threads :
    LET a == args[t]
    IN /\ pc[t] = "return" /\ a.op = "verify" /\ a.handle # Null
       /\ "panic" \notin DOMAIN out[t]
       /\ \A i \in DOMAIN a.disclosed :
            a.disclosed[i].present # 0 => a.disclosed[i].len \in 1..MAX_CLAIM_BYTES_V1
       => LET u == uniffi_verify(keys[a.handle], a.proof, Entries(a.disclosed))
          IN /\ out[t].ok <=> u.ok
             /\ u.ok => \A i \in Slots :
                  /\ out[t].value[i].disclosed = u.value[i].disclosed
                  /\ SubSeq(out[t].value[i].plaintext, 1, out[t].value[i].real_len)
                       = u.value[i].plaintext
=============================================================================
