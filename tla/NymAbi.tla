------------------------------- MODULE NymAbi -------------------------------
(***************************************************************************)
(* zk_cred_vega_nymauth_prove and zk_cred_vega_nymauth_free_buffer, the C  *)
(* entry points behind Keys.Prove (src/nymauth_go_ffi.rs): a caller that   *)
(* calls again and again with the same output variables, arguments that    *)
(* are null or past their caps, and a panic at any point of the call.      *)
(* The engine's answer is any that statement::prove gives.                 *)
(***************************************************************************)
EXTENDS Naturals

CONSTANT MaxCalls    \* bound on the calls

ASSUME CallsAssumption == MaxCalls \in Nat \ {0}

Null == 0            \* a null pointer; the buffer of call n is n

\* The codes of a call that ends without a proof.
Failures ==
  {"InvalidInput", "ProverFailed", "Internal", "SeedMismatch", "IssuerSignature",
   "DeviceSignature", "Credential"}

\* Which pointers are given, whether the seed's length is at most MAX_SMALL, and whether
\* the statement's, the credential's and the signature's slices are readable.
Arguments ==
  [keys : BOOLEAN, outs : BOOLEAN, slices : BOOLEAN, holder : BOOLEAN,
   seed : {"null", "sane", "long"}]

VARIABLES
  pc,            \* where the call is
  args,          \* its arguments
  seed,          \* the caller's seed: "secret" or "zero"
  answer,        \* what the closure under catch_unwind returned
  status,        \* the last code returned to the caller
  proof_out,     \* the caller's output variables
  pseudonym_out,
  live,          \* buffers the caller has to free
  calls          \* calls so far

vars == <<pc, args, seed, answer, status, proof_out, pseudonym_out, live, calls>>

\* The call is at one of its steps, and every code it can return is one the header lists.
TypeOK ==
  /\ pc \in {"idle", "checks", "slices", "engine", "zero", "return"}
  /\ args \in Arguments
  /\ seed \in {"secret", "zero"}
  /\ answer \in Failures \cup {"OK", "InvalidArg"}
  /\ status \in Failures \cup {"OK", "InvalidArg"}
  /\ proof_out \in 0..MaxCalls /\ pseudonym_out \in 0..MaxCalls
  /\ live \in SUBSET (1..MaxCalls)
  /\ calls \in 0..MaxCalls

Init ==
  /\ pc = "idle" /\ calls = 0 /\ live = {}
  /\ args = [keys |-> FALSE, outs |-> FALSE, slices |-> FALSE, holder |-> FALSE, seed |-> "null"]
  /\ seed = "zero"
  /\ answer = "InvalidArg" /\ status = "InvalidArg"
  /\ proof_out = Null /\ pseudonym_out = 0

\* The caller fills a seed buffer and calls prove.
Call(a) ==
  /\ pc = "idle" /\ calls < MaxCalls
  /\ pc' = "checks" /\ args' = a /\ calls' = calls + 1
  /\ seed' = IF a.holder /\ a.seed # "null" THEN "secret" ELSE "zero"
  /\ UNCHANGED <<answer, status, proof_out, pseudonym_out, live>>

\* `seed`: the buffer prove may write.
SeedView == args.holder /\ args.seed = "sane"

End(code) == pc' = "zero" /\ answer' = code

\* Mutant: the outputs are left as the caller had them.
CheckPointers_KeepsOutputs ==
  /\ pc = "checks"
  /\ IF SeedView /\ args.keys /\ args.outs THEN pc' = "slices" /\ UNCHANGED answer
     ELSE End("InvalidArg")
  /\ UNCHANGED <<args, seed, status, proof_out, pseudonym_out, live, calls>>

\* The pointers, then the outputs cleared.
CheckPointers ==
  /\ pc = "checks"
  /\ IF SeedView /\ args.keys /\ args.outs
     THEN pc' = "slices" /\ proof_out' = Null /\ UNCHANGED answer
     ELSE End("InvalidArg") /\ UNCHANGED proof_out
  /\ UNCHANGED <<args, seed, status, pseudonym_out, live, calls>>

ReadSlices ==
  /\ pc = "slices"
  /\ IF args.slices THEN pc' = "engine" /\ UNCHANGED answer ELSE End("InvalidArg")
  /\ UNCHANGED <<args, seed, status, proof_out, pseudonym_out, live, calls>>

\* statement::prove, which catches its own panics.
Engine(code) ==
  /\ pc = "engine"
  /\ End(code)
  /\ UNCHANGED <<args, seed, status, proof_out, pseudonym_out, live, calls>>

\* A panic under catch_unwind.
Panic ==
  /\ pc \in {"slices", "engine"}
  /\ End("Internal")
  /\ UNCHANGED <<args, seed, status, proof_out, pseudonym_out, live, calls>>

\* Mutant: a panic skips the zeroing.
ZeroSeed_NotOnPanic ==
  /\ pc = "zero" /\ pc' = "return"
  /\ seed' = IF SeedView /\ answer # "Internal" THEN "zero" ELSE seed
  /\ UNCHANGED <<args, answer, status, proof_out, pseudonym_out, live, calls>>

ZeroSeed ==
  /\ pc = "zero" /\ pc' = "return"
  /\ seed' = IF SeedView THEN "zero" ELSE seed
  /\ UNCHANGED <<args, answer, status, proof_out, pseudonym_out, live, calls>>

\* The pseudonym is copied and the proof given away only on success.
Return ==
  /\ pc = "return" /\ pc' = "idle"
  /\ status' = answer
  /\ IF answer = "OK"
     THEN /\ pseudonym_out' = calls
          /\ proof_out' = calls
          /\ live' = live \cup {calls}
     ELSE UNCHANGED <<pseudonym_out, proof_out, live>>
  /\ UNCHANGED <<args, seed, answer, calls>>

\* The caller frees what its output variable holds: null is ignored.
FreeBuffer ==
  /\ pc = "idle" /\ proof_out \in live \cup {Null}
  /\ live' = live \ {proof_out}
  /\ UNCHANGED <<pc, args, seed, answer, status, proof_out, pseudonym_out, calls>>

Next ==
  \/ \E a \in Arguments : Call(a)
  \/ CheckPointers \/ ReadSlices \/ Panic \/ ZeroSeed \/ Return \/ FreeBuffer
  \/ \E code \in Failures \cup {"OK"} : Engine(code)

Spec == Init /\ [][Next]_vars

-----------------------------------------------------------------------------

\* Whatever way a call ends, a refused argument, a broken rule or a panic, a writable seed
\* of at most MAX_SMALL bytes is zero when it returns.
SaneSeedIsZeroed == pc = "idle" /\ SeedView => seed = "zero"

\* The header's promise: "holder->secret_seed is zeroed on every path".
SeedIsZeroedOnEveryPath == pc = "idle" => seed = "zero"

\* A caller that reuses its variables is never handed an earlier call's proof: after OK they
\* hold this call's proof and pseudonym, and after any failure past the pointer checks the
\* proof is null and the pseudonym not this call's.
OutputsAreThisCalls ==
  pc = "idle" /\ calls > 0 =>
    IF status = "OK" THEN proof_out = calls /\ pseudonym_out = calls
    ELSE /\ pseudonym_out < calls
         /\ SeedView /\ args.keys /\ args.outs => proof_out = Null

-----------------------------------------------------------------------------
(* The inductive invariant behind them (NymAbiProofs).                      *)

\* The call got past its pointer checks.
Checked == SeedView /\ args.keys /\ args.outs

\* The seed is zero from the zeroing on, and only calls that passed the checks go further.
SeedInv ==
  /\ pc \in {"return", "idle"} /\ SeedView => seed = "zero"
  /\ pc \in {"slices", "engine"} => Checked

\* While a call runs, its outputs are cleared and the pseudonym an earlier call's.
OutputInv ==
  /\ pseudonym_out <= calls
  /\ pc # "idle" => calls > 0 /\ pseudonym_out < calls
  /\ pc \in {"slices", "engine", "zero", "return"} /\ Checked => proof_out = Null
  /\ OutputsAreThisCalls

IInv == TypeOK /\ SeedInv /\ OutputInv
=============================================================================
