---------------------------- MODULE KeyLifetime ----------------------------
(***************************************************************************)
(* What the Go type `Keys` (go/nymauth/nymauth.go) promises its callers,   *)
(* with no lock, no pointer and no native memory in sight:                 *)
(*                                                                         *)
(*   "a Close during an operation waits for it, a second Close is a no-op, *)
(*    and an operation on closed keys returns InvalidArg".                 *)
(*                                                                         *)
(* The circuit is absent, open or closed.  An operation either runs, and   *)
(* then the circuit stays open for as long as it runs, or is refused, and  *)
(* then the circuit was closed.                                            *)
(***************************************************************************)
CONSTANT Procs      \* the goroutines that share one Keys

VARIABLES
  circuit,          \* "absent", "open" or "closed"
  call              \* each goroutine's operation

lifetimeVars == <<circuit, call>>

Init ==
  /\ circuit = "absent"
  /\ call = [t \in Procs |-> "out"]

Load ==
  /\ circuit = "absent"
  /\ circuit' = "open"
  /\ UNCHANGED call

\* The operation enters the native code with a live circuit ...
Begin(t) ==
  /\ circuit = "open"
  /\ call[t] = "out"
  /\ call' = [call EXCEPT ![t] = "using"]
  /\ UNCHANGED circuit

End(t) ==
  /\ call[t] = "using"
  /\ call' = [call EXCEPT ![t] = "ran"]
  /\ UNCHANGED circuit

\* ... or finds the circuit closed and is refused.
Refuse(t) ==
  /\ circuit = "closed"
  /\ call[t] = "out"
  /\ call' = [call EXCEPT ![t] = "refused"]
  /\ UNCHANGED circuit

Return(t) ==
  /\ call[t] \in {"ran", "refused"}
  /\ call' = [call EXCEPT ![t] = "out"]
  /\ UNCHANGED circuit

\* The circuit is released once, and under nobody's feet.
Close ==
  /\ circuit = "open"
  /\ \A t \in Procs : call[t] # "using"
  /\ circuit' = "closed"
  /\ UNCHANGED call

Next ==
  \/ Load
  \/ Close
  \/ \E t \in Procs : Begin(t) \/ End(t) \/ Refuse(t) \/ Return(t)

Spec == Init /\ [][Next]_lifetimeVars
=============================================================================
