------------------------------ MODULE MCGoFfi ------------------------------
(***************************************************************************)
(* Two slots of two bytes.  Either two threads call at once with a few     *)
(* arguments, or one thread tries everything.                              *)
(***************************************************************************)
EXTENDS GoFfi

CONSTANTS t1, t2

MCThreads == {t1, t2}

Short == Some(<<7>>)
Full  == Some(<<7, 8>>)

\* One proof shows a short item and hides the other slot, one shows a full item.
FewProofs == {[key |-> "k1", slots |-> <<Short, None>>], [key |-> "k1", slots |-> <<Full, None>>]}

MCProofs == FewProofs \cup {[key |-> "k2", slots |-> <<None, Full>>]}

Absent == [present |-> 0, len |-> 0, bytes |-> <<0, 0>>]
Given(l) == [present |-> 1, len |-> l, bytes |-> <<7, 8>>]

\* The array of an earlier call is reused: bytes past len are what was there before.
FewInputs == {<<Given(1), Absent>>, <<Given(2), Absent>>}

\* Too few slots, a length past the slot's, the wrong slot, a slot present and empty.
MCInputs ==
  FewInputs \cup {<<>>, <<Given(1)>>, <<Given(3), Absent>>, <<Absent, Given(2)>>,
                  <<Absent, Given(0)>>, <<Absent, Absent>>}

ASSUME MCAssumption == CapsAssumption

\* A call of one of the few arguments; of buffers that deserialize refuses, garbage.
Few(a) ==
  /\ a.op = "deserialize" => a.bytes.is \in {"data", "garbage"} /\ a.bytes \in Buffers({"k1"})
  /\ a.op = "verify" => /\ a.proof.is \in {"data", "garbage"} /\ a.proof \in Buffers(FewProofs)
                        /\ a.disclosed \in FewInputs

\* State constraint: the second thread joins in only while both keep to the few.
AloneOrFew == args[t2] = NoCall \/ \A t \in Threads : Few(args[t])
=============================================================================
