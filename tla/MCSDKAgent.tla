----------------------------- MODULE MCSDKAgent -----------------------------
(* Small instances of SDKAgent for TLC. *)
EXTENDS SDKAgent

CONSTANTS m1, m2, s1, s2, c1, c2

TwoMessages == {m1, m2}
TwoStarts == {s1, s2}
TwoShutdowns == {c1, c2}
(* What process() of SDKURPAgent returns.                                  *)
Outcomes == [outcome : LastTaskOutcome, category : {"NONE"}]
==============================================================================
