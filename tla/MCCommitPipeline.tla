-------------------------- MODULE MCCommitPipeline --------------------------
(* CommitPipeline on two entities, the second of which refers to the first. *)
EXTENDS CommitPipeline, TLC

CONSTANTS parent, child, good, other, bad, odd, u1, u2

Pair == {parent, child}
PairNeeds == (parent :> {}) @@ (child :> {parent})
OneValue == {good}
TwoValues == {good, other}
BadValue == {good, bad}
AnyValue == {good, bad, odd}
Bad == {bad}
Odd == {odd}
None == {}
Alone == {u1}
TwoUsers == {u1, u2}
=============================================================================
