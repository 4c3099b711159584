------------------------- MODULE MCTransactionLock -------------------------
(* TransactionLock with sessions and handler slots as model values.        *)
EXTENDS TransactionLock, TLC

CONSTANTS u1, u2, h1, h2, h3

OneUser == {u1}
TwoUsers == {u1, u2}
TwoHandlers == {h1, h2}
ThreeHandlers == {h1, h2, h3}

LockRpcs == {"begin", "commit"}
TakeRpcs == {"begin", "commit", "install"}
\* iasql_install also does what the RPCs called `invoke' do.
MostRpcs == Rpcs \ {"invoke", "preview"}

\* Orphans may race on, but nobody else does.
OnlyTimeouts == trouble \subseteq {"timeout"}

\* `trouble' guards no action and the properties ask whether there was any:
\* states that differ in its members alone behave alike.
AnyTrouble == <<log, handler, sess, trouble = {}>>

\* Slots are interchangeable, and so are users; liveness runs do not use it.
Symmetry == Permutations(Handlers) \cup Permutations(Users)
=============================================================================
