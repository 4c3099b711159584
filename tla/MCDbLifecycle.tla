---------------------------- MODULE MCDbLifecycle ----------------------------
(* Instances of DbLifecycle: two databases, which are symmetric.           *)
EXTENDS DbLifecycle, TLC

Alike == Permutations(Db)
=============================================================================
