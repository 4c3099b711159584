------------------------------ MODULE Reconcile ------------------------------
(***************************************************************************)
(* What a commit promises, whatever the mappers do: it goes on until the   *)
(* database's statement and the cloud agree, or it says that it failed;    *)
(* and it ends with the database as the cloud is, unless sync throws.      *)
(***************************************************************************)
VARIABLES
  stage,   \* "applying", "agreed" or "failed", then "ended", "endedFailed" or "cut"
  agree,   \* what the commit is about is in the cloud as it is in the database
  mirror   \* the database has the entity as the cloud shows it

vars == <<stage, agree, mirror>>

Init == stage = "applying" /\ agree \in BOOLEAN /\ mirror \in BOOLEAN

\* Handlers, failures and the cloud itself change what agrees.
Disturb == UNCHANGED stage

\* apply returns: nothing was left to do.
Agree == stage = "applying" /\ agree /\ stage' = "agreed"

\* apply has thrown twice.
GiveUp == stage = "applying" /\ stage' = "failed"

\* sync returns: it found no difference.
Mirror ==
  /\ \/ stage = "agreed" /\ stage' = "ended"
     \/ stage = "failed" /\ stage' = "endedFailed"
  /\ mirror' = TRUE

\* sync throws.
Cut == stage \in {"agreed", "failed"} /\ stage' = "cut"

Next ==
  /\ agree' \in BOOLEAN /\ mirror' \in BOOLEAN
  /\ Disturb \/ Agree \/ GiveUp \/ Mirror \/ Cut

Spec == Init /\ [][Next]_vars
=============================================================================
