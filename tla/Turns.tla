-------------------------------- MODULE Turns --------------------------------
(***************************************************************************)
(* The lock that the users of IaSQL are meant to see: a transaction has a  *)
(* holder, only its holder commits in it, one commit at a time, and it is  *)
(* neither released nor taken over under a running commit.  Once something *)
(* upset the protocol nothing is promised any more.                        *)
(***************************************************************************)
CONSTANTS Sessions, Slots, Nobody

VARIABLES
  holder,   \* the session whose transaction is open, or Nobody
  running,  \* the commits, rollbacks and previews that run: <<slot, session>>
  upset     \* the sessions have not kept to their turns

vars == <<holder, running, upset>>

Init == holder = Nobody /\ running = {} /\ upset = FALSE

Take ==
  /\ holder = Nobody /\ running = {}
  /\ holder' \in Sessions
  /\ UNCHANGED running

Enter ==
  /\ holder \in Sessions /\ running = {}
  /\ \E s \in Slots : running' = {<<s, holder>>}
  /\ UNCHANGED holder

\* The end of the commit, or of the worker that ran it.
Leave ==
  /\ \E s \in Slots : running = {<<s, holder>>}
  /\ running' = {}
  /\ UNCHANGED holder

Release ==
  /\ holder \in Sessions /\ running = {}
  /\ holder' = Nobody
  /\ UNCHANGED running

Orderly ==
  /\ upset = FALSE /\ upset' = FALSE
  /\ Take \/ Enter \/ Leave \/ Release

\* Anything, from the first irregularity on.
Disorderly == upset' = TRUE

Next == Orderly \/ Disorderly

Spec == Init /\ [][Next]_vars
=============================================================================
