-------------------------- MODULE MapperRunProofs --------------------------
(***************************************************************************)
(* For any mappers, any plans of their handlers, any columns and any       *)
(* bounds: a commit of one entity implements Reconcile.  The proof does    *)
(* not look into the plans: what the two loops of apply and the end of     *)
(* sync do is enough.  For any plans made of Plans' steps: the types, also *)
(* of what a handler goes on with after a failure.  For deletions that     *)
(* leave what AWS does not let go alone: it keeps its row.                 *)
(***************************************************************************)
EXTENDS MapperRun, TLAPS, FiniteSetTheorems, SequenceTheorems, NaturalsInduction

\* The fields of the records the argument is about.
Shaped ==
  /\ {"there", "new", "on"} \subseteq DOMAIN row
  /\ {"phase", "load", "ran", "failed"} \subseteq DOMAIN pass
  /\ pass.phase \in {"changed", "all", "sync", "done", "cut"}
  /\ pass.failed \in BOOLEAN

\* apply's inner loop only stops without reading the row again when it ran
\* something, and then the outer loop does.
Reread == Applying => pass.ran \/ pass.load

\* Once apply is over nothing of lazyLoader's is left to run.
Quiet == ~Applying => Between

RunInv == Shaped /\ Reread /\ Quiet

-----------------------------------------------------------------------------
(* What the steps do to the local variables of apply.                      *)

\* apply throws: everything is applied next, or the commit has failed.
LEMMA ThrownShape ==
  ASSUME NEW r, Thrown(r), Applying
  PROVE  /\ {"phase", "load", "ran", "failed"} \subseteq DOMAIN pass'
         /\ pass'.load = TRUE
         /\ \/ pass.phase = "changed" /\ pass'.phase = "all" /\ pass'.failed = FALSE
            \/ pass.phase = "all" /\ pass'.phase = "sync" /\ pass'.failed = TRUE
<1>1. CASE pass.phase = "changed"
  <2>1. pass' = [Fresh("all", FALSE) EXCEPT !.refused = r]  BY <1>1 DEF Thrown
  <2>2. QED  BY <1>1, <2>1 DEF Fresh
<1>2. CASE pass.phase = "all"
  <2>1. pass' = [Fresh("sync", TRUE) EXCEPT !.refused = r]  BY <1>2 DEF Thrown
  <2>2. QED  BY <1>2, <2>1 DEF Fresh
<1>3. QED  BY <1>1, <1>2 DEF Applying

\* A call that throws leaves the local variables of apply alone.
LEMMA ThrowShape ==
  ASSUME NEW r, Throw(r), Shaped
  PROVE  /\ DOMAIN pass' = DOMAIN pass
         /\ pass'.phase = pass.phase /\ pass'.failed = pass.failed
         /\ pass'.load = pass.load /\ pass'.ran = pass.ran
  BY DEF Throw, Shaped

\* Of the steps between Round and Sync, those that change more than the rest of
\* them do: lazyLoader's throw, which ends apply or has it read the row again.
LEMMA HaltShape ==
  ASSUME Halt, Applying, Shaped
  PROVE  /\ {"phase", "load", "ran", "failed"} \subseteq DOMAIN pass'
         /\ pass'.load = TRUE
         /\ \/ pass'.phase = pass.phase /\ pass'.failed = pass.failed
            \/ pass.phase = "changed" /\ pass'.phase = "all" /\ pass'.failed = FALSE
            \/ pass.phase = "all" /\ pass'.phase = "sync" /\ pass'.failed = TRUE
<1>1. CASE Thrown(pass.refused)  BY <1>1, ThrownShape
<1>2. CASE ~Thrown(pass.refused)
  <2>1. pass' = Outer(pass.counts, pass.spin, Len(again))  BY <1>2 DEF Halt
  <2>2. QED  BY <2>1 DEF Shaped, Outer
<1>3. QED  BY <1>1, <1>2

\* All others keep what the proof is about; they may write the row.
Calm ==
  /\ DOMAIN pass' = DOMAIN pass
  /\ pass'.phase = pass.phase /\ pass'.failed = pass.failed
  /\ pass'.load = pass.load /\ pass'.ran = pass.ran
  /\ {"there", "new", "on"} \subseteq DOMAIN row'

LEMMA HandlerCalm ==
  ASSUME Handler \/ Fails, Shaped
  PROVE  Calm
<1>1. CASE Check
  <2>1. row' = row  BY <1>1 DEF Check
  <2>2. \/ pass' = pass
        \/ pass' = [pass EXCEPT !.has = FALSE]
        \/ pass' = [pass EXCEPT !.has = TRUE, !.memo = mem.new \cap Column]
        \/ Throw(FALSE) \/ Throw(F = {})
    BY <1>1 DEF Check
  <2>3. CASE Throw(FALSE) \/ Throw(F = {})  BY <2>1, <2>3, ThrowShape DEF Shaped, Calm
  <2>4. CASE ~(Throw(FALSE) \/ Throw(F = {}))  BY <2>1, <2>2, <2>4 DEF Shaped, Calm
  <2>5. QED  BY <2>3, <2>4
<1>2. CASE Create
  <2>1. row' = row  BY <1>2 DEF Create
  <2>2. pass' = pass \/ Throw(FALSE)  BY <1>2 DEF Create
  <2>3. QED  BY <2>1, <2>2, ThrowShape DEF Shaped, Calm
<1>3. CASE Modify \/ Wait  BY <1>3 DEF Modify, Wait, Shaped, Calm
<1>4. CASE Delete
  <2>1. row' = row  BY <1>4 DEF Delete
  <2>2. pass' = pass \/ Throw(FALSE)  BY <1>4 DEF Delete
  <2>3. QED  BY <2>1, <2>2, ThrowShape DEF Shaped, Calm
<1>5. CASE Write
  <2>1. pass' = pass  BY <1>5 DEF Write
  <2>2. \/ row' = row \/ row' = Saved
        \/ row' = [row EXCEPT !.on = Target]
        \/ row' = [row EXCEPT !.on = job.on, !.new = pass.memo]
        \/ row' = [there |-> TRUE, on |-> job.on, new |-> Shows(job.on)]
        \/ row' = [row EXCEPT !.there = FALSE]
    BY <1>5 DEF Write
  <2>3. {"there", "new", "on"} \subseteq DOMAIN row'  BY <2>2 DEF Shaped, Saved
  <2>4. QED  BY <2>1, <2>3 DEF Calm
<1>6. CASE Fails
  <2>1. row' = row  BY <1>6 DEF Fails
  <2>2. pass' = pass \/ Throw(FALSE)  BY <1>6 DEF Fails
  <2>3. QED  BY <2>1, <2>2, ThrowShape DEF Shaped, Calm
<1>7. QED  BY <1>1, <1>2, <1>3, <1>4, <1>5, <1>6 DEF Handler

LEMMA OthersCalm ==
  ASSUME Shaped,
         \/ Begin \/ Finish \/ Rerun \/ Overlook \/ Appear \/ Done
         \/ \E c \in Copy : Settle(c)
         \/ UNCHANGED vars
  PROVE  Calm
<1>1. CASE Overlook
  <2>1. PICK m : pass' = [pass EXCEPT !.missed = m]  BY <1>1 DEF Overlook
  <2>2. row' = row  BY <1>1 DEF Overlook
  <2>3. QED  BY <2>1, <2>2 DEF Shaped, Calm
<1>2. CASE ~Overlook
  BY <1>2 DEF Begin, Finish, Rerun, Appear, Done, Settle, vars, Shaped, Calm
<1>3. QED  BY <1>1, <1>2

-----------------------------------------------------------------------------
(* The invariant.                                                          *)

LEMMA InitRun == Init => RunInv
<1> SUFFICES ASSUME Init PROVE RunInv  OBVIOUS
<1>1. pass = Fresh("changed", FALSE) /\ job = Idle /\ queue = <<>> /\ again = <<>>
  BY DEF Init
<1>2. {"there", "new", "on"} \subseteq DOMAIN row  BY DEF Init
<1>3. QED  BY <1>1, <1>2 DEF RunInv, Shaped, Reread, Quiet, Between, Applying, Fresh

\* A step that keeps calm only has to leave the end of apply quiet.
LEMMA CalmStep ==
  ASSUME RunInv, Calm, Between => Between'
  PROVE  RunInv'
  BY DEF RunInv, Calm, Shaped, Reread, Quiet, Applying

\* Handlers and lazyLoader run while apply does.
LEMMA JobsApply ==
  ASSUME RunInv, Handler \/ Fails \/ Begin \/ Finish \/ Rerun \/ Halt
  PROVE  Applying
<1>1. ~Between
  BY DEF Handler, Check, Create, Modify, Delete, Wait, Write, Does, Fails, Begin, Finish,
         Rerun, Halt, Between
<1>2. QED  BY <1>1 DEF RunInv, Quiet

\* What Round does to the local variables: apply returns, goes on, or throws.
LEMMA RoundShape ==
  ASSUME RunInv, Round
  PROVE  /\ Applying /\ UNCHANGED <<row, again, job>>
         /\ \/ /\ ~Differs /\ pass.load /\ UNCHANGED queue
               /\ pass' = [Fresh("sync", FALSE) EXCEPT !.refused = pass.refused]
            \/ /\ {"phase", "load", "ran", "failed"} \subseteq DOMAIN pass'
               /\ pass'.phase = pass.phase /\ pass'.failed = pass.failed
               /\ pass'.load = TRUE \/ pass'.ran = TRUE
            \/ Thrown(pass.refused) /\ UNCHANGED queue
<1>1. Applying /\ UNCHANGED <<row, again, job>>  BY DEF Round
<1>2. CASE Thrown(pass.refused) /\ UNCHANGED queue  BY <1>1, <1>2
<1>3. CASE /\ ~Differs /\ UNCHANGED queue
           /\ pass' = IF pass.ran
                      THEN Outer(Counts, Spun, pass.fails)
                      ELSE [Fresh("sync", FALSE) EXCEPT !.refused = pass.refused]
  <2>1. CASE pass.ran  BY <1>1, <1>3, <2>1 DEF RunInv, Shaped, Outer
  <2>2. CASE ~pass.ran  BY <1>1, <1>3, <2>2 DEF RunInv, Reread
  <2>3. QED  BY <2>1, <2>2
<1>4. CASE \E seen : pass' = [pass EXCEPT !.load = FALSE, !.ran = TRUE,
                                   !.counts = Counts, !.spin = Spun,
                                   !.size = Len(Jobs), !.memo = seen, !.has = TRUE]
  BY <1>1, <1>4 DEF RunInv, Shaped
<1>5. QED  BY <1>2, <1>3, <1>4 DEF Round

LEMMA RoundStep ==
  ASSUME RunInv, Round
  PROVE  RunInv'
<1>1. Between  BY DEF Round
<1>2. CASE /\ UNCHANGED queue
           /\ pass' = [Fresh("sync", FALSE) EXCEPT !.refused = pass.refused]
  <2>1. /\ {"phase", "load", "ran", "failed"} \subseteq DOMAIN pass'
        /\ pass'.phase = "sync" /\ pass'.failed = FALSE
    BY <1>2 DEF Fresh
  <2>2. Between'  BY <1>1, <1>2, RoundShape DEF Between
  <2>3. QED  BY <2>1, <2>2, RoundShape DEF RunInv, Shaped, Reread, Quiet, Applying
<1>3. CASE /\ {"phase", "load", "ran", "failed"} \subseteq DOMAIN pass'
           /\ pass'.phase = pass.phase /\ pass'.failed = pass.failed
           /\ pass'.load = TRUE \/ pass'.ran = TRUE
  BY <1>3, RoundShape DEF RunInv, Shaped, Reread, Quiet, Applying
<1>4. CASE Thrown(pass.refused) /\ UNCHANGED queue
  <2>1. Between'  BY <1>1, <1>4, RoundShape DEF Between
  <2>2. QED  BY <1>4, <2>1, ThrownShape, RoundShape DEF RunInv, Shaped, Reread, Quiet
<1>5. QED  BY <1>2, <1>3, <1>4, RoundShape

LEMMA HaltStep ==
  ASSUME RunInv, Halt
  PROVE  RunInv'
<1>1. Applying  BY JobsApply
<1>2. row' = row /\ Between'  BY DEF Halt, Between
<1>3. QED  BY <1>1, <1>2, HaltShape DEF RunInv, Shaped, Reread, Quiet

LEMMA SyncStep ==
  ASSUME RunInv, Sync
  PROVE  RunInv'
<1>1. /\ row' \in {row, Synced} /\ UNCHANGED <<queue, again, job>>
      /\ Between /\ pass.phase = "sync"
  BY DEF Sync
<1>2. {"there", "new", "on"} \subseteq DOMAIN row'
  BY <1>1 DEF RunInv, Shaped, Synced
<1>3. Between'  BY <1>1 DEF Between
<1>4. \/ pass' = pass
      \/ pass' = [pass EXCEPT !.phase = "done"]
      \/ pass' = [pass EXCEPT !.phase = "cut", !.failed = TRUE]
  BY DEF Sync
<1>5. /\ {"phase", "load", "ran", "failed"} \subseteq DOMAIN pass'
      /\ pass'.phase \in {"sync", "done", "cut"} /\ pass'.failed \in BOOLEAN
  BY <1>1, <1>4 DEF RunInv, Shaped
<1>6. QED  BY <1>2, <1>3, <1>5 DEF RunInv, Shaped, Reread, Quiet, Applying

LEMMA RunStep == RunInv /\ [Next]_vars => RunInv'
<1> SUFFICES ASSUME RunInv, [Next]_vars PROVE RunInv'  OBVIOUS
<1>1. CASE Round  BY <1>1, RoundStep
<1>2. CASE Halt  BY <1>2, HaltStep
<1>3. CASE Sync  BY <1>3, SyncStep
<1>4. CASE Handler \/ Fails \/ Begin \/ Finish \/ Rerun
  <2>1. Calm  BY <1>4, HandlerCalm, OthersCalm DEF RunInv
  <2>2. ~Between
    BY <1>4 DEF Handler, Check, Create, Modify, Delete, Wait, Write, Does, Fails, Begin,
                Finish, Rerun, Between
  <2>3. QED  BY <2>1, <2>2, CalmStep
<1>5. CASE Overlook \/ Appear \/ Done \/ (\E c \in Copy : Settle(c)) \/ UNCHANGED vars
  <2>1. Calm  BY <1>5, OthersCalm DEF RunInv
  <2>2. Between => Between'  BY <1>5 DEF Overlook, Appear, Done, Settle, vars, Between
  <2>3. QED  BY <2>1, <2>2, CalmStep
<1>6. QED  BY <1>1, <1>2, <1>3, <1>4, <1>5 DEF Next, Commit

-----------------------------------------------------------------------------
(* The refinement.                                                         *)

\* What the refinement mapping yields are truth values.
LEMMA Truths == Agreed \in BOOLEAN /\ Mirrored \in BOOLEAN
  BY DEF Agreed, Mirrored

LEMMA TruthsNext == Agreed' \in BOOLEAN /\ Mirrored' \in BOOLEAN
  BY DEF Agreed, Mirrored

LEMMA InitMaps == Init => Promise!Init
<1> SUFFICES ASSUME Init PROVE Promise!Init  OBVIOUS
<1>1. pass = Fresh("changed", FALSE)  BY DEF Init
<1>2. StageOf(pass) = "applying"  BY <1>1 DEF StageOf, Fresh
<1>3. QED  BY <1>2, Truths DEF Promise!Init

\* A step that changes neither the phase nor the verdict is a disturbance.
LEMMA CalmMaps ==
  ASSUME pass'.phase = pass.phase, pass'.failed = pass.failed
  PROVE  Promise!Next
<1>1. StageOf(pass)' = StageOf(pass)  BY DEF StageOf
<1>2. Promise!Disturb  BY <1>1 DEF Promise!Disturb
<1>3. QED  BY <1>2, TruthsNext DEF Promise!Next

\* apply throws: everything is applied next, or the commit has failed.
LEMMA ThrownMaps ==
  ASSUME \/ pass.phase = "changed" /\ pass'.phase = "all" /\ pass'.failed = FALSE
         \/ pass.phase = "all" /\ pass'.phase = "sync" /\ pass'.failed = TRUE
  PROVE  Promise!Next
<1>1. CASE pass.phase = "changed" /\ pass'.phase = "all"
  <2>1. StageOf(pass) = "applying" /\ StageOf(pass)' = "applying"  BY <1>1 DEF StageOf
  <2>2. Promise!Disturb  BY <2>1 DEF Promise!Disturb
  <2>3. QED  BY <2>2, TruthsNext DEF Promise!Next
<1>2. CASE pass.phase = "all" /\ pass'.phase = "sync" /\ pass'.failed = TRUE
  <2>1. StageOf(pass) = "applying" /\ StageOf(pass)' = "failed"  BY <1>2 DEF StageOf
  <2>2. Promise!GiveUp  BY <2>1 DEF Promise!GiveUp
  <2>3. QED  BY <2>2, TruthsNext DEF Promise!Next
<1>3. QED  BY <1>1, <1>2

\* apply returns only after it read the row again and found no difference.
LEMMA RoundMaps ==
  ASSUME RunInv, Round
  PROVE  Promise!Next
<1>1. CASE /\ ~Differs /\ pass.load
           /\ pass' = [Fresh("sync", FALSE) EXCEPT !.refused = pass.refused]
  <2>1. Agreed  BY <1>1 DEF Agreed
  <2>2. pass'.phase = "sync" /\ pass'.failed = FALSE  BY <1>1 DEF Fresh
  <2>3. StageOf(pass) = "applying" /\ StageOf(pass)' = "agreed"
    BY <2>2, RoundShape DEF StageOf, Applying
  <2>4. Promise!Agree  BY <2>1, <2>3 DEF Promise!Agree
  <2>5. QED  BY <2>4, TruthsNext DEF Promise!Next
<1>2. CASE pass'.phase = pass.phase /\ pass'.failed = pass.failed  BY <1>2, CalmMaps
<1>3. CASE Thrown(pass.refused)  BY <1>3, RoundShape, ThrownShape, ThrownMaps
<1>4. QED  BY <1>1, <1>2, <1>3, RoundShape

\* The turn of sync that ends the commit found what the database has as the cloud
\* shows it, and leaves it so.
LEMMA SyncMirrors ==
  ASSUME RunInv, Sync, Mirrored, pass' = [pass EXCEPT !.phase = "done"]
  PROVE  Mirrored'
<1>1. pass.phase = "sync" /\ pass'.phase = "done"  BY DEF Sync, RunInv, Shaped
<1>2. pass' # pass /\ pass'.phase # "cut"  BY <1>1
<1>3. UNCHANGED <<row, stray, subject, cloud>>  BY <1>1, <1>2 DEF Sync, RunInv, Shaped
<1>4. pass'.missed = pass.missed  BY DEF Sync
<1>5. QED  BY <1>3, <1>4 DEF Mirrored, Of, Shown, Shows, ByName, Column, Traits, Copy

LEMMA SyncMaps ==
  ASSUME RunInv, Sync
  PROVE  Promise!Next
<1>1. pass.phase = "sync"  BY DEF Sync
<1>2. CASE pass' = pass  BY <1>2, CalmMaps
<1>3. CASE pass' = [pass EXCEPT !.phase = "done"] /\ Mirrored
  <2>1. pass'.phase = "done" /\ pass'.failed = pass.failed  BY <1>3 DEF RunInv, Shaped
  <2>2. \/ StageOf(pass) = "agreed" /\ StageOf(pass)' = "ended"
        \/ StageOf(pass) = "failed" /\ StageOf(pass)' = "endedFailed"
    BY <1>1, <2>1 DEF StageOf
  <2>3. Mirrored' = TRUE  BY <1>3, SyncMirrors, TruthsNext
  <2>4. Promise!Mirror  BY <2>2, <2>3 DEF Promise!Mirror
  <2>5. QED  BY <2>4, TruthsNext DEF Promise!Next
<1>4. CASE pass' = [pass EXCEPT !.phase = "cut", !.failed = TRUE]
  <2>1. pass'.phase = "cut"  BY <1>4 DEF RunInv, Shaped
  <2>2. StageOf(pass) \in {"agreed", "failed"} /\ StageOf(pass)' = "cut"
    BY <1>1, <2>1 DEF StageOf
  <2>3. Promise!Cut  BY <2>2 DEF Promise!Cut
  <2>4. QED  BY <2>3, TruthsNext DEF Promise!Next
<1>5. QED  BY <1>2, <1>3, <1>4 DEF Sync

LEMMA StepMaps == RunInv /\ [Next]_vars => [Promise!Next]_(Promise!vars)
<1> SUFFICES ASSUME RunInv, [Next]_vars PROVE Promise!Next  OBVIOUS
<1>1. CASE Round  BY <1>1, RoundMaps
<1>2. CASE Sync  BY <1>2, SyncMaps
<1>3. CASE Halt  BY <1>3, JobsApply, HaltShape, CalmMaps, ThrownMaps DEF RunInv
<1>4. CASE Handler \/ Fails  BY <1>4, HandlerCalm, CalmMaps DEF RunInv, Calm
<1>5. CASE \/ Begin \/ Finish \/ Rerun \/ Overlook \/ Appear \/ Done
           \/ (\E c \in Copy : Settle(c)) \/ UNCHANGED vars
  BY <1>5, OthersCalm, CalmMaps DEF RunInv, Calm
<1>6. QED  BY <1>1, <1>2, <1>3, <1>4, <1>5 DEF Next, Commit

\* Reconciles, whatever the mappers, their handlers and what fails in them: apply
\* returns only when the row, read again, and the cloud agree; it is given up
\* only after everything was applied; and the commit ends with the row, and the
\* rows of what else is there, as the cloud is, unless sync throws.
THEOREM CommitReconciles == Spec => Reconciles
<1>1. Init => RunInv  BY InitRun
<1>2. RunInv /\ [Next]_vars => RunInv'  BY RunStep
<1>3. Init => Promise!Init  BY InitMaps
<1>4. RunInv /\ [Next]_vars => [Promise!Next]_(Promise!vars)  BY StepMaps
<1>5. QED  BY <1>1, <1>2, <1>3, <1>4, PTL DEF Spec, Reconciles, Promise!Spec

-----------------------------------------------------------------------------
(* What sync writes settles.                                               *)

CutInv == faults \in Nat /\ CutForCause

\* A turn of sync without a difference to write finds nothing that equals sees,
\* but for columns that the mapper does not read back: a row that has a resource
\* has what it shows, one that has none is gone, and all others have rows.
LEMMA WrittenMirrors ==
  ASSUME Shaped, Synced = row, Own = stray, Column \subseteq Traits.fills
  PROVE  Mirrored
<1>1. Shown \subseteq Of(row) \cup stray  BY DEF Own
<1>2. ASSUME row.there
      PROVE  \E c \in Of(row) : row.new \cap Column = Shows(c) \cap Column
  <2>1. Of(row) # {}
    <3>1. SUFFICES ASSUME Of(row) = {} PROVE FALSE  OBVIOUS
    <3>2. row = [row EXCEPT !.there = FALSE]  BY <3>1 DEF Synced
    <3>3. [row EXCEPT !.there = FALSE].there = FALSE  BY DEF Shaped
    <3>4. QED  BY <1>2, <3>2, <3>3
  <2>2. PICK c \in Of(row) : c = CHOOSE k \in Of(row) : TRUE  BY <2>1
  <2>3. CASE row.new \cap Column = Shows(c) \cap Column  BY <2>2, <2>3
  <2>4. CASE row.new \cap Column # Shows(c) \cap Column
    <3>1. row = [row EXCEPT !.new = (@ \ Traits.fills) \cup Shows(c)]
      BY <2>1, <2>2, <2>4 DEF Synced
    <3>2. row.new = (row.new \ Traits.fills) \cup Shows(c)
      <4>1. [row EXCEPT !.new = (@ \ Traits.fills) \cup Shows(c)].new
              = (row.new \ Traits.fills) \cup Shows(c)
        BY DEF Shaped
      <4>2. QED  BY <3>1, <4>1
    <3>3. row.new \cap Column = Shows(c) \cap Column  BY <3>2
    <3>4. QED  BY <2>2, <3>3
  <2>5. QED  BY <2>3, <2>4
<1>3. QED  BY <1>1, <1>2 DEF Mirrored

LEMMA CutStep == RunInv /\ CutInv /\ [Next]_vars => CutInv'
<1> SUFFICES ASSUME RunInv, CutInv, [Next]_vars PROVE CutInv'  OBVIOUS
<1>1. subject' = subject
  BY DEF Next, Commit, Handler, Round, Begin, Finish, Rerun, Halt, Sync, Check, Create, Modify,
         Delete, Wait, Write, Fails, Overlook, Appear, Done, Settle, vars
<1>2. Column' = Column /\ Traits' = Traits  BY <1>1 DEF Column, Traits
<1>3. faults' = faults \/ faults' = faults + 1
  BY DEF Next, Commit, Handler, Round, Begin, Finish, Rerun, Halt, Sync, Check, Create, Modify,
         Delete, Wait, Write, Fails, Overlook, Appear, Done, Settle, vars
<1>4. faults' \in Nat /\ (faults # 0 => faults' # 0)  BY <1>3 DEF CutInv
<1>5. ASSUME pass'.phase = "cut", pass.phase # "cut"
      PROVE  faults' # 0 \/ ~(Column \subseteq Traits.fills)
  <2>1. CASE Sync
    <3>1. CASE faults' = faults + 1  BY <3>1 DEF CutInv
    <3>2. CASE faults' # faults + 1
      <4>1. <<Synced, Own>> = <<row, stray>> /\ ~Mirrored
        <5>1. pass' # pass  BY <1>5
        <5>2. pass' # [pass EXCEPT !.phase = "done"]  BY <1>5 DEF RunInv, Shaped
        <5>3. QED  BY <2>1, <3>2, <5>1, <5>2 DEF Sync
      <4>2. QED  BY <4>1, WrittenMirrors DEF RunInv
    <3>3. QED  BY <3>1, <3>2
  <2>2. CASE Round
    <3>1. CASE Thrown(pass.refused)  BY <1>5, <2>2, <3>1, ThrownShape, RoundShape
    <3>2. CASE pass' = [Fresh("sync", FALSE) EXCEPT !.refused = pass.refused]
      BY <1>5, <3>2 DEF Fresh
    <3>3. QED  BY <1>5, <2>2, <3>1, <3>2, RoundShape
  <2>3. CASE Halt  BY <1>5, <2>3, JobsApply, HaltShape DEF RunInv
  <2>4. CASE Handler \/ Fails  BY <1>5, <2>4, HandlerCalm DEF RunInv, Calm
  <2>5. CASE \/ Begin \/ Finish \/ Rerun \/ Overlook \/ Appear \/ Done
             \/ (\E c \in Copy : Settle(c)) \/ UNCHANGED vars
    BY <1>5, <2>5, OthersCalm DEF RunInv, Calm
  <2>6. QED  BY <2>1, <2>2, <2>3, <2>4, <2>5 DEF Next, Commit
<1>6. QED  BY <1>2, <1>4, <1>5 DEF CutInv, CutForCause

\* CutForCause, for any mappers: what sync writes (db.update of the cloud's record,
\* db.create and db.delete) makes the two sides equal, so that its counter of
\* identical rounds only ends it over columns that the mapper does not read back.
THEOREM SyncConverges == Spec => []CutForCause
<1>1. Init => CutInv  BY DEF Init, Fresh, CutInv, CutForCause
<1>2. Init => RunInv  BY InitRun
<1>3. RunInv /\ [Next]_vars => RunInv'  BY RunStep
<1>4. RunInv /\ CutInv /\ [Next]_vars => CutInv'  BY CutStep
<1>5. CutInv => CutForCause  BY DEF CutInv
<1>6. QED  BY <1>1, <1>2, <1>3, <1>4, <1>5, PTL DEF Spec

-----------------------------------------------------------------------------
(* Types.                                                                  *)

\* What the types rest on: the mappers are well-formed, whatever differs.
HandlersTyped == \A m \in Mapper : WellFormed(m, SUBSET TraitOf(m).equals)

\* A row, a resource, and a job: a creation is for no resource, other calls are.
Rows == [there : BOOLEAN, new : SUBSET Columns, on : 0 .. Copies]
Resources == [stage : Stage, new : SUBSET Columns, aside : BOOLEAN]
Tasks == {j \in Job : j.call = "create" <=> j.on = 0}

JobInv ==
  \/ job = Idle /\ plan = <<>>
  \/ /\ job \in [call : Calls, on : 0 .. Copies, made : 0 .. Copies]
     /\ job.call = "create" <=> job.on = 0
     /\ plan \in Seq(Steps(job.call))

TypeInv ==
  /\ subject.mapper \in Mapper /\ subject.does \in Statement
  /\ subject.facts \in Traits.facts
  /\ row \in Rows /\ mem \in Rows
  /\ cloud \in [Copy -> Resources]
  /\ stray \subseteq Copy /\ ready \in BOOLEAN
  /\ pass \in Pass
  /\ queue \in Seq(Tasks) /\ again \in Seq(Tasks)
  /\ JobInv
  /\ faults \in 0 .. MaxFaults /\ helped \in 0 .. MaxHelp

\* The least of a set of numbers.
LEMMA Least ==
  ASSUME NEW S, S \subseteq Nat, S # {}
  PROVE  Min(S) \in S /\ \A k \in S : Min(S) <= k
<1>1. PICK i \in S : \A k \in S : ~(<<k, i>> \in OpToRel(<, Nat))
  BY NatLessThanWellFounded, WFMin
<1>2. \A k \in S : ~(k < i)  BY <1>1 DEF OpToRel
<1>3. \E x \in S : \A k \in S : x <= k  BY <1>2
<1>4. QED  BY <1>3 DEF Min

\* A sequence of a set's elements.
LEMMA Sequenced ==
  ASSUME NEW S, IsFiniteSet(S)
  PROVE  SetToSeq(S) \in Seq(S)
<1>1. Cardinality(S) \in Nat /\ ExistsBijection(1 .. Cardinality(S), S)
  BY FS_CardinalityType
<1>2. \E f \in [1 .. Cardinality(S) -> S] : IsInjective(f)
  BY <1>1 DEF ExistsBijection, Bijection, Injection
<1>3. SetToSeq(S) \in [1 .. Cardinality(S) -> S]  BY <1>2 DEF SetToSeq
<1>4. QED  BY <1>1, <1>3

\* There are finitely many resources.
LEMMA CopiesFinite ==
  ASSUME NEW S, S \subseteq Copy
  PROVE  IsFiniteSet(S) /\ Cardinality(S) \in Nat
<1>1. Copies \in Nat  BY RunAssumption
<1>2. IsFiniteSet(Copy)  BY <1>1, FS_Interval DEF Copy
<1>3. QED  BY <1>2, FS_Subset, FS_CardinalityType

\* What mappers compare and the cloud shows are columns.
LEMMA ColumnsTyped ==
  ASSUME HandlersTyped, TypeInv
  PROVE  /\ Column \subseteq Columns
         /\ \A c : Shows(c) \subseteq Columns
         /\ Shown \subseteq Copy
         /\ \A e : Of(e) \subseteq Copy
  BY DEF HandlersTyped, WellFormed, TypeInv, Column, Traits, Shows, Shown, Of

\* What a handler goes on with is made of its steps.
LEMMA BehindTyped ==
  ASSUME NEW S, NEW p \in Seq(S), NEW at, at \subseteq 1 .. Len(p), at # {}
  PROVE  Behind(p, at) \in Seq(S)
<1>1. Len(p) \in Nat /\ at \subseteq Nat  OBVIOUS
<1>2. PICK n : n = Min(at)  OBVIOUS
<1>3. n \in 1 .. Len(p)  BY <1>1, <1>2, Least
<1>4. n + 1 \in Int /\ Len(p) \in Int  BY <1>1, <1>3
<1>5. \A i \in (n + 1) .. Len(p) : p[i] \in S  BY <1>1, <1>3
<1>6. SubSeq(p, n + 1, Len(p)) \in Seq(S)  BY <1>4, <1>5, SubSeqProperties
<1>7. QED  BY <1>2, <1>6 DEF Behind

\* The next entity's turn: the rest of the handler is made of its steps.
LEMMA PassedTyped ==
  ASSUME NEW S, plan \in Seq(S)
  PROVE  Passed \in Seq(S)
<1>1. ResumeAt(plan) \subseteq 1 .. Len(plan)  BY DEF ResumeAt
<1>2. QED  BY <1>1, BehindTyped DEF Passed

\* A call that throws leaves a block of the handler to run, or a job to repeat.
LEMMA ThrowTyped ==
  ASSUME TypeInv, job # Idle, NEW r \in BOOLEAN, Throw(r)
  PROVE  JobInv' /\ again' \in Seq(Tasks) /\ pass' \in Pass
<1>1. /\ job \in [call : Calls, on : 0 .. Copies, made : 0 .. Copies]
      /\ job.call = "create" <=> job.on = 0
      /\ plan \in Seq(Steps(job.call))
  BY DEF TypeInv, JobInv
<1>2. CASE CatchAt(plan) # {}
  <2>1. plan' = Behind(plan, CatchAt(plan)) /\ UNCHANGED <<job, again, pass>>
    BY <1>2 DEF Throw
  <2>2. CatchAt(plan) \subseteq 1 .. Len(plan)  BY DEF CatchAt
  <2>3. plan' \in Seq(Steps(job.call))  BY <1>1, <1>2, <2>1, <2>2, BehindTyped
  <2>4. QED  BY <1>1, <2>1, <2>3 DEF TypeInv, JobInv
<1>3. CASE CatchAt(plan) = {}
  <2>1. /\ plan' = <<>> /\ job' = Idle
        /\ again' = Append(again, [call |-> job.call, on |-> job.on])
        /\ pass' = [pass EXCEPT !.refused = @ \/ r]
    BY <1>3 DEF Throw
  <2>2. [call |-> job.call, on |-> job.on] \in Tasks  BY <1>1 DEF Tasks, Job
  <2>3. again' \in Seq(Tasks)  BY <2>1, <2>2, AppendProperties DEF TypeInv
  <2>4. pass' \in Pass
    <3>1. pass.refused \in BOOLEAN /\ pass \in Pass  BY DEF TypeInv, Pass
    <3>2. (pass.refused \/ r) \in BOOLEAN  OBVIOUS
    <3>3. PICK b \in BOOLEAN : b = (pass.refused \/ r)  BY <3>2
    <3>4. pass' = [pass EXCEPT !.refused = b]  BY <2>1, <3>3
    <3>5. QED  BY <3>1, <3>4 DEF Pass
  <2>5. QED  BY <2>1, <2>3, <2>4 DEF JobInv
<1>4. QED  BY <1>2, <1>3

\* The step a handler is at.
LEMMA DoesTyped ==
  ASSUME TypeInv, job # Idle, plan # <<>>
  PROVE  /\ job \in [call : Calls, on : 0 .. Copies, made : 0 .. Copies]
         /\ job.call = "create" <=> job.on = 0
         /\ plan \in Seq(Steps(job.call))
         /\ Head(plan) \in Steps(job.call)
         /\ Tail(plan) \in Seq(Steps(job.call))
  BY HeadTailProperties DEF TypeInv, JobInv

\* A handler that goes on has its job's steps left.
LEMMA GoesTyped ==
  ASSUME TypeInv, job # Idle, plan # <<>>, Goes,
         job' \in [call : Calls, on : 0 .. Copies, made : 0 .. Copies],
         job'.call = job.call, job'.on = job.on
  PROVE  JobInv'
  BY DoesTyped DEF Goes, JobInv

\* The user's statement and apply's first values.
LEMMA InitTyped == HandlersTyped /\ Init => TypeInv
<1> SUFFICES ASSUME HandlersTyped, Init PROVE TypeInv  OBVIOUS
<1>1. Copies \in Nat \ {0} /\ MaxFaults \in Nat /\ MaxHelp \in Nat  BY RunAssumption
<1>2. PICK m \in Mapper :
        subject \in [mapper : {m}, does : Statement, intent : Scenario(m), facts : TraitOf(m).facts]
  BY DEF Init
<1>3. /\ subject.mapper \in Mapper /\ subject.does \in Statement
      /\ subject.intent \subseteq Columns /\ subject.facts \in Traits.facts
  BY <1>2 DEF HandlersTyped, WellFormed, Traits
<1>4. Written(subject) \subseteq Columns  BY <1>3 DEF Written, HandlersTyped, WellFormed
<1>5. row \in Rows /\ mem \in Rows  BY <1>1, <1>4 DEF Init, Rows
<1>6. cloud \in [Copy -> Resources]  BY DEF Init, Resources, Stage
<1>7. pass \in Pass
  <2>1. <<-1, -1, -1>> \in Seq(Int)  OBVIOUS
  <2>2. QED  BY <2>1 DEF Init, Pass, Fresh
<1>8. JobInv  BY DEF Init, JobInv
<1>9. queue \in Seq(Tasks) /\ again \in Seq(Tasks)  BY DEF Init
<1>10. stray \subseteq Copy /\ ready \in BOOLEAN /\ faults = 0 /\ helped = 0  BY DEF Init
<1>11. QED  BY <1>1, <1>3, <1>5, <1>6, <1>7, <1>8, <1>9, <1>10 DEF TypeInv

\* apply begins anew.
LEMMA FreshTyped ==
  ASSUME NEW p \in {"changed", "all", "sync", "done"}, NEW b \in BOOLEAN, NEW r \in BOOLEAN
  PROVE  [Fresh(p, b) EXCEPT !.refused = r] \in Pass
<1>1. <<-1, -1, -1>> \in Seq(Int)  OBVIOUS
<1>2. Fresh(p, b) \in Pass  BY <1>1 DEF Fresh, Pass
<1>3. QED  BY <1>2 DEF Pass

\* apply throws.
LEMMA ThrownTyped ==
  ASSUME TypeInv, Thrown(pass.refused)
  PROVE  pass' \in Pass
<1>1. pass.refused \in BOOLEAN  BY DEF TypeInv, Pass
<1>2. PICK p \in {"all", "sync"}, b \in BOOLEAN : pass' = [Fresh(p, b) EXCEPT !.refused = pass.refused]
  BY DEF Thrown
<1>3. QED  BY <1>1, <1>2, FreshTyped

\* apply's differences become jobs, creations being those of no resource.
LEMMA JobsTyped ==
  ASSUME TypeInv, HandlersTyped
  PROVE  Jobs \in Seq(Tasks)
<1> DEFINE new == IF InDbOnly THEN <<[call |-> "create", on |-> 0]>> ELSE <<>>
           updates == {[call |-> "update", on |-> c] : c \in Changed}
           deletes == {[call |-> "delete", on |-> c] : c \in InAwsOnly}
<1>1. Copies \in Nat  BY RunAssumption
<1>2. Changed \subseteq Copy /\ InAwsOnly \subseteq Copy
  BY ColumnsTyped DEF Changed, InAwsOnly
<1>3. new \in Seq(Tasks)
  <2>1. [call |-> "create", on |-> 0] \in Tasks  BY <1>1 DEF Tasks, Job, Calls
  <2>2. QED  BY <2>1
<1>4. updates \subseteq Tasks  BY <1>1, <1>2 DEF Tasks, Job, Calls, Copy
<1>5. deletes \subseteq Tasks  BY <1>1, <1>2 DEF Tasks, Job, Calls, Copy
<1>6. IsFiniteSet(updates)
  <2>1. IsFiniteSet(Changed)  BY <1>2, CopiesFinite
  <2>2. IsFiniteSet({[call |-> "update", on |-> c] : c \in Changed})
    <3> DEFINE f == [c \in Changed |-> [call |-> "update", on |-> c]]
    <3>1. f \in Surjection(Changed, updates)  BY DEF Surjection
    <3>2. QED  BY <2>1, <3>1, FS_Surjection
  <2>3. QED  BY <2>2
<1>7. IsFiniteSet(deletes)
  <2>1. IsFiniteSet(InAwsOnly)  BY <1>2, CopiesFinite
  <2>2. QED
    <3> DEFINE f == [c \in InAwsOnly |-> [call |-> "delete", on |-> c]]
    <3>1. f \in Surjection(InAwsOnly, deletes)  BY DEF Surjection
    <3>2. QED  BY <2>1, <3>1, FS_Surjection
<1>8. SetToSeq(updates) \in Seq(Tasks)
  <2>1. SetToSeq(updates) \in Seq(updates)  BY <1>6, Sequenced
  <2>2. QED  BY <1>4, <2>1, SeqMonotonic
<1>9. SetToSeq(deletes) \in Seq(Tasks)
  <2>1. SetToSeq(deletes) \in Seq(deletes)  BY <1>7, Sequenced
  <2>2. QED  BY <1>5, <2>1, SeqMonotonic
<1> HIDE DEF new, updates, deletes
<1>10. new \o SetToSeq(updates) \in Seq(Tasks)  BY <1>3, <1>8, ConcatProperties
<1>11. new \o SetToSeq(updates) \o SetToSeq(deletes) \in Seq(Tasks)
  BY <1>9, <1>10, ConcatProperties
<1>12. QED  BY <1>11 DEF Jobs, new, updates, deletes

\* recordCount is three numbers, and how often it was the same one more.
LEMMA CountsTyped ==
  ASSUME TypeInv, HandlersTyped
  PROVE  /\ Counts \in Seq(Int)
         /\ Spun \in Nat
<1>1. Changed \subseteq Copy /\ InAwsOnly \subseteq Copy
  BY ColumnsTyped DEF Changed, InAwsOnly
<1>2. Cardinality(InAwsOnly) \in Nat /\ Cardinality(Changed) \in Nat
  BY <1>1, CopiesFinite
<1>3. Counts \in Seq(Int)
  <2>1. PICK a \in Nat, b \in Nat : a = Cardinality(InAwsOnly) /\ b = Cardinality(Changed)
    BY <1>2
  <2>2. PICK n \in Nat : n = IF InDbOnly THEN 1 ELSE 0  OBVIOUS
  <2>3. <<n, a, b>> \in Seq(Int)  OBVIOUS
  <2>4. QED  BY <2>1, <2>2, <2>3 DEF Counts
<1>4. pass.spin \in 0 .. 3  BY DEF TypeInv, Pass
<1>5. QED  BY <1>3, <1>4 DEF Spun

\* One turn of apply's inner loop.
LEMMA RoundTyped ==
  ASSUME TypeInv, HandlersTyped, Round
  PROVE  TypeInv'
<1> DEFINE seen == IF Of(Entity) = {} THEN {} ELSE Shows(CHOOSE c \in Of(Entity) : TRUE)
<1>1. /\ mem' = Entity
      /\ UNCHANGED <<subject, row, cloud, stray, ready, again, job, plan, helped>>
  BY DEF Round
<1>2. mem' \in Rows  BY <1>1 DEF Entity, TypeInv
<1>3. pass \in Pass /\ queue \in Seq(Tasks) /\ faults \in 0 .. MaxFaults  BY DEF TypeInv
<1>4. Counts \in Seq(Int) /\ Spun \in Nat  BY CountsTyped
<1>5. seen \subseteq Columns  BY ColumnsTyped
<1>6. Jobs \in Seq(Tasks) /\ Len(Jobs) \in Nat
  <2>1. Jobs \in Seq(Tasks)  BY JobsTyped
  <2>2. PICK j \in Seq(Tasks) : j = Jobs  BY <2>1
  <2>3. Len(j) \in Nat  OBVIOUS
  <2>4. QED  BY <2>2, <2>3
<1>7. pass' \in Pass /\ queue' \in Seq(Tasks) /\ faults' \in 0 .. MaxFaults
  <2>1. CASE /\ Spun < SpinLimit /\ UNCHANGED <<queue, faults>>
             /\ \/ pass' = Outer(Counts, Spun, pass.fails)
                \/ pass' = [Fresh("sync", FALSE) EXCEPT !.refused = pass.refused]
    <3>1. Spun \in 0 .. 3  BY <1>4, <2>1 DEF SpinLimit
    <3>2. [Fresh("sync", FALSE) EXCEPT !.refused = pass.refused] \in Pass
      BY <1>3, FreshTyped DEF Pass
    <3>3. Outer(Counts, Spun, pass.fails) \in Pass  BY <1>3, <1>4, <3>1 DEF Pass, Outer
    <3>4. QED  BY <1>3, <2>1, <3>2, <3>3
  <2>2. CASE Thrown(pass.refused) /\ UNCHANGED <<queue, faults>>
    BY <1>3, <2>2, ThrownTyped
  <2>3. CASE /\ Spun < SpinLimit /\ Differs
             /\ queue' = Jobs
             /\ pass' = [pass EXCEPT !.load = FALSE, !.ran = TRUE,
                                     !.counts = Counts, !.spin = Spun,
                                     !.size = Len(Jobs), !.memo = seen, !.has = TRUE]
             /\ UNCHANGED faults
    <3>1. Spun \in 0 .. 3  BY <1>4, <2>3 DEF SpinLimit
    <3> HIDE DEF seen
    <3>2. QED  BY <1>3, <1>4, <1>5, <1>6, <2>3, <3>1 DEF Pass
  <2>4. CASE /\ faults < MaxFaults /\ faults' = faults + 1
             /\ Thrown(pass.refused) /\ UNCHANGED queue
    BY <1>3, <2>4, ThrownTyped, RunAssumption
  <2>5. QED  BY <2>1, <2>2, <2>3, <2>4 DEF Round
<1>8. QED  BY <1>1, <1>2, <1>7 DEF TypeInv, JobInv, Traits

\* lazyLoader calls a handler.
LEMMA BeginTyped ==
  ASSUME TypeInv, HandlersTyped, Begin
  PROVE  TypeInv'
<1>1. PICK j : j = Head(queue)  OBVIOUS
<1>2. j \in Tasks /\ queue' \in Seq(Tasks)
  BY <1>1, HeadTailProperties DEF TypeInv, Begin
<1>3. job' = [call |-> j.call, on |-> j.on, made |-> 0]  BY <1>1 DEF Begin
<1>4. Copies \in Nat  BY RunAssumption
<1>5. /\ job' \in [call : Calls, on : 0 .. Copies, made : 0 .. Copies]
      /\ job'.call = j.call /\ (job'.call = "create" <=> job'.on = 0)
  BY <1>2, <1>3, <1>4 DEF Tasks, Job
<1>6. Situation \in [facts : TraitOf(subject.mapper).facts, has : BOOLEAN,
                     diff : SUBSET TraitOf(subject.mapper).equals]
  BY DEF TypeInv, Situation, Pass, Column, Traits
<1>7. Plan(subject.mapper, j.call, Situation) \in Seq(Steps(j.call))
  BY <1>2, <1>6 DEF HandlersTyped, WellFormed, TypeInv, Tasks, Job
<1>8. When(j.call = "delete", <<Forget>>) \in Seq(Steps(j.call))
  <2>1. Forget \in Steps(j.call)  BY DEF Forget, Step, Steps, Deeds
  <2>2. PICK f : f = Forget  OBVIOUS
  <2>3. <<f>> \in Seq(Steps(j.call)) /\ <<>> \in Seq(Steps(j.call))  BY <2>1, <2>2
  <2>4. QED  BY <2>2, <2>3 DEF When
<1>9. plan' = Plan(subject.mapper, j.call, Situation) \o When(j.call = "delete", <<Forget>>)
  BY <1>1 DEF Begin
<1>10. plan' \in Seq(Steps(j.call))  BY <1>7, <1>8, <1>9, ConcatProperties
<1>11. JobInv'  BY <1>5, <1>10 DEF JobInv
<1>12. UNCHANGED <<subject, row, mem, cloud, stray, ready, pass, again, faults, helped>>
  BY DEF Begin
<1>13. QED  BY <1>2, <1>11, <1>12 DEF TypeInv, Traits

\* lazyLoader's steps, sync, and what goes on elsewhere.
LEMMA OthersTyped ==
  ASSUME TypeInv, HandlersTyped,
         \/ Finish \/ Rerun \/ Halt \/ Sync \/ Overlook \/ Appear \/ Done \/ UNCHANGED vars
         \/ \E c \in Copy : Settle(c)
  PROVE  TypeInv'
<1>1. CASE Finish
  <2>1. UNCHANGED <<subject, row, mem, cloud, stray, ready, pass, queue, again, plan,
                    faults, helped>> /\ JobInv'
    BY <1>1 DEF Finish, JobInv
  <2>2. QED  BY <2>1 DEF TypeInv, Traits
<1>2. CASE Rerun
  <2>1. /\ queue' = again /\ again' = <<>> /\ pass' = [pass EXCEPT !.size = Len(again)]
        /\ UNCHANGED <<subject, row, mem, cloud, stray, ready, job, plan, faults>>
    BY <1>2 DEF Rerun
  <2>2. helped' \in 0 .. MaxHelp  BY <1>2, RunAssumption DEF Rerun, TypeInv
  <2>3. Len(again) \in Nat /\ pass \in Pass  BY DEF TypeInv
  <2>4. pass' \in Pass  BY <2>1, <2>3 DEF Pass
  <2>5. again' \in Seq(Tasks) /\ JobInv'  BY <2>1 DEF TypeInv, JobInv
  <2>6. QED  BY <2>1, <2>2, <2>4, <2>5 DEF TypeInv, Traits
<1>3. CASE Halt
  <2>1. /\ again' = <<>>
        /\ UNCHANGED <<subject, row, mem, cloud, stray, ready, queue, job, plan, faults, helped>>
    BY <1>3 DEF Halt
  <2>2. Len(again) \in Nat /\ pass \in Pass  BY DEF TypeInv
  <2>3. pass' \in Pass
    <3>1. CASE Thrown(pass.refused)  BY <3>1, ThrownTyped
    <3>2. CASE pass' = Outer(pass.counts, pass.spin, Len(again))
      BY <2>2, <3>2 DEF Pass, Outer
    <3>3. QED  BY <1>3, <3>1, <3>2 DEF Halt
  <2>4. again' \in Seq(Tasks) /\ JobInv'  BY <2>1 DEF TypeInv, JobInv
  <2>5. QED  BY <2>1, <2>3, <2>4 DEF TypeInv, Traits
<1>4. CASE Sync
  <2>1. /\ row' \in {row, Synced} /\ mem' = row' /\ stray' \in {stray, Own}
        /\ UNCHANGED <<subject, cloud, ready, queue, again, job, plan, helped>>
    BY <1>4 DEF Sync
  <2>2. row' \in Rows
    <3>1. PICK s : s = Shows(CHOOSE c \in Of(row) : TRUE)  OBVIOUS
    <3>2. s \subseteq Columns  BY <3>1, ColumnsTyped
    <3>3. row \in Rows  BY DEF TypeInv
    <3>4. \/ Synced = [row EXCEPT !.there = FALSE] \/ Synced = row
          \/ Synced = [row EXCEPT !.new = (@ \ Traits.fills) \cup s]
      BY <3>1 DEF Synced
    <3>5. Synced \in Rows  BY <3>2, <3>3, <3>4 DEF Rows
    <3>6. QED  BY <2>1, <3>3, <3>5
  <2>3. pass' \in Pass /\ faults' \in 0 .. MaxFaults
    <3>1. pass \in Pass /\ faults \in 0 .. MaxFaults  BY DEF TypeInv
    <3>2. \/ pass' = pass
          \/ pass' = [pass EXCEPT !.phase = "done"]
          \/ pass' = [pass EXCEPT !.phase = "cut", !.failed = TRUE]
      BY <1>4 DEF Sync
    <3>3. faults' = faults \/ (faults < MaxFaults /\ faults' = faults + 1)  BY <1>4 DEF Sync
    <3>4. pass' \in Pass  BY <3>1, <3>2 DEF Pass
    <3>5. QED  BY <3>1, <3>3, <3>4, RunAssumption
  <2>4. stray' \subseteq Copy /\ JobInv'  BY <2>1, ColumnsTyped DEF TypeInv, JobInv, Own
  <2>5. QED  BY <2>1, <2>2, <2>3, <2>4 DEF TypeInv, Traits
<1>5. CASE Appear \/ Done \/ UNCHANGED vars
  BY <1>5 DEF Appear, Done, vars, TypeInv, JobInv, Traits
<1>6. CASE \E c \in Copy : Settle(c)
  <2>1. PICK c \in Copy : Settle(c)  BY <1>6
  <2>2. /\ UNCHANGED <<subject, row, mem, stray, ready, pass, queue, again, job, plan,
                       faults, helped>>
        /\ \E s \in {"up", "gone"} : cloud' = [cloud EXCEPT ![c].stage = s]
    BY <2>1 DEF Settle
  <2>3. cloud' \in [Copy -> Resources]  BY <2>2 DEF TypeInv, Resources, Stage
  <2>4. QED  BY <2>2, <2>3 DEF TypeInv, JobInv, Traits
<1>7. CASE Overlook
  <2>1. UNCHANGED <<subject, row, mem, cloud, stray, ready, queue, again, job, plan, helped>>
    BY <1>7 DEF Overlook
  <2>2. PICK m \in SUBSET Copy : pass' = [pass EXCEPT !.missed = m]
    BY <1>7, ColumnsTyped DEF Overlook
  <2>3. faults' = faults \/ (faults < MaxFaults /\ faults' = faults + 1)  BY <1>7 DEF Overlook
  <2>4. pass' \in Pass  BY <2>2 DEF TypeInv, Pass
  <2>5. faults' \in 0 .. MaxFaults  BY <2>3, RunAssumption DEF TypeInv
  <2>6. QED  BY <2>1, <2>4, <2>5 DEF TypeInv, JobInv, Traits
<1>8. QED  BY <1>1, <1>2, <1>3, <1>4, <1>5, <1>6, <1>7

\* A step that only looks keeps what it does not write.
LEMMA JobStays ==
  ASSUME TypeInv, job # Idle, plan # <<>>, Goes, job' = job
  PROVE  JobInv'
  BY DoesTyped, GoesTyped

\* Steps that look, throw or go on.
LEMMA CheckTyped ==
  ASSUME TypeInv, HandlersTyped, Check
  PROVE  TypeInv'
<1>1. UNCHANGED <<subject, row, mem, cloud, stray, ready, queue, faults, helped>>
  BY DEF Check
<1>2. job # Idle /\ plan # <<>>  BY DEF Check, Does
<1>3. pass \in Pass /\ again \in Seq(Tasks)  BY DEF TypeInv
<1>4. JobInv' /\ again' \in Seq(Tasks) /\ pass' \in Pass
  <2>1. CASE Throw(FALSE) \/ Throw(F = {})
    <3>1. PICK r \in BOOLEAN : Throw(r)  BY <2>1
    <3>2. QED  BY <1>2, <3>1, ThrowTyped
  <2>2. CASE Goes /\ UNCHANGED <<job, again>>
             /\ \/ pass' = pass \/ pass' = [pass EXCEPT !.has = FALSE]
                \/ pass' = [pass EXCEPT !.has = TRUE, !.memo = mem.new \cap Column]
    <3>1. mem.new \cap Column \subseteq Columns  BY DEF TypeInv, Rows
    <3>2. pass' \in Pass  BY <1>3, <2>2, <3>1 DEF Pass
    <3>3. QED  BY <1>2, <1>3, <2>2, <3>2, JobStays
  <2>3. CASE plan' = Passed /\ UNCHANGED <<job, again, pass>>
    <3>1. /\ job \in [call : Calls, on : 0 .. Copies, made : 0 .. Copies]
          /\ job.call = "create" <=> job.on = 0
          /\ plan' \in Seq(Steps(job.call))
      BY <1>2, <2>3, DoesTyped, PassedTyped
    <3>2. QED  BY <1>3, <2>3, <3>1 DEF JobInv
  <2>4. \/ Throw(FALSE) \/ Throw(F = {})
        \/ Goes /\ UNCHANGED <<job, again>>
             /\ \/ pass' = pass \/ pass' = [pass EXCEPT !.has = FALSE]
                \/ pass' = [pass EXCEPT !.has = TRUE, !.memo = mem.new \cap Column]
        \/ plan' = Passed /\ UNCHANGED <<job, again, pass>>
    BY DEF Check, Goes
  <2>5. QED  BY <2>1, <2>2, <2>3, <2>4
<1>5. QED  BY <1>1, <1>4 DEF TypeInv, Traits

\* The resource that is made is the next free one, or the one of its name.
LEMMA CreateTyped ==
  ASSUME TypeInv, HandlersTyped, Create
  PROVE  TypeInv'
<1> DEFINE same == {c \in Copy \ {job.on} : Does("once") /\ cloud[c].stage = "up"}
           free == {c \in Copy : cloud[c].stage = "none"}
<1>1. UNCHANGED <<subject, row, mem, stray, ready, queue, faults, helped>>
  BY DEF Create
<1>2. job # Idle /\ plan # <<>>  BY DEF Create, Does
<1>3. /\ pass \in Pass /\ again \in Seq(Tasks) /\ cloud \in [Copy -> Resources]
      /\ mem.new \subseteq Columns
  BY DEF TypeInv, Rows
<1>4. /\ job \in [call : Calls, on : 0 .. Copies, made : 0 .. Copies]
      /\ Copy \subseteq 0 .. Copies
  BY <1>2, DoesTyped, RunAssumption DEF Copy
<1>5. CASE Throw(FALSE) /\ UNCHANGED cloud
  BY <1>1, <1>2, <1>3, <1>5, ThrowTyped DEF TypeInv, Traits
<1>6. CASE /\ same # {}
           /\ job' = [job EXCEPT !.made = CHOOSE c \in same : TRUE]
           /\ Goes /\ UNCHANGED <<cloud, again, pass>>
  <2>1. PICK c : c = CHOOSE k \in same : TRUE  OBVIOUS
  <2>2. c \in same
    <3> HIDE DEF same
    <3>1. QED  BY <1>6, <2>1
  <2>3. c \in 0 .. Copies  BY <1>4, <2>2
  <2>4. job' = [job EXCEPT !.made = c]  BY <1>6, <2>1
  <2>5. JobInv'  BY <1>2, <1>4, <1>6, <2>3, <2>4, GoesTyped
  <2>6. QED  BY <1>1, <1>3, <1>6, <2>5 DEF TypeInv, Traits
<1>7. CASE /\ free # {}
           /\ \E c : /\ c = CHOOSE n \in free : \A k \in free : n <= k
                     /\ cloud' = [k \in Copy |->
                          IF k = c THEN [stage |-> IF "make" \in Traits.slow THEN "making" ELSE "up",
                                         new |-> mem.new \cap F, aside |-> Does("aside")]
                          ELSE IF k = job.on /\ Does("swap") THEN [cloud[k] EXCEPT !.stage = "gone"]
                          ELSE cloud[k]]
                     /\ job' = [job EXCEPT !.made = c]
           /\ Goes /\ UNCHANGED <<again, pass>>
  <2>1. free \subseteq Nat
    <3>1. Copy \subseteq Nat  BY RunAssumption DEF Copy
    <3>2. QED  BY <3>1
  <2>2. \E c \in free : \A k \in free : c <= k
    <3> HIDE DEF free
    <3>1. Min(free) \in free /\ \A k \in free : Min(free) <= k  BY <1>7, <2>1, Least
    <3>2. QED  BY <3>1
  <2>3. PICK c \in free :
          /\ cloud' = [k \in Copy |->
               IF k = c THEN [stage |-> IF "make" \in Traits.slow THEN "making" ELSE "up",
                              new |-> mem.new \cap F, aside |-> Does("aside")]
               ELSE IF k = job.on /\ Does("swap") THEN [cloud[k] EXCEPT !.stage = "gone"]
               ELSE cloud[k]]
          /\ job' = [job EXCEPT !.made = c]
    BY <1>7, <2>2
  <2>4. PICK s \in {"making", "up"}, a \in BOOLEAN, n \in SUBSET Columns :
          cloud' = [k \in Copy |->
               IF k = c THEN [stage |-> s, new |-> n, aside |-> a]
               ELSE IF k = job.on /\ Does("swap") THEN [cloud[k] EXCEPT !.stage = "gone"]
               ELSE cloud[k]]
    <3>1. Does("aside") \in BOOLEAN  BY DEF Does
    <3>2. mem.new \cap F \in SUBSET Columns  BY <1>3
    <3>3. QED  BY <2>3, <3>1, <3>2
  <2>5. cloud' \in [Copy -> Resources]  BY <1>3, <2>4 DEF Resources, Stage
  <2>6. JobInv'
    <3>1. c \in 0 .. Copies  BY <1>4
    <3>2. QED  BY <1>2, <1>4, <1>7, <2>3, <3>1, GoesTyped
  <2>7. QED  BY <1>1, <1>3, <1>7, <2>5, <2>6 DEF TypeInv, Traits
<1>8. QED
  <2>1. \/ Throw(FALSE) /\ UNCHANGED cloud
        \/ /\ same # {}
           /\ job' = [job EXCEPT !.made = CHOOSE c \in same : TRUE]
           /\ Goes /\ UNCHANGED <<cloud, again, pass>>
        \/ /\ free # {} /\ same = {}
           /\ LET c == CHOOSE n \in free : \A k \in free : n <= k IN
              /\ cloud' = [k \in Copy |->
                   IF k = c THEN [stage |-> IF "make" \in Traits.slow THEN "making" ELSE "up",
                                  new |-> mem.new \cap F, aside |-> Does("aside")]
                   ELSE IF k = job.on /\ Does("swap") THEN [cloud[k] EXCEPT !.stage = "gone"]
                   ELSE cloud[k]]
              /\ job' = [job EXCEPT !.made = c]
              /\ Goes
              /\ UNCHANGED <<again, pass>>
    BY DEF Create
  <2>2. QED  BY <1>5, <1>6, <1>7, <2>1

\* Columns that a handler sets or clears are columns.
LEMMA ModifyTyped ==
  ASSUME TypeInv, HandlersTyped, Modify
  PROVE  TypeInv'
<1>1. UNCHANGED <<subject, row, mem, stray, ready, pass, queue, again, job, faults, helped>>
  BY DEF Modify
<1>2. job # Idle /\ plan # <<>> /\ Goes  BY DEF Modify, Does
<1>3. Head(plan).do = "clear" => F \subseteq Columns  BY <1>2, DoesTyped DEF Steps, F
<1>4. mem.new \subseteq Columns /\ cloud \in [Copy -> Resources]  BY DEF TypeInv, Rows
<1>5. cloud' \in [Copy -> Resources]
  <2>1. CASE Does("set") /\ cloud' = [cloud EXCEPT ![Target].new = (@ \ F) \cup (mem.new \cap F)]
    BY <1>4, <2>1 DEF Resources
  <2>2. CASE Does("clear") /\ cloud' = [cloud EXCEPT ![Target].new = (@ \ F) \cup (F \ mem.new)]
    <3>1. F \subseteq Columns  BY <1>3, <2>2 DEF Does
    <3>2. QED  BY <1>4, <2>2, <3>1 DEF Resources
  <2>3. QED  BY <2>1, <2>2 DEF Modify
<1>6. JobInv'  BY <1>1, <1>2, JobStays
<1>7. QED  BY <1>1, <1>5, <1>6 DEF TypeInv, Traits

LEMMA DeleteTyped ==
  ASSUME TypeInv, HandlersTyped, Delete
  PROVE  TypeInv'
<1>1. UNCHANGED <<subject, row, mem, stray, ready, queue, faults, helped>>
  BY DEF Delete
<1>2. job # Idle /\ plan # <<>>  BY DEF Delete, Does
<1>3. cloud' \in [Copy -> Resources]
  <2>1. CASE cloud' = cloud  BY <2>1 DEF TypeInv
  <2>2. CASE \E s \in {"leaving", "gone"} : cloud' = [cloud EXCEPT ![job.on].stage = s]
    BY <2>2 DEF TypeInv, Resources, Stage
  <2>3. QED  BY <2>1, <2>2 DEF Delete
<1>4. JobInv' /\ again' \in Seq(Tasks) /\ pass' \in Pass
  <2>1. CASE Throw(FALSE)  BY <1>2, <2>1, ThrowTyped
  <2>2. CASE Goes /\ UNCHANGED <<job, again, pass>>
    BY <1>2, <2>2, JobStays DEF TypeInv
  <2>3. QED  BY <2>1, <2>2 DEF Delete
<1>5. QED  BY <1>1, <1>3, <1>4 DEF TypeInv, Traits

\* A row of its own is only made in handlers of what is there already.
LEMMA WriteTyped ==
  ASSUME TypeInv, HandlersTyped, Write
  PROVE  TypeInv'
<1>1. UNCHANGED <<subject, cloud, ready, pass, queue, again, job, faults, helped>>
  BY DEF Write
<1>2. job # Idle /\ plan # <<>> /\ Goes  BY DEF Write, Does
<1>3. /\ job \in [call : Calls, on : 0 .. Copies, made : 0 .. Copies]
      /\ job.call = "create" <=> job.on = 0
      /\ Head(plan) \in Steps(job.call)
  BY <1>2, DoesTyped
<1>4. row \in Rows /\ mem \in Rows /\ pass.memo \subseteq Columns
  BY DEF TypeInv, Pass
<1>5. Copy \subseteq 0 .. Copies  BY RunAssumption DEF Copy
<1>6. Target \in 0 .. Copies /\ (job.on # 0 => Target \in Copy)
  <2>1. CASE job.made # 0  BY <1>3, <2>1, RunAssumption DEF Target, Copy
  <2>2. CASE job.made = 0 /\ (job.on # 0 \/ Existing = {})
    BY <1>3, <2>2, RunAssumption DEF Target, Copy
  <2>3. CASE job.made = 0 /\ job.on = 0 /\ Existing # {}
    <3>1. Target \in Existing  BY <2>3 DEF Target
    <3>2. QED  BY <1>5, <2>3, <3>1 DEF Existing
  <2>4. QED  BY <2>1, <2>2, <2>3
<1>7. \A c : Shows(c) \subseteq Columns  BY ColumnsTyped
<1>8. Saved \in Rows
  <2>1. (Shows(Target) \ F) \cup (mem.new \cap F) \subseteq Columns  BY <1>4, <1>7 DEF Rows
  <2>2. QED  BY <1>4, <1>6, <2>1 DEF Saved, Rows
<1>9. row' \in Rows /\ mem' \in Rows
  <2>1. CASE row' \in {row, Saved} /\ mem' \in {row', mem}  BY <1>4, <1>8, <2>1
  <2>2. CASE row' = [row EXCEPT !.on = Target] /\ mem' = [mem EXCEPT !.on = Target]
    BY <1>4, <1>6, <2>2 DEF Rows
  <2>3. CASE row' = [row EXCEPT !.on = job.on, !.new = pass.memo] /\ mem' = row'
    BY <1>3, <1>4, <2>3 DEF Rows
  <2>4. CASE mem' = [mem EXCEPT !.on = Target, !.new = Shows(Target)] /\ row' = row
    BY <1>4, <1>6, <1>7, <2>4 DEF Rows
  <2>5. CASE mem' = [mem EXCEPT !.on = job.on, !.new = (pass.memo \ F) \cup (mem.new \cap F)]
             /\ row' = row
    <3>1. (pass.memo \ F) \cup (mem.new \cap F) \subseteq Columns  BY <1>4 DEF Rows
    <3>2. QED  BY <1>3, <1>4, <2>5, <3>1 DEF Rows
  <2>6. CASE row' = [there |-> TRUE, on |-> job.on, new |-> Shows(job.on)] /\ mem' = row'
    BY <1>3, <1>7, <2>6 DEF Rows
  <2>7. CASE row' = [row EXCEPT !.there = FALSE] /\ mem' = row'  BY <1>4, <2>7 DEF Rows
  <2>8. QED  BY <2>1, <2>2, <2>3, <2>4, <2>5, <2>6, <2>7 DEF Write
<1>10. stray' \subseteq Copy
  <2>1. CASE Does("another")
    <3>1. job.call # "create"  BY <1>3, <2>1 DEF Does, Steps
    <3>2. stray' = stray \cup {Target}  BY <2>1 DEF Write
    <3>3. QED  BY <1>3, <1>6, <3>1, <3>2 DEF TypeInv
  <2>2. CASE ~Does("another")  BY <2>2 DEF Write, TypeInv
  <2>3. QED  BY <2>1, <2>2
<1>11. JobInv'  BY <1>1, <1>2, JobStays
<1>12. QED  BY <1>1, <1>9, <1>10, <1>11 DEF TypeInv, Traits

\* Calls that fail, or find nothing.
LEMMA FailsTyped ==
  ASSUME TypeInv, HandlersTyped, Fails
  PROVE  TypeInv'
<1>1. /\ UNCHANGED <<subject, row, mem, cloud, stray, ready, queue, helped>>
      /\ job # Idle /\ plan # <<>> /\ faults < MaxFaults /\ faults' = faults + 1
  BY DEF Fails
<1>2. faults' \in 0 .. MaxFaults  BY <1>1, RunAssumption DEF TypeInv
<1>3. JobInv' /\ again' \in Seq(Tasks) /\ pass' \in Pass
  <2>1. CASE Throw(FALSE)  BY <1>1, <2>1, ThrowTyped
  <2>2. CASE plan' = Passed /\ UNCHANGED <<job, again, pass>>
    <3>1. /\ job \in [call : Calls, on : 0 .. Copies, made : 0 .. Copies]
          /\ job.call = "create" <=> job.on = 0
          /\ plan' \in Seq(Steps(job.call))
      BY <1>1, <2>2, DoesTyped, PassedTyped
    <3>2. QED  BY <2>2, <3>1 DEF TypeInv, JobInv
  <2>3. CASE Goes /\ UNCHANGED <<job, again, pass>>
    BY <1>1, <2>3, JobStays DEF TypeInv
  <2>4. QED  BY <2>1, <2>2, <2>3 DEF Fails
<1>4. QED  BY <1>1, <1>2, <1>3 DEF TypeInv, Traits

LEMMA WaitTyped ==
  ASSUME TypeInv, HandlersTyped, Wait
  PROVE  TypeInv'
<1>1. /\ UNCHANGED <<subject, row, mem, cloud, stray, ready, pass, queue, again, job,
                     faults, helped>>
      /\ job # Idle /\ plan # <<>> /\ Goes
  BY DEF Wait, Does
<1>2. JobInv'  BY <1>1, JobStays
<1>3. QED  BY <1>1, <1>2 DEF TypeInv, Traits

\* TypeInv is inductive.
LEMMA TypedStep ==
  ASSUME TypeInv, HandlersTyped, [Next]_vars
  PROVE  TypeInv'
<1>1. CASE Round \/ Begin  BY <1>1, RoundTyped, BeginTyped
<1>2. CASE Handler
  BY <1>2, CheckTyped, CreateTyped, ModifyTyped, DeleteTyped, WaitTyped, WriteTyped DEF Handler
<1>3. CASE Fails  BY <1>3, FailsTyped
<1>4. QED  BY <1>1, <1>2, <1>3, OthersTyped DEF Next, Commit

\* The types of apply's and lazyLoader's variables: rows, memos and resources have
\* only columns of the mapper's, jobs are for resources there could be, and what a
\* handler goes on with, after a failure, in a catch block or behind a call of
\* another handler (Throw, Passed), are steps of Plans (apply in iasql.ts, lazyLoader
\* in lazy-dep.ts).
THEOREM TypeCorrect ==
  ASSUME HandlersTyped
  PROVE  Spec => []TypeOK
<1>1. Init => TypeInv  BY InitTyped
<1>2. TypeInv /\ [Next]_vars => TypeInv'  BY TypedStep
<1>3. TypeInv => TypeOK
  <2> SUFFICES ASSUME TypeInv PROVE TypeOK  OBVIOUS
  <2>1. queue \in Seq(Job) /\ again \in Seq(Job)
    <3>1. Tasks \subseteq Job  BY DEF Tasks
    <3>2. QED  BY <3>1, SeqMonotonic DEF TypeInv
  <2>2. \A i \in DOMAIN plan : plan[i].do \in Deeds
    <3>1. CASE plan = <<>>  BY <3>1
    <3>2. CASE plan \in Seq(Steps(job.call))
      <4>1. \A i \in DOMAIN plan : plan[i] \in Steps(job.call)  BY <3>2
      <4>2. QED  BY <4>1 DEF Steps
    <3>3. QED  BY <3>1, <3>2 DEF TypeInv, JobInv
  <2>3. job = Idle \/ (job.call \in Calls /\ job.on \in 0 .. Copies /\ job.made \in 0 .. Copies)
    BY DEF TypeInv, JobInv
  <2>4. row \in Rows /\ mem \in Rows /\ cloud \in [Copy -> Resources]  BY DEF TypeInv
  <2>5. \A e \in {row, mem} : e.there \in BOOLEAN /\ e.on \in 0 .. Copies  BY <2>4 DEF Rows
  <2>6. \A c \in Copy : cloud[c].stage \in Stage /\ cloud[c].aside \in BOOLEAN
    BY <2>4 DEF Resources
  <2>7. row.new \cup mem.new \cup UNION {cloud[c].new : c \in Copy} \subseteq Columns
    BY <2>4 DEF Rows, Resources
  <2>8. QED  BY <2>1, <2>2, <2>3, <2>5, <2>6, <2>7 DEF TypeInv, TypeOK
<1>4. QED  BY <1>1, <1>2, <1>3, HandlersTyped, PTL DEF Spec

-----------------------------------------------------------------------------
(* Resources that AWS does not let go.                                     *)

\* What this rests on.
BuiltInsLeft == \A m \in Mapper : LeavesBuiltIns(m)

Kept == subject.does = "remove" /\ Protected /\ ~Traits.omits
Removal == [call |-> "delete", on |-> 1]

\* A full read that cannot leave a resource out does not.
ListsAll == Traits.omits \/ pass.missed = {}

\* The resource is as it was, and a row is that resource's.
AsItWas ==
  /\ cloud[1].stage = "up" /\ cloud[1].new = {}
  /\ \A c \in Copy \ {1} : cloud[c].stage = "none"
Same(e) == e.new = {} /\ (e.there => e.on = 1)

\* lazyLoader has nothing to do but the resource's deletion.
Removing ==
  /\ queue \in Seq({Removal}) /\ again \in Seq({Removal})
  /\ \/ job = Idle /\ plan = <<>>
     \/ job = [call |-> "delete", on |-> 1, made |-> 0] /\ plan \in Seq(Gentle)

\* If apply agrees on something, it is on a row of the resource.
BuiltInInv ==
  Kept =>
    /\ AsItWas /\ Same(row) /\ Same(mem) /\ pass.memo = {}
    /\ Applying => stray = {}
    /\ Removing
    /\ ~Applying /\ ~pass.failed => row.there

LEMMA BuiltInInit == Init => BuiltInInv
<1> SUFFICES ASSUME Init, Kept PROVE BuiltInInv  BY DEF BuiltInInv
<1>1. Copies \in Nat \ {0} /\ 1 \in Copy  BY RunAssumption DEF Copy
<1>2. subject.does = "remove" /\ subject.intent = {}  BY DEF Init, Kept
<1>3. row = [there |-> FALSE, new |-> {}, on |-> 0] /\ mem = row
  BY <1>2 DEF Init, Written
<1>4. cloud = [c \in Copy |-> [stage |-> IF c = 1 THEN "up" ELSE "none",
                               new |-> {}, aside |-> FALSE]]
  BY <1>2 DEF Init
<1>5. AsItWas  BY <1>1, <1>4 DEF AsItWas
<1>6. pass.memo = {} /\ pass.phase = "changed"  BY DEF Init, Fresh
<1>7. Same(row) /\ Same(mem)  BY <1>3 DEF Same
<1>8. Removing /\ stray = {}  BY DEF Init, Removing
<1>9. QED  BY <1>5, <1>6, <1>7, <1>8 DEF BuiltInInv, Applying

\* What apply finds while the resource is as it was.
LEMMA BuiltInShown ==
  ASSUME TypeInv, ListsAll, BuiltInsLeft, Kept, AsItWas
  PROVE  /\ 1 \in Copy /\ Shown = {1} /\ Shows(1) = {}
         /\ \A e : Same(e) => Of(e) = IF e.there THEN {1} ELSE {}
<1>1. 1 \in Copy  BY RunAssumption DEF Copy
<1>2. "up" \in Traits.seen /\ "none" \notin Traits.seen
  BY DEF TypeInv, BuiltInsLeft, LeavesBuiltIns, Kept, Protected, Traits
<1>3. pass.missed = {}  BY DEF ListsAll, Kept
<1>4. Shown = {1}  BY <1>1, <1>2, <1>3 DEF Shown, AsItWas
<1>5. QED  BY <1>1, <1>4 DEF Shows, AsItWas, Of, Same

LEMMA BuiltInDiffers ==
  ASSUME TypeInv, ListsAll, BuiltInsLeft, BuiltInInv, Kept, Applying
  PROVE  /\ Same(Entity) /\ ~InDbOnly /\ Changed = {} /\ InAwsOnly \subseteq {1}
         /\ InAwsOnly = {} => Entity.there
<1>1. AsItWas /\ stray = {} /\ Same(Entity)  BY DEF BuiltInInv, Entity
<1>2. 1 \in Copy /\ Shown = {1} /\ Shows(1) = {}  BY <1>1, BuiltInShown
<1>3. Of(Entity) = IF Entity.there THEN {1} ELSE {}  BY <1>1, BuiltInShown
<1>4. ~InDbOnly  BY <1>3 DEF InDbOnly
<1>5. Changed = {}  BY <1>1, <1>2, <1>3 DEF Changed, Same
<1>6. 1 \in Relevant
  <2>1. 1 \in 0 .. Copies  BY <1>2, RunAssumption DEF Copy
  <2>2. subject.does # "insert"  BY DEF Kept
  <2>3. QED  BY <2>1, <2>2 DEF Relevant
<1>7. InAwsOnly \subseteq {1} /\ (InAwsOnly = {} => Entity.there)
  BY <1>1, <1>2, <1>3, <1>6 DEF InAwsOnly
<1>8. QED  BY <1>1, <1>4, <1>5, <1>7

\* A step that alters neither the rows nor the cloud.
LEMMA BuiltInStays ==
  ASSUME BuiltInInv, Applying', Applying, pass'.memo = pass.memo, Kept => Removing',
         UNCHANGED <<subject, row, mem, cloud, stray>>
  PROVE  BuiltInInv'
  BY DEF BuiltInInv, Kept, Protected, Traits, AsItWas, Same, Copy

\* The one job there is.
LEMMA RemovalOnly ==
  ASSUME ~InDbOnly, Changed = {}, InAwsOnly \subseteq {1}
  PROVE  Jobs \in Seq({Removal})
<1> DEFINE updates == {[call |-> "update", on |-> c] : c \in Changed}
           deletes == {[call |-> "delete", on |-> c] : c \in InAwsOnly}
<1>1. updates = {} /\ deletes \subseteq {Removal}  BY DEF Removal
<1>2. IsFiniteSet({Removal})  BY FS_Singleton
<1>3. IsFiniteSet(updates) /\ IsFiniteSet(deletes)  BY <1>1, <1>2, FS_Subset
<1> HIDE DEF updates, deletes
<1>4. SetToSeq(updates) \in Seq({Removal}) /\ SetToSeq(deletes) \in Seq({Removal})
  <2>1. SetToSeq(updates) \in Seq(updates) /\ SetToSeq(deletes) \in Seq(deletes)
    BY <1>3, Sequenced
  <2>2. updates \subseteq {Removal}  BY <1>1
  <2>3. QED  BY <1>1, <2>1, <2>2, SeqMonotonic
<1>5. <<>> \in Seq({Removal})  OBVIOUS
<1>6. <<>> \o SetToSeq(updates) \o SetToSeq(deletes) \in Seq({Removal})
  BY <1>4, <1>5, ConcatProperties
<1>7. Jobs = <<>> \o SetToSeq(updates) \o SetToSeq(deletes)
  BY DEF Jobs, updates, deletes
<1>8. QED  BY <1>6, <1>7

\* One turn of the inner loop: if apply returns, the row is there.
LEMMA BuiltInRound ==
  ASSUME RunInv, TypeInv, ListsAll, BuiltInsLeft, BuiltInInv, Round
  PROVE  BuiltInInv'
<1> DEFINE seen == IF Of(Entity) = {} THEN {} ELSE Shows(CHOOSE c \in Of(Entity) : TRUE)
<1>1. /\ mem' = Entity /\ Between /\ Applying
      /\ UNCHANGED <<subject, row, cloud, stray, ready, again, job, plan, helped>>
  BY DEF Round
<1> SUFFICES ASSUME Kept PROVE BuiltInInv'
  BY <1>1 DEF BuiltInInv, Kept, Protected, Traits
<1>2. Applying  BY <1>1
<1>3. /\ Same(Entity) /\ ~InDbOnly /\ Changed = {} /\ InAwsOnly \subseteq {1}
      /\ InAwsOnly = {} => Entity.there
  BY <1>2, BuiltInDiffers
<1>4. /\ AsItWas /\ Same(row) /\ stray = {} /\ Removing /\ pass.memo = {}
  BY <1>2 DEF BuiltInInv
<1>5. (AsItWas /\ Same(row) /\ Same(mem))' /\ stray' = {}
  BY <1>1, <1>3, <1>4 DEF AsItWas, Same, Copy
<1>6. pass \in Pass  BY DEF TypeInv
<1>7. CASE /\ ~Differs /\ UNCHANGED queue
           /\ pass' = IF pass.ran
                      THEN Outer(Counts, Spun, pass.fails)
                      ELSE [Fresh("sync", FALSE) EXCEPT !.refused = pass.refused]
  <2>1. Entity.there  BY <1>3, <1>7 DEF Differs
  <2>2. ~pass.ran => row.there  BY <1>1, <2>1 DEF RunInv, Reread, Entity
  <2>3. pass'.memo = {}  BY <1>4, <1>6, <1>7 DEF Pass, Fresh, Outer
  <2>4. ~Applying' => row.there
    <3>1. CASE pass.ran
      <4>1. pass'.phase = pass.phase  BY <1>6, <1>7, <3>1 DEF Pass, Outer
      <4>2. QED  BY <1>1, <4>1 DEF Applying
    <3>2. CASE ~pass.ran  BY <2>2, <3>2
    <3>3. QED  BY <3>1, <3>2
  <2>5. Removing'  BY <1>1, <1>4, <1>7 DEF Removing
  <2>6. QED  BY <1>1, <1>5, <2>3, <2>4, <2>5 DEF BuiltInInv
<1>8. CASE Thrown(pass.refused) /\ UNCHANGED queue
  <2>1. pass'.memo = {}  BY <1>8 DEF Thrown, Fresh
  <2>2. Applying' \/ pass'.failed  BY <1>1, <1>8, ThrownShape DEF Applying
  <2>3. Removing'  BY <1>1, <1>4, <1>8 DEF Removing
  <2>4. QED  BY <1>5, <2>1, <2>2, <2>3 DEF BuiltInInv
<1>9. CASE /\ queue' = Jobs
           /\ pass' = [pass EXCEPT !.load = FALSE, !.ran = TRUE,
                                   !.counts = Counts, !.spin = Spun,
                                   !.size = Len(Jobs), !.memo = seen, !.has = TRUE]
  <2>1. seen = {}
    <3>1. Of(Entity) = {} \/ Of(Entity) = {1}  BY <1>3, <1>4, BuiltInShown
    <3>2. Shows(1) = {}  BY <1>4, BuiltInShown
    <3>3. QED  BY <3>1, <3>2
  <2> HIDE DEF seen
  <2>2. pass'.memo = {} /\ pass'.phase = pass.phase  BY <1>6, <1>9, <2>1 DEF Pass
  <2>3. Jobs \in Seq({Removal})  BY <1>3, RemovalOnly
  <2>4. Removing'  BY <1>1, <1>4, <1>9, <2>3 DEF Removing
  <2>5. Applying'  BY <1>1, <2>2 DEF Applying
  <2>6. QED  BY <1>5, <2>2, <2>4, <2>5 DEF BuiltInInv
<1>10. QED  BY <1>7, <1>8, <1>9 DEF Round

\* lazyLoader's turns, and sync.
LEMMA BuiltInLoader ==
  ASSUME RunInv, TypeInv, ListsAll, BuiltInsLeft, BuiltInInv, Begin \/ Finish \/ Rerun \/ Halt
  PROVE  BuiltInInv'
<1>1. Applying  BY JobsApply
<1>2. UNCHANGED <<subject, row, mem, cloud, stray>>  BY DEF Begin, Finish, Rerun, Halt
<1> SUFFICES ASSUME Kept PROVE BuiltInInv'
  BY <1>2 DEF BuiltInInv, Kept, Protected, Traits
<1>3. Removing /\ pass.memo = {} /\ pass \in Pass  BY DEF BuiltInInv, TypeInv
<1>4. CASE Begin
  <2>1. PICK j : j = Head(queue)  OBVIOUS
  <2>2. j = Removal /\ queue' \in Seq({Removal})
    BY <1>3, <1>4, <2>1, HeadTailProperties DEF Begin, Removing
  <2>3. job' = [call |-> "delete", on |-> 1, made |-> 0]
    BY <1>4, <2>1, <2>2 DEF Begin, Removal
  <2>4. Situation \in [facts : {subject.facts}, has : BOOLEAN,
                       diff : SUBSET TraitOf(subject.mapper).equals]
    BY <1>3 DEF Situation, Pass, Column, Traits
  <2>5. Plan(subject.mapper, "delete", Situation) \in Seq(Gentle)
    BY <2>4 DEF BuiltInsLeft, LeavesBuiltIns, TypeInv, Traits, Kept, Protected
  <2>6. When(j.call = "delete", <<Forget>>) \in Seq(Gentle)
    <3>1. Forget \in Gentle  BY DEF Forget, Step, Gentle, Deeds
    <3>2. PICK f : f = Forget  OBVIOUS
    <3>3. <<f>> \in Seq(Gentle) /\ <<>> \in Seq(Gentle)  BY <3>1, <3>2
    <3>4. QED  BY <3>2, <3>3 DEF When
  <2>7. plan' = Plan(subject.mapper, "delete", Situation) \o When(j.call = "delete", <<Forget>>)
    <3>1. plan' = Plan(subject.mapper, j.call, Situation) \o When(j.call = "delete", <<Forget>>)
      BY <1>4, <2>1 DEF Begin
    <3>2. j.call = "delete"  BY <2>2 DEF Removal
    <3>3. QED  BY <3>1, <3>2
  <2>8. plan' \in Seq(Gentle)  BY <2>5, <2>6, <2>7, ConcatProperties
  <2>9. Removing'  BY <1>3, <1>4, <2>2, <2>3, <2>8 DEF Removing, Begin
  <2>10. Applying' /\ pass' = pass  BY <1>1, <1>4 DEF Begin, Applying
  <2>11. QED  BY <1>1, <1>2, <2>9, <2>10, BuiltInStays
<1>5. CASE Finish
  <2>1. Removing'  BY <1>3, <1>5 DEF Finish, Removing
  <2>2. Applying' /\ pass' = pass  BY <1>1, <1>5 DEF Finish, Applying
  <2>3. QED  BY <1>1, <1>2, <2>1, <2>2, BuiltInStays
<1>6. CASE Rerun
  <2>1. Removing'  BY <1>3, <1>6 DEF Rerun, Removing
  <2>2. pass' = [pass EXCEPT !.size = Len(again)]  BY <1>6 DEF Rerun
  <2>3. Applying' /\ pass'.memo = pass.memo  BY <1>1, <1>3, <2>2 DEF Applying, Pass
  <2>4. QED  BY <1>1, <1>2, <2>1, <2>3, BuiltInStays
<1>7. CASE Halt
  <2>1. Removing'  BY <1>3, <1>7 DEF Halt, Removing
  <2>2. CASE Thrown(pass.refused)
    <3>1. pass'.memo = {} /\ (Applying' \/ pass'.failed)
      BY <1>1, <2>2, ThrownShape DEF Thrown, Fresh, Applying
    <3>2. stray = {} /\ AsItWas /\ Same(row) /\ Same(mem)  BY <1>1 DEF BuiltInInv
    <3>3. stray' = {} /\ (AsItWas /\ Same(row) /\ Same(mem))'
      BY <1>2, <3>2 DEF AsItWas, Same, Copy
    <3>4. QED  BY <2>1, <3>1, <3>3 DEF BuiltInInv
  <2>3. CASE pass' = Outer(pass.counts, pass.spin, Len(again))
    <3>1. Applying' /\ pass'.memo = pass.memo  BY <1>1, <1>3, <2>3 DEF Applying, Pass, Outer
    <3>2. QED  BY <1>1, <1>2, <2>1, <3>1, BuiltInStays
  <2>4. QED  BY <1>7, <2>2, <2>3 DEF Halt
<1>8. QED  BY <1>4, <1>5, <1>6, <1>7

LEMMA BuiltInSync ==
  ASSUME RunInv, TypeInv, ListsAll, BuiltInsLeft, BuiltInInv, Sync
  PROVE  BuiltInInv'
<1>1. /\ pass.phase = "sync" /\ row' \in {row, Synced} /\ mem' = row'
      /\ UNCHANGED <<subject, cloud, queue, again, job, plan>>
      /\ \/ pass' = pass
         \/ pass' = [pass EXCEPT !.phase = "done"]
         \/ pass' = [pass EXCEPT !.phase = "cut", !.failed = TRUE]
  BY DEF Sync
<1> SUFFICES ASSUME Kept PROVE BuiltInInv'
  BY <1>1 DEF BuiltInInv, Kept, Protected, Traits
<1>2. AsItWas /\ Same(row) /\ Removing /\ pass.memo = {} /\ (~pass.failed => row.there)
  BY <1>1 DEF BuiltInInv, Applying
<1>3. pass \in Pass /\ row \in Rows  BY DEF TypeInv
<1>4. Shows(1) = {} /\ Of(row) = IF row.there THEN {1} ELSE {}  BY <1>2, BuiltInShown
<1>5. Same(Synced) /\ Synced.there = row.there
  <2>1. CASE row.there
    <3>1. Of(row) = {1} /\ (CHOOSE c \in Of(row) : TRUE) = 1  BY <1>4, <2>1
    <3>2. row.new = {}  BY <1>2 DEF Same
    <3>3. Synced = row  BY <1>4, <3>1, <3>2 DEF Synced
    <3>4. QED  BY <1>2, <3>3
  <2>2. CASE ~row.there
    <3>1. Synced = [row EXCEPT !.there = FALSE]  BY <1>4, <2>2 DEF Synced
    <3>2. QED  BY <1>2, <1>3, <2>2, <3>1 DEF Same, Rows
  <2>3. QED  BY <2>1, <2>2
<1>6. Same(row') /\ row'.there = row.there  BY <1>1, <1>2, <1>5
<1>7. pass'.memo = {} /\ ~Applying' /\ (~pass'.failed => ~pass.failed)
  BY <1>1, <1>2, <1>3 DEF Pass, Applying
<1>8. (AsItWas /\ Removing)'  BY <1>1, <1>2 DEF AsItWas, Removing, Copy
<1>9. (Same(row) /\ Same(mem))'  BY <1>1, <1>6 DEF Same
<1>10. QED  BY <1>2, <1>6, <1>7, <1>8, <1>9 DEF BuiltInInv

\* A handler that throws is run again; one that goes on has gentle steps left.
LEMMA GentleThrow ==
  ASSUME Removing, job # Idle, NEW r, Throw(r), queue' = queue, pass \in Pass
  PROVE  Removing' /\ pass'.memo = pass.memo /\ pass'.phase = pass.phase
<1>1. job = [call |-> "delete", on |-> 1, made |-> 0] /\ plan \in Seq(Gentle)
  BY DEF Removing
<1>2. CASE CatchAt(plan) # {}
  <2>1. plan' = Behind(plan, CatchAt(plan)) /\ UNCHANGED <<job, again, pass>>
    BY <1>2 DEF Throw
  <2>2. CatchAt(plan) \subseteq 1 .. Len(plan)  BY DEF CatchAt
  <2>3. plan' \in Seq(Gentle)  BY <1>1, <1>2, <2>1, <2>2, BehindTyped
  <2>4. QED  BY <1>1, <2>1, <2>3 DEF Removing
<1>3. CASE CatchAt(plan) = {}
  <2>1. /\ plan' = <<>> /\ job' = Idle
        /\ again' = Append(again, [call |-> job.call, on |-> job.on])
        /\ pass' = [pass EXCEPT !.refused = @ \/ r]
    BY <1>3 DEF Throw
  <2>2. again' = Append(again, Removal)  BY <1>1, <2>1 DEF Removal
  <2>3. again' \in Seq({Removal})  BY <2>2, AppendProperties DEF Removing
  <2>4. pass'.memo = pass.memo /\ pass'.phase = pass.phase  BY <2>1 DEF Pass
  <2>5. QED  BY <2>1, <2>3, <2>4 DEF Removing
<1>4. QED  BY <1>2, <1>3

LEMMA GentleGoes ==
  ASSUME Removing, job # Idle, plan # <<>>, Goes \/ plan' = Passed,
         UNCHANGED <<queue, again, job>>
  PROVE  Removing'
<1>1. job = [call |-> "delete", on |-> 1, made |-> 0] /\ plan \in Seq(Gentle)
  BY DEF Removing
<1>2. plan' \in Seq(Gentle)
  <2>1. Tail(plan) \in Seq(Gentle)  BY <1>1, HeadTailProperties
  <2>2. Passed \in Seq(Gentle)  BY <1>1, PassedTyped
  <2>3. QED  BY <2>1, <2>2 DEF Goes
<1>3. QED  BY <1>1, <1>2 DEF Removing

\* What the step a handler of the deletion is at can be, and be about.
LEMMA GentleStep ==
  ASSUME Removing, job # Idle, plan # <<>>
  PROVE  /\ job.made = 0 /\ job.on = 1 /\ Target = 1
         /\ \A d \in {"make", "aside", "once", "swap", "drop", "clear", "another"} : ~Does(d)
<1>1. job = [call |-> "delete", on |-> 1, made |-> 0] /\ plan \in Seq(Gentle)
  BY DEF Removing
<1>2. Head(plan) \in Gentle  BY <1>1, HeadTailProperties
<1>3. \A d \in {"make", "aside", "once", "swap", "drop", "clear", "another"} : ~Does(d)
  BY <1>2 DEF Does, Gentle
<1>4. job.made = 0 /\ job.on = 1  BY <1>1
<1>5. Target = 1  BY <1>4 DEF Target
<1>6. QED  BY <1>3, <1>4, <1>5

\* What it writes is the resource's row, or none.
LEMMA BuiltInWrites ==
  ASSUME TypeInv, ListsAll, BuiltInsLeft, Kept, AsItWas, Same(row), Same(mem), pass.memo = {},
         Removing, job # Idle, plan # <<>>, Write
  PROVE  (Same(row) /\ Same(mem))'
<1>1. row \in Rows /\ mem \in Rows  BY DEF TypeInv
<1>2. job.made = 0 /\ job.on = 1 /\ Target = 1  BY GentleStep
<1>3. Shows(1) = {}  BY BuiltInShown
<1>4. row.new = {} /\ mem.new = {}  BY DEF Same
<1>5. Saved = [row EXCEPT !.on = 1, !.new = {}]
  <2>1. (Shows(1) \ F) \cup (mem.new \cap F) = {}  BY <1>3, <1>4
  <2>2. QED  BY <1>2, <2>1 DEF Saved
<1>6. Same(Saved)  BY <1>1, <1>5 DEF Same, Rows
<1>7. CASE row' \in {row, Saved} /\ mem' \in {row', mem}  BY <1>6, <1>7 DEF Same
<1>8. CASE row' = [row EXCEPT !.on = Target] /\ mem' = [mem EXCEPT !.on = Target]
  BY <1>1, <1>2, <1>4, <1>8 DEF Same, Rows
<1>9. CASE row' = [row EXCEPT !.on = job.on, !.new = pass.memo] /\ mem' = row'
  BY <1>1, <1>2, <1>9 DEF Same, Rows
<1>10. CASE mem' = [mem EXCEPT !.on = job.on, !.new = (pass.memo \ F) \cup (mem.new \cap F)]
            /\ row' = row
  <2>1. (pass.memo \ F) \cup (mem.new \cap F) = {}  BY <1>4
  <2>2. mem' = [mem EXCEPT !.on = 1, !.new = {}]  BY <1>2, <1>10, <2>1
  <2>3. QED  BY <1>1, <1>10, <2>2 DEF Same, Rows
<1>11. CASE row' = [there |-> TRUE, on |-> job.on, new |-> Shows(job.on)] /\ mem' = row'
  BY <1>2, <1>3, <1>11 DEF Same
<1>12. CASE row' = [row EXCEPT !.there = FALSE] /\ mem' = row'
  BY <1>1, <1>4, <1>12 DEF Same, Rows
<1>13. QED  BY <1>2, <1>7, <1>8, <1>9, <1>10, <1>11, <1>12 DEF Write

\* The handler's steps.
LEMMA BuiltInHandler ==
  ASSUME RunInv, TypeInv, ListsAll, BuiltInsLeft, BuiltInInv, Handler \/ Fails
  PROVE  BuiltInInv'
<1>1. Applying  BY JobsApply
<1>2. job # Idle /\ plan # <<>>
  BY DEF Handler, Check, Create, Modify, Delete, Wait, Write, Does, Fails
<1>3. UNCHANGED <<subject, queue>>
  BY DEF Handler, Check, Create, Modify, Delete, Wait, Write, Fails
<1> SUFFICES ASSUME Kept PROVE BuiltInInv'
  BY <1>3 DEF BuiltInInv, Kept, Protected, Traits
<1>4. /\ AsItWas /\ Same(row) /\ Same(mem) /\ pass.memo = {} /\ stray = {} /\ Removing
      /\ pass \in Pass
  BY <1>1 DEF BuiltInInv, TypeInv
<1>5. /\ job.made = 0 /\ job.on = 1 /\ Target = 1 /\ ~Does("another")
      /\ ~Create /\ ~Delete /\ ~Does("clear")
  BY <1>2, <1>4, GentleStep DEF Create, Delete
<1>6. CASE Check
  <2>1. UNCHANGED <<subject, row, mem, cloud, stray, queue>>  BY <1>6 DEF Check
  <2>2. Removing' /\ pass'.memo = pass.memo /\ pass'.phase = pass.phase
    <3>1. CASE Throw(FALSE) \/ Throw(F = {})  BY <1>2, <1>4, <2>1, <3>1, GentleThrow
    <3>2. CASE /\ Goes \/ plan' = Passed
               /\ UNCHANGED <<job, again>>
               /\ \/ pass' = pass \/ pass' = [pass EXCEPT !.has = FALSE]
                  \/ pass' = [pass EXCEPT !.has = TRUE, !.memo = mem.new \cap Column]
      <4>1. mem.new \cap Column = {}  BY <1>4 DEF Same
      <4>2. pass'.memo = pass.memo /\ pass'.phase = pass.phase
        BY <1>4, <3>2, <4>1 DEF Pass
      <4>3. QED  BY <1>2, <1>4, <2>1, <3>2, <4>2, GentleGoes
    <3>3. QED  BY <1>6, <3>1, <3>2 DEF Check, Goes
  <2>3. Applying'  BY <1>1, <2>2 DEF Applying
  <2>4. QED  BY <1>1, <2>1, <2>2, <2>3, BuiltInStays
<1>7. CASE Modify
  <2>1. /\ Goes /\ UNCHANGED <<subject, row, mem, stray, pass, queue, again, job>>
        /\ cloud' = [cloud EXCEPT ![1].new = (@ \ F) \cup (mem.new \cap F)]
    BY <1>5, <1>7 DEF Modify
  <2>2. cloud \in [Copy -> Resources] /\ 1 \in Copy
    BY RunAssumption DEF TypeInv, Copy
  <2>3. AsItWas'
    <3>1. cloud[1].new = {} /\ mem.new = {}  BY <1>4 DEF AsItWas, Same
    <3>2. PICK n : n = (cloud[1].new \ F) \cup (mem.new \cap F)  OBVIOUS
    <3>3. n = {}  BY <3>1, <3>2
    <3>4. cloud' = [cloud EXCEPT ![1].new = n]  BY <2>1, <3>2
    <3>5. QED  BY <1>4, <2>2, <3>3, <3>4 DEF AsItWas, Resources, Copy
  <2>4. Removing'  BY <1>2, <1>4, <2>1, GentleGoes
  <2>5. (Same(row) /\ Same(mem) /\ stray = {} /\ pass.memo = {} /\ Applying)'
    BY <1>1, <1>4, <2>1 DEF Same, Applying
  <2>6. QED  BY <2>3, <2>4, <2>5 DEF BuiltInInv
<1>8. CASE Wait
  <2>1. Goes /\ UNCHANGED <<subject, row, mem, cloud, stray, pass, queue, again, job>>
    BY <1>8 DEF Wait
  <2>2. Removing'  BY <1>2, <1>4, <2>1, GentleGoes
  <2>3. Applying'  BY <1>1, <2>1 DEF Applying
  <2>4. QED  BY <1>1, <2>1, <2>2, <2>3, BuiltInStays
<1>9. CASE Write
  <2>1. Goes /\ UNCHANGED <<subject, cloud, pass, queue, again, job>>
    BY <1>9 DEF Write
  <2>2. stray' = {}  BY <1>4, <1>5, <1>9 DEF Write
  <2>3. (Same(row) /\ Same(mem))'  BY <1>2, <1>4, <1>9, BuiltInWrites
  <2>4. Removing'  BY <1>2, <1>4, <2>1, GentleGoes
  <2>5. (AsItWas /\ pass.memo = {} /\ Applying)'
    BY <1>1, <1>4, <2>1 DEF AsItWas, Applying, Copy
  <2>6. QED  BY <2>2, <2>3, <2>4, <2>5 DEF BuiltInInv
<1>10. CASE Fails
  <2>1. UNCHANGED <<subject, row, mem, cloud, stray, queue>>  BY <1>10 DEF Fails
  <2>2. Removing' /\ pass'.memo = pass.memo /\ pass'.phase = pass.phase
    <3>1. CASE Throw(FALSE)  BY <1>2, <1>4, <2>1, <3>1, GentleThrow
    <3>2. CASE plan' = Passed /\ UNCHANGED <<job, again, pass>>
      BY <1>2, <1>4, <2>1, <3>2, GentleGoes
    <3>3. CASE Goes /\ UNCHANGED <<job, again, pass>>
      BY <1>2, <1>4, <2>1, <3>3, GentleGoes
    <3>4. QED  BY <1>10, <3>1, <3>2, <3>3 DEF Fails
  <2>3. Applying'  BY <1>1, <2>2 DEF Applying
  <2>4. QED  BY <1>1, <2>1, <2>2, <2>3, BuiltInStays
<1>11. QED  BY <1>5, <1>6, <1>7, <1>8, <1>9, <1>10 DEF Handler

\* BuiltInInv is inductive.
LEMMA BuiltInStep ==
  ASSUME RunInv, TypeInv, ListsAll, BuiltInsLeft, BuiltInInv, [Next]_vars
  PROVE  BuiltInInv'
<1>1. CASE Round  BY <1>1, BuiltInRound
<1>2. CASE Begin \/ Finish \/ Rerun \/ Halt  BY <1>2, BuiltInLoader
<1>3. CASE Sync  BY <1>3, BuiltInSync
<1>4. CASE Handler \/ Fails  BY <1>4, BuiltInHandler
<1>5. CASE Overlook \/ Appear \/ Done \/ UNCHANGED vars
  <2>1. UNCHANGED <<subject, row, mem, cloud, stray, queue, again, job, plan>>
    BY <1>5 DEF Overlook, Appear, Done, vars
  <2>2. pass'.memo = pass.memo /\ pass'.phase = pass.phase /\ pass'.failed = pass.failed
    BY <1>5 DEF Overlook, Appear, Done, vars, TypeInv, Pass
  <2>3. QED
    BY <2>1, <2>2 DEF BuiltInInv, Kept, Protected, Traits, AsItWas, Same, Removing, Applying, Copy
<1>6. CASE \E c \in Copy : Settle(c)
  <2>1. PICK c \in Copy : Settle(c)  BY <1>6
  <2>2. UNCHANGED subject  BY <2>1 DEF Settle
  <2>3. CASE Kept
    <3>1. AsItWas  BY <2>3 DEF BuiltInInv
    <3>2. cloud[c].stage \in {"up", "none"}  BY <3>1 DEF AsItWas
    <3>3. QED  BY <2>1, <3>2 DEF Settle
  <2>4. CASE ~Kept  BY <2>2, <2>4 DEF BuiltInInv, Kept, Protected, Traits
  <2>5. QED  BY <2>3, <2>4
<1>7. QED  BY <1>1, <1>2, <1>3, <1>4, <1>5, <1>6 DEF Next, Commit

\* ListsAll is inductive.
LEMMA ListsStep ==
  ASSUME RunInv, TypeInv, ListsAll, [Next]_vars
  PROVE  ListsAll'
<1>1. subject' = subject
  BY DEF Next, Commit, Handler, Round, Begin, Finish, Rerun, Halt, Sync, Check, Create, Modify,
         Delete, Wait, Write, Fails, Overlook, Appear, Done, Settle, vars
<1>2. Traits' = Traits  BY <1>1 DEF Traits
<1>3. pass \in Pass  BY DEF TypeInv
<1> SUFFICES ASSUME ~Traits.omits PROVE pass'.missed = {}  BY <1>2 DEF ListsAll
<1>4. pass.missed = {}  BY DEF ListsAll
<1>5. \A x : Thrown(x) => pass'.missed = {}  BY DEF Thrown, Fresh
<1>6. \A x : Throw(x) => pass'.missed = {}  BY <1>3, <1>4 DEF Throw, Pass
<1>7. CASE Round
  BY <1>3, <1>4, <1>5, <1>7 DEF Round, Outer, Fresh, Pass
<1>8. CASE Halt \/ Rerun  BY <1>3, <1>4, <1>5, <1>8 DEF Halt, Rerun, Outer, Pass
<1>9. CASE Sync  BY <1>3, <1>4, <1>9 DEF Sync, Pass
<1>10. CASE Check  BY <1>3, <1>4, <1>6, <1>10 DEF Check, Pass
<1>11. CASE Create \/ Delete \/ Fails  BY <1>4, <1>6, <1>11 DEF Create, Delete, Fails
<1>12. CASE \/ Begin \/ Finish \/ Modify \/ Wait \/ Write \/ Overlook \/ Appear \/ Done
            \/ (\E c \in Copy : Settle(c)) \/ UNCHANGED vars
  BY <1>4, <1>12 DEF Begin, Finish, Modify, Wait, Write, Overlook, Appear, Done, Settle, vars
<1>13. QED  BY <1>7, <1>8, <1>9, <1>10, <1>11, <1>12 DEF Next, Commit, Handler

\* BuiltInKept, whatever differs, fails or is run again, of mappers whose full read
\* lists what there is or throws: where the handlers of the deletion leave a resource
\* that AWS does not let go alone, a commit that succeeds ends with the resource up
\* and with a row for it, since apply does not return while it is listed and has none
\* (apply in iasql.ts; cloud.delete of default VPCs, subnets and security groups, main
\* route tables, AWS's own roles).
THEOREM BuiltInsKept ==
  ASSUME HandlersTyped, BuiltInsLeft
  PROVE  Spec => [](~Traits.omits => BuiltInKept)
<1> DEFINE Inv == RunInv /\ TypeInv /\ ListsAll /\ BuiltInInv
<1>1. Init => Inv
  <2>1. Init => ListsAll  BY DEF Init, Fresh, ListsAll
  <2>2. QED  BY <2>1, InitRun, InitTyped, BuiltInInit
<1>2. Inv /\ [Next]_vars => Inv'
  BY RunStep, TypedStep, ListsStep, BuiltInStep
<1>3. Inv => (~Traits.omits => BuiltInKept)
  BY DEF BuiltInInv, BuiltInKept, Kept, Ended, Applying, AsItWas
<1> HIDE DEF Inv
<1>4. QED  BY <1>1, <1>2, <1>3, PTL DEF Spec
=============================================================================
