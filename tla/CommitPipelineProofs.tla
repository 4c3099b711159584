------------------------ MODULE CommitPipelineProofs ------------------------
(***************************************************************************)
(* For any entities, values, users and bounds, whatever fails and whoever  *)
(* dies:                                                                   *)
(*  - the variables keep their types;                                      *)
(*  - the windows of consecutive commits leave no change of a user out     *)
(*    that was to be seen when they were read;                             *)
(*  - a sync nobody disturbed leaves the database equal to the cloud.      *)
(***************************************************************************)
EXTENDS CommitPipeline, FiniteSetTheorems, TLAPS

-----------------------------------------------------------------------------
(* Types.                                                                  *)

\* The types of what rows are made of.
Typed == /\ db \in States /\ cloud \in States
         /\ memo \in [db : States, cloud : States, after : SUBSET Entity]
         /\ audit \subseteq Row /\ inverse \subseteq Row
         /\ clock \in Nat
         /\ mark \in [open : Nat, start : Nat, prev : Nat]

\* Starting a call of apply or sync, and the end of one, leave the window.
LEMMA PhaseEnds ==
  ASSUME PhaseReturns \/ PhaseThrows
  PROVE  pc' # "window"
<1>1. \A p : Start(p) => pc' # "window"  BY DEF Start
<1>2. Finish => pc' # "window"  BY DEF Finish
<1>3. CASE PhaseReturns  BY <1>1, <1>2, <1>3 DEF PhaseReturns
<1>4. CASE PhaseThrows  BY <1>1, <1>2, <1>4 DEF PhaseThrows
<1>5. QED  BY <1>3, <1>4

\* The steps of a commit after ReadWindow change neither rows nor marks.
LEMMA QuietEngine ==
  ASSUME \/ ReadDb \/ ReadAfter \/ ReadCloud \/ ReadFails \/ Diff \/ Run
         \/ EndPass \/ StartRevert \/ InverseQuery \/ ApplyInverse \/ EndCommit
  PROVE  UNCHANGED <<audit, clock, mark>> /\ pc # "window" /\ pc' # "window"
<1>1. CASE ReadDb  BY <1>1 DEF ReadDb, data
<1>2. CASE ReadAfter  BY <1>2 DEF ReadAfter, data
<1>3. CASE ReadCloud  BY <1>3 DEF ReadCloud, data
<1>4. CASE ReadFails  BY <1>4, PhaseEnds DEF ReadFails, data
<1>5. CASE Diff
  <2>1. UNCHANGED <<audit, clock, mark>> /\ pc # "window"  BY <1>5 DEF Diff, data
  <2>2. CASE PhaseThrows \/ PhaseReturns  BY <2>1, <2>2, PhaseEnds
  <2>3. CASE ~(PhaseThrows \/ PhaseReturns)  BY <1>5, <2>1, <2>3 DEF Diff, Outer
  <2>4. QED  BY <2>2, <2>3
<1>6. CASE Run  BY <1>6 DEF Run
<1>7. CASE EndPass
  <2>1. UNCHANGED <<audit, clock, mark>> /\ pc # "window"  BY <1>7 DEF EndPass, data
  <2>2. CASE PhaseThrows  BY <2>1, <2>2, PhaseEnds
  <2>3. CASE ~PhaseThrows  BY <1>7, <2>1, <2>3 DEF EndPass, Outer, Inner
  <2>4. QED  BY <2>2, <2>3
<1>8. CASE StartRevert  BY <1>8 DEF StartRevert, data
<1>9. CASE InverseQuery  BY <1>9 DEF InverseQuery
<1>10. CASE ApplyInverse  BY <1>10 DEF ApplyInverse, Start, data
<1>11. CASE EndCommit  BY <1>11 DEF EndCommit, data
<1>12. QED
  BY <1>1, <1>2, <1>3, <1>4, <1>5, <1>6, <1>7, <1>8, <1>9, <1>10, <1>11

\* The steps of a commit keep the types.
LEMMA NoMemoTyped == NoMemo \in [db : States, cloud : States, after : SUBSET Entity]
  BY DEF NoMemo, States

LEMMA TypedPhase ==
  ASSUME Typed, PhaseReturns \/ PhaseThrows, UNCHANGED <<data, mark, inverse>>
  PROVE  Typed'
<1>1. \A p : Start(p) => memo' = NoMemo  BY DEF Start
<1>2. Finish => memo' = NoMemo  BY DEF Finish
<1>3. memo' = NoMemo  BY <1>1, <1>2 DEF PhaseReturns, PhaseThrows
<1>4. QED  BY <1>3, NoMemoTyped DEF Typed, data

LEMMA TypedReads ==
  ASSUME Typed, ReadDb \/ ReadAfter \/ ReadCloud
  PROVE  Typed'
<1>1. CASE ReadDb  BY <1>1 DEF ReadDb, data, Typed
<1>2. CASE ReadAfter
  <2>1. Touched(getChangesAfterCommitStarted) \in SUBSET Entity
    BY DEF Typed, Touched, getChangesAfterCommitStarted, Visible, Row
  <2>2. QED  BY <1>2, <2>1 DEF ReadAfter, data, Typed
<1>3. CASE ReadCloud  BY <1>3 DEF ReadCloud, data, Typed
<1>4. QED  BY <1>1, <1>2, <1>3

LEMMA TypedRun ==
  ASSUME Typed, Run
  PROVE  Typed'
<1>1. PICK e \in Entity : Succeeds(e) \/ Fails(e)  BY DEF Run
<1>2. memo.db[e] \in Value \cup {Absent} /\ memo.cloud[e] \in Value \cup {Absent}
  BY DEF Typed, States
<1>3. CASE Fails(e)  BY <1>3 DEF Fails, Run, Typed
<1>4. CASE Succeeds(e)
  <2>1. db' \in States /\ cloud' \in States
    BY <1>2, <1>4 DEF Succeeds, Typed, States
  <2>2. QED  BY <2>1 DEF Run, Typed
<1>5. QED  BY <1>1, <1>3, <1>4

LEMMA TypedInverse ==
  ASSUME Typed, StartRevert \/ InverseQuery
  PROVE  Typed'
<1>1. CASE StartRevert
  BY <1>1 DEF StartRevert, getChangeLogsSinceLastBegin, Visible, Typed, data
<1>2. CASE InverseQuery
  <2>1. PICK r \in inverse :
          /\ db' = IF db[r.ent] = r.new /\ Fits(db, r.ent, r.old)
                   THEN [db EXCEPT ![r.ent] = r.old] ELSE db
          /\ inverse' = inverse \ {r}
    BY <1>2 DEF InverseQuery
  <2>2. r.ent \in Entity /\ r.old \in Value \cup {Absent}  BY DEF Typed, Row
  <2>3. db' \in States  BY <2>1, <2>2 DEF Typed, States
  <2>4. QED  BY <1>2, <2>1, <2>3 DEF InverseQuery, Typed
<1>3. QED  BY <1>1, <1>2

LEMMA TypedEngine ==
  ASSUME Typed,
         \/ ReadDb \/ ReadAfter \/ ReadCloud \/ ReadFails \/ Diff \/ Run
         \/ EndPass \/ StartRevert \/ InverseQuery \/ ApplyInverse \/ EndCommit
  PROVE  Typed'
<1>1. CASE ReadFails  BY <1>1, TypedPhase DEF ReadFails
<1>2. CASE Diff
  <2>1. UNCHANGED <<data, mark, inverse>>  BY <1>2 DEF Diff
  <2>2. CASE PhaseThrows \/ PhaseReturns  BY <2>1, <2>2, TypedPhase
  <2>3. CASE ~(PhaseThrows \/ PhaseReturns)  BY <1>2, <2>1, <2>3 DEF Diff, Typed, data
  <2>4. QED  BY <2>2, <2>3
<1>3. CASE EndPass
  <2>1. UNCHANGED <<data, mark, inverse>>  BY <1>3 DEF EndPass
  <2>2. CASE PhaseThrows  BY <2>1, <2>2, TypedPhase
  <2>3. CASE ~PhaseThrows  BY <1>3, <2>1, <2>3 DEF EndPass, Typed, data
  <2>4. QED  BY <2>2, <2>3
<1>4. CASE ApplyInverse
  BY <1>4, NoMemoTyped DEF ApplyInverse, Start, data, Typed
<1>5. CASE EndCommit  BY <1>5 DEF EndCommit, data, Typed
<1>6. QED
  BY <1>1, <1>2, <1>3, <1>4, <1>5, TypedReads, TypedRun, TypedInverse

LoopType ==
  [todo : SUBSET Entity, failed : SUBSET Entity, moved : {"yes", "no"},
   counts : Counts \X Counts \X Counts, spin : 0 .. 3,
   failureCount : Counts, ranFull : {"yes", "no"}]

\* Of TypeOK, what the engine only reads ...
Records ==
  /\ clock \in 0 .. MaxWrites /\ external \in 0 .. MaxExternal
  /\ \A r \in audit : r.ts \in 1 .. clock /\ \A q \in audit : q.ts = r.ts => q = r
  /\ mark \in [open : 0 .. clock, start : 0 .. clock, prev : 0 .. clock]
  /\ base \in [db : States, cloud : States, calm : {"yes", "sinceStart", "no"}]

\* ... and what is its own.
Locals ==
  /\ pc \in Pcs /\ phase \in Phases
  /\ taken \subseteq Row
  /\ loop \in LoopType
  /\ errs \subseteq {"applyErr", "revertErr", "syncErr"}

LEMMA TypeParts == PipelineAssumption => (TypeOK <=> Typed /\ Records /\ Locals)
  BY DEF PipelineAssumption, TypeOK, Typed, Records, Locals, LoopType

\* How many entities there are bounds every count of the loops.
LEMMA CountOf ==
  ASSUME PipelineAssumption, NEW s \in SUBSET Entity
  PROVE  Cardinality(s) \in Counts /\ -1 \in Counts
<1>1. Cardinality(s) <= Cardinality(Entity)
  BY FS_Subset DEF PipelineAssumption
<1>2. Cardinality(s) \in Nat /\ Cardinality(Entity) \in Nat
  BY FS_Subset, FS_CardinalityType DEF PipelineAssumption
<1>3. QED  BY <1>1, <1>2 DEF Counts

LEMMA NoLoopTyped == PipelineAssumption => NoLoop \in LoopType
<1> SUFFICES ASSUME PipelineAssumption PROVE NoLoop \in LoopType  OBVIOUS
<1>1. -1 \in Counts  BY CountOf
<1>2. QED  BY <1>1 DEF NoLoop, LoopType

LEMMA LocalsPhase ==
  ASSUME PipelineAssumption, Locals, taken' = taken,
         PhaseThrows \/ PhaseReturns
  PROVE  Locals'
<1>1. \A p \in Phases : Start(p) => pc' \in Pcs /\ phase' = p /\ loop' = NoLoop
  BY DEF Start, Pcs
<1>2. Finish => pc' \in Pcs /\ phase' = phase /\ loop' = NoLoop  BY DEF Finish, Pcs
<1>3. CASE PhaseReturns
  <2>1. pc' \in Pcs /\ phase' \in Phases /\ loop' = NoLoop /\ errs' = errs
    BY <1>1, <1>2, <1>3 DEF PhaseReturns, Phases, Locals
  <2>2. QED  BY <2>1, NoLoopTyped DEF Locals
<1>4. CASE PhaseThrows
  <2>1. pc' \in Pcs /\ phase' \in Phases /\ loop' = NoLoop
    BY <1>1, <1>2, <1>4 DEF PhaseThrows, Phases, Locals, Pcs
  <2>2. errs' \subseteq {"applyErr", "revertErr", "syncErr"}
    BY <1>4 DEF PhaseThrows, Thrown, Locals
  <2>3. QED  BY <2>1, <2>2, NoLoopTyped DEF Locals
<1>5. QED  BY <1>3, <1>4

LEMMA DiffTyped ==
  ASSUME PipelineAssumption, Typed, Locals
  PROVE  Different \subseteq Entity /\ recordCount \in Counts \X Counts \X Counts
<1>1. Touched(taken) \subseteq Entity  BY DEF Touched, Locals, Row
<1>2. Chosen \subseteq Entity  BY <1>1 DEF Chosen
<1>3. /\ entitiesInDbOnly \in SUBSET Entity /\ entitiesInAwsOnly \in SUBSET Entity
      /\ entitiesChanged \in SUBSET Entity
  BY <1>2 DEF entitiesInDbOnly, entitiesInAwsOnly, entitiesChanged
<1>4. QED  BY <1>3, CountOf DEF Different, recordCount

LEMMA LocalsDiff ==
  ASSUME PipelineAssumption, Typed, Locals, Diff
  PROVE  Locals'
<1>1. taken' = taken  BY DEF Diff
<1>2. CASE PhaseThrows \/ PhaseReturns  BY <1>1, <1>2, LocalsPhase
<1>3. CASE /\ Spin < 4
           /\ loop' = [loop EXCEPT !.todo = Different, !.failed = {}, !.moved = "no",
                                   !.counts = recordCount, !.spin = Spin]
           /\ pc' = "run" /\ UNCHANGED <<phase, memo, errs>>
  <2>1. Spin \in 0 .. 3  BY <1>3 DEF Spin, Locals, LoopType
  <2>2. loop' \in LoopType  BY <1>3, <2>1, DiffTyped DEF Locals, LoopType
  <2>3. QED  BY <1>1, <1>3, <2>2 DEF Locals, Pcs
<1>4. CASE /\ Spin < 4
           /\ loop' = [loop EXCEPT !.counts = recordCount, !.spin = Spin, !.ranFull = "no"]
           /\ pc' = Outer /\ UNCHANGED <<phase, memo, errs>>
  <2>1. Spin \in 0 .. 3  BY <1>4 DEF Spin, Locals, LoopType
  <2>2. loop' \in LoopType  BY <1>4, <2>1, DiffTyped DEF Locals, LoopType
  <2>3. QED  BY <1>1, <1>4, <2>2 DEF Locals, Pcs, Outer
<1>5. QED  BY <1>2, <1>3, <1>4 DEF Diff

LEMMA LocalsEndPass ==
  ASSUME PipelineAssumption, Locals, EndPass
  PROVE  Locals'
<1> DEFINE n == Cardinality(loop.failed)
<1>1. taken' = taken  BY DEF EndPass
<1>2. loop.failed \in SUBSET Entity  BY DEF Locals, LoopType
<1>3. n \in Counts  BY <1>2, CountOf
<1> HIDE DEF n
<1>4. CASE PhaseThrows  BY <1>1, <1>4, LocalsPhase
<1>5. CASE /\ \/ loop' = [loop EXCEPT !.moved = "no", !.ranFull = "yes"]
              \/ loop' = [loop EXCEPT !.todo = loop.failed, !.failed = {}, !.moved = "no"]
              \/ loop' = [loop EXCEPT !.failed = {}, !.failureCount = n, !.ranFull = "no"]
           /\ pc' \in {Inner, pc, Outer} /\ UNCHANGED <<phase, errs>>
  <2>1. loop' \in LoopType  BY <1>2, <1>3, <1>5 DEF Locals, LoopType
  <2>2. pc' \in Pcs  BY <1>5 DEF Inner, Outer, Locals, Pcs
  <2>3. QED  BY <1>1, <1>5, <2>1, <2>2 DEF Locals
<1>6. QED  BY <1>4, <1>5 DEF EndPass, n

LEMMA LocalsRun ==
  ASSUME Locals, Run
  PROVE  Locals'
<1>1. PICK e \in Entity : Succeeds(e) \/ Fails(e)  BY DEF Run
<1>2. CASE loop' = [loop EXCEPT !.todo = @ \ {e}, !.moved = "yes"]
  <2>1. loop.todo \ {e} \in SUBSET Entity  BY DEF Locals, LoopType
  <2>2. loop' \in LoopType  BY <1>2, <2>1 DEF Locals, LoopType
  <2>3. QED  BY <2>2 DEF Run, Locals
<1>3. CASE loop' = [loop EXCEPT !.todo = @ \ {e}, !.failed = @ \cup {e}]
  <2>1. loop.todo \ {e} \in SUBSET Entity /\ loop.failed \cup {e} \in SUBSET Entity
    BY DEF Locals, LoopType
  <2>2. loop' \in LoopType  BY <1>3, <2>1 DEF Locals, LoopType
  <2>3. QED  BY <2>2 DEF Run, Locals
<1>4. QED  BY <1>1, <1>2, <1>3 DEF Succeeds, Fails

LEMMA LocalsEngine ==
  ASSUME PipelineAssumption, Typed, Locals,
         \/ ReadDb \/ ReadAfter \/ ReadCloud \/ ReadFails \/ Diff \/ Run
         \/ EndPass \/ StartRevert \/ InverseQuery \/ ApplyInverse \/ EndCommit
  PROVE  Locals'
<1>1. CASE ReadDb \/ ReadAfter \/ ReadCloud
  BY <1>1 DEF ReadDb, ReadAfter, ReadCloud, Locals, Pcs
<1>2. CASE ReadFails  BY <1>2, LocalsPhase DEF ReadFails
<1>3. CASE Diff  BY <1>3, LocalsDiff
<1>4. CASE Run  BY <1>4, LocalsRun
<1>5. CASE EndPass  BY <1>5, LocalsEndPass
<1>6. CASE StartRevert \/ InverseQuery
  BY <1>6 DEF StartRevert, InverseQuery, Locals, Pcs
<1>7. CASE ApplyInverse
  BY <1>7, NoLoopTyped DEF ApplyInverse, Start, Locals, Pcs, Phases
<1>8. CASE EndCommit  BY <1>8 DEF EndCommit, Locals, Pcs, Phases
<1>9. QED  BY <1>1, <1>2, <1>3, <1>4, <1>5, <1>6, <1>7, <1>8

\* The engine writes neither the history variable nor the count of others' changes.
LEMMA EngineRecords ==
  ASSUME Records,
         \/ ReadDb \/ ReadAfter \/ ReadCloud \/ ReadFails \/ Diff \/ Run
         \/ EndPass \/ StartRevert \/ InverseQuery \/ ApplyInverse \/ EndCommit
  PROVE  Records' /\ base' = base
<1>1. UNCHANGED <<audit, clock, mark>>  BY QuietEngine
<1>2. UNCHANGED <<external, base>>
  BY DEF ReadDb, ReadAfter, ReadCloud, ReadFails, Diff, Run, EndPass, StartRevert,
         InverseQuery, ApplyInverse, EndCommit, data
<1>3. QED  BY <1>1, <1>2 DEF Records

LEMMA ReadWindowTypes ==
  ASSUME PipelineAssumption, Typed, Records, Locals, ReadWindow
  PROVE  Typed' /\ Records' /\ Locals'
<1> DEFINE changes == getChangesToCommit
           Tagged(q) == [q EXCEPT !.status = "taken"]
<1>1. /\ audit' = (audit \ changes) \cup {Tagged(r) : r \in changes}
      /\ taken' = (IF phase = "applyChanged" THEN changes ELSE {})
      /\ UNCHANGED <<db, cloud, clock, external, mark, inverse, errs, base>>
  BY DEF ReadWindow
<1>2. /\ memo' = NoMemo /\ loop' = NoLoop /\ pc' \in Pcs /\ phase' \in Phases
  BY DEF ReadWindow, Start, Pcs, Phases
<1>3. changes \subseteq audit  BY DEF getChangesToCommit, Visible
<1>4. \A q \in audit : Tagged(q) \in Row /\ Tagged(q).ts = q.ts
  BY DEF Typed, Row
<1> HIDE DEF Tagged, changes
<1>5. audit' \subseteq Row /\ taken' \subseteq Row  BY <1>1, <1>3, <1>4 DEF Typed
<1>6. Typed'  BY <1>1, <1>2, <1>5, NoMemoTyped DEF Typed
<1>7. Locals'  BY <1>1, <1>2, <1>5, NoLoopTyped DEF Locals
<1>8. \A r \in audit' : r.ts \in 1 .. clock
  BY <1>1, <1>3, <1>4 DEF Records
<1>9. ASSUME NEW r \in audit', NEW q \in audit', q.ts = r.ts
      PROVE  q = r
  <2>1. PICK s \in audit : IF s \in changes THEN r = Tagged(s) ELSE r = s
    BY <1>1, <1>3
  <2>2. PICK t \in audit : IF t \in changes THEN q = Tagged(t) ELSE q = t
    BY <1>1, <1>3
  <2>3. s.ts = t.ts  BY <1>4, <1>9, <2>1, <2>2
  <2>4. s = t  BY <2>3 DEF Records
  <2>5. QED  BY <2>1, <2>2, <2>4
<1>10. Records'  BY <1>1, <1>8, <1>9 DEF Records
<1>11. QED  BY <1>6, <1>7, <1>10

\* A step that only marks the commit as disturbed keeps the history typed.
LEMMA DisturbTyped ==
  ASSUME Records, NEW b, Disturb(b)
  PROVE  base' \in [db : States, cloud : States, calm : {"yes", "sinceStart", "no"}]
  BY DEF Records, Disturb

LEMMA WriteTypes ==
  ASSUME PipelineAssumption, Typed, Records, Locals,
         NEW u \in User, NEW e \in Entity, NEW v \in Value \cup {Absent},
         UserWrite(u, e, v) \/ UserBegin(u, e, v)
  PROVE  Typed' /\ Records' /\ Locals'
<1>1. PICK st \in {"hidden", "shown"} : Write(u, e, v, st)
  BY DEF UserWrite, UserBegin
<1> DEFINE row == [ts |-> clock + 1, ent |-> e, old |-> db[e], new |-> v,
                   user |-> u, status |-> st]
<1>2. /\ clock < MaxWrites /\ clock' = clock + 1 /\ audit' = audit \cup {row}
      /\ Disturb(InCommit)
      /\ UNCHANGED <<cloud, external, pc, phase, mark, taken, memo, loop, inverse, errs>>
  BY <1>1 DEF Write
<1>3. db' \in States  BY DEF UserWrite, UserBegin, Typed, States
<1>4. row \in Row  BY DEF Typed, Row, States
<1>5. row.ts = clock + 1  OBVIOUS
<1> HIDE DEF row
<1>6. clock \in Nat /\ MaxWrites \in Nat  BY DEF Typed, PipelineAssumption
<1>7. Typed'  BY <1>2, <1>3, <1>4, <1>6 DEF Typed
<1>8. clock' \in 0 .. MaxWrites  BY <1>2, <1>6
<1>9. \A r \in audit' : r.ts \in 1 .. clock'  BY <1>2, <1>5, <1>6 DEF Records
<1>10. \A r, q \in audit' : q.ts = r.ts => q = r
  <2>1. \A r \in audit : r.ts # row.ts  BY <1>5, <1>6 DEF Records
  <2>2. QED  BY <1>2, <2>1 DEF Records
<1>11. mark' \in [open : 0 .. clock', start : 0 .. clock', prev : 0 .. clock']
  BY <1>2, <1>6 DEF Records
<1>12. Records'  BY <1>2, <1>8, <1>9, <1>10, <1>11, DisturbTyped DEF Records
<1>13. Locals'  BY <1>2 DEF Locals
<1>14. QED  BY <1>7, <1>12, <1>13

LEMMA UserCommitTypes ==
  ASSUME PipelineAssumption, Typed, Records, Locals, NEW r \in audit, UserCommit(r)
  PROVE  Typed' /\ Records' /\ Locals'
<1> DEFINE s == [r EXCEPT !.status = IF r.ts <= Reached THEN "missed" ELSE "shown"]
<1>1. /\ db' = [db EXCEPT ![r.ent] = r.new] /\ audit' = (audit \ {r}) \cup {s}
      /\ Disturb(TRUE)
      /\ UNCHANGED <<cloud, clock, external, pc, phase, mark, taken, memo, loop, inverse,
                     errs>>
  BY DEF UserCommit
<1>2. r \in Row  BY DEF Typed
<1>3. s \in Row /\ s.ts = r.ts  BY <1>2 DEF Row
<1> HIDE DEF s
<1>4. r.ent \in Entity /\ r.new \in Value \cup {Absent}  BY <1>2 DEF Row
<1>5. db' \in States  BY <1>1, <1>4 DEF Typed, States
<1>6. Typed'  BY <1>1, <1>3, <1>5 DEF Typed
<1>7. \A q \in audit' : q.ts \in 1 .. clock'  BY <1>1, <1>3 DEF Records
<1>8. \A p, q \in audit' : q.ts = p.ts => q = p
  <2>1. \A q \in audit \ {r} : q.ts # s.ts  BY <1>3 DEF Records
  <2>2. QED  BY <1>1, <2>1 DEF Records
<1>9. Records'  BY <1>1, <1>7, <1>8, DisturbTyped DEF Records
<1>10. Locals'  BY <1>1 DEF Locals
<1>11. QED  BY <1>6, <1>9, <1>10

\* A note in a row does not change what the row is.
LEMMA MissedRow ==
  ASSUME NEW r \in Row
  PROVE  Missed(r) \in Row /\ Missed(r).ts = r.ts
  BY DEF Missed, Row

LEMMA BoundaryTypes ==
  ASSUME PipelineAssumption, Typed, Records, Locals,
         Begin \/ Commit \/ Rollback \/ Crash \/ World
  PROVE  Typed' /\ Records' /\ Locals'
<1>1. clock \in 0 .. clock /\ MaxExternal \in Nat
  BY DEF Typed, PipelineAssumption
<1>2. CASE Begin
  <2>1. Typed'  BY <1>2 DEF Begin, Typed
  <2>2. Records'  BY <1>1, <1>2 DEF Begin, Records, Typed
  <2>3. Locals'  BY <1>2 DEF Begin, Locals, Pcs
  <2>4. QED  BY <2>1, <2>2, <2>3
<1>3. CASE Commit \/ Rollback
  <2>1. PICK p \in {"applyChanged", "sync"} : StartCommit(p)  BY <1>3 DEF Commit, Rollback
  <2>2. Typed'  BY <2>1 DEF StartCommit, Typed, data
  <2>3. base' \in [db : States, cloud : States, calm : {"yes", "sinceStart", "no"}]
    BY <2>1 DEF StartCommit, Records
  <2>4. mark' \in [open : 0 .. clock, start : 0 .. clock, prev : 0 .. clock]
    BY <1>1, <2>1 DEF StartCommit, Records
  <2>5. Records'  BY <2>1, <2>3, <2>4 DEF StartCommit, Records, data
  <2>6. Locals'  BY <2>1 DEF StartCommit, Locals, Pcs, Phases
  <2>7. QED  BY <2>2, <2>5, <2>6
<1>4. CASE Crash
  <2>1. /\ audit' = {Missed(r) : r \in audit} /\ memo' = NoMemo /\ inverse' = {}
        /\ UNCHANGED <<db, cloud, clock, external, mark>> /\ Disturb(TRUE)
    BY <1>4 DEF Crash
  <2>2. \A r \in audit : Missed(r) \in Row /\ Missed(r).ts = r.ts
    BY MissedRow DEF Typed
  <2>3. Typed'  BY <2>1, <2>2, NoMemoTyped DEF Typed
  <2>4. \A r \in audit' : r.ts \in 1 .. clock  BY <2>1, <2>2 DEF Records
  <2>5. ASSUME NEW r \in audit', NEW q \in audit', q.ts = r.ts
        PROVE  q = r
    <3>1. PICK s \in audit : r = Missed(s)  BY <2>1
    <3>2. PICK t \in audit : q = Missed(t)  BY <2>1
    <3>3. s.ts = t.ts  BY <2>2, <2>5, <3>1, <3>2
    <3>4. s = t  BY <3>3 DEF Records
    <3>5. QED  BY <3>1, <3>2, <3>4
  <2>6. Records'  BY <2>1, <2>4, <2>5, DisturbTyped DEF Records
  <2>7. Locals'  BY <1>4, NoLoopTyped DEF Crash, Locals, Pcs, Phases
  <2>8. QED  BY <2>3, <2>6, <2>7
<1>5. CASE World
  <2>1. PICK e \in Entity, v \in Value \cup {Absent} : CloudChange(e, v)  BY <1>5 DEF World
  <2>2. Typed'  BY <2>1 DEF CloudChange, Typed, States
  <2>3. external' \in 0 .. MaxExternal  BY <1>1, <2>1 DEF CloudChange, Records
  <2>4. Records'  BY <2>1, <2>3, DisturbTyped DEF CloudChange, Records
  <2>5. Locals'  BY <2>1 DEF CloudChange, Locals
  <2>6. QED  BY <2>2, <2>4, <2>5
<1>6. QED  BY <1>2, <1>3, <1>4, <1>5

LEMMA TypesStep ==
  ASSUME PipelineAssumption, Typed, Records, Locals, [Next]_vars
  PROVE  Typed' /\ Records' /\ Locals'
<1>1. CASE Begin \/ Commit \/ Rollback \/ Crash \/ World  BY <1>1, BoundaryTypes
<1>2. CASE Engine
  <2>1. CASE ReadWindow  BY <2>1, ReadWindowTypes
  <2>2. CASE ~ReadWindow
    <3>1. \/ ReadDb \/ ReadAfter \/ ReadCloud \/ ReadFails \/ Diff \/ Run
          \/ EndPass \/ StartRevert \/ InverseQuery \/ ApplyInverse \/ EndCommit
      BY <1>2, <2>2 DEF Engine
    <3>2. QED  BY <3>1, TypedEngine, EngineRecords, LocalsEngine
  <2>3. QED  BY <2>1, <2>2
<1>3. CASE Users  BY <1>3, WriteTypes, UserCommitTypes DEF Users
<1>4. CASE UNCHANGED vars  BY <1>4 DEF vars, Typed, Records, Locals
<1>5. QED  BY <1>1, <1>2, <1>3, <1>4 DEF Next

LEMMA InitTypes == PipelineAssumption /\ Init => TypeOK
<1> SUFFICES ASSUME PipelineAssumption, Init PROVE TypeOK  OBVIOUS
<1>1. MaxWrites \in Nat /\ MaxExternal \in Nat  BY DEF PipelineAssumption
<1>2. Typed  BY DEF Init, Typed, States, NoMemo
<1>3. Records  BY <1>1 DEF Init, Records, States
<1>4. Locals  BY NoLoopTyped DEF Init, Locals, Pcs, Phases
<1>5. QED  BY <1>2, <1>3, <1>4, TypeParts

LEMMA TypeStep == PipelineAssumption /\ TypeOK /\ [Next]_vars => TypeOK'
<1> SUFFICES ASSUME PipelineAssumption, TypeOK, [Next]_vars PROVE TypeOK'  OBVIOUS
<1>1. Typed' /\ Records' /\ Locals'  BY TypeParts, TypesStep
<1>2. QED  BY <1>1 DEF TypeOK, Typed, Records, Locals, LoopType

\* TypeOK, for any finite set of entities and any bounds, with long transactions,
\* failing calls and workers that die: no time stamp is given twice, no window
\* reaches into the future, and the loops' counts stay in their ranges.
THEOREM TypeCorrect == Spec => []TypeOK
  BY InitTypes, TypeStep, PipelineAssumption, PTL DEF Spec

-----------------------------------------------------------------------------
(* The windows.                                                            *)

\* The newest START_COMMIT record is not older than the one before it.
WindowInv == mark.prev <= mark.start /\ NoChangeSkipped

\* A step that inserts nothing and does not end or begin the window.
LEMMA QuietStep ==
  ASSUME WindowInv, UNCHANGED <<audit, mark>>, (pc = "window") = (pc' = "window")
  PROVE  WindowInv'
  BY DEF WindowInv, NoChangeSkipped, Visible, Reached

\* START_COMMIT: the new window begins where the last one ended.
LEMMA StartCommitStep ==
  ASSUME TypeOK, WindowInv, Commit \/ Rollback
  PROVE  WindowInv'
<1>1. /\ pc = "open" /\ pc' = "window" /\ audit' = audit
      /\ mark' = [mark EXCEPT !.start = clock, !.prev = mark.start]
  BY DEF Commit, Rollback, StartCommit, data
<1>2. mark'.start = clock /\ mark'.prev = mark.start /\ mark.start <= clock
  BY <1>1 DEF TypeOK
<1>3. QED  BY <1>1, <1>2 DEF WindowInv, NoChangeSkipped, Visible, Reached

\* ReadWindow: what was committed between the marks is taken now.
LEMMA ReadWindowStep ==
  ASSUME TypeOK, WindowInv, ReadWindow
  PROVE  WindowInv'
<1> DEFINE changes == getChangesToCommit
           Tagged(q) == [q EXCEPT !.status = "taken"]
<1>1. /\ pc = "window" /\ pc' # "window" /\ mark' = mark
      /\ audit' = (audit \ changes) \cup {Tagged(r) : r \in changes}
  BY DEF ReadWindow, Start
<1>2. \A q \in changes : Tagged(q).status = "taken"
  BY DEF TypeOK, Row, getChangesToCommit, Visible
<1> HIDE DEF Tagged
<1>3. ASSUME NEW r \in audit \ changes, r.status # "hidden", r.ts <= mark.start
      PROVE  r.status \in {"taken", "missed"}
  <2>1. r \in Visible  BY <1>3 DEF Visible
  <2>2. r.ts \in Nat /\ mark.prev \in Nat  BY DEF TypeOK, Row
  <2>3. r.ts <= mark.prev  BY <1>3, <2>1, <2>2 DEF getChangesToCommit
  <2>4. QED  BY <1>1, <2>1, <2>3 DEF WindowInv, NoChangeSkipped, Reached
<1>4. QED  BY <1>1, <1>2, <1>3 DEF WindowInv, NoChangeSkipped, Visible, Reached

\* A statement of a user: its row is newer than every mark.
LEMMA WriteStep ==
  ASSUME TypeOK, WindowInv,
         NEW u \in User, NEW e \in Entity, NEW v \in Value \cup {Absent},
         UserWrite(u, e, v) \/ UserBegin(u, e, v)
  PROVE  WindowInv'
<1>1. PICK st \in {"hidden", "shown"} : Write(u, e, v, st)
  BY DEF UserWrite, UserBegin
<1> DEFINE row == [ts |-> clock + 1, ent |-> e, old |-> db[e], new |-> v,
                   user |-> u, status |-> st]
<1>2. audit' = audit \cup {row} /\ UNCHANGED <<mark, pc>>  BY <1>1 DEF Write
<1>3. row.ts = clock + 1  OBVIOUS
<1> HIDE DEF row
<1>4. ~(row.ts <= Reached)  BY <1>3 DEF TypeOK, Reached
<1>5. QED  BY <1>2, <1>4 DEF WindowInv, NoChangeSkipped, Visible, Reached

\* A row that appears: the windows are still to come to it, or it is missed.
LEMMA UserCommitStep ==
  ASSUME TypeOK, WindowInv, NEW r \in audit, UserCommit(r)
  PROVE  WindowInv'
<1> DEFINE s == [r EXCEPT !.status = IF r.ts <= Reached THEN "missed" ELSE "shown"]
<1>1. audit' = (audit \ {r}) \cup {s} /\ UNCHANGED <<mark, pc>>  BY DEF UserCommit
<1>2. s.ts = r.ts /\ s.status = IF r.ts <= Reached THEN "missed" ELSE "shown"
  BY DEF TypeOK, Row
<1> HIDE DEF s
<1>3. QED  BY <1>1, <1>2 DEF WindowInv, NoChangeSkipped, Visible, Reached

\* A worker dies: its window counts as read, and what is not taken is missed.
LEMMA CrashStep ==
  ASSUME TypeOK, WindowInv, Crash
  PROVE  WindowInv'
<1>1. audit' = {Missed(r) : r \in audit} /\ mark' = mark /\ pc' = "open"  BY DEF Crash
<1>2. ASSUME NEW r \in audit, Missed(r).ts <= mark.start, Missed(r).status # "hidden"
      PROVE  Missed(r).status \in {"taken", "missed"}
  <2>1. r \in Row  BY DEF TypeOK
  <2>2. r.ts <= mark.start  BY <1>2, <2>1, MissedRow
  <2>3. CASE r.status = "shown"  BY <2>1, <2>2, <2>3 DEF Missed, Row
  <2>4. CASE r.status # "shown"  BY <1>2, <2>1, <2>4 DEF Missed, Row
  <2>5. QED  BY <2>3, <2>4
<1>3. QED  BY <1>1, <1>2 DEF WindowInv, NoChangeSkipped, Visible, Reached

LEMMA WindowStep ==
  ASSUME TypeOK, WindowInv, [Next]_vars
  PROVE  WindowInv'
<1>1. CASE Begin
  <2>1. /\ pc = "idle" /\ pc' = "open" /\ mark' = [mark EXCEPT !.open = clock]
        /\ audit' = audit
    BY <1>1 DEF Begin
  <2>2. mark'.start = mark.start /\ mark'.prev = mark.prev  BY <2>1 DEF TypeOK
  <2>3. QED  BY <2>1, <2>2 DEF WindowInv, NoChangeSkipped, Visible, Reached
<1>2. CASE Commit \/ Rollback  BY <1>2, StartCommitStep
<1>3. CASE Engine
  <2>1. CASE ReadWindow  BY <2>1, ReadWindowStep
  <2>2. CASE ~ReadWindow
    <3>1. \/ ReadDb \/ ReadAfter \/ ReadCloud \/ ReadFails \/ Diff \/ Run
          \/ EndPass \/ StartRevert \/ InverseQuery \/ ApplyInverse \/ EndCommit
      BY <1>3, <2>2 DEF Engine
    <3>2. QED  BY <3>1, QuietEngine, QuietStep
  <2>3. QED  BY <2>1, <2>2
<1>4. CASE Users  BY <1>4, WriteStep, UserCommitStep DEF Users
<1>5. CASE World  BY <1>5, QuietStep DEF World, CloudChange
<1>6. CASE Crash  BY <1>6, CrashStep
<1>7. CASE UNCHANGED vars  BY <1>7, QuietStep DEF vars
<1>8. QED  BY <1>1, <1>2, <1>3, <1>4, <1>5, <1>6, <1>7 DEF Next

\* NoChangeSkipped, for any number of users, entities, values and changes: the
\* half-open windows between consecutive START_COMMITs leave no change out that
\* was to be seen, whatever the phases of the commits between them do.
THEOREM WindowsComplete == Spec => []NoChangeSkipped
<1>1. Init => WindowInv
  BY DEF Init, WindowInv, NoChangeSkipped, Visible
<1>2. TypeOK /\ WindowInv /\ [Next]_vars => WindowInv'  BY WindowStep
<1>3. WindowInv => NoChangeSkipped  BY DEF WindowInv
<1>4. QED  BY <1>1, <1>2, <1>3, TypeCorrect, PTL DEF Spec

\* While every statement is a transaction of its own no row is ever hidden.
LEMMA ShownStep ==
  ASSUME ~LongWrites, ~MayCrash, TypeOK, NothingMissed, \A r \in audit : r.status # "hidden",
         [Next]_vars
  PROVE  NothingMissed' /\ \A r \in audit' : r.status # "hidden"
<1>1. CASE audit' = audit  BY <1>1 DEF NothingMissed
<1>2. CASE ReadWindow
  <2> DEFINE Tagged(q) == [q EXCEPT !.status = "taken"]
  <2>1. audit' = (audit \ getChangesToCommit) \cup {Tagged(r) : r \in getChangesToCommit}
    BY <1>2 DEF ReadWindow
  <2>2. \A q \in getChangesToCommit : Tagged(q).status = "taken"
    BY DEF TypeOK, Row, getChangesToCommit, Visible
  <2> HIDE DEF Tagged
  <2>3. QED  BY <2>1, <2>2 DEF NothingMissed
<1>3. CASE Users
  <2>1. PICK u \in User, e \in Entity, v \in Value \cup {Absent} : UserWrite(u, e, v)
    BY <1>3 DEF Users, UserBegin, UserCommit
  <2> DEFINE row == [ts |-> clock + 1, ent |-> e, old |-> db[e], new |-> v,
                     user |-> u, status |-> "shown"]
  <2>2. audit' = audit \cup {row}  BY <2>1 DEF UserWrite, Write
  <2>3. row.status = "shown"  OBVIOUS
  <2> HIDE DEF row
  <2>4. QED  BY <2>2, <2>3 DEF NothingMissed
<1>4. CASE Engine /\ ~ReadWindow
  <2>1. \/ ReadDb \/ ReadAfter \/ ReadCloud \/ ReadFails \/ Diff \/ Run
        \/ EndPass \/ StartRevert \/ InverseQuery \/ ApplyInverse \/ EndCommit
    BY <1>4 DEF Engine
  <2>2. QED  BY <1>1, <2>1, QuietEngine
<1>5. CASE Begin \/ Commit \/ Rollback \/ World \/ UNCHANGED vars
  BY <1>1, <1>5 DEF Begin, Commit, Rollback, StartCommit, data, World, CloudChange, vars
<1>6. ~Crash  BY DEF Crash
<1>7. QED  BY <1>2, <1>3, <1>4, <1>5, <1>6 DEF Next

\* Users whose statements are short, and workers that do not die, lose no change:
\* with WindowsComplete, all that was changed before START_COMMIT is taken.
THEOREM ShortStatementsSeen ==
  ASSUME ~LongWrites, ~MayCrash
  PROVE  Spec => []NothingMissed
<1> DEFINE Inv == NothingMissed /\ \A r \in audit : r.status # "hidden"
<1>1. Init => Inv  BY DEF Init, NothingMissed
<1>2. TypeOK /\ Inv /\ [Next]_vars => Inv'  BY ShownStep
<1>3. Inv => NothingMissed  OBVIOUS
<1> HIDE DEF Inv
<1>4. QED  BY <1>1, <1>2, <1>3, TypeCorrect, PTL DEF Spec

-----------------------------------------------------------------------------
(* The database at the end of a commit.                                    *)

\* Nobody has written the database or the cloud since START_COMMIT.
Undisturbed == InCommit /\ base.calm # "no"

\* What is memoized is then what is there: sync reads the cloud first and writes
\* only the database, which it reads again after every pass.
Fresh ==
  /\ \A r \in audit : r.ts <= mark.start
  /\ (phase = "sync" /\ pc \in {"readDb", "readAfter", "diff", "run"}) => memo.cloud = cloud
  /\ (phase = "sync" /\ pc \in {"readAfter", "diff"}) => memo.db = db
  /\ (phase = "sync" /\ pc = "diff") => memo.after = {}
  /\ (pc = "end" /\ "syncErr" \notin errs) => db = cloud

SyncInv == Undisturbed => Fresh

\* A step into a state the commit does not look at, or one that says it was
\* disturbed.
LEMMA WriteDisturbs ==
  ASSUME Records, NEW u \in User, NEW e \in Entity, NEW v \in Value \cup {Absent},
         UserWrite(u, e, v) \/ UserBegin(u, e, v)
  PROVE  ~Undisturbed'
<1>1. pc' = pc /\ Disturb(InCommit)  BY DEF UserWrite, UserBegin, Write
<1>2. QED  BY <1>1 DEF Disturb, Undisturbed, InCommit, Records

LEMMA UserCommitDisturbs ==
  ASSUME Records, NEW r \in audit, UserCommit(r)
  PROVE  ~Undisturbed'
  BY DEF UserCommit, Disturb, Undisturbed, Records

LEMMA CloudDisturbs ==
  ASSUME Records, NEW e \in Entity, NEW v \in Value \cup {Absent}, CloudChange(e, v)
  PROVE  ~Undisturbed'
<1>1. pc' = pc /\ Disturb(pc # "idle")  BY DEF CloudChange
<1>2. QED  BY <1>1 DEF Disturb, Undisturbed, InCommit, Records

\* START_COMMIT comes after every row of the log.
LEMMA SyncStart ==
  ASSUME PipelineAssumption, TypeOK, Commit \/ Rollback
  PROVE  SyncInv'
<1>1. pc' = "window" /\ audit' = audit /\ mark' = [mark EXCEPT !.start = clock, !.prev = mark.start]
  BY DEF Commit, Rollback, StartCommit, data
<1>2. mark'.start = clock  BY <1>1 DEF TypeOK
<1>3. \A r \in audit : r.ts <= clock  BY DEF TypeOK
<1>4. QED  BY <1>1, <1>2, <1>3 DEF SyncInv, Fresh

LEMMA SyncWindow ==
  ASSUME TypeOK, SyncInv, ReadWindow
  PROVE  SyncInv'
<1> DEFINE Tagged(q) == [q EXCEPT !.status = "taken"]
<1>1. /\ audit' = (audit \ getChangesToCommit) \cup {Tagged(r) : r \in getChangesToCommit}
      /\ UNCHANGED <<mark, base>> /\ pc = "window"
  BY DEF ReadWindow
<1>2. \/ phase' = "sync" /\ pc' = "readCloud"
      \/ phase' = "applyChanged" /\ pc' = "readDb"
  BY DEF ReadWindow, Start
<1>3. getChangesToCommit \subseteq audit  BY DEF getChangesToCommit, Visible
<1>4. \A q \in audit : Tagged(q).ts = q.ts  BY DEF TypeOK, Row
<1> HIDE DEF Tagged
<1>5. Undisturbed => \A r \in audit' : r.ts <= mark'.start
  BY <1>1, <1>3, <1>4 DEF SyncInv, Fresh
<1>6. Undisturbed' => Undisturbed  BY <1>1 DEF Undisturbed, InCommit
<1>7. QED  BY <1>2, <1>5, <1>6 DEF SyncInv, Fresh

LEMMA SyncReads ==
  ASSUME TypeOK, SyncInv, ReadDb \/ ReadAfter \/ ReadCloud
  PROVE  SyncInv'
<1>1. UNCHANGED <<db, cloud, audit, mark, base, phase, errs>>
  BY DEF ReadDb, ReadAfter, ReadCloud, data
<1>2. Undisturbed' => Undisturbed
  BY <1>1 DEF ReadDb, ReadAfter, ReadCloud, Undisturbed, InCommit
<1>3. CASE ReadDb
  <2>1. /\ pc = "readDb" /\ pc' = "readAfter" /\ memo'.db = db
        /\ memo'.cloud = memo.cloud
    BY <1>3 DEF ReadDb, TypeOK
  <2>2. QED  BY <1>1, <1>2, <2>1 DEF SyncInv, Fresh
<1>4. CASE ReadAfter
  <2>1. /\ pc = "readAfter" /\ memo'.after = Touched(getChangesAfterCommitStarted)
        /\ memo'.cloud = memo.cloud /\ memo'.db = memo.db
        /\ pc' = (IF Applying THEN "readCloud" ELSE "diff")
    BY <1>4 DEF ReadAfter, TypeOK
  <2>2. \A r \in audit : r.ts \in Nat /\ mark.start \in Nat  BY DEF TypeOK, Row
  <2>3. Undisturbed => getChangesAfterCommitStarted = {}
    BY <2>2 DEF SyncInv, Fresh, getChangesAfterCommitStarted, Visible
  <2>4. Undisturbed => memo'.after = {}  BY <2>1, <2>3 DEF Touched
  <2>5. QED  BY <1>1, <1>2, <2>1, <2>4 DEF SyncInv, Fresh, Applying
<1>5. CASE ReadCloud
  <2>1. /\ pc = "readCloud" /\ pc' = (IF Applying THEN "diff" ELSE "readDb")
        /\ memo'.cloud = cloud
    BY <1>5 DEF ReadCloud, TypeOK
  <2>2. QED  BY <1>1, <1>2, <2>1 DEF SyncInv, Fresh, Applying
<1>6. QED  BY <1>3, <1>4, <1>5

\* A call that throws ends sync with an error, or starts one.
LEMMA SyncThrows ==
  ASSUME SyncInv, PhaseThrows, InCommit, UNCHANGED <<data, mark, base>>
  PROVE  SyncInv'
<1>1. Undisturbed' => Undisturbed  BY DEF Undisturbed
<1>2. Undisturbed' => \A r \in audit' : r.ts <= mark'.start
  BY <1>1 DEF SyncInv, Fresh, data
<1>3. CASE phase = "sync" /\ Finish /\ errs' = errs \cup Thrown
  <2>1. pc' = "end" /\ "syncErr" \in errs'  BY <1>3 DEF Finish, Thrown
  <2>2. QED  BY <1>2, <2>1 DEF SyncInv, Fresh
<1>4. CASE Start("applyAll") \/ Start("sync")
  BY <1>2, <1>4 DEF Start, SyncInv, Fresh
<1>5. CASE pc' = "startRevert"  BY <1>2, <1>5 DEF SyncInv, Fresh
<1>6. QED  BY <1>3, <1>4, <1>5 DEF PhaseThrows

\* sync returns when the memoized database and cloud have no difference, and then
\* the two themselves have none.
LEMMA SyncDiff ==
  ASSUME TypeOK, SyncInv, Diff
  PROVE  SyncInv'
<1>1. UNCHANGED <<data, mark, base>> /\ pc = "diff" /\ InCommit  BY DEF Diff, InCommit
<1>2. CASE PhaseThrows  BY <1>1, <1>2, SyncThrows
<1>3. Undisturbed' => Undisturbed  BY <1>1 DEF Undisturbed
<1>4. Undisturbed' => \A r \in audit' : r.ts <= mark'.start
  BY <1>1, <1>3 DEF SyncInv, Fresh, data
<1>5. CASE Different = {} /\ PhaseReturns
  <2>1. CASE phase = "sync"
    <3>1. pc' = "end"  BY <1>5, <2>1 DEF PhaseReturns, Finish
    <3>2. ASSUME Undisturbed PROVE db = cloud
      <4>1. memo.db = db /\ memo.cloud = cloud /\ memo.after = {}
        BY <1>1, <2>1, <3>2 DEF SyncInv, Fresh
      <4>2. \A e \in Entity : db[e] = cloud[e]
        BY <1>5, <2>1, <4>1
        DEF Different, entitiesInDbOnly, entitiesInAwsOnly, entitiesChanged, Chosen
      <4>3. QED  BY <4>2 DEF TypeOK, States
    <3>3. QED  BY <1>1, <1>3, <1>4, <3>1, <3>2 DEF SyncInv, Fresh, data
  <2>2. CASE phase # "sync"
    <3>1. pc' = "readCloud"  BY <1>5, <2>2 DEF PhaseReturns, Start
    <3>2. QED  BY <1>4, <3>1 DEF SyncInv, Fresh
  <2>3. QED  BY <2>1, <2>2
<1>6. CASE pc' \in {"run", Outer} /\ UNCHANGED <<phase, memo, errs>>
  <2>1. phase = "sync" => pc' \in {"run", "readCloud"}  BY <1>6 DEF Outer, Applying
  <2>2. pc' # "end"  BY <1>6 DEF Outer
  <2>3. QED  BY <1>1, <1>3, <1>4, <1>6, <2>1, <2>2 DEF SyncInv, Fresh, data
<1>7. QED  BY <1>2, <1>5, <1>6 DEF Diff

LEMMA SyncRun ==
  ASSUME TypeOK, SyncInv, Run \/ EndPass
  PROVE  SyncInv'
<1>1. CASE Run
  <2>1. UNCHANGED <<audit, mark, base, pc, phase, memo, errs>> /\ pc = "run"
    BY <1>1 DEF Run
  <2>2. phase = "sync" => cloud' = cloud  BY <1>1 DEF Run, Succeeds, Fails, Applying
  <2>3. Undisturbed' => Undisturbed  BY <2>1 DEF Undisturbed, InCommit
  <2>4. QED  BY <2>1, <2>2, <2>3 DEF SyncInv, Fresh
<1>2. CASE EndPass
  <2>1. UNCHANGED <<data, mark, base>> /\ pc = "run" /\ InCommit
    BY <1>2 DEF EndPass, InCommit
  <2>2. CASE PhaseThrows  BY <2>1, <2>2, SyncThrows
  <2>3. CASE pc' \in {Inner, pc, Outer} /\ UNCHANGED <<phase, memo, errs>>
    <3>1. phase = "sync" => pc' \in {"readDb", "run", "readCloud"}
      BY <2>1, <2>3 DEF Inner, Outer, Applying
    <3>2. pc' # "end"  BY <2>1, <2>3 DEF Inner, Outer
    <3>3. Undisturbed' => Undisturbed  BY <2>1 DEF Undisturbed
    <3>4. QED  BY <2>1, <2>3, <3>1, <3>2, <3>3 DEF SyncInv, Fresh, data
  <2>4. QED  BY <1>2, <2>2, <2>3 DEF EndPass
<1>3. QED  BY <1>1, <1>2

\* A revert writes the database before the sync that follows it.
LEMMA SyncRevert ==
  ASSUME TypeOK, SyncInv, StartRevert \/ InverseQuery \/ ApplyInverse
  PROVE  SyncInv'
<1>1. /\ UNCHANGED <<audit, mark, base>> /\ InCommit
      /\ pc' = "revert" \/ (pc' = "readDb" /\ phase' = "applyRevert")
  BY DEF StartRevert, InverseQuery, ApplyInverse, Start, data, InCommit
<1>2. Undisturbed' => Undisturbed  BY <1>1 DEF Undisturbed
<1>3. QED  BY <1>1, <1>2 DEF SyncInv, Fresh

LEMMA SyncStep ==
  ASSUME PipelineAssumption, TypeOK, SyncInv, [Next]_vars
  PROVE  SyncInv'
<1>1. CASE Begin \/ EndCommit \/ Crash
  <2>1. ~InCommit'  BY <1>1 DEF Begin, EndCommit, Crash, InCommit
  <2>2. QED  BY <2>1 DEF SyncInv, Undisturbed
<1>2. CASE Commit \/ Rollback  BY <1>2, SyncStart
<1>3. CASE Engine /\ ~EndCommit
  <2>1. CASE ReadFails
    <3>1. UNCHANGED <<data, mark, base>> /\ InCommit /\ PhaseThrows
      BY <2>1 DEF ReadFails, InCommit
    <3>2. QED  BY <3>1, SyncThrows
  <2>2. QED
    BY <1>3, <2>1, SyncWindow, SyncReads, SyncDiff, SyncRun, SyncRevert DEF Engine
<1>4. CASE Users
  BY <1>4, WriteDisturbs, UserCommitDisturbs, TypeParts DEF Users, SyncInv
<1>5. CASE World  BY <1>5, CloudDisturbs, TypeParts DEF World, SyncInv
<1>6. CASE UNCHANGED vars
  BY <1>6 DEF vars, SyncInv, Undisturbed, InCommit, Fresh
<1>7. QED  BY <1>1, <1>2, <1>3, <1>4, <1>5, <1>6 DEF Next, Engine

\* SyncedAtEnd, for any entities, users and bounds: a sync that did not throw
\* leaves the database equal to the cloud, whatever failed, was reverted or was
\* left behind by a worker that died before, unless somebody wrote meanwhile.
THEOREM SyncSettles == Spec => []SyncedAtEnd
<1>1. Init => SyncInv  BY DEF Init, SyncInv, Undisturbed, InCommit
<1>2. TypeOK /\ SyncInv /\ [Next]_vars => SyncInv'  BY SyncStep, PipelineAssumption
<1>3. SyncInv => SyncedAtEnd  BY DEF SyncInv, SyncedAtEnd, Undisturbed, InCommit, Fresh
<1>4. QED  BY <1>1, <1>2, <1>3, TypeCorrect, PTL DEF Spec

=============================================================================
