------------------------ MODULE CommitOutcomeProofs ------------------------
(***************************************************************************)
(* What a commit of CommitPipeline has done when it ends, for any          *)
(* entities, values, users and bounds: one that ends without an error has  *)
(* put what the users wrote into the cloud.                                *)
(***************************************************************************)
EXTENDS CommitPipelineProofs

-----------------------------------------------------------------------------
(* What the log says of the database when a commit starts.                 *)

\* A statement changes its row, and nobody else writes the row before it ends.
RowsInv ==
  /\ \A r \in audit \cup taken : r.old # r.new
  /\ \A r \in audit : r.status = "hidden" => \A q \in audit : q.ent = r.ent => q.ts <= r.ts

\* The newest statement on a row is what the row is, unless an earlier commit
\* overrode it.
Newest(r) == \A q \in Visible : q.ent = r.ent => q.ts <= r.ts
Told == \A r \in Visible : Newest(r) /\ StillThere(r) => db[r.ent] = r.new

-----------------------------------------------------------------------------
(* What apply and sync make of it.                                         *)

Wanted == \A r \in taken : LastOfTaken(r) /\ StillThere(r) => db[r.ent] = r.new
Delivered == \A r \in taken : LastOfTaken(r) /\ StillThere(r) => cloud[r.ent] = r.new

\* apply writes the cloud only, and reads it after the database before it compares.
ReadInv ==
  Undisturbed /\ Applying =>
    /\ pc \in {"readAfter", "readCloud", "diff", "run"} => memo.db = db
    /\ pc \in {"readCloud", "diff", "run"} => memo.after = {}
    /\ pc = "diff" => memo.cloud = cloud

\* What a commit that goes back has in common: it remembers why.
GoesBack == pc \in {"startRevert", "revert"} \/ (InCommit /\ phase = "applyRevert")

EffectInv ==
  /\ pc = "open" => Told
  /\ GoesBack => errs # {}
  /\ pc = "end" => phase = "sync"
  /\ Undisturbed =>
       /\ pc = "window" => Told
       /\ (pc # "window" /\ errs = {}) => Wanted /\ (phase = "sync" => Delivered)
-----------------------------------------------------------------------------
(* The rows of the log.                                                    *)

\* A copy of a row with another status is the same statement.
Same(q, r) == q.ts = r.ts /\ q.ent = r.ent /\ q.old = r.old /\ q.new = r.new

LEMMA StatusOnly ==
  ASSUME NEW r \in Row, NEW s \in {"hidden", "shown", "taken", "missed"}
  PROVE  Same([r EXCEPT !.status = s], r) /\ [r EXCEPT !.status = s].status = s
  BY DEF Same, Row

\* Steps that only change the status of rows: of none that stays hidden.
LEMMA RowsKept ==
  ASSUME RowsInv, taken' \subseteq taken \cup audit,
         \A q \in audit' : \E r \in audit : Same(q, r) /\ (q.status = "hidden" => r.status = "hidden")
  PROVE  RowsInv'
<1>1. \A r \in audit' \cup taken' : r.old # r.new  BY DEF RowsInv, Same
<1>2. ASSUME NEW r \in audit', r.status = "hidden", NEW q \in audit', q.ent = r.ent
      PROVE  q.ts <= r.ts
  <2>1. PICK r0 \in audit : Same(r, r0) /\ r0.status = "hidden"  BY <1>2
  <2>2. PICK q0 \in audit : Same(q, q0)  OBVIOUS
  <2>3. QED  BY <1>2, <2>1, <2>2 DEF RowsInv, Same
<1>3. QED  BY <1>1, <1>2 DEF RowsInv

LEMMA RowsWindow ==
  ASSUME TypeOK, RowsInv, ReadWindow
  PROVE  RowsInv'
<1> DEFINE Tagged(q) == [q EXCEPT !.status = "taken"]
<1>1. /\ audit' = (audit \ getChangesToCommit) \cup {Tagged(r) : r \in getChangesToCommit}
      /\ taken' \subseteq getChangesToCommit
  BY DEF ReadWindow
<1>2. getChangesToCommit \subseteq audit  BY DEF getChangesToCommit, Visible
<1>3. \A q \in audit : Same(Tagged(q), q) /\ Tagged(q).status = "taken"
  BY StatusOnly DEF TypeOK
<1>4. \A q \in audit : Same(q, q)  BY DEF Same
<1> HIDE DEF Tagged
<1>5. QED  BY <1>1, <1>2, <1>3, <1>4, RowsKept

LEMMA RowsWrite ==
  ASSUME TypeOK, RowsInv, NEW u \in User, NEW e \in Entity, NEW v \in Value \cup {Absent},
         UserWrite(u, e, v) \/ UserBegin(u, e, v)
  PROVE  RowsInv'
<1>1. PICK st \in {"hidden", "shown"} : Write(u, e, v, st)
  BY DEF UserWrite, UserBegin
<1> DEFINE row == [ts |-> clock + 1, ent |-> e, old |-> db[e], new |-> v,
                   user |-> u, status |-> st]
<1>2. audit' = audit \cup {row} /\ taken' = taken /\ row.old # row.new /\ ~Locked(e)
  BY <1>1 DEF Write
<1>3. row.ts = clock + 1 /\ row.ent = e  OBVIOUS
<1> HIDE DEF row
<1>4. \A q \in audit : q.ts <= row.ts  BY <1>3 DEF TypeOK
<1>5. \A q \in audit : q.status = "hidden" => q.ent # row.ent
  BY <1>2, <1>3 DEF Locked
<1>6. row.ts <= row.ts  BY <1>3 DEF TypeOK
<1>7. QED  BY <1>2, <1>4, <1>5, <1>6 DEF RowsInv

LEMMA RowsStep ==
  ASSUME TypeOK, RowsInv, [Next]_vars
  PROVE  RowsInv'
<1>1. CASE audit' = audit /\ taken' \in {taken, {}}  BY <1>1 DEF RowsInv
<1>2. CASE Users
  <2>1. CASE \E u \in User, e \in Entity, v \in Value \cup {Absent} :
               UserWrite(u, e, v) \/ UserBegin(u, e, v)
    BY <2>1, RowsWrite
  <2>2. CASE \E r \in audit : UserCommit(r)
    <3>1. PICK r \in audit : UserCommit(r)  BY <2>2
    <3> DEFINE s == [r EXCEPT !.status = IF r.ts <= Reached THEN "missed" ELSE "shown"]
    <3>2. audit' = (audit \ {r}) \cup {s} /\ taken' = taken  BY <3>1 DEF UserCommit
    <3>3. Same(s, r) /\ s.status # "hidden"  BY StatusOnly DEF TypeOK
    <3>4. \A q \in audit : Same(q, q)  BY DEF Same
    <3> HIDE DEF s
    <3>5. QED  BY <3>2, <3>3, <3>4, RowsKept
  <2>3. QED  BY <1>2, <2>1, <2>2 DEF Users
<1>3. CASE Crash
  <2>1. audit' = {Missed(r) : r \in audit} /\ taken' = {}  BY <1>3 DEF Crash
  <2>2. ASSUME NEW r \in audit
        PROVE  Same(Missed(r), r) /\ (Missed(r).status = "hidden" => r.status = "hidden")
    BY StatusOnly DEF TypeOK, Missed, Same
  <2>3. QED  BY <2>1, <2>2, RowsKept
<1>4. CASE Engine
  <2>1. CASE ReadWindow  BY <2>1, RowsWindow
  <2>2. CASE ~ReadWindow
    <3>1. \/ ReadDb \/ ReadAfter \/ ReadCloud \/ ReadFails \/ Diff \/ Run
          \/ EndPass \/ StartRevert \/ InverseQuery \/ ApplyInverse \/ EndCommit
      BY <1>4, <2>2 DEF Engine
    <3>2. audit' = audit  BY <3>1, QuietEngine
    <3>3. taken' \in {taken, {}}
      BY <3>1 DEF ReadDb, ReadAfter, ReadCloud, ReadFails, Diff, Run, EndPass, StartRevert,
                  InverseQuery, ApplyInverse, EndCommit
    <3>4. QED  BY <1>1, <3>2, <3>3
  <2>3. QED  BY <2>1, <2>2
<1>5. CASE Begin \/ Commit \/ Rollback \/ World \/ UNCHANGED vars
  BY <1>1, <1>5 DEF Begin, Commit, Rollback, StartCommit, data, World, CloudChange, vars
<1>6. QED  BY <1>2, <1>3, <1>4, <1>5 DEF Next

-----------------------------------------------------------------------------
(* What apply has read.                                                    *)

\* Where a call of apply or sync goes on that throws, or returns.
LEMMA ThrowsTo ==
  ASSUME PhaseThrows
  PROVE  /\ errs \subseteq errs'
         /\ \/ phase = "applyChanged" /\ phase' = "applyAll" /\ pc' = "readDb"
            \/ phase = "applyAll" /\ phase' = "applyAll" /\ pc' = "startRevert" /\ errs' # {}
            \/ phase = "applyRevert" /\ phase' = "sync" /\ pc' = "readCloud" /\ errs' # {}
            \/ phase = "sync" /\ phase' = "sync" /\ pc' = "end" /\ errs' # {}
<1>1. errs' = errs \cup Thrown  BY DEF PhaseThrows
<1>2. \A p \in Phases : Start(p) =>
        phase' = p /\ pc' = IF p = "sync" THEN "readCloud" ELSE "readDb"
  BY DEF Start
<1>3. Finish => phase' = phase /\ pc' = "end"  BY DEF Finish
<1>4. CASE phase = "applyChanged" /\ Start("applyAll")
  BY <1>1, <1>2, <1>4 DEF Phases
<1>5. CASE phase = "applyAll" /\ pc' = "startRevert" /\ UNCHANGED phase
  BY <1>1, <1>5 DEF Thrown
<1>6. CASE phase = "applyRevert" /\ Start("sync")
  BY <1>1, <1>2, <1>6 DEF Thrown, Phases
<1>7. CASE phase = "sync" /\ Finish
  BY <1>1, <1>3, <1>7 DEF Thrown
<1>8. QED  BY <1>4, <1>5, <1>6, <1>7 DEF PhaseThrows

LEMMA ReturnsTo ==
  ASSUME PhaseReturns
  PROVE  /\ errs' = errs /\ phase' = "sync"
         /\ pc' = IF phase = "sync" THEN "end" ELSE "readCloud"
  BY DEF PhaseReturns, Finish, Start

LEMMA ReadReads ==
  ASSUME TypeOK, SyncInv, ReadInv, ReadDb \/ ReadAfter \/ ReadCloud
  PROVE  ReadInv'
<1>1. UNCHANGED <<db, cloud, audit, mark, taken, base, phase, errs>> /\ InCommit
  BY DEF ReadDb, ReadAfter, ReadCloud, data, InCommit
<1>2. Undisturbed' => Undisturbed  BY <1>1 DEF Undisturbed
<1>3. CASE ReadDb  BY <1>1, <1>2, <1>3 DEF ReadDb, ReadInv, TypeOK, Applying
<1>4. CASE ReadAfter
  <2>1. /\ memo'.after = Touched(getChangesAfterCommitStarted) /\ memo'.db = memo.db
        /\ pc = "readAfter" /\ (Applying => pc' = "readCloud")
    BY <1>4 DEF ReadAfter, TypeOK
  <2>2. \A r \in audit : r.ts \in Nat /\ mark.start \in Nat  BY DEF TypeOK, Row
  <2>3. Undisturbed => getChangesAfterCommitStarted = {}
    BY <2>2 DEF SyncInv, Fresh, getChangesAfterCommitStarted, Visible
  <2>4. Undisturbed => memo'.after = {}  BY <2>1, <2>3 DEF Touched
  <2>5. QED  BY <1>1, <1>2, <2>1, <2>4 DEF ReadInv, Applying
<1>5. CASE ReadCloud  BY <1>1, <1>2, <1>5 DEF ReadCloud, ReadInv, TypeOK, Applying
<1>6. QED  BY <1>3, <1>4, <1>5

\* A pass writes the cloud; what it compared is read again before the next diff.
LEMMA ReadRuns ==
  ASSUME ReadInv, Diff \/ Run \/ EndPass, ~PhaseThrows, ~PhaseReturns
  PROVE  ReadInv'
<1>1. UNCHANGED <<phase, memo, base>> /\ InCommit
  BY DEF Diff, Run, EndPass, InCommit
<1>2. Undisturbed' => Undisturbed  BY <1>1 DEF Undisturbed
<1>3. CASE Diff \/ EndPass
  <2>1. db' = db /\ cloud' = cloud /\ pc \in {"diff", "run"}  BY <1>3 DEF Diff, EndPass, data
  <2>2. Applying => pc' \in {"run", "readDb", "readCloud"}
    BY <1>3, <2>1 DEF Diff, EndPass, Outer, Inner
  <2>3. QED  BY <1>1, <1>2, <2>1, <2>2 DEF ReadInv, Applying
<1>4. CASE Run
  <2>1. pc = "run" /\ pc' = "run" /\ (Applying => db' = db)
    BY <1>4 DEF Run, Succeeds, Fails
  <2>2. QED  BY <1>1, <1>2, <2>1 DEF ReadInv, Applying
<1>5. QED  BY <1>3, <1>4

LEMMA ReadStep ==
  ASSUME TypeOK, SyncInv, ReadInv, [Next]_vars
  PROVE  ReadInv'
<1>1. CASE pc' \notin {"readAfter", "readCloud", "diff", "run"} \/ phase' = "sync"
  BY <1>1 DEF ReadInv, Applying
<1>2. CASE Begin \/ Commit \/ Rollback \/ Crash
  BY <1>1, <1>2 DEF Begin, Commit, Rollback, StartCommit, Crash
<1>3. CASE Users \/ World
  <2>1. ~Undisturbed'
    BY <1>3, WriteDisturbs, UserCommitDisturbs, CloudDisturbs, TypeParts, PipelineAssumption
    DEF Users, World
  <2>2. QED  BY <2>1 DEF ReadInv
<1>4. CASE Engine
  <2>1. CASE PhaseThrows  BY <1>1, <2>1, ThrowsTo
  <2>2. CASE PhaseReturns  BY <1>1, <2>2, ReturnsTo
  <2>3. CASE ReadWindow \/ StartRevert \/ InverseQuery \/ ApplyInverse \/ EndCommit
    BY <1>1, <2>3 DEF ReadWindow, StartRevert, InverseQuery, ApplyInverse, EndCommit, Start
  <2>4. QED  BY <1>4, <2>1, <2>2, <2>3, ReadReads, ReadRuns DEF Engine, ReadFails
<1>5. CASE UNCHANGED vars
  BY <1>5 DEF vars, ReadInv, Undisturbed, InCommit, Applying
<1>6. QED  BY <1>2, <1>3, <1>4, <1>5 DEF Next

-----------------------------------------------------------------------------
(* The steps of a commit.                                                  *)

\* What the commit is to do does not change while nobody writes the database.
LEMMA WantedKept ==
  ASSUME UNCHANGED <<db, taken, mark, base>>
  PROVE  (Wanted => Wanted') /\ (Delivered /\ cloud' = cloud => Delivered')
  BY DEF Wanted, Delivered, StillThere, LastOfTaken

LEMMA EffectThrows ==
  ASSUME EffectInv, PhaseThrows, InCommit, pc # "window",
         UNCHANGED <<data, mark, taken, base>>
  PROVE  EffectInv'
<1>1. pc' \notin {"open", "window"} /\ (pc' = "end" => phase' = "sync")
  BY ThrowsTo
<1>2. GoesBack' => errs' # {}  BY ThrowsTo DEF GoesBack
<1>3. ASSUME Undisturbed', errs' = {} PROVE Wanted' /\ phase' # "sync"
  <2>1. Undisturbed /\ errs = {}  BY <1>3, ThrowsTo DEF Undisturbed
  <2>2. Wanted  BY <2>1 DEF EffectInv
  <2>3. QED  BY <1>3, <2>2, WantedKept, ThrowsTo DEF data
<1>4. QED  BY <1>1, <1>2, <1>3 DEF EffectInv

\* apply returns: every entity it was to apply is in the cloud as in the database.
LEMMA AppliedAgree ==
  ASSUME TypeOK, RowsInv, ReadInv, EffectInv, Undisturbed, pc = "diff", Applying, Different = {},
         errs = {}
  PROVE  Wanted /\ Delivered
<1>1. Wanted  BY DEF EffectInv
<1>2. memo.db = db /\ memo.cloud = cloud /\ memo.after = {}
  BY DEF ReadInv
<1>3. \A e \in Chosen : db[e] = cloud[e]
  BY <1>2 DEF Different, entitiesInDbOnly, entitiesInAwsOnly, entitiesChanged
<1>4. ASSUME NEW r \in taken, LastOfTaken(r), StillThere(r)
      PROVE  cloud[r.ent] = r.new
  <2>1. db[r.ent] = r.new  BY <1>1, <1>4 DEF Wanted
  <2>2. r.ent \in Entity /\ r.old # r.new  BY DEF TypeOK, Row, RowsInv
  <2>3. r.ent \in Chosen  BY <1>2, <2>1, <2>2 DEF Chosen, Touched
  <2>4. QED  BY <1>3, <2>1, <2>3
<1>5. QED  BY <1>1, <1>4 DEF Delivered

LEMMA EffectDiff ==
  ASSUME TypeOK, RowsInv, ReadInv, EffectInv, Diff
  PROVE  EffectInv'
<1>1. pc = "diff" /\ InCommit /\ UNCHANGED <<data, mark, taken, base>>
  BY DEF Diff, InCommit
<1>2. Undisturbed' => Undisturbed  BY <1>1 DEF Undisturbed
<1>3. CASE PhaseThrows  BY <1>1, <1>3, EffectThrows
<1>4. CASE Different = {} /\ PhaseReturns
  <2>1. /\ pc' \in {"end", "readCloud"} /\ phase' = "sync" /\ errs' = errs
    BY <1>4, ReturnsTo
  <2>2. ~GoesBack'  BY <2>1 DEF GoesBack
  <2>3. ASSUME Undisturbed', errs' = {} PROVE Wanted' /\ Delivered'
    <3>1. Wanted /\ Delivered
      BY <1>1, <1>2, <1>4, <2>1, <2>3, AppliedAgree DEF EffectInv, Applying
    <3>2. QED  BY <1>1, <3>1, WantedKept DEF data
  <2>4. QED  BY <2>1, <2>2, <2>3 DEF EffectInv
<1>5. CASE pc' \in {"run", Outer} /\ UNCHANGED <<phase, memo, errs>>
  <2>1. pc' \in {"run", "readDb", "readCloud"} /\ (Applying => pc' \in {"run", "readDb"})
    BY <1>5 DEF Outer
  <2>2. InCommit'  BY <2>1 DEF InCommit
  <2>3. GoesBack' => GoesBack  BY <1>1, <1>5, <2>1 DEF GoesBack
  <2>4. ASSUME Undisturbed', errs' = {} PROVE Wanted' /\ (phase' = "sync" => Delivered')
    BY <1>1, <1>2, <1>5, <2>4, WantedKept DEF EffectInv, data
  <2>5. QED  BY <1>5, <2>1, <2>3, <2>4 DEF EffectInv
<1>6. QED  BY <1>3, <1>4, <1>5 DEF Diff

LEMMA EffectReads ==
  ASSUME EffectInv, ReadDb \/ ReadAfter \/ ReadCloud
  PROVE  EffectInv'
<1>1. UNCHANGED <<db, cloud, audit, mark, taken, base, phase, errs>> /\ InCommit
  BY DEF ReadDb, ReadAfter, ReadCloud, data, InCommit
<1>2. /\ pc \notin {"open", "window", "end"}
      /\ pc' \in {"readDb", "readAfter", "readCloud", "diff"}
  BY DEF ReadDb, ReadAfter, ReadCloud
<1>3. Undisturbed' => Undisturbed  BY <1>1 DEF Undisturbed
<1>4. GoesBack' => GoesBack  BY <1>1, <1>2 DEF GoesBack
<1>5. ASSUME Undisturbed', errs' = {} PROVE Wanted' /\ (phase' = "sync" => Delivered')
  BY <1>1, <1>2, <1>3, <1>5, WantedKept DEF EffectInv
<1>6. QED  BY <1>1, <1>2, <1>3, <1>4, <1>5 DEF EffectInv

LEMMA EffectRun ==
  ASSUME TypeOK, SyncInv, EffectInv, Run
  PROVE  EffectInv'
<1>1. /\ UNCHANGED <<audit, mark, taken, memo, base, pc, phase, errs>>
      /\ pc = "run" /\ InCommit /\ InCommit'
  BY DEF Run, InCommit
<1>2. PICK e \in Entity : Succeeds(e) \/ Fails(e)  BY DEF Run
<1>3. Undisturbed' => Undisturbed  BY <1>1 DEF Undisturbed
<1>4. GoesBack' => GoesBack  BY <1>1 DEF GoesBack
<1>5. CASE Applying
  <2>1. db' = db  BY <1>2, <1>5 DEF Succeeds, Fails
  <2>2. QED  BY <1>1, <1>3, <1>4, <1>5, <2>1, WantedKept DEF EffectInv, Applying
<1>6. CASE ~Applying
  <2>1. /\ cloud' = cloud
        /\ db' = db \/ db' = [db EXCEPT ![e] = memo.cloud[e]]
    BY <1>2, <1>6 DEF Succeeds, Fails
  <2>2. ASSUME Undisturbed, errs = {} PROVE Wanted' /\ Delivered'
    <3>1. memo.cloud = cloud
      BY <1>1, <1>6, <2>2 DEF SyncInv, Fresh, Applying
    <3>2. Wanted /\ Delivered  BY <1>1, <1>6, <2>2 DEF EffectInv, Applying
    <3>3. ASSUME NEW r \in taken, LastOfTaken(r), StillThere(r)
          PROVE  db'[r.ent] = r.new
      <4>1. db[r.ent] = r.new /\ cloud[r.ent] = r.new
        BY <3>2, <3>3 DEF Wanted, Delivered
      <4>2. r.ent \in Entity /\ db \in [Entity -> Value \cup {Absent}]
        BY DEF TypeOK, States, Row
      <4>3. QED  BY <2>1, <3>1, <4>1, <4>2
    <3>4. Wanted'  BY <1>1, <3>3 DEF Wanted, LastOfTaken, StillThere
    <3>5. Delivered'  BY <1>1, <2>1, <3>2 DEF Delivered, LastOfTaken, StillThere
    <3>6. QED  BY <3>4, <3>5
  <2>3. QED  BY <1>1, <1>3, <1>4, <2>2 DEF EffectInv
<1>7. QED  BY <1>5, <1>6

LEMMA EffectEndPass ==
  ASSUME TypeOK, EffectInv, EndPass
  PROVE  EffectInv'
<1>1. pc = "run" /\ InCommit /\ UNCHANGED <<data, mark, taken, base>>
  BY DEF EndPass, InCommit
<1>2. CASE PhaseThrows  BY <1>1, <1>2, EffectThrows
<1>3. CASE pc' \in {Inner, pc, Outer} /\ UNCHANGED <<phase, memo, errs>>
  <2>1. pc' \in {"run", "readDb", "readCloud"}
    BY <1>1, <1>3 DEF Outer, Inner
  <2>2. InCommit'  BY <2>1 DEF InCommit
  <2>3. GoesBack' => GoesBack  BY <1>1, <1>3, <2>1 DEF GoesBack
  <2>4. Undisturbed' => Undisturbed  BY <1>1 DEF Undisturbed
  <2>5. ASSUME Undisturbed', errs' = {} PROVE Wanted' /\ (phase' = "sync" => Delivered')
    BY <1>1, <1>3, <2>4, <2>5, WantedKept DEF EffectInv, data
  <2>6. QED  BY <1>3, <2>1, <2>3, <2>5 DEF EffectInv
<1>4. QED  BY <1>2, <1>3 DEF EndPass

\* On the way back a commit has an error, and is not judged by its effect.
LEMMA EffectRevert ==
  ASSUME EffectInv, StartRevert \/ InverseQuery \/ ApplyInverse \/ EndCommit
  PROVE  EffectInv'
<1>1. CASE EndCommit
  <2>1. pc' = "idle"  BY <1>1 DEF EndCommit
  <2>2. QED  BY <2>1 DEF EffectInv, GoesBack, Undisturbed, InCommit
<1>2. CASE StartRevert \/ InverseQuery \/ ApplyInverse
  <2>1. GoesBack /\ errs' = errs
    BY <1>2 DEF StartRevert, InverseQuery, ApplyInverse, GoesBack
  <2>2. /\ pc' \in {"revert", "readDb"}
        /\ pc' = "readDb" => phase' = "applyRevert"
    BY <1>2 DEF StartRevert, InverseQuery, ApplyInverse, Start
  <2>3. errs' # {}  BY <2>1 DEF EffectInv
  <2>4. QED  BY <2>2, <2>3 DEF EffectInv
<1>3. QED  BY <1>1, <1>2

\* The newest of the changes taken is the newest there is.
LEMMA EffectWindow ==
  ASSUME TypeOK, SyncInv, EffectInv, ReadWindow
  PROVE  EffectInv'
<1>1. /\ pc = "window" /\ InCommit /\ UNCHANGED <<db, cloud, mark, errs, base>>
      /\ taken' \subseteq getChangesToCommit
      /\ taken' = {} \/ taken' = getChangesToCommit
  BY DEF ReadWindow, InCommit
<1>2. \/ phase' = "applyChanged" /\ pc' = "readDb"
      \/ phase' = "sync" /\ pc' = "readCloud" /\ taken' = {}
  BY DEF ReadWindow, Start
<1>3. ~GoesBack'  BY <1>2 DEF GoesBack
<1>4. Undisturbed' => Undisturbed  BY <1>1 DEF Undisturbed
<1>5. ASSUME Undisturbed, NEW r \in taken', LastOfTaken(r)', StillThere(r)'
      PROVE  db[r.ent] = r.new
  <2>1. Told /\ \A q \in audit : q.ts <= mark.start
    BY <1>1, <1>5 DEF EffectInv, SyncInv, Fresh
  <2>2. r \in getChangesToCommit /\ taken' = getChangesToCommit  BY <1>1, <1>5
  <2>3. \A q \in Visible : q.ts \in Nat /\ mark.prev \in Nat
    BY DEF TypeOK, Row, Visible
  <2>4. r \in Visible /\ mark.prev < r.ts
    BY <2>2 DEF getChangesToCommit
  <2>5. ASSUME NEW q \in Visible, q.ent = r.ent PROVE q.ts <= r.ts
    <3>1. CASE mark.prev < q.ts
      <4>1. q \in getChangesToCommit  BY <2>1, <3>1 DEF getChangesToCommit, Visible
      <4>2. QED  BY <1>5, <2>2, <2>5, <4>1 DEF LastOfTaken
    <3>2. CASE ~(mark.prev < q.ts)  BY <2>3, <2>4, <3>2
    <3>3. QED  BY <3>1, <3>2
  <2>6. Newest(r) /\ StillThere(r)  BY <1>1, <1>5, <2>5 DEF Newest, StillThere
  <2>7. QED  BY <2>1, <2>4, <2>6 DEF Told
<1>6. Undisturbed => Wanted'  BY <1>1, <1>5 DEF Wanted
<1>7. taken' = {} => Delivered'  BY DEF Delivered
<1>8. QED  BY <1>2, <1>3, <1>4, <1>6, <1>7 DEF EffectInv

-----------------------------------------------------------------------------
(* The steps around a commit.                                              *)

\* The users write the log and the database together.
LEMMA EffectWrite ==
  ASSUME TypeOK, RowsInv, EffectInv,
         NEW u \in User, NEW e \in Entity, NEW v \in Value \cup {Absent},
         UserWrite(u, e, v) \/ UserBegin(u, e, v)
  PROVE  EffectInv'
<1>1. ~Undisturbed'  BY WriteDisturbs, TypeParts, PipelineAssumption
<1>2. PICK st \in {"hidden", "shown"} :
        /\ Write(u, e, v, st)
        /\ IF st = "shown" THEN db' = [db EXCEPT ![e] = v] ELSE db' = db
  BY DEF UserWrite, UserBegin
<1> DEFINE row == [ts |-> clock + 1, ent |-> e, old |-> db[e], new |-> v,
                   user |-> u, status |-> st]
<1>3. /\ UNCHANGED <<pc, phase, mark, errs>> /\ audit' = audit \cup {row}
      /\ Disturb(InCommit)
  BY <1>2 DEF Write
<1>4. row.ts = clock + 1 /\ row.ent = e /\ row.new = v /\ row.status = st  OBVIOUS
<1> HIDE DEF row
<1>5. base'.db = base.db  BY <1>3 DEF Disturb, TypeOK
<1>6. ASSUME pc = "open" PROVE Told'
  <2>1. Told  BY <1>6 DEF EffectInv
  <2>2. \A q \in Visible : q \in Visible'  BY <1>3 DEF Visible
  <2>3. ASSUME NEW r \in Visible', Newest(r)', StillThere(r)'
        PROVE  db'[r.ent] = r.new
    <3>1. CASE r = row
      <4>1. st = "shown"  BY <1>4, <2>3, <3>1 DEF Visible
      <4>2. QED  BY <1>2, <1>4, <3>1, <4>1 DEF TypeOK, States
    <3>2. CASE r # row
      <4>1. r \in Visible  BY <1>3, <2>3, <3>2 DEF Visible
      <4>2. Newest(r) /\ StillThere(r)
        BY <1>3, <1>5, <2>2, <2>3 DEF Newest, StillThere
      <4>3. db[r.ent] = r.new  BY <2>1, <4>1, <4>2 DEF Told
      <4>4. CASE st = "shown"
        <5>1. row \in Visible'  BY <1>3, <1>4, <4>4 DEF Visible
        <5>2. r.ts < row.ts  BY <1>4, <4>1 DEF TypeOK, Visible
        <5>3. r.ent # e  BY <1>4, <2>3, <4>1, <5>1, <5>2 DEF Newest, TypeOK, Visible
        <5>4. r.ent \in Entity /\ db \in [Entity -> Value \cup {Absent}]
          BY <4>1 DEF TypeOK, States, Row, Visible
        <5>5. QED  BY <1>2, <4>3, <4>4, <5>3, <5>4
      <4>5. CASE st = "hidden"  BY <1>2, <4>3, <4>5
      <4>6. QED  BY <4>4, <4>5
    <3>3. QED  BY <3>1, <3>2
  <2>4. QED  BY <2>3 DEF Told
<1>7. QED  BY <1>1, <1>3, <1>6 DEF EffectInv, GoesBack, InCommit

\* A statement that was in the way of all others on its row appears.
LEMMA EffectUserCommit ==
  ASSUME TypeOK, RowsInv, EffectInv, NEW r \in audit, UserCommit(r)
  PROVE  EffectInv'
<1>1. ~Undisturbed'  BY UserCommitDisturbs, TypeParts, PipelineAssumption
<1> DEFINE s == [r EXCEPT !.status = IF r.ts <= Reached THEN "missed" ELSE "shown"]
<1>2. /\ audit' = (audit \ {r}) \cup {s} /\ UNCHANGED <<pc, phase, mark, errs>>
      /\ db' = [db EXCEPT ![r.ent] = r.new] /\ Disturb(TRUE) /\ r.status = "hidden"
  BY DEF UserCommit
<1>3. Same(s, r) /\ s.status # "hidden"  BY StatusOnly DEF TypeOK
<1> HIDE DEF s
<1>4. base'.db = base.db  BY <1>2 DEF Disturb, TypeOK
<1>5. ASSUME pc = "open" PROVE Told'
  <2>1. Told  BY <1>5 DEF EffectInv
  <2>2. Visible' = Visible \cup {s}  BY <1>2, <1>3 DEF Visible
  <2>3. ASSUME NEW q \in Visible', Newest(q)', StillThere(q)'
        PROVE  db'[q.ent] = q.new
    <3>1. CASE q.ent = r.ent
      <4>1. q = s
        <5>1. s.ts <= q.ts  BY <1>3, <2>2, <2>3, <3>1 DEF Newest, Same
        <5>2. CASE q \in audit
          <6>1. q.ts <= r.ts  BY <1>2, <3>1, <5>2 DEF RowsInv
          <6>2. q.ts = r.ts  BY <1>3, <5>1, <5>2, <6>1 DEF Same, TypeOK
          <6>3. q = r  BY <5>2, <6>2 DEF TypeOK
          <6>4. QED  BY <1>2, <2>2, <2>3, <6>3 DEF Visible
        <5>3. QED  BY <2>2, <2>3, <5>2 DEF Visible
      <4>2. QED  BY <1>2, <1>3, <4>1 DEF TypeOK, States, Same, Row
    <3>2. CASE q.ent # r.ent
      <4>1. q \in Visible  BY <1>3, <2>2, <2>3, <3>2 DEF Same
      <4>2. Newest(q) /\ StillThere(q)
        BY <1>2, <1>4, <2>2, <2>3 DEF Newest, StillThere
      <4>3. db[q.ent] = q.new  BY <2>1, <4>1, <4>2 DEF Told
      <4>4. q.ent \in Entity /\ db \in [Entity -> Value \cup {Absent}]
        BY <4>1 DEF TypeOK, States, Row, Visible
      <4>5. QED  BY <1>2, <3>2, <4>3, <4>4
    <3>3. QED  BY <3>1, <3>2
  <2>4. QED  BY <2>3 DEF Told
<1>6. QED  BY <1>1, <1>2, <1>5 DEF EffectInv, GoesBack, InCommit

LEMMA EffectBoundary ==
  ASSUME TypeOK, EffectInv, Begin \/ Commit \/ Rollback \/ World
  PROVE  EffectInv'
<1>1. CASE Begin
  <2>1. /\ pc' = "open" /\ audit' = audit /\ db' = db /\ mark' = [mark EXCEPT !.open = clock]
        /\ base'.db = db
    BY <1>1 DEF Begin
  <2>2. mark'.open = clock /\ \A r \in audit : ~(r.ts > clock)  BY <2>1 DEF TypeOK
  <2>3. Told'  BY <2>1, <2>2 DEF Told, StillThere, Visible
  <2>4. QED  BY <2>1, <2>3 DEF EffectInv, GoesBack, Undisturbed, InCommit
<1>2. CASE Commit \/ Rollback
  <2>1. PICK p \in {"applyChanged", "sync"} : StartCommit(p)
    BY <1>2 DEF Commit, Rollback
  <2>2. /\ pc = "open" /\ pc' = "window" /\ phase' = p /\ UNCHANGED <<audit, db>>
        /\ mark' = [mark EXCEPT !.start = clock, !.prev = mark.start]
        /\ base' = [base EXCEPT !.calm = IF @ = "no" THEN "sinceStart" ELSE @]
    BY <2>1 DEF StartCommit, data
  <2>3. mark'.open = mark.open /\ base'.db = base.db  BY <2>2 DEF TypeOK
  <2>4. Told'  BY <2>2, <2>3 DEF EffectInv, Told, Newest, StillThere, Visible
  <2>5. QED  BY <2>2, <2>4 DEF EffectInv, GoesBack
<1>3. CASE World
  <2>1. PICK e \in Entity, v \in Value \cup {Absent} : CloudChange(e, v)
    BY <1>3 DEF World
  <2>2. ~Undisturbed'  BY <2>1, CloudDisturbs, TypeParts, PipelineAssumption
  <2>3. UNCHANGED <<audit, db, pc, phase, mark, errs>> /\ Disturb(pc # "idle")
    BY <2>1 DEF CloudChange
  <2>4. base'.db = base.db  BY <2>3 DEF Disturb, TypeOK
  <2>5. pc = "open" => Told'
    BY <2>3, <2>4 DEF EffectInv, Told, Newest, StillThere, Visible
  <2>6. QED  BY <2>2, <2>3, <2>5 DEF EffectInv, GoesBack, InCommit
<1>4. QED  BY <1>1, <1>2, <1>3

LEMMA EffectStutter ==
  ASSUME EffectInv, UNCHANGED vars
  PROVE  EffectInv'
<1>1. UNCHANGED <<db, cloud, audit, pc, phase, mark, taken, memo, errs, base>>  BY DEF vars
<1>2. Told => Told'  BY <1>1 DEF Told, Newest, StillThere, Visible
<1>3. (Wanted => Wanted') /\ (Delivered => Delivered')  BY <1>1, WantedKept
<1>4. QED  BY <1>1, <1>2, <1>3 DEF EffectInv, GoesBack, Undisturbed, InCommit

LEMMA EffectStep ==
  ASSUME ~MayCrash, TypeOK, RowsInv, SyncInv, ReadInv, EffectInv, [Next]_vars
  PROVE  EffectInv'
<1>1. CASE Begin \/ Commit \/ Rollback \/ World  BY <1>1, EffectBoundary
<1>2. CASE Users  BY <1>2, EffectWrite, EffectUserCommit DEF Users
<1>3. CASE Engine
  <2>1. CASE ReadFails
    <3>1. UNCHANGED <<data, mark, taken, base>> /\ InCommit /\ PhaseThrows /\ pc # "window"
      BY <2>1 DEF ReadFails, InCommit
    <3>2. QED  BY <3>1, EffectThrows
  <2>2. QED
    BY <1>3, <2>1, EffectWindow, EffectReads, EffectDiff, EffectRun, EffectEndPass,
       EffectRevert DEF Engine
<1>4. ~Crash  BY DEF Crash
<1>5. CASE UNCHANGED vars  BY <1>5, EffectStutter
<1>6. QED  BY <1>1, <1>2, <1>3, <1>4, <1>5 DEF Next

-----------------------------------------------------------------------------
(* The theorems.                                                           *)

\* What SyncSettles rests on.
LEMMA SyncKept == Spec => []SyncInv
<1>1. Init => SyncInv  BY DEF Init, SyncInv, Undisturbed, InCommit
<1>2. TypeOK /\ SyncInv /\ [Next]_vars => SyncInv'  BY SyncStep, PipelineAssumption
<1>3. QED  BY <1>1, <1>2, TypeCorrect, PTL DEF Spec

LEMMA RowsAlways == Spec => []RowsInv
<1>1. Init => RowsInv  BY DEF Init, RowsInv
<1>2. TypeOK /\ RowsInv /\ [Next]_vars => RowsInv'  BY RowsStep
<1>3. QED  BY <1>1, <1>2, TypeCorrect, PTL DEF Spec

LEMMA ReadAlways == Spec => []ReadInv
<1>1. Init => ReadInv  BY DEF Init, ReadInv, Undisturbed, InCommit
<1>2. TypeOK /\ SyncInv /\ ReadInv /\ [Next]_vars => ReadInv'  BY ReadStep
<1>3. QED  BY <1>1, <1>2, TypeCorrect, SyncKept, PTL DEF Spec

\* CommitTakesEffect, for any entities, users and bounds, with statements that
\* take long and calls that fail: a commit that ends without an error has found
\* the database and the cloud equal in all that was changed (Diff), and the sync
\* after it changes none of that.  Only a worker that dies while it reverts can
\* leave behind what a later commit mistakes for the users' wish.
THEOREM CommitEffective ==
  ASSUME ~MayCrash
  PROVE  Spec => []CommitTakesEffect
<1>1. Init => EffectInv
  BY DEF Init, EffectInv, Undisturbed, InCommit, GoesBack
<1>2. TypeOK /\ RowsInv /\ SyncInv /\ ReadInv /\ EffectInv /\ [Next]_vars => EffectInv'
  BY EffectStep
<1>3. EffectInv => CommitTakesEffect
  <2> SUFFICES ASSUME EffectInv, pc = "end", errs = {}, base.calm # "no"
               PROVE  Wanted /\ Delivered
    BY DEF CommitTakesEffect, Wanted, Delivered
  <2>1. Undisturbed  BY DEF Undisturbed, InCommit
  <2>2. QED  BY <2>1 DEF EffectInv
<1>4. QED  BY <1>1, <1>2, <1>3, TypeCorrect, RowsAlways, SyncKept, ReadAlways, PTL DEF Spec

=============================================================================
