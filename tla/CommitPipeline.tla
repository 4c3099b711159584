--------------------------- MODULE CommitPipeline ---------------------------
(***************************************************************************)
(* What one iasql_commit or iasql_rollback does to the database and to the *)
(* cloud (src/modules/iasql_functions/iasql.ts): it takes the changes that *)
(* iasql_audit_log holds since the previous START_COMMIT, applies them to  *)
(* the cloud, on failure applies everything, on failure again reverts the  *)
(* transaction, and at last syncs the database from the cloud.  Meanwhile  *)
(* users write the database and others write the cloud.                    *)
(*                                                                         *)
(* An entity is a row of a module's table and the cloud resource with the  *)
(* same cloud id.  Commits exclude each other here: that is the subject of *)
(* TransactionLock.                                                        *)
(***************************************************************************)
EXTENDS Integers, FiniteSets

CONSTANTS
  Entity,       \* cloud ids
  Value,        \* what the other columns of a row hold
  Absent,       \* no row, no resource
  Needs,        \* Needs[e]: the entities a foreign key of e refers to
  Rejected,     \* values the cloud refuses to create or to update to
  Ignored,      \* values the cloud says it takes, and does not
  User,         \* database sessions
  MaxWrites,    \* bound: rows the users change
  MaxExternal,  \* bound: changes of the cloud by others
  LongWrites,   \* whether a user's write may stay uncommitted for a while
  Flaky,        \* whether a call of the cloud or of the database may fail for no reason
  MayCrash      \* whether a worker may die in a commit

ASSUME PipelineAssumption ==
  /\ IsFiniteSet(Entity)
  /\ Absent \notin Value
  /\ Rejected \subseteq Value /\ Ignored \subseteq Value
  /\ Needs \in [Entity -> SUBSET Entity]
  /\ MaxWrites \in Nat /\ MaxExternal \in Nat
  /\ LongWrites \in BOOLEAN /\ Flaky \in BOOLEAN /\ MayCrash \in BOOLEAN

VARIABLES
  db,       \* db[e]: the committed row
  cloud,    \* cloud[e]: the resource
  audit,    \* the users' rows of iasql_audit_log
  clock,    \* the newest time stamp; one per row of audit
  external, \* how often others changed the cloud
  pc,       \* what the commit is about to do
  phase,    \* the call of apply or sync it is in
  mark,     \* the newest OPEN_TRANSACTION, START_COMMIT and the one before
  taken,    \* changesToCommit
  memo,     \* context.memo, and changesAfterCommitByEntity
  loop,     \* the local variables of apply or sync
  inverse,  \* audit rows whose inverse queries are still to run
  errs,     \* applyErr, revertErr, syncErr
  base      \* history variable: db and cloud when the transaction was opened

vars == <<db, cloud, audit, clock, external, pc, phase, mark, taken, memo,
          loop, inverse, errs, base>>

data == <<db, cloud, audit, clock, external>>

-----------------------------------------------------------------------------
(* Rows, resources and what refers to them.                                *)

States == [Entity -> Value \cup {Absent}]

Present(s) == {e \in Entity : s[e] # Absent}

\* Foreign keys, and their counterparts in the cloud.
Fits(s, e, v) ==
  IF v = Absent THEN \A f \in Present(s) \ {e} : e \notin Needs[f]
                ELSE Needs[e] \subseteq Present(s)

\* A row of the audit log: the statement changed e from old to new at ts.
\* It is hidden until the statement's transaction commits; a commit that has
\* it among its changesToCommit gives it a transaction id ("taken").  That it
\* is "missed", for good, is a note of this module.
Row == [ts : Nat, ent : Entity, old : Value \cup {Absent},
        new : Value \cup {Absent}, user : User,
        status : {"hidden", "shown", "taken", "missed"}]

Visible == {r \in audit : r.status # "hidden"}

\* e is locked by the uncommitted statement of a row: its own, or one that
\* has checked a foreign key between the two.
Locked(e) ==
  \E r \in audit : /\ r.status = "hidden"
                   /\ r.ent = e \/ e \in Needs[r.ent] \/ r.ent \in Needs[e]

\* Mutant of Touched: only what is found in the table.
Touched_inTable(rows) == {r.ent : r \in {q \in rows : db[q.ent] # Absent}}

\* The entities rows tell of: an INSERT is looked up in the table, of an
\* UPDATE or DELETE the original is recreated.
Touched(rows) == {r.ent : r \in {q \in rows : q.old # Absent \/ db[q.ent] # Absent}}

\* Mutant of getChangesToCommit: a window that leaves its last moment out.
getChangesToCommit_exclusive == {r \in Visible : mark.prev < r.ts /\ r.ts < mark.start}

getChangesToCommit == {r \in Visible : mark.prev < r.ts /\ r.ts <= mark.start}

\* Mutant of getChangesAfterCommitStarted: since ever.
getChangesAfterCommitStarted_ever == Visible

\* How far the windows of all commits have come.
Reached == IF pc = "window" THEN mark.prev ELSE mark.start

getChangesAfterCommitStarted == {r \in Visible : r.ts > mark.start}
getChangeLogsSinceLastBegin == {r \in Visible : r.ts > mark.open}

-----------------------------------------------------------------------------
(* The users and the rest of the world.                                    *)

InCommit == pc \notin {"idle", "open"}

Disturb(when) == base' = IF when THEN [base EXCEPT !.calm = "no"] ELSE base

\* A statement in a transaction of its own.  now() is the time the
\* transaction began, so the row's ts is older than the row is visible.
Write(u, e, v, status) ==
  /\ clock < MaxWrites
  /\ ~Locked(e)
  /\ v # db[e]
  /\ Fits(db, e, v)
  /\ clock' = clock + 1
  /\ audit' = audit \cup {[ts |-> clock + 1, ent |-> e, old |-> db[e], new |-> v,
                           user |-> u, status |-> status]}
  /\ Disturb(InCommit)
  /\ UNCHANGED <<cloud, external, pc, phase, mark, taken, memo, loop, inverse, errs>>

UserWrite(u, e, v) == Write(u, e, v, "shown") /\ db' = [db EXCEPT ![e] = v]

UserBegin(u, e, v) ==
  /\ LongWrites
  /\ \A r \in audit : r.user = u => r.status # "hidden"
  /\ Write(u, e, v, "hidden")
  /\ db' = db

\* COMMIT of the SQL transaction: the row and its audit record appear, if too
\* late for the window of its time stamp it is missed.
UserCommit(r) ==
  /\ r.status = "hidden"
  /\ db' = [db EXCEPT ![r.ent] = r.new]
  /\ audit' = (audit \ {r}) \cup
       {[r EXCEPT !.status = IF r.ts <= Reached THEN "missed" ELSE "shown"]}
  /\ Disturb(TRUE)
  /\ UNCHANGED <<cloud, clock, external, pc, phase, mark, taken, memo, loop, inverse, errs>>

\* Somebody uses the cloud provider's console, or the cloud changes itself.
CloudChange(e, v) ==
  /\ external < MaxExternal
  /\ v # cloud[e] /\ v \notin Rejected \cup Ignored
  /\ Fits(cloud, e, v)
  /\ cloud' = [cloud EXCEPT ![e] = v]
  /\ external' = external + 1
  /\ Disturb(pc # "idle")
  /\ UNCHANGED <<db, audit, clock, pc, phase, mark, taken, memo, loop, inverse, errs>>

-----------------------------------------------------------------------------
(* The frame of commit() and rollback().                                   *)

NoMemo == [db |-> [e \in Entity |-> Absent], cloud |-> [e \in Entity |-> Absent],
           after |-> {}]

NoLoop == [todo |-> {}, failed |-> {}, moved |-> "no", counts |-> <<-1, -1, -1>>,
           spin |-> 0, failureCount |-> -1, ranFull |-> "no"]

\* apply reads the database first, sync the cloud.
Start(p) ==
  /\ phase' = p
  /\ pc' = IF p = "sync" THEN "readCloud" ELSE "readDb"
  /\ loop' = NoLoop
  /\ memo' = NoMemo

\* OPEN_TRANSACTION.
Begin ==
  /\ pc = "idle"
  /\ pc' = "open"
  /\ mark' = [mark EXCEPT !.open = clock]
  /\ base' = [db |-> db, cloud |-> cloud, calm |-> "yes"]
  /\ UNCHANGED <<db, cloud, audit, clock, external, phase, taken, memo, loop, inverse, errs>>

\* START_COMMIT, of iasql_commit or of iasql_rollback.
StartCommit(p) ==
  /\ pc = "open"
  /\ pc' = "window"
  /\ phase' = p
  /\ mark' = [mark EXCEPT !.start = clock, !.prev = mark.start]
  /\ base' = [base EXCEPT !.calm = IF @ = "no" THEN "sinceStart" ELSE @]
  /\ UNCHANGED <<data, taken, memo, loop, inverse, errs>>

\* getChangesToCommit and associateTransaction; with nothing changed a commit
\* is a sync, and so is a rollback.
ReadWindow ==
  /\ pc = "window"
  /\ LET changes == getChangesToCommit
     IN  /\ taken' = IF phase = "applyChanged" THEN changes ELSE {}
         /\ audit' = (audit \ changes) \cup {[r EXCEPT !.status = "taken"] : r \in changes}
         /\ Start(IF phase = "applyChanged" /\ changes # {} THEN "applyChanged" ELSE "sync")
  /\ UNCHANGED <<db, cloud, clock, external, mark, inverse, errs, base>>

Finish ==
  /\ pc' = "end"
  /\ memo' = NoMemo /\ loop' = NoLoop
  /\ UNCHANGED phase

\* What commit() does when apply or sync returned ...
PhaseReturns ==
  /\ IF phase = "sync" THEN Finish ELSE Start("sync")
  /\ UNCHANGED errs

\* Mutant of Thrown: the error of sync is lost.
Thrown_withoutSync ==
  CASE phase = "applyAll"    -> {"applyErr"}
    [] phase = "applyRevert" -> {"revertErr"}
    [] OTHER                 -> {}

\* The error commit() remembers; one of the first apply is forgotten.
Thrown ==
  CASE phase = "applyAll"    -> {"applyErr"}
    [] phase = "applyRevert" -> {"revertErr"}
    [] phase = "sync"        -> {"syncErr"}
    [] OTHER                 -> {}

\* ... or threw.
PhaseThrows ==
  /\ errs' = errs \cup Thrown
  /\ \/ phase = "applyChanged" /\ Start("applyAll")
     \/ /\ phase = "applyAll"
        /\ pc' = "startRevert" /\ memo' = NoMemo /\ loop' = NoLoop /\ UNCHANGED phase
     \/ phase = "applyRevert" /\ Start("sync")
     \/ phase = "sync" /\ Finish

\* START_REVERT, and the rows of the transaction.
StartRevert ==
  /\ pc = "startRevert"
  /\ inverse' = getChangeLogsSinceLastBegin
  /\ pc' = "revert"
  /\ UNCHANGED <<data, phase, mark, taken, memo, loop, errs, base>>

\* One inverse query, newest row first; it changes nothing unless the row is
\* still as the statement left it, and its errors are ignored.
InverseQuery ==
  /\ pc = "revert"
  /\ \E r \in inverse :
       /\ \A s \in inverse : s.ts <= r.ts
       /\ ~Locked(r.ent)
       /\ db' = IF db[r.ent] = r.new /\ Fits(db, r.ent, r.old)
                THEN [db EXCEPT ![r.ent] = r.old] ELSE db
       /\ inverse' = inverse \ {r}
  /\ UNCHANGED <<cloud, audit, clock, external, pc, phase, mark, taken, memo, loop, errs, base>>

\* Mutant of ApplyInverse: the cloud is left as the failed apply made it.
ApplyInverse_onlyDatabase ==
  /\ pc = "revert" /\ inverse = {}
  /\ Start("sync")
  /\ UNCHANGED <<data, mark, taken, inverse, errs, base>>

ApplyInverse ==
  /\ pc = "revert" /\ inverse = {}
  /\ Start("applyRevert")
  /\ UNCHANGED <<data, mark, taken, inverse, errs, base>>

\* END_COMMIT and CLOSE_TRANSACTION.
EndCommit ==
  /\ pc = "end"
  /\ pc' = "idle"
  /\ phase' = "none" /\ taken' = {} /\ errs' = {}
  /\ UNCHANGED <<data, mark, memo, loop, inverse, base>>

-----------------------------------------------------------------------------
(* apply() and sync(): two nested loops around a diff.  apply reads the    *)
(* database in the outer loop and the cloud in the inner one, sync the     *)
(* other way round; both read the changes after START_COMMIT right after   *)
(* the database.                                                           *)

Applying == phase # "sync"

ReadDb ==
  /\ pc = "readDb"
  /\ memo' = [memo EXCEPT !.db = db]
  /\ pc' = "readAfter"
  /\ UNCHANGED <<data, phase, mark, taken, loop, inverse, errs, base>>

ReadAfter ==
  /\ pc = "readAfter"
  /\ memo' = [memo EXCEPT !.after = Touched(getChangesAfterCommitStarted)]
  /\ pc' = IF Applying THEN "readCloud" ELSE "diff"
  /\ UNCHANGED <<data, phase, mark, taken, loop, inverse, errs, base>>

ReadCloud ==
  /\ pc = "readCloud"
  /\ memo' = [memo EXCEPT !.cloud = cloud]
  /\ pc' = IF Applying THEN "diff" ELSE "readDb"
  /\ UNCHANGED <<data, phase, mark, taken, loop, inverse, errs, base>>

\* A read that goes on failing is not caught: apply or sync throws.
ReadFails ==
  /\ Flaky
  /\ pc \in {"readDb", "readCloud"}
  /\ PhaseThrows
  /\ UNCHANGED <<data, mark, taken, inverse, base>>

\* The entities a diff may be about: the changed ones in the first apply,
\* otherwise all but the ones changed after the commit started.
Chosen == IF phase = "applyChanged" THEN Touched(taken) ELSE Entity \ memo.after

entitiesInDbOnly == {e \in Chosen : memo.db[e] # Absent /\ memo.cloud[e] = Absent}
entitiesInAwsOnly == {e \in Chosen : memo.db[e] = Absent /\ memo.cloud[e] # Absent}
entitiesChanged == {e \in Chosen : /\ memo.db[e] # memo.cloud[e]
                                   /\ memo.db[e] # Absent /\ memo.cloud[e] # Absent}

recordCount == <<Cardinality(entitiesInDbOnly), Cardinality(entitiesInAwsOnly),
                 Cardinality(entitiesChanged)>>

Different == entitiesInDbOnly \cup entitiesInAwsOnly \cup entitiesChanged

Outer == IF Applying THEN "readDb" ELSE "readCloud"
Inner == IF Applying THEN "readCloud" ELSE "readDb"

\* Mutants of Spin: never counted, and reset like the other counters.
Spin_uncounted == 0
Spin_reset == IF recordCount = loop.counts THEN loop.spin + 1 ELSE -1

\* spinCount: how often in a row the diff had the same size.
Spin == IF recordCount = loop.counts THEN loop.spin + 1 ELSE 0

Diff ==
  /\ pc = "diff"
  /\ \/ /\ Spin = 4
        /\ PhaseThrows
     \/ /\ Spin < 4 /\ Different # {}
        /\ loop' = [loop EXCEPT !.todo = Different, !.failed = {}, !.moved = "no",
                                !.counts = recordCount, !.spin = Spin]
        /\ pc' = "run"
        /\ UNCHANGED <<phase, memo, errs>>
     \/ /\ Spin < 4 /\ Different = {} /\ loop.ranFull = "yes"
        /\ loop' = [loop EXCEPT !.counts = recordCount, !.spin = Spin, !.ranFull = "no"]
        /\ pc' = Outer
        /\ UNCHANGED <<phase, memo, errs>>
     \/ /\ Spin < 4 /\ Different = {} /\ loop.ranFull = "no"
        /\ PhaseReturns
  /\ UNCHANGED <<data, mark, taken, inverse, base>>

-----------------------------------------------------------------------------
(* lazyLoader over the calls the diff asks for, one call a step.           *)

\* cloud.create, cloud.update and cloud.delete of the memoized row.
CloudTakes(e) ==
  LET v == memo.db[e]
  IN  /\ v \notin Rejected
      /\ Fits(cloud, e, v)
      /\ (memo.cloud[e] = Absent) => (cloud[e] = Absent)
      /\ (v # Absent /\ memo.cloud[e] # Absent) => (cloud[e] # Absent)

\* db.create, db.update and db.delete of the memoized resource.
DbTakes(e) ==
  LET v == memo.cloud[e]
  IN  /\ Fits(db, e, v)
      /\ (memo.db[e] = Absent) => (db[e] = Absent)

Succeeds(e) ==
  /\ e \in loop.todo
  /\ IF Applying
     THEN /\ CloudTakes(e)
          /\ cloud' = IF memo.db[e] \in Ignored THEN cloud
                      ELSE [cloud EXCEPT ![e] = memo.db[e]]
          /\ db' = db
     ELSE /\ DbTakes(e) /\ ~Locked(e)
          /\ db' = [db EXCEPT ![e] = memo.cloud[e]] /\ cloud' = cloud
  /\ loop' = [loop EXCEPT !.todo = @ \ {e}, !.moved = "yes"]

Fails(e) ==
  /\ e \in loop.todo
  /\ IF Applying THEN Flaky \/ ~CloudTakes(e) ELSE (Flaky \/ ~DbTakes(e)) /\ ~Locked(e)
  /\ loop' = [loop EXCEPT !.todo = @ \ {e}, !.failed = @ \cup {e}]
  /\ UNCHANGED <<db, cloud>>

Run ==
  /\ pc = "run" /\ loop.todo # {}
  /\ \E e \in Entity : Succeeds(e) \/ Fails(e)
  /\ UNCHANGED <<audit, clock, external, pc, phase, mark, taken, memo, inverse, errs, base>>

\* The end of a pass: everything done, or another pass over the failures, or
\* no progress; apply and sync give up when that happens twice alike.
EndPass ==
  /\ pc = "run" /\ loop.todo = {}
  /\ LET n == Cardinality(loop.failed)
     IN  \/ /\ n = 0
            /\ loop' = [loop EXCEPT !.moved = "no", !.ranFull = "yes"]
            /\ pc' = Inner
            /\ UNCHANGED <<phase, memo, errs>>
         \/ /\ n > 0 /\ loop.moved = "yes"
            /\ loop' = [loop EXCEPT !.todo = loop.failed, !.failed = {}, !.moved = "no"]
            /\ UNCHANGED <<pc, phase, memo, errs>>
         \/ /\ n > 0 /\ loop.moved = "no" /\ n # loop.failureCount
            /\ loop' = [loop EXCEPT !.failed = {}, !.failureCount = n, !.ranFull = "no"]
            /\ pc' = Outer
            /\ UNCHANGED <<phase, memo, errs>>
         \/ /\ n > 0 /\ loop.moved = "no" /\ n = loop.failureCount
            /\ PhaseThrows
  /\ UNCHANGED <<data, mark, taken, inverse, base>>

\* The worker dies: the transaction stays open, for whoever commits next, whose
\* window begins where that of this commit ended, were it read or not.
Missed(r) ==
  IF r.status = "shown" /\ r.ts <= mark.start THEN [r EXCEPT !.status = "missed"] ELSE r

Crash ==
  /\ MayCrash /\ InCommit
  /\ pc' = "open"
  /\ phase' = "none" /\ taken' = {} /\ errs' = {} /\ inverse' = {}
  /\ memo' = NoMemo /\ loop' = NoLoop
  /\ Disturb(TRUE)
  /\ audit' = {Missed(r) : r \in audit}
  /\ UNCHANGED <<db, cloud, clock, external, mark>>

-----------------------------------------------------------------------------

Init ==
  /\ db = [e \in Entity |-> Absent]
  /\ cloud = db
  /\ audit = {} /\ clock = 0 /\ external = 0
  /\ pc = "idle" /\ phase = "none"
  /\ mark = [open |-> 0, start |-> 0, prev |-> 0]
  /\ taken = {} /\ memo = NoMemo /\ loop = NoLoop /\ inverse = {} /\ errs = {}
  /\ base = [db |-> db, cloud |-> cloud, calm |-> "yes"]

\* The periodic commit, or a user's.
Commit == StartCommit("applyChanged")
Rollback == StartCommit("sync")

Engine ==
  \/ ReadWindow \/ ReadDb \/ ReadAfter \/ ReadCloud \/ ReadFails \/ Diff
  \/ Run \/ EndPass \/ StartRevert \/ InverseQuery \/ ApplyInverse \/ EndCommit

Users ==
  \/ \E u \in User, e \in Entity, v \in Value \cup {Absent} :
       UserWrite(u, e, v) \/ UserBegin(u, e, v)
  \/ \E r \in audit : UserCommit(r)

World == \E e \in Entity, v \in Value \cup {Absent} : CloudChange(e, v)

Next == Begin \/ Commit \/ Rollback \/ Engine \/ Users \/ World \/ Crash

Spec == Init /\ [][Next]_vars

\* The engine's awaits settle, an SQL transaction ends, and maybe_commit
\* begins and commits every two minutes.
FairSpec ==
  /\ Spec
  /\ WF_vars(Engine)
  /\ WF_vars(\E r \in audit : UserCommit(r))
  /\ WF_vars(Begin)
  /\ SF_vars(Commit)

-----------------------------------------------------------------------------
(* Properties.                                                             *)

Pcs == {"idle", "open", "window", "readDb", "readAfter", "readCloud", "diff",
        "run", "startRevert", "revert", "end"}
Phases == {"none", "applyChanged", "applyAll", "applyRevert", "sync"}
Counts == -1 .. Cardinality(Entity)

\* Every variable of the pipeline keeps its type; the rows' time stamps tell
\* them apart.
TypeOK ==
  /\ db \in States /\ cloud \in States
  /\ clock \in 0 .. MaxWrites /\ external \in 0 .. MaxExternal
  /\ audit \subseteq Row
  /\ \A r \in audit : r.ts \in 1 .. clock /\ \A q \in audit : q.ts = r.ts => q = r
  /\ pc \in Pcs /\ phase \in Phases
  /\ mark \in [open : 0 .. clock, start : 0 .. clock, prev : 0 .. clock]
  /\ taken \subseteq Row /\ inverse \subseteq Row
  /\ memo \in [db : States, cloud : States, after : SUBSET Entity]
  /\ loop \in [todo : SUBSET Entity, failed : SUBSET Entity, moved : {"yes", "no"},
               counts : Counts \X Counts \X Counts, spin : 0 .. 3,
               failureCount : Counts, ranFull : {"yes", "no"}]
  /\ errs \subseteq {"applyErr", "revertErr", "syncErr"}
  /\ base \in [db : States, cloud : States, calm : {"yes", "sinceStart", "no"}]

\* Every change made before the newest START_COMMIT was taken by a commit or
\* a rollback: consecutive windows (getChangesToCommit) leave no row out, whenever
\* the users write, but for rows that were not to be seen yet when the window of
\* their time stamp was read, and for windows whose worker died before it read.
NoChangeSkipped == \A r \in Visible : r.ts <= Reached => r.status \in {"taken", "missed"}

\* Nothing is missed while statements are short and no worker dies.
NothingMissed == \A r \in audit : r.status # "missed"

LastOfTaken(r) == r \in taken /\ \A q \in taken : q.ent = r.ent => q.ts <= r.ts

\* A change that no earlier commit had overridden before this transaction.
StillThere(r) == r.ts > mark.open \/ base.db[r.ent] = r.new

\* A commit that ends without an error, and that nobody disturbed, left every
\* entity the users changed as they wanted it, in the database and the cloud.
CommitTakesEffect ==
  (pc = "end" /\ errs = {} /\ base.calm # "no") =>
     \A r \in taken : (LastOfTaken(r) /\ StillThere(r)) =>
        db[r.ent] = r.new /\ cloud[r.ent] = r.new

\* A sync that did not throw leaves the database equal to the cloud, unless
\* somebody wrote either during the commit, even when the commit failed.
SyncedAtEnd ==
  (pc = "end" /\ "syncErr" \notin errs /\ base.calm # "no") => db = cloud

\* A failed commit of a transaction that began with the database and the
\* cloud in agreement, and that nobody disturbed, undoes the transaction in
\* both, what the failing apply had already done to the cloud included.
FailedCommitUndone ==
  (pc = "end" /\ errs # {} /\ base.calm = "yes" /\ base.db = base.cloud) =>
     db = base.db /\ cloud = base.cloud

\* apply and sync end: no sequence of failures, retries and changes by others
\* keeps their loops going.
CommitEnds == InCommit ~> ~InCommit

\* When the users and the world fall silent the database and the cloud agree,
\* and go on agreeing, whatever was refused, retried or reverted on the way.
EventuallyInSync == <>[](db = cloud)

\* Every change is taken by a commit or a rollback at last.
EveryChangeTaken ==
  \A n \in 1 .. MaxWrites :
    (\E r \in audit : r.ts = n /\ r.status = "shown")
       ~> (\E r \in audit : r.ts = n /\ r.status = "taken")

-----------------------------------------------------------------------------
(* What comments and documentation say, and the code does not do.          *)

ChangedAfterStart(e) == \E r \in Visible : r.ent = e /\ r.ts > mark.start

\* "filter changes done after this commit started to avoid overrides": no
\* inverse query of a failed commit overrides one.
RevertKeepsLaterChanges ==
  [][pc = "revert" => \A e \in Entity : db'[e] # db[e] => ~ChangedAfterStart(e)]_vars

=============================================================================
