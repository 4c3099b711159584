----------------------------- MODULE MapperRun -----------------------------
(***************************************************************************)
(* One entity of one mapper through one iasql_commit.  The commit applies  *)
(* the change of the entity's row (apply in iasql_functions/iasql.ts, at   *)
(* first for what changed, on failure for everything) and syncs the        *)
(* database from the cloud.  CommitPipeline treats a mapper's handler as   *)
(* one step that succeeds or fails; here the handler is the sequence of    *)
(* its calls, any of which may fail and leave the ones before it done.     *)
(* What CommitPipeline has besides, the revert of a commit that failed, is *)
(* left out: this module says nothing of the rows of such a commit.        *)
(*                                                                         *)
(* What the mappers do is the parameter of this module: their plans.       *)
(***************************************************************************)
EXTENDS Plans, Integers, FiniteSets, SequencesExt

CONSTANTS
  Mapper,           \* names of mappers
  Columns,          \* names of columns
  TraitOf(_),       \* what is particular to a mapper (Plans!Trait)
  Plan(_, _, _),    \* Plan(m, call, s): the handler of a call in a situation
                    \* s: [facts, has, diff] (see Situation)
  Scenario(_),      \* sets of columns the user gives new values
  Copies,           \* bound: resources there ever are
  MaxFaults,        \* bound: calls that fail, time out or find nothing
  MaxHelp           \* bound: rounds of lazyLoader others make progress in

ASSUME RunAssumption ==
  /\ Copies \in Nat \ {0} /\ MaxFaults \in Nat /\ MaxHelp \in Nat

VARIABLES
  subject, \* the mapper, the user's statement and the facts
  row,     \* the entity's row
  mem,     \* the entity in memory: context.memo.db
  cloud,   \* the resources made from it
  stray,   \* resources sync has made rows of their own for
  ready,   \* whether what the row refers to is in the cloud
  pass,    \* the local variables of apply
  queue,   \* lazyLoader: the jobs to run
  again,   \* lazyLoader: the jobs that failed
  job,     \* the call in progress
  plan,    \* its remaining steps
  faults,
  helped

vars == <<subject, row, mem, cloud, stray, ready, pass, queue, again, job, plan,
          faults, helped>>

Copy == 1 .. Copies
Traits == TraitOf(subject.mapper)
Column == Traits.equals
Stage == {"none", "making", "up", "leaving", "gone"}
Statement == {"insert", "update", "remove"}
Calls == {"create", "update", "delete"}
Job == [call : Calls, on : 0 .. Copies]
Idle == [call |-> "none", on |-> 0, made |-> 0]

Exists(c) == cloud[c].stage \in {"making", "up", "leaving"}
ByName == Traits.id = "name"
Named == Traits.id \in {"name", "unique"}

\* What a full read of the cloud returns, and the one of it an entity is.
Shown == {c \in Copy : cloud[c].stage \in Traits.seen} \ pass.missed
Shows(c) == cloud[c].new \cap Traits.fills
Of(e) == IF ~e.there THEN {} ELSE IF ByName THEN Shown ELSE Shown \cap {e.on}

-----------------------------------------------------------------------------
(* The user's statement.                                                   *)

\* The local variables of apply, and the memo of the cloud.
Fresh(phase, failed) ==
  [phase |-> phase, load |-> TRUE, ran |-> FALSE, memo |-> {}, has |-> FALSE,
   spin |-> 0, counts |-> <<-1, -1, -1>>, fails |-> -1, size |-> 0,
   missed |-> {}, failed |-> failed, refused |-> FALSE]

\* What the user wrote differs from the cloud in the columns the user meant to
\* change; a new row has none of those only the cloud fills in.
Written(s) ==
  s.intent \cup IF s.does = "insert" THEN TraitOf(s.mapper).own ELSE {}

Init ==
  /\ subject \in UNION {[mapper : {m}, does : Statement, intent : Scenario(m),
                         facts : TraitOf(m).facts] : m \in Mapper}
  /\ (subject.does = "update") => (subject.intent # {})
  /\ (subject.does = "remove") => (subject.intent = {})
  /\ Traits.given => (subject.does # "insert")
  /\ row = [there |-> subject.does # "remove", new |-> Written(subject),
            on |-> IF subject.does = "update" THEN 1 ELSE 0]
  /\ mem = row
  /\ cloud = [c \in Copy |->
       [stage |-> IF c = 1 /\ (subject.does # "insert" \/ "exists" \in subject.facts)
                  THEN "up" ELSE "none",
        new |-> {}, aside |-> FALSE]]
  /\ stray = {}
  /\ ready = ("waits" \notin subject.facts)
  /\ pass = Fresh("changed", FALSE)
  /\ queue = <<>> /\ again = <<>> /\ job = Idle /\ plan = <<>>
  /\ faults = 0 /\ helped = 0

-----------------------------------------------------------------------------
(* Apply.                                                                  *)

Between == job = Idle /\ queue = <<>> /\ again = <<>>
Applying == pass.phase \in {"changed", "all"}

\* The inner loop compares the entity in memory, which handlers alter; the
\* outer loop reads it from its row again.
Entity == IF pass.load THEN row ELSE mem

\* With changesToCommit, only what the changed row is or was is the commit's
\* business; resources the handlers made besides are not.
Relevant_newOnly ==
  IF pass.phase = "all" \/ ByName THEN 0 .. Copies ELSE IF row.there THEN {row.on} ELSE {}
Relevant ==
  IF pass.phase = "all" \/ ByName THEN 0 .. Copies
  ELSE (IF row.there THEN {row.on} ELSE {})
       \cup (IF subject.does = "insert" THEN {} ELSE {1})

\* findDiff: the three kinds of differences.
InDbOnly == Entity.there /\ Of(Entity) = {} /\ Entity.on \in Relevant
InAwsOnly == ((Shown \ Of(Entity)) \ stray) \cap Relevant
Changed == {c \in Of(Entity) \cap Relevant :
              Entity.new \cap Column # Shows(c) \cap Column}

Differs == InDbOnly \/ InAwsOnly # {} \/ Changed # {}

\* The row's resources, its create or update before the deletes.
Jobs ==
  (IF InDbOnly THEN <<[call |-> "create", on |-> 0]>> ELSE <<>>)
  \o SetToSeq({[call |-> "update", on |-> c] : c \in Changed})
  \o SetToSeq({[call |-> "delete", on |-> c] : c \in InAwsOnly})

\* apply throws: the commit applies everything, then gives up and syncs.
Thrown(refused) ==
  pass' = [Fresh(IF pass.phase = "changed" THEN "all" ELSE "sync",
                 pass.phase = "all")
           EXCEPT !.refused = refused]

\* recordCount, and how often it has been the same in a row.
Counts == <<IF InDbOnly THEN 1 ELSE 0, Cardinality(InAwsOnly), Cardinality(Changed)>>
Spun_forgets == 0
Spun == IF Counts = pass.counts THEN pass.spin + 1 ELSE 0
SpinLimit_five == 5
SpinLimit == 4

\* The outer loop goes round once more, and reads the rows again.
Outer_keepsMemory(counts, spin, fails) ==
  [pass EXCEPT !.ran = FALSE, !.counts = counts, !.spin = spin, !.fails = fails]
Outer(counts, spin, fails) ==
  [pass EXCEPT !.load = TRUE, !.ran = FALSE, !.counts = counts, !.spin = spin, !.fails = fails]

\* One turn of the inner loop: read the cloud, compare, run the differences.
\* Without differences the outer loop goes round once more if anything ran.
\* A full read that fails ends apply.
Round ==
  LET seen == IF Of(Entity) = {} THEN {} ELSE Shows(CHOOSE c \in Of(Entity) : TRUE)
  IN /\ Applying /\ Between
     /\ \/ /\ Spun < SpinLimit /\ ~Differs
           /\ pass' = IF pass.ran
                      THEN Outer(Counts, Spun, pass.fails)
                      ELSE [Fresh("sync", FALSE) EXCEPT !.refused = pass.refused]
           /\ UNCHANGED <<queue, faults>>
        \/ /\ Spun = SpinLimit
           /\ Thrown(pass.refused)
           /\ UNCHANGED <<queue, faults>>
        \/ /\ Spun < SpinLimit /\ Differs
           /\ queue' = Jobs
           /\ pass' = [pass EXCEPT !.load = FALSE, !.ran = TRUE,
                                   !.counts = Counts, !.spin = Spun,
                                   !.size = Len(Jobs), !.memo = seen, !.has = TRUE]
           /\ UNCHANGED faults
        \/ /\ faults < MaxFaults /\ faults' = faults + 1
           /\ Thrown(pass.refused)
           /\ UNCHANGED queue
     /\ mem' = Entity
     /\ UNCHANGED <<subject, row, cloud, stray, ready, again, job, plan, helped>>

\* lazyLoader takes the next promise generator: the handler computes what it
\* is about to do from the entity and the memoized cloud record.
Situation ==
  [facts |-> subject.facts, has |-> pass.has,
   diff |-> ((mem.new \ pass.memo) \cup (pass.memo \ mem.new)) \cap Column]

Begin ==
  /\ job = Idle /\ queue # <<>>
  /\ LET j == Head(queue) IN
     /\ job' = [call |-> j.call, on |-> j.on, made |-> 0]
     /\ plan' = Plan(subject.mapper, j.call, Situation)
                \o When(j.call = "delete", <<Forget>>)
  /\ queue' = Tail(queue)
  /\ UNCHANGED <<subject, row, mem, cloud, stray, ready, pass, again, faults, helped>>

\* The handler returns.
Finish ==
  /\ job # Idle /\ plan = <<>>
  /\ job' = Idle
  /\ UNCHANGED <<subject, row, mem, cloud, stray, ready, pass, queue, again, plan,
                 faults, helped>>

\* lazyLoader repeats what failed until a round in which everything fails.
Rerun ==
  /\ job = Idle /\ queue = <<>> /\ again # <<>>
  /\ \/ Len(again) < pass.size /\ UNCHANGED helped
     \/ Len(again) = pass.size /\ helped < MaxHelp /\ helped' = helped + 1
  /\ queue' = again /\ again' = <<>>
  /\ pass' = [pass EXCEPT !.size = Len(again)]
  /\ UNCHANGED <<subject, row, mem, cloud, stray, ready, job, plan, faults>>

\* lazyLoader throws: the outer loop goes round once more, unless as many
\* have failed as the time before.
Halt ==
  /\ job = Idle /\ queue = <<>> /\ again # <<>> /\ Len(again) = pass.size
  /\ IF pass.fails = Len(again) THEN Thrown(pass.refused)
     ELSE pass' = Outer(pass.counts, pass.spin, Len(again))
  /\ again' = <<>>
  /\ UNCHANGED <<subject, row, mem, cloud, stray, ready, queue, job, plan, faults, helped>>

\* Where a mapper swallows the failure of a call of its full read, the resource
\* the call was about is not in the list, until the call succeeds again.
Overlook ==
  /\ Traits.omits /\ Between /\ pass.phase \in {"changed", "all", "sync"}
  /\ \/ /\ pass.missed = {} /\ faults < MaxFaults /\ faults' = faults + 1
        /\ \E c \in Shown : pass' = [pass EXCEPT !.missed = {c}]
     \/ /\ pass.missed # {} /\ pass' = [pass EXCEPT !.missed = {}]
        /\ UNCHANGED faults
  /\ UNCHANGED <<subject, row, mem, cloud, stray, ready, queue, again, job, plan, helped>>

\* The database takes what the cloud shows, where equals finds them different:
\* a row that has no resource goes, and of one that has, the columns that the
\* mapper reads.
Synced_keepsRow ==
  IF Of(row) = {} THEN row ELSE [row EXCEPT !.new = Shows(CHOOSE c \in Of(row) : TRUE)]
Synced ==
  IF Of(row) = {} THEN [row EXCEPT !.there = FALSE]
  ELSE LET seen == Shows(CHOOSE c \in Of(row) : TRUE)
       IN  IF row.new \cap Column = seen \cap Column THEN row
           ELSE [row EXCEPT !.new = (@ \ Traits.fills) \cup seen]
Own == Shown \ Of(row)

\* What the database has is what the cloud shows: the row, if there is one, is that
\* of a resource and equals it, and what else the cloud shows has rows.
Mirrored ==
  /\ row.there => \E c \in Of(row) : row.new \cap Column = Shows(c) \cap Column
  /\ Shown \subseteq Of(row) \cup stray

\* One turn of sync's loop: read both, and write the differences, which make
\* rows for resources that have none.  A turn without any is the last.  A read
\* that throws ends sync, and with it the commit, and so does a difference that
\* writing leaves (a password waiting in its row to be set): sync spins as apply.
Sync ==
  /\ pass.phase = "sync" /\ Between
  /\ \/ /\ <<Synced, Own>> # <<row, stray>>
        /\ row' = Synced /\ stray' = Own
        /\ UNCHANGED <<pass, faults>>
     \/ /\ <<Synced, Own>> = <<row, stray>>
        /\ pass' = IF Mirrored THEN [pass EXCEPT !.phase = "done"]
                   ELSE [pass EXCEPT !.phase = "cut", !.failed = TRUE]
        /\ UNCHANGED <<row, stray, faults>>
     \/ /\ faults < MaxFaults /\ faults' = faults + 1
        /\ pass' = [pass EXCEPT !.phase = "cut", !.failed = TRUE]
        /\ UNCHANGED <<row, stray>>
  /\ mem' = row'
  /\ UNCHANGED <<subject, cloud, ready, queue, again, job, plan, helped>>

-----------------------------------------------------------------------------
(* The steps of a handler.                                                 *)

\* The resource a step is about: the one the handler made, or was called for;
\* or the one there is already, when the handler of a new row takes that.
Existing == {c \in Copy : Exists(c)}
Target == IF job.made # 0 THEN job.made
          ELSE IF job.on # 0 \/ Existing = {} THEN job.on
          ELSE CHOOSE c \in Existing : TRUE

\* Where a handler goes on: at the catch block it is in the try block of, or
\* behind the end of the innermost block it is in.
Opens(p, i, what) == Cardinality({k \in 1 .. (i - 1) : p[k].do \in what})
CatchAt(p) == {i \in 1 .. Len(p) : p[i].do = "catch"
                 /\ Opens(p, i, {"try"}) = Opens(p, i, {"catch"})}
ResumeAt(p) == {i \in 1 .. Len(p) : p[i].do = "resume"
                 /\ Opens(p, i, {"try", "enter"}) = Opens(p, i, {"resume"})}
Behind(p, at) == SubSeq(p, Min(at) + 1, Len(p))

\* A handler passes on to its next entity: what called it, if anything, goes on.
Passed == IF ResumeAt(plan) # {} THEN Behind(plan, ResumeAt(plan)) ELSE <<>>

\* A call throws: a catch block goes on, or the job has failed.
Throw(refusal) ==
  IF CatchAt(plan) # {}
  THEN /\ plan' = Behind(plan, CatchAt(plan))
       /\ UNCHANGED <<job, again, pass>>
  ELSE /\ plan' = <<>>
       /\ job' = Idle
       /\ again' = Append(again, [call |-> job.call, on |-> job.on])
       /\ pass' = [pass EXCEPT !.refused = @ \/ refusal]

Does(d) == job # Idle /\ plan # <<>> /\ Head(plan).do = d
F == Head(plan).f
Goes == plan' = Tail(plan)

\* Steps that look, and throw or go on.
Check ==
  /\ \/ Does("need") /\ IF ready THEN Goes /\ UNCHANGED <<job, again, pass>> ELSE Throw(FALSE)
     \/ /\ Does("skip") /\ plan' = IF ready THEN Tail(plan) ELSE Passed
        /\ UNCHANGED <<job, again, pass>>
     \/ Does("look") /\ IF pass.has THEN Goes /\ UNCHANGED <<job, again, pass>> ELSE Throw(FALSE)
     \/ Does("refuse") /\ Throw(F = {})
     \/ Does("forget") /\ Goes /\ pass' = [pass EXCEPT !.has = FALSE] /\ UNCHANGED <<job, again>>
     \/ Does("memo") /\ Goes /\ UNCHANGED <<job, again>>
        /\ pass' = [pass EXCEPT !.has = TRUE, !.memo = mem.new \cap Column]
     \/ /\ Does("return") /\ job.made = 0
        /\ \/ F = {} /\ Throw(FALSE)
           \/ F # {} /\ Goes /\ UNCHANGED <<job, again, pass>>
     \/ Does("rethrow") /\ (Throw(FALSE) \/ (Goes /\ UNCHANGED <<job, again, pass>>))
     \/ Does("ask") /\ Goes /\ UNCHANGED <<job, again, pass>>
     \/ Does("get") /\ Goes /\ UNCHANGED <<job, again, pass>>
     \/ Does("db") /\ Goes /\ UNCHANGED <<job, again, pass>>
     \/ Does("try") /\ Goes /\ UNCHANGED <<job, again, pass>>
     \/ Does("enter") /\ Goes /\ UNCHANGED <<job, again, pass>>
     \/ Does("resume") /\ Goes /\ UNCHANGED <<job, again, pass>>
     \/ Does("catch") /\ plan' = Passed /\ UNCHANGED <<job, again, pass>>
  /\ UNCHANGED <<subject, row, mem, cloud, stray, ready, queue, faults, helped>>

\* Names are unique where the cloud says so: a second resource is refused.
Create ==
  /\ Does("make") \/ Does("aside") \/ Does("once") \/ Does("swap")
  /\ LET same == {c \in Copy \ {job.on} : Does("once") /\ cloud[c].stage = "up"}
         free == {c \in Copy : cloud[c].stage = "none"} IN
     IF (Does("make") /\ Named /\ \E c \in Copy : Exists(c) /\ ~cloud[c].aside) \/ free = {}
     THEN Throw(FALSE) /\ UNCHANGED cloud
     ELSE IF same # {}
     THEN /\ job' = [job EXCEPT !.made = CHOOSE c \in same : TRUE]
          /\ Goes
          /\ UNCHANGED <<cloud, again, pass>>
     ELSE LET c == CHOOSE c \in free : \A k \in free : c <= k IN
          /\ cloud' = [k \in Copy |->
               IF k = c THEN [stage |-> IF "make" \in Traits.slow THEN "making" ELSE "up",
                              new |-> mem.new \cap F, aside |-> Does("aside")]
               ELSE IF k = job.on /\ Does("swap") THEN [cloud[k] EXCEPT !.stage = "gone"]
               ELSE cloud[k]]
          /\ job' = [job EXCEPT !.made = c]
          /\ Goes
          /\ UNCHANGED <<again, pass>>
  /\ UNCHANGED <<subject, row, mem, stray, ready, queue, faults, helped>>

\* To empty a column leaves it other than the entity has it.
Modify ==
  /\ \/ Does("set") /\ cloud' = [cloud EXCEPT ![Target].new = (@ \ F) \cup (mem.new \cap F)]
     \/ Does("clear") /\ cloud' = [cloud EXCEPT ![Target].new = (@ \ F) \cup (F \ mem.new)]
  /\ Goes
  /\ UNCHANGED <<subject, row, mem, stray, ready, pass, queue, again, job, faults, helped>>

\* Some services refuse to delete what is gone already.
Delete ==
  /\ Does("drop")
  /\ \/ /\ Exists(job.on)
        /\ cloud' = [cloud EXCEPT ![job.on].stage =
             IF "drop" \in Traits.slow THEN "leaving" ELSE "gone"]
        /\ Goes /\ UNCHANGED <<job, again, pass>>
     \/ /\ ~Exists(job.on)
        /\ UNCHANGED cloud
        /\ \/ Goes /\ UNCHANGED <<job, again, pass>>
           \/ F = {} /\ Throw(FALSE)
  /\ UNCHANGED <<subject, row, mem, stray, ready, queue, faults, helped>>

Wait ==
  /\ Does("poll")
  /\ \A c \in {job.on, job.made} \ {0} : cloud[c].stage \notin {"making", "leaving"}
  /\ Goes
  /\ UNCHANGED <<subject, row, mem, cloud, stray, ready, pass, queue, again, job,
                 faults, helped>>

\* The row as read from the cloud, but for the columns the handler keeps.
Saved == [row EXCEPT !.on = Target, !.new = (Shows(Target) \ F) \cup (mem.new \cap F)]

\* What a handler saves it also returns, and apply copies what a handler
\* returns into the entity in memory.  What it does not return is memoized under
\* its entityId, which is the entity's unless that is the cloud's to choose.
Write ==
  /\ \/ /\ Does("save") \/ Does("adopt")
        /\ row' = Saved
        /\ mem' = row'
     \/ Does("store") /\ row' = Saved /\ mem' = IF ByName THEN row' ELSE mem
     \/ /\ Does("link")
        /\ row' = [row EXCEPT !.on = Target]
        /\ mem' = [mem EXCEPT !.on = Target]
     \/ /\ Does("restore")
        /\ row' = [row EXCEPT !.on = job.on, !.new = pass.memo]
        /\ mem' = row'
     \/ /\ Does("return") /\ job.made # 0
        /\ mem' = [mem EXCEPT !.on = Target, !.new = Shows(Target)]
        /\ UNCHANGED row
     \/ /\ Does("recall")
        /\ mem' = [mem EXCEPT !.on = job.on, !.new = (pass.memo \ F) \cup (mem.new \cap F)]
        /\ UNCHANGED row
     \/ Does("another") /\ UNCHANGED <<row, mem>>
     \/ /\ Does("keep")
        /\ row' = IF row.there THEN row
                  ELSE [there |-> TRUE, on |-> job.on, new |-> Shows(job.on)]
        /\ mem' = row'
     \/ /\ Does("erase")
        /\ row' = [row EXCEPT !.there = FALSE]
        /\ mem' = row'
  /\ stray' = IF Does("another") THEN stray \cup {Target} ELSE stray
  /\ Goes
  /\ UNCHANGED <<subject, cloud, ready, pass, queue, again, job, faults, helped>>

\* A call fails, a waiter times out, a statement is refused; or a read finds
\* nothing, and the handler passes on to its next entity; or a waiter's time is
\* up, which createWaiter returns as its result, and the handler goes on.
Fails ==
  /\ job # Idle /\ plan # <<>> /\ faults < MaxFaults
  /\ Head(plan).do \notin {"need", "skip", "look", "refuse", "forget", "return", "try", "enter",
                          "catch", "resume", "rethrow", "memo", "recall"}
  /\ faults' = faults + 1
  /\ \/ Throw(FALSE)
     \/ Does("get") /\ plan' = Passed /\ UNCHANGED <<job, again, pass>>
     \/ Does("poll") /\ F = {} /\ Goes /\ UNCHANGED <<job, again, pass>>
  /\ UNCHANGED <<subject, row, mem, cloud, stray, ready, queue, helped>>

Handler == Check \/ Create \/ Modify \/ Delete \/ Wait \/ Write

-----------------------------------------------------------------------------
(* The cloud, and the commit's other entities.                             *)

Settle(c) ==
  /\ cloud[c].stage \in {"making", "leaving"}
  /\ cloud' = [cloud EXCEPT ![c].stage = IF @ = "making" THEN "up" ELSE "gone"]
  /\ UNCHANGED <<subject, row, mem, stray, ready, pass, queue, again, job, plan,
                 faults, helped>>

Appear ==
  /\ ~ready /\ ready' = TRUE
  /\ UNCHANGED <<subject, row, mem, cloud, stray, pass, queue, again, job, plan,
                 faults, helped>>

Ended == pass.phase \in {"done", "cut"}
Done == Ended /\ UNCHANGED vars

Commit == Round \/ Begin \/ Finish \/ Rerun \/ Halt \/ Sync

Next ==
  \/ Commit \/ Handler \/ Fails \/ Overlook \/ Appear \/ Done
  \/ \E c \in Copy : Settle(c)

\* The worker goes on, and the cloud gets done with what it is doing.
Fairness == WF_vars(Commit \/ Handler) /\ \A c \in Copy : WF_vars(Settle(c))

Spec == Init /\ [][Next]_vars /\ Fairness

-----------------------------------------------------------------------------
(* The values the variables take.                                          *)

Pass ==
  [phase : {"changed", "all", "sync", "done", "cut"}, load : BOOLEAN, ran : BOOLEAN,
   memo : SUBSET Columns, has : BOOLEAN, spin : 0 .. 3, counts : Seq(Int),
   fails : Nat \cup {-1}, size : Nat, missed : SUBSET Copy, failed : BOOLEAN, refused : BOOLEAN]

\* What a step may say besides columns (DropAgain, Break, ReturnAny, PollOrThrow).
Flags == {"again", "broken", "any", "throws"}

\* The handlers of what is there already may make a row of its own for what they
\* make; creations do not.
Steps(call) ==
  {x \in [do : Deeds, f : SUBSET (Columns \cup Flags)] :
     /\ x.do = "clear" => x.f \subseteq Columns
     /\ x.do = "another" => call # "create"}

\* A mapper is about its columns, and its handlers, in every situation with one of
\* these differences, take Plans' steps.
WellFormed(m, diffs) ==
  /\ TraitOf(m).equals \cup TraitOf(m).fills \cup TraitOf(m).own \subseteq Columns
  /\ Scenario(m) \subseteq SUBSET Columns
  /\ \A call \in Calls : \A s \in [facts : TraitOf(m).facts, has : BOOLEAN, diff : diffs] :
       Plan(m, call, s) \in Seq(Steps(call))

\* The values apply's and lazyLoader's variables take; rows, memos and resources
\* have no columns but the mapper's, and no handler has other steps than Plans'.
TypeOK ==
  /\ subject.does \in Statement
  /\ \A e \in {row, mem} : e.there \in BOOLEAN /\ e.on \in 0 .. Copies
  /\ \A c \in Copy : cloud[c].stage \in Stage /\ cloud[c].aside \in BOOLEAN
  /\ row.new \cup mem.new \cup UNION {cloud[c].new : c \in Copy} \subseteq Columns
  /\ stray \subseteq Copy /\ ready \in BOOLEAN
  /\ pass \in Pass
  /\ queue \in Seq(Job) /\ again \in Seq(Job)
  /\ job = Idle \/ (job.call \in Calls /\ job.on \in 0 .. Copies /\ job.made \in 0 .. Copies)
  /\ \A i \in DOMAIN plan : plan[i].do \in Deeds
  /\ faults \in 0 .. MaxFaults /\ helped \in 0 .. MaxHelp

-----------------------------------------------------------------------------
(* What the commit promises (Reconcile).                                   *)

\* The row, read again, and the cloud have no difference the commit is to apply.
Agreed == pass.load /\ ~Differs

StageOf(p) ==
  CASE p.phase \in {"changed", "all"} -> "applying"
    [] p.phase = "sync" -> IF p.failed THEN "failed" ELSE "agreed"
    [] p.phase = "done" -> IF p.failed THEN "endedFailed" ELSE "ended"
    [] p.phase = "cut" -> "cut"

\* A commit of one entity, with whatever a mapper's handlers do, implements
\* Reconcile: apply returns only when the row, read again, and the cloud agree
\* (iasql.ts, apply's two loops), and the commit ends with the row as sync took
\* it from the cloud, or sync threw.  The cloud is what a full read lists of it.
Promise == INSTANCE Reconcile WITH stage <- StageOf(pass), agree <- Agreed, mirror <- Mirrored
Reconciles == Promise!Spec

\* Steps that leave the resources, and what they have, alone.
Gentle ==
  [do : Deeds \ {"make", "aside", "once", "swap", "drop", "clear", "another"},
   f : SUBSET (Columns \cup Flags)]

\* What the handler of the deletion of a resource that AWS does not let go
\* (cloud.delete) does: whatever differs, it neither deletes nor empties it; and
\* the full read is one that lists it.
LeavesBuiltIns(m) ==
  \A facts \in TraitOf(m).facts : "protected" \in facts =>
    /\ "up" \in TraitOf(m).seen /\ "none" \notin TraitOf(m).seen
    /\ \A s \in [facts : {facts}, has : BOOLEAN, diff : SUBSET TraitOf(m).equals] :
         Plan(m, "delete", s) \in Seq(Gentle)

Protected == "protected" \in subject.facts

\* A resource that AWS does not let go (a default VPC, subnet, security group,
\* route table) outlives the deletion of its row, and the handler (cloud.delete)
\* puts the row back.  Where the full read may leave the resource out, sync makes
\* the row, or there is none as long as the read does.
BuiltInKept ==
  Ended /\ Protected /\ subject.does = "remove" /\ ~pass.failed =>
    /\ cloud[1].stage = "up"
    /\ row.there \/ (Traits.omits /\ 1 \in stray \cup pass.missed)

\* What sync writes makes the two sides equal: it only throws (spinCount) when a
\* call has failed, or equals compares a column that the mapper does not read back.
CutForCause == pass.phase = "cut" => faults # 0 \/ ~(Column \subseteq Traits.fills)

\* The commit ends.
CommitEnds == <>Ended
=============================================================================
