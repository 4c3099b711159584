# IaSQL in TLA+

IaSQL keeps a PostgreSQL database and a cloud account in agreement, in both
directions. These modules model the engine under `src/src`, check it with TLC on
small instances, and prove some of what is checked with TLAPS for every value of
the constants. Paths below are relative to the repository's root, `src/`.

## 1. The system

| component | state | operations | what is hard | what makes it correct | model |
|---|---|---|---|---|---|
| transaction lock (`src/router/db.ts`, `iasql.ts`, `after_install.sql`) | `OPEN_TRANSACTION` / `CLOSE_TRANSACTION` / `START_COMMIT` / `END_COMMIT` records of `iasql_audit_log` | `rpcCall` with pre- and post-checks, `iasql_begin`, `_commit`, `_rollback`, `_preview`, `maybe_commit` of pg_cron | check-then-insert without an owner, one hour timeouts with a handler that goes on, workers that die, an exception handler in SQL | commits exclude each other and run in their own transaction; the lock is released; the periodic commit resumes | `TransactionLock` |
| commit, rollback, sync (`iasql.ts`, `lazy-dep.ts`, `diff.ts`) | the users' rows of the audit log, database, cloud, memo | `commit`, `apply`, `sync`, `revert`, `rollback` | partial failure of cloud calls, five retry loops, windows by time stamp, writes of others meanwhile | every change is taken once; a failed commit is undone; a commit ends; both sides agree at last | `CommitPipeline` |
| installing modules (`iasql.ts`, `mod-sort.ts`) | `iasql_module`, `iasql_tables`, tables | `install`, `uninstall`, `sortModules` | rows outside the transaction of the tables, failure half-way | the registry is closed under dependencies; rows match tables; the sort ends | `ModuleInstall` |
| databases (`services/iasql.ts`, `repositories/metadata.ts`, `upgrade.sh`, `index.ts`) | server's databases, `iasql_database`, `iasql_user_databases` | `connect`, `disconnect`, upgrade in three parts, start | restart anywhere, cleaning by every worker, whole-list saves of the join table | no start and no failure drops a connected database | `DbLifecycle` |
| audit log as SQL (`iasql.ts:805-1349`, `rpcs/iasql_get_sql_*.ts`) | the changes of a transaction | `recreateQueries`, inverse queries, `iasql_get_sql_since`, `iasql_get_sql_for_transaction` | NULLs, ids that are not restored, references to rows that are gone or renamed | inverse queries bring a transaction's tables back and touch nothing else; the SQL does the same elsewhere | `AuditReplay` |
| cloud mappers (`modules/aws_*`, `modules/ssh_*`) with the memo of `Crud` (`interfaces.ts`) | a row, the entity in memory, the cloud's resources | `cloud.create`, `read`, `update`, `delete` of 70 mappers | a handler is many awaited calls, any of which may fail and leave the ones before it done; reads that swallow a failure; updates that replace; rows written back | a commit succeeds, does what was asked, makes one resource, leaks nothing, and ends | `MapperRun`, `Plans`, nine families of mappers |
| `lazyLoader`, `findDiff` (`lazy-dep.ts`, `diff.ts`) | the jobs left, the jobs that failed | one round, one difference | retries of what was half done | apply's and sync's loops end, and only in agreement | `MapperRun`, `CommitPipeline` |

How they interact. A session calls an RPC through an SQL function that posts to
`/v1/db/rpc`; `rpcCall` takes or checks the lock, runs the RPC's body, which is
a commit, a rollback, an installation or a query, and closes the transaction by
the RPC's post-check. `install` commits first, with the lock held. pg_cron calls
`iasql_begin` and `iasql_commit` (or `iasql_rollback`) of every database from a
session of its own. `connect` creates the database in which all of this lives,
and an upgrade moves a database to a new one and calls `iasql_install` there.

Each module therefore takes the ones before it for granted in one sentence:
`CommitPipeline` and `ModuleInstall` have one commit or installation at a time,
which is what `TransactionLock` is about, and `DbLifecycle` treats
`iasql_install` as a step. They are not composed further: what a commit does
between its records does not look at the lock, and the lock does not look at
what a commit did except for whether it threw. Two modules look into steps that
`CommitPipeline` takes as one: `MapperRun` into `Run`, which is there one call
that succeeds or fails, and `AuditReplay` into `InverseQuery`.

## 2. The modules

### TransactionLock

The lock is not an object: every query asks for the newest record of some kinds,
so `log` holds those answers (`lock`, `last` with its `age`, `tx`,
`otherCommit`) and `insertLog` updates them. `handler[h]` is a request in a
worker; the actions of `HandlerStep` are the awaits of `rpcCall` and of
`commit`. `sess[c]` is what a session remembers; `CronStep` is `maybe_commit`
branch by branch. `trouble` is a history variable that notes when an
`OPEN_TRANSACTION` went into an open lock, when a session committed or closed
another one's transaction, and when a request timed out.

* `lock_safety`: two users and the cron job, two handlers, every kind of RPC
  (`install` also does what RPCs called `invoke` do; `iasql_preview`, a commit
  that stops early, is left to the proofs), timeouts and crashes. As long as `trouble` is empty commits exclude each other
  (`SoleCommit`), run in their own transaction (`CommitOwnsTransaction`) and
  leave a begun transaction open (`BegunStaysOpen`); a transaction id is always
  found (`TransactionIdFound`). `Turns` is the lock that the users are meant to
  see, with a holder and the commits that run; read through `Holder` and
  `Running` the log implements it (`TakesTurns`): nobody opens a transaction
  that is open, and no close, the one of the cron job's exception handler
  included, falls into a running commit or is another session's. Once
  `trouble` is not empty `Turns` allows anything. The bound on attempts is 1 (120 in the code):
  more only repeat the same poll. The run has a constraint that goes on after
  timeouts but not after the other kinds of trouble, and a view that keeps of
  `trouble` whether it is empty, which is all that the properties ask; the
  proofs have neither.
* `lock_liveness`: one user, no faults: calls return, the lock is released again
  and again, and the periodic commit resumes when the users are quiet. Fairness:
  awaits settle (weak), pg_cron fires and time passes (weak), and a user that
  began a transaction commits it at last (strong, for its other calls come in
  between). Nothing else is asked of users. No fairness is assumed of timeouts
  or crashes, which are off: with them a lock may be left taken, and releasing
  it is the cron job's task, through a rollback that needs hours.
* `two_commits` (violation): `isCommitRunning` excludes records of the user that
  writes all of them.

### CommitPipeline

`db` and `cloud` map entities to values or `Absent`; an entity stands for a row
and its resource. `Needs` are foreign keys, which also order cloud calls.
`Rejected` values are refused by the cloud, `Ignored` ones accepted without
effect. `audit` are the users' rows with the stamp of their SQL transaction and
whether they are committed and taken. `pc` walks through `commit`:
`StartCommit`, `ReadWindow`, the reads, the diff and the calls of `apply` and
`sync` (one module for both, `phase` tells them apart), `StartRevert`,
`InverseQuery`, `EndCommit`. `Run` is one call of a round of `lazyLoader`;
`Spin`, `failureCount`, `moved` and `ranFull` are the loops' counters and flags.

* `commits`: a user makes three changes to two entities, one needing the other,
  with values the cloud takes, refuses or ignores. A commit without an error did what was asked
  (`CommitTakesEffect`), a failed one undid everything in both places
  (`FailedCommitUndone`), loops end (`CommitEnds`), both sides agree at last
  (`EventuallyInSync`), each change is taken (`EveryChangeTaken`). Three changes
  are one each before, in and after a commit. Fairness: the engine's awaits
  settle, SQL transactions end, pg_cron begins (weak) and commits (strong, since
  a commit is disabled while another runs).
* `commit_faults`: two users, long SQL transactions, reads, calls and sync's
  writes of the database that fail for no reason, changes of the cloud, crashes:
  `SyncedAtEnd`, and windows leave no change out (`NoChangeSkipped`). A row that appears after the window of its
  time stamp was read (`now()` is the time its SQL transaction began), or whose
  window's worker died before it read, is lost to every commit; the model notes
  it as `missed`, and the property is that there are no others.
* `revert_overrides` (violation): see the findings in PROJECT.json.

One observation has no run of its own: when a commit applies everything after a
failure, it deletes resources that others have created in the cloud and no sync
has seen yet.

### ModuleInstall

`iasql_module`, `iasql_tables` and `tables` are the modules with rows there and
with tables; `op` is the call in progress, with what its transaction has
pending. `taken` and `views` are users' tables and views in the way. The
dependencies are a constant without a cycle.

* `module_install`: a diamond of four modules, one of whose dependencies has no
  foreign key, failures and crashes at each step: `RegistryClosed`, `NeverSpins`
  and, but for calls that ended with rows half written (`torn`),
  `RowsMatchTables`. Four modules in a diamond are the smallest set where the
  order of two siblings and a shared root both matter.
* `install_busted` (violation): rows are saved outside the transaction.

### DbLifecycle

`actual` are the databases of the server, with the prefix `NEW` or `OLD` during
an upgrade; `record` and `linked` the metadata. `call` holds the requests in the
workers' slots and, under the name of the database, the timer of its upgrade;
`SaveUser` is the save of a whole list that was read earlier. `up` and `cleaner`
are a start: `Shell` is upgrade.sh, `Part2` is `upgrade()`, `CleanExpected`,
`CleanActual`, `CleanRemove` the loop of `MetadataRepo.init`. Part 3 of an upgrade
is `Install`, `Rename`, `DropOld` and the steps of `saveDb`. Its statements after
the installs are in no try block: with `MayFail` any of them throws (`Throw`), the
connections included, and the timer is `stuck`, for `upgradeRunning` stays true and
whatever the interval calls next returns at once. The first worker's
cleaner also stands for the others', which find less to do. `live` is what
connect has answered for; `astray` names the databases that the metadata lost
track of, or that two callers handled at once. Those are the ways in which the
code is known to lose one, and the properties are about all the others: another
caller's list unlinked it or linked it again, a row it refers to was gone, a
worker's cleaner took the row of a connect in progress, or the container stopped
while the row was removed for an upgrade.

* `db_lifecycle`: two databases, which are symmetric, one request at a time
  beside two timers, failures and crashes, two restarts (one upgrade
  interrupted, and one that begins from what it left): `LiveKept`,
  `ConnectTold`, `UpgradeRestores`. Since part 3 may stop anywhere,
  `UpgradeRestores` says what holds wherever it stops: a timer ends only with the
  database back under its name, in its user's list, and the old one gone; one that
  an error stopped has left the database under one of its two names; and `OLD<db>`
  is never dropped before `NEW<db>` has taken its place. Two requests at once are
  covered by the proofs, not by this run (with one database they fit, and the
  same properties hold). Deadlock is off because a start that failed, or a
  timer that is stuck, really stops.
* `startup_blocked` (violation): no command fails, and the container is only
  restarted between a connect's row and its database.

One observation has no run of its own: a container that stops during part 3, when
the workers' `init` has deleted the row (`metadata.ts:47-49`) and the timer has not
saved it yet, does not upgrade the database again, though `services/iasql.ts:276-277`
says so. The next start goes by the rows, finds none, and leaves `NEW<db>` and
`OLD<db>` as they are. TLC finds it with one database and no failure; the model
calls the database `astray` from then on.

### Plans, MapperRun and the mappers

A handler of a mapper is a sequence of awaited calls. `Plans` is the vocabulary
(create, set columns, delete, wait, read back, save, throw, `try`/`catch`, a
handler that calls another), and a family module has, per mapper, the columns
its `equals` compares, the facts its conditions tell apart, and one operator per
handler that returns the steps it takes in a situation:

| module | mappers of |
|---|---|
| `Ec2Mappers` | `aws_ec2` |
| `SecurityMappers` | `aws_security_group` |
| `ContainerMappers` | `aws_ecr`, `aws_ecs_fargate`, `ssh_docker` |
| `VpcMappers` | `aws_vpc` |
| `EdgeMappers` | `aws_elb`, `aws_route53`, `aws_cloudfront` |
| `DataMappers` | `aws_rds`, `aws_memory_db`, `aws_elasticache`, `aws_dynamo`, `aws_opensearch` |
| `ServiceMappers` | `aws_lambda`, `aws_sqs`, `aws_sns`, `aws_s3`, `aws_cloudwatch`, `aws_api_gateway`, `aws_appsync` |
| `CodeMappers` | `aws_codebuild`, `aws_codedeploy`, `aws_codepipeline` |
| `AccountMappers` | `aws_iam`, `aws_acm`, `aws_secrets_manager`, `ssh_apt`, regions of `aws_account` |

`MapperRun` runs them: one entity of one mapper whose row a user inserted,
changed or deleted, through `apply` (`Round`, `Halt`), `lazyLoader` (`Begin`,
`Finish`, `Rerun`) and `sync` (`Sync`, one turn of its loop: it writes the
differences, or is done, or throws, because a read did or because it spins over a
difference that it cannot write). A value is only ever told to be the
cloud's or not: `row.new`, `mem.new` and `cloud[c].new` are the sets of columns
that hold what the user wrote. `row` is the table's row, `mem` the object the
handlers get and alter, `pass.memo` the cloud record in `context.memo`; they are
three things in the code, and most of what goes wrong is one of them being
stale. `Fails` is one call that throws, or reads nothing, or a waiter whose time is
up: `createWaiter` returns that as its result and the handler goes on (`Poll`),
while the SDK's `waitUntil` functions throw (`PollOrThrow`). `Overlook` is a call of
a full read whose failure the mapper swallows (`queue.ts:201` and those of the other
mappers in `Omitting`): the resource is not in the list, for `apply` and `sync`
alike, until the call succeeds again. The VPC that AWS gives every region is a
mapper of its own, `DefaultVpc` (`Given`, since nobody inserts one): `equals` passes
by its attributes.

`Reconcile` is what a commit promises: it goes on until both sides agree or it
fails, and ends with the database as the cloud is. `MapperRun` implements it
(`Promise`, `Reconciles`) whatever the plans are.

* `mappers`: each of the 70 mappers and `DefaultVpc`, insertions and updates of no,
  one or all columns and deletions, in each situation of facts, with at most one
  failure anywhere, the reads included. `Copies = 3`: the resource there was, the one that replaces it, and
  one that a repetition makes. `MaxHelp = 1`: a round of `lazyLoader` in which
  another entity of the commit made progress. One failure reaches every
  `catch` block and every repetition; two would mostly repeat the same. `CutForCause`
  is sync's part: it throws only over a call that failed, or a column that the
  mapper's conversion does not fill in. Fairness: the worker goes on, and the cloud gets done with what it is doing (weak). No
  constraint, no symmetry.

The properties are about all mappers, with tables of exceptions in `MCMappers`,
one row for each place where the code does otherwise. A row was put there only
after its counterexample had been read against the code, and the run fails
without it, so the tables are the list of what the model says of single mappers.
Some that are worth a look:

* a commit that never ends: `DBSubnetGroup` when its subnets change, and
  `CodedeployDeploymentGroup` (`mappers/deploymentGroup.ts:244`) when its id
  does, or when the read after its creation found nothing;
* handlers that make what they replace a second time after a failure, or cannot
  be repeated: `SecurityGroup` leaves the group of the temporary name behind,
  `LoadBalancer`, `CacheCluster` and `DockerContainer` delete first and lose the
  record that the repetition looks for;
* updates that can only fail: `ResourceRecordSet`, `CodedeployDeployment`,
  `GraphqlApi`'s tags;
* updates that say they succeeded and did nothing: `key_pair.ts:77` and
  `access_key.ts:127` write the entity back where others restore the cloud's
  record, `pipeline_declaration.ts:27-28` compares stages with themselves,
  `ELB`'s creation leaves attributes out;
* values that are not sent: the attributes of a new `Vpc` when all of them are
  false (`vpc.ts:211-236` saves the cloud's over them), and those of a default VPC
  whenever they are changed (`vpc.ts:27`), which a commit passes by in silence;
* failures that are swallowed: `IamRole`'s policies, `Package`'s installation. Of
  mappers with reads that swallow failures, a `Queue` or another resource that was
  only left out comes back with the next full read, with what the user wrote; but a
  `BucketObject` without its row is one to delete, for none can be made.

### AuditReplay

Two tables stand for all: parents, which have a cloud id (`arn`) that a commit
fills in, and children that refer to them, with a column that may be NULL. `log`
is the transaction in `iasql_audit_log`. `recreateQueries` and the operators it
uses have the code's names: nulls and ids are left out, a reference becomes the
raw id (for inverse queries) or a sub-query that identifies the parent by its
cloud id, or by its values if it has none. The logs a call reads are a set of
places in `log`; `queries` maps the places that are left to their queries, and
`applyInverseQueries` runs the one that is next (`Foremost`) as PostgreSQL would;
one that fails is skipped.
`Revert` runs them where they came from, `GetSqlSince` and
`GetSqlForTransaction` in a copy in which all ids differ (`Elsewhere`).

* `audit`: up to three changes by a user or the engine from any database with at
  most one row per table. Three changes are the fewest with a parent, a child of
  it and something that happens to either. Names are symmetric; `twins` (two
  rows that cannot be told apart by values) are cut off by the constraint, for
  what a query does then is up to chance. `RevertRestores`, `BystandersKept` and
  `ReplayReproduces` hold with five exceptions, each a named operator:
  `NullLost` and `NullKept` (nulls are left out of queries), `IdLost` (a parent
  that comes back has another id than its children's queries look for),
  `Renamed` and `NamedAfter` (a sub-query looks for a name or a cloud id that
  the other database does not have). The last means that the way from a staging
  to a production database in `site/docs/how-to/envs.md` loses references to
  parents that were made in the same transaction, when
  `iasql_get_sql_for_transaction` is called after its commit.

## 3. What is proved

All proofs are for any constants that satisfy the named assumptions: any number
of sessions, handlers, entities, modules, databases and restarts. Each follows
the same line: an invariant `IInv` that contains the property, a lemma per
action that keeps it, and a temporal step.

* `TransactionLockProofs`. `LockInv` says what is always true of the records,
  `OwnedInv` what is true while `trouble` is empty: whoever is past its
  pre-check has the newest open record. It is needed because exclusion alone is
  not inductive: two handlers past the check are excluded only since both would
  own the same transaction and a session has one call at a time. Theorems:
  `TypeCorrect`, `IdAlwaysFound`, `Exclusion`, `Ownership`, `BegunIsSafe`, and
  `TurnsTaken`, the refinement of `Turns`: by `CommitHolds` a running commit is
  the only one and its session's transaction is open, by `NoneRuns` none runs
  while its session is served otherwise, so that a record inserted by another
  step is never one of a second holder.
* `CommitPipelineProofs`. `TypeCorrect` comes first, and the others rest on it.
  `WindowsComplete`: no change is left out of the windows that was to be seen
  when they were read, with transactions of any length and crashes; `WindowInv`
  adds that the marks are in order. `ShortStatementsSeen`: if statements are
  short and no worker dies, which are its hypotheses, nothing is missed.
  `SyncSettles`: `SyncedAtEnd` follows from `SyncInv`, which says for each step
  of a sync which of the memoized sides is still what is there, and that no row
  of the log is newer than START_COMMIT, so that nothing is left out of the
  comparison.
* `CommitOutcomeProofs` rests on these. `CommitEffective`: an undisturbed commit
  without an error did what the users asked (`CommitTakesEffect`), in both
  places. `ReadInv` says what of the taken changes each side that a commit
  remembers shows, and that as long as nobody disturbs it nothing else writes
  the entities. Its hypothesis is that no worker dies: TLC finds that one that
  dies while it reverts may leave the database as it was before a change that a
  user made later, and the next commit then ends without an error and without
  that change. Calls may fail, transactions may be long.
* `CommitUndoProofs`. `FailureUndone`: a failed commit that nobody disturbed put
  everything back (`FailedCommitUndone`), for any foreign keys. Four facts about
  the model make the proof. (1) `Founded`: the rows that are there can be made
  and deleted one by one, so between any two such states something is always
  possible (`SomethingFits`); a change that the keys allow keeps it so. It is an
  invariant of database and cloud alike (`StateInv`), though `Needs` may have
  cycles: what has one is never there. (2) The log is a path (`Histories`,
  `Recorded`): from the state at the begin to the database, each change from
  what was there to what the row says, so that inverse queries, newest first,
  lead back along it and each of them fits (`BackTo`). (3) What was in the
  cloud it takes again (`Lawful`), so in `applyRevert` each round makes progress
  until no difference is left, and progress is never taken for a loop
  (`Settling`). (4) `UndoneInv` puts them
  together along the steps of a commit. Its hypothesis is that calls fail only
  for the reasons the cloud has to refuse them: with reads and calls that fail for
  no reason (`Flaky`) TLC violates the property, already by a rollback whose read
  of the cloud throws and which keeps what the user changed. Workers may die,
  transactions may be long.
* `MapperRunProofs`. `CommitReconciles`: `MapperRun` implements `Reconcile`, for
  any mappers, plans and bounds: a commit ends with the database as the cloud is,
  unless sync throws. The invariant `RunInv` is about the two loops:
  the inner one stops without reading the row again only if it ran something
  (`Reread`), and once apply is over no call is left to run (`Quiet`). Steps of
  handlers map to stutters or disturbances (`CalmMaps`) since they do not touch
  the loops' variables, whatever they do.
  `SyncConverges`: `CutForCause`, for any mappers. A turn with nothing to write has
  every resource in a row that shows what the mapper reads of it, so `equals` can
  only tell the two apart by columns that it does not read (`WrittenMirrors`).
  `TypeCorrect`: `TypeOK`. Here plans matter: its hypothesis `HandlersTyped` is
  that they consist of the steps in `Plans`, whatever differs; TLC evaluates it
  for every mapper where nothing, one column or everything differs
  (`MappersTyped`), all combinations being too many for a run. What the proof
  adds are the jumps: a plan is cut where a call throws, at the catch block it is
  in or behind the handler it was called by (`BehindTyped`, `ThrowTyped`), and
  a step that makes a row of its own is about a resource since its handler is
  called for one (`WriteTyped`).
  `BuiltInsKept`: `BuiltInKept`, for any mappers whose full read lists what is there
  or throws (`ListsAll`) and whose handlers of a deletion leave what AWS does not
  let go alone, whatever differs (`BuiltInsLeft`; TLC evaluates it for all mappers as `MappersLeaveBuiltIns`). The handler alone does
  not give the property: it may fail before it puts the row back, run again, or
  write the memory's stale values. `BuiltInInv` says what cannot happen meanwhile:
  the resource stays as it was, every row and memo is its or none, and
  `lazyLoader` only ever has its deletion to run (`Removing`). So apply, which
  lists the resource and compares it with what the changed row was, finds the
  same difference until there is a row (`BuiltInDiffers`), and returns only then. Of
  `Subscription` and `ResourceRecordSet`, whose reads may leave a resource out, it
  is only model-checked: there the row may be missing as long as the read leaves
  the resource out, which is what `BuiltInKept` says of them.
* `ModuleInstallProofs`. `Closed`, `SortEnds`, `RowsAndTables`, `TypeCorrect`,
  from an invariant that says, for each step of a call, how the list still to do
  relates to the registry. `SortProgresses` is about the algorithm alone: on a
  list that is complete, with dependencies that have no cycle, `sortModules`
  always finds another module to take.
* `DbLifecycleProofs`. `ConnectedKept`, `ConnectedThere`, `UpgradeDone`,
  `UpgradeNeverStuck`, `TypeCorrect`. The invariant says that callers of one
  database make it astray (`Sole`), that nobody works before the container serves (`Quiet`), that a
  connected database is in its user's list or under upgrade (`Tracked`), and
  that hence no connect is past its check and no disconnect is about it
  (`NotLive`), so nobody who drops a database drops a connected one. Steps of
  callers are reduced to two obligations (`StepKeeps`): lose nothing of others,
  and leave one's own database in order. `UpgradeDone` is about timers that may throw
  at any of their statements, and `UpgradeNeverStuck` says that nothing but such a
  failure stops one: as long as no command fails of itself, whatever mix of the
  three names crashes and restarts have left, no statement of part 3 is refused.
  Both rest on a second invariant, `UInv`: a database is in its user's list or its timer puts it there
  (`Recorded`), so upgrade.sh renames each one it finds; every `OLD<db>` has a
  timer or is still to get one (`Claimed`); `<db>` and `OLD<db>` exist together
  only between the two statements of a timer (`OneName`), so `NEW<db>` can take
  the name; and between a start's cleaning and its timer's last step the list is
  without the database (`Phases`), so `saveDb` does not refuse the alias. Failed
  and crashed requests matter here: a connect that has not created its database,
  or a deletion past its drop, must not leave one (`Vacant`).
* `AuditReplayProofs`. `DatabasesSound`: whatever is changed, reverted and run
  elsewhere, the databases keep their types and foreign keys. `TypeInv` says of
  a query that its columns have values their types allow; that the parent it
  refers to is there is PostgreSQL's check (`Allowed`). `BystandersSafe`: inverse
  queries touch no row the transaction did not touch. They find rows by values,
  so `BystanderInv` has to say what the values are: at the time of each change no
  row that is untouched to the end looked like what the change made (`Apart`,
  since there were no twins then), an inverse query looks for exactly that
  (`Undoes`), so the untouched rows, which are still what they were (`Keeps`),
  do not match, whatever the queries before did or failed to do.
  `RevertSound` and `ReplaySound`: `RevertRestores` and `ReplayReproduces`, for
  any number of rows, of changes and of values. `copy` is compared with `start`
  or `db`, which says nothing while queries are left to run, so the invariant
  (`PastInv`) says more: there are databases of the past, one per place in the
  log (`History`), each change leads from one to the next (`Chain`), and the
  copy is at all times a twin of one of them: of the one before the changes
  undone so far (`Undoing`), or of those after the changes replayed so far, with
  what was not given left out (`Replaying`). Ids differ, so a twin (`Twin`) has a
  matching of ids that is one to one on each table, follows the references and
  keeps all other columns; cloud ids may differ where the changes that filled
  them in are not given or rows are yet to go (`AgreedThere`, `AgreedBack`). The
  heart is `TwinQuery`: a query that asks for a change (`Asks`) does to a twin
  what the change did, since exactly one row matches (`Found`); `AsksIs` says
  that recreateQueries' query does ask for it, and `SubQueryIs` that its
  sub-queries, made from values of any time, find the parent of this time. In
  the end equal contents follow by counting rows through the matching
  (`TwinContents`). The five exceptions are hypotheses of the two properties;
  whoever drops one finds the lemma that needs it.

Only model-checked: liveness (`CallsReturn`, `LockReleased`, `SyncResumes`,
`CommitEnds`, `EventuallyInSync`, `EveryChangeTaken`, `CommitEndsOrLoops`), which
is out of the prover's reach; and the properties of single mappers other than
`BuiltInKept`, which hold with the exceptions of tables and are about what the
plans of each mapper add up to, hence about data.

## 4. What is not modelled

* In `MapperRun`: several entities at once (whether what an entity refers to is
  there is a fact that may change), values, regions, pagination, throttling, the
  revert of a failed commit (which is `CommitPipeline`'s), two rows that share an
  id in the memo, reads that swallow a failure and show a resource without one
  column (a bucket's policy and tags) instead of leaving it out, attributes of a
  default VPC that are sent because another of its columns changed. Mappers whose source is the cloud have no handlers that do
  anything (`InstanceMetadata`); those of credentials (`AwsCredentials`,
  `SshCredentials`) keep rows for the SDK's client and no resource.
* RPCs of the cloud modules (`ecr_build`, `s3_upload_object`,
  `codebuild_start_build` and others): each calls the SDK once and syncs the
  tables, and keeps no state.
* `AuditReplay`: formats of values, join tables, tables without `@cloudId`.
* The rejection of RPCs while a database is `upgrading`, or has another version:
  before anything is written.
* `CommitPipeline`: dry runs, plan rows, modules without tables, write-backs of
  a mapper after a creation, the engine's own audit rows, reads that see half of
  another session's statement, and a change that has exactly the stamp of a
  START_COMMIT: `Between` takes it into both windows that meet there, and
  `LessThan`, which the first window uses, leaves it to the second; in the model no
  change has one. Creating a row that exists fails, by its unique
  key.
* `ModuleInstall`: `iasql_platform` and `iasql_functions`, the read of the cloud
  that fills new tables, and the release of connections.
* `DbLifecycle`: several users, ids of `multiUser` installations (random, so
  that two databases cannot collide), roles, contents of databases, and the
  primary's own cleaning at a start without an upgrade, which each worker
  repeats. A rejection nobody handles ends the process, or with Sentry is only
  reported: a timer that threw stays as it is, and a restart may follow.
* Metadata counters, telemetry, logging, configuration, dashboard, site,
  examples, scripts, migrations: see `components` in PROJECT.json.

## 5. Plan

Done: `TransactionLock` with `Turns`, `CommitPipeline`, `ModuleInstall`, `DbLifecycle`,
`Plans` with `MapperRun` and the mappers, `Reconcile`, `AuditReplay`, each with
an MC module and its runs, and proofs of all but the single mappers.

Left, in this order:

1. `MapperRun` with two entities that refer to each other, so that waiting is a
   consequence and not a fact; two rows of one id in the memo.
2. `context.memo` with placeholders against circular reads.
3. An atomic installation, which `ModuleInstall` implements while nothing is
   torn; a set of connected databases, which `DbLifecycle` implements for those
   that are not astray.
