-------------------------- MODULE TransactionLock --------------------------
(***************************************************************************)
(* The protocol by which IaSQL decides who may synchronise the database    *)
(* with the cloud.  There is no lock object: iasql_audit_log is read back. *)
(* A database session calls an RPC through an SQL function, which posts to *)
(* /v1/db/rpc and blocks on the answer; rpcCall (src/router/db.ts) then    *)
(* runs the RPC's pre-check, its body and its post-check, reading and      *)
(* inserting OPEN_TRANSACTION, CLOSE_TRANSACTION and START/END_COMMIT      *)
(* records.  pg_cron runs maybe_commit() from one more session.            *)
(*                                                                         *)
(* Every query of the protocol asks for the newest record of some kinds    *)
(* (ORDER BY ts DESC LIMIT 1), so `log' keeps just those answers instead   *)
(* of the whole table.  A record is stamped and stored in one step.        *)
(***************************************************************************)
EXTENDS Integers, FiniteSets

CONSTANTS
  Users,        \* database sessions of users
  Cron,         \* the pg_cron session that runs maybe_commit()
  Handlers,     \* requests the worker processes can serve at a time
  NoTx,         \* '<no-id-found>', and the transactionId of a log with none
  Loops,        \* attempts of maybeOpenTransaction (120 in the code)
  UserRpcs,     \* the RPCs the users of this instance call
  MayTimeout,   \* whether an http_post may hit its one hour timeout
  MayCrash      \* whether a worker process may die

Rpcs == {"begin", "commit", "rollback", "preview", "install", "invoke", "default"}

ASSUME ConstantsAssumption ==
  /\ Loops \in Nat \ {0}
  /\ UserRpcs \subseteq Rpcs
  /\ MayTimeout \in BOOLEAN
  /\ MayCrash \in BOOLEAN
  /\ Cron \notin Users
  /\ NoTx \notin Users \cup {Cron}

Clients == Users \cup {Cron}

VARIABLES
  log,      \* the newest audit log records, as the queries see them
  handler,  \* handler[h]: the RPC a worker is executing in slot h
  sess,     \* sess[c]: what session c remembers between two calls
  trouble   \* history variable: the irregular things that happened so far

vars == <<log, handler, sess, trouble>>

-----------------------------------------------------------------------------
(* The audit log.                                                          *)

LockKinds   == {"OPEN_TRANSACTION", "CLOSE_TRANSACTION"}
CronKinds   == LockKinds \cup {"START_COMMIT"}
StartKinds  == {"START_COMMIT", "PREVIEW_START_COMMIT"}
CommitKinds == StartKinds \cup {"END_COMMIT", "PREVIEW_END_COMMIT"}
NoRecord    == "none"

\* The author insertLog writes on every record it inserts.
ConfigDbUser == "config.db.user"

\* Ages of a record, as maybe_commit tells them apart.
Fresh == 0
Over2Min == 1
Over5Hrs == 2

EmptyLog == [lock |-> NoRecord, last |-> NoRecord, age |-> Fresh,
             tx |-> NoTx, otherCommit |-> NoRecord]

\* The log after a record of the kind by the author: transaction ids are
\* random, so an id is represented by the session it was drawn for.
Logged(l, kind, user, tx) ==
  [lock |-> IF kind \in LockKinds THEN kind ELSE l.lock,
   last |-> IF kind \in CronKinds THEN kind ELSE l.last,
   age  |-> IF kind \in CronKinds THEN Fresh ELSE l.age,
   tx   |-> IF kind = "OPEN_TRANSACTION" THEN tx ELSE l.tx,
   otherCommit |-> IF kind \in CommitKinds /\ user # ConfigDbUser
                   THEN kind ELSE l.otherCommit]

insertLog(kind, tx) == log' = Logged(log, kind, ConfigDbUser, tx)

isOpenTransaction == log.lock = "OPEN_TRANSACTION"

\* Looks only at records whose author is Not(config.db.user).
isCommitRunning == log.otherCommit \in StartKinds

getCurrentTransactionId == log.tx

-----------------------------------------------------------------------------
(* The checks the RPCs declare.  `install' is iasql_install, `invoke' the  *)
(* other RPCs that hold the lock around a body without a commit            *)
(* (uninstall, AWS SDK calls, ssh), `default' the RPCs that declare no     *)
(* checks and so run between a nested iasql_begin and iasql_commit.        *)

WaitForLock     == {"begin", "install", "invoke", "default"}
FailIfNotLocked == {"commit", "rollback", "preview"}
UnlockAlways    == {"commit", "rollback", "install", "invoke"}

FreeSlot == [pc |-> "free", rpc |-> "begin", client |-> Cron, caller |-> "gone",
             loops |-> 0, tx |-> NoTx, errs |-> {}]

Busy(h) == handler[h].pc # "free"

\* Session c is blocked in http_post until handler h answers.
Awaits(c, h) == Busy(h) /\ handler[h].client = c /\ handler[h].caller = "waiting"
Waiting(c)   == \E h \in Handlers : Awaits(c, h)

\* What a session remembers once its call of an RPC returned or raised.
SessAfter(c, rpc, ok) ==
  IF c = Cron
  THEN IF rpc = "begin" /\ ok THEN "begun"
       ELSE IF rpc = "commit" /\ ~ok THEN "failed" ELSE "idle"
  ELSE IF rpc = "begin" /\ ok THEN "inTx"
       ELSE IF rpc \in {"commit", "rollback"} THEN "idle" ELSE sess[c]

Returned(h, ok) ==
  sess' = IF handler[h].caller = "waiting"
          THEN [sess EXCEPT ![handler[h].client]
                  = SessAfter(handler[h].client, handler[h].rpc, ok)]
          ELSE sess

\* A session posts an RPC, a worker accepts it and enters rpcCall.
Post(c, rpc) ==
  /\ ~Waiting(c)
  /\ \E h \in Handlers :
       /\ ~Busy(h)
       /\ handler' = [handler EXCEPT ![h] =
            [pc |-> IF rpc \in WaitForLock THEN "wait" ELSE "check",
             rpc |-> rpc, client |-> c, caller |-> "waiting", loops |-> Loops,
             tx |-> NoTx, errs |-> {}]]
  /\ UNCHANGED <<log, sess, trouble>>

-----------------------------------------------------------------------------
(* The steps of a handler; each ends at an await of the code.              *)

At(h, pc) == handler[h].pc = pc

Goto(h, pc) == handler' = [handler EXCEPT ![h].pc = pc]

\* Mutants of WaitForLockTurn: a wait that never gives up, one that counts
\* past zero, and one that answers success when it does.
WaitForLockTurn_forever(h) ==
  /\ At(h, "wait")
  /\ IF ~isOpenTransaction THEN Goto(h, "open") ELSE handler' = handler
  /\ UNCHANGED <<log, sess, trouble>>

WaitForLockTurn_countsPastZero(h) ==
  /\ At(h, "wait")
  /\ IF ~isOpenTransaction
     THEN Goto(h, "open")
     ELSE handler[h].loops >= 0 /\ handler' = [handler EXCEPT ![h].loops = @ - 1]
  /\ UNCHANGED <<log, sess, trouble>>

WaitForLockTurn_givesUpSilently(h) ==
  /\ At(h, "wait")
  /\ Goto(h, IF isOpenTransaction THEN "reply" ELSE "open")
  /\ UNCHANGED <<log, sess, trouble>>

\* One turn of the loop of maybeOpenTransaction: both reads.
WaitForLockTurn(h) ==
  /\ At(h, "wait")
  /\ IF ~isCommitRunning /\ ~isOpenTransaction
     THEN Goto(h, "open")
     ELSE IF handler[h].loops > 1
          THEN handler' = [handler EXCEPT ![h].loops = @ - 1]
          ELSE handler' = [handler EXCEPT ![h].loops = 0, ![h].pc = "reply",
                                          ![h].errs = {"rpcErr"}]
  /\ UNCHANGED <<log, sess, trouble>>

\* ... and the insert, which may come after somebody else's.
OpenTransaction(h) ==
  /\ At(h, "open")
  /\ insertLog("OPEN_TRANSACTION", handler[h].client)
  /\ trouble' = IF isOpenTransaction THEN trouble \cup {"doubleOpen"} ELSE trouble
  /\ Goto(h, "body")
  /\ UNCHANGED sess

\* Mutants of CheckLocked: no check, and a log without records taken for open.
CheckLocked_unguarded(h) ==
  At(h, "check") /\ Goto(h, "enter") /\ UNCHANGED <<log, sess, trouble>>

CheckLocked_notClosed(h) ==
  /\ At(h, "check")
  /\ log.lock # "CLOSE_TRANSACTION"
  /\ Goto(h, "enter")
  /\ UNCHANGED <<log, sess, trouble>>

\* FAIL_IF_NOT_LOCKED, of an RPC or of the iasql_commit nested in a default one.
CheckLocked(h) ==
  /\ At(h, "check")
  /\ handler' = IF isOpenTransaction
                THEN [handler EXCEPT ![h].pc = "enter"]
                ELSE IF handler[h].rpc = "default"
                     THEN [handler EXCEPT ![h].pc = "reclose",
                                           ![h].errs = @ \cup {"commitErr"}]
                     ELSE [handler EXCEPT ![h].pc = "reply", ![h].errs = {"rpcErr"}]
  /\ UNCHANGED <<log, sess, trouble>>

\* The body of an RPC that took the lock itself; it may throw, and install
\* may return or throw before it gets to its commit.
Body(h) ==
  /\ At(h, "body")
  /\ \/ /\ handler[h].rpc = "begin"
        /\ Goto(h, "reply")
     \/ /\ handler[h].rpc = "install"
        /\ Goto(h, "enter")
     \/ /\ handler[h].rpc \in {"install", "invoke", "default"}
        /\ \E errs \in {{}, {"rpcErr"}} :
             handler' = [handler EXCEPT
               ![h].pc = IF handler[h].rpc = "default" THEN "check" ELSE "close",
               ![h].errs = errs]
  /\ UNCHANGED <<log, sess, trouble>>

\* The start of commit(), dry or not, and rollback(): is another one running?
EnterCommit(h) ==
  /\ At(h, "enter")
  /\ LET force == handler[h].rpc = "rollback" /\ handler[h].client = Cron
     IN  handler' = IF isCommitRunning /\ ~force
                    THEN [handler EXCEPT ![h].pc = "end",
                                         ![h].errs = @ \cup {"commitErr"}]
                    ELSE [handler EXCEPT ![h].pc = "start",
                                         ![h].tx = getCurrentTransactionId]
  /\ UNCHANGED <<log, sess, trouble>>

DryRun(h) == handler[h].rpc = "preview"

StartCommit(h) ==
  /\ At(h, "start")
  /\ insertLog(IF DryRun(h) THEN "PREVIEW_START_COMMIT" ELSE "START_COMMIT", NoTx)
  /\ trouble' = IF handler[h].client # log.tx
                THEN trouble \cup {"foreignCommit"} ELSE trouble
  /\ Goto(h, "work")
  /\ UNCHANGED sess

\* apply, revert and sync; an error is remembered and thrown at the end.
Synchronise(h) ==
  /\ At(h, "work")
  /\ \E errs \in {{}, {"commitErr"}} :
       handler' = [handler EXCEPT ![h].pc = "end", ![h].errs = @ \cup errs]
  /\ UNCHANGED <<log, sess, trouble>>

\* The finally block.
EndCommit(h) ==
  /\ At(h, "end")
  /\ insertLog(IF DryRun(h) THEN "PREVIEW_END_COMMIT" ELSE "END_COMMIT", NoTx)
  /\ Goto(h, IF DryRun(h) THEN "reply" ELSE "close")
  /\ UNCHANGED <<sess, trouble>>

\* Mutant of CloseTransaction: UNLOCK_IF_SUCCEED for every RPC.
CloseTransaction_ifSucceeded(h) ==
  /\ handler[h].pc \in {"close", "reclose"}
  /\ IF handler[h].errs = {} THEN insertLog("CLOSE_TRANSACTION", NoTx) ELSE log' = log
  /\ Goto(h, "reply")
  /\ UNCHANGED <<sess, trouble>>

\* closeTransaction: of UNLOCK_ALWAYS ("close", which is also the one of the
\* nested iasql_commit), or after a nested iasql_commit raised ("reclose").
CloseTransaction(h) ==
  /\ handler[h].pc \in {"close", "reclose"}
  /\ insertLog("CLOSE_TRANSACTION", NoTx)
  /\ trouble' = IF handler[h].client # log.tx
                THEN trouble \cup {"foreignClose"} ELSE trouble
  /\ Goto(h, IF At(h, "close") /\ handler[h].rpc = "default"
                /\ "commitErr" \in handler[h].errs
             THEN "reclose" ELSE "reply")
  /\ UNCHANGED sess

\* The worker answers; the answer of an abandoned request goes nowhere.
Reply(h) ==
  /\ At(h, "reply")
  /\ Returned(h, handler[h].errs = {})
  /\ handler' = [handler EXCEPT ![h] = FreeSlot]
  /\ UNCHANGED <<log, trouble>>

HandlerStep(h) ==
  \/ WaitForLockTurn(h) \/ OpenTransaction(h) \/ CheckLocked(h) \/ Body(h)
  \/ EnterCommit(h) \/ StartCommit(h) \/ Synchronise(h) \/ EndCommit(h)
  \/ CloseTransaction(h) \/ Reply(h)

-----------------------------------------------------------------------------
(* What may go wrong around a handler.                                     *)

\* http_post gives up: the SQL function raises, the handler goes on.
Timeout(h) ==
  /\ MayTimeout
  /\ Busy(h)
  /\ handler[h].caller = "waiting"
  /\ Returned(h, FALSE)
  /\ handler' = [handler EXCEPT ![h].caller = "gone"]
  /\ trouble' = trouble \cup {"timeout"}
  /\ UNCHANGED log

\* The worker process dies and the cluster forks another one.
Crash(h) ==
  /\ MayCrash
  /\ Busy(h)
  /\ Returned(h, FALSE)
  /\ handler' = [handler EXCEPT ![h] = FreeSlot]
  /\ UNCHANGED <<log, trouble>>

-----------------------------------------------------------------------------
(* The sessions.                                                           *)

\* A user calls any RPC at any time, the ones for an open transaction too.
UserCall(u, rpc) == rpc \in UserRpcs /\ Post(u, rpc)

\* A user that began a transaction ends it.
UserFinish(u) == sess[u] = "inTx" /\ UserCall(u, "commit")

\* maybe_commit: the rollback of a commit that seems dead ...
CronRollback ==
  /\ sess[Cron] = "idle"
  /\ log.last = "START_COMMIT" /\ log.age = Over5Hrs
  /\ Post(Cron, "rollback")

\* Mutant of CronBegin: only a record of about two minutes will do.
CronBegin_onTheMinute ==
  /\ sess[Cron] = "idle"
  /\ log.last = "CLOSE_TRANSACTION" /\ log.age = Over2Min
  /\ Post(Cron, "begin")

\* ... or a transaction of its own once the last one has been closed a while.
CronBegin ==
  /\ sess[Cron] = "idle"
  /\ log.last = "CLOSE_TRANSACTION" /\ log.age >= Over2Min
  /\ Post(Cron, "begin")

CronCommit == sess[Cron] = "begun" /\ Post(Cron, "commit")

\* EXCEPTION WHEN others: one more CLOSE_TRANSACTION, whatever happened.
CronException ==
  /\ sess[Cron] = "failed"
  /\ log' = Logged(log, "CLOSE_TRANSACTION", "postgres", NoTx)
  /\ trouble' = IF log.tx # Cron THEN trouble \cup {"foreignClose"} ELSE trouble
  /\ sess' = [sess EXCEPT ![Cron] = "idle"]
  /\ UNCHANGED handler

CronStep == CronRollback \/ CronBegin \/ CronCommit \/ CronException

\* The newest record grows older.
Tick ==
  /\ log.last # NoRecord
  /\ log.age < Over5Hrs
  /\ log' = [log EXCEPT !.age = @ + 1]
  /\ UNCHANGED <<handler, sess, trouble>>

Init ==
  /\ log = EmptyLog
  /\ handler = [h \in Handlers |-> FreeSlot]
  /\ sess = [c \in Clients |-> "idle"]
  /\ trouble = {}

Next ==
  \/ \E h \in Handlers : HandlerStep(h) \/ Timeout(h) \/ Crash(h)
  \/ \E u \in Users, rpc \in Rpcs : UserCall(u, rpc)
  \/ CronStep
  \/ Tick

Spec == Init /\ [][Next]_vars

-----------------------------------------------------------------------------
(* Fairness.  Every step of a handler is an await that settles; pg_cron    *)
(* keeps firing and time passes.  Users owe nothing but one thing: whoever *)
(* began a transaction commits it at last (strong fairness, for its calls  *)
(* of other RPCs come in between).                                         *)

FairSpec ==
  /\ Spec
  /\ \A h \in Handlers : WF_vars(HandlerStep(h))
  /\ WF_vars(CronStep)
  /\ WF_vars(Tick)
  /\ \A u \in Users : SF_vars(UserFinish(u))

-----------------------------------------------------------------------------
(* Properties.                                                             *)

Pcs == {"free", "wait", "open", "check", "body", "enter", "start", "work",
        "end", "close", "reclose", "reply"}

Ages == {Fresh, Over2Min, Over5Hrs}

Troubles == {"doubleOpen", "foreignCommit", "foreignClose", "timeout"}

LogType == [lock: LockKinds \cup {NoRecord}, last: CronKinds \cup {NoRecord},
            age: Ages, tx: Clients \cup {NoTx},
            otherCommit: CommitKinds \cup {NoRecord}]

HandlerType == [pc: Pcs, rpc: Rpcs, client: Clients, caller: {"waiting", "gone"},
                loops: 0 .. Loops, tx: Clients \cup {NoTx},
                errs: SUBSET {"rpcErr", "commitErr"}]

SessType == {"idle", "inTx", "begun", "failed"}

\* Every variable of the lock protocol keeps its type.
TypeOK ==
  /\ log \in LogType
  /\ handler \in [Handlers -> HandlerType]
  /\ sess \in [Clients -> SessType]
  /\ trouble \in SUBSET Troubles

\* A commit, a rollback or a preview is running: its START record is in the
\* log and its END record is not.
InCommit(h) == handler[h].pc \in {"work", "end"}

\* A commit, a rollback or a closeTransaction never finds a log without a
\* transaction: getCurrentTransactionId never answers '<no-id-found>' to
\* them, whatever raced, timed out or crashed.
TransactionIdFound ==
  /\ \A h \in Handlers :
       handler[h].pc \in {"start", "work", "end", "close", "reclose"} =>
         /\ getCurrentTransactionId # NoTx
         /\ handler[h].pc \in {"start", "work"} => handler[h].tx # NoTx
  /\ sess[Cron] \in {"begun", "failed"} => getCurrentTransactionId # NoTx

\* As long as no OPEN_TRANSACTION was inserted into an open lock, no session
\* committed or closed another session's transaction and no request timed
\* out, commit(), rollback() and preview exclude each other, although
\* isCommitRunning never answers true and workers crash.
SoleCommit ==
  trouble = {} => \A g, h \in Handlers : InCommit(g) /\ InCommit(h) => g = h

\* Under the same conditions a running commit is in the open transaction of
\* its own session and files its records under that transaction's id.
CommitOwnsTransaction ==
  trouble = {} =>
    \A h \in Handlers : InCommit(h) =>
      /\ isOpenTransaction
      /\ log.tx = handler[h].client
      /\ handler[h].tx = handler[h].client

\* Under the same conditions a user whose iasql_begin succeeded finds its
\* transaction open until it calls iasql_commit or iasql_rollback.
BegunStaysOpen ==
  trouble = {} =>
    \A u \in Users : sess[u] = "inTx" =>
      \/ isOpenTransaction /\ log.tx = u
      \/ \E h \in Handlers : Awaits(u, h) /\ handler[h].rpc \in {"commit", "rollback"}

\* Who holds the lock, and the commits that run.
Holder  == IF isOpenTransaction THEN log.tx ELSE NoTx
Running == {<<h, handler[h].client>> : h \in {g \in Handlers : InCommit(g)}}

\* The audit log read as a lock implements Turns: as long as nothing irregular
\* is on record, a session opens a transaction only when none is open, commits
\* only in its own and one commit at a time, and no CLOSE_TRANSACTION, of
\* rpcCall or of maybe_commit's exception handler, falls into a running commit
\* or is another session's; a worker that dies leaves the transaction open.
Lock == INSTANCE Turns WITH Sessions <- Clients, Slots <- Handlers, Nobody <- NoTx,
          holder <- Holder, running <- Running, upset <- (trouble # {})
TakesTurns == Lock!Spec

\* Every call of an RPC returns or raises, the wait for the lock included.
CallsReturn == \A c \in Clients : Waiting(c) ~> ~Waiting(c)

\* Without crashes and timeouts the lock never stays open for good, whoever
\* raced for it and whoever closed it.
LockReleased == []<>(~isOpenTransaction)

\* Without crashes and timeouts, the periodic commit resumes: once a first
\* record exists and the users have stopped calling, maybe_commit goes on
\* committing again and again.
UsersQuiet == \A u \in Users : sess[u] = "idle" /\ ~Waiting(u)
CronCommitting == \E h \in Handlers : handler[h].client = Cron /\ InCommit(h)
SyncResumes ==
  (<>[](UsersQuiet /\ log.last # NoRecord)) => []<>CronCommitting

-----------------------------------------------------------------------------
(* What comments and documentation say, and the code does not do.          *)

\* "Another execution is in process": two commits never run together.
NoTwoCommits ==
  \A g, h \in Handlers : InCommit(g) /\ InCommit(h) => g = h

=============================================================================
