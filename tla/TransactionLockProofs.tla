----------------------- MODULE TransactionLockProofs -----------------------
(***************************************************************************)
(* What TransactionLock promises for any number of users, handlers and     *)
(* attempts, with workers that crash and calls that time out: its types,   *)
(* that a transaction id is always found, and that commits exclude each    *)
(* other for as long as no irregularity has been recorded in `trouble'.    *)
(***************************************************************************)
EXTENDS TransactionLock, TLAPS

-----------------------------------------------------------------------------
(* The inductive invariant.                                                *)

\* Which RPCs can be at which step of rpcCall.
RpcAtStep ==
  \A h \in Handlers :
    /\ handler[h].pc \in {"wait", "open", "body"} => handler[h].rpc \in WaitForLock
    /\ handler[h].pc = "check" => handler[h].rpc \in FailIfNotLocked \cup {"default"}
    /\ handler[h].pc \in {"enter", "start", "work", "end"} =>
         handler[h].rpc \in FailIfNotLocked \cup {"install", "default"}
    /\ handler[h].pc \in {"close", "reclose"} =>
         handler[h].rpc \in UnlockAlways \cup {"default"}

\* A session blocks in one call at a time.
OneCall ==
  \A c \in Clients, g, h \in Handlers : Awaits(c, g) /\ Awaits(c, h) => g = h

\* isCommitRunning never finds a record: its filter excludes insertLog's author.
NeverRunning == log.otherCommit = NoRecord

\* The cron session is where maybe_commit is.
CronCalls ==
  /\ sess[Cron] = "failed" => ~Waiting(Cron)
  /\ \A h \in Handlers :
       Awaits(Cron, h) /\ handler[h].rpc = "commit" => sess[Cron] = "begun"

\* A handler whose OPEN_TRANSACTION, or that of its session, is in the log.
Opened(h) ==
  \/ handler[h].pc \in {"body", "enter", "start", "work", "end", "close", "reclose"}
  \/ handler[h].pc = "check" /\ handler[h].rpc = "default"
  \/ handler[h].pc = "reply" /\ handler[h].rpc = "begin" /\ handler[h].errs = {}

IdKnown ==
  /\ log.lock # NoRecord => log.tx # NoTx
  /\ \A h \in Handlers :
       /\ Opened(h) => log.tx # NoTx
       /\ handler[h].pc \in {"start", "work"} => handler[h].tx # NoTx
  /\ sess[Cron] \in {"begun", "failed"} => log.tx # NoTx

LockInv ==
  TypeOK /\ RpcAtStep /\ OneCall /\ NeverRunning /\ CronCalls /\ IdKnown

\* What holds beyond that while nothing irregular has happened: every request
\* has its session waiting, a handler that took the lock or started a commit
\* has it, and one past its check has it if the transaction is its session's.
TookLock(h) ==
  \/ handler[h].pc \in {"body", "work", "end"}
  \/ handler[h].pc = "reply" /\ handler[h].rpc = "begin" /\ handler[h].errs = {}

PassedCheck(h) == TookLock(h) \/ handler[h].pc \in {"enter", "start"}

CallersWait == \A h \in Handlers : Busy(h) => handler[h].caller = "waiting"

OwnsLock ==
  \A h \in Handlers :
    /\ TookLock(h) => log.tx = handler[h].client
    /\ PassedCheck(h) /\ log.tx = handler[h].client => isOpenTransaction
    /\ handler[h].pc \in {"start", "work", "end"} /\ log.tx = handler[h].client =>
         handler[h].tx = handler[h].client

\* A begun transaction is open, or its session is ending it; meanwhile every
\* other request for the lock by that session waits in vain.
BegunInv ==
  \A u \in Users : sess[u] = "inTx" =>
    /\ \/ isOpenTransaction /\ log.tx = u
       \/ \E h \in Handlers : Awaits(u, h) /\ handler[h].rpc \in {"commit", "rollback"}
    /\ \A h \in Handlers : Awaits(u, h) /\ handler[h].rpc \in WaitForLock =>
         \/ handler[h].pc = "wait"
         \/ handler[h].pc = "reply" /\ handler[h].errs # {}

Owned == CallersWait /\ OwnsLock /\ BegunInv

OwnedInv == trouble = {} => Owned

IInv == LockInv /\ OwnedInv

-----------------------------------------------------------------------------
(* Types.                                                                  *)

\* Init establishes the inductive invariant: the log and the slots are empty.
LEMMA InitIInv == Init => IInv
  <1> SUFFICES ASSUME Init PROVE IInv  OBVIOUS
  <1> USE ConstantsAssumption
  <1>1. TypeOK
    BY DEF Init, TypeOK, EmptyLog, FreeSlot, LockKinds, CronKinds, CommitKinds,
           StartKinds, NoRecord, Clients, Rpcs, Pcs, Ages, Fresh, Troubles,
           LogType, HandlerType, SessType
  <1>2. \A h \in Handlers : handler[h].pc = "free"
    BY DEF Init, FreeSlot
  <1>3. RpcAtStep /\ OneCall /\ NeverRunning /\ IdKnown /\ CronCalls
    BY <1>2 DEF Init, RpcAtStep, OneCall, NeverRunning, CronCalls, IdKnown, Opened,
                Awaits, Waiting, Busy, EmptyLog, NoRecord, Clients
  <1>4. OwnedInv
    BY <1>2 DEF Init, OwnedInv, Owned, CallersWait, OwnsLock, BegunInv, TookLock,
                PassedCheck, Busy, Clients
  <1> QED  BY <1>1, <1>3, <1>4 DEF IInv, LockInv

\* A record of a known kind, inserted for a session, keeps the log's type.
LEMMA LoggedType ==
  ASSUME TypeOK, NEW kind \in CronKinds \cup CommitKinds, NEW user,
         NEW tx \in Clients \cup {NoTx}
  PROVE  Logged(log, kind, user, tx) \in LogType
  BY DEF TypeOK, LogType, Logged, Ages

\* What a session remembers after an answer has its type.
LEMMA ReturnedType ==
  ASSUME TypeOK, NEW h \in Handlers, NEW ok \in BOOLEAN, Returned(h, ok)
  PROVE  sess' \in [Clients -> SessType]
  <1>1. handler[h].client \in Clients
    BY DEF TypeOK, HandlerType
  <1>2. sess[handler[h].client] \in SessType
    BY <1>1 DEF TypeOK
  <1>3. SessAfter(handler[h].client, handler[h].rpc, ok)
          \in SessType
    BY <1>2 DEF SessAfter, SessType
  <1> QED  BY <1>1, <1>3 DEF Returned, TypeOK

\* Every step keeps the types.
LEMMA TypeStep == TypeOK /\ [Next]_vars => TypeOK'
  <1> SUFFICES ASSUME TypeOK, [Next]_vars PROVE TypeOK'  OBVIOUS
  <1> USE ConstantsAssumption DEF TypeOK, LogType, HandlerType, SessType
  <1>1. ASSUME NEW h \in Handlers, HandlerStep(h) PROVE TypeOK'
    <2>0. ASSUME NEW errs \in SUBSET {"rpcErr", "commitErr"}
          PROVE  handler[h].errs \cup errs \in SUBSET {"rpcErr", "commitErr"}
      OBVIOUS
    <2>1. CASE WaitForLockTurn(h)
      BY <2>1 DEF WaitForLockTurn, At, Goto, Pcs
    <2>2. CASE OpenTransaction(h)
      <3>1. handler[h].client \in Clients
        OBVIOUS
      <3>2. log' \in LogType
        BY <2>2, <3>1, LoggedType DEF OpenTransaction, insertLog, CronKinds, LockKinds
      <3> QED  BY <2>2, <3>2 DEF OpenTransaction, At, Goto, Pcs, Troubles
    <2>3. CASE CheckLocked(h)
      <3>1. handler[h].errs \cup {"commitErr"} \in SUBSET {"rpcErr", "commitErr"}
        BY <2>0
      <3>2. \/ handler' = [handler EXCEPT ![h].pc = "enter"]
            \/ handler' = [handler EXCEPT ![h].pc = "reclose",
                                          ![h].errs = @ \cup {"commitErr"}]
            \/ handler' = [handler EXCEPT ![h].pc = "reply", ![h].errs = {"rpcErr"}]
        BY <2>3 DEF CheckLocked
      <3>3. UNCHANGED <<log, sess, trouble>>
        BY <2>3 DEF CheckLocked
      <3> QED  BY <3>1, <3>2, <3>3 DEF Pcs
    <2>4. CASE Body(h)
      BY <2>4 DEF Body, At, Goto, Pcs
    <2>5. CASE EnterCommit(h)
      <3>1. log.tx \in Clients \cup {NoTx}
        BY DEF LogType
      <3>2. \/ handler' = [handler EXCEPT ![h].pc = "end", ![h].errs = @ \cup {"commitErr"}]
            \/ handler' = [handler EXCEPT ![h].pc = "start", ![h].tx = log.tx]
        BY <2>5 DEF EnterCommit, getCurrentTransactionId
      <3> QED  BY <2>0, <2>5, <3>1, <3>2 DEF EnterCommit, Pcs
    <2>6. CASE StartCommit(h)
      <3>1. log' \in LogType
        BY <2>6, LoggedType DEF StartCommit, insertLog, CommitKinds, StartKinds
      <3> QED  BY <2>6, <3>1 DEF StartCommit, At, Goto, Pcs, Troubles
    <2>7. CASE Synchronise(h)
      <3>1. \/ handler' = [handler EXCEPT ![h].pc = "end", ![h].errs = @ \cup {}]
            \/ handler' = [handler EXCEPT ![h].pc = "end", ![h].errs = @ \cup {"commitErr"}]
        BY <2>7 DEF Synchronise
      <3>2. UNCHANGED <<log, sess, trouble>>
        BY <2>7 DEF Synchronise
      <3>3. /\ handler[h].errs \cup {} \in SUBSET {"rpcErr", "commitErr"}
            /\ handler[h].errs \cup {"commitErr"} \in SUBSET {"rpcErr", "commitErr"}
        BY <2>0
      <3> QED  BY <3>1, <3>2, <3>3 DEF Pcs
    <2>8. CASE EndCommit(h)
      <3>1. log' \in LogType
        BY <2>8, LoggedType DEF EndCommit, insertLog, CommitKinds
      <3> QED  BY <2>8, <3>1 DEF EndCommit, At, Goto, Pcs
    <2>9. CASE CloseTransaction(h)
      <3>1. log' \in LogType
        BY <2>9, LoggedType DEF CloseTransaction, insertLog, CronKinds, LockKinds
      <3> QED  BY <2>9, <3>1 DEF CloseTransaction, At, Goto, Pcs, Troubles
    <2>10. CASE Reply(h)
      <3>1. sess' \in [Clients -> SessType]
        BY <2>10, ReturnedType DEF Reply
      <3> QED  BY <2>10, <3>1 DEF Reply, FreeSlot, Clients, Rpcs, Pcs
    <2> QED  BY <1>1, <2>1, <2>2, <2>3, <2>4, <2>5, <2>6, <2>7, <2>8, <2>9, <2>10
             DEF HandlerStep
  <1>2. ASSUME NEW h \in Handlers, Timeout(h) PROVE TypeOK'
    <2>1. sess' \in [Clients -> SessType]
      BY <1>2, ReturnedType DEF Timeout
    <2> QED  BY <1>2, <2>1 DEF Timeout, Troubles
  <1>3. ASSUME NEW h \in Handlers, Crash(h) PROVE TypeOK'
    <2>1. sess' \in [Clients -> SessType]
      BY <1>3, ReturnedType DEF Crash
    <2> QED  BY <1>3, <2>1 DEF Crash, FreeSlot, Clients, Rpcs, Pcs
  <1>4. ASSUME NEW c \in Clients, NEW rpc \in Rpcs, Post(c, rpc) PROVE TypeOK'
    BY <1>4 DEF Post, Pcs
  <1>5. ASSUME CronStep PROVE TypeOK'
    <2>1. CASE CronException
      <3>1. log' \in LogType
        BY <2>1, LoggedType DEF CronException, CronKinds, LockKinds
      <3> QED  BY <2>1, <3>1 DEF CronException, Troubles, Clients, SessType
    <2>2. CASE CronRollback \/ CronBegin \/ CronCommit
      BY <2>2, <1>4 DEF CronRollback, CronBegin, CronCommit, Clients, Rpcs
    <2> QED  BY <1>5, <2>1, <2>2 DEF CronStep
  <1>6. ASSUME Tick PROVE TypeOK'
    BY <1>6 DEF Tick, LogType, Ages, Fresh, Over2Min, Over5Hrs
  <1>7. CASE UNCHANGED vars
    BY <1>7 DEF vars
  <1> QED  BY <1>1, <1>2, <1>3, <1>4, <1>5, <1>6, <1>7 DEF Next, UserCall, Clients

-----------------------------------------------------------------------------
(* The part of the invariant that holds whatever goes wrong.               *)

\* A step of a handler, its death and its caller's timeout change no other slot.
LEMMA OtherSlots ==
  ASSUME TypeOK, NEW h \in Handlers, HandlerStep(h) \/ Timeout(h) \/ Crash(h)
  PROVE  /\ handler' \in [Handlers -> HandlerType]
         /\ \A g \in Handlers \ {h} : handler'[g] = handler[g]
  <1>1. handler' \in [Handlers -> HandlerType]
    <2>1. [Next]_vars
      BY DEF Next
    <2> QED  BY <2>1, TypeStep DEF TypeOK
  <1>2. \A g \in Handlers \ {h} : handler'[g] = handler[g]
    BY DEF TypeOK, HandlerStep, Timeout, Crash, WaitForLockTurn, OpenTransaction,
           CheckLocked, Body, EnterCommit, StartCommit, Synchronise, EndCommit,
           CloseTransaction, Reply, Goto
  <1> QED  BY <1>1, <1>2

\* Each step moves on from its own step of rpcCall, for an RPC that has the next.
LEMMA RpcAtStepStep == TypeOK /\ RpcAtStep /\ [Next]_vars => RpcAtStep'
  <1> SUFFICES ASSUME TypeOK, RpcAtStep, [Next]_vars PROVE RpcAtStep'  OBVIOUS
  <1> USE DEF RpcAtStep, WaitForLock, FailIfNotLocked, UnlockAlways
  <1>1. ASSUME NEW h \in Handlers, HandlerStep(h) PROVE RpcAtStep'
    <2> USE OtherSlots
    <2>1. handler[h] \in HandlerType
      BY DEF TypeOK
    <2>2. CASE WaitForLockTurn(h)
      BY <1>1, <2>2 DEF WaitForLockTurn, At, Goto, TypeOK, HandlerType
    <2>3. CASE OpenTransaction(h)
      BY <1>1, <2>3 DEF OpenTransaction, At, Goto, TypeOK, HandlerType
    <2>4. CASE CheckLocked(h)
      BY <1>1, <2>4 DEF CheckLocked, At, TypeOK, HandlerType
    <2>5. CASE Body(h)
      BY <1>1, <2>5 DEF Body, At, Goto, TypeOK, HandlerType
    <2>6. CASE EnterCommit(h)
      BY <1>1, <2>6 DEF EnterCommit, At, TypeOK, HandlerType
    <2>7. CASE StartCommit(h)
      BY <1>1, <2>7 DEF StartCommit, At, Goto, TypeOK, HandlerType
    <2>8. CASE Synchronise(h)
      BY <1>1, <2>8 DEF Synchronise, At, TypeOK, HandlerType
    <2>9. CASE EndCommit(h)
      BY <1>1, <2>9 DEF EndCommit, At, Goto, DryRun, TypeOK, HandlerType
    <2>10. CASE CloseTransaction(h)
      BY <1>1, <2>10 DEF CloseTransaction, At, Goto, TypeOK, HandlerType
    <2>11. CASE Reply(h)
      BY <1>1, <2>11 DEF Reply, FreeSlot, TypeOK, HandlerType
    <2> QED  BY <1>1, <2>2, <2>3, <2>4, <2>5, <2>6, <2>7, <2>8, <2>9, <2>10, <2>11
             DEF HandlerStep
  <1>2. ASSUME NEW h \in Handlers, Timeout(h) PROVE RpcAtStep'
    BY <1>2 DEF Timeout, TypeOK, HandlerType
  <1>3. ASSUME NEW h \in Handlers, Crash(h) PROVE RpcAtStep'
    BY <1>3 DEF Crash, FreeSlot, TypeOK, HandlerType
  <1>4. ASSUME NEW c \in Clients, NEW rpc \in Rpcs, Post(c, rpc) PROVE RpcAtStep'
    BY <1>4 DEF Post, Rpcs, TypeOK, HandlerType
  <1>5. CASE CronStep
    BY <1>4, <1>5 DEF CronStep, CronRollback, CronBegin, CronCommit, CronException,
                      Clients, Rpcs
  <1>6. CASE Tick
    BY <1>6 DEF Tick
  <1>7. CASE UNCHANGED vars
    BY <1>7 DEF vars
  <1> QED  BY <1>1, <1>2, <1>3, <1>4, <1>5, <1>6, <1>7 DEF Next, UserCall, Clients

\* A session posts only when it waits for nothing; no other step adds a caller.
LEMMA OneCallStep == TypeOK /\ OneCall /\ [Next]_vars => OneCall'
  <1> SUFFICES ASSUME TypeOK, OneCall, [Next]_vars PROVE OneCall'  OBVIOUS
  <1>1. ASSUME NEW h \in Handlers, HandlerStep(h) \/ Timeout(h) \/ Crash(h)
        PROVE OneCall'
    <2>1. \A c \in Clients, g \in Handlers : Awaits(c, g)' => Awaits(c, g)
      <3>1. \A g \in Handlers \ {h} : handler'[g] = handler[g]
        BY <1>1, OtherSlots
      <3>2. ASSUME HandlerStep(h), ~Reply(h)
            PROVE  /\ handler[h].pc # "free"
                   /\ handler'[h].client = handler[h].client
                   /\ handler'[h].caller = handler[h].caller
        BY <3>2 DEF HandlerStep, WaitForLockTurn, OpenTransaction, CheckLocked, Body,
             EnterCommit, StartCommit, Synchronise, EndCommit, CloseTransaction, Goto,
             At, TypeOK, HandlerType
      <3>3. ASSUME Timeout(h) PROVE handler'[h].caller = "gone"
        BY <3>3 DEF Timeout, TypeOK, HandlerType
      <3>4. ASSUME Crash(h) \/ Reply(h) PROVE handler'[h].pc = "free"
        <4>1. handler'[h] = FreeSlot
          BY <3>4 DEF Crash, Reply, TypeOK
        <4> QED  BY <4>1 DEF FreeSlot
      <3> QED  BY <1>1, <3>1, <3>2, <3>3, <3>4 DEF Awaits, Busy
    <2> QED  BY <2>1 DEF OneCall
  <1>2. ASSUME NEW c \in Clients, NEW rpc \in Rpcs, Post(c, rpc) PROVE OneCall'
    BY <1>2 DEF Post, OneCall, Waiting, Awaits, Busy, TypeOK
  <1>3. CASE CronStep
    BY <1>2, <1>3 DEF CronStep, CronRollback, CronBegin, CronCommit, CronException,
                      Clients, Rpcs, OneCall, Awaits, Busy
  <1>4. CASE Tick \/ UNCHANGED vars
    BY <1>4 DEF Tick, vars, OneCall, Awaits, Busy
  <1> QED  BY <1>1, <1>2, <1>3, <1>4 DEF Next, UserCall, Clients

\* insertLog's author is the one author isCommitRunning leaves out.
LEMMA NeverRunningStep == TypeOK /\ NeverRunning /\ [Next]_vars => NeverRunning'
  <1> SUFFICES ASSUME TypeOK, NeverRunning, [Next]_vars PROVE NeverRunning'  OBVIOUS
  <1> USE DEF NeverRunning
  <1>1. ASSUME NEW kind, NEW tx, insertLog(kind, tx) PROVE NeverRunning'
    BY <1>1 DEF insertLog, Logged
  <1>2. ASSUME NEW h \in Handlers, HandlerStep(h) PROVE NeverRunning'
    <2>1. CASE OpenTransaction(h) \/ StartCommit(h) \/ EndCommit(h) \/ CloseTransaction(h)
      BY <1>1, <2>1 DEF OpenTransaction, StartCommit, EndCommit, CloseTransaction
    <2> QED  BY <1>2, <2>1 DEF HandlerStep, WaitForLockTurn, CheckLocked, Body,
                EnterCommit, Synchronise, Reply
  <1>3. CASE CronException
    BY <1>3 DEF CronException, Logged, CommitKinds, StartKinds
  <1>4. CASE Tick
    BY <1>4 DEF Tick, TypeOK, LogType
  <1> QED  BY <1>2, <1>3, <1>4 DEF Next, vars, Timeout, Crash, UserCall, Post, CronStep,
              CronRollback, CronBegin, CronCommit

\* maybe_commit calls one RPC after another, and its handler inserts the
\* exception's CLOSE_TRANSACTION when the call has returned.
LEMMA CronCallsStep ==
  TypeOK /\ OneCall /\ CronCalls /\ [Next]_vars => CronCalls'
  <1> SUFFICES ASSUME TypeOK, OneCall, CronCalls, [Next]_vars PROVE CronCalls'  OBVIOUS
  <1>0. Cron \in Clients /\ Cron \notin Users
    BY ConstantsAssumption DEF Clients
  <1>1. ASSUME NEW h \in Handlers, HandlerStep(h), ~Reply(h) PROVE CronCalls'
    <2>1. /\ sess' = sess
          /\ handler[h].pc # "free"
          /\ handler'[h].client = handler[h].client
          /\ handler'[h].caller = handler[h].caller
          /\ handler'[h].rpc = handler[h].rpc
      BY <1>1 DEF HandlerStep, WaitForLockTurn, OpenTransaction, CheckLocked, Body,
             EnterCommit, StartCommit, Synchronise, EndCommit, CloseTransaction, Goto,
             At, TypeOK, HandlerType
    <2>2. \A g \in Handlers \ {h} : handler'[g] = handler[g]
      BY <1>1, OtherSlots
    <2> QED  BY <2>1, <2>2 DEF CronCalls, Waiting, Awaits, Busy
  <1>2. ASSUME NEW h \in Handlers, NEW ok \in BOOLEAN, Returned(h, ok), Busy(h),
               handler'[h].pc = "free" \/ handler'[h].caller = "gone",
               \A g \in Handlers \ {h} : handler'[g] = handler[g]
        PROVE  CronCalls'
    <2>1. CASE Awaits(Cron, h)
      <3>1. ~Waiting(Cron)'
        BY <1>0, <1>2, <2>1 DEF OneCall, Waiting, Awaits, Busy
      <3> QED  BY <3>1 DEF CronCalls, Waiting
    <2>2. CASE ~Awaits(Cron, h)
      <3>1. sess'[Cron] = sess[Cron]
        BY <1>0, <1>2, <2>2 DEF Returned, Awaits, TypeOK, HandlerType
      <3> QED  BY <1>2, <2>2, <3>1 DEF CronCalls, Waiting, Awaits, Busy
    <2> QED  BY <2>1, <2>2
  <1>3. ASSUME NEW h \in Handlers, Reply(h) PROVE CronCalls'
    <2>1. Busy(h) /\ Returned(h, handler[h].errs = {}) /\ handler'[h] = FreeSlot
      BY <1>3 DEF Reply, At, Busy, TypeOK
    <2>2. \A g \in Handlers \ {h} : handler'[g] = handler[g]
      BY <1>3, OtherSlots DEF HandlerStep
    <2>3. handler'[h].pc = "free"
      BY <2>1 DEF FreeSlot
    <2> QED  BY <1>2, <2>1, <2>2, <2>3
  <1>4. ASSUME NEW h \in Handlers, Timeout(h) PROVE CronCalls'
    <2>1. Busy(h) /\ Returned(h, FALSE) /\ handler'[h].caller = "gone"
      BY <1>4 DEF Timeout, TypeOK, HandlerType
    <2>2. \A g \in Handlers \ {h} : handler'[g] = handler[g]
      BY <1>4, OtherSlots
    <2> QED  BY <1>2, <2>1, <2>2
  <1>5. ASSUME NEW h \in Handlers, Crash(h) PROVE CronCalls'
    <2>1. Busy(h) /\ Returned(h, FALSE) /\ handler'[h] = FreeSlot
      BY <1>5 DEF Crash, TypeOK
    <2>2. \A g \in Handlers \ {h} : handler'[g] = handler[g]
      BY <1>5, OtherSlots
    <2>3. handler'[h].pc = "free"
      BY <2>1 DEF FreeSlot
    <2> QED  BY <1>2, <2>1, <2>2, <2>3
  <1>6. ASSUME NEW u \in Users, NEW rpc \in Rpcs, Post(u, rpc) PROVE CronCalls'
    BY <1>0, <1>6 DEF Post, CronCalls, Waiting, Awaits, Busy, TypeOK
  <1>7. ASSUME CronStep PROVE CronCalls'
    <2>1. CASE CronRollback \/ CronBegin
      BY <1>0, <2>1 DEF CronRollback, CronBegin, Post, CronCalls, Waiting, Awaits, Busy, TypeOK
    <2>2. CASE CronCommit
      BY <1>0, <2>2 DEF CronCommit, Post, CronCalls, Waiting, Awaits, Busy, TypeOK
    <2>3. CASE CronException
      BY <1>0, <2>3 DEF CronException, CronCalls, Waiting, Awaits, Busy, TypeOK
    <2> QED  BY <1>7, <2>1, <2>2, <2>3 DEF CronStep
  <1>8. CASE Tick \/ UNCHANGED vars
    BY <1>8 DEF Tick, vars, CronCalls, Waiting, Awaits, Busy
  <1> QED  BY <1>1, <1>3, <1>4, <1>5, <1>6, <1>7, <1>8 DEF Next, UserCall

\* Once an OPEN_TRANSACTION is in the log there is always a newest one.
LEMMA IdKnownStep ==
  LockInv /\ [Next]_vars => IdKnown'
  <1> SUFFICES ASSUME LockInv, [Next]_vars PROVE IdKnown'  OBVIOUS
  <1> USE DEF LockInv
  <1>0. Clients \cap {NoTx} = {} /\ Cron \in Clients /\ Cron \notin Users
    BY ConstantsAssumption DEF Clients
  \* An insert keeps the id, or draws one for a session.
  <1>1. ASSUME NEW kind, NEW user, NEW tx \in Clients \cup {NoTx},
               log' = Logged(log, kind, user, tx),
               kind = "OPEN_TRANSACTION" => tx \in Clients
        PROVE  log.tx # NoTx => log'.tx # NoTx
    BY <1>0, <1>1 DEF Logged
  <1>2. ASSUME NEW h \in Handlers, HandlerStep(h), ~Reply(h) PROVE IdKnown'
    <2>1. \A g \in Handlers \ {h} : handler'[g] = handler[g]
      BY <1>2, OtherSlots
    <2>2. handler[h] \in HandlerType /\ sess' = sess
      BY <1>2 DEF TypeOK, HandlerStep, WaitForLockTurn, OpenTransaction, CheckLocked, Body,
             EnterCommit, StartCommit, Synchronise, EndCommit, CloseTransaction
    <2>3. CASE WaitForLockTurn(h)
      BY <2>1, <2>2, <2>3 DEF WaitForLockTurn, Goto, At, IdKnown, Opened, TypeOK, HandlerType
    <2>4. CASE OpenTransaction(h)
      <3>1. log'.tx # NoTx
        BY <1>0, <2>2, <2>4 DEF OpenTransaction, insertLog, Logged, HandlerType
      <3> QED  BY <2>1, <2>2, <2>4, <3>1 DEF OpenTransaction, Goto, At, IdKnown, TypeOK
    <2>5. CASE CheckLocked(h)
      BY <2>1, <2>2, <2>5 DEF CheckLocked, At, IdKnown, Opened, TypeOK, HandlerType,
                              isOpenTransaction, NoRecord
    <2>6. CASE Body(h)
      BY <2>1, <2>2, <2>6 DEF Body, Goto, At, IdKnown, Opened, TypeOK, HandlerType
    <2>7. CASE EnterCommit(h)
      BY <2>1, <2>2, <2>7 DEF EnterCommit, At, IdKnown, Opened, TypeOK, HandlerType,
                              getCurrentTransactionId
    <2>8. CASE StartCommit(h)
      BY <2>1, <2>2, <2>8 DEF StartCommit, Goto, At, IdKnown, Opened, TypeOK, HandlerType,
                              insertLog, Logged, LockKinds
    <2>9. CASE Synchronise(h)
      BY <2>1, <2>2, <2>9 DEF Synchronise, At, IdKnown, Opened, TypeOK, HandlerType
    <2>10. CASE EndCommit(h)
      BY <2>1, <2>2, <2>10 DEF EndCommit, Goto, At, IdKnown, Opened, TypeOK, HandlerType,
                              insertLog, Logged, LockKinds
    <2>11. CASE CloseTransaction(h)
      <3>1. log.tx # NoTx /\ log'.tx # NoTx
        BY <2>11 DEF CloseTransaction, IdKnown, Opened, insertLog, Logged
      <3> QED  BY <2>1, <2>2, <2>11, <3>1 DEF CloseTransaction, Goto, At, IdKnown, TypeOK,
                              HandlerType
    <2> QED  BY <1>2, <2>3, <2>4, <2>5, <2>6, <2>7, <2>8, <2>9, <2>10, <2>11
             DEF HandlerStep
  \* A call of maybe_commit's session that returns has found an id if it must.
  <1>3. ASSUME NEW h \in Handlers, NEW ok \in BOOLEAN, Returned(h, ok), Busy(h),
               ok => handler[h].pc = "reply" /\ handler[h].errs = {}, log' = log
        PROVE  sess'[Cron] \in {"begun", "failed"} => log'.tx # NoTx
    <2>1. CASE Awaits(Cron, h)
      <3>1. sess'[Cron] = SessAfter(Cron, handler[h].rpc, ok)
        BY <1>0, <1>3, <2>1 DEF Returned, Awaits, TypeOK
      <3>2. CASE ok /\ handler[h].rpc = "begin"
        BY <1>3, <3>2 DEF IdKnown, Opened
      <3>3. CASE ~ok /\ handler[h].rpc = "commit"
        BY <1>3, <2>1, <3>3 DEF CronCalls, IdKnown
      <3>4. CASE ~(ok /\ handler[h].rpc = "begin") /\ ~(~ok /\ handler[h].rpc = "commit")
        BY <3>1, <3>4 DEF SessAfter
      <3> QED  BY <3>2, <3>3, <3>4
    <2>2. CASE ~Awaits(Cron, h)
      <3>1. sess'[Cron] = sess[Cron]
        BY <1>0, <1>3, <2>2 DEF Returned, Awaits, TypeOK, HandlerType
      <3> QED  BY <1>3, <3>1 DEF IdKnown
    <2> QED  BY <2>1, <2>2
  <1>4. ASSUME NEW h \in Handlers, Reply(h) \/ Timeout(h) \/ Crash(h) PROVE IdKnown'
    <2>1. \A g \in Handlers \ {h} : handler'[g] = handler[g]
      BY <1>4, OtherSlots DEF HandlerStep
    <2>2. log' = log
      BY <1>4 DEF Reply, Timeout, Crash
    <2>3. sess'[Cron] \in {"begun", "failed"} => log'.tx # NoTx
      <3>1. CASE Reply(h)
        BY <1>3, <2>2, <3>1 DEF Reply, At, Busy
      <3>2. CASE Timeout(h) \/ Crash(h)
        BY <1>3, <2>2, <3>2 DEF Timeout, Crash
      <3> QED  BY <1>4, <3>1, <3>2
    <2>4. \/ handler'[h].pc = "free"
          \/ /\ handler'[h].pc = handler[h].pc /\ handler'[h].rpc = handler[h].rpc
             /\ handler'[h].errs = handler[h].errs /\ handler'[h].tx = handler[h].tx
      <3>1. CASE Reply(h) \/ Crash(h)
        <4>1. handler'[h] = FreeSlot
          BY <3>1 DEF Reply, Crash, TypeOK
        <4> QED  BY <4>1 DEF FreeSlot
      <3>2. CASE Timeout(h)
        BY <3>2 DEF Timeout, TypeOK, HandlerType
      <3> QED  BY <1>4, <3>1, <3>2
    <2> QED  BY <2>1, <2>2, <2>3, <2>4 DEF IdKnown, Opened
  <1>5. ASSUME NEW c \in Clients, NEW rpc \in Rpcs, Post(c, rpc) PROVE IdKnown'
    <2> PICK h \in Handlers : handler' = [handler EXCEPT ![h] =
            [pc |-> IF rpc \in WaitForLock THEN "wait" ELSE "check",
             rpc |-> rpc, client |-> c, caller |-> "waiting", loops |-> Loops,
             tx |-> NoTx, errs |-> {}]]
      BY <1>5 DEF Post
    <2>1. rpc = "default" => handler'[h].pc = "wait"
      BY DEF TypeOK, WaitForLock
    <2>2. handler'[h].pc \in {"wait", "check"} /\ handler'[h].rpc = rpc
      BY DEF TypeOK
    <2>3. \A g \in Handlers \ {h} : handler'[g] = handler[g]
      BY DEF TypeOK
    <2> QED  BY <1>5, <2>1, <2>2, <2>3 DEF Post, IdKnown, Opened
  <1>6. ASSUME CronStep PROVE IdKnown'
    <2>1. CASE CronException
      <3>1. log.tx # NoTx /\ log'.tx # NoTx
        BY <2>1 DEF CronException, IdKnown, Logged
      <3> QED  BY <2>1, <3>1 DEF CronException, IdKnown, Opened
    <2>2. CASE CronRollback \/ CronBegin \/ CronCommit
      BY <1>0, <1>5, <2>2 DEF CronRollback, CronBegin, CronCommit, Rpcs
    <2> QED  BY <1>6, <2>1, <2>2 DEF CronStep
  <1>7. CASE Tick
    BY <1>7 DEF Tick, IdKnown, Opened, TypeOK, LogType
  <1>8. CASE UNCHANGED vars
    BY <1>8 DEF vars, IdKnown, Opened
  <1> QED  BY <1>2, <1>4, <1>5, <1>6, <1>7, <1>8 DEF Next, UserCall, Clients

\* The part of the invariant that never depends on `trouble' is inductive.
LEMMA LockInvStep == LockInv /\ [Next]_vars => LockInv'
  BY TypeStep, RpcAtStepStep, OneCallStep, NeverRunningStep, CronCallsStep, IdKnownStep
     DEF LockInv

-----------------------------------------------------------------------------
(* The part that holds until the first trouble.                            *)

\* A step that leaves the record clean found it clean.
LEMMA TroubleGrows == [Next]_vars /\ trouble' = {} => trouble = {}
  BY DEF Next, vars, HandlerStep, WaitForLockTurn, OpenTransaction, CheckLocked, Body,
         EnterCommit, StartCommit, Synchronise, EndCommit, CloseTransaction, Reply,
         Timeout, Crash, UserCall, Post, CronStep, CronRollback, CronBegin, CronCommit,
         CronException, Tick

\* While all callers wait, a session has at most one request being served.
LEMMA OneRequest ==
  ASSUME TypeOK, OneCall, CallersWait, NEW g \in Handlers, NEW h \in Handlers,
         Busy(g), Busy(h), handler[g].client = handler[h].client
  PROVE  g = h
  BY DEF TypeOK, HandlerType, OneCall, CallersWait, Awaits

\* Every busy handler keeps its caller until it times out.
LEMMA CallersWaitStep ==
  TypeOK /\ CallersWait /\ [Next]_vars /\ trouble' = {} => CallersWait'
  <1> SUFFICES ASSUME TypeOK, CallersWait, [Next]_vars, trouble' = {} PROVE CallersWait'
    OBVIOUS
  <1> USE DEF CallersWait, Busy
  <1>1. ASSUME NEW h \in Handlers, HandlerStep(h) PROVE CallersWait'
    <2>1. \A g \in Handlers \ {h} : handler'[g] = handler[g]
      BY <1>1, OtherSlots
    <2>2. CASE Reply(h)
      <3>1. handler'[h] = FreeSlot
        BY <2>2 DEF Reply, TypeOK
      <3> QED  BY <2>1, <3>1 DEF FreeSlot
    <2>3. CASE ~Reply(h)
      <3>1. handler[h].pc # "free" /\ handler'[h].caller = handler[h].caller
        BY <1>1, <2>3 DEF HandlerStep, WaitForLockTurn, OpenTransaction, CheckLocked,
             Body, EnterCommit, StartCommit, Synchronise, EndCommit, CloseTransaction,
             Goto, At, TypeOK, HandlerType
      <3> QED  BY <2>1, <3>1
    <2> QED  BY <2>2, <2>3
  <1>2. ASSUME NEW h \in Handlers, Timeout(h) PROVE FALSE
    BY <1>2 DEF Timeout
  <1>3. ASSUME NEW h \in Handlers, Crash(h) PROVE CallersWait'
    <2>1. \A g \in Handlers \ {h} : handler'[g] = handler[g]
      BY <1>3, OtherSlots
    <2>2. handler'[h] = FreeSlot
      BY <1>3 DEF Crash, TypeOK
    <2> QED  BY <2>1, <2>2 DEF FreeSlot
  <1>4. ASSUME NEW c \in Clients, NEW rpc \in Rpcs, Post(c, rpc) PROVE CallersWait'
    BY <1>4 DEF Post, TypeOK
  <1>5. CASE CronStep
    BY <1>4, <1>5 DEF CronStep, CronRollback, CronBegin, CronCommit, CronException,
                      Clients, Rpcs
  <1>6. CASE Tick \/ UNCHANGED vars
    BY <1>6 DEF Tick, vars
  <1> QED  BY <1>1, <1>2, <1>3, <1>4, <1>5, <1>6 DEF Next, UserCall, Clients

\* Without a new trouble, who took the lock keeps it until it closes it itself.
LEMMA OwnsLockStep ==
  LockInv /\ CallersWait /\ OwnsLock /\ [Next]_vars /\ trouble' = {} => OwnsLock'
  <1> SUFFICES ASSUME LockInv, CallersWait, OwnsLock, [Next]_vars, trouble' = {}
               PROVE  OwnsLock'
    OBVIOUS
  <1> USE DEF LockInv
  <1>1. ASSUME NEW h \in Handlers, HandlerStep(h) PROVE OwnsLock'
    <2>1. /\ \A g \in Handlers \ {h} : handler'[g] = handler[g]
          /\ handler[h] \in HandlerType
      BY <1>1, OtherSlots DEF TypeOK
    <2>2. trouble = {}
      BY <1>1, TroubleGrows
    <2>3. CASE WaitForLockTurn(h)
      BY <2>1, <2>3 DEF WaitForLockTurn, Goto, At, OwnsLock, TookLock, PassedCheck,
                        isOpenTransaction, TypeOK, HandlerType
    <2>4. CASE OpenTransaction(h)
      <3>1. ~isOpenTransaction
        BY <2>2, <2>4 DEF OpenTransaction
      <3>2. isOpenTransaction' /\ log'.tx = handler[h].client
        BY <2>4 DEF OpenTransaction, insertLog, Logged, isOpenTransaction, LockKinds
      <3>3. handler'[h].pc = "body" /\ handler'[h].client = handler[h].client
        BY <2>1, <2>4 DEF OpenTransaction, Goto, TypeOK, HandlerType
      <3>4. \A g \in Handlers \ {h} : PassedCheck(g) => log'.tx # handler[g].client
        BY <2>1, <2>4, <3>2, OneRequest DEF OpenTransaction, At, Busy, PassedCheck, TookLock
      <3>5. \A g \in Handlers \ {h} : ~TookLock(g)
        BY <3>1 DEF OwnsLock, PassedCheck
      <3> QED  BY <2>1, <3>2, <3>3, <3>4, <3>5 DEF OwnsLock, TookLock, PassedCheck
    <2>5. CASE CheckLocked(h)
      BY <2>1, <2>5 DEF CheckLocked, At, OwnsLock, TookLock, PassedCheck, RpcAtStep,
                        isOpenTransaction, FailIfNotLocked, TypeOK, HandlerType
    <2>6. CASE Body(h)
      BY <2>1, <2>6 DEF Body, Goto, At, OwnsLock, TookLock, PassedCheck,
                        isOpenTransaction, TypeOK, HandlerType
    <2>7. CASE EnterCommit(h)
      <3>1. ~isCommitRunning
        BY DEF NeverRunning, isCommitRunning, StartKinds, NoRecord
      <3> QED  BY <2>1, <2>7, <3>1 DEF EnterCommit, At, OwnsLock, TookLock, PassedCheck,
                        isOpenTransaction, getCurrentTransactionId, TypeOK, HandlerType
    <2>8. CASE StartCommit(h)
      <3>1. handler[h].client = log.tx /\ log'.tx = log.tx /\ log'.lock = log.lock
        BY <2>2, <2>8 DEF StartCommit, insertLog, Logged, LockKinds
      <3>2. /\ handler'[h].pc = "work" /\ handler'[h].client = handler[h].client
            /\ handler'[h].tx = handler[h].tx
        BY <2>1, <2>8 DEF StartCommit, Goto, TypeOK, HandlerType
      <3> QED  BY <2>1, <2>8, <3>1, <3>2 DEF StartCommit, At, OwnsLock, TookLock,
                        PassedCheck, isOpenTransaction
    <2>9. CASE Synchronise(h)
      BY <2>1, <2>9 DEF Synchronise, At, OwnsLock, TookLock, PassedCheck,
                        isOpenTransaction, TypeOK, HandlerType
    <2>10. CASE EndCommit(h)
      <3>1. log'.tx = log.tx /\ log'.lock = log.lock
        BY <2>10 DEF EndCommit, insertLog, Logged, LockKinds
      <3>2. handler'[h].pc \in {"close", "reply"} /\ handler'[h].rpc # "begin"
        BY <2>1, <2>10 DEF EndCommit, Goto, At, RpcAtStep, FailIfNotLocked, TypeOK,
                           HandlerType
      <3> QED  BY <2>1, <3>1, <3>2 DEF OwnsLock, TookLock, PassedCheck, isOpenTransaction
    <2>11. CASE CloseTransaction(h)
      <3>1. handler[h].client = log.tx /\ log'.tx = log.tx
        BY <2>2, <2>11 DEF CloseTransaction, insertLog, Logged
      <3>2. handler'[h].pc \in {"reclose", "reply"} /\ handler'[h].rpc # "begin"
        BY <2>1, <2>11 DEF CloseTransaction, Goto, RpcAtStep, UnlockAlways, TypeOK,
                           HandlerType
      <3>3. \A g \in Handlers \ {h} : PassedCheck(g) => log.tx # handler[g].client
        BY <2>1, <2>11, <3>1, OneRequest DEF CloseTransaction, Busy, PassedCheck, TookLock
      <3> QED  BY <2>1, <3>1, <3>2, <3>3 DEF OwnsLock, TookLock, PassedCheck
    <2>12. CASE Reply(h)
      <3>1. handler'[h] = FreeSlot /\ log' = log
        BY <2>12 DEF Reply, TypeOK
      <3>2. handler'[h].pc = "free"
        BY <3>1 DEF FreeSlot
      <3> QED  BY <2>1, <3>1, <3>2 DEF OwnsLock, TookLock, PassedCheck, isOpenTransaction
    <2> QED  BY <1>1, <2>3, <2>4, <2>5, <2>6, <2>7, <2>8, <2>9, <2>10, <2>11, <2>12
             DEF HandlerStep
  <1>2. ASSUME NEW h \in Handlers, Timeout(h) PROVE FALSE
    BY <1>2 DEF Timeout
  <1>3. ASSUME NEW h \in Handlers, Crash(h) PROVE OwnsLock'
    <2>1. \A g \in Handlers \ {h} : handler'[g] = handler[g]
      BY <1>3, OtherSlots
    <2>2. handler'[h] = FreeSlot /\ log' = log
      BY <1>3 DEF Crash, TypeOK
    <2>3. handler'[h].pc = "free"
      BY <2>2 DEF FreeSlot
    <2> QED  BY <2>1, <2>2, <2>3 DEF OwnsLock, TookLock, PassedCheck, isOpenTransaction
  <1>4. ASSUME NEW c \in Clients, NEW rpc \in Rpcs, Post(c, rpc) PROVE OwnsLock'
    BY <1>4 DEF Post, OwnsLock, TookLock, PassedCheck, isOpenTransaction, TypeOK
  <1>5. CASE CronException
    <2>1. log.tx = Cron /\ log'.tx = log.tx /\ handler' = handler
      BY <1>5 DEF CronException, Logged
    <2>2. \A g \in Handlers : PassedCheck(g) => handler[g].client # Cron
      BY <1>5 DEF CronException, CronCalls, Waiting, Awaits, CallersWait, Busy,
                  PassedCheck, TookLock
    <2> QED  BY <2>1, <2>2 DEF OwnsLock, TookLock, PassedCheck
  <1>6. CASE CronRollback \/ CronBegin \/ CronCommit
    BY <1>4, <1>6 DEF CronRollback, CronBegin, CronCommit, Clients, Rpcs
  <1>7. CASE Tick
    BY <1>7 DEF Tick, OwnsLock, TookLock, PassedCheck, isOpenTransaction, TypeOK, LogType
  <1>8. CASE UNCHANGED vars
    BY <1>8 DEF vars, OwnsLock, TookLock, PassedCheck, isOpenTransaction
  <1> QED  BY <1>1, <1>2, <1>3, <1>4, <1>5, <1>6, <1>7, <1>8
           DEF Next, UserCall, Clients, CronStep

\* Without a new trouble, a begun transaction stays open until its session ends it.
LEMMA BegunInvStep ==
  LockInv /\ Owned /\ [Next]_vars /\ trouble' = {} => BegunInv'
  <1> SUFFICES ASSUME LockInv, Owned, [Next]_vars, trouble' = {} PROVE BegunInv'
    OBVIOUS
  <1> USE DEF LockInv, Owned
  <1>0. Cron \in Clients /\ Cron \notin Users /\ Users \subseteq Clients
    BY ConstantsAssumption DEF Clients
  \* A step that changes neither the log's answers nor what the sessions and
  \* the other slots hold, and keeps h's request out of the lock if it was.
  <1>1. ASSUME NEW h \in Handlers, HandlerStep(h), ~Reply(h) PROVE BegunInv'
    <2>1. /\ \A g \in Handlers \ {h} : handler'[g] = handler[g]
          /\ handler[h] \in HandlerType
      BY <1>1, OtherSlots DEF TypeOK
    <2>2. /\ sess' = sess /\ Busy(h) /\ Busy(h)'
          /\ handler'[h].client = handler[h].client
          /\ handler'[h].caller = handler[h].caller
          /\ handler'[h].rpc = handler[h].rpc
      BY <1>1 DEF HandlerStep, WaitForLockTurn, OpenTransaction, CheckLocked, Body,
             EnterCommit, StartCommit, Synchronise, EndCommit, CloseTransaction, Goto,
             At, Busy, TypeOK, HandlerType
    <2>3. \A c \in Clients, g \in Handlers : Awaits(c, g)' <=> Awaits(c, g)
      BY <2>1, <2>2 DEF Awaits, Busy
    <2>4. \A g \in Handlers : handler'[g].rpc = handler[g].rpc
      BY <2>1, <2>2
    <2>5. SUFFICES ASSUME NEW u \in Users, sess[u] = "inTx"
          PROVE  /\ \/ (isOpenTransaction /\ log.tx = u)'
                    \/ \E g \in Handlers : /\ Awaits(u, g)
                                           /\ handler[g].rpc \in {"commit", "rollback"}
                 /\ Awaits(u, h) /\ handler[h].rpc \in WaitForLock =>
                      \/ handler'[h].pc = "wait"
                      \/ handler'[h].pc = "reply" /\ handler'[h].errs # {}
      BY <1>0, <2>1, <2>2, <2>3, <2>4, <2>5 DEF BegunInv
    <2>6. u \in Clients
      BY <1>0
    <2>7. /\ \/ isOpenTransaction /\ log.tx = u
             \/ \E g \in Handlers : Awaits(u, g) /\ handler[g].rpc \in {"commit", "rollback"}
          /\ Awaits(u, h) /\ handler[h].rpc \in WaitForLock =>
               \/ handler[h].pc = "wait"
               \/ handler[h].pc = "reply" /\ handler[h].errs # {}
      BY <2>5 DEF BegunInv
    <2>8. CASE WaitForLockTurn(h)
      <3>1. Awaits(u, h) /\ handler[h].rpc \in WaitForLock => isOpenTransaction
        BY <2>6, <2>7 DEF OneCall, WaitForLock
      <3> QED  BY <2>1, <2>7, <2>8, <3>1 DEF WaitForLockTurn, Goto, At, isOpenTransaction,
                                             TypeOK, HandlerType
    <2>9. CASE OpenTransaction(h)
      <3>1. ~isOpenTransaction
        BY <2>9, TroubleGrows DEF OpenTransaction
      <3> QED  BY <2>7, <2>9, <3>1 DEF OpenTransaction, At
    <2>10. CASE CloseTransaction(h)
      <3>1. handler[h].client = log.tx
        BY <2>10, TroubleGrows DEF CloseTransaction
      <3>2. ~(Awaits(u, h) /\ handler[h].rpc \in WaitForLock)
        BY <2>7, <2>10 DEF CloseTransaction
      <3>3. CASE log.tx = u
        <4>1. Awaits(u, h)
          BY <2>2, <3>1, <3>3 DEF Awaits, CallersWait
        <4>2. handler[h].rpc \in {"commit", "rollback"}
          BY <2>10, <3>2, <4>1 DEF CloseTransaction, RpcAtStep, UnlockAlways, WaitForLock
        <4> QED  BY <3>2, <4>1, <4>2
      <3>4. CASE log.tx # u
        BY <2>7, <3>2, <3>4
      <3> QED  BY <3>3, <3>4
    <2>11. CASE \/ CheckLocked(h) \/ Body(h) \/ EnterCommit(h) \/ StartCommit(h)
                \/ Synchronise(h) \/ EndCommit(h)
      <3>1. handler[h].pc \in {"check", "body", "enter", "start", "work", "end"}
        BY <2>11 DEF CheckLocked, Body, EnterCommit, StartCommit, Synchronise, EndCommit, At
      <3>2. log'.lock = log.lock /\ log'.tx = log.tx
        BY <2>11 DEF CheckLocked, Body, EnterCommit, StartCommit, Synchronise, EndCommit,
                     insertLog, Logged, LockKinds
      <3> QED  BY <2>7, <3>1, <3>2 DEF isOpenTransaction
    <2> QED  BY <1>1, <2>8, <2>9, <2>10, <2>11 DEF HandlerStep
  \* The answer of a request, given or not, frees its slot.
  <1>2. ASSUME NEW h \in Handlers, NEW ok \in BOOLEAN, Returned(h, ok), Busy(h),
               ok => handler[h].pc = "reply" /\ handler[h].errs = {},
               handler'[h] = FreeSlot, log' = log,
               \A g \in Handlers \ {h} : handler'[g] = handler[g]
        PROVE  BegunInv'
    <2> DEFINE c == handler[h].client
    <2>1. c \in Clients /\ Awaits(c, h)
      BY <1>2 DEF Awaits, CallersWait, TypeOK, HandlerType
    <2>2. ~Busy(h)'
      BY <1>2 DEF Busy, FreeSlot
    <2>3. sess' = [sess EXCEPT ![c] = SessAfter(c, handler[h].rpc, ok)]
      BY <1>2, <2>1 DEF Returned, Awaits
    <2>4. \A d \in Clients : ~Awaits(d, h)'
      BY <2>2 DEF Awaits
    <2>5. \A d \in Clients, g \in Handlers \ {h} :
             (Awaits(d, g)' <=> Awaits(d, g)) /\ handler'[g] = handler[g]
      BY <1>2 DEF Awaits, Busy
    <2>6. SUFFICES ASSUME NEW u \in Users, sess'[u] = "inTx"
          PROVE  /\ \/ isOpenTransaction /\ log.tx = u
                    \/ \E g \in Handlers \ {h} :
                          Awaits(u, g) /\ handler[g].rpc \in {"commit", "rollback"}
                 /\ \A g \in Handlers \ {h} :
                      Awaits(u, g) /\ handler[g].rpc \in WaitForLock =>
                        \/ handler[g].pc = "wait"
                        \/ handler[g].pc = "reply" /\ handler[g].errs # {}
      BY <1>0, <1>2, <2>4, <2>5, <2>6 DEF BegunInv, isOpenTransaction
    <2>7. u \in Clients
      BY <1>0
    <2>8. CASE u # c
      <3>1. sess[u] = "inTx"
        BY <2>3, <2>6, <2>7, <2>8 DEF TypeOK
      <3>2. ~Awaits(u, h)
        BY <2>8 DEF Awaits
      <3> QED  BY <3>1, <3>2 DEF BegunInv
    <2>9. CASE u = c
      <3>1. \A g \in Handlers \ {h} : ~Awaits(u, g)
        BY <2>1, <2>9 DEF OneCall
      <3>2. sess'[u] = SessAfter(u, handler[h].rpc, ok) /\ u # Cron
        BY <1>0, <2>1, <2>3, <2>9 DEF TypeOK
      <3>3. CASE handler[h].rpc = "begin" /\ ok
        BY <1>2, <2>9, <3>1, <3>3 DEF OwnsLock, TookLock, PassedCheck
      <3>4. CASE ~(handler[h].rpc = "begin" /\ ok)
        <4>1. handler[h].rpc \notin {"commit", "rollback"} /\ sess[u] = "inTx"
          BY <2>6, <3>2, <3>4 DEF SessAfter
        <4>2. ~ \E g \in Handlers :
                  Awaits(u, g) /\ handler[g].rpc \in {"commit", "rollback"}
          BY <3>1, <4>1
        <4> QED  BY <3>1, <4>1, <4>2 DEF BegunInv
      <3> QED  BY <3>3, <3>4
    <2> QED  BY <2>8, <2>9
  <1>3. ASSUME NEW h \in Handlers, Reply(h) PROVE BegunInv'
    <2>1. /\ Busy(h) /\ Returned(h, handler[h].errs = {}) /\ handler'[h] = FreeSlot
          /\ log' = log /\ handler[h].pc = "reply"
      BY <1>3 DEF Reply, At, Busy, TypeOK
    <2>2. \A g \in Handlers \ {h} : handler'[g] = handler[g]
      BY <1>3, OtherSlots DEF HandlerStep
    <2> QED  BY <1>2, <2>1, <2>2
  <1>4. ASSUME NEW h \in Handlers, Crash(h) PROVE BegunInv'
    <2>1. Busy(h) /\ Returned(h, FALSE) /\ handler'[h] = FreeSlot /\ log' = log
      BY <1>4 DEF Crash, TypeOK
    <2>2. \A g \in Handlers \ {h} : handler'[g] = handler[g]
      BY <1>4, OtherSlots
    <2> QED  BY <1>2, <2>1, <2>2
  <1>5. ASSUME NEW h \in Handlers, Timeout(h) PROVE FALSE
    BY <1>5 DEF Timeout
  <1>6. ASSUME NEW c \in Clients, NEW rpc \in Rpcs, Post(c, rpc) PROVE BegunInv'
    <2> PICK h \in Handlers :
          /\ ~Busy(h)
          /\ handler' = [handler EXCEPT ![h] =
               [pc |-> IF rpc \in WaitForLock THEN "wait" ELSE "check",
                rpc |-> rpc, client |-> c, caller |-> "waiting", loops |-> Loops,
                tx |-> NoTx, errs |-> {}]]
      BY <1>6 DEF Post
    <2>1. \A g \in Handlers \ {h} : handler'[g] = handler[g]
      BY DEF TypeOK
    <2>2. handler'[h].rpc \in WaitForLock => handler'[h].pc = "wait"
      BY DEF TypeOK
    <2>3. \A d \in Clients : ~Awaits(d, h)
      BY DEF Awaits
    <2>4. \A d \in Clients, g \in Handlers \ {h} : Awaits(d, g)' <=> Awaits(d, g)
      BY <2>1 DEF Awaits, Busy
    <2>5. sess' = sess /\ log' = log
      BY <1>6 DEF Post
    <2> QED  BY <1>0, <2>1, <2>2, <2>3, <2>4, <2>5 DEF BegunInv, isOpenTransaction
  <1>7. CASE CronException
    <2>1. log.tx = Cron /\ handler' = handler /\ \A u \in Users : sess'[u] = sess[u]
      BY <1>0, <1>7, TroubleGrows DEF CronException, TypeOK
    <2> QED  BY <1>0, <2>1 DEF BegunInv, Awaits, Busy
  <1>8. CASE CronRollback \/ CronBegin \/ CronCommit
    BY <1>0, <1>6, <1>8 DEF CronRollback, CronBegin, CronCommit, Rpcs
  <1>9. CASE Tick
    BY <1>9 DEF Tick, BegunInv, Awaits, Busy, isOpenTransaction, TypeOK, LogType
  <1>10. CASE UNCHANGED vars
    BY <1>10 DEF vars, BegunInv, Awaits, Busy, isOpenTransaction
  <1> QED  BY <1>0, <1>1, <1>3, <1>4, <1>5, <1>6, <1>7, <1>8, <1>9, <1>10
           DEF Next, UserCall, CronStep

\* The whole invariant is inductive.
LEMMA IInvStep == IInv /\ [Next]_vars => IInv'
  <1> SUFFICES ASSUME IInv, [Next]_vars PROVE IInv'  OBVIOUS
  <1>1. LockInv'
    BY LockInvStep DEF IInv
  <1>2. OwnedInv'
    <2>1. CASE trouble' = {}
      <3>1. LockInv /\ Owned
        BY <2>1, TroubleGrows DEF IInv, OwnedInv
      <3> QED  BY <2>1, <3>1, CallersWaitStep, OwnsLockStep, BegunInvStep
               DEF OwnedInv, Owned, LockInv
    <2>2. CASE trouble' # {}
      BY <2>2 DEF OwnedInv
    <2> QED  BY <2>1, <2>2
  <1> QED  BY <1>1, <1>2 DEF IInv

-----------------------------------------------------------------------------
(* The log read as a lock (Turns).                                         *)

\* While nothing irregular has happened, a commit that runs is the only one, of
\* the session whose transaction is open.
LEMMA CommitHolds ==
  ASSUME IInv, trouble = {}, NEW h \in Handlers, InCommit(h)
  PROVE  /\ handler[h].client \in Clients
         /\ Holder = handler[h].client
         /\ Running = {<<h, Holder>>}
  <1>1. Owned /\ TypeOK /\ OneCall
    BY DEF IInv, LockInv, OwnedInv
  <1>2. \A g \in Handlers : InCommit(g) =>
          Busy(g) /\ isOpenTransaction /\ log.tx = handler[g].client
    BY <1>1 DEF InCommit, Busy, Owned, OwnsLock, TookLock, PassedCheck
  <1>3. \A g \in Handlers : InCommit(g) => g = h
    BY <1>1, <1>2, OneRequest DEF Owned
  <1>4. Holder = handler[h].client
    BY <1>2 DEF Holder
  <1>5. Running = {<<h, handler[h].client>>}
    BY <1>3 DEF Running
  <1> QED  BY <1>1, <1>4, <1>5 DEF TypeOK, HandlerType

\* Nor does one run while another request of the same session is served, ...
LEMMA NoneRuns ==
  ASSUME IInv, trouble = {}, NEW h \in Handlers, Busy(h), ~InCommit(h),
         handler[h].client = log.tx
  PROVE  Running = {}
  <1>1. SUFFICES ASSUME NEW g \in Handlers, InCommit(g) PROVE FALSE
    BY DEF Running
  <1>2. Owned /\ TypeOK /\ OneCall
    BY DEF IInv, LockInv, OwnedInv
  <1>3. Busy(g) /\ handler[g].client = handler[h].client
    BY <1>1, <1>2 DEF InCommit, Busy, Owned, OwnsLock, TookLock
  <1> QED  BY <1>1, <1>2, <1>3, OneRequest DEF Owned

\* ... or without an open transaction.
LEMMA NoneRunsClosed ==
  ASSUME IInv, trouble = {}, ~isOpenTransaction
  PROVE  Running = {}
  BY DEF IInv, OwnedInv, Owned, OwnsLock, TookLock, PassedCheck, InCommit, Running

\* A step that moves no handler into a commit or out of one leaves what runs.
LEMMA SameRunning ==
  ASSUME \A h \in Handlers : /\ InCommit(h)' <=> InCommit(h)
                             /\ InCommit(h) => handler'[h].client = handler[h].client
  PROVE  Running' = Running
  BY DEF Running

\* What closing the transaction of the session that is served does.
LEMMA Closes ==
  ASSUME NEW user, log' = Logged(log, "CLOSE_TRANSACTION", user, NoTx),
         log.tx \in Clients, Running = {}, Running' = {}, trouble = {}, trouble' = {}
  PROVE  [Lock!Next]_(Lock!vars)
  <1>1. Holder' = NoTx
    BY DEF Holder, Logged, LockKinds, isOpenTransaction
  <1>2. Holder \in Clients \/ Holder = NoTx
    BY DEF Holder
  <1> QED  BY <1>1, <1>2 DEF Lock!Next, Lock!vars, Lock!Orderly, Lock!Release

\* Init is a lock that nobody holds.
LEMMA LockInit == Init => Lock!Init
  BY DEF Init, Lock!Init, Holder, Running, InCommit, FreeSlot, EmptyLog, NoRecord,
         isOpenTransaction

\* Every step of a handler, its worker or a session is a step of the lock.
LEMMA LockStep == IInv /\ [Next]_vars => [Lock!Next]_(Lock!vars)
  <1> SUFFICES ASSUME IInv, [Next]_vars PROVE [Lock!Next]_(Lock!vars)  OBVIOUS
  <1>0. CASE trouble' # {}
    BY <1>0 DEF Lock!Next, Lock!Disorderly
  <1> SUFFICES ASSUME trouble' = {} PROVE [Lock!Next]_(Lock!vars)  BY <1>0
  <1>1. trouble = {} /\ TypeOK
    BY TroubleGrows DEF IInv, LockInv
  <1>2. ASSUME Holder' = Holder, Running' = Running PROVE [Lock!Next]_(Lock!vars)
    BY <1>1, <1>2 DEF Lock!vars
  <1>3. ASSUME log'.lock = log.lock, log'.tx = log.tx PROVE Holder' = Holder
    BY <1>3 DEF Holder, isOpenTransaction
  <1>4. ASSUME NEW h \in Handlers, HandlerStep(h) PROVE [Lock!Next]_(Lock!vars)
    <2>1. /\ handler' \in [Handlers -> HandlerType]
          /\ \A g \in Handlers \ {h} : handler'[g] = handler[g]
      BY <1>1, <1>4, OtherSlots
    <2>2. ASSUME log' = log, InCommit(h)' <=> InCommit(h),
                 InCommit(h) => handler'[h].client = handler[h].client
          PROVE  [Lock!Next]_(Lock!vars)
      <3>1. Running' = Running
        BY <2>1, <2>2, SameRunning DEF InCommit
      <3> QED  BY <1>2, <1>3, <2>2, <3>1
    <2>3. ASSUME ~InCommit(h), ~InCommit(h)' PROVE Running' = Running
      BY <2>1, <2>3, SameRunning DEF InCommit
    <2>4. CASE WaitForLockTurn(h)
      <3>1. ~InCommit(h) /\ ~InCommit(h)' /\ log' = log
        BY <1>1, <2>4 DEF WaitForLockTurn, Goto, At, InCommit, TypeOK, HandlerType
      <3> QED  BY <2>2, <3>1
    <2>5. CASE OpenTransaction(h)
      <3>1. ~isOpenTransaction
        BY <1>1, <2>5 DEF OpenTransaction
      <3>2. ~InCommit(h) /\ ~InCommit(h)'
        BY <1>1, <2>5 DEF OpenTransaction, Goto, At, InCommit, TypeOK, HandlerType
      <3>3. Running = {} /\ Running' = {}
        BY <1>1, <2>3, <3>1, <3>2, NoneRunsClosed
      <3>4. Holder = NoTx /\ Holder' = handler[h].client
        BY <2>5, <3>1 DEF OpenTransaction, insertLog, Logged, LockKinds, Holder,
                          isOpenTransaction
      <3>5. Holder' \in Clients
        BY <1>1, <3>4 DEF TypeOK, HandlerType
      <3> QED  BY <1>1, <3>3, <3>4, <3>5 DEF Lock!Next, Lock!Orderly, Lock!Take
    <2>6. CASE CheckLocked(h)
      <3>1. ~InCommit(h) /\ ~InCommit(h)' /\ log' = log
        BY <1>1, <2>6 DEF CheckLocked, At, InCommit, TypeOK, HandlerType
      <3> QED  BY <2>2, <3>1
    <2>7. CASE Body(h)
      <3>1. ~InCommit(h) /\ ~InCommit(h)' /\ log' = log
        BY <1>1, <2>7 DEF Body, Goto, At, InCommit, TypeOK, HandlerType
      <3> QED  BY <2>2, <3>1
    <2>8. CASE EnterCommit(h)
      <3>1. ~isCommitRunning
        BY DEF IInv, LockInv, NeverRunning, isCommitRunning, StartKinds, NoRecord
      <3>2. ~InCommit(h) /\ ~InCommit(h)' /\ log' = log
        BY <1>1, <2>8, <3>1 DEF EnterCommit, At, InCommit, TypeOK, HandlerType
      <3> QED  BY <2>2, <3>2
    <2>9. CASE StartCommit(h)
      <3>1. handler[h].client = log.tx /\ log'.tx = log.tx /\ log'.lock = log.lock
        BY <1>1, <2>9 DEF StartCommit, insertLog, Logged, LockKinds
      <3>2. handler[h].pc = "start" /\ handler[h].client \in Clients
        BY <1>1, <2>9 DEF StartCommit, At, TypeOK, HandlerType
      <3>3. handler'[h].pc = "work" /\ handler'[h].client = handler[h].client
        BY <1>1, <2>9 DEF StartCommit, Goto, TypeOK, HandlerType
      <3>4. Running = {}
        BY <1>1, <3>1, <3>2, NoneRuns DEF Busy, InCommit
      <3>5. Holder = handler[h].client
        BY <1>1, <3>1, <3>2 DEF IInv, OwnedInv, Owned, OwnsLock, PassedCheck, Holder
      <3>6. Running' = {<<h, Holder>>}
        <4>1. \A g \in Handlers : InCommit(g)' <=> g = h
          BY <2>1, <3>3, <3>4 DEF Running, InCommit
        <4> QED  BY <3>3, <3>5, <4>1 DEF Running
      <3> QED  BY <1>1, <1>3, <3>1, <3>2, <3>4, <3>5, <3>6
               DEF Lock!Next, Lock!Orderly, Lock!Enter
    <2>10. CASE Synchronise(h)
      <3>1. /\ InCommit(h) /\ InCommit(h)' /\ log' = log
            /\ handler'[h].client = handler[h].client
        BY <1>1, <2>10 DEF Synchronise, At, InCommit, TypeOK, HandlerType
      <3> QED  BY <2>2, <3>1
    <2>11. CASE EndCommit(h)
      <3>1. InCommit(h) /\ ~InCommit(h)'
        BY <1>1, <2>11 DEF EndCommit, Goto, At, InCommit, TypeOK, HandlerType
      <3>2. Running = {<<h, Holder>>}
        BY <1>1, <3>1, CommitHolds
      <3>3. Running' = {}
        BY <2>1, <3>1, <3>2 DEF Running, InCommit
      <3>4. log'.tx = log.tx /\ log'.lock = log.lock
        BY <2>11 DEF EndCommit, insertLog, Logged, LockKinds
      <3> QED  BY <1>1, <1>3, <3>2, <3>3, <3>4 DEF Lock!Next, Lock!Orderly, Lock!Leave
    <2>12. CASE CloseTransaction(h)
      <3>1. handler[h].client = log.tx /\ Busy(h)
        BY <1>1, <2>12 DEF CloseTransaction, Busy
      <3>2. ~InCommit(h) /\ ~InCommit(h)'
        BY <1>1, <2>12 DEF CloseTransaction, Goto, InCommit, TypeOK, HandlerType
      <3>3. Running = {} /\ Running' = {}
        BY <1>1, <2>3, <3>1, <3>2, NoneRuns
      <3>4. log.tx \in Clients
        BY <1>1, <3>1 DEF TypeOK, HandlerType
      <3> QED  BY <1>1, <2>12, <3>3, <3>4, Closes DEF CloseTransaction, insertLog
    <2>13. CASE Reply(h)
      <3>1. ~InCommit(h) /\ log' = log /\ handler'[h] = FreeSlot
        BY <1>1, <2>13 DEF Reply, At, InCommit, TypeOK
      <3>2. ~InCommit(h)'
        BY <3>1 DEF InCommit, FreeSlot
      <3> QED  BY <2>2, <3>1, <3>2
    <2> QED  BY <1>4, <2>4, <2>5, <2>6, <2>7, <2>8, <2>9, <2>10, <2>11, <2>12, <2>13
             DEF HandlerStep
  <1>5. ASSUME NEW h \in Handlers, Timeout(h) PROVE FALSE
    BY <1>5 DEF Timeout
  <1>6. ASSUME NEW h \in Handlers, Crash(h) PROVE [Lock!Next]_(Lock!vars)
    <2>1. /\ handler'[h] = FreeSlot /\ log' = log
          /\ \A g \in Handlers \ {h} : handler'[g] = handler[g]
      BY <1>1, <1>6, OtherSlots DEF Crash, TypeOK
    <2>2. ~InCommit(h)'
      BY <2>1 DEF InCommit, FreeSlot
    <2>3. CASE InCommit(h)
      <3>1. Running = {<<h, Holder>>}
        BY <1>1, <2>3, CommitHolds
      <3>2. Running' = {}
        BY <2>1, <2>2, <3>1 DEF Running, InCommit
      <3> QED  BY <1>1, <1>3, <2>1, <3>1, <3>2 DEF Lock!Next, Lock!Orderly, Lock!Leave
    <2>4. CASE ~InCommit(h)
      <3>1. Running' = Running
        BY <2>1, <2>2, <2>4, SameRunning DEF InCommit
      <3> QED  BY <1>2, <1>3, <2>1, <3>1
    <2> QED  BY <2>3, <2>4
  <1>7. ASSUME NEW c \in Clients, NEW rpc \in Rpcs, Post(c, rpc)
        PROVE  [Lock!Next]_(Lock!vars)
    <2>1. PICK h \in Handlers :
            /\ ~InCommit(h) /\ ~InCommit(h)'
            /\ \A g \in Handlers \ {h} : handler'[g] = handler[g]
      BY <1>1, <1>7 DEF Post, Busy, InCommit, TypeOK
    <2>2. Running' = Running
      BY <2>1, SameRunning DEF InCommit
    <2> QED  BY <1>2, <1>3, <1>7, <2>2 DEF Post
  <1>8. CASE CronException
    <2>1. log.tx = Cron /\ handler' = handler
      BY <1>1, <1>8 DEF CronException
    <2>2. \A g \in Handlers : InCommit(g) => handler[g].client # Cron
      BY <1>1, <1>8 DEF CronException, IInv, LockInv, OwnedInv, Owned, CronCalls, Waiting,
                        Awaits, CallersWait, Busy, InCommit
    <2>3. \A g \in Handlers : ~InCommit(g)
      BY <1>1, <2>1, <2>2 DEF IInv, OwnedInv, Owned, OwnsLock, TookLock, InCommit
    <2>4. Running = {} /\ Running' = {}
      BY <2>1, <2>3 DEF Running, InCommit
    <2> QED  BY <1>1, <1>8, <2>1, <2>4, Closes DEF CronException, Clients
  <1>9. CASE CronRollback \/ CronBegin \/ CronCommit
    BY <1>7, <1>9 DEF CronRollback, CronBegin, CronCommit, Clients, Rpcs
  <1>10. CASE Tick
    <2>1. handler' = handler /\ log'.lock = log.lock /\ log'.tx = log.tx
      BY <1>1, <1>10 DEF Tick, TypeOK, LogType
    <2>2. Running' = Running
      BY <2>1 DEF Running, InCommit
    <2> QED  BY <1>2, <1>3, <2>1, <2>2
  <1>11. CASE UNCHANGED vars
    <2>1. Running' = Running /\ log' = log
      BY <1>11 DEF vars, Running, InCommit
    <2> QED  BY <1>2, <1>3, <2>1
  <1> QED  BY <1>4, <1>5, <1>6, <1>7, <1>8, <1>9, <1>10, <1>11
           DEF Next, UserCall, Clients, CronStep

-----------------------------------------------------------------------------
(* The theorems.                                                           *)

\* The inductive invariant holds in every state.
THEOREM Invariance == Spec => []IInv
  BY InitIInv, IInvStep, PTL DEF Spec

\* Every variable keeps its type.
THEOREM TypeCorrect == Spec => []TypeOK
  <1>1. IInv => TypeOK
    BY DEF IInv, LockInv
  <1> QED  BY <1>1, Invariance, PTL

\* commit(), rollback() and closeTransaction() always find a transaction id,
\* with any number of sessions racing, timing out and losing their workers.
THEOREM IdAlwaysFound == Spec => []TransactionIdFound
  <1>1. IInv => TransactionIdFound
    BY DEF IInv, LockInv, IdKnown, Opened, TransactionIdFound, getCurrentTransactionId
  <1> QED  BY <1>1, Invariance, PTL

\* Without a trouble on record no two commits, rollbacks or previews overlap.
THEOREM Exclusion == Spec => []SoleCommit
  <1>1. IInv => SoleCommit
    <2> SUFFICES ASSUME IInv, trouble = {}, NEW g \in Handlers, NEW h \in Handlers,
                        InCommit(g), InCommit(h)
                 PROVE  g = h
      BY DEF SoleCommit
    <2>1. Owned /\ TypeOK /\ OneCall
      BY DEF IInv, LockInv, OwnedInv
    <2>2. Busy(g) /\ Busy(h) /\ handler[g].client = handler[h].client
      BY <2>1 DEF InCommit, Busy, Owned, OwnsLock, TookLock
    <2> QED  BY <2>1, <2>2, OneRequest DEF Owned
  <1> QED  BY <1>1, Invariance, PTL

\* Without a trouble on record a commit runs in its own session's transaction.
THEOREM Ownership == Spec => []CommitOwnsTransaction
  <1>1. IInv => CommitOwnsTransaction
    BY DEF IInv, OwnedInv, Owned, OwnsLock, TookLock, PassedCheck, InCommit,
           CommitOwnsTransaction
  <1> QED  BY <1>1, Invariance, PTL

\* Without a trouble on record nobody closes a transaction a user has begun.
THEOREM BegunIsSafe == Spec => []BegunStaysOpen
  <1>1. IInv => BegunStaysOpen
    BY DEF IInv, OwnedInv, Owned, BegunInv, BegunStaysOpen
  <1> QED  BY <1>1, Invariance, PTL

\* For as long as nothing irregular is on record, the newest records of the
\* audit log are a lock: taken when it is free, released by its holder, and never
\* under a running commit (rpcCall's pre- and post-checks, maybe_commit).
THEOREM TurnsTaken == Spec => TakesTurns
  BY LockInit, LockStep, Invariance, PTL DEF Spec, TakesTurns, Lock!Spec
=============================================================================
