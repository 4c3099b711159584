----------------------------- MODULE DbLifecycle -----------------------------
(***************************************************************************)
(* How databases come and go: connect, disconnect and upgrade              *)
(* (src/services/iasql.ts), the metadata they keep                         *)
(* (src/services/repositories/metadata.ts), and how a container starts:    *)
(* src/scripts/upgrade.sh renames every database to OLD<db>, the primary   *)
(* process creates NEW<db> beside it and forks the workers, and a timer of *)
(* the primary turns NEW<db> into <db> once the workers serve requests.    *)
(*                                                                         *)
(* There is one user, and multiUser is false as in every configuration of  *)
(* the repository: a database has the name of its alias.                   *)
(***************************************************************************)
EXTENDS Naturals, FiniteSets

CONSTANTS
  Db,           \* aliases, which are also the names of the databases
  NoDb,         \* none of them
  Slot,         \* requests the workers serve at a time
  MayFail,      \* whether a connection or an SQL command may fail
  MayCrash,     \* whether a worker may die
  MaxRestarts   \* bound: restarts of the container

ASSUME LifecycleAssumption ==
  /\ Slot \cap Db = {}
  /\ NoDb \notin Db
  /\ MayFail \in BOOLEAN /\ MayCrash \in BOOLEAN
  /\ MaxRestarts \in Nat

VARIABLES
  actual,    \* the databases of the server: <<"", d>>, <<"NEW", d>>, <<"OLD", d>>
  record,    \* the rows of iasql_database
  linked,    \* the rows of iasql_user_databases, which refer to record
  call,      \* the requests; call[d] is part 3 of the upgrade of d
  cleaner,   \* MetadataRepo.init of a worker that was just forked
  up,        \* how far the container has started
  restarts,
  live,      \* history variable: connect answered, disconnect was not called
  astray     \* history variable: the metadata lost track of it, or two
             \* callers handled it at once

vars == <<actual, record, linked, call, cleaner, up, restarts, live, astray>>

-----------------------------------------------------------------------------
(* The callers: the requests, and the timers of the upgrades.              *)

Caller == Slot \cup Db

Free == [op |-> "none", db |-> NoDb, pc |-> "free", seen |-> {}]

At(c, pc) == call[c].pc = pc

Goto(c, pc) == call' = [call EXCEPT ![c].pc = pc]

Done(c) == call' = [call EXCEPT ![c] = Free]

\* An error ends connect or disconnect.  That of an upgrade's timer is a rejection
\* nobody handles: with Sentry's handler the timer does nothing any more, for
\* upgradeRunning stays true; without it the process ends, and Restart may follow
\* at once.
Throw(c) == IF call[c].op = "upgrade" THEN Goto(c, "stuck") ELSE Done(c)

Handled(d) == \E c \in Caller : call[c].db = d

Exists(d) == <<"", d>> \in actual

\* A database that the metadata should know of.
Kept(d) == \E prefix \in {"", "NEW", "OLD"} : <<prefix, d>> \in actual

\* A worker, once it has run MetadataRepo.init, accepts /connect or /disconnect.
Post(h, op, d) ==
  /\ up.pc = "serving" /\ At(h, "free")
  /\ call' = [call EXCEPT ![h] =
       [op |-> op, db |-> d, pc |-> IF op = "connect" THEN "load" ELSE "find", seen |-> {}]]
  /\ live' = IF op = "disconnect" THEN live \ {d} ELSE live
  /\ astray' = IF Handled(d) THEN astray \cup {d} ELSE astray
  /\ UNCHANGED <<actual, record, linked, cleaner, up, restarts>>

-----------------------------------------------------------------------------
(* saveDb, of connect and of part 3 of an upgrade.  connect has nothing to *)
(* clean up when it fails, for dbSaved is not true yet.                    *)

\* Mutant of Load: connect cleans up after a refused alias, too.
Load_cleansUp(c) ==
  /\ At(c, "load")
  /\ call' = [call EXCEPT ![c].seen = linked,
                          ![c].pc = IF call[c].db \in linked THEN "drop" ELSE "save"]
  /\ UNCHANGED <<actual, record, linked, cleaner, up, restarts, live, astray>>

\* The user with its databases; an alias it has already is refused.
Load(c) ==
  /\ At(c, "load")
  /\ \/ (MayFail \/ call[c].db \in linked) /\ Throw(c)
     \/ /\ call[c].db \notin linked
        /\ call' = [call EXCEPT ![c].seen = linked, ![c].pc = "save"]
  /\ UNCHANGED <<actual, record, linked, cleaner, up, restarts, live, astray>>

Save(c) ==
  /\ At(c, "save")
  /\ \/ MayFail /\ Throw(c) /\ UNCHANGED record
     \/ record' = record \cup {call[c].db} /\ Goto(c, "link")
  /\ UNCHANGED <<actual, linked, cleaner, up, restarts, live, astray>>

\* userRepo.save makes the join table equal to the list it was given: what
\* others have linked since is unlinked, and what they have unlinked is
\* linked again, which fails if the row it refers to is gone.
SaveUser(c, dbs) ==
  /\ linked' = dbs
  /\ astray' = astray \cup (((linked \ dbs) \cup (dbs \ linked)) \ {call[c].db})

\* Mutant of Link: the new database is not in the list.
Link_notPushed(c) ==
  /\ At(c, "link")
  /\ linked' = call[c].seen
  /\ IF call[c].op = "connect" THEN Goto(c, "create") ELSE Done(c)
  /\ UNCHANGED <<actual, record, cleaner, up, restarts, live, astray>>

Link(c) ==
  /\ At(c, "link")
  /\ LET dbs == call[c].seen \cup {call[c].db}
     IN  \/ /\ dbs \subseteq record
            /\ SaveUser(c, dbs)
            /\ IF call[c].op = "connect" THEN Goto(c, "create") ELSE Done(c)
         \/ /\ ~(dbs \subseteq record)
            /\ astray' = astray \cup {call[c].db} /\ UNCHANGED linked
            /\ Throw(c)
         \/ MayFail /\ Throw(c) /\ UNCHANGED <<linked, astray>>
  /\ UNCHANGED <<actual, record, cleaner, up, restarts, live>>

-----------------------------------------------------------------------------
(* connect and disconnect.                                                 *)

\* CREATE DATABASE; without a connection there is nothing to drop.
Create(c) ==
  /\ At(c, "create")
  /\ \/ MayFail /\ Goto(c, "delLoad") /\ UNCHANGED actual
     \/ Exists(call[c].db) /\ Goto(c, "drop") /\ UNCHANGED actual
     \/ /\ ~Exists(call[c].db)
        /\ actual' = actual \cup {<<"", call[c].db>>}
        /\ Goto(c, "setup")
  /\ UNCHANGED <<record, linked, cleaner, up, restarts, live, astray>>

\* Migrations, extensions, cron jobs and roles, in the new database.
Setup(c) ==
  /\ At(c, "setup")
  /\ \/ (MayFail \/ ~Exists(call[c].db)) /\ Goto(c, "drop") /\ UNCHANGED live
     \/ Exists(call[c].db) /\ Goto(c, "told") /\ live' = live \cup {call[c].db}
  /\ UNCHANGED <<actual, record, linked, cleaner, up, restarts, astray>>

\* The user has the password.
Told(c) ==
  /\ At(c, "told") /\ Done(c)
  /\ UNCHANGED <<actual, record, linked, cleaner, up, restarts, live, astray>>

\* getDb, and the connections of disconnect; the database must exist.
Find(c) ==
  /\ At(c, "find")
  /\ LET found == call[c].db \in linked /\ Exists(call[c].db)
     IN  \/ (MayFail \/ ~found) /\ Done(c)
         \/ found /\ Goto(c, "drop")
  /\ UNCHANGED <<actual, record, linked, cleaner, up, restarts, live, astray>>

\* DROP DATABASE IF EXISTS and DROP ROLE, of disconnect and a failed connect.
Drop(c) ==
  /\ At(c, "drop")
  /\ \/ MayFail /\ Done(c) /\ UNCHANGED actual
     \/ /\ actual' = actual \ {<<"", call[c].db>>}
        /\ (MayFail /\ Done(c)) \/ Goto(c, "delLoad")
  /\ UNCHANGED <<record, linked, cleaner, up, restarts, live, astray>>

\* delDb: the user, its list without the database, and the row.
DelLoad(c) ==
  /\ At(c, "delLoad")
  /\ \/ (MayFail \/ call[c].db \notin linked) /\ Throw(c)
     \/ /\ call[c].db \in linked
        /\ call' = [call EXCEPT ![c].seen = linked, ![c].pc = "delUnlink"]
  /\ UNCHANGED <<actual, record, linked, cleaner, up, restarts, live, astray>>

DelUnlink(c) ==
  /\ At(c, "delUnlink")
  /\ LET dbs == call[c].seen \ {call[c].db}
     IN  \/ dbs \subseteq record /\ SaveUser(c, dbs) /\ Goto(c, "delRemove")
         \/ /\ MayFail \/ ~(dbs \subseteq record)
            /\ Throw(c) /\ UNCHANGED <<linked, astray>>
  /\ UNCHANGED <<actual, record, cleaner, up, restarts, live>>

DelRemove(c) ==
  /\ At(c, "delRemove")
  /\ \/ record' = record \ {call[c].db} /\ linked' = linked \ {call[c].db}
     \/ MayFail /\ UNCHANGED <<record, linked>>
  /\ Done(c)
  /\ UNCHANGED <<actual, cleaner, up, restarts, live, astray>>

-----------------------------------------------------------------------------
(* Part 3 of an upgrade: the timer of the primary.  Any of its commands    *)
(* after the installs, and any connection it makes, may throw.             *)

\* iasql_install of every module of the old database, whatever it answers.
Install(c) ==
  /\ At(c, "install") /\ up.pc = "serving"
  /\ Goto(c, "rename")
  /\ UNCHANGED <<actual, record, linked, cleaner, up, restarts, live, astray>>

\* The connection is closed and another one made, and NEW<db> is renamed.
Rename(c) ==
  /\ At(c, "rename")
  /\ \/ (MayFail \/ Exists(call[c].db)) /\ Throw(c) /\ UNCHANGED actual
     \/ /\ ~Exists(call[c].db)
        /\ actual' = (actual \ {<<"NEW", call[c].db>>}) \cup {<<"", call[c].db>>}
        /\ Goto(c, "dropOld")
  /\ UNCHANGED <<record, linked, cleaner, up, restarts, live, astray>>

\* Mutant of DropOld: the row that the workers removed is not restored.
DropOld_last(c) ==
  /\ At(c, "dropOld")
  /\ actual' = actual \ {<<"OLD", call[c].db>>}
  /\ Done(c)
  /\ UNCHANGED <<record, linked, cleaner, up, restarts, live, astray>>

DropOld(c) ==
  /\ At(c, "dropOld")
  /\ \/ MayFail /\ Throw(c) /\ UNCHANGED actual
     \/ actual' = actual \ {<<"OLD", call[c].db>>} /\ Goto(c, "load")
  /\ UNCHANGED <<record, linked, cleaner, up, restarts, live, astray>>

CallStep(c) ==
  \/ Load(c) \/ Save(c) \/ Link(c) \/ Create(c) \/ Setup(c) \/ Told(c)
  \/ Find(c) \/ Drop(c)
  \/ DelLoad(c) \/ DelUnlink(c) \/ DelRemove(c)
  \/ Install(c) \/ Rename(c) \/ DropOld(c)

-----------------------------------------------------------------------------
(* How the container starts.                                               *)

Resting == [pc |-> "done", dbs |-> {}]

\* Mutant of Shell: OLD<db> is renamed as well.
Shell_all ==
  /\ up.pc = "shell"
  /\ actual' = {<<IF p[1] = "OLD" THEN "OLDOLD" ELSE "OLD", p[2]>> : p \in actual}
  /\ up' = [pc |-> "part2", dbs |-> IF actual # {} THEN record ELSE {}]
  /\ UNCHANGED <<record, linked, call, cleaner, restarts, live, astray>>

\* upgrade.sh, for every row: a lone OLD<db> is renamed back, NEW<db> stays
\* ("DROP DATABSE" is no SQL), and as SHOULD_UPGRADE is never empty <db> is
\* renamed to OLD<db> whatever its version, which fails if there is one.
Shell ==
  /\ up.pc = "shell"
  /\ LET renamed == {d \in record : Exists(d) /\ <<"OLD", d>> \notin actual}
         after == (actual \ {<<"", d>> : d \in renamed}) \cup {<<"OLD", d>> : d \in renamed}
     IN  /\ actual' = after
         /\ up' = [pc |-> "part2",
                   dbs |-> IF \E d \in Db : <<"OLD", d>> \in after THEN record ELSE {}]
  /\ UNCHANGED <<record, linked, call, cleaner, restarts, live, astray>>

\* upgrade(): a row without a user is skipped; else OLD<db> is read and
\* NEW<db> dropped and connected.  An error is handled by nobody, and no worker
\* is forked.
Part2(d) ==
  /\ up.pc = "part2" /\ d \in up.dbs
  /\ \/ /\ d \notin linked
        /\ up' = [up EXCEPT !.dbs = @ \ {d}]
        /\ UNCHANGED <<actual, call>>
     \/ /\ d \in linked /\ <<"OLD", d>> \notin actual
        /\ up' = [pc |-> "failed", dbs |-> {}]
        /\ UNCHANGED <<actual, call>>
     \/ /\ d \in linked /\ <<"OLD", d>> \in actual /\ MayFail
        /\ up' = [pc |-> "failed", dbs |-> {}]
        /\ actual' \in {actual \ {<<"NEW", d>>}, actual \cup {<<"NEW", d>>}}
        /\ UNCHANGED call
     \/ /\ d \in linked /\ <<"OLD", d>> \in actual
        /\ up' = [up EXCEPT !.dbs = @ \ {d}]
        /\ actual' = actual \cup {<<"NEW", d>>}
        /\ call' = [call EXCEPT ![d] =
             [op |-> "upgrade", db |-> d, pc |-> "install", seen |-> {}]]
  /\ UNCHANGED <<record, linked, cleaner, restarts, live, astray>>

\* startPrimary.
Fork ==
  /\ up = [pc |-> "part2", dbs |-> {}]
  /\ up' = [pc |-> "starting", dbs |-> {}]
  /\ cleaner' = [pc |-> "expected", dbs |-> {}]
  /\ UNCHANGED <<actual, record, linked, call, restarts, live, astray>>

\* MetadataRepo.init: the rows, then the databases, then one row at a time.
CleanExpected ==
  /\ cleaner.pc = "expected"
  /\ cleaner' = [pc |-> "actual", dbs |-> record]
  /\ UNCHANGED <<actual, record, linked, call, up, restarts, live, astray>>

CleanActual ==
  /\ cleaner.pc = "actual"
  /\ cleaner' = [pc |-> "remove", dbs |-> {d \in cleaner.dbs : ~Exists(d)}]
  /\ UNCHANGED <<actual, record, linked, call, up, restarts, live, astray>>

CleanRemove ==
  /\ cleaner.pc = "remove"
  /\ \E d \in cleaner.dbs :
       /\ cleaner' = [cleaner EXCEPT !.dbs = @ \ {d}]
       /\ record' = record \ {d} /\ linked' = linked \ {d}
       /\ astray' = IF call[d].op # "upgrade" /\ (Kept(d) \/ Handled(d))
                    THEN astray \cup {d} ELSE astray
  /\ UNCHANGED <<actual, call, up, restarts, live>>

CleanDone ==
  /\ cleaner = [pc |-> "remove", dbs |-> {}]
  /\ cleaner' = Resting
  /\ up' = [up EXCEPT !.pc = "serving"]
  /\ UNCHANGED <<actual, record, linked, call, restarts, live, astray>>

Clean == CleanExpected \/ CleanActual \/ CleanRemove \/ CleanDone

\* A worker dies with its request; the one forked in its place starts anew.
WorkerDies(h) ==
  /\ MayCrash /\ ~At(h, "free")
  /\ Done(h)
  /\ cleaner' = IF cleaner = Resting THEN [pc |-> "expected", dbs |-> {}] ELSE cleaner
  /\ UNCHANGED <<actual, record, linked, up, restarts, live, astray>>

\* The container stops and starts, at any time.
Restart ==
  /\ restarts < MaxRestarts
  /\ restarts' = restarts + 1
  /\ up' = [pc |-> "shell", dbs |-> {}]
  /\ call' = [c \in Caller |-> Free]
  /\ cleaner' = Resting
  /\ astray' = astray \cup ((live \cup {d \in Db : call[d].op = "upgrade"}) \ linked)
  /\ UNCHANGED <<actual, record, linked, live>>

Init ==
  /\ actual = {} /\ record = {} /\ linked = {}
  /\ call = [c \in Caller |-> Free]
  /\ cleaner = Resting
  /\ up = [pc |-> "shell", dbs |-> {}]
  /\ restarts = 0
  /\ live = {} /\ astray = {}

Next ==
  \/ \E h \in Slot, d \in Db : Post(h, "connect", d) \/ Post(h, "disconnect", d)
  \/ \E c \in Caller : CallStep(c)
  \/ Shell \/ (\E d \in Db : Part2(d)) \/ Fork \/ Clean
  \/ \E h \in Slot : WorkerDies(h)
  \/ Restart

Spec == Init /\ [][Next]_vars

-----------------------------------------------------------------------------
(* Properties.                                                             *)

Pcs == {"free", "load", "save", "link", "create", "setup", "told", "find",
        "drop", "delLoad", "delUnlink", "delRemove", "install", "rename",
        "dropOld", "stuck"}

\* Every variable of the database lifecycle keeps its type, and the join table
\* refers to rows that exist.
TypeOK ==
  /\ actual \subseteq {"", "NEW", "OLD"} \X Db
  /\ record \subseteq Db /\ linked \subseteq record
  /\ call \in [Caller -> [op : {"none", "connect", "disconnect", "upgrade"},
                          db : Db \cup {NoDb}, pc : Pcs, seen : SUBSET Db]]
  /\ cleaner \in [pc : {"done", "expected", "actual", "remove"}, dbs : SUBSET Db]
  /\ up \in [pc : {"shell", "part2", "starting", "serving", "failed"}, dbs : SUBSET Db]
  /\ restarts \in 0 .. MaxRestarts
  /\ live \subseteq Db /\ astray \subseteq Db

\* A database that connect answered for is there until disconnect is called,
\* under its name or, during an upgrade, as OLD<db>: no failed connect, no
\* other request and no upgrade that stops anywhere drops it, as long as the
\* metadata kept track of it and no two callers handled it at once.
LiveKept == \A d \in live \ astray : {<<"", d>>, <<"OLD", d>>} \cap actual # {}

\* When connect answers, the database is the user's: there, and in its list.
ConnectTold ==
  \A c \in Caller : At(c, "told") /\ call[c].db \notin astray =>
    Exists(call[c].db) /\ call[c].db \in linked

\* The timer of an upgrade only ends when the database is back under its name
\* and in the user's list and the old one is gone; wherever an error stops it for
\* good, the database still is under one of the two names, and OLD<db> has not
\* been dropped before NEW<db> took its place.
UpgradeRestores ==
  [][\A d \in Db \ astray' :
       call[d].op = "upgrade" /\ up'.pc # "shell" =>
         /\ call'[d] = Free =>
              Exists(d)' /\ d \in linked' /\ <<"OLD", d>> \notin actual'
         /\ At(d, "stuck")' => {<<"", d>>, <<"OLD", d>>} \cap actual' # {}
         /\ <<"OLD", d>> \in actual \ actual' => Exists(d) /\ Exists(d)']_vars

-----------------------------------------------------------------------------
(* What comments say, and the code does not do.                            *)

\* "In case of partially-failed disconnects, we delete all IasqlDatabase records
\* that don't actually have a database on startup": a disconnect that failed
\* part-way does not stop a startup.
StartupSurvives == up.pc # "failed"

=============================================================================
