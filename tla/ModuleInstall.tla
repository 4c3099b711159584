---------------------------- MODULE ModuleInstall ----------------------------
(***************************************************************************)
(* iasql_install and iasql_uninstall (install() and uninstall() of         *)
(* src/modules/iasql_functions/iasql.ts).  A module brings tables, created *)
(* and dropped by its migration, a row of iasql_module and rows of         *)
(* iasql_tables.  Migrations run in one SQL transaction of a query runner; *)
(* the rows are saved through the connection's pool, each in a             *)
(* transaction of its own.                                                 *)
(*                                                                         *)
(* Both RPCs hold the transaction lock, so one of them runs at a time (see *)
(* TransactionLock); users go on with DDL of their own.  iasql_platform    *)
(* and iasql_functions, which every database has, are left out.            *)
(***************************************************************************)
EXTENDS FiniteSets

CONSTANTS
  Module,       \* the modules an engine offers
  Dependencies, \* Dependencies[m]: the modules m declares as dependencies
  ForeignKeys,  \* ForeignKeys[m]: those a table of m has a foreign key to
  NoModule,     \* no module
  MayFail,      \* whether a query may fail for a reason of its own
  MayCrash      \* whether the worker may die

\* The declared dependencies have no cycle.
ASSUME ModuleAssumption ==
  /\ Dependencies \in [Module -> SUBSET Module]
  /\ ForeignKeys \in [Module -> SUBSET Module]
  /\ NoModule \notin Module
  /\ MayFail \in BOOLEAN /\ MayCrash \in BOOLEAN
  /\ \A S \in SUBSET Module :
       S # {} => \E m \in S : Dependencies[m] \cap S = {}

VARIABLES
  iasql_module, \* modules with a row there
  iasql_tables, \* modules with rows there
  tables,       \* modules whose tables exist
  taken,        \* modules a table of the user's has the name of a table of
  views,        \* modules whose tables an object of the user's depends on
  op,           \* the call of install() or uninstall()
  torn          \* history variable: one ended early with rows half written

vars == <<iasql_module, iasql_tables, tables, taken, views, op, torn>>

registry == <<iasql_module, iasql_tables>>

-----------------------------------------------------------------------------
(* Sets of modules.                                                        *)

\* S is closed under the dependencies that are not installed.
Complete(S) == \A m \in S : Dependencies[m] \subseteq S \cup iasql_module

\* Mutant of Attached: one round of attaching missing dependencies.
Attached_once(list) ==
  LET mods == list \ iasql_module
  IN  mods \cup (UNION {Dependencies[m] : m \in mods} \ iasql_module)

\* Mutant of Attached: what is not found is attached as undefined.
Attached_undefined(list) == (list \ iasql_module) \cup {NoModule}

\* The modules of a list that are not installed, and the missing
\* dependencies, which are attached until there are none.
Attached(list) ==
  {m \in Module \ iasql_module :
     \A S \in SUBSET Module :
        (list \ iasql_module \subseteq S /\ Complete(S)) => m \in S}

\* sortModules(mods, existing) goes round its list until it is empty.
Sortable(mods, existing) ==
  \A m \in mods : Dependencies[m] \subseteq mods \cup existing

\* Mutants of RootFirst and LeafFirst: any order.
RootFirst_unordered(mods) == mods
LeafFirst_unordered(mods) == mods

\* The next module in the order of sortModules, and in the reverse order.
RootFirst(mods) == {m \in mods : Dependencies[m] \cap mods = {}}
LeafFirst(mods) == {m \in mods : \A n \in mods : m \notin Dependencies[n]}

-----------------------------------------------------------------------------
(* A call.                                                                 *)

\* pending: the modules whose tables the open SQL transaction has created
\* or dropped; saved: it has already written to iasql_module or iasql_tables.
Idle == [pc |-> "idle", kind |-> "install", todo |-> {}, now |-> NoModule,
         pending |-> {}, saved |-> "no"]

Installing == op.kind = "install"

At(pc) == op.pc = pc

Goto(pc) == op' = [op EXCEPT !.pc = pc]

\* What the open SQL transaction sees.
TablesSeen == IF Installing THEN tables \cup op.pending ELSE tables \ op.pending

\* The call throws; an open SQL transaction is rolled back, rows saved stay.
Fail ==
  /\ op' = Idle
  /\ torn' = IF op.saved = "yes" THEN TRUE ELSE torn
  /\ UNCHANGED <<registry, tables, taken, views>>

\* install(): prune, attach missing dependencies.
Install(list) ==
  /\ At("idle")
  /\ LET mods == Attached(list)
     IN  /\ mods # {}
         /\ op' = [Idle EXCEPT !.pc = "scan", !.todo = mods]
  /\ UNCHANGED <<registry, tables, taken, views, torn>>

\* ... throw if some table exists already ...
ScanTables ==
  /\ At("scan")
  /\ op.todo \cap (tables \cup taken) = {}
  /\ Goto("commit")
  /\ UNCHANGED <<registry, tables, taken, views, torn>>

ScanCollides == At("scan") /\ op.todo \cap (tables \cup taken) # {} /\ Fail

\* ... and commit first, which takes its time and may throw.
CommitFirst ==
  /\ At("commit")
  /\ Goto("sort")
  /\ UNCHANGED <<registry, tables, taken, views, torn>>

\* Mutant of Uninstall: what depends on the modules is not looked at.
Uninstall_unchecked(list) ==
  /\ At("idle")
  /\ LET mods == list \cap iasql_module
     IN  /\ mods # {}
         /\ op' = [Idle EXCEPT !.pc = "sort", !.kind = "uninstall", !.todo = mods]
  /\ UNCHANGED <<registry, tables, taken, views, torn>>

\* uninstall(): prune; refuse if a module that stays depends on one that goes.
Uninstall(list) ==
  /\ At("idle")
  /\ LET mods == list \cap iasql_module
         leftover == iasql_module \ mods
     IN  /\ mods # {}
         /\ \A m \in leftover : Dependencies[m] \subseteq iasql_module \ mods
         /\ op' = [Idle EXCEPT !.pc = "sort", !.kind = "uninstall", !.todo = mods]
  /\ UNCHANGED <<registry, tables, taken, views, torn>>

\* sortModules; it does not come back if the list cannot be sorted.
Sort ==
  /\ At("sort")
  /\ Sortable(op.todo, iasql_module \ op.todo)
  /\ Goto("next")
  /\ UNCHANGED <<registry, tables, taken, views, torn>>

NextModule ==
  /\ At("next")
  /\ \E m \in IF Installing THEN RootFirst(op.todo) ELSE LeafFirst(op.todo) :
       op' = [op EXCEPT !.pc = "migrate", !.now = m, !.todo = @ \ {m}]
  /\ UNCHANGED <<registry, tables, taken, views, torn>>

\* Whether the migration of the module works: a table that exists, a table a
\* foreign key needs, an object that depends on the table.
Migrates ==
  IF Installing
  THEN op.now \notin taken \cup TablesSeen /\ ForeignKeys[op.now] \subseteq TablesSeen
  ELSE /\ op.now \in TablesSeen \ views
       /\ \A m \in TablesSeen : op.now \notin ForeignKeys[m]

\* beforeInstall, install, afterInstall, or the removal of triggers and tables.
Migrate ==
  /\ At("migrate")
  /\ Migrates
  /\ op' = [op EXCEPT !.pc = IF Installing THEN "module" ELSE "tables",
                      !.pending = @ \cup {op.now}]
  /\ UNCHANGED <<registry, tables, taken, views, torn>>

\* orm.save and orm.remove of the row of iasql_module ...
SaveModule ==
  /\ At("module")
  /\ iasql_module' = IF Installing THEN iasql_module \cup {op.now}
                                   ELSE iasql_module \ {op.now}
  /\ op' = [op EXCEPT !.pc = IF Installing THEN "tables" ELSE "next", !.saved = "yes"]
  /\ UNCHANGED <<iasql_tables, tables, taken, views, torn>>

\* Mutant of SaveTables: uninstall goes on without removing them.
SaveTables_kept ==
  /\ At("tables")
  /\ iasql_tables' = IF Installing THEN iasql_tables \cup {op.now} ELSE iasql_tables
  /\ op' = [op EXCEPT !.pc = IF Installing THEN "next" ELSE "module", !.saved = "yes"]
  /\ UNCHANGED <<iasql_module, tables, taken, views, torn>>

\* ... and of those of iasql_tables, which refer to it; then the triggers.
SaveTables ==
  /\ At("tables")
  /\ iasql_tables' = IF Installing THEN iasql_tables \cup {op.now}
                                   ELSE iasql_tables \ {op.now}
  /\ op' = [op EXCEPT !.pc = IF Installing THEN "next" ELSE "module", !.saved = "yes"]
  /\ UNCHANGED <<iasql_module, tables, taken, views, torn>>

\* The SQL transaction commits.  An install then reads the cloud's records of
\* the new modules, which changes none of this whether it works or throws.
CommitTransaction ==
  /\ At("next") /\ op.todo = {}
  /\ tables' = TablesSeen
  /\ op' = Idle
  /\ UNCHANGED <<registry, taken, views, torn>>

\* A step throws: a migration that cannot work, or any query.
StepFails ==
  \/ At("migrate") /\ ~Migrates /\ Fail
  \/ MayFail /\ op.pc \in {"commit", "migrate", "module", "tables"} /\ Fail

\* The worker dies, and with it its SQL transaction.
Crash == MayCrash /\ op.pc # "idle" /\ Fail

-----------------------------------------------------------------------------
(* Users' DDL; it waits for what an open SQL transaction has locked.       *)

UserCreatesTable(m) ==
  /\ m \notin tables \cup taken \cup op.pending
  /\ taken' = taken \cup {m}
  /\ UNCHANGED <<registry, tables, views, op, torn>>

UserDropsTable(m) ==
  /\ m \in taken
  /\ taken' = taken \ {m}
  /\ UNCHANGED <<registry, tables, views, op, torn>>

UserCreatesView(m) ==
  /\ m \in tables \ (views \cup op.pending)
  /\ views' = views \cup {m}
  /\ UNCHANGED <<registry, tables, taken, op, torn>>

UserDropsView(m) ==
  /\ m \in views
  /\ views' = views \ {m}
  /\ UNCHANGED <<registry, tables, taken, op, torn>>

-----------------------------------------------------------------------------

Init ==
  /\ iasql_module = {} /\ iasql_tables = {} /\ tables = {}
  /\ taken = {} /\ views = {}
  /\ op = Idle
  /\ torn = FALSE

Call == \E list \in SUBSET Module : Install(list) \/ Uninstall(list)

Step ==
  \/ ScanTables \/ ScanCollides \/ CommitFirst \/ Sort \/ NextModule
  \/ Migrate \/ SaveModule \/ SaveTables \/ CommitTransaction \/ StepFails

UserDDL ==
  \E m \in Module : UserCreatesTable(m) \/ UserDropsTable(m)
                      \/ UserCreatesView(m) \/ UserDropsView(m)

Next == Call \/ Step \/ Crash \/ UserDDL

Spec == Init /\ [][Next]_vars

-----------------------------------------------------------------------------
(* Properties.                                                             *)

Pcs == {"idle", "scan", "commit", "sort", "next", "migrate", "module", "tables"}

\* Every variable keeps its type.
TypeOK ==
  /\ iasql_module \subseteq Module /\ iasql_tables \subseteq Module
  /\ tables \subseteq Module /\ taken \subseteq Module /\ views \subseteq Module
  /\ op \in [pc : Pcs, kind : {"install", "uninstall"}, todo : SUBSET Module,
             now : Module \cup {NoModule}, pending : SUBSET Module,
             saved : {"yes", "no"}]
  /\ torn \in BOOLEAN

\* Every installed module has its dependencies installed, at every moment of
\* an installation or removal, wherever it fails or the worker dies.
RegistryClosed ==
  \A m \in iasql_module : Dependencies[m] \subseteq iasql_module

\* sortModules, which loops for good on a list with an unsatisfiable
\* dependency and blocks the whole worker, is never given one.
NeverSpins == At("sort") => Sortable(op.todo, iasql_module \ op.todo)

\* Rows of iasql_tables belong to a module; and outside of a call that was
\* torn a module is registered, listed and has its tables, or none of these.
RowsMatchTables ==
  /\ iasql_tables \subseteq iasql_module
  /\ (At("idle") /\ ~torn) => iasql_module = iasql_tables /\ iasql_module = tables

-----------------------------------------------------------------------------
(* What comments say, and the code does not do.                            *)

\* "Wrapped in a transaction so any failure at this point when we're actually
\* mutating the database doesn't leave things in a busted state".
NotBusted == At("idle") => iasql_module = tables

=============================================================================
