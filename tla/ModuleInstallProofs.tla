------------------------ MODULE ModuleInstallProofs ------------------------
(***************************************************************************)
(* For any modules and dependencies: the registry is closed under          *)
(* dependencies at every moment, and sortModules always ends.              *)
(***************************************************************************)
EXTENDS ModuleInstall, TLAPS

\* Where an installation is: the modules before the one in progress are in
\* the registry, its dependencies among them.
InstallInv ==
  Installing =>
    /\ op.pc \in {"scan", "commit", "sort", "next", "tables"} =>
         \A m \in op.todo : Dependencies[m] \subseteq op.todo \cup iasql_module
    /\ op.pc \in {"scan", "commit", "sort"} => op.todo \cap iasql_module = {}
    /\ op.pc = "tables" => op.now \in iasql_module
    /\ op.pc \in {"migrate", "module"} =>
         /\ op.now \in Module /\ Dependencies[op.now] \subseteq iasql_module
         /\ \A m \in op.todo : Dependencies[m] \subseteq op.todo \cup {op.now} \cup iasql_module

\* Where a removal is: nothing that stays depends on what is still to go, nor
\* does anything still to go depend on the module in progress.
RemovalInv ==
  ~Installing =>
    /\ op.pc \notin {"scan", "commit"}
    /\ op.pc \in {"sort", "next"} =>
         \A m \in iasql_module \ op.todo : Dependencies[m] \cap op.todo = {}
    /\ op.pc = "sort" => op.todo \subseteq iasql_module
    /\ op.pc \in {"migrate", "tables", "module"} =>
         \A m \in iasql_module \ {op.now} :
           /\ op.now \notin Dependencies[m]
           /\ m \notin op.todo => Dependencies[m] \cap op.todo = {}

IInv == TypeOK /\ RegistryClosed /\ InstallInv /\ RemovalInv

-----------------------------------------------------------------------------

\* sortModules: if the dependencies of every module are in the list or exist,
\* some module of whatever is left of the list can be taken next.
THEOREM SortProgresses ==
  ASSUME NEW mods \in SUBSET Module, NEW existing,
         Sortable(mods, existing),
         NEW rest \in SUBSET mods, rest # {}
  PROVE  \E m \in rest : Dependencies[m] \subseteq (mods \ rest) \cup existing
<1>1. PICK m \in rest : Dependencies[m] \cap rest = {}
  BY ModuleAssumption DEF ModuleAssumption
<1>2. Dependencies[m] \subseteq mods \cup existing  BY DEF Sortable
<1>3. QED  BY <1>1, <1>2

\* What is attached is closed under the dependencies not yet installed.
LEMMA AttachedComplete ==
  ASSUME NEW list \in SUBSET Module
  PROVE  Complete(Attached(list))
<1> SUFFICES ASSUME NEW m \in Attached(list), NEW d \in Dependencies[m], d \notin iasql_module
             PROVE  d \in Attached(list)
  BY DEF Complete
<1>1. d \in Module  BY ModuleAssumption DEF Attached, ModuleAssumption
<1>2. ASSUME NEW S \in SUBSET Module, list \ iasql_module \subseteq S, Complete(S)
      PROVE  d \in S
  <2>1. m \in S  BY <1>2 DEF Attached
  <2>2. QED  BY <1>2, <2>1 DEF Complete
<1>3. QED  BY <1>1, <1>2 DEF Attached

\* Initially nothing is installed.
LEMMA InitIInv == Init => IInv
<1> SUFFICES ASSUME Init PROVE IInv  OBVIOUS
<1>1. torn \in BOOLEAN  BY DEF Init
<1>2. /\ op = Idle /\ iasql_module = {} /\ iasql_tables = {} /\ tables = {}
      /\ taken = {} /\ views = {}
  BY DEF Init
<1>3. QED
  BY <1>1, <1>2 DEF IInv, TypeOK, Idle, Pcs, RegistryClosed, InstallInv, RemovalInv, Installing

\* A call that throws or whose worker dies leaves the registry as it is.
LEMMA FailStep == ASSUME IInv, Fail PROVE IInv'
<1>1. op' = Idle /\ UNCHANGED <<registry, tables, taken, views>> /\ torn' \in BOOLEAN
  BY DEF Fail, IInv, TypeOK
<1>2. QED
  BY <1>1 DEF Idle, registry, IInv, TypeOK, Pcs, RegistryClosed, InstallInv, RemovalInv, Installing

LEMMA InstallStep ==
  ASSUME IInv, NEW list \in SUBSET Module, Install(list)
  PROVE  IInv'
<1>1. op' = [Idle EXCEPT !.pc = "scan", !.todo = Attached(list)]
      /\ UNCHANGED <<registry, tables, taken, views, torn>>
  BY DEF Install
<1>2. Complete(Attached(list))  BY AttachedComplete
<1>3. Attached(list) \subseteq Module \ iasql_module  BY DEF Attached
<1> HIDE DEF Attached
<1>4. TypeOK'  BY <1>1, <1>3 DEF IInv, TypeOK, Idle, Pcs, registry
<1>5. RegistryClosed'  BY <1>1 DEF IInv, RegistryClosed, registry
<1>6. InstallInv' /\ RemovalInv'
  BY <1>1, <1>2, <1>3 DEF InstallInv, RemovalInv, Installing, Idle, registry, Complete
<1>7. QED  BY <1>4, <1>5, <1>6 DEF IInv

LEMMA UninstallStep ==
  ASSUME IInv, NEW list \in SUBSET Module, Uninstall(list)
  PROVE  IInv'
<1> DEFINE mods == list \cap iasql_module
<1>1. /\ op' = [Idle EXCEPT !.pc = "sort", !.kind = "uninstall", !.todo = mods]
      /\ \A m \in iasql_module \ mods : Dependencies[m] \subseteq iasql_module \ mods
      /\ UNCHANGED <<registry, tables, taken, views, torn>>
  BY DEF Uninstall
<1>2. mods \subseteq iasql_module /\ mods \subseteq Module  OBVIOUS
<1> HIDE DEF mods
<1>3. TypeOK'  BY <1>1, <1>2 DEF IInv, TypeOK, Idle, Pcs, registry
<1>4. RegistryClosed'  BY <1>1 DEF IInv, RegistryClosed, registry
<1>5. InstallInv' /\ RemovalInv'
  BY <1>1, <1>2 DEF InstallInv, RemovalInv, Installing, Idle, registry
<1>6. QED  BY <1>3, <1>4, <1>5 DEF IInv

\* The steps that only move the call on.
LEMMA MoveStep ==
  ASSUME IInv, ScanTables \/ CommitFirst \/ Sort \/ Migrate
  PROVE  IInv'
<1>1. CASE ScanTables \/ CommitFirst \/ Sort
  <2>1. /\ \/ op.pc = "scan" /\ op' = [op EXCEPT !.pc = "commit"]
           \/ op.pc = "commit" /\ op' = [op EXCEPT !.pc = "sort"]
           \/ op.pc = "sort" /\ op' = [op EXCEPT !.pc = "next"]
        /\ UNCHANGED <<registry, tables, taken, views, torn>>
    BY <1>1 DEF ScanTables, CommitFirst, Sort, At, Goto
  <2>2. TypeOK' /\ RegistryClosed'
    BY <2>1 DEF IInv, TypeOK, Pcs, registry, RegistryClosed
  <2>3. /\ op'.kind = op.kind /\ op'.todo = op.todo /\ iasql_module' = iasql_module
        /\ \/ op.pc = "scan" /\ op'.pc = "commit"
           \/ op.pc = "commit" /\ op'.pc = "sort"
           \/ op.pc = "sort" /\ op'.pc = "next"
    BY <2>1 DEF IInv, TypeOK, registry
  <2>4. InstallInv'  BY <2>3 DEF IInv, InstallInv, Installing
  <2>5. RemovalInv'
    <3>1. CASE op.pc = "sort"  BY <2>3, <3>1 DEF IInv, RemovalInv, Installing
    <3>2. CASE op.pc # "sort" /\ Installing  BY <2>3, <3>2 DEF RemovalInv, Installing
    <3>3. CASE op.pc # "sort" /\ ~Installing
      BY <2>3, <3>3 DEF IInv, RemovalInv, Installing
    <3>4. QED  BY <3>1, <3>2, <3>3
  <2>6. QED  BY <2>2, <2>4, <2>5 DEF IInv
<1>2. CASE Migrate
  <2>1. /\ op.pc = "migrate"
        /\ op' = [op EXCEPT !.pc = IF Installing THEN "module" ELSE "tables",
                            !.pending = @ \cup {op.now}]
        /\ UNCHANGED <<registry, tables, taken, views, torn>>
    BY <1>2 DEF Migrate, At
  <2>2. op.now \in Module  BY <1>2, ModuleAssumption DEF Migrate, Migrates, TablesSeen, IInv, TypeOK, InstallInv, At
  <2>3. TypeOK'  BY <2>1, <2>2 DEF IInv, TypeOK, Pcs, registry
  <2>4. QED
    BY <2>1, <2>3 DEF IInv, TypeOK, registry, RegistryClosed, InstallInv, RemovalInv, Installing
<1>3. QED  BY <1>1, <1>2

LEMMA NextModuleStep ==
  ASSUME IInv, NextModule
  PROVE  IInv'
<1>1. PICK m \in IF Installing THEN RootFirst(op.todo) ELSE LeafFirst(op.todo) :
        op' = [op EXCEPT !.pc = "migrate", !.now = m, !.todo = @ \ {m}]
  BY DEF NextModule
<1>2. /\ op.pc = "next" /\ m \in op.todo /\ m \in Module
      /\ UNCHANGED <<registry, tables, taken, views, torn>>
  BY <1>1 DEF NextModule, At, RootFirst, LeafFirst, IInv, TypeOK
<1>3. TypeOK' /\ RegistryClosed'
  BY <1>1, <1>2 DEF IInv, TypeOK, Pcs, registry, RegistryClosed
<1>4. CASE Installing
  <2>1. Dependencies[m] \cap op.todo = {}  BY <1>1, <1>4 DEF RootFirst
  <2>2. Dependencies[m] \subseteq iasql_module
    BY <1>2, <1>4, <2>1 DEF IInv, InstallInv
  <2>3. InstallInv' /\ RemovalInv'
    BY <1>1, <1>2, <1>4, <2>2 DEF IInv, TypeOK, registry, InstallInv, RemovalInv, Installing
  <2>4. QED  BY <1>3, <2>3 DEF IInv
<1>5. CASE ~Installing
  <2>1. \A n \in op.todo : m \notin Dependencies[n]  BY <1>1, <1>5 DEF LeafFirst
  <2>2. \A n \in iasql_module : m \notin Dependencies[n]
    BY <1>2, <1>5, <2>1 DEF IInv, RemovalInv
  <2>3. InstallInv' /\ RemovalInv'
    BY <1>1, <1>2, <1>5, <2>2 DEF IInv, TypeOK, registry, InstallInv, RemovalInv, Installing
  <2>4. QED  BY <1>3, <2>3 DEF IInv
<1>6. QED  BY <1>4, <1>5

\* A row of iasql_module appears after those of its dependencies, and goes
\* before they do.
LEMMA SaveModuleStep ==
  ASSUME IInv, SaveModule
  PROVE  IInv'
<1>1. /\ op.pc = "module"
      /\ op' = [op EXCEPT !.pc = IF Installing THEN "tables" ELSE "next", !.saved = "yes"]
      /\ UNCHANGED <<iasql_tables, tables, taken, views, torn>>
  BY DEF SaveModule, At
<1>2. CASE Installing
  <2>1. iasql_module' = iasql_module \cup {op.now} /\ op.now \in Module
        /\ Dependencies[op.now] \subseteq iasql_module
    BY <1>1, <1>2 DEF SaveModule, IInv, InstallInv
  <2>2. TypeOK'  BY <1>1, <2>1 DEF IInv, TypeOK, Pcs
  <2>3. RegistryClosed'  BY <2>1 DEF IInv, RegistryClosed
  <2>4. InstallInv' /\ RemovalInv'
    BY <1>1, <1>2, <2>1 DEF IInv, TypeOK, InstallInv, RemovalInv, Installing
  <2>5. QED  BY <2>2, <2>3, <2>4 DEF IInv
<1>3. CASE ~Installing
  <2>1. iasql_module' = iasql_module \ {op.now}  BY <1>3 DEF SaveModule
  <2>2. TypeOK'  BY <1>1, <2>1 DEF IInv, TypeOK, Pcs
  <2>3. \A m \in iasql_module \ {op.now} : op.now \notin Dependencies[m]
    BY <1>1, <1>3 DEF IInv, RemovalInv
  <2>4. RegistryClosed'  BY <2>1, <2>3 DEF IInv, RegistryClosed
  <2>5. InstallInv' /\ RemovalInv'
    BY <1>1, <1>3, <2>1 DEF IInv, TypeOK, InstallInv, RemovalInv, Installing
  <2>6. QED  BY <2>2, <2>4, <2>5 DEF IInv
<1>4. QED  BY <1>2, <1>3

LEMMA SaveTablesStep ==
  ASSUME IInv, SaveTables
  PROVE  IInv'
<1>1. /\ op.pc = "tables"
      /\ op' = [op EXCEPT !.pc = IF Installing THEN "next" ELSE "module", !.saved = "yes"]
      /\ UNCHANGED <<iasql_module, tables, taken, views, torn>>
  BY DEF SaveTables, At
<1>2. TypeOK' /\ RegistryClosed'
  <2>1. iasql_tables' \subseteq Module
    <3>1. CASE Installing
      <4>1. op.now \in Module  BY <1>1, <3>1 DEF IInv, TypeOK, InstallInv
      <4>2. QED  BY <3>1, <4>1 DEF SaveTables, IInv, TypeOK
    <3>2. CASE ~Installing  BY <3>2 DEF SaveTables, IInv, TypeOK
    <3>3. QED  BY <3>1, <3>2
  <2>2. QED  BY <1>1, <2>1 DEF IInv, TypeOK, Pcs, RegistryClosed
<1>3. InstallInv' /\ RemovalInv'
  BY <1>1 DEF IInv, TypeOK, InstallInv, RemovalInv, Installing
<1>4. QED  BY <1>2, <1>3 DEF IInv

LEMMA CommitTransactionStep ==
  ASSUME IInv, CommitTransaction
  PROVE  IInv'
<1>1. tables' \subseteq Module  BY DEF CommitTransaction, TablesSeen, IInv, TypeOK
<1>2. op' = Idle /\ UNCHANGED <<registry, taken, views, torn>>  BY DEF CommitTransaction
<1>3. QED
  BY <1>1, <1>2 DEF Idle, registry, IInv, TypeOK, Pcs, RegistryClosed, InstallInv, RemovalInv, Installing

LEMMA UserStep ==
  ASSUME IInv, UserDDL
  PROVE  IInv'
<1>1. UNCHANGED <<registry, tables, op, torn>> /\ taken' \subseteq Module /\ views' \subseteq Module
  BY DEF UserDDL, UserCreatesTable, UserDropsTable, UserCreatesView, UserDropsView, IInv, TypeOK
<1>2. QED
  BY <1>1 DEF registry, IInv, TypeOK, RegistryClosed, InstallInv, RemovalInv, Installing

LEMMA NextIInv == ASSUME IInv, [Next]_vars PROVE IInv'
<1>1. CASE Call  BY <1>1, InstallStep, UninstallStep DEF Call
<1>2. CASE Step
  BY <1>2, MoveStep, NextModuleStep, SaveModuleStep, SaveTablesStep,
     CommitTransactionStep, FailStep DEF Step, ScanCollides, StepFails
<1>3. CASE Crash  BY <1>3, FailStep DEF Crash
<1>4. CASE UserDDL  BY <1>4, UserStep
<1>5. CASE UNCHANGED vars
  BY <1>5 DEF vars, registry, IInv, TypeOK, RegistryClosed, InstallInv, RemovalInv, Installing
<1>6. QED  BY <1>1, <1>2, <1>3, <1>4, <1>5 DEF Next

THEOREM Inductive == Spec => []IInv
  BY InitIInv, NextIInv, PTL DEF Spec

\* Every state of an installation or a removal is well typed.
THEOREM TypeCorrect == Spec => []TypeOK
<1>1. IInv => TypeOK  BY DEF IInv
<1>2. QED  BY <1>1, Inductive, PTL

\* The order in which sortModules puts the modules keeps the registry closed
\* under dependencies, at whatever step a call throws or its worker dies.
THEOREM Closed == Spec => []RegistryClosed
<1>1. IInv => RegistryClosed  BY DEF IInv
<1>2. QED  BY <1>1, Inductive, PTL

\* ... and so sortModules always gets a list it can sort.
THEOREM SortEnds == Spec => []NeverSpins
<1>1. IInv => NeverSpins
  <2>1. ASSUME IInv, At("sort"), Installing
        PROVE  Sortable(op.todo, iasql_module \ op.todo)
    BY <2>1 DEF IInv, InstallInv, Sortable, At
  <2>2. ASSUME IInv, At("sort"), ~Installing
        PROVE  Sortable(op.todo, iasql_module \ op.todo)
    BY <2>2 DEF IInv, RemovalInv, RegistryClosed, Sortable, At
  <2>3. QED  BY <2>1, <2>2 DEF NeverSpins
<1>2. QED  BY <1>1, Inductive, PTL

-----------------------------------------------------------------------------
(* What is in iasql_module, in iasql_tables and among the tables.          *)

\* Nothing was torn: how far the module in progress has got.
Aligned ==
  /\ op.saved = "no" => iasql_module = tables /\ iasql_tables = iasql_module
  /\ op.pc \in {"idle", "scan", "commit", "sort"} => op.saved = "no" /\ op.pending = {}
  /\ op.pc \in {"next", "migrate"} =>
       iasql_module = TablesSeen /\ iasql_tables = iasql_module
  /\ op.pc = "module" /\ Installing =>
       TablesSeen = iasql_module \cup {op.now} /\ iasql_tables = iasql_module
  /\ op.pc = "tables" /\ Installing =>
       /\ TablesSeen = iasql_module /\ op.now \in iasql_module
       /\ iasql_tables \cup {op.now} = iasql_module
  /\ op.pc = "tables" /\ ~Installing =>
       TablesSeen = iasql_module \ {op.now} /\ iasql_tables = iasql_module
  /\ op.pc = "module" /\ ~Installing =>
       TablesSeen = iasql_module \ {op.now} /\ iasql_tables = TablesSeen

\* Torn or not, a row of iasql_tables refers to one of iasql_module.
References ==
  /\ iasql_tables \subseteq iasql_module
  /\ op.pc = "module" /\ ~Installing => op.now \notin iasql_tables
  /\ op.pc = "tables" /\ Installing => op.now \in iasql_module

RInv == TypeOK /\ References /\ (torn = FALSE => Aligned)

LEMMA InitRInv == Init => RInv
<1> SUFFICES ASSUME Init PROVE RInv  OBVIOUS
<1>1. TypeOK  BY InitIInv DEF IInv
<1>2. /\ op = Idle /\ iasql_module = {} /\ iasql_tables = {} /\ tables = {}
  BY DEF Init
<1>3. References /\ Aligned
  BY <1>2 DEF References, Aligned, Idle, TablesSeen, Installing
<1>4. QED  BY <1>1, <1>3 DEF RInv

LEMMA FailRows == ASSUME RInv, Fail PROVE References' /\ (torn' = FALSE => Aligned')
<1>1. op' = Idle /\ UNCHANGED <<registry, tables, taken, views>>
  BY DEF Fail
<1>2. References'  BY <1>1 DEF RInv, References, Idle, registry, Installing
<1>3. ASSUME torn' = FALSE PROVE Aligned'
  <2>1. torn = FALSE /\ op.saved = "no"  BY <1>3 DEF Fail, RInv, TypeOK
  <2>2. iasql_module = tables /\ iasql_tables = iasql_module
    BY <2>1 DEF RInv, Aligned
  <2>3. QED  BY <1>1, <2>2 DEF Aligned, Idle, registry, TablesSeen, Installing
<1>4. QED  BY <1>2, <1>3

\* The steps before the first migration.
LEMMA BeginRows ==
  ASSUME RInv, (\E list \in SUBSET Module : Install(list) \/ Uninstall(list))
               \/ ScanTables \/ CommitFirst \/ Sort
  PROVE  References' /\ (torn' = FALSE => Aligned')
<1>1. /\ UNCHANGED <<registry, tables, taken, views, torn>>
      /\ op.pc \in {"idle", "scan", "commit", "sort"}
      /\ op'.pc \in {"scan", "commit", "sort", "next"}
      /\ (op'.saved = "no" /\ op'.pending = {}) \/ (op'.saved = op.saved /\ op'.pending = op.pending)
  <2>1. ASSUME NEW list \in SUBSET Module, Install(list)
        PROVE  /\ UNCHANGED <<registry, tables, taken, views, torn>>
               /\ op.pc = "idle" /\ op'.pc = "scan"
               /\ op'.saved = "no" /\ op'.pending = {}
    <3> HIDE DEF Attached
    <3>1. QED  BY <2>1 DEF Install, At, Idle
  <2>2. ASSUME NEW list \in SUBSET Module, Uninstall(list)
        PROVE  /\ UNCHANGED <<registry, tables, taken, views, torn>>
               /\ op.pc = "idle" /\ op'.pc = "sort"
               /\ op'.saved = "no" /\ op'.pending = {}
    BY <2>2 DEF Uninstall, At, Idle
  <2>3. CASE ScanTables \/ CommitFirst \/ Sort
    BY <2>3 DEF RInv, TypeOK, ScanTables, CommitFirst, Sort, At, Goto
  <2>4. QED  BY <2>1, <2>2, <2>3
<1>2. References'  BY <1>1 DEF RInv, References, registry
<1>3. ASSUME torn' = FALSE PROVE Aligned'
  <2>1. Aligned  BY <1>1, <1>3 DEF RInv
  <2>2. /\ op.saved = "no" /\ op.pending = {}
        /\ iasql_module = tables /\ iasql_tables = iasql_module
    BY <1>1, <2>1 DEF Aligned
  <2>3. QED  BY <1>1, <2>2 DEF Aligned, TablesSeen, Installing, registry
<1>4. QED  BY <1>2, <1>3

LEMMA NextModuleRows ==
  ASSUME RInv, NextModule
  PROVE  References' /\ (torn' = FALSE => Aligned')
<1>1. PICK m : op' = [op EXCEPT !.pc = "migrate", !.now = m, !.todo = @ \ {m}]
  BY DEF NextModule
<1>2. /\ op.pc = "next" /\ op'.pc = "migrate" /\ op'.kind = op.kind
      /\ op'.saved = op.saved /\ op'.pending = op.pending
      /\ UNCHANGED <<registry, tables, taken, views, torn>>
  BY <1>1 DEF NextModule, At, RInv, TypeOK
<1>3. QED
  BY <1>2 DEF RInv, References, Aligned, TablesSeen, Installing, registry

LEMMA MigrateRows ==
  ASSUME RInv, Migrate
  PROVE  References' /\ (torn' = FALSE => Aligned')
<1>1. /\ op.pc = "migrate" /\ op'.kind = op.kind /\ op'.now = op.now
      /\ op'.pc = IF Installing THEN "module" ELSE "tables"
      /\ op'.saved = op.saved /\ op'.pending = op.pending \cup {op.now}
      /\ UNCHANGED <<registry, tables, taken, views, torn>>
  BY DEF Migrate, At, RInv, TypeOK
<1>2. References'  BY <1>1 DEF RInv, References, Installing, registry
<1>3. ASSUME torn' = FALSE PROVE Aligned'
  <2>1. Aligned  BY <1>1, <1>3 DEF RInv
  <2>2. CASE Installing
    BY <1>1, <2>1, <2>2 DEF Aligned, TablesSeen, Installing, registry
  <2>3. CASE ~Installing
    BY <1>1, <2>1, <2>3 DEF Aligned, TablesSeen, Installing, registry
  <2>4. QED  BY <2>2, <2>3
<1>4. QED  BY <1>2, <1>3

LEMMA SaveModuleRows ==
  ASSUME RInv, SaveModule
  PROVE  References' /\ (torn' = FALSE => Aligned')
<1>1. /\ op.pc = "module" /\ op'.kind = op.kind /\ op'.now = op.now
      /\ op'.pc = IF Installing THEN "tables" ELSE "next"
      /\ op'.saved = "yes" /\ op'.pending = op.pending
      /\ iasql_module' = IF Installing THEN iasql_module \cup {op.now}
                                       ELSE iasql_module \ {op.now}
      /\ UNCHANGED <<iasql_tables, tables, taken, views, torn>>
  BY DEF SaveModule, At, RInv, TypeOK
<1>2. References'
  <2>1. CASE Installing  BY <1>1, <2>1 DEF RInv, References, Installing
  <2>2. CASE ~Installing  BY <1>1, <2>2 DEF RInv, References, Installing
  <2>3. QED  BY <2>1, <2>2
<1>3. ASSUME torn' = FALSE PROVE Aligned'
  <2>1. Aligned  BY <1>1, <1>3 DEF RInv
  <2>2. CASE Installing
    BY <1>1, <2>1, <2>2 DEF Aligned, TablesSeen, Installing
  <2>3. CASE ~Installing
    BY <1>1, <2>1, <2>3 DEF Aligned, TablesSeen, Installing
  <2>4. QED  BY <2>2, <2>3
<1>4. QED  BY <1>2, <1>3

LEMMA SaveTablesRows ==
  ASSUME RInv, SaveTables
  PROVE  References' /\ (torn' = FALSE => Aligned')
<1>1. /\ op.pc = "tables" /\ op'.kind = op.kind /\ op'.now = op.now
      /\ op'.pc = IF Installing THEN "next" ELSE "module"
      /\ op'.saved = "yes" /\ op'.pending = op.pending
      /\ iasql_tables' = IF Installing THEN iasql_tables \cup {op.now}
                                       ELSE iasql_tables \ {op.now}
      /\ UNCHANGED <<iasql_module, tables, taken, views, torn>>
  BY DEF SaveTables, At, RInv, TypeOK
<1>2. References'
  <2>1. CASE Installing  BY <1>1, <2>1 DEF RInv, References, Installing
  <2>2. CASE ~Installing  BY <1>1, <2>2 DEF RInv, References, Installing
  <2>3. QED  BY <2>1, <2>2
<1>3. ASSUME torn' = FALSE PROVE Aligned'
  <2>1. Aligned  BY <1>1, <1>3 DEF RInv
  <2>2. CASE Installing
    BY <1>1, <2>1, <2>2 DEF Aligned, TablesSeen, Installing
  <2>3. CASE ~Installing
    BY <1>1, <2>1, <2>3 DEF Aligned, TablesSeen, Installing
  <2>4. QED  BY <2>2, <2>3
<1>4. QED  BY <1>2, <1>3

LEMMA CommitTransactionRows ==
  ASSUME RInv, CommitTransaction
  PROVE  References' /\ (torn' = FALSE => Aligned')
<1>1. /\ op.pc = "next" /\ op' = Idle /\ tables' = TablesSeen
      /\ UNCHANGED <<registry, taken, views, torn>>
  BY DEF CommitTransaction, At
<1>2. References'  BY <1>1 DEF RInv, References, Idle, registry, Installing
<1>3. ASSUME torn' = FALSE PROVE Aligned'
  <2>1. iasql_module = TablesSeen /\ iasql_tables = iasql_module
    BY <1>1, <1>3 DEF RInv, Aligned
  <2>2. /\ iasql_module' = tables' /\ iasql_tables' = iasql_module'
        /\ op'.pc = "idle" /\ op'.saved = "no" /\ op'.pending = {}
    BY <1>1, <2>1 DEF registry, Idle
  <2>3. QED  BY <2>2 DEF Aligned
<1>4. QED  BY <1>2, <1>3

LEMMA NextRInv == ASSUME IInv, RInv, [Next]_vars PROVE RInv'
<1>1. TypeOK'  BY NextIInv DEF IInv
<1>2. References' /\ (torn' = FALSE => Aligned')
  <2>1. CASE Call  BY <2>1, BeginRows DEF Call
  <2>2. CASE Step
    BY <2>2, BeginRows, NextModuleRows, MigrateRows, SaveModuleRows, SaveTablesRows,
       CommitTransactionRows, FailRows DEF Step, ScanCollides, StepFails
  <2>3. CASE Crash  BY <2>3, FailRows DEF Crash
  <2>4. CASE UserDDL \/ UNCHANGED vars
    <3>1. UNCHANGED <<registry, tables, op, torn>>
      BY <2>4 DEF UserDDL, UserCreatesTable, UserDropsTable, UserCreatesView,
                  UserDropsView, vars, registry
    <3>2. QED
      BY <3>1 DEF registry, RInv, References, Aligned, TablesSeen, Installing
  <2>5. QED  BY <2>1, <2>2, <2>3, <2>4 DEF Next
<1>3. QED  BY <1>1, <1>2 DEF RInv

\* The rows of iasql_tables always have their module, and unless a call was
\* torn a module has its rows exactly if it has its tables.
THEOREM RowsAndTables == Spec => []RowsMatchTables
<1>1. RInv => RowsMatchTables
  BY DEF RInv, TypeOK, References, Aligned, RowsMatchTables, At
<1>2. QED  BY <1>1, InitIInv, NextIInv, InitRInv, NextRInv, PTL DEF Spec

=============================================================================
