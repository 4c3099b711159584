---------------------------- MODULE AuditReplay ----------------------------
(***************************************************************************)
(* The audit log as SQL.  iasql_audit() logs the row before and after each *)
(* statement; recreateQueries turns the log into queries again.  revert    *)
(* runs their inverses, newest first, to undo a transaction;               *)
(* iasql_get_sql_since and iasql_get_sql_for_transaction give them to a    *)
(* user, oldest first, to do the same in another database of the account,  *)
(* where rows have other ids.                                              *)
(*                                                                         *)
(* Two tables stand for the modules' tables: parents with a name and the   *)
(* identifier AWS gives them (arn), which a commit writes, and children    *)
(* with a label, a note that may be NULL and a parent that may be NULL.    *)
(***************************************************************************)
EXTENDS Integers, Sequences, FiniteSets

CONSTANTS
  Names, Labels, Notes,   \* values of the columns
  Rows,                   \* bound: rows of each table when the transaction begins
  MaxChanges              \* bound: changes of the transaction

ASSUME ReplayAssumption ==
  /\ Rows \in Nat /\ MaxChanges \in Nat
  /\ "NULL" \notin Names \cup Labels \cup Notes

VARIABLES
  db,        \* the database
  start,     \* the database when the transaction began
  log,       \* its changes, oldest first
  twins,     \* some row looked like another at some time
  resolved,  \* columns of children with @awsResolveSupport
  installed, \* tables whose modules are installed
  phase,     \* what is done with the log
  queries,   \* the queries that are left to run, by their change's place in the log
  copy       \* the database in which the user runs the queries

vars == <<db, start, log, twins, resolved, installed, phase, queries, copy>>

Table == {"parent", "child"}
Columns(t) == IF t = "parent" THEN {"name", "arn"} ELSE {"label", "note", "parent"}
NULL(c) == IF c \in {"arn", "parent"} THEN 0 ELSE "NULL"
Given(r) == {c \in DOMAIN r : r[c] # NULL(c)}

\* A database: the rows of its tables by id, and the next id of its sequences.
ParentRow(d, arns) == [name : Names, arn : arns]
ChildRow(d) ==
  [label : Labels, note : Notes \cup {"NULL"}, parent : {0} \cup DOMAIN d.parent]

Insert_sameId(d, t, r) ==
  [d EXCEPT ![t] = [i \in DOMAIN @ \cup {d.next} |-> IF i = d.next THEN r ELSE @[i]]]
Insert(d, t, r) ==
  [d EXCEPT ![t] = [i \in DOMAIN @ \cup {d.next} |-> IF i = d.next THEN r ELSE @[i]],
            !.next = @ + 1]
Update(d, t, is, r) ==
  [d EXCEPT ![t] = [i \in DOMAIN @ |->
     IF i \in is THEN [c \in DOMAIN @[i] |-> IF c \in DOMAIN r THEN r[c] ELSE @[i][c]]
     ELSE @[i]]]
Delete(d, t, is) == [d EXCEPT ![t] = [i \in DOMAIN @ \ is |-> @[i]]]
Referenced(d, is) == \E i \in DOMAIN d.child : d.child[i].parent \in is

\* One row has every value that another has.
Compared(t) == Columns(t) \ resolved
Alike(r, s, t) == \A c \in Compared(t) \cap Given(r) : s[c] = r[c]
HasTwins(d) ==
  \E t \in Table : \E i, j \in DOMAIN d[t] : i # j /\ Alike(d[t][i], d[t][j], t)

-----------------------------------------------------------------------------
(* The transaction.                                                        *)

Open == phase = "open" /\ Len(log) < MaxChanges

\* iasql_audit(), after each row.
Log(kind, t, id, original, change, user) ==
  log' = Append(log, [kind |-> kind, table |-> t, id |-> id, original |-> original,
                      change |-> change, user |-> user])

Changed ==
  /\ twins' = (twins \/ HasTwins(db'))
  /\ UNCHANGED <<start, resolved, installed, phase, queries, copy>>

NewRows(t) == IF t = "parent" THEN ParentRow(db, {0}) ELSE ChildRow(db)

UserInserts ==
  \E t \in installed : \E r \in NewRows(t) :
    /\ Open
    /\ db' = Insert(db, t, r)
    /\ Log("INSERT", t, db.next, <<>>, r, "user")
    /\ Changed

UserUpdates ==
  \E t \in installed : \E i \in DOMAIN db[t] : 
  \E r \in (IF t = "parent" THEN ParentRow(db, {db.parent[i].arn}) ELSE ChildRow(db)) :
    /\ Open /\ r # db[t][i]
    /\ db' = Update(db, t, {i}, r)
    /\ Log("UPDATE", t, i, db[t][i], r, "user")
    /\ Changed

UserDeletes ==
  \E t \in installed : \E i \in DOMAIN db[t] :
    /\ Open /\ ~(t = "parent" /\ Referenced(db, {i}))
    /\ db' = Delete(db, t, {i})
    /\ Log("DELETE", t, i, db[t][i], <<>>, "user")
    /\ Changed

\* A commit makes the resource and writes what AWS calls it.
EngineWrites ==
  \E i \in DOMAIN db.parent :
    /\ Open /\ db.parent[i].arn = 0
    /\ LET r == [db.parent[i] EXCEPT !.arn = i] IN
       /\ db' = Update(db, "parent", {i}, r)
       /\ Log("UPDATE", "parent", i, db.parent[i], r, "engine")
    /\ Changed

\* The module's tables are dropped without a trace in the log.
Uninstall ==
  /\ phase = "open" /\ installed' = {"parent"} /\ installed # installed'
  /\ db' = Delete(db, "child", DOMAIN db.child)
  /\ UNCHANGED <<start, log, twins, resolved, phase, queries, copy>>

-----------------------------------------------------------------------------
(* recreateQueries.                                                        *)

\* A value of a column that references another table: the id as it is, or a
\* sub-query by the columns that identify the row, or the text
\* '<relation_not_found>', which is no SQL.
Raw(p) == [id |-> p, by |-> {}]
NotFound == Raw(0)

\* logs are places in the log.  The row a sub-query is to find: the database has
\* it, or else its first change does.
recreateEntitiesFromChangelogs(logs, p) ==
  LET of == {k \in logs : log[k].table = "parent" /\ log[k].id = p}
  IN {IF log[k].change # <<>> THEN log[k].change ELSE log[k].original :
        k \in {j \in of : \A i \in of : j <= i}}

\* By the columns with @cloudId, or by all that have values if those have none.
recreateSubQuery(logs, p) ==
  LET rows == IF p \in DOMAIN db.parent THEN {db.parent[p]}
              ELSE recreateEntitiesFromChangelogs(logs, p)
      by(e) == IF e.arn # 0 THEN {<<"arn", e.arn>>} ELSE {<<c, e[c]>> : c \in Given(e)}
  IN IF rows = {} THEN NotFound ELSE [id |-> 0, by |-> by(CHOOSE e \in rows : TRUE)]

augmentValue_raw(logs, subs, c, v) == IF c = "parent" THEN Raw(v) ELSE v
augmentValue(logs, subs, c, v) ==
  IF c # "parent" THEN v ELSE IF subs THEN recreateSubQuery(logs, v) ELSE Raw(v)

\* Nulls are left out, and the generated ids are never in.
Entries(logs, subs, r) == [c \in Given(r) |-> augmentValue(logs, subs, c, r[c])]

Where_noReferences(t, entries) ==
  [c \in (DOMAIN entries \cap Compared(t)) \ {"parent"} |-> entries[c]]
Where(t, entries) == [c \in DOMAIN entries \cap Compared(t) |-> entries[c]]

\* For an insertion and a deletion there is one row, whether it was or will be.
getFormattedQuery(e, inverse, first, second) ==
  LET swap == [INSERT |-> "DELETE", DELETE |-> "INSERT", UPDATE |-> "UPDATE"]
      was == IF e.kind = "INSERT" THEN second ELSE first
      now == IF e.kind = "DELETE" THEN first ELSE second
  IN [kind |-> IF inverse THEN swap[e.kind] ELSE e.kind, table |-> e.table,
      set |-> IF inverse THEN was ELSE now,
      where |-> Where(e.table, IF inverse THEN now ELSE was)]

recreateQueries(logs, inverse, subs) ==
  [k \in logs |->
     getFormattedQuery(log[k], inverse, Entries(logs, subs, log[k].original),
                       Entries(logs, subs, log[k].change))]

\* Every table that is in the log must be in the index of installed modules.
Indexed(logs) == \A k \in logs : log[k].table \in installed

getChangeLogsSinceLastBegin == DOMAIN log
getChangeLogs == DOMAIN log
getUserChangeLogsByTransaction == {k \in DOMAIN log : log[k].user = "user"}

\* Mutant of Foremost: inverse queries oldest first.
Foremost_oldest(k, ks) == \A j \in ks : k <= j

\* The logs are ordered: newest first for revert, oldest first for a user.
Foremost(k, ks) == \A j \in ks : IF phase = "revert" THEN j <= k ELSE k <= j

\* The same rows under other ids.
Elsewhere(d) ==
  LET shift == Rows + Rows
      moved(is) == {i + shift : i \in is}
  IN [parent |-> [i \in moved(DOMAIN d.parent) |-> d.parent[i - shift]],
      child |-> [i \in moved(DOMAIN d.child) |->
        [d.child[i - shift] EXCEPT !.parent = IF @ = 0 THEN 0 ELSE @ + shift]],
      next |-> d.next + shift]

Ask(logs, inverse, how) ==
  /\ phase = "open"
  /\ IF Indexed(logs)
     THEN /\ phase' = how
          /\ queries' = recreateQueries(logs, inverse, ~inverse)
          /\ copy' = IF inverse THEN db ELSE Elsewhere(start)
     ELSE phase' = "thrown" /\ UNCHANGED <<queries, copy>>
  /\ UNCHANGED <<db, start, log, twins, resolved, installed>>

Revert == Ask(getChangeLogsSinceLastBegin, TRUE, "revert")
GetSqlSince == Ask(getChangeLogs, FALSE, "since")
GetSqlForTransaction == Ask(getUserChangeLogsByTransaction, FALSE, "transaction")

-----------------------------------------------------------------------------
(* The queries run.                                                        *)

\* What a reference in a query stands for; a sub-query without a row is NULL.
Candidates(d, v) == {p \in DOMAIN d.parent : \A w \in v.by : d.parent[p][w[1]] = w[2]}
Refers(d, v) ==
  IF v.by = {} THEN v.id
  ELSE CHOOSE p \in Candidates(d, v) \cup {0} : p = 0 => Candidates(d, v) = {}
Plain(d, r) == [c \in DOMAIN r |-> IF c = "parent" THEN Refers(d, r[c]) ELSE r[c]]

Matches(d, q) ==
  LET where == Plain(d, q.where) IN
  {i \in DOMAIN d[q.table] : \A c \in DOMAIN where :
     d[q.table][i][c] = where[c] /\ where[c] # NULL(c)}

\* PostgreSQL refuses a query that is no SQL, whose sub-query has several rows,
\* or that breaks a foreign key.
References(q) == {r["parent"] : r \in {s \in {q.set, q.where} : "parent" \in DOMAIN s}}
Legible(d, q) ==
  \A v \in References(q) : v # NotFound /\ (v.by = {} \/ Cardinality(Candidates(d, v)) <= 1)
Allowed(d, q) ==
  IF q.kind = "DELETE" THEN q.table = "child" \/ ~Referenced(d, Matches(d, q))
  ELSE ("parent" \in DOMAIN q.set /\ (q.kind = "INSERT" \/ Matches(d, q) # {})) =>
         Plain(d, q.set)["parent"] \in DOMAIN d.parent \cup {0}

Result(d, q) ==
  CASE q.kind = "INSERT" ->
         Insert(d, q.table, [c \in Columns(q.table) |->
                  IF c \in DOMAIN q.set THEN Plain(d, q.set)[c] ELSE NULL(c)])
    [] q.kind = "UPDATE" -> Update(d, q.table, Matches(d, q), Plain(d, q.set))
    [] q.kind = "DELETE" -> Delete(d, q.table, Matches(d, q))

\* A query that fails is skipped, with a warning.
RunQuery(d, q) == IF Legible(d, q) /\ Allowed(d, q) THEN Result(d, q) ELSE d

\* One query after the other.
applyInverseQueries ==
  /\ phase \in {"revert", "since", "transaction"}
  /\ \E k \in DOMAIN queries :
       /\ Foremost(k, DOMAIN queries)
       /\ copy' = RunQuery(copy, queries[k])
       /\ queries' = [j \in DOMAIN queries \ {k} |-> queries[j]]
  /\ UNCHANGED <<db, start, log, twins, resolved, installed, phase>>

Over ==
  /\ phase = "thrown" \/ (phase # "open" /\ DOMAIN queries = {})
  /\ UNCHANGED vars

\* Parents that AWS knows and parents it does not, with any children.
Init ==
  /\ \E n \in 0 .. Rows :
     \E p \in [1 .. n -> [name : Names, arn : {0, 1}]] :
     \E c \in UNION {[is -> [label : Labels, note : Notes \cup {"NULL"}, parent : 0 .. n]] :
                       is \in SUBSET ((Rows + 1) .. (2 * Rows))} :
       db = [parent |-> [i \in DOMAIN p |-> [p[i] EXCEPT !.arn = i * @]], child |-> c,
              next |-> 2 * Rows + 1]
  /\ start = db /\ copy = db
  /\ log = <<>> /\ queries = <<>>
  /\ resolved \in SUBSET {"note"}
  /\ twins = HasTwins(db)
  /\ installed = Table
  /\ phase = "open"

Next ==
  \/ UserInserts \/ UserUpdates \/ UserDeletes \/ EngineWrites \/ Uninstall
  \/ Revert \/ GetSqlSince \/ GetSqlForTransaction \/ applyInverseQueries \/ Over

Spec == Init /\ [][Next]_vars

-----------------------------------------------------------------------------
(* Properties.                                                             *)

\* The databases keep their keys: an id is given out once, and every parent a
\* child has is there, whatever statements and queries were run (the foreign
\* keys that iasql_audit()'s tables have).
Sound(d) ==
  /\ \A i \in DOMAIN d.parent : d.parent[i].name \in Names /\ d.parent[i].arn \in Nat
  /\ \A i \in DOMAIN d.child : d.child[i] \in ChildRow(d)
  /\ \A t \in Table : \A i \in DOMAIN d[t] : i \in 1 .. (d.next - 1)

TypeOK ==
  /\ Sound(db) /\ Sound(start) /\ Sound(copy)
  /\ Len(log) <= MaxChanges
  /\ \A k \in DOMAIN log : log[k].kind \in {"INSERT", "UPDATE", "DELETE"} /\ log[k].table \in Table
  /\ twins \in BOOLEAN /\ resolved \subseteq {"note"} /\ installed \subseteq Table
  /\ phase \in {"open", "revert", "since", "transaction", "thrown"}
  /\ DOMAIN queries \subseteq DOMAIN log

\* What two databases have in common whose ids differ: how many rows there are
\* of each kind, and of which parents; AWS's identifiers only if asked for.
Parent(d, i, arns) ==
  IF i = 0 THEN {} ELSE {<<d.parent[i].name, IF arns THEN d.parent[i].arn ELSE 0>>}
Child(d, i, arns) ==
  <<d.child[i].label, d.child[i].note, Parent(d, d.child[i].parent, arns)>>
Contents(d, arns) ==
  LET parents == {Parent(d, i, arns) : i \in DOMAIN d.parent}
      children == {Child(d, i, arns) : i \in DOMAIN d.child}
  IN <<[x \in parents |-> Cardinality({i \in DOMAIN d.parent : Parent(d, i, arns) = x})],
       [x \in children |-> Cardinality({i \in DOMAIN d.child : Child(d, i, arns) = x})]>>

Ran(how) == phase = how /\ DOMAIN queries = {} /\ ~twins
Inserted(e) == \E k \in DOMAIN log : log[k].kind = "INSERT" /\ log[k].id = e.id
Nulled(was, is) == {c \in DOMAIN was \cap DOMAIN is : was[c] = NULL(c) /\ is[c] # NULL(c)}
About(e, p) ==
  e.table = "child" /\ \E r \in {e.original, e.change} : "parent" \in DOMAIN r /\ r["parent"] = p

\* A change from NULL, which its inverse does not bring back (recreateQueries
\* leaves nulls out); the arn of a row that goes away again does no harm.
NullLost ==
  \E k \in DOMAIN log : \E c \in Nulled(log[k].original, log[k].change) :
    c # "arn" \/ ~Inserted(log[k])

\* A parent was deleted after children that refer to it had been changed: it
\* comes back with another id, and their inverses look for the old one.
IdLost ==
  \E k, j \in DOMAIN log :
    log[k].kind = "DELETE" /\ log[k].table = "parent" /\ About(log[j], log[k].id)

\* A value became NULL, and the query does not say so.
NullKept == \E k \in DOMAIN log : Nulled(log[k].change, log[k].original) # {}

\* A parent that children refer to was called otherwise at the time.
Renamed ==
  \E k, j \in DOMAIN log :
    log[k].kind = "UPDATE" /\ log[k].table = "parent" /\ About(log[j], log[k].id)

\* Of the rows that a commit gave an identifier in this transaction some were
\* changed by the user afterwards: the query looks for the identifier.
NamedAfter ==
  \E k, j \in DOMAIN log :
    /\ log[k].user = "engine" /\ k < j
    /\ log[j].user = "user" /\ log[j].table = "parent" /\ log[j].id = log[k].id

\* The inverse queries of a failed commit (revert, applyInverseQueries) bring the
\* tables back to what they were at iasql_begin, however many statements there
\* were and whatever a commit wrote in between, as long as rows can be told
\* apart, no NULL was overwritten and no parent with children changed goes.
RevertRestores ==
  Ran("revert") /\ installed = Table /\ ~NullLost /\ ~IdLost =>
    Contents(copy, TRUE) = Contents(start, TRUE)

\* Inverse queries look rows up by their values, for ids are not restored: they
\* touch no row that the transaction did not touch, not even when other inverse
\* queries failed or brought back less than there was.
BystandersKept ==
  Ran("revert") =>
    \A t \in Table \cap installed : \A i \in DOMAIN start[t] :
      (\A k \in DOMAIN log : log[k].table = t => log[k].id # i) =>
        i \in DOMAIN copy[t] /\ copy[t][i] = start[t][i]

\* The SQL of iasql_get_sql_since and iasql_get_sql_for_transaction, run in a
\* database that is what this one was, makes it what this one is: sub-queries
\* find the rows that have other ids there (augmentValue, recreateSubQuery).
ReplayReproduces ==
  /\ Ran("since") \/ (Ran("transaction") /\ ~NamedAfter)
  /\ installed = Table /\ ~NullKept /\ ~Renamed
  => Contents(copy, FALSE) = Contents(db, FALSE)
=============================================================================
