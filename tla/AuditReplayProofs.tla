------------------------- MODULE AuditReplayProofs -------------------------
(***************************************************************************)
(* The audit log as SQL, for any names, labels, notes, numbers of rows and *)
(* of changes:                                                             *)
(*  - whatever statements are made and whatever queries their log is       *)
(*    turned into, the databases keep their types, their ids and their     *)
(*    foreign keys;                                                        *)
(*  - inverse queries touch no row that the transaction did not touch, and *)
(*    bring the tables back to what they were;                             *)
(*  - the SQL that a user is given makes another database what this one is.*)
(* The last two hold where RevertRestores and ReplayReproduces say so.     *)
(***************************************************************************)
EXTENDS AuditReplay, TLAPS, FiniteSetTheorems

-----------------------------------------------------------------------------
(* Databases.                                                              *)

Column(c) ==
  CASE c = "name"   -> Names
    [] c = "arn"    -> Nat
    [] c = "label"  -> Labels
    [] c = "note"   -> Notes \cup {"NULL"}
    [] c = "parent" -> Nat

ParentRows == [name : Names, arn : Nat]
ChildRows == [label : Labels, note : Notes \cup {"NULL"}, parent : Nat]
RowsOf(t) == IF t = "parent" THEN ParentRows ELSE ChildRows

\* The tables of a database, with ids below the next one, and its foreign keys.
IsDb(d) ==
  /\ DOMAIN d = {"parent", "child", "next"}
  /\ d.next \in Nat \ {0}
  /\ d.parent \in [DOMAIN d.parent -> ParentRows]
  /\ d.child \in [DOMAIN d.child -> ChildRows]
  /\ DOMAIN d.parent \subseteq 1 .. (d.next - 1)
  /\ DOMAIN d.child \subseteq 1 .. (d.next - 1)
  /\ \A i \in DOMAIN d.child : d.child[i].parent \in {0} \cup DOMAIN d.parent

LEMMA RowIs ==
  ASSUME NEW t \in Table, NEW r
  PROVE  r \in RowsOf(t) <=>
           r = [c \in Columns(t) |-> r[c]] /\ \A c \in Columns(t) : r[c] \in Column(c)
<1>1. CASE t = "parent"
  <2>1. r \in ParentRows => r = [c \in {"name", "arn"} |-> r[c]]
                            /\ \A c \in {"name", "arn"} : r[c] \in Column(c)
    BY DEF ParentRows, Column
  <2>2. r = [c \in {"name", "arn"} |-> r[c]] /\ (\A c \in {"name", "arn"} : r[c] \in Column(c))
          => r \in ParentRows
    BY DEF ParentRows, Column
  <2>3. QED  BY <1>1, <2>1, <2>2 DEF RowsOf, Columns
<1>2. CASE t = "child"
  <2>1. r \in ChildRows => r = [c \in {"label", "note", "parent"} |-> r[c]]
                           /\ \A c \in {"label", "note", "parent"} : r[c] \in Column(c)
    BY DEF ChildRows, Column
  <2>2. /\ r = [c \in {"label", "note", "parent"} |-> r[c]]
        /\ \A c \in {"label", "note", "parent"} : r[c] \in Column(c)
        => r \in ChildRows
    BY DEF ChildRows, Column
  <2>3. QED  BY <1>2, <2>1, <2>2 DEF RowsOf, Columns
<1>3. QED  BY <1>1, <1>2 DEF Table

LEMMA TableIs ==
  ASSUME NEW d, IsDb(d), NEW t \in Table
  PROVE  /\ d[t] \in [DOMAIN d[t] -> RowsOf(t)]
         /\ DOMAIN d[t] \subseteq 1 .. (d.next - 1)
  BY DEF IsDb, Table, RowsOf

\* An insertion: the new row gets an id nobody has had.
LEMMA InsertIs ==
  ASSUME NEW d, IsDb(d), NEW t \in Table, NEW r \in RowsOf(t),
         t = "child" => r["parent"] \in {0} \cup DOMAIN d.parent
  PROVE  /\ IsDb(Insert(d, t, r))
         /\ Insert(d, t, r).next = d.next + 1
         /\ DOMAIN Insert(d, t, r)[t] = DOMAIN d[t] \cup {d.next}
         /\ Insert(d, t, r)[t][d.next] = r
         /\ \A u \in Table : \A i \in DOMAIN d[u] :
              i \in DOMAIN Insert(d, t, r)[u] /\ Insert(d, t, r)[u][i] = d[u][i]
<1> DEFINE f == [i \in DOMAIN d[t] \cup {d.next} |-> IF i = d.next THEN r ELSE d[t][i]]
           e == Insert(d, t, r)
<1>1. d.next \notin DOMAIN d[t] /\ d.next \in Nat
  BY TableIs DEF IsDb
<1>2. f \in [DOMAIN d[t] \cup {d.next} -> RowsOf(t)] /\ f[d.next] = r
  BY TableIs
<1>3. \A i \in DOMAIN d[t] : f[i] = d[t][i]  BY <1>1
<1>4. /\ e[t] = f /\ e.next = d.next + 1
      /\ \A u \in Table : u # t => e[u] = d[u]
      /\ DOMAIN e = {"parent", "child", "next"}
  <2>1. DOMAIN d = {"parent", "child", "next"}  BY DEF IsDb
  <2>2. e = [d EXCEPT ![t] = f, !.next = d.next + 1]  BY DEF Insert
  <2> HIDE DEF f, e
  <2>3. QED  BY <2>1, <2>2 DEF Table
<1> HIDE DEF e, f
<1>5. IsDb(e)
  <2>1. CASE t = "parent"
    <3>1. e.parent = f /\ e.child = d.child  BY <1>4, <2>1 DEF Table
    <3>2. QED  BY <1>1, <1>2, <1>4, <2>1, <3>1 DEF IsDb, RowsOf
  <2>2. CASE t = "child"
    <3>1. e.child = f /\ e.parent = d.parent  BY <1>4, <2>2 DEF Table
    <3>2. \A i \in DOMAIN f : f[i]["parent"] \in {0} \cup DOMAIN d.parent
      BY <1>2, <1>3, <2>2 DEF IsDb
    <3>3. QED  BY <1>1, <1>2, <1>4, <2>2, <3>1, <3>2 DEF IsDb, RowsOf
  <2>3. QED  BY <2>1, <2>2 DEF Table
<1>6. QED  BY <1>2, <1>3, <1>4, <1>5 DEF e

\* An update: rows keep their ids, and what it does not give.
LEMMA UpdateIs ==
  ASSUME NEW d, IsDb(d), NEW t \in Table, NEW is, NEW r,
         \A c \in DOMAIN r \cap Columns(t) : r[c] \in Column(c),
         \A i \in is \cap DOMAIN d[t] :
           t = "child" /\ "parent" \in DOMAIN r => r["parent"] \in {0} \cup DOMAIN d.parent
  PROVE  /\ IsDb(Update(d, t, is, r))
         /\ Update(d, t, is, r).next = d.next
         /\ \A u \in Table : DOMAIN Update(d, t, is, r)[u] = DOMAIN d[u]
         /\ \A u \in Table : \A i \in DOMAIN d[u] :
              ~(u = t /\ i \in is) => Update(d, t, is, r)[u][i] = d[u][i]
         /\ r \in RowsOf(t) => \A i \in is \cap DOMAIN d[t] : Update(d, t, is, r)[t][i] = r
<1> DEFINE Row(s) == [c \in DOMAIN s |-> IF c \in DOMAIN r THEN r[c] ELSE s[c]]
           f == [i \in DOMAIN d[t] |-> IF i \in is THEN Row(d[t][i]) ELSE d[t][i]]
           e == Update(d, t, is, r)
<1>1. ASSUME NEW s \in RowsOf(t)
      PROVE  /\ Row(s) \in RowsOf(t)
             /\ r \in RowsOf(t) => Row(s) = r
             /\ t = "child" => Row(s)["parent"] = IF "parent" \in DOMAIN r THEN r["parent"]
                                                  ELSE s["parent"]
  <2>1. s = [c \in Columns(t) |-> s[c]] /\ \A c \in Columns(t) : s[c] \in Column(c)
    BY RowIs
  <2>2. Row(s) = [c \in Columns(t) |-> Row(s)[c]]  BY <2>1
  <2>3. \A c \in Columns(t) : Row(s)[c] \in Column(c)  BY <2>1
  <2>4. r \in RowsOf(t) => r = [c \in Columns(t) |-> r[c]]  BY RowIs
  <2>5. r \in RowsOf(t) => Row(s) = r  BY <2>1, <2>4
  <2>6. t = "child" => "parent" \in DOMAIN s  BY <2>1 DEF Columns
  <2>7. Row(s) \in RowsOf(t)  BY <2>2, <2>3, RowIs
  <2>8. QED  BY <2>5, <2>6, <2>7
<1> HIDE DEF Row
<1>2. d[t] \in [DOMAIN d[t] -> RowsOf(t)]  BY TableIs
<1>3. f \in [DOMAIN d[t] -> RowsOf(t)]  BY <1>1, <1>2
<1>4. \A i \in DOMAIN d[t] : f[i] = IF i \in is THEN Row(d[t][i]) ELSE d[t][i]  OBVIOUS
<1>5. e = [d EXCEPT ![t] = f]  BY DEF Update, Row
<1>6. DOMAIN d = {"parent", "child", "next"}  BY DEF IsDb
<1> HIDE DEF e, f
<1>7. /\ e[t] = f /\ e.next = d.next /\ DOMAIN e = {"parent", "child", "next"}
      /\ \A u \in Table : u # t => e[u] = d[u]
  BY <1>5, <1>6 DEF Table
<1>8. \A u \in Table : DOMAIN e[u] = DOMAIN d[u]  BY <1>3, <1>7
<1>9. \A u \in Table : \A i \in DOMAIN d[u] : ~(u = t /\ i \in is) => e[u][i] = d[u][i]
  BY <1>4, <1>7
<1>10. r \in RowsOf(t) => \A i \in is \cap DOMAIN d[t] : e[t][i] = r
  BY <1>1, <1>2, <1>4, <1>7
<1>11. IsDb(e)
  <2>1. CASE t = "parent"
    <3>1. e.parent = f /\ e.child = d.child  BY <1>7, <2>1 DEF Table
    <3>2. QED  BY <1>3, <1>7, <2>1, <3>1 DEF IsDb, RowsOf
  <2>2. CASE t = "child"
    <3>1. e.child = f /\ e.parent = d.parent  BY <1>7, <2>2 DEF Table
    <3>2. \A i \in DOMAIN f : f[i]["parent"] \in {0} \cup DOMAIN d.parent
      BY <1>1, <1>2, <1>3, <1>4, <2>2 DEF IsDb
    <3>3. QED  BY <1>3, <1>7, <2>2, <3>1, <3>2 DEF IsDb, RowsOf
  <2>3. QED  BY <2>1, <2>2 DEF Table
<1>12. QED  BY <1>7, <1>8, <1>9, <1>10, <1>11 DEF e

\* A deletion that leaves no reference behind.
LEMMA DeleteIs ==
  ASSUME NEW d, IsDb(d), NEW t \in Table, NEW is,
         t = "parent" => ~Referenced(d, is)
  PROVE  /\ IsDb(Delete(d, t, is))
         /\ Delete(d, t, is).next = d.next
         /\ \A u \in Table : \A i \in DOMAIN d[u] :
              ~(u = t /\ i \in is) => /\ i \in DOMAIN Delete(d, t, is)[u]
                                      /\ Delete(d, t, is)[u][i] = d[u][i]
<1> DEFINE f == [i \in DOMAIN d[t] \ is |-> d[t][i]]
           e == Delete(d, t, is)
<1>1. f \in [DOMAIN d[t] \ is -> RowsOf(t)]  BY TableIs
<1>2. \A i \in DOMAIN d[t] \ is : i \in DOMAIN f /\ f[i] = d[t][i]  OBVIOUS
<1>3. e = [d EXCEPT ![t] = f]  BY DEF Delete
<1>4. DOMAIN d = {"parent", "child", "next"}  BY DEF IsDb
<1> HIDE DEF e, f
<1>5. /\ e[t] = f /\ e.next = d.next /\ DOMAIN e = {"parent", "child", "next"}
      /\ \A u \in Table : u # t => e[u] = d[u]
  BY <1>3, <1>4 DEF Table
<1>6. IsDb(e)
  <2>1. CASE t = "parent"
    <3>1. e.parent = f /\ e.child = d.child  BY <1>5, <2>1 DEF Table
    <3>2. \A i \in DOMAIN d.child : d.child[i].parent \in {0} \cup DOMAIN f
      BY <1>1, <2>1 DEF IsDb, Referenced
    <3>3. QED  BY <1>1, <1>5, <2>1, <3>1, <3>2 DEF IsDb, RowsOf
  <2>2. CASE t = "child"
    <3>1. e.child = f /\ e.parent = d.parent  BY <1>5, <2>2 DEF Table
    <3>2. QED  BY <1>1, <1>2, <1>5, <2>2, <3>1 DEF IsDb, RowsOf
  <2>3. QED  BY <2>1, <2>2 DEF Table
<1>7. QED  BY <1>2, <1>5, <1>6 DEF e

LEMMA SoundIs ==
  ASSUME NEW d, IsDb(d)
  PROVE  Sound(d)
<1>1. \A i \in DOMAIN d.child : d.child[i] \in ChildRow(d)
  BY DEF IsDb, ChildRow, ChildRows
<1>2. \A i \in DOMAIN d.parent : d.parent[i].name \in Names /\ d.parent[i].arn \in Nat
  BY DEF IsDb, ParentRows
<1>3. \A t \in Table : \A i \in DOMAIN d[t] : i \in 1 .. (d.next - 1)  BY TableIs
<1>4. QED  BY <1>1, <1>2, <1>3 DEF Sound

-----------------------------------------------------------------------------
(* Changes and queries.                                                    *)

Kinds == {"INSERT", "UPDATE", "DELETE"}

\* A change has the row before, unless it is an insertion, and the row after,
\* unless it is a deletion.
IsChange(e) ==
  /\ e.kind \in Kinds /\ e.table \in Table /\ e.id \in Nat
  /\ IF e.kind = "INSERT" THEN e.original = <<>> ELSE e.original \in RowsOf(e.table)
  /\ IF e.kind = "DELETE" THEN e.change = <<>> ELSE e.change \in RowsOf(e.table)

\* A query sets columns of its table to their values; parents are references.
\* An insertion gives every column that has to be given.
IsQuery(q) ==
  /\ q.kind \in Kinds /\ q.table \in Table
  /\ DOMAIN q.set \subseteq Columns(q.table)
  /\ \A c \in DOMAIN q.set \ {"parent"} : q.set[c] \in Column(c)
  /\ q.kind = "INSERT" => {"name", "label"} \cap Columns(q.table) \subseteq DOMAIN q.set

LEMMA EntriesAre ==
  ASSUME NEW t \in Table, NEW r, r \in RowsOf(t) \/ r = <<>>, NEW logs, NEW subs
  PROVE  /\ DOMAIN Entries(logs, subs, r) \subseteq Columns(t)
         /\ \A c \in DOMAIN Entries(logs, subs, r) \ {"parent"} :
              Entries(logs, subs, r)[c] = r[c] /\ r[c] \in Column(c)
         /\ r \in RowsOf(t) => {"name", "label"} \cap Columns(t) \subseteq DOMAIN Entries(logs, subs, r)
<1> DEFINE q == Entries(logs, subs, r)
<1>1. DOMAIN q = Given(r) /\ \A c \in Given(r) \ {"parent"} : q[c] = r[c]
  BY DEF Entries, augmentValue
<1> HIDE DEF q
<1>2. CASE r = <<>>
  <2>1. Given(r) = {}  BY <1>2 DEF Given
  <2>2. r \notin RowsOf(t)
    <3>1. r \in RowsOf(t) => DOMAIN r = Columns(t)  BY RowIs
    <3>2. DOMAIN r = {} /\ Columns(t) # {}  BY <1>2 DEF Columns
    <3>3. QED  BY <3>1, <3>2
  <2>3. QED  BY <1>1, <2>1, <2>2 DEF q
<1>3. CASE r \in RowsOf(t)
  <2>1. DOMAIN r = Columns(t) /\ \A c \in Columns(t) : r[c] \in Column(c)
    BY <1>3, RowIs
  <2>2. Given(r) \subseteq Columns(t)  BY <2>1 DEF Given
  <2>3. \A c \in {"name", "label"} \cap Columns(t) : r[c] # NULL(c)
    BY <2>1, ReplayAssumption DEF NULL, Column
  <2>4. {"name", "label"} \cap Columns(t) \subseteq Given(r)  BY <2>1, <2>3 DEF Given
  <2>5. QED  BY <1>1, <2>1, <2>2, <2>4 DEF q
<1>4. QED  BY <1>2, <1>3

LEMMA QueryIs ==
  ASSUME NEW e, IsChange(e), NEW inverse \in BOOLEAN, NEW logs, NEW subs
  PROVE  IsQuery(getFormattedQuery(e, inverse, Entries(logs, subs, e.original),
                                   Entries(logs, subs, e.change)))
<1> DEFINE a == Entries(logs, subs, e.original)
           b == Entries(logs, subs, e.change)
           was == IF e.kind = "INSERT" THEN b ELSE a
           now == IF e.kind = "DELETE" THEN a ELSE b
           swap == [INSERT |-> "DELETE", DELETE |-> "INSERT", UPDATE |-> "UPDATE"]
           q == getFormattedQuery(e, inverse, a, b)
<1>1. /\ q.kind = IF inverse THEN swap[e.kind] ELSE e.kind
      /\ q.table = e.table /\ q.set = IF inverse THEN was ELSE now
  BY DEF getFormattedQuery
<1>2. e.kind \in Kinds /\ e.table \in Table  BY DEF IsChange
<1>3. /\ e.original \in RowsOf(e.table) \/ e.original = <<>>
      /\ e.change \in RowsOf(e.table) \/ e.change = <<>>
      /\ e.kind # "INSERT" => e.original \in RowsOf(e.table)
      /\ e.kind # "DELETE" => e.change \in RowsOf(e.table)
  BY DEF IsChange
<1>4. \A f \in {was, now} :
        /\ DOMAIN f \subseteq Columns(e.table)
        /\ \A c \in DOMAIN f \ {"parent"} : f[c] \in Column(c)
        /\ {"name", "label"} \cap Columns(e.table) \subseteq DOMAIN f
  <2>1. /\ DOMAIN a \subseteq Columns(e.table)
        /\ \A c \in DOMAIN a \ {"parent"} : a[c] \in Column(c)
        /\ e.kind # "INSERT" => {"name", "label"} \cap Columns(e.table) \subseteq DOMAIN a
    BY <1>2, <1>3, EntriesAre
  <2>2. /\ DOMAIN b \subseteq Columns(e.table)
        /\ \A c \in DOMAIN b \ {"parent"} : b[c] \in Column(c)
        /\ e.kind # "DELETE" => {"name", "label"} \cap Columns(e.table) \subseteq DOMAIN b
    BY <1>2, <1>3, EntriesAre
  <2> HIDE DEF a, b
  <2>3. QED  BY <1>2, <2>1, <2>2 DEF Kinds
<1>5. q.kind \in Kinds  BY <1>1, <1>2 DEF Kinds
<1> HIDE DEF q, was, now
<1>6. IsQuery(q)  BY <1>1, <1>2, <1>4, <1>5 DEF IsQuery
<1>7. QED  BY <1>6 DEF q

\* A query that PostgreSQL takes.
LEMMA RunQueryIs ==
  ASSUME NEW d, IsDb(d), NEW q, IsQuery(q)
  PROVE  IsDb(RunQuery(d, q))
<1> SUFFICES ASSUME Legible(d, q), Allowed(d, q) PROVE IsDb(Result(d, q))
  BY DEF RunQuery
<1> DEFINE s == Plain(d, q.set)
<1>1. /\ q.table \in Table /\ DOMAIN s = DOMAIN q.set
      /\ \A c \in DOMAIN s \ {"parent"} : s[c] \in Column(c)
  BY DEF Plain, IsQuery
<1>2. \A i \in DOMAIN d.parent : i \in Nat  BY DEF IsDb
<1>3. q.kind # "DELETE" /\ "parent" \in DOMAIN s /\ (q.kind = "INSERT" \/ Matches(d, q) # {})
        => s["parent"] \in {0} \cup DOMAIN d.parent
  BY <1>1 DEF Allowed
<1> HIDE DEF s
<1>4. CASE q.kind = "INSERT"
  <2> DEFINE r == [c \in Columns(q.table) |-> IF c \in DOMAIN q.set THEN s[c] ELSE NULL(c)]
  <2>1. \A c \in Columns(q.table) : r[c] \in Column(c)
    <3>1. ASSUME NEW c \in Columns(q.table), c \in DOMAIN q.set PROVE r[c] \in Column(c)
      <4>1. c = "parent" => s[c] \in Nat  BY <1>1, <1>2, <1>3, <1>4, <3>1
      <4>2. QED  BY <1>1, <3>1, <4>1 DEF Column
    <3>2. ASSUME NEW c \in Columns(q.table), c \notin DOMAIN q.set PROVE r[c] \in Column(c)
      <4>1. c \in {"arn", "note", "parent"}
        BY <1>1, <1>4, <3>2 DEF IsQuery, Columns, Table
      <4>2. QED  BY <3>2, <4>1 DEF NULL, Column
    <3>3. QED  BY <3>1, <3>2
  <2>2. r = [c \in Columns(q.table) |-> r[c]]  OBVIOUS
  <2>3. q.table = "child" => r["parent"] \in {0} \cup DOMAIN d.parent
    BY <1>1, <1>3, <1>4 DEF Columns, NULL
  <2>4. Result(d, q) = Insert(d, q.table, r)  BY <1>4 DEF Result, s
  <2> HIDE DEF r
  <2>5. r \in RowsOf(q.table)  BY <1>1, <2>1, <2>2, RowIs
  <2>6. QED  BY <1>1, <2>3, <2>4, <2>5, InsertIs
<1>5. CASE q.kind = "UPDATE"
  <2>1. Result(d, q) = Update(d, q.table, Matches(d, q), s)  BY <1>5 DEF Result, s
  <2>2. ASSUME NEW c \in DOMAIN s \cap Columns(q.table), Matches(d, q) # {}
        PROVE  s[c] \in Column(c)
    <3>1. c = "parent" => s[c] \in Nat  BY <1>2, <1>3, <1>5, <2>2
    <3>2. QED  BY <1>1, <3>1 DEF Column
  <2>3. CASE Matches(d, q) # {}
    BY <1>1, <1>3, <1>5, <2>1, <2>2, <2>3, UpdateIs
  <2>4. CASE Matches(d, q) = {}
    <3>1. Result(d, q) = Update(d, q.table, {}, <<>>)
      BY <2>1, <2>4 DEF Update
    <3>2. QED  BY <1>1, <3>1, UpdateIs
  <2>5. QED  BY <2>3, <2>4
<1>6. CASE q.kind = "DELETE"
  <2>1. Result(d, q) = Delete(d, q.table, Matches(d, q))  BY <1>6 DEF Result
  <2>2. q.table = "parent" => ~Referenced(d, Matches(d, q))  BY <1>6 DEF Allowed
  <2>3. QED  BY <1>1, <2>1, <2>2, DeleteIs
<1>7. QED  BY <1>4, <1>5, <1>6 DEF IsQuery, Kinds

-----------------------------------------------------------------------------
(* Types.                                                                  *)

Before == ParentRows \cup ChildRows \cup {<<>>}
Changes == {e \in [kind : Kinds, table : Table, id : Nat, original : Before, change : Before,
                   user : {"user", "engine"}] : IsChange(e)}

Phases == {"open", "revert", "since", "transaction", "thrown"}

TypeInv ==
  /\ IsDb(db) /\ IsDb(start) /\ IsDb(copy)
  /\ log \in Seq(Changes) /\ Len(log) <= MaxChanges
  /\ twins \in BOOLEAN /\ resolved \subseteq {"note"} /\ installed \in {Table, {"parent"}}
  /\ phase \in Phases
  /\ DOMAIN queries \subseteq DOMAIN log
  /\ \A k \in DOMAIN queries : IsQuery(queries[k])

\* The log says what was done to the row, and nothing else has changed in it.
Logged(kind, t, id, s) ==
  /\ log' \in Seq(Changes) /\ Len(log') <= MaxChanges
  /\ DOMAIN log' = DOMAIN log \cup {Len(log) + 1} /\ Len(log) + 1 \notin DOMAIN log
  /\ \A k \in DOMAIN log : log'[k] = log[k]
  /\ log'[Len(log) + 1].kind = kind /\ log'[Len(log) + 1].table = t
  /\ log'[Len(log) + 1].id = id /\ log'[Len(log) + 1].change = s

LEMMA LogTyped ==
  ASSUME log \in Seq(Changes), Len(log) < MaxChanges, NEW kind \in Kinds, NEW t \in Table,
         NEW id \in Nat, NEW r, NEW s, NEW u \in {"user", "engine"}, Log(kind, t, id, r, s, u),
         IF kind = "INSERT" THEN r = <<>> ELSE r \in RowsOf(t),
         IF kind = "DELETE" THEN s = <<>> ELSE s \in RowsOf(t)
  PROVE  Logged(kind, t, id, s)
<1> DEFINE e == [kind |-> kind, table |-> t, id |-> id, original |-> r, change |-> s, user |-> u]
<1>1. /\ e.kind = kind /\ e.table = t /\ e.id = id /\ e.original = r /\ e.change = s
      /\ e.user = u
  OBVIOUS
<1>2. IsChange(e)  BY DEF IsChange
<1>3. r \in Before /\ s \in Before  BY DEF Before, RowsOf
<1>4. e \in [kind : Kinds, table : Table, id : Nat, original : Before, change : Before,
             user : {"user", "engine"}]
  BY <1>3
<1>5. log' = Append(log, e)  BY DEF Log
<1> HIDE DEF e
<1>6. e \in Changes  BY <1>2, <1>4 DEF Changes
<1>7. QED  BY <1>1, <1>5, <1>6, ReplayAssumption DEF Logged

LEMMA RowsTyped ==
  ASSUME IsDb(db), NEW t \in Table
  PROVE  /\ \A r \in NewRows(t) : r \in RowsOf(t)
                                 /\ (t = "child" => r["parent"] \in {0} \cup DOMAIN db.parent)
         /\ \A i \in DOMAIN db[t] :
              \A r \in (IF t = "parent" THEN ParentRow(db, {db.parent[i].arn}) ELSE ChildRow(db)) :
                r \in RowsOf(t) /\ (t = "child" => r["parent"] \in {0} \cup DOMAIN db.parent)
<1>1. \A r \in ChildRow(db) : r \in ChildRows /\ r["parent"] \in {0} \cup DOMAIN db.parent
  BY DEF ChildRow, ChildRows, IsDb
<1>2. \A r \in ParentRow(db, {0}) : r \in ParentRows  BY DEF ParentRow, ParentRows
<1>3. ASSUME NEW i \in DOMAIN db.parent, NEW r \in ParentRow(db, {db.parent[i].arn})
      PROVE  r \in ParentRows
  <2>1. db.parent[i].arn \in Nat  BY DEF IsDb, ParentRows
  <2>2. QED  BY <2>1 DEF ParentRow, ParentRows
<1>4. QED  BY <1>1, <1>2, <1>3 DEF NewRows, RowsOf, Table

\* What a statement does: it writes one row, and the log says so.
Wrote(kind, t, id, s) ==
  /\ IsDb(db')
  /\ kind # "DELETE" => id \in DOMAIN db'[t] /\ db'[t][id] = s
  /\ \A u \in Table : \A i \in DOMAIN db[u] :
       ~(u = t /\ i = id) => i \in DOMAIN db'[u] /\ db'[u][i] = db[u][i]

LEMMA ChangeIs ==
  ASSUME TypeInv, UserInserts \/ UserUpdates \/ UserDeletes \/ EngineWrites
  PROVE  /\ phase = "open" /\ Changed
         /\ \E kind \in Kinds, t \in installed, id \in Nat : \E s :
              Wrote(kind, t, id, s) /\ Logged(kind, t, id, s)
<1>1. /\ Open /\ Changed /\ phase = "open" /\ Len(log) < MaxChanges
  BY DEF UserInserts, UserUpdates, UserDeletes, EngineWrites, Open
<1>2. /\ IsDb(db) /\ log \in Seq(Changes) /\ db.next \in Nat
      /\ \A t \in Table : DOMAIN db[t] \subseteq Nat
      /\ installed \subseteq Table /\ "parent" \in installed
  <2>1. IsDb(db)  BY DEF TypeInv
  <2>2. \A t \in Table : DOMAIN db[t] \subseteq 1 .. (db.next - 1)  BY <2>1, TableIs
  <2>3. installed \subseteq Table /\ "parent" \in installed  BY DEF TypeInv, Table
  <2>4. db.next \in Nat  BY <2>1 DEF IsDb
  <2>5. \A t \in Table : DOMAIN db[t] \subseteq Nat  BY <2>2, <2>4
  <2>6. QED  BY <2>1, <2>3, <2>4, <2>5 DEF TypeInv
<1>3. CASE UserInserts
  <2>1. PICK t \in installed : \E r \in NewRows(t) :
          db' = Insert(db, t, r) /\ Log("INSERT", t, db.next, <<>>, r, "user")
    BY <1>2, <1>3 DEF UserInserts
  <2>2. PICK r \in NewRows(t) :
          db' = Insert(db, t, r) /\ Log("INSERT", t, db.next, <<>>, r, "user")
    BY <2>1
  <2>3. r \in RowsOf(t) /\ (t = "child" => r["parent"] \in {0} \cup DOMAIN db.parent)
    BY <1>2, RowsTyped
  <2>4. Wrote("INSERT", t, db.next, r)
    BY <1>2, <2>2, <2>3, InsertIs DEF Wrote
  <2>5. /\ "INSERT" \in Kinds /\ "user" \in {"user", "engine"}
        /\ IF "INSERT" = "INSERT" THEN <<>> = <<>> ELSE <<>> \in RowsOf(t)
        /\ IF "INSERT" = "DELETE" THEN r = <<>> ELSE r \in RowsOf(t)
    BY <2>3 DEF Kinds
  <2>6. Logged("INSERT", t, db.next, r)
    BY <1>1, <1>2, <2>2, <2>5, LogTyped
  <2>7. QED  BY <1>1, <1>2, <2>4, <2>5, <2>6
<1>4. ASSUME NEW t \in Table, NEW i, i \in DOMAIN db[t], NEW r \in RowsOf(t),
             NEW u \in {"user", "engine"},
             t = "child" => r["parent"] \in {0} \cup DOMAIN db.parent,
             db' = Update(db, t, {i}, r), Log("UPDATE", t, i, db[t][i], r, u)
      PROVE  Wrote("UPDATE", t, i, r) /\ Logged("UPDATE", t, i, r)
  <2>1. \A c \in DOMAIN r \cap Columns(t) : r[c] \in Column(c)  BY RowIs
  <2>2. Wrote("UPDATE", t, i, r)
    BY <1>2, <1>4, <2>1, UpdateIs DEF Wrote
  <2>3. db[t][i] \in RowsOf(t) /\ i \in Nat  BY <1>2, <1>4, TableIs
  <2>4. /\ "UPDATE" \in Kinds
        /\ IF "UPDATE" = "INSERT" THEN db[t][i] = <<>> ELSE db[t][i] \in RowsOf(t)
        /\ IF "UPDATE" = "DELETE" THEN r = <<>> ELSE r \in RowsOf(t)
    BY <2>3 DEF Kinds
  <2>5. Logged("UPDATE", t, i, r)
    BY <1>1, <1>2, <1>4, <2>3, <2>4, LogTyped
  <2>6. QED  BY <2>2, <2>5
<1>5. CASE UserUpdates
  <2> DEFINE New(t, i) == IF t = "parent" THEN ParentRow(db, {db.parent[i].arn}) ELSE ChildRow(db)
  <2>1. PICK t \in installed : \E i \in DOMAIN db[t] : \E r \in New(t, i) :
            db' = Update(db, t, {i}, r) /\ Log("UPDATE", t, i, db[t][i], r, "user")
    BY <1>2, <1>5 DEF UserUpdates
  <2>2. PICK i \in DOMAIN db[t] : \E r \in New(t, i) :
            db' = Update(db, t, {i}, r) /\ Log("UPDATE", t, i, db[t][i], r, "user")
    BY <2>1
  <2>3. PICK r \in New(t, i) :
          db' = Update(db, t, {i}, r) /\ Log("UPDATE", t, i, db[t][i], r, "user")
    BY <2>2
  <2>4. r \in RowsOf(t) /\ (t = "child" => r["parent"] \in {0} \cup DOMAIN db.parent)
    BY <1>2, RowsTyped
  <2>5. "UPDATE" \in Kinds /\ i \in Nat /\ t \in Table  BY <1>2 DEF Kinds
  <2>6. Wrote("UPDATE", t, i, r) /\ Logged("UPDATE", t, i, r)
    BY <1>4, <2>3, <2>4, <2>5
  <2>7. QED  BY <1>1, <2>5, <2>6
<1>6. CASE EngineWrites
  <2>1. PICK i \in DOMAIN db.parent : \E r :
          /\ r = [db.parent[i] EXCEPT !.arn = i] /\ db' = Update(db, "parent", {i}, r)
          /\ Log("UPDATE", "parent", i, db.parent[i], r, "engine")
    BY <1>6 DEF EngineWrites
  <2>2. PICK r : /\ r = [db.parent[i] EXCEPT !.arn = i] /\ db' = Update(db, "parent", {i}, r)
                 /\ Log("UPDATE", "parent", i, db.parent[i], r, "engine")
    BY <2>1
  <2>3. i \in Nat /\ "parent" \in Table /\ db["parent"] = db.parent  BY <1>2 DEF Table
  <2>4. r \in RowsOf("parent")
    BY <1>2, <2>2, <2>3 DEF IsDb, ParentRows, RowsOf
  <2>5. "UPDATE" \in Kinds  BY DEF Kinds
  <2>6. Wrote("UPDATE", "parent", i, r) /\ Logged("UPDATE", "parent", i, r)
    BY <1>4, <2>2, <2>3, <2>4
  <2>7. QED  BY <1>1, <1>2, <2>3, <2>5, <2>6
<1>7. CASE UserDeletes
  <2>1. PICK t \in installed : \E i \in DOMAIN db[t] :
          /\ ~(t = "parent" /\ Referenced(db, {i}))
          /\ db' = Delete(db, t, {i}) /\ Log("DELETE", t, i, db[t][i], <<>>, "user")
    BY <1>2, <1>7 DEF UserDeletes
  <2>2. PICK i \in DOMAIN db[t] :
          /\ ~(t = "parent" /\ Referenced(db, {i}))
          /\ db' = Delete(db, t, {i}) /\ Log("DELETE", t, i, db[t][i], <<>>, "user")
    BY <2>1
  <2>3. Wrote("DELETE", t, i, <<>>)
    <3>1. PICK is : is = {i}  OBVIOUS
    <3>2. (t = "parent" => ~Referenced(db, is)) /\ db' = Delete(db, t, is)  BY <2>2, <3>1
    <3>3. /\ IsDb(db')
          /\ \A u \in Table : \A j \in DOMAIN db[u] :
               ~(u = t /\ j \in is) => j \in DOMAIN db'[u] /\ db'[u][j] = db[u][j]
      BY <1>2, <3>2, DeleteIs
    <3>4. QED  BY <3>1, <3>3 DEF Wrote
  <2>4. db[t][i] \in RowsOf(t) /\ i \in Nat  BY <1>2, TableIs
  <2>5. /\ "DELETE" \in Kinds /\ "user" \in {"user", "engine"}
        /\ IF "DELETE" = "INSERT" THEN db[t][i] = <<>> ELSE db[t][i] \in RowsOf(t)
        /\ IF "DELETE" = "DELETE" THEN <<>> = <<>> ELSE <<>> \in RowsOf(t)
    BY <2>4 DEF Kinds
  <2>6. Logged("DELETE", t, i, <<>>)
    BY <1>1, <1>2, <2>2, <2>4, <2>5, LogTyped
  <2>7. QED  BY <1>1, <2>3, <2>4, <2>5, <2>6
<1>8. QED  BY <1>3, <1>5, <1>6, <1>7

LEMMA ElsewhereIs ==
  ASSUME NEW d, IsDb(d)
  PROVE  IsDb(Elsewhere(d))
<1> DEFINE shift == Rows + Rows
           moved(is) == {i + shift : i \in is}
           p == [i \in moved(DOMAIN d.parent) |-> d.parent[i - shift]]
           Moved(r) == [r EXCEPT !.parent = IF @ = 0 THEN 0 ELSE @ + shift]
           c == [i \in moved(DOMAIN d.child) |-> Moved(d.child[i - shift])]
           e == Elsewhere(d)
<1>1. shift \in Nat  BY ReplayAssumption
<1>2. e = [parent |-> p, child |-> c, next |-> d.next + shift]  BY DEF Elsewhere
<1> HIDE DEF e, shift
<1>3. /\ DOMAIN d.parent \subseteq 1 .. (d.next - 1) /\ DOMAIN d.child \subseteq 1 .. (d.next - 1)
      /\ d.next \in Nat \ {0}
  BY DEF IsDb
<1>4. \A is : is \subseteq 1 .. (d.next - 1) =>
        /\ moved(is) \subseteq 1 .. (d.next + shift - 1)
        /\ \A i \in moved(is) : i - shift \in is
  BY <1>1, <1>3
<1>5. p \in [DOMAIN p -> ParentRows] /\ DOMAIN p = moved(DOMAIN d.parent)
  BY <1>3, <1>4 DEF IsDb
<1>6. ASSUME NEW r \in ChildRows
      PROVE  Moved(r) \in ChildRows /\ Moved(r).parent = IF r.parent = 0 THEN 0 ELSE r.parent + shift
  BY <1>1 DEF ChildRows
<1>7. \A i \in DOMAIN d.child : d.child[i] \in ChildRows /\ d.child[i].parent \in {0} \cup DOMAIN d.parent
  BY DEF IsDb
<1> HIDE DEF Moved
<1>8. c \in [DOMAIN c -> ChildRows] /\ DOMAIN c = moved(DOMAIN d.child)
  BY <1>3, <1>4, <1>6, <1>7
<1>9. \A i \in DOMAIN c : c[i].parent \in {0} \cup DOMAIN p
  <2> TAKE i \in DOMAIN c
  <2>1. i - shift \in DOMAIN d.child /\ c[i] = Moved(d.child[i - shift])
    BY <1>3, <1>4, <1>8
  <2>2. d.child[i - shift].parent \in {0} \cup DOMAIN d.parent  BY <1>7, <2>1
  <2>3. c[i].parent = 0 \/ c[i].parent \in moved(DOMAIN d.parent)
    BY <1>6, <1>7, <2>1, <2>2
  <2>4. QED  BY <1>5, <2>3
<1>10. DOMAIN p \subseteq 1 .. (d.next + shift - 1) /\ DOMAIN c \subseteq 1 .. (d.next + shift - 1)
  BY <1>3, <1>4, <1>5, <1>8
<1>11. d.next + shift \in Nat \ {0}  BY <1>1, <1>3
<1> HIDE DEF p, c, moved
<1>12. /\ e.parent = p /\ e.child = c /\ e.next = d.next + shift
       /\ DOMAIN e = {"parent", "child", "next"}
  BY <1>2
<1>13. IsDb(e)
  <2>1. /\ e.next \in Nat \ {0}
        /\ DOMAIN e.parent \subseteq 1 .. (e.next - 1) /\ DOMAIN e.child \subseteq 1 .. (e.next - 1)
    <3>1. PICK n : n = d.next + shift  OBVIOUS
    <3>2. n \in Nat \ {0} /\ DOMAIN p \subseteq 1 .. (n - 1) /\ DOMAIN c \subseteq 1 .. (n - 1)
      BY <1>1, <1>3, <1>10, <1>11, <3>1
    <3>3. e.next = n  BY <1>12, <3>1
    <3>4. e.parent = p  BY <1>12
    <3>5. e.child = c  BY <1>12
    <3>6. QED  BY <3>2, <3>3, <3>4, <3>5
  <2>2. /\ e.parent \in [DOMAIN e.parent -> ParentRows]
        /\ e.child \in [DOMAIN e.child -> ChildRows]
        /\ \A i \in DOMAIN e.child : e.child[i].parent \in {0} \cup DOMAIN e.parent
    BY <1>5, <1>8, <1>9, <1>12
  <2>3. QED  BY <1>12, <2>1, <2>2 DEF IsDb
<1>14. QED  BY <1>13 DEF e

LEMMA TypeInit ==
  ASSUME Init
  PROVE  TypeInv
<1>1. PICK n \in 0 .. Rows : \E p \in [1 .. n -> [name : Names, arn : {0, 1}]] :
        \E c \in UNION {[is -> [label : Labels, note : Notes \cup {"NULL"}, parent : 0 .. n]] :
                          is \in SUBSET ((Rows + 1) .. (2 * Rows))} :
          db = [parent |-> [i \in DOMAIN p |-> [p[i] EXCEPT !.arn = i * @]], child |-> c,
                next |-> 2 * Rows + 1]
  BY DEF Init
<1>2. PICK p \in [1 .. n -> [name : Names, arn : {0, 1}]] :
        \E c \in UNION {[is -> [label : Labels, note : Notes \cup {"NULL"}, parent : 0 .. n]] :
                          is \in SUBSET ((Rows + 1) .. (2 * Rows))} :
          db = [parent |-> [i \in DOMAIN p |-> [p[i] EXCEPT !.arn = i * @]], child |-> c,
                next |-> 2 * Rows + 1]
  BY <1>1
<1>3. PICK is \in SUBSET ((Rows + 1) .. (2 * Rows)) :
        \E c \in [is -> [label : Labels, note : Notes \cup {"NULL"}, parent : 0 .. n]] :
          db = [parent |-> [i \in DOMAIN p |-> [p[i] EXCEPT !.arn = i * @]], child |-> c,
                next |-> 2 * Rows + 1]
  BY <1>2
<1>4. PICK c \in [is -> [label : Labels, note : Notes \cup {"NULL"}, parent : 0 .. n]] :
        db = [parent |-> [i \in DOMAIN p |-> [p[i] EXCEPT !.arn = i * @]], child |-> c,
              next |-> 2 * Rows + 1]
  BY <1>3
<1> DEFINE f == [i \in 1 .. n |-> [p[i] EXCEPT !.arn = i * @]]
<1>5. Rows \in Nat /\ n \in Nat /\ n <= Rows  BY ReplayAssumption
<1>6. \A i \in 1 .. n : i \in Nat /\ p[i] \in [name : Names, arn : {0, 1}]  BY <1>5
<1>7. \A i \in Nat : \A r \in [name : Names, arn : {0, 1}] : [r EXCEPT !.arn = i * @] \in ParentRows
  <2> TAKE i \in Nat
  <2> TAKE r \in [name : Names, arn : {0, 1}]
  <2>1. i * r.arn \in Nat
    <3>1. i * 0 = 0 /\ i * 1 = i  OBVIOUS
    <3>2. r.arn = 0 \/ r.arn = 1  OBVIOUS
    <3>3. QED  BY <3>1, <3>2
  <2>2. QED  BY <2>1 DEF ParentRows
<1>8. f \in [1 .. n -> ParentRows]  BY <1>6, <1>7
<1>9. c \in [is -> ChildRows] /\ \A i \in is : c[i].parent \in {0} \cup 1 .. n
  BY <1>5 DEF ChildRows
<1>10. db = [parent |-> f, child |-> c, next |-> 2 * Rows + 1]
  <2>1. DOMAIN p = 1 .. n  OBVIOUS
  <2>2. QED  BY <1>4, <2>1
<1> HIDE DEF f
<1>11. /\ DOMAIN db = {"parent", "child", "next"}
       /\ db.parent = f /\ db.child = c /\ db.next = 2 * Rows + 1
  BY <1>10
<1>12. IsDb(db)
  <2>1. DOMAIN f = 1 .. n /\ DOMAIN c = is  BY <1>8, <1>9
  <2>2. 2 * Rows + 1 \in Nat \ {0} /\ 1 .. n \subseteq 1 .. (2 * Rows + 1 - 1)
        /\ is \subseteq 1 .. (2 * Rows + 1 - 1)
    BY <1>5
  <2>3. /\ db.next \in Nat \ {0}
        /\ DOMAIN db.parent \subseteq 1 .. (db.next - 1)
        /\ DOMAIN db.child \subseteq 1 .. (db.next - 1)
    <3>1. PICK m : m = 2 * Rows + 1  OBVIOUS
    <3>2. m \in Nat \ {0} /\ DOMAIN f \subseteq 1 .. (m - 1) /\ DOMAIN c \subseteq 1 .. (m - 1)
      BY <1>5, <2>1, <2>2, <3>1
    <3>3. db.next = m  BY <1>11, <3>1
    <3>4. db.parent = f /\ db.child = c  BY <1>11
    <3>6. QED  BY <3>2, <3>3, <3>4
  <2>4. /\ db.parent \in [DOMAIN db.parent -> ParentRows]
        /\ db.child \in [DOMAIN db.child -> ChildRows]
        /\ \A i \in DOMAIN db.child : db.child[i].parent \in {0} \cup DOMAIN db.parent
    BY <1>8, <1>9, <1>11, <2>1
  <2>5. QED  BY <1>11, <2>3, <2>4 DEF IsDb
<1>13. DOMAIN queries = {} /\ log = <<>>  BY DEF Init
<1>14. QED  BY <1>12, <1>13, ReplayAssumption DEF TypeInv, Init, Phases, HasTwins

LEMMA AskTyped ==
  ASSUME TypeInv, NEW logs \in SUBSET DOMAIN log, NEW inverse \in BOOLEAN,
         NEW how \in Phases, Ask(logs, inverse, how)
  PROVE  TypeInv'
<1>1. /\ UNCHANGED <<db, start, log, twins, resolved, installed>>
      /\ \/ phase' = "thrown" /\ UNCHANGED <<queries, copy>>
         \/ /\ phase' = how /\ queries' = recreateQueries(logs, inverse, ~inverse)
            /\ copy' = IF inverse THEN db ELSE Elsewhere(start)
  BY DEF Ask
<1>2. IsDb(copy')  BY <1>1, ElsewhereIs DEF TypeInv
<1>3. ASSUME queries' = recreateQueries(logs, inverse, ~inverse)
      PROVE  DOMAIN queries' = logs /\ \A k \in logs : IsQuery(queries'[k])
  <2>1. \A k \in DOMAIN log : IsChange(log[k])  BY DEF TypeInv, Changes
  <2>2. DOMAIN queries' = logs
        /\ \A k \in logs : queries'[k] =
             getFormattedQuery(log[k], inverse, Entries(logs, ~inverse, log[k].original),
                               Entries(logs, ~inverse, log[k].change))
    BY <1>3 DEF recreateQueries
  <2>3. QED  BY <2>1, <2>2, QueryIs
<1>4. DOMAIN queries' \subseteq DOMAIN log' /\ \A k \in DOMAIN queries' : IsQuery(queries'[k])
  BY <1>1, <1>3 DEF TypeInv
<1>5. phase' \in Phases  BY <1>1 DEF Phases
<1>6. QED  BY <1>1, <1>2, <1>4, <1>5 DEF TypeInv

LEMMA TypeStep ==
  ASSUME TypeInv, [Next]_vars
  PROVE  TypeInv'
<1>1. CASE UserInserts \/ UserUpdates \/ UserDeletes \/ EngineWrites
  <2>1. /\ Changed
        /\ \E kind \in Kinds, t \in installed, id \in Nat : \E s :
              Wrote(kind, t, id, s) /\ Logged(kind, t, id, s)
    BY <1>1, ChangeIs
  <2>2. /\ IsDb(db') /\ log' \in Seq(Changes) /\ Len(log') <= MaxChanges
        /\ DOMAIN log \subseteq DOMAIN log'
    BY <2>1 DEF Wrote, Logged
  <2>3. twins' \in BOOLEAN  BY <2>1 DEF Changed, TypeInv, HasTwins
  <2>4. UNCHANGED <<start, resolved, installed, phase, queries, copy>>  BY <2>1 DEF Changed
  <2>5. QED  BY <2>2, <2>3, <2>4 DEF TypeInv
<1>2. CASE Uninstall
  <2>1. IsDb(db')
    <3>1. IsDb(db) /\ "child" \in Table /\ "child" # "parent"  BY DEF TypeInv, Table
    <3>2. IsDb(Delete(db, "child", DOMAIN db.child))  BY <3>1, DeleteIs
    <3>3. QED  BY <1>2, <3>2 DEF Uninstall
  <2>2. QED  BY <1>2, <2>1 DEF Uninstall, TypeInv
<1>3. CASE Revert
  BY <1>3, AskTyped DEF Revert, getChangeLogsSinceLastBegin, Phases
<1>4. CASE GetSqlSince
  BY <1>4, AskTyped DEF GetSqlSince, getChangeLogs, Phases
<1>5. CASE GetSqlForTransaction
  BY <1>5, AskTyped DEF GetSqlForTransaction, getUserChangeLogsByTransaction, Phases
<1>6. CASE applyInverseQueries
  <2>1. PICK k \in DOMAIN queries :
          /\ copy' = RunQuery(copy, queries[k])
          /\ queries' = [j \in DOMAIN queries \ {k} |-> queries[j]]
    BY <1>6 DEF applyInverseQueries
  <2>2. UNCHANGED <<db, start, log, twins, resolved, installed, phase>>
    BY <1>6 DEF applyInverseQueries
  <2>3. IsDb(copy')  BY <2>1, RunQueryIs DEF TypeInv
  <2>4. DOMAIN queries' \subseteq DOMAIN queries /\ \A j \in DOMAIN queries' : IsQuery(queries'[j])
    BY <2>1 DEF TypeInv
  <2>5. QED  BY <2>2, <2>3, <2>4 DEF TypeInv
<1>7. CASE UNCHANGED vars
  BY <1>7 DEF TypeInv, vars
<1>8. QED  BY <1>1, <1>2, <1>3, <1>4, <1>5, <1>6, <1>7 DEF Next, Over

LEMMA TypeAlways == Spec => []TypeInv
<1>1. Init => TypeInv  BY TypeInit
<1>2. TypeInv /\ [Next]_vars => TypeInv'  BY TypeStep
<1>3. QED  BY <1>1, <1>2, PTL DEF Spec

\* The databases keep their keys: ids are given out once, and a parent that a
\* child has is there, through whatever is changed, reverted and replayed
\* (iasql_audit's tables, applyInverseQueries).
THEOREM DatabasesSound == Spec => []TypeOK
<1>1. TypeInv => TypeOK
  <2> SUFFICES ASSUME TypeInv PROVE TypeOK  OBVIOUS
  <2>1. Sound(db) /\ Sound(start) /\ Sound(copy)  BY SoundIs DEF TypeInv
  <2>2. \A k \in DOMAIN log : log[k] \in Changes  BY DEF TypeInv
  <2>3. \A k \in DOMAIN log : log[k].kind \in Kinds /\ log[k].table \in Table
    BY <2>2 DEF Changes, IsChange
  <2>4. installed \subseteq Table  BY DEF TypeInv, Table
  <2>5. QED  BY <2>1, <2>3, <2>4 DEF TypeInv, TypeOK, Kinds, Phases
<1>2. QED  BY <1>1, TypeAlways, PTL

-----------------------------------------------------------------------------
(* Bystanders.                                                             *)

\* The transaction has not touched the row.
Untouched(t, i) == \A k \in DOMAIN log : log[k].table = t => log[k].id # i
Keeps(d) ==
  \A t \in installed : \A i \in DOMAIN start[t] :
    Untouched(t, i) => i \in DOMAIN d[t] /\ d[t][i] = start[t][i]

\* One row looks like another, and what a query looks for to find a row.
LooksLike(ignored, v, w, t) == \A c \in (Columns(t) \ ignored) \cap Given(v) : w[c] = v[c]
Sought(ignored, v, t) ==
  [c \in Given(v) \cap (Columns(t) \ ignored) |-> IF c = "parent" THEN Raw(v[c]) ELSE v[c]]

\* What rows became did not look like a row that was not touched.
Apart ==
  \A k \in DOMAIN log : log[k].kind # "DELETE" =>
    \A i \in DOMAIN start[log[k].table] :
      Untouched(log[k].table, i) =>
        ~LooksLike(resolved, log[k].change, start[log[k].table][i], log[k].table)

\* An inverse query inserts, or looks for what a row became.
Undoes(k) ==
  \/ queries[k].kind = "INSERT"
  \/ /\ log[k].kind # "DELETE" /\ queries[k].table = log[k].table
     /\ queries[k].where = Sought(resolved, log[k].change, log[k].table)

BystanderInv ==
  /\ Keeps(db)
  /\ ~twins => Apart
  /\ phase = "revert" => (~twins => Keeps(copy)) /\ \A k \in DOMAIN queries : Undoes(k)

LEMMA SoughtIs ==
  ASSUME NEW t, NEW v, NEW logs
  PROVE  Where(t, Entries(logs, FALSE, v)) = Sought(resolved, v, t)
<1> DEFINE a == Entries(logs, FALSE, v)
<1>1. a = [c \in Given(v) |-> IF c = "parent" THEN Raw(v[c]) ELSE v[c]]
  BY DEF Entries, augmentValue
<1> HIDE DEF a
<1>2. Where(t, a) = [c \in DOMAIN a \cap (Columns(t) \ resolved) |-> a[c]]
  BY DEF Where, Compared
<1>3. Where(t, a) = Sought(resolved, v, t)  BY <1>1, <1>2 DEF Sought
<1>4. QED  BY <1>3 DEF a

LEMMA NoMatch ==
  ASSUME NEW d, NEW q, NEW v, NEW ignored, NEW t \in Table, q.table = t,
         q.where = Sought(ignored, v, t),
         NEW i \in DOMAIN d[t], ~LooksLike(ignored, v, d[t][i], t)
  PROVE  i \notin Matches(d, q)
<1>1. PICK c \in (Columns(t) \ ignored) \cap Given(v) : d[t][i][c] # v[c]
  BY DEF LooksLike
<1>2. c \in DOMAIN q.where /\ q.where[c] = IF c = "parent" THEN Raw(v[c]) ELSE v[c]
  BY <1>1 DEF Sought
<1>3. Refers(d, Raw(v[c])) = v[c]  BY DEF Refers, Raw
<1>4. c \in DOMAIN Plain(d, q.where) /\ Plain(d, q.where)[c] = v[c]
  BY <1>2, <1>3 DEF Plain
<1>5. QED  BY <1>1, <1>4 DEF Matches

\* A query touches no row but those it matches.
LEMMA QueryKeeps ==
  ASSUME NEW d, IsDb(d), NEW q, IsQuery(q), NEW t \in Table, NEW i \in DOMAIN d[t],
         q.kind = "INSERT" \/ t # q.table \/ i \notin Matches(d, q)
  PROVE  i \in DOMAIN RunQuery(d, q)[t] /\ RunQuery(d, q)[t][i] = d[t][i]
<1> DEFINE u == q.table
<1>1. /\ u \in Table /\ DOMAIN d = {"parent", "child", "next"} /\ q.kind \in Kinds
      /\ d.next \notin DOMAIN d[u]
  <2>1. u \in Table /\ q.kind \in Kinds  BY DEF IsQuery
  <2>2. DOMAIN d[u] \subseteq 1 .. (d.next - 1) /\ d.next \in Nat  BY <2>1, TableIs DEF IsDb
  <2>3. QED  BY <2>1, <2>2 DEF IsDb
<1>2. CASE q.kind = "INSERT"
  <2>1. PICK r : Result(d, q) = Insert(d, u, r)  BY <1>2 DEF Result
  <2>2. PICK f : f = [j \in DOMAIN d[u] \cup {d.next} |-> IF j = d.next THEN r ELSE d[u][j]]
    OBVIOUS
  <2>3. Result(d, q) = [d EXCEPT ![u] = f, !.next = d.next + 1]  BY <2>1, <2>2 DEF Insert
  <2>4. Result(d, q)[t] = IF t = u THEN f ELSE d[t]
    BY <1>1, <2>3 DEF Table
  <2>5. i \in DOMAIN d[u] => i \in DOMAIN f /\ f[i] = d[u][i]  BY <1>1, <2>2
  <2>6. QED  BY <2>4, <2>5 DEF RunQuery
<1>3. CASE q.kind = "UPDATE"
  <2>1. PICK r, is : is = Matches(d, q) /\ Result(d, q) = Update(d, u, is, r)
    BY <1>3 DEF Result
  <2>2. PICK f : f = [j \in DOMAIN d[u] |->
                       IF j \in is THEN [c \in DOMAIN d[u][j] |->
                                           IF c \in DOMAIN r THEN r[c] ELSE d[u][j][c]]
                       ELSE d[u][j]]
    OBVIOUS
  <2>3. Result(d, q) = [d EXCEPT ![u] = f]  BY <2>1, <2>2 DEF Update
  <2>4. Result(d, q)[t] = IF t = u THEN f ELSE d[t]  BY <1>1, <2>3 DEF Table
  <2>5. i \in DOMAIN d[u] \ is => i \in DOMAIN f /\ f[i] = d[u][i]  BY <2>2
  <2>6. QED  BY <1>3, <2>1, <2>4, <2>5 DEF RunQuery
<1>4. CASE q.kind = "DELETE"
  <2>1. PICK is : is = Matches(d, q) /\ Result(d, q) = Delete(d, u, is)
    BY <1>4 DEF Result
  <2>2. PICK f : f = [j \in DOMAIN d[u] \ is |-> d[u][j]]  OBVIOUS
  <2>3. Result(d, q) = [d EXCEPT ![u] = f]  BY <2>1, <2>2 DEF Delete
  <2>4. Result(d, q)[t] = IF t = u THEN f ELSE d[t]  BY <1>1, <2>3 DEF Table
  <2>5. i \in DOMAIN d[u] \ is => i \in DOMAIN f /\ f[i] = d[u][i]  BY <2>2
  <2>6. QED  BY <1>4, <2>1, <2>4, <2>5 DEF RunQuery
<1>5. QED  BY <1>1, <1>2, <1>3, <1>4 DEF Kinds

\* A statement keeps the rows that are not touched afterwards, and if no row looks
\* like another then what it writes does not look like them.
LEMMA BystanderChange ==
  ASSUME TypeInv, BystanderInv, UserInserts \/ UserUpdates \/ UserDeletes \/ EngineWrites
  PROVE  BystanderInv'
<1>1. /\ phase = "open" /\ Changed
      /\ \E kind \in Kinds, t \in installed, id \in Nat : \E s :
           Wrote(kind, t, id, s) /\ Logged(kind, t, id, s)
  BY ChangeIs
<1>2. PICK kind \in Kinds, t \in installed, id \in Nat : \E s :
        Wrote(kind, t, id, s) /\ Logged(kind, t, id, s)
  BY <1>1
<1>3. PICK s : Wrote(kind, t, id, s) /\ Logged(kind, t, id, s)
  BY <1>2
<1> DEFINE n == Len(log) + 1
<1>4. /\ DOMAIN log' = DOMAIN log \cup {n} /\ n \notin DOMAIN log
      /\ \A k \in DOMAIN log : log'[k] = log[k]
      /\ log'[n].kind = kind /\ log'[n].table = t /\ log'[n].id = id /\ log'[n].change = s
  BY <1>3 DEF Logged
<1> HIDE DEF n
<1>5. /\ UNCHANGED <<start, resolved, installed, phase>> /\ phase # "revert"
      /\ twins' = (twins \/ HasTwins(db'))
  BY <1>1 DEF Changed
<1>6. \A u, i : Untouched(u, i)' => Untouched(u, i) /\ ~(u = t /\ i = id)
  BY <1>4 DEF Untouched
<1>7. installed \subseteq Table  BY DEF TypeInv, Table
<1>8. Keeps(db)'
  <2> SUFFICES ASSUME NEW u \in installed, NEW i \in DOMAIN start[u], Untouched(u, i)'
               PROVE  i \in DOMAIN db'[u] /\ db'[u][i] = start[u][i]
    BY <1>5 DEF Keeps
  <2>1. i \in DOMAIN db[u] /\ db[u][i] = start[u][i]
    BY <1>6 DEF BystanderInv, Keeps
  <2>2. i \in DOMAIN db'[u] /\ db'[u][i] = db[u][i]
    BY <1>3, <1>6, <1>7, <2>1 DEF Wrote
  <2>3. QED  BY <2>1, <2>2
<1>9. ~twins' => Apart'
  <2> SUFFICES ASSUME ~twins' PROVE Apart'  OBVIOUS
  <2>1. ~twins /\ ~HasTwins(db')  BY <1>5
  <2>2. ASSUME NEW k \in DOMAIN log, log[k].kind # "DELETE", NEW u, u = log[k].table,
               NEW i \in DOMAIN start[u], Untouched(u, i)'
        PROVE  ~LooksLike(resolved, log[k].change, start[u][i], u)
    BY <1>6, <2>1, <2>2 DEF BystanderInv, Apart
  <2>3. ASSUME kind # "DELETE", NEW i \in DOMAIN start[t], Untouched(t, i)'
        PROVE  ~LooksLike(resolved, s, start[t][i], t)
    <3>1. id \in DOMAIN db'[t] /\ db'[t][id] = s  BY <1>3, <2>3 DEF Wrote
    <3>2. i \in DOMAIN db'[t] /\ db'[t][i] = start[t][i] /\ i # id
      BY <1>5, <1>6, <1>8, <2>3 DEF Keeps
    <3>3. PICK e : e = db'  OBVIOUS
    <3>4. ~HasTwins(e) /\ t \in Table /\ {id, i} \subseteq DOMAIN e[t] /\ i # id
          /\ e[t][id] = s /\ e[t][i] = start[t][i]
      BY <1>7, <2>1, <3>1, <3>2, <3>3
    <3>5. QED  BY <3>4 DEF HasTwins, Alike, Compared, LooksLike
  <2>4. QED  BY <1>4, <1>5, <2>2, <2>3 DEF Apart
<1>10. QED  BY <1>5, <1>8, <1>9 DEF BystanderInv

LEMMA BystanderRevert ==
  ASSUME TypeInv, BystanderInv, Revert
  PROVE  BystanderInv'
<1>1. /\ UNCHANGED <<db, start, log, twins, resolved, installed>>
      /\ phase' = "thrown" \/ /\ phase' = "revert" /\ copy' = db
                              /\ queries' = recreateQueries(DOMAIN log, TRUE, FALSE)
  BY DEF Revert, Ask, getChangeLogsSinceLastBegin
<1>2. ASSUME queries' = recreateQueries(DOMAIN log, TRUE, FALSE), NEW k \in DOMAIN queries'
      PROVE  Undoes(k)'
  <2>1. k \in DOMAIN log /\ queries'[k] =
          getFormattedQuery(log[k], TRUE, Entries(DOMAIN log, FALSE, log[k].original),
                            Entries(DOMAIN log, FALSE, log[k].change))
    BY <1>2 DEF recreateQueries
  <2>2. /\ queries'[k].table = log[k].table
        /\ log[k].kind = "DELETE" => queries'[k].kind = "INSERT"
        /\ log[k].kind # "DELETE" =>
             queries'[k].where = Where(log[k].table, Entries(DOMAIN log, FALSE, log[k].change))
    <3>1. PICK e, a, b, q :
            /\ e = log[k] /\ q = queries'[k] /\ q = getFormattedQuery(e, TRUE, a, b)
            /\ a = Entries(DOMAIN log, FALSE, e.original)
            /\ b = Entries(DOMAIN log, FALSE, e.change)
      BY <2>1
    <3>2. q = getFormattedQuery(e, TRUE, a, b)  BY <3>1
    <3>3. /\ q.table = e.table
          /\ e.kind = "DELETE" => q.kind = "INSERT"
          /\ e.kind # "DELETE" => q.where = Where(e.table, b)
      <4>1. q.table = e.table  BY <3>2 DEF getFormattedQuery
      <4>2. e.kind = "DELETE" => q.kind = "INSERT"  BY <3>2 DEF getFormattedQuery
      <4>3. ASSUME e.kind # "DELETE" PROVE q.where = Where(e.table, b)
        <5>1. (IF e.kind = "DELETE" THEN a ELSE b) = b  BY <4>3
        <5>2. QED  BY <3>2, <5>1 DEF getFormattedQuery
      <4>4. QED  BY <4>1, <4>2, <4>3
    <3>4. QED  BY <3>1, <3>3
  <2>3. QED  BY <1>1, <2>2, SoughtIs DEF Undoes
<1>3. Keeps(db)' /\ (~twins' => Apart')
  BY <1>1 DEF BystanderInv, Keeps, Apart, Untouched
<1>4. phase' = "revert" => Keeps(copy)'
  BY <1>1, <1>3 DEF Keeps
<1>5. QED  BY <1>1, <1>2, <1>3, <1>4 DEF BystanderInv

LEMMA BystanderQuery ==
  ASSUME TypeInv, BystanderInv, applyInverseQueries
  PROVE  BystanderInv'
<1>1. PICK k \in DOMAIN queries :
        /\ copy' = RunQuery(copy, queries[k])
        /\ queries' = [j \in DOMAIN queries \ {k} |-> queries[j]]
  BY DEF applyInverseQueries
<1>2. UNCHANGED <<db, start, log, twins, resolved, installed, phase>>
  BY DEF applyInverseQueries
<1>3. Keeps(db)' /\ (~twins' => Apart')
  BY <1>2 DEF BystanderInv, Keeps, Apart, Untouched
<1>4. phase = "revert" => \A j \in DOMAIN queries' : Undoes(j)'
  <2> SUFFICES ASSUME phase = "revert", NEW j \in DOMAIN queries' PROVE Undoes(j)'
    OBVIOUS
  <2>1. j \in DOMAIN queries /\ queries'[j] = queries[j]  BY <1>1
  <2>2. Undoes(j)  BY <2>1 DEF BystanderInv
  <2>3. QED  BY <1>2, <2>1, <2>2 DEF Undoes
<1>5. ASSUME phase = "revert", ~twins, NEW t \in installed, NEW i \in DOMAIN start[t],
             Untouched(t, i)
      PROVE  i \in DOMAIN copy'[t] /\ copy'[t][i] = start[t][i]
  <2>1. i \in DOMAIN copy[t] /\ copy[t][i] = start[t][i]
    BY <1>5 DEF BystanderInv, Keeps
  <2>2. IsDb(copy) /\ IsQuery(queries[k]) /\ t \in Table /\ k \in DOMAIN log
    BY DEF TypeInv, Table
  <2>3. Undoes(k) /\ Apart  BY <1>5 DEF BystanderInv
  <2>4. queries[k].kind = "INSERT" \/ t # queries[k].table \/ i \notin Matches(copy, queries[k])
    <3> SUFFICES ASSUME queries[k].kind # "INSERT", t = queries[k].table
                 PROVE  i \notin Matches(copy, queries[k])
      OBVIOUS
    <3>1. /\ log[k].kind # "DELETE" /\ log[k].table = t
          /\ queries[k].where = Sought(resolved, log[k].change, t)
      BY <2>3 DEF Undoes
    <3>2. ~LooksLike(resolved, log[k].change, copy[t][i], t)
      BY <1>5, <2>1, <2>2, <2>3, <3>1 DEF Apart
    <3>3. QED  BY <2>1, <2>2, <3>1, <3>2, NoMatch
  <2>5. i \in DOMAIN RunQuery(copy, queries[k])[t]
        /\ RunQuery(copy, queries[k])[t][i] = copy[t][i]
    BY <2>1, <2>2, <2>4, QueryKeeps
  <2>6. QED  BY <1>1, <2>1, <2>5
<1>6. phase = "revert" /\ ~twins => Keeps(copy)'
  BY <1>2, <1>5 DEF Keeps, Untouched
<1>7. QED  BY <1>2, <1>3, <1>4, <1>6 DEF BystanderInv

LEMMA BystanderStep ==
  ASSUME TypeInv, BystanderInv, [Next]_vars
  PROVE  BystanderInv'
<1>1. CASE UserInserts \/ UserUpdates \/ UserDeletes \/ EngineWrites
  BY <1>1, BystanderChange
<1>2. CASE Uninstall
  <2>1. /\ UNCHANGED <<start, log, twins, resolved, phase>> /\ phase = "open"
        /\ installed' = {"parent"} /\ db' = Delete(db, "child", DOMAIN db.child)
    BY <1>2 DEF Uninstall
  <2>2. db'["parent"] = db["parent"]
    BY <2>1 DEF Delete, TypeInv, IsDb
  <2>3. "parent" \in installed  BY DEF TypeInv, Table
  <2>4. Keeps(db)'
    BY <2>1, <2>2, <2>3 DEF BystanderInv, Keeps, Untouched
  <2>5. ~twins' => Apart'
    BY <2>1 DEF BystanderInv, Apart, Untouched
  <2>6. QED  BY <2>1, <2>4, <2>5 DEF BystanderInv
<1>3. CASE Revert  BY <1>3, BystanderRevert
<1>4. CASE GetSqlSince \/ GetSqlForTransaction
  <2>1. UNCHANGED <<db, start, log, twins, resolved, installed>> /\ phase' # "revert"
    BY <1>4 DEF GetSqlSince, GetSqlForTransaction, Ask
  <2>2. Keeps(db)' /\ (~twins' => Apart')
    BY <2>1 DEF BystanderInv, Keeps, Apart, Untouched
  <2>3. QED  BY <2>1, <2>2 DEF BystanderInv
<1>5. CASE applyInverseQueries  BY <1>5, BystanderQuery
<1>6. CASE UNCHANGED vars
  BY <1>6 DEF vars, BystanderInv, Keeps, Apart, Untouched, Undoes
<1>7. QED  BY <1>1, <1>2, <1>3, <1>4, <1>5, <1>6 DEF Next, Over

\* revert touches no row that the transaction did not touch, as long as rows could
\* be told apart at any time: inverse queries find the rows by what they became
\* (applyInverseQueries, recreateQueries).
THEOREM BystandersSafe == Spec => []BystandersKept
<1>1. Init => BystanderInv
  <2> SUFFICES ASSUME Init PROVE BystanderInv  OBVIOUS
  <2>1. start = db /\ log = <<>> /\ phase = "open"  BY DEF Init
  <2>2. DOMAIN log = {}  BY <2>1
  <2>3. QED  BY <2>1, <2>2 DEF BystanderInv, Keeps, Apart
<1>2. TypeInv /\ BystanderInv /\ [Next]_vars => BystanderInv'
  BY BystanderStep
<1>3. BystanderInv => BystandersKept
  BY DEF BystanderInv, BystandersKept, Ran, Keeps, Untouched
<1>4. QED  BY <1>1, <1>2, <1>3, TypeAlways, PTL DEF Spec

-----------------------------------------------------------------------------
(* What a change does to a database, and the databases of the past.        *)

\* A change of row i of a table, from r to s, makes d to e.
Did(kind, t, i, r, s, d, e) ==
  /\ kind \in Kinds /\ t \in Table
  /\ \A u \in Table \ {t} : e[u] = d[u]
  /\ \A j \in DOMAIN d[t] \ {i} : e[t][j] = d[t][j]
  /\ kind = "INSERT" => i \notin DOMAIN d[t] /\ DOMAIN e[t] = DOMAIN d[t] \cup {i}
  /\ kind = "UPDATE" => i \in DOMAIN d[t] /\ DOMAIN e[t] = DOMAIN d[t]
  /\ kind = "DELETE" => i \in DOMAIN d[t] /\ DOMAIN e[t] = DOMAIN d[t] \ {i}
  /\ kind # "INSERT" => d[t][i] = r
  /\ kind # "DELETE" => e[t][i] = s

Backwards(kind) ==
  CASE kind = "INSERT" -> "DELETE" [] kind = "DELETE" -> "INSERT" [] kind = "UPDATE" -> "UPDATE"

\* A change undone is the change the other way.
LEMMA Undone ==
  ASSUME NEW kind, NEW t, NEW i, NEW r, NEW s, NEW d, NEW e, Did(kind, t, i, r, s, d, e)
  PROVE  Did(Backwards(kind), t, i, s, r, e, d)
<1>1. CASE kind = "INSERT"  BY <1>1 DEF Did, Backwards, Kinds
<1>2. CASE kind = "DELETE"  BY <1>2 DEF Did, Backwards, Kinds
<1>3. CASE kind = "UPDATE"  BY <1>3 DEF Did, Backwards, Kinds
<1>4. QED  BY <1>1, <1>2, <1>3 DEF Did, Kinds

\* The tables after an insertion, an update and a deletion.
LEMMA Inserts ==
  ASSUME NEW d, DOMAIN d = {"parent", "child", "next"}, NEW t \in Table, NEW r
  PROVE  LET e == Insert(d, t, r) IN
         /\ \A u \in Table \ {t} : e[u] = d[u]
         /\ e[t] = [i \in DOMAIN d[t] \cup {d.next} |-> IF i = d.next THEN r ELSE d[t][i]]
         /\ e.next = d.next + 1
<1> DEFINE f == [i \in DOMAIN d[t] \cup {d.next} |-> IF i = d.next THEN r ELSE d[t][i]]
<1>1. Insert(d, t, r) = [d EXCEPT ![t] = f, !.next = d.next + 1]  BY DEF Insert
<1> HIDE DEF f
<1>2. /\ \A u \in Table \ {t} : Insert(d, t, r)[u] = d[u]
      /\ Insert(d, t, r)[t] = f /\ Insert(d, t, r).next = d.next + 1
  BY <1>1 DEF Table
<1>3. QED  BY <1>2 DEF f

LEMMA Updates ==
  ASSUME NEW d, DOMAIN d = {"parent", "child", "next"}, NEW t \in Table, NEW is, NEW r
  PROVE  LET e == Update(d, t, is, r) IN
         /\ \A u \in Table \ {t} : e[u] = d[u]
         /\ DOMAIN e[t] = DOMAIN d[t]
         /\ \A i \in DOMAIN d[t] :
              e[t][i] = IF i \in is THEN [c \in DOMAIN d[t][i] |->
                                            IF c \in DOMAIN r THEN r[c] ELSE d[t][i][c]]
                        ELSE d[t][i]
         /\ e.next = d.next
<1> DEFINE f == [i \in DOMAIN d[t] |->
                   IF i \in is THEN [c \in DOMAIN d[t][i] |->
                                       IF c \in DOMAIN r THEN r[c] ELSE d[t][i][c]]
                   ELSE d[t][i]]
<1>1. Update(d, t, is, r) = [d EXCEPT ![t] = f]  BY DEF Update
<1>2. DOMAIN f = DOMAIN d[t] /\ \A i \in DOMAIN d[t] : f[i] =
        IF i \in is THEN [c \in DOMAIN d[t][i] |-> IF c \in DOMAIN r THEN r[c] ELSE d[t][i][c]]
        ELSE d[t][i]
  OBVIOUS
<1> HIDE DEF f
<1>3. /\ \A u \in Table \ {t} : Update(d, t, is, r)[u] = d[u]
      /\ Update(d, t, is, r)[t] = f /\ Update(d, t, is, r).next = d.next
  BY <1>1 DEF Table
<1>4. QED  BY <1>2, <1>3

LEMMA Deletes ==
  ASSUME NEW d, DOMAIN d = {"parent", "child", "next"}, NEW t \in Table, NEW is
  PROVE  LET e == Delete(d, t, is) IN
         /\ \A u \in Table \ {t} : e[u] = d[u]
         /\ e[t] = [i \in DOMAIN d[t] \ is |-> d[t][i]]
         /\ e.next = d.next
<1> DEFINE f == [i \in DOMAIN d[t] \ is |-> d[t][i]]
<1>1. Delete(d, t, is) = [d EXCEPT ![t] = f]  BY DEF Delete
<1> HIDE DEF f
<1>2. /\ \A u \in Table \ {t} : Delete(d, t, is)[u] = d[u]
      /\ Delete(d, t, is)[t] = f /\ Delete(d, t, is).next = d.next
  BY <1>1 DEF Table
<1>3. QED  BY <1>2 DEF f

\* Who makes which changes: the engine only gives parents their arn, and nobody
\* else does.
Entered(c) ==
  /\ c.user = "engine" =>
       /\ c.kind = "UPDATE" /\ c.table = "parent"
       /\ c.original.arn = 0 /\ c.change.arn = c.id /\ c.change.name = c.original.name
  /\ c.user # "engine" /\ c.table = "parent" =>
       /\ c.kind = "INSERT" => c.change.arn = 0
       /\ c.kind = "UPDATE" => c.change.arn = c.original.arn

Change(c, d, e) == Did(c.kind, c.table, c.id, c.original, c.change, d, e)

\* What a statement of the transaction does to the database and to the log.
Made(c) ==
  /\ c \in Changes /\ Entered(c) /\ c.table \in installed
  /\ log' = Append(log, c)
  /\ IsDb(db') /\ db.next <= db'.next
  /\ Change(c, db, db')
  /\ c.kind = "INSERT" => c.id = db.next

\* An entry of the log has the values of the row as they were and are.
LEMMA Entry ==
  ASSUME NEW kind \in Kinds, NEW t \in Table, NEW id \in Nat, NEW r, NEW s,
         NEW u \in {"user", "engine"}, Log(kind, t, id, r, s, u),
         IF kind = "INSERT" THEN r = <<>> ELSE r \in RowsOf(t),
         IF kind = "DELETE" THEN s = <<>> ELSE s \in RowsOf(t)
  PROVE  \E c \in Changes : /\ log' = Append(log, c)
                            /\ c.kind = kind /\ c.table = t /\ c.id = id
                            /\ c.original = r /\ c.change = s /\ c.user = u
<1> DEFINE e == [kind |-> kind, table |-> t, id |-> id, original |-> r, change |-> s, user |-> u]
<1>1. /\ e.kind = kind /\ e.table = t /\ e.id = id /\ e.original = r /\ e.change = s
      /\ e.user = u
  OBVIOUS
<1>2. IsChange(e)  BY DEF IsChange
<1>3. r \in Before /\ s \in Before  BY DEF Before, RowsOf
<1>4. e \in [kind : Kinds, table : Table, id : Nat, original : Before, change : Before,
             user : {"user", "engine"}]
  BY <1>3
<1>5. log' = Append(log, e)  BY DEF Log
<1> HIDE DEF e
<1>6. e \in Changes  BY <1>2, <1>4 DEF Changes
<1>7. QED  BY <1>1, <1>5, <1>6

-----------------------------------------------------------------------------
(* Databases that differ in their ids.                                     *)

\* Parents have the identifier that belongs to their id, if any.
Known(d) == \A i \in DOMAIN d.parent : d.parent[i].arn \in {0, i}

\* The id that row i of a table has elsewhere is m[t][i].
Ids == [Table -> [Nat -> Nat]]
To(m, p) == IF p = 0 THEN 0 ELSE m["parent"][p]
Sent(m, c, v) == IF c = "parent" THEN To(m, v) ELSE v

\* Row x is row r, with id i here, as it is elsewhere; of agreed parents the
\* identifiers are the same too.
Like(t, i, r, x, m, agreed) ==
  IF t = "parent"
  THEN x.name = r.name /\ x.arn \in {0, i} /\ (i \in agreed => x.arn = r.arn)
  ELSE x.label = r.label /\ x.note = r.note /\ x.parent = To(m, r.parent)

Twin(d, e, m, agreed) ==
  /\ m \in Ids
  /\ \A t \in Table :
       /\ \A i \in DOMAIN d[t] : m[t][i] \in DOMAIN e[t]
       /\ \A x \in DOMAIN e[t] : \E i \in DOMAIN d[t] : m[t][i] = x
       /\ \A i, j \in DOMAIN d[t] : m[t][i] = m[t][j] => i = j
       /\ \A i \in DOMAIN d[t] : Like(t, i, d[t][i], e[t][m[t][i]], m, agreed)

\* The columns of a row as a query gives them.
Gives(f, m, r) ==
  DOMAIN f = Given(r) /\ \A c \in Given(r) : f[c] = Sent(m, c, r[c])
SeeksFor(f, m, r, t) ==
  /\ DOMAIN f = Given(r) \cap Compared(t)
  /\ \A c \in Given(r) \cap Compared(t) : f[c] = Sent(m, c, r[c])

\* A row's columns are those of its table.
LEMMA RowColumns ==
  ASSUME NEW t \in Table, NEW r \in RowsOf(t)
  PROVE  /\ DOMAIN r = Columns(t)
         /\ t = "parent" => r.name \in Names /\ r.arn \in Nat
         /\ t = "child" => r.label \in Labels /\ r.note \in Notes \cup {"NULL"} /\ r.parent \in Nat
<1>1. r = [c \in Columns(t) |-> r[c]] /\ \A c \in Columns(t) : r[c] \in Column(c)
  BY RowIs
<1>2. QED  BY <1>1 DEF RowsOf, ParentRows, ChildRows, Table

\* Values are the same in the other database, but for a parent's id.
LEMMA SentIs ==
  ASSUME NEW d, IsDb(d), NEW e, IsDb(e), NEW m, NEW agreed, Twin(d, e, m, agreed)
  PROVE  /\ \A p \in DOMAIN d.parent : /\ p # 0 /\ To(m, p) = m["parent"][p]
                                       /\ To(m, p) \in DOMAIN e.parent /\ To(m, p) # 0
         /\ \A p, q \in DOMAIN d.parent \cup {0} : To(m, p) = To(m, q) => p = q
<1>1. \A x \in DOMAIN d.parent : x # 0  BY DEF IsDb
<1>2. \A x \in DOMAIN e.parent : x # 0  BY DEF IsDb
<1>3. \A i \in DOMAIN d.parent : m["parent"][i] \in DOMAIN e.parent
  BY DEF Twin, Table
<1>4. \A i, j \in DOMAIN d.parent : m["parent"][i] = m["parent"][j] => i = j
  BY DEF Twin, Table
<1>5. QED  BY <1>1, <1>2, <1>3, <1>4 DEF To

\* Where no row looks like another a query finds the row that it is about, whatever
\* the ids are.
LEMMA Found ==
  ASSUME NEW d, IsDb(d), NEW e, IsDb(e), ~HasTwins(d), Known(d),
         NEW m, NEW agreed, Twin(d, e, m, agreed),
         NEW t \in Table, NEW i \in DOMAIN d[t],
         t = "parent" /\ d[t][i]["arn"] # 0 => i \in agreed,
         NEW q, q.table = t, SeeksFor(Plain(e, q.where), m, d[t][i], t)
  PROVE  Matches(e, q) = {m[t][i]}
<1> DEFINE r == d[t][i]
           w == Plain(e, q.where)
<1>1. Matches(e, q) = {x \in DOMAIN e[t] : \A c \in DOMAIN w : e[t][x][c] = w[c] /\ w[c] # NULL(c)}
  BY DEF Matches
<1>2. DOMAIN w = Given(r) \cap Compared(t) /\ \A c \in DOMAIN w : w[c] = Sent(m, c, r[c])
  BY DEF SeeksFor
<1>3. r \in RowsOf(t)  BY TableIs
<1>4. DOMAIN r = Columns(t)  BY <1>3, RowColumns
<1>5. /\ m[t][i] \in DOMAIN e[t] /\ Like(t, i, r, e[t][m[t][i]], m, agreed)
      /\ \A x \in DOMAIN e[t] : \E j \in DOMAIN d[t] : m[t][j] = x
      /\ \A j \in DOMAIN d[t] : Like(t, j, d[t][j], e[t][m[t][j]], m, agreed)
  BY DEF Twin
<1>6. t = "child" => \A j \in DOMAIN d[t] : d[t][j]["parent"] \in DOMAIN d.parent \cup {0}
  BY DEF IsDb
<1>7. \A c \in Given(r) : r[c] # NULL(c)  BY DEF Given
<1> HIDE DEF w, r
<1>8. ASSUME NEW c \in DOMAIN w
      PROVE  e[t][m[t][i]][c] = w[c] /\ w[c] # NULL(c)
  <2>1. c \in Columns(t) /\ c \in Given(r) /\ w[c] = Sent(m, c, r[c]) /\ r[c] # NULL(c)
    BY <1>2, <1>4, <1>7 DEF Given
  <2>2. CASE t = "parent"
    <3>1. c \in {"name", "arn"}  BY <2>1, <2>2 DEF Columns
    <3>2. c = "arn" => i \in agreed  BY <2>1, <2>2 DEF NULL, r
    <3>3. QED  BY <1>5, <2>1, <2>2, <3>1, <3>2 DEF Like, Sent
  <2>3. CASE t = "child"
    <3>1. c \in {"label", "note", "parent"}  BY <2>1, <2>3 DEF Columns
    <3>2. e[t][m[t][i]][c] = w[c]  BY <1>5, <2>1, <2>3, <3>1 DEF Like, Sent
    <3>3. c = "parent" => w[c] # 0
      <4>1. c = "parent" => r[c] \in DOMAIN d.parent
        BY <1>6, <2>1, <2>3 DEF r, NULL
      <4>2. QED  BY <2>1, <4>1, SentIs DEF Sent
    <3>4. c # "parent" => w[c] = r[c]  BY <2>1 DEF Sent
    <3>5. QED  BY <2>1, <3>2, <3>3, <3>4 DEF NULL
  <2>4. QED  BY <2>2, <2>3 DEF Table
<1>9. ASSUME NEW x \in Matches(e, q)
      PROVE  x = m[t][i]
  <2>1. PICK j \in DOMAIN d[t] : m[t][j] = x  BY <1>1, <1>5
  <2>2. \A c \in DOMAIN w : e[t][x][c] = w[c]  BY <1>1
  <2>3. Like(t, j, d[t][j], e[t][x], m, agreed)  BY <1>5, <2>1
  <2>4. ASSUME j # i PROVE FALSE
    <3>1. PICK c \in Compared(t) \cap Given(r) : d[t][j][c] # r[c]
      BY <2>4 DEF HasTwins, Alike, r
    <3>2. c \in DOMAIN w /\ w[c] = Sent(m, c, r[c]) /\ c \in Columns(t) /\ r[c] # NULL(c)
      BY <1>2, <1>7, <3>1 DEF Compared
    <3>3. e[t][x][c] = Sent(m, c, r[c])  BY <2>2, <3>2
    <3>4. CASE t = "parent"
      <4>1. c \in {"name", "arn"}  BY <3>2, <3>4 DEF Columns
      <4>2. c # "name"  BY <2>3, <3>1, <3>3, <3>4 DEF Like, Sent
      <4>3. c = "arn"  BY <4>1, <4>2
      <4>4. e[t][x]["arn"] = r["arn"] /\ r["arn"] # 0
        BY <3>2, <3>3, <4>3 DEF Sent, NULL
      <4>5. r["arn"] \in {0, i}  BY <3>4 DEF Known, r
      <4>6. e[t][x]["arn"] \in {0, j}  BY <2>3, <3>4 DEF Like
      <4>7. QED  BY <2>4, <4>4, <4>5, <4>6
    <3>5. CASE t = "child"
      <4>1. c \in {"label", "note", "parent"}  BY <3>2, <3>5 DEF Columns
      <4>2. c \notin {"label", "note"}  BY <2>3, <3>1, <3>3, <3>5 DEF Like, Sent
      <4>3. c = "parent"  BY <4>1, <4>2
      <4>4. To(m, d[t][j]["parent"]) = To(m, r["parent"])
        BY <2>3, <3>3, <3>5, <4>3 DEF Like, Sent
      <4>5. r["parent"] \in DOMAIN d.parent \cup {0} /\ d[t][j]["parent"] \in DOMAIN d.parent \cup {0}
        BY <1>6, <3>5 DEF r
      <4>6. d[t][j]["parent"] = r["parent"]  BY <4>4, <4>5, SentIs
      <4>7. QED  BY <3>1, <4>3, <4>6
    <3>6. QED  BY <3>4, <3>5 DEF Table
  <2>5. QED  BY <2>1, <2>4
<1>10. m[t][i] \in Matches(e, q)  BY <1>1, <1>5, <1>8
<1>11. QED  BY <1>9, <1>10

\* The change of row i from r to s is a query elsewhere: what it looks for and what it
\* sets are r and s as they are there.
Was(kind, r, s) == IF kind = "INSERT" THEN s ELSE r
Now(kind, r, s) == IF kind = "DELETE" THEN r ELSE s

Asks(q, e, m, kind, t, r, s) ==
  /\ q.kind = kind /\ q.table = t /\ Legible(e, q)
  /\ Gives(Plain(e, q.set), m, Now(kind, r, s))
  /\ SeeksFor(Plain(e, q.where), m, Was(kind, r, s), t)

\* AWS's identifiers that agree after a change did before, but of the row itself.
Agrees(t, i, r, s, kind, agreed, after) ==
  /\ \A j \in after : ~(t = "parent" /\ j = i) => j \in agreed
  /\ t = "parent" /\ kind = "UPDATE" /\ i \in after /\ s.arn = 0 => i \in agreed /\ r.arn = 0
  /\ t = "parent" /\ kind # "INSERT" /\ r.arn # 0 => i \in agreed

\* A query leaves as NULL what it does not give.
Nulls(kind, r, s) ==
  kind = "UPDATE" => \A c \in Nulled(s, r) : c = "arn"

\* Only a row that is inserted gets an id.
Moves(kind, t, i, m, m2) ==
  \A u \in Table : \A j \in Nat : ~(kind = "INSERT" /\ u = t /\ j = i) => m2[u][j] = m[u][j]

\* A query that is made of values only has no row to look up.
LEMMA PlainIs ==
  ASSUME NEW d, NEW f
  PROVE  DOMAIN Plain(d, f) = DOMAIN f
  BY DEF Plain

\* The parent of a row that is given is there.
LEMMA GivenParent ==
  ASSUME NEW d, IsDb(d), NEW e, IsDb(e), NEW m, NEW agreed, Twin(d, e, m, agreed),
         NEW r, "parent" \in DOMAIN r, r["parent"] \in DOMAIN d.parent \cup {0},
         NEW f, Gives(f, m, r), "parent" \in DOMAIN f
  PROVE  f["parent"] \in DOMAIN e.parent \cup {0}
<1>1. f["parent"] = To(m, r["parent"])  BY DEF Gives, Sent
<1>2. r["parent"] # 0  BY DEF Gives, Given, NULL
<1>3. QED  BY <1>1, <1>2, SentIs

\* An INSERT is the same elsewhere: the other database gives the row another id.
LEMMA TwinInsert ==
  ASSUME NEW d, IsDb(d), NEW e, IsDb(e), NEW m, NEW agreed, Twin(d, e, m, agreed),
         NEW t \in Table, NEW i \in Nat, NEW r, NEW s \in RowsOf(t), NEW d2, IsDb(d2), Known(d2),
         Did("INSERT", t, i, r, s, d, d2),
         NEW q, Asks(q, e, m, "INSERT", t, r, s),
         NEW after, Agrees(t, i, r, s, "INSERT", agreed, after)
  PROVE  \E m2 : Twin(d2, RunQuery(e, q), m2, after) /\ Moves("INSERT", t, i, m, m2)
<1> DEFINE f == Plain(e, q.set)
           x == [c \in Columns(t) |-> IF c \in DOMAIN q.set THEN f[c] ELSE NULL(c)]
           n == e.next
           m2 == [m EXCEPT ![t] = [@ EXCEPT ![i] = n]]
           e2 == Insert(e, t, x)
<1>1. /\ q.kind = "INSERT" /\ q.table = t /\ Legible(e, q) /\ Gives(f, m, s)
      /\ DOMAIN f = DOMAIN q.set
  BY PlainIs DEF Asks, Now
<1>2. DOMAIN s = Columns(t)  BY RowColumns
<1>3. i \notin DOMAIN d[t] /\ DOMAIN d2[t] = DOMAIN d[t] \cup {i} /\ d2[t][i] = s
      /\ (\A u \in Table \ {t} : d2[u] = d[u]) /\ (\A j \in DOMAIN d[t] : d2[t][j] = d[t][j])
  BY DEF Did
<1>4. t = "child" => "parent" \in DOMAIN s /\ s["parent"] \in DOMAIN d.parent \cup {0}
  <2> SUFFICES ASSUME t = "child"
               PROVE  "parent" \in DOMAIN s /\ s["parent"] \in DOMAIN d.parent \cup {0}
    OBVIOUS
  <2>1. d2.parent = d.parent /\ d2.child[i] = s /\ i \in DOMAIN d2.child
    BY <1>3 DEF Table
  <2>2. s["parent"] \in DOMAIN d.parent \cup {0}  BY <2>1 DEF IsDb
  <2>3. QED  BY <1>2, <2>2 DEF Columns
<1>5. t = "parent" => "parent" \notin DOMAIN q.set
  BY <1>1, <1>2 DEF Gives, Given, Columns
<1>6. Allowed(e, q)
  <2> SUFFICES ASSUME "parent" \in DOMAIN q.set PROVE f["parent"] \in DOMAIN e.parent \cup {0}
    BY <1>1 DEF Allowed
  <2>1. t = "child"  BY <1>5 DEF Table
  <2>2. QED  BY <1>1, <1>4, <2>1, GivenParent
<1>7. RunQuery(e, q) = e2
  BY <1>1, <1>6 DEF RunQuery, Result
<1>8. \A c \in Columns(t) : x[c] = Sent(m, c, s[c])
  <2> TAKE c \in Columns(t)
  <2>1. CASE c \in Given(s)
    BY <1>1, <2>1 DEF Gives
  <2>2. CASE c \notin Given(s)
    <3>1. x[c] = NULL(c) /\ s[c] = NULL(c)  BY <1>1, <1>2, <2>2 DEF Gives, Given
    <3>2. QED  BY <3>1 DEF Sent, To, NULL
  <2>3. QED  BY <2>1, <2>2
<1> HIDE DEF f, x
<1>9. /\ \A u \in Table \ {t} : e2[u] = e[u]
      /\ e2[t] = [j \in DOMAIN e[t] \cup {n} |-> IF j = n THEN x ELSE e[t][j]]
  <2>1. DOMAIN e = {"parent", "child", "next"}  BY DEF IsDb
  <2>2. QED  BY <2>1, Inserts
<1>10. n \notin DOMAIN e[t] /\ n \in Nat  BY TableIs DEF IsDb
<1>11. m \in Ids  BY DEF Twin
<1>12. /\ m2 \in Ids /\ m2[t][i] = n
       /\ \A u \in Table : \A j \in Nat : ~(u = t /\ j = i) => m2[u][j] = m[u][j]
  BY <1>10, <1>11 DEF Ids
<1>13. /\ DOMAIN d.parent \subseteq Nat /\ \A u \in Table : DOMAIN d[u] \subseteq Nat
  <2>1. \A u \in Table : DOMAIN d[u] \subseteq 1 .. (d.next - 1)  BY TableIs
  <2>2. d.next \in Nat  BY DEF IsDb
  <2>3. QED  BY <2>1, <2>2 DEF Table
<1> HIDE DEF e2, m2, n
<1>14. \A p \in DOMAIN d.parent \cup {0} : To(m2, p) = To(m, p)
  <2>1. t = "parent" => i \notin DOMAIN d.parent  BY <1>3
  <2>2. QED  BY <1>12, <1>13, <2>1 DEF To, Table
<1>15. \A u \in Table : \A j \in DOMAIN d[u] :
         /\ m2[u][j] = m[u][j] /\ m[u][j] \in DOMAIN e[u]
         /\ m2[u][j] \in DOMAIN e2[u] /\ e2[u][m2[u][j]] = e[u][m[u][j]]
         /\ j \in DOMAIN d2[u] /\ d2[u][j] = d[u][j]
  <2> TAKE u \in Table
  <2> TAKE j \in DOMAIN d[u]
  <2>1. m2[u][j] = m[u][j]  BY <1>3, <1>12, <1>13
  <2>2. m[u][j] \in DOMAIN e[u]  BY DEF Twin
  <2>3. QED  BY <1>3, <1>9, <1>10, <2>1, <2>2
<1>16. ASSUME NEW u \in Table
       PROVE  /\ \A j \in DOMAIN d2[u] : m2[u][j] \in DOMAIN e2[u]
              /\ \A y \in DOMAIN e2[u] : \E j \in DOMAIN d2[u] : m2[u][j] = y
              /\ \A j, k \in DOMAIN d2[u] : m2[u][j] = m2[u][k] => j = k
  <2>1. \A y \in DOMAIN e[u] : \E j \in DOMAIN d[u] : m[u][j] = y  BY DEF Twin
  <2>2. \A j, k \in DOMAIN d[u] : m[u][j] = m[u][k] => j = k  BY DEF Twin
  <2>3. CASE u # t
    <3>1. DOMAIN d2[u] = DOMAIN d[u] /\ DOMAIN e2[u] = DOMAIN e[u]  BY <1>3, <1>9, <2>3
    <3>2. QED  BY <1>15, <2>1, <2>2, <3>1
  <2>4. CASE u = t
    <3>1. DOMAIN d2[u] = DOMAIN d[u] \cup {i} /\ DOMAIN e2[u] = DOMAIN e[u] \cup {n}
      BY <1>3, <1>9, <2>4
    <3>2. m2[u][i] = n /\ n \notin DOMAIN e[u]  BY <1>10, <1>12, <2>4
    <3>3. QED  BY <1>15, <2>1, <2>2, <3>1, <3>2
  <2>5. QED  BY <2>3, <2>4
<1>17. ASSUME NEW u \in Table, NEW j \in DOMAIN d[u]
       PROVE  Like(u, j, d2[u][j], e2[u][m2[u][j]], m2, after)
  <2>1. Like(u, j, d[u][j], e[u][m[u][j]], m, agreed)  BY DEF Twin
  <2>2. u = "parent" /\ j \in after => j \in agreed  BY <1>3 DEF Agrees
  <2>3. u = "child" => d[u][j]["parent"] \in DOMAIN d.parent \cup {0}  BY DEF IsDb
  <2>4. QED  BY <1>14, <1>15, <2>1, <2>2, <2>3 DEF Like, Table
<1>18. Like(t, i, s, x, m2, after)
  <2>1. CASE t = "parent"
    <3>1. x.name = s.name /\ x.arn = s.arn  BY <1>8, <2>1 DEF Columns, Sent
    <3>2. s.arn \in {0, i}  BY <1>3, <2>1 DEF Known
    <3>3. QED  BY <2>1, <3>1, <3>2 DEF Like
  <2>2. CASE t = "child"
    <3>1. x.label = s.label /\ x.note = s.note /\ x.parent = To(m, s.parent)
      BY <1>8, <2>2 DEF Columns, Sent
    <3>2. QED  BY <1>4, <1>14, <2>2, <3>1 DEF Like
  <2>3. QED  BY <2>1, <2>2 DEF Table
<1>19. \A u \in Table : \A j \in DOMAIN d2[u] : Like(u, j, d2[u][j], e2[u][m2[u][j]], m2, after)
  <2> TAKE u \in Table
  <2> TAKE j \in DOMAIN d2[u]
  <2>1. CASE j \in DOMAIN d[u]  BY <1>17, <2>1
  <2>2. CASE j \notin DOMAIN d[u]
    <3>1. u = t /\ j = i  BY <1>3, <2>2
    <3>2. e2[t][n] = x  BY <1>9
    <3>3. QED  BY <1>3, <1>12, <1>18, <3>1, <3>2
  <2>3. QED  BY <2>1, <2>2
<1>20. Twin(d2, e2, m2, after)  BY <1>12, <1>16, <1>19 DEF Twin
<1>21. Moves("INSERT", t, i, m, m2)  BY <1>12 DEF Moves
<1>22. QED  BY <1>7, <1>20, <1>21

\* An UPDATE is the same elsewhere.
LEMMA TwinUpdate ==
  ASSUME NEW d, IsDb(d), NEW e, IsDb(e), ~HasTwins(d), Known(d),
         NEW m, NEW agreed, Twin(d, e, m, agreed),
         NEW t \in Table, NEW i \in Nat, NEW r, NEW s \in RowsOf(t), NEW d2, IsDb(d2), Known(d2),
         Did("UPDATE", t, i, r, s, d, d2),
         NEW q, Asks(q, e, m, "UPDATE", t, r, s), Nulls("UPDATE", r, s),
         NEW after, Agrees(t, i, r, s, "UPDATE", agreed, after)
  PROVE  Twin(d2, RunQuery(e, q), m, after)
<1> DEFINE f == Plain(e, q.set)
           e2 == Update(e, t, {m[t][i]}, f)
           x == e[t][m[t][i]]
           y == [c \in DOMAIN x |-> IF c \in DOMAIN f THEN f[c] ELSE x[c]]
<1>1. /\ q.kind = "UPDATE" /\ q.table = t /\ Legible(e, q) /\ Gives(f, m, s)
      /\ DOMAIN f = DOMAIN q.set /\ SeeksFor(Plain(e, q.where), m, r, t)
  BY PlainIs DEF Asks, Now, Was
<1>2. DOMAIN s = Columns(t)  BY RowColumns
<1>3. i \in DOMAIN d[t] /\ DOMAIN d2[t] = DOMAIN d[t] /\ d[t][i] = r /\ d2[t][i] = s
      /\ (\A u \in Table \ {t} : d2[u] = d[u]) /\ (\A j \in DOMAIN d[t] \ {i} : d2[t][j] = d[t][j])
  BY DEF Did
<1>4. t = "child" => "parent" \in DOMAIN s /\ s["parent"] \in DOMAIN d.parent \cup {0}
  <2> SUFFICES ASSUME t = "child"
               PROVE  "parent" \in DOMAIN s /\ s["parent"] \in DOMAIN d.parent \cup {0}
    OBVIOUS
  <2>1. d2.parent = d.parent /\ d2.child[i] = s /\ i \in DOMAIN d2.child
    BY <1>3 DEF Table
  <2>2. s["parent"] \in DOMAIN d.parent \cup {0}  BY <2>1 DEF IsDb
  <2>3. QED  BY <1>2, <2>2 DEF Columns
<1>5. t = "parent" => "parent" \notin DOMAIN q.set
  BY <1>1, <1>2 DEF Gives, Given, Columns
<1>6. Allowed(e, q)
  <2> SUFFICES ASSUME "parent" \in DOMAIN q.set PROVE f["parent"] \in DOMAIN e.parent \cup {0}
    BY <1>1 DEF Allowed
  <2>1. t = "child"  BY <1>5 DEF Table
  <2>2. QED  BY <1>1, <1>4, <2>1, GivenParent
<1>7. Matches(e, q) = {m[t][i]}
  <2>1. t = "parent" /\ d[t][i]["arn"] # 0 => i \in agreed  BY <1>3 DEF Agrees
  <2>2. SeeksFor(Plain(e, q.where), m, d[t][i], t)  BY <1>1, <1>3
  <2>3. QED  BY <1>1, <1>3, <2>1, <2>2, Found
<1>8. RunQuery(e, q) = e2
  BY <1>1, <1>6, <1>7 DEF RunQuery, Result
<1>9. /\ m[t][i] \in DOMAIN e[t] /\ x \in RowsOf(t) /\ DOMAIN x = Columns(t)
      /\ Like(t, i, r, x, m, agreed)
  <2>1. m[t][i] \in DOMAIN e[t] /\ Like(t, i, r, x, m, agreed)  BY <1>3 DEF Twin
  <2>2. x \in RowsOf(t)  BY <2>1, TableIs
  <2>3. QED  BY <2>1, <2>2, RowColumns
<1>10. r \in RowsOf(t) /\ DOMAIN r = Columns(t)
  <2>1. r \in RowsOf(t)  BY <1>3, TableIs
  <2>2. QED  BY <2>1, RowColumns
<1> HIDE DEF f, x
<1>11. \A c \in Columns(t) : y[c] = IF c \in Given(s) THEN Sent(m, c, s[c]) ELSE x[c]
  BY <1>1, <1>9 DEF Gives
<1>12. \A c \in Columns(t) : c # "arn" => y[c] = IF c \in Given(s) THEN Sent(m, c, s[c])
                                                 ELSE Sent(m, c, r[c])
  BY <1>9, <1>11 DEF Like, Sent, Columns, Table
<1>13. \A c \in Columns(t) : c # "arn" => y[c] = Sent(m, c, s[c])
  <2> SUFFICES ASSUME NEW c \in Columns(t), c # "arn", c \notin Given(s) PROVE r[c] = s[c]
    BY <1>12
  <2>1. s[c] = NULL(c)  BY <1>2 DEF Given
  <2>2. c \notin Nulled(s, r)  BY DEF Nulls
  <2>3. r[c] = NULL(c)  BY <1>2, <1>10, <2>1, <2>2 DEF Nulled
  <2>4. QED  BY <2>1, <2>3
<1> HIDE DEF y
<1>14. Like(t, i, s, y, m, after)
  <2>1. CASE t = "parent"
    <3>1. y.name = s.name  BY <1>13, <2>1 DEF Columns, Sent
    <3>2. s.arn \in {0, i} /\ r.arn \in {0, i}  BY <1>3, <2>1 DEF Known
    <3>3. s.arn # 0 => y.arn = s.arn
      BY <1>2, <1>11, <2>1 DEF Columns, Given, NULL, Sent
    <3>4. s.arn = 0 => y.arn = x.arn
      BY <1>11, <2>1 DEF Columns, Given, NULL
    <3>5. x.arn \in {0, i} /\ (i \in agreed => x.arn = r.arn)  BY <1>9, <2>1 DEF Like
    <3>6. s.arn = 0 /\ i \in after => i \in agreed /\ r.arn = 0  BY <2>1 DEF Agrees
    <3>7. QED  BY <2>1, <3>1, <3>2, <3>3, <3>4, <3>5, <3>6 DEF Like
  <2>2. CASE t = "child"
    BY <1>13, <2>2 DEF Columns, Sent, Like
  <2>3. QED  BY <2>1, <2>2 DEF Table
<1>15. /\ \A u \in Table \ {t} : e2[u] = e[u]
       /\ DOMAIN e2[t] = DOMAIN e[t] /\ e2[t][m[t][i]] = y
       /\ \A j \in DOMAIN e[t] : j # m[t][i] => e2[t][j] = e[t][j]
  <2>1. DOMAIN e = {"parent", "child", "next"}  BY DEF IsDb
  <2>2. PICK is : is = {m[t][i]}  OBVIOUS
  <2>3. /\ \A u \in Table \ {t} : e2[u] = e[u]
        /\ DOMAIN e2[t] = DOMAIN e[t]
        /\ \A j \in DOMAIN e[t] : e2[t][j] = IF j \in is THEN [c \in DOMAIN e[t][j] |->
                                       IF c \in DOMAIN f THEN f[c] ELSE e[t][j][c]] ELSE e[t][j]
    BY <2>1, <2>2, Updates
  <2>4. QED  BY <1>9, <2>2, <2>3 DEF x, y
<1> HIDE DEF e2
<1>16. ASSUME NEW u \in Table
       PROVE  /\ \A j \in DOMAIN d2[u] : m[u][j] \in DOMAIN e2[u]
              /\ \A z \in DOMAIN e2[u] : \E j \in DOMAIN d2[u] : m[u][j] = z
              /\ \A j, k \in DOMAIN d2[u] : m[u][j] = m[u][k] => j = k
  <2>1. DOMAIN d2[u] = DOMAIN d[u] /\ DOMAIN e2[u] = DOMAIN e[u]
    BY <1>3, <1>15
  <2>2. QED  BY <2>1 DEF Twin
<1>17. ASSUME NEW u \in Table, NEW j \in DOMAIN d2[u], ~(u = t /\ j = i)
       PROVE  Like(u, j, d2[u][j], e2[u][m[u][j]], m, after)
  <2>1. j \in DOMAIN d[u] /\ d2[u][j] = d[u][j]  BY <1>3, <1>17
  <2>2. Like(u, j, d[u][j], e[u][m[u][j]], m, agreed)  BY <2>1 DEF Twin
  <2>3. u = "parent" /\ j \in after => j \in agreed  BY <1>17 DEF Agrees
  <2>4. u = t => m[u][j] # m[u][i]  BY <1>3, <1>17, <2>1 DEF Twin
  <2>5. m[u][j] \in DOMAIN e[u]  BY <2>1 DEF Twin
  <2>6. e2[u][m[u][j]] = e[u][m[u][j]]  BY <1>15, <2>4, <2>5
  <2>7. QED  BY <2>1, <2>2, <2>3, <2>6 DEF Like
<1>18. \A u \in Table : \A j \in DOMAIN d2[u] : Like(u, j, d2[u][j], e2[u][m[u][j]], m, after)
  BY <1>3, <1>14, <1>15, <1>17
<1>19. m \in Ids  BY DEF Twin
<1>20. Twin(d2, e2, m, after)  BY <1>16, <1>18, <1>19 DEF Twin
<1>21. QED  BY <1>8, <1>20

\* A DELETE is the same elsewhere.
LEMMA TwinDelete ==
  ASSUME NEW d, IsDb(d), NEW e, IsDb(e), ~HasTwins(d), Known(d),
         NEW m, NEW agreed, Twin(d, e, m, agreed),
         NEW t \in Table, NEW i \in Nat, NEW r, NEW s, NEW d2, IsDb(d2),
         Did("DELETE", t, i, r, s, d, d2),
         NEW q, Asks(q, e, m, "DELETE", t, r, s),
         NEW after, Agrees(t, i, r, s, "DELETE", agreed, after)
  PROVE  Twin(d2, RunQuery(e, q), m, after)
<1> DEFINE e2 == Delete(e, t, {m[t][i]})
<1>1. /\ q.kind = "DELETE" /\ q.table = t /\ Legible(e, q)
      /\ SeeksFor(Plain(e, q.where), m, r, t)
  BY DEF Asks, Was
<1>2. i \in DOMAIN d[t] /\ DOMAIN d2[t] = DOMAIN d[t] \ {i} /\ d[t][i] = r
      /\ (\A u \in Table \ {t} : d2[u] = d[u]) /\ (\A j \in DOMAIN d[t] \ {i} : d2[t][j] = d[t][j])
  BY DEF Did
<1>3. Matches(e, q) = {m[t][i]}
  <2>1. t = "parent" /\ d[t][i]["arn"] # 0 => i \in agreed  BY <1>2 DEF Agrees
  <2>2. SeeksFor(Plain(e, q.where), m, d[t][i], t)  BY <1>1, <1>2
  <2>3. QED  BY <1>1, <1>2, <2>1, <2>2, Found
<1>4. t = "parent" => ~Referenced(e, {m[t][i]})
  <2> SUFFICES ASSUME t = "parent", NEW x \in DOMAIN e.child, e.child[x].parent = m[t][i]
               PROVE  FALSE
    BY DEF Referenced
  <2>1. "child" \in Table  BY DEF Table
  <2>2. PICK j \in DOMAIN d["child"] : m["child"][j] = x  BY <2>1 DEF Twin
  <2>3. Like("child", j, d["child"][j], e["child"][x], m, agreed)  BY <2>1, <2>2 DEF Twin
  <2>4. To(m, d.child[j].parent) = m["parent"][i]  BY <2>3 DEF Like
  <2>5. d2.child = d.child /\ i \notin DOMAIN d2.parent /\ i # 0 /\ i \in DOMAIN d.parent
    BY <1>2, SentIs DEF Table
  <2>6. d.child[j].parent \in DOMAIN d2.parent \cup {0}  BY <2>2, <2>5 DEF IsDb
  <2>7. d.child[j].parent \in DOMAIN d.parent \cup {0}  BY <2>2 DEF IsDb
  <2>8. To(m, i) = m["parent"][i]  BY <2>5, SentIs
  <2>9. d.child[j].parent = i  BY <2>4, <2>5, <2>7, <2>8, SentIs
  <2>10. QED  BY <2>5, <2>6, <2>9
<1>5. Allowed(e, q)  BY <1>1, <1>3, <1>4 DEF Allowed, Table
<1>6. RunQuery(e, q) = e2
  BY <1>1, <1>3, <1>5 DEF RunQuery, Result
<1>7. /\ \A u \in Table \ {t} : e2[u] = e[u]
      /\ DOMAIN e2[t] = DOMAIN e[t] \ {m[t][i]}
      /\ \A j \in DOMAIN e[t] : j # m[t][i] => e2[t][j] = e[t][j]
  <2>1. DOMAIN e = {"parent", "child", "next"}  BY DEF IsDb
  <2>2. /\ \A u \in Table \ {t} : e2[u] = e[u]
        /\ e2[t] = [j \in DOMAIN e[t] \ {m[t][i]} |-> e[t][j]]
    BY <2>1, Deletes
  <2>3. QED  BY <2>2
<1> HIDE DEF e2
<1>8. \A u \in Table : \A j \in DOMAIN d2[u] :
        /\ j \in DOMAIN d[u] /\ d2[u][j] = d[u][j]
        /\ u = t => m[u][j] # m[u][i]
  BY <1>2 DEF Twin
<1>9. ASSUME NEW u \in Table
      PROVE  /\ \A j \in DOMAIN d2[u] : m[u][j] \in DOMAIN e2[u]
             /\ \A z \in DOMAIN e2[u] : \E j \in DOMAIN d2[u] : m[u][j] = z
             /\ \A j, k \in DOMAIN d2[u] : m[u][j] = m[u][k] => j = k
  <2>1. /\ \A j \in DOMAIN d[u] : m[u][j] \in DOMAIN e[u]
        /\ \A z \in DOMAIN e[u] : \E j \in DOMAIN d[u] : m[u][j] = z
        /\ \A j, k \in DOMAIN d[u] : m[u][j] = m[u][k] => j = k
    BY DEF Twin
  <2>2. CASE u # t
    <3>1. DOMAIN d2[u] = DOMAIN d[u] /\ DOMAIN e2[u] = DOMAIN e[u]  BY <1>2, <1>7, <2>2
    <3>2. QED  BY <2>1, <3>1
  <2>3. CASE u = t
    <3>1. DOMAIN d2[u] = DOMAIN d[u] \ {i} /\ DOMAIN e2[u] = DOMAIN e[u] \ {m[u][i]}
      BY <1>2, <1>7, <2>3
    <3>2. QED  BY <1>2, <2>1, <2>3, <3>1
  <2>4. QED  BY <2>2, <2>3
<1>10. ASSUME NEW u \in Table, NEW j \in DOMAIN d2[u]
       PROVE  Like(u, j, d2[u][j], e2[u][m[u][j]], m, after)
  <2>1. j \in DOMAIN d[u] /\ d2[u][j] = d[u][j] /\ (u = t => m[u][j] # m[u][i])  BY <1>8
  <2>2. Like(u, j, d[u][j], e[u][m[u][j]], m, agreed)  BY <2>1 DEF Twin
  <2>3. u = "parent" /\ j \in after => j \in agreed  BY <1>2 DEF Agrees
  <2>4. m[u][j] \in DOMAIN e[u]  BY <2>1 DEF Twin
  <2>5. e2[u][m[u][j]] = e[u][m[u][j]]  BY <1>7, <2>1, <2>4
  <2>6. QED  BY <2>1, <2>2, <2>3, <2>5 DEF Like
<1>11. m \in Ids  BY DEF Twin
<1>12. Twin(d2, e2, m, after)  BY <1>9, <1>10, <1>11 DEF Twin
<1>13. QED  BY <1>6, <1>12

\* A change is the same elsewhere, where rows have other ids.
LEMMA TwinQuery ==
  ASSUME NEW d, IsDb(d), NEW e, IsDb(e), ~HasTwins(d), Known(d),
         NEW m, NEW agreed, Twin(d, e, m, agreed),
         NEW kind \in Kinds, NEW t \in Table, NEW i \in Nat, NEW r, NEW s,
         kind # "DELETE" => s \in RowsOf(t), NEW d2, IsDb(d2), Known(d2),
         Did(kind, t, i, r, s, d, d2),
         NEW q, Asks(q, e, m, kind, t, r, s), Nulls(kind, r, s),
         NEW after, Agrees(t, i, r, s, kind, agreed, after)
  PROVE  \E m2 : Twin(d2, RunQuery(e, q), m2, after) /\ Moves(kind, t, i, m, m2)
<1>1. CASE kind = "INSERT"
  <2>1. /\ Did("INSERT", t, i, r, s, d, d2) /\ Asks(q, e, m, "INSERT", t, r, s)
        /\ Agrees(t, i, r, s, "INSERT", agreed, after) /\ s \in RowsOf(t)
    BY <1>1
  <2>2. \E m2 : Twin(d2, RunQuery(e, q), m2, after) /\ Moves("INSERT", t, i, m, m2)
    BY <2>1, TwinInsert
  <2>3. QED  BY <1>1, <2>2
<1>2. CASE kind = "UPDATE"
  <2>1. Twin(d2, RunQuery(e, q), m, after)  BY <1>2, TwinUpdate
  <2>2. QED  BY <2>1 DEF Moves
<1>3. CASE kind = "DELETE"
  <2>1. Twin(d2, RunQuery(e, q), m, after)  BY <1>3, TwinDelete
  <2>2. QED  BY <2>1 DEF Moves
<1>4. QED  BY <1>1, <1>2, <1>3 DEF Kinds

\* Sets whose elements correspond one to one are counted alike.
LEMMA SameCount ==
  ASSUME NEW S, IsFiniteSet(S), NEW T, NEW f,
         \A i \in S : f[i] \in T, \A x \in T : \E i \in S : f[i] = x,
         \A i, j \in S : f[i] = f[j] => i = j
  PROVE  Cardinality(S) = Cardinality(T)
<1> DEFINE g == [i \in S |-> f[i]]
<1>1. g \in Bijection(S, T)
  BY DEF Bijection, Injection, Surjection, IsInjective
<1>2. QED  BY <1>1, FS_Bijection DEF ExistsBijection

Counts(v, S) == [x \in {v[i] : i \in S} |-> Cardinality({i \in S : v[i] = x})]

\* Two ways of naming the same rows count the same contents.
LEMMA SameCounts ==
  ASSUME NEW S, IsFiniteSet(S), NEW T, NEW f,
         \A i \in S : f[i] \in T, \A x \in T : \E i \in S : f[i] = x,
         \A i, j \in S : f[i] = f[j] => i = j,
         NEW v, NEW w, \A i \in S : v[i] = w[f[i]]
  PROVE  Counts(v, S) = Counts(w, T)
<1>1. {v[i] : i \in S} = {w[i] : i \in T}  OBVIOUS
<1>2. ASSUME NEW x
      PROVE  Cardinality({i \in S : v[i] = x}) = Cardinality({i \in T : w[i] = x})
  <2> DEFINE A == {i \in S : v[i] = x}
             B == {i \in T : w[i] = x}
  <2>1. IsFiniteSet(A)  BY FS_Subset
  <2>2. /\ \A i \in A : f[i] \in B
        /\ \A y \in B : \E i \in A : f[i] = y
        /\ \A i, j \in A : f[i] = f[j] => i = j
    OBVIOUS
  <2> HIDE DEF A, B
  <2>3. Cardinality(A) = Cardinality(B)  BY <2>1, <2>2, SameCount
  <2>4. QED  BY <2>3 DEF A, B
<1>3. QED  BY <1>1, <1>2 DEF Counts

\* A table has finitely many rows.
LEMMA RowsFinite ==
  ASSUME NEW d, IsDb(d), NEW t \in Table
  PROVE  IsFiniteSet(DOMAIN d[t])
<1>1. DOMAIN d[t] \subseteq 1 .. (d.next - 1) /\ d.next - 1 \in Int /\ 1 \in Int
  BY TableIs DEF IsDb
<1>2. IsFiniteSet(1 .. (d.next - 1))  BY <1>1, FS_Interval
<1>3. QED  BY <1>1, <1>2, FS_Subset

\* Databases that differ in their ids have the same contents.
LEMMA TwinContents ==
  ASSUME NEW d, IsDb(d), NEW e, IsDb(e), NEW m, NEW agreed, Twin(d, e, m, agreed),
         NEW arns \in BOOLEAN, arns => DOMAIN d.parent \subseteq agreed
  PROVE  Contents(d, arns) = Contents(e, arns)
<1> DEFINE Ps(x) == [i \in DOMAIN x.parent |-> Parent(x, i, arns)]
           Cs(x) == [i \in DOMAIN x.child |-> Child(x, i, arns)]
<1>1. "parent" \in Table /\ "child" \in Table  BY DEF Table
<1>2. \A x : Contents(x, arns) = <<Counts(Ps(x), DOMAIN x.parent), Counts(Cs(x), DOMAIN x.child)>>
  BY DEF Contents, Counts
<1>3. \A i \in DOMAIN d.parent : Parent(d, i, arns) = Parent(e, To(m, i), arns)
  <2> TAKE i \in DOMAIN d.parent
  <2>1. Like("parent", i, d.parent[i], e.parent[m["parent"][i]], m, agreed)
    BY <1>1 DEF Twin
  <2>2. i # 0 /\ To(m, i) = m["parent"][i] /\ To(m, i) # 0  BY SentIs
  <2>3. /\ e.parent[To(m, i)].name = d.parent[i].name
        /\ arns => e.parent[To(m, i)].arn = d.parent[i].arn
    BY <2>1, <2>2 DEF Like
  <2>4. QED  BY <2>2, <2>3 DEF Parent
<1>4. \A i \in DOMAIN d.child : Child(d, i, arns) = Child(e, m["child"][i], arns)
  <2> TAKE i \in DOMAIN d.child
  <2>1. Like("child", i, d.child[i], e.child[m["child"][i]], m, agreed)
    BY <1>1 DEF Twin
  <2>2. d.child[i].parent \in DOMAIN d.parent \cup {0}  BY DEF IsDb
  <2>3. Parent(d, d.child[i].parent, arns) = Parent(e, To(m, d.child[i].parent), arns)
    <3>1. CASE d.child[i].parent = 0  BY <3>1 DEF To, Parent
    <3>2. CASE d.child[i].parent # 0  BY <1>3, <2>2, <3>2
    <3>3. QED  BY <3>1, <3>2
  <2>4. QED  BY <2>1, <2>3 DEF Like, Child
<1>5. Counts(Ps(d), DOMAIN d.parent) = Counts(Ps(e), DOMAIN e.parent)
  <2>1. /\ \A i \in DOMAIN d.parent : m["parent"][i] \in DOMAIN e.parent
        /\ \A x \in DOMAIN e.parent : \E i \in DOMAIN d.parent : m["parent"][i] = x
        /\ \A i, j \in DOMAIN d.parent : m["parent"][i] = m["parent"][j] => i = j
    BY <1>1 DEF Twin
  <2>2. \A i \in DOMAIN d.parent : Ps(d)[i] = Ps(e)[m["parent"][i]]
    BY <1>3, <2>1, SentIs
  <2>3. IsFiniteSet(DOMAIN d.parent)  BY <1>1, RowsFinite
  <2> DEFINE v == Ps(d)
             w == Ps(e)
             f == m["parent"]
             S == DOMAIN d.parent
             T == DOMAIN e.parent
  <2>4. /\ \A i \in S : v[i] = w[f[i]]
        /\ \A i \in S : f[i] \in T
        /\ \A x \in T : \E i \in S : f[i] = x
        /\ \A i, j \in S : f[i] = f[j] => i = j
        /\ IsFiniteSet(S)
    BY <2>1, <2>2, <2>3
  <2> HIDE DEF v, w, f, S, T
  <2>5. Counts(v, S) = Counts(w, T)
    BY <2>4, SameCounts
  <2>6. QED  BY <2>5 DEF v, w, S, T
<1>6. Counts(Cs(d), DOMAIN d.child) = Counts(Cs(e), DOMAIN e.child)
  <2>1. /\ \A i \in DOMAIN d.child : m["child"][i] \in DOMAIN e.child
        /\ \A x \in DOMAIN e.child : \E i \in DOMAIN d.child : m["child"][i] = x
        /\ \A i, j \in DOMAIN d.child : m["child"][i] = m["child"][j] => i = j
    BY <1>1 DEF Twin
  <2>2. \A i \in DOMAIN d.child : Cs(d)[i] = Cs(e)[m["child"][i]]
    BY <1>4, <2>1
  <2>3. IsFiniteSet(DOMAIN d.child)  BY <1>1, RowsFinite
  <2> DEFINE v == Cs(d)
             w == Cs(e)
             f == m["child"]
             S == DOMAIN d.child
             T == DOMAIN e.child
  <2>4. /\ \A i \in S : v[i] = w[f[i]]
        /\ \A i \in S : f[i] \in T
        /\ \A x \in T : \E i \in S : f[i] = x
        /\ \A i, j \in S : f[i] = f[j] => i = j
        /\ IsFiniteSet(S)
    BY <2>1, <2>2, <2>3
  <2> HIDE DEF v, w, f, S, T
  <2>5. Counts(v, S) = Counts(w, T)
    BY <2>4, SameCounts
  <2>6. QED  BY <2>5 DEF v, w, S, T
<1>7. QED  BY <1>2, <1>5, <1>6

\* A statement is a change of one row, and the log has it.
LEMMA MadeIs ==
  ASSUME TypeInv, UserInserts \/ UserUpdates \/ UserDeletes \/ EngineWrites
  PROVE  phase = "open" /\ Changed /\ \E c : Made(c)
<1>1. Changed /\ phase = "open"
  BY DEF UserInserts, UserUpdates, UserDeletes, EngineWrites, Open
<1>2. /\ IsDb(db) /\ db.next \in Nat /\ DOMAIN db = {"parent", "child", "next"}
      /\ \A t \in Table : DOMAIN db[t] \subseteq Nat /\ db.next \notin DOMAIN db[t]
      /\ installed \subseteq Table /\ "parent" \in installed
  <2>1. IsDb(db)  BY DEF TypeInv
  <2>2. \A t \in Table : DOMAIN db[t] \subseteq 1 .. (db.next - 1)  BY <2>1, TableIs
  <2>3. installed \subseteq Table /\ "parent" \in installed  BY DEF TypeInv, Table
  <2>4. db.next \in Nat /\ DOMAIN db = {"parent", "child", "next"}  BY <2>1 DEF IsDb
  <2>5. \A t \in Table : DOMAIN db[t] \subseteq Nat /\ db.next \notin DOMAIN db[t]
    BY <2>2, <2>4
  <2>6. QED  BY <2>1, <2>3, <2>4, <2>5
<1>3. CASE UserInserts
  <2>1. PICK t \in installed : \E r \in NewRows(t) :
          db' = Insert(db, t, r) /\ Log("INSERT", t, db.next, <<>>, r, "user")
    BY <1>2, <1>3 DEF UserInserts
  <2>2. PICK r \in NewRows(t) :
          db' = Insert(db, t, r) /\ Log("INSERT", t, db.next, <<>>, r, "user")
    BY <2>1
  <2>3. t \in Table /\ r \in RowsOf(t) /\ (t = "child" => r["parent"] \in {0} \cup DOMAIN db.parent)
    BY <1>2, RowsTyped
  <2>4. /\ "INSERT" \in Kinds /\ "user" \in {"user", "engine"}
        /\ IF "INSERT" = "INSERT" THEN <<>> = <<>> ELSE <<>> \in RowsOf(t)
        /\ IF "INSERT" = "DELETE" THEN r = <<>> ELSE r \in RowsOf(t)
    BY <2>3 DEF Kinds
  <2>5. PICK c \in Changes :
          /\ log' = Append(log, c)
          /\ c.kind = "INSERT" /\ c.table = t /\ c.id = db.next
          /\ c.original = <<>> /\ c.change = r /\ c.user = "user"
    BY <1>2, <2>2, <2>3, <2>4, Entry
  <2>6. PICK e : e = db'  OBVIOUS
  <2>7. IsDb(e) /\ e.next = db.next + 1  BY <1>2, <2>2, <2>3, <2>6, InsertIs
  <2>8. /\ \A u \in Table \ {t} : e[u] = db[u]
        /\ e[t] = [i \in DOMAIN db[t] \cup {db.next} |-> IF i = db.next THEN r ELSE db[t][i]]
    <3>1. e = Insert(db, t, r)  BY <2>2, <2>6
    <3>2. /\ \A u \in Table \ {t} : Insert(db, t, r)[u] = db[u]
          /\ Insert(db, t, r)[t]
               = [i \in DOMAIN db[t] \cup {db.next} |-> IF i = db.next THEN r ELSE db[t][i]]
      BY <1>2, <2>3, Inserts
    <3>3. QED  BY <3>1, <3>2
  <2>9. Did("INSERT", t, db.next, <<>>, r, db, e)
    BY <1>2, <2>3, <2>8 DEF Did, Kinds
  <2>10. Change(c, db, e)  BY <2>5, <2>9 DEF Change
  <2>11. Entered(c)
    <3>1. t = "parent" => r.arn = 0  BY DEF NewRows, ParentRow
    <3>2. QED  BY <2>5, <3>1 DEF Entered
  <2>12. Made(c)  BY <1>2, <2>5, <2>6, <2>7, <2>10, <2>11 DEF Made
  <2>13. QED  BY <1>1, <2>12
<1>4. ASSUME NEW t \in installed, NEW i, i \in DOMAIN db[t], NEW r \in RowsOf(t),
             NEW u \in {"user", "engine"},
             t = "child" => r["parent"] \in {0} \cup DOMAIN db.parent,
             db' = Update(db, t, {i}, r), Log("UPDATE", t, i, db[t][i], r, u),
             u = "engine" => t = "parent" /\ db[t][i]["arn"] = 0 /\ r.arn = i
                             /\ r.name = db[t][i]["name"],
             u = "user" /\ t = "parent" => r.arn = db[t][i]["arn"]
      PROVE  \E c : Made(c)
  <2>1. /\ t \in Table /\ i \in Nat /\ db[t][i] \in RowsOf(t)
    BY <1>2, <1>4, TableIs
  <2>2. /\ "UPDATE" \in Kinds
        /\ IF "UPDATE" = "INSERT" THEN db[t][i] = <<>> ELSE db[t][i] \in RowsOf(t)
        /\ IF "UPDATE" = "DELETE" THEN r = <<>> ELSE r \in RowsOf(t)
    BY <2>1 DEF Kinds
  <2>3. PICK s : s = db[t][i]  OBVIOUS
  <2>4. PICK c \in Changes :
          /\ log' = Append(log, c)
          /\ c.kind = "UPDATE" /\ c.table = t /\ c.id = i
          /\ c.original = s /\ c.change = r /\ c.user = u
    BY <1>4, <2>1, <2>2, <2>3, Entry
  <2>5. PICK e : e = db'  OBVIOUS
  <2>6. PICK is : is = {i}  OBVIOUS
  <2>7. \A c1 \in DOMAIN r \cap Columns(t) : r[c1] \in Column(c1)  BY <2>1, RowIs
  <2>8. IsDb(e) /\ e.next = db.next  BY <1>2, <1>4, <2>1, <2>5, <2>6, <2>7, UpdateIs
  <2>9. /\ \A v \in Table \ {t} : e[v] = db[v]
        /\ DOMAIN e[t] = DOMAIN db[t]
        /\ \A j \in DOMAIN db[t] \ {i} : e[t][j] = db[t][j]
    <3>1. e = Update(db, t, is, r)  BY <1>4, <2>5, <2>6
    <3>2. /\ \A v \in Table \ {t} : Update(db, t, is, r)[v] = db[v]
          /\ DOMAIN Update(db, t, is, r)[t] = DOMAIN db[t]
          /\ \A j \in DOMAIN db[t] :
               Update(db, t, is, r)[t][j]
                 = IF j \in is THEN [k \in DOMAIN db[t][j] |->
                                       IF k \in DOMAIN r THEN r[k] ELSE db[t][j][k]]
                   ELSE db[t][j]
      BY <1>2, <2>1, Updates
    <3>3. QED  BY <2>6, <3>1, <3>2
  <2>10. e[t][i] = r
    BY <1>2, <1>4, <2>1, <2>5, <2>6, <2>7, UpdateIs
  <2>11. Did("UPDATE", t, i, s, r, db, e)
    BY <1>4, <2>1, <2>3, <2>9, <2>10 DEF Did, Kinds
  <2>12. Change(c, db, e)  BY <2>4, <2>11 DEF Change
  <2>13. Entered(c)  BY <1>4, <2>3, <2>4 DEF Entered
  <2>14. Made(c)  BY <1>2, <2>1, <2>4, <2>5, <2>8, <2>12, <2>13 DEF Made
  <2>15. QED  BY <2>14
<1>5. CASE UserUpdates
  <2> DEFINE New(t, i) == IF t = "parent" THEN ParentRow(db, {db.parent[i].arn}) ELSE ChildRow(db)
  <2>1. PICK t \in installed : \E i \in DOMAIN db[t] : \E r \in New(t, i) :
            db' = Update(db, t, {i}, r) /\ Log("UPDATE", t, i, db[t][i], r, "user")
    BY <1>2, <1>5 DEF UserUpdates
  <2>2. PICK i \in DOMAIN db[t] : \E r \in New(t, i) :
            db' = Update(db, t, {i}, r) /\ Log("UPDATE", t, i, db[t][i], r, "user")
    BY <2>1
  <2>3. PICK r \in New(t, i) :
          db' = Update(db, t, {i}, r) /\ Log("UPDATE", t, i, db[t][i], r, "user")
    BY <2>2
  <2>4. r \in RowsOf(t) /\ (t = "child" => r["parent"] \in {0} \cup DOMAIN db.parent)
    BY <1>2, RowsTyped
  <2>5. t = "parent" => r.arn = db[t][i]["arn"]  BY DEF ParentRow
  <2>6. QED  BY <1>1, <1>4, <2>3, <2>4, <2>5
<1>6. CASE EngineWrites
  <2>1. PICK i \in DOMAIN db.parent : \E r :
          /\ db.parent[i].arn = 0
          /\ r = [db.parent[i] EXCEPT !.arn = i] /\ db' = Update(db, "parent", {i}, r)
          /\ Log("UPDATE", "parent", i, db.parent[i], r, "engine")
    BY <1>6 DEF EngineWrites
  <2>2. PICK r : /\ r = [db.parent[i] EXCEPT !.arn = i] /\ db' = Update(db, "parent", {i}, r)
                 /\ Log("UPDATE", "parent", i, db.parent[i], r, "engine")
    BY <2>1
  <2>3. i \in Nat /\ "parent" \in Table /\ db["parent"] = db.parent  BY <1>2 DEF Table
  <2>4. db.parent[i] \in ParentRows  BY <1>2 DEF IsDb
  <2>5. r \in RowsOf("parent") /\ r.arn = i /\ r.name = db.parent[i].name
    BY <2>2, <2>3, <2>4 DEF ParentRows, RowsOf
  <2>6. QED  BY <1>1, <1>2, <1>4, <2>1, <2>2, <2>3, <2>5
<1>7. CASE UserDeletes
  <2>1. PICK t \in installed : \E i \in DOMAIN db[t] :
          /\ ~(t = "parent" /\ Referenced(db, {i}))
          /\ db' = Delete(db, t, {i}) /\ Log("DELETE", t, i, db[t][i], <<>>, "user")
    BY <1>2, <1>7 DEF UserDeletes
  <2>2. PICK i \in DOMAIN db[t] :
          /\ ~(t = "parent" /\ Referenced(db, {i}))
          /\ db' = Delete(db, t, {i}) /\ Log("DELETE", t, i, db[t][i], <<>>, "user")
    BY <2>1
  <2>3. t \in Table /\ db[t][i] \in RowsOf(t) /\ i \in Nat  BY <1>2, TableIs
  <2>4. /\ "DELETE" \in Kinds /\ "user" \in {"user", "engine"}
        /\ IF "DELETE" = "INSERT" THEN db[t][i] = <<>> ELSE db[t][i] \in RowsOf(t)
        /\ IF "DELETE" = "DELETE" THEN <<>> = <<>> ELSE <<>> \in RowsOf(t)
    BY <2>3 DEF Kinds
  <2>5. PICK s : s = db[t][i]  OBVIOUS
  <2>6. PICK c \in Changes :
          /\ log' = Append(log, c)
          /\ c.kind = "DELETE" /\ c.table = t /\ c.id = i
          /\ c.original = s /\ c.change = <<>> /\ c.user = "user"
    BY <2>2, <2>3, <2>4, <2>5, Entry
  <2>7. PICK e : e = db'  OBVIOUS
  <2>8. PICK is : is = {i}  OBVIOUS
  <2>9. IsDb(e) /\ e.next = db.next
    <3>1. (t = "parent" => ~Referenced(db, is)) /\ e = Delete(db, t, is)  BY <2>2, <2>7, <2>8
    <3>2. QED  BY <1>2, <2>3, <3>1, DeleteIs
  <2>10. /\ \A v \in Table \ {t} : e[v] = db[v]
         /\ e[t] = [j \in DOMAIN db[t] \ {i} |-> db[t][j]]
    <3>1. e = Delete(db, t, is)  BY <2>2, <2>7, <2>8
    <3>2. QED  BY <1>2, <2>3, <2>8, <3>1, Deletes
  <2>11. Did("DELETE", t, i, s, <<>>, db, e)
    BY <2>3, <2>5, <2>10 DEF Did, Kinds
  <2>12. Change(c, db, e)  BY <2>6, <2>11 DEF Change
  <2>13. Entered(c)  BY <2>6 DEF Entered
  <2>14. Made(c)  BY <1>2, <2>6, <2>7, <2>9, <2>12, <2>13 DEF Made
  <2>15. QED  BY <1>1, <2>14
<1>8. QED  BY <1>1, <1>3, <1>5, <1>6, <1>7

-----------------------------------------------------------------------------
(* The databases of the past.                                              *)

\* Only AWS's identifiers of some parents are other.
SameBut(d, e, ids) ==
  /\ DOMAIN e.parent = DOMAIN d.parent /\ e.child = d.child
  /\ \A i \in DOMAIN d.parent :
       /\ e.parent[i].name = d.parent[i].name
       /\ i \notin ids => e.parent[i].arn = d.parent[i].arn

ParentChange(kind, k, p) == log[k].kind = kind /\ log[k].table = "parent" /\ log[k].id = p

\* H[k] is the database after k changes.
Times == 0 .. Len(log)
Chain(H) ==
  /\ H[0] = start /\ H[Len(log)] = db
  /\ \A k \in DOMAIN log : Change(log[k], H[k - 1], H[k]) /\ Entered(log[k])
Databases(H) ==
  \A k \in Times : /\ IsDb(H[k]) /\ Known(H[k]) /\ H[k].next <= db.next
                   /\ ~twins => ~HasTwins(H[k])
\* A row that is inserted has an id that none had when the transaction began.
FreshIds == \A k \in DOMAIN log : log[k].kind = "INSERT" => log[k].id >= start.next
\* A commit changes nothing but AWS's identifiers.
EngineRuns(H) ==
  \A j, k \in Times :
    j <= k /\ (\A x \in (j + 1) .. k : log[x].user = "engine")
      => SameBut(H[j], H[k], {log[x].id : x \in (j + 1) .. k})
\* Parents that no update changed are as they were.
ParentsKept(H) ==
  \A j, k \in Times : \A p \in DOMAIN H[j].parent \cap DOMAIN H[k].parent :
    (\A x \in DOMAIN log : ~ParentChange("UPDATE", x, p)) => H[j].parent[p] = H[k].parent[p]
\* Parents that are gone were deleted.
ParentsGone(H) ==
  \A j \in Times : \A p \in DOMAIN H[j].parent \ DOMAIN db.parent :
    \E x \in DOMAIN log : ParentChange("DELETE", x, p)

History(H) ==
  /\ Chain(H) /\ Databases(H) /\ FreshIds
  /\ EngineRuns(H) /\ ParentsKept(H) /\ ParentsGone(H)

\* A change keeps AWS's identifiers known.
LEMMA KnownStep ==
  ASSUME NEW d, Known(d), NEW c \in Changes, Entered(c), NEW e, Change(c, d, e)
  PROVE  Known(e)
<1>1. c.kind \in Kinds /\ c.table \in Table /\ c.user \in {"user", "engine"}
  BY DEF Changes
<1>2. Did(c.kind, c.table, c.id, c.original, c.change, d, e)  BY DEF Change
<1>3. CASE c.table # "parent"
  <2>1. e["parent"] = d["parent"]  BY <1>1, <1>2, <1>3 DEF Did, Table
  <2>2. QED  BY <2>1 DEF Known
<1>4. CASE c.table = "parent"
  <2> SUFFICES ASSUME NEW i \in DOMAIN e.parent PROVE e.parent[i].arn \in {0, i}
    BY DEF Known
  <2>1. CASE i # c.id
    <3>1. i \in DOMAIN d.parent /\ e.parent[i] = d.parent[i]
      BY <1>1, <1>2, <1>4, <2>1 DEF Did, Kinds
    <3>2. QED  BY <3>1 DEF Known
  <2>2. CASE i = c.id
    <3>1. c.kind # "DELETE" /\ e.parent[i] = c.change
      BY <1>1, <1>2, <1>4, <2>2 DEF Did, Kinds
    <3>2. c.kind = "UPDATE" => i \in DOMAIN d.parent /\ d.parent[i] = c.original
      BY <1>1, <1>2, <1>4, <2>2 DEF Did, Kinds
    <3>3. CASE c.user = "engine"
      BY <2>2, <3>1, <3>3 DEF Entered
    <3>4. CASE c.user # "engine"
      BY <1>1, <1>4, <3>1, <3>2, <3>4 DEF Entered, Known, Kinds
    <3>5. QED  BY <3>3, <3>4
  <2>3. QED  BY <2>1, <2>2
<1>5. QED  BY <1>3, <1>4

\* What the engine logs are AWS's identifiers of parents.
LEMMA SameButStep ==
  ASSUME NEW a, NEW d, NEW ids, SameBut(a, d, ids),
         NEW c, Entered(c), c.user = "engine", NEW e, Change(c, d, e)
  PROVE  SameBut(a, e, ids \cup {c.id})
<1>1. c.kind = "UPDATE" /\ c.table = "parent" /\ c.change.name = c.original.name
  BY DEF Entered
<1>2. Did("UPDATE", "parent", c.id, c.original, c.change, d, e)  BY <1>1 DEF Change
<1>3. e["child"] = d["child"]  BY <1>2 DEF Did, Table
<1>4. /\ DOMAIN e["parent"] = DOMAIN d["parent"]
      /\ \A j \in DOMAIN d["parent"] \ {c.id} : e["parent"][j] = d["parent"][j]
      /\ d["parent"][c.id] = c.original /\ e["parent"][c.id] = c.change
  BY <1>2 DEF Did
<1>5. QED  BY <1>1, <1>3, <1>4 DEF SameBut

\* Which rows look alike depends on the columns that are looked at.
LEMMA SameTwins ==
  ASSUME resolved' = resolved
  PROVE  \A d : HasTwins(d)' <=> HasTwins(d)
  BY DEF HasTwins, Alike, Compared

\* A statement adds a database to those of the past.
LEMMA HistoryMade ==
  ASSUME TypeInv, NEW c, Made(c), Changed, NEW H, History(H)
  PROVE  \E G : History(G)'
<1> DEFINE n == Len(log)
<1>1. PICK e : e = db'  OBVIOUS
<1>2. PICK G : G = [k \in 0 .. (n + 1) |-> IF k = n + 1 THEN e ELSE H[k]]  OBVIOUS
<1>3. /\ n \in Nat /\ DOMAIN log = 1 .. n /\ Len(log') = n + 1 /\ DOMAIN log' = 1 .. (n + 1)
      /\ log'[n + 1] = c /\ \A k \in 1 .. n : log'[k] = log[k]
  BY DEF TypeInv, Made
<1>4. /\ start' = start /\ resolved' = resolved /\ twins' = (twins \/ HasTwins(e))
  BY <1>1 DEF Changed
<1>5. /\ c \in Changes /\ c.kind \in Kinds /\ c.table \in Table /\ c.id \in Nat
      /\ Entered(c) /\ IsDb(e) /\ db.next <= e.next /\ Change(c, db, e)
      /\ c.kind = "INSERT" => c.id = db.next
  BY <1>1 DEF Made, Changes
<1> HIDE DEF n
<1>6. /\ G[n + 1] = e /\ \A k \in 0 .. n : G[k] = H[k]
  BY <1>2, <1>3
<1>7. /\ H[0] = start /\ H[n] = db
      /\ \A k \in 1 .. n : Change(log[k], H[k - 1], H[k]) /\ Entered(log[k])
      /\ \A k \in 0 .. n : /\ IsDb(H[k]) /\ Known(H[k]) /\ H[k].next <= db.next
                           /\ ~twins => ~HasTwins(H[k])
  BY <1>3 DEF History, Chain, Databases, Times, n
<1>8. \A k \in 0 .. (n + 1) : k \in 0 .. n \/ k = n + 1  BY <1>3
<1>9. \A k \in 1 .. (n + 1) : (k \in 1 .. n /\ k \in 0 .. n /\ k - 1 \in 0 .. n) \/ k = n + 1
  BY <1>3
<1>10. 0 \in 0 .. n /\ n \in 0 .. n /\ n + 1 - 1 = n  BY <1>3
<1>11. Chain(G)'
  <2>1. G[0] = start /\ G[n + 1] = e  BY <1>6, <1>7, <1>10
  <2>2. ASSUME NEW k \in 1 .. (n + 1)
        PROVE  Change(log'[k], G[k - 1], G[k]) /\ Entered(log'[k])
    <3>1. CASE k = n + 1  BY <1>3, <1>5, <1>6, <1>7, <1>10, <3>1
    <3>2. CASE k # n + 1  BY <1>3, <1>6, <1>7, <1>9, <3>2
    <3>3. QED  BY <3>1, <3>2
  <2>3. QED  BY <1>1, <1>3, <1>4, <2>1, <2>2 DEF Chain, Change
<1>12. Databases(G)'
  <2>1. Known(e)  BY <1>5, <1>7, <1>10, KnownStep
  <2>2. ASSUME NEW k \in 0 .. (n + 1)
        PROVE  /\ IsDb(G[k]) /\ Known(G[k]) /\ G[k].next <= e.next
               /\ ~twins' => ~HasTwins(G[k])
    <3>1. CASE k = n + 1
      <4>1. e.next <= e.next  BY <1>5 DEF IsDb
      <4>2. QED  BY <1>4, <1>5, <1>6, <2>1, <3>1, <4>1
    <3>2. CASE k # n + 1
      <4>1. G[k] = H[k] /\ k \in 0 .. n  BY <1>6, <1>8, <3>2
      <4>2. IsDb(db)  BY DEF TypeInv
      <4>3. H[k].next <= db.next /\ IsDb(H[k])  BY <1>7, <4>1
      <4>4. H[k].next <= e.next  BY <1>5, <4>2, <4>3 DEF IsDb
      <4>5. QED  BY <1>4, <1>7, <4>1, <4>4
    <3>3. QED  BY <3>1, <3>2
  <2>3. \A k \in 0 .. (n + 1) :
          /\ IsDb(G[k]) /\ Known(G[k]) /\ G[k].next <= e.next
          /\ ~twins' => ~HasTwins(G[k])'
    <3>1. \A d : HasTwins(d)' <=> HasTwins(d)  BY <1>4, SameTwins
    <3>2. QED  BY <2>2, <3>1
  <2>4. QED  BY <1>1, <1>3, <2>3 DEF Databases, Times
<1>13. FreshIds'
  <2>1. start.next <= db.next /\ start.next \in Nat /\ db.next \in Nat
    BY <1>7, <1>10 DEF TypeInv, IsDb
  <2>2. \A k \in 1 .. n : log[k].kind = "INSERT" => log[k].id >= start.next
    BY <1>3 DEF History, FreshIds
  <2>3. c.kind = "INSERT" => c.id >= start.next  BY <1>5, <2>1
  <2>4. \A k \in 1 .. (n + 1) : log'[k].kind = "INSERT" => log'[k].id >= start.next
    BY <1>3, <1>9, <2>2, <2>3
  <2>5. QED  BY <1>3, <1>4, <2>4 DEF FreshIds
<1>14. EngineRuns(G)'
  <2> SUFFICES ASSUME NEW j \in 0 .. (n + 1), NEW k \in 0 .. (n + 1), j <= k,
                      \A x \in (j + 1) .. k : log'[x].user = "engine"
               PROVE  SameBut(G[j], G[k], {log'[x].id : x \in (j + 1) .. k})
    BY <1>3 DEF EngineRuns, Times
  <2>1. \A a, b \in 0 .. n :
          a <= b /\ (\A x \in (a + 1) .. b : log[x].user = "engine")
            => SameBut(H[a], H[b], {log[x].id : x \in (a + 1) .. b})
    BY DEF History, EngineRuns, Times, n
  <2>2. CASE k # n + 1
    <3>1. j \in 0 .. n /\ k \in 0 .. n  BY <1>3, <2>2
    <3>2. \A x \in (j + 1) .. k : log'[x] = log[x]  BY <1>3, <3>1
    <3>3. {log'[x].id : x \in (j + 1) .. k} = {log[x].id : x \in (j + 1) .. k}  BY <3>2
    <3>4. SameBut(H[j], H[k], {log[x].id : x \in (j + 1) .. k})  BY <2>1, <3>1, <3>2
    <3>5. QED  BY <1>6, <3>1, <3>3, <3>4
  <2>3. CASE j = n + 1
    <3>1. k = n + 1  BY <1>3, <2>3
    <3>2. \A x : SameBut(e, e, x)  BY DEF SameBut
    <3>3. QED  BY <1>6, <2>3, <3>1, <3>2
  <2>4. CASE k = n + 1 /\ j # n + 1
    <3>1. j \in 0 .. n /\ (j + 1) .. k = ((j + 1) .. n) \cup {n + 1}  BY <1>3, <2>4
    <3>2. c.user = "engine"  BY <1>3, <3>1
    <3>3. \A x \in (j + 1) .. n : log'[x] = log[x]  BY <1>3, <3>1
    <3>4. {log'[x].id : x \in (j + 1) .. k} = {log[x].id : x \in (j + 1) .. n} \cup {c.id}
      BY <1>3, <3>1, <3>3
    <3>5. SameBut(H[j], db, {log[x].id : x \in (j + 1) .. n})
      <4>1. \A x \in (j + 1) .. n : log[x].user = "engine"  BY <3>1, <3>3
      <4>2. j <= n /\ n \in 0 .. n  BY <1>3, <3>1
      <4>3. SameBut(H[j], H[n], {log[x].id : x \in (j + 1) .. n})  BY <2>1, <3>1, <4>1, <4>2
      <4>4. QED  BY <1>7, <4>3
    <3>6. SameBut(H[j], e, {log[x].id : x \in (j + 1) .. n} \cup {c.id})
      BY <1>5, <3>2, <3>5, SameButStep
    <3>7. QED  BY <1>6, <2>4, <3>1, <3>4, <3>6
  <2>5. QED  BY <2>2, <2>3, <2>4
<1>15. ASSUME NEW p, p \in DOMAIN e.parent, p \in DOMAIN db.parent,
              ~(c.kind = "UPDATE" /\ c.table = "parent" /\ c.id = p)
       PROVE  e.parent[p] = db.parent[p]
  <2>1. c.table # "parent" => e["parent"] = db["parent"]
    BY <1>5 DEF Change, Did, Table
  <2>2. CASE c.table = "parent"
    <3>1. p # c.id
      BY <1>5, <1>15, <2>2 DEF Change, Did, Kinds
    <3>2. QED  BY <1>5, <1>15, <2>2, <3>1 DEF Change, Did
  <2>3. QED  BY <2>1, <2>2
<1>16. ASSUME NEW p, p \in DOMAIN e.parent, p \notin DOMAIN db.parent
       PROVE  p = db.next /\ \A k \in 0 .. n : p \notin DOMAIN H[k].parent
  <2>1. c.table = "parent" /\ c.kind = "INSERT" /\ p = c.id
    BY <1>5, <1>16 DEF Change, Did, Table, Kinds
  <2>2. p = db.next  BY <1>5, <2>1
  <2>3. ASSUME NEW k \in 0 .. n PROVE p \notin DOMAIN H[k].parent
    <3>1. IsDb(H[k]) /\ H[k].next <= db.next /\ IsDb(db)  BY <1>7 DEF TypeInv
    <3>2. QED  BY <2>2, <3>1 DEF IsDb
  <2>4. QED  BY <2>2, <2>3
<1>17. ASSUME NEW p, \A x \in DOMAIN log' : ~ParentChange("UPDATE", x, p)'
       PROVE  /\ \A x \in DOMAIN log : ~ParentChange("UPDATE", x, p)
              /\ ~(c.kind = "UPDATE" /\ c.table = "parent" /\ c.id = p)
  <2>1. \A x \in 1 .. n : x \in 1 .. (n + 1) /\ log'[x] = log[x]  BY <1>3
  <2>2. n + 1 \in 1 .. (n + 1)  BY <1>3
  <2>3. QED  BY <1>3, <1>17, <2>1, <2>2 DEF ParentChange
<1>18. \A j, k \in 0 .. n : \A p \in DOMAIN H[j].parent \cap DOMAIN H[k].parent :
         (\A x \in DOMAIN log : ~ParentChange("UPDATE", x, p)) => H[j].parent[p] = H[k].parent[p]
  BY DEF History, ParentsKept, Times, n
<1>19. ASSUME NEW p, \A x \in DOMAIN log' : ~ParentChange("UPDATE", x, p)',
              NEW j \in 0 .. n, p \in DOMAIN H[j].parent, p \in DOMAIN e.parent
       PROVE  H[j].parent[p] = e.parent[p]
  <2>1. p \in DOMAIN db.parent  BY <1>16, <1>19
  <2>2. e.parent[p] = db.parent[p]  BY <1>15, <1>17, <1>19, <2>1
  <2>3. H[j].parent[p] = db.parent[p]
    BY <1>7, <1>10, <1>17, <1>18, <1>19, <2>1
  <2>4. QED  BY <2>2, <2>3
<1>20. ParentsKept(G)'
  <2> SUFFICES ASSUME NEW j \in 0 .. (n + 1), NEW k \in 0 .. (n + 1),
                      NEW p \in DOMAIN G[j].parent \cap DOMAIN G[k].parent,
                      \A x \in DOMAIN log' : ~ParentChange("UPDATE", x, p)'
               PROVE  G[j].parent[p] = G[k].parent[p]
    BY <1>3 DEF ParentsKept, Times
  <2>1. CASE j = n + 1 /\ k = n + 1  BY <2>1
  <2>2. CASE j = n + 1 /\ k # n + 1  BY <1>6, <1>8, <1>19, <2>2
  <2>3. CASE j # n + 1 /\ k = n + 1  BY <1>6, <1>8, <1>19, <2>3
  <2>4. CASE j # n + 1 /\ k # n + 1  BY <1>6, <1>8, <1>17, <1>18, <2>4
  <2>5. QED  BY <2>1, <2>2, <2>3, <2>4
<1>21. ParentsGone(G)'
  <2> SUFFICES ASSUME NEW j \in 0 .. (n + 1), NEW p \in DOMAIN G[j].parent, p \notin DOMAIN e.parent
               PROVE  \E x \in 1 .. (n + 1) : ParentChange("DELETE", x, p)'
    BY <1>1, <1>3 DEF ParentsGone, Times
  <2>1. j \in 0 .. n /\ G[j] = H[j]  BY <1>6, <1>8
  <2>2. CASE p \notin DOMAIN db.parent
    <3>1. PICK x \in 1 .. n : ParentChange("DELETE", x, p)
      BY <1>3, <2>1, <2>2 DEF History, ParentsGone, Times, n
    <3>2. x \in 1 .. (n + 1) /\ log'[x] = log[x]  BY <1>3
    <3>3. QED  BY <3>1, <3>2 DEF ParentChange
  <2>3. CASE p \in DOMAIN db.parent
    <3>1. c.table = "parent" /\ c.kind = "DELETE" /\ p = c.id
      BY <1>5, <2>3 DEF Change, Did, Table, Kinds
    <3>2. n + 1 \in 1 .. (n + 1)  BY <1>3
    <3>3. QED  BY <1>3, <3>1, <3>2 DEF ParentChange
  <2>4. QED  BY <2>2, <2>3
<1>22. QED  BY <1>11, <1>12, <1>13, <1>14, <1>20, <1>21 DEF History

-----------------------------------------------------------------------------
(* What the queries are.                                                   *)

\* The columns that a row gives, with references to parents as w says.
Put(w, r) == [c \in Given(r) |-> IF c = "parent" THEN w[r[c]] ELSE r[c]]
Look(ignored, w, r, t) ==
  [c \in Given(r) \cap (Columns(t) \ ignored) |-> IF c = "parent" THEN w[r[c]] ELSE r[c]]

IsQueryOf(q, ignored, w, kind, t, r, s) ==
  /\ q.kind = kind /\ q.table = t
  /\ q.set = Put(w, Now(kind, r, s))
  /\ q.where = Look(ignored, w, Was(kind, r, s), t)

\* The reference to p is one to the parent that p is elsewhere.
Right(e, m, w, p) ==
  /\ w[p] # NotFound /\ (w[p].by = {} \/ Cardinality(Candidates(e, w[p])) <= 1)
  /\ Refers(e, w[p]) = To(m, p)

\* What a change becomes as a query (recreateQueries).
LEMMA FormattedIs ==
  ASSUME NEW l, IsChange(l), NEW logs, NEW inverse \in BOOLEAN, NEW subs \in BOOLEAN,
         NEW w, \A p \in Nat : w[p] = augmentValue(logs, subs, "parent", p),
         NEW q, q = getFormattedQuery(l, inverse, Entries(logs, subs, l.original),
                                      Entries(logs, subs, l.change))
  PROVE  IF inverse
         THEN IsQueryOf(q, resolved, w, Backwards(l.kind), l.table, l.change, l.original)
         ELSE IsQueryOf(q, resolved, w, l.kind, l.table, l.original, l.change)
<1> DEFINE a == Entries(logs, subs, l.original)
           b == Entries(logs, subs, l.change)
           swap == [INSERT |-> "DELETE", DELETE |-> "INSERT", UPDATE |-> "UPDATE"]
           was == IF l.kind = "INSERT" THEN b ELSE a
           now == IF l.kind = "DELETE" THEN a ELSE b
           k == IF inverse THEN swap[l.kind] ELSE l.kind
<1>1. l.kind \in Kinds /\ l.table \in Table  BY DEF IsChange
<1>2. \A r \in {l.original, l.change} : r = <<>> \/ r \in RowsOf(l.table)
  BY DEF IsChange
<1>3. /\ q.kind = k /\ q.table = l.table
      /\ q.set = (IF inverse THEN was ELSE now)
      /\ q.where = Where(l.table, IF inverse THEN now ELSE was)
  BY DEF getFormattedQuery
<1>4. ASSUME NEW r \in {l.original, l.change}
      PROVE  /\ Entries(logs, subs, r) = Put(w, r)
             /\ Where(l.table, Entries(logs, subs, r)) = Look(resolved, w, r, l.table)
  <2> DEFINE f == Entries(logs, subs, r)
  <2>1. \A c \in Given(r) : c = "parent" => r[c] \in Nat
    <3>1. r = <<>> => Given(r) = {}  BY DEF Given
    <3>2. r \in RowsOf(l.table) /\ "parent" \in Given(r) => r["parent"] \in Nat
      <4> SUFFICES ASSUME r \in RowsOf(l.table), "parent" \in Given(r) PROVE r["parent"] \in Nat
        OBVIOUS
      <4>1. DOMAIN r = Columns(l.table)  BY <1>1, RowColumns
      <4>2. l.table = "child"  BY <1>1, <4>1 DEF Given, Columns, Table
      <4>3. QED  BY <1>1, <4>2, RowColumns
    <3>3. QED  BY <1>2, <3>1, <3>2
  <2>2. \A c : c # "parent" => \A v : augmentValue(logs, subs, c, v) = v  BY DEF augmentValue
  <2>3. f = [c \in Given(r) |-> augmentValue(logs, subs, c, r[c])]  BY DEF Entries
  <2>4. f = Put(w, r)
    <3>1. \A c \in Given(r) : augmentValue(logs, subs, c, r[c])
                                = IF c = "parent" THEN w[r[c]] ELSE r[c]
      BY <2>1, <2>2
    <3>2. QED  BY <2>3, <3>1 DEF Put
  <2> HIDE DEF f
  <2>5. Where(l.table, f) = [c \in DOMAIN f \cap (Columns(l.table) \ resolved) |-> f[c]]
    BY DEF Where, Compared
  <2>6. DOMAIN f = Given(r) /\ \A c \in Given(r) : f[c] = IF c = "parent" THEN w[r[c]] ELSE r[c]
    BY <2>4 DEF Put
  <2>7. Where(l.table, f) = Look(resolved, w, r, l.table)  BY <2>5, <2>6 DEF Look
  <2>8. QED  BY <2>4, <2>7 DEF f
<1>5. /\ a = Put(w, l.original) /\ b = Put(w, l.change)
      /\ Where(l.table, a) = Look(resolved, w, l.original, l.table)
      /\ Where(l.table, b) = Look(resolved, w, l.change, l.table)
  BY <1>4
<1> HIDE DEF a, b
<1>6. CASE inverse
  <2>1. CASE l.kind = "INSERT"  BY <1>3, <1>5, <1>6, <2>1 DEF IsQueryOf, Backwards, Was, Now
  <2>2. CASE l.kind = "DELETE"  BY <1>3, <1>5, <1>6, <2>2 DEF IsQueryOf, Backwards, Was, Now
  <2>3. CASE l.kind = "UPDATE"  BY <1>3, <1>5, <1>6, <2>3 DEF IsQueryOf, Backwards, Was, Now
  <2>4. QED  BY <1>1, <2>1, <2>2, <2>3 DEF Kinds
<1>7. CASE ~inverse
  <2>1. CASE l.kind = "INSERT"  BY <1>3, <1>5, <1>7, <2>1 DEF IsQueryOf, Was, Now
  <2>2. CASE l.kind = "DELETE"  BY <1>3, <1>5, <1>7, <2>2 DEF IsQueryOf, Was, Now
  <2>3. CASE l.kind = "UPDATE"  BY <1>3, <1>5, <1>7, <2>3 DEF IsQueryOf, Was, Now
  <2>4. QED  BY <1>1, <2>1, <2>2, <2>3 DEF Kinds
<1>8. QED  BY <1>6, <1>7

\* A query of a change asks for that change, where the rows it names are the right ones.
LEMMA AsksIs ==
  ASSUME NEW q, NEW w, NEW kind, NEW t, NEW r, NEW s, IsQueryOf(q, resolved, w, kind, t, r, s),
         NEW e, NEW m,
         \A x \in {r, s} : "parent" \in Given(x) => Right(e, m, w, x["parent"])
  PROVE  Asks(q, e, m, kind, t, r, s)
<1> DEFINE now == Now(kind, r, s)
           was == Was(kind, r, s)
<1>1. now \in {r, s} /\ was \in {r, s}  BY DEF Now, Was
<1>2. /\ q.kind = kind /\ q.table = t
      /\ q.set = Put(w, now) /\ q.where = Look(resolved, w, was, t)
  BY DEF IsQueryOf
<1> HIDE DEF now, was
<1>3. /\ DOMAIN q.set = Given(now)
      /\ \A c \in Given(now) : q.set[c] = IF c = "parent" THEN w[now[c]] ELSE now[c]
  BY <1>2 DEF Put
<1>4. /\ DOMAIN q.where = Given(was) \cap (Columns(t) \ resolved)
      /\ \A c \in DOMAIN q.where : q.where[c] = IF c = "parent" THEN w[was[c]] ELSE was[c]
  BY <1>2 DEF Look
<1>5. Gives(Plain(e, q.set), m, now)
  <2>1. DOMAIN Plain(e, q.set) = Given(now)  BY <1>3, PlainIs
  <2>2. ASSUME NEW c \in Given(now) PROVE Plain(e, q.set)[c] = Sent(m, c, now[c])
    <3>1. Plain(e, q.set)[c] = IF c = "parent" THEN Refers(e, q.set[c]) ELSE q.set[c]
      BY <1>3 DEF Plain
    <3>2. QED  BY <1>1, <1>3, <3>1 DEF Right, Sent
  <2>3. QED  BY <2>1, <2>2 DEF Gives
<1>6. SeeksFor(Plain(e, q.where), m, was, t)
  <2>1. DOMAIN Plain(e, q.where) = Given(was) \cap Compared(t)
    BY <1>4, PlainIs DEF Compared
  <2>2. ASSUME NEW c \in Given(was) \cap Compared(t)
        PROVE  Plain(e, q.where)[c] = Sent(m, c, was[c])
    <3>1. c \in DOMAIN q.where  BY <1>4 DEF Compared
    <3>2. Plain(e, q.where)[c] = IF c = "parent" THEN Refers(e, q.where[c]) ELSE q.where[c]
      BY <3>1 DEF Plain
    <3>3. QED  BY <1>1, <1>4, <3>1, <3>2 DEF Right, Sent
  <2>3. QED  BY <2>1, <2>2 DEF SeeksFor
<1>7. Legible(e, q)
  <2> SUFFICES ASSUME NEW v \in References(q)
               PROVE  v # NotFound /\ (v.by = {} \/ Cardinality(Candidates(e, v)) <= 1)
    BY DEF Legible
  <2>1. PICK f \in {q.set, q.where} : "parent" \in DOMAIN f /\ v = f["parent"]
    BY DEF References
  <2>2. PICK x \in {r, s} : "parent" \in Given(x) /\ v = w[x["parent"]]
    BY <1>1, <1>3, <1>4, <2>1
  <2>3. QED  BY <2>2 DEF Right
<1>8. QED  BY <1>2, <1>5, <1>6, <1>7 DEF Asks, now, was

\* When the transaction begins the past is one database.
LEMMA HistoryInit ==
  ASSUME TypeInv, Init
  PROVE  \E H : History(H)
<1>1. /\ log = <<>> /\ start = db /\ twins = HasTwins(db) /\ IsDb(db)
  BY DEF Init, TypeInv
<1>2. PICK H : H = [k \in 0 .. 0 |-> db]  OBVIOUS
<1>3. Len(log) = 0 /\ DOMAIN log = {} /\ Times = {0}  BY <1>1 DEF Times
<1>4. H[0] = db  BY <1>2
<1>5. Known(db)
  <2>1. PICK n \in 0 .. Rows : \E p \in [1 .. n -> [name : Names, arn : {0, 1}]] : \E c :
          db = [parent |-> [i \in DOMAIN p |-> [p[i] EXCEPT !.arn = i * @]], child |-> c,
                next |-> 2 * Rows + 1]
    BY DEF Init
  <2>2. PICK p \in [1 .. n -> [name : Names, arn : {0, 1}]] : \E c :
          db = [parent |-> [i \in DOMAIN p |-> [p[i] EXCEPT !.arn = i * @]], child |-> c,
                next |-> 2 * Rows + 1]
    BY <2>1
  <2>3. \A i \in 1 .. n : i \in Nat /\ p[i].arn \in {0, 1} /\ "arn" \in DOMAIN p[i]
    BY ReplayAssumption
  <2>4. DOMAIN db.parent = 1 .. n
        /\ \A i \in 1 .. n : db.parent[i].arn = i * p[i].arn
    <3>1. db.parent = [i \in DOMAIN p |-> [p[i] EXCEPT !.arn = i * @]]  BY <2>2
    <3>2. QED  BY <2>3, <3>1
  <2>5. \A i \in Nat : i * 0 = 0 /\ i * 1 = i  OBVIOUS
  <2>6. \A i \in DOMAIN db.parent : db.parent[i].arn \in {0, i}
    BY <2>3, <2>4, <2>5
  <2>7. QED  BY <2>6 DEF Known
<1>6. Chain(H)  BY <1>1, <1>3, <1>4 DEF Chain
<1>7. Databases(H)
  <2>1. db.next <= db.next  BY <1>1 DEF IsDb
  <2>2. QED  BY <1>1, <1>3, <1>4, <1>5, <2>1 DEF Databases
<1>8. FreshIds  BY <1>3 DEF FreshIds
<1>9. EngineRuns(H)
  <2>1. \A ids : SameBut(db, db, ids)  BY DEF SameBut
  <2>2. QED  BY <1>3, <1>4, <2>1 DEF EngineRuns
<1>10. ParentsKept(H)  BY <1>3, <1>4 DEF ParentsKept
<1>11. ParentsGone(H)  BY <1>3, <1>4 DEF ParentsGone
<1>12. QED  BY <1>6, <1>7, <1>8, <1>9, <1>10, <1>11 DEF History

\* What is done with the log afterwards leaves the past alone.
LEMMA HistorySame ==
  ASSUME UNCHANGED <<db, start, log, twins, resolved>>, NEW H, History(H)
  PROVE  History(H)'
<1>1. \A d : HasTwins(d)' <=> HasTwins(d)  BY SameTwins
<1>2. Chain(H)'  BY DEF History, Chain
<1>3. Databases(H)'
  <2>1. \A k \in 0 .. Len(log) :
          /\ IsDb(H[k]) /\ Known(H[k]) /\ H[k].next <= db.next
          /\ ~twins => ~HasTwins(H[k])
    BY DEF History, Databases, Times
  <2>2. \A k \in 0 .. Len(log) : ~twins => ~HasTwins(H[k])'  BY <1>1, <2>1
  <2>3. QED  BY <2>1, <2>2 DEF Databases, Times
<1>4. FreshIds'  BY DEF History, FreshIds
<1>5. EngineRuns(H)'
  <2> SUFFICES ASSUME NEW j \in 0 .. Len(log), NEW k \in 0 .. Len(log), j <= k,
                      \A x \in (j + 1) .. k : log[x].user = "engine"
               PROVE  SameBut(H[j], H[k], {log'[x].id : x \in (j + 1) .. k})
    BY DEF EngineRuns, Times
  <2>1. SameBut(H[j], H[k], {log[x].id : x \in (j + 1) .. k})
    BY DEF History, EngineRuns, Times
  <2>2. {log'[x].id : x \in (j + 1) .. k} = {log[x].id : x \in (j + 1) .. k}  OBVIOUS
  <2>3. QED  BY <2>1, <2>2
<1>6. ParentsKept(H)'  BY DEF History, ParentsKept, Times, ParentChange
<1>7. ParentsGone(H)'  BY DEF History, ParentsGone, Times, ParentChange
<1>8. QED  BY <1>2, <1>3, <1>4, <1>5, <1>6, <1>7 DEF History

-----------------------------------------------------------------------------
(* revert.                                                                 *)

Deleted(p) == \E x \in DOMAIN log : ParentChange("DELETE", x, p)
NewIds == {log[k].id : k \in {j \in DOMAIN log : log[j].kind = "INSERT"}}

\* AWS's identifiers agree but for rows that are to go again and had none.
AgreedBack(d) == {p \in Nat : p \notin NewIds \/ (p \in DOMAIN d.parent /\ d.parent[p].arn # 0)}

RawIds == [p \in Nat |-> Raw(p)]

\* The last changes have been undone, and the others are left to undo.
Undoing(H, m) ==
  /\ \A p \in Nat : ~Deleted(p) => m["parent"][p] = p
  /\ \A k \in DOMAIN queries :
       IsQueryOf(queries[k], resolved, RawIds,
                 Backwards(log[k].kind), log[k].table, log[k].change, log[k].original)
  /\ \E n \in Times : DOMAIN queries = 1 .. n /\ Twin(H[n], copy, m, AgreedBack(H[n]))

Reverting == phase = "revert" /\ ~twins /\ ~NullLost /\ ~IdLost

\* When revert begins the copy is the database after all changes.
LEMMA RevertStarts ==
  ASSUME TypeInv, Revert, phase' = "revert", NEW H, History(H)
  PROVE  \E m : Undoing(H, m)'
<1> DEFINE n == Len(log)
<1>1. PICK m : m = [t \in Table |-> [i \in Nat |-> i]]  OBVIOUS
<1>2. /\ copy' = db /\ queries' = recreateQueries(DOMAIN log, TRUE, FALSE)
      /\ UNCHANGED <<db, start, log, twins, resolved, installed>>
  BY DEF Revert, Ask, getChangeLogsSinceLastBegin
<1>3. n \in Nat /\ DOMAIN log = 1 .. n  BY DEF TypeInv
<1>4. \A p \in Nat : m["parent"][p] = p  BY <1>1 DEF Table
<1>5. ASSUME NEW k \in DOMAIN log
      PROVE  IsQueryOf(queries'[k], resolved, RawIds,
                       Backwards(log[k].kind), log[k].table, log[k].change, log[k].original)
  <2> DEFINE l == log[k]
             q == queries'[k]
  <2>1. q = getFormattedQuery(l, TRUE, Entries(DOMAIN log, FALSE, l.original),
                              Entries(DOMAIN log, FALSE, l.change))
    BY <1>2 DEF recreateQueries
  <2>2. IsChange(l)  BY DEF TypeInv, Changes
  <2>3. \A p \in Nat : RawIds[p] = augmentValue(DOMAIN log, FALSE, "parent", p)
    BY DEF RawIds, augmentValue
  <2> HIDE DEF l, q
  <2>4. IsQueryOf(q, resolved, RawIds, Backwards(l.kind), l.table, l.change, l.original)
    BY <2>1, <2>2, <2>3, FormattedIs
  <2>5. QED  BY <2>4 DEF l, q
<1>6. DOMAIN queries' = 1 .. n  BY <1>2, <1>3 DEF recreateQueries
<1>7. Known(db) /\ IsDb(db) /\ H[n] = db /\ n \in Times
  BY <1>3 DEF History, Databases, Chain, Times, TypeInv
<1>8. \A agreed : Twin(db, db, m, agreed)
  <2> TAKE agreed
  <2>1. m \in Ids  BY <1>1 DEF Ids
  <2>2. \A t \in Table : \A i \in DOMAIN db[t] : m[t][i] = i
    <3>1. \A t \in Table : DOMAIN db[t] \subseteq 1 .. (db.next - 1)  BY <1>7, TableIs
    <3>2. db.next \in Nat  BY <1>7 DEF IsDb
    <3>3. QED  BY <1>1, <3>1, <3>2
  <2>3. \A i \in DOMAIN db.child : db.child[i].parent \in Nat
    BY <1>7 DEF IsDb, ChildRows
  <2>4. \A p \in Nat : To(m, p) = p  BY <1>4 DEF To
  <2>5. \A t \in Table : \A i \in DOMAIN db[t] : Like(t, i, db[t][i], db[t][m[t][i]], m, agreed)
    BY <1>7, <2>2, <2>3, <2>4 DEF Like, Known, Table
  <2>6. QED  BY <2>1, <2>2, <2>5 DEF Twin
<1>9. Twin(H[n], copy', m, AgreedBack(H[n])')  BY <1>2, <1>7, <1>8
<1>10. QED  BY <1>2, <1>3, <1>4, <1>5, <1>6, <1>7, <1>9 DEF Undoing, Times, RawIds

\* An inverse query takes the copy one database of the past back.
LEMMA RevertQuery ==
  ASSUME TypeInv, Reverting, applyInverseQueries, NEW H, History(H), NEW m, Undoing(H, m)
  PROVE  \E m2 : Undoing(H, m2)'
<1>1. UNCHANGED <<db, start, log, twins, resolved, installed, phase>>
  BY DEF applyInverseQueries
<1>2. PICK n \in Times : DOMAIN queries = 1 .. n /\ Twin(H[n], copy, m, AgreedBack(H[n]))
  BY DEF Undoing
<1>3. Len(log) \in Nat /\ DOMAIN log = 1 .. Len(log) /\ n \in 0 .. Len(log)
  BY DEF TypeInv, Times
<1>4. PICK k \in DOMAIN queries :
        /\ Foremost(k, DOMAIN queries)
        /\ copy' = RunQuery(copy, queries[k])
        /\ queries' = [j \in DOMAIN queries \ {k} |-> queries[j]]
  BY DEF applyInverseQueries
<1>5. \A j \in 1 .. n : j <= k  BY <1>2, <1>4 DEF Foremost, Reverting
<1>6. k = n /\ n \in 1 .. Len(log) /\ n - 1 \in 0 .. Len(log)  BY <1>2, <1>3, <1>4, <1>5
<1> DEFINE l == log[n]
           q == queries[n]
           t == l.table
           i == l.id
           r == l.change
           s == l.original
           kind == Backwards(l.kind)
           d == H[n]
           d2 == H[n - 1]
<1>7. IsChange(l)  BY <1>3, <1>6 DEF TypeInv, Changes
<1>8. /\ l.kind \in Kinds /\ t \in Table /\ i \in Nat /\ kind \in Kinds
      /\ kind # "DELETE" => s \in RowsOf(t)
      /\ kind # "INSERT" => r \in RowsOf(t)
      /\ l.kind # "INSERT" => s \in RowsOf(t)
      /\ l.kind = "INSERT" => s = <<>>
      /\ l.kind = "DELETE" => r = <<>>
  BY <1>7 DEF IsChange, Kinds, Backwards
<1>9. /\ IsDb(d) /\ Known(d) /\ ~HasTwins(d) /\ IsDb(d2) /\ Known(d2)
  BY <1>3, <1>6 DEF History, Databases, Times, Reverting
<1>10. Did(kind, t, i, r, s, d, d2)
  <2>1. Did(l.kind, t, i, s, r, d2, d)  BY <1>3, <1>6 DEF History, Chain, Change
  <2>2. QED  BY <2>1, Undone
<1>11. IsQueryOf(q, resolved, RawIds, kind, t, r, s)
  BY <1>4, <1>6 DEF Undoing
<1>12. copy' = RunQuery(copy, q) /\ DOMAIN queries' = 1 .. (n - 1)
       /\ \A j \in DOMAIN queries' : j \in DOMAIN queries /\ queries'[j] = queries[j]
  BY <1>2, <1>3, <1>4, <1>6
<1>13. IsDb(copy)  BY DEF TypeInv
<1>14. n \in DOMAIN log  BY <1>3, <1>6
<1> HIDE DEF kind
<1>15. ASSUME NEW x \in {r, s}, "parent" \in Given(x)
       PROVE  Right(copy, m, RawIds, x["parent"])
  <2> DEFINE p == x["parent"]
  <2>1. "parent" \in DOMAIN x /\ x["parent"] # 0  BY <1>15 DEF Given, NULL
  <2>2. x \in RowsOf(t)
    <3>1. Given(<<>>) = {}  BY DEF Given
    <3>2. QED  BY <1>7, <1>15, <3>1 DEF IsChange
  <2>3. t = "child" /\ p \in Nat /\ p # 0
    <3>1. DOMAIN x = Columns(t)  BY <1>8, <2>2, RowColumns
    <3>2. t = "child"  BY <1>8, <2>1, <3>1 DEF Columns, Table
    <3>3. QED  BY <1>8, <2>1, <2>2, <3>2, RowColumns
  <2>4. About(l, p)  BY <2>1, <2>3 DEF About
  <2>5. ~Deleted(p)
    BY <1>14, <2>4 DEF Deleted, ParentChange, Reverting, IdLost
  <2>6. To(m, p) = p  BY <2>3, <2>5 DEF Undoing, To
  <2>7. RawIds[p] = Raw(p)  BY <2>3 DEF RawIds
  <2>8. Raw(p).by = {} /\ Raw(p).id = p /\ Raw(p) # NotFound  BY <2>3 DEF Raw, NotFound
  <2>9. Refers(copy, Raw(p)) = p  BY <2>8 DEF Refers
  <2>10. QED  BY <2>6, <2>7, <2>8, <2>9 DEF Right
<1>16. Asks(q, copy, m, kind, t, r, s)
  BY <1>11, <1>15, AsksIs
<1>17. Nulls(kind, r, s)
  <2> SUFFICES ASSUME NEW c \in Nulled(s, r) PROVE c = "arn"
    BY DEF Nulls
  <2>1. QED  BY <1>14 DEF Reverting, NullLost
<1>18. Agrees(t, i, r, s, kind, AgreedBack(d), AgreedBack(d2))
  <2>1. ASSUME NEW j \in AgreedBack(d2), ~(t = "parent" /\ j = i)
        PROVE  j \in AgreedBack(d)
    <3>1. CASE j \notin NewIds  BY <3>1 DEF AgreedBack
    <3>2. CASE j \in NewIds
      <4>1. j \in Nat /\ j \in DOMAIN d2.parent /\ d2.parent[j].arn # 0  BY <3>2 DEF AgreedBack
      <4>2. j \in DOMAIN d.parent /\ d.parent[j] = d2.parent[j]
        <5>1. CASE t # "parent"
          <6>1. d2["parent"] = d["parent"]  BY <1>10, <5>1 DEF Did, Table
          <6>2. QED  BY <4>1, <6>1
        <5>2. CASE t = "parent"
          BY <1>8, <1>10, <2>1, <4>1, <5>2 DEF Did, Kinds
        <5>3. QED  BY <5>1, <5>2
      <4>3. QED  BY <4>1, <4>2 DEF AgreedBack
    <3>3. QED  BY <3>1, <3>2
  <2>2. ASSUME t = "parent", kind = "UPDATE", i \in AgreedBack(d2), s.arn = 0
        PROVE  i \in AgreedBack(d) /\ r.arn = 0
    <3>1. d2["parent"][i] = s  BY <1>10, <2>2 DEF Did
    <3>2. i \notin NewIds  BY <2>2, <3>1 DEF AgreedBack
    <3>3. i \in AgreedBack(d)  BY <1>8, <3>2 DEF AgreedBack
    <3>4. ~Inserted(l)  BY <3>2 DEF Inserted, NewIds
    <3>5. "arn" \notin Nulled(s, r)  BY <1>14, <3>4 DEF Reverting, NullLost
    <3>6. "arn" \in DOMAIN s /\ "arn" \in DOMAIN r
      <4>1. s \in RowsOf("parent") /\ r \in RowsOf("parent")  BY <1>8, <2>2
      <4>2. QED  BY <4>1, RowColumns DEF Table, Columns
    <3>7. r.arn = 0  BY <2>2, <3>5, <3>6 DEF Nulled, NULL
    <3>8. QED  BY <3>3, <3>7
  <2>3. ASSUME t = "parent", kind # "INSERT", r.arn # 0
        PROVE  i \in AgreedBack(d)
    <3>1. i \in DOMAIN d.parent /\ d.parent[i] = r
      BY <1>8, <1>10, <2>3 DEF Did, Kinds
    <3>2. QED  BY <1>8, <2>3, <3>1 DEF AgreedBack
  <2>4. QED  BY <2>1, <2>2, <2>3 DEF Agrees
<1>19. Twin(d, copy, m, AgreedBack(d))  BY <1>2
<1> HIDE DEF l, q, t, i, r, s, d, d2
<1>20. PICK m2 : /\ Twin(d2, RunQuery(copy, q), m2, AgreedBack(d2))
                 /\ Moves(kind, t, i, m, m2)
  BY <1>8, <1>9, <1>10, <1>13, <1>16, <1>17, <1>18, <1>19, TwinQuery
<1>21. ASSUME NEW p \in Nat, ~Deleted(p) PROVE m2["parent"][p] = p
  <2>1. m["parent"][p] = p  BY <1>21 DEF Undoing
  <2>2. ~(kind = "INSERT" /\ t = "parent" /\ p = i)
    <3> SUFFICES ASSUME kind = "INSERT", t = "parent", p = i PROVE Deleted(p)
      BY <1>21
    <3>1. l.kind = "DELETE"  BY <1>8 DEF kind, Backwards, Kinds
    <3>2. QED  BY <1>14, <3>1 DEF Deleted, ParentChange, l, t, i
  <2>3. "parent" \in Table  BY DEF Table
  <2>4. QED  BY <1>20, <2>1, <2>2, <2>3 DEF Moves
<1>22. \A k1 \in DOMAIN queries' :
         IsQueryOf(queries'[k1], resolved, RawIds, Backwards(log[k1].kind), log[k1].table,
                   log[k1].change, log[k1].original)
  BY <1>12 DEF Undoing
<1>23. n - 1 \in Times /\ AgreedBack(H[n - 1])' = AgreedBack(H[n - 1])
       /\ Twin(H[n - 1], copy', m2, AgreedBack(H[n - 1]))
  <2>1. n - 1 \in Times  BY <1>6 DEF Times
  <2>2. NewIds' = NewIds  BY <1>1 DEF NewIds
  <2>3. AgreedBack(H[n - 1])' = AgreedBack(H[n - 1])  BY <2>2 DEF AgreedBack
  <2>4. QED  BY <1>12, <1>20, <2>1, <2>3 DEF d2
<1>24. QED
  BY <1>1, <1>12, <1>21, <1>22, <1>23 DEF Undoing, Deleted, ParentChange, Times, RawIds

\* When no inverse query is left the copy is the database there was.
LEMMA RevertEnds ==
  ASSUME TypeInv, NEW H, History(H), NEW m, Undoing(H, m), DOMAIN queries = {}
  PROVE  Contents(copy, TRUE) = Contents(start, TRUE)
<1>1. PICK n \in Times : DOMAIN queries = 1 .. n /\ Twin(H[n], copy, m, AgreedBack(H[n]))
  BY DEF Undoing
<1>2. n = 0  BY <1>1 DEF Times, TypeInv
<1>3. Twin(start, copy, m, AgreedBack(start))  BY <1>1, <1>2 DEF History, Chain
<1>4. IsDb(start) /\ IsDb(copy)  BY DEF TypeInv
<1>5. DOMAIN start.parent \subseteq AgreedBack(start)
  <2> SUFFICES ASSUME NEW p \in DOMAIN start.parent PROVE p \in AgreedBack(start)
    OBVIOUS
  <2>1. p \in Nat /\ p < start.next /\ start.next \in Nat  BY <1>4 DEF IsDb
  <2>2. \A k \in DOMAIN log : log[k].kind = "INSERT" => log[k].id >= start.next /\ log[k].id \in Nat
    BY DEF History, FreshIds, TypeInv, Changes
  <2>3. p \notin NewIds  BY <2>1, <2>2 DEF NewIds
  <2>4. QED  BY <2>1, <2>3 DEF AgreedBack
<1>6. Contents(start, TRUE) = Contents(copy, TRUE)  BY <1>3, <1>4, <1>5, TwinContents
<1>7. QED  BY <1>6

-----------------------------------------------------------------------------
(* iasql_get_sql_since and iasql_get_sql_for_transaction.                  *)

\* What a sub-query looks for to find a parent.
Identified(e) ==
  [id |-> 0, by |-> IF e.arn # 0 THEN {<<"arn", e.arn>>} ELSE {<<c, e[c]>> : c \in Given(e)}]

\* The changes that are given.
Mine == {k \in DOMAIN log : phase = "since" \/ log[k].user = "user"}

Referred(p) == \E k \in DOMAIN log : About(log[k], p)

\* AWS's identifiers agree but for those of rows that changes not given wrote.
AgreedThere(L, j) == Nat \ {log[x].id : x \in (1 .. j) \ L}

Replayed(L, j) == \A k \in L : k <= j <=> k \notin DOMAIN queries

\* The first of the given changes have been made, and the others are left to make.
Replaying(H, m, w) ==
  /\ DOMAIN queries \subseteq Mine
  /\ \A a \in Mine \ DOMAIN queries : \A b \in DOMAIN queries : a < b
  /\ \A k \in DOMAIN queries :
       IsQueryOf(queries[k], resolved, w,
                 log[k].kind, log[k].table, log[k].original, log[k].change)
  /\ \A j \in Times : \A p \in DOMAIN H[j].parent :
       Referred(p) => w[p] = Identified(H[j].parent[p])
  /\ \A j \in Times : Replayed(Mine, j) => Twin(H[j], copy, m, AgreedThere(Mine, j))

Tellable == ~twins /\ ~NullKept /\ ~Renamed
Replays ==
  /\ phase = "since" \/ (phase = "transaction" /\ ~NamedAfter)
  /\ Tellable

\* A sub-query finds the parent that is the row's, when it has its name.
LEMMA SubQueryRight ==
  ASSUME NEW d, IsDb(d), Known(d), ~HasTwins(d), NEW e, IsDb(e),
         NEW m, NEW agreed, Twin(d, e, m, agreed),
         NEW p \in DOMAIN d.parent, p \in agreed,
         NEW w, w[p] = Identified(d.parent[p])
  PROVE  Right(e, m, w, p)
<1> DEFINE r == d.parent[p]
           v == w[p]
           y == m["parent"][p]
<1>1. r \in ParentRows /\ r.name \in Names /\ r.arn \in {0, p} /\ p # 0
  BY SentIs DEF IsDb, ParentRows, Known
<1>2. Like("parent", p, r, e.parent[y], m, agreed) /\ y \in DOMAIN e.parent
  BY DEF Twin, Table
<1>3. v = Identified(r)  OBVIOUS
<1>4. \A x \in DOMAIN e.parent : \E j \in DOMAIN d.parent :
        x = m["parent"][j] /\ Like("parent", j, d.parent[j], e.parent[x], m, agreed)
  BY DEF Twin, Table
<1>5. y # 0 /\ To(m, p) = y  BY SentIs
<1> HIDE DEF r, v, y
<1>6. Candidates(e, v) = {y} /\ v.by # {}
  <2>1. CASE r.arn # 0
    <3>1. v.by = {<<"arn", r.arn>>}  BY <1>3, <2>1 DEF Identified
    <3>2. Candidates(e, v) = {x \in DOMAIN e.parent : e.parent[x].arn = r.arn}
      BY <3>1 DEF Candidates
    <3>3. e.parent[y].arn = r.arn  BY <1>2 DEF Like
    <3>4. ASSUME NEW x \in DOMAIN e.parent, e.parent[x].arn = r.arn PROVE x = y
      <4>1. PICK j \in DOMAIN d.parent :
              x = m["parent"][j] /\ Like("parent", j, d.parent[j], e.parent[x], m, agreed)
        BY <1>4
      <4>2. e.parent[x].arn \in {0, j}  BY <4>1 DEF Like
      <4>3. j = p  BY <1>1, <2>1, <3>4, <4>2
      <4>4. QED  BY <4>1, <4>3 DEF y
    <3>5. QED  BY <1>2, <3>1, <3>2, <3>3, <3>4
  <2>2. CASE r.arn = 0
    <3>1. Given(r) = {"name"}
      <4>1. DOMAIN r = {"name", "arn"} /\ r.name # "NULL"
        BY <1>1, ReplayAssumption DEF ParentRows
      <4>2. QED  BY <2>2, <4>1 DEF Given, NULL
    <3>2. v.by = {<<"name", r.name>>}  BY <1>3, <2>2, <3>1 DEF Identified
    <3>3. Candidates(e, v) = {x \in DOMAIN e.parent : e.parent[x].name = r.name}
      BY <3>2 DEF Candidates
    <3>4. e.parent[y].name = r.name  BY <1>2 DEF Like
    <3>5. ASSUME NEW x \in DOMAIN e.parent, e.parent[x].name = r.name PROVE x = y
      <4>1. PICK j \in DOMAIN d.parent :
              x = m["parent"][j] /\ Like("parent", j, d.parent[j], e.parent[x], m, agreed)
        BY <1>4
      <4>2. d.parent[j].name = r.name  BY <3>5, <4>1 DEF Like
      <4>3. Alike(r, d.parent[j], "parent")  BY <3>1, <4>2 DEF Alike
      <4>4. j = p  BY <4>3 DEF HasTwins, Table, r
      <4>5. QED  BY <4>1, <4>4 DEF y
    <3>6. QED  BY <1>2, <3>2, <3>3, <3>4, <3>5
  <2>3. QED  BY <2>1, <2>2
<1>7. Cardinality({y}) = 1  BY FS_Singleton
<1>8. Refers(e, v) = y
  <2>1. Refers(e, v) = CHOOSE x \in {y} \cup {0} : x = 0 => {y} = {}
    BY <1>6 DEF Refers
  <2>2. QED  BY <1>5, <2>1
<1>9. v # NotFound
  BY <1>6 DEF NotFound, Raw
<1>10. QED  BY <1>5, <1>6, <1>7, <1>8, <1>9 DEF Right, v

\* Another database's twin stays one when only columns change that are not compared.
LEMMA TwinSameBut ==
  ASSUME NEW d, NEW e, NEW m, NEW agreed, Twin(d, e, m, agreed),
         NEW d2, NEW ids, SameBut(d, d2, ids),
         NEW after, after \subseteq agreed, after \cap ids = {}
  PROVE  Twin(d2, e, m, after)
<1>1. \A t \in Table : DOMAIN d2[t] = DOMAIN d[t]  BY DEF SameBut, Table
<1>2. ASSUME NEW t \in Table, NEW i \in DOMAIN d2[t]
      PROVE  Like(t, i, d2[t][i], e[t][m[t][i]], m, after)
  <2>1. Like(t, i, d[t][i], e[t][m[t][i]], m, agreed)  BY <1>1 DEF Twin
  <2>2. CASE t = "parent"  BY <2>1, <2>2, <1>1 DEF SameBut, Like
  <2>3. CASE t = "child"  BY <2>1, <2>3 DEF SameBut, Like
  <2>4. QED  BY <2>2, <2>3 DEF Table
<1>3. QED  BY <1>1, <1>2 DEF Twin

\* The other database is a twin of the one in which the transaction began.
LEMMA ElsewhereTwin ==
  ASSUME NEW d, IsDb(d), Known(d)
  PROVE  \E m : Twin(d, Elsewhere(d), m, Nat)
<1> DEFINE shift == Rows + Rows
           moved(is) == {i + shift : i \in is}
           e == Elsewhere(d)
<1>1. shift \in Nat  BY ReplayAssumption
<1>2. PICK m : m = [t \in Table |-> [i \in Nat |-> i + shift]]  OBVIOUS
<1>3. m \in Ids  BY <1>1, <1>2 DEF Ids
<1>4. \A t \in Table : \A i \in Nat : m[t][i] = i + shift  BY <1>2
<1>5. /\ e["parent"] = [i \in moved(DOMAIN d.parent) |-> d.parent[i - shift]]
      /\ e["child"] = [i \in moved(DOMAIN d.child) |->
           [d.child[i - shift] EXCEPT !.parent = IF @ = 0 THEN 0 ELSE @ + shift]]
  BY DEF Elsewhere
<1> HIDE DEF e, shift
<1>6. \A t \in Table : DOMAIN d[t] \subseteq Nat
  <2>1. \A t \in Table : DOMAIN d[t] \subseteq 1 .. (d.next - 1)  BY TableIs
  <2>2. d.next \in Nat  BY DEF IsDb
  <2>3. QED  BY <2>1, <2>2
<1>7. \A t \in Table : DOMAIN e[t] = {i + shift : i \in DOMAIN d[t]}  BY <1>5 DEF Table
<1>8. ASSUME NEW t \in Table, NEW i \in DOMAIN d[t]
      PROVE  Like(t, i, d[t][i], e[t][m[t][i]], m, Nat)
  <2>1. i \in Nat /\ m[t][i] = i + shift /\ i + shift \in moved(DOMAIN d[t])
    BY <1>4, <1>6
  <2>2. CASE t = "parent"
    <3>1. e["parent"][i + shift] = d.parent[i]
      <4>1. i + shift \in moved(DOMAIN d.parent) BY <2>1, <2>2
      <4>2. PICK x : x = i + shift  OBVIOUS
      <4>3. x \in moved(DOMAIN d.parent) /\ x - shift = i  BY <1>1, <2>1, <4>1, <4>2
      <4>4. e["parent"][x] = d.parent[x - shift]  BY <1>5, <4>3
      <4>5. QED  BY <4>2, <4>3, <4>4
    <3>2. QED  BY <2>1, <2>2, <3>1 DEF Like, Known
  <2>3. CASE t = "child"
    <3>1. e["child"][i + shift]
            = [d.child[i] EXCEPT !.parent = IF @ = 0 THEN 0 ELSE @ + shift]
      <4>1. i + shift \in moved(DOMAIN d.child) BY <2>1, <2>3
      <4>2. PICK x : x = i + shift  OBVIOUS
      <4>3. x \in moved(DOMAIN d.child) /\ x - shift = i  BY <1>1, <2>1, <4>1, <4>2
      <4>4. e["child"][x] = [d.child[x - shift] EXCEPT !.parent = IF @ = 0 THEN 0 ELSE @ + shift]
        BY <1>5, <4>3
      <4>5. QED  BY <4>2, <4>3, <4>4
    <3>2. d.child[i] \in ChildRows  BY <2>3 DEF IsDb
    <3>3. To(m, d.child[i].parent) = IF d.child[i].parent = 0 THEN 0 ELSE d.child[i].parent + shift
      BY <1>4, <3>2 DEF To, ChildRows, Table
    <3>4. QED  BY <2>1, <2>3, <3>1, <3>2, <3>3 DEF Like, ChildRows
  <2>4. QED  BY <2>2, <2>3 DEF Table
<1>9. ASSUME NEW t \in Table
       PROVE  /\ \A i \in DOMAIN d[t] : m[t][i] \in DOMAIN e[t]
              /\ \A x \in DOMAIN e[t] : \E i \in DOMAIN d[t] : m[t][i] = x
              /\ \A i, j \in DOMAIN d[t] : m[t][i] = m[t][j] => i = j
  BY <1>1, <1>4, <1>6, <1>7
<1>10. Twin(d, e, m, Nat)  BY <1>3, <1>8, <1>9 DEF Twin
<1>11. QED  BY <1>10 DEF e

\* The row that a sub-query is made from is the row there was.
LEMMA SubQueryIs ==
  ASSUME TypeInv, NEW H, History(H), NEW L, L \subseteq DOMAIN log,
         \A k \in DOMAIN log : log[k].user = "user" => k \in L,
         NEW j \in Times, NEW p \in DOMAIN H[j].parent,
         \A x \in DOMAIN log : ~ParentChange("UPDATE", x, p)
  PROVE  recreateSubQuery(L, p) = Identified(H[j].parent[p])
<1> DEFINE r == H[j].parent[p]
           rows == IF p \in DOMAIN db.parent THEN {db.parent[p]}
                   ELSE recreateEntitiesFromChangelogs(L, p)
<1>1. Len(log) \in Nat /\ DOMAIN log = 1 .. Len(log)  BY DEF TypeInv
<1>2. \A k \in Times : p \in DOMAIN H[k].parent => H[k].parent[p] = r
  BY DEF History, ParentsKept
<1> HIDE DEF r
<1>3. rows = {r}
  <2>1. CASE p \in DOMAIN db.parent
    <3>1. Len(log) \in Times /\ H[Len(log)] = db  BY <1>1 DEF Times, History, Chain
    <3>2. db.parent[p] = r  BY <1>2, <2>1, <3>1
    <3>3. QED  BY <2>1, <3>2
  <2>2. CASE p \notin DOMAIN db.parent
    <3> DEFINE of == {k \in L : log[k].table = "parent" /\ log[k].id = p}
               is(k) == IF log[k].change # <<>> THEN log[k].change ELSE log[k].original
    <3>1. rows = {is(k) : k \in {i \in of : \A x \in of : i <= x}}
      <4>1. recreateEntitiesFromChangelogs(L, p)
              = {is(k) : k \in {i \in of : \A x \in of : i <= x}}
        BY DEF recreateEntitiesFromChangelogs
      <4>2. QED  BY <2>2, <4>1
    <3>2. PICK x \in DOMAIN log : ParentChange("DELETE", x, p)
      BY <2>2 DEF History, ParentsGone
    <3>3. x \in of
      <4>1. log[x].user = "user"
        <5>1. Entered(log[x]) /\ log[x].user \in {"user", "engine"}
          BY DEF History, Chain, TypeInv, Changes
        <5>2. QED  BY <3>2, <5>1 DEF Entered, ParentChange
      <4>2. QED  BY <3>2, <4>1 DEF ParentChange
    <3>4. ASSUME NEW k \in of PROVE is(k) = r
      <4>1. k \in DOMAIN log /\ log[k].table = "parent" /\ log[k].id = p  OBVIOUS
      <4>2. IsChange(log[k]) /\ log[k].kind # "UPDATE"
        BY <4>1 DEF TypeInv, Changes, ParentChange
      <4>3. Did(log[k].kind, "parent", p, log[k].original, log[k].change, H[k - 1], H[k])
        BY <4>1 DEF History, Chain, Change
      <4>4. k \in Times /\ k - 1 \in Times  BY <1>1, <4>1 DEF Times
      <4>5. CASE log[k].kind = "INSERT"
        <5>1. p \in DOMAIN H[k]["parent"] /\ H[k]["parent"][p] = log[k].change
          BY <4>3, <4>5 DEF Did
        <5>2. log[k].change = r  BY <1>2, <4>4, <5>1
        <5>3. log[k].change # <<>>
          <6>1. log[k].change \in RowsOf("parent")  BY <4>1, <4>2, <4>5 DEF IsChange
          <6>2. DOMAIN log[k].change = {"name", "arn"}
            BY <6>1, RowColumns DEF Table, Columns
          <6>3. QED  BY <6>2
        <5>4. QED  BY <5>2, <5>3
      <4>6. CASE log[k].kind = "DELETE"
        <5>1. p \in DOMAIN H[k - 1]["parent"] /\ H[k - 1]["parent"][p] = log[k].original
          BY <4>3, <4>6 DEF Did
        <5>2. log[k].original = r  BY <1>2, <4>4, <5>1
        <5>3. log[k].change = <<>>  BY <4>2, <4>6 DEF IsChange
        <5>4. QED  BY <5>2, <5>3
      <4>7. QED  BY <4>2, <4>5, <4>6 DEF IsChange, Kinds
    <3>5. \E i \in of : \A k \in of : i <= k
      <4>1. of \subseteq Nat /\ of # {}  BY <1>1, <3>3
      <4> HIDE DEF of
      <4>2. PICK i \in of : \A k \in of : ~(<<k, i>> \in OpToRel(<, Nat))
        BY <4>1, NatLessThanWellFounded, WFMin
      <4>3. \A k \in of : ~(k < i)  BY <4>1, <4>2 DEF OpToRel
      <4>4. QED  BY <4>1, <4>3
    <3> HIDE DEF of, is
    <3>6. QED  BY <3>1, <3>4, <3>5
  <2>3. QED  BY <2>1, <2>2
<1>4. recreateSubQuery(L, p) = IF rows = {} THEN NotFound ELSE Identified(CHOOSE e \in rows : TRUE)
  BY DEF recreateSubQuery, Identified
<1> HIDE DEF rows
<1>5. (CHOOSE e \in {r} : TRUE) = r  OBVIOUS
<1>6. recreateSubQuery(L, p) = Identified(r)  BY <1>3, <1>4, <1>5
<1>7. QED  BY <1>6 DEF r

\* Changes that are not given change nothing but AWS's identifiers.
LEMMA NotMine ==
  ASSUME TypeInv, NEW H, History(H), NEW L \in SUBSET DOMAIN log,
         \A k \in DOMAIN log : log[k].user = "user" => k \in L,
         NEW e, NEW m, NEW i \in Times, Twin(H[i], e, m, AgreedThere(L, i)),
         NEW j \in Times, i <= j, \A k \in L : k <= j => k <= i
  PROVE  Twin(H[j], e, m, AgreedThere(L, j))
<1>1. Len(log) \in Nat /\ DOMAIN log = 1 .. Len(log)  BY DEF TypeInv
<1>2. i \in 0 .. Len(log) /\ j \in 0 .. Len(log)  BY DEF Times
<1>3. \A x \in (i + 1) .. j : x \in DOMAIN log /\ x \notin L /\ ~(x <= i) /\ x <= j /\ x \in 1 .. j
  BY <1>1, <1>2
<1>4. \A x \in (i + 1) .. j : log[x].user = "engine"
  BY <1>3 DEF TypeInv, Changes
<1>5. SameBut(H[i], H[j], {log[x].id : x \in (i + 1) .. j})
  BY <1>4 DEF History, EngineRuns
<1>6. AgreedThere(L, j) \subseteq AgreedThere(L, i)
  <2>1. \A x \in 1 .. i : x \in 1 .. j  BY <1>2
  <2>2. QED  BY <2>1 DEF AgreedThere
<1>7. AgreedThere(L, j) \cap {log[x].id : x \in (i + 1) .. j} = {}
  BY <1>3 DEF AgreedThere
<1>8. QED  BY <1>5, <1>6, <1>7, TwinSameBut

\* When the user has the SQL the copy is the database before all changes.
LEMMA ReplayStarts ==
  ASSUME TypeInv, GetSqlSince \/ GetSqlForTransaction, phase' \in {"since", "transaction"},
         Tellable, NEW H, History(H)
  PROVE  \E m, w : Replaying(H, m, w)'
<1>1. /\ copy' = Elsewhere(start) /\ UNCHANGED <<db, start, log, twins, resolved, installed>>
      /\ queries' = recreateQueries(Mine', FALSE, TRUE)
  <2>1. CASE GetSqlSince
    <3>1. phase' = "since" /\ log' = log  BY <2>1 DEF GetSqlSince, Ask
    <3>2. Mine' = getChangeLogs  BY <3>1 DEF Mine, getChangeLogs
    <3>3. QED  BY <2>1, <3>1, <3>2 DEF GetSqlSince, Ask
  <2>2. CASE GetSqlForTransaction
    <3>1. phase' = "transaction" /\ log' = log  BY <2>2 DEF GetSqlForTransaction, Ask
    <3>2. Mine' = getUserChangeLogsByTransaction
      BY <3>1 DEF Mine, getUserChangeLogsByTransaction
    <3>3. QED  BY <2>2, <3>1, <3>2 DEF GetSqlForTransaction, Ask
  <2>3. QED  BY <2>1, <2>2
<1>2. PICK L : L = Mine'  OBVIOUS
<1>3. L \in SUBSET DOMAIN log /\ \A k \in DOMAIN log : log[k].user = "user" => k \in L
  BY <1>1, <1>2 DEF Mine
<1>4. PICK w : w = [p \in Nat |-> augmentValue(L, TRUE, "parent", p)]  OBVIOUS
<1>5. \A p \in Nat : w[p] = augmentValue(L, TRUE, "parent", p) /\ w[p] = recreateSubQuery(L, p)
  BY <1>4 DEF augmentValue
<1>6. ASSUME NEW k \in L
      PROVE  IsQueryOf(queries'[k], resolved, w,
                       log[k].kind, log[k].table, log[k].original, log[k].change)
  <2> DEFINE l == log[k]
             q == queries'[k]
  <2>1. q = getFormattedQuery(l, FALSE, Entries(L, TRUE, l.original), Entries(L, TRUE, l.change))
    BY <1>1, <1>2 DEF recreateQueries
  <2>2. IsChange(l)  BY <1>3 DEF TypeInv, Changes
  <2> HIDE DEF l, q
  <2>3. IsQueryOf(q, resolved, w, l.kind, l.table, l.original, l.change)
    BY <1>5, <2>1, <2>2, FormattedIs
  <2>4. QED  BY <2>3 DEF l, q
<1>7. DOMAIN queries' = L  BY <1>1, <1>2 DEF recreateQueries
<1>8. ASSUME NEW j \in Times, NEW p \in DOMAIN H[j].parent, Referred(p)
      PROVE  w[p] = Identified(H[j].parent[p])
  <2>1. \A x \in DOMAIN log : ~ParentChange("UPDATE", x, p)
    BY <1>8 DEF Tellable, Renamed, Referred, ParentChange
  <2>2. p \in Nat  BY DEF History, Databases, IsDb
  <2>3. recreateSubQuery(L, p) = Identified(H[j].parent[p])
    BY <1>3, <2>1, SubQueryIs
  <2>4. QED  BY <1>5, <2>2, <2>3
<1>9. Len(log) \in Nat /\ DOMAIN log = 1 .. Len(log) /\ 0 \in Times /\ H[0] = start
  BY DEF TypeInv, Times, History, Chain
<1>10. PICK m : Twin(start, Elsewhere(start), m, Nat)
  BY <1>9, ElsewhereTwin DEF History, Databases
<1>11. Twin(H[0], copy', m, AgreedThere(L, 0))
  <2>1. AgreedThere(L, 0) = Nat  BY DEF AgreedThere
  <2>2. QED  BY <1>1, <1>9, <1>10, <2>1
<1>12. ASSUME NEW j \in Times, Replayed(L, j)'
       PROVE  Twin(H[j], copy', m, AgreedThere(L, j))
  <2>1. \A k \in L : ~(k <= j)  BY <1>7, <1>12 DEF Replayed
  <2>2. 0 <= j  BY DEF Times
  <2>3. QED  BY <1>3, <1>9, <1>11, <2>1, <2>2, NotMine
<1>13. Times' = Times /\ Mine' = L  BY <1>1, <1>2 DEF Times
<1>14. \A p : Referred(p)' <=> Referred(p)  BY <1>1 DEF Referred, About
<1>15. \A j : AgreedThere(L, j)' = AgreedThere(L, j)  BY <1>1 DEF AgreedThere
<1>16. /\ DOMAIN queries' \subseteq L
       /\ \A a \in L \ DOMAIN queries' : \A b \in DOMAIN queries' : a < b
       /\ \A k \in DOMAIN queries' :
            IsQueryOf(queries'[k], resolved', w,
                      log'[k].kind, log'[k].table, log'[k].original, log'[k].change)
  BY <1>1, <1>6, <1>7
<1>17. \A j \in Times' : \A p \in DOMAIN H[j].parent :
         Referred(p)' => w[p] = Identified(H[j].parent[p])
  BY <1>8, <1>13, <1>14
<1>18. \A j \in Times' : Replayed(L, j)' => Twin(H[j], copy', m, AgreedThere(L, j)')
  BY <1>12, <1>13, <1>15
<1>19. Replaying(H, m, w)'
  BY <1>13, <1>16, <1>17, <1>18 DEF Replaying, Replayed, AgreedThere
<1>20. QED  BY <1>19

\* When no query is left the copy is what the database is.
LEMMA ReplayEnds ==
  ASSUME TypeInv, NEW H, History(H), NEW m, NEW w, Replaying(H, m, w), DOMAIN queries = {}
  PROVE  Contents(copy, FALSE) = Contents(db, FALSE)
<1> DEFINE n == Len(log)
<1>1. n \in Nat /\ DOMAIN log = 1 .. n /\ n \in Times /\ H[n] = db
  BY DEF TypeInv, Times, History, Chain
<1>2. Replayed(Mine, n)  BY <1>1 DEF Replayed, Mine
<1>3. Twin(db, copy, m, AgreedThere(Mine, n))  BY <1>1, <1>2 DEF Replaying
<1>4. IsDb(db) /\ IsDb(copy)  BY DEF TypeInv
<1>5. Contents(db, FALSE) = Contents(copy, FALSE)  BY <1>3, <1>4, TwinContents
<1>6. QED  BY <1>5

\* A query takes the copy to the database of the past after its change.
LEMMA ReplayQuery ==
  ASSUME TypeInv, Replays, applyInverseQueries, NEW H, History(H),
         NEW m, NEW w, Replaying(H, m, w)
  PROVE  \E m2 : Replaying(H, m2, w)'
<1>1. UNCHANGED <<db, start, log, twins, resolved, installed, phase>>
  BY DEF applyInverseQueries
<1>2. PICK n \in DOMAIN queries :
        /\ Foremost(n, DOMAIN queries)
        /\ copy' = RunQuery(copy, queries[n])
        /\ queries' = [j \in DOMAIN queries \ {n} |-> queries[j]]
  BY DEF applyInverseQueries
<1>3. Len(log) \in Nat /\ DOMAIN log = 1 .. Len(log)  BY DEF TypeInv
<1>4. PICK L : L = Mine  OBVIOUS
<1>5. /\ L \in SUBSET DOMAIN log /\ \A k \in DOMAIN log : log[k].user = "user" => k \in L
      /\ DOMAIN queries \subseteq L /\ \A a \in L \ DOMAIN queries : \A b \in DOMAIN queries : a < b
  BY <1>4 DEF Mine, Replaying
<1>6. /\ n \in L /\ n \in DOMAIN log /\ n \in Times /\ n - 1 \in Times /\ n \in Nat
      /\ \A b \in DOMAIN queries : n <= b
  BY <1>2, <1>3, <1>5 DEF Times, Foremost, Replays
<1>7. Twin(H[n - 1], copy, m, AgreedThere(L, n - 1))
  <2>1. Replayed(L, n - 1)
    <3>1. L \subseteq Nat  BY <1>3, <1>5
    <3>2. ASSUME NEW a \in L PROVE a <= n - 1 <=> a \notin DOMAIN queries
      BY <1>2, <1>5, <1>6, <3>1
    <3>3. QED  BY <3>2 DEF Replayed
  <2>2. QED  BY <1>4, <1>6, <2>1 DEF Replaying
<1> DEFINE l == log[n]
           q == queries[n]
           t == l.table
           i == l.id
           r == l.original
           s == l.change
           kind == l.kind
           d == H[n - 1]
           d2 == H[n]
           agreed == AgreedThere(L, n - 1)
<1>8. IsChange(l) /\ l.user \in {"user", "engine"} /\ Entered(l)
  BY <1>6 DEF TypeInv, Changes, History, Chain
<1>9. /\ kind \in Kinds /\ t \in Table /\ i \in Nat
      /\ kind # "DELETE" => s \in RowsOf(t)
      /\ kind # "INSERT" => r \in RowsOf(t)
      /\ kind = "INSERT" => r = <<>>
      /\ kind = "DELETE" => s = <<>>
  BY <1>8 DEF IsChange
<1>10. /\ IsDb(d) /\ Known(d) /\ ~HasTwins(d) /\ IsDb(d2) /\ Known(d2)
  BY <1>6 DEF History, Databases, Replays, Tellable
<1>11. Did(kind, t, i, r, s, d, d2)  BY <1>6 DEF History, Chain, Change
<1>12. IsQueryOf(q, resolved, w, kind, t, r, s)  BY <1>2 DEF Replaying
<1>13. IsDb(copy)  BY DEF TypeInv
<1>14. ASSUME NEW x \in (1 .. (n - 1)) \ L
       PROVE  x \in DOMAIN log /\ x < n /\ log[x].user = "engine"
              /\ ParentChange("UPDATE", x, log[x].id) /\ phase = "transaction"
  <2>1. x \in DOMAIN log /\ x < n  BY <1>3, <1>6
  <2>2. log[x].user = "engine"  BY <1>5, <2>1 DEF TypeInv, Changes
  <2>3. Entered(log[x])  BY <2>1 DEF History, Chain
  <2>4. phase # "since"  BY <1>4, <2>1 DEF Mine
  <2>5. QED  BY <2>1, <2>2, <2>3, <2>4 DEF Entered, ParentChange, Replays
<1>15. ASSUME NEW x \in {r, s}, "parent" \in Given(x)
       PROVE  Right(copy, m, w, x["parent"])
  <2> DEFINE p == x["parent"]
  <2>1. "parent" \in DOMAIN x /\ x["parent"] # 0  BY <1>15 DEF Given, NULL
  <2>2. x \in RowsOf(t)
    <3>1. Given(<<>>) = {}  BY DEF Given
    <3>2. QED  BY <1>8, <1>15, <3>1 DEF IsChange
  <2>3. t = "child"
    <3>1. DOMAIN x = Columns(t)  BY <1>9, <2>2, RowColumns
    <3>2. QED  BY <1>9, <2>1, <3>1 DEF Columns, Table
  <2>4. About(l, p)  BY <2>1, <2>3 DEF About
  <2>5. Referred(p)  BY <1>6, <2>4 DEF Referred
  <2>6. p \in DOMAIN d.parent
    <3>1. d2["parent"] = d["parent"]  BY <1>11, <2>3 DEF Did, Table
    <3>2. \/ i \in DOMAIN d["child"] /\ d["child"][i] = x
          \/ i \in DOMAIN d2["child"] /\ d2["child"][i] = x
      BY <1>9, <1>11, <1>15, <2>1, <2>3 DEF Did, Kinds
    <3>3. QED  BY <1>10, <2>1, <3>1, <3>2 DEF IsDb
  <2>7. p \in agreed
    <3>1. p \in Nat  BY <1>9, <2>2, <2>3, RowColumns
    <3>2. ASSUME NEW x2 \in (1 .. (n - 1)) \ L, log[x2].id = p PROVE FALSE
      BY <1>6, <1>14, <2>4, <3>2 DEF ParentChange, Replays, Tellable, Renamed
    <3>3. QED  BY <3>1, <3>2 DEF AgreedThere
  <2>8. w[p] = Identified(d.parent[p])  BY <1>6, <2>5, <2>6 DEF Replaying
  <2>9. QED  BY <1>7, <1>10, <1>13, <2>6, <2>7, <2>8, SubQueryRight
<1>16. Asks(q, copy, m, kind, t, r, s)
  BY <1>12, <1>15, AsksIs
<1>17. Nulls(kind, r, s)
  BY <1>6 DEF Nulls, Replays, Tellable, NullKept
<1>18. AgreedThere(L, n) = agreed
  <2>1. (1 .. n) \ L = (1 .. (n - 1)) \ L  BY <1>6
  <2>2. QED  BY <2>1 DEF AgreedThere
<1>19. Agrees(t, i, r, s, kind, agreed, AgreedThere(L, n))
  <2>1. ASSUME t = "parent", kind = "UPDATE", s.arn = 0
        PROVE  r.arn = 0
    <3>1. i \in DOMAIN d["parent"]  BY <1>11, <2>1 DEF Did
    <3>2. i # 0  BY <1>10, <3>1 DEF IsDb
    <3>3. l.user # "engine"  BY <1>8, <2>1, <3>2 DEF Entered
    <3>4. QED  BY <1>8, <2>1, <3>3 DEF Entered
  <2>2. ASSUME t = "parent", kind # "INSERT", r.arn # 0
        PROVE  i \in agreed
    <3> SUFFICES ASSUME NEW x \in (1 .. (n - 1)) \ L, log[x].id = i PROVE FALSE
      BY <1>9 DEF AgreedThere
    <3>1. phase = "transaction" /\ x \in DOMAIN log /\ log[x].user = "engine" /\ x < n
      BY <1>14
    <3>2. l.user = "user"  BY <1>4, <1>6, <3>1 DEF Mine
    <3>3. NamedAfter  BY <1>6, <2>2, <3>1, <3>2 DEF NamedAfter
    <3>4. QED  BY <3>1, <3>3 DEF Replays
  <2>3. QED  BY <1>18, <2>1, <2>2 DEF Agrees
<1> HIDE DEF l, q, t, i, r, s, d, d2, agreed, kind
<1>20. Twin(d, copy, m, agreed)  BY <1>7 DEF d, agreed
<1>21. PICK m2 : Twin(d2, RunQuery(copy, q), m2, AgreedThere(L, n)) /\ Moves(kind, t, i, m, m2)
  BY <1>9, <1>10, <1>11, <1>13, <1>16, <1>17, <1>19, <1>20, TwinQuery
<1>22. Twin(H[n], copy', m2, AgreedThere(L, n))  BY <1>2, <1>21 DEF q, d2
<1>23. DOMAIN queries' = DOMAIN queries \ {n}
       /\ \A k \in DOMAIN queries' : k \in DOMAIN queries /\ queries'[k] = queries[k]
  BY <1>2
<1>24. ASSUME NEW j \in Times, Replayed(L, j)'
       PROVE  Twin(H[j], copy', m2, AgreedThere(L, j))
  <2>1. n <= j  BY <1>6, <1>23, <1>24 DEF Replayed
  <2>2. ASSUME NEW a \in L, a <= j PROVE a <= n
    <3>1. a \notin DOMAIN queries'  BY <1>24, <2>2 DEF Replayed
    <3>2. a = n \/ a < n  BY <1>2, <1>5, <1>23, <3>1
    <3>3. QED  BY <1>3, <1>5, <1>6, <3>2
  <2>3. QED  BY <1>5, <1>6, <1>22, <2>1, <2>2, NotMine
<1>25. Times' = Times /\ Mine' = L  BY <1>1, <1>4 DEF Times, Mine
<1>26. \A p : Referred(p)' <=> Referred(p)  BY <1>1 DEF Referred, About
<1>27. \A j : AgreedThere(L, j)' = AgreedThere(L, j)  BY <1>1 DEF AgreedThere
<1>28. DOMAIN queries' \subseteq L  BY <1>5, <1>23
<1>29. \A a \in L \ DOMAIN queries' : \A b \in DOMAIN queries' : a < b
  <2> SUFFICES ASSUME NEW a \in L \ DOMAIN queries', NEW b \in DOMAIN queries' PROVE a < b
    OBVIOUS
  <2>1. a = n \/ a \notin DOMAIN queries  BY <1>23
  <2>2. b \in DOMAIN queries /\ b # n  BY <1>23
  <2>3. b \in Nat /\ n <= b  BY <1>3, <1>5, <1>6, <2>2
  <2>4. QED  BY <1>5, <1>6, <2>1, <2>2, <2>3
<1>30. \A k \in DOMAIN queries' :
         IsQueryOf(queries'[k], resolved', w,
                   log'[k].kind, log'[k].table, log'[k].original, log'[k].change)
  BY <1>1, <1>23 DEF Replaying
<1>31. \A j \in Times' : \A p \in DOMAIN H[j].parent :
         Referred(p)' => w[p] = Identified(H[j].parent[p])
  BY <1>25, <1>26 DEF Replaying
<1>32. \A j \in Times' : Replayed(L, j)' => Twin(H[j], copy', m2, AgreedThere(L, j)')
  BY <1>24, <1>25, <1>27
<1>33. Replaying(H, m2, w)'
  BY <1>25, <1>28, <1>29, <1>30, <1>31, <1>32 DEF Replaying, Replayed, AgreedThere
<1>34. QED  BY <1>33

\* The databases of the past, and where a revert or a replay is in them.
PastInv ==
  installed = Table =>
    \E H : /\ History(H)
           /\ Reverting => \E m : Undoing(H, m)
           /\ Replays => \E m, w : Replaying(H, m, w)

\* The copy is, at each time, a twin of one of the databases of the past.
LEMMA PastStep ==
  ASSUME TypeInv, PastInv, [Next]_vars
  PROVE  PastInv'
<1> SUFFICES ASSUME installed' = Table
             PROVE  \E H : /\ History(H)'
                           /\ Reverting' => \E m : Undoing(H, m)'
                           /\ Replays' => \E m, w : Replaying(H, m, w)'
  BY DEF PastInv
<1>1. CASE UserInserts \/ UserUpdates \/ UserDeletes \/ EngineWrites
  <2>1. phase = "open" /\ Changed /\ \E c : Made(c)  BY <1>1, MadeIs
  <2>2. installed = Table /\ phase' = "open"  BY <2>1 DEF Changed
  <2>3. PICK H : History(H)  BY <2>2 DEF PastInv
  <2>4. PICK G : History(G)'  BY <2>1, <2>3, HistoryMade
  <2>5. ~Reverting' /\ ~Replays'  BY <2>2 DEF Reverting, Replays
  <2>6. QED  BY <2>4, <2>5
<1>2. CASE Uninstall
  <2>1. installed' = {"parent"}  BY <1>2 DEF Uninstall
  <2>2. QED  BY <2>1 DEF Table
<1>3. CASE Revert \/ GetSqlSince \/ GetSqlForTransaction
  <2>1. /\ UNCHANGED <<db, start, log, twins, resolved, installed>>
        /\ Revert => phase' \in {"revert", "thrown"}
        /\ GetSqlSince => phase' \in {"since", "thrown"}
        /\ GetSqlForTransaction => phase' \in {"transaction", "thrown"}
    BY <1>3 DEF Revert, GetSqlSince, GetSqlForTransaction, Ask
  <2>2. PICK H : History(H)  BY <2>1 DEF PastInv
  <2>3. History(H)'  BY <2>1, <2>2, HistorySame
  <2>4. Reverting' => \E m : Undoing(H, m)'
    <3> SUFFICES ASSUME Reverting' PROVE \E m : Undoing(H, m)'
      OBVIOUS
    <3>1. phase' = "revert"  BY DEF Reverting
    <3>2. Revert  BY <1>3, <2>1, <3>1
    <3>3. QED  BY <2>2, <3>1, <3>2, RevertStarts
  <2>5. Replays' => \E m, w : Replaying(H, m, w)'
    <3> SUFFICES ASSUME Replays' PROVE \E m, w : Replaying(H, m, w)'
      OBVIOUS
    <3>1. phase' \in {"since", "transaction"}  BY DEF Replays
    <3>2. GetSqlSince \/ GetSqlForTransaction  BY <1>3, <2>1, <3>1
    <3>3. Tellable  BY <2>1 DEF Replays, Tellable, NullKept, Renamed, About, Nulled
    <3>4. QED  BY <2>2, <3>1, <3>2, <3>3, ReplayStarts
  <2>6. QED  BY <2>3, <2>4, <2>5
<1>4. CASE applyInverseQueries
  <2>1. UNCHANGED <<db, start, log, twins, resolved, installed, phase>>
    BY <1>4 DEF applyInverseQueries
  <2>2. PICK H : /\ History(H)
                 /\ Reverting => \E m : Undoing(H, m)
                 /\ Replays => \E m, w : Replaying(H, m, w)
    BY <2>1 DEF PastInv
  <2>3. History(H)'  BY <2>1, <2>2, HistorySame
  <2>4. Reverting' => Reverting
    BY <2>1 DEF Reverting, NullLost, IdLost, Inserted, About, Nulled
  <2>5. Replays' => Replays
    BY <2>1 DEF Replays, Tellable, NullKept, Renamed, NamedAfter, About, Nulled
  <2>6. Reverting' => \E m : Undoing(H, m)'
    BY <1>4, <2>2, <2>4, RevertQuery
  <2>7. Replays' => \E m, w : Replaying(H, m, w)'
    <3> SUFFICES ASSUME Replays' PROVE \E m, w : Replaying(H, m, w)'
      OBVIOUS
    <3>1. PICK m, w : Replaying(H, m, w)  BY <2>2, <2>5
    <3>2. \E m2 : Replaying(H, m2, w)'  BY <1>4, <2>2, <2>5, <3>1, ReplayQuery
    <3>3. QED  BY <3>2
  <2>8. QED  BY <2>3, <2>6, <2>7
<1>5. CASE UNCHANGED vars
  <2>1. UNCHANGED <<db, start, log, twins, resolved, installed, phase, queries, copy>>
    BY <1>5 DEF vars
  <2>2. PICK H : /\ History(H)
                 /\ Reverting => \E m : Undoing(H, m)
                 /\ Replays => \E m, w : Replaying(H, m, w)
    BY <2>1 DEF PastInv
  <2>3. History(H)'  BY <2>1, <2>2, HistorySame
  <2>4. Reverting' => Reverting
    BY <2>1 DEF Reverting, NullLost, IdLost, Inserted, About, Nulled
  <2>5. Replays' => Replays
    BY <2>1 DEF Replays, Tellable, NullKept, Renamed, NamedAfter, About, Nulled
  <2>6. \A d : AgreedBack(d)' = AgreedBack(d)  BY <2>1 DEF AgreedBack, NewIds
  <2>7. \A m : Undoing(H, m) => Undoing(H, m)'
    BY <2>1, <2>6 DEF Undoing, Deleted, ParentChange, Times, RawIds
  <2>8. \A j : AgreedThere(Mine, j)' = AgreedThere(Mine, j)
    BY <2>1 DEF AgreedThere, Mine
  <2>9. \A m, w : Replaying(H, m, w) => Replaying(H, m, w)'
    BY <2>1, <2>8 DEF Replaying, Mine, Replayed, Referred, About, Times
  <2>10. QED  BY <2>2, <2>3, <2>4, <2>5, <2>7, <2>9
<1>6. QED  BY <1>1, <1>2, <1>3, <1>4, <1>5 DEF Next, Over

LEMMA PastAlways == Spec => []PastInv
<1>1. Init => PastInv
  <2> SUFFICES ASSUME Init PROVE PastInv  OBVIOUS
  <2>1. \E H : History(H)  BY TypeInit, HistoryInit
  <2>2. ~Reverting /\ ~Replays  BY DEF Init, Reverting, Replays
  <2>3. QED  BY <2>1, <2>2 DEF PastInv
<1>2. TypeInv /\ PastInv /\ [Next]_vars => PastInv'  BY PastStep
<1>3. QED  BY <1>1, <1>2, TypeAlways, PTL DEF Spec

\* A failed commit's inverse queries bring the tables back to what they were, with
\* other ids perhaps, as long as rows could be told apart, no NULL was overwritten and
\* no parent was deleted of which children were changed (revert, applyInverseQueries).
THEOREM RevertSound == Spec => []RevertRestores
<1>1. TypeInv /\ PastInv => RevertRestores
  <2> SUFFICES ASSUME TypeInv, PastInv, Ran("revert"), installed = Table, ~NullLost, ~IdLost
               PROVE  Contents(copy, TRUE) = Contents(start, TRUE)
    BY DEF RevertRestores
  <2>1. PICK H, m : History(H) /\ Undoing(H, m)
    BY DEF PastInv, Ran, Reverting
  <2>2. QED  BY <2>1, RevertEnds DEF Ran
<1>2. QED  BY <1>1, TypeAlways, PastAlways, PTL

\* The SQL that a user is given makes another database of the account what this one
\* is, with other ids, as long as rows could be told apart, nothing became NULL and no
\* parent was renamed of which children were changed
\* (iasql_get_sql_since, iasql_get_sql_for_transaction).
THEOREM ReplaySound == Spec => []ReplayReproduces
<1>1. TypeInv /\ PastInv => ReplayReproduces
  <2> SUFFICES ASSUME TypeInv, PastInv, installed = Table, ~NullKept, ~Renamed,
                      Ran("since") \/ (Ran("transaction") /\ ~NamedAfter)
               PROVE  Contents(copy, FALSE) = Contents(db, FALSE)
    BY DEF ReplayReproduces
  <2>1. Replays  BY DEF Ran, Replays, Tellable
  <2>2. PICK H, m, w : History(H) /\ Replaying(H, m, w)
    BY <2>1 DEF PastInv
  <2>3. QED  BY <2>2, ReplayEnds DEF Ran
<1>2. QED  BY <1>1, TypeAlways, PastAlways, PTL
=============================================================================
