------------------------------- MODULE Plans -------------------------------
(***************************************************************************)
(* The vocabulary in which the modules of this project say what a handler  *)
(* of a mapper does.  A handler (cloud.create, update or delete of a       *)
(* mapper in src/modules) is a sequence of awaited calls: it is            *)
(* written as the sequence of its steps, and which steps those are depends *)
(* on a situation, what the handler's conditions look at.  MapperRun says  *)
(* what a step does and runs the plans.                                    *)
(***************************************************************************)
EXTENDS Sequences, Naturals

Deeds == {"need", "look", "ask", "make", "set", "clear", "drop", "poll", "get",
          "save", "link", "restore", "forget", "keep", "erase", "db", "refuse",
          "skip", "try", "enter", "catch", "resume", "aside", "once", "adopt", "return", "rethrow",
          "store", "another", "swap", "memo", "recall"}

Step(do, f) == [do |-> do, f |-> f]

(* Calls to the cloud.  A call may fail: the handler then throws.          *)
Make(f)  == Step("make", f)   \* create the resource, giving it the columns f
MakeAside(f) == Step("aside", f)  \* the same, under a name nothing else has
MakeOnce(f) == Step("once", f)    \* the same, or take the one of that name there is
Swap(f)  == Step("swap", f)   \* one call that puts a new resource in the place of the old
Set(f)   == Step("set", f)    \* give the columns f of the resource the entity's
Clear(f) == Step("clear", f)  \* empty the columns f of the resource
Drop     == Step("drop", {})  \* delete the resource of the cloud record
DropAgain == Step("drop", {"again"}) \* the same, where it may be gone already
Poll     == Step("poll", {})  \* a waiter: until the resource is ready, or gone, or time is up
PollOrThrow == Step("poll", {"throws"}) \* the same, but it throws when time is up
Get      == Step("get", {})   \* read the resource back; finding none ends the handler
Ask      == Step("ask", {})   \* any other read

(* Statements on the database.                                             *)
Save     == Step("save", {})    \* db.update of what Get returned
Adopt    == Step("adopt", {})   \* the row becomes that of a resource there is
SaveBut(f) == Step("save", f)    \* the same, but for columns that stay as they are
Store    == Step("store", {})   \* the same, but not returned: memory keeps what it had
Another  == Step("another", {}) \* a row of its own for what the handler made
Link     == Step("link", {})    \* the row takes the identifiers of the resource
Restore  == Step("restore", {}) \* db.update of the memoized cloud record
Keep     == Step("keep", {})    \* the row is made again, unless there is one
Erase    == Step("erase", {})   \* db.delete of the entity
Db       == Step("db", {})      \* a statement on other tables

(* The rest.                                                               *)
Need     == Step("need", {})   \* throws while what the entity refers to has no id
Skip     == Step("skip", {})   \* passes on to the next entity until it has
Look     == Step("look", {})   \* throws when the cloud record left the memo
Forget   == Step("forget", {}) \* the cloud record leaves the memo
Memo     == Step("memo", {})   \* the cloud record in the memo takes the entity's values
Refuse   == Step("refuse", {}) \* throws what the user is meant to read
Break    == Step("refuse", {"broken"}) \* a call that cannot but fail
Return   == Step("return", {}) \* what the handler made, in memory; throws if nothing
ReturnAny == Step("return", {"any"}) \* the same, if it made anything
Recall(f) == Step("recall", f) \* the memoized cloud record but for columns f, in memory
Rethrow  == Step("rethrow", {}) \* throws an error it caught, or goes on, by its kind
TryThis  == Step("try", {})    \* where a try block begins,
Catch    == Step("catch", {})  \* where its catch block does,
Enter    == Step("enter", {})  \* where a handler called by another begins,
Resume   == Step("resume", {}) \* and where such a block ends

\* try { p } catch { q }
Try(p, q) == <<TryThis>> \o p \o <<Catch>> \o q \o <<Resume>>

\* A handler called by another, which goes on after it.
Call(p) == <<Enter>> \o p \o <<Resume>>

\* Crud.delete of a mapper whose handler is p, called by another handler: when p
\* returns, the cloud record leaves the memo.
Deleting(p) == Call(p) \o <<Forget>>

\* Crud.create of one, in the same way.  It memoizes the entity first, and what
\* has its entityId already takes its values: the cloud record the caller holds
\* is from then on no longer what the cloud has.  If p throws it leaves the memo.
\* What p saves the caller may return, or not.
Stored(p) == [i \in 1 .. Len(p) |-> IF p[i].do = "save" THEN Step("store", p[i].f) ELSE p[i]]
Creating(p) == <<Memo, Forget>> \o Call(Stored(p)) \o <<Memo>>

\* Steps taken under a condition.
When(c, p) == IF c THEN p ELSE <<>>

\* The plan of a call among a mapper's three.
Pick(call, create, update, delete) ==
  CASE call = "create" -> create [] call = "update" -> update [] call = "delete" -> delete

\* What MapperRun asks of a mapper besides: the columns equals compares, those
\* of entityId left out; those its conversion from the cloud's record fills in;
\* those of equals only the cloud sets;
\* what entityId is made of ("name": names the user chose; "unique": an id of
\* the cloud's, of resources whose names are unique; "cloud": an id of the
\* cloud's); which of "make" and "drop" the cloud takes its time for; the
\* stages in which a full read lists a resource; and the facts the conditions
\* of its handlers tell apart, one set per situation.
Trait(equals, fills, own, id, slow, seen, facts) ==
  [equals |-> equals, fills |-> fills, own |-> own, id |-> id, slow |-> slow, seen |-> seen,
   facts |-> facts, omits |-> FALSE, given |-> FALSE]

\* A mapper whose full read swallows the failure of a call about one resource,
\* and leaves that resource out.
Omitting(t) == [t EXCEPT !.omits = TRUE]

\* Resources there are without the user: no statement inserts a row of one.
Given(t) == [t EXCEPT !.given = TRUE]

=============================================================================
