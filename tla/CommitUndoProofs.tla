-------------------------- MODULE CommitUndoProofs --------------------------
(***************************************************************************)
(* What a commit of CommitPipeline that fails leaves behind, for any       *)
(* entities, values, users and bounds: what was there before.              *)
(***************************************************************************)
EXTENDS CommitOutcomeProofs

-----------------------------------------------------------------------------
(* Foreign keys leave a way forth and a way back.                          *)

\* Rows can be inserted one after the other, and deleted: every entity there
\* finds what it refers to, some entity of every group refers to none of it,
\* and to some nobody in the group refers.
Founded(P) ==
  /\ \A e \in P : Needs[e] \subseteq P
  /\ \A S \in SUBSET P : S # {} => \E e \in S : Needs[e] \cap S = {}
  /\ \A S \in SUBSET P : S # {} => \E e \in S : \A f \in S : e \notin Needs[f]

Grounded(s) == Founded(Present(s))

LEMMA FoundedMore ==
  ASSUME NEW P, NEW e, Founded(P), e \notin P, Needs[e] \subseteq P
  PROVE  Founded(P \cup {e})
<1>1. \A f \in P \cup {e} : Needs[f] \subseteq P  BY DEF Founded
<1>2. ASSUME NEW S \in SUBSET (P \cup {e}), S # {}
      PROVE  \E f \in S : Needs[f] \cap S = {}
  <2>1. CASE S \cap P = {}
    <3>1. S = {e}  BY <1>2, <2>1
    <3>2. QED  BY <1>1, <3>1
  <2>2. CASE S \cap P # {}
    <3>1. PICK f \in S \cap P : Needs[f] \cap (S \cap P) = {}  BY <2>2 DEF Founded
    <3>2. QED  BY <1>1, <3>1
  <2>3. QED  BY <2>1, <2>2
<1>3. ASSUME NEW S \in SUBSET (P \cup {e}), S # {}
      PROVE  \E f \in S : \A g \in S : f \notin Needs[g]
  <2>1. CASE e \in S  BY <1>1, <2>1
  <2>2. CASE e \notin S
    <3>1. S \in SUBSET P  BY <1>3, <2>2
    <3>2. QED  BY <1>3, <3>1 DEF Founded
  <2>3. QED  BY <2>1, <2>2
<1>4. QED  BY <1>1, <1>2, <1>3 DEF Founded

LEMMA FoundedLess ==
  ASSUME NEW P, NEW e, Founded(P), \A f \in P \ {e} : e \notin Needs[f]
  PROVE  Founded(P \ {e})
<1>1. \A f \in P \ {e} : Needs[f] \subseteq P \ {e}  BY DEF Founded
<1>2. \A S \in SUBSET (P \ {e}) : S \in SUBSET P  OBVIOUS
<1>3. QED  BY <1>1, <1>2 DEF Founded

\* A change that the foreign keys allow keeps it so.
LEMMA FitsGrounded ==
  ASSUME NEW s \in States, NEW e \in Entity, NEW v \in Value \cup {Absent},
         Grounded(s), Fits(s, e, v)
  PROVE  Grounded([s EXCEPT ![e] = v])
<1> DEFINE t == [s EXCEPT ![e] = v]
<1>1. t \in States /\ t[e] = v /\ \A f \in Entity \ {e} : t[f] = s[f]  BY DEF States
<1>2. CASE v = Absent
  <2>1. Present(t) = Present(s) \ {e}  BY <1>1, <1>2 DEF Present
  <2>2. \A f \in Present(s) \ {e} : e \notin Needs[f]  BY <1>2 DEF Fits
  <2>3. QED  BY <2>1, <2>2, FoundedLess DEF Grounded
<1>3. CASE v # Absent
  <2>1. Present(t) = Present(s) \cup {e}  BY <1>1, <1>3 DEF Present
  <2>2. Needs[e] \subseteq Present(s)  BY <1>3 DEF Fits
  <2>3. CASE e \in Present(s)
    <3>1. Present(t) = Present(s)  BY <2>1, <2>3
    <3>2. QED  BY <3>1 DEF Grounded
  <2>4. CASE e \notin Present(s)  BY <2>1, <2>2, <2>4, FoundedMore DEF Grounded
  <2>5. QED  BY <2>3, <2>4
<1>4. QED  BY <1>2, <1>3

\* The way back from a change: the foreign keys allow it.
LEMMA FitsBack ==
  ASSUME NEW p \in States, NEW e \in Entity, NEW v \in Value \cup {Absent}, Grounded(p)
  PROVE  Fits([p EXCEPT ![e] = v], e, p[e])
<1> DEFINE s == [p EXCEPT ![e] = v]
<1>1. \A f \in Entity \ {e} : s[f] = p[f]  BY DEF States
<1>2. Present(s) \ {e} = Present(p) \ {e}  BY <1>1 DEF Present
<1> SUFFICES Fits(s, e, p[e])  OBVIOUS
<1> HIDE DEF s
<1>3. CASE p[e] = Absent
  <2>1. e \notin Present(p)  BY <1>3 DEF Present
  <2>2. \A f \in Present(p) : e \notin Needs[f]  BY <2>1 DEF Grounded, Founded
  <2>3. QED  BY <1>2, <1>3, <2>2 DEF Fits
<1>4. CASE p[e] # Absent
  <2>1. e \in Present(p)  BY <1>4 DEF Present
  <2>2. {e} \in SUBSET Present(p) /\ {e} # {}  BY <2>1
  <2>3. Needs[e] \subseteq Present(p) /\ e \notin Needs[e]
    BY <2>1, <2>2 DEF Grounded, Founded
  <2>4. Needs[e] \subseteq Present(s)  BY <1>2, <2>3
  <2>5. QED  BY <1>4, <2>4 DEF Fits
<1>5. QED  BY <1>3, <1>4

\* The way forth: of what is still to be done something can be.
LEMMA SomethingFits ==
  ASSUME NEW s \in States, NEW t \in States, Grounded(s), Grounded(t), s # t
  PROVE  \E e \in Entity : s[e] # t[e] /\ Fits(s, e, t[e])
<1> DEFINE New == Present(t) \ Present(s)
           Old == Present(s) \ Present(t)
<1>1. Present(s) \subseteq Entity /\ Present(t) \subseteq Entity  BY DEF Present
<1>2. CASE New # {}
  <2>1. PICK e \in New : Needs[e] \cap New = {}
    BY <1>2 DEF Grounded, Founded
  <2>2. Needs[e] \subseteq Present(t)  BY <2>1 DEF Grounded, Founded
  <2>3. Needs[e] \subseteq Present(s)  BY <2>1, <2>2
  <2>4. e \in Entity /\ t[e] # Absent /\ s[e] # t[e]  BY <2>1 DEF Present
  <2>5. QED  BY <2>3, <2>4 DEF Fits
<1>3. CASE New = {} /\ Old # {}
  <2>1. PICK e \in Old : \A f \in Old : e \notin Needs[f]
    BY <1>3 DEF Grounded, Founded
  <2>2. \A f \in Present(t) : e \notin Needs[f]  BY <2>1 DEF Grounded, Founded
  <2>3. \A f \in Present(s) : e \notin Needs[f]  BY <2>1, <2>2
  <2>4. e \in Entity /\ t[e] = Absent /\ s[e] # t[e]  BY <2>1 DEF Present
  <2>5. QED  BY <2>3, <2>4 DEF Fits
<1>4. CASE New = {} /\ Old = {}
  <2>1. Present(s) = Present(t)  BY <1>4
  <2>2. PICK e \in Entity : s[e] # t[e]  BY DEF States
  <2>3. t[e] # Absent  BY <2>1, <2>2 DEF Present
  <2>4. e \in Present(s)  BY <2>1, <2>2, <2>3 DEF Present
  <2>5. Needs[e] \subseteq Present(s)  BY <2>4 DEF Grounded, Founded
  <2>6. QED  BY <2>2, <2>3, <2>5 DEF Fits
<1>5. QED  BY <1>2, <1>3, <1>4

-----------------------------------------------------------------------------
(* The database and the cloud, whoever writes them.                        *)

\* What the cloud holds it would take again.
Lawful(s) == \A e \in Entity : s[e] \notin Rejected \cup Ignored

\* Uncommitted statements lock what they change and what that depends on.
Hidden == {r \in audit : r.status = "hidden"}
Unrelated(e, f) == e # f /\ e \notin Needs[f] /\ f \notin Needs[e]

StateInv ==
  /\ Grounded(db) /\ Grounded(cloud)
  /\ Lawful(cloud) /\ Lawful(base.cloud)
  /\ \A r \in Hidden : /\ Fits(db, r.ent, r.new)
                       /\ \A q \in Hidden \ {r} : Unrelated(r.ent, q.ent)

\* What fits goes on fitting when something that is not related changes.
LEMMA FitsApart ==
  ASSUME NEW s \in States, NEW x \in Entity, NEW w \in Value \cup {Absent},
         NEW e \in Entity, NEW v \in Value \cup {Absent},
         Fits(s, e, v), Unrelated(e, x)
  PROVE  Fits([s EXCEPT ![x] = w], e, v)
<1> DEFINE t == [s EXCEPT ![x] = w]
<1>1. Present(t) \ {x} = Present(s) \ {x}  BY DEF Present, States
<1> SUFFICES Fits(t, e, v)  OBVIOUS
<1> HIDE DEF t
<1>2. QED  BY <1>1 DEF Fits, Unrelated

LEMMA DisturbKeeps ==
  ASSUME TypeOK, NEW when \in BOOLEAN, Disturb(when)
  PROVE  base'.db = base.db /\ base'.cloud = base.cloud
  BY DEF TypeOK, Disturb

LEMMA HiddenTyped ==
  ASSUME TypeOK
  PROVE  \A r \in Hidden : r \in Row /\ r.ent \in Entity /\ r.new \in Value \cup {Absent}
  BY DEF TypeOK, Row, Hidden

\* Somebody writes a row of the database that nobody has locked.
LEMMA StateDb ==
  ASSUME TypeOK, StateInv, NEW e \in Entity, NEW v \in Value \cup {Absent}, Fits(db, e, v),
         db' = [db EXCEPT ![e] = v], Hidden' \subseteq Hidden,
         \A r \in Hidden' : Unrelated(r.ent, e),
         cloud' = cloud, base'.cloud = base.cloud
  PROVE  StateInv'
<1>1. db \in States  BY DEF TypeOK
<1>2. Grounded(db')  BY <1>1, FitsGrounded DEF StateInv
<1>3. ASSUME NEW r \in Hidden' PROVE Fits(db', r.ent, r.new)
  <2>1. r.ent \in Entity /\ r.new \in Value \cup {Absent} /\ Fits(db, r.ent, r.new)
    BY HiddenTyped DEF StateInv
  <2>2. QED  BY <1>1, <2>1, FitsApart
<1>4. QED  BY <1>2, <1>3 DEF StateInv, Grounded, Present, Founded, Lawful, Fits

LEMMA StateSame ==
  ASSUME StateInv, UNCHANGED <<db, cloud>>, Hidden' \subseteq Hidden, base'.cloud = base.cloud
  PROVE  StateInv'
  BY DEF StateInv, Grounded, Present, Founded, Lawful, Fits

LEMMA StateCloud ==
  ASSUME TypeOK, StateInv, NEW e \in Entity, NEW v \in Value \cup {Absent},
         Fits(cloud, e, v), v \notin Rejected \cup Ignored,
         cloud' = [cloud EXCEPT ![e] = v], UNCHANGED <<db, audit>>, base'.cloud = base.cloud
  PROVE  StateInv'
<1>1. cloud \in States  BY DEF TypeOK
<1>2. Grounded(cloud')  BY <1>1, FitsGrounded DEF StateInv
<1>3. Lawful(cloud')  BY <1>1 DEF StateInv, Lawful, States
<1>4. QED  BY <1>2, <1>3 DEF StateInv, Grounded, Present, Founded, Lawful, Fits, Hidden

LEMMA StateUsers ==
  ASSUME TypeOK, StateInv, Users
  PROVE  StateInv'
<1>1. ASSUME NEW u \in User, NEW e \in Entity, NEW v \in Value \cup {Absent},
             UserWrite(u, e, v) \/ UserBegin(u, e, v)
      PROVE  StateInv'
  <2>1. PICK st \in {"hidden", "shown"} :
          /\ Write(u, e, v, st)
          /\ IF st = "shown" THEN db' = [db EXCEPT ![e] = v] ELSE db' = db
    BY <1>1 DEF UserWrite, UserBegin
  <2> DEFINE row == [ts |-> clock + 1, ent |-> e, old |-> db[e], new |-> v,
                     user |-> u, status |-> st]
  <2>2. /\ audit' = audit \cup {row} /\ cloud' = cloud /\ Fits(db, e, v)
        /\ ~Locked(e) /\ Disturb(InCommit)
    BY <2>1 DEF Write
  <2>3. row.ent = e /\ row.new = v /\ row.status = st  OBVIOUS
  <2> HIDE DEF row
  <2>4. InCommit \in BOOLEAN  BY DEF InCommit
  <2>5. base'.cloud = base.cloud  BY <2>2, <2>4, DisturbKeeps
  <2>6. \A r \in Hidden : Unrelated(r.ent, e) /\ Unrelated(e, r.ent)
    BY <2>2 DEF Hidden, Locked, Unrelated
  <2>7. CASE st = "shown"
    <3>1. Hidden' = Hidden  BY <2>2, <2>3, <2>7 DEF Hidden
    <3>2. QED  BY <2>1, <2>2, <2>5, <2>6, <2>7, <3>1, StateDb
  <2>8. CASE st = "hidden"
    <3>1. db' = db /\ Hidden' = Hidden \cup {row}  BY <2>1, <2>2, <2>3, <2>8 DEF Hidden
    <3>2. ASSUME NEW r \in Hidden'
          PROVE  Fits(db, r.ent, r.new) /\ \A q \in Hidden' \ {r} : Unrelated(r.ent, q.ent)
      BY <2>2, <2>3, <2>6, <3>1 DEF StateInv
    <3>3. QED  BY <2>2, <2>5, <3>1, <3>2 DEF StateInv, Grounded, Present, Founded, Lawful, Fits
  <2>9. QED  BY <2>7, <2>8
<1>2. ASSUME NEW r \in audit, UserCommit(r) PROVE StateInv'
  <2> DEFINE s == [r EXCEPT !.status = IF r.ts <= Reached THEN "missed" ELSE "shown"]
  <2>1. /\ r.status = "hidden" /\ db' = [db EXCEPT ![r.ent] = r.new]
        /\ audit' = (audit \ {r}) \cup {s} /\ cloud' = cloud /\ Disturb(TRUE)
    BY <1>2 DEF UserCommit
  <2>2. s.status # "hidden"  BY StatusOnly DEF TypeOK
  <2> HIDE DEF s
  <2>3. r \in Hidden /\ Hidden' = Hidden \ {r}  BY <2>1, <2>2 DEF Hidden
  <2>4. Fits(db, r.ent, r.new) /\ \A q \in Hidden' : Unrelated(q.ent, r.ent)
    BY <2>3 DEF StateInv, Unrelated
  <2>5. r.ent \in Entity /\ r.new \in Value \cup {Absent}  BY <2>3, HiddenTyped
  <2>6. base'.cloud = base.cloud  BY <2>1, DisturbKeeps
  <2>7. QED  BY <2>1, <2>3, <2>4, <2>5, <2>6, StateDb
<1>3. QED  BY <1>1, <1>2 DEF Users

LEMMA StateRun ==
  ASSUME TypeOK, StateInv, Run
  PROVE  StateInv'
<1>1. UNCHANGED <<audit, base>>  BY DEF Run
<1>2. PICK e \in Entity : Succeeds(e) \/ Fails(e)  BY DEF Run
<1>3. memo.db[e] \in Value \cup {Absent} /\ memo.cloud[e] \in Value \cup {Absent}
  BY DEF TypeOK, States
<1>4. CASE UNCHANGED <<db, cloud>>  BY <1>1, <1>4, StateSame DEF Hidden
<1>5. CASE /\ CloudTakes(e) /\ memo.db[e] \notin Ignored
           /\ cloud' = [cloud EXCEPT ![e] = memo.db[e]] /\ db' = db
  <2>1. Fits(cloud, e, memo.db[e]) /\ memo.db[e] \notin Rejected \cup Ignored
    BY <1>5 DEF CloudTakes
  <2>2. QED  BY <1>1, <1>3, <1>5, <2>1, StateCloud
<1>6. CASE /\ DbTakes(e) /\ ~Locked(e)
           /\ db' = [db EXCEPT ![e] = memo.cloud[e]] /\ cloud' = cloud
  <2>1. Fits(db, e, memo.cloud[e])  BY <1>6 DEF DbTakes
  <2>2. \A r \in Hidden : Unrelated(r.ent, e)  BY <1>6 DEF Hidden, Locked, Unrelated
  <2>3. Hidden' = Hidden  BY <1>1 DEF Hidden
  <2>4. QED  BY <1>1, <1>3, <1>6, <2>1, <2>2, <2>3, StateDb
<1>7. QED  BY <1>2, <1>4, <1>5, <1>6 DEF Succeeds, Fails

LEMMA StateInverse ==
  ASSUME TypeOK, StateInv, InverseQuery
  PROVE  StateInv'
<1>1. PICK r \in inverse :
        /\ ~Locked(r.ent)
        /\ db' = IF db[r.ent] = r.new /\ Fits(db, r.ent, r.old)
                 THEN [db EXCEPT ![r.ent] = r.old] ELSE db
  BY DEF InverseQuery
<1>2. UNCHANGED <<cloud, audit, base>>  BY DEF InverseQuery
<1>3. r.ent \in Entity /\ r.old \in Value \cup {Absent}  BY DEF TypeOK, Row
<1>4. Hidden' = Hidden /\ \A q \in Hidden : Unrelated(q.ent, r.ent)
  BY <1>1, <1>2 DEF Hidden, Locked, Unrelated
<1>5. CASE db' = db  BY <1>2, <1>4, <1>5, StateSame
<1>6. CASE Fits(db, r.ent, r.old) /\ db' = [db EXCEPT ![r.ent] = r.old]
  BY <1>2, <1>3, <1>4, <1>6, StateDb
<1>7. QED  BY <1>1, <1>5, <1>6

LEMMA StateStep ==
  ASSUME TypeOK, StateInv, [Next]_vars
  PROVE  StateInv'
<1>1. CASE Begin
  <2>1. UNCHANGED <<db, cloud, audit>> /\ base'.cloud = cloud  BY <1>1 DEF Begin
  <2>2. QED  BY <2>1 DEF StateInv, Grounded, Present, Founded, Lawful, Fits, Hidden
<1>2. CASE Commit \/ Rollback
  <2>1. UNCHANGED <<db, cloud, audit>> /\ base'.cloud = base.cloud
    BY <1>2 DEF Commit, Rollback, StartCommit, data, TypeOK
  <2>2. QED  BY <2>1, StateSame DEF Hidden
<1>3. CASE Users  BY <1>3, StateUsers
<1>4. CASE World
  <2>1. PICK e \in Entity, v \in Value \cup {Absent} : CloudChange(e, v)
    BY <1>4 DEF World
  <2>2. (pc # "idle") \in BOOLEAN  OBVIOUS
  <2>3. base'.cloud = base.cloud  BY <2>1, <2>2, DisturbKeeps DEF CloudChange
  <2>4. QED  BY <2>1, <2>3, StateCloud DEF CloudChange
<1>5. CASE Crash
  <2>1. /\ audit' = {Missed(r) : r \in audit} /\ UNCHANGED <<db, cloud>> /\ Disturb(TRUE)
    BY <1>5 DEF Crash
  <2>2. \A r \in audit : Missed(r) = r \/ Missed(r).status # "hidden"
    BY StatusOnly DEF TypeOK, Missed
  <2>3. Hidden' \subseteq Hidden  BY <2>1, <2>2 DEF Hidden
  <2>4. QED  BY <2>1, <2>3, StateSame, DisturbKeeps
<1>6. CASE Engine
  <2>1. CASE Run  BY <2>1, StateRun
  <2>2. CASE InverseQuery  BY <2>2, StateInverse
  <2>3. CASE ReadWindow
    <3> DEFINE Tagged(q) == [q EXCEPT !.status = "taken"]
    <3>1. /\ audit' = (audit \ getChangesToCommit) \cup {Tagged(r) : r \in getChangesToCommit}
          /\ UNCHANGED <<db, cloud, base>>
      BY <2>3 DEF ReadWindow
    <3>2. getChangesToCommit \subseteq audit  BY DEF getChangesToCommit, Visible
    <3>3. \A q \in audit : Tagged(q).status # "hidden"  BY StatusOnly DEF TypeOK
    <3> HIDE DEF Tagged
    <3>4. Hidden' \subseteq Hidden  BY <3>1, <3>2, <3>3 DEF Hidden
    <3>5. QED  BY <3>1, <3>4, StateSame
  <2>4. CASE UNCHANGED <<data, base>>  BY <2>4, StateSame DEF data, Hidden
  <2>5. QED
    BY <1>6, <2>1, <2>2, <2>3, <2>4
    DEF Engine, ReadDb, ReadAfter, ReadCloud, ReadFails, Diff, EndPass, StartRevert,
        ApplyInverse, EndCommit
<1>7. CASE UNCHANGED vars  BY <1>7, StateSame DEF vars, Hidden
<1>8. QED  BY <1>1, <1>2, <1>3, <1>4, <1>5, <1>6, <1>7 DEF Next

LEMMA StateAlways == Spec => []StateInv
<1>1. Init => StateInv
  <2>1. Founded({})  BY DEF Founded
  <2>2. Init => Present(db) = {} /\ Present(cloud) = {}  BY DEF Init, Present
  <2>3. Absent \notin Rejected \cup Ignored  BY PipelineAssumption
  <2>4. Init => Lawful(cloud) /\ base.cloud = cloud /\ Hidden = {}
    BY <2>3 DEF Init, Lawful, Hidden
  <2>5. QED  BY <2>1, <2>2, <2>4 DEF StateInv, Grounded
<1>2. TypeOK /\ StateInv /\ [Next]_vars => StateInv'  BY StateStep
<1>3. QED  BY <1>1, <1>2, TypeCorrect, PTL DEF Spec

-----------------------------------------------------------------------------
(* What the log says of the transaction.                                   *)

\* A history gives the database at every time stamp.  It agrees with the log
\* since the transaction was opened: it begins with what was there then, a
\* statement to be seen in the log made one of its states into the next, and
\* where the log has none nothing changed.
Histories == [0 .. MaxWrites -> States]
Span == mark.open .. clock
Recorded(h) ==
  /\ h[mark.open] = base.db
  /\ \A t \in Span : Grounded(h[t])
  /\ \A t, u \in Span : t <= u /\ (\A r \in Visible : ~(t < r.ts /\ r.ts <= u)) => h[t] = h[u]
  /\ \A r \in Visible : r.ts > mark.open =>
       h[r.ts - 1][r.ent] = r.old /\ h[r.ts] = [h[r.ts - 1] EXCEPT ![r.ent] = r.new]

\* The database is what it was at m.
BackTo(m) == \E h \in Histories : Recorded(h) /\ h[m] = db

\* Rows get other statuses; which are to be seen, and what they say, stays.
LEMMA HistoryKept ==
  ASSUME UNCHANGED <<db, clock>>, mark'.open = mark.open, base'.db = base.db,
         \A q \in Visible' : \E r \in Visible : Same(q, r),
         \A r \in Visible : \E q \in Visible' : Same(q, r)
  PROVE  \A m : BackTo(m) => BackTo(m)'
<1> SUFFICES ASSUME NEW h \in Histories, Recorded(h) PROVE Recorded(h)'
  BY DEF BackTo, Histories
<1>1. Span' = Span  BY DEF Span
<1>2. h[mark'.open] = base'.db  BY DEF Recorded
<1>3. \A t \in Span' : Grounded(h[t])'
  BY <1>1 DEF Recorded, Grounded, Present, Founded
<1>4. ASSUME NEW t \in Span', NEW u \in Span', t <= u,
             \A r \in Visible' : ~(t < r.ts /\ r.ts <= u)
      PROVE  h[t] = h[u]
  <2>1. \A r \in Visible : ~(t < r.ts /\ r.ts <= u)  BY <1>4 DEF Same
  <2>2. QED  BY <1>1, <1>4, <2>1 DEF Recorded
<1>5. ASSUME NEW q \in Visible', q.ts > mark'.open
      PROVE  h[q.ts - 1][q.ent] = q.old /\ h[q.ts] = [h[q.ts - 1] EXCEPT ![q.ent] = q.new]
  <2>1. PICK r \in Visible : Same(q, r)  OBVIOUS
  <2>2. QED  BY <1>5, <2>1 DEF Recorded, Same
<1>6. QED  BY <1>2, <1>3, <1>4, <1>5 DEF Recorded

\* A transaction begins with a history of one state.
LEMMA HistoryBegins ==
  ASSUME TypeOK, StateInv, Begin
  PROVE  BackTo(clock)'
<1>1. /\ UNCHANGED <<db, audit, clock>> /\ base'.db = db
      /\ mark' = [mark EXCEPT !.open = clock]
  BY DEF Begin
<1>2. mark'.open = clock /\ clock \in 0 .. MaxWrites  BY <1>1 DEF TypeOK
<1>3. \A r \in Visible' : ~(r.ts > mark'.open)  BY <1>1, <1>2 DEF TypeOK, Visible
<1>4. Span' = {clock}  BY <1>1, <1>2 DEF Span
<1>5. PICK h \in Histories : \A t \in 0 .. MaxWrites : h[t] = db
  <2>1. [t \in 0 .. MaxWrites |-> db] \in Histories  BY DEF Histories, TypeOK
  <2>2. QED  BY <2>1
<1>6. Grounded(db)  BY DEF StateInv
<1>7. \A t \in Span' : Grounded(h[t])'
  BY <1>1, <1>2, <1>4, <1>5, <1>6 DEF Grounded, Present, Founded
<1>8. Recorded(h)'  BY <1>1, <1>2, <1>3, <1>4, <1>5, <1>7 DEF Recorded
<1>9. QED  BY <1>1, <1>2, <1>5, <1>8 DEF BackTo, Histories

\* A statement adds a state: the one it made, or until it commits the one it found.
LEMMA HistoryWrites ==
  ASSUME TypeOK, StateInv, StateInv', BackTo(clock),
         NEW u \in User, NEW e \in Entity, NEW v \in Value \cup {Absent},
         UserWrite(u, e, v) \/ UserBegin(u, e, v)
  PROVE  BackTo(clock)'
<1>1. PICK st \in {"hidden", "shown"} :
        /\ Write(u, e, v, st)
        /\ db' = IF st = "shown" THEN [db EXCEPT ![e] = v] ELSE db
  BY DEF UserWrite, UserBegin
<1>2. PICK row : row = [ts |-> clock + 1, ent |-> e, old |-> db[e], new |-> v,
                        user |-> u, status |-> st]
  OBVIOUS
<1>3. /\ row.ts = clock + 1 /\ row.ent = e /\ row.old = db[e] /\ row.new = v
      /\ row.status = st
  BY <1>2
<1>4. /\ audit' = audit \cup {row} /\ clock' = clock + 1 /\ clock < MaxWrites
      /\ mark' = mark /\ Disturb(InCommit)
  BY <1>1, <1>2 DEF Write
<1>5. InCommit \in BOOLEAN  BY DEF InCommit
<1>6. base'.db = base.db  BY <1>4, <1>5, DisturbKeeps
<1>7. /\ Visible' = IF st = "shown" THEN Visible \cup {row} ELSE Visible
      /\ \A r \in Visible : r.ts \in 1 .. clock
  BY <1>3, <1>4 DEF Visible, TypeOK
<1>8. /\ clock \in Nat /\ MaxWrites \in Nat /\ mark.open \in 0 .. clock
      /\ db' \in States
  BY <1>1, PipelineAssumption DEF TypeOK, States
<1>9. PICK h \in Histories : Recorded(h) /\ h[clock] = db  BY DEF BackTo
<1>10. PICK g \in Histories : /\ g[clock + 1] = db'
                              /\ \A t \in 0 .. clock : g[t] = h[t]
  <2>1. [h EXCEPT ![clock + 1] = db'] \in Histories  BY <1>8 DEF Histories
  <2>2. \A t \in 0 .. clock : t # clock + 1 /\ t \in 0 .. MaxWrites  BY <1>4, <1>8
  <2>3. clock + 1 \in 0 .. MaxWrites  BY <1>4, <1>8
  <2>4. QED  BY <2>1, <2>2, <2>3 DEF Histories
<1>11. Span' = Span \cup {clock + 1} /\ clock \in Span /\ Span \subseteq 0 .. clock
  BY <1>4, <1>8 DEF Span
<1>12. g[mark'.open] = base'.db  BY <1>4, <1>6, <1>8, <1>9, <1>10 DEF Recorded
<1>13. \A t \in Span' : Grounded(g[t])
  <2>1. Grounded(db')  BY DEF StateInv, Grounded, Present, Founded
  <2>2. \A t \in Span : Grounded(g[t])  BY <1>9, <1>10, <1>11 DEF Recorded
  <2>3. QED  BY <1>10, <1>11, <2>1, <2>2
<1>14. ASSUME NEW t \in Span', NEW w \in Span', t <= w,
              \A r \in Visible' : ~(t < r.ts /\ r.ts <= w)
       PROVE  g[t] = g[w]
  <2>1. \A r \in Visible : r \in Visible'  BY <1>7
  <2>2. CASE w \in Span
    <3>1. t \in Span  BY <1>8, <1>11, <1>14, <2>2
    <3>2. h[t] = h[w]  BY <1>9, <1>14, <2>1, <2>2, <3>1 DEF Recorded
    <3>3. QED  BY <1>10, <1>11, <2>2, <3>1, <3>2
  <2>3. CASE w = clock + 1 /\ t \in Span
    <3>1. t <= clock /\ t \in Nat  BY <1>8, <1>11, <2>3
    <3>2. st = "hidden"  BY <1>3, <1>7, <1>8, <1>14, <2>3, <3>1
    <3>3. \A r \in Visible : ~(t < r.ts /\ r.ts <= clock)
      BY <1>7, <1>8, <1>14, <2>1, <2>3
    <3>4. h[t] = h[clock]  BY <1>9, <1>11, <2>3, <3>1, <3>3 DEF Recorded
    <3>5. QED  BY <1>1, <1>9, <1>10, <1>11, <2>3, <3>2, <3>4
  <2>4. CASE w = clock + 1 /\ t = clock + 1  BY <2>4
  <2>5. QED  BY <1>11, <2>2, <2>3, <2>4
<1>15. ASSUME NEW r \in Visible', r.ts > mark'.open
       PROVE  g[r.ts - 1][r.ent] = r.old /\ g[r.ts] = [g[r.ts - 1] EXCEPT ![r.ent] = r.new]
  <2>1. CASE r \in Visible
    <3>1. r.ts \in 0 .. clock /\ r.ts - 1 \in 0 .. clock  BY <1>7, <1>8, <2>1
    <3>2. h[r.ts - 1][r.ent] = r.old /\ h[r.ts] = [h[r.ts - 1] EXCEPT ![r.ent] = r.new]
      BY <1>4, <1>9, <1>15, <2>1 DEF Recorded
    <3>3. QED  BY <1>10, <3>1, <3>2
  <2>2. CASE r = row /\ st = "shown"
    <3>1. r.ts = clock + 1 /\ r.ts - 1 = clock  BY <1>3, <1>8, <2>2
    <3>2. g[clock] = db  BY <1>8, <1>9, <1>10
    <3>3. QED  BY <1>1, <1>3, <1>10, <2>2, <3>1, <3>2
  <2>3. QED  BY <1>7, <2>1, <2>2
<1>16. Recorded(g)'
  <2>1. \A t \in Span' : Grounded(g[t])'  BY <1>13 DEF Grounded, Present, Founded
  <2>2. QED  BY <1>12, <1>14, <1>15, <2>1 DEF Recorded
<1>17. QED  BY <1>4, <1>10, <1>16 DEF BackTo, Histories

\* The newest statement before m is the one to undo, its row is as it left it,
\* the foreign keys allow it, and it leads to the state before.
LEMMA HistoryBack ==
  ASSUME TypeOK, NEW m \in Span, BackTo(m),
         NEW r \in Visible, mark.open < r.ts, r.ts <= m,
         \A q \in Visible : q.ts <= m => q.ts <= r.ts
  PROVE  /\ r.ts - 1 \in Span
         /\ db[r.ent] = r.new /\ Fits(db, r.ent, r.old)
         /\ \E h \in Histories : Recorded(h) /\ h[r.ts - 1] = [db EXCEPT ![r.ent] = r.old]
<1>1. PICK h \in Histories : Recorded(h) /\ h[m] = db  BY DEF BackTo
<1>2. /\ r.ts \in Nat /\ mark.open \in Nat /\ clock \in Nat /\ m \in Nat
      /\ m <= clock /\ clock <= MaxWrites
      /\ r.ent \in Entity /\ r.new \in Value \cup {Absent}
      /\ \A q \in Visible : q.ts \in Nat
  BY PipelineAssumption DEF TypeOK, Row, Visible, Span
<1>3. r.ts \in Span /\ r.ts - 1 \in Span /\ r.ts - 1 \in 0 .. MaxWrites
  BY <1>2, PipelineAssumption DEF Span
<1>4. h[r.ts] = h[m]
  <2>1. \A q \in Visible : ~(r.ts < q.ts /\ q.ts <= m)  BY <1>2
  <2>2. QED  BY <1>1, <1>3, <2>1 DEF Recorded
<1>5. PICK p \in States : p = h[r.ts - 1]  BY <1>3 DEF Histories
<1>6. p[r.ent] = r.old /\ db = [p EXCEPT ![r.ent] = r.new] /\ Grounded(p)
  BY <1>1, <1>3, <1>4, <1>5 DEF Recorded
<1>7. Fits(db, r.ent, p[r.ent])  BY <1>2, <1>6, FitsBack
<1>8. p = [db EXCEPT ![r.ent] = r.old] /\ db[r.ent] = r.new
  BY <1>2, <1>5, <1>6 DEF States
<1>9. QED  BY <1>1, <1>3, <1>5, <1>6, <1>7, <1>8

\* With nothing left to undo the transaction is undone.
LEMMA HistoryEnds ==
  ASSUME TypeOK, NEW m \in Span, BackTo(m),
         \A r \in Visible : ~(mark.open < r.ts /\ r.ts <= m)
  PROVE  db = base.db
<1>1. PICK h \in Histories : Recorded(h) /\ h[m] = db  BY DEF BackTo
<1>2. mark.open \in Span /\ mark.open <= m  BY DEF TypeOK, Span
<1>3. h[mark.open] = h[m]  BY <1>1, <1>2 DEF Recorded
<1>4. QED  BY <1>1, <1>3 DEF Recorded

-----------------------------------------------------------------------------
(* Two states that are to become equal.                                    *)

\* apply and sync make s equal to t.  Before their first diff they have done
\* nothing, and afterwards only the end is to be found; in a pass what is not
\* done yet still differs, as it did when it was read, and what failed in a pass
\* without a success still does not fit.
Settling(s, t, m) ==
  /\ pc # "run" => s = t \/ loop = NoLoop
  /\ loop.spin \in {0, 1} /\ (pc = "run" \/ loop.ranFull = "yes" => loop.spin = 0)
  /\ pc = "run" =>
       /\ \A e \in Entity : IF e \in loop.todo \cup loop.failed
                            THEN s[e] = m[e] /\ s[e] # t[e] ELSE s[e] = t[e]
       /\ loop.todo \cap loop.failed = {}
       /\ loop.moved = "no" => \A e \in loop.failed : ~Fits(s, e, t[e])

LEMMA SettlingStarts ==
  ASSUME loop' = NoLoop, pc' # "run", NEW s, NEW t, NEW m
  PROVE  Settling(s, t, m)'
  BY DEF Settling, NoLoop

\* The diff never has the same size often enough to give up.
LEMMA SettlingDiff ==
  ASSUME TypeOK, Diff, NEW s \in States, NEW t \in States, NEW m, Settling(s, t, m),
         \A e \in Entity : e \in Different <=> s[e] # t[e]
  PROVE  \/ PhaseReturns /\ s = t
         \/ UNCHANGED <<phase, memo, errs>> /\ pc' \in {"run", Outer} /\ Settling(s, t, s)'
<1>1. pc = "diff"  BY DEF Diff
<1>2. loop.spin \in {0, 1} /\ (s = t \/ loop = NoLoop)  BY <1>1 DEF Settling
<1>3. Different \subseteq Entity /\ entitiesInDbOnly \subseteq Entity
  BY DiffTyped, TypeParts, PipelineAssumption DEF Different
<1>4. Different = {} <=> s = t  BY <1>3 DEF States
<1>5. loop = NoLoop => recordCount # loop.counts
  <2>1. Cardinality(entitiesInDbOnly) \in Nat
    BY <1>3, FS_Subset, FS_CardinalityType, PipelineAssumption
  <2>2. QED  BY <2>1 DEF NoLoop, recordCount
<1>6. Spin \in {0, 1, 2} /\ (loop.spin = 0 => Spin \in {0, 1}) /\ (loop = NoLoop => Spin = 0)
  BY <1>2, <1>5 DEF Spin
<1> HIDE DEF Spin, Different
<1>7. CASE Different = {} /\ PhaseReturns  BY <1>4, <1>7
<1>8. CASE /\ Different # {} /\ pc' = "run" /\ UNCHANGED <<phase, memo, errs>>
           /\ loop' = [loop EXCEPT !.todo = Different, !.failed = {}, !.moved = "no",
                                   !.counts = recordCount, !.spin = Spin]
  <2>1. Spin = 0  BY <1>2, <1>4, <1>6, <1>8
  <2>2. loop'.todo = Different /\ loop'.failed = {} /\ loop'.spin = 0
    BY <1>8, <2>1 DEF TypeOK
  <2>3. Settling(s, t, s)'  BY <1>8, <2>2 DEF Settling
  <2>4. QED  BY <1>8, <2>3
<1>9. CASE /\ Different = {} /\ loop.ranFull = "yes" /\ pc' = Outer
           /\ UNCHANGED <<phase, memo, errs>>
           /\ loop' = [loop EXCEPT !.counts = recordCount, !.spin = Spin, !.ranFull = "no"]
  <2>1. loop'.spin = Spin /\ loop'.ranFull = "no"  BY <1>9 DEF TypeOK
  <2>2. loop.spin = 0 /\ pc' # "run"  BY <1>9 DEF Settling, Outer
  <2>3. Settling(s, t, s)'  BY <1>4, <1>6, <1>9, <2>1, <2>2 DEF Settling
  <2>4. QED  BY <1>9, <2>3
<1>10. QED  BY <1>6, <1>7, <1>8, <1>9 DEF Diff

\* A call does what is to be done, or cannot yet.
LEMMA SettlingRun ==
  ASSUME TypeOK, pc = "run", pc' = pc,
         NEW s \in States, NEW t \in States, NEW m, Settling(s, t, m),
         NEW r, NEW e \in loop.todo,
         \/ /\ r = [s EXCEPT ![e] = t[e]]
            /\ loop' = [loop EXCEPT !.todo = @ \ {e}, !.moved = "yes"]
         \/ /\ r = s /\ ~Fits(s, e, t[e])
            /\ loop' = [loop EXCEPT !.todo = @ \ {e}, !.failed = @ \cup {e}]
  PROVE  Settling(r, t, m)'
<1>1. e \in Entity /\ loop.todo \subseteq Entity /\ loop.failed \subseteq Entity
  BY DEF TypeOK
<1>2. loop'.spin = loop.spin  BY DEF TypeOK
<1>3. CASE r = [s EXCEPT ![e] = t[e]] /\ loop' = [loop EXCEPT !.todo = @ \ {e}, !.moved = "yes"]
  <2>1. loop'.todo = loop.todo \ {e} /\ loop'.failed = loop.failed /\ loop'.moved = "yes"
    BY <1>3 DEF TypeOK
  <2>2. r[e] = t[e] /\ \A f \in Entity \ {e} : r[f] = s[f]  BY <1>1, <1>3 DEF States
  <2>3. QED  BY <1>1, <1>2, <2>1, <2>2 DEF Settling
<1>4. CASE /\ r = s /\ ~Fits(s, e, t[e])
           /\ loop' = [loop EXCEPT !.todo = @ \ {e}, !.failed = @ \cup {e}]
  <2>1. /\ loop'.todo = loop.todo \ {e} /\ loop'.failed = loop.failed \cup {e}
        /\ loop'.moved = loop.moved
    BY <1>4 DEF TypeOK
  <2>2. loop'.moved = "no" => \A f \in loop'.failed : ~Fits(r, f, t[f])
    BY <1>4, <2>1 DEF Settling
  <2>3. QED
    BY <1>1, <1>2, <1>4, <2>1, <2>2 DEF Settling, Fits, Present
<1>5. QED  BY <1>3, <1>4

\* A pass without a success is one with nothing to do.
LEMMA SettlingEndPass ==
  ASSUME TypeOK, EndPass, NEW s \in States, NEW t \in States, NEW m, Settling(s, t, m),
         Grounded(s), Grounded(t)
  PROVE  UNCHANGED <<phase, memo, errs>> /\ pc' \in {"run", Inner} /\ Settling(s, t, m)'
<1>1. pc = "run" /\ loop.todo = {} /\ loop.spin = 0  BY DEF EndPass, Settling
<1>2. \A e \in Entity : e \in loop.failed <=> s[e] # t[e]  BY <1>1 DEF Settling
<1>3. loop.failed \subseteq Entity /\ IsFiniteSet(loop.failed)
  BY FS_Subset, PipelineAssumption DEF TypeOK
<1>4. loop.failed = {} <=> s = t  BY <1>2, <1>3 DEF States
<1>5. Cardinality(loop.failed) = 0 <=> loop.failed = {}  BY <1>3, FS_EmptySet
<1>6. loop.failed # {} => loop.moved = "yes"
  <2>1. SUFFICES ASSUME loop.failed # {}, loop.moved = "no" PROVE FALSE  BY DEF TypeOK
  <2>2. \E e \in loop.failed : Fits(s, e, t[e])
    BY <1>2, <1>4, <2>1, SomethingFits
  <2>3. QED  BY <1>1, <2>1, <2>2 DEF Settling
<1>7. CASE /\ Cardinality(loop.failed) = 0 /\ pc' = Inner /\ UNCHANGED <<phase, memo, errs>>
           /\ loop' = [loop EXCEPT !.moved = "no", !.ranFull = "yes"]
  <2>1. loop'.spin = 0 /\ pc' # "run"  BY <1>1, <1>7 DEF TypeOK, Inner
  <2>2. QED  BY <1>4, <1>5, <1>7, <2>1 DEF Settling
<1>8. CASE /\ Cardinality(loop.failed) > 0 /\ UNCHANGED <<pc, phase, memo, errs>>
           /\ loop' = [loop EXCEPT !.todo = loop.failed, !.failed = {}, !.moved = "no"]
  <2>1. loop'.spin = 0 /\ loop'.todo = loop.failed /\ loop'.failed = {} /\ loop'.moved = "no"
    BY <1>1, <1>8 DEF TypeOK
  <2>2. Settling(s, t, m)'  BY <1>1, <1>8, <2>1 DEF Settling
  <2>3. QED  BY <1>1, <1>8, <2>2
<1>9. CASE Cardinality(loop.failed) > 0 /\ loop.moved = "no"
  <2>1. Cardinality(loop.failed) # 0  BY <1>3, <1>9, FS_CardinalityType
  <2>2. QED  BY <1>5, <1>6, <1>9, <2>1
<1>10. QED  BY <1>7, <1>8, <1>9 DEF EndPass

-----------------------------------------------------------------------------
(* Where a commit is when it has an error.                                 *)

Reverting == pc \in {"startRevert", "revert"}
Forth == phase \in {"applyChanged", "applyAll"} /\ ~Reverting

PhaseInv ==
  /\ InCommit => phase # "none"
  /\ Reverting => phase = "applyAll"
  /\ pc = "end" => phase = "sync"
  /\ pc \in {"idle", "open", "window"} \/ Forth => errs = {}

LEMMA PhaseStep ==
  ASSUME PhaseInv, [Next]_vars
  PROVE  PhaseInv'
<1>1. CASE Users \/ World \/ UNCHANGED vars
  <2>1. UNCHANGED <<pc, phase, errs>>
    BY <1>1 DEF Users, World, UserWrite, UserBegin, Write, UserCommit, CloudChange, vars
  <2>2. QED  BY <2>1 DEF PhaseInv, InCommit, Reverting, Forth
<1>2. CASE Begin \/ Commit \/ Rollback \/ Crash \/ EndCommit
  <2>1. /\ pc' \in {"idle", "open", "window"} /\ errs' = {}
        /\ pc' = "window" => phase' # "none"
    BY <1>2 DEF Begin, Commit, Rollback, StartCommit, Crash, EndCommit, PhaseInv
  <2>2. QED  BY <2>1 DEF PhaseInv, InCommit, Reverting, Forth
<1>3. CASE PhaseThrows /\ (ReadFails \/ Diff \/ EndPass)
  <2>1. InCommit /\ pc \notin {"window", "end"} /\ ~Reverting
    BY <1>3 DEF ReadFails, Diff, EndPass, InCommit, Reverting
  <2>2. phase = "applyChanged" => errs' = {}
    BY <1>3, <2>1 DEF PhaseThrows, Thrown, PhaseInv, Forth
  <2>3. QED  BY <1>3, <2>2, ThrowsTo DEF PhaseInv, InCommit, Reverting, Forth
<1>4. CASE PhaseReturns
  BY <1>4, ReturnsTo DEF PhaseInv, InCommit, Reverting, Forth
<1>5. CASE Diff \/ EndPass \/ Run \/ ReadDb \/ ReadAfter \/ ReadCloud
  <2>1. CASE PhaseThrows \/ PhaseReturns
    BY <1>3, <1>4, <1>5, <2>1, ThrowsTo DEF Run, ReadDb, ReadAfter, ReadCloud
  <2>2. CASE ~(PhaseThrows \/ PhaseReturns)
    <3>1. /\ UNCHANGED <<phase, errs>> /\ InCommit /\ ~Reverting /\ pc \notin {"window", "end"}
          /\ pc' \in {"readDb", "readAfter", "readCloud", "diff", "run"}
      BY <1>5, <2>2
      DEF Diff, EndPass, Run, ReadDb, ReadAfter, ReadCloud, InCommit, Reverting, Outer, Inner
    <3>2. QED  BY <3>1 DEF PhaseInv, InCommit, Reverting, Forth
  <2>3. QED  BY <2>1, <2>2
<1>6. CASE StartRevert \/ InverseQuery
  <2>1. pc' = "revert" /\ UNCHANGED <<phase, errs>> /\ Reverting
    BY <1>6 DEF StartRevert, InverseQuery, Reverting
  <2>2. QED  BY <2>1 DEF PhaseInv, InCommit, Reverting, Forth
<1>7. CASE ApplyInverse
  <2>1. pc' = "readDb" /\ phase' = "applyRevert"  BY <1>7 DEF ApplyInverse, Start
  <2>2. QED  BY <2>1 DEF PhaseInv, InCommit, Reverting, Forth
<1>8. CASE ReadWindow
  <2>1. /\ pc = "window" /\ errs' = errs
        /\ pc' \in {"readDb", "readCloud"} /\ phase' \in {"applyChanged", "sync"}
    BY <1>8 DEF ReadWindow, Start
  <2>2. QED  BY <2>1 DEF PhaseInv, InCommit, Reverting, Forth
<1>9. QED
  BY <1>1, <1>2, <1>3, <1>5, <1>6, <1>7, <1>8 DEF Next, Engine, ReadFails

LEMMA PhaseAlways == Spec => []PhaseInv
<1>1. Init => PhaseInv  BY DEF Init, PhaseInv, InCommit, Reverting, Forth
<1>2. PhaseInv /\ [Next]_vars => PhaseInv'  BY PhaseStep
<1>3. QED  BY <1>1, <1>2, PTL DEF Spec

-----------------------------------------------------------------------------
(* How the transaction is undone.                                          *)

\* A transaction that FailedCommitUndone is about.
Clean == pc # "idle" /\ base.calm = "yes" /\ base.db = base.cloud

\* Until the commit goes back the log tells how the database came to be what it
\* is, and every inverse query is a step back.  Then the database is restored,
\* applyRevert makes the cloud equal to it, and sync has nothing to do.
UndoneInv ==
  Clean =>
    /\ pc \in {"open", "window", "startRevert"} \/ Forth => BackTo(clock)
    /\ pc = "revert" =>
         \E m \in Span : /\ BackTo(m)
                         /\ inverse = {r \in Visible : mark.open < r.ts /\ r.ts <= m}
    /\ InCommit /\ phase = "applyRevert" => db = base.db /\ Settling(cloud, db, memo.cloud)
    /\ pc \notin {"open", "window"} /\ phase = "sync" =>
         /\ pc # "end" => Settling(db, cloud, memo.db)
         /\ errs # {} => db = base.db /\ cloud = base.cloud

LEMMA HistorySame ==
  ASSUME UNCHANGED <<db, audit, clock, mark>>, base'.db = base.db
  PROVE  \A m : BackTo(m) => BackTo(m)'
<1>1. Visible' = Visible /\ \A r \in Visible : Same(r, r)  BY DEF Visible, Same
<1>2. QED  BY <1>1, HistoryKept

LEMMA UndoneUsers ==
  ASSUME TypeOK, StateInv, StateInv', PhaseInv, UndoneInv, Users
  PROVE  UndoneInv'
<1>1. ASSUME NEW u \in User, NEW e \in Entity, NEW v \in Value \cup {Absent},
             UserWrite(u, e, v) \/ UserBegin(u, e, v)
      PROVE  UndoneInv'
  <2>1. UNCHANGED <<pc, phase>> /\ Disturb(InCommit)
    BY <1>1 DEF UserWrite, UserBegin, Write
  <2>2. InCommit \in BOOLEAN  BY DEF InCommit
  <2>3. CASE pc = "open"
    <3>1. base' = base  BY <2>1, <2>3 DEF Disturb, InCommit
    <3>2. Clean' => Clean  BY <2>1, <3>1 DEF Clean
    <3>3. Clean => BackTo(clock)  BY <2>3 DEF UndoneInv
    <3>4. Clean => BackTo(clock)'  BY <1>1, <3>3, HistoryWrites
    <3>5. QED  BY <2>1, <2>3, <3>2, <3>4 DEF UndoneInv, InCommit
  <2>4. CASE pc # "open"
    <3>1. ~Clean'  BY <2>1, <2>4 DEF Disturb, Clean, InCommit, TypeOK
    <3>2. QED  BY <3>1 DEF UndoneInv
  <2>5. QED  BY <2>3, <2>4
<1>2. ASSUME NEW r \in audit, UserCommit(r) PROVE UndoneInv'
  <2>1. ~Clean'  BY <1>2 DEF UserCommit, Disturb, Clean, TypeOK
  <2>2. QED  BY <2>1 DEF UndoneInv
<1>3. QED  BY <1>1, <1>2 DEF Users

LEMMA UndoneBoundary ==
  ASSUME TypeOK, StateInv, UndoneInv,
         Begin \/ Commit \/ Rollback \/ World \/ Crash \/ EndCommit
  PROVE  UndoneInv'
<1>1. CASE Begin
  <2>1. BackTo(clock)'  BY <1>1, HistoryBegins
  <2>2. pc' = "open"  BY <1>1 DEF Begin
  <2>3. QED  BY <2>1, <2>2 DEF UndoneInv, InCommit
<1>2. CASE Commit \/ Rollback
  <2>1. /\ pc = "open" /\ pc' = "window" /\ phase' \in {"applyChanged", "sync"}
        /\ UNCHANGED <<db, audit, clock>>
        /\ mark' = [mark EXCEPT !.start = clock, !.prev = mark.start]
        /\ base' = [base EXCEPT !.calm = IF @ = "no" THEN "sinceStart" ELSE @]
    BY <1>2 DEF Commit, Rollback, StartCommit, data
  <2>2. base'.db = base.db /\ mark'.open = mark.open  BY <2>1 DEF TypeOK
  <2>3. Clean' => Clean  BY <2>1 DEF Clean, TypeOK
  <2>4. Clean => BackTo(clock)  BY <2>1 DEF UndoneInv
  <2>5. Visible' = Visible /\ \A r \in Visible : Same(r, r)  BY <2>1 DEF Visible, Same
  <2>6. Clean => BackTo(clock)'  BY <2>1, <2>2, <2>4, <2>5, HistoryKept
  <2>7. QED  BY <2>1, <2>3, <2>6 DEF UndoneInv
<1>3. CASE World \/ Crash \/ EndCommit
  <2>1. ~Clean'
    BY <1>3 DEF World, CloudChange, Crash, EndCommit, Disturb, Clean, TypeOK
  <2>2. QED  BY <2>1 DEF UndoneInv
<1>4. QED  BY <1>1, <1>2, <1>3

LEMMA UndoneWindow ==
  ASSUME TypeOK, PhaseInv, UndoneInv, ReadWindow
  PROVE  UndoneInv'
<1> DEFINE Tagged(q) == [q EXCEPT !.status = "taken"]
<1>1. /\ pc = "window" /\ UNCHANGED <<db, clock, mark, base, errs>>
      /\ audit' = (audit \ getChangesToCommit) \cup {Tagged(r) : r \in getChangesToCommit}
      /\ loop' = NoLoop
      /\ \/ phase' = "applyChanged" /\ pc' = "readDb"
         \/ phase' = "sync" /\ pc' = "readCloud"
  BY DEF ReadWindow, Start
<1>2. getChangesToCommit \subseteq Visible /\ Visible \subseteq audit
  BY DEF getChangesToCommit, Visible
<1>3. \A q \in audit : Same(Tagged(q), q) /\ Same(q, Tagged(q)) /\ Tagged(q).status # "hidden"
  BY StatusOnly DEF TypeOK, Same
<1>4. \A q \in audit : Same(q, q)  BY DEF Same
<1> HIDE DEF Tagged
<1>5. Visible' = (Visible \ getChangesToCommit) \cup {Tagged(r) : r \in getChangesToCommit}
  BY <1>1, <1>2, <1>3 DEF Visible
<1>6. /\ \A q \in Visible' : \E r \in Visible : Same(q, r)
      /\ \A r \in Visible : \E q \in Visible' : Same(q, r)
  BY <1>2, <1>3, <1>4, <1>5
<1>7. errs' = {} /\ (Clean' => Clean /\ BackTo(clock))
  BY <1>1 DEF PhaseInv, Clean, UndoneInv
<1>8. Clean' => BackTo(clock)'  BY <1>1, <1>6, <1>7, HistoryKept
<1>9. Settling(db, cloud, memo.db)'  BY <1>1 DEF Settling, NoLoop
<1>10. QED  BY <1>1, <1>7, <1>8, <1>9 DEF UndoneInv

LEMMA UndoneRevert ==
  ASSUME TypeOK, PhaseInv, UndoneInv, StartRevert \/ InverseQuery \/ ApplyInverse
  PROVE  UndoneInv'
<1>1. UNCHANGED <<audit, clock, mark, base>> /\ Reverting /\ phase = "applyAll"
  BY DEF StartRevert, InverseQuery, ApplyInverse, data, Reverting, PhaseInv
<1>2. Clean' => Clean  BY <1>1 DEF Clean, Reverting
<1>3. Visible' = Visible /\ Span' = Span  BY <1>1 DEF Visible, Span
<1>4. CASE StartRevert
  <2>1. /\ pc = "startRevert" /\ pc' = "revert" /\ phase' = phase /\ db' = db
        /\ inverse' = {r \in Visible : r.ts > mark.open}
    BY <1>4 DEF StartRevert, data, getChangeLogsSinceLastBegin
  <2>2. Clean => BackTo(clock)'  BY <1>1, <2>1, HistorySame DEF UndoneInv
  <2>3. clock \in Span /\ \A r \in Visible : r.ts <= clock
    BY DEF Span, TypeOK, Visible
  <2>4. \A r \in Visible : mark.open < r.ts <=> r.ts > mark.open
    BY DEF TypeOK, Row, Visible
  <2>5. inverse' = {r \in Visible' : mark'.open < r.ts /\ r.ts <= clock}
    BY <1>1, <1>3, <2>1, <2>3, <2>4
  <2>6. QED  BY <1>1, <1>2, <1>3, <2>1, <2>2, <2>3, <2>5 DEF UndoneInv, Forth, Reverting
<1>5. CASE InverseQuery
  <2>1. PICK r \in inverse :
          /\ \A s \in inverse : s.ts <= r.ts
          /\ db' = IF db[r.ent] = r.new /\ Fits(db, r.ent, r.old)
                   THEN [db EXCEPT ![r.ent] = r.old] ELSE db
          /\ inverse' = inverse \ {r}
    BY <1>5 DEF InverseQuery
  <2>2. pc = "revert" /\ pc' = "revert" /\ phase' = phase  BY <1>5 DEF InverseQuery
  <2>3. SUFFICES ASSUME Clean
                 PROVE  \E m \in Span : /\ BackTo(m)'
                                        /\ inverse' = {q \in Visible : mark.open < q.ts /\ q.ts <= m}
    BY <1>1, <1>2, <1>3, <2>2 DEF UndoneInv, Forth, Reverting
  <2>4. PICK m \in Span : /\ BackTo(m)
                          /\ inverse = {q \in Visible : mark.open < q.ts /\ q.ts <= m}
    BY <2>2, <2>3 DEF UndoneInv
  <2>5. r \in Visible /\ mark.open < r.ts /\ r.ts <= m  BY <2>1, <2>4
  <2>6. /\ mark.open \in Nat /\ m \in Nat
        /\ \A q \in Visible : q.ts \in Nat /\ (q.ts = r.ts => q = r)
    BY <2>5 DEF TypeOK, Row, Visible, Span
  <2>7. \A q \in Visible : q.ts <= m => q.ts <= r.ts
    BY <2>1, <2>4, <2>5, <2>6
  <2>8. /\ r.ts - 1 \in Span /\ db[r.ent] = r.new /\ Fits(db, r.ent, r.old)
        /\ \E h \in Histories : Recorded(h) /\ h[r.ts - 1] = [db EXCEPT ![r.ent] = r.old]
    BY <2>4, <2>5, <2>7, HistoryBack
  <2>9. db' = [db EXCEPT ![r.ent] = r.old]  BY <2>1, <2>8
  <2>10. PICK h \in Histories : Recorded(h) /\ h[r.ts - 1] = db'  BY <2>8, <2>9
  <2>11. Recorded(h)'
    BY <1>1, <1>3, <2>10 DEF Recorded, Grounded, Present, Founded
  <2>12. BackTo(r.ts - 1)'  BY <2>10, <2>11 DEF BackTo, Histories
  <2>13. inverse' = {q \in Visible : mark.open < q.ts /\ q.ts <= r.ts - 1}
    BY <2>1, <2>4, <2>5, <2>6, <2>7
  <2>14. QED  BY <2>8, <2>12, <2>13
<1>6. CASE ApplyInverse
  <2>1. /\ pc = "revert" /\ inverse = {} /\ UNCHANGED <<db, cloud>>
        /\ pc' = "readDb" /\ phase' = "applyRevert" /\ loop' = NoLoop
    BY <1>6 DEF ApplyInverse, Start, data
  <2>2. Clean => db = base.db
    BY <2>1, HistoryEnds DEF UndoneInv
  <2>3. Settling(cloud, db, memo.cloud)'  BY <2>1 DEF Settling, NoLoop
  <2>4. QED  BY <1>1, <1>2, <2>1, <2>2, <2>3 DEF UndoneInv, Forth
<1>7. QED  BY <1>4, <1>5, <1>6

LEMMA UndoneReads ==
  ASSUME TypeOK, UndoneInv, ReadDb \/ ReadAfter \/ ReadCloud
  PROVE  UndoneInv'
<1>1. /\ UNCHANGED <<db, cloud, audit, clock, mark, base, phase, errs, loop>>
      /\ pc \in {"readDb", "readAfter", "readCloud"}
      /\ pc' \in {"readDb", "readAfter", "readCloud", "diff"}
  BY DEF ReadDb, ReadAfter, ReadCloud, data
<1>2. Clean' => Clean  BY <1>1 DEF Clean
<1>3. (Clean /\ Forth) => BackTo(clock)'  BY <1>1, HistorySame DEF UndoneInv
<1>4. Settling(cloud, db, memo.cloud) => Settling(cloud, db, memo.cloud)'
  BY <1>1 DEF Settling
<1>5. Settling(db, cloud, memo.db) => Settling(db, cloud, memo.db)'
  BY <1>1 DEF Settling
<1>6. QED  BY <1>1, <1>2, <1>3, <1>4, <1>5 DEF UndoneInv, Forth, Reverting, InCommit

\* In applyRevert and sync the diff is about everything there is.
LEMMA UndoneDiffers ==
  ASSUME TypeOK, SyncInv, ReadInv, PhaseInv, Clean, pc = "diff", ~Forth
  PROVE  /\ memo.db = db /\ memo.cloud = cloud
         /\ \A e \in Entity : e \in Different <=> db[e] # cloud[e]
<1>1. Undisturbed /\ phase \in {"applyRevert", "sync"}
  BY DEF Undisturbed, InCommit, Clean, Forth, Reverting, PhaseInv, TypeOK, Phases
<1>2. memo.db = db /\ memo.cloud = cloud /\ memo.after = {}
  BY <1>1 DEF SyncInv, Fresh, ReadInv, Applying
<1>3. Chosen = Entity  BY <1>1, <1>2 DEF Chosen
<1>4. QED
  BY <1>2, <1>3 DEF Different, entitiesInDbOnly, entitiesInAwsOnly, entitiesChanged

\* While the commit goes forth an error only decides where it goes on.
LEMMA UndoneForth ==
  ASSUME PhaseInv, UndoneInv, Clean, Forth, Diff \/ EndPass
  PROVE  UndoneInv'
<1>1. UNCHANGED <<db, audit, clock, mark, base>> /\ pc \in {"diff", "run"}
  BY DEF Diff, EndPass, data
<1>2. BackTo(clock)'  BY <1>1, HistorySame DEF UndoneInv
<1>3. CASE PhaseThrows
  <2>1. phase' = "applyAll" /\ pc' \in {"readDb", "startRevert"}
    BY <1>3, ThrowsTo DEF Forth
  <2>2. QED  BY <1>2, <2>1 DEF UndoneInv
<1>4. CASE PhaseReturns
  <2>1. phase' = "sync" /\ pc' = "readCloud" /\ errs' = {}
    BY <1>4, ReturnsTo DEF Forth, PhaseInv
  <2>2. loop' = NoLoop  BY <1>4 DEF PhaseReturns, Finish, Start
  <2>3. Settling(db, cloud, memo.db)'  BY <2>1, <2>2 DEF Settling, NoLoop
  <2>4. QED  BY <2>1, <2>3 DEF UndoneInv, Forth
<1>5. CASE UNCHANGED phase /\ pc' \in {"run", Inner, Outer}
  <2>1. pc' \in {"run", "readDb", "readCloud"}  BY <1>5 DEF Inner, Outer
  <2>2. QED  BY <1>2, <1>5, <2>1 DEF UndoneInv, Forth
<1>6. QED  BY <1>1, <1>3, <1>4, <1>5 DEF Diff, EndPass

LEMMA UndoneDiff ==
  ASSUME TypeOK, SyncInv, ReadInv, PhaseInv, UndoneInv, Clean, ~Forth, Diff
  PROVE  UndoneInv'
<1>1. UNCHANGED <<db, cloud, audit, clock, mark, base>> /\ pc = "diff"
  BY DEF Diff, data
<1>2. phase \in {"applyRevert", "sync"} /\ InCommit
  BY <1>1 DEF InCommit, Forth, Reverting, PhaseInv, TypeOK, Phases
<1>3. /\ memo.db = db /\ memo.cloud = cloud
      /\ \A e \in Entity : e \in Different <=> db[e] # cloud[e]
  BY <1>1, UndoneDiffers
<1>4. db \in States /\ cloud \in States  BY DEF TypeOK
<1>5. CASE phase = "applyRevert"
  <2>1. db = base.db /\ Settling(cloud, db, memo.cloud)  BY <1>2, <1>5 DEF UndoneInv
  <2>2. \/ PhaseReturns /\ cloud = db
        \/ /\ UNCHANGED <<phase, memo, errs>> /\ pc' \in {"run", Outer}
           /\ Settling(cloud, db, memo.cloud)'
    <3>1. PICK s \in States, t \in States : s = cloud /\ t = db  BY <1>4
    <3>2. \/ PhaseReturns /\ s = t
          \/ UNCHANGED <<phase, memo, errs>> /\ pc' \in {"run", Outer} /\ Settling(s, t, s)'
      BY <1>3, <2>1, <3>1, SettlingDiff
    <3>3. QED  BY <1>1, <1>3, <3>1, <3>2
  <2>3. CASE PhaseReturns /\ cloud = db
    <3>1. phase' = "sync" /\ pc' = "readCloud"  BY <1>5, <2>3, ReturnsTo
    <3>2. loop' = NoLoop  BY <1>5, <2>3 DEF PhaseReturns, Finish, Start
    <3>3. Settling(db, cloud, memo.db)'  BY <3>1, <3>2 DEF Settling, NoLoop
    <3>4. db' = base'.db /\ cloud' = base'.cloud  BY <1>1, <2>1, <2>3 DEF Clean
    <3>5. QED  BY <3>1, <3>3, <3>4 DEF UndoneInv, Forth
  <2>4. CASE /\ UNCHANGED <<phase, memo, errs>> /\ pc' \in {"run", Outer}
             /\ Settling(cloud, db, memo.cloud)'
    <3>1. pc' \in {"run", "readDb", "readCloud"}  BY <2>4 DEF Outer
    <3>2. db' = base'.db  BY <1>1, <2>1
    <3>3. QED  BY <1>5, <2>4, <3>1, <3>2 DEF UndoneInv, Forth
  <2>5. QED  BY <2>2, <2>3, <2>4
<1>6. CASE phase = "sync"
  <2>1. /\ Settling(db, cloud, memo.db)
        /\ errs # {} => db = base.db /\ cloud = base.cloud
    BY <1>1, <1>6 DEF UndoneInv
  <2>2. \/ PhaseReturns
        \/ /\ UNCHANGED <<phase, memo, errs>> /\ pc' \in {"run", Outer}
           /\ Settling(db, cloud, memo.db)'
    <3>1. PICK s \in States, t \in States : s = db /\ t = cloud  BY <1>4
    <3>2. \/ PhaseReturns /\ s = t
          \/ UNCHANGED <<phase, memo, errs>> /\ pc' \in {"run", Outer} /\ Settling(s, t, s)'
      BY <1>3, <2>1, <3>1, SettlingDiff
    <3>3. QED  BY <1>1, <1>3, <3>1, <3>2
  <2>3. CASE PhaseReturns
    <3>1. phase' = "sync" /\ pc' = "end" /\ errs' = errs  BY <1>6, <2>3, ReturnsTo
    <3>2. QED  BY <1>1, <2>1, <3>1 DEF UndoneInv, Forth
  <2>4. CASE /\ UNCHANGED <<phase, memo, errs>> /\ pc' \in {"run", Outer}
             /\ Settling(db, cloud, memo.db)'
    <3>1. pc' \in {"run", "readDb", "readCloud"}  BY <2>4 DEF Outer
    <3>2. QED  BY <1>1, <1>6, <2>1, <2>4, <3>1 DEF UndoneInv, Forth
  <2>5. QED  BY <2>2, <2>3, <2>4
<1>7. QED  BY <1>2, <1>5, <1>6

LEMMA UndoneEndPass ==
  ASSUME TypeOK, StateInv, PhaseInv, UndoneInv, Clean, ~Forth, EndPass
  PROVE  UndoneInv'
<1>1. UNCHANGED <<db, cloud, audit, clock, mark, base>> /\ pc = "run"
  BY DEF EndPass, data
<1>2. phase \in {"applyRevert", "sync"} /\ InCommit
  BY <1>1 DEF InCommit, Forth, Reverting, PhaseInv, TypeOK, Phases
<1>3. db \in States /\ cloud \in States /\ Grounded(db) /\ Grounded(cloud)
  BY DEF TypeOK, StateInv
<1>4. CASE phase = "applyRevert"
  <2>1. db = base.db /\ Settling(cloud, db, memo.cloud)  BY <1>2, <1>4 DEF UndoneInv
  <2>2. PICK s \in States, t \in States, m \in {memo.cloud} : s = cloud /\ t = db /\ m = memo.cloud
    BY <1>3
  <2>3. UNCHANGED <<phase, memo, errs>> /\ pc' \in {"run", Inner} /\ Settling(s, t, m)'
    BY <1>3, <2>1, <2>2, SettlingEndPass
  <2>4. Settling(cloud, db, memo.cloud)'  BY <1>1, <2>2, <2>3
  <2>5. pc' \in {"run", "readDb", "readCloud"}  BY <2>3 DEF Inner
  <2>6. QED  BY <1>1, <1>4, <2>1, <2>3, <2>4, <2>5 DEF UndoneInv, Forth
<1>5. CASE phase = "sync"
  <2>1. /\ Settling(db, cloud, memo.db)
        /\ errs # {} => db = base.db /\ cloud = base.cloud
    BY <1>1, <1>5 DEF UndoneInv
  <2>2. PICK s \in States, t \in States, m \in {memo.db} : s = db /\ t = cloud /\ m = memo.db
    BY <1>3
  <2>3. UNCHANGED <<phase, memo, errs>> /\ pc' \in {"run", Inner} /\ Settling(s, t, m)'
    BY <1>3, <2>1, <2>2, SettlingEndPass
  <2>4. Settling(db, cloud, memo.db)'  BY <1>1, <2>2, <2>3
  <2>5. pc' \in {"run", "readDb", "readCloud"}  BY <2>3 DEF Inner
  <2>6. QED  BY <1>1, <1>5, <2>1, <2>3, <2>4, <2>5 DEF UndoneInv, Forth
<1>6. QED  BY <1>2, <1>4, <1>5

\* No call of applyRevert or sync fails but for a foreign key: what is to be
\* restored was in the cloud before, and nobody else changes anything.
LEMMA UndoneRun ==
  ASSUME ~Flaky, TypeOK, SyncInv, ReadInv, StateInv, PhaseInv, UndoneInv, Clean, Run
  PROVE  UndoneInv'
<1>1. /\ UNCHANGED <<audit, clock, mark, base, phase, errs, memo>>
      /\ pc = "run" /\ pc' = "run" /\ InCommit
  BY DEF Run, InCommit
<1>2. PICK e \in Entity : Succeeds(e) \/ Fails(e)  BY DEF Run
<1>3. Undisturbed /\ db \in States /\ cloud \in States
  BY <1>1 DEF Undisturbed, Clean, TypeOK
<1>4. e \in loop.todo  BY <1>2 DEF Succeeds, Fails
<1>5. CASE Forth
  <2>1. db' = db  BY <1>2, <1>5 DEF Forth, Applying, Succeeds, Fails
  <2>2. BackTo(clock)'  BY <1>1, <1>5, <2>1, HistorySame DEF UndoneInv
  <2>3. QED  BY <1>1, <1>5, <2>2 DEF UndoneInv, Forth
<1>6. CASE phase = "applyRevert"
  <2>1. db = base.db /\ Settling(cloud, db, memo.cloud)
    BY <1>1, <1>6 DEF UndoneInv
  <2>2. memo.db = db /\ cloud[e] = memo.cloud[e]
    BY <1>1, <1>3, <1>4, <1>6, <2>1 DEF ReadInv, Applying, Settling
  <2>3. db[e] \notin Rejected \cup Ignored  BY <2>1 DEF StateInv, Lawful, Clean
  <2>4. CloudTakes(e) <=> Fits(cloud, e, db[e])  BY <2>2, <2>3 DEF CloudTakes
  <2>5. /\ db' = db
        /\ \/ /\ cloud' = [cloud EXCEPT ![e] = db[e]]
              /\ loop' = [loop EXCEPT !.todo = @ \ {e}, !.moved = "yes"]
           \/ /\ cloud' = cloud /\ ~Fits(cloud, e, db[e])
              /\ loop' = [loop EXCEPT !.todo = @ \ {e}, !.failed = @ \cup {e}]
    BY <1>2, <1>6, <2>2, <2>3, <2>4 DEF Succeeds, Fails, Applying
  <2>6. PICK s \in States, t \in States, m \in {memo.cloud}, r \in {cloud'} :
          s = cloud /\ t = db /\ m = memo.cloud /\ r = cloud'
    BY <1>3
  <2>7. Settling(r, t, m)'  BY <1>1, <1>4, <2>1, <2>5, <2>6, SettlingRun
  <2>8. Settling(cloud, db, memo.cloud)'  BY <1>1, <2>5, <2>6, <2>7
  <2>9. QED  BY <1>1, <1>6, <2>1, <2>5, <2>8 DEF UndoneInv, Forth
<1>7. CASE phase = "sync"
  <2>1. /\ Settling(db, cloud, memo.db)
        /\ errs # {} => db = base.db /\ cloud = base.cloud
    BY <1>1, <1>7 DEF UndoneInv
  <2>2. memo.cloud = cloud  BY <1>1, <1>3, <1>7 DEF SyncInv, Fresh
  <2>3. db[e] = memo.db[e] /\ db[e] # cloud[e]  BY <1>1, <1>4, <2>1 DEF Settling
  <2>4. errs = {}  BY <2>1, <2>3 DEF Clean
  <2>5. DbTakes(e) <=> Fits(db, e, cloud[e])  BY <2>2, <2>3 DEF DbTakes
  <2>6. /\ cloud' = cloud
        /\ \/ /\ db' = [db EXCEPT ![e] = cloud[e]]
              /\ loop' = [loop EXCEPT !.todo = @ \ {e}, !.moved = "yes"]
           \/ /\ db' = db /\ ~Fits(db, e, cloud[e])
              /\ loop' = [loop EXCEPT !.todo = @ \ {e}, !.failed = @ \cup {e}]
    BY <1>2, <1>7, <2>2, <2>5 DEF Succeeds, Fails, Applying
  <2>7. PICK s \in States, t \in States, m \in {memo.db}, r \in {db'} :
          s = db /\ t = cloud /\ m = memo.db /\ r = db'
    BY <1>3
  <2>8. Settling(r, t, m)'  BY <1>1, <1>4, <2>1, <2>6, <2>7, SettlingRun
  <2>9. Settling(db, cloud, memo.db)'  BY <1>1, <2>6, <2>7, <2>8
  <2>10. QED  BY <1>1, <1>7, <2>4, <2>9 DEF UndoneInv, Forth
<1>8. phase \in {"applyRevert", "sync"} \/ Forth
  BY <1>1 DEF Forth, Reverting, PhaseInv, TypeOK, Phases
<1>9. QED  BY <1>5, <1>6, <1>7, <1>8

LEMMA UndoneStutter ==
  ASSUME UndoneInv, UNCHANGED vars
  PROVE  UndoneInv'
<1>1. UNCHANGED <<db, cloud, audit, clock, pc, phase, mark, memo, loop, inverse, errs, base>>
  BY DEF vars
<1>2. \A m : BackTo(m) => BackTo(m)'  BY <1>1, HistorySame
<1>3. Settling(cloud, db, memo.cloud) => Settling(cloud, db, memo.cloud)'
  BY <1>1 DEF Settling, Fits, Present
<1>4. Settling(db, cloud, memo.db) => Settling(db, cloud, memo.db)'
  BY <1>1 DEF Settling, Fits, Present
<1>5. Visible' = Visible /\ Span' = Span  BY <1>1 DEF Visible, Span
<1>6. QED
  BY <1>1, <1>2, <1>3, <1>4, <1>5 DEF UndoneInv, Clean, Forth, Reverting, InCommit

LEMMA UndoneStep ==
  ASSUME ~Flaky, TypeOK, SyncInv, ReadInv, StateInv, StateInv', PhaseInv, UndoneInv,
         [Next]_vars
  PROVE  UndoneInv'
<1>1. CASE Begin \/ Commit \/ Rollback \/ World \/ Crash \/ EndCommit
  BY <1>1, UndoneBoundary
<1>2. CASE Users  BY <1>2, UndoneUsers
<1>3. CASE Diff \/ EndPass \/ Run
  <2>1. base' = base /\ pc # "idle"  BY <1>3 DEF Diff, EndPass, Run
  <2>2. CASE ~Clean
    <3>1. ~Clean'  BY <2>1, <2>2 DEF Clean
    <3>2. QED  BY <3>1 DEF UndoneInv
  <2>3. CASE Clean
    BY <1>3, <2>3, UndoneForth, UndoneDiff, UndoneEndPass, UndoneRun
  <2>4. QED  BY <2>2, <2>3
<1>4. CASE Engine /\ ~(Diff \/ EndPass \/ Run \/ EndCommit)
  <2>1. ~ReadFails  BY DEF ReadFails
  <2>2. QED  BY <1>4, <2>1, UndoneWindow, UndoneReads, UndoneRevert DEF Engine
<1>5. CASE UNCHANGED vars  BY <1>5, UndoneStutter
<1>6. QED  BY <1>1, <1>2, <1>3, <1>4, <1>5 DEF Next, Engine

-----------------------------------------------------------------------------
(* The theorem.                                                            *)

\* FailedCommitUndone, for any entities, users and bounds, with statements that
\* take long and workers that die before: when the cloud refuses a change for a
\* reason, the inverse queries lead the database back through the states the
\* statements made, applyRevert finds a call that fits as long as one is left to
\* make, and never takes the same size of the diff for a loop.  Only a call that
\* fails for no reason can leave a transaction half undone.
THEOREM FailureUndone ==
  ASSUME ~Flaky
  PROVE  Spec => []FailedCommitUndone
<1>1. Init => UndoneInv  BY DEF Init, UndoneInv, Clean
<1>2. /\ TypeOK /\ SyncInv /\ ReadInv /\ StateInv /\ StateInv' /\ PhaseInv /\ UndoneInv
      /\ [Next]_vars
      => UndoneInv'
  BY UndoneStep
<1>3. PhaseInv /\ UndoneInv => FailedCommitUndone
  BY DEF PhaseInv, UndoneInv, FailedCommitUndone, Clean
<1>4. QED
  BY <1>1, <1>2, <1>3, TypeCorrect, SyncKept, ReadAlways, StateAlways, PhaseAlways, PTL
  DEF Spec

=============================================================================
