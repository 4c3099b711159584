-------------------------- MODULE DbLifecycleProofs --------------------------
(***************************************************************************)
(* For any number of databases, requests and restarts: a database that     *)
(* connect answered for stays until disconnect is called, unless the       *)
(* metadata lost track of it or two callers handled it at once; when       *)
(* connect answers, the database is the user's; a container that has       *)
(* started knows of no database that does not exist; and an upgrade that   *)
(* ends has put the database back and dropped the old one.                 *)
(***************************************************************************)
EXTENDS DbLifecycle, TLAPS

SavePcs == {"load", "save", "link"}
DeletePcs == {"drop", "delLoad", "delUnlink", "delRemove"}

\* What a caller can be doing.
Upgrading(d) ==
  call[d].op = "upgrade" /\ call[d].db = d
  /\ call[d].pc \in SavePcs \cup {"install", "rename", "dropOld", "stuck"}

Connecting(h) ==
  call[h].op = "connect" /\ call[h].db \in Db
  /\ call[h].pc \in SavePcs \cup DeletePcs \cup {"create", "setup", "told"}

Disconnecting(h) ==
  call[h].op = "disconnect" /\ call[h].db \in Db
  /\ call[h].pc \in DeletePcs \cup {"find"}

Callers ==
  /\ \A d \in Db : call[d] = Free \/ Upgrading(d)
  /\ \A h \in Slot : call[h] = Free \/ Connecting(h) \/ Disconnecting(h)

\* Two callers are never at work on a database that is not astray.
Sole == \A b, c \in Caller :
          b # c /\ call[b].db = call[c].db /\ call[c].db \in Db => call[c].db \in astray

\* Until the container serves requests there are none, and the upgrades wait.
Quiet == up.pc # "serving" => \A c \in Caller : call[c].pc \in {"free", "install"}

\* A connected database is in its user's list, or being upgraded.
Tracked == \A d \in live \ astray : d \in linked \/ call[d].op = "upgrade"

\* A connect that is past its check of the alias, or a disconnect, is not
\* about a connected database ...
NotLive == \A h \in Slot :
             call[h].pc \notin {"free", "load", "told"} => call[h].db \notin live \ astray

\* ... and the database that a connect is creating is in its user's list.
Listed == \A h \in Slot :
            call[h].pc \in {"create", "setup", "told"} => call[h].db \in linked \cup astray

\* A connect answers for a database that exists, and an upgrade drops the old
\* one only when it does.
There == \A c \in Caller :
           call[c].pc \in {"told", "dropOld"} =>
             Exists(call[c].db) \/ call[c].db \in astray

\* While the container starts, the cleaner has every row without a database
\* still before it.
Cleaning ==
  up.pc = "starting" =>
    /\ cleaner.pc # "done"
    /\ cleaner.pc = "actual" => record \subseteq cleaner.dbs
    /\ cleaner.pc = "remove" => \A d \in record : Exists(d) \/ d \in cleaner.dbs

IInv == /\ TypeOK /\ Callers /\ Sole /\ Quiet /\ Tracked /\ NotLive /\ Listed
        /\ There /\ Cleaning /\ LiveKept

-----------------------------------------------------------------------------
(* A step of a caller.  What it may do to databases other than its own and *)
(* what it must see to for its own are stated once; each action is then    *)
(* shown to keep to that.                                                  *)

\* Caller c goes on with its work, or is done; the others stay where they are.
Moves(c) ==
  /\ \A b \in Caller : b # c => call'[b] = call[b]
  /\ \/ call'[c] = Free
     \/ /\ call'[c].db = call[c].db /\ call'[c].op = call[c].op
        /\ c \in Db => Upgrading(c)'
        /\ c \in Slot => Connecting(c)' \/ Disconnecting(c)'

\* The step loses no other database.
Others(c) ==
  /\ astray \subseteq astray'
  /\ \A d \in Db \ astray' : d # call[c].db =>
       /\ d \in live' <=> d \in live
       /\ d \in linked => d \in linked'
       /\ \A p \in {"", "OLD"} : <<p, d>> \in actual => <<p, d>> \in actual'

\* The invariant, for the caller and its own database.
Own(c, d) ==
  /\ d \in live' => /\ d \in linked' \/ call'[c].op = "upgrade"
                    /\ \E p \in {"", "OLD"} : <<p, d>> \in actual'
  /\ c \in Slot /\ call'[c].pc \notin {"free", "load", "told"} => d \notin live'
  /\ c \in Slot /\ call'[c].pc \in {"create", "setup", "told"} => d \in linked'
  /\ call'[c].pc \in {"told", "dropOld"} => <<"", d>> \in actual'

\* A caller that moves, and moves no other, stays within its operation.
LEMMA CallersMove ==
  ASSUME Callers, NEW c \in Caller, Moves(c)
  PROVE  Callers'
<1>1. ASSUME NEW d \in Db  PROVE (call[d] = Free \/ Upgrading(d))'
  <2>1. CASE d = c  BY <2>1 DEF Moves
  <2>2. CASE d # c  BY <2>2 DEF Moves, Callers, Caller, Upgrading
  <2>3. QED  BY <2>1, <2>2
<1>2. ASSUME NEW h \in Slot  PROVE (call[h] = Free \/ Connecting(h) \/ Disconnecting(h))'
  <2>1. CASE h = c  BY <2>1 DEF Moves
  <2>2. CASE h # c  BY <2>2 DEF Moves, Callers, Caller, Connecting, Disconnecting
  <2>3. QED  BY <2>1, <2>2
<1>3. QED  BY <1>1, <1>2 DEF Callers, Free

\* ... and meets no other caller, unless over a database that is astray.
LEMMA SoleMove ==
  ASSUME Sole, NEW c \in Caller, Moves(c), Others(c)
  PROVE  Sole'
<1> SUFFICES ASSUME NEW a \in Caller, NEW b \in Caller, a # b,
                    call'[a].db = call'[b].db, call'[b].db \in Db
             PROVE  call'[b].db \in astray'
  BY DEF Sole
<1>1. ASSUME NEW e \in Caller  PROVE call'[e].db = call[e].db \/ call'[e].db \notin Db
  BY LifecycleAssumption DEF LifecycleAssumption, Moves, Free
<1>2. call[a].db = call[b].db /\ call[b].db \in Db  BY <1>1
<1>3. QED  BY <1>1, <1>2 DEF Sole, Others

\* A caller that works on the database of another one has it astray.
LEMMA Alone ==
  ASSUME Callers, Sole, NEW b \in Caller, NEW c \in Caller, b # c,
         call[b].db = call[c].db, call[c].pc # "free"
  PROVE  call[c].db \in astray
<1>1. call[c].db \in Db
  BY DEF Callers, Caller, Upgrading, Connecting, Disconnecting, Free
<1>2. QED  BY <1>1 DEF Sole

\* What a step of a caller has to show to keep the invariant: it moves, it
\* loses nothing of others, and its own database is astray or in order.
LEMMA StepKeeps ==
  ASSUME IInv, NEW c \in Caller, call[c].pc # "free", Moves(c), Others(c),
         call[c].db \in astray' \/ Own(c, call[c].db),
         TypeOK', up.pc = "serving", up' = up
  PROVE  IInv'
<1> DEFINE d == call[c].db
<1>0. Callers /\ Sole /\ Tracked /\ NotLive /\ Listed /\ There /\ LiveKept  BY DEF IInv
<1>1. Callers' /\ Sole'  BY <1>0, CallersMove, SoleMove
<1>2. Quiet' /\ Cleaning'  BY DEF Quiet, Cleaning
<1>3. d \in Db
  BY <1>0 DEF Callers, Caller, Upgrading, Connecting, Disconnecting, Free
<1>4. ASSUME NEW b \in Caller, b # c
      PROVE  call'[b] = call[b] /\ (call[b].db = d => d \in astray')
  BY <1>0, <1>4, Alone DEF Others, Moves
<1>5. c \in Db => c = d  BY <1>0 DEF Callers, Upgrading, Free
<1>6. d \in Caller  BY <1>3 DEF Caller
<1>7. Tracked'
  <2> SUFFICES ASSUME NEW e \in live', e \notin astray'
               PROVE  e \in linked' \/ call'[e].op = "upgrade"
    BY DEF Tracked
  <2>1. e \in Db  BY DEF TypeOK
  <2>2. CASE e # d
    <3>1. e # c  BY <1>5, <2>1, <2>2
    <3>2. call'[e] = call[e]  BY <1>4, <2>1, <3>1 DEF Caller
    <3>3. QED  BY <1>0, <2>1, <2>2, <3>2 DEF Others, Tracked
  <2>3. CASE e = d
    <3>1. e \in linked' \/ call'[c].op = "upgrade"  BY <2>3 DEF Own
    <3>2. call'[c].op = "upgrade" => c \in Db
      BY DEF Moves, Caller, Free, Connecting, Disconnecting
    <3>3. QED  BY <1>5, <2>3, <3>1, <3>2
  <2>4. QED  BY <2>2, <2>3
<1>8. LiveKept'
  <2> SUFFICES ASSUME NEW e \in live', e \notin astray'
               PROVE  \E p \in {"", "OLD"} : <<p, e>> \in actual'
    BY DEF LiveKept
  <2>1. e \in Db  BY DEF TypeOK
  <2>2. CASE e # d
    <3>1. e \in live \ astray  BY <2>1, <2>2 DEF Others
    <3>2. \E p \in {"", "OLD"} : <<p, e>> \in actual  BY <1>0, <3>1 DEF LiveKept
    <3>3. QED  BY <2>1, <2>2, <3>2 DEF Others
  <2>3. CASE e = d  BY <2>3 DEF Own
  <2>4. QED  BY <2>2, <2>3
<1>9. ASSUME NEW b \in Caller, b # c, call[b].pc # "free", call[b].db \notin astray'
      PROVE  /\ call'[b] = call[b] /\ call[b].db \in Db /\ call[b].db # d
             /\ call[b].db \in live' <=> call[b].db \in live
             /\ call[b].db \in linked => call[b].db \in linked'
             /\ <<"", call[b].db>> \in actual => <<"", call[b].db>> \in actual'
  <2>1. call'[b] = call[b] /\ call[b].db # d  BY <1>4, <1>9
  <2>2. call[b].db \in Db
    BY <1>0, <1>9 DEF Callers, Caller, Upgrading, Connecting, Disconnecting, Free
  <2>3. QED  BY <1>9, <2>1, <2>2 DEF Others
<1>10. call'[c].pc = "free" \/ call'[c].db = d  BY DEF Moves, Free
<1>11. NotLive'
  <2> SUFFICES ASSUME NEW h \in Slot, call'[h].pc \notin {"free", "load", "told"},
                      call'[h].db \in live' \ astray'
               PROVE  FALSE
    BY DEF NotLive
  <2>1. CASE h = c  BY <1>10, <2>1 DEF Own
  <2>2. CASE h # c
    <3>1. h \in Caller /\ call'[h] = call[h]  BY <1>4, <2>2 DEF Caller
    <3>2. call[h].db \notin astray  BY <3>1 DEF Others
    <3>3. call[h].pc # "free"  BY <3>1
    <3>4. QED  BY <1>0, <1>9, <2>2, <3>1, <3>2, <3>3 DEF NotLive
  <2>3. QED  BY <2>1, <2>2
<1>12. Listed'
  <2> SUFFICES ASSUME NEW h \in Slot, call'[h].pc \in {"create", "setup", "told"},
                      call'[h].db \notin astray'
               PROVE  call'[h].db \in linked'
    BY DEF Listed
  <2>1. CASE h = c  BY <1>10, <2>1 DEF Own
  <2>2. CASE h # c
    <3>1. h \in Caller /\ call'[h] = call[h]  BY <1>4, <2>2 DEF Caller
    <3>2. call[h].db \notin astray  BY <3>1 DEF Others
    <3>3. call[h].pc # "free"  BY <3>1
    <3>4. QED  BY <1>0, <1>9, <2>2, <3>1, <3>2, <3>3 DEF Listed
  <2>3. QED  BY <2>1, <2>2
<1>13. There'
  <2> SUFFICES ASSUME NEW b \in Caller, call'[b].pc \in {"told", "dropOld"},
                      call'[b].db \notin astray'
               PROVE  <<"", call'[b].db>> \in actual'
    BY DEF There, Exists
  <2>1. CASE b = c  BY <1>10, <2>1 DEF Own
  <2>2. CASE b # c
    <3>1. b \in Caller /\ call'[b] = call[b]  BY <1>4, <2>2 DEF Caller
    <3>2. call[b].db \notin astray  BY <3>1 DEF Others
    <3>3. call[b].pc # "free"  BY <3>1
    <3>4. QED  BY <1>0, <1>9, <2>2, <3>1, <3>2, <3>3 DEF There, Exists
  <2>3. QED  BY <2>1, <2>2
<1>14. QED  BY <1>1, <1>2, <1>7, <1>8, <1>11, <1>12, <1>13 DEF IInv

-----------------------------------------------------------------------------
(* The actions of the callers.                                             *)

CallType == [op : {"none", "connect", "disconnect", "upgrade"},
             db : Db \cup {NoDb}, pc : Pcs, seen : SUBSET Db]

\* A database under one of its three names is one the server may have.
LEMMA InServer ==
  ASSUME NEW d \in Db
  PROVE  \A p \in {"", "NEW", "OLD"} : <<p, d>> \in {"", "NEW", "OLD"} \X Db
  OBVIOUS

\* The steps of an operation.
Legal(op, pc) ==
  \/ op = "connect" /\ pc \in SavePcs \cup DeletePcs \cup {"create", "setup", "told"}
  \/ op = "disconnect" /\ pc \in DeletePcs \cup {"find"}
  \/ op = "upgrade" /\ pc \in SavePcs \cup {"install", "rename", "dropOld", "stuck"}

\* Going on with another step, or ending, is a move and keeps the type.
LEMMA GotoMoves ==
  ASSUME TypeOK, Callers, NEW c \in Caller, NEW pc, Goto(c, pc),
         Legal(call[c].op, pc)
  PROVE  Moves(c) /\ call' \in [Caller -> CallType] /\ call'[c].pc = pc /\ call'[c].op = call[c].op
<1>1. call \in [Caller -> CallType]  BY DEF TypeOK, CallType
<1>2. call' = [call EXCEPT ![c] = [call[c] EXCEPT !.pc = pc]]  BY DEF Goto
<1>3. call'[c] = [call[c] EXCEPT !.pc = pc] /\ \A b \in Caller : b # c => call'[b] = call[b]
  BY <1>1, <1>2
<1>4. /\ call'[c].pc = pc /\ call'[c].op = call[c].op /\ call'[c].db = call[c].db
  BY <1>1, <1>3 DEF CallType
<1>5. call' \in [Caller -> CallType]
  <2>1. pc \in Pcs  BY DEF Legal, Pcs, SavePcs, DeletePcs
  <2>2. [call[c] EXCEPT !.pc = pc] \in CallType  BY <1>1, <2>1 DEF CallType
  <2>3. QED  BY <1>1, <1>2, <2>2
<1>6. c \in Db => Upgrading(c)'  BY <1>4 DEF Legal, Callers, Upgrading, Free
<1>7. c \in Slot => Connecting(c)' \/ Disconnecting(c)'
  BY <1>4 DEF Legal, Callers, Connecting, Disconnecting, Free
<1>8. QED  BY <1>3, <1>4, <1>5, <1>6, <1>7 DEF Moves

\* Ending is a move.
LEMMA DoneMoves ==
  ASSUME TypeOK, NEW c \in Caller, Done(c)
  PROVE  Moves(c) /\ call' \in [Caller -> CallType] /\ call'[c] = Free
<1>1. call \in [Caller -> CallType]  BY DEF TypeOK, CallType
<1>2. Free \in CallType  BY DEF Free, CallType, Pcs
<1>3. QED  BY <1>1, <1>2 DEF Done, Moves

\* What is known of a caller and its database, before it takes a step.
LEMMA OwnNow ==
  ASSUME IInv, NEW c \in Caller, call[c].pc # "free"
  PROVE  /\ call[c].db \in Db
         /\ call[c].op = "connect" => c \in Slot /\ Connecting(c)
         /\ call[c].op = "disconnect" => c \in Slot /\ Disconnecting(c)
         /\ call[c].op = "upgrade" => c \in Db /\ Upgrading(c)
         /\ call[c].op \in {"connect", "disconnect", "upgrade"}
         /\ call[c].pc # "install" => up.pc = "serving"
         /\ call[c].db \notin astray =>
              /\ call[c].db \in live =>
                   /\ call[c].db \in linked \/ call[c].op = "upgrade"
                   /\ \E p \in {"", "OLD"} : <<p, call[c].db>> \in actual
              /\ c \in Slot /\ call[c].pc \notin {"load", "told"} => call[c].db \notin live
              /\ c \in Slot /\ call[c].pc \in {"create", "setup", "told"} => call[c].db \in linked
              /\ call[c].pc \in {"told", "dropOld"} => Exists(call[c].db)
<1> DEFINE d == call[c].db
<1>0. Callers /\ Sole /\ Tracked /\ NotLive /\ Listed /\ There /\ LiveKept /\ Quiet  BY DEF IInv
<1>1. c \in Slot => Connecting(c) \/ Disconnecting(c)  BY <1>0 DEF Callers, Free
<1>2. c \in Db => Upgrading(c)  BY <1>0 DEF Callers, Free
<1>3. d \in Db /\ d \in Caller
  BY <1>1, <1>2 DEF Caller, Upgrading, Connecting, Disconnecting
<1>4. ASSUME d \in live, d \notin astray
      PROVE  d \in linked \/ call[c].op = "upgrade"
  <2>1. d \in linked \/ call[d].op = "upgrade"  BY <1>0, <1>4 DEF Tracked
  <2>2. CASE call[d].op = "upgrade"
    <3>1. call[d].db = d  BY <1>0, <1>3, <2>2 DEF Callers, Upgrading, Free
    <3>2. d = c  BY <1>0, <1>3, <1>4, <3>1, Alone
    <3>3. QED  BY <2>2, <3>2
  <2>3. QED  BY <2>1, <2>2
<1>5. c \in Slot \/ c \in Db  BY DEF Caller
<1>6. call[c].pc # "install" => up.pc = "serving"  BY <1>0 DEF Quiet
<1>7. d \in live /\ d \notin astray => \E p \in {"", "OLD"} : <<p, d>> \in actual
  BY <1>0 DEF LiveKept
<1>8. d \notin astray =>
        /\ c \in Slot /\ call[c].pc \notin {"load", "told"} => d \notin live
        /\ c \in Slot /\ call[c].pc \in {"create", "setup", "told"} => d \in linked
        /\ call[c].pc \in {"told", "dropOld"} => Exists(d)
  BY <1>0 DEF NotLive, Listed, There
<1>9. /\ call[c].op = "connect" => c \in Slot /\ Connecting(c)
      /\ call[c].op = "disconnect" => c \in Slot /\ Disconnecting(c)
      /\ call[c].op = "upgrade" => c \in Db /\ Upgrading(c)
      /\ call[c].op \in {"connect", "disconnect", "upgrade"}
  BY <1>1, <1>2, <1>5 DEF Upgrading, Connecting, Disconnecting
<1>10. QED  BY <1>3, <1>4, <1>6, <1>7, <1>8, <1>9

\* Where a caller is tells what it is doing.
LEMMA OpOfPc ==
  ASSUME IInv, NEW c \in Caller
  PROVE  /\ call[c].pc \in SavePcs => call[c].op \in {"connect", "upgrade"}
         /\ call[c].pc \in {"create", "setup", "told"} => call[c].op = "connect"
         /\ call[c].pc \in DeletePcs => call[c].op \in {"connect", "disconnect"}
         /\ call[c].pc = "find" => call[c].op = "disconnect"
         /\ call[c].pc \in {"install", "rename", "dropOld", "stuck"} =>
              call[c].op = "upgrade"
<1>1. call[c] = Free \/ Upgrading(c) \/ Connecting(c) \/ Disconnecting(c)
  BY DEF IInv, Callers, Caller
<1>2. QED  BY <1>1 DEF Free, Upgrading, Connecting, Disconnecting, SavePcs, DeletePcs

\* Reading the user's list is a move too.
LEMMA SeenMoves ==
  ASSUME TypeOK, Callers, NEW c \in Caller, NEW pc,
         call' = [call EXCEPT ![c].seen = linked, ![c].pc = pc],
         Legal(call[c].op, pc)
  PROVE  Moves(c) /\ call' \in [Caller -> CallType] /\ call'[c].pc = pc /\ call'[c].op = call[c].op
<1>1. call \in [Caller -> CallType] /\ linked \in SUBSET Db  BY DEF TypeOK, CallType
<1>2. call' = [call EXCEPT ![c] = [call[c] EXCEPT !.seen = linked, !.pc = pc]]  OBVIOUS
<1>3. /\ call'[c] = [call[c] EXCEPT !.seen = linked, !.pc = pc]
      /\ \A b \in Caller : b # c => call'[b] = call[b]
  BY <1>1, <1>2
<1>4. /\ call'[c].pc = pc /\ call'[c].op = call[c].op /\ call'[c].db = call[c].db
  BY <1>1, <1>3 DEF CallType
<1>5. call' \in [Caller -> CallType]
  <2>1. pc \in Pcs  BY DEF Legal, Pcs, SavePcs, DeletePcs
  <2>2. [call[c] EXCEPT !.seen = linked, !.pc = pc] \in CallType  BY <1>1, <2>1 DEF CallType
  <2>3. QED  BY <1>1, <1>2, <2>2
<1>6. c \in Db => Upgrading(c)'  BY <1>4 DEF Legal, Callers, Upgrading, Free
<1>7. c \in Slot => Connecting(c)' \/ Disconnecting(c)'
  BY <1>4 DEF Legal, Callers, Connecting, Disconnecting, Free
<1>8. QED  BY <1>3, <1>4, <1>5, <1>6, <1>7 DEF Moves

\* Steps that change nothing but where the caller is.
LEMMA LocalStep ==
  ASSUME IInv, NEW c \in Caller,
         Load(c) \/ Told(c) \/ Find(c) \/ DelLoad(c) \/ Install(c)
  PROVE  IInv'
<1> DEFINE d == call[c].db
<1>0. TypeOK /\ Callers  BY DEF IInv
<1>1. UNCHANGED <<actual, record, linked, cleaner, up, restarts, live, astray>>
  BY DEF Load, Told, Find, DelLoad, Install
<1>2. call[c].pc # "free" /\ up.pc = "serving"
  BY OwnNow DEF Load, Told, Find, DelLoad, Install, At
<1>3. /\ Moves(c) /\ call' \in [Caller -> CallType]
      /\ \/ call'[c] = Free /\ call[c].op # "upgrade"
         \/ /\ call'[c].op = call[c].op
            /\ \/ call'[c].pc \in DeletePcs /\ call[c].pc \notin {"load", "told"}
               \/ call[c].op = "upgrade" /\ call'[c].pc \in {"save", "stuck", "rename"}
               \/ call'[c].pc = "save" /\ d \notin linked
  <2>1. CASE Load(c)
    <3>1. call[c].op \in {"connect", "upgrade"}  BY <2>1, OpOfPc DEF Load, At, SavePcs
    <3>2. Legal(call[c].op, "save") /\ (call[c].op = "upgrade" => Legal(call[c].op, "stuck"))
      BY <3>1 DEF Legal, SavePcs
    <3>3. CASE Throw(c)
      <4>1. \/ Done(c) /\ call[c].op # "upgrade"
            \/ call[c].op = "upgrade" /\ Goto(c, "stuck")
        BY <3>3 DEF Throw
      <4>2. QED  BY <1>0, <3>2, <4>1, GotoMoves, DoneMoves
    <3>4. CASE /\ d \notin linked
               /\ call' = [call EXCEPT ![c].seen = linked, ![c].pc = "save"]
      BY <1>0, <3>2, <3>4, SeenMoves
    <3>5. QED  BY <2>1, <3>3, <3>4 DEF Load
  <2>2. CASE Told(c)
    <3>1. call[c].op = "connect"  BY <2>2, OpOfPc DEF Told, At
    <3>2. QED  BY <1>0, <2>2, <3>1, DoneMoves DEF Told
  <2>3. CASE Find(c)
    <3>1. call[c].op = "disconnect"  BY <2>3, OpOfPc DEF Find, At
    <3>2. Legal(call[c].op, "drop") /\ "drop" \in DeletePcs  BY <3>1 DEF Legal, DeletePcs
    <3>3. Done(c) \/ Goto(c, "drop")  BY <2>3 DEF Find
    <3>4. QED  BY <1>0, <2>3, <3>1, <3>2, <3>3, GotoMoves, DoneMoves DEF Find, At
  <2>4. CASE DelLoad(c)
    <3>1. call[c].op \in {"connect", "disconnect"}  BY <2>4, OpOfPc DEF DelLoad, At, DeletePcs
    <3>2. Legal(call[c].op, "delUnlink") /\ "delUnlink" \in DeletePcs
      BY <3>1 DEF Legal, DeletePcs
    <3>3. Done(c) \/ call' = [call EXCEPT ![c].seen = linked, ![c].pc = "delUnlink"]
      BY <2>4, <3>1 DEF DelLoad, Throw
    <3>4. QED  BY <1>0, <2>4, <3>1, <3>2, <3>3, SeenMoves, DoneMoves DEF DelLoad, At
  <2>5. CASE Install(c)
    <3>1. call[c].op = "upgrade"  BY <2>5, OpOfPc DEF Install, At
    <3>2. Legal(call[c].op, "rename")  BY <3>1 DEF Legal
    <3>3. QED  BY <1>0, <2>5, <3>1, <3>2, GotoMoves DEF Install
  <2>6. QED  BY <2>1, <2>2, <2>3, <2>4, <2>5
<1>4. TypeOK'  BY <1>0, <1>1, <1>3 DEF TypeOK, CallType
<1>5. Others(c)  BY <1>1 DEF Others
<1>6. ASSUME d \notin astray'  PROVE Own(c, d)
  <2>1. d \notin astray  BY <1>1, <1>6
  <2>2. call'[c].pc \notin {"told", "dropOld", "create", "setup"}
    BY <1>3 DEF Free, DeletePcs
  <2>3. d \in live =>
          (d \in linked \/ call'[c].op = "upgrade") /\ \E p \in {"", "OLD"} : <<p, d>> \in actual
    BY <1>2, <1>3, <2>1, OwnNow
  <2>4. c \in Slot /\ call'[c].pc \notin {"free", "load", "told"} => d \notin live
    <3>1. call[c].op = "upgrade" => c \notin Slot
      BY <1>2, OwnNow, LifecycleAssumption DEF LifecycleAssumption
    <3>2. CASE call'[c].pc \in DeletePcs /\ call[c].pc \notin {"load", "told"}
      BY <1>2, <2>1, <3>2, OwnNow
    <3>3. CASE call'[c] = Free  BY <3>3 DEF Free
    <3>4. CASE call'[c].pc = "save" /\ d \notin linked  BY <1>2, <2>1, <3>1, <3>4, OwnNow
    <3>5. QED  BY <1>3, <3>1, <3>2, <3>3, <3>4
  <2>5. QED  BY <1>1, <2>2, <2>3, <2>4 DEF Own
<1>7. QED  BY <1>1, <1>2, <1>3, <1>4, <1>5, <1>6, StepKeeps

\* saveDb adds the row.
LEMMA SaveStep ==
  ASSUME IInv, NEW c \in Caller, Save(c)
  PROVE  IInv'
<1> DEFINE d == call[c].db
<1>0. TypeOK /\ Callers  BY DEF IInv
<1>1. /\ At(c, "save") /\ UNCHANGED <<actual, linked, cleaner, up, restarts, live, astray>>
      /\ \/ Throw(c) /\ UNCHANGED record
         \/ Goto(c, "link") /\ record' = record \cup {d}
  BY DEF Save
<1>2. call[c].pc = "save" /\ call[c].op \in {"connect", "upgrade"}
  BY <1>1, OpOfPc DEF At, SavePcs
<1>3. /\ Moves(c) /\ call' \in [Caller -> CallType]
      /\ \/ call'[c].pc \in {"link", "stuck"} /\ call'[c].op = call[c].op
         \/ call'[c].pc = "free" /\ call[c].op # "upgrade"
      /\ call'[c].pc = "stuck" => call[c].op = "upgrade"
  <2>1. CASE Throw(c)
    <3>1. CASE call[c].op = "upgrade"
      BY <1>0, <2>1, <3>1, GotoMoves DEF Throw, Legal
    <3>2. CASE call[c].op # "upgrade"
      BY <1>0, <2>1, <3>2, DoneMoves DEF Throw, Free
    <3>3. QED  BY <3>1, <3>2
  <2>2. CASE Goto(c, "link")  BY <1>0, <1>2, <2>2, GotoMoves DEF Legal, SavePcs
  <2>3. QED  BY <1>1, <2>1, <2>2
<1>4. TypeOK'  BY <1>0, <1>1, <1>2, <1>3, OwnNow DEF TypeOK, CallType
<1>5. Others(c)  BY <1>1 DEF Others
<1>6. ASSUME d \notin astray'  PROVE Own(c, d)
  <2>1. call[c].op = "upgrade" => c \notin Slot
    BY <1>2, OwnNow, LifecycleAssumption DEF LifecycleAssumption
  <2>2. QED  BY <1>1, <1>2, <1>3, <1>6, <2>1, OwnNow DEF Own
<1>7. QED  BY <1>1, <1>2, <1>3, <1>4, <1>5, <1>6, OwnNow, StepKeeps

\* userRepo.save unlinks only databases that go astray.
LEMMA SaveUserOthers ==
  ASSUME NEW c \in Caller, NEW dbs, SaveUser(c, dbs), UNCHANGED <<actual, live>>
  PROVE  Others(c)
  BY DEF SaveUser, Others

\* userRepo.save, of a connect or of the end of an upgrade.
LEMMA LinkStep ==
  ASSUME IInv, NEW c \in Caller, Link(c)
  PROVE  IInv'
<1> DEFINE d == call[c].db
           dbs == call[c].seen \cup {d}
<1>0. TypeOK /\ Callers  BY DEF IInv
<1>1. call[c].pc = "link" /\ call[c].op \in {"connect", "upgrade"}
  BY OpOfPc DEF Link, At, SavePcs
<1>2. UNCHANGED <<actual, record, cleaner, up, restarts, live>>  BY DEF Link
<1>3. CASE /\ dbs \subseteq record /\ SaveUser(c, dbs)
           /\ IF call[c].op = "connect" THEN Goto(c, "create") ELSE Done(c)
  <2>1. SaveUser(c, dbs) /\ linked' = dbs  BY <1>3 DEF SaveUser
  <2>2. \/ call[c].op = "connect" /\ Goto(c, "create")
        \/ call[c].op = "upgrade" /\ Done(c)
    BY <1>1, <1>3
  <2>3. /\ Moves(c) /\ call' \in [Caller -> CallType]
        /\ \/ call'[c].pc = "create" /\ call'[c].op = call[c].op
           \/ call'[c] = Free /\ call[c].op = "upgrade"
    BY <1>0, <2>2, GotoMoves, DoneMoves DEF Legal
  <2>4. astray' \subseteq Db
    BY <1>0, <1>3, <2>1 DEF SaveUser, TypeOK
  <2>5. TypeOK'  BY <1>0, <1>2, <1>3, <2>1, <2>3, <2>4 DEF TypeOK, CallType
  <2>6. Others(c)  BY <1>2, <2>1, SaveUserOthers
  <2>7. ASSUME d \notin astray'  PROVE Own(c, d)
    <3>1. d \notin astray /\ d \in linked'  BY <2>1, <2>6, <2>7 DEF Others
    <3>2. d \in live => \E p \in {"", "OLD"} : <<p, d>> \in actual  BY <1>1, <3>1, OwnNow
    <3>3. c \in Slot => d \notin live  BY <1>1, <3>1, OwnNow
    <3>4. call'[c].pc \in {"create", "free"}  BY <2>3 DEF Free
    <3>5. QED  BY <1>2, <3>1, <3>2, <3>3, <3>4 DEF Own
  <2>8. QED  BY <1>1, <1>2, <2>3, <2>5, <2>6, <2>7, OwnNow, StepKeeps
<1>4. CASE Throw(c) /\ linked' = linked /\ astray' \in {astray, astray \cup {d}}
  <2>1. /\ Moves(c) /\ call' \in [Caller -> CallType]
        /\ \/ call'[c].pc = "stuck" /\ call'[c].op = "upgrade" /\ call[c].op = "upgrade"
           \/ call'[c].pc = "free" /\ call[c].op = "connect"
    <3>1. CASE call[c].op = "upgrade"
      BY <1>0, <1>4, <3>1, GotoMoves DEF Throw, Legal
    <3>2. CASE call[c].op = "connect"
      BY <1>0, <1>4, <3>2, DoneMoves DEF Throw, Free
    <3>3. QED  BY <1>1, <3>1, <3>2
  <2>2. TypeOK'  BY <1>0, <1>1, <1>2, <1>4, <2>1, OwnNow DEF TypeOK, CallType
  <2>3. Others(c)  BY <1>2, <1>4 DEF Others
  <2>4. ASSUME d \notin astray'  PROVE Own(c, d)
    <3>1. d \notin astray  BY <1>4, <2>4
    <3>2. call'[c].pc = "stuck" => c \notin Slot
      BY <1>1, <2>1, OwnNow, LifecycleAssumption DEF LifecycleAssumption
    <3>3. QED  BY <1>1, <1>2, <1>4, <2>1, <3>1, <3>2, OwnNow DEF Own
  <2>5. QED  BY <1>1, <1>2, <2>1, <2>2, <2>3, <2>4, OwnNow, StepKeeps
<1>5. QED  BY <1>3, <1>4 DEF Link

\* CREATE DATABASE: the database is in the list, and was not connected yet.
LEMMA CreateStep ==
  ASSUME IInv, NEW c \in Caller, Create(c)
  PROVE  IInv'
<1> DEFINE d == call[c].db
<1>0. TypeOK /\ Callers  BY DEF IInv
<1>1. call[c].pc = "create" /\ call[c].op = "connect"  BY OpOfPc DEF Create, At
<1>2. UNCHANGED <<record, linked, cleaner, up, restarts, live, astray>>  BY DEF Create
<1>3. \/ (Goto(c, "delLoad") \/ Goto(c, "drop")) /\ actual' = actual
      \/ actual' = actual \cup {<<"", d>>} /\ Goto(c, "setup")
  BY DEF Create
<1>4. /\ Moves(c) /\ call' \in [Caller -> CallType] /\ call'[c].op = "connect"
      /\ call'[c].pc \in {"delLoad", "drop", "setup"}
  BY <1>0, <1>1, <1>3, GotoMoves DEF Legal, DeletePcs
<1>5. TypeOK'
  <2>1. d \in Db  BY <1>1, OwnNow
  <2>2. actual' \subseteq {"", "NEW", "OLD"} \X Db
    BY <1>0, <1>3, <2>1, InServer DEF TypeOK
  <2>3. QED  BY <1>0, <1>2, <1>4, <2>2 DEF TypeOK, CallType
<1>6. Others(c)  BY <1>2, <1>3 DEF Others
<1>7. ASSUME d \notin astray'  PROVE Own(c, d)
  <2>1. d \notin live /\ d \in linked  BY <1>1, <1>2, <1>7, OwnNow
  <2>2. QED  BY <1>2, <1>4, <2>1 DEF Own
<1>8. QED  BY <1>1, <1>2, <1>4, <1>5, <1>6, <1>7, OwnNow, StepKeeps

\* Only a connect whose database exists and is listed answers.
LEMMA SetupStep ==
  ASSUME IInv, NEW c \in Caller, Setup(c)
  PROVE  IInv'
<1> DEFINE d == call[c].db
<1>0. TypeOK /\ Callers  BY DEF IInv
<1>1. call[c].pc = "setup" /\ call[c].op = "connect"  BY OpOfPc DEF Setup, At
<1>2. UNCHANGED <<actual, record, linked, cleaner, up, restarts, astray>>  BY DEF Setup
<1>3. \/ Goto(c, "drop") /\ live' = live
      \/ Exists(d) /\ Goto(c, "told") /\ live' = live \cup {d}
  BY DEF Setup
<1>4. /\ Moves(c) /\ call' \in [Caller -> CallType] /\ call'[c].op = "connect"
      /\ \/ call'[c].pc = "drop" /\ live' = live
         \/ call'[c].pc = "told" /\ live' = live \cup {d} /\ Exists(d)
  BY <1>0, <1>1, <1>3, GotoMoves DEF Legal, DeletePcs
<1>5. TypeOK'  BY <1>0, <1>1, <1>2, <1>3, <1>4, OwnNow DEF TypeOK, CallType
<1>6. Others(c)  BY <1>2, <1>3 DEF Others
<1>7. ASSUME d \notin astray'  PROVE Own(c, d)
  <2>1. d \notin live /\ d \in linked  BY <1>1, <1>2, <1>7, OwnNow
  <2>2. QED  BY <1>2, <1>4, <2>1 DEF Own, Exists
<1>8. QED  BY <1>1, <1>2, <1>4, <1>5, <1>6, <1>7, OwnNow, StepKeeps

\* DROP DATABASE takes no database that is connected.
LEMMA DropStep ==
  ASSUME IInv, NEW c \in Caller, Drop(c)
  PROVE  IInv'
<1> DEFINE d == call[c].db
<1>0. TypeOK /\ Callers  BY DEF IInv
<1>1. call[c].pc = "drop" /\ call[c].op \in {"connect", "disconnect"}
  BY OpOfPc DEF Drop, At, DeletePcs
<1>2. UNCHANGED <<record, linked, cleaner, up, restarts, live, astray>>  BY DEF Drop
<1>3. /\ Done(c) \/ Goto(c, "delLoad")
      /\ actual' = actual \/ actual' = actual \ {<<"", d>>}
  BY DEF Drop
<1>4. /\ Moves(c) /\ call' \in [Caller -> CallType]
      /\ call'[c].pc \in {"free", "delLoad"}
  <2>1. Legal(call[c].op, "delLoad")  BY <1>1 DEF Legal, DeletePcs
  <2>2. CASE Done(c)  BY <1>0, <2>2, DoneMoves DEF Free
  <2>3. CASE Goto(c, "delLoad")  BY <1>0, <2>1, <2>3, GotoMoves
  <2>4. QED  BY <1>3, <2>2, <2>3
<1>5. TypeOK'  BY <1>0, <1>1, <1>2, <1>3, <1>4 DEF TypeOK, CallType
<1>6. Others(c)  BY <1>2, <1>3 DEF Others
<1>7. c \in Slot  BY <1>1, OwnNow
<1>8. ASSUME d \notin astray'  PROVE Own(c, d)
  BY <1>1, <1>2, <1>4, <1>7, <1>8, OwnNow DEF Own
<1>9. QED  BY <1>1, <1>2, <1>4, <1>5, <1>6, <1>8, OwnNow, StepKeeps

\* userRepo.save, of a disconnect or of a connect that failed.
LEMMA DelUnlinkStep ==
  ASSUME IInv, NEW c \in Caller, DelUnlink(c)
  PROVE  IInv'
<1> DEFINE d == call[c].db
           dbs == call[c].seen \ {d}
<1>0. TypeOK /\ Callers  BY DEF IInv
<1>1. call[c].pc = "delUnlink" /\ call[c].op \in {"connect", "disconnect"}
  BY OpOfPc DEF DelUnlink, At, DeletePcs
<1>2. UNCHANGED <<actual, record, cleaner, up, restarts, live>>  BY DEF DelUnlink
<1>3. \/ dbs \subseteq record /\ SaveUser(c, dbs) /\ Goto(c, "delRemove")
      \/ Done(c) /\ UNCHANGED <<linked, astray>>
  BY <1>1 DEF DelUnlink, Throw
<1>4. Moves(c) /\ call' \in [Caller -> CallType] /\ call'[c].pc \in {"free", "delRemove"}
  BY <1>0, <1>1, <1>3, GotoMoves, DoneMoves DEF Legal, DeletePcs, Free
<1>5. linked' \subseteq record /\ astray' \subseteq Db
  BY <1>0, <1>3 DEF SaveUser, TypeOK
<1>6. TypeOK'  BY <1>0, <1>2, <1>4, <1>5 DEF TypeOK, CallType
<1>7. Others(c)  BY <1>2, <1>3, SaveUserOthers DEF Others
<1>8. ASSUME d \notin astray'  PROVE Own(c, d)
  <2>1. d \notin astray  BY <1>7, <1>8 DEF Others
  <2>2. d \notin live  BY <1>1, <2>1, OwnNow
  <2>3. QED  BY <1>2, <1>4, <2>2 DEF Own
<1>9. QED  BY <1>1, <1>2, <1>4, <1>6, <1>7, <1>8, OwnNow, StepKeeps

\* delDb removes the row of a database that is not connected.
LEMMA DelRemoveStep ==
  ASSUME IInv, NEW c \in Caller, DelRemove(c)
  PROVE  IInv'
<1> DEFINE d == call[c].db
<1>0. TypeOK /\ Callers  BY DEF IInv
<1>1. call[c].pc = "delRemove" /\ call[c].op \in {"connect", "disconnect"}
  BY OpOfPc DEF DelRemove, At, DeletePcs
<1>2. /\ UNCHANGED <<actual, cleaner, up, restarts, live, astray>>
      /\ Done(c)
      /\ \/ record' = record \ {d} /\ linked' = linked \ {d}
         \/ UNCHANGED <<record, linked>>
  BY DEF DelRemove
<1>3. Moves(c) /\ call' \in [Caller -> CallType] /\ call'[c].pc = "free"
  BY <1>0, <1>2, DoneMoves DEF Free
<1>4. TypeOK'  BY <1>0, <1>2, <1>3 DEF TypeOK, CallType
<1>5. Others(c)  BY <1>2 DEF Others
<1>6. ASSUME d \notin astray'  PROVE Own(c, d)
  BY <1>1, <1>2, <1>3, <1>6, OwnNow DEF Own
<1>7. QED  BY <1>1, <1>2, <1>3, <1>4, <1>5, <1>6, OwnNow, StepKeeps

\* The upgrade has NEW<db> under its name before it drops OLD<db>.
LEMMA UpgradeStep ==
  ASSUME IInv, NEW c \in Caller, Rename(c) \/ DropOld(c)
  PROVE  IInv'
<1> DEFINE d == call[c].db
<1>0. TypeOK /\ Callers  BY DEF IInv
<1>1. call[c].pc \in {"rename", "dropOld"} /\ call[c].op = "upgrade"
  BY OpOfPc DEF Rename, DropOld, At
<1>2. UNCHANGED <<record, linked, cleaner, up, restarts, live, astray>>
  BY DEF Rename, DropOld
<1>3. \/ Goto(c, "stuck") /\ actual' = actual
      \/ Goto(c, "dropOld") /\ actual' = (actual \ {<<"NEW", d>>}) \cup {<<"", d>>}
      \/ call[c].pc = "dropOld" /\ Goto(c, "load") /\ actual' = actual \ {<<"OLD", d>>}
  BY <1>1 DEF Rename, DropOld, At, Throw
<1>4. d \in Db /\ c \in Db /\ c \notin Slot
  BY <1>1, OwnNow, LifecycleAssumption DEF LifecycleAssumption
<1>5. /\ Moves(c) /\ call' \in [Caller -> CallType] /\ call'[c].op = "upgrade"
      /\ \/ call'[c].pc = "stuck" /\ actual' = actual
         \/ call'[c].pc = "dropOld" /\ actual' = (actual \ {<<"NEW", d>>}) \cup {<<"", d>>}
         \/ call[c].pc = "dropOld" /\ call'[c].pc = "load" /\ actual' = actual \ {<<"OLD", d>>}
  BY <1>0, <1>1, <1>3, GotoMoves DEF Legal, SavePcs
<1>6. TypeOK'
  <2>1. actual' \subseteq {"", "NEW", "OLD"} \X Db
    <3>1. actual' \subseteq actual \cup {<<"", d>>}  BY <1>5
    <3>2. <<"", d>> \in {"", "NEW", "OLD"} \X Db  BY <1>4
    <3>3. QED  BY <1>0, <3>1, <3>2 DEF TypeOK
  <2>2. QED  BY <1>0, <1>2, <1>5, <2>1 DEF TypeOK, CallType
<1>7. Others(c)  BY <1>2, <1>5 DEF Others
<1>8. ASSUME d \notin astray'  PROVE Own(c, d)
  <2>1. d \in live => \E p \in {"", "OLD"} : <<p, d>> \in actual  BY <1>1, <1>2, <1>8, OwnNow
  <2>2. call[c].pc = "dropOld" => <<"", d>> \in actual  BY <1>2, <1>8, OwnNow DEF Exists
  <2>3. call'[c].pc = "dropOld" => <<"", d>> \in actual'  BY <1>5
  <2>4. d \in live' => \E p \in {"", "OLD"} : <<p, d>> \in actual'
    BY <1>2, <1>5, <2>1, <2>2
  <2>5. call'[c].pc # "told"  BY <1>5
  <2>6. QED  BY <1>4, <1>5, <2>3, <2>4, <2>5 DEF Own
<1>9. QED  BY <1>1, <1>2, <1>5, <1>6, <1>7, <1>8, OwnNow, StepKeeps

\* Every step of a caller keeps the invariant.
LEMMA CallStepKeeps ==
  ASSUME IInv, NEW c \in Caller, CallStep(c)
  PROVE  IInv'
  BY LocalStep, SaveStep, LinkStep, CreateStep, SetupStep, DropStep, DelUnlinkStep,
     DelRemoveStep, UpgradeStep
  DEF CallStep

-----------------------------------------------------------------------------
(* The other steps: requests arrive, workers die, the container restarts.  *)

\* A step of the container that moves no caller, and loses no database that a
\* caller or its user still counts on.
LEMMA Elsewhere ==
  ASSUME IInv, UNCHANGED <<call, live>>, astray \subseteq astray',
         TypeOK', Quiet', Cleaning',
         \A d \in Db \ astray' :
           /\ d \in live => /\ \E p \in {"", "OLD"} : <<p, d>> \in actual'
                            /\ d \in linked' \/ call[d].op = "upgrade"
           /\ \A h \in Slot : call[h].db = d /\ d \in linked => d \in linked'
           /\ \A c \in Caller : call[c].pc \in {"told", "dropOld"} /\ Exists(d) => Exists(d)'
  PROVE  IInv'
<1>1. Callers' /\ Sole'
  BY DEF IInv, Callers, Sole, Upgrading, Connecting, Disconnecting
<1>2. Tracked' /\ LiveKept'  BY DEF Tracked, LiveKept, TypeOK
<1>3. ASSUME NEW c \in Caller, call[c].pc # "free"  PROVE call[c].db \in Db
  BY <1>3, OwnNow
<1>4. NotLive'  BY DEF IInv, NotLive
<1>5. Listed'
  <2> SUFFICES ASSUME NEW h \in Slot, call[h].pc \in {"create", "setup", "told"},
                      call[h].db \notin astray'
               PROVE  call[h].db \in linked'
    BY DEF Listed
  <2>1. call[h].db \in Db  BY <1>3 DEF Caller
  <2>2. call[h].db \in linked  BY DEF IInv, Listed
  <2>3. QED  BY <2>1, <2>2
<1>6. There'
  <2> SUFFICES ASSUME NEW c \in Caller, call[c].pc \in {"told", "dropOld"},
                      call[c].db \notin astray'
               PROVE  Exists(call[c].db)'
    BY DEF There, Exists
  <2>1. call[c].db \in Db  BY <1>3
  <2>2. Exists(call[c].db)  BY DEF IInv, There
  <2>3. QED  BY <2>1, <2>2
<1>7. QED  BY <1>1, <1>2, <1>4, <1>5, <1>6 DEF IInv

\* The invariant holds of an empty server.
LEMMA InitInv ==
  ASSUME Init  PROVE IInv
<1>1. \A c \in Caller : call[c] = Free  BY DEF Init
<1>2. TypeOK
  <2>1. Free \in CallType  BY DEF Free, CallType, Pcs
  <2>2. call \in [Caller -> CallType]  BY <2>1 DEF Init
  <2>3. 0 \in 0 .. MaxRestarts  BY LifecycleAssumption DEF LifecycleAssumption
  <2>4. QED  BY <2>2, <2>3 DEF Init, TypeOK, CallType, Resting
<1>3. Callers  BY <1>1 DEF Callers, Caller
<1>4. Sole  BY <1>1, LifecycleAssumption DEF Sole, Free, LifecycleAssumption
<1>5. Quiet /\ NotLive /\ Listed /\ There  BY <1>1 DEF Quiet, NotLive, Listed, There, Free, Caller
<1>6. Tracked /\ LiveKept /\ Cleaning  BY DEF Init, Tracked, LiveKept, Cleaning
<1>7. QED  BY <1>2, <1>3, <1>4, <1>5, <1>6 DEF IInv

\* A request for a database somebody handles sends it astray.
LEMMA PostStep ==
  ASSUME IInv, NEW h \in Slot, NEW d \in Db, NEW op \in {"connect", "disconnect"},
         Post(h, op, d)
  PROVE  IInv'
<1> DEFINE pc == IF op = "connect" THEN "load" ELSE "find"
           new == [op |-> op, db |-> d, pc |-> pc, seen |-> {}]
<1>0. TypeOK /\ Callers /\ Sole  BY DEF IInv
<1>1. /\ up.pc = "serving" /\ call' = [call EXCEPT ![h] = new]
      /\ UNCHANGED <<actual, record, linked, cleaner, up, restarts>>
  BY DEF Post
<1>2. /\ live' \subseteq live /\ astray \subseteq astray'
      /\ op = "disconnect" => d \notin live'
      /\ Handled(d) => d \in astray'
      /\ astray' \subseteq Db
  BY <1>0 DEF Post, TypeOK
<1>3. call \in [Caller -> CallType] /\ h \in Caller /\ h \notin Db
  BY <1>0, LifecycleAssumption DEF TypeOK, CallType, Caller, LifecycleAssumption
<1>4. call'[h] = new /\ \A c \in Caller : c # h => call'[c] = call[c]  BY <1>1, <1>3
<1>5. TypeOK'
  <2>1. new \in CallType  BY DEF CallType, Pcs
  <2>2. call' \in [Caller -> CallType]  BY <1>1, <1>3, <2>1
  <2>3. QED  BY <1>0, <1>1, <1>2, <2>2 DEF TypeOK, CallType
<1>6. Callers'
  <2>1. Connecting(h)' \/ Disconnecting(h)'
    BY <1>4 DEF Connecting, Disconnecting, SavePcs
  <2>2. \A e \in Db : (call[e] = Free \/ Upgrading(e))'
    BY <1>0, <1>3, <1>4 DEF Callers, Caller, Upgrading
  <2>3. \A g \in Slot : g # h => (call[g] = Free \/ Connecting(g) \/ Disconnecting(g))'
    BY <1>0, <1>4 DEF Callers, Caller, Connecting, Disconnecting
  <2>4. QED  BY <2>1, <2>2, <2>3 DEF Callers
<1>7. Sole'
  <2> SUFFICES ASSUME NEW b \in Caller, NEW c \in Caller, b # c,
                      call'[b].db = call'[c].db, call'[c].db \in Db
               PROVE  call'[c].db \in astray'
    BY DEF Sole
  <2>1. CASE b # h /\ c # h  BY <1>0, <1>2, <1>4, <2>1 DEF Sole
  <2>2. CASE b = h  BY <1>2, <1>4, <2>2 DEF Handled
  <2>3. CASE c = h  BY <1>2, <1>4, <2>3 DEF Handled
  <2>4. QED  BY <2>1, <2>2, <2>3
<1>8. Quiet' /\ Cleaning'  BY <1>1 DEF Quiet, Cleaning
<1>9. Tracked' /\ LiveKept'
  <2>1. \A e \in Db : call'[e] = call[e]  BY <1>3, <1>4 DEF Caller
  <2>2. QED  BY <1>0, <1>1, <1>2, <2>1 DEF IInv, TypeOK, Tracked, LiveKept
<1>10. NotLive' /\ Listed'
  <2>1. ASSUME NEW g \in Slot
        PROVE  /\ call'[g].pc \notin {"free", "load", "told"} => call'[g].db \notin live' \ astray'
               /\ call'[g].pc \in {"create", "setup", "told"} => call'[g].db \in linked' \cup astray'
    <3>1. CASE g = h  BY <1>2, <1>4, <3>1
    <3>2. CASE g # h
      <4>1. call'[g] = call[g]  BY <1>4, <3>2 DEF Caller
      <4>2. QED  BY <1>1, <1>2, <4>1 DEF IInv, NotLive, Listed
    <3>3. QED  BY <3>1, <3>2
  <2>2. QED  BY <2>1 DEF NotLive, Listed
<1>11. There'
  <2>1. \A c \in Caller : c # h => call'[c] = call[c]  BY <1>4
  <2>2. call'[h].pc \notin {"told", "dropOld"}  BY <1>4
  <2>3. There  BY DEF IInv
  <2>4. ASSUME NEW c \in Caller, call'[c].pc \in {"told", "dropOld"}
        PROVE  <<"", call'[c].db>> \in actual' \/ call'[c].db \in astray'
    <3>1. c # h /\ call'[c] = call[c]  BY <2>1, <2>2, <2>4
    <3>2. Exists(call[c].db) \/ call[c].db \in astray  BY <2>3, <2>4, <3>1 DEF There
    <3>3. call'[c].db = call[c].db /\ actual' = actual  BY <1>1, <3>1
    <3>4. QED  BY <1>2, <3>2, <3>3 DEF Exists
  <2>5. QED  BY <2>4 DEF There, Exists
<1>12. QED  BY <1>5, <1>6, <1>7, <1>8, <1>9, <1>10, <1>11 DEF IInv

\* A worker that dies takes no database with it.
LEMMA WorkerDiesStep ==
  ASSUME IInv, NEW h \in Slot, WorkerDies(h)
  PROVE  IInv'
<1> DEFINE d == call[h].db
<1>0. TypeOK /\ Callers /\ h \in Caller  BY DEF IInv, Caller
<1>1. /\ call[h].pc # "free" /\ Done(h)
      /\ UNCHANGED <<actual, record, linked, up, restarts, live, astray>>
  BY DEF WorkerDies, At
<1>2. Connecting(h) \/ Disconnecting(h)  BY <1>0, <1>1 DEF Callers, Free
<1>3. up.pc = "serving" /\ call[h].op # "upgrade"
  BY <1>0, <1>1, <1>2, OwnNow DEF Connecting, Disconnecting, SavePcs, DeletePcs
<1>4. Moves(h) /\ call' \in [Caller -> CallType] /\ call'[h] = Free
  BY <1>0, <1>1, DoneMoves
<1>5. TypeOK'
  <2>1. cleaner' \in [pc : {"done", "expected", "actual", "remove"}, dbs : SUBSET Db]
    BY <1>0 DEF WorkerDies, TypeOK
  <2>2. QED  BY <1>0, <1>1, <1>4, <2>1 DEF TypeOK, CallType
<1>6. Others(h)  BY <1>1 DEF Others
<1>7. ASSUME d \notin astray'  PROVE Own(h, d)
  <2>1. d \in live => d \in linked /\ \E p \in {"", "OLD"} : <<p, d>> \in actual
    BY <1>0, <1>1, <1>3, <1>7, OwnNow
  <2>2. call'[h].pc = "free"  BY <1>4 DEF Free
  <2>3. QED  BY <1>1, <2>1, <2>2 DEF Own
<1>8. QED  BY <1>0, <1>1, <1>3, <1>4, <1>5, <1>6, <1>7, StepKeeps

\* upgrade.sh leaves every database under its name or as OLD<db>.
LEMMA ShellStep ==
  ASSUME IInv, Shell
  PROVE  IInv'
<1> DEFINE renamed == {d \in record : Exists(d) /\ <<"OLD", d>> \notin actual}
<1>0. TypeOK /\ Quiet /\ Tracked /\ LiveKept  BY DEF IInv
<1>1. /\ up.pc = "shell" /\ up'.pc = "part2" /\ up'.dbs \subseteq record
      /\ up' \in [pc : {"part2"}, dbs : SUBSET record]
      /\ actual' = (actual \ {<<"", d>> : d \in renamed}) \cup {<<"OLD", d>> : d \in renamed}
      /\ UNCHANGED <<record, linked, call, cleaner, restarts, live, astray>>
  BY DEF Shell
<1>2. TypeOK'
  <2>1. renamed \subseteq Db  BY <1>0 DEF TypeOK
  <2>2. \A d \in Db : <<"OLD", d>> \in {"", "NEW", "OLD"} \X Db  BY InServer
  <2>3. actual' \subseteq {"", "NEW", "OLD"} \X Db
    <3>1. \A x \in actual' : x \in actual \/ \E d \in renamed : x = <<"OLD", d>>  BY <1>1
    <3>2. actual \subseteq {"", "NEW", "OLD"} \X Db  BY <1>0 DEF TypeOK
    <3>3. QED  BY <2>1, <2>2, <3>1, <3>2
  <2>4. up' \in [pc : {"shell", "part2", "starting", "serving", "failed"}, dbs : SUBSET Db]
    BY <1>0, <1>1 DEF TypeOK
  <2>5. QED  BY <1>0, <1>1, <2>3, <2>4 DEF TypeOK
<1>3. Quiet' /\ Cleaning'  BY <1>0, <1>1 DEF Quiet, Cleaning
<1>4. ASSUME NEW d \in Db, d \in live, d \notin astray
      PROVE  \E p \in {"", "OLD"} : <<p, d>> \in actual'
  <2>1. CASE <<"OLD", d>> \in actual
    <3>1. \A e \in Db : <<"OLD", d>> # <<"", e>>  OBVIOUS
    <3>2. QED  BY <1>0, <1>1, <2>1, <3>1 DEF TypeOK
  <2>2. CASE <<"OLD", d>> \notin actual
    <3>1. <<"", d>> \in actual  BY <1>0, <1>4, <2>2 DEF LiveKept
    <3>2. CASE d \in renamed  BY <1>1, <3>2
    <3>3. CASE d \notin renamed
      <4>1. \A e \in renamed : <<"", d>> # <<"", e>>  BY <3>3
      <4>2. QED  BY <1>1, <3>1, <4>1
    <3>4. QED  BY <3>2, <3>3
  <2>3. QED  BY <2>1, <2>2
<1>5. \A c \in Caller : call[c].pc \notin {"told", "dropOld"}  BY <1>0, <1>1 DEF Quiet
<1>6. \A d \in live \ astray : d \in linked \/ call[d].op = "upgrade"  BY <1>0 DEF Tracked
<1>7. QED  BY <1>1, <1>2, <1>3, <1>4, <1>5, <1>6, Elsewhere

\* NEW<db> is made beside OLD<db>, before any request is served.
LEMMA Part2Step ==
  ASSUME IInv, NEW d \in Db, Part2(d)
  PROVE  IInv'
<1> DEFINE new == [op |-> "upgrade", db |-> d, pc |-> "install", seen |-> {}]
<1>0. TypeOK /\ Callers /\ Sole /\ Quiet /\ Tracked /\ LiveKept  BY DEF IInv
<1>1. /\ up.pc = "part2"
      /\ \/ up' = [up EXCEPT !.dbs = @ \ {d}]
         \/ up' = [pc |-> "failed", dbs |-> {}]
      /\ UNCHANGED <<record, linked, cleaner, restarts, live, astray>>
      /\ \/ UNCHANGED call
         \/ call' = [call EXCEPT ![d] = new]
      /\ \/ actual' = actual
         \/ actual' = actual \ {<<"NEW", d>>}
         \/ actual' = actual \cup {<<"NEW", d>>}
  BY DEF Part2
<1>2. up' \in [pc : {"part2", "failed"}, dbs : SUBSET Db]
  <2>1. up = [pc |-> "part2", dbs |-> up.dbs] /\ up.dbs \in SUBSET Db
    BY <1>0, <1>1 DEF TypeOK
  <2>2. CASE up' = [up EXCEPT !.dbs = @ \ {d}]
    <3>1. up' = [pc |-> "part2", dbs |-> up.dbs \ {d}]  BY <2>1, <2>2
    <3>2. QED  BY <2>1, <3>1
  <2>3. CASE up' = [pc |-> "failed", dbs |-> {}]  BY <2>3
  <2>4. QED  BY <1>1, <2>2, <2>3
<1>3. \A e \in Db, p \in {"", "OLD"} : <<p, e>> \in actual' <=> <<p, e>> \in actual
  <2>1. \A e \in Db, p \in {"", "OLD"} : <<p, e>> # <<"NEW", d>>  OBVIOUS
  <2>2. QED  BY <1>1, <2>1
<1>4. \A c \in Caller : call[c].pc \in {"free", "install"}  BY <1>0, <1>1 DEF Quiet
<1>5. actual' \subseteq {"", "NEW", "OLD"} \X Db
  <2>1. <<"NEW", d>> \in {"", "NEW", "OLD"} \X Db  BY InServer
  <2>2. QED  BY <1>0, <1>1, <2>1 DEF TypeOK
<1>6. CASE UNCHANGED call
  <2>1. TypeOK'  BY <1>0, <1>1, <1>2, <1>5, <1>6 DEF TypeOK
  <2>2. Quiet' /\ Cleaning'  BY <1>1, <1>2, <1>4, <1>6 DEF Quiet, Cleaning
  <2>3. \A e \in live \ astray : e \in linked \/ call[e].op = "upgrade"  BY <1>0 DEF Tracked
  <2>4. ASSUME NEW e \in Db, e \in live \ astray
        PROVE  \E p \in {"", "OLD"} : <<p, e>> \in actual'
    <3>1. \E p \in {"", "OLD"} : <<p, e>> \in actual  BY <1>0, <2>4 DEF LiveKept
    <3>2. QED  BY <1>3, <3>1
  <2>5. QED  BY <1>1, <1>4, <1>6, <2>1, <2>2, <2>3, <2>4, Elsewhere
<1>7. CASE call' = [call EXCEPT ![d] = new]
  <2>1. call \in [Caller -> CallType] /\ d \in Caller /\ d \notin Slot
    BY <1>0, LifecycleAssumption DEF TypeOK, CallType, Caller, LifecycleAssumption
  <2>2. call'[d] = new /\ \A c \in Caller : c # d => call'[c] = call[c]  BY <1>7, <2>1
  <2>3. TypeOK'
    <3>1. new \in CallType  BY DEF CallType, Pcs
    <3>2. call' \in [Caller -> CallType]  BY <1>7, <2>1, <3>1
    <3>3. QED  BY <1>0, <1>1, <1>2, <1>5, <3>2 DEF TypeOK, CallType
  <2>4. Callers'
    <3>1. Upgrading(d)'  BY <2>2 DEF Upgrading
    <3>2. \A e \in Db : (call[e] = Free \/ Upgrading(e))'
      BY <1>0, <2>2, <3>1 DEF Callers, Caller, Upgrading
    <3>3. \A h \in Slot : (call[h] = Free \/ Connecting(h) \/ Disconnecting(h))'
      BY <1>0, <2>1, <2>2 DEF Callers, Caller, Connecting, Disconnecting
    <3>4. QED  BY <3>2, <3>3 DEF Callers
  <2>5. ASSUME NEW h \in Slot  PROVE call'[h] = Free
    <3>1. h \in Caller /\ call'[h] = call[h]  BY <2>1, <2>2 DEF Caller
    <3>2. call[h] = Free
      BY <1>0, <1>4, <3>1 DEF Callers, Connecting, Disconnecting, SavePcs, DeletePcs
    <3>3. QED  BY <3>1, <3>2
  <2>6. Sole'
    <3> SUFFICES ASSUME NEW b \in Caller, NEW c \in Caller, b # c,
                        call'[b].db = call'[c].db, call'[c].db \in Db
                 PROVE  FALSE
      BY DEF Sole
    <3>1. ASSUME NEW e \in Caller, call'[e].db \in Db  PROVE call'[e].db = e
      <4>1. e \in Db  BY <2>5, <3>1, LifecycleAssumption DEF Caller, Free, LifecycleAssumption
      <4>2. call'[e] = Free \/ Upgrading(e)'  BY <2>4, <4>1 DEF Callers
      <4>3. QED  BY <3>1, <4>2, LifecycleAssumption DEF Free, Upgrading, LifecycleAssumption
    <3>2. QED  BY <3>1
  <2>7. \A c \in Caller : call'[c].pc \in {"free", "install"}  BY <1>4, <2>2
  <2>8. Quiet' /\ Cleaning' /\ NotLive' /\ Listed' /\ There'
    <3>1. Quiet' /\ Cleaning' /\ There'  BY <1>2, <2>7 DEF Quiet, Cleaning, There
    <3>2. \A h \in Slot : call'[h].pc = "free"  BY <2>5 DEF Free
    <3>3. QED  BY <3>1, <3>2 DEF NotLive, Listed
  <2>9. Tracked'
    <3> SUFFICES ASSUME NEW e \in live \ astray  PROVE e \in linked \/ call'[e].op = "upgrade"
      BY <1>1 DEF Tracked
    <3>1. e \in Caller  BY <1>0 DEF TypeOK, Caller
    <3>2. QED  BY <1>0, <2>2, <3>1 DEF Tracked
  <2>10. LiveKept'
    <3> SUFFICES ASSUME NEW e \in live \ astray  PROVE \E p \in {"", "OLD"} : <<p, e>> \in actual'
      BY <1>1 DEF LiveKept
    <3>1. e \in Db  BY <1>0 DEF TypeOK
    <3>2. \E p \in {"", "OLD"} : <<p, e>> \in actual  BY <1>0 DEF LiveKept
    <3>3. QED  BY <1>3, <3>1, <3>2
  <2>11. QED  BY <2>3, <2>4, <2>6, <2>8, <2>9, <2>10 DEF IInv
<1>8. QED  BY <1>1, <1>6, <1>7

\* The worker's cleaning spares what an upgrade restores, and what it takes
\* from a caller or a user is astray.
LEMMA CleanRemoveStep ==
  ASSUME IInv, CleanRemove
  PROVE  IInv'
<1>0. TypeOK /\ Callers /\ Sole /\ Quiet /\ Tracked /\ LiveKept /\ Cleaning  BY DEF IInv
<1>1. PICK d \in cleaner.dbs :
        /\ cleaner.pc = "remove" /\ cleaner' = [cleaner EXCEPT !.dbs = @ \ {d}]
        /\ record' = record \ {d} /\ linked' = linked \ {d}
        /\ astray' = IF call[d].op # "upgrade" /\ (Kept(d) \/ Handled(d))
                     THEN astray \cup {d} ELSE astray
        /\ UNCHANGED <<actual, call, up, restarts, live>>
  BY DEF CleanRemove
<1>2. d \in Db  BY <1>0 DEF TypeOK
<1>3. TypeOK'  BY <1>0, <1>1, <1>2 DEF TypeOK
<1>4. Quiet'  BY <1>0, <1>1 DEF Quiet
<1>5. Cleaning'
  <2>1. cleaner'.pc = "remove" /\ cleaner'.dbs = cleaner.dbs \ {d}  BY <1>0, <1>1 DEF TypeOK
  <2>2. QED  BY <1>0, <1>1, <2>1 DEF Cleaning, Exists
<1>6. ASSUME NEW e \in Db \ astray', e \in live
      PROVE  /\ \E p \in {"", "OLD"} : <<p, e>> \in actual'
             /\ e \in linked' \/ call[e].op = "upgrade"
  <2>1. e \in live \ astray  BY <1>1, <1>6
  <2>2. \E p \in {"", "OLD"} : <<p, e>> \in actual  BY <1>0, <2>1 DEF LiveKept
  <2>3. e \in linked \/ call[e].op = "upgrade"  BY <1>0, <2>1 DEF Tracked
  <2>4. CASE e = d
    <3>1. Kept(d)  BY <2>2, <2>4 DEF Kept
    <3>2. call[d].op = "upgrade"  BY <1>1, <1>6, <2>4, <3>1
    <3>3. QED  BY <1>1, <2>2, <2>4, <3>2
  <2>5. QED  BY <1>1, <2>2, <2>3, <2>4
<1>7. ASSUME NEW e \in Db \ astray', NEW h \in Slot, call[h].db = e, e \in linked
      PROVE  e \in linked'
  <2>1. e # d
    <3> SUFFICES ASSUME e = d  PROVE FALSE
      OBVIOUS
    <3>1. Handled(d)  BY <1>7 DEF Handled, Caller
    <3>2. call[d].op = "upgrade"  BY <1>1, <1>7, <3>1
    <3>3. call[d].db = d  BY <1>0, <1>2, <3>2 DEF Callers, Upgrading, Free
    <3>4. h \in Caller /\ d \in Caller /\ h # d
      BY <1>2, LifecycleAssumption DEF Caller, LifecycleAssumption
    <3>5. d \in astray  BY <1>0, <1>2, <1>7, <3>3, <3>4 DEF Sole
    <3>6. QED  BY <1>1, <1>7, <3>5
  <2>2. QED  BY <1>1, <1>7, <2>1
<1>8. astray \subseteq astray' /\ \A e \in Db : Exists(e) => Exists(e)'  BY <1>1 DEF Exists
<1>9. QED  BY <1>1, <1>3, <1>4, <1>5, <1>6, <1>7, <1>8, Elsewhere

\* Forking the workers, and the other steps of a worker's cleaning.
LEMMA StartStep ==
  ASSUME IInv, Fork \/ CleanExpected \/ CleanActual \/ CleanDone
  PROVE  IInv'
<1>0. TypeOK /\ Quiet /\ Tracked /\ LiveKept /\ Cleaning  BY DEF IInv
<1>1. UNCHANGED <<actual, record, linked, call, restarts, live, astray>>
  BY DEF Fork, CleanExpected, CleanActual, CleanDone
<1>2. TypeOK' /\ Quiet' /\ Cleaning'
  <2>1. CASE Fork
    <3>1. /\ up.pc = "part2" /\ up' = [pc |-> "starting", dbs |-> {}]
          /\ cleaner' = [pc |-> "expected", dbs |-> {}]
      BY <2>1 DEF Fork
    <3>2. QED  BY <1>0, <1>1, <3>1 DEF TypeOK, Quiet, Cleaning
  <2>2. CASE CleanExpected
    <3>1. cleaner' = [pc |-> "actual", dbs |-> record] /\ up' = up  BY <2>2 DEF CleanExpected
    <3>2. QED  BY <1>0, <1>1, <3>1 DEF TypeOK, Quiet, Cleaning
  <2>3. CASE CleanActual
    <3>1. /\ cleaner.pc = "actual" /\ up' = up
          /\ cleaner' = [pc |-> "remove", dbs |-> {d \in cleaner.dbs : ~Exists(d)}]
      BY <2>3 DEF CleanActual
    <3>2. QED  BY <1>0, <1>1, <3>1 DEF TypeOK, Quiet, Cleaning, Exists
  <2>4. CASE CleanDone
    <3>1. cleaner' = Resting /\ up' = [up EXCEPT !.pc = "serving"]  BY <2>4 DEF CleanDone
    <3>2. up'.pc = "serving"  BY <1>0, <3>1 DEF TypeOK
    <3>3. QED  BY <1>0, <1>1, <3>1, <3>2 DEF TypeOK, Quiet, Cleaning, Resting
  <2>5. QED  BY <2>1, <2>2, <2>3, <2>4
<1>3. \A d \in live \ astray :
        /\ \E p \in {"", "OLD"} : <<p, d>> \in actual
        /\ d \in linked \/ call[d].op = "upgrade"
  BY <1>0 DEF Tracked, LiveKept
<1>4. QED  BY <1>1, <1>2, <1>3, Elsewhere DEF Exists

\* A restart loses track only of what the user's list does not have.
LEMMA RestartStep ==
  ASSUME IInv, Restart
  PROVE  IInv'
<1>0. TypeOK /\ LiveKept  BY DEF IInv
<1>1. /\ up' = [pc |-> "shell", dbs |-> {}] /\ call' = [c \in Caller |-> Free]
      /\ cleaner' = Resting /\ live \ linked \subseteq astray'
      /\ astray \subseteq astray' /\ astray' \subseteq Db
      /\ UNCHANGED <<actual, record, linked, live>>
  BY <1>0 DEF Restart, TypeOK
<1>2. TypeOK'
  <2>1. restarts' \in 0 .. MaxRestarts
    <3>1. restarts \in 0 .. MaxRestarts /\ MaxRestarts \in Nat
      BY <1>0, LifecycleAssumption DEF TypeOK, LifecycleAssumption
    <3>2. restarts < MaxRestarts /\ restarts' = restarts + 1  BY DEF Restart
    <3>3. QED  BY <3>1, <3>2
  <2>2. Free \in CallType  BY DEF Free, CallType, Pcs
  <2>3. call' \in [Caller -> CallType]  BY <1>1, <2>2
  <2>4. QED  BY <1>0, <1>1, <2>1, <2>3 DEF TypeOK, CallType, Resting
<1>3. \A c \in Caller : call'[c] = Free  BY <1>1
<1>4. Callers' /\ Sole'
  BY <1>3, LifecycleAssumption DEF Callers, Sole, Caller, Free, LifecycleAssumption
<1>5. Quiet' /\ NotLive' /\ Listed' /\ There'
  BY <1>3 DEF Quiet, NotLive, Listed, There, Free, Caller
<1>6. Tracked' /\ LiveKept' /\ Cleaning'  BY <1>0, <1>1 DEF Tracked, LiveKept, Cleaning
<1>7. QED  BY <1>2, <1>4, <1>5, <1>6 DEF IInv

-----------------------------------------------------------------------------
(* What an upgrade restores.  All of it is about databases the metadata    *)
(* did not lose track of, which no two callers handled at once.            *)

Old(d) == <<"OLD", d>> \in actual

\* A database is in its user's list, or the timer of its upgrade puts it there.
Recorded ==
  \A d \in Db \ astray : Exists(d) \/ Old(d) => d \in linked \/ call[d].op = "upgrade"

\* OLD<db> has a timer to bring it back, or the container has still to make one.
Claimed ==
  \A d \in Db \ astray : Old(d) =>
    \/ call[d].op = "upgrade"
    \/ up.pc \in {"shell", "failed"}
    \/ up.pc = "part2" /\ d \in up.dbs

\* Where the timer is tells what there is: the database, under one of its names;
\* it finds the name free, leaves no OLD<db>, is stopped only by a command that
\* fails, and once requests are served the list is without the database.
Phases ==
  \A d \in Db \ astray : call[d].op = "upgrade" =>
    /\ call[d].pc \in {"install", "rename"} => ~Exists(d)
    /\ call[d].pc \in SavePcs => Exists(d) /\ ~Old(d)
    /\ Exists(d) \/ Old(d)
    /\ call[d].pc = "stuck" => MayFail
    /\ up.pc = "serving" => d \notin linked

\* Both names exist only between the two statements of the timer, or once the
\* second has failed.
OneName == \A d \in Db \ astray :
             Exists(d) /\ Old(d) => call[d].pc \in {"dropOld", "stuck"}

\* A connect that has not created its database, or a deletion that has dropped
\* it, is about a database that is not there.
VacantPcs == {"save", "link", "create", "delLoad", "delUnlink", "delRemove"}

Vacant == \A h \in Slot :
            call[h].pc \in VacantPcs => call[h].db \in astray \/ ~Exists(call[h].db)

\* upgrade.sh runs before any caller, and the workers clean after it.
Starting ==
  /\ up.pc = "shell" => \A c \in Caller : call[c].pc = "free"
  /\ cleaner.pc # "done" => up.pc \in {"starting", "serving"}

UInv == Recorded /\ Claimed /\ Phases /\ OneName /\ Vacant /\ Starting

\* A step of a caller is a step of that caller only, which goes on or is done.
LEMMA Proceeds ==
  ASSUME IInv, NEW c \in Caller, CallStep(c)
  PROVE  /\ \A b \in Caller : b # c => call'[b] = call[b]
         /\ call'[c] = Free \/ (call'[c].op = call[c].op /\ call'[c].db = call[c].db)
         /\ call[c].pc # "free" /\ up.pc = "serving"
         /\ UNCHANGED <<cleaner, up, restarts>>
<1>1. call \in [Caller -> CallType]  BY DEF IInv, TypeOK, CallType
<1>2. \/ Done(c)
      \/ \E pc \in Pcs : Goto(c, pc)
      \/ \E pc \in Pcs : call' = [call EXCEPT ![c].seen = linked, ![c].pc = pc]
  BY DEF CallStep, Load, Save, Link, Create, Setup, Told, Find, Drop, DelLoad, DelUnlink,
         DelRemove, Install, Rename, DropOld, Throw, Pcs
<1>3. ASSUME Done(c)
      PROVE  (\A b \in Caller : b # c => call'[b] = call[b]) /\ call'[c] = Free
  BY <1>1, <1>3 DEF Done
<1>4. ASSUME NEW pc \in Pcs, Goto(c, pc)
      PROVE  /\ \A b \in Caller : b # c => call'[b] = call[b]
             /\ call'[c].op = call[c].op /\ call'[c].db = call[c].db
  BY <1>1, <1>4 DEF Goto, CallType
<1>5. ASSUME NEW pc \in Pcs, call' = [call EXCEPT ![c].seen = linked, ![c].pc = pc]
      PROVE  /\ \A b \in Caller : b # c => call'[b] = call[b]
             /\ call'[c].op = call[c].op /\ call'[c].db = call[c].db
  BY <1>1, <1>5 DEF CallType
<1>6. call[c].pc # "free" /\ (call[c].pc # "install" \/ up.pc = "serving")
  BY DEF CallStep, Load, Save, Link, Create, Setup, Told, Find, Drop, DelLoad, DelUnlink,
         DelRemove, Install, Rename, DropOld, At
<1>7. up.pc = "serving"  BY <1>6, OwnNow
<1>8. UNCHANGED <<cleaner, up, restarts>>
  BY DEF CallStep, Load, Save, Link, Create, Setup, Told, Find, Drop, DelLoad, DelUnlink,
         DelRemove, Install, Rename, DropOld
<1>9. QED  BY <1>2, <1>3, <1>4, <1>5, <1>6, <1>7, <1>8

\* A step of a caller changes nothing about another database, unless that
\* goes astray.
LEMMA Apart ==
  ASSUME IInv, NEW c \in Caller, CallStep(c)
  PROVE  /\ astray \subseteq astray'
         /\ \A d \in Db \ astray' : d # call[c].db =>
              /\ d \in linked' <=> d \in linked
              /\ \A p \in {"", "OLD"} : <<p, d>> \in actual' <=> <<p, d>> \in actual
<1>1. CASE Link(c)  BY <1>1 DEF Link, SaveUser
<1>2. CASE DelUnlink(c)  BY <1>2 DEF DelUnlink, SaveUser
<1>3. CASE Create(c) \/ Drop(c) \/ DropOld(c)  BY <1>3 DEF Create, Drop, DropOld
<1>4. CASE Rename(c)
  <2> SUFFICES ASSUME NEW d \in Db \ astray', d # call[c].db, NEW p \in {"", "OLD"}
               PROVE  <<p, d>> \in actual' <=> <<p, d>> \in actual
    BY <1>4 DEF Rename
  <2>1. <<p, d>> # <<"NEW", call[c].db>> /\ <<p, d>> # <<"", call[c].db>>  OBVIOUS
  <2>2. QED  BY <1>4, <2>1 DEF Rename
<1>5. CASE DelRemove(c)  BY <1>5 DEF DelRemove
<1>6. CASE Load(c) \/ Save(c) \/ Setup(c) \/ Told(c) \/ Find(c) \/ DelLoad(c) \/ Install(c)
  BY <1>6 DEF Load, Save, Setup, Told, Find, DelLoad, Install
<1>7. QED  BY <1>1, <1>2, <1>3, <1>4, <1>5, <1>6 DEF CallStep

\* A request that is alone with its database: nobody upgrades it.
LEMMA SlotAlone ==
  ASSUME IInv, UInv, NEW c \in Slot, call[c].pc # "free", call[c].db \notin astray
  PROVE  /\ call[c].db \in Db /\ call[call[c].db] = Free /\ c # call[c].db
         /\ Exists(call[c].db) => call[c].db \in linked
         /\ ~Old(call[c].db)
         /\ call[c].pc \in VacantPcs => ~Exists(call[c].db)
<1> DEFINE d == call[c].db
<1>1. c \in Caller /\ d \in Db /\ d \in Caller /\ c # d
  BY OwnNow, LifecycleAssumption DEF Caller, LifecycleAssumption
<1>2. call[d] = Free
  <2> SUFFICES ASSUME Upgrading(d)  PROVE FALSE
    BY <1>1 DEF IInv, Callers
  <2>1. call[d].db = call[c].db  BY DEF Upgrading
  <2>2. QED  BY <1>1, <2>1, Alone DEF IInv
<1>3. up.pc = "serving"
  <2>1. call[c].pc # "install"  BY <1>1, OpOfPc, OwnNow, LifecycleAssumption DEF LifecycleAssumption
  <2>2. QED  BY <1>1, <2>1, OwnNow
<1>4. call[d].op # "upgrade"  BY <1>2 DEF Free
<1>5. QED  BY <1>1, <1>2, <1>3, <1>4 DEF UInv, Recorded, Claimed, Vacant

\* What a step of a caller has to show to keep the invariant: its own database
\* is astray or in order.
LEMMA StepRestores ==
  ASSUME IInv, UInv, IInv', NEW c \in Caller, CallStep(c), NEW d \in Db, call[c].db = d,
         d \notin astray' /\ c \in Slot =>
           /\ Exists(d)' => d \in linked'
           /\ Old(d)' => Old(d)
           /\ call'[c].pc \in VacantPcs => ~Exists(d)',
         c \notin astray' /\ c \in Db =>
           /\ Exists(c)' \/ Old(c)' => c \in linked' \/ call'[c].op = "upgrade"
           /\ Old(c)' => call'[c].op = "upgrade"
           /\ Exists(c)' /\ Old(c)' => call'[c].pc \in {"dropOld", "stuck"}
           /\ call'[c].op = "upgrade" =>
                /\ call'[c].pc \in {"install", "rename"} => ~Exists(c)'
                /\ call'[c].pc \in SavePcs => Exists(c)' /\ ~Old(c)'
                /\ Exists(c)' \/ Old(c)'
                /\ call'[c].pc = "stuck" => MayFail
                /\ c \notin linked'
  PROVE  UInv'
<1>1. /\ \A b \in Caller : b # c => call'[b] = call[b]
      /\ call'[c] = Free \/ call'[c].db = d
      /\ call[c].pc # "free" /\ up.pc = "serving" /\ up' = up /\ cleaner' = cleaner
  BY Proceeds
<1>2. /\ astray \subseteq astray'
      /\ \A e \in Db \ astray' : e # d =>
           /\ e \in linked' <=> e \in linked
           /\ \A p \in {"", "OLD"} : <<p, e>> \in actual' <=> <<p, e>> \in actual
  BY Apart
<1>3. c \in Db => c = d  BY <1>1 DEF IInv, Callers, Upgrading, Free
<1>4. ASSUME NEW e \in Db \ astray'
      PROVE  /\ Exists(e)' \/ Old(e)' => e \in linked' \/ call'[e].op = "upgrade"
             /\ Old(e)' => call'[e].op = "upgrade"
             /\ Exists(e)' /\ Old(e)' => call'[e].pc \in {"dropOld", "stuck"}
             /\ call'[e].op = "upgrade" =>
                  /\ call'[e].pc \in {"install", "rename"} => ~Exists(e)'
                  /\ call'[e].pc \in SavePcs => Exists(e)' /\ ~Old(e)'
                  /\ Exists(e)' \/ Old(e)'
                  /\ call'[e].pc = "stuck" => MayFail
                  /\ e \notin linked'
  <2>1. CASE e # d
    <3>1. call'[e] = call[e]  BY <1>1, <1>3, <2>1 DEF Caller
    <3>2. e \in Db \ astray  BY <1>2
    <3>3. /\ Exists(e)' <=> Exists(e)
          /\ Old(e)' <=> Old(e)
          /\ e \in linked' <=> e \in linked
      BY <1>2, <2>1 DEF Exists, Old
    <3>4. QED  BY <1>1, <3>1, <3>2, <3>3 DEF UInv, Recorded, Claimed, OneName, Phases
  <2>2. CASE e = d /\ c \in Db  BY <1>3, <2>2
  <2>3. CASE e = d /\ c \in Slot
    <3>1. d \notin astray  BY <1>2, <2>3
    <3>2. call[d] = Free /\ c # d /\ ~Old(d)  BY <1>1, <2>3, <3>1, SlotAlone
    <3>3. call'[d] = Free  BY <1>1, <1>3, <3>2 DEF Caller
    <3>4. QED  BY <2>3, <3>2, <3>3 DEF Free
  <2>4. QED  BY <2>1, <2>2, <2>3 DEF Caller
<1>5. Recorded' /\ Claimed' /\ OneName' /\ Phases'
  <2>1. Recorded'  BY <1>4 DEF Recorded
  <2>2. Claimed'  BY <1>4 DEF Claimed
  <2>3. OneName'  BY <1>4 DEF OneName
  <2>4. Phases'  BY <1>4 DEF Phases
  <2>5. QED  BY <2>1, <2>2, <2>3, <2>4
<1>6. Vacant'
  <2> SUFFICES ASSUME NEW h \in Slot, call'[h].pc \in VacantPcs, call'[h].db \notin astray'
               PROVE  <<"", call'[h].db>> \notin actual'
    BY DEF Vacant, Exists
  <2>1. CASE h = c
    <3>1. call'[c].pc # "free"  BY <2>1 DEF VacantPcs
    <3>2. call'[c].db = d  BY <1>1, <3>1 DEF Free
    <3>3. QED  BY <2>1, <3>2 DEF Exists
  <2>2. CASE h # c
    <3>1. h \in Caller /\ call'[h] = call[h]  BY <1>1, <2>2 DEF Caller
    <3>2. call[h].pc # "free" /\ call[h].db \notin astray  BY <1>2, <3>1 DEF VacantPcs
    <3>3. call[h].db \in Db /\ ~Exists(call[h].db)  BY <3>1, <3>2, SlotAlone
    <3>4. call[h].db # d  BY <1>1, <1>2, <2>2, <3>1, Alone DEF IInv
    <3>5. QED  BY <1>2, <3>1, <3>3, <3>4 DEF Exists
  <2>3. QED  BY <2>1, <2>2
<1>7. Starting'  BY <1>1 DEF Starting
<1>8. QED  BY <1>5, <1>6, <1>7 DEF UInv

\* Where a caller is after its step.
LEMMA Arrives ==
  ASSUME IInv, NEW c \in Caller
  PROVE  /\ Done(c) => call'[c].pc = "free" /\ call'[c].op = "none"
         /\ \A pc : Goto(c, pc) => call'[c].pc = pc
         /\ \A pc : call' = [call EXCEPT ![c].seen = linked, ![c].pc = pc] => call'[c].pc = pc
<1>1. call \in [Caller -> CallType]  BY DEF IInv, TypeOK, CallType
<1>2. QED  BY <1>1 DEF Done, Free, Goto, CallType

\* The requests leave nothing that an upgrade has to restore.
LEMMA RequestRestores ==
  ASSUME IInv, UInv, IInv', NEW c \in Slot, CallStep(c)
  PROVE  UInv'
<1>1. c \in Caller /\ c \notin Db
  BY LifecycleAssumption DEF Caller, LifecycleAssumption
<1>2. call[c].pc # "free"  BY <1>1, Proceeds
<1>3. PICK d \in Db : call[c].db = d  BY <1>1, <1>2, OwnNow
<1>4. ASSUME d \notin astray'
      PROVE  /\ Exists(d)' => d \in linked'
             /\ Old(d)' => Old(d)
             /\ call'[c].pc \in VacantPcs => ~Exists(d)'
  <2>1. d \notin astray  BY <1>1, <1>4, Apart
  <2>2. /\ Exists(d) => d \in linked
        /\ call[c].pc \in VacantPcs => ~Exists(d)
    BY <1>2, <1>3, <2>1, SlotAlone
  <2>3. /\ Done(c) => call'[c].pc \notin VacantPcs
        /\ \A pc : Goto(c, pc) => call'[c].pc = pc
        /\ \A pc : call' = [call EXCEPT ![c].seen = linked, ![c].pc = pc] => call'[c].pc = pc
    BY <1>1, Arrives DEF VacantPcs
  <2>4. CASE Load(c)
    <3>1. UNCHANGED <<actual, linked>>  BY <2>4 DEF Load
    <3>2. CASE Throw(c)
      <4>1. Done(c) \/ Goto(c, "stuck")  BY <3>2 DEF Throw
      <4>2. QED  BY <2>2, <2>3, <3>1, <4>1 DEF Exists, Old, VacantPcs
    <3>3. CASE d \notin linked  BY <2>2, <3>1, <3>3 DEF Exists, Old
    <3>4. QED  BY <1>3, <2>4, <3>2, <3>3 DEF Load
  <2>5. CASE Save(c)
    <3>1. call[c].pc = "save" /\ UNCHANGED <<actual, linked>>  BY <2>5 DEF Save, At
    <3>2. QED  BY <2>2, <3>1 DEF Exists, Old, VacantPcs
  <2>6. CASE Link(c)
    <3>1. call[c].pc = "link" /\ actual' = actual  BY <2>6 DEF Link, At
    <3>2. QED  BY <2>2, <3>1 DEF Exists, Old, VacantPcs
  <2>7. CASE Create(c)
    <3>1. call[c].pc = "create" /\ linked' = linked  BY <2>7 DEF Create, At
    <3>2. d \in linked  BY <1>3, <2>1, <3>1 DEF IInv, Listed
    <3>3. \/ actual' = actual
          \/ actual' = actual \cup {<<"", d>>} /\ Goto(c, "setup")
      BY <1>3, <2>7 DEF Create
    <3>4. CASE actual' = actual  BY <2>2, <3>1, <3>4 DEF Exists, Old, VacantPcs
    <3>5. CASE actual' = actual \cup {<<"", d>>} /\ Goto(c, "setup")
      <4>1. call'[c].pc \notin VacantPcs  BY <2>3, <3>5 DEF VacantPcs
      <4>2. Old(d)' => Old(d)  BY <3>5 DEF Old
      <4>3. QED  BY <3>1, <3>2, <4>1, <4>2
    <3>6. QED  BY <3>3, <3>4, <3>5
  <2>8. CASE Setup(c) \/ Told(c) \/ Find(c)
    <3>1. UNCHANGED <<actual, linked>>  BY <2>8 DEF Setup, Told, Find
    <3>2. Done(c) \/ Goto(c, "drop") \/ Goto(c, "told")  BY <2>8 DEF Setup, Told, Find
    <3>3. call'[c].pc \notin VacantPcs  BY <2>3, <3>2 DEF VacantPcs
    <3>4. QED  BY <2>2, <3>1, <3>3 DEF Exists, Old
  <2>9. CASE Drop(c)
    <3>1. linked' = linked  BY <2>9 DEF Drop
    <3>2. (Done(c) /\ actual' = actual) \/ actual' = actual \ {<<"", d>>}
      BY <1>3, <2>9 DEF Drop
    <3>3. CASE Done(c) /\ actual' = actual  BY <2>2, <2>3, <3>1, <3>3 DEF Exists, Old
    <3>4. CASE actual' = actual \ {<<"", d>>}  BY <3>4 DEF Exists, Old
    <3>5. QED  BY <3>2, <3>3, <3>4
  <2>10. CASE DelLoad(c) \/ DelUnlink(c) \/ DelRemove(c)
    <3>1. call[c].pc \in VacantPcs /\ actual' = actual
      BY <2>10 DEF DelLoad, DelUnlink, DelRemove, At, VacantPcs
    <3>2. QED  BY <2>2, <3>1 DEF Exists, Old
  <2>11. CASE Install(c) \/ Rename(c) \/ DropOld(c)
    <3>1. call[c].op = "upgrade"  BY <1>1, <2>11, OpOfPc DEF Install, Rename, DropOld, At
    <3>2. QED  BY <1>1, <1>2, <3>1, OwnNow
  <2>12. QED
    BY <2>4, <2>5, <2>6, <2>7, <2>8, <2>9, <2>10, <2>11 DEF CallStep
<1>5. QED  BY <1>1, <1>3, <1>4, StepRestores

\* The timer of an upgrade goes from NEW<db> to a database that is back under
\* its name and in its user's list.
LEMMA TimerRestores ==
  ASSUME IInv, UInv, IInv', NEW d \in Db, CallStep(d)
  PROVE  /\ UInv'
         /\ d \notin astray' /\ call'[d] = Free =>
              Exists(d) /\ ~Old(d) /\ UNCHANGED actual /\ d \in linked'
         /\ d \notin astray' /\ <<"OLD", d>> \in actual \ actual' => Exists(d) /\ Exists(d)'
<1>1. d \in Caller /\ d \notin Slot
  BY LifecycleAssumption DEF Caller, LifecycleAssumption
<1>2. call[d].pc # "free" /\ up.pc = "serving"  BY <1>1, Proceeds
<1>3. call[d].op = "upgrade" /\ call[d].db = d
  BY <1>2 DEF IInv, Callers, Upgrading, Free
<1>4. ASSUME d \notin astray'
      PROVE  /\ Exists(d)' \/ Old(d)' => d \in linked' \/ call'[d].op = "upgrade"
             /\ <<"OLD", d>> \in actual \ actual' => Exists(d) /\ Exists(d)'
             /\ Old(d)' => call'[d].op = "upgrade"
             /\ Exists(d)' /\ Old(d)' => call'[d].pc \in {"dropOld", "stuck"}
             /\ call'[d].op = "upgrade" =>
                  /\ call'[d].pc \in {"install", "rename"} => ~Exists(d)'
                  /\ call'[d].pc \in SavePcs => Exists(d)' /\ ~Old(d)'
                  /\ Exists(d)' \/ Old(d)'
                  /\ call'[d].pc = "stuck" => MayFail
                  /\ d \notin linked'
             /\ call'[d].op # "upgrade" =>
                  <<"", d>> \in actual /\ <<"OLD", d>> \notin actual
                  /\ actual' = actual /\ d \in linked'
  <2>1. d \notin astray  BY <1>1, <1>4, Apart
  <2>2. /\ call[d].pc \in {"install", "rename"} => ~Exists(d)
        /\ call[d].pc \in SavePcs => Exists(d) /\ ~Old(d)
        /\ Exists(d) \/ Old(d)
        /\ d \notin linked
        /\ call[d].pc = "dropOld" => Exists(d)
    <3>1. /\ call[d].pc \in {"install", "rename"} => ~Exists(d)
          /\ call[d].pc \in SavePcs => Exists(d) /\ ~Old(d)
          /\ Exists(d) \/ Old(d)
          /\ d \notin linked
      BY <1>2, <1>3, <2>1 DEF UInv, Phases
    <3>2. call[d].pc = "dropOld" => Exists(d)  BY <1>1, <1>3, <2>1 DEF IInv, There
    <3>3. QED  BY <3>1, <3>2
  <2>3. /\ Done(d) => call'[d].pc = "free" /\ call'[d].op = "none"
        /\ \A pc : Goto(d, pc) => call'[d].pc = pc
        /\ \A pc : call' = [call EXCEPT ![d].seen = linked, ![d].pc = pc] => call'[d].pc = pc
    BY <1>1, Arrives
  <2>4. call'[d].pc = "free" \/ call'[d].op = "upgrade"  BY <1>1, <1>3, Proceeds DEF Free
  <2>5. CASE Install(d)
    <3>1. call'[d].pc = "rename" /\ call[d].pc = "install" /\ UNCHANGED <<actual, linked>>
      BY <2>3, <2>5 DEF Install, At
    <3>2. call'[d].op = "upgrade"  BY <2>4, <3>1
    <3>3. QED  BY <2>2, <3>1, <3>2 DEF Exists, Old, SavePcs
  <2>6. CASE MayFail /\ Throw(d) /\ UNCHANGED <<actual, linked>>
    <3>1. call'[d].pc = "stuck"  BY <1>3, <2>3, <2>6 DEF Throw
    <3>2. call'[d].op = "upgrade"  BY <2>4, <3>1
    <3>3. QED  BY <2>2, <2>6, <3>1, <3>2 DEF Exists, Old, SavePcs
  <2>7. CASE Rename(d) /\ ~(MayFail /\ Throw(d) /\ UNCHANGED <<actual, linked>>)
    <3>1. call[d].pc = "rename" /\ ~Exists(d)  BY <2>2, <2>7 DEF Rename, At
    <3>2. /\ call'[d].pc = "dropOld" /\ linked' = linked
          /\ actual' = (actual \ {<<"NEW", d>>}) \cup {<<"", d>>}
      BY <1>3, <2>3, <2>7, <3>1 DEF Rename
    <3>3. call'[d].op = "upgrade"  BY <2>4, <3>2
    <3>4. Exists(d)' /\ (Old(d) => Old(d)')  BY <3>2 DEF Exists, Old
    <3>5. QED  BY <2>2, <3>1, <3>2, <3>3, <3>4 DEF Old, SavePcs
  <2>8. CASE DropOld(d) /\ ~(MayFail /\ Throw(d) /\ UNCHANGED <<actual, linked>>)
    <3>1. /\ call[d].pc = "dropOld" /\ linked' = linked
          /\ actual' = actual \ {<<"OLD", d>>} /\ Goto(d, "load")
      BY <1>3, <2>8 DEF DropOld, At
    <3>2. call'[d].pc = "load"  BY <2>3, <3>1
    <3>3. Exists(d) /\ Exists(d)' /\ ~Old(d)'  BY <2>2, <3>1 DEF Exists, Old
    <3>4. call'[d].op = "upgrade"  BY <2>4, <3>2 DEF Free
    <3>5. QED  BY <2>2, <3>1, <3>2, <3>3, <3>4 DEF SavePcs
  <2>9. CASE Load(d) /\ ~(MayFail /\ Throw(d) /\ UNCHANGED <<actual, linked>>)
    <3>1. call[d].pc = "load" /\ UNCHANGED <<actual, linked>>  BY <2>9 DEF Load, At
    <3>2. call'[d].pc = "save"  BY <1>3, <2>2, <2>3, <2>9, <3>1 DEF Load
    <3>3. call'[d].op = "upgrade"  BY <2>4, <3>2
    <3>4. QED  BY <2>2, <3>1, <3>2, <3>3 DEF Exists, Old, SavePcs
  <2>10. CASE Save(d) /\ ~(MayFail /\ Throw(d) /\ UNCHANGED <<actual, linked>>)
    <3>1. call[d].pc = "save" /\ UNCHANGED <<actual, linked>>  BY <2>10 DEF Save, At
    <3>2. call'[d].pc = "link"  BY <2>3, <2>10, <3>1 DEF Save
    <3>3. call'[d].op = "upgrade"  BY <2>4, <3>2
    <3>4. QED  BY <2>2, <3>1, <3>2, <3>3 DEF Exists, Old, SavePcs
  <2>11. CASE Link(d) /\ ~(MayFail /\ Throw(d) /\ UNCHANGED <<actual, linked>>)
    <3>1. call[d].pc = "link" /\ actual' = actual  BY <2>11 DEF Link, At
    <3>2. linked' = call[d].seen \cup {d} /\ Done(d)
      BY <1>3, <1>4, <2>11, <3>1 DEF Link, SaveUser
    <3>3. Exists(d) /\ ~Old(d) /\ d \in linked'  BY <2>2, <3>1, <3>2 DEF SavePcs
    <3>4. call'[d].op = "none"  BY <2>3, <3>2
    <3>5. QED  BY <3>1, <3>3, <3>4 DEF Exists, Old
  <2>12. CASE Create(d) \/ Setup(d) \/ Told(d) \/ Find(d) \/ Drop(d) \/ DelLoad(d)
              \/ DelUnlink(d) \/ DelRemove(d)
    <3>1. call[d].op # "upgrade"
      BY <1>1, <2>12, OpOfPc
      DEF Create, Setup, Told, Find, Drop, DelLoad, DelUnlink, DelRemove, At, DeletePcs
    <3>2. QED  BY <1>3, <3>1
  <2>13. QED
    BY <2>5, <2>6, <2>7, <2>8, <2>9, <2>10, <2>11, <2>12 DEF CallStep
<1>5. UInv'  BY <1>1, <1>3, <1>4, StepRestores
<1>6. call'[d] = Free => call'[d].op # "upgrade"  BY DEF Free
<1>7. QED  BY <1>4, <1>5, <1>6 DEF Exists, Old

\* A request that arrives, or that dies with its worker, leaves the databases
\* as they are.
LEMMA RequestsRestore ==
  ASSUME IInv, UInv, NEW h \in Slot,
         WorkerDies(h) \/ \E d \in Db : Post(h, "connect", d) \/ Post(h, "disconnect", d)
  PROVE  UInv'
<1>1. h \in Caller /\ h \notin Db /\ call \in [Caller -> CallType]
  BY LifecycleAssumption DEF Caller, LifecycleAssumption, IInv, TypeOK, CallType
<1>2. /\ UNCHANGED <<actual, linked, up>> /\ astray \subseteq astray'
      /\ \A c \in Caller : c # h => call'[c] = call[c]
      /\ call'[h].pc \notin VacantPcs
  BY <1>1 DEF WorkerDies, Post, Done, Free, VacantPcs
<1>3. up.pc = "serving"
  <2>1. CASE WorkerDies(h)
    <3>1. call[h].pc # "free"  BY <2>1 DEF WorkerDies, At
    <3>2. call[h].pc # "install"
      BY <1>1, <3>1, OpOfPc, OwnNow
    <3>3. QED  BY <1>1, <3>1, <3>2, OwnNow
  <2>2. CASE \E d \in Db : Post(h, "connect", d) \/ Post(h, "disconnect", d)
    BY <2>2 DEF Post
  <2>3. QED  BY <2>1, <2>2
<1>4. \A d \in Db : call'[d] = call[d]  BY <1>1, <1>2 DEF Caller
<1>5. Recorded' /\ Claimed' /\ Phases' /\ OneName'
  <2>1. \A d \in Db \ astray' : d \in Db \ astray  BY <1>2
  <2>2. QED
    BY <1>2, <1>4, <2>1 DEF UInv, Recorded, Claimed, Phases, OneName, Exists, Old
<1>6. Vacant'
  <2> SUFFICES ASSUME NEW g \in Slot, call'[g].pc \in VacantPcs, call'[g].db \notin astray'
               PROVE  <<"", call'[g].db>> \notin actual'
    BY DEF Vacant, Exists
  <2>1. g # h /\ call'[g] = call[g]  BY <1>2 DEF Caller
  <2>2. QED  BY <1>2, <2>1 DEF UInv, Vacant, Exists
<1>7. Starting'  BY <1>2, <1>3 DEF Starting
<1>8. QED  BY <1>5, <1>6, <1>7 DEF UInv

\* While the container is not serving, the only callers are timers that wait.
LEMMA OnlyTimers ==
  ASSUME IInv, up.pc # "serving"
  PROVE  /\ \A h \in Slot : call[h] = Free
         /\ \A d \in Db : call[d] = Free \/ (call[d].op = "upgrade" /\ call[d].pc = "install")
<1>1. \A c \in Caller : call[c].pc \in {"free", "install"}  BY DEF IInv, Quiet
<1>2. ASSUME NEW h \in Slot  PROVE call[h] = Free
  BY <1>1 DEF IInv, Callers, Caller, Connecting, Disconnecting, SavePcs, DeletePcs
<1>3. ASSUME NEW d \in Db
      PROVE  call[d] = Free \/ (call[d].op = "upgrade" /\ call[d].pc = "install")
  <2>1. call[d].pc \in {"free", "install"}  BY <1>1 DEF Caller
  <2>2. QED  BY <2>1 DEF IInv, Callers, Upgrading, SavePcs
<1>4. QED  BY <1>2, <1>3

\* upgrade.sh has every OLD<db> in the list of part 2, and none beside <db>.
LEMMA ShellRestores ==
  ASSUME IInv, UInv, Shell
  PROVE  UInv'
<1> DEFINE renamed == {d \in record : Exists(d) /\ <<"OLD", d>> \notin actual}
<1>1. /\ up.pc = "shell" /\ up'.pc = "part2"
      /\ actual' = (actual \ {<<"", d>> : d \in renamed}) \cup {<<"OLD", d>> : d \in renamed}
      /\ up'.dbs = IF \E d \in Db : <<"OLD", d>> \in actual' THEN record ELSE {}
      /\ UNCHANGED <<record, linked, call, cleaner, astray>>
  BY DEF Shell
<1>2. \A c \in Caller : call[c] = Free
  <2>1. \A c \in Caller : call[c].pc = "free"  BY <1>1 DEF UInv, Starting
  <2>2. QED  BY <2>1, OnlyTimers, <1>1 DEF Caller
<1>3. \A d \in Db : call[d].op # "upgrade" /\ call[d].pc \notin {"dropOld", "stuck"}
  BY <1>2 DEF Caller, Free
<1>4. linked \subseteq record  BY DEF IInv, TypeOK
<1>5. ASSUME NEW d \in Db
      PROVE  /\ <<"", d>> \in actual' <=> Exists(d) /\ d \notin renamed
             /\ <<"OLD", d>> \in actual' <=> Old(d) \/ d \in renamed
  <2>1. \A e \in renamed : <<"", d>> # <<"OLD", e>> /\ <<"OLD", d>> # <<"", e>>  OBVIOUS
  <2>2. <<"", d>> \in {<<"", e>> : e \in renamed} <=> d \in renamed  OBVIOUS
  <2>3. <<"OLD", d>> \in {<<"OLD", e>> : e \in renamed} <=> d \in renamed  OBVIOUS
  <2>4. QED  BY <1>1, <2>1, <2>2, <2>3 DEF Exists, Old
<1>6. ASSUME NEW d \in Db \ astray, Exists(d) \/ Old(d)  PROVE d \in linked /\ d \in record
  BY <1>3, <1>4, <1>6 DEF UInv, Recorded
<1>7. Recorded'
  <2> SUFFICES ASSUME NEW d \in Db \ astray, <<"", d>> \in actual' \/ <<"OLD", d>> \in actual'
               PROVE  d \in linked
    BY <1>1 DEF Recorded, Exists, Old
  <2>1. QED  BY <1>5, <1>6
<1>8. Claimed'
  <2> SUFFICES ASSUME NEW d \in Db \ astray, <<"OLD", d>> \in actual'
               PROVE  d \in up'.dbs
    BY <1>1 DEF Claimed, Old
  <2>1. d \in record  BY <1>5, <1>6
  <2>2. QED  BY <1>1, <2>1
<1>9. OneName'
  <2> SUFFICES ASSUME NEW d \in Db \ astray, <<"", d>> \in actual', <<"OLD", d>> \in actual'
               PROVE  FALSE
    BY <1>1 DEF OneName, Exists, Old
  <2>1. Exists(d) /\ d \notin renamed /\ Old(d)  BY <1>5
  <2>2. QED  BY <1>3, <2>1 DEF UInv, OneName
<1>10. Phases' /\ Vacant' /\ Starting'
  <2>1. Phases'  BY <1>1, <1>3 DEF Phases
  <2>2. Vacant'
    <3>1. \A h \in Slot : call[h].pc = "free"  BY <1>2 DEF Caller, Free
    <3>2. call' = call  BY <1>1
    <3>3. QED  BY <3>1, <3>2 DEF Vacant, VacantPcs
  <2>3. Starting'  BY <1>1 DEF UInv, Starting
  <2>4. QED  BY <2>1, <2>2, <2>3
<1>11. QED  BY <1>7, <1>8, <1>9, <1>10 DEF UInv

\* Part 2 takes a database from its list only to give it a timer, for which
\* the name is free.
LEMMA Part2Restores ==
  ASSUME IInv, UInv, NEW d \in Db, Part2(d)
  PROVE  UInv'
<1>1. /\ up.pc = "part2" /\ up'.pc \in {"part2", "failed"}
      /\ up'.pc = "part2" => up'.dbs = up.dbs \ {d}
      /\ UNCHANGED <<linked, cleaner, astray>>
  <2>1. /\ up.pc = "part2" /\ UNCHANGED <<linked, cleaner, astray>>
        /\ up' = [up EXCEPT !.dbs = @ \ {d}] \/ up' = [pc |-> "failed", dbs |-> {}]
    BY DEF Part2
  <2>2. up = [pc |-> "part2", dbs |-> up.dbs]  BY <2>1 DEF IInv, TypeOK
  <2>3. QED  BY <2>1, <2>2
<1>2. \A e \in Db, p \in {"", "OLD"} : <<p, e>> \in actual' <=> <<p, e>> \in actual
  <2>1. \A e \in Db, p \in {"", "OLD"} : <<p, e>> # <<"NEW", d>>  OBVIOUS
  <2>2. QED  BY <2>1 DEF Part2
<1>3. call \in [Caller -> CallType] /\ d \in Caller /\ d \notin Slot
  BY LifecycleAssumption DEF IInv, TypeOK, CallType, Caller, LifecycleAssumption
<1>4. \A c \in Caller :
        call'[c] = call[c] \/ (c = d /\ call'[d].op = "upgrade" /\ call'[d].pc = "install")
  BY <1>3 DEF Part2
<1>5. up'.pc = "part2" =>
        /\ \A e \in Db : e # d /\ e \in up.dbs => e \in up'.dbs
        /\ d \in linked /\ Old(d) => call'[d].op = "upgrade"
  <2>1. \A e \in Db : e # d /\ e \in up.dbs /\ up'.pc = "part2" => e \in up'.dbs  BY <1>1
  <2>2. d \in linked /\ up'.pc = "part2" => call'[d].op = "upgrade"
    BY <1>3 DEF Part2
  <2>3. QED  BY <2>1, <2>2
<1>6. call'[d] # call[d] => Old(d)  BY DEF Part2, Old
<1>7. ASSUME NEW e \in Db \ astray
      PROVE  /\ <<"", e>> \in actual' \/ <<"OLD", e>> \in actual' =>
                  e \in linked \/ call'[e].op = "upgrade"
             /\ <<"OLD", e>> \in actual' =>
                  call'[e].op = "upgrade" \/ up'.pc = "failed"
                  \/ (up'.pc = "part2" /\ e \in up'.dbs)
             /\ ~(<<"", e>> \in actual' /\ <<"OLD", e>> \in actual')
             /\ call'[e].op = "upgrade" =>
                  /\ call'[e].pc = "install" /\ <<"", e>> \notin actual'
                  /\ <<"OLD", e>> \in actual'
  <2>1. /\ Exists(e) \/ Old(e) => e \in linked \/ call[e].op = "upgrade"
        /\ Old(e) => call[e].op = "upgrade" \/ e \in up.dbs
        /\ Exists(e) /\ Old(e) => call[e].pc \in {"dropOld", "stuck"}
        /\ call[e].op = "upgrade" /\ call[e].pc = "install" => ~Exists(e) /\ Old(e)
    BY <1>1 DEF UInv, Recorded, Claimed, OneName, Phases
  <2>2. call[e].op = "upgrade" => call[e].pc = "install"  BY <1>1, OnlyTimers DEF Free
  <2>3. call[e].pc \notin {"dropOld", "stuck"}  BY <1>1, OnlyTimers DEF Free
  <2>4. call[e].op = "upgrade" => call'[e].op = "upgrade"  BY <1>4 DEF Caller
  <2>5. call'[e].op = "upgrade" => call'[e].pc = "install" /\ ~Exists(e) /\ Old(e)
    <3>1. CASE call'[e] = call[e]  BY <2>1, <2>2, <3>1
    <3>2. CASE call'[e] # call[e]
      <4>1. e = d /\ call'[e].pc = "install"  BY <1>4, <3>2 DEF Caller
      <4>2. QED  BY <1>6, <2>1, <2>3, <3>2, <4>1
    <3>3. QED  BY <3>1, <3>2
  <2>6. Old(e) => call'[e].op = "upgrade" \/ up'.pc = "failed"
                  \/ (up'.pc = "part2" /\ e \in up'.dbs)
    BY <1>1, <1>5, <2>1, <2>4
  <2>7. (<<"", e>> \in actual' <=> Exists(e)) /\ (<<"OLD", e>> \in actual' <=> Old(e))
    BY <1>2 DEF Exists, Old
  <2>8. QED  BY <2>1, <2>3, <2>4, <2>5, <2>6, <2>7
<1>8. Recorded' /\ Claimed' /\ OneName' /\ Phases'
  <2>1. Recorded'  BY <1>1, <1>7 DEF Recorded, Exists, Old
  <2>2. Claimed'  BY <1>1, <1>7 DEF Claimed, Old
  <2>3. OneName'  BY <1>1, <1>7 DEF OneName, Exists, Old
  <2>4. Phases'  BY <1>1, <1>7 DEF Phases, Exists, Old, SavePcs
  <2>5. QED  BY <2>1, <2>2, <2>3, <2>4
<1>9. Vacant'
  <2>1. ASSUME NEW h \in Slot  PROVE call'[h].pc = "free"
    BY <1>1, <1>3, <1>4, OnlyTimers DEF Caller, Free
  <2>2. QED  BY <2>1 DEF Vacant, VacantPcs
<1>10. Starting'  BY <1>1 DEF UInv, Starting
<1>11. QED  BY <1>8, <1>9, <1>10 DEF UInv

\* The first worker cleans away the row of a database that is upgraded, and
\* when it serves requests the user's list is without it.
LEMMA CleanRestores ==
  ASSUME IInv, UInv, Fork \/ Clean
  PROVE  UInv'
<1>1. /\ UNCHANGED <<actual, call>> /\ astray \subseteq astray' /\ linked' \subseteq linked
      /\ up.pc # "shell"
  <2>1. CASE Fork  BY <2>1 DEF Fork
  <2>2. CASE Clean
    <3>1. cleaner.pc # "done"
      BY <2>2 DEF Clean, CleanExpected, CleanActual, CleanRemove, CleanDone
    <3>2. up.pc \in {"starting", "serving"}  BY <3>1 DEF UInv, Starting
    <3>3. QED
      BY <2>2, <3>2 DEF Clean, CleanExpected, CleanActual, CleanRemove, CleanDone
  <2>3. QED  BY <2>1, <2>2
<1>2. \/ up'.pc = up.pc /\ up'.dbs = up.dbs
      \/ Fork /\ up.pc = "part2" /\ up.dbs = {} /\ up'.pc = "starting"
      \/ CleanDone /\ up'.pc = "serving" /\ up.pc \in {"starting", "serving"}
  <2>1. CASE Fork  BY <2>1 DEF Fork
  <2>2. CASE CleanDone
    <3>1. cleaner.pc # "done" /\ up' = [up EXCEPT !.pc = "serving"]  BY <2>2 DEF CleanDone
    <3>2. QED  BY <2>2, <3>1 DEF UInv, Starting, IInv, TypeOK
  <2>3. CASE CleanExpected \/ CleanActual \/ CleanRemove
    BY <2>3 DEF CleanExpected, CleanActual, CleanRemove
  <2>4. QED  BY <2>1, <2>2, <2>3 DEF Clean
<1>3. ASSUME NEW d \in Db \ astray', Exists(d) \/ Old(d), call[d].op # "upgrade"
      PROVE  d \in linked'
  <2>1. d \in linked  BY <1>1, <1>3 DEF UInv, Recorded
  <2>2. CASE CleanRemove
    <3>1. PICK e \in cleaner.dbs :
            /\ linked' = linked \ {e}
            /\ astray' = IF call[e].op # "upgrade" /\ (Kept(e) \/ Handled(e))
                         THEN astray \cup {e} ELSE astray
      BY <2>2 DEF CleanRemove
    <3>2. Kept(d)  BY <1>3 DEF Kept, Exists, Old
    <3>3. QED  BY <1>3, <2>1, <3>1, <3>2
  <2>3. CASE ~CleanRemove
    BY <2>1, <2>3 DEF Fork, Clean, CleanExpected, CleanActual, CleanDone
  <2>4. QED  BY <2>2, <2>3
<1>4. Recorded'  BY <1>1, <1>3 DEF Recorded, Exists, Old
<1>5. Claimed'  BY <1>1, <1>2 DEF UInv, Claimed, Old
<1>6. OneName'  BY <1>1 DEF UInv, OneName, Exists, Old
<1>7. Vacant'  BY <1>1 DEF UInv, Vacant, Exists
<1>8. Starting'
  <2>1. up'.pc # "shell"  BY <1>1, <1>2
  <2>2. cleaner'.pc # "done" => up'.pc \in {"starting", "serving"}
    BY <1>2 DEF UInv, Starting, Fork, Clean, CleanExpected, CleanActual, CleanRemove, CleanDone,
                Resting
  <2>3. QED  BY <2>1, <2>2 DEF Starting
<1>9. Phases'
  <2> SUFFICES ASSUME NEW d \in Db \ astray', call[d].op = "upgrade"
               PROVE  /\ call[d].pc \in {"install", "rename"} => ~Exists(d)
                      /\ call[d].pc \in SavePcs => Exists(d) /\ ~Old(d)
                      /\ Exists(d) \/ Old(d)
                      /\ call[d].pc = "stuck" => MayFail
                      /\ up'.pc = "serving" => d \notin linked'
    BY <1>1 DEF Phases, Exists, Old
  <2>1. /\ call[d].pc \in {"install", "rename"} => ~Exists(d)
        /\ call[d].pc \in SavePcs => Exists(d) /\ ~Old(d)
        /\ Exists(d) \/ Old(d)
        /\ call[d].pc = "stuck" => MayFail
        /\ up.pc = "serving" => d \notin linked
    BY <1>1 DEF UInv, Phases
  <2>2. ASSUME up'.pc = "serving", up.pc # "serving"  PROVE d \notin linked
    <3>1. CleanDone /\ up.pc = "starting"  BY <1>2, <2>2
    <3>2. \A e \in record : Exists(e)  BY <3>1 DEF CleanDone, IInv, Cleaning
    <3>3. ~Exists(d)  BY <2>1, <2>2, OnlyTimers DEF Free
    <3>4. QED  BY <3>2, <3>3 DEF IInv, TypeOK
  <2>3. QED  BY <1>1, <2>1, <2>2
<1>10. QED  BY <1>4, <1>5, <1>6, <1>7, <1>8, <1>9 DEF UInv

\* A timer that a restart forgets leaves a database that is in its user's list,
\* for upgrade.sh to find, or that the metadata lost track of.
LEMMA RestartRestores ==
  ASSUME IInv, UInv, Restart
  PROVE  UInv'
<1>1. /\ up'.pc = "shell" /\ cleaner'.pc = "done" /\ UNCHANGED <<actual, linked>>
      /\ \A c \in Caller : call'[c] = Free
      /\ astray' = astray \cup ((live \cup {d \in Db : call[d].op = "upgrade"}) \ linked)
  BY DEF Restart, Resting
<1>2. \A d \in Db : call'[d].op # "upgrade"  BY <1>1 DEF Caller, Free
<1>3. Recorded'
  <2> SUFFICES ASSUME NEW d \in Db \ astray', Exists(d) \/ Old(d)  PROVE d \in linked
    BY <1>1 DEF Recorded, Exists, Old
  <2>1. d \in linked \/ call[d].op = "upgrade"  BY <1>1 DEF UInv, Recorded
  <2>2. QED  BY <1>1, <2>1
<1>4. OneName'
  <2> SUFFICES ASSUME NEW d \in Db \ astray', Exists(d), Old(d)  PROVE FALSE
    BY <1>1 DEF OneName, Exists, Old
  <2>1. d \in Caller /\ d \notin astray  BY <1>1 DEF Caller
  <2>2. call[d].pc \in {"dropOld", "stuck"}  BY <2>1 DEF UInv, OneName
  <2>3. call[d].op = "upgrade" /\ up.pc = "serving"
    BY <2>1, <2>2, OpOfPc, OwnNow
  <2>4. d \notin linked  BY <2>1, <2>3 DEF UInv, Phases
  <2>5. QED  BY <1>1, <2>3, <2>4
<1>5. Claimed' /\ Phases'  BY <1>1, <1>2 DEF Claimed, Phases
<1>6. Vacant' /\ Starting'
  <2>1. \A c \in Caller : call'[c].pc = "free"  BY <1>1 DEF Free
  <2>2. QED  BY <1>1, <2>1 DEF Vacant, VacantPcs, Starting, Caller
<1>7. QED  BY <1>3, <1>4, <1>5, <1>6 DEF UInv

\* Every step keeps what an upgrade needs to restore a database.
LEMMA Restores ==
  ASSUME IInv, IInv', UInv, [Next]_vars
  PROVE  UInv'
<1>1. CASE UNCHANGED vars
  BY <1>1 DEF vars, UInv, Recorded, Claimed, Phases, OneName, Vacant, Starting, Exists, Old
<1>2. CASE \E h \in Slot, d \in Db : Post(h, "connect", d) \/ Post(h, "disconnect", d)
  BY <1>2, RequestsRestore
<1>3. CASE \E c \in Caller : CallStep(c)
  BY <1>3, RequestRestores, TimerRestores DEF Caller
<1>4. CASE Shell  BY <1>4, ShellRestores
<1>5. CASE \E d \in Db : Part2(d)  BY <1>5, Part2Restores
<1>6. CASE Fork \/ Clean  BY <1>6, CleanRestores
<1>7. CASE \E h \in Slot : WorkerDies(h)  BY <1>7, RequestsRestore
<1>8. CASE Restart  BY <1>8, RestartRestores
<1>9. QED  BY <1>1, <1>2, <1>3, <1>4, <1>5, <1>6, <1>7, <1>8 DEF Next

-----------------------------------------------------------------------------
(* The theorems.                                                           *)

\* Every step of the databases' lifecycle keeps the inductive invariant.
THEOREM Invariance == Spec => []IInv
<1>1. Init => IInv  BY InitInv
<1>2. IInv /\ [Next]_vars => IInv'
  <2> SUFFICES ASSUME IInv, [Next]_vars  PROVE IInv'
    OBVIOUS
  <2>1. CASE UNCHANGED vars
    BY <2>1 DEF vars, IInv, TypeOK, Callers, Upgrading, Connecting, Disconnecting, Sole, Quiet,
                Tracked, NotLive, Listed, There, Cleaning, LiveKept, Exists
  <2>2. CASE \E h \in Slot, d \in Db : Post(h, "connect", d) \/ Post(h, "disconnect", d)
    BY <2>2, PostStep
  <2>3. CASE \E c \in Caller : CallStep(c)  BY <2>3, CallStepKeeps
  <2>4. CASE Shell  BY <2>4, ShellStep
  <2>5. CASE \E d \in Db : Part2(d)  BY <2>5, Part2Step
  <2>6. CASE Fork \/ Clean  BY <2>6, StartStep, CleanRemoveStep DEF Clean
  <2>7. CASE \E h \in Slot : WorkerDies(h)  BY <2>7, WorkerDiesStep
  <2>8. CASE Restart  BY <2>8, RestartStep
  <2>9. QED  BY <2>1, <2>2, <2>3, <2>4, <2>5, <2>6, <2>7, <2>8 DEF Next
<1>3. QED  BY <1>1, <1>2, PTL DEF Spec

\* The lifecycle's variables keep their types, and the join table never refers
\* to a row that is gone.
THEOREM TypeCorrect == Spec => []TypeOK
<1>1. IInv => TypeOK  BY DEF IInv
<1>2. QED  BY <1>1, Invariance, PTL

\* A database that connect answered for is there until disconnect is called.
THEOREM ConnectedKept == Spec => []LiveKept
<1>1. IInv => LiveKept  BY DEF IInv
<1>2. QED  BY <1>1, Invariance, PTL

\* When connect answers, the database exists and is in its user's list.
THEOREM ConnectedThere == Spec => []ConnectTold
<1>1. IInv => ConnectTold
  <2> SUFFICES ASSUME IInv, NEW c \in Caller, At(c, "told"), call[c].db \notin astray
               PROVE  Exists(call[c].db) /\ call[c].db \in linked
    BY DEF ConnectTold
  <2>1. call[c].pc = "told"  BY DEF At
  <2>2. c \in Slot  BY <2>1, OpOfPc, OwnNow
  <2>3. QED  BY <2>1, <2>2 DEF IInv, Listed, There
<1>2. QED  BY <1>1, Invariance, PTL

\* What an upgrade needs holds in every state of the databases' lifecycle.
THEOREM UpgradeInvariance == Spec => []UInv
<1>1. Init => UInv
  <2> SUFFICES ASSUME Init  PROVE UInv
    OBVIOUS
  <2>1. \A c \in Caller : call[c] = Free  BY DEF Init
  <2>2. \A d \in Db : call[d].op # "upgrade"  BY <2>1 DEF Caller, Free
  <2>3. Recorded /\ Claimed /\ OneName /\ Phases
    BY <2>2 DEF Init, Recorded, Claimed, OneName, Phases, Exists, Old
  <2>4. Vacant /\ Starting
    BY <2>1 DEF Init, Vacant, VacantPcs, Starting, Resting, Caller, Free
  <2>5. QED  BY <2>3, <2>4 DEF UInv
<1>2. IInv /\ IInv' /\ UInv /\ [Next]_vars => UInv'  BY Restores
<1>3. QED  BY <1>1, <1>2, Invariance, PTL DEF Spec

\* The timer of an upgrade only ends when the database is back under its name
\* and in its user's list, and OLD<db> is gone; an error that stops it leaves the
\* database under one of the two names, and OLD<db> is not dropped before NEW<db>
\* took its place; unless the metadata lost track of it or somebody else handled it.
THEOREM UpgradeDone == Spec => UpgradeRestores
<1> DEFINE Restored ==
      \A d \in Db \ astray' :
        call[d].op = "upgrade" /\ up'.pc # "shell" =>
          /\ call'[d] = Free =>
               Exists(d)' /\ d \in linked' /\ <<"OLD", d>> \notin actual'
          /\ At(d, "stuck")' => {<<"", d>>, <<"OLD", d>>} \cap actual' # {}
          /\ <<"OLD", d>> \in actual \ actual' => Exists(d) /\ Exists(d)'
<1>1. IInv /\ IInv' /\ UInv /\ UInv' /\ [Next]_vars => [Restored]_vars
  <2> SUFFICES ASSUME IInv, IInv', UInv, UInv', Next, NEW d \in Db \ astray',
                      call[d].op = "upgrade", up'.pc # "shell"
               PROVE  /\ call'[d] = Free =>
                           /\ <<"", d>> \in actual' /\ d \in linked'
                           /\ <<"OLD", d>> \notin actual'
                      /\ call'[d].pc = "stuck" =>
                           <<"", d>> \in actual' \/ <<"OLD", d>> \in actual'
                      /\ <<"OLD", d>> \in actual \ actual' =>
                           <<"", d>> \in actual /\ <<"", d>> \in actual'
    BY DEF At, Exists
  <2>1. call'[d].pc = "stuck" => <<"", d>> \in actual' \/ <<"OLD", d>> \in actual'
    <3>1. call'[d].pc = "stuck" => call'[d].op = "upgrade"
      BY DEF IInv, Callers, Upgrading, Free
    <3>2. QED  BY <3>1 DEF UInv, Phases, Exists, Old
  <2>2. ASSUME call'[d] = Free
        PROVE  /\ <<"", d>> \in actual' /\ d \in linked'
               /\ <<"OLD", d>> \notin actual'
    <3>1. d \in Caller /\ d \notin Slot /\ call'[d] # call[d]
      BY <2>2, LifecycleAssumption DEF Caller, LifecycleAssumption, Free
    <3>2. call \in [Caller -> CallType]  BY DEF IInv, TypeOK, CallType
    <3>3. CASE \E h \in Slot, e \in Db : Post(h, "connect", e) \/ Post(h, "disconnect", e)
      BY <3>1, <3>2, <3>3 DEF Post
    <3>4. CASE \E c \in Caller : CallStep(c)
      <4>1. PICK c \in Caller : CallStep(c)  BY <3>4
      <4>2. c = d  BY <3>1, <4>1, Proceeds
      <4>3. QED  BY <2>2, <4>1, <4>2, TimerRestores DEF Exists, Old
    <3>5. CASE \E e \in Db : Part2(e)
      <4>1. PICK e \in Db : Part2(e)  BY <3>5
      <4>2. call' = [call EXCEPT ![e] =
                       [op |-> "upgrade", db |-> e, pc |-> "install", seen |-> {}]]
        BY <3>1, <4>1 DEF Part2
      <4>3. d = e  BY <3>1, <3>2, <4>2
      <4>4. call'[d].op = "upgrade"  BY <3>1, <3>2, <4>2, <4>3
      <4>5. call'[d].op = "none"  BY <2>2 DEF Free
      <4>6. QED  BY <4>4, <4>5
    <3>6. CASE \E h \in Slot : WorkerDies(h)  BY <3>1, <3>2, <3>6 DEF WorkerDies, Done
    <3>7. CASE Restart  BY <2>2, <3>7 DEF Restart
    <3>8. CASE Shell \/ Fork \/ Clean
      BY <3>1, <3>8 DEF Shell, Fork, Clean, CleanExpected, CleanActual, CleanRemove, CleanDone
    <3>9. QED  BY <3>3, <3>4, <3>5, <3>6, <3>7, <3>8 DEF Next
  <2>3. ASSUME <<"OLD", d>> \in actual \ actual'
        PROVE  <<"", d>> \in actual /\ <<"", d>> \in actual'
    <3>1. CASE \E c \in Caller : CallStep(c)
      <4>1. PICK c \in Caller : CallStep(c)  BY <3>1
      <4>2. CASE c = d  BY <2>3, <4>1, <4>2, TimerRestores DEF Exists
      <4>3. CASE c # d
        <5>1. call[c].db # d
          <6>1. call[d].db = d /\ d \in Caller  BY DEF IInv, Callers, Upgrading, Free, Caller
          <6>2. call[c].pc # "free"  BY <4>1, Proceeds
          <6>3. d \notin astray  BY <4>1, Apart
          <6>4. QED  BY <4>3, <6>1, <6>2, <6>3, Alone DEF IInv
        <5>2. <<"OLD", d>> \in actual' <=> <<"OLD", d>> \in actual  BY <4>1, <5>1, Apart
        <5>3. QED  BY <2>3, <5>2
      <4>4. QED  BY <4>2, <4>3
    <3>2. CASE Shell  BY <2>3, <3>2 DEF Shell
    <3>3. CASE \E e \in Db : Part2(e)
      <4>1. PICK e \in Db : Part2(e)  BY <3>3
      <4>2. <<"OLD", d>> # <<"NEW", e>>  OBVIOUS
      <4>3. QED  BY <2>3, <4>1, <4>2 DEF Part2
    <3>4. CASE UNCHANGED actual  BY <2>3, <3>4
    <3>5. QED
      BY <3>1, <3>2, <3>3, <3>4
      DEF Next, Post, Fork, Clean, CleanExpected, CleanActual, CleanRemove, CleanDone,
          WorkerDies, Restart
  <2>4. QED  BY <2>1, <2>2, <2>3
<1>2. QED  BY <1>1, Invariance, UpgradeInvariance, PTL DEF Spec, UpgradeRestores

\* A timer stops half-way only when a connection or a command fails: nothing the
\* callers do to each other makes it throw.
THEOREM UpgradeNeverStuck ==
  ASSUME ~MayFail
  PROVE  Spec => [](\A d \in Db \ astray : ~At(d, "stuck"))
<1>1. IInv /\ UInv => \A d \in Db \ astray : ~At(d, "stuck")
  <2> SUFFICES ASSUME IInv, UInv, NEW d \in Db \ astray, call[d].pc = "stuck"
               PROVE  FALSE
    BY DEF At
  <2>1. call[d].op = "upgrade"  BY DEF IInv, Callers, Upgrading, Free
  <2>2. QED  BY <2>1 DEF UInv, Phases
<1>2. QED  BY <1>1, Invariance, UpgradeInvariance, PTL

=============================================================================
