--------------------------- MODULE Install_proofs ---------------------------
(***************************************************************************)
(* Theorems about Install for any number of runs, seconds and versions:    *)
(* what is shown as OK has come to install_ok, last_ok leads to such a     *)
(* run, a run that nobody disturbed repairs the links, and a push during   *)
(* which nothing changed copies everything.                                *)
(***************************************************************************)
EXTENDS Install, TLAPS

USE InstallAssumption DEF InstallAssumption, Time, None, Version

-----------------------------------------------------------------------------
(* Type correctness *)

LEMMA StateDirType ==
  ASSUME NEW d \in StateDir
  PROVE  /\ d = [last |-> d.last, lastOk |-> d.lastOk,
                 state |-> d.state, version |-> d.version]
         /\ d.last \in Time \cup {None} /\ d.lastOk \in Time \cup {None}
         /\ d.state \in [Time -> States] /\ d.version \in [Time -> Version]
  BY DEF StateDir

\* Writing into a run directory, and replacing a link, keep the type.
LEMMA WriteState ==
  ASSUME NEW d \in StateDir, NEW t \in Time, NEW x \in States
  PROVE  [d EXCEPT !.state[t] = x] \in StateDir
  BY DEF StateDir

LEMMA WriteRecord ==
  ASSUME NEW d \in StateDir, NEW t \in Time, NEW x \in States, NEW v \in Version
  PROVE  /\ [d EXCEPT !.version[t] = v, !.state[t] = x] \in StateDir
         /\ [d EXCEPT !.state[t] = x, !.version[t] = v] \in StateDir
  BY DEF StateDir

LEMMA WriteLink ==
  ASSUME NEW d \in StateDir, NEW t \in Time \cup {None}
  PROVE  /\ [d EXCEPT !.last = t] \in StateDir
         /\ [d EXCEPT !.lastOk = t] \in StateDir
  BY DEF StateDir

LEMMA EmptyType == NoStateDir \in StateDir
  BY DEF NoStateDir, StateDir, States

LEMMA NoPushType == NoPush \in Push
  BY DEF NoPush, Push

LEMMA TypeInit == Init => TypeOK
<1>1. 1 \in Time /\ 0 \in Version
  OBVIOUS
<1> QED BY <1>1, EmptyType, NoPushType DEF Init, TypeOK, Steps

LEMMA TypeRun ==
  ASSUME TypeOK, NEW r \in Runs,
         \/ Start(r) \/ ReadTime(r) \/ Check(r) \/ MakeDir(r) \/ Record(r)
         \/ TestLink(r) \/ RemoveLink(r) \/ MakeLink(r)
         \/ BodyDone(r) \/ WriteOk(r) \/ Dies(r)
         \/ \E where \in {"script", "subshell"} : BodyFails(r, where)
  PROVE  TypeOK'
<1> USE DEF TypeOK, Keep, Go, Change
<1>1. CASE Start(r)
  BY <1>1 DEF Start, Steps
<1>2. CASE ReadTime(r)
  BY <1>2 DEF ReadTime, Steps
<1>3. CASE Check(r)
  <2>1. dir[r] # None
    BY <1>3 DEF Check
  <2> QED BY <1>3, <2>1 DEF Check, Steps
<1>4. CASE MakeDir(r)
  <2>1. dir[r] \in Time
    BY <1>4 DEF MakeDir
  <2>2. local' \in StateDir
    BY <1>4, <2>1, WriteState DEF MakeDir, States
  <2> QED BY <1>4, <2>1, <2>2 DEF MakeDir, Steps
<1>5. CASE Record(r)
  <2>1. dir[r] \in Time
    BY <1>5 DEF Record
  <2>2. local' \in StateDir
    BY <1>5, <2>1, WriteRecord DEF Record, States
  <2> QED BY <1>5, <2>1, <2>2 DEF Record, Steps
<1>6. CASE TestLink(r)
  <2>1. dir[r] # None
    BY <1>6 DEF TestLink
  <2> QED BY <1>6, <2>1 DEF TestLink, Steps
<1>7. CASE RemoveLink(r)
  <2>1. dir[r] \in Time
    BY <1>7 DEF RemoveLink
  <2>2. local' \in StateDir
    BY <1>7, <2>1, WriteState, WriteLink DEF RemoveLink, Relink, States, FailState
  <2> QED BY <1>7, <2>1, <2>2 DEF RemoveLink, Steps
<1>8. CASE MakeLink(r)
  <2>1. dir[r] \in Time
    BY <1>8 DEF MakeLink
  <2>2. local' \in StateDir
    <3>1. Relink(LinkOf(r), dir[r]) \in StateDir
      BY <2>1, WriteLink DEF Relink
    <3>2. [local EXCEPT !.state[dir[r]] = FailState] \in StateDir
      BY <2>1, WriteState DEF States, FailState
    <3> QED BY <1>8, <3>1, <3>2 DEF MakeLink
  <2>3. Target(LinkOf(r)) = None \/ <<Target(LinkOf(r)), dir[r]>> \in Time \X Time
    BY <2>1, StateDirType DEF Target
  <2>4. inside' \subseteq Time \X Time
    BY <1>8, <2>3 DEF MakeLink
  <2> QED BY <1>8, <2>1, <2>2, <2>4 DEF MakeLink, AfterLink, Steps
<1>9. CASE BodyDone(r)
  <2>1. dir[r] # None
    BY <1>9 DEF BodyDone
  <2> QED BY <1>9, <2>1 DEF BodyDone, Steps
<1>10. ASSUME NEW where \in {"script", "subshell"}, BodyFails(r, where) PROVE TypeOK'
  <2>1. dir[r] \in Time
    BY <1>10 DEF BodyFails
  <2>2. local' \in StateDir
    BY <1>10, <2>1, WriteState DEF BodyFails, States, FailState
  <2> QED BY <1>10, <2>1, <2>2 DEF BodyFails, AfterError, Steps
<1>11. CASE WriteOk(r)
  <2>1. dir[r] \in Time
    BY <1>11 DEF WriteOk
  <2>2. local' \in StateDir
    BY <1>11, <2>1, WriteState DEF WriteOk, States
  <2> QED BY <1>11, <2>1, <2>2 DEF WriteOk, Steps
<1>12. CASE Dies(r)
  BY <1>12 DEF Dies, Steps
<1> QED BY <1>1, <1>2, <1>3, <1>4, <1>5, <1>6, <1>7, <1>8, <1>9, <1>10, <1>11, <1>12

LEMMA TypeNext == TypeOK /\ [Next]_vars => TypeOK'
<1> SUFFICES ASSUME TypeOK, [Next]_vars PROVE TypeOK'
  OBVIOUS
<1> USE DEF TypeOK, runs, history
<1>1. CASE CleanLast
  <2>1. local' \in StateDir
    BY <1>1, WriteLink DEF CleanLast, Change
  <2> QED BY <1>1, <2>1 DEF CleanLast, Keep, Change
<1>2. CASE CleanLastOk
  <2>1. local' \in StateDir
    BY <1>2, WriteLink DEF CleanLastOk, Change
  <2> QED BY <1>2, <2>1 DEF CleanLastOk, Keep, Change
<1>3. CASE PushBegin
  <2>1. push' \in Push
    BY <1>3 DEF PushBegin, Push
  <2> QED BY <1>3, <2>1, EmptyType DEF PushBegin, EmptyCopy
<1>4. CASE PushEnd \/ PushBreaks
  BY <1>4, NoPushType DEF PushEnd, PushBreaks
<1>5. ASSUME NEW link \in Links, PushLink(link) PROVE TypeOK'
  <2>1. server' \in StateDir
    BY <1>5, WriteLink, StateDirType DEF PushLink
  <2>2. push' \in Push
    BY <1>5 DEF PushLink, Push
  <2> QED BY <1>5, <2>1, <2>2 DEF PushLink
<1>6. ASSUME NEW t \in Time, PushDir(t) PROVE TypeOK'
  <2>1. server' \in StateDir
    <3>1. local.state[t] \in States /\ local.version[t] \in Version
      BY StateDirType
    <3>2. [server EXCEPT !.state[t] = local.state[t], !.version[t] = local.version[t]]
            \in StateDir
      BY <3>1, WriteRecord
    <3> QED BY <1>6, <3>2 DEF PushDir
  <2>2. push' \in Push
    BY <1>6 DEF PushDir, Push
  <2> QED BY <1>6, <2>1, <2>2 DEF PushDir
<1>7. CASE Second \/ Upgrade
  BY <1>7 DEF Second, Upgrade
<1>8. CASE UNCHANGED vars
  BY <1>8 DEF vars
<1> QED BY <1>1, <1>2, <1>3, <1>4, <1>5, <1>6, <1>7, <1>8, TypeRun DEF Next

\* Every variable keeps its type: in particular the scripts and the inspector
\* know the same states.
THEOREM TypeCorrect == Spec => []TypeOK
  BY TypeInit, TypeNext, PTL DEF Spec

-----------------------------------------------------------------------------
(* The invariant: who may have written what a state directory says *)

\* The runs that have read their second.
Begun == {r \in Runs : dir[r] # None}

Recorded(t) == local.state[t] \notin {"none", "made"}

\* Where a run is before install_ok whatever happened, and where it has a record.
Early == {"idle", "load", "check", "mkdir", "record", "body"}
Late  == {"test", "rm", "ln", "body", "ok", "done"}

\* What a run has done by the time it is at a command.
Order == /\ completed \subseteq Begun
         /\ \A r \in completed : pc[r] \notin Early
         /\ \A r \in failed : pc[r] = "over" /\ r \notin completed
         /\ \A r \in Runs : pc[r] \in {"ok", "done"} => r \in completed
         /\ \A r \in Runs : pc[r] \in Late => Recorded(dir[r])

\* A recorded version is that of a run of that second.
Versions == \A t \in Time : IF Recorded(t)
                            THEN \E p \in Begun : dir[p] = t /\ ver[p] = local.version[t]
                            ELSE local.version[t] = 0

\* Where it says ok, and where last_ok leads to, a run has come to install_ok.  The
\* version may be that of another run of the same second.
Honest(d) == /\ \A t \in Time : d.state[t] = "ok" =>
                  /\ \E r \in completed : dir[r] = t
                  /\ \E p \in Begun : dir[p] = t /\ ver[p] = d.version[t]
             /\ d.lastOk # None => \E r \in completed : dir[r] = d.lastOk

\* The part of a fresh copy that a push is done with is exact, the rest empty.
Copied == /\ ~push.on => push.links = {} /\ push.dirs = {}
          /\ fresh => /\ server.last = IF "last" \in push.links THEN None ELSE local.last
                      /\ server.lastOk = IF "lastOk" \in push.links THEN None
                                         ELSE local.lastOk
                      /\ \A t \in Time :
                           /\ server.state[t] = IF t \in push.dirs THEN "none"
                                                ELSE local.state[t]
                           /\ server.version[t] = IF t \in push.dirs THEN 0
                                                  ELSE local.version[t]

IInv == TypeOK /\ Order /\ Versions /\ Honest(local) /\ Honest(server) /\ Copied

\* A run before it has its directory, and a step of it after that.
Enter(r) == Start(r) \/ ReadTime(r)

Fails(r) == \E where \in {"script", "subshell"} : BodyFails(r, where)

Step(r) == \/ Check(r) \/ MakeDir(r) \/ Record(r)
           \/ TestLink(r) \/ RemoveLink(r) \/ MakeLink(r)
           \/ BodyDone(r) \/ Fails(r) \/ WriteOk(r) \/ Dies(r)

\* What the beginning of a run leaves alone: everything that has begun.
LEMMA EnterFrame ==
  ASSUME TypeOK, NEW r \in Runs, Enter(r)
  PROVE  /\ r \notin Begun /\ Begun \subseteq Begun'
         /\ \A p \in Begun : dir'[p] = dir[p] /\ ver'[p] = ver[p]
         /\ pc[r] \in Early /\ pc'[r] \in {"load", "check"}
         /\ \A p \in Runs : p # r => pc'[p] = pc[p]
         /\ UNCHANGED <<local, server, push, inside, cleaning, completed, failed, fresh>>
<1>1. pc[r] \in {"idle", "load"} /\ dir[r] = None
  <2>1. pc[r] \in {"idle", "load"}
    BY DEF Enter, Start, ReadTime, Go
  <2> QED BY <2>1 DEF TypeOK
<1>2. /\ pc'[r] \in {"load", "check"}
      /\ \A p \in Runs : p # r => pc'[p] = pc[p] /\ dir'[p] = dir[p] /\ ver'[p] = ver[p]
  BY DEF Enter, Start, ReadTime, Go, Keep, TypeOK
<1>3. UNCHANGED <<local, server, push, inside, cleaning, completed, failed, fresh>>
  BY DEF Enter, Start, ReadTime, Keep
<1> QED BY <1>1, <1>2, <1>3 DEF Begun, Early

\* What no step of a run changes.
LEMMA StepFrame ==
  ASSUME TypeOK, NEW r \in Runs, Step(r)
  PROVE  /\ Begun' = Begun
         /\ \A p \in Runs : p # r => pc'[p] = pc[p]
         /\ UNCHANGED <<now, current, dir, ver, server, push>>
         /\ completed \subseteq completed'
<1> USE DEF Step, Fails, Check, MakeDir, Record, TestLink, RemoveLink, MakeLink, BodyDone,
        BodyFails, WriteOk, Dies
<1>1. UNCHANGED <<now, current, dir, ver, server, push>>
  BY DEF Keep
<1>2. completed \subseteq completed'
  BY DEF Keep
<1>3. \A p \in Runs : p # r => pc'[p] = pc[p]
  BY DEF Go, TypeOK
<1> QED BY <1>1, <1>2, <1>3 DEF Begun

\* Every other step leaves the runs alone.
Other == \/ CleanLast \/ CleanLastOk \/ PushBegin \/ PushEnd \/ PushBreaks
         \/ \E link \in Links : PushLink(link)
         \/ \E t \in Time : PushDir(t)
         \/ Second \/ Upgrade
         \/ UNCHANGED vars

LEMMA OtherFrame ==
  ASSUME Other
  PROVE  UNCHANGED <<pc, dir, ver, completed, failed>>
  BY DEF Other, CleanLast, CleanLastOk, PushBegin, PushEnd, PushBreaks, PushLink, PushDir,
         Second, Upgrade, Keep, runs, history, vars

LEMMA NextCases ==
  ASSUME [Next]_vars
  PROVE  \/ \E r \in Runs : Enter(r) \/ Step(r)
         \/ Other
  BY DEF Next, Enter, Step, Fails, Other

-----------------------------------------------------------------------------
(* What a step writes into the local run directories *)

\* A command that writes is one of a run that has a directory.
LEMMA HasDir ==
  ASSUME TypeOK, NEW r \in Runs, pc[r] \in Early \cup Late, pc[r] \notin {"idle", "load"}
  PROVE  dir[r] \in Time
  BY DEF TypeOK, Early, Late

\* What the commands of reln and their err leave.
LEMMA LinkWrites ==
  ASSUME TypeOK, NEW r \in Runs, MakeLink(r) \/ RemoveLink(r)
  PROVE  /\ \/ local'.state = local.state
            \/ local'.state = [local.state EXCEPT ![dir[r]] = "faild"]
         /\ local'.version = local.version
         /\ \/ local'.lastOk \in {None, local.lastOk}
            \/ r \in completed /\ local'.lastOk = dir[r]
<1>1. dir[r] \in Time /\ local \in StateDir
  BY HasDir DEF TypeOK, MakeLink, RemoveLink, Go, Late
<1>2. ASSUME NEW t \in {None, dir[r]}, local' = Relink(LinkOf(r), t)
      PROVE  /\ local'.state = local.state /\ local'.version = local.version
             /\ local'.lastOk = local.lastOk \/ (r \in completed /\ local'.lastOk = t)
  BY <1>1, <1>2, StateDirType DEF Relink, LinkOf
<1>3. ASSUME local' = [local EXCEPT !.state[dir[r]] = FailState]
      PROVE  /\ local'.state = [local.state EXCEPT ![dir[r]] = "faild"]
             /\ local'.version = local.version /\ local'.lastOk = local.lastOk
  BY <1>1, <1>3, StateDirType DEF FailState
<1>4. \/ local' = Relink(LinkOf(r), dir[r])
      \/ local' = Relink(LinkOf(r), None)
      \/ local' = local
      \/ local' = [local EXCEPT !.state[dir[r]] = FailState]
  BY DEF MakeLink, RemoveLink, Change
<1>5. CASE local' = Relink(LinkOf(r), dir[r])
  BY <1>2, <1>5
<1>6. CASE local' = Relink(LinkOf(r), None)
  BY <1>2, <1>6
<1> QED BY <1>3, <1>4, <1>5, <1>6

\* Only the step of a run writes there, into its own directory, and never takes
\* back that it is recorded.  The version is written with the record, and by
\* nothing else, and ok by a run that has come to install_ok.
LEMMA StepWrites ==
  ASSUME TypeOK, Order, NEW r \in Runs, Step(r)
  PROVE  \/ /\ local'.state = local.state /\ local'.version = local.version
            /\ \/ local'.lastOk \in {None, local.lastOk}
               \/ r \in completed /\ local'.lastOk = dir[r]
         \/ /\ dir[r] \in Time
            /\ \A t \in Time : t # dir[r] => /\ local'.state[t] = local.state[t]
                                             /\ local'.version[t] = local.version[t]
            /\ Recorded(dir[r]) => Recorded(dir[r])'
            /\ \/ local'.version[dir[r]] = ver[r] /\ Recorded(dir[r])'
               \/ /\ local'.version[dir[r]] = local.version[dir[r]]
                  /\ Recorded(dir[r])' <=> Recorded(dir[r])
            /\ local'.state[dir[r]] = "ok" => r \in completed
            /\ local'.lastOk = local.lastOk
<1> USE DEF TypeOK, Change, Go, Keep
<1>1. dir' = dir
  BY StepFrame
<1>2. CASE Check(r) \/ TestLink(r) \/ BodyDone(r) \/ Dies(r)
  BY <1>2 DEF Check, TestLink, BodyDone, Dies
<1>3. CASE MakeDir(r)
  <2>1. dir[r] \in Time
    BY <1>3, HasDir DEF MakeDir, Early
  <2>2. CASE local.state[dir[r]] = "none"
    BY <1>1, <1>3, <2>1, <2>2, StateDirType DEF MakeDir, Recorded
  <2>3. CASE local.state[dir[r]] # "none"
    BY <1>3, <2>3 DEF MakeDir
  <2> QED BY <2>2, <2>3
<1>4. CASE Record(r)
  <2>1. dir[r] \in Time
    BY <1>4, HasDir DEF Record, Early
  <2> QED BY <1>1, <1>4, <2>1, StateDirType DEF Record, Recorded
<1>5. CASE RemoveLink(r) \/ MakeLink(r)
  <2>1. dir[r] \in Time /\ Recorded(dir[r])
    BY <1>5, HasDir DEF RemoveLink, MakeLink, Late, Order
  <2>2. \/ local' = [local EXCEPT !.state[dir[r]] = FailState]
        \/ local' = local
        \/ \E t \in {None, dir[r]} : local' = Relink(LinkOf(r), t)
    BY <1>5 DEF RemoveLink, MakeLink
  <2>3. CASE local' = [local EXCEPT !.state[dir[r]] = FailState]
    BY <1>1, <2>1, <2>3, StateDirType DEF FailState, Recorded
  <2>4. CASE local'.state = local.state
    BY <1>5, <2>4, LinkWrites
  <2>5. ASSUME NEW t \in {None, dir[r]}, local' = Relink(LinkOf(r), t)
        PROVE  local'.state = local.state
    BY <2>5, StateDirType DEF Relink
  <2> QED BY <2>2, <2>3, <2>4, <2>5
<1>6. CASE Fails(r)
  <2>1. dir[r] \in Time /\ Recorded(dir[r])
    BY <1>6, HasDir DEF Fails, BodyFails, Late, Order
  <2> QED BY <1>1, <1>6, <2>1, StateDirType DEF Fails, BodyFails, FailState, Recorded
<1>7. CASE WriteOk(r)
  <2>1. dir[r] \in Time /\ Recorded(dir[r]) /\ r \in completed
    BY <1>7, HasDir DEF WriteOk, Late, Order
  <2> QED BY <1>1, <1>7, <2>1, StateDirType DEF WriteOk, Recorded
<1> QED BY <1>2, <1>3, <1>4, <1>5, <1>6, <1>7 DEF Step

\* No other step writes into a run directory; they only take the links away.
LEMMA OtherWrites ==
  ASSUME TypeOK, Other
  PROVE  /\ local'.state = local.state /\ local'.version = local.version
         /\ local'.lastOk \in {None, local.lastOk}
  BY StateDirType DEF Other, CleanLast, CleanLastOk, PushBegin, PushEnd, PushBreaks,
     PushLink, PushDir, Second, Upgrade, Keep, Change, vars, TypeOK

LEMMA OrderNext ==
  ASSUME TypeOK, Order, [Next]_vars
  PROVE  Order'
<1>1. ASSUME NEW r \in Runs, Enter(r) PROVE Order'
  <2>1. r \notin completed /\ r \notin failed
    BY <1>1, EnterFrame DEF Order, Early
  <2>2. \A p \in Runs : pc[p] \in Late => dir'[p] = dir[p] /\ p # r
    BY <1>1, EnterFrame, HasDir DEF Late, Early, Begun
  <2>3. \A p \in Runs : pc'[p] \in Late => Recorded(dir[p])'
    BY <1>1, <2>2, EnterFrame DEF Order, Recorded, Late
  <2>4. \A p \in completed' : p \in Begun' /\ pc'[p] \notin Early
    BY <1>1, <2>1, EnterFrame DEF Order, Begun, TypeOK
  <2>5. \A p \in failed' : pc'[p] = "over" /\ p \notin completed'
    BY <1>1, <2>1, EnterFrame DEF Order, TypeOK
  <2>6. \A p \in Runs : pc'[p] \in {"ok", "done"} => p \in completed'
    BY <1>1, EnterFrame DEF Order
  <2> QED BY <2>3, <2>4, <2>5, <2>6 DEF Order
<1>2. ASSUME NEW r \in Runs, Step(r) PROVE Order'
  <2>1. Begun' = Begun /\ dir' = dir /\ \A p \in Runs : p # r => pc'[p] = pc[p]
    BY <1>2, StepFrame
  <2>2. \A t \in Time : Recorded(t) => Recorded(t)'
    BY <1>2, <2>1, StepWrites DEF Recorded
  <2> USE DEF Step, Fails, Check, MakeDir, Record, TestLink, RemoveLink, MakeLink, AfterLink,
       BodyDone, BodyFails, AfterError, WriteOk, Dies, Go, Keep, TypeOK
  <2>3. /\ r \in Active
        /\ pc'[r] \in {"ok", "done"} => r \in completed'
        /\ completed' \subseteq completed \cup {r} /\ failed' \subseteq failed \cup {r}
    BY <1>2 DEF Active
  <2>4. r \notin failed
    <3> HIDE DEF Step, Fails, Check, MakeDir, Record, TestLink, RemoveLink, MakeLink, AfterLink,
         BodyDone, BodyFails, AfterError, WriteOk, Dies, Go, Keep, TypeOK
    <3> QED BY <2>3 DEF Order, Active
  <2>5. r \in completed' => pc'[r] \notin Early /\ r \in Begun
    <3>1. CASE BodyDone(r)
      BY <3>1, HasDir DEF Early, Late, Begun
    <3>2. CASE ~BodyDone(r)
      <4>1. completed' = completed
        BY <1>2, <3>2
      <4>2. r \in completed => pc[r] \notin Early
        BY DEF Order
      <4>3. r \in completed => pc'[r] \notin Early
        BY <1>2, <3>2, <4>2 DEF Early
      <4> QED BY <4>1, <4>3 DEF Order
    <3> QED BY <3>1, <3>2
  <2>6. r \in failed' => pc'[r] = "over" /\ r \notin completed'
    <3>1. CASE \E where \in {"script", "subshell"} : BodyFails(r, where)
      <4>1. r \notin completed /\ completed' = completed
        BY <3>1 DEF Order, Early
      <4> QED BY <2>4, <3>1, <4>1
    <3>2. CASE ~\E where \in {"script", "subshell"} : BodyFails(r, where)
      BY <1>2, <2>4, <3>2
    <3> QED BY <3>1, <3>2
  <2>7. pc'[r] \in Late => Recorded(dir[r])'
    <3>1. CASE Record(r)
      <4>1. /\ local' = [local EXCEPT !.version[dir[r]] = ver[r],
                                      !.state[dir[r]] = "installing"]
            /\ dir' = dir /\ dir[r] \in Time
        BY <3>1, HasDir DEF Change, Early
      <4> QED BY <4>1, StateDirType DEF Recorded
    <3>2. CASE ~Record(r)
      <4>1. pc[r] \in Late \/ pc'[r] \notin Late
        BY <1>2, <3>2 DEF Late
      <4>2. pc[r] \in Late => dir[r] \in Time /\ Recorded(dir[r])
        BY HasDir DEF Order, Late
      <4> QED BY <2>1, <2>2, <4>1, <4>2 DEF Recorded
    <3> QED BY <3>1, <3>2
  <2>8. \A p \in Runs : p # r => /\ p \in completed' => p \in completed
                                 /\ p \in failed' => p \in failed
    BY <2>3
  <2>9. \A p \in Runs : pc'[p] \in Late => Recorded(dir[p])'
    <3>1. ASSUME NEW p \in Runs, p # r, pc'[p] \in Late PROVE Recorded(dir[p])'
      <4>1. dir[p] \in Time /\ Recorded(dir[p])
        BY <2>1, <3>1, HasDir DEF Order, Late
      <4> QED BY <2>1, <2>2, <4>1 DEF Recorded
    <3> QED BY <2>7, <3>1
  <2>10. \A p \in completed' : p \in Begun /\ pc'[p] \notin Early
    BY <2>1, <2>3, <2>5, <2>8 DEF Order
  <2>11. \A p \in failed' : pc'[p] = "over" /\ p \notin completed'
    BY <2>1, <2>3, <2>6, <2>8 DEF Order
  <2>12. \A p \in Runs : pc'[p] \in {"ok", "done"} => p \in completed'
    BY <1>2, <2>1, <2>3, StepFrame DEF Order
  <2> HIDE DEF Step, Fails, Check, MakeDir, Record, TestLink, RemoveLink, MakeLink, AfterLink,
       BodyDone, BodyFails, AfterError, WriteOk, Dies, Go, Keep, TypeOK
  <2> QED BY <2>1, <2>9, <2>10, <2>11, <2>12 DEF Order
<1>3. CASE Other
  BY <1>3, OtherFrame, OtherWrites DEF Order, Begun, Recorded
<1> QED BY <1>1, <1>2, <1>3, NextCases

LEMMA VersionsNext ==
  ASSUME TypeOK, Order, Versions, [Next]_vars
  PROVE  Versions'
<1>1. ASSUME NEW r \in Runs, Enter(r) PROVE Versions'
  BY <1>1, EnterFrame DEF Versions, Recorded
<1>2. ASSUME NEW r \in Runs, Step(r) PROVE Versions'
  <2>1. Begun' = Begun /\ UNCHANGED <<dir, ver>>
    BY <1>2, StepFrame
  <2>2. CASE local'.state = local.state /\ local'.version = local.version
    BY <2>1, <2>2 DEF Versions, Recorded
  <2>3. CASE /\ dir[r] \in Time
             /\ \A t \in Time : t # dir[r] => /\ local'.state[t] = local.state[t]
                                              /\ local'.version[t] = local.version[t]
             /\ \/ local'.version[dir[r]] = ver[r] /\ Recorded(dir[r])'
                \/ /\ local'.version[dir[r]] = local.version[dir[r]]
                   /\ Recorded(dir[r])' <=> Recorded(dir[r])
    <3>1. r \in Begun
      BY <2>3 DEF Begun
    <3>2. ASSUME NEW t \in Time, t # dir[r]
          PROVE  IF Recorded(t)' THEN \E p \in Begun : dir[p] = t /\ ver[p] = local'.version[t]
                 ELSE local'.version[t] = 0
      BY <2>3, <3>2 DEF Versions, Recorded
    <3>3. IF Recorded(dir[r])'
          THEN \E p \in Begun : dir[p] = dir[r] /\ ver[p] = local'.version[dir[r]]
          ELSE local'.version[dir[r]] = 0
      BY <2>3, <3>1 DEF Versions
    <3> QED BY <2>1, <3>2, <3>3 DEF Versions, Recorded
  <2> QED BY <1>2, <2>2, <2>3, StepWrites
<1>3. CASE Other
  BY <1>3, OtherFrame, OtherWrites DEF Versions, Begun, Recorded
<1> QED BY <1>1, <1>2, <1>3, NextCases

LEMMA HonestNext ==
  ASSUME TypeOK, Order, Honest(local), [Next]_vars, Order', Versions'
  PROVE  Honest(local)'
<1>1. completed \subseteq Begun
  BY DEF Order
<1>2. ASSUME NEW r \in Runs, Enter(r) PROVE Honest(local)'
  BY <1>1, <1>2, EnterFrame DEF Honest
<1>3. ASSUME NEW r \in Runs, Step(r) PROVE Honest(local)'
  <2>1. UNCHANGED <<dir, ver>> /\ completed \subseteq completed' /\ Begun' = Begun
    BY <1>3, StepFrame
  <2>2. CASE /\ local'.state = local.state /\ local'.version = local.version
             /\ \/ local'.lastOk \in {None, local.lastOk}
                \/ r \in completed /\ local'.lastOk = dir[r]
    BY <2>1, <2>2 DEF Honest
  <2>3. CASE /\ dir[r] \in Time
             /\ \A t \in Time : t # dir[r] => /\ local'.state[t] = local.state[t]
                                              /\ local'.version[t] = local.version[t]
             /\ local'.state[dir[r]] = "ok" => r \in completed
             /\ local'.lastOk = local.lastOk
    <3>1. ASSUME NEW t \in Time, t # dir[r], local'.state[t] = "ok"
          PROVE  /\ \E q \in completed' : dir'[q] = t
                 /\ \E p \in Begun' : dir'[p] = t /\ ver'[p] = local'.version[t]
      BY <2>1, <2>3, <3>1 DEF Honest
    <3>2. ASSUME local'.state[dir[r]] = "ok"
          PROVE  /\ r \in completed'
                 /\ \E p \in Begun' : dir'[p] = dir[r] /\ ver'[p] = local'.version[dir[r]]
      <4>1. Recorded(dir[r])'
        BY <2>1, <3>2 DEF Recorded
      <4> QED BY <2>1, <2>3, <3>2, <4>1 DEF Versions
    <3>3. local'.lastOk # None => \E q \in completed' : dir'[q] = local'.lastOk
      BY <2>1, <2>3 DEF Honest
    <3> QED BY <2>1, <3>1, <3>2, <3>3 DEF Honest
  <2> QED BY <1>3, <2>2, <2>3, StepWrites
<1>4. CASE Other
  BY <1>4, OtherFrame, OtherWrites DEF Honest, Begun
<1> QED BY <1>2, <1>3, <1>4, NextCases

-----------------------------------------------------------------------------
(* The copy on the server *)

\* What a copy has is honest as soon as every part of it is.
LEMMA HonestServerNext ==
  ASSUME TypeOK, Order, Honest(local), Honest(server), [Next]_vars
  PROVE  Honest(server)'
<1>1. /\ completed \subseteq completed' /\ Begun \subseteq Begun'
      /\ \A p \in Begun : dir'[p] = dir[p] /\ ver'[p] = ver[p]
  BY EnterFrame, StepFrame, OtherFrame, NextCases DEF Begun
<1> completed \subseteq Begun
  BY DEF Order
<1>2. CASE server' = server
  BY <1>1, <1>2 DEF Honest
<1>3. CASE PushBegin
  BY <1>3 DEF PushBegin, EmptyCopy, NoStateDir, Honest
<1>4. ASSUME NEW link \in Links, PushLink(link) PROVE Honest(server)'
  <2>1. /\ server'.state = server.state /\ server'.version = server.version
        /\ server'.lastOk \in {server.lastOk, local.lastOk}
    BY <1>4, StateDirType DEF PushLink, TypeOK
  <2> QED BY <1>1, <2>1 DEF Honest
<1>5. ASSUME NEW t \in Time, PushDir(t) PROVE Honest(server)'
  <2>1. server'.lastOk = server.lastOk
    BY <1>5, StateDirType DEF PushDir, TypeOK
  <2>2. \A u \in Time :
          \/ server'.state[u] = server.state[u] /\ server'.version[u] = server.version[u]
          \/ server'.state[u] = local.state[u] /\ server'.version[u] = local.version[u]
    BY <1>5, StateDirType DEF PushDir, TypeOK
  <2> QED BY <1>1, <2>1, <2>2 DEF Honest
<1>6. Other => \/ server' = server \/ PushBegin
               \/ \E link \in Links : PushLink(link)
               \/ \E t \in Time : PushDir(t)
  BY DEF Other, CleanLast, CleanLastOk, PushEnd, PushBreaks, Second, Upgrade, Keep, vars
<1> QED BY <1>2, <1>3, <1>4, <1>5, <1>6, EnterFrame, StepFrame, NextCases

\* A step that changes the state directory makes a copy stale.
LEMMA FreshStep ==
  ASSUME NEW r \in Runs, Step(r)
  PROVE  /\ UNCHANGED <<server, push>>
         /\ Change(local') \/ UNCHANGED <<local, fresh>>
  BY DEF Step, Fails, Check, MakeDir, Record, TestLink, RemoveLink, MakeLink, BodyDone,
         BodyFails, WriteOk, Dies, Keep, Change

LEMMA CopiedNext ==
  ASSUME TypeOK, Versions, Copied, [Next]_vars
  PROVE  Copied'
<1>1. CASE UNCHANGED <<server, push>> /\ Change(local')
  BY <1>1 DEF Copied, Change
<1>2. CASE UNCHANGED <<server, push, local, fresh>>
  BY <1>2 DEF Copied
<1>3. CASE PushBegin
  BY <1>3 DEF PushBegin, EmptyCopy, NoStateDir, Links, Copied
<1>4. CASE PushEnd
  BY <1>4 DEF PushEnd, NoPush, history, Copied
<1>5. CASE PushBreaks
  BY <1>5 DEF PushBreaks, NoPush, Copied
<1>6. ASSUME NEW link \in Links, PushLink(link) PROVE Copied'
  <2>1. /\ UNCHANGED <<local, fresh>>
        /\ push'.links = push.links \ {link} /\ push'.dirs = push.dirs /\ push'.on = push.on
    BY <1>6 DEF PushLink, history, TypeOK, Push
  <2>2. server'.state = server.state /\ server'.version = server.version
    BY <1>6, StateDirType DEF PushLink, TypeOK
  <2>3. CASE link = "last"
    <3>1. server'.lastOk = server.lastOk
          /\ server'.last = IF local.last = None THEN server.last ELSE local.last
      BY <1>6, <2>3, StateDirType DEF PushLink, Target, TypeOK
    <3> QED BY <1>6, <2>1, <2>2, <2>3, <3>1 DEF PushLink, Copied
  <2>4. CASE link = "lastOk"
    <3>1. server'.last = server.last
          /\ server'.lastOk = IF local.lastOk = None THEN server.lastOk ELSE local.lastOk
      BY <1>6, <2>4, StateDirType DEF PushLink, Target, TypeOK
    <3> QED BY <1>6, <2>1, <2>2, <2>4, <3>1 DEF PushLink, Copied
  <2> QED BY <1>6, <2>3, <2>4 DEF Links
<1>7. ASSUME NEW t \in Time, PushDir(t) PROVE Copied'
  <2>1. /\ UNCHANGED <<local, fresh>> /\ t \in push.dirs
        /\ push'.dirs = push.dirs \ {t} /\ push'.links = push.links /\ push'.on = push.on
    BY <1>7 DEF PushDir, history, TypeOK, Push
  <2>2. server'.last = server.last /\ server'.lastOk = server.lastOk
    BY <1>7, StateDirType DEF PushDir, TypeOK
  <2>3. \A u \in Time : u # t => /\ server'.state[u] = server.state[u]
                                 /\ server'.version[u] = server.version[u]
    BY <1>7, StateDirType DEF PushDir, TypeOK
  <2>4. local.state[t] = "none" => local.version[t] = 0
    BY DEF Versions, Recorded
  <2>5. IF local.state[t] = "none"
        THEN server'.state[t] = server.state[t] /\ server'.version[t] = server.version[t]
        ELSE server'.state[t] = local.state[t] /\ server'.version[t] = local.version[t]
    BY <1>7, StateDirType DEF PushDir, TypeOK
  <2> QED BY <2>1, <2>2, <2>3, <2>4, <2>5 DEF Copied
<1>8. ASSUME NEW r \in Runs, Enter(r) \/ Step(r) PROVE Copied'
  <2>1. /\ UNCHANGED <<server, push>>
        /\ Change(local') \/ UNCHANGED <<local, fresh>>
    BY <1>8, FreshStep, EnterFrame
  <2> QED BY <2>1, <1>1, <1>2
<1>9. CASE CleanLast \/ CleanLastOk
  BY <1>1, <1>9 DEF CleanLast, CleanLastOk, Keep, Change
<1>10. CASE Second \/ Upgrade \/ UNCHANGED vars
  BY <1>2, <1>10 DEF Second, Upgrade, history, vars
<1> QED BY <1>3, <1>4, <1>5, <1>6, <1>7, <1>8, <1>9, <1>10, NextCases DEF Other

-----------------------------------------------------------------------------
(* A run that nobody disturbs *)

\* What is so at each command of the latest run, as long as the links are its own.
Undisturbed(r) ==
  /\ Active \subseteq {r} /\ ~cleaning
  /\ pc[r] = "rm" => HasLink(LinkOf(r))
  /\ pc[r] = "ln" => ~HasLink(LinkOf(r))
  /\ pc[r] = "body" \/ (r \in completed /\ pc[r] # "over") => local.last = dir[r]
  /\ pc[r] \in {"test", "rm", "ln", "done"} /\ r \in completed =>
       local.state[dir[r]] = "ok"
  /\ pc[r] = "done" => local.lastOk = dir[r]

Healing == \A r \in alone : Undisturbed(r)

\* A start makes the run the undisturbed one, or disturbs.
LEMMA EnterHeals ==
  ASSUME TypeOK, Order, Healing, NEW r \in Runs, Enter(r)
  PROVE  Healing'
<1>1. /\ pc[r] \in {"idle", "load"} /\ pc'[r] \in {"load", "check"}
      /\ \A q \in Runs : q # r => pc'[q] = pc[q]
      /\ r \notin completed /\ UNCHANGED <<completed, cleaning>>
  BY EnterFrame DEF Order, Enter, Start, ReadTime, Go
<1>2. ASSUME alone' = {r}, ~cleaning, Active \subseteq {r} PROVE Healing'
  <2>1. Active' \subseteq {r}
    BY <1>1, <1>2 DEF Active
  <2> QED BY <1>1, <1>2, <2>1 DEF Healing, Undisturbed
<1>3. CASE alone' = {}
  BY <1>3 DEF Healing
<1>4. CASE Start(r)
  BY <1>2, <1>3, <1>4 DEF Start, Keep
<1>5. CASE ReadTime(r)
  <2>1. r \in Active /\ alone' = alone
    BY <1>5 DEF ReadTime, Go, Keep, Active
  <2>2. alone = {} \/ (alone = {r} /\ ~cleaning /\ Active \subseteq {r})
    BY <2>1 DEF Healing, Undisturbed
  <2> QED BY <1>2, <1>3, <2>1, <2>2
<1> QED BY <1>4, <1>5 DEF Enter

\* What the links lead to after reln has written one of them.
LEMMA Relinked ==
  ASSUME TypeOK, NEW t \in Time \cup {None}
  PROVE  /\ local' = Relink("last", t) => local'.last = t /\ local'.state = local.state
         /\ local' = Relink("lastOk", t) =>
              /\ local'.lastOk = t
              /\ local'.last = local.last /\ local'.state = local.state
  BY StateDirType DEF TypeOK, Relink

\* The undisturbed run takes a step.
LEMMA StepHeals ==
  ASSUME TypeOK, Order, Healing, NEW r \in Runs, Step(r)
  PROVE  Healing'
<1>1. alone' = alone /\ cleaning' = cleaning /\ dir' = dir /\ local \in StateDir
  BY StepFrame DEF Step, Fails, Check, MakeDir, Record, TestLink, RemoveLink, MakeLink,
     BodyDone, BodyFails, WriteOk, Dies, Keep, TypeOK
<1>2. r \in Active
  BY DEF Step, Fails, Check, MakeDir, Record, TestLink, RemoveLink, MakeLink, BodyDone,
         BodyFails, WriteOk, Dies, Go, Active
<1>3. SUFFICES ASSUME r \in alone PROVE Undisturbed(r)'
  <2>1. \A q \in alone : q = r
    BY <1>2 DEF Healing, Undisturbed
  <2> QED BY <1>1, <1>3, <2>1 DEF Healing
<1>4. Undisturbed(r)
  BY <1>3 DEF Healing
<1>5. Active' \subseteq {r} /\ ~cleaning'
  <2>1. \A q \in Runs : q # r => pc'[q] = pc[q]
    BY StepFrame
  <2> QED BY <1>1, <1>4, <2>1 DEF Active, Undisturbed
<1>6. LinkOf(r) = (IF r \in completed THEN "lastOk" ELSE "last") /\ LinkOf(r) \in Links
  BY DEF LinkOf, Links
<1> USE DEF TypeOK, Go, Keep, Change
<1>7. CASE Check(r) \/ MakeDir(r) \/ Record(r)
  <2>1. /\ r \notin completed /\ completed' = completed
        /\ pc'[r] \in {"mkdir", "over", "record", "test"}
    BY <1>7 DEF Check, MakeDir, Record, Order, Early
  <2> QED BY <1>5, <2>1 DEF Undisturbed
<1>8. CASE TestLink(r)
  <2>1. /\ UNCHANGED <<completed, local, dir>>
        /\ pc[r] = "test" /\ pc'[r] = IF HasLink(LinkOf(r)) THEN "rm" ELSE "ln"
    BY <1>8 DEF TestLink
  <2>2. HasLink(LinkOf(r))' = HasLink(LinkOf(r))
    BY <2>1 DEF HasLink, Target, LinkOf
  <2>3. LinkOf(r)' = LinkOf(r)
    BY <2>1 DEF LinkOf
  <2>4. pc'[r] = "rm" => HasLink(LinkOf(r))'
    BY <2>1, <2>2
  <2>5. pc'[r] = "ln" => ~HasLink(LinkOf(r))'
    BY <2>1, <2>2
  <2> QED BY <1>4, <1>5, <2>1, <2>4, <2>5 DEF Undisturbed
<1>9. CASE RemoveLink(r)
  <2>1. /\ UNCHANGED <<completed, dir>> /\ pc[r] = "rm" /\ pc'[r] = "ln"
        /\ local' = Relink(LinkOf(r), None) /\ dir[r] \in Time
    BY <1>4, <1>9, HasDir DEF RemoveLink, Undisturbed, HasLink, Late
  <2>2. /\ IF r \in completed THEN local'.lastOk = None /\ local'.last = local.last
                              ELSE local'.last = None
        /\ local'.state = local.state
    BY <1>6, <2>1, Relinked
  <2>3. ~HasLink(LinkOf(r))'
    BY <2>1, <2>2 DEF HasLink, Target, LinkOf
  <2> QED BY <1>4, <1>5, <2>1, <2>2, <2>3 DEF Undisturbed
<1>10. CASE MakeLink(r)
  <2>1. /\ UNCHANGED <<completed, dir>> /\ pc[r] = "ln" /\ pc'[r] = AfterLink(r)
        /\ local' = Relink(LinkOf(r), dir[r]) /\ dir[r] \in Time
    BY <1>4, <1>10, HasDir DEF MakeLink, Undisturbed, HasLink, Late
  <2>2. /\ IF r \in completed THEN local'.lastOk = dir[r] /\ local'.last = local.last
                              ELSE local'.last = dir[r]
        /\ local'.state = local.state
    BY <1>1, <1>6, <2>1, Relinked
  <2>3. CASE r \in completed
    <3>1. pc'[r] = "done" /\ local'.lastOk = dir[r]
      BY <2>1, <2>2, <2>3 DEF AfterLink
    <3> QED BY <1>4, <1>5, <2>1, <2>2, <2>3, <3>1 DEF Undisturbed
  <2>4. CASE r \notin completed
    <3>1. pc'[r] = "body" /\ local'.last = dir[r]
      BY <2>1, <2>2, <2>4 DEF AfterLink
    <3> QED BY <1>5, <2>1, <2>4, <3>1 DEF Undisturbed
  <2> QED BY <2>3, <2>4
<1>11. CASE BodyDone(r)
  <2>1. UNCHANGED <<local, dir>> /\ pc[r] = "body" /\ pc'[r] = "ok"
    BY <1>11 DEF BodyDone
  <2> QED BY <1>4, <1>5, <2>1 DEF Undisturbed
<1>12. CASE WriteOk(r)
  <2>1. /\ UNCHANGED <<completed, dir>> /\ pc[r] = "ok" /\ pc'[r] = "test"
        /\ local' = [local EXCEPT !.state[dir[r]] = "ok"]
    BY <1>12 DEF WriteOk
  <2>2. dir[r] \in Time /\ r \in completed
    BY <2>1, HasDir DEF Order, Late
  <2>3. local'.last = local.last /\ local'.state[dir[r]] = "ok"
    BY <1>1, <2>1, <2>2, StateDirType
  <2> QED BY <1>4, <1>5, <2>1, <2>2, <2>3 DEF Undisturbed
<1>13. CASE Fails(r)
  <2>1. /\ pc[r] = "body" /\ pc'[r] \in {"body", "over"} /\ r \notin completed
        /\ UNCHANGED completed /\ local' = [local EXCEPT !.state[dir[r]] = FailState]
    BY <1>13 DEF Fails, BodyFails, AfterError, Order, Early
  <2>2. local'.last = local.last
    BY <1>1, <2>1, StateDirType
  <2> QED BY <1>1, <1>4, <1>5, <2>1, <2>2 DEF Undisturbed
<1>14. CASE Dies(r)
  BY <1>5, <1>14 DEF Undisturbed, Dies
<1> QED BY <1>7, <1>8, <1>9, <1>10, <1>11, <1>12, <1>13, <1>14 DEF Step

LEMMA HealingNext ==
  ASSUME TypeOK, Order, Healing, [Next]_vars
  PROVE  Healing'
<1>1. CASE CleanLast
  BY <1>1 DEF CleanLast, Healing
<1>2. CASE CleanLastOk
  <2>1. alone = {} /\ alone' = alone
    BY <1>2 DEF CleanLastOk, Keep, Healing, Undisturbed
  <2> QED BY <2>1 DEF Healing
<1>3. ASSUME UNCHANGED <<pc, dir, local, cleaning, completed, alone>> PROVE Healing'
  BY <1>3 DEF Healing, Undisturbed, Active, HasLink, LinkOf, Target
<1>4. CASE Other /\ ~CleanLast /\ ~CleanLastOk
  BY <1>3, <1>4 DEF Other, PushBegin, PushEnd, PushBreaks, PushLink, PushDir, Second, Upgrade,
                    runs, history, vars
<1> QED BY <1>1, <1>2, <1>4, EnterHeals, StepHeals, NextCases DEF Other

-----------------------------------------------------------------------------
(* The theorems *)

LEMMA IInvInit == Init => IInv
<1> SUFFICES ASSUME Init PROVE IInv
  OBVIOUS
<1>1. Begun = {} /\ completed = {} /\ failed = {}
  BY DEF Init, Begun
<1>2. /\ local = NoStateDir /\ server = NoStateDir
      /\ local.lastOk = None /\ local.last = None
      /\ \A t \in Time : local.state[t] = "none" /\ local.version[t] = 0
  BY DEF Init, NoStateDir
<1>3. Order
  BY <1>1 DEF Order, Init, Late
<1>4. Copied
  BY DEF Copied, Init, NoPush
<1> QED BY <1>1, <1>2, <1>3, <1>4, TypeInit DEF IInv, Versions, Recorded, Honest

LEMMA IInvNext == IInv /\ [Next]_vars => IInv'
  BY TypeNext, OrderNext, VersionsNext, HonestNext, HonestServerNext, CopiedNext
  DEF IInv

LEMMA Inductive == Spec => []IInv
  BY IInvInit, IInvNext, PTL DEF Spec

\* Order: who has come to install_ok has not been ended by err.
LEMMA ComeToOk ==
  ASSUME TypeOK, Order, NEW r \in completed
  PROVE  r \in Runs /\ Succeeded(r)
  BY DEF TypeOK, Order, Succeeded

\* What the inspector shows as OK, on the device or on the server: a run of the
\* script as it is now has that directory, and so has a run that came to install_ok
\* and that err has not ended.
THEOREM OkIsTrue == Spec => []OkIsReal
<1>1. IInv => OkIsReal
  <2> SUFFICES ASSUME IInv, NEW d \in {local, server}, ShowsOk(d)
               PROVE  /\ \E r \in InDir(d.last) : Succeeded(r)
                      /\ \E r \in InDir(d.last) : ver[r] = current
    BY DEF OkIsReal
  <2>1. d.last \in Time /\ Honest(d)
    BY StateDirType DEF IInv, TypeOK, ShowsOk
  <2>2. /\ \E r \in completed : dir[r] = d.last
        /\ \E p \in Begun : dir[p] = d.last /\ ver[p] = current
    BY <2>1 DEF ShowsOk, Honest
  <2> QED BY <2>2, ComeToOk DEF IInv, InDir, Begun
<1> QED BY <1>1, Inductive, PTL

\* last_ok, through which the allowed keys are found, leads to a run that came to
\* install_ok and that err has not ended.
THEOREM LastOkTrue == Spec => []LastOkSucceeded
<1>1. IInv => LastOkSucceeded
  <2> SUFFICES ASSUME IInv, NEW d \in {local, server}, d.lastOk # None
               PROVE  \E r \in InDir(d.lastOk) : Succeeded(r)
    BY DEF LastOkSucceeded
  <2> QED BY ComeToOk DEF IInv, Honest, InDir
<1> QED BY <1>1, Inductive, PTL

LEMMA SameFunction ==
  ASSUME NEW S, NEW T, NEW f \in [S -> T], NEW g \in [S -> T], \A x \in S : f[x] = g[x]
  PROVE  f = g
  OBVIOUS

\* A push during which nothing changed copies everything, and nothing else.
THEOREM PushExact == Spec => []PushFaithful
<1>1. IInv => PushFaithful
  <2> SUFFICES ASSUME IInv, fresh, ~push.on PROVE server = local
    BY DEF PushFaithful
  <2>1. push.links = {} /\ push.dirs = {}
    BY DEF IInv, Copied
  <2>2. /\ server.last = local.last /\ server.lastOk = local.lastOk
        /\ \A t \in Time : server.state[t] = local.state[t]
                          /\ server.version[t] = local.version[t]
    BY <2>1 DEF IInv, Copied
  <2>3. server.state = local.state /\ server.version = local.version
    <3>1. /\ server.state \in [Time -> States] /\ local.state \in [Time -> States]
          /\ server.version \in [Time -> Version] /\ local.version \in [Time -> Version]
      BY StateDirType DEF IInv, TypeOK
    <3>2. server.state = local.state
      <4>1. \A t \in Time : server.state[t] = local.state[t]
        BY <2>2
      <4> HIDE DEF Time
      <4> QED BY <4>1, <3>1, SameFunction
    <3>3. server.version = local.version
      <4>1. \A t \in Time : server.version[t] = local.version[t]
        BY <2>2
      <4> HIDE DEF Time, Version
      <4> QED BY <4>1, <3>1, SameFunction
    <3> QED BY <3>2, <3>3
  <2> QED BY <2>2, <2>3, StateDirType DEF IInv, TypeOK
<1> QED BY <1>1, Inductive, PTL

\* A run that nobody disturbed ends with both links on itself and recorded as ok,
\* whatever runs that died, raced or failed before it have left.
THEOREM LinksAreHealed == Spec => []LinksHeal
<1>1. Init => Healing
  BY DEF Init, Healing
<1>2. IInv /\ Healing /\ [Next]_vars => Healing'
  BY HealingNext DEF IInv
<1>3. IInv /\ Healing => LinksHeal
  BY DEF IInv, TypeOK, Order, Healing, Undisturbed, LinksHeal
<1> QED BY <1>1, <1>2, <1>3, Inductive, PTL DEF Spec

=============================================================================
