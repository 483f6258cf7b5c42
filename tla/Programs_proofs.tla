--------------------------- MODULE Programs_proofs ---------------------------
(***************************************************************************)
(* What is beside pingtui, and what computes without keeping a state.      *)
(*                                                                         *)
(* The daemon of the mail forgets nothing, for every set of folders and    *)
(* requesters and every bound: TypeOK and NothingForgotten.                *)
(*                                                                         *)
(* The tablet's daemon, for every set of positions, keeps its types,       *)
(* scrolling follows the pen, and a press leads to one action at most.     *)
(*                                                                         *)
(* The interface of treediff, for every two trees of any depth and every   *)
(* terminal, shows the selected row, loses no file that is not hidden, and *)
(* keeps its place when it reads what it has read.                         *)
(*                                                                         *)
(* The computations, on every input that the assumptions allow: what a     *)
(* target means, the N-th hop, the gateway, the report on snapshots, the   *)
(* output of ping and the verdicts on directories are what they are to     *)
(* mean.                                                                   *)
(*                                                                         *)
(* The four share no state, and the module has a part for each.            *)
(***************************************************************************)
EXTENDS MailDaemon, WacomDaemon, TreeDiff, Algorithms, FunctionTheorems,
        FiniteSetTheorems, SequenceTheorems, WellFoundedInduction, TLAPS

-----------------------------------------------------------------------------
(* The mail's daemon *)

\* A running offlineimap does not have all that is wanted; the rest is on its
\* way in the same sense as when nothing runs.
RestRemembered == phase = "run" => \A f \in owed \ taken : Remembered(f)

\* A daemon that is not there knows no counts.
DownBlank == phase = "down" => \A f \in Folders : count[f] = -1

IInv == TypeOK /\ NothingForgotten /\ RestRemembered /\ DownBlank

-----------------------------------------------------------------------------
LEMMA InitIInv == Init => IInv
  BY MailAssumption
     DEF Init, IInv, TypeOK, NothingForgotten, RestRemembered, DownBlank, Requests

\* What was remembered stays so as long as no request disappears, no folder
\* becomes unknown and no count is taken note of.
LEMMA StaysRemembered ==
  ASSUME NEW f \in Folders, Remembered(f),
         \A q \in Requesters : want'[q] = want[q] \/ want[q] = None,
         UNCHANGED <<pipe, known, count, cm>>, None \notin Folders \cup Kinds
  PROVE  Remembered(f)'
<1>1. CASE \E q \in Requesters : Names(want[q], f)
  BY <1>1 DEF Remembered, Names, Kinds
<1>2. CASE ~ \E q \in Requesters : Names(want[q], f)
  BY <1>2 DEF Remembered, Names
<1> QED BY <1>1, <1>2

\* Announcing a request: the folders it demands are named by it, or have news.
LEMMA AskStep ==
  ASSUME IInv, NEW q \in Requesters, NEW r \in Requests, Ask(q, r)
  PROVE  IInv'
<1>1. TypeOK'
  BY MailAssumption DEF IInv, TypeOK, Ask, Announce, Demanded, daemon, Requests, Kinds
<1>2. ASSUME NEW f \in Demanded(r) PROVE f \in Folders /\ Remembered(f)'
  <2>1. f \in Folders /\ Names(r, f)'
    BY <1>2, MailAssumption DEF IInv, TypeOK, Ask, Announce, Demanded, daemon, Requests, Kinds, Names
  <2>2. want'[q] = r
    BY DEF IInv, TypeOK, Ask, Announce
  <2> QED BY <2>1, <2>2 DEF Remembered, Names
<1>3. ASSUME NEW f \in Folders, Remembered(f) PROVE Remembered(f)'
  <2>1. \A o \in Requesters : want'[o] = want[o] \/ want[o] = None
    BY DEF IInv, TypeOK, Ask, Announce
  <2> QED BY <1>3, <2>1, StaysRemembered, MailAssumption DEF Ask, Announce, daemon
<1>4. NothingForgotten'
  BY <1>2, <1>3 DEF IInv, TypeOK, NothingForgotten, Ask, Announce, daemon
<1>5. RestRemembered'
  BY <1>2, <1>3 DEF IInv, TypeOK, RestRemembered, Ask, Announce, daemon
<1>6. DownBlank'
  BY DEF IInv, DownBlank, Ask, Announce, daemon
<1> QED BY <1>1, <1>4, <1>5, <1>6 DEF IInv

LEMMA NotifyStep ==
  ASSUME IInv, NEW q \in Requesters, NEW g \in Folders, Notify(q, g)
  PROVE  IInv'
<1>1. TypeOK'
  BY MailAssumption DEF IInv, TypeOK, Notify, Announce, daemon, Requests, Kinds
<1>2. Remembered(g)'
  BY DEF IInv, TypeOK, Notify, Announce, daemon, Remembered
<1>3. ASSUME NEW f \in Folders, Remembered(f) PROVE Remembered(f)'
  <2>1. CASE f = g
    BY <1>2, <2>1
  <2>2. CASE f # g /\ \E o \in Requesters : Names(want[o], f)
    BY <2>2, MailAssumption DEF IInv, TypeOK, Notify, Announce, daemon, Remembered, Names, Kinds
  <2>3. CASE f # g /\ ~ \E o \in Requesters : Names(want[o], f)
    BY <1>3, <2>3 DEF IInv, TypeOK, Notify, Announce, daemon, Remembered, Names
  <2> QED BY <2>1, <2>2, <2>3
<1>4. NothingForgotten'
  BY <1>2, <1>3 DEF IInv, TypeOK, NothingForgotten, Notify, Announce, daemon
<1>5. RestRemembered'
  BY <1>2, <1>3 DEF IInv, TypeOK, RestRemembered, Notify, Announce, daemon
<1>6. DownBlank'
  BY DEF IInv, DownBlank, Notify, Announce, daemon
<1> QED BY <1>1, <1>4, <1>5, <1>6 DEF IInv

LEMMA WriteStep ==
  ASSUME IInv, NEW q \in Requesters, Write(q)
  PROVE  IInv'
<1>1. TypeOK'
  BY MailAssumption DEF IInv, TypeOK, Write, daemon, Requests
<1>2. ASSUME NEW f \in Folders, Remembered(f) PROVE Remembered(f)'
  <2>1. pipe' = Append(pipe, want[q]) /\ pipe \in Seq(Requests \cup {"start"})
        /\ pipe' \in Seq(Requests \cup {"start"})
    BY <1>1 DEF IInv, TypeOK, Write
  <2>2. CASE Names(want[q], f)
    <3>1. Len(pipe) + 1 \in DOMAIN pipe' /\ pipe'[Len(pipe) + 1] = want[q]
      BY <2>1
    <3> QED BY <2>2, <3>1 DEF Write, daemon, Remembered, Names
  <2>3. CASE \E o \in Requesters \ {q} : Names(want[o], f)
    BY <2>3 DEF IInv, TypeOK, Write, daemon, Remembered, Names
  <2>4. CASE \E i \in DOMAIN pipe : Names(pipe[i], f)
    <3>1. PICK i \in DOMAIN pipe : Names(pipe[i], f)
      BY <2>4
    <3>2. i \in DOMAIN pipe' /\ pipe'[i] = pipe[i]
      BY <2>1
    <3> QED BY <3>1, <3>2 DEF Write, daemon, Remembered, Names
  <2>5. CASE count[f] # cm[f]
    BY <2>5 DEF Write, daemon, Remembered
  <2> QED BY <1>2, <2>2, <2>3, <2>4, <2>5 DEF Remembered
<1>3. NothingForgotten'
  BY <1>2 DEF IInv, TypeOK, NothingForgotten, Write, daemon
<1>4. RestRemembered'
  BY <1>2 DEF IInv, TypeOK, RestRemembered, Write, daemon
<1>5. DownBlank'
  BY DEF IInv, DownBlank, Write, daemon
<1> QED BY <1>1, <1>3, <1>4, <1>5 DEF IInv

\* While the daemon is away every folder has news for the next one.
LEMMA NewsWhenDown ==
  ASSUME TypeOK', phase' = "down" \/ pipe' = << "start" >>,
         \A f \in Folders : count'[f] = -1
  PROVE  \A f \in Folders : Remembered(f)'
  BY DEF TypeOK, Remembered

LEMMA GiveUpStep ==
  ASSUME IInv, NEW q \in Requesters, GiveUp(q)
  PROVE  IInv'
<1>1. TypeOK'
  BY DEF IInv, TypeOK, GiveUp, daemon
<1>2. phase' = "down" /\ \A f \in Folders : count'[f] = -1
  BY DEF IInv, DownBlank, GiveUp, daemon
<1> QED BY <1>1, <1>2, NewsWhenDown
        DEF IInv, TypeOK, NothingForgotten, RestRemembered, DownBlank

LEMMA StartStep ==
  ASSUME IInv, Start
  PROVE  IInv'
<1>1. TypeOK'
  BY DEF IInv, TypeOK, Start
<1>2. phase' = "idle" /\ pipe' = << "start" >> /\ \A f \in Folders : count'[f] = -1
  BY DEF IInv, DownBlank, Start
<1> QED BY <1>1, <1>2, NewsWhenDown
        DEF IInv, TypeOK, NothingForgotten, RestRemembered, DownBlank

LEMMA CrashStep ==
  ASSUME IInv, Crash
  PROVE  IInv'
<1>1. TypeOK'
  BY MailAssumption DEF IInv, TypeOK, Crash
<1>2. phase' = "down" /\ \A f \in Folders : count'[f] = -1
  BY DEF Crash
<1> QED BY <1>1, <1>2, NewsWhenDown
        DEF IInv, TypeOK, NothingForgotten, RestRemembered, DownBlank

\* Reading a request: what it named is marked, and so is a folder whose news
\* were read; the rest is remembered as before.
LEMMA ReadStep ==
  ASSUME IInv, NEW seen \in SUBSET Folders, Read(seen)
  PROVE  IInv'
<1> DEFINE r == Head(pipe)
<1>0. r \in Requests \cup {"start"} /\ pipe' = Tail(pipe)
      /\ pipe \in Seq(Requests \cup {"start"}) /\ pipe # << >>
  BY DEF IInv, TypeOK, Read
<1>1. Marked(r, seen) \subseteq Folders \cup {Junk}
  BY <1>0, MailAssumption DEF IInv, TypeOK, Marked, Requests
<1>2. TypeOK'
  <2>1. needAct' \subseteq Folders \cup {Junk} /\ known' \subseteq Folders \cup {Junk}
    BY <1>1 DEF IInv, TypeOK, Read, Handle, NextMarks, Worth
  <2>2. count' \in [Folders -> Int] /\ \A f \in Folders : count'[f] <= cm'[f]
    BY DEF IInv, TypeOK, Read, Handle
  <2>3. phase' \in {"down", "idle", "run"} /\ taken' \subseteq owed'
    BY DEF IInv, TypeOK, Read, Handle
  <2>4. pipe' \in Seq(Requests \cup {"start"})
    BY <1>0
  <2> QED BY <2>1, <2>2, <2>3, <2>4 DEF IInv, TypeOK, Read
<1>3. ASSUME NEW f \in Folders, f \in needAct \/ Remembered(f)
      PROVE  f \in needAct' \/ Remembered(f)'
  <2>0. needAct' = needAct \cup Marked(r, seen) /\ known \subseteq known'
    BY DEF Read, Handle, NextMarks, Worth
  <2>1. CASE f \in needAct
    BY <2>0, <2>1
  <2>2. CASE \E q \in Requesters : Names(want[q], f)
    BY <2>0, <2>2 DEF Read, Remembered, Names
  <2>3. CASE \E i \in DOMAIN pipe : Names(pipe[i], f)
    <3>1. PICK i \in DOMAIN pipe : Names(pipe[i], f)
      BY <2>3
    <3>2. CASE i = 1
      <4>1. Names(r, f)
        BY <1>0, <3>1, <3>2
      <4>2. f \in Marked(r, seen)
        BY <4>1, MailAssumption DEF Names, Marked, Kinds
      <4> QED BY <4>2, <2>0
    <3>3. CASE i # 1
      <4>1. i - 1 \in DOMAIN pipe' /\ pipe'[i - 1] = pipe[i]
        BY <1>0, <3>1, <3>3
      <4> QED BY <4>1, <3>1, <2>0 DEF Remembered, Names
    <3> QED BY <3>2, <3>3
  <2>4. CASE count[f] # cm[f]
    <3>1. CASE f \in seen
      BY <2>4, <3>1, <2>0 DEF Marked
    <3>2. CASE f \notin seen
      BY <2>4, <3>2 DEF Read, Handle, Remembered
    <3> QED BY <3>1, <3>2
  <2> QED BY <1>3, <2>1, <2>2, <2>3, <2>4 DEF Remembered
<1>4. NothingForgotten'
  BY <1>3 DEF IInv, TypeOK, NothingForgotten, Read
<1>5. RestRemembered'
  <2>1. phase' = "run" => taken' = owed' \cap needAct'
    BY DEF Read, Handle
  <2> QED BY <1>4, <2>1 DEF RestRemembered, NothingForgotten
<1>6. DownBlank'
  BY DEF IInv, DownBlank, Read, Handle
<1> QED BY <1>2, <1>4, <1>5, <1>6 DEF IInv

LEMMA FinishStep ==
  ASSUME IInv, NEW r \in {"ok", "failed"}, Finish(r)
  PROVE  IInv'
<1>1. TypeOK'
  BY DEF IInv, TypeOK, Finish, MarksAfter
<1>2. ASSUME NEW f \in Folders, Remembered(f) PROVE Remembered(f)'
  BY <1>2 DEF Finish, Remembered, Names
<1>3. NothingForgotten'
  <2>1. CASE r = "ok"
    BY <1>2, <2>1 DEF IInv, TypeOK, RestRemembered, NothingForgotten, Finish
  <2>2. CASE r = "failed"
    BY <1>2, <2>2 DEF IInv, TypeOK, NothingForgotten, Finish, MarksAfter
  <2> QED BY <2>1, <2>2
<1>4. RestRemembered' /\ DownBlank'
  BY DEF RestRemembered, DownBlank, Finish
<1> QED BY <1>1, <1>3, <1>4 DEF IInv

LEMMA NextIInv == IInv /\ [Next]_vars => IInv'
<1> SUFFICES ASSUME IInv, [Next]_vars PROVE IInv'
  OBVIOUS
<1>1. CASE UNCHANGED vars
  BY <1>1 DEF IInv, TypeOK, NothingForgotten, RestRemembered, DownBlank,
              Remembered, Names, vars, daemon
<1>2. CASE Next
  BY <1>2, AskStep, NotifyStep, WriteStep, GiveUpStep, StartStep, ReadStep,
     FinishStep, CrashStep DEF Next
<1> QED BY <1>1, <1>2

\* The daemon's variables keep their types: no count is ahead of ~/.cm, and
\* offlineimap is never thought to have done what nobody wants.
THEOREM TypeCorrect == Spec => []TypeOK
<1>1. IInv => TypeOK
  BY DEF IInv
<1> QED BY InitIInv, NextIInv, <1>1, PTL DEF Spec

\* What somebody wants synchronised is marked, asked for or in the counts until
\* offlineimap has done it: through failures, half-written counts, requests
\* that come late and deaths of the daemon (offlineimap-deamon.cpp).
THEOREM Forgetless == Spec => []NothingForgotten
<1>1. IInv => NothingForgotten
  BY DEF IInv
<1> QED BY InitIInv, NextIInv, <1>1, PTL DEF Spec

-----------------------------------------------------------------------------
(* The tablet's daemon *)

\* The steps that were sent are those there should be: none when a move
\* begins, the rounded distance while it scrolls.
StepsExact ==
  /\ mode = "MCLICK" => \A i \in Axes : lasts[i] = 0
  /\ mode = "MSCROLL" => \A i \in Axes :
       scrolled[i] = lasts[i] /\ lasts[i] = Steps(p[i] - scrolorigp[i])

\* In the middle of something nothing has been done since the last press.
NotYet == acted <= 1 /\ (mode # "MNO" => acted = 0)

PenInv == PenTypeOK /\ StepsExact /\ NotYet /\ OneActionPerPress

-----------------------------------------------------------------------------
LEMMA TabletFits == TABLET \in Nat /\ TABLET < 1000 * SCROLLSIZE
  BY DEF TABLET, SCROLLSIZE

LEMMA StepsRounds ==
  ASSUME NEW d \in -TABLET .. TABLET
  PROVE  /\ Steps(d) \in Int
         /\ 2 * Abs(SCROLLSIZE * Steps(d) - d) <= SCROLLSIZE
  BY TabletFits DEF Steps, SCROLLSIZE, Abs

\* Two positions are no further from each other than the tablet is wide.
LEMMA PixelsAway ==
  ASSUME NEW q \in Position, NEW o \in Position, NEW i \in Axes
  PROVE  q[i] - o[i] \in -TABLET .. TABLET
<1>1. q[i] \in 0 .. TABLET /\ o[i] \in 0 .. TABLET
  BY DEF Position
<1> QED BY <1>1, TabletFits

LEMMA StepsZero == Steps(0) = 0
  BY DEF Steps, SCROLLSIZE

LEMMA InitPenInv == PenInit => PenInv
  BY TabletFits DEF PenInit, PenInv, PenTypeOK, StepsExact, NotYet, OneActionPerPress, Position, Zero,
         Modes, Keys, K0, K2

LEMMA KeyStep ==
  ASSUME PenInv, NEW k \in Keys, EvKey(k)
  PROVE  PenInv'
<1>1. Done \in {0, 1} /\ (mode \notin {"MBUT", "MGEST"} => Done = 0)
  BY DEF Done
<1>2. key' \in [Keys -> BOOLEAN] /\ down' \in [Keys -> BOOLEAN] /\ key'[k] = down'[k]
      /\ \A j \in Keys \ {k} : key'[j] = key[j]
  BY DEF PenInv, PenTypeOK, EvKey
<1>3. CASE BothDown
  <2>1. mode' = "MCLICK" /\ origp' = p /\ lasts' = Zero /\ acted' = 0
    BY <1>2, <1>3 DEF EvKey, Begin, BothDown, Keys
  <2> QED BY <1>2, <1>3, <2>1
          DEF PenInv, PenTypeOK, StepsExact, NotYet, OneActionPerPress, EvKey,
              BothDown, Zero, Modes, Keys
<1>4. CASE ~BothDown /\ ToButton(k)
  <2>1. mode' = "MBUT" /\ acted' = 0 /\ UNCHANGED <<origp, lasts>>
    BY <1>2, <1>4 DEF EvKey, ToButton
  <2>2. key'[K2] /\ ~key'[K0]
    BY <1>4 DEF BothDown, ToButton
  <2> QED BY <1>2, <2>1, <2>2
          DEF PenInv, PenTypeOK, StepsExact, NotYet, OneActionPerPress, EvKey, Modes
<1>5. CASE ~BothDown /\ ~ToButton(k)
  <2>1. mode' = "MNO" /\ UNCHANGED <<origp, lasts>>
        /\ acted' = (IF down'[k] THEN 0 ELSE acted) + Done
    BY <1>5 DEF NoMove, EvKey
  <2>2. acted' \in Nat /\ acted' <= 1
    BY <1>1, <2>1 DEF PenInv, PenTypeOK, NotYet
  <2> QED BY <1>2, <2>1, <2>2
          DEF PenInv, PenTypeOK, StepsExact, NotYet, OneActionPerPress, EvKey, Modes
<1> QED BY <1>3, <1>4, <1>5

LEMMA AbsStep ==
  ASSUME PenInv, NEW i \in Axes, NEW v \in 0 .. TABLET, EvAbs(i, v)
  PROVE  PenInv'
<1>1. p' \in Position
  <2>1. p \in Position /\ p' = [p EXCEPT ![i] = v]
    BY DEF PenInv, PenTypeOK, EvAbs
  <2> QED BY <2>1 DEF Position
<1>2. UNCHANGED <<down, key, origp, plugged, acted>>
  BY DEF EvAbs
<1>3. CASE mode = "MSCROLL" /\ Scroll /\ UNCHANGED <<mode, scrolorigp>>
  <2>1. \A j \in Axes : p'[j] - scrolorigp[j] \in -TABLET .. TABLET
    BY <1>1, PixelsAway DEF PenInv, PenTypeOK
  <2>2. \A j \in Axes : Steps(p'[j] - scrolorigp[j]) \in Int
    BY <2>1, StepsRounds
  <2>3. \A j \in Axes : /\ lasts'[j] = Steps(p'[j] - scrolorigp[j])
                        /\ scrolled'[j] = scrolled[j] + (lasts'[j] - lasts[j])
    BY <1>3 DEF Scroll
  <2>4. lasts' \in [Axes -> Int] /\ scrolled' \in [Axes -> Int]
    <3>1. lasts' \in [Axes -> Int]
      BY <1>3, <2>2 DEF Scroll
    <3>2. scrolled' = [j \in Axes |-> scrolled[j] + (Steps(p'[j] - scrolorigp[j]) - lasts[j])]
      BY <1>3 DEF Scroll
    <3>3. \A j \in Axes : scrolled[j] \in Int /\ lasts[j] \in Int
      BY DEF PenInv, PenTypeOK
    <3>4. \A j \in Axes : scrolled[j] + (Steps(p'[j] - scrolorigp[j]) - lasts[j]) \in Int
      BY <2>2, <3>3
    <3> QED BY <3>1, <3>2, <3>4
  <2>5. \A j \in Axes : scrolled'[j] = lasts'[j]
    BY <1>3, <2>3, <2>4 DEF PenInv, PenTypeOK, StepsExact
  <2>6. StepsExact'
    BY <1>3, <2>3, <2>5 DEF StepsExact
  <2> QED BY <1>1, <1>2, <1>3, <2>4, <2>6 DEF PenInv, PenTypeOK, NotYet, OneActionPerPress
<1>4. CASE mode = "MCLICK" /\ mode' = "MSCROLL" /\ scrolorigp' = p' /\ scrolled' = Zero
           /\ UNCHANGED lasts
  <2>1. \A j \in Axes : p'[j] - scrolorigp'[j] = 0
    <3>1. \A j \in Axes : p'[j] \in 0 .. TABLET /\ scrolorigp'[j] = p'[j]
      BY <1>1, <1>4 DEF Position
    <3> QED BY <3>1, TabletFits
  <2>2. StepsExact'
    BY <1>4, <2>1, StepsZero DEF PenInv, StepsExact, Zero
  <2> QED BY <1>1, <1>2, <1>4, <2>2
          DEF PenInv, PenTypeOK, NotYet, OneActionPerPress, Zero, Modes
<1>5. CASE /\ mode # "MSCROLL"
           /\ mode' = IF mode = "MCLICK" /\ Moved(0) THEN "MGEST" ELSE mode
           /\ UNCHANGED <<scrolorigp, lasts, scrolled>>
  <2>1. StepsExact'
    BY <1>5 DEF PenInv, StepsExact
  <2> QED BY <1>1, <1>2, <1>5, <2>1
          DEF PenInv, PenTypeOK, NotYet, OneActionPerPress, Modes
<1> QED BY <1>3, <1>4, <1>5 DEF EvAbs

LEMMA NextPenInv == PenInv /\ [PenNext]_penVars => PenInv'
<1> SUFFICES ASSUME PenInv, [PenNext]_penVars PROVE PenInv'
  OBVIOUS
<1>1. CASE UNCHANGED penVars \/ Unplug
  BY <1>1 DEF PenInv, PenTypeOK, StepsExact, NotYet, OneActionPerPress, penVars, Unplug
<1>2. CASE \E k \in Keys : EvKey(k)
  BY <1>2, KeyStep
<1>3. CASE (\E v \in Xs : EvAbs(0, v)) \/ (\E v \in Ys : EvAbs(1, v))
  BY <1>3, AbsStep, WacomAssumption DEF Axes
<1> QED BY <1>1, <1>2, <1>3 DEF PenNext

\* What has been scrolled is never more than half a step from the pen, for
\* every way the pen can take (the loops over s[] and lasts[]).
THEOREM ScrollExact == PenSpec => []ScrollFollowsPen
<1>1. ASSUME PenInv PROVE ScrollFollowsPen
  <2> SUFFICES ASSUME mode = "MSCROLL", NEW i \in Axes
               PROVE  2 * Abs(SCROLLSIZE * scrolled[i] - (p[i] - scrolorigp[i])) <= SCROLLSIZE
    BY DEF ScrollFollowsPen
  <2>1. p[i] - scrolorigp[i] \in -TABLET .. TABLET
    BY <1>1, PixelsAway DEF PenInv, PenTypeOK
  <2>2. scrolled[i] = Steps(p[i] - scrolorigp[i])
    BY <1>1 DEF PenInv, StepsExact
  <2> QED BY <2>1, <2>2, StepsRounds
<1> QED BY InitPenInv, NextPenInv, <1>1, PTL DEF PenSpec

\* No order of presses, releases and moves makes two actions of one press, and
\* no mode outlives the buttons it needs (the handling of EV_KEY).
THEOREM OneAction == PenSpec => []OneActionPerPress
<1>1. PenInv => OneActionPerPress
  BY DEF PenInv
<1> QED BY InitPenInv, NextPenInv, <1>1, PTL DEF PenSpec

-----------------------------------------------------------------------------
(* The interface of treediff: rows in their order *)

Paths == Seq(FileNames)

LEMMA Ranks ==
  \A a, b \in FileNames : NameRank[a] \in Nat /\ (NameRank[a] = NameRank[b] => a = b)
  BY TreeDiffAssumption

\* A sequence is a prefix of another one: element by element.
LEMMA PrefixOf ==
  ASSUME NEW N, NEW a \in Seq(N), NEW b \in Seq(N)
  PROVE  IsPrefix(a, b) <=> Len(a) <= Len(b) /\ \A j \in 1 .. Len(a) : a[j] = b[j]
<1>1. Len(a) \in Nat /\ Len(b) \in Nat
  OBVIOUS
<1>2. CASE ~(Len(a) <= Len(b))
  BY <1>2 DEF IsPrefix
<1>3. CASE Len(a) <= Len(b)
  <2> DEFINE x == SubSeq(a, 1, Len(a))
             y == SubSeq(b, 1, Len(a))
  <2>1. x \in Seq(N) /\ y \in Seq(N) /\ Len(x) = Len(a) /\ Len(y) = Len(a)
        /\ \A j \in 1 .. Len(a) : x[j] = a[j] /\ y[j] = b[j]
    <3>1. \A j \in 1 .. Len(a) : a[j] \in N /\ b[j] \in N
      BY <1>1, <1>3, ElementOfSeq
    <3>2. /\ x \in Seq(N) /\ Len(x) = Len(a) /\ \A j \in 1 .. Len(a) : x[j] = a[j]
      BY <1>1, <3>1, SubSeqProperties
    <3>3. /\ y \in Seq(N) /\ Len(y) = Len(a) /\ \A j \in 1 .. Len(a) : y[j] = b[j]
      BY <1>1, <3>1, <1>3, SubSeqProperties
    <3> QED BY <3>2, <3>3
  <2>2. x = y <=> \A j \in 1 .. Len(a) : x[j] = y[j]
    BY <2>1, SeqEqual
  <2> HIDE DEF x, y
  <2>3. x = y <=> \A j \in 1 .. Len(a) : a[j] = b[j]
    BY <2>1, <2>2
  <2> QED BY <1>3, <2>3 DEF IsPrefix, x, y
<1> QED BY <1>2, <1>3

LEMMA PrefixMeans ==
  ASSUME NEW a \in Paths, NEW b \in Paths
  PROVE  IsPrefix(a, b) <=> Len(a) <= Len(b) /\ \A j \in 1 .. Len(a) : a[j] = b[j]
  BY PrefixOf DEF Paths

\* Two paths have the same directory at the i-th level, ...
Alike(a, b, i) == /\ i - 1 <= Len(a) /\ i - 1 <= Len(b)
                  /\ \A j \in 1 .. i - 1 : a[j] = b[j]

FileAt(t, a, i) == SubSeq(a, 1, i) \in DOMAIN t

\* ... where the one ends, or comes before the other.
Earlier(t, a, b, i) ==
  \/ i > Len(a) /\ i <= Len(b)
  \/ /\ i <= Len(a) /\ i <= Len(b)
     /\ \/ /\ FileAt(t, a, i) <=> FileAt(t, b, i)
           /\ NameRank[a[i]] < NameRank[b[i]]
        \/ ~FileAt(t, a, i) /\ FileAt(t, b, i)

RowBefore(t, a, b) == \E i \in Nat \ {0} : Alike(a, b, i) /\ Earlier(t, a, b, i)

LEMMA SubSeqAlike ==
  ASSUME NEW a \in Paths, NEW b \in Paths, NEW k \in Nat, k <= Len(a), k <= Len(b)
  PROVE  SubSeq(a, 1, k) = SubSeq(b, 1, k) <=> \A j \in 1 .. k : a[j] = b[j]
<1> DEFINE x == SubSeq(a, 1, k)
           y == SubSeq(b, 1, k)
<1>1. \A j \in 1 .. k : a[j] \in FileNames /\ b[j] \in FileNames
  BY ElementOfSeq DEF Paths
<1>2. /\ x \in Paths /\ Len(x) = k /\ \A j \in 1 .. k : x[j] = a[j]
  BY <1>1, SubSeqProperties DEF Paths
<1>3. /\ y \in Paths /\ Len(y) = k /\ \A j \in 1 .. k : y[j] = b[j]
  BY <1>1, SubSeqProperties DEF Paths
<1>4. x = y <=> \A j \in 1 .. k : x[j] = y[j]
  BY <1>2, <1>3, SeqEqual DEF Paths
<1> HIDE DEF x, y
<1>5. x = y <=> \A j \in 1 .. k : a[j] = b[j]
  BY <1>2, <1>3, <1>4
<1> QED BY <1>5 DEF x, y

\* A set of natural numbers that is not empty has a least element.
LEMMA LeastOf ==
  ASSUME NEW T, T \subseteq Nat, T # {}
  PROVE  \E k \in T : \A m \in T : k <= m
<1>1. PICK k \in T : \A m \in T : <<m, k>> \notin OpToRel(<, Nat)
  BY NatLessThanWellFounded, WFMin
<1>2. ASSUME NEW m \in T PROVE k <= m
  <2>1. <<m, k>> \notin OpToRel(<, Nat) /\ <<m, k>> \in Nat \X Nat
    BY <1>1
  <2> QED BY <2>1 DEF OpToRel
<1> QED BY <1>2

\* Where neither path is a prefix of the other there is a first name in which
\* they differ.
LEMMA FirstDifference ==
  ASSUME NEW a \in Paths, NEW b \in Paths, ~IsPrefix(a, b), ~IsPrefix(b, a)
  PROVE  \E i \in 1 .. Len(a) : i <= Len(b) /\ Alike(a, b, i) /\ a[i] # b[i]
<1>1. Len(a) \in Nat /\ Len(b) \in Nat
  BY DEF Paths
<1> DEFINE T == {i \in 1 .. Len(a) : i <= Len(b) /\ a[i] # b[i]}
<1>2. T # {} /\ T \subseteq Nat
  BY <1>1, PrefixMeans
<1>3. PICK i \in T : \A m \in T : i <= m
  BY <1>2, LeastOf
<1>4. i \in 1 .. Len(a) /\ i <= Len(b) /\ a[i] # b[i]
  OBVIOUS
<1>5. ASSUME NEW j \in 1 .. i - 1 PROVE a[j] = b[j]
  <2>1. j \notin T /\ j \in 1 .. Len(a) /\ j <= Len(b)
    BY <1>1, <1>3, <1>4
  <2> QED BY <2>1
<1> QED BY <1>1, <1>4, <1>5 DEF Alike

\* The order of the rows, told by the first level at which two paths part.
LEMMA PrecedesMeans ==
  ASSUME NEW t, NEW a \in Paths, NEW b \in Paths
  PROVE  Precedes(t, NameRank, a, b) <=> RowBefore(t, a, b)
<1>1. Len(a) \in Nat /\ Len(b) \in Nat
  BY DEF Paths
<1>2. CASE IsPrefix(a, b) /\ a # b
  <2>1. Precedes(t, NameRank, a, b)
    BY <1>2 DEF Precedes, IsStrictPrefix
  <2>2. Len(a) < Len(b)
    <3>1. Len(a) <= Len(b) /\ \A j \in 1 .. Len(a) : a[j] = b[j]
      BY <1>2, PrefixMeans
    <3> QED BY <1>1, <1>2, <3>1, SeqEqual DEF Paths
  <2>3. Alike(a, b, Len(a) + 1) /\ Earlier(t, a, b, Len(a) + 1)
    <3>1. Len(a) + 1 - 1 = Len(a)
      BY <1>1
    <3> QED BY <1>1, <1>2, <2>2, <3>1, PrefixMeans DEF Alike, Earlier
  <2> QED BY <1>1, <2>1, <2>3 DEF RowBefore
<1>3. CASE IsPrefix(b, a)
  <2>1. Len(b) <= Len(a) /\ \A j \in 1 .. Len(b) : b[j] = a[j]
    BY <1>3, PrefixMeans
  <2>2. ~IsStrictPrefix(a, b)
    <3>1. IsPrefix(a, b) => Len(a) = Len(b) /\ \A j \in 1 .. Len(a) : a[j] = b[j]
      BY <1>1, <2>1, PrefixMeans
    <3>2. IsPrefix(a, b) => a = b
      BY <1>1, <3>1, SeqEqual DEF Paths
    <3> QED BY <3>2 DEF IsStrictPrefix
  <2>3. ~Precedes(t, NameRank, a, b)
    BY <1>3, <2>2 DEF Precedes
  <2>4. ASSUME NEW i \in Nat \ {0}, Alike(a, b, i), Earlier(t, a, b, i) PROVE FALSE
    <3>1. i <= Len(b) /\ i <= Len(a)
      BY <1>1, <2>1, <2>4 DEF Earlier
    <3>2. \A j \in 1 .. i : a[j] = b[j]
      BY <1>1, <2>1, <3>1
    <3>3. FileAt(t, a, i) = FileAt(t, b, i) /\ a[i] = b[i]
      <4>1. SubSeq(a, 1, i) = SubSeq(b, 1, i)
        BY <3>1, <3>2, SubSeqAlike
      <4>2. a[i] = b[i]
        BY <3>1, <3>2
      <4> QED BY <4>1, <4>2, Zenon DEF FileAt
    <3>4. a[i] \in FileNames
      BY <1>1, <3>1, ElementOfSeq DEF Paths
    <3>5. NameRank[a[i]] < NameRank[b[i]]
      BY <1>1, <2>4, <3>1, <3>3 DEF Earlier
    <3> QED BY <3>3, <3>4, <3>5, Ranks
  <2> QED BY <2>3, <2>4 DEF RowBefore
<1>4. CASE ~IsPrefix(a, b) /\ ~IsPrefix(b, a)
  <2>1. PICK i \in 1 .. Len(a) : i <= Len(b) /\ Alike(a, b, i) /\ a[i] # b[i]
    BY <1>4, FirstDifference
  <2>2. ASSUME NEW k \in 1 .. Len(a)
        PROVE  a[k] # b[k] /\ SubSeq(a, 1, k - 1) = SubSeq(b, 1, k - 1) <=> k = i
    <3>1. CASE k = i
      <4>1. k - 1 \in Nat /\ k - 1 <= Len(a) /\ k - 1 <= Len(b)
        BY <1>1, <2>1, <3>1
      <4>2. SubSeq(a, 1, k - 1) = SubSeq(b, 1, k - 1)
        BY <2>1, <3>1, <4>1, SubSeqAlike DEF Alike
      <4> QED BY <2>1, <3>1, <4>2
    <3>2. CASE k < i
      BY <1>1, <2>1, <3>2 DEF Alike
    <3>3. CASE k > i
      <4>1. ASSUME SubSeq(a, 1, k - 1) = SubSeq(b, 1, k - 1) PROVE FALSE
        <5>1. i \in 1 .. k - 1 /\ k - 1 \in Nat
          BY <1>1, <2>1, <3>3
        <5>2. SubSeq(a, 1, k - 1)[i] = a[i] /\ SubSeq(b, 1, k - 1)[i] = b[i]
          BY <5>1
        <5> QED BY <2>1, <4>1, <5>2
      <4> QED BY <3>3, <4>1
    <3> QED BY <1>1, <2>1, <3>1, <3>2, <3>3
  <2>3. (CHOOSE k \in 1 .. Len(a) :
           a[k] # b[k] /\ SubSeq(a, 1, k - 1) = SubSeq(b, 1, k - 1)) = i
    BY <2>1, <2>2
  <2>4. Precedes(t, NameRank, a, b) <=>
          IF FileAt(t, a, i) = FileAt(t, b, i) THEN NameRank[a[i]] < NameRank[b[i]]
          ELSE FileAt(t, b, i)
    BY <1>4, <2>3 DEF Precedes, IsStrictPrefix, FileAt
  <2>5. ASSUME NEW k \in Nat \ {0}, Alike(a, b, k), Earlier(t, a, b, k) PROVE k = i
    <3>1. k <= i
      BY <1>1, <2>1, <2>5 DEF Alike
    <3>2. CASE k < i
      <4>1. \A j \in 1 .. k : a[j] = b[j]
        BY <1>1, <2>1, <3>2 DEF Alike
      <4>2. k <= Len(a) /\ k <= Len(b)
        BY <1>1, <2>1, <3>2
      <4>3. FileAt(t, a, k) = FileAt(t, b, k) /\ a[k] = b[k]
        <5>1. SubSeq(a, 1, k) = SubSeq(b, 1, k)
          BY <4>1, <4>2, SubSeqAlike
        <5>2. a[k] = b[k]
          BY <4>1, <4>2
        <5> QED BY <5>1, <5>2, Zenon DEF FileAt
      <4>4. a[k] \in FileNames
        BY <1>1, <4>2, ElementOfSeq DEF Paths
      <4>5. NameRank[a[k]] < NameRank[b[k]]
        BY <1>1, <2>5, <4>2, <4>3 DEF Earlier
      <4> QED BY <4>3, <4>4, <4>5, Ranks
    <3> QED BY <1>1, <2>1, <3>1, <3>2
  <2>6. Earlier(t, a, b, i) <=>
          IF FileAt(t, a, i) = FileAt(t, b, i) THEN NameRank[a[i]] < NameRank[b[i]]
          ELSE FileAt(t, b, i)
    <3>1. i <= Len(a) /\ i <= Len(b) /\ ~(i > Len(a))
      BY <1>1, <2>1
    <3>2. CASE FileAt(t, a, i) /\ FileAt(t, b, i)
      <4>1. FileAt(t, a, i) = FileAt(t, b, i)
        BY <3>2 DEF FileAt
      <4> QED BY <3>1, <3>2, <4>1 DEF Earlier
    <3>3. CASE ~FileAt(t, a, i) /\ ~FileAt(t, b, i)
      <4>1. FileAt(t, a, i) = FileAt(t, b, i)
        BY <3>3 DEF FileAt
      <4> QED BY <3>1, <3>3, <4>1 DEF Earlier
    <3>4. CASE FileAt(t, a, i) /\ ~FileAt(t, b, i)
      <4>1. FileAt(t, a, i) # FileAt(t, b, i)
        BY <3>4
      <4> QED BY <3>1, <3>4, <4>1 DEF Earlier
    <3>5. CASE ~FileAt(t, a, i) /\ FileAt(t, b, i)
      <4>1. FileAt(t, a, i) # FileAt(t, b, i)
        BY <3>5
      <4> QED BY <3>1, <3>5, <4>1 DEF Earlier
    <3> QED BY <3>2, <3>3, <3>4, <3>5
  <2> QED BY <1>1, <2>1, <2>4, <2>5, <2>6 DEF RowBefore
<1>5. CASE a = b
  BY <1>1, <1>3, <1>5, PrefixMeans
<1> QED BY <1>2, <1>3, <1>4, <1>5
-----------------------------------------------------------------------------
(* It is a strict order in which any two paths come one after the other *)

LEMMA NotBeforeItself ==
  ASSUME NEW t, NEW a \in Paths
  PROVE  ~RowBefore(t, a, a)
<1>1. SUFFICES ASSUME NEW i \in Nat \ {0}, Earlier(t, a, a, i) PROVE FALSE
  BY DEF RowBefore
<1>2. Len(a) \in Nat
  BY DEF Paths
<1>3. i <= Len(a) /\ NameRank[a[i]] < NameRank[a[i]]
  BY <1>1, <1>2 DEF Earlier
<1>4. a[i] \in FileNames
  BY <1>2, <1>3, ElementOfSeq DEF Paths
<1> QED BY <1>3, <1>4, Ranks

LEMMA OneIsBefore ==
  ASSUME NEW t, NEW a \in Paths, NEW b \in Paths, a # b
  PROVE  RowBefore(t, a, b) \/ RowBefore(t, b, a)
<1>1. Len(a) \in Nat /\ Len(b) \in Nat
  BY DEF Paths
<1>2. CASE IsPrefix(a, b) \/ IsPrefix(b, a)
  <2>1. Precedes(t, NameRank, a, b) \/ Precedes(t, NameRank, b, a)
    BY <1>2 DEF Precedes, IsStrictPrefix
  <2> QED BY <2>1, PrecedesMeans
<1>3. CASE ~IsPrefix(a, b) /\ ~IsPrefix(b, a)
  <2>1. PICK i \in 1 .. Len(a) : i <= Len(b) /\ Alike(a, b, i) /\ a[i] # b[i]
    BY <1>3, FirstDifference
  <2>2. a[i] \in FileNames /\ b[i] \in FileNames
    BY <1>1, <2>1, ElementOfSeq DEF Paths
  <2>3. NameRank[a[i]] < NameRank[b[i]] \/ NameRank[b[i]] < NameRank[a[i]]
    BY <2>1, <2>2, Ranks
  <2>4. Earlier(t, a, b, i) \/ Earlier(t, b, a, i)
    BY <1>1, <2>1, <2>3 DEF Earlier
  <2>5. Alike(b, a, i) /\ i \in Nat \ {0}
    BY <1>1, <2>1 DEF Alike
  <2> QED BY <2>1, <2>4, <2>5 DEF RowBefore
<1> QED BY <1>2, <1>3

\* At one level the order is transitive: directories before files, names by rank.
LEMMA EarlierTransitive ==
  ASSUME NEW t, NEW a \in Paths, NEW b \in Paths, NEW c \in Paths, NEW i \in Nat \ {0},
         Earlier(t, a, b, i), Earlier(t, b, c, i)
  PROVE  Earlier(t, a, c, i)
<1>1. Len(a) \in Nat /\ Len(b) \in Nat /\ Len(c) \in Nat
  BY DEF Paths
<1>2. i <= Len(b) /\ i <= Len(c)
  BY <1>1 DEF Earlier
<1>3. CASE i > Len(a)
  BY <1>2, <1>3 DEF Earlier
<1>4. CASE i <= Len(a)
  <2>1. a[i] \in FileNames /\ b[i] \in FileNames /\ c[i] \in FileNames
    BY <1>1, <1>2, <1>4, ElementOfSeq DEF Paths
  <2>2. NameRank[a[i]] \in Nat /\ NameRank[b[i]] \in Nat /\ NameRank[c[i]] \in Nat
    BY <2>1, Ranks
  <2>3. /\ FileAt(t, a, i) => FileAt(t, b, i)
        /\ (FileAt(t, b, i) => FileAt(t, a, i)) => NameRank[a[i]] < NameRank[b[i]]
    BY <1>1, <1>2, <1>4 DEF Earlier
  <2>4. /\ FileAt(t, b, i) => FileAt(t, c, i)
        /\ (FileAt(t, c, i) => FileAt(t, b, i)) => NameRank[b[i]] < NameRank[c[i]]
    BY <1>1, <1>2 DEF Earlier
  <2>5. /\ FileAt(t, a, i) => FileAt(t, c, i)
        /\ (FileAt(t, c, i) => FileAt(t, a, i)) => NameRank[a[i]] < NameRank[c[i]]
    BY <2>2, <2>3, <2>4
  <2> QED BY <1>2, <1>4, <2>5 DEF Earlier
<1> QED BY <1>1, <1>3, <1>4

\* Paths that are alike beyond a level have one place at that level.
LEMMA EarlierAlike ==
  ASSUME NEW t, NEW a \in Paths, NEW b \in Paths, NEW c \in Paths,
         NEW i \in Nat \ {0}, NEW k \in Nat, i < k, Alike(a, b, k)
  PROVE  /\ Earlier(t, a, c, i) <=> Earlier(t, b, c, i)
         /\ Earlier(t, c, a, i) <=> Earlier(t, c, b, i)
<1>1. Len(a) \in Nat /\ Len(b) \in Nat /\ Len(c) \in Nat
  BY DEF Paths
<1>2. i <= Len(a) /\ i <= Len(b) /\ a[i] = b[i] /\ \A j \in 1 .. i : a[j] = b[j]
  BY <1>1 DEF Alike
<1>3. SubSeq(a, 1, i) = SubSeq(b, 1, i)
  BY <1>2, SubSeqAlike
<1>4. FileAt(t, a, i) <=> FileAt(t, b, i)
  BY <1>3 DEF FileAt
<1> QED BY <1>1, <1>2, <1>4 DEF Earlier

LEMMA BeforeTransitive ==
  ASSUME NEW t, NEW a \in Paths, NEW b \in Paths, NEW c \in Paths,
         RowBefore(t, a, b), RowBefore(t, b, c)
  PROVE  RowBefore(t, a, c)
<1>1. Len(a) \in Nat /\ Len(b) \in Nat /\ Len(c) \in Nat
  BY DEF Paths
<1>2. PICK i \in Nat \ {0} : Alike(a, b, i) /\ Earlier(t, a, b, i)
  BY DEF RowBefore
<1>3. PICK k \in Nat \ {0} : Alike(b, c, k) /\ Earlier(t, b, c, k)
  BY DEF RowBefore
<1>4. CASE i = k
  <2>1. Alike(a, c, i)
    BY <1>1, <1>2, <1>3, <1>4 DEF Alike
  <2> QED BY <1>2, <1>3, <1>4, <2>1, EarlierTransitive DEF RowBefore
<1>5. CASE i < k
  <2>1. Alike(a, c, i)
    BY <1>1, <1>2, <1>3, <1>5 DEF Alike
  <2>2. Earlier(t, a, c, i)
    BY <1>2, <1>3, <1>5, EarlierAlike
  <2> QED BY <2>1, <2>2 DEF RowBefore
<1>6. CASE k < i
  <2>1. Alike(a, c, k)
    BY <1>1, <1>2, <1>3, <1>6 DEF Alike
  <2>2. Earlier(t, a, c, k)
    BY <1>2, <1>3, <1>6, EarlierAlike
  <2> QED BY <2>1, <2>2 DEF RowBefore
<1> QED BY <1>4, <1>5, <1>6

-----------------------------------------------------------------------------
(* The walk: each row has as many rows above it as come before it *)

LEMMA WalkIsSeq ==
  ASSUME NEW t, NEW rank, NEW S, IsFiniteSet(S)
  PROVE  /\ Cardinality(S) \in Nat
         /\ Walk(t, rank, S) \in Seq({Walk(t, rank, S)[i] : i \in 1 .. Cardinality(S)})
         /\ Len(Walk(t, rank, S)) = Cardinality(S)
         /\ DOMAIN Walk(t, rank, S) = 1 .. Cardinality(S)
<1> DEFINE w == Walk(t, rank, S)
           n == Cardinality(S)
<1>1. n \in Nat
  BY FS_CardinalityType
<1>2. w = [i \in 1 .. n |-> w[i]] /\ DOMAIN w = 1 .. n
  BY DEF Walk
<1> HIDE DEF w, n
<1>3. w \in Seq({w[i] : i \in 1 .. n}) /\ Len(w) = n
  BY <1>1, <1>2, IsASeq, LenProperties
<1> QED BY <1>1, <1>2, <1>3 DEF w, n

Above(t, S, a) == {b \in S : RowBefore(t, b, a)}

\* The walk over a finite set of paths has each of them in one row.
LEMMA WalkRows ==
  ASSUME NEW t, NEW S \in SUBSET Paths, IsFiniteSet(S)
  PROVE  {Walk(t, NameRank, S)[i] : i \in 1 .. Cardinality(S)} = S
<1> DEFINE n == Cardinality(S)
           above(a) == Above(t, S, a)
           place == [a \in S |-> Cardinality(above(a))]
<1>1. n \in Nat
  BY FS_CardinalityType
<1>2. ASSUME NEW a \in S
      PROVE  /\ IsFiniteSet(above(a)) /\ Cardinality(above(a)) \in Nat
             /\ a \notin above(a) /\ above(a) \subseteq S
  BY <1>2, FS_Subset, FS_CardinalityType, NotBeforeItself DEF Above
<1>3. ASSUME NEW a \in S PROVE Cardinality(above(a)) \in 0 .. n - 1
  <2>1. Cardinality(above(a)) <= n /\ Cardinality(above(a)) # n
    BY <1>2, FS_Subset
  <2> QED BY <1>1, <1>2, <2>1
<1>4. ASSUME NEW a \in S, NEW b \in S, RowBefore(t, a, b)
      PROVE  Cardinality(above(a)) < Cardinality(above(b))
  <2>1. above(a) \subseteq above(b)
    BY <1>4, BeforeTransitive DEF Above
  <2>2. a \in above(b) /\ a \notin above(a)
    BY <1>2, <1>4 DEF Above
  <2>3. /\ Cardinality(above(a)) <= Cardinality(above(b))
        /\ Cardinality(above(b)) # Cardinality(above(a))
    BY <1>2, <2>1, <2>2, FS_Subset
  <2> QED BY <1>2, <2>3
<1>5. ASSUME NEW a \in S, NEW b \in S, a # b PROVE place[a] # place[b]
  <2>1. RowBefore(t, a, b) \/ RowBefore(t, b, a)
    BY <1>5, OneIsBefore
  <2> QED BY <1>2, <1>4, <2>1
<1>6. place \in Injection(S, 0 .. n - 1)
  BY <1>3, <1>5 DEF Injection, IsInjective
<1>7. IsFiniteSet(0 .. n - 1) /\ Cardinality(0 .. n - 1) = n
  BY <1>1, FS_Interval
<1>8. \A i \in 0 .. n - 1 : \E a \in S : place[a] = i
  <2>1. place \in Surjection(S, 0 .. n - 1)
    BY <1>6, <1>7, FS_Injection
  <2> QED BY <2>1 DEF Surjection
<1>9. ASSUME NEW a \in S
      PROVE  {m \in S : Precedes(t, NameRank, m, a)} = above(a)
  BY PrecedesMeans DEF Above
<1>10. ASSUME NEW i \in 1 .. n
       PROVE  /\ Walk(t, NameRank, S)[i] \in S
              /\ place[Walk(t, NameRank, S)[i]] = i - 1
  <2>1. Walk(t, NameRank, S)[i] =
          CHOOSE a \in S : Cardinality({m \in S : Precedes(t, NameRank, m, a)}) = i - 1
    BY DEF Walk
  <2>2. PICK a \in S : place[a] = i - 1
    BY <1>1, <1>8
  <2>3. Cardinality({m \in S : Precedes(t, NameRank, m, a)}) = i - 1
    BY <1>9, <2>2
  <2>4. /\ Walk(t, NameRank, S)[i] \in S
        /\ Cardinality({m \in S : Precedes(t, NameRank, m, Walk(t, NameRank, S)[i])}) = i - 1
    BY <2>1, <2>3
  <2> QED BY <1>9, <2>4
<1>11. ASSUME NEW a \in S PROVE \E i \in 1 .. n : Walk(t, NameRank, S)[i] = a
  <2>1. PICK k \in 0 .. n - 1 : k = place[a]
    BY <1>3
  <2>2. PICK i \in 1 .. n : i - 1 = k
    <3>1. k + 1 \in 1 .. n /\ (k + 1) - 1 = k
      BY <1>1
    <3> QED BY <3>1
  <2>3. Walk(t, NameRank, S)[i] \in S /\ place[Walk(t, NameRank, S)[i]] = place[a]
    BY <1>10, <2>1, <2>2
  <2>4. Walk(t, NameRank, S)[i] = a
    BY <1>5, <2>3
  <2> QED BY <2>4
<1> QED BY <1>10, <1>11
-----------------------------------------------------------------------------
(* The tree and the list of its rows *)

Statuses == {"onlyA", "onlyB", "same", "diff", "bindiff"}

GoodTree(t) == /\ IsFiniteSet(DOMAIN t)
               /\ DOMAIN t \subseteq Paths \ {<< >>}
               /\ \A f \in DOMAIN t : t[f].status \in Statuses

LEMMA LoadedIsGood ==
  ASSUME NEW d \in Disks
  PROVE  GoodTree(Loaded(d))
<1> DEFINE entries == BuildEntries(d[1], d[2])
<1>1. /\ DOMAIN d[1] \subseteq Paths \ {<< >>} /\ IsFiniteSet(DOMAIN d[1])
      /\ DOMAIN d[2] \subseteq Paths \ {<< >>} /\ IsFiniteSet(DOMAIN d[2])
  BY TreeDiffAssumption DEF Paths
<1>2. /\ DOMAIN entries = DOMAIN d[1] \cup DOMAIN d[2]
      /\ \A f \in DOMAIN entries : entries[f].status \in Statuses
  BY DEF BuildEntries, Entry, Compare, Statuses
<1>3. IsFiniteSet(DOMAIN entries) /\ DOMAIN entries \subseteq Paths \ {<< >>}
  BY <1>1, <1>2, FS_Union
<1> HIDE DEF entries
<1>4. /\ DOMAIN BuildTree(entries) \subseteq DOMAIN entries
      /\ \A f \in DOMAIN BuildTree(entries) : BuildTree(entries)[f] = entries[f]
  BY DEF BuildTree
<1>5. IsFiniteSet(DOMAIN BuildTree(entries))
  BY <1>3, <1>4, FS_Subset
<1>6. Loaded(d) = BuildTree(entries)
  BY DEF Loaded, entries
<1> QED BY <1>2, <1>3, <1>4, <1>5, <1>6 DEF GoodTree

\* The directories above a path.
Ups(n) == {SubSeq(n, 1, i) : i \in 1 .. Len(n) - 1}

LEMMA UpsFacts ==
  ASSUME NEW n \in Paths
  PROVE  IsFiniteSet(Ups(n)) /\ Ups(n) \subseteq Paths
<1>1. Len(n) \in Nat /\ \A i \in 1 .. Len(n) : n[i] \in FileNames
  BY ElementOfSeq DEF Paths
<1>2. ASSUME NEW i \in 1 .. Len(n) - 1 PROVE SubSeq(n, 1, i) \in Paths
  BY <1>1, SubSeqProperties DEF Paths
<1> DEFINE f == [i \in 1 .. Len(n) - 1 |-> SubSeq(n, 1, i)]
<1>3. f \in Surjection(1 .. Len(n) - 1, Ups(n))
  BY DEF Surjection, Ups
<1>4. IsFiniteSet(1 .. Len(n) - 1)
  BY <1>1, FS_Interval
<1>5. IsFiniteSet(Ups(n))
  BY <1>3, <1>4, FS_Surjection
<1> QED BY <1>2, <1>5 DEF Ups

LEMMA NodesFinite ==
  ASSUME NEW t, GoodTree(t)
  PROVE  IsFiniteSet(Nodes(t)) /\ Nodes(t) \subseteq Paths
<1> DEFINE U == {Ups(n) : n \in DOMAIN t}
           f == [n \in DOMAIN t |-> Ups(n)]
<1>1. f \in Surjection(DOMAIN t, U)
  BY DEF Surjection
<1>2. IsFiniteSet(U)
  BY <1>1, FS_Surjection DEF GoodTree
<1>3. \A T \in U : IsFiniteSet(T) /\ T \subseteq Paths
  BY UpsFacts DEF GoodTree
<1>4. Dirs(t) = UNION U
  BY DEF Dirs, Ups
<1>5. IsFiniteSet(Dirs(t)) /\ Dirs(t) \subseteq Paths
  BY <1>2, <1>3, <1>4, FS_UNION
<1> QED BY <1>5, FS_Union DEF Nodes, GoodTree

Visible(t, hs, ho) == {f \in DOMAIN t : ~FileHidden(t, hs, ho, f)}

\* The nodes the list is made of.
Listed(t, ex, hs, ho, ft) ==
  IF ft # NoFilter THEN Visible(t, hs, ho) \cap ft
  ELSE {n \in Nodes(t) : /\ \E f \in Visible(t, hs, ho) : IsPrefix(n, f)
                         /\ Ups(n) \subseteq ex}

LEMMA ViewFacts ==
  ASSUME NEW t, GoodTree(t), NEW ex, NEW hs, NEW ho, NEW ft, NEW v,
         v = BuildView(t, ex, hs, ho, ft)
  PROVE  /\ Cardinality(Nodes(t)) \in Nat
         /\ Len(v) \in 0 .. Cardinality(Nodes(t))
         /\ v = << >> <=> Len(v) = 0
         /\ {v[i] : i \in DOMAIN v} = Listed(t, ex, hs, ho, ft)
<1> DEFINE S == Listed(t, ex, hs, ho, ft)
<1>1. v = Walk(t, NameRank, S)
  BY DEF BuildView, Listed, Visible, Ups
<1>2. S \subseteq Nodes(t)
  BY DEF Listed, Visible, Nodes
<1>3. IsFiniteSet(Nodes(t)) /\ Nodes(t) \subseteq Paths
  BY NodesFinite
<1>4. IsFiniteSet(S) /\ Cardinality(S) <= Cardinality(Nodes(t)) /\ S \in SUBSET Paths
  BY <1>2, <1>3, FS_Subset
<1> HIDE DEF S
<1>5. /\ Cardinality(S) \in Nat
      /\ v \in Seq({v[i] : i \in 1 .. Cardinality(S)})
      /\ Len(v) = Cardinality(S) /\ DOMAIN v = 1 .. Cardinality(S)
  BY <1>1, <1>4, WalkIsSeq
<1>6. v = << >> <=> Len(v) = 0
  BY <1>5, EmptySeq
<1>7. {v[i] : i \in 1 .. Cardinality(S)} = S
  BY <1>1, <1>4, WalkRows
<1>8. Cardinality(Nodes(t)) \in Nat
  BY <1>3, FS_CardinalityType
<1> QED BY <1>4, <1>5, <1>6, <1>7, <1>8 DEF S

-----------------------------------------------------------------------------
(* The invariant, and the frame that restores it *)

TuiInv == /\ TuiTypeOK
          /\ GoodTree(tree)
          /\ view = BuildView(tree, expanded, hideSame, hideOnly, filt)
          /\ SelectionOnScreen
          /\ running # "died" /\ view = << >> => sel = 0

LEMMA BodyType == \A b \in BodyHeights : b \in Nat /\ b > 0
<1>1. BodyHeights \subseteq Nat \ {0}
  BY TreeDiffAssumption
<1> QED BY <1>1

LEMMA InitTuiInv == TuiInit => TuiInv
<1> SUFFICES ASSUME TuiInit PROVE TuiInv
  OBVIOUS
<1>1. disk \in Disks /\ GoodTree(tree)
  BY LoadedIsGood DEF TuiInit
<1>2. /\ view = BuildView(tree, expanded, hideSame, hideOnly, filt)
      /\ sel = 0 /\ top = 0 /\ running = "tui" /\ body \in BodyHeights
  BY DEF TuiInit
<1>3. /\ Len(view) \in Nat /\ view # << >> => Len(view) # 0
      /\ Cardinality(Nodes(tree)) \in Nat
  BY <1>1, <1>2, ViewFacts
<1>4. SelectionOnScreen
  BY <1>2, <1>3, BodyType DEF SelectionOnScreen
<1>5. TuiTypeOK
  <2>1. sel \in -1 .. Cardinality(Nodes(tree)) /\ top \in Int
    BY <1>2, <1>3
  <2>2. expanded \subseteq Dirs(tree) /\ hideSame \in BOOLEAN /\ hideOnly \in BOOLEAN
        /\ filt \in Filters \cup {NoFilter}
    BY DEF TuiInit
  <2> QED BY <1>1, <1>2, <2>1, <2>2 DEF TuiTypeOK, GoodTree, Statuses
<1> QED BY <1>1, <1>2, <1>4, <1>5 DEF TuiInv

LEMMA ClampTopAbove ==
  ASSUME NEW r \in Nat, NEW s \in Int, s < 0, NEW b \in Nat, NEW v, v = ClampTop(r, s, b)
  PROVE  v = s /\ v \in Int
  BY DEF ClampTop

\* Whatever row a key asks for, but for -1 in an empty list, the frame finds one.
LEMMA FrameSelects ==
  ASSUME GoodTree(tree)', NEW s \in Int, NEW r \in Nat, NEW b \in BodyHeights, body' = b,
         s >= 0 \/ (s = -1 /\ view' = << >>),
         Frame(s, r, b)
  PROVE  /\ (view = BuildView(tree, expanded, hideSame, hideOnly, filt))'
         /\ SelectionOnScreen'
         /\ (running # "died" /\ view = << >> => sel = 0)'
         /\ (sel \in -1 .. Cardinality(Nodes(tree)))' /\ top' \in Int
         /\ running' \in {"tui", "died"}
<1> DEFINE n == Len(view')
<1>1. view' = BuildView(tree', expanded', hideSame', hideOnly', filt')
  BY DEF Frame
<1>2. /\ Cardinality(Nodes(tree')) \in Nat /\ n \in 0 .. Cardinality(Nodes(tree'))
      /\ view' = << >> <=> n = 0
  BY <1>1, ViewFacts
<1>3. b \in Nat /\ b > 0
  BY BodyType
<1>4. /\ sel' = ClampSel(s, n) /\ top' = ClampTop(r, sel', b)
      /\ running' = IF top' < 0 /\ n = 0 THEN "died" ELSE "tui"
  BY DEF Frame
<1>5. CASE s = -1 /\ n = 0
  <2>1. sel' = -1
    BY <1>4, <1>5 DEF ClampSel
  <2>2. top' = -1
    <3>1. top' = ClampTop(r, -1, b) /\ -1 \in Int /\ -1 < 0
      BY <1>4, <2>1
    <3> QED BY <1>3, <3>1, ClampTopAbove
  <2>3. running' = "died"
    BY <1>4, <1>5, <2>2
  <2> QED BY <1>1, <1>2, <1>5, <2>1, <2>2, <2>3 DEF SelectionOnScreen
<1>6. CASE s >= 0
  <2>1. sel' \in Nat /\ (n = 0 => sel' = 0) /\ (n # 0 => sel' < n)
    BY <1>2, <1>4, <1>6 DEF ClampSel
  <2>2. 0 <= top' /\ top' <= sel' /\ sel' < top' + b /\ top' \in Int
    BY <1>3, <1>4, <2>1 DEF ClampTop
  <2>3. running' = "tui"
    BY <1>4, <2>2
  <2> QED BY <1>1, <1>2, <2>1, <2>2, <2>3 DEF SelectionOnScreen
<1> QED BY <1>2, <1>5, <1>6

\* Where the selection is while the interface runs.
LEMMA Selected ==
  ASSUME TuiInv, running = "tui"
  PROVE  /\ sel \in Nat /\ top \in Nat /\ body \in Nat /\ body > 0 /\ body \in BodyHeights
         /\ Len(view) \in Nat /\ (view = << >> <=> Len(view) = 0)
         /\ view # << >> => sel < Len(view)
<1>1. Len(view) \in Nat /\ (view = << >> <=> Len(view) = 0)
  BY ViewFacts DEF TuiInv
<1>2. sel \in Int /\ top \in Int /\ body \in BodyHeights /\ body \in Nat /\ body > 0
  <2>1. Cardinality(Nodes(tree)) \in Nat
    BY NodesFinite, FS_CardinalityType DEF TuiInv
  <2> QED BY <2>1, BodyType DEF TuiInv, TuiTypeOK
<1> QED BY <1>1, <1>2 DEF TuiInv, SelectionOnScreen

-----------------------------------------------------------------------------
(* The keys *)

\* What a key leaves to the frame keeps its type.
KeyKeeps == /\ disk' \in Disks
            /\ GoodTree(tree)'
            /\ (expanded \subseteq Dirs(tree))'
            /\ hideSame' \in BOOLEAN /\ hideOnly' \in BOOLEAN
            /\ filt' \in Filters \cup {NoFilter}
            /\ body' \in BodyHeights

LEMMA FrameKeeps ==
  ASSUME KeyKeeps, NEW s \in Int, NEW r \in Nat,
         s >= 0 \/ (s = -1 /\ view' = << >>),
         Frame(s, r, body')
  PROVE  TuiInv'
<1>1. GoodTree(tree)' /\ body' \in BodyHeights
  BY DEF KeyKeeps
<1>2. /\ (view = BuildView(tree, expanded, hideSame, hideOnly, filt))'
      /\ SelectionOnScreen'
      /\ (running # "died" /\ view = << >> => sel = 0)'
      /\ (sel \in -1 .. Cardinality(Nodes(tree)))' /\ top' \in Int
      /\ running' \in {"tui", "died"}
  BY <1>1, FrameSelects
<1>3. TuiTypeOK'
  BY <1>1, <1>2 DEF TuiTypeOK, KeyKeeps, GoodTree, Statuses
<1> QED BY <1>1, <1>2, <1>3 DEF TuiInv

LEMMA MoveStep ==
  ASSUME TuiInv, Move
  PROVE  TuiInv'
<1>1. running = "tui"
  BY DEF Move, Down, Up, NextPage, PrevPage, Home, End, MoveTo
<1>2. /\ sel \in Nat /\ top \in Nat /\ body \in Nat /\ body > 0
      /\ Len(view) \in Nat /\ (view = << >> <=> Len(view) = 0)
  BY <1>1, Selected
<1>3. PICK s \in Int : MoveTo(s) /\ (s >= 0 \/ (s = -1 /\ view = << >>))
  <2>1. \E s \in {Least(Len(view) - 1, sel + 1), IF sel = 0 THEN 0 ELSE sel - 1,
                  Least(Len(view) - 1, sel + body), IF sel < body THEN 0 ELSE sel - body,
                  0, Len(view) - 1} : MoveTo(s)
    BY DEF Move, Down, Up, NextPage, PrevPage, Home, End
  <2>2. \A s \in {Least(Len(view) - 1, sel + 1), IF sel = 0 THEN 0 ELSE sel - 1,
                  Least(Len(view) - 1, sel + body), IF sel < body THEN 0 ELSE sel - body,
                  0, Len(view) - 1} :
          s \in Int /\ (s >= 0 \/ (s = -1 /\ view = << >>))
    BY <1>2 DEF Least
  <2> QED BY <2>1, <2>2
<1>4. UNCHANGED <<disk, tree, expanded, hideSame, hideOnly, filt, body>> /\ Frame(s, top, body)
  BY <1>3 DEF MoveTo, Settings
<1>5. view' = view
  BY <1>4 DEF Frame, TuiInv
<1>6. KeyKeeps
  BY <1>4 DEF KeyKeeps, TuiInv, TuiTypeOK
<1> QED BY <1>2, <1>3, <1>4, <1>5, <1>6, FrameKeeps

LEMMA FoldStep ==
  ASSUME TuiInv, NEW ex \in SUBSET Dirs(tree), NEW s \in Nat, Fold(ex, s)
  PROVE  TuiInv'
<1>1. running = "tui" /\ expanded' = ex
      /\ UNCHANGED <<disk, tree, hideSame, hideOnly, filt, body>> /\ Frame(s, top, body)
  BY DEF Fold, Settings
<1>2. KeyKeeps
  BY <1>1 DEF KeyKeeps, TuiInv, TuiTypeOK
<1>3. top \in Nat
  BY <1>1, Selected
<1> QED BY <1>1, <1>2, <1>3, FrameKeeps

LEMMA FoldingStep ==
  ASSUME TuiInv, Right \/ Left \/ Activate \/ ToggleAll \/ \E row \in 0 .. body - 1 : Click(row)
  PROVE  TuiInv'
<1>1. running = "tui"
  BY DEF Right, Left, Activate, ToggleAll, Click, Fold
<1>2. sel \in Nat /\ top \in Nat /\ body \in Nat
  BY <1>1, Selected
<1>3. expanded \subseteq Dirs(tree)
  BY DEF TuiInv, TuiTypeOK
<1>4. ASSUME NEW i, DirAt(i) PROVE AtRow(i) \in Dirs(tree) /\ Unfolded(AtRow(i)) \subseteq Dirs(tree)
  BY <1>3, <1>4 DEF DirAt, Unfolded
<1>5. CASE Right \/ Left \/ Activate \/ ToggleAll
  <2>1. PICK ex \in SUBSET Dirs(tree) : Fold(ex, sel)
    BY <1>3, <1>4, <1>5 DEF Right, Left, Activate, ToggleAll
  <2> QED BY <1>2, <2>1, FoldStep
<1>6. ASSUME NEW row \in 0 .. body - 1, Click(row) PROVE TuiInv'
  <2>1. PICK ex \in SUBSET Dirs(tree) : Fold(ex, top + row)
    BY <1>3, <1>4, <1>6 DEF Click
  <2>2. top + row \in Nat
    BY <1>2
  <2> QED BY <2>1, <2>2, FoldStep
<1> QED BY <1>5, <1>6

LEMMA SettingsStep ==
  ASSUME TuiInv, HideSame \/ HideOnly \/ \E f \in Filters \cup {NoFilter} : PromptFilter(f)
  PROVE  TuiInv'
<1>1. KeyKeeps /\ Frame(0, 0, body) /\ body' = body
  BY DEF HideSame, HideOnly, Hide, PromptFilter, KeyKeeps, TuiInv, TuiTypeOK
<1> QED BY <1>1, FrameKeeps

LEMMA ReloadStep ==
  ASSUME TuiInv, Reload
  PROVE  TuiInv'
<1>1. running = "tui" /\ tree' = Loaded(disk) /\ expanded' = KeepExpanded(tree')
      /\ UNCHANGED <<disk, hideSame, hideOnly, filt, body>>
  BY DEF Reload, Settings
<1>2. sel \in Nat /\ top \in Nat
  BY <1>1, Selected
<1>3. KeyKeeps
  BY <1>1, LoadedIsGood DEF KeyKeeps, KeepExpanded, TuiInv, TuiTypeOK
<1>4. Len(view') \in Nat /\ (view' = << >> <=> Len(view') = 0)
  BY <1>3, ViewFacts DEF KeyKeeps, Reload, Frame
<1>5. PICK s \in Nat : Frame(s, top, body)
  <2>1. (IF view' = << >> THEN 0 ELSE Least(sel, Len(view') - 1)) \in Nat
    BY <1>2, <1>4 DEF Least
  <2> QED BY <2>1 DEF Reload
<1> QED BY <1>1, <1>2, <1>3, <1>5, FrameKeeps

LEMMA ResizeStep ==
  ASSUME TuiInv, NEW b \in BodyHeights, Resize(b)
  PROVE  TuiInv'
<1>1. running = "tui" /\ body' = b /\ Frame(sel, top, b)
      /\ UNCHANGED <<disk, tree, expanded, hideSame, hideOnly, filt>>
  BY DEF Resize, Settings
<1>2. sel \in Nat /\ top \in Nat
  BY <1>1, Selected
<1>3. KeyKeeps
  BY <1>1 DEF KeyKeeps, TuiInv, TuiTypeOK
<1> QED BY <1>1, <1>2, <1>3, FrameKeeps

\* Steps without a frame.
LEMMA StillStep ==
  ASSUME TuiInv, Quit \/ (\E d \in Disks : Edit(d)) \/ UNCHANGED tuiVars
  PROVE  TuiInv'
<1>1. /\ UNCHANGED <<tree, expanded, hideSame, hideOnly, filt, view, sel, top, body>>
      /\ disk' \in Disks
      /\ running' = running \/ (running = "tui" /\ running' = "left")
  BY DEF Quit, Edit, tuiVars, Settings, TuiInv, TuiTypeOK
<1> QED BY <1>1 DEF TuiInv, TuiTypeOK, SelectionOnScreen

LEMMA NextTuiInv == TuiInv /\ [TuiNext]_tuiVars => TuiInv'
  BY MoveStep, FoldingStep, SettingsStep, ReloadStep, ResizeStep, StillStep DEF TuiNext

LEMMA AlwaysTuiInv == TuiSpec => []TuiInv
  BY InitTuiInv, NextTuiInv, PTL DEF TuiSpec

-----------------------------------------------------------------------------
(* The interface keeps its word *)

\* The variables of the interface keep to their types: what is unfolded stays
\* a directory of the tree that is shown, whatever was reloaded.
THEOREM TuiTypeCorrect == TuiSpec => []TuiTypeOK
<1>1. TuiInv => TuiTypeOK
  BY DEF TuiInv
<1> QED BY <1>1, AlwaysTuiInv, PTL

\* Whatever is folded, hidden, reloaded or resized, the row that is selected is
\* on the screen, and only an empty list ends the interface.
THEOREM CursorSeen == TuiSpec => []SelectionOnScreen
<1>1. TuiInv => SelectionOnScreen
  BY DEF TuiInv
<1> QED BY <1>1, AlwaysTuiInv, PTL

\* A file that is not hidden is in the list or below a row that can be unfolded,
\* and every row leads to such a file.
THEOREM ListComplete == TuiSpec => []NothingLost
<1>1. ASSUME TuiInv, filt = NoFilter, NEW f \in DOMAIN tree,
             ~FileHidden(tree, hideSame, hideOnly, f)
      PROVE  \E n \in {view[i] : i \in DOMAIN view} :
               IsPrefix(n, f) /\ (n = f \/ n \notin expanded)
  <2>1. GoodTree(tree) /\ f \in Paths /\ f # << >> /\ Len(f) \in Nat /\ Len(f) # 0
    BY <1>1, EmptySeq DEF TuiInv, GoodTree, Paths
  <2> DEFINE T == {k \in 1 .. Len(f) : k = Len(f) \/ SubSeq(f, 1, k) \notin expanded}
  <2>2. PICK k \in T : \A m \in T : k <= m
    <3>1. Len(f) \in T /\ T \subseteq Nat
      BY <2>1
    <3> QED BY <3>1, LeastOf
  <2> DEFINE n == SubSeq(f, 1, k)
  <2>3. k \in 1 .. Len(f) /\ k \in Nat
    BY <2>1, <2>2
  <2>4. n \in Paths /\ Len(n) = k /\ \A j \in 1 .. k : n[j] = f[j]
    <3>1. \A j \in 1 .. k : f[j] \in FileNames
      BY <2>1, <2>3, ElementOfSeq DEF Paths
    <3> QED BY <2>3, <3>1, SubSeqProperties DEF Paths
  <2>5. k = Len(f) => n = f
    BY <2>1, SubSeqFull DEF Paths
  <2>6. n = f \/ n \notin expanded
    BY <2>2, <2>5
  <2>7. n \in Nodes(tree)
    <3>1. CASE k = Len(f)
      BY <1>1, <2>5, <3>1 DEF Nodes
    <3>2. CASE k # Len(f)
      <4>1. k \in 1 .. Len(f) - 1
        BY <2>1, <2>3, <3>2
      <4> QED BY <4>1 DEF Nodes, Dirs
    <3> QED BY <3>1, <3>2
  <2>8. IsPrefix(n, f)
    <3>1. Len(n) <= Len(f) /\ \A j \in 1 .. Len(n) : n[j] = f[j]
      BY <2>1, <2>3, <2>4
    <3> QED BY <2>1, <2>4, <3>1, PrefixMeans
  <2>9. Ups(n) \subseteq expanded
    <3>1. ASSUME NEW i \in 1 .. Len(n) - 1 PROVE SubSeq(n, 1, i) \in expanded
      <4>1. i \in Nat /\ i < k /\ i \in 1 .. Len(f) /\ i # Len(f)
        BY <2>1, <2>3, <2>4
      <4>2. SubSeq(n, 1, i) = SubSeq(f, 1, i)
        BY <2>1, <2>3, <2>4, <4>1, SubSeqAlike
      <4>3. i \notin T
        BY <2>2, <2>3, <4>1
      <4> QED BY <4>1, <4>2, <4>3
    <3> QED BY <3>1 DEF Ups
  <2> HIDE DEF n, T
  <2>10. n \in Listed(tree, expanded, hideSame, hideOnly, filt)
    BY <1>1, <2>7, <2>8, <2>9 DEF Listed, Visible
  <2>11. n \in {view[i] : i \in DOMAIN view}
    BY <1>1, <2>1, <2>10, ViewFacts DEF TuiInv
  <2> QED BY <2>6, <2>8, <2>11
<1>2. ASSUME TuiInv, filt = NoFilter, NEW n \in {view[i] : i \in DOMAIN view}
      PROVE  \E f \in DOMAIN tree : IsPrefix(n, f) /\ ~FileHidden(tree, hideSame, hideOnly, f)
  <2>1. n \in Listed(tree, expanded, hideSame, hideOnly, filt)
    BY <1>2, ViewFacts DEF TuiInv
  <2> QED BY <1>2, <2>1 DEF Listed, Visible
<1>3. TuiInv => NothingLost
  BY <1>1, <1>2 DEF NothingLost
<1> QED BY <1>3, AlwaysTuiInv, PTL

\* Reading the same trees again changes nothing that is shown.
THEOREM PlaceKept == TuiSpec => ReloadKeepsPlace
<1>1. ASSUME TuiInv, Reload, tree' = tree
      PROVE  view' = view /\ UNCHANGED <<sel, top, expanded>>
  <2>1. running = "tui" /\ expanded' = expanded /\ UNCHANGED <<hideSame, hideOnly, filt, body>>
    BY <1>1 DEF Reload, Settings, KeepExpanded, TuiInv, TuiTypeOK
  <2>2. view' = view
    BY <1>1, <2>1 DEF Reload, Frame, TuiInv
  <2>3. /\ sel \in Nat /\ top \in Nat /\ body \in Nat /\ body > 0
        /\ Len(view) \in Nat /\ (view = << >> <=> Len(view) = 0)
        /\ view # << >> => sel < Len(view)
    BY <1>1, <2>1, Selected
  <2>4. top <= sel /\ sel < top + body /\ (view = << >> => sel = 0)
    BY <1>1, <2>1 DEF TuiInv, SelectionOnScreen
  <2>5. (IF view' = << >> THEN 0 ELSE Least(sel, Len(view') - 1)) = sel
    BY <2>2, <2>3, <2>4 DEF Least
  <2>6. Frame(sel, top, body)
    BY <1>1, <2>5 DEF Reload
  <2>7. sel' = sel
    BY <2>2, <2>3, <2>4, <2>6 DEF Frame, ClampSel
  <2>8. top' = top
    BY <2>3, <2>4, <2>6, <2>7 DEF Frame, ClampTop
  <2> QED BY <2>1, <2>2, <2>7, <2>8
<1>2. TuiInv /\ [TuiNext]_tuiVars => [Reload /\ tree' = tree =>
                                       view' = view /\ UNCHANGED <<sel, top, expanded>>]_tuiVars
  BY <1>1
<1> QED BY <1>2, AlwaysTuiInv, PTL DEF TuiSpec, ReloadKeepsPlace

-----------------------------------------------------------------------------
(* The computations: a result is that of its input; the N-th hop *)

\* What is there is an input of the algorithm, and then what it makes of it.
Computed ==
  /\ alg = "spec" => /\ input \in Documented
                     /\ output # << >> =>
                          output = << [here   |-> Parse(Text(input)),
                                       remote |-> Parse(RemoteSpec(Text(input)))] >>
  /\ alg = "hop" => /\ input \in HopInputs
                    /\ output # << >> =>
                         output = << HopLookup(input.path1, input.path2, input.talks, input.n, input.lost) >>
  /\ alg = "gateway" => /\ input \in GatewayInputs
                        /\ output # << >> =>
                             output = << GatewayLookup(input.gw4, input.gw6, input.ifaces,
                                                       input.iface, input.fam) >>
  /\ alg = "ping" => /\ input \in PingInputs
                     /\ output # << >> =>
                          output = << PingOnce(input.name, input.said, input.end) >>
  /\ alg = "tree" => /\ input \in TreeInputs
                     /\ output # << >> => output = << Compared(input[1], input[2]) >>
  /\ alg = "snap" => /\ input \in SnapInputs
                     /\ output # << >> => output = << StatusReport(input) >>

LEMMA InitComputed == AlgInit => Computed
  BY DEF AlgInit, Computed

LEMMA NextComputed == Computed /\ [AlgNext]_algVars => Computed'
<1> SUFFICES ASSUME Computed, [AlgNext]_algVars PROVE Computed'
  OBVIOUS
<1>1. CASE UNCHANGED algVars
  BY <1>1 DEF Computed, algVars
<1>2. CASE AlgNext
  <2>1. UNCHANGED <<alg, input>> /\ output = << >>
    BY <1>2 DEF AlgNext, ParseSpec, Hop, If, Gateway, Dns, Ping, Tree, Stats, Report, Return
  <2>2. ASSUME alg = "hop"
        PROVE  output' = << HopLookup(input.path1, input.path2, input.talks, input.n, input.lost) >>
    BY <1>2, <2>2 DEF AlgNext, ParseSpec, Hop, If, Gateway, Dns, Ping, Tree, Stats, Report, Return
  <2>3. ASSUME alg = "gateway"
        PROVE  output' = << GatewayLookup(input.gw4, input.gw6, input.ifaces,
                                          input.iface, input.fam) >>
    BY <1>2, <2>3 DEF AlgNext, ParseSpec, Hop, If, Gateway, Dns, Ping, Tree, Stats, Report, Return
  <2>4. ASSUME alg = "ping"
        PROVE  output' = << PingOnce(input.name, input.said, input.end) >>
    BY <1>2, <2>4 DEF AlgNext, ParseSpec, Hop, If, Gateway, Dns, Ping, Tree, Stats, Report, Return
  <2>5. ASSUME alg = "tree" PROVE output' = << Compared(input[1], input[2]) >>
    BY <1>2, <2>5 DEF AlgNext, ParseSpec, Hop, If, Gateway, Dns, Ping, Tree, Stats, Report, Return
  <2>6. ASSUME alg = "snap" PROVE output' = << StatusReport(input) >>
    BY <1>2, <2>6 DEF AlgNext, ParseSpec, Hop, If, Gateway, Dns, Ping, Tree, Stats, Report, Return
  <2>7. ASSUME alg = "spec"
        PROVE  output' = << [here   |-> Parse(Text(input)),
                             remote |-> Parse(RemoteSpec(Text(input)))] >>
    BY <1>2, <2>7 DEF AlgNext, ParseSpec, Hop, If, Gateway, Dns, Ping, Tree, Stats, Report, Return
  <2> QED BY <2>1, <2>2, <2>3, <2>4, <2>5, <2>6, <2>7 DEF Computed
<1> QED BY <1>1, <1>2

\* The target answers a probe exactly if it is nearer than the hops reach and no
\* router refuses; an address in an answer is that of the hop, or of a nearer router
\* that sends redirects.
ProbeSays(r, path, talks, ttl, lost) ==
  /\ r.kind \in {"silent", "error", "reply", "exceeded"}
  /\ r.kind = "exceeded" =>
       /\ ttl <= Len(path)
       /\ \E i \in 1 .. ttl : r.ip = path[i] /\ (i < ttl => path[i] \in talks)
       /\ r.ip # "target"
  /\ r.kind = "reply" <=> /\ ~lost /\ ttl > Len(path)
                          /\ \A i \in DOMAIN path : path[i] # "refuses"

LEMMA ProbeTells ==
  ASSUME NEW path \in Seq(STRING \ {"target"}), NEW talks, NEW ttl \in Nat \ {0},
         NEW lost \in BOOLEAN
  PROVE  ProbeSays(HopProbe(path, talks, ttl, lost), path, talks, ttl, lost)
<1> DEFINE refused  == \E i \in DOMAIN path : i <= ttl /\ path[i] = "refuses"
           redirect == Redirects(path, talks, ttl)
           router   == IF redirect = {} THEN ttl ELSE Min(redirect)
           r        == HopProbe(path, talks, ttl, lost)
<1>1. /\ Len(path) \in Nat /\ DOMAIN path = 1 .. Len(path)
      /\ \A i \in 1 .. Len(path) : path[i] # "target"
  OBVIOUS
<1>2. ~(ttl <= Len(path)) <=> ttl > Len(path)
  BY <1>1
<1>3. ttl > Len(path) => (refused <=> \E i \in DOMAIN path : path[i] = "refuses")
  BY <1>1
<1>4. redirect # {} => Min(redirect) \in redirect
  <2> SUFFICES ASSUME redirect # {} PROVE Min(redirect) \in redirect
    OBVIOUS
  <2>1. redirect \subseteq Nat
    BY <1>1 DEF Redirects
  <2>2. PICK k \in redirect : \A i \in redirect : k <= i
    BY <2>1, LeastOf
  <2> HIDE DEF redirect
  <2> QED BY <2>2 DEF Min
<1>5. ttl <= Len(path) =>
        /\ router \in 1 .. ttl /\ path[router] # "target"
        /\ router < ttl => path[router] \in talks
  BY <1>1, <1>4 DEF Redirects
<1>6. r = IF ~lost /\ ~refused /\ ttl <= Len(path) /\ path[ttl] # "silent"
            THEN [kind |-> "exceeded", ip |-> path[router]]
          ELSE IF ~lost /\ ~refused /\ ttl > Len(path) THEN [kind |-> "reply"]
          ELSE IF (~lost /\ refused) \/ redirect # {} THEN [kind |-> "error"]
          ELSE [kind |-> "silent"]
  BY DEF HopProbe
<1> SUFFICES ProbeSays(r, path, talks, ttl, lost)
  OBVIOUS
<1> HIDE DEF r, refused, redirect, router
<1>7. CASE ~lost /\ ~refused /\ ttl <= Len(path) /\ path[ttl] # "silent"
  <2>1. r = [kind |-> "exceeded", ip |-> path[router]]
    BY <1>6, <1>7
  <2> QED BY <1>2, <1>5, <1>7, <2>1 DEF ProbeSays
<1>8. CASE ~lost /\ ~refused /\ ttl > Len(path)
  <2>1. r = [kind |-> "reply"]
    BY <1>2, <1>6, <1>8
  <2> QED BY <1>3, <1>8, <2>1 DEF ProbeSays
<1>9. CASE /\ ~(~lost /\ ~refused /\ ttl <= Len(path) /\ path[ttl] # "silent")
           /\ ~(~lost /\ ~refused /\ ttl > Len(path))
  <2>1. r \in {[kind |-> "error"], [kind |-> "silent"]}
    BY <1>6, <1>9
  <2>2. r.kind \in {"error", "silent"}
    BY <2>1
  <2> QED BY <1>3, <1>9, <2>2 DEF ProbeSays
<1> QED BY <1>7, <1>8, <1>9

LEMMA FoundSays ==
  ASSUME NEW ip
  PROVE  IsFound(Found(ip)) /\ Found(ip).ip[1] = ip /\ Found(ip).why # "beyond"
<1>1. Found(ip).ip = << ip >> /\ Found(ip).why # "beyond"
  BY Zenon DEF Found
<1>2. << ip >> # << >> /\ << ip >>[1] = ip
  OBVIOUS
<1> QED BY <1>1, <1>2 DEF IsFound

\* The hop that is found is the N-th one of the path, or a nearer router that sent a
\* redirect, or a nearer target when an answer got lost or the path changed between
\* the probes; for paths of any length and any N.
THEOREM HopIsTrue == AlgSpec => []HopTruthful
<1>1. Computed => HopTruthful
  <2> SUFFICES ASSUME Computed, alg = "hop", output # << >> PROVE HopTruthful
    BY DEF HopTruthful, Result
  <2> DEFINE n  == input.n
             p1 == input.path1
             p2 == input.path2
             t  == input.talks
             r  == HopLookup(p1, p2, t, n, input.lost)
             l1 == 1 \in input.lost
             l2 == 2 \in input.lost
             a  == HopProbe(p1, t, n, l1)
             b  == HopProbe(p2, t, n - 1, l2)
  <2>1. /\ n \in Nat \ {0} /\ output[1] = r
        /\ p1 \in Seq(STRING \ {"target"}) /\ p2 \in Seq(STRING \ {"target"})
        /\ Len(p1) \in Nat /\ Len(p2) \in Nat
    <3>1. input \in HopInputs /\ output = << r >>
      BY DEF Computed
    <3>2. n \in Nat \ {0} /\ \A path \in {p1, p2} : path \in Seq(STRING \ {"target"})
      BY <3>1, AlgAssumption
    <3> QED BY <3>1, <3>2
  <2>2. r = CASE a.kind = "exceeded" -> Found(a.ip)
              [] a.kind = "error"    -> Failed("error")
              [] a.kind = "silent"   -> Failed("silent")
              [] a.kind = "reply"    -> IF n > 1 /\ b.kind = "reply" THEN Failed("beyond")
                                        ELSE Found("target")
    BY DEF HopLookup
  <2>3. ProbeSays(a, p1, t, n, l1)
    <3>1. l1 \in BOOLEAN
      OBVIOUS
    <3> HIDE DEF l1, n, p1
    <3> QED BY <2>1, <3>1, ProbeTells
  <2>4. n > 1 => ProbeSays(b, p2, t, n - 1, l2)
    <3>1. n > 1 => n - 1 \in Nat \ {0}
      BY <2>1
    <3>2. l2 \in BOOLEAN
      OBVIOUS
    <3> HIDE DEF l2, n, p2
    <3> QED BY <2>1, <3>1, <3>2, ProbeTells
  <2> HIDE DEF a, b, r
  <2> DEFINE claim ==
               /\ IsFound(r) /\ r.ip[1] # "target" =>
                    /\ n <= Len(p1)
                    /\ \E i \in 1 .. n : /\ r.ip[1] = p1[i]
                                         /\ i < n => p1[i] \in t
               /\ IsFound(r) /\ r.ip[1] = "target" =>
                    /\ Distance(p1) <= n
                    /\ \/ Distance(p1) = n
                       \/ 2 \in input.lost \/ p2 # p1
               /\ r.why = "beyond" => Distance(p2) < n
  <2>5. claim => HopTruthful
    BY <2>1, Zenon DEF HopTruthful
  <2> HIDE DEF n, p1, p2, t
  <2>6. CASE a.kind = "exceeded"
    <3>1. r = Found(a.ip)
      BY <2>2, <2>6
    <3>2. IsFound(r) /\ r.ip[1] = a.ip /\ r.why # "beyond"
      BY <3>1, FoundSays
    <3> QED BY <2>3, <2>5, <2>6, <3>2 DEF ProbeSays
  <2>7. CASE a.kind \in {"error", "silent"}
    BY <2>2, <2>5, <2>7 DEF Failed, IsFound
  <2>8. CASE a.kind = "reply" /\ n > 1 /\ b.kind = "reply"
    <3>1. r = Failed("beyond") /\ Distance(p2) < n
      BY <2>1, <2>2, <2>4, <2>8 DEF Distance, ProbeSays
    <3> QED BY <2>5, <3>1 DEF Failed, IsFound
  <2>9. CASE a.kind = "reply" /\ ~(n > 1 /\ b.kind = "reply")
    <3>1. r = Found("target") /\ n > Len(p1)
      BY <2>2, <2>3, <2>9 DEF ProbeSays
    <3>2. n = Len(p1) + 1 \/ 2 \in input.lost \/ p2 # p1
      BY <2>1, <2>3, <2>4, <2>9 DEF ProbeSays
    <3>3. Distance(p1) <= n /\ (Distance(p1) = n \/ 2 \in input.lost \/ p2 # p1)
      BY <2>1, <3>1, <3>2 DEF Distance
    <3>4. IsFound(r) /\ r.ip[1] = "target" /\ r.why # "beyond"
      BY <3>1, FoundSays
    <3> QED BY <2>5, <3>3, <3>4
  <2> QED BY <2>3, <2>6, <2>7, <2>8, <2>9 DEF ProbeSays
<1> QED BY <1>1, InitComputed, NextComputed, PTL DEF AlgSpec

-----------------------------------------------------------------------------
(* The default gateway *)

\* Of routes that are not none there is a least one, and its metric is the least.
LEMMA LeastRoute ==
  ASSUME NEW R, R # {}, \A r \in R : r.metric \in Nat /\ r.via \in Nat
  PROVE  MinRoute(R) \in R /\ \A s \in R : MinRoute(R).metric <= s.metric
<1>1. PICK m \in {r.metric : r \in R} : \A u \in {r.metric : r \in R} : m <= u
  BY LeastOf
<1> DEFINE best == {r \in R : r.metric = m}
<1>2. PICK v \in {r.via : r \in best} : \A u \in {r.via : r \in best} : v <= u
  BY <1>1, LeastOf
<1>3. PICK r \in R : r.metric = m /\ r.via = v
  BY <1>2
<1>4. ASSUME NEW s \in R PROVE ~Better(s, r)
  <2>1. m <= s.metric /\ (s.metric = m => v <= s.via)
    BY <1>1, <1>2
  <2>2. m \in Nat /\ v \in Nat /\ s.metric \in Nat /\ s.via \in Nat
    BY <1>3
  <2> QED BY <1>3, <2>1, <2>2 DEF Better
<1> DEFINE mr == MinRoute(R)
<1>5. mr \in R /\ \A s \in R \ {mr} : ~Better(s, mr)
  <2>1. \E q \in R : \A s \in R \ {q} : ~Better(s, q)
    BY <1>4
  <2> QED BY <2>1 DEF MinRoute
<1> HIDE DEF mr
<1>6. ASSUME NEW s \in R PROVE mr.metric <= s.metric
  <2>1. CASE s = mr
    BY <1>5, <2>1
  <2>2. CASE s # mr
    <3>1. ~(s.metric < mr.metric)
      BY <1>5, <2>2 DEF Better
    <3> QED BY <1>5, <3>1
  <2> QED BY <2>1, <2>2
<1> QED BY <1>5, <1>6 DEF mr

\* The gateway is one of a best route of those one may take, whatever the tables.
THEOREM GatewayIsBest == AlgSpec => []BestGateway
<1>1. Computed => BestGateway
  <2> SUFFICES ASSUME Computed, alg = "gateway", output # << >> PROVE BestGateway
    BY DEF BestGateway, Result
  <2> DEFINE iface == input.iface
             r  == GatewayLookup(input.gw4, input.gw6, input.ifaces, iface, input.fam)
             usable(table, fam) ==
               {q \in table : /\ q.default /\ q.gateway
                              /\ iface \in {"", q.iface}
                              /\ input.fam \in {"any", fam}}
             u4 == usable(input.gw4, "v4")
             u6 == usable(input.gw6, "v6")
             best(table) == {q.via : q \in {s \in table : \A t \in table : s.metric <= t.metric}}
             routes4 == IF input.fam \in {"any", "v4"} THEN Gw(input.gw4, iface) ELSE {}
             routes  == IF routes4 = {} /\ input.fam \in {"any", "v6"}
                        THEN Gw(input.gw6, iface) ELSE routes4
  <2>1. output[1] = r
    BY DEF Computed
  <2>2. \A q \in u4 \cup u6 : q.metric \in Nat /\ q.via \in Nat
    <3>1. \A q \in input.gw4 \cup input.gw6 : q.metric \in Nat /\ q.via \in Nat
      BY AlgAssumption DEF Computed
    <3> QED BY <3>1
  <2>3. u4 = routes4 /\ u6 = IF input.fam \in {"any", "v6"} THEN Gw(input.gw6, iface) ELSE {}
    BY DEF Gw
  <2>4. r = IF iface # "" /\ iface \notin input.ifaces THEN Failed("no interface")
            ELSE IF routes = {} THEN Failed("no route")
            ELSE Found(MinRoute(routes).via)
    BY DEF GatewayLookup
  <2>5. BestGateway <=> /\ IsFound(r) => r.ip[1] \in IF u4 # {} THEN best(u4) ELSE best(u6)
                        /\ ~IsFound(r) => u4 \cup u6 = {} \/ iface \notin input.ifaces
    BY <2>1 DEF BestGateway, Result
  <2> HIDE DEF r, u4, u6, iface
  <2>6. routes = IF u4 # {} THEN u4 ELSE u6
    BY <2>3
  <2> HIDE DEF routes
  <2>7. CASE iface # "" /\ iface \notin input.ifaces
    BY <2>4, <2>5, <2>7 DEF Failed, IsFound
  <2>8. CASE ~(iface # "" /\ iface \notin input.ifaces) /\ routes = {}
    BY <2>4, <2>5, <2>6, <2>8 DEF Failed, IsFound
  <2>9. CASE ~(iface # "" /\ iface \notin input.ifaces) /\ routes # {}
    <3>1. MinRoute(routes).via \in best(routes)
      BY <2>2, <2>6, <2>9, LeastRoute
    <3>2. IsFound(r) /\ r.ip[1] = MinRoute(routes).via
      BY <2>4, <2>9 DEF Found, IsFound
    <3> QED BY <2>5, <2>6, <3>1, <3>2
  <2> QED BY <2>7, <2>8, <2>9
<1> QED BY <1>1, InitComputed, NextComputed, PTL DEF AlgSpec

-----------------------------------------------------------------------------
(* The report on snapshots *)

Ages(ages, n) == n \in Nat /\ ages \in [1 .. n -> Nat]

\* One, and two, of the ages are within a limit.
OneWithin(ages, limit) == \E i \in DOMAIN ages : ages[i] <= limit
TwoWithin(ages, limit) ==
  \E i, j \in DOMAIN ages : i # j /\ ages[i] <= limit /\ ages[j] <= limit

LEMMA SmallSets ==
  /\ \A S : IsFiniteSet(S) => (Cardinality(S) >= 1 <=> S # {})
  /\ \A S : IsFiniteSet(S) => (Cardinality(S) >= 2 <=> \E x, y \in S : x # y)
<1>1. ASSUME NEW S, IsFiniteSet(S) PROVE Cardinality(S) \in Nat /\ (Cardinality(S) = 0 <=> S = {})
  BY <1>1, FS_CardinalityType, FS_EmptySet
<1>2. ASSUME NEW S, IsFiniteSet(S) PROVE Cardinality(S) >= 1 <=> S # {}
  BY <1>1, <1>2
<1>3. ASSUME NEW S, IsFiniteSet(S) PROVE Cardinality(S) >= 2 <=> \E x, y \in S : x # y
  <2>1. ASSUME NEW x \in S
        PROVE  /\ IsFiniteSet(S \ {x}) /\ Cardinality(S \ {x}) = Cardinality(S) - 1
    BY <1>3, <2>1, FS_RemoveElement
  <2>2. ASSUME NEW x \in S PROVE Cardinality(S) >= 2 <=> S \ {x} # {}
    <3>1. Cardinality(S \ {x}) >= 1 <=> S \ {x} # {}
      BY <1>2, <2>1
    <3> QED BY <1>1, <1>3, <2>1, <3>1
  <2>3. CASE S = {}
    BY <1>1, <1>3, <2>3
  <2>4. CASE S # {}
    BY <2>2, <2>4
  <2> QED BY <2>3, <2>4
<1> QED BY <1>2, <1>3

\* The least of the ages, and the least but for one of these.
LEMMA SortedAges ==
  ASSUME NEW ages, NEW n, Ages(ages, n), NEW limit \in Nat
  PROVE  /\ n >= 1 => (Sorted(ages, 1) > limit <=> ~OneWithin(ages, limit))
         /\ n >= 2 => (Sorted(ages, 2) > limit <=> ~TwoWithin(ages, limit))
<1> DEFINE C(a) == {i \in DOMAIN ages : ages[i] <= a}
           K(k) == {a \in Range(ages) : Cardinality(C(a)) >= k}
<1>1. /\ n \in Nat /\ DOMAIN ages = 1 .. n /\ \A i \in 1 .. n : ages[i] \in Nat
      /\ Range(ages) \subseteq Nat
      /\ \A i \in 1 .. n : ages[i] \in Range(ages)
      /\ \A a \in Range(ages) : \E i \in 1 .. n : a = ages[i]
  BY DEF Ages, Range
<1>2. \A a : IsFiniteSet(C(a))
  BY <1>1, FS_Interval, FS_Subset
<1>3. \A k : Sorted(ages, k) = Min(K(k))
  BY DEF Sorted
<1>4. ASSUME NEW k, NEW a \in K(k), \A b \in K(k) : a <= b PROVE Min(K(k)) = a
  <2>1. K(k) \subseteq Nat
    BY <1>1
  <2> HIDE DEF K
  <2>2. Min(K(k)) \in K(k) /\ \A b \in K(k) : Min(K(k)) <= b
    BY <1>4 DEF Min
  <2>3. Min(K(k)) <= a /\ a <= Min(K(k))
    BY <1>4, <2>2
  <2> QED BY <2>1, <2>2, <2>3
<1>5. ASSUME n >= 1
      PROVE  /\ Sorted(ages, 1) > limit <=> ~OneWithin(ages, limit)
             /\ \E i \in 1 .. n : \A j \in 1 .. n : ages[i] <= ages[j]
  <2>1. PICK a \in Range(ages) : \A b \in Range(ages) : a <= b
    <3>1. 1 \in 1 .. n
      BY <1>1, <1>5
    <3> QED BY <1>1, <3>1, LeastOf
  <2>2. PICK i \in 1 .. n : a = ages[i]
    BY <1>1
  <2>3. a \in K(1)
    <3>1. i \in C(a)
      BY <1>1, <2>2
    <3>2. Cardinality(C(a)) >= 1
      BY <1>2, <3>1, SmallSets
    <3> QED BY <3>2
  <2>4. Sorted(ages, 1) = a
    BY <1>3, <1>4, <2>1, <2>3
  <2>5. \A j \in 1 .. n : ages[i] <= ages[j]
    BY <1>1, <2>1, <2>2
  <2>6. OneWithin(ages, limit) <=> \E j \in 1 .. n : ages[j] <= limit
    BY <1>1 DEF OneWithin
  <2>7. OneWithin(ages, limit) <=> ages[i] <= limit
    <3>1. \A j \in 1 .. n : ages[j] <= limit => ages[i] <= limit
      BY <1>1, <2>5
    <3> QED BY <2>6, <3>1
  <2>8. a > limit <=> ~(a <= limit)
    BY <1>1
  <2> QED BY <2>2, <2>4, <2>5, <2>7, <2>8
<1>6. ASSUME n >= 2
      PROVE  Sorted(ages, 2) > limit <=> ~TwoWithin(ages, limit)
  <2>1. PICK i \in 1 .. n : \A j \in 1 .. n : ages[i] <= ages[j]
    BY <1>1, <1>5, <1>6
  <2> DEFINE Rest == {ages[j] : j \in (1 .. n) \ {i}}
  <2>2. PICK a \in Rest : \A b \in Rest : a <= b
    <3>1. \E j \in 1 .. n : j # i
      <4>1. 1 \in 1 .. n /\ 2 \in 1 .. n
        BY <1>1, <1>6
      <4> QED BY <4>1
    <3>2. Rest \subseteq Nat /\ Rest # {}
      BY <1>1, <3>1
    <3> QED BY <3>2, LeastOf
  <2>3. PICK k \in 1 .. n : k # i /\ a = ages[k]
    BY <2>2
  <2>4. \A j \in 1 .. n : j # i => a <= ages[j]
    BY <2>2
  <2> HIDE DEF Rest
  <2>5. a \in K(2)
    <3>1. i \in C(a) /\ k \in C(a)
      BY <1>1, <2>1, <2>3
    <3>2. Cardinality(C(a)) >= 2
      BY <1>2, <2>3, <3>1, SmallSets
    <3> QED BY <1>1, <2>3, <3>2
  <2>6. ASSUME NEW b \in K(2) PROVE a <= b
    <3>1. PICK x, y \in C(b) : x # y
      BY <1>2, <2>6, SmallSets
    <3>2. PICK j \in C(b) : j # i
      BY <3>1
    <3>3. j \in 1 .. n /\ ages[j] <= b /\ a <= ages[j]
      BY <1>1, <2>4, <3>2
    <3>4. a \in Int /\ b \in Int /\ ages[j] \in Int
      BY <1>1, <2>3, <3>3
    <3> QED BY <3>3, <3>4
  <2>7. Sorted(ages, 2) = a
    BY <1>3, <1>4, <2>5, <2>6
  <2>8. a > limit <=> ~(a <= limit)
    BY <1>1, <2>3
  <2>9. a <= limit => TwoWithin(ages, limit)
    <3>1. ages[i] <= a
      BY <2>1, <2>3
    <3>2. ASSUME a <= limit PROVE ages[i] <= limit /\ ages[k] <= limit
      <4>1. a \in Int /\ ages[i] \in Int /\ limit \in Int
        BY <1>1, <2>3
      <4> QED BY <2>3, <3>1, <3>2, <4>1
    <3>3. i \in DOMAIN ages /\ k \in DOMAIN ages /\ k # i
      BY <1>1, <2>3
    <3> QED BY <3>2, <3>3 DEF TwoWithin
  <2>10. TwoWithin(ages, limit) => a <= limit
    <3>1. ASSUME NEW x \in 1 .. n, NEW y \in 1 .. n, x # y, ages[x] <= limit, ages[y] <= limit
          PROVE  a <= limit
      <4>1. PICK j \in 1 .. n : j # i /\ ages[j] <= limit
        BY <3>1
      <4> QED BY <1>1, <2>3, <2>4, <4>1
    <3>2. TwoWithin(ages, limit) <=>
            \E x, y \in 1 .. n : x # y /\ ages[x] <= limit /\ ages[y] <= limit
      BY <1>1 DEF TwoWithin
    <3> QED BY <3>1, <3>2
  <2> QED BY <2>7, <2>8, <2>9, <2>10
<1> QED BY <1>5, <1>6

\* The verdict, by how many of the ages are within which limit.
LEMMA VerdictMeans ==
  ASSUME NEW ages, NEW n, Ages(ages, n)
  PROVE  Verdict(ages) =
           IF n = 0 THEN 5
           ELSE IF ~OneWithin(ages, 14 * DayLen) THEN 4
           ELSE IF n = 1 THEN 3
           ELSE IF ~TwoWithin(ages, 30 * DayLen) THEN 2
           ELSE IF ~OneWithin(ages, 2 * DayLen) \/ ~TwoWithin(ages, 7 * DayLen) THEN 1 ELSE 0
<1>1. DayLen \in Nat /\ 14 * DayLen \in Nat /\ 30 * DayLen \in Nat /\ 2 * DayLen \in Nat
      /\ 7 * DayLen \in Nat
  BY DEF DayLen, Hour, Minute
<1>2. n \in Nat /\ Len(ages) = n /\ (ages = << >> <=> n = 0)
  BY DEF Ages
<1>3. CASE n = 0
  BY <1>2, <1>3 DEF Verdict
<1>4. CASE n # 0
  <2>1. n >= 1 /\ (n # 1 => n >= 2)
    BY <1>2, <1>4
  <2>2. /\ Sorted(ages, 1) > 14 * DayLen <=> ~OneWithin(ages, 14 * DayLen)
        /\ Sorted(ages, 1) > 2 * DayLen <=> ~OneWithin(ages, 2 * DayLen)
    BY <1>1, <2>1, SortedAges
  <2>3. n # 1 => /\ Sorted(ages, 2) > 30 * DayLen <=> ~TwoWithin(ages, 30 * DayLen)
                 /\ Sorted(ages, 2) > 7 * DayLen <=> ~TwoWithin(ages, 7 * DayLen)
    BY <1>1, <2>1, SortedAges
  <2> QED BY <1>2, <1>4, <2>2, <2>3 DEF Verdict
<1> QED BY <1>3, <1>4

\* Ages each of which is at least another one of the others make it no better.
LEMMA VerdictMonotone ==
  ASSUME NEW ages, NEW n, Ages(ages, n), NEW older, NEW m, Ages(older, m), m <= n,
         NEW f \in [1 .. m -> 1 .. n],
         \A i, j \in 1 .. m : f[i] = f[j] => i = j,
         \A i \in 1 .. m : ages[f[i]] <= older[i]
  PROVE  Verdict(older) >= Verdict(ages)
<1>1. /\ DOMAIN ages = 1 .. n /\ DOMAIN older = 1 .. m /\ n \in Nat /\ m \in Nat
      /\ \A i \in 1 .. n : ages[i] \in Nat
      /\ \A i \in 1 .. m : older[i] \in Nat
  BY DEF Ages
<1>2. ASSUME NEW limit \in Nat, NEW i \in 1 .. m, older[i] <= limit
      PROVE  f[i] \in 1 .. n /\ ages[f[i]] <= limit
  BY <1>1, <1>2
<1>3. \A limit \in Nat : OneWithin(older, limit) => OneWithin(ages, limit)
  BY <1>1, <1>2 DEF OneWithin
<1>4. ASSUME NEW limit \in Nat, TwoWithin(older, limit) PROVE TwoWithin(ages, limit)
  <2>1. PICK i, j \in 1 .. m : i # j /\ older[i] <= limit /\ older[j] <= limit
    BY <1>1, <1>4 DEF TwoWithin
  <2>2. f[i] # f[j] /\ f[i] \in 1 .. n /\ f[j] \in 1 .. n
        /\ ages[f[i]] <= limit /\ ages[f[j]] <= limit
    BY <1>2, <2>1
  <2> QED BY <1>1, <2>2 DEF TwoWithin
<1>5. DayLen \in Nat /\ 14 * DayLen \in Nat /\ 30 * DayLen \in Nat /\ 2 * DayLen \in Nat
      /\ 7 * DayLen \in Nat
  BY DEF DayLen, Hour, Minute
<1> HIDE DEF DayLen
<1>6. n = 0 => m = 0
  BY <1>1
<1>7. n = 1 => m = 0 \/ m = 1
  BY <1>1
<1>8. /\ Verdict(older) =
           IF m = 0 THEN 5
           ELSE IF ~OneWithin(older, 14 * DayLen) THEN 4
           ELSE IF m = 1 THEN 3
           ELSE IF ~TwoWithin(older, 30 * DayLen) THEN 2
           ELSE IF ~OneWithin(older, 2 * DayLen) \/ ~TwoWithin(older, 7 * DayLen) THEN 1 ELSE 0
      /\ Verdict(ages) =
           IF n = 0 THEN 5
           ELSE IF ~OneWithin(ages, 14 * DayLen) THEN 4
           ELSE IF n = 1 THEN 3
           ELSE IF ~TwoWithin(ages, 30 * DayLen) THEN 2
           ELSE IF ~OneWithin(ages, 2 * DayLen) \/ ~TwoWithin(ages, 7 * DayLen) THEN 1 ELSE 0
  BY VerdictMeans
<1>9. /\ OneWithin(older, 14 * DayLen) => OneWithin(ages, 14 * DayLen)
      /\ OneWithin(older, 2 * DayLen) => OneWithin(ages, 2 * DayLen)
      /\ TwoWithin(older, 30 * DayLen) => TwoWithin(ages, 30 * DayLen)
      /\ TwoWithin(older, 7 * DayLen) => TwoWithin(ages, 7 * DayLen)
  BY <1>3, <1>4, <1>5
<1> QED BY <1>6, <1>7, <1>8, <1>9

\* What is left of a sequence without one of its elements.
LEMMA WithoutOne ==
  ASSUME NEW ages, NEW n, Ages(ages, n), NEW k \in 1 .. n
  PROVE  /\ Ages(RemoveAt(ages, k), n - 1)
         /\ \A i \in 1 .. n - 1 : RemoveAt(ages, k)[i] = ages[IF i < k THEN i ELSE i + 1]
<1> DEFINE u == SubSeq(ages, 1, k - 1)
           v == SubSeq(ages, k + 1, Len(ages))
<1>1. n \in Nat /\ k \in Int /\ 1 <= k /\ k <= n /\ ages \in Seq(Nat) /\ Len(ages) = n
  BY DEF Ages
<1>2. /\ u \in Seq(Nat) /\ Len(u) = k - 1 /\ \A i \in 1 .. k - 1 : u[i] = ages[i]
  BY <1>1
<1>3. /\ v \in Seq(Nat) /\ Len(v) = n - k /\ \A i \in 1 .. n - k : v[i] = ages[k + i]
  BY <1>1
<1> HIDE DEF u, v
<1>4. /\ u \o v \in Seq(Nat) /\ Len(u \o v) = n - 1
      /\ \A i \in 1 .. n - 1 : (u \o v)[i] = IF i <= k - 1 THEN u[i] ELSE v[i - (k - 1)]
  <2>1. k - 1 \in Nat /\ n - k \in Nat /\ (k - 1) + (n - k) = n - 1
    BY <1>1
  <2>2. /\ u \o v \in Seq(Nat) /\ Len(u \o v) = Len(u) + Len(v)
        /\ \A i \in 1 .. Len(u) + Len(v) :
             (u \o v)[i] = IF i <= Len(u) THEN u[i] ELSE v[i - Len(u)]
    BY <1>2, <1>3, ConcatProperties
  <2> QED BY <1>2, <1>3, <2>1, <2>2
<1>5. ASSUME NEW i \in 1 .. n - 1
      PROVE  (u \o v)[i] = ages[IF i < k THEN i ELSE i + 1]
  <2>1. CASE i < k
    BY <1>1, <1>2, <1>4, <2>1
  <2>2. CASE ~(i < k)
    <3>1. i - (k - 1) \in 1 .. n - k /\ k + (i - (k - 1)) = i + 1 /\ ~(i <= k - 1)
      BY <1>1, <2>2
    <3> QED BY <1>3, <1>4, <2>2, <3>1
  <2> QED BY <2>1, <2>2
<1>6. Ages(u \o v, n - 1)
  <2>1. n - 1 \in Nat
    BY <1>1
  <2> DEFINE w == u \o v
  <2>2. w \in [1 .. Len(w) -> Nat]
    <3>1. w \in Seq(Nat)
      BY <1>4
    <3> HIDE DEF w
    <3> QED BY <3>1
  <2> QED BY <1>4, <2>1, <2>2 DEF Ages
<1> QED BY <1>5, <1>6 DEF RemoveAt, u, v

\* An age is shown to less than a unit.
LEMMA AgeShown ==
  ASSUME NEW age \in Nat
  PROVE  Apart(FormatAge(age).count * FormatAge(age).unit, age) < FormatAge(age).unit
  BY DEF FormatAge, Apart, Minute, Hour, DayLen

LEMMA LoadedAges ==
  ASSUME NEW files \in Seq([age : Nat, state : {"good", "vanished", "empty"}])
  PROVE  \E n : Ages(LoadLastSnapshots(files), n)
<1>1. /\ Len(files) \in Nat /\ DOMAIN files = 1 .. Len(files)
      /\ \A i \in 1 .. Len(files) : files[i].age \in Nat
  <2> DEFINE File == [age : Nat, state : {"good", "vanished", "empty"}]
  <2>1. \A x \in File : x.age \in Nat
    OBVIOUS
  <2> HIDE DEF File
  <2>2. \A i \in 1 .. Len(files) : files[i] \in File
    BY ElementOfSeq DEF File
  <2> QED BY <2>1, <2>2
<1>2. CASE \E i \in DOMAIN files : files[i].state = "vanished"
  <2>1. LoadLastSnapshots(files) = << >>
    BY <1>2 DEF LoadLastSnapshots
  <2>2. Ages(<< >>, 0)
    BY DEF Ages
  <2> QED BY <2>1, <2>2
<1>3. CASE ~ \E i \in DOMAIN files : files[i].state = "vanished"
  <2>1. LoadLastSnapshots(files) = [i \in 1 .. Len(files) |-> files[i].age]
    BY <1>1, <1>3 DEF LoadLastSnapshots
  <2>2. Ages(LoadLastSnapshots(files), Len(files))
    BY <1>1, <2>1 DEF Ages
  <2> QED BY <2>2
<1> QED BY <1>2, <1>3

\* Neither the loss of a snapshot nor waiting makes the verdict better, for any
\* number of snapshots; and every age is shown to less than a unit.
THEOREM StatusIsHonest == AlgSpec => []StatusHonest
<1>1. Computed => StatusHonest
  <2> SUFFICES ASSUME Computed, alg = "snap", output # << >> PROVE StatusHonest
    BY DEF StatusHonest, Result
  <2> DEFINE ages == LoadLastSnapshots(input)
  <2>1. output = << StatusReport(input) >>
        /\ input \in Seq([age : Nat, state : {"good", "vanished", "empty"}])
    BY AlgAssumption DEF Computed
  <2>2. PICK n : Ages(ages, n)
    BY <2>1, LoadedAges
  <2>3. /\ output[1].verdict = Verdict(ages)
        /\ \A i \in DOMAIN ages : output[1].rows[i].shown = FormatAge(ages[i])
    BY <2>1 DEF StatusReport
  <2>4. StatusHonest <=> (~output[1].raises =>
          /\ \A i \in DOMAIN ages : Verdict(RemoveAt(ages, i)) >= output[1].verdict
          /\ \A wait \in {Hour, DayLen, 20 * DayLen} :
               Verdict([i \in DOMAIN ages |-> ages[i] + wait]) >= output[1].verdict
          /\ \A i \in DOMAIN ages :
               LET s == output[1].rows[i].shown IN Apart(s.count * s.unit, ages[i]) < s.unit)
    BY DEF StatusHonest, Result
  <2> HIDE DEF ages
  <2>5. n \in Nat /\ DOMAIN ages = 1 .. n /\ \A i \in 1 .. n : ages[i] \in Nat
    BY <2>2 DEF Ages
  <2>6. ASSUME NEW k \in DOMAIN ages PROVE Verdict(RemoveAt(ages, k)) >= Verdict(ages)
    <3> DEFINE left == RemoveAt(ages, k)
               f == [i \in 1 .. n - 1 |-> IF i < k THEN i ELSE i + 1]
    <3>1. k \in 1 .. n /\ Ages(left, n - 1) /\ n - 1 <= n
          /\ \A i \in 1 .. n - 1 : left[i] = ages[f[i]]
      BY <2>2, <2>5, WithoutOne
    <3>2. f \in [1 .. n - 1 -> 1 .. n] /\ \A i, j \in 1 .. n - 1 : f[i] = f[j] => i = j
      BY <2>5
    <3> HIDE DEF left, f
    <3>3. \A i \in 1 .. n - 1 : ages[f[i]] <= left[i]
      BY <2>5, <3>1, <3>2
    <3>4. Verdict(left) >= Verdict(ages)
      BY <2>2, <3>1, <3>2, <3>3, VerdictMonotone
    <3> QED BY <3>4 DEF left
  <2>7. ASSUME NEW wait \in Nat
        PROVE  Verdict([i \in DOMAIN ages |-> ages[i] + wait]) >= Verdict(ages)
    <3> DEFINE older == [i \in DOMAIN ages |-> ages[i] + wait]
               f == [i \in 1 .. n |-> i]
    <3>1. Ages(older, n) /\ \A i \in 1 .. n : ages[f[i]] <= older[i]
      BY <2>5 DEF Ages
    <3>2. f \in [1 .. n -> 1 .. n] /\ (\A i, j \in 1 .. n : f[i] = f[j] => i = j) /\ n <= n
      BY <2>5
    <3> HIDE DEF older, f
    <3>3. Verdict(older) >= Verdict(ages)
      BY <2>2, <3>1, <3>2, VerdictMonotone
    <3> QED BY <3>3 DEF older
  <2>8. {Hour, DayLen, 20 * DayLen} \subseteq Nat
    BY DEF Hour, DayLen, Minute
  <2>9. \A i \in DOMAIN ages :
          Apart(FormatAge(ages[i]).count * FormatAge(ages[i]).unit, ages[i])
            < FormatAge(ages[i]).unit
    BY <2>5, AgeShown
  <2>10. \A i \in DOMAIN ages :
           LET s == output[1].rows[i].shown IN Apart(s.count * s.unit, ages[i]) < s.unit
    BY <2>3, <2>9
  <2>11. \A wait \in {Hour, DayLen, 20 * DayLen} :
           Verdict([i \in DOMAIN ages |-> ages[i] + wait]) >= output[1].verdict
    BY <2>3, <2>7, <2>8
  <2>12. \A i \in DOMAIN ages : Verdict(RemoveAt(ages, i)) >= output[1].verdict
    BY <2>3, <2>6
  <2> QED BY <2>4, <2>10, <2>11, <2>12
<1> QED BY <1>1, InitComputed, NextComputed, PTL DEF AlgSpec

-----------------------------------------------------------------------------
(* The output of ping *)

LEMMA WhatPingSays ==
  /\ DOMAIN AtOnce = {"unknown", "forbidden", "no network"}
  /\ AtOnce["unknown"] = {"ping:"} \cup {"dns", "word"}
  /\ AtOnce["forbidden"] = {"ping:"} \cup {}
  /\ AtOnce["no network"] = {"ping:"} \cup {"icmp", "word"}
  /\ DOMAIN Told = {"answered", "unreachable", "exceeded", "rejected"}
  /\ Told["answered"] = {"time"}
  /\ Told["unreachable"] = {"From ", "icmp", "word"}
  /\ Told["exceeded"] = {"From "}
  /\ Told["rejected"] = {"ping:"}
  BY DEF AtOnce, Told

\* The marks of the last line of a probe that ended this way.
Summary(end) == IF end = "answered" THEN {"packet"}
                ELSE IF end \in {"unreachable", "exceeded"}
                     THEN {"packet", "loss", "error", "word"}
                ELSE {"packet", "loss"}

\* What matters of the text: how it begins, what is told in it, how it ends.
TextOf(text, name, said, end) ==
  /\ Len(text) \in Nat /\ Len(text) >= 3 /\ DOMAIN text = 1 .. Len(text)
  /\ \A i \in DOMAIN text : text[i].says # NoError
  /\ text[1] = OutLine("header", name)
  /\ said # << >> => text[2] = OutLine(Head(said), {"From ", "icmp"})
  /\ said = << >> /\ end \in DOMAIN Told => text[2] = OutLine(end, Told[end])
  /\ end \in DOMAIN Told => \E i \in DOMAIN text : text[i] = OutLine(end, Told[end])
  /\ text[Len(text)] = OutLine("sums", Summary(end))
  /\ said = << >> =>
       \A i \in DOMAIN text :
         \/ text[i].marks \in {name, name \cup {"packet"}, Summary(end)}
         \/ end \in DOMAIN Told /\ text[i].marks = Told[end]

LEMMA FunctionIsSeq ==
  ASSUME NEW T, NEW n \in Nat, NEW g \in [1 .. n -> T]
  PROVE  g \in Seq(T) /\ Len(g) = n
  OBVIOUS

LEMMA WhatPingPrints ==
  ASSUME NEW name, NEW W, NoError \notin W, NEW said \in Seq(W),
         NEW end \in {"answered", "unreachable", "exceeded", "lost", "rejected"}
  PROVE  /\ Run(name, said, end).code = IF end = "answered" THEN 0 ELSE 1
         /\ TextOf(Run(name, said, end).text, name, said, end)
<1> DEFINE told == IF end \in DOMAIN Told THEN << OutLine(end, Told[end]) >> ELSE << >>
           says == W \cup {"header", "heading", "sums", end}
           marks == {name, name \cup {"packet"}, Summary(end), Told[end], {"From ", "icmp"}}
           Lines == [says : says, marks : marks]
           head == << OutLine("header", name) >>
           from == [i \in DOMAIN said |-> OutLine(said[i], {"From ", "icmp"})]
           foot == << OutLine("heading", name \cup {"packet"}),
                      OutLine("sums", Summary(end)) >>
           s1 == head \o from
           s2 == s1 \o told
           text == s2 \o foot
<1>1. end \notin DOMAIN AtOnce
  BY WhatPingSays
<1>2. /\ Run(name, said, end).code = IF end = "answered" THEN 0 ELSE 1
      /\ Run(name, said, end).text = text
  BY <1>1 DEF Run, Summary
<1> DEFINE line(a, m) == OutLine(a, m) \in Lines
<1>a. \A a \in says : \A m \in marks : line(a, m)
  BY DEF OutLine
<1> HIDE DEF Lines
<1>3. /\ head \in Seq(Lines) /\ Len(head) = 1 /\ head[1] = OutLine("header", name)
  <2>1. line("header", name)
    BY <1>a
  <2> QED BY <2>1
<1>4. /\ from \in Seq(Lines) /\ Len(from) = Len(said) /\ Len(said) \in Nat
      /\ \A i \in 1 .. Len(said) : from[i] = OutLine(said[i], {"From ", "icmp"})
  <2>1. /\ DOMAIN said = 1 .. Len(said) /\ Len(said) \in Nat
        /\ \A i \in 1 .. Len(said) : said[i] \in W
    OBVIOUS
  <2>2. \A i \in 1 .. Len(said) : line(said[i], {"From ", "icmp"})
    BY <1>a, <2>1
  <2>3. from \in [1 .. Len(said) -> Lines]
    BY <2>1, <2>2
  <2>4. \A i \in 1 .. Len(said) : from[i] = OutLine(said[i], {"From ", "icmp"})
    BY <2>1
  <2> HIDE DEF from
  <2> QED BY <2>1, <2>3, <2>4, FunctionIsSeq
<1>5. /\ told \in Seq(Lines) /\ Len(told) \in {0, 1}
      /\ Len(told) = 1 <=> end \in DOMAIN Told
      /\ end \in DOMAIN Told => told[1] = OutLine(end, Told[end])
  <2>1. line(end, Told[end])
    BY <1>a
  <2>2. CASE end \in DOMAIN Told
    BY <2>1, <2>2
  <2>3. CASE end \notin DOMAIN Told
    BY <2>3
  <2> QED BY <2>2, <2>3
<1>6. /\ foot \in Seq(Lines) /\ Len(foot) = 2
      /\ foot[1] = OutLine("heading", name \cup {"packet"})
      /\ foot[2] = OutLine("sums", Summary(end))
  <2>1. line("heading", name \cup {"packet"}) /\ line("sums", Summary(end))
    BY <1>a
  <2> QED BY <2>1
<1> HIDE DEF head, from, told, foot
<1>7. /\ s1 \in Seq(Lines) /\ Len(s1) = 1 + Len(said)
      /\ \A i \in 1 .. Len(s1) : s1[i] = IF i <= 1 THEN head[i] ELSE from[i - 1]
  <2>1. /\ s1 \in Seq(Lines) /\ Len(s1) = Len(head) + Len(from)
        /\ \A i \in 1 .. Len(head) + Len(from) :
             s1[i] = IF i <= Len(head) THEN head[i] ELSE from[i - Len(head)]
    <3>1. head \in Seq(Lines) /\ from \in Seq(Lines)
      BY <1>3, <1>4
    <3> QED BY <3>1, ConcatProperties
  <2> HIDE DEF s1
  <2> QED BY <1>3, <1>4, <2>1
<1> HIDE DEF s1
<1>8. /\ s2 \in Seq(Lines) /\ Len(s2) = Len(s1) + Len(told)
      /\ \A i \in 1 .. Len(s2) : s2[i] = IF i <= Len(s1) THEN s1[i] ELSE told[i - Len(s1)]
  <2>1. s1 \in Seq(Lines) /\ told \in Seq(Lines)
    BY <1>5, <1>7
  <2>2. /\ s2 \in Seq(Lines) /\ Len(s2) = Len(s1) + Len(told)
        /\ \A i \in 1 .. Len(s1) + Len(told) :
             s2[i] = IF i <= Len(s1) THEN s1[i] ELSE told[i - Len(s1)]
    BY <2>1, ConcatProperties
  <2> HIDE DEF s2
  <2> QED BY <2>2
<1> HIDE DEF s2
<1>9. /\ text \in Seq(Lines) /\ Len(text) = Len(s2) + 2
      /\ \A i \in 1 .. Len(text) : text[i] = IF i <= Len(s2) THEN s2[i] ELSE foot[i - Len(s2)]
  <2>1. s2 \in Seq(Lines) /\ foot \in Seq(Lines)
    BY <1>6, <1>8
  <2>2. /\ text \in Seq(Lines) /\ Len(text) = Len(s2) + Len(foot)
        /\ \A i \in 1 .. Len(s2) + Len(foot) :
             text[i] = IF i <= Len(s2) THEN s2[i] ELSE foot[i - Len(s2)]
    BY <2>1, ConcatProperties
  <2> HIDE DEF text
  <2> QED BY <1>6, <2>2
<1> HIDE DEF text
<1>b. DOMAIN text = 1 .. Len(text) /\ \A i \in DOMAIN text : text[i] \in Lines
  BY <1>9
<1> DEFINE m == Len(said)
           t == Len(told)
<1>c. /\ m \in Nat /\ t \in {0, 1} /\ (t = 1 <=> end \in DOMAIN Told)
      /\ Len(head) = 1 /\ Len(from) = m /\ Len(foot) = 2
      /\ Len(s1) = 1 + m /\ Len(s2) = 1 + m + t /\ Len(text) = 1 + m + t + 2
  BY <1>3, <1>4, <1>5, <1>6, <1>7, <1>8, <1>9
<1>d. /\ \A i \in 1 .. 1 + m : s1[i] = IF i <= 1 THEN head[i] ELSE from[i - 1]
      /\ \A i \in 1 .. 1 + m + t : s2[i] = IF i <= 1 + m THEN s1[i] ELSE told[i - (1 + m)]
      /\ \A i \in 1 .. 1 + m + t + 2 :
           text[i] = IF i <= 1 + m + t THEN s2[i] ELSE foot[i - (1 + m + t)]
  BY <1>7, <1>8, <1>9, <1>c
<1>e. m = 0 <=> said = << >>
  OBVIOUS
<1> HIDE DEF m, t
<1>10. /\ Len(text) \in Nat /\ Len(text) >= 3 /\ DOMAIN text = 1 .. Len(text)
       /\ \A i \in DOMAIN text : text[i].says # NoError
  <2>1. Len(text) \in Nat /\ Len(text) >= 3 /\ DOMAIN text = 1 .. Len(text)
    BY <1>b, <1>c
  <2>2. \A l \in Lines : l.says # NoError
    <3>1. NoError \notin {"header", "heading", "sums", "answered", "unreachable", "exceeded",
                         "lost", "rejected"}
      BY ZenonT(20) DEF NoError
    <3>2. NoError \notin says
      BY <3>1
    <3> HIDE DEF says, marks
    <3> QED BY <3>2 DEF Lines
  <2> QED BY <1>9, <2>1, <2>2
<1>11. text[1] = OutLine("header", name)
  <2>1. /\ 1 \in 1 .. 1 + m /\ 1 \in 1 .. 1 + m + t /\ 1 \in 1 .. 1 + m + t + 2
        /\ 1 <= 1 + m /\ 1 <= 1 + m + t
    BY <1>c
  <2>2. s1[1] = head[1] /\ s2[1] = s1[1] /\ text[1] = s2[1]
    BY <1>d, <2>1
  <2> QED BY <1>3, <2>2
<1>12. said # << >> => text[2] = OutLine(Head(said), {"From ", "icmp"})
  <2> SUFFICES ASSUME said # << >> PROVE text[2] = OutLine(Head(said), {"From ", "icmp"})
    OBVIOUS
  <2>1. m >= 1 /\ 1 \in 1 .. m /\ Head(said) = said[1]
    BY <1>c, <1>e
  <2>2. s1[2] = from[1] /\ s2[2] = s1[2] /\ text[2] = s2[2]
    BY <1>c, <1>d, <2>1
  <2> QED BY <1>4, <2>1, <2>2 DEF m
<1>13. end \in DOMAIN Told => /\ Len(s1) + 1 \in DOMAIN text
                              /\ text[Len(s1) + 1] = OutLine(end, Told[end])
  <2> SUFFICES ASSUME end \in DOMAIN Told
               PROVE  /\ m + 2 \in DOMAIN text
                      /\ text[m + 2] = OutLine(end, Told[end])
    BY <1>c
  <2>1. m + 2 \in 1 .. Len(text) /\ s2[m + 2] = told[1] /\ text[m + 2] = s2[m + 2]
    BY <1>c, <1>d
  <2> QED BY <1>5, <1>b, <2>1
<1>14. text[Len(text)] = OutLine("sums", Summary(end))
  <2>1. text[Len(text)] = foot[2]
    BY <1>c, <1>d
  <2> QED BY <1>6, <2>1
<1>15. ASSUME said = << >>, NEW i \in DOMAIN text
       PROVE  \/ text[i].marks \in {name, name \cup {"packet"}, Summary(end)}
              \/ end \in DOMAIN Told /\ text[i].marks = Told[end]
  <2>1. m = 0 /\ i \in 1 .. 3 + t
    BY <1>15, <1>b, <1>c, <1>e
  <2>2. CASE i = 1
    BY <1>11, <2>2 DEF OutLine
  <2>3. CASE t = 1 /\ i = 2
    BY <1>13, <1>c, <2>1, <2>3 DEF OutLine
  <2>4. CASE i = 2 + t
    <3>1. text[i] = foot[1]
      BY <1>c, <1>d, <2>1, <2>4
    <3> QED BY <1>6, <3>1 DEF OutLine
  <2>5. CASE i = 3 + t
    <3>1. Len(text) = i
      BY <1>c, <2>1, <2>5
    <3> QED BY <1>14, <3>1 DEF OutLine
  <2> QED BY <1>c, <2>1, <2>2, <2>3, <2>4, <2>5, SMTT(20)
<1>16. said = << >> /\ end \in DOMAIN Told => text[2] = OutLine(end, Told[end])
  <2> SUFFICES ASSUME said = << >>, end \in DOMAIN Told PROVE text[2] = OutLine(end, Told[end])
    OBVIOUS
  <2>1. Len(s1) + 1 = 2
    BY <1>c, <1>e
  <2> QED BY <1>13, <2>1
<1> QED BY <1>2, <1>10, <1>11, <1>12, <1>13, <1>14, <1>15, <1>16 DEF TextOf

\* The first of the lines with a mark is the one that has it when none before it has.
LEMMA FirstOfMatches ==
  ASSUME NEW text, NEW marks, NEW n \in Nat, DOMAIN text = 1 .. n, NEW k \in 1 .. n,
         text[k].marks \cap marks # {},
         \A i \in 1 .. k - 1 : text[i].marks \cap marks = {}
  PROVE  Matching(text, marks) # {} /\ FirstMatch(text, marks) = text[k]
<1> DEFINE S == Matching(text, marks)
<1>1. k \in S /\ S \subseteq 1 .. n
  BY DEF Matching
<1>2. \A i \in S : k <= i
  BY DEF Matching
<1> HIDE DEF S
<1>3. \A a \in S : (\A i \in S : a <= i) => a = k
  BY <1>1, <1>2
<1>4. Min(S) = k
  BY <1>1, <1>2, <1>3 DEF Min
<1> QED BY <1>1, <1>4 DEF FirstMatch, S

LEMMA SecondMatches ==
  ASSUME NEW text, NEW marks, NEW n \in Nat, n >= 3, DOMAIN text = 1 .. n,
         text[2].marks \cap marks # {}, text[1].marks \cap marks = {}
  PROVE  Matching(text, marks) # {} /\ FirstMatch(text, marks) = text[2]
<1> DEFINE S == Matching(text, marks)
<1>1. 2 \in S /\ 1 \notin S /\ S \subseteq 1 .. n
  BY DEF Matching
<1> HIDE DEF S
<1>2. ASSUME NEW i \in S PROVE 2 <= i
  <2>1. i \in 1 .. n /\ i # 1
    BY <1>1
  <2> QED BY <2>1
<1>3. ASSUME NEW a \in S, \A i \in S : a <= i PROVE a = 2
  <2>1. a <= 2 /\ 2 <= a /\ a \in 1 .. n
    BY <1>1, <1>2, <1>3
  <2> QED BY <2>1
<1>4. Min(S) = 2
  BY <1>1, <1>2, <1>3 DEF Min
<1> QED BY <1>1, <1>4 DEF FirstMatch, S

LEMMA SomeFirst ==
  ASSUME NEW text, NEW marks, NEW n \in Nat, DOMAIN text = 1 .. n,
         Matching(text, marks) # {}
  PROVE  \E k \in 1 .. n : FirstMatch(text, marks) = text[k]
<1> DEFINE S == Matching(text, marks)
<1>1. S \subseteq 1 .. n /\ S # {}
  BY DEF Matching
<1> HIDE DEF S
<1>2. PICK k \in S : \A i \in S : k <= i
  <2>1. S \subseteq Nat
    BY <1>1
  <2> QED BY <1>1, <2>1, LeastOf
<1>3. Min(S) \in S
  BY <1>2 DEF Min
<1> QED BY <1>1, <1>3 DEF FirstMatch, S

\* There is a reason for an error if a line has one of the patterns, and only then.
LEMMA ReasonGiven ==
  ASSUME NEW text, NEW n \in Nat, DOMAIN text = 1 .. n,
         \A i \in 1 .. n : text[i].says # NoError
  PROVE  IcmpError(text) = NoError <=> Matching(text, {"dns", "icmp"}) = {}
<1>1. "unknown name" # NoError
  BY ZenonT(20) DEF NoError
<1>2. ASSUME Matching(text, {"dns", "icmp"}) # {}
      PROVE  FirstMatch(text, {"dns", "icmp"}).says # NoError
  BY <1>2, SomeFirst
<1> QED BY <1>1, <1>2 DEF IcmpError

LEMMA LineSays ==
  ASSUME NEW says, NEW marks, NEW l, l = OutLine(says, marks)
  PROVE  l.says = says /\ l.marks = marks
  BY DEF OutLine

LEMMA ResultSays ==
  /\ Answered.status = "ok" /\ Lost.status = "timeout"
  /\ \A msg, detail : /\ PingResult("error", msg, detail).status = "error"
                      /\ PingResult("error", msg, detail).detail = detail
  BY Zenon DEF Answered, Lost, PingResult

\* What is made of a text, whatever the words of the name of the target.
LEMMA HowItIsUnderstood ==
  ASSUME NEW code, NEW text
  PROVE  LET r == Understood(code, text)
             detailed == r.status = "error" /\ r.detail = ErrorDetail(text)
         IN  /\ code = 0 /\ Shows(text, "time") => r.status = "ok"
             /\ ~(code = 0 /\ Shows(text, "time")) =>
                  /\ IcmpError(text) # NoError => detailed
                  /\ IcmpError(text) = NoError /\ Shows(text, "loss") => r.status = "timeout"
                  /\ IcmpError(text) = NoError /\ ~Shows(text, "loss") => detailed
  BY ResultSays DEF Understood

LEMMA OneLine ==
  ASSUME NEW end \in DOMAIN AtOnce, NEW name, NEW said
  PROVE  LET r == PingOnce(name, said, end)
         IN  r.status = "error" /\ r.detail = end
<1> DEFINE l == OutLine(end, AtOnce[end])
           text == << l >>
           r == Understood(2, text)
<1>1. end \in {"unknown", "forbidden", "no network"}
  BY WhatPingSays
<1>2. PingOnce(name, said, end) = r
  BY <1>1 DEF PingOnce, Run
<1>3. /\ l.says = end /\ l.marks = AtOnce[end]
      /\ DOMAIN text = 1 .. 1 /\ text[1] = l
  BY DEF OutLine
<1> HIDE DEF text, r, l
<1>4. ErrorDetail(text) = end
  <2> DEFINE marks == {"dns", "icmp", "error", "ping:", "From "}
  <2>1. "ping:" \in AtOnce[end]
    BY <1>1, WhatPingSays
  <2>2. Matching(text, marks) # {} /\ FirstMatch(text, marks) = text[1]
    <3>1. "ping:" \in text[1].marks \cap marks
      BY <1>3, <2>1
    <3> HIDE DEF marks
    <3>2. DOMAIN text = 1 .. 1 /\ text[1].marks \cap marks # {}
      BY <1>3, <3>1
    <3>3. 1 \in Nat /\ 1 \in 1 .. 1 /\ 1 .. 1 - 1 = {}
      OBVIOUS
    <3> QED BY <3>2, <3>3, FirstOfMatches
  <2> QED BY <1>3, <2>2 DEF ErrorDetail
<1>5. ~Shows(text, "loss")
  <2>1. "loss" \notin AtOnce["unknown"]
    BY WhatPingSays
  <2>2. "loss" \notin AtOnce["forbidden"]
    BY WhatPingSays
  <2>3. "loss" \notin AtOnce["no network"]
    BY WhatPingSays
  <2>4. "loss" \notin AtOnce[end]
    BY <1>1, <2>1, <2>2, <2>3
  <2> QED BY <1>3, <2>4 DEF Shows, Matching
<1> QED BY <1>2, <1>4, <1>5, HowItIsUnderstood DEF r

LEMMA WholeText ==
  ASSUME NEW end \in {"answered", "unreachable", "exceeded", "lost", "rejected"},
         NEW name, NEW W, NoError \notin W, NEW said \in Seq(W)
  PROVE  LET r      == PingOnce(name, said, end)
             silent == said = << >> /\ end \in {"lost", "rejected", "exceeded"}
         IN  /\ r.status = "ok" <=> end = "answered"
             /\ r.status = "timeout" => silent
             /\ name = {} => /\ silent => r.status = "timeout"
                             /\ r.status = "error" =>
                                  r.detail = IF said # << >> THEN Head(said) ELSE end
<1> DEFINE proc == Run(name, said, end)
           text == proc.text
           r == Understood(proc.code, text)
           n == Len(text)
           patterns == {"dns", "icmp", "error", "ping:", "From "}
           silent == said = << >> /\ end \in {"lost", "rejected", "exceeded"}
<1>1. PingOnce(name, said, end) = r
  BY DEF PingOnce
<1>2. TextOf(text, name, said, end) /\ proc.code = IF end = "answered" THEN 0 ELSE 1
  BY WhatPingPrints
<1> HIDE DEF proc, text, r
<1> DEFINE second == text[2]
<1>a. /\ said # << >> => second = OutLine(Head(said), {"From ", "icmp"})
      /\ said = << >> /\ end \in DOMAIN Told => second = OutLine(end, Told[end])
  BY <1>2 DEF TextOf
<1>b. second = text[2]
  OBVIOUS
<1> HIDE DEF second
<1>c. said # << >> => second.says = Head(said) /\ second.marks = {"From ", "icmp"}
  BY <1>a, LineSays
<1>d. said = << >> /\ end = "unreachable" =>
        second = OutLine(end, {"From ", "icmp", "word"})
  <2>1. end = "unreachable" => end \in DOMAIN Told /\ Told[end] = {"From ", "icmp", "word"}
    BY WhatPingSays
  <2> QED BY <1>a, <2>1
<1>e. said = << >> /\ end = "unreachable" =>
        second.says = end /\ second.marks = {"From ", "icmp", "word"}
  <2> DEFINE m == {"From ", "icmp", "word"}
  <2>1. \A l : l = OutLine(end, m) => l.says = end /\ l.marks = m
    BY LineSays
  <2> SUFFICES said = << >> /\ end = "unreachable" => second.says = end /\ second.marks = m
    OBVIOUS
  <2>2. said = << >> /\ end = "unreachable" => second = OutLine(end, m)
    BY <1>d
  <2> HIDE DEF m
  <2> QED BY <2>1, <2>2
<1>3. /\ n \in Nat /\ n >= 3 /\ DOMAIN text = 1 .. n
      /\ \A i \in 1 .. n : text[i].says # NoError
  BY <1>2 DEF TextOf
<1>4. IcmpError(text) = NoError <=> Matching(text, {"dns", "icmp"}) = {}
  BY <1>3, ReasonGiven
<1>5. end = "answered" => Shows(text, "time")
  <2> SUFFICES ASSUME end = "answered" PROVE Shows(text, "time")
    OBVIOUS
  <2>1. end \in DOMAIN Told /\ Told[end] = {"time"}
    BY WhatPingSays
  <2>2. PICK i \in DOMAIN text : text[i] = OutLine(end, Told[end])
    BY <1>2, <2>1 DEF TextOf
  <2>3. text[i].marks = {"time"}
    BY <2>1, <2>2, LineSays
  <2> QED BY <2>3 DEF Shows, Matching
<1>6. r.status = "ok" <=> end = "answered"
  BY <1>2, <1>5, HowItIsUnderstood DEF r
<1>7. said # << >> \/ end = "unreachable" => IcmpError(text) # NoError
  <2> SUFFICES ASSUME said # << >> \/ end = "unreachable"
               PROVE  "icmp" \in text[2].marks
    BY <1>3, <1>4 DEF Matching
  <2>1. "icmp" \in second.marks
    BY <1>c, <1>e
  <2> QED BY <1>b, <2>1
<1>8. r.status = "timeout" => silent
  BY <1>2, <1>5, <1>7, HowItIsUnderstood DEF r
<1>9. ASSUME name = {}, silent PROVE r.status = "timeout"
  <2>1. IcmpError(text) = NoError
    <3> SUFFICES ASSUME NEW i \in 1 .. n
                 PROVE  "dns" \notin text[i].marks /\ "icmp" \notin text[i].marks
      BY <1>3, <1>4 DEF Matching
    <3>1. \/ text[i].marks \in {{}, {} \cup {"packet"}, Summary(end)}
          \/ end \in DOMAIN Told /\ text[i].marks = Told[end]
      BY <1>2, <1>3, <1>9 DEF TextOf
    <3>2. /\ "dns" \notin Summary(end) /\ "icmp" \notin Summary(end)
          /\ end \in DOMAIN Told => "dns" \notin Told[end] /\ "icmp" \notin Told[end]
      BY <1>9, WhatPingSays DEF Summary
    <3> QED BY <3>1, <3>2
  <2>2. Shows(text, "loss")
    BY <1>2, <1>3, <1>9 DEF TextOf, OutLine, Summary, Shows, Matching
  <2> QED BY <1>2, <1>9, <2>1, <2>2, HowItIsUnderstood DEF r
<1>10. ASSUME name = {}, r.status = "error"
       PROVE  r.detail = IF said # << >> THEN Head(said) ELSE end
  <2>1. r.detail = ErrorDetail(text)
    BY <1>10, HowItIsUnderstood, ResultSays DEF r
  <2>2. text[1].marks = {}
    <3>1. text[1] = OutLine("header", name)
      BY <1>2 DEF TextOf
    <3> QED BY <1>10, <3>1, LineSays
  <2>3. said # << >> \/ end = "unreachable"
    BY <1>6, <1>9, <1>10
  <2>4. /\ "icmp" \in text[2].marks
        /\ text[2].says = IF said # << >> THEN Head(said) ELSE end
    BY <1>b, <1>c, <1>e, <2>3
  <2>5. Matching(text, patterns) # {} /\ FirstMatch(text, patterns) = text[2]
    <3>1. "icmp" \in text[2].marks \cap patterns
      BY <2>4
    <3> HIDE DEF patterns, n
    <3>2. text[2].marks \cap patterns # {} /\ text[1].marks \cap patterns = {}
      BY <2>2, <3>1
    <3> QED BY <1>3, <3>2, SecondMatches
  <2> QED BY <2>1, <2>4, <2>5 DEF ErrorDetail
<1> QED BY <1>1, <1>6, <1>8, <1>9, <1>10

\* A probe is ok exactly if it was answered, a timeout only if nothing came, and an
\* error says why, for every target and everything ping may have to say.
THEOREM PingIsUnderstood == AlgSpec => []ProbeUnderstood
<1>1. Computed => ProbeUnderstood
  <2> SUFFICES ASSUME Computed, alg = "ping", output # << >> PROVE ProbeUnderstood
    BY DEF ProbeUnderstood, Result
  <2> DEFINE name == input.name
             said == input.said
             end  == input.end
             r    == PingOnce(name, said, end)
             W    == STRING \ {NoError}
             silent == \/ said = << >> /\ end = "lost"
                       \/ end = "hung"
             quick  == said = << >> /\ end \in {"rejected", "exceeded"}
             why    == IF said # << >> /\ end \notin DOMAIN AtOnce THEN Head(said) ELSE end
             claim == /\ r.status = "ok" <=> end = "answered"
                      /\ r.status = "timeout" => silent \/ quick
                      /\ name = {} => /\ silent => r.status = "timeout"
                                      /\ r.status = "error" /\ end # "not installed" =>
                                           r.detail = why
  <2>1. /\ said \in Seq(W) /\ end \in Ends /\ output[1] = r
    <3>1. input \in PingInputs /\ output = << r >>
      BY DEF Computed
    <3>2. said \in Seq(W) /\ end \in Ends
      BY <3>1, AlgAssumption
    <3> QED BY <3>1, <3>2
  <2>2. claim => ProbeUnderstood
    BY <2>1 DEF ProbeUnderstood
  <2> HIDE DEF name, said, end, W
  <2>3. CASE end = "not installed"
    <3>1. r = PingResult("error", "not installed", "")
      BY <2>3 DEF PingOnce
    <3>2. r.status = "error"
      BY <3>1, ResultSays
    <3> QED BY <2>2, <2>3, <3>2
  <2>4. CASE end = "hung"
    <3>1. r = Lost
      BY <2>4 DEF PingOnce
    <3> HIDE DEF r
    <3>2. r.status = "timeout"
      BY <3>1, ResultSays
    <3> QED BY <2>2, <2>4, <3>2
  <2>5. CASE end \in DOMAIN AtOnce
    <3>1. r.status = "error" /\ r.detail = end
      BY <2>5, OneLine
    <3>2. end \in {"unknown", "forbidden", "no network"}
      BY <2>5, WhatPingSays
    <3> HIDE DEF r
    <3> QED BY <2>2, <2>5, <3>1, <3>2
  <2>6. CASE end \in {"answered", "unreachable", "exceeded", "lost", "rejected"}
    <3>1. NoError \notin W
      BY DEF W
    <3>2. /\ r.status = "ok" <=> end = "answered"
          /\ r.status = "timeout" =>
               said = << >> /\ end \in {"lost", "rejected", "exceeded"}
          /\ name = {} =>
               /\ said = << >> /\ end \in {"lost", "rejected", "exceeded"} => r.status = "timeout"
               /\ r.status = "error" => r.detail = IF said # << >> THEN Head(said) ELSE end
      BY <2>1, <2>6, <3>1, WholeText
    <3>3. end \notin DOMAIN AtOnce /\ end # "hung"
      BY <2>6, WhatPingSays
    <3> HIDE DEF r
    <3> QED BY <2>2, <3>2, <3>3
  <2> QED BY <2>1, <2>3, <2>4, <2>5, <2>6, WhatPingSays DEF Ends
<1> QED BY <1>1, InitComputed, NextComputed, PTL DEF AlgSpec

-----------------------------------------------------------------------------
(* The comparison of two directories *)

\* What a tree of paths with names in N has: none of its files is a directory of
\* another one, and a file stands for a line at most.
CleanTree(t, N) ==
  /\ IsFiniteSet(DOMAIN t) /\ DOMAIN t \subseteq Seq(N) \ {<< >>}
  /\ \A u, q \in DOMAIN t : ~IsStrictPrefix(u, q)
  /\ \A u \in DOMAIN t : t[u].plus \in {0, 1} /\ t[u].minus \in {0, 1}

LeavesOf(t, n) == {u \in DOMAIN t : IsPrefix(n, u)}

LEMMA CutOff ==
  ASSUME NEW N, NEW u \in Seq(N), NEW i \in 1 .. Len(u)
  PROVE  LET n == SubSeq(u, 1, i)
         IN  /\ n \in Seq(N) /\ Len(n) = i /\ IsPrefix(n, u)
             /\ \A j \in 1 .. i : n[j] = u[j]
<1> DEFINE n == SubSeq(u, 1, i)
<1>1. Len(u) \in Nat /\ \A j \in 1 .. i : u[j] \in N
  BY ElementOfSeq
<1>2. n \in Seq(N) /\ Len(n) = i /\ \A j \in 1 .. i : n[j] = u[j]
  BY <1>1, SubSeqProperties
<1> HIDE DEF n
<1>3. IsPrefix(n, u)
  BY <1>1, <1>2, PrefixOf
<1> QED BY <1>2, <1>3 DEF n

\* A node is where a path of the tree is cut off.
LEMMA NodesAre ==
  ASSUME NEW t, NEW N, CleanTree(t, N)
  PROVE  /\ \A n \in Nodes(t) : \E u \in DOMAIN t : \E i \in 1 .. Len(u) : n = SubSeq(u, 1, i)
         /\ \A u \in DOMAIN t : \A i \in 1 .. Len(u) : SubSeq(u, 1, i) \in Nodes(t)
<1>1. \A u \in DOMAIN t : /\ u \in Seq(N) /\ Len(u) \in Nat \ {0}
                         /\ SubSeq(u, 1, Len(u)) = u
  <2> SUFFICES ASSUME NEW u \in DOMAIN t
               PROVE  u \in Seq(N) /\ Len(u) \in Nat \ {0} /\ SubSeq(u, 1, Len(u)) = u
    OBVIOUS
  <2>1. u \in Seq(N) /\ u # << >>
    BY DEF CleanTree
  <2>2. Len(u) \in Nat \ {0}
    BY <2>1
  <2> DEFINE s == SubSeq(u, 1, Len(u))
  <2>3. s \in Seq(N) /\ Len(s) = Len(u) /\ \A j \in 1 .. Len(u) : s[j] = u[j]
    BY <2>1, <2>2, CutOff
  <2> HIDE DEF s
  <2>4. s = u
    BY <2>1, <2>3, SeqEqual
  <2> QED BY <2>1, <2>2, <2>4 DEF s
<1>2. ASSUME NEW n \in Nodes(t)
      PROVE  \E u \in DOMAIN t : \E i \in 1 .. Len(u) : n = SubSeq(u, 1, i)
  <2>1. CASE n \in DOMAIN t
    <3>1. Len(n) \in 1 .. Len(n) /\ n = SubSeq(n, 1, Len(n))
      BY <1>1, <2>1
    <3> QED BY <2>1, <3>1
  <2>2. CASE n \in Dirs(t)
    <3>1. PICK u \in DOMAIN t : \E i \in 1 .. Len(u) - 1 : n = SubSeq(u, 1, i)
      BY <2>2 DEF Dirs
    <3>2. \A i \in 1 .. Len(u) - 1 : i \in 1 .. Len(u)
      BY <1>1
    <3> QED BY <3>1, <3>2
  <2> QED BY <2>1, <2>2 DEF Nodes
<1>3. ASSUME NEW u \in DOMAIN t, NEW i \in 1 .. Len(u) PROVE SubSeq(u, 1, i) \in Nodes(t)
  <2>1. CASE i = Len(u)
    BY <1>1, <2>1 DEF Nodes
  <2>2. CASE i # Len(u)
    <3>1. i \in 1 .. Len(u) - 1
      BY <1>1, <2>2
    <3> QED BY <3>1 DEF Nodes, Dirs
  <2> QED BY <2>1, <2>2
<1> QED BY <1>2, <1>3

\* The files below a directory are those of its children, each below one of them.
LEMMA KidsCover ==
  ASSUME NEW t, NEW N, CleanTree(t, N), NEW n \in Nodes(t) \cup {<< >>}, n \notin DOMAIN t
  PROVE  /\ n \in Seq(N) /\ IsFiniteSet(Children(t, n))
         /\ \A k \in Children(t, n) : /\ k \in Nodes(t) /\ k \in Seq(N)
                                      /\ Len(k) = Len(n) + 1 /\ LeavesOf(t, k) # {}
         /\ LeavesOf(t, n) = UNION {LeavesOf(t, k) : k \in Children(t, n)}
         /\ \A k, l \in Children(t, n) : k # l => LeavesOf(t, k) \cap LeavesOf(t, l) = {}
<1> DEFINE d == Len(n) + 1
           K == Children(t, n)
<1>1. \A u \in DOMAIN t : u \in Seq(N) /\ Len(u) \in Nat
  BY DEF CleanTree
<1>2. \A m \in Nodes(t) : m \in Seq(N) /\ Len(m) \in Nat /\ LeavesOf(t, m) # {}
  <2> SUFFICES ASSUME NEW m \in Nodes(t)
               PROVE  m \in Seq(N) /\ Len(m) \in Nat /\ LeavesOf(t, m) # {}
    OBVIOUS
  <2>1. PICK u \in DOMAIN t : \E i \in 1 .. Len(u) : m = SubSeq(u, 1, i)
    BY NodesAre
  <2>2. m \in Seq(N) /\ IsPrefix(m, u)
    BY <1>1, <2>1, CutOff
  <2> QED BY <2>1, <2>2 DEF LeavesOf
<1>3. n \in Seq(N) /\ Len(n) \in Nat /\ d \in Nat /\ d = Len(n) + 1
  <2>1. n \in Seq(N)
    <3>1. << >> \in Seq(N)
      OBVIOUS
    <3> QED BY <1>2, <3>1
  <2> QED BY <2>1
<1>4. \A k \in K : /\ k \in Nodes(t) /\ k \in Seq(N) /\ Len(k) = d
                    /\ IsPrefix(n, k) /\ LeavesOf(t, k) # {}
  BY <1>2 DEF Children
<1> HIDE DEF d
<1>5. ASSUME NEW u \in LeavesOf(t, n)
      PROVE  d \in 1 .. Len(u) /\ SubSeq(u, 1, d) \in K /\ u \in LeavesOf(t, SubSeq(u, 1, d))
  <2>1. /\ u \in DOMAIN t /\ u \in Seq(N) /\ Len(u) \in Nat /\ IsPrefix(n, u)
    BY <1>1 DEF LeavesOf
  <2>2. Len(n) <= Len(u) /\ \A j \in 1 .. Len(n) : n[j] = u[j]
    BY <1>3, <2>1, PrefixOf
  <2>3. Len(n) # Len(u)
    <3> SUFFICES ASSUME Len(n) = Len(u) PROVE n = u
      BY <2>1
    <3> QED BY <1>3, <2>1, <2>2, SeqEqual
  <2>4. d \in 1 .. Len(u)
    BY <1>3, <2>1, <2>2, <2>3
  <2> DEFINE k == SubSeq(u, 1, d)
  <2>5. k \in Seq(N) /\ Len(k) = d /\ IsPrefix(k, u) /\ \A j \in 1 .. d : k[j] = u[j]
    BY <2>1, <2>4, CutOff
  <2>6. k \in Nodes(t)
    BY <2>1, <2>4, NodesAre
  <2> HIDE DEF k
  <2>7. IsPrefix(n, k)
    <3>1. \A j \in 1 .. Len(n) : j \in 1 .. d
      BY <1>3
    <3>2. \A j \in 1 .. Len(n) : n[j] = k[j]
      BY <2>2, <2>5, <3>1
    <3>3. Len(n) <= Len(k)
      BY <1>3, <2>5
    <3> QED BY <1>3, <2>5, <3>2, <3>3, PrefixOf
  <2>8. k \in K
    BY <1>3, <2>5, <2>6, <2>7 DEF Children
  <2> QED BY <2>1, <2>4, <2>5, <2>8 DEF k, LeavesOf
<1>6. ASSUME NEW k \in K, NEW u \in LeavesOf(t, k)
      PROVE  u \in LeavesOf(t, n) /\ k = SubSeq(u, 1, d)
  <2>1. /\ u \in DOMAIN t /\ u \in Seq(N) /\ Len(u) \in Nat /\ IsPrefix(k, u)
    BY <1>1 DEF LeavesOf
  <2>2. k \in Seq(N) /\ Len(k) = d /\ IsPrefix(n, k)
    BY <1>4
  <2>3. d <= Len(u) /\ \A j \in 1 .. d : k[j] = u[j]
    BY <2>1, <2>2, PrefixOf
  <2>4. \A j \in 1 .. Len(n) : n[j] = k[j]
    BY <1>3, <2>2, PrefixOf
  <2>5. IsPrefix(n, u)
    <3>1. \A j \in 1 .. Len(n) : j \in 1 .. d
      BY <1>3
    <3>2. \A j \in 1 .. Len(n) : n[j] = u[j]
      BY <2>3, <2>4, <3>1
    <3>3. Len(n) <= Len(u)
      BY <1>3, <2>1, <2>3
    <3> QED BY <1>3, <2>1, <3>2, <3>3, PrefixOf
  <2>6. d \in 1 .. Len(u)
    BY <1>3, <2>1, <2>3
  <2> DEFINE s == SubSeq(u, 1, d)
  <2>7. s \in Seq(N) /\ Len(s) = d /\ \A j \in 1 .. d : s[j] = u[j]
    BY <2>1, <2>6, CutOff
  <2> HIDE DEF s
  <2>8. s = k
    <3>1. Len(s) = Len(k) /\ \A j \in 1 .. Len(s) : s[j] = k[j]
      BY <2>2, <2>3, <2>7
    <3> QED BY <2>2, <2>7, <3>1, SeqEqual
  <2> QED BY <2>1, <2>5, <2>8 DEF s, LeavesOf
<1>7. IsFiniteSet(K)
  <2> DEFINE f == [u \in LeavesOf(t, n) |-> SubSeq(u, 1, d)]
             R == {f[u] : u \in LeavesOf(t, n)}
  <2>1. IsFiniteSet(LeavesOf(t, n))
    <3>1. IsFiniteSet(DOMAIN t) /\ LeavesOf(t, n) \subseteq DOMAIN t
      BY DEF CleanTree, LeavesOf
    <3> QED BY <3>1, FS_Subset
  <2>2. f \in Surjection(LeavesOf(t, n), R)
    BY DEF Surjection
  <2>3. IsFiniteSet(R)
    BY <2>1, <2>2, FS_Surjection
  <2>4. K \subseteq R
    BY <1>4, <1>6
  <2> QED BY <2>3, <2>4, FS_Subset
<1>8. LeavesOf(t, n) = UNION {LeavesOf(t, k) : k \in K}
  BY <1>5, <1>6
<1>9. \A k, l \in K : k # l => LeavesOf(t, k) \cap LeavesOf(t, l) = {}
  BY <1>6
<1> QED BY <1>3, <1>4, <1>7, <1>8, <1>9 DEF d

LEMMA DisjointSize ==
  ASSUME NEW S, NEW T, IsFiniteSet(S), IsFiniteSet(T), S \cap T = {}
  PROVE  /\ IsFiniteSet(S \cup T)
         /\ Cardinality(S \cup T) = Cardinality(S) + Cardinality(T)
<1>1. Cardinality(S) \in Nat /\ Cardinality(T) \in Nat
  BY FS_CardinalityType
<1>2. Cardinality({}) = 0
  BY FS_EmptySet
<1>3. Cardinality(S \cup T) = Cardinality(S) + Cardinality(T) - Cardinality({})
  BY FS_Union
<1> QED BY <1>1, <1>2, <1>3, FS_Union

\* The equation the community modules define a sum by: an element is taken
\* off the set until nothing is left.
Picked(s) == CHOOSE x \in s : TRUE

Summing(f, E, g) ==
  g = [s \in SUBSET E |-> IF s = {} THEN 0 ELSE f[Picked(s)] + g[s \ {Picked(s)}]]

LEMMA SumIsSumming ==
  ASSUME NEW f, NEW E
  PROVE  SumFunctionOnSet(f, E) = (CHOOSE g : Summing(f, E, g))[E]
BY DEF SumFunctionOnSet, FoldFunctionOnSet, MapThenFoldSet, Summing, Picked

\* Elements of a finite set are taken off one by one: two functions that obey
\* the equation are equal.
LEMMA SummingUnique ==
  ASSUME NEW f, NEW E, IsFiniteSet(E), NEW g, NEW k,
         Summing(f, E, g), Summing(f, E, k)
  PROVE  \A s \in SUBSET E : g[s] = k[s]
<1> DEFINE Bad == {n \in Nat : \E s \in SUBSET E : Cardinality(s) = n /\ g[s] # k[s]}
<1>1. SUFFICES ASSUME NEW s \in SUBSET E, g[s] # k[s] PROVE FALSE
  OBVIOUS
<1>2. Bad # {}
  <2>1. IsFiniteSet(s)
    BY FS_Subset
  <2> QED BY <1>1, <2>1, FS_CardinalityType
<1>3. PICK n \in Bad : \A m \in Bad : n <= m
  BY <1>2, LeastOf
<1>4. PICK t \in SUBSET E : Cardinality(t) = n /\ g[t] # k[t]
  BY <1>3
<1>5. t # {}
  BY <1>4 DEF Summing
<1>6. Picked(t) \in t
  BY <1>5 DEF Picked
<1>7. Cardinality(t \ {Picked(t)}) = n - 1 /\ n - 1 \in Nat /\ n \in Nat
  <2>1. IsFiniteSet(t) /\ IsFiniteSet(t \ {Picked(t)})
    BY FS_Subset
  <2> QED BY <1>4, <1>6, <2>1, FS_RemoveElement, FS_CardinalityType
<1>8. g[t \ {Picked(t)}] = k[t \ {Picked(t)}]
  BY <1>3, <1>7
<1>9. g[t] = f[Picked(t)] + g[t \ {Picked(t)}] /\ k[t] = f[Picked(t)] + k[t \ {Picked(t)}]
  BY <1>5 DEF Summing
<1> QED BY <1>4, <1>8, <1>9

\* The sum of the sizes of disjoint sets is the size of their union.
LEMMA SumOfSizes ==
  ASSUME NEW E, IsFiniteSet(E), NEW f, NEW F,
         \A d \in E : IsFiniteSet(F[d]) /\ f[d] = Cardinality(F[d]),
         \A d, e \in E : d # e => F[d] \cap F[e] = {},
         NEW All, \A x : x \in All <=> \E d \in E : x \in F[d]
  PROVE  SumFunctionOnSet(f, E) = Cardinality(All)
<1> DEFINE U(s) == UNION {F[d] : d \in s}
           g == [s \in SUBSET E |-> Cardinality(U(s))]
<1>1. ASSUME NEW s \in SUBSET E PROVE IsFiniteSet(U(s))
  <2>1. IsFiniteSet(s)
    BY FS_Subset
  <2> DEFINE W == {F[d] : d \in s}
             w == [d \in s |-> F[d]]
  <2>2. IsFiniteSet(W)
    <3>1. w \in Surjection(s, W)
      BY DEF Surjection
    <3> QED BY <2>1, <3>1, FS_Surjection
  <2>3. \A T \in W : IsFiniteSet(T)
    OBVIOUS
  <2> HIDE DEF W
  <2>4. IsFiniteSet(UNION W)
    BY <2>2, <2>3, FS_UNION
  <2> QED BY <2>4 DEF W
<1>2. ASSUME NEW s \in SUBSET E
      PROVE  g[s] = IF s = {} THEN 0 ELSE f[Picked(s)] + g[s \ {Picked(s)}]
  <2>1. CASE s = {}
    <3>1. U(s) = {}
      BY <2>1
    <3> HIDE DEF U
    <3> QED BY <2>1, <3>1, FS_EmptySet
  <2>2. CASE s # {}
    <3> DEFINE x == Picked(s)
               r == s \ {x}
    <3>1. x \in s /\ r \in SUBSET E /\ x \in E /\ r = s \ {x}
      BY <2>2 DEF Picked
    <3>2. U(s) = F[x] \cup U(r)
      BY <3>1
    <3>3. F[x] \cap U(r) = {}
      BY <3>1
    <3>4. IsFiniteSet(F[x]) /\ IsFiniteSet(U(r))
      BY <1>1, <3>1
    <3>5. f[x] = Cardinality(F[x]) /\ f[x] \in Nat /\ Cardinality(U(r)) \in Nat
      BY <3>1, <3>4, FS_CardinalityType
    <3> HIDE DEF U, x, r
    <3>6. Cardinality(U(s)) = f[x] + Cardinality(U(r))
      <4>1. Cardinality(F[x] \cup U(r)) = Cardinality(F[x]) + Cardinality(U(r))
        BY <3>3, <3>4, DisjointSize
      <4> QED BY <3>2, <3>5, <4>1
    <3>7. g[s] = Cardinality(U(s)) /\ g[r] = Cardinality(U(r))
      BY <3>1
    <3> HIDE DEF g
    <3>8. g[s] = f[x] + g[r]
      BY <3>6, <3>7
    <3> QED BY <2>2, <3>8 DEF x, r
  <2> QED BY <2>1, <2>2
<1> HIDE DEF U
<1>3. Summing(f, E, g)
  BY <1>2 DEF Summing
<1> HIDE DEF g
<1>4. Summing(f, E, CHOOSE k : Summing(f, E, k))
  BY <1>3
<1>5. (CHOOSE k : Summing(f, E, k))[E] = g[E]
  BY <1>3, <1>4, SummingUnique
<1>6. g[E] = Cardinality(U(E))
  BY DEF g
<1>7. U(E) = All
  BY DEF U
<1> QED BY <1>5, <1>6, <1>7, SumIsSumming

-----------------------------------------------------------------------------
(* The verdicts and sums of directories *)

\* What some verdicts come to.
AllSay(S) == IF S \in {{"onlyA"}, {"onlyB"}, {"same"}} THEN CHOOSE s \in S : TRUE ELSE "diff"

LEMMA WhatAllSay ==
  ASSUME NEW S
  PROVE  \/ \E a \in {"onlyA", "onlyB", "same"} : S = {a} /\ AllSay(S) = a
         \/ /\ \A a \in {"onlyA", "onlyB", "same"} : S # {a}
            /\ AllSay(S) = "diff"
<1>1. ASSUME NEW a, S = {a} PROVE (CHOOSE s \in S : TRUE) = a
  BY <1>1
<1> QED BY <1>1 DEF AllSay

\* V are what the families S[k], whose union is U, come to one by one.
Gathered(K, S, v, V, U) ==
  /\ \A k \in K : S[k] # {} /\ (v[k] = AllSay(S[k]) \/ S[k] = {v[k]})
  /\ \A x : x \in V <=> \E k \in K : x = v[k]
  /\ \A x : x \in U <=> \E k \in K : x \in S[k]

LEMMA Agreement ==
  ASSUME NEW K, NEW S, NEW v, NEW V, NEW U, Gathered(K, S, v, V, U)
  PROVE  AllSay(V) = AllSay(U)
<1> USE DEF Gathered
<1> DEFINE Three == {"onlyA", "onlyB", "same"}
<1>1. ASSUME NEW a \in Three, V = {a} PROVE U = {a}
  <2>1. \A k \in K : v[k] = a
    BY <1>1
  <2>2. ASSUME NEW k \in K PROVE S[k] = {a}
    <3>1. CASE S[k] = {v[k]}
      BY <2>1, <3>1
    <3>2. CASE v[k] = AllSay(S[k])
      <4>1. a # "diff"
        OBVIOUS
      <4> QED BY <2>1, <3>2, <4>1, WhatAllSay
    <3> QED BY <3>1, <3>2
  <2>3. K # {}
    BY <1>1
  <2> QED BY <2>2, <2>3
<1>2. ASSUME NEW a \in Three, U = {a} PROVE V = {a}
  <2>1. \A k \in K : S[k] = {a}
    BY <1>2
  <2>2. AllSay({a}) = a
    BY DEF AllSay
  <2>3. \A k \in K : v[k] = a
    BY <2>1, <2>2
  <2>4. K # {}
    BY <1>2
  <2> QED BY <2>3, <2>4
<1>3. CASE \E a \in Three : V = {a}
  <2>1. V = U
    BY <1>1, <1>3
  <2> QED BY <2>1
<1>4. CASE \A a \in Three : V # {a}
  <2>1. \A a \in Three : U # {a}
    BY <1>2, <1>4
  <2>2. AllSay(V) = "diff" /\ AllSay(U) = "diff"
    BY <1>4, <2>1, WhatAllSay
  <2> QED BY <2>2
<1> QED BY <1>3, <1>4

\* The files below a node that have a line more on the one side or on the other.
Added(t, n) == {u \in LeavesOf(t, n) : t[u].plus = 1}

Removed(t, n) == {u \in LeavesOf(t, n) : t[u].minus = 1}

\* What is true of each node of a tree.
Said(t, n) == {t[u].status : u \in LeavesOf(t, n)}

Truth(t) ==
  [n \in Nodes(t) \cup {<< >>} |->
     IF n \in DOMAIN t THEN t[n]
     ELSE Entry(AllSay(Said(t, n)), Cardinality(Added(t, n)), Cardinality(Removed(t, n)))]

\* The equation of the verdicts on the nodes of a tree.
Solves(t, v) ==
  v = [n \in Nodes(t) \cup {<< >>} |->
         IF n \in DOMAIN t THEN t[n] ELSE SumUp([k \in Children(t, n) |-> v[k]])]

LEMMA FinalizeSolves == \A t : Finalize(t) = CHOOSE v : Solves(t, v)
  BY DEF Finalize, Solves

LEMMA EntrySays ==
  ASSUME NEW s, NEW a, NEW b
  PROVE  Entry(s, a, b).status = s /\ Entry(s, a, b).plus = a /\ Entry(s, a, b).minus = b
  BY DEF Entry

\* A file is all there is at its place.
LEMMA LeafAlone ==
  ASSUME NEW t, NEW N, CleanTree(t, N), NEW k \in DOMAIN t
  PROVE  LeavesOf(t, k) = {k}
<1>1. \A u \in DOMAIN t : u \in Seq(N)
  BY DEF CleanTree
<1>2. IsPrefix(k, k)
  BY <1>1, PrefixOf
<1>3. \A u \in DOMAIN t : IsPrefix(k, u) => u = k
  BY DEF CleanTree, IsStrictPrefix
<1> QED BY <1>2, <1>3 DEF LeavesOf

LEMMA LeavesFinite ==
  ASSUME NEW t, NEW N, CleanTree(t, N), NEW n
  PROVE  /\ IsFiniteSet(LeavesOf(t, n)) /\ IsFiniteSet(Added(t, n))
         /\ IsFiniteSet(Removed(t, n))
  BY FS_Subset DEF CleanTree, LeavesOf, Added, Removed

\* Of every node the truth tells the number of lines that were added and removed.
LEMMA TruthCounts ==
  ASSUME NEW t, NEW N, CleanTree(t, N), NEW k \in Nodes(t)
  PROVE  /\ Truth(t)[k].plus = Cardinality(Added(t, k))
         /\ Truth(t)[k].minus = Cardinality(Removed(t, k))
         /\ Truth(t)[k].status = AllSay(Said(t, k)) \/ Said(t, k) = {Truth(t)[k].status}
<1>1. CASE k \in DOMAIN t
  <2>1. Truth(t)[k] = t[k] /\ LeavesOf(t, k) = {k}
    BY <1>1, LeafAlone DEF Truth
  <2>2. Said(t, k) = {t[k].status}
    BY <2>1 DEF Said
  <2>3. t[k].plus \in {0, 1} /\ t[k].minus \in {0, 1}
    BY <1>1 DEF CleanTree
  <2>4. Cardinality({k}) = 1 /\ Cardinality({}) = 0
    BY FS_Singleton, FS_EmptySet
  <2>5. Added(t, k) = IF t[k].plus = 1 THEN {k} ELSE {}
    BY <2>1 DEF Added
  <2>6. Removed(t, k) = IF t[k].minus = 1 THEN {k} ELSE {}
    BY <2>1 DEF Removed
  <2> QED BY <2>1, <2>2, <2>3, <2>4, <2>5, <2>6
<1>2. CASE k \notin DOMAIN t
  <2>1. Truth(t)[k] = Entry(AllSay(Said(t, k)), Cardinality(Added(t, k)),
                            Cardinality(Removed(t, k)))
    BY <1>2 DEF Truth
  <2> QED BY <2>1, EntrySays
<1> QED BY <1>1, <1>2

\* The truth about a directory is the sum of that about its children.
LEMMA TruthSolves ==
  ASSUME NEW t, NEW N, CleanTree(t, N)
  PROVE  Solves(t, Truth(t))
<1> DEFINE w == Truth(t)
<1>1. ASSUME NEW n \in Nodes(t) \cup {<< >>}, n \notin DOMAIN t
      PROVE  Entry(AllSay(Said(t, n)), Cardinality(Added(t, n)), Cardinality(Removed(t, n)))
               = SumUp([k \in Children(t, n) |-> w[k]])
  <2> DEFINE K == Children(t, n)
             S == [k \in K |-> Said(t, k)]
             A == [k \in K |-> Added(t, k)]
             R == [k \in K |-> Removed(t, k)]
             st == [k \in K |-> w[k].status]
             pl == [k \in K |-> w[k].plus]
             mi == [k \in K |-> w[k].minus]
  <2>1. /\ IsFiniteSet(K)
        /\ \A k \in K : k \in Nodes(t) /\ LeavesOf(t, k) # {}
        /\ LeavesOf(t, n) = UNION {LeavesOf(t, k) : k \in K}
        /\ \A k, l \in K : k # l => LeavesOf(t, k) \cap LeavesOf(t, l) = {}
    BY <1>1, KidsCover
  <2>2. SumUp([k \in K |-> w[k]])
          = Entry(AllSay({w[k].status : k \in K}), SumFunction(pl), SumFunction(mi))
    BY DEF SumUp, AllSay
  <2>3. \A k \in K : /\ w[k].plus = Cardinality(Added(t, k))
                     /\ w[k].minus = Cardinality(Removed(t, k))
                     /\ w[k].status = AllSay(Said(t, k)) \/ Said(t, k) = {w[k].status}
    BY <2>1, TruthCounts
  <2> HIDE DEF w, K
  <2>4. AllSay({w[k].status : k \in K}) = AllSay(Said(t, n))
    <3> DEFINE V == {w[k].status : k \in K}
    <3>1. \A k \in K : S[k] # {}
      <4> SUFFICES ASSUME NEW k \in K PROVE Said(t, k) # {}
        OBVIOUS
      <4>1. PICK u : u \in LeavesOf(t, k)
        BY <2>1
      <4> QED BY <4>1 DEF Said
    <3>2. \A k \in K : st[k] = AllSay(S[k]) \/ S[k] = {st[k]}
      BY <2>3
    <3>3. \A x : x \in Said(t, n) <=> \E k \in K : x \in S[k]
      BY <2>1 DEF Said
    <3>4. \A x : x \in V <=> \E k \in K : x = st[k]
      OBVIOUS
    <3> SUFFICES AllSay(V) = AllSay(Said(t, n))
      OBVIOUS
    <3> DEFINE U == Said(t, n)
    <3>6. \A x : x \in U <=> \E k \in K : x \in S[k]
      BY <3>3
    <3> SUFFICES AllSay(V) = AllSay(U)
      OBVIOUS
    <3> HIDE DEF S, st, V, U
    <3>5. \A k \in K : S[k] # {} /\ (st[k] = AllSay(S[k]) \/ S[k] = {st[k]})
      BY <3>1, <3>2
    <3>7. Gathered(K, S, st, V, U)
      BY <3>4, <3>5, <3>6 DEF Gathered
    <3> QED BY <3>7, Agreement
  <2>5. SumFunction(pl) = Cardinality(Added(t, n))
    <3>1. \A k \in K : IsFiniteSet(A[k]) /\ pl[k] = Cardinality(A[k])
      BY <2>3, LeavesFinite
    <3>2. \A k, l \in K : k # l => A[k] \cap A[l] = {}
      BY <2>1 DEF Added
    <3>3. \A x : x \in Added(t, n) <=> \E k \in K : x \in A[k]
      BY <2>1 DEF Added
    <3>4. DOMAIN pl = K
      OBVIOUS
    <3> HIDE DEF A, pl
    <3>5. SumFunctionOnSet(pl, K) = Cardinality(Added(t, n))
      BY <2>1, <3>1, <3>2, <3>3, SumOfSizes
    <3> QED BY <3>4, <3>5 DEF SumFunction
  <2>6. SumFunction(mi) = Cardinality(Removed(t, n))
    <3>1. \A k \in K : IsFiniteSet(R[k]) /\ mi[k] = Cardinality(R[k])
      BY <2>3, LeavesFinite
    <3>2. \A k, l \in K : k # l => R[k] \cap R[l] = {}
      BY <2>1 DEF Removed
    <3>3. \A x : x \in Removed(t, n) <=> \E k \in K : x \in R[k]
      BY <2>1 DEF Removed
    <3>4. DOMAIN mi = K
      OBVIOUS
    <3> HIDE DEF R, mi
    <3>5. SumFunctionOnSet(mi, K) = Cardinality(Removed(t, n))
      BY <2>1, <3>1, <3>2, <3>3, SumOfSizes
    <3> QED BY <3>4, <3>5 DEF SumFunction
  <2> QED BY <2>2, <2>4, <2>5, <2>6 DEF K
<1>2. w = [n \in Nodes(t) \cup {<< >>} |->
             IF n \in DOMAIN t THEN t[n]
             ELSE Entry(AllSay(Said(t, n)), Cardinality(Added(t, n)),
                        Cardinality(Removed(t, n)))]
  BY DEF Truth
<1> HIDE DEF w
<1>3. w = [n \in Nodes(t) \cup {<< >>} |->
             IF n \in DOMAIN t THEN t[n] ELSE SumUp([k \in Children(t, n) |-> w[k]])]
  BY <1>1, <1>2, Zenon
<1> QED BY <1>3 DEF Solves, w

LEMMA BoundOf ==
  ASSUME NEW S, IsFiniteSet(S), S \subseteq Nat
  PROVE  \E m \in Nat : \A x \in S : x <= m
<1> DEFINE Short == {n \in Nat : \E T \in SUBSET S : /\ Cardinality(T) = n
                                                   /\ ~\E m \in Nat : \A x \in T : x <= m}
<1> SUFFICES ASSUME ~\E m \in Nat : \A x \in S : x <= m PROVE FALSE
  OBVIOUS
<1>1. Cardinality(S) \in Short
  BY FS_CardinalityType
<1>2. PICK n \in Short : \A k \in Short : n <= k
  BY <1>1, LeastOf
<1>3. PICK T \in SUBSET S : Cardinality(T) = n /\ ~\E m \in Nat : \A x \in T : x <= m
  BY <1>2
<1>4. PICK y \in T : TRUE
  <2>1. T # {}
    BY <1>3
  <2> QED BY <2>1
<1>5. Cardinality(T \ {y}) = n - 1 /\ n - 1 \in Nat /\ n \in Nat
  <2>1. IsFiniteSet(T) /\ IsFiniteSet(T \ {y})
    BY FS_Subset
  <2> QED BY <1>3, <1>4, <2>1, FS_RemoveElement, FS_CardinalityType
<1>6. n - 1 \notin Short
  BY <1>2, <1>5
<1>7. PICK m \in Nat : \A x \in T \ {y} : x <= m
  BY <1>5, <1>6
<1>8. m + y \in Nat /\ \A x \in T : x <= m + y
  <2>1. y \in Nat /\ T \subseteq Nat
    BY <1>4
  <2> QED BY <1>7, <2>1
<1> QED BY <1>3, <1>8

\* There is one solution: two that differ do so at a node, and then at a deeper one.
LEMMA OneSolution ==
  ASSUME NEW t, NEW N, CleanTree(t, N), NEW v, NEW w, Solves(t, v), Solves(t, w)
  PROVE  v = w
<1> DEFINE All == Nodes(t) \cup {<< >>}
           Deep == {Len(u) : u \in DOMAIN t}
<1>1. DOMAIN v = All /\ DOMAIN w = All /\ v = [n \in All |-> v[n]] /\ w = [n \in All |-> w[n]]
  BY DEF Solves
<1>2. PICK M \in Nat : \A n \in All : Len(n) \in Nat /\ Len(n) <= M
  <2>1. PICK M \in Nat : \A l \in Deep : l <= M
    <3>1. IsFiniteSet(Deep) /\ Deep \subseteq Nat
      <4> DEFINE f == [u \in DOMAIN t |-> Len(u)]
      <4>1. f \in Surjection(DOMAIN t, Deep)
        BY DEF Surjection
      <4>2. IsFiniteSet(Deep)
        BY <4>1, FS_Surjection DEF CleanTree
      <4>3. \A u \in DOMAIN t : Len(u) \in Nat
        BY DEF CleanTree
      <4> QED BY <4>2, <4>3
    <3> HIDE DEF Deep
    <3> QED BY <3>1, BoundOf
  <2>2. \A u \in DOMAIN t : u \in Seq(N) /\ Len(u) \in Nat /\ Len(u) <= M
    BY <2>1 DEF CleanTree
  <2>3. ASSUME NEW n \in Nodes(t) PROVE Len(n) \in Nat /\ Len(n) <= M
    <3>1. PICK u \in DOMAIN t : \E i \in 1 .. Len(u) : n = SubSeq(u, 1, i)
      BY NodesAre
    <3>2. PICK i \in 1 .. Len(u) : n = SubSeq(u, 1, i)
      BY <3>1
    <3>3. Len(n) = i
      BY <2>2, <3>2, CutOff
    <3> QED BY <2>2, <3>3
  <2>4. Len(<< >>) = 0
    OBVIOUS
  <2> QED BY <2>3, <2>4
<1>3. SUFFICES ASSUME NEW n \in All, v[n] # w[n] PROVE FALSE
  BY <1>1
<1> DEFINE Bad == {M - Len(m) : m \in {x \in All : v[x] # w[x]}}
<1>4. Bad \subseteq Nat /\ Bad # {}
  BY <1>2, <1>3
<1>5. PICK b \in Bad : \A c \in Bad : b <= c
  BY <1>4, LeastOf
<1>6. PICK m \in All : v[m] # w[m] /\ b = M - Len(m)
  BY <1>5
<1>7. \A k \in All : Len(k) > Len(m) => v[k] = w[k]
  <2> SUFFICES ASSUME NEW k \in All, Len(k) > Len(m), v[k] # w[k] PROVE FALSE
    OBVIOUS
  <2>1. M - Len(k) \in Bad
    OBVIOUS
  <2>2. Len(k) \in Nat /\ Len(m) \in Nat
    BY <1>2
  <2>3. M - Len(m) <= M - Len(k)
    BY <1>5, <1>6, <2>1
  <2> HIDE DEF Bad
  <2> QED BY <2>2, <2>3
<1>8. m \notin DOMAIN t
  BY <1>6 DEF Solves
<1>9. \A k \in Children(t, m) : k \in All /\ v[k] = w[k]
  BY <1>2, <1>7, <1>8, KidsCover
<1>10. [k \in Children(t, m) |-> v[k]] = [k \in Children(t, m) |-> w[k]]
  BY <1>9
<1>11. /\ v[m] = SumUp([k \in Children(t, m) |-> v[k]])
       /\ w[m] = SumUp([k \in Children(t, m) |-> w[k]])
  BY <1>8 DEF Solves
<1> QED BY <1>6, <1>10, <1>11

\* What Finalize works out is the truth about every node.
LEMMA FinalizeTells ==
  ASSUME NEW t, NEW N, CleanTree(t, N)
  PROVE  Finalize(t) = Truth(t)
<1>1. Solves(t, Truth(t))
  BY TruthSolves
<1>2. Solves(t, CHOOSE v : Solves(t, v))
  BY <1>1
<1> QED BY <1>1, <1>2, FinalizeSolves, OneSolution

\* What a row says of a directory is what the files below it say, for every two trees
\* of any depth in which no file has the name of a directory of the other one.
THEOREM DirectoriesTellTruth == AlgSpec => []DirectoryTellsTruth
<1>1. Computed => DirectoryTellsTruth
  <2> SUFFICES ASSUME Computed, alg = "tree", output # << >> PROVE DirectoryTellsTruth
    BY DEF DirectoryTellsTruth, Result
  <2> DEFINE A == input[1]
             B == input[2]
             entries == BuildEntries(A, B)
             r == Compared(A, B)
             clash == \E u, q \in DOMAIN entries : IsStrictPrefix(u, q)
             below(d) == {u \in DOMAIN entries : IsStrictPrefix(d, u)}
             said(d)  == {entries[u].status : u \in below(d)}
  <2>1. output[1] = r /\ input \in TreeInputs
    BY DEF Computed
  <2>2. SUFFICES ASSUME ~clash, NEW d \in DOMAIN r \ DOMAIN entries, below(d) # {}
                 PROVE  /\ r[d].status = IF said(d) \in {{"onlyA"}, {"onlyB"}, {"same"}}
                                           THEN CHOOSE s \in said(d) : TRUE ELSE "diff"
                        /\ r[d].plus  = SumFunction([u \in below(d) |-> entries[u].plus])
                        /\ r[d].minus = SumFunction([u \in below(d) |-> entries[u].minus])
    BY <2>1 DEF DirectoryTellsTruth
  <2>3. /\ DOMAIN entries = DOMAIN A \cup DOMAIN B
        /\ \A u \in DOMAIN entries : entries[u].plus \in {0, 1} /\ entries[u].minus \in {0, 1}
    BY EntrySays DEF BuildEntries, LineCount, Compare, Signed
  <2>4. CleanTree(entries, STRING)
    <3>1. /\ DOMAIN A \subseteq Seq(STRING) \ {<< >>} /\ IsFiniteSet(DOMAIN A)
          /\ DOMAIN B \subseteq Seq(STRING) \ {<< >>} /\ IsFiniteSet(DOMAIN B)
      BY <2>1, AlgAssumption
    <3>2. IsFiniteSet(DOMAIN A \cup DOMAIN B)
      BY <3>1, FS_Union
    <3> QED BY <2>2, <2>3, <3>1, <3>2 DEF CleanTree
  <2>5. BuildTree(entries) = entries
    <3>1. {q \in DOMAIN entries : \A x \in DOMAIN entries : ~IsStrictPrefix(x, q)} = DOMAIN entries
      BY <2>2
    <3>2. entries = [u \in DOMAIN entries |-> entries[u]]
      BY DEF BuildEntries
    <3> HIDE DEF entries
    <3> QED BY <3>1, <3>2 DEF BuildTree
  <2>6. r = Truth(entries)
    <3>1. r = Finalize(entries)
      BY <2>5 DEF Compared
    <3> QED BY <2>4, <3>1, FinalizeTells
  <2> HIDE DEF entries, r
  <2>7. d \in Nodes(entries) \cup {<< >>} /\ d \notin DOMAIN entries
    BY <2>2, <2>6 DEF Truth
  <2>8. r[d] = Entry(AllSay(Said(entries, d)), Cardinality(Added(entries, d)),
                     Cardinality(Removed(entries, d)))
    BY <2>6, <2>7 DEF Truth
  <2>9. below(d) = LeavesOf(entries, d)
    BY <2>7 DEF LeavesOf, IsStrictPrefix
  <2>10. said(d) = Said(entries, d)
    BY <2>9 DEF Said
  <2> DEFINE L == LeavesOf(entries, d)
             pl == [u \in L |-> entries[u].plus]
             mi == [u \in L |-> entries[u].minus]
  <2>11. SumFunction(pl) = Cardinality(Added(entries, d))
    <3>1. IsFiniteSet(L) /\ L \subseteq DOMAIN entries
      BY <2>4, LeavesFinite DEF LeavesOf
    <3> DEFINE F == [u \in L |-> IF entries[u].plus = 1 THEN {u} ELSE {}]
    <3>2. \A u \in L : IsFiniteSet(F[u]) /\ pl[u] = Cardinality(F[u])
      BY <2>3, <3>1, FS_Singleton, FS_EmptySet
    <3>3. \A u, q \in L : u # q => F[u] \cap F[q] = {}
      OBVIOUS
    <3>4. \A x : x \in Added(entries, d) <=> \E u \in L : x \in F[u]
      BY DEF Added
    <3>5. DOMAIN pl = L
      OBVIOUS
    <3> HIDE DEF L, F, pl
    <3>6. SumFunctionOnSet(pl, L) = Cardinality(Added(entries, d))
      BY <3>1, <3>2, <3>3, <3>4, SumOfSizes
    <3> QED BY <3>5, <3>6 DEF SumFunction
  <2>12. SumFunction(mi) = Cardinality(Removed(entries, d))
    <3>1. IsFiniteSet(L) /\ L \subseteq DOMAIN entries
      BY <2>4, LeavesFinite DEF LeavesOf
    <3> DEFINE F == [u \in L |-> IF entries[u].minus = 1 THEN {u} ELSE {}]
    <3>2. \A u \in L : IsFiniteSet(F[u]) /\ mi[u] = Cardinality(F[u])
      BY <2>3, <3>1, FS_Singleton, FS_EmptySet
    <3>3. \A u, q \in L : u # q => F[u] \cap F[q] = {}
      OBVIOUS
    <3>4. \A x : x \in Removed(entries, d) <=> \E u \in L : x \in F[u]
      BY DEF Removed
    <3>5. DOMAIN mi = L
      OBVIOUS
    <3> HIDE DEF L, F, mi
    <3>6. SumFunctionOnSet(mi, L) = Cardinality(Removed(entries, d))
      BY <3>1, <3>2, <3>3, <3>4, SumOfSizes
    <3> QED BY <3>5, <3>6 DEF SumFunction
  <2>13. /\ r[d].status = AllSay(said(d)) /\ r[d].plus = SumFunction(pl)
         /\ r[d].minus = SumFunction(mi)
    <3> DEFINE a == AllSay(said(d))
               b == SumFunction(pl)
               c == SumFunction(mi)
               e == r[d]
    <3>1. e = Entry(a, b, c)
      BY <2>8, <2>10, <2>11, <2>12
    <3> SUFFICES e.status = a /\ e.plus = b /\ e.minus = c
      OBVIOUS
    <3> HIDE DEF a, b, c, e
    <3> QED BY <3>1, EntrySays
  <2> QED BY <2>9, <2>13 DEF AllSay
<1> QED BY <1>1, InitComputed, NextComputed, PTL DEF AlgSpec

-----------------------------------------------------------------------------
(* The computations: the target grammar *)
\* What FlattenSeq computes, one sequence after the other.
Flattening(s, g) ==
  g = [i \in 1 .. Len(s) |-> IF i = 1 THEN s[i] ELSE g[i - 1] \o s[i]]

LEMMA FlattenIsFlattening ==
  ASSUME NEW s, Len(s) # 0
  PROVE  FlattenSeq(s) = (CHOOSE g : Flattening(s, g))[Len(s)]
BY DEF FlattenSeq, Flattening

\* Parameters as they are written: a comma before each.
Written(ps) == [i \in DOMAIN ps |-> << Comma, ps[i] >>]

IsWritten(c, ps, n) == /\ c \in Seq(Token) /\ Len(c) = 2 * n
                      /\ \A k \in 1 .. n : c[2 * k - 1] = Comma /\ c[2 * k] = ps[k]

LEMMA PairIsSeq ==
  ASSUME NEW W, NEW a \in W, NEW b \in W
  PROVE  << a, b >> \in Seq(W) /\ Len(<< a, b >>) = 2 /\ << a, b >>[1] = a /\ << a, b >>[2] = b
  OBVIOUS

\* One more parameter is written after the others.
LEMMA OneMore ==
  ASSUME NEW m \in Nat, NEW ps, NEW c, IsWritten(c, ps, m), NEW w \in Token, w = ps[m + 1]
  PROVE  IsWritten(c \o << Comma, w >>, ps, m + 1)
<1> DEFINE d == << Comma, w >>
<1>1. d \in Seq(Token) /\ Len(d) = 2 /\ d[1] = Comma /\ d[2] = w
  <2>1. Comma \in Token /\ w \in Token
    BY DEF Token
  <2> QED BY <2>1, PairIsSeq
<1>2. c \in Seq(Token) /\ Len(c) = 2 * m /\ 2 * m \in Nat
  <2>1. 2 * m \in Nat
    OBVIOUS
  <2> QED BY <2>1 DEF IsWritten
<1> HIDE DEF d
<1>3. /\ c \o d \in Seq(Token) /\ Len(c \o d) = 2 * m + 2
      /\ \A i \in 1 .. 2 * m + 2 : (c \o d)[i] = IF i <= 2 * m THEN c[i] ELSE d[i - 2 * m]
  <2>1. /\ c \o d \in Seq(Token) /\ Len(c \o d) = Len(c) + Len(d)
        /\ \A i \in 1 .. Len(c) + Len(d) :
             (c \o d)[i] = IF i <= Len(c) THEN c[i] ELSE d[i - Len(c)]
    BY <1>1, <1>2, ConcatProperties
  <2> QED BY <1>1, <1>2, <2>1
<1>4. ASSUME NEW k \in 1 .. m + 1
      PROVE  (c \o d)[2 * k - 1] = Comma /\ (c \o d)[2 * k] = ps[k]
  <2>1. CASE k = m + 1
    <3>1. 2 * k - 1 = 2 * m + 1 /\ 2 * k = 2 * m + 2
      BY <2>1
    <3>2. (c \o d)[2 * m + 1] = d[1] /\ (c \o d)[2 * m + 2] = d[2]
      <4>1. /\ 2 * m + 1 \in 1 .. 2 * m + 2 /\ ~(2 * m + 1 <= 2 * m) /\ (2 * m + 1) - 2 * m = 1
            /\ 2 * m + 2 \in 1 .. 2 * m + 2 /\ ~(2 * m + 2 <= 2 * m) /\ (2 * m + 2) - 2 * m = 2
        BY <1>2
      <4> QED BY <1>3, <4>1
    <3> QED BY <1>1, <2>1, <3>1, <3>2
  <2>2. CASE k # m + 1
    <3>1. k \in 1 .. m
      BY <2>2
    <3>2. /\ 2 * k - 1 \in 1 .. 2 * m + 2 /\ 2 * k - 1 <= 2 * m
          /\ 2 * k \in 1 .. 2 * m + 2 /\ 2 * k <= 2 * m
      BY <3>1
    <3>3. (c \o d)[2 * k - 1] = c[2 * k - 1] /\ (c \o d)[2 * k] = c[2 * k]
      BY <1>3, <3>2
    <3> QED BY <3>1, <3>3 DEF IsWritten
  <2> QED BY <2>1, <2>2
<1>5. 2 * (m + 1) = 2 * m + 2
  OBVIOUS
<1> QED BY <1>3, <1>4, <1>5 DEF IsWritten, d

\* What FlattenSeq makes of them: by induction on how many there are.
LEMMA WrittenFlat ==
  ASSUME NEW n \in Nat, NEW ps \in [1 .. n -> Token]
  PROVE  IsWritten(FlattenSeq(Written(ps)), ps, n)
<1> DEFINE s == Written(ps)
           Upto(m, g) == g = [i \in 1 .. m |-> IF i = 1 THEN s[i] ELSE g[i - 1] \o s[i]]
           Bad == {m \in Nat : m <= n /\ m >= 1 /\ ~ \E g : Upto(m, g) /\ IsWritten(g[m], ps, m)}
<1>1. /\ Len(s) = n /\ DOMAIN s = 1 .. n
      /\ \A i \in 1 .. n : s[i] = << Comma, ps[i] >> /\ ps[i] \in Token
  <2>1. s = [i \in 1 .. n |-> << Comma, ps[i] >>]
    BY DEF Written
  <2> HIDE DEF s
  <2>2. s \in [1 .. n -> {s[i] : i \in 1 .. n}]
    BY <2>1
  <2>3. Len(s) = n
    BY <2>2
  <2> QED BY <2>1, <2>3
<1>2. CASE n = 0
  <2>1. s = << >>
    BY <1>2 DEF Written
  <2>2. FlattenSeq(s) = << >>
    BY <1>1, <1>2, <2>1 DEF FlattenSeq
  <2> QED BY <1>2, <2>2 DEF IsWritten
<1>3. ASSUME NEW g, NEW h, NEW m \in 1 .. n, Upto(m, g), Upto(m, h) PROVE g = h
  <2> DEFINE D == {i \in 1 .. m : g[i] # h[i]}
  <2>1. g = [i \in 1 .. m |-> g[i]] /\ h = [i \in 1 .. m |-> h[i]]
    BY <1>3
  <2>2. CASE D = {}
    BY <2>1, <2>2
  <2>3. CASE D # {}
    <3>1. PICK i \in D : \A j \in D : i <= j
      <4>1. D \subseteq Nat
        OBVIOUS
      <4> QED BY <2>3, <4>1, LeastOf
    <3>2. i \in 1 .. m /\ g[i] # h[i]
      OBVIOUS
    <3>3. /\ g[i] = IF i = 1 THEN s[i] ELSE g[i - 1] \o s[i]
          /\ h[i] = IF i = 1 THEN s[i] ELSE h[i - 1] \o s[i]
      BY <1>3, <3>2
    <3>4. i # 1 => i - 1 \in 1 .. m /\ i - 1 \notin D
      BY <3>1, <3>2
    <3> QED BY <3>2, <3>3, <3>4
  <2> QED BY <2>2, <2>3
<1> HIDE DEF Upto, s
<1>4. CASE n # 0
  <2>1. CASE Bad = {}
    <3>1. PICK g : Upto(n, g) /\ IsWritten(g[n], ps, n)
      <4>1. n >= 1 /\ n <= n
        BY <1>4
      <4>2. n \notin Bad
        BY <2>1
      <4> QED BY <4>1, <4>2
    <3>2. \A h : Flattening(s, h) <=> Upto(n, h)
      BY <1>1 DEF Flattening, Upto
    <3>3. n \in 1 .. n /\ Len(s) # 0
      <4>1. n \in 1 .. n
        BY <1>4
      <4> QED BY <1>1, <1>4, <4>1
    <3>4. (CHOOSE h : Flattening(s, h)) = g
      <4>1. Flattening(s, CHOOSE h : Flattening(s, h))
        BY <3>1, <3>2
      <4> QED BY <1>3, <3>1, <3>2, <3>3, <4>1
    <3> QED BY <1>1, <3>1, <3>3, <3>4, FlattenIsFlattening DEF s
  <2>2. CASE Bad # {}
    <3>1. PICK m \in Bad : \A k \in Bad : m <= k
      <4>1. Bad \subseteq Nat
        OBVIOUS
      <4> QED BY <2>2, <4>1, LeastOf
    <3>2. m \in Nat /\ m <= n /\ m >= 1 /\ ~ \E g : Upto(m, g) /\ IsWritten(g[m], ps, m)
      OBVIOUS
    <3>3. CASE m = 1
      <4> DEFINE h == [i \in 1 .. 1 |-> s[1]]
      <4>1. Upto(1, h)
        BY DEF Upto
      <4>2. h[1] = << Comma, ps[1] >> /\ ps[1] \in Token
        <5>1. 1 \in 1 .. n /\ h[1] = s[1]
          BY <3>2
        <5> QED BY <1>1, <5>1
      <4>3. IsWritten(h[1], ps, 1)
        <5> HIDE DEF h
        <5>1. \A k \in 1 .. 1 : k = 1
          OBVIOUS
        <5>2. Comma \in Token /\ ps[1] \in Token
          BY <4>2 DEF Token
        <5> DEFINE w == ps[1]
        <5>3. << Comma, w >> \in Seq(Token) /\ Len(<< Comma, w >>) = 2 /\ << Comma, w >>[1] = Comma
              /\ << Comma, w >>[2] = w
          BY <5>2, PairIsSeq
        <5>4. h[1] = << Comma, w >> /\ 2 * 1 - 1 = 1 /\ 2 * 1 = 2
          <6>1. h[1] = << Comma, w >>
            BY <4>2
          <6>2. 2 * 1 - 1 = 1 /\ 2 * 1 = 2
            OBVIOUS
          <6> QED BY <6>1, <6>2
        <5> HIDE DEF w
        <5>5. w = ps[1]
          BY DEF w
        <5> QED BY <5>1, <5>3, <5>4, <5>5 DEF IsWritten
      <4> QED BY <3>2, <3>3, <4>1, <4>3
    <3>4. CASE m # 1
      <4>1. m - 1 \in Nat /\ m - 1 >= 1 /\ m - 1 <= n /\ m - 1 \notin Bad
        BY <3>1, <3>2, <3>4
      <4>2. PICK g : Upto(m - 1, g) /\ IsWritten(g[m - 1], ps, m - 1)
        BY <4>1
      <4> DEFINE h == [i \in 1 .. m |-> IF i = m THEN g[m - 1] \o s[m] ELSE g[i]]
      <4>3. ASSUME NEW i \in 1 .. m PROVE h[i] = IF i = 1 THEN s[i] ELSE h[i - 1] \o s[i]
        <5>1. CASE i = m
          <6>1. i - 1 \in 1 .. m /\ i - 1 # m /\ h[i - 1] = g[m - 1]
            BY <4>1, <5>1
          <6> QED BY <3>4, <5>1, <6>1
        <5>2. CASE i # m
          <6>1. i \in 1 .. m - 1 /\ h[i] = g[i]
            BY <3>2, <5>2
          <6>2. g[i] = IF i = 1 THEN s[i] ELSE g[i - 1] \o s[i]
            BY <4>2, <6>1 DEF Upto
          <6>3. i # 1 => i - 1 \in 1 .. m /\ i - 1 # m /\ h[i - 1] = g[i - 1]
            BY <5>2
          <6> QED BY <6>1, <6>2, <6>3
        <5> QED BY <5>1, <5>2
      <4>4. Upto(m, h)
        <5>1. h = [i \in 1 .. m |-> h[i]]
          OBVIOUS
        <5> HIDE DEF h
        <5> QED BY <4>3, <5>1 DEF Upto
      <4>5. h[m] = g[m - 1] \o << Comma, ps[m] >> /\ ps[m] \in Token
        <5>1. m \in 1 .. m /\ m \in 1 .. n
          BY <3>2
        <5> QED BY <1>1, <5>1
      <4>6. IsWritten(h[m], ps, m)
        <5> HIDE DEF h
        <5>1. (m - 1) + 1 = m
          BY <3>2
        <5> QED BY <4>1, <4>2, <4>5, <5>1, OneMore
      <4> QED BY <3>2, <4>4, <4>6
    <3> QED BY <3>3, <3>4
  <2> QED BY <2>1, <2>2
<1> QED BY <1>2, <1>4
-----------------------------------------------------------------------------
(* Where the commas are *)

\* A text that begins with tokens that are no commas, and goes on with parameters.
IsText(t, pre, ps, m, n) ==
  /\ m \in Nat /\ m >= 1 /\ n \in Nat /\ ps \in [1 .. n -> Params]
  /\ pre \in Seq(Token) /\ Len(pre) = m
  /\ t \in Seq(Token) /\ Len(t) = m + 2 * n
  /\ \A i \in 1 .. m : t[i] = pre[i] /\ t[i] # Comma
  /\ \A k \in 1 .. n : t[m + 2 * k - 1] = Comma /\ t[m + 2 * k] = ps[k]

\* The place of the k-th comma.
Place(m, k) == m + 2 * k - 1

LEMMA NoCommaParam ==
  /\ \A x \in {"label=a", "label=b", "i=2", "host", "dns", "server", "cmd", "@"} : x # Comma
  /\ Comma \notin Params /\ "@" \notin Params /\ Comma \in Token /\ "@" \in Token
<1>1. \A x \in {"label=a", "label=b", "i=2", "host", "dns", "server", "cmd", "@"} : x # Comma
  BY Zenon DEF Comma
<1>2. Params \subseteq {"label=a", "label=b", "i=2"}
  BY SpecAssumption
<1> QED BY <1>1, <1>2 DEF Token

\* What is not in the beginning is a comma or a parameter.
LEMMA Halves ==
  ASSUME NEW m \in Nat, NEW n \in Nat, NEW i \in 1 .. m + 2 * n, i > m
  PROVE  \E k \in 1 .. n : i = m + 2 * k - 1 \/ i = m + 2 * k
<1> DEFINE k == (i - m + 1) \div 2
<1>1. i - m + 1 \in 2 .. 2 * n + 1
  OBVIOUS
<1>2. k \in 1 .. n /\ (i - m + 1 = 2 * k \/ i - m + 1 = 2 * k + 1)
  BY <1>1
<1>3. i = m + 2 * k - 1 \/ i = m + 2 * k
  <2> HIDE DEF k
  <2> QED BY <1>2
<1> QED BY <1>2, <1>3

\* The commas are at those places and nowhere else.
LEMMA CommaPlaces ==
  ASSUME NEW t, NEW pre, NEW ps, NEW m \in Nat, NEW n \in Nat, IsText(t, pre, ps, m, n)
  PROVE  /\ \A k \in 1 .. n : Place(m, k) \in Positions(t, Comma)
         /\ \A i \in Positions(t, Comma) : \E k \in 1 .. n : i = Place(m, k)
<1>1. m \in Nat /\ m >= 1 /\ n \in Nat /\ DOMAIN t = 1 .. m + 2 * n
  <2>1. m \in Nat /\ m >= 1 /\ n \in Nat /\ t \in Seq(Token) /\ Len(t) = m + 2 * n
    BY DEF IsText
  <2> QED BY <2>1
<1>2. ASSUME NEW k \in 1 .. n PROVE m + 2 * k - 1 \in Positions(t, Comma)
  <2>1. m + 2 * k - 1 \in 1 .. m + 2 * n
    BY <1>1
  <2>2. t[m + 2 * k - 1] = Comma
    BY DEF IsText
  <2> QED BY <1>1, <2>1, <2>2 DEF Positions
<1>3. ASSUME NEW i \in 1 .. m + 2 * n, t[i] = Comma
      PROVE  \E k \in 1 .. n : i = m + 2 * k - 1
  <2>1. i > m
    <3>1. i \notin 1 .. m
      BY <1>3 DEF IsText
    <3> QED BY <3>1
  <2>2. PICK k \in 1 .. n : i = m + 2 * k - 1 \/ i = m + 2 * k
    BY <2>1, Halves
  <2>3. i # m + 2 * k
    <3>1. t[m + 2 * k] = ps[k] /\ ps[k] \in Params
      BY DEF IsText
    <3> QED BY <1>3, <3>1, NoCommaParam
  <2> QED BY <2>2, <2>3
<1>4. \A i \in Positions(t, Comma) : i \in 1 .. m + 2 * n /\ t[i] = Comma
  BY <1>1 DEF Positions
<1> QED BY <1>2, <1>3, <1>4 DEF Place

LEMMA PlacesOrder ==
  ASSUME NEW m \in Nat, NEW n \in Nat, NEW j \in 1 .. n, NEW k \in 1 .. n
  PROVE  /\ Place(m, k) \in Nat /\ Place(m, k) + 1 = m + 2 * k
         /\ Place(m, j) > Place(m, k) => /\ Place(m, j) - 1 \in Int
                                        /\ m + 2 * k <= Place(m, j) - 1
         /\ Place(m, j) <= Place(m, k) <=> j <= k
         /\ k # n => /\ k + 1 \in 1 .. n /\ Place(m, k + 1) > Place(m, k)
                     /\ Place(m, k + 1) - 1 = m + 2 * k
  BY DEF Place

LEMMA LeastIs ==
  ASSUME NEW S, S \subseteq Int, NEW a \in S, \A b \in S : a <= b
  PROVE  Min(S) = a
<1>1. \A x \in S : (\A y \in S : x <= y) => x = a
  OBVIOUS
<1> QED BY <1>1 DEF Min

LEMMA OneOf ==
  ASSUME NEW W, NEW t \in Seq(W), NEW i \in 1 .. Len(t)
  PROVE  SubSeq(t, i, i) = << t[i] >>
<1>1. \A j \in i .. i : t[j] \in W
  <2>1. \A j \in i .. i : j = i
    OBVIOUS
  <2> QED BY <2>1
<1>2. /\ SubSeq(t, i, i) \in Seq(W) /\ Len(SubSeq(t, i, i)) = IF i <= i THEN i - i + 1 ELSE 0
      /\ \A j \in 1 .. i - i + 1 : SubSeq(t, i, i)[j] = t[i + j - 1]
  <2>1. i \in Int
    OBVIOUS
  <2> QED BY <1>1, <2>1, SubSeqProperties
<1> DEFINE u == SubSeq(t, i, i)
<1>3. u \in Seq(W) /\ Len(u) = 1 /\ u[1] = t[i]
  <2>1. i <= i /\ i - i + 1 = 1 /\ i + 1 - 1 = i /\ 1 \in 1 .. i - i + 1
    OBVIOUS
  <2> QED BY <1>2, <2>1
<1>4. << t[i] >> \in Seq(W) /\ Len(<< t[i] >>) = 1 /\ << t[i] >>[1] = t[i]
  OBVIOUS
<1> HIDE DEF u
<1>5. \A j \in 1 .. Len(u) : u[j] = << t[i] >>[j]
  <2>1. \A j \in 1 .. 1 : j = 1
    OBVIOUS
  <2> QED BY <1>3, <1>4, <2>1
<1>6. u = << t[i] >>
  BY <1>3, <1>4, <1>5, SeqEqual
<1> QED BY <1>6 DEF u

\* What follows each comma is one parameter.
LEMMA SegmentIs ==
  ASSUME NEW t, NEW pre, NEW ps, NEW m \in Nat, NEW n \in Nat, IsText(t, pre, ps, m, n),
         NEW k \in 1 .. n
  PROVE  Segment(t, Place(m, k)) = << ps[k] >>
<1> DEFINE c == Place(m, k)
           S == {d - 1 : d \in {e \in Positions(t, Comma) : e > c}} \cup {Len(t)}
<1>1. /\ t \in Seq(Token) /\ Len(t) = m + 2 * n /\ t[m + 2 * k] = ps[k]
  BY DEF IsText
<1>2. c \in Nat /\ c + 1 = m + 2 * k
  BY PlacesOrder
<1>3. m + 2 * k \in 1 .. m + 2 * n
  OBVIOUS
<1>4. \A b \in S : b \in Int /\ m + 2 * k <= b
  <2>1. ASSUME NEW d \in Positions(t, Comma), d > c PROVE d - 1 \in Int /\ m + 2 * k <= d - 1
    <3>1. PICK j \in 1 .. n : d = Place(m, j)
      <4>1. \A i \in Positions(t, Comma) : \E j \in 1 .. n : i = Place(m, j)
        BY CommaPlaces
      <4> QED BY <4>1
    <3> QED BY <2>1, <3>1, PlacesOrder
  <2>2. Len(t) \in Int /\ m + 2 * k <= Len(t)
    BY <1>1, <1>3
  <2> QED BY <2>1, <2>2
<1>5. m + 2 * k \in S
  <2>1. CASE k = n
    BY <1>1, <2>1
  <2>2. CASE k # n
    <3>1. k + 1 \in 1 .. n /\ Place(m, k + 1) > c /\ Place(m, k + 1) - 1 = m + 2 * k
      BY <2>2, PlacesOrder
    <3>2. Place(m, k + 1) \in Positions(t, Comma)
      BY <3>1, CommaPlaces
    <3> QED BY <3>1, <3>2
  <2> QED BY <2>1, <2>2
<1>6. Min(S) = m + 2 * k
  <2>1. S \subseteq Int
    BY <1>4
  <2> HIDE DEF S
  <2> QED BY <1>4, <1>5, <2>1, LeastIs
<1>7. Segment(t, c) = SubSeq(t, m + 2 * k, m + 2 * k)
  BY <1>2, <1>6 DEF Segment
<1>8. m + 2 * k \in 1 .. Len(t)
  BY <1>1, <1>3
<1> QED BY <1>1, <1>7, <1>8, OneOf

\* The places of n commas, and those of commas up to one.
Places(m, n) == {Place(m, j) : j \in 1 .. n}

UpTo(C, c) == {d \in C : d <= c}

\* The k-th comma has k commas up to itself.
LEMMA CommaCount ==
  ASSUME NEW m \in Nat, NEW n \in Nat, NEW k \in 1 .. n
  PROVE  Cardinality(UpTo(Places(m, n), Place(m, k))) = k
<1> DEFINE D == UpTo(Places(m, n), Place(m, k))
           f == [j \in 1 .. k |-> Place(m, j)]
<1>1. \A j \in 1 .. k : j \in 1 .. n
  OBVIOUS
<1>2. \A i, j \in 1 .. k : f[i] = f[j] => i = j
  <2>1. ASSUME NEW i \in 1 .. k, NEW j \in 1 .. k, Place(m, i) = Place(m, j) PROVE i = j
    BY <2>1 DEF Place
  <2> QED BY <2>1
<1>3. ASSUME NEW j \in 1 .. k PROVE f[j] \in D
  <2>1. j \in 1 .. n /\ j <= k
    BY <1>1
  <2>2. Place(m, j) \in Places(m, n) /\ Place(m, j) <= Place(m, k)
    BY <2>1, PlacesOrder DEF Places
  <2> QED BY <2>2 DEF UpTo
<1>4. ASSUME NEW d \in D PROVE \E j \in 1 .. k : f[j] = d
  <2>1. PICK j \in 1 .. n : d = Place(m, j)
    BY <1>4 DEF UpTo, Places
  <2>2. j <= k
    BY <1>4, <2>1, PlacesOrder DEF UpTo
  <2>3. j \in 1 .. k
    BY <2>2
  <2> QED BY <2>1, <2>3
<1> HIDE DEF D
<1>5. f \in [1 .. k -> D]
  BY <1>3
<1> HIDE DEF f
<1>6. f \in Bijection(1 .. k, D)
  BY <1>2, <1>4, <1>5 DEF Bijection, Injection, Surjection, IsInjective
<1>7. ExistsBijection(1 .. k, D) /\ k \in Nat
  BY <1>6 DEF ExistsBijection
<1>8. Cardinality(D) = k
  BY <1>7, FS_CountingElements
<1> QED BY <1>8 DEF D

\* Parameters, each by itself.
Each(ps, n) == [k \in 1 .. n |-> << ps[k] >>]

\* What follows the commas, in their order.
LEMMA SegmentsAre ==
  ASSUME NEW t, NEW pre, NEW ps, NEW m \in Nat, NEW n \in Nat, IsText(t, pre, ps, m, n)
  PROVE  Segments(t, Positions(t, Comma)) = Each(ps, n)
<1> DEFINE C == Positions(t, Comma)
           CommaOf(k) == CHOOSE c \in C : Cardinality(UpTo(C, c)) = k
<1>1. C = Places(m, n)
  BY CommaPlaces DEF Places
<1> HIDE DEF C
<1>2. Cardinality(C) = n
  <2>1. CASE n = 0
    <3>1. C = {}
      BY <1>1, <2>1 DEF Places
    <3> QED BY <2>1, <3>1, FS_EmptySet
  <2>2. CASE n # 0
    <3>1. n \in 1 .. n
      BY <2>2
    <3>2. \A d \in C : d <= Place(m, n)
      <4>1. \A j \in 1 .. n : j <= n
        OBVIOUS
      <4> QED BY <1>1, <3>1, <4>1, PlacesOrder DEF Places
    <3>3. UpTo(C, Place(m, n)) = C
      BY <3>2 DEF UpTo
    <3> QED BY <1>1, <3>1, <3>3, CommaCount
  <2> QED BY <2>1, <2>2
<1>3. ASSUME NEW k \in 1 .. n PROVE Segment(t, CommaOf(k)) = << ps[k] >>
  <2>1. Place(m, k) \in C /\ Cardinality(UpTo(C, Place(m, k))) = k
    <3>1. Place(m, k) \in C
      BY <1>1 DEF Places
    <3> QED BY <1>1, <3>1, CommaCount
  <2>2. ASSUME NEW c \in C, Cardinality(UpTo(C, c)) = k PROVE c = Place(m, k)
    <3>1. PICK j \in 1 .. n : c = Place(m, j)
      BY <1>1 DEF Places
    <3>2. Cardinality(UpTo(C, Place(m, j))) = j
      BY <1>1, CommaCount
    <3> QED BY <2>2, <3>1, <3>2
  <2>3. CommaOf(k) = Place(m, k)
    BY <2>1, <2>2
  <2> HIDE DEF CommaOf
  <2> QED BY <2>3, SegmentIs
<1>4. Segments(t, C) = [k \in 1 .. n |-> Segment(t, CommaOf(k))]
  BY <1>2 DEF Segments, UpTo
<1> HIDE DEF CommaOf
<1>5. Segments(t, C) = Each(ps, n)
  BY <1>3, <1>4 DEF Each
<1> QED BY <1>5 DEF C

\* Every comma is taken off, and what is before them is left.
LEMMA AllTrailing ==
  ASSUME NEW t, NEW pre, NEW ps, NEW m \in Nat, NEW n \in Nat, IsText(t, pre, ps, m, n)
  PROVE  TrailingCommas(t) = Positions(t, Comma)
<1>1. ASSUME NEW d \in Positions(t, Comma) PROVE IsParam(Segment(t, d))
  <2>1. PICK k \in 1 .. n : d = Place(m, k)
    BY CommaPlaces
  <2>2. ps[k] \in Params
    BY DEF IsText
  <2> QED BY <2>1, <2>2, SegmentIs DEF IsParam
<1> QED BY <1>1 DEF TrailingCommas

LEMMA BeginIs ==
  ASSUME NEW W, NEW t \in Seq(W), NEW pre \in Seq(W), Len(pre) <= Len(t),
         \A i \in 1 .. Len(pre) : t[i] = pre[i]
  PROVE  SubSeq(t, 1, Len(pre)) = pre
<1> DEFINE u == SubSeq(t, 1, Len(pre))
           l == Len(pre)
<1>1. l \in Nat /\ \A i \in 1 .. l : t[i] \in W
  OBVIOUS
<1>2. /\ u \in Seq(W) /\ Len(u) = IF 1 <= l THEN l - 1 + 1 ELSE 0
      /\ \A i \in 1 .. l - 1 + 1 : u[i] = t[1 + i - 1]
  <2> HIDE DEF l
  <2>1. 1 \in Int /\ l \in Int
    BY <1>1
  <2> QED BY <1>1, <2>1, SubSeqProperties DEF l
<1> HIDE DEF u
<1>3. Len(u) = l
  BY <1>1, <1>2
<1>4. \A i \in 1 .. Len(u) : u[i] = pre[i]
  <2>1. ASSUME NEW i \in 1 .. l PROVE u[i] = pre[i]
    <3>1. i \in 1 .. l - 1 + 1 /\ 1 + i - 1 = i
      BY <1>1
    <3> QED BY <1>2, <3>1
  <2> QED BY <1>3, <2>1
<1>5. u = pre
  BY <1>2, <1>3, <1>4, SeqEqual
<1> QED BY <1>5 DEF u

LEMMA BodyIs ==
  ASSUME NEW t, NEW pre, NEW ps, NEW m \in Nat, NEW n \in Nat, IsText(t, pre, ps, m, n)
  PROVE  Body(t) = pre
<1> DEFINE C == TrailingCommas(t)
<1>1. C = {Place(m, j) : j \in 1 .. n}
  BY CommaPlaces, AllTrailing
<1>2. /\ t \in Seq(Token) /\ pre \in Seq(Token) /\ Len(pre) = m /\ Len(t) = m + 2 * n
      /\ \A i \in 1 .. m : t[i] = pre[i]
  BY DEF IsText
<1>3. m <= m + 2 * n /\ m <= Len(t)
  BY <1>2
<1>4. SubSeq(t, 1, m) = pre
  BY <1>2, <1>3, BeginIs
<1> HIDE DEF C
<1>5. CASE n = 0
  <2>1. C = {} /\ m = Len(t)
    BY <1>1, <1>2, <1>5
  <2>2. t = SubSeq(t, 1, Len(t))
    BY <1>2, SubSeqFull
  <2> QED BY <1>4, <2>1, <2>2 DEF Body, C
<1>6. CASE n # 0
  <2>1. 1 \in 1 .. n /\ \A j \in 1 .. n : 1 <= j
    BY <1>6
  <2>2. \A d \in C : Place(m, 1) <= d /\ d \in Int
    BY <1>1, <2>1, PlacesOrder
  <2>3. Place(m, 1) \in C /\ C \subseteq Int
    BY <1>1, <2>1, <2>2
  <2>4. Min(C) = Place(m, 1)
    BY <2>2, <2>3, LeastIs
  <2>5. Min(C) - 1 = m
    BY <2>4 DEF Place
  <2> QED BY <1>4, <2>3, <2>5 DEF Body, C
<1> QED BY <1>5, <1>6

-----------------------------------------------------------------------------
(* What is before and after the first "@" *)

\* A text is cut at its first "@".
LEMMA SplitIs ==
  ASSUME NEW t \in Seq(Token), NEW u \in Seq(Token), NEW v \in Seq(Token),
         Len(t) = Len(u) + 1 + Len(v), t[Len(u) + 1] = "@",
         \A i \in 1 .. Len(u) : t[i] = u[i] /\ t[i] # "@",
         \A i \in 1 .. Len(v) : t[Len(u) + 1 + i] = v[i]
  PROVE  Before(t) = u /\ After(t) = v
<1> DEFINE l == Len(u)
           k == Len(v)
           w == SubSeq(t, l + 2, Len(t))
<1>1. l \in Nat /\ k \in Nat /\ Len(t) = l + 1 + k /\ DOMAIN t = 1 .. l + 1 + k
  OBVIOUS
<1>2. Cut(t) = l + 1
  <2> DEFINE P == Positions(t, "@")
  <2>1. l + 1 \in P
    BY <1>1 DEF Positions
  <2>2. P \subseteq Int /\ \A i \in P : l + 1 <= i
    <3>1. ASSUME NEW i \in 1 .. l + 1 + k, t[i] = "@" PROVE l + 1 <= i
      <4>1. i \notin 1 .. l
        BY <3>1
      <4> HIDE DEF l, k
      <4> QED BY <1>1, <4>1
    <3> QED BY <1>1, <3>1 DEF Positions
  <2> HIDE DEF P, l
  <2>3. Min(P) = l + 1 /\ P # {}
    BY <2>1, <2>2, LeastIs
  <2> QED BY <2>3 DEF Cut, P
<1>3. Before(t) = u
  <2>1. SubSeq(t, 1, l) = u
    <3>1. Len(u) <= Len(t)
      BY <1>1
    <3> QED BY <3>1, BeginIs
  <2> HIDE DEF l
  <2>2. (l + 1) - 1 = l
    BY <1>1
  <2> QED BY <1>2, <2>1, <2>2 DEF Before
<1>4. w = v
  <2> HIDE DEF l, k
  <2>1. \A i \in l + 2 .. l + 1 + k : t[i] \in Token
    <3>1. \A i \in l + 2 .. l + 1 + k : i \in 1 .. l + 1 + k
      BY <1>1
    <3> QED BY <1>1, <3>1
  <2>2. l + 2 \in Int /\ l + 1 + k \in Int /\ (l + 1 + k) - (l + 2) + 1 = k
        /\ (l + 2 <= l + 1 + k <=> k >= 1)
    BY <1>1
  <2>3. /\ w \in Seq(Token)
        /\ Len(w) = IF l + 2 <= l + 1 + k THEN (l + 1 + k) - (l + 2) + 1 ELSE 0
        /\ \A i \in 1 .. (l + 1 + k) - (l + 2) + 1 : w[i] = t[l + 2 + i - 1]
    BY <1>1, <2>1, <2>2, SubSeqProperties
  <2> HIDE DEF w
  <2>4. Len(w) = k
    BY <1>1, <2>2, <2>3
  <2>5. \A i \in 1 .. k : w[i] = v[i]
    <3>1. ASSUME NEW i \in 1 .. k PROVE w[i] = v[i]
      <4>1. l + 2 + i - 1 = l + 1 + i
        BY <1>1
      <4>2. w[i] = t[l + 1 + i]
        BY <2>2, <2>3, <4>1
      <4> QED BY <4>2 DEF l, k
    <3> QED BY <3>1
  <2>6. w \in Seq(Token) /\ Len(w) = Len(v) /\ \A i \in 1 .. Len(w) : w[i] = v[i]
    BY <2>3, <2>4, <2>5 DEF k
  <2> QED BY <2>6, SeqEqual
<1>5. After(t) = w
  <2> HIDE DEF l
  <2>1. (l + 1) + 1 = l + 2
    BY <1>1
  <2> QED BY <1>2, <2>1 DEF After
<1> QED BY <1>3, <1>4, <1>5

LEMMA NoSplit ==
  ASSUME NEW t \in Seq(Token), \A i \in 1 .. Len(t) : t[i] # "@"
  PROVE  Before(t) = t /\ After(t) = << >>
<1>1. Positions(t, "@") = {}
  BY DEF Positions
<1>2. Cut(t) = Len(t) + 1
  BY <1>1 DEF Cut
<1>3. Before(t) = t
  <2>1. (Len(t) + 1) - 1 = Len(t)
    OBVIOUS
  <2> QED BY <1>2, <2>1, SubSeqFull DEF Before
<1>4. After(t) = << >>
  <2>1. Len(t) + 1 + 1 \in Int /\ Len(t) \in Int /\ Len(t) < Len(t) + 1 + 1
    OBVIOUS
  <2> QED BY <1>2, <2>1, SubSeqEmpty DEF After
<1> QED BY <1>3, <1>4

\* Two sequences, joined, are a third one.
LEMMA JoinedIs ==
  ASSUME NEW W, NEW s \in Seq(W), NEW u \in Seq(W), NEW v \in Seq(W), 
         Len(v) = Len(s) + Len(u),
         \A i \in 1 .. Len(s) : v[i] = s[i],
         \A i \in 1 .. Len(u) : v[Len(s) + i] = u[i]
  PROVE  s \o u = v
<1>1. /\ s \o u \in Seq(W) /\ Len(s \o u) = Len(s) + Len(u)
      /\ \A i \in 1 .. Len(s) + Len(u) : (s \o u)[i] = IF i <= Len(s) THEN s[i] ELSE u[i - Len(s)]
   BY ConcatProperties
<1>2. \A i \in 1 .. Len(s) + Len(u) : (s \o u)[i] = v[i]
  <2>1. ASSUME NEW i \in 1 .. Len(s) + Len(u), ~(i <= Len(s)) PROVE u[i - Len(s)] = v[i]
    <3>1. i - Len(s) \in 1 .. Len(u) /\ Len(s) + (i - Len(s)) = i
      BY <2>1
    <3> QED BY <3>1
  <2>2. ASSUME NEW i \in 1 .. Len(s) + Len(u), i <= Len(s) PROVE s[i] = v[i]
    BY <2>2
  <2> QED BY <1>1, <2>1, <2>2
<1> QED BY <1>1, <1>2, SeqEqual
LEMMA Joined11 ==
  ASSUME NEW a, NEW b
  PROVE  << a >> \o << b >> = << a, b >>
<1> DEFINE s == << a >>
           u == << b >>
           v == << a, b >>
           W == {a, b}
<1>1. s \in Seq(W) /\ u \in Seq(W) /\ v \in Seq(W)
  OBVIOUS
<1>2. Len(s) = 1 /\ Len(u) = 1 /\ Len(v) = 2 /\ 2 = 1 + 1
  OBVIOUS
<1>3. \A i \in 1 .. 1 : v[i] = s[i]
  OBVIOUS
<1>4. \A i \in 1 .. 1 : v[1 + i] = u[i]
  OBVIOUS
<1> HIDE DEF s, u, v, W
<1>5. /\ Len(v) = Len(s) + Len(u) /\ \A i \in 1 .. Len(s) : v[i] = s[i]
      /\ \A i \in 1 .. Len(u) : v[Len(s) + i] = u[i]
  BY <1>2, <1>3, <1>4
<1>6. s \o u = v
  BY <1>1, <1>5, JoinedIs
<1> QED BY <1>6 DEF s, u, v

LEMMA Joined12 ==
  ASSUME NEW a, NEW b, NEW c
  PROVE  << a >> \o << b, c >> = << a, b, c >>
<1> DEFINE s == << a >>
           u == << b, c >>
           v == << a, b, c >>
           W == {a, b, c}
<1>1. s \in Seq(W) /\ u \in Seq(W) /\ v \in Seq(W)
  OBVIOUS
<1>2. Len(s) = 1 /\ Len(u) = 2 /\ Len(v) = 3 /\ 3 = 1 + 2
  OBVIOUS
<1>3. \A i \in 1 .. 1 : v[i] = s[i]
  OBVIOUS
<1>4. \A i \in 1 .. 2 : v[1 + i] = u[i]
  OBVIOUS
<1> HIDE DEF s, u, v, W
<1>5. /\ Len(v) = Len(s) + Len(u) /\ \A i \in 1 .. Len(s) : v[i] = s[i]
      /\ \A i \in 1 .. Len(u) : v[Len(s) + i] = u[i]
  BY <1>2, <1>3, <1>4
<1>6. s \o u = v
  BY <1>1, <1>5, JoinedIs
<1> QED BY <1>6 DEF s, u, v

LEMMA Joined13 ==
  ASSUME NEW a, NEW b, NEW c, NEW d
  PROVE  << a >> \o << b, c, d >> = << a, b, c, d >>
<1> DEFINE s == << a >>
           u == << b, c, d >>
           v == << a, b, c, d >>
           W == {a, b, c, d}
<1>1. s \in Seq(W) /\ u \in Seq(W) /\ v \in Seq(W)
  OBVIOUS
<1>2. Len(s) = 1 /\ Len(u) = 3 /\ Len(v) = 4 /\ 4 = 1 + 3
  OBVIOUS
<1>3. \A i \in 1 .. 1 : v[i] = s[i]
  OBVIOUS
<1>4. \A i \in 1 .. 3 : v[1 + i] = u[i]
  OBVIOUS
<1> HIDE DEF s, u, v, W
<1>5. /\ Len(v) = Len(s) + Len(u) /\ \A i \in 1 .. Len(s) : v[i] = s[i]
      /\ \A i \in 1 .. Len(u) : v[Len(s) + i] = u[i]
  BY <1>2, <1>3, <1>4
<1>6. s \o u = v
  BY <1>1, <1>5, JoinedIs
<1> QED BY <1>6 DEF s, u, v

LEMMA Joined32 ==
  ASSUME NEW a, NEW b, NEW c, NEW d, NEW e
  PROVE  << a, b, c >> \o << d, e >> = << a, b, c, d, e >>
<1> DEFINE s == << a, b, c >>
           u == << d, e >>
           v == << a, b, c, d, e >>
           W == {a, b, c, d, e}
<1>1. s \in Seq(W) /\ u \in Seq(W) /\ v \in Seq(W)
  OBVIOUS
<1>2. Len(s) = 3 /\ Len(u) = 2 /\ Len(v) = 5 /\ 5 = 3 + 2
  OBVIOUS
<1>3. \A i \in 1 .. 3 : v[i] = s[i]
  OBVIOUS
<1>4. \A i \in 1 .. 2 : v[3 + i] = u[i]
  OBVIOUS
<1> HIDE DEF s, u, v, W
<1>5. /\ Len(v) = Len(s) + Len(u) /\ \A i \in 1 .. Len(s) : v[i] = s[i]
      /\ \A i \in 1 .. Len(u) : v[Len(s) + i] = u[i]
  BY <1>2, <1>3, <1>4
<1>6. s \o u = v
  BY <1>1, <1>5, JoinedIs
<1> QED BY <1>6 DEF s, u, v

\* What a specification begins with, up to its parameters.
Beginning(target, server, via) ==
  << target >> \o (IF server THEN << "@", "server" >> ELSE << >>)
              \o (CASE via = ""   -> << >>
                    [] via = "@"  -> << "@", "cmd" >>
                    [] via = "@@" -> << "@", "@", "cmd" >>)

LEMMA Alone ==
  ASSUME NEW a \in Token, a # "@"
  PROVE  Before(<< a >>) = << a >> /\ After(<< a >>) = << >>
<1> DEFINE t == << a >>
<1>1. t \in Seq(Token) /\ \A i \in 1 .. Len(t) : t[i] # "@"
  OBVIOUS
<1> HIDE DEF t
<1>2. Before(t) = t /\ After(t) = << >>
  BY <1>1, NoSplit
<1> QED BY <1>2 DEF t

LEMMA SplitOne ==
  ASSUME NEW a \in Token, a # "@", NEW v \in Seq(Token), NEW t \in Seq(Token),
         Len(t) = 2 + Len(v), t[1] = a, t[2] = "@", \A i \in 1 .. Len(v) : t[2 + i] = v[i]
  PROVE  Before(t) = << a >> /\ After(t) = v
<1> DEFINE u == << a >>
<1>1. u \in Seq(Token) /\ Len(u) = 1 /\ u[1] = a
  OBVIOUS
<1> HIDE DEF u
<1>2. /\ Len(t) = Len(u) + 1 + Len(v) /\ t[Len(u) + 1] = "@"
      /\ \A i \in 1 .. Len(u) : t[i] = u[i] /\ t[i] # "@"
      /\ \A i \in 1 .. Len(v) : t[Len(u) + 1 + i] = v[i]
  <2>1. \A i \in 1 .. 1 : i = 1
    OBVIOUS
  <2>2. 1 + 1 = 2
    OBVIOUS
  <2>3. Len(t) = 1 + 1 + Len(v)
    OBVIOUS
  <2> QED BY <1>1, <2>1, <2>2, <2>3
<1>3. Before(t) = u /\ After(t) = v
  BY <1>1, <1>2, SplitIs
<1> QED BY <1>3 DEF u

LEMMA Split1 ==
  ASSUME NEW a \in Token, NEW at \in Token, NEW b \in Token, a # "@", at = "@"
  PROVE  Before(<< a, at, b >>) = << a >> /\ After(<< a, at, b >>) = << b >>
<1> DEFINE t == << a, at, b >>
           v == << b >>
<1>1. t \in Seq(Token) /\ v \in Seq(Token) /\ Len(t) = 3 /\ Len(v) = 1 /\ t[1] = a /\ t[2] = at
  OBVIOUS
<1>2. \A i \in 1 .. 1 : t[2 + i] = v[i]
  OBVIOUS
<1> HIDE DEF t, v
<1>3. Before(t) = << a >> /\ After(t) = v
  <2>1. Len(t) = 2 + Len(v) /\ \A i \in 1 .. Len(v) : t[2 + i] = v[i]
    BY <1>1, <1>2
  <2> QED BY <1>1, <2>1, SplitOne
<1> QED BY <1>3 DEF t, v

LEMMA Split2 ==
  ASSUME NEW a \in Token, NEW at \in Token, NEW b \in Token, NEW c \in Token, a # "@", at = "@"
  PROVE  Before(<< a, at, b, c >>) = << a >> /\ After(<< a, at, b, c >>) = << b, c >>
<1> DEFINE t == << a, at, b, c >>
           v == << b, c >>
<1>1. t \in Seq(Token) /\ v \in Seq(Token) /\ Len(t) = 4 /\ Len(v) = 2 /\ t[1] = a /\ t[2] = at
  OBVIOUS
<1>2. \A i \in 1 .. 2 : t[2 + i] = v[i]
  OBVIOUS
<1> HIDE DEF t, v
<1>3. Before(t) = << a >> /\ After(t) = v
  <2>1. Len(t) = 2 + Len(v) /\ \A i \in 1 .. Len(v) : t[2 + i] = v[i]
    BY <1>1, <1>2
  <2> QED BY <1>1, <2>1, SplitOne
<1> QED BY <1>3 DEF t, v

LEMMA Split3 ==
  ASSUME NEW a \in Token, NEW at \in Token, NEW b \in Token, NEW c \in Token, NEW d \in Token,
         a # "@", at = "@"
  PROVE  Before(<< a, at, b, c, d >>) = << a >> /\ After(<< a, at, b, c, d >>) = << b, c, d >>
<1> DEFINE t == << a, at, b, c, d >>
           v == << b, c, d >>
<1>1. t \in Seq(Token) /\ v \in Seq(Token) /\ Len(t) = 5 /\ Len(v) = 3 /\ t[1] = a /\ t[2] = at
  OBVIOUS
<1>2. \A i \in 1 .. 3 : t[2 + i] = v[i]
  OBVIOUS
<1> HIDE DEF t, v
<1>3. Before(t) = << a >> /\ After(t) = v
  <2>1. Len(t) = 2 + Len(v) /\ \A i \in 1 .. Len(v) : t[2 + i] = v[i]
    BY <1>1, <1>2
  <2> QED BY <1>1, <2>1, SplitOne
<1> QED BY <1>3 DEF t, v

LEMMA NothingAdded ==
  ASSUME NEW W, NEW s \in Seq(W)
  PROVE  s \o << >> = s /\ << >> \o s = s
  BY ConcatEmptySeq

LEMMA OneIsSeq ==
  ASSUME NEW W, NEW a \in W
  PROVE  << a >> \in Seq(W) /\ Len(<< a >>) = 1 /\ << a >>[1] = a
  OBVIOUS

LEMMA NothingSplit == Before(<< >>) = << >> /\ DropAt(<< >>) = << >>
<1>1. << >> \in Seq(Token) /\ Len(<< >>) = 0
  OBVIOUS
<1>2. \A i \in 1 .. Len(<< >>) : << >>[i] # "@"
  BY <1>1
<1> QED BY <1>1, <1>2, NoSplit DEF DropAt

LEMMA DropOne ==
  ASSUME NEW a, NEW b
  PROVE  /\ a # "@" => DropAt(<< a >>) = << a >>
         /\ a = "@" => DropAt(<< a, b >>) = << b >>
<1>1. << a >> # << >> /\ << a >>[1] = a
  OBVIOUS
<1>2. << a, b >> # << >> /\ << a, b >>[1] = a
  OBVIOUS
<1>3. Tail(<< a, b >>) = << b >>
  OBVIOUS
<1> QED BY <1>1, <1>2, <1>3 DEF DropAt

\* What the parts of a specification are, after its parameters are taken off.
IsSplit(whole, target, server, transport, local) ==
  /\ Before(whole) = << target >>
  /\ (target = "dns" /\ Before(After(whole)) = << "server" >>) <=> server
  /\ (IF server THEN DropAt(After(After(whole))) ELSE DropAt(After(whole))) = transport
  /\ (target # "dns" /\ After(whole) # << >> /\ After(whole)[1] = "@") <=> local

\* What is left is not empty and no token of it is a comma.
NoCommas(whole) == /\ whole \in Seq(Token) /\ Len(whole) >= 1
                  /\ \A i \in 1 .. Len(whole) : whole[i] # Comma

LEMMA SplitAlone ==
  ASSUME NEW a \in Token, a # "@", a # Comma
  PROVE  IsSplit(<< a >>, a, FALSE, << >>, FALSE) /\ NoCommas(<< a >>)
<1>1. Before(<< a >>) = << a >> /\ After(<< a >>) = << >>
  BY Alone
<1>2. << >> # << "server" >>
  OBVIOUS
<1>3. NoCommas(<< a >>)
  <2> DEFINE t == << a >>
  <2>1. t \in Seq(Token) /\ Len(t) = 1 /\ t[1] = a
    OBVIOUS
  <2> HIDE DEF t
  <2>2. NoCommas(t)
    BY <2>1 DEF NoCommas
  <2> QED BY <2>2 DEF t
<1> QED BY <1>1, <1>2, <1>3, NothingSplit DEF IsSplit

LEMMA SplitTransport ==
  ASSUME NEW a \in Token, NEW at \in Token, NEW b \in Token, a # "@", at = "@", b # "@",
         b # "server", a # Comma, at # Comma, b # Comma
  PROVE  IsSplit(<< a, at, b >>, a, FALSE, << b >>, FALSE) /\ NoCommas(<< a, at, b >>)
<1>1. Before(<< a, at, b >>) = << a >> /\ After(<< a, at, b >>) = << b >>
  BY Split1
<1>2. Before(<< b >>) = << b >> /\ << b >> # << "server" >> /\ << b >>[1] = b
  <2>1. << b >> # << "server" >> /\ << b >>[1] = b
    OBVIOUS
  <2> QED BY <2>1, Alone
<1>3. NoCommas(<< a, at, b >>)
  <2> DEFINE t == << a, at, b >>
  <2>1. t \in Seq(Token) /\ Len(t) = 3 /\ t[1] = a /\ t[2] = at /\ t[3] = b
    OBVIOUS
  <2> HIDE DEF t
  <2>2. NoCommas(t)
    BY <2>1 DEF NoCommas
  <2> QED BY <2>2 DEF t
<1>4. DropAt(<< b >>) = << b >>
  BY DropOne
<1> QED BY <1>1, <1>2, <1>3, <1>4 DEF IsSplit

LEMMA SplitLocal ==
  ASSUME NEW a \in Token, NEW at \in Token, NEW b \in Token, a # "@", at = "@", b # "@",
         a # "dns", a # Comma, at # Comma, b # Comma
  PROVE  IsSplit(<< a, at, at, b >>, a, FALSE, << b >>, TRUE) /\ NoCommas(<< a, at, at, b >>)
<1>1. Before(<< a, at, at, b >>) = << a >> /\ After(<< a, at, at, b >>) = << at, b >>
  BY Split2
<1>2. << at, b >> # << >> /\ << at, b >>[1] = at
  OBVIOUS
<1>3. NoCommas(<< a, at, at, b >>)
  <2> DEFINE t == << a, at, at, b >>
  <2>1. t \in Seq(Token) /\ Len(t) = 4 /\ t[1] = a /\ t[2] = at /\ t[3] = at /\ t[4] = b
    OBVIOUS
  <2> HIDE DEF t
  <2>2. NoCommas(t)
    BY <2>1 DEF NoCommas
  <2> QED BY <2>2 DEF t
<1>4. DropAt(<< at, b >>) = << b >>
  BY DropOne
<1> QED BY <1>1, <1>2, <1>3, <1>4 DEF IsSplit

LEMMA SplitServer ==
  ASSUME NEW a \in Token, NEW at \in Token, NEW s \in Token, a = "dns", at = "@", s = "server",
         a # "@", s # "@", a # Comma, at # Comma, s # Comma
  PROVE  IsSplit(<< a, at, s >>, a, TRUE, << >>, FALSE) /\ NoCommas(<< a, at, s >>)
<1>1. Before(<< a, at, s >>) = << a >> /\ After(<< a, at, s >>) = << s >>
  BY Split1
<1>2. Before(<< s >>) = << s >> /\ After(<< s >>) = << >>
  BY Alone
<1>3. NoCommas(<< a, at, s >>)
  <2> DEFINE t == << a, at, s >>
  <2>1. t \in Seq(Token) /\ Len(t) = 3 /\ t[1] = a /\ t[2] = at /\ t[3] = s
    OBVIOUS
  <2> HIDE DEF t
  <2>2. NoCommas(t)
    BY <2>1 DEF NoCommas
  <2> QED BY <2>2 DEF t
<1> QED BY <1>1, <1>2, <1>3, NothingSplit DEF IsSplit

LEMMA SplitBoth ==
  ASSUME NEW a \in Token, NEW at \in Token, NEW s \in Token, NEW b \in Token,
         a = "dns", at = "@", s = "server", a # "@", s # "@", b # "@",
         a # Comma, at # Comma, s # Comma, b # Comma
  PROVE  IsSplit(<< a, at, s, at, b >>, a, TRUE, << b >>, FALSE) /\ NoCommas(<< a, at, s, at, b >>)
<1>1. Before(<< a, at, s, at, b >>) = << a >> /\ After(<< a, at, s, at, b >>) = << s, at, b >>
  BY Split3
<1>2. Before(<< s, at, b >>) = << s >> /\ After(<< s, at, b >>) = << b >>
  BY Split1
<1>3. NoCommas(<< a, at, s, at, b >>)
  <2> DEFINE t == << a, at, s, at, b >>
  <2>1. t \in Seq(Token) /\ Len(t) = 5 /\ t[1] = a /\ t[2] = at /\ t[3] = s /\ t[4] = at /\ t[5] = b
    OBVIOUS
  <2> HIDE DEF t
  <2>2. NoCommas(t)
    BY <2>1 DEF NoCommas
  <2> QED BY <2>2 DEF t
<1>4. DropAt(<< b >>) = << b >>
  BY DropOne
<1> QED BY <1>1, <1>2, <1>3, <1>4 DEF IsSplit

\* The five ways a specification may begin.
BeginningsAre(a, at, s, b) ==
  /\ Beginning(a, FALSE, "") = << a >>
  /\ Beginning(a, FALSE, "@") = << a, at, b >>
  /\ Beginning(a, FALSE, "@@") = << a, at, at, b >>
  /\ Beginning(a, TRUE, "") = << a, at, s >>
  /\ Beginning(a, TRUE, "@") = << a, at, s, at, b >>

LEMMA BeginningIs ==
  ASSUME NEW a, NEW at, NEW s, NEW b, at = "@", s = "server", b = "cmd"
  PROVE  BeginningsAre(a, at, s, b)
<1>1. /\ Beginning(a, FALSE, "") = (<< a >> \o << >>) \o << >>
      /\ Beginning(a, FALSE, "@") = (<< a >> \o << >>) \o << at, b >>
      /\ Beginning(a, FALSE, "@@") = (<< a >> \o << >>) \o << at, at, b >>
      /\ Beginning(a, TRUE, "") = (<< a >> \o << at, s >>) \o << >>
      /\ Beginning(a, TRUE, "@") = (<< a >> \o << at, s >>) \o << at, b >>
  BY DEF Beginning
<1>2. << a >> \o << >> = << a >>
  BY OneIsSeq, NothingAdded
<1>3. << a, at, s >> \o << >> = << a, at, s >>
  <2>1. << a, at, s >> \in Seq({a, at, s})
    OBVIOUS
  <2> QED BY <2>1, NothingAdded
<1>4. << a >> \o << at, s >> = << a, at, s >> /\ << a >> \o << at, b >> = << a, at, b >>
  BY Joined12
<1>5. << a >> \o << at, at, b >> = << a, at, at, b >>
  BY Joined13
<1>6. << a, at, s >> \o << at, b >> = << a, at, s, at, b >>
  BY Joined32
<1> QED BY <1>1, <1>2, <1>3, <1>4, <1>5, <1>6 DEF BeginningsAre

\* What a documented specification begins with is taken apart as it was put together.
LEMMA BeginningSplit ==
  ASSUME NEW target \in {"host", "dns"}, NEW server \in BOOLEAN, NEW via \in {"", "@", "@@"},
         server => target = "dns", via = "@@" => target = "host"
  PROVE  /\ IsSplit(Beginning(target, server, via), target, server,
                    IF via = "" THEN << >> ELSE << "cmd" >>, via = "@@")
         /\ NoCommas(Beginning(target, server, via))
<1>0. PICK at \in Token, b \in Token, s \in Token : at = "@" /\ b = "cmd" /\ s = "server"
  BY DEF Token
<1>1. /\ at = "@" /\ b = "cmd" /\ s = "server" /\ target # "@" /\ s # "@" /\ b # "@" /\ b # "server"
      /\ at \in Token /\ b \in Token /\ s \in Token /\ target \in Token
  BY <1>0 DEF Token
<1>2. target # Comma /\ at # Comma /\ b # Comma /\ s # Comma
  BY <1>0, NoCommaParam
<1>3. /\ b = "cmd" => << b >> = << "cmd" >>
  OBVIOUS
<1>4. BeginningsAre(target, at, s, b)
  BY <1>1, BeginningIs
<1>5. /\ IsSplit(<< target >>, target, FALSE, << >>, FALSE) /\ NoCommas(<< target >>)
      /\ IsSplit(<< target, at, b >>, target, FALSE, << b >>, FALSE)
      /\ NoCommas(<< target, at, b >>)
  BY <1>1, <1>2, SplitAlone, SplitTransport
<1>6. target # "dns" => /\ IsSplit(<< target, at, at, b >>, target, FALSE, << b >>, TRUE)
                        /\ NoCommas(<< target, at, at, b >>)
  BY <1>1, <1>2, SplitLocal
<1>7. target = "dns" => /\ IsSplit(<< target, at, s >>, target, TRUE, << >>, FALSE)
                        /\ NoCommas(<< target, at, s >>)
                        /\ IsSplit(<< target, at, s, at, b >>, target, TRUE, << b >>, FALSE)
                        /\ NoCommas(<< target, at, s, at, b >>)
  BY <1>1, <1>2, SplitServer, SplitBoth
<1>8. \/ ~server /\ via = ""
      \/ ~server /\ via = "@"
      \/ ~server /\ via = "@@" /\ target # "dns"
      \/ server /\ target = "dns" /\ via = ""
      \/ server /\ target = "dns" /\ via = "@"
  OBVIOUS
<1>9. /\ via = "" => (via = "@@") = FALSE
      /\ via = "@" => (via = "@@") = FALSE
      /\ via = "@@" => (via = "@@") = TRUE
  OBVIOUS
<1>10. /\ Beginning(target, FALSE, "") = << target >>
       /\ Beginning(target, FALSE, "@") = << target, at, b >>
       /\ Beginning(target, FALSE, "@@") = << target, at, at, b >>
       /\ Beginning(target, TRUE, "") = << target, at, s >>
       /\ Beginning(target, TRUE, "@") = << target, at, s, at, b >>
  BY <1>4 DEF BeginningsAre
<1> QED BY <1>1, <1>3, <1>10, <1>5, <1>6, <1>7, <1>8, <1>9

\* What was parsed, of a text that begins with pre and goes on with parameters.
IsRead(t, ps, n, target, server, transport, local) ==
  /\ AllParams(t) = Each(ps, n)
  /\ Target(t) = << target >>
  /\ HasServer(t) <=> server
  /\ Parse(t) = [target |-> << target >>, server |-> server, transport |-> transport,
                 local |-> local, label |-> LastOf(ps, Labels),
                 interval |-> \E i \in DOMAIN ps : ps[i] = "i=2"]

\* What is left has no parameters of its own.
LEMMA NoSegments == \A t : Segments(t, {}) = << >>
<1>1. Cardinality({}) = 0
  BY FS_EmptySet
<1>2. ASSUME NEW t PROVE Segments(t, {}) = << >>
  <2> DEFINE F(k) == Segment(t, CHOOSE c \in {} : Cardinality({d \in {} : d <= c}) = k)
  <2>1. Segments(t, {}) = [k \in 1 .. 0 |-> F(k)]
    BY <1>1 DEF Segments
  <2> HIDE DEF F
  <2>2. 1 .. 0 = {}
    OBVIOUS
  <2> QED BY <2>1, <2>2
<1> QED BY <1>2

LEMMA FirstOfOne ==
  ASSUME NEW a
  PROVE  SubSeq(<< a >>, 1, 1) = << a >>
<1> DEFINE t == << a >>
<1>1. t \in Seq({a}) /\ Len(t) = 1 /\ t[1] = a
  OBVIOUS
<1> HIDE DEF t
<1>2. SubSeq(t, 1, 1) = << t[1] >>
  BY <1>1, OneOf
<1> QED BY <1>1, <1>2 DEF t

LEMMA ParamsRead ==
  ASSUME NEW t, NEW pre, NEW ps, NEW m \in Nat, NEW n \in Nat, IsText(t, pre, ps, m, n),
         NEW target, target # Comma, Before(pre) = << target >>
  PROVE  AllParams(t) = Each(ps, n)
<1>1. Positions(<< target >>, Comma) = {}
  <2> DEFINE u == << target >>
  <2>1. DOMAIN u = {1} /\ u[1] = target
    OBVIOUS
  <2> HIDE DEF u
  <2>2. Positions(u, Comma) = {}
    BY <2>1 DEF Positions
  <2> QED BY <2>2 DEF u
<1>2. Segments(Before(Body(t)), Positions(Before(Body(t)), Comma)) = << >>
  BY <1>1, BodyIs, NoSegments
<1>3. Segments(t, Positions(t, Comma)) = Each(ps, n)
  BY SegmentsAre
<1>6. TrailingCommas(t) = Positions(t, Comma)
  BY AllTrailing
<1> DEFINE q == Each(ps, n)
<1>4. q \in Seq({q[k] : k \in 1 .. n})
  BY DEF Each
<1> HIDE DEF q
<1>5. << >> \o q = q
  BY <1>4, NothingAdded
<1> QED BY <1>2, <1>3, <1>5, <1>6 DEF AllParams, q

LEMMA GreatestIn ==
  ASSUME NEW n \in Nat, NEW S, S \subseteq 1 .. n, S # {}
  PROVE  Max(S) \in S
<1> DEFINE T == {n - i : i \in S}
<1>1. T \subseteq Nat /\ T # {}
  <2>1. \A i \in S : i \in 1 .. n
    OBVIOUS
  <2>2. \A i \in 1 .. n : n - i \in Nat
    OBVIOUS
  <2> QED BY <2>1, <2>2
<1>2. PICK k \in T : \A l \in T : k <= l
  BY <1>1, LeastOf
<1>3. PICK i \in S : k = n - i
  OBVIOUS
<1>4. \A j \in S : i >= j
  <2>1. ASSUME NEW j \in S PROVE i >= j
    <3>1. n - j \in T /\ i \in 1 .. n /\ j \in 1 .. n
      OBVIOUS
    <3>2. n - i <= n - j
      BY <1>2, <1>3, <3>1
    <3> QED BY <3>1, <3>2
  <2> QED BY <2>1
<1> QED BY <1>4 DEF Max

\* The parameters are valid, and the last label is the one that counts.
LEMMA LabelRead ==
  ASSUME NEW t, NEW n \in Nat, NEW ps \in [1 .. n -> Params],
         AllParams(t) = Each(ps, n)
  PROVE  /\ Valid(t) /\ Label(t) = LastOf(ps, Labels)
         /\ (\E i \in DOMAIN AllParams(t) : AllParams(t)[i] = << "i=2" >>)
              <=> \E i \in DOMAIN ps : ps[i] = "i=2"
<1> DEFINE q == AllParams(t)
<1>1. /\ DOMAIN q = 1 .. n /\ DOMAIN ps = 1 .. n
      /\ \A i \in 1 .. n : q[i] = << ps[i] >> /\ ps[i] \in Params
  BY DEF Each
<1>2. \A w : << w >> # << >> /\ << w >>[1] = w /\ Len(<< w >>) = 1
           /\ (<< w >> = << "i=2" >> <=> w = "i=2")
  OBVIOUS
<1> HIDE DEF q
<1>3. Valid(t)
  <2>1. ASSUME NEW i \in DOMAIN q PROVE IsParam(q[i]) /\ Len(q[i]) = 1
    <3>1. q[i] = << ps[i] >> /\ ps[i] \in Params
      BY <1>1
    <3> QED BY <1>2, <3>1 DEF IsParam
  <2> QED BY <2>1 DEF Valid, q
<1>4. {i \in DOMAIN q : q[i][1] \in Labels} = {i \in DOMAIN ps : ps[i] \in Labels}
  BY <1>1, <1>2
<1>5. Label(t) = LastOf(ps, Labels)
  <2> DEFINE at == {i \in DOMAIN ps : ps[i] \in Labels}
  <2>1. CASE at = {}
    BY <1>4, <2>1 DEF Label, LastOf, q
  <2>2. CASE at # {}
    <3>1. at \subseteq 1 .. n
      BY <1>1
    <3>2. Max(at) \in at
      BY <2>2, <3>1, GreatestIn
    <3>3. Label(t) = q[Max(at)] /\ LastOf(ps, Labels) = << ps[Max(at)] >>
      BY <1>4, <2>2 DEF Label, LastOf, q
    <3> QED BY <1>1, <3>1, <3>2, <3>3
  <2> QED BY <2>1, <2>2
<1>6. (\E i \in DOMAIN q : q[i] = << "i=2" >>) <=> \E i \in DOMAIN ps : ps[i] = "i=2"
  BY <1>1, <1>2
<1> QED BY <1>3, <1>5, <1>6 DEF q

\* Such a text is parsed into its beginning's parts and its parameters.
LEMMA TextRead ==
  ASSUME NEW t, NEW pre, NEW ps, NEW m \in Nat, NEW n \in Nat, IsText(t, pre, ps, m, n),
         NEW target, target # Comma, NEW server \in BOOLEAN, NEW transport, NEW local \in BOOLEAN,
         IsSplit(pre, target, server, transport, local)
  PROVE  IsRead(t, ps, n, target, server, transport, local)
<1>1. Before(pre) = << target >>
  BY DEF IsSplit
<1>2. AllParams(t) = Each(ps, n) /\ Body(t) = pre
  BY <1>1, ParamsRead, BodyIs
<1>3. Target(t) = << target >>
  BY <1>1, <1>2, FirstOfOne DEF Target
<1>4. IsDns(t) <=> target = "dns"
  <2>1. << target >> = << "dns" >> <=> target = "dns"
    OBVIOUS
  <2> QED BY <1>3, <2>1 DEF IsDns
<1>5. HasServer(t) = server
  BY <1>2, <1>4 DEF HasServer, IsSplit
<1>6. Transport(t) = transport
  BY <1>2, <1>5 DEF Transport, IsSplit
<1>7. (~IsDns(t) /\ After(Body(t)) # << >> /\ After(Body(t))[1] = "@") = local
  BY <1>2, <1>4 DEF IsSplit
<1>8. ps \in [1 .. n -> Params]
  BY DEF IsText
<1>9. /\ Valid(t) /\ Label(t) = LastOf(ps, Labels)
      /\ (\E i \in DOMAIN AllParams(t) : AllParams(t)[i] = << "i=2" >>)
           = \E i \in DOMAIN ps : ps[i] = "i=2"
  BY <1>2, <1>8, LabelRead
<1> DEFINE asked == \E i \in DOMAIN ps : ps[i] = "i=2"
           asks == \E i \in DOMAIN AllParams(t) : AllParams(t)[i] = << "i=2" >>
           here == ~IsDns(t) /\ After(Body(t)) # << >> /\ After(Body(t))[1] = "@"
<1>10. Parse(t) = [target |-> Target(t), server |-> HasServer(t), transport |-> Transport(t),
                   local |-> here, label |-> Label(t), interval |-> asks]
  BY <1>9 DEF Parse
<1>11. here = local /\ asks = asked
  BY <1>7, <1>9
<1> HIDE DEF here, asks, asked
<1>12. Parse(t) = [target |-> << target >>, server |-> server, transport |-> transport,
                   local |-> local, label |-> LastOf(ps, Labels), interval |-> asked]
  BY <1>3, <1>5, <1>6, <1>9, <1>10, <1>11
<1> QED BY <1>2, <1>3, <1>5, <1>12 DEF IsRead, asked

LEMMA CommasAre ==
  ASSUME NEW n \in Nat, NEW ps \in [1 .. n -> Params]
  PROVE  IsWritten(Commas(ps), ps, n)
<1>1. ps \in [1 .. n -> Token]
  <2>1. Params \subseteq Token
    BY DEF Token
  <2> QED BY <2>1
<1>2. Commas(ps) = FlattenSeq(Written(ps))
  BY DEF Commas, Written
<1> QED BY <1>1, <1>2, WrittenFlat

LEMMA NoneWritten == Commas(<< >>) = << >>
<1> DEFINE c == Commas(<< >>)
<1>1. << >> \in [1 .. 0 -> Params]
  OBVIOUS
<1>2. IsWritten(c, << >>, 0)
  BY <1>1, CommasAre
<1>3. c \in Seq(Token) /\ Len(c) = 0
  <2>1. 2 * 0 = 0
    OBVIOUS
  <2> HIDE DEF c
  <2> QED BY <1>2, <2>1 DEF IsWritten
<1> HIDE DEF c
<1>4. c = << >>
  BY <1>3
<1> QED BY <1>4 DEF c

\* A beginning with parameters after it is such a text.
LEMMA TextIs ==
  ASSUME NEW pre, NoCommas(pre), NEW n \in Nat, NEW ps \in [1 .. n -> Params]
  PROVE  /\ IsText(pre \o Commas(ps), pre, ps, Len(pre), n)
         /\ Len(pre) \in Nat
<1> DEFINE m == Len(pre)
           c == Commas(ps)
           t == pre \o c
<1>1. m \in Nat /\ pre \in Seq(Token) /\ m >= 1 /\ \A i \in 1 .. m : pre[i] # Comma
  BY DEF NoCommas
<1>2. /\ c \in Seq(Token) /\ Len(c) = 2 * n
      /\ \A k \in 1 .. n : c[2 * k - 1] = Comma /\ c[2 * k] = ps[k]
  BY CommasAre DEF IsWritten
<1> HIDE DEF c
<1>3. /\ t \in Seq(Token) /\ Len(t) = Len(pre) + Len(c)
      /\ \A i \in 1 .. Len(pre) + Len(c) : t[i] = IF i <= Len(pre) THEN pre[i] ELSE c[i - Len(pre)]
  BY <1>1, <1>2, ConcatProperties
<1> HIDE DEF t, m
<1>4. Len(t) = m + 2 * n /\ 2 * n \in Nat
  BY <1>2, <1>3 DEF m
<1>5. \A i \in 1 .. m + 2 * n : t[i] = IF i <= m THEN pre[i] ELSE c[i - m]
  BY <1>2, <1>3 DEF m
<1>6. \A i \in 1 .. m : t[i] = pre[i] /\ t[i] # Comma
  <2>1. ASSUME NEW i \in 1 .. m PROVE t[i] = pre[i] /\ t[i] # Comma
    <3>1. i \in 1 .. m + 2 * n /\ i <= m
      BY <1>1, <1>4
    <3> QED BY <1>1, <1>5, <3>1
  <2> QED BY <2>1
<1>7. \A k \in 1 .. n : t[m + 2 * k - 1] = Comma /\ t[m + 2 * k] = ps[k]
  <2>1. ASSUME NEW k \in 1 .. n PROVE t[m + 2 * k - 1] = Comma /\ t[m + 2 * k] = ps[k]
    <3>1. /\ m + 2 * k - 1 \in 1 .. m + 2 * n /\ ~(m + 2 * k - 1 <= m)
          /\ (m + 2 * k - 1) - m = 2 * k - 1
          /\ m + 2 * k \in 1 .. m + 2 * n /\ ~(m + 2 * k <= m) /\ (m + 2 * k) - m = 2 * k
      BY <1>1
    <3> QED BY <1>2, <1>5, <3>1
  <2> QED BY <2>1
<1>8. IsText(t, pre, ps, m, n)
  BY <1>1, <1>3, <1>4, <1>6, <1>7 DEF IsText, m
<1> QED BY <1>1, <1>8 DEF t, c, m

\* What a documented specification is written as: its beginning, then its parameters.
IsForm(x, ps, n) ==
  /\ n \in Nat /\ ps \in [1 .. n -> Params] /\ ps = x.head \o x.tail
  /\ Text(x) = Beginning(x.target, x.server, x.via) \o Commas(ps)
  /\ x.target \in {"host", "dns"} /\ x.server \in BOOLEAN
  /\ (x.server => x.target = "dns")

LEMMA BeginningIsSeq ==
  ASSUME NEW x \in Documented
  PROVE  /\ IsSplit(Beginning(x.target, x.server, x.via), x.target, x.server,
                    IF x.via = "" THEN << >> ELSE << "cmd" >>, x.via = "@@")
         /\ NoCommas(Beginning(x.target, x.server, x.via))
<1>1. /\ x.target \in {"host", "dns"} /\ x.server \in BOOLEAN /\ x.via \in {"", "@", "@@"}
      /\ (x.server => x.target = "dns") /\ (x.via = "@@" => x.target = "host")
  BY DEF Documented, Parts
<1> QED BY <1>1, BeginningSplit

LEMMA CountsItems ==
  ASSUME NEW n \in Nat, NEW W, NEW ps \in [1 .. n -> W]
  PROVE  Len(ps) = n /\ (n = 0 <=> ps = << >>)
<1>1. ps \in Seq(W) /\ Len(ps) = n
  OBVIOUS
<1>2. Len(<< >>) = 0 /\ (Len(ps) = 0 => ps = << >>)
  BY <1>1
<1> QED BY <1>1, <1>2

\* With no @ part after a parameter, all parameters are in one place.
LEMMA FormText ==
  ASSUME NEW x \in Documented, ~AtAfterParam(x)
  PROVE  \E n \in Nat : \E ps \in [1 .. n -> Params] : IsForm(x, ps, n)
<1> DEFINE B == Beginning(x.target, x.server, x.via)
           S == IF x.server THEN << "@", "server" >> ELSE << >>
           V == CASE x.via = ""   -> << >>
                  [] x.via = "@"  -> << "@", "cmd" >>
                  [] x.via = "@@" -> << "@", "@", "cmd" >>
<1>1. /\ x.target \in {"host", "dns"} /\ x.server \in BOOLEAN
      /\ (x.server => x.target = "dns") /\ (x.via = "" => x.tail = << >>)
      /\ x.head \in ParamSeqs /\ x.tail \in ParamSeqs
  BY DEF Documented, Parts
<1>2. \A q \in ParamSeqs : \E n \in Nat : q \in [1 .. n -> Params]
  <2>1. \A n \in 0 .. MaxParams : n \in Nat
    BY SpecAssumption
  <2> QED BY <2>1 DEF ParamSeqs
<1>3. NoCommas(B) /\ B \in Seq(Token)
  BY <1>1, BeginningIsSeq DEF NoCommas
<1>4. B = (<< x.target >> \o S) \o V
  BY DEF Beginning
<1>5. Text(x) = (((<< x.target >> \o Commas(x.head)) \o S) \o V) \o Commas(x.tail)
  BY DEF Text
<1>6. << x.target >> \o << >> = << x.target >>
  BY OneIsSeq, NothingAdded
<1> HIDE DEF B, S, V
<1>7. CASE x.head = << >>
  <2>1. PICK n \in Nat : x.tail \in [1 .. n -> Params]
    BY <1>1, <1>2
  <2>2. x.tail \in Seq(Params) /\ Len(x.tail) = n
    BY <2>1
  <2>3. x.head \o x.tail = x.tail
    BY <1>7, <2>2, NothingAdded
  <2>4. Text(x) = B \o Commas(x.tail)
    BY <1>4, <1>5, <1>6, <1>7, NoneWritten
  <2> QED BY <1>1, <2>1, <2>3, <2>4 DEF IsForm, B
<1>8. CASE x.head # << >>
  <2>1. x.via = "" /\ ~x.server /\ x.tail = << >>
    BY <1>1, <1>8 DEF AtAfterParam
  <2>2. PICK n \in Nat : x.head \in [1 .. n -> Params]
    BY <1>1, <1>2
  <2>3. x.head \in Seq(Params)
    BY <2>2
  <2>4. x.head \o x.tail = x.head
    BY <2>1, <2>3, NothingAdded
  <2>5. S = << >> /\ V = << >>
    BY <2>1 DEF S, V
  <2>6. B = << x.target >>
    BY <1>4, <1>6, <2>5
  <2> DEFINE c == Commas(x.head)
  <2>7. c \in Seq(Token)
    BY <2>2, CommasAre DEF IsWritten
  <2> HIDE DEF c
  <2>8. B \o c \in Seq(Token)
    BY <1>3, <2>7, ConcatProperties
  <2>9. (B \o c) \o << >> = B \o c
    BY <2>8, NothingAdded
  <2>10. Text(x) = B \o Commas(x.head)
    BY <1>5, <2>1, <2>5, <2>6, <2>9, NoneWritten DEF c
  <2> QED BY <1>1, <2>1, <2>2, <2>4, <2>10 DEF IsForm, B
<1> QED BY <1>7, <1>8

\* What a remote instance is told is the target, the same parameters and the server.
LEMMA RemoteIs ==
  ASSUME NEW t, NEW n \in Nat, NEW ps \in [1 .. n -> Params], NEW target, NEW server \in BOOLEAN,
         AllParams(t) = Each(ps, n), Target(t) = << target >>, HasServer(t) <=> server
  PROVE  /\ RemoteSpec(t) = (<< target >> \o Commas(ps))
                              \o (IF server THEN << "@", "server" >> ELSE << >>)
         /\ (server => n = 0) => RemoteSpec(t) = Beginning(target, server, "") \o Commas(ps)
<1> DEFINE at == "@"
           b == "cmd"
           s == "server"
<1>1. /\ Beginning(target, FALSE, "") = << target >>
      /\ Beginning(target, TRUE, "") = << target, at, s >>
  <2>1. BeginningsAre(target, at, s, b)
    BY BeginningIs
  <2> QED BY <2>1 DEF BeginningsAre
<1> DEFINE F == [i \in DOMAIN AllParams(t) |-> << Comma >> \o AllParams(t)[i]]
<1>2. F = Written(ps)
  <2>1. DOMAIN AllParams(t) = 1 .. n /\ \A i \in 1 .. n : AllParams(t)[i] = << ps[i] >>
    BY DEF Each
  <2>2. \A w : << Comma >> \o << w >> = << Comma, w >>
    BY Joined11
  <2>3. DOMAIN ps = 1 .. n
    OBVIOUS
  <2> QED BY <2>1, <2>2, <2>3 DEF Written
<1>3. FlattenSeq(F) = Commas(ps)
  BY <1>2 DEF Commas, Written
<1>4. RemoteSpec(t) = (<< target >> \o FlattenSeq(F))
                        \o (IF server THEN << "@", "server" >> ELSE << >>)
  BY DEF RemoteSpec
<1> HIDE DEF F, at, b, s
<1> DEFINE c == Commas(ps)
<1>5. c \in Seq(Token)
  BY CommasAre DEF IsWritten
<1>6. ASSUME server, n = 0
      PROVE  RemoteSpec(t) = Beginning(target, server, "") \o Commas(ps)
  <2>1. ps = << >>
    BY <1>6
  <2>2. c = << >>
    BY <2>1, NoneWritten
  <2>3. << target >> \o << >> = << target >>
    BY OneIsSeq, NothingAdded
  <2>4. RemoteSpec(t) = << target >> \o << at, s >>
    BY <1>3, <1>4, <1>6, <2>2, <2>3 DEF at, s
  <2>5. << target >> \o << at, s >> = << target, at, s >>
    BY Joined12
  <2>6. << target, at, s >> \o << >> = << target, at, s >>
    <3>1. << target, at, s >> \in Seq({target, at, s})
      OBVIOUS
    <3> QED BY <3>1, NothingAdded
  <2> QED BY <1>1, <1>6, <2>2, <2>4, <2>5, <2>6
<1>7. ASSUME ~server
      PROVE  RemoteSpec(t) = Beginning(target, server, "") \o Commas(ps)
  <2> HIDE DEF c
  <2>1. RemoteSpec(t) = (<< target >> \o c) \o << >>
    BY <1>3, <1>4, <1>7 DEF c
  <2>2. << target >> \o c \in Seq(Token \cup {target})
    <3>1. << target >> \in Seq(Token \cup {target}) /\ c \in Seq(Token \cup {target})
      BY <1>5, OneIsSeq
    <3> QED BY <3>1, ConcatProperties
  <2>3. RemoteSpec(t) = << target >> \o c
    BY <2>1, <2>2, NothingAdded
  <2> QED BY <1>1, <1>7, <2>3 DEF c
<1> QED BY <1>3, <1>4, <1>6, <1>7

\* Every comma of a text is followed by a parameter.
Followed(t) == /\ t \in Seq(Token)
               /\ \A c \in 1 .. Len(t) : t[c] = Comma => c < Len(t) /\ t[c + 1] \in Params

\* A text that begins with a target and a parameter: what comes later is glued to the
\* last parameter before it.
IsGlued(t, target) == Followed(t) /\ Len(t) >= 2 /\ t[1] = target /\ t[2] = Comma

LEMMA JoinFollowed ==
  ASSUME NEW s, NEW u, Followed(s), Followed(u)
  PROVE  Followed(s \o u)
<1> DEFINE k == Len(s)
           l == Len(u)
           v == s \o u
<1>1. /\ s \in Seq(Token) /\ u \in Seq(Token) /\ k \in Nat /\ l \in Nat
      /\ \A c \in 1 .. k : s[c] = Comma => c < k /\ s[c + 1] \in Params
      /\ \A c \in 1 .. l : u[c] = Comma => c < l /\ u[c + 1] \in Params
  BY DEF Followed
<1>2. /\ v \in Seq(Token) /\ Len(v) = k + l
      /\ \A i \in 1 .. k + l : v[i] = IF i <= k THEN s[i] ELSE u[i - k]
  BY <1>1, ConcatProperties
<1> HIDE DEF k, l, v
<1>3. ASSUME NEW c \in 1 .. k + l, v[c] = Comma PROVE c < k + l /\ v[c + 1] \in Params
  <2>1. CASE c <= k
    <3>1. c \in 1 .. k /\ s[c] = Comma
      BY <1>1, <1>2, <1>3, <2>1
    <3>2. c < k /\ s[c + 1] \in Params
      BY <1>1, <3>1
    <3>3. c + 1 \in 1 .. k + l /\ c + 1 <= k /\ c < k + l
      BY <1>1, <3>2
    <3> QED BY <1>2, <3>2, <3>3
  <2>2. CASE ~(c <= k)
    <3>1. c - k \in 1 .. l /\ u[c - k] = Comma
      BY <1>1, <1>2, <1>3, <2>2
    <3>2. c - k < l /\ u[(c - k) + 1] \in Params
      BY <1>1, <3>1
    <3>3. c + 1 \in 1 .. k + l /\ ~(c + 1 <= k) /\ c < k + l /\ (c + 1) - k = (c - k) + 1
      BY <1>1, <2>2, <3>2
    <3> QED BY <1>2, <3>2, <3>3
  <2> QED BY <2>1, <2>2
<1>4. Followed(v)
  BY <1>2, <1>3 DEF Followed
<1> QED BY <1>4 DEF v

LEMMA StaysGlued ==
  ASSUME NEW s, NEW u, NEW target, IsGlued(s, target), Followed(u)
  PROVE  IsGlued(s \o u, target)
<1> DEFINE v == s \o u
<1>1. Followed(v)
  BY JoinFollowed DEF IsGlued
<1>2. s \in Seq(Token) /\ u \in Seq(Token) /\ Len(s) >= 2 /\ s[1] = target /\ s[2] = Comma
  BY DEF IsGlued, Followed
<1>3. /\ Len(v) = Len(s) + Len(u)
      /\ \A i \in 1 .. Len(s) + Len(u) : v[i] = IF i <= Len(s) THEN s[i] ELSE u[i - Len(s)]
  BY <1>2, ConcatProperties
<1> HIDE DEF v
<1>4. 1 \in 1 .. Len(s) + Len(u) /\ 2 \in 1 .. Len(s) + Len(u) /\ 1 <= Len(s) /\ 2 <= Len(s)
  BY <1>2
<1>5. v[1] = target /\ v[2] = Comma /\ Len(v) >= 2
  BY <1>2, <1>3, <1>4
<1> QED BY <1>1, <1>5 DEF IsGlued, v

LEMMA CommasFollowed ==
  ASSUME NEW n \in Nat, NEW ps \in [1 .. n -> Params]
  PROVE  Followed(Commas(ps))
<1> DEFINE c == Commas(ps)
<1>1. /\ c \in Seq(Token) /\ Len(c) = 2 * n
      /\ \A k \in 1 .. n : c[2 * k - 1] = Comma /\ c[2 * k] = ps[k]
  BY CommasAre DEF IsWritten
<1> HIDE DEF c
<1>2. ASSUME NEW i \in 1 .. Len(c), c[i] = Comma PROVE i < Len(c) /\ c[i + 1] \in Params
  <2>1. i \in 1 .. 0 + 2 * n /\ i > 0 /\ 0 \in Nat
    BY <1>1
  <2>2. PICK k \in 1 .. n : i = 0 + 2 * k - 1 \/ i = 0 + 2 * k
    BY <2>1, Halves
  <2>3. ps[k] \in Params /\ ps[k] # Comma
    BY NoCommaParam
  <2>4. i # 2 * k
    BY <1>1, <1>2, <2>3
  <2>5. i = 2 * k - 1 /\ i + 1 = 2 * k /\ i < 2 * n
    BY <2>2, <2>4
  <2> QED BY <1>1, <2>3, <2>5
<1>3. Followed(c)
  BY <1>1, <1>2 DEF Followed
<1> QED BY <1>3 DEF c

\* A text without commas.
LEMMA PlainFollowed ==
  ASSUME NEW t \in Seq(Token), \A i \in 1 .. Len(t) : t[i] # Comma
  PROVE  Followed(t)
BY DEF Followed

LEMMA AtPartsFollowed ==
  /\ Followed(<< >>) /\ Followed(<< "@", "server" >>)
  /\ Followed(<< "@", "cmd" >>) /\ Followed(<< "@", "@", "cmd" >>)
<1>1. PICK at \in Token, b \in Token, s \in Token : at = "@" /\ b = "cmd" /\ s = "server"
  BY DEF Token
<1>2. at # Comma /\ b # Comma /\ s # Comma
  BY <1>1, NoCommaParam
<1>3. ASSUME NEW x \in Token, NEW y \in Token, x # Comma, y # Comma
      PROVE  Followed(<< x, y >>) /\ Followed(<< x, x, y >>)
  <2> DEFINE u == << x, y >>
             v == << x, x, y >>
  <2>1. /\ u \in Seq(Token) /\ v \in Seq(Token) /\ Len(u) = 2 /\ Len(v) = 3
        /\ u[1] = x /\ u[2] = y /\ v[1] = x /\ v[2] = x /\ v[3] = y
    OBVIOUS
  <2> HIDE DEF u, v
  <2>2. (\A i \in 1 .. Len(u) : u[i] # Comma) /\ (\A i \in 1 .. Len(v) : v[i] # Comma)
    BY <1>3, <2>1
  <2>3. Followed(u) /\ Followed(v)
    BY <2>1, <2>2, PlainFollowed
  <2> QED BY <2>3 DEF u, v
<1>4. Followed(<< >>)
  <2> DEFINE u == << >>
  <2>1. u \in Seq(Token) /\ Len(u) = 0
    OBVIOUS
  <2> HIDE DEF u
  <2>2. \A i \in 1 .. Len(u) : u[i] # Comma
    BY <2>1
  <2>3. Followed(u)
    BY <2>1, <2>2, PlainFollowed
  <2> QED BY <2>3 DEF u
<1>5. Followed(<< at, s >>) /\ Followed(<< at, b >>) /\ Followed(<< at, at, b >>)
  BY <1>2, <1>3
<1> QED BY <1>1, <1>4, <1>5

LEMMA ParamsGlued ==
  ASSUME NEW target \in {"host", "dns"}, NEW n \in Nat, n # 0, NEW ps \in [1 .. n -> Params]
  PROVE  IsGlued(<< target >> \o Commas(ps), target)
<1> DEFINE s == << target >>
           c == Commas(ps)
           v == s \o c
<1>1. /\ c \in Seq(Token) /\ Len(c) = 2 * n /\ Followed(c)
      /\ \A k \in 1 .. n : c[2 * k - 1] = Comma
  BY CommasAre, CommasFollowed DEF IsWritten
<1>2. target \in Token /\ target # Comma
  BY NoCommaParam DEF Token
<1>3. s \in Seq(Token) /\ Len(s) = 1 /\ s[1] = target
  BY <1>2
<1> HIDE DEF s, c
<1>4. Followed(s)
  <2>1. \A i \in 1 .. Len(s) : s[i] # Comma
    BY <1>2, <1>3
  <2> QED BY <1>3, <2>1, PlainFollowed
<1>5. Followed(v)
  BY <1>1, <1>4, JoinFollowed
<1>6. /\ Len(v) = Len(s) + Len(c)
      /\ \A i \in 1 .. Len(s) + Len(c) : v[i] = IF i <= Len(s) THEN s[i] ELSE c[i - Len(s)]
  BY <1>1, <1>3, ConcatProperties
<1> HIDE DEF v
<1>7. 1 \in 1 .. n /\ 2 * 1 - 1 = 1 /\ 2 * n >= 2
  OBVIOUS
<1>8. c[1] = Comma
  BY <1>1, <1>7
<1>9. v[1] = target /\ v[2] = Comma /\ Len(v) >= 2
  <2>1. 1 \in 1 .. 1 + 2 * n /\ 2 \in 1 .. 1 + 2 * n /\ 1 <= 1 /\ ~(2 <= 1) /\ 2 - 1 = 1
    BY <1>7
  <2> QED BY <1>1, <1>3, <1>6, <1>7, <1>8, <2>1
<1> QED BY <1>5, <1>9 DEF IsGlued, v, s, c

\* The segment after a comma is a parameter, whatever is glued to it.
LEMMA FollowedIsParam ==
  ASSUME NEW t, Followed(t), NEW c \in Positions(t, Comma)
  PROVE  IsParam(Segment(t, c))
<1> DEFINE S == {d - 1 : d \in {e \in Positions(t, Comma) : e > c}} \cup {Len(t)}
           e == Min(S)
           u == SubSeq(t, c + 1, e)
<1>1. /\ t \in Seq(Token) /\ c \in 1 .. Len(t) /\ t[c] = Comma /\ Len(t) \in Nat
      /\ \A d \in 1 .. Len(t) : t[d] = Comma => d < Len(t) /\ t[d + 1] \in Params
  BY DEF Followed, Positions
<1>2. c < Len(t) /\ t[c + 1] \in Params /\ t[c + 1] # Comma
  BY <1>1, NoCommaParam
<1>3. \A b \in S : b \in c + 1 .. Len(t)
  <2>1. ASSUME NEW d \in Positions(t, Comma), d > c PROVE d - 1 \in c + 1 .. Len(t)
    <3>1. d \in 1 .. Len(t) /\ t[d] = Comma
      BY <1>1 DEF Positions
    <3>2. d # c + 1
      BY <1>2, <3>1
    <3> QED BY <1>1, <2>1, <3>1, <3>2
  <2>2. Len(t) \in c + 1 .. Len(t)
    BY <1>1, <1>2
  <2> QED BY <2>1, <2>2
<1>4. S # {} /\ S \subseteq Nat
  <2>1. Len(t) \in S
    OBVIOUS
  <2> QED BY <1>1, <1>3, <2>1
<1> HIDE DEF S
<1>5. e \in c + 1 .. Len(t)
  <2>1. PICK k \in S : \A m \in S : k <= m
    BY <1>4, LeastOf
  <2>2. S \subseteq Int
    BY <1>4
  <2>3. e = k
    BY <2>1, <2>2, LeastIs
  <2> QED BY <1>3, <2>1, <2>3
<1>6. Segment(t, c) = u
  BY DEF Segment, S
<1> HIDE DEF e
<1>7. /\ c + 1 \in Int /\ e \in Int /\ c + 1 <= e /\ e - (c + 1) + 1 \in Nat
      /\ e - (c + 1) + 1 >= 1 /\ c + 1 + 1 - 1 = c + 1
  BY <1>1, <1>5
<1>8. \A i \in c + 1 .. e : t[i] \in Token
  <2>1. \A i \in c + 1 .. e : i \in 1 .. Len(t)
    BY <1>1, <1>5
  <2> QED BY <1>1, <2>1
<1>9. /\ u \in Seq(Token) /\ Len(u) = IF c + 1 <= e THEN e - (c + 1) + 1 ELSE 0
      /\ \A i \in 1 .. e - (c + 1) + 1 : u[i] = t[c + 1 + i - 1]
  BY <1>7, <1>8, SubSeqProperties
<1> HIDE DEF u
<1>10. u # << >> /\ u[1] = t[c + 1]
  <2>1. 1 \in 1 .. e - (c + 1) + 1 /\ Len(u) >= 1
    BY <1>7, <1>9
  <2>2. u # << >>
    BY <2>1
  <2> QED BY <1>7, <1>9, <2>1, <2>2
<1> QED BY <1>2, <1>6, <1>10 DEF IsParam

\* Of a text that is glued nothing but the target is left: no server, no transport.
LEMMA GluedLost ==
  ASSUME NEW t, NEW target \in {"host", "dns"}, IsGlued(t, target)
  PROVE  AtPartLost(Parse(t), target)
<1> DEFINE C == TrailingCommas(t)
<1>1. /\ t \in Seq(Token) /\ Followed(t) /\ Len(t) >= 2 /\ t[1] = target /\ t[2] = Comma
      /\ target # Comma /\ target \in Token
  BY NoCommaParam DEF IsGlued, Followed, Token
<1>2. C = Positions(t, Comma)
  BY <1>1, FollowedIsParam DEF TrailingCommas
<1>3. 2 \in C /\ C \subseteq Int /\ \A d \in C : 2 <= d
  <2>1. \A d \in C : d \in 1 .. Len(t) /\ t[d] = Comma
    BY <1>1, <1>2 DEF Positions
  <2>2. 2 \in C
    BY <1>1, <1>2 DEF Positions
  <2> HIDE DEF C
  <2>3. \A d \in C : d # 1
    BY <1>1, <2>1
  <2> QED BY <2>1, <2>2, <2>3
<1> HIDE DEF C
<1>4. Min(C) = 2
  BY <1>3, LeastIs
<1>5. Body(t) = << target >>
  <2>1. Body(t) = SubSeq(t, 1, 1)
    BY <1>3, <1>4 DEF Body, C
  <2>2. 1 \in 1 .. Len(t)
    BY <1>1
  <2> QED BY <1>1, <2>1, <2>2, OneOf
<1>6. target # "@"
  OBVIOUS
<1>7. Before(Body(t)) = << target >> /\ After(Body(t)) = << >>
  BY <1>1, <1>5, <1>6, Alone
<1>8. Target(t) = << target >>
  BY <1>7, FirstOfOne DEF Target
<1>9. ~HasServer(t)
  <2>1. Before(After(Body(t))) = << >>
    BY <1>7, NothingSplit
  <2>2. << >> # << "server" >>
    OBVIOUS
  <2> QED BY <2>1, <2>2 DEF HasServer
<1>10. Transport(t) = << >>
  BY <1>7, <1>9, NothingSplit DEF Transport
<1> DEFINE local == ~IsDns(t) /\ After(Body(t)) # << >> /\ After(Body(t))[1] = "@"
           asks == \E i \in DOMAIN AllParams(t) : AllParams(t)[i] = << "i=2" >>
<1>11. ~local
  BY <1>7
<1>12. CASE ~Valid(t)
  BY <1>12 DEF AtPartLost, Parse
<1>13. CASE Valid(t)
  <2>1. Parse(t) = [target |-> Target(t), server |-> HasServer(t), transport |-> Transport(t),
                    local |-> local, label |-> Label(t), interval |-> asks]
    BY <1>13 DEF Parse
  <2> HIDE DEF local, asks
  <2>2. /\ Parse(t).target = << target >> /\ ~Parse(t).server /\ Parse(t).transport = << >>
        /\ ~Parse(t).local
    BY <1>8, <1>9, <1>10, <1>11, <2>1
  <2> QED BY <2>2 DEF AtPartLost
<1> QED BY <1>12, <1>13

\* What a remote instance is to make of it: the same, without a transport.
PassedOn(r) == [r EXCEPT !.transport = << >>, !.local = FALSE]

LEMMA PassedOnIs ==
  ASSUME NEW r, DOMAIN r = {"target", "server", "transport", "local", "label", "interval"}
  PROVE  PassedOn(r) = [target |-> r.target, server |-> r.server, transport |-> << >>,
                        local |-> FALSE, label |-> r.label, interval |-> r.interval]
<1> DEFINE w == PassedOn(r)
           q == [target |-> r.target, server |-> r.server, transport |-> << >>,
                 local |-> FALSE, label |-> r.label, interval |-> r.interval]
<1>1. DOMAIN w = DOMAIN r /\ w = [i \in DOMAIN w |-> w[i]]
  BY DEF PassedOn
<1>2. /\ w.target = r.target /\ w.server = r.server /\ w.transport = << >> /\ w.local = FALSE
      /\ w.label = r.label /\ w.interval = r.interval
  BY DEF PassedOn
<1>3. q = [i \in DOMAIN q |-> q[i]] /\ DOMAIN q = DOMAIN r
  OBVIOUS
<1>4. /\ q.target = r.target /\ q.server = r.server /\ q.transport = << >> /\ q.local = FALSE
      /\ q.label = r.label /\ q.interval = r.interval
  OBVIOUS
<1> HIDE DEF w, q
<1>5. \A i \in DOMAIN r : w[i] = q[i]
  BY <1>2, <1>4
<1>6. w = q
  BY <1>1, <1>3, <1>5
<1> QED BY <1>6 DEF w, q

\* With no @ part after a parameter, a specification is understood as it is meant,
\* here and, where no server follows a parameter there, where it is passed on to.
LEMMA FormRead ==
  ASSUME NEW x \in Documented, ~AtAfterParam(x)
  PROVE  /\ Parse(Text(x)) = Meaning(x)
         /\ IF AtAfterParamThere(x) THEN AtPartLost(Parse(RemoteSpec(Text(x))), x.target)
            ELSE Parse(RemoteSpec(Text(x))) = PassedOn(Meaning(x))
<1> DEFINE transport == IF x.via = "" THEN << >> ELSE << "cmd" >>
           pre == Beginning(x.target, x.server, x.via)
           rem == Beginning(x.target, x.server, "")
<1>0. PICK n \in Nat : \E ps \in [1 .. n -> Params] : IsForm(x, ps, n)
  BY FormText
<1>1. PICK ps \in [1 .. n -> Params] : IsForm(x, ps, n)
  BY <1>0
<1>2. /\ IsSplit(pre, x.target, x.server, transport, x.via = "@@")
      /\ NoCommas(pre)
  BY BeginningIsSeq
<1> DEFINE local == x.via = "@@"
<1>3. local \in BOOLEAN
  OBVIOUS
<1>4. /\ IsSplit(rem, x.target, x.server, << >>, FALSE)
      /\ NoCommas(rem)
  <2>1. x.target \in {"host", "dns"} /\ x.server \in BOOLEAN /\ (x.server => x.target = "dns")
    BY <1>1 DEF IsForm
  <2>2. "" \in {"", "@", "@@"} /\ "" # "@@"
    OBVIOUS
  <2> QED BY <2>1, <2>2, BeginningSplit
<1>5. x.target # Comma
  <2>1. x.target \in {"host", "dns"}
    BY <1>1 DEF IsForm
  <2> QED BY <2>1, NoCommaParam
<1>6. /\ Text(x) = pre \o Commas(ps) /\ x.server \in BOOLEAN
      /\ ps = x.head \o x.tail /\ Len(ps) = n /\ (n = 0 <=> ps = << >>)
  <2>1. Text(x) = pre \o Commas(ps) /\ x.server \in BOOLEAN /\ ps = x.head \o x.tail
    BY <1>1 DEF IsForm
  <2>2. Len(ps) = n /\ (n = 0 <=> ps = << >>)
    BY CountsItems
  <2> QED BY <2>1, <2>2
<1>7. IsRead(Text(x), ps, n, x.target, x.server, transport, local)
  <2> HIDE DEF pre, transport, local
  <2>1. IsText(Text(x), pre, ps, Len(pre), n) /\ Len(pre) \in Nat
    BY <1>2, <1>6, TextIs
  <2>2. IsSplit(pre, x.target, x.server, transport, local)
    BY <1>2 DEF local
  <2> QED BY <1>3, <1>5, <1>6, <2>1, <2>2, TextRead
<1> DEFINE told == RemoteSpec(Text(x))
<1>8. /\ told = (<< x.target >> \o Commas(ps))
                  \o (IF x.server THEN << "@", "server" >> ELSE << >>)
      /\ (x.server => n = 0) => told = rem \o Commas(ps)
  <2> DEFINE t == Text(x)
             target == x.target
             server == x.server
  <2>1. /\ AllParams(t) = Each(ps, n) /\ Target(t) = << target >>
        /\ (HasServer(t) <=> server) /\ server \in BOOLEAN
    BY <1>6, <1>7 DEF IsRead
  <2> DEFINE S == IF x.server THEN << "@", "server" >> ELSE << >>
             c == << x.target >> \o Commas(ps)
  <2>2. /\ RemoteSpec(Text(x)) = c \o S
        /\ (x.server => n = 0) => RemoteSpec(Text(x)) = Beginning(x.target, x.server, "") \o Commas(ps)
    <3> HIDE DEF t, target, server, pre, rem, transport, local
    <3>1. /\ RemoteSpec(t) = (<< target >> \o Commas(ps))
                              \o (IF server THEN << "@", "server" >> ELSE << >>)
          /\ (server => n = 0) => RemoteSpec(t) = Beginning(target, server, "") \o Commas(ps)
      BY <2>1, RemoteIs, Zenon
    <3> QED BY <3>1 DEF t, target, server
  <2> HIDE DEF S, c
  <2> QED BY <2>2 DEF S, c
<1>9. (x.server => n = 0) => IsRead(told, ps, n, x.target, x.server, << >>, FALSE)
  <2> SUFFICES ASSUME x.server => n = 0
               PROVE  IsRead(told, ps, n, x.target, x.server, << >>, FALSE)
    OBVIOUS
  <2> HIDE DEF rem, told
  <2>1. IsText(told, rem, ps, Len(rem), n) /\ Len(rem) \in Nat
    BY <1>4, <1>8, TextIs
  <2> QED BY <1>4, <1>5, <1>6, <2>1, TextRead
<1>10. Meaning(x) = [target |-> << x.target >>, server |-> x.server, transport |-> transport,
                     local |-> local, label |-> LastOf(ps, Labels),
                     interval |-> \E i \in DOMAIN ps : ps[i] = "i=2"]
  BY <1>6 DEF Meaning
<1> DEFINE asked == \E i \in DOMAIN ps : ps[i] = "i=2"
<1> HIDE DEF pre, rem, transport, local, asked, told
<1>11. Parse(Text(x)) = Meaning(x)
  BY <1>7, <1>10 DEF IsRead
<1>12. (x.server => n = 0) =>
         Parse(told) = [target |-> << x.target >>, server |-> x.server, transport |-> << >>,
                        local |-> FALSE, label |-> LastOf(ps, Labels), interval |-> asked]
  BY <1>9 DEF IsRead, asked
<1>13. Meaning(x) = [target |-> << x.target >>, server |-> x.server, transport |-> transport,
                     local |-> local, label |-> LastOf(ps, Labels), interval |-> asked]
  BY <1>10 DEF asked
<1>14. PassedOn(Meaning(x)) =
         [target |-> << x.target >>, server |-> x.server,
           transport |-> << >>, local |-> FALSE, label |-> LastOf(ps, Labels), interval |-> asked]
  <2> DEFINE r == Meaning(x)
  <2>1. /\ DOMAIN r = {"target", "server", "transport", "local", "label", "interval"}
        /\ r.target = << x.target >> /\ r.server = x.server /\ r.label = LastOf(ps, Labels)
        /\ r.interval = asked
    BY <1>13
  <2> HIDE DEF r
  <2>2. PassedOn(r) = [target |-> r.target, server |-> r.server, transport |-> << >>,
                       local |-> FALSE, label |-> r.label, interval |-> r.interval]
    BY <2>1, PassedOnIs
  <2>3. PassedOn(r) = [target |-> << x.target >>, server |-> x.server, transport |-> << >>,
                       local |-> FALSE, label |-> LastOf(ps, Labels), interval |-> asked]
    BY <2>1, <2>2
  <2> QED BY <2>3 DEF r
<1>15. AtAfterParamThere(x) <=> x.server /\ n # 0
  BY <1>6 DEF AtAfterParamThere
<1>16. CASE AtAfterParamThere(x)
  <2>1. IsGlued(<< x.target >> \o Commas(ps), x.target)
    BY <1>1, <1>15, <1>16, ParamsGlued DEF IsForm
  <2>2. Followed(<< "@", "server" >>)
    BY AtPartsFollowed
  <2>3. IsGlued((<< x.target >> \o Commas(ps)) \o << "@", "server" >>, x.target)
    BY <2>1, <2>2, StaysGlued
  <2>4. IsGlued(told, x.target)
    BY <1>8, <1>15, <1>16, <2>3
  <2>5. x.target \in {"host", "dns"}
    BY <1>1 DEF IsForm
  <2> QED BY <1>11, <1>16, <2>4, <2>5, GluedLost DEF told
<1> QED BY <1>11, <1>12, <1>14, <1>15, <1>16 DEF told

\* A documented specification with an @ part after a parameter loses that part.
LEMMA AtPartGone ==
  ASSUME NEW x \in Documented, AtAfterParam(x)
  PROVE  AtPartLost(Parse(Text(x)), x.target)
<1> DEFINE S == IF x.server THEN << "@", "server" >> ELSE << >>
           V == CASE x.via = ""   -> << >>
                  [] x.via = "@"  -> << "@", "cmd" >>
                  [] x.via = "@@" -> << "@", "@", "cmd" >>
           b == << x.target >> \o Commas(x.head)
<1>1. /\ x.target \in {"host", "dns"} /\ x.server \in BOOLEAN /\ x.via \in {"", "@", "@@"}
      /\ x.head \in ParamSeqs /\ x.tail \in ParamSeqs /\ x.head # << >>
  BY DEF Documented, Parts, AtAfterParam
<1>2. \A q \in ParamSeqs : \E n \in Nat : q \in [1 .. n -> Params]
  <2>1. \A n \in 0 .. MaxParams : n \in Nat
    BY SpecAssumption
  <2> QED BY <2>1 DEF ParamSeqs
<1>3. PICK n \in Nat : x.head \in [1 .. n -> Params]
  BY <1>1, <1>2
<1>4. PICK k \in Nat : x.tail \in [1 .. k -> Params]
  BY <1>1, <1>2
<1>5. n # 0
  BY <1>1, <1>3, CountsItems
<1>6. IsGlued(b, x.target)
  BY <1>1, <1>3, <1>5, ParamsGlued
<1>7. Followed(S) /\ Followed(V)
  BY <1>1, AtPartsFollowed
<1>8. Followed(Commas(x.tail))
  BY <1>4, CommasFollowed
<1>9. Text(x) = ((b \o S) \o V) \o Commas(x.tail)
  BY DEF Text
<1> HIDE DEF S, V, b
<1>10. IsGlued(Text(x), x.target)
  BY <1>6, <1>7, <1>8, <1>9, StaysGlued
<1> QED BY <1>1, <1>10, GluedLost

\* A specification written in any documented form, with every number of parameters,
\* means here, and where it is passed on to, what the documentation says; but an @
\* part after a parameter is lost.
THEOREM SpecsUnderstood == AlgSpec => []SpecUnderstood
<1>1. Computed => SpecUnderstood
  <2> SUFFICES ASSUME Computed, alg = "spec", output # << >> PROVE SpecUnderstood
    BY DEF SpecUnderstood, ParsedAsDocumented, RemoteUnderstands, Result
  <2>1. /\ input \in Documented
        /\ output = << [here   |-> Parse(Text(input)),
                        remote |-> Parse(RemoteSpec(Text(input)))] >>
    BY DEF Computed
  <2>2. /\ output[1].here = Parse(Text(input))
        /\ output[1].remote = Parse(RemoteSpec(Text(input)))
    BY <2>1
  <2>3. CASE AtAfterParam(input)
    BY <2>1, <2>2, <2>3, AtPartGone DEF SpecUnderstood, ParsedAsDocumented, RemoteUnderstands
  <2>4. CASE ~AtAfterParam(input)
    BY <2>1, <2>2, <2>4, FormRead
    DEF SpecUnderstood, ParsedAsDocumented, RemoteUnderstands, PassedOn
  <2> QED BY <2>3, <2>4
<1> QED BY <1>1, InitComputed, NextComputed, PTL DEF AlgSpec
=============================================================================
