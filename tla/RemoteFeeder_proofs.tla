------------------------- MODULE RemoteFeeder_proofs -------------------------
(***************************************************************************)
(* The remote feeder, for any number of columns, any translations and any  *)
(* behaviour of the connection: its types, that connections never share a  *)
(* row, that answers stay, that the statistics say what the cells say as   *)
(* long as the remote is not torn down, that they add up when it is, and   *)
(* that the columns are what the remote reported, but for the lines that   *)
(* are still in the pipe.                                                  *)
(***************************************************************************)
EXTENDS RemoteFeeder, PingColumn_proofs, SequenceTheorems

IsEvent(m) == m.kind \in {"send", "result", "note"}

\* Nothing is above the last ping of a column.
Below(c) == \A s \in Rows : c.ping[s] # "none" => s <= c.lastPing

\* A line is about a column of the connection and a row there is, and a send
\* or result about a row of which the remote has reported something.
Known(m) == IsEvent(m) =>
              /\ m.h \in Active
              /\ m.s + offset <= MaxSeq
              /\ m.kind # "note" => event[m.h][m.s] # "none"

KnownLines == {m \in Line : Known(m)}

Linked == /\ \A h \in Hosts : Below(col[h])
          /\ \A h \in Hosts, s \in Rows :
               event[h][s] # "none" => h \in Active /\ s + offset <= MaxSeq
          /\ pipe \in Seq(KnownLines)
          /\ pc # "read" => pipe = << >> /\ event = NoEvents

IInv == TypeOK /\ Linked /\ RowsFree

-----------------------------------------------------------------------------
(* Sets and sequences *)

\* The greatest element of a set of numbers with a bound.
LEMMA MaxOf ==
  ASSUME NEW n \in Nat, NEW S, S \subseteq 0 .. n, S # {}
  PROVE  Max(S) \in S /\ \A y \in S : Max(S) >= y
<1> DEFINE T == {t \in Nat : n - t \in S}
<1>1. T \subseteq Nat /\ T # {}
  <2>1. PICK x \in S : TRUE
    OBVIOUS
  <2>2. n - x \in Nat /\ n - (n - x) = x
    BY <2>1
  <2>3. n - x \in T
    BY <2>1, <2>2
  <2> QED BY <2>3
<1> HIDE DEF T
<1>2. PICK t \in T : \A u \in T : <<u, t>> \notin OpToRel(<, Nat)
  BY <1>1, NatLessThanWellFounded, WFMin
<1>3. ASSUME NEW u \in T PROVE t <= u
  <2>1. ~ (u < t)
    <3>1. <<u, t>> \notin OpToRel(<, Nat) /\ <<u, t>> \in Nat \X Nat
      BY <1>1, <1>2
    <3> QED BY <3>1 DEF OpToRel
  <2> QED BY <1>1, <2>1
<1>4. ASSUME NEW y \in S PROVE n - t >= y
  <2>1. y \in Int /\ n - y \in Nat /\ n - (n - y) = y
    OBVIOUS
  <2>2. n - y \in T
    BY <2>1 DEF T
  <2> QED BY <1>1, <1>3, <2>1, <2>2
<1>5. n - t \in S
  BY DEF T
<1> QED BY <1>4, <1>5 DEF Max

LEMMA MinOfTwo ==
  ASSUME NEW x \in Nat, NEW y \in Nat
  PROVE  Min({x, y}) = IF x <= y THEN x ELSE y
<1> DEFINE m == IF x <= y THEN x ELSE y
<1>1. m \in {x, y} /\ \A z \in {x, y} : m <= z
  OBVIOUS
<1>2. ASSUME NEW z \in {x, y}, \A w \in {x, y} : z <= w PROVE z = m
  BY <1>2
<1> QED BY <1>1, <1>2 DEF Min

LEMMA SetToSeqElements ==
  ASSUME NEW S, IsFiniteSet(S)
  PROVE  SetToSeq(S) \in Seq(S)
<1>1. PICK n \in Nat : ExistsBijection(1 .. n, S)
  BY FS_NatBijection
<1>2. Cardinality(S) = n
  BY <1>1, FS_CountingElements
<1>3. PICK f \in Bijection(1 .. n, S) : TRUE
  BY <1>1 DEF ExistsBijection
<1>4. f \in [1 .. n -> S] /\ IsInjective(f)
  BY <1>3 DEF Bijection, Injection, IsInjective
<1>5. SetToSeq(S) \in [1 .. n -> S]
  BY <1>2, <1>4 DEF SetToSeq
<1> QED BY <1>5

LEMMA SetToSeqOnce ==
  ASSUME NEW S, IsFiniteSet(S)
  PROVE  \A i, j \in 1 .. Len(SetToSeq(S)) :
           SetToSeq(S)[i] = SetToSeq(S)[j] => i = j
<1>1. PICK n \in Nat : ExistsBijection(1 .. n, S)
  BY FS_NatBijection
<1>2. Cardinality(S) = n
  BY <1>1, FS_CountingElements
<1>3. PICK f \in Bijection(1 .. n, S) : TRUE
  BY <1>1 DEF ExistsBijection
<1>4. f \in [1 .. n -> S] /\ IsInjective(f)
  BY <1>3 DEF Bijection, Injection, IsInjective
<1>5. SetToSeq(S) \in [1 .. n -> S] /\ IsInjective(SetToSeq(S))
  BY <1>2, <1>4 DEF SetToSeq
<1>6. Len(SetToSeq(S)) = n /\ DOMAIN SetToSeq(S) = 1 .. n
  BY <1>5
<1> QED BY <1>5, <1>6 DEF IsInjective

-----------------------------------------------------------------------------
(* What an event does to a column *)

\* Resolve keeps the shape for every report, "pending" among them.
LEMMA ResolveShape ==
  ASSUME NEW c \in Column, NEW s \in Rows, NEW res \in Cell
  PROVE  Resolve(c, s, res) \in Column
<1> DEFINE p == [c.ping EXCEPT ![s] = res]
           i == c.inflight \ {s}
           x == c.recv + One(res = "ok")
           y == c.lost + One(res # "ok")
           z == c.neg + One(res = "detailed")
<1>1. p \in [Rows -> Cell] /\ i \in SUBSET Rows
  BY DEF Column
<1>2. x \in Nat /\ y \in Nat /\ z \in Nat
  BY DEF Column, One
<1>3. Resolve(c, s, res) = [c EXCEPT !.ping = p, !.inflight = i, !.recv = x,
                                     !.lost = y, !.neg = z]
  BY DEF Resolve
<1> HIDE DEF p, i, x, y, z
<1> QED BY <1>1, <1>2, <1>3 DEF Column

\* d is c after something that happened to row s: other rows stay, an answer
\* stays, and nothing is above the last ping.
Touched(c, d, s) ==
  /\ d \in Column /\ Below(d)
  /\ \A r \in Rows : r # s => d.ping[r] = c.ping[r]
  /\ c.ping[s] \in Outcome => d.ping[s] = c.ping[s]

LEMMA AddTouches ==
  ASSUME NEW c \in Column, Below(c), NEW s \in Rows, c.ping[s] = "none"
  PROVE  Touched(c, Add(c, s), s) /\ Add(c, s).ping[s] = "pending"
<1>1. Add(c, s) \in Column
  BY AddColumn
<1>2. /\ \A r \in Rows : Add(c, s).ping[r] = IF r = s THEN "pending" ELSE c.ping[r]
      /\ Add(c, s).lastPing = Higher(c.lastPing, s)
  BY DEF Add, Column
<1>3. Below(Add(c, s))
  BY <1>2, MaxSeqAssumption DEF Below, Column, Higher, Rows
<1>4. c.ping[s] \notin Outcome
  BY DEF Outcome, LostPing, ErrorPing
<1> QED BY <1>1, <1>2, <1>3, <1>4 DEF Touched

LEMMA ResolveTouches ==
  ASSUME NEW c \in Column, Below(c), NEW s \in Rows, NEW res \in Cell, c.ping[s] = "pending"
  PROVE  Touched(c, Resolve(c, s, res), s)
<1>1. Resolve(c, s, res) \in Column
  BY ResolveShape
<1>2. /\ \A r \in Rows : Resolve(c, s, res).ping[r] = IF r = s THEN res ELSE c.ping[r]
      /\ Resolve(c, s, res).lastPing = c.lastPing
  BY DEF Resolve, Column
<1>3. Below(Resolve(c, s, res))
  BY <1>2 DEF Below
<1>4. c.ping[s] \notin Outcome
  BY DEF Outcome, LostPing, ErrorPing
<1> QED BY <1>1, <1>2, <1>3, <1>4 DEF Touched

LEMMA TouchedTwice ==
  ASSUME NEW c, NEW d, NEW e, NEW s \in Rows, Touched(c, d, s), Touched(d, e, s)
  PROVE  Touched(c, e, s)
  BY DEF Touched

LEMMA SendTouches ==
  ASSUME NEW c \in Column, Below(c), NEW s \in Rows
  PROVE  Touched(c, ApplySend(c, s), s)
<1>1. CASE c.ping[s] = "none"
  BY <1>1, AddTouches DEF ApplySend
<1>2. CASE c.ping[s] # "none"
  BY <1>2 DEF ApplySend, Touched
<1> QED BY <1>1, <1>2

LEMMA ResultTouches ==
  ASSUME NEW c \in Column, Below(c), NEW s \in Rows, NEW res \in Cell
  PROVE  Touched(c, ApplyResult(c, s, res), s)
<1> DEFINE p == ApplySend(c, s)
<1>1. Touched(c, p, s)
  BY SendTouches
<1>2. CASE p.ping[s] = "pending"
  <2>1. ApplyResult(c, s, res) = Resolve(p, s, res)
    BY <1>2 DEF ApplyResult
  <2>2. p \in Column /\ Below(p)
    BY <1>1 DEF Touched
  <2> HIDE DEF p
  <2>3. Touched(p, Resolve(p, s, res), s)
    BY <1>2, <2>2, ResolveTouches
  <2> QED BY <1>1, <2>1, <2>3, TouchedTwice
<1>3. CASE p.ping[s] # "pending"
  BY <1>1, <1>3 DEF ApplyResult
<1> QED BY <1>2, <1>3

LEMMA NoteTouches ==
  ASSUME NEW c \in Column, Below(c), NEW s \in Rows
  PROVE  Touched(c, NoteRow(c, s), s) /\ NoteRow(c, s).ping = c.ping
<1>1. NoteRow(c, s) \in Column
  BY MaxSeqAssumption DEF Column, NoteRow, Higher, Rows
<1>2. NoteRow(c, s).ping = c.ping /\ NoteRow(c, s).lastPing = c.lastPing
  BY DEF Column, NoteRow
<1> QED BY <1>1, <1>2 DEF Touched, Below

\* _feeder_error writes to a row above everything.
LEMMA ErrorRowTouches ==
  ASSUME NEW c \in Column, Below(c), c.lastPing < MaxSeq
  PROVE  Touched(c, ErrorRow(c), c.lastPing + 1)
<1> DEFINE s == c.lastPing + 1
           d == Add(c, s)
<1>1. s \in Rows /\ c.ping[s] = "none"
  BY MaxSeqAssumption DEF Column, Rows, Below
<1>2. Touched(c, d, s) /\ d.ping[s] = "pending"
  BY <1>1, AddTouches
<1>3. ErrorRow(c) = Resolve(d, s, "detailed")
  BY DEF ErrorRow
<1>4. d \in Column /\ Below(d) /\ "detailed" \in Cell
  BY <1>2 DEF Touched, Cell, Outcome, LostPing, ErrorPing
<1> HIDE DEF d, s
<1>5. Touched(d, Resolve(d, s, "detailed"), s)
  BY <1>1, <1>2, <1>4, ResolveTouches
<1>6. Touched(c, ErrorRow(c), s)
  BY <1>1, <1>2, <1>3, <1>5, TouchedTwice
<1> QED BY <1>6 DEF s

-----------------------------------------------------------------------------
(* The steps *)

LEMMA EventLine ==
  ASSUME NEW m \in Line, IsEvent(m)
  PROVE  m.h \in Hosts /\ m.s \in Rows /\ m.res \in Cell
  BY DEF Line, IsEvent, Cell

LEMMA InitIInv == Init => IInv
<1> SUFFICES ASSUME Init PROVE IInv
  OBVIOUS
<1>1. TypeOK
  <2>1. col \in [Hosts -> Column]
    BY EmptyConsistent DEF Init
  <2>2. R!StreamTypeOK
    BY DEF Init, NoEvents, R!StreamTypeOK, R!Report, R!Rows, Rows
  <2>3. pipe \in Seq(Line)
    BY EmptySeq DEF Init
  <2>4. backoff \in 2 .. 30 /\ grid \in 0 .. MaxSeq /\ offset \in 0 .. MaxSeq
    BY MaxSeqAssumption DEF Init, FirstBackoff
  <2> QED BY <2>1, <2>2, <2>3, <2>4 DEF Init, TypeOK, Key
<1>2. Linked
  BY DEF Init, Linked, Below, EmptyColumn, NoEvents
<1>3. RowsFree
  BY DEF Init, RowsFree
<1> QED BY <1>1, <1>2, <1>3 DEF IInv

\* What the rest of the process does leaves the connection alone.
LEMMA Outside ==
  ASSUME IInv, UNCHANGED <<pc, col, sent, offset, event, pipe>>
  PROVE  Linked' /\ RowsFree'
<1>1. KnownLines' = KnownLines
  BY DEF KnownLines, Known, Active
<1> QED BY <1>1 DEF IInv, Linked, RowsFree, Active

LEMMA TranslateStep ==
  ASSUME IInv, NEW h \in Hosts, NEW a \in Address, Translate(h, a)
  PROVE  IInv'
<1>1. TypeOK'
  BY DEF Translate, IInv, TypeOK, Key, conn, remote, R!StreamTypeOK
<1>2. Linked' /\ RowsFree'
  BY Outside DEF Translate, conn, remote
<1> QED BY <1>1, <1>2 DEF IInv

LEMMA SharedStep ==
  ASSUME IInv, ForceResolve \/ GridTick \/ UNCHANGED vars
  PROVE  IInv'
<1>1. TypeOK'
  <2>1. CASE ForceResolve
    BY <2>1 DEF ForceResolve, IInv, TypeOK, conn, remote, R!StreamTypeOK
  <2>2. CASE GridTick
    BY <2>2, GroupAssumption, MaxSeqAssumption
       DEF GridTick, IInv, TypeOK, conn, remote, R!StreamTypeOK
  <2>3. CASE UNCHANGED vars
    BY <2>3 DEF vars, local, IInv, TypeOK, conn, remote, R!StreamTypeOK
  <2> QED BY <2>1, <2>2, <2>3
<1>2. Linked' /\ RowsFree'
  BY Outside DEF ForceResolve, GridTick, vars, local, conn, remote
<1> QED BY <1>1, <1>2 DEF IInv

LEMMA ComposeStep ==
  ASSUME IInv, Compose
  PROVE  IInv'
<1> DEFINE S == {grid} \cup {col[h].lastPing : h \in Hosts}
<1>1. S \subseteq 0 .. MaxSeq /\ S # {}
  BY DEF IInv, TypeOK, Column
<1>2. offset' = Max(S)
  BY DEF Compose, FreeOffset
<1>3. offset' \in 0 .. MaxSeq /\ \A h \in Hosts : col[h].lastPing <= offset'
  <2>1. \A h \in Hosts : col[h].lastPing \in S
    OBVIOUS
  <2>2. Max(S) \in S /\ \A y \in S : Max(S) >= y
    BY <1>1, MaxOf, MaxSeqAssumption
  <2> HIDE DEF S
  <2>3. \A y \in S : y \in Int
    BY <1>1
  <2> QED BY <1>1, <1>2, <2>1, <2>2, <2>3
<1>4. pipe' = << >> /\ event' = NoEvents /\ pc' = "spawn" /\ col' = col
  BY DEF Compose, remote, IInv, Linked
<1>5. TypeOK'
  <2>1. sent' \in [Hosts -> Key]
    BY GroupAssumption DEF Compose, KeyOf, Key, Hosts, IInv, TypeOK
  <2> QED BY <1>3, <1>4, <2>1 DEF Compose, remote, IInv, TypeOK, R!StreamTypeOK
<1>6. Linked'
  BY <1>4 DEF IInv, Linked, NoEvents
<1>7. RowsFree'
  BY <1>3, <1>4 DEF IInv, TypeOK, Linked, Below, RowsFree, Column, Rows
<1> QED BY <1>5, <1>6, <1>7 DEF IInv

LEMMA SpawnStep ==
  ASSUME IInv, Spawn
  PROVE  IInv'
<1>1. /\ pc = "spawn" /\ pc' = "read" /\ open' = TRUE
      /\ UNCHANGED <<col, ip, forced, grid, sent, offset, backoff, pipe, event>>
  BY DEF Spawn, local, conn
<1>2. TypeOK'
  BY <1>1 DEF IInv, TypeOK, R!StreamTypeOK
<1>3. KnownLines' = KnownLines
  BY <1>1 DEF KnownLines, Known, Active
<1>4. Linked' /\ RowsFree'
  BY <1>1, <1>3 DEF IInv, Linked, RowsFree, Active
<1> QED BY <1>2, <1>4 DEF IInv

\* Nothing is left of a connection that is gone.
LEMMA GoneLinked ==
  ASSUME Gone, \A h \in Hosts : Below(col[h])'
  PROVE  Linked' /\ R!StreamTypeOK'
<1>1. event' = NoEvents /\ pipe' = << >> /\ open' = FALSE
  BY DEF Gone
<1>2. \A h \in Hosts, s \in Rows : event'[h][s] = "none"
  BY <1>1 DEF NoEvents
<1>3. pipe' \in Seq(KnownLines')
  BY <1>1, EmptySeq
<1>4. Linked'
  BY <1>1, <1>2, <1>3 DEF Linked
<1>5. R!StreamTypeOK'
  BY <1>1 DEF NoEvents, R!StreamTypeOK, R!Report, R!Rows, Rows
<1> QED BY <1>4, <1>5

LEMMA FailStep ==
  ASSUME IInv, Fail, Gone
  PROVE  IInv'
<1>1. ASSUME NEW h \in Hosts
      PROVE  Touched(col[h], col'[h], col[h].lastPing + 1)
  <2>1. col[h] \in Column /\ Below(col[h]) /\ col[h].lastPing < MaxSeq
    BY DEF IInv, TypeOK, Linked, Fail
  <2>2. col'[h] = ErrorRow(col[h])
    BY DEF Fail
  <2> QED BY <2>1, <2>2, ErrorRowTouches
<1>2. col' \in [Hosts -> Column] /\ \A h \in Hosts : Below(col[h])'
  <2>1. \A h \in Hosts : col'[h] \in Column
    BY <1>1 DEF Touched
  <2>2. col' = [h \in Hosts |-> col'[h]]
    BY DEF Fail
  <2> QED BY <1>1, <2>1, <2>2 DEF Touched, Below
<1>3. Linked' /\ R!StreamTypeOK'
  BY <1>2, GoneLinked
<1>4. TypeOK'
  BY <1>2, <1>3 DEF Fail, Gone, conn, IInv, TypeOK
<1>5. RowsFree'
  BY DEF Fail, RowsFree
<1> QED BY <1>3, <1>4, <1>5 DEF IInv

LEMMA RetryStep ==
  ASSUME IInv, Retry
  PROVE  IInv'
<1>1. backoff' \in 2 .. 30
  <2>1. 2 * backoff \in Nat /\ 2 * backoff >= 2 /\ 30 \in Nat
    BY DEF IInv, TypeOK
  <2> QED BY <2>1, MinOfTwo DEF Retry
<1>2. /\ pc = "backoff" /\ pc' = "idle"
      /\ UNCHANGED <<col, ip, forced, grid, sent, offset, pipe, event, open>>
  BY DEF Retry, local, remote
<1>3. TypeOK'
  BY <1>1, <1>2 DEF IInv, TypeOK, R!StreamTypeOK
<1>4. KnownLines' = KnownLines
  BY <1>2 DEF KnownLines, Known, Active
<1>5. Linked' /\ RowsFree'
  BY <1>2, <1>4 DEF IInv, Linked, RowsFree, Active
<1> QED BY <1>3, <1>5 DEF IInv

LEMMA QuitStep ==
  ASSUME IInv, Quit
  PROVE  IInv'
<1>1. Linked' /\ R!StreamTypeOK'
  BY GoneLinked DEF Quit, local, IInv, Linked, Below
<1>2. TypeOK' /\ RowsFree'
  BY <1>1 DEF Quit, Gone, local, conn, IInv, TypeOK, RowsFree
<1> QED BY <1>1, <1>2 DEF IInv

LEMMA BannerStep ==
  ASSUME IInv, ReadBanner
  PROVE  IInv'
<1>0. UNCHANGED <<col, ip, forced, grid, sent, offset, backoff>>
  BY DEF ReadBanner, local, conn
<1>1. CASE Head(pipe).kind = "json" \/ (Head(pipe).kind = "start" /\ Stale)
  <2>1. pc' \in {"crashed", "idle"} /\ Gone
    BY <1>1 DEF ReadBanner
  <2>2. Linked' /\ R!StreamTypeOK'
    BY <1>0, <2>1, GoneLinked DEF IInv, Linked, Below
  <2> QED BY <1>0, <2>1, <2>2, EmptySeq DEF Gone, IInv, TypeOK, RowsFree
<1>2. CASE ~ (Head(pipe).kind = "json" \/ (Head(pipe).kind = "start" /\ Stale))
  <2>1. pc = "read" /\ pipe # << >> /\ pipe' = Tail(pipe) /\ UNCHANGED <<pc, event, open>>
    BY <1>2 DEF ReadBanner, remote
  <2>2. KnownLines' = KnownLines
    BY <1>0, <2>1 DEF KnownLines, Known, Active
  <2>3. pipe' \in Seq(Line) /\ pipe' \in Seq(KnownLines)
    BY <2>1, HeadTailProperties DEF IInv, TypeOK, Linked
  <2>4. TypeOK'
    BY <1>0, <2>1, <2>3 DEF IInv, TypeOK, R!StreamTypeOK
  <2>5. Linked' /\ RowsFree'
    BY <1>0, <2>1, <2>2, <2>3 DEF IInv, Linked, RowsFree, Active
  <2> QED BY <2>4, <2>5 DEF IInv
<1> QED BY <1>1, <1>2

\* The column that gets the events of a key was sent under it.
LEMMA OwnerSent ==
  ASSUME NEW h \in Active
  PROVE  Owner(sent[h]) \in Active /\ sent[Owner(sent[h])] = sent[h]
<1> DEFINE S == {g \in Active : sent[g] = sent[h]}
<1>1. S \subseteq 0 .. NHosts /\ S # {} /\ NHosts \in Nat
  BY GroupAssumption DEF Active, Hosts
<1>2. Max(S) \in S
  BY <1>1, MaxOf
<1> QED BY <1>2 DEF Owner

\* What _apply_remote_event does to the column a line is for.
LEMMA EventTouches ==
  ASSUME IInv, pc = "read", pipe # << >>, IsEvent(Head(pipe))
  PROVE  LET m == Head(pipe)
             o == Owner(sent[m.h])
         IN  /\ m.h \in Active /\ o \in Active /\ sent[o] = sent[m.h]
             /\ m.s \in Rows /\ m.s + offset \in Rows
             /\ m.kind # "note" => event[m.h][m.s] # "none"
             /\ Touched(col[o], Apply(col[o], m), m.s + offset)
             /\ m.kind = "note" => Apply(col[o], m).ping = col[o].ping
<1> DEFINE m == Head(pipe)
           o == Owner(sent[m.h])
<1>1. m \in KnownLines /\ m \in Line
  BY HeadTailProperties DEF IInv, TypeOK, Linked
<1>2. /\ m.h \in Active /\ m.s + offset <= MaxSeq
      /\ m.kind # "note" => event[m.h][m.s] # "none"
      /\ m.h \in Hosts /\ m.s \in Rows /\ m.res \in Cell
  BY <1>1, EventLine DEF KnownLines, Known
<1>3. o \in Active /\ sent[o] = sent[m.h]
  BY <1>2, OwnerSent
<1>4. m.s + offset \in Rows
  BY <1>2, MaxSeqAssumption DEF IInv, TypeOK, Rows
<1>5. col[o] \in Column /\ Below(col[o])
  BY <1>3 DEF IInv, TypeOK, Linked, Active
<1> DEFINE s == m.s + offset
           c == col[o]
<1>6. CASE m.kind = "send"
  <2>1. Apply(c, m) = ApplySend(c, s)
    BY <1>6 DEF Apply
  <2> HIDE DEF m, o, s, c
  <2>2. Touched(c, ApplySend(c, s), s)
    BY <1>4, <1>5, SendTouches DEF s, c
  <2> QED BY <1>2, <1>3, <1>4, <1>6, <2>1, <2>2 DEF m, o, s, c
<1>7. CASE m.kind = "result"
  <2>1. Apply(c, m) = ApplyResult(c, s, m.res)
    BY <1>7 DEF Apply
  <2> HIDE DEF m, o, s, c
  <2>2. Touched(c, ApplyResult(c, s, m.res), s)
    BY <1>2, <1>4, <1>5, ResultTouches DEF s, c
  <2> QED BY <1>2, <1>3, <1>4, <1>7, <2>1, <2>2 DEF m, o, s, c
<1>8. CASE m.kind = "note"
  <2>1. Apply(c, m) = NoteRow(c, s)
    BY <1>8 DEF Apply
  <2> HIDE DEF m, o, s, c
  <2>2. Touched(c, NoteRow(c, s), s) /\ NoteRow(c, s).ping = c.ping
    BY <1>4, <1>5, NoteTouches DEF s, c
  <2> QED BY <1>2, <1>3, <1>4, <1>8, <2>1, <2>2 DEF m, o, s, c
<1> QED BY <1>6, <1>7, <1>8 DEF IsEvent

LEMMA ReadEventStep ==
  ASSUME IInv, ReadEvent
  PROVE  IInv'
<1> DEFINE m == Head(pipe)
           o == Owner(sent[m.h])
           d == Apply(col[o], m)
<1>0. /\ pc = "read" /\ pipe # << >> /\ IsEvent(m)
      /\ col' = [col EXCEPT ![o] = d]
      /\ backoff' = 2
      /\ UNCHANGED <<ip, forced, grid, sent, offset>>
  BY DEF ReadEvent, IsEvent, BackoffOnEvent, FirstBackoff
<1>1. /\ m.h \in Active /\ o \in Active /\ sent[o] = sent[m.h]
      /\ m.s \in Rows /\ m.s + offset \in Rows
      /\ m.kind # "note" => event[m.h][m.s] # "none"
      /\ Touched(col[o], d, m.s + offset)
      /\ m.kind = "note" => d.ping = col[o].ping
  BY <1>0, EventTouches
<1>2. o \in Hosts
  BY <1>1 DEF Active
<1> HIDE DEF o, d
<1>3. col' \in [Hosts -> Column] /\ \A h \in Hosts : Below(col[h])'
  <2>1. \A h \in Hosts : col'[h] = IF h = o THEN d ELSE col[h]
    BY <1>0 DEF IInv, TypeOK
  <2>2. d \in Column /\ Below(d)
    BY <1>1 DEF Touched
  <2>3. \A h \in Hosts : Below(col'[h])
    BY <2>1, <2>2 DEF IInv, Linked
  <2> QED BY <1>0, <1>2, <2>2, <2>3 DEF IInv, TypeOK, Below
<1>4. CASE Stale
  <2>1. pc' = "idle" /\ Gone
    BY <1>4 DEF ReadEvent
  <2>2. Linked' /\ R!StreamTypeOK'
    BY <1>3, <2>1, GoneLinked
  <2> QED BY <1>0, <1>3, <2>1, <2>2, EmptySeq DEF Gone, IInv, TypeOK, RowsFree
<1>5. CASE ~Stale
  <2>1. pipe' = Tail(pipe) /\ UNCHANGED <<pc, event, open>>
    BY <1>5 DEF ReadEvent, remote
  <2>2. KnownLines' = KnownLines
    BY <1>0, <2>1 DEF KnownLines, Known, Active
  <2>3. pipe' \in Seq(Line) /\ pipe' \in Seq(KnownLines)
    BY <1>0, <2>1, HeadTailProperties DEF IInv, TypeOK, Linked
  <2>4. TypeOK'
    BY <1>0, <1>3, <2>1, <2>3 DEF IInv, TypeOK, R!StreamTypeOK
  <2>5. Linked'
    BY <1>0, <1>3, <2>1, <2>2, <2>3 DEF IInv, Linked, Active
  <2>6. RowsFree'
    <3> SUFFICES ASSUME NEW h \in Hosts, NEW s \in Rows, s > offset,
                        col'[h].ping[s] # "none"
                 PROVE  \E g \in Active : sent[g] = sent[h] /\ event[g][s - offset] # "none"
      BY <1>0, <2>1 DEF RowsFree, Active
    <3>1. CASE col[h].ping[s] # "none"
      BY <1>0, <3>1 DEF IInv, RowsFree
    <3>2. CASE col[h].ping[s] = "none"
      <4>1. h = o /\ s = m.s + offset /\ m.kind # "note"
        BY <1>0, <1>1, <1>2, <3>2 DEF Touched, IInv, TypeOK
      <4>2. s - offset = m.s
        BY <4>1, <1>1 DEF IInv, TypeOK, Rows
      <4> QED BY <1>1, <4>1, <4>2
    <3> QED BY <3>1, <3>2
  <2> QED BY <2>4, <2>5, <2>6 DEF IInv
<1> QED BY <1>4, <1>5

\* Whatever the remote reports keeps what is known of the lines before.
LEMMA RemoteStep ==
  ASSUME IInv, pc = "read", UNCHANGED <<pc, local, conn>>,
         R!StreamTypeOK', pipe' \in Seq(Line), pipe' \in Seq(KnownLines'),
         \A h \in Hosts, s \in Rows :
           /\ event[h][s] # "none" => event'[h][s] # "none"
           /\ event'[h][s] # "none" => h \in Active /\ s + offset <= MaxSeq
  PROVE  IInv'
<1>1. UNCHANGED <<pc, col, ip, forced, grid, sent, offset, backoff>>
  BY DEF local, conn
<1>2. TypeOK'
  BY <1>1 DEF IInv, TypeOK
<1>3. Linked'
  BY <1>1 DEF IInv, Linked, Active
<1>4. RowsFree'
  <2> SUFFICES ASSUME NEW h \in Hosts, NEW s \in Rows, s > offset,
                      col[h].ping[s] # "none"
               PROVE  \E g \in Active : sent[g] = sent[h] /\ event'[g][s - offset] # "none"
    BY <1>1 DEF RowsFree, Active
  <2>1. PICK g \in Active : sent[g] = sent[h] /\ event[g][s - offset] # "none"
    BY DEF IInv, RowsFree
  <2>2. g \in Hosts /\ s - offset \in Rows
    BY MaxSeqAssumption DEF Active, Rows, IInv, TypeOK
  <2> QED BY <2>1, <2>2
<1> QED BY <1>2, <1>3, <1>4 DEF IInv

\* A row the remote reported stays reported, so a known line stays known.
LEMMA KnownStays ==
  ASSUME UNCHANGED conn,
         \A h \in Hosts, s \in Rows : event[h][s] # "none" => event'[h][s] # "none"
  PROVE  KnownLines \subseteq KnownLines'
<1> SUFFICES ASSUME NEW m \in Line, Known(m) PROVE Known(m)'
  BY DEF KnownLines
<1>1. sent' = sent /\ offset' = offset
  BY DEF conn
<1>2. IsEvent(m) => m.h \in Hosts /\ m.s \in Rows
  BY EventLine
<1> QED BY <1>1, <1>2 DEF Known, Active

\* A line is written to the pipe.
LEMMA EmitStep ==
  ASSUME IInv, NEW m \in Line, Known(m)', Emit(m), R!StreamTypeOK',
         \A h \in Hosts, s \in Rows :
           /\ event[h][s] # "none" => event'[h][s] # "none"
           /\ event'[h][s] # "none" => h \in Active /\ s + offset <= MaxSeq
  PROVE  IInv'
<1>1. pc = "read" /\ pipe' = Append(pipe, m) /\ UNCHANGED <<pc, local, conn>>
  BY DEF Emit
<1>2. pipe' \in Seq(Line)
  BY <1>1, AppendProperties DEF IInv, TypeOK
<1>3. m \in KnownLines' /\ KnownLines \subseteq KnownLines'
  BY <1>1, KnownStays DEF KnownLines
<1>4. pipe \in Seq(KnownLines')
  BY <1>3, SeqMonotonic DEF IInv, Linked
<1>5. pipe' \in Seq(KnownLines')
  BY <1>1, <1>3, <1>4, AppendProperties
<1> QED BY <1>1, <1>2, <1>5, RemoteStep

\* One row of one host has another report.
LEMMA ReportStep ==
  ASSUME IInv, NEW h \in Hosts, NEW s \in Rows, NEW e \in R!Report, e # "none",
         h \in Active, s + offset <= MaxSeq,
         event' = [event EXCEPT ![h][s] = e], UNCHANGED open
  PROVE  /\ R!StreamTypeOK'
         /\ event'[h][s] = e
         /\ \A g \in Hosts, r \in Rows :
              /\ event[g][r] # "none" => event'[g][r] # "none"
              /\ event'[g][r] # "none" => g \in Active /\ r + offset <= MaxSeq
<1>1. event \in [Hosts -> [Rows -> R!Report]] /\ open \in BOOLEAN
  BY DEF IInv, TypeOK, R!StreamTypeOK, R!Rows, Rows
<1>2. \A g \in Hosts, r \in Rows :
        event'[g][r] = IF g = h /\ r = s THEN e ELSE event[g][r]
  BY <1>1
<1>3. R!StreamTypeOK'
  BY <1>1 DEF R!StreamTypeOK, R!Rows, Rows
<1> QED BY <1>2, <1>3 DEF IInv, Linked

LEMMA RemoteReportStep ==
  ASSUME IInv, NEW h \in Hosts, NEW s \in Rows,
         RemoteSend(h, s) \/ \E res \in Results : RemoteResult(h, s, res)
  PROVE  IInv'
<1>1. CASE RemoteSend(h, s)
  <2>1. /\ h \in Active /\ s + offset <= MaxSeq /\ UNCHANGED open
        /\ event' = [event EXCEPT ![h][s] = "send"]
        /\ Emit(Message("send", h, s, "none"))
    BY <1>1 DEF RemoteSend, R!Send
  <2>2. "send" \in R!Report
    BY DEF R!Report
  <2>3. /\ R!StreamTypeOK'
        /\ event'[h][s] = "send"
        /\ \A g \in Hosts, r \in Rows :
             /\ event[g][r] # "none" => event'[g][r] # "none"
             /\ event'[g][r] # "none" => g \in Active /\ r + offset <= MaxSeq
    BY <2>1, <2>2, ReportStep
  <2>4. Message("send", h, s, "none") \in Line
    BY DEF Message, Line
  <2>5. Known(Message("send", h, s, "none"))'
    BY <2>1, <2>3 DEF Known, IsEvent, Message, Active, Emit, conn
  <2> QED BY <2>1, <2>3, <2>4, <2>5, EmitStep
<1>2. ASSUME NEW res \in Results, RemoteResult(h, s, res)
      PROVE  IInv'
  <2>1. /\ h \in Active /\ event[h][s] = "send" /\ UNCHANGED open
        /\ event' = [event EXCEPT ![h][s] = res]
        /\ Emit(Message("result", h, s, res))
    BY <1>2 DEF RemoteResult, R!Result
  <2>2. res \in R!Report /\ res # "none" /\ res \in Outcome
    BY GroupAssumption DEF R!Report, Outcome, LostPing, ErrorPing,
                           R!Outcome, R!LostPing, R!ErrorPing
  <2>3. s + offset <= MaxSeq
    BY <2>1 DEF IInv, Linked
  <2>4. /\ R!StreamTypeOK'
        /\ event'[h][s] = res
        /\ \A g \in Hosts, r \in Rows :
             /\ event[g][r] # "none" => event'[g][r] # "none"
             /\ event'[g][r] # "none" => g \in Active /\ r + offset <= MaxSeq
    BY <2>1, <2>2, <2>3, ReportStep
  <2>5. Message("result", h, s, res) \in Line
    BY <2>2 DEF Message, Line
  <2>6. Known(Message("result", h, s, res))'
    BY <2>1, <2>2, <2>3, <2>4 DEF Known, IsEvent, Message, Active, Emit, conn
  <2> QED BY <2>1, <2>4, <2>5, <2>6, EmitStep
<1> QED BY <1>1, <1>2

\* A note and a foreign line say nothing of a row.
LEMMA RemoteTalkStep ==
  ASSUME IInv, NEW m \in Line, Known(m), Emit(m), UNCHANGED remote
  PROVE  IInv'
<1>1. UNCHANGED <<event, open, sent, offset>>
  BY DEF remote, Emit, conn
<1>2. R!StreamTypeOK'
  BY <1>1 DEF IInv, TypeOK, R!StreamTypeOK
<1>3. Known(m)'
  BY <1>1 DEF Known, Active
<1> QED BY <1>1, <1>2, <1>3, EmitStep DEF IInv, Linked

LEMMA RemoteNoteStep ==
  ASSUME IInv, NEW h \in Hosts, NEW s \in Rows, RemoteNote(h, s)
  PROVE  IInv'
<1>1. Message("note", h, s, "none") \in Line
  BY DEF Message, Line
<1>2. Known(Message("note", h, s, "none"))
  BY DEF RemoteNote, Known, Message
<1> QED BY <1>1, <1>2, RemoteTalkStep DEF RemoteNote

LEMMA RemoteBannerStep ==
  ASSUME IInv, NEW kind \in Banner, RemoteBanner(kind)
  PROVE  IInv'
<1>1. [kind |-> kind] \in Line /\ kind \notin {"send", "result", "note"}
  BY GroupAssumption DEF Line
<1>2. Known([kind |-> kind])
  BY <1>1 DEF Known, IsEvent
<1> QED BY <1>1, <1>2, RemoteTalkStep DEF RemoteBanner

LEMMA RemoteDiesStep ==
  ASSUME IInv, RemoteDies
  PROVE  IInv'
<1>1. /\ pc = "read" /\ open' = FALSE /\ UNCHANGED <<pc, local, conn, event>>
  BY DEF RemoteDies
<1>2. PICK n \in 0 .. Len(pipe) : pipe' = SubSeq(pipe, 1, n)
  BY DEF RemoteDies
<1>3. pipe \in Seq(Line) /\ pipe \in Seq(KnownLines)
  BY DEF IInv, TypeOK, Linked
<1>4. ASSUME NEW S, pipe \in Seq(S) PROVE pipe' \in Seq(S)
  <2>1. Len(pipe) \in Nat
    BY <1>3
  <2>2. \A i \in 1 .. n : pipe[i] \in S
    BY <1>4, <2>1
  <2>3. pipe' = [i \in 1 .. n |-> pipe[i]]
    BY <1>2, <1>3, <2>1, SubSeqProperties
  <2>4. pipe' \in [1 .. n -> S]
    BY <2>2, <2>3
  <2> QED BY <2>1, <2>4
<1>5. KnownLines' = KnownLines
  BY <1>1 DEF KnownLines, Known, Active, conn
<1>6. pipe' \in Seq(Line) /\ pipe' \in Seq(KnownLines')
  BY <1>3, <1>4, <1>5
<1>7. R!StreamTypeOK'
  BY <1>1 DEF IInv, TypeOK, R!StreamTypeOK
<1> QED BY <1>1, <1>6, <1>7, RemoteStep DEF IInv, Linked

LEMMA RemoteAbortsStep ==
  ASSUME IInv, RemoteAborts
  PROVE  IInv'
<1> DEFINE MsgOf(p) == Message("result", p[1], p[2], "pending")
           M == {MsgOf(p) : p \in OnTheWay}
<1>1. /\ pc = "read" /\ UNCHANGED <<pc, local, conn>> /\ open' = FALSE
      /\ event' = [h \in Hosts |-> [s \in Rows |-> R!Cancelled(event[h][s])]]
      /\ pipe' = pipe \o SetToSeq(M)
  BY DEF RemoteAborts, R!Close, R!Rows, Rows
<1>2. event \in [Hosts -> [Rows -> R!Report]]
  BY DEF IInv, TypeOK, R!StreamTypeOK, R!Rows, Rows
<1>3. \A h \in Hosts, s \in Rows :
        event'[h][s] = IF event[h][s] = "send" THEN "pending" ELSE event[h][s]
  BY <1>1 DEF R!Cancelled
<1>4. R!StreamTypeOK'
  <2>1. "pending" \in R!Report
    BY DEF R!Report
  <2>2. \A h \in Hosts, s \in Rows : event'[h][s] \in R!Report
    BY <1>2, <1>3, <2>1
  <2>3. event' \in [Hosts -> [Rows -> R!Report]]
    BY <1>1, <2>2
  <2> QED BY <1>1, <2>3 DEF R!StreamTypeOK, R!Rows, Rows
<1>5. \A h \in Hosts, s \in Rows :
        /\ event[h][s] # "none" => event'[h][s] # "none"
        /\ event'[h][s] # "none" => h \in Active /\ s + offset <= MaxSeq
  BY <1>3 DEF IInv, Linked
<1>6. M \subseteq Line /\ M \subseteq KnownLines'
  <2> SUFFICES ASSUME NEW p \in OnTheWay
               PROVE  MsgOf(p) \in Line /\ Known(MsgOf(p))'
    BY DEF KnownLines
  <2>1. p[1] \in Hosts /\ p[2] \in Rows /\ event[p[1]][p[2]] = "send"
    BY DEF OnTheWay
  <2>2. MsgOf(p) \in Line
    BY <2>1 DEF Message, Line
  <2>3. p[1] \in Active' /\ p[2] + offset' <= MaxSeq
    BY <1>1, <2>1 DEF conn, Active, IInv, Linked
  <2>4. event'[p[1]][p[2]] # "none"
    BY <1>3, <2>1
  <2>5. Known(MsgOf(p))'
    BY <2>3, <2>4 DEF Known, Message
  <2> QED BY <2>2, <2>5
<1>7. IsFiniteSet(M)
  <2> DEFINE f == [p \in OnTheWay |-> MsgOf(p)]
  <2>1. IsFiniteSet(Hosts) /\ IsFiniteSet(Rows)
    BY FS_Interval, GroupAssumption, MaxSeqAssumption DEF Hosts, Rows
  <2>2. IsFiniteSet(OnTheWay)
    BY <2>1, FS_Product, FS_Subset DEF OnTheWay
  <2>3. f \in Surjection(OnTheWay, M)
    BY DEF Surjection
  <2> HIDE DEF f, M
  <2> QED BY <2>2, <2>3, FS_Surjection
<1>8. SetToSeq(M) \in Seq(M)
  BY <1>7, SetToSeqElements
<1>9. SetToSeq(M) \in Seq(Line) /\ SetToSeq(M) \in Seq(KnownLines')
  BY <1>6, <1>8, SeqMonotonic
<1> HIDE DEF M
<1>10. pipe \in Seq(Line) /\ pipe \in Seq(KnownLines')
  BY <1>1, <1>5, KnownStays, SeqMonotonic DEF IInv, TypeOK, Linked
<1>11. pipe' \in Seq(Line) /\ pipe' \in Seq(KnownLines')
  BY <1>1, <1>9, <1>10, ConcatProperties
<1> QED BY <1>1, <1>4, <1>5, <1>11, RemoteStep

LEMMA NextIInv == IInv /\ [Next]_vars => IInv'
<1> SUFFICES ASSUME IInv, [Next]_vars PROVE IInv'
  OBVIOUS
<1>1. CASE \E h \in Hosts, a \in Address : Translate(h, a)
  BY <1>1, TranslateStep
<1>2. CASE ForceResolve \/ GridTick \/ UNCHANGED vars
  BY <1>2, SharedStep
<1>3. CASE Compose \/ Spawn \/ ReadEvent \/ ReadBanner \/ Retry \/ Quit
  BY <1>3, ComposeStep, SpawnStep, ReadEventStep, BannerStep, RetryStep, QuitStep
<1>4. CASE SpawnFails \/ Eof
  BY <1>4, FailStep DEF SpawnFails, Eof
<1>5. ASSUME NEW h \in Hosts, NEW s \in Rows,
             \/ RemoteSend(h, s)
             \/ \E res \in Results : RemoteResult(h, s, res)
             \/ RemoteNote(h, s)
      PROVE  IInv'
  BY <1>5, RemoteReportStep, RemoteNoteStep
<1>6. CASE \E kind \in Banner : RemoteBanner(kind)
  BY <1>6, RemoteBannerStep
<1>7. CASE RemoteAborts \/ RemoteDies
  BY <1>7, RemoteAbortsStep, RemoteDiesStep
<1> QED BY <1>1, <1>2, <1>3, <1>4, <1>5, <1>6, <1>7 DEF Next

LEMMA AlwaysIInv == Spec => []IInv
BY InitIInv, NextIInv, PTL DEF Spec

-----------------------------------------------------------------------------
(* The theorems *)

\* The variables of the feeder keep their types, whatever the transport, the
\* remote and the local columns do.
THEOREM TypeCorrect == Spec => []TypeOK
<1>1. IInv => TypeOK
  BY DEF IInv
<1> QED BY <1>1, AlwaysIInv, PTL

\* Every connection writes to rows that no earlier one used, in every column.
THEOREM RowsStayFree == Spec => []RowsFree
<1>1. IInv => RowsFree
  BY DEF IInv
<1> QED BY <1>1, AlwaysIInv, PTL

\* What an event and an error row do to the columns.
LEMMA ColumnsStep ==
  ASSUME IInv, [Next]_vars
  PROVE  \/ UNCHANGED col
         \/ /\ \A h \in Hosts : col[h].lastPing < MaxSeq
            /\ col' = [h \in Hosts |-> ErrorRow(col[h])]
         \/ /\ pc = "read" /\ pipe # << >> /\ IsEvent(Head(pipe))
            /\ col' = [col EXCEPT ![Owner(sent[Head(pipe).h])] = Apply(@, Head(pipe))]
<1>1. CASE ReadEvent
  BY <1>1 DEF ReadEvent, IsEvent
<1>2. CASE SpawnFails \/ Eof
  BY <1>2 DEF SpawnFails, Eof, Fail
<1>3. CASE Compose \/ Spawn \/ ReadBanner \/ Retry \/ Quit \/ RemoteAborts \/ RemoteDies
  BY <1>3 DEF Compose, Spawn, ReadBanner, Retry, Quit, RemoteAborts, RemoteDies, local
<1>4. ASSUME NEW h \in Hosts, NEW s \in Rows,
             \/ RemoteSend(h, s)
             \/ \E res \in Results : RemoteResult(h, s, res)
             \/ RemoteNote(h, s)
      PROVE  UNCHANGED col
  BY <1>4 DEF RemoteSend, RemoteResult, RemoteNote, Emit, local
<1>5. CASE \/ \E kind \in Banner : RemoteBanner(kind)
           \/ \E h \in Hosts, a \in Address : Translate(h, a)
           \/ ForceResolve \/ GridTick \/ UNCHANGED vars
  BY <1>5 DEF RemoteBanner, Emit, Translate, ForceResolve, GridTick, vars, local
<1> QED BY <1>1, <1>2, <1>3, <1>4, <1>5 DEF Next

LEMMA AnswerStays ==
  ASSUME IInv, [Next]_vars, NEW h \in Hosts, NEW s \in Rows, col[h].ping[s] \in Outcome
  PROVE  col'[h].ping[s] = col[h].ping[s]
<1>1. CASE /\ \A g \in Hosts : col[g].lastPing < MaxSeq
           /\ col' = [g \in Hosts |-> ErrorRow(col[g])]
  <2>1. col[h] \in Column /\ Below(col[h]) /\ col[h].lastPing < MaxSeq
    BY <1>1 DEF IInv, TypeOK, Linked
  <2>2. Touched(col[h], ErrorRow(col[h]), col[h].lastPing + 1)
    BY <2>1, ErrorRowTouches
  <2>3. s # col[h].lastPing + 1
    BY <2>1 DEF Below, Column, Rows, Outcome, LostPing, ErrorPing
  <2> QED BY <1>1, <2>2, <2>3 DEF Touched
<1>2. CASE /\ pc = "read" /\ pipe # << >> /\ IsEvent(Head(pipe))
           /\ col' = [col EXCEPT ![Owner(sent[Head(pipe).h])] = Apply(@, Head(pipe))]
  <2> DEFINE m == Head(pipe)
             o == Owner(sent[m.h])
             d == Apply(col[o], m)
  <2>1. o \in Active /\ Touched(col[o], d, m.s + offset)
    BY <1>2, EventTouches
  <2>2. col'[h] = IF h = o THEN d ELSE col[h]
    BY <1>2 DEF IInv, TypeOK
  <2> HIDE DEF d
  <2> QED BY <2>1, <2>2 DEF Touched
<1> QED BY <1>1, <1>2, ColumnsStep

\* An answer in the table is never overwritten nor removed: not by another
\* connection, not by a line that comes twice, not by an error row.
THEOREM AnswersKept == Spec => AnswersStay
<1>1. IInv /\ [Next]_vars =>
        [\A h \in Hosts, s \in Rows :
           col[h].ping[s] \in Outcome => col'[h].ping[s] = col[h].ping[s]]_vars
  BY AnswerStays
<1> QED BY <1>1, AlwaysIInv, PTL DEF Spec, AnswersStay

-----------------------------------------------------------------------------
(* The statistics *)

\* As long as no remote is torn down, a result is an outcome.
FinalLines == {m \in Line : m.kind = "result" => m.res \in Outcome}

SInv == ColumnsConsistent /\ pipe \in Seq(FinalLines)

LEMMA ErrorRowConsistent ==
  ASSUME NEW c \in Column, Consistent(c), c.lastPing < MaxSeq
  PROVE  Consistent(ErrorRow(c))
<1> DEFINE s == c.lastPing + 1
           d == Add(c, s)
<1>1. s \in Rows /\ c.ping[s] = "none"
  BY MaxSeqAssumption DEF Column, Rows, Consistent
<1>2. d \in Column /\ Consistent(d)
  BY <1>1, AddColumn, AddConsistent
<1>3. d.ping[s] = "pending"
  BY <1>1 DEF Add, Column
<1>4. ErrorRow(c) = Resolve(d, s, "detailed")
  BY DEF ErrorRow
<1>5. "detailed" \in Outcome
  BY DEF Outcome, LostPing, ErrorPing
<1> HIDE DEF d, s
<1> QED BY <1>1, <1>2, <1>3, <1>4, <1>5, ResolveConsistent

LEMMA SendConsistent ==
  ASSUME NEW c \in Column, Consistent(c), NEW s \in Rows
  PROVE  ApplySend(c, s) \in Column /\ Consistent(ApplySend(c, s))
BY AddColumn, AddConsistent DEF ApplySend

LEMMA ResultConsistent ==
  ASSUME NEW c \in Column, Consistent(c), NEW s \in Rows, NEW res \in Outcome
  PROVE  Consistent(ApplyResult(c, s, res))
<1> DEFINE p == ApplySend(c, s)
<1>1. p \in Column /\ Consistent(p)
  BY SendConsistent
<1>2. ApplyResult(c, s, res) = IF p.ping[s] = "pending" THEN Resolve(p, s, res) ELSE p
  BY DEF ApplyResult
<1> HIDE DEF p
<1> QED BY <1>1, <1>2, ResolveConsistent

LEMMA ApplyConsistent ==
  ASSUME NEW c \in Column, Consistent(c), NEW m \in FinalLines, IsEvent(m),
         m.s + offset \in Rows
  PROVE  Consistent(Apply(c, m))
<1> DEFINE s == m.s + offset
<1>1. CASE m.kind = "send"
  <2>1. Apply(c, m) = ApplySend(c, s)
    BY <1>1 DEF Apply
  <2> HIDE DEF s
  <2> QED BY <2>1, SendConsistent DEF s
<1>2. CASE m.kind = "result"
  <2>1. Apply(c, m) = ApplyResult(c, s, m.res) /\ m.res \in Outcome
    BY <1>2 DEF Apply, FinalLines
  <2> HIDE DEF s
  <2> QED BY <2>1, ResultConsistent DEF s
<1>3. CASE m.kind = "note"
  <2>1. Apply(c, m) = NoteRow(c, s)
    BY <1>3 DEF Apply
  <2> HIDE DEF s
  <2> QED BY <2>1, NoteRowConsistent DEF s
<1> QED BY <1>1, <1>2, <1>3 DEF IsEvent

LEMMA ColumnsStayConsistent ==
  ASSUME IInv, SInv, [Next]_vars
  PROVE  ColumnsConsistent'
<1> SUFFICES ASSUME NEW h \in Hosts PROVE Consistent(col'[h])
  BY DEF ColumnsConsistent, Consistent, RowsWith
<1>0. col[h] \in Column /\ Consistent(col[h])
  BY DEF IInv, TypeOK, SInv, ColumnsConsistent
<1>1. CASE /\ \A g \in Hosts : col[g].lastPing < MaxSeq
           /\ col' = [g \in Hosts |-> ErrorRow(col[g])]
  <2>1. col'[h] = ErrorRow(col[h]) /\ col[h].lastPing < MaxSeq
    BY <1>1
  <2> QED BY <1>0, <2>1, ErrorRowConsistent
<1>2. CASE /\ pc = "read" /\ pipe # << >> /\ IsEvent(Head(pipe))
           /\ col' = [col EXCEPT ![Owner(sent[Head(pipe).h])] = Apply(@, Head(pipe))]
  <2> DEFINE m == Head(pipe)
             o == Owner(sent[m.h])
  <2>1. m.s + offset \in Rows /\ o \in Active
    BY <1>2, EventTouches
  <2>2. m \in FinalLines
    BY <1>2, HeadTailProperties DEF SInv
  <2>3. col'[h] = IF h = o THEN Apply(col[h], m) ELSE col[h]
    BY <1>2 DEF IInv, TypeOK
  <2> HIDE DEF o, m
  <2>4. IsEvent(m)
    BY <1>2 DEF m
  <2>5. Consistent(Apply(col[h], m))
    BY <1>0, <2>1, <2>2, <2>4, ApplyConsistent
  <2> QED BY <1>0, <2>3, <2>5
<1>3. CASE UNCHANGED col
  BY <1>0, <1>3
<1> QED BY <1>1, <1>2, <1>3, ColumnsStep

\* The lines that are written are final, and none is changed on its way.
LEMMA LinesStayFinal ==
  ASSUME Aborts = FALSE, IInv, SInv, [Next]_vars
  PROVE  pipe' \in Seq(FinalLines)
<1>0. pipe \in Seq(FinalLines)
  BY DEF SInv
<1>1. CASE UNCHANGED pipe \/ pipe' = << >>
  BY <1>0, <1>1, EmptySeq
<1>2. CASE pipe # << >> /\ pipe' = Tail(pipe)
  BY <1>0, <1>2, HeadTailProperties
<1>3. CASE RemoteDies
  <2>1. PICK n \in 0 .. Len(pipe) : pipe' = SubSeq(pipe, 1, n)
    BY <1>3 DEF RemoteDies
  <2>2. Len(pipe) \in Nat /\ \A i \in 1 .. n : pipe[i] \in FinalLines
    BY <1>0
  <2>3. pipe' = [i \in 1 .. n |-> pipe[i]]
    BY <1>0, <2>1, <2>2, SubSeqProperties
  <2>4. pipe' \in [1 .. n -> FinalLines]
    BY <2>2, <2>3
  <2> QED BY <2>4
<1>4. ASSUME NEW m \in FinalLines, Emit(m)
      PROVE  pipe' \in Seq(FinalLines)
  BY <1>0, <1>4, AppendProperties DEF Emit
<1>5. ASSUME NEW h \in Hosts, NEW s \in Rows,
             \/ RemoteSend(h, s)
             \/ \E res \in Results : RemoteResult(h, s, res)
             \/ RemoteNote(h, s)
      PROVE  pipe' \in Seq(FinalLines)
  <2>1. /\ Message("send", h, s, "none") \in FinalLines
        /\ Message("note", h, s, "none") \in FinalLines
    BY DEF Message, FinalLines, Line
  <2>2. \A res \in Results : Message("result", h, s, res) \in FinalLines
    BY GroupAssumption DEF Message, FinalLines, Line
  <2> QED BY <1>4, <1>5, <2>1, <2>2 DEF RemoteSend, RemoteResult, RemoteNote
<1>6. ASSUME NEW kind \in Banner, RemoteBanner(kind)
      PROVE  pipe' \in Seq(FinalLines)
  <2>1. [kind |-> kind] \in FinalLines
    BY GroupAssumption DEF FinalLines, Line
  <2> QED BY <1>4, <1>6, <2>1 DEF RemoteBanner
<1>7. CASE \E h \in Hosts, a \in Address : Translate(h, a)
  BY <1>1, <1>7 DEF Translate
<1>8. CASE Compose \/ Spawn \/ SpawnFails \/ Eof \/ Retry \/ Quit
           \/ ForceResolve \/ GridTick \/ UNCHANGED vars
  BY <1>1, <1>8 DEF Compose, Spawn, SpawnFails, Eof, Retry, Quit, ForceResolve,
                    GridTick, Gone, vars
<1>9. CASE ReadEvent \/ ReadBanner
  BY <1>1, <1>2, <1>9 DEF ReadEvent, ReadBanner, Gone
<1>10. CASE RemoteAborts
  BY <1>10 DEF RemoteAborts
<1> QED BY <1>3, <1>5, <1>6, <1>7, <1>8, <1>9, <1>10 DEF Next

LEMMA InitSInv == Init => SInv
BY EmptyConsistent, EmptySeq DEF Init, SInv, ColumnsConsistent

LEMMA ConsistentColumnAddsUp ==
  ASSUME ColumnsConsistent PROVE StatisticsAddUp
BY DEF ColumnsConsistent, Consistent, StatisticsAddUp

\* Over reconnections, error rows, lines that come twice and lines that are
\* lost, the statistics of every column say what its cells say, unless an
\* exception tears the remote event loop down.
THEOREM StatisticsExact ==
  ASSUME Aborts = FALSE
  PROVE  Spec => []ColumnsConsistent /\ []StatisticsAddUp
<1>1. Init => SInv
  BY InitSInv
<1>2. IInv /\ SInv /\ [Next]_vars => SInv'
  BY ColumnsStayConsistent, LinesStayFinal DEF SInv
<1>3. SInv => ColumnsConsistent /\ StatisticsAddUp
  BY ConsistentColumnAddsUp DEF SInv
<1> QED BY <1>1, <1>2, <1>3, AlwaysIInv, PTL DEF Spec

-----------------------------------------------------------------------------
(* The sums, also when a remote is torn down.  It reports the pings on the  *)
(* way as pending, and Host.resolve counts them as lost: their cells look   *)
(* as if an answer could still come.  It must not, or the ping is counted   *)
(* again.                                                                   *)

IsReport(m, h, s) == m.kind = "result" /\ m.h = h /\ m.s = s

NoReport(q, h, s) == \A i \in 1 .. Len(q) : ~IsReport(q[i], h, s)

\* A ping is reported once.
ReportedOnce(q) ==
  \A i, j \in 1 .. Len(q), h \in Hosts, s \in Rows :
    IsReport(q[i], h, s) /\ IsReport(q[j], h, s) => i = j

Balanced(c) == /\ c.inflight \subseteq RowsWith(c, {"pending"})
               /\ c.sent = c.recv + c.lost + Cardinality(c.inflight)

\* A cell that is pending and no longer on the way.
Ended(c, s) == c.ping[s] = "pending" /\ s \notin c.inflight

\* No two columns have one key.
KeysDiffer ==
  /\ \A g, h \in Active : sent[g] = sent[h] => g = h
  /\ \A g \in AtHosts, h \in Hosts :
       ip[g] # NoKey => ip[g] # RemoteSpec[h] /\ (h \in AtHosts /\ ip[g] = ip[h] => g = h)

ReportsLinked ==
  /\ ReportedOnce(pipe)
  /\ \A h \in Hosts, s \in Rows : event[h][s] \in {"none", "send"} => NoReport(pipe, h, s)
  /\ pc = "read" => \A h \in Active, s \in Rows :
       s + offset <= MaxSeq /\ Ended(col[h], s + offset) =>
         NoReport(pipe, h, s) /\ event[h][s] \notin {"none", "send"}

BInv == (\A h \in Hosts : Balanced(col[h])) /\ KeysDiffer /\ ReportsLinked

LEMMA InflightFinite ==
  ASSUME NEW c \in Column
  PROVE  IsFiniteSet(c.inflight) /\ Cardinality(c.inflight) \in Nat
<1>1. IsFiniteSet(Rows)
  BY FS_Interval, MaxSeqAssumption DEF Rows
<1>2. c.inflight \subseteq Rows
  BY DEF Column
<1> QED BY <1>1, <1>2, FS_Subset, FS_CardinalityType

LEMMA AddBalanced ==
  ASSUME NEW c \in Column, Balanced(c), NEW s \in Rows, c.ping[s] = "none"
  PROVE  /\ Balanced(Add(c, s))
         /\ ~Ended(Add(c, s), s)
         /\ \A r \in Rows : r # s => (Ended(Add(c, s), r) <=> Ended(c, r))
<1> DEFINE d == Add(c, s)
<1>1. /\ d.inflight = c.inflight \cup {s} /\ d.sent = c.sent + 1
      /\ d.recv = c.recv /\ d.lost = c.lost
      /\ \A r \in Rows : d.ping[r] = IF r = s THEN "pending" ELSE c.ping[r]
  BY DEF Add, Column
<1> HIDE DEF d
<1>2. s \notin c.inflight
  BY DEF Balanced, RowsWith
<1>3. Cardinality(d.inflight) = Cardinality(c.inflight) + 1
  BY <1>1, <1>2, InflightFinite, FS_AddElement
<1>4. d.sent = d.recv + d.lost + Cardinality(d.inflight)
  BY <1>1, <1>3, InflightFinite DEF Balanced, Column
<1>5. d.inflight \subseteq RowsWith(d, {"pending"})
  BY <1>1 DEF Balanced, RowsWith
<1> QED BY <1>1, <1>4, <1>5 DEF Balanced, Ended, d

LEMMA ResolveBalanced ==
  ASSUME NEW c \in Column, Balanced(c), NEW s \in Rows, s \in c.inflight, NEW res \in Cell
  PROVE  /\ Balanced(Resolve(c, s, res))
         /\ \A r \in Rows : r # s => (Ended(Resolve(c, s, res), r) <=> Ended(c, r))
<1> DEFINE d == Resolve(c, s, res)
<1>1. /\ d.inflight = c.inflight \ {s} /\ d.sent = c.sent
      /\ d.recv = c.recv + One(res = "ok") /\ d.lost = c.lost + One(res # "ok")
      /\ \A r \in Rows : d.ping[r] = IF r = s THEN res ELSE c.ping[r]
  BY DEF Resolve, Column
<1> HIDE DEF d
<1>2. Cardinality(d.inflight) = Cardinality(c.inflight) - 1
  BY <1>1, InflightFinite, FS_RemoveElement
<1>3. One(res = "ok") + One(res # "ok") = 1 /\ One(res = "ok") \in Nat /\ One(res # "ok") \in Nat
  BY DEF One
<1>4. c.sent \in Nat /\ c.recv \in Nat /\ c.lost \in Nat
  BY DEF Column
<1>5. d.sent = d.recv + d.lost + Cardinality(d.inflight)
  BY <1>1, <1>2, <1>3, <1>4, InflightFinite DEF Balanced
<1>6. d.inflight \subseteq RowsWith(d, {"pending"})
  BY <1>1 DEF Balanced, RowsWith
<1> QED BY <1>1, <1>5, <1>6 DEF Balanced, Ended, d

LEMMA ErrorRowBalanced ==
  ASSUME NEW c \in Column, Below(c), Balanced(c), c.lastPing < MaxSeq
  PROVE  Balanced(ErrorRow(c))
<1> DEFINE s == c.lastPing + 1
           d == Add(c, s)
<1>1. s \in Rows /\ c.ping[s] = "none"
  BY MaxSeqAssumption DEF Column, Rows, Below
<1>2. Balanced(d) /\ d \in Column /\ s \in d.inflight
  <2>1. Balanced(d) /\ d \in Column
    BY <1>1, AddBalanced, AddColumn
  <2>2. d.inflight = c.inflight \cup {s}
    BY DEF Add, Column
  <2> QED BY <2>1, <2>2
<1>3. "detailed" \in Cell
  BY DEF Cell, Outcome, LostPing, ErrorPing
<1>4. ErrorRow(c) = Resolve(d, s, "detailed")
  BY DEF ErrorRow
<1> HIDE DEF d, s
<1> QED BY <1>1, <1>2, <1>3, <1>4, ResolveBalanced

\* What a line does to the column it is for: a result that is not of an ended
\* cell keeps the balance, and only a result ends a cell.
LEMMA ApplyBalanced ==
  ASSUME NEW c \in Column, Balanced(c), NEW m \in Line, IsEvent(m),
         m.s + offset \in Rows,
         m.kind = "result" => ~Ended(c, m.s + offset)
  PROVE  LET d == Apply(c, m)
         IN  /\ Balanced(d)
             /\ \A r \in Rows : r # m.s + offset => (Ended(d, r) <=> Ended(c, r))
             /\ m.kind # "result" /\ Ended(d, m.s + offset) => Ended(c, m.s + offset)
<1> DEFINE s == m.s + offset
           p == ApplySend(c, s)
<1>0. s \in Rows /\ m.res \in Cell
  BY EventLine
<1> HIDE DEF s
<1>1. /\ p \in Column /\ Balanced(p)
      /\ \A r \in Rows : r # s => (Ended(p, r) <=> Ended(c, r))
      /\ Ended(p, s) => Ended(c, s)
  <2>1. CASE c.ping[s] = "none"
    BY <1>0, <2>1, AddBalanced, AddColumn DEF ApplySend
  <2>2. CASE c.ping[s] # "none"
    BY <1>0, <2>2 DEF ApplySend
  <2> QED BY <2>1, <2>2
<1>2. CASE m.kind = "send"
  <2>1. Apply(c, m) = p
    BY <1>2 DEF Apply, s
  <2> HIDE DEF p
  <2> QED BY <1>1, <2>1 DEF s
<1>3. CASE m.kind = "result"
  <2>1. Apply(c, m) = IF p.ping[s] = "pending" THEN Resolve(p, s, m.res) ELSE p
    BY <1>3 DEF Apply, ApplyResult, s
  <2>2. ~Ended(p, s)
    BY <1>1, <1>3 DEF s
  <2> HIDE DEF p
  <2>3. CASE p.ping[s] = "pending"
    <3>1. s \in p.inflight
      BY <2>2, <2>3 DEF Ended
    <3>2. /\ Balanced(Resolve(p, s, m.res))
          /\ \A r \in Rows : r # s => (Ended(Resolve(p, s, m.res), r) <=> Ended(p, r))
      BY <1>0, <1>1, <3>1, ResolveBalanced
    <3> QED BY <1>1, <1>3, <2>1, <2>3, <3>2 DEF s
  <2>4. CASE p.ping[s] # "pending"
    BY <1>1, <1>3, <2>1, <2>4 DEF s
  <2> QED BY <2>3, <2>4
<1>4. CASE m.kind = "note"
  <2>1. Apply(c, m) = NoteRow(c, s)
    BY <1>4 DEF Apply, s
  <2>2. /\ NoteRow(c, s).ping = c.ping /\ NoteRow(c, s).inflight = c.inflight
        /\ NoteRow(c, s).sent = c.sent /\ NoteRow(c, s).recv = c.recv
        /\ NoteRow(c, s).lost = c.lost
    BY DEF NoteRow, Column
  <2> QED BY <2>1, <2>2 DEF Balanced, Ended, RowsWith
<1> QED BY <1>2, <1>3, <1>4 DEF IsEvent

-----------------------------------------------------------------------------
(* The steps keep the balance *)

\* The columns of the group are pinged under different addresses.
DifferentTargets ==
  /\ Collide = FALSE
  /\ \A g, h \in Hosts \ AtHosts : RemoteSpec[g] = RemoteSpec[h] => g = h

LEMMA KeysStep ==
  ASSUME DifferentTargets, IInv, KeysDiffer, [Next]_vars
  PROVE  KeysDiffer'
<1>1. ASSUME NEW h \in Hosts, NEW a \in Address, Translate(h, a)
      PROVE  KeysDiffer'
  <2>1. /\ ip' = [ip EXCEPT ![h] = a] /\ sent' = sent
        /\ \A g \in Hosts : a # ip[g] /\ a # RemoteSpec[g]
    BY <1>1 DEF Translate, conn, DifferentTargets
  <2>2. \A g \in Hosts : ip'[g] = IF g = h THEN a ELSE ip[g]
    BY <2>1 DEF IInv, TypeOK
  <2> QED BY <2>1, <2>2, GroupAssumption DEF KeysDiffer, Active, Hosts
<1>2. CASE Compose
  <2>1. ip' = ip /\ \A h \in Hosts : sent'[h] = KeyOf(h)
    BY <1>2 DEF Compose
  <2>2. ASSUME NEW g \in Hosts, NEW h \in Hosts, KeyOf(g) # NoKey, KeyOf(g) = KeyOf(h)
        PROVE  g = h
    BY <2>2 DEF KeyOf, KeysDiffer, DifferentTargets
  <2> QED BY <2>1, <2>2 DEF KeysDiffer, Active
<1>3. ASSUME UNCHANGED <<ip, sent>> PROVE KeysDiffer'
  BY <1>3 DEF KeysDiffer, Active
<1>4. CASE Spawn \/ SpawnFails \/ ReadEvent \/ ReadBanner \/ Eof \/ Retry \/ Quit
           \/ RemoteAborts \/ RemoteDies
  BY <1>3, <1>4 DEF Spawn, SpawnFails, Fail, ReadEvent, ReadBanner, Eof, Retry, Quit,
                    RemoteAborts, RemoteDies, local, conn
<1>5. ASSUME NEW h \in Hosts, NEW s \in Rows,
             \/ RemoteSend(h, s)
             \/ \E res \in Results : RemoteResult(h, s, res)
             \/ RemoteNote(h, s)
      PROVE  KeysDiffer'
  BY <1>3, <1>5 DEF RemoteSend, RemoteResult, RemoteNote, Emit, local, conn
<1>6. CASE \/ \E kind \in Banner : RemoteBanner(kind)
           \/ ForceResolve \/ GridTick \/ UNCHANGED vars
  BY <1>3, <1>6 DEF RemoteBanner, Emit, ForceResolve, GridTick, vars, local, conn
<1> QED BY <1>1, <1>2, <1>4, <1>5, <1>6 DEF Next

\* Every column keeps its own events.
LEMMA OwnEvents ==
  ASSUME KeysDiffer, NEW h \in Active
  PROVE  Owner(sent[h]) = h
BY OwnerSent DEF KeysDiffer

LEMMA LineReported ==
  ASSUME IInv, ReportsLinked, pipe # << >>
  PROVE  LET m == Head(pipe)
         IN  /\ m = pipe[1] /\ 1 \in 1 .. Len(pipe)
             /\ m.kind = "result" => NoReport(Tail(pipe), m.h, m.s)
             /\ \A h \in Hosts, s \in Rows :
                  NoReport(pipe, h, s) => NoReport(Tail(pipe), h, s)
             /\ ReportedOnce(Tail(pipe))
<1> DEFINE m == Head(pipe)
           q == Tail(pipe)
<1>1. /\ pipe \in Seq(Line) /\ m \in Line /\ m = pipe[1] /\ Len(pipe) \in Nat
      /\ Len(q) = Len(pipe) - 1 /\ 1 \in 1 .. Len(pipe)
      /\ \A i \in 1 .. Len(q) : q[i] = pipe[i + 1] /\ i + 1 \in 1 .. Len(pipe)
  BY HeadTailProperties DEF IInv, TypeOK
<1>2. ASSUME NEW h \in Hosts, NEW s \in Rows, NoReport(pipe, h, s)
      PROVE  NoReport(q, h, s)
  BY <1>1, <1>2 DEF NoReport
<1>3. ReportedOnce(q)
  <2> SUFFICES ASSUME NEW i \in 1 .. Len(q), NEW j \in 1 .. Len(q), NEW h \in Hosts,
                      NEW s \in Rows, IsReport(q[i], h, s), IsReport(q[j], h, s)
               PROVE  i = j
    BY DEF ReportedOnce
  <2>1. IsReport(pipe[i + 1], h, s) /\ IsReport(pipe[j + 1], h, s)
    BY <1>1
  <2>2. i + 1 = j + 1
    BY <1>1, <2>1 DEF ReportsLinked, ReportedOnce
  <2> QED BY <2>2
<1>4. ASSUME m.kind = "result" PROVE NoReport(q, m.h, m.s)
  <2>1. m.h \in Hosts /\ m.s \in Rows
    BY <1>1, <1>4, EventLine DEF IsEvent
  <2> SUFFICES ASSUME NEW i \in 1 .. Len(q), IsReport(q[i], m.h, m.s) PROVE FALSE
    BY DEF NoReport
  <2>2. IsReport(pipe[1], m.h, m.s) /\ IsReport(pipe[i + 1], m.h, m.s)
    BY <1>1, <1>4 DEF IsReport
  <2>3. i + 1 = 1
    BY <1>1, <2>1, <2>2 DEF ReportsLinked, ReportedOnce
  <2> QED BY <2>3
<1> QED BY <1>1, <1>2, <1>3, <1>4

LEMMA GoneReports ==
  ASSUME Gone, pc' # "read"
  PROVE  ReportsLinked'
BY DEF Gone, ReportsLinked, ReportedOnce, NoReport

LEMMA EventBalanced ==
  ASSUME IInv, BInv, ReadEvent
  PROVE  (\A h \in Hosts : Balanced(col[h])') /\ ReportsLinked'
<1> DEFINE m == Head(pipe)
           o == Owner(sent[m.h])
           d == Apply(col[o], m)
<1>0. /\ pc = "read" /\ pipe # << >> /\ IsEvent(m)
      /\ col' = [col EXCEPT ![o] = d]
      /\ UNCHANGED <<sent, offset>>
  BY DEF ReadEvent, IsEvent
<1>1. /\ m.h \in Active /\ m.s \in Rows /\ m.s + offset \in Rows /\ m \in Line
      /\ m.kind # "note" => event[m.h][m.s] # "none"
      /\ o = m.h
  <2>1. /\ m.h \in Active /\ m.s \in Rows /\ m.s + offset \in Rows
        /\ m.kind # "note" => event[m.h][m.s] # "none"
    BY <1>0, EventTouches
  <2>2. m \in Line
    BY <1>0, HeadTailProperties DEF IInv, TypeOK
  <2>3. o = m.h
    BY <2>1, OwnEvents DEF BInv
  <2> QED BY <2>1, <2>2, <2>3
<1>2. /\ m = pipe[1] /\ 1 \in 1 .. Len(pipe)
      /\ m.kind = "result" => NoReport(Tail(pipe), m.h, m.s)
      /\ \A h \in Hosts, s \in Rows : NoReport(pipe, h, s) => NoReport(Tail(pipe), h, s)
      /\ ReportedOnce(Tail(pipe))
  BY <1>0, LineReported DEF BInv
<1>3. m.h \in Hosts /\ col[m.h] \in Column /\ Balanced(col[m.h])
  BY <1>1 DEF Active, IInv, TypeOK, BInv
<1>4. m.kind = "result" => /\ event[m.h][m.s] \notin {"none", "send"}
                           /\ ~Ended(col[m.h], m.s + offset)
  <2> SUFFICES ASSUME m.kind = "result"
               PROVE  /\ event[m.h][m.s] \notin {"none", "send"}
                      /\ ~Ended(col[m.h], m.s + offset)
    OBVIOUS
  <2>1. ~NoReport(pipe, m.h, m.s)
    BY <1>2 DEF NoReport, IsReport
  <2>2. m.s + offset <= MaxSeq
    BY <1>1 DEF Rows
  <2> QED BY <1>0, <1>1, <1>3, <2>1, <2>2 DEF BInv, ReportsLinked
<1>5. /\ Balanced(d)
      /\ \A r \in Rows : r # m.s + offset => (Ended(d, r) <=> Ended(col[m.h], r))
      /\ m.kind # "result" /\ Ended(d, m.s + offset) => Ended(col[m.h], m.s + offset)
  BY <1>0, <1>1, <1>3, <1>4, ApplyBalanced
<1> HIDE DEF d, m
<1>6. \A h \in Hosts : col'[h] = IF h = m.h THEN d ELSE col[h]
  BY <1>0, <1>1 DEF IInv, TypeOK
<1>7. \A h \in Hosts : Balanced(col'[h])
  BY <1>5, <1>6 DEF BInv
<1>8. \A h \in Hosts : Balanced(col[h])'
  BY <1>7 DEF Balanced, RowsWith
<1>9. CASE Stale
  <2>1. pc' = "idle" /\ Gone
    BY <1>9 DEF ReadEvent
  <2> QED BY <1>8, <2>1, GoneReports
<1>10. CASE ~Stale
  <2>1. pipe' = Tail(pipe) /\ UNCHANGED <<pc, event>>
    BY <1>10 DEF ReadEvent, remote
  <2>2. ASSUME NEW h \in Active, NEW s \in Rows, s + offset <= MaxSeq,
               Ended(col'[h], s + offset)
        PROVE  NoReport(pipe', h, s) /\ event'[h][s] \notin {"none", "send"}
    <3>1. h \in Hosts /\ offset \in Nat /\ s + offset \in Rows
      BY <2>2 DEF Active, IInv, TypeOK, Rows
    <3>2. CASE Ended(col[h], s + offset)
      BY <1>0, <1>2, <2>1, <2>2, <3>1, <3>2 DEF BInv, ReportsLinked
    <3>3. CASE ~Ended(col[h], s + offset)
      <4>1. h = m.h /\ s + offset = m.s + offset /\ m.kind = "result"
        BY <1>5, <1>6, <2>2, <3>1, <3>3
      <4>2. s = m.s
        BY <1>1, <3>1, <4>1 DEF Rows
      <4> QED BY <1>2, <1>4, <2>1, <4>1, <4>2
    <3> QED BY <3>2, <3>3
  <2>3. \A h \in Hosts, s \in Rows :
          event'[h][s] \in {"none", "send"} => NoReport(pipe', h, s)
    BY <1>2, <2>1 DEF BInv, ReportsLinked
  <2>4. ReportedOnce(pipe')
    BY <1>2, <2>1
  <2>5. ReportsLinked'
    BY <1>0, <2>1, <2>2, <2>3, <2>4
       DEF ReportsLinked, Active, Ended, ReportedOnce, NoReport, IsReport
  <2> QED BY <1>8, <2>5
<1> QED BY <1>9, <1>10

\* A line is written: if it is a result, it is the first one of its ping.
LEMMA EmitReports ==
  ASSUME IInv, ReportsLinked, NEW m \in Line, Emit(m),
         \A h \in Hosts, s \in Rows :
           /\ IsReport(m, h, s) => event[h][s] = "send" /\ event'[h][s] \notin {"none", "send"}
           /\ event'[h][s] \in {"none", "send"} => event[h][s] \in {"none", "send"}
  PROVE  ReportsLinked'
<1>1. /\ pc = "read" /\ pipe' = Append(pipe, m)
      /\ UNCHANGED <<pc, col, sent, offset>>
  BY DEF Emit, local, conn
<1>2. /\ pipe \in Seq(Line) /\ Len(pipe) \in Nat /\ Len(pipe') = Len(pipe) + 1
      /\ \A i \in 1 .. Len(pipe') : pipe'[i] = IF i = Len(pipe) + 1 THEN m ELSE pipe[i]
  BY <1>1, AppendProperties DEF IInv, TypeOK
<1>3. ASSUME NEW h \in Hosts, NEW s \in Rows, ~IsReport(m, h, s), NoReport(pipe, h, s)
      PROVE  NoReport(pipe', h, s)
  BY <1>2, <1>3 DEF NoReport
<1>4. ReportedOnce(pipe')
  <2> SUFFICES ASSUME NEW i \in 1 .. Len(pipe'), NEW j \in 1 .. Len(pipe'), NEW h \in Hosts,
                      NEW s \in Rows, IsReport(pipe'[i], h, s), IsReport(pipe'[j], h, s)
               PROVE  i = j
    BY DEF ReportedOnce
  <2>1. CASE IsReport(m, h, s)
    <3>1. NoReport(pipe, h, s)
      BY <2>1 DEF ReportsLinked
    <3>2. i = Len(pipe) + 1 /\ j = Len(pipe) + 1
      BY <1>2, <3>1 DEF NoReport
    <3> QED BY <3>2
  <2>2. CASE ~IsReport(m, h, s)
    <3>1. i \in 1 .. Len(pipe) /\ j \in 1 .. Len(pipe) /\ pipe'[i] = pipe[i] /\ pipe'[j] = pipe[j]
      BY <1>2, <2>2
    <3> QED BY <3>1 DEF ReportsLinked, ReportedOnce
  <2> QED BY <2>1, <2>2
<1>5. ASSUME NEW h \in Hosts, NEW s \in Rows, event'[h][s] \in {"none", "send"}
      PROVE  NoReport(pipe', h, s)
  BY <1>3, <1>5 DEF ReportsLinked
<1>6. ASSUME NEW h \in Active, NEW s \in Rows, s + offset <= MaxSeq, Ended(col[h], s + offset)
      PROVE  NoReport(pipe', h, s) /\ event'[h][s] \notin {"none", "send"}
  <2>1. h \in Hosts /\ NoReport(pipe, h, s) /\ event[h][s] \notin {"none", "send"}
    BY <1>1, <1>6 DEF ReportsLinked, Active
  <2> QED BY <1>3, <2>1
<1> QED BY <1>1, <1>4, <1>5, <1>6
        DEF ReportsLinked, Active, ReportedOnce, NoReport, IsReport, Ended

LEMMA RemoteReports ==
  ASSUME IInv, ReportsLinked, NEW h \in Hosts, NEW s \in Rows,
         \/ RemoteSend(h, s)
         \/ \E res \in Results : RemoteResult(h, s, res)
         \/ RemoteNote(h, s)
  PROVE  ReportsLinked'
<1>0. event \in [Hosts -> [Rows -> R!Report]]
  BY DEF IInv, TypeOK, R!StreamTypeOK, R!Rows, Rows
<1>1. CASE RemoteSend(h, s)
  <2> DEFINE m == Message("send", h, s, "none")
  <2>1. /\ event[h][s] = "none" /\ event' = [event EXCEPT ![h][s] = "send"]
        /\ Emit(m)
    BY <1>1 DEF RemoteSend, R!Send
  <2>2. \A g \in Hosts, r \in Rows :
          event'[g][r] = IF g = h /\ r = s THEN "send" ELSE event[g][r]
    BY <1>0, <2>1
  <2>3. m \in Line /\ m.kind = "send"
    BY DEF Message, Line
  <2> HIDE DEF m
  <2>4. \A g \in Hosts, r \in Rows : ~IsReport(m, g, r)
    BY <2>3 DEF IsReport
  <2> QED BY <2>1, <2>2, <2>3, <2>4, EmitReports
<1>2. ASSUME NEW res \in Results, RemoteResult(h, s, res)
      PROVE  ReportsLinked'
  <2> DEFINE m == Message("result", h, s, res)
  <2>1. /\ event[h][s] = "send" /\ event' = [event EXCEPT ![h][s] = res] /\ Emit(m)
    BY <1>2 DEF RemoteResult, R!Result
  <2>2. \A g \in Hosts, r \in Rows :
          event'[g][r] = IF g = h /\ r = s THEN res ELSE event[g][r]
    BY <1>0, <2>1
  <2>3. m \in Line /\ m.h = h /\ m.s = s /\ res \notin {"none", "send"}
    BY GroupAssumption DEF Message, Line, Outcome, LostPing, ErrorPing
  <2> HIDE DEF m
  <2>4. \A g \in Hosts, r \in Rows : IsReport(m, g, r) => g = h /\ r = s
    BY <2>3 DEF IsReport
  <2> QED BY <2>1, <2>2, <2>3, <2>4, EmitReports
<1>3. CASE RemoteNote(h, s)
  <2> DEFINE m == Message("note", h, s, "none")
  <2>1. Emit(m) /\ event' = event
    BY <1>3 DEF RemoteNote, remote
  <2>2. m \in Line /\ m.kind = "note"
    BY DEF Message, Line
  <2> HIDE DEF m
  <2>3. \A g \in Hosts, r \in Rows : ~IsReport(m, g, r)
    BY <2>2 DEF IsReport
  <2> QED BY <2>1, <2>2, <2>3, EmitReports
<1> QED BY <1>1, <1>2, <1>3

LEMMA BannerReports ==
  ASSUME IInv, ReportsLinked, NEW kind \in Banner, RemoteBanner(kind)
  PROVE  ReportsLinked'
<1> DEFINE m == [kind |-> kind]
<1>1. Emit(m) /\ event' = event
  BY DEF RemoteBanner, remote
<1>2. m \in Line /\ m.kind # "result"
  BY GroupAssumption DEF Line
<1> HIDE DEF m
<1>3. \A g \in Hosts, r \in Rows : ~IsReport(m, g, r)
  BY <1>2 DEF IsReport
<1> QED BY <1>1, <1>2, <1>3, EmitReports

LEMMA DiesReports ==
  ASSUME IInv, ReportsLinked, RemoteDies
  PROVE  ReportsLinked'
<1>1. UNCHANGED <<pc, col, sent, offset, event>>
  BY DEF RemoteDies, local, conn
<1>2. PICK n \in 0 .. Len(pipe) : pipe' = SubSeq(pipe, 1, n)
  BY DEF RemoteDies
<1>3. /\ pipe \in Seq(Line) /\ Len(pipe) \in Nat /\ n <= Len(pipe)
      /\ Len(pipe') = n /\ \A i \in 1 .. n : pipe'[i] = pipe[i]
  BY <1>2, SubSeqProperties DEF IInv, TypeOK
<1>4. \A h \in Hosts, s \in Rows : NoReport(pipe, h, s) => NoReport(pipe', h, s)
  BY <1>3 DEF NoReport
<1>5. ReportedOnce(pipe')
  BY <1>3 DEF ReportsLinked, ReportedOnce
<1>6. \A h \in Active : h \in Hosts
  BY DEF Active
<1>7. ASSUME NEW h \in Active, NEW s \in Rows, pc = "read", s + offset <= MaxSeq,
             Ended(col[h], s + offset)
      PROVE  NoReport(pipe', h, s) /\ event[h][s] \notin {"none", "send"}
  BY <1>4, <1>6, <1>7 DEF ReportsLinked
<1>8. \A h \in Hosts, s \in Rows : event[h][s] \in {"none", "send"} => NoReport(pipe', h, s)
  BY <1>4 DEF ReportsLinked
<1> QED BY <1>1, <1>5, <1>7, <1>8
        DEF ReportsLinked, Active, ReportedOnce, NoReport, IsReport, Ended

\* The remote is torn down: every ping on the way is reported, and once.
LEMMA AbortReports ==
  ASSUME IInv, ReportsLinked, RemoteAborts
  PROVE  ReportsLinked'
<1> DEFINE MsgOf(p) == Message("result", p[1], p[2], "pending")
           M == {MsgOf(p) : p \in OnTheWay}
           Q == SetToSeq(M)
<1>1. /\ pc = "read" /\ UNCHANGED <<pc, col, sent, offset>>
      /\ event' = [h \in Hosts |-> [s \in Rows |-> R!Cancelled(event[h][s])]]
      /\ pipe' = pipe \o Q
  BY DEF RemoteAborts, R!Close, R!Rows, Rows, local, conn
<1>2. \A h \in Hosts, s \in Rows :
        event'[h][s] = IF event[h][s] = "send" THEN "pending" ELSE event[h][s]
  BY <1>1 DEF R!Cancelled
<1>3. IsFiniteSet(M)
  <2> DEFINE f == [p \in OnTheWay |-> MsgOf(p)]
  <2>1. IsFiniteSet(Hosts) /\ IsFiniteSet(Rows)
    BY FS_Interval, GroupAssumption, MaxSeqAssumption DEF Hosts, Rows
  <2>2. IsFiniteSet(OnTheWay)
    BY <2>1, FS_Product, FS_Subset DEF OnTheWay
  <2>3. f \in Surjection(OnTheWay, M)
    BY DEF Surjection
  <2> HIDE DEF f, M
  <2> QED BY <2>2, <2>3, FS_Surjection
<1>4. \A m \in M, h \in Hosts, s \in Rows : IsReport(m, h, s) =>
        m = Message("result", h, s, "pending") /\ event[h][s] = "send"
  BY DEF OnTheWay, Message, IsReport
<1>5. M \subseteq Line
  BY DEF OnTheWay, Message, Line
<1> HIDE DEF M
<1>6. Q \in Seq(M) /\ \A i, j \in 1 .. Len(Q) : Q[i] = Q[j] => i = j
  BY <1>3, SetToSeqElements, SetToSeqOnce
<1>7. Q \in Seq(Line)
  BY <1>5, <1>6, SeqMonotonic
<1> HIDE DEF Q
<1>8. /\ pipe \in Seq(Line) /\ Len(pipe) \in Nat /\ Len(Q) \in Nat
      /\ Len(pipe') = Len(pipe) + Len(Q)
      /\ \A i \in 1 .. Len(pipe') :
           pipe'[i] = IF i <= Len(pipe) THEN pipe[i] ELSE Q[i - Len(pipe)]
      /\ \A i \in 1 .. Len(Q) : Q[i] \in M
  BY <1>1, <1>6, <1>7, ConcatProperties DEF IInv, TypeOK
<1>9. ASSUME NEW h \in Hosts, NEW s \in Rows, event[h][s] # "send", NoReport(pipe, h, s)
      PROVE  NoReport(pipe', h, s)
  <2> SUFFICES ASSUME NEW i \in 1 .. Len(pipe'), IsReport(pipe'[i], h, s) PROVE FALSE
    BY DEF NoReport
  <2>1. CASE i <= Len(pipe)
    BY <1>8, <1>9, <2>1 DEF NoReport
  <2>2. CASE i > Len(pipe)
    <3>1. i - Len(pipe) \in 1 .. Len(Q) /\ pipe'[i] = Q[i - Len(pipe)]
      BY <1>8, <2>2
    <3>2. pipe'[i] \in M
      BY <1>8, <3>1
    <3> QED BY <1>4, <1>9, <3>2
  <2> QED BY <1>8, <2>1, <2>2
<1>10. ReportedOnce(pipe')
  <2> SUFFICES ASSUME NEW i \in 1 .. Len(pipe'), NEW j \in 1 .. Len(pipe'), NEW h \in Hosts,
                      NEW s \in Rows, IsReport(pipe'[i], h, s), IsReport(pipe'[j], h, s)
               PROVE  i = j
    BY DEF ReportedOnce
  <2>0. i \in Nat /\ j \in Nat
    BY <1>8
  <2>1. CASE event[h][s] = "send"
    <3>1. NoReport(pipe, h, s)
      BY <2>1 DEF ReportsLinked
    <3>2. i > Len(pipe) /\ j > Len(pipe)
      BY <1>8, <2>0, <3>1 DEF NoReport
    <3>3. /\ i - Len(pipe) \in 1 .. Len(Q) /\ pipe'[i] = Q[i - Len(pipe)]
          /\ j - Len(pipe) \in 1 .. Len(Q) /\ pipe'[j] = Q[j - Len(pipe)]
      BY <1>8, <3>2
    <3>4. Q[i - Len(pipe)] = Q[j - Len(pipe)]
      BY <1>4, <1>8, <3>3
    <3>5. i - Len(pipe) = j - Len(pipe)
      BY <1>6, <3>3, <3>4
    <3> QED BY <1>8, <2>0, <3>5
  <2>2. CASE event[h][s] # "send"
    <3>1. ASSUME NEW k \in 1 .. Len(pipe'), IsReport(pipe'[k], h, s)
          PROVE  k \in 1 .. Len(pipe) /\ pipe'[k] = pipe[k]
      <4>1. CASE k <= Len(pipe)
        BY <1>8, <4>1
      <4>2. CASE k > Len(pipe)
        <5>1. k - Len(pipe) \in 1 .. Len(Q) /\ pipe'[k] = Q[k - Len(pipe)]
          BY <1>8, <4>2
        <5>2. pipe'[k] \in M
          BY <1>8, <5>1
        <5> QED BY <1>4, <2>2, <3>1, <5>2
      <4> QED BY <1>8, <4>1, <4>2
    <3>2. i \in 1 .. Len(pipe) /\ j \in 1 .. Len(pipe) /\ pipe'[i] = pipe[i] /\ pipe'[j] = pipe[j]
      BY <3>1
    <3> QED BY <3>2 DEF ReportsLinked, ReportedOnce
  <2> QED BY <2>1, <2>2
<1>11. ASSUME NEW h \in Hosts, NEW s \in Rows, event'[h][s] \in {"none", "send"}
       PROVE  NoReport(pipe', h, s)
  BY <1>2, <1>9, <1>11 DEF ReportsLinked
<1>12. ASSUME NEW h \in Active, NEW s \in Rows, s + offset <= MaxSeq, Ended(col[h], s + offset)
       PROVE  NoReport(pipe', h, s) /\ event'[h][s] \notin {"none", "send"}
  <2>1. h \in Hosts /\ NoReport(pipe, h, s) /\ event[h][s] \notin {"none", "send"}
    BY <1>1, <1>12 DEF ReportsLinked, Active
  <2> QED BY <1>2, <1>9, <2>1
<1> QED BY <1>1, <1>10, <1>11, <1>12
        DEF ReportsLinked, Active, ReportedOnce, NoReport, IsReport, Ended

\* Steps that leave the connection, its lines and the columns alone.
LEMMA QuietReports ==
  ASSUME ReportsLinked, UNCHANGED <<col, event, pipe>>,
         pc' # "read" \/ UNCHANGED <<pc, sent, offset>>
  PROVE  ReportsLinked'
<1>1. CASE pc' # "read"
  BY <1>1 DEF ReportsLinked, ReportedOnce, NoReport
<1>2. CASE UNCHANGED <<pc, sent, offset>>
  BY <1>2 DEF ReportsLinked, ReportedOnce, NoReport, Active, Ended
<1> QED BY <1>1, <1>2

\* A new connection begins above every cell, the ended ones too.
LEMMA SpawnReports ==
  ASSUME IInv, ReportsLinked, Spawn
  PROVE  ReportsLinked'
<1>1. /\ pc = "spawn" /\ event = NoEvents
      /\ UNCHANGED <<col, sent, offset, event, pipe>>
  BY DEF Spawn, local, conn, IInv, Linked
<1>2. ASSUME NEW h \in Hosts, NEW s \in Rows, s + offset <= MaxSeq
      PROVE  ~Ended(col[h], s + offset)
  <2>1. s + offset \in Rows /\ s + offset > offset /\ (s + offset) - offset = s
    BY <1>2, MaxSeqAssumption DEF IInv, TypeOK, Rows
  <2>2. \A g \in Active : event[g][(s + offset) - offset] = "none"
    BY <1>1, <2>1 DEF NoEvents, Active
  <2>3. col[h].ping[s + offset] = "none"
    BY <1>1, <2>1, <2>2 DEF IInv, RowsFree
  <2> QED BY <2>3 DEF Ended
<1>3. \A h \in Active : h \in Hosts
  BY DEF Active
<1> QED BY <1>1, <1>2, <1>3
        DEF ReportsLinked, ReportedOnce, NoReport, IsReport, Active, Ended

LEMMA BannerReadReports ==
  ASSUME IInv, ReportsLinked, ReadBanner
  PROVE  ReportsLinked'
<1>1. CASE Head(pipe).kind = "json" \/ (Head(pipe).kind = "start" /\ Stale)
  BY <1>1, GoneReports DEF ReadBanner
<1>2. CASE ~ (Head(pipe).kind = "json" \/ (Head(pipe).kind = "start" /\ Stale))
  <2>1. /\ pipe # << >> /\ pipe' = Tail(pipe)
        /\ UNCHANGED <<pc, col, sent, offset, event>>
    BY <1>2 DEF ReadBanner, local, conn, remote
  <2>2. /\ \A h \in Hosts, s \in Rows : NoReport(pipe, h, s) => NoReport(pipe', h, s)
        /\ ReportedOnce(pipe')
    BY <2>1, LineReported
  <2>3. \A h \in Active : h \in Hosts
    BY DEF Active
  <2>4. \A h \in Hosts, s \in Rows : event[h][s] \in {"none", "send"} => NoReport(pipe', h, s)
    BY <2>2 DEF ReportsLinked
  <2>5. pc = "read" => \A h \in Active, s \in Rows :
          s + offset <= MaxSeq /\ Ended(col[h], s + offset) =>
            NoReport(pipe', h, s) /\ event[h][s] \notin {"none", "send"}
    BY <2>2, <2>3 DEF ReportsLinked
  <2> QED BY <2>1, <2>2, <2>4, <2>5
          DEF ReportsLinked, Active, ReportedOnce, NoReport, IsReport, Ended
<1> QED BY <1>1, <1>2

LEMMA NextReports ==
  ASSUME IInv, BInv, [Next]_vars
  PROVE  ReportsLinked'
<1>0. ReportsLinked
  BY DEF BInv
<1>1. CASE (\E h \in Hosts, a \in Address : Translate(h, a)) \/ ForceResolve \/ GridTick
           \/ UNCHANGED vars
  BY <1>0, <1>1, QuietReports
     DEF Translate, ForceResolve, GridTick, vars, local, conn, remote
<1>2. CASE Compose \/ Retry
  BY <1>0, <1>2, QuietReports DEF Compose, Retry, local, remote
<1>3. CASE Spawn \/ ReadBanner
  BY <1>0, <1>3, SpawnReports, BannerReadReports
<1>4. CASE SpawnFails \/ Eof \/ Quit
  BY <1>4, GoneReports DEF SpawnFails, Eof, Quit, Fail
<1>5. CASE ReadEvent
  BY <1>5, EventBalanced
<1>6. ASSUME NEW h \in Hosts, NEW s \in Rows,
             \/ RemoteSend(h, s)
             \/ \E res \in Results : RemoteResult(h, s, res)
             \/ RemoteNote(h, s)
      PROVE  ReportsLinked'
  BY <1>0, <1>6, RemoteReports
<1>7. CASE (\E kind \in Banner : RemoteBanner(kind)) \/ RemoteAborts \/ RemoteDies
  BY <1>0, <1>7, BannerReports, AbortReports, DiesReports
<1> QED BY <1>1, <1>2, <1>3, <1>4, <1>5, <1>6, <1>7 DEF Next

LEMMA ColumnsBalanced ==
  ASSUME IInv, BInv, [Next]_vars, NEW h \in Hosts
  PROVE  Balanced(col[h])'
<1>0. col[h] \in Column /\ Below(col[h]) /\ Balanced(col[h])
  BY DEF IInv, TypeOK, Linked, BInv
<1>1. CASE ReadEvent
  BY <1>1, EventBalanced
<1>2. CASE SpawnFails \/ Eof
  <2>1. col'[h] = ErrorRow(col[h]) /\ col[h].lastPing < MaxSeq
    BY <1>2 DEF SpawnFails, Eof, Fail
  <2>2. Balanced(col'[h])
    BY <1>0, <2>1, ErrorRowBalanced
  <2> QED BY <2>2 DEF Balanced, RowsWith
<1>3. CASE UNCHANGED col
  BY <1>0, <1>3 DEF Balanced, RowsWith
<1>4. CASE Compose \/ Spawn \/ ReadBanner \/ Retry \/ Quit \/ RemoteAborts \/ RemoteDies
           \/ ForceResolve \/ GridTick \/ UNCHANGED vars
  BY <1>3, <1>4 DEF Compose, Spawn, ReadBanner, Retry, Quit, RemoteAborts, RemoteDies,
                    ForceResolve, GridTick, vars, local
<1>5. ASSUME NEW g \in Hosts, NEW s \in Rows,
             \/ RemoteSend(g, s)
             \/ \E res \in Results : RemoteResult(g, s, res)
             \/ RemoteNote(g, s)
      PROVE  UNCHANGED col
  BY <1>5 DEF RemoteSend, RemoteResult, RemoteNote, Emit, local
<1>6. CASE \/ \E kind \in Banner : RemoteBanner(kind)
           \/ \E g \in Hosts, a \in Address : Translate(g, a)
  BY <1>3, <1>6 DEF RemoteBanner, Emit, Translate, local
<1> QED BY <1>1, <1>2, <1>3, <1>4, <1>5, <1>6 DEF Next

LEMMA InitBInv == ASSUME Init PROVE BInv
<1>1. \A h \in Hosts : Balanced(col[h])
  <2>1. EmptyColumn.inflight = {} /\ EmptyColumn.sent = 0 /\ EmptyColumn.recv = 0
        /\ EmptyColumn.lost = 0
    BY DEF EmptyColumn
  <2>2. Balanced(EmptyColumn)
    <3>1. Cardinality(EmptyColumn.inflight) = 0
      BY <2>1, FS_EmptySet
    <3> QED BY <2>1, <3>1 DEF Balanced
  <2>3. \A h \in Hosts : col[h] = EmptyColumn
    BY DEF Init
  <2> QED BY <2>2, <2>3
<1>2. KeysDiffer
  BY GroupAssumption DEF Init, KeysDiffer, Active, Hosts
<1>3. ReportsLinked
  <2>1. pipe = << >> /\ Len(pipe) = 0 /\ pc # "read"
    BY EmptySeq DEF Init
  <2>2. 1 .. Len(pipe) = {}
    BY <2>1
  <2> QED BY <2>1, <2>2 DEF ReportsLinked, ReportedOnce, NoReport
<1> QED BY <1>1, <1>2, <1>3 DEF BInv

LEMMA AlwaysBInv ==
  ASSUME DifferentTargets
  PROVE  Spec => []BInv
<1>1. Init => BInv
  BY InitBInv
<1>2. IInv /\ BInv /\ [Next]_vars => BInv'
  <2> SUFFICES ASSUME IInv, BInv, [Next]_vars PROVE BInv'
    OBVIOUS
  <2>1. KeysDiffer'
    BY KeysStep DEF BInv
  <2>2. ReportsLinked'
    BY NextReports
  <2>3. \A h \in Hosts : Balanced(col[h])'
    BY ColumnsBalanced
  <2> QED BY <2>1, <2>2, <2>3 DEF BInv
<1> QED BY <1>1, <1>2, AlwaysIInv, PTL DEF Spec

\* When no two columns are pinged under one key, every ping that was sent is
\* counted exactly once over reconnections, lost lines and error rows, also
\* when the remote event loop is torn down with pings on the way.
THEOREM SumsExact ==
  ASSUME DifferentTargets
  PROVE  Spec => []StatisticsAddUp
<1>1. BInv => StatisticsAddUp
  BY DEF BInv, Balanced, StatisticsAddUp
<1> QED BY <1>1, AlwaysBInv, PTL

-----------------------------------------------------------------------------
(* The columns mirror the remote.  A cell that is behind the last event of  *)
(* its row has the lines that are missing still in the pipe; the order of   *)
(* the lines does not matter, as a result that comes first also sends.      *)

Says(q, kind, h, s) ==
  \E i \in 1 .. Len(q) : q[i].kind = kind /\ q[i].h = h /\ q[i].s = s

\* The cell of a row is what its last event e is shown as, but for the lines q.
Follows(e, cell, h, s, q) ==
  /\ e = "none" => cell = "none" /\ ~Says(q, "send", h, s)
  /\ e = "send" => cell = "pending" \/ (cell = "none" /\ Says(q, "send", h, s))
  /\ e \notin {"none", "send"} =>
       IF Says(q, "result", h, s) THEN cell \in {"none", "pending"} ELSE cell = e
  /\ \A i \in 1 .. Len(q) : IsReport(q[i], h, s) => q[i].res = e

MInv == pc = "read" /\ open =>
          \A h \in Active, s \in Rows :
            s + offset <= MaxSeq =>
              Follows(event[h][s], col[h].ping[s + offset], h, s, pipe)

\* A line is about a ping.
About(m, h, s) == m.kind \in {"send", "result"} /\ m.h = h /\ m.s = s

\* What the rest of the lines says.
LEMMA TailSays ==
  ASSUME NEW q \in Seq(Line), q # << >>, NEW h \in Hosts, NEW s \in Rows, NEW kind
  PROVE  /\ Says(q, kind, h, s) <=>
              \/ Head(q).kind = kind /\ Head(q).h = h /\ Head(q).s = s
              \/ Says(Tail(q), kind, h, s)
         /\ \A i \in 1 .. Len(Tail(q)) : \E j \in 1 .. Len(q) : Tail(q)[i] = q[j]
<1> DEFINE r == Tail(q)
<1>1. /\ Len(q) \in Nat /\ Len(r) = Len(q) - 1 /\ 1 \in 1 .. Len(q) /\ Head(q) = q[1]
      /\ \A i \in 1 .. Len(r) : r[i] = q[i + 1] /\ i + 1 \in 1 .. Len(q)
  BY HeadTailProperties
<1>2. \A i \in 1 .. Len(q) : i = 1 \/ (i - 1 \in 1 .. Len(r) /\ r[i - 1] = q[i])
  BY <1>1
<1> HIDE DEF r
<1>3. ASSUME Says(q, kind, h, s), ~(q[1].kind = kind /\ q[1].h = h /\ q[1].s = s)
      PROVE  Says(r, kind, h, s)
  <2>1. PICK i \in 1 .. Len(q) : q[i].kind = kind /\ q[i].h = h /\ q[i].s = s
    BY <1>3 DEF Says
  <2>2. i - 1 \in 1 .. Len(r) /\ r[i - 1] = q[i]
    BY <1>2, <1>3, <2>1
  <2> QED BY <2>1, <2>2 DEF Says
<1>4. ASSUME Says(r, kind, h, s) PROVE Says(q, kind, h, s)
  <2>1. PICK i \in 1 .. Len(r) : r[i].kind = kind /\ r[i].h = h /\ r[i].s = s
    BY <1>4 DEF Says
  <2> QED BY <1>1, <2>1 DEF Says
<1>5. q[1].kind = kind /\ q[1].h = h /\ q[1].s = s => Says(q, kind, h, s)
  BY <1>1 DEF Says
<1>6. Says(q, kind, h, s) <=>
        (q[1].kind = kind /\ q[1].h = h /\ q[1].s = s) \/ Says(r, kind, h, s)
  BY <1>3, <1>4, <1>5
<1>7. \A i \in 1 .. Len(r) : \E j \in 1 .. Len(q) : r[i] = q[j]
  BY <1>1
<1> QED BY <1>1, <1>6, <1>7 DEF r

\* What the lines say after another one was written.
LEMMA AppendSays ==
  ASSUME NEW q \in Seq(Line), NEW m \in Line, NEW h \in Hosts, NEW s \in Rows, NEW kind
  PROVE  /\ Says(Append(q, m), kind, h, s) <=>
              \/ m.kind = kind /\ m.h = h /\ m.s = s
              \/ Says(q, kind, h, s)
         /\ \A i \in 1 .. Len(Append(q, m)) :
              Append(q, m)[i] = m \/ \E j \in 1 .. Len(q) : Append(q, m)[i] = q[j]
<1> DEFINE r == Append(q, m)
<1>1. /\ Len(q) \in Nat /\ Len(r) = Len(q) + 1 /\ r[Len(r)] = m /\ Len(r) \in 1 .. Len(r)
      /\ \A i \in 1 .. Len(q) : r[i] = q[i] /\ i \in 1 .. Len(r)
  BY AppendProperties
<1>2. \A i \in 1 .. Len(r) : i = Len(r) \/ i \in 1 .. Len(q)
  BY <1>1
<1> HIDE DEF r
<1>3. ASSUME Says(r, kind, h, s), ~(m.kind = kind /\ m.h = h /\ m.s = s)
      PROVE  Says(q, kind, h, s)
  <2>1. PICK i \in 1 .. Len(r) : r[i].kind = kind /\ r[i].h = h /\ r[i].s = s
    BY <1>3 DEF Says
  <2>2. i \in 1 .. Len(q) /\ r[i] = q[i]
    BY <1>1, <1>2, <1>3, <2>1
  <2> QED BY <2>1, <2>2 DEF Says
<1>4. ASSUME Says(q, kind, h, s) PROVE Says(r, kind, h, s)
  <2>1. PICK i \in 1 .. Len(q) : q[i].kind = kind /\ q[i].h = h /\ q[i].s = s
    BY <1>4 DEF Says
  <2> QED BY <1>1, <2>1 DEF Says
<1>5. m.kind = kind /\ m.h = h /\ m.s = s => Says(r, kind, h, s)
  BY <1>1 DEF Says
<1>6. Says(r, kind, h, s) <=> (m.kind = kind /\ m.h = h /\ m.s = s) \/ Says(q, kind, h, s)
  BY <1>3, <1>4, <1>5
<1>7. \A i \in 1 .. Len(r) : r[i] = m \/ \E j \in 1 .. Len(q) : r[i] = q[j]
  BY <1>1, <1>2
<1> QED BY <1>6, <1>7 DEF r

\* A line about another ping may be read, and one may be written.
LEMMA OtherLines ==
  ASSUME NEW q \in Seq(Line), NEW h \in Hosts, NEW s \in Rows, NEW e, NEW cell,
         Follows(e, cell, h, s, q)
  PROVE  /\ q # << >> /\ ~About(Head(q), h, s) => Follows(e, cell, h, s, Tail(q))
         /\ \A m \in Line : ~About(m, h, s) => Follows(e, cell, h, s, Append(q, m))
<1>1. ASSUME q # << >>, ~About(Head(q), h, s) PROVE Follows(e, cell, h, s, Tail(q))
  <2>1. /\ Says(Tail(q), "send", h, s) <=> Says(q, "send", h, s)
        /\ Says(Tail(q), "result", h, s) <=> Says(q, "result", h, s)
    BY <1>1, TailSays DEF About
  <2>2. \A i \in 1 .. Len(Tail(q)) : IsReport(Tail(q)[i], h, s) => Tail(q)[i].res = e
    <3>1. \A i \in 1 .. Len(Tail(q)) : \E j \in 1 .. Len(q) : Tail(q)[i] = q[j]
      BY <1>1, TailSays
    <3> QED BY <3>1 DEF Follows
  <2> QED BY <2>1, <2>2 DEF Follows
<1>2. ASSUME NEW m \in Line, ~About(m, h, s) PROVE Follows(e, cell, h, s, Append(q, m))
  <2>1. /\ Says(Append(q, m), "send", h, s) <=> Says(q, "send", h, s)
        /\ Says(Append(q, m), "result", h, s) <=> Says(q, "result", h, s)
    BY <1>2, AppendSays DEF About
  <2>2. \A i \in 1 .. Len(Append(q, m)) :
          IsReport(Append(q, m)[i], h, s) => Append(q, m)[i].res = e
    <3>1. \A i \in 1 .. Len(Append(q, m)) :
            Append(q, m)[i] = m \/ \E j \in 1 .. Len(q) : Append(q, m)[i] = q[j]
      BY AppendSays
    <3>2. ~IsReport(m, h, s)
      BY <1>2 DEF About, IsReport
    <3> QED BY <3>1, <3>2 DEF Follows
  <2> QED BY <2>1, <2>2 DEF Follows
<1> QED BY <1>1, <1>2

\* The cell a send or a result is for.
LEMMA SendCell ==
  ASSUME NEW c \in Column, NEW s \in Rows
  PROVE  ApplySend(c, s).ping[s] = IF c.ping[s] = "none" THEN "pending" ELSE c.ping[s]
BY DEF ApplySend, Add, Column

LEMMA ResultCell ==
  ASSUME NEW c \in Column, NEW s \in Rows, NEW res \in Cell, c.ping[s] \in {"none", "pending"}
  PROVE  ApplyResult(c, s, res).ping[s] = res
<1> DEFINE p == ApplySend(c, s)
<1>1. p \in Column
  BY AddColumn DEF ApplySend
<1>2. p.ping[s] = "pending"
  BY SendCell
<1>3. ApplyResult(c, s, res) = Resolve(p, s, res)
  BY <1>2 DEF ApplyResult
<1> HIDE DEF p
<1>4. Resolve(p, s, res).ping[s] = res
  BY <1>1 DEF Resolve, Column
<1> QED BY <1>3, <1>4

\* The line of a ping is read: its cell follows with one line less.
LEMMA OwnLine ==
  ASSUME NEW q \in Seq(Line), q # << >>, NEW c \in Column, NEW h \in Hosts, NEW s \in Rows,
         NEW r \in Rows, r = s + offset, NEW e, e # "none", About(Head(q), h, s),
         Head(q).kind = "result" => e # "send" /\ NoReport(Tail(q), h, s),
         Follows(e, c.ping[r], h, s, q)
  PROVE  Follows(e, Apply(c, Head(q)).ping[r], h, s, Tail(q))
<1> DEFINE m == Head(q)
           new == Apply(c, m).ping[r]
<1>1. m \in Line /\ m = q[1] /\ 1 \in 1 .. Len(q)
  BY HeadTailProperties
<1>2. \A i \in 1 .. Len(Tail(q)) : IsReport(Tail(q)[i], h, s) => Tail(q)[i].res = e
  <2>1. \A i \in 1 .. Len(Tail(q)) : \E j \in 1 .. Len(q) : Tail(q)[i] = q[j]
    BY TailSays
  <2> QED BY <2>1 DEF Follows
<1>3. CASE m.kind = "send"
  <2>1. new = IF c.ping[r] = "none" THEN "pending" ELSE c.ping[r]
    <3>1. Apply(c, m) = ApplySend(c, r)
      BY <1>3 DEF Apply, About
    <3> QED BY <3>1, SendCell
  <2>2. Says(Tail(q), "result", h, s) <=> Says(q, "result", h, s)
    BY <1>3, TailSays
  <2> HIDE DEF new, m
  <2>3. e = "send" => new = "pending"
    BY <2>1 DEF Follows
  <2>4. e # "send" => IF Says(Tail(q), "result", h, s) THEN new \in {"none", "pending"}
                      ELSE new = e
    BY <2>1, <2>2 DEF Follows
  <2>5. Follows(e, new, h, s, Tail(q))
    BY <1>2, <2>3, <2>4 DEF Follows
  <2> QED BY <2>5 DEF new, m
<1>4. CASE m.kind = "result"
  <2>1. IsReport(m, h, s)
    BY <1>4 DEF About, IsReport
  <2>2. m.res = e /\ m.res \in Cell
    BY <1>1, <1>4, <2>1, EventLine DEF Follows, IsEvent
  <2>3. Says(q, "result", h, s)
    BY <1>1, <2>1 DEF Says, IsReport
  <2>4. c.ping[r] \in {"none", "pending"} /\ e # "send"
    BY <1>4, <2>3 DEF Follows
  <2>5. new = e
    <3>1. Apply(c, m) = ApplyResult(c, r, m.res)
      BY <1>4 DEF Apply, About
    <3> QED BY <2>2, <2>4, <3>1, ResultCell
  <2>6. ~Says(Tail(q), "result", h, s)
    BY <1>4 DEF Says, NoReport, IsReport
  <2> HIDE DEF new, m
  <2>7. Follows(e, new, h, s, Tail(q))
    BY <1>2, <2>4, <2>5, <2>6 DEF Follows
  <2> QED BY <2>7 DEF new, m
<1> QED BY <1>3, <1>4 DEF About

\* Reading a line keeps the columns behind the remote by the lines that are left.
LEMMA ReadMirrors ==
  ASSUME IInv, BInv, MInv, ReadEvent
  PROVE  MInv'
<1> DEFINE m == Head(pipe)
           o == Owner(sent[m.h])
<1>0. /\ pc = "read" /\ pipe # << >> /\ IsEvent(m)
      /\ col' = [col EXCEPT ![o] = Apply(@, m)]
      /\ UNCHANGED <<sent, offset>>
  BY DEF ReadEvent, IsEvent
<1>1. /\ m.h \in Active /\ m.s \in Rows /\ m.s + offset \in Rows
      /\ m.kind # "note" => event[m.h][m.s] # "none"
      /\ o = m.h /\ m.h \in Hosts
      /\ Touched(col[o], Apply(col[o], m), m.s + offset)
      /\ m.kind = "note" => Apply(col[o], m).ping = col[o].ping
  <2>1. /\ m.h \in Active /\ m.s \in Rows /\ m.s + offset \in Rows
        /\ m.kind # "note" => event[m.h][m.s] # "none"
        /\ Touched(col[o], Apply(col[o], m), m.s + offset)
        /\ m.kind = "note" => Apply(col[o], m).ping = col[o].ping
    BY <1>0, EventTouches
  <2>2. o = m.h
    BY <2>1, OwnEvents DEF BInv
  <2> QED BY <2>1, <2>2 DEF Active
<1>2. CASE Stale
  BY <1>2 DEF ReadEvent, MInv
<1>3. CASE ~Stale
  <2>1. pipe' = Tail(pipe) /\ UNCHANGED <<pc, event, open>>
    BY <1>3 DEF ReadEvent, remote
  <2>2. pipe \in Seq(Line) /\ col \in [Hosts -> Column] /\ offset \in Nat
    BY DEF IInv, TypeOK
  <2>3. m.kind = "result" => event[m.h][m.s] # "send" /\ NoReport(Tail(pipe), m.h, m.s)
    <3> SUFFICES ASSUME m.kind = "result"
                 PROVE  event[m.h][m.s] # "send" /\ NoReport(Tail(pipe), m.h, m.s)
      OBVIOUS
    <3>1. m = pipe[1] /\ 1 \in 1 .. Len(pipe) /\ NoReport(Tail(pipe), m.h, m.s)
      BY <1>0, LineReported DEF BInv
    <3>2. ~NoReport(pipe, m.h, m.s)
      BY <3>1 DEF NoReport, IsReport
    <3> QED BY <1>1, <3>1, <3>2 DEF BInv, ReportsLinked
  <2>4. ASSUME NEW h \in Active, NEW s \in Rows, s + offset <= MaxSeq, open
        PROVE  Follows(event[h][s], col'[h].ping[s + offset], h, s, Tail(pipe))
    <3>1. h \in Hosts /\ s + offset \in Rows
      BY <2>2, <2>4 DEF Active, Rows
    <3>2. Follows(event[h][s], col[h].ping[s + offset], h, s, pipe)
      BY <1>0, <2>4 DEF MInv
    <3>3. CASE About(m, h, s)
      <4>1. h = m.h /\ s = m.s /\ m.kind # "note"
        BY <3>3 DEF About
      <4>2. col'[h] = Apply(col[h], m)
        BY <1>0, <1>1, <2>2, <4>1
      <4>3. event[h][s] # "none"
        BY <1>1, <4>1
      <4>4. m.kind = "result" => event[h][s] # "send" /\ NoReport(Tail(pipe), h, s)
        BY <2>3, <4>1
      <4>5. col[h] \in Column
        BY <2>2, <3>1
      <4>6. Follows(event[h][s], Apply(col[h], m).ping[s + offset], h, s, Tail(pipe))
        BY <1>0, <2>2, <3>1, <3>2, <3>3, <4>3, <4>4, <4>5, OwnLine
      <4> QED BY <4>2, <4>6
    <3>4. CASE ~About(m, h, s)
      <4>1. col'[h].ping[s + offset] = col[h].ping[s + offset]
        <5>1. CASE h # o
          BY <1>0, <2>2, <3>1, <5>1
        <5>2. CASE h = o
          <6>1. col'[h] = Apply(col[o], m)
            BY <1>0, <2>2, <3>1, <5>2
          <6>2. CASE m.kind = "note"
            BY <1>1, <5>2, <6>1, <6>2
          <6>3. CASE m.kind # "note"
            <7>1. s # m.s
              BY <1>0, <1>1, <3>4, <5>2, <6>3 DEF About, IsEvent
            <7>2. s + offset # m.s + offset
              BY <1>1, <2>2, <7>1 DEF Rows
            <7> QED BY <1>1, <3>1, <5>2, <6>1, <7>2 DEF Touched
          <6> QED BY <6>2, <6>3
        <5> QED BY <5>1, <5>2
      <4>2. Follows(event[h][s], col[h].ping[s + offset], h, s, Tail(pipe))
        BY <1>0, <2>2, <3>1, <3>2, <3>4, OtherLines
      <4> QED BY <4>1, <4>2
    <3> QED BY <3>3, <3>4
  <2> QED BY <1>0, <2>1, <2>4 DEF MInv, Active, Follows, Says, IsReport
<1> QED BY <1>2, <1>3

\* A foreign line is skipped.
LEMMA BannerMirrors ==
  ASSUME IInv, MInv, ReadBanner
  PROVE  MInv'
<1>1. CASE Head(pipe).kind = "json" \/ (Head(pipe).kind = "start" /\ Stale)
  BY <1>1 DEF ReadBanner, MInv
<1>2. CASE ~ (Head(pipe).kind = "json" \/ (Head(pipe).kind = "start" /\ Stale))
  <2>1. /\ pipe # << >> /\ pipe' = Tail(pipe)
        /\ UNCHANGED <<pc, col, sent, offset, event, open>>
    BY <1>2 DEF ReadBanner, local, conn, remote
  <2>2. pipe \in Seq(Line)
    BY DEF IInv, TypeOK
  <2>3. ASSUME NEW h \in Active, NEW s \in Rows, s + offset <= MaxSeq, pc = "read", open
        PROVE  Follows(event[h][s], col[h].ping[s + offset], h, s, Tail(pipe))
    <3>1. h \in Hosts /\ ~About(Head(pipe), h, s)
      BY DEF Active, ReadBanner, About
    <3>2. Follows(event[h][s], col[h].ping[s + offset], h, s, pipe)
      BY <2>3 DEF MInv
    <3> QED BY <2>1, <2>2, <3>1, <3>2, OtherLines
  <2> QED BY <2>1, <2>3 DEF MInv, Active, Follows, Says, IsReport
<1> QED BY <1>1, <1>2

\* A line is written: either about no ping, or about one whose cell follows then.
LEMMA EmitMirrors ==
  ASSUME IInv, MInv, NEW m \in Line, Emit(m), UNCHANGED open,
         \A h \in Hosts, s \in Rows : ~About(m, h, s) => event'[h][s] = event[h][s],
         \A h \in Active, s \in Rows : About(m, h, s) /\ s + offset <= MaxSeq =>
           Follows(event'[h][s], col[h].ping[s + offset], h, s, Append(pipe, m))
  PROVE  MInv'
<1>1. /\ pc = "read" /\ open /\ pipe' = Append(pipe, m) /\ pipe \in Seq(Line)
      /\ UNCHANGED <<pc, col, sent, offset, open>>
  BY DEF Emit, local, conn, IInv, TypeOK
<1>2. ASSUME NEW h \in Active, NEW s \in Rows, s + offset <= MaxSeq, ~About(m, h, s)
      PROVE  Follows(event'[h][s], col[h].ping[s + offset], h, s, Append(pipe, m))
  <2>1. h \in Hosts
    BY DEF Active
  <2>2. event'[h][s] = event[h][s]
    BY <1>2, <2>1
  <2>3. Follows(event[h][s], col[h].ping[s + offset], h, s, pipe)
    BY <1>1, <1>2 DEF MInv
  <2>4. Follows(event[h][s], col[h].ping[s + offset], h, s, Append(pipe, m))
    BY <1>1, <1>2, <2>1, <2>3, OtherLines
  <2> QED BY <2>2, <2>4
<1> QED BY <1>1, <1>2 DEF MInv, Active, Follows, Says, IsReport

LEMMA RemoteMirrors ==
  ASSUME IInv, BInv, MInv, NEW h \in Hosts, NEW s \in Rows,
         \/ RemoteSend(h, s)
         \/ \E res \in Results : RemoteResult(h, s, res)
         \/ RemoteNote(h, s)
  PROVE  MInv'
<1>0. event \in [Hosts -> [Rows -> R!Report]] /\ pipe \in Seq(Line)
  BY DEF IInv, TypeOK, R!StreamTypeOK, R!Rows, Rows
<1> DEFINE cell == col[h].ping[s + offset]
<1>1. CASE RemoteSend(h, s)
  <2> DEFINE m == Message("send", h, s, "none")
  <2>1. /\ event[h][s] = "none" /\ event' = [event EXCEPT ![h][s] = "send"]
        /\ Emit(m) /\ UNCHANGED open /\ h \in Active /\ s + offset <= MaxSeq
        /\ pc = "read" /\ open
    BY <1>1 DEF RemoteSend, R!Send, Emit
  <2>2. \A g \in Hosts, r \in Rows :
          event'[g][r] = IF g = h /\ r = s THEN "send" ELSE event[g][r]
    BY <1>0, <2>1
  <2>3. m \in Line /\ m.kind = "send" /\ m.h = h /\ m.s = s
    BY DEF Message, Line
  <2> HIDE DEF m
  <2>4. \A g \in Hosts, r \in Rows : About(m, g, r) <=> g = h /\ r = s
    BY <2>3 DEF About
  <2>5. Follows("send", cell, h, s, Append(pipe, m))
    <3>1. Follows("none", cell, h, s, pipe)
      BY <2>1 DEF MInv
    <3>2. cell = "none" /\ \A i \in 1 .. Len(pipe) : ~IsReport(pipe[i], h, s)
      <4>1. NoReport(pipe, h, s)
        BY <2>1 DEF BInv, ReportsLinked
      <4> QED BY <3>1, <4>1 DEF Follows, NoReport
    <3>3. /\ Says(Append(pipe, m), "send", h, s)
          /\ \A i \in 1 .. Len(Append(pipe, m)) :
               Append(pipe, m)[i] = m \/ \E j \in 1 .. Len(pipe) : Append(pipe, m)[i] = pipe[j]
      BY <1>0, <2>3, AppendSays
    <3>4. ~IsReport(m, h, s)
      BY <2>3 DEF IsReport
    <3> HIDE DEF cell
    <3> QED BY <3>2, <3>3, <3>4 DEF Follows
  <2>6. \A g \in Active, r \in Rows : About(m, g, r) /\ r + offset <= MaxSeq =>
          Follows(event'[g][r], col[g].ping[r + offset], g, r, Append(pipe, m))
    <3>1. \A g \in Active : g \in Hosts
      BY DEF Active
    <3> QED BY <2>2, <2>4, <2>5, <3>1
  <2>7. \A g \in Hosts, r \in Rows : ~About(m, g, r) => event'[g][r] = event[g][r]
    BY <2>2, <2>4
  <2> QED BY <2>1, <2>3, <2>6, <2>7, EmitMirrors
<1>2. ASSUME NEW res \in Results, RemoteResult(h, s, res)
      PROVE  MInv'
  <2> DEFINE m == Message("result", h, s, res)
  <2>1. /\ event[h][s] = "send" /\ event' = [event EXCEPT ![h][s] = res] /\ Emit(m)
        /\ UNCHANGED open /\ h \in Active /\ pc = "read" /\ open
    BY <1>2 DEF RemoteResult, R!Result, Emit
  <2>2. \A g \in Hosts, r \in Rows :
          event'[g][r] = IF g = h /\ r = s THEN res ELSE event[g][r]
    BY <1>0, <2>1
  <2>3. m \in Line /\ m.kind = "result" /\ m.h = h /\ m.s = s /\ m.res = res
        /\ res \notin {"none", "send"}
    BY GroupAssumption DEF Message, Line, Outcome, LostPing, ErrorPing
  <2>4. s + offset <= MaxSeq
    BY <2>1 DEF IInv, Linked
  <2> HIDE DEF m
  <2>5. \A g \in Hosts, r \in Rows : About(m, g, r) <=> g = h /\ r = s
    BY <2>3 DEF About
  <2>6. Follows(res, cell, h, s, Append(pipe, m))
    <3>1. Follows("send", cell, h, s, pipe)
      BY <2>1, <2>4 DEF MInv
    <3>2. cell \in {"none", "pending"} /\ \A i \in 1 .. Len(pipe) : ~IsReport(pipe[i], h, s)
      <4>1. NoReport(pipe, h, s)
        BY <2>1 DEF BInv, ReportsLinked
      <4> QED BY <3>1, <4>1 DEF Follows, NoReport
    <3>3. /\ Says(Append(pipe, m), "result", h, s)
          /\ \A i \in 1 .. Len(Append(pipe, m)) :
               Append(pipe, m)[i] = m \/ \E j \in 1 .. Len(pipe) : Append(pipe, m)[i] = pipe[j]
      BY <1>0, <2>3, AppendSays
    <3> HIDE DEF cell
    <3> QED BY <2>3, <3>2, <3>3 DEF Follows
  <2>7. \A g \in Active, r \in Rows : About(m, g, r) /\ r + offset <= MaxSeq =>
          Follows(event'[g][r], col[g].ping[r + offset], g, r, Append(pipe, m))
    <3>1. \A g \in Active : g \in Hosts
      BY DEF Active
    <3> QED BY <2>2, <2>5, <2>6, <3>1
  <2>8. \A g \in Hosts, r \in Rows : ~About(m, g, r) => event'[g][r] = event[g][r]
    BY <2>2, <2>5
  <2> QED BY <2>1, <2>3, <2>7, <2>8, EmitMirrors
<1>3. CASE RemoteNote(h, s)
  <2> DEFINE m == Message("note", h, s, "none")
  <2>1. Emit(m) /\ event' = event /\ open' = open
    BY <1>3 DEF RemoteNote, remote
  <2>2. m \in Line /\ m.kind = "note"
    BY DEF Message, Line
  <2> HIDE DEF m
  <2>3. \A g, r : ~About(m, g, r)
    BY <2>2 DEF About
  <2> QED BY <2>1, <2>2, <2>3, EmitMirrors
<1> QED BY <1>1, <1>2, <1>3

LEMMA TalkMirrors ==
  ASSUME IInv, MInv, NEW kind \in Banner, RemoteBanner(kind)
  PROVE  MInv'
<1> DEFINE m == [kind |-> kind]
<1>1. Emit(m) /\ event' = event /\ open' = open
  BY DEF RemoteBanner, remote
<1>2. m \in Line /\ m.kind \notin {"send", "result"}
  BY GroupAssumption DEF Line
<1> HIDE DEF m
<1>3. \A g, r : ~About(m, g, r)
  BY <1>2 DEF About
<1> QED BY <1>1, <1>2, <1>3, EmitMirrors

\* A new connection begins with rows that are free, and nothing was said.
LEMMA SpawnMirrors ==
  ASSUME IInv, Spawn
  PROVE  MInv'
<1>1. /\ pc = "spawn" /\ event = NoEvents /\ pipe = << >>
      /\ UNCHANGED <<col, sent, offset, event, pipe>>
  BY DEF Spawn, local, conn, IInv, Linked
<1>2. ASSUME NEW h \in Active, NEW s \in Rows, s + offset <= MaxSeq
      PROVE  Follows(event[h][s], col[h].ping[s + offset], h, s, pipe)
  <2>0. h \in Hosts
    BY DEF Active
  <2>1. s + offset \in Rows /\ s + offset > offset /\ (s + offset) - offset = s
    BY <1>2, MaxSeqAssumption DEF IInv, TypeOK, Rows
  <2>2. \A g \in Active : event[g][(s + offset) - offset] = "none"
    BY <1>1, <2>1 DEF NoEvents, Active
  <2>3. col[h].ping[s + offset] = "none"
    BY <1>1, <2>0, <2>1, <2>2 DEF IInv, RowsFree
  <2>4. event[h][s] = "none"
    BY <1>1, <2>0 DEF NoEvents
  <2>5. 1 .. Len(pipe) = {}
    BY <1>1
  <2> QED BY <2>3, <2>4, <2>5 DEF Follows, Says
<1> QED BY <1>1, <1>2 DEF MInv, Active, Follows, Says, IsReport

LEMMA NextMInv == IInv /\ BInv /\ MInv /\ [Next]_vars => MInv'
<1> SUFFICES ASSUME IInv, BInv, MInv, [Next]_vars PROVE MInv'
  OBVIOUS
<1>1. CASE (\E h \in Hosts, a \in Address : Translate(h, a)) \/ ForceResolve \/ GridTick
           \/ UNCHANGED vars
  <2>1. UNCHANGED <<pc, col, sent, offset, pipe, event, open>>
    BY <1>1 DEF Translate, ForceResolve, GridTick, vars, local, conn, remote
  <2> QED BY <2>1 DEF MInv, Active, Follows, Says, IsReport
<1>2. CASE Compose \/ SpawnFails \/ Eof \/ Retry \/ Quit \/ RemoteAborts \/ RemoteDies
  BY <1>2 DEF MInv, Compose, SpawnFails, Eof, Fail, Retry, Quit, RemoteAborts, RemoteDies,
              R!Close
<1>3. CASE Spawn \/ ReadEvent \/ ReadBanner
  BY <1>3, SpawnMirrors, ReadMirrors, BannerMirrors
<1>4. ASSUME NEW h \in Hosts, NEW s \in Rows,
             \/ RemoteSend(h, s)
             \/ \E res \in Results : RemoteResult(h, s, res)
             \/ RemoteNote(h, s)
      PROVE  MInv'
  BY <1>4, RemoteMirrors
<1>5. CASE \E kind \in Banner : RemoteBanner(kind)
  BY <1>5, TalkMirrors
<1> QED BY <1>1, <1>2, <1>3, <1>4, <1>5 DEF Next

\* Once everything is read, the columns show exactly what the remote reported,
\* row by row, whatever was restarted, repeated or written between.
THEOREM ColumnsMirror ==
  ASSUME DifferentTargets
  PROVE  Spec => []MirrorsRemote
<1>1. Init => MInv
  BY DEF Init, MInv
<1>2. ASSUME MInv PROVE MirrorsRemote
  <2> SUFFICES ASSUME pc = "read", pipe = << >>, open, NEW h \in Active, NEW s \in Rows,
                      s + offset <= MaxSeq
               PROVE  col[h].ping[s + offset] = Shown(event[h][s])
    BY DEF MirrorsRemote
  <2>1. Follows(event[h][s], col[h].ping[s + offset], h, s, pipe)
    BY <1>2 DEF MInv
  <2>2. 1 .. Len(pipe) = {}
    OBVIOUS
  <2> QED BY <2>1, <2>2 DEF Follows, Says, Shown
<1> QED BY <1>1, <1>2, NextMInv, AlwaysIInv, AlwaysBInv, PTL DEF Spec

=============================================================================
