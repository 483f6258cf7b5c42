--------------------------- MODULE PingLoop_proofs ---------------------------
(***************************************************************************)
(* Theorems about PingLoop for every number of columns and rows, every     *)
(* choice of intervals and lateness: the statistics, the tasks behind the  *)
(* pending cells, quitting, the grid, and the promise of PingStream.       *)
(***************************************************************************)
EXTENDS PingLoop, PingColumn_proofs

USE DEF Hosts

-----------------------------------------------------------------------------
(* Type correctness *)

LEMMA TypeInit == Init => TypeOK
<1> SUFFICES ASSUME Init PROVE TypeOK
  OBVIOUS
<1>1. col \in [Hosts -> Column]
  BY EmptyConsistent DEF Init
<1>2. seq \in 0 .. MaxSeq
  BY MaxSeqAssumption DEF Init
<1> QED BY <1>1, <1>2 DEF Init, TypeOK, TaskState

\* A tick starts the row seq + 1 and moves every due time.
LEMMA TypeTick ==
  ASSUME TypeOK, NEW d \in Base .. Base + Late, Tick(d)
  PROVE  TypeOK'
<1> USE MaxSeqAssumption, BaseAssumption, IntervalAssumption, OptionAssumption
<1>1. seq + 1 \in Rows /\ seq' \in 0 .. MaxSeq
  BY DEF Tick, TypeOK, Rows
<1>2. ASSUME NEW h \in Hosts
      PROVE  FirstStep(h, d) \in TaskState
  BY DEF FirstStep, TaskState
<1>3. task' \in [Hosts -> [Rows -> TaskState]]
  BY <1>1, <1>2 DEF Tick, TypeOK
<1>4. ASSUME NEW h \in Hosts
      PROVE  (IF h \in Due(d) THEN Interval[h] ELSE wait[h] - d) \in Nat
  BY DEF TypeOK, Due
<1>5. wait' \in [Hosts -> Nat]
  BY <1>4 DEF Tick
<1> QED BY <1>1, <1>3, <1>5 DEF Tick, TypeOK

LEMMA TypeNext == TypeOK /\ [Next]_vars => TypeOK'
<1> SUFFICES ASSUME TypeOK, [Next]_vars PROVE TypeOK'
  OBVIOUS
<1>1. ASSUME NEW d \in Base .. Base + Late, Tick(d) PROVE TypeOK'
  BY <1>1, TypeTick
<1>2. ASSUME NEW h \in Hosts, NEW s \in Rows, Delayed(h, s) PROVE TypeOK'
  BY <1>2 DEF Delayed, Step, TypeOK, TaskState
<1>3. ASSUME NEW h \in Hosts, NEW s \in Rows, BeginPing(h, s) PROVE TypeOK'
  <2>1. Add(col[h], s) \in Column
    BY AddColumn DEF TypeOK
  <2>2. col' \in [Hosts -> Column]
    BY <1>3, <2>1 DEF BeginPing, TypeOK
  <2>3. task' \in [Hosts -> [Rows -> TaskState]]
    BY <1>3 DEF BeginPing, Step, TypeOK, TaskState
  <2> QED BY <1>3, <2>2, <2>3 DEF BeginPing, Step, TypeOK
<1>4. ASSUME NEW h \in Hosts, NEW s \in Rows, SkipPing(h, s) PROVE TypeOK'
  BY <1>4 DEF SkipPing, Step, TypeOK, TaskState
<1>5. ASSUME NEW h \in Hosts, NEW s \in Rows, NEW res \in Outcome, PingDone(h, s, res)
      PROVE  TypeOK'
  <2>1. Resolve(col[h], s, res) \in Column
    BY ResolveColumn DEF TypeOK
  <2>2. col' \in [Hosts -> Column]
    BY <1>5, <2>1 DEF PingDone, TypeOK
  <2>3. task' \in [Hosts -> [Rows -> TaskState]]
    BY <1>5 DEF PingDone, Step, TypeOK, TaskState
  <2> QED BY <1>5, <2>2, <2>3 DEF PingDone, Step, TypeOK
<1>6. ASSUME NEW h \in Hosts, Translated(h) PROVE TypeOK'
  BY <1>6 DEF Translated, TypeOK
<1>7. CASE Quit
  BY <1>7 DEF Quit, TypeOK
<1>8. CASE CloseLoop
  BY <1>8 DEF CloseLoop, LastReport, TypeOK, TaskState
<1>9. ASSUME NEW h \in Hosts, EngineFails(h) PROVE TypeOK'
  BY <1>8, <1>9 DEF EngineFails, TypeOK
<1>10. ASSUME NEW h \in Hosts, NEW s \in Rows, PacketLeaves(h, s) PROVE TypeOK'
  BY <1>10 DEF PacketLeaves, Step, TypeOK, TaskState
<1>11. CASE UNCHANGED vars
  BY <1>11 DEF vars, TypeOK
<1> QED BY <1>1, <1>2, <1>3, <1>4, <1>5, <1>6, <1>7, <1>8, <1>9, <1>10, <1>11 DEF Next, Shutdown

\* Every variable keeps its type, whatever the constants are.
THEOREM TypeCorrect == Spec => []TypeOK
<1> QED BY TypeInit, TypeNext, PTL DEF Spec

-----------------------------------------------------------------------------
(* The tasks, the cells and the reports *)

\* The strengthening that makes the safety properties inductive: how far the
\* task of a row has come says what the cell and the report of the row are.
TaskTellsCell(h, s) ==
  /\ s > seq => task[h][s] = "none"
  /\ task[h][s] \in {"none", "delay", "prepare"} =>
       col[h].ping[s] = "none" /\ event[h][s] = "none"
  /\ task[h][s] \in {"starting", "probe"} =>
       col[h].ping[s] = "pending" /\ event[h][s] = "send"
  /\ open /\ task[h][s] = "done" =>
       col[h].ping[s] # "pending" /\ event[h][s] # "send"

TasksTellCells == \A h \in Hosts, s \in Rows : TaskTellsCell(h, s)

IInv == TypeOK /\ ColumnsConsistent /\ TasksTellCells

LEMMA IInvInit == Init => IInv
<1> SUFFICES ASSUME Init PROVE IInv
  OBVIOUS
<1>1. TypeOK
  BY TypeInit
<1>2. ColumnsConsistent
  BY EmptyConsistent DEF Init, ColumnsConsistent
<1>3. \A h \in Hosts, s \in Rows : task[h][s] = "none" /\ event[h][s] = "none"
  BY DEF Init
<1>4. \A h \in Hosts, s \in Rows : col[h].ping[s] = "none"
  BY DEF Init, EmptyColumn
<1>5. TasksTellCells
  BY <1>3, <1>4 DEF TasksTellCells, TaskTellsCell
<1> QED BY <1>1, <1>2, <1>5 DEF IInv

\* The table after a ping has begun.
LEMMA AddPing ==
  ASSUME NEW c \in Column, NEW s \in Rows
  PROVE  Add(c, s).ping = [c.ping EXCEPT ![s] = "pending"]
BY DEF Add, Column

\* The table after a ping has ended.
LEMMA ResolvePing ==
  ASSUME NEW c \in Column, NEW s \in Rows, NEW res
  PROVE  Resolve(c, s, res).ping = [c.ping EXCEPT ![s] = res]
BY DEF Resolve, Column

\* A step of one task that touches neither the column nor the report.
LEMMA StepKeeps ==
  ASSUME IInv, TypeOK', NEW h \in Hosts, NEW s \in Rows,
         NEW from \in {"delay", "prepare"}, NEW to \in {"prepare", "done"},
         Step(h, s, from, to), UNCHANGED <<seq, open, col, event>>
  PROVE  IInv'
<1>1. ColumnsConsistent'
  BY DEF IInv, ColumnsConsistent
<1>2. ASSUME NEW g \in Hosts, NEW r \in Rows
      PROVE  TaskTellsCell(g, r)'
  <2>1. TaskTellsCell(g, r)
    BY DEF IInv, TasksTellCells
  <2>2. task'[g][r] = IF g = h /\ r = s THEN to ELSE task[g][r]
    BY DEF Step, IInv, TypeOK
  <2> QED BY <2>1, <2>2 DEF TaskTellsCell, Step
<1> QED BY <1>1, <1>2 DEF IInv, TasksTellCells

LEMMA IInvTick ==
  ASSUME IInv, TypeOK', NEW d \in Base .. Base + Late, Tick(d)
  PROVE  IInv'
<1>1. ColumnsConsistent'
  BY DEF IInv, ColumnsConsistent, Tick
<1>2. ASSUME NEW h \in Hosts, NEW s \in Rows
      PROVE  TaskTellsCell(h, s)'
  <2>1. TaskTellsCell(h, s)
    BY DEF IInv, TasksTellCells
  <2>2. s \in Nat /\ seq \in Nat /\ seq' = seq + 1
    BY DEF IInv, TypeOK, Rows, Tick
  <2>3. \/ task'[h][s] = task[h][s] /\ (s # seq + 1 \/ h \notin Due(d))
        \/ s = seq + 1 /\ task'[h][s] \in {"delay", "prepare"}
    BY DEF Tick, FirstStep, IInv, TypeOK
  <2> QED BY <2>1, <2>2, <2>3 DEF TaskTellsCell, Tick
<1> QED BY <1>1, <1>2 DEF IInv, TasksTellCells

LEMMA IInvSend ==
  ASSUME IInv, TypeOK', NEW h \in Hosts, NEW s \in Rows, BeginPing(h, s)
  PROVE  IInv'
<1>1. col[h] \in Column /\ col[h].ping[s] = "none" /\ event[h][s] = "none"
  BY DEF IInv, TypeOK, TasksTellCells, TaskTellsCell, BeginPing, Step
<1>2. col' = [col EXCEPT ![h] = Add(col[h], s)]
  BY DEF BeginPing
<1>3. ColumnsConsistent'
  BY <1>1, <1>2, AddConsistent DEF IInv, TypeOK, ColumnsConsistent
<1>4. ASSUME NEW g \in Hosts, NEW r \in Rows
      PROVE  TaskTellsCell(g, r)'
  <2>1. TaskTellsCell(g, r)
    BY DEF IInv, TasksTellCells
  <2>2. task'[g][r] = IF g = h /\ r = s THEN "starting" ELSE task[g][r]
    BY DEF BeginPing, Step, IInv, TypeOK
  <2>3. col'[g].ping[r] = IF g = h /\ r = s THEN "pending" ELSE col[g].ping[r]
    <3>1. Add(col[h], s).ping = [col[h].ping EXCEPT ![s] = "pending"]
      BY <1>1, AddPing
    <3>2. col'[h] = Add(col[h], s) /\ (g # h => col'[g] = col[g])
      BY <1>2 DEF IInv, TypeOK
    <3>3. col[h].ping \in [Rows -> Cell]
      BY <1>1 DEF Column
    <3> QED BY <3>1, <3>2, <3>3
  <2>4. event'[g][r] = IF g = h /\ r = s THEN "send" ELSE event[g][r]
    BY DEF BeginPing, IInv, TypeOK
  <2> QED BY <2>1, <2>2, <2>3, <2>4 DEF TaskTellsCell, BeginPing, Step
<1> QED BY <1>3, <1>4 DEF IInv, TasksTellCells

\* The packet of a ping changes nothing but where its task is.
LEMMA IInvLeaves ==
  ASSUME IInv, TypeOK', NEW h \in Hosts, NEW s \in Rows, PacketLeaves(h, s)
  PROVE  IInv'
<1>1. ColumnsConsistent'
  BY DEF IInv, ColumnsConsistent, PacketLeaves
<1>2. ASSUME NEW g \in Hosts, NEW r \in Rows
      PROVE  TaskTellsCell(g, r)'
  <2>1. TaskTellsCell(g, r) /\ TaskTellsCell(h, s)
    BY DEF IInv, TasksTellCells
  <2>2. task'[g][r] = IF g = h /\ r = s THEN "probe" ELSE task[g][r]
    BY DEF PacketLeaves, Step, IInv, TypeOK
  <2> QED BY <2>1, <2>2 DEF TaskTellsCell, PacketLeaves, Step
<1> QED BY <1>1, <1>2 DEF IInv, TasksTellCells

LEMMA IInvDone ==
  ASSUME IInv, TypeOK', NEW h \in Hosts, NEW s \in Rows, NEW res \in Outcome,
         PingDone(h, s, res)
  PROVE  IInv'
<1>1. col[h] \in Column /\ col[h].ping[s] = "pending"
  BY DEF IInv, TypeOK, TasksTellCells, TaskTellsCell, PingDone, Step
<1>2. col' = [col EXCEPT ![h] = Resolve(col[h], s, res)]
  BY DEF PingDone
<1>3. ColumnsConsistent'
  BY <1>1, <1>2, ResolveConsistent DEF IInv, TypeOK, ColumnsConsistent
<1>4. res # "pending" /\ res # "send"
  BY DEF Outcome, LostPing, ErrorPing
<1>5. ASSUME NEW g \in Hosts, NEW r \in Rows
      PROVE  TaskTellsCell(g, r)'
  <2>1. TaskTellsCell(g, r)
    BY DEF IInv, TasksTellCells
  <2>2. task'[g][r] = IF g = h /\ r = s THEN "done" ELSE task[g][r]
    BY DEF PingDone, Step, IInv, TypeOK
  <2>3. col'[g].ping[r] = IF g = h /\ r = s THEN res ELSE col[g].ping[r]
    <3>1. Resolve(col[h], s, res).ping = [col[h].ping EXCEPT ![s] = res]
      BY <1>1, ResolvePing
    <3>2. col'[h] = Resolve(col[h], s, res) /\ (g # h => col'[g] = col[g])
      BY <1>2 DEF IInv, TypeOK
    <3>3. col[h].ping \in [Rows -> Cell]
      BY <1>1 DEF Column
    <3> QED BY <3>1, <3>2, <3>3
  <2>4. event'[g][r] = IF g = h /\ r = s THEN res ELSE event[g][r]
    BY DEF PingDone, IInv, TypeOK
  <2> QED BY <1>4, <2>1, <2>2, <2>3, <2>4 DEF TaskTellsCell, PingDone, Step
<1> QED BY <1>3, <1>5 DEF IInv, TasksTellCells

LEMMA IInvClose ==
  ASSUME IInv, TypeOK', CloseLoop
  PROVE  IInv'
<1>1. ColumnsConsistent'
  BY DEF IInv, ColumnsConsistent, CloseLoop
<1>2. ASSUME NEW h \in Hosts, NEW s \in Rows
      PROVE  TaskTellsCell(h, s)'
  <2>1. TaskTellsCell(h, s)
    BY DEF IInv, TasksTellCells
  <2>2. task'[h][s] = IF task[h][s] = "none" THEN "none" ELSE "done"
    BY DEF CloseLoop
  <2>3. event'[h][s] = LastReport(h, s)
    BY DEF CloseLoop
  <2> QED BY <2>1, <2>2, <2>3 DEF TaskTellsCell, CloseLoop, LastReport, OnTheWay
<1> QED BY <1>1, <1>2 DEF IInv, TasksTellCells

LEMMA IInvNext == IInv /\ [Next]_vars => IInv'
<1> SUFFICES ASSUME IInv, [Next]_vars PROVE IInv'
  OBVIOUS
<1> TypeOK'
  BY TypeNext DEF IInv
<1>1. ASSUME NEW d \in Base .. Base + Late, Tick(d) PROVE IInv'
  BY <1>1, IInvTick
<1>2. ASSUME NEW h \in Hosts, NEW s \in Rows, Delayed(h, s) PROVE IInv'
  BY <1>2, StepKeeps DEF Delayed
<1>3. ASSUME NEW h \in Hosts, NEW s \in Rows, BeginPing(h, s) PROVE IInv'
  BY <1>3, IInvSend
<1>4. ASSUME NEW h \in Hosts, NEW s \in Rows, SkipPing(h, s) PROVE IInv'
  BY <1>4, StepKeeps DEF SkipPing
<1>5. ASSUME NEW h \in Hosts, NEW s \in Rows, NEW res \in Outcome, PingDone(h, s, res)
      PROVE  IInv'
  BY <1>5, IInvDone
<1>6. CASE CloseLoop
  BY <1>6, IInvClose
<1>7. ASSUME UNCHANGED <<seq, open, task, col, event>> PROVE IInv'
  BY <1>7 DEF IInv, ColumnsConsistent, TasksTellCells, TaskTellsCell
<1>8. ASSUME NEW h \in Hosts, Translated(h) PROVE IInv'
  BY <1>7, <1>8 DEF Translated
<1>9. ASSUME NEW h \in Hosts, EngineFails(h) PROVE IInv'
  BY <1>6, <1>7, <1>9 DEF EngineFails
<1>10. CASE Quit
  BY <1>7, <1>10 DEF Quit
<1>11. ASSUME NEW h \in Hosts, NEW s \in Rows, PacketLeaves(h, s) PROVE IInv'
  BY <1>11, IInvLeaves
<1>12. CASE UNCHANGED vars
  BY <1>7, <1>12 DEF vars
<1> QED BY <1>1, <1>2, <1>3, <1>4, <1>5, <1>6, <1>8, <1>9, <1>10, <1>11, <1>12 DEF Next, Shutdown

LEMMA Inductive == Spec => []IInv
<1> QED BY IInvInit, IInvNext, PTL DEF Spec

\* The statistics of every column agree with its cells in every reachable
\* state: Host.add and Host.resolve are called once each, in that order, for
\* every ping of one_ping.
THEOREM StatisticsNeverDrift == Spec => []ColumnsConsistent
<1>1. IInv => ColumnsConsistent
  BY DEF IInv
<1> QED BY <1>1, Inductive, PTL

\* Every pending cell has a task that will end it, and every probing task a
\* pending cell: one_ping, also after the engine task has died.
THEOREM PendingHasTask == Spec => []InflightHasTask
<1>1. IInv => InflightHasTask
  <2> SUFFICES ASSUME IInv, open, NEW h \in Hosts
               PROVE  col[h].inflight = {s \in Rows : <<h, s>> \in OnTheWay}
    BY DEF InflightHasTask
  <2>1. col[h].inflight = {s \in Rows : col[h].ping[s] = "pending"}
    BY DEF IInv, ColumnsConsistent, Consistent, RowsWith
  <2>2. ASSUME NEW s \in Rows
        PROVE  col[h].ping[s] = "pending" <=> <<h, s>> \in OnTheWay
    BY DEF OnTheWay, IInv, TypeOK, TaskState, TasksTellCells, TaskTellsCell
  <2> QED BY <2>1, <2>2
<1> QED BY <1>1, Inductive, PTL

\* A step of one task puts no ping on the way but by beginning it.
LEMMA StepOnTheWay ==
  ASSUME IInv, NEW h \in Hosts, NEW s \in Rows, NEW from, NEW to, Step(h, s, from, to),
         from \in {"starting", "probe"} \/ to \notin {"starting", "probe"}
  PROVE  OnTheWay' \subseteq OnTheWay
<1> SUFFICES ASSUME NEW t \in Hosts \X Rows, task'[t[1]][t[2]] \in {"starting", "probe"}
             PROVE  task[t[1]][t[2]] \in {"starting", "probe"}
  BY DEF OnTheWay
<1>1. t[1] \in Hosts /\ t[2] \in Rows
  OBVIOUS
<1>2. task'[t[1]][t[2]] = IF t[1] = h /\ t[2] = s THEN to ELSE task[t[1]][t[2]]
  BY <1>1 DEF Step, IInv, TypeOK
<1> QED BY <1>2 DEF Step

\* After q, Esc or Ctrl-C no ping is begun any more, because one_ping looks at
\* state["quit"] after every await before its cell; the packets that still
\* leave are those of pings that were on the way, which only become fewer.
THEOREM NothingBegunAfterQuit == Spec => QuitBeginsNothing
<1>1. IInv /\ [Next]_vars
        => [quit => /\ OnTheWay' \subseteq OnTheWay
                    /\ \A h \in Hosts : col'[h].sent = col[h].sent]_vars
  <2> SUFFICES ASSUME IInv, Next, quit
               PROVE  /\ OnTheWay' \subseteq OnTheWay
                      /\ \A h \in Hosts : col'[h].sent = col[h].sent
    OBVIOUS
  <2>1. ASSUME NEW g \in Hosts, NEW r \in Rows, NEW res \in Outcome, PingDone(g, r, res)
        PROVE  /\ OnTheWay' \subseteq OnTheWay
               /\ \A h \in Hosts : col'[h].sent = col[h].sent
    <3>1. OnTheWay' \subseteq OnTheWay
      BY <2>1, StepOnTheWay DEF PingDone
    <3>2. ASSUME NEW h \in Hosts PROVE col'[h].sent = col[h].sent
      <4>1. col[g] \in Column /\ col'[h] = IF h = g THEN Resolve(col[g], r, res) ELSE col[h]
        BY <2>1 DEF PingDone, IInv, TypeOK
      <4>2. Resolve(col[g], r, res).sent = col[g].sent
        BY <4>1 DEF Resolve, Column
      <4> QED BY <4>1, <4>2
    <3> QED BY <3>1, <3>2
  <2>2. ASSUME NEW g \in Hosts, NEW r \in Rows, BeginPing(g, r)
        PROVE  FALSE
    BY <2>2 DEF BeginPing, MayBegin
  <2>3. ASSUME NEW g \in Hosts, NEW r \in Rows,
               PacketLeaves(g, r) \/ Delayed(g, r) \/ SkipPing(g, r)
        PROVE  OnTheWay' \subseteq OnTheWay /\ UNCHANGED col
    BY <2>3, StepOnTheWay DEF PacketLeaves, Delayed, SkipPing
  <2>4. CASE CloseLoop
    BY <2>4 DEF CloseLoop, OnTheWay
  <2>5. CASE UNCHANGED <<task, col>>
    BY <2>5 DEF OnTheWay
  <2>6. ASSUME NEW d \in Base .. Base + Late PROVE ~ Tick(d)
    BY DEF Tick
  <2> QED BY <2>1, <2>2, <2>3, <2>4, <2>5, <2>6
          DEF Next, Translated, EngineFails, Shutdown, Quit
<1> QED BY <1>1, Inductive, PTL DEF Spec, QuitBeginsNothing

-----------------------------------------------------------------------------
(* The common grid *)

\* Of every column that has been served, the last served row is not too far
\* back: the time left until it is due again and the rows since then fit in
\* its interval.
Served(h) ==
  IF seq = 0 THEN wait[h] = 0
  ELSE /\ 2 * wait[h] > Base
       /\ \E r \in 1 .. seq : /\ task[h][r] # "none"
                              /\ wait[h] + Base * (seq - r) <= Interval[h]

GridInv == TypeOK /\ EveryIntervalServed /\ \A h \in Hosts : Served(h)

\* A quotient rounded down, and the products of a number.
LEMMA QuotientBounds ==
  ASSUME NEW q \in Int, NEW n \in Nat \ {0}
  PROVE  q \div n \in Int /\ n * (q \div n) <= q /\ q < n * (q \div n) + n
OBVIOUS

LEMMA ProductMonotone ==
  ASSUME NEW n \in Nat, NEW a \in Int, NEW b \in Int, a <= b
  PROVE  n * a <= n * b
OBVIOUS

\* A row r whose column is still more than half a base from being due at row
\* q is one of the last k rows.
LEMMA LastServedInWindow ==
  ASSUME NEW b \in Nat, NEW k \in Nat, NEW i \in Nat, NEW w \in Nat, NEW s \in Nat,
         NEW r \in Int, NEW q \in Int, s + k - 1 = q,
         2 * i <= 2 * (b * k) + b, 2 * w > b, w + b * (q - r) <= i
  PROVE  r >= s
<1> SUFFICES ASSUME r < s PROVE FALSE
  OBVIOUS
<1>1. k <= q - r /\ q - r \in Int
  OBVIOUS
<1>2. b * k <= b * (q - r) /\ b * k \in Int /\ b * (q - r) \in Int
  BY <1>1, ProductMonotone
<1> QED BY <1>2

\* A column's number of rows is the least that, less a half, makes its interval.
LEMMA RowsPerPingIs ==
  ASSUME NEW h \in Hosts
  PROVE  /\ RowsPerPing(h) \in Nat /\ RowsPerPing(h) >= 1
         /\ 2 * Interval[h] <= 2 * (Base * RowsPerPing(h)) + Base
<1> USE BaseAssumption, IntervalAssumption
<1> DEFINE q == 2 * Interval[h] + Base - 1
           k == RowsPerPing(h)
<1>1. Interval[h] \in Nat /\ Interval[h] >= Base /\ Base \in Nat /\ Base >= 1
  OBVIOUS
<1>2. q \in Int /\ 2 * Base \in Nat \ {0} /\ q >= 2 * Base
  BY <1>1
<1>3. k = q \div (2 * Base)
  BY DEF RowsPerPing
<1> HIDE DEF k
<1>4. k \in Int /\ q < (2 * Base) * k + 2 * Base
  BY <1>2, <1>3, QuotientBounds
<1>5. (2 * Base) * k = 2 * (Base * k) /\ Base * k \in Int
  BY <1>1, <1>4
<1>6. k >= 1
  <2> SUFFICES ASSUME k <= 0 PROVE FALSE
    BY <1>4
  <2>1. (2 * Base) * k <= (2 * Base) * 0
    BY <1>2, <1>4, ProductMonotone
  <2> QED BY <1>1, <1>2, <1>4, <2>1
<1> QED BY <1>1, <1>4, <1>5, <1>6 DEF k

LEMMA GridInit == Init => GridInv
<1> SUFFICES ASSUME Init PROVE GridInv
  OBVIOUS
<1>1. ASSUME NEW h \in Hosts PROVE Served(h)
  BY DEF Init, Served
<1>2. EveryIntervalServed
  <2> SUFFICES ASSUME NEW h \in Hosts, NEW s \in Rows
               PROVE  ~ (s + RowsPerPing(h) - 1 <= seq)
    BY DEF EveryIntervalServed
  <2> QED BY RowsPerPingIs DEF Init, Rows
<1> QED BY <1>1, <1>2, TypeInit DEF GridInv

\* Nothing but a tick starts a row; a task that has started never unstarts.
LEMMA GridKept ==
  ASSUME GridInv, TypeOK', UNCHANGED <<seq, wait>>,
         \A h \in Hosts, s \in Rows : task[h][s] # "none" => task'[h][s] # "none"
  PROVE  GridInv'
<1>1. ASSUME NEW h \in Hosts PROVE Served(h)'
  <2>1. CASE seq = 0
    BY <2>1 DEF GridInv, Served
  <2>2. CASE seq # 0
    <3>1. PICK r \in 1 .. seq : /\ task[h][r] # "none"
                                /\ wait[h] + Base * (seq - r) <= Interval[h]
      BY <2>2 DEF GridInv, Served
    <3>2. r \in Rows
      BY <3>1, MaxSeqAssumption DEF GridInv, TypeOK, Rows
    <3>3. task'[h][r] # "none"
      BY <3>1, <3>2
    <3> QED BY <2>2, <3>1, <3>3 DEF GridInv, Served
  <2> QED BY <2>1, <2>2
<1>2. EveryIntervalServed'
  <2> SUFFICES ASSUME NEW h \in Hosts, NEW s \in Rows,
                      s + RowsPerPing(h) - 1 <= seq
               PROVE  \E r \in s .. s + RowsPerPing(h) - 1 : task'[h][r] # "none"
    BY DEF EveryIntervalServed
  <2>1. PICK r \in s .. s + RowsPerPing(h) - 1 : task[h][r] # "none"
    BY DEF GridInv, EveryIntervalServed
  <2>2. r \in Rows
    <3>1. RowsPerPing(h) \in Nat
      BY RowsPerPingIs
    <3> QED BY <2>1, <3>1, MaxSeqAssumption DEF GridInv, TypeOK, Rows
  <2> QED BY <2>1, <2>2
<1> QED BY <1>1, <1>2 DEF GridInv

\* A tick serves the columns that are due; a column that is not due has used
\* at least a base interval of its own since its last row.
LEMMA GridTick ==
  ASSUME GridInv, TypeOK', NEW d \in Base .. Base + Late, Tick(d)
  PROVE  GridInv'
<1> USE BaseAssumption, IntervalAssumption, OptionAssumption, MaxSeqAssumption
<1>1. /\ seq \in Nat /\ seq + 1 \in Rows /\ seq' = seq + 1 /\ d \in Nat /\ d >= Base
  BY DEF Tick, GridInv, TypeOK, Rows
<1>2. ASSUME NEW h \in Hosts, NEW s \in Rows, task[h][s] # "none"
      PROVE  task'[h][s] # "none"
  BY <1>2 DEF Tick, FirstStep, GridInv, TypeOK
<1>3. ASSUME NEW h \in Hosts, h \in Due(d)
      PROVE  task'[h][seq + 1] # "none" /\ wait'[h] = Interval[h]
  BY <1>1, <1>3 DEF Tick, FirstStep, GridInv, TypeOK
<1>4. ASSUME NEW h \in Hosts, h \notin Due(d)
      PROVE  wait'[h] = wait[h] - d /\ 2 * wait'[h] > Base
  BY <1>1, <1>4 DEF Tick, Due, GridInv, TypeOK
<1>5. ASSUME NEW h \in Hosts PROVE Served(h)'
  <2>1. Interval[h] \in Nat /\ Base \in Nat /\ Base >= 1 /\ Interval[h] >= Base
    OBVIOUS
  <2>2. CASE h \in Due(d)
    BY <1>1, <1>3, <2>1, <2>2 DEF Served
  <2>3. CASE h \notin Due(d)
    <3>1. wait[h] \in Nat
      BY DEF GridInv, TypeOK
    <3>2. seq # 0
      BY <1>1, <1>4, <2>3, <3>1 DEF GridInv, Served
    <3>3. PICK r \in 1 .. seq : /\ task[h][r] # "none"
                                /\ wait[h] + Base * (seq - r) <= Interval[h]
      BY <3>2 DEF GridInv, Served
    <3>4. r \in Rows
      BY <1>1, <3>3 DEF Rows
    <3>5. /\ r \in 1 .. seq' /\ task'[h][r] # "none"
          /\ wait'[h] + Base * (seq' - r) <= Interval[h]
      <4>1. Base * (seq' - r) = Base * (seq - r) + Base /\ Base * (seq - r) \in Int
        BY <1>1, <2>1, <3>4 DEF Rows
      <4> QED BY <1>1, <1>2, <1>4, <2>1, <2>3, <3>1, <3>3, <3>4, <4>1
    <3> QED BY <1>1, <1>4, <2>3, <3>5 DEF Served
  <2> QED BY <2>2, <2>3
<1>6. EveryIntervalServed'
  <2> SUFFICES ASSUME NEW h \in Hosts, NEW s \in Rows,
                      s + RowsPerPing(h) - 1 <= seq'
               PROVE  \E r \in s .. s + RowsPerPing(h) - 1 : task'[h][r] # "none"
    BY DEF EveryIntervalServed, RowsPerPing
  <2> DEFINE k == RowsPerPing(h)
  <2>1. /\ Interval[h] \in Nat /\ Base \in Nat /\ k \in Nat /\ k >= 1
        /\ 2 * Interval[h] <= 2 * (Base * k) + Base
    BY RowsPerPingIs
  <2>2. s \in Nat
    BY DEF Rows
  <2> HIDE DEF k
  <2>3. CASE s + k - 1 <= seq
    <3>1. PICK r \in s .. s + k - 1 : task[h][r] # "none"
      BY <2>3 DEF GridInv, EveryIntervalServed, k
    <3>2. r \in Rows
      BY <1>1, <2>1, <2>2, <2>3, <3>1 DEF Rows
    <3> QED BY <1>2, <3>1, <3>2 DEF k
  <2>4. CASE s + k - 1 > seq
    <3>1. s + k - 1 = seq'
      BY <1>1, <2>1, <2>2, <2>4 DEF k
    <3>2. seq' # 0 /\ seq' \in Nat
      BY <1>1
    <3>3. PICK r \in 1 .. seq' : /\ task'[h][r] # "none"
                                 /\ wait'[h] + Base * (seq' - r) <= Interval[h]
      BY <1>5, <3>2 DEF Served
    <3>4. 2 * wait'[h] > Base /\ wait'[h] \in Nat
      BY <1>5, <3>2 DEF Served, TypeOK
    <3>5. r >= s
      <4>1. r \in Int /\ seq' \in Int /\ s + k - 1 = seq'
        BY <3>1, <3>2, <3>3
      <4> QED BY <2>1, <2>2, <3>3, <3>4, <4>1, LastServedInWindow
    <3>6. r \in s .. s + k - 1
      BY <2>1, <2>2, <3>1, <3>2, <3>3, <3>5
    <3> QED BY <3>3, <3>6 DEF k
  <2> QED BY <1>1, <2>1, <2>2, <2>3, <2>4
<1> QED BY <1>5, <1>6 DEF GridInv

LEMMA GridNext == GridInv /\ [Next]_vars => GridInv'
<1> SUFFICES ASSUME GridInv, [Next]_vars PROVE GridInv'
  OBVIOUS
<1>0. TypeOK'
  BY TypeNext DEF GridInv
<1>1. ASSUME NEW d \in Base .. Base + Late, Tick(d) PROVE GridInv'
  BY <1>0, <1>1, GridTick
<1>2. ASSUME NEW h \in Hosts, NEW s \in Rows, NEW from \in TaskState \ {"none"},
             NEW to \in TaskState \ {"none"},
             Step(h, s, from, to), UNCHANGED <<seq, wait>>
      PROVE  GridInv'
  BY <1>0, <1>2, GridKept DEF Step, GridInv, TypeOK
<1>3. ASSUME NEW h \in Hosts, NEW s \in Rows,
             \/ Delayed(h, s) \/ BeginPing(h, s) \/ SkipPing(h, s)
             \/ PacketLeaves(h, s)
             \/ \E res \in Outcome : PingDone(h, s, res)
      PROVE  GridInv'
  BY <1>2, <1>3 DEF Delayed, BeginPing, SkipPing, PacketLeaves, PingDone, TaskState
<1>4. CASE CloseLoop
  BY <1>0, <1>4, GridKept DEF CloseLoop
<1>5. CASE UNCHANGED <<seq, wait, task>>
  BY <1>0, <1>5, GridKept
<1>6. CASE (\E h \in Hosts : Translated(h) \/ EngineFails(h)) \/ Quit \/ UNCHANGED vars
  BY <1>4, <1>5, <1>6 DEF Translated, EngineFails, Quit, vars
<1> QED BY <1>1, <1>3, <1>4, <1>6 DEF Next, Shutdown

\* The scheduler with its half base of tolerance pings every column at least
\* once in every window of as many rows as its interval has base intervals,
\* rounded to the nearest, for all intervals, however late the ticks come.
THEOREM GridServesEveryColumn == Spec => []EveryIntervalServed
<1>1. GridInv => EveryIntervalServed
  BY DEF GridInv
<1> QED BY <1>1, GridInit, GridNext, PTL DEF Spec

-----------------------------------------------------------------------------
(* The promise of PingStream *)

\* The rows and outcomes of the two modules are the same ones.
LEMMA SameData == Stream!Rows = Rows /\ Stream!Outcome = Outcome
BY DEF Rows, Outcome, LostPing, ErrorPing,
       Stream!Rows, Stream!Outcome, Stream!LostPing, Stream!ErrorPing

\* Every step of the process is a step of the stream, or none of its business.
LEMMA StepIsStreamStep ==
  IInv /\ [Next]_vars => [Stream!StreamNext]_Stream!streamVars
<1> SUFFICES ASSUME IInv, Next
             PROVE  Stream!StreamNext \/ UNCHANGED <<event, open>>
  BY DEF vars, Stream!streamVars
<1>1. ASSUME NEW h \in Hosts, NEW s \in Rows, BeginPing(h, s)
      PROVE  Stream!Send(h, s)
  BY <1>1 DEF BeginPing, Step, Stream!Send, IInv, TasksTellCells, TaskTellsCell
<1>2. ASSUME NEW h \in Hosts, NEW s \in Rows, NEW res \in Outcome, PingDone(h, s, res)
      PROVE  Stream!Result(h, s, res)
  BY <1>2 DEF PingDone, Step, Stream!Result, IInv, TasksTellCells, TaskTellsCell
<1>3. ASSUME CloseLoop
      PROVE  Stream!Close
  <2>1. ASSUME NEW h \in Hosts, NEW s \in Rows
        PROVE  LastReport(h, s) = Stream!Cancelled(event[h][s])
    BY <1>3 DEF LastReport, OnTheWay, Stream!Cancelled, CloseLoop, IInv, TypeOK, TaskState,
         TasksTellCells, TaskTellsCell
  <2> QED BY <1>3, <2>1, SameData DEF CloseLoop, Stream!Close
<1>4. CASE UNCHANGED <<event, open>>
  BY <1>4
<1> QED BY <1>1, <1>2, <1>3, <1>4, SameData DEF Next, Tick, Translated, EngineFails, Shutdown,
          Delayed, SkipPing, PacketLeaves, Quit, Stream!StreamNext

\* The process implements PingStream: for every host and row at most one send,
\* then at most one result, and nothing once the loop is closed.
THEOREM ImplementsStream == Spec => Stream!StreamSafety
<1>1. Init => Stream!StreamInit
  BY SameData DEF Init, Stream!StreamInit
<1> QED BY <1>1, StepIsStreamStep, Inductive, PTL DEF Spec, Stream!StreamSafety

=============================================================================
