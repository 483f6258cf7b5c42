------------------------------ MODULE PingLoop ------------------------------
(***************************************************************************)
(* One pingtui process pinging its local targets: scheduler, the one_ping  *)
(* tasks it creates, the readiness of their probes, quitting, and the end  *)
(* of the event loop (scripts/pingtui.py).                                 *)
(*                                                                         *)
(* asyncio runs one task at a time, so an action is what a task does from  *)
(* one suspension to the next.  Intervals are any numbers (i=2.9), so time  *)
(* is counted in a unit of which the base interval and every interval are  *)
(* whole multiples: the scheduler sleeps Base units between ticks, plus    *)
(* what the loop is late, and wait[h] is due[h] - now as of the last tick. *)
(***************************************************************************)
EXTENDS PingColumn

CONSTANTS NHosts,      \* number of local columns
          Base,        \* the base interval: the smallest one, -i included
          Interval,    \* interval of each column
          Late,        \* how late a tick may come
          Staggered    \* the stagger offset (-s) is not zero

ASSUME NHostsAssumption == NHosts \in Nat \ {0}

Hosts == 1 .. NHosts

ASSUME BaseAssumption == Base \in Nat \ {0}

\* base is the minimum of -i and of every i=
ASSUME IntervalAssumption == Interval \in [Hosts -> {n \in Nat : n >= Base}]
ASSUME OptionAssumption   == Late \in Nat /\ Staggered \in BOOLEAN

VARIABLES json,     \* --json: no terminal, the process dies with the engine
          quit,     \* state["quit"]
          seq,      \* state["seq"]
          engine,   \* the engine task: "running", or "dead" after an exception
          open,     \* the event loop runs
          wait,     \* scheduler: time left until each column is due
          task,     \* where the one_ping task of a column and row is
          ready,    \* the column's probe knows an address (IcmpProbe.ip)
          col,      \* the columns
          event     \* what _notify reported last for a column and row

vars == <<json, quit, seq, engine, open, wait, task, ready, col, event>>

\* "starting" is a ping that is begun and whose packet has not left: its probe
\* waits for getaddrinfo or for the creation of a process.
TaskState == {"none", "delay", "prepare", "starting", "probe", "done"}

TypeOK == /\ json \in BOOLEAN
          /\ quit \in BOOLEAN
          /\ seq \in 0 .. MaxSeq
          /\ engine \in {"running", "dead"}
          /\ open \in BOOLEAN
          /\ wait \in [Hosts -> Nat]
          /\ task \in [Hosts -> [Rows -> TaskState]]
          /\ ready \in [Hosts -> BOOLEAN]
          /\ col \in [Hosts -> Column]
          /\ event \in [Hosts -> [Rows -> Outcome \cup {"none", "send", "pending"}]]

Init == /\ json \in BOOLEAN
        /\ quit = FALSE
        /\ seq = 0
        /\ engine = "running"
        /\ open = TRUE
        /\ wait = [h \in Hosts |-> 0]
        /\ task = [h \in Hosts |-> [s \in Rows |-> "none"]]
        /\ ready \in [Hosts -> BOOLEAN]      \* IP literals and dns: are ready
        /\ col = [h \in Hosts |-> EmptyColumn]
        /\ event = [h \in Hosts |-> [s \in Rows |-> "none"]]

-----------------------------------------------------------------------------

\* A slip: no tolerance, so a late rounding of the grid costs a whole row.
DueExactly(d) == {h \in Hosts : wait[h] <= d}

\* The columns whose due time is reached, with half a base of tolerance,
\* when d units have passed since the last tick.
Due(d) == {h \in Hosts : 2 * wait[h] <= 2 * d + Base}

\* Only the first column of a tick sends at once, the k-th one k offsets later.
FirstStep(h, d) == IF Staggered /\ \E g \in Due(d) : g < h THEN "delay" ELSE "prepare"

Tick(d) ==
  /\ open /\ engine = "running" /\ ~quit
  /\ seq < MaxSeq
  /\ seq' = seq + 1
  /\ task' = [h \in Hosts |-> IF h \in Due(d)
                              THEN [task[h] EXCEPT ![seq + 1] = FirstStep(h, d)]
                              ELSE task[h]]
  /\ wait' = [h \in Hosts |-> IF h \in Due(d) THEN Interval[h] ELSE wait[h] - d]
  /\ UNCHANGED <<json, quit, engine, open, ready, col, event>>

Step(h, s, from, to) == /\ open
                        /\ task[h][s] = from
                        /\ task' = [task EXCEPT ![h][s] = to]

\* The stagger delay is over; a task that wakes after quit ends here.
Delayed(h, s) ==
  /\ Step(h, s, "delay", IF quit THEN "done" ELSE "prepare")
  /\ UNCHANGED <<json, quit, seq, engine, open, wait, ready, col, event>>

\* A slip: quit is not looked at again after the await.
MayBeginAfterQuit(h) == ready[h]

MayBegin(h) == ready[h] /\ ~quit

\* prepare() returned and there is an address: the cell becomes pending, and
\* the probe is called.  It awaits something before its packet.
BeginPing(h, s) ==
  /\ Step(h, s, "prepare", "starting")
  /\ MayBegin(h)
  /\ col' = [col EXCEPT ![h] = Add(@, s)]
  /\ event' = [event EXCEPT ![h][s] = "send"]
  /\ UNCHANGED <<json, quit, seq, engine, open, wait, ready>>

\* prepare() gave up without an address, or the user quit meanwhile.
SkipPing(h, s) ==
  /\ Step(h, s, "prepare", "done")
  /\ ~MayBegin(h)
  /\ UNCHANGED <<json, quit, seq, engine, open, wait, ready, col, event>>

\* getaddrinfo has answered and sendto is called, or the process of ping runs.
\* Nobody asks again whether the user has quit.
PacketLeaves(h, s) ==
  /\ Step(h, s, "starting", "probe")
  /\ UNCHANGED <<json, quit, seq, engine, open, wait, ready, col, event>>

OnTheWay == {t \in Hosts \X Rows : task[t[1]][t[2]] \in {"starting", "probe"}}

\* The probe answered, failed, raised, or gave up after max_wait; without a
\* packet (no such name, no socket, no ping program) it can only fail.
PingDone(h, s, res) ==
  /\ \/ Step(h, s, "starting", "done") /\ res \in ErrorPing
     \/ Step(h, s, "probe", "done")
  /\ col' = [col EXCEPT ![h] = Resolve(@, s, res)]
  /\ event' = [event EXCEPT ![h][s] = res]
  /\ UNCHANGED <<json, quit, seq, engine, open, wait, ready>>

\* The resolver task of the column found an address (see Resolver).
Translated(h) ==
  /\ open /\ engine = "running"
  /\ ~ready[h]
  /\ ready' = [ready EXCEPT ![h] = TRUE]
  /\ UNCHANGED <<json, quit, seq, engine, open, wait, task, col, event>>

\* The keys q and Esc, and Ctrl-C; a --json instance has no keyboard.
Quit ==
  /\ open /\ ~json /\ ~quit
  /\ quit' = TRUE
  /\ UNCHANGED <<json, seq, engine, open, wait, task, ready, col, event>>

\* A slip: a cancelled probe leaves no trace (no finally clause).
SilentLastReport(h, s) == event[h][s]

\* one_ping's finally clause reports a ping whose probe is cancelled, with the
\* status it has.
LastReport(h, s) == IF <<h, s>> \in OnTheWay THEN "pending" ELSE event[h][s]

\* asyncio.run cancels every task that is left; nothing is resolved any more.
CloseLoop ==
  /\ open
  /\ open' = FALSE
  /\ engine' = "dead"
  /\ task' = [h \in Hosts |-> [s \in Rows |->
                IF task[h][s] = "none" THEN "none" ELSE "done"]]
  /\ event' = [h \in Hosts |-> [s \in Rows |-> LastReport(h, s)]]
  /\ UNCHANGED <<json, quit, seq, wait, ready, col>>

\* The renderer sees quit and amain ends; a signal or a closed pipe ends a
\* --json instance at any moment.
Shutdown == (quit \/ json) /\ CloseLoop

\* The resolver task of a column that has no address yet ends with an exception
\* it does not catch (getaddrinfo raises UnicodeError for a name IDNA cannot
\* encode): engine cancels the other tasks.  Nobody awaits the engine of a
\* terminal session until it quits.
EngineFails(h) ==
  /\ engine = "running" /\ seq > 0 /\ ~ready[h]
  /\ IF json
     THEN CloseLoop
     ELSE /\ open
          /\ engine' = "dead"
          /\ UNCHANGED <<json, quit, seq, open, wait, task, ready, col, event>>

Next == \/ \E d \in Base .. Base + Late : Tick(d)
        \/ \E h \in Hosts :
             \/ Translated(h)
             \/ EngineFails(h)
             \/ \E s \in Rows : \/ Delayed(h, s)
                                \/ BeginPing(h, s)
                                \/ PacketLeaves(h, s)
                                \/ SkipPing(h, s)
                                \/ \E res \in Outcome : PingDone(h, s, res)
        \/ Quit
        \/ Shutdown

Spec == Init /\ [][Next]_vars

\* The event loop serves every runnable task, timers fire, every probe ends
\* within max_wait.  Nothing obliges a name to be translated or the user to quit.
Fairness == /\ WF_vars(\E d \in Base .. Base + Late : Tick(d))
            /\ WF_vars(quit /\ CloseLoop)
            /\ \A h \in Hosts, s \in Rows :
                 WF_vars(\/ Delayed(h, s) \/ BeginPing(h, s) \/ SkipPing(h, s)
                         \/ PacketLeaves(h, s)
                         \/ \E res \in Outcome : PingDone(h, s, res))

FairSpec == Spec /\ Fairness

-----------------------------------------------------------------------------
(* Properties *)

\* The statistics below the table agree with its cells, whatever order the
\* answers come in: Host.add, Host.resolve and one_ping.
ColumnsConsistent == \A h \in Hosts : Consistent(col[h])

\* A ping counted as on the way has a task that will end it, and only such a
\* ping: no pending cell is orphaned and no task works for a cell that is
\* already answered, also after the engine has died.
InflightHasTask ==
  open => \A h \in Hosts :
            col[h].inflight = {s \in Rows : <<h, s>> \in OnTheWay}

\* Once the user has quit no ping is begun, although tasks created before may
\* still be waiting for their stagger offset or for an address: the pings on
\* the way only become fewer, and a packet that still leaves is that of a ping
\* which was begun, and counted as sent, before.
QuitBeginsNothing == [][quit => /\ OnTheWay' \subseteq OnTheWay
                                /\ \A h \in Hosts : col'[h].sent = col[h].sent]_vars

\* The interval of a column in rows: rounded to the nearest, a half down.
RowsPerPing(h) == (2 * Interval[h] + Base - 1) \div (2 * Base)

\* The common grid serves every column at its interval, rounded to whole rows:
\* a column is pinged in every window of that many rows, however late the
\* ticks come.
EveryIntervalServed ==
  \A h \in Hosts, s \in Rows :
    s + RowsPerPing(h) - 1 <= seq =>
      \E r \in s .. s + RowsPerPing(h) - 1 : task[h][r] # "none"

\* The process keeps the promise of PingStream.
Stream == INSTANCE PingStream
            WITH MaxSeq <- MaxSeq, Hosts <- Hosts, event <- event, open <- open
StreamContract == Stream!StreamSpec

=============================================================================
