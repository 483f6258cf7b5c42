---------------------------- MODULE RemoteFeeder ----------------------------
(***************************************************************************)
(* remote_feeder of scripts/pingtui.py: one task per transport that runs   *)
(* `<transport> pingtui --json <targets>`, reads its events line by line   *)
(* and writes them into the columns of the group.  The remote process is   *)
(* the abstract PingStream; between the two is a FIFO pipe.  Modelled are  *)
(* lines that are not events, the death of the connection, the restart     *)
(* when a locally translated (@@) target has a new address or the user     *)
(* forces a translation, and the error rows with their backoff.            *)
(*                                                                         *)
(* The remote numbers its rows from 1; offset moves them to free rows of   *)
(* the local table.                                                        *)
(***************************************************************************)
EXTENDS PingColumn, SequencesExt

CONSTANTS NHosts,     \* number of columns in the group, in command line order
          AtHosts,    \* the @@ columns, whose name this process translates
          Address,    \* addresses a name may have; the others' remote_spec too
          RemoteSpec, \* remote_spec of each column (used when not @@)
          NoKey,      \* not translated yet; not part of the connection
          MaxPipe,    \* bound on the lines in the pipe
          MaxGrid,    \* bound on the rows of the local columns (0: there are none)
          Results,    \* the outcomes the probes of the remote produce
          Banner,     \* kinds of lines before the events, the start line among them
          Aborts,     \* the remote event loop may be torn down by an exception
          Collide     \* two columns may have the same key

ASSUME GroupAssumption ==
  /\ NHosts \in Nat \ {0}
  /\ AtHosts \subseteq 1 .. NHosts
  /\ NoKey \notin Address
  /\ RemoteSpec \in [1 .. NHosts -> Address]
  /\ MaxPipe \in Nat
  /\ MaxGrid \in 0 .. MaxSeq
  /\ Results \subseteq Outcome
  /\ Banner \subseteq {"text", "json", "start"}
  /\ Aborts \in BOOLEAN
  /\ Collide \in BOOLEAN

Hosts == 1 .. NHosts
Key   == Address \cup {NoKey}

VARIABLES pc,       \* where the feeder is
          col,      \* the columns of the group
          ip,       \* prober.ip of the @@ columns
          forced,   \* state["rgen"] has moved since gen0 was read
          grid,     \* state["seq"], driven by the local columns
          sent,     \* the key each column was sent under, NoKey if it was not
          offset,
          backoff,
          pipe,     \* lines written by the remote and not read yet
          event,    \* the remote instance (PingStream)
          open

local  == <<col, ip, forced, grid>>
conn   == <<sent, offset, backoff>>
remote == <<event, open>>
vars   == <<pc, local, conn, pipe, remote>>

R == INSTANCE PingStream
       WITH MaxSeq <- MaxSeq, Hosts <- Hosts, event <- event, open <- open

Line == [kind : {"send", "result", "note"}, h : Hosts, s : Rows,
         res : Outcome \cup {"none", "pending"}]
        \cup [kind : {"text", "json", "start"}]

TypeOK == /\ pc \in {"idle", "spawn", "read", "backoff", "crashed", "stopped"}
          /\ col \in [Hosts -> Column]
          /\ ip \in [Hosts -> Key]
          /\ forced \in BOOLEAN
          /\ grid \in 0 .. MaxSeq
          /\ sent \in [Hosts -> Key]
          /\ offset \in 0 .. MaxSeq
          /\ backoff \in 2 .. 30
          /\ pipe \in Seq(Line)
          /\ R!StreamTypeOK

FirstBackoff == 2     \* seconds

NoEvents == [h \in Hosts |-> [s \in Rows |-> "none"]]

Init == /\ pc = "idle"
        /\ col = [h \in Hosts |-> EmptyColumn]
        /\ ip = [h \in Hosts |-> NoKey]
        /\ forced = FALSE
        /\ grid = 0
        /\ sent = [h \in Hosts |-> NoKey]
        /\ offset = 0
        /\ backoff = FirstBackoff
        /\ pipe = << >>
        /\ event = NoEvents
        /\ open = FALSE

-----------------------------------------------------------------------------
(* What the feeder shares with the rest of the process *)

\* The resolver of an @@ column has a new address; it never goes back to none.
Translate(h, a) ==
  /\ pc \notin {"crashed", "stopped"}
  /\ h \in AtHosts /\ ip[h] # a
  /\ Collide \/ \A g \in Hosts : a # ip[g] /\ a # RemoteSpec[g]
  /\ ip' = [ip EXCEPT ![h] = a]
  /\ UNCHANGED <<pc, col, forced, grid, conn, pipe, remote>>

\* The key r.
ForceResolve == /\ pc \notin {"crashed", "stopped"}
                /\ forced' = TRUE
                /\ UNCHANGED <<pc, col, ip, grid, conn, pipe, remote>>

\* The scheduler of the local columns begins a row.
GridTick == /\ pc \notin {"crashed", "stopped"}
            /\ grid < MaxGrid                                \* bound
            /\ grid' = grid + 1
            /\ UNCHANGED <<pc, col, ip, forced, conn, pipe, remote>>

-----------------------------------------------------------------------------
(* The connection *)

KeyOf(h) == IF h \in AtHosts THEN ip[h] ELSE RemoteSpec[h]
Active   == {h \in Hosts : sent[h] # NoKey}

\* A slip: only the grid is looked at, which stands still without local columns.
GridOffset(g, c) == g

\* The first row that is free in every column of the group, less one.
FreeOffset(g, c) == Max({g} \cup {c[h].lastPing : h \in Hosts})

\* The top of the loop, after at most 3 s of waiting for the @@ columns: what
\* is sent, to which rows it comes, and the rgen it answers to.  With nothing
\* to send the loop sleeps and looks again.
Compose ==
  /\ pc = "idle"
  /\ \E h \in Hosts : KeyOf(h) # NoKey
  /\ sent' = [h \in Hosts |-> KeyOf(h)]
  /\ offset' = FreeOffset(grid, col)
  /\ forced' = FALSE
  /\ pc' = "spawn"
  /\ UNCHANGED <<col, ip, grid, backoff, pipe, remote>>

\* create_subprocess_exec succeeds: a new remote instance, and a new pipe.
Spawn == /\ pc = "spawn"
         /\ pc' = "read"
         /\ open' = TRUE
         /\ UNCHANGED <<local, conn, pipe, event>>

\* The remote is gone (terminated or at its end), and its pipe with it.
Gone == /\ pipe' = << >>
        /\ open' = FALSE
        /\ event' = NoEvents

\* A slip: the row the failed connection began with is taken in every column.
ErrorRowAligned(c) == Resolve(Add(c, offset + 1), offset + 1, "detailed")

\* _feeder_error: a row of the failed connection in every column of the group.
ErrorRow(c) == Resolve(Add(c, c.lastPing + 1), c.lastPing + 1, "detailed")

Fail == /\ \A h \in Hosts : col[h].lastPing < MaxSeq      \* bound
        /\ col' = [h \in Hosts |-> ErrorRow(col[h])]
        /\ pc' = "backoff"
        /\ UNCHANGED <<ip, forced, grid, conn>>

\* The command of the transport cannot be started (OSError).
SpawnFails == pc = "spawn" /\ Fail /\ Gone

\* The remote closed its standard output and everything was read.
Eof == pc = "read" /\ pipe = << >> /\ ~open /\ Fail /\ Gone

Retry == /\ pc = "backoff"
         /\ pc' = "idle"
         /\ backoff' = Min({2 * backoff, 30})
         /\ UNCHANGED <<local, sent, offset, pipe, remote>>

-----------------------------------------------------------------------------
(* Reading a line *)

\* by_rspec: of two columns sent under one key the later one gets the events.
Owner(key) == Max({h \in Active : sent[h] = key})

ApplySend(c, s) == IF c.ping[s] = "none" THEN Add(c, s) ELSE c

ApplyResult(c, s, res) ==
  LET p == ApplySend(c, s)
  IN  IF p.ping[s] = "pending" THEN Resolve(p, s, res) ELSE p

\* A slip: the rows of a new connection are taken as they come.
ApplyUnmoved(c, m) == CASE m.kind = "send"   -> ApplySend(c, m.s)
                        [] m.kind = "result" -> ApplyResult(c, m.s, m.res)
                        [] m.kind = "note"   -> NoteRow(c, m.s)

\* _apply_remote_event
Apply(c, m) == LET s == m.s + offset
               IN  CASE m.kind = "send"   -> ApplySend(c, s)
                     [] m.kind = "result" -> ApplyResult(c, s, m.res)
                     [] m.kind = "note"   -> NoteRow(c, s)

\* A slip: a column that was not translated in time is never added.
StaleAmongSent == forced \/ \E h \in AtHosts \cap Active : ip[h] # sent[h]

\* An @@ column has another address than the connection, or one at last, or the
\* user forces a translation.
Stale == forced \/ \E h \in AtHosts : ip[h] # sent[h]

BackoffOnEvent(b) == FirstBackoff

\* An event is applied, and only then is it seen that the connection is stale.
ReadEvent ==
  /\ pc = "read" /\ pipe # << >>
  /\ Head(pipe).kind \in {"send", "result", "note"}
  /\ col' = [col EXCEPT ![Owner(sent[Head(pipe).h])] = Apply(@, Head(pipe))]
  /\ backoff' = BackoffOnEvent(backoff)
  /\ IF Stale
     THEN pc' = "idle" /\ Gone                               \* proc.terminate()
     ELSE pipe' = Tail(pipe) /\ UNCHANGED <<pc, remote>>
  /\ UNCHANGED <<ip, forced, grid, sent, offset>>

\* A line of a banner that is no JSON is skipped.  One that is JSON but not an
\* object has no get(), and the exception ends the feeder.  The first line of
\* pingtui itself says that it started: no event of a ping, but a line after
\* which it is seen that the connection is stale.
ReadBanner ==
  /\ pc = "read" /\ pipe # << >>
  /\ Head(pipe).kind \in {"text", "json", "start"}
  /\ \/ Head(pipe).kind = "json" /\ pc' = "crashed" /\ Gone
     \/ Head(pipe).kind = "start" /\ Stale /\ pc' = "idle" /\ Gone
     \/ /\ Head(pipe).kind # "json" /\ ~ (Head(pipe).kind = "start" /\ Stale)
        /\ pipe' = Tail(pipe) /\ UNCHANGED <<pc, remote>>
  /\ UNCHANGED <<local, conn>>

\* The engine is cancelled; the finally clause terminates the remote.
Quit == /\ pc \notin {"crashed", "stopped"}
        /\ pc' = "stopped"
        /\ Gone
        /\ UNCHANGED <<local, conn>>

-----------------------------------------------------------------------------
(* The remote instance *)

Message(kind, h, s, res) == [kind |-> kind, h |-> h, s |-> s, res |-> res]

Emit(m) == /\ pc = "read" /\ open
            /\ Len(pipe) < MaxPipe                            \* bound
            /\ pipe' = Append(pipe, m)
            /\ UNCHANGED <<pc, local, conn>>

RemoteSend(h, s) == /\ h \in Active /\ s + offset <= MaxSeq   \* bound
                    /\ R!Send(h, s)
                    /\ Emit(Message("send", h, s, "none"))

RemoteResult(h, s, res) == /\ h \in Active
                           /\ R!Result(h, s, res)
                           /\ Emit(Message("result", h, s, res))

\* A resolver or reverse note, of the row the remote has reached.
RemoteNote(h, s) == /\ h \in Active /\ s + offset <= MaxSeq
                    /\ s = Max({1} \cup {r \in Rows : \E g \in Hosts : event[g][r] # "none"})
                    /\ Emit(Message("note", h, s, "none"))
                    /\ UNCHANGED remote

\* The login shell of the transport prints before pingtui does, and pingtui
\* its first line before its events.
RemoteBanner(kind) == /\ event = NoEvents
                      /\ Emit([kind |-> kind])
                      /\ UNCHANGED remote

OnTheWay == {p \in Hosts \X Rows : event[p[1]][p[2]] = "send"}

\* The remote event loop is torn down: pings on the way are reported "pending".
RemoteAborts ==
  /\ Aborts /\ pc = "read"
  /\ R!Close
  /\ pipe' = pipe \o SetToSeq({Message("result", p[1], p[2], "pending") : p \in OnTheWay})
  /\ UNCHANGED <<pc, local, conn>>

\* The connection drops, and some of what it carried is lost.
RemoteDies == /\ pc = "read" /\ open
              /\ open' = FALSE
              /\ \E n \in 0 .. Len(pipe) : pipe' = SubSeq(pipe, 1, n)
              /\ UNCHANGED <<pc, local, conn, event>>

-----------------------------------------------------------------------------

Feeder == Compose \/ Spawn \/ SpawnFails \/ ReadEvent \/ ReadBanner \/ Eof \/ Retry

Next == \/ \E h \in Hosts, a \in Address : Translate(h, a)
        \/ ForceResolve
        \/ GridTick
        \/ Compose
        \/ Spawn
        \/ SpawnFails
        \/ ReadEvent
        \/ ReadBanner
        \/ Eof
        \/ Retry
        \/ Quit
        \/ \E h \in Hosts, s \in Rows :
             \/ RemoteSend(h, s)
             \/ \E res \in Results : RemoteResult(h, s, res)
             \/ RemoteNote(h, s)
        \/ \E kind \in Banner : RemoteBanner(kind)
        \/ RemoteAborts
        \/ RemoteDies

Spec == Init /\ [][Next]_vars

\* The event loop runs the feeder whenever it can go on, and every ping of a
\* living remote ends.
FairSpec == /\ Spec
            /\ WF_vars(Feeder)
            /\ \A h \in Hosts, s \in Rows :
                 WF_vars(\E res \in Results : RemoteResult(h, s, res))

\* Moreover a living remote keeps reporting, as it does while it has something
\* to ping or to translate periodically.
ChattySpec == FairSpec /\ WF_vars(\E h \in Hosts, s \in Rows : RemoteNote(h, s))

-----------------------------------------------------------------------------
(* Properties *)

\* The statistics of the remote columns agree with their cells: nothing is
\* counted twice over reconnections, error rows and repeated events.
ColumnsConsistent == \A h \in Hosts : Consistent(col[h])

\* Whatever the remote reports on its way down, every ping that was sent is
\* counted exactly once: as received, as lost, or as on the way.
StatisticsAddUp == \A h \in Hosts :
  col[h].sent = col[h].recv + col[h].lost + Cardinality(col[h].inflight)

\* A connection writes to rows no earlier one used, although each remote counts
\* from 1 and every column may have stopped at another row.
RowsFree == pc \in {"spawn", "read"} =>
              \A h \in Hosts, s \in Rows :
                s > offset /\ col[h].ping[s] # "none" =>
                  \E g \in Active : sent[g] = sent[h] /\ event[g][s - offset] # "none"

\* What a cell shows of an event of the remote.
Shown(e) == IF e = "send" THEN "pending" ELSE e

\* Once everything is read, the columns show exactly what the remote reported.
MirrorsRemote ==
  pc = "read" /\ pipe = << >> /\ open =>
    \A h \in Active, s \in Rows :
      s + offset <= MaxSeq => col[h].ping[s + offset] = Shown(event[h][s])

\* An answer in the table is never overwritten nor removed by a later
\* connection, a repeated line or an error row.
AnswersStay ==
  [][\A h \in Hosts, s \in Rows :
       col[h].ping[s] \in Outcome => col'[h].ping[s] = col[h].ping[s]]_vars

Full == \E h \in Hosts : col[h].lastPing = MaxSeq    \* the bound is reached

\* A connection over a changed translation is replaced and a late @@ column is
\* added to it.
PendingJoins ==
  \A h \in AtHosts : ip[h] # NoKey ~>
    (sent[h] = ip[h] \/ Full \/ pc \in {"crashed", "stopped"})

=============================================================================
