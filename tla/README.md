# userconfig: models, checks and proofs

`userconfig` is one person's machine configuration: a library of shell functions that
installs configuration files and records what was installed where, and the programs that are
installed with it.  The largest is `scripts/pingtui.py`, an asyncio program that pings many
targets at once, partly through instances of itself on other machines, and shows the results
in a terminal table.

This directory holds TLA+ modules of the parts whose behaviour depends on the order of
events or on what is easily computed wrong, TLC configurations that check them on small
instances, and TLAPS proofs of what matters most for every instance.

    tlc -workers 2 -config PingLoop.cfg MCPingLoop.tla     # one run
    tlapm PingLoop_proofs.tla                              # one module of proofs

`PROJECT.json` lists the runs, for each property a mutation of the modelled code that breaks
it (the definitions commented "A slip" or "Slip" beside the one they replace), the source
lines of every definition, the hazards and the theorems.

## 1. Inventory

### pingtui (`src/scripts/pingtui.py`)

One process, one asyncio event loop.  A task runs until it awaits, so the unit of
interleaving is the code between two awaits.

| part | state | operations | what is hard | what makes it correct |
|---|---|---|---|---|
| columns and statistics (`Host`) | `pings`, `inflight`, counters `sent recv lost neg`, last rows | `add`, `resolve`, `note` | the counters are incremental and nothing recounts them; answers come in any order | they always equal what the dictionary says |
| scheduler and `one_ping` | the row number, a due time per column, one task per ping | a tick every base interval, `one_ping` up to the packet and up to the answer, quitting, the end of the loop | columns of different intervals on one grid, late ticks, two awaits between the start of a task and its cell and one more before the packet, cancellation at the end | every column is served at its interval; no ping is begun after `q`; events are well formed |
| remote feeder | process, pipe, row offsets, backoff, last key of each column | composing the command, spawning, reading a line, restart, error rows | the other end dies, is restarted, prints foreign lines; rows are numbered from 1 again | rows never collide, answers never disappear, every ping is counted once, new translations reach the connection |
| resolver | address, error, header lines, reverse lookups on the way | a round, a lookup, a reverse lookup, the key `r` | lookups outlive rounds and end in any order; events that are set and cleared at once | the header names the address that is pinged, placeholders end, failures take nothing away |
| terminal table, history | registry of note rows, row count, scroll offset | notes, keys, drawing, the print-out at the end | the row count is computed in O(1) from counters that change elsewhere; the window must stand still while rows appear below | the count is exact, the window full and anchored, the history complete |
| native pinger | 16-bit sequence counter, dictionary of futures, sockets | `ping`, the reader callbacks, the timeout | wrap-around, late and foreign answers, a timeout and an answer in one turn | an answer is given once; to another ping only when the counter has come round |
| target grammar | none | `parse_spec` and its helpers, `remote_spec` | parameters in two places, commas and `@` inside each | parsed as documented, or what is lost is known; the other end reads the same |
| hop, interface and gateway lookup | none between calls | `_hop_lookup`, `_if_lookup`, `_gateway_lookup` | two probes one after the other, lost answers, paths that change, other messages in the output; host parts of networks that end within a byte | the hop found is at that distance, or the reason why not is one of the known ones, the address is in the network, the gateway is the one the kernel takes |
| DNS probe | a query id | building the query, skipping names, reading replies until the deadline | foreign, late and cut-off datagrams | the result is that of the own reply, in time |
| subprocess pinger | none | one `ping` per probe, reading its output | words that stand for an outcome are also in headers and names | every answer is counted, the errors that are taken for losses are known, the detail says why |

The parts share `state` (row number, note registry, scrolling) and the columns.  The
scheduler creates `one_ping` tasks; these and the feeder write into columns and call
`_notify`; a `--json` instance prints each notification, which is what the feeder of another
instance reads.

### The install library and its records

| part | state | operations | what is hard | what makes it correct |
|---|---|---|---|---|
| `userconfig-lib.sh` | `state/<name>/<second>/` with `version` and `state`, links `last` and `last_ok` | `install_begin`, `install_ok`, `err`, `r`, `confln`, `reln`, `clean_userinstall` | no locks; runs die between any two commands; `test -h`, `rm` and `ln` are three steps; `err` is `exit 1`, also in a subshell | what is recorded as installed came to the end of its script |
| installation state: `state_push.sh`, `state_server/`, `instpect-state.py`, `ssh/gen-authorized-keys.sh` | a copy of every device's `state` on a server | remove-and-extract, the table of states, keys collected through `last_ok` | the copy is taken while installations run, the connection breaks between removal and extraction | a copy claims nothing the device never had |
| `confln` | the installed file and its backup | expanding conditional blocks, comparing, linking | overwriting what the user changed | no file is lost |

### The other programs

| part | state, operations, and what is hard |
|---|---|
| `scripts/treediff.py` | a merge of two directory trees with verdicts; in the interface a list, a cursor, a window, unfolded directories, filters: all carried over reloads while the trees change on the disk |
| `mail/` | a daemon that marks folders and runs offlineimap on them, asked through a pipe (`offlineimap-deamon.cpp`): requests while it is down or busy, counts that are being written, runs that fail, its own death; fetching and unpacking |
| `wacom/` | a daemon that turns key and axis events of a tablet into clicks, scrolling and gestures: events in any order |
| `work_log/` | a log of changes of activity, the last of which is open; sums by day and month over clock changes |
| `snapshoter/` | `working/` and `ok/` directories of a device, hard links to the last snapshot, a mounted file system; `status.py` judges ages of snapshots from files that are replaced while it reads |
| `movingssh/` | groups of addresses of a device: which one is used, cached connections |
| `tunel/` | a keepalive over ssh and a server that ends without it |
| `network/` | `ip-man` (profiles of interfaces), the connection-tracking hack, namespaces, small daemons |
| `light/` | one number that is clamped |
| `i3/`, `keymap-python/` | a status line; generators of configuration |
| `mpv/`, `xdg-open/`, `vm/`, `ptouch/`, `scripts/sfs.py` | wrappers around other programs |
| `raspberry/` | one loop around a shell command each |
| configuration data, `old/` | data of other programs; retired programs |

## 2. The modules

| module | models | checked by | proved in |
|---|---|---|---|
| `PingColumn` | class `Host`: pure operators `Add`, `Resolve`, `NoteRow` on a record, and what it means that the statistics agree with the dictionary | the runs of the modules that extend it | `PingColumn_proofs` |
| `PingStream` | abstract: the events a pingtui instance promises. For every host and row at most one `send`, then at most one `result`; closing the loop turns the pings on the way into `pending` | `PingLoop` implements it (property `StreamContract`), `RemoteFeeder` composes it | safety part in `PingLoop_proofs` |
| `PingLoop` | `scheduler`, `one_ping`, readiness of probes, `q`, the end of the loop, an engine that dies | `PingLoop` | `PingLoop_proofs` |
| `RemoteFeeder` | `remote_feeder`, `_apply_remote_event`, `_feeder_error` over a pipe, with `PingStream` on the other end | `RemoteFeeder`, `RemoteFeederLive` | `RemoteFeeder_proofs` |
| `Resolver` | `resolver_task`, `_reverse_task`, the key `r`, notes and header lines | `Resolver` | `Resolver_proofs` |
| `Table` | `_set_note`, the counting and windowing of `draw`, the scrolling keys, `print_history` | `Table` | `Table_proofs` |
| `PingCall` | abstract: what a caller of `ping()` sees. One answer at most, one return, of that answer or of none | `NativePinger` implements it (property `CallContract`) | `NativePinger_proofs` |
| `NativePinger` | the class, with both kinds of sockets | `NativePinger` | `NativePinger_proofs` |
| `SpecParse` | `parse_spec`, `_strip_trailing_params`, `_parse_params`, `remote_spec`, over tokens | `Algorithms` | `Programs_proofs` |
| `Lookup` | `_hop_lookup`, `_if_lookup`, `_gateway_lookup` | `Algorithms` | `Programs_proofs`, but for `_if_lookup` |
| `DnsReply` | `_build_dns_query`, `_dns_skip_name`, `_parse_dns_reply`, `DnsProbe.probe`, over bytes | `Algorithms` | - |
| `SubprocessPinger` | `ping -n -c 1` and how its output is understood | `Algorithms` | `Programs_proofs` |
| `FileTree` | comparing files, the merged tree and its verdicts, the order of rows | `Algorithms`, `TreeDiff` | `Programs_proofs` |
| `WorkLog` | the sums of the work log | `Algorithms` | - |
| `SnapStatus` | the report of `status.py` | `Algorithms` | `Programs_proofs` |
| `Algorithms` | the state machine that runs each of these on one input, and what the results mean | `Algorithms` | `Programs_proofs`, in part |
| `TreeDiff` | `run_tui` of treediff: every key with the frame after it, over `FileTree` | `TreeDiff`, `TreeDiffEmpty` | `Programs_proofs` |
| `MailDaemon` | the daemon, its requesters, its restarts | `MailDaemon` | `Programs_proofs` |
| `WacomDaemon` | `wacom-daemon2.c` | `WacomDaemon` | `Programs_proofs` |
| `Install` | the installation records, their removal, the copy on the server, its readers | `Install` | `Install_proofs` |

An `MC` module gives the constants that a `.cfg` cannot write.  `Programs_proofs` has four
parts: the programs beside pingtui, and what `Algorithms` runs.  They share no state, which is
why three of them name their initial states, steps and specifications apart (`PenSpec`,
`TuiSpec`, `AlgSpec`).

There are two refinements.  `PingLoop` implements `PingStream` with the history of `_notify`
as its `event`; `RemoteFeeder` instantiates the same module as the process behind the pipe,
so what one end is shown to do is what the other end relies on.  `NativePinger` implements
`PingCall` with the futures as answers; the mapping is the `INSTANCE` at the end of each
module.

### How state and actions correspond to the code

**PingColumn, PingLoop.**  `col[h]` is a `Host`; a `Ping` is one value (`pending` or its
outcome; `detailed` is an error with a detail text, which takes a row of its own in the
table).  RTT values are left out.  `task[h][s]` is the position of a `one_ping` task: waiting
for its stagger delay, preparing (in `probe.prepare`), starting (the cell is there, and the
probe awaits `getaddrinfo` or the creation of a process), probing.  `wait[h]` is
`due[h] - now` as of the last tick, in a unit of which the base interval and every interval
are multiples; `Base` is the number of such units in the base interval, so an interval may be any
rational number of base intervals.  `Tick(d)` is one turn of the scheduler `d` units after the last,
including the due times of every column, with the tolerance `base * 0.5`, and the first step
of every task created: tasks with no delay run on at once.

**RemoteFeeder.**  `Compose` is the beginning of the loop body up to the command line,
`Spawn` the process creation with the first row, `ReadEvent` a `readline` with the
application of the event and the conditions of a restart after it, `Eof` the end of output,
`Retry` the sleep of the backoff.  The remote actions (`RemoteSend` ...) put lines into
the pipe.  One feeder, whose transports are independent of each other.

**Resolver.**  `pc[h]` says whether the task looks up or waits; `reverse` is the set of
lookups that run, each with the row it writes to.  A press of `r` sets and clears an event, so
it wakes who waits now (`Woken`).  `asked` remembers of each column since a press whether it
was waiting or being translated then, until its next round begins: one that waited is promised that round, one that
was being translated only if an interval (`Periodic`) brings it, because with `r=0` nothing
does.

**Table.**  Texts are lengths.  `reg`, `nlh` and `nnoterows` are the registry of `_set_note`;
`AllRows` is what `draw` would draw row by row, against which `Total` is compared.
`HistoryRows` is what `print_history` prints, from the texts of the notes and not from the
registry.  `Shared` are the kinds that share a row between columns, in the order they are drawn.  An
error has the kind `err:<spec>`: `ErrOf` is that of each column, which of a note that came
from another instance is a name of its command line, and `Named` the column here that has
this name, if any.  `order` is the order in which the error kinds of a tick came into the registry,
which is that of the screen; the history has them in the order of the columns.

**NativePinger.**  `Width` is 2^16.  `Call` is the call up to `getaddrinfo`, `Send` what
follows it: the next number, the entry under that number whoever has it, `sendto`; `FallBack`
the way into the external program.  `net` holds packets that may be answered any number of
times; numbers are taken again under them and under calls that wait, as nothing prevents it.
`count`, `turn` and `shared` are history: how often a number was taken, the count when a call took
its own, and the calls that waited with one number at once.  `Finish` chooses when the answer and the timeout
come in one turn: what `wait_for` does then differs between the versions of Python.

**Algorithms and the modules under it.**  An input is chosen once and computed in one step.
A target specification is a sequence of tokens, because all the code does is look for
commas and `@`.  A path is the sequence of its routers, which may be silent, refuse, or
send a redirect when they pass a probe on (`talks`); the second probe of `_hop_lookup` may see
another path.  An address is a number of `Bits` bits.
A DNS datagram is its bytes, numbers being kept in their last byte.  The output of `ping`
is its lines, each with the patterns that are found in it.  A file is one of eight
contents that the comparison tells apart.  Days of the work log have `Day` units.

**TreeDiff.**  One action is one key and the frame drawn after it (`Frame`), because the
frame is what puts the selection back into the list.  `disk` is what the directories hold
now, `tree` what they held at the last reload.  `sel` and `top` count from 0, and may become
-1 as in the code.

**MailDaemon.**  `Announce`, `Write` and `GiveUp` are the three moments of a request:
somebody wants something, the line is in the pipe, nobody opened the pipe.  `Read(seen)`
reads the part of `~/.cm` that is there and then handles one request.  `known`, `count`,
`needAct` are the memory that dies.  `owed` and `taken` are history.

**WacomDaemon.**  One action per event of the kernel, at the coordinates of the tablet.
`acted` and `scrolled` are history: what was sent to the X server.

**Install.**  `local` is `state/<name>`, with the run directories named by the second.  An
action is one command, so that another run, a removal or a push comes between any two, and
`Dies` may follow each.  `Start` reads the version, `ReadTime` the second, and the user may
be in vim between the two.  `BodyFails` is a command under `r`, `confln` or `init-service`
that fails: in the script `err` ends the run, in a subshell of it (`mail/init.sh` and
`i3/config-gen/init.sh` have one) it writes `faild`, ends the subshell, and the script goes
on.  `completed` is the history of the runs that came to `install_ok`, `failed` of those `err` ended,
`alone` of the run nobody disturbed, `fresh` says that nothing changed since the
push began.  `ln -s` onto a link that came back follows it and links inside the directory
(`inside`); `err` in the subshell of `reln` does not end the script, and the model does not
either.

## 3. The runs

| run | instance | what it shows |
|---|---|---|
| `PingLoop` | 3 rows, two columns at 1.8 and 2.4 intervals of the grid, ticks up to two fifths of an interval late, stagger; `--json` or terminal; the engine may die | The statistics agree with the cells (`ColumnsConsistent`); while the loop runs the pending cells are those some task works on (`InflightHasTask`); a column is pinged in every window of as many rows as its interval, rounded to the nearest, has base intervals (`EveryIntervalServed`); after `q` no ping is begun, and a packet that still leaves is of a ping counted before (`QuitBeginsNothing`); the events are those of `PingStream`, and each `send` gets its `result` (`StreamContract`, under fairness). |
| `RemoteFeeder` | 3 rows, one column the remote translates and one `@@` column, three addresses, one line in the pipe, one local row, the line the remote starts with, foreign lines, an aborting remote | Totals add up whatever the connection does (`StatisticsAddUp`); each restart starts on rows nobody has used (`RowsFree`); cells of the running connection say what the remote said (`MirrorsRemote`); no answer is overwritten (`AnswersStay`). |
| `RemoteFeederLive` | 2 rows, two `@@` columns that may have the same address, a remote that goes on reporting | A column translated late or anew reaches the connection (`PendingJoins`, under fairness). |
| `Resolver` | a name found by hops with `r=0` and two reverse lookups at once, and a literal with an interval; two addresses, two rows | The header names the address that is pinged (`HeaderShowsPinged`); a placeholder has a lookup that will replace it (`PlaceholderHasLookup`); a failure keeps the address (`AddressKept`); `r` is answered by a column that waits, and by one that is being translated if it has an interval (`PressHeard`, under fairness). |
| `Table` | two rows; one column with pings and notes, one with notes, one whose errors come from another pingtui under the first one's name; a kind of notes shared by the columns, short and wrapped, and error kinds of two columns in one tick; a window of two rows | The O(1) row count equals the drawn rows (`TotalIsExact`); the window is full whenever there are rows for it (`WindowFull`); the rows in view stay (`WindowAnchored`); the history has every row of the screen that says something, up to the last ping, once and tick by tick (`HistoryShowsAll`). |
| `NativePinger` | three calls over two numbers, a raw socket, strangers, calls that fall back | The dictionary holds waiting calls only, and every one that never shared its number (`PendingExact`); a call gets the answer to another one's request only from a whole turn of the counter before (`AnswerOfLastTurn`); the pinger is a `PingCall` (`CallContract`). |
| `Algorithms` | about 44 thousand states: each input, and its result computed in one step; see below | Eight properties, one per algorithm, each comparing the result with what it means and not with another program. |
| `TreeDiff` | directories in directories, in four states of the disk, windows of one to three rows, two filters | The cursor is on the screen whenever there is a row (`SelectionOnScreen`); hiding takes away exactly what it names (`NothingLost`); reloading unchanged trees changes nothing (`ReloadKeepsPlace`). |
| `TreeDiffEmpty` | the same | *violated*: `OnlyQuitEnds`. A movement key in an empty list ends the interface with an exception. |
| `MailDaemon` | two folders, one requester, two requests in the pipe, one change per folder, one death | What is wanted is marked, asked for, or news (`NothingForgotten`); and is done in the end (`WantedIsDone`, under fairness). |
| `WacomDaemon` | four and five positions around the thresholds of scrolling and gestures, keys down at the start | The wheel is never more than half a step from the pen (`ScrollFollowsPen`); one press, one action (`OneActionPerPress`). |
| `Install` | two runs, two seconds, two versions, failures in the script and in a subshell, one push at a time | `OK` in the inspector is of a directory that a run of the present version has, and a run that came to `install_ok` without having been ended by `err` (`OkIsReal`); `last_ok` leads to the directory of such a run (`LastOkSucceeded`), in both places; an undisturbed run repairs what dead or racing ones left (`LinksHeal`); a quiet push is exact (`PushFaithful`). |

The inputs of `Algorithms`:

| property | inputs | what must hold |
|---|---|---|
| `SpecUnderstood` | every documented form with up to two parameters before an `@` and at the end | parsed as documented, unless an `@` part follows a parameter, which is then lost; the remote reads the same target and parameters from `remote_spec`, and loses the server of a `dns:` target with parameters |
| `ProbeUnderstood` | ten ends of a probe after up to two messages of routers, names of targets with the words that are looked for | ok exactly if answered; a loss only if nothing came, or an exceeded TTL or a local rejection, which have no pattern; an error's detail is the first line that says why |
| `HopTruthful` | paths of up to two routers, silent, refusing or neither, any of which may send redirects, two paths, N up to 4, either answer lost | an address that is returned is that of the N-th hop, or of a nearer router that sent a redirect; a nearer target only when an answer got lost or the path changed |
| `LocalAddress` | one or two addresses of 4 and 6 bits with prefixes of length zero, within a digit, and full; every subset of seven routes | the address ends as written and is in the network; the gateway is of the best usable route, v6 only without v4 |
| `OwnReplyInTime` | replies of up to two answers cut after every byte, names by pointers and by labels whose bytes look like an end, one datagram before or after, the id at its wrap | the result is what the first own reply in time says, with the least TTL of the records that came whole |
| `DirectoryTellsTruth` | two trees of two levels over every pair of contents | a directory says what the files below it say |
| `DaysAddUp` | three lines over days of which two have other lengths | days and months add up to the total, up to the hour of a clock change and what lies beyond ten days |
| `StatusHonest` | up to three ages around every limit, files that vanish or are empty | waiting or losing a snapshot never makes the verdict better; an age is shown to a unit |

**Why the bounds are enough.**  Three rows give a row before, at and after an event, and a
first row of a second connection after two used ones.  Two columns are what one action ever
relates (the due times of a slow and of the base column; two columns of one connection).
1.8 and 2.4 intervals are rounded up and down, and neither is a multiple of half the base.  The
pipe of one line holds the only race there is (a line written before the process dies, read
after); a pipe of two lines was checked once with two rows, with the same result; the proof
has no bound on it.  Three addresses let a column be translated, translated anew and differ
from the other column.  Two sequence numbers make three calls wrap: two of
them share a number, at once or one after the other.  In `Install` two runs
are what a link race needs.  Two seconds let runs share a directory and not.  In `TreeDiff`
a window of one row is the narrowest and one of three shows the list but for its end; the
four disks take a directory away, turn everything equal, or leave nothing.  In `MailDaemon`
two folders separate a mark from a request for the other one, and the second request in the
pipe is the one that a death takes with it.  In `Algorithms` the bits of an address and the
hours of a day are scaled down to where a full network, an empty host part and a day of
another length are all among the inputs.

**Fairness.**  `PingLoop`: the timer of the scheduler fires, delays and probes end (every
probe has `max_wait`), a loop that is asked to end ends; these are what asyncio gives every
runnable task.  `Resolver`: a lookup ends and a timer fires.  `RemoteFeeder`: the feeder
takes its own steps and the remote's probes end; `ChattySpec` adds that the remote goes on
reporting notes, which holds of a remote with a periodic translation, and not in general
(section 5).  `MailDaemon`: the service manager starts the daemon again; the notifier repeats
its request, and one that is repeated for ever finds the pipe open once (strong fairness of
`Write`); the counts are once read in full; an offlineimap that is tried for ever succeeds
once.  Without that last assumption nothing could be promised, since the daemon has no
timer of its own.  The other modules promise no progress.

Deadlock is not checked where the modelled thing ends: rows run out, the user quits, every
call, run or input has been made.  `MailDaemon` is checked for it.

Type invariants: those of `PingLoop`, `RemoteFeeder`, `Resolver`, `NativePinger`,
`MailDaemon`, `WacomDaemon`, `Install`, `Table` and `TreeDiff` are proved (section 4) and so not
repeated by the runs.

## 4. The proofs

For all values of the constants (under the named ASSUMEs of the modules):

| theorem | statement |
|---|---|
| `PingColumn_proofs!AddConsistent`, `ResolveConsistent` | `Host.add` of a free row and `Host.resolve` of a pending one keep every counter equal to the cardinality it stands for |
| `PingLoop_proofs!StatisticsNeverDrift` | `Spec => []ColumnsConsistent` |
| `PingLoop_proofs!PendingHasTask` | `Spec => []InflightHasTask` |
| `PingLoop_proofs!NothingBegunAfterQuit` | `Spec => QuitBeginsNothing` |
| `PingLoop_proofs!GridServesEveryColumn` | `Spec => []EveryIntervalServed` |
| `PingLoop_proofs!ImplementsStream` | `Spec` implements the safety part of `PingStream` |
| `RemoteFeeder_proofs!RowsStayFree` | `Spec => []RowsFree` |
| `RemoteFeeder_proofs!AnswersKept` | `Spec => AnswersStay` |
| `RemoteFeeder_proofs!StatisticsExact` | with `Aborts = FALSE`: `Spec => []ColumnsConsistent /\ []StatisticsAddUp` |
| `RemoteFeeder_proofs!SumsExact` | with `DifferentTargets`: `Spec => []StatisticsAddUp`, also when the remote is torn down |
| `RemoteFeeder_proofs!ColumnsMirror` | with `DifferentTargets`: `Spec => []MirrorsRemote` |
| `Resolver_proofs!HeaderTrue`, `PlaceholdersEnd`, `AddressStays` | `Spec => []HeaderShowsPinged`, `[]PlaceholderHasLookup`, `AddressKept` |
| `NativePinger_proofs!NoEntryLeaks`, `ForeignAnswerIsOld` | `Spec => []PendingExact`, `[]AnswerOfLastTurn` |
| `NativePinger_proofs!ImplementsCall` | `Spec` implements `PingCall` |
| `Table_proofs!RowCountExact`, `FullWindow`, `HistoryComplete`, `AnchoredWindow` | `Spec => []TotalIsExact`, `[]WindowFull`, `[]HistoryShowsAll`, `WindowAnchored` |
| `Programs_proofs!Forgetless` | `Spec => []NothingForgotten` (mail) |
| `Programs_proofs!ScrollExact`, `OneAction` | `PenSpec => []ScrollFollowsPen`, `[]OneActionPerPress` (tablet) |
| `Programs_proofs!CursorSeen`, `ListComplete`, `PlaceKept` | `TuiSpec => []SelectionOnScreen`, `[]NothingLost`, `ReloadKeepsPlace` (treediff) |
| `Programs_proofs!SpecsUnderstood` | `AlgSpec => []SpecUnderstood` |
| `Programs_proofs!HopIsTrue`, `GatewayIsBest` | `AlgSpec => []HopTruthful`, `[]BestGateway` (the second conjunct of `LocalAddress`) |
| `Programs_proofs!PingIsUnderstood` | `AlgSpec => []ProbeUnderstood` |
| `Programs_proofs!DirectoriesTellTruth` | `AlgSpec => []DirectoryTellsTruth` |
| `Programs_proofs!StatusIsHonest` | `AlgSpec => []StatusHonest` |
| `Install_proofs!OkIsTrue`, `LastOkTrue`, `PushExact`, `LinksAreHealed` | `Spec => []OkIsReal`, `[]LastOkSucceeded`, `[]PushFaithful`, `[]LinksHeal` |
| `TypeCorrect` in each of these but `PingColumn_proofs`; `Programs_proofs!TuiTypeCorrect` | `Spec => []TypeOK` |

**PingLoop.**  `ColumnsConsistent` alone is not inductive: `Resolve` subtracts one pending
ping, so the row must be pending, and that is known only from the task which calls it.  The
invariant is `IInv == TypeOK /\ ColumnsConsistent /\ TasksTellCells`, the last saying for
each position of a task what its cell and its last event are.  `PendingHasTask` and the
refinement follow from `TasksTellCells`.  The grid needs `GridInv`: there is a row
with a ping of the column from which on the time left until it is due, and `Base` units for
every row since, add up to its interval at most (`Served`); a tick takes at least those units,
and lateness only takes more.  The tolerance of half a base then makes the row after
`RowsPerPing` ticks the last possible one (`RowsPerPingIs`), for every interval.

**RemoteFeeder.**  `RowsFree` needs to know of every line in the pipe that the remote has
reported something for its row and that the column was sent: `Linked` says this of the pipe,
that nothing in a column is above its last ping, and that a feeder which is not reading has
no pipe.  Each handler of a line changes one row at most (`Touched`), keeps an answer that is
there, and leaves nothing above the last ping; `AnswersKept` follows, because an error row is
written one above it.  The statistics need that results in the pipe are outcomes, which an
aborting remote breaks (it reports `pending`, and `Resolve` counts it as lost): hence the
assumption `Aborts = FALSE` of `StatisticsExact`.  Such a cell looks as if an answer could
still come, but is no longer on the way (`Ended`), and a second result would be counted
again.  `SumsExact` shows that none comes: a remote reports a ping once, the lines in the pipe
included, and nothing more of a ping whose cell has ended (`ReportsLinked`).  That a column
gets only its own events takes different keys, its assumption `DifferentTargets`; with equal
ones two remote pings end in one cell.  A new connection starts above all ended cells, which
is `RowsFree` once more.

`MirrorsRemote` compares columns with a remote whose last words are still in the pipe, so it
is no invariant by itself.  `Follows` says of each cell and the last event of its ping: the
cell shows that event, or the lines that would make it so are in the pipe (`Says`), and all
of those lines say what happened last.  Each line that is taken settles its own cell and
leaves the rest (`TailSays`); that no other column takes it is `DifferentTargets` again, which
the run without it shows to be needed.

**Resolver.**  `IInv` adds to the types and the two invariants that a literal has an address.

**NativePinger.**  `CallsTell` says for each position of a call what its future and result
are; `CounterTells` that a call's number is its place in the count modulo `Width`;
`PacketsTell` that a packet carries the number of the call it was sent for, and an answer the
number of the call that got it; `SharedTells` that two calls that wait with one number are in
`shared`.  Two different calls with one number are then a multiple of `Width` apart in the
count, at least one turn (`AnswerOfLastTurn`), and nothing is assumed of the
network.  The refinement maps each step from these.

**Table.**  `Total` is a sum of counters, `AllRows` a fold of folds of sequences.  All rows of
the table are different, so their number is the cardinality of their set (`LenIsCardinality`),
and the set is described without recursion (`Lines`): ticks, details, note rows and
continuations.  `IInv` says of each counter the cardinality of which of these it is; `SetNote`,
which counts a note row of one length out and one of another in, is where it might not.  What
`FlattenSeq` and `SumFunction` are is taken from the equation of their recursive functions, and
facts about all lengths by the least length that would contradict them.  `FullWindow`
needs the bound of `scroll` by the last total, and `AnchoredWindow` that the scroll offset
moves by exactly the rows added (`ScrollFollows`) where the bound allows it.
`HistoryComplete` says three things of the printed sequence: its rows are the telling ones of
the screen, each is there once, and they are in order.  `FlattenKeeps` and `FlattenInOrder` give
the last two of a concatenation whose parts have them and are apart or in order; that the
rows of one tick are the same is shown by their sets (`TextRowsLines`, `HistoryBlock`).
This needs two more invariants: `RegistryTells`, that the registry, which the screen goes by,
knows of a note exactly if some column, which the history goes by, has one, and no shorter;
and `NotesOwn`, that an error of a column has the column's kind, so that the kinds printed are
those the screen has a text for (`PrintedKinds`).  In which order the error kinds of a tick
came is `OrderKnown`: each kind of the registry once.

**MailDaemon.**  `NothingForgotten` is not inductive: when a run succeeds, what it was not
started for must be remembered otherwise.  `RestRemembered` says so of `owed \ taken`, and
`DownBlank` that a dead daemon knows nothing, so that every count is news to the next one.

**WacomDaemon.**  `StepsExact` ties the steps sent so far to the position of the pen;
`StepsRounds` is the arithmetic: with the offset, C's division rounds to the nearest step for
every distance on the tablet.

**TreeDiff.**  What the walk shows is stated by counting: a row stands where as many rows come
before it (`Walk`).  For that to be a list with every row once, the order of rows must be
strict, and of two rows one must come first: `RowBefore` says it by the first name in which two
paths differ, a directory before a file there, and `PrecedesMeans` that this is what the code's sort
does.  Then the number of rows before is a bijection onto the places (`WalkRows`).  A file
that is not listed has a first directory above it that is not unfolded, and that is
listed (`ListComplete`).  The selection: whatever row a key asks for, the frame restores
`SelectionOnScreen`, except for row -1 in an empty list, which ends the interface
(`FrameSelects`); `TuiInv` adds that the selection in an empty list is otherwise 0.  The names of files are
compared by `NameRank`, assumed injective, and the trees are finite and of any depth.

**Install.**  `IInv` is `TypeOK` and five parts.  `Order`: what a run at a given
command has already done; among others, that a run which came to `install_ok` is past its
script, so that `err` can no longer end it there.  `Versions`: a recorded version is that of a run of that second.
`Honest(local)`: where `ok` is written, and where `last_ok` leads to, a run has come to
`install_ok`, and the version beside it is of a run with that directory.  The two
may be different runs: the version is read before the second, and nothing keeps two runs of
one second, and an upgrade, apart.  `Honest(server)`
holds part by part, because each part of a copy is taken from an honest directory at one
moment and runs never stop having succeeded.  `Copied` says that what a push has copied so
far equals the device unless something changed.  `LinksHeal` speaks of a run that was never
disturbed (`alone`); `Undisturbed` is its way through `reln`: at which command the link is
there, gone, or its own.

**Algorithms.**  `Computed` is the invariant: a result is what the algorithm makes of its
input.  The rest is about operators, on every input that `AlgAssumption` allows.  The code
justifies it as follows: a path holds addresses of routers, and "target" stands for the
address the program asks for; hops are parsed from 1; ages are of snapshots that were made
before; metrics and addresses are numbers; the tree comes from directories, which are finite
and in which every file has a name.  Of ping it says which patterns the name of a target can
hold: single words, and no "100% packet loss", no "time=" and no resolver's message, which
have spaces or an equals sign in them.

*The target grammar.*  Two texts are compared: the one written (`Text`) and the one passed on
(`RemoteSpec`).  Both are a beginning without commas followed by parameters, each after a
comma (`IsText`, `FormText`, `RemoteIs`), whatever the number of parameters.  Then the k-th
comma is at a known place (`Place`) and at no other (`CommaPlaces`), so the segments are the
parameters in their order (`SegmentsAre`) and all of them are taken off (`BodyIs`).  What is
left is one of five beginnings, which are taken apart as they were put together
(`BeginningSplit`).  `TextRead` puts these together: what is parsed depends on the beginning
and the parameters alone, and of the two texts only the transport differs.  When an `@` part
follows a parameter, the segment of that parameter has the part in it, and what is left
is the target alone.  `WrittenFlat` is
what `FlattenSeq` makes of the parameters; its induction takes the least number of parameters
for which it would fail.

*Lookups.*  `ProbeTells` says what one probe tells of a path: its hop, or the first router
before it that talks; of two probes that are answered
by the target the second tells whether it is nearer.  Of a set of routes, however large, one
has the least address among those of the least metric: so what `MinRoute` chooses exists, and
its metric is the least (`LeastRoute`).

*The report on snapshots.*  `Sorted(ages, k)` is within a limit exactly if at least `k` ages
are (`SortedAges`): so each verdict says whether one or two ages are within which limits
(`VerdictMeans`), and losing a snapshot or waiting takes these away, never gives them
(`VerdictMonotone`).

*The output of ping.*  A text is its lines with their marks.  What a function returns depends
on the first line with one of its marks, and the proof says for each end of a probe which line
that is: the header if the name has a mark, else the first message, else the line of the end
(`FirstOfMatches`, `SecondMatches`).

*Directories.*  The code sums up the children, and the property speaks of all files below, on
any depth.  `Truth` states the verdict of every node from the leaves below it, without
recursion.  It solves the equation of the recursive function `Finalize` (`TruthSolves`): the
files below a directory are those below its children, each below one of them (`KidsCover`), so
sums over them add up (`SumOfSizes`, where a sum is the number of points under its graph) and
they agree if the children do (`Agreement`).  The equation has one solution (`OneSolution`):
of the nodes where two solutions differ take a deepest one; its children do not differ, so it
does not either.

**Only model-checked.**  Everything under fairness (the liveness part of `StreamContract`,
`PendingJoins`, `PressHeard`, `WantedIsDone`): liveness is beyond the prover.  Three properties
of `Algorithms`: `AddressFits`, the half of `LocalAddress` about host parts, is arithmetic with
powers, of which the prover knows nothing; `OwnReplyInTime` is about the parsing of bytes by
nested recursion, `DaysAddUp` about sums of sums over days, months and intervals.  What these compute for every
input would take an induction over data for each.

## 5. What was learnt of the code

One run shows the program departing from its own words (see "findings"): in `treediff`,
with nothing to show, Down, `j`, PgDn and End set the selection to -1 (481) and the next
frame reads `view[-1]`.  Seen while modelling, and not carried by a run:

- pingtui, feeder: an `@@` column does not join a connection that is silent, since the
  restart is considered after a line only (1431, comment at 1384); a foreign line that is
  JSON but no object ends the feeder (1427-1428); a `pending` result of an aborted remote is
  counted as lost (171); of two columns with one specification the later gets the events of
  both (1392); pending cells of a replaced connection never end (1437).
- pingtui, the rest: a raw socket takes answers to other processes (512); a column of at most
  1.5 base intervals is pinged in every row (1304); a resolver exception other than
  `gaierror`/`OSError` (a name IDNA cannot encode) ends the engine while the table is drawn
  on (924); `r` is lost on a column with `r=0`, the default, that is being
  translated (1878), although the comment at 1873 and the help (2104) say it translates all
  targets; a slow reverse lookup may leave a stale header (961); the cell of a ping is there
  before its packet leaves, and the packet may leave after `q` (535 and 406 are awaited in
  between); the note of an `err:` row may be blank
  (1768); `if:` with the index `#0` gives the last address (825); when the answer to the
  second probe of a hop lookup is lost, a nearer target is taken for the hop (782), and when
  a router on the way sends a redirect, its address is taken for the hop's, as the first
  line with an address is (768): the docstring (784-786) and the comment at 806 say it is the
  N-th hop exactly.
- pingtui, target grammar: the documented place of parameters is before the first `@` (36-37),
  and the comment at 1214 allows them there and at the end; but `_strip_trailing_params` (1158-1164) takes the last
  parameter off with what follows it, so `8.8.8.8,label=a@ssh gw` has the label `a@ssh gw`, no
  transport, and is pinged from here (with `i=2` in that place it is refused).  A
  `dns:` target loses its server in the same way; and when its parameters are written at the
  end, `remote_spec` puts them before the `@` (1236), so the remote instance loses the server.
- pingtui, native pinger: when the counter comes round, a call takes the entry of one that
  still waits with the number (551, 553), which then gets no answer, and at its end removes
  the entry of the other; a late packet answers the new one.
- pingtui, subprocess pinger: a target whose name has one of the words that are looked for
  (`redirect`, `prohibited`) turns each of its losses into an error, as the header line
  has the name (422); "Time to live exceeded" and a packet the local
  firewall rejects are plain timeouts, having no pattern, although the docstring (323-324)
  says quick errors are told from a timeout, and the native pinger (574) reports them.
- pingtui, history: rows after the last ping are not printed, however many notes they have
  (1661); a note that became shorter keeps two rows on the screen, the second
  blank; an `err:` note of a target that is not here is a blank row there and no row in the
  history; the `err:` rows of one tick are on the screen in the order they came (1684), in
  the history in that of the columns (2033).
- `treediff`: changed lines that begin with `++` or `--` are not counted (100), and files
  that differ in nothing else, or only in the ends of lines, are shown as "same", which the
  docstring says of equal bytes (9); a file of one side with the name of a directory of the
  other hides the files below; `q` does nothing while a filter is set (478), and the
  Esc that the footer offers then (468) only works in the prompt.
- `offlineimap-deamon.cpp`: the daemon's first request is `if RUN` (24) where `<if> RUN` is
  meant (94), so it marks a folder of that name.
- `snapshoter/status.py`: a file that vanishes while it is read reports no snapshot at all
  (18), an empty one ends the program; an age is never shown in hours, as the minutes are
  asked where hours are meant (46).
- `work_log.py`: what an interval has beyond ten days is in no day (80), and the day of a
  clock change is an hour off.
- `userconfig-lib.sh`: `err` in a subshell ends only the subshell (48): after a `confln` that
  fails in `mail/init.sh` (32-45), or any failure in the generation of the configs in
  `i3/config-gen/init.sh` (14-20), the script goes on, `install_ok` writes `ok` over
  `faild` (260), and `last_ok` leads to the run; `(rm || err)` goes on in the same way (202); `ln` onto a link that
  came back links inside the other run's directory, and both runs then report success while
  the links name one (203); commands after `mkdir` in `install_begin` are not checked; two runs
  of one second with an upgrade between them share a directory, which may then have the version of the one and the `ok` of the other.
- `instpect-state.py`: `last_ok()` reads `last` (76), so the column `iv` shows the version of
  the last run (147).
- `snapshoter/snapshoter`: with nothing to delete, `exit 0` skips `do_clean` and leaves the
  file system mounted (118, 147).

## 6. Abstractions

Round-trip times, colours, widths and wording; the arguments of subprocesses; in
`PingLoop` a probe (an outcome is chosen; how the output of `ping` becomes one is in
`SubprocessPinger`).  One process is modelled at a time except in
`RemoteFeeder`.  The resolver's lookups return anything; what they compute is in `Lookup`,
apart from it.  Overlapping pushes are left out of `Install`, and so are its config file, the
questions of `r` and the contents of run directories other than version and state.  `tar`
reads a run directory at one moment: `version` is written before `state` and never changes,
so that reading them apart gives nothing new.  In `MailDaemon` counts are numbered by their
changes, so that two changes which cancel out are told apart; the daemon cannot, and need
not.  In `TreeDiff` the drawing of one row is left out, and vimdiff is an edit by anybody.

## 7. Not modelled

The components without a module, with what would be needed:

- `confln`, configuration data: straight-line shell scripts around `awk`, `cmp` and `ln`; the
  one decision of `confln` is a question to the user.
- the script `snapshoter`: its state is in mounted file systems and in what rsync and btrfs
  do to them; a model would be one of those.
- `movingssh`, `tunel`, `network/`, `raspberry/`: calls of ssh, ip, nft and systemctl in
  loops; what can go wrong is in the state of the kernel and of the services they call.
- `mail/m*`, `unzip-mail.py`: pipelines of other programs.
- `i3/`, `keymap-python/`: generators of text, without state between calls.
- `mpv/`, `xdg-open/`, `vm/`, `ptouch/`, `scripts/sfs.py`: wrappers around other programs.
- `light/`: one clamped number.  `wacom-daemon.c` is replaced by `wacom-daemon2.c`.
- `old/`: not installed any more.

What a continuation could add to the modelled parts: theorems about the other
properties of `Algorithms` (`DaysAddUp` first), and one module that composes
`Resolver` with `RemoteFeeder` over the address they share, in place of the free action
`Translate`.
