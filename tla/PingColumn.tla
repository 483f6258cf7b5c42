----------------------------- MODULE PingColumn -----------------------------
(***************************************************************************)
(* One column of the pingtui table: class Host of scripts/pingtui.py, its  *)
(* dictionary of pings and the running statistics that Host.add and        *)
(* Host.resolve keep beside it.  The statistics are incremental (O(1) per  *)
(* event, no walk over the history), so what has to be right is that they  *)
(* never drift from the dictionary they summarise.                         *)
(*                                                                         *)
(* A Ping object is abstracted to one value: "pending", or its outcome.    *)
(* "detailed" is an ERROR ping whose p.detail is not empty (an ICMP        *)
(* refusal, a failed connection), "error" an ERROR ping without a detail.  *)
(* "none" stands for a row the dictionary has no entry for.                *)
(***************************************************************************)
EXTENDS Integers, FiniteSets

CONSTANT MaxSeq     \* bound on the row numbers (the program counts forever)

ASSUME MaxSeqAssumption == MaxSeq \in Nat \ {0}

Rows == 1 .. MaxSeq

ErrorPing == {"error", "detailed"}
LostPing  == ErrorPing \cup {"timeout"}
Outcome   == LostPing \cup {"ok"}
Cell      == Outcome \cup {"none", "pending"}

Column == [ping     : [Rows -> Cell],     \* Host.pings
           inflight : SUBSET Rows,        \* Host.inflight
           sent     : Nat,
           recv     : Nat,
           lost     : Nat,
           neg      : Nat,                \* pings with a detail row
           lastPing : 0 .. MaxSeq,        \* highest row of a real ping
           lastSeq  : 0 .. MaxSeq]        \* ... or of a note

EmptyColumn == [ping |-> [s \in Rows |-> "none"], inflight |-> {},
                sent |-> 0, recv |-> 0, lost |-> 0, neg |-> 0,
                lastPing |-> 0, lastSeq |-> 0]

Higher(a, b) == IF a > b THEN a ELSE b
One(cond)    == IF cond THEN 1 ELSE 0

\* A slip: the ping is counted but not remembered as on the way.
AddUntracked(c, s) == [c EXCEPT !.ping[s]  = "pending",
                                !.sent     = @ + 1,
                                !.lastPing = Higher(@, s),
                                !.lastSeq  = Higher(@, s)]

\* Host.add: a ping has left for row s.
Add(c, s) == [c EXCEPT !.ping[s]  = "pending",
                       !.inflight = @ \cup {s},
                       !.sent     = @ + 1,
                       !.lastPing = Higher(@, s),
                       !.lastSeq  = Higher(@, s)]

\* A slip: a timed out ping is taken off the way without being counted.
ResolveAnswered(c, s, res) == [c EXCEPT !.ping[s]  = res,
                                        !.inflight = @ \ {s},
                                        !.recv     = @ + One(res = "ok"),
                                        !.lost     = @ + One(res \in ErrorPing),
                                        !.neg      = @ + One(res = "detailed")]

\* The result is stored in the Ping and Host.resolve counts it.  Every status
\* other than OK counts as lost, "pending" included (see RemoteFeeder).
Resolve(c, s, res) == [c EXCEPT !.ping[s]  = res,
                                !.inflight = @ \ {s},
                                !.recv     = @ + One(res = "ok"),
                                !.lost     = @ + One(res # "ok"),
                                !.neg      = @ + One(res = "detailed")]

\* Host.note: a note of row s may make the table taller, nothing else here.
NoteRow(c, s) == [c EXCEPT !.lastSeq = Higher(@, s)]

-----------------------------------------------------------------------------

RowsWith(c, S) == {s \in Rows : c.ping[s] \in S}

\* The statistics agree with the dictionary they summarise.
Consistent(c) ==
  /\ c.inflight = RowsWith(c, {"pending"})
  /\ c.recv = Cardinality(RowsWith(c, {"ok"}))
  /\ c.lost = Cardinality(RowsWith(c, LostPing))
  /\ c.neg  = Cardinality(RowsWith(c, {"detailed"}))
  /\ c.sent = c.recv + c.lost + Cardinality(c.inflight)
  /\ \A s \in Rows : c.ping[s] # "none" => s <= c.lastPing
  /\ c.lastPing <= c.lastSeq

=============================================================================
