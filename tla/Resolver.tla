------------------------------ MODULE Resolver ------------------------------
(***************************************************************************)
(* The translation of targets to addresses in pingtui: one resolver_task   *)
(* per column with an IcmpProbe, the _reverse_task each round starts, the  *)
(* key r, and the notes they write (scripts/pingtui.py).                   *)
(*                                                                         *)
(* A round suspends while it looks an address up and while it waits for    *)
(* the next round; reverse lookups run beside it and end in any order.     *)
(* The text of a reverse note is abstracted to the address it names.       *)
(***************************************************************************)
EXTENDS Integers, FiniteSets

CONSTANTS Hosts,       \* columns whose probe is an IcmpProbe
          Literal,     \* columns given as an address that is not in the label
          Hop,         \* columns of the form target^N
          Periodic,    \* columns with a resolve interval (r=, else -r) greater than 0;
                       \* the others, which is the default, only hear the key r
          Address,
          none,        \* no text, no address
          dots,        \* the placeholder of a reverse lookup that runs
          mark,        \* the compact mark of a silent hop or too short a path
          MaxSeq,      \* bound on the rows
          MaxReverse   \* bound on the reverse lookups of each column that run at once

ASSUME ResolverAssumption ==
  /\ Literal \subseteq Hosts /\ Hop \subseteq Hosts \ Literal
  /\ Periodic \subseteq Hosts
  /\ Cardinality({none, dots, mark}) = 3 /\ {none, dots, mark} \cap Address = {}
  /\ MaxSeq \in Nat \ {0} /\ MaxReverse \in [Hosts -> Nat]

Rows == 1 .. MaxSeq

VARIABLES seq,          \* state["seq"]
          pc,           \* the resolver task of a column
          ip,           \* probe.ip; probe.ready is set when it is not none
          fail,         \* probe.fail is not empty
          reverse,      \* reverse tasks: column, address, row they write to
          note,         \* note cells of a column, by row and kind
          lastResolve,  \* header lines of a column
          lastReverse,
          asked         \* history: r was pressed while the column was ..., and no
                        \* round of it has begun since

texts == <<note, lastResolve, lastReverse>>
vars  == <<seq, pc, ip, fail, reverse, texts, asked>>

Kinds == {"resolve", "reverse", "err"}
Text  == Address \cup {none, dots, mark}

TypeOK == /\ seq \in 0 .. MaxSeq
          /\ pc \in [Hosts -> {"begin", "lookup", "wait"}]
          /\ ip \in [Hosts -> Address \cup {none}]
          /\ fail \in [Hosts -> BOOLEAN]
          /\ reverse \subseteq [h : Hosts, a : Address, row : Rows]
          /\ note \in [Hosts -> [Rows -> [Kinds -> Text]]]
          /\ lastResolve \in [Hosts -> Text]
          /\ lastReverse \in [Hosts -> Text]
          /\ asked \in [Hosts -> {"no", "idle", "busy"}]

Init == /\ seq = 0
        /\ pc = [h \in Hosts |-> "begin"]
        /\ ip \in [Hosts -> Address \cup {none}]
        /\ \A h \in Hosts : h \in Literal <=> ip[h] # none
        /\ fail = [h \in Hosts |-> FALSE]
        /\ reverse = {}
        /\ note = [h \in Hosts |-> [s \in Rows |-> [k \in Kinds |-> none]]]
        /\ lastResolve = [h \in Hosts |-> none]
        /\ lastReverse = [h \in Hosts |-> none]
        /\ asked = [h \in Hosts |-> "no"]

-----------------------------------------------------------------------------

\* The row of a note: that of the last tick, or the first.
Row == IF seq = 0 THEN 1 ELSE seq

\* _set_note on the rows of one column: {<<kind, text>>, ...}.
Write(h, row, new) ==
  [note EXCEPT ![h][row] = [k \in Kinds |->
     IF \E t \in Text : <<k, t>> \in new THEN CHOOSE t \in Text : <<k, t>> \in new ELSE @[k]]]

\* The round of column h ended with address a: notes, header, reverse lookup.
Announce(h, a) ==
  /\ Cardinality({t \in reverse : t.h = h}) < MaxReverse[h]  \* bound
  /\ note' = Write(h, Row, {<<"resolve", a>>, <<"reverse", dots>>})
  /\ lastResolve' = [lastResolve EXCEPT ![h] = a]
  /\ lastReverse' = [lastReverse EXCEPT ![h] = dots]
  /\ reverse' = reverse \cup {[h |-> h, a |-> a, row |-> Row]}

Go(h, from, to) == pc[h] = from /\ pc' = [pc EXCEPT ![h] = to]

\* An address literal is announced every round, a name is looked up.
LiteralRound(h) ==
  /\ h \in Literal
  /\ Go(h, "begin", "wait")
  /\ Announce(h, ip[h])
  /\ asked' = [asked EXCEPT ![h] = "no"]
  /\ UNCHANGED <<seq, ip, fail>>

BeginLookup(h) ==
  /\ h \notin Literal
  /\ Go(h, "begin", "lookup")
  /\ asked' = [asked EXCEPT ![h] = "no"]
  /\ UNCHANGED <<seq, ip, fail, reverse, texts>>

\* A slip: an address that is known is not replaced.
FirstAddress(old, a) == IF old = none THEN a ELSE old

NewAddress(old, a) == a

Found(h, a) ==
  /\ Go(h, "lookup", "wait")
  /\ ip' = [ip EXCEPT ![h] = NewAddress(@, a)]
  /\ fail' = [fail EXCEPT ![h] = FALSE]
  /\ Announce(h, a)
  /\ UNCHANGED <<seq, asked>>

\* A slip: a failure forgets the address that worked so far.
ForgottenAddress(old) == none

AddressAfterFailure(old) == old

\* The old address stays in use.  Only without one is the failure a row.
NotFound(h) ==
  /\ Go(h, "lookup", "wait")
  /\ fail' = [fail EXCEPT ![h] = TRUE]
  /\ ip' = [ip EXCEPT ![h] = AddressAfterFailure(@)]
  /\ note' = IF ip[h] = none THEN Write(h, Row, {<<"err", mark>>}) ELSE note
  /\ UNCHANGED <<seq, reverse, lastResolve, lastReverse, asked>>

\* The hop is silent or beyond the target: an everyday state, shown compactly.
NoHop(h) ==
  /\ h \in Hop
  /\ Go(h, "lookup", "wait")
  /\ fail' = [fail EXCEPT ![h] = TRUE]
  /\ note' = Write(h, Row, {<<"resolve", mark>>})
  /\ lastResolve' = [lastResolve EXCEPT ![h] = mark]
  /\ UNCHANGED <<seq, ip, reverse, lastReverse, asked>>

\* A slip: the row is looked up when the name arrives.
RowOnArrival(t) == Row

\* The row the task was started for.
ReverseRow(t) == t.row

ReverseDone(t) ==
  /\ t \in reverse
  /\ reverse' = reverse \ {t}
  /\ note' = Write(t.h, ReverseRow(t), {<<"reverse", t.a>>})
  /\ lastReverse' = [lastReverse EXCEPT ![t.h] = t.a]
  /\ UNCHANGED <<seq, pc, ip, fail, lastResolve, asked>>

\* The interval of the column elapsed.
NextRound(h) ==
  /\ h \in Periodic
  /\ Go(h, "wait", "begin")
  /\ UNCHANGED <<seq, ip, fail, reverse, texts, asked>>

\* A slip: a column without an interval sleeps and does not wait for the event.
WokenOfPeriodic == {h \in Periodic : pc[h] = "wait"}

\* The columns whose task waits for the event at this moment.
Woken == {h \in Hosts : pc[h] = "wait"}

\* The key r: ev.set(); ev.clear() wakes the tasks that wait at this moment.
Press ==
  /\ pc' = [h \in Hosts |-> IF h \in Woken THEN "begin" ELSE pc[h]]
  /\ asked' = [h \in Hosts |-> IF pc[h] = "lookup" THEN "busy" ELSE "idle"]
  /\ UNCHANGED <<seq, ip, fail, reverse, texts>>

GridTick == /\ seq < MaxSeq                                  \* bound
            /\ seq' = seq + 1
            /\ UNCHANGED <<pc, ip, fail, reverse, texts, asked>>

Round(h) == \/ LiteralRound(h)
            \/ BeginLookup(h)
            \/ \E a \in Address : Found(h, a)
            \/ NotFound(h)
            \/ NoHop(h)
            \/ NextRound(h)

Next == \/ \E h \in Hosts : Round(h)
        \/ \E t \in reverse : ReverseDone(t)
        \/ Press
        \/ GridTick

Spec == Init /\ [][Next]_vars

\* Lookups end, direct and reverse ones alike (the system resolver gives up
\* at last), and the event loop goes on.
FairSpec == /\ Spec
            /\ \A h \in Hosts : WF_vars(Round(h))
            /\ \A h \in Hosts, a \in Address, s \in Rows :
                 WF_vars(ReverseDone([h |-> h, a |-> a, row |-> s]))

-----------------------------------------------------------------------------
(* Properties *)

\* The translation in the header is the address that is pinged, or says that
\* the hop is not known now.
HeaderShowsPinged == \A h \in Hosts : lastResolve[h] \in {none, mark, ip[h]}

\* Once a target was translated it is pinged for good: neither a failure nor a
\* slow lookup takes the address away (docstring of resolver_task).
AddressKept == [][\A h \in Hosts : ip[h] # none => ip'[h] # none]_vars

\* Every placeholder in the table belongs to a reverse lookup that will write
\* to exactly that row, even when rows and rounds have passed meanwhile and
\* lookups of one row overtake each other.
PlaceholderHasLookup ==
  \A h \in Hosts, s \in Rows :
    note[h][s]["reverse"] = dots => \E t \in reverse : t.h = h /\ t.row = s

\* The key r has every column translated again that is not translating as it
\* is pressed, also one that is never translated by itself; a column that is
\* translating has its next round only if it has an interval.
PressHeard == \A h \in Hosts :
  asked[h] = "idle" \/ (asked[h] = "busy" /\ h \in Periodic) ~> asked[h] = "no"

=============================================================================
