-------------------------------- MODULE Table --------------------------------
(***************************************************************************)
(* The table of the pingtui terminal interface: the registry of note rows  *)
(* kept by _set_note, the number of rows draw computes without walking the *)
(* history, the window it shows, the scrolling keys of _handle_key, and    *)
(* the history print_history leaves in the terminal (scripts/pingtui.py).  *)
(*                                                                         *)
(* Texts are abstracted to their lengths.  A note longer than a cell takes *)
(* two rows.  Notes of most kinds share a row; an err: note takes the whole *)
(* width, never wraps, and its kind has the name of a target.  Those of a  *)
(* column are all of one kind: its own name, or, if they come from another *)
(* pingtui, a name from the command line of that one, which may be that of *)
(* another column here, or of none.                                        *)
(***************************************************************************)
EXTENDS PingColumn, SequencesExt

CONSTANTS NHosts,     \* number of columns
          Pinged,     \* bound: the rows a column gets pings in
          Noted,      \* bound: the rows a column gets notes in
          Shared,     \* the kinds of notes that share a row, as they are drawn
          ErrOf,      \* the kind of the err: notes of a column
          Named,      \* the column an err: kind has the name of, 0 if none has it
          Results,    \* the outcomes the probes produce
          Lengths,    \* lengths the notes may have
          Widths,     \* cell widths the terminal may give (cw)
          Heights     \* numbers of table rows the terminal may give (nrows)

ASSUME TableAssumption ==
  /\ NHosts \in Nat \ {0}
  /\ Pinged \in [1 .. NHosts -> SUBSET Rows] /\ Noted \in [1 .. NHosts -> SUBSET Rows]
  /\ Shared \in Seq({"resolve", "reverse"}) /\ IsInjective(Shared)
  /\ ErrOf \in [1 .. NHosts -> STRING \ {"resolve", "reverse"}]
  /\ Named \in [{ErrOf[h] : h \in 1 .. NHosts} -> 0 .. NHosts]
  /\ Results \subseteq Outcome
  /\ Lengths \subseteq Nat /\ IsFiniteSet(Lengths)
  /\ Widths \subseteq Nat \ {0} /\ Heights \subseteq Nat \ {0}

Hosts  == 1 .. NHosts
WholeRow   == {ErrOf[h] : h \in Hosts}
SharedKind == {Shared[i] : i \in DOMAIN Shared}
Kind   == SharedKind \cup WholeRow
Length == Lengths \cup {0}
Absent == -1                \* no note of that kind in a row

VARIABLES seq,          \* state["seq"]
          col,          \* the columns
          note,         \* Host.notes: length of the note of a row and kind
          reg,          \* state["noterows"]: longest note of a row and kind
          order,        \* ... its err: kinds in the order they came
          nlh,          \* state["nlh"]: how many note rows have each length
          nnoterows,    \* state["nnoterows"]
          scroll,       \* state["scroll_off"], rows below the window
          total,        \* state["total_rows"], also ["prev_total"]
          nrows,        \* state["nrows"]
          drawn         \* history: all rows of the table at the last draw

notes == <<note, reg, order, nlh, nnoterows>>
view  == <<scroll, total, nrows, drawn>>
vars  == <<seq, col, notes, view>>

TypeOK == /\ seq \in 0 .. MaxSeq
          /\ col \in [Hosts -> Column]
          /\ note \in [Hosts -> [Rows -> [Kind -> Length \cup {Absent}]]]
          /\ reg \in [Rows -> [Kind -> Length \cup {Absent}]]
          /\ order \in [Rows -> Seq(WholeRow)]
          /\ nlh \in [Length -> Nat]
          /\ nnoterows \in Nat
          /\ scroll \in Nat
          /\ total \in Nat
          /\ nrows \in Nat \ {0}

Init == /\ seq = 0
        /\ col = [h \in Hosts |-> EmptyColumn]
        /\ note = [h \in Hosts |-> [s \in Rows |-> [k \in Kind |-> Absent]]]
        /\ reg = [s \in Rows |-> [k \in Kind |-> Absent]]
        /\ order = [s \in Rows |-> << >>]
        /\ nlh = [n \in Length |-> 0]
        /\ nnoterows = 0
        /\ scroll = 0
        /\ total = 1 /\ nrows = 1           \* the defaults of _handle_key
        /\ drawn = << >>

-----------------------------------------------------------------------------
(* What fills the table *)

GridTick == /\ seq < MaxSeq                                  \* bound
            /\ seq' = seq + 1
            /\ UNCHANGED <<col, notes, view>>

\* A ping leaves: of the last tick, an earlier one (stagger), or one of a
\* remote column that is ahead.
PingSent(h, s) == /\ s \in Pinged[h] /\ col[h].ping[s] = "none"
                  /\ col' = [col EXCEPT ![h] = Add(@, s)]
                  /\ UNCHANGED <<seq, notes, view>>

PingDone(h, s, res) == /\ col[h].ping[s] = "pending"
                       /\ col' = [col EXCEPT ![h] = Resolve(@, s, res)]
                       /\ UNCHANGED <<seq, notes, view>>

\* A note row of length old (or none) now has length new.
Count(old, new) == [n \in Length |-> nlh[n] + One(n = new) - One(n = old)]

\* A slip: the row of a kind is counted for every column that has it.
NewForColumn(h, s, k) == note[h][s][k] = Absent

\* One row per kind is shared by all columns.
NewRow(h, s, k) == reg[s][k] = Absent

\* _set_note of a text of length len.
SetNote(h, s, k, len) ==
  LET n == IF k \in WholeRow THEN 0 ELSE len
  IN  /\ s \in Noted[h]
      /\ k \in SharedKind \cup {ErrOf[h]}
      /\ note' = [note EXCEPT ![h][s][k] = n]
      /\ col' = IF note[h][s][k] # Absent THEN col
                ELSE [col EXCEPT ![h] = NoteRow(@, s)]
      /\ nnoterows' = nnoterows + One(NewRow(h, s, k))
      /\ order' = IF reg[s][k] = Absent /\ k \in WholeRow
                  THEN [order EXCEPT ![s] = Append(@, k)] ELSE order
      /\ IF n > reg[s][k]
         THEN reg' = [reg EXCEPT ![s][k] = n] /\ nlh' = Count(reg[s][k], n)
         ELSE UNCHANGED <<reg, nlh>>
      /\ UNCHANGED <<seq, view>>

-----------------------------------------------------------------------------
(* draw *)

MaxRow == Max({seq} \cup {col[h].lastSeq : h \in Hosts})

\* The rows of a tick for the kinds ks[i] with i in at, with a continuation if
\* the kind is in long.
KindRows(s, ks, at, long) ==
  FlattenSeq([i \in 1 .. Len(ks) |->
    IF i \notin at THEN << >>
    ELSE IF ks[i] \in long THEN << <<s, "note", ks[i]>>, <<s, "more", ks[i]>> >>
         ELSE << <<s, "note", ks[i]>> >>])

\* The rows of one tick from top to bottom: notes with their continuations, the
\* tick, the details of the answers that have one.
NoteRows(s, cw) ==
  KindRows(s, Shared, {i \in DOMAIN Shared : reg[s][Shared[i]] # Absent},
           {k \in SharedKind : reg[s][k] > cw})
  \o KindRows(s, order[s], DOMAIN order[s], {})

DetailRows(s) ==
  FlattenSeq([h \in Hosts |->
    IF col[h].ping[s] = "detailed" THEN << <<s, "detail", h>> >> ELSE << >>])

Block(s, cw) == NoteRows(s, cw) \o << <<s, "tick", 0>> >> \o DetailRows(s)

AllRows(cw) == FlattenSeq([s \in 1 .. MaxRow |-> Block(s, cw)])

\* The rows that are on the screen: size of them, with off below them.
Window(rows, off, size) ==
  SubSeq(rows, Max({1, Len(rows) - off - size + 1}), Len(rows) - off)

\* The number of rows in O(1), from the counters.
Total(cw) ==
  MaxRow + SumFunction([h \in Hosts |-> col[h].neg]) + nnoterows
    + SumFunctionOnSet(nlh, {len \in Length : len > cw})

\* A slip: the distance from the end is kept, not the rows.
KeepDistance(off, grown) == off

\* A window away from the live end moves up by what was added below it.
Anchor(off, grown) == IF off > 0 /\ grown > 0 THEN off + grown ELSE off

Draw(cw, size) ==
  /\ total' = Total(cw)
  /\ scroll' = Min({Anchor(scroll, IF drawn = << >> THEN 0 ELSE Total(cw) - total),
                    Max({0, Total(cw) - size})})
  /\ nrows' = size
  /\ drawn' = AllRows(cw)
  /\ UNCHANGED <<seq, col, notes>>

-----------------------------------------------------------------------------
(* _handle_key *)

MaxOff == Max({0, total - nrows})

ScrollTo(off) == scroll' = off /\ UNCHANGED <<seq, col, notes, total, nrows, drawn>>

\* A slip: the upper end is not looked at.
UpUnbounded(by) == scroll + by

Up(by) == Min({MaxOff, scroll + by})

Down(by) == Max({0, scroll - by})

Key == \/ \E by \in {1, nrows} : ScrollTo(Up(by)) \/ ScrollTo(Down(by))
       \/ ScrollTo(MaxOff)                                    \* home
       \/ ScrollTo(0)                                         \* end

\* One turn of renderer: it draws, or it handles what was typed before it waits
\* for the next change.
Renderer == (\E cw \in Widths, size \in Heights : Draw(cw, size)) \/ Key

-----------------------------------------------------------------------------
(* print_history, after the terminal interface has ended *)

\* A slip: the rows of the grid, as if only the local columns had rows.
GridRows == seq

\* Nothing is printed below the last row that has a ping.
LastPinged == Max({0} \cup {s \in Rows : \E h \in Hosts : col[h].ping[s] # "none"})

\* The column an err: kind has the name of has such a note.
Spoken(s, k) == Named[k] \in Hosts /\ note[Named[k]][s][k] # Absent

\* The kinds come column by column, each once; an err: note is printed with its
\* column.
Printed(s) ==
  {h \in Hosts : /\ note[h][s][ErrOf[h]] # Absent
                 /\ \A g \in 1 .. h - 1 : ErrOf[g] = ErrOf[h] => note[g][s][ErrOf[h]] = Absent
                 /\ Spoken(s, ErrOf[h])}

\* The note rows of one tick: they wrap by the texts there are now.
TextRows(s, cw) ==
  KindRows(s, Shared, {i \in DOMAIN Shared : \E h \in Hosts : note[h][s][Shared[i]] # Absent},
           {k \in SharedKind : \E h \in Hosts : note[h][s][k] > cw})
  \o KindRows(s, ErrOf, Printed(s), {})

HistoryRows(cw) ==
  FlattenSeq([s \in 1 .. LastPinged |->
    TextRows(s, cw) \o << <<s, "tick", 0>> >> \o DetailRows(s)])

Next == \/ GridTick
        \/ \E h \in Hosts, s \in Rows :
             \/ PingSent(h, s)
             \/ \E res \in Results : PingDone(h, s, res)
             \/ \E k \in Kind, len \in Lengths : SetNote(h, s, k, len)
        \/ Renderer

Spec == Init /\ [][Next]_vars

-----------------------------------------------------------------------------
(* Properties *)

\* The number of rows computed from counters is the number of rows there are,
\* for every width, however notes arrive, grow and wrap.
TotalIsExact == \A cw \in Widths : Total(cw) = Len(AllRows(cw))

\* The window never leaves the table: as long as there are enough rows, the
\* screen is full, whatever was typed since the last draw.
WindowFull ==
  Len(Window(drawn, scroll, nrows)) = Min({nrows, Len(drawn)})

\* A row of the table that shows nothing: an err: note whose column is not here or
\* has none, the continuation kept for a text that has become shorter.
Blank(r, cw) ==
  \/ r[2] = "note" /\ r[3] \in WholeRow /\ ~Spoken(r[1], r[3])
  \/ r[2] = "more" /\ \A h \in Hosts : note[h][r[1]][r[3]] <= cw

\* There is a ping in the row's tick or in a later one.
BeforePing(r) == \E s \in r[1] .. MaxSeq, h \in Hosts : col[h].ping[s] # "none"

\* The rows of the table that history is to show.
Telling(cw) == {r \in Range(AllRows(cw)) : BeforePing(r) /\ ~Blank(r, cw)}

\* One row may be above another: ticks in their order, and of a tick its notes,
\* itself, its details.
Rank(r) == CASE r[2] = "tick" -> 1 [] r[2] = "detail" -> 2 [] OTHER -> 0

Above(q, r) == \/ q[1] < r[1]
               \/ q[1] = r[1] /\ Rank(q) <= Rank(r)

InOrder(rows) == \A i, j \in DOMAIN rows : i < j => Above(rows[i], rows[j])

\* What is left in the terminal after the end is what the table showed up to the
\* last ping, each row once, tick by tick, without its blank rows: nothing the
\* registry, the counters or the columns knew about is lost, although
\* print_history uses none of them.  Only the err: rows of one tick may come in
\* another order, that of the columns.
HistoryShowsAll ==
  \A cw \in Widths : /\ Range(HistoryRows(cw)) = Telling(cw)
                     /\ IsInjective(HistoryRows(cw))
                     /\ InOrder(HistoryRows(cw))

\* Rows that come in below the window of a user who has scrolled up do not move
\* what is on the screen (the comment in draw).
WindowAnchored ==
  [][ LET kept == Len(drawn) - scroll       \* rows down to the window's end
      IN  /\ scroll > 0 /\ drawn' # drawn /\ nrows' = nrows
          /\ Len(drawn') >= Len(drawn)
          /\ SubSeq(drawn', 1, kept) = SubSeq(drawn, 1, kept)
          => Window(drawn', scroll', nrows) = Window(drawn, scroll, nrows) ]_vars

=============================================================================
