--------------------------- MODULE Resolver_proofs ---------------------------
(***************************************************************************)
(* The translation of targets, for any columns, addresses and rows and any *)
(* number of reverse lookups at once: its types, what the header shows,    *)
(* whose the placeholders are, and that an address once found is kept.     *)
(***************************************************************************)
EXTENDS Resolver, FiniteSetTheorems, TLAPS

\* A literal is never looked up, and is its own address.
LiteralsStay == \A h \in Literal : pc[h] # "lookup" /\ ip[h] # none

IInv == TypeOK /\ LiteralsStay /\ HeaderShowsPinged /\ PlaceholderHasLookup

Notes == [Hosts -> [Rows -> [Kinds -> Text]]]

-----------------------------------------------------------------------------
(* What _set_note leaves in the cells of a column *)

LEMMA WriteTyped ==
  ASSUME note \in Notes, NEW h \in Hosts, NEW row \in Rows, NEW new
  PROVE  Write(h, row, new) \in Notes
  BY DEF Notes, Write

LEMMA WriteOff ==
  ASSUME note \in Notes, NEW h \in Hosts, NEW row \in Rows, NEW new,
         NEW h2 \in Hosts, NEW s2 \in Rows, h2 # h \/ s2 # row
  PROVE  Write(h, row, new)[h2][s2] = note[h2][s2]
  BY DEF Notes, Write

LEMMA WriteAt ==
  ASSUME note \in Notes, NEW h \in Hosts, NEW row \in Rows, NEW new,
         NEW k \in Kinds, NEW x \in Text, <<k, x>> \in new,
         \A t \in Text : <<k, t>> \in new => t = x
  PROVE  Write(h, row, new)[h][row][k] = x
<1>1. (CHOOSE t \in Text : <<k, t>> \in new) = x
  OBVIOUS
<1> QED BY <1>1 DEF Notes, Write

LEMMA WriteBeside ==
  ASSUME note \in Notes, NEW h \in Hosts, NEW row \in Rows, NEW new,
         NEW k \in Kinds, \A t \in Text : <<k, t>> \notin new
  PROVE  Write(h, row, new)[h][row][k] = note[h][row][k]
  BY DEF Notes, Write

LEMMA RowIsRow == seq \in 0 .. MaxSeq => Row \in Rows
  BY ResolverAssumption DEF Row, Rows

LEMMA TextsApart == /\ none # dots /\ none # mark /\ dots # mark
                    /\ none \notin Address /\ dots \notin Address /\ mark \notin Address
<1>1. {none, dots, mark} \cap Address = {} /\ Cardinality({none, dots, mark}) = 3
  BY ResolverAssumption
<1>2. none # dots /\ none # mark /\ dots # mark
  <2>1. ASSUME \E x, y : {none, dots, mark} = {x, y}
        PROVE  Cardinality({none, dots, mark}) <= 2
    <3>1. PICK x, y : {none, dots, mark} = {x, y}
      BY <2>1
    <3>2. Cardinality({x}) = 1 /\ IsFiniteSet({x})
      BY FS_Singleton
    <3>3. Cardinality({x} \cup {y}) <= 2
      BY <3>2, FS_AddElement
    <3> QED BY <3>1, <3>3
  <2>2. none = dots => {none, dots, mark} = {dots, mark}
    OBVIOUS
  <2>3. none = mark => {none, dots, mark} = {dots, mark}
    OBVIOUS
  <2>4. dots = mark => {none, dots, mark} = {none, mark}
    OBVIOUS
  <2>5. ~ \E x, y : {none, dots, mark} = {x, y}
    BY <1>1, <2>1
  <2> QED BY <2>2, <2>3, <2>4, <2>5
<1> QED BY <1>1, <1>2

-----------------------------------------------------------------------------
LEMMA InitIInv == Init => IInv
  BY ResolverAssumption, TextsApart
     DEF Init, IInv, TypeOK, LiteralsStay, HeaderShowsPinged, PlaceholderHasLookup,
         Text, Kinds

\* A round that ends with an address starts the lookup that will replace the
\* placeholder it writes.
LEMMA AnnounceStep ==
  ASSUME IInv, NEW h \in Hosts, NEW a \in Address, Announce(h, a)
  PROVE  /\ note' \in Notes
         /\ lastResolve' = [lastResolve EXCEPT ![h] = a]
         /\ lastReverse' \in [Hosts -> Text]
         /\ reverse' \subseteq [h : Hosts, a : Address, row : Rows]
         /\ PlaceholderHasLookup'
<1>1. Row \in Rows /\ note \in Notes
  BY RowIsRow DEF IInv, TypeOK, Notes
<1> DEFINE new == {<<"resolve", a>>, <<"reverse", dots>>}
<1>2. note' = Write(h, Row, new) /\ reverse' = reverse \cup {[h |-> h, a |-> a, row |-> Row]}
  BY DEF Announce
<1>3. note' \in Notes
  BY <1>1, <1>2, WriteTyped
<1>4. PlaceholderHasLookup'
  <2> SUFFICES ASSUME NEW h2 \in Hosts, NEW s \in Rows, note'[h2][s]["reverse"] = dots
               PROVE  \E t \in reverse' : t.h = h2 /\ t.row = s
    BY DEF PlaceholderHasLookup
  <2>1. CASE h2 = h /\ s = Row
    <3> DEFINE t == [h |-> h, a |-> a, row |-> Row]
    <3>1. t \in reverse' /\ t.h = h2 /\ t.row = s
      BY <1>2, <2>1
    <3> QED BY <3>1
  <2>2. CASE h2 # h \/ s # Row
    <3>1. note'[h2][s] = note[h2][s]
      BY <1>1, <1>2, <2>2, WriteOff
    <3>2. PICK t \in reverse : t.h = h2 /\ t.row = s
      BY <3>1 DEF IInv, PlaceholderHasLookup
    <3> QED BY <1>2, <3>2
  <2> QED BY <2>1, <2>2
<1>5. lastReverse' \in [Hosts -> Text] /\ lastResolve' = [lastResolve EXCEPT ![h] = a]
  BY DEF Announce, IInv, TypeOK, Text
<1>6. reverse' \subseteq [h : Hosts, a : Address, row : Rows]
  BY <1>1, <1>2 DEF IInv, TypeOK
<1> QED BY <1>3, <1>4, <1>5, <1>6

\* Notes of another kind than "reverse" touch no placeholder.
LEMMA OtherNote ==
  ASSUME IInv, NEW h \in Hosts, NEW k \in Kinds \ {"reverse"},
         note' = Write(h, Row, {<<k, mark>>}), reverse' = reverse
  PROVE  note' \in Notes /\ PlaceholderHasLookup'
<1>1. Row \in Rows /\ note \in Notes
  BY RowIsRow DEF IInv, TypeOK, Notes
<1>2. note' \in Notes
  BY <1>1, WriteTyped
<1>3. \A h2 \in Hosts, s \in Rows : note'[h2][s]["reverse"] = note[h2][s]["reverse"]
  <2> SUFFICES ASSUME NEW h2 \in Hosts, NEW s \in Rows
               PROVE  note'[h2][s]["reverse"] = note[h2][s]["reverse"]
    OBVIOUS
  <2>1. CASE h2 = h /\ s = Row
    <3>1. "reverse" \in Kinds /\ \A t \in Text : <<"reverse", t>> \notin {<<k, mark>>}
      BY DEF Kinds
    <3> QED BY <1>1, <2>1, <3>1, WriteBeside
  <2>2. CASE h2 # h \/ s # Row
    BY <1>1, <2>2, WriteOff
  <2> QED BY <2>1, <2>2
<1>4. PlaceholderHasLookup'
  <2> SUFFICES ASSUME NEW h2 \in Hosts, NEW s \in Rows, note'[h2][s]["reverse"] = dots
               PROVE  \E t \in reverse' : t.h = h2 /\ t.row = s
    BY DEF PlaceholderHasLookup
  <2>1. PICK t \in reverse : t.h = h2 /\ t.row = s
    BY <1>3 DEF IInv, PlaceholderHasLookup
  <2> QED BY <2>1
<1> QED BY <1>2, <1>4

-----------------------------------------------------------------------------
(* The steps *)

LEMMA LiteralRoundStep ==
  ASSUME IInv, NEW h \in Hosts, LiteralRound(h)
  PROVE  IInv'
<1>1. ip[h] \in Address /\ Announce(h, ip[h])
  BY DEF LiteralRound, IInv, TypeOK, LiteralsStay
<1>2. pc' \in [Hosts -> {"begin", "lookup", "wait"}] /\ pc' = [pc EXCEPT ![h] = "wait"]
  BY DEF LiteralRound, Go, IInv, TypeOK
<1>3. /\ note' \in Notes /\ lastResolve' = [lastResolve EXCEPT ![h] = ip[h]]
      /\ lastReverse' \in [Hosts -> Text]
      /\ reverse' \subseteq [h : Hosts, a : Address, row : Rows]
      /\ PlaceholderHasLookup'
  BY <1>1, AnnounceStep
<1>4. TypeOK'
  BY <1>1, <1>2, <1>3 DEF LiteralRound, IInv, TypeOK, Notes, Text
<1>5. LiteralsStay' /\ HeaderShowsPinged'
  BY <1>2, <1>3, ResolverAssumption
     DEF LiteralRound, IInv, TypeOK, LiteralsStay, HeaderShowsPinged
<1> QED BY <1>3, <1>4, <1>5 DEF IInv

LEMMA BeginLookupStep ==
  ASSUME IInv, NEW h \in Hosts, BeginLookup(h)
  PROVE  IInv'
<1>1. TypeOK' /\ LiteralsStay'
  BY ResolverAssumption DEF BeginLookup, Go, IInv, TypeOK, LiteralsStay, texts
<1>2. HeaderShowsPinged' /\ PlaceholderHasLookup'
  BY DEF BeginLookup, IInv, HeaderShowsPinged, PlaceholderHasLookup, texts
<1> QED BY <1>1, <1>2 DEF IInv

LEMMA FoundStep ==
  ASSUME IInv, NEW h \in Hosts, NEW a \in Address, Found(h, a)
  PROVE  IInv'
<1>1. h \notin Literal /\ ip' = [ip EXCEPT ![h] = a] /\ pc' = [pc EXCEPT ![h] = "wait"]
  BY DEF Found, NewAddress, Go, IInv, LiteralsStay
<1>2. /\ note' \in Notes /\ lastResolve' = [lastResolve EXCEPT ![h] = a]
      /\ lastReverse' \in [Hosts -> Text]
      /\ reverse' \subseteq [h : Hosts, a : Address, row : Rows]
      /\ PlaceholderHasLookup'
  BY AnnounceStep DEF Found
<1>3. TypeOK'
  BY <1>1, <1>2 DEF Found, IInv, TypeOK, Notes, Text
<1>4. LiteralsStay' /\ HeaderShowsPinged'
  BY <1>1, <1>2, ResolverAssumption
     DEF IInv, TypeOK, LiteralsStay, HeaderShowsPinged
<1> QED BY <1>2, <1>3, <1>4 DEF IInv

LEMMA NotFoundStep ==
  ASSUME IInv, NEW h \in Hosts, NotFound(h)
  PROVE  IInv'
<1>1. /\ ip' = ip /\ pc' = [pc EXCEPT ![h] = "wait"]
      /\ UNCHANGED <<reverse, lastResolve, lastReverse>>
  BY DEF NotFound, AddressAfterFailure, Go, IInv, TypeOK
<1>2. note' \in Notes /\ PlaceholderHasLookup'
  <2>1. CASE ip[h] = none
    BY <1>1, <2>1, OtherNote DEF NotFound, Kinds
  <2>2. CASE ip[h] # none
    BY <1>1, <2>2 DEF NotFound, IInv, TypeOK, Notes, PlaceholderHasLookup
  <2> QED BY <2>1, <2>2
<1>3. TypeOK'
  BY <1>1, <1>2 DEF NotFound, IInv, TypeOK, Notes
<1>4. LiteralsStay' /\ HeaderShowsPinged'
  BY <1>1, ResolverAssumption DEF IInv, TypeOK, LiteralsStay, HeaderShowsPinged
<1> QED BY <1>2, <1>3, <1>4 DEF IInv

LEMMA NoHopStep ==
  ASSUME IInv, NEW h \in Hosts, NoHop(h)
  PROVE  IInv'
<1>1. /\ ip' = ip /\ pc' = [pc EXCEPT ![h] = "wait"]
      /\ lastResolve' = [lastResolve EXCEPT ![h] = mark]
      /\ UNCHANGED <<reverse, lastReverse>>
  BY DEF NoHop, Go
<1>2. note' \in Notes /\ PlaceholderHasLookup'
  BY <1>1, OtherNote DEF NoHop, Kinds
<1>3. TypeOK'
  BY <1>1, <1>2 DEF NoHop, IInv, TypeOK, Notes, Text
<1>4. LiteralsStay' /\ HeaderShowsPinged'
  BY <1>1, ResolverAssumption DEF IInv, TypeOK, LiteralsStay, HeaderShowsPinged
<1> QED BY <1>2, <1>3, <1>4 DEF IInv

LEMMA ReverseDoneStep ==
  ASSUME IInv, NEW t \in reverse, ReverseDone(t)
  PROVE  IInv'
<1>1. t.h \in Hosts /\ t.a \in Address /\ t.row \in Rows /\ note \in Notes
  BY DEF IInv, TypeOK, Notes
<1>2. /\ note' = Write(t.h, t.row, {<<"reverse", t.a>>}) /\ reverse' = reverse \ {t}
      /\ lastReverse' = [lastReverse EXCEPT ![t.h] = t.a]
      /\ UNCHANGED <<seq, pc, ip, fail, lastResolve, asked>>
  BY DEF ReverseDone, ReverseRow
<1>3. note' \in Notes
  BY <1>1, <1>2, WriteTyped
<1>4. TypeOK' /\ LiteralsStay' /\ HeaderShowsPinged'
  BY <1>1, <1>2, <1>3 DEF IInv, TypeOK, Notes, Text, LiteralsStay, HeaderShowsPinged
<1>5. PlaceholderHasLookup'
  <2> SUFFICES ASSUME NEW h \in Hosts, NEW s \in Rows, note'[h][s]["reverse"] = dots
               PROVE  \E u \in reverse' : u.h = h /\ u.row = s
    BY DEF PlaceholderHasLookup
  <2>1. ~(h = t.h /\ s = t.row)
    <3>1. Write(t.h, t.row, {<<"reverse", t.a>>})[t.h][t.row]["reverse"] = t.a
      <4> DEFINE new == {<<"reverse", t.a>>}
      <4>1. "reverse" \in Kinds /\ t.a \in Text /\ <<"reverse", t.a>> \in new
        BY <1>1 DEF Kinds, Text
      <4>2. \A x \in Text : <<"reverse", x>> \in new => x = t.a
        OBVIOUS
      <4> HIDE DEF new
      <4>3. Write(t.h, t.row, new)[t.h][t.row]["reverse"] = t.a
        BY <1>1, <4>1, <4>2, WriteAt
      <4> QED BY <4>3 DEF new
    <3> QED BY <1>1, <1>2, <3>1, TextsApart
  <2>2. note'[h][s] = note[h][s]
    BY <1>1, <1>2, <2>1, WriteOff
  <2>3. PICK u \in reverse : u.h = h /\ u.row = s
    BY <2>2 DEF IInv, PlaceholderHasLookup
  <2> QED BY <1>2, <2>1, <2>3
<1> QED BY <1>4, <1>5 DEF IInv

\* The steps that change no text and no address.
LEMMA QuietStep ==
  ASSUME IInv, \/ \E h \in Hosts : NextRound(h)
               \/ Press
               \/ GridTick
               \/ UNCHANGED vars
  PROVE  IInv'
<1>1. UNCHANGED <<ip, reverse, note, lastResolve, lastReverse>>
  BY DEF NextRound, Press, GridTick, vars, texts
<1>2. \A h \in Hosts : pc'[h] = "lookup" => pc[h] = "lookup"
  BY DEF NextRound, Go, Press, GridTick, vars, IInv, TypeOK
<1>3. TypeOK'
  <2>1. CASE \E h \in Hosts : NextRound(h)
    BY <2>1 DEF NextRound, Go, texts, IInv, TypeOK
  <2>2. CASE Press
    BY <2>2 DEF Press, texts, IInv, TypeOK
  <2>3. CASE GridTick
    BY <2>3, ResolverAssumption DEF GridTick, texts, IInv, TypeOK
  <2>4. CASE UNCHANGED vars
    BY <2>4 DEF vars, texts, IInv, TypeOK
  <2> QED BY <2>1, <2>2, <2>3, <2>4
<1>4. LiteralsStay' /\ HeaderShowsPinged' /\ PlaceholderHasLookup'
  BY <1>1, <1>2, ResolverAssumption
     DEF IInv, LiteralsStay, HeaderShowsPinged, PlaceholderHasLookup
<1> QED BY <1>3, <1>4 DEF IInv

LEMMA NextIInv == IInv /\ [Next]_vars => IInv'
<1> SUFFICES ASSUME IInv, [Next]_vars PROVE IInv'
  OBVIOUS
<1>1. ASSUME NEW h \in Hosts, Round(h) PROVE IInv'
  BY <1>1, LiteralRoundStep, BeginLookupStep, FoundStep, NotFoundStep, NoHopStep, QuietStep
     DEF Round
<1>2. ASSUME NEW t \in reverse, ReverseDone(t) PROVE IInv'
  BY <1>2, ReverseDoneStep
<1>3. CASE Press \/ GridTick \/ UNCHANGED vars
  BY <1>3, QuietStep
<1> QED BY <1>1, <1>2, <1>3 DEF Next

-----------------------------------------------------------------------------
\* Every variable has its type.
THEOREM TypeCorrect == Spec => []TypeOK
<1>1. IInv => TypeOK
  BY DEF IInv
<1> QED BY InitIInv, NextIInv, <1>1, PTL DEF Spec

\* The header names the address that is pinged, for every interleaving of
\* rounds, failures and reverse lookups.
THEOREM HeaderTrue == Spec => []HeaderShowsPinged
<1>1. IInv => HeaderShowsPinged
  BY DEF IInv
<1> QED BY InitIInv, NextIInv, <1>1, PTL DEF Spec

\* Every placeholder belongs to a reverse lookup that runs, with any number of
\* them overtaking each other.
THEOREM PlaceholdersEnd == Spec => []PlaceholderHasLookup
<1>1. IInv => PlaceholderHasLookup
  BY DEF IInv
<1> QED BY InitIInv, NextIInv, <1>1, PTL DEF Spec

\* No step takes away the address of a column that has one (resolver_task).
THEOREM AddressStays == Spec => AddressKept
<1>1. IInv /\ [Next]_vars => [\A h \in Hosts : ip[h] # none => ip'[h] # none]_vars
  <2> SUFFICES ASSUME IInv, Next, NEW h \in Hosts, ip[h] # none
               PROVE  ip'[h] # none
    BY DEF IInv
  <2>1. ASSUME NEW h2 \in Hosts, NEW a \in Address, Found(h2, a) PROVE ip'[h] # none
    <3>1. ip' = [ip EXCEPT ![h2] = a]
      BY <2>1 DEF Found, NewAddress
    <3> QED BY <3>1, TextsApart DEF IInv, TypeOK
  <2>2. ASSUME NEW h2 \in Hosts, NotFound(h2) PROVE ip'[h] # none
    BY <2>2 DEF NotFound, AddressAfterFailure, IInv, TypeOK
  <2>3. CASE UNCHANGED ip
    BY <2>3
  <2> QED BY <2>1, <2>2, <2>3
          DEF Next, Round, LiteralRound, BeginLookup, NoHop, NextRound, ReverseDone,
              Press, GridTick
<1> QED BY InitIInv, NextIInv, <1>1, PTL DEF Spec, AddressKept
=============================================================================
