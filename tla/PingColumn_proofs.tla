-------------------------- MODULE PingColumn_proofs --------------------------
(***************************************************************************)
(* The statistics of a column never drift from its dictionary: Add of a    *)
(* row that has no ping and Resolve of a row whose ping is on the way keep *)
(* Consistent, for every length of the table.                              *)
(***************************************************************************)
EXTENDS PingColumn, FiniteSetTheorems, TLAPS

\* There are finitely many rows, so the rows with a status can be counted.
LEMMA RowsFinite ==
  ASSUME NEW c, NEW S
  PROVE  /\ IsFiniteSet(RowsWith(c, S))
         /\ Cardinality(RowsWith(c, S)) \in Nat
<1>1. IsFiniteSet(Rows)
  BY FS_Interval, MaxSeqAssumption DEF Rows
<1>2. RowsWith(c, S) \subseteq Rows
  BY DEF RowsWith
<1> QED
  BY <1>1, <1>2, FS_Subset, FS_CardinalityType

\* One row gets a status of S that it did not have: the count grows by one.
LEMMA RowGained ==
  ASSUME NEW c, NEW d, NEW S, NEW s \in Rows,
         s \notin RowsWith(c, S),
         RowsWith(d, S) = RowsWith(c, S) \cup {s}
  PROVE  Cardinality(RowsWith(d, S)) = Cardinality(RowsWith(c, S)) + 1
BY RowsFinite, FS_AddElement

\* One row loses its status of S: the count shrinks by one.
LEMMA RowDropped ==
  ASSUME NEW c, NEW d, NEW S, NEW s \in Rows,
         s \in RowsWith(c, S),
         RowsWith(d, S) = RowsWith(c, S) \ {s}
  PROVE  Cardinality(RowsWith(d, S)) = Cardinality(RowsWith(c, S)) - 1
BY RowsFinite, FS_RemoveElement

\* Host.add keeps the shape of the column.
LEMMA AddColumn ==
  ASSUME NEW c \in Column, NEW s \in Rows
  PROVE  Add(c, s) \in Column
<1> USE MaxSeqAssumption
<1> DEFINE p == [c.ping EXCEPT ![s] = "pending"]
           i == c.inflight \cup {s}
           n == c.sent + 1
           a == Higher(c.lastPing, s)
           b == Higher(c.lastSeq, s)
<1>1. p \in [Rows -> Cell] /\ i \in SUBSET Rows /\ n \in Nat
  BY DEF Column, Cell
<1>2. a \in 0 .. MaxSeq /\ b \in 0 .. MaxSeq
  BY DEF Column, Rows, Higher
<1>3. Add(c, s) = [c EXCEPT !.ping = p, !.inflight = i, !.sent = n,
                            !.lastPing = a, !.lastSeq = b]
  BY DEF Add
<1> HIDE DEF p, i, n, a, b
<1> QED BY <1>1, <1>2, <1>3 DEF Column

\* So does Host.resolve.
LEMMA ResolveColumn ==
  ASSUME NEW c \in Column, NEW s \in Rows, NEW res \in Outcome
  PROVE  Resolve(c, s, res) \in Column
<1> DEFINE p == [c.ping EXCEPT ![s] = res]
           i == c.inflight \ {s}
           x == c.recv + One(res = "ok")
           y == c.lost + One(res # "ok")
           z == c.neg + One(res = "detailed")
<1>1. p \in [Rows -> Cell] /\ i \in SUBSET Rows
  BY DEF Column, Cell
<1>2. x \in Nat /\ y \in Nat /\ z \in Nat
  BY DEF Column, One
<1>3. Resolve(c, s, res) = [c EXCEPT !.ping = p, !.inflight = i, !.recv = x,
                                     !.lost = y, !.neg = z]
  BY DEF Resolve
<1> HIDE DEF p, i, x, y, z
<1> QED BY <1>1, <1>2, <1>3 DEF Column

\* The empty table is consistent.
LEMMA EmptyConsistent == EmptyColumn \in Column /\ Consistent(EmptyColumn)
<1> USE MaxSeqAssumption
<1>1. EmptyColumn \in Column
  BY DEF EmptyColumn, Column, Cell
<1>2. \A r \in Rows : EmptyColumn.ping[r] = "none"
  BY DEF EmptyColumn
<1>3. ASSUME NEW S, "none" \notin S
      PROVE  RowsWith(EmptyColumn, S) = {}
  BY <1>2, <1>3 DEF RowsWith
<1>4. /\ RowsWith(EmptyColumn, {"pending"}) = {} /\ RowsWith(EmptyColumn, {"ok"}) = {}
      /\ RowsWith(EmptyColumn, LostPing) = {}
      /\ RowsWith(EmptyColumn, {"detailed"}) = {}
  BY <1>3 DEF LostPing, ErrorPing
<1>5. Cardinality({}) = 0
  BY FS_EmptySet
<1>6. /\ EmptyColumn.inflight = {} /\ EmptyColumn.sent = 0 /\ EmptyColumn.recv = 0
      /\ EmptyColumn.lost = 0 /\ EmptyColumn.neg = 0
      /\ EmptyColumn.lastPing = 0 /\ EmptyColumn.lastSeq = 0
  BY DEF EmptyColumn
<1> QED BY <1>1, <1>2, <1>4, <1>5, <1>6 DEF Consistent

\* A ping that leaves for a row without one: Host.add.
LEMMA AddConsistent ==
  ASSUME NEW c \in Column, NEW s \in Rows,
         c.ping[s] = "none", Consistent(c)
  PROVE  Consistent(Add(c, s))
<1> USE MaxSeqAssumption
<1> DEFINE d == Add(c, s)
<1>1. /\ d.inflight = c.inflight \cup {s}
      /\ d.sent = c.sent + 1
      /\ d.recv = c.recv /\ d.lost = c.lost /\ d.neg = c.neg
      /\ d.lastPing = Higher(c.lastPing, s) /\ d.lastSeq = Higher(c.lastSeq, s)
      /\ \A r \in Rows : d.ping[r] = IF r = s THEN "pending" ELSE c.ping[r]
  BY DEF Column, Add
<1>2. RowsWith(d, {"pending"}) = RowsWith(c, {"pending"}) \cup {s}
  BY <1>1 DEF RowsWith
<1>3. \A S \in {{"ok"}, LostPing, {"detailed"}} : RowsWith(d, S) = RowsWith(c, S)
  BY <1>1 DEF RowsWith, LostPing, ErrorPing
<1>4. s \notin RowsWith(c, {"pending"})
  BY DEF RowsWith
<1>5. Cardinality(d.inflight) = Cardinality(c.inflight) + 1
  <2>1. c.inflight = RowsWith(c, {"pending"}) /\ d.inflight = RowsWith(d, {"pending"})
    BY <1>1, <1>2 DEF Consistent
  <2> QED BY <2>1, <1>2, <1>4, RowGained
<1>6. c.recv \in Nat /\ c.lost \in Nat /\ Cardinality(c.inflight) \in Nat
  BY RowsFinite DEF Column, Consistent
<1>7. d.sent = d.recv + d.lost + Cardinality(d.inflight)
  BY <1>1, <1>5, <1>6 DEF Consistent
<1>8. /\ \A r \in Rows : d.ping[r] # "none" => r <= d.lastPing
      /\ d.lastPing <= d.lastSeq
  BY <1>1 DEF Consistent, Column, Higher, Rows
<1> HIDE DEF d
<1> QED BY <1>1, <1>2, <1>3, <1>7, <1>8 DEF Consistent, d

\* A ping that ends, with whatever outcome: Host.resolve.
LEMMA ResolveConsistent ==
  ASSUME NEW c \in Column, NEW s \in Rows, NEW res \in Outcome,
         c.ping[s] = "pending", Consistent(c)
  PROVE  Consistent(Resolve(c, s, res))
<1> USE MaxSeqAssumption
<1> DEFINE d == Resolve(c, s, res)
<1>1. /\ d.inflight = c.inflight \ {s}
      /\ d.sent = c.sent
      /\ d.recv = c.recv + One(res = "ok")
      /\ d.lost = c.lost + One(res # "ok")
      /\ d.neg = c.neg + One(res = "detailed")
      /\ d.lastPing = c.lastPing /\ d.lastSeq = c.lastSeq
      /\ \A r \in Rows : d.ping[r] = IF r = s THEN res ELSE c.ping[r]
  BY DEF Column, Resolve
<1>2. /\ c.inflight = RowsWith(c, {"pending"})
      /\ c.recv = Cardinality(RowsWith(c, {"ok"}))
      /\ c.lost = Cardinality(RowsWith(c, LostPing))
      /\ c.neg  = Cardinality(RowsWith(c, {"detailed"}))
      /\ c.sent = c.recv + c.lost + Cardinality(c.inflight)
  BY DEF Consistent
<1> HIDE DEF d
<1>3. /\ RowsWith(d, {"pending"}) = RowsWith(c, {"pending"}) \ {s}
      /\ s \in RowsWith(c, {"pending"})
  BY <1>1 DEF RowsWith, Outcome, LostPing, ErrorPing
<1>4. Cardinality(d.inflight) = Cardinality(c.inflight) - 1
  <2>1. d.inflight = RowsWith(d, {"pending"})
    BY <1>1, <1>2, <1>3
  <2> QED BY <2>1, <1>2, <1>3, RowDropped
<1>5. ASSUME NEW S \in {{"ok"}, LostPing, {"detailed"}}
      PROVE  Cardinality(RowsWith(d, S)) = Cardinality(RowsWith(c, S)) + One(res \in S)
  <2>1. s \notin RowsWith(c, S)
    BY DEF RowsWith, LostPing, ErrorPing
  <2>2. Cardinality(RowsWith(c, S)) \in Nat
    BY RowsFinite
  <2>3. CASE res \in S
    <3>1. RowsWith(d, S) = RowsWith(c, S) \cup {s}
      BY <1>1, <2>3 DEF RowsWith
    <3> QED BY <3>1, <2>1, <2>3, RowGained DEF One
  <2>4. CASE res \notin S
    <3>1. RowsWith(d, S) = RowsWith(c, S)
      BY <1>1, <2>1, <2>4 DEF RowsWith
    <3> QED BY <3>1, <2>2, <2>4 DEF One
  <2> QED BY <2>3, <2>4
<1>6. /\ (res \in {"ok"}) <=> (res = "ok")
      /\ (res \in LostPing) <=> (res # "ok")
      /\ (res \in {"detailed"}) <=> (res = "detailed")
  BY DEF Outcome, LostPing, ErrorPing
<1>7. /\ d.recv = Cardinality(RowsWith(d, {"ok"}))
      /\ d.lost = Cardinality(RowsWith(d, LostPing))
      /\ d.neg  = Cardinality(RowsWith(d, {"detailed"}))
  BY <1>1, <1>2, <1>5, <1>6 DEF One
<1>8. One(res = "ok") + One(res # "ok") = 1
  BY DEF One
<1>9. d.sent = d.recv + d.lost + Cardinality(d.inflight)
  <2>1. /\ c.recv \in Nat /\ c.lost \in Nat /\ Cardinality(c.inflight) \in Nat
        /\ One(res = "ok") \in Nat /\ One(res # "ok") \in Nat
    BY <1>2, RowsFinite DEF Column, One
  <2> QED BY <1>1, <1>2, <1>4, <1>8, <2>1
<1>10. /\ \A r \in Rows : d.ping[r] # "none" => r <= d.lastPing
       /\ d.lastPing <= d.lastSeq
  BY <1>1 DEF Consistent
<1>11. d.inflight = RowsWith(d, {"pending"})
  BY <1>1, <1>2, <1>3
<1>12. Consistent(d)
  BY <1>7, <1>9, <1>10, <1>11 DEF Consistent
<1> QED BY <1>12 DEF d

\* A note may make the table taller and touches nothing else: Host.note.
LEMMA NoteRowConsistent ==
  ASSUME NEW c \in Column, NEW s \in Rows, Consistent(c)
  PROVE  NoteRow(c, s) \in Column /\ Consistent(NoteRow(c, s))
<1> USE MaxSeqAssumption
<1> DEFINE d == NoteRow(c, s)
<1>1. d \in Column
  BY DEF Column, NoteRow, Higher, Rows
<1>2. /\ d.ping = c.ping /\ d.inflight = c.inflight
      /\ d.sent = c.sent /\ d.recv = c.recv /\ d.lost = c.lost /\ d.neg = c.neg
      /\ d.lastPing = c.lastPing /\ d.lastSeq = Higher(c.lastSeq, s)
  BY DEF Column, NoteRow
<1>3. \A S : RowsWith(d, S) = RowsWith(c, S)
  BY <1>2 DEF RowsWith
<1>4. d.lastPing <= d.lastSeq
  BY <1>2 DEF Consistent, Column, Higher, Rows
<1> HIDE DEF d
<1>5. Consistent(d)
  BY <1>2, <1>3, <1>4 DEF Consistent
<1> QED BY <1>1, <1>5 DEF d

=============================================================================
