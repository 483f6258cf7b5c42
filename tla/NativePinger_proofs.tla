------------------------- MODULE NativePinger_proofs -------------------------
(***************************************************************************)
(* The native pinger, for any number of calls and any width of the counter:*)
(* its types, its dictionary, whose answers a call gets, and that it       *)
(* implements PingCall.                                                    *)
(***************************************************************************)
EXTENDS NativePinger, TLAPS

\* Where a call is and what it has: no number before it is sent and none in the
\* external program, no future before it waits, no result before it ends.
CallsTell ==
  \A p \in Pings : /\ pc[p] \in {"idle", "lookup", "fallback"} => turn[p] = 0
                   /\ turn[p] = 0 => future[p] = none
                   /\ pc[p] = "wait" => turn[p] # 0
                   /\ pc[p] # "done" => result[p] = none
                   /\ turn[p] <= count
                   /\ future[p] # none /\ future[p].by # none => turn[future[p].by] # 0

\* The last Width numbers are all different: a call that took its number less
\* than a turn ago tells what the counter is at now.
CounterTells ==
  \A p \in Pings : turn[p] # 0 /\ count < turn[p] + Width =>
                     \/ last = num[p] + (count - turn[p])
                     \/ last + Width = num[p] + (count - turn[p])

\* A packet on its way carries the number of the call it answers, and a call that
\* has its number as well took it at least a turn later, or had it taken away.
PacketsTell ==
  \A q \in net : q.by # none =>
    /\ turn[q.by] # 0 /\ num[q.by] = q.n
    /\ \A p \in Pings \ {q.by} : pending[q.n] = p => turn[q.by] + Width <= turn[p]

\* Calls that wait with one number at once are known to share it.
SharedTells ==
  \A p, r \in Pings : pc[p] = "wait" /\ pc[r] = "wait" /\ num[p] = num[r] /\ p # r =>
                       p \in shared

IInv == /\ TypeOK /\ PendingExact /\ CallsTell /\ CounterTells /\ PacketsTell
        /\ SharedTells /\ AnswerOfLastTurn

-----------------------------------------------------------------------------
(* The counter *)

LEMMA CounterStep ==
  ASSUME NEW w \in Nat \ {0}, NEW l \in 0 .. w - 1
  PROVE  (l + 1) % w = IF l + 1 = w THEN 0 ELSE l + 1
  OBVIOUS

LEMMA NextNumberIs ==
  ASSUME last \in Number
  PROVE  /\ NextNumber \in Number
         /\ NextNumber = IF last + 1 = Width THEN 0 ELSE last + 1
<1>1. NextNumber = IF last + 1 = Width THEN 0 ELSE last + 1
  BY CounterStep, PingerAssumption DEF NextNumber, Number
<1> QED BY <1>1, PingerAssumption DEF Number

LEMMA InitIInv == Init => IInv
  BY PingerAssumption
     DEF Init, IInv, TypeOK, PendingExact, CallsTell, CounterTells, PacketsTell,
         SharedTells, AnswerOfLastTurn, Number

\* A step that takes no number, and no packet or entry comes of it.
LEMMA HistoriesKept ==
  ASSUME IInv, UNCHANGED <<last, num, count, turn, shared>>,
         \A p \in Pings : pc'[p] = "wait" => pc[p] = "wait",
         \A q \in net' : q \in net \/ q.by = none,
         \A n \in Number : pending'[n] \in {none, pending[n]}
  PROVE  CounterTells' /\ PacketsTell' /\ SharedTells'
<1>1. CounterTells'
  BY DEF IInv, CounterTells
<1>2. PacketsTell'
  <2> SUFFICES ASSUME NEW q \in net', q.by # none
               PROVE  /\ turn[q.by] # 0 /\ num[q.by] = q.n
                      /\ \A p \in Pings \ {q.by} : pending'[q.n] = p =>
                                                    turn[q.by] + Width <= turn[p]
    BY DEF PacketsTell
  <2>1. q \in net /\ q.n \in Number
    BY DEF IInv, TypeOK, Packet
  <2> QED BY <2>1, PingerAssumption DEF IInv, PacketsTell
<1>3. SharedTells'
  BY DEF IInv, SharedTells
<1> QED BY <1>1, <1>2, <1>3

\* A number that was taken less than a turn ago is not the next one.
LEMMA NextNumberIsNew ==
  ASSUME IInv, NEW p \in Pings, turn[p] # 0, num[p] = NextNumber
  PROVE  turn[p] + Width <= count + 1
<1>1. /\ last \in 0 .. Width - 1 /\ num[p] \in 0 .. Width - 1
      /\ turn[p] \in Nat /\ count \in Nat /\ turn[p] <= count
  BY DEF IInv, TypeOK, CallsTell, Number
<1>2. num[p] = IF last + 1 = Width THEN 0 ELSE last + 1
  BY NextNumberIs DEF IInv, TypeOK
<1>3. count < turn[p] + Width =>
        last = num[p] + (count - turn[p]) \/ last + Width = num[p] + (count - turn[p])
  BY DEF IInv, CounterTells
<1> QED BY <1>1, <1>2, <1>3, PingerAssumption

LEMMA CallStep ==
  ASSUME IInv, NEW p \in Pings,
         Call(p) \/ FallBack(p) \/ \E res \in {"ok", "timeout", "error"} : FallenBack(p, res)
  PROVE  IInv'
<1>1. /\ UNCHANGED <<last, num, future, pending, net, count, turn, shared>>
      /\ pc[p] \in {"idle", "lookup", "fallback"}
      /\ \E at \in {"lookup", "fallback", "done"} : pc' = [pc EXCEPT ![p] = at]
      /\ \/ result' = result /\ pc'[p] # "done"
         \/ \E res \in {"ok", "timeout", "error"} : result' = [result EXCEPT ![p] = res]
      /\ pc'[p] # "done" => result' = result
  BY DEF Call, FallBack, FallenBack, IInv, TypeOK
<1>2. TypeOK'
  BY <1>1 DEF IInv, TypeOK, Kind
<1>3. CounterTells' /\ PacketsTell' /\ SharedTells'
  BY <1>1, HistoriesKept DEF IInv, TypeOK
<1>4. PendingExact' /\ AnswerOfLastTurn'
  BY <1>1 DEF IInv, TypeOK, PendingExact, AnswerOfLastTurn
<1>5. CallsTell'
  BY <1>1 DEF IInv, TypeOK, CallsTell
<1> QED BY <1>2, <1>3, <1>4, <1>5 DEF IInv

LEMMA SendStep ==
  ASSUME IInv, NEW p \in Pings, Send(p)
  PROVE  IInv'
<1> DEFINE n == NextNumber
<1>1. n \in Number /\ n = IF last + 1 = Width THEN 0 ELSE last + 1
  BY NextNumberIs DEF IInv, TypeOK
<1>2. /\ pc[p] = "lookup" /\ last' = n /\ num' = [num EXCEPT ![p] = n]
      /\ count' = count + 1 /\ turn' = [turn EXCEPT ![p] = count + 1]
      /\ shared' = IF Holders(n) = {} THEN shared ELSE shared \cup Holders(n) \cup {p}
      /\ future' = future
  BY DEF Send
<1>3. \E at \in {"wait", "done"} :
        /\ pc' = [pc EXCEPT ![p] = at]
        /\ pending' = [pending EXCEPT ![n] = IF at = "wait" THEN p ELSE none]
        /\ at = "wait" => net' = net \cup {[n |-> n, by |-> p]} /\ result' = result
        /\ at = "done" => net' = net /\ result' = [result EXCEPT ![p] = "error"]
  BY DEF Send
<1>4. PICK at \in {"wait", "done"} :
        /\ pc' = [pc EXCEPT ![p] = at]
        /\ pending' = [pending EXCEPT ![n] = IF at = "wait" THEN p ELSE none]
        /\ at = "wait" => net' = net \cup {[n |-> n, by |-> p]} /\ result' = result
        /\ at = "done" => net' = net /\ result' = [result EXCEPT ![p] = "error"]
  BY <1>3
<1>5. turn[p] = 0 /\ future[p] = none /\ result[p] = none /\ count \in Nat /\ count + 1 # 0
  BY <1>2 DEF IInv, TypeOK, CallsTell
<1>6. TypeOK'
  <2>1. pc' \in [Pings -> {"idle", "lookup", "wait", "fallback", "done"}]
    BY <1>4 DEF IInv, TypeOK
  <2>2. pending' \in [Number -> Pings \cup {none}]
    BY <1>1, <1>4 DEF IInv, TypeOK
  <2>3. net' \subseteq Packet
    BY <1>1, <1>4 DEF IInv, TypeOK, Packet
  <2>4. result' \in [Pings -> Kind \cup {none, "timeout", "error"}]
    BY <1>4 DEF IInv, TypeOK
  <2>5. shared' \subseteq Pings
    BY <1>2 DEF IInv, TypeOK, Holders
  <2>6. /\ last' \in Number /\ num' \in [Pings -> Number] /\ count' \in Nat
        /\ turn' \in [Pings -> Nat] /\ future' \in [Pings -> Answer \cup {none}]
    BY <1>1, <1>2, <1>5 DEF IInv, TypeOK
  <2> QED BY <2>1, <2>2, <2>3, <2>4, <2>5, <2>6 DEF TypeOK
<1>7. PendingExact'
  <2>1. \A m \in Number : pending'[m] # none =>
          pc'[pending'[m]] = "wait" /\ num'[pending'[m]] = m
    BY <1>1, <1>2, <1>4, PingerAssumption DEF IInv, TypeOK, PendingExact
  <2>2. ASSUME NEW r \in Pings \ shared', pc'[r] = "wait" PROVE pending'[num'[r]] = r
    <3>1. CASE r = p
      BY <1>1, <1>2, <1>4, <2>2, <3>1 DEF IInv, TypeOK
    <3>2. CASE r # p
      <4>1. pc[r] = "wait" /\ num'[r] = num[r] /\ num[r] \in Number
        BY <1>2, <1>4, <2>2, <3>2 DEF IInv, TypeOK
      <4>2. r \notin shared /\ num[r] # n
        BY <1>2, <2>2, <4>1 DEF Holders
      <4> QED BY <1>4, <4>1, <4>2 DEF IInv, TypeOK, PendingExact
    <3> QED BY <3>1, <3>2
  <2> QED BY <2>1, <2>2 DEF PendingExact
<1>8. CallsTell'
  BY <1>2, <1>4, <1>5 DEF IInv, TypeOK, CallsTell
<1>9. CounterTells'
  <2> SUFFICES ASSUME NEW r \in Pings, turn'[r] # 0, count' < turn'[r] + Width
               PROVE  \/ last' = num'[r] + (count' - turn'[r])
                      \/ last' + Width = num'[r] + (count' - turn'[r])
    BY DEF CounterTells
  <2>1. CASE r = p
    BY <1>1, <1>2, <1>5, <2>1, PingerAssumption DEF IInv, TypeOK, Number
  <2>2. CASE r # p
    <3>1. turn'[r] = turn[r] /\ num'[r] = num[r]
      BY <1>2, <2>2 DEF IInv, TypeOK
    <3>2. /\ turn[r] \in Nat /\ turn[r] <= count /\ num[r] \in 0 .. Width - 1
          /\ last \in 0 .. Width - 1
      BY DEF IInv, TypeOK, CallsTell, Number
    <3>3. count < turn[r] + Width /\ turn[r] # 0
      BY <1>2, <1>5, <3>1, <3>2, PingerAssumption
    <3>4. last = num[r] + (count - turn[r]) \/ last + Width = num[r] + (count - turn[r])
      BY <3>3 DEF IInv, CounterTells
    <3>5. count' = count + 1 /\ last' = IF last + 1 = Width THEN 0 ELSE last + 1
      BY <1>1, <1>2
    <3> QED BY <1>5, <3>1, <3>2, <3>3, <3>4, <3>5, PingerAssumption
  <2> QED BY <2>1, <2>2
<1>10. PacketsTell'
  <2> SUFFICES ASSUME NEW q \in net', q.by # none
               PROVE  /\ turn'[q.by] # 0 /\ num'[q.by] = q.n
                      /\ \A r \in Pings \ {q.by} : pending'[q.n] = r =>
                                                    turn'[q.by] + Width <= turn'[r]
    BY DEF PacketsTell
  <2>1. q \in Packet /\ q.n \in Number /\ q.by \in Pings
    BY <1>6 DEF TypeOK, Packet
  <2>2. CASE q \in net
    <3>1. /\ turn[q.by] # 0 /\ num[q.by] = q.n
          /\ \A r \in Pings \ {q.by} : pending[q.n] = r => turn[q.by] + Width <= turn[r]
      BY <2>2 DEF IInv, PacketsTell
    <3>2. q.by # p /\ turn'[q.by] = turn[q.by] /\ num'[q.by] = num[q.by]
      BY <1>2, <1>5, <2>1, <3>1 DEF IInv, TypeOK
    <3>3. ASSUME NEW r \in Pings \ {q.by}, pending'[q.n] = r
          PROVE  turn[q.by] + Width <= turn'[r]
      <4>1. CASE r = p
        <5>1. q.n = n
          <6>1. pending[q.n] # p
            BY <1>2, <2>1, PingerAssumption DEF IInv, PendingExact
          <6> QED BY <1>4, <2>1, <3>3, <4>1, <6>1 DEF IInv, TypeOK
        <5>2. turn[q.by] + Width <= count + 1
          BY <2>1, <3>1, <5>1, NextNumberIsNew
        <5> QED BY <1>2, <4>1, <5>2 DEF IInv, TypeOK
      <4>2. CASE r # p
        <5>1. pending[q.n] = r /\ turn'[r] = turn[r]
          BY <1>1, <1>2, <1>4, <2>1, <3>3, <4>2, PingerAssumption DEF IInv, TypeOK
        <5> QED BY <3>1, <5>1
      <4> QED BY <4>1, <4>2
    <3> QED BY <3>1, <3>2, <3>3
  <2>3. CASE q \notin net
    <3>1. q = [n |-> n, by |-> p] /\ at = "wait"
      BY <1>4, <2>3
    <3>2. pending'[n] = p
      BY <1>1, <1>4, <3>1 DEF IInv, TypeOK
    <3> QED BY <1>1, <1>2, <1>5, <3>1, <3>2 DEF IInv, TypeOK
  <2> QED BY <2>2, <2>3
<1>11. SharedTells'
  BY <1>1, <1>2, <1>4 DEF IInv, TypeOK, SharedTells, Holders
<1>12. AnswerOfLastTurn'
  <2> SUFFICES ASSUME NEW r \in Pings, future[r] # none, future[r].by \notin {r, none}
               PROVE  turn'[future[r].by] + Width <= turn'[r]
    BY <1>2 DEF AnswerOfLastTurn
  <2>1. /\ turn[future[r].by] + Width <= turn[r] /\ future[r].by \in Pings
    BY DEF IInv, TypeOK, AnswerOfLastTurn, Answer
  <2>2. r # p
    BY <1>5
  <2>3. turn'[r] = turn[r]
    BY <1>2, <2>2 DEF IInv, TypeOK
  <2>4. CASE future[r].by = p
    BY <1>5, <2>1, <2>4 DEF IInv, CallsTell
  <2>5. CASE future[r].by # p
    BY <1>2, <2>1, <2>3, <2>5 DEF IInv, TypeOK
  <2> QED BY <2>4, <2>5
<1> QED BY <1>6, <1>7, <1>8, <1>9, <1>10, <1>11, <1>12 DEF IInv

LEMMA NetStep ==
  ASSUME IInv, (\E n \in Number : Stranger(n)) \/ (\E q \in net : Lost(q))
  PROVE  IInv'
<1>1. /\ UNCHANGED <<last, pc, num, future, pending, result, count, turn, shared>>
      /\ net' \subseteq Packet
      /\ \A q \in net' : q \in net \/ q.by = none
  BY DEF IInv, TypeOK, Stranger, Lost, Packet
<1>2. CounterTells' /\ PacketsTell' /\ SharedTells'
  BY <1>1, HistoriesKept
<1> QED BY <1>1, <1>2 DEF IInv, TypeOK, PendingExact, CallsTell, AnswerOfLastTurn

\* The answer reaches the call that has the entry of its number: the one it
\* answers, one of a later turn of the counter, or whom a stranger answers.
LEMMA DeliverStep ==
  ASSUME IInv, NEW q \in net, NEW kind \in Kind, Deliver(q, kind)
  PROVE  IInv'
<1>1. q \in Packet /\ q.n \in Number /\ q.by \in Pings \cup {none}
  BY DEF IInv, TypeOK, Packet
<1>2. UNCHANGED <<last, pc, num, pending, result, count, turn, shared>> /\ net' \subseteq net
  BY DEF Deliver
<1>3. CounterTells' /\ PacketsTell' /\ SharedTells'
  BY <1>2, HistoriesKept
<1>4. CASE TakesAnswer(pending[q.n])
  <2> DEFINE p == pending[q.n]
             a == [n |-> q.n, by |-> q.by, kind |-> kind]
  <2>1. p \in Pings /\ pc[p] = "wait" /\ num[p] = q.n /\ future[p] = none
    BY <1>1, <1>4 DEF IInv, TypeOK, PendingExact, TakesAnswer
  <2>2. future' = [future EXCEPT ![p] = a] /\ a \in Answer /\ a.by = q.by
    BY <1>1, <1>4 DEF Deliver, Answer
  <2>3. q.by \notin {p, none} => turn[q.by] # 0 /\ turn[q.by] + Width <= turn[p]
    BY <1>1, <2>1 DEF IInv, PacketsTell
  <2>4. TypeOK' /\ PendingExact'
    BY <1>2, <2>1, <2>2 DEF IInv, TypeOK, PendingExact
  <2>5. turn[p] # 0
    BY <2>1 DEF IInv, CallsTell
  <2>6. CallsTell'
    BY <1>2, <2>1, <2>2, <2>3, <2>5 DEF IInv, TypeOK, CallsTell
  <2>7. AnswerOfLastTurn'
    BY <1>2, <2>1, <2>2, <2>3 DEF IInv, TypeOK, AnswerOfLastTurn
  <2> QED BY <1>3, <2>4, <2>6, <2>7 DEF IInv
<1>5. CASE ~TakesAnswer(pending[q.n])
  <2>1. future' = future
    BY <1>5 DEF Deliver
  <2> QED BY <1>2, <1>3, <2>1
          DEF IInv, TypeOK, PendingExact, CallsTell, AnswerOfLastTurn
<1> QED BY <1>4, <1>5

LEMMA FinishStep ==
  ASSUME IInv, NEW p \in Pings, NEW res \in Kind \cup {"timeout"}, Finish(p, res)
  PROVE  IInv'
<1>1. /\ pc[p] = "wait" /\ pc' = [pc EXCEPT ![p] = "done"]
      /\ result' = [result EXCEPT ![p] = res]
      /\ pending' = [pending EXCEPT ![num[p]] = none]
      /\ UNCHANGED <<last, num, future, net, count, turn, shared>>
  BY DEF Finish, PopEntry
<1>2. num[p] \in Number
  BY DEF IInv, TypeOK
<1>3. TypeOK'
  BY <1>1 DEF IInv, TypeOK
<1>4. PendingExact'
  <2>1. \A m \in Number : pending'[m] # none =>
          pc'[pending'[m]] = "wait" /\ num'[pending'[m]] = m
    BY <1>1, <1>2 DEF IInv, TypeOK, PendingExact
  <2>2. ASSUME NEW r \in Pings \ shared', pc'[r] = "wait" PROVE pending'[num'[r]] = r
    <3>1. r # p /\ pc[r] = "wait" /\ r \notin shared /\ num[r] \in Number
      BY <1>1, <2>2 DEF IInv, TypeOK
    <3>2. num[r] # num[p]
      BY <1>1, <3>1 DEF IInv, SharedTells
    <3> QED BY <1>1, <3>1, <3>2 DEF IInv, TypeOK, PendingExact
  <2> QED BY <2>1, <2>2 DEF PendingExact
<1>5. CounterTells' /\ PacketsTell' /\ SharedTells'
  BY <1>1, HistoriesKept DEF IInv, TypeOK
<1>6. CallsTell' /\ AnswerOfLastTurn'
  BY <1>1 DEF IInv, TypeOK, CallsTell, AnswerOfLastTurn
<1> QED BY <1>3, <1>4, <1>5, <1>6 DEF IInv

LEMMA NextKeepsIInv == IInv /\ [Next]_vars => IInv'
<1> SUFFICES ASSUME IInv, [Next]_vars PROVE IInv'
  OBVIOUS
<1>1. ASSUME NEW p \in Pings,
             Call(p) \/ FallBack(p) \/ \E res \in {"ok", "timeout", "error"} : FallenBack(p, res)
      PROVE  IInv'
  BY <1>1, CallStep
<1>2. ASSUME NEW p \in Pings, Send(p) PROVE IInv'
  BY <1>2, SendStep
<1>3. ASSUME NEW p \in Pings, NEW res \in Kind \cup {"timeout"}, Finish(p, res)
      PROVE  IInv'
  BY <1>3, FinishStep
<1>4. CASE (\E n \in Number : Stranger(n)) \/ (\E q \in net : Lost(q))
  BY <1>4, NetStep
<1>5. ASSUME NEW q \in net, NEW kind \in Kind, Deliver(q, kind) PROVE IInv'
  BY <1>5, DeliverStep
<1>6. CASE UNCHANGED vars
  BY <1>6 DEF vars, IInv, TypeOK, PendingExact, CallsTell, CounterTells, PacketsTell,
              SharedTells, AnswerOfLastTurn
<1> QED BY <1>1, <1>2, <1>3, <1>4, <1>5, <1>6 DEF Next

LEMMA Inductive == Spec => []IInv
  BY InitIInv, NextKeepsIInv, PTL DEF Spec

\* The types of the pinger's state.
THEOREM TypeCorrect == Spec => []TypeOK
<1>1. IInv => TypeOK
  BY DEF IInv
<1> QED BY <1>1, Inductive, PTL

\* The dictionary of futures holds only calls that wait, and every one of them
\* that never shared its number, for any number of calls and any width of the
\* counter.
THEOREM NoEntryLeaks == Spec => []PendingExact
<1>1. IInv => PendingExact
  BY DEF IInv
<1> QED BY <1>1, Inductive, PTL

\* A call takes the answer to another call only a whole turn of the counter later.
THEOREM ForeignAnswerIsOld == Spec => []AnswerOfLastTurn
<1>1. IInv => AnswerOfLastTurn
  BY DEF IInv
<1> QED BY <1>1, Inductive, PTL

-----------------------------------------------------------------------------
(* The promise of PingCall *)

AskedNow    == {p \in Pings : pc[p] # "idle"}
AnsweredNow == [p \in Pings |-> Answered(p)]

\* A step that leaves futures alone answers nobody but calls with no number.
LEMMA AnsweredKept ==
  ASSUME IInv, future' = future,
         NEW p \in Pings,
         \A r \in Pings \ {p} : result'[r] = result[r] /\ turn'[r] = turn[r],
         turn'[p] # 0 \/ (turn'[p] = turn[p] /\ (result'[p] = result[p] \/ result'[p] \notin Kind)),
         turn[p] # 0 \/ result[p] = none
  PROVE  AnsweredNow' = AnsweredNow
<1>1. ASSUME NEW r \in Pings PROVE Answered(r)' = Answered(r)
  BY PingerAssumption DEF Answered, Kind
<1> QED BY <1>1 DEF AnsweredNow

LEMMA StepIsCallStep ==
  IInv /\ [Next]_vars => [Calls!CallNext]_Calls!callVars
<1> SUFFICES ASSUME IInv, [Next]_vars
             PROVE  Calls!CallNext \/ UNCHANGED <<AskedNow, AnsweredNow, result>>
  BY DEF Calls!callVars, AskedNow, AnsweredNow
<1>1. ASSUME NEW p \in Pings, Call(p) PROVE Calls!Ask(p)
  <2>1. /\ pc[p] = "idle" /\ pc' = [pc EXCEPT ![p] = "lookup"]
        /\ UNCHANGED <<future, turn, result>>
    BY <1>1 DEF Call
  <2>2. AnsweredNow' = AnsweredNow
    BY <2>1 DEF AnsweredNow, Answered
  <2>3. p \notin AskedNow /\ AskedNow' = AskedNow \cup {p}
    BY <2>1 DEF AskedNow, IInv, TypeOK
  <2> QED BY <2>1, <2>2, <2>3 DEF Calls!Ask, AskedNow, AnsweredNow
<1>2. ASSUME NEW p \in Pings, Send(p)
      PROVE  Calls!Fail(p) \/ UNCHANGED <<AskedNow, AnsweredNow, result>>
  <2>1. /\ pc[p] = "lookup" /\ future' = future /\ turn' = [turn EXCEPT ![p] = count + 1]
        /\ \E at \in {"wait", "done"} : pc' = [pc EXCEPT ![p] = at]
        /\ result' \in {result, [result EXCEPT ![p] = "error"]}
    BY <1>2 DEF Send
  <2>2. /\ turn[p] = 0 /\ future[p] = none /\ result[p] = none
        /\ count \in Nat /\ count + 1 # 0
    BY <2>1 DEF IInv, TypeOK, CallsTell
  <2>3. AskedNow' = AskedNow /\ p \in AskedNow
    BY <2>1 DEF AskedNow, IInv, TypeOK
  <2>4. AnsweredNow' = AnsweredNow /\ AnsweredNow[p] = none
    <3>1. turn'[p] # 0
      BY <2>1, <2>2 DEF IInv, TypeOK
    <3>2. AnsweredNow' = AnsweredNow
      BY <2>1, <2>2, <3>1, AnsweredKept DEF IInv, TypeOK
    <3> QED BY <2>2, <3>2, PingerAssumption DEF AnsweredNow, Answered
  <2> QED BY <2>1, <2>2, <2>3, <2>4 DEF Calls!Fail, AskedNow, AnsweredNow
<1>3. ASSUME NEW p \in Pings, FallBack(p)
      PROVE  UNCHANGED <<AskedNow, AnsweredNow, result>>
  <2>1. /\ pc[p] = "lookup" /\ pc' = [pc EXCEPT ![p] = "fallback"]
        /\ UNCHANGED <<future, turn, result>>
    BY <1>3 DEF FallBack
  <2>2. AnsweredNow' = AnsweredNow
    BY <2>1 DEF AnsweredNow, Answered
  <2> QED BY <2>1, <2>2 DEF AskedNow, IInv, TypeOK
<1>4. ASSUME NEW p \in Pings, NEW res \in {"ok", "timeout", "error"}, FallenBack(p, res)
      PROVE  Calls!Reply(p, "ok") \/ Calls!Return(p) \/ Calls!Fail(p)
  <2>1. /\ pc[p] = "fallback" /\ pc' = [pc EXCEPT ![p] = "done"]
        /\ result' = [result EXCEPT ![p] = res] /\ UNCHANGED <<future, turn>>
    BY <1>4 DEF FallenBack
  <2>2. turn[p] = 0 /\ future[p] = none /\ result[p] = none
    BY <2>1 DEF IInv, CallsTell
  <2>3. AskedNow' = AskedNow /\ p \in AskedNow
    BY <2>1 DEF AskedNow, IInv, TypeOK
  <2>4. AnsweredNow[p] = none
    BY <2>2, PingerAssumption DEF AnsweredNow, Answered
  <2>5. CASE res = "ok"
    <3>1. AnsweredNow' = [AnsweredNow EXCEPT ![p] = "ok"]
      BY <2>1, <2>2, <2>5 DEF AnsweredNow, Answered, Kind, IInv, TypeOK
    <3> QED BY <2>1, <2>2, <2>3, <2>4, <2>5, <3>1 DEF Calls!Reply, AskedNow, AnsweredNow
  <2>6. CASE res \in {"timeout", "error"}
    <3>1. AnsweredNow' = AnsweredNow
      BY <2>1, <2>2, <2>6, AnsweredKept DEF IInv, TypeOK, Kind
    <3>2. res = "timeout" => res \in {"timeout", AnsweredNow[p]} \ {none}
      BY PingerAssumption
    <3> QED BY <2>1, <2>2, <2>3, <2>4, <2>6, <3>1, <3>2
            DEF Calls!Return, Calls!Fail, AskedNow, AnsweredNow
  <2> QED BY <2>5, <2>6
<1>5. ASSUME NEW p \in Pings, NEW res \in Kind \cup {"timeout"}, Finish(p, res)
      PROVE  Calls!Return(p)
  <2>1. /\ pc[p] = "wait" /\ result[p] = none /\ turn[p] # 0
        /\ pc' = [pc EXCEPT ![p] = "done"] /\ UNCHANGED <<future, turn>>
        /\ result' = [result EXCEPT ![p] = res]
        /\ res = "timeout" \/ (future[p] # none /\ res = future[p].kind)
    BY <1>5 DEF Finish, IInv, CallsTell
  <2>2. res \in {"timeout", AnsweredNow[p]} \ {none}
    BY <2>1, PingerAssumption DEF AnsweredNow, Answered
  <2>3. AskedNow' = AskedNow /\ p \in AskedNow
    BY <2>1 DEF AskedNow, IInv, TypeOK
  <2>4. AnsweredNow' = AnsweredNow
    BY <2>1, AnsweredKept DEF IInv, TypeOK
  <2> QED BY <2>1, <2>2, <2>3, <2>4 DEF Calls!Return, AskedNow, AnsweredNow
<1>6. CASE (\E n \in Number : Stranger(n)) \/ (\E q \in net : Lost(q))
  BY <1>6 DEF Stranger, Lost, AskedNow, AnsweredNow, Answered
<1>7. ASSUME NEW q \in net, NEW kind \in Kind, Deliver(q, kind)
      PROVE  Calls!CallNext \/ UNCHANGED <<AskedNow, AnsweredNow, result>>
  <2>1. CASE TakesAnswer(pending[q.n])
    <3> DEFINE p == pending[q.n]
               a == [n |-> q.n, by |-> q.by, kind |-> kind]
    <3>1. q \in Packet /\ q.n \in Number /\ a \in Answer
      BY DEF IInv, TypeOK, Packet, Answer
    <3>2. p \in Pings /\ pc[p] = "wait" /\ future[p] = none /\ result[p] = none /\ turn[p] # 0
      BY <2>1, <3>1 DEF IInv, TypeOK, PendingExact, CallsTell, TakesAnswer
    <3>3. future' = [future EXCEPT ![p] = a] /\ UNCHANGED <<pc, result, turn>>
      BY <1>7, <2>1 DEF Deliver
    <3>4. a # none
      BY <3>1, PingerAssumption
    <3>5. AnsweredNow' = [AnsweredNow EXCEPT ![p] = kind] /\ AnsweredNow[p] = none
      BY <3>2, <3>3, <3>4 DEF AnsweredNow, Answered, IInv, TypeOK
    <3>6. Calls!Answer(p, kind)
      BY <3>2, <3>3, <3>5 DEF Calls!Answer, AskedNow, AnsweredNow
    <3> QED BY <3>2, <3>6 DEF Calls!CallNext
  <2>2. CASE ~TakesAnswer(pending[q.n])
    BY <1>7, <2>2 DEF Deliver, AskedNow, AnsweredNow, Answered
  <2> QED BY <2>1, <2>2
<1>8. CASE UNCHANGED vars
  BY <1>8 DEF vars, AskedNow, AnsweredNow, Answered
<1>9. "ok" \in Kind
  BY DEF Kind
<1> QED BY <1>1, <1>2, <1>3, <1>4, <1>5, <1>6, <1>7, <1>8, <1>9 DEF Next, Calls!CallNext

\* The native pinger implements PingCall: a call is answered at most once and
\* returns once, with its answer or without one.
THEOREM ImplementsCall == Spec => CallContract
<1>1. Init => Calls!CallInit
  BY PingerAssumption DEF Init, Calls!CallInit, Answered, Kind
<1> QED BY <1>1, StepIsCallStep, Inductive, PTL DEF Spec, CallContract, Calls!CallSpec
=============================================================================
