---------------------------- MODULE NativePinger ----------------------------
(***************************************************************************)
(* The native ICMP pinger of pingtui (class NativePinger): all echo        *)
(* requests of a process share one 16-bit sequence counter and one         *)
(* dictionary of futures; a packet that arrives is matched by its sequence *)
(* number alone.  Answers are late, lost or duplicated; a ping gives up    *)
(* after max_wait.                                                         *)
(*                                                                         *)
(* Width stands for 2^16.  Nothing keeps a number from being used again    *)
(* while an old packet or an old call still has it: the count and the two  *)
(* histories below are there to say how far that goes.                     *)
(***************************************************************************)
EXTENDS Integers, FiniteSets

CONSTANTS Pings,      \* calls of ping(), each made once
          Width,      \* sequence numbers: 2^16 in the code
          Raw,        \* SOCK_RAW: the socket gets every ICMP packet of the host
          none

Number == 0 .. Width - 1
Kind   == {"ok", "unreachable", "timeexceeded"}
Packet == [n : Number, by : Pings \cup {none}]   \* none: to a stranger
Answer == [n : Number, by : Pings \cup {none}, kind : Kind]

ASSUME PingerAssumption == /\ Width \in Nat \ {0}
                           /\ Raw \in BOOLEAN
                           /\ none \notin Pings \cup Answer
                           /\ none \notin Kind \cup {"timeout", "error"}

VARIABLES last,       \* self.seq
          pc,         \* where a call of ping() is
          num,        \* its sequence number
          future,     \* its future: none, or the answer that resolved it
          pending,    \* self.pending: number -> the call that waits for it
          net,        \* answers on their way to the sockets
          result,     \* what ping() returned
          count,      \* history: how often a number was taken
          turn,       \* history: the count when a call took its number
          shared      \* history: calls that waited with one number at once

vars == <<last, pc, num, future, pending, net, result, count, turn, shared>>

TypeOK == /\ last \in Number
          /\ pc \in [Pings -> {"idle", "lookup", "wait", "fallback", "done"}]
          /\ num \in [Pings -> Number]
          /\ future \in [Pings -> Answer \cup {none}]
          /\ pending \in [Number -> Pings \cup {none}]
          /\ net \subseteq Packet
          /\ result \in [Pings -> Kind \cup {none, "timeout", "error"}]
          /\ count \in Nat
          /\ turn \in [Pings -> Nat]
          /\ shared \subseteq Pings

Init == /\ last = 0
        /\ pc = [p \in Pings |-> "idle"]
        /\ num = [p \in Pings |-> 0]
        /\ future = [p \in Pings |-> none]
        /\ pending = [n \in Number |-> none]
        /\ net = {}
        /\ result = [p \in Pings |-> none]
        /\ count = 0
        /\ turn = [p \in Pings |-> 0]
        /\ shared = {}

-----------------------------------------------------------------------------

\* A slip: the number is kept in one bit less.
NextNumberNarrow == (last + 1) % (Width \div 2)

NextNumber == (last + 1) % Width

\* ping() is called and waits for getaddrinfo.
Call(p) == /\ pc[p] = "idle"
           /\ pc' = [pc EXCEPT ![p] = "lookup"]
           /\ UNCHANGED <<last, num, future, pending, net, result, count, turn, shared>>

\* The calls that wait with a number already.
Holders(n) == {p \in Pings : pc[p] = "wait" /\ num[p] = n}

\* An address of a family with a socket: the call takes the next number and its
\* entry, whoever has them.  The request leaves and may be answered; or sendto
\* fails, and the finally clause removes the entry.
Send(p) ==
  LET n == NextNumber
  IN  /\ pc[p] = "lookup"
      /\ last' = n
      /\ num' = [num EXCEPT ![p] = n]
      /\ count' = count + 1
      /\ turn' = [turn EXCEPT ![p] = count + 1]
      /\ shared' = IF Holders(n) = {} THEN shared ELSE shared \cup Holders(n) \cup {p}
      /\ \/ /\ pc' = [pc EXCEPT ![p] = "wait"]
            /\ pending' = [pending EXCEPT ![n] = p]
            /\ net' = net \cup {[n |-> n, by |-> p]}
            /\ UNCHANGED result
         \/ /\ pc' = [pc EXCEPT ![p] = "done"]
            /\ result' = [result EXCEPT ![p] = "error"]
            /\ pending' = [pending EXCEPT ![n] = none]
            /\ UNCHANGED net
      /\ UNCHANGED future

\* gaierror, or no address of a family with a socket: the call goes on in the
\* external program and takes no number.
FallBack(p) == /\ pc[p] = "lookup"
               /\ pc' = [pc EXCEPT ![p] = "fallback"]
               /\ UNCHANGED <<last, num, future, pending, net, result, count, turn, shared>>

\* What SubprocessPinger.ping returned.
FallenBack(p, res) == /\ pc[p] = "fallback"
                      /\ pc' = [pc EXCEPT ![p] = "done"]
                      /\ result' = [result EXCEPT ![p] = res]
                      /\ UNCHANGED <<last, num, future, pending, net, count, turn, shared>>

\* An answer to another process of the host, which a raw socket sees as well.
Stranger(n) == /\ Raw
               /\ \A q \in net : q.by # none             \* bound: one at a time
               /\ net' = net \cup {[n |-> n, by |-> none]}
               /\ UNCHANGED <<last, pc, num, future, pending, result, count, turn, shared>>

Lost(q) == /\ q \in net
           /\ net' = net \ {q}
           /\ UNCHANGED <<last, pc, num, future, pending, result, count, turn, shared>>

\* A slip: a future that is resolved already is resolved again.
TakesAnyAnswer(p) == p # none

TakesAnswer(p) == p # none /\ future[p] = none

\* _readable, _dispatch and _resolve.  The answer is of any of the three kinds, and
\* may be delivered again.
Deliver(q, kind) ==
  /\ q \in net
  /\ net' \in {net, net \ {q}}
  /\ future' = IF TakesAnswer(pending[q.n])
               THEN [future EXCEPT ![pending[q.n]] = [n |-> q.n, by |-> q.by, kind |-> kind]]
               ELSE future
  /\ UNCHANGED <<last, pc, num, pending, result, count, turn, shared>>

\* A slip: the future of a call that timed out stays in the dictionary.
LeaveEntry(p) == pending

\* finally: self.pending.pop(seq), whoever has the entry by now
PopEntry(p) == [pending EXCEPT ![num[p]] = none]

\* The call goes on with its future resolved, or gives up after max_wait; when
\* the answer comes in the turn of the timeout, it depends on the version of
\* asyncio.wait_for which of the two it is.
Finish(p, res) ==
  /\ pc[p] = "wait"
  /\ res = "timeout" \/ (future[p] # none /\ res = future[p].kind)
  /\ pc' = [pc EXCEPT ![p] = "done"]
  /\ result' = [result EXCEPT ![p] = res]
  /\ pending' = PopEntry(p)
  /\ UNCHANGED <<last, num, future, net, count, turn, shared>>

Next == \/ \E p \in Pings : \/ Call(p) \/ Send(p) \/ FallBack(p)
                            \/ \E res \in {"ok", "timeout", "error"} : FallenBack(p, res)
                            \/ \E res \in Kind \cup {"timeout"} : Finish(p, res)
        \/ \E n \in Number : Stranger(n)
        \/ \E q \in net : Lost(q) \/ \E kind \in Kind : Deliver(q, kind)

Spec == Init /\ [][Next]_vars

-----------------------------------------------------------------------------
(* Properties *)

\* The dictionary holds only calls that wait, each under its number, so that no
\* entry leaks; and every call that waits has its entry, unless the counter came
\* round while a call waited: the calls that shared the number are the only ones
\* whose entry may be taken away.
PendingExact ==
  /\ \A n \in Number : pending[n] # none => pc[pending[n]] = "wait" /\ num[pending[n]] = n
  /\ \A p \in Pings \ shared : pc[p] = "wait" => pending[num[p]] = p

\* A call takes the answer to another call of the process only if that one was
\* made at least a whole turn of the counter before it: 2^16 pings, whatever
\* packets are late or repeated and whichever calls share a number.
AnswerOfLastTurn ==
  \A p \in Pings : future[p] # none /\ future[p].by \notin {p, none} =>
                    turn[future[p].by] + Width <= turn[p]

\* What a caller of ping() sees: PingCall with the future of a call as its answer,
\* or what the external program told a call that took no number.
Answered(p) == IF future[p] # none THEN future[p].kind
               ELSE IF turn[p] = 0 /\ result[p] \in Kind THEN result[p]
               ELSE none

Calls == INSTANCE PingCall
           WITH Pings    <- Pings,
                Kind     <- Kind,
                none     <- none,
                asked    <- {p \in Pings : pc[p] # "idle"},
                answer   <- [p \in Pings |-> Answered(p)],
                returned <- result

\* The class keeps the promise of PingCall: late, repeated and foreign packets
\* never change an answer, nor reach a call that has returned; and what it
\* returns is that answer, or that there was none in time.
CallContract == Calls!CallSpec
=============================================================================
