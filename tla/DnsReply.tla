------------------------------- MODULE DnsReply -------------------------------
(***************************************************************************)
(* The DNS probe of pingtui (scripts/pingtui.py): its query, how it reads  *)
(* a datagram, and which datagram it waits for, until when.                *)
(*                                                                         *)
(* A datagram is a sequence of bytes, whose positions count from 0, as in  *)
(* the code.  A number of several bytes is kept in its last one; of the    *)
(* flags, byte 2 is whether it is a response and byte 3 its rcode.         *)
(***************************************************************************)
EXTENDS Integers, SequencesExt

Qids == 65536

NextQid(qid) == (qid + 1) % Qids

Byte(buf, i) == buf[i + 1]

\* A label is its length and its bytes.
EncodeName(labels) ==
  FlattenSeq([i \in DOMAIN labels |-> << Len(labels[i]) >> \o labels[i]]) \o << 0 >>

Header(qid, response, rcode, qd, an) == <<0, qid, response, rcode, 0, qd, 0, an, 0, 0, 0, 0>>

\* Labels that are empty (two dots, a dot at the end) are left out.
Question(labels) ==
  EncodeName(SelectSeq(labels, LAMBDA lb : lb # << >>)) \o <<0, 1, 0, 1>>

BuildDnsQuery(qid, labels) == Header(qid, 0, 0, 1, 0) \o Question(labels)

-----------------------------------------------------------------------------
\* Where a name that begins at position i ends: at the zero byte or after a
\* pointer, or behind the datagram.
DnsSkipName(buf, i) ==
  LET skip[k \in Nat] == CASE k >= Len(buf)       -> k
                           [] Byte(buf, k) = 0    -> k + 1
                           [] Byte(buf, k) >= 192 -> k + 2
                           [] OTHER               -> skip[k + 1 + Byte(buf, k)]
  IN  skip[i]

\* Where the answers begin.
AfterQuestions(buf) ==
  LET end[q \in Nat] == IF q = 0 THEN 12 ELSE DnsSkipName(buf, end[q - 1]) + 4
  IN  end[Byte(buf, 5)]

\* The TTLs of the answers, as far as their fixed parts are there.
Ttls(buf) ==
  LET read[left \in Nat, i \in Nat] ==
        LET k == DnsSkipName(buf, i)
        IN  IF left = 0 \/ k + 10 > Len(buf) THEN << >>
            ELSE << Byte(buf, k + 7) >> \o read[left - 1, k + 10 + Byte(buf, k + 9)]
  IN  read[Byte(buf, 7), AfterQuestions(buf)]

IsReplyTo(buf, qid) == Len(buf) >= 12 /\ Byte(buf, 1) = qid /\ Byte(buf, 2) = 1

ParseDnsReply(buf, qid) ==
  IF IsReplyTo(buf, qid) THEN << [rcode |-> Byte(buf, 3), ttls |-> Ttls(buf)] >>
  ELSE << >>

-----------------------------------------------------------------------------
(* The probe.  Arrivals are what the socket receives, in order: the time   *)
(* since the query and a datagram, or an error of the socket (refused).    *)

Timeout == [status |-> "timeout"]

Judged(reply, rtt) ==
  IF reply.rcode # 0 THEN [status |-> "error"]
  ELSE [status |-> "ok", rtt |-> rtt,
        ttl |-> IF reply.ttls = << >> THEN << >> ELSE << Min(Range(reply.ttls)) >>]

\* A slip: after a foreign datagram the probe waits anew.
WholeWait(wait, now) == wait

\* Each foreign datagram leaves the rest of the time to wait.
Remaining(wait, now) == wait - now

Probe(arrivals, qid, wait) ==
  LET await[k \in Nat] ==
        LET now == IF k = 1 THEN 0 ELSE arrivals[k - 1].at
        IN  IF \/ Remaining(wait, now) <= 0
               \/ k > Len(arrivals)
               \/ arrivals[k].at - now >= Remaining(wait, now)
              THEN Timeout
            ELSE IF arrivals[k].refused THEN [status |-> "error"]
            ELSE LET parsed == ParseDnsReply(arrivals[k].data, qid)
                 IN  IF parsed = << >> THEN await[k + 1] ELSE Judged(parsed[1], arrivals[k].at)
  IN  await[1]
=============================================================================
