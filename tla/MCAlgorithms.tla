---------------------------- MODULE MCAlgorithms ----------------------------
(* Inputs of the algorithms for TLC *)
EXTENDS Algorithms

UpTo(n, S) == UNION {[1 .. k -> S] : k \in 0 .. n}

(* Paths of up to two routers, the same or another one at the second probe *)
Paths == { << >> } \cup {<<r>> : r \in {"r1", "silent", "refuses"}}
         \cup {<<r, q>> : r \in {"r1", "silent", "refuses"}, q \in {"r2", "silent"}}

MCHopInputs == [path1 : Paths, path2 : Paths, talks : SUBSET {"r1", "r2"}, n : 1 .. 4,
                lost : SUBSET {1, 2}]

(* Addresses of 4 and 6 bits, in networks with no, some and every host bit *)
MCBits == [f \in {"v4", "v6"} |-> IF f = "v4" THEN 4 ELSE 6]
MCBase == [f \in {"v4", "v6"} |-> IF f = "v4" THEN 4 ELSE 8]

MCAddrs == {[fam |-> "v4", ip |-> 9, plen |-> 2], [fam |-> "v4", ip |-> 9, plen |-> 4],
            [fam |-> "v4", ip |-> 5, plen |-> 0], [fam |-> "v6", ip |-> 37, plen |-> 3]}

MCIfInputs ==
  [iface : [exists : {TRUE}, ipFails : {FALSE}, addrs : UpTo(2, MCAddrs)],
   fam : {"any", "v4", "v6"}, index : 0 .. 3,
   tail : UpTo(2, {0, 1, 3, 4, 8}) \cup {<<0, 0, 1>>, <<1, 0, 0>>}]
  \cup
  [iface : [exists : BOOLEAN, ipFails : {TRUE}, addrs : {<< >>}],
   fam : {"any"}, index : {1}, tail : {<< >>, <<1>>}]

Route(iface, default, gateway, metric, via) ==
  [iface |-> iface, default |-> default, gateway |-> gateway, metric |-> metric, via |-> via]

MCGatewayInputs ==
  [gw4 : SUBSET {Route("e0", TRUE, TRUE, 1, 11), Route("e0", TRUE, TRUE, 0, 12),
                 Route("e1", TRUE, TRUE, 1, 13), Route("e0", FALSE, TRUE, 0, 14),
                 Route("e1", TRUE, FALSE, 0, 15)},
   gw6 : SUBSET {Route("e0", TRUE, TRUE, 1, 61), Route("e1", TRUE, TRUE, 0, 62)},
   ifaces : {{"e0", "e1"}}, iface : {"", "e0", "e1", "gone"},
   fam : {"any", "v4", "v6"}]

(* Replies cut anywhere, names by pointers and by labels whose bytes look  *)
(* like an end and like a pointer, with a datagram before or after them    *)
MCLabels == << <<0>>, << >>, <<200, 0>> >>

MCAnswers == {[name |-> <<192, 12>>, ttl |-> 60, data |-> <<0, 0>>],
              [name |-> EncodeName(<< <<192>> >>), ttl |-> 30, data |-> << >>]}

Msg(response, rcode, answers, cut) ==
  [response |-> response, rcode |-> rcode, labels |-> MCLabels,
   answers |-> answers, cut |-> cut]

Whole == 60

MCMsgs == {Msg(1, 0, a, c) : a \in UpTo(2, MCAnswers), c \in 11 .. 50}
          \cup {Msg(r, rc, << >>, Whole) : r \in {0, 1}, rc \in {0, 3}}

Datagram(at, qid, msg) == [at |-> at, refused |-> FALSE, qid |-> qid, msg |-> msg]

Some == {Datagram(at, qid, Msg(1, rc, << >>, Whole)) : at \in {1, 2}, qid \in {6, 7}, rc \in {0, 3}}
        \cup {[Datagram(1, 7, Msg(1, 0, << >>, 0)) EXCEPT !.refused = TRUE]}

MCArrivals ==
  LET any == {Datagram(at, qid, m) : at \in {0, 1, 3}, qid \in {6, 7}, m \in MCMsgs}
  IN  { << >> } \cup {<<x>> : x \in any}
      \cup {<<x, y>> : x \in {z \in any : z.at = 1 /\ z.msg.cut > 40}, y \in Some}
      \cup {<<y, x>> : x \in {z \in any : z.at = 3 /\ z.msg.cut > 48}, y \in Some}
      \cup {<<y, x>> : x \in {z \in Some : z.at = 2}, y \in {z \in Some : z.at = 1}}

MCDnsInputs == [arrivals : MCArrivals, last : {6}, wait : {2}]
               \cup [arrivals : {<<Datagram(1, 0, Msg(1, 0, << >>, Whole))>>},
                     last : {Qids - 1}, wait : {2}]

(* Every end of ping, after redirects or not, for names with any words     *)
MCPingInputs ==
  [name : SUBSET {"icmp", "error", "word"}, said : UpTo(2, {"redirect", "other redirect"}),
   end : Ends]

(* Two levels of directories with every verdict, every pair of contents,   *)
(* and a file with the name of a directory                                 *)
BX  == <<"b", "x">>
BSX == <<"b", "s", "x">>
BSY == <<"b", "s", "y">>

SidesOf(paths, contents) == UNION {[S -> contents] : S \in SUBSET paths}

MCTreeInputs ==
  {<<A, B>> : A, B \in SidesOf({BX, BSX}, {"text", "other", "pluses", "binary"})}
  \cup {<<A, B>> : A, B \in SidesOf({BX, BSX, BSY}, {"text", "other"})}
  \cup {<<A, B>> : A, B \in SidesOf({BX}, Content)}
  \cup {<<A, B>> : A \in SidesOf({<<"b">>}, {"text"}), B \in SidesOf({BX, BSX}, {"text"})}

(* Days of 4 units, looked for in 3 of them; two days of other lengths *)
Line(at, job, topic) == [at |-> at, job |-> job, topic |-> topic]

MCFiles ==
  {<< Line(t[1], "j", p), Line(t[2], k, IF k = "" THEN "" ELSE q), Line(t[3], l, "") >> :
     t \in {u \in [1 .. 3 -> {0, 3, 5, 8, 15}] : u[1] <= u[2] /\ u[2] <= u[3]},
     k \in {"", "j", "k"}, l \in {"", "j"}, p \in {"", "t"}, q \in {"", "u"}}
  \cup {<< Line(3, "j", "") >>}

MCLogInputs ==
  [mid : {<<0, 4, 8, 12, 16, 20>>, <<0, 4, 9, 13, 17, 21>>, <<0, 4, 7, 11, 15, 19>>},
   month : {<<1, 1, 2, 2, 2, 2>>}, file : MCFiles, only : {"", "j"}]

(* Ages around every limit *)
MCAges == {0, 179, 180, 899, 900, 3 * Hour - 31, 3 * Hour - 30, 2 * DayLen, 2 * DayLen + 1,
           7 * DayLen, 7 * DayLen + 1, 14 * DayLen, 14 * DayLen + 1, 30 * DayLen,
           30 * DayLen + 1}

MCSnapInputs ==
  UpTo(2, [age : MCAges, state : {"good"}])
  \cup UpTo(3, [age : {0, 5 * DayLen, 20 * DayLen}, state : {"good", "vanished", "empty"}])
=============================================================================
