------------------------------- MODULE Lookup -------------------------------
(***************************************************************************)
(* How pingtui finds the address of a target that is no name: the N-th hop *)
(* of the path to a host, an address on an interface, a default gateway    *)
(* (scripts/pingtui.py).                                                   *)
(*                                                                         *)
(* An address is a number of Bits[family] bits; what is written after if:  *)
(* fills its host part by digits of base Base[family].                     *)
(***************************************************************************)
EXTENDS Integers, FiniteSetsExt, SequencesExt

CONSTANTS Bits, Base   \* by family: 32 and 256 for v4, 128 and 2^16 for v6

ASSUME LookupAssumption == \A f \in {"v4", "v6"} : Bits[f] \in Nat /\ Base[f] \in Nat \ {0}

Found(ip)   == [ip |-> << ip >>, why |-> ""]
Failed(why) == [ip |-> << >>, why |-> why]

IsFound(r) == r.ip # << >>

-----------------------------------------------------------------------------
(* The N-th hop.  A path is the sequence of its routers, each "silent",    *)
(* "refuses" or its own address; the target "target" follows them.  Some   *)
(* of the routers send a redirect when they pass a packet on.  The name of *)
(* the target has none of the words that are looked for.                   *)

\* The routers that pass a packet of so many hops on and send a redirect.
Redirects(path, talks, ttl) ==
  {i \in DOMAIN path : /\ i < ttl /\ path[i] \in talks
                       /\ \A j \in 1 .. i : path[j] # "refuses"}

\* One probe with a limited number of hops, whose answer may get lost.  If some line
\* of the output says exceeded, the router is that of the first line with one.
HopProbe(path, talks, ttl, lost) ==
  LET refused  == \E i \in DOMAIN path : i <= ttl /\ path[i] = "refuses"
      redirect == Redirects(path, talks, ttl)
  IN  IF ~lost /\ ~refused /\ ttl <= Len(path) /\ path[ttl] # "silent"
        THEN [kind |-> "exceeded",
              ip   |-> path[IF redirect = {} THEN ttl ELSE Min(redirect)]]
      ELSE IF ~lost /\ ~refused /\ ttl > Len(path) THEN [kind |-> "reply"]
      ELSE IF (~lost /\ refused) \/ redirect # {} THEN [kind |-> "error"]
      ELSE [kind |-> "silent"]

\* A slip: that the target answers is taken for its being the hop.
HopOfFirst(path1, path2, talks, n, lost) ==
  LET first == HopProbe(path1, talks, n, 1 \in lost)
  IN  CASE first.kind = "exceeded" -> Found(first.ip)
        [] first.kind = "error"    -> Failed("error")
        [] first.kind = "silent"   -> Failed("silent")
        [] first.kind = "reply"    -> Found("target")

\* The second probe goes out later, when the path may be another one.
HopLookup(path1, path2, talks, n, lost) ==
  LET first  == HopProbe(path1, talks, n, 1 \in lost)
      nearer == n > 1 /\ HopProbe(path2, talks, n - 1, 2 \in lost).kind = "reply"
  IN  CASE first.kind = "exceeded" -> Found(first.ip)
        [] first.kind = "error"    -> Failed("error")
        [] first.kind = "silent"   -> Failed("silent")
        [] first.kind = "reply"    -> IF nearer THEN Failed("beyond") ELSE Found("target")

-----------------------------------------------------------------------------
(* An address on an interface *)

IfaceAddrs(exists, ipFails, addrs) ==
  IF ~exists THEN [addrs |-> << >>, err |-> "no interface"]
  ELSE IF ipFails THEN [addrs |-> << >>, err |-> "ip failed"]
  ELSE [addrs |-> addrs, err |-> ""]

\* A digit that is too large is an error.
ValidTail(tail, fam) == \A i \in DOMAIN tail : tail[i] < Base[fam]

ParseTail(tail, fam) == FoldLeft(LAMBDA v, d : v * Base[fam] + d, 0, tail)

Network(a) == a.ip - (a.ip % 2 ^ (Bits[a.fam] - a.plen))

\* A slip: the network's own size is taken for a value that fits.
FitsWithNext(value, a) == value <= 2 ^ (Bits[a.fam] - a.plen)

Fits(value, a) == value < 2 ^ (Bits[a.fam] - a.plen)

\* addrs[index - 1] of a Python list: index 0 is the last address.
Nth(addrs, index) == IF index = 0 THEN Last(addrs) ELSE addrs[index]

FillIn(a, tail) ==
  IF tail = << >> THEN Found(a.ip)
  ELSE IF ~ValidTail(tail, a.fam) THEN Failed("bad tail")
  ELSE IF a.plen = Bits[a.fam] THEN Failed("no host part")
  ELSE IF ~Fits(ParseTail(tail, a.fam), a) THEN Failed("too long")
  ELSE Found(Network(a) + ParseTail(tail, a.fam))

IfLookup(iface, fam, index, tail) ==
  LET got   == IfaceAddrs(iface.exists, iface.ipFails, iface.addrs)
      addrs == IF fam = "any" THEN got.addrs
               ELSE SelectSeq(got.addrs, LAMBDA a : a.fam = fam)
  IN  IF got.err # "" THEN Failed(got.err)
      ELSE IF addrs = << >> THEN Failed("no address")
      ELSE IF index > Len(addrs) THEN Failed("fewer addresses")
      ELSE FillIn(Nth(addrs, index), tail)

-----------------------------------------------------------------------------
(* A default gateway.  A table is a set of routes; iface "" stands for any *)

\* A slip: routes through other interfaces count too.
GwAnywhere(table, iface) == {r \in table : r.default /\ r.gateway}

Gw(table, iface) == {r \in table : /\ r.default /\ r.gateway
                                   /\ iface # "" => r.iface = iface}

Better(r, s) == r.metric < s.metric \/ (r.metric = s.metric /\ r.via < s.via)

MinRoute(routes) == CHOOSE r \in routes : \A s \in routes \ {r} : ~Better(s, r)

GatewayLookup(gw4, gw6, ifaces, iface, fam) ==
  LET routes4 == IF fam \in {"any", "v4"} THEN Gw(gw4, iface) ELSE {}
      routes  == IF routes4 = {} /\ fam \in {"any", "v6"} THEN Gw(gw6, iface)
                 ELSE routes4
  IN  IF iface # "" /\ iface \notin ifaces THEN Failed("no interface")
      ELSE IF routes = {} THEN Failed("no route")
      ELSE Found(MinRoute(routes).via)
=============================================================================
