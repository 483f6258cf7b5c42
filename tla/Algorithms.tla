----------------------------- MODULE Algorithms -----------------------------
(***************************************************************************)
(* The parts of the repository that compute and keep no state, each run    *)
(* once on an input of a bounded set: the target grammar, the lookups,     *)
(* the DNS probe and the reading of ping of pingtui, the comparison of     *)
(* treediff, the sums of the work log, the report on snapshots.  The       *)
(* properties compare the results with what they are to mean, defined      *)
(* without the algorithms.                                                 *)
(***************************************************************************)
EXTENDS SpecParse, Lookup, DnsReply, SubprocessPinger, FileTree, WorkLog, SnapStatus

CONSTANTS HopInputs, IfInputs, GatewayInputs, DnsInputs, PingInputs,
          TreeInputs, LogInputs, SnapInputs

\* A router is never the target; hops count from 1.  No word that ping has for its own
\* end is in the name of a target.
ASSUME AlgAssumption ==
  /\ \A x \in HopInputs :
       /\ x.n \in Nat \ {0}
       /\ \A path \in {x.path1, x.path2} : path \in Seq(STRING \ {"target"})
  /\ \A x \in PingInputs :
       /\ x.name \subseteq {"icmp", "error", "word", "packet"}
       /\ x.said \in Seq(STRING \ {NoError}) /\ x.end \in Ends
  /\ \A x \in GatewayInputs :
       \A r \in x.gw4 \cup x.gw6 : r.metric \in Nat /\ r.via \in Nat
  /\ \A x \in TreeInputs, i \in {1, 2} : /\ DOMAIN x[i] \subseteq Seq(STRING) \ {<< >>}
                                         /\ IsFiniteSet(DOMAIN x[i])
  /\ SnapInputs \subseteq Seq([age : Nat, state : {"good", "vanished", "empty"}])

VARIABLES alg,      \* the algorithm
          input,
          output    \* empty, then the result

algVars == <<alg, input, output>>

AlgInit ==
  /\ output = << >>
  /\ \/ alg = "spec"    /\ input \in Documented
     \/ alg = "hop"     /\ input \in HopInputs
     \/ alg = "if"      /\ input \in IfInputs
     \/ alg = "gateway" /\ input \in GatewayInputs
     \/ alg = "dns"     /\ input \in DnsInputs
     \/ alg = "ping"    /\ input \in PingInputs
     \/ alg = "tree"    /\ input \in TreeInputs
     \/ alg = "log"     /\ input \in LogInputs
     \/ alg = "snap"    /\ input \in SnapInputs

Return(name, result) == /\ alg = name
                        /\ output = << >>
                        /\ output' = << result >>
                        /\ UNCHANGED <<alg, input>>

ParseSpec == Return("spec", [here   |-> Parse(Text(input)),
                             remote |-> Parse(RemoteSpec(Text(input)))])

Hop == Return("hop", HopLookup(input.path1, input.path2, input.talks, input.n, input.lost))

If == Return("if", IfLookup(input.iface, input.fam, input.index, input.tail))

Gateway == Return("gateway", GatewayLookup(input.gw4, input.gw6, input.ifaces,
                                           input.iface, input.fam))

\* A message is a question, answers and where it is cut off.
Encode(qid, msg) ==
  LET answer(a) == a.name \o <<0, 1, 0, 1, 0, 0, 0, a.ttl, 0, Len(a.data)>> \o a.data
      whole     == Header(qid, msg.response, msg.rcode, 1, Len(msg.answers))
                   \o Question(msg.labels)
                   \o FlattenSeq([i \in DOMAIN msg.answers |-> answer(msg.answers[i])])
  IN  SubSeq(whole, 1, Min({msg.cut, Len(whole)}))

Arrived(x) == [i \in DOMAIN x |->
                [at |-> x[i].at, refused |-> x[i].refused,
                 data |-> Encode(x[i].qid, x[i].msg)]]

Dns == Return("dns", Probe(Arrived(input.arrivals), NextQid(input.last), input.wait))

Ping == Return("ping", PingOnce(input.name, input.said, input.end))

Compared(A, B) == Finalize(BuildTree(BuildEntries(A, B)))

Tree == Return("tree", Compared(input[1], input[2]))

Jobs == {input.file[i].job : i \in DOMAIN input.file} \ {""}

Topics == {input.file[i].topic : i \in DOMAIN input.file} \cup {"__default__"}

Stats == Return("log",
  [job \in Jobs |->
     [total  |-> TotalTime(input.file, input.only, job),
      days   |-> MapThenSumSet(LAMBDA t : MapThenSumSet(LAMBDA d :
                   ByDays(input.mid, input.file, input.only, d, job, t),
                   DOMAIN input.mid), Topics),
      months |-> MapThenSumSet(LAMBDA t : MapThenSumSet(LAMBDA m :
                   ByMonths(input.mid, input.month, input.file, input.only, m, job, t),
                   {input.month[d] : d \in DOMAIN input.mid}), Topics)]])

StatusReport(files) ==
  LET ages == LoadLastSnapshots(files)
  IN  [raises  |-> Raises(files),
       verdict |-> Verdict(ages),
       color   |-> VerdictColor(Verdict(ages)),
       rows    |-> [i \in DOMAIN ages |-> [shown |-> FormatAge(ages[i]),
                                           color |-> AgeToColor(ages[i])]]]

Report == Return("snap", StatusReport(input))

AlgNext == ParseSpec \/ Hop \/ If \/ Gateway \/ Dns \/ Ping \/ Tree \/ Stats \/ Report

AlgSpec == AlgInit /\ [][AlgNext]_algVars

Apart(a, b) == IF a < b THEN b - a ELSE a - b

Result(name) == alg = name /\ output # << >>

-----------------------------------------------------------------------------
(* Properties *)

\* What becomes of a specification with an @ part after a parameter: it is refused,
\* or the part is lost and the target is probed from here, without the server.
AtPartLost(r, target) ==
  \/ r = [error |-> TRUE]
  \/ r.target = << target >> /\ ~r.server /\ r.transport = << >> /\ ~r.local

\* parse_spec: a specification is understood as the documentation says unless a
\* server or a transport comes after a parameter, which the documentation allows:
\* the loop that takes parameters off the end takes the @ part off with the last
\* parameter before it.
ParsedAsDocumented ==
  Result("spec") =>
    IF AtAfterParam(input) THEN AtPartLost(output[1].here, input.target)
    ELSE output[1].here = Meaning(input)

\* remote_spec: the remote instance understands what it is told as the same
\* target with the same parameters, to be pinged from where it is; but it loses
\* the server of a dns: target with parameters, in the same way.
RemoteUnderstands ==
  Result("spec") /\ ~AtAfterParam(input) =>
    IF AtAfterParamThere(input) THEN AtPartLost(output[1].remote, input.target)
    ELSE output[1].remote = [Meaning(input) EXCEPT !.transport = << >>, !.local = FALSE]

\* A specification means here, and where it is passed on to, what is written, but
\* for the @ parts after a parameter, which are lost.
SpecUnderstood == ParsedAsDocumented /\ RemoteUnderstands

\* Where the target is on a path, in hops.
Distance(path) == Len(path) + 1

\* _hop_lookup: an address that is returned is that of the N-th hop of the path, or
\* of a nearer router that sent a message of its own before.  The target is
\* returned if it is the N-th hop; only when the answer to the second probe gets
\* lost, or the path becomes longer between the probes, may a nearer target be
\* taken for the N-th hop; and a hop is said to be beyond the target only if the
\* target is nearer.
HopTruthful ==
  Result("hop") =>
    LET r == output[1]
    IN  /\ IsFound(r) /\ r.ip[1] # "target" =>
             /\ input.n <= Len(input.path1)
             /\ \E i \in 1 .. input.n : /\ r.ip[1] = input.path1[i]
                                        /\ i < input.n => input.path1[i] \in input.talks
        /\ IsFound(r) /\ r.ip[1] = "target" =>
             /\ Distance(input.path1) <= input.n
             /\ \/ Distance(input.path1) = input.n
                \/ 2 \in input.lost \/ input.path2 # input.path1
        /\ r.why = "beyond" => Distance(input.path2) < input.n

\* _if_lookup: an address with a host part that was filled in is in the network
\* of the interface's address and ends with what was written, and there is an
\* answer unless the network has no such address.
AddressFits ==
  Result("if") =>
    LET r     == output[1]
        tail  == input.tail
        addrs == SelectSeq(input.iface.addrs, LAMBDA x : input.fam \in {"any", x.fam})
        a     == addrs[input.index]
        size  == 2 ^ (Bits[a.fam] - a.plen)
        fits  == {h \in 0 .. size - 1 :
                    \A i \in DOMAIN tail :
                      tail[i] = IF i = 1 THEN h \div Base[a.fam] ^ (Len(tail) - 1)
                                ELSE (h \div Base[a.fam] ^ (Len(tail) - i)) % Base[a.fam]}
    IN  /\ IsFound(r) => input.iface.exists /\ ~input.iface.ipFails /\ addrs # << >>
        /\ input.iface.exists /\ ~input.iface.ipFails
           /\ input.index \in DOMAIN addrs /\ tail # << >>
             => /\ IsFound(r) => /\ r.ip[1] \div size = a.ip \div size
                                 /\ r.ip[1] % size \in fits
                /\ ~IsFound(r) =>
                     fits = {} \/ size = 1 \/ \E i \in DOMAIN tail : tail[i] >= Base[a.fam]

\* _gateway_lookup: the gateway belongs to a route one may take, through the
\* interface that was asked for; no route of its family is better, and one of
\* v6 is used only where v4 has none.
BestGateway ==
  Result("gateway") =>
    LET usable(table, fam) ==
          {r \in table : /\ r.default /\ r.gateway
                         /\ input.iface \in {"", r.iface}
                         /\ input.fam \in {"any", fam}}
        u4   == usable(input.gw4, "v4")
        u6   == usable(input.gw6, "v6")
        best(table) == {r.via : r \in {s \in table : \A t \in table : s.metric <= t.metric}}
        r    == output[1]
    IN  /\ IsFound(r) => r.ip[1] \in IF u4 # {} THEN best(u4) ELSE best(u6)
        /\ ~IsFound(r) => u4 \cup u6 = {} \/ input.iface \notin input.ifaces

\* What is found out from the interfaces and routes of the machine itself: an
\* address of the right network, and the gateway the kernel would use.
LocalAddress == AddressFits /\ BestGateway

\* DnsProbe.probe: the result is what the first reply to this query says that
\* comes within the wait, with the least TTL of the records that came whole,
\* whatever else comes before it, cut anywhere; otherwise it is a timeout.
OwnReplyInTime ==
  Result("dns") =>
    LET own(k) == LET x == input.arrivals[k]
                  IN  /\ x.at < input.wait
                      /\ \/ x.refused
                         \/ /\ x.qid = NextQid(input.last)
                            /\ x.msg.response = 1 /\ x.msg.cut >= 12
        mine   == {k \in DOMAIN input.arrivals : own(k)}
        first  == input.arrivals[Min(mine)]
        size(a)    == Len(a.name) + 10 + Len(a.data)
        start(m, i) == 12 + Len(Question(m.labels))
                       + MapThenSumSet(LAMBDA j : size(m.answers[j]), 1 .. i - 1)
        whole(m)   == {m.answers[i].ttl : i \in {j \in DOMAIN m.answers :
                         start(m, j) + Len(m.answers[j].name) + 10 <= m.cut}}
    IN  CASE mine = {} -> output[1] = Timeout
          [] OTHER ->
               IF first.refused \/ first.msg.rcode # 0
                 THEN output[1].status = "error"
                 ELSE /\ output[1].status = "ok" /\ output[1].rtt = first.at
                      /\ output[1].ttl = IF whole(first.msg) = {} THEN << >>
                                         ELSE << Min(whole(first.msg)) >>

\* SubprocessPinger.ping: a probe is ok exactly if it was answered, and a message
\* the code has a pattern for is never taken for a loss.  Unless the name of the
\* target has one of the words that are looked for, a probe of which nothing came
\* is a loss, and of an error the detail is the first line that says why, not the
\* summary.  An expired TTL and a packet the machine itself rejects may be either:
\* the code has no pattern for them and takes them for losses, which is not what
\* the docstring of _icmp_error and the native pinger say of quick errors.
ProbeUnderstood ==
  Result("ping") =>
    LET r      == output[1]
        silent == \/ input.said = << >> /\ input.end = "lost"
                  \/ input.end = "hung"
        quick  == input.said = << >> /\ input.end \in {"rejected", "exceeded"}
        why    == IF input.said # << >> /\ input.end \notin DOMAIN AtOnce
                  THEN Head(input.said) ELSE input.end
    IN  /\ r.status = "ok" <=> input.end = "answered"
        /\ r.status = "timeout" => silent \/ quick
        /\ input.name = {} => /\ silent => r.status = "timeout"
                              /\ r.status = "error" /\ input.end # "not installed" =>
                                   r.detail = why

\* BuildTree and Finalize: what a row says of a directory is what the files
\* below it say, on either side: one verdict if they agree on it, and the sums
\* of the lines.  It needs that no file of one side has the name of a directory
\* of the other.
DirectoryTellsTruth ==
  Result("tree") =>
    LET entries == BuildEntries(input[1], input[2])
        clash   == \E p, q \in DOMAIN entries : IsStrictPrefix(p, q)
        below(d) == {p \in DOMAIN entries : IsStrictPrefix(d, p)}
        said(d)  == {entries[p].status : p \in below(d)}
    IN  ~clash =>
          \A d \in DOMAIN output[1] \ DOMAIN entries :
            below(d) # {} =>
              /\ output[1][d].status = IF said(d) \in {{"onlyA"}, {"onlyB"}, {"same"}}
                                         THEN CHOOSE s \in said(d) : TRUE ELSE "diff"
              /\ output[1][d].plus  = SumFunction([p \in below(d) |-> entries[p].plus])
              /\ output[1][d].minus = SumFunction([p \in below(d) |-> entries[p].minus])

\* Hours by which a day is longer or shorter than 24 of them.
ClockChange(mid) ==
  MapThenSumSet(LAMBDA d : Apart(mid[d + 1], mid[d] + Day),
                {d \in DOMAIN mid : d + 1 \in DOMAIN mid})

\* work_log stats: the days of an activity, and its months, add up to its total
\* but for what lies beyond the days an interval is looked for in, and for the
\* hour of a clock change; and the one interval that is in no sum is the current
\* one, which is in it as soon as something else is logged.
DaysAddUp ==
  Result("log") =>
    LET file == input.file
        end(i)    == LET d == DateOf(input.mid, file[i].at) + DaysAhead
                     IN  IF d \in DOMAIN input.mid THEN input.mid[d] ELSE file[i + 1].at
        beyond(i) == IF file[i + 1].at > end(i) THEN file[i + 1].at - end(i) ELSE 0
        cut(job)  == MapThenSumSet(beyond, {i \in Counted(file, input.only) : file[i].job = job})
        now       == CurrentState(file)
        later     == Last(file).at + 1
    IN  /\ \A job \in Jobs :
             /\ Apart(output[1][job].days + cut(job), output[1][job].total)
                  <= ClockChange(input.mid)
             /\ output[1][job].months = output[1][job].days
        /\ now # "" /\ input.only \in {"", now} =>
             TotalTime(Log(file, later, ""), input.only, now) = output[1][now].total + 1

\* snapshoter status: neither waiting nor losing a snapshot makes the verdict
\* better; an age is shown to at most a unit.
StatusHonest ==
  Result("snap") /\ ~output[1].raises =>
    LET ages == LoadLastSnapshots(input)
    IN  /\ \A i \in DOMAIN ages : Verdict(RemoveAt(ages, i)) >= output[1].verdict
        /\ \A wait \in {Hour, DayLen, 20 * DayLen} :
             Verdict([i \in DOMAIN ages |-> ages[i] + wait]) >= output[1].verdict
        /\ \A i \in DOMAIN ages :
             LET s == output[1].rows[i].shown IN Apart(s.count * s.unit, ages[i]) < s.unit
=============================================================================
