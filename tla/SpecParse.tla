------------------------------ MODULE SpecParse ------------------------------
(***************************************************************************)
(* The grammar of pingtui targets: parse_spec with _strip_trailing_params  *)
(* and _parse_params, and the specification a remote instance is given     *)
(* (scripts/pingtui.py).                                                   *)
(*                                                                         *)
(* A specification is a sequence of tokens.  What matters is where "," and *)
(* "@" are looked for, so names, servers and commands are one token each:  *)
(*   "host" "dns"        a target, without and with the prefix dns:        *)
(*   "server" "cmd"      something that is a host:port, and that is not    *)
(*   "label=a" "label=b" "i=2"   parameters, with their key                *)
(* Text after a parameter's value belongs to the value, up to a comma.     *)
(***************************************************************************)
EXTENDS Integers, SequencesExt

CONSTANTS Params,     \* parameters that are written
          MaxParams   \* bound on how many are written in one place

ASSUME SpecAssumption == /\ Params \subseteq {"label=a", "label=b", "i=2"}
                         /\ MaxParams \in Nat

Comma   == ","
Token   == {"host", "dns", "server", "cmd", Comma, "@"} \cup Params
Labels  == {"label=a", "label=b"}
NoLabel == << >>

-----------------------------------------------------------------------------
(* What the documentation says a specification may be: parameters before   *)
(* the first @ or at the end, a server for dns: only                       *)

ParamSeqs == UNION {[1 .. n -> Params] : n \in 0 .. MaxParams}

Parts == [target : {"host", "dns"}, server : BOOLEAN, via : {"", "@", "@@"},
          head : ParamSeqs, tail : ParamSeqs]

\* The tail is what follows a transport.
Documented == {x \in Parts : /\ x.server => x.target = "dns"
                             /\ x.via = "" => x.tail = << >>
                             /\ x.via = "@@" => x.target = "host"}

\* A server or a transport comes after a parameter: here, and in what a remote
\* instance is told.
AtAfterParam(x) == x.head # << >> /\ (x.via # "" \/ x.server)

AtAfterParamThere(x) == x.server /\ x.head \o x.tail # << >>

Commas(ps) == FlattenSeq([i \in DOMAIN ps |-> << Comma, ps[i] >>])

Text(x) == << x.target >> \o Commas(x.head)
           \o (IF x.server THEN << "@", "server" >> ELSE << >>)
           \o (CASE x.via = ""   -> << >>
                 [] x.via = "@"  -> << "@", "cmd" >>
                 [] x.via = "@@" -> << "@", "@", "cmd" >>)
           \o Commas(x.tail)

LastOf(ps, S) == LET at == {i \in DOMAIN ps : ps[i] \in S}
               IN  IF at = {} THEN NoLabel ELSE << ps[Max(at)] >>

\* What it means: the fields of Host that parse_spec fills in.
Meaning(x) == [target    |-> << x.target >>,
               server    |-> x.server,
               transport |-> IF x.via = "" THEN << >> ELSE << "cmd" >>,
               local     |-> x.via = "@@",
               label     |-> LastOf(x.head \o x.tail, Labels),
               interval  |-> \E i \in DOMAIN (x.head \o x.tail) :
                               (x.head \o x.tail)[i] = "i=2"]

-----------------------------------------------------------------------------
(* parse_spec *)

Positions(t, tok) == {i \in DOMAIN t : t[i] = tok}

\* The part of t after position c up to the next comma.
Segment(t, c) ==
  SubSeq(t, c + 1, Min({d - 1 : d \in {e \in Positions(t, Comma) : e > c}} \cup {Len(t)}))

\* key=value with a key that is known; the value may go on after the token.
IsParam(seg) == seg # << >> /\ seg[1] \in Params

\* A slip: only the last segment is taken off.
LastParamComma(t) ==
  {c \in Positions(t, Comma) : c = Max(Positions(t, Comma)) /\ IsParam(Segment(t, c))}

\* The commas _strip_trailing_params cuts at, from the end.
TrailingCommas(t) ==
  {c \in Positions(t, Comma) : \A d \in Positions(t, Comma) : d >= c => IsParam(Segment(t, d))}

Body(t) == IF TrailingCommas(t) = {} THEN t ELSE SubSeq(t, 1, Min(TrailingCommas(t)) - 1)

\* The segments after the commas in C, in the order they are written.
Segments(t, C) ==
  [k \in 1 .. Cardinality(C) |->
     Segment(t, CHOOSE c \in C : Cardinality({d \in C : d <= c}) = k)]

\* str.partition("@")
Cut(t) == IF Positions(t, "@") = {} THEN Len(t) + 1 ELSE Min(Positions(t, "@"))
Before(t) == SubSeq(t, 1, Cut(t) - 1)
After(t)  == SubSeq(t, Cut(t) + 1, Len(t))

DropAt(t) == IF t # << >> /\ t[1] = "@" THEN Tail(t) ELSE t

\* Every parameter of a specification, those of the target first.
AllParams(t) ==
  Segments(Before(Body(t)), Positions(Before(Body(t)), Comma))
  \o Segments(t, TrailingCommas(t))

\* _parse_params: every segment is a parameter, and a number is a number.
Valid(t) == \A i \in DOMAIN AllParams(t) :
              /\ IsParam(AllParams(t)[i])
              /\ AllParams(t)[i][1] = "i=2" => Len(AllParams(t)[i]) = 1

\* The label that counts is the last one, with all that is glued to it.
Label(t) == LET ps == AllParams(t)
                at == {i \in DOMAIN ps : ps[i][1] \in Labels}
            IN  IF at = {} THEN NoLabel ELSE ps[Max(at)]

Target(t) == SubSeq(Before(Body(t)), 1, 1)

IsDns(t) == Target(t) = << "dns" >>

\* The part after the first @ is a DNS server if it looks like one.
HasServer(t) == IsDns(t) /\ Before(After(Body(t))) = << "server" >>

Transport(t) == IF HasServer(t) THEN DropAt(After(After(Body(t))))
                ELSE DropAt(After(Body(t)))

Parse(t) ==
  IF ~Valid(t) THEN [error |-> TRUE]
  ELSE [target    |-> Target(t),
        server    |-> HasServer(t),
        transport |-> Transport(t),
        local     |-> ~IsDns(t) /\ After(Body(t)) # << >> /\ After(Body(t))[1] = "@",
        label     |-> Label(t),
        interval  |-> \E i \in DOMAIN AllParams(t) : AllParams(t)[i] = << "i=2" >>]

\* remote_spec: what a remote instance is told to ping.  (Of an @@ target it is
\* the address with the same parameters, see RemoteFeeder.)
RemoteSpec(t) ==
  Target(t) \o FlattenSeq([i \in DOMAIN AllParams(t) |-> << Comma >> \o AllParams(t)[i]])
            \o (IF HasServer(t) THEN << "@", "server" >> ELSE << >>)
=============================================================================
