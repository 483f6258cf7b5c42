-------------------------- MODULE SubprocessPinger --------------------------
(***************************************************************************)
(* The pinger of pingtui that runs ping once for every probe and reads its *)
(* output (SubprocessPinger and the functions above it in                  *)
(* scripts/pingtui.py), used where no ICMP socket may be opened.           *)
(*                                                                         *)
(* A line of output is what it says and its marks: which of the patterns   *)
(* and words the code looks for are in it.  Blank lines are left out.      *)
(***************************************************************************)
EXTENDS Integers, SequencesExt

OutLine(says, marks) == [says |-> says, marks |-> marks]

\* The lines with one of the marks, the first one of them, and the last one without.
Matching(text, marks) == {i \in DOMAIN text : text[i].marks \cap marks # {}}

FirstMatch(text, marks) == text[Min(Matching(text, marks))]

LastOther(text, marks) == text[Max(DOMAIN text \ Matching(text, marks))]

Shows(text, mark) == Matching(text, {mark}) # {}

-----------------------------------------------------------------------------
(* What ping -n -c 1 does: the end of a probe, after the messages of       *)
(* routers it got before.  The name of the target is in the header and in  *)
(* the heading of the statistics, with whatever words it has.              *)

Ends == {"answered", "unreachable", "exceeded", "lost", "rejected", "unknown", "no network",
         "forbidden", "hung", "not installed"}

AtOnce == [end \in {"unknown", "no network", "forbidden"} |->
             {"ping:"} \cup (CASE end = "unknown"    -> {"dns", "word"}
                              [] end = "no network" -> {"icmp", "word"}
                              [] end = "forbidden"  -> {})]

\* The line of a probe that ends in some other way than by being lost.
Told == [end \in {"answered", "unreachable", "exceeded", "rejected"} |->
           CASE end = "answered"    -> {"time"}
             [] end = "unreachable" -> {"From ", "icmp", "word"}
             [] end = "exceeded"    -> {"From "}
             [] end = "rejected"    -> {"ping:"}]

Run(name, said, end) ==
  LET told == IF end \in DOMAIN Told THEN << OutLine(end, Told[end]) >> ELSE << >>
      sums == IF end = "answered" THEN {"packet"}
              ELSE IF end \in {"unreachable", "exceeded"}
                THEN {"packet", "loss", "error", "word"}
              ELSE {"packet", "loss"}
  IN  IF end \in DOMAIN AtOnce THEN [code |-> 2, text |-> << OutLine(end, AtOnce[end]) >>]
      ELSE [code |-> IF end = "answered" THEN 0 ELSE 1,
            text |-> << OutLine("header", name) >>
                     \o [i \in DOMAIN said |-> OutLine(said[i], {"From ", "icmp"})]
                     \o told
                     \o << OutLine("heading", name \cup {"packet"}), OutLine("sums", sums) >>]

-----------------------------------------------------------------------------
(* How the output is understood *)

NoError == ""

IcmpError(text) ==
  LET marks == {"dns", "icmp"}
  IN  IF Matching(text, marks) = {} THEN NoError
      ELSE IF "dns" \in FirstMatch(text, marks).marks THEN "unknown name"
      ELSE FirstMatch(text, marks).says

ErrorDetail(text) ==
  LET marks == {"dns", "icmp", "error", "ping:", "From "}
  IN  IF Matching(text, marks) # {} THEN FirstMatch(text, marks).says
      ELSE IF Matching(text, {"packet"}) # DOMAIN text THEN LastOther(text, {"packet"}).says
      ELSE IF text # << >> THEN Last(text).says
      ELSE "unknown error"

FirstError(text) ==
  IF Matching(text, {"word"}) # {} THEN FirstMatch(text, {"word"}).says
  ELSE IF text # << >> THEN Head(text).says
  ELSE "error"

PingResult(status, msg, detail) == [status |-> status, msg |-> msg, detail |-> detail]

Answered == PingResult("ok", "", "")

Lost == PingResult("timeout", "", "")

\* A slip: the losses are looked for before the reasons.
LossFirst(code, text) ==
  IF code = 0 /\ Shows(text, "time") THEN Answered
  ELSE IF Shows(text, "loss") THEN Lost
  ELSE PingResult("error", FirstError(text), ErrorDetail(text))

Understood(code, text) ==
  IF code = 0 /\ Shows(text, "time") THEN Answered
  ELSE IF IcmpError(text) # NoError THEN PingResult("error", IcmpError(text), ErrorDetail(text))
  ELSE IF Shows(text, "loss") THEN Lost
  ELSE PingResult("error", FirstError(text), ErrorDetail(text))

\* One probe; a ping that does not end in time is killed, and its output lost.
PingOnce(name, said, end) ==
  CASE end = "not installed" -> PingResult("error", "not installed", "")
    [] end = "hung"          -> Lost
    [] OTHER -> LET proc == Run(name, said, end) IN Understood(proc.code, proc.text)
=============================================================================
