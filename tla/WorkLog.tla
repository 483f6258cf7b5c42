------------------------------- MODULE WorkLog -------------------------------
(***************************************************************************)
(* The work log (work_log/work_log.py): one line per change of what is     *)
(* done, and the sums of times per activity, per day and per month.        *)
(*                                                                         *)
(* Time is counted in units of which Day make 24 hours.  Midnights are the *)
(* times days begin at; on a change to or from summer time two of them are *)
(* not Day apart.                                                          *)
(***************************************************************************)
EXTENDS Integers, SequencesExt

CONSTANTS Day,        \* 24 hours
          DaysAhead   \* 10: the days an interval is looked for in

ASSUME WorkLogAssumption == Day \in Nat \ {0} /\ DaysAhead \in Nat \ {0}

\* The day a time falls on.
DateOf(mid, t) == CHOOSE d \in DOMAIN mid : /\ mid[d] <= t
                                            /\ d + 1 \in DOMAIN mid => t < mid[d + 1]

Clamp(t, lo, hi) == IF t > hi THEN hi ELSE IF t < lo THEN lo ELSE t

\* What of an interval falls in the 24 hours that begin with day d.
PartOfDay(mid, d, from, to) ==
  Clamp(to, mid[d], mid[d] + Day) - Clamp(from, mid[d], mid[d] + Day)

\* A slip: an interval is split over the day it begins and the next one.
TwoDays(mid, from) == {d \in DOMAIN mid : d - DateOf(mid, from) \in {0, 1}}

DaysTried(mid, from) == {d \in DOMAIN mid : d - DateOf(mid, from) \in 0 .. DaysAhead - 1}

DividePerDays(mid, from, to) ==
  [d \in DaysTried(mid, from) |-> PartOfDay(mid, d, from, to)]

-----------------------------------------------------------------------------
(* A file is a sequence of lines [at, job, topic]; an empty job is a pause *)

\* Every line opens an interval that the next one closes.
Closed(file) == 1 .. Len(file) - 1

\* The topic that was written with the activity last.
TopicAt(file, i) ==
  LET named == {k \in 1 .. i : file[k].job = file[i].job /\ file[k].topic # ""}
  IN  IF named = {} THEN "__default__" ELSE file[Max(named)].topic

Counted(file, only) ==
  {i \in Closed(file) : file[i].job # "" /\ only \in {"", file[i].job}}

TotalTime(file, only, job) ==
  MapThenSumSet(LAMBDA i : file[i + 1].at - file[i].at,
                {i \in Counted(file, only) : file[i].job = job})

ByDays(mid, file, only, d, job, topic) ==
  MapThenSumSet(LAMBDA i : DividePerDays(mid, file[i].at, file[i + 1].at)[d],
                {i \in Counted(file, only) :
                   /\ file[i].job = job /\ TopicAt(file, i) = topic
                   /\ d \in DaysTried(mid, file[i].at)})

ByMonths(mid, month, file, only, m, job, topic) ==
  MapThenSumSet(LAMBDA d : ByDays(mid, file, only, d, job, topic),
                {d \in DOMAIN mid : month[d] = m})

Log(file, at, job) == Append(file, [at |-> at, job |-> job, topic |-> ""])

\* The line read back from the end of the file: the job of now.
CurrentState(file) == IF file = << >> THEN "" ELSE Last(file).job
=============================================================================
