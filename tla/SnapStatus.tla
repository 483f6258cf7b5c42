----------------------------- MODULE SnapStatus -----------------------------
(***************************************************************************)
(* The report on backups (snapshoter/status.py): each device a snapshot    *)
(* was sent to has a file with the time of the last one.  Ages are seconds *)
(***************************************************************************)
EXTENDS Integers, SequencesExt

Minute == 60
Hour   == 60 * Minute
DayLen == 24 * Hour

\* What load_last_snapshots makes of the files: a file that vanished after the
\* directory was listed empties the whole answer, and one that is just being
\* written (and is empty) raises ValueError.
LoadLastSnapshots(files) ==
  IF \E i \in DOMAIN files : files[i].state = "vanished" THEN << >>
  ELSE [i \in DOMAIN files |-> files[i].age]

Raises(files) == \E i \in DOMAIN files :
                    /\ files[i].state = "empty"
                    /\ \A k \in 1 .. i - 1 : files[k].state = "good"

\* The k-th of the ages in sorted order, or the k-th newest snapshot.
Sorted(ages, k) ==
  Min({a \in Range(ages) : Cardinality({i \in DOMAIN ages : ages[i] <= a}) >= k})

\* A slip: the age of the primary snapshot is asked first.
VerdictPrimaryFirst(ages) ==
  IF ages = << >> THEN 5
  ELSE IF Sorted(ages, 1) > 14 * DayLen THEN 4
  ELSE IF Len(ages) = 1 THEN 3
  ELSE IF Sorted(ages, 1) > 2 * DayLen THEN 1
  ELSE IF Sorted(ages, 2) > 30 * DayLen THEN 2
  ELSE IF Sorted(ages, 2) > 7 * DayLen THEN 1 ELSE 0

\* 5 none, 4 all too old, 3 no second one, 2 the second too old, 1 either could
\* be newer, 0 very nice.
Verdict(ages) ==
  IF ages = << >> THEN 5
  ELSE IF Sorted(ages, 1) > 14 * DayLen THEN 4
  ELSE IF Len(ages) = 1 THEN 3
  ELSE IF Sorted(ages, 2) > 30 * DayLen THEN 2
  ELSE IF Sorted(ages, 1) > 2 * DayLen \/ Sorted(ages, 2) > 7 * DayLen THEN 1 ELSE 0

AgeToColor(age) ==
  IF age < 15 * Minute THEN "cyan"
  ELSE IF age < 3 * DayLen THEN "green"
  ELSE IF age < 14 * DayLen THEN "yellow"
  ELSE "red"

\* Numbers are rounded to the nearest; minutes are asked again where hours are
\* meant, so no age is ever shown in hours.
FormatAge(age) ==
  LET m == (age + 30) \div Minute
  IN  IF age < 3 * Minute THEN [count |-> age, unit |-> 1]
      ELSE IF m < 3 * 60 THEN [count |-> m, unit |-> Minute]
      ELSE IF m < 3 * 24 THEN [count |-> (age + 30 * Minute) \div Hour, unit |-> Hour]
      ELSE [count |-> (age + 12 * Hour) \div DayLen, unit |-> DayLen]

VerdictColor(v) == CASE v = 0 -> "none" [] v = 1 -> "yellow" [] v = 2 -> "red"
                     [] OTHER -> "magenta"
=============================================================================
