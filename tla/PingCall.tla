------------------------------- MODULE PingCall -------------------------------
(***************************************************************************)
(* What a pinger of pingtui promises its caller (the PingResult of ping()):*)
(* a call that was made gets at most one answer, returns once, and returns *)
(* that answer, or else that it gave up or failed.                         *)
(*                                                                         *)
(* This is the abstract specification that NativePinger implements.        *)
(***************************************************************************)
CONSTANTS Pings, Kind, none

VARIABLES asked,    \* the calls that were made
          answer,   \* what each has been answered, or none
          returned  \* what each has returned, or none

callVars == <<asked, answer, returned>>

CallInit == /\ asked = {}
            /\ answer = [p \in Pings |-> none]
            /\ returned = [p \in Pings |-> none]

Ask(p) == /\ p \notin asked
          /\ asked' = asked \cup {p}
          /\ UNCHANGED <<answer, returned>>

Answer(p, kind) == /\ p \in asked
                   /\ answer[p] = none
                   /\ returned[p] = none
                   /\ answer' = [answer EXCEPT ![p] = kind]
                   /\ UNCHANGED <<asked, returned>>

\* The answer is returned, or there was none in time.
Return(p) == /\ p \in asked
             /\ returned[p] = none
             /\ \E r \in {"timeout", answer[p]} \ {none} :
                  returned' = [returned EXCEPT ![p] = r]
             /\ UNCHANGED <<asked, answer>>

\* Answered and returned in one turn.
Reply(p, kind) == /\ p \in asked
                  /\ answer[p] = none
                  /\ returned[p] = none
                  /\ answer' = [answer EXCEPT ![p] = kind]
                  /\ returned' = [returned EXCEPT ![p] = kind]
                  /\ UNCHANGED asked

\* There is no way to ask.
Fail(p) == /\ p \in asked
           /\ answer[p] = none
           /\ returned[p] = none
           /\ returned' = [returned EXCEPT ![p] = "error"]
           /\ UNCHANGED <<asked, answer>>

CallNext == \E p \in Pings : \/ Ask(p)
                             \/ Fail(p)
                             \/ \E kind \in Kind : Answer(p, kind) \/ Reply(p, kind)
                             \/ Return(p)

CallSpec == CallInit /\ [][CallNext]_callVars
=============================================================================
