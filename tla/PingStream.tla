----------------------------- MODULE PingStream -----------------------------
(***************************************************************************)
(* What a pingtui instance promises about the events it reports: the       *)
(* "send" and "result" notifications of _notify, which `pingtui --json`    *)
(* prints one per line.  For every host and row there is at most one send, *)
(* then at most one result; a result without a preceding send never        *)
(* appears.  When the event loop is torn down, the pings still on the way  *)
(* are cancelled and the finally clause of one_ping reports them with the  *)
(* status they have: "pending".                                            *)
(*                                                                         *)
(* This is the abstract specification: PingLoop implements it and          *)
(* RemoteFeeder composes it, as the process on the other end of the pipe.  *)
(***************************************************************************)
EXTENDS PingColumn

CONSTANT Hosts

VARIABLES event,    \* the last event reported for a host and row
          open      \* the event loop is running

streamVars == <<event, open>>

Report == Outcome \cup {"none", "send", "pending"}

StreamTypeOK == /\ event \in [Hosts -> [Rows -> Report]]
                /\ open \in BOOLEAN

StreamInit == /\ event = [h \in Hosts |-> [s \in Rows |-> "none"]]
              /\ open = TRUE

Send(h, s) == /\ open
              /\ event[h][s] = "none"
              /\ event' = [event EXCEPT ![h][s] = "send"]
              /\ UNCHANGED open

Result(h, s, res) == /\ open
                     /\ event[h][s] = "send"
                     /\ event' = [event EXCEPT ![h][s] = res]
                     /\ UNCHANGED open

\* What cancelling every task makes of the report of one ping.
Cancelled(e) == IF e = "send" THEN "pending" ELSE e

Close == /\ open
         /\ open' = FALSE
         /\ event' = [h \in Hosts |-> [s \in Rows |-> Cancelled(event[h][s])]]

StreamNext == \/ \E h \in Hosts, s \in Rows :
                   \/ Send(h, s)
                   \/ \E res \in Outcome : Result(h, s, res)
              \/ Close

\* Every ping on the way ends: the probe gives up after max_wait.
StreamFairness == \A h \in Hosts, s \in Rows :
                    WF_streamVars(\E res \in Outcome : Result(h, s, res))

StreamSafety == StreamInit /\ [][StreamNext]_streamVars

StreamSpec == StreamSafety /\ StreamFairness

=============================================================================
