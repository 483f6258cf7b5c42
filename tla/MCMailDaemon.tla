---------------------------- MODULE MCMailDaemon ----------------------------
(* Instances of MailDaemon for TLC: two folders, two requesters, requests  *)
(* that wait for each other in the pipe and one death of the daemon.       *)
EXTENDS MailDaemon, TLC

CONSTANTS f1, f2, q1, q2

MCFolders    == {f1, f2}
MCRequesters == {q1, q2}
MCOne        == {q1}
=============================================================================
