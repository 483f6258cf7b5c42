----------------------------- MODULE MailDaemon -----------------------------
(***************************************************************************)
(* The daemon that runs offlineimap (mail/offlineimap-deamon.cpp), those   *)
(* who ask it to (offlineimap-run, m-repeat-notification) and the service  *)
(* manager that starts it again (Restart=always in init-service.sh).       *)
(*                                                                         *)
(* A request is a folder, "all", or "if" something has changed: then the   *)
(* counts of messages in ~/.cm, which the notifier writes before it asks,  *)
(* tell the daemon what to do.  The daemon reads ~/.cm before each request *)
(* and may come upon it half written.  Its folders, counts and marks are   *)
(* in memory only, the requests in a pipe; both are gone when it dies.     *)
(*                                                                         *)
(* owed and taken are history: the folders somebody wants synchronised,    *)
(* and those of them the running offlineimap will have done.               *)
(***************************************************************************)
EXTENDS Integers, Sequences

CONSTANTS Folders,      \* the folders ~/.cm lists
          Junk,         \* the folder the daemon's own first request names
          Requesters, None,
          MaxPipe,      \* bound on the requests in the pipe
          MaxCount,     \* bound on the changes of one folder's counts
          MaxCrashes    \* bound on the deaths of the daemon

Kinds == {"if", "all", "start"}

ASSUME MailAssumption == /\ Junk \notin Folders /\ None \notin Folders \cup Kinds
                         /\ Folders \cap Kinds = {}
                         /\ MaxPipe \in Nat \ {0}
                         /\ MaxCount \in Nat /\ MaxCrashes \in Nat

VARIABLES cm,       \* the counts in ~/.cm, numbered by their changes
          want,     \* the request a requester has announced and not written
          pipe,     \* written requests
          phase,    \* "down", "idle" (in scanf), "run" (in system)
          known,    \* the folders in dirs
          count,    \* ctotal and cnew of a folder, -1 when never read
          needAct,  \* the folders marked needAct
          owed, taken, crashes

daemon == <<phase, known, count, needAct>>
vars == <<cm, want, pipe, daemon, owed, taken, crashes>>

Requests == Folders \cup {"if", "all"}

Init == /\ cm = [f \in Folders |-> 0]
        /\ want = [q \in Requesters |-> None]
        /\ pipe = << >>
        /\ phase = "down"
        /\ known = {}
        /\ count = [f \in Folders |-> -1]
        /\ needAct = {}
        /\ owed = {}
        /\ taken = {}
        /\ crashes = 0

-----------------------------------------------------------------------------
(* Those who ask *)

Demanded(r) == CASE r = "if"  -> {}
                 [] r = "all" -> known \ {Junk}
                 [] OTHER     -> {r}

Announce(q, r, demand) ==
  /\ want[q] = None
  /\ want' = [want EXCEPT ![q] = r]
  /\ owed' = owed \cup demand
  /\ taken' = taken \ demand
  /\ UNCHANGED <<pipe, daemon, crashes>>

\* offlineimap-run; "if" without news is how cm repeats its notification.
Ask(q, r) == Announce(q, r, Demanded(r)) /\ UNCHANGED cm

\* m-repeat-notification: ~/.cm, then the request.
Notify(q, f) == /\ cm[f] < MaxCount
                /\ cm' = [cm EXCEPT ![f] = @ + 1]
                /\ Announce(q, "if", {f})

Write(q) == /\ want[q] # None
            /\ phase # "down"
            /\ Len(pipe) < MaxPipe
            /\ pipe' = Append(pipe, want[q])
            /\ want' = [want EXCEPT ![q] = None]
            /\ UNCHANGED <<cm, daemon, owed, taken, crashes>>

\* Nobody opens the pipe for reading: offlineimap-run gives up after 1 s.
GiveUp(q) == /\ want[q] # None
             /\ phase = "down"
             /\ want' = [want EXCEPT ![q] = None]
             /\ UNCHANGED <<cm, pipe, daemon, owed, taken, crashes>>

-----------------------------------------------------------------------------
(* The daemon *)

\* The first request is written by the daemon itself, and without brackets:
\* it is read as the name of a folder.
Start == /\ phase = "down"
         /\ phase' = "idle"
         /\ pipe' = << "start" >>
         /\ UNCHANGED <<cm, want, known, count, needAct, owed, taken, crashes>>

\* What a request and the folders read from ~/.cm add to the marks.
Marked(r, seen) ==
  {f \in seen : count[f] # cm[f]} \cup
  (CASE r = "if"    -> {}
     [] r = "all"   -> known \cup seen
     [] r = "start" -> {Junk}
     [] OTHER       -> {r})

NextMarks(r, seen) == needAct \cup Marked(r, seen)

\* Slip for checking WantedIsDone: old marks alone start nothing.
WorthIfNew(r, seen) == Marked(r, seen) # {}

\* When offlineimap is started: also when nothing but old marks is left.
Worth(r, seen) == NextMarks(r, seen) # {}

Handle(r, seen) ==
  /\ needAct' = NextMarks(r, seen)
  /\ known' = known \cup seen \cup Marked(r, seen)
  /\ count' = [f \in Folders |-> IF f \in seen THEN cm[f] ELSE count[f]]
  /\ IF Worth(r, seen)
       THEN phase' = "run" /\ taken' = owed \cap needAct'
       ELSE UNCHANGED <<phase, taken>>

Read(seen) == /\ phase = "idle"
              /\ pipe # << >>
              /\ pipe' = Tail(pipe)
              /\ Handle(Head(pipe), seen)
              /\ UNCHANGED <<cm, want, owed, crashes>>

\* Slip for checking NothingForgotten: the marks go whatever became of the run.
MarksCleared(r) == {}

\* A folder stays marked until offlineimap has succeeded.
MarksAfter(r) == IF r = "ok" THEN {} ELSE needAct

Finish(r) == /\ phase = "run"
             /\ phase' = "idle"
             /\ needAct' = MarksAfter(r)
             /\ owed' = IF r = "ok" THEN owed \ taken ELSE owed
             /\ taken' = {}
             /\ UNCHANGED <<cm, want, pipe, known, count, crashes>>

Crash == /\ phase # "down"
         /\ crashes < MaxCrashes
         /\ crashes' = crashes + 1
         /\ phase' = "down"
         /\ pipe' = << >>
         /\ known' = {}
         /\ count' = [f \in Folders |-> -1]
         /\ needAct' = {}
         /\ taken' = {}
         /\ UNCHANGED <<cm, want, owed>>

Next == \/ \E q \in Requesters :
             \/ \E r \in Requests : Ask(q, r)
             \/ \E f \in Folders : Notify(q, f)
             \/ Write(q)
             \/ GiveUp(q)
        \/ Start
        \/ \E seen \in SUBSET Folders : Read(seen)
        \/ \E r \in {"ok", "failed"} : Finish(r)
        \/ Crash

Spec == Init /\ [][Next]_vars

\* cm repeats its notification; the daemon is started again and goes on; what
\* is tried for ever is once read in full and once succeeds.
Fairness == /\ \A q \in Requesters : /\ WF_vars(Ask(q, "if"))
                                     /\ SF_vars(Write(q))
            /\ WF_vars(Start)
            /\ SF_vars(Read(Folders))
            /\ WF_vars(\E seen \in SUBSET Folders : Read(seen))
            /\ WF_vars(\E r \in {"ok", "failed"} : Finish(r))
            /\ SF_vars(Finish("ok"))

FairSpec == Spec /\ Fairness

-----------------------------------------------------------------------------
(* Properties *)

TypeOK == /\ cm \in [Folders -> 0 .. MaxCount]
          /\ want \in [Requesters -> Requests \cup {None}]
          /\ pipe \in Seq(Requests \cup {"start"})
          /\ phase \in {"down", "idle", "run"}
          /\ known \subseteq Folders \cup {Junk}
          /\ count \in [Folders -> Int]
          /\ \A f \in Folders : count[f] <= cm[f]
          /\ needAct \subseteq Folders \cup {Junk}
          /\ owed \subseteq Folders
          /\ taken \subseteq owed
          /\ crashes \in 0 .. MaxCrashes

Names(r, f) == r = f \/ (r = "all" /\ f \in known)

\* A request on its way will bring the folder back to the daemon's attention,
\* or its counts will.
Remembered(f) == \/ \E q \in Requesters : Names(want[q], f)
                 \/ \E i \in DOMAIN pipe : Names(pipe[i], f)
                 \/ count[f] # cm[f]

\* A folder that somebody asked for, or that has changed, is not forgotten by
\* a failure of offlineimap, a half-written ~/.cm, a request that comes while
\* offlineimap runs, or the death of the daemon with all its marks and
\* requests: until a run that began afterwards has succeeded it is marked, in
\* the pipe, or its counts are news to the daemon.
NothingForgotten == \A f \in owed : f \in needAct \/ Remembered(f)

\* Every folder that is wanted is given to offlineimap in the end, and again
\* until that succeeds, although a failure is only retried when somebody asks
\* for something.
WantedIsDone == \A f \in Folders :
                  /\ (f \in owed) ~> (f \in needAct /\ phase = "run")
                  /\ (f \in needAct) ~> (f \notin needAct)
=============================================================================
