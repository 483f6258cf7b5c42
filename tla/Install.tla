------------------------------- MODULE Install -------------------------------
(***************************************************************************)
(* The installation records of userconfig: what install_begin, install_ok, *)
(* err and reln of userconfig-lib.sh leave under state/<install_name> when *)
(* an init.sh runs, what clean_userinstall takes away, how state_push.sh   *)
(* and userconfig_state_server.sh copy it to a server, and what            *)
(* instpect-state.py and ssh/gen-authorized-keys.sh read of it.            *)
(*                                                                         *)
(* One installation of one device.  A run is one call of its init.sh; an   *)
(* action is one command of it, so that others (a second run, a removal, a *)
(* push) come between and a run can die after every one.  Nothing locks.   *)
(* A script calls some of its commands in a subshell (the generation of    *)
(* the configs in i3/config-gen/init.sh, the links of the folders in       *)
(* mail/init.sh): err ends that subshell only, and the script comes to     *)
(* install_ok all the same.                                                *)
(***************************************************************************)
EXTENDS Integers

CONSTANTS Runs,         \* calls of the init.sh
          MaxTime,      \* bound on the seconds that pass
          MaxVersion    \* bound on the versions the script gets

ASSUME InstallAssumption == MaxTime \in Nat \ {0} /\ MaxVersion \in Nat

Time    == 1 .. MaxTime
None    == 0                      \* no such link
Version == 0 .. MaxVersion

VARIABLES now,        \* the second, which is the name of the run directory
          current,    \* the version in the script
          pc,         \* the command a run is at
          dir,        \* the run directory of a run: its second, once it is read
          ver,        \* the version a run was started with
          local,      \* state/<install_name> of the device
          inside,     \* links made inside a run directory: <<directory, target>>
          cleaning,   \* clean_userinstall has removed last, and not yet last_ok
          server,     \* the copy on the server
          push,       \* state_push.sh: what it has still to copy
          completed,  \* history: runs that have come to install_ok
          failed,     \* history: runs a command of whose script failed that was
                      \*   checked, and not in a subshell
          alone,      \* history: the latest run, if nobody else has touched
                      \*   the links since it started
          fresh       \* history: the last push ended, and nothing changed since it began

runs    == <<pc, dir, ver>>
history == <<completed, failed, alone, fresh>>
vars    == <<now, current, runs, local, inside, cleaning, server, push, history>>

States == {"none", "made", "installing", "faild", "ok"}

\* The state directory: two links, and the record of each run directory.
StateDir == [last    : Time \cup {None},
             lastOk  : Time \cup {None},
             state   : [Time -> States],
             version : [Time -> Version]]

NoStateDir == [last |-> None, lastOk |-> None,
               state |-> [t \in Time |-> "none"], version |-> [t \in Time |-> 0]]

Steps == {"idle", "load", "check", "mkdir", "record", "body", "ok",
          "test", "rm", "ln",                      \* the commands of reln
          "done", "over"}                          \* over: failed, refused or killed

Active == {r \in Runs : pc[r] \notin {"idle", "done", "over"}}

\* The links and run directories that are not copied yet.
Links  == {"last", "lastOk"}
Push   == [on : BOOLEAN, links : SUBSET Links, dirs : SUBSET Time]
NoPush == [on |-> FALSE, links |-> {}, dirs |-> {}]

TypeOK == /\ now \in Time
          /\ current \in Version
          /\ pc \in [Runs -> Steps]
          /\ dir \in [Runs -> Time \cup {None}]
          /\ \A r \in Runs : /\ pc[r] \in {"idle", "load"} => dir[r] = None
                             /\ dir[r] = None => pc[r] \in {"idle", "load", "over"}
          /\ ver \in [Runs -> Version]
          /\ local \in StateDir
          /\ inside \subseteq Time \X Time
          /\ cleaning \in BOOLEAN
          /\ server \in StateDir
          /\ push \in Push
          /\ completed \subseteq Runs
          /\ failed \subseteq Runs
          /\ alone \subseteq Runs
          /\ fresh \in BOOLEAN

Init == /\ now = 1
        /\ current = 0
        /\ pc = [r \in Runs |-> "idle"]
        /\ dir = [r \in Runs |-> None]
        /\ ver = [r \in Runs |-> 0]
        /\ local = NoStateDir
        /\ inside = {}
        /\ cleaning = FALSE
        /\ server = NoStateDir
        /\ push = NoPush
        /\ completed = {}
        /\ failed = {}
        /\ alone = {}
        /\ fresh = FALSE

-----------------------------------------------------------------------------
(* install_begin, the commands of the script, install_ok *)

Go(r, from, to) == pc[r] = from /\ pc' = [pc EXCEPT ![r] = to]

Keep(unchanged) == UNCHANGED <<now, current, server, push, unchanged>>

\* The local state directory becomes d.
Change(d) == local' = d /\ fresh' = (fresh /\ d = local)

\* The script is read, with its version.
Start(r) ==
  /\ Go(r, "idle", "load")
  /\ ver' = [ver EXCEPT ![r] = current]
  /\ alone' = IF Active = {} /\ ~cleaning THEN {r} ELSE {}
  /\ Keep(<<dir, local, inside, cleaning, completed, failed, fresh>>)

\* The time is read.  (Before that install_config_load may wait until the user has
\* written the config in vim, and a script that is called from the wrong one of
\* userconfig and sysconfig is refused and leaves no trace.)
ReadTime(r) ==
  /\ Go(r, "load", "check")
  /\ dir' = [dir EXCEPT ![r] = now]
  /\ Keep(<<ver, local, inside, cleaning, completed, failed, alone, fresh>>)

\* "State run dir exist, wait a second": the run is not recorded at all.
Check(r) ==
  /\ Go(r, "check", IF local.state[dir[r]] = "none" THEN "mkdir" ELSE "over")
  /\ Keep(<<dir, ver, local, inside, cleaning, completed, failed, alone, fresh>>)

\* mkdir -p does not mind a directory that came to be meanwhile.
MakeDir(r) ==
  /\ Go(r, "mkdir", "record")
  /\ Change(IF local.state[dir[r]] = "none"
            THEN [local EXCEPT !.state[dir[r]] = "made"] ELSE local)
  /\ Keep(<<dir, ver, inside, cleaning, completed, failed, alone>>)

\* The files version and state (and others that nobody here reads).
Record(r) ==
  /\ Go(r, "record", "test")
  /\ Change([local EXCEPT !.version[dir[r]] = ver[r], !.state[dir[r]] = "installing"])
  /\ Keep(<<dir, ver, inside, cleaning, completed, failed, alone>>)

\* A slip: the name of the link is not given to reln.
LinkAlwaysOk(r) == "lastOk"

\* reln is called for last at the beginning and for last_ok at the end.
LinkOf(r) == IF r \in completed THEN "lastOk" ELSE "last"

Target(link) == IF link = "last" THEN local.last ELSE local.lastOk

Relink(link, t) == IF link = "last" THEN [local EXCEPT !.last = t]
                                    ELSE [local EXCEPT !.lastOk = t]

\* A slip: the old link is left to ln.
KeepsOldLink(link) == FALSE

\* [[ -h $2 ]]
HasLink(link) == Target(link) # None

TestLink(r) ==
  /\ Go(r, "test", IF HasLink(LinkOf(r)) THEN "rm" ELSE "ln")
  /\ Keep(<<dir, ver, local, inside, cleaning, completed, failed, alone, fresh>>)

\* What err writes to the file state.
FailState == "faild"

\* (rm $2 || err ...): err exits the subshell only, and the script goes on.
RemoveLink(r) ==
  /\ Go(r, "rm", "ln")
  /\ Change(IF Target(LinkOf(r)) # None THEN Relink(LinkOf(r), None)
            ELSE [local EXCEPT !.state[dir[r]] = FailState])
  /\ Keep(<<dir, ver, inside, cleaning, completed, failed, alone>>)

AfterLink(r) == IF r \in completed THEN "done" ELSE "body"

\* ln -sr.  If there is a link by now, ln follows it and makes its own link in
\* the directory it leads to, unless that has such an entry: then err exits.
MakeLink(r) ==
  LET old  == Target(LinkOf(r))
      made == <<old, dir[r]>>
  IN  /\ IF old = None
         THEN /\ Go(r, "ln", AfterLink(r))
              /\ Change(Relink(LinkOf(r), dir[r]))
              /\ UNCHANGED inside
         ELSE IF made \notin inside
         THEN /\ Go(r, "ln", AfterLink(r))
              /\ inside' = inside \cup {made}
              /\ UNCHANGED <<local, fresh>>
         ELSE /\ Go(r, "ln", "over")
              /\ Change([local EXCEPT !.state[dir[r]] = FailState])
              /\ UNCHANGED inside
      /\ Keep(<<dir, ver, cleaning, completed, failed, alone>>)

\* The script comes to install_ok.
BodyDone(r) ==
  /\ Go(r, "body", "ok")
  /\ completed' = completed \cup {r}
  /\ Keep(<<dir, ver, local, inside, cleaning, failed, alone, fresh>>)

\* A slip: err returns, and the script goes on wherever it is called.
GoesOn(where) == "body"

\* err is exit 1: it ends the script, or the subshell it is called in, and then
\* the script goes on behind that.
AfterError(where) == IF where = "script" THEN "over" ELSE "body"

\* A command fails under r, confln or init-service: err.
BodyFails(r, where) ==
  /\ Go(r, "body", AfterError(where))
  /\ failed' = IF where = "script" THEN failed \cup {r} ELSE failed
  /\ Change([local EXCEPT !.state[dir[r]] = FailState])
  /\ Keep(<<dir, ver, inside, cleaning, completed, alone>>)

WriteOk(r) ==
  /\ Go(r, "ok", "test")
  /\ Change([local EXCEPT !.state[dir[r]] = "ok"])
  /\ Keep(<<dir, ver, inside, cleaning, completed, failed, alone>>)

\* The run is interrupted, the machine loses power, or the user answers a
\* question of r with e, which exits without err.
Dies(r) ==
  /\ r \in Active
  /\ pc' = [pc EXCEPT ![r] = "over"]
  /\ Keep(<<dir, ver, local, inside, cleaning, completed, failed, alone, fresh>>)

\* clean_userinstall of a sysconfig script of the same name.
CleanLast ==
  /\ ~cleaning /\ local.last # None
  /\ cleaning' = TRUE
  /\ Change([local EXCEPT !.last = None])
  /\ alone' = {}
  /\ Keep(<<runs, inside, completed, failed>>)

CleanLastOk ==
  /\ cleaning
  /\ cleaning' = FALSE
  /\ Change([local EXCEPT !.lastOk = None])
  /\ Keep(<<runs, inside, completed, failed, alone>>)

-----------------------------------------------------------------------------
(* The copy on the server *)

\* A slip: the old copy is not removed.
OldCopy == server

\* userconfig_state_server removes the old copy, and makes an empty one.
EmptyCopy == NoStateDir

\* Both ends of the pipe are started (by hand: install_try_push is switched off).
\* One push at a time.
PushBegin ==
  /\ ~push.on
  /\ push' = [on |-> TRUE, links |-> Links, dirs |-> Time]
  /\ server' = EmptyCopy
  /\ fresh' = TRUE
  /\ UNCHANGED <<now, current, runs, local, inside, cleaning, completed, failed, alone>>

\* tar reads the directory in the order it is stored in; that the copy comes
\* out of the pipe later changes nothing, since nobody writes there meanwhile.
\* The files of a run directory are one part: version is there before state.
PushLink(link) ==
  /\ link \in push.links
  /\ push' = [push EXCEPT !.links = @ \ {link}]
  /\ server' = IF Target(link) = None THEN server
               ELSE IF link = "last" THEN [server EXCEPT !.last = local.last]
                                     ELSE [server EXCEPT !.lastOk = local.lastOk]
  /\ UNCHANGED <<now, current, runs, local, inside, cleaning, history>>

PushDir(t) ==
  /\ t \in push.dirs
  /\ push' = [push EXCEPT !.dirs = @ \ {t}]
  /\ server' = IF local.state[t] = "none" THEN server
               ELSE [server EXCEPT !.state[t] = local.state[t],
                                   !.version[t] = local.version[t]]
  /\ UNCHANGED <<now, current, runs, local, inside, cleaning, history>>

PushEnd ==
  /\ push.on /\ push.links = {} /\ push.dirs = {}
  /\ push' = NoPush
  /\ UNCHANGED <<now, current, runs, local, inside, cleaning, server, history>>

\* The connection is lost; what was extracted stays.
PushBreaks ==
  /\ push.on
  /\ push' = NoPush
  /\ fresh' = FALSE
  /\ UNCHANGED <<now, current, runs, local, inside, cleaning, server, completed, failed, alone>>

-----------------------------------------------------------------------------

Second == /\ now < MaxTime                                   \* bound
          /\ now' = now + 1
          /\ UNCHANGED <<current, runs, local, inside, cleaning, server, push, history>>

\* The script gets a new version (git pull).
Upgrade == /\ current < MaxVersion                          \* bound
           /\ current' = current + 1
           /\ UNCHANGED <<now, runs, local, inside, cleaning, server, push, history>>

Next == \/ \E r \in Runs :
             \/ Start(r) \/ ReadTime(r) \/ Check(r) \/ MakeDir(r) \/ Record(r)
             \/ TestLink(r) \/ RemoveLink(r) \/ MakeLink(r)
             \/ BodyDone(r) \/ WriteOk(r)
             \/ \E where \in {"script", "subshell"} : BodyFails(r, where)
             \/ Dies(r)
        \/ CleanLast \/ CleanLastOk
        \/ PushBegin \/ PushEnd \/ PushBreaks
        \/ \E link \in Links : PushLink(link)
        \/ \E t \in Time : PushDir(t)
        \/ Second \/ Upgrade

Spec == Init /\ [][Next]_vars

-----------------------------------------------------------------------------
(* What is read of it *)

\* Installation.short: the green OK of the table.
ShowsOk(d) == /\ d.last # None
              /\ d.state[d.last] = "ok"
              /\ d.version[d.last] = current

-----------------------------------------------------------------------------
(* Properties *)

InDir(t) == {r \in Runs : dir[r] = t}

\* err has ended none of the script of the run, and it has come to install_ok.
Succeeded(r) == r \in completed /\ r \notin failed

\* Neither the inspector of the device nor that of the server says OK of an
\* installation unless a run of the script as it is now has that directory, and a
\* run that came to install_ok, without a failure of what is checked outside a
\* subshell, has it.  That is one run, but for two that start in one second with
\* an upgrade between them.
OkIsReal == \A d \in {local, server} :
              ShowsOk(d) => /\ \E r \in InDir(d.last) : Succeeded(r)
                            /\ \E r \in InDir(d.last) : ver[r] = current

\* The keys that are allowed to log in are read through last_ok, on the server:
\* it leads to a run that came to install_ok in the same sense, whatever runs,
\* removals and pushes were interrupted or came between each other's commands.
LastOkSucceeded == \A d \in {local, server} :
                     d.lastOk # None => \E r \in InDir(d.lastOk) : Succeeded(r)

\* A run that nobody disturbed leaves both links on itself, whatever earlier
\* runs that died or raced have left behind.
LinksHeal == \A r \in alone :
  pc[r] = "done" =>
    local.last = dir[r] /\ local.lastOk = dir[r] /\ local.state[dir[r]] = "ok"

\* After a push during which nothing changed the server holds what the device
\* has, and nothing that was removed from the device since an earlier push.
PushFaithful == fresh /\ ~push.on => server = local

=============================================================================
