-------------------------------- MODULE Sftp --------------------------------
(***************************************************************************)
(* plugins/sftp: the mount of one phone's files, which API calls, packets, *)
(* disconnects, unpairing and the sweep at start all work on.              *)
(*                                                                         *)
(* They take turns by the phone's mount lock and wait for it for           *)
(* mount_timeout.  A command (sshfs, fusermount) runs on a blocking thread *)
(* that nothing can stop: when it takes longer than mount_timeout the lock *)
(* goes to the leftover of it.  Sessions are numbered; a mount is named    *)
(* after the session its credentials came from, a mount of a previous      *)
(* daemon is session 1 of SfSessions.                                      *)
(***************************************************************************)
EXTENDS Naturals

CONSTANTS SfSessions,   \* number of sessions, the one before the start included
          SfCleaners    \* on_disconnected calls, as many as may run at a time

ASSUME SfAssumption ==
    /\ SfSessions \in Nat \ {0}
    /\ SfCleaners \cap {"api", "loop", "del", "left", "orphan", "nobody"} = {}

SfTasks == SfCleaners \cup {"api", "loop", "del"}
SfCmds == {"none", "sshfs", "fusermount"}

VARIABLES
    sfLink,     \* the session that is up, or 0
    sfMade,     \* sessions so far
    sfCreds,    \* the session that sent the stored credentials, or 0
    sfState,    \* the phone's entry of `mounts`
    sfReal,     \* what the kernel has mounted at the path, or 0
    sfLock,     \* who holds the mount lock: a task, a leftover, or nobody
    sfPc,       \* task -> idle, notice, lock, cmd or tables
    sfJob,      \* task -> what it does, the session of the credentials it holds, and
                \* live_mount of an on_disconnected
    sfCmd,      \* task, "left" or "orphan" -> command it runs
    sfDropped   \* an API handler was dropped in the middle

sfVars == <<sfLink, sfMade, sfCreds, sfState, sfReal, sfLock, sfPc, sfJob, sfCmd, sfDropped>>
sfSession == <<sfLink, sfMade>>

SfJob(op, use, live) == [op |-> op, use |-> use, live |-> live]
SfNoJob == SfJob("none", 0, FALSE)
SfNoCmd == [cmd |-> "none", use |-> 0, op |-> "none"]

\* The daemon sweeps the path of a previous one before its services start.
SfInit ==
    /\ sfLink = 0 /\ sfMade = 1
    /\ sfCreds = 0 /\ sfState = "Unmounted"
    /\ sfReal \in {0, 1}
    /\ sfLock = "nobody"
    /\ sfPc = [t \in SfTasks |-> IF t = "del" THEN "lock" ELSE "idle"]
    /\ sfJob = [t \in SfTasks |-> SfJob(IF t = "del" THEN "sweep" ELSE "none", 0, FALSE)]
    /\ sfCmd = [k \in SfTasks \cup {"left", "orphan"} |-> SfNoCmd]
    /\ sfDropped = FALSE

SfBegin(t, op, use) ==
    /\ sfPc[t] = "idle"
    /\ sfPc' = [sfPc EXCEPT ![t] = "lock"]
    /\ sfJob' = [sfJob EXCEPT ![t] = SfJob(op, use, FALSE)]

\* t goes on to label; an idle task has no job.
SfGo(t, label) ==
    /\ sfPc' = [sfPc EXCEPT ![t] = label]
    /\ sfJob' = [sfJob EXCEPT ![t] = IF label = "idle" THEN SfNoJob ELSE @]

-----------------------------------------------------------------------------
(* Sessions and callers                                                    *)

SfConnect ==
    /\ sfLink = 0 /\ sfMade < SfSessions
    /\ sfJob["del"].op # "sweep"
    /\ sfLink' = sfMade + 1 /\ sfMade' = sfMade + 1
    /\ UNCHANGED <<sfCreds, sfState, sfReal, sfLock, sfPc, sfJob, sfCmd, sfDropped>>

\* The link ends; its notice may come late, behind those of other plugins.
SfLinkEnds(t) ==
    /\ t \in SfCleaners /\ sfPc[t] = "idle"
    /\ sfLink # 0 /\ sfLink' = 0
    /\ sfPc' = [sfPc EXCEPT ![t] = "notice"]
    /\ UNCHANGED <<sfMade, sfCreds, sfState, sfReal, sfLock, sfJob, sfCmd, sfDropped>>

SfPointIsLive == sfReal # 0

\* on_disconnected looks at the mount table of the kernel before it waits.
SfNotice(t) ==
    /\ sfPc[t] = "notice"
    /\ sfCreds' = 0
    /\ sfJob' = [sfJob EXCEPT ![t] = SfJob("release", 0, SfPointIsLive)]
    /\ sfPc' = [sfPc EXCEPT ![t] = "lock"]
    /\ UNCHANGED <<sfSession, sfState, sfReal, sfLock, sfCmd, sfDropped>>

\* handle_packet with valid credentials: a mounted phone is mounted again.
SfCredentials ==
    /\ sfLink # 0
    /\ sfCreds' = sfLink
    /\ IF sfState \in {"Mounted", "Mounting"}
       THEN SfBegin("loop", "remount", sfLink)
       ELSE sfPc["loop"] = "idle" /\ UNCHANGED <<sfPc, sfJob>>
    /\ UNCHANGED <<sfSession, sfState, sfReal, sfLock, sfCmd, sfDropped>>

\* mount_sftp takes the credentials before the lock.
SfApiMount ==
    /\ sfCreds # 0
    /\ SfBegin("api", "mount", sfCreds)
    /\ UNCHANGED <<sfSession, sfCreds, sfState, sfReal, sfLock, sfCmd, sfDropped>>

SfApiUnmount ==
    /\ sfState # "Unmounted"
    /\ SfBegin("api", "unmount", 0)
    /\ UNCHANGED <<sfSession, sfCreds, sfState, sfReal, sfLock, sfCmd, sfDropped>>

\* cleanup_device for an unpaired or deleted phone and, from cleanup_all, for
\* every phone the tables know of.
SfDelete ==
    /\ SfBegin("del", "delete", 0)
    /\ UNCHANGED <<sfSession, sfCreds, sfState, sfReal, sfLock, sfCmd, sfDropped>>

-----------------------------------------------------------------------------
(* The lock and what is done under it                                      *)

SfExec(t, cmd, op) == [cmd |-> cmd, use |-> sfJob[t].use, op |-> op]

\* t starts a command under the lock.
SfStart(t, cmd) ==
    /\ sfLock' = t
    /\ SfGo(t, "cmd")
    /\ sfCmd' = [sfCmd EXCEPT ![t] = SfExec(t, cmd, sfJob[t].op)]
    /\ sfState' = IF cmd = "sshfs" THEN "Mounting" ELSE sfState

\* t is done without a command.
SfSkip(t, state, label) ==
    /\ sfState' = state
    /\ SfGo(t, label)
    /\ UNCHANGED <<sfLock, sfCmd>>

\* Mutant of SfSuperseded: a cleanup does not ask for a newer session.
SfSupersededNever == FALSE

\* cleanup_mount_on_disconnect stands down when the phone is back.
SfSuperseded == sfLink # 0

\* acquire_mount_lock succeeds.  cleanup_device runs fusermount if the directory
\* exists, which it may without a mount.
SfAcquire(t) ==
    /\ sfPc[t] = "lock" /\ sfLock = "nobody"
    /\ CASE sfJob[t].op = "mount" -> SfStart(t, "sshfs")
         [] sfJob[t].op \in {"unmount", "sweep"} -> SfStart(t, "fusermount")
         [] sfJob[t].op = "delete" ->
              \/ SfStart(t, "fusermount")
              \/ sfReal = 0 /\ SfSkip(t, sfState, "tables")
         [] sfJob[t].op = "remount" ->
              IF sfState \in {"Mounted", "Mounting"} THEN SfStart(t, "fusermount")
              ELSE SfSkip(t, sfState, "idle")
         [] OTHER ->
              IF SfSuperseded THEN SfSkip(t, sfState, "idle")
              ELSE IF sfJob[t].live THEN SfStart(t, "fusermount")
              ELSE SfSkip(t, "Unmounted", "idle")
    /\ UNCHANGED <<sfSession, sfCreds, sfReal, sfDropped>>

\* It times out: calls fail, cleanups go on without the unmount.
SfBusy(t) ==
    /\ sfPc[t] = "lock" /\ sfLock # "nobody"
    /\ sfState' = IF sfJob[t].op \in {"mount", "unmount", "remount"} THEN "Failed" ELSE sfState
    /\ SfGo(t, IF sfJob[t].op = "delete" THEN "tables" ELSE "idle")
    /\ UNCHANGED <<sfSession, sfCreds, sfReal, sfLock, sfCmd, sfDropped>>

\* What a command does to the path.  fusermount fails where nothing is mounted.
SfEffect(c, ok) ==
    /\ c.cmd = "fusermount" /\ ok => sfReal # 0
    /\ sfReal' = IF ~ok THEN sfReal ELSE IF c.cmd = "sshfs" THEN c.use ELSE 0

\* re_mount_if_mounted holds the lock across unmount and mount.
SfRemounts(t) == sfCmd[t].cmd = "fusermount" /\ sfJob[t].op = "remount"

SfMountResult(ok) == IF ok THEN "Mounted" ELSE "Failed"
SfUnmountResult(ok) == IF ok THEN "Unmounted" ELSE "Failed"
SfReleaseResult(ok) == IF ok THEN "Unmounted" ELSE sfState

\* The entry after the command of t.
SfRecorded(t, ok) ==
    CASE sfCmd[t].cmd = "sshfs" -> SfMountResult(ok)
      [] SfRemounts(t) -> "Mounting"
      [] sfJob[t].op = "unmount" -> SfUnmountResult(ok)
      [] sfJob[t].op = "release" -> SfReleaseResult(ok)
      [] OTHER -> sfState

\* The command of t ends in time; a remount goes on to sshfs whatever the
\* unmount said, everything else lets go of the lock.
SfDone(t, ok) ==
    LET c == sfCmd[t]
        again == SfRemounts(t)
    IN  /\ sfPc[t] = "cmd"
        /\ SfEffect(c, ok)
        /\ sfState' = SfRecorded(t, ok)
        /\ sfCmd' = [sfCmd EXCEPT ![t] = IF again THEN SfExec(t, "sshfs", "remount") ELSE SfNoCmd]
        /\ sfLock' = IF again THEN t ELSE "nobody"
        /\ SfGo(t, IF again THEN "cmd" ELSE IF sfJob[t].op = "delete" THEN "tables" ELSE "idle")
        /\ sfCreds' = IF sfJob[t].op = "unmount" /\ ok THEN 0 ELSE sfCreds
        /\ UNCHANGED <<sfSession, sfDropped>>

\* hand_lock_to_leftover_task.
SfHandLock == "left"

\* It does not end in time.
SfTimeout(t) ==
    /\ sfPc[t] = "cmd" /\ sfCmd["left"] = SfNoCmd
    /\ sfCmd' = [sfCmd EXCEPT !["left"] = sfCmd[t], ![t] = SfNoCmd]
    /\ sfLock' = SfHandLock
    /\ sfState' = IF sfJob[t].op \in {"mount", "unmount", "remount"} THEN "Failed" ELSE sfState
    /\ SfGo(t, IF sfJob[t].op = "delete" THEN "tables" ELSE "idle")
    /\ UNCHANGED <<sfSession, sfCreds, sfReal, sfDropped>>

\* cleanup_device clears the tables after it let go of the lock.
SfTables(t) ==
    /\ sfPc[t] = "tables"
    /\ sfState' = "Unmounted" /\ sfCreds' = 0
    /\ SfGo(t, "idle")
    /\ UNCHANGED <<sfSession, sfReal, sfLock, sfCmd, sfDropped>>

\* The leftover of a command ends and drops the lock.
SfLeftEnds(ok) ==
    /\ sfCmd["left"] # SfNoCmd
    /\ SfEffect(sfCmd["left"], ok)
    /\ sfCmd' = [sfCmd EXCEPT !["left"] = SfNoCmd]
    /\ sfLock' = IF sfLock = "left" THEN "nobody" ELSE sfLock
    /\ UNCHANGED <<sfSession, sfCreds, sfState, sfPc, sfJob, sfDropped>>

\* The client of an API call leaves: its handler is dropped with its guard, the
\* command goes on.
SfDrop(t) ==
    /\ t \in {"api", "del"} /\ sfJob[t].op # "sweep" /\ sfPc[t] # "idle"
    /\ ~sfDropped
    /\ SfGo(t, "idle")
    /\ sfLock' = IF sfLock = t THEN "nobody" ELSE sfLock
    /\ sfCmd' = [sfCmd EXCEPT !["orphan"] = sfCmd[t], ![t] = SfNoCmd]
    /\ sfDropped' = TRUE
    /\ UNCHANGED <<sfSession, sfCreds, sfState, sfReal>>

SfOrphanEnds(ok) ==
    /\ sfCmd["orphan"] # SfNoCmd
    /\ SfEffect(sfCmd["orphan"], ok)
    /\ sfCmd' = [sfCmd EXCEPT !["orphan"] = SfNoCmd]
    /\ UNCHANGED <<sfSession, sfCreds, sfState, sfLock, sfPc, sfJob, sfDropped>>

-----------------------------------------------------------------------------

SfNext ==
    \/ SfConnect \/ SfCredentials \/ SfApiMount \/ SfApiUnmount \/ SfDelete
    \/ \E t \in SfTasks : \/ SfLinkEnds(t) \/ SfNotice(t) \/ SfAcquire(t) \/ SfBusy(t)
                          \/ SfTimeout(t) \/ SfTables(t) \/ SfDrop(t)
    \/ \E ok \in BOOLEAN : \/ SfLeftEnds(ok) \/ SfOrphanEnds(ok)
                           \/ \E t \in SfTasks : SfDone(t, ok)

SfSpec == SfInit /\ [][SfNext]_sfVars

SfTypeOK ==
    /\ sfLink \in 0..SfSessions /\ sfMade \in 1..SfSessions
    /\ sfCreds \in 0..SfSessions /\ sfReal \in 0..SfSessions
    /\ sfState \in {"Unmounted", "Mounting", "Mounted", "Failed"}
    /\ sfLock \in SfTasks \cup {"left", "nobody"}
    /\ sfPc \in [SfTasks -> {"idle", "notice", "lock", "cmd", "tables"}]
    /\ \A t \in SfTasks : sfJob[t].use \in 0..SfSessions
    /\ \A k \in DOMAIN sfCmd : sfCmd[k].cmd \in SfCmds
    /\ sfDropped \in BOOLEAN

\* A disconnect that is handled late never releases the mount of the session that
\* replaced it: while its fusermount runs, even past its timeout, what is mounted
\* is not the mount of the session that is up (cleanup_mount_on_disconnect,
\* hand_lock_to_leftover_task).  Handlers that were dropped are excepted.
CleanupSparesNewer ==
    ~sfDropped => \A k \in DOMAIN sfCmd :
        sfCmd[k].cmd = "fusermount" /\ sfCmd[k].op = "release" /\ sfReal # 0 => sfReal # sfLink

\* A disconnect that clears the entry without an unmount finds nothing mounted
\* (cleanup_mount_on_disconnect: "nothing live to release").  It fails: live_mount
\* is read before the lock, while an sshfs of the same phone runs under it.
NothingLiveToRelease ==
    [][\A t \in SfTasks :
          sfPc[t] = "lock" /\ sfJob[t].op = "release" /\ sfLock = "nobody" /\ sfLink = 0
              /\ sfPc'[t] = "idle" => sfReal = 0]_sfVars
=============================================================================
