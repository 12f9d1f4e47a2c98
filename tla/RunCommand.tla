----------------------------- MODULE RunCommand -----------------------------
(***************************************************************************)
(* Commands a phone may run on the desktop (plugins/runcommand.rs).         *)
(* A request names a key of the allowlist; the command runs as              *)
(* `/bin/sh -c` in a process group of its own, a task drains its two pipes  *)
(* and waits for the shell, all under one timeout, and the outcome goes     *)
(* into a bounded log.                                                      *)
(*                                                                         *)
(* A job is that task.  Its shell runs, has exited or is reaped (the task   *)
(* polls the wait and the pipes together, so an exited shell may be reaped  *)
(* long before the pipes are closed); its kids are the processes the shell  *)
(* left in the background, which hold the pipes open, or, once they called  *)
(* setsid, run outside the group.                                           *)
(***************************************************************************)
EXTENDS Naturals, Sequences, SequencesExt, FiniteSets

CONSTANTS
    RcDevices, RcKeys, RcTexts,     \* "" is the empty key, name or command
    RcRows,                         \* lists of rows a configuration may hold
    RcJobs, RcMaxRecords

ASSUME RcAssumption ==
    /\ IsFiniteSet(RcDevices) /\ IsFiniteSet(RcJobs)
    /\ RcMaxRecords \in Nat \ {0}
    /\ \A rows \in RcRows : \A i \in DOMAIN rows :
          rows[i].key \in RcKeys \cup {""} /\ rows[i].command \in RcTexts \cup {""}

VARIABLES
    rcGlobal,     \* global_commands: key -> command, "" for no entry
    rcListed,     \* per device, the list it was last sent, or <<>> before the first
    rcJob,        \* the execution tasks
    rcExecuted    \* executed, the log of outcomes

rcVars == <<rcGlobal, rcListed, rcJob, rcExecuted>>

-----------------------------------------------------------------------------
RcIdle == [pc |-> "idle", device |-> "", key |-> "", command |-> "",
           shell |-> "none", kids |-> "none"]

RcRecord(j, verdict) == [device |-> rcJob[j].device, key |-> rcJob[j].key,
                         command |-> rcJob[j].command, verdict |-> verdict]

RcTypeOK ==
    /\ rcGlobal \in [RcKeys -> RcTexts \cup {""}]
    /\ rcListed \in [RcDevices -> {<<>>} \cup [RcKeys -> RcTexts \cup {""}]]
    /\ \A j \in RcJobs :
          /\ rcJob[j].pc \in {"idle", "run", "verdict"}
          /\ rcJob[j].shell \in {"none", "runs", "exited", "reaped"}
          /\ rcJob[j].kids \in {"none", "group", "escaped"}
    /\ Len(rcExecuted) <= RcMaxRecords

(* register_from_config: rows with an empty field are skipped, the first     *)
(* row of a key wins.  A row's command stands for its name as well.          *)
RcValid(row) == row.key # "" /\ row.command # ""

RcRegister(rows) ==
    LET firsts(k) == {i \in DOMAIN rows : RcValid(rows[i]) /\ rows[i].key = k}
    IN [k \in RcKeys |->
          IF firsts(k) = {} THEN ""
          ELSE rows[CHOOSE i \in firsts(k) : \A h \in firsts(k) : i <= h].command]

RcInit ==
    /\ \E rows \in RcRows : rcGlobal = RcRegister(rows)
    /\ rcListed = [d \in RcDevices |-> <<>>]
    /\ rcJob = [j \in RcJobs |-> RcIdle]
    /\ rcExecuted = <<>>

(* The per-device map is never filled outside tests. *)
RcLookup(d, key) == rcGlobal[key]

RcCommandList(d) == [k \in RcKeys |-> RcLookup(d, k)]

-----------------------------------------------------------------------------
(* The list goes out on connect, and when the phone asks for it. *)
RcSendList ==
    \E d \in RcDevices :
        /\ rcListed' = [rcListed EXCEPT ![d] = RcCommandList(d)]
        /\ UNCHANGED <<rcGlobal, rcJob, rcExecuted>>

(* handle_packet with a key: an unknown one is refused, a known one gets a    *)
(* task of its own, whatever is running already.                            *)
RcRequest ==
    \E d \in RcDevices, k \in RcKeys, j \in RcJobs :
        /\ rcJob[j].pc = "idle"
        /\ RcLookup(d, k) # ""
        /\ rcJob' = [rcJob EXCEPT ![j] =
                       [RcIdle EXCEPT !.pc = "run", !.device = d, !.key = k,
                                      !.command = RcLookup(d, k)]]
        /\ UNCHANGED <<rcGlobal, rcListed, rcExecuted>>

RcStep(j, job) == rcJob' = [rcJob EXCEPT ![j] = job]

RcSpawn(j) ==
    /\ rcJob[j].pc = "run" /\ rcJob[j].shell = "none"
    /\ RcStep(j, [rcJob[j] EXCEPT !.shell = "runs"])
    /\ UNCHANGED <<rcGlobal, rcListed, rcExecuted>>

(* Mutant of RcLog: the log may grow one too long. *)
RcLogLate(record) ==
    rcExecuted' = Append(IF Len(rcExecuted) > RcMaxRecords THEN Tail(rcExecuted)
                         ELSE rcExecuted, record)

(* The log keeps the latest outcomes. *)
RcLog(record) ==
    rcExecuted' = Append(IF Len(rcExecuted) >= RcMaxRecords THEN Tail(rcExecuted)
                         ELSE rcExecuted, record)

RcSpawnFails(j) ==
    /\ rcJob[j].pc = "run" /\ rcJob[j].shell = "none"
    /\ RcLog(RcRecord(j, "failed"))
    /\ RcStep(j, RcIdle)
    /\ UNCHANGED <<rcGlobal, rcListed>>

(* The command's own doing: work in the background, a new session, an end. *)
RcBackground(j) ==
    /\ rcJob[j].shell = "runs" /\ rcJob[j].kids = "none"
    /\ RcStep(j, [rcJob[j] EXCEPT !.kids = "group"])
    /\ UNCHANGED <<rcGlobal, rcListed, rcExecuted>>

RcEscape(j) ==
    /\ rcJob[j].kids = "group"
    /\ RcStep(j, [rcJob[j] EXCEPT !.kids = "escaped"])
    /\ UNCHANGED <<rcGlobal, rcListed, rcExecuted>>

RcKidsEnd(j) ==
    /\ rcJob[j].kids # "none"
    /\ RcStep(j, [rcJob[j] EXCEPT !.kids = "none"])
    /\ UNCHANGED <<rcGlobal, rcListed, rcExecuted>>

RcShellExits(j) ==
    /\ rcJob[j].shell = "runs"
    /\ RcStep(j, [rcJob[j] EXCEPT !.shell = "exited"])
    /\ UNCHANGED <<rcGlobal, rcListed, rcExecuted>>

(* The join polls child.wait(): the shell is reaped and child.id() is gone. *)
RcReap(j) ==
    /\ rcJob[j].pc = "run" /\ rcJob[j].shell = "exited"
    /\ RcStep(j, [rcJob[j] EXCEPT !.shell = "reaped"])
    /\ UNCHANGED <<rcGlobal, rcListed, rcExecuted>>

(* read_capped returns at the end of the pipe: the shell is gone and nobody   *)
(* else holds it.                                                           *)
RcPipesClosed(j) == rcJob[j].shell \in {"exited", "reaped"} /\ rcJob[j].kids = "none"

RcCollected(j) ==
    /\ rcJob[j].pc = "run"
    /\ rcJob[j].shell = "reaped" /\ RcPipesClosed(j)
    /\ RcLog(RcRecord(j, "done"))
    /\ RcStep(j, RcIdle)
    /\ UNCHANGED <<rcGlobal, rcListed>>

(* killpg when child.id() still names the leader; then kill and wait for the  *)
(* shell itself.                                                            *)
RcKillGroup(j, job) ==
    [job EXCEPT !.shell = "reaped",
                !.kids = IF job.shell # "reaped" /\ job.kids = "group" THEN "none" ELSE @]

RcTimeout(j) ==
    /\ rcJob[j].pc = "run" /\ rcJob[j].shell # "none"
    /\ RcStep(j, [RcKillGroup(j, rcJob[j]) EXCEPT !.pc = "verdict"])
    /\ UNCHANGED <<rcGlobal, rcListed, rcExecuted>>

RcTimedOut(j) ==
    /\ rcJob[j].pc = "verdict"
    /\ RcLog(RcRecord(j, "timeout"))
    /\ RcStep(j, RcIdle)
    /\ UNCHANGED <<rcGlobal, rcListed>>

RcNext ==
    \/ RcSendList \/ RcRequest
    \/ \E j \in RcJobs :
          \/ RcSpawn(j) \/ RcSpawnFails(j)
          \/ RcBackground(j) \/ RcEscape(j) \/ RcKidsEnd(j) \/ RcShellExits(j)
          \/ RcReap(j) \/ RcCollected(j) \/ RcTimeout(j) \/ RcTimedOut(j)

RcSpec == RcInit /\ [][RcNext]_rcVars

-----------------------------------------------------------------------------
(* What the comment on execute_command says: when a command is declared timed *)
(* out, nothing of its process group runs on.  It does not hold: a shell that *)
(* was reaped before the timeout has no id any more, and no group is killed.  *)
TimeoutEndsGroup == \A j \in RcJobs : rcJob[j].pc = "verdict" => rcJob[j].kids # "group"
=============================================================================
