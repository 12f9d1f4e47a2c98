--------------------------- MODULE PluginProofs -----------------------------
(***************************************************************************)
(* Theorems about plugins: a late cleanup spares the mount that came after *)
(* it, the clipboard converges, players paused for a call play again, the  *)
(* alarm leaves the mutes as they were, a presenter's fractions of a pixel *)
(* are carried over and a popup stays within reach of its notification.    *)
(***************************************************************************)
EXTENDS Sftp, Clipboard, PauseMusic, Alarm, Tablet, Notification, TLAPS

-----------------------------------------------------------------------------
(* Mounts of a phone's files (plugins/sftp/mod.rs).                        *)

SfOps == {"none", "mount", "unmount", "sweep", "delete", "remount", "release"}
SfJobSet == [op : SfOps, use : Nat, live : BOOLEAN]
SfKeys == SfTasks \cup {"left", "orphan"}

\* A command and a job name a session, if any, that has been made.
SfRanges ==
    /\ sfLink \in Nat /\ sfMade \in Nat /\ sfCreds \in Nat /\ sfReal \in Nat
    /\ sfLink <= sfMade /\ sfCreds <= sfMade /\ sfReal <= sfMade
    /\ sfPc \in [SfTasks -> {"idle", "notice", "lock", "cmd", "tables"}]
    /\ sfJob \in [SfTasks -> SfJobSet]
    /\ sfCmd \in [SfKeys -> [cmd : SfCmds, use : Nat,
                             op : SfOps]]
    /\ \A t \in SfTasks : sfJob[t].use <= sfMade
    /\ \A k \in SfKeys : sfCmd[k].use <= sfMade

\* Whoever holds the lock runs a command, and no other command runs: the lock of a
\* command that outlived its task is with the leftover.
SfTurns ==
    /\ sfCmd["orphan"] = SfNoCmd
    /\ \A t \in SfTasks : (sfPc[t] = "cmd" <=> sfLock = t) /\ (sfCmd[t] # SfNoCmd => sfLock = t)
    /\ sfCmd["left"] # SfNoCmd => sfLock = "left"

SftpInv == SfRanges /\ (~sfDropped => SfTurns /\ CleanupSparesNewer)

\* The three tasks are none of the names of what became of a mount.
LEMMA SfNames ==
    /\ "left" \notin SfTasks /\ "orphan" \notin SfTasks /\ "nobody" \notin SfTasks
    /\ {"api", "loop", "del"} \subseteq SfTasks
  BY SfAssumption, Zenon DEF SfTasks

\* The jobs the callers set.
LEMMA SfJobs ==
    ASSUME NEW o \in SfOps, NEW u \in Nat, NEW l \in BOOLEAN
    PROVE  SfJob(o, u, l) \in SfJobSet /\ SfJob(o, u, l).use = u
  BY Zenon DEF SfJob, SfJobSet

\* A task at rest has the empty job.
LEMMA SfIdleJob == SfNoJob \in SfJobSet /\ SfNoJob.use = 0
  BY SfJobs, Zenon DEF SfNoJob, SfOps

\* The callers only set out for the lock.
LEMMA CallerStep ==
    ASSUME SftpInv,
           \/ SfConnect \/ SfCredentials \/ SfApiMount \/ SfApiUnmount \/ SfDelete
           \/ \E t \in SfTasks : SfLinkEnds(t) \/ SfNotice(t) \/ SfBusy(t) \/ SfTables(t)
    PROVE  SftpInv'
<1>1. CASE SfConnect
  BY <1>1 DEF SftpInv, SfRanges, SfJobSet, SfTurns, SfConnect, CleanupSparesNewer
<1>2. ASSUME NEW t \in SfTasks, NEW op \in SfOps, NEW u \in 0..sfMade,
             SfBegin(t, op, u), sfCreds' \in 0..sfMade,
             UNCHANGED <<sfLink, sfMade, sfReal, sfLock, sfCmd, sfDropped>>
      PROVE  SftpInv'
  <2>1. PICK j \in SfJobSet : j = SfJob(op, u, FALSE) /\ j.use = u
    <3>1. u \in Nat /\ FALSE \in BOOLEAN
      BY DEF SftpInv, SfRanges
    <3> QED BY <3>1, SfJobs, Zenon
  <2>2. sfPc[t] = "idle" /\ sfPc' = [sfPc EXCEPT ![t] = "lock"] /\ sfJob' = [sfJob EXCEPT ![t] = j]
    BY <1>2, <2>1, Zenon DEF SfBegin
  <2>3. SfRanges'
    <3>1. sfJob' \in [SfTasks -> SfJobSet] /\ sfPc' \in [SfTasks -> {"idle", "notice", "lock", "cmd", "tables"}]
      BY <2>1, <2>2, Zenon DEF SftpInv, SfRanges
    <3>2. \A v \in SfTasks : sfJob'[v].use <= sfMade
      <4>1. \A v \in SfTasks \ {t} : sfJob'[v] = sfJob[v]
        BY <2>2, Zenon DEF SftpInv, SfRanges
      <4>2. sfJob'[t].use = u
        BY <2>1, <2>2, Zenon DEF SftpInv, SfRanges
      <4> QED BY <4>1, <4>2 DEF SftpInv, SfRanges
    <3> QED BY <1>2, <3>1, <3>2 DEF SftpInv, SfRanges
  <2> QED BY <1>2, <2>2, <2>3, Zenon DEF SftpInv, SfRanges, SfTurns, CleanupSparesNewer
<1>3. CASE SfCredentials \/ SfApiMount \/ SfApiUnmount \/ SfDelete
  <2>1. sfLink \in 0..sfMade /\ sfCreds \in 0..sfMade /\ 0 \in 0..sfMade
        /\ {"mount", "unmount", "delete", "remount"} \subseteq SfOps
    BY DEF SftpInv, SfRanges, SfOps
  <2>2. CASE SfCredentials
    <3>1. CASE sfState \in {"Mounted", "Mounting"}
      BY <1>2, <2>1, <2>2, <3>1, SfNames, Zenon DEF SfCredentials, sfSession
    <3>2. CASE sfState \notin {"Mounted", "Mounting"}
      BY <2>1, <2>2, <3>2, Zenon DEF SfCredentials, sfSession, SftpInv, SfRanges, SfTurns, CleanupSparesNewer
    <3> QED BY <3>1, <3>2, Zenon
  <2> QED BY <1>2, <1>3, <2>1, <2>2, SfNames, Zenon DEF SfApiMount, SfApiUnmount, SfDelete, sfSession
<1>4. ASSUME NEW t \in SfTasks, SfLinkEnds(t)
      PROVE  SftpInv'
  BY <1>4 DEF SftpInv, SfRanges, SfTurns, SfLinkEnds, CleanupSparesNewer
<1>5. ASSUME NEW t \in SfTasks, SfNotice(t)
      PROVE  SftpInv'
  <2>1. PICK j \in SfJobSet : j = SfJob("release", 0, SfPointIsLive) /\ j.use = 0
    <3>1. SfPointIsLive \in BOOLEAN /\ "release" \in SfOps
      BY Zenon DEF SfPointIsLive, SfOps
    <3> QED BY <3>1, SfJobs, Zenon
  <2>2. sfPc[t] = "notice" /\ sfPc' = [sfPc EXCEPT ![t] = "lock"] /\ sfJob' = [sfJob EXCEPT ![t] = j]
    BY <1>5, <2>1, Zenon DEF SfNotice
  <2> QED BY <1>5, <2>1, <2>2 DEF SftpInv, SfRanges, SfTurns, SfNotice, CleanupSparesNewer, sfSession
<1>6. ASSUME NEW t \in SfTasks, SfBusy(t)
      PROVE  SftpInv'
  BY <1>6, SfIdleJob DEF SftpInv, SfRanges, SfTurns, SfBusy, SfGo, CleanupSparesNewer, sfSession
<1>7. ASSUME NEW t \in SfTasks, SfTables(t)
      PROVE  SftpInv'
  BY <1>7, SfIdleJob DEF SftpInv, SfRanges, SfTurns, SfTables, SfGo, CleanupSparesNewer, sfSession
<1> QED BY <1>1, <1>2, <1>3, <1>4, <1>5, <1>6, <1>7, Zenon

\* The lock is taken: a command of a disconnect starts only with no session up.
LEMMA AcquireStep ==
    ASSUME SftpInv, NEW t \in SfTasks, SfAcquire(t)
    PROVE  SftpInv'
<1>1. /\ sfPc[t] = "lock" /\ sfLock = "nobody"
      /\ UNCHANGED <<sfLink, sfMade, sfCreds, sfReal, sfDropped>>
  BY Zenon DEF SfAcquire, sfSession
<1>2. ASSUME NEW c \in SfCmds, SfStart(t, c), sfJob[t].op = "release" => sfLink = 0
      PROVE  SftpInv'
  <2>1. /\ sfLock' = t /\ sfPc' = [sfPc EXCEPT ![t] = "cmd"]
        /\ sfJob' = sfJob
        /\ sfCmd' = [sfCmd EXCEPT ![t] = [cmd |-> c, use |-> sfJob[t].use, op |-> sfJob[t].op]]
    BY <1>2, Zenon DEF SfStart, SfGo, SfExec, SftpInv, SfRanges
  <2>2. SfRanges'
    BY <1>1, <2>1, Zenon DEF SftpInv, SfRanges, SfKeys, SfJobSet
  <2>3. ~sfDropped => SfTurns'
    BY <1>1, <2>1, SfNames, Zenon DEF SftpInv, SfRanges, SfTurns, SfKeys
  <2>4. ~sfDropped => CleanupSparesNewer'
    BY <1>1, <1>2, <2>1, Zenon DEF SftpInv, SfRanges, SfKeys, CleanupSparesNewer
  <2> QED BY <1>1, <2>2, <2>3, <2>4, Zenon DEF SftpInv
<1>3. ASSUME NEW s, NEW l \in {"idle", "tables"}, SfSkip(t, s, l)
      PROVE  SftpInv'
  BY <1>1, <1>3, SfNames, SfIdleJob DEF SftpInv, SfRanges, SfTurns, SfSkip, SfGo, CleanupSparesNewer
<1>4. {"sshfs", "fusermount"} \subseteq SfCmds
  BY Zenon DEF SfCmds
<1>5. CASE sfJob[t].op = "mount"
  BY <1>2, <1>4, <1>5, Zenon DEF SfAcquire
<1>6. CASE sfJob[t].op \in {"unmount", "sweep"}
  BY <1>2, <1>4, <1>6, Zenon DEF SfAcquire
<1>7. CASE sfJob[t].op = "delete"
  BY <1>2, <1>3, <1>4, <1>7, Zenon DEF SfAcquire
<1>8. CASE sfJob[t].op = "remount"
  BY <1>2, <1>3, <1>4, <1>8, Zenon DEF SfAcquire
<1>9. CASE sfJob[t].op \notin {"mount", "unmount", "sweep", "delete", "remount"}
  BY <1>2, <1>3, <1>4, <1>9, Zenon DEF SfAcquire, SfSuperseded
<1> QED BY <1>5, <1>6, <1>7, <1>8, <1>9, Zenon

\* A command ends: of its task, of the leftover.
LEMMA CommandStep ==
    ASSUME SftpInv, NEW ok \in BOOLEAN,
           SfLeftEnds(ok) \/ SfOrphanEnds(ok) \/ \E t \in SfTasks : SfDone(t, ok)
    PROVE  SftpInv'
<1>1. ASSUME NEW k \in SfKeys, SfEffect(sfCmd[k], ok)
      PROVE  sfReal' \in Nat /\ sfReal' <= sfMade
  BY <1>1 DEF SfEffect, SftpInv, SfRanges
<1>2. CASE SfLeftEnds(ok)
  <2>1. SfRanges'
    BY <1>1, <1>2 DEF SfLeftEnds, SftpInv, SfRanges, SfKeys, SfNoCmd, SfCmds, SfOps, sfSession
  <2>2. ~sfDropped => \A k \in SfKeys : sfCmd'[k] = SfNoCmd
    BY <1>2, SfNames, Zenon DEF SfLeftEnds, SftpInv, SfRanges, SfKeys, SfTurns
  <2>3. ~sfDropped => SfTurns' /\ CleanupSparesNewer'
    BY <1>2, <2>1, <2>2, SfNames DEF SfLeftEnds, SftpInv, SfRanges, SfKeys, SfTurns, CleanupSparesNewer, SfNoCmd
  <2> QED BY <1>2, <2>1, <2>3, Zenon DEF SftpInv, SfLeftEnds
<1>3. CASE SfOrphanEnds(ok)
  <2>1. SfRanges'
    BY <1>1, <1>3 DEF SfOrphanEnds, SftpInv, SfRanges, SfKeys, SfNoCmd, SfCmds, SfOps, sfSession
  <2> QED BY <1>3, <2>1, Zenon DEF SfOrphanEnds, SftpInv, SfTurns
<1>4. ASSUME NEW t \in SfTasks, SfDone(t, ok)
      PROVE  SftpInv'
  <2>1. /\ sfPc[t] = "cmd" /\ UNCHANGED <<sfLink, sfMade, sfDropped>>
        /\ sfCreds' \in {0, sfCreds}
    BY <1>4, Zenon DEF SfDone, sfSession
  <2>2. ~sfDropped => \A k \in SfKeys \ {t} : sfCmd[k] = SfNoCmd
    BY <2>1, SfNames, Zenon DEF SftpInv, SfTurns, SfKeys
  <2>3. sfReal' \in Nat /\ sfReal' <= sfMade
    BY <1>1, <1>4, Zenon DEF SfDone, SfKeys
  <2>4. CASE SfRemounts(t)
    <3>1. /\ sfLock' = t /\ sfPc' = [sfPc EXCEPT ![t] = "cmd"] /\ sfJob' = sfJob
          /\ sfCmd' = [sfCmd EXCEPT ![t] = [cmd |-> "sshfs", use |-> sfJob[t].use, op |-> "remount"]]
      BY <1>4, <2>4, Zenon DEF SfDone, SfGo, SfExec, SftpInv, SfRanges
    <3>2. SfRanges'
      BY <2>1, <2>3, <3>1 DEF SftpInv, SfRanges, SfKeys, SfCmds, SfOps, SfJobSet
    <3>3. ~sfDropped => SfTurns' /\ CleanupSparesNewer'
      BY <2>1, <2>2, <3>1, SfNames DEF SftpInv, SfRanges, SfTurns, SfKeys, CleanupSparesNewer, SfNoCmd
    <3> QED BY <2>1, <3>2, <3>3, Zenon DEF SftpInv
  <2>5. CASE ~SfRemounts(t)
    <3>1. PICK l \in {"tables", "idle"} :
             /\ sfLock' = "nobody" /\ sfPc' = [sfPc EXCEPT ![t] = l]
             /\ sfJob' = [sfJob EXCEPT ![t] = IF l = "idle" THEN SfNoJob ELSE @]
             /\ sfCmd' = [sfCmd EXCEPT ![t] = SfNoCmd]
      BY <1>4, <2>5, Zenon DEF SfDone, SfGo
    <3>2. SfRanges'
      BY <2>1, <2>3, <3>1, SfIdleJob DEF SftpInv, SfRanges, SfKeys, SfCmds, SfNoCmd, SfOps
    <3>3. ~sfDropped => SfTurns' /\ CleanupSparesNewer'
      BY <2>1, <2>2, <3>1, SfNames DEF SftpInv, SfRanges, SfTurns, SfKeys, CleanupSparesNewer, SfNoCmd
    <3> QED BY <2>1, <3>2, <3>3, Zenon DEF SftpInv
  <2> QED BY <2>4, <2>5, Zenon
<1> QED BY <1>2, <1>3, <1>4, Zenon

\* A command outlives its task, and takes the lock with it.
LEMMA TimeoutStep ==
    ASSUME SftpInv, NEW t \in SfTasks, SfTimeout(t)
    PROVE  SftpInv'
<1>1. PICK l \in {"tables", "idle"} :
         /\ sfPc[t] = "cmd" /\ sfLock' = "left" /\ sfPc' = [sfPc EXCEPT ![t] = l]
         /\ sfJob' = [sfJob EXCEPT ![t] = IF l = "idle" THEN SfNoJob ELSE @]
         /\ sfCmd' = [sfCmd EXCEPT !["left"] = sfCmd[t], ![t] = SfNoCmd]
         /\ UNCHANGED <<sfLink, sfMade, sfCreds, sfReal, sfDropped>>
  <2>1. CASE sfJob[t].op = "delete"
    BY <2>1, Zenon DEF SfTimeout, SfGo, SfHandLock, sfSession
  <2>2. CASE sfJob[t].op # "delete"
    BY <2>2, Zenon DEF SfTimeout, SfGo, SfHandLock, sfSession
  <2> QED BY <2>1, <2>2, Zenon
<1>2. SfRanges'
  BY <1>1, SfNames, SfIdleJob DEF SftpInv, SfRanges, SfKeys, SfCmds, SfNoCmd, SfOps
<1>3. ~sfDropped => SfTurns'
  BY <1>1, SfNames, Zenon DEF SftpInv, SfRanges, SfTurns, SfKeys, SfNoCmd
<1>4. ~sfDropped => CleanupSparesNewer'
  BY <1>1, SfNames, Zenon DEF SftpInv, SfRanges, SfKeys, SfNoCmd, CleanupSparesNewer
<1> QED BY <1>1, <1>2, <1>3, <1>4, Zenon DEF SftpInv

\* A handler that is dropped ends the claim.
LEMMA DropStep ==
    ASSUME SftpInv, NEW t \in SfTasks, SfDrop(t)
    PROVE  SftpInv'
  BY SfNames, SfIdleJob DEF SftpInv, SfRanges, SfKeys, SfCmds, SfNoCmd, SfOps, SfDrop, SfGo, sfSession

\* A disconnect that is handled late never releases the mount of a newer session
\* (sftp/mod.rs): for any number of sessions and disconnects at a time.
THEOREM LateCleanupsSpare == SfSpec => []CleanupSparesNewer
<1>1. SfInit => SftpInv
  <2> SUFFICES ASSUME SfInit PROVE SftpInv
    BY Zenon
  <2>1. \A t \in SfTasks : sfJob[t] \in SfJobSet /\ sfJob[t].use = 0
    <3>1. {"sweep", "none"} \subseteq SfOps
      BY Zenon DEF SfOps
    <3> QED BY <3>1, SfJobs, Zenon DEF SfInit
  <2>2. sfJob \in [SfTasks -> SfJobSet]
    BY <2>1, Zenon DEF SfInit
  <2>4. sfCmd \in [SfKeys -> [cmd : SfCmds, use : Nat,
                              op : SfOps]]
    BY Zenon DEF SfInit, SfKeys, SfCmds, SfNoCmd, SfOps
  <2>5. SfRanges
    <3>1. sfPc \in [SfTasks -> {"idle", "notice", "lock", "cmd", "tables"}]
      BY Zenon DEF SfInit
    <3>2. (\A t \in SfTasks : sfJob[t].use <= sfMade) /\ \A k \in SfKeys : sfCmd[k].use <= sfMade
      <4>1. sfMade = 1 /\ \A k \in SfKeys : sfCmd[k].use = 0
        BY Zenon DEF SfInit, SfKeys, SfNoCmd
      <4> QED BY <2>1, <4>1
    <3>3. sfLink \in Nat /\ sfMade \in Nat /\ sfCreds \in Nat /\ sfReal \in Nat
          /\ sfLink <= sfMade /\ sfCreds <= sfMade /\ sfReal <= sfMade
      BY DEF SfInit
    <3> QED BY <2>2, <2>4, <3>1, <3>2, <3>3, Zenon DEF SfRanges
  <2> QED BY <2>5, SfNames, Zenon DEF SfInit, SftpInv, SfTurns, SfKeys, SfNoCmd, CleanupSparesNewer
<1>2. SftpInv => CleanupSparesNewer
  BY Zenon DEF SftpInv, CleanupSparesNewer
<1>3. SftpInv /\ [SfNext]_sfVars => SftpInv'
  <2>1. CASE UNCHANGED sfVars
    BY <2>1, Zenon DEF sfVars, SftpInv, SfRanges, SfTurns, CleanupSparesNewer
  <2> QED BY <2>1, CallerStep, AcquireStep, CommandStep, TimeoutStep, DropStep, Zenon DEF SfNext
<1> QED BY <1>1, <1>2, <1>3, PTL DEF SfSpec

-----------------------------------------------------------------------------
(* The clipboard.                                                          *)

ClpTypes ==
    /\ clpDesk \in ClpTexts \cup {ClpEmpty} /\ clpLines \in Nat /\ clpChan \in Seq(ClpTexts)
    /\ clpWriting \in [ClpPhones -> ClpTexts \cup {ClpEmpty}]

ClpPending == \E p \in ClpPhones : clpWriting[p] # ClpEmpty
ClpArriving == clpChan # <<>> /\ clpChan[Len(clpChan)] = clpDesk
ClpSettled == clpChan = <<>> /\ clpContent = clpDesk

\* A text on the session clipboard is stored, or is the last of what is under way, or
\* is about to be read or to be replaced.
ClpConverging ==
    clpMode = "watch" /\ ~clpSkewed /\ clpDesk # ClpEmpty
        => ClpPending \/ clpLines > 0 \/ ClpArriving \/ ClpSettled

ClpInv == ClpTypes /\ ClpConverging

\* A new owner of the selection is notified to a watcher that runs.
LEMMA OwnNotified ==
    ASSUME ClpTypes, NEW text \in ClpTexts \cup {ClpEmpty}, ClpOwn(text), clpSkewed' = (clpSkewed \/ ~clpUp),
           UNCHANGED clpChan, clpWriting' \in [ClpPhones -> ClpTexts \cup {ClpEmpty}]
    PROVE  ClpInv'
<1>0. clpDesk' = text /\ clpMode' = clpMode
  BY Zenon DEF ClpOwn
<1>1. clpLines' \in {clpLines, clpLines + 1, 1}
  BY Zenon DEF ClpOwn
<1>2. ClpTypes'
  BY <1>0, <1>1 DEF ClpTypes
<1>3. CASE clpUp /\ clpMode = "watch"
  <2>1. clpLines' = clpLines + 1
    BY <1>3, Zenon DEF ClpOwn
  <2>2. clpLines' > 0
    BY <2>1 DEF ClpTypes
  <2> QED BY <1>2, <2>2, Zenon DEF ClpInv, ClpConverging
<1>4. CASE ~clpUp
  <2>1. clpSkewed'
    BY <1>4, Zenon
  <2> QED BY <1>2, <2>1, Zenon DEF ClpInv, ClpConverging
<1>5. CASE clpMode # "watch"
  BY <1>0, <1>2, <1>5, Zenon DEF ClpInv, ClpConverging
<1> QED BY <1>3, <1>4, <1>5, Zenon

\* A packet of a phone leaves a write to come.
LEMMA ReceiveConverges ==
    ASSUME ClpTypes, NEW p \in ClpPhones, NEW text \in ClpTexts,
           clpWriting' = [clpWriting EXCEPT ![p] = text], UNCHANGED <<clpWatcher, clpDesk, clpChan>>
    PROVE  ClpInv'
<1>1. clpWriting'[p] = text /\ text # ClpEmpty
  BY ClpAssumption, Zenon DEF ClpTypes
<1>2. ClpPending'
  BY <1>1, Zenon DEF ClpPending
<1>3. ClpTypes'
  BY Zenon DEF ClpTypes, clpWatcher
<1> QED BY <1>2, <1>3, Zenon DEF ClpInv, ClpConverging

\* A failure is named.
LEMMA SkewedConverges ==
    ASSUME ClpTypes', clpSkewed'
    PROVE  ClpInv'
  BY Zenon DEF ClpInv, ClpConverging

\* What was read is applied in the order it was read.
LEMMA LocalConverges ==
    ASSUME ClpInv, ClpLocalChange
    PROVE  ClpInv'
<1>0. clpChan \in Seq(ClpTexts) /\ clpChan # <<>> /\ clpChan' = Tail(clpChan)
  BY Zenon DEF ClpInv, ClpTypes, ClpLocalChange
<1>1. UNCHANGED <<clpMode, clpLines, clpDesk, clpWriting, clpSkewed>>
  BY Zenon DEF ClpLocalChange, clpWatcher
<1>2. clpContent' = Head(clpChan)
  BY Zenon DEF ClpLocalChange, ClpFresh
<1>3. ClpTypes'
  BY <1>0, <1>1 DEF ClpInv, ClpTypes
<1>4. ClpPending => ClpPending'
  BY <1>1, Zenon DEF ClpPending
<1>5. ASSUME ClpArriving PROVE ClpArriving' \/ ClpSettled'
  <2>1. Len(clpChan) \in Nat /\ Len(clpChan) # 0
    BY <1>0
  <2>2. Len(clpChan') = Len(clpChan) - 1 /\ clpChan' \in Seq(ClpTexts)
    BY <1>0
  <2>3. CASE Len(clpChan) = 1
    <3>1. clpChan' = <<>> /\ Head(clpChan) = clpChan[1]
      BY <1>0, <2>2, <2>3
    <3> QED BY <1>1, <1>2, <1>5, <2>3, <3>1, Zenon DEF ClpArriving, ClpSettled
  <2>4. CASE Len(clpChan) > 1
    <3>1. clpChan'[Len(clpChan) - 1] = clpChan[(Len(clpChan) - 1) + 1]
      BY <1>0, <2>1, <2>4
    <3>2. clpChan' # <<>> /\ clpChan'[Len(clpChan')] = clpChan[Len(clpChan)]
      BY <2>1, <2>2, <2>4, <3>1
    <3> QED BY <1>1, <1>5, <3>2, Zenon DEF ClpArriving
  <2> QED BY <2>1, <2>3, <2>4
<1>6. ~ClpSettled
  BY <1>0, Zenon DEF ClpSettled
<1> QED BY <1>1, <1>3, <1>4, <1>5, <1>6, Zenon DEF ClpInv, ClpConverging

\* A read passes on what is on the session clipboard.
LEMMA ReadConverges ==
    ASSUME ClpInv, ClpRead
    PROVE  ClpInv'
<1>1. CASE clpDesk = ClpEmpty
  <2>1. ClpTypes'
    BY <1>1 DEF ClpInv, ClpTypes, ClpRead
  <2>2. clpDesk' = ClpEmpty
    BY <1>1, Zenon DEF ClpRead
  <2> QED BY <2>1, <2>2, Zenon DEF ClpInv, ClpConverging
<1>2. CASE clpDesk # ClpEmpty
  <2>1. clpDesk \in ClpTexts /\ clpChan' = Append(clpChan, clpDesk)
    BY <1>2, Zenon DEF ClpInv, ClpTypes, ClpRead
  <2>2. ClpTypes'
    BY <2>1 DEF ClpInv, ClpTypes, ClpRead
  <2>3. ClpArriving'
    BY <2>1 DEF ClpInv, ClpTypes, ClpRead, ClpArriving
  <2> QED BY <2>2, <2>3, Zenon DEF ClpInv, ClpConverging
<1> QED BY <1>1, <1>2, Zenon

\* Every step keeps the plugin on the way to the session clipboard.
LEMMA ClipStep ==
    ASSUME ClpInv, [ClpNext]_clpVars
    PROVE  ClpInv'
<1>0. ClpTypes
  BY Zenon DEF ClpInv
<1>1. ASSUME NEW text \in ClpTexts \cup {ClpEmpty}, ClpCopy(text) PROVE ClpInv'
  BY <1>0, <1>1, OwnNotified, Zenon DEF ClpCopy, ClpTypes
<1>2. ASSUME NEW text \in ClpTexts, ClpApiSet(text) PROVE ClpInv'
  <2>1. ClpTypes'
    BY <1>0, <1>2, Zenon DEF ClpApiSet, ClpTypes, clpWatcher
  <2> QED BY <1>2, <2>1, SkewedConverges, Zenon DEF ClpApiSet
<1>3. CASE ClpRearm
  BY <1>3, Zenon DEF ClpInv, ClpTypes, ClpConverging, ClpRearm
<1>4. CASE ClpPoll
  BY <1>4 DEF ClpInv, ClpTypes, ClpConverging, ClpPoll
<1>5. CASE ClpReadFails
  <2>1. ClpTypes'
    BY <1>0, <1>5 DEF ClpReadFails, ClpTypes
  <2> QED BY <1>5, <2>1, SkewedConverges, Zenon DEF ClpReadFails
<1>6. CASE ClpWatcherEnds
  <2>1. ClpTypes'
    BY <1>0, <1>6 DEF ClpWatcherEnds, ClpTypes
  <2>2. CASE clpLines > 0
    <3>1. clpSkewed'
      BY <1>6, <2>2, Zenon DEF ClpWatcherEnds
    <3> QED BY <2>1, <3>1, SkewedConverges, Zenon
  <2>3. CASE clpLines = 0
    <3>1. clpSkewed => clpSkewed'
      BY <1>6, Zenon DEF ClpWatcherEnds
    <3>2. UNCHANGED <<clpMode, clpWriting, clpLines, clpChan, clpDesk, clpContent>>
      BY <1>6, <2>3, Zenon DEF ClpWatcherEnds, clpStore
    <3>3. (ClpPending \/ ClpArriving \/ ClpSettled) => (ClpPending \/ ClpArriving \/ ClpSettled)'
      BY <3>2, Zenon DEF ClpPending, ClpArriving, ClpSettled
    <3>4. clpMode = "watch" /\ ~clpSkewed /\ clpDesk # ClpEmpty => ClpPending \/ ClpArriving \/ ClpSettled
      BY <2>3 DEF ClpInv, ClpConverging
    <3> QED BY <2>1, <3>1, <3>2, <3>3, <3>4, Zenon DEF ClpInv, ClpConverging
  <2> QED BY <1>0, <2>2, <2>3 DEF ClpTypes
<1>7. CASE ClpWatcherStarts
  BY <1>7, Zenon DEF ClpInv, ClpTypes, ClpConverging, ClpPending, ClpArriving, ClpSettled, ClpWatcherStarts, clpStore
<1>8. ASSUME NEW p \in ClpPhones, NEW text \in ClpTexts, ClpReceive(p, text) PROVE ClpInv'
  BY <1>0, <1>8, ReceiveConverges, Zenon DEF ClpReceive
<1>9. ASSUME NEW p \in ClpPhones, NEW text \in ClpTexts, NEW ts, ClpReceiveConnect(p, text, ts) PROVE ClpInv'
  BY <1>0, <1>9, ReceiveConverges, Zenon DEF ClpReceiveConnect
<1>10. ASSUME NEW p \in ClpPhones, ClpWrite(p) PROVE ClpInv'
  <2>1. clpWriting[p] \in ClpTexts /\ clpWriting' \in [ClpPhones -> ClpTexts \cup {ClpEmpty}]
    BY <1>0, <1>10, Zenon DEF ClpWrite, ClpTypes
  <2> QED BY <1>0, <1>10, <2>1, OwnNotified, Zenon DEF ClpWrite
<1>11. ASSUME NEW p \in ClpPhones, ClpWriteFails(p) PROVE ClpInv'
  <2>1. ClpTypes'
    BY <1>0, <1>11, Zenon DEF ClpWriteFails, ClpTypes, clpWatcher
  <2> QED BY <1>11, <2>1, SkewedConverges, Zenon DEF ClpWriteFails
<1>12. CASE UNCHANGED clpVars
  BY <1>12, Zenon DEF ClpInv, ClpTypes, ClpConverging, ClpPending, ClpArriving, ClpSettled, clpVars
<1> QED BY Zenon, <1>1, <1>2, <1>3, <1>4, <1>5, <1>6, <1>7, <1>8, <1>9, <1>10, <1>11, <1>12,
           LocalConverges, ReadConverges DEF ClpNext

\* A text on the session clipboard ends up being what the plugin holds (apply_local_change,
\* apply_remote, write_to_session), for any number of phones, texts and changes.
THEOREM ClipboardSettles == ClpSpec => []ClipboardConverges
<1>1. ClpInit => ClpInv
  BY DEF ClpInit, ClpInv, ClpTypes, ClpConverging, ClpSettled
<1>2. ClpInv => ClipboardConverges
  BY DEF ClpInv, ClpTypes, ClpConverging, ClpPending, ClpArriving, ClpSettled, ClpQuiet, ClipboardConverges
<1> QED BY <1>1, <1>2, ClipStep, PTL DEF ClpSpec

-----------------------------------------------------------------------------
(* Players paused for a call.                                              *)

\* What is known of a phone whose link was never torn down under a handler: the last
\* packet under way ends the call, if the phone has ended it, and so does the one in
\* the hands of the handler, if none is under way; a player that stays paused on its
\* behalf is in the record, among those its handler paused, or has yet to be played;
\* and the record of a call that is over is gone.
PmPhoneInv(p) ==
    /\ p \notin pmInCall /\ pmQueue[p] # <<>> => PmIsCancel(pmQueue[p][Len(pmQueue[p])])
    /\ p \notin pmInCall /\ pmQueue[p] = <<>> => pmPc[p] \in {"idle", "cancel", "resume"}
    /\ \A x \in PmPlayers : pmBy[x] = p =>
          x \in pmPaused[p] \cup pmActed[p] \/ (pmPc[p] = "resume" /\ x \in pmLeft[p])
    /\ pmPc[p] # "pause" => pmActed[p] = {}
    /\ pmPc[p] = "resume" => pmPaused[p] = {}
    /\ p \notin pmInCall /\ pmQueue[p] = <<>> /\ pmPc[p] = "idle" => pmPaused[p] = {}

PmTypes ==
    /\ pmBy \in [PmPlayers -> PmPhones \cup {PmNobody}]
    /\ pmQueue \in [PmPhones -> Seq({"no", "bool", "string"})]
    /\ pmPc \in [PmPhones -> {"idle", "call", "cancel", "pause", "resume"}]
    /\ pmLeft \in [PmPhones -> SUBSET PmPlayers]
    /\ pmActed \in [PmPhones -> SUBSET PmPlayers]
    /\ pmPaused \in [PmPhones -> SUBSET PmPlayers]

CallInv == PmTypes /\ \A p \in PmPhones \ pmSkewed : PmPhoneInv(p)

\* Every step keeps the types.
LEMMA PmTypesStep ==
    ASSUME PmTypes, [PmNext]_pmVars
    PROVE  PmTypes'
<1>1. ASSUME NEW p \in PmPhones, PmRing(p) \/ PmHangUp(p, "bool") \/ PmHangUp(p, "string")
      PROVE  PmTypes'
  <2>1. \A c \in {"no", "bool", "string"} : Append(pmQueue[p], c) \in Seq({"no", "bool", "string"})
    BY DEF PmTypes
  <2> QED BY <1>1, <2>1, Zenon DEF PmTypes, PmRing, PmHangUp, pmHandler
<1>2. ASSUME NEW p \in PmPhones, PmReceive(p)
      PROVE  PmTypes'
  BY <1>2 DEF PmTypes, PmReceive
<1>3. ASSUME NEW p \in PmPhones, PmCallLock(p) \/ PmCancelLock(p) \/ PmRecord(p) \/ PmResumed(p)
      PROVE  PmTypes'
  <2>1. CASE PmCallLock(p)
    BY <2>1, Zenon DEF PmTypes, PmCallLock, pmCalls
  <2>2. CASE PmRecord(p)
    <3>1. pmPaused[p] \cup pmActed[p] \in SUBSET PmPlayers
      BY Zenon DEF PmTypes
    <3> QED BY <2>2, <3>1, Zenon DEF PmTypes, PmRecord, pmCalls
  <2>3. CASE PmCancelLock(p) \/ PmResumed(p)
    BY <2>3, Zenon DEF PmTypes, PmCancelLock, PmResumed, pmCalls
  <2> QED BY <1>3, <2>1, <2>2, <2>3, Zenon
<1>4. ASSUME NEW p \in PmPhones, NEW x \in PmPlayers, PmPauseOne(p, x) \/ PmPlayOne(p, x)
      PROVE  PmTypes'
  <2>1. CASE PmPauseOne(p, x)
    <3>1. /\ pmBy' \in [PmPlayers -> PmPhones \cup {PmNobody}]
          /\ pmActed' \in [PmPhones -> SUBSET PmPlayers]
      <4>1. pmActed[p] \cup {x} \in SUBSET PmPlayers
        BY Zenon DEF PmTypes
      <4>2. CASE /\ pmBy' = [pmBy EXCEPT ![x] = p]
                 /\ pmActed' = [pmActed EXCEPT ![p] = @ \cup {x}]
        <5>1. pmBy' \in [PmPlayers -> PmPhones \cup {PmNobody}]
          BY <4>2, Zenon DEF PmTypes
        <5>2. pmActed' \in [PmPhones -> SUBSET PmPlayers]
          BY <4>1, <4>2, Zenon DEF PmTypes
        <5> QED BY <5>1, <5>2, Zenon
      <4>3. CASE UNCHANGED <<pmBy, pmActed>>
        BY <4>3, Zenon DEF PmTypes
      <4> QED BY <2>1, <4>2, <4>3, Zenon DEF PmPauseOne
    <3>2. pmLeft' \in [PmPhones -> SUBSET PmPlayers]
      BY <2>1, Zenon DEF PmTypes, PmPauseOne
    <3> QED BY <2>1, <3>1, <3>2, Zenon DEF PmTypes, PmPauseOne, pmCalls
  <2>2. CASE PmPlayOne(p, x)
    BY <2>2, Zenon DEF PmTypes, PmPlayOne, pmCalls
  <2> QED BY <1>4, <2>1, <2>2, Zenon
<1>5. ASSUME NEW p \in PmPhones, PmDisconnected(p)
      PROVE  PmTypes'
  BY <1>5 DEF PmTypes, PmDisconnected, pmHandler
<1>6. ASSUME NEW x \in PmPlayers, PmUser(x)
      PROVE  PmTypes'
  BY <1>6, Zenon DEF PmTypes, PmUser, pmHandler
<1>7. CASE UNCHANGED pmVars
  BY <1>7, Zenon DEF PmTypes, pmVars
<1> QED BY <1>1, <1>2, <1>3, <1>4, <1>5, <1>6, <1>7, Zenon DEF PmNext

\* A step of one phone's handler, and of its link, keeps what is known of it.
LEMMA OwnStep ==
    ASSUME PmTypes, NEW p \in PmPhones, PmPhoneInv(p), p \notin pmSkewed',
           \/ PmRing(p) \/ PmHangUp(p, "bool") \/ PmHangUp(p, "string")
           \/ PmReceive(p) \/ PmCallLock(p) \/ PmRecord(p) \/ PmCancelLock(p) \/ PmResumed(p)
           \/ PmDisconnected(p)
           \/ \E x \in PmPlayers : PmPauseOne(p, x) \/ PmPlayOne(p, x)
    PROVE  PmPhoneInv(p)'
<1>1. CASE PmRing(p)
  BY <1>1, Zenon DEF PmTypes, PmPhoneInv, PmRing, pmHandler
<1>2. ASSUME NEW c \in {"bool", "string"}, PmHangUp(p, c)
      PROVE  PmPhoneInv(p)'
  <2>1. PICK q \in Seq({"no", "bool", "string"}) : q = pmQueue[p]
    BY Zenon DEF PmTypes
  <2>2. Append(q, c) # <<>> /\ Append(q, c)[Len(Append(q, c))] = c
    BY <2>1
  <2>3. pmQueue'[p] = Append(q, c)
    BY <1>2, <2>1, Zenon DEF PmTypes, PmHangUp
  <2> QED BY <1>2, <2>2, <2>3, Zenon DEF PmTypes, PmPhoneInv, PmHangUp, pmHandler, PmIsCancel
<1>3. CASE PmReceive(p)
  <2>1. PICK q \in Seq({"no", "bool", "string"}) : q = pmQueue[p] /\ q # <<>>
    BY <1>3, Zenon DEF PmTypes, PmReceive
  <2>2. pmQueue'[p] = Tail(q) /\ pmPc'[p] = IF PmIsCancel(Head(q)) THEN "cancel" ELSE "call"
    BY <1>3, <2>1, Zenon DEF PmTypes, PmReceive
  <2>3. Tail(q) = <<>> => Head(q) = q[Len(q)]
    <3>1. Len(Tail(q)) = Len(q) - 1 /\ Len(q) \in Nat \ {0} /\ Head(q) = q[1]
      BY <2>1, SMTT(30)
    <3> QED BY <3>1, SMTT(30)
  <2>4. Tail(q) # <<>> => Tail(q)[Len(Tail(q))] = q[Len(q)]
    BY <2>1, SMTT(30)
  <2> QED BY <1>3, <2>1, <2>2, <2>3, <2>4, Zenon DEF PmTypes, PmPhoneInv, PmReceive
<1>4. CASE PmCallLock(p) \/ PmCancelLock(p) \/ PmResumed(p)
  BY <1>4, ZenonT(30) DEF PmTypes, PmPhoneInv, PmCallLock, PmCancelLock, PmResumed, pmCalls
<1>5. CASE PmRecord(p)
  BY <1>5, Zenon DEF PmTypes, PmPhoneInv, PmRecord, pmCalls
<1>6. CASE PmDisconnected(p)
  BY <1>6, PmAssumption, Zenon DEF PmTypes, PmPhoneInv, PmDisconnected, pmHandler
<1>7. ASSUME NEW x \in PmPlayers, PmPauseOne(p, x)
      PROVE  PmPhoneInv(p)'
  BY <1>7, SMTT(30) DEF PmTypes, PmPhoneInv, PmPauseOne, pmCalls
<1>8. ASSUME NEW x \in PmPlayers, PmPlayOne(p, x)
      PROVE  PmPhoneInv(p)'
  BY <1>8, PmAssumption, ZenonT(30) DEF PmTypes, PmPhoneInv, PmPlayOne, pmCalls
<1> QED BY <1>1, <1>2, <1>3, <1>4, <1>5, <1>6, <1>7, <1>8, Zenon

\* So does a step of another phone, and a user at a player: they may only take a
\* player away from those paused on p's behalf.
LEMMA OthersStep ==
    ASSUME PmTypes, NEW p \in PmPhones, PmPhoneInv(p),
           \/ \E q \in PmPhones \ {p} :
                 \/ PmRing(q) \/ PmHangUp(q, "bool") \/ PmHangUp(q, "string")
                 \/ PmReceive(q) \/ PmCallLock(q) \/ PmRecord(q) \/ PmCancelLock(q) \/ PmResumed(q)
                 \/ PmDisconnected(q)
                 \/ \E x \in PmPlayers : PmPauseOne(q, x) \/ PmPlayOne(q, x)
           \/ \E x \in PmPlayers : PmUser(x)
           \/ UNCHANGED pmVars
    PROVE  PmPhoneInv(p)'
<1>1. SUFFICES /\ (p \in pmInCall) = (p \in pmInCall') /\ pmQueue'[p] = pmQueue[p] /\ pmPc'[p] = pmPc[p]
               /\ pmLeft'[p] = pmLeft[p] /\ pmActed'[p] = pmActed[p] /\ pmPaused'[p] = pmPaused[p]
               /\ \A x \in PmPlayers : pmBy'[x] = p => pmBy[x] = p
  BY ZenonT(30) DEF PmPhoneInv, PmIsCancel
<1>2. ASSUME NEW q \in PmPhones \ {p},
             PmRing(q) \/ PmHangUp(q, "bool") \/ PmHangUp(q, "string") \/ PmReceive(q)
      PROVE  <1>1!1
  <2>1. CASE PmRing(q)
    BY <2>1, SMTT(30) DEF PmTypes, PmRing, pmHandler
  <2>2. CASE PmHangUp(q, "bool") \/ PmHangUp(q, "string")
    BY <2>2, SMTT(30) DEF PmTypes, PmHangUp, pmHandler
  <2>3. CASE PmReceive(q)
    BY <2>3, Zenon DEF PmTypes, PmReceive, pmHandler
  <2> QED BY <1>2, <2>1, <2>2, <2>3, Zenon
<1>3. ASSUME NEW q \in PmPhones \ {p},
             PmCallLock(q) \/ PmRecord(q) \/ PmCancelLock(q) \/ PmResumed(q)
      PROVE  <1>1!1
  BY <1>3, Zenon DEF PmTypes, PmCallLock, PmRecord, PmCancelLock, PmResumed, pmCalls
<1>4. ASSUME NEW q \in PmPhones \ {p}, PmDisconnected(q)
      PROVE  <1>1!1
  BY <1>4, PmAssumption DEF PmTypes, PmDisconnected, pmHandler
<1>5. ASSUME NEW q \in PmPhones \ {p}, NEW x \in PmPlayers, PmPauseOne(q, x) \/ PmPlayOne(q, x)
      PROVE  <1>1!1
  BY <1>5, PmAssumption, SMTT(30) DEF PmTypes, PmPauseOne, PmPlayOne, pmCalls
<1>6. ASSUME NEW x \in PmPlayers, PmUser(x)
      PROVE  <1>1!1
  BY <1>6, PmAssumption, Zenon DEF PmTypes, PmUser, pmHandler
<1>7. CASE UNCHANGED pmVars
  BY <1>7, Zenon DEF pmVars
<1> QED BY <1>2, <1>3, <1>4, <1>5, <1>6, <1>7, ZenonT(30)

\* Every step keeps the invariant.
LEMMA CallStep ==
    ASSUME CallInv, [PmNext]_pmVars
    PROVE  CallInv'
<1>1. PmTypes'
  BY PmTypesStep, Zenon DEF CallInv
<1>2. pmSkewed \subseteq pmSkewed'
  BY Zenon DEF PmNext, pmVars, PmRing, PmHangUp, PmReceive, PmCallLock, PmRecord, PmCancelLock, PmResumed,
         PmDisconnected, PmPauseOne, PmPlayOne, PmUser
<1>3. ASSUME NEW p \in PmPhones \ pmSkewed'
      PROVE  PmPhoneInv(p)'
  <2>1. PmTypes /\ p \in PmPhones /\ p \notin pmSkewed' /\ PmPhoneInv(p)
    BY <1>2, <1>3, Zenon DEF CallInv
  <2> QED BY <2>1, OwnStep, OthersStep, Zenon DEF PmNext
<1> QED BY <1>1, <1>3, Zenon DEF CallInv

\* The end of a call plays what the call paused (pausemusic.rs): for any number of
\* phones, players, calls and users.
THEOREM CallsEndResumed == PmSpec => []CallEndResumes
<1>1. PmInit => CallInv
  BY PmAssumption, SMTT(30) DEF PmInit, CallInv, PmTypes, PmPhoneInv
<1>2. CallInv => CallEndResumes
  BY Zenon DEF CallInv, PmPhoneInv, CallEndResumes
<1> QED BY <1>1, <1>2, CallStep, PTL DEF PmSpec

-----------------------------------------------------------------------------
(* The alarm.                                                              *)

\* The mutes by the position of the ring task, when nobody interfered: they are the
\* user's, except that between unmute and restore the default sink may be unmuted.
MuteInv ==
    /\ alPc # "idle" => alRinging
    /\ ~alTouched =>
          /\ alPc \in {"idle", "player", "file", "query", "unmute", "drop"} => alMuted = alWish
          /\ alPc = "unmute" => alWas = "yes" /\ alDefault \in alWish
          /\ alPc \in {"play", "restore"} =>
                IF alWas = "yes" THEN alDefault \in alWish /\ alMuted \in {alWish, alWish \ {alDefault}}
                                 ELSE alMuted = alWish

\* ring leaves the mutes as the user set them, for any number of sinks, rings and
\* failures of pactl's query and unmute.
THEOREM MuteRestored == AlSpec => []AlarmRestoresMute
<1>1. AlInit => MuteInv
  BY Zenon DEF AlInit, MuteInv
<1>2. MuteInv /\ [AlNext]_alVars => MuteInv'
  <2> SUFFICES ASSUME MuteInv, [AlNext]_alVars
               PROVE  MuteInv'
    BY Zenon
  <2>1. CASE AlRequest
    BY <2>1, Zenon DEF AlRequest, MuteInv
  <2>2. CASE AlPlayer
    BY <2>2 DEF AlPlayer, AlGoto, MuteInv
  <2>3. CASE AlFileReady
    BY <2>3, Zenon DEF AlFileReady, AlGoto, MuteInv
  <2>4. CASE AlQuery
    BY <2>4, Zenon DEF AlQuery, AlGoto, MuteInv
  <2>5. CASE AlUnmute
    BY <2>5, Zenon DEF AlUnmute, AlGoto, MuteInv
  <2>6. CASE AlPlayed
    BY <2>6, Zenon DEF AlPlayed, AlGoto, MuteInv
  <2>7. CASE AlRestore
    BY <2>7, Zenon DEF AlRestore, AlGoto, MuteInv
  <2>8. CASE AlDrop
    BY <2>8, Zenon DEF AlDrop, MuteInv
  <2>9. CASE AlUserMutes
    <3>1. /\ alPc' = alPc /\ alRinging' = alRinging
          /\ ~alTouched' => ~alTouched /\ alPc = "idle"
      BY <2>9, Zenon DEF AlUserMutes
    <3>2. alMuted = alWish => alMuted' = alWish'
      BY <2>9, Zenon DEF AlUserMutes
    <3> QED
      BY <3>1, <3>2, Zenon DEF MuteInv
  <2>10. CASE AlUserSwitches
    <3>1. /\ alPc' = alPc /\ alRinging' = alRinging
          /\ ~alTouched' => ~alTouched /\ alPc = "idle"
      BY <2>10, Zenon DEF AlUserSwitches
    <3>2. alMuted = alWish => alMuted' = alWish'
      BY <2>10, ZenonT(30) DEF AlUserSwitches
    <3> QED
      BY <3>1, <3>2, Zenon DEF MuteInv
  <2>11. CASE UNCHANGED alVars
    BY <2>11, Zenon DEF alVars, MuteInv
  <2> QED
    BY <2>1, <2>2, <2>3, <2>4, <2>5, <2>6, <2>7, <2>8, <2>9, <2>10, <2>11, Zenon DEF AlNext
<1>3. MuteInv => AlarmRestoresMute
  BY Zenon DEF MuteInv, AlarmRestoresMute
<1> QED
  BY <1>1, <1>2, <1>3, PTL DEF AlSpec

-----------------------------------------------------------------------------
(* The laser pointer (plugins/presenter.rs).                               *)

\* The counters are integers, and what was sent with what is left over is what was
\* asked for.
PaceInv ==
    /\ tbRest \in [TbAxes -> Int] /\ tbSent \in [TbAxes -> Int] /\ tbAsked \in [TbAxes -> Int]
    /\ PointerKeepsPace

\* f64::round is never off by more than half a pixel, which is five tenths.
LEMMA RoundNear ==
    ASSUME NEW v \in Int
    PROVE  TbRound(v) \in Int /\ v - 10 * TbRound(v) \in -5..5
<1>1. CASE v >= 0
  <2>1. PICK q \in Int : q = (v + 5) \div 10
    OBVIOUS
  <2>2. 10 * q <= v + 5 /\ v + 5 < 10 * q + 10
    BY <2>1
  <2> QED BY <1>1, <2>1, <2>2 DEF TbRound
<1>2. CASE v < 0
  <2>1. PICK q \in Int : q = (5 - v) \div 10
    OBVIOUS
  <2>2. 10 * q <= 5 - v /\ 5 - v < 10 * q + 10
    BY <2>1
  <2> QED BY <1>2, <2>1, <2>2 DEF TbRound
<1> QED BY <1>1, <1>2

\* What one packet injects is a number of pixels.
LEMMA WholeIsInt ==
    ASSUME NEW v \in Int
    PROVE  TbWhole(v) \in Int
  BY RoundNear, TbAssumption DEF TbWhole, TbClamp

\* A delta that an event can hold with a pixel to spare is not cut, whatever was left
\* over before it.
LEMMA RestStaysSmall ==
    ASSUME NEW d \in Int, NEW r \in -5..5, TbRound(d) \in (1 - TbMaxPixels)..(TbMaxPixels - 1)
    PROVE  (d + r) - 10 * TbWhole(d + r) \in -5..5
<1>1. TbMaxPixels \in Nat
  BY TbAssumption, Zenon
<1>2. d + r \in Int
  OBVIOUS
<1>3. d - 10 * TbRound(d) \in -5..5 /\ (d + r) - 10 * TbRound(d + r) \in -5..5 /\ TbRound(d + r) \in Int
  BY <1>2, RoundNear, Zenon
<1>4. TbRound(d + r) \in (-TbMaxPixels)..TbMaxPixels
  BY <1>1, <1>2, <1>3
<1>5. TbWhole(d + r) = TbRound(d + r)
  BY <1>1, <1>4 DEF TbWhole, TbClamp
<1> QED BY <1>3, <1>5, Zenon

\* Nothing has been asked for at first, nor after a stop.
LEMMA PaceAtZero ==
    ASSUME tbRest' = TbZero, tbSent' = TbZero, tbAsked' = TbZero
    PROVE  PaceInv'
  BY DEF PaceInv, PointerKeepsPace, TbZero

\* A packet of the presenter adds its delta to both sides.
LEMMA MoveKeepsPace ==
    ASSUME PaceInv, TbMove
    PROVE  PaceInv'
<1>1. PICK by \in [TbAxes -> TbDeltas] :
        /\ tbRest' = [a \in TbAxes |-> TbRemainder(by[a], TbWhole(by[a] + tbRest[a]), tbRest[a])]
        /\ tbSent' = [a \in TbAxes |-> tbSent[a] + TbWhole(by[a] + tbRest[a])]
        /\ tbAsked' = [a \in TbAxes |-> tbAsked[a] + by[a]]
  BY ZenonT(30) DEF TbMove
<1>2. ASSUME NEW a \in TbAxes
      PROVE  /\ tbRest'[a] \in Int /\ tbSent'[a] \in Int /\ tbAsked'[a] \in Int
             /\ 10 * tbSent'[a] + tbRest'[a] = tbAsked'[a]
             /\ (\A d \in TbDeltas : TbRound(d) \in (1 - TbMaxPixels)..(TbMaxPixels - 1))
                   => tbRest'[a] \in -5..5
  <2>1. PICK d \in TbDeltas, r \in Int, w \in Int : d = by[a] /\ r = tbRest[a] /\ d \in Int /\ w = TbWhole(d + r)
    <3>1. by[a] \in TbDeltas /\ by[a] \in Int /\ tbRest[a] \in Int
      BY TbAssumption, ZenonT(30) DEF PaceInv
    <3> QED BY <3>1, WholeIsInt
  <2>2. tbRest'[a] = (d + r) - 10 * w /\ tbSent'[a] = tbSent[a] + w /\ tbAsked'[a] = tbAsked[a] + d
    BY <1>1, <2>1, Zenon DEF TbRemainder
  <2>3. tbSent[a] \in Int /\ tbAsked[a] \in Int /\ 10 * tbSent[a] + r = tbAsked[a]
    BY <2>1, Zenon DEF PaceInv, PointerKeepsPace
  <2>4. ASSUME \A e \in TbDeltas : TbRound(e) \in (1 - TbMaxPixels)..(TbMaxPixels - 1)
        PROVE  tbRest'[a] \in -5..5
    <3>1. r \in -5..5
      BY <2>1, <2>4, Zenon DEF PaceInv, PointerKeepsPace
    <3>2. TbRound(d) \in (1 - TbMaxPixels)..(TbMaxPixels - 1)
      BY <2>4, Zenon
    <3> QED BY <2>1, <2>2, <3>1, <3>2, RestStaysSmall, Zenon
  <2> QED BY <2>1, <2>2, <2>3, <2>4
<1>3. tbRest' \in [TbAxes -> Int] /\ tbSent' \in [TbAxes -> Int] /\ tbAsked' \in [TbAxes -> Int]
  BY <1>1, <1>2, Zenon
<1> QED BY <1>2, <1>3, Zenon DEF PaceInv, PointerKeepsPace

\* The fractions of a pixel that a presenter's packets ask for are carried over: what
\* was injected is never off by more than half a pixel.
THEOREM PaceIsKept == TbSpec => []PointerKeepsPace
<1>1. TbInit => PaceInv
  BY DEF TbInit, PaceInv, PointerKeepsPace, TbZero
<1>2. PaceInv /\ [TbNext]_tbVars => PaceInv'
  <2> SUFFICES ASSUME PaceInv, [TbNext]_tbVars PROVE PaceInv'
    BY Zenon
  <2>1. CASE UNCHANGED <<tbRest, tbSent, tbAsked>>
    BY <2>1, Zenon DEF PaceInv, PointerKeepsPace
  <2>2. CASE TbMove
    BY <2>2, MoveKeepsPace, Zenon
  <2>3. CASE TbStop
    BY <2>3, PaceAtZero, Zenon DEF TbStop
  <2> QED BY <2>1, <2>2, <2>3, Zenon DEF TbNext, TbStart, TbStartFails, TbEnd, TbDraw, TbMoveNan, tbVars
<1>3. PaceInv => PointerKeepsPace
  BY Zenon DEF PaceInv
<1> QED BY <1>1, <1>2, <1>3, PTL DEF TbSpec

-----------------------------------------------------------------------------
(* The popups of a phone's notifications (plugins/notification.rs).        *)

NtSigs == NtContents \cup {NtNone}

NtServerIds == NtRids \cup {0}
NtPcs == {"idle", "icon", "cancel", "track", "show", "tell"}
NtActs == {"none", "cancel", "suppress", "replace", "post"}
NtOptIds == NtIds \cup {NtNone}
NtOptIcons == NtHashes \cup {NtNone}
NtJobs == [pc : NtPcs, id : NtOptIds, sig : NtSigs, icon : NtOptIcons, act : NtActs, rid : NtServerIds]

NtShapes ==
    /\ ntDedupe \in [NtIds -> [sig : NtSigs, rid : NtServerIds]]
    /\ ntShadow \in [NtIds -> [sig : NtSigs, rid : NtServerIds, fresh : BOOLEAN]]
    /\ ntMoved \in [on : BOOLEAN, entries : [NtIds -> [sig : NtSigs, rid : NtServerIds]]]
    /\ ntPopups \in [NtRids -> [sig : NtSigs, rid : NtServerIds]]
    /\ ntJob \in NtJobs
    /\ ntCut \in BOOLEAN

\* The server ids the three tables have for a notification.
NtNamed(i) == {ntDedupe[i].rid, ntShadow[i].rid, ntMoved.entries[i].rid}

\* An entry that is not there has no server id, and there is none in the hands of
\* on_disconnected unless it runs.
NtBlank ==
    \A i \in NtIds :
        /\ ntDedupe[i].sig = NtNone => ntDedupe[i].rid = 0
        /\ ntMoved.entries[i].sig = NtNone => ntMoved.entries[i].rid = 0
        /\ ~ntMoved.on => ntMoved.entries[i].sig = NtNone

\* No server id belongs to two notifications.
NtApart ==
    \A i, j \in NtIds : i # j => \A r \in NtNamed(i) \cap NtNamed(j) : r = 0

\* The popups that are shown and not given up.
NtShown == {r \in NtRids : r \notin ntLoose /\ ntPopups[r] # NtEmpty}

\* They are in a table, and in the shadow only while that is in time.
NtReached ==
    \A r \in NtShown :
        \E i \in NtIds : \/ r = ntDedupe[i].rid \/ r = ntMoved.entries[i].rid
                         \/ ntShadow[i].fresh /\ r = ntShadow[i].rid

\* What the next disconnect will overwrite is not all that leads to a popup: a
\* live entry has the server id that on_disconnected collected before it, and one
\* of the two has that of the shadow.
NtCovered ==
    \A i \in NtIds :
        /\ ntMoved.entries[i].rid \in NtShown /\ ntDedupe[i].sig # NtNone
             => ntDedupe[i].rid = ntMoved.entries[i].rid
        /\ (/\ ntShadow[i].fresh /\ ntShadow[i].rid \in NtShown
            /\ ntDedupe[i].sig # NtNone \/ ntMoved.entries[i].sig # NtNone)
             => ntShadow[i].rid \in {ntDedupe[i].rid, ntMoved.entries[i].rid}

\* The packet handler between dedupe_track and dedupe_record_shown: its entry is as
\* it left it, or gone.
NtShowing ==
    /\ ntJob.pc \in {"track", "show"} => ntJob.sig # NtNone
    /\ ntJob.pc = "cancel" => ntJob.id # NtNone
    /\ ntJob.pc = "icon" => ntJob.sig # NtNone /\ (ntJob.act = "cancel" => ntJob.id # NtNone)
    /\ ntJob.pc = "show" /\ ntJob.id = NtNone => ntJob.rid = 0
    /\ ntJob.pc = "show" /\ ntJob.id # NtNone =>
          IF ntCut THEN ntDedupe[ntJob.id].sig = NtNone
          ELSE ntDedupe[ntJob.id].sig # NtNone /\ ntDedupe[ntJob.id].rid = ntJob.rid

NtInv == NtShapes /\ NtBlank /\ NtApart /\ NtReached /\ NtCovered /\ NtShowing

\* No entry: no content, no server id.
LEMMA NtEmptyFields ==
    /\ NtEmpty \in [sig : NtSigs, rid : NtServerIds] /\ NtEmpty.sig = NtNone /\ NtEmpty.rid = 0
    /\ NtGhost \in [sig : NtSigs, rid : NtServerIds, fresh : BOOLEAN]
    /\ NtGhost.rid = 0 /\ ~NtGhost.fresh
    /\ 0 \notin NtShown
BY SMTT(30) DEF NtEmpty, NtGhost, NtSigs, NtServerIds, NtShown, NtRids

\* What the invariant says of the tables holds as long as they stay.
LEMMA NtTablesStay ==
    ASSUME NtInv, UNCHANGED <<ntDedupe, ntShadow, ntMoved, ntPopups, ntLoose>>
    PROVE  NtBlank' /\ NtApart' /\ NtReached' /\ NtCovered'
<1>1. NtBlank' /\ NtApart'
  BY Zenon DEF NtInv, NtBlank, NtApart, NtNamed
<1>2. NtReached'
  <2>1. NtReached /\ NtShown' = NtShown
    BY Zenon DEF NtInv, NtShown
  <2> QED BY <2>1, Zenon DEF NtReached
<1>3. NtCovered'
  BY Zenon DEF NtInv, NtCovered, NtShown
<1> QED BY <1>1, <1>2, <1>3, Zenon

\* Without a new server id in a table the notifications' ids stay apart.
LEMMA NtNoNewId ==
    ASSUME NtInv, \A i \in NtIds : NtNamed(i)' \subseteq NtNamed(i) \cup {0}
    PROVE  NtApart'
<1> SUFFICES ASSUME NEW i \in NtIds, NEW j \in NtIds, i # j,
                    NEW r, r \in NtNamed(i)', r \in NtNamed(j)', r # 0
             PROVE  FALSE
  BY Zenon DEF NtApart
<1>1. r \in NtNamed(i) /\ r \in NtNamed(j)
  BY Zenon
<1> QED BY <1>1, Zenon DEF NtInv, NtApart

\* A packet arrives (handle_packet).
LEMMA NtReceiveStep ==
    ASSUME NtInv, NEW i \in NtIds \cup {NtNone}, NEW c \in NtContents,
           NEW icon \in NtHashes \cup {NtNone}, NEW cancel \in BOOLEAN, cancel => i # NtNone,
           NtReceive(i, c, icon, cancel)
    PROVE  NtInv'
<1>1. NtBlank' /\ NtApart' /\ NtReached' /\ NtCovered'
  BY NtTablesStay, Zenon DEF NtReceive
<1>2. PICK a \in {"none", "cancel"} :
         /\ a = "cancel" => cancel
         /\ ntJob' = [NtIdle EXCEPT !.pc = "icon", !.id = i, !.sig = c, !.icon = icon, !.act = a]
  <2>1. CASE cancel
    BY <2>1, Zenon DEF NtReceive
  <2>2. CASE ~cancel
    BY <2>2, Zenon DEF NtReceive
  <2> QED BY <2>1, <2>2, Zenon
<1>3. NtShapes' /\ ntJob'.pc = "icon" /\ ntJob'.sig = c /\ ntJob'.id = i /\ ntJob'.act = a
  <2>1. /\ ntJob' \in NtJobs
        /\ ntJob'.pc = "icon" /\ ntJob'.sig = c /\ ntJob'.id = i /\ ntJob'.act = a
    <3>1. /\ NtIdle \in NtJobs /\ "icon" \in NtPcs /\ a \in NtActs
          /\ i \in NtOptIds /\ c \in NtSigs /\ icon \in NtOptIcons
      <4>1. NtIdle \in NtJobs
        BY Zenon DEF NtIdle, NtServerIds, NtJobs, NtSigs, NtPcs, NtActs, NtOptIds, NtOptIcons
      <4> QED BY <4>1, <1>2, Zenon DEF NtSigs, NtPcs, NtActs, NtOptIds, NtOptIcons
    <3> QED BY <1>2, <3>1, Zenon DEF NtJobs
  <2> QED BY <2>1, Zenon DEF NtReceive, NtInv, NtShapes
<1>4. NtShowing'
  BY <1>2, <1>3, NtAssumption, Zenon DEF NtShowing
<1> QED BY <1>1, <1>3, <1>4, Zenon DEF NtInv

\* Its icon is received, or not (receive_icon).
LEMMA NtIconStep ==
    ASSUME NtInv, NEW ok \in BOOLEAN, NtIcon(ok)
    PROVE  NtInv'
<1>1. NtBlank' /\ NtApart' /\ NtReached' /\ NtCovered'
  BY NtTablesStay, Zenon DEF NtIcon
<1>2. PICK pc \in {"cancel", "track"}, icon \in NtHashes \cup {NtNone} :
         /\ pc = "cancel" <=> ntJob.act = "cancel"
         /\ ntJob' = [ntJob EXCEPT !.pc = pc, !.icon = icon]
  <2> DEFINE pc == IF ntJob.act = "cancel" THEN "cancel" ELSE "track"
             icon == IF ntJob.icon # NtNone /\ ((\E k \in DOMAIN ntIcons : ntIcons[k] = ntJob.icon) \/ ok)
                     THEN ntJob.icon ELSE NtNone
  <2>1. icon \in NtHashes \cup {NtNone} /\ pc \in {"cancel", "track"}
    <3>1. ntJob.icon \in NtOptIcons
      BY Zenon DEF NtInv, NtShapes, NtJobs
    <3> QED BY <3>1, Zenon DEF NtOptIcons
  <2>2. ntJob' = [ntJob EXCEPT !.pc = pc, !.icon = icon]
    BY Zenon DEF NtIcon
  <2>3. pc = "cancel" <=> ntJob.act = "cancel"
    BY Zenon
  <2> HIDE DEF pc, icon
  <2> QED BY <2>1, <2>2, <2>3, Zenon
<1>3. /\ ntJob.pc = "icon" /\ ntJob'.pc = pc
      /\ ntJob'.id = ntJob.id /\ ntJob'.sig = ntJob.sig
  BY <1>2, Zenon DEF NtIcon, NtInv, NtShapes, NtJobs
<1>4. NtShapes'
  <2>1. ntJob' \in NtJobs
    <3>1. pc \in NtPcs /\ icon \in NtOptIcons
      BY <1>2, Zenon DEF NtPcs, NtOptIcons
    <3> QED BY <1>2, <3>1, Zenon DEF NtInv, NtShapes, NtJobs
  <2> QED BY <2>1, Zenon DEF NtIcon, NtInv, NtShapes
<1>5. NtShowing'
  BY <1>2, <1>3, Zenon DEF NtInv, NtShowing
<1> QED BY <1>1, <1>4, <1>5, Zenon DEF NtInv

\* A popup that could not be shown leaves the tables (show_async).
LEMMA NtShowFailsStep ==
    ASSUME NtInv, NtShowFails
    PROVE  NtInv'
<1>1. NtBlank' /\ NtApart' /\ NtReached' /\ NtCovered'
  BY NtTablesStay, Zenon DEF NtShowFails
<1>2. ntJob'.pc = "tell" /\ NtShapes'
  <2>1. ntJob'.pc = "tell" /\ ntJob' \in NtJobs
    <3>1. "tell" \in NtPcs
      BY Zenon DEF NtPcs
    <3> QED BY <3>1, Zenon DEF NtShowFails, NtInv, NtShapes, NtJobs
  <2> QED BY <2>1, Zenon DEF NtShowFails, NtInv, NtShapes
<1>3. NtShowing'
  BY <1>2, Zenon DEF NtShowing
<1> QED BY <1>1, <1>2, <1>3, Zenon DEF NtInv

\* A step that only takes entries out of the tables, and gives up or takes down the
\* popups they led to.
LEMMA NtTakesOut ==
    ASSUME NtInv, ntMoved' = ntMoved, NtShown' \subseteq NtShown,
           \A i \in NtIds :
               /\ \/ ntDedupe'[i] = ntDedupe[i]
                  \/ ntDedupe'[i] = NtEmpty /\ ntDedupe[i].rid \notin NtShown'
               /\ \/ ntShadow'[i] = ntShadow[i]
                  \/ /\ ~ntShadow'[i].fresh /\ ntShadow'[i].rid \in {ntShadow[i].rid, 0}
                     /\ ~ntShadow[i].fresh \/ ntShadow[i].rid \notin NtShown'
    PROVE  /\ NtBlank' /\ NtReached' /\ NtCovered'
           /\ \A i \in NtIds : NtNamed(i)' \subseteq NtNamed(i) \cup {0}
<1>0. NtEmpty.sig = NtNone /\ NtEmpty.rid = 0
  BY NtEmptyFields, Zenon
<1>1. NtBlank'
  <2>1. ASSUME NEW i \in NtIds
        PROVE  ntDedupe'[i].sig = NtNone => ntDedupe'[i].rid = 0
    <3>1. ntDedupe[i].sig = NtNone => ntDedupe[i].rid = 0
      BY <2>1, Zenon DEF NtInv, NtBlank
    <3>2. ntDedupe'[i] = ntDedupe[i] \/ ntDedupe'[i] = NtEmpty
      BY <2>1, Zenon
    <3> QED BY <1>0, <3>1, <3>2, Zenon
  <2> QED BY <2>1, Zenon DEF NtInv, NtBlank
<1>2. ASSUME NEW r \in NtShown'
      PROVE  \E i \in NtIds : \/ r = ntDedupe'[i].rid \/ r = ntMoved'.entries[i].rid
                              \/ ntShadow'[i].fresh /\ r = ntShadow'[i].rid
  <2>1. PICK i \in NtIds : \/ r = ntDedupe[i].rid \/ r = ntMoved.entries[i].rid
                           \/ ntShadow[i].fresh /\ r = ntShadow[i].rid
    BY <1>2, Zenon DEF NtInv, NtReached
  <2>2. CASE r = ntDedupe[i].rid
    <3>1. ntDedupe'[i] = ntDedupe[i]
      BY <1>2, <2>2, Zenon
    <3> QED BY <2>2, <3>1, Zenon
  <2>3. CASE r = ntMoved.entries[i].rid
    BY <2>3, Zenon
  <2>4. CASE ntShadow[i].fresh /\ r = ntShadow[i].rid
    <3>1. ntShadow'[i] = ntShadow[i]
      BY <1>2, <2>4, Zenon
    <3> QED BY <2>4, <3>1, Zenon
  <2> QED BY <2>1, <2>2, <2>3, <2>4, Zenon
<1>3. ASSUME NEW i \in NtIds, ntMoved'.entries[i].rid \in NtShown', ntDedupe'[i].sig # NtNone
      PROVE  ntDedupe'[i].rid = ntMoved'.entries[i].rid
  <2>1. ntDedupe'[i] = ntDedupe[i] /\ ntMoved.entries[i].rid \in NtShown
    BY <1>0, <1>3, Zenon
  <2> QED BY <1>3, <2>1, Zenon DEF NtInv, NtCovered
<1>4. ASSUME NEW i \in NtIds, ntShadow'[i].fresh, ntShadow'[i].rid \in NtShown',
             ntDedupe'[i].sig # NtNone \/ ntMoved'.entries[i].sig # NtNone
      PROVE  ntShadow'[i].rid \in {ntDedupe'[i].rid, ntMoved'.entries[i].rid}
  <2>1. ntShadow'[i] = ntShadow[i]
    BY <1>4, Zenon
  <2>2. ntDedupe[i].sig # NtNone \/ ntMoved.entries[i].sig # NtNone
    BY <1>0, <1>4, Zenon
  <2>3. ntShadow[i].rid \in NtShown /\ ntShadow[i].fresh
    BY <1>4, <2>1, Zenon
  <2>4. ntShadow[i].rid \in {ntDedupe[i].rid, ntMoved.entries[i].rid}
    BY <2>2, <2>3, Zenon DEF NtInv, NtCovered
  <2>5. CASE ntShadow[i].rid = ntDedupe[i].rid
    <3>1. ntDedupe'[i] = ntDedupe[i]
      BY <1>4, <2>1, <2>5, Zenon
    <3> QED BY <2>1, <2>5, <3>1, Zenon
  <2> QED BY <2>1, <2>4, <2>5, Zenon
<1>5. ASSUME NEW i \in NtIds PROVE NtNamed(i)' \subseteq NtNamed(i) \cup {0}
  <2>1. ntDedupe'[i].rid \in NtNamed(i) \cup {0}
    <3>1. ntDedupe'[i] = ntDedupe[i] \/ ntDedupe'[i] = NtEmpty
      BY <1>5, Zenon
    <3> QED BY <1>0, <3>1, Zenon DEF NtNamed
  <2>2. ntShadow'[i].rid \in NtNamed(i) \cup {0}
    <3>1. ntShadow'[i] = ntShadow[i] \/ ntShadow'[i].rid \in {ntShadow[i].rid, 0}
      BY <1>5, Zenon
    <3> QED BY <3>1, Zenon DEF NtNamed
  <2>3. ntMoved'.entries[i].rid \in NtNamed(i)
    BY Zenon DEF NtNamed
  <2> QED BY <2>1, <2>2, <2>3, Zenon DEF NtNamed
<1> QED BY <1>1, <1>2, <1>3, <1>4, <1>5, Zenon DEF NtReached, NtCovered

\* The packet handler at rest.
LEMMA NtIdleFields ==
    NtIdle \in NtJobs /\ NtIdle.pc = "idle"
BY Zenon DEF NtIdle, NtServerIds, NtJobs, NtSigs, NtPcs, NtActs, NtOptIds, NtOptIcons

\* A handler that ends leaves nothing half done.
LEMMA NtEnds ==
    ASSUME NtInv, ntJob' = NtIdle
    PROVE  NtShowing' /\ ntJob' \in NtJobs
<1>1. ntJob'.pc = "idle" /\ ntJob' \in NtJobs
  BY NtIdleFields, Zenon
<1>2. NtShowing'
  BY <1>1, Zenon DEF NtShowing
<1> QED BY <1>1, <1>2, Zenon

\* cancel: the live popup is taken down, the shadow's given up.
LEMMA NtCancelStep ==
    ASSUME NtInv, NtCancel
    PROVE  NtInv'
<1> DEFINE i == ntJob.id  rid == ntDedupe[i].rid
<1>1. i \in NtIds
  <2>1. i \in NtOptIds
    BY Zenon DEF NtInv, NtShapes, NtJobs
  <2>2. i # NtNone
    BY Zenon DEF NtCancel, NtInv, NtShowing
  <2> QED BY <2>1, <2>2, Zenon DEF NtOptIds
<1>2. /\ ntDedupe' = [ntDedupe EXCEPT ![i] = NtEmpty] /\ ntShadow' = [ntShadow EXCEPT ![i] = NtGhost]
      /\ ntPopups' = IF rid = 0 THEN ntPopups ELSE [ntPopups EXCEPT ![rid] = NtEmpty]
      /\ ntLoose' = ntLoose \cup ({ntShadow[i].rid} \ {0, rid})
      /\ ntMoved' = ntMoved /\ ntJob' = NtIdle /\ ntCut' = ntCut
  BY Zenon DEF NtCancel, NtForget
<1>3. /\ ntDedupe \in [NtIds -> [sig : NtSigs, rid : NtServerIds]]
      /\ ntShadow \in [NtIds -> [sig : NtSigs, rid : NtServerIds, fresh : BOOLEAN]]
      /\ ntPopups \in [NtRids -> [sig : NtSigs, rid : NtServerIds]]
  BY Zenon DEF NtInv, NtShapes
<1> HIDE DEF i, rid
<1>4. \A r \in NtRids : ntPopups'[r] # NtEmpty => ntPopups[r] # NtEmpty /\ r # rid
  <2> SUFFICES ASSUME NEW r \in NtRids, ntPopups'[r] # NtEmpty
               PROVE  ntPopups[r] # NtEmpty /\ r # rid
    BY Zenon
  <2>1. CASE rid = 0
    <3>1. r # 0
      BY SMTT(30) DEF NtRids
    <3> QED BY <1>2, <2>1, <3>1, Zenon
  <2>2. CASE rid # 0
    BY <1>2, <1>3, <2>2, Zenon
  <2> QED BY <2>1, <2>2, Zenon
<1>5. NtShown' \subseteq NtShown /\ rid \notin NtShown' /\ ntShadow[i].rid \notin NtShown'
  <2>1. NtShown' \subseteq NtShown /\ rid \notin NtShown'
    BY <1>2, <1>4, Zenon DEF NtShown
  <2>2. 0 \notin NtShown'
    BY SMTT(30) DEF NtShown, NtRids
  <2> QED BY <1>2, <2>1, <2>2, Zenon DEF NtShown
<1>6. ASSUME NEW j \in NtIds
      PROVE  /\ \/ ntDedupe'[j] = ntDedupe[j]
                \/ ntDedupe'[j] = NtEmpty /\ ntDedupe[j].rid \notin NtShown'
             /\ \/ ntShadow'[j] = ntShadow[j]
                \/ /\ ~ntShadow'[j].fresh /\ ntShadow'[j].rid \in {ntShadow[j].rid, 0}
                   /\ ~ntShadow[j].fresh \/ ntShadow[j].rid \notin NtShown'
  <2>1. CASE j = i
    <3>1. ntDedupe'[j] = NtEmpty /\ ntShadow'[j] = NtGhost
      BY <1>1, <1>2, <1>3, <2>1, Zenon
    <3>2. ntDedupe[j].rid \notin NtShown' /\ ntShadow[j].rid \notin NtShown'
      BY <1>5, <2>1, Zenon DEF rid
    <3> QED BY <3>1, <3>2, NtEmptyFields, Zenon
  <2>2. CASE j # i
    BY <1>2, <1>3, <2>2, Zenon
  <2> QED BY <2>1, <2>2, Zenon
<1>7. NtBlank' /\ NtReached' /\ NtCovered' /\ \A j \in NtIds : NtNamed(j)' \subseteq NtNamed(j) \cup {0}
  BY <1>2, <1>5, <1>6, NtTakesOut, Zenon
<1>8. /\ NtShowing' /\ ntJob' \in NtJobs
  BY <1>2, NtEnds, Zenon
<1>9. NtApart'
  BY <1>7, NtNoNewId, Zenon
<1>10. NtShapes'
  <2>1. ntPopups' \in [NtRids -> [sig : NtSigs, rid : NtServerIds]]
    BY <1>2, <1>3, NtEmptyFields, Zenon
  <2>2. /\ ntDedupe' \in [NtIds -> [sig : NtSigs, rid : NtServerIds]]
        /\ ntShadow' \in [NtIds -> [sig : NtSigs, rid : NtServerIds, fresh : BOOLEAN]]
    BY <1>2, <1>3, NtEmptyFields, Zenon
  <2> QED BY <1>2, <1>8, <2>1, <2>2, Zenon DEF NtInv, NtShapes
<1> QED BY <1>7, <1>8, <1>9, <1>10, Zenon DEF NtInv

\* The steps that leave the handler where it is: the bound on the ids stays, and
\* what the handler is showing, if its entry does or the cut is noted.
LEMMA NtHandlerStays ==
    ASSUME NtInv, ntJob' = ntJob,
           ntJob.pc = "show" /\ ntJob.id # NtNone =>
               \/ ntCut' = ntCut /\ ntDedupe'[ntJob.id] = ntDedupe[ntJob.id]
               \/ ntCut' = TRUE /\ ntDedupe'[ntJob.id] = NtEmpty
    PROVE  NtShowing'
<1>3. ASSUME ntJob'.pc = "show", ntJob'.id # NtNone
      PROVE  IF ntCut' THEN ntDedupe'[ntJob'.id].sig = NtNone
             ELSE ntDedupe'[ntJob'.id].sig # NtNone /\ ntDedupe'[ntJob'.id].rid = ntJob'.rid
  <2>1. IF ntCut THEN ntDedupe[ntJob.id].sig = NtNone
        ELSE ntDedupe[ntJob.id].sig # NtNone /\ ntDedupe[ntJob.id].rid = ntJob.rid
    BY <1>3, Zenon DEF NtInv, NtShowing
  <2>2. CASE ntCut' = ntCut /\ ntDedupe'[ntJob.id] = ntDedupe[ntJob.id]
    BY <2>1, <2>2, Zenon
  <2>3. CASE ntCut' = TRUE /\ ntDedupe'[ntJob.id] = NtEmpty
    BY <2>3, NtEmptyFields, Zenon
  <2> QED BY <1>3, <2>2, <2>3, Zenon
<1> QED BY <1>3, Zenon DEF NtInv, NtShowing

\* dismiss: both popups are given up.
LEMMA NtDismissStep ==
    ASSUME NtInv, NEW i \in NtIds, NtDismiss(i)
    PROVE  NtInv'
<1>2. /\ ntDedupe' = [ntDedupe EXCEPT ![i] = NtEmpty] /\ ntShadow' = [ntShadow EXCEPT ![i] = NtGhost]
      /\ ntCut' = (ntCut \/ (ntJob.pc = "show" /\ ntJob.id = i))
      /\ ntLoose' = ntLoose \cup ({ntDedupe[i].rid, ntShadow[i].rid} \ {0})
      /\ ntMoved' = ntMoved /\ ntJob' = ntJob /\ ntPopups' = ntPopups
  BY Zenon DEF NtDismiss, NtForget
<1>3. /\ ntDedupe \in [NtIds -> [sig : NtSigs, rid : NtServerIds]]
      /\ ntShadow \in [NtIds -> [sig : NtSigs, rid : NtServerIds, fresh : BOOLEAN]]
  BY Zenon DEF NtInv, NtShapes
<1>5. NtShown' \subseteq NtShown /\ ntDedupe[i].rid \notin NtShown' /\ ntShadow[i].rid \notin NtShown'
  <2>1. NtShown' \subseteq NtShown
    BY <1>2, Zenon DEF NtShown
  <2>2. 0 \notin NtShown'
    BY SMTT(30) DEF NtShown, NtRids
  <2> QED BY <1>2, <2>1, <2>2, Zenon DEF NtShown
<1>6. ASSUME NEW j \in NtIds
      PROVE  /\ \/ ntDedupe'[j] = ntDedupe[j]
                \/ ntDedupe'[j] = NtEmpty /\ ntDedupe[j].rid \notin NtShown'
             /\ \/ ntShadow'[j] = ntShadow[j]
                \/ /\ ~ntShadow'[j].fresh /\ ntShadow'[j].rid \in {ntShadow[j].rid, 0}
                   /\ ~ntShadow[j].fresh \/ ntShadow[j].rid \notin NtShown'
  <2>1. CASE j = i
    <3>1. ntDedupe'[j] = NtEmpty /\ ntShadow'[j] = NtGhost
      BY <1>2, <1>3, <2>1, Zenon
    <3> QED BY <1>5, <2>1, <3>1, NtEmptyFields, Zenon
  <2>2. CASE j # i
    BY <1>2, <1>3, <2>2, Zenon
  <2> QED BY <2>1, <2>2, Zenon
<1>7. NtBlank' /\ NtReached' /\ NtCovered' /\ \A j \in NtIds : NtNamed(j)' \subseteq NtNamed(j) \cup {0}
  BY <1>2, <1>5, <1>6, NtTakesOut, Zenon
<1>8. NtShowing'
  <2>1. ASSUME ntJob.pc = "show", ntJob.id # NtNone
        PROVE  \/ ntCut' = ntCut /\ ntDedupe'[ntJob.id] = ntDedupe[ntJob.id]
               \/ ntCut' = TRUE /\ ntDedupe'[ntJob.id] = NtEmpty
    <3>1. CASE ntJob.id = i
      BY <1>2, <1>3, <2>1, <3>1, Zenon
    <3>2. CASE ntJob.id # i
      <4>1. ntJob.id \in NtOptIds
        BY Zenon DEF NtInv, NtShapes, NtJobs
      <4>2. ntJob.id \in NtIds
        BY <2>1, <4>1, Zenon DEF NtOptIds
      <4>3. ntDedupe'[ntJob.id] = ntDedupe[ntJob.id]
        BY <1>2, <1>3, <3>2, <4>2, Zenon
      <4>4. ntCut' = ntCut
        BY <1>2, <3>2, Zenon DEF NtInv, NtShapes
      <4> QED BY <4>3, <4>4, Zenon
    <3> QED BY <3>1, <3>2, Zenon
  <2> QED BY <1>2, <2>1, NtHandlerStays, Zenon
<1>9. NtApart'
  BY <1>7, NtNoNewId, Zenon
<1>10. NtShapes'
  <2>2. /\ ntDedupe' \in [NtIds -> [sig : NtSigs, rid : NtServerIds]]
        /\ ntShadow' \in [NtIds -> [sig : NtSigs, rid : NtServerIds, fresh : BOOLEAN]]
    BY <1>2, <1>3, NtEmptyFields, Zenon
  <2> QED BY <1>2, <2>2, Zenon DEF NtInv, NtShapes
<1> QED BY <1>7, <1>8, <1>9, <1>10, Zenon DEF NtInv


\* A shadow entry out of time gives its popup up.
LEMMA NtAgeStep ==
    ASSUME NtInv, NEW i \in NtIds, NtAge(i)
    PROVE  NtInv'
<1>2. /\ ntShadow' = [ntShadow EXCEPT ![i].fresh = FALSE]
      /\ ntLoose' = ntLoose \cup ({ntShadow[i].rid} \ {0})
      /\ ntMoved' = ntMoved /\ ntJob' = ntJob /\ ntPopups' = ntPopups
      /\ ntDedupe' = ntDedupe /\ ntCut' = ntCut
  BY Zenon DEF NtAge
<1>3. ntShadow \in [NtIds -> [sig : NtSigs, rid : NtServerIds, fresh : BOOLEAN]]
  BY Zenon DEF NtInv, NtShapes
<1>4. /\ \A j \in NtIds : j # i => ntShadow'[j] = ntShadow[j]
      /\ ntShadow'[i].rid = ntShadow[i].rid /\ ~ntShadow'[i].fresh
      /\ ntShadow' \in [NtIds -> [sig : NtSigs, rid : NtServerIds, fresh : BOOLEAN]]
  <2> DEFINE e == [ntShadow[i] EXCEPT !.fresh = FALSE]
  <2>1. ntShadow' = [ntShadow EXCEPT ![i] = e]
    BY <1>2, Zenon
  <2>2. ntShadow[i] \in [sig : NtSigs, rid : NtServerIds, fresh : BOOLEAN]
    BY <1>3, Zenon
  <2>3. /\ e \in [sig : NtSigs, rid : NtServerIds, fresh : BOOLEAN]
        /\ e.rid = ntShadow[i].rid /\ e.fresh = FALSE
    BY <2>2, Zenon
  <2> HIDE DEF e
  <2> QED BY <1>3, <2>1, <2>3, Zenon
<1>5. NtShown' \subseteq NtShown /\ ntShadow[i].rid \notin NtShown'
  <2>1. NtShown' \subseteq NtShown
    BY <1>2, Zenon DEF NtShown
  <2>2. 0 \notin NtShown'
    BY SMTT(30) DEF NtShown, NtRids
  <2> QED BY <1>2, <2>1, <2>2, Zenon DEF NtShown
<1>6. \A j \in NtIds :
         /\ ntDedupe'[j] = ntDedupe[j]
         /\ \/ ntShadow'[j] = ntShadow[j]
            \/ /\ ~ntShadow'[j].fresh /\ ntShadow'[j].rid \in {ntShadow[j].rid, 0}
               /\ ~ntShadow[j].fresh \/ ntShadow[j].rid \notin NtShown'
  BY <1>2, <1>4, <1>5, Zenon
<1>7. NtBlank' /\ NtReached' /\ NtCovered' /\ \A j \in NtIds : NtNamed(j)' \subseteq NtNamed(j) \cup {0}
  BY <1>2, <1>5, <1>6, NtTakesOut, Zenon
<1>8. NtShowing'
  BY <1>2, NtHandlerStays, Zenon
<1>9. NtApart'
  BY <1>7, NtNoNewId, Zenon
<1>10. NtShapes'
  BY <1>2, <1>4, Zenon DEF NtInv, NtShapes
<1> QED BY <1>7, <1>8, <1>9, <1>10, Zenon DEF NtInv

\* The server takes a popup down.
LEMMA NtExpiresStep ==
    ASSUME NtInv, NEW r \in NtRids, NtExpires(r)
    PROVE  NtInv'
<1>2. /\ ntPopups' = [ntPopups EXCEPT ![r] = NtEmpty] /\ ntLoose' = ntLoose \ {r}
      /\ ntMoved' = ntMoved /\ ntJob' = ntJob /\ ntShadow' = ntShadow
      /\ ntDedupe' = ntDedupe /\ ntCut' = ntCut
  BY Zenon DEF NtExpires
<1>3. ntPopups \in [NtRids -> [sig : NtSigs, rid : NtServerIds]]
  BY Zenon DEF NtInv, NtShapes
<1>4. \A q \in NtRids : ntPopups'[q] # NtEmpty => ntPopups[q] # NtEmpty /\ q # r
  BY <1>2, <1>3, Zenon
<1>5. NtShown' \subseteq NtShown
  BY <1>2, <1>4, Zenon DEF NtShown
<1>7. NtBlank' /\ NtReached' /\ NtCovered' /\ \A j \in NtIds : NtNamed(j)' \subseteq NtNamed(j) \cup {0}
  BY <1>2, <1>5, NtTakesOut, Zenon
<1>8. NtShowing'
  BY <1>2, NtHandlerStays, Zenon
<1>9. NtApart'
  BY <1>7, NtNoNewId, Zenon
<1>10. NtShapes'
  <2>1. ntPopups' \in [NtRids -> [sig : NtSigs, rid : NtServerIds]]
    BY <1>2, <1>3, NtEmptyFields, Zenon
  <2> QED BY <1>2, <2>1, Zenon DEF NtInv, NtShapes
<1> QED BY <1>7, <1>8, <1>9, <1>10, Zenon DEF NtInv

\* The history drops its oldest with their live entries, and their popups are given up.
LEMMA NtTellStep ==
    ASSUME NtInv, NtTell
    PROVE  NtInv'
<1>1. PICK out :
         /\ ntDedupe' = [i \in NtIds |-> IF i \in out THEN NtEmpty ELSE ntDedupe[i]]
         /\ ntLoose' = ntLoose \cup ({ntDedupe[i].rid : i \in out} \ {0})
  BY Zenon DEF NtTell
<1>2. /\ ntMoved' = ntMoved /\ ntJob' = NtIdle /\ ntShadow' = ntShadow
      /\ ntPopups' = ntPopups /\ ntCut' = ntCut
  BY Zenon DEF NtTell
<1>3. ntDedupe \in [NtIds -> [sig : NtSigs, rid : NtServerIds]]
  BY Zenon DEF NtInv, NtShapes
<1>5. NtShown' \subseteq NtShown
  BY <1>1, <1>2, Zenon DEF NtShown
<1>6. ASSUME NEW j \in NtIds
      PROVE  \/ ntDedupe'[j] = ntDedupe[j]
             \/ ntDedupe'[j] = NtEmpty /\ ntDedupe[j].rid \notin NtShown'
  <2>1. CASE j \in out
    <3>1. 0 \notin NtShown'
      BY SMTT(30) DEF NtShown, NtRids
    <3>2. ntDedupe[j].rid \in ntLoose' \/ ntDedupe[j].rid = 0
      BY <1>1, <2>1, Zenon
    <3>3. ntDedupe[j].rid \notin NtShown'
      BY <3>1, <3>2, Zenon DEF NtShown
    <3> QED BY <1>1, <2>1, <3>3, Zenon
  <2>2. CASE j \notin out
    BY <1>1, <2>2, Zenon
  <2> QED BY <2>1, <2>2, Zenon
<1>7. NtBlank' /\ NtReached' /\ NtCovered' /\ \A j \in NtIds : NtNamed(j)' \subseteq NtNamed(j) \cup {0}
  BY <1>2, <1>5, <1>6, NtTakesOut, Zenon
<1>8. /\ NtShowing' /\ ntJob' \in NtJobs
  BY <1>2, NtEnds, Zenon
<1>9. NtApart'
  BY <1>7, NtNoNewId, Zenon
<1>10. NtShapes'
  <2>1. ntDedupe' \in [NtIds -> [sig : NtSigs, rid : NtServerIds]]
    BY <1>1, <1>3, NtEmptyFields, Zenon
  <2> QED BY <1>2, <1>8, <2>1, Zenon DEF NtInv, NtShapes
<1> QED BY <1>7, <1>8, <1>9, <1>10, Zenon DEF NtInv

\* on_disconnected takes the live entries; what they led to they lead to from there.
LEMMA NtCollectStep ==
    ASSUME NtInv, NtCollect
    PROVE  NtInv'
<1>1. /\ ntMoved' = [on |-> TRUE, entries |-> ntDedupe]
      /\ ntDedupe' = [i \in NtIds |-> NtEmpty]
      /\ ntCut' = (ntCut \/ ntJob.pc = "show")
      /\ ntShadow' = ntShadow /\ ntPopups' = ntPopups /\ ntJob' = ntJob
      /\ ntLoose' = ntLoose /\ ~ntMoved.on
  BY Zenon DEF NtCollect
<1>2. /\ ntDedupe \in [NtIds -> [sig : NtSigs, rid : NtServerIds]]
      /\ \A i \in NtIds : ntMoved.entries[i].sig = NtNone /\ ntMoved.entries[i].rid = 0
  BY <1>1, Zenon DEF NtInv, NtShapes, NtBlank
<1>3. /\ ntMoved'.on /\ ntMoved'.entries = ntDedupe
      /\ ntMoved' \in [on : BOOLEAN, entries : [NtIds -> [sig : NtSigs, rid : NtServerIds]]]
  BY <1>1, <1>2, Zenon
<1>4. \A i \in NtIds : ntDedupe'[i] = NtEmpty /\ ntDedupe'[i].sig = NtNone /\ ntDedupe'[i].rid = 0
  BY <1>1, NtEmptyFields, Zenon
<1>5. NtShown' = NtShown /\ 0 \notin NtShown
  BY <1>1, NtEmptyFields, Zenon DEF NtShown
<1>6. NtBlank'
  BY <1>3, <1>4, Zenon DEF NtInv, NtBlank
<1>7. NtReached'
  <2> SUFFICES ASSUME NEW r \in NtShown
               PROVE  \E i \in NtIds : \/ r = ntDedupe'[i].rid \/ r = ntMoved'.entries[i].rid
                                       \/ ntShadow'[i].fresh /\ r = ntShadow'[i].rid
    BY <1>5, Zenon DEF NtReached
  <2>1. PICK i \in NtIds : \/ r = ntDedupe[i].rid \/ r = ntMoved.entries[i].rid
                           \/ ntShadow[i].fresh /\ r = ntShadow[i].rid
    BY Zenon DEF NtInv, NtReached
  <2>2. r # 0
    BY <1>5, Zenon
  <2> QED BY <1>1, <1>2, <1>3, <2>1, <2>2, Zenon
<1>8. NtCovered'
  <2>1. ASSUME NEW i \in NtIds, ntShadow'[i].fresh, ntShadow'[i].rid \in NtShown',
               ntDedupe'[i].sig # NtNone \/ ntMoved'.entries[i].sig # NtNone
        PROVE  ntShadow'[i].rid = ntMoved'.entries[i].rid
    <3>1. ntDedupe[i].sig # NtNone
      BY <1>3, <1>4, <2>1, Zenon
    <3>2. ntShadow[i].fresh /\ ntShadow[i].rid \in NtShown /\ ntShadow[i].rid # 0
      BY <1>1, <1>5, <2>1, Zenon
    <3>3. ntShadow[i].rid \in {ntDedupe[i].rid, ntMoved.entries[i].rid}
      BY <3>1, <3>2, Zenon DEF NtInv, NtCovered
    <3> QED BY <1>1, <1>2, <1>3, <3>2, <3>3, Zenon
  <2> QED BY <1>4, <2>1, Zenon DEF NtCovered
<1>9. \A i \in NtIds : NtNamed(i)' \subseteq NtNamed(i) \cup {0}
  BY <1>1, <1>3, <1>4, Zenon DEF NtNamed
<1>10. NtShowing'
  <2>1. ASSUME ntJob.pc = "show", ntJob.id # NtNone
        PROVE  ntCut' = TRUE /\ ntDedupe'[ntJob.id] = NtEmpty
    <3>1. ntJob.id \in NtOptIds
      BY Zenon DEF NtInv, NtShapes, NtJobs
    <3>2. ntJob.id \in NtIds
      BY <2>1, <3>1, Zenon DEF NtOptIds
    <3> QED BY <1>1, <1>4, <2>1, <3>2, Zenon
  <2> QED BY <1>1, <2>1, NtHandlerStays, Zenon
<1>11. NtApart'
  BY <1>9, NtNoNewId, Zenon
<1>12. NtShapes'
  <2>1. ntDedupe' \in [NtIds -> [sig : NtSigs, rid : NtServerIds]] /\ ntCut' \in BOOLEAN
    BY <1>1, NtEmptyFields, Zenon
  <2> QED BY <1>1, <1>3, <2>1, Zenon DEF NtInv, NtShapes
<1> QED BY <1>6, <1>7, <1>8, <1>10, <1>11, <1>12, Zenon DEF NtInv

\* on_disconnected overwrites the shadow.  What it overwrites is not all that leads
\* to a popup.
LEMMA NtMergeStep ==
    ASSUME NtInv, NtMerge
    PROVE  NtInv'
<1>1. /\ ntShadow' = [i \in NtIds |-> LET e == ntMoved.entries[i]
                                      IN  IF e.sig # NtNone THEN [sig |-> e.sig, rid |-> e.rid, fresh |-> TRUE]
                                          ELSE IF ntShadow[i].fresh THEN ntShadow[i] ELSE NtGhost]
      /\ ntMoved' = [on |-> FALSE, entries |-> [i \in NtIds |-> NtEmpty]]
      /\ ntDedupe' = ntDedupe /\ ntPopups' = ntPopups /\ ntJob' = ntJob
      /\ ntLoose' = ntLoose /\ ntCut' = ntCut
  BY Zenon DEF NtMerge
<1>2. /\ ntShadow \in [NtIds -> [sig : NtSigs, rid : NtServerIds, fresh : BOOLEAN]]
      /\ ntMoved \in [on : BOOLEAN, entries : [NtIds -> [sig : NtSigs, rid : NtServerIds]]]
  BY Zenon DEF NtInv, NtShapes
<1>3. /\ ~ntMoved'.on /\ \A i \in NtIds : ntMoved'.entries[i].sig = NtNone /\ ntMoved'.entries[i].rid = 0
      /\ ntMoved' \in [on : BOOLEAN, entries : [NtIds -> [sig : NtSigs, rid : NtServerIds]]]
  <2>1. [i \in NtIds |-> NtEmpty] \in [NtIds -> [sig : NtSigs, rid : NtServerIds]]
    BY NtEmptyFields, Zenon
  <2>2. ntMoved'.on = FALSE /\ ntMoved'.entries = [i \in NtIds |-> NtEmpty]
    BY <1>1, Zenon
  <2>3. ntMoved' \in [on : BOOLEAN, entries : [NtIds -> [sig : NtSigs, rid : NtServerIds]]]
    BY <1>1, <2>1, Zenon
  <2> QED BY <2>2, <2>3, NtEmptyFields, Zenon
<1>4. ASSUME NEW i \in NtIds
      PROVE  /\ ntShadow'[i] \in [sig : NtSigs, rid : NtServerIds, fresh : BOOLEAN]
             /\ ntMoved.entries[i].sig # NtNone =>
                   ntShadow'[i].fresh /\ ntShadow'[i].rid = ntMoved.entries[i].rid
             /\ ntMoved.entries[i].sig = NtNone /\ ntShadow[i].fresh => ntShadow'[i] = ntShadow[i]
             /\ ntMoved.entries[i].sig = NtNone /\ ~ntShadow[i].fresh => ntShadow'[i] = NtGhost
  <2> DEFINE e == ntMoved.entries[i]
  <2>1. e \in [sig : NtSigs, rid : NtServerIds] /\ ntShadow[i] \in [sig : NtSigs, rid : NtServerIds, fresh : BOOLEAN]
    <3>1. ntMoved.entries \in [NtIds -> [sig : NtSigs, rid : NtServerIds]]
      BY <1>2, Zenon
    <3> QED BY <1>2, <1>4, <3>1, Zenon
  <2>2. ntShadow'[i] = IF e.sig # NtNone THEN [sig |-> e.sig, rid |-> e.rid, fresh |-> TRUE]
                       ELSE IF ntShadow[i].fresh THEN ntShadow[i] ELSE NtGhost
    BY <1>1, <1>4, Zenon
  <2> HIDE DEF e
  <2>3. CASE e.sig # NtNone
    <3>1. ntShadow'[i] = [sig |-> e.sig, rid |-> e.rid, fresh |-> TRUE]
      BY <2>2, <2>3, Zenon
    <3>2. /\ ntShadow'[i] \in [sig : NtSigs, rid : NtServerIds, fresh : BOOLEAN]
          /\ ntShadow'[i].fresh = TRUE /\ ntShadow'[i].rid = e.rid
      BY <2>1, <3>1, SMTT(30)
    <3> QED BY <2>3, <3>2, Zenon DEF e
  <2>4. CASE e.sig = NtNone
    BY <2>1, <2>2, <2>4, NtEmptyFields, Zenon DEF e
  <2> QED BY <2>3, <2>4, Zenon
<1>5. NtShown' = NtShown /\ 0 \notin NtShown
  BY <1>1, NtEmptyFields, Zenon DEF NtShown
<1>6. NtBlank'
  BY <1>1, <1>3, Zenon DEF NtInv, NtBlank
<1>7. \A i \in NtIds : ntMoved.entries[i].sig = NtNone => ntMoved.entries[i].rid = 0
  BY Zenon DEF NtInv, NtBlank
<1>8. NtReached'
  <2> SUFFICES ASSUME NEW r \in NtShown
               PROVE  \E i \in NtIds : \/ r = ntDedupe'[i].rid \/ r = ntMoved'.entries[i].rid
                                       \/ ntShadow'[i].fresh /\ r = ntShadow'[i].rid
    BY <1>5, Zenon DEF NtReached
  <2>1. PICK i \in NtIds : \/ r = ntDedupe[i].rid \/ r = ntMoved.entries[i].rid
                           \/ ntShadow[i].fresh /\ r = ntShadow[i].rid
    BY Zenon DEF NtInv, NtReached
  <2>2. r # 0
    BY <1>5, Zenon
  <2>3. CASE r = ntDedupe[i].rid
    BY <1>1, <2>3, Zenon
  <2>4. CASE r = ntMoved.entries[i].rid
    BY <1>4, <1>7, <2>2, <2>4, Zenon
  <2>5. CASE ntShadow[i].fresh /\ r = ntShadow[i].rid
    <3>1. CASE ntMoved.entries[i].sig = NtNone
      BY <1>4, <2>5, <3>1, Zenon
    <3>2. CASE ntMoved.entries[i].sig # NtNone
      <4>1. r \in {ntDedupe[i].rid, ntMoved.entries[i].rid}
        BY <2>5, <3>2, Zenon DEF NtInv, NtCovered
      <4> QED BY <2>3, <2>4, <4>1, Zenon
    <3> QED BY <3>1, <3>2, Zenon
  <2> QED BY <2>1, <2>3, <2>4, <2>5, Zenon
<1>9. NtCovered'
  <2>1. ASSUME NEW i \in NtIds, ntShadow'[i].fresh, ntShadow'[i].rid \in NtShown',
               ntDedupe'[i].sig # NtNone \/ ntMoved'.entries[i].sig # NtNone
        PROVE  ntShadow'[i].rid = ntDedupe'[i].rid
    <3>1. ntDedupe[i].sig # NtNone /\ ntDedupe' = ntDedupe /\ ntShadow'[i].rid \in NtShown
      BY <1>1, <1>3, <1>5, <2>1, Zenon
    <3>2. CASE ntMoved.entries[i].sig # NtNone
      <4>1. ntShadow'[i].rid = ntMoved.entries[i].rid
        BY <1>4, <3>2, Zenon
      <4>2. ntDedupe[i].rid = ntMoved.entries[i].rid
        BY <3>1, <4>1, Zenon DEF NtInv, NtCovered
      <4> QED BY <3>1, <4>1, <4>2, Zenon
    <3>3. CASE ntMoved.entries[i].sig = NtNone
      <4>1. ntShadow[i].fresh
        BY <1>4, <2>1, <3>3, NtEmptyFields, Zenon
      <4>2. ntShadow'[i] = ntShadow[i]
        BY <1>4, <3>3, <4>1, Zenon
      <4>3. ntShadow[i].rid \in NtShown /\ ntShadow[i].rid # 0
        BY <1>5, <3>1, <4>2, Zenon
      <4>4. ntShadow[i].rid \in {ntDedupe[i].rid, ntMoved.entries[i].rid}
        BY <3>1, <4>1, <4>3, Zenon DEF NtInv, NtCovered
      <4> QED BY <1>7, <3>1, <3>3, <4>2, <4>3, <4>4, Zenon
    <3> QED BY <3>2, <3>3, Zenon
  <2>2. ASSUME NEW i \in NtIds, ntMoved'.entries[i].rid \in NtShown' PROVE FALSE
    BY <1>3, <1>5, <2>2, Zenon
  <2> QED BY <2>1, <2>2, Zenon DEF NtCovered
<1>10. ASSUME NEW i \in NtIds PROVE NtNamed(i)' \subseteq NtNamed(i) \cup {0}
  <2>1. ntShadow'[i].rid \in {ntMoved.entries[i].rid, ntShadow[i].rid, 0}
    BY <1>4, NtEmptyFields, Zenon
  <2> QED BY <1>1, <1>3, <2>1, Zenon DEF NtNamed
<1>11. NtShowing'
  BY <1>1, NtHandlerStays, Zenon
<1>12. NtApart'
  BY <1>10, NtNoNewId, Zenon
<1>13. NtShapes'
  <2>1. ntShadow' \in [NtIds -> [sig : NtSigs, rid : NtServerIds, fresh : BOOLEAN]]
    BY <1>1, <1>4, Zenon
  <2> QED BY <1>1, <1>3, <2>1, Zenon DEF NtInv, NtShapes
<1> QED BY <1>6, <1>8, <1>9, <1>11, <1>12, <1>13, Zenon DEF NtInv

\* dedupe_track keeps the server id of the live entry, else that of a shadow in time.
LEMMA NtDecided ==
    ASSUME NtInv, NEW i \in NtIds, NEW c, c # NtNone
    PROVE  /\ NtDecide(i, c).act \in NtActs
           /\ ntDedupe[i].sig # NtNone => NtDecide(i, c).rid = ntDedupe[i].rid
           /\ ntDedupe[i].sig = NtNone /\ ntShadow[i].fresh => NtDecide(i, c).rid = ntShadow[i].rid
           /\ ntDedupe[i].sig = NtNone /\ ~ntShadow[i].fresh => NtDecide(i, c).rid = 0
<1> DEFINE live == ntDedupe[i]  ghost == ntShadow[i]
<1>1. NtDecide(i, c) = IF live.sig = c THEN [act |-> "suppress", rid |-> live.rid]
                       ELSE IF live.sig # NtNone THEN [act |-> "replace", rid |-> live.rid]
                       ELSE IF ghost.fresh /\ ghost.sig = c THEN [act |-> "suppress", rid |-> ghost.rid]
                       ELSE IF ghost.fresh /\ ghost.rid # 0 THEN [act |-> "replace", rid |-> ghost.rid]
                       ELSE [act |-> "post", rid |-> 0]
  BY Zenon DEF NtDecide
<1> HIDE DEF live, ghost
<1> DEFINE Made(a, n) ==
              /\ NtDecide(i, c) = [act |-> a, rid |-> n]
              /\ live.sig # NtNone => n = live.rid
              /\ live.sig = NtNone /\ ghost.fresh => n = ghost.rid
              /\ live.sig = NtNone /\ ~ghost.fresh => n = 0
<1>2. \E a \in NtActs : \E n : Made(a, n)
  <2>0. {"suppress", "replace", "post"} \subseteq NtActs
    BY Zenon DEF NtActs
  <2>1. CASE live.sig = c
    <3>1. Made("suppress", live.rid)
      BY <1>1, <2>1, Zenon
    <3> QED BY <2>0, <3>1, Zenon
  <2>2. CASE live.sig # c /\ live.sig # NtNone
    <3>1. Made("replace", live.rid)
      BY <1>1, <2>2, Zenon
    <3> QED BY <2>0, <3>1, Zenon
  <2>3. CASE live.sig = NtNone /\ ghost.fresh /\ ghost.sig = c
    <3>1. Made("suppress", ghost.rid)
      BY <1>1, <2>3, Zenon
    <3> QED BY <2>0, <3>1, Zenon
  <2>4. CASE live.sig = NtNone /\ ghost.fresh /\ ghost.sig # c /\ ghost.rid # 0
    <3>1. Made("replace", ghost.rid)
      BY <1>1, <2>4, Zenon
    <3> QED BY <2>0, <3>1, Zenon
  <2>5. CASE live.sig = NtNone /\ ~(ghost.fresh /\ (ghost.sig = c \/ ghost.rid # 0))
    <3>1. Made("post", 0)
      BY <1>1, <2>5, Zenon
    <3> QED BY <2>0, <3>1, Zenon
  <2> QED BY <2>1, <2>2, <2>3, <2>4, <2>5, Zenon
<1>3. PICK a \in NtActs : \E n : Made(a, n)
  BY <1>2, Zenon
<1>4. PICK n : Made(a, n)
  BY <1>3, Zenon
<1>5. NtDecide(i, c).act = a /\ NtDecide(i, c).rid = n
  BY <1>4
<1> QED BY <1>3, <1>4, <1>5, Zenon DEF live, ghost

\* The handler after dedupe_track.
LEMMA NtTracked ==
    ASSUME NtInv, NEW a \in NtActs, NEW n \in NtServerIds,
           ntJob' = [ntJob EXCEPT !.pc = IF a = "suppress" THEN "tell" ELSE "show",
                                  !.act = a, !.rid = n]
    PROVE  /\ ntJob' \in NtJobs /\ ntJob'.pc \in {"tell", "show"}
           /\ ntJob'.id = ntJob.id /\ ntJob'.sig = ntJob.sig /\ ntJob'.rid = n
<1>1. PICK pc \in {"tell", "show"} : ntJob' = [ntJob EXCEPT !.pc = pc, !.act = a, !.rid = n]
  <2>1. CASE a = "suppress"
    BY <2>1, Zenon
  <2>2. CASE a # "suppress"
    BY <2>2, Zenon
  <2> QED BY <2>1, <2>2, Zenon
<1>2. pc \in NtPcs /\ ntJob \in NtJobs
  BY <1>1, Zenon DEF NtPcs, NtInv, NtShapes
<1>3. ntJob' \in NtJobs
  BY <1>1, <1>2, Zenon DEF NtJobs
<1>4. ntJob'.pc = pc /\ ntJob'.id = ntJob.id /\ ntJob'.sig = ntJob.sig /\ ntJob'.rid = n
  BY <1>1, <1>2, Zenon DEF NtJobs
<1> QED BY <1>1, <1>3, <1>4, Zenon

\* dedupe_track.  The entry takes over the server id of what it replaces; what
\* on_disconnected has in its hands is given up.
LEMMA NtTrackStep ==
    ASSUME NtInv, NtTrack
    PROVE  NtInv'
<1>0. /\ ntJob.pc = "track" /\ ntJob.sig # NtNone /\ ntJob.id \in NtOptIds /\ ntJob.sig \in NtSigs
      /\ ntPopups' = ntPopups /\ ntMoved' = ntMoved /\ ntCut' = FALSE
  <2>1. ntJob.id \in NtOptIds /\ ntJob.sig \in NtSigs
    BY Zenon DEF NtInv, NtShapes, NtJobs
  <2> QED BY <2>1, Zenon DEF NtTrack, NtInv, NtShowing
<1>1. CASE ntJob.id = NtNone
  <2> DEFINE d == [act |-> "post", rid |-> 0]
  <2>1. /\ ntJob' = [ntJob EXCEPT !.pc = IF d.act = "suppress" THEN "tell" ELSE "show",
                                  !.act = d.act, !.rid = d.rid]
        /\ ntDedupe' = ntDedupe /\ ntShadow' = ntShadow /\ ntLoose' = ntLoose
    BY <1>1, Zenon DEF NtTrack
  <2>2. d.act = "post" /\ d.rid = 0
    BY Zenon
  <2> HIDE DEF d
  <2>3. d.act \in NtActs /\ d.rid \in NtServerIds
    BY <2>2, Zenon DEF NtActs, NtServerIds
  <2>4. /\ ntJob' \in NtJobs /\ ntJob'.pc \in {"tell", "show"}
        /\ ntJob'.id = ntJob.id /\ ntJob'.sig = ntJob.sig /\ ntJob'.rid = d.rid
    BY <1>0, <2>1, <2>3, NtTracked, Zenon
  <2>5. NtBlank' /\ NtApart' /\ NtReached' /\ NtCovered'
    BY <1>0, <2>1, NtTablesStay, Zenon
  <2>7. NtShowing'
    BY <1>0, <1>1, <2>2, <2>4, Zenon DEF NtShowing
  <2>8. NtShapes'
    BY <1>0, <2>1, <2>4, Zenon DEF NtInv, NtShapes
  <2> QED BY <2>5, <2>7, <2>8, Zenon DEF NtInv
<1>2. CASE ntJob.id # NtNone
  <2> DEFINE i == ntJob.id  d == NtDecide(ntJob.id, ntJob.sig)
  <2>1. /\ ntJob' = [ntJob EXCEPT !.pc = IF d.act = "suppress" THEN "tell" ELSE "show",
                                  !.act = d.act, !.rid = d.rid]
        /\ ntDedupe' = [ntDedupe EXCEPT ![i] = [sig |-> ntJob.sig, rid |-> d.rid]]
        /\ ntShadow' = IF ntDedupe[i].sig = NtNone /\ ~ntShadow[i].fresh
                       THEN [ntShadow EXCEPT ![i] = NtGhost] ELSE ntShadow
        /\ ntLoose' = ntLoose \cup ({ntMoved.entries[i].rid} \ {0})
    BY <1>2, Zenon DEF NtTrack
  <2>2. i \in NtIds
    BY <1>0, <1>2, Zenon DEF NtOptIds
  <2>3. /\ d.act \in NtActs
        /\ ntDedupe[i].sig # NtNone => d.rid = ntDedupe[i].rid
        /\ ntDedupe[i].sig = NtNone /\ ntShadow[i].fresh => d.rid = ntShadow[i].rid
        /\ ntDedupe[i].sig = NtNone /\ ~ntShadow[i].fresh => d.rid = 0
    BY <1>0, <2>2, NtDecided, Zenon
  <2> HIDE DEF i, d
  <2>4. /\ ntDedupe \in [NtIds -> [sig : NtSigs, rid : NtServerIds]]
        /\ ntShadow \in [NtIds -> [sig : NtSigs, rid : NtServerIds, fresh : BOOLEAN]]
    BY Zenon DEF NtInv, NtShapes
  <2>5. d.rid \in NtServerIds /\ d.rid \in NtNamed(i) \cup {0}
    <3>1. ntDedupe[i].rid \in NtServerIds /\ ntShadow[i].rid \in NtServerIds
      BY <2>2, <2>4, Zenon
    <3>2. d.rid \in {ntDedupe[i].rid, ntShadow[i].rid, 0}
      BY <2>3, Zenon
    <3> QED BY <3>1, <3>2, Zenon DEF NtNamed, NtServerIds
  <2>6. /\ ntJob' \in NtJobs /\ ntJob'.pc \in {"tell", "show"}
        /\ ntJob'.id = i /\ ntJob'.sig = ntJob.sig /\ ntJob'.rid = d.rid
    BY <1>0, <2>1, <2>3, <2>5, NtTracked, Zenon DEF i
  <2>7. /\ ntDedupe'[i].sig = ntJob.sig /\ ntDedupe'[i].rid = d.rid
        /\ ntDedupe' \in [NtIds -> [sig : NtSigs, rid : NtServerIds]]
        /\ \A j \in NtIds : j # i => ntDedupe'[j] = ntDedupe[j]
    <3> DEFINE e == [sig |-> ntJob.sig, rid |-> d.rid]
    <3>1. e \in [sig : NtSigs, rid : NtServerIds] /\ e.sig = ntJob.sig /\ e.rid = d.rid
      BY <1>0, <2>5, Zenon
    <3>2. ntDedupe' = [ntDedupe EXCEPT ![i] = e]
      BY <2>1, Zenon
    <3> HIDE DEF e
    <3> QED BY <2>2, <2>4, <3>1, <3>2, Zenon
  <2>8. /\ ntShadow' \in [NtIds -> [sig : NtSigs, rid : NtServerIds, fresh : BOOLEAN]]
        /\ \A j \in NtIds : j # i \/ ntShadow[j].fresh => ntShadow'[j] = ntShadow[j]
        /\ \A j \in NtIds : ntShadow'[j] = ntShadow[j] \/ ntShadow'[j] = NtGhost
    <3>1. CASE ntDedupe[i].sig = NtNone /\ ~ntShadow[i].fresh
      <4>1. ntShadow' = [ntShadow EXCEPT ![i] = NtGhost]
        BY <2>1, <3>1, Zenon
      <4> QED BY <2>2, <2>4, <3>1, <4>1, NtEmptyFields, Zenon
    <3>2. CASE ~(ntDedupe[i].sig = NtNone /\ ~ntShadow[i].fresh)
      <4>1. ntShadow' = ntShadow
        BY <2>1, <3>2, Zenon
      <4> QED BY <2>4, <4>1, Zenon
    <3> QED BY <3>1, <3>2, Zenon
  <2>9. /\ NtShown' \subseteq NtShown /\ ntMoved.entries[i].rid \notin NtShown'
        /\ 0 \notin NtShown
    <3>1. NtShown' \subseteq NtShown /\ 0 \notin NtShown
      BY <1>0, <2>1, NtEmptyFields, Zenon DEF NtShown
    <3> QED BY <2>1, <3>1, Zenon DEF NtShown
  <2>10. \A j \in NtIds : ntDedupe[j].sig = NtNone => ntDedupe[j].rid = 0
    BY Zenon DEF NtInv, NtBlank
  <2>11. NtBlank'
    <3>1. ASSUME NEW j \in NtIds PROVE ntDedupe'[j].sig = NtNone => ntDedupe'[j].rid = 0
      BY <1>0, <2>7, <2>10, <3>1, Zenon
    <3> QED BY <1>0, <3>1, Zenon DEF NtInv, NtBlank
  <2>12. NtReached'
    <3> SUFFICES ASSUME NEW r \in NtShown'
                 PROVE  \E j \in NtIds : \/ r = ntDedupe'[j].rid \/ r = ntMoved'.entries[j].rid
                                         \/ ntShadow'[j].fresh /\ r = ntShadow'[j].rid
      BY Zenon DEF NtReached
    <3>1. PICK j \in NtIds : \/ r = ntDedupe[j].rid \/ r = ntMoved.entries[j].rid
                             \/ ntShadow[j].fresh /\ r = ntShadow[j].rid
      BY <2>9, Zenon DEF NtInv, NtReached
    <3>2. CASE r = ntDedupe[j].rid
      <4>1. ntDedupe[j].sig # NtNone
        BY <2>9, <2>10, <3>2, Zenon
      <4>2. ntDedupe'[j].rid = r
        BY <2>3, <2>7, <3>2, <4>1, Zenon
      <4> QED BY <4>2, Zenon
    <3>3. CASE r = ntMoved.entries[j].rid
      BY <1>0, <3>3, Zenon
    <3>4. CASE ntShadow[j].fresh /\ r = ntShadow[j].rid
      BY <2>8, <3>4, Zenon
    <3> QED BY <3>1, <3>2, <3>3, <3>4, Zenon
  <2>13. NtCovered'
    <3>1. ASSUME NEW j \in NtIds, ntMoved'.entries[j].rid \in NtShown', ntDedupe'[j].sig # NtNone
          PROVE  ntDedupe'[j].rid = ntMoved'.entries[j].rid
      <4>1. j # i /\ ntMoved.entries[j].rid \in NtShown
        BY <1>0, <2>9, <3>1, Zenon
      <4> QED BY <1>0, <2>7, <3>1, <4>1, Zenon DEF NtInv, NtCovered
    <3>2. ASSUME NEW j \in NtIds, ntShadow'[j].fresh, ntShadow'[j].rid \in NtShown',
                 ntDedupe'[j].sig # NtNone \/ ntMoved'.entries[j].sig # NtNone
          PROVE  ntShadow'[j].rid \in {ntDedupe'[j].rid, ntMoved'.entries[j].rid}
      <4>1. ntShadow'[j] = ntShadow[j] /\ ntShadow[j].fresh /\ ntShadow[j].rid \in NtShown
        BY <2>8, <2>9, <3>2, NtEmptyFields, Zenon
      <4>2. CASE j = i /\ ntDedupe[j].sig = NtNone
        BY <2>3, <2>7, <4>1, <4>2, Zenon
      <4>3. CASE ~(j = i /\ ntDedupe[j].sig = NtNone)
        <5>1. ntDedupe[j].sig # NtNone \/ ntMoved.entries[j].sig # NtNone
          BY <1>0, <2>7, <3>2, <4>3, Zenon
        <5>2. ntShadow[j].rid \in {ntDedupe[j].rid, ntMoved.entries[j].rid}
          BY <4>1, <5>1, Zenon DEF NtInv, NtCovered
        <5>3. ntDedupe'[j].rid = ntDedupe[j].rid
          BY <2>3, <2>7, <4>3, Zenon
        <5> QED BY <1>0, <4>1, <5>2, <5>3, Zenon
      <4> QED BY <4>2, <4>3, Zenon
    <3> QED BY <3>1, <3>2, Zenon DEF NtCovered
  <2>14. ASSUME NEW j \in NtIds PROVE NtNamed(j)' \subseteq NtNamed(j) \cup {0}
    <3>1. ntShadow'[j].rid \in {ntShadow[j].rid, 0}
      BY <2>8, NtEmptyFields, Zenon
    <3>2. ntDedupe'[j].rid \in NtNamed(j) \cup {0}
      <4>1. CASE j = i
        BY <2>5, <2>7, <4>1, Zenon
      <4>2. CASE j # i
        BY <2>7, <4>2, Zenon DEF NtNamed
      <4> QED BY <4>1, <4>2, Zenon
    <3> QED BY <1>0, <3>1, <3>2, Zenon DEF NtNamed
  <2>15. NtApart'
    BY <2>14, NtNoNewId, Zenon
  <2>16. NtShowing'
    <3>1. ntJob'.pc \notin {"cancel", "icon"}
      BY <2>6, Zenon
    <3>2. ntJob'.id # NtNone /\ ntJob'.sig # NtNone
      BY <1>0, <1>2, <2>6, Zenon DEF i
    <3>3. ~ntCut' /\ ntDedupe'[ntJob'.id].sig # NtNone /\ ntDedupe'[ntJob'.id].rid = ntJob'.rid
      BY <1>0, <2>6, <2>7, Zenon
    <3> QED BY <3>1, <3>2, <3>3, Zenon DEF NtShowing
  <2>17. NtShapes'
    BY <1>0, <2>6, <2>7, <2>8, Zenon DEF NtInv, NtShapes
  <2> QED BY <2>11, <2>12, <2>13, <2>15, <2>16, <2>17, Zenon DEF NtInv
<1> QED BY <1>1, <1>2, Zenon

\* The server id of a new popup: that of what it replaces, or one that nothing has.
LEMMA NtServerId ==
    ASSUME NtInv
    PROVE  LET free == {r \in NtRids : ntPopups[r] = NtEmpty /\ r \notin NtKnown}
               rid == IF ntJob.rid # 0 THEN ntJob.rid ELSE CHOOSE r \in free : TRUE
           IN  ntJob.rid # 0 \/ free # {} =>
                   /\ rid \in NtRids
                   /\ ntJob.rid # 0 => rid = ntJob.rid
                   /\ ntJob.rid = 0 => \A i \in NtIds : rid \notin NtNamed(i)
<1> DEFINE free == {r \in NtRids : ntPopups[r] = NtEmpty /\ r \notin NtKnown}
           rid == IF ntJob.rid # 0 THEN ntJob.rid ELSE CHOOSE r \in free : TRUE
<1> SUFFICES ASSUME ntJob.rid # 0 \/ free # {}
             PROVE  /\ rid \in NtRids
                    /\ ntJob.rid # 0 => rid = ntJob.rid
                    /\ ntJob.rid = 0 => \A i \in NtIds : rid \notin NtNamed(i)
  BY Zenon
<1>1. ntJob.rid \in NtServerIds
  BY Zenon DEF NtInv, NtShapes, NtJobs
<1>2. CASE ntJob.rid # 0
  BY <1>1, <1>2, Zenon DEF NtServerIds
<1>3. CASE ntJob.rid = 0
  <2>1. \A r : r \notin NtKnown <=> \A i \in NtIds : r \notin NtNamed(i)
    BY Zenon DEF NtKnown, NtNamed
  <2>2. (CHOOSE r \in free : TRUE) \in free
    BY <1>3, Zenon
  <2>3. rid = CHOOSE r \in free : TRUE
    BY <1>3, Zenon
  <2>4. rid \in free
    BY <2>2, <2>3, Zenon
  <2> HIDE DEF rid
  <2> QED BY <1>3, <2>1, <2>4, Zenon
<1> QED BY <1>2, <1>3, Zenon

\* show_async with dedupe_record_shown.  A popup that its entry leads to is exposed;
\* one whose entry went meanwhile, or that has no id, is given up.
LEMMA NtShowStep ==
    ASSUME NtInv, NtShow
    PROVE  NtInv'
<1>0. ntJob.pc = "show" /\ ntJob.id \in NtOptIds /\ ntJob.sig \in NtSigs
  <2>1. ntJob.id \in NtOptIds /\ ntJob.sig \in NtSigs
    BY Zenon DEF NtInv, NtShapes, NtJobs
  <2> QED BY <2>1, Zenon DEF NtShow
<1>1. PICK rid \in NtRids :
         /\ ntJob.rid # 0 => rid = ntJob.rid
         /\ ntJob.rid = 0 => \A i \in NtIds : rid \notin NtNamed(i)
         /\ ntPopups' = [ntPopups EXCEPT ![rid] = [sig |-> ntJob.sig, rid |-> rid]]
         /\ NtRecordShown(ntJob.id, rid)
         /\ ntLoose' = IF ntCut \/ ntJob.id = NtNone THEN ntLoose \cup {rid} ELSE ntLoose \ {rid}
  BY <1>0, NtServerId, ZenonT(30) DEF NtShow
<1>2. /\ ntShadow' = ntShadow /\ ntMoved' = ntMoved /\ ntCut' = ntCut
      /\ ntJob' = [ntJob EXCEPT !.pc = "tell"]
  BY Zenon DEF NtShow
<1>3. /\ ntDedupe \in [NtIds -> [sig : NtSigs, rid : NtServerIds]]
      /\ ntPopups \in [NtRids -> [sig : NtSigs, rid : NtServerIds]]
      /\ rid \in NtServerIds /\ rid # 0
  <2>1. rid # 0
    BY SMTT(30) DEF NtRids
  <2> QED BY <2>1, Zenon DEF NtInv, NtShapes, NtServerIds
<1>4. /\ ntPopups' \in [NtRids -> [sig : NtSigs, rid : NtServerIds]]
      /\ \A r \in NtRids : r # rid => ntPopups'[r] = ntPopups[r]
  <2> DEFINE e == [sig |-> ntJob.sig, rid |-> rid]
  <2>1. e \in [sig : NtSigs, rid : NtServerIds]
    BY <1>0, <1>3, Zenon
  <2>2. ntPopups' = [ntPopups EXCEPT ![rid] = e]
    BY <1>1, Zenon
  <2> HIDE DEF e
  <2> QED BY <1>3, <2>1, <2>2, Zenon
<1>5. ntJob'.pc = "tell" /\ ntJob' \in NtJobs
  <2>1. "tell" \in NtPcs
    BY Zenon DEF NtPcs
  <2> QED BY <1>2, <2>1, Zenon DEF NtInv, NtShapes, NtJobs
<1>6. NtShowing'
  BY <1>5, Zenon DEF NtShowing
<1>8. 0 \notin NtShown /\ 0 \notin NtShown'
  BY SMTT(30) DEF NtShown, NtRids
<1>10. CASE ntCut \/ ntJob.id = NtNone
  <2>1. ntDedupe' = ntDedupe
    BY <1>0, <1>1, <1>10, Zenon DEF NtRecordShown, NtInv, NtShowing
  <2>2. NtShown' \subseteq NtShown
    <3>1. ntLoose' = ntLoose \cup {rid}
      BY <1>1, <1>10, Zenon
    <3> QED BY <1>4, <3>1, Zenon DEF NtShown
  <2>3. /\ NtBlank' /\ NtReached' /\ NtCovered'
        /\ \A j \in NtIds : NtNamed(j)' \subseteq NtNamed(j) \cup {0}
    BY <1>2, <2>1, <2>2, NtTakesOut, Zenon
  <2>4. NtApart'
    BY <2>3, NtNoNewId, Zenon
  <2>5. NtShapes'
    BY <1>2, <1>4, <1>5, <2>1, Zenon DEF NtInv, NtShapes
  <2> QED BY <1>6, <2>3, <2>4, <2>5, Zenon DEF NtInv
<1>11. CASE ~ntCut /\ ntJob.id # NtNone
  <2>0. PICK i \in NtIds : i = ntJob.id
    BY <1>0, <1>11, Zenon DEF NtOptIds
  <2>1. ntDedupe[i].sig # NtNone /\ ntDedupe[i].rid = ntJob.rid
    BY <1>0, <1>11, <2>0, Zenon DEF NtInv, NtShowing
  <2>2. ntDedupe' = [ntDedupe EXCEPT ![i].rid = rid] /\ ntLoose' = ntLoose \ {rid}
    BY <1>1, <1>11, <2>0, <2>1, Zenon DEF NtRecordShown
  <2>3. /\ ntDedupe' \in [NtIds -> [sig : NtSigs, rid : NtServerIds]]
        /\ ntDedupe'[i].sig = ntDedupe[i].sig /\ ntDedupe'[i].rid = rid
        /\ \A j \in NtIds : j # i => ntDedupe'[j] = ntDedupe[j]
    BY <1>3, <2>1, <2>2, Zenon
  <2>4. ASSUME NEW j \in NtIds, j # i PROVE rid \notin NtNamed(j)
    <3>1. CASE ntJob.rid = 0
      BY <1>1, <3>1, Zenon
    <3>2. CASE ntJob.rid # 0
      <4>1. rid \in NtNamed(i)
        BY <1>1, <2>1, <3>2, Zenon DEF NtNamed
      <4> QED BY <1>3, <2>1, <2>4, <4>1, Zenon DEF NtInv, NtApart
    <3> QED BY <3>1, <3>2, Zenon
  <2>5. ntDedupe[i].rid \in {rid, 0}
    BY <1>1, <2>1, Zenon
  <2>6. NtShown' \subseteq NtShown \cup {rid}
    BY <1>4, <2>2, Zenon DEF NtShown
  <2>7. NtBlank'
    <3>1. ASSUME NEW j \in NtIds PROVE ntDedupe'[j].sig = NtNone => ntDedupe'[j].rid = 0
      <4>1. ntDedupe[j].sig = NtNone => ntDedupe[j].rid = 0
        BY <3>1, Zenon DEF NtInv, NtBlank
      <4> QED BY <2>1, <2>3, <4>1, Zenon
    <3> QED BY <1>2, <3>1, Zenon DEF NtInv, NtBlank
  <2>8. NtReached'
    <3> SUFFICES ASSUME NEW r \in NtShown'
                 PROVE  \E j \in NtIds : \/ r = ntDedupe'[j].rid \/ r = ntMoved'.entries[j].rid
                                         \/ ntShadow'[j].fresh /\ r = ntShadow'[j].rid
      BY Zenon DEF NtReached
    <3>1. CASE r = rid
      BY <2>1, <2>3, <3>1, Zenon
    <3>2. CASE r # rid
      <4>1. PICK j \in NtIds : \/ r = ntDedupe[j].rid \/ r = ntMoved.entries[j].rid
                               \/ ntShadow[j].fresh /\ r = ntShadow[j].rid
        BY <2>6, <3>2, Zenon DEF NtInv, NtReached
      <4>2. CASE r = ntDedupe[j].rid
        <5>1. j # i
          BY <1>8, <2>5, <3>2, <4>2, Zenon
        <5> QED BY <2>3, <4>2, <5>1, Zenon
      <4> QED BY <1>2, <4>1, <4>2, Zenon
    <3> QED BY <3>1, <3>2, Zenon
  <2>9. NtCovered'
    <3>1. ASSUME NEW j \in NtIds, ntMoved'.entries[j].rid \in NtShown', ntDedupe'[j].sig # NtNone
          PROVE  ntDedupe'[j].rid = ntMoved'.entries[j].rid
      <4>1. CASE j = i /\ ntMoved.entries[j].rid = rid
        BY <1>2, <2>3, <4>1, Zenon
      <4>2. CASE ~(j = i /\ ntMoved.entries[j].rid = rid)
        <5>1. ntMoved.entries[j].rid \in NtNamed(j)
          BY Zenon DEF NtNamed
        <5>2. ntMoved.entries[j].rid # rid
          BY <2>4, <4>2, <5>1, Zenon
        <5>3. ntMoved.entries[j].rid \in NtShown /\ ntDedupe[j].sig # NtNone
          BY <1>2, <2>1, <2>3, <2>6, <3>1, <5>2, Zenon
        <5>4. ntDedupe[j].rid = ntMoved.entries[j].rid
          BY <5>3, Zenon DEF NtInv, NtCovered
        <5>5. j # i
          BY <1>8, <2>5, <5>2, <5>3, <5>4, Zenon
        <5> QED BY <1>2, <2>3, <5>4, <5>5, Zenon
      <4> QED BY <4>1, <4>2, Zenon
    <3>2. ASSUME NEW j \in NtIds, ntShadow'[j].fresh, ntShadow'[j].rid \in NtShown',
                 ntDedupe'[j].sig # NtNone \/ ntMoved'.entries[j].sig # NtNone
          PROVE  ntShadow'[j].rid \in {ntDedupe'[j].rid, ntMoved'.entries[j].rid}
      <4>1. CASE j = i /\ ntShadow[j].rid = rid
        BY <1>2, <2>3, <4>1, Zenon
      <4>2. CASE ~(j = i /\ ntShadow[j].rid = rid)
        <5>1. ntShadow[j].rid \in NtNamed(j)
          BY Zenon DEF NtNamed
        <5>2. ntShadow[j].rid # rid
          BY <2>4, <4>2, <5>1, Zenon
        <5>3. /\ ntShadow[j].fresh /\ ntShadow[j].rid \in NtShown
              /\ ntDedupe[j].sig # NtNone \/ ntMoved.entries[j].sig # NtNone
          BY <1>2, <2>1, <2>3, <2>6, <3>2, <5>2, Zenon
        <5>4. ntShadow[j].rid \in {ntDedupe[j].rid, ntMoved.entries[j].rid}
          BY <5>3, Zenon DEF NtInv, NtCovered
        <5>5. CASE j = i
          BY <1>2, <1>8, <2>5, <5>2, <5>3, <5>4, <5>5, Zenon
        <5>6. CASE j # i
          BY <1>2, <2>3, <5>4, <5>6, Zenon
        <5> QED BY <5>5, <5>6, Zenon
      <4> QED BY <4>1, <4>2, Zenon
    <3> QED BY <3>1, <3>2, Zenon DEF NtCovered
  <2>10. /\ NtNamed(i)' \subseteq NtNamed(i) \cup {rid}
         /\ \A j \in NtIds : j # i => NtNamed(j)' = NtNamed(j)
    <3>1. ASSUME NEW j \in NtIds, j # i PROVE NtNamed(j)' = NtNamed(j)
      BY <1>2, <2>3, <3>1, Zenon DEF NtNamed
    <3> QED BY <1>2, <2>3, <3>1, Zenon DEF NtNamed
  <2>11. NtApart'
    <3> SUFFICES ASSUME NEW j \in NtIds, NEW k \in NtIds, j # k,
                        NEW r, r \in NtNamed(j)', r \in NtNamed(k)', r # 0
                 PROVE  FALSE
      BY Zenon DEF NtApart
    <3>1. r \in NtNamed(j) \/ (j = i /\ r = rid)
      BY <2>10, Zenon
    <3>2. r \in NtNamed(k) \/ (k = i /\ r = rid)
      BY <2>10, Zenon
    <3>3. r \in NtNamed(j) /\ r \in NtNamed(k)
      BY <2>4, <3>1, <3>2, Zenon
    <3> QED BY <3>3, Zenon DEF NtInv, NtApart
  <2>13. NtShapes'
    BY <1>2, <1>4, <1>5, <2>3, Zenon DEF NtInv, NtShapes
  <2> QED BY <1>6, <2>7, <2>8, <2>9, <2>11, <2>13, Zenon DEF NtInv
<1> QED BY <1>10, <1>11, Zenon

\* The invariant holds at the start.
LEMMA NtStart ==
    ASSUME NtInit PROVE NtInv
<1>1. /\ \A i \in NtIds : ntDedupe[i] = NtEmpty /\ ntShadow[i] = NtGhost
      /\ \A r \in NtRids : ntPopups[r] = NtEmpty
      /\ ntJob = NtIdle /\ ntCut = FALSE
      /\ ntMoved = [on |-> FALSE, entries |-> [i \in NtIds |-> NtEmpty]]
  BY Zenon DEF NtInit
<1>2. ntMoved.on = FALSE /\ ntMoved.entries = [i \in NtIds |-> NtEmpty]
  BY <1>1, Zenon
<1>3. \A i \in NtIds : ntMoved.entries[i] = NtEmpty
  BY <1>2, Zenon
<1>4. NtShapes
  <2>1. /\ ntDedupe \in [NtIds -> [sig : NtSigs, rid : NtServerIds]]
        /\ ntShadow \in [NtIds -> [sig : NtSigs, rid : NtServerIds, fresh : BOOLEAN]]
        /\ ntPopups \in [NtRids -> [sig : NtSigs, rid : NtServerIds]]
        /\ [i \in NtIds |-> NtEmpty] \in [NtIds -> [sig : NtSigs, rid : NtServerIds]]
    BY NtEmptyFields, Zenon DEF NtInit
  <2>2. ntMoved \in [on : BOOLEAN, entries : [NtIds -> [sig : NtSigs, rid : NtServerIds]]]
    BY <1>1, <2>1, Zenon
  <2> QED BY <1>1, <2>1, <2>2, NtIdleFields, Zenon DEF NtShapes
<1>5. \A i \in NtIds : NtNamed(i) = {0}
  BY <1>1, <1>3, NtEmptyFields, Zenon DEF NtNamed
<1>6. NtShown = {}
  BY <1>1, Zenon DEF NtShown
<1>7. NtBlank /\ NtApart
  <2>1. NtBlank
    BY <1>1, <1>3, NtEmptyFields, Zenon DEF NtBlank
  <2>2. NtApart
    BY <1>5, Zenon DEF NtApart
  <2> QED BY <2>1, <2>2, Zenon
<1>8. NtReached /\ NtCovered
  BY <1>6, Zenon DEF NtReached, NtCovered
<1>9. ntJob.pc = "idle"
  BY <1>1, NtIdleFields, Zenon
<1>10. NtShowing
  BY <1>9, Zenon DEF NtShowing
<1> QED BY <1>4, <1>7, <1>8, <1>10, Zenon DEF NtInv

\* Every step of the plugin, of the server and of the clock keeps it.
LEMMA NtStep ==
    ASSUME NtInv, [NtNext]_ntVars
    PROVE  NtInv'
<1>1. CASE UNCHANGED ntVars
  <2>1. UNCHANGED <<ntDedupe, ntShadow, ntMoved, ntPopups, ntLoose>> /\ UNCHANGED <<ntJob, ntCut>>
    BY <1>1, Zenon DEF ntVars
  <2>2. NtBlank' /\ NtApart' /\ NtReached' /\ NtCovered'
    BY <2>1, NtTablesStay, Zenon
  <2> QED BY <2>1, <2>2, Zenon DEF NtInv, NtShapes, NtShowing
<1>2. CASE NtNext
  BY Zenon, <1>2, NtReceiveStep, NtIconStep, NtCancelStep, NtTrackStep, NtShowStep, NtShowFailsStep, NtTellStep,
     NtDismissStep, NtAgeStep, NtCollectStep, NtMergeStep, NtExpiresStep, Zenon DEF NtNext
<1> QED BY <1>1, <1>2, Zenon

\* A popup stays within reach of its notification, across any number of
\* disconnects, resyncs and packets (dedupe_track, dedupe_record_shown,
\* on_disconnected).
THEOREM PopupsInReach == NtSpec => []PopupsWithinReach
<1>1. NtInv => PopupsWithinReach
  <2> SUFFICES ASSUME NtInv, NEW r \in NtRids \ ntLoose, ntPopups[r] # NtEmpty
               PROVE  r \in NtKnown
    BY Zenon DEF PopupsWithinReach
  <2>1. r \in NtShown
    BY Zenon DEF NtShown
  <2>2. PICK i \in NtIds : r \in NtNamed(i)
    BY <2>1, Zenon DEF NtInv, NtReached, NtNamed
  <2> QED BY <2>2, Zenon DEF NtKnown, NtNamed
<1> QED BY <1>1, NtStart, NtStep, PTL DEF NtSpec
=============================================================================
