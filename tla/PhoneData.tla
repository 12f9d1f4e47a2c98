----------------------------- MODULE PhoneData -----------------------------
(***************************************************************************)
(* What a phone tells of itself and the daemon keeps for the API: battery,   *)
(* connectivity, lock state, the commands it offers, the sinks of its sound  *)
(* and its text messages (plugins/battery.rs, connectivity.rs, lock.rs,      *)
(* remotecommands.rs, sms.rs, the controller's side of systemvolume/mod.rs;  *)
(* the calls of telephony.rs are in PauseMusic).  Each plugin has            *)
(* one map keyed by device, filled by its packets and emptied by             *)
(* on_disconnected.  A message is its date; a battery level, a signal, a     *)
(* command list are values.                                                 *)
(***************************************************************************)
EXTENDS Naturals, Sequences, FiniteSets, FiniteSetsExt, Functions

CONSTANTS
    PdDevices, PdValues, PdKeys,
    PdThreads, PdDates,           \* thread ids and message dates; date 0 is a message without one
    PdMaxThreads, PdMaxMessages,  \* MAX_SMS_THREADS_PER_DEVICE, MAX_SMS_MESSAGES_PER_THREAD
    PdPackets

ASSUME PdAssumption ==
    /\ IsFiniteSet(PdDevices) /\ PdDates \subseteq Nat
    /\ PdMaxThreads \in Nat \ {0, 1} /\ PdMaxMessages \in Nat \ {0}
    /\ PdPackets \in Nat

PdNone == "none"

VARIABLES
    pdUp,         \* the connected devices
    pdBattery,    \* BatteryPlugin.batteries
    pdReport,     \* ConnectivityPlugin.reports
    pdLocked,     \* LockPlugin.states
    pdCommands,   \* RemoteCommandsPlugin.commands with can_add_command, <<>> for none
    pdSinks,      \* SystemVolumePlugin.sinks: the volume by sink name, PdNone for no such sink
    pdThreads,    \* SmsPlugin.threads: per device and thread the dates stored
    pdReplies,    \* what the last handler answered
    pdNewest,     \* ghost: per device, the newest date received on this link
    pdLossy,      \* ghost: devices that lost a message, or sent two of one date
    pdLeft        \* packets left

pdVars == <<pdUp, pdBattery, pdReport, pdLocked, pdCommands, pdSinks, pdThreads, pdReplies,
            pdNewest, pdLossy, pdLeft>>

pdPlain == <<pdBattery, pdReport, pdLocked, pdCommands, pdSinks>>

-----------------------------------------------------------------------------
PdLists == [keys : SUBSET PdKeys, canAdd : BOOLEAN]

PdNoSinks == [k \in PdKeys |-> PdNone]
PdSinkMaps == [PdKeys -> PdValues \cup {"unset", PdNone}]

PdTypeOK ==
    /\ pdSinks \in [PdDevices -> PdSinkMaps]
    /\ pdUp \subseteq PdDevices
    /\ pdBattery \in [PdDevices -> PdValues \cup {PdNone}]
    /\ pdReport \in [PdDevices -> PdValues \cup {PdNone}]
    /\ pdLocked \in [PdDevices -> {PdNone, "locked", "open"}]
    /\ \A d \in PdDevices : pdCommands[d] \in {<<>>} \cup {<<l>> : l \in PdLists}
    /\ pdThreads \in [PdDevices -> [PdThreads -> Seq(PdDates)]]
    /\ \A d \in PdDevices, t \in PdThreads : Len(pdThreads[d][t]) <= PdMaxMessages
    /\ pdReplies \in Seq({"lockResult", "isLocked"})

PdInit ==
    /\ pdUp = {}
    /\ pdBattery = [d \in PdDevices |-> PdNone] /\ pdReport = pdBattery
    /\ pdLocked = pdBattery /\ pdCommands = [d \in PdDevices |-> <<>>]
    /\ pdSinks = [d \in PdDevices |-> PdNoSinks]
    /\ pdThreads = [d \in PdDevices |-> [t \in PdThreads |-> <<>>]]
    /\ pdReplies = <<>>
    /\ pdNewest = [d \in PdDevices |-> 0] /\ pdLossy = {}
    /\ pdLeft = PdPackets

(* A packet of a device whose link is up. *)
PdPacket(d) ==
    /\ d \in pdUp /\ pdLeft > 0
    /\ pdLeft' = pdLeft - 1
    /\ UNCHANGED pdUp

-----------------------------------------------------------------------------
PdBattery ==
    \E d \in PdDevices, v \in PdValues :
        /\ PdPacket(d)
        /\ pdBattery' = [pdBattery EXCEPT ![d] = v]
        /\ pdReplies' = <<>>
        /\ UNCHANGED <<pdReport, pdLocked, pdCommands, pdSinks, pdThreads, pdNewest, pdLossy>>

(* One report per SIM: each insert replaces the one before, so the last of    *)
(* the object's entries stays.                                              *)
PdLastReport(d, sims) == IF sims = <<>> THEN pdReport[d] ELSE sims[Len(sims)]

PdConnectivity ==
    \E d \in PdDevices, sims \in UNION {[1..n -> PdValues] : n \in 0..2} :
        /\ PdPacket(d)
        /\ pdReport' = [pdReport EXCEPT ![d] = PdLastReport(d, sims)]
        /\ pdReplies' = <<>>
        /\ UNCHANGED <<pdBattery, pdLocked, pdCommands, pdSinks, pdThreads, pdNewest, pdLossy>>

(* The four fields of a lock packet are independent of each other; the        *)
(* desktop cannot be locked, and says so.                                   *)
PdLockReplies(set, asked) ==
    (IF set = "lock" THEN <<"lockResult">> ELSE <<>>)
      \o (IF set # PdNone THEN <<"isLocked">> ELSE <<>>)
      \o (IF asked THEN <<"isLocked">> ELSE <<>>)

PdLock ==
    \E d \in PdDevices, is \in {PdNone, "locked", "open"}, set \in {PdNone, "lock", "unlock"},
       asked \in BOOLEAN :
        /\ PdPacket(d)
        /\ pdLocked' = IF is = PdNone THEN pdLocked ELSE [pdLocked EXCEPT ![d] = is]
        /\ pdReplies' = PdLockReplies(set, asked)
        /\ UNCHANGED <<pdBattery, pdReport, pdCommands, pdSinks, pdThreads, pdNewest, pdLossy>>

(* A list that does not parse leaves the previous one; an entry that does     *)
(* not parse is left out.                                                   *)
PdCommandList ==
    \E d \in PdDevices, parses \in BOOLEAN, list \in PdLists, bad \in SUBSET PdKeys :
        /\ PdPacket(d)
        /\ pdCommands' = IF parses
                         THEN [pdCommands EXCEPT ![d] = <<[list EXCEPT !.keys = @ \ bad]>>]
                         ELSE pdCommands
        /\ pdReplies' = <<>>
        /\ UNCHANGED <<pdBattery, pdReport, pdLocked, pdSinks, pdThreads, pdNewest, pdLossy>>

-----------------------------------------------------------------------------
(* A list of sinks replaces the one before, without its entries that have no *)
(* name or do not parse; a change applies to a sink of the last list only,    *)
(* and a field it does not name stays.                                      *)
PdListed(list, bad) == [k \in PdKeys |-> IF k \in bad THEN PdNone ELSE list[k]]

PdChanged(sinks, k, v) ==
    IF sinks[k] = PdNone \/ v = "unset" THEN sinks ELSE [sinks EXCEPT ![k] = v]

PdSinks ==
    \E d \in PdDevices :
        /\ PdPacket(d)
        /\ \/ \E list \in PdSinkMaps, bad \in SUBSET PdKeys :
                 pdSinks' = [pdSinks EXCEPT ![d] = PdListed(list, bad)]
           \/ \E k \in PdKeys, v \in PdValues \cup {"unset"} :
                 pdSinks' = [pdSinks EXCEPT ![d] = PdChanged(@, k, v)]
        /\ pdReplies' = <<>>
        /\ UNCHANGED <<pdBattery, pdReport, pdLocked, pdCommands, pdThreads, pdNewest, pdLossy>>

-----------------------------------------------------------------------------
(* Text messages. *)

PdStored(threads) == {t \in PdThreads : threads[t] # <<>>}
PdNewestOf(thread) == Max({0} \cup Range(thread))

(* The thread to go is the one whose newest message is oldest; among equals   *)
(* the order of the hash map decides.                                       *)
PdVictims(threads) ==
    {t \in PdStored(threads) : \A u \in PdStored(threads) :
        PdNewestOf(threads[t]) <= PdNewestOf(threads[u])}

PdRoom(threads, t) ==
    IF threads[t] = <<>> /\ Cardinality(PdStored(threads)) >= PdMaxThreads
    THEN {[threads EXCEPT ![v] = <<>>] : v \in PdVictims(threads)}
    ELSE {threads}

PdKeepLatest(thread) ==
    IF Len(thread) > PdMaxMessages
    THEN SubSeq(thread, Len(thread) - PdMaxMessages + 1, Len(thread))
    ELSE thread

PdSms ==
    \E d \in PdDevices, t \in PdThreads, date \in PdDates :
        /\ PdPacket(d)
        /\ \E roomy \in PdRoom(pdThreads[d], t) :
              pdThreads' = [pdThreads EXCEPT ![d] =
                              [roomy EXCEPT ![t] = PdKeepLatest(Append(@, date))]]
        /\ pdNewest' = [pdNewest EXCEPT ![d] = Max({@, date})]
        /\ pdLossy' = IF Len(pdThreads[d][t]) = PdMaxMessages \/ date = pdNewest[d]
                      THEN pdLossy \cup {d} ELSE pdLossy
        /\ pdReplies' = <<>>
        /\ UNCHANGED pdPlain

-----------------------------------------------------------------------------
PdConnect ==
    \E d \in PdDevices \ pdUp :
        /\ pdUp' = pdUp \cup {d}
        /\ UNCHANGED <<pdPlain, pdThreads, pdReplies, pdNewest, pdLossy, pdLeft>>

(* The on_disconnected of the six plugins. *)
PdDisconnect ==
    \E d \in pdUp :
        /\ pdUp' = pdUp \ {d}
        /\ pdBattery' = [pdBattery EXCEPT ![d] = PdNone]
        /\ pdReport' = [pdReport EXCEPT ![d] = PdNone]
        /\ pdLocked' = [pdLocked EXCEPT ![d] = PdNone]
        /\ pdCommands' = [pdCommands EXCEPT ![d] = <<>>]
        /\ pdSinks' = [pdSinks EXCEPT ![d] = PdNoSinks]
        /\ pdThreads' = [pdThreads EXCEPT ![d] = [t \in PdThreads |-> <<>>]]
        /\ pdNewest' = [pdNewest EXCEPT ![d] = 0]
        /\ pdLossy' = pdLossy \ {d}
        /\ pdReplies' = <<>>
        /\ UNCHANGED pdLeft

PdNext ==
    \/ PdBattery \/ PdConnectivity \/ PdLock \/ PdCommandList \/ PdSinks \/ PdSms
    \/ PdConnect \/ PdDisconnect

PdSpec == PdInit /\ [][PdNext]_pdVars

-----------------------------------------------------------------------------
(* The conversation with the newest message stays, however many others the    *)
(* phone lists after it, unless its thread overflowed or two messages share   *)
(* the newest date.                                                         *)
NewestThreadKept ==
    \A d \in pdUp \ pdLossy :
        pdNewest[d] # 0 => \E t \in PdThreads : PdNewestOf(pdThreads[d][t]) = pdNewest[d]
=============================================================================
