--------------------------- MODULE DeviceRegistry ---------------------------
(***************************************************************************)
(* device/registry.rs with device/lifecycle.rs: the record of every device,*)
(* its state, the cap on unpaired records and the file of paired ones.     *)
(*                                                                         *)
(* A task runs one call.  A step is one section under the devices lock, or *)
(* the write of the file under save_lock.  A record is its lifecycle       *)
(* state; last_seen is the order of regSeen, oldest first.  Production     *)
(* code asks the lifecycle for Connected and Disconnected only.            *)
(***************************************************************************)
EXTENDS Naturals, Sequences, FiniteSets

CONSTANTS
    RegIds,         \* device ids
    RegTasks,       \* concurrent calls
    RegCap,         \* MAX_UNPAIRED_DEVICES
    RegCalls,       \* bound: calls made in a behaviour
    RegFaults,      \* "save": writing the file may fail; "drop": a handler of the API
                    \* may be dropped with its client
    RegNone         \* no id, no task

ASSUME RegAssumption == RegCap \in Nat \ {0} /\ RegNone \notin RegIds \cup RegTasks

VARIABLES
    regMap,         \* devices: id -> lifecycle state
    regSeen,        \* ids of regMap by last_seen
    regPaired,      \* paired_ids, shared with PairingHandler
    regFile,        \* what is on disk: id -> state
    regLock,        \* the task holding save_lock
    regPc, regDev, regRet, regSnap, \* each task: label, device, return label, snapshot
    regCalls,       \* calls made
    regFailed       \* a save has failed, or its handler was dropped, and none was begun since

regVars == <<regMap, regSeen, regPaired, regFile, regLock, regPc, regDev, regRet,
             regSnap, regCalls, regFailed>>

RegStates == {"Discovered", "Pairing", "Paired", "Connected", "Disconnected"}

\* can_transition_to.
RegCanTransition ==
    {<<"Discovered", "Pairing">>, <<"Discovered", "Connected">>, <<"Pairing", "Paired">>,
     <<"Pairing", "Connected">>, <<"Paired", "Connected">>, <<"Connected", "Disconnected">>,
     <<"Connected", "Connected">>, <<"Pairing", "Discovered">>, <<"Connected", "Paired">>,
     <<"Disconnected", "Discovered">>, <<"Disconnected", "Paired">>,
     <<"Disconnected", "Connected">>, <<"Paired", "Pairing">>}

\* The order of last_seen over a set of ids.
RegOrders(S) ==
    {o \in [1..Cardinality(S) -> S] : \A d \in S : \E i \in DOMAIN o : o[i] = d}

\* The daemon starts with the paired devices of its last run.
RegInit ==
    /\ regPaired \in SUBSET RegIds
    /\ regMap = [d \in regPaired |-> "Disconnected"]
    /\ regFile = regMap
    /\ regSeen \in RegOrders(regPaired)
    /\ regLock = RegNone
    /\ regPc = [t \in RegTasks |-> "idle"]
    /\ regDev = [t \in RegTasks |-> RegNone]
    /\ regRet = [t \in RegTasks |-> "idle"]
    /\ regSnap = [t \in RegTasks |-> << >>]
    /\ regCalls = 0
    /\ regFailed = FALSE

RegOnly(f, S) == [d \in DOMAIN f \cap S |-> f[d]]

RegKnown(d) == d \in DOMAIN regMap

\* update_last_seen.
RegTouch(d) == Append(SelectSeq(regSeen, LAMBDA e : e # d), d)

\* enforce_unpaired_cap: the oldest unpaired records make room for d.
RegEvicted(d) ==
    LET unpaired == SelectSeq(regSeen, LAMBDA e : e \notin regPaired)
        excess == Len(unpaired) - RegCap + 1
    IN  IF d \in regPaired \/ Len(unpaired) < RegCap
        THEN {} ELSE {unpaired[i] : i \in 1..excess}

\* A new record, Discovered, after the eviction.
RegInsert(d) ==
    LET keep == DOMAIN regMap \ RegEvicted(d) IN
    /\ regMap' = [e \in keep \cup {d} |-> IF e = d THEN "Discovered" ELSE regMap[e]]
    /\ regSeen' = Append(SelectSeq(regSeen, LAMBDA e : e \in keep), d)

\* A task takes up its next call.
RegCall(t) ==
    /\ regPc[t] = "idle"
    /\ regCalls < RegCalls
    /\ regCalls' = regCalls + 1

RegGoto(t, label) == regPc' = [regPc EXCEPT ![t] = label]

RegCallSave(t, ret) == RegGoto(t, "save") /\ regRet' = [regRet EXCEPT ![t] = ret]

\* upsert_device, called for every device discovery hears of.
RegUpsert(t, d) ==
    /\ RegCall(t)
    /\ IF RegKnown(d) THEN regSeen' = RegTouch(d) /\ UNCHANGED regMap ELSE RegInsert(d)
    /\ RegCallSave(t, "idle")
    /\ UNCHANGED <<regPaired, regFile, regLock, regDev, regSnap, regFailed>>

\* ensure_and_transition(Connected): the look at the map,
RegEnsure(t, d) ==
    /\ RegCall(t)
    /\ regDev' = [regDev EXCEPT ![t] = d]
    /\ RegGoto(t, IF RegKnown(d) THEN "refresh" ELSE "add")
    /\ UNCHANGED <<regMap, regSeen, regPaired, regFile, regLock, regRet, regSnap, regFailed>>

\* add, where a record made in the meantime is as good,
RegAdd(t) ==
    /\ regPc[t] = "add"
    /\ IF RegKnown(regDev[t])
       THEN RegGoto(t, "transition") /\ UNCHANGED <<regMap, regSeen, regRet>>
       ELSE RegInsert(regDev[t]) /\ RegCallSave(t, "transition")
    /\ UNCHANGED <<regPaired, regFile, regLock, regDev, regSnap, regCalls, regFailed>>

\* or the refresh of the identity, where a record removed in the meantime is an
\* error the caller only logs,
RegRefresh(t) ==
    /\ regPc[t] = "refresh"
    /\ IF RegKnown(regDev[t])
       THEN regSeen' = RegTouch(regDev[t]) /\ RegGoto(t, "transition") /\ UNCHANGED regDev
       ELSE RegGoto(t, "idle") /\ regDev' = [regDev EXCEPT ![t] = RegNone] /\ UNCHANGED regSeen
    /\ UNCHANGED <<regMap, regPaired, regFile, regLock, regRet, regSnap, regCalls, regFailed>>

\* transition under one write lock: allowed moves only, and nothing at all for
\* a record that is gone.
RegTransition(d, to) ==
    IF RegKnown(d) /\ regMap[d] # to /\ <<regMap[d], to>> \in RegCanTransition
    THEN regMap' = [regMap EXCEPT ![d] = to] /\ regSeen' = RegTouch(d)
    ELSE UNCHANGED <<regMap, regSeen>>

\* and the transition.
RegConnected(t) ==
    /\ regPc[t] = "transition"
    /\ RegTransition(regDev[t], "Connected")
    /\ regDev' = [regDev EXCEPT ![t] = RegNone]
    /\ RegGoto(t, "idle")
    /\ UNCHANGED <<regPaired, regFile, regLock, regRet, regSnap, regCalls, regFailed>>

\* try_transition(Disconnected) of a loop or an API call.
RegDisconnected(d) ==
    /\ RegTransition(d, "Disconnected")
    /\ UNCHANGED <<regPaired, regFile, regLock, regPc, regDev, regRet, regSnap, regCalls, regFailed>>

\* delete_device of a known device: the pairing goes first,
RegDelete(t, d) ==
    /\ RegCall(t)
    /\ RegKnown(d)
    /\ regPaired' = regPaired \ {d}
    /\ regDev' = [regDev EXCEPT ![t] = d]
    /\ RegGoto(t, "remove")
    /\ UNCHANGED <<regMap, regSeen, regFile, regLock, regRet, regSnap, regFailed>>

\* then the record, through the registry and once more through the lifecycle.
RegRemove(t) ==
    LET d == regDev[t]
        next == IF regPc[t] = "remove" THEN "again" ELSE "idle"
    IN  /\ regPc[t] \in {"remove", "again"}
        /\ IF RegKnown(d)
           THEN /\ regMap' = RegOnly(regMap, RegIds \ {d})
                /\ regSeen' = SelectSeq(regSeen, LAMBDA e : e # d)
                /\ RegCallSave(t, next)
                /\ UNCHANGED regDev
           ELSE /\ RegGoto(t, next)
                /\ regDev' = [regDev EXCEPT ![t] = IF next = "idle" THEN RegNone ELSE d]
                /\ UNCHANGED <<regMap, regSeen, regRet>>
        /\ UNCHANGED <<regPaired, regFile, regLock, regSnap, regCalls, regFailed>>

\* A handler of the API, for a deletion or a connection, ends with its client at any
\* await: what it has done stays, a save it has begun is lost and frees save_lock.
RegDrop(t) ==
    /\ "drop" \in RegFaults
    /\ regPc[t] # "idle" /\ regDev[t] # RegNone
    /\ RegGoto(t, "idle")
    /\ regDev' = [regDev EXCEPT ![t] = RegNone]
    /\ regSnap' = [regSnap EXCEPT ![t] = << >>]
    /\ regLock' = IF regPc[t] = "write" THEN RegNone ELSE regLock
    /\ regFailed' = (regFailed \/ regPc[t] \in {"save", "write"})
    /\ UNCHANGED <<regMap, regSeen, regPaired, regFile, regRet, regCalls>>

\* The save at shutdown.
RegShutdown(t) ==
    /\ RegCall(t)
    /\ RegCallSave(t, "idle")
    /\ UNCHANGED <<regMap, regSeen, regPaired, regFile, regLock, regDev, regSnap, regFailed>>

\* Mutant of RegSnapshot: saves do not exclude each other.
RegSnapshotUnlocked(t) ==
    /\ regPc[t] = "save"
    /\ regSnap' = [regSnap EXCEPT ![t] = RegOnly(regMap, regPaired)]
    /\ RegGoto(t, "write")
    /\ regFailed' = FALSE
    /\ UNCHANGED <<regMap, regSeen, regPaired, regFile, regLock, regDev, regRet, regCalls>>

\* save_to_disk: the records the pairing store knows, read under save_lock,
RegSnapshot(t) ==
    /\ regPc[t] = "save"
    /\ regLock = RegNone
    /\ regLock' = t
    /\ regSnap' = [regSnap EXCEPT ![t] = RegOnly(regMap, regPaired)]
    /\ RegGoto(t, "write")
    /\ regFailed' = FALSE
    /\ UNCHANGED <<regMap, regSeen, regPaired, regFile, regDev, regRet, regCalls>>

\* and the rename that puts them on disk.  Callers ignore a failure.
RegWrite(t) ==
    /\ regPc[t] = "write"
    /\ \/ regFile' = regSnap[t] /\ UNCHANGED regFailed
       \/ "save" \in RegFaults /\ regFailed' = TRUE /\ UNCHANGED regFile
    /\ regLock' = RegNone
    /\ regSnap' = [regSnap EXCEPT ![t] = << >>]
    /\ RegGoto(t, regRet[t])
    /\ regDev' = [regDev EXCEPT ![t] = IF regRet[t] = "idle" THEN RegNone ELSE @]
    /\ UNCHANGED <<regMap, regSeen, regPaired, regRet, regCalls>>

\* PairingHandler pairs and unpairs without the registry.
RegPairing(d) ==
    /\ RegKnown(d)
    /\ regCalls < RegCalls
    /\ regCalls' = regCalls + 1
    /\ regPaired' = IF d \in regPaired THEN regPaired \ {d} ELSE regPaired \cup {d}
    /\ UNCHANGED <<regMap, regSeen, regFile, regLock, regPc, regDev, regRet, regSnap, regFailed>>

\* A crash, and the load_from_disk and prune_stale_devices of the next start:
\* of the unpaired records that are not Connected any set may be over a month
\* old, and last_seen is as it was saved.
RegRestart ==
    \E old \in SUBSET DOMAIN regFile :
        LET pruned == {d \in old : d \notin regPaired /\ regFile[d] # "Connected"}
            kept == RegOnly(regFile, RegIds \ pruned)
        IN  /\ regMap' = kept
            /\ regSeen' \in RegOrders(DOMAIN kept)
            /\ regFile' = IF pruned = {} THEN regFile ELSE RegOnly(kept, regPaired)
            /\ regLock' = RegNone
            /\ regPc' = [t \in RegTasks |-> "idle"]
            /\ regDev' = [t \in RegTasks |-> RegNone]
            /\ regRet' = [t \in RegTasks |-> "idle"]
            /\ regSnap' = [t \in RegTasks |-> << >>]
            /\ regFailed' = FALSE
            /\ UNCHANGED <<regPaired, regCalls>>

RegNext ==
    \/ \E t \in RegTasks :
          \/ \E d \in RegIds : RegUpsert(t, d) \/ RegEnsure(t, d) \/ RegDelete(t, d)
          \/ RegAdd(t) \/ RegRefresh(t) \/ RegConnected(t) \/ RegRemove(t) \/ RegDrop(t)
          \/ RegShutdown(t) \/ RegSnapshot(t) \/ RegWrite(t)
    \/ \E d \in RegIds : RegDisconnected(d) \/ RegPairing(d)
    \/ RegRestart

RegSpec == RegInit /\ [][RegNext]_regVars

RegTypeOK ==
    /\ DOMAIN regMap \cup DOMAIN regFile \cup regPaired \subseteq RegIds
    /\ \A d \in DOMAIN regMap : regMap[d] \in RegStates
    /\ \A i, j \in DOMAIN regSeen : regSeen[i] = regSeen[j] => i = j
    /\ {regSeen[i] : i \in DOMAIN regSeen} = DOMAIN regMap
    /\ regLock \in RegTasks \cup {RegNone}
    /\ regPc \in [RegTasks -> {"idle", "add", "refresh", "transition", "remove", "again",
                              "save", "write"}]

\* A removed device stays removed: when no save is under way and none has
\* failed or was dropped, the file holds no record that memory does not, so no
\* overlap of saves, and no deletion that stopped half-way, brings a deleted
\* device back at the next start.
DeletedStaysDeleted ==
    (\A t \in RegTasks : regPc[t] \notin {"save", "write"}) /\ ~regFailed
        => DOMAIN regFile \subseteq DOMAIN regMap
=============================================================================
