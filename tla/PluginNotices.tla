--------------------------- MODULE PluginNotices ---------------------------
(***************************************************************************)
(* How plugins learn that a device came and went: notify_connected and     *)
(* notify_disconnected of plugins/registry.rs, send_plugin_init_packets of *)
(* app.rs, and their callers in the packet loop and the API.               *)
(*                                                                         *)
(* A session is a link of the device: accepted or dialled, put in the slot,*)
(* registered, its packet loop run and ended.  Plugin state is what packets*)
(* of a paired device have put into the maps of the plugins (ntcHeld).     *)
(*                                                                         *)
(* The inhibit slot of plugins/screensaver_inhibit.rs follows the notices. *)
(* on_connected and on_disconnected change it under its mutex and leave the*)
(* calls to the screensaver service to tasks of their own; a task remembers*)
(* the generation it was started for, and the cookie it is given is known  *)
(* by that number.                                                         *)
(***************************************************************************)
EXTENDS Naturals, FiniteSets

CONSTANTS
    NtcSessions,    \* the links of the device, 1..n, in the order they begin
    NtcAttempts,    \* passes of send_plugin_init_packets
    NtcApiCalls,    \* bound on API calls
    InhNotices,     \* bound on the notices to the screensaver plugin
    InhFaults       \* {"bus"}: calls to the screensaver service may fail

ASSUME NtcAssumption ==
    /\ IsFiniteSet(NtcSessions) /\ NtcSessions = 1..Cardinality(NtcSessions)
    /\ NtcAttempts \in Nat \ {0}
    /\ {NtcApiCalls, InhNotices} \subseteq Nat

VARIABLES
    ntcLink,        \* the session in the slot, 0 when it is empty
    ntcToken,       \* the session whose cancel token is registered, or 0
    ntcCancelled,   \* sessions whose token is cancelled
    ntcLast,        \* ghost: the last session that took the slot
    ntcTask,        \* session -> label of its task
    ntcOut,         \* sessions that we dialled; the others are accepted
    ntcInit,        \* session -> label of its init task
    ntcTry,         \* session -> passes its init task has left
    ntcApi,         \* label of an API call
    ntcGen,         \* the session the API call read from the slot
    ntcCalls,       \* API calls made
    ntcPaired,      \* the device is paired
    ntcHeld,        \* the session whose packet wrote plugin state, 0 for none
    ntcTold,        \* the last notice the plugins were given
    inhGen,         \* the slot's generation
    inhState,       \* "Idle", "Inhibiting" or "Inhibited"
    inhCookie,      \* the slot's cookie when Inhibited
    inhCalls,       \* generations whose Inhibit call is in flight
    inhGranted,     \* cookies answered, their task not yet back at the slot
    inhReleasing,   \* cookies whose bounded_uninhibit is in flight
    inhBus,         \* cookies the screensaver service holds for us
    inhLost         \* cookies whose release failed or timed out

-----------------------------------------------------------------------------
(* The inhibit slot. *)

inhVars == <<inhGen, inhState, inhCookie, inhCalls, inhGranted, inhReleasing,
             inhBus, inhLost>>

InhInit ==
    /\ inhGen = 0
    /\ inhState = "Idle"
    /\ inhCookie = 0
    /\ inhCalls = {}
    /\ inhGranted = {}
    /\ inhReleasing = {}
    /\ inhBus = {}
    /\ inhLost = {}

\* The cookie std::mem::replace takes out of the slot.
InhTaken == IF inhState = "Inhibited" THEN {inhCookie} ELSE {}

\* on_connected: begin_connect, the release of a cookie still in the slot and
\* the Inhibit call.
InhOnConnected ==
    /\ inhGen' = inhGen + 1
    /\ inhState' = "Inhibiting"
    /\ inhCookie' = 0
    /\ inhReleasing' = inhReleasing \cup InhTaken
    /\ inhCalls' = inhCalls \cup {inhGen + 1}
    /\ UNCHANGED <<inhGranted, inhBus, inhLost>>

\* on_disconnected: begin_disconnect and the awaited release.
InhOnDisconnected ==
    /\ inhGen' = inhGen + 1
    /\ inhState' = "Idle"
    /\ inhCookie' = 0
    /\ inhReleasing' = inhReleasing \cup InhTaken
    /\ UNCHANGED <<inhCalls, inhGranted, inhBus, inhLost>>

\* The service answers an Inhibit call.
InhGrant(g) ==
    /\ g \in inhCalls
    /\ inhCalls' = inhCalls \ {g}
    /\ \/ /\ inhGranted' = inhGranted \cup {g}
          /\ inhBus' = inhBus \cup {g}
       \/ "bus" \in InhFaults /\ UNCHANGED <<inhGranted, inhBus>>
    /\ UNCHANGED <<inhGen, inhState, inhCookie, inhReleasing, inhLost>>

\* Back at the slot: the cookie is stored if the generation is still the
\* task's own, and released by the task if not.
InhDecide(g) ==
    /\ g \in inhGranted
    /\ inhGranted' = inhGranted \ {g}
    /\ IF g = inhGen
       THEN /\ inhState' = "Inhibited"
            /\ inhCookie' = g
            /\ UNCHANGED inhReleasing
       ELSE /\ inhReleasing' = inhReleasing \cup {g}
            /\ UNCHANGED <<inhState, inhCookie>>
    /\ UNCHANGED <<inhGen, inhCalls, inhBus, inhLost>>

\* bounded_uninhibit returns: the cookie is gone, or the call failed or did
\* not return within its five seconds and is given up.
InhRelease(c) ==
    /\ c \in inhReleasing
    /\ inhReleasing' = inhReleasing \ {c}
    /\ \/ inhBus' = inhBus \ {c} /\ UNCHANGED inhLost
       \/ /\ "bus" \in InhFaults
          /\ inhLost' = inhLost \cup {c}
          /\ UNCHANGED inhBus
    /\ UNCHANGED <<inhGen, inhState, inhCookie, inhCalls, inhGranted>>

\* The steps of the plugin's own tasks.
InhTasks ==
    \/ \E g \in inhCalls : InhGrant(g)
    \/ \E g \in inhGranted : InhDecide(g)
    \/ \E c \in inhReleasing : InhRelease(c)

\* Notices of coming and going reach the plugin in any order: the connect notice
\* is given half a second late, and again by every pass.
InhNext ==
    \/ inhGen < InhNotices /\ (InhOnConnected \/ InhOnDisconnected)
    \/ InhTasks

InhSpec == InhInit /\ [][InhNext]_inhVars

InhTypeOK ==
    /\ inhGen \in Nat
    /\ inhState \in {"Idle", "Inhibiting", "Inhibited"}
    /\ inhCookie \in 0..inhGen
    /\ inhCalls \cup inhGranted \cup inhReleasing \cup inhBus \cup inhLost \subseteq 1..inhGen

\* Every cookie the screensaver service holds for us is the slot's, or a task
\* is on its way to store or release it, or its release was tried and given
\* up: no order of connects, disconnects and late answers loses one.
CookiesAccounted ==
    inhBus \subseteq InhTaken \cup inhGranted \cup inhReleasing \cup inhLost

-----------------------------------------------------------------------------
(* The links of the device and who tells the plugins. *)

ntcSlot == <<ntcLink, ntcToken, ntcCancelled, ntcLast>>
ntcTasks == <<ntcTask, ntcOut>>
ntcInits == <<ntcInit, ntcTry>>
ntcRequest == <<ntcApi, ntcGen, ntcCalls>>
ntcDevice == <<ntcPaired, ntcHeld, ntcTold>>
ntcVars == <<ntcSlot, ntcTasks, ntcInits, ntcRequest, ntcDevice>>

NtcInit ==
    /\ ntcLink = 0 /\ ntcToken = 0 /\ ntcCancelled = {} /\ ntcLast = 0
    /\ ntcTask = [s \in NtcSessions |-> "new"]
    /\ ntcOut = {}
    /\ ntcInit = [s \in NtcSessions |-> "none"]
    /\ ntcTry = [s \in NtcSessions |-> 0]
    /\ ntcApi = "idle"
    /\ ntcGen = 0 /\ ntcCalls = 0
    /\ ntcPaired = TRUE
    /\ ntcHeld = 0 /\ ntcTold = "gone"

NtcGo(s, label) == ntcTask' = [ntcTask EXCEPT ![s] = label]

NtcNew(s) == ntcTask[s] = "new" /\ \A r \in NtcSessions : r < s => ntcTask[r] # "new"

NtcTakes(s) == ntcLink' = s /\ ntcLast' = s

\* accept_incoming puts the link into the slot; one that was there is evicted
\* after the lock is released.
NtcAccept(s) ==
    /\ NtcNew(s)
    /\ NtcTakes(s)
    /\ NtcGo(s, IF ntcLink # 0 THEN "evict" ELSE "setup")
    /\ UNCHANGED <<ntcToken, ntcCancelled, ntcOut, ntcInits, ntcRequest, ntcDevice>>

\* cancel_loop and remove_cancel_token: whatever token is registered by now.
\* (Links has the two apart.)
NtcCancelLoop ==
    /\ ntcCancelled' = ntcCancelled \cup ({ntcToken} \ {0})
    /\ ntcToken' = 0

NtcEvict(s) ==
    /\ ntcTask[s] = "evict"
    /\ NtcCancelLoop
    /\ NtcGo(s, "setup")
    /\ UNCHANGED <<ntcLink, ntcLast, ntcOut, ntcInits, ntcRequest, ntcDevice>>

\* connect_to_device cancels the loop of the link it has found in the slot, and
\* puts its own there later.
NtcDial(s) ==
    /\ NtcNew(s)
    /\ IF ntcLink # 0 THEN NtcCancelLoop ELSE UNCHANGED <<ntcToken, ntcCancelled>>
    /\ NtcGo(s, "insert")
    /\ ntcOut' = ntcOut \cup {s}
    /\ UNCHANGED <<ntcLink, ntcLast, ntcInits, ntcRequest, ntcDevice>>

NtcInsert(s) ==
    /\ ntcTask[s] = "insert"
    /\ NtcTakes(s)
    /\ NtcGo(s, "setup")
    /\ UNCHANGED <<ntcToken, ntcCancelled, ntcOut, ntcInits, ntcRequest, ntcDevice>>

\* register_cancel_token_if_current: a link that has lost the slot is left
\* without a word; 500 ms later a paired device is to receive the init packets.
NtcRegister(s) ==
    /\ ntcTask[s] = "setup"
    /\ IF ntcLink = s
       THEN /\ ntcToken' = s
            /\ NtcGo(s, "loop")
            /\ ntcInit' = [ntcInit EXCEPT ![s] = IF ntcPaired THEN "sleep" ELSE "none"]
       ELSE NtcGo(s, "cut") /\ UNCHANGED <<ntcToken, ntcInit>>
    /\ UNCHANGED <<ntcLink, ntcCancelled, ntcLast, ntcOut, ntcTry, ntcRequest, ntcDevice>>

\* accept_incoming is timed out behind its insert, or the handler of
\* connect_device is dropped: the link stays, with no task to read it.
NtcAbandoned(s) ==
    /\ ntcTask[s] = "evict" \/ (ntcTask[s] = "setup" /\ s \in ntcOut)
    /\ NtcGo(s, "cut")
    /\ UNCHANGED <<ntcSlot, ntcOut, ntcInits, ntcRequest, ntcDevice>>

\* recv_packet_current reads from its own generation only, and packets of
\* paired devices are routed.
NtcReceive(s) ==
    /\ ntcTask[s] = "loop"
    /\ ntcLink = s
    /\ ntcPaired
    /\ NtcGo(s, "handler")
    /\ UNCHANGED <<ntcSlot, ntcOut, ntcInits, ntcRequest, ntcDevice>>

\* The handler writes its plugin's state, in its own time.
NtcPacket(s) ==
    /\ ntcTask[s] = "handler"
    /\ ntcHeld' = s
    /\ NtcGo(s, "loop")
    /\ UNCHANGED <<ntcSlot, ntcOut, ntcInits, ntcRequest, ntcPaired, ntcTold>>

\* Mutant of NtcOwns: an empty slot is not the caller's.
NtcOwnsStrictly(s) == ntcLink = s

\* disconnect answers true: the slot holds this session or nothing.
NtcOwns(s) == ntcLink \in {s, 0}

\* What disconnect does then.
NtcFree == ntcLink' = 0 /\ ntcToken' = 0 /\ UNCHANGED <<ntcCancelled, ntcLast>>

\* A failed write disconnects and tells nobody.
NtcSendFails ==
    /\ ntcLink # 0
    /\ NtcFree
    /\ UNCHANGED <<ntcTasks, ntcInits, ntcRequest, ntcDevice>>

\* The loop ends: the read failed, the peer unpaired, the device was idle or the
\* daemon stops.  An accepted link whose identity exchange fails ends alike.
NtcLoopEnds(s) ==
    /\ ntcTask[s] = "loop" \/ (ntcTask[s] = "setup" /\ s \notin ntcOut)
    /\ IF NtcOwns(s)
       THEN NtcFree /\ NtcGo(s, "guard")
       ELSE NtcGo(s, "done") /\ UNCHANGED ntcSlot
    /\ UNCHANGED <<ntcOut, ntcInits, ntcRequest, ntcDevice>>

\* The cancel arm, and the arm of a refused pair request: no notice.  The
\* listener disconnects after the loop, the tasks that dialled do not.
NtcLoopCut(s) ==
    /\ ntcTask[s] = "loop"
    /\ s \in ntcCancelled \/ ~ntcPaired
    /\ IF s \notin ntcOut /\ NtcOwns(s) THEN NtcFree ELSE UNCHANGED ntcSlot
    /\ NtcGo(s, "cut")
    /\ UNCHANGED <<ntcOut, ntcInits, ntcRequest, ntcDevice>>

\* notify_disconnected stands down while a live link holds the device.
NtcStandsDown == ntcLink # 0

NtcGuard(s) ==
    /\ ntcTask[s] = "guard"
    /\ NtcGo(s, IF NtcStandsDown THEN "done" ELSE "notify")
    /\ UNCHANGED <<ntcSlot, ntcOut, ntcInits, ntcRequest, ntcDevice>>

\* on_disconnected of every plugin.
NtcDispatch ==
    /\ ntcHeld' = 0
    /\ ntcTold' = "gone"

NtcNotify(s) ==
    /\ ntcTask[s] = "notify"
    /\ NtcDispatch
    /\ NtcGo(s, "done")
    /\ UNCHANGED <<ntcSlot, ntcOut, ntcInits, ntcRequest, ntcPaired>>

\* send_plugin_init_packets looks at the pairing once.
NtcInitStart(s) ==
    /\ ntcInit[s] = "sleep"
    /\ ntcInit' = [ntcInit EXCEPT ![s] = IF ntcPaired THEN "wait" ELSE "done"]
    /\ ntcTry' = [ntcTry EXCEPT ![s] = IF ntcPaired THEN NtcAttempts ELSE 0]
    /\ UNCHANGED <<ntcSlot, ntcTasks, ntcRequest, ntcDevice>>

\* A pass: a live link has been seen or the two seconds are over, and
\* notify_connected calls every plugin either way.
NtcInitNotify(s) ==
    /\ ntcInit[s] = "wait"
    /\ ntcTold' = "here"
    /\ ntcInit' = [ntcInit EXCEPT ![s] = "send"]
    /\ UNCHANGED <<ntcSlot, ntcTasks, ntcTry, ntcRequest, ntcPaired, ntcHeld>>

\* The packets of the pass are sent, or one fails and the next pass begins.
NtcInitSend(s) ==
    /\ ntcInit[s] = "send"
    /\ \/ /\ ntcLink # 0
          /\ ntcInit' = [ntcInit EXCEPT ![s] = "done"]
          /\ ntcTry' = [ntcTry EXCEPT ![s] = 0]
       \/ /\ ntcInit' = [ntcInit EXCEPT ![s] = IF ntcTry[s] > 1 THEN "wait" ELSE "done"]
          /\ ntcTry' = [ntcTry EXCEPT ![s] = @ - 1]
    /\ UNCHANGED <<ntcSlot, ntcTasks, ntcRequest, ntcDevice>>

\* disconnect_device, unpair_device and delete_device read the generation.
NtcApiLookup ==
    /\ ntcApi = "idle"
    /\ ntcCalls < NtcApiCalls
    /\ ntcLink # 0
    /\ ntcCalls' = ntcCalls + 1
    /\ ntcGen' = ntcLink
    /\ ntcApi' \in {"disconnect", "unpair", "delete"}
    /\ UNCHANGED <<ntcSlot, ntcTasks, ntcInits, ntcDevice>>

\* The disconnect of the three calls: disconnect_device notifies when it owned
\* the link, unpair_device in any case, delete_device leaves it to the loop.
NtcApiTearDown ==
    /\ ntcApi \in {"disconnect", "unpair", "delete"}
    /\ IF NtcOwns(ntcGen) THEN NtcFree ELSE UNCHANGED ntcSlot
    /\ ntcApi' = CASE ntcApi = "disconnect" /\ NtcOwns(ntcGen) -> "guard"
                   [] ntcApi = "disconnect" /\ ~NtcOwns(ntcGen) -> "idle"
                   [] ntcApi = "unpair" -> "unpairGuard"
                   [] ntcApi = "delete" -> "unpaired"
    /\ ntcGen' = 0
    /\ UNCHANGED <<ntcCalls, ntcTasks, ntcInits, ntcDevice>>

NtcApiGuard ==
    \/ /\ ntcApi = "guard"
       /\ ntcApi' = IF NtcStandsDown THEN "idle" ELSE "notify"
       /\ UNCHANGED <<ntcSlot, ntcTasks, ntcInits, ntcGen, ntcCalls, ntcDevice>>
    \/ /\ ntcApi = "unpairGuard"
       /\ ntcApi' = IF NtcStandsDown THEN "unpaired" ELSE "unpairNotify"
       /\ UNCHANGED <<ntcSlot, ntcTasks, ntcInits, ntcGen, ntcCalls, ntcDevice>>

NtcApiNotify ==
    /\ ntcApi \in {"notify", "unpairNotify"}
    /\ NtcDispatch
    /\ ntcApi' = IF ntcApi = "notify" THEN "idle" ELSE "unpaired"
    /\ UNCHANGED <<ntcSlot, ntcTasks, ntcInits, ntcGen, ntcCalls, ntcPaired>>

\* PairingHandler::unpair ends unpair_device and delete_device.
NtcApiUnpaired ==
    /\ ntcApi = "unpaired"
    /\ ntcPaired' = FALSE
    /\ ntcApi' = "idle"
    /\ UNCHANGED <<ntcSlot, ntcTasks, ntcInits, ntcGen, ntcCalls, ntcHeld, ntcTold>>

NtcNext ==
    \/ \E s \in NtcSessions :
          \/ NtcAccept(s) \/ NtcEvict(s) \/ NtcDial(s) \/ NtcInsert(s)
          \/ NtcRegister(s) \/ NtcAbandoned(s) \/ NtcReceive(s) \/ NtcPacket(s)
          \/ NtcLoopEnds(s) \/ NtcLoopCut(s) \/ NtcGuard(s) \/ NtcNotify(s)
          \/ NtcInitStart(s) \/ NtcInitNotify(s) \/ NtcInitSend(s)
    \/ NtcSendFails
    \/ NtcApiLookup \/ NtcApiTearDown \/ NtcApiGuard \/ NtcApiNotify \/ NtcApiUnpaired

NtcSpec == NtcInit /\ [][NtcNext]_ntcVars

NtcTypeOK ==
    /\ {ntcLink, ntcToken, ntcLast} \subseteq NtcSessions \cup {0}
    /\ ntcCancelled \cup ntcOut \subseteq NtcSessions
    /\ ntcTask \in [NtcSessions -> {"new", "evict", "insert", "setup", "loop", "handler",
                                   "guard", "notify", "done", "cut"}]
    /\ ntcInit \in [NtcSessions -> {"none", "sleep", "wait", "send", "done"}]
    /\ ntcTry \in [NtcSessions -> 0..NtcAttempts]
    /\ ntcApi \in {"idle", "disconnect", "unpair", "delete", "guard", "notify",
                   "unpairGuard", "unpairNotify", "unpaired"}
    /\ ntcCalls \in 0..NtcApiCalls
    /\ {ntcGen, ntcHeld} \subseteq NtcSessions \cup {0}
    /\ ntcPaired \in BOOLEAN /\ ntcTold \in {"here", "gone"}

\* No task of the device is under way.
NtcQuiet ==
    /\ ntcLink = 0
    /\ ntcApi = "idle"
    /\ \A s \in NtcSessions : ntcTask[s] \in {"new", "done", "cut"} /\ ntcInit[s] \in {"none", "done"}

\* What a device has sent does not outlive its last link: once every task, API
\* call and notice is done, a plugin holds nothing of it, whatever redials,
\* evictions, failed writes and stale notices came in between.  What can be left
\* is left by a loop that ended at an arm without a notice: the one that wrote it,
\* or the one of the last link in the slot.
StateGoesWithSession ==
    NtcQuiet /\ ntcHeld # 0 => ntcTask[ntcHeld] = "cut" \/ ntcTask[ntcLast] = "cut"

\* "keep the desktop's screensaver from locking while a paired phone is
\* connected" (screensaver_inhibit.rs): when the last link is gone and all
\* tasks are done, the last notice was that of its going.
InhibitGoesWithSession == NtcQuiet => ntcTold = "gone"
=============================================================================
