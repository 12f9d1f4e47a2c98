---------------------------- MODULE InputCapture ----------------------------
(***************************************************************************)
(* The shareinputdevices plugin's portal session: the capability gate that *)
(* arms the pointer barrier while a capable peer is connected, the         *)
(* activation it runs, and the two ways the desktop ends a session (the    *)
(* portal's Disabled signal, the end of the EI stream).                    *)
(*                                                                         *)
(* Four kinds of actors share the session slot, the release callback and   *)
(* the availability flag: the eager evaluation at start, the gate's loop   *)
(* over device events, and for every session its signal handler and its    *)
(* EI-disconnect watcher.  A step is one lock section or one atomic.       *)
(***************************************************************************)
EXTENDS Naturals

CONSTANTS CapPeers,      \* devices that can consume captured input
          CapSessions,   \* bound on the sessions started
          CapChanges     \* bound on arrivals and departures of peers

ASSUME CapAssumption == CapSessions \in Nat /\ CapChanges \in Nat

CapTasks == {<<"eager", 0>>, <<"loop", 0>>}
CapLoop == <<"loop", 0>>
CapIds == 1..CapSessions
CapActors == CapTasks \cup ({"sig", "ei"} \X CapIds)

VARIABLES capPeers,    \* capable_consumer_ids: connected, capable, paired
          capOwed,     \* changes whose device event is not broadcast yet
          capEvents,   \* events waiting in the gate's subscription
          capMoves,    \* changes so far
          capPc,       \* what each task is about to do
          capSaw,      \* the consumer snapshot a task took
          capMine,     \* the session an activation holds, 0 for none
          capBusy,     \* activation_in_flight
          capSlot,     \* portal_session, 0 for none
          capFlag,     \* backend_available
          capRel,      \* the session the release callback drives, 0 for none
          capLast,     \* sessions started so far
          capPortal,   \* the portal's view of each session
          capCb,       \* on_disabled is installed
          capLatch,    \* pending_disabled
          capSig,      \* the signal handler of each session
          capEi,       \* the EI stream of each session
          capWatch,    \* the EI-disconnect watcher of each session
          capDown,     \* progress of each actor through do_deactivate
          capGot       \* the session an actor took from the slot

capGate == <<capPeers, capOwed, capEvents, capMoves>>
capTask == <<capPc, capSaw, capMine, capBusy>>
capShared == <<capSlot, capFlag, capRel>>
capSession == <<capLast, capPortal, capCb, capLatch, capSig, capEi, capWatch>>
capTear == <<capDown, capGot>>
capVars == <<capGate, capTask, capShared, capSession, capTear>>

\* enable_session_backend with a portal on the bus: the gate subscribes, then
\* spawns the eager evaluation and the loop.
CapInit ==
    /\ capPeers \in SUBSET CapPeers
    /\ capOwed = 0 /\ capEvents = 0 /\ capMoves = 0
    /\ capPc = [t \in CapTasks |-> IF t = CapLoop THEN "idle" ELSE "read"]
    /\ capSaw = [t \in CapTasks |-> {}]
    /\ capMine = [t \in CapTasks |-> 0]
    /\ capBusy = FALSE
    /\ capSlot = 0 /\ capFlag = FALSE /\ capRel = 0
    /\ capLast = 0
    /\ capPortal = [s \in CapIds |-> "none"]
    /\ capCb = [s \in CapIds |-> FALSE]
    /\ capLatch = [s \in CapIds |-> FALSE]
    /\ capSig = [s \in CapIds |-> "off"]
    /\ capEi = [s \in CapIds |-> "off"]
    /\ capWatch = [s \in CapIds |-> "off"]
    /\ capDown = [a \in CapActors |-> "no"]
    /\ capGot = [a \in CapActors |-> 0]

CapGoto(t, label) == capPc' = [capPc EXCEPT ![t] = label]

-----------------------------------------------------------------------------
(* Peers and the gate                                                      *)

\* A peer comes, goes, is paired or unpaired; the event follows later.
CapPeerMoves(p) ==
    /\ capMoves < CapChanges
    /\ capPeers' = IF p \in capPeers THEN capPeers \ {p} ELSE capPeers \cup {p}
    /\ capMoves' = capMoves + 1
    /\ capOwed' = capOwed + 1
    /\ UNCHANGED <<capEvents, capTask, capShared, capSession, capTear>>

CapAnnounce ==
    /\ capOwed > 0
    /\ capOwed' = capOwed - 1
    /\ capEvents' = capEvents + 1
    /\ UNCHANGED <<capPeers, capMoves, capTask, capShared, capSession, capTear>>

\* The loop receives an event it evaluates on, or learns that it lagged.
CapWake ==
    /\ capPc[CapLoop] = "idle"
    /\ capEvents > 0
    /\ capEvents' = capEvents - 1
    /\ CapGoto(CapLoop, "read")
    /\ UNCHANGED <<capPeers, capOwed, capMoves, capSaw, capMine, capBusy, capShared,
                   capSession, capTear>>

\* do_evaluate_after_event: the consumer snapshot, then the look at the slot.
CapRead(t) ==
    /\ capPc[t] = "read"
    /\ capSaw' = [capSaw EXCEPT ![t] = capPeers]
    /\ CapGoto(t, "judge")
    /\ UNCHANGED <<capGate, capMine, capBusy, capShared, capSession, capTear>>

CapJudge(t) ==
    /\ capPc[t] = "judge"
    /\ \/ /\ capSlot = 0
          /\ CapGoto(t, IF capSaw[t] # {} THEN "enter" ELSE "idle")
          /\ UNCHANGED capDown
       \/ /\ capSlot # 0 /\ capSaw[t] # {}
          /\ CapGoto(t, "idle")
          /\ UNCHANGED capDown
       \/ /\ capSlot # 0 /\ capSaw[t] = {}
          /\ CapGoto(t, "leave")
          /\ capDown' = [capDown EXCEPT ![t] = "rel"]
    /\ capSaw' = [capSaw EXCEPT ![t] = {}]
    /\ UNCHANGED <<capGate, capMine, capBusy, capShared, capSession, capGot>>

-----------------------------------------------------------------------------
(* do_deactivate, run by any actor (the Disabled callback takes the same   *)
(* steps and leaves the close to a task of its own)                        *)

CapClearRelease(a) ==
    /\ capDown[a] = "rel"
    /\ capRel' = 0
    /\ capDown' = [capDown EXCEPT ![a] = "take"]
    /\ UNCHANGED <<capGate, capTask, capSlot, capFlag, capSession, capGot>>

CapTake(a) ==
    /\ capDown[a] = "take"
    /\ capSlot' = 0
    /\ capGot' = [capGot EXCEPT ![a] = capSlot]
    /\ capDown' = [capDown EXCEPT ![a] = IF capSlot = 0 THEN "no" ELSE "flag"]
    /\ UNCHANGED <<capGate, capTask, capFlag, capRel, capSession>>

\* The flag is cleared, then the session is closed (or dropped, which closes it).
CapClose(a) ==
    /\ capDown[a] = "flag"
    /\ capFlag' = FALSE
    /\ capPortal' = [capPortal EXCEPT ![capGot[a]] = "closed"]
    /\ capDown' = [capDown EXCEPT ![a] = "no"]
    /\ capGot' = [capGot EXCEPT ![a] = 0]
    /\ UNCHANGED <<capGate, capTask, capSlot, capRel, capLast, capCb, capLatch, capSig,
                   capEi, capWatch>>

-----------------------------------------------------------------------------
(* do_activate                                                             *)

CapEnter(t) ==
    /\ capPc[t] = "enter"
    /\ IF capBusy \/ capSlot # 0 THEN CapGoto(t, "idle") /\ UNCHANGED capBusy
                                 ELSE CapGoto(t, "start") /\ capBusy' = TRUE
    /\ UNCHANGED <<capGate, capSaw, capMine, capShared, capSession, capTear>>

\* The guard clears the in-flight flag on every return.
CapReturn(t) ==
    /\ CapGoto(t, "idle")
    /\ capMine' = [capMine EXCEPT ![t] = 0]
    /\ capBusy' = FALSE

\* PortalSession::start: CreateSession .. Enable, the signal handler is spawned.
CapStart(t) ==
    /\ capPc[t] = "start"
    /\ capLast < CapSessions
    /\ LET s == capLast + 1 IN
         /\ capLast' = s
         /\ capPortal' = [capPortal EXCEPT ![s] = "on"]
         /\ capSig' = [capSig EXCEPT ![s] = "wait"]
         /\ capMine' = [capMine EXCEPT ![t] = s]
    /\ CapGoto(t, "pump")
    /\ UNCHANGED <<capGate, capSaw, capBusy, capShared, capCb, capLatch, capEi, capWatch,
                   capTear>>

\* A call of start fails; its guard closes what was created.
CapStartFails(t) ==
    /\ capPc[t] = "start"
    /\ CapReturn(t)
    /\ UNCHANGED <<capGate, capSaw, capShared, capSession, capTear>>

\* The EI receiver is built, its pump thread delivers both channels in time.
CapPump(t) ==
    /\ capPc[t] = "pump"
    /\ capEi' = [capEi EXCEPT ![capMine[t]] = "up"]
    /\ CapGoto(t, "callback")
    /\ UNCHANGED <<capGate, capSaw, capMine, capBusy, capShared, capLast, capPortal, capCb,
                   capLatch, capSig, capWatch, capTear>>

\* The receiver, the thread or a channel fails: the session is dropped, which
\* closes it.
CapPumpFails(t) ==
    /\ capPc[t] = "pump"
    /\ capPortal' = [capPortal EXCEPT ![capMine[t]] = "closed"]
    /\ CapReturn(t)
    /\ UNCHANGED <<capGate, capSaw, capShared, capLast, capCb, capLatch, capSig, capEi,
                   capWatch, capTear>>

CapSetRelease(t) ==
    /\ capPc[t] = "callback"
    /\ capRel' = capMine[t]
    /\ CapGoto(t, "store")
    /\ UNCHANGED <<capGate, capSaw, capMine, capBusy, capSlot, capFlag, capSession, capTear>>

CapStore(t) ==
    /\ capPc[t] = "store"
    /\ capSlot' = capMine[t]
    /\ CapGoto(t, "install")
    /\ UNCHANGED <<capGate, capSaw, capMine, capBusy, capFlag, capRel, capSession, capTear>>

\* set_on_disabled: the callback goes into its slot, then the latch is swapped.
CapInstall(t) ==
    /\ capPc[t] = "install"
    /\ capCb' = [capCb EXCEPT ![capMine[t]] = TRUE]
    /\ CapGoto(t, "swap")
    /\ UNCHANGED <<capGate, capSaw, capMine, capBusy, capShared, capLast, capPortal,
                   capLatch, capSig, capEi, capWatch, capTear>>

CapSwap(t) ==
    /\ capPc[t] = "swap"
    /\ capLatch' = [capLatch EXCEPT ![capMine[t]] = FALSE]
    /\ capDown' = [capDown EXCEPT ![t] = IF capLatch[capMine[t]] THEN "rel" ELSE "no"]
    /\ CapGoto(t, "recheck")
    /\ UNCHANGED <<capGate, capSaw, capMine, capBusy, capShared, capLast, capPortal, capCb,
                   capSig, capEi, capWatch, capGot>>

\* The slot was emptied meanwhile: the activation ends without a flag.
CapRecheck(t) ==
    /\ capPc[t] = "recheck" /\ capDown[t] = "no"
    /\ IF capSlot = 0 THEN CapReturn(t)
                      ELSE CapGoto(t, "flag") /\ UNCHANGED <<capMine, capBusy>>
    /\ UNCHANGED <<capGate, capSaw, capShared, capSession, capTear>>

CapRaise(t) ==
    /\ capPc[t] = "flag"
    /\ capFlag' = TRUE
    /\ CapGoto(t, "count")
    /\ UNCHANGED <<capGate, capSaw, capMine, capBusy, capSlot, capRel, capSession, capTear>>

\* The second consumer snapshot, after the flag.
CapCount(t) ==
    /\ capPc[t] = "count"
    /\ capSaw' = [capSaw EXCEPT ![t] = capPeers]
    /\ CapGoto(t, "post")
    /\ UNCHANGED <<capGate, capMine, capBusy, capShared, capSession, capTear>>

\* The watcher and the wire consumer are spawned.
CapSpawn(t) ==
    /\ capWatch' = [capWatch EXCEPT ![capMine[t]] = "wait"]
    /\ CapReturn(t)
    /\ UNCHANGED <<capLast, capPortal, capCb, capLatch, capSig, capEi, capDown>>

\* Mutant: no second look at the consumers.
CapPostTrusting(t) ==
    /\ capPc[t] = "post"
    /\ CapSpawn(t)
    /\ UNCHANGED <<capGate, capSaw, capShared, capGot>>

CapPost(t) ==
    /\ capPc[t] = "post"
    /\ \/ capSaw[t] # {} /\ CapSpawn(t)
       \/ /\ capSaw[t] = {}
          /\ capDown' = [capDown EXCEPT ![t] = "rel"]
          /\ CapGoto(t, "leave")
          /\ UNCHANGED <<capMine, capBusy, capSession>>
    /\ capSaw' = [capSaw EXCEPT ![t] = {}]
    /\ UNCHANGED <<capGate, capShared, capGot>>

\* A deactivation that a task ran is over.  Only an activation holds the flag.
CapLeave(t) ==
    /\ capPc[t] = "leave" /\ capDown[t] = "no"
    /\ IF capMine[t] # 0 THEN CapReturn(t)
                         ELSE CapGoto(t, "idle") /\ UNCHANGED <<capMine, capBusy>>
    /\ UNCHANGED <<capGate, capSaw, capShared, capSession, capTear>>

-----------------------------------------------------------------------------
(* The desktop ends a session                                              *)

\* The portal disables an enabled session: its signal is on the way.
CapDisable(s) ==
    /\ capPortal[s] = "on"
    /\ capPortal' = [capPortal EXCEPT ![s] = "disabled"]
    /\ UNCHANGED <<capGate, capTask, capShared, capLast, capCb, capLatch, capSig, capEi,
                   capWatch, capTear>>

\* The handler reads the callback slot; without a callback it will set the latch.
CapSignal(s) ==
    /\ capSig[s] = "wait" /\ capPortal[s] = "disabled"
    /\ capSig' = [capSig EXCEPT ![s] = IF capCb[s] THEN "done" ELSE "latch"]
    /\ capDown' = [capDown EXCEPT ![<<"sig", s>>] = IF capCb[s] THEN "rel" ELSE "no"]
    /\ UNCHANGED <<capGate, capTask, capShared, capLast, capPortal, capCb, capLatch, capEi,
                   capWatch, capGot>>

CapSetLatch(s) ==
    /\ capSig[s] = "latch"
    /\ capLatch' = [capLatch EXCEPT ![s] = TRUE]
    /\ capSig' = [capSig EXCEPT ![s] = "done"]
    /\ UNCHANGED <<capGate, capTask, capShared, capLast, capPortal, capCb, capEi, capWatch,
                   capTear>>

\* The EI stream ends, by itself or after the session was closed.
CapHangUp(s) ==
    /\ capEi[s] = "up"
    /\ capEi' = [capEi EXCEPT ![s] = "eof"]
    /\ UNCHANGED <<capGate, capTask, capShared, capLast, capPortal, capCb, capLatch, capSig,
                   capWatch, capTear>>

\* The watcher learns of it and deactivates whatever is in the slot.
CapWatcher(s) ==
    /\ capWatch[s] = "wait" /\ capEi[s] = "eof"
    /\ capWatch' = [capWatch EXCEPT ![s] = "done"]
    /\ capDown' = [capDown EXCEPT ![<<"ei", s>>] = "rel"]
    /\ UNCHANGED <<capGate, capTask, capShared, capLast, capPortal, capCb, capLatch, capSig,
                   capEi, capGot>>

-----------------------------------------------------------------------------
CapTask(t) ==
    \/ CapRead(t) \/ CapJudge(t) \/ CapEnter(t) \/ CapStart(t) \/ CapStartFails(t)
    \/ CapPump(t) \/ CapPumpFails(t) \/ CapSetRelease(t) \/ CapStore(t) \/ CapInstall(t)
    \/ CapSwap(t) \/ CapRecheck(t) \/ CapRaise(t) \/ CapCount(t) \/ CapPost(t) \/ CapLeave(t)

CapNext ==
    \/ \E p \in CapPeers : CapPeerMoves(p)
    \/ CapAnnounce \/ CapWake
    \/ \E t \in CapTasks : CapTask(t)
    \/ \E a \in CapActors : CapClearRelease(a) \/ CapTake(a) \/ CapClose(a)
    \/ \E s \in CapIds : CapDisable(s) \/ CapSignal(s) \/ CapSetLatch(s)
                         \/ CapHangUp(s) \/ CapWatcher(s)

CapSpec == CapInit /\ [][CapNext]_capVars

-----------------------------------------------------------------------------
CapTypeOK ==
    /\ capPeers \subseteq CapPeers
    /\ capOwed + capEvents <= capMoves /\ capMoves <= CapChanges
    /\ capPc \in [CapTasks -> {"idle", "read", "judge", "enter", "start", "pump",
                               "callback", "store", "install", "swap", "recheck", "flag",
                               "count", "post", "leave"}]
    /\ capSaw \in [CapTasks -> SUBSET CapPeers]
    /\ capMine \in [CapTasks -> 0..CapSessions]
    /\ capBusy \in BOOLEAN /\ capFlag \in BOOLEAN
    /\ capSlot \in 0..capLast /\ capRel \in 0..capLast
    /\ capPortal \in [CapIds -> {"none", "on", "disabled", "closed"}]
    /\ capCb \in [CapIds -> BOOLEAN] /\ capLatch \in [CapIds -> BOOLEAN]
    /\ capSig \in [CapIds -> {"off", "wait", "latch", "done"}]
    /\ capEi \in [CapIds -> {"off", "up", "eof"}]
    /\ capWatch \in [CapIds -> {"off", "wait", "done"}]
    /\ capDown \in [CapActors -> {"no", "rel", "take", "flag"}]

\* Nothing is under way and nothing is left to react to.
CapQuiet ==
    /\ capOwed = 0 /\ capEvents = 0
    /\ \A t \in CapTasks : capPc[t] = "idle"
    /\ \A a \in CapActors : capDown[a] = "no"
    /\ \A s \in CapIds : capSig[s] # "latch" /\ ~(capSig[s] = "wait" /\ capPortal[s] = "disabled")

\* However arrivals, departures, the eager evaluation and the loop interleave with
\* a slow do_activate, once all is quiet a session stays armed only while a peer
\* is there to consume the input it captures.  An armed barrier without a peer
\* traps the user's pointer.
ArmedHasPeer == CapQuiet /\ capSlot # 0 => capPeers # {}

\* activation_in_flight and the slot together keep the single-activation contract
\* of do_activate: never two portal sessions that are not being closed.
OneSession ==
    LET Kept(s) == capPortal[s] \in {"on", "disabled"} /\ \A a \in CapActors : capGot[a] # s
    IN  \A r, s \in CapIds : Kept(r) /\ Kept(s) => r = s

\* What do_activate says of the Disabled signal: whenever it comes, the end is a
\* live session, or an empty slot with the flag down.
DisabledConverges ==
    CapQuiet => /\ capFlag = (capSlot # 0)
                /\ capSlot # 0 => capPortal[capSlot] = "on"
=============================================================================
