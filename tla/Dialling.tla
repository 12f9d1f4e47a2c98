------------------------------ MODULE Dialling ------------------------------
(***************************************************************************)
(* services/connection_orchestrator.rs with the listeners of discovery: who*)
(* dials a device, and when.                                               *)
(*                                                                         *)
(* One paired device.  A task of DialTasks serves one announcement after   *)
(* another: the dial of spawn_discovered_connection, its packet loop, then *)
(* reconnect_loop.  One of DialOthers is a connect_and_spawn_loop or an    *)
(* accepted link, which know no marker.  What a link does once it is up is *)
(* the business of Links; here it matters how it ends, since some ends     *)
(* leave the link in the slot.                                             *)
(***************************************************************************)
EXTENDS Naturals, FiniteSets

CONSTANTS
    DialTasks,      \* announcements being served at a time
    DialOthers,     \* links that the API dials or the listener accepts, at a time
    DialRetries     \* max_retries of reconnect_loop

ASSUME DialAssumption ==
    /\ DialRetries \in Nat \ {0}
    /\ DialTasks \cap DialOthers = {} /\ "none" \notin DialTasks \cup DialOthers

VARIABLES
    dialLink,       \* whose link holds the slot
    dialPending,    \* the device is in pending_connections
    dialPc,         \* task -> label
    dialTry,        \* task -> attempt of its reconnect loop, 0 outside
    dialPaired,     \* the device is still paired
    dialStop,       \* the shutdown token is cancelled
    dialOpen        \* the listeners and the API still take work

dialVars == <<dialLink, dialPending, dialPc, dialTry, dialPaired, dialStop, dialOpen>>

DialAll == DialTasks \cup DialOthers

DialInit ==
    /\ dialLink = "none"
    /\ dialPending = FALSE
    /\ dialPc = [t \in DialAll |-> "idle"]
    /\ dialTry = [t \in DialAll |-> 0]
    /\ dialPaired \in BOOLEAN
    /\ dialStop = FALSE
    /\ dialOpen = TRUE

\* What listen makes of a datagram: only the identity of another host with a
\* port of kdeconnect's range is handed on.  A second daemon on this host is
\* handed on unless the policy refuses it.
DialUsable(kind) == kind \in {"peer", "sameHostAllowed"}

DialGo(t, label) == dialPc' = [dialPc EXCEPT ![t] = label]

\* start_listening calls on_device_discovered, which spawns a task.  A connected
\* device is left alone, and so is a paired one that announces an older protocol
\* than it is known to speak.
DialHeard(t, kind, older) ==
    /\ dialOpen
    /\ DialUsable(kind)
    /\ dialPc[t] = "idle"
    /\ dialLink = "none"
    /\ ~(dialPaired /\ older)
    /\ DialGo(t, "mark")
    /\ UNCHANGED <<dialLink, dialPending, dialTry, dialPaired, dialStop, dialOpen>>

\* The end of an attempt: the next one, if the reconnect loop has one left.
DialNextTry(t) ==
    IF dialTry[t] # 0 /\ dialTry[t] < DialRetries
    THEN dialTry' = [dialTry EXCEPT ![t] = @ + 1] /\ DialGo(t, "backoff")
    ELSE dialTry' = [dialTry EXCEPT ![t] = 0] /\ DialGo(t, "idle")

\* add_pending_connection: another dial under way costs a reconnect loop its
\* attempt and ends a discovered one.
DialMark(t) ==
    /\ dialPc[t] = "mark"
    /\ IF dialPending
       THEN DialNextTry(t) /\ UNCHANGED dialPending
       ELSE dialPending' = TRUE /\ DialGo(t, "dial") /\ UNCHANGED dialTry
    /\ UNCHANGED <<dialLink, dialPaired, dialStop, dialOpen>>

\* connect_to_device succeeds: the link takes the slot, the guard is dropped.
\* An accepted link takes the slot inside accept_incoming.
DialOk(t) ==
    /\ dialPc[t] = "dial"
    /\ dialLink' = t
    /\ dialPending' = IF t \in DialTasks THEN FALSE ELSE dialPending
    /\ DialGo(t, "setup")
    /\ UNCHANGED <<dialTry, dialPaired, dialStop, dialOpen>>

\* Mutant of DialFail: the marker outlives a failed dial.
DialFailMarked(t) ==
    /\ dialPc[t] = "dial"
    /\ DialNextTry(t)
    /\ UNCHANGED <<dialLink, dialPending, dialPaired, dialStop, dialOpen>>

\* It fails, by the rate limit, the network or a handshake timeout.
DialFail(t) ==
    /\ dialPc[t] = "dial"
    /\ dialPending' = IF t \in DialTasks THEN FALSE ELSE dialPending
    /\ DialNextTry(t)
    /\ UNCHANGED <<dialLink, dialPaired, dialStop, dialOpen>>

\* disconnect(generation) takes nothing but the caller's own link.
DialDisconnect(t) == dialLink' = IF dialLink = t THEN "none" ELSE dialLink

\* LoopResult::Disconnected.  A discovered link of a paired device goes on to
\* reconnect_loop; in that loop it has used up an attempt.
DialEnded(t) ==
    IF dialStop
    THEN dialTry' = [dialTry EXCEPT ![t] = 0] /\ DialGo(t, "idle")
    ELSE IF t \in DialTasks /\ dialTry[t] = 0 /\ dialPaired
         THEN dialTry' = [dialTry EXCEPT ![t] = 1] /\ DialGo(t, "backoff")
         ELSE DialNextTry(t)

\* register_cancel_token_if_current: the setup of a link that was replaced
\* meanwhile errs, and leaves the slot to the link that is there.
DialSetup(t) ==
    /\ dialPc[t] = "setup"
    /\ IF dialLink = t THEN DialGo(t, "up") /\ UNCHANGED dialTry ELSE DialEnded(t)
    /\ UNCHANGED <<dialLink, dialPending, dialPaired, dialStop, dialOpen>>

\* An accepted link that fails before its setup.  The identity exchange is
\* followed by a disconnect; accept_incoming, timed out behind its insert, is
\* not, and leaves a link that no task reads.
DialUnset(t) ==
    /\ t \in DialOthers
    /\ dialPc[t] = "setup"
    /\ DialDisconnect(t) \/ UNCHANGED dialLink
    /\ DialGo(t, "idle")
    /\ UNCHANGED <<dialPending, dialTry, dialPaired, dialStop, dialOpen>>

\* The packet loop ends by a read error, the idle timeout or a paired peer that
\* unpairs: each of these arms disconnects before it returns.
DialDrops(t) ==
    /\ dialPc[t] = "up"
    /\ DialDisconnect(t)
    /\ DialEnded(t)
    /\ UNCHANGED <<dialPending, dialPaired, dialStop, dialOpen>>

\* It ends by the peer's refusal of a pending request, or because its token is
\* cancelled by a link that replaces it.  Neither arm disconnects; the listener
\* does so after the loop, the tasks of connection_orchestrator do not.
DialReturns(t) ==
    /\ dialPc[t] = "up"
    /\ \/ ~dialPaired
       \/ dialLink # t
       \/ \E u \in DialAll \ {t} : dialPc[u] \in {"dial", "setup"}
    /\ UNCHANGED dialLink \/ (t \in DialOthers /\ DialDisconnect(t))
    /\ DialEnded(t)
    /\ UNCHANGED <<dialPending, dialPaired, dialStop, dialOpen>>

\* Mutant of DialStopped: the packet loop has no shutdown arm.
DialStoppedNever(t) == FALSE /\ UNCHANGED dialVars

\* The shutdown arm of the packet loop.
DialStopped(t) ==
    /\ dialPc[t] = "up"
    /\ dialStop
    /\ DialDisconnect(t)
    /\ dialTry' = [dialTry EXCEPT ![t] = 0]
    /\ DialGo(t, "idle")
    /\ UNCHANGED <<dialPending, dialPaired, dialStop, dialOpen>>

\* The backoff is over, or cut short by the shutdown.
DialBackoff(t) ==
    /\ dialPc[t] = "backoff"
    /\ IF dialStop \/ dialLink # "none"
       THEN dialTry' = [dialTry EXCEPT ![t] = 0] /\ DialGo(t, "idle")
       ELSE DialGo(t, "mark") /\ UNCHANGED dialTry
    /\ UNCHANGED <<dialLink, dialPending, dialPaired, dialStop, dialOpen>>

\* connect_device dials without the marker; the listener accepts what comes,
\* invited by the identity that on_mdns_device_resolved unicasts.
DialOther(t) ==
    /\ t \in DialOthers
    /\ dialOpen
    /\ dialPc[t] = "idle"
    /\ DialGo(t, "dial")
    /\ UNCHANGED <<dialLink, dialPending, dialTry, dialPaired, dialStop, dialOpen>>

DialUnpair ==
    /\ dialPaired
    /\ dialPaired' = FALSE
    /\ UNCHANGED <<dialLink, dialPending, dialPc, dialTry, dialStop, dialOpen>>

DialShutdown ==
    /\ ~dialStop
    /\ dialStop' = TRUE
    /\ UNCHANGED <<dialLink, dialPending, dialPc, dialTry, dialPaired, dialOpen>>

\* The listeners and the API server see the token, a while after.
DialClose ==
    /\ dialStop /\ dialOpen
    /\ dialOpen' = FALSE
    /\ UNCHANGED <<dialLink, dialPending, dialPc, dialTry, dialPaired, dialStop>>

\* What a task does by itself: timers elapse and dials time out.
DialTask(t) ==
    \/ DialMark(t) \/ DialOk(t) \/ DialFail(t) \/ DialSetup(t) \/ DialStopped(t) \/ DialBackoff(t)

DialNext ==
    \/ \E t \in DialTasks, kind \in {"peer", "sameHostAllowed", "sameHostRefused", "own", "other"},
          older \in BOOLEAN : DialHeard(t, kind, older)
    \/ \E t \in DialAll : DialTask(t) \/ DialDrops(t) \/ DialReturns(t) \/ DialOther(t) \/ DialUnset(t)
    \/ DialClose \/ DialUnpair \/ DialShutdown

DialFairness == WF_dialVars(DialClose) /\ \A t \in DialAll : WF_dialVars(DialTask(t))

DialSpec == DialInit /\ [][DialNext]_dialVars /\ DialFairness

DialTypeOK ==
    /\ dialLink \in DialAll \cup {"none"}
    /\ {dialPending, dialPaired, dialStop, dialOpen} \subseteq BOOLEAN
    /\ dialPc \in [DialAll -> {"idle", "mark", "dial", "setup", "up", "backoff"}]
    /\ dialTry \in [DialAll -> 0..DialRetries]

\* Announcements and reconnect loops never dial the device at the same time,
\* and the marker is set exactly while one of them does: an error path that
\* forgot it would keep the device from ever being dialled again.
OneMarkedDial ==
    LET dials == {t \in DialTasks : dialPc[t] = "dial"}
    IN  Cardinality(dials) <= 1 /\ (dialPending <=> dials # {})

\* After a shutdown every dial in flight, setup, packet loop and backoff comes to
\* its end, and none begins again: the last reconnect loop is gone although an
\* announcement may be served, or a link accepted, behind the cancelled token.
StopEndsDials == dialStop ~> [](\A t \in DialAll : dialPc[t] = "idle")
=============================================================================
