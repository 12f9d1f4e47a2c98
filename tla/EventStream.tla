----------------------------- MODULE EventStream -----------------------------
(***************************************************************************)
(* api/sse.rs over device/events.rs: one client's event stream.  The state *)
(* of a device is changed under the registry's lock and announced after it *)
(* on a bounded broadcast channel; the client shows the last snapshot or   *)
(* event it was sent.  Packet loops, the listener and the API all call     *)
(* transition, so announcements may come in another order than the changes.*)
(* Only transitions are announced: a record that is discovered or deleted  *)
(* sends no event.                                                         *)
(***************************************************************************)
EXTENDS Naturals, Sequences

CONSTANTS
    SseWriters,     \* tasks that call transition
    SseStates,      \* states a device can be rendered in
    SseCapacity,    \* capacity of the channel
    SseNone         \* not a state

ASSUME SseAssumption ==
    SseCapacity \in Nat \ {0} /\ SseNone \notin SseStates \cup SseWriters

VARIABLES
    sseState,       \* the device's state in the registry
    ssePending,     \* writer -> change made but not announced yet
    sseQueue,       \* the client's unread part of the channel
    sseDropped,     \* events it lost, reported by the next receive
    ssePc,          \* "off", "open" (subscribed), "live", "lagged"
    sseView,        \* what the client shows
    sseNewest,      \* ghost: the writer that is to announce the latest change
    sseOvertaken    \* ghost: an older change was announced after the latest one

sseVars == <<sseState, ssePending, sseQueue, sseDropped, ssePc, sseView, sseNewest, sseOvertaken>>
sseGhosts == <<sseNewest, sseOvertaken>>

SseInit ==
    /\ sseState \in SseStates
    /\ ssePending = [w \in SseWriters |-> SseNone]
    /\ sseQueue = <<>> /\ sseDropped = FALSE
    /\ ssePc = "off" /\ sseView = SseNone
    /\ sseNewest = SseNone /\ sseOvertaken = FALSE

\* transition, under the lock; an equal state is no change and no event.
SseChange(w, s) ==
    /\ ssePending[w] = SseNone
    /\ s # sseState
    /\ sseState' = s
    /\ ssePending' = [ssePending EXCEPT ![w] = s]
    /\ sseNewest' = w
    /\ UNCHANGED <<sseQueue, sseDropped, ssePc, sseView, sseOvertaken>>

\* Mutant of SseSend: the channel has no bound.
SseSendUncapped(event) ==
    IF ssePc = "off"
    THEN UNCHANGED <<sseQueue, sseDropped>>
    ELSE sseQueue' = Append(sseQueue, event) /\ UNCHANGED sseDropped

\* Broadcaster::broadcast: a full channel drops its oldest event.
SseSend(event) ==
    IF ssePc = "off"
    THEN UNCHANGED <<sseQueue, sseDropped>>
    ELSE IF Len(sseQueue) = SseCapacity
         THEN sseQueue' = Append(Tail(sseQueue), event) /\ sseDropped' = TRUE
         ELSE sseQueue' = Append(sseQueue, event) /\ UNCHANGED sseDropped

SseAnnounce(w) ==
    /\ ssePending[w] # SseNone
    /\ SseSend(ssePending[w])
    /\ ssePending' = [ssePending EXCEPT ![w] = SseNone]
    /\ sseNewest' = IF sseNewest = w THEN SseNone ELSE sseNewest
    /\ sseOvertaken' = (sseNewest # w /\ (sseNewest = SseNone \/ sseOvertaken))
    /\ UNCHANGED <<sseState, ssePc, sseView>>

\* build_event_stream subscribes before it renders the snapshot.
SseSubscribe ==
    /\ ssePc = "off"
    /\ ssePc' = "open"
    /\ UNCHANGED <<sseState, ssePending, sseQueue, sseDropped, sseView, sseGhosts>>

\* The snapshot is the first frame, and follows every lagged frame.
SseSnapshot ==
    /\ ssePc \in {"open", "lagged"}
    /\ ssePc' = "live"
    /\ sseView' = sseState
    /\ UNCHANGED <<sseState, ssePending, sseQueue, sseDropped, sseGhosts>>

\* Mutant of SseReceive: a lag skips the backlog and is not followed by a snapshot.
SseReceiveSkipping ==
    /\ ssePc = "live"
    /\ IF sseDropped
       THEN sseQueue' = <<>> /\ sseDropped' = FALSE /\ UNCHANGED <<ssePc, sseView>>
       ELSE /\ sseQueue # <<>>
            /\ sseView' = Head(sseQueue) /\ sseQueue' = Tail(sseQueue)
            /\ UNCHANGED <<ssePc, sseDropped>>
    /\ UNCHANGED <<sseState, ssePending, sseGhosts>>

\* The next item of the live stream: a lag report comes before the events.
SseReceive ==
    /\ ssePc = "live"
    /\ IF sseDropped
       THEN ssePc' = "lagged" /\ sseDropped' = FALSE /\ UNCHANGED <<sseQueue, sseView>>
       ELSE /\ sseQueue # <<>>
            /\ sseView' = Head(sseQueue) /\ sseQueue' = Tail(sseQueue)
            /\ UNCHANGED <<ssePc, sseDropped>>
    /\ UNCHANGED <<sseState, ssePending, sseGhosts>>

\* The client goes: the stream is dropped with its receivers.
SseClose ==
    /\ ssePc # "off"
    /\ ssePc' = "off" /\ sseQueue' = <<>> /\ sseDropped' = FALSE /\ sseView' = SseNone
    /\ UNCHANGED <<sseState, ssePending, sseGhosts>>

SseNext ==
    \/ \E w \in SseWriters, s \in SseStates : SseChange(w, s)
    \/ \E w \in SseWriters : SseAnnounce(w)
    \/ SseSubscribe \/ SseSnapshot \/ SseReceive \/ SseClose

SseSpec == SseInit /\ [][SseNext]_sseVars

SseTypeOK ==
    /\ sseState \in SseStates
    /\ ssePending \in [SseWriters -> SseStates \cup {SseNone}]
    /\ sseQueue \in Seq(SseStates) /\ Len(sseQueue) <= SseCapacity
    /\ sseDropped \in BOOLEAN
    /\ ssePc \in {"off", "open", "live", "lagged"}
    /\ sseView \in SseStates \cup {SseNone}
    /\ sseNewest \in SseWriters \cup {SseNone} /\ sseOvertaken \in BOOLEAN

\* A client that has read everything shows the device's true state, whenever
\* it subscribed, however far it fell behind and whatever the channel dropped.
\* Only transition itself can mislead it, by announcing an older change after
\* the latest one: no lag, snapshot or dropped event does.
ViewConverges ==
    /\ ssePc = "live" /\ sseQueue = <<>> /\ ~sseDropped
    /\ \A w \in SseWriters : ssePending[w] = SseNone
    /\ ~sseOvertaken
    => sseView = sseState
=============================================================================
