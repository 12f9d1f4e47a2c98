----------------------------- MODULE SystemVolume -----------------------------
(***************************************************************************)
(* The provider side of the systemvolume plugin: the desktop's sinks, the  *)
(* pactl subscription, the supervisor that lists the sinks on every event, *)
(* pushes what changed since its own snapshot and sends newcomers the full *)
(* list, and a phone that asks and controls.  A state of the desktop is a  *)
(* level per sink (0: no such sink; mute is one more level) and the        *)
(* default sink.                                                           *)
(***************************************************************************)
EXTENDS Naturals, FiniteSets

CONSTANTS SvlSinks, SvlMax,   \* sinks and their highest level
          SvlChanges          \* bound on changes of the desktop

ASSUME SvlAssumption == IsFiniteSet(SvlSinks) /\ SvlMax \in Nat \ {0} /\ SvlChanges \in Nat

SvlNoSink == "none"
SvlStates == [vol : [SvlSinks -> 0..SvlMax], def : SvlSinks \cup {SvlNoSink}]
SvlBlank == [vol |-> [s \in SvlSinks |-> 0], def |-> SvlNoSink]

VARIABLES svlReal,    \* the sound server
          svlMoves,   \* changes so far
          svlEvents,  \* classified events in the channel
          svlSub,     \* a pactl subscribe process runs
          svlPc,      \* the supervisor: idle, list, default, push, send, sync,
                      \* greet, backoff
          svlList,    \* the list it has read or sends; at "send" its old snapshot
          svlSnap,    \* its snapshot, the base of the diff
          svlLive,    \* local_sinks of the plugin
          svlLink,    \* the phone is connected
          svlSynced,  \* the phone is in `synced`
          svlOwed,    \* this connection has not been sent a list
          svlTold,    \* the phone's copy
          svlAsk,     \* a requestSinks: none, list, default, apply, send
          svlAnswer,  \* the list it has read
          svlMissed,  \* ghost: a change without an event or a failed list
          svlOther,   \* ghost: local_sinks are a request's, not the snapshot
          svlStray    \* ghost: so is the phone's copy

svlDesk == <<svlReal, svlMoves, svlEvents, svlSub>>
svlPhone == <<svlLink, svlSynced, svlOwed, svlTold, svlStray>>
svlRequest == <<svlAsk, svlAnswer>>
svlVars == <<svlDesk, svlPc, svlList, svlSnap, svlLive, svlPhone, svlRequest, svlMissed, svlOther>>

\* enable_session_backend lists once and starts the subscription.
SvlInit ==
    /\ svlReal \in {[vol |-> v, def |-> SvlNoSink] : v \in [SvlSinks -> 0..1]}
    /\ svlMoves = 0 /\ svlEvents = 0 /\ svlSub = TRUE
    /\ svlPc = "idle" /\ svlList = SvlBlank
    /\ svlSnap = svlReal /\ svlLive = svlReal
    /\ svlLink = FALSE /\ svlSynced = FALSE /\ svlOwed = FALSE /\ svlTold = SvlBlank
    /\ svlAsk = "none" /\ svlAnswer = SvlBlank
    /\ svlMissed = FALSE /\ svlOther = FALSE /\ svlStray = FALSE

Present(st) == {s \in SvlSinks : st.vol[s] > 0}

-----------------------------------------------------------------------------
(* The sound server, and pactl subscribe with parse_subscribe_line         *)

SvlMoved(st) ==
    /\ svlMoves < SvlChanges
    /\ svlMoves' = svlMoves + 1
    /\ svlReal' = st /\ st # svlReal
    /\ svlEvents' = IF svlSub THEN svlEvents + 1 ELSE svlEvents
    /\ svlMissed' = (svlMissed \/ ~svlSub)

SvlChange(s, v) ==
    /\ SvlMoved([vol |-> [svlReal.vol EXCEPT ![s] = v],
                 def |-> IF v = 0 /\ svlReal.def = s THEN SvlNoSink ELSE svlReal.def])
    /\ UNCHANGED <<svlSub, svlPc, svlList, svlSnap, svlLive, svlPhone, svlRequest, svlOther>>

SvlSetDefault(s) ==
    /\ s \in Present(svlReal)
    /\ SvlMoved([svlReal EXCEPT !.def = s])
    /\ UNCHANGED <<svlSub, svlPc, svlList, svlSnap, svlLive, svlPhone, svlRequest, svlOther>>

SvlSubEnds ==
    /\ svlSub
    /\ svlMoves < SvlChanges
    /\ svlMoves' = svlMoves + 1
    /\ svlSub' = FALSE
    /\ UNCHANGED <<svlReal, svlEvents, svlPc, svlList, svlSnap, svlLive, svlPhone, svlRequest, svlMissed, svlOther>>

-----------------------------------------------------------------------------
(* The supervisor of try_start_watcher                                     *)

\* handle_subscribe_event and list_sinks: two pactl commands.
SvlEvent ==
    /\ svlPc = "idle" /\ svlEvents > 0
    /\ svlEvents' = svlEvents - 1
    /\ svlPc' = "list"
    /\ UNCHANGED <<svlReal, svlMoves, svlSub, svlList, svlSnap, svlLive, svlPhone, svlRequest, svlMissed, svlOther>>

\* The first command, of list_sinks called by the supervisor or by a request.
SvlVolumes == [SvlBlank EXCEPT !.vol = svlReal.vol]
\* The second, and mark_default.
SvlMarked(list) ==
    [list EXCEPT !.def = IF svlReal.def \in Present(list) THEN svlReal.def ELSE SvlNoSink]

SvlListSinks ==
    /\ svlPc = "list"
    /\ svlList' = SvlVolumes
    /\ svlPc' = "default"
    /\ svlMissed' = FALSE
    /\ UNCHANGED <<svlDesk, svlSnap, svlLive, svlPhone, svlRequest, svlOther>>

SvlListDefault ==
    /\ svlPc = "default"
    /\ svlList' = SvlMarked(svlList)
    /\ svlPc' = "push"
    /\ UNCHANGED <<svlDesk, svlSnap, svlLive, svlPhone, svlRequest, svlMissed, svlOther>>

\* A failed list loses the event.
SvlListFails ==
    /\ svlPc \in {"list", "default"}
    /\ svlPc' = "sync"
    /\ svlList' = SvlBlank
    /\ svlMissed' = TRUE
    /\ UNCHANGED <<svlDesk, svlSnap, svlLive, svlPhone, svlRequest, svlOther>>

\* set_changed of push_local_state.
SvlSetChanged(old, new) ==
    \/ Cardinality(Present(old)) # Cardinality(Present(new))
    \/ \E s \in Present(new) : s \notin Present(old)

\* build_deltas, as the phone applies them: of sinks it knows, what differs from the
\* snapshot.
SvlDeltas(old, new, told) ==
    LET known == Present(old) \cap Present(new) \cap Present(told)
        moved == {s \in known : old.vol[s] # new.vol[s]}
    IN  [vol |-> [s \in SvlSinks |-> IF s \in moved THEN new.vol[s] ELSE told.vol[s]],
         def |-> told.def]

\* push_local_state: the snapshot and the plugin's sinks are replaced ...
SvlPush ==
    /\ svlPc = "push"
    /\ svlSnap' = svlList /\ svlLive' = svlList /\ svlList' = svlSnap
    /\ svlPc' = "send"
    /\ svlOther' = FALSE
    /\ UNCHANGED <<svlDesk, svlPhone, svlRequest, svlMissed>>

\* ... and the phone, if it is connected by then, is sent the deltas, and the whole
\* list when the set or the default changed.
SvlSend ==
    /\ svlPc = "send"
    /\ LET whole == SvlSetChanged(svlList, svlSnap) \/ svlList.def # svlSnap.def
       IN  IF ~svlLink THEN UNCHANGED <<svlTold, svlOwed, svlStray>>
           ELSE /\ svlTold' = IF whole THEN svlSnap ELSE SvlDeltas(svlList, svlSnap, svlTold)
                /\ svlOwed' = (svlOwed /\ ~whole)
                /\ svlStray' = (svlStray /\ ~whole)
    /\ svlList' = SvlBlank
    /\ svlPc' = "sync"
    /\ UNCHANGED <<svlDesk, svlSnap, svlLive, svlLink, svlSynced, svlRequest, svlMissed, svlOther>>

\* The 5 s tick.
SvlTick ==
    /\ svlPc = "idle"
    /\ svlPc' = "sync"
    /\ UNCHANGED <<svlDesk, svlList, svlSnap, svlLive, svlPhone, svlRequest, svlMissed, svlOther>>

\* A list reaches the phone, if there is one.
SvlGive(list) ==
    IF svlLink THEN svlTold' = list /\ svlOwed' = FALSE /\ svlStray' = (list # svlSnap)
               ELSE UNCHANGED <<svlTold, svlOwed, svlStray>>

\* sync_peers: for who is new since the last look the list is built, and sent.
SvlSync ==
    /\ svlPc = "sync"
    /\ svlPc' = IF svlLink /\ ~svlSynced THEN "greet" ELSE "idle"
    /\ svlList' = IF svlLink /\ ~svlSynced THEN svlLive ELSE svlList
    /\ svlSynced' = (svlSynced /\ svlLink)
    /\ UNCHANGED <<svlDesk, svlSnap, svlLive, svlLink, svlOwed, svlTold, svlStray, svlRequest,
                   svlMissed, svlOther>>

SvlGreet ==
    /\ svlPc = "greet"
    /\ svlPc' = "idle"
    /\ svlSynced' = TRUE
    /\ SvlGive(svlList)
    /\ svlList' = SvlBlank
    /\ UNCHANGED <<svlDesk, svlSnap, svlLive, svlLink, svlRequest, svlMissed, svlOther>>

\* The channel is closed and empty: back off, subscribe again.  Nothing is listed.
SvlClosed ==
    /\ svlPc = "idle" /\ svlEvents = 0 /\ ~svlSub
    /\ svlPc' = "backoff"
    /\ UNCHANGED <<svlDesk, svlList, svlSnap, svlLive, svlPhone, svlRequest, svlMissed, svlOther>>

SvlRearm ==
    /\ svlPc = "backoff"
    /\ svlPc' = "idle"
    /\ svlSub' \in BOOLEAN
    /\ UNCHANGED <<svlReal, svlMoves, svlEvents, svlList, svlSnap, svlLive, svlPhone, svlRequest, svlMissed, svlOther>>

-----------------------------------------------------------------------------
(* The phone                                                               *)

SvlConnect ==
    /\ ~svlLink
    /\ svlLink' = TRUE /\ svlOwed' = TRUE /\ svlTold' = SvlBlank /\ svlStray' = FALSE
    /\ UNCHANGED <<svlDesk, svlPc, svlList, svlSnap, svlLive, svlSynced, svlRequest, svlMissed,
                   svlOther>>

SvlDisconnect ==
    /\ svlLink
    /\ svlLink' = FALSE /\ svlOwed' = FALSE /\ svlTold' = SvlBlank /\ svlStray' = FALSE
    /\ UNCHANGED <<svlDesk, svlPc, svlList, svlSnap, svlLive, svlSynced, svlRequest, svlMissed,
                   svlOther>>

\* handle_provider_request with requestSinks: its own list_sinks, ...
SvlRequestSinks ==
    /\ svlLink /\ svlAsk = "none"
    /\ svlAsk' = "list"
    /\ UNCHANGED <<svlDesk, svlPc, svlList, svlSnap, svlLive, svlPhone, svlAnswer, svlMissed,
                   svlOther>>

SvlRequestLists ==
    /\ svlAsk \in {"list", "default"}
    /\ \/ svlAsk = "list" /\ svlAnswer' = SvlVolumes /\ svlAsk' = "default"
       \/ svlAsk = "default" /\ svlAnswer' = SvlMarked(svlAnswer) /\ svlAsk' = "apply"
       \/ svlAnswer' = SvlBlank /\ svlAsk' = "none"
    /\ UNCHANGED <<svlDesk, svlPc, svlList, svlSnap, svlLive, svlPhone, svlMissed, svlOther>>

\* ... apply_local_sinks, of which the snapshot does not learn, ...
SvlRequestApplies ==
    /\ svlAsk = "apply"
    /\ svlLive' = svlAnswer
    /\ svlOther' = (svlAnswer # svlSnap)
    /\ svlAsk' = "send"
    /\ UNCHANGED <<svlDesk, svlPc, svlList, svlSnap, svlPhone, svlAnswer, svlMissed>>

\* ... and the answer, sent by the packet loop.
SvlAnswered ==
    /\ svlAsk = "send"
    /\ SvlGive(svlAnswer)
    /\ svlAnswer' = SvlBlank /\ svlAsk' = "none"
    /\ UNCHANGED <<svlDesk, svlPc, svlList, svlSnap, svlLive, svlLink, svlSynced, svlMissed, svlOther>>

\* handle_provider_request with a volume, clamped to the sink's maximum, which also
\* unmutes: a level from 1 up.
SvlRequestVolume(s, v) ==
    /\ svlLink /\ s \in Present(svlReal)
    /\ SvlChange(s, IF v > SvlMax THEN SvlMax ELSE v)

-----------------------------------------------------------------------------
\* The desktop, the supervisor and the phone's link.
SvlHostNext ==
    \/ \E s \in SvlSinks : SvlSetDefault(s) \/ \E v \in 0..SvlMax : SvlChange(s, v)
    \/ SvlEvent \/ SvlListSinks \/ SvlListDefault \/ SvlPush \/ SvlSend
    \/ SvlTick \/ SvlSync \/ SvlGreet
    \/ SvlConnect \/ SvlDisconnect

\* The subscription ends, or a list fails.
SvlFaultNext == SvlSubEnds \/ SvlClosed \/ SvlRearm \/ SvlListFails

\* What the phone asks for.
SvlRequestNext ==
    \/ \E s \in SvlSinks, v \in 1..(SvlMax + 1) : SvlRequestVolume(s, v)
    \/ SvlRequestSinks \/ SvlRequestLists \/ SvlRequestApplies \/ SvlAnswered

SvlNext == SvlHostNext \/ SvlFaultNext \/ SvlRequestNext

SvlSpec == SvlInit /\ [][SvlNext]_svlVars

SvlTypeOK ==
    /\ {svlReal, svlList, svlSnap, svlLive, svlTold, svlAnswer} \subseteq SvlStates
    /\ svlMoves \in 0..SvlChanges /\ svlEvents \in 0..SvlChanges
    /\ svlPc \in {"idle", "list", "default", "push", "send", "sync", "greet", "backoff"}
    /\ svlAsk \in {"none", "list", "default", "apply", "send"}
    /\ {svlSub, svlLink, svlSynced, svlOwed, svlMissed, svlOther, svlStray} \subseteq BOOLEAN

\* With every event handled the snapshot shows the sinks of the desktop, and so do the
\* plugin and a phone that has had the list: deltas against the snapshot, whole lists,
\* lists for newcomers and answers to requests add up whatever their order.  Left out
\* are changes while no subscription runs and failed lists, up to the next event, and
\* what a request has answered with another list than the snapshot of that moment, up
\* to the next push or whole list.
PhoneSeesSinks ==
    svlPc = "idle" /\ svlEvents = 0 /\ ~svlMissed =>
        /\ svlSnap = svlReal
        /\ ~svlOther => svlLive = svlReal
        /\ svlLink /\ ~svlOwed /\ ~svlStray => svlTold = svlReal

\* push_local_state: "Mirror into the plugin's live state so the REST surface and
\* requestSinks answers track reality".
AnswersTrackReality ==
    svlPc = "idle" /\ svlEvents = 0 /\ ~svlMissed /\ svlAsk = "none" => svlLive = svlReal

\* sync_peers: "newly connected consumers get their sinkList without waiting for a
\* sink event".
NewcomerGetsList == svlPc = "idle" /\ svlSynced /\ svlLink => ~svlOwed
=============================================================================
