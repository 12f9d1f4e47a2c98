-------------------------------- MODULE Mpris --------------------------------
(***************************************************************************)
(* The mpris plugin.  As player host it follows the session bus: a watch   *)
(* loop tracks the players, a listener per player reports changes, both    *)
(* feed one channel, and the plugin's task turns the events into its cache *)
(* and into packets for the phones.  As remote it keeps the players each   *)
(* phone reports.  Players are their bus services; every player has the    *)
(* same identity, so names are base, base [2], ... : the numbers 1, 2, ... *)
(***************************************************************************)
EXTENDS Naturals, Sequences, FiniteSets, SequencesExt

CONSTANTS MprServices,  \* bus services of players
          MprShadows,   \* MprShadows[s]: services hidden while s is there
          MprOwners,    \* bound on ownership changes and lost connections
          MprRemotes,   \* names a phone uses for its players
          MprLists,     \* bound on player lists made and not sent
          MprQueue,     \* bound on undelivered events when a listener reports
          MprCap        \* MAX_PLAYERS_PER_DEVICE

MprNames == 1..Cardinality(MprServices)
MprNobody == "nobody"

VARIABLES mprBus,       \* players on the session bus
          mprMoves,     \* changes of ownership so far
          mprSignals,   \* NameOwnerChanged not handled, as the services that moved
          mprPc,        \* the watch loop and its supervisor
          mprList,      \* listed names that are not added yet
          mprTracked,   \* services: name -> service
          mprListeners, \* listener tasks
          mprReading,   \* listeners about to send, as <<service, name>>
          mprChan,      \* the MprisBackendEvent channel
          mprCache,     \* local_players: name -> service
          mprMissed,    \* ghost: services whose coming or going was missed
          mprSkewed,    \* ghost: an aborted listener has sent once more
          mprLink,      \* the phone's link: down, fresh, or up once on_connected ran
          mprOut,       \* player lists made and not sent, in the order made
          mprTold,      \* the player list the phone has
          mprBehind,    \* ghost: a list made later was sent before that one
          mprRemote     \* players of the phone, in the order they came

mprDesk == <<mprBus, mprMoves, mprSignals>>
mprWatch == <<mprPc, mprList, mprTracked, mprListeners, mprReading>>
mprGhosts == <<mprMissed, mprSkewed>>
mprPhone == <<mprLink, mprOut, mprTold, mprBehind, mprRemote>>
mprVars == <<mprDesk, mprWatch, mprChan, mprCache, mprGhosts, mprPhone>>

MprEmpty == [n \in MprNames |-> MprNobody]
MprUsed(map) == {n \in MprNames : map[n] # MprNobody}

MprInit ==
    /\ mprBus \in SUBSET MprServices
    /\ mprMoves = 0 /\ mprSignals = <<>>
    /\ mprPc = "list" /\ mprList = {}
    /\ mprTracked = MprEmpty /\ mprListeners = {} /\ mprReading = {}
    /\ mprChan = <<>>
    /\ mprCache = MprEmpty
    /\ mprMissed = {} /\ mprSkewed = FALSE
    /\ mprLink = "down" /\ mprOut = <<>> /\ mprTold = {} /\ mprBehind = FALSE
    /\ mprRemote = <<>>

\* filtered_player_names: a browser is hidden behind its Plasma integration.
MprFiltered(map) ==
    {n \in MprUsed(map) : \A m \in MprUsed(map) : map[n] \notin MprShadows[map[m]]}

-----------------------------------------------------------------------------
(* The session bus                                                         *)

\* A service appears, goes, or changes hands in one signal.
MprOwner(s, new) ==
    /\ mprMoves < MprOwners
    /\ s \in mprBus \/ new
    /\ mprMoves' = mprMoves + 1
    /\ mprBus' = IF new THEN mprBus \cup {s} ELSE mprBus \ {s}
    /\ mprSignals' = IF mprPc # "watch" THEN mprSignals
                     ELSE Append(mprSignals, [svc |-> s, old |-> s \in mprBus, new |-> new])
    /\ mprMissed' = IF mprPc = "add" THEN mprMissed \cup {s} ELSE mprMissed
    /\ UNCHANGED <<mprWatch, mprChan, mprCache, mprSkewed, mprPhone>>

\* The connection breaks: calls fail, streams end, the supervisor takes over.
MprBusLost ==
    /\ mprPc \in {"list", "add", "watch"}
    /\ mprMoves < MprOwners
    /\ mprMoves' = mprMoves + 1
    /\ mprSignals' = <<>>
    /\ mprPc' = "lost"
    /\ UNCHANGED <<mprBus, mprList, mprTracked, mprListeners, mprReading, mprChan, mprCache,
                   mprGhosts, mprPhone>>

-----------------------------------------------------------------------------
(* watch_loop and watch_supervisor                                         *)

MprEvent(k, s, n) == [kind |-> k, svc |-> s, name |-> n]

\* display_name_for: the first number that is not taken.
MprFreeName == CHOOSE n \in MprNames : mprTracked[n] = MprNobody
                                       /\ \A m \in 1..(n - 1) : mprTracked[m] # MprNobody

\* add_player: nothing for a service that is tracked; ok is false when it vanished
\* before its proxies were made.
MprAdd(s, ok) ==
    IF ~ok \/ \E n \in MprNames : mprTracked[n] = s
      THEN UNCHANGED <<mprTracked, mprListeners, mprChan>>
      ELSE /\ mprTracked' = [mprTracked EXCEPT ![MprFreeName] = s]
           /\ mprChan' = Append(mprChan, MprEvent("added", s, MprFreeName))
           /\ mprListeners' = mprListeners \cup {<<s, MprFreeName>>}

\* list_names; when it fails the loop goes on without the players it would have
\* listed.
MprListNames(ok) ==
    /\ mprPc = "list"
    /\ mprList' = IF ok THEN mprBus ELSE {}
    /\ mprMissed' = IF ok THEN {} ELSE mprBus
    /\ mprPc' = "add"
    /\ UNCHANGED <<mprDesk, mprTracked, mprListeners, mprReading, mprChan, mprCache, mprSkewed,
                   mprPhone>>

MprAddListed(s, ok) ==
    /\ mprPc = "add" /\ s \in mprList
    /\ mprList' = mprList \ {s}
    /\ MprAdd(s, ok)
    /\ mprMissed' = IF ok THEN mprMissed ELSE mprMissed \cup {s}
    /\ UNCHANGED <<mprDesk, mprPc, mprReading, mprCache, mprSkewed, mprPhone>>

\* Only now NameOwnerChanged is subscribed.
MprSubscribe ==
    /\ mprPc = "add" /\ mprList = {}
    /\ mprPc' = "watch"
    /\ UNCHANGED <<mprDesk, mprList, mprTracked, mprListeners, mprReading, mprChan, mprCache,
                   mprGhosts, mprPhone>>

\* remove_player, for a signal with an old owner; a new one is handled next.
MprOwnerGone ==
    /\ mprPc = "watch" /\ mprSignals # <<>> /\ Head(mprSignals).old
    /\ LET s == Head(mprSignals).svc
           names == {n \in MprNames : mprTracked[n] = s}
       IN  /\ mprListeners' = {l \in mprListeners : l[1] # s}
           /\ mprTracked' = [n \in MprNames |-> IF n \in names THEN MprNobody ELSE mprTracked[n]]
           /\ mprChan' = IF names = {} THEN mprChan ELSE Append(mprChan, MprEvent("removed", s, 0))
           /\ mprMissed' = mprMissed \ {s}
    /\ mprSignals' = IF Head(mprSignals).new THEN [mprSignals EXCEPT ![1].old = FALSE]
                                             ELSE Tail(mprSignals)
    /\ UNCHANGED <<mprBus, mprMoves, mprPc, mprList, mprReading, mprCache, mprSkewed, mprPhone>>

\* add_player, for a signal with a new owner.
MprOwnerNew(ok) ==
    /\ mprPc = "watch" /\ mprSignals # <<>> /\ ~Head(mprSignals).old
    /\ LET s == Head(mprSignals).svc
       IN  MprAdd(s, ok) /\ mprMissed' = IF ok THEN mprMissed \ {s} ELSE mprMissed \cup {s}
    /\ mprSignals' = Tail(mprSignals)
    /\ UNCHANGED <<mprBus, mprMoves, mprPc, mprList, mprReading, mprCache, mprSkewed, mprPhone>>

\* watch_supervisor after the loop ended: every listener is aborted, its player
\* reported as removed, and the loss of the backend after them.
MprSupervise ==
    /\ mprPc = "lost"
    /\ LET gone == SetToSeq({l[1] : l \in mprListeners})
       IN  mprChan' = mprChan \o [i \in 1..Len(gone) |-> MprEvent("removed", gone[i], 0)]
                              \o <<MprEvent("lost", MprNobody, 0)>>
    /\ mprListeners' = {}
    /\ mprTracked' = MprEmpty
    /\ mprList' = {}
    /\ mprPc' = "reconnect"
    /\ UNCHANGED <<mprDesk, mprReading, mprCache, mprGhosts, mprPhone>>

\* A new connection, at once or after a backoff.
MprReconnect ==
    /\ mprPc = "reconnect"
    /\ mprPc' = "list"
    /\ UNCHANGED <<mprDesk, mprList, mprTracked, mprListeners, mprReading, mprChan, mprCache,
                   mprGhosts, mprPhone>>

-----------------------------------------------------------------------------
(* player_listener: a change, by a command of the phone (transport and the *)
(* setters) or on the desktop, is read, then reported                      *)

MprChanged(l) ==
    /\ l \in mprListeners /\ mprReading = {}
    /\ Len(mprChan) < MprQueue
    /\ mprReading' = mprReading \cup {l}
    /\ UNCHANGED <<mprDesk, mprPc, mprList, mprTracked, mprListeners, mprChan, mprCache,
                   mprGhosts, mprPhone>>

\* An abort stops the task at an await: one that is past its last one still sends.
MprReport(l) ==
    /\ l \in mprReading
    /\ mprReading' = mprReading \ {l}
    /\ \/ /\ mprChan' = Append(mprChan, MprEvent("props", l[1], l[2]))
          /\ mprSkewed' = (mprSkewed \/ l \notin mprListeners)
       \/ l \notin mprListeners /\ UNCHANGED <<mprChan, mprSkewed>>
    /\ UNCHANGED <<mprDesk, mprPc, mprList, mprTracked, mprListeners, mprCache, mprMissed, mprPhone>>

-----------------------------------------------------------------------------
(* The plugin's event task: MprisCore                                      *)

MprPut(e) == [mprCache EXCEPT ![e.name] = e.svc]

\* Mutant: the removal looks the player up by a name that the event does not carry.
MprOfNone(s) == {}

\* The players of a service, of which apply_player_removed removes one.
MprOf(s) == {n \in MprNames : mprCache[n] = s}

\* apply_player_added, apply_props_changed, apply_player_removed, apply_backend_lost.
MprPlayerAdded(e) == e.kind = "added" /\ mprCache' = MprPut(e)
MprPropsChanged(e) == e.kind = "props" /\ mprCache' = MprPut(e)
MprPlayerRemoved(e) ==
    /\ e.kind = "removed"
    /\ \E n \in MprOf(e.svc) : mprCache' = [mprCache EXCEPT ![n] = MprNobody]
MprBackendLost(e) == e.kind = "lost" /\ mprCache' = MprEmpty

\* A list is made from the cache by one of three tasks, and sent by it later.
MprPending(by) == \E i \in DOMAIN mprOut : mprOut[i].by = by
MprMake(by) ==
    /\ Len(mprOut) < MprLists
    /\ mprOut' = Append(mprOut, [by |-> by, list |-> MprFiltered(mprCache'), late |-> FALSE])

\* The event task: every event but a change of properties is followed by the list,
\* which is sent before the next event is taken.
MprApply ==
    /\ mprChan # <<>> /\ ~MprPending("events")
    /\ mprChan' = Tail(mprChan)
    /\ LET e == Head(mprChan)
       IN  \/ (MprPlayerAdded(e) \/ MprPlayerRemoved(e) \/ MprBackendLost(e)) /\ MprMake("events")
           \/ MprPropsChanged(e) /\ UNCHANGED mprOut
           \/ e.kind = "removed" /\ MprOf(e.svc) = {} /\ UNCHANGED <<mprCache, mprOut>>
    /\ UNCHANGED <<mprDesk, mprWatch, mprGhosts, mprLink, mprTold, mprBehind, mprRemote>>

\* A list goes to the link that is there by then, if there is one.
MprSend(i) ==
    /\ i \in DOMAIN mprOut
    /\ IF mprLink = "down"
         THEN mprOut' = RemoveAt(mprOut, i) /\ UNCHANGED <<mprTold, mprBehind>>
         ELSE /\ mprTold' = mprOut[i].list /\ mprBehind' = mprOut[i].late
              /\ mprOut' = RemoveAt([j \in DOMAIN mprOut |->
                                        [mprOut[j] EXCEPT !.late = @ \/ j < i]], i)
    /\ UNCHANGED <<mprDesk, mprWatch, mprChan, mprCache, mprGhosts, mprLink, mprRemote>>

-----------------------------------------------------------------------------
(* The phone                                                               *)

MprConnected ==
    /\ mprLink = "down"
    /\ mprLink' = "fresh"
    /\ UNCHANGED <<mprDesk, mprWatch, mprChan, mprCache, mprGhosts, mprOut, mprTold, mprBehind,
                   mprRemote>>

\* on_connected makes the packets, the init task of the connection sends them.
MprOnConnected ==
    /\ mprLink = "fresh" /\ ~MprPending("init")
    /\ mprLink' = "up"
    /\ UNCHANGED mprCache /\ MprMake("init")
    /\ UNCHANGED <<mprDesk, mprWatch, mprChan, mprGhosts, mprTold, mprBehind, mprRemote>>

\* handle_control_request: a request for the list, or for a player that is not in
\* the cache, is answered by the list, which the packet loop sends when the handler
\* is through with its commands.
MprRequestList ==
    /\ mprLink # "down" /\ ~MprPending("loop")
    /\ UNCHANGED mprCache /\ MprMake("loop")
    /\ UNCHANGED <<mprDesk, mprWatch, mprChan, mprGhosts, mprLink, mprTold, mprBehind, mprRemote>>

\* handle_remote_update: a list prunes; a player beyond the cap is refused.
MprRemoteUpdate(list, player) ==
    /\ mprLink # "down"
    /\ LET kept == SelectSeq(mprRemote, LAMBDA p : p \in list)
       IN  mprRemote' = IF player \in ToSet(kept) \/ Len(kept) >= MprCap
                          THEN kept ELSE Append(kept, player)
    /\ UNCHANGED <<mprDesk, mprWatch, mprChan, mprCache, mprGhosts, mprLink, mprOut, mprTold,
                   mprBehind>>

\* The packet loop and its answer end with the link.
MprDisconnected ==
    /\ mprLink # "down"
    /\ mprLink' = "down" /\ mprTold' = {} /\ mprBehind' = FALSE
    /\ mprOut' = SelectSeq(mprOut, LAMBDA m : m.by # "loop")
    /\ mprRemote' = <<>>
    /\ UNCHANGED <<mprDesk, mprWatch, mprChan, mprCache, mprGhosts>>

-----------------------------------------------------------------------------
MprLinkNext == MprConnected \/ MprDisconnected

\* The desktop's players, from the bus to the lists made of them.
MprHostNext ==
    \/ \E s \in MprServices, new \in BOOLEAN : MprOwner(s, new)
    \/ \E s \in MprServices : MprAddListed(s, TRUE)
    \/ MprListNames(TRUE) \/ MprOwnerNew(TRUE) \/ MprOwnerGone \/ MprSubscribe
    \/ MprBusLost \/ MprSupervise \/ MprReconnect
    \/ MprApply
    \/ \E i \in DOMAIN mprOut : MprSend(i)

\* What the watch loop fails to see, and what listeners report.
MprWatchNext ==
    \/ MprListNames(FALSE) \/ MprOwnerNew(FALSE)
    \/ \E s \in MprServices : MprAddListed(s, FALSE)
    \/ \E l \in MprServices \X MprNames : MprChanged(l) \/ MprReport(l)

\* The phone that is shown them.
MprPhoneNext == MprOnConnected \/ MprRequestList \/ MprLinkNext

\* The phone as the host of players shares only the link with the rest.
MprRemoteNext ==
    \/ \E list \in SUBSET MprRemotes, p \in MprRemotes : MprRemoteUpdate(list, p)
    \/ MprLinkNext

MprNext == MprHostNext \/ MprWatchNext \/ MprPhoneNext \/ MprRemoteNext

MprSpec == MprInit /\ [][MprNext]_mprVars

MprTypeOK ==
    /\ mprBus \subseteq MprServices /\ mprMoves \in 0..MprOwners
    /\ mprPc \in {"list", "add", "watch", "lost", "reconnect"}
    /\ mprList \subseteq MprServices
    /\ mprTracked \in [MprNames -> MprServices \cup {MprNobody}]
    /\ mprCache \in [MprNames -> MprServices \cup {MprNobody}]
    /\ mprListeners \subseteq MprServices \X MprNames /\ mprReading \subseteq MprServices \X MprNames
    /\ mprMissed \subseteq MprServices /\ mprSkewed \in BOOLEAN
    /\ mprLink \in {"down", "fresh", "up"}
    /\ \A i \in DOMAIN mprOut : mprOut[i].list \subseteq MprNames
    /\ Cardinality({mprOut[i].by : i \in DOMAIN mprOut}) = Len(mprOut)
    /\ mprTold \subseteq MprNames /\ mprBehind \in BOOLEAN
    /\ Len(mprRemote) <= MprCap /\ IsInjective(mprRemote)

\* Once the channel is drained the cache is what commands are resolved with and
\* names the players on the bus, across players that come, go, restart and reuse
\* names and a lost bus with re-enumeration; once the lists made of it are sent too,
\* a connected phone shows exactly these.  A service is left out from a failed
\* list_names or add_player, or a change between list_names and the subscription, to
\* its next signal; a phone when a list made later was sent first; all, when a
\* listener has sent after its abort.
PhonesSeePlayers ==
    mprPc = "watch" /\ mprSignals = <<>> /\ mprChan = <<>> /\ ~mprSkewed =>
        /\ mprCache = mprTracked
        /\ {mprTracked[n] : n \in MprUsed(mprTracked)} \ mprMissed = mprBus \ mprMissed
        /\ mprLink = "up" /\ mprOut = <<>> /\ ~mprBehind => mprTold = MprFiltered(mprTracked)
=============================================================================
