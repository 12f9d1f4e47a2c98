---------------------------- MODULE Notification ----------------------------
(***************************************************************************)
(* plugins/notification.rs: the notifications of one phone on the desktop, *)
(* with the popups the desktop's server shows.                             *)
(*                                                                         *)
(* The code between two awaits is a step, except in on_disconnected, whose *)
(* two lock sections are two.  A content is its signature.                 *)
(*                                                                         *)
(* The second half is plugins/sendnotifications.rs, the desktop's          *)
(* notifications forwarded to the phones.                                  *)
(***************************************************************************)
EXTENDS Naturals, Sequences, FiniteSets

CONSTANTS
    NtIds,          \* notification ids of the phone
    NtContents,     \* what a notification says
    NtHashes,       \* icons
    NtHistoryCap,   \* MAX_NOTIFICATION_HISTORY
    NtIconCap,      \* MAX_ICONS_PER_DEVICE
    NtPackets       \* bound on the packets of a behaviour

NtNone == "none"    \* no id, no content, no icon

ASSUME NtAssumption ==
    /\ NtHistoryCap \in Nat \ {0} /\ NtIconCap \in Nat \ {0} /\ NtPackets \in Nat
    /\ NtNone \notin NtIds \cup NtContents

VARIABLES
    ntDedupe,   \* id -> signature and server id of the last post; sig none: no entry
    ntShadow,   \* the same across disconnects, with whether the entry is still in time
    ntHistory,  \* ids and icons, oldest first
    ntIcons,    \* icon_lru, and the files it lists
    ntPopups,   \* server id -> what it shows
    ntJob,      \* the packet handler
    ntMoved,    \* on_disconnected between its lock sections: the entries collected
    ntCut,      \* the entry of the popup being shown was taken away meanwhile
    ntLoose,    \* popups nothing in the tables led to any more
    ntCount     \* packets so far

ntVars == <<ntDedupe, ntShadow, ntHistory, ntIcons, ntPopups, ntJob, ntMoved, ntCut, ntLoose, ntCount>>

NtEmpty == [sig |-> NtNone, rid |-> 0]
NtGhost == [sig |-> NtNone, rid |-> 0, fresh |-> FALSE]
NtIdle == [pc |-> "idle", id |-> NtNone, sig |-> NtNone, icon |-> NtNone, act |-> "none", rid |-> 0]
NtRids == 1..NtPackets

NtInit ==
    /\ ntDedupe = [i \in NtIds |-> NtEmpty] /\ ntShadow = [i \in NtIds |-> NtGhost]
    /\ ntHistory = <<>> /\ ntIcons = <<>> /\ ntPopups = [r \in NtRids |-> NtEmpty]
    /\ ntJob = NtIdle /\ ntMoved = [on |-> FALSE, entries |-> [i \in NtIds |-> NtEmpty]]
    /\ ntCut = FALSE /\ ntLoose = {} /\ ntCount = 0

-----------------------------------------------------------------------------
(* handle_packet                                                           *)

\* A notification, or the cancellation of one, with or without an icon.
NtReceive(i, c, icon, cancel) ==
    /\ ntJob.pc = "idle" /\ ntCount < NtPackets
    /\ ntCount' = ntCount + 1
    /\ ntJob' = [NtIdle EXCEPT !.pc = "icon", !.id = i, !.sig = c, !.icon = icon,
                               !.act = IF cancel THEN "cancel" ELSE "none"]
    /\ UNCHANGED <<ntDedupe, ntShadow, ntHistory, ntIcons, ntPopups, ntMoved, ntCut, ntLoose>>

\* record_icon: to the end of the queue, the oldest out.
NtRecordIcon(q, hash) ==
    LET touched == Append(SelectSeq(q, LAMBDA h : h # hash), hash)
    IN  SubSeq(touched, 1 + (IF Len(touched) > NtIconCap THEN Len(touched) - NtIconCap ELSE 0), Len(touched))

\* receive_icon: cached, or fetched over a payload transfer, which may fail.
NtIcon(ok) ==
    /\ ntJob.pc = "icon"
    /\ LET cached == \E k \in DOMAIN ntIcons : ntIcons[k] = ntJob.icon
           have == ntJob.icon # NtNone /\ (cached \/ ok)
       IN  /\ ntIcons' = IF have THEN NtRecordIcon(ntIcons, ntJob.icon) ELSE ntIcons
           /\ ntJob' = [ntJob EXCEPT !.pc = IF ntJob.act = "cancel" THEN "cancel" ELSE "track",
                                     !.icon = IF have THEN @ ELSE NtNone]
    /\ UNCHANGED <<ntDedupe, ntShadow, ntHistory, ntPopups, ntMoved, ntCut, ntLoose, ntCount>>

\* dedupe_take with the removal from history, as dismiss and cancel have it.
NtForget(i) ==
    /\ ntHistory' = SelectSeq(ntHistory, LAMBDA e : e.id # i)
    /\ ntDedupe' = [ntDedupe EXCEPT ![i] = NtEmpty]
    /\ ntShadow' = [ntShadow EXCEPT ![i] = NtGhost]

\* The popup goes as well, if the live entry has one (close_desktop_notification).
\* The shadow's is left on the desktop.
NtCancel ==
    /\ ntJob.pc = "cancel"
    /\ NtForget(ntJob.id)
    /\ LET rid == ntDedupe[ntJob.id].rid
       IN  ntPopups' = IF rid = 0 THEN ntPopups ELSE [ntPopups EXCEPT ![rid] = NtEmpty]
    /\ ntLoose' = ntLoose \cup ({ntShadow[ntJob.id].rid} \ {0, ntDedupe[ntJob.id].rid})
    /\ ntJob' = NtIdle
    /\ UNCHANGED <<ntIcons, ntMoved, ntCut, ntCount>>

\* Mutant of NtDecide: a changed notification found in the shadow is posted anew.
NtDecideNoShadow(i, c) ==
    IF ntDedupe[i].sig = c THEN [act |-> "suppress", rid |-> ntDedupe[i].rid]
    ELSE IF ntDedupe[i].sig # NtNone THEN [act |-> "replace", rid |-> ntDedupe[i].rid]
    ELSE [act |-> "post", rid |-> 0]

\* dedupe_track's answer: from the live entry, else from a shadow in time, else new.
NtDecide(i, c) ==
    LET live == ntDedupe[i]  ghost == ntShadow[i]
    IN  IF live.sig = c THEN [act |-> "suppress", rid |-> live.rid]
        ELSE IF live.sig # NtNone THEN [act |-> "replace", rid |-> live.rid]
        ELSE IF ghost.fresh /\ ghost.sig = c THEN [act |-> "suppress", rid |-> ghost.rid]
        ELSE IF ghost.fresh /\ ghost.rid # 0 THEN [act |-> "replace", rid |-> ghost.rid]
        ELSE [act |-> "post", rid |-> 0]

\* dedupe_track.  Without an id nothing is tracked.
NtTrack ==
    /\ ntJob.pc = "track"
    /\ LET i == ntJob.id
           d == IF i = NtNone THEN [act |-> "post", rid |-> 0] ELSE NtDecide(i, ntJob.sig)
       IN  /\ ntJob' = [ntJob EXCEPT !.pc = IF d.act = "suppress" THEN "tell" ELSE "show",
                                     !.act = d.act, !.rid = d.rid]
           /\ ntDedupe' = IF i = NtNone THEN ntDedupe
                          ELSE [ntDedupe EXCEPT ![i] = [sig |-> ntJob.sig, rid |-> d.rid]]
           /\ ntShadow' = IF i # NtNone /\ ntDedupe[i].sig = NtNone /\ ~ntShadow[i].fresh
                          THEN [ntShadow EXCEPT ![i] = NtGhost] ELSE ntShadow
           /\ ntLoose' = ntLoose \cup (IF i = NtNone THEN {} ELSE {ntMoved.entries[i].rid} \ {0})
    /\ ntCut' = FALSE
    /\ UNCHANGED <<ntHistory, ntIcons, ntPopups, ntMoved, ntCount>>

\* dedupe_record_shown finds the entry, or finds it gone.
NtRecordShown(i, rid) ==
    ntDedupe' = IF i # NtNone /\ ntDedupe[i].sig # NtNone
                THEN [ntDedupe EXCEPT ![i].rid = rid] ELSE ntDedupe

\* Server ids the plugin still holds.
NtKnown == UNION {{ntDedupe[i].rid, ntShadow[i].rid, ntMoved.entries[i].rid} : i \in NtIds}

\* show_async.  The server keeps the id of what is replaced, or has one to spare.
NtShow ==
    /\ ntJob.pc = "show"
    /\ LET free == {r \in NtRids : ntPopups[r] = NtEmpty /\ r \notin NtKnown}
           rid == IF ntJob.rid # 0 THEN ntJob.rid ELSE CHOOSE r \in free : TRUE
       IN  /\ ntJob.rid # 0 \/ free # {}
           /\ ntPopups' = [ntPopups EXCEPT ![rid] = [sig |-> ntJob.sig, rid |-> rid]]
           /\ NtRecordShown(ntJob.id, rid)
           /\ ntLoose' = IF ntCut \/ ntJob.id = NtNone THEN ntLoose \cup {rid} ELSE ntLoose \ {rid}
    /\ ntJob' = [ntJob EXCEPT !.pc = "tell"]
    /\ UNCHANGED <<ntShadow, ntHistory, ntIcons, ntMoved, ntCut, ntCount>>

\* No display, no server, or an error: the entry stays as it is.
NtShowFails ==
    /\ ntJob.pc = "show"
    /\ ntJob' = [ntJob EXCEPT !.pc = "tell"]
    /\ UNCHANGED <<ntDedupe, ntShadow, ntHistory, ntIcons, ntPopups, ntMoved, ntCut, ntLoose, ntCount>>

\* History: replace by id, append, drop the oldest and its dedupe entry.
NtTell ==
    /\ ntJob.pc = "tell"
    /\ LET kept == IF ntJob.id = NtNone THEN ntHistory ELSE SelectSeq(ntHistory, LAMBDA e : e.id # ntJob.id)
           full == Append(kept, [id |-> ntJob.id, icon |-> ntJob.icon])
           over == IF Len(full) > NtHistoryCap THEN Len(full) - NtHistoryCap ELSE 0
           out == {full[k].id : k \in 1..over} \ {NtNone}
       IN  /\ ntHistory' = SubSeq(full, over + 1, Len(full))
           /\ ntDedupe' = [i \in NtIds |-> IF i \in out THEN NtEmpty ELSE ntDedupe[i]]
           /\ ntLoose' = ntLoose \cup ({ntDedupe[i].rid : i \in out} \ {0})
    /\ ntJob' = NtIdle
    /\ UNCHANGED <<ntShadow, ntIcons, ntPopups, ntMoved, ntCut, ntCount>>

-----------------------------------------------------------------------------
(* Others                                                                  *)

\* dismiss, by the API.  The popup is taken to be gone from the desktop.
NtDismiss(i) ==
    /\ NtForget(i)
    /\ ntCut' = (ntCut \/ (ntJob.pc = "show" /\ ntJob.id = i))
    /\ ntLoose' = ntLoose \cup ({ntDedupe[i].rid, ntShadow[i].rid} \ {0})
    /\ UNCHANGED <<ntIcons, ntPopups, ntJob, ntMoved, ntCount>>

\* on_disconnected: history and the live entries first,
NtCollect ==
    /\ ~ntMoved.on
    /\ ntHistory' = <<>>
    /\ ntMoved' = [on |-> TRUE, entries |-> ntDedupe]
    /\ ntDedupe' = [i \in NtIds |-> NtEmpty]
    /\ ntCut' = (ntCut \/ ntJob.pc = "show")
    /\ UNCHANGED <<ntShadow, ntIcons, ntPopups, ntJob, ntLoose, ntCount>>

\* then the shadow, and the icons.
NtMerge ==
    /\ ntMoved.on
    /\ ntShadow' = [i \in NtIds |-> LET e == ntMoved.entries[i]
                                    IN  IF e.sig # NtNone THEN [sig |-> e.sig, rid |-> e.rid, fresh |-> TRUE]
                                        ELSE IF ntShadow[i].fresh THEN ntShadow[i] ELSE NtGhost]
    /\ ntMoved' = [on |-> FALSE, entries |-> [i \in NtIds |-> NtEmpty]]
    /\ ntIcons' = <<>>
    /\ UNCHANGED <<ntDedupe, ntHistory, ntPopups, ntJob, ntCut, ntLoose, ntCount>>

\* A day passes: DEDUPE_SHADOW_TTL.
NtAge(i) ==
    /\ ntShadow[i].fresh
    /\ ntShadow' = [ntShadow EXCEPT ![i].fresh = FALSE]
    /\ ntLoose' = ntLoose \cup ({ntShadow[i].rid} \ {0})
    /\ UNCHANGED <<ntDedupe, ntHistory, ntIcons, ntPopups, ntJob, ntMoved, ntCut, ntCount>>

\* The server takes a popup down after its five seconds, or the user does.
NtExpires(r) ==
    /\ ntPopups[r] # NtEmpty
    /\ ntPopups' = [ntPopups EXCEPT ![r] = NtEmpty] /\ ntLoose' = ntLoose \ {r}
    /\ UNCHANGED <<ntDedupe, ntShadow, ntHistory, ntIcons, ntJob, ntMoved, ntCut, ntCount>>

-----------------------------------------------------------------------------

NtNext ==
    \/ \E i \in NtIds \cup {NtNone}, c \in NtContents, icon \in NtHashes \cup {NtNone}, cancel \in BOOLEAN :
          /\ cancel => i # NtNone
          /\ NtReceive(i, c, icon, cancel)
    \/ \E ok \in BOOLEAN : NtIcon(ok)
    \/ NtCancel \/ NtTrack \/ NtShow \/ NtShowFails \/ NtTell
    \/ \E i \in NtIds : NtDismiss(i) \/ NtAge(i)
    \/ NtCollect \/ NtMerge
    \/ \E r \in NtRids : NtExpires(r)

NtSpec == NtInit /\ [][NtNext]_ntVars

NtTypeOK ==
    /\ ntDedupe \in [NtIds -> [sig : NtContents \cup {NtNone}, rid : 0..NtPackets]]
    /\ ntShadow \in [NtIds -> [sig : NtContents \cup {NtNone}, rid : 0..NtPackets, fresh : BOOLEAN]]
    /\ Len(ntHistory) <= NtHistoryCap /\ Len(ntIcons) <= NtIconCap
    /\ ntLoose \subseteq NtRids

\* A popup stays within reach of its notification: the server id of every popup on
\* the desktop is in the live table, the shadow or the hands of a handler, so that a
\* change replaces it and a cancellation closes it, across any number of disconnects
\* and resyncs.  Exempt are the popups that ntLoose lists: those without an id,
\* dismissed by the API, cancelled when only the shadow knew them, evicted with the
\* history, older than the shadow, or whose entry went while they were being shown, or
\* was in the hands of on_disconnected when the next packet looked for it
\* (dedupe_track, dedupe_record_shown, on_disconnected).
PopupsWithinReach ==
    \A r \in NtRids \ ntLoose :
        ntPopups[r] # NtEmpty => r \in NtKnown

\* dedupe_take: "cancel and dismiss must forget the notification completely across
\* disconnects".  It fails when on_disconnected has collected the entry and not yet
\* merged it.
ForgottenStaysForgotten ==
    [][\A i \in NtIds : ntShadow[i].sig = NtNone /\ ntDedupe[i].sig = NtNone
                        /\ ntShadow'[i].sig # NtNone => ntMoved.entries[i].sig = NtNone]_ntVars

-----------------------------------------------------------------------------
(* Notifications forwarded to the phones: a task becomes a monitor of the  *)
(* session bus and sends each Notify call to the connected, paired phones, *)
(* except the popups the daemon itself shows for a phone.  The flag        *)
(* watcher_started tells the rest of the daemon whether that task runs.    *)

CONSTANTS SnPhones, SnNotices, SnIdMod

ASSUME SnAssumption == SnNotices \in Nat /\ SnIdMod \in Nat \ {0}

VARIABLES
    snFlag,       \* watcher_started
    snStarter,    \* enable_session_backend: "new", "spawned", "done"
    snTask,       \* the monitor: "none", "connect", "watch", "failed", "ended"
    snBus,        \* Notify calls not yet read by the monitor
    snCounter,    \* fake_id_counter, modulo SnIdMod
    snNow,        \* the packet being sent, and the phones it still goes to
    snUp,         \* connected phones
    snPaired,     \* paired phones
    snGot,        \* per phone, the ids of the notifications it received
    snLeft        \* Notify calls left

snVars == <<snFlag, snStarter, snTask, snBus, snCounter, snNow, snUp, snPaired, snGot, snLeft>>

SnCalls == [own : BOOLEAN, blank : BOOLEAN, replaces : 0..1]
SnIdle == [id |-> 0, to |-> {}]

SnTypeOK ==
    /\ snFlag \in BOOLEAN
    /\ snStarter \in {"new", "spawned", "done"}
    /\ snTask \in {"none", "connect", "watch", "failed", "ended"}
    /\ snBus \in Seq(SnCalls)
    /\ snCounter \in 0..SnIdMod - 1
    /\ snNow \in [id : Nat, to : SUBSET SnPhones]
    /\ snUp \subseteq SnPhones /\ snPaired \subseteq SnPhones
    /\ snGot \in [SnPhones -> SUBSET Nat]

SnInit ==
    /\ snFlag = FALSE /\ snStarter = "new" /\ snTask = "none"
    /\ snBus = <<>> /\ snCounter = 0 /\ snNow = SnIdle
    /\ snUp \in SUBSET SnPhones /\ snPaired \in SUBSET SnPhones
    /\ snGot = [p \in SnPhones |-> {}]
    /\ snLeft = SnNotices

-----------------------------------------------------------------------------
(* try_start_watcher: the task is spawned first, the flag is set after. *)
SnStart ==
    /\ snStarter = "new" /\ ~snFlag
    /\ snStarter' = "spawned" /\ snTask' = "connect"
    /\ UNCHANGED <<snFlag, snBus, snCounter, snNow, snUp, snPaired, snGot, snLeft>>

SnStarted ==
    /\ snStarter = "spawned"
    /\ snStarter' = "done" /\ snFlag' = TRUE
    /\ UNCHANGED <<snTask, snBus, snCounter, snNow, snUp, snPaired, snGot, snLeft>>

(* monitor_notifications: the session bus and BecomeMonitor. *)
SnMonitor ==
    /\ snTask = "connect"
    /\ snTask' = "watch"
    /\ UNCHANGED <<snFlag, snStarter, snBus, snCounter, snNow, snUp, snPaired, snGot, snLeft>>

(* Either call failed: the spawned task clears the flag. *)
SnMonitorFails ==
    /\ snTask = "connect"
    /\ snTask' = "failed" /\ snFlag' = FALSE
    /\ UNCHANGED <<snStarter, snBus, snCounter, snNow, snUp, snPaired, snGot, snLeft>>

(* The stream ends with the bus: the loop falls through to Ok. *)
SnStreamEnds ==
    /\ snTask = "watch" /\ snNow.to = {}
    /\ snTask' = "ended"
    /\ snNow' = SnIdle
    /\ UNCHANGED <<snFlag, snStarter, snBus, snCounter, snUp, snPaired, snGot, snLeft>>

(* The popups of the first half carry the hint and are left out; so are    *)
(* calls without a summary.                                                *)
SnForwards(call) == ~call.own /\ ~call.blank

SnId(call) == IF call.replaces > 0 THEN call.replaces ELSE (snCounter + 1) % SnIdMod

SnRead ==
    /\ snTask = "watch" /\ snNow.to = {} /\ snBus # <<>>
    /\ LET call == Head(snBus)
       IN IF SnForwards(call)
          THEN /\ snNow' = [id |-> SnId(call), to |-> snUp]
               /\ snCounter' = IF call.replaces > 0 THEN snCounter ELSE SnId(call)
          ELSE UNCHANGED <<snNow, snCounter>>
    /\ snBus' = Tail(snBus)
    /\ UNCHANGED <<snFlag, snStarter, snTask, snUp, snPaired, snGot, snLeft>>

(* One phone of the loop over connected_device_ids, which was read before. *)
SnSend ==
    \E p \in snNow.to :
        /\ snNow' = [snNow EXCEPT !.to = @ \ {p}]
        /\ snGot' = IF p \in snPaired /\ p \in snUp
                    THEN [snGot EXCEPT ![p] = @ \cup {snNow.id}]
                    ELSE snGot
        /\ UNCHANGED <<snFlag, snStarter, snTask, snBus, snCounter, snUp, snPaired, snLeft>>

-----------------------------------------------------------------------------
(* The desktop's programs, and the phones. *)
SnNotify ==
    \E call \in SnCalls :
        /\ snLeft > 0
        /\ snLeft' = snLeft - 1
        /\ snBus' = IF snTask = "watch" THEN Append(snBus, call) ELSE snBus
        /\ UNCHANGED <<snFlag, snStarter, snTask, snCounter, snNow, snUp, snPaired, snGot>>

SnLink ==
    \E p \in SnPhones :
        /\ snUp' = IF p \in snUp THEN snUp \ {p} ELSE snUp \cup {p}
        /\ UNCHANGED <<snFlag, snStarter, snTask, snBus, snCounter, snNow, snPaired, snGot, snLeft>>

(* An unpairing also drops the link, see Links and Pairing. *)
SnUnpair ==
    \E p \in snPaired :
        /\ snPaired' = snPaired \ {p} /\ snUp' = snUp \ {p}
        /\ UNCHANGED <<snFlag, snStarter, snTask, snBus, snCounter, snNow, snGot, snLeft>>

SnNext ==
    \/ SnStart \/ SnStarted \/ SnMonitor \/ SnMonitorFails \/ SnStreamEnds
    \/ SnRead \/ SnSend \/ SnNotify \/ SnLink \/ SnUnpair

SnSpec == SnInit /\ [][SnNext]_snVars

-----------------------------------------------------------------------------
(* What the comment on is_backend_available says: the flag is reset when   *)
(* the monitor fails.  It does not hold: a task that fails before its      *)
(* starter sets the flag leaves it set for good.                           *)
FailedIsUnavailable == (snTask = "failed" /\ snStarter = "done") => ~snFlag
=============================================================================
