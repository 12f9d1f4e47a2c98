------------------------------ MODULE Clipboard ------------------------------
(***************************************************************************)
(* The clipboard plugin: the session clipboard, the watcher that reads it  *)
(* after a change, the task that turns what was read into packets, and a   *)
(* handler per phone that stores first and writes the session clipboard    *)
(* second.  Nothing but equality of content tells a user's copy from the   *)
(* echo of a write.                                                        *)
(***************************************************************************)
EXTENDS Naturals, Sequences

CONSTANTS ClpPhones, ClpTexts,
          ClpMoves,   \* bound on copies, packets, API calls and failures
          ClpAhead    \* how far a phone's clock may be ahead

ClpEmpty == "empty"

ASSUME ClpAssumption == ClpEmpty \notin ClpTexts

VARIABLES clpMode,     \* watch (wl-paste --watch), notify (clipnotify) or poll
          clpUp,       \* the watcher runs
          clpArmed,    \* clipnotify waits for a change
          clpLines,    \* changes notified, not read
          clpHash,     \* the poll's last content
          clpDesk,     \* the session clipboard
          clpChan,     \* contents read, not applied
          clpContent, clpStamp,  \* ClipboardState
          clpWriting,  \* per phone: the content its handler has to write
          clpSent,     \* last content sent to the phones
          clpNow,      \* moves so far, and the time
          clpSkewed    \* a change went unread, or a write or an API call left
                       \* the session clipboard out

clpVars == <<clpMode, clpUp, clpArmed, clpLines, clpHash, clpDesk, clpChan, clpContent,
             clpStamp, clpWriting, clpSent, clpNow, clpSkewed>>
clpWatcher == <<clpMode, clpUp, clpArmed, clpLines, clpHash>>
clpStore == <<clpContent, clpStamp>>

ClpInit ==
    /\ clpMode \in {"watch", "notify", "poll"}
    /\ clpUp = TRUE /\ clpArmed = TRUE /\ clpLines = 0 /\ clpHash = ClpEmpty
    /\ clpDesk = ClpEmpty /\ clpChan = <<>>
    /\ clpContent = ClpEmpty /\ clpStamp = 0
    /\ clpWriting = [p \in ClpPhones |-> ClpEmpty]
    /\ clpSent = ClpEmpty
    /\ clpNow = 1 /\ clpSkewed = FALSE

ClpTime == clpNow < ClpMoves /\ clpNow' = clpNow + 1

-----------------------------------------------------------------------------
(* The session clipboard and its watcher                                   *)

\* A new owner of the selection, and what the watcher hears of it.
ClpOwn(text) ==
    /\ clpDesk' = text
    /\ clpLines' = CASE clpMode = "watch" /\ clpUp -> clpLines + 1
                     [] clpMode = "notify" /\ clpUp /\ clpArmed -> 1
                     [] OTHER -> clpLines
    /\ clpArmed' = (clpMode # "notify")
    /\ UNCHANGED <<clpMode, clpUp, clpHash>>

\* The user copies a text, or clears the selection (ClpEmpty).
ClpCopy(text) ==
    /\ ClpTime
    /\ ClpOwn(text)
    /\ clpSkewed' = (clpSkewed \/ ~clpUp)
    /\ UNCHANGED <<clpChan, clpStore, clpWriting, clpSent>>

\* run_watcher and run_x11_clipnotify_watcher: a change, then a read.  A selection that
\* is cleared by then is read as nothing, and nothing is passed on.
ClpRead ==
    /\ clpUp /\ clpLines > 0
    /\ clpLines' = clpLines - 1
    /\ clpChan' = IF clpDesk = ClpEmpty THEN clpChan ELSE Append(clpChan, clpDesk)
    /\ UNCHANGED <<clpMode, clpUp, clpArmed, clpHash, clpDesk, clpStore, clpWriting, clpSent,
                   clpNow, clpSkewed>>

\* The next clipnotify process.
ClpRearm ==
    /\ clpMode = "notify" /\ clpUp /\ ~clpArmed /\ clpLines = 0
    /\ clpArmed' = TRUE
    /\ UNCHANGED <<clpMode, clpUp, clpLines, clpHash, clpDesk, clpChan, clpStore, clpWriting,
                   clpSent, clpNow, clpSkewed>>

\* run_x11_poll_watcher: a read every 500 ms, passed on when it differs from the last.
ClpPoll ==
    /\ clpMode = "poll" /\ clpUp /\ clpHash # clpDesk
    /\ clpHash' = clpDesk
    /\ clpChan' = IF clpDesk = ClpEmpty THEN clpChan ELSE Append(clpChan, clpDesk)
    /\ UNCHANGED <<clpMode, clpUp, clpArmed, clpLines, clpDesk, clpStore, clpWriting, clpSent,
                   clpNow, clpSkewed>>

\* A read that fails or times out is dropped with its notification.
ClpReadFails ==
    /\ ClpTime
    /\ clpUp /\ clpLines > 0
    /\ clpLines' = clpLines - 1
    /\ clpSkewed' = TRUE
    /\ UNCHANGED <<clpMode, clpUp, clpArmed, clpHash, clpDesk, clpChan, clpStore, clpWriting,
                   clpSent>>

\* supervise_watcher: the process ends, and is started again after a backoff.
ClpWatcherEnds ==
    /\ ClpTime
    /\ clpUp /\ clpUp' = FALSE
    /\ clpLines' = 0
    /\ clpSkewed' = (clpSkewed \/ clpLines > 0)
    /\ UNCHANGED <<clpMode, clpArmed, clpHash, clpDesk, clpChan, clpStore, clpWriting, clpSent>>

ClpWatcherStarts ==
    /\ ~clpUp /\ clpUp' = TRUE
    /\ clpArmed' = TRUE /\ clpHash' = ClpEmpty
    /\ UNCHANGED <<clpMode, clpLines, clpDesk, clpChan, clpStore, clpWriting, clpSent, clpNow,
                   clpSkewed>>

-----------------------------------------------------------------------------
(* ClipboardCore                                                           *)

\* The guard of apply_local_change.
ClpFresh(text) == clpContent # text

\* apply_local_change and the fan-out of try_start_watcher.
ClpLocalChange ==
    /\ clpChan # <<>>
    /\ clpChan' = Tail(clpChan)
    /\ IF ClpFresh(Head(clpChan))
         THEN clpContent' = Head(clpChan) /\ clpStamp' = clpNow /\ clpSent' = Head(clpChan)
         ELSE UNCHANGED <<clpContent, clpStamp, clpSent>>
    /\ UNCHANGED <<clpWatcher, clpDesk, clpWriting, clpNow, clpSkewed>>

\* apply_remote, with the write still to come.
ClpReceive(p, text) ==
    /\ ClpTime
    /\ clpWriting[p] = ClpEmpty
    /\ clpContent' = text /\ clpStamp' = clpNow
    /\ clpWriting' = [clpWriting EXCEPT ![p] = text]
    /\ UNCHANGED <<clpWatcher, clpDesk, clpChan, clpSent, clpSkewed>>

\* apply_remote_connect: the phone's own time, 0 when it knows none.
ClpReceiveConnect(p, text, ts) ==
    /\ ClpTime
    /\ clpWriting[p] = ClpEmpty
    /\ ts # 0 /\ ts >= clpStamp
    /\ clpContent' = text /\ clpStamp' = ts
    /\ clpWriting' = [clpWriting EXCEPT ![p] = text]
    /\ UNCHANGED <<clpWatcher, clpDesk, clpChan, clpSent, clpSkewed>>

\* write_to_session.
ClpWrite(p) ==
    /\ clpWriting[p] # ClpEmpty
    /\ ClpOwn(clpWriting[p])
    /\ clpWriting' = [clpWriting EXCEPT ![p] = ClpEmpty]
    /\ clpSkewed' = (clpSkewed \/ ~clpUp)
    /\ UNCHANGED <<clpChan, clpStore, clpSent, clpNow>>

ClpWriteFails(p) ==
    /\ ClpTime
    /\ clpWriting[p] # ClpEmpty
    /\ clpWriting' = [clpWriting EXCEPT ![p] = ClpEmpty]
    /\ clpSkewed' = TRUE
    /\ UNCHANGED <<clpWatcher, clpDesk, clpChan, clpStore, clpSent>>

\* set_clipboard of the API: the phones are told, update_content may keep the old text.
ClpApiSet(text) ==
    /\ ClpTime
    /\ clpSent' = text
    /\ IF clpNow > clpStamp \/ clpContent = ClpEmpty
         THEN clpContent' = text /\ clpStamp' = clpNow
         ELSE UNCHANGED clpStore
    /\ clpSkewed' = TRUE
    /\ UNCHANGED <<clpWatcher, clpDesk, clpChan, clpWriting>>

-----------------------------------------------------------------------------
ClpNext ==
    \/ \E text \in ClpTexts \cup {ClpEmpty} : ClpCopy(text)
    \/ \E text \in ClpTexts : ClpApiSet(text)
    \/ ClpRead \/ ClpRearm \/ ClpPoll \/ ClpReadFails \/ ClpWatcherEnds \/ ClpWatcherStarts
    \/ ClpLocalChange
    \/ \E p \in ClpPhones, text \in ClpTexts :
         \/ ClpReceive(p, text)
         \/ \E ts \in 0..(ClpMoves + ClpAhead) : ClpReceiveConnect(p, text, ts)
    \/ \E p \in ClpPhones : ClpWrite(p) \/ ClpWriteFails(p)

ClpSpec == ClpInit /\ [][ClpNext]_clpVars

ClpTypeOK ==
    /\ clpMode \in {"watch", "notify", "poll"}
    /\ {clpUp, clpArmed, clpSkewed} \subseteq BOOLEAN
    /\ clpLines \in Nat /\ clpStamp \in Nat /\ clpNow \in 1..ClpMoves
    /\ {clpHash, clpDesk, clpContent, clpSent} \subseteq ClpTexts \cup {ClpEmpty}
    /\ clpChan \in Seq(ClpTexts)
    /\ clpWriting \in [ClpPhones -> ClpTexts \cup {ClpEmpty}]

ClpQuiet == clpLines = 0 /\ clpChan = <<>> /\ \A p \in ClpPhones : clpWriting[p] = ClpEmpty

\* Under wl-paste --watch, however user, phones and watcher overlap and whatever times
\* the phones claim, a text on the session clipboard ends up being what the plugin holds
\* (and hands to the next phone that connects).  A cleared selection is never propagated:
\* the plugin keeps an earlier text.  Left out: failed reads and writes, a restart of the
\* watcher that missed a change, and the API, which leaves the session clipboard alone.
ClipboardConverges ==
    clpMode = "watch" /\ ClpQuiet /\ ~clpSkewed => clpDesk \in {clpContent, ClpEmpty}
=============================================================================
