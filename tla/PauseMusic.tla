----------------------------- MODULE PauseMusic -----------------------------
(***************************************************************************)
(* Calls: the telephony packets of the phones, fanned out to the telephony *)
(* plugin (a log per phone) and to pausemusic, which pauses the players    *)
(* that play, remembers them per phone and plays them when the call ends.  *)
(* The players belong to the session: users touch them at any time.  The   *)
(* mute leg is switched off in the code (ACTION_MUTE) and left out.        *)
(***************************************************************************)
EXTENDS Naturals, Sequences

CONSTANTS PmPhones, PmPlayers,
          PmCalls,    \* bound on telephony events and on what users do
          PmLogCap    \* MAX_CALLS_PER_DEVICE

PmNobody == "nobody"

ASSUME PmAssumption == PmNobody \notin PmPhones

VARIABLES pmPlaying,  \* players that play
          pmBy,       \* the phone a player was paused for, if nobody touched or
                      \* resumed it since
          pmInCall,   \* phones in a call
          pmQueue,    \* telephony packets under way, in order
          pmPc,       \* the handler of each phone's link
          pmLeft,     \* players its loop has not visited
          pmActed,    \* players it paused
          pmLock,     \* the holder of call_lock
          pmPaused,   \* paused: per phone
          pmLog,      \* calls of the telephony plugin
          pmCount,    \* events so far
          pmSkewed    \* phones whose link was torn down under a handler

pmVars == <<pmPlaying, pmBy, pmInCall, pmQueue, pmPc, pmLeft, pmActed, pmLock, pmPaused, pmLog,
            pmCount, pmSkewed>>
pmHandler == <<pmPc, pmLeft, pmActed, pmLock>>
pmCalls == <<pmInCall, pmQueue, pmLog, pmCount>>

PmInit ==
    /\ pmPlaying \in SUBSET PmPlayers /\ pmBy = [x \in PmPlayers |-> PmNobody]
    /\ pmInCall = {} /\ pmQueue = [p \in PmPhones |-> <<>>]
    /\ pmPc = [p \in PmPhones |-> "idle"]
    /\ pmLeft = [p \in PmPhones |-> {}] /\ pmActed = [p \in PmPhones |-> {}]
    /\ pmLock = PmNobody
    /\ pmPaused = [p \in PmPhones |-> {}]
    /\ pmLog = [p \in PmPhones |-> 0]
    /\ pmCount = 0 /\ pmSkewed = {}

PmTick == pmCount < PmCalls /\ pmCount' = pmCount + 1

-----------------------------------------------------------------------------
(* Phones and users                                                        *)

\* Ringing, or talking after it.
PmRing(p) ==
    /\ PmTick
    /\ pmInCall' = pmInCall \cup {p}
    /\ pmQueue' = [pmQueue EXCEPT ![p] = Append(@, "no")]
    /\ UNCHANGED <<pmPlaying, pmBy, pmHandler, pmPaused, pmLog, pmSkewed>>

\* Phones send the last event again with isCancel as a string, others as a boolean.
PmHangUp(p, cancel) ==
    /\ p \in pmInCall
    /\ pmInCall' = pmInCall \ {p}
    /\ pmQueue' = [pmQueue EXCEPT ![p] = Append(@, cancel)]
    /\ UNCHANGED <<pmPlaying, pmBy, pmHandler, pmPaused, pmLog, pmCount, pmSkewed>>

PmUser(x) ==
    /\ PmTick
    /\ pmPlaying' = IF x \in pmPlaying THEN pmPlaying \ {x} ELSE pmPlaying \cup {x}
    /\ pmBy' = [pmBy EXCEPT ![x] = PmNobody]
    /\ UNCHANGED <<pmHandler, pmInCall, pmQueue, pmPaused, pmLog, pmSkewed>>

-----------------------------------------------------------------------------
(* The handlers                                                            *)

\* Mutant: only the boolean is a cancel.
PmIsCancelBool(cancel) == cancel = "bool"

\* is_cancel and is_cancel_value.
PmIsCancel(cancel) == cancel \in {"bool", "string"}

\* telephony's handle_packet: a cancel is no call, the log drops its oldest entries.
PmTelephony(p, cancel) ==
    pmLog' = IF PmIsCancel(cancel) \/ pmLog[p] >= PmLogCap THEN pmLog
             ELSE [pmLog EXCEPT ![p] = @ + 1]

PmReceive(p) ==
    /\ pmPc[p] = "idle" /\ pmQueue[p] # <<>>
    /\ PmTelephony(p, Head(pmQueue[p]))
    /\ pmQueue' = [pmQueue EXCEPT ![p] = Tail(@)]
    /\ pmPc' = [pmPc EXCEPT ![p] = IF PmIsCancel(Head(pmQueue[p])) THEN "cancel" ELSE "call"]
    /\ UNCHANGED <<pmPlaying, pmBy, pmInCall, pmLeft, pmActed, pmLock, pmPaused, pmCount, pmSkewed>>

\* A call: call_lock, then list_names of pause_playing.
PmCallLock(p) ==
    /\ pmPc[p] = "call" /\ pmLock = PmNobody
    /\ pmLock' = p
    /\ pmPc' = [pmPc EXCEPT ![p] = "pause"]
    /\ pmLeft' = [pmLeft EXCEPT ![p] = PmPlayers]
    /\ UNCHANGED <<pmPlaying, pmBy, pmCalls, pmActed, pmPaused, pmSkewed>>

\* One player of pause_playing: what plays is paused, or stopped.  One that does not
\* play, cannot be asked or refuses is left alone.
PmPauseOne(p, x) ==
    /\ pmPc[p] = "pause" /\ x \in pmLeft[p]
    /\ pmLeft' = [pmLeft EXCEPT ![p] = @ \ {x}]
    /\ \/ /\ x \in pmPlaying
          /\ pmPlaying' = pmPlaying \ {x}
          /\ pmBy' = [pmBy EXCEPT ![x] = p]
          /\ pmActed' = [pmActed EXCEPT ![p] = @ \cup {x}]
       \/ UNCHANGED <<pmPlaying, pmBy, pmActed>>
    /\ UNCHANGED <<pmCalls, pmPc, pmLock, pmPaused, pmSkewed>>

PmRecord(p) ==
    /\ pmPc[p] = "pause" /\ pmLeft[p] = {}
    /\ pmPaused' = [pmPaused EXCEPT ![p] = @ \cup pmActed[p]]
    /\ pmActed' = [pmActed EXCEPT ![p] = {}]
    /\ pmPc' = [pmPc EXCEPT ![p] = "idle"]
    /\ pmLock' = PmNobody
    /\ UNCHANGED <<pmPlaying, pmBy, pmCalls, pmLeft, pmSkewed>>

\* A cancel: call_lock, and the record is taken.
PmCancelLock(p) ==
    /\ pmPc[p] = "cancel" /\ pmLock = PmNobody
    /\ pmLock' = p
    /\ pmPc' = [pmPc EXCEPT ![p] = "resume"]
    /\ pmLeft' = [pmLeft EXCEPT ![p] = pmPaused[p]]
    /\ pmPaused' = [pmPaused EXCEPT ![p] = {}]
    /\ UNCHANGED <<pmPlaying, pmBy, pmCalls, pmActed, pmSkewed>>

\* One player of resume: play, whatever it does now.  A Play that fails is
\* ignored, and the player stays as it is.
PmPlayOne(p, x) ==
    /\ pmPc[p] = "resume" /\ x \in pmLeft[p]
    /\ pmLeft' = [pmLeft EXCEPT ![p] = @ \ {x}]
    /\ pmPlaying' \in {pmPlaying, pmPlaying \cup {x}}
    /\ pmBy' = [pmBy EXCEPT ![x] = PmNobody]
    /\ UNCHANGED <<pmCalls, pmPc, pmActed, pmLock, pmPaused, pmSkewed>>

PmResumed(p) ==
    /\ pmPc[p] = "resume" /\ pmLeft[p] = {}
    /\ pmPc' = [pmPc EXCEPT ![p] = "idle"]
    /\ pmLock' = PmNobody
    /\ UNCHANGED <<pmPlaying, pmBy, pmCalls, pmLeft, pmActed, pmPaused, pmSkewed>>

\* on_disconnected of both plugins: the record goes, without call_lock; the players
\* stay paused.
PmDisconnected(p) ==
    /\ pmPaused' = [pmPaused EXCEPT ![p] = {}]
    /\ pmLog' = [pmLog EXCEPT ![p] = 0]
    /\ pmQueue' = [pmQueue EXCEPT ![p] = <<>>]
    /\ pmInCall' = pmInCall \ {p}
    /\ pmBy' = [x \in PmPlayers |-> IF pmBy[x] = p THEN PmNobody ELSE pmBy[x]]
    /\ pmSkewed' = IF pmPc[p] = "idle" THEN pmSkewed ELSE pmSkewed \cup {p}
    /\ UNCHANGED <<pmPlaying, pmHandler, pmCount>>

-----------------------------------------------------------------------------
PmNext ==
    \/ \E p \in PmPhones :
         \/ PmRing(p) \/ PmHangUp(p, "bool") \/ PmHangUp(p, "string")
         \/ PmReceive(p) \/ PmCallLock(p) \/ PmRecord(p) \/ PmCancelLock(p) \/ PmResumed(p)
         \/ PmDisconnected(p)
         \/ \E x \in PmPlayers : PmPauseOne(p, x) \/ PmPlayOne(p, x)
    \/ \E x \in PmPlayers : PmUser(x)

PmSpec == PmInit /\ [][PmNext]_pmVars

PmTypeOK ==
    /\ pmPlaying \subseteq PmPlayers /\ pmBy \in [PmPlayers -> PmPhones \cup {PmNobody}]
    /\ pmInCall \subseteq PmPhones /\ pmSkewed \subseteq PmPhones
    /\ pmPc \in [PmPhones -> {"idle", "call", "cancel", "pause", "resume"}]
    /\ {pmLeft, pmActed, pmPaused} \subseteq [PmPhones -> SUBSET PmPlayers]
    /\ pmLock \in PmPhones \cup {PmNobody}
    /\ pmLog \in [PmPhones -> 0..PmLogCap] /\ pmCount \in 0..PmCalls

\* Once a phone's call is over and its packets are handled, every player that was paused
\* on its behalf has been told to play, and no record is left that a later call's end
\* would play: through ringing that repeats, calls of two phones and users at the
\* players.  Left out: a link torn down while its handler runs, whose record outlives it.
CallEndResumes ==
    \A p \in PmPhones \ pmSkewed :
        p \notin pmInCall /\ pmPc[p] = "idle" /\ pmQueue[p] = <<>> =>
            /\ pmPaused[p] = {}
            /\ \A x \in PmPlayers : pmBy[x] # p
=============================================================================
