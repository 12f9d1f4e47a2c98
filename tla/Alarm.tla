------------------------------- MODULE Alarm -------------------------------
(***************************************************************************)
(* The phone makes the desktop ring (plugins/findthisdevice.rs).  One task   *)
(* at a time unmutes the default sink, plays the alarm and mutes the sink    *)
(* again; every step shells out and any of them may fail.  Meanwhile the     *)
(* user may change the mute or choose another default sink.                 *)
(***************************************************************************)
EXTENDS Naturals, FiniteSets

CONSTANTS AlSinks, AlTouches

ASSUME AlAssumption == AlTouches \in Nat /\ AlSinks # {}

VARIABLES
    alRinging,    \* FindThisDevicePlugin.ringing
    alPc,         \* position of the ring task, "idle" without one
    alWas,        \* was_muted: "unknown" when pactl could not say, else "yes", "no"
    alFile,       \* whether the alarm's temporary file has been written
    alDefault,    \* the default sink
    alMuted,      \* the muted sinks
    alWish,       \* ghost: the sinks the user wants muted
    alTouched,    \* ghost: the user or a failing pactl interfered with a ring
    alLeft        \* interferences left

alVars == <<alRinging, alPc, alWas, alFile, alDefault, alMuted, alWish, alTouched, alLeft>>

AlTypeOK ==
    /\ alRinging \in BOOLEAN /\ alFile \in BOOLEAN /\ alTouched \in BOOLEAN
    /\ alPc \in {"idle", "player", "file", "query", "unmute", "play", "restore", "drop"}
    /\ alWas \in {"unknown", "yes", "no"}
    /\ alDefault \in AlSinks /\ alMuted \subseteq AlSinks /\ alWish \subseteq AlSinks
    /\ alLeft \in 0..AlTouches

AlInit ==
    /\ alRinging = FALSE /\ alPc = "idle" /\ alWas = "unknown" /\ alFile = FALSE
    /\ alDefault \in AlSinks /\ alMuted \in SUBSET AlSinks /\ alWish = alMuted
    /\ alTouched = FALSE /\ alLeft = AlTouches

-----------------------------------------------------------------------------
(* handle_packet: the swap drops a request while the alarm is playing. *)
AlRequest ==
    /\ ~alRinging
    /\ alRinging' = TRUE /\ alPc' = "player"
    /\ UNCHANGED <<alWas, alFile, alDefault, alMuted, alWish, alTouched, alLeft>>

AlGoto(pc) ==
    /\ alPc' = pc
    /\ UNCHANGED <<alRinging, alDefault, alWish, alLeft>>

(* player: the first candidate on the path, if there is one. *)
AlPlayer ==
    /\ alPc = "player"
    /\ \E pc \in {"file", "drop"} : AlGoto(pc)
    /\ UNCHANGED <<alWas, alFile, alMuted, alTouched>>

(* alarm_path_blocking: written once, kept for every later ring. *)
AlFileReady ==
    /\ alPc = "file"
    /\ \/ AlGoto("query") /\ alFile' = TRUE
       \/ ~alFile /\ AlGoto("drop") /\ UNCHANGED alFile
    /\ UNCHANGED <<alWas, alMuted, alTouched>>

(* unmute_default_sink, first half: get-sink-mute. *)
AlQuery ==
    /\ alPc = "query"
    /\ \/ alWas' = "unknown" /\ AlGoto("play")
       \/ alDefault \in alMuted /\ alWas' = "yes" /\ AlGoto("unmute")
       \/ alDefault \notin alMuted /\ alWas' = "no" /\ AlGoto("play")
    /\ UNCHANGED <<alFile, alMuted, alTouched>>

(* Second half: set-sink-mute 0, its result ignored. *)
AlUnmute ==
    /\ alPc = "unmute"
    /\ alMuted' \in {alMuted, alMuted \ {alDefault}}
    /\ AlGoto("play")
    /\ UNCHANGED <<alWas, alFile, alTouched>>

(* The player ended, failed or could not be started: all the same here. *)
AlPlayed ==
    /\ alPc = "play"
    /\ AlGoto(IF alWas = "unknown" THEN "drop" ELSE "restore")
    /\ UNCHANGED <<alWas, alFile, alMuted, alTouched>>

(* restore_mute mutes whatever is the default sink by now. *)
AlRestore ==
    /\ alPc = "restore"
    /\ \/ alWas = "no" /\ UNCHANGED <<alMuted, alTouched>>
       \/ alWas = "yes" /\ alMuted' = alMuted \cup {alDefault} /\ UNCHANGED alTouched
       \/ alWas = "yes" /\ UNCHANGED alMuted /\ alTouched' = TRUE
    /\ AlGoto("drop")
    /\ UNCHANGED <<alWas, alFile>>

(* RingGuard's drop. *)
AlDrop ==
    /\ alPc = "drop"
    /\ alPc' = "idle" /\ alRinging' = FALSE /\ alWas' = "unknown"
    /\ UNCHANGED <<alFile, alDefault, alMuted, alWish, alTouched, alLeft>>

-----------------------------------------------------------------------------
(* The user. *)
AlUserMutes ==
    \E s \in AlSinks, on \in BOOLEAN :
        LET set(S) == IF on THEN S \cup {s} ELSE S \ {s}
        IN /\ alLeft > 0
           /\ alMuted' = set(alMuted) /\ alWish' = set(alWish)
           /\ alTouched' = (alTouched \/ alPc # "idle")
           /\ alLeft' = alLeft - 1
           /\ UNCHANGED <<alRinging, alPc, alWas, alFile, alDefault>>

AlUserSwitches ==
    \E s \in AlSinks :
        /\ alLeft > 0 /\ s # alDefault
        /\ alDefault' = s
        /\ alTouched' = (alTouched \/ alPc # "idle")
        /\ alLeft' = alLeft - 1
        /\ UNCHANGED <<alRinging, alPc, alWas, alFile, alMuted, alWish>>

AlNext ==
    \/ AlRequest \/ AlPlayer \/ AlFileReady \/ AlQuery \/ AlUnmute
    \/ AlPlayed \/ AlRestore \/ AlDrop
    \/ AlUserMutes \/ AlUserSwitches

AlSpec == AlInit /\ [][AlNext]_alVars

-----------------------------------------------------------------------------
(* ring() leaves the mutes as the user set them, whether or not the player    *)
(* ran, provided nobody touched the sinks during a ring and pactl did not     *)
(* fail to mute again.                                                      *)
AlarmRestoresMute == (~alRinging /\ ~alTouched) => alMuted = alWish
=============================================================================
