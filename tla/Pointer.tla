------------------------------ MODULE Pointer ------------------------------
(***************************************************************************)
(* Keyboard and pointer input from a peer (plugins/mousepad.rs), and the     *)
(* API handler by which this daemon sends such input itself                  *)
(* (api/handlers/plugins/remotecontrol.rs).  A packet is planned into        *)
(* actions, each action is one burst of events on a virtual device; the      *)
(* kernel drops events the device has not declared.  Absolute positions go   *)
(* to a second device, made when the first one arrives.                     *)
(*                                                                         *)
(* Coordinates are in tenths, so that rounding and truncation show.          *)
(***************************************************************************)
EXTENDS Integers, Sequences, SequencesExt, FiniteSets

CONSTANTS
    PtRequests,   \* packets a peer sends, see PtDefault for their fields
    PtAbsMax,     \* ABS_RANGE_MAX
    PtPackets

ASSUME PtAssumption == PtAbsMax \in Nat /\ PtPackets \in Nat

VARIABLES
    ptDevice,     \* whether the first virtual device could be opened
    ptAbs,        \* the second one: "untried", "failed", "open"
    ptAbsPos,     \* where it points, <<>> before the first position
    ptDown,       \* keys and buttons the desktop sees pressed
    ptDropped,    \* keys planned that no device declares
    ptHeld,       \* ghost: the peer is in a drag
    ptMoved,      \* relative motion and wheel notches injected, in whole steps
    ptLeft        \* packets left

ptVars == <<ptDevice, ptAbs, ptAbsPos, ptDown, ptDropped, ptHeld, ptMoved, ptLeft>>

-----------------------------------------------------------------------------
(* MousepadRequest, with every field at its default. *)
PtFlags == {"singleclick", "doubleclick", "middleclick", "rightclick",
            "singlehold", "singlerelease", "scroll"}
PtDefault == [flags |-> {}, mods |-> {}, key |-> "", special |-> 0,
              dx |-> 0, dy |-> 0, moves |-> FALSE, x |-> 0, y |-> 0, absolute |-> FALSE]

(* The constructors of MousepadRequest and the API's build. *)
PtMoveRelative(dx, dy) == [PtDefault EXCEPT !.dx = dx, !.dy = dy, !.moves = TRUE]
PtMoveAbsolute(x, y) == [PtDefault EXCEPT !.x = x, !.y = y, !.absolute = TRUE]
PtScroll(dx, dy) == [PtMoveRelative(dx, dy) EXCEPT !.flags = {"scroll"}]
PtClickFlag == [single |-> "singleclick", double |-> "doubleclick", middle |-> "middleclick",
                right |-> "rightclick", hold |-> "singlehold", release |-> "singlerelease"]
PtClick(which) == [PtDefault EXCEPT !.flags = {PtClickFlag[which]}]

PtBuilt == {PtMoveRelative(14, -6), PtMoveAbsolute(14, -6), PtScroll(0, -6)}
             \cup {PtClick(w) : w \in DOMAIN PtClickFlag}

-----------------------------------------------------------------------------
(* special_key_code: codes 1 to 32. *)
PtSpecialKeys ==
    <<"BACKSPACE", "TAB", "LINEFEED", "LEFT", "UP", "RIGHT", "DOWN", "PAGEUP", "PAGEDOWN",
      "HOME", "END", "ENTER", "DELETE", "ESC", "SYSRQ", "SCROLLLOCK",
      "LEFTCTRL", "LEFTALT", "LEFTSHIFT", "LEFTMETA",
      "F1", "F2", "F3", "F4", "F5", "F6", "F7", "F8", "F9", "F10", "F11", "F12">>

PtSpecialKey(code) == IF code \in DOMAIN PtSpecialKeys THEN {PtSpecialKeys[code]} ELSE {}

(* parse_key_code: the names, and single letters; digits and punctuation have *)
(* no key.                                                                  *)
PtLetters == {"A", "Z"}
PtNamedKeys == {"ENTER", "ESC", "BACKSPACE", "TAB", "SPACE", "DELETE", "HOME", "END", "PAGEUP",
                "PAGEDOWN", "LEFT", "RIGHT", "UP", "DOWN", "MUTE", "VOLUMEUP", "VOLUMEDOWN",
                "PLAYPAUSE", "NEXTSONG", "PREVIOUSSONG"}
PtParseKey(key) == IF key \in PtNamedKeys \cup PtLetters THEN {key} ELSE {}

(* The keys InputDevice::new declares. *)
PtDeclared ==
    PtLetters
      \cup {"ENTER", "ESC", "BACKSPACE", "TAB", "SPACE", "LEFT", "RIGHT", "UP", "DOWN",
            "LEFTSHIFT", "RIGHTSHIFT", "LEFTCTRL", "RIGHTCTRL", "LEFTALT", "RIGHTALT",
            "DELETE", "HOME", "END", "PAGEUP", "PAGEDOWN", "LINEFEED", "SYSRQ", "SCROLLLOCK",
            "F1", "F2", "F3", "F4", "F5", "F6", "F7", "F8", "F9", "F10", "F11", "F12",
            "VOLUMEUP", "VOLUMEDOWN", "MUTE", "PLAYPAUSE", "NEXTSONG", "PREVIOUSSONG",
            "LEFTMETA", "BTN_LEFT", "BTN_RIGHT", "BTN_MIDDLE"}

(* Modifiers.keys: in the order ctrl, alt, shift, super. *)
PtModKeys(mods) ==
    SelectSeq(<<"LEFTCTRL", "LEFTALT", "LEFTSHIFT", "LEFTMETA">>, LAMBDA k : k \in mods)

-----------------------------------------------------------------------------
(* Actions are bursts of events: <<"key", code, 1 or 0>> and                  *)
(* <<"rel", axis, amount>>.                                                 *)
PtPress(k) == <<"key", k, 1>>
PtRelease(k) == <<"key", k, 0>>
PtClicks(k) == <<PtPress(k), PtRelease(k)>>

PtKeyPress(k, mods) ==
    [i \in DOMAIN mods |-> PtPress(mods[i])] \o PtClicks(k)
      \o [i \in DOMAIN mods |-> PtRelease(mods[i])]

PtNotch(axis, delta) ==
    IF delta > 0 THEN <<<<"rel", axis, 1>>>>
    ELSE IF delta < 0 THEN <<<<"rel", axis, -1>>>> ELSE <<>>

PtWheel(dx, dy) == PtNotch("WHEEL", dy) \o PtNotch("HWHEEL", dx)

(* key_actions: a known special key wins over a named one. *)
PtKeyActions(req) ==
    LET keys == IF PtSpecialKey(req.special) # {} THEN PtSpecialKey(req.special)
                ELSE PtParseKey(req.key)
    IN IF keys = {} THEN <<>>
       ELSE PtKeyPress(CHOOSE k \in keys : TRUE, PtModKeys(req.mods))

(* A cast to i32 truncates toward zero. *)
PtTruncate(v) == IF v >= 0 THEN v \div 10 ELSE -((-v) \div 10)

PtMotion(req) ==
    LET dx == PtTruncate(req.dx)  dy == PtTruncate(req.dy)
    IN IF dx = 0 /\ dy = 0 THEN <<>> ELSE <<<<"rel", "X", dx>>, <<"rel", "Y", dy>>>>

(* plan_actions: a chain of strict priority; only a packet without clicks,     *)
(* scrolling and keys moves the pointer.                                    *)
PtChain(req) ==
    <<[flag |-> "singleclick",   plan |-> PtClicks("BTN_LEFT")],
      [flag |-> "doubleclick",   plan |-> PtClicks("BTN_LEFT") \o PtClicks("BTN_LEFT")],
      [flag |-> "middleclick",   plan |-> PtClicks("BTN_MIDDLE")],
      [flag |-> "rightclick",    plan |-> PtClicks("BTN_RIGHT")],
      [flag |-> "singlehold",    plan |-> <<PtPress("BTN_LEFT")>>],
      [flag |-> "singlerelease", plan |-> <<PtRelease("BTN_LEFT")>>],
      [flag |-> "scroll",        plan |-> PtWheel(req.dx, req.dy)]>>

PtPlan(req) ==
    LET links == SelectSeq(PtChain(req), LAMBDA link : link.flag \in req.flags)
    IN IF links # <<>> THEN Head(links).plan
       ELSE IF req.key # "" \/ req.special # 0 THEN PtKeyActions(req)
       ELSE IF req.moves THEN PtMotion(req) ELSE <<>>

(* scale_abs_coord: round half away from zero, then clamp. *)
PtScale(v) ==
    LET rounded == IF v >= 0 THEN (v + 5) \div 10 ELSE -((5 - v) \div 10)
    IN IF rounded < 0 THEN 0 ELSE IF rounded > PtAbsMax THEN PtAbsMax ELSE rounded

PtAbsolute(req) == req.absolute /\ PtPlan(req) = <<>>

-----------------------------------------------------------------------------
PtTypeOK ==
    /\ ptDevice \in BOOLEAN /\ ptHeld \in BOOLEAN
    /\ ptAbs \in {"untried", "failed", "open"}
    /\ ptAbsPos \in {<<>>} \cup ((0..PtAbsMax) \X (0..PtAbsMax))
    /\ ptMoved \in [{"X", "Y", "WHEEL", "HWHEEL"} -> Int]
    /\ ptLeft \in 0..PtPackets

PtInit ==
    /\ ptDevice \in BOOLEAN
    /\ ptAbs = "untried" /\ ptAbsPos = <<>>
    /\ ptDown = {} /\ ptDropped = {} /\ ptHeld = FALSE
    /\ ptMoved = [a \in {"X", "Y", "WHEEL", "HWHEEL"} |-> 0]
    /\ ptLeft = PtPackets

(* One event as the kernel takes it. *)
PtEvent(st, e) ==
    CASE e[1] = "rel" -> [st EXCEPT !.moved[e[2]] = @ + e[3]]
      [] e[1] = "key" /\ e[2] \notin PtDeclared -> [st EXCEPT !.dropped = @ \cup {e[2]}]
      [] e[1] = "key" /\ e[2] \in PtDeclared /\ e[3] = 1 -> [st EXCEPT !.down = @ \cup {e[2]}]
      [] e[1] = "key" /\ e[2] \in PtDeclared /\ e[3] = 0 -> [st EXCEPT !.down = @ \ {e[2]}]

(* inject_absolute: one attempt to open the second device, ever. *)
PtInjectAbsolute(req) ==
    IF ~PtAbsolute(req) THEN UNCHANGED <<ptAbs, ptAbsPos>>
    ELSE \E made \in {"open", "failed"} :
            /\ ptAbs' = IF ptAbs = "untried" THEN made ELSE ptAbs
            /\ ptAbsPos' = IF ptAbs' = "open" THEN <<PtScale(req.x), PtScale(req.y)>>
                           ELSE ptAbsPos

(* apply, for every action of the plan, when there is a device. *)
PtApply(plan) ==
    LET st == FoldLeft(PtEvent, [down |-> ptDown, dropped |-> ptDropped, moved |-> ptMoved],
                       IF ptDevice THEN plan ELSE <<>>)
    IN ptDown' = st.down /\ ptDropped' = st.dropped /\ ptMoved' = st.moved

(* A drag starts with a hold and ends with anything that lets the left button  *)
(* go.                                                                      *)
PtDrag(plan) ==
    ptHeld' = CASE plan = <<PtPress("BTN_LEFT")>> -> TRUE
                [] plan # <<PtPress("BTN_LEFT")>> /\ PtRelease("BTN_LEFT") \in ToSet(plan) -> FALSE
                [] OTHER -> ptHeld

PtHandle(req) ==
    /\ ptLeft > 0 /\ ptLeft' = ptLeft - 1
    /\ PtInjectAbsolute(req)
    /\ PtApply(PtPlan(req))
    /\ PtDrag(PtPlan(req))
    /\ UNCHANGED ptDevice

(* From a phone, and from another rust-connect's API. *)
PtFromPeer == \E req \in PtRequests : PtHandle(req)
PtFromApi == \E req \in PtBuilt : PtHandle(req)

PtNext == PtFromPeer \/ PtFromApi

PtSpec == PtInit /\ [][PtNext]_ptVars

-----------------------------------------------------------------------------
(* Whatever a peer sends, in whatever order: every key that plan_actions asks  *)
(* for is one InputDevice::new declared, so the kernel drops none, and between  *)
(* packets nothing is pressed but the left button of a drag.                 *)
KeysComeUp ==
    /\ ptDropped = {}
    /\ ptDown \subseteq {"BTN_LEFT"}
    /\ ptDevice => ("BTN_LEFT" \in ptDown <=> ptHeld)
=============================================================================
