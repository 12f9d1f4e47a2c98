------------------------------- MODULE Tablet -------------------------------
(***************************************************************************)
(* Two sources of pointer motion: a phone used as a drawing tablet           *)
(* (plugins/digitizer.rs), with a virtual device per session, and a phone     *)
(* used as a laser pointer (plugins/presenter.rs), whose fractions of a pixel *)
(* are carried from one packet to the next.                                 *)
(*                                                                         *)
(* Presenter deltas are in tenths of a pixel after POINTER_SCALE; "nan" is a   *)
(* delta that is not finite.  Integers of packets are cast to i32, here to     *)
(* the range of TbMod values around zero.                                    *)
(***************************************************************************)
EXTENDS Integers, Sequences, FiniteSets

CONSTANTS
    TbPhones, TbSizes, TbCoords, TbMod, TbAxisCap,
    TbDeltas, TbMaxPixels, TbPackets

ASSUME TbAssumption ==
    /\ TbMod \in Nat \ {0} /\ TbMod % 2 = 0
    /\ {TbAxisCap, TbMaxPixels, TbPackets} \subseteq Nat
    /\ TbSizes \subseteq Int /\ TbCoords \subseteq Int /\ TbDeltas \subseteq Int

VARIABLES
    tbSession,    \* sessions: per phone <<>>, or <<width, height, top of the axis, pen>>
    tbRest,       \* x_remainder and y_remainder
    tbSent,       \* ghost: pixels injected on each axis since the last reset
    tbAsked,      \* ghost: tenths of a pixel asked for since the last reset
    tbLeft

tbVars == <<tbSession, tbRest, tbSent, tbAsked, tbLeft>>

-----------------------------------------------------------------------------
TbClamp(v, low, high) == IF v < low THEN low ELSE IF v > high THEN high ELSE v
TbI32(v) == ((v + TbMod \div 2) % TbMod) - TbMod \div 2

TbPen0 == [touch |-> FALSE, tool |-> "none", x |-> 0, y |-> 0, pressure |-> 0]
TbAxes == {"x", "y"}
TbZero == [a \in TbAxes |-> 0]

TbTypeOK ==
    /\ \A p \in TbPhones : tbSession[p] = <<>> \/
          /\ tbSession[p][1].w \in Nat \ {0} /\ tbSession[p][1].h \in Nat \ {0}
          /\ tbSession[p][1].pen.tool \in {"none", "Pen", "Rubber"}
          /\ tbSession[p][1].pen.pressure \in 0..10
    /\ tbRest \in [TbAxes -> Int] /\ tbSent \in [TbAxes -> Int] /\ tbAsked \in [TbAxes -> Int]
    /\ tbLeft \in 0..TbPackets

TbInit ==
    /\ tbSession = [p \in TbPhones |-> <<>>]
    /\ tbRest = TbZero /\ tbSent = TbZero /\ tbAsked = TbZero
    /\ tbLeft = TbPackets

TbPacket == tbLeft > 0 /\ tbLeft' = tbLeft - 1

-----------------------------------------------------------------------------
(* The digitizer. *)

(* start_session: a device whose axes end at size - 1, within the cap.  A       *)
(* session of the same phone is replaced, its device closed.  A device that     *)
(* cannot be made leaves things as they were.                                *)
TbStart ==
    \E p \in TbPhones, w \in TbSizes, h \in TbSizes :
        /\ TbPacket
        /\ tbSession' =
              IF TbI32(w) > 0 /\ TbI32(h) > 0
              THEN [tbSession EXCEPT ![p] =
                      <<[w |-> TbI32(w), h |-> TbI32(h), pen |-> TbPen0,
                         top |-> [x |-> TbClamp(TbI32(w) - 1, 0, TbAxisCap),
                                  y |-> TbClamp(TbI32(h) - 1, 0, TbAxisCap)]]>>]
              ELSE tbSession
        /\ UNCHANGED <<tbRest, tbSent, tbAsked>>

TbStartFails ==
    /\ TbPacket
    /\ UNCHANGED <<tbSession, tbRest, tbSent, tbAsked>>

(* end_session, by packet or by on_disconnected. *)
TbEnd ==
    \E p \in TbPhones :
        /\ tbSession[p] # <<>>
        /\ tbSession' = [tbSession EXCEPT ![p] = <<>>]
        /\ UNCHANGED <<tbRest, tbSent, tbAsked, tbLeft>>

(* build_digitizer_events: leaving the tablet lets everything go. *)
TbLifted(pen) == TbPen0

(* A pen on the tablet: each field of the packet is optional ("none" or <<>>);  *)
(* without touch there is no pressure.                                       *)
TbDrawn(s, touch, tool, xy, pressure) ==
    LET pen == s.pen
        touched == CASE touch = "down" -> [pen EXCEPT !.touch = TRUE]
                     [] touch = "up" -> [pen EXCEPT !.touch = FALSE, !.pressure = 0]
                     [] touch = "none" -> pen
        tooled == IF tool = "none" THEN touched
                  ELSE [touched EXCEPT !.tool = IF tool \in {"Pen", "Rubber"} THEN tool ELSE "none"]
        placed == IF xy = <<>> THEN tooled
                  ELSE [tooled EXCEPT !.x = TbClamp(TbI32(xy[1]), 0, s.w - 1),
                                      !.y = TbClamp(TbI32(xy[2]), 0, s.h - 1)]
    IN IF touch # "up" /\ pressure # -1
       THEN [placed EXCEPT !.pressure = TbClamp(pressure, 0, 10)] ELSE placed

TbDraw ==
    \E p \in TbPhones, active \in BOOLEAN, touch \in {"down", "up", "none"},
       tool \in {"Pen", "Rubber", "pen", "none"},
       xy \in {<<>>} \cup (TbCoords \X TbCoords), pressure \in {-1, 5, 20} :
        /\ TbPacket
        /\ tbSession[p] # <<>>
        /\ LET s == tbSession[p][1]
           IN tbSession' = [tbSession EXCEPT ![p] =
                 <<[s EXCEPT !.pen = IF active THEN TbDrawn(s, touch, tool, xy, pressure)
                                     ELSE TbLifted(s.pen)]>>]
        /\ UNCHANGED <<tbRest, tbSent, tbAsked>>

-----------------------------------------------------------------------------
(* The presenter. *)

(* f64::round and the saturating cast. *)
TbRound(v) == IF v >= 0 THEN (v + 5) \div 10 ELSE -((5 - v) \div 10)
TbWhole(total) == TbClamp(TbRound(total), -TbMaxPixels, TbMaxPixels)

TbRemainderFresh(delta, whole, rest) == delta - 10 * whole

(* What scaled_pixels leaves for the next packet. *)
TbRemainder(delta, whole, rest) == (delta + rest) - 10 * whole

TbMove ==
    \E by \in [TbAxes -> TbDeltas] :
        LET whole == [a \in TbAxes |-> TbWhole(by[a] + tbRest[a])]
        IN /\ TbPacket
           /\ tbRest' = [a \in TbAxes |-> TbRemainder(by[a], whole[a], tbRest[a])]
           /\ tbSent' = [a \in TbAxes |-> tbSent[a] + whole[a]]
           /\ tbAsked' = [a \in TbAxes |-> tbAsked[a] + by[a]]
           /\ UNCHANGED tbSession

(* A delta that is not finite: no pixel, and the remainder stays. *)
TbMoveNan ==
    /\ TbPacket
    /\ UNCHANGED <<tbSession, tbRest, tbSent, tbAsked>>

(* stop, and on_disconnected of any phone. *)
TbStop ==
    /\ tbRest' = TbZero /\ tbSent' = TbZero /\ tbAsked' = TbZero
    /\ UNCHANGED <<tbSession, tbLeft>>

TbNext ==
    \/ TbStart \/ TbStartFails \/ TbEnd \/ TbDraw
    \/ TbMove \/ TbMoveNan \/ TbStop

TbSpec == TbInit /\ [][TbNext]_tbVars

-----------------------------------------------------------------------------
(* The laser pointer is never off by more than half a pixel from where the     *)
(* packets since the last stop have moved it: scaled_pixels loses no fraction.  *)
(* A packet that asks for more pixels than an event can hold is made up for by  *)
(* the next ones.                                                            *)
PointerKeepsPace ==
    \A a \in TbAxes :
        /\ 10 * tbSent[a] + tbRest[a] = tbAsked[a]
        /\ (\A d \in TbDeltas : TbRound(d) \in (1 - TbMaxPixels)..(TbMaxPixels - 1))
              => tbRest[a] \in -5..5
=============================================================================
