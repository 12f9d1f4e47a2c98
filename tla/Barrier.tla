------------------------------- MODULE Barrier -------------------------------
(***************************************************************************)
(* The pointer barrier of a shareinputdevices session: which line of the   *)
(* desktop plan_barrier chooses, and how the barrier follows the desktop   *)
(* when its zones change while it is being armed.                          *)
(***************************************************************************)
EXTENDS Integers, Sequences

CONSTANTS BarLayouts,   \* desktops: sequences of zones, as GetZones returns them
          BarEdges,     \* configured edges
          BarMoves      \* bound on changes of the desktop

BarZones == [x : Int, y : Int, width : Int, height : Int]

\* plan_barrier has no line for a desktop without zones.
ASSUME BarAssumption ==
    /\ BarEdges \subseteq {"left", "right", "top", "bottom"}
    /\ \A zones \in BarLayouts : zones # <<>> /\ zones \in Seq(BarZones)

VARIABLES barEdge,    \* the configured edge
          barDesk,    \* the portal's zone set and zones
          barLine,    \* the barrier the portal has armed, None for none
          barSignals, \* ZonesChanged not handled yet
          barPc,      \* the session: start, then its signal handler
          barGot,     \* the zones GetZones returned
          barSet,     \* current_zone_set
          barOrigin,  \* barrier_origin
          barMissed   \* the desktop changed before the signals were subscribed

barVars == <<barEdge, barDesk, barLine, barSignals, barPc, barGot, barSet, barOrigin, barMissed>>

BarNone == <<>>

\* edge_most_zone sorts by the edge's coordinate and is stable: the first of the
\* extreme zones.
BarKey(edge, z) ==
    CASE edge = "left"   -> z.x
      [] edge = "right"  -> -(z.x + z.width)
      [] edge = "top"    -> z.y
      [] edge = "bottom" -> -(z.y + z.height)

BarEdgeMost(edge, zones) ==
    zones[CHOOSE i \in 1..Len(zones) :
            /\ \A j \in 1..Len(zones) : BarKey(edge, zones[i]) <= BarKey(edge, zones[j])
            /\ \A j \in 1..(i - 1) : BarKey(edge, zones[i]) < BarKey(edge, zones[j])]

\* plan_barrier: inclusive along the edge, outside of the zone at the far edges.
BarPlan(edge, zones) ==
    LET z == BarEdgeMost(edge, zones)
    IN  CASE edge = "left"   -> <<z.x, z.y, z.x, z.y + z.height - 1>>
          [] edge = "right"  -> <<z.x + z.width, z.y, z.x + z.width, z.y + z.height - 1>>
          [] edge = "top"    -> <<z.x, z.y, z.x + z.width - 1, z.y>>
          [] edge = "bottom" -> <<z.x, z.y + z.height, z.x + z.width - 1, z.y + z.height>>

BarInit ==
    /\ barEdge \in BarEdges
    /\ \E zones \in BarLayouts : barDesk = [id |-> 0, zones |-> zones]
    /\ barLine = BarNone /\ barSignals = <<>> /\ barPc = "zones"
    /\ barGot = BarNone /\ barSet = 0 /\ barOrigin = BarNone
    /\ barMissed = FALSE

\* External: the compositor replaces the desktop, which voids the barriers of the
\* previous zone set, and signals it to those who have subscribed.
BarChange(zones) ==
    /\ barDesk.id < BarMoves
    /\ barDesk' = [id |-> barDesk.id + 1, zones |-> zones]
    /\ barLine' = BarNone
    /\ IF barPc \in {"zones", "arm", "subscribe"}
         THEN barMissed' = (barPc # "zones" \/ barMissed) /\ UNCHANGED barSignals
         ELSE barSignals' = Append(barSignals, barDesk.id + 1) /\ UNCHANGED barMissed
    /\ UNCHANGED <<barEdge, barPc, barGot, barSet, barOrigin>>

\* External: the portal takes barriers for its current zone set only.
BarAccepts(id) == id = barDesk.id

\* GetZones in start and in rearm_barriers.
BarGetZones ==
    /\ barPc \in {"zones", "rezones"}
    /\ barGot' = barDesk
    /\ barPc' = IF barPc = "zones" THEN "arm" ELSE "rearm"
    /\ UNCHANGED <<barEdge, barDesk, barLine, barSignals, barSet, barOrigin, barMissed>>

BarArmed ==
    LET line == BarPlan(barEdge, barGot.zones)
    IN  /\ barLine' = line
        /\ barSet' = barGot.id
        /\ barOrigin' = <<line[1], line[2]>>

\* SetPointerBarriers in start; a refusal fails the start.
BarArm ==
    /\ barPc = "arm"
    /\ IF BarAccepts(barGot.id)
         THEN BarArmed /\ barPc' = "subscribe"
         ELSE barPc' = "failed" /\ UNCHANGED <<barLine, barSet, barOrigin>>
    /\ UNCHANGED <<barEdge, barDesk, barSignals, barGot, barMissed>>

\* session_signal_stream, then Enable.
BarSubscribe ==
    /\ barPc = "subscribe"
    /\ barPc' = "wait"
    /\ UNCHANGED <<barEdge, barDesk, barLine, barSignals, barGot, barSet, barOrigin, barMissed>>

\* The handler takes a ZonesChanged and discards one older than its own set.
BarSignal ==
    /\ barPc = "wait" /\ barSignals # <<>>
    /\ barSignals' = Tail(barSignals)
    /\ barPc' = IF Head(barSignals) < barSet THEN "wait" ELSE "rezones"
    /\ UNCHANGED <<barEdge, barDesk, barLine, barGot, barSet, barOrigin, barMissed>>

\* rearm_barriers' second half; a refusal is logged and leaves the old values.
BarRearm ==
    /\ barPc = "rearm"
    /\ barPc' = "wait"
    /\ IF BarAccepts(barGot.id) THEN BarArmed ELSE UNCHANGED <<barLine, barSet, barOrigin>>
    /\ UNCHANGED <<barEdge, barDesk, barSignals, barGot, barMissed>>

BarNext ==
    \/ \E zones \in BarLayouts : BarChange(zones)
    \/ BarGetZones \/ BarArm \/ BarSubscribe \/ BarSignal \/ BarRearm

BarSpec == BarInit /\ [][BarNext]_barVars

BarTypeOK ==
    /\ barEdge \in BarEdges /\ barDesk.id \in 0..BarMoves
    /\ barPc \in {"zones", "arm", "subscribe", "wait", "rezones", "rearm", "failed"}
    /\ barSet \in 0..barDesk.id /\ barMissed \in BOOLEAN

\* Nothing of the desktop lies beyond the line.
BarOutermost(edge, line, zones) ==
    \A i \in 1..Len(zones) :
        CASE edge = "left"   -> zones[i].x >= line[1]
          [] edge = "right"  -> zones[i].x + zones[i].width <= line[1]
          [] edge = "top"    -> zones[i].y >= line[2]
          [] edge = "bottom" -> zones[i].y + zones[i].height <= line[2]

\* Once every ZonesChanged is handled, the barrier lies on the outer border of the
\* desktop as it is now and the origin that releases are computed from belongs to
\* it, in whatever order changes, signals and the two calls of rearm_barriers
\* come.  A change between SetPointerBarriers and the subscription in start is
\* not signalled to the session and is left out.
BarrierFollowsDesktop ==
    barPc = "wait" /\ barSignals = <<>> /\ ~barMissed =>
        /\ barLine # BarNone
        /\ barOrigin = <<barLine[1], barLine[2]>>
        /\ BarOutermost(barEdge, barLine, barDesk.zones)
=============================================================================
