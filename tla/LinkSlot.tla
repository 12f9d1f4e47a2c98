------------------------------ MODULE LinkSlot ------------------------------
(***************************************************************************)
(* What the connection manager promises its callers: a device has one slot,*)
(* a link takes the slot of its own device at most once, and a link that   *)
(* has left it never comes back.  Links implements it.                     *)
(***************************************************************************)

CONSTANTS Devices, Links, DevOf, NoLink

VARIABLES
    owner,      \* device -> the link callers reach it by, or NoLink
    spent       \* links that took their slot, or never will

slotVars == <<owner, spent>>

SlotInit ==
    /\ owner = [d \in Devices |-> NoLink]
    /\ spent = {}

\* A new link takes the slot, from whatever link has it.
Take(l) ==
    /\ l \notin spent
    /\ spent' = spent \cup {l}
    /\ owner' = [owner EXCEPT ![DevOf[l]] = l]

\* A new link is turned away.
TurnAway(l) ==
    /\ l \notin spent
    /\ spent' = spent \cup {l}
    /\ UNCHANGED owner

\* The slot becomes empty.
Leave(d) ==
    /\ owner' = [owner EXCEPT ![d] = NoLink]
    /\ UNCHANGED spent

SlotNext ==
    \/ \E l \in Links : Take(l) \/ TurnAway(l)
    \/ \E d \in Devices : Leave(d)

SlotSpec == SlotInit /\ [][SlotNext]_slotVars
=============================================================================
