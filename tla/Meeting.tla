------------------------------ MODULE Meeting ------------------------------
(***************************************************************************)
(* How daemons on one network find each other: the UDP broadcast of an     *)
(* identity, which the hearer answers by dialling, and the mDNS resolve,   *)
(* which it answers by sending its own identity to the peer, so that the   *)
(* peer dials (protocol/discovery.rs, mdns_discovery.rs, udp_unicast.rs,   *)
(* service_manager.rs).  A dial whose TCP connection fails sends the       *)
(* identity back as well (outbound.rs); one that succeeds goes on in       *)
(* Dialling.                                                               *)
(*                                                                         *)
(* Every daemon runs this code.  A datagram is the id of its sender, the   *)
(* address it came from and whether it still lists capabilities; it may be *)
(* lost.  Daemons on one host have one address.                            *)
(***************************************************************************)
EXTENDS Integers, FiniteSets

CONSTANTS
    MtDaemons,
    MtAddresses,
    MtPrivate,    \* the addresses is_private_address accepts
    MtWindow,     \* CONNECTION_RATE_LIMIT
    MtKept,       \* how long an address stays in a map of sends
    MtHorizon,    \* bound: the last tick
    MtUnderWay    \* bound: datagrams under way, more are lost

ASSUME MtAssumption ==
    /\ MtWindow \in Nat \ {0} /\ MtKept \in Nat /\ MtHorizon \in Nat /\ MtUnderWay \in Nat
    /\ MtKept >= MtWindow

MtNever == -1

(* What makes a daemon send to an address: a resolve, or a failed dial.    *)
(* Each has its own map of times, last_mdns_unicast and                    *)
(* last_connection_attempt.                                                *)
MtLegs == {"mdns", "dial"}

VARIABLES
    mtAddress,    \* daemon -> the address of its host
    mtNow,
    mtUdp,        \* daemons whose DiscoveryService exists
    mtMdns,       \* daemons that announce themselves by mDNS
    mtNamed,      \* daemons whose own identity is set
    mtCaps,       \* daemons that advertise capabilities
    mtAir,        \* datagrams under way
    mtSent,       \* the maps: leg -> daemon -> address -> time, MtNever for none
    mtKnown,      \* <<d, e>>: d has e in its registry
    mtDials,      \* <<d, e>>: d dials e
    mtLinked,     \* <<d, e>>: d dialled e, and the link is up
    mtLast        \* ghost: when a daemon last answered a resolve of an address, and when
                  \* it began the last dial of it, MtNever for never

mtVars == <<mtAddress, mtNow, mtUdp, mtMdns, mtNamed, mtCaps, mtAir, mtSent, mtKnown, mtDials, mtLinked, mtLast>>

----------------------------------------------------------------------------
is_private_address(ip) == ip \in MtPrivate

usable_peer_address(ip) == is_private_address(ip)

is_local_address(d, ip) == ip = mtAddress[d]

(* Another id at an address of ours. *)
is_split_brain(d, ip, id) == id # d /\ is_local_address(d, ip)

get_identity(d, to) == [id |-> d, from |-> mtAddress[d], caps |-> d \in mtCaps, to |-> to]

MtAirWith(g) == IF Cardinality(mtAir) < MtUnderWay THEN mtAir \cup {g} ELSE mtAir

is_connected(d, e) == <<d, e>> \in mtLinked \/ <<e, d>> \in mtLinked

(* Without its UDP socket a daemon does not start, without mDNS it does. *)
DiscoveryService(d) == mtUdp' = mtUdp \cup {d}

build_service_info(d) == mtMdns' \in {mtMdns, mtMdns \cup {d}}

(* With the multicast loop off and the loopback interface left out, a      *)
(* daemon hears its own announcement on no interface.                      *)
production_interface_policy(d) == mtMdns \ {d}

MtStart(d) ==
    /\ d \notin mtNamed
    /\ mtNamed' = mtNamed \cup {d}
    /\ DiscoveryService(d) /\ build_service_info(d)
    /\ UNCHANGED <<mtAddress, mtNow, mtCaps, mtAir, mtSent, mtKnown, mtDials, mtLinked, mtLast>>

(* A plugin whose backend comes alive adds what it can do. *)
add_capabilities(d) ==
    /\ d \in mtNamed \ mtCaps
    /\ mtCaps' = mtCaps \cup {d}
    /\ UNCHANGED <<mtAddress, mtNow, mtUdp, mtMdns, mtNamed, mtAir, mtSent, mtKnown, mtDials, mtLinked, mtLast>>

(* A datagram too large is sent again without its capabilities. *)
broadcast(d) ==
    /\ d \in mtUdp
    /\ \E tooLarge \in {(d \in mtCaps), FALSE} :
          mtAir' = MtAirWith([get_identity(d, "all") EXCEPT !.caps = @ /\ ~tooLarge])
    /\ UNCHANGED <<mtAddress, mtNow, mtUdp, mtMdns, mtNamed, mtCaps, mtSent, mtKnown, mtDials, mtLinked, mtLast>>

----------------------------------------------------------------------------
(* At most one send to an address per window; a map forgets what is older  *)
(* than MtKept.                                                            *)
MtAllows(leg, d, ip) == mtSent[leg][d][ip] = MtNever \/ mtNow - mtSent[leg][d][ip] >= MtWindow

MtKeptEntries(sent) ==
    [a \in MtAddresses |->
        IF sent[a] # MtNever /\ mtNow - sent[a] < MtKept THEN sent[a] ELSE MtNever]

MtNote(leg, d, ip) ==
    mtSent' = [mtSent EXCEPT ![leg][d] = MtKeptEntries([@ EXCEPT ![ip] = mtNow])]

unicast_identity(d, ip) == mtAir' = MtAirWith(get_identity(d, ip))

(* connect_to_device: the time is noted before the dial.  A device that is *)
(* connected or being dialled is left alone.                               *)
MtDial(d, e) ==
    LET ip == mtAddress[e] IN
    /\ ~is_connected(d, e) /\ <<d, e>> \notin mtDials
    /\ MtAllows("dial", d, ip)
    /\ MtNote("dial", d, ip)
    /\ mtLast' = [mtLast EXCEPT !["dial"][d][ip] = mtNow]
    /\ mtDials' = mtDials \cup {<<d, e>>}

(* listen and on_device_discovered: what is not dropped enters the         *)
(* registry, and is dialled when it may be.                                *)
MtDropped(d, g) ==
    \/ ~is_private_address(g.from)
    \/ g.id = d
    \/ is_split_brain(d, g.from, g.id)

listen(d) ==
    \E g \in mtAir :
        /\ d \in mtUdp /\ g.to \in {"all", mtAddress[d]}
        /\ mtAir' \in {mtAir, mtAir \ {g}}      \* others may hear it too
        /\ IF MtDropped(d, g)
           THEN UNCHANGED <<mtKnown, mtDials, mtSent, mtLast>>
           ELSE /\ mtKnown' = mtKnown \cup {<<d, g.id>>}
                /\ \/ MtDial(d, g.id)
                   \/ UNCHANGED <<mtDials, mtSent, mtLast>>
        /\ UNCHANGED <<mtAddress, mtNow, mtUdp, mtMdns, mtNamed, mtCaps, mtLinked>>

(* The dial ends: with a link; or, when the connection or the write of the *)
(* identity fails, with send_reverse_connection_fallback, which no map     *)
(* limits and which may fail; or without, when a later step fails.         *)
MtDialEnds(d, e) ==
    /\ <<d, e>> \in mtDials
    /\ mtDials' = mtDials \ {<<d, e>>}
    /\ \/ mtLinked' = mtLinked \cup {<<d, e>>} /\ UNCHANGED mtAir
       \/ unicast_identity(d, mtAddress[e]) /\ UNCHANGED mtLinked
       \/ UNCHANGED <<mtAir, mtLinked>>
    /\ UNCHANGED <<mtAddress, mtNow, mtUdp, mtMdns, mtNamed, mtCaps, mtSent, mtKnown, mtLast>>

allow_mdns_unicast(d, ip) == MtAllows("mdns", d, ip)

MtIgnored(d, e) ==
    \/ e = d
    \/ ~usable_peer_address(mtAddress[e])
    \/ is_split_brain(d, mtAddress[e], e)
    \/ is_connected(d, e)
    \/ ~allow_mdns_unicast(d, mtAddress[e])

(* The time is noted before the identity is sent, and stays when the send  *)
(* fails.                                                                  *)
on_mdns_device_resolved(d) ==
    \E e \in production_interface_policy(d) :
        /\ d \in mtMdns
        /\ ~MtIgnored(d, e)
        /\ LET ip == mtAddress[e]
           IN  /\ MtNote("mdns", d, ip)
               /\ \/ /\ unicast_identity(d, ip)
                     /\ mtLast' = [mtLast EXCEPT !["mdns"][d][ip] = mtNow]
                  \/ UNCHANGED <<mtAir, mtLast>>
        /\ UNCHANGED <<mtAddress, mtNow, mtUdp, mtMdns, mtNamed, mtCaps, mtKnown, mtDials, mtLinked>>

----------------------------------------------------------------------------
MtLose ==
    /\ \/ \E g \in mtAir : mtAir' = mtAir \ {g} /\ UNCHANGED mtLinked
       \/ \E l \in mtLinked : mtLinked' = mtLinked \ {l} /\ UNCHANGED mtAir
    /\ UNCHANGED <<mtAddress, mtNow, mtUdp, mtMdns, mtNamed, mtCaps, mtSent, mtKnown, mtDials, mtLast>>

MtTick ==
    /\ mtNow < MtHorizon
    /\ mtNow' = mtNow + 1
    /\ UNCHANGED <<mtAddress, mtUdp, mtMdns, mtNamed, mtCaps, mtAir, mtSent, mtKnown, mtDials, mtLinked, mtLast>>

MtInit ==
    /\ mtAddress \in [MtDaemons -> MtAddresses]
    /\ mtNow = 0
    /\ mtUdp = {} /\ mtMdns = {} /\ mtNamed = {} /\ mtCaps = {} /\ mtAir = {}
    /\ mtSent = [leg \in MtLegs |-> [d \in MtDaemons |-> [a \in MtAddresses |-> MtNever]]]
    /\ mtKnown = {} /\ mtDials = {} /\ mtLinked = {} /\ mtLast = mtSent

MtNext ==
    \/ \E d \in MtDaemons : \/ MtStart(d) \/ add_capabilities(d) \/ broadcast(d) \/ listen(d)
                            \/ on_mdns_device_resolved(d)
                            \/ \E e \in MtDaemons : MtDialEnds(d, e)
    \/ MtLose \/ MtTick

MtSpec == MtInit /\ [][MtNext]_mtVars

MtTypeOK ==
    /\ mtUdp \cup mtMdns \subseteq mtNamed /\ mtCaps \subseteq mtNamed
    /\ mtKnown \cup mtDials \cup mtLinked \subseteq MtDaemons \X MtDaemons
    /\ mtSent \in [MtLegs -> [MtDaemons -> [MtAddresses -> MtNever..MtHorizon]]]

(* Two daemons on one host, each with its own id, never enter each other's *)
(* registry, dial each other or have a link, by whichever leg they hear    *)
(* each other, the identity sent back after a failed dial included.        *)
SameHostNeverMeets ==
    \A l \in mtKnown \cup mtDials \cup mtLinked : mtAddress[l[1]] # mtAddress[l[2]]

(* What makes a daemon send to an address of its own accord is limited per *)
(* leg: an address whose resolve was answered within the window is not     *)
(* answered again, and one that was dialled within it is not dialled       *)
(* again, though both maps forget addresses.  The identity sent back after *)
(* a failed dial is limited by the dial alone: it may follow an answer to  *)
(* a resolve, or one sent back to another device of the address, at once.  *)
UnicastSpaced ==
    \A leg \in MtLegs, d \in MtDaemons, a \in MtAddresses :
        mtLast[leg][d][a] # MtNever /\ mtNow - mtLast[leg][d][a] < MtWindow
            => ~MtAllows(leg, d, a)
=============================================================================
