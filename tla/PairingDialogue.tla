-------------------------- MODULE PairingDialogue --------------------------
(***************************************************************************)
(* Two daemons pair with each other: requests that cross, answers that     *)
(* come late, links lost in between, and the verification key both users   *)
(* compare.                                                                *)
(*                                                                         *)
(* Each side is the pair_device and unpair_device of its API and the pair  *)
(* packets of its packet loop (protocol/connection_loop.rs), each one step *)
(* here; how calls on one side overlap is the subject of Pairing.  Both    *)
(* have a certificate, one clock serves both, and a link ends with its     *)
(* loop (what becomes of the slot is in Links).                            *)
(***************************************************************************)
EXTENDS Integers, Sequences

CONSTANTS
    PAIR_REQUEST_TIMEOUT, PAIR_ACCEPT_TIMEOUT,
    DgDelay,      \* the longest a packet is under way
    DgFresh,      \* the drift pair_timestamp_is_fresh allows
    DgHorizon,    \* bound: the time of the last tick
    DgRequests    \* bound: requests made

ASSUME DgAssumption ==
    /\ {PAIR_REQUEST_TIMEOUT, PAIR_ACCEPT_TIMEOUT, DgDelay, DgFresh, DgHorizon, DgRequests} \subseteq Nat
    /\ 2 * DgDelay <= PAIR_REQUEST_TIMEOUT - PAIR_ACCEPT_TIMEOUT

Sides == {1, 2}
Other(p) == 3 - p

VARIABLES
    dgNow,        \* the clock
    dgUp,         \* there is a link
    dgWire,       \* packets on their way to each side
    dgPaired,
    dgOut, dgIn,  \* pending request, <<>> or <<[at, ts]>>: when it was made, its timestamp
    dgTold,       \* unpair_notified of the loop
    dgSpoke,      \* ghost: a paired side has sent a packet of a plugin on this link
    dgPlain,      \* ghost: one request on this link so far, no unpair, no link lost
    dgStray,      \* ghost: an accept that found no request
    dgLeft        \* requests left

dgVars == <<dgNow, dgUp, dgWire, dgPaired, dgOut, dgIn, dgTold, dgSpoke, dgPlain, dgStray, dgLeft>>

----------------------------------------------------------------------------
is_expired(req, timeout) == dgNow > req.at + timeout

Live(pending, timeout) == pending # <<>> /\ ~is_expired(pending[1], timeout)

has_outgoing(p) == Live(dgOut[p], PAIR_REQUEST_TIMEOUT)

has_incoming_patient(p) == Live(dgIn[p], PAIR_REQUEST_TIMEOUT + DgDelay)

has_incoming_request(p) == Live(dgIn[p], PAIR_ACCEPT_TIMEOUT)

pair_state(p) == IF dgPaired[p] THEN "Paired"
                 ELSE IF has_outgoing(p) THEN "Requested"
                 ELSE IF has_incoming_request(p) THEN "RequestedByPeer"
                 ELSE "NotPaired"

pair_timestamp_is_fresh(ts) == ts - dgNow \in -DgFresh..DgFresh

(* What cleanup_expired leaves of the two requests. *)
CleanOut(p) == IF has_outgoing(p) THEN dgOut[p] ELSE <<>>
CleanIn(p) == IF has_incoming_request(p) THEN dgIn[p] ELSE <<>>

(* The greater key first, then the timestamp: the key of a side is its own *)
(* number.                                                                 *)
compute_verification_key(ours, theirs, ts) ==
    IF ours > theirs THEN <<ours, theirs, ts>> ELSE <<theirs, ours, ts>>

(* The request we made goes before the one we received; <<>> for no key. *)
get_verification_key(p) ==
    LET req == IF dgOut[p] # <<>> THEN CleanOut(p) ELSE CleanIn(p)
    IN  IF req = <<>> THEN <<>> ELSE compute_verification_key(p, Other(p), req[1].ts)

----------------------------------------------------------------------------
Packet(kind, ts, accepts) == [kind |-> kind, ts |-> ts, sent |-> dgNow, accepts |-> accepts]
pair_request(ts) == Packet("pair", ts, FALSE)
pair_response(accepted) == IF accepted THEN Packet("pair", dgNow, TRUE) ELSE Packet("no", dgNow, FALSE)

(* The wire after p has read its first n packets and sent the given ones; a *)
(* link that ends loses what is under way.                                 *)
Wire(p, n, sent) == [dgWire EXCEPT ![p] = SubSeq(@, n + 1, Len(@)), ![Other(p)] = @ \o sent]
NoWire == [p \in Sides |-> <<>>]

Down == /\ dgUp' = FALSE /\ dgWire' = NoWire
        /\ dgTold' = [p \in Sides |-> FALSE]
        /\ dgSpoke' = [p \in Sides |-> FALSE]

(* accept_pairing of a side with a request: our own goes, else the peer's. *)
accept_pairing(p) ==
    /\ dgPaired' = [dgPaired EXCEPT ![p] = TRUE]
    /\ dgSpoke' = [dgSpoke EXCEPT ![p] = FALSE]
    /\ IF dgOut[p] # <<>>
       THEN dgOut' = [dgOut EXCEPT ![p] = <<>>] /\ UNCHANGED dgIn
       ELSE dgIn' = [dgIn EXCEPT ![p] = <<>>] /\ UNCHANGED dgOut

(* pair_device with a request of the peer: the accept is sent first, and a *)
(* request that cannot be answered is dropped.                             *)
AcceptDevice(p) ==
    /\ has_incoming_request(p)
    /\ IF dgUp
       THEN /\ dgWire' = Wire(p, 0, <<pair_response(TRUE)>>)
            /\ accept_pairing(p)
       ELSE /\ dgOut' = [dgOut EXCEPT ![p] = <<>>] /\ dgIn' = [dgIn EXCEPT ![p] = <<>>]
            /\ UNCHANGED <<dgWire, dgPaired, dgSpoke>>
    /\ UNCHANGED <<dgNow, dgUp, dgTold, dgPlain, dgStray, dgLeft>>

(* pair_device without one: a request is made, and sent if there is a link. *)
InitiateDevice(p) ==
    /\ ~has_incoming_request(p) /\ ~dgPaired[p]
    /\ dgLeft > 0 /\ dgLeft' = dgLeft - 1
    /\ dgOut' = [dgOut EXCEPT ![p] = <<[at |-> dgNow, ts |-> dgNow]>>]
    /\ dgIn' = [dgIn EXCEPT ![p] = CleanIn(p)]
    /\ dgWire' = IF dgUp THEN Wire(p, 0, <<pair_request(dgNow)>>) ELSE dgWire
    /\ dgPlain' = (dgPlain /\ \A q \in Sides : dgOut[q] = <<>> /\ dgIn[q] = <<>>)
    /\ UNCHANGED <<dgNow, dgUp, dgPaired, dgTold, dgSpoke, dgStray>>

(* unpair_device: the peer is told, then the link is closed; the peer      *)
(* reads that it is unpaired, or only that the link has ended.             *)
UnpairDevice(p) ==
    LET q == Other(p)
    IN  /\ Down /\ dgPlain' = FALSE
        /\ \E told \in {dgUp, FALSE} :
              /\ dgPaired' = [dgPaired EXCEPT ![p] = FALSE, ![q] = @ /\ ~told]
              /\ IF told /\ ~dgPaired[q]
                 THEN dgOut' = [dgOut EXCEPT ![q] = <<>>] /\ dgIn' = [dgIn EXCEPT ![q] = <<>>]
                 ELSE UNCHANGED <<dgOut, dgIn>>
        /\ UNCHANGED <<dgNow, dgStray, dgLeft>>

----------------------------------------------------------------------------
(* The packet loop reads a packet. *)

Reads(p, kind) == /\ dgUp /\ dgWire[p] # <<>>
                  /\ dgWire[p][1].kind = kind

(* pair:true while we wait for an answer. *)
LoopAccepted(p) ==
    /\ Reads(p, "pair") /\ pair_state(p) = "Requested"
    /\ dgWire' = Wire(p, 1, <<>>)
    /\ accept_pairing(p)
    /\ dgTold' = [dgTold EXCEPT ![p] = FALSE]
    /\ UNCHANGED <<dgNow, dgUp, dgPlain, dgStray, dgLeft>>

(* pair:true otherwise is a request: of a device that was paired, it       *)
(* unpairs first; a second one before the first timed out is ignored.  A   *)
(* live request of our own means pair_state is Requested, so the mutual    *)
(* accept of receive_pair_request is left to overlapping calls, in Pairing. *)
LoopRequested(p) ==
    /\ Reads(p, "pair") /\ pair_state(p) # "Requested"
    /\ LET packet == dgWire[p][1]
       IN  IF pair_timestamp_is_fresh(packet.ts)
           THEN /\ dgPaired' = [dgPaired EXCEPT ![p] = FALSE]
                /\ dgOut' = [dgOut EXCEPT ![p] = CleanOut(p)]
                /\ dgIn' = [dgIn EXCEPT ![p] = IF CleanIn(p) # <<>> THEN @
                                               ELSE <<[at |-> dgNow, ts |-> packet.ts]>>]
           ELSE UNCHANGED <<dgPaired, dgOut, dgIn>>
    /\ dgStray' = (dgStray \/ (dgPlain /\ dgWire[p][1].accepts))
    /\ dgWire' = Wire(p, 1, <<>>)
    /\ dgTold' = [dgTold EXCEPT ![p] = FALSE]
    /\ UNCHANGED <<dgNow, dgUp, dgSpoke, dgPlain, dgLeft>>

(* pair:false *)
LoopRefused(p) ==
    /\ Reads(p, "no")
    /\ IF pair_state(p) = "NotPaired"
       THEN /\ dgWire' = Wire(p, 1, <<>>)
            /\ dgTold' = [dgTold EXCEPT ![p] = FALSE]
            /\ UNCHANGED <<dgUp, dgSpoke, dgPaired, dgOut, dgIn>>
       ELSE /\ Down
            /\ dgPaired' = [dgPaired EXCEPT ![p] = FALSE]
            /\ IF dgPaired[p] THEN UNCHANGED <<dgOut, dgIn>>
               ELSE dgOut' = [dgOut EXCEPT ![p] = <<>>] /\ dgIn' = [dgIn EXCEPT ![p] = <<>>]
    /\ dgPlain' = FALSE
    /\ UNCHANGED <<dgNow, dgStray, dgLeft>>

(* The packet of a plugin: of a device that is not paired it is dropped,   *)
(* and the device is told so once.                                         *)
LoopDataSilent(p) ==
    /\ Reads(p, "data")
    /\ dgWire' = Wire(p, 1, <<>>)
    /\ UNCHANGED <<dgNow, dgUp, dgPaired, dgOut, dgIn, dgTold, dgSpoke, dgPlain, dgStray, dgLeft>>

LoopData(p) ==
    /\ Reads(p, "data")
    /\ IF dgPaired[p] \/ dgTold[p]
       THEN dgWire' = Wire(p, 1, <<>>) /\ UNCHANGED dgTold
       ELSE /\ dgWire' = Wire(p, 1, <<pair_response(FALSE)>>)
            /\ dgTold' = [dgTold EXCEPT ![p] = TRUE]
    /\ UNCHANGED <<dgNow, dgUp, dgPaired, dgOut, dgIn, dgSpoke, dgPlain, dgStray, dgLeft>>

(* send_plugin_init_packets, half a second after connect and after pairing. *)
PluginInit(p) ==
    /\ dgUp /\ dgPaired[p] /\ ~dgSpoke[p]
    /\ dgSpoke' = [dgSpoke EXCEPT ![p] = TRUE]
    /\ dgWire' = Wire(p, 0, <<Packet("data", 0, FALSE)>>)
    /\ UNCHANGED <<dgNow, dgUp, dgPaired, dgOut, dgIn, dgTold, dgPlain, dgStray, dgLeft>>

----------------------------------------------------------------------------
DgConnect ==
    /\ ~dgUp
    /\ dgUp' = TRUE
    /\ UNCHANGED <<dgNow, dgWire, dgPaired, dgOut, dgIn, dgTold, dgSpoke, dgPlain, dgStray, dgLeft>>

DgLose ==
    /\ dgUp
    /\ Down /\ dgPlain' = FALSE
    /\ UNCHANGED <<dgNow, dgPaired, dgOut, dgIn, dgStray, dgLeft>>

(* Packets arrive within DgDelay. *)
DgTick ==
    /\ dgNow < DgHorizon
    /\ \A p \in Sides : dgWire[p] # <<>> => dgNow < dgWire[p][1].sent + DgDelay
    /\ dgNow' = dgNow + 1
    /\ UNCHANGED <<dgUp, dgWire, dgPaired, dgOut, dgIn, dgTold, dgSpoke, dgPlain, dgStray, dgLeft>>

DgInit ==
    /\ dgNow = 1 /\ dgUp = FALSE /\ dgWire = NoWire
    /\ dgPaired = [p \in Sides |-> FALSE]
    /\ dgOut = NoWire /\ dgIn = NoWire
    /\ dgTold = dgPaired /\ dgSpoke = dgPaired
    /\ dgPlain = TRUE /\ dgStray = FALSE /\ dgLeft = DgRequests

DgNext ==
    \/ DgConnect \/ DgLose \/ DgTick
    \/ \E p \in Sides :
          \/ AcceptDevice(p) \/ InitiateDevice(p) \/ UnpairDevice(p)
          \/ LoopAccepted(p) \/ LoopRequested(p) \/ LoopRefused(p) \/ LoopData(p) \/ PluginInit(p)

DgSpec == DgInit /\ [][DgNext]_dgVars

DgTypeOK ==
    /\ dgNow \in 1..DgHorizon
    /\ dgPaired \in [Sides -> BOOLEAN]
    /\ \A p \in Sides : Len(dgOut[p]) <= 1 /\ Len(dgIn[p]) <= 1

(* "the requester times out at 30, so the accepter gives up first": when   *)
(* the user accepts in time, the accept finds the request it answers and   *)
(* is not taken for a request of the other side.                           *)
AcceptFindsRequest == ~dgStray

(* Whatever was lost, crossed or came late, once the wire is empty, no     *)
(* request is open, and every paired side has sent a plugin's packet on    *)
(* the link, both sides are paired or neither is.                          *)
SidesAgree ==
    (/\ dgUp /\ dgWire = NoWire
     /\ \A p \in Sides : /\ ~has_outgoing(p) /\ ~has_incoming_request(p)
                         /\ dgPaired[p] => dgSpoke[p])
      => dgPaired[1] = dgPaired[2]

(* "Both sides of a pairing must display the identical key or the user     *)
(* cannot verify it": once the request of one side has reached the other,  *)
(* both compute the same key.                                              *)
SameKeyShown ==
    \A p \in Sides :
        dgUp /\ dgWire = NoWire /\ has_outgoing(p) /\ has_incoming_request(Other(p))
            => get_verification_key(1) = get_verification_key(2)
=============================================================================
