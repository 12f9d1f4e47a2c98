----------------------------- MODULE Handshake -----------------------------
(***************************************************************************)
(* From a TCP socket to a link: the plaintext identity, TLS with           *)
(* certificates trusted on first use, the encrypted identity, and the      *)
(* entry in the table of connections.  Accepted sockets are TLS clients,   *)
(* dialled ones TLS servers.                                               *)
(*                                                                         *)
(* Every value a peer sends is chosen when it is read.  Other sockets      *)
(* make progress and the user pairs and unpairs between any two reads.     *)
(* Eviction and the tasks behind a link are the subject of Links.          *)
(***************************************************************************)
EXTENDS Integers, FiniteSets

CONSTANTS HsAccepted, HsDialled,   \* sockets
          HsSelf,                  \* our device id
          HsIds,                   \* well-formed device ids of phones
          HsCerts,                 \* certificates phones present
          HsCn(_),                 \* the common name of a certificate
          HsNorm(_),               \* a device id as kdeconnectd rewrites it
          HsHellos,                \* identity packets a peer may send
          HsNone

HsSockets == HsAccepted \cup HsDialled
HsKnown == HsIds \cup {HsSelf}

ASSUME HsAssumption ==
    /\ HsAccepted \cap HsDialled = {}
    /\ HsNone \notin HsSockets /\ HsNone \notin HsHellos /\ HsNone \notin HsCerts

VARIABLES
    hsAt,        \* where the handshake of a socket is
    hsPlain,     \* identity received, or announced, before TLS
    hsCert,      \* certificate presented on the socket
    hsSealed,    \* identity received over TLS
    hsSlot,      \* connections: socket per device
    hsPin,       \* stored fingerprint per device
    hsCaps,      \* peer_capabilities
    hsRecent,    \* we dialled this address less than a second ago
    hsToldUdp    \* sockets whose failure was answered with our identity over UDP

hsVars == <<hsAt, hsPlain, hsCert, hsSealed, hsSlot, hsPin, hsCaps, hsRecent, hsToldUdp>>

----------------------------------------------------------------------------
(* Identity packets. *)

PROTOCOL_VERSION == 8

is_identity(h) == h.type = "kdeconnect.identity"

validate_id(id) == id \in HsKnown

(* A name of which nothing but punctuation was sent comes out blank. *)
sanitize_device_name(name) == IF name = "?!" THEN "" ELSE name

(* Version 0 and a version that is no number are refused alike. *)
from_packet_ok(h) ==
    /\ is_identity(h)
    /\ validate_id(h.id)
    /\ sanitize_device_name(h.name) # ""
    /\ h.version # 0

device_id_matches_kde_normalized(a, b) == HsNorm(a) = HsNorm(b)

(* What accept_incoming asks of the plaintext identity. *)
plaintext_ok(h) ==
    /\ from_packet_ok(h)
    /\ h.id # HsSelf
    /\ h.target # HsNone => device_id_matches_kde_normalized(h.target, HsSelf)
    /\ h.targetVersion # HsNone => h.targetVersion = PROTOCOL_VERSION

unsealed_ok(h, plain) == from_packet_ok(h) /\ h.version = plain.version

(* The encrypted identity repeats id and version of the earlier one. *)
sealed_ok(h, plain) ==
    /\ from_packet_ok(h)
    /\ h.id = plain.id
    /\ h.version = plain.version

----------------------------------------------------------------------------
(* Trust on first use. *)

has_peer_fingerprint(d) == hsPin[d] # HsNone

verify_peer_certificate(d, c) == has_peer_fingerprint(d) => hsPin[d] = c

verify_server_cert(d, c) == verify_peer_certificate(d, c)

(* When we dial, the id is not known yet and every client certificate, or  *)
(* none, gets through TLS.                                                 *)
client_auth_mandatory(d) == d # HsNone /\ has_peer_fingerprint(d)

verify_client_cert(d, c) == d # HsNone => verify_peer_certificate(d, c)

peer_cert_ok(d, c) ==
    IF c # HsNone THEN HsCn(c) = d /\ verify_peer_certificate(d, c)
    ELSE ~has_peer_fingerprint(d)

record_peer_capabilities(d, h) ==
    hsCaps' = IF "none" \in {h.incoming, h.outgoing} THEN hsCaps
              ELSE [hsCaps EXCEPT ![d] = h.incoming]

----------------------------------------------------------------------------
HsGo(s, where) == hsAt' = [hsAt EXCEPT ![s] = where]

(* disconnect removes the link only if it is still the one in the table. *)
HsClose(s) == /\ HsGo(s, "closed")
              /\ hsSlot' = [d \in HsKnown |-> IF hsSlot[d] = s THEN HsNone ELSE hsSlot[d]]

(* accept_incoming. *)
HsAccept(s) ==
    /\ hsAt[s] = "idle"
    /\ \/ HsGo(s, "plain")
       \/ HsGo(s, "closed")        \* not a private address
    /\ UNCHANGED <<hsPlain, hsCert, hsSealed, hsSlot, hsPin, hsCaps, hsRecent, hsToldUdp>>

HsReadPlain(s) ==
    /\ hsAt[s] = "plain" /\ s \in HsAccepted
    /\ \E h \in HsHellos :
          /\ HsGo(s, IF plaintext_ok(h) THEN "tls" ELSE "closed")
          /\ hsPlain' = [hsPlain EXCEPT ![s] = IF plaintext_ok(h) THEN h ELSE @]
    /\ UNCHANGED <<hsCert, hsSealed, hsSlot, hsPin, hsCaps, hsRecent, hsToldUdp>>

tls_connect(s) ==
    /\ hsAt[s] = "tls" /\ s \in HsAccepted
    /\ \E c \in HsCerts :
          LET ok == verify_server_cert(hsPlain[s].id, c)
          IN /\ HsGo(s, IF ok THEN "verify" ELSE "closed")
             /\ hsCert' = [hsCert EXCEPT ![s] = IF ok THEN c ELSE @]
    /\ UNCHANGED <<hsPlain, hsSealed, hsSlot, hsPin, hsCaps, hsRecent, hsToldUdp>>

HsVerify(s) ==
    /\ hsAt[s] = "verify"
    /\ IF peer_cert_ok(hsPlain[s].id, hsCert[s])
       THEN /\ record_peer_capabilities(hsPlain[s].id, hsPlain[s])
            /\ HsGo(s, "insert")
       ELSE HsGo(s, "closed") /\ UNCHANGED hsCaps
    /\ UNCHANGED <<hsPlain, hsCert, hsSealed, hsSlot, hsPin, hsRecent, hsToldUdp>>

(* A device that is connected is replaced only under the same certificate. *)
HsInsertAccepted(s) ==
    LET d == hsPlain[s].id
        old == hsSlot[d]
    IN /\ hsAt[s] = "insert" /\ s \in HsAccepted
       /\ IF old = HsNone \/ (hsCert[s] # HsNone /\ hsCert[old] = hsCert[s])
          THEN /\ hsSlot' = [hsSlot EXCEPT ![d] = s]
               /\ HsGo(s, "exchange")
          ELSE HsGo(s, "closed") /\ UNCHANGED hsSlot
       /\ UNCHANGED <<hsPlain, hsCert, hsSealed, hsPin, hsCaps, hsRecent, hsToldUdp>>

identity_exchange(s) ==
    /\ hsAt[s] = "exchange"
    /\ hsSlot[hsPlain[s].id] = s
    /\ \E h \in HsHellos :
          IF sealed_ok(h, hsPlain[s])
          THEN /\ hsSealed' = [hsSealed EXCEPT ![s] = h]
               /\ HsGo(s, "up") /\ UNCHANGED hsSlot
          ELSE HsClose(s) /\ UNCHANGED hsSealed
    /\ UNCHANGED <<hsPlain, hsCert, hsPin, hsCaps, hsRecent, hsToldUdp>>

----------------------------------------------------------------------------
(* connect_to_device: the peer was announced by an identity, or nothing is *)
(* known but its address.                                                  *)

HsDial(s) ==
    /\ hsAt[s] = "idle" /\ s \in HsDialled
    /\ \/ /\ hsRecent
          /\ HsGo(s, "closed")
          /\ UNCHANGED <<hsPlain, hsRecent, hsToldUdp>>
       \/ /\ ~hsRecent /\ hsRecent' = TRUE
          /\ \E h \in {g \in HsHellos : plaintext_ok(g)} \cup {HsNone} :
                hsPlain' = [hsPlain EXCEPT ![s] = h]
          /\ \/ HsGo(s, "greet") /\ UNCHANGED hsToldUdp
             \/ HsGo(s, "closed") /\ hsToldUdp' = hsToldUdp \cup {s}
    /\ UNCHANGED <<hsCert, hsSealed, hsSlot, hsPin, hsCaps>>

HsSendPlain(s) ==
    /\ hsAt[s] = "greet"
    /\ \/ HsGo(s, "tls") /\ UNCHANGED hsToldUdp
       \/ HsGo(s, "closed") /\ hsToldUdp' = hsToldUdp \cup {s}
    /\ UNCHANGED <<hsPlain, hsCert, hsSealed, hsSlot, hsPin, hsCaps, hsRecent>>

tls_accept(s) ==
    /\ hsAt[s] = "tls" /\ s \in HsDialled
    /\ \E c \in HsCerts \cup {HsNone} :
          /\ c = HsNone => ~client_auth_mandatory(HsNone)
          /\ verify_client_cert(HsNone, c)
          /\ hsCert' = [hsCert EXCEPT ![s] = c]
    /\ HsGo(s, "sealed")
    /\ UNCHANGED <<hsPlain, hsSealed, hsSlot, hsPin, hsCaps, hsRecent, hsToldUdp>>

HsReadSealed(s) ==
    /\ hsAt[s] = "sealed"
    /\ \E h \in HsHellos :
          IF /\ from_packet_ok(h)
             /\ hsPlain[s] # HsNone => sealed_ok(h, hsPlain[s])
             /\ peer_cert_ok(h.id, hsCert[s])
          THEN /\ record_peer_capabilities(h.id, h)
               /\ hsSealed' = [hsSealed EXCEPT ![s] = h]
               /\ HsGo(s, "insert")
          ELSE HsGo(s, "closed") /\ UNCHANGED <<hsCaps, hsSealed>>
    /\ UNCHANGED <<hsPlain, hsCert, hsSlot, hsPin, hsRecent, hsToldUdp>>

HsInsertDialled(s) ==
    /\ hsAt[s] = "insert" /\ s \in HsDialled
    /\ hsSlot' = [hsSlot EXCEPT ![hsSealed[s].id] = s]
    /\ HsGo(s, "up")
    /\ UNCHANGED <<hsPlain, hsCert, hsSealed, hsPin, hsCaps, hsRecent, hsToldUdp>>

----------------------------------------------------------------------------
(* An error or a timeout at any read or write, and the end of a link. *)
HsFail(s) == /\ hsAt[s] \notin {"idle", "closed", "greet"}
             /\ HsClose(s)
             /\ UNCHANGED <<hsPlain, hsCert, hsSealed, hsPin, hsCaps, hsRecent, hsToldUdp>>

(* Pairing stores the certificate of the device's link, unpairing drops it. *)
HsPair(d) == /\ hsSlot[d] # HsNone /\ hsPin[d] = HsNone
             /\ hsPin' = [hsPin EXCEPT ![d] = hsCert[hsSlot[d]]]
             /\ UNCHANGED <<hsAt, hsPlain, hsCert, hsSealed, hsSlot, hsCaps, hsRecent, hsToldUdp>>

HsUnpair(d) == /\ hsPin[d] # HsNone
               /\ hsPin' = [hsPin EXCEPT ![d] = HsNone]
               /\ UNCHANGED <<hsAt, hsPlain, hsCert, hsSealed, hsSlot, hsCaps, hsRecent, hsToldUdp>>

HsSecond == /\ hsRecent /\ hsRecent' = FALSE
            /\ UNCHANGED <<hsAt, hsPlain, hsCert, hsSealed, hsSlot, hsPin, hsCaps, hsToldUdp>>

HsInit == /\ hsAt = [s \in HsSockets |-> "idle"]
          /\ hsPlain = [s \in HsSockets |-> HsNone]
          /\ hsCert = [s \in HsSockets |-> HsNone]
          /\ hsSealed = [s \in HsSockets |-> HsNone]
          /\ hsSlot = [d \in HsKnown |-> HsNone]
          /\ hsPin = [d \in HsKnown |-> HsNone]
          /\ hsCaps = [d \in HsKnown |-> "unknown"]
          /\ hsRecent = FALSE /\ hsToldUdp = {}

HsNext == \/ \E s \in HsAccepted : \/ HsAccept(s) \/ HsReadPlain(s) \/ tls_connect(s)
                                   \/ HsVerify(s) \/ HsInsertAccepted(s) \/ identity_exchange(s)
          \/ \E s \in HsDialled : \/ HsDial(s) \/ HsSendPlain(s) \/ tls_accept(s)
                                  \/ HsReadSealed(s) \/ HsInsertDialled(s)
          \/ \E s \in HsSockets : HsFail(s)
          \/ \E d \in HsKnown : HsPair(d) \/ HsUnpair(d)
          \/ HsSecond

HsSpec == HsInit /\ [][HsNext]_hsVars

HsTypeOK == /\ \A d \in HsKnown : hsSlot[d] \in HsSockets \cup {HsNone}
            /\ \A d \in HsKnown : hsPin[d] \in HsCerts \cup {HsNone}
            /\ hsToldUdp \subseteq HsSockets

(* A link that is up speaks for the device it is filed under: the identity *)
(* it gave over TLS, the one before TLS, and its certificate all name that *)
(* device, and the protocol version did not change in between.             *)
LinkSpeaksForItsId ==
    \A d \in HsKnown : LET s == hsSlot[d] IN
        s # HsNone /\ hsAt[s] = "up" =>
            /\ hsSealed[s].id = d
            /\ hsPlain[s] # HsNone => hsPlain[s].id = d /\ hsPlain[s].version = hsSealed[s].version
            /\ hsCert[s] # HsNone => HsCn(hsCert[s]) = d
=============================================================================
