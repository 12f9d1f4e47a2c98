----------------------------- MODULE CertStore -----------------------------
(***************************************************************************)
(* The identity and the certificates on disk: own.crt, own.key and the     *)
(* device_id file, the layout of older versions, and the PEM copy and      *)
(* fingerprint of one phone.                                               *)
(*                                                                         *)
(* fs::write truncates the file and then fills it, so a crash leaves it    *)
(* missing, torn or complete.  A call is the sequence of file operations   *)
(* it has left to do.  The daemon starts, dials, pairs, unpairs and        *)
(* crashes; calls do not overlap.                                          *)
(***************************************************************************)
EXTENDS Integers, Sequences

CONSTANTS CsIds,      \* device ids this machine can have had or can draw
          CsPeers,    \* certificates the phone presents
          CsMints     \* bound: certificates generated

ASSUME CsAssumption == CsMints \in Nat

VARIABLES
    csDisk,    \* content per file
    csPhase,   \* "down", "starting", "running", or "failed": the start returned an error
    csWho,     \* the id the daemon runs under
    csFirst,   \* the first id it ever ran under, <<>> before
    csJob,     \* file operations left of the call under way
    csMinted   \* certificates generated so far; numbers their keys

csVars == <<csDisk, csPhase, csWho, csFirst, csJob, csMinted>>

----------------------------------------------------------------------------
(* Files.  A certificate is its CN, the number of its key and whether it   *)
(* has run out; for the phone it is a value.                               *)

Missing == <<>>
Torn == <<"torn">>
Cert(cn, k, validity) == <<"crt", cn, k, validity>>
Key(k) == <<"key", k>>
Id(i) == <<"id", i>>
Pem(c) == <<"pem", c>>
Pin(c) == <<"pin", c>>

CsFiles == {"id", "crt", "key", "legacyCrt", "legacyKey", "pem", "pin"}

Exists(f) == csDisk[f] # Missing
Whole(f) == csDisk[f] \notin {Missing, Torn}

Write(f, v) == [op |-> "write", file |-> f, to |-> v]
Rename(f, g) == [op |-> "rename", file |-> f, to |-> <<g>>]
Delete(f) == [op |-> "delete", file |-> f, to |-> Missing]

----------------------------------------------------------------------------
(* CertificateManager: what is there, and the operations of each call. *)

has_own_certificate == Exists("crt") /\ Exists("key")

own_certificate_is_valid == Whole("crt") /\ csDisk["crt"][4] = "valid"

own_certificate_cn == IF Whole("crt") THEN <<csDisk["crt"][2]>> ELSE <<>>

generate_certificate(id) == Cert(id, csMinted + 1, "valid")

store_own_certificate(crt) == <<Write("crt", crt), Write("key", Key(crt[3]))>>

ensure_own_certificate(id) ==
    IF has_own_certificate /\ own_certificate_is_valid THEN <<>>
    ELSE store_own_certificate(generate_certificate(id))

adopt_legacy_own_certificate(id) ==
    IF /\ ~has_own_certificate
       /\ Exists("legacyCrt") /\ Exists("legacyKey")
       /\ csDisk["legacyCrt"][2] = id
    THEN <<Rename("legacyCrt", "crt"), Rename("legacyKey", "key")>>
    ELSE <<>>

store_peer_certificate_unverified(c) ==
    IF Exists("pin") THEN <<Write("pem", Pem(c))>> ELSE <<Write("pem", Pem(c)), Write("pin", Pin(c))>>

(* Trust on first use; afterwards the fingerprint is verified first. *)
store_peer_certificate(c) ==
    IF ~Exists("pin") THEN <<Write("pem", Pem(c)), Write("pin", Pin(c))>>
    ELSE IF csDisk["pin"] = Pin(c) THEN <<Write("pem", Pem(c))>>
    ELSE <<>>

delete_peer_certificate == <<Delete("pem"), Delete("pin")>>

----------------------------------------------------------------------------
(* OwnIdentity: what a start finds and what it writes. *)

id_from_file == IF Whole("id") THEN <<csDisk["id"][2]>> ELSE <<>>

write_id_file(id) == <<Write("id", Id(id))>>

regenerate(id) == store_own_certificate(generate_certificate(id)) \o write_id_file(id)

CsUnused == {i \in CsIds : id_from_file # <<i>> /\ own_certificate_cn # <<i>>}

CsRun(id, job) == /\ csPhase' = "starting" /\ csWho' = id /\ csJob' = job

CsMint(job) == csMinted' = IF \E n \in DOMAIN job : job[n].file = "key" /\ job[n].op = "write"
                           THEN csMinted + 1 ELSE csMinted

CsRegenerate == \E new \in CsUnused : CsRun(new, regenerate(new)) /\ CsMint(regenerate(new))

(* The id of the file and the CN of the certificate: an unreadable         *)
(* certificate is an error, two that differ make a new identity.           *)
load_or_create ==
    /\ csPhase = "down" /\ csMinted < CsMints
    /\ LET id == id_from_file
           cn == own_certificate_cn
           adopted == adopt_legacy_own_certificate(id[1])
           job == IF adopted # <<>> THEN adopted ELSE ensure_own_certificate(id[1])
       IN \/ /\ csDisk["crt"] = Torn
             /\ csPhase' = "failed"
             /\ UNCHANGED <<csWho, csJob, csMinted>>
          \/ /\ id # <<>> /\ id = cn
             /\ CsRun(id[1], <<>>)
             /\ UNCHANGED csMinted
          \/ /\ id # <<>> /\ cn # <<>> /\ id # cn
             /\ CsRegenerate
          \/ /\ id # <<>> /\ ~Exists("crt")
             /\ CsRun(id[1], job) /\ CsMint(job)
          \/ /\ id = <<>> /\ cn # <<>>
             /\ CsRun(cn[1], write_id_file(cn[1]))
             /\ UNCHANGED csMinted
          \/ /\ id = <<>> /\ ~Exists("crt")
             /\ CsRegenerate
    /\ UNCHANGED <<csDisk, csFirst>>

CsStarted ==
    /\ csPhase = "starting" /\ csJob = <<>>
    /\ csPhase' = "running"
    /\ csFirst' = IF csFirst = <<>> THEN <<csWho>> ELSE csFirst
    /\ UNCHANGED <<csDisk, csWho, csJob, csMinted>>

----------------------------------------------------------------------------
(* A file operation.  A write takes two steps. *)

CsOperate ==
    /\ csJob # <<>>
    /\ LET o == Head(csJob)
       IN \/ /\ o.op = "write" /\ csDisk[o.file] # Torn
             /\ csDisk' = [csDisk EXCEPT ![o.file] = Torn]
             /\ UNCHANGED csJob
          \/ /\ o.op = "write" /\ csDisk[o.file] = Torn
             /\ csDisk' = [csDisk EXCEPT ![o.file] = o.to]
             /\ csJob' = Tail(csJob)
          \/ /\ o.op = "rename"
             /\ csDisk' = [csDisk EXCEPT ![o.to[1]] = csDisk[o.file], ![o.file] = Missing]
             /\ csJob' = Tail(csJob)
          \/ /\ o.op = "delete"
             /\ csDisk' = [csDisk EXCEPT ![o.file] = Missing]
             /\ csJob' = Tail(csJob)
    /\ UNCHANGED <<csPhase, csWho, csFirst, csMinted>>

(* An outgoing connection makes sure of the certificate first. *)
CsDialAs(id) ==
    /\ csPhase = "running" /\ csJob = <<>> /\ csMinted < CsMints
    /\ csJob' = ensure_own_certificate(id)
    /\ CsMint(csJob')
    /\ UNCHANGED <<csDisk, csPhase, csWho, csFirst>>

CsDial == CsDialAs(csWho)

CsPair(c) == /\ csPhase = "running" /\ csJob = <<>>
             /\ csJob' = store_peer_certificate(c)
             /\ UNCHANGED <<csDisk, csPhase, csWho, csFirst, csMinted>>

CsUnpair == /\ csPhase = "running" /\ csJob = <<>>
            /\ csJob' = delete_peer_certificate
            /\ UNCHANGED <<csDisk, csPhase, csWho, csFirst, csMinted>>

CsCrash == /\ csPhase \in {"starting", "running"}
           /\ csPhase' = "down" /\ csJob' = <<>>
           /\ UNCHANGED <<csDisk, csWho, csFirst, csMinted>>

(* Ten years pass. *)
CsExpire == /\ Whole("crt") /\ csDisk["crt"][4] = "valid"
            /\ csDisk' = [csDisk EXCEPT !["crt"][4] = "expired"]
            /\ UNCHANGED <<csPhase, csWho, csFirst, csJob, csMinted>>

CsEmpty == [f \in CsFiles |-> Missing]

(* A new machine, or one whose files an older version wrote: its id with   *)
(* the certificate of that or of another id.                               *)
CsInit ==
    /\ csDisk \in {CsEmpty}
          \cup {[CsEmpty EXCEPT !["id"] = Id(i), !["legacyCrt"] = Cert(j, 0, "valid"),
                                !["legacyKey"] = Key(0)] : i, j \in CsIds}
    /\ csPhase = "down" /\ csWho = "none" /\ csFirst = <<>> /\ csJob = <<>> /\ csMinted = 0

CsNext == \/ load_or_create
          \/ CsStarted
          \/ CsOperate
          \/ CsDial
          \/ \E c \in CsPeers : CsPair(c)
          \/ CsUnpair
          \/ CsCrash
          \/ CsExpire

CsSpec == CsInit /\ [][CsNext]_csVars

----------------------------------------------------------------------------
CsTypeOK == /\ DOMAIN csDisk = CsFiles
            /\ csPhase \in {"down", "starting", "running", "failed"}
            /\ csMinted \in 0..CsMints

(* The machine keeps its id: once it has run under an id, no later start   *)
(* gives it another, wherever a crash interrupted the writing of the       *)
(* certificate or a renewal.  Phones know the machine by it.               *)
IdentityKept == csPhase = "running" => csFirst = <<csWho>>

(* The stored PEM is the certificate of the stored fingerprint, wherever   *)
(* storing or deleting was interrupted: store_peer_certificate verifies    *)
(* before it writes.                                                       *)
PemMatchesPin == Whole("pem") /\ Whole("pin") => csDisk["pem"][2] = csDisk["pin"][2]

(* load_or_create loads the identity, "creating or repairing it as         *)
(* needed": it does not fail on what a crash has left behind.              *)
StartRepairs == csPhase # "failed"

(* After a start, own.crt and own.key belong together: what                *)
(* ensure_own_certificate accepts as valid can be used.                    *)
KeyFitsCertificate ==
    csPhase = "running" /\ csJob = <<>> /\ Whole("crt") /\ Whole("key")
    => csDisk["crt"][3] = csDisk["key"][2]
=============================================================================
