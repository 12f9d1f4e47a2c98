------------------------------ MODULE Pairing ------------------------------
(***************************************************************************)
(* PairingHandler and the callers that drive it: pair_device,              *)
(* unpair_device and delete_device of the HTTP API, the packet loop's pair *)
(* packets, the lazy expiry sweep, the pinned fingerprints of              *)
(* CertificateManager, the paired-devices file and a crash followed by a   *)
(* restart.                                                                *)
(*                                                                         *)
(* A task runs one call at a time.  Every step is one lock section or one  *)
(* file operation; between two of them other tasks run.  Two locks are     *)
(* held across steps: `incoming`, which cleanup_expired keeps from its     *)
(* second retain to its end (inLock), and the read lock on `paired` of     *)
(* save_to_disk, which excludes writers of the map but not other saves     *)
(* (Holding).                                                              *)
(***************************************************************************)
EXTENDS Integers, FiniteSets, TLC

CONSTANTS
    Devices, NoDevice,
    Certs,        \* peer certificates
    NoCert,
    Tasks,        \* packet loops and API requests in flight
    NoTask,
    MaxPending,   \* max_pending
    Faults        \* subset of {"crash", "save", "cert"}

ASSUME PairingAssumption ==
    /\ NoCert \notin Certs
    /\ NoTask \notin Tasks
    /\ IsFiniteSet(Devices) /\ IsFiniteSet(Tasks)
    /\ MaxPending \in Nat \ {0}

VARIABLES
    outgoing, incoming,  \* pending requests: "none", "live" or "expired"
    inLock,              \* the sweep that holds the write lock on incoming
    paired,              \* paired: the devices in the map
    staged,              \* pending_certs
    fp,                  \* the pinned fingerprint files
    disk,                \* the paired-devices file, its .tmp, and the open handles
    pc, loc              \* where each task is, and its locals

vars == <<outgoing, incoming, inLock, paired, staged, fp, disk, pc, loc>>

Requests == {"none", "live", "expired"}
OptCerts == Certs \cup {NoCert}

PCs == {"idle",
        "apiStage", "apiAnchor", "apiSend", "apiRefused",
        "iPaired", "iCount", "iInsert", "iStage",
        "psPaired", "psOut", "psIn", "aStage",
        "rPaired", "rOutgoing", "rStage", "rIncoming", "rCount", "rInsert",
        "rStageNew", "rMutual",
        "swOut", "swIn", "swCount", "swCerts",
        "acOut", "acIn", "acDrop", "acTake", "acStore", "acPin", "acPaired",
        "acSave", "acWrite", "acRename",
        "upCert", "upPaired", "upDelete", "upSave", "upWrite", "upRename",
        "rjCert", "rjOut", "rjIn"}

\* dev, cert: the call's arguments; ret: where a subroutine returns to, or the
\* kind of pair packet; exp, cnt: expired_ids and the counts of a sweep.
NoLoc == [dev |-> NoDevice, cert |-> NoCert, ret |-> "idle", exp |-> {}, cnt |-> 0]

Dev(t) == loc[t].dev
Has(map) == {d \in Devices : map[d] # "none"}

\* What a path leads to.  A torn file was truncated and not yet written: it
\* loads as an error, and the daemon then starts with an empty map.
Contents == [state : {"absent", "torn", "whole"}, map : SUBSET Devices]
NoFile == [state |-> "absent", map |-> {}]
TornFile == [state |-> "torn", map |-> {}]
WholeFile(map) == [state |-> "whole", map |-> map]

\* Where the file a save has open is to be found: a rename moves it from the
\* .tmp to the paired-devices file, and the next rename unlinks it.
Places == {"none", "tmp", "file", "gone"}

\* json: what a save has serialized and not yet written.
Disks == [file : Contents, tmp : Contents, fd : [Tasks -> Places],
          json : [Tasks -> SUBSET Devices]]

\* outgoing.len() + incoming.len(), both guards held.
PendingTotal == Cardinality(Has(outgoing)) + Cardinality(Has(incoming))

Init ==
    /\ outgoing = [d \in Devices |-> "none"]
    /\ incoming = [d \in Devices |-> "none"]
    /\ inLock = NoTask
    /\ paired = {}
    /\ staged = [d \in Devices |-> NoCert]
    /\ fp = [d \in Devices |-> NoCert]
    /\ disk = [file |-> NoFile, tmp |-> NoFile, fd |-> [t \in Tasks |-> "none"],
               json |-> [t \in Tasks |-> {}]]
    /\ pc = [t \in Tasks |-> "idle"]
    /\ loc = [t \in Tasks |-> NoLoc]

At(t, label) == pc[t] = label
Goto(t, label) == pc' = [pc EXCEPT ![t] = label] /\ UNCHANGED loc
Done(t) == pc' = [pc EXCEPT ![t] = "idle"] /\ loc' = [loc EXCEPT ![t] = NoLoc]

\* Call a subroutine that will return to ret.
Call(t, label, ret) ==
    /\ pc' = [pc EXCEPT ![t] = label]
    /\ loc' = [loc EXCEPT ![t].ret = ret]

\* Return from a subroutine; from unpair to the sweep, which has its own return.
Return(t) ==
    CASE loc[t].ret = "idle" -> Done(t)
      [] loc[t].ret = "swOut" -> Call(t, "swOut", "rOutgoing")
      [] OTHER -> Goto(t, loc[t].ret)

Start(t, label, d, c, ret) ==
    /\ At(t, "idle")
    /\ pc' = [pc EXCEPT ![t] = label]
    /\ loc' = [loc EXCEPT ![t] = [NoLoc EXCEPT !.dev = d, !.cert = c, !.ret = ret]]

Stage(d, c) == staged' = IF c = NoCert THEN staged ELSE [staged EXCEPT ![d] = c]
Unstage(d) == staged' = [staged EXCEPT ![d] = NoCert]
DropOutgoing(d) == outgoing' = [outgoing EXCEPT ![d] = "none"]
DropIncoming(d) == inLock = NoTask /\ incoming' = [incoming EXCEPT ![d] = "none"]

(***************************************************************************)
(* pair_device: accept the peer's request, or start one of our own.        *)
(***************************************************************************)

ApiPair(t, d) ==
    /\ inLock = NoTask
    /\ IF incoming[d] = "live"
       THEN Start(t, "apiStage", d, NoCert, "idle")
       ELSE Start(t, "swOut", d, NoCert, "iPaired")
    /\ UNCHANGED <<outgoing, incoming, inLock, paired, staged, fp, disk>>

\* The certificate of the live link, if there is one.
ApiStage(t) ==
    /\ At(t, "apiStage")
    /\ \E c \in OptCerts : Stage(Dev(t), c)
    /\ Goto(t, "apiAnchor")
    /\ UNCHANGED <<outgoing, incoming, inLock, paired, fp, disk>>

ApiAnchor(t) ==
    /\ At(t, "apiAnchor")
    /\ Goto(t, IF staged[Dev(t)] # NoCert \/ fp[Dev(t)] # NoCert
               THEN "apiSend" ELSE "rjCert")
    /\ UNCHANGED <<outgoing, incoming, inLock, paired, staged, fp, disk>>

\* pair:true goes out, or the send fails.
ApiSend(t) ==
    /\ At(t, "apiSend")
    /\ \/ Call(t, "acOut", "apiDone")
       \/ Goto(t, "rjCert")
    /\ UNCHANGED <<outgoing, incoming, inLock, paired, staged, fp, disk>>

\* accept_pairing failed after pair:true was sent: the error is returned.
ApiRefused(t) ==
    /\ At(t, "apiRefused")
    /\ Done(t)
    /\ UNCHANGED <<outgoing, incoming, inLock, paired, staged, fp, disk>>

(***************************************************************************)
(* initiate_pairing, after its sweep.                                      *)
(***************************************************************************)

InitiatePaired(t) ==
    /\ At(t, "iPaired")
    /\ IF Dev(t) \in paired THEN Done(t) ELSE Goto(t, "iCount")
    /\ UNCHANGED <<outgoing, incoming, inLock, paired, staged, fp, disk>>

\* Mutant of InitiateCount: no cap.
InitiateUncapped(t) ==
    /\ At(t, "iCount")
    /\ inLock = NoTask
    /\ Goto(t, "iInsert")
    /\ UNCHANGED <<outgoing, incoming, inLock, paired, staged, fp, disk>>

InitiateCount(t) ==
    /\ At(t, "iCount")
    /\ inLock = NoTask
    /\ IF PendingTotal >= MaxPending THEN Done(t) ELSE Goto(t, "iInsert")
    /\ UNCHANGED <<outgoing, incoming, inLock, paired, staged, fp, disk>>

InitiateInsert(t) ==
    /\ At(t, "iInsert")
    /\ outgoing' = [outgoing EXCEPT ![Dev(t)] = "live"]
    /\ Goto(t, "iStage")
    /\ UNCHANGED <<incoming, inLock, paired, staged, fp, disk>>

InitiateStage(t) ==
    /\ At(t, "iStage")
    /\ \E c \in OptCerts : Stage(Dev(t), c)
    /\ Done(t)
    /\ UNCHANGED <<outgoing, incoming, inLock, paired, fp, disk>>

(***************************************************************************)
(* Pair packets: pair_state is read first, one map at a time.  "request"   *)
(* is a pair:true with a fresh timestamp (or from a v7 peer), "accept" one *)
(* without, "refuse" a pair:false.                                         *)
(***************************************************************************)

PairPacket(t, d) ==
    /\ \E c \in OptCerts, kind \in {"request", "accept", "refuse"} :
          Start(t, "psPaired", d, IF kind = "refuse" THEN NoCert ELSE c, kind)
    /\ UNCHANGED <<outgoing, incoming, inLock, paired, staged, fp, disk>>

\* The branch the loop takes for Paired, RequestedByPeer and NotPaired.
NotRequested(t, onRefuse) ==
    CASE loc[t].ret = "request" -> Goto(t, "rPaired")
      [] loc[t].ret = "accept" -> Done(t)
      [] OTHER -> IF onRefuse = "idle" THEN Done(t) ELSE Call(t, onRefuse, "idle")

StatePaired(t) ==
    /\ At(t, "psPaired")
    /\ IF Dev(t) \in paired THEN NotRequested(t, "upCert") ELSE Goto(t, "psOut")
    /\ UNCHANGED <<outgoing, incoming, inLock, paired, staged, fp, disk>>

StateOutgoing(t) ==
    /\ At(t, "psOut")
    /\ IF outgoing[Dev(t)] = "live"
       THEN Call(t, IF loc[t].ret = "refuse" THEN "rjCert" ELSE "aStage", "idle")
       ELSE Goto(t, "psIn")
    /\ UNCHANGED <<outgoing, incoming, inLock, paired, staged, fp, disk>>

StateIncoming(t) ==
    /\ At(t, "psIn")
    /\ inLock = NoTask
    /\ NotRequested(t, IF incoming[Dev(t)] = "live" THEN "rjCert" ELSE "idle")
    /\ UNCHANGED <<outgoing, incoming, inLock, paired, staged, fp, disk>>

\* The peer's accept of our request.
AcceptedStage(t) ==
    /\ At(t, "aStage")
    /\ Stage(Dev(t), loc[t].cert)
    /\ Call(t, "acOut", "idle")
    /\ UNCHANGED <<outgoing, incoming, inLock, paired, fp, disk>>

(***************************************************************************)
(* receive_pair_request_with_cert.                                         *)
(***************************************************************************)

ReceivePaired(t) ==
    /\ At(t, "rPaired")
    /\ IF Dev(t) \in paired
       THEN Call(t, "upCert", "swOut")
       ELSE Call(t, "swOut", "rOutgoing")
    /\ UNCHANGED <<outgoing, incoming, inLock, paired, staged, fp, disk>>

ReceiveOutgoing(t) ==
    /\ At(t, "rOutgoing")
    /\ Goto(t, IF outgoing[Dev(t)] # "none" THEN "rStage" ELSE "rIncoming")
    /\ UNCHANGED <<outgoing, incoming, inLock, paired, staged, fp, disk>>

ReceiveStage(t) ==
    /\ At(t, "rStage")
    /\ Stage(Dev(t), loc[t].cert)
    /\ Call(t, "acOut", "rMutual")
    /\ UNCHANGED <<outgoing, incoming, inLock, paired, fp, disk>>

ReceiveIncoming(t) ==
    /\ At(t, "rIncoming")
    /\ inLock = NoTask
    /\ Goto(t, IF incoming[Dev(t)] # "none" THEN "rMutual" ELSE "rCount")
    /\ UNCHANGED <<outgoing, incoming, inLock, paired, staged, fp, disk>>

ReceiveCount(t) ==
    /\ At(t, "rCount")
    /\ inLock = NoTask
    /\ IF PendingTotal >= MaxPending THEN Done(t) ELSE Goto(t, "rInsert")
    /\ UNCHANGED <<outgoing, incoming, inLock, paired, staged, fp, disk>>

ReceiveInsert(t) ==
    /\ At(t, "rInsert")
    /\ inLock = NoTask
    /\ incoming' = [incoming EXCEPT ![Dev(t)] = "live"]
    /\ Goto(t, "rStageNew")
    /\ UNCHANGED <<outgoing, inLock, paired, staged, fp, disk>>

ReceiveStageNew(t) ==
    /\ At(t, "rStageNew")
    /\ Stage(Dev(t), loc[t].cert)
    /\ Goto(t, "rMutual")
    /\ UNCHANGED <<outgoing, incoming, inLock, paired, fp, disk>>

\* Paired by now: answer pair:true, and unpair again when the send fails.
ReceiveMutual(t) ==
    /\ At(t, "rMutual")
    /\ \/ Done(t)
       \/ Dev(t) \in paired /\ Call(t, "upCert", "idle")
    /\ UNCHANGED <<outgoing, incoming, inLock, paired, staged, fp, disk>>

(***************************************************************************)
(* cleanup_expired.                                                        *)
(***************************************************************************)

Expired(map) == {d \in Devices : map[d] = "expired"}
Retain(map) == [d \in Devices |-> IF map[d] = "expired" THEN "none" ELSE map[d]]

SweepOutgoing(t) ==
    /\ At(t, "swOut")
    /\ outgoing' = Retain(outgoing)
    /\ pc' = [pc EXCEPT ![t] = "swIn"]
    /\ loc' = [loc EXCEPT ![t] = [@ EXCEPT !.exp = Expired(outgoing),
                                           !.cnt = Cardinality(Has(outgoing))]]
    /\ UNCHANGED <<incoming, inLock, paired, staged, fp, disk>>

\* Mutant of SweepIncoming: before_in is taken after the retain.
SweepIncomingUncounted(t) ==
    /\ At(t, "swIn")
    /\ inLock = NoTask
    /\ inLock' = t
    /\ incoming' = Retain(incoming)
    /\ pc' = [pc EXCEPT ![t] = "swCount"]
    /\ loc' = [loc EXCEPT ![t].exp = loc[t].exp \cup Expired(incoming)]
    /\ UNCHANGED <<outgoing, paired, staged, fp, disk>>

SweepIncoming(t) ==
    /\ At(t, "swIn")
    /\ inLock = NoTask
    /\ inLock' = t
    /\ incoming' = Retain(incoming)
    /\ pc' = [pc EXCEPT ![t] = "swCount"]
    /\ loc' = [loc EXCEPT ![t] =
                  [@ EXCEPT !.exp = loc[t].exp \cup Expired(incoming),
                            !.cnt = loc[t].cnt + Cardinality(Expired(incoming))]]
    /\ UNCHANGED <<outgoing, paired, staged, fp, disk>>

\* `removed`, with outgoing counted again: unsigned, so a negative difference
\* wraps to a positive one.
Removed(t) == loc[t].cnt - Cardinality(Has(outgoing))

EndSweep(t) ==
    /\ inLock' = NoTask
    /\ pc' = [pc EXCEPT ![t] = loc[t].ret]
    /\ loc' = [loc EXCEPT ![t] = [@ EXCEPT !.exp = {}, !.cnt = 0, !.ret = "idle"]]

SweepCount(t) ==
    /\ At(t, "swCount")
    /\ IF Removed(t) # 0 THEN Goto(t, "swCerts") /\ UNCHANGED inLock ELSE EndSweep(t)
    /\ UNCHANGED <<outgoing, incoming, paired, staged, fp, disk>>

SweepCerts(t) ==
    /\ At(t, "swCerts")
    /\ staged' = [d \in Devices |-> IF d \in loc[t].exp THEN NoCert ELSE staged[d]]
    /\ EndSweep(t)
    /\ UNCHANGED <<outgoing, incoming, paired, fp, disk>>

(***************************************************************************)
(* accept_pairing.                                                         *)
(***************************************************************************)

Refuse(t) ==
    IF loc[t].ret = "apiDone" THEN Goto(t, "apiRefused") ELSE Done(t)

Accepted(t) ==
    IF loc[t].ret = "apiDone" THEN Done(t) ELSE Return(t)

\* Mutant of AcceptOutgoing: the request is looked up and not removed.
AcceptOutgoingKept(t) ==
    /\ At(t, "acOut")
    /\ Goto(t, CASE outgoing[Dev(t)] = "live" -> "acTake"
                 [] outgoing[Dev(t)] = "expired" -> "acDrop"
                 [] OTHER -> "acIn")
    /\ UNCHANGED <<outgoing, incoming, inLock, paired, staged, fp, disk>>

AcceptOutgoing(t) ==
    /\ At(t, "acOut")
    /\ DropOutgoing(Dev(t))
    /\ Goto(t, CASE outgoing[Dev(t)] = "live" -> "acTake"
                 [] outgoing[Dev(t)] = "expired" -> "acDrop"
                 [] OTHER -> "acIn")
    /\ UNCHANGED <<incoming, inLock, paired, staged, fp, disk>>

AcceptIncoming(t) ==
    /\ At(t, "acIn")
    /\ DropIncoming(Dev(t))
    /\ CASE incoming[Dev(t)] = "live" -> Goto(t, "acTake")
         [] incoming[Dev(t)] = "expired" -> Goto(t, "acDrop")
         [] OTHER -> Refuse(t)
    /\ UNCHANGED <<outgoing, inLock, paired, staged, fp, disk>>

AcceptDrop(t) ==
    /\ At(t, "acDrop")
    /\ Unstage(Dev(t))
    /\ Refuse(t)
    /\ UNCHANGED <<outgoing, incoming, inLock, paired, fp, disk>>

\* Mutant of AcceptTake: no identity anchor gate.
AcceptTakeUngated(t) ==
    LET c == staged[Dev(t)] IN
    /\ At(t, "acTake")
    /\ Unstage(Dev(t))
    /\ \/ /\ c # NoCert
          /\ pc' = [pc EXCEPT ![t] = "acStore"]
          /\ loc' = [loc EXCEPT ![t].cert = c]
       \/ c = NoCert /\ Goto(t, "acPaired")
    /\ UNCHANGED <<outgoing, incoming, inLock, paired, fp, disk>>

\* Take the staged certificate, then the identity anchor gate.
AcceptTake(t) ==
    LET c == staged[Dev(t)] IN
    /\ At(t, "acTake")
    /\ Unstage(Dev(t))
    /\ \/ /\ c # NoCert
          /\ pc' = [pc EXCEPT ![t] = "acStore"]
          /\ loc' = [loc EXCEPT ![t].cert = c]
       \/ c = NoCert /\ fp[Dev(t)] # NoCert /\ Goto(t, "acPaired")
       \/ c = NoCert /\ fp[Dev(t)] = NoCert /\ Refuse(t)
    /\ UNCHANGED <<outgoing, incoming, inLock, paired, fp, disk>>

\* Mutant of AcceptStore: write without verifying.
AcceptStoreBlind(t) ==
    /\ At(t, "acStore")
    /\ Goto(t, "acPin")
    /\ UNCHANGED <<outgoing, incoming, inLock, paired, staged, fp, disk>>

\* store_peer_certificate: verify against the pin before anything is written;
\* the write of the certificate may fail.
AcceptStore(t) ==
    /\ At(t, "acStore")
    /\ \/ CASE fp[Dev(t)] = NoCert -> Goto(t, "acPin")
            [] fp[Dev(t)] = loc[t].cert -> Goto(t, "acPaired")
            [] OTHER -> Refuse(t)
       \/ "cert" \in Faults /\ Refuse(t)
    /\ UNCHANGED <<outgoing, incoming, inLock, paired, staged, fp, disk>>

\* First use: the fingerprint is written, or that fails.
AcceptPin(t) ==
    /\ At(t, "acPin")
    /\ \/ fp' = [fp EXCEPT ![Dev(t)] = loc[t].cert] /\ Goto(t, "acPaired")
       \/ "cert" \in Faults /\ Refuse(t) /\ UNCHANGED fp
    /\ UNCHANGED <<outgoing, incoming, inLock, paired, staged, disk>>

\* The tasks that hold the read lock on paired inside save_to_disk.
Writing == {"acWrite", "upWrite"}
Renaming == {"acRename", "upRename"}
Holding == {t \in Tasks : pc[t] \in Writing \cup Renaming}

AcceptPaired(t) ==
    /\ At(t, "acPaired")
    /\ Holding = {}
    /\ paired' = paired \cup {Dev(t)}
    /\ Goto(t, "acSave")
    /\ UNCHANGED <<outgoing, incoming, inLock, staged, fp, disk>>

(***************************************************************************)
(* save_to_disk: serialize the map, write it to the .tmp, rename.  Nothing *)
(* but the read lock orders two saves, so they meet at the one .tmp: the   *)
(* second truncates what the first has written, the first may rename the   *)
(* file the second is writing.  A failure is only logged.                  *)
(***************************************************************************)

\* The read lock is taken, the map serialized, and the .tmp created or truncated.
SaveOpen(t) ==
    disk' = [disk EXCEPT !.tmp = TornFile, !.fd[t] = "tmp", !.json[t] = paired]

\* The text goes to the file that was opened, wherever that is now.
SaveWrite(t) ==
    disk' = [disk EXCEPT
                !.tmp = IF disk.fd[t] = "tmp" THEN WholeFile(disk.json[t]) ELSE @,
                !.file = IF disk.fd[t] = "file" THEN WholeFile(disk.json[t]) ELSE @,
                !.fd[t] = "none", !.json[t] = {}]

SaveRename ==
    \/ /\ disk.tmp.state # "absent"
       /\ disk' = [disk EXCEPT
                      !.file = disk.tmp, !.tmp = NoFile,
                      !.fd = [u \in Tasks |-> CASE disk.fd[u] = "tmp" -> "file"
                                                [] disk.fd[u] = "file" -> "gone"
                                                [] OTHER -> disk.fd[u]]]
    \/ (disk.tmp.state = "absent" \/ "save" \in Faults) /\ UNCHANGED disk

\* The open or the write fails; what was truncated stays so.
SaveFails(t) ==
    /\ "save" \in Faults
    /\ disk' = [disk EXCEPT !.fd[t] = "none", !.json[t] = {}]

AcceptSave(t) ==
    /\ At(t, "acSave")
    /\ \/ SaveOpen(t) /\ Goto(t, "acWrite")
       \/ SaveFails(t) /\ Accepted(t)
    /\ UNCHANGED <<outgoing, incoming, inLock, paired, staged, fp>>

AcceptWrite(t) ==
    /\ At(t, "acWrite")
    /\ \/ SaveWrite(t) /\ Goto(t, "acRename")
       \/ SaveFails(t) /\ Accepted(t)
    /\ UNCHANGED <<outgoing, incoming, inLock, paired, staged, fp>>

AcceptRename(t) ==
    /\ At(t, "acRename")
    /\ SaveRename
    /\ Accepted(t)
    /\ UNCHANGED <<outgoing, incoming, inLock, paired, staged, fp>>

(***************************************************************************)
(* unpair and reject_pairing.                                              *)
(***************************************************************************)

\* unpair_device calls unpair for a paired device only, delete_device for any.
ApiUnpair(t, d) ==
    /\ Start(t, "upCert", d, NoCert, "idle")
    /\ UNCHANGED <<outgoing, incoming, inLock, paired, staged, fp, disk>>

UnpairCert(t) ==
    /\ At(t, "upCert")
    /\ Unstage(Dev(t))
    /\ Goto(t, "upPaired")
    /\ UNCHANGED <<outgoing, incoming, inLock, paired, fp, disk>>

\* Mutant of UnpairPaired: the lock is not waited for, so a save that is under
\* way writes the map as it was.
UnpairPairedUnlocked(t) ==
    /\ At(t, "upPaired")
    /\ paired' = paired \ {Dev(t)}
    /\ IF Dev(t) \in paired THEN Goto(t, "upDelete") ELSE Return(t)
    /\ UNCHANGED <<outgoing, incoming, inLock, staged, fp, disk>>

UnpairPaired(t) ==
    /\ At(t, "upPaired")
    /\ Holding = {}
    /\ paired' = paired \ {Dev(t)}
    /\ IF Dev(t) \in paired THEN Goto(t, "upDelete") ELSE Return(t)
    /\ UNCHANGED <<outgoing, incoming, inLock, staged, fp, disk>>

\* delete_peer_certificate: its error is ignored, and the pin then stays.
UnpairDelete(t) ==
    /\ At(t, "upDelete")
    /\ \/ fp' = [fp EXCEPT ![Dev(t)] = NoCert]
       \/ "cert" \in Faults /\ UNCHANGED fp
    /\ Goto(t, "upSave")
    /\ UNCHANGED <<outgoing, incoming, inLock, paired, staged, disk>>

UnpairSave(t) ==
    /\ At(t, "upSave")
    /\ \/ SaveOpen(t) /\ Goto(t, "upWrite")
       \/ SaveFails(t) /\ Return(t)
    /\ UNCHANGED <<outgoing, incoming, inLock, paired, staged, fp>>

UnpairWrite(t) ==
    /\ At(t, "upWrite")
    /\ \/ SaveWrite(t) /\ Goto(t, "upRename")
       \/ SaveFails(t) /\ Return(t)
    /\ UNCHANGED <<outgoing, incoming, inLock, paired, staged, fp>>

UnpairRename(t) ==
    /\ At(t, "upRename")
    /\ SaveRename
    /\ Return(t)
    /\ UNCHANGED <<outgoing, incoming, inLock, paired, staged, fp>>

\* Mutant of RejectCert: the staged certificate is left behind.
RejectCertKept(t) ==
    /\ At(t, "rjCert")
    /\ Goto(t, "rjOut")
    /\ UNCHANGED <<outgoing, incoming, inLock, paired, staged, fp, disk>>

RejectCert(t) ==
    /\ At(t, "rjCert")
    /\ Unstage(Dev(t))
    /\ Goto(t, "rjOut")
    /\ UNCHANGED <<outgoing, incoming, inLock, paired, fp, disk>>

RejectOutgoing(t) ==
    /\ At(t, "rjOut")
    /\ DropOutgoing(Dev(t))
    /\ Goto(t, "rjIn")
    /\ UNCHANGED <<incoming, inLock, paired, staged, fp, disk>>

RejectIncoming(t) ==
    /\ At(t, "rjIn")
    /\ DropIncoming(Dev(t))
    /\ Done(t)
    /\ UNCHANGED <<outgoing, inLock, paired, staged, fp, disk>>

(***************************************************************************)
(* Time, crash and restart.                                                *)
(***************************************************************************)

\* A request passes its timeout (30 s ours, 25 s the peer's).
Expire(d) ==
    /\ \/ /\ outgoing[d] = "live"
          /\ outgoing' = [outgoing EXCEPT ![d] = "expired"]
          /\ UNCHANGED incoming
       \/ /\ incoming[d] = "live"
          /\ incoming' = [incoming EXCEPT ![d] = "expired"]
          /\ UNCHANGED outgoing
    /\ UNCHANGED <<inLock, paired, staged, fp, disk, pc, loc>>

\* The process dies and load_from_disk runs in the next one.  A file that does
\* not parse is logged, and the map starts empty.
Crash ==
    /\ "crash" \in Faults
    /\ outgoing' = [d \in Devices |-> "none"]
    /\ incoming' = [d \in Devices |-> "none"]
    /\ inLock' = NoTask
    /\ paired' = disk.file.map
    /\ disk' = [disk EXCEPT !.fd = [t \in Tasks |-> "none"], !.json = [t \in Tasks |-> {}]]
    /\ staged' = [d \in Devices |-> NoCert]
    /\ pc' = [t \in Tasks |-> "idle"]
    /\ loc' = [t \in Tasks |-> NoLoc]
    /\ UNCHANGED fp

Begin(t) == \E d \in Devices : ApiPair(t, d) \/ PairPacket(t, d) \/ ApiUnpair(t, d)

Step(t) ==
    \/ ApiStage(t) \/ ApiAnchor(t) \/ ApiSend(t) \/ ApiRefused(t)
    \/ InitiatePaired(t) \/ InitiateCount(t) \/ InitiateInsert(t) \/ InitiateStage(t)
    \/ StatePaired(t) \/ StateOutgoing(t) \/ StateIncoming(t) \/ AcceptedStage(t)
    \/ ReceivePaired(t) \/ ReceiveOutgoing(t) \/ ReceiveStage(t) \/ ReceiveIncoming(t)
    \/ ReceiveCount(t) \/ ReceiveInsert(t) \/ ReceiveStageNew(t) \/ ReceiveMutual(t)
    \/ SweepOutgoing(t) \/ SweepIncoming(t) \/ SweepCount(t) \/ SweepCerts(t)
    \/ AcceptOutgoing(t) \/ AcceptIncoming(t) \/ AcceptDrop(t) \/ AcceptTake(t)
    \/ AcceptStore(t) \/ AcceptPin(t) \/ AcceptPaired(t)
    \/ AcceptSave(t) \/ AcceptWrite(t) \/ AcceptRename(t)
    \/ UnpairCert(t) \/ UnpairPaired(t) \/ UnpairDelete(t)
    \/ UnpairSave(t) \/ UnpairWrite(t) \/ UnpairRename(t)
    \/ RejectCert(t) \/ RejectOutgoing(t) \/ RejectIncoming(t)

Next ==
    \/ \E t \in Tasks : Begin(t) \/ Step(t)
    \/ \E d \in Devices : Expire(d)
    \/ Crash

Spec == Init /\ [][Next]_vars

(***************************************************************************)
(* Properties.                                                             *)
(***************************************************************************)

Locals == [dev : Devices \cup {NoDevice}, cert : OptCerts,
           ret : PCs \cup {"apiDone", "request", "accept", "refuse"},
           exp : SUBSET Devices, cnt : Nat]

TypeOK ==
    /\ outgoing \in [Devices -> Requests]
    /\ incoming \in [Devices -> Requests]
    /\ inLock \in Tasks \cup {NoTask}
    /\ paired \subseteq Devices
    /\ staged \in [Devices -> OptCerts]
    /\ fp \in [Devices -> OptCerts]
    /\ disk \in Disks
    /\ pc \in [Tasks -> PCs]
    /\ loc \in [Tasks -> Locals]

Inserting == {t \in Tasks : pc[t] \in {"iInsert", "rInsert"}}

\* The cap on pending requests is checked in one lock section and the insert
\* happens in another, so it can be overrun, but never by more than the number
\* of calls in flight less one.
PendingBounded ==
    PendingTotal + Cardinality(Inserting) <= MaxPending + Cardinality(Tasks) - 1

Saving == {"acSave", "upDelete", "upSave"} \cup Writing \cup Renaming

\* What the paired-devices file says differs from memory only for devices that
\* a call is at this moment pairing or unpairing, or while a save whose .tmp was
\* renamed under it is rewriting the file in place.  Saves that meet at the .tmp
\* never leave an old map or a torn file behind, and a restart at any other
\* moment forgets no finished pairing.
DiskSettles ==
    \A d \in Devices :
        \/ d \in disk.file.map <=> d \in paired
        \/ \E t \in Tasks : pc[t] \in Saving /\ loc[t].dev = d
        \/ \E t \in Tasks : disk.fd[t] = "file"

\* A crash forgets no pairing of a device that no call is working on.  With two
\* saves at the .tmp it can: the file is torn until the second has written.
FinishedSurvives ==
    [][Crash => \A d \in paired :
                  d \in paired' \/ \E t \in Tasks : pc[t] # "idle" /\ loc[t].dev = d]_vars

Quiet == \A t \in Tasks : pc[t] = "idle"

\* A paired device has a pinned fingerprint: accept_pairing refuses a pairing
\* that nothing anchors, and unpair drops pin and pairing together.
PairedHasAnchor == Quiet => \A d \in paired : fp[d] # NoCert

\* A staged certificate belongs to a request that is still in a map, so that
\* request's accept, reject or expiry will take it away.
StagedHasRequest ==
    Quiet => \A d \in Devices :
        staged[d] # NoCert => outgoing[d] # "none" \/ incoming[d] # "none"

\* A paired device has no live request left that a later call could accept a
\* second time: accept_pairing consumes one of the two maps only.
PairedHasNoRequest ==
    Quiet => \A d \in paired : outgoing[d] # "live" /\ incoming[d] # "live"

\* Verify-before-write: no accept replaces the pin of a device by another one,
\* also not a pin that a failed delete_peer_certificate left behind.  Of calls
\* that overlap, two may both find no pin and write theirs.
PinNeverReplaced ==
    [][\A d \in Devices : fp[d] # NoCert => fp'[d] \in {fp[d], NoCert}]_vars

\* The accepts that have found no pin for d and will write theirs.
Pinning(d) == {t \in Tasks : pc[t] = "acPin" /\ loc[t].dev = d}

\* Whatever calls overlap, crash or fail: once a device has a pin and no accept is
\* between its check and its write, none gets there, and none replaces the pin
\* until it is deleted.
PinSettles ==
    [][\A d \in Devices :
          fp[d] # NoCert /\ Pinning(d) = {}
              => fp'[d] = NoCert \/ (fp'[d] = fp[d] /\ Pinning(d)' = {})]_vars

\* "A reaped request's staged peer cert goes with it ... and must not linger":
\* a sweep that ends without dropping certificates has left none of a request
\* it reaped, unless a new request already claims it.
ReapedCertGoes ==
    [][\A t \in Tasks :
          pc[t] = "swCount" /\ pc'[t] \notin {"swCount", "swCerts"}
              => \A d \in loc[t].exp :
                    staged[d] = NoCert \/ outgoing[d] = "live" \/ incoming[d] = "live"]_vars

\* Tasks, devices and certificates are interchangeable.
PairingSymmetry ==
    Permutations(Tasks) \cup Permutations(Devices) \cup Permutations(Certs)
=============================================================================
