--------------------------- MODULE PairingProofs ---------------------------
(***************************************************************************)
(* Proofs about Pairing for any devices, certificates and number of tasks: *)
(* the type invariant, the bound on pending requests, the agreement of the *)
(* paired-devices file with memory and the settling of pins, whatever      *)
(* calls interleave.                                                       *)
(***************************************************************************)
EXTENDS Pairing, FiniteSetTheorems, TLAPS

(***************************************************************************)
(* TypeOK alone is not inductive: a subroutine jumps to the label in ret,  *)
(* so it must be one that subroutine was called with.                      *)
(***************************************************************************)
SweepPCs == {"swOut", "swIn", "swCount", "swCerts"}
AcceptPCs == {"acOut", "acIn", "acDrop", "acTake", "acStore", "acPin", "acPaired",
              "acSave", "acWrite", "acRename"}
UnpairPCs == {"upCert", "upPaired", "upDelete", "upSave", "upWrite", "upRename"}
Rets == PCs \cup {"apiDone", "request", "accept", "refuse"}

\* A task at label may hold return label ret.
RetOK(label, ret) ==
    /\ label \in SweepPCs => ret \in {"iPaired", "rOutgoing"}
    /\ label \in AcceptPCs => ret \in {"idle", "apiDone", "rMutual"}
    /\ label \in UnpairPCs => ret \in {"idle", "swOut"}

\* The task-local half of the invariant ...
ControlOK ==
    /\ pc \in [Tasks -> PCs]
    /\ loc \in [Tasks -> Locals]
    /\ \A t \in Tasks : /\ pc[t] # "idle" => loc[t].dev \in Devices
                        /\ RetOK(pc[t], loc[t].ret)

\* ... and the shared state.
DataOK ==
    /\ outgoing \in [Devices -> Requests]
    /\ incoming \in [Devices -> Requests]
    /\ inLock \in Tasks \cup {NoTask}
    /\ paired \subseteq Devices
    /\ staged \in [Devices -> OptCerts]
    /\ fp \in [Devices -> OptCerts]
    /\ disk \in Disks

\* The counts of a sweep are natural numbers.
LEMMA CountType ==
    /\ Cardinality(Has(outgoing)) \in Nat
    /\ Cardinality(Expired(incoming)) \in Nat
BY PairingAssumption, FS_Subset, FS_CardinalityType, Zenon DEF Has, Expired

\* Moving a task, with or without a new return label.
LEMMA GotoOK ==
    ASSUME ControlOK, NEW t \in Tasks, NEW label \in PCs, Goto(t, label),
           loc[t].dev \in Devices, RetOK(label, loc[t].ret)
    PROVE  ControlOK'
BY Zenon DEF ControlOK, Goto

\* A call that ends.
LEMMA DoneOK ==
    ASSUME ControlOK, NEW t \in Tasks, Done(t)
    PROVE  ControlOK'
<1>1. NoLoc \in Locals /\ "idle" \in PCs /\ RetOK("idle", NoLoc.ret)
  BY Zenon DEF NoLoc, Locals, OptCerts, PCs, RetOK, SweepPCs, AcceptPCs, UnpairPCs
<1> QED
  BY <1>1, Zenon DEF ControlOK, Done

\* A subroutine call.
LEMMA CallOK ==
    ASSUME ControlOK, NEW t \in Tasks, NEW label \in PCs, NEW ret \in Rets,
           Call(t, label, ret), loc[t].dev \in Devices, RetOK(label, ret)
    PROVE  ControlOK'
<1>1. [loc[t] EXCEPT !.ret = ret] \in Locals
  BY Zenon DEF ControlOK, Locals, Rets
<1>2. /\ loc' = [loc EXCEPT ![t] = [loc[t] EXCEPT !.ret = ret]]
      /\ [loc[t] EXCEPT !.ret = ret].dev = loc[t].dev
      /\ [loc[t] EXCEPT !.ret = ret].ret = ret
  BY Zenon DEF ControlOK, Locals, Call
<1> QED
  BY <1>1, <1>2, Zenon DEF ControlOK, Call

\* The sweep writes its own locals.
LEMMA SweepStateOK ==
    ASSUME ControlOK, NEW t \in Tasks, pc[t] \in SweepPCs, NEW label \in SweepPCs,
           NEW e \in SUBSET Devices, NEW n \in Nat,
           pc' = [pc EXCEPT ![t] = label],
           loc' = [loc EXCEPT ![t] = [@ EXCEPT !.exp = e, !.cnt = n]]
    PROVE  ControlOK'
<1> DEFINE new == [loc[t] EXCEPT !.exp = e, !.cnt = n]
<1>1. new \in Locals /\ new.dev = loc[t].dev /\ new.ret = loc[t].ret
  BY Zenon DEF ControlOK, Locals
<1>2. loc' = [loc EXCEPT ![t] = new]
  BY Zenon DEF ControlOK, Locals
<1>3. label \in PCs /\ loc[t].dev \in Devices /\ RetOK(label, loc[t].ret)
  BY Zenon DEF ControlOK, RetOK, SweepPCs, AcceptPCs, UnpairPCs, PCs
<1> HIDE DEF new
<1> QED
  BY <1>1, <1>2, <1>3, Zenon DEF ControlOK

\* The end of cleanup_expired, back in its caller.
LEMMA EndSweepOK ==
    ASSUME ControlOK, NEW t \in Tasks, pc[t] \in SweepPCs, EndSweep(t)
    PROVE  ControlOK'
<1> DEFINE new == [loc[t] EXCEPT !.exp = {}, !.cnt = 0, !.ret = "idle"]
<1>0. "idle" \in PCs
  BY Zenon DEF PCs
<1>1. new \in Locals /\ new.dev = loc[t].dev /\ new.ret = "idle"
  BY <1>0, Zenon DEF ControlOK, Locals
<1>2. loc' = [loc EXCEPT ![t] = new]
  BY Zenon DEF ControlOK, Locals, EndSweep
<1>3. loc[t].ret \in {"iPaired", "rOutgoing"} /\ loc[t].dev \in Devices
  BY Zenon DEF ControlOK, RetOK, SweepPCs
<1>4. loc[t].ret \in PCs /\ RetOK(loc[t].ret, "idle")
  BY <1>3, Zenon DEF RetOK, PCs, SweepPCs, AcceptPCs, UnpairPCs
<1> HIDE DEF new
<1> QED
  BY <1>1, <1>2, <1>3, <1>4, Zenon DEF ControlOK, EndSweep

\* A refused accept ends the call.
LEMMA RefuseOK ==
    ASSUME ControlOK, NEW t \in Tasks, loc[t].dev \in Devices, Refuse(t)
    PROVE  ControlOK'
<1>1. "apiRefused" \in PCs /\ RetOK("apiRefused", loc[t].ret)
  BY Zenon DEF PCs, RetOK, SweepPCs, AcceptPCs, UnpairPCs
<1> QED
  BY <1>1, GotoOK, DoneOK, Zenon DEF Refuse

\* unpair and accept_pairing return to a label they were called with.
LEMMA ReturnOK ==
    ASSUME ControlOK, NEW t \in Tasks, loc[t].dev \in Devices, Return(t),
           loc[t].ret \in {"idle", "swOut", "rMutual"}
    PROVE  ControlOK'
<1>1. /\ {"swOut", "rMutual", "rOutgoing"} \subseteq PCs /\ "rOutgoing" \in Rets
      /\ RetOK("swOut", "rOutgoing") /\ RetOK("rMutual", loc[t].ret)
  BY Zenon DEF PCs, Rets, RetOK, SweepPCs, AcceptPCs, UnpairPCs
<1> QED
  BY <1>1, GotoOK, DoneOK, CallOK, Zenon DEF Return

\* The loop's branch for a packet that does not answer our own request.
LEMMA NotRequestedOK ==
    ASSUME ControlOK, NEW t \in Tasks, loc[t].dev \in Devices,
           NEW next \in {"idle", "upCert", "rjCert"}, NotRequested(t, next)
    PROVE  ControlOK'
<1>1. /\ {"rPaired", "upCert", "rjCert"} \subseteq PCs /\ "idle" \in Rets
      /\ RetOK("rPaired", loc[t].ret) /\ RetOK("upCert", "idle") /\ RetOK("rjCert", "idle")
  BY Zenon DEF PCs, Rets, RetOK, SweepPCs, AcceptPCs, UnpairPCs
<1>2. CASE Goto(t, "rPaired")
  BY <1>1, <1>2, GotoOK, Zenon
<1>3. CASE Done(t)
  BY <1>3, DoneOK, Zenon
<1>4. CASE next # "idle" /\ Call(t, next, "idle")
  BY <1>1, <1>4, CallOK, Zenon
<1> QED
  BY <1>2, <1>3, <1>4, Zenon DEF NotRequested

\* accept_pairing keeps the certificate it took.
LEMMA CertOK ==
    ASSUME ControlOK, NEW t \in Tasks, NEW label \in PCs, NEW c \in OptCerts,
           loc[t].dev \in Devices, RetOK(label, loc[t].ret),
           pc' = [pc EXCEPT ![t] = label], loc' = [loc EXCEPT ![t].cert = c]
    PROVE  ControlOK'
<1>1. [loc[t] EXCEPT !.cert = c] \in Locals
  BY Zenon DEF ControlOK, Locals
<1>2. /\ loc' = [loc EXCEPT ![t] = [loc[t] EXCEPT !.cert = c]]
      /\ [loc[t] EXCEPT !.cert = c].dev = loc[t].dev
      /\ [loc[t] EXCEPT !.cert = c].ret = loc[t].ret
  BY Zenon DEF ControlOK, Locals
<1> QED
  BY <1>1, <1>2, Zenon DEF ControlOK

\* The file operations of save_to_disk keep the shape of disk.
LEMMA DiskType ==
    ASSUME DataOK, NEW t \in Tasks,
           SaveOpen(t) \/ SaveWrite(t) \/ SaveRename \/ SaveFails(t)
    PROVE  disk' \in Disks
<1> USE DEF DataOK, Disks
<1>0. /\ NoFile \in Contents /\ TornFile \in Contents
      /\ \A m \in SUBSET Devices : WholeFile(m) \in Contents
  BY Zenon DEF NoFile, TornFile, WholeFile, Contents
<1>1. CASE SaveOpen(t)
  <2>1. /\ [disk.fd EXCEPT ![t] = "tmp"] \in [Tasks -> Places]
        /\ [disk.json EXCEPT ![t] = paired] \in [Tasks -> SUBSET Devices]
    BY Zenon DEF Places
  <2> QED BY <1>0, <1>1, <2>1, Zenon DEF SaveOpen
<1>2. CASE SaveWrite(t)
  <2>1. /\ [disk.fd EXCEPT ![t] = "none"] \in [Tasks -> Places]
        /\ [disk.json EXCEPT ![t] = {}] \in [Tasks -> SUBSET Devices]
    BY Zenon DEF Places
  <2> QED BY <1>0, <1>2, <2>1, Zenon DEF SaveWrite
<1>3. CASE SaveRename
  <2>1. [u \in Tasks |-> CASE disk.fd[u] = "tmp" -> "file"
                          [] disk.fd[u] = "file" -> "gone"
                          [] OTHER -> disk.fd[u]] \in [Tasks -> Places]
    BY SMTT(30) DEF Places
  <2> QED BY <1>0, <1>3, <2>1, Zenon DEF SaveRename
<1>4. CASE SaveFails(t)
  <2>1. /\ [disk.fd EXCEPT ![t] = "none"] \in [Tasks -> Places]
        /\ [disk.json EXCEPT ![t] = {}] \in [Tasks -> SUBSET Devices]
    BY Zenon DEF Places
  <2> QED BY <1>4, <2>1, Zenon DEF SaveFails
<1> QED BY <1>1, <1>2, <1>3, <1>4, Zenon

\* Every step of a task, of time and of a crash keeps types and return labels.
LEMMA TypeStep == DataOK /\ ControlOK /\ [Next]_vars => DataOK' /\ ControlOK'
<1> SUFFICES ASSUME DataOK, ControlOK, [Next]_vars PROVE DataOK' /\ ControlOK'
  BY Zenon
<1> USE PairingAssumption DEF At, Dev, DataOK, OptCerts, Requests
<1>1. ASSUME NEW t \in Tasks, Step(t) PROVE DataOK' /\ ControlOK'
  <2>0. /\ pc[t] # "idle" => loc[t].dev \in Devices
        /\ RetOK(pc[t], loc[t].ret)
        /\ loc[t].cert \in OptCerts /\ loc[t].ret \in Rets
        /\ loc[t].exp \in SUBSET Devices /\ loc[t].cnt \in Nat
    BY Zenon DEF ControlOK, Locals, Rets
  <2> USE DEF RetOK, SweepPCs, AcceptPCs, UnpairPCs, PCs, Rets
  <2>1. CASE ApiStage(t)
    <3>1. DataOK'
      BY <2>1, <2>0, Zenon DEF ApiStage, Stage
    <3>2. ControlOK'
      BY <2>1, <2>0, GotoOK, Zenon DEF ApiStage
    <3> QED BY <3>1, <3>2, Zenon
  <2>2. CASE ApiAnchor(t)
    <3>1. DataOK'
      BY <2>2, <2>0, Zenon DEF ApiAnchor
    <3>2. ControlOK'
      BY <2>2, <2>0, GotoOK, Zenon DEF ApiAnchor
    <3> QED BY <3>1, <3>2, Zenon
  <2>3. CASE ApiSend(t)
    <3>1. DataOK'
      BY <2>3, <2>0, Zenon DEF ApiSend
    <3>2. ControlOK'
      <4>1. CASE Call(t, "acOut", "apiDone")
        <5>1. /\ "acOut" \in PCs /\ "apiDone" \in Rets
              /\ RetOK("acOut", "apiDone") /\ loc[t].dev \in Devices
          BY <2>3, <2>0, Zenon DEF ApiSend
        <5> HIDE DEF RetOK, SweepPCs, AcceptPCs, UnpairPCs, PCs, Rets
        <5> QED BY <4>1, <5>1, CallOK, Zenon
      <4>2. CASE Goto(t, "rjCert")
        BY <4>2, <2>3, <2>0, GotoOK, Zenon DEF ApiSend
      <4> QED BY <4>1, <4>2, <2>3, Zenon DEF ApiSend
    <3> QED BY <3>1, <3>2, Zenon
  <2>4. CASE ApiRefused(t)
    <3>1. DataOK'
      BY <2>4, <2>0, Zenon DEF ApiRefused
    <3>2. ControlOK'
      BY <2>4, <2>0, DoneOK, Zenon DEF ApiRefused
    <3> QED BY <3>1, <3>2, Zenon
  <2>5. CASE InitiatePaired(t)
    <3>1. DataOK'
      BY <2>5, <2>0, Zenon DEF InitiatePaired
    <3>2. ControlOK'
      BY <2>5, <2>0, GotoOK, DoneOK, Zenon DEF InitiatePaired
    <3> QED BY <3>1, <3>2, Zenon
  <2>6. CASE InitiateCount(t)
    <3>1. DataOK'
      BY <2>6, <2>0, Zenon DEF InitiateCount
    <3>2. ControlOK'
      BY <2>6, <2>0, GotoOK, DoneOK, Zenon DEF InitiateCount
    <3> QED BY <3>1, <3>2, Zenon
  <2>7. CASE InitiateInsert(t)
    <3>1. DataOK'
      BY <2>7, <2>0, Zenon DEF InitiateInsert
    <3>2. ControlOK'
      BY <2>7, <2>0, GotoOK, Zenon DEF InitiateInsert
    <3> QED BY <3>1, <3>2, Zenon
  <2>8. CASE InitiateStage(t)
    <3>1. DataOK'
      BY <2>8, <2>0, Zenon DEF InitiateStage, Stage
    <3>2. ControlOK'
      BY <2>8, <2>0, DoneOK, Zenon DEF InitiateStage
    <3> QED BY <3>1, <3>2, Zenon
  <2>9. CASE StatePaired(t)
    <3>1. DataOK'
      BY <2>9, <2>0, Zenon DEF StatePaired
    <3>2. ControlOK'
      BY <2>9, <2>0, GotoOK, NotRequestedOK, Zenon DEF StatePaired
    <3> QED BY <3>1, <3>2, Zenon
  <2>10. CASE StateOutgoing(t)
    <3>1. DataOK'
      BY <2>10, <2>0, Zenon DEF StateOutgoing
    <3>2. ControlOK'
      <4>1. CASE Call(t, "rjCert", "idle")
        <5>1. /\ "rjCert" \in PCs /\ "idle" \in Rets
              /\ RetOK("rjCert", "idle") /\ loc[t].dev \in Devices
          BY <2>10, <2>0, Zenon DEF StateOutgoing
        <5> HIDE DEF RetOK, SweepPCs, AcceptPCs, UnpairPCs, PCs, Rets
        <5> QED BY <4>1, <5>1, CallOK, Zenon
      <4>2. CASE Call(t, "aStage", "idle")
        <5>1. /\ "aStage" \in PCs /\ "idle" \in Rets
              /\ RetOK("aStage", "idle") /\ loc[t].dev \in Devices
          BY <2>10, <2>0, Zenon DEF StateOutgoing
        <5> HIDE DEF RetOK, SweepPCs, AcceptPCs, UnpairPCs, PCs, Rets
        <5> QED BY <4>2, <5>1, CallOK, Zenon
      <4>3. CASE Goto(t, "psIn")
        BY <4>3, <2>10, <2>0, GotoOK, Zenon DEF StateOutgoing
      <4> QED BY <4>1, <4>2, <4>3, <2>10, Zenon DEF StateOutgoing
    <3> QED BY <3>1, <3>2, Zenon
  <2>11. CASE StateIncoming(t)
    <3>1. DataOK'
      BY <2>11, <2>0, Zenon DEF StateIncoming
    <3>2. ControlOK'
      BY <2>11, <2>0, NotRequestedOK, Zenon DEF StateIncoming
    <3> QED BY <3>1, <3>2, Zenon
  <2>12. CASE AcceptedStage(t)
    <3>1. DataOK'
      BY <2>12, <2>0, Zenon DEF AcceptedStage, Stage
    <3>2. ControlOK'
      <4>1. /\ "acOut" \in PCs /\ "idle" \in Rets
            /\ RetOK("acOut", "idle") /\ loc[t].dev \in Devices
        BY <2>12, <2>0, Zenon DEF AcceptedStage
      <4>2. Call(t, "acOut", "idle")
        BY <2>12, Zenon DEF AcceptedStage
      <4> HIDE DEF RetOK, SweepPCs, AcceptPCs, UnpairPCs, PCs, Rets
      <4> QED BY <4>2, <4>1, CallOK, Zenon
    <3> QED BY <3>1, <3>2, Zenon
  <2>13. CASE ReceivePaired(t)
    <3>1. DataOK'
      BY <2>13, <2>0, Zenon DEF ReceivePaired
    <3>2. ControlOK'
      <4>1. CASE Call(t, "upCert", "swOut")
        <5>1. /\ "upCert" \in PCs /\ "swOut" \in Rets
              /\ RetOK("upCert", "swOut") /\ loc[t].dev \in Devices
          BY <2>13, <2>0, Zenon DEF ReceivePaired
        <5> HIDE DEF RetOK, SweepPCs, AcceptPCs, UnpairPCs, PCs, Rets
        <5> QED BY <4>1, <5>1, CallOK, Zenon
      <4>2. CASE Call(t, "swOut", "rOutgoing")
        <5>1. /\ "swOut" \in PCs /\ "rOutgoing" \in Rets
              /\ RetOK("swOut", "rOutgoing") /\ loc[t].dev \in Devices
          BY <2>13, <2>0, Zenon DEF ReceivePaired
        <5> HIDE DEF RetOK, SweepPCs, AcceptPCs, UnpairPCs, PCs, Rets
        <5> QED BY <4>2, <5>1, CallOK, Zenon
      <4> QED BY <4>1, <4>2, <2>13, Zenon DEF ReceivePaired
    <3> QED BY <3>1, <3>2, Zenon
  <2>14. CASE ReceiveOutgoing(t)
    <3>1. DataOK'
      BY <2>14, <2>0, Zenon DEF ReceiveOutgoing
    <3>2. ControlOK'
      BY <2>14, <2>0, GotoOK, SMTT(30) DEF ReceiveOutgoing
    <3> QED BY <3>1, <3>2, Zenon
  <2>15. CASE ReceiveStage(t)
    <3>1. DataOK'
      BY <2>15, <2>0, Zenon DEF ReceiveStage, Stage
    <3>2. ControlOK'
      <4>1. /\ "acOut" \in PCs /\ "rMutual" \in Rets
            /\ RetOK("acOut", "rMutual") /\ loc[t].dev \in Devices
        BY <2>15, <2>0, Zenon DEF ReceiveStage
      <4>2. Call(t, "acOut", "rMutual")
        BY <2>15, Zenon DEF ReceiveStage
      <4> HIDE DEF RetOK, SweepPCs, AcceptPCs, UnpairPCs, PCs, Rets
      <4> QED BY <4>2, <4>1, CallOK, Zenon
    <3> QED BY <3>1, <3>2, Zenon
  <2>16. CASE ReceiveIncoming(t)
    <3>1. DataOK'
      BY <2>16, <2>0, Zenon DEF ReceiveIncoming
    <3>2. ControlOK'
      BY <2>16, <2>0, GotoOK, SMTT(30) DEF ReceiveIncoming
    <3> QED BY <3>1, <3>2, Zenon
  <2>17. CASE ReceiveCount(t)
    <3>1. DataOK'
      BY <2>17, <2>0, Zenon DEF ReceiveCount
    <3>2. ControlOK'
      BY <2>17, <2>0, GotoOK, DoneOK, Zenon DEF ReceiveCount
    <3> QED BY <3>1, <3>2, Zenon
  <2>18. CASE ReceiveInsert(t)
    <3>1. DataOK'
      BY <2>18, <2>0, Zenon DEF ReceiveInsert
    <3>2. ControlOK'
      BY <2>18, <2>0, GotoOK, Zenon DEF ReceiveInsert
    <3> QED BY <3>1, <3>2, Zenon
  <2>19. CASE ReceiveStageNew(t)
    <3>1. DataOK'
      BY <2>19, <2>0, Zenon DEF ReceiveStageNew, Stage
    <3>2. ControlOK'
      BY <2>19, <2>0, GotoOK, Zenon DEF ReceiveStageNew
    <3> QED BY <3>1, <3>2, Zenon
  <2>20. CASE ReceiveMutual(t)
    <3>1. DataOK'
      BY <2>20, <2>0, Zenon DEF ReceiveMutual
    <3>2. ControlOK'
      <4>1. CASE Done(t)
        BY <4>1, DoneOK, Zenon
      <4>2. CASE Call(t, "upCert", "idle")
        <5>1. /\ "upCert" \in PCs /\ "idle" \in Rets
              /\ RetOK("upCert", "idle") /\ loc[t].dev \in Devices
          BY <2>20, <2>0, Zenon DEF ReceiveMutual
        <5> HIDE DEF RetOK, SweepPCs, AcceptPCs, UnpairPCs, PCs, Rets
        <5> QED BY <4>2, <5>1, CallOK, Zenon
      <4> QED BY <4>1, <4>2, <2>20, Zenon DEF ReceiveMutual
    <3> QED BY <3>1, <3>2, Zenon
  <2>21. CASE SweepOutgoing(t)
    <3>1. DataOK'
      BY <2>21, <2>0, Zenon DEF SweepOutgoing, Retain
    <3>2. ControlOK'
      BY <2>21, CountType, SweepStateOK, Zenon DEF SweepOutgoing, Expired
    <3> QED BY <3>1, <3>2, Zenon
  <2>22. CASE SweepIncoming(t)
    <3>1. DataOK'
      BY <2>22, <2>0, Zenon DEF SweepIncoming, Retain
    <3>2. ControlOK'
      <4>1. /\ loc[t].exp \cup Expired(incoming) \in SUBSET Devices
            /\ loc[t].cnt + Cardinality(Expired(incoming)) \in Nat
        BY <2>0, CountType DEF Expired
      <4>2. /\ pc[t] \in SweepPCs /\ "swCount" \in SweepPCs
            /\ pc' = [pc EXCEPT ![t] = "swCount"]
            /\ loc' = [loc EXCEPT ![t] = [@ EXCEPT
                          !.exp = loc[t].exp \cup Expired(incoming),
                          !.cnt = loc[t].cnt + Cardinality(Expired(incoming))]]
        BY <2>22, Zenon DEF SweepIncoming
      <4> HIDE DEF RetOK, SweepPCs, AcceptPCs, UnpairPCs, PCs, Rets
      <4> QED BY <4>1, <4>2, SweepStateOK, Zenon
    <3> QED BY <3>1, <3>2, Zenon
  <2>23. CASE SweepCount(t)
    <3>1. DataOK'
      BY <2>23, <2>0, Zenon DEF SweepCount, EndSweep
    <3>2. ControlOK'
      BY <2>23, <2>0, GotoOK, EndSweepOK, Zenon DEF SweepCount
    <3> QED BY <3>1, <3>2, Zenon
  <2>24. CASE SweepCerts(t)
    <3>1. DataOK'
      BY <2>24, <2>0, Zenon DEF SweepCerts, EndSweep
    <3>2. ControlOK'
      BY <2>24, <2>0, EndSweepOK, Zenon DEF SweepCerts
    <3> QED BY <3>1, <3>2, Zenon
  <2>25. CASE AcceptOutgoing(t)
    <3>1. DataOK'
      BY <2>25, <2>0, Zenon DEF AcceptOutgoing, DropOutgoing
    <3>2. ControlOK'
      BY <2>25, <2>0, GotoOK, Zenon DEF AcceptOutgoing
    <3> QED BY <3>1, <3>2, Zenon
  <2>26. CASE AcceptIncoming(t)
    <3>1. DataOK'
      BY <2>26, <2>0, Zenon DEF AcceptIncoming, DropIncoming
    <3>2. ControlOK'
      BY <2>26, <2>0, GotoOK, RefuseOK, Zenon DEF AcceptIncoming
    <3> QED BY <3>1, <3>2, Zenon
  <2>27. CASE AcceptDrop(t)
    <3>1. DataOK'
      BY <2>27, <2>0, Zenon DEF AcceptDrop, Unstage
    <3>2. ControlOK'
      BY <2>27, <2>0, RefuseOK, Zenon DEF AcceptDrop
    <3> QED BY <3>1, <3>2, Zenon
  <2>28. CASE AcceptTake(t)
    <3>1. DataOK'
      BY <2>28, <2>0, Zenon DEF AcceptTake, Unstage
    <3>2. ControlOK'
      <4>1. CASE Refuse(t)
        BY <4>1, <2>28, <2>0, RefuseOK, Zenon DEF AcceptTake
      <4>2. CASE Goto(t, "acPaired")
        BY <4>2, <2>28, <2>0, GotoOK, Zenon DEF AcceptTake
      <4>3. CASE /\ pc' = [pc EXCEPT ![t] = "acStore"]
                 /\ loc' = [loc EXCEPT ![t].cert = staged[Dev(t)]]
        <5>1. staged[loc[t].dev] \in OptCerts /\ loc[t].dev \in Devices
          BY <2>28, <2>0, Zenon DEF AcceptTake
        <5>2. "acStore" \in PCs /\ RetOK("acStore", loc[t].ret)
          BY <2>28, <2>0, Zenon DEF AcceptTake
        <5> HIDE DEF RetOK, SweepPCs, AcceptPCs, UnpairPCs, PCs, Rets
        <5> HIDE DEF OptCerts
        <5> QED BY <4>3, <5>1, <5>2, CertOK, ZenonT(30)
      <4> QED BY <4>1, <4>2, <4>3, <2>28, Zenon DEF AcceptTake
    <3> QED BY <3>1, <3>2, Zenon
  <2>29. CASE AcceptStore(t)
    <3>1. DataOK'
      BY <2>29, <2>0, Zenon DEF AcceptStore
    <3>2. ControlOK'
      BY <2>29, <2>0, GotoOK, RefuseOK, Zenon DEF AcceptStore
    <3> QED BY <3>1, <3>2, Zenon
  <2>30. CASE AcceptPin(t)
    <3>1. DataOK'
      BY <2>30, <2>0, Zenon DEF AcceptPin
    <3>2. ControlOK'
      <4>1. CASE Goto(t, "acPaired")
        BY <4>1, <2>30, <2>0, GotoOK, Zenon DEF AcceptPin
      <4>2. CASE Refuse(t)
        BY <4>2, <2>30, <2>0, RefuseOK, Zenon DEF AcceptPin
      <4> QED BY <4>1, <4>2, <2>30, Zenon DEF AcceptPin
    <3> QED BY <3>1, <3>2, Zenon
  <2>31. CASE AcceptPaired(t)
    <3>1. DataOK'
      BY <2>31, <2>0, Zenon DEF AcceptPaired
    <3>2. ControlOK'
      BY <2>31, <2>0, GotoOK, ZenonT(30) DEF AcceptPaired
    <3> QED BY <3>1, <3>2, Zenon
  <2>32. CASE AcceptSave(t)
    <3>1. DataOK'
      BY <2>32, DiskType, Zenon DEF AcceptSave
    <3>2. ControlOK'
      <4>1. CASE Goto(t, "acWrite")
        BY <4>1, <2>32, <2>0, GotoOK, Zenon DEF AcceptSave
      <4>2. CASE Accepted(t)
        BY <4>2, <2>32, <2>0, DoneOK, ReturnOK, Zenon DEF AcceptSave, Accepted
      <4> QED BY <4>1, <4>2, <2>32, Zenon DEF AcceptSave
    <3> QED BY <3>1, <3>2, Zenon
  <2>40. CASE AcceptWrite(t)
    <3>1. DataOK'
      BY <2>40, DiskType, Zenon DEF AcceptWrite
    <3>2. ControlOK'
      <4>1. CASE Goto(t, "acRename")
        BY <4>1, <2>40, <2>0, GotoOK, Zenon DEF AcceptWrite
      <4>2. CASE Accepted(t)
        BY <4>2, <2>40, <2>0, DoneOK, ReturnOK, Zenon DEF AcceptWrite, Accepted
      <4> QED BY <4>1, <4>2, <2>40, Zenon DEF AcceptWrite
    <3> QED BY <3>1, <3>2, Zenon
  <2>41. CASE AcceptRename(t)
    <3>1. DataOK'
      BY <2>41, DiskType, Zenon DEF AcceptRename
    <3>2. ControlOK'
      BY <2>41, <2>0, DoneOK, ReturnOK, Zenon DEF AcceptRename, Accepted
    <3> QED BY <3>1, <3>2, Zenon
  <2>33. CASE UnpairCert(t)
    <3>1. DataOK'
      BY <2>33, <2>0, Zenon DEF UnpairCert, Unstage
    <3>2. ControlOK'
      BY <2>33, <2>0, GotoOK, Zenon DEF UnpairCert
    <3> QED BY <3>1, <3>2, Zenon
  <2>34. CASE UnpairPaired(t)
    <3>1. DataOK'
      BY <2>34, <2>0, Zenon DEF UnpairPaired
    <3>2. ControlOK'
      BY <2>34, <2>0, GotoOK, ReturnOK, Zenon DEF UnpairPaired
    <3> QED BY <3>1, <3>2, Zenon
  <2>35. CASE UnpairDelete(t)
    <3>1. DataOK'
      BY <2>35, <2>0, Zenon DEF UnpairDelete
    <3>2. ControlOK'
      BY <2>35, <2>0, GotoOK, Zenon DEF UnpairDelete
    <3> QED BY <3>1, <3>2, Zenon
  <2>36. CASE UnpairSave(t)
    <3>1. DataOK'
      BY <2>36, DiskType, Zenon DEF UnpairSave
    <3>2. ControlOK'
      <4>1. CASE Goto(t, "upWrite")
        BY <4>1, <2>36, <2>0, GotoOK, Zenon DEF UnpairSave
      <4>2. CASE Return(t)
        BY <4>2, <2>36, <2>0, DoneOK, ReturnOK, Zenon DEF UnpairSave
      <4> QED BY <4>1, <4>2, <2>36, Zenon DEF UnpairSave
    <3> QED BY <3>1, <3>2, Zenon
  <2>42. CASE UnpairWrite(t)
    <3>1. DataOK'
      BY <2>42, DiskType, Zenon DEF UnpairWrite
    <3>2. ControlOK'
      <4>1. CASE Goto(t, "upRename")
        BY <4>1, <2>42, <2>0, GotoOK, Zenon DEF UnpairWrite
      <4>2. CASE Return(t)
        BY <4>2, <2>42, <2>0, DoneOK, ReturnOK, Zenon DEF UnpairWrite
      <4> QED BY <4>1, <4>2, <2>42, Zenon DEF UnpairWrite
    <3> QED BY <3>1, <3>2, Zenon
  <2>43. CASE UnpairRename(t)
    <3>1. DataOK'
      BY <2>43, DiskType, Zenon DEF UnpairRename
    <3>2. ControlOK'
      BY <2>43, <2>0, DoneOK, ReturnOK, Zenon DEF UnpairRename
    <3> QED BY <3>1, <3>2, Zenon
  <2>37. CASE RejectCert(t)
    <3>1. DataOK'
      BY <2>37, <2>0, Zenon DEF RejectCert, Unstage
    <3>2. ControlOK'
      BY <2>37, <2>0, GotoOK, Zenon DEF RejectCert
    <3> QED BY <3>1, <3>2, Zenon
  <2>38. CASE RejectOutgoing(t)
    <3>1. DataOK'
      BY <2>38, <2>0, Zenon DEF RejectOutgoing, DropOutgoing
    <3>2. ControlOK'
      BY <2>38, <2>0, GotoOK, Zenon DEF RejectOutgoing
    <3> QED BY <3>1, <3>2, Zenon
  <2>39. CASE RejectIncoming(t)
    <3>1. DataOK'
      BY <2>39, <2>0, Zenon DEF RejectIncoming, DropIncoming
    <3>2. ControlOK'
      BY <2>39, <2>0, DoneOK, Zenon DEF RejectIncoming
    <3> QED BY <3>1, <3>2, Zenon
  <2> QED
    BY ZenonT(30), <1>1, <2>1, <2>2, <2>3, <2>4, <2>5, <2>6, <2>7, <2>8, <2>9, <2>10, <2>11, <2>12,
       <2>13, <2>14, <2>15, <2>16, <2>17, <2>18, <2>19, <2>20, <2>21, <2>22, <2>23,
       <2>24, <2>25, <2>26, <2>27, <2>28, <2>29, <2>30, <2>31, <2>32, <2>33, <2>34,
       <2>35, <2>36, <2>37, <2>38, <2>39, <2>40, <2>41, <2>42, <2>43 DEF Step
<1>2. ASSUME NEW t \in Tasks, Begin(t) PROVE DataOK' /\ ControlOK'
  <2>1. DataOK'
    BY <1>2, Zenon DEF Begin, ApiPair, PairPacket, ApiUnpair, Start
  <2>2. PICK label \in PCs, d \in Devices, c \in OptCerts, ret \in Rets :
           RetOK(label, ret) /\ Start(t, label, d, c, ret)
    <3>1. /\ {"apiStage", "swOut", "psPaired", "upCert"} \subseteq PCs
          /\ {"idle", "iPaired", "request", "accept", "refuse"} \subseteq Rets
          /\ NoCert \in OptCerts
      BY Zenon DEF PCs, Rets, OptCerts
    <3>2. /\ RetOK("apiStage", "idle") /\ RetOK("swOut", "iPaired")
          /\ RetOK("upCert", "idle") /\ \A kind \in Rets : RetOK("psPaired", kind)
      BY Zenon DEF RetOK, SweepPCs, AcceptPCs, UnpairPCs
    <3>3. PICK d \in Devices : ApiPair(t, d) \/ PairPacket(t, d) \/ ApiUnpair(t, d)
      BY <1>2, Zenon DEF Begin
    <3> HIDE DEF RetOK, SweepPCs, AcceptPCs, UnpairPCs, PCs, Rets, OptCerts, Locals
    <3>4. CASE ApiPair(t, d)
      BY <3>1, <3>2, <3>4, Zenon DEF ApiPair
    <3>5. CASE PairPacket(t, d)
      <4>1. PICK c \in OptCerts, kind \in {"request", "accept", "refuse"} :
               Start(t, "psPaired", d, IF kind = "refuse" THEN NoCert ELSE c, kind)
        BY <3>5, Zenon DEF PairPacket
      <4>2. /\ (IF kind = "refuse" THEN NoCert ELSE c) \in OptCerts
            /\ kind \in Rets /\ RetOK("psPaired", kind)
        BY <3>1, <3>2, Zenon
      <4> QED
        BY <3>1, <4>1, <4>2, Zenon
    <3>6. CASE ApiUnpair(t, d)
      BY <3>1, <3>2, <3>6, Zenon DEF ApiUnpair
    <3> QED
      BY <3>3, <3>4, <3>5, <3>6, Zenon
  <2>3. /\ [NoLoc EXCEPT !.dev = d, !.cert = c, !.ret = ret] \in Locals
        /\ [NoLoc EXCEPT !.dev = d, !.cert = c, !.ret = ret].dev = d
        /\ [NoLoc EXCEPT !.dev = d, !.cert = c, !.ret = ret].ret = ret
    BY ZenonT(30) DEF NoLoc, Locals, Rets
  <2> QED
    BY <2>1, <2>2, <2>3, Zenon DEF ControlOK, Start
<1>3. ASSUME NEW d \in Devices, Expire(d) PROVE DataOK' /\ ControlOK'
  BY <1>3, Zenon DEF Expire, ControlOK
<1>4. CASE Crash
  <2>1. NoLoc \in Locals /\ "idle" \in PCs /\ RetOK("idle", NoLoc.ret)
    BY Zenon DEF NoLoc, Locals, PCs, RetOK, SweepPCs, AcceptPCs, UnpairPCs
  <2>2. disk' \in Disks
    BY <1>4, Zenon DEF Crash, Disks, Places
  <2>3. disk.file.map \in SUBSET Devices
    BY Zenon DEF Disks, Contents
  <2> QED
    BY <1>4, <2>1, <2>2, <2>3, Zenon DEF Crash, ControlOK
<1>5. CASE UNCHANGED vars
  BY <1>5, Zenon DEF vars, ControlOK
<1> QED
  BY <1>1, <1>2, <1>3, <1>4, <1>5, Zenon DEF Next

\* A new handler is well typed.
LEMMA TypeInit == Init => DataOK /\ ControlOK
<1>1. NoLoc \in Locals /\ "idle" \in PCs /\ RetOK("idle", NoLoc.ret)
  BY Zenon DEF NoLoc, Locals, OptCerts, PCs, RetOK, SweepPCs, AcceptPCs, UnpairPCs
<1>2. [file |-> NoFile, tmp |-> NoFile, fd |-> [t \in Tasks |-> "none"],
       json |-> [t \in Tasks |-> {}]] \in Disks
  BY Zenon DEF Disks, NoFile, Contents, Places
<1> SUFFICES ASSUME Init PROVE DataOK /\ ControlOK
  BY Zenon
<1>3. DataOK
  BY <1>2, Zenon DEF Init, DataOK, OptCerts, Requests
<1>4. ControlOK
  BY <1>1, Zenon DEF Init, ControlOK
<1> QED
  BY <1>3, <1>4, Zenon

\* The pairing handler's state is always well typed.
THEOREM TypeCorrect == Spec => []TypeOK
<1>1. DataOK /\ ControlOK => TypeOK
  BY Zenon DEF DataOK, ControlOK, TypeOK
<1> QED
  BY <1>1, TypeInit, TypeStep, PTL DEF Spec

(***************************************************************************)
(* What a step of one task does to the program counters and the maps.      *)
(***************************************************************************)

Counted == {"iInsert", "rInsert"}

\* A step of a task moves no other task.
LEMMA OthersStay ==
    ASSUME ControlOK, NEW t \in Tasks, Step(t)
    PROVE  \A u \in Tasks \ {t} : pc'[u] = pc[u] /\ loc'[u] = loc[u]
<1> USE DEF ControlOK, Goto, Done, Call, Return, EndSweep, Refuse, Accepted, NotRequested
<1>1. CASE ApiStage(t) \/ ApiAnchor(t) \/ ApiSend(t) \/ ApiRefused(t)
  BY <1>1, Zenon DEF ApiStage, ApiAnchor, ApiSend, ApiRefused
<1>2. CASE InitiatePaired(t) \/ InitiateCount(t) \/ InitiateInsert(t) \/ InitiateStage(t)
  BY <1>2, Zenon DEF InitiatePaired, InitiateCount, InitiateInsert, InitiateStage
<1>3. CASE StatePaired(t) \/ StateOutgoing(t) \/ StateIncoming(t) \/ AcceptedStage(t)
  BY <1>3, Zenon DEF StatePaired, StateOutgoing, StateIncoming, AcceptedStage
<1>4. CASE ReceivePaired(t) \/ ReceiveOutgoing(t) \/ ReceiveStage(t) \/ ReceiveIncoming(t)
  BY <1>4, Zenon DEF ReceivePaired, ReceiveOutgoing, ReceiveStage, ReceiveIncoming
<1>5. CASE ReceiveCount(t) \/ ReceiveInsert(t) \/ ReceiveStageNew(t) \/ ReceiveMutual(t)
  BY <1>5, Zenon DEF ReceiveCount, ReceiveInsert, ReceiveStageNew, ReceiveMutual
<1>6. CASE SweepOutgoing(t) \/ SweepIncoming(t) \/ SweepCount(t) \/ SweepCerts(t)
  BY <1>6, Zenon DEF SweepOutgoing, SweepIncoming, SweepCount, SweepCerts
<1>7. CASE AcceptOutgoing(t) \/ AcceptIncoming(t) \/ AcceptDrop(t) \/ AcceptTake(t)
  BY <1>7, Zenon DEF AcceptOutgoing, AcceptIncoming, AcceptDrop, AcceptTake
<1>8. CASE AcceptStore(t) \/ AcceptPin(t) \/ AcceptPaired(t) \/ AcceptSave(t)
      \/ AcceptWrite(t) \/ AcceptRename(t)
  BY <1>8, Zenon DEF AcceptStore, AcceptPin, AcceptPaired, AcceptSave, AcceptWrite, AcceptRename
<1>9. CASE UnpairCert(t) \/ UnpairPaired(t) \/ UnpairDelete(t) \/ UnpairSave(t)
      \/ UnpairWrite(t) \/ UnpairRename(t)
  BY <1>9, Zenon DEF UnpairCert, UnpairPaired, UnpairDelete, UnpairSave, UnpairWrite, UnpairRename
<1>10. CASE RejectCert(t) \/ RejectOutgoing(t) \/ RejectIncoming(t)
  BY <1>10, Zenon DEF RejectCert, RejectOutgoing, RejectIncoming
<1> QED
  BY <1>1, <1>2, <1>3, <1>4, <1>5, <1>6, <1>7, <1>8, <1>9, <1>10, ZenonT(30) DEF Step

\* Only the two count steps send a task to an insert.
LEMMA InsertsAreCounted ==
    ASSUME ControlOK, NEW t \in Tasks, Step(t), ~InitiateCount(t), ~ReceiveCount(t)
    PROVE  pc'[t] \notin Counted
<1>0. RetOK(pc[t], loc[t].ret)
  BY Zenon DEF ControlOK
<1> USE DEF ControlOK, Counted, At, Goto, Done, Call, Return, EndSweep, Refuse, Accepted,
            NotRequested, RetOK, SweepPCs, AcceptPCs, UnpairPCs
<1>1. CASE ApiStage(t) \/ ApiAnchor(t) \/ ApiSend(t) \/ ApiRefused(t)
  BY <1>1, <1>0, Zenon DEF ApiStage, ApiAnchor, ApiSend, ApiRefused
<1>2. CASE InitiatePaired(t) \/ InitiateInsert(t) \/ InitiateStage(t)
  BY <1>2, <1>0, Zenon DEF InitiatePaired, InitiateInsert, InitiateStage
<1>3. CASE StatePaired(t) \/ StateOutgoing(t) \/ StateIncoming(t) \/ AcceptedStage(t)
  BY <1>3, <1>0, Zenon DEF StatePaired, StateOutgoing, StateIncoming, AcceptedStage
<1>4. CASE ReceivePaired(t) \/ ReceiveOutgoing(t) \/ ReceiveStage(t) \/ ReceiveIncoming(t)
  BY <1>4, <1>0, Zenon DEF ReceivePaired, ReceiveOutgoing, ReceiveStage, ReceiveIncoming
<1>5. CASE ReceiveInsert(t) \/ ReceiveStageNew(t) \/ ReceiveMutual(t)
  BY <1>5, <1>0, Zenon DEF ReceiveInsert, ReceiveStageNew, ReceiveMutual
<1>6. CASE SweepOutgoing(t) \/ SweepIncoming(t) \/ SweepCount(t) \/ SweepCerts(t)
  BY <1>6, <1>0, Zenon DEF SweepOutgoing, SweepIncoming, SweepCount, SweepCerts
<1>7. CASE AcceptOutgoing(t) \/ AcceptIncoming(t) \/ AcceptDrop(t) \/ AcceptTake(t)
  BY <1>7, <1>0, Zenon DEF AcceptOutgoing, AcceptIncoming, AcceptDrop, AcceptTake
<1>8. CASE AcceptStore(t) \/ AcceptPin(t) \/ AcceptPaired(t) \/ AcceptSave(t)
      \/ AcceptWrite(t) \/ AcceptRename(t)
  BY <1>8, <1>0, Zenon DEF AcceptStore, AcceptPin, AcceptPaired, AcceptSave, AcceptWrite, AcceptRename
<1>9. CASE UnpairCert(t) \/ UnpairPaired(t) \/ UnpairDelete(t) \/ UnpairSave(t)
      \/ UnpairWrite(t) \/ UnpairRename(t)
  BY <1>9, <1>0, Zenon DEF UnpairCert, UnpairPaired, UnpairDelete, UnpairSave, UnpairWrite, UnpairRename
<1>10. CASE RejectCert(t) \/ RejectOutgoing(t) \/ RejectIncoming(t)
  BY <1>10, <1>0, Zenon DEF RejectCert, RejectOutgoing, RejectIncoming
<1> QED
  BY <1>1, <1>2, <1>3, <1>4, <1>5, <1>6, <1>7, <1>8, <1>9, <1>10, Zenon DEF Step

\* Only the two insert steps add a request to a map.
LEMMA MapsShrink ==
    ASSUME DataOK, ControlOK, NEW t \in Tasks, Step(t), ~InitiateInsert(t), ~ReceiveInsert(t)
    PROVE  Has(outgoing)' \subseteq Has(outgoing) /\ Has(incoming)' \subseteq Has(incoming)
<1> USE DEF DataOK, Has, Retain, DropOutgoing, DropIncoming
<1>1. CASE ApiStage(t) \/ ApiAnchor(t) \/ ApiSend(t) \/ ApiRefused(t)
  BY <1>1, Zenon DEF ApiStage, ApiAnchor, ApiSend, ApiRefused
<1>2. CASE InitiatePaired(t) \/ InitiateCount(t) \/ InitiateStage(t)
  BY <1>2, Zenon DEF InitiatePaired, InitiateCount, InitiateStage
<1>3. CASE StatePaired(t) \/ StateOutgoing(t) \/ StateIncoming(t) \/ AcceptedStage(t)
  BY <1>3, ZenonT(30) DEF StatePaired, StateOutgoing, StateIncoming, AcceptedStage
<1>4. CASE ReceivePaired(t) \/ ReceiveOutgoing(t) \/ ReceiveStage(t) \/ ReceiveIncoming(t)
  BY <1>4, Zenon DEF ReceivePaired, ReceiveOutgoing, ReceiveStage, ReceiveIncoming
<1>5. CASE ReceiveCount(t) \/ ReceiveStageNew(t) \/ ReceiveMutual(t)
  BY <1>5, Zenon DEF ReceiveCount, ReceiveStageNew, ReceiveMutual
<1>6. CASE SweepOutgoing(t) \/ SweepIncoming(t) \/ SweepCount(t) \/ SweepCerts(t)
  BY <1>6, Zenon DEF SweepOutgoing, SweepIncoming, SweepCount, SweepCerts
<1>7. CASE AcceptOutgoing(t) \/ AcceptIncoming(t) \/ AcceptDrop(t) \/ AcceptTake(t)
  BY <1>7, Zenon DEF AcceptOutgoing, AcceptIncoming, AcceptDrop, AcceptTake
<1>8. CASE AcceptStore(t) \/ AcceptPin(t) \/ AcceptPaired(t) \/ AcceptSave(t)
      \/ AcceptWrite(t) \/ AcceptRename(t)
  BY <1>8, Zenon DEF AcceptStore, AcceptPin, AcceptPaired, AcceptSave, AcceptWrite, AcceptRename
<1>9. CASE UnpairCert(t) \/ UnpairPaired(t) \/ UnpairDelete(t) \/ UnpairSave(t)
      \/ UnpairWrite(t) \/ UnpairRename(t)
  BY <1>9, Zenon DEF UnpairCert, UnpairPaired, UnpairDelete, UnpairSave, UnpairWrite, UnpairRename
<1>10. CASE RejectCert(t) \/ RejectOutgoing(t) \/ RejectIncoming(t)
  BY <1>10, Zenon DEF RejectCert, RejectOutgoing, RejectIncoming
<1> QED
  BY <1>1, <1>2, <1>3, <1>4, <1>5, <1>6, <1>7, <1>8, <1>9, <1>10, ZenonT(30) DEF Step

\* A call that starts leaves the other tasks and the shared state alone.
LEMMA BeginShape ==
    ASSUME ControlOK, NEW t \in Tasks, Begin(t)
    PROVE  /\ pc[t] = "idle" /\ pc'[t] \notin Counted
           /\ \A u \in Tasks \ {t} : pc'[u] = pc[u] /\ loc'[u] = loc[u]
           /\ UNCHANGED <<outgoing, incoming, paired, disk>>
<1>1. PICK d \in Devices : ApiPair(t, d) \/ PairPacket(t, d) \/ ApiUnpair(t, d)
  BY Zenon DEF Begin
<1>2. PICK label, c, ret : Start(t, label, d, c, ret) /\ label \notin Counted
  <2>1. CASE ApiPair(t, d)
    BY <2>1 DEF ApiPair, Counted
  <2>2. CASE PairPacket(t, d)
    BY <2>2 DEF PairPacket, Counted
  <2>3. CASE ApiUnpair(t, d)
    BY <2>3 DEF ApiUnpair, Counted
  <2> QED
    BY <1>1, <2>1, <2>2, <2>3, Zenon
<1>3. UNCHANGED <<outgoing, incoming, paired, disk>>
  BY <1>1, Zenon DEF ApiPair, PairPacket, ApiUnpair
<1> QED
  BY <1>2, <1>3, Zenon DEF ControlOK, Start, At

\* Fewer requests and fewer tasks about to insert keep the bound.
LEMMA BoundShrinks ==
    ASSUME PendingBounded, Has(outgoing)' \subseteq Has(outgoing),
           Has(incoming)' \subseteq Has(incoming), Inserting' \subseteq Inserting
    PROVE  PendingBounded'
<1>1. /\ IsFiniteSet(Has(outgoing)) /\ IsFiniteSet(Has(incoming)) /\ IsFiniteSet(Inserting)
      /\ Cardinality(Tasks) \in Nat
  BY PairingAssumption, FS_Subset, FS_CardinalityType, ZenonT(30) DEF Has, Inserting
<1>2. /\ Cardinality(Has(outgoing)') <= Cardinality(Has(outgoing))
      /\ Cardinality(Has(incoming)') <= Cardinality(Has(incoming))
      /\ Cardinality(Inserting') <= Cardinality(Inserting)
  BY <1>1, FS_Subset, Zenon
<1>3. /\ Cardinality(Has(outgoing)') \in Nat /\ Cardinality(Has(outgoing)) \in Nat
      /\ Cardinality(Has(incoming)') \in Nat /\ Cardinality(Has(incoming)) \in Nat
      /\ Cardinality(Inserting') \in Nat /\ Cardinality(Inserting) \in Nat
  BY <1>1, FS_Subset, FS_CardinalityType, Zenon
<1> QED
  BY <1>1, <1>2, <1>3, PairingAssumption, SMTT(30) DEF PendingBounded, PendingTotal

\* An insert turns one task about to insert into at most one request.
LEMMA InsertOK ==
    ASSUME DataOK, ControlOK, PendingBounded, NEW t \in Tasks,
           InitiateInsert(t) \/ ReceiveInsert(t)
    PROVE  PendingBounded'
<1>0. loc[t].dev \in Devices /\ t \in Inserting
  BY Zenon DEF ControlOK, InitiateInsert, ReceiveInsert, At, Inserting
<1>1. Inserting' = Inserting \ {t}
  BY Zenon DEF ControlOK, InitiateInsert, ReceiveInsert, Goto, At, Inserting
<1>2. \/ /\ Has(outgoing)' = Has(outgoing) \cup {loc[t].dev}
         /\ Has(incoming)' = Has(incoming)
      \/ /\ Has(incoming)' = Has(incoming) \cup {loc[t].dev}
         /\ Has(outgoing)' = Has(outgoing)
  BY <1>0, Zenon DEF DataOK, InitiateInsert, ReceiveInsert, Has, Dev
<1>3. /\ IsFiniteSet(Has(outgoing)) /\ IsFiniteSet(Has(incoming)) /\ IsFiniteSet(Inserting)
      /\ Cardinality(Tasks) \in Nat
  BY PairingAssumption, FS_Subset, FS_CardinalityType, Zenon DEF Has, Inserting
<1>4. Cardinality(Inserting') = Cardinality(Inserting) - 1
  <2>1. Cardinality(Inserting \ {t}) = Cardinality(Inserting) - 1
    BY <1>0, <1>3, FS_RemoveElement, ZenonT(30)
  <2> QED
    BY <1>1, <2>1, Zenon
<1>5. ASSUME NEW S, IsFiniteSet(S)
      PROVE  Cardinality(S \cup {loc[t].dev}) \in {Cardinality(S), Cardinality(S) + 1}
  <2>1. CASE loc[t].dev \in S
    <3>1. S \cup {loc[t].dev} = S
      BY <2>1, Zenon
    <3> QED
      BY <3>1, Zenon
  <2>2. CASE loc[t].dev \notin S
    BY <1>5, <2>2, FS_AddElement, ZenonT(30)
  <2> QED
    BY <2>1, <2>2, Zenon
<1>6. /\ Cardinality(Has(outgoing)) \in Nat /\ Cardinality(Has(incoming)) \in Nat
      /\ Cardinality(Inserting) \in Nat
  BY <1>3, FS_CardinalityType, Zenon
<1>7. Cardinality(Has(outgoing)') + Cardinality(Has(incoming)')
          <= Cardinality(Has(outgoing)) + Cardinality(Has(incoming)) + 1
  <2>1. /\ Cardinality(Has(outgoing) \cup {loc[t].dev}) \in
               {Cardinality(Has(outgoing)), Cardinality(Has(outgoing)) + 1}
        /\ Cardinality(Has(incoming) \cup {loc[t].dev}) \in
               {Cardinality(Has(incoming)), Cardinality(Has(incoming)) + 1}
    BY <1>3, <1>5, Zenon
  <2>2. \/ /\ Cardinality(Has(outgoing)') = Cardinality(Has(outgoing) \cup {loc[t].dev})
           /\ Cardinality(Has(incoming)') = Cardinality(Has(incoming))
        \/ /\ Cardinality(Has(incoming)') = Cardinality(Has(incoming) \cup {loc[t].dev})
           /\ Cardinality(Has(outgoing)') = Cardinality(Has(outgoing))
    BY <1>2, ZenonT(30)
  <2> QED
    BY <1>6, <2>1, <2>2
<1>8. Cardinality(Has(outgoing)') \in Nat /\ Cardinality(Has(incoming)') \in Nat
  BY PairingAssumption, FS_Subset, FS_CardinalityType, Zenon DEF Has
<1> QED
  BY <1>3, <1>4, <1>6, <1>7, <1>8, PairingAssumption, SMTT(30) DEF PendingBounded, PendingTotal

\* A count that lets a task insert has just seen room for one.
LEMMA CountOK ==
    ASSUME DataOK, ControlOK, PendingBounded, NEW t \in Tasks,
           InitiateCount(t) \/ ReceiveCount(t)
    PROVE  PendingBounded'
<1>1. Has(outgoing)' = Has(outgoing) /\ Has(incoming)' = Has(incoming)
  BY Zenon DEF InitiateCount, ReceiveCount, Has
<1>2. CASE PendingTotal >= MaxPending
  <2>1. Inserting' \subseteq Inserting
    BY <1>2, Zenon DEF ControlOK, InitiateCount, ReceiveCount, Done, Inserting
  <2> QED
    BY <1>1, <2>1, BoundShrinks, Zenon
<1>3. CASE ~(PendingTotal >= MaxPending)
  <2>1. /\ IsFiniteSet(Has(outgoing)) /\ IsFiniteSet(Has(incoming)) /\ IsFiniteSet(Tasks)
        /\ Inserting' \subseteq Tasks
    BY PairingAssumption, FS_Subset, Zenon DEF Has, Inserting
  <2>2. /\ Cardinality(Inserting') <= Cardinality(Tasks)
        /\ Cardinality(Inserting') \in Nat /\ Cardinality(Tasks) \in Nat
        /\ Cardinality(Has(outgoing)) \in Nat /\ Cardinality(Has(incoming)) \in Nat
    BY <2>1, FS_Subset, FS_CardinalityType, Zenon
  <2> QED
    BY <1>1, <1>3, <2>2, PairingAssumption, SMTT(30) DEF PendingBounded, PendingTotal
<1> QED
  BY <1>2, <1>3, Zenon

\* Every step of the handler keeps the bound on pending requests.
LEMMA BoundStep ==
    ASSUME DataOK, ControlOK, PendingBounded, [Next]_vars
    PROVE  PendingBounded'
<1>1. ASSUME NEW t \in Tasks, Step(t) PROVE PendingBounded'
  <2>1. CASE InitiateInsert(t) \/ ReceiveInsert(t)
    BY <2>1, InsertOK, Zenon
  <2>2. CASE InitiateCount(t) \/ ReceiveCount(t)
    BY <2>2, CountOK, Zenon
  <2>3. CASE ~InitiateInsert(t) /\ ~ReceiveInsert(t) /\ ~InitiateCount(t) /\ ~ReceiveCount(t)
    <3>1. \A u \in Tasks \ {t} : pc'[u] = pc[u]
      BY <1>1, OthersStay, Zenon
    <3>2. pc'[t] \notin Counted
      BY <1>1, <2>3, InsertsAreCounted, Zenon
    <3>3. Inserting' \subseteq Inserting
      BY <3>1, <3>2, Zenon DEF Inserting, Counted
    <3> QED
      BY <1>1, <2>3, <3>3, MapsShrink, BoundShrinks, Zenon
  <2> QED
    BY <2>1, <2>2, <2>3, Zenon
<1>2. ASSUME NEW t \in Tasks, Begin(t) PROVE PendingBounded'
  <2>1. Inserting' \subseteq Inserting
    BY <1>2, BeginShape, Zenon DEF Inserting, Counted
  <2> QED
    BY <1>2, <2>1, BeginShape, BoundShrinks, Zenon DEF Has
<1>3. ASSUME NEW d \in Devices, Expire(d) PROVE PendingBounded'
  <2>1. Has(outgoing)' \subseteq Has(outgoing) /\ Has(incoming)' \subseteq Has(incoming)
    BY <1>3, Zenon DEF Expire, DataOK, Has
  <2> QED
    BY <1>3, <2>1, BoundShrinks, Zenon DEF Expire, Inserting
<1>4. CASE Crash
  BY <1>4, BoundShrinks, Zenon DEF Crash, Has, Inserting
<1>5. CASE UNCHANGED vars
  BY <1>5, BoundShrinks, Zenon DEF vars, Has, Inserting
<1> QED
  BY <1>1, <1>2, <1>3, <1>4, <1>5, Zenon DEF Next

\* The bound holds when the handler is created.
LEMMA BoundInit == Init => PendingBounded
<1> SUFFICES ASSUME Init PROVE PendingBounded
  BY Zenon
<1>1. Has(outgoing) = {} /\ Has(incoming) = {} /\ Inserting \subseteq Tasks
  BY Zenon DEF Init, Has, Inserting
<1>2. Inserting = {}
  BY Zenon DEF Init, Inserting
<1>3. Cardinality({}) = 0 /\ Cardinality(Tasks) \in Nat
  BY PairingAssumption, FS_EmptySet, FS_CardinalityType, Zenon
<1> QED
  BY <1>1, <1>2, <1>3, PairingAssumption DEF PendingBounded, PendingTotal

\* Whatever calls interleave, the pending maps overrun max_pending by less than
\* the number of calls in flight: the count and the insert of initiate_pairing
\* and receive_pair_request_with_cert are separate lock sections.
THEOREM PendingIsBounded == Spec => []PendingBounded
  BY TypeInit, TypeStep, BoundInit, BoundStep, PTL DEF Spec

(***************************************************************************)
(* The paired-devices file.                                                *)
(***************************************************************************)

\* A file that holds the map, or that a save is still going to write.
Good(contents, place) ==
    contents = WholeFile(paired) \/ \E u \in Tasks : disk.fd[u] = place

\* DiskSettles alone is not inductive.  What a save has serialized is the map, as
\* its lock keeps writers out; while a save is under way the .tmp, if there is
\* one, is good; and where it is gone, renamed by another save, the file is.
DiskInv ==
    /\ \A t \in Tasks : disk.fd[t] # "none" <=> pc[t] \in Writing
    /\ \A t \in Tasks : pc[t] \in Writing => disk.json[t] = paired
    /\ Holding # {} => disk.tmp.state = "absent" \/ Good(disk.tmp, "tmp")
    /\ \A t \in Tasks :
          (disk.fd[t] = "gone" \/ pc[t] \in Renaming) /\ disk.tmp.state = "absent"
              => Good(disk.file, "file")
    /\ DiskSettles

\* A step that leaves map and file alone, of a task that is not saving and does
\* not start to write, changes nothing DiskInv speaks of.
LEMMA SavingStays ==
    ASSUME DiskInv, NEW t \in Tasks, pc[t] \notin Saving,
           pc'[t] \notin Writing \cup Renaming,
           \A u \in Tasks \ {t} : pc'[u] = pc[u] /\ loc'[u] = loc[u],
           UNCHANGED <<paired, disk>>
    PROVE  DiskInv'
<1>1. Writing \subseteq Saving /\ Renaming \subseteq Saving
  BY Zenon DEF Saving
<1>2. Holding' = Holding
  BY <1>1, Zenon DEF Holding
<1>3. DiskSettles'
  BY Zenon DEF DiskSettles, DiskInv
<1> QED
  BY <1>1, <1>2, <1>3, ZenonT(30) DEF DiskInv, Good

\* The steps that touch neither the paired map nor the file.
OtherStep(t) ==
    \/ ApiStage(t) \/ ApiAnchor(t) \/ ApiSend(t) \/ ApiRefused(t)
    \/ InitiatePaired(t) \/ InitiateCount(t) \/ InitiateInsert(t) \/ InitiateStage(t)
    \/ StatePaired(t) \/ StateOutgoing(t) \/ StateIncoming(t) \/ AcceptedStage(t)
    \/ ReceivePaired(t) \/ ReceiveOutgoing(t) \/ ReceiveStage(t) \/ ReceiveIncoming(t)
    \/ ReceiveCount(t) \/ ReceiveInsert(t) \/ ReceiveStageNew(t) \/ ReceiveMutual(t)
    \/ SweepOutgoing(t) \/ SweepIncoming(t) \/ SweepCount(t) \/ SweepCerts(t)
    \/ AcceptOutgoing(t) \/ AcceptIncoming(t) \/ AcceptDrop(t) \/ AcceptTake(t)
    \/ AcceptStore(t) \/ AcceptPin(t) \/ UnpairCert(t)
    \/ RejectCert(t) \/ RejectOutgoing(t) \/ RejectIncoming(t)

\* The others are those of save_to_disk and the writers of the map.
LEMMA StepKinds ==
    ASSUME NEW t \in Tasks, Step(t)
    PROVE  \/ AcceptSave(t) \/ UnpairSave(t) \/ AcceptWrite(t) \/ UnpairWrite(t)
           \/ AcceptRename(t) \/ UnpairRename(t)
           \/ AcceptPaired(t) \/ (UnpairPaired(t) /\ Dev(t) \in paired) \/ UnpairDelete(t)
           \/ UnpairPaired(t) /\ Dev(t) \notin paired
           \/ OtherStep(t)
BY Zenon DEF Step, OtherStep

\* They are not steps of a call that saves, and start no write.
LEMMA OnlySavesSave ==
    ASSUME ControlOK, NEW t \in Tasks, OtherStep(t)
    PROVE  /\ pc[t] \notin Saving /\ UNCHANGED <<paired, disk>>
           /\ pc'[t] \notin Writing \cup Renaming
<1>0. loc[t] \in Locals /\ RetOK(pc[t], loc[t].ret) /\ pc \in [Tasks -> PCs]
  BY Zenon DEF ControlOK
<1> USE <1>0 DEF At, Saving, Writing, Renaming
<1>1. CASE ApiStage(t) \/ ApiAnchor(t) \/ ApiSend(t) \/ ApiRefused(t)
  <2>1. pc[t] \notin Saving /\ UNCHANGED <<paired, disk>>
    BY <1>1, ZenonT(30) DEF ApiStage, ApiAnchor, ApiSend, ApiRefused
  <2>2. pc'[t] \notin Writing \cup Renaming
    BY <1>1, SMTT(30) DEF ApiStage, ApiAnchor, ApiSend, ApiRefused,
       Goto, Done, Call
  <2> QED BY <2>1, <2>2, Zenon
<1>2. CASE InitiatePaired(t) \/ InitiateCount(t) \/ InitiateInsert(t) \/ InitiateStage(t)
  <2>1. pc[t] \notin Saving /\ UNCHANGED <<paired, disk>>
    BY <1>2, ZenonT(30) DEF InitiatePaired, InitiateCount, InitiateInsert, InitiateStage
  <2>2. pc'[t] \notin Writing \cup Renaming
    BY <1>2, SMTT(30) DEF InitiatePaired, InitiateCount, InitiateInsert, InitiateStage,
       Goto, Done
  <2> QED BY <2>1, <2>2, Zenon
<1>3. CASE StatePaired(t) \/ StateOutgoing(t) \/ StateIncoming(t) \/ AcceptedStage(t)
  <2>1. pc[t] \notin Saving /\ UNCHANGED <<paired, disk>>
    BY <1>3, ZenonT(30) DEF StatePaired, StateOutgoing, StateIncoming, AcceptedStage
  <2>2. pc'[t] \notin Writing \cup Renaming
    BY <1>3, SMTT(30) DEF StatePaired, StateOutgoing, StateIncoming, AcceptedStage,
       Goto, Done, Call, NotRequested
  <2> QED BY <2>1, <2>2, Zenon
<1>4. CASE ReceivePaired(t) \/ ReceiveOutgoing(t) \/ ReceiveStage(t) \/ ReceiveIncoming(t)
  <2>1. pc[t] \notin Saving /\ UNCHANGED <<paired, disk>>
    BY <1>4, ZenonT(30) DEF ReceivePaired, ReceiveOutgoing, ReceiveStage, ReceiveIncoming
  <2>2. pc'[t] \notin Writing \cup Renaming
    BY <1>4, SMTT(30) DEF ReceivePaired, ReceiveOutgoing, ReceiveStage, ReceiveIncoming,
       Goto, Call
  <2> QED BY <2>1, <2>2, Zenon
<1>5. CASE ReceiveCount(t) \/ ReceiveInsert(t) \/ ReceiveStageNew(t) \/ ReceiveMutual(t)
  <2>1. pc[t] \notin Saving /\ UNCHANGED <<paired, disk>>
    BY <1>5, ZenonT(30) DEF ReceiveCount, ReceiveInsert, ReceiveStageNew, ReceiveMutual
  <2>2. pc'[t] \notin Writing \cup Renaming
    BY <1>5, SMTT(30) DEF ReceiveCount, ReceiveInsert, ReceiveStageNew, ReceiveMutual,
       Goto, Done, Call
  <2> QED BY <2>1, <2>2, Zenon
<1>6. CASE SweepOutgoing(t) \/ SweepIncoming(t) \/ SweepCount(t) \/ SweepCerts(t)
  <2>1. pc[t] \notin Saving /\ UNCHANGED <<paired, disk>>
    BY <1>6, ZenonT(30) DEF SweepOutgoing, SweepIncoming, SweepCount, SweepCerts
  <2>2. pc'[t] \notin Writing \cup Renaming
    BY <1>6, SMTT(30) DEF SweepOutgoing, SweepIncoming, SweepCount, SweepCerts,
       Goto, EndSweep, RetOK, SweepPCs
  <2> QED BY <2>1, <2>2, Zenon
<1>7. CASE AcceptOutgoing(t) \/ AcceptIncoming(t) \/ AcceptDrop(t) \/ AcceptTake(t)
  <2>1. pc[t] \notin Saving /\ UNCHANGED <<paired, disk>>
    BY <1>7, ZenonT(30) DEF AcceptOutgoing, AcceptIncoming, AcceptDrop, AcceptTake
  <2>2. pc'[t] \notin Writing \cup Renaming
    BY <1>7, SMTT(30) DEF AcceptOutgoing, AcceptIncoming, AcceptDrop, AcceptTake,
       Goto, Refuse, Done
  <2> QED BY <2>1, <2>2, Zenon
<1>8. CASE AcceptStore(t) \/ AcceptPin(t)
  <2>1. pc[t] \notin Saving /\ UNCHANGED <<paired, disk>>
    BY <1>8, ZenonT(30) DEF AcceptStore, AcceptPin
  <2>2. pc'[t] \notin Writing \cup Renaming
    BY <1>8, SMTT(30) DEF AcceptStore, AcceptPin,
       Goto, Refuse, Done
  <2> QED BY <2>1, <2>2, Zenon
<1>9. CASE UnpairCert(t)
  <2>1. pc[t] \notin Saving /\ UNCHANGED <<paired, disk>>
    BY <1>9, ZenonT(30) DEF UnpairCert
  <2>2. pc'[t] \notin Writing \cup Renaming
    BY <1>9, SMTT(30) DEF UnpairCert,
       Goto
  <2> QED BY <2>1, <2>2, Zenon
<1>10. CASE RejectCert(t) \/ RejectOutgoing(t) \/ RejectIncoming(t)
  <2>1. pc[t] \notin Saving /\ UNCHANGED <<paired, disk>>
    BY <1>10, ZenonT(30) DEF RejectCert, RejectOutgoing, RejectIncoming
  <2>2. pc'[t] \notin Writing \cup Renaming
    BY <1>10, SMTT(30) DEF RejectCert, RejectOutgoing, RejectIncoming,
       Goto, Done
  <2> QED BY <2>1, <2>2, Zenon
<1> QED
  BY <1>1, <1>2, <1>3, <1>4, <1>5, <1>6, <1>7, <1>8, <1>9, <1>10, Zenon DEF OtherStep

\* A call starts at one of four labels.
LEMMA BeginPC ==
    ASSUME ControlOK, NEW t \in Tasks, Begin(t)
    PROVE  /\ pc[t] = "idle" /\ pc'[t] \in {"apiStage", "swOut", "psPaired", "upCert"}
           /\ fp' = fp
<1>1. PICK d \in Devices : ApiPair(t, d) \/ PairPacket(t, d) \/ ApiUnpair(t, d)
  BY Zenon DEF Begin
<1> USE DEF ControlOK, Start, At
<1>2. CASE ApiPair(t, d)
  BY <1>2, Zenon DEF ApiPair
<1>3. CASE PairPacket(t, d)
  BY <1>3, Zenon DEF PairPacket
<1>4. CASE ApiUnpair(t, d)
  BY <1>4, Zenon DEF ApiUnpair
<1> QED BY <1>1, <1>2, <1>3, <1>4, Zenon

\* Only the check of store_peer_certificate leads to the write of a pin, and only
\* that write and unpair change one.
LEMMA OnlyStorePins ==
    ASSUME ControlOK, NEW t \in Tasks, Step(t), ~AcceptPin(t), ~AcceptStore(t), ~UnpairDelete(t)
    PROVE  fp' = fp /\ pc'[t] # "acPin"
<1>0. loc[t] \in Locals /\ RetOK(pc[t], loc[t].ret) /\ pc \in [Tasks -> PCs]
  BY Zenon DEF ControlOK
<1> USE <1>0 DEF At
<1>1. CASE ApiStage(t) \/ ApiAnchor(t) \/ ApiSend(t) \/ ApiRefused(t)
  BY <1>1, SMTT(30) DEF ApiStage, ApiAnchor, ApiSend, ApiRefused,
     Goto, Done, Call
<1>2. CASE InitiatePaired(t) \/ InitiateCount(t) \/ InitiateInsert(t) \/ InitiateStage(t)
  BY <1>2, SMTT(30) DEF InitiatePaired, InitiateCount, InitiateInsert, InitiateStage,
     Goto, Done
<1>3. CASE StatePaired(t) \/ StateOutgoing(t) \/ StateIncoming(t) \/ AcceptedStage(t)
  BY <1>3, SMTT(30) DEF StatePaired, StateOutgoing, StateIncoming, AcceptedStage,
     Goto, Done, Call, NotRequested
<1>4. CASE ReceivePaired(t) \/ ReceiveOutgoing(t) \/ ReceiveStage(t) \/ ReceiveIncoming(t)
  BY <1>4, SMTT(30) DEF ReceivePaired, ReceiveOutgoing, ReceiveStage, ReceiveIncoming,
     Goto, Call
<1>5. CASE ReceiveCount(t) \/ ReceiveInsert(t) \/ ReceiveStageNew(t) \/ ReceiveMutual(t)
  BY <1>5, SMTT(30) DEF ReceiveCount, ReceiveInsert, ReceiveStageNew, ReceiveMutual,
     Goto, Done, Call
<1>6. CASE SweepOutgoing(t) \/ SweepIncoming(t) \/ SweepCount(t) \/ SweepCerts(t)
  BY <1>6, SMTT(30) DEF SweepOutgoing, SweepIncoming, SweepCount, SweepCerts,
     Goto, EndSweep, RetOK, SweepPCs
<1>7. CASE AcceptOutgoing(t) \/ AcceptIncoming(t) \/ AcceptDrop(t) \/ AcceptTake(t)
  BY <1>7, SMTT(30) DEF AcceptOutgoing, AcceptIncoming, AcceptDrop, AcceptTake,
     Goto, Refuse, Done
<1>8. CASE AcceptPaired(t) \/ AcceptSave(t) \/ AcceptWrite(t) \/ AcceptRename(t)
  BY <1>8, SMTT(30) DEF AcceptPaired, AcceptSave, AcceptWrite, AcceptRename,
     Goto, Accepted, Return, Done, Call, RetOK, AcceptPCs
<1>9. CASE UnpairCert(t) \/ UnpairPaired(t) \/ UnpairSave(t) \/ UnpairWrite(t) \/ UnpairRename(t)
  BY <1>9, SMTT(30) DEF UnpairCert, UnpairPaired, UnpairSave, UnpairWrite, UnpairRename,
     Goto, Return, Done, Call, RetOK, UnpairPCs
<1>10. CASE RejectCert(t) \/ RejectOutgoing(t) \/ RejectIncoming(t)
  BY <1>10, SMTT(30) DEF RejectCert, RejectOutgoing, RejectIncoming,
     Goto, Done
<1> QED
  BY <1>1, <1>2, <1>3, <1>4, <1>5, <1>6, <1>7, <1>8, <1>9, <1>10, Zenon DEF Step

\* What the three file operations do to file, .tmp and handles.
LEMMA SaveDoes ==
    ASSUME DataOK, NEW t \in Tasks
    PROVE  /\ SaveOpen(t) => /\ disk'.file = disk.file /\ disk'.tmp = TornFile
                             /\ disk'.fd = [disk.fd EXCEPT ![t] = "tmp"]
                             /\ disk'.json = [disk.json EXCEPT ![t] = paired]
           /\ SaveWrite(t) =>
                 /\ disk'.tmp = IF disk.fd[t] = "tmp" THEN WholeFile(disk.json[t]) ELSE disk.tmp
                 /\ disk'.file = IF disk.fd[t] = "file" THEN WholeFile(disk.json[t])
                                 ELSE disk.file
                 /\ disk'.fd = [disk.fd EXCEPT ![t] = "none"]
                 /\ disk'.json = [disk.json EXCEPT ![t] = {}]
BY Zenon DEF DataOK, Disks, SaveOpen, SaveWrite

\* A rename that finds the .tmp moves it and every handle on it.
LEMMA RenameDoes ==
    ASSUME DataOK, SaveRename, "save" \notin Faults
    PROVE  \/ /\ disk.tmp.state # "absent"
              /\ disk'.file = disk.tmp /\ disk'.tmp = NoFile /\ disk'.json = disk.json
              /\ \A u \in Tasks :
                    /\ disk.fd[u] = "tmp" => disk'.fd[u] = "file"
                    /\ disk.fd[u] = "file" => disk'.fd[u] = "gone"
                    /\ disk.fd[u] \in {"none", "gone"} => disk'.fd[u] = disk.fd[u]
           \/ disk.tmp.state = "absent" /\ disk' = disk
<1>1. CASE disk.tmp.state # "absent"
  <2> DEFINE moved == [u \in Tasks |-> CASE disk.fd[u] = "tmp" -> "file"
                                         [] disk.fd[u] = "file" -> "gone"
                                         [] OTHER -> disk.fd[u]]
  <2>1. disk' = [disk EXCEPT !.file = disk.tmp, !.tmp = NoFile, !.fd = moved]
    BY <1>1, Zenon DEF SaveRename
  <2>2. \A u \in Tasks : /\ disk.fd[u] = "tmp" => moved[u] = "file"
                         /\ disk.fd[u] = "file" => moved[u] = "gone"
                         /\ disk.fd[u] \in {"none", "gone"} => moved[u] = disk.fd[u]
    BY SMT
  <2> HIDE DEF moved
  <2>3. /\ disk'.file = disk.tmp /\ disk'.tmp = NoFile /\ disk'.json = disk.json
        /\ disk'.fd = moved
    BY <2>1, Zenon DEF DataOK, Disks
  <2> QED BY <1>1, <2>2, <2>3, Zenon
<1>2. CASE disk.tmp.state = "absent"
  BY <1>2, Zenon DEF SaveRename
<1> QED BY <1>1, <1>2, Zenon

\* Where the calls of save_to_disk stand before and after each operation.
LEMMA SaveMoves ==
    ASSUME ControlOK, NEW t \in Tasks, "save" \notin Faults
    PROVE  /\ AcceptSave(t) \/ UnpairSave(t)
                 => /\ SaveOpen(t) /\ UNCHANGED paired /\ loc'[t] = loc[t]
                    /\ pc[t] \in {"acSave", "upSave"} /\ pc'[t] \in Writing
           /\ AcceptWrite(t) \/ UnpairWrite(t)
                 => /\ SaveWrite(t) /\ UNCHANGED paired /\ loc'[t] = loc[t]
                    /\ pc[t] \in Writing /\ pc'[t] \in Renaming
           /\ AcceptRename(t) \/ UnpairRename(t)
                 => /\ SaveRename /\ UNCHANGED paired
                    /\ pc[t] \in Renaming /\ pc'[t] \in {"idle", "swOut", "rMutual"}
<1> USE DEF ControlOK, Writing, Renaming, At, Goto
<1>1. ASSUME AcceptSave(t) \/ UnpairSave(t)
      PROVE  /\ SaveOpen(t) /\ UNCHANGED paired /\ loc'[t] = loc[t]
             /\ pc[t] \in {"acSave", "upSave"} /\ pc'[t] \in Writing
  BY <1>1, Zenon DEF AcceptSave, UnpairSave, SaveFails
<1>2. ASSUME AcceptWrite(t) \/ UnpairWrite(t)
      PROVE  /\ SaveWrite(t) /\ UNCHANGED paired /\ loc'[t] = loc[t]
             /\ pc[t] \in Writing /\ pc'[t] \in Renaming
  BY <1>2, Zenon DEF AcceptWrite, UnpairWrite, SaveFails
<1>3. ASSUME AcceptRename(t) \/ UnpairRename(t)
      PROVE  /\ SaveRename /\ UNCHANGED paired
             /\ pc[t] \in Renaming /\ pc'[t] \in {"idle", "swOut", "rMutual"}
  <2>1. /\ SaveRename /\ UNCHANGED paired /\ pc[t] \in Renaming
        /\ Accepted(t) \/ Return(t)
    BY <1>3, Zenon DEF AcceptRename, UnpairRename
  <2>2. loc[t].ret \in {"idle", "swOut", "rMutual", "apiDone"}
    BY <2>1, Zenon DEF RetOK, AcceptPCs, UnpairPCs
  <2>3. UnpairRename(t) => loc[t].ret # "apiDone"
    BY Zenon DEF UnpairRename, RetOK, UnpairPCs
  <2>4. pc'[t] \in {"idle", "swOut", "rMutual"}
    BY <1>3, <2>2, <2>3, Zenon DEF AcceptRename, UnpairRename, Accepted, Return, Done, Call
  <2> QED BY <2>1, <2>4, Zenon
<1> QED BY <1>1, <1>2, <1>3, Zenon

\* A save that opens the .tmp.
LEMMA OpenStep ==
    ASSUME DataOK, ControlOK, DiskInv, NEW t \in Tasks, "save" \notin Faults,
           AcceptSave(t) \/ UnpairSave(t),
           \A u \in Tasks \ {t} : pc'[u] = pc[u] /\ loc'[u] = loc[u]
    PROVE  DiskInv'
<1>1. /\ SaveOpen(t) /\ UNCHANGED paired /\ loc'[t] = loc[t]
      /\ pc[t] \in {"acSave", "upSave"} /\ pc'[t] \in Writing
  BY SaveMoves, Zenon
<1>2. /\ disk'.file = disk.file /\ disk'.tmp = TornFile
      /\ disk'.fd = [disk.fd EXCEPT ![t] = "tmp"]
      /\ disk'.json = [disk.json EXCEPT ![t] = paired]
  BY <1>1, SaveDoes, Zenon
<1>3. /\ disk'.fd[t] = "tmp" /\ disk'.json[t] = paired'
      /\ \A u \in Tasks \ {t} : disk'.fd[u] = disk.fd[u] /\ disk'.json[u] = disk.json[u]
  BY <1>1, <1>2, Zenon DEF DataOK, Disks
<1>4. TornFile.state # "absent" /\ pc'[t] \in Saving
  BY <1>1, Zenon DEF TornFile, Saving
<1>5. \A u \in Tasks : disk'.fd[u] # "none" <=> pc'[u] \in Writing
  BY <1>1, <1>3, Zenon DEF DiskInv
<1>6. \A u \in Tasks : pc'[u] \in Writing => disk'.json[u] = paired'
  BY <1>1, <1>3, Zenon DEF DiskInv
<1>7. disk.fd[t] = "none"
  BY <1>1, Zenon DEF DiskInv, Writing
<1>8. DiskSettles'
  <2> SUFFICES ASSUME NEW d \in Devices
               PROVE  \/ d \in disk'.file.map <=> d \in paired'
                      \/ \E u \in Tasks : pc'[u] \in Saving /\ loc'[u].dev = d
                      \/ \E u \in Tasks : disk'.fd[u] = "file"
    BY Zenon DEF DiskSettles
  <2>1. CASE d \in disk.file.map <=> d \in paired
    BY <1>1, <1>2, <2>1, Zenon
  <2>2. CASE \E u \in Tasks : pc[u] \in Saving /\ loc[u].dev = d
    BY <1>1, <1>4, <2>2, Zenon
  <2>3. CASE \E u \in Tasks : disk.fd[u] = "file"
    BY <1>3, <1>7, <2>3, Zenon
  <2> QED BY <2>1, <2>2, <2>3, Zenon DEF DiskInv, DiskSettles
<1> QED
  <2>1. disk'.tmp.state # "absent" /\ Good(disk.tmp, "tmp")'
    BY <1>2, <1>3, <1>4, Zenon DEF Good
  <2> QED BY <1>5, <1>6, <1>8, <2>1, Zenon DEF DiskInv

\* A save that writes its file, wherever that is now.
LEMMA WriteStep ==
    ASSUME DataOK, ControlOK, DiskInv, NEW t \in Tasks, "save" \notin Faults,
           AcceptWrite(t) \/ UnpairWrite(t),
           \A u \in Tasks \ {t} : pc'[u] = pc[u] /\ loc'[u] = loc[u]
    PROVE  DiskInv'
<1>1. /\ SaveWrite(t) /\ UNCHANGED paired /\ loc'[t] = loc[t]
      /\ pc[t] \in Writing /\ pc'[t] \in Renaming
  BY SaveMoves, Zenon
<1>2. disk.json[t] = paired /\ disk.fd[t] # "none"
  BY <1>1, Zenon DEF DiskInv
<1>3. /\ disk'.tmp = IF disk.fd[t] = "tmp" THEN WholeFile(paired') ELSE disk.tmp
      /\ disk'.file = IF disk.fd[t] = "file" THEN WholeFile(paired') ELSE disk.file
      /\ disk'.fd = [disk.fd EXCEPT ![t] = "none"]
      /\ disk'.json = [disk.json EXCEPT ![t] = {}]
  BY <1>1, <1>2, SaveDoes, Zenon
<1>4. /\ disk'.fd[t] = "none"
      /\ \A u \in Tasks \ {t} : disk'.fd[u] = disk.fd[u] /\ disk'.json[u] = disk.json[u]
  BY <1>3, Zenon DEF DataOK, Disks
<1>5. pc'[t] \notin Writing /\ pc'[t] \in Saving /\ t \in Holding /\ t \in Holding'
  BY <1>1, Zenon DEF Writing, Renaming, Saving, Holding
<1>6. \A u \in Tasks : disk'.fd[u] # "none" <=> pc'[u] \in Writing
  BY <1>4, <1>5, Zenon DEF DiskInv
<1>7. \A u \in Tasks : pc'[u] \in Writing => disk'.json[u] = paired'
  BY <1>1, <1>4, <1>5, Zenon DEF DiskInv
<1>8. disk'.tmp.state = "absent" \/ Good(disk.tmp, "tmp")'
  <2>1. CASE disk.fd[t] = "tmp"
    BY <1>3, <2>1, Zenon DEF Good
  <2>2. CASE disk.fd[t] # "tmp"
    BY <1>1, <1>3, <1>4, <1>5, <2>2, ZenonT(30) DEF DiskInv, Good
  <2> QED BY <2>1, <2>2, Zenon
<1>9. disk'.tmp.state = "absent" => Good(disk.file, "file")'
  <2>1. CASE disk.fd[t] = "tmp"
    <3>1. disk'.tmp = WholeFile(paired') /\ WholeFile(paired').state # "absent"
      BY <1>3, <2>1, Zenon DEF WholeFile
    <3> QED BY <3>1, Zenon
  <2>2. CASE disk.fd[t] = "file"
    BY <1>3, <2>2, Zenon DEF Good
  <2>3. CASE disk.fd[t] = "gone"
    BY <1>1, <1>3, <1>4, <2>3, ZenonT(30) DEF DiskInv, Good
  <2> QED BY <1>2, <2>1, <2>2, <2>3, Zenon DEF DataOK, Disks, Places
<1>10. DiskSettles'
  <2>1. CASE disk.fd[t] = "file"
    <3>1. disk'.file = WholeFile(paired') /\ WholeFile(paired').map = paired'
      BY <1>3, <2>1, Zenon DEF WholeFile
    <3> QED BY <3>1, Zenon DEF DiskSettles
  <2>2. CASE disk.fd[t] # "file"
    <3> SUFFICES ASSUME NEW d \in Devices
                 PROVE  \/ d \in disk'.file.map <=> d \in paired'
                        \/ \E u \in Tasks : pc'[u] \in Saving /\ loc'[u].dev = d
                        \/ \E u \in Tasks : disk'.fd[u] = "file"
      BY Zenon DEF DiskSettles
    <3>1. CASE d \in disk.file.map <=> d \in paired
      BY <1>1, <1>3, <2>2, <3>1, Zenon
    <3>2. CASE \E u \in Tasks : pc[u] \in Saving /\ loc[u].dev = d
      BY <1>1, <1>5, <3>2, Zenon
    <3>3. CASE \E u \in Tasks : disk.fd[u] = "file"
      BY <1>4, <2>2, <3>3, Zenon
    <3> QED BY <3>1, <3>2, <3>3, Zenon DEF DiskInv, DiskSettles
  <2> QED BY <2>1, <2>2, Zenon
<1> QED
  BY <1>6, <1>7, <1>8, <1>9, <1>10, Zenon DEF DiskInv

\* A rename ends a save: file or .tmp was good, so the file is.
LEMMA RenameStep ==
    ASSUME DataOK, ControlOK, DiskInv, NEW t \in Tasks, "save" \notin Faults,
           AcceptRename(t) \/ UnpairRename(t),
           \A u \in Tasks \ {t} : pc'[u] = pc[u] /\ loc'[u] = loc[u]
    PROVE  DiskInv'
<1>1. /\ SaveRename /\ UNCHANGED paired
      /\ pc[t] \in Renaming /\ pc'[t] \in {"idle", "swOut", "rMutual"}
  BY SaveMoves, Zenon
<1>2. /\ t \in Holding /\ pc[t] \notin Writing
      /\ pc'[t] \notin Writing /\ pc'[t] \notin Renaming
  BY <1>1, Zenon DEF Holding, Writing, Renaming
<1>3. \/ /\ disk.tmp.state # "absent"
         /\ disk'.file = disk.tmp /\ disk'.tmp = NoFile /\ disk'.json = disk.json
         /\ \A u \in Tasks :
               /\ disk.fd[u] = "tmp" => disk'.fd[u] = "file"
               /\ disk.fd[u] = "file" => disk'.fd[u] = "gone"
               /\ disk.fd[u] \in {"none", "gone"} => disk'.fd[u] = disk.fd[u]
      \/ disk.tmp.state = "absent" /\ disk' = disk
  BY <1>1, RenameDoes, Zenon
<1>4. \A u \in Tasks : disk.fd[u] \in {"none", "tmp", "file", "gone"}
  BY Zenon DEF DataOK, Disks, Places
<1>5. \A u \in Tasks : disk'.fd[u] # "none" <=> disk.fd[u] # "none"
  BY <1>3, <1>4, Zenon
<1>6. \A u \in Tasks : disk'.fd[u] # "none" <=> pc'[u] \in Writing
  BY <1>2, <1>5, Zenon DEF DiskInv
<1>7. \A u \in Tasks : pc'[u] \in Writing => disk'.json[u] = paired'
  BY <1>1, <1>2, <1>3, Zenon DEF DiskInv
<1>8. disk'.tmp.state = "absent"
  <2>1. NoFile.state = "absent"
    BY Zenon DEF NoFile
  <2> QED BY <1>3, <2>1, Zenon
<1>9. Good(disk.file, "file")'
  <2>1. CASE disk.tmp.state # "absent"
    <3>1. disk'.file = disk.tmp /\ \A u \in Tasks : disk.fd[u] = "tmp" => disk'.fd[u] = "file"
      BY <1>3, <2>1, Zenon
    <3>2. Good(disk.tmp, "tmp")
      BY <1>2, <2>1, Zenon DEF DiskInv
    <3> QED BY <1>1, <3>1, <3>2, Zenon DEF Good
  <2>2. CASE disk.tmp.state = "absent"
    <3>1. disk' = disk /\ Good(disk.file, "file")
      BY <1>1, <1>3, <2>2, Zenon DEF DiskInv
    <3> QED BY <1>1, <3>1, Zenon DEF Good
  <2> QED BY <2>1, <2>2, Zenon
<1>10. DiskSettles'
  <2>1. CASE disk'.file = WholeFile(paired')
    <3>1. WholeFile(paired').map = paired'
      BY Zenon DEF WholeFile
    <3> QED BY <2>1, <3>1, Zenon DEF DiskSettles
  <2>2. CASE \E u \in Tasks : disk'.fd[u] = "file"
    BY <2>2, Zenon DEF DiskSettles
  <2> QED BY <1>9, <2>1, <2>2, Zenon DEF Good
<1> QED
  BY <1>6, <1>7, <1>8, <1>9, <1>10, Zenon DEF DiskInv

\* A change of the paired map: no save is under way, and the call will save.
LEMMA MapStep ==
    ASSUME DataOK, ControlOK, DiskInv, NEW t \in Tasks,
           AcceptPaired(t) \/ (UnpairPaired(t) /\ Dev(t) \in paired) \/ UnpairDelete(t),
           \A u \in Tasks \ {t} : pc'[u] = pc[u] /\ loc'[u] = loc[u]
    PROVE  DiskInv'
<1>1. /\ pc'[t] \in Saving \ (Writing \cup Renaming) /\ loc'[t] = loc[t] /\ disk' = disk
      /\ pc[t] \notin Writing \cup Renaming
      /\ \A d \in Devices \ {loc[t].dev} : (d \in paired') = (d \in paired)
  BY SMTT(30) DEF ControlOK, AcceptPaired, UnpairPaired, UnpairDelete, Goto, Saving, Dev, At,
                  Writing, Renaming
<1>2. paired' = paired \/ Holding = {}
  BY Zenon DEF AcceptPaired, UnpairPaired, UnpairDelete
<1>3. DiskSettles'
  <2> SUFFICES ASSUME NEW d \in Devices
               PROVE  \/ d \in disk'.file.map <=> d \in paired'
                      \/ \E u \in Tasks : pc'[u] \in Saving /\ loc'[u].dev = d
                      \/ \E u \in Tasks : disk'.fd[u] = "file"
    BY Zenon DEF DiskSettles
  <2>1. CASE d = loc[t].dev
    BY <1>1, <2>1, Zenon
  <2>2. CASE d # loc[t].dev /\ (d \in disk.file.map <=> d \in paired)
    BY <1>1, <2>2, SMT
  <2>3. CASE \E u \in Tasks : pc[u] \in Saving /\ loc[u].dev = d
    BY <1>1, <2>3, Zenon
  <2>4. CASE \E u \in Tasks : disk.fd[u] = "file"
    BY <1>1, <2>4, Zenon
  <2> QED BY <2>1, <2>2, <2>3, <2>4, Zenon DEF DiskInv, DiskSettles
<1>4. CASE Holding = {}
  <2>1. \A u \in Tasks : /\ pc[u] \notin Writing /\ pc[u] \notin Renaming
                         /\ pc'[u] \notin Writing /\ pc'[u] \notin Renaming
    BY <1>1, <1>4, Zenon DEF Holding
  <2>2. \A u \in Tasks : disk'.fd[u] = "none"
    BY <1>1, <2>1, Zenon DEF DiskInv
  <2>3. Holding' = {}
    BY <2>1, Zenon DEF Holding
  <2> QED BY <1>3, <2>1, <2>2, <2>3, Zenon DEF DiskInv
<1>5. CASE paired' = paired
  <2>1. Holding' = Holding
    BY <1>1, Zenon DEF Holding
  <2> QED BY <1>1, <1>3, <1>5, <2>1, ZenonT(30) DEF DiskInv, Good
<1> QED BY <1>2, <1>4, <1>5, Zenon

\* Every step of the handler keeps file and memory in agreement.
LEMMA DiskStep ==
    ASSUME "save" \notin Faults, DataOK, ControlOK, DiskInv, [Next]_vars
    PROVE  DiskInv'
<1>1. ASSUME NEW t \in Tasks, Step(t) PROVE DiskInv'
  <2>0. \A u \in Tasks \ {t} : pc'[u] = pc[u] /\ loc'[u] = loc[u]
    BY <1>1, OthersStay, ZenonT(30)
  <2>1. CASE AcceptSave(t) \/ UnpairSave(t)
    BY <2>0, <2>1, OpenStep, Zenon
  <2>2. CASE AcceptWrite(t) \/ UnpairWrite(t)
    BY <2>0, <2>2, WriteStep, Zenon
  <2>3. CASE AcceptRename(t) \/ UnpairRename(t)
    BY <2>0, <2>3, RenameStep, Zenon
  <2>4. CASE AcceptPaired(t) \/ (UnpairPaired(t) /\ Dev(t) \in paired) \/ UnpairDelete(t)
    BY <2>0, <2>4, MapStep, Zenon
  <2>5. CASE UnpairPaired(t) /\ Dev(t) \notin paired
    <3>1. pc[t] \notin Saving /\ UNCHANGED disk /\ paired' = paired /\ Return(t)
      BY <2>5, SMTT(30) DEF UnpairPaired, At, Saving, Writing, Renaming
    <3>2. pc'[t] \notin Writing \cup Renaming
      BY <2>5, <3>1, SMTT(30) DEF UnpairPaired, ControlOK, RetOK, UnpairPCs, At, Return, Done,
                                  Call, Goto, Writing, Renaming
    <3> QED
      BY <2>0, <3>1, <3>2, SavingStays, Zenon
  <2>6. CASE OtherStep(t)
    BY <2>0, <2>6, OnlySavesSave, SavingStays, ZenonT(30)
  <2> QED
    BY <1>1, <2>1, <2>2, <2>3, <2>4, <2>5, <2>6, StepKinds, Zenon
<1>2. ASSUME NEW t \in Tasks, Begin(t) PROVE DiskInv'
  <2>1. /\ pc[t] = "idle" /\ pc'[t] \in {"apiStage", "swOut", "psPaired", "upCert"}
        /\ UNCHANGED <<paired, disk>>
        /\ \A u \in Tasks \ {t} : pc'[u] = pc[u] /\ loc'[u] = loc[u]
    BY <1>2, BeginShape, BeginPC, Zenon
  <2>2. pc[t] \notin Saving /\ pc'[t] \notin Writing \cup Renaming
    BY <2>1, Zenon DEF Saving, Writing, Renaming
  <2> QED BY <2>1, <2>2, SavingStays, Zenon
<1>3. ASSUME NEW d \in Devices, Expire(d) PROVE DiskInv'
  BY <1>3, Zenon DEF Expire, DiskInv, DiskSettles, Good, Holding
<1>4. CASE Crash
  <2>1. /\ disk'.file = disk.file /\ paired' = disk.file.map
        /\ \A u \in Tasks : disk'.fd[u] = "none" /\ pc'[u] = "idle"
    BY <1>4, Zenon DEF Crash, DataOK, Disks
  <2>2. "idle" \notin Writing /\ "idle" \notin Renaming
    BY Zenon DEF Writing, Renaming
  <2>3. Holding' = {}
    BY <2>1, <2>2, Zenon DEF Holding
  <2>4. DiskSettles'
    BY <2>1, Zenon DEF DiskSettles
  <2> QED BY <2>1, <2>2, <2>3, <2>4, Zenon DEF DiskInv
<1>5. CASE UNCHANGED vars
  BY <1>5, Zenon DEF vars, DiskInv, DiskSettles, Good, Holding
<1> QED
  BY <1>1, <1>2, <1>3, <1>4, <1>5, Zenon DEF Next

\* When saves succeed, the paired-devices file and memory disagree only about
\* devices that a call is pairing or unpairing at that moment, or while a save
\* rewrites a file that was renamed under it, whatever calls interleave and
\* wherever the process crashes: save_to_disk keeps the map's read lock from its
\* snapshot to its rename, so saves that meet at the .tmp carry the same map.
THEOREM DiskAgrees ==
    ASSUME "save" \notin Faults
    PROVE  Spec => []DiskSettles
<1>1. Init => DiskInv
  <2> SUFFICES ASSUME Init PROVE DiskInv
    BY Zenon
  <2>1. /\ disk.file.map = {} /\ \A t \in Tasks : disk.fd[t] = "none" /\ pc[t] = "idle"
    BY Zenon DEF Init, NoFile
  <2>2. "idle" \notin Writing /\ "idle" \notin Renaming
    BY Zenon DEF Writing, Renaming
  <2>3. Holding = {}
    BY <2>1, <2>2, Zenon DEF Holding
  <2> QED BY <2>1, <2>2, <2>3, Zenon DEF Init, DiskInv, DiskSettles
<1>2. DataOK /\ ControlOK /\ DiskInv /\ [Next]_vars => DiskInv'
  BY DiskStep, Zenon
<1>3. DiskInv => DiskSettles
  BY Zenon DEF DiskInv
<1> QED
  BY <1>1, <1>2, <1>3, TypeInit, TypeStep, PTL DEF Spec

(***************************************************************************)
(* Pins.                                                                   *)
(***************************************************************************)

\* Whatever calls overlap, crash or fail: a pin that no accept is about to write
\* stays until unpair deletes it.  store_peer_certificate lets no call past its
\* check while a pin stands.
THEOREM PinsSettle == Spec => PinSettles
<1> DEFINE Settled(d) == fp[d] # NoCert /\ Pinning(d) = {}
<1> DEFINE Kept(d) == fp'[d] = NoCert \/ (fp'[d] = fp[d] /\ Pinning(d)' = {})
<1>1. ASSUME DataOK, ControlOK, NEW t \in Tasks, Step(t), NEW d \in Devices, Settled(d)
      PROVE  Kept(d)
  <2>0. /\ \A u \in Tasks \ {t} : pc'[u] = pc[u] /\ loc'[u] = loc[u]
        /\ \A u \in Tasks : ~(pc[u] = "acPin" /\ loc[u].dev = d)
    BY <1>1, OthersStay, Zenon DEF Pinning
  <2>1. CASE AcceptPin(t)
    <3>1. loc[t].dev # d
      BY <2>0, <2>1, Zenon DEF AcceptPin, At
    <3>2. fp'[d] = fp[d] /\ pc'[t] # "acPin"
      BY <1>1, <2>1, <3>1, SMTT(30) DEF AcceptPin, Dev, DataOK, ControlOK, Goto, Refuse, Done
    <3> QED BY <2>0, <3>2, Zenon DEF Pinning
  <2>2. CASE AcceptStore(t)
    <3>1. fp' = fp /\ (pc'[t] = "acPin" => fp[loc[t].dev] = NoCert)
      BY <1>1, <2>2, SMTT(30) DEF AcceptStore, Dev, ControlOK, Goto, Refuse, Done
    <3>2. loc'[t].dev = loc[t].dev \/ pc'[t] # "acPin"
      BY <1>1, <2>2, SMTT(30) DEF AcceptStore, Dev, ControlOK, Goto, Refuse, Done
    <3> QED BY <1>1, <2>0, <3>1, <3>2, Zenon DEF Pinning
  <2>3. CASE UnpairDelete(t)
    <3>1. fp'[d] \in {fp[d], NoCert} /\ pc'[t] # "acPin"
      BY <1>1, <2>3, SMTT(30) DEF UnpairDelete, Dev, DataOK, ControlOK, Goto
    <3> QED BY <2>0, <3>1, Zenon DEF Pinning
  <2>4. CASE ~AcceptPin(t) /\ ~AcceptStore(t) /\ ~UnpairDelete(t)
    <3>1. fp' = fp /\ pc'[t] # "acPin"
      BY <1>1, <2>4, OnlyStorePins, Zenon
    <3> QED BY <2>0, <3>1, Zenon DEF Pinning
  <2> QED BY <2>1, <2>2, <2>3, <2>4, Zenon
<1>2. ASSUME DataOK, ControlOK, [Next]_vars, NEW d \in Devices, Settled(d)
      PROVE  Kept(d)
  <2>1. ASSUME NEW t \in Tasks, Begin(t) PROVE Kept(d)
    <3>1. /\ fp' = fp /\ pc'[t] # "acPin"
          /\ \A u \in Tasks \ {t} : pc'[u] = pc[u] /\ loc'[u] = loc[u]
      <4>1. /\ fp' = fp /\ pc'[t] \in {"apiStage", "swOut", "psPaired", "upCert"}
            /\ \A u \in Tasks \ {t} : pc'[u] = pc[u] /\ loc'[u] = loc[u]
        BY <1>2, <2>1, BeginShape, BeginPC, Zenon
      <4> QED BY <4>1, Zenon
    <3> QED BY <1>2, <3>1, Zenon DEF Pinning
  <2>2. ASSUME NEW e \in Devices, Expire(e) PROVE Kept(d)
    BY <1>2, <2>2, Zenon DEF Expire, Pinning
  <2>3. CASE Crash
    BY <1>2, <2>3, Zenon DEF Crash, Pinning
  <2>4. CASE UNCHANGED vars
    BY <1>2, <2>4, Zenon DEF vars, Pinning
  <2> QED
    BY <1>1, <1>2, <2>1, <2>2, <2>3, <2>4, Zenon DEF Next
<1>3. DataOK /\ ControlOK /\ [Next]_vars => \A d \in Devices : Settled(d) => Kept(d)
  BY <1>2, Zenon
<1> HIDE DEF Settled, Kept
<1>4. [\A d \in Devices : Settled(d) => Kept(d)]_vars
      => [\A d \in Devices : fp[d] # NoCert /\ Pinning(d) = {}
              => fp'[d] = NoCert \/ (fp'[d] = fp[d] /\ Pinning(d)' = {})]_vars
  BY Zenon DEF Settled, Kept
<1> QED
  BY <1>3, <1>4, TypeInit, TypeStep, PTL DEF Spec, PinSettles
=============================================================================
