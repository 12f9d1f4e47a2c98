-------------------------- MODULE CaptureProofs -----------------------------
(***************************************************************************)
(* Theorems about shareinputdevices: the portal session has an owner and   *)
(* hears what it waits for, a session stays armed only for somebody, one   *)
(* session lives at a time, and the barrier follows the desktop.           *)
(***************************************************************************)
EXTENDS InputCapture, PortalSession, Barrier, NaturalsInduction, WellFoundedInduction, TLAPS

-----------------------------------------------------------------------------
(* The capture session (shareinputdevices/mod.rs).                         *)

\* The labels of a task while it holds activation_in_flight.
CapEarly == {"start", "pump", "callback", "store"}
CapLate == {"install", "swap", "recheck", "flag", "count", "post"}
CapActivates(t) == capPc[t] \in CapEarly \cup CapLate \/ (capPc[t] = "leave" /\ capMine[t] # 0)

CapTypes ==
    /\ capOwed \in Nat /\ capEvents \in Nat /\ capLast \in Nat /\ capSlot \in Nat
    /\ capPc \in [CapTasks -> {"idle", "read", "judge", "enter", "leave"} \cup CapEarly \cup CapLate]
    /\ DOMAIN capSaw = CapTasks
    /\ capMine \in [CapTasks -> Nat]
    /\ capPortal \in [CapIds -> {"none", "on", "disabled", "closed"}]
    /\ capSig \in [CapIds -> {"off", "wait", "latch", "done"}]
    /\ capWatch \in [CapIds -> {"off", "wait", "done"}]
    /\ capDown \in [CapActors -> {"no", "rel", "take", "flag"}]
    /\ capGot \in [CapActors -> Nat]

\* One activation at a time, and none has stored its session while the slot is to be
\* filled.
CapOne ==
    /\ \A t, u \in CapTasks : CapActivates(t) /\ CapActivates(u) => t = u
    /\ \A t \in CapTasks : CapActivates(t) => capBusy
    /\ \A t \in CapTasks : capMine[t] # 0 => CapActivates(t)
    /\ \A t \in CapTasks : capPc[t] \in CapEarly => capSlot = 0
    /\ \A t \in CapTasks : capPc[t] = "start" => capMine[t] = 0
    /\ \A t \in CapTasks : capPc[t] \in (CapEarly \ {"start"}) \cup CapLate => capMine[t] # 0

\* A session is watched by one watcher, once, and has one signal handler.
CapFresh ==
    /\ \A s \in CapIds : s > capLast => capSig[s] = "off" /\ capWatch[s] = "off"
    /\ \A t \in CapTasks : capMine[t] # 0 => capMine[t] \in CapIds /\ capMine[t] <= capLast /\ capWatch[capMine[t]] = "off"

\* An actor runs one do_deactivate at a time.
CapDowns ==
    /\ \A t \in CapTasks : capDown[t] # "no" => capPc[t] \in {"leave", "recheck"}
    /\ \A s \in CapIds : capSig[s] # "done" => capDown[<<"sig", s>>] = "no"
    /\ \A s \in CapIds : capWatch[s] # "done" => capDown[<<"ei", s>>] = "no"
    /\ \A a \in CapActors : capGot[a] # 0 => capDown[a] = "flag"

\* A session the portal still has is held by an activation that has not stored it, in
\* the slot, or with an actor about to close it.
CapHeld ==
    \A s \in CapIds : capPortal[s] \in {"on", "disabled"} =>
        \/ \E t \in CapTasks : capMine[t] = s /\ capPc[t] \in CapEarly
        \/ capSlot = s
        \/ \E a \in CapActors : capGot[a] = s

\* A session armed for nobody is about to be looked at.
CapNoticed ==
    capSlot # 0 /\ capPeers = {} =>
        \/ capOwed > 0 \/ capEvents > 0
        \/ capPc[CapLoop] = "read" \/ (capPc[CapLoop] = "judge" /\ capSaw[CapLoop] = {})
        \/ \E a \in CapActors : capDown[a] \in {"rel", "take"}
        \/ \E t \in CapTasks : capPc[t] \in CapLate \ {"post"} \/ (capPc[t] = "post" /\ capSaw[t] = {})

CaptureInv == CapTypes /\ CapOne /\ CapFresh /\ CapDowns /\ CapHeld

\* The names of the actors.
LEMMA CapNames ==
    /\ CapLoop \in CapTasks /\ CapTasks \subseteq CapActors
    /\ \A s \in CapIds : <<"sig", s>> \in CapActors /\ <<"ei", s>> \in CapActors
    /\ \A s \in CapIds : <<"sig", s>> \notin CapTasks /\ <<"ei", s>> \notin CapTasks
    /\ \A s, r \in CapIds : <<"sig", s>> # <<"ei", r>>
    /\ \A s, r \in CapIds : s # r => <<"sig", s>> # <<"sig", r>> /\ <<"ei", s>> # <<"ei", r>>
    /\ CapIds \subseteq Nat \ {0}
  BY DEF CapLoop, CapTasks, CapActors, CapIds

\* Every step keeps a session that is armed for nobody under watch.
LEMMA NoticedStep ==
    ASSUME CapTypes, CapNoticed, [CapNext]_capVars,
           \A s \in CapIds : capSig[s] # "done" => capDown[<<"sig", s>>] = "no"
    PROVE  CapNoticed'
<1>1. ASSUME NEW p \in CapPeers, CapPeerMoves(p)
      PROVE  CapNoticed'
  BY <1>1 DEF CapTypes, CapNoticed, CapPeerMoves, capTask, capShared, capTear
<1>2. CASE CapAnnounce
  BY <1>2 DEF CapTypes, CapNoticed, CapAnnounce, capTask, capShared, capTear
<1>3. CASE CapWake
  BY <1>3, CapNames, Zenon DEF CapTypes, CapNoticed, CapWake, CapGoto, capShared, capTear
<1>4. ASSUME NEW t \in CapTasks, CapTask(t)
      PROVE  CapNoticed'
  <2>0. t \in CapActors /\ capPeers' = capPeers /\ capOwed' = capOwed /\ capEvents' = capEvents
    BY <1>4, CapNames, Zenon DEF CapTask, CapRead, CapJudge, CapEnter, CapStart, CapStartFails, CapPump, CapPumpFails,
                CapSetRelease, CapStore, CapInstall, CapSwap, CapRecheck, CapRaise, CapCount, CapPost,
                CapLeave, capGate
  <2>1. CASE CapRead(t)
    BY <2>0, <2>1 DEF CapTypes, CapNoticed, CapRead, CapGoto, capShared, capTear, CapLate
  <2>2. CASE CapJudge(t)
    <3>1. CASE capSlot # 0 /\ capSaw[t] = {}
      BY <2>0, <2>2, <3>1 DEF CapTypes, CapNoticed, CapJudge, CapGoto, capShared, CapLate
    <3>2. CASE ~(capSlot # 0 /\ capSaw[t] = {})
      BY <2>0, <2>2, <3>2, CapNames, SMTT(30) DEF CapTypes, CapNoticed, CapJudge, CapGoto, capShared, CapLate
    <3> QED BY <3>1, <3>2, Zenon
  <2>3. CASE CapEnter(t) \/ CapStart(t) \/ CapPump(t) \/ CapSetRelease(t)
    BY <2>0, <2>3, CapNames, SMTT(30) DEF CapTypes, CapNoticed, CapEnter, CapStart, CapPump, CapSetRelease, CapGoto,
                      capShared, capTear, CapLate
  <2>4. CASE CapStartFails(t) \/ CapPumpFails(t)
    BY <2>0, <2>4, CapNames DEF CapTypes, CapNoticed, CapStartFails, CapPumpFails, CapReturn, CapGoto, capShared,
                      capTear, CapLate
  <2>5. CASE CapStore(t) \/ CapInstall(t) \/ CapRaise(t) \/ CapCount(t)
    BY <2>0, <2>5 DEF CapTypes, CapNoticed, CapStore, CapInstall, CapRaise, CapCount, CapGoto, capShared,
                      capTear, CapLate
  <2>6. CASE CapSwap(t)
    BY <2>0, <2>6, Zenon DEF CapTypes, CapNoticed, CapSwap, CapGoto, capShared, CapLate
  <2>7. CASE CapRecheck(t)
    BY <2>0, <2>7 DEF CapTypes, CapNoticed, CapRecheck, CapReturn, CapGoto, capShared, capTear, CapLate
  <2>8. CASE CapPost(t)
    <3>1. CASE capSaw[t] = {}
      BY <2>0, <2>8, <3>1 DEF CapTypes, CapNoticed, CapPost, CapGoto, CapSpawn, capShared, CapLate
    <3>2. CASE capSaw[t] # {}
      BY <2>0, <2>8, <3>2, CapNames, SMTT(30) DEF CapTypes, CapNoticed, CapPost, CapGoto, CapSpawn, CapReturn, capShared, CapLate
    <3> QED BY <3>1, <3>2, Zenon
  <2>9. CASE CapLeave(t)
    BY <2>0, <2>9, CapNames DEF CapTypes, CapNoticed, CapLeave, CapReturn, CapGoto, capShared, capTear, CapLate
  <2> QED BY <1>4, <2>1, <2>2, <2>3, <2>4, <2>5, <2>6, <2>7, <2>8, <2>9, Zenon DEF CapTask
<1>5. ASSUME NEW a \in CapActors, CapClearRelease(a) \/ CapTake(a) \/ CapClose(a)
      PROVE  CapNoticed'
  BY <1>5 DEF CapTypes, CapNoticed, CapClearRelease, CapTake, CapClose, capGate, capTask
<1>6. ASSUME NEW s \in CapIds, CapDisable(s) \/ CapSetLatch(s) \/ CapHangUp(s)
      PROVE  CapNoticed'
  BY <1>6, Zenon DEF CapNoticed, CapDisable, CapSetLatch, CapHangUp, capGate, capTask, capShared, capTear
<1>7. ASSUME NEW s \in CapIds, CapSignal(s) \/ CapWatcher(s),
             capSig[s] # "done" => capDown[<<"sig", s>>] = "no"
      PROVE  CapNoticed'
  BY <1>7 DEF CapTypes, CapNoticed, CapSignal, CapWatcher, capGate, capTask, capShared
<1>8. CASE UNCHANGED capVars
  BY <1>8, Zenon DEF CapNoticed, capVars, capGate, capTask, capShared, capTear
<1> QED BY <1>1, <1>2, <1>3, <1>4, <1>5, <1>6, <1>7, <1>8, Zenon DEF CapNext

\* Every step keeps the types.
LEMMA CapTaskTypes ==
    ASSUME CapTypes, NEW t \in CapTasks, CapTask(t)
    PROVE  CapTypes'
<1>1. CASE CapRead(t)
  BY <1>1, Zenon DEF CapTypes, CapRead, CapGoto, capShared, capSession, capTear, capGate, CapEarly, CapLate
<1>2. CASE CapJudge(t)
  BY <1>2, Zenon DEF CapTypes, CapJudge, CapGoto, capShared, capSession, capGate, CapEarly, CapLate
<1>3. CASE CapEnter(t)
  BY <1>3, Zenon DEF CapTypes, CapEnter, CapGoto, capShared, capSession, capTear, capGate, CapEarly, CapLate
<1>4. CASE CapStart(t)
  <2>0. capLast + 1 \in CapIds /\ capLast + 1 # 0
    BY <1>4, CapAssumption DEF CapTypes, CapStart, CapIds, CapEarly, CapLate
  <2> QED BY <1>4, <2>0 DEF CapTypes, CapStart, CapGoto, capShared, capTear, capGate, CapEarly, CapLate
<1>5. CASE CapStartFails(t)
  BY <1>5, Zenon DEF CapTypes, CapStartFails, CapGoto, CapReturn, capShared, capSession, capTear, capGate, CapEarly, CapLate
<1>6. CASE CapPump(t)
  BY <1>6, Zenon DEF CapTypes, CapPump, CapGoto, capShared, capTear, capGate, CapEarly, CapLate
<1>7. CASE CapPumpFails(t)
  BY <1>7, Zenon DEF CapTypes, CapPumpFails, CapGoto, CapReturn, capShared, capTear, capGate, CapEarly, CapLate
<1>8. CASE CapSetRelease(t)
  BY <1>8, Zenon DEF CapTypes, CapSetRelease, CapGoto, capSession, capTear, capGate, CapEarly, CapLate
<1>9. CASE CapStore(t)
  BY <1>9, Zenon DEF CapTypes, CapStore, CapGoto, capSession, capTear, capGate, CapEarly, CapLate
<1>10. CASE CapInstall(t)
  BY <1>10, Zenon DEF CapTypes, CapInstall, CapGoto, capShared, capTear, capGate, CapEarly, CapLate
<1>11. CASE CapSwap(t)
  BY <1>11, Zenon DEF CapTypes, CapSwap, CapGoto, capShared, capGate, CapEarly, CapLate
<1>12. CASE CapRecheck(t)
  <2>1. CASE capSlot = 0
    BY <1>12, <2>1 DEF CapTypes, CapRecheck, CapGoto, CapReturn, capShared, capSession, capTear, capGate, CapEarly, CapLate
  <2>2. CASE ~(capSlot = 0)
    BY <1>12, <2>2, Zenon DEF CapTypes, CapRecheck, CapGoto, CapReturn, capShared, capSession, capTear, capGate, CapEarly, CapLate
  <2> QED BY <2>1, <2>2, Zenon
<1>13. CASE CapRaise(t)
  BY <1>13, Zenon DEF CapTypes, CapRaise, CapGoto, capSession, capTear, capGate, CapEarly, CapLate
<1>14. CASE CapCount(t)
  BY <1>14, Zenon DEF CapTypes, CapCount, CapGoto, capShared, capSession, capTear, capGate, CapEarly, CapLate
<1>15. CASE CapPost(t)
  <2>1. CASE capSaw[t] = {}
    BY <1>15, <2>1 DEF CapTypes, CapPost, CapGoto, CapSpawn, CapReturn, capShared, capSession, capGate, CapEarly, CapLate
  <2>2. CASE ~(capSaw[t] = {})
    BY <1>15, <2>2 DEF CapTypes, CapPost, CapGoto, CapSpawn, CapReturn, capShared, capSession, capGate, CapEarly, CapLate
  <2> QED BY <2>1, <2>2, Zenon
<1>16. CASE CapLeave(t)
  <2>1. CASE capMine[t] = 0
    BY <1>16, <2>1, Zenon DEF CapTypes, CapLeave, CapGoto, CapReturn, capShared, capSession, capTear, capGate, CapEarly, CapLate
  <2>2. CASE ~(capMine[t] = 0)
    BY <1>16, <2>2 DEF CapTypes, CapLeave, CapGoto, CapReturn, capShared, capSession, capTear, capGate, CapEarly, CapLate
  <2> QED BY <2>1, <2>2, Zenon
<1> QED BY <1>1, <1>2, <1>3, <1>4, <1>5, <1>6, <1>7, <1>8, <1>9, <1>10, <1>11, <1>12, <1>13, <1>14, <1>15, <1>16, Zenon DEF CapTask

\* A step of a task keeps activations apart.
LEMMA CapTaskOne ==
    ASSUME CapTypes, CapOne, NEW t \in CapTasks, CapTask(t)
    PROVE  CapOne'
<1>1. CASE CapRead(t)
  BY <1>1 DEF CapTypes, CapOne, CapActivates, CapRead, CapGoto, capShared, capSession, capTear, capGate, CapEarly, CapLate
<1>2. CASE CapJudge(t)
  <2>1. CASE capSlot # 0 /\ capSaw[t] = {}
    BY <1>2, <2>1, SMTT(30) DEF CapTypes, CapOne, CapActivates, CapJudge, CapGoto, capShared, capSession, capGate, CapEarly, CapLate
  <2>2. CASE ~(capSlot # 0 /\ capSaw[t] = {})
    BY <1>2, <2>2 DEF CapTypes, CapOne, CapActivates, CapJudge, CapGoto, capShared, capSession, capGate, CapEarly, CapLate
  <2> QED BY <2>1, <2>2, Zenon
<1>3. CASE CapEnter(t)
  <2>1. CASE capBusy \/ capSlot # 0
    BY <1>3, <2>1 DEF CapTypes, CapOne, CapActivates, CapEnter, CapGoto, capShared, capSession, capTear, capGate, CapEarly, CapLate
  <2>2. CASE ~(capBusy \/ capSlot # 0)
    BY <1>3, <2>2 DEF CapTypes, CapOne, CapActivates, CapEnter, CapGoto, capShared, capSession, capTear, capGate, CapEarly, CapLate
  <2> QED BY <2>1, <2>2, Zenon
<1>4. CASE CapStart(t)
  <2>0. capLast + 1 \in CapIds /\ capLast + 1 # 0
    BY <1>4, CapAssumption DEF CapTypes, CapStart, CapIds, CapEarly, CapLate
  <2> QED BY <1>4, <2>0 DEF CapTypes, CapOne, CapActivates, CapStart, CapGoto, capShared, capTear, capGate, CapEarly, CapLate
<1>5. CASE CapStartFails(t)
  BY <1>5 DEF CapTypes, CapOne, CapActivates, CapStartFails, CapGoto, CapReturn, capShared, capSession, capTear, capGate, CapEarly, CapLate
<1>6. CASE CapPump(t)
  BY <1>6 DEF CapTypes, CapOne, CapActivates, CapPump, CapGoto, capShared, capTear, capGate, CapEarly, CapLate
<1>7. CASE CapPumpFails(t)
  BY <1>7 DEF CapTypes, CapOne, CapActivates, CapPumpFails, CapGoto, CapReturn, capShared, capTear, capGate, CapEarly, CapLate
<1>8. CASE CapSetRelease(t)
  BY <1>8 DEF CapTypes, CapOne, CapActivates, CapSetRelease, CapGoto, capSession, capTear, capGate, CapEarly, CapLate
<1>9. CASE CapStore(t)
  BY <1>9 DEF CapTypes, CapOne, CapActivates, CapStore, CapGoto, capSession, capTear, capGate, CapEarly, CapLate
<1>10. CASE CapInstall(t)
  BY <1>10 DEF CapTypes, CapOne, CapActivates, CapInstall, CapGoto, capShared, capTear, capGate, CapEarly, CapLate
<1>11. CASE CapSwap(t)
  <2>1. CASE capLatch[capMine[t]]
    BY <1>11, <2>1 DEF CapTypes, CapOne, CapActivates, CapSwap, CapGoto, capShared, capGate, CapEarly, CapLate
  <2>2. CASE ~(capLatch[capMine[t]])
    BY <1>11, <2>2 DEF CapTypes, CapOne, CapActivates, CapSwap, CapGoto, capShared, capGate, CapEarly, CapLate
  <2> QED BY <2>1, <2>2, Zenon
<1>12. CASE CapRecheck(t)
  <2>1. CASE capSlot = 0
    BY <1>12, <2>1 DEF CapTypes, CapOne, CapActivates, CapRecheck, CapGoto, CapReturn, capShared, capSession, capTear, capGate, CapEarly, CapLate
  <2>2. CASE ~(capSlot = 0)
    BY <1>12, <2>2 DEF CapTypes, CapOne, CapActivates, CapRecheck, CapGoto, CapReturn, capShared, capSession, capTear, capGate, CapEarly, CapLate
  <2> QED BY <2>1, <2>2, Zenon
<1>13. CASE CapRaise(t)
  BY <1>13, SMTT(30) DEF CapTypes, CapOne, CapActivates, CapRaise, CapGoto, capSession, capTear, capGate, CapEarly, CapLate
<1>14. CASE CapCount(t)
  BY <1>14 DEF CapTypes, CapOne, CapActivates, CapCount, CapGoto, capShared, capSession, capTear, capGate, CapEarly, CapLate
<1>15. CASE CapPost(t)
  <2>1. CASE capSaw[t] = {}
    BY <1>15, <2>1, SMTT(30) DEF CapTypes, CapOne, CapActivates, CapPost, CapGoto, CapSpawn, CapReturn, capShared, capSession, capGate, CapEarly, CapLate
  <2>2. CASE ~(capSaw[t] = {})
    BY <1>15, <2>2, SMTT(30) DEF CapTypes, CapOne, CapActivates, CapPost, CapGoto, CapSpawn, CapReturn, capShared, capSession, capGate, CapEarly, CapLate
  <2> QED BY <2>1, <2>2, Zenon
<1>16. CASE CapLeave(t)
  <2>1. CASE capMine[t] = 0
    BY <1>16, <2>1, SMTT(30) DEF CapTypes, CapOne, CapActivates, CapLeave, CapGoto, CapReturn, capShared, capSession, capTear, capGate, CapEarly, CapLate
  <2>2. CASE ~(capMine[t] = 0)
    BY <1>16, <2>2, SMTT(30) DEF CapTypes, CapOne, CapActivates, CapLeave, CapGoto, CapReturn, capShared, capSession, capTear, capGate, CapEarly, CapLate
  <2> QED BY <2>1, <2>2, Zenon
<1> QED BY <1>1, <1>2, <1>3, <1>4, <1>5, <1>6, <1>7, <1>8, <1>9, <1>10, <1>11, <1>12, <1>13, <1>14, <1>15, <1>16, Zenon DEF CapTask

\* A step of a task keeps the sessions to come untouched.
LEMMA CapTaskFresh ==
    ASSUME CapTypes, CapOne, CapFresh, NEW t \in CapTasks, CapTask(t)
    PROVE  CapFresh'
<1>1. CASE CapRead(t)
  BY <1>1, Zenon DEF CapTypes, CapOne, CapFresh, CapActivates, CapRead, CapGoto, capShared, capSession, capTear, capGate, CapEarly, CapLate
<1>2. CASE CapJudge(t)
  <2>1. CASE capSlot # 0 /\ capSaw[t] = {}
    BY <1>2, <2>1, Zenon DEF CapTypes, CapOne, CapFresh, CapActivates, CapJudge, CapGoto, capShared, capSession, capGate, CapEarly, CapLate
  <2>2. CASE ~(capSlot # 0 /\ capSaw[t] = {})
    BY <1>2, <2>2, Zenon DEF CapTypes, CapOne, CapFresh, CapActivates, CapJudge, CapGoto, capShared, capSession, capGate, CapEarly, CapLate
  <2> QED BY <2>1, <2>2, Zenon
<1>3. CASE CapEnter(t)
  <2>1. CASE capBusy \/ capSlot # 0
    BY <1>3, <2>1, Zenon DEF CapTypes, CapOne, CapFresh, CapActivates, CapEnter, CapGoto, capShared, capSession, capTear, capGate, CapEarly, CapLate
  <2>2. CASE ~(capBusy \/ capSlot # 0)
    BY <1>3, <2>2, Zenon DEF CapTypes, CapOne, CapFresh, CapActivates, CapEnter, CapGoto, capShared, capSession, capTear, capGate, CapEarly, CapLate
  <2> QED BY <2>1, <2>2, Zenon
<1>4. CASE CapStart(t)
  <2>0. capLast + 1 \in CapIds /\ capLast + 1 # 0
    BY <1>4, CapAssumption DEF CapTypes, CapStart, CapIds, CapEarly, CapLate
  <2> QED BY <1>4, <2>0, CapNames DEF CapTypes, CapOne, CapFresh, CapActivates, CapStart, CapGoto, capShared, capTear, capGate, CapEarly, CapLate
<1>5. CASE CapStartFails(t)
  BY <1>5, ZenonT(30) DEF CapTypes, CapOne, CapFresh, CapActivates, CapStartFails, CapGoto, CapReturn, capShared, capSession, capTear, capGate, CapEarly, CapLate
<1>6. CASE CapPump(t)
  BY <1>6, ZenonT(30) DEF CapTypes, CapOne, CapFresh, CapActivates, CapPump, CapGoto, capShared, capTear, capGate, CapEarly, CapLate
<1>7. CASE CapPumpFails(t)
  BY <1>7, ZenonT(30) DEF CapTypes, CapOne, CapFresh, CapActivates, CapPumpFails, CapGoto, CapReturn, capShared, capTear, capGate, CapEarly, CapLate
<1>8. CASE CapSetRelease(t)
  BY <1>8, ZenonT(30) DEF CapTypes, CapOne, CapFresh, CapActivates, CapSetRelease, CapGoto, capSession, capTear, capGate, CapEarly, CapLate
<1>9. CASE CapStore(t)
  BY <1>9, ZenonT(30) DEF CapTypes, CapOne, CapFresh, CapActivates, CapStore, CapGoto, capSession, capTear, capGate, CapEarly, CapLate
<1>10. CASE CapInstall(t)
  BY <1>10, ZenonT(30) DEF CapTypes, CapOne, CapFresh, CapActivates, CapInstall, CapGoto, capShared, capTear, capGate, CapEarly, CapLate
<1>11. CASE CapSwap(t)
  <2>1. CASE capLatch[capMine[t]]
    BY <1>11, <2>1, ZenonT(30) DEF CapTypes, CapOne, CapFresh, CapActivates, CapSwap, CapGoto, capShared, capGate, CapEarly, CapLate
  <2>2. CASE ~(capLatch[capMine[t]])
    BY <1>11, <2>2, Zenon DEF CapTypes, CapOne, CapFresh, CapActivates, CapSwap, CapGoto, capShared, capGate, CapEarly, CapLate
  <2> QED BY <2>1, <2>2, Zenon
<1>12. CASE CapRecheck(t)
  <2>1. CASE capSlot = 0
    BY <1>12, <2>1 DEF CapTypes, CapOne, CapFresh, CapActivates, CapRecheck, CapGoto, CapReturn, capShared, capSession, capTear, capGate, CapEarly, CapLate
  <2>2. CASE ~(capSlot = 0)
    BY <1>12, <2>2 DEF CapTypes, CapOne, CapFresh, CapActivates, CapRecheck, CapGoto, CapReturn, capShared, capSession, capTear, capGate, CapEarly, CapLate
  <2> QED BY <2>1, <2>2, Zenon
<1>13. CASE CapRaise(t)
  BY <1>13, ZenonT(30) DEF CapTypes, CapOne, CapFresh, CapActivates, CapRaise, CapGoto, capSession, capTear, capGate, CapEarly, CapLate
<1>14. CASE CapCount(t)
  BY <1>14, ZenonT(30) DEF CapTypes, CapOne, CapFresh, CapActivates, CapCount, CapGoto, capShared, capSession, capTear, capGate, CapEarly, CapLate
<1>15. CASE CapPost(t)
  <2>1. CASE capSaw[t] = {}
    BY <1>15, <2>1 DEF CapTypes, CapOne, CapFresh, CapActivates, CapPost, CapGoto, CapSpawn, CapReturn, capShared, capSession, capGate, CapEarly, CapLate
  <2>2. CASE ~(capSaw[t] = {})
    BY <1>15, <2>2 DEF CapTypes, CapOne, CapFresh, CapActivates, CapPost, CapGoto, CapSpawn, CapReturn, capShared, capSession, capGate, CapEarly, CapLate
  <2> QED BY <2>1, <2>2, Zenon
<1>16. CASE CapLeave(t)
  <2>1. CASE capMine[t] = 0
    BY <1>16, <2>1 DEF CapTypes, CapOne, CapFresh, CapActivates, CapLeave, CapGoto, CapReturn, capShared, capSession, capTear, capGate, CapEarly, CapLate
  <2>2. CASE ~(capMine[t] = 0)
    BY <1>16, <2>2 DEF CapTypes, CapOne, CapFresh, CapActivates, CapLeave, CapGoto, CapReturn, capShared, capSession, capTear, capGate, CapEarly, CapLate
  <2> QED BY <2>1, <2>2, Zenon
<1> QED BY <1>1, <1>2, <1>3, <1>4, <1>5, <1>6, <1>7, <1>8, <1>9, <1>10, <1>11, <1>12, <1>13, <1>14, <1>15, <1>16, Zenon DEF CapTask

\* A task that runs no do_deactivate may start one.
LEMMA TaskTurnsDown ==
    ASSUME CapTypes, CapDowns, NEW t \in CapTasks, capDown[t] = "no", capDown' = [capDown EXCEPT ![t] = "rel"],
           capPc'[t] \in {"leave", "recheck"}, \A u \in CapTasks \ {t} : capPc'[u] = capPc[u],
           UNCHANGED <<capGot, capSig, capWatch>>
    PROVE  CapDowns'
<1>1. \A a \in CapActors : a # t => capDown'[a] = capDown[a]
  BY ZenonT(30) DEF CapTypes
<1>2. capDown'[t] = "rel" /\ capGot[t] = 0
  BY CapNames DEF CapTypes, CapDowns
<1>3. \A u \in CapTasks : capDown'[u] # "no" => capPc'[u] \in {"leave", "recheck"}
  BY <1>1, CapNames, ZenonT(30) DEF CapDowns
<1>4. \A i \in CapIds : /\ capDown'[<<"sig", i>>] = capDown[<<"sig", i>>]
                        /\ capDown'[<<"ei", i>>] = capDown[<<"ei", i>>]
  BY <1>1, CapNames, ZenonT(30)
<1>5. \A a \in CapActors : capGot'[a] # 0 => capDown'[a] = "flag"
  BY <1>1, <1>2, Zenon DEF CapDowns
<1>6. \A i \in CapIds : /\ capSig'[i] # "done" => capDown'[<<"sig", i>>] = "no"
                        /\ capWatch'[i] # "done" => capDown'[<<"ei", i>>] = "no"
  BY <1>4, ZenonT(30) DEF CapDowns
<1> QED BY <1>3, <1>5, <1>6, Zenon DEF CapDowns

\* A step of a task starts a do_deactivate only when it runs none.
LEMMA CapTaskDowns ==
    ASSUME CapTypes, CapOne, CapFresh, CapDowns, NEW t \in CapTasks, CapTask(t)
    PROVE  CapDowns'
<1>1. CASE CapRead(t)
  BY <1>1, ZenonT(30) DEF CapTypes, CapOne, CapFresh, CapDowns, CapActivates, CapRead, CapGoto, capShared, capSession, capTear, capGate, CapEarly, CapLate
<1>2. CASE CapJudge(t)
  <2>1. CASE capSlot # 0 /\ capSaw[t] = {}
    <3>1. /\ capDown[t] = "no" /\ capDown' = [capDown EXCEPT ![t] = "rel"]
          /\ capPc'[t] \in {"leave", "recheck"} /\ \A u \in CapTasks \ {t} : capPc'[u] = capPc[u]
          /\ UNCHANGED <<capGot, capSig, capWatch>>
      BY <1>2, <2>1, SMTT(30) DEF CapTypes, CapDowns, CapJudge, CapGoto, CapSpawn, capSession, CapEarly, CapLate
    <3> QED BY <3>1, TaskTurnsDown, ZenonT(30)
  <2>2. CASE ~(capSlot # 0 /\ capSaw[t] = {})
    BY <1>2, <2>2 DEF CapTypes, CapOne, CapFresh, CapDowns, CapActivates, CapJudge, CapGoto, capShared, capSession, capGate, CapEarly, CapLate
  <2> QED BY <2>1, <2>2, Zenon
<1>3. CASE CapEnter(t)
  <2>1. CASE capBusy \/ capSlot # 0
    BY <1>3, <2>1, SMTT(30) DEF CapTypes, CapOne, CapFresh, CapDowns, CapActivates, CapEnter, CapGoto, capShared, capSession, capTear, capGate, CapEarly, CapLate
  <2>2. CASE ~(capBusy \/ capSlot # 0)
    BY <1>3, <2>2, SMTT(30) DEF CapTypes, CapOne, CapFresh, CapDowns, CapActivates, CapEnter, CapGoto, capShared, capSession, capTear, capGate, CapEarly, CapLate
  <2> QED BY <2>1, <2>2, Zenon
<1>4. CASE CapStart(t)
  <2>0. capLast + 1 \in CapIds /\ capLast + 1 # 0
    BY <1>4, CapAssumption DEF CapTypes, CapStart, CapIds, CapEarly, CapLate
  <2> QED BY <1>4, <2>0 DEF CapTypes, CapOne, CapFresh, CapDowns, CapActivates, CapStart, CapGoto, capShared, capTear, capGate, CapEarly, CapLate
<1>5. CASE CapStartFails(t)
  BY <1>5, ZenonT(30) DEF CapTypes, CapOne, CapFresh, CapDowns, CapActivates, CapStartFails, CapGoto, CapReturn, capShared, capSession, capTear, capGate, CapEarly, CapLate
<1>6. CASE CapPump(t)
  BY <1>6, ZenonT(30) DEF CapTypes, CapOne, CapFresh, CapDowns, CapActivates, CapPump, CapGoto, capShared, capTear, capGate, CapEarly, CapLate
<1>7. CASE CapPumpFails(t)
  BY <1>7, ZenonT(30) DEF CapTypes, CapOne, CapFresh, CapDowns, CapActivates, CapPumpFails, CapGoto, CapReturn, capShared, capTear, capGate, CapEarly, CapLate
<1>8. CASE CapSetRelease(t)
  BY <1>8, ZenonT(30) DEF CapTypes, CapOne, CapFresh, CapDowns, CapActivates, CapSetRelease, CapGoto, capSession, capTear, capGate, CapEarly, CapLate
<1>9. CASE CapStore(t)
  BY <1>9, ZenonT(30) DEF CapTypes, CapOne, CapFresh, CapDowns, CapActivates, CapStore, CapGoto, capSession, capTear, capGate, CapEarly, CapLate
<1>10. CASE CapInstall(t)
  BY <1>10, ZenonT(30) DEF CapTypes, CapOne, CapFresh, CapDowns, CapActivates, CapInstall, CapGoto, capShared, capTear, capGate, CapEarly, CapLate
<1>11. CASE CapSwap(t)
  <2>1. CASE capLatch[capMine[t]]
    <3>1. /\ capDown[t] = "no" /\ capDown' = [capDown EXCEPT ![t] = "rel"]
          /\ capPc'[t] \in {"leave", "recheck"} /\ \A u \in CapTasks \ {t} : capPc'[u] = capPc[u]
          /\ UNCHANGED <<capGot, capSig, capWatch>>
      BY <1>11, <2>1, ZenonT(30) DEF CapTypes, CapDowns, CapSwap, CapGoto, CapSpawn, capSession, CapEarly, CapLate
    <3> QED BY <3>1, TaskTurnsDown, Zenon
  <2>2. CASE ~(capLatch[capMine[t]])
    BY <1>11, <2>2 DEF CapTypes, CapOne, CapFresh, CapDowns, CapActivates, CapSwap, CapGoto, capShared, capGate, CapEarly, CapLate
  <2> QED BY <2>1, <2>2, Zenon
<1>12. CASE CapRecheck(t)
  <2>1. CASE capSlot = 0
    BY <1>12, <2>1, SMTT(30) DEF CapTypes, CapOne, CapFresh, CapDowns, CapActivates, CapRecheck, CapGoto, CapReturn, capShared, capSession, capTear, capGate, CapEarly, CapLate
  <2>2. CASE ~(capSlot = 0)
    BY <1>12, <2>2 DEF CapTypes, CapOne, CapFresh, CapDowns, CapActivates, CapRecheck, CapGoto, CapReturn, capShared, capSession, capTear, capGate, CapEarly, CapLate
  <2> QED BY <2>1, <2>2, Zenon
<1>13. CASE CapRaise(t)
  BY <1>13, ZenonT(30) DEF CapTypes, CapOne, CapFresh, CapDowns, CapActivates, CapRaise, CapGoto, capSession, capTear, capGate, CapEarly, CapLate
<1>14. CASE CapCount(t)
  BY <1>14, ZenonT(30) DEF CapTypes, CapOne, CapFresh, CapDowns, CapActivates, CapCount, CapGoto, capShared, capSession, capTear, capGate, CapEarly, CapLate
<1>15. CASE CapPost(t)
  <2>1. CASE capSaw[t] = {}
    <3>1. /\ capDown[t] = "no" /\ capDown' = [capDown EXCEPT ![t] = "rel"]
          /\ capPc'[t] \in {"leave", "recheck"} /\ \A u \in CapTasks \ {t} : capPc'[u] = capPc[u]
          /\ UNCHANGED <<capGot, capSig, capWatch>>
      BY <1>15, <2>1, SMTT(30) DEF CapTypes, CapDowns, CapPost, CapGoto, CapSpawn, capSession, CapEarly, CapLate
    <3> QED BY <3>1, TaskTurnsDown, Zenon
  <2>2. CASE ~(capSaw[t] = {})
    BY <1>15, <2>2 DEF CapTypes, CapOne, CapFresh, CapDowns, CapActivates, CapPost, CapGoto, CapSpawn, CapReturn, capShared, capSession, capGate, CapEarly, CapLate
  <2> QED BY <2>1, <2>2, ZenonT(30)
<1>16. CASE CapLeave(t)
  <2>1. CASE capMine[t] = 0
    BY <1>16, <2>1, SMTT(30) DEF CapTypes, CapOne, CapFresh, CapDowns, CapActivates, CapLeave, CapGoto, CapReturn, capShared, capSession, capTear, capGate, CapEarly, CapLate
  <2>2. CASE ~(capMine[t] = 0)
    BY <1>16, <2>2, SMTT(30) DEF CapTypes, CapOne, CapFresh, CapDowns, CapActivates, CapLeave, CapGoto, CapReturn, capShared, capSession, capTear, capGate, CapEarly, CapLate
  <2> QED BY <2>1, <2>2, Zenon
<1> QED BY <1>1, <1>2, <1>3, <1>4, <1>5, <1>6, <1>7, <1>8, <1>9, <1>10, <1>11, <1>12, <1>13, <1>14, <1>15, <1>16, Zenon DEF CapTask

\* A step of a task keeps every session held.
LEMMA CapTaskHeld ==
    ASSUME CapTypes, CapOne, CapHeld, NEW t \in CapTasks, CapTask(t)
    PROVE  CapHeld'
<1>1. CASE CapRead(t)
  BY <1>1, SMTT(30) DEF CapTypes, CapOne, CapActivates, CapHeld, CapRead, CapGoto, capShared, capSession, capTear, capGate, CapEarly, CapLate
<1>2. CASE CapJudge(t)
  <2>1. CASE capSlot # 0 /\ capSaw[t] = {}
    BY <1>2, <2>1 DEF CapTypes, CapOne, CapActivates, CapHeld, CapJudge, CapGoto, capShared, capSession, capGate, CapEarly, CapLate
  <2>2. CASE ~(capSlot # 0 /\ capSaw[t] = {})
    BY <1>2, <2>2 DEF CapTypes, CapOne, CapActivates, CapHeld, CapJudge, CapGoto, capShared, capSession, capGate, CapEarly, CapLate
  <2> QED BY <2>1, <2>2, Zenon
<1>3. CASE CapEnter(t)
  <2>1. CASE capBusy \/ capSlot # 0
    BY <1>3, <2>1 DEF CapTypes, CapOne, CapActivates, CapHeld, CapEnter, CapGoto, capShared, capSession, capTear, capGate, CapEarly, CapLate
  <2>2. CASE ~(capBusy \/ capSlot # 0)
    BY <1>3, <2>2 DEF CapTypes, CapOne, CapActivates, CapHeld, CapEnter, CapGoto, capShared, capSession, capTear, capGate, CapEarly, CapLate
  <2> QED BY <2>1, <2>2, Zenon
<1>4. CASE CapStart(t)
  <2>0. capLast + 1 \in CapIds /\ capLast + 1 # 0
    BY <1>4, CapAssumption DEF CapTypes, CapStart, CapIds, CapEarly, CapLate
  <2>1. /\ capMine'[t] = capLast + 1 /\ capPc'[t] = "pump" /\ UNCHANGED <<capSlot, capGot>>
        /\ \A s \in CapIds : s # capLast + 1 => capPortal'[s] = capPortal[s]
    BY <1>4, <2>0, Zenon DEF CapTypes, CapStart, CapGoto, capShared, capTear, CapEarly, CapLate
  <2>2. \A u \in CapTasks : capPc[u] \in CapEarly => capMine[u] = 0
    BY <1>4, Zenon DEF CapTypes, CapOne, CapActivates, CapStart, CapEarly, CapLate
  <2> QED BY <2>0, <2>1, <2>2, CapNames DEF CapHeld, CapEarly, CapLate
<1>5. CASE CapStartFails(t)
  BY <1>5 DEF CapTypes, CapOne, CapActivates, CapHeld, CapStartFails, CapGoto, CapReturn, capShared, capSession, capTear, capGate, CapEarly, CapLate
<1>6. CASE CapPump(t)
  BY <1>6 DEF CapTypes, CapOne, CapActivates, CapHeld, CapPump, CapGoto, capShared, capTear, capGate, CapEarly, CapLate
<1>7. CASE CapPumpFails(t)
  BY <1>7 DEF CapTypes, CapOne, CapActivates, CapHeld, CapPumpFails, CapGoto, CapReturn, capShared, capTear, capGate, CapEarly, CapLate
<1>8. CASE CapSetRelease(t)
  BY <1>8, SMTT(30) DEF CapTypes, CapOne, CapActivates, CapHeld, CapSetRelease, CapGoto, capSession, capTear, capGate, CapEarly, CapLate
<1>9. CASE CapStore(t)
  BY <1>9, CapNames DEF CapTypes, CapOne, CapActivates, CapHeld, CapStore, CapGoto, capSession, capTear, capGate, CapEarly, CapLate
<1>10. CASE CapInstall(t)
  BY <1>10, SMTT(30) DEF CapTypes, CapOne, CapActivates, CapHeld, CapInstall, CapGoto, capShared, capTear, capGate, CapEarly, CapLate
<1>11. CASE CapSwap(t)
  <2>1. CASE capLatch[capMine[t]]
    BY <1>11, <2>1 DEF CapTypes, CapOne, CapActivates, CapHeld, CapSwap, CapGoto, capShared, capGate, CapEarly, CapLate
  <2>2. CASE ~(capLatch[capMine[t]])
    BY <1>11, <2>2, SMTT(30) DEF CapTypes, CapOne, CapActivates, CapHeld, CapSwap, CapGoto, capShared, capGate, CapEarly, CapLate
  <2> QED BY <2>1, <2>2, Zenon
<1>12. CASE CapRecheck(t)
  <2>1. CASE capSlot = 0
    BY <1>12, <2>1, SMTT(30) DEF CapTypes, CapOne, CapActivates, CapHeld, CapRecheck, CapGoto, CapReturn, capShared, capSession, capTear, capGate, CapEarly, CapLate
  <2>2. CASE ~(capSlot = 0)
    BY <1>12, <2>2 DEF CapTypes, CapOne, CapActivates, CapHeld, CapRecheck, CapGoto, CapReturn, capShared, capSession, capTear, capGate, CapEarly, CapLate
  <2> QED BY <2>1, <2>2, Zenon
<1>13. CASE CapRaise(t)
  BY <1>13 DEF CapTypes, CapOne, CapActivates, CapHeld, CapRaise, CapGoto, capSession, capTear, capGate, CapEarly, CapLate
<1>14. CASE CapCount(t)
  BY <1>14 DEF CapTypes, CapOne, CapActivates, CapHeld, CapCount, CapGoto, capShared, capSession, capTear, capGate, CapEarly, CapLate
<1>15. CASE CapPost(t)
  <2>1. CASE capSaw[t] = {}
    BY <1>15, <2>1, SMTT(30) DEF CapTypes, CapOne, CapActivates, CapHeld, CapPost, CapGoto, CapSpawn, CapReturn, capShared, capSession, capGate, CapEarly, CapLate
  <2>2. CASE ~(capSaw[t] = {})
    BY <1>15, <2>2, SMTT(30) DEF CapTypes, CapOne, CapActivates, CapHeld, CapPost, CapGoto, CapSpawn, CapReturn, capShared, capSession, capGate, CapEarly, CapLate
  <2> QED BY <2>1, <2>2, Zenon
<1>16. CASE CapLeave(t)
  <2>1. CASE capMine[t] = 0
    BY <1>16, <2>1, SMTT(30) DEF CapTypes, CapOne, CapActivates, CapHeld, CapLeave, CapGoto, CapReturn, capShared, capSession, capTear, capGate, CapEarly, CapLate
  <2>2. CASE ~(capMine[t] = 0)
    BY <1>16, <2>2, SMTT(30) DEF CapTypes, CapOne, CapActivates, CapHeld, CapLeave, CapGoto, CapReturn, capShared, capSession, capTear, capGate, CapEarly, CapLate
  <2> QED BY <2>1, <2>2, Zenon
<1> QED BY <1>1, <1>2, <1>3, <1>4, <1>5, <1>6, <1>7, <1>8, <1>9, <1>10, <1>11, <1>12, <1>13, <1>14, <1>15, <1>16, Zenon DEF CapTask

\* What the parts of the invariant read.
LEMMA OneFrame ==
    ASSUME CapOne, UNCHANGED <<capPc, capMine, capBusy>>, capSlot' = capSlot \/ capSlot' = 0
    PROVE  CapOne'
  BY Zenon DEF CapOne, CapActivates

\* A watcher or a handler that was there stays.
LEMMA FreshFrame ==
    ASSUME CapFresh, UNCHANGED <<capLast, capMine>>,
           \A s \in CapIds : (capSig[s] = "off" => capSig'[s] = "off") /\ (capWatch[s] = "off" => capWatch'[s] = "off")
    PROVE  CapFresh'
  BY Zenon DEF CapFresh

\* A deactivation under way is still its actor's.
LEMMA DownsFrame ==
    ASSUME CapDowns, UNCHANGED <<capDown, capGot>>,
           \A t \in CapTasks : capPc[t] \in {"leave", "recheck"} => capPc'[t] = capPc[t],
           \A s \in CapIds : (capSig[s] = "done" => capSig'[s] = "done") /\ (capWatch[s] = "done" => capWatch'[s] = "done")
    PROVE  CapDowns'
  BY Zenon DEF CapDowns

\* A session that the portal has had is still held.
LEMMA HeldFrame ==
    ASSUME CapHeld, UNCHANGED <<capPc, capMine, capSlot, capGot>>,
           \A s \in CapIds : capPortal'[s] \in {"on", "disabled"} => capPortal[s] \in {"on", "disabled"}
    PROVE  CapHeld'
  BY Zenon DEF CapHeld

\* A step of a deactivation keeps the invariant.
LEMMA CapTearStep ==
    ASSUME CaptureInv, NEW a \in CapActors, CapClearRelease(a) \/ CapTake(a) \/ CapClose(a)
    PROVE  CaptureInv'
<1>0. CapTypes /\ CapOne /\ CapFresh /\ CapDowns /\ CapHeld
  BY Zenon DEF CaptureInv
<1>1. CASE CapClearRelease(a)
  <2>0. UNCHANGED <<capGate, capTask, capSlot, capSession, capGot>>
    BY <1>1, Zenon DEF CapClearRelease
  <2>1. capDown[a] = "rel" /\ capDown' = [capDown EXCEPT ![a] = "take"]
    BY <1>1, Zenon DEF CapClearRelease
  <2>2. CapTypes'
    BY <1>0, <2>0, <2>1, Zenon DEF CapTypes, capGate, capTask, capSession
  <2>3. CapDowns'
    <3>1. \A b \in CapActors : capDown'[b] = "no" <=> capDown[b] = "no"
      BY <1>0, <2>1, Zenon DEF CapTypes
    <3>2. \A b \in CapActors : b # a => capDown'[b] = capDown[b]
      BY <1>0, <2>1, Zenon DEF CapTypes
    <3>3. capGot[a] = 0
      BY <1>0, <2>1, Zenon DEF CapDowns
    <3>4. \A b \in CapActors : capGot'[b] # 0 => capDown'[b] = "flag"
      BY <1>0, <2>0, <3>2, <3>3, Zenon DEF CapDowns
    <3> QED BY <1>0, <2>0, <3>1, <3>4, CapNames, Zenon DEF CapDowns, capTask, capSession
  <2>4. CapOne' /\ CapFresh' /\ CapHeld'
    BY <1>0, <2>0, OneFrame, FreshFrame, HeldFrame, Zenon DEF capTask, capSession
  <2> QED BY <2>2, <2>3, <2>4, Zenon DEF CaptureInv
<1>2. CASE CapTake(a)
  <2>0. UNCHANGED <<capGate, capTask, capSession>> /\ capSlot' = 0
    BY <1>2, Zenon DEF CapTake
  <2>1. /\ capDown[a] = "take" /\ capDown' = [capDown EXCEPT ![a] = IF capSlot = 0 THEN "no" ELSE "flag"]
        /\ capGot' = [capGot EXCEPT ![a] = capSlot]
    BY <1>2, Zenon DEF CapTake
  <2>2. capGot[a] = 0
    BY <1>0, <2>1, Zenon DEF CapDowns
  <2>3. \A b \in CapActors : b # a => capDown'[b] = capDown[b] /\ capGot'[b] = capGot[b]
    BY <1>0, <2>1, Zenon DEF CapTypes
  <2>4. capGot'[a] = capSlot /\ capDown'[a] = IF capSlot = 0 THEN "no" ELSE "flag"
    BY <1>0, <2>1, Zenon DEF CapTypes
  <2>5. CapTypes'
    BY <1>0, <2>0, <2>1, Zenon DEF CapTypes, capGate, capTask, capSession
  <2>6. CapDowns'
    <3>1. \A b \in CapActors : capDown[b] = "no" => capDown'[b] = "no"
      BY <2>1, <2>3, ZenonT(30)
    <3>2. \A b \in CapActors : capGot'[b] # 0 => capDown'[b] = "flag"
      BY <1>0, <2>3, <2>4, Zenon DEF CapDowns
    <3> QED BY <1>0, <2>0, <3>1, <3>2, CapNames, Zenon DEF CapDowns, capTask, capSession
  <2>7. CapHeld'
    <3>1. \A b \in CapActors : capGot[b] # 0 => capGot'[b] = capGot[b]
      BY <2>2, <2>3, Zenon
    <3>2. 0 \notin CapIds
      BY CapNames, Zenon
    <3> QED BY <1>0, <2>0, <2>4, <3>1, <3>2, Zenon DEF CapHeld, capTask, capSession
  <2>8. CapOne' /\ CapFresh'
    BY <1>0, <2>0, OneFrame, FreshFrame, Zenon DEF capTask, capSession
  <2> QED BY <2>5, <2>6, <2>7, <2>8, Zenon DEF CaptureInv
<1>3. CASE CapClose(a)
  <2>0. UNCHANGED <<capGate, capTask, capSlot, capLast, capSig, capWatch>>
    BY <1>3, Zenon DEF CapClose
  <2>1. /\ capDown[a] = "flag" /\ capDown' = [capDown EXCEPT ![a] = "no"]
        /\ capGot' = [capGot EXCEPT ![a] = 0]
        /\ capPortal' = [capPortal EXCEPT ![capGot[a]] = "closed"]
    BY <1>3, Zenon DEF CapClose
  <2>3. \A b \in CapActors : b # a => capDown'[b] = capDown[b] /\ capGot'[b] = capGot[b]
    BY <1>0, <2>1, Zenon DEF CapTypes
  <2>4. capGot'[a] = 0 /\ capDown'[a] = "no"
    BY <1>0, <2>1, Zenon DEF CapTypes
  <2>5. CapTypes'
    <3>1. capDown' \in [CapActors -> {"no", "rel", "take", "flag"}] /\ capGot' \in [CapActors -> Nat]
      BY <1>0, <2>1, Zenon DEF CapTypes
    <3>2. capPortal' \in [CapIds -> {"none", "on", "disabled", "closed"}]
      BY <1>0, <2>1, Zenon DEF CapTypes
    <3> QED BY <1>0, <2>0, <3>1, <3>2, Zenon DEF CapTypes, capGate, capTask
  <2>6. CapDowns'
    <3>1. \A b \in CapActors : capDown[b] = "no" => capDown'[b] = "no"
      BY <2>3, <2>4, Zenon
    <3>2. \A b \in CapActors : capGot'[b] # 0 => capDown'[b] = "flag"
      BY <1>0, <2>3, <2>4, Zenon DEF CapDowns
    <3> QED BY <1>0, <2>0, <3>1, <3>2, CapNames, Zenon DEF CapDowns, capTask
  <2>7. CapHeld'
    <3>1. \A s \in CapIds : capPortal'[s] \in {"on", "disabled"} => capPortal[s] \in {"on", "disabled"} /\ s # capGot[a]
      BY <1>0, <2>1, Zenon DEF CapTypes
    <3> QED BY <1>0, <2>0, <2>3, <3>1, ZenonT(30) DEF CapHeld, capTask
  <2>8. CapOne' /\ CapFresh'
    BY <1>0, <2>0, OneFrame, FreshFrame, Zenon DEF capTask
  <2> QED BY <2>5, <2>6, <2>7, <2>8, Zenon DEF CaptureInv
<1> QED BY <1>1, <1>2, <1>3, Zenon

\* So do the moves of peers, and what is heard of them.
LEMMA CapPeersStep ==
    ASSUME CaptureInv, CapAnnounce \/ CapWake \/ \E p \in CapPeers : CapPeerMoves(p)
    PROVE  CaptureInv'
<1>0. CapTypes /\ CapOne /\ CapFresh /\ CapDowns /\ CapHeld
  BY Zenon DEF CaptureInv
<1>1. CASE CapAnnounce \/ \E p \in CapPeers : CapPeerMoves(p)
  <2>1. UNCHANGED <<capTask, capShared, capSession, capTear>>
    BY <1>1, Zenon DEF CapAnnounce, CapPeerMoves
  <2>2. capOwed' \in Nat /\ capEvents' \in Nat
    BY <1>0, <1>1 DEF CapTypes, CapAnnounce, CapPeerMoves
  <2>3. CapTypes'
    BY <1>0, <2>1, <2>2, Zenon DEF CapTypes, capTask, capShared, capSession, capTear
  <2>4. CapOne' /\ CapFresh' /\ CapDowns' /\ CapHeld'
    BY <1>0, <2>1, OneFrame, FreshFrame, DownsFrame, HeldFrame, Zenon DEF capTask, capShared, capSession, capTear
  <2> QED BY <2>3, <2>4, Zenon DEF CaptureInv
<1>2. CASE CapWake
  <2>0. UNCHANGED <<capOwed, capSaw, capMine, capBusy, capShared, capSession, capTear>>
    BY <1>2, Zenon DEF CapWake
  <2>1. capPc[CapLoop] = "idle" /\ capPc' = [capPc EXCEPT ![CapLoop] = "read"]
    BY <1>2, Zenon DEF CapWake, CapGoto
  <2>2. CapTypes'
    <3>1. capEvents' \in Nat
      BY <1>0, <1>2 DEF CapTypes, CapWake
    <3>2. capPc' \in [CapTasks -> {"idle", "read", "judge", "enter", "leave"} \cup CapEarly \cup CapLate]
      BY <1>0, <2>1, Zenon DEF CapTypes
    <3> QED BY <1>0, <2>0, <3>1, <3>2, Zenon DEF CapTypes, capShared, capSession, capTear
  <2>3. \A t \in CapTasks : (capPc'[t] = capPc[t] \/ (t = CapLoop /\ capPc'[t] = "read"))
    BY <1>0, <2>1, Zenon DEF CapTypes
  <2>4. \A t \in CapTasks : CapActivates(t)' <=> CapActivates(t)
    BY <2>0, <2>1, <2>3, Zenon DEF CapActivates, CapEarly, CapLate
  <2>5. \A t \in CapTasks : capPc'[t] \in CapEarly \cup CapLate => capPc'[t] = capPc[t]
    BY <2>3, Zenon DEF CapEarly, CapLate
  <2>6. \A t \in CapTasks : capPc[t] \in CapEarly \cup CapLate => capPc'[t] = capPc[t]
    BY <2>1, <2>3, Zenon DEF CapEarly, CapLate
  <2>7. CapOne'
    BY <1>0, <2>0, <2>4, <2>5, Zenon DEF CapOne, CapEarly, CapLate, capShared
  <2>8. \A t \in CapTasks : capPc[t] \in {"leave", "recheck"} => capPc'[t] = capPc[t]
    BY <2>1, <2>3, Zenon
  <2>9. CapFresh' /\ CapDowns'
    BY <1>0, <2>0, <2>8, FreshFrame, DownsFrame, Zenon DEF capSession, capTear
  <2>10. CapHeld'
    BY <1>0, <2>0, <2>6, Zenon DEF CapHeld, capShared, capSession, capTear
  <2> QED BY <2>2, <2>7, <2>9, <2>10, Zenon DEF CaptureInv
<1> QED BY <1>1, <1>2, Zenon

\* So does what the desktop does to a session.
LEMMA CapDesktopStep ==
    ASSUME CaptureInv, NEW s \in CapIds,
           CapDisable(s) \/ CapSignal(s) \/ CapSetLatch(s) \/ CapHangUp(s) \/ CapWatcher(s)
    PROVE  CaptureInv'
<1>0. CapTypes /\ CapOne /\ CapFresh /\ CapDowns /\ CapHeld
  BY Zenon DEF CaptureInv
<1>1. UNCHANGED <<capGate, capTask, capShared, capLast, capGot>>
  BY Zenon DEF CapDisable, CapSignal, CapSetLatch, CapHangUp, CapWatcher, capTear
<1>2. CapOne'
  BY <1>0, <1>1, OneFrame, Zenon DEF capTask, capShared
<1>3. CASE CapDisable(s)
  <2>1. UNCHANGED <<capSig, capWatch, capDown>> /\ capPortal' = [capPortal EXCEPT ![s] = "disabled"]
        /\ capPortal[s] = "on"
    BY <1>3, Zenon DEF CapDisable, capTear
  <2>2. CapTypes'
    BY <1>0, <1>1, <2>1, Zenon DEF CapTypes, capGate, capTask, capShared
  <2>3. \A r \in CapIds : capPortal'[r] \in {"on", "disabled"} => capPortal[r] \in {"on", "disabled"}
    BY <1>0, <2>1, Zenon DEF CapTypes
  <2>4. CapFresh' /\ CapDowns' /\ CapHeld'
    BY <1>0, <1>1, <2>1, <2>3, FreshFrame, DownsFrame, HeldFrame, Zenon DEF capTask, capShared
  <2> QED BY <1>2, <2>2, <2>4, Zenon DEF CaptureInv
<1>4. CASE CapSetLatch(s) \/ CapHangUp(s)
  <2>1. UNCHANGED <<capPortal, capWatch, capDown>> /\ (capSig' = capSig \/ (capSig[s] = "latch" /\ capSig' = [capSig EXCEPT ![s] = "done"]))
    BY <1>4, Zenon DEF CapSetLatch, CapHangUp, capTear
  <2>2. CapTypes'
    BY <1>0, <1>1, <2>1, Zenon DEF CapTypes, capGate, capTask, capShared
  <2>3. \A r \in CapIds : (capSig[r] = "off" => capSig'[r] = "off") /\ (capSig[r] = "done" => capSig'[r] = "done")
    BY <1>0, <2>1, Zenon DEF CapTypes
  <2>4. CapFresh' /\ CapDowns' /\ CapHeld'
    BY <1>0, <1>1, <2>1, <2>3, FreshFrame, DownsFrame, HeldFrame, Zenon DEF capTask, capShared
  <2> QED BY <1>2, <2>2, <2>4, Zenon DEF CaptureInv
<1>5. CASE CapSignal(s)
  <2>0. PICK me : me = <<"sig", s>>
    BY Zenon
  <2>1. PICK x \in {"rel", "no"} : capDown' = [capDown EXCEPT ![me] = x] /\ (x = "rel" => capSig'[s] = "done")
    BY <1>0, <1>5, <2>0, ZenonT(30) DEF CapTypes, CapSignal
  <2>2. UNCHANGED <<capPortal, capWatch>> /\ capSig[s] = "wait"
    BY <1>5, ZenonT(30) DEF CapSignal
  <2>3. /\ capSig' \in [CapIds -> {"off", "wait", "latch", "done"}]
        /\ \A r \in CapIds : r # s => capSig'[r] = capSig[r]
    BY <1>0, <1>5, Zenon DEF CapTypes, CapSignal
  <2>4. me \in CapActors /\ me \notin CapTasks /\ \A r \in CapIds : <<"ei", r>> # me /\ (r # s => <<"sig", r>> # me)
    BY <2>0, CapNames, Zenon
  <2>5. capDown[me] = "no" /\ capGot[me] = 0
    BY <1>0, <2>0, <2>2, <2>4, Zenon DEF CapDowns
  <2>6. capDown'[me] = x /\ \A b \in CapActors : b # me => capDown'[b] = capDown[b]
    BY <1>0, <2>1, <2>4, Zenon DEF CapTypes
  <2>7. CapDowns'
    <3>1. \A t \in CapTasks : capDown'[t] = capDown[t] /\ capPc'[t] = capPc[t]
      BY <1>1, <2>4, <2>6, CapNames, Zenon DEF capTask
    <3>2. \A r \in CapIds : capDown'[<<"ei", r>>] = capDown[<<"ei", r>>]
      BY <2>4, <2>6, CapNames, Zenon
    <3>3. \A r \in CapIds : r # s => capDown'[<<"sig", r>>] = capDown[<<"sig", r>>]
      BY <2>4, <2>6, CapNames, Zenon
    <3>4. \A r \in CapIds : capSig'[r] # "done" => capDown'[<<"sig", r>>] = "no"
      BY <1>0, <2>0, <2>1, <2>3, <2>6, <3>3, ZenonT(30) DEF CapDowns
    <3>5. \A b \in CapActors : capGot'[b] # 0 => capDown'[b] = "flag"
      BY <1>0, <1>1, <2>5, <2>6, Zenon DEF CapDowns
    <3>6. \A r \in CapIds : capWatch'[r] = capWatch[r]
      BY <2>2, Zenon
    <3>7. \A r \in CapIds : capWatch'[r] # "done" => capDown'[<<"ei", r>>] = "no"
      BY <1>0, <3>2, <3>6, Zenon DEF CapDowns
    <3>8. \A t \in CapTasks : capDown'[t] # "no" => capPc'[t] \in {"leave", "recheck"}
      BY <1>0, <3>1, ZenonT(30) DEF CapDowns
    <3> QED BY <3>4, <3>5, <3>7, <3>8, Zenon DEF CapDowns
  <2>8. CapTypes'
    <3>1. capDown' \in [CapActors -> {"no", "rel", "take", "flag"}]
      BY <1>0, <2>1, <2>4, ZenonT(30) DEF CapTypes
    <3> QED BY <1>0, <1>1, <2>2, <2>3, <3>1, Zenon DEF CapTypes, capGate, capTask, capShared
  <2>9. CapFresh' /\ CapHeld'
    BY <1>0, <1>1, <2>2, <2>3, FreshFrame, HeldFrame, Zenon DEF capTask, capShared
  <2> QED BY <1>2, <2>7, <2>8, <2>9, Zenon DEF CaptureInv
<1>6. CASE CapWatcher(s)
  <2>0. PICK me : me = <<"ei", s>>
    BY Zenon
  <2>1. capDown' = [capDown EXCEPT ![me] = "rel"]
    BY <1>6, <2>0, Zenon DEF CapWatcher
  <2>2. UNCHANGED <<capPortal, capSig>> /\ capWatch[s] = "wait"
    BY <1>6, Zenon DEF CapWatcher
  <2>3. /\ capWatch' \in [CapIds -> {"off", "wait", "done"}] /\ capWatch'[s] = "done"
        /\ \A r \in CapIds : r # s => capWatch'[r] = capWatch[r]
    BY <1>0, <1>6, Zenon DEF CapTypes, CapWatcher
  <2>4. me \in CapActors /\ me \notin CapTasks /\ \A r \in CapIds : <<"sig", r>> # me /\ (r # s => <<"ei", r>> # me)
    BY <2>0, CapNames, Zenon
  <2>5. capDown[me] = "no" /\ capGot[me] = 0
    BY <1>0, <2>0, <2>2, <2>4, Zenon DEF CapDowns
  <2>6. capDown'[me] = "rel" /\ \A b \in CapActors : b # me => capDown'[b] = capDown[b]
    BY <1>0, <2>1, <2>4, Zenon DEF CapTypes
  <2>7. CapDowns'
    <3>1. \A t \in CapTasks : capDown'[t] = capDown[t] /\ capPc'[t] = capPc[t]
      BY <1>1, <2>4, <2>6, CapNames, Zenon DEF capTask
    <3>2. \A r \in CapIds : capDown'[<<"sig", r>>] = capDown[<<"sig", r>>]
      BY <2>4, <2>6, CapNames, Zenon
    <3>3. \A r \in CapIds : r # s => capDown'[<<"ei", r>>] = capDown[<<"ei", r>>]
      BY <2>4, <2>6, CapNames, Zenon
    <3>4. \A r \in CapIds : capWatch'[r] # "done" => capDown'[<<"ei", r>>] = "no"
      BY <1>0, <2>3, <3>3, ZenonT(30) DEF CapDowns
    <3>5. \A b \in CapActors : capGot'[b] # 0 => capDown'[b] = "flag"
      BY <1>0, <1>1, <2>5, <2>6, Zenon DEF CapDowns
    <3>6. \A r \in CapIds : capSig'[r] = capSig[r]
      BY <2>2, Zenon
    <3>7. \A r \in CapIds : capSig'[r] # "done" => capDown'[<<"sig", r>>] = "no"
      BY <1>0, <3>2, <3>6, Zenon DEF CapDowns
    <3>8. \A t \in CapTasks : capDown'[t] # "no" => capPc'[t] \in {"leave", "recheck"}
      BY <1>0, <3>1, ZenonT(30) DEF CapDowns
    <3> QED BY <3>4, <3>5, <3>7, <3>8, Zenon DEF CapDowns
  <2>8. CapTypes'
    <3>1. capDown' \in [CapActors -> {"no", "rel", "take", "flag"}]
      BY <1>0, <2>1, <2>4, ZenonT(30) DEF CapTypes
    <3> QED BY <1>0, <1>1, <2>2, <2>3, <3>1, Zenon DEF CapTypes, capGate, capTask, capShared
  <2>9. CapFresh' /\ CapHeld'
    BY <1>0, <1>1, <2>2, <2>3, FreshFrame, HeldFrame, Zenon DEF capTask, capShared
  <2> QED BY <1>2, <2>7, <2>8, <2>9, Zenon DEF CaptureInv
<1> QED BY <1>3, <1>4, <1>5, <1>6, Zenon

\* Every step keeps the invariant.
LEMMA CaptureStep ==
    ASSUME CaptureInv, [CapNext]_capVars
    PROVE  CaptureInv'
<1>1. ASSUME NEW t \in CapTasks, CapTask(t)
      PROVE  CaptureInv'
  BY <1>1, CapTaskTypes, CapTaskOne, CapTaskFresh, CapTaskDowns, CapTaskHeld, Zenon DEF CaptureInv
<1>2. CASE UNCHANGED capVars
  <2>1. UNCHANGED <<capOwed, capEvents, capLast, capSlot, capPc, capSaw, capMine, capPortal, capSig,
                    capWatch, capDown, capGot, capBusy>>
    BY <1>2, Zenon DEF capVars, capGate, capTask, capShared, capSession, capTear
  <2>2. CapTypes'
    BY <2>1, Zenon DEF CaptureInv, CapTypes
  <2>3. CapOne'
    BY <2>1, OneFrame, Zenon DEF CaptureInv
  <2>4. CapFresh'
    BY <2>1, FreshFrame, Zenon DEF CaptureInv
  <2>5. CapDowns'
    BY <2>1, DownsFrame, Zenon DEF CaptureInv
  <2>6. CapHeld'
    BY <2>1, HeldFrame, Zenon DEF CaptureInv
  <2> QED BY <2>2, <2>3, <2>4, <2>5, <2>6, Zenon DEF CaptureInv
<1> QED BY <1>1, <1>2, CapTearStep, CapPeersStep, CapDesktopStep, Zenon DEF CapNext

\* It holds when the gate starts.
LEMMA CaptureInit == CapInit => CaptureInv /\ CapNoticed
<1> SUFFICES ASSUME CapInit PROVE CaptureInv /\ CapNoticed
  BY Zenon
<1>1. CapTypes
  BY Zenon DEF CapInit, CapTypes, CapEarly, CapLate
<1>2. CapOne /\ CapFresh
  BY Zenon DEF CapInit, CapOne, CapActivates, CapFresh, CapEarly, CapLate
<1>3. CapDowns /\ CapHeld /\ CapNoticed
  BY Zenon, CapNames DEF CapInit, CapDowns, CapHeld, CapNoticed, CapEarly, CapLate
<1> QED BY <1>1, <1>2, <1>3, Zenon DEF CaptureInv

\* A session stays armed only while a peer is there to use it (do_evaluate_after_event,
\* do_activate and do_deactivate): for any number of peers, sessions and changes.
THEOREM ArmedForSomebody == CapSpec => []ArmedHasPeer
<1>1. CaptureInv /\ CapNoticed /\ [CapNext]_capVars => CaptureInv' /\ CapNoticed'
  <2> SUFFICES ASSUME CaptureInv, CapNoticed, [CapNext]_capVars PROVE CaptureInv' /\ CapNoticed'
    BY Zenon
  <2>1. CapTypes /\ \A s \in CapIds : capSig[s] # "done" => capDown[<<"sig", s>>] = "no"
    BY Zenon DEF CaptureInv, CapDowns
  <2> QED BY <2>1, CaptureStep, NoticedStep, Zenon
<1>2. CapNoticed => ArmedHasPeer
  BY CapNames, SMTT(30) DEF CapNoticed, ArmedHasPeer, CapQuiet, CapLate
<1> QED BY <1>1, <1>2, CaptureInit, PTL DEF CapSpec

\* Never two portal sessions that are not being closed (activation_in_flight and the slot).
THEOREM SessionsAreOne == CapSpec => []OneSession
<1>1. CaptureInv => OneSession
  <2> SUFFICES ASSUME CaptureInv PROVE OneSession
    BY Zenon
  <2> DEFINE Kept(s) == capPortal[s] \in {"on", "disabled"} /\ \A a \in CapActors : capGot[a] # s
  <2>1. \E x : \A s \in CapIds : Kept(s) => s = x
    <3>1. CASE \E t \in CapTasks : capPc[t] \in CapEarly
      <4>1. PICK t \in CapTasks : capPc[t] \in CapEarly
        BY <3>1, Zenon
      <4>2. capSlot = 0 /\ \A u \in CapTasks : capPc[u] \in CapEarly => u = t
        BY <4>1, Zenon DEF CaptureInv, CapOne, CapActivates
      <4> QED BY <4>2, CapNames, ZenonT(30) DEF CaptureInv, CapHeld
    <3>2. CASE ~\E t \in CapTasks : capPc[t] \in CapEarly
      <4>1. \A s \in CapIds : Kept(s) => s = capSlot
        BY <3>2, Zenon DEF CaptureInv, CapHeld
      <4> QED BY <4>1, Zenon
    <3> QED BY <3>1, <3>2, Zenon
  <2> HIDE DEF Kept
  <2>2. \A r, s \in CapIds : Kept(r) /\ Kept(s) => r = s
    BY <2>1, Zenon
  <2> QED BY <2>2, Zenon DEF OneSession, Kept
<1> QED BY <1>1, CaptureInit, CaptureStep, PTL DEF CapSpec

-----------------------------------------------------------------------------
(* The barrier at the edge of the desktop.                                 *)

\* A set of numbers with 0 that has with a number its successor is Nat.
LEMMA ByStep ==
    ASSUME NEW K \in SUBSET Nat, 0 \in K, \A n \in K : n + 1 \in K
    PROVE  K = Nat
<1> SUFFICES ASSUME Nat \ K # {} PROVE FALSE
  BY Zenon
<1>1. PICK n \in Nat \ K : \A m \in Nat \ K : ~(<<m, n>> \in OpToRel(<, Nat))
  BY NatLessThanWellFounded, WFMin, Zenon
<1>2. n # 0 /\ n - 1 \in Nat
  OBVIOUS
<1>3. n - 1 \notin K
  BY <1>2
<1>4. <<n - 1, n>> \in OpToRel(<, Nat)
  BY <1>2 DEF OpToRel
<1> QED BY <1>1, <1>2, <1>3, <1>4, Zenon

\* The first of the least elements of the first n.
BarFirst(f, n, i) ==
    /\ i \in 1..n
    /\ \A j \in 1..n : f[i] <= f[j]
    /\ \A j \in 1..(i - 1) : f[i] < f[j]

\* The sort of edge_most_zone has a first element.
LEMMA FirstLeast ==
    ASSUME NEW m \in Nat, NEW f \in [1..m -> Int]
    PROVE  \A n \in 1..m : \E i \in 1..n : BarFirst(f, n, i)
<1> DEFINE K == {n \in Nat : n \in 1..m => \E i \in 1..n : BarFirst(f, n, i)}
<1>1. K \in SUBSET Nat /\ 0 \in K
  OBVIOUS
<1>2. ASSUME NEW n \in K PROVE n + 1 \in K
  <2> SUFFICES ASSUME n + 1 \in 1..m PROVE \E i \in 1..(n + 1) : BarFirst(f, n + 1, i)
    OBVIOUS
  <2>0. n \in Nat
    BY Zenon
  <2>1. CASE n = 0
    <3>1. BarFirst(f, 1, 1)
      BY <2>1 DEF BarFirst
    <3> QED BY <2>1, <3>1
  <2>2. CASE n # 0
    <3>1. PICK i \in 1..n : BarFirst(f, n, i)
      BY <2>0, <2>2
    <3>2. f[i] \in Int /\ f[n + 1] \in Int /\ \A j \in 1..n : f[j] \in Int
      BY <2>0
    <3>3. CASE f[i] <= f[n + 1]
      <4>1. BarFirst(f, n + 1, i)
        BY <2>0, <3>1, <3>2, <3>3, SMTT(30) DEF BarFirst
      <4> QED BY <2>0, <4>1
    <3>4. CASE f[n + 1] < f[i]
      <4>1. \A j \in 1..n : f[n + 1] < f[j]
        BY <2>0, <3>1, <3>2, <3>4 DEF BarFirst
      <4>2. (n + 1) - 1 = n /\ n + 1 \in 1..(n + 1)
        BY <2>0
      <4>3. \A j \in 1..(n + 1) : f[n + 1] <= f[j]
        <5> TAKE j \in 1..(n + 1)
        <5>1. j = n + 1 \/ j \in 1..n
          BY <2>0
        <5> QED BY <3>2, <4>1, <5>1, SMTT(30)
      <4>4. BarFirst(f, n + 1, n + 1)
        BY <4>1, <4>2, <4>3, Zenon DEF BarFirst
      <4> QED BY <4>2, <4>4, Zenon
    <3> QED BY <3>2, <3>3, <3>4
  <2> QED BY <2>1, <2>2, Zenon
<1>3. K = Nat
  <2> HIDE DEF K
  <2> QED BY <1>1, <1>2, ByStep, Zenon
<1>4. \A n \in 1..m : n \in K
  <2> HIDE DEF K
  <2> QED BY <1>3
<1> QED BY <1>4, Zenon

\* The zone at an edge is one of the desktop's, and none is further out.
LEMMA EdgeMost ==
    ASSUME NEW edge \in BarEdges, NEW zones \in BarLayouts
    PROVE  /\ BarEdgeMost(edge, zones) \in BarZones
           /\ \A j \in 1..Len(zones) : BarKey(edge, BarEdgeMost(edge, zones)) <= BarKey(edge, zones[j])
<1> DEFINE m == Len(zones)
           f == [j \in 1..m |-> BarKey(edge, zones[j])]
           Is(i) == /\ \A j \in 1..m : BarKey(edge, zones[i]) <= BarKey(edge, zones[j])
                    /\ \A j \in 1..(i - 1) : BarKey(edge, zones[i]) < BarKey(edge, zones[j])
<1>1. zones \in Seq(BarZones) /\ zones # <<>> /\ edge \in {"left", "right", "top", "bottom"}
  BY BarAssumption, Zenon
<1>2. m \in Nat /\ m # 0 /\ \A j \in 1..m : zones[j] \in BarZones
  BY <1>1
<1>3. \A z \in BarZones : BarKey(edge, z) \in Int
  BY <1>1, SMTT(30) DEF BarZones, BarKey
<1>4. f \in [1..m -> Int]
  BY <1>2, <1>3, Zenon
<1>5. PICK i \in 1..m : BarFirst(f, m, i)
  <2> HIDE DEF f
  <2>1. m \in 1..m
    BY <1>2
  <2> QED BY <1>2, <1>4, <2>1, FirstLeast, Zenon
<1>6. Is(i)
  <2>1. \A j \in 1..(i - 1) : j \in 1..m
    BY <1>2
  <2> QED BY <1>5, <2>1, Zenon DEF BarFirst
<1>7. PICK k : k = CHOOSE i0 \in 1..m : Is(i0)
  BY Zenon
<1>8. k \in 1..m /\ Is(k)
  <2> HIDE DEF Is, m
  <2> QED BY <1>6, <1>7, Zenon
<1>9. BarEdgeMost(edge, zones) = zones[k]
  BY <1>7, Zenon DEF BarEdgeMost
<1> QED BY <1>2, <1>8, <1>9, Zenon

\* The line of plan_barrier is a line, with everything of the desktop on one side.
LEMMA PlanIsOuter ==
    ASSUME NEW edge \in BarEdges, NEW zones \in BarLayouts
    PROVE  BarPlan(edge, zones) # BarNone /\ BarOutermost(edge, BarPlan(edge, zones), zones)
<1>0. zones \in Seq(BarZones) /\ edge \in {"left", "right", "top", "bottom"}
  BY BarAssumption, Zenon
<1>1. PICK z \in BarZones :
         /\ z = BarEdgeMost(edge, zones)
         /\ \A j \in 1..Len(zones) : BarKey(edge, z) <= BarKey(edge, zones[j])
  BY EdgeMost, Zenon
<1>2. \A j \in 1..Len(zones) : zones[j] \in BarZones
  BY <1>0
<1>3. CASE edge = "left"
  <2>1. BarPlan(edge, zones) = <<z.x, z.y, z.x, z.y + z.height - 1>>
    BY <1>1, <1>3, Zenon DEF BarPlan
  <2>2. \A j \in 1..Len(zones) : zones[j].x >= z.x
    BY <1>1, <1>2, <1>3, Zenon DEF BarKey, BarZones
  <2> QED BY <1>3, <2>1, <2>2 DEF BarOutermost, BarNone
<1>4. CASE edge = "right"
  <2>1. BarPlan(edge, zones) = <<z.x + z.width, z.y, z.x + z.width, z.y + z.height - 1>>
    BY <1>1, <1>4, Zenon DEF BarPlan
  <2>2. \A j \in 1..Len(zones) : zones[j].x + zones[j].width <= z.x + z.width
    BY <1>1, <1>2, <1>4 DEF BarKey, BarZones
  <2> QED BY <1>4, <2>1, <2>2 DEF BarOutermost, BarNone
<1>5. CASE edge = "top"
  <2>1. BarPlan(edge, zones) = <<z.x, z.y, z.x + z.width - 1, z.y>>
    BY <1>1, <1>5, Zenon DEF BarPlan
  <2>2. \A j \in 1..Len(zones) : zones[j].y >= z.y
    BY <1>1, <1>2, <1>5, Zenon DEF BarKey, BarZones
  <2> QED BY <1>5, <2>1, <2>2 DEF BarOutermost, BarNone
<1>6. CASE edge = "bottom"
  <2>1. BarPlan(edge, zones) = <<z.x, z.y + z.height, z.x + z.width - 1, z.y + z.height>>
    BY <1>1, <1>6, Zenon DEF BarPlan
  <2>2. \A j \in 1..Len(zones) : zones[j].y + zones[j].height <= z.y + z.height
    BY <1>1, <1>2, <1>6, SMTT(30) DEF BarKey, BarZones
  <2> QED BY <1>6, <2>1, <2>2 DEF BarOutermost, BarNone
<1> QED BY <1>0, <1>3, <1>4, <1>5, <1>6, Zenon

-----------------------------------------------------------------------------
\* The barrier is the one of the desktop as it is now.
BarOn ==
    /\ barLine = BarPlan(barEdge, barDesk.zones)
    /\ barOrigin = <<barLine[1], barLine[2]>>

\* The last signal not handled tells of it.
BarNews == barSignals # <<>> /\ barSignals[Len(barSignals)] = barDesk.id

BarTypes ==
    /\ barEdge \in BarEdges
    /\ barDesk \in [id : Nat, zones : BarLayouts]
    /\ barSignals \in Seq(Nat)
    /\ barSet \in Nat /\ barSet <= barDesk.id
    /\ barPc \in {"arm", "rearm"} => barGot \in [id : Nat, zones : BarLayouts] /\ barGot.id <= barDesk.id

\* A barrier that is out of date is followed by a signal of the desktop that replaced it,
\* and zones that are out of date by one that comes after the barrier.
BarFollows ==
    ~barMissed =>
        /\ barPc = "arm" => barGot = barDesk
        /\ barPc = "rearm" => barGot = barDesk \/ BarNews
        /\ barPc = "subscribe" => BarOn
        /\ barPc = "wait" => BarOn \/ BarNews

BarrierInv == BarTypes /\ BarFollows

\* A change of the desktop voids the barrier, and is signalled after all earlier ones.
LEMMA ChangeFollows ==
    ASSUME BarrierInv, NEW zones \in BarLayouts, BarChange(zones)
    PROVE  BarrierInv'
<1>1. barDesk' \in [id : Nat, zones : BarLayouts] /\ barDesk'.id = barDesk.id + 1
  BY DEF BarrierInv, BarTypes, BarChange
<1>2. CASE barPc \in {"zones", "arm", "subscribe"}
  <2>1. BarTypes'
    BY <1>1, <1>2 DEF BarrierInv, BarTypes, BarChange
  <2>2. CASE barPc = "zones"
    BY <2>1, <2>2, Zenon DEF BarrierInv, BarFollows, BarChange
  <2>3. CASE barPc # "zones"
    BY <1>2, <2>1, <2>3, Zenon DEF BarrierInv, BarFollows, BarChange
  <2> QED BY <2>2, <2>3, Zenon
<1>3. CASE barPc \notin {"zones", "arm", "subscribe"}
  <2>1. barSignals' = Append(barSignals, barDesk.id + 1) /\ barPc' = barPc
    BY <1>3, Zenon DEF BarChange
  <2>2. BarTypes'
    BY <1>1, <1>3, <2>1 DEF BarrierInv, BarTypes, BarChange
  <2>3. BarNews'
    BY <1>1, <2>1 DEF BarrierInv, BarTypes, BarNews
  <2> QED BY <1>3, <2>1, <2>2, <2>3, Zenon DEF BarrierInv, BarFollows
<1> QED BY <1>2, <1>3, Zenon

\* What the portal accepts is the desktop as it is now.
LEMMA ArmFollows ==
    ASSUME BarrierInv, BarArm \/ BarRearm
    PROVE  BarrierInv'
<1>0. barGot \in [id : Nat, zones : BarLayouts] /\ barGot.id <= barDesk.id
  BY Zenon DEF BarrierInv, BarTypes, BarArm, BarRearm
<1>1. UNCHANGED <<barEdge, barDesk, barSignals, barGot, barMissed>>
  BY Zenon DEF BarArm, BarRearm
<1>2. barSet' \in {barSet, barGot.id} /\ barPc' \in {"subscribe", "failed", "wait"}
  BY Zenon DEF BarArm, BarRearm, BarArmed
<1>3. BarTypes'
  BY <1>0, <1>1, <1>2, Zenon DEF BarrierInv, BarTypes
<1>4. BarArmed /\ barGot = barDesk => BarOn'
  BY <1>1, Zenon DEF BarArmed, BarOn
<1>5. BarNews' <=> BarNews
  BY <1>1, Zenon DEF BarNews
<1>6. CASE BarArm
  BY <1>1, <1>3, <1>4, <1>6 DEF BarrierInv, BarFollows, BarArm
<1>7. CASE BarRearm
  BY <1>1, <1>3, <1>4, <1>5, <1>7 DEF BarrierInv, BarFollows, BarRearm, BarAccepts
<1> QED BY <1>6, <1>7, Zenon

\* A signal taken is not the last one unless the zones are read again.
LEMMA SignalFollows ==
    ASSUME BarrierInv, BarSignal
    PROVE  BarrierInv'
<1>1. BarTypes'
  BY DEF BarrierInv, BarTypes, BarSignal
<1>2. CASE barPc' = "rezones"
  BY <1>1, <1>2, Zenon DEF BarrierInv, BarFollows
<1>3. CASE Head(barSignals) < barSet /\ barPc' = "wait"
  <2>1. BarOn => BarOn'
    BY Zenon DEF BarOn, BarSignal
  <2>2. ASSUME BarNews PROVE BarNews'
    <3>1. Len(barSignals) # 1
      BY <1>3, <2>2 DEF BarrierInv, BarTypes, BarNews
    <3>0. barSignals \in Seq(Nat) /\ barSignals # <<>> /\ barSignals' = Tail(barSignals)
      BY Zenon DEF BarrierInv, BarTypes, BarSignal
    <3>2. Len(barSignals) \in Nat /\ Len(barSignals) > 1
      <4>1. Len(barSignals) \in Nat /\ Len(barSignals) # 0
        BY <3>0
      <4> QED BY <3>1, <4>1
    <3>3. Len(barSignals') = Len(barSignals) - 1 /\ barSignals' \in Seq(Nat)
      BY <3>0
    <3>4. barSignals'[Len(barSignals) - 1] = barSignals[(Len(barSignals) - 1) + 1]
      BY <3>0, <3>2
    <3>5. barSignals' # <<>> /\ barSignals'[Len(barSignals')] = barSignals[Len(barSignals)]
      BY <3>2, <3>3, <3>4
    <3> QED BY <2>2, <3>5, Zenon DEF BarNews, BarSignal
  <2> QED BY <1>1, <1>3, <2>1, <2>2, Zenon DEF BarrierInv, BarFollows, BarSignal
<1> QED BY <1>2, <1>3, Zenon DEF BarSignal

\* Every step keeps the barrier, or the signal that will renew it.
LEMMA BarrierStep ==
    ASSUME BarrierInv, [BarNext]_barVars
    PROVE  BarrierInv'
<1>1. CASE BarGetZones
  <2>1. BarTypes'
    BY <1>1 DEF BarrierInv, BarTypes, BarGetZones
  <2> QED BY <1>1, <2>1, Zenon DEF BarrierInv, BarFollows, BarGetZones
<1>2. CASE BarSubscribe
  <2>1. BarTypes'
    BY <1>2, Zenon DEF BarrierInv, BarTypes, BarSubscribe
  <2>2. BarOn' <=> BarOn
    BY <1>2, Zenon DEF BarOn, BarSubscribe
  <2> QED BY <1>2, <2>1, <2>2, Zenon DEF BarrierInv, BarFollows, BarSubscribe
<1>3. CASE UNCHANGED barVars
  BY <1>3, Zenon DEF BarrierInv, BarTypes, BarFollows, BarOn, BarNews, barVars
<1> QED BY <1>1, <1>2, <1>3, ChangeFollows, ArmFollows, SignalFollows, Zenon DEF BarNext

\* Once the signals are handled the barrier lies on the outer border of the desktop as
\* it is now (plan_barrier, rearm_barriers), for every desktop and every number of
\* changes.
THEOREM BarrierOnBorder == BarSpec => []BarrierFollowsDesktop
<1>1. BarInit => BarrierInv
  BY DEF BarInit, BarrierInv, BarTypes, BarFollows
<1>2. ASSUME BarrierInv PROVE BarrierFollowsDesktop
  <2> SUFFICES ASSUME barPc = "wait", barSignals = <<>>, ~barMissed
               PROVE  /\ barLine # BarNone
                      /\ barOrigin = <<barLine[1], barLine[2]>>
                      /\ BarOutermost(barEdge, barLine, barDesk.zones)
    BY Zenon DEF BarrierFollowsDesktop
  <2>1. BarOn
    BY <1>2, Zenon DEF BarrierInv, BarFollows, BarNews
  <2>2. barEdge \in BarEdges /\ barDesk.zones \in BarLayouts
    BY <1>2, Zenon DEF BarrierInv, BarTypes
  <2> QED BY <2>1, <2>2, PlanIsOuter, Zenon DEF BarOn
<1> QED BY <1>1, <1>2, BarrierStep, PTL DEF BarSpec

-----------------------------------------------------------------------------
(* The portal session.                                                     *)

\* Who owns the session of a start, by the phase of the start: nobody while no start
\* is under way, the guard until the last call, the session only when it is up.
OwnerInv ==
    /\ KnownSessionHasOwner
    /\ poPhase = "idle" => poOwner = "none"
    /\ poPhase \notin {"up", "closing"} => poOwner \in {"none", "guard"}
    /\ poPhase \in {"up", "closing"} => poOwner = "session"

\* An error anywhere in start leaves a session the client knows of to a closing task.
LEMMA FailKeepsOwner ==
    ASSUME OwnerInv, poPhase \notin {"up", "closing"}, PoFail, UNCHANGED <<poTry, poLearnt>>
    PROVE  OwnerInv'
  BY Zenon DEF OwnerInv, KnownSessionHasOwner, PoFail, PoOnError

\* The next call of start, or its end, where the session takes over from the guard.
LEMMA AdvanceKeepsOwner ==
    ASSUME OwnerInv, poPhase \in {"reply", "await"}, PoAdvance,
           UNCHANGED <<poTry, poLearnt, poClosers>>
    PROVE  OwnerInv'
  BY Zenon DEF OwnerInv, KnownSessionHasOwner, PoAdvance

\* Every step of start, close, drop and the portal keeps the owner.
LEMMA OwnerStep ==
    ASSUME OwnerInv, [PoNext]_poVars
    PROVE  OwnerInv'
<1>1. CASE PoSubscribe
  BY <1>1, Zenon DEF PoSubscribe, OwnerInv, KnownSessionHasOwner
<1>2. CASE call_input_capture
  BY <1>2, Zenon DEF call_input_capture, OwnerInv, KnownSessionHasOwner
<1>3. CASE PoReply
  <2>1. poPhase = "reply" /\ UNCHANGED <<poTry, poLearnt>>
    BY <1>3, Zenon DEF PoReply
  <2>2. CASE PoFail
    BY <2>1, <2>2, FailKeepsOwner, Zenon
  <2>3. CASE PoAdvance /\ UNCHANGED poClosers
    BY <2>1, <2>3, AdvanceKeepsOwner, Zenon
  <2>4. CASE poPhase' = "await" /\ UNCHANGED <<poOwner, poClosers>>
    BY <2>1, <2>4, Zenon DEF OwnerInv, KnownSessionHasOwner
  <2> QED
    BY <1>3, <2>2, <2>3, <2>4, Zenon DEF PoReply
<1>4. CASE PoAwait
  <2>1. poPhase = "await" /\ poTry' = poTry
    BY <1>4, Zenon DEF PoAwait
  <2>2. CASE PoFail /\ UNCHANGED poLearnt
    BY <2>1, <2>2, FailKeepsOwner, Zenon
  <2>3. CASE PoAdvance /\ UNCHANGED <<poLearnt, poClosers>>
    BY <2>1, <2>3, AdvanceKeepsOwner, Zenon
  <2>4. CASE /\ poLearnt' = poLearnt \cup {poTry} /\ poOwner' = "guard"
             /\ poPhase' = "call" /\ UNCHANGED poClosers
    BY <2>1, <2>4, Zenon DEF OwnerInv, KnownSessionHasOwner
  <2> QED
    BY <1>4, <2>2, <2>3, <2>4, Zenon DEF PoAwait
<1>5. CASE decode_zones \/ PoTimeout
  BY <1>5, FailKeepsOwner, Zenon DEF decode_zones, PoTimeout
<1>6. CASE session_signal_stream
  <2>1. poPhase = "watch" /\ UNCHANGED <<poTry, poLearnt>>
    BY <1>6, Zenon DEF session_signal_stream
  <2>2. CASE PoFail
    BY <2>1, <2>2, FailKeepsOwner, Zenon
  <2>3. CASE poPhase' = "call" /\ UNCHANGED <<poOwner, poClosers>>
    BY <2>1, <2>3, Zenon DEF OwnerInv, KnownSessionHasOwner
  <2> QED
    BY <1>6, <2>2, <2>3, Zenon DEF session_signal_stream
<1>7. CASE PoCloseSession
  BY <1>7, Zenon DEF PoCloseSession, OwnerInv, KnownSessionHasOwner
<1>8. CASE PoClosed
  BY <1>8, Zenon DEF PoClosed, PoAskClose, OwnerInv, KnownSessionHasOwner
<1>9. CASE PoDrop
  BY <1>9, Zenon DEF PoDrop, OwnerInv, KnownSessionHasOwner
<1>10. CASE close_session_best_effort
  BY <1>10, Zenon DEF close_session_best_effort, PoAskClose, OwnerInv, KnownSessionHasOwner
<1>11. CASE PoAnswers \/ PoSignals \/ UNCHANGED poVars
  <2>1. UNCHANGED <<poTry, poPhase, poOwner, poClosers, poLearnt>>
    BY <1>11, Zenon DEF PoAnswers, PoSignals, poVars
  <2> QED
    BY <2>1, Zenon DEF OwnerInv, KnownSessionHasOwner
<1> QED
  BY <1>1, <1>2, <1>3, <1>4, <1>5, <1>6, <1>7, <1>8, <1>9, <1>10, <1>11, Zenon DEF PoNext

\* No session is forgotten: a portal session whose handle the client has learnt
\* is held by the start under way or on its way to be closed, for any number of
\* starts and whatever fails in them.
THEOREM SessionsAreClosed == PoSpec => []KnownSessionHasOwner
<1>1. PoInit => OwnerInv
  BY Zenon DEF PoInit, OwnerInv, KnownSessionHasOwner
<1>2. OwnerInv => KnownSessionHasOwner
  BY Zenon DEF OwnerInv
<1> QED
  BY <1>1, <1>2, OwnerStep, PTL DEF PoSpec

\* The Response rule is there from the first call to the last, the session's rule from
\* before Enable on; a request that is awaited is one that the portal answers.
HeardInv ==
    /\ poStep \in 0..5
    /\ poPhase \in {"idle", "call", "reply", "await", "watch", "up", "closing"}
    /\ poPhase \in {"call", "reply", "await", "watch"} => poStep # 0 /\ "response" \in poRules
    /\ poPhase = "await" => poStep \in {1, 3, 4}
    /\ poPhase = "watch" => poStep = 5
    /\ poPhase \in {"call", "reply"} /\ poStep = 5 => "session" \in poRules
    /\ poPhase = "up" => "session" \in poRules
    /\ poUnheard = {}

\* The calls by number.
LEMMA CallByNumber ==
    /\ Len(Calls) = 5
    /\ Calls[1] = "CreateSession" /\ Calls[2] = "ConnectToEIS" /\ Calls[3] = "GetZones"
    /\ Calls[4] = "SetPointerBarriers" /\ Calls[5] = "Enable"
  BY Zenon DEF Calls

\* A failure ends the start.
LEMMA FailHears ==
    ASSUME HeardInv, PoFail, UNCHANGED poUnheard
    PROVE  HeardInv'
  BY DEF HeardInv, PoFail

\* The next call, or the end of the start.
LEMMA AdvanceHears ==
    ASSUME HeardInv, poPhase \in {"reply", "await"}, PoAdvance, UNCHANGED poUnheard,
           poRules' = IF Call = "Enable" THEN poRules \ {"response"} ELSE poRules
    PROVE  HeardInv'
<1>1. poStep \in 1..5 /\ (Call = "Enable" <=> poStep = 5)
  BY CallByNumber, SMTT(30) DEF HeardInv, Call
<1>2. CASE poStep < 5
  <2>1. poStep' = poStep + 1 /\ poPhase' = IF poStep = 4 THEN "watch" ELSE "call"
    BY <1>1, <1>2, CallByNumber, SMTT(30) DEF PoAdvance
  <2> QED BY <1>1, <1>2, <2>1 DEF HeardInv
<1>3. CASE poStep = 5
  <2>1. poStep' = 0 /\ poPhase' = "up"
    BY <1>3, CallByNumber DEF PoAdvance
  <2> QED BY <1>1, <1>3, <2>1 DEF HeardInv
<1> QED BY <1>1, <1>2, <1>3

\* Every step keeps the rules ahead of the signals.
LEMMA HeardStep ==
    ASSUME HeardInv, [PoNext]_poVars
    PROVE  HeardInv'
<1>0. poPhase \in {"call", "reply", "await", "watch"} =>
         /\ (Call \in Answered <=> poStep \in {1, 3, 4}) /\ (Call = "CreateSession" <=> poStep = 1)
         /\ (Call = "Enable" <=> poStep = 5)
  BY CallByNumber DEF HeardInv, Call, Answered
<1>1. CASE PoSubscribe
  BY <1>1, SMTT(30) DEF HeardInv, PoSubscribe
<1>2. CASE call_input_capture
  BY <1>2, Zenon DEF HeardInv, call_input_capture
<1>3. CASE PoReply
  <2>1. CASE Call \in Answered /\ poPhase' = "await" /\ UNCHANGED <<poStep, poRules>>
    BY <1>0, <1>3, <2>1, Zenon DEF HeardInv, PoReply
  <2>2. CASE PoFail
    BY <1>3, <2>2, FailHears, Zenon DEF PoReply
  <2>3. CASE PoAdvance /\ poRules' = IF Call = "Enable" THEN poRules \ {"response"} ELSE poRules
    BY <1>3, <2>3, AdvanceHears, Zenon DEF PoReply
  <2> QED BY <1>3, <2>1, <2>2, <2>3, Zenon DEF PoReply
<1>4. CASE PoAwait
  <2>1. CASE PoFail
    BY <1>4, <2>1, FailHears, Zenon DEF PoAwait
  <2>2. CASE Call = "CreateSession" /\ poStep' = poStep + 1 /\ poPhase' = "call" /\ poRules' = poRules
    BY <1>0, <1>4, <2>2, SMTT(30) DEF HeardInv, PoAwait
  <2>3. CASE PoAdvance /\ poRules' = poRules
    <3>1. Call # "Enable"
      BY <1>0, <1>4 DEF HeardInv, PoAwait
    <3> QED BY <1>4, <2>3, <3>1, AdvanceHears, Zenon DEF PoAwait
  <2> QED BY <1>4, <2>1, <2>2, <2>3, Zenon DEF PoAwait
<1>5. CASE decode_zones \/ PoTimeout
  BY <1>5, FailHears, Zenon DEF decode_zones, PoTimeout
<1>6. CASE session_signal_stream
  <2>1. CASE PoFail
    BY <1>6, <2>1, FailHears, Zenon DEF session_signal_stream
  <2>2. CASE poRules' = poRules \cup {"session"} /\ poPhase' = "call" /\ UNCHANGED poStep
    BY <1>6, <2>2, Zenon DEF HeardInv, session_signal_stream
  <2> QED BY <1>6, <2>1, <2>2, Zenon DEF session_signal_stream
<1>7. CASE PoCloseSession \/ PoClosed \/ PoDrop \/ close_session_best_effort
  BY <1>7, Zenon DEF HeardInv, PoCloseSession, PoClosed, PoDrop, close_session_best_effort
<1>8. CASE PoAnswers
  <2>1. poUnheard' = poUnheard
    BY <1>8, Zenon DEF HeardInv, PoAnswers, PoWaits
  <2> QED BY <1>8, <2>1, ZenonT(30) DEF HeardInv, PoAnswers
<1>9. CASE PoSignals
  <2>1. "session" \in poRules
    BY <1>0, <1>9, Zenon DEF HeardInv, PoSignals
  <2> QED BY <1>9, <2>1, Zenon DEF HeardInv, PoSignals
<1>10. CASE UNCHANGED poVars
  BY <1>10, Zenon DEF HeardInv, poVars
<1> QED BY <1>1, <1>2, <1>3, <1>4, <1>5, <1>6, <1>7, <1>8, <1>9, <1>10, Zenon DEF PoNext

\* No signal that start waits for is sent before its match rule is there (start,
\* session_signal_stream): however the portal's answers are timed.
THEOREM SignalsAreHeard == PoSpec => []NothingUnheard
<1>1. PoInit => HeardInv
  BY DEF PoInit, HeardInv
<1>2. HeardInv => NothingUnheard
  BY Zenon DEF HeardInv, NothingUnheard
<1> QED BY <1>1, <1>2, HeardStep, PTL DEF PoSpec
=============================================================================
