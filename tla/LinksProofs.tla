--------------------------- MODULE LinksProofs ------------------------------
(***************************************************************************)
(* Theorems about links and about how they come about: the slots of the    *)
(* connection manager and their generations, which implement the slots of  *)
(* LinkSlot, the handshake by which a socket becomes the link of a device, *)
(* the datagrams by which daemons meet, and the registry of the devices    *)
(* they have met.                                                          *)
(***************************************************************************)
EXTENDS Links, Handshake, Meeting, DeviceRegistry, TLAPS

\* Every step of every task, peer or caller keeps TypeOK.
LEMMA TypeStep == TypeOK /\ [Next]_vars => TypeOK'
<1> SUFFICES ASSUME TypeOK, [Next]_vars PROVE TypeOK'
  BY Zenon
<1> USE LinksAssumption DEF TypeOK, Goto, PCs, LifeStates
<1>1. ASSUME NEW l \in Links, TaskStep(l) PROVE TypeOK'
  <2>1. CASE EvictCancel(l) BY <2>1, Zenon DEF EvictCancel, CancelLoop
  <2>2. CASE EvictRemove(l) BY <2>2, Zenon DEF EvictRemove, RemoveToken
  <2>3. CASE EvictShut(l) BY <2>3, Zenon DEF EvictShut
  <2>4. CASE ExchangeDown(l) BY <2>4, Zenon DEF ExchangeDown, MarkDown
  <2>5. CASE OutOld(l) BY <2>5, Zenon DEF OutOld
  <2>6. CASE OutCancel(l) BY <2>6 DEF OutCancel, CancelLoop
  <2>7. CASE OutRemove(l) BY <2>7, Zenon DEF OutRemove, RemoveToken
  <2>8. CASE OutInsert(l) BY <2>8, Zenon DEF OutInsert
  <2>9. CASE OutSnap(l) BY <2>9, Zenon DEF OutSnap
  <2>10. CASE OutRetain(l) BY <2>10, Zenon DEF OutRetain
  <2>11. CASE Register(l) BY <2>11 DEF Register, Current
  <2>12. CASE Connect(l) BY <2>12, Zenon DEF Connect
  <2>13. CASE LoopStale(l)
    <3>1. CASE TearDown(DevOf[l], l) /\ Goto(l, "markDown")
      BY <2>13, <3>1 DEF LoopStale, TearDown
    <3>2. CASE Goto(l, AfterLoop(l)) /\ UNCHANGED <<slot, token, usurped>>
      BY <2>13, <3>2, Zenon DEF LoopStale, AfterLoop
    <3> QED
      BY <2>13, <3>1, <3>2, Zenon DEF LoopStale, Disconnect
  <2>14. CASE LoopCancel(l) BY <2>14, Zenon DEF LoopCancel, RemoveToken, AfterLoop
  <2>15. CASE IdleDown(l) BY <2>15 DEF IdleDown, MarkDown
  <2>16. CASE LoopDown(l) BY <2>16, Zenon DEF LoopDown, MarkDown, AfterLoop
  <2>17. CASE Closing(l) BY <2>17, SMTT(30) DEF Closing, Disconnect, TearDown, Refused
  <2> QED
    BY Zenon, <1>1, <2>1, <2>2, <2>3, <2>4, <2>5, <2>6, <2>7, <2>8, <2>9, <2>10, <2>11,
       <2>12, <2>13, <2>14, <2>15, <2>16, <2>17 DEF TaskStep
<1>2. ASSUME NEW l \in Links, PeerStep(l) PROVE TypeOK'
  <2>1. CASE AcceptInsert(l) BY <2>1, SMTT(30) DEF AcceptInsert
  <2>2. CASE OutGen(l) BY <2>2 DEF OutGen
  <2>3. CASE AcceptTimeout(l) BY <2>3, Zenon DEF AcceptTimeout
  <2>4. CASE ExchangeOk(l) BY <2>4, Zenon DEF ExchangeOk
  <2>5. CASE ExchangeFail(l) BY <2>5, SMTT(30) DEF ExchangeFail, Disconnect, TearDown, Refused
  <2>6. CASE LoopEnd(l)
    <3>1. CASE TearDown(DevOf[l], l) /\ Goto(l, "markDown")
      BY <2>6, <3>1 DEF LoopEnd, TearDown
    <3>2. CASE Goto(l, AfterLoop(l)) /\ UNCHANGED <<slot, token, usurped>>
      BY <2>6, <3>2, Zenon DEF LoopEnd, AfterLoop
    <3> QED
      BY <2>6, <3>1, <3>2, Zenon DEF LoopEnd, Disconnect
  <2>7. CASE LoopIdle(l) BY <2>7, SMTT(30) DEF LoopIdle, Disconnect, TearDown, Refused
  <2>8. CASE LoopReject(l) BY <2>8, Zenon DEF LoopReject, AfterLoop
  <2> QED
    BY <1>2, <2>1, <2>2, <2>3, <2>4, <2>5, <2>6, <2>7, <2>8, ZenonT(30) DEF PeerStep
<1>3. ASSUME NEW d \in Devices, UserStep(d) PROVE TypeOK'
  <2>1. CASE SendStart(d) BY <2>1, Zenon DEF SendStart
  <2>2. CASE SendOk(d) BY <2>2, Zenon DEF SendOk
  <2>3. CASE SendFail(d) BY <2>3 DEF SendFail, TearDown, Refused
  <2>4. CASE ApiLookup(d) BY <2>4, Zenon DEF ApiLookup
  <2>5. CASE ApiTeardown(d) BY <2>5 DEF ApiTeardown, TearDown, Refused
  <2>6. CASE ApiDown(d) BY <2>6, Zenon DEF ApiDown, MarkDown
  <2>7. CASE ApiRemove(d) BY <2>7, Zenon DEF ApiRemove
  <2> QED
    BY <1>3, <2>1, <2>2, <2>3, <2>4, <2>5, <2>6, <2>7, Zenon DEF UserStep
<1>4. CASE UNCHANGED vars
  BY <1>4, Zenon DEF vars
<1> QED
  BY <1>1, <1>2, <1>3, <1>4, Zenon DEF Next

\* TypeOK holds in every reachable state of the connection manager.
THEOREM TypeCorrect == Spec => []TypeOK
<1>1. Init => TypeOK
  BY LinksAssumption DEF Init, TypeOK, LifeStates, PCs
<1> QED
  BY <1>1, TypeStep, PTL DEF Spec

(***************************************************************************)
(* GenerationNamesLink is not inductive: it does not say where a counter   *)
(* stands relative to the numbers already handed out, nor that every       *)
(* handle a task, a sender or an API call carries is a link of its own     *)
(* device that has a generation.                                           *)
(***************************************************************************)

\* A link past its allocation: rejected inbound links go from new to done.
Acting(l) == pc[l] \notin {"new", "done"}

\* What the code's captured handles satisfy.
HandleOK(d, h) == h # NoLink => DevOf[h] = d /\ gen[h] # 0

\* Numbers handed out never exceed the counter.
CounterInv == \A l \in Links : DevOf[l] \notin forgotten => gen[l] <= gens[DevOf[l]]

\* A task has a generation exactly from its allocation on.
TaskInv ==
    \A l \in Links : /\ pc[l] = "new" => gen[l] = 0
                     /\ Acting(l) => gen[l] # 0

HandleInv ==
    \A d \in Devices :
        /\ HandleOK(d, slot[d]) /\ HandleOK(d, send[d]) /\ HandleOK(d, api[d])
        /\ apiPc[d] = "teardown" => api[d] # NoLink

LinkInv ==
    /\ TypeOK /\ CounterInv /\ TaskInv /\ HandleInv
    /\ GenerationNamesLink /\ NoUsurpedTeardown

\* A disconnect by the holder of a generation empties the slot of its own
\* device only, and takes no other link with it unless the counter is lost.
LEMMA TearDownStep ==
    ASSUME LinkInv, NEW d \in Devices, NEW owner \in Links, DevOf[owner] = d,
           gen[owner] # 0, TearDown(d, owner), UNCHANGED <<gen, forgotten>>
    PROVE  /\ NoUsurpedTeardown'
           /\ \A e \in Devices : HandleOK(e, slot[e])'
<1>1. NoUsurpedTeardown'
  <2>1. ASSUME slot[d] \notin {owner, NoLink} PROVE d \in forgotten
    BY <2>1, LinksAssumption
    DEF LinkInv, HandleInv, HandleOK, GenerationNamesLink, TearDown, Refused, TypeOK
  <2>2. ASSUME slot[d] # NoLink PROVE DevOf[slot[d]] = d
    BY <2>2, Zenon DEF LinkInv, HandleInv, HandleOK
  <2> QED
    BY <2>1, <2>2, Zenon DEF LinkInv, NoUsurpedTeardown, TearDown
<1>2. ASSUME NEW e \in Devices PROVE HandleOK(e, slot[e])'
  BY <1>2, LinksAssumption, Zenon DEF LinkInv, HandleInv, HandleOK, TearDown, TypeOK
<1> QED
  BY <1>1, <1>2, Zenon

\* A disconnect by a running task leaves the handles of senders and API calls
\* alone and takes no other link with it unless the counter is lost.
LEMMA DisconnectStep ==
    ASSUME LinkInv, NEW l \in Links, Acting(l), NEW onTrue, NEW onFalse,
           Disconnect(l, onTrue, onFalse),
           UNCHANGED <<gen, send, api, apiPc, forgotten>>
    PROVE  NoUsurpedTeardown' /\ HandleInv'
<1>1. DevOf[l] \in Devices /\ gen[l] # 0
  BY LinksAssumption, Zenon DEF LinkInv, TaskInv
<1>2. NoUsurpedTeardown' /\ \A e \in Devices : HandleOK(e, slot[e])'
  <2>1. CASE TearDown(DevOf[l], l)
    BY <1>1, <2>1, TearDownStep, Zenon
  <2>2. CASE UNCHANGED <<slot, usurped>>
    BY <2>2, Zenon DEF LinkInv, NoUsurpedTeardown, HandleInv, HandleOK
  <2> QED
    BY <2>1, <2>2, Zenon DEF Disconnect
<1>3. \A e \in Devices : /\ HandleOK(e, send[e])' /\ HandleOK(e, api[e])'
                         /\ apiPc'[e] = "teardown" => api'[e] # NoLink
  BY Zenon DEF LinkInv, HandleInv, HandleOK
<1> QED
  BY <1>2, <1>3, Zenon DEF HandleInv

\* A step that hands out no number, discards no counter and touches no handle
\* keeps the invariant when the task it moves was already acting.
LEMMA QuietStep ==
    ASSUME LinkInv, TypeOK', NEW l \in Links, Acting(l),
           \A m \in Links \ {l} : pc'[m] = pc[m], pc'[l] # "new",
           UNCHANGED <<gens, gen, forgotten>>
    PROVE  CounterInv' /\ TaskInv' /\ GenerationNamesLink'
BY LinksAssumption, Zenon
DEF LinkInv, CounterInv, TaskInv, GenerationNamesLink, Acting, TypeOK

\* Every step keeps the invariant.
LEMMA LinkStep == LinkInv /\ [Next]_vars => LinkInv'
<1> SUFFICES ASSUME LinkInv, [Next]_vars PROVE LinkInv'
  BY Zenon
<1>0. TypeOK /\ TypeOK'
  BY TypeStep, Zenon DEF LinkInv
<1>1. ASSUME NEW l \in Links, TaskStep(l) PROVE LinkInv'
  <2>1. CASE OutInsert(l)
    <3>1. CounterInv' /\ TaskInv' /\ GenerationNamesLink'
      BY <2>1, <1>0, QuietStep, LinksAssumption, Zenon DEF OutInsert, Acting, Goto, TypeOK
    <3>2. HandleInv'
      BY <2>1, <1>0, LinksAssumption
      DEF OutInsert, LinkInv, HandleInv, HandleOK, TaskInv, Acting, TypeOK
    <3> QED
      BY <1>0, <2>1, <3>1, <3>2, Zenon DEF LinkInv, NoUsurpedTeardown, OutInsert
  <2>2. CASE OutRetain(l)
    <3>1. CounterInv' /\ GenerationNamesLink' /\ NoUsurpedTeardown'
      BY <2>2, <1>0, LinksAssumption, Zenon
      DEF OutRetain, LinkInv, CounterInv, GenerationNamesLink, NoUsurpedTeardown, TypeOK
    <3>2. TaskInv' /\ HandleInv'
      BY <2>2, <1>0, LinksAssumption, ZenonT(30)
      DEF OutRetain, LinkInv, TaskInv, HandleInv, HandleOK, Acting, Goto, TypeOK
    <3> QED
      BY <1>0, <3>1, <3>2, Zenon DEF LinkInv
  <2>3. CASE LoopStale(l) \/ Closing(l)
    <3>1. CounterInv' /\ TaskInv' /\ GenerationNamesLink'
      BY <2>3, <1>0, QuietStep, LinksAssumption
      DEF LoopStale, Closing, Disconnect, Acting, Goto, AfterLoop, TypeOK
    <3>2. NoUsurpedTeardown' /\ HandleInv'
      <4>1. /\ Acting(l) /\ UNCHANGED <<gen, send, api, apiPc, forgotten>>
            /\ \E onTrue, onFalse \in PCs : Disconnect(l, onTrue, onFalse)
        BY <2>3, Zenon DEF LoopStale, Closing, Acting, AfterLoop, PCs
      <4> QED
        BY <4>1, DisconnectStep, Zenon
    <3> QED
      BY <1>0, <3>1, <3>2, Zenon DEF LinkInv
  <2>4. CASE \/ EvictCancel(l) \/ EvictRemove(l) \/ EvictShut(l) \/ ExchangeDown(l)
             \/ OutOld(l) \/ OutCancel(l) \/ OutRemove(l) \/ OutSnap(l)
             \/ Register(l) \/ Connect(l) \/ LoopCancel(l) \/ IdleDown(l) \/ LoopDown(l)
    <3>1. /\ UNCHANGED <<gens, gen, slot, send, api, apiPc, forgotten, usurped>>
          /\ Acting(l) /\ pc'[l] # "new" /\ \A m \in Links \ {l} : pc'[m] = pc[m]
      BY <2>4, <1>0, ZenonT(30)
      DEF EvictCancel, EvictRemove, EvictShut, ExchangeDown, OutOld, OutCancel, OutRemove,
          OutSnap, Register, Connect, LoopCancel, IdleDown, LoopDown, Acting, Goto,
          AfterLoop, TypeOK
    <3>2. CounterInv' /\ TaskInv' /\ GenerationNamesLink'
      BY <3>1, <1>0, QuietStep, Zenon
    <3> QED
      BY <1>0, <3>1, <3>2, ZenonT(30) DEF LinkInv, HandleInv, HandleOK, NoUsurpedTeardown
  <2> QED
    BY <1>1, <2>1, <2>2, <2>3, <2>4, Zenon DEF TaskStep
<1>2. ASSUME NEW l \in Links, PeerStep(l) PROVE LinkInv'
  <2>1. CASE AcceptInsert(l)
    <3>1. CounterInv' /\ GenerationNamesLink'
      BY <2>1, <1>0, LinksAssumption, SMTT(30)
      DEF AcceptInsert, LinkInv, CounterInv, GenerationNamesLink, TypeOK
    <3>2. TaskInv' /\ HandleInv'
      BY <2>1, <1>0, LinksAssumption, SMTT(30)
      DEF AcceptInsert, LinkInv, TaskInv, HandleInv, HandleOK, Acting, Goto, TypeOK
    <3> QED
      BY <1>0, <2>1, <3>1, <3>2, Zenon DEF LinkInv, NoUsurpedTeardown, AcceptInsert
  <2>2. CASE OutGen(l)
    <3>1. CounterInv' /\ GenerationNamesLink'
      BY <2>2, <1>0, LinksAssumption, SMTT(30)
      DEF OutGen, LinkInv, CounterInv, GenerationNamesLink, TypeOK
    <3>2. TaskInv' /\ HandleInv'
      BY <2>2, <1>0, LinksAssumption, SMTT(30)
      DEF OutGen, LinkInv, TaskInv, HandleInv, HandleOK, Acting, Goto, TypeOK
    <3> QED
      BY <1>0, <2>2, <3>1, <3>2, ZenonT(30) DEF LinkInv, NoUsurpedTeardown, OutGen
  <2>3. CASE ExchangeFail(l) \/ LoopEnd(l) \/ LoopIdle(l)
    <3>1. CounterInv' /\ TaskInv' /\ GenerationNamesLink'
      <4>1. /\ Acting(l) /\ UNCHANGED <<gens, gen, forgotten>>
            /\ \E next \in PCs \ {"new"} : Goto(l, next)
        BY <2>3, ZenonT(30)
        DEF ExchangeFail, LoopEnd, LoopIdle, Disconnect, Acting, AfterLoop, PCs
      <4>2. pc'[l] # "new" /\ \A m \in Links \ {l} : pc'[m] = pc[m]
        BY <4>1, <1>0, Zenon DEF Goto, TypeOK
      <4> QED
        BY <4>1, <4>2, <1>0, QuietStep, Zenon
    <3>2. NoUsurpedTeardown' /\ HandleInv'
      <4>1. /\ Acting(l) /\ UNCHANGED <<gen, send, api, apiPc, forgotten>>
            /\ \E onTrue, onFalse \in PCs : Disconnect(l, onTrue, onFalse)
        BY <2>3, Zenon DEF ExchangeFail, LoopEnd, LoopIdle, Acting, AfterLoop, PCs
      <4> QED
        BY <4>1, DisconnectStep, Zenon
    <3> QED
      BY <1>0, <3>1, <3>2, Zenon DEF LinkInv
  <2>4. CASE AcceptTimeout(l) \/ ExchangeOk(l) \/ LoopReject(l)
    <3>1. /\ UNCHANGED <<gens, gen, slot, send, api, apiPc, forgotten, usurped>>
          /\ Acting(l) /\ pc'[l] # "new" /\ \A m \in Links \ {l} : pc'[m] = pc[m]
      BY <2>4, <1>0, ZenonT(30)
      DEF AcceptTimeout, ExchangeOk, LoopReject, Acting, Goto, AfterLoop, TypeOK
    <3>2. CounterInv' /\ TaskInv' /\ GenerationNamesLink'
      BY <3>1, <1>0, QuietStep, Zenon
    <3> QED
      BY <1>0, <3>1, <3>2, Zenon DEF LinkInv, HandleInv, HandleOK, NoUsurpedTeardown
  <2> QED
    BY <1>2, <2>1, <2>2, <2>3, <2>4, Zenon DEF PeerStep
<1>3. ASSUME NEW d \in Devices, UserStep(d) PROVE LinkInv'
  <2>1. UNCHANGED <<gens, gen, pc, forgotten>>
    BY <1>3, ZenonT(30) DEF UserStep, SendStart, SendOk, SendFail, ApiLookup, ApiTeardown, ApiDown,
                ApiRemove
  <2>2. CounterInv' /\ TaskInv' /\ GenerationNamesLink'
    BY <2>1, ZenonT(30) DEF LinkInv, CounterInv, TaskInv, GenerationNamesLink, Acting
  <2>3. CASE SendFail(d)
    <3>1. NoUsurpedTeardown' /\ \A e \in Devices : HandleOK(e, slot[e])'
      <4>1. /\ send[d] \in Links /\ DevOf[send[d]] = d /\ gen[send[d]] # 0
            /\ TearDown(d, send[d]) \/ UNCHANGED <<slot, usurped>>
        BY <2>3, <1>0, SMTT(30) DEF SendFail, LinkInv, HandleInv, HandleOK, TypeOK
      <4>2. CASE TearDown(d, send[d])
        BY <4>1, <4>2, <2>1, TearDownStep, Zenon
      <4>3. CASE UNCHANGED <<slot, usurped>>
        BY <4>3, <2>1, ZenonT(30) DEF LinkInv, HandleInv, HandleOK, NoUsurpedTeardown
      <4> QED
        BY <4>1, <4>2, <4>3, Zenon
    <3>2. ASSUME NEW e \in Devices
          PROVE  /\ HandleOK(e, send[e])' /\ HandleOK(e, api[e])'
                 /\ apiPc'[e] = "teardown" => api'[e] # NoLink
      <4>1. /\ send'[e] = IF e = d THEN NoLink ELSE send[e]
            /\ UNCHANGED <<gen, api, apiPc>>
        BY <2>3, <1>0, ZenonT(30) DEF SendFail, TypeOK
      <4> QED
        BY <4>1, Zenon DEF LinkInv, HandleInv, HandleOK
    <3> QED
      BY <1>0, <2>2, <3>1, <3>2, ZenonT(30) DEF LinkInv, HandleInv
  <2>4. CASE ApiTeardown(d)
    <3>1. NoUsurpedTeardown' /\ \A e \in Devices : HandleOK(e, slot[e])'
      <4>1. /\ api[d] \in Links /\ DevOf[api[d]] = d /\ gen[api[d]] # 0
            /\ TearDown(d, api[d]) \/ UNCHANGED <<slot, usurped>>
        BY <2>4, <1>0, SMTT(30) DEF ApiTeardown, LinkInv, HandleInv, HandleOK, TypeOK
      <4>2. CASE TearDown(d, api[d])
        BY <4>1, <4>2, <2>1, TearDownStep, Zenon
      <4>3. CASE UNCHANGED <<slot, usurped>>
        BY <4>3, <2>1, ZenonT(30) DEF LinkInv, HandleInv, HandleOK, NoUsurpedTeardown
      <4> QED
        BY <4>1, <4>2, <4>3, Zenon
    <3>2. ASSUME NEW e \in Devices
          PROVE  /\ HandleOK(e, send[e])' /\ HandleOK(e, api[e])'
                 /\ apiPc'[e] = "teardown" => api'[e] # NoLink
      <4>1. /\ send'[e] = send[e] /\ gen' = gen
            /\ api'[e] = IF e = d THEN NoLink ELSE api[e]
            /\ apiPc'[e] = "teardown" => e # d /\ apiPc[e] = "teardown"
        BY <2>4, <1>0 DEF ApiTeardown, TypeOK
      <4> QED
        BY <4>1, ZenonT(30) DEF LinkInv, HandleInv, HandleOK
    <3> QED
      BY <1>0, <2>2, <3>1, <3>2, Zenon DEF LinkInv, HandleInv
  <2>5. CASE SendStart(d) \/ SendOk(d) \/ ApiLookup(d) \/ ApiDown(d) \/ ApiRemove(d)
    <3>1. UNCHANGED <<gen, slot, usurped, forgotten>>
      BY <2>5, ZenonT(30) DEF SendStart, SendOk, ApiLookup, ApiDown, ApiRemove
    <3>2. ASSUME NEW e \in Devices
          PROVE  /\ send'[e] \in {send[e], slot[e], NoLink}
                 /\ api'[e] \in {api[e], slot[e]}
                 /\ apiPc'[e] = "teardown" =>
                       (apiPc[e] = "teardown" /\ api'[e] = api[e]) \/ api'[e] # NoLink
      <4>1. CASE SendStart(d) \/ SendOk(d)
        BY <4>1, <1>0 DEF SendStart, SendOk, TypeOK
      <4>2. CASE ApiLookup(d)
        BY <4>2, <1>0, Zenon DEF ApiLookup, TypeOK
      <4>3. CASE ApiDown(d) \/ ApiRemove(d)
        BY <4>3, <1>0, Zenon DEF ApiDown, ApiRemove, TypeOK
      <4> QED
        BY <2>5, <4>1, <4>2, <4>3, ZenonT(30)
    <3>3. HandleInv'
      BY <3>1, <3>2 DEF LinkInv, HandleInv, HandleOK
    <3> QED
      BY <1>0, <2>2, <3>1, <3>3, Zenon DEF LinkInv, NoUsurpedTeardown
  <2> QED
    BY <1>3, <2>3, <2>4, <2>5, Zenon DEF UserStep
<1>4. CASE UNCHANGED vars
  BY <1>0, <1>4, ZenonT(30)
  DEF vars, LinkInv, CounterInv, TaskInv, HandleInv, HandleOK, Acting,
      GenerationNamesLink, NoUsurpedTeardown
<1> QED
  BY <1>1, <1>2, <1>3, <1>4, Zenon DEF Next

\* The connection manager starts in the invariant and never leaves it.
THEOREM LinkInvariant == Spec => []LinkInv
<1>1. Init => LinkInv
  <2> SUFFICES ASSUME Init PROVE LinkInv
    BY Zenon
  <2>1. TypeOK
    BY LinksAssumption, Zenon DEF Init, TypeOK, LifeStates, PCs
  <2> QED
    BY <2>1, LinksAssumption
    DEF Init, LinkInv, CounterInv, TaskInv, HandleInv, HandleOK, Acting,
        GenerationNamesLink, NoUsurpedTeardown
<1> QED
  BY <1>1, LinkStep, PTL DEF Spec

\* Two links of one device never carry the same generation, whatever the order
\* in which the listener and the dialler allocate, while the device's counter
\* has not been discarded.
THEOREM GenerationsUnique == Spec => []GenerationNamesLink
<1>1. LinkInv => GenerationNamesLink
  BY Zenon DEF LinkInv
<1> QED
  BY <1>1, LinkInvariant, PTL

\* disconnect, called by a stale loop, a failed send or a slow API request,
\* never removes a replacement link while the counter has not been discarded.
THEOREM TeardownOwnsLink == Spec => []NoUsurpedTeardown
<1>1. LinkInv => NoUsurpedTeardown
  BY Zenon DEF LinkInv
<1> QED
  BY <1>1, LinkInvariant, PTL

(***************************************************************************)
(* Links implements LinkSlot: the two inserts are Take, a refused accept   *)
(* is TurnAway, every disconnect is Leave, and all else is a stutter.      *)
(***************************************************************************)

\* The links past their insert, as the refinement mapping has them.
Spent == {l \in Links : pc[l] \notin {"new", "outOld", "outCancel", "outRemove", "outInsert"}}

\* A disconnect is a Leave of the task's device, or changes nothing.
LEMMA DisconnectLeaves ==
    ASSUME TypeOK, NEW l \in Links, l \in Spent, NEW onTrue, NEW onFalse,
           {onTrue, onFalse} \subseteq PCs \ {"new", "outOld", "outCancel", "outRemove", "outInsert"},
           Disconnect(l, onTrue, onFalse)
    PROVE  Slot!Leave(DevOf[l]) \/ UNCHANGED Slot!slotVars
<1>1. Spent' = Spent
  BY ZenonT(30) DEF Disconnect, Goto, TypeOK, Spent
<1>2. CASE TearDown(DevOf[l], l)
  BY <1>1, <1>2, ZenonT(30) DEF TearDown, Slot!Leave, Spent
<1>3. CASE UNCHANGED slot
  BY <1>1, <1>3, ZenonT(30) DEF Slot!slotVars, Spent
<1> QED
  BY <1>2, <1>3, ZenonT(30) DEF Disconnect

\* Every step of the connection manager is a step of the abstract slot.
LEMMA SlotStep == TypeOK /\ [Next]_vars => [Slot!SlotNext]_Slot!slotVars
<1> SUFFICES ASSUME TypeOK, [Next]_vars PROVE [Slot!SlotNext]_Slot!slotVars
  BY Zenon
<1>1. ASSUME NEW l \in Links, TaskStep(l) PROVE [Slot!SlotNext]_Slot!slotVars
  <2>1. CASE OutInsert(l)
    <3>1. l \notin Spent /\ Spent' = Spent \cup {l}
      BY <2>1, ZenonT(30) DEF OutInsert, Goto, TypeOK, Spent
    <3>2. Slot!Take(l)
      BY <2>1, <3>1, Zenon DEF OutInsert, Slot!Take, Spent
    <3> QED
      BY <3>2, Zenon DEF Slot!SlotNext
  <2>2. CASE LoopStale(l) \/ Closing(l)
    <3>1. /\ l \in Spent
          /\ \E onTrue, onFalse \in PCs \ {"new", "outOld", "outCancel", "outRemove", "outInsert"} :
                Disconnect(l, onTrue, onFalse)
      BY <2>2, ZenonT(30) DEF LoopStale, Closing, AfterLoop, PCs, Spent
    <3>2. Slot!Leave(DevOf[l]) \/ UNCHANGED Slot!slotVars
      BY <3>1, DisconnectLeaves, ZenonT(30)
    <3> QED
      BY <3>2, LinksAssumption, Zenon DEF Slot!SlotNext
  <2>3. CASE \/ EvictCancel(l) \/ EvictRemove(l) \/ EvictShut(l) \/ ExchangeDown(l)
             \/ OutOld(l) \/ OutCancel(l) \/ OutRemove(l) \/ OutSnap(l) \/ OutRetain(l)
             \/ Register(l) \/ Connect(l) \/ LoopCancel(l) \/ IdleDown(l) \/ LoopDown(l)
    <3>1. UNCHANGED slot
      BY <2>3, ZenonT(30)
      DEF EvictCancel, EvictRemove, EvictShut, ExchangeDown, OutOld, OutCancel, OutRemove,
          OutSnap, OutRetain, Register, Connect, LoopCancel, IdleDown, LoopDown
    <3>2. Spent' = Spent
      BY <2>3, ZenonT(30)
      DEF EvictCancel, EvictRemove, EvictShut, ExchangeDown, OutOld, OutCancel, OutRemove,
          OutSnap, OutRetain, Register, Connect, LoopCancel, IdleDown, LoopDown, Goto,
          AfterLoop, TypeOK, Spent
    <3> QED
      BY <3>1, <3>2, ZenonT(30) DEF Slot!slotVars, Spent
  <2> QED
    BY <1>1, <2>1, <2>2, <2>3, ZenonT(30) DEF TaskStep
<1>2. ASSUME NEW l \in Links, PeerStep(l) PROVE [Slot!SlotNext]_Slot!slotVars
  <2>1. CASE AcceptInsert(l)
    <3>1. l \notin Spent /\ Spent' = Spent \cup {l}
      BY <2>1 DEF AcceptInsert, Goto, TypeOK, Spent
    <3>2. Slot!Take(l) \/ Slot!TurnAway(l)
      BY <2>1, <3>1, Zenon DEF AcceptInsert, Slot!Take, Slot!TurnAway, Spent
    <3> QED
      BY <3>2, Zenon DEF Slot!SlotNext
  <2>2. CASE ExchangeFail(l) \/ LoopEnd(l) \/ LoopIdle(l)
    <3>1. /\ l \in Spent
          /\ \E onTrue, onFalse \in PCs \ {"new", "outOld", "outCancel", "outRemove", "outInsert"} :
                Disconnect(l, onTrue, onFalse)
      BY <2>2, ZenonT(30) DEF ExchangeFail, LoopEnd, LoopIdle, AfterLoop, PCs, Spent
    <3>2. Slot!Leave(DevOf[l]) \/ UNCHANGED Slot!slotVars
      BY <3>1, DisconnectLeaves, Zenon
    <3> QED
      BY <3>2, LinksAssumption, Zenon DEF Slot!SlotNext
  <2>3. CASE OutGen(l) \/ AcceptTimeout(l) \/ ExchangeOk(l) \/ LoopReject(l)
    <3>1. UNCHANGED slot
      BY <2>3, ZenonT(30) DEF OutGen, AcceptTimeout, ExchangeOk, LoopReject
    <3>2. Spent' = Spent
      BY <2>3, ZenonT(30) DEF OutGen, AcceptTimeout, ExchangeOk, LoopReject, Goto, AfterLoop, TypeOK, Spent
    <3> QED
      BY <3>1, <3>2, Zenon DEF Slot!slotVars, Spent
  <2> QED
    BY <1>2, <2>1, <2>2, <2>3, Zenon DEF PeerStep
<1>3. ASSUME NEW d \in Devices, UserStep(d) PROVE [Slot!SlotNext]_Slot!slotVars
  <2>1. Spent' = Spent
    BY <1>3, ZenonT(30) DEF UserStep, SendStart, SendOk, SendFail, ApiLookup, ApiTeardown, ApiDown,
                ApiRemove, Spent
  <2>2. UNCHANGED slot \/ slot' = [slot EXCEPT ![d] = NoLink]
    BY <1>3, ZenonT(30) DEF UserStep, SendStart, SendOk, SendFail, ApiLookup, ApiTeardown, ApiDown,
                ApiRemove, TearDown
  <2> QED
    BY <2>1, <2>2, Zenon DEF Slot!SlotNext, Slot!Leave, Slot!slotVars, Spent
<1>4. CASE UNCHANGED vars
  BY <1>4, Zenon DEF vars, Slot!slotVars
<1> QED
  BY <1>1, <1>2, <1>3, <1>4, Zenon DEF Next

\* The connection manager implements the abstract slot, for any devices and
\* links and with discarded counters included.
THEOREM ImplementsSlot == Spec => SlotImplemented
<1>1. Init => Slot!SlotInit
  BY DEF Init, Slot!SlotInit
<1> QED
  BY <1>1, SlotStep, TypeCorrect, PTL DEF Spec, SlotImplemented, Slot!SlotSpec

-----------------------------------------------------------------------------
(* Who is at the other end of a socket (protocol/connection).              *)

HsLabels == {"idle", "plain", "greet", "tls", "verify", "sealed", "insert", "exchange", "up", "closed"}

\* What a socket has shown by the time it is at a label: an accepted one its
\* plaintext identity, then a certificate made out to it, then the same
\* identity over TLS; a dialled one both at once.
Shown(s) ==
    /\ s \in HsAccepted /\ hsAt[s] \in {"tls", "verify", "insert", "exchange", "up"} =>
          hsPlain[s] \in HsHellos /\ plaintext_ok(hsPlain[s])
    /\ s \in HsAccepted /\ hsAt[s] \in {"insert", "exchange", "up"} =>
          (hsCert[s] # HsNone => HsCn(hsCert[s]) = hsPlain[s].id)
    /\ s \in HsAccepted /\ hsAt[s] = "up" => sealed_ok(hsSealed[s], hsPlain[s])
    /\ s \in HsDialled /\ hsAt[s] \in {"insert", "up"} =>
          /\ from_packet_ok(hsSealed[s])
          /\ hsPlain[s] # HsNone => sealed_ok(hsSealed[s], hsPlain[s])
          /\ hsCert[s] # HsNone => HsCn(hsCert[s]) = hsSealed[s].id

\* The entry of a device is a socket that has got that far, under the id it
\* has shown.
Filed(d) ==
    hsSlot[d] # HsNone =>
        \/ /\ hsSlot[d] \in HsAccepted /\ hsAt[hsSlot[d]] \in {"exchange", "up"}
           /\ hsPlain[hsSlot[d]].id = d
        \/ /\ hsSlot[d] \in HsDialled /\ hsAt[hsSlot[d]] = "up"
           /\ hsSealed[hsSlot[d]].id = d

HandshakeInv ==
    /\ hsAt \in [HsSockets -> HsLabels]
    /\ DOMAIN hsPlain = HsSockets /\ DOMAIN hsCert = HsSockets /\ DOMAIN hsSealed = HsSockets
    /\ DOMAIN hsSlot = HsKnown
    /\ \A s \in HsSockets : Shown(s)
    /\ \A s \in HsDialled : hsAt[s] \notin {"plain", "verify", "exchange"}
    /\ \A s \in HsAccepted : hsAt[s] \notin {"greet", "sealed"}
    /\ \A d \in HsKnown : Filed(d)

\* A step of socket s that leaves the table alone, while s is not in it.
LEMMA BeforeTheTable ==
    ASSUME HandshakeInv, NEW s \in HsSockets, NEW l \in HsLabels, HsGo(s, l), UNCHANGED hsSlot,
           hsAt[s] \notin {"exchange", "up"},
           \A u \in HsSockets : u # s => /\ hsPlain'[u] = hsPlain[u] /\ hsCert'[u] = hsCert[u]
                                         /\ hsSealed'[u] = hsSealed[u],
           DOMAIN hsPlain' = HsSockets, DOMAIN hsCert' = HsSockets, DOMAIN hsSealed' = HsSockets,
           s \in HsDialled => l \notin {"plain", "verify", "exchange"},
           s \in HsAccepted => l \notin {"greet", "sealed"},
           Shown(s)'
    PROVE  HandshakeInv'
<1>1. /\ hsAt' \in [HsSockets -> HsLabels] /\ hsAt'[s] = l
      /\ \A u \in HsSockets : u # s => hsAt'[u] = hsAt[u]
  BY Zenon DEF HandshakeInv, HsGo
<1>2. ASSUME NEW u \in HsSockets PROVE Shown(u)'
  <2>1. CASE u # s
    BY <1>1, <2>1, ZenonT(30) DEF HandshakeInv, Shown
  <2> QED BY <2>1, ZenonT(30)
<1>3. ASSUME NEW d \in HsKnown PROVE Filed(d)'
  <2>1. hsSlot[d] # s
    BY HsAssumption DEF HandshakeInv, Filed
  <2> QED BY <1>1, <2>1, SMTT(30) DEF HandshakeInv, Filed, HsSockets
<1> QED BY <1>1, <1>2, <1>3, ZenonT(30) DEF HandshakeInv, HsSockets

\* A link that ends leaves the table.
LEMMA CloseLeaves ==
    ASSUME HandshakeInv, NEW s \in HsSockets, HsClose(s),
           UNCHANGED <<hsPlain, hsCert, hsSealed>>
    PROVE  HandshakeInv'
<1>1. /\ hsAt' \in [HsSockets -> HsLabels] /\ hsAt'[s] = "closed"
      /\ \A u \in HsSockets : u # s => hsAt'[u] = hsAt[u]
  BY ZenonT(30) DEF HandshakeInv, HsClose, HsGo, HsLabels
<1>2. DOMAIN hsSlot' = HsKnown /\ \A d \in HsKnown : hsSlot'[d] \in {hsSlot[d], HsNone} \ {s}
  BY HsAssumption, Zenon DEF HsClose
<1>3. ASSUME NEW u \in HsSockets PROVE Shown(u)'
  BY <1>1, ZenonT(30) DEF HandshakeInv, Shown
<1>4. ASSUME NEW d \in HsKnown PROVE Filed(d)'
  BY <1>1, <1>2 DEF HandshakeInv, Filed, HsSockets
<1> QED BY <1>1, <1>2, <1>3, <1>4, Zenon DEF HandshakeInv, HsSockets

\* A socket enters the table under id d.
LEMMA EntersTable ==
    ASSUME HandshakeInv, NEW s \in HsSockets, hsAt[s] = "insert", NEW d \in HsKnown,
           hsSlot' = [hsSlot EXCEPT ![d] = s],
           NEW l \in {"exchange", "up"}, HsGo(s, l), UNCHANGED <<hsPlain, hsCert, hsSealed>>,
           s \in HsAccepted => l = "exchange" /\ hsPlain[s].id = d,
           s \in HsDialled => l = "up" /\ hsSealed[s].id = d
    PROVE  HandshakeInv'
<1>1. /\ hsAt' \in [HsSockets -> HsLabels] /\ hsAt'[s] = l
      /\ \A u \in HsSockets : u # s => hsAt'[u] = hsAt[u]
  BY ZenonT(30) DEF HandshakeInv, HsGo, HsLabels
<1>2. DOMAIN hsSlot' = HsKnown /\ hsSlot'[d] = s /\ \A e \in HsKnown : e # d => hsSlot'[e] = hsSlot[e]
  BY ZenonT(30) DEF HandshakeInv
<1>3. ASSUME NEW u \in HsSockets PROVE Shown(u)'
  BY <1>1, HsAssumption, ZenonT(30) DEF HandshakeInv, Shown
<1>4. ASSUME NEW e \in HsKnown PROVE Filed(e)'
  <2>1. CASE e = d
    BY <1>1, <1>2, <2>1, ZenonT(30) DEF Filed, HsSockets
  <2>2. CASE e # d
    <3>1. hsSlot'[e] = hsSlot[e]
      BY <1>2, <2>2, ZenonT(30)
    <3>2. hsSlot[e] # s
      BY HsAssumption DEF HandshakeInv, Filed
    <3> QED BY <1>1, <3>1, <3>2 DEF HandshakeInv, Filed, HsSockets
  <2> QED BY <2>1, <2>2, ZenonT(30)
<1> QED BY <1>1, <1>2, <1>3, <1>4, HsAssumption, ZenonT(30) DEF HandshakeInv, HsSockets

\* Every step of a handshake keeps the invariant.
LEMMA HandshakeStep ==
    ASSUME HandshakeInv, [HsNext]_hsVars
    PROVE  HandshakeInv'
<1> USE HsAssumption
<1>0. /\ \A s \in HsAccepted : s \in HsSockets /\ s \notin HsDialled
      /\ \A s \in HsDialled : s \in HsSockets /\ s \notin HsAccepted
      /\ DOMAIN hsPlain = HsSockets /\ DOMAIN hsCert = HsSockets /\ DOMAIN hsSealed = HsSockets
      /\ hsAt \in [HsSockets -> HsLabels]
  BY ZenonT(30) DEF HsSockets, HandshakeInv
<1>1. ASSUME NEW s \in HsAccepted, HsAccept(s) PROVE HandshakeInv'
  <2>1. PICK l \in {"plain", "closed"} : HsGo(s, l)
    BY <1>1, Zenon DEF HsAccept
  <2>2. hsAt'[s] = l
    BY <1>0, <2>1, ZenonT(30) DEF HsGo
  <2>3. Shown(s)'
    BY <1>0, <2>2, ZenonT(30) DEF Shown
  <2> QED BY <1>0, <1>1, <2>1, <2>3, BeforeTheTable, ZenonT(30) DEF HsAccept, HsLabels
<1>2. ASSUME NEW s \in HsAccepted, HsReadPlain(s) PROVE HandshakeInv'
  <2>1. PICK h \in HsHellos :
          /\ HsGo(s, IF plaintext_ok(h) THEN "tls" ELSE "closed")
          /\ hsPlain' = [hsPlain EXCEPT ![s] = IF plaintext_ok(h) THEN h ELSE @]
    BY <1>2, ZenonT(30) DEF HsReadPlain
  <2>2. PICK l \in {"tls", "closed"} : HsGo(s, l) /\ (l = "tls" => plaintext_ok(h) /\ hsPlain'[s] = h)
    BY <1>0, <2>1, ZenonT(30)
  <2>3. hsAt'[s] = l
    BY <1>0, <2>2, Zenon DEF HsGo
  <2>4. Shown(s)'
    BY <1>0, <2>2, <2>3, ZenonT(30) DEF Shown, plaintext_ok, sealed_ok,
         from_packet_ok, is_identity, validate_id, sanitize_device_name,
         device_id_matches_kde_normalized
  <2>5. DOMAIN hsPlain' = HsSockets /\ \A u \in HsSockets : u # s => hsPlain'[u] = hsPlain[u]
    BY <1>0, <2>1, ZenonT(30)
  <2> QED BY <1>0, <1>2, <2>2, <2>4, <2>5, BeforeTheTable, ZenonT(30) DEF HsReadPlain, HsLabels
<1>3. ASSUME NEW s \in HsAccepted, tls_connect(s) PROVE HandshakeInv'
  <2>1. PICK c \in HsCerts : LET ok == verify_server_cert(hsPlain[s].id, c) IN
          /\ HsGo(s, IF ok THEN "verify" ELSE "closed")
          /\ hsCert' = [hsCert EXCEPT ![s] = IF ok THEN c ELSE @]
    BY <1>3, ZenonT(30) DEF tls_connect
  <2>2. PICK l \in {"verify", "closed"} : HsGo(s, l)
    BY <2>1, Zenon
  <2>3. hsAt'[s] = l /\ UNCHANGED hsPlain /\ hsAt[s] = "tls"
    BY <1>0, <1>3, <2>2, ZenonT(30) DEF HsGo, tls_connect
  <2>4. Shown(s)'
    BY <1>0, <2>3, ZenonT(30) DEF Shown, HandshakeInv, plaintext_ok, sealed_ok,
         from_packet_ok, is_identity, validate_id, sanitize_device_name,
         device_id_matches_kde_normalized
  <2>5. DOMAIN hsCert' = HsSockets /\ \A u \in HsSockets : u # s => hsCert'[u] = hsCert[u]
    BY <1>0, <2>1, ZenonT(30)
  <2> QED BY <1>0, <1>3, <2>2, <2>4, <2>5, BeforeTheTable, ZenonT(30) DEF tls_connect, HsLabels
<1>4. ASSUME NEW s \in HsAccepted, HsVerify(s) PROVE HandshakeInv'
  <2>1. PICK l \in {"insert", "closed"} :
          HsGo(s, l) /\ (l = "insert" => peer_cert_ok(hsPlain[s].id, hsCert[s]))
    BY <1>4, ZenonT(30) DEF HsVerify
  <2>2. hsAt'[s] = l /\ UNCHANGED <<hsPlain, hsCert>> /\ hsAt[s] = "verify"
    BY <1>0, <1>4, <2>1, ZenonT(30) DEF HsGo, HsVerify
  <2>3. l = "insert" => (hsCert[s] # HsNone => HsCn(hsCert[s]) = hsPlain[s].id)
    BY <2>1, Zenon DEF peer_cert_ok
  <2>4. Shown(s)'
    BY <1>0, <2>2, <2>3, ZenonT(30) DEF Shown, HandshakeInv, plaintext_ok, sealed_ok,
         from_packet_ok, is_identity, validate_id, sanitize_device_name,
         device_id_matches_kde_normalized
  <2> QED BY <1>0, <1>4, <2>1, <2>4, BeforeTheTable, ZenonT(30) DEF HsVerify, HsLabels
<1>5. ASSUME NEW s \in HsAccepted, HsInsertAccepted(s) PROVE HandshakeInv'
  <2>1. hsAt[s] = "insert" /\ UNCHANGED <<hsPlain, hsCert, hsSealed>>
    BY <1>5, Zenon DEF HsInsertAccepted
  <2>2. hsPlain[s].id \in HsKnown
    BY <1>0, <2>1, Zenon DEF HandshakeInv, Shown, plaintext_ok, from_packet_ok, validate_id
  <2>3. CASE hsSlot' = [hsSlot EXCEPT ![hsPlain[s].id] = s] /\ HsGo(s, "exchange")
    BY <1>0, <2>1, <2>2, <2>3, EntersTable, ZenonT(30)
  <2>4. CASE HsGo(s, "closed") /\ UNCHANGED hsSlot
    <3>1. hsAt'[s] = "closed"
      BY <1>0, <2>4, ZenonT(30) DEF HsGo
    <3>2. Shown(s)'
      BY <1>0, <3>1, ZenonT(30) DEF Shown
    <3> QED BY <1>0, <2>1, <2>4, <3>2, BeforeTheTable, ZenonT(30) DEF HsLabels
  <2> QED BY <1>5, <2>3, <2>4, ZenonT(30) DEF HsInsertAccepted
<1>6. ASSUME NEW s \in HsAccepted, identity_exchange(s) PROVE HandshakeInv'
  <2>1. PICK h \in HsHellos :
          IF sealed_ok(h, hsPlain[s])
          THEN /\ hsSealed' = [hsSealed EXCEPT ![s] = h]
               /\ HsGo(s, "up") /\ UNCHANGED hsSlot
          ELSE HsClose(s) /\ UNCHANGED hsSealed
    BY <1>6, ZenonT(30) DEF identity_exchange
  <2>2. hsAt[s] = "exchange" /\ UNCHANGED <<hsPlain, hsCert>>
    BY <1>6, ZenonT(30) DEF identity_exchange
  <2>3. CASE HsClose(s) /\ UNCHANGED hsSealed
    BY <1>0, <2>2, <2>3, CloseLeaves, Zenon
  <2>4. CASE /\ sealed_ok(h, hsPlain[s]) /\ hsSealed' = [hsSealed EXCEPT ![s] = h]
             /\ HsGo(s, "up") /\ UNCHANGED hsSlot
    <3>1. /\ hsAt'[s] = "up" /\ hsAt' \in [HsSockets -> HsLabels] /\ hsSealed'[s] = h
          /\ DOMAIN hsSealed' = HsSockets
          /\ \A u \in HsSockets : u # s => hsAt'[u] = hsAt[u] /\ hsSealed'[u] = hsSealed[u]
      BY <1>0, <2>4, Zenon DEF HsGo, HsLabels
    <3>2. sealed_ok(hsSealed'[s], hsPlain'[s])
      BY <2>2, <2>4, <3>1, Zenon
    <3>3. Shown(s)'
      BY <1>0, <2>2, <3>1, <3>2, ZenonT(30) DEF Shown, HandshakeInv, plaintext_ok, sealed_ok,
         from_packet_ok, is_identity, validate_id, sanitize_device_name,
         device_id_matches_kde_normalized
    <3>4. ASSUME NEW u \in HsSockets PROVE Shown(u)'
      <4>1. CASE u # s
        BY <2>2, <3>1, <4>1, ZenonT(30) DEF HandshakeInv, Shown
      <4> QED BY <3>3, <4>1, Zenon
    <3>5. ASSUME NEW d \in HsKnown PROVE Filed(d)'
      BY <1>0, <2>2, <2>4, <3>1, SMTT(30) DEF HandshakeInv, Filed
    <3> QED BY <1>0, <2>2, <2>4, <3>1, <3>4, <3>5, ZenonT(30) DEF HandshakeInv
  <2> QED BY <2>1, <2>3, <2>4, Zenon
<1>7. ASSUME NEW s \in HsDialled, HsDial(s) PROVE HandshakeInv'
  <2>1. PICK l \in {"greet", "closed"} : HsGo(s, l)
    BY <1>7, Zenon DEF HsDial
  <2>2. hsAt'[s] = l
    BY <1>0, <2>1, Zenon DEF HsGo
  <2>3. Shown(s)'
    BY <1>0, <2>2, Zenon DEF Shown
  <2>4. DOMAIN hsPlain' = HsSockets /\ \A u \in HsSockets : u # s => hsPlain'[u] = hsPlain[u]
    BY <1>0, <1>7, Zenon DEF HsDial
  <2> QED BY <1>0, <1>7, <2>1, <2>3, <2>4, BeforeTheTable, Zenon DEF HsDial, HsLabels
<1>8. ASSUME NEW s \in HsDialled, HsSendPlain(s) PROVE HandshakeInv'
  <2>1. PICK l \in {"tls", "closed"} : HsGo(s, l)
    BY <1>8, Zenon DEF HsSendPlain
  <2>2. hsAt'[s] = l
    BY <1>0, <2>1, Zenon DEF HsGo
  <2>3. Shown(s)'
    BY <1>0, <2>2, ZenonT(30) DEF Shown
  <2> QED BY <1>0, <1>8, <2>1, <2>3, BeforeTheTable, Zenon DEF HsSendPlain, HsLabels
<1>9. ASSUME NEW s \in HsDialled, tls_accept(s) PROVE HandshakeInv'
  <2>1. hsAt'[s] = "sealed" /\ hsAt[s] = "tls"
    BY <1>0, <1>9, ZenonT(30) DEF HsGo, tls_accept
  <2>2. Shown(s)'
    BY <1>0, <2>1, Zenon DEF Shown
  <2>3. DOMAIN hsCert' = HsSockets /\ \A u \in HsSockets : u # s => hsCert'[u] = hsCert[u]
    BY <1>0, <1>9, Zenon DEF tls_accept
  <2> QED BY <1>0, <1>9, <2>2, <2>3, BeforeTheTable, Zenon DEF tls_accept, HsLabels
<1>10. ASSUME NEW s \in HsDialled, HsReadSealed(s) PROVE HandshakeInv'
  <2>1. PICK h \in HsHellos :
          IF /\ from_packet_ok(h)
             /\ hsPlain[s] # HsNone => sealed_ok(h, hsPlain[s])
             /\ peer_cert_ok(h.id, hsCert[s])
          THEN /\ record_peer_capabilities(h.id, h)
               /\ hsSealed' = [hsSealed EXCEPT ![s] = h]
               /\ HsGo(s, "insert")
          ELSE HsGo(s, "closed") /\ UNCHANGED <<hsCaps, hsSealed>>
    BY <1>10, Zenon DEF HsReadSealed
  <2>2. hsAt[s] = "sealed" /\ UNCHANGED <<hsPlain, hsCert, hsSlot>>
    BY <1>10, Zenon DEF HsReadSealed
  <2>3. CASE HsGo(s, "closed") /\ UNCHANGED hsSealed
    <3>1. hsAt'[s] = "closed"
      BY <1>0, <2>3, Zenon DEF HsGo
    <3>2. Shown(s)'
      BY <1>0, <3>1, Zenon DEF Shown
    <3> QED BY <1>0, <2>2, <2>3, <3>2, BeforeTheTable, Zenon DEF HsLabels
  <2>4. CASE /\ from_packet_ok(h)
             /\ hsPlain[s] # HsNone => sealed_ok(h, hsPlain[s])
             /\ peer_cert_ok(h.id, hsCert[s])
             /\ hsSealed' = [hsSealed EXCEPT ![s] = h]
             /\ HsGo(s, "insert")
    <3>1. /\ hsAt'[s] = "insert" /\ hsSealed'[s] = h /\ DOMAIN hsSealed' = HsSockets
          /\ \A u \in HsSockets : u # s => hsSealed'[u] = hsSealed[u]
      BY <1>0, <2>4, Zenon DEF HsGo
    <3>2. hsCert[s] # HsNone => HsCn(hsCert[s]) = h.id
      BY <2>4, Zenon DEF peer_cert_ok
    <3>3. Shown(s)'
      BY <1>0, <2>2, <2>4, <3>1, <3>2, Zenon DEF Shown, plaintext_ok, sealed_ok,
         from_packet_ok, is_identity, validate_id, sanitize_device_name,
         device_id_matches_kde_normalized
    <3> QED BY <1>0, <2>2, <2>4, <3>1, <3>3, BeforeTheTable, Zenon DEF HsLabels
  <2> QED BY <2>1, <2>3, <2>4, ZenonT(30)
<1>11. ASSUME NEW s \in HsDialled, HsInsertDialled(s) PROVE HandshakeInv'
  <2>1. hsAt[s] = "insert" /\ UNCHANGED <<hsPlain, hsCert, hsSealed>>
    BY <1>11, Zenon DEF HsInsertDialled
  <2>2. hsSealed[s].id \in HsKnown
    BY <1>0, <2>1, Zenon DEF HandshakeInv, Shown, from_packet_ok, validate_id
  <2> QED BY <1>0, <1>11, <2>1, <2>2, EntersTable, Zenon DEF HsInsertDialled
<1>12. ASSUME NEW s \in HsSockets, HsFail(s) PROVE HandshakeInv'
  BY <1>12, CloseLeaves, Zenon DEF HsFail
<1>13. ASSUME UNCHANGED <<hsAt, hsPlain, hsCert, hsSealed, hsSlot>> PROVE HandshakeInv'
  <2>1. ASSUME NEW s \in HsSockets PROVE Shown(s)'
    BY <1>13, ZenonT(30) DEF HandshakeInv, Shown
  <2>2. ASSUME NEW d \in HsKnown PROVE Filed(d)'
    BY <1>13, Zenon DEF HandshakeInv, Filed
  <2> QED BY <1>13, <2>1, <2>2, Zenon DEF HandshakeInv
<1> QED BY <1>1, <1>2, <1>3, <1>4, <1>5, <1>6, <1>7, <1>8, <1>9, <1>10, <1>11, <1>12, <1>13, Zenon
        DEF HsNext, hsVars, HsPair, HsUnpair, HsSecond

\* No socket is open at the start.
LEMMA HandshakeInit == HsInit => HandshakeInv
BY Zenon DEF HsInit, HandshakeInv, Shown, Filed, HsLabels, HsSockets

\* A link that is up speaks for its id.
THEOREM LinksSpeakForIds == HsSpec => []LinkSpeaksForItsId
<1>1. HandshakeInv => LinkSpeaksForItsId
  <2> SUFFICES ASSUME HandshakeInv, NEW d \in HsKnown, hsSlot[d] # HsNone, hsAt[hsSlot[d]] = "up"
               PROVE  LET s == hsSlot[d] IN
                        /\ hsSealed[s].id = d
                        /\ hsPlain[s] # HsNone =>
                              hsPlain[s].id = d /\ hsPlain[s].version = hsSealed[s].version
                        /\ hsCert[s] # HsNone => HsCn(hsCert[s]) = d
    BY Zenon DEF LinkSpeaksForItsId
  <2>1. PICK s \in HsSockets : s = hsSlot[d]
    BY Zenon DEF HandshakeInv, Filed, HsSockets
  <2> QED BY <2>1, HsAssumption DEF HandshakeInv, Filed, Shown, sealed_ok, HsSockets
<1> QED BY <1>1, HandshakeInit, HandshakeStep, PTL DEF HsSpec

-----------------------------------------------------------------------------
(* Who is found: what a datagram says of its sender, and how often one is  *)
(* sent to an address (discovery.rs, mdns_discovery.rs, udp_unicast.rs).   *)

\* An address that a leg acted on within the window is still in its map, with
\* a time no earlier than that.
Remembered(leg, d, a) ==
    mtLast[leg][d][a] # MtNever /\ mtNow - mtLast[leg][d][a] < MtWindow =>
        mtSent[leg][d][a] # MtNever /\ mtSent[leg][d][a] >= mtLast[leg][d][a]

MtTimes == [MtLegs -> [MtDaemons -> [MtAddresses -> Int]]]

MtSpacing ==
    /\ mtNow \in Nat /\ mtSent \in MtTimes /\ mtLast \in MtTimes
    /\ \A leg \in MtLegs, d \in MtDaemons, a \in MtAddresses :
          mtLast[leg][d][a] <= mtNow /\ Remembered(leg, d, a)

\* A datagram comes from the host of the daemon it names; no datagram and no
\* resolve has brought two daemons of one host together.
MeetingInv ==
    /\ mtAddress \in [MtDaemons -> MtAddresses]
    /\ mtMdns \subseteq MtDaemons
    /\ \A g \in mtAir : g.id \in MtDaemons /\ g.from = mtAddress[g.id]
    /\ \A l \in mtKnown \cup mtDials \cup mtLinked : mtAddress[l[1]] # mtAddress[l[2]]
    /\ MtSpacing

\* What a daemon sends names the daemon and its host.
LEMMA Datagrams ==
    ASSUME MeetingInv, NEW d \in MtDaemons, NEW g, g.id = d, g.from = mtAddress[d],
           mtAir' = MtAirWith(g), UNCHANGED mtAddress
    PROVE  \A h \in mtAir' : h.id \in MtDaemons /\ h.from = mtAddress'[h.id]
BY Zenon DEF MeetingInv, MtAirWith

\* So does what it sends to one address (unicast_identity).
LEMMA Unicasts ==
    ASSUME MeetingInv, NEW d \in MtDaemons, NEW ip, unicast_identity(d, ip), UNCHANGED mtAddress
    PROVE  \A h \in mtAir' : h.id \in MtDaemons /\ h.from = mtAddress'[h.id]
<1>1. PICK g : g = get_identity(d, ip)
  BY Zenon
<1>2. g.id = d /\ g.from = mtAddress[d] /\ mtAir' = MtAirWith(g)
  BY <1>1, Zenon DEF get_identity, unicast_identity
<1> QED BY <1>2, Datagrams, ZenonT(30)

\* A step that leaves the clock and the two records of sends alone leaves the
\* spacing alone.
LEMMA SpacingAlone ==
    ASSUME MtSpacing, UNCHANGED <<mtNow, mtSent, mtLast>>
    PROVE  MtSpacing'
<1>1. ASSUME NEW leg \in MtLegs, NEW d \in MtDaemons, NEW a \in MtAddresses
      PROVE  mtLast'[leg][d][a] <= mtNow' /\ Remembered(leg, d, a)'
  BY Zenon DEF MtSpacing, Remembered
<1> QED BY <1>1, Zenon DEF MtSpacing

\* A map forgets only what is older than the window (allow_mdns_unicast, and
\* last_connection_attempt of connect_to_device).
LEMMA NotedSpaced ==
    ASSUME MtSpacing, NEW leg \in MtLegs, NEW d \in MtDaemons, NEW ip \in MtAddresses,
           MtNote(leg, d, ip), mtLast' \in {mtLast, [mtLast EXCEPT ![leg][d][ip] = mtNow]},
           UNCHANGED mtNow
    PROVE  MtSpacing'
<1> USE MtAssumption
<1>1. /\ mtNow \in Nat /\ mtSent \in MtTimes /\ mtLast \in MtTimes
      /\ \A k \in MtLegs, e \in MtDaemons, a \in MtAddresses :
            mtLast[k][e][a] <= mtNow /\ Remembered(k, e, a)
  BY Zenon DEF MtSpacing
<1>2. PICK new \in [MtAddresses -> Int] : new = [mtSent[leg][d] EXCEPT ![ip] = mtNow]
  <2>1. mtSent[leg][d] \in [MtAddresses -> Int] /\ mtNow \in Int
    BY <1>1, SMTT(30) DEF MtTimes
  <2> QED BY <2>1, Zenon
<1>3. PICK kept : kept = MtKeptEntries(new)
  BY Zenon
<1>4. /\ kept \in [MtAddresses -> Int]
      /\ \A a \in MtAddresses :
            kept[a] = IF new[a] # MtNever /\ mtNow - new[a] < MtKept THEN new[a] ELSE MtNever
  BY <1>1, <1>2, <1>3 DEF MtKeptEntries, MtNever
<1>5. mtSent' = [mtSent EXCEPT ![leg][d] = kept]
  BY <1>1, <1>2, <1>3, Zenon DEF MtNote
<1>6. /\ mtSent' \in MtTimes /\ mtSent'[leg][d] = kept
      /\ \A k \in MtLegs, e \in MtDaemons : <<k, e>> # <<leg, d>> => mtSent'[k][e] = mtSent[k][e]
  BY <1>1, <1>4, <1>5, SMTT(30) DEF MtTimes
<1>7. /\ mtLast' \in MtTimes
      /\ \A k \in MtLegs, e \in MtDaemons, a \in MtAddresses :
            \/ mtLast'[k][e][a] = mtLast[k][e][a]
            \/ k = leg /\ e = d /\ a = ip /\ mtLast'[k][e][a] = mtNow
  <2>1. CASE mtLast' = mtLast
    BY <1>1, <2>1, Zenon
  <2>2. CASE mtLast' = [mtLast EXCEPT ![leg][d][ip] = mtNow]
    <3>1. PICK f : f = [mtLast[leg][d] EXCEPT ![ip] = mtNow]
      BY Zenon
    <3>2. mtLast[leg][d] \in [MtAddresses -> Int] /\ mtNow \in Int
      BY <1>1, SMTT(30) DEF MtTimes
    <3>3. /\ f \in [MtAddresses -> Int] /\ f[ip] = mtNow
          /\ \A a \in MtAddresses : a # ip => f[a] = mtLast[leg][d][a]
      BY <3>1, <3>2
    <3>4. mtLast' = [mtLast EXCEPT ![leg][d] = f]
      BY <2>2, <3>1, Zenon
    <3>5. /\ mtLast' \in MtTimes /\ mtLast'[leg][d] = f
          /\ \A k \in MtLegs, e \in MtDaemons : <<k, e>> # <<leg, d>> => mtLast'[k][e] = mtLast[k][e]
      BY <1>1, <3>3, <3>4, SMTT(30) DEF MtTimes
    <3> QED BY <3>3, <3>5, Zenon
  <2> QED BY <2>1, <2>2, Zenon
<1>8. kept[ip] = mtNow
  BY <1>1, <1>2, <1>4 DEF MtNever
<1>9. ASSUME NEW k \in MtLegs, NEW e \in MtDaemons, NEW a \in MtAddresses
      PROVE  mtLast'[k][e][a] <= mtNow' /\ Remembered(k, e, a)'
  <2>1. CASE ~(k = leg /\ e = d)
    <3>1. mtLast'[k][e][a] = mtLast[k][e][a] /\ mtSent'[k][e] = mtSent[k][e]
      BY <1>6, <1>7, <2>1, Zenon
    <3>2. mtSent'[k][e][a] = mtSent[k][e][a] /\ mtNow' = mtNow
      BY <3>1, Zenon
    <3>3. mtLast[k][e][a] <= mtNow /\ Remembered(k, e, a)
      BY <1>1, Zenon
    <3> QED BY <3>1, <3>2, <3>3, SMTT(30) DEF Remembered
  <2>2. CASE k = leg /\ e = d /\ a = ip
    <3>1. mtSent'[k][e][a] = mtNow /\ mtLast'[k][e][a] <= mtNow /\ mtNow # MtNever
      BY <1>1, <1>6, <1>7, <1>8, <2>2, SMTT(30) DEF MtNever
    <3> QED BY <1>1, <3>1, Zenon DEF Remembered
  <2>3. CASE k = leg /\ e = d /\ a # ip
    <3>1. /\ mtLast'[k][e][a] = mtLast[k][e][a] /\ mtSent'[k][e][a] = kept[a]
          /\ new[a] = mtSent[k][e][a]
      <4>1. mtSent[leg][d] \in [MtAddresses -> Int]
        BY <1>1, SMTT(30) DEF MtTimes
      <4> QED BY <1>2, <1>6, <1>7, <2>3, <4>1, Zenon
    <3>2. mtLast[k][e][a] \in Int /\ mtSent[k][e][a] \in Int
      BY <1>1, SMTT(30) DEF MtTimes
    <3>3. mtLast[k][e][a] # MtNever /\ mtNow - mtLast[k][e][a] < MtWindow => kept[a] = mtSent[k][e][a]
      BY <1>1, <1>4, <3>1, <3>2, SMTT(30) DEF Remembered
    <3> QED BY <1>1, <3>1, <3>2, <3>3, Zenon DEF Remembered
  <2> QED BY <2>1, <2>2, <2>3, Zenon
<1> QED BY <1>1, <1>6, <1>7, <1>9, ZenonT(30) DEF MtSpacing

\* Every step of a daemon, of the network and of the clock keeps the
\* invariant.
LEMMA MeetingStep ==
    ASSUME MeetingInv, [MtNext]_mtVars
    PROVE  MeetingInv'
<1> USE DEF MeetingInv
<1>1. ASSUME NEW d \in MtDaemons, MtStart(d) PROVE MeetingInv'
  BY <1>1, SpacingAlone, ZenonT(30) DEF MtStart, build_service_info
<1>2. ASSUME NEW d \in MtDaemons, add_capabilities(d) PROVE MeetingInv'
  BY <1>2, SpacingAlone, Zenon DEF add_capabilities
<1>3. ASSUME NEW d \in MtDaemons, broadcast(d) PROVE MeetingInv'
  <2>1. PICK tooLarge \in {(d \in mtCaps), FALSE} :
          mtAir' = MtAirWith([get_identity(d, "all") EXCEPT !.caps = @ /\ ~tooLarge])
    BY <1>3, Zenon DEF broadcast
  <2>2. PICK g : g = [get_identity(d, "all") EXCEPT !.caps = @ /\ ~tooLarge]
    BY Zenon
  <2>3. g.id = d /\ g.from = mtAddress[d]
    BY <2>2, Zenon DEF get_identity
  <2>4. \A h \in mtAir' : h.id \in MtDaemons /\ h.from = mtAddress'[h.id]
    BY <1>3, <2>1, <2>2, <2>3, Datagrams, ZenonT(30) DEF broadcast
  <2> QED BY <1>3, <2>4, SpacingAlone, Zenon DEF broadcast
<1>4. ASSUME NEW d \in MtDaemons, listen(d) PROVE MeetingInv'
  <2>1. PICK g \in mtAir :
          /\ mtAir' \in {mtAir, mtAir \ {g}}
          /\ IF MtDropped(d, g)
             THEN UNCHANGED <<mtKnown, mtDials, mtSent, mtLast>>
             ELSE /\ mtKnown' = mtKnown \cup {<<d, g.id>>}
                  /\ \/ MtDial(d, g.id)
                     \/ UNCHANGED <<mtDials, mtSent, mtLast>>
    BY <1>4, ZenonT(30) DEF listen
  <2>2. UNCHANGED <<mtAddress, mtNow, mtMdns, mtLinked>>
    BY <1>4, Zenon DEF listen
  <2>3. ~MtDropped(d, g) => mtAddress[d] # mtAddress[g.id]
    BY Zenon DEF MtDropped, is_split_brain, is_local_address
  <2>4. mtKnown' \in {mtKnown, mtKnown \cup {<<d, g.id>>}} /\ mtDials' \in {mtDials, mtDials \cup {<<d, g.id>>}}
    BY <2>1, Zenon DEF MtDial
  <2>5. MtDropped(d, g) => mtKnown' = mtKnown /\ mtDials' = mtDials
    BY <2>1, Zenon
  <2>6. \A l \in mtKnown' \cup mtDials' \cup mtLinked' : mtAddress[l[1]] # mtAddress[l[2]]
    BY <2>2, <2>3, <2>4, <2>5, SMTT(30)
  <2>7. PICK ip \in MtAddresses : ip = mtAddress[g.id]
    BY Zenon
  <2>8. MtSpacing'
    <3>1. CASE ~MtDropped(d, g) /\ MtDial(d, g.id)
      <4>1. MtNote("dial", d, ip) /\ mtLast' = [mtLast EXCEPT !["dial"][d][ip] = mtNow]
        BY <2>7, <3>1, Zenon DEF MtDial
      <4>2. "dial" \in MtLegs
        BY Zenon DEF MtLegs
      <4> QED BY <2>2, <2>7, <4>1, <4>2, NotedSpaced, ZenonT(30)
    <3>2. CASE UNCHANGED <<mtSent, mtLast>>
      BY <2>2, <3>2, SpacingAlone, Zenon
    <3> QED BY <2>1, <3>1, <3>2, Zenon
  <2> QED BY <2>1, <2>2, <2>6, <2>8, ZenonT(30)
<1>5. ASSUME NEW d \in MtDaemons, NEW e \in MtDaemons, MtDialEnds(d, e) PROVE MeetingInv'
  <2>1. UNCHANGED <<mtAddress, mtNow, mtMdns, mtSent, mtKnown, mtLast>>
    BY <1>5, Zenon DEF MtDialEnds
  <2>2. mtDials' \subseteq mtDials /\ mtLinked' \subseteq mtLinked \cup mtDials
    BY <1>5, Zenon DEF MtDialEnds
  <2>3. \A l \in mtKnown' \cup mtDials' \cup mtLinked' : mtAddress'[l[1]] # mtAddress'[l[2]]
    BY <2>1, <2>2, Zenon
  <2>4. \A h \in mtAir' : h.id \in MtDaemons /\ h.from = mtAddress'[h.id]
    <3>1. unicast_identity(d, mtAddress[e]) \/ UNCHANGED mtAir
      BY <1>5, Zenon DEF MtDialEnds
    <3>2. CASE unicast_identity(d, mtAddress[e])
      BY <2>1, <3>2, Unicasts, ZenonT(30)
    <3> QED BY <2>1, <3>1, <3>2, Zenon
  <2> QED BY <2>1, <2>3, <2>4, SpacingAlone, Zenon
<1>6. ASSUME NEW d \in MtDaemons, on_mdns_device_resolved(d) PROVE MeetingInv'
  <2>1. PICK e \in production_interface_policy(d) :
          LET ip == mtAddress[e]
          IN  /\ MtNote("mdns", d, ip)
              /\ \/ /\ unicast_identity(d, ip)
                    /\ mtLast' = [mtLast EXCEPT !["mdns"][d][ip] = mtNow]
                 \/ UNCHANGED <<mtAir, mtLast>>
    BY <1>6, ZenonT(30) DEF on_mdns_device_resolved
  <2>2. UNCHANGED <<mtAddress, mtNow, mtMdns, mtKnown, mtDials, mtLinked>>
    BY <1>6, ZenonT(30) DEF on_mdns_device_resolved
  <2>3. PICK ip \in MtAddresses : ip = mtAddress[e]
    BY Zenon DEF production_interface_policy
  <2>4. "mdns" \in MtLegs
    BY Zenon DEF MtLegs
  <2>5. MtSpacing'
    BY <2>1, <2>2, <2>3, <2>4, NotedSpaced, ZenonT(30)
  <2>6. \A h \in mtAir' : h.id \in MtDaemons /\ h.from = mtAddress'[h.id]
    <3>1. unicast_identity(d, ip) \/ UNCHANGED mtAir
      BY <2>1, <2>3, Zenon
    <3>2. CASE unicast_identity(d, ip)
      BY <2>2, <3>2, Unicasts, ZenonT(30)
    <3> QED BY <2>2, <3>1, <3>2, Zenon
  <2> QED BY <2>2, <2>5, <2>6, Zenon
<1>7. CASE MtLose
  BY <1>7, SpacingAlone, ZenonT(30) DEF MtLose
<1>8. CASE MtTick
  <2>1. ASSUME NEW leg \in MtLegs, NEW d \in MtDaemons, NEW a \in MtAddresses
        PROVE  mtLast'[leg][d][a] <= mtNow' /\ Remembered(leg, d, a)'
    <3>1. mtLast[leg][d][a] \in Int /\ mtNow \in Nat /\ mtNow' = mtNow + 1
      BY <1>8, SMTT(30) DEF MtTick, MtSpacing, MtTimes
    <3>2. mtLast[leg][d][a] <= mtNow /\ Remembered(leg, d, a) /\ UNCHANGED <<mtSent, mtLast>>
      BY <1>8, Zenon DEF MtTick, MtSpacing
    <3> QED BY <3>1, <3>2, MtAssumption, SMTT(30) DEF Remembered
  <2>2. MtSpacing'
    BY <1>8, <2>1, SMTT(30) DEF MtTick, MtSpacing
  <2> QED BY <1>8, <2>2, Zenon DEF MtTick
<1>9. CASE UNCHANGED mtVars
  BY <1>9, SpacingAlone, ZenonT(30) DEF mtVars
<1> QED BY <1>1, <1>2, <1>3, <1>4, <1>5, <1>6, <1>7, <1>8, <1>9, ZenonT(30) DEF MtNext

\* At the start nothing was sent and nobody is known.
LEMMA MeetingInit == MtInit => MeetingInv
BY SMTT(30) DEF MtInit, MeetingInv, MtSpacing, MtTimes, Remembered, MtNever

\* Two daemons of one host never meet.
THEOREM HostsStayApart == MtSpec => []SameHostNeverMeets
<1>1. MeetingInv => SameHostNeverMeets
  BY Zenon DEF MeetingInv, SameHostNeverMeets
<1> QED BY <1>1, MeetingInit, MeetingStep, PTL DEF MtSpec

\* An address is answered at most once per window (allow_mdns_unicast) and dialled
\* at most once per window (connect_to_device), though both maps forget.
THEOREM UnicastsSpaced == MtSpec => []UnicastSpaced
<1>1. MeetingInv => UnicastSpaced
  <2> SUFFICES ASSUME MeetingInv, NEW leg \in MtLegs, NEW d \in MtDaemons, NEW a \in MtAddresses,
                      mtLast[leg][d][a] # MtNever, mtNow - mtLast[leg][d][a] < MtWindow
               PROVE  ~MtAllows(leg, d, a)
    BY Zenon DEF UnicastSpaced
  <2>1. mtSent[leg][d][a] # MtNever /\ mtSent[leg][d][a] >= mtLast[leg][d][a]
    BY Zenon DEF MeetingInv, MtSpacing, Remembered
  <2>2. mtNow \in Nat /\ mtSent[leg][d][a] \in Int /\ mtLast[leg][d][a] \in Int
    BY SMTT(30) DEF MeetingInv, MtSpacing, MtTimes
  <2> QED BY <2>1, <2>2, MtAssumption DEF MtAllows
<1> QED BY <1>1, MeetingInit, MeetingStep, PTL DEF MtSpec

-----------------------------------------------------------------------------
(* The file of device/registry.rs. *)

RegLabels == {"idle", "add", "refresh", "transition", "remove", "again", "save", "write"}

RegReturns == {"idle", "transition", "again"}

RegSaves == \E t \in RegTasks : regPc[t] = "save"

\* DeletedStaysDeleted with what makes it inductive.  The writer of the file
\* holds save_lock.  Unless a save was lost, what it is about to write beyond
\* the records in memory is owed to a save that has not taken its snapshot, and
\* so is what the file holds beyond them, unless the writer is about to remove it.
RegInv ==
    /\ regPc \in [RegTasks -> RegLabels]
    /\ regRet \in [RegTasks -> RegReturns]
    /\ DOMAIN regSnap = RegTasks
    /\ DOMAIN regFile \subseteq RegIds
    /\ \A t \in RegTasks : regPc[t] = "write" => regLock = t /\ DOMAIN regSnap[t] \subseteq RegIds
    /\ ~regFailed => \A t \in RegTasks : regPc[t] = "write" =>
          \A d \in DOMAIN regSnap[t] : d \in DOMAIN regMap \/ RegSaves
    /\ ~regFailed => \A d \in DOMAIN regFile :
          \/ d \in DOMAIN regMap \/ RegSaves
          \/ \E t \in RegTasks : regPc[t] = "write" /\ d \notin DOMAIN regSnap[t]
    /\ DOMAIN regMap \subseteq RegIds
    /\ \A t \in RegTasks : regPc[t] = "add" => regDev[t] \in RegIds
    /\ DOMAIN regDev = RegTasks

\* A transition moves a record and leaves the set of records alone.
LEMMA RegTransitionKeeps ==
    ASSUME NEW d, NEW to, RegTransition(d, to)
    PROVE  DOMAIN regMap' = DOMAIN regMap
BY Zenon DEF RegTransition

\* An insertion evicts some records and adds one.
LEMMA RegInsertAdds ==
    ASSUME NEW d \in RegIds, DOMAIN regMap \subseteq RegIds, RegInsert(d)
    PROVE  DOMAIN regMap' \subseteq RegIds
BY Zenon DEF RegInsert

\* What the argument needs of a task that goes on to save: it is then at
\* "save", the file and the other tasks are as they were.
LEMMA RegSaveOwed ==
    ASSUME RegInv, NEW t \in RegTasks, regPc[t] \in {"idle", "add", "remove", "again"},
           NEW ret \in RegReturns, RegCallSave(t, ret),
           DOMAIN regMap' \subseteq RegIds,
           UNCHANGED <<regFile, regLock, regDev, regSnap, regFailed>>
    PROVE  RegInv'
<1>1. regPc'[t] = "save" /\ RegSaves'
  BY ZenonT(30) DEF RegInv, RegCallSave, RegGoto, RegSaves
<1>2. \A u \in RegTasks : u # t => regPc'[u] = regPc[u]
  BY Zenon DEF RegInv, RegCallSave, RegGoto
<1>3. regPc' \in [RegTasks -> RegLabels] /\ regRet' \in [RegTasks -> RegReturns]
  BY Zenon DEF RegInv, RegCallSave, RegGoto, RegLabels
<1> QED BY <1>1, <1>2, <1>3, ZenonT(30) DEF RegInv

\* A step that moves a task between labels other than "save" and "write", and
\* leaves the file and the set of records alone.
LEMMA RegMovesOn ==
    ASSUME RegInv, NEW t \in RegTasks, regPc[t] \notin {"save", "write"},
           NEW l \in RegLabels \ {"save", "write"}, RegGoto(t, l),
           l = "add" => regDev'[t] \in RegIds,
           \A u \in RegTasks : u # t => regDev'[u] = regDev[u],
           DOMAIN regDev' = RegTasks,
           DOMAIN regMap' = DOMAIN regMap,
           UNCHANGED <<regFile, regLock, regRet, regSnap, regFailed>>
    PROVE  RegInv'
<1>1. /\ regPc'[t] = l
      /\ \A u \in RegTasks : u # t => regPc'[u] = regPc[u]
      /\ regPc' \in [RegTasks -> RegLabels]
  BY ZenonT(30) DEF RegInv, RegGoto
<1>2. \A u \in RegTasks : \A k \in {"save", "write"} : regPc'[u] = k <=> regPc[u] = k
  BY <1>1, Zenon
<1>3. RegSaves' <=> RegSaves
  BY <1>2, Zenon DEF RegSaves
<1> QED BY <1>1, <1>2, <1>3, ZenonT(30) DEF RegInv

\* Every step of the registry keeps the invariant.
LEMMA RegStep ==
    ASSUME RegInv, [RegNext]_regVars
    PROVE  RegInv'
<1>1. ASSUME NEW t \in RegTasks, NEW d \in RegIds, RegUpsert(t, d) PROVE RegInv'
  <2>1. DOMAIN regMap' \subseteq RegIds
    BY <1>1, RegInsertAdds, Zenon DEF RegUpsert, RegInv
  <2> QED BY <1>1, <2>1, RegSaveOwed, Zenon DEF RegUpsert, RegCall, RegReturns
<1>2. ASSUME NEW t \in RegTasks, NEW d \in RegIds, RegEnsure(t, d) PROVE RegInv'
  <2>1. PICK l \in {"refresh", "add"} : RegGoto(t, l)
    BY <1>2, Zenon DEF RegEnsure
  <2>2. regDev' = [regDev EXCEPT ![t] = d] /\ DOMAIN regDev = RegTasks
    BY <1>2, Zenon DEF RegEnsure, RegInv
  <2> QED BY <1>2, <2>1, <2>2, RegMovesOn, Zenon DEF RegEnsure, RegCall, RegLabels
<1>3. ASSUME NEW t \in RegTasks, NEW d \in RegIds, RegDelete(t, d) PROVE RegInv'
  <2>1. regDev' = [regDev EXCEPT ![t] = d] /\ DOMAIN regDev = RegTasks
    BY <1>3, Zenon DEF RegDelete, RegInv
  <2>2. DOMAIN regDev' = RegTasks /\ \A u \in RegTasks : u # t => regDev'[u] = regDev[u]
    BY <2>1, Zenon
  <2>3. /\ RegGoto(t, "remove") /\ regPc[t] = "idle"
        /\ UNCHANGED <<regMap, regFile, regLock, regRet, regSnap, regFailed>>
    BY <1>3, Zenon DEF RegDelete, RegCall
  <2> QED BY <2>2, <2>3, RegMovesOn, Zenon DEF RegLabels
<1>4. ASSUME NEW t \in RegTasks, RegRemove(t) PROVE RegInv'
  <2>1. PICK next \in {"again", "idle"} : next = IF regPc[t] = "remove" THEN "again" ELSE "idle"
    BY Zenon
  <2>2. regPc[t] \in {"remove", "again"} /\ UNCHANGED <<regFile, regLock, regSnap, regFailed>>
    BY <1>4, Zenon DEF RegRemove
  <2>3. CASE RegKnown(regDev[t])
    <3>1. regMap' = RegOnly(regMap, RegIds \ {regDev[t]}) /\ RegCallSave(t, next) /\ UNCHANGED regDev
      BY <1>4, <2>1, <2>3, Zenon DEF RegRemove
    <3>2. DOMAIN regMap' \subseteq RegIds
      BY <3>1, Zenon DEF RegOnly
    <3> QED BY <2>1, <2>2, <3>1, <3>2, RegSaveOwed, Zenon DEF RegReturns
  <2>4. CASE ~RegKnown(regDev[t])
    <3>1. /\ RegGoto(t, next) /\ UNCHANGED <<regMap, regRet>>
          /\ regDev' = [regDev EXCEPT ![t] = IF next = "idle" THEN RegNone ELSE regDev[t]]
      BY <1>4, <2>1, <2>4, Zenon DEF RegRemove
    <3>2. DOMAIN regDev' = RegTasks /\ \A u \in RegTasks : u # t => regDev'[u] = regDev[u]
      BY <3>1, Zenon DEF RegInv
    <3> QED BY <2>1, <2>2, <3>1, <3>2, RegMovesOn, Zenon DEF RegLabels
  <2> QED BY <2>3, <2>4, Zenon
<1>5. ASSUME NEW t \in RegTasks, RegDrop(t) PROVE RegInv'
  <2>1. /\ regPc'[t] = "idle" /\ \A u \in RegTasks : u # t => regPc'[u] = regPc[u]
        /\ regPc' \in [RegTasks -> RegLabels]
    BY <1>5, ZenonT(30) DEF RegInv, RegDrop, RegGoto, RegLabels
  <2>2. /\ DOMAIN regDev' = RegTasks /\ \A u \in RegTasks : u # t => regDev'[u] = regDev[u]
        /\ DOMAIN regSnap' = RegTasks /\ \A u \in RegTasks : u # t => regSnap'[u] = regSnap[u]
    BY <1>5, ZenonT(30) DEF RegInv, RegDrop
  <2>3. UNCHANGED <<regMap, regFile, regRet>>
    BY <1>5, Zenon DEF RegDrop
  <2>4. \A u \in RegTasks : regPc'[u] = "write" => u # t /\ regPc[u] = "write" /\ regLock' = u
    BY <1>5, <2>1, Zenon DEF RegInv, RegDrop
  <2>5. RegSaves => RegSaves' \/ regPc[t] = "save"
    BY <2>1, Zenon DEF RegSaves
  <2>6. ~regFailed' => ~regFailed /\ regPc[t] \notin {"save", "write"}
    BY <1>5, Zenon DEF RegDrop
  <2> QED BY <2>1, <2>2, <2>3, <2>4, <2>5, <2>6, ZenonT(30) DEF RegInv
<1>6. ASSUME NEW t \in RegTasks, RegAdd(t) PROVE RegInv'
  <2>1. CASE RegKnown(regDev[t])
    BY <1>6, <2>1, RegMovesOn, Zenon DEF RegAdd, RegLabels, RegInv
  <2>2. CASE ~RegKnown(regDev[t])
    <3>1. DOMAIN regMap' \subseteq RegIds
      BY <1>6, <2>2, RegInsertAdds, ZenonT(30) DEF RegAdd, RegInv
    <3>2. /\ regPc[t] = "add" /\ RegCallSave(t, "transition")
          /\ UNCHANGED <<regFile, regLock, regDev, regSnap, regFailed>>
      BY <1>6, <2>2, Zenon DEF RegAdd
    <3> QED BY <3>1, <3>2, RegSaveOwed, Zenon DEF RegReturns
  <2> QED BY <2>1, <2>2, Zenon
<1>7. ASSUME NEW t \in RegTasks, RegRefresh(t) PROVE RegInv'
  <2>1. DOMAIN regDev' = RegTasks /\ \A u \in RegTasks : u # t => regDev'[u] = regDev[u]
    BY <1>7, ZenonT(30) DEF RegRefresh, RegInv
  <2>2. PICK l \in {"transition", "idle"} : RegGoto(t, l)
    BY <1>7, ZenonT(30) DEF RegRefresh
  <2> QED BY <1>7, <2>1, <2>2, RegMovesOn, ZenonT(30) DEF RegRefresh, RegLabels
<1>8. ASSUME NEW t \in RegTasks, RegConnected(t) PROVE RegInv'
  <2>1. DOMAIN regDev' = RegTasks /\ \A u \in RegTasks : u # t => regDev'[u] = regDev[u]
    BY <1>8, ZenonT(30) DEF RegConnected, RegInv
  <2>2. DOMAIN regMap' = DOMAIN regMap
    BY <1>8, RegTransitionKeeps, Zenon DEF RegConnected
  <2> QED BY <1>8, <2>1, <2>2, RegMovesOn, ZenonT(30) DEF RegConnected, RegLabels
<1>9. ASSUME NEW t \in RegTasks, RegShutdown(t) PROVE RegInv'
  BY <1>9, RegSaveOwed, ZenonT(30) DEF RegShutdown, RegCall, RegInv, RegReturns
<1>10. ASSUME NEW t \in RegTasks, RegSnapshot(t) PROVE RegInv'
  <2>1. /\ regPc'[t] = "write" /\ regLock' = t /\ regPc[t] = "save"
        /\ \A u \in RegTasks : u # t => regPc'[u] = regPc[u] /\ regPc'[u] # "write"
        /\ regPc' \in [RegTasks -> RegLabels]
    BY <1>10, RegAssumption, ZenonT(30) DEF RegInv, RegSnapshot, RegGoto, RegLabels
  <2>2. /\ DOMAIN regSnap' = RegTasks /\ DOMAIN regSnap'[t] \subseteq DOMAIN regMap
    BY <1>10, Zenon DEF RegInv, RegSnapshot, RegOnly
  <2>3. UNCHANGED <<regMap, regFile, regDev, regRet>>
    BY <1>10, Zenon DEF RegSnapshot
  <2>4. \A d \in DOMAIN regFile' : d \in DOMAIN regMap' \/ d \notin DOMAIN regSnap'[t]
    BY <2>2, <2>3, Zenon
  <2> QED BY <2>1, <2>2, <2>3, <2>4, ZenonT(30) DEF RegInv
<1>11. ASSUME NEW t \in RegTasks, RegWrite(t) PROVE RegInv'
  <2>1. /\ regPc[t] = "write" /\ regPc'[t] = regRet[t] /\ regRet[t] \in RegReturns
        /\ \A u \in RegTasks : u # t => regPc'[u] = regPc[u]
        /\ regPc' \in [RegTasks -> RegLabels]
    BY <1>11, ZenonT(30) DEF RegInv, RegWrite, RegGoto, RegLabels, RegReturns
  <2>2. \A u \in RegTasks : regPc'[u] # "write"
    BY <2>1, Zenon DEF RegInv, RegReturns
  <2>3. RegSaves' <=> RegSaves
    BY <2>1, Zenon DEF RegSaves, RegReturns
  <2>4. /\ UNCHANGED <<regMap, regRet>> /\ DOMAIN regSnap' = RegTasks
        /\ DOMAIN regDev' = RegTasks /\ \A u \in RegTasks : u # t => regDev'[u] = regDev[u]
    BY <1>11, ZenonT(30) DEF RegWrite, RegInv
  <2>5. ~regFailed' => regFile' = regSnap[t] /\ ~regFailed
    BY <1>11, Zenon DEF RegWrite
  <2>6. DOMAIN regFile' \subseteq RegIds
    BY <1>11, <2>1, Zenon DEF RegWrite, RegInv
  <2>7. ~regFailed' => \A d \in DOMAIN regFile' : d \in DOMAIN regMap' \/ RegSaves'
    BY <2>1, <2>3, <2>4, <2>5, Zenon DEF RegInv
  <2>8. \A u \in RegTasks : regPc'[u] = "add" => u # t /\ regPc[u] = "add"
    BY <2>1, Zenon DEF RegReturns
  <2> QED BY <2>1, <2>2, <2>4, <2>6, <2>7, <2>8, ZenonT(30) DEF RegInv
<1>12. ASSUME NEW d \in RegIds, RegDisconnected(d) \/ RegPairing(d) PROVE RegInv'
  <2>1. DOMAIN regMap' = DOMAIN regMap
    BY <1>12, RegTransitionKeeps, Zenon DEF RegDisconnected, RegPairing
  <2> QED BY <1>12, <2>1, Zenon DEF RegDisconnected, RegPairing, RegInv, RegSaves
<1>13. ASSUME RegRestart PROVE RegInv'
  <2>1. PICK old \in SUBSET DOMAIN regFile :
          LET pruned == {d \in old : d \notin regPaired /\ regFile[d] # "Connected"}
              kept == RegOnly(regFile, RegIds \ pruned)
          IN  /\ regMap' = kept
              /\ regFile' = IF pruned = {} THEN regFile ELSE RegOnly(kept, regPaired)
    BY <1>13, ZenonT(30) DEF RegRestart
  <2>2. DOMAIN regMap' \subseteq RegIds /\ DOMAIN regFile' \subseteq DOMAIN regMap'
    BY <2>1, Zenon DEF RegOnly, RegInv
  <2>3. /\ regPc' = [t \in RegTasks |-> "idle"] /\ regRet' = [t \in RegTasks |-> "idle"]
        /\ regDev' = [t \in RegTasks |-> RegNone] /\ regSnap' = [t \in RegTasks |-> << >>]
    BY <1>13, Zenon DEF RegRestart
  <2> QED BY <2>2, <2>3, Zenon DEF RegInv, RegLabels, RegReturns
<1>14. CASE UNCHANGED regVars
  BY <1>14, ZenonT(30) DEF regVars, RegInv, RegSaves
<1> QED BY <1>1, <1>2, <1>3, <1>4, <1>5, <1>6, <1>7, <1>8, <1>9, <1>10, <1>11, <1>12, <1>13,
           <1>14, Zenon DEF RegNext

\* The state the daemon starts in.
LEMMA RegInitInv == RegInit => RegInv
BY Zenon DEF RegInit, RegInv, RegLabels, RegReturns, RegSaves

\* A deleted device does not come back with the file.
THEOREM DeletionsLast == RegSpec => []DeletedStaysDeleted
<1>1. RegInv => DeletedStaysDeleted
  BY Zenon DEF RegInv, DeletedStaysDeleted, RegSaves
<1> QED BY <1>1, RegInitInv, RegStep, PTL DEF RegSpec
=============================================================================
