------------------------------- MODULE Links -------------------------------
(***************************************************************************)
(* The connection slot of every device: ConnectionManager (connections,    *)
(* generations, cancel_tokens), the inbound accept path, the outbound dial *)
(* path, the packet loop's exits, the teardown of a failed send and of the *)
(* HTTP API, and the lifecycle record they all write.                      *)
(*                                                                         *)
(* A link is one TCP/TLS socket together with the task that drives it.     *)
(* Every step below is one critical section of the code: between two of    *)
(* them the task has released its lock, so any other task may run.  The    *)
(* code knows a link only by its device and its generation NUMBER; the     *)
(* model also knows the link itself, which is what lets it say that a      *)
(* number named the wrong link.                                            *)
(***************************************************************************)
EXTENDS Naturals

CONSTANTS
    Devices,      \* device ids
    InLinks,      \* sockets accepted by the listener
    OutLinks,     \* sockets dialled by the orchestrator or the API
    DevOf,        \* the device a link authenticates as
    CertOf,       \* the certificate its peer presents
    NoLink,       \* an empty map entry
    Callers       \* who else uses the links: subset of {"send", "api"}

Links == InLinks \cup OutLinks

ASSUME LinksAssumption ==
    /\ InLinks \cap OutLinks = {}
    /\ NoLink \notin Links
    /\ DevOf \in [Links -> Devices]

VARIABLES
    gens,        \* generations: the last generation handed out, 0 = no entry
    slot,        \* connections: the link registered for the device
    token,       \* cancel_tokens: the link whose token is registered
    cancelled,   \* links whose token has been cancelled
    life,        \* the device's lifecycle record
    gen,         \* the generation stored in a link's Connection, 0 = none yet
    pc,          \* where the link's task is
    snap,        \* connected ids read by cleanup_stale_generations
    send,        \* handle captured by a send_packet whose write is in flight
    api,         \* handle whose generation an API teardown has read
    apiPc,       \* where that API call is
    forgotten,   \* history: devices whose generation counter was discarded
    usurped      \* history: links removed by a teardown meant for another link

vars == <<gens, slot, token, cancelled, life, gen, pc, snap, send, api, apiPc,
          forgotten, usurped>>

PCs == {"new", "evictCancel", "evictRemove", "evictShut", "exchange", "xDown",
        "outOld", "outCancel", "outRemove", "outInsert", "outSnap", "outRetain",
        "register", "connect", "loop", "idleDown", "markDown", "closing", "done"}

LifeStates == {"Absent", "Connected", "Disconnected"}

Init ==
    /\ gens = [d \in Devices |-> 0]
    /\ slot = [d \in Devices |-> NoLink]
    /\ token = [d \in Devices |-> NoLink]
    /\ cancelled = {}
    /\ life = [d \in Devices |-> "Absent"]
    /\ gen = [l \in Links |-> 0]
    /\ pc = [l \in Links |-> "new"]
    /\ snap = [l \in Links |-> {}]
    /\ send = [d \in Devices |-> NoLink]
    /\ api = [d \in Devices |-> NoLink]
    /\ apiPc = [d \in Devices |-> "idle"]
    /\ forgotten = {}
    /\ usurped = {}

Goto(l, label) == pc' = [pc EXCEPT ![l] = label]

(***************************************************************************)
(* The shared operations of ConnectionManager.                             *)
(***************************************************************************)

\* Mutant of Current: any link in the slot will do.
CurrentAny(l) == slot[DevOf[l]] # NoLink

\* is_current_generation and the test inside register_cancel_token_if_current,
\* remove_cancel_token_if_current and recv_packet_inner: numbers are compared.
Current(l) ==
    LET d == DevOf[l] IN slot[d] # NoLink /\ gen[slot[d]] = gen[l]

\* Mutant of Refused: disconnect without its generation check.
RefusedNever(d, owner) == FALSE

\* disconnect answers Ok(false): the slot holds another generation.
Refused(d, owner) == slot[d] # NoLink /\ gen[slot[d]] # gen[owner]

\* disconnect answers Ok(true): token and connection are removed, also when
\* the slot was already empty.
TearDown(d, owner) ==
    /\ ~Refused(d, owner)
    /\ slot' = [slot EXCEPT ![d] = NoLink]
    /\ token' = [token EXCEPT ![d] = NoLink]
    /\ usurped' = usurped \cup ({slot[d]} \ {owner, NoLink})

\* disconnect by task l: to onTrue when it owned the slot, else to onFalse.
Disconnect(l, onTrue, onFalse) ==
    \/ TearDown(DevOf[l], l) /\ Goto(l, onTrue)
    \/ /\ Refused(DevOf[l], l)
       /\ Goto(l, onFalse)
       /\ UNCHANGED <<slot, token, usurped>>

\* lifecycle.try_transition(Disconnected): only Connected may become it.
MarkDown(d) ==
    life' = [life EXCEPT ![d] = IF @ = "Connected" THEN "Disconnected" ELSE @]

\* cancel_loop: cancels whatever token is registered for the device.
CancelLoop(d) == cancelled' = cancelled \cup ({token[d]} \ {NoLink})

\* remove_cancel_token.
RemoveToken(d) == token' = [token EXCEPT ![d] = NoLink]

\* The label a task returns to after run_packet_loop: only the listener's
\* handle_connection disconnects once more.
AfterLoop(l) == IF l \in InLinks THEN "closing" ELSE "done"

(***************************************************************************)
(* Inbound: accept_incoming and handle_connection.                         *)
(***************************************************************************)

\* Certificate comparison, generation bump and insert under one write lock.
AcceptInsert(l) ==
    LET d == DevOf[l]
        old == slot[d]
    IN
    /\ l \in InLinks
    /\ pc[l] = "new"
    /\ IF old # NoLink /\ CertOf[old] # CertOf[l]
       THEN Goto(l, "done") /\ UNCHANGED <<gens, gen, slot>>
       ELSE /\ gens' = [gens EXCEPT ![d] = @ + 1]
            /\ gen' = [gen EXCEPT ![l] = gens[d] + 1]
            /\ slot' = [slot EXCEPT ![d] = l]
            /\ Goto(l, IF old # NoLink THEN "evictCancel" ELSE "exchange")
    /\ UNCHANGED <<token, cancelled, life, snap, send, api, apiPc, forgotten, usurped>>

EvictCancel(l) ==
    /\ pc[l] = "evictCancel"
    /\ CancelLoop(DevOf[l])
    /\ Goto(l, "evictRemove")
    /\ UNCHANGED <<gens, slot, token, life, gen, snap, send, api, apiPc, forgotten, usurped>>

EvictRemove(l) ==
    /\ pc[l] = "evictRemove"
    /\ RemoveToken(DevOf[l])
    /\ Goto(l, "evictShut")
    /\ UNCHANGED <<gens, slot, cancelled, life, gen, snap, send, api, apiPc, forgotten, usurped>>

\* The old socket's shutdown has completed.
EvictShut(l) ==
    /\ pc[l] = "evictShut"
    /\ Goto(l, "exchange")
    /\ UNCHANGED <<gens, slot, token, cancelled, life, gen, snap, send, api, apiPc,
                   forgotten, usurped>>

\* handle_connection gives accept_incoming 30 seconds and drops it at whatever
\* await it has reached; the link it has already inserted stays in the map.
AcceptTimeout(l) ==
    /\ pc[l] \in {"evictCancel", "evictRemove", "evictShut"}
    /\ Goto(l, "done")
    /\ UNCHANGED <<gens, slot, token, cancelled, life, gen, snap, send, api, apiPc,
                   forgotten, usurped>>

ExchangeOk(l) ==
    /\ pc[l] = "exchange"
    /\ Current(l)
    /\ Goto(l, "register")
    /\ UNCHANGED <<gens, slot, token, cancelled, life, gen, snap, send, api, apiPc,
                   forgotten, usurped>>

\* Identity exchange failed or timed out.
ExchangeFail(l) ==
    /\ pc[l] = "exchange"
    /\ Disconnect(l, "xDown", "done")
    /\ UNCHANGED <<gens, cancelled, life, gen, snap, send, api, apiPc, forgotten>>

ExchangeDown(l) ==
    /\ pc[l] = "xDown"
    /\ MarkDown(DevOf[l])
    /\ Goto(l, "done")
    /\ UNCHANGED <<gens, slot, token, cancelled, gen, snap, send, api, apiPc,
                   forgotten, usurped>>

(***************************************************************************)
(* Outbound: connect_to_device.                                            *)
(***************************************************************************)

\* Mutant of OutGen: the new generation is not written back.
OutGenUnrecorded(l) ==
    /\ l \in OutLinks
    /\ pc[l] = "new"
    /\ gen' = [gen EXCEPT ![l] = gens[DevOf[l]] + 1]
    /\ Goto(l, "outOld")
    /\ UNCHANGED <<gens, slot, token, cancelled, life, snap, send, api, apiPc, forgotten, usurped>>

\* The generation is taken under the generations lock alone.
OutGen(l) ==
    LET d == DevOf[l] IN
    /\ l \in OutLinks
    /\ pc[l] = "new"
    /\ gens' = [gens EXCEPT ![d] = @ + 1]
    /\ gen' = [gen EXCEPT ![l] = gens[d] + 1]
    /\ Goto(l, "outOld")
    /\ UNCHANGED <<slot, token, cancelled, life, snap, send, api, apiPc, forgotten, usurped>>

OutOld(l) ==
    /\ pc[l] = "outOld"
    /\ Goto(l, IF slot[DevOf[l]] # NoLink THEN "outCancel" ELSE "outInsert")
    /\ UNCHANGED <<gens, slot, token, cancelled, life, gen, snap, send, api, apiPc,
                   forgotten, usurped>>

OutCancel(l) ==
    /\ pc[l] = "outCancel"
    /\ CancelLoop(DevOf[l])
    /\ Goto(l, "outRemove")
    /\ UNCHANGED <<gens, slot, token, life, gen, snap, send, api, apiPc, forgotten, usurped>>

OutRemove(l) ==
    /\ pc[l] = "outRemove"
    /\ RemoveToken(DevOf[l])
    /\ Goto(l, "outInsert")
    /\ UNCHANGED <<gens, slot, cancelled, life, gen, snap, send, api, apiPc, forgotten, usurped>>

\* Inserted over whatever the slot holds by now.
OutInsert(l) ==
    /\ pc[l] = "outInsert"
    /\ slot' = [slot EXCEPT ![DevOf[l]] = l]
    /\ Goto(l, "outSnap")
    /\ UNCHANGED <<gens, token, cancelled, life, gen, snap, send, api, apiPc, forgotten, usurped>>

\* cleanup_stale_generations reads the connected ids ...
OutSnap(l) ==
    /\ pc[l] = "outSnap"
    /\ snap' = [snap EXCEPT ![l] = {d \in Devices : slot[d] # NoLink}]
    /\ Goto(l, "outRetain")
    /\ UNCHANGED <<gens, slot, token, cancelled, life, gen, send, api, apiPc, forgotten, usurped>>

\* ... and then drops the counter of every other device.
OutRetain(l) ==
    /\ pc[l] = "outRetain"
    /\ gens' = [d \in Devices |-> IF d \in snap[l] THEN gens[d] ELSE 0]
    /\ forgotten' = forgotten \cup {d \in Devices \ snap[l] : gens[d] # 0}
    /\ snap' = [snap EXCEPT ![l] = {}]
    /\ Goto(l, "register")
    /\ UNCHANGED <<slot, token, cancelled, life, gen, send, api, apiPc, usurped>>

(***************************************************************************)
(* Setup and packet loop, the same for both directions.                    *)
(***************************************************************************)

\* Mutant of Register: a link that lost the slot puts itself back.
RegisterAgain(l) ==
    /\ pc[l] = "register"
    /\ slot' = [slot EXCEPT ![DevOf[l]] = l]
    /\ token' = [token EXCEPT ![DevOf[l]] = l]
    /\ Goto(l, "connect")
    /\ UNCHANGED <<gens, cancelled, life, gen, snap, send, api, apiPc, forgotten, usurped>>

\* register_cancel_token_if_current.
Register(l) ==
    /\ pc[l] = "register"
    /\ IF Current(l)
       THEN token' = [token EXCEPT ![DevOf[l]] = l] /\ Goto(l, "connect")
       ELSE UNCHANGED token /\ Goto(l, "done")
    /\ UNCHANGED <<gens, slot, cancelled, life, gen, snap, send, api, apiPc, forgotten, usurped>>

\* lifecycle.ensure_and_transition(Connected).
Connect(l) ==
    /\ pc[l] = "connect"
    /\ life' = [life EXCEPT ![DevOf[l]] = "Connected"]
    /\ Goto(l, "loop")
    /\ UNCHANGED <<gens, slot, token, cancelled, gen, snap, send, api, apiPc, forgotten, usurped>>

\* The peer closed, the read failed, the peer unpaired or the daemon stops.
LoopEnd(l) ==
    /\ pc[l] = "loop"
    /\ Current(l)
    /\ Disconnect(l, "markDown", AfterLoop(l))
    /\ UNCHANGED <<gens, cancelled, life, gen, snap, send, api, apiPc, forgotten>>

\* recv_packet_current finds the slot empty or another generation in it.
LoopStale(l) ==
    /\ pc[l] = "loop"
    /\ ~Current(l)
    /\ Disconnect(l, "markDown", AfterLoop(l))
    /\ UNCHANGED <<gens, cancelled, life, gen, snap, send, api, apiPc, forgotten>>

\* The connection-cancelled arm.
LoopCancel(l) ==
    /\ pc[l] = "loop"
    /\ l \in cancelled
    /\ IF Current(l)
       THEN RemoveToken(DevOf[l]) /\ Goto(l, "markDown")
       ELSE UNCHANGED token /\ Goto(l, AfterLoop(l))
    /\ UNCHANGED <<gens, slot, cancelled, life, gen, snap, send, api, apiPc, forgotten, usurped>>

\* The idle arm looks at whatever link the slot holds; its return leaves only
\* the arm's async block, so the loop goes round once more.
LoopIdle(l) ==
    /\ pc[l] = "loop"
    /\ slot[DevOf[l]] # NoLink
    /\ Disconnect(l, "idleDown", "loop")
    /\ UNCHANGED <<gens, cancelled, life, gen, snap, send, api, apiPc, forgotten>>

\* Another arm of the select may become ready first and drop this one.
IdleDown(l) ==
    /\ pc[l] = "idleDown"
    /\ MarkDown(DevOf[l]) \/ UNCHANGED life
    /\ Goto(l, "loop")
    /\ UNCHANGED <<gens, slot, token, cancelled, gen, snap, send, api, apiPc, forgotten, usurped>>

\* The peer refused or withdrew a pending pairing: the loop returns as it is.
\* The packet may have been read before the link was superseded.
LoopReject(l) ==
    /\ pc[l] = "loop"
    /\ Goto(l, AfterLoop(l))
    /\ UNCHANGED <<gens, slot, token, cancelled, life, gen, snap, send, api, apiPc,
                   forgotten, usurped>>

LoopDown(l) ==
    /\ pc[l] = "markDown"
    /\ MarkDown(DevOf[l])
    /\ Goto(l, AfterLoop(l))
    /\ UNCHANGED <<gens, slot, token, cancelled, gen, snap, send, api, apiPc, forgotten, usurped>>

\* handle_connection's disconnect after the loop.
Closing(l) ==
    /\ pc[l] = "closing"
    /\ Disconnect(l, "done", "done")
    /\ UNCHANGED <<gens, cancelled, life, gen, snap, send, api, apiPc, forgotten>>

(***************************************************************************)
(* send_packet: one write in flight per device.                            *)
(***************************************************************************)

SendStart(d) ==
    /\ "send" \in Callers
    /\ send[d] = NoLink
    /\ slot[d] # NoLink
    /\ send' = [send EXCEPT ![d] = slot[d]]
    /\ UNCHANGED <<gens, slot, token, cancelled, life, gen, pc, snap, api, apiPc,
                   forgotten, usurped>>

SendOk(d) ==
    /\ send[d] # NoLink
    /\ send' = [send EXCEPT ![d] = NoLink]
    /\ UNCHANGED <<gens, slot, token, cancelled, life, gen, pc, snap, api, apiPc,
                   forgotten, usurped>>

\* A failed or timed-out write tears down the link it wrote to.
SendFail(d) ==
    /\ send[d] # NoLink
    /\ \/ TearDown(d, send[d])
       \/ Refused(d, send[d]) /\ UNCHANGED <<slot, token, usurped>>
    /\ send' = [send EXCEPT ![d] = NoLink]
    /\ UNCHANGED <<gens, cancelled, life, gen, pc, snap, api, apiPc, forgotten>>

(***************************************************************************)
(* disconnect_device, unpair_device and delete_device: one call per device *)
(* at a time.                                                              *)
(***************************************************************************)

ApiLookup(d) ==
    /\ "api" \in Callers
    /\ apiPc[d] = "idle"
    /\ slot[d] # NoLink
    /\ api' = [api EXCEPT ![d] = slot[d]]
    /\ apiPc' = [apiPc EXCEPT ![d] = "teardown"]
    /\ UNCHANGED <<gens, slot, token, cancelled, life, gen, pc, snap, send, forgotten, usurped>>

\* disconnect_device marks the lifecycle when it owned the link, unpair_device
\* never does, delete_device removes the record either way.
ApiTeardown(d) ==
    /\ apiPc[d] = "teardown"
    /\ \/ /\ TearDown(d, api[d])
          /\ \E next \in {"idle", "down", "remove"} : apiPc' = [apiPc EXCEPT ![d] = next]
       \/ /\ Refused(d, api[d])
          /\ \E next \in {"idle", "remove"} : apiPc' = [apiPc EXCEPT ![d] = next]
          /\ UNCHANGED <<slot, token, usurped>>
    /\ api' = [api EXCEPT ![d] = NoLink]
    /\ UNCHANGED <<gens, cancelled, life, gen, pc, snap, send, forgotten>>

ApiDown(d) ==
    /\ apiPc[d] = "down"
    /\ MarkDown(d)
    /\ apiPc' = [apiPc EXCEPT ![d] = "idle"]
    /\ UNCHANGED <<gens, slot, token, cancelled, gen, pc, snap, send, api, forgotten, usurped>>

ApiRemove(d) ==
    /\ apiPc[d] = "remove"
    /\ life' = [life EXCEPT ![d] = "Absent"]
    /\ apiPc' = [apiPc EXCEPT ![d] = "idle"]
    /\ UNCHANGED <<gens, slot, token, cancelled, gen, pc, snap, send, api, forgotten, usurped>>

(***************************************************************************)
(* The specification.                                                      *)
(***************************************************************************)

\* Steps a task takes by itself once it is scheduled.
TaskStep(l) ==
    \/ EvictCancel(l) \/ EvictRemove(l) \/ EvictShut(l)
    \/ ExchangeDown(l)
    \/ OutOld(l) \/ OutCancel(l) \/ OutRemove(l) \/ OutInsert(l)
    \/ OutSnap(l) \/ OutRetain(l)
    \/ Register(l) \/ Connect(l)
    \/ LoopStale(l) \/ LoopCancel(l) \/ IdleDown(l) \/ LoopDown(l) \/ Closing(l)

\* Steps that need the peer, the network or a timer.
PeerStep(l) ==
    \/ AcceptInsert(l) \/ OutGen(l) \/ AcceptTimeout(l)
    \/ ExchangeOk(l) \/ ExchangeFail(l)
    \/ LoopEnd(l) \/ LoopIdle(l) \/ LoopReject(l)

UserStep(d) ==
    \/ SendStart(d) \/ SendOk(d) \/ SendFail(d)
    \/ ApiLookup(d) \/ ApiTeardown(d) \/ ApiDown(d) \/ ApiRemove(d)

Next ==
    \/ \E l \in Links : TaskStep(l) \/ PeerStep(l)
    \/ \E d \in Devices : UserStep(d)

Spec == Init /\ [][Next]_vars

\* tokio polls every ready task again and again.
FairSpec == Spec /\ \A l \in Links : WF_vars(TaskStep(l))

(***************************************************************************)
(* Properties.                                                             *)
(***************************************************************************)

TypeOK ==
    /\ gens \in [Devices -> Nat]
    /\ slot \in [Devices -> Links \cup {NoLink}]
    /\ token \in [Devices -> Links \cup {NoLink}]
    /\ cancelled \subseteq Links
    /\ life \in [Devices -> LifeStates]
    /\ gen \in [Links -> Nat]
    /\ pc \in [Links -> PCs]
    /\ snap \in [Links -> SUBSET Devices]
    /\ send \in [Devices -> Links \cup {NoLink}]
    /\ api \in [Devices -> Links \cup {NoLink}]
    /\ apiPc \in [Devices -> {"idle", "teardown", "down", "remove"}]
    /\ forgotten \subseteq Devices
    /\ usurped \subseteq Links

\* (device, generation) names one link, as long as the device's counter has
\* never been discarded by cleanup_stale_generations: the two allocation sites
\* cannot hand the same number to two links.
GenerationNamesLink ==
    \A l, m \in Links :
        /\ DevOf[l] = DevOf[m]
        /\ DevOf[l] \notin forgotten
        /\ gen[l] # 0
        /\ gen[l] = gen[m]
        => l = m

\* The generation guard of disconnect protects replacements: a teardown
\* carried by a superseded task, a late send failure or a slow API call never
\* removes a link other than its own, unless the counter was discarded.
NoUsurpedTeardown == \A l \in usurped : DevOf[l] \in forgotten

\* A packet loop whose link has left the slot ends: it is cancelled, or its
\* next read finds the slot empty or of another generation.
SupersededLoopEnds ==
    \A l \in Links :
        (pc[l] = "loop" /\ slot[DevOf[l]] # l)
            ~> (pc[l] # "loop" \/ DevOf[l] \in forgotten)

\* The abstract slot: connections is its owner, and a link is spent once its
\* task is past the insert.
Slot == INSTANCE LinkSlot
    WITH owner <- slot,
         spent <- {l \in Links : pc[l] \notin
                     {"new", "outOld", "outCancel", "outRemove", "outInsert"}}

\* The connection manager implements the abstract slot: accepts, dials,
\* evictions, teardowns and late failures never bring a link back that has
\* lost its slot, and no step changes the slots of two devices.
SlotImplemented == Slot!SlotSpec

(***************************************************************************)
(* What comments of the code say of these operations, as written.          *)
(***************************************************************************)

\* "a stale loop must not mark the live replacement Disconnected": a running
\* loop whose link holds the slot is reported Connected (or its record was
\* deleted by the user).
LiveLinkNotMarkedDown ==
    \A l \in Links :
        pc[l] = "loop" /\ slot[DevOf[l]] = l => life[DevOf[l]] # "Disconnected"

\* "staying connected would leave a live link to a device that just cut the
\* pairing relationship": a registered link always has its task.
LinkHasTask == \A d \in Devices : slot[d] # NoLink => pc[slot[d]] # "done"

\* A replacement's token must survive the tasks it replaced, "or the
\* replacement's loop can never be cancelled".
LiveLoopCancellable ==
    \A l \in Links :
        pc[l] = "loop" /\ slot[DevOf[l]] = l => token[DevOf[l]] = l \/ l \in cancelled
=============================================================================
