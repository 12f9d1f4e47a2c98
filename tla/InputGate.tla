------------------------------ MODULE InputGate ------------------------------
(***************************************************************************)
(* How captured input reaches the peers.  The compositor reports a crossed *)
(* barrier twice, over the EI stream (start_emulating, then input) and     *)
(* over D-Bus (Activated).  The ActivationGate holds the input of a cycle  *)
(* until its Activated has arrived.  The pump thread, the session's signal *)
(* handler, the activation that wires the receiver, and the wire consumer  *)
(* run concurrently.                                                       *)
(***************************************************************************)
EXTENDS Naturals, Sequences

CONSTANTS IgCycles,   \* bound on barrier crossings
          IgItems,    \* bound on captured input events
          IgKinds     \* the kinds of input the compositor sends

IgCallers == {"signal", "setup"}

VARIABLES igEi,        \* the EI stream: what the pump has not read
          igBus,       \* Activated signals the handler has not read
          igCycle,     \* the compositor's current cycle
          igItem,      \* input events captured so far
          igSeq,       \* eis_sequence
          igAct,       \* activation_id
          igPending,   \* the gate's queue
          igHand,      \* the body the pump is about to send
          igSlot,      \* the receiver is in its slot
          igDeferred,  \* pending_activation_id, 0 for none
          igTx,        \* wire_tx is installed
          igPc,        \* position of the handler and of the activation
          igId,        \* the id each of them carries into handle_activated
          igReplay,    \* what each of them still has to replay
          igActivated, \* the ActivatedEvent channel
          igWire,      \* the wire-body channel
          igOut,       \* packets handed to the peers
          igMissed     \* cycles whose request met no peer

igVars == <<igEi, igBus, igCycle, igItem, igSeq, igAct, igPending, igHand, igSlot,
            igDeferred, igTx, igPc, igId, igReplay, igActivated, igWire, igOut, igMissed>>
igSource == <<igEi, igBus, igCycle, igItem>>
igGate == <<igSeq, igAct, igPending>>
igWiring == <<igSlot, igDeferred, igTx>>
igCalls == <<igPc, igId, igReplay>>
igSink == <<igActivated, igOut, igMissed>>

IgInit ==
    /\ igEi = <<>> /\ igBus = <<>> /\ igCycle = 0 /\ igItem = 0
    /\ igSeq = 0 /\ igAct = 0 /\ igPending = <<>> /\ igHand = <<>>
    /\ igSlot = FALSE /\ igDeferred = 0 /\ igTx = FALSE
    /\ igPc = [c \in IgCallers |-> IF c = "setup" THEN "populate" ELSE "wait"]
    /\ igId = [c \in IgCallers |-> 0]
    /\ igReplay = [c \in IgCallers |-> <<>>]
    /\ igActivated = <<>> /\ igWire = <<>> /\ igOut = <<>> /\ igMissed = {}

\* plan_button; both edges of the middle button click, the right button's release
\* is planned to nothing.
IgClick == [leftdown |-> <<"singlehold">>, leftup |-> <<"singlerelease">>,
            rightdown |-> <<"rightclick">>, rightup |-> <<>>,
            middledown |-> <<"middleclick">>, middleup |-> <<"middleclick">>]

\* KeyboardKey: a release, a key without keymap or symbol and a key with neither
\* text nor special code send nothing.
IgKey == [text |-> <<"key">>, special |-> <<"key">>, bare |-> <<>>]

\* What an event becomes on the wire (plan_motion and plan_scroll keep it whole).
IgPlan(item) ==
    LET kinds == CASE item.kind \in DOMAIN IgClick -> IgClick[item.kind]
                   [] item.kind \in DOMAIN IgKey -> IgKey[item.kind]
                   [] OTHER -> <<item.kind>>
    IN  [i \in 1..Len(kinds) |-> [item EXCEPT !.kind = kinds[i]]]

\* The gate's queue, event by event.
IgPlanAll(items) ==
    LET Planned[i \in 0..Len(items)] == IF i = 0 THEN <<>> ELSE Planned[i - 1] \o IgPlan(items[i])
    IN  Planned[Len(items)]

-----------------------------------------------------------------------------
(* The compositor                                                          *)

IgCross ==
    /\ igCycle < IgCycles
    /\ igCycle' = igCycle + 1
    /\ igEi' = Append(igEi, [cycle |-> igCycle + 1, n |-> 0, kind |-> "start"])
    /\ igBus' = Append(igBus, igCycle + 1)
    /\ UNCHANGED <<igItem, igGate, igHand, igWiring, igCalls, igSink, igWire>>

IgInput(k) ==
    /\ igCycle > 0 /\ igItem < IgItems
    /\ igItem' = igItem + 1
    /\ igEi' = Append(igEi, [cycle |-> igCycle, n |-> igItem + 1, kind |-> k])
    /\ UNCHANGED <<igBus, igCycle, igGate, igHand, igWiring, igCalls, igSink, igWire>>

-----------------------------------------------------------------------------
(* The pump: dispatch takes the gate's lock alone and drops it to send     *)

IgPumpStart ==
    /\ igPc["setup"] = "run" /\ igHand = <<>> /\ igEi # <<>>
    /\ Head(igEi).kind = "start"
    /\ igSeq' = Head(igEi).cycle
    /\ igEi' = Tail(igEi)
    /\ UNCHANGED <<igBus, igCycle, igItem, igAct, igPending, igHand, igWiring, igCalls,
                   igSink, igWire>>

\* should_queue: the stream is ahead of the last Activated.
IgShouldQueue == igSeq > igAct

IgPumpItem ==
    /\ igPc["setup"] = "run" /\ igHand = <<>> /\ igEi # <<>>
    /\ Head(igEi).kind # "start"
    /\ igEi' = Tail(igEi)
    /\ IF IgShouldQueue
         THEN igPending' = Append(igPending, Head(igEi)) /\ UNCHANGED igHand
         ELSE igHand' = IgPlan(Head(igEi)) /\ UNCHANGED igPending
    /\ UNCHANGED <<igBus, igCycle, igItem, igSeq, igAct, igWiring, igCalls, igSink, igWire>>

IgPumpSend ==
    /\ igHand # <<>>
    /\ igWire' = igWire \o igHand
    /\ igHand' = <<>>
    /\ UNCHANGED <<igSource, igGate, igWiring, igCalls, igSink>>

-----------------------------------------------------------------------------
(* The signal handler and the activation                                   *)

\* handle_activated of portal.rs: the consumer's event first.
IgSignal ==
    /\ igPc["signal"] = "wait" /\ igBus # <<>>
    /\ igActivated' = Append(igActivated, Head(igBus))
    /\ igId' = [igId EXCEPT !["signal"] = Head(igBus)]
    /\ igPc' = [igPc EXCEPT !["signal"] = "slot"]
    /\ igBus' = Tail(igBus)
    /\ UNCHANGED <<igEi, igCycle, igItem, igGate, igHand, igWiring, igReplay, igOut,
                   igMissed, igWire>>

\* Mutant: the handler defers on a look at the slot that may be outdated.
IgSlotCheckTorn ==
    /\ igPc["signal"] = "slot"
    /\ \/ /\ igSlot
          /\ igPc' = [igPc EXCEPT !["signal"] = "drain"]
          /\ UNCHANGED igDeferred
       \/ /\ igDeferred' = igId["signal"]
          /\ igPc' = [igPc EXCEPT !["signal"] = "wait"]
    /\ UNCHANGED <<igSource, igGate, igHand, igSlot, igTx, igId, igReplay, igSink, igWire>>

\* The slot is read and, while it is empty, the id deferred in one section.
IgSlotCheck ==
    /\ igPc["signal"] = "slot"
    /\ IF igSlot
         THEN igPc' = [igPc EXCEPT !["signal"] = "drain"] /\ UNCHANGED igDeferred
         ELSE /\ igDeferred' = igId["signal"]
              /\ igPc' = [igPc EXCEPT !["signal"] = "wait"]
    /\ UNCHANGED <<igSource, igGate, igHand, igSlot, igTx, igId, igReplay, igSink, igWire>>

\* populate_ei_receiver: the slot is set and the deferred id taken in one section.
IgPopulate ==
    /\ igPc["setup"] = "populate"
    /\ igSlot' = TRUE
    /\ igDeferred' = 0
    /\ igId' = [igId EXCEPT !["setup"] = igDeferred]
    /\ igPc' = [igPc EXCEPT !["setup"] = IF igDeferred = 0 THEN "start" ELSE "drain"]
    /\ UNCHANGED <<igSource, igGate, igHand, igTx, igReplay, igSink, igWire>>

\* handle_activated of ei.rs under both locks; the gate's is dropped at the end of
\* this step, the sender's after the replay.
IgDrain(c) ==
    /\ igPc[c] = "drain"
    /\ \A o \in IgCallers : igReplay[o] = <<>>
    /\ igAct' = igId[c]
    /\ IF igTx
         THEN igReplay' = [igReplay EXCEPT ![c] = IgPlanAll(igPending)] /\ igPending' = <<>>
         ELSE UNCHANGED <<igReplay, igPending>>
    /\ igPc' = [igPc EXCEPT ![c] = "replay"]
    /\ UNCHANGED <<igSource, igSeq, igHand, igWiring, igId, igSink, igWire>>

IgReplayOne(c) ==
    /\ igPc[c] = "replay" /\ igReplay[c] # <<>>
    /\ igWire' = Append(igWire, Head(igReplay[c]))
    /\ igReplay' = [igReplay EXCEPT ![c] = Tail(igReplay[c])]
    /\ UNCHANGED <<igSource, igGate, igHand, igWiring, igPc, igId, igSink>>

IgReplayed(c) ==
    /\ igPc[c] = "replay" /\ igReplay[c] = <<>>
    /\ igPc' = [igPc EXCEPT ![c] = IF c = "setup" THEN "start" ELSE "wait"]
    /\ UNCHANGED <<igSource, igGate, igHand, igWiring, igId, igReplay, igSink, igWire>>

\* EiReceiver::start: the sender is installed, then whatever was held is sent with
\* both locks taken, then the pump runs.
IgStart ==
    /\ igPc["setup"] = "start"
    /\ igTx' = TRUE
    /\ igPc' = [igPc EXCEPT !["setup"] = "flush"]
    /\ UNCHANGED <<igSource, igGate, igHand, igSlot, igDeferred, igId, igReplay, igSink, igWire>>

IgFlush ==
    /\ igPc["setup"] = "flush" /\ igReplay["signal"] = <<>>
    /\ igWire' = igWire \o IgPlanAll(igPending)
    /\ igPending' = <<>>
    /\ igPc' = [igPc EXCEPT !["setup"] = "run"]
    /\ UNCHANGED <<igSource, igSeq, igAct, igHand, igWiring, igId, igReplay, igSink>>

-----------------------------------------------------------------------------
(* The wire consumer: biased, the Activated channel first; what meets no   *)
(* peer is dropped                                                         *)

IgRelayRequest ==
    /\ igPc["setup"] = "run" /\ igActivated # <<>>
    /\ igActivated' = Tail(igActivated)
    /\ \/ /\ igOut' = Append(igOut, [cycle |-> Head(igActivated), n |-> 0, kind |-> "request"])
          /\ UNCHANGED igMissed
       \/ /\ igMissed' = igMissed \cup {Head(igActivated)}
          /\ UNCHANGED igOut
    /\ UNCHANGED <<igSource, igGate, igHand, igWiring, igCalls, igWire>>

IgWireTurn == igPc["setup"] = "run" /\ igWire # <<>> /\ igActivated = <<>>

IgRelayBody ==
    /\ IgWireTurn
    /\ igWire' = Tail(igWire)
    /\ igOut' \in {igOut, Append(igOut, Head(igWire))}
    /\ UNCHANGED <<igSource, igGate, igHand, igWiring, igCalls, igActivated, igMissed>>

-----------------------------------------------------------------------------
IgNext ==
    \/ IgCross \/ (\E k \in IgKinds : IgInput(k))
    \/ IgPumpStart \/ IgPumpItem \/ IgPumpSend
    \/ IgSignal \/ IgSlotCheck \/ IgPopulate \/ IgStart \/ IgFlush
    \/ \E c \in IgCallers : IgDrain(c) \/ IgReplayOne(c) \/ IgReplayed(c)
    \/ IgRelayRequest \/ IgRelayBody

IgSpec == IgInit /\ [][IgNext]_igVars

-----------------------------------------------------------------------------
IgTypeOK ==
    /\ igCycle \in 0..IgCycles /\ igItem \in 0..IgItems
    /\ igSeq \in 0..igCycle /\ igAct \in 0..igCycle /\ igDeferred \in 0..igCycle
    /\ igSlot \in BOOLEAN /\ igTx \in BOOLEAN
    /\ igPc["signal"] \in {"wait", "slot", "drain", "replay"}
    /\ igPc["setup"] \in {"populate", "drain", "replay", "start", "flush", "run"}
    /\ Len(igHand) <= 1 /\ igMissed \subseteq 1..IgCycles

\* Input never reaches a peer ahead of the first request that announces it,
\* whichever of EI and D-Bus is faster: the gate of ei.rs, the order of the two
\* sends in the signal handler and the biased select each carry part of this.
\* (A late Activated releases the input of a newer cycle as well.)
RequestFirst ==
    \A i \in 1..Len(igOut) : igOut[i].kind = "request"
        \/ igMissed # {}
        \/ \E j \in 1..(i - 1) : igOut[j].kind = "request"

\* An Activated that came before the receiver was in its slot is replayed once it
\* is: the deferred id is never left behind (populate_ei_receiver, its lock order).
DeferredIsReplayed == igPc["setup"] # "populate" => igDeferred = 0

\* Captured input never reaches a peer ahead of the first request announcing it, and
\* an activation that came before the receiver was in its slot is replayed.
GateInOrder == RequestFirst /\ DeferredIsReplayed

\* What handle_activated of ei.rs says its two locks achieve: events reach the wire
\* in the order in which they were captured.
InputInOrder ==
    LET sent == igOut \o igWire
    IN  \A i, j \in 1..Len(sent) :
            i < j /\ sent[i].kind # "request" /\ sent[j].kind # "request" => sent[i].n < sent[j].n
=============================================================================
