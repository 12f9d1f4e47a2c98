------------------------------- MODULE Routing -------------------------------
(***************************************************************************)
(* plugins/registry.rs and protocol/router.rs: who receives a packet.  A   *)
(* registration with the registry takes two locks one after the other, the *)
(* plugin map and the capability index; a lookup reads the index and then  *)
(* the map.  PacketRouter, which the packet loop asks, has a table of its  *)
(* own, filled from the registry at the start, and handlers for packets of *)
(* no registered type.  The handlers found are run one by one, whatever    *)
(* becomes of their siblings.                                              *)
(***************************************************************************)
EXTENDS Naturals, Sequences, FiniteSets, Functions

CONSTANTS
    RtNames,        \* plugin names
    RtCaps,         \* packet types
    RtWriters,      \* tasks that register and unregister
    RtHandlers      \* bound on the handlers of one packet type

VARIABLES
    rtPlugins,      \* name -> the capabilities it declares, for registered names
    rtIndex,        \* capability -> names in order of registration
    rtCall,         \* writer -> the index update it still owes
    rtHandlers,     \* packet type -> the router's handlers, by plugin name
    rtDefaults,     \* its default handlers
    rtTodo,         \* handlers the packet under way has still to visit
    rtMet,          \* those that were run
    rtOk, rtFailed, rtAnswers,  \* any_ok, first_error, all_responses
    rtFound,        \* the handlers the lookup returned
    rtOut           \* "default" and "none" while the packet is routed, else the result

rtPacket == <<rtTodo, rtMet, rtOk, rtFailed, rtAnswers, rtFound, rtOut>>
rtRegistry == <<rtPlugins, rtIndex, rtCall>>
rtRouter == <<rtHandlers, rtDefaults>>
rtVars == <<rtRegistry, rtRouter, rtPacket>>

RtIdle == [op |-> "idle"]

RtInit ==
    /\ rtPlugins = [n \in {} |-> {}]
    /\ rtIndex = [c \in RtCaps |-> <<>>]
    /\ rtCall = [w \in RtWriters |-> RtIdle]
    /\ rtHandlers = [c \in RtCaps |-> <<>>] /\ rtDefaults = <<>>
    /\ rtTodo = <<>> /\ rtMet = {} /\ rtFound = {}
    /\ rtOk = FALSE /\ rtFailed = FALSE /\ rtAnswers = 0 /\ rtOut = "idle"

\* retain and filter: the names of a sequence that are in a set, in order.
RtOnly(names, S) ==
    LET Kept[i \in 0..Len(names)] ==
          IF i = 0 THEN <<>>
          ELSE IF names[i] \in S THEN Append(Kept[i - 1], names[i]) ELSE Kept[i - 1]
    IN  Kept[Len(names)]

RtSet(w, call) == rtCall' = [rtCall EXCEPT ![w] = call]

\* register, first half: the map; the capabilities of a plugin it replaces
\* are kept for the second half.
RtRegister(w, n, caps) ==
    /\ rtCall[w] = RtIdle
    /\ rtPlugins' = [m \in DOMAIN rtPlugins \cup {n} |-> IF m = n THEN caps ELSE rtPlugins[m]]
    /\ RtSet(w, [op |-> "add", name |-> n, caps |-> caps,
                 old |-> IF n \in DOMAIN rtPlugins THEN rtPlugins[n] ELSE {}])
    /\ UNCHANGED <<rtIndex, rtRouter, rtPacket>>

\* unregister, first half; false if there is no such plugin.
RtUnregister(w, n) ==
    /\ rtCall[w] = RtIdle
    /\ n \in DOMAIN rtPlugins
    /\ rtPlugins' = [m \in DOMAIN rtPlugins \ {n} |-> rtPlugins[m]]
    /\ RtSet(w, [op |-> "remove", name |-> n, caps |-> {}, old |-> rtPlugins[n]])
    /\ UNCHANGED <<rtIndex, rtRouter, rtPacket>>

\* The names of packet type c after a call: it loses this plugin, and no other,
\* if c was among its old capabilities, and gains it if c is among the new ones.
RtNamesAfter(call, names, c) ==
    LET kept == IF c \in call.old THEN RtOnly(names, RtNames \ {call.name}) ELSE names
    IN  IF c \in call.caps /\ call.name \notin Range(kept) THEN Append(kept, call.name) ELSE kept

\* Second half of both.
RtReindex(w) ==
    /\ rtCall[w] # RtIdle
    /\ rtIndex' = [c \in RtCaps |-> RtNamesAfter(rtCall[w], rtIndex[c], c)]
    /\ RtSet(w, RtIdle)
    /\ UNCHANGED <<rtPlugins, rtRouter, rtPacket>>

\* get_all_by_capability: names that no longer resolve are skipped.
RtLookup(c) == RtOnly(rtIndex[c], DOMAIN rtPlugins)

\* PacketRouter::register and register_default: one more handler at the end.
RtRouterRegister(c, n) ==
    /\ Len(rtHandlers[c]) < RtHandlers
    /\ rtHandlers' = [rtHandlers EXCEPT ![c] = Append(@, n)]
    /\ UNCHANGED <<rtRegistry, rtDefaults, rtPacket>>

RtRegisterDefault(n) ==
    /\ Len(rtDefaults) < RtHandlers
    /\ rtDefaults' = Append(rtDefaults, n)
    /\ UNCHANGED <<rtRegistry, rtHandlers, rtPacket>>

\* PacketRouter::unregister drops every handler of the type.
RtRouterUnregister(c) ==
    /\ rtHandlers[c] # <<>>
    /\ rtHandlers' = [rtHandlers EXCEPT ![c] = <<>>]
    /\ UNCHANGED <<rtRegistry, rtDefaults, rtPacket>>

\* The handlers are cloned and the lock is released before they run.
RtBegin(names) ==
    /\ rtTodo' = names /\ rtFound' = Range(names)
    /\ rtMet' = {} /\ rtOk' = FALSE /\ rtFailed' = FALSE /\ rtAnswers' = 0
    /\ rtOut' = IF names = <<>> THEN "unhandled" ELSE "none"

\* handle_packet of the registry.
RtHandlePacket(c) ==
    /\ rtOut \notin {"default", "none"}
    /\ RtBegin(RtLookup(c))
    /\ UNCHANGED <<rtRegistry, rtRouter>>

\* route: the handlers of the packet's type; when there are none the lock is
\* released and the default handlers are looked up under their own.
RtRoute(c) ==
    /\ rtOut \notin {"default", "none"}
    /\ IF rtHandlers[c] # <<>>
       THEN RtBegin(rtHandlers[c])
       ELSE /\ rtOut' = "default"
            /\ UNCHANGED <<rtTodo, rtMet, rtOk, rtFailed, rtAnswers, rtFound>>
    /\ UNCHANGED <<rtRegistry, rtRouter>>

RtRouteDefault ==
    /\ rtOut = "default"
    /\ RtBegin(rtDefaults)
    /\ UNCHANGED <<rtRegistry, rtRouter>>

\* run_one: a handler answers, has nothing to say, or fails or panics.
RtRunOne(outcome) ==
    /\ rtOut = "none" /\ rtTodo # <<>>
    /\ rtTodo' = Tail(rtTodo)
    /\ rtMet' = rtMet \cup {Head(rtTodo)}
    /\ rtOk' = (rtOk \/ outcome # "error")
    /\ rtFailed' = (rtFailed \/ outcome = "error")
    /\ rtAnswers' = rtAnswers + (IF outcome = "answer" THEN 1 ELSE 0)
    /\ UNCHANGED <<rtRegistry, rtRouter, rtFound, rtOut>>

RtReturn ==
    /\ rtOut = "none" /\ rtTodo = <<>>
    /\ rtOut' = IF rtAnswers > 0 THEN "answers" ELSE IF ~rtOk /\ rtFailed THEN "error" ELSE "nothing"
    /\ UNCHANGED <<rtRegistry, rtRouter, rtTodo, rtMet, rtOk, rtFailed, rtAnswers, rtFound>>

RtFanOut == (\E outcome \in {"answer", "ok", "error"} : RtRunOne(outcome)) \/ RtReturn

RtRegistryNext ==
    \/ \E w \in RtWriters, n \in RtNames :
          (\E caps \in SUBSET RtCaps : RtRegister(w, n, caps)) \/ RtUnregister(w, n)
    \/ \E w \in RtWriters : RtReindex(w)
    \/ \E c \in RtCaps : RtHandlePacket(c)
    \/ RtFanOut

RtRouterNext ==
    \/ \E c \in RtCaps, n \in RtNames : RtRouterRegister(c, n)
    \/ \E n \in RtNames : RtRegisterDefault(n)
    \/ \E c \in RtCaps : RtRouterUnregister(c) \/ RtRoute(c)
    \/ RtRouteDefault
    \/ RtFanOut

RtNext == RtRegistryNext \/ RtRouterNext

RtSpec == RtInit /\ [][RtNext]_rtVars

RtTypeOK ==
    /\ DOMAIN rtPlugins \subseteq RtNames
    /\ \A n \in DOMAIN rtPlugins : rtPlugins[n] \subseteq RtCaps
    /\ rtIndex \in [RtCaps -> Seq(RtNames)]
    /\ rtHandlers \in [RtCaps -> Seq(RtNames)] /\ rtDefaults \in Seq(RtNames)
    /\ rtOut \in {"idle", "default", "none", "unhandled", "answers", "error", "nothing"}
    /\ rtMet \subseteq rtFound

\* Between calls the index names for every packet type exactly the plugins
\* that declare it, each once, through every replacement of a plugin.
IndexIsExact ==
    (\A w \in RtWriters : rtCall[w] = RtIdle) =>
        \A c \in RtCaps :
            /\ IsInjective(rtIndex[c])
            /\ Range(rtIndex[c]) = {n \in DOMAIN rtPlugins : c \in rtPlugins[n]}

\* When a packet has been routed, every handler found for it has run, and an
\* error is reported only if none of them succeeded.
FanOutComplete ==
    rtOut \in {"answers", "error", "nothing"} =>
        rtMet = rtFound /\ (rtOut = "error" <=> ~rtOk)
=============================================================================
