------------------------------ MODULE Discovery ------------------------------
(***************************************************************************)
(* How this host makes itself known: the network watcher with its debounce,*)
(* the reactor that announces again, the broadcast fallback, and the answer*)
(* to a peer that mDNS resolved.                                           *)
(*                                                                         *)
(* discStale is the model's own: the network changed since the last        *)
(* broadcast of the reactor.  Broadcasts are attempts, as their errors are *)
(* only logged.  An interval is its number of doublings.                   *)
(***************************************************************************)
EXTENDS Naturals

CONSTANTS
    DiscChanges,    \* bound: raw events of the interfaces and the watchdog
    DiscDoublings   \* doublings until FALLBACK_MAX_INTERVAL

ASSUME DiscAssumption == DiscChanges \in Nat /\ DiscDoublings \in Nat

VARIABLES
    discRaw,        \* raw events in the channel of watch_network_changes
    discLeft,       \* events that may still happen
    discBurst,      \* debounce is inside a burst
    discEvents,     \* debounced events in the reactor's channel
    discReactor,    \* "wait", "mdns" between broadcast and reannounce, "done"
    discStale,
    discMdns,       \* mdns_healthy
    discPeers,      \* a device is connected
    discAsked,      \* the limiter of allow_mdns_unicast holds its stamp
    discFallback,   \* "check", "poll", "sleep" or "done"
    discInterval,   \* current_interval
    discStop        \* the shutdown token

discVars == <<discRaw, discLeft, discBurst, discEvents, discReactor, discStale, discMdns,
              discPeers, discAsked, discFallback, discInterval, discStop>>

discNet == <<discRaw, discLeft, discBurst, discEvents, discReactor, discStale>>
discSchedule == <<discFallback, discInterval>>
discHost == <<discMdns, discPeers, discAsked, discStop>>

\* start_discovery: mDNS may fail to start; the first broadcast has been sent.
DiscInit ==
    /\ discRaw = 0 /\ discLeft = DiscChanges /\ discBurst = FALSE
    /\ discEvents = 0 /\ discReactor = "wait" /\ discStale = FALSE
    /\ discMdns \in BOOLEAN
    /\ discPeers = FALSE /\ discAsked = FALSE
    /\ discFallback = "check" /\ discInterval = 0
    /\ discStop = FALSE

\* An address comes or goes, or the clocks show that the host was suspended.
DiscChange ==
    /\ discLeft > 0 /\ ~discStop
    /\ discLeft' = discLeft - 1
    /\ discRaw' = discRaw + 1
    /\ discStale' = TRUE
    /\ UNCHANGED <<discBurst, discEvents, discReactor, discSchedule, discHost>>

\* debounce takes a raw event: a burst begins, or its window starts anew.
DiscTake ==
    /\ discRaw > 0
    /\ discRaw' = discRaw - 1
    /\ discBurst' = TRUE
    /\ UNCHANGED <<discLeft, discEvents, discReactor, discStale, discSchedule, discHost>>

\* Mutant of DiscFire: what came in during the window goes with it.
DiscFireAll ==
    /\ discBurst
    /\ discBurst' = FALSE
    /\ discRaw' = 0
    /\ discEvents' = discEvents + (IF discRaw > 0 THEN 0 ELSE 1)
    /\ UNCHANGED <<discLeft, discReactor, discStale, discSchedule, discHost>>

\* The window passes without an event, or the sources closed: one event.
DiscFire ==
    /\ discBurst
    /\ discBurst' = FALSE
    /\ discEvents' = discEvents + 1
    /\ UNCHANGED <<discRaw, discLeft, discReactor, discStale, discSchedule, discHost>>

\* react_to_network_change: the broadcast, then the mDNS announcement.
DiscBroadcast ==
    /\ discReactor = "wait" /\ discEvents > 0
    /\ discEvents' = discEvents - 1
    /\ discReactor' = "mdns"
    /\ discStale' = FALSE
    /\ UNCHANGED <<discRaw, discLeft, discBurst, discSchedule, discHost>>

DiscReannounce ==
    /\ discReactor = "mdns"
    /\ discReactor' = "wait"
    /\ UNCHANGED <<discRaw, discLeft, discBurst, discEvents, discStale, discSchedule, discHost>>

DiscReactorStops ==
    /\ discStop /\ discReactor = "wait"
    /\ discReactor' = "done"
    /\ UNCHANGED <<discRaw, discLeft, discBurst, discEvents, discStale, discSchedule, discHost>>

\* Browsing failed or the daemon's channel closed.
DiscMdnsDies ==
    /\ discMdns /\ ~discStop
    /\ discMdns' = FALSE
    /\ UNCHANGED <<discNet, discSchedule, discPeers, discAsked, discStop>>

\* on_mdns_device_resolved for a peer that is not this host: no answer while
\* it is connected, nor again within the window of the limiter.
DiscResolved ==
    /\ discMdns /\ ~discStop
    /\ ~discPeers /\ ~discAsked
    /\ discAsked' = TRUE
    /\ UNCHANGED <<discNet, discSchedule, discMdns, discPeers, discStop>>

DiscWindowEnds ==
    /\ discAsked
    /\ discAsked' = FALSE
    /\ UNCHANGED <<discNet, discSchedule, discMdns, discPeers, discStop>>

\* A link comes up or goes down.
DiscLink ==
    /\ discPeers' = ~discPeers
    /\ UNCHANGED <<discNet, discSchedule, discMdns, discAsked, discStop>>

DiscEligible == ~discMdns /\ ~discPeers

\* run_fallback_schedule: broadcast and sleep, or reset and poll.
DiscCheck ==
    /\ discFallback = "check"
    /\ IF DiscEligible
       THEN discFallback' = "sleep" /\ UNCHANGED discInterval
       ELSE discFallback' = "poll" /\ discInterval' = 0
    /\ UNCHANGED <<discNet, discHost>>

\* Mutant of DiscSlept: the interval is doubled without end.
DiscSleptUncapped ==
    /\ discFallback = "sleep"
    /\ discFallback' = "check"
    /\ discInterval' = discInterval + 1
    /\ UNCHANGED <<discNet, discHost>>

DiscSlept ==
    /\ discFallback = "sleep"
    /\ discFallback' = "check"
    /\ discInterval' = IF discInterval < DiscDoublings THEN discInterval + 1 ELSE discInterval
    /\ UNCHANGED <<discNet, discHost>>

DiscPolled ==
    /\ discFallback = "poll"
    /\ discFallback' = "check"
    /\ UNCHANGED <<discInterval, discNet, discHost>>

DiscFallbackStops ==
    /\ discStop /\ discFallback \in {"sleep", "poll"}
    /\ discFallback' = "done"
    /\ UNCHANGED <<discInterval, discNet, discHost>>

DiscShutdown ==
    /\ discStop' = TRUE
    /\ UNCHANGED <<discNet, discSchedule, discMdns, discPeers, discAsked>>

DiscNext ==
    \/ DiscChange \/ DiscTake \/ DiscFire
    \/ DiscBroadcast \/ DiscReannounce \/ DiscReactorStops
    \/ DiscMdnsDies \/ DiscResolved \/ DiscWindowEnds \/ DiscLink
    \/ DiscCheck \/ DiscSlept \/ DiscPolled \/ DiscFallbackStops
    \/ DiscShutdown

\* Channels deliver, timers elapse, tasks run.
DiscFairness ==
    /\ WF_discVars(DiscTake) /\ WF_discVars(DiscFire)
    /\ WF_discVars(DiscBroadcast) /\ WF_discVars(DiscReannounce)
    /\ WF_discVars(DiscCheck) /\ WF_discVars(DiscSlept) /\ WF_discVars(DiscPolled)

DiscSpec == DiscInit /\ [][DiscNext]_discVars /\ DiscFairness

DiscTypeOK ==
    /\ {discRaw, discLeft, discEvents} \subseteq 0..DiscChanges
    /\ {discBurst, discStale, discMdns, discPeers, discAsked, discStop} \subseteq BOOLEAN
    /\ discReactor \in {"wait", "mdns", "done"}
    /\ discFallback \in {"check", "poll", "sleep", "done"}
    /\ discInterval \in 0..DiscDoublings

\* Every change of the network is followed by a broadcast that begins after
\* it, however the events of the change fall into the windows of debounce and
\* whatever the reactor is doing, unless the daemon is told to stop.
ChangeIsAnnounced == discStale ~> (~discStale \/ discStop)

\* A host whose mDNS is dead and that has no link keeps broadcasting: the
\* fallback neither waits for mDNS nor stops at its longest interval.
FallbackKeepsCalling ==
    <>[](~discMdns /\ ~discPeers /\ ~discStop)
        => []<>(discFallback = "check") /\ []<>(discFallback = "sleep")
=============================================================================
