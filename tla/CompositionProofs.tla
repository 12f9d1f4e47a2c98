------------------------- MODULE CompositionProofs -------------------------
(***************************************************************************)
(* What the daemon promises, of its parts together.  The parts share no    *)
(* variable, so that a behaviour of the daemon is one of each of them,     *)
(* whatever their steps are interleaved with; what holds of each then      *)
(* holds of all.  The promises are those that the runs of MCServices and   *)
(* of MCPlugins check.                                                     *)
(***************************************************************************)
EXTENDS MCServices, MCPlugins, LinksProofs, StoreProofs, ServiceProofs, CaptureProofs,
        PluginProofs, TLAPS

\* The device list is true: a deleted device does not come back with the file that
\* registry.rs writes, and a page that the API cuts of the list is the slice it names.
THEOREM RegistryIsTrue == RegSpec /\ ApiSpec => []RegistryTrue
  BY DeletionsLast, PagesCutRight, PTL DEF RegistryTrue

\* Wherever the daemon is stopped between two writes of crypto.rs, it keeps the
\* identity it first ran under, and a stored certificate is the one of its pin.
THEOREM CertificatesAreKept == CsSpec => []CertificatesKept
  BY IdentityStays, PinsFit, PTL DEF CertificatesKept

\* A link speaks for its id, daemons of one host never meet, and identities to one
\* address are spaced, in every interleaving of handshakes and datagrams.
THEOREM PeersAreWhoTheySay == HsSpec /\ MtSpec => []PeersAreKnown
  BY LinksSpeakForIds, HostsStayApart, UnicastsSpaced, PTL DEF PeersAreKnown

\* With one task that registers plugins, as the daemon has, packets reach exactly the
\* plugins that declared them, and a plugin gives up what it had of a device that left.
THEOREM PluginsAreServed ==
    ASSUME RtSequential
    PROVE  RtSpec /\ NtcSpec /\ InhSpec => []PluginsFollow
  BY IndexExact, FanOutEnds, StateGoes, NoCookieLost, PTL DEF PluginsFollow

\* Input is captured only for somebody: the portal's session is heard and owned, an
\* armed one has a peer, there is one at a time, and the barrier is where the desktop
\* ends.
THEOREM CaptureIsTied == PoSpec /\ CapSpec /\ BarSpec => []CaptureTied
  BY Zenon, SignalsAreHeard, SessionsAreClosed, ArmedForSomebody, SessionsAreOne,
     BarrierOnBorder, PTL DEF CaptureTied

\* Players paused for a call play again after it, and the sink that an alarm unmuted
\* is muted again.
THEOREM DesktopIsRestored == PmSpec /\ AlSpec => []DesktopRestored
  BY CallsEndResumed, MuteRestored, PTL DEF DesktopRestored
=============================================================================
