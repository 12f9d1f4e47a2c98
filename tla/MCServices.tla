----------------------------- MODULE MCServices -----------------------------
(***************************************************************************)
(* The services of the daemon, for TLC.                                    *)
(* They share no variable; focus picks, once and for all, the one that     *)
(* runs, so that the instance is their sum and not their product; the      *)
(* others stay in one initial state.                                       *)
(***************************************************************************)
EXTENDS DeviceRegistry, EventStream, Routing, CertStore, Handshake, PairingDialogue,
        Meeting, PluginNotices, Api

\* Certificates d1 and d2 are made out to d, e1 to e; "self_" is the form of our
\* id that is normalised to "self".
MCCn(c) == IF c = "e1" THEN "e" ELSE "d"
MCNorm(i) == IF i = "self_" THEN "self" ELSE i
Hi(id, v) ==
    [type |-> "kdeconnect.identity", id |-> id, name |-> "n", version |-> v,
     target |-> HsNone, targetVersion |-> HsNone, incoming |-> "x", outgoing |-> "y"]
MCHellos ==
    {Hi(i, 8) : i \in {"d", "e", "self", "", "bad"}} \cup {Hi("d", 7), Hi("d", 0)} \cup
    {[Hi("d", 8) EXCEPT !.name = "?!"], [Hi("d", 8) EXCEPT !.type = "kdeconnect.ping"],
     [Hi("d", 8) EXCEPT !.target = "self_", !.targetVersion = 8],
     [Hi("d", 8) EXCEPT !.target = "e"], [Hi("d", 8) EXCEPT !.targetVersion = 7],
     [Hi("d", 8) EXCEPT !.incoming = "none"]}

CONSTANT Foci    \* the components to run

VARIABLE focus

mcVars == <<focus, regVars, sseVars, rtVars, csVars, hsVars, dgVars, mtVars,
            ntcVars, inhVars, apiVars>>

MCInit ==
    /\ focus \in Foci
    /\ RegInit /\ (focus # "registry" => regPaired = {})
    /\ SseInit /\ (focus # "stream" => sseState = "d")
    /\ RtInit
    /\ CsInit /\ (focus # "certificates" => csDisk = CsEmpty)
    /\ HsInit
    /\ DgInit
    /\ MtInit /\ mtAddress["a"] = "x" /\ (focus # "meeting" => mtAddress["b"] = "x")
    /\ NtcInit
    /\ InhInit
    /\ ApiInit /\ (focus # "api" => apiUp /\ apiLimited)

MCNext ==
    /\ UNCHANGED focus
    /\ \/ /\ focus = "registry" /\ RegNext
          /\ UNCHANGED <<sseVars, rtVars, csVars, hsVars, dgVars, mtVars, ntcVars,
                         inhVars, apiVars>>
       \/ /\ focus = "stream" /\ SseNext
          /\ UNCHANGED <<regVars, rtVars, csVars, hsVars, dgVars, mtVars, ntcVars,
                         inhVars, apiVars>>
       \/ /\ focus = "routing" /\ RtRegistryNext
          /\ UNCHANGED <<regVars, sseVars, csVars, hsVars, dgVars, mtVars, ntcVars,
                         inhVars, apiVars>>
       \/ /\ focus = "router" /\ RtRouterNext
          /\ UNCHANGED <<regVars, sseVars, csVars, hsVars, dgVars, mtVars, ntcVars,
                         inhVars, apiVars>>
       \/ /\ focus = "certificates" /\ CsNext
          /\ UNCHANGED <<regVars, sseVars, rtVars, hsVars, dgVars, mtVars, ntcVars,
                         inhVars, apiVars>>
       \/ /\ focus = "handshake" /\ HsNext
          /\ UNCHANGED <<regVars, sseVars, rtVars, csVars, dgVars, mtVars, ntcVars,
                         inhVars, apiVars>>
       \/ /\ focus = "dialogue" /\ DgNext
          /\ UNCHANGED <<regVars, sseVars, rtVars, csVars, hsVars, mtVars, ntcVars,
                         inhVars, apiVars>>
       \/ /\ focus = "meeting" /\ MtNext
          /\ UNCHANGED <<regVars, sseVars, rtVars, csVars, hsVars, dgVars, ntcVars,
                         inhVars, apiVars>>
       \/ /\ focus = "notices" /\ NtcNext
          /\ UNCHANGED <<regVars, sseVars, rtVars, csVars, hsVars, dgVars, mtVars,
                         inhVars, apiVars>>
       \/ /\ focus = "inhibit" /\ InhNext
          /\ UNCHANGED <<regVars, sseVars, rtVars, csVars, hsVars, dgVars, mtVars,
                         ntcVars, apiVars>>
       \/ /\ focus = "api" /\ ApiNext
          /\ UNCHANGED <<regVars, sseVars, rtVars, csVars, hsVars, dgVars, mtVars,
                         ntcVars, inhVars>>

\* The variables of the component that runs have their types.
MCTypeOK ==
    /\ focus = "registry" => RegTypeOK
    /\ focus = "stream" => SseTypeOK
    /\ focus \in {"routing", "router"} => RtTypeOK
    /\ focus = "certificates" => CsTypeOK
    /\ focus = "handshake" => HsTypeOK
    /\ focus = "dialogue" => DgTypeOK
    /\ focus = "meeting" => MtTypeOK
    /\ focus = "notices" => NtcTypeOK
    /\ focus = "inhibit" => InhTypeOK
    /\ focus = "api" => ApiTypeOK

\* A deleted device does not come back with the file, and a page of the device
\* list shows exactly the entries that lie on it.
RegistryTrue == DeletedStaysDeleted /\ PageIsSlice

\* Our identity stays the one the daemon first ran under, and a peer's stored
\* certificate is the one of its pin, wherever a start, a pairing or an unpairing
\* was interrupted.
CertificatesKept == IdentityKept /\ PemMatchesPin

\* A link speaks for the id it is registered under, and daemons of one host never
\* take each other for a peer, however often they announce themselves; unicasts and
\* dials to one address are spaced by the window of their limiter.
PeersAreKnown == LinkSpeaksForItsId /\ SameHostNeverMeets /\ UnicastSpaced

\* Packets reach exactly the plugins that declared them, and the plugins give up
\* what a device sent, and the screensaver cookie taken for it, once it is gone.
PluginsFollow == IndexIsExact /\ FanOutComplete /\ StateGoesWithSession /\ CookiesAccounted
=============================================================================
