------------------------------ MODULE MCPlugins ------------------------------
(***************************************************************************)
(* The plugins, and the parts of shareinputdevices, for TLC.               *)
(* They share no variable; plugin picks, once and for all, the one that    *)
(* runs, so that the instance is their sum and not their product; the      *)
(* others stay in one initial state.                                       *)
(***************************************************************************)
EXTENDS PortalSession, InputCapture, InputGate, Barrier, Mpris, SystemVolume,
        Clipboard, PauseMusic, Sftp, Share, Notification, Contacts, PhoneData,
        RunCommand, Alarm, Pointer, Tablet

\* One screen, two screens side by side at different heights, and a screen left
\* of the origin that overlaps another.
MCBarLayouts ==
    LET Z(x, y, w, h) == [x |-> x, y |-> y, width |-> w, height |-> h]
    IN  {<<Z(0, 0, 4, 3)>>, <<Z(0, 0, 4, 3), Z(4, 1, 2, 4)>>, <<Z(2, 0, 1, 1), Z(-1, 0, 5, 2)>>}
\* plasma-browser-integration stands for the browser's own player.
MCShadows == [s \in MprServices |-> IF s = "plasma" THEN {"firefox"} ELSE {}]
\* The configured commands: none, or a table with an unusable row of either kind
\* and two rows with one key.
MCRows ==
    LET Row(k, c) == [key |-> k, command |-> c]
    IN  {<<>>, <<Row("", "x"), Row("k", ""), Row("k", "x"), Row("k", "y")>>}
MCRequests ==
    {[PtDefault EXCEPT !.special = c, !.mods = m] :
        c \in 0..33, m \in {{}, {"LEFTMETA", "LEFTCTRL"}}} \cup
    {[PtDefault EXCEPT !.key = k] : k \in PtNamedKeys \cup {"A", "7"}} \cup
    {[PtDefault EXCEPT !.flags = {f, "singlehold"}] : f \in PtFlags} \cup
    {[PtMoveAbsolute(40, 99) EXCEPT !.moves = TRUE, !.dx = d] : d \in {0, 9, 10}}
MCDeltas == {-15, -7, 0, 3, 7}

CONSTANT Plugins    \* the components to run

VARIABLE plugin

PluginsInit ==
    /\ plugin \in Plugins
    /\ PoInit /\ (plugin # "portal" => poProbed)
    /\ CapInit /\ (plugin # "capture" => capPeers = {})
    /\ IgInit
    /\ BarInit /\ (plugin # "barrier" => barEdge = "left" /\ barDesk = CHOOSE z \in [id : {0}, zones : BarLayouts] : TRUE)
    /\ MprInit /\ (plugin # "mpris" => mprBus = IF plugin = "phone" THEN {"firefox"} ELSE {})
    /\ SvlInit /\ (plugin # "volume" => \A s \in SvlSinks : svlReal.vol[s] = IF plugin = "sinks" /\ s = "a" THEN 1 ELSE 0)
    /\ ClpInit /\ (plugin # "clipboard" => clpMode = "watch")
    /\ PmInit /\ (plugin # "pausemusic" => pmPlaying = {})
    /\ SfInit /\ (plugin # "sftp" => sfReal = 0)
    /\ ShInit
    /\ NtInit
    /\ CnInit /\ (plugin # "contacts" => cnPhone = CHOOSE b \in CnBooks : TRUE)
    /\ PdInit
    /\ RcInit /\ (plugin # "runcommand" => rcGlobal = RcRegister(<<>>))
    /\ AlInit /\ (plugin # "alarm" => alDefault = "a" /\ alMuted = {})
    /\ SnInit /\ (plugin # "sendnotifications" => snUp = {} /\ snPaired = {})
    /\ PtInit /\ (plugin # "pointer" => ptDevice)
    /\ TbInit

PluginsNext ==
    /\ UNCHANGED plugin
    /\ \/ /\ plugin = "portal" /\ PoNext
          /\ UNCHANGED <<capVars, igVars, barVars, mprVars, svlVars, clpVars,
                         pmVars, sfVars, shVars, ntVars, cnVars, pdVars, rcVars,
                         alVars, snVars, ptVars, tbVars>>
       \/ /\ plugin = "capture" /\ CapNext
          /\ UNCHANGED <<poVars, igVars, barVars, mprVars, svlVars, clpVars, pmVars,
                         sfVars, shVars, ntVars, cnVars, pdVars, rcVars, alVars,
                         snVars, ptVars, tbVars>>
       \/ /\ plugin = "gate" /\ IgNext
          /\ UNCHANGED <<poVars, capVars, barVars, mprVars, svlVars, clpVars,
                         pmVars, sfVars, shVars, ntVars, cnVars, pdVars, rcVars,
                         alVars, snVars, ptVars, tbVars>>
       \/ /\ plugin = "barrier" /\ BarNext
          /\ UNCHANGED <<poVars, capVars, igVars, mprVars, svlVars, clpVars, pmVars,
                         sfVars, shVars, ntVars, cnVars, pdVars, rcVars, alVars,
                         snVars, ptVars, tbVars>>
       \/ /\ plugin = "mpris" /\ (MprHostNext \/ MprWatchNext)
          /\ UNCHANGED <<poVars, capVars, igVars, barVars, svlVars, clpVars, pmVars,
                         sfVars, shVars, ntVars, cnVars, pdVars, rcVars, alVars,
                         snVars, ptVars, tbVars>>
       \/ /\ plugin = "phone" /\ (MprHostNext \/ MprPhoneNext)
          /\ UNCHANGED <<poVars, capVars, igVars, barVars, svlVars, clpVars, pmVars,
                         sfVars, shVars, ntVars, cnVars, pdVars, rcVars, alVars,
                         snVars, ptVars, tbVars>>
       \/ /\ plugin = "remote" /\ MprRemoteNext
          /\ UNCHANGED <<poVars, capVars, igVars, barVars, svlVars, clpVars, pmVars,
                         sfVars, shVars, ntVars, cnVars, pdVars, rcVars, alVars,
                         snVars, ptVars, tbVars>>
       \/ /\ plugin = "volume" /\ (SvlHostNext \/ SvlFaultNext)
          /\ UNCHANGED <<poVars, capVars, igVars, barVars, mprVars, clpVars, pmVars,
                         sfVars, shVars, ntVars, cnVars, pdVars, rcVars, alVars,
                         snVars, ptVars, tbVars>>
       \/ /\ plugin = "sinks" /\ (SvlHostNext \/ SvlRequestNext)
          /\ UNCHANGED <<poVars, capVars, igVars, barVars, mprVars, clpVars, pmVars,
                         sfVars, shVars, ntVars, cnVars, pdVars, rcVars, alVars,
                         snVars, ptVars, tbVars>>
       \/ /\ plugin = "clipboard" /\ ClpNext
          /\ UNCHANGED <<poVars, capVars, igVars, barVars, mprVars, svlVars, pmVars,
                         sfVars, shVars, ntVars, cnVars, pdVars, rcVars, alVars,
                         snVars, ptVars, tbVars>>
       \/ /\ plugin = "pausemusic" /\ PmNext
          /\ UNCHANGED <<poVars, capVars, igVars, barVars, mprVars, svlVars,
                         clpVars, sfVars, shVars, ntVars, cnVars, pdVars, rcVars,
                         alVars, snVars, ptVars, tbVars>>
       \/ /\ plugin = "sftp" /\ SfNext
          /\ UNCHANGED <<poVars, capVars, igVars, barVars, mprVars, svlVars,
                         clpVars, pmVars, shVars, ntVars, cnVars, pdVars, rcVars,
                         alVars, snVars, ptVars, tbVars>>
       \/ /\ plugin = "share" /\ ShNext
          /\ UNCHANGED <<poVars, capVars, igVars, barVars, mprVars, svlVars,
                         clpVars, pmVars, sfVars, ntVars, cnVars, pdVars, rcVars,
                         alVars, snVars, ptVars, tbVars>>
       \/ /\ plugin = "notification" /\ NtNext
          /\ UNCHANGED <<poVars, capVars, igVars, barVars, mprVars, svlVars,
                         clpVars, pmVars, sfVars, shVars, cnVars, pdVars, rcVars,
                         alVars, snVars, ptVars, tbVars>>
       \/ /\ plugin = "contacts" /\ CnNext
          /\ UNCHANGED <<poVars, capVars, igVars, barVars, mprVars, svlVars,
                         clpVars, pmVars, sfVars, shVars, ntVars, pdVars, rcVars,
                         alVars, snVars, ptVars, tbVars>>
       \/ /\ plugin = "phonedata" /\ PdNext
          /\ UNCHANGED <<poVars, capVars, igVars, barVars, mprVars, svlVars,
                         clpVars, pmVars, sfVars, shVars, ntVars, cnVars, rcVars,
                         alVars, snVars, ptVars, tbVars>>
       \/ /\ plugin = "runcommand" /\ RcNext
          /\ UNCHANGED <<poVars, capVars, igVars, barVars, mprVars, svlVars,
                         clpVars, pmVars, sfVars, shVars, ntVars, cnVars, pdVars,
                         alVars, snVars, ptVars, tbVars>>
       \/ /\ plugin = "alarm" /\ AlNext
          /\ UNCHANGED <<poVars, capVars, igVars, barVars, mprVars, svlVars,
                         clpVars, pmVars, sfVars, shVars, ntVars, cnVars, pdVars,
                         rcVars, snVars, ptVars, tbVars>>
       \/ /\ plugin = "sendnotifications" /\ SnNext
          /\ UNCHANGED <<poVars, capVars, igVars, barVars, mprVars, svlVars,
                         clpVars, pmVars, sfVars, shVars, ntVars, cnVars, pdVars,
                         rcVars, alVars, ptVars, tbVars>>
       \/ /\ plugin = "pointer" /\ PtNext
          /\ UNCHANGED <<poVars, capVars, igVars, barVars, mprVars, svlVars,
                         clpVars, pmVars, sfVars, shVars, ntVars, cnVars, pdVars,
                         rcVars, alVars, snVars, tbVars>>
       \/ /\ plugin = "tablet" /\ TbNext
          /\ UNCHANGED <<poVars, capVars, igVars, barVars, mprVars, svlVars,
                         clpVars, pmVars, sfVars, shVars, ntVars, cnVars, pdVars,
                         rcVars, alVars, snVars, ptVars>>

\* The variables of the component that runs have their types.
PluginsTypeOK ==
    /\ plugin = "portal" => PoTypeOK
    /\ plugin = "capture" => CapTypeOK
    /\ plugin = "gate" => IgTypeOK
    /\ plugin = "barrier" => BarTypeOK
    /\ plugin \in {"mpris", "phone", "remote"} => MprTypeOK
    /\ plugin \in {"volume", "sinks"} => SvlTypeOK
    /\ plugin = "clipboard" => ClpTypeOK
    /\ plugin = "pausemusic" => PmTypeOK
    /\ plugin = "sftp" => SfTypeOK
    /\ plugin = "share" => ShTypeOK
    /\ plugin = "notification" => NtTypeOK
    /\ plugin = "contacts" => CnTypeOK
    /\ plugin = "phonedata" => PdTypeOK
    /\ plugin = "runcommand" => RcTypeOK
    /\ plugin = "alarm" => AlTypeOK
    /\ plugin = "sendnotifications" => SnTypeOK
    /\ plugin = "pointer" => PtTypeOK
    /\ plugin = "tablet" => TbTypeOK

\* shareinputdevices captures input only for somebody: a portal session whose
\* handle is known has an owner or a task about to close it, a session stays armed
\* only while an eligible peer is there, and the barrier ends up
\* on the outer edge of the desktop as it is.
CaptureTied ==
    NothingUnheard /\ KnownSessionHasOwner /\ ArmedHasPeer /\ OneSession /\ BarrierFollowsDesktop

\* What a phone asks of the pointer is done in full: keys that went down come up
\* again, and the pixels sent keep pace with the tenths asked for.
InputCarriedOut == KeysComeUp /\ PointerKeepsPace

\* When all watchers, channels and sends have come to rest, a phone shows the
\* desktop's players, sinks and clipboard as they are.
DesktopMirrored == PhonesSeePlayers /\ PhoneSeesSinks /\ ClipboardConverges

\* What the desktop keeps of a phone is what the phone has sent: files are whole,
\* contacts are current, the newest conversation is never the one given up.
PhoneMirrored == DownloadsWhole /\ ContactsConverge /\ NewestThreadKept

\* What the daemon changed on the desktop it puts back: players it paused for a
\* call play again, the sink an alarm unmuted is muted again.
DesktopRestored == CallEndResumes /\ AlarmRestoresMute
=============================================================================
