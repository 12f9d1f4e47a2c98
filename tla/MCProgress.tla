----------------------------- MODULE MCProgress -----------------------------
(***************************************************************************)
(* The components whose properties need fairness.  They share no variable; *)
(* focus picks, once and for all, the one that runs, so that the instance  *)
(* is their sum and not their product; the others stay in one initial      *)
(* state.                                                                  *)
(***************************************************************************)
EXTENDS LineReader, PairingLocks, Dialling, Discovery, Daemon

VARIABLE focus

Foci == {"reader", "locks", "dialling", "discovery", "daemon"}

mcVars == <<focus, vars, lockVars, dialVars, discVars, svcVars>>

MCInit ==
    /\ focus \in Foci
    /\ Init /\ LockInit
    /\ DialInit /\ (focus # "dialling" => dialPaired)
    /\ DiscInit /\ (focus # "discovery" => discMdns)
    /\ SvcInit /\ (focus # "daemon" => svcMounts)

MCNext ==
    /\ UNCHANGED focus
    /\ \/ /\ focus = "reader" /\ Next
          /\ UNCHANGED <<lockVars, dialVars, discVars, svcVars>>
       \/ /\ focus = "locks" /\ LockNext
          /\ UNCHANGED <<vars, dialVars, discVars, svcVars>>
       \/ /\ focus = "dialling" /\ DialNext
          /\ UNCHANGED <<vars, lockVars, discVars, svcVars>>
       \/ /\ focus = "discovery" /\ DiscNext
          /\ UNCHANGED <<vars, lockVars, dialVars, svcVars>>
       \/ /\ focus = "daemon" /\ SvcNext
          /\ UNCHANGED <<vars, lockVars, dialVars, discVars>>

(* The fairness of each specification, for the component that runs. *)
MCFairness ==
    /\ WF_vars(focus = "reader" /\ Chunk) /\ WF_vars(focus = "reader" /\ EndOfStream)
    /\ \A t \in Tasks : /\ WF_lockVars(focus = "locks" /\ Enqueue(t))
                        /\ WF_lockVars(focus = "locks" /\ Release(t))
    /\ \A l \in Locks : WF_lockVars(focus = "locks" /\ Grant(l))
    /\ WF_dialVars(focus = "dialling" /\ DialClose)
    /\ \A t \in DialAll : WF_dialVars(focus = "dialling" /\ DialTask(t))
    /\ WF_discVars(focus = "discovery" /\ DiscTake)
    /\ WF_discVars(focus = "discovery" /\ DiscFire)
    /\ WF_discVars(focus = "discovery" /\ DiscBroadcast)
    /\ WF_discVars(focus = "discovery" /\ DiscReannounce)
    /\ WF_discVars(focus = "discovery" /\ DiscCheck)
    /\ WF_discVars(focus = "discovery" /\ DiscSlept)
    /\ WF_discVars(focus = "discovery" /\ DiscPolled)
    /\ WF_svcVars(focus = "daemon" /\ SvcMain)
    /\ \A t \in SvcTasks : WF_svcVars(focus = "daemon" /\ SvcTaskEnds(t))

MCSpec == MCInit /\ [][MCNext]_mcVars /\ MCFairness

(* The variables of dialling, discovery and the daemon have their types. *)
MCTypeOK == DialTypeOK /\ DiscTypeOK /\ SvcTypeOK

(* Neighbours hear of this host: a change of addresses is announced, and with    *)
(* mDNS dead and no link the fallback goes on broadcasting.                      *)
NeighboursHear == ChangeIsAnnounced /\ FallbackKeepsCalling
=============================================================================
