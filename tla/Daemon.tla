------------------------------- MODULE Daemon -------------------------------
(***************************************************************************)
(* bootstrap.rs, daemon.rs and services/service_manager.rs: the life of the*)
(* process.  start_services starts the tasks of SvcTasks in order and gives*)
(* up when the API port is taken; stop_services awaits each of them for at *)
(* most 5 s and saves.  The packet loops are spawned and never awaited.    *)
(* When run has returned, main drops the runtime: the tasks are cancelled, *)
(* the threads of the blocking pool are waited for.                        *)
(***************************************************************************)
EXTENDS Naturals, Sequences

CONSTANT SvcClients     \* API clients that may hold an event stream open

VARIABLES
    svcPc,          \* where Daemon::new and run are
    svcRunning,     \* tasks that have been started and have not ended
    svcAwaiting,    \* handles that stop_services still awaits
    svcStop,        \* the shutdown token
    svcStreams,     \* clients with an open event stream
    svcLoops,       \* some packet loop is running
    svcMounts,      \* sftp has mounts: by a crash before, or of this run
    svcHelper,      \* an sshfs or fusermount is waited for on the blocking pool
    svcSaved        \* what stop_services has saved

svcVars == <<svcPc, svcRunning, svcAwaiting, svcStop, svcStreams, svcLoops, svcMounts, svcHelper, svcSaved>>

\* The handles, in the order of stop_services.
SvcOrder == <<"listen", "mdns", "reactor", "fallback", "tcp", "api">>
SvcTasks == {SvcOrder[i] : i \in DOMAIN SvcOrder}

SvcInit ==
    /\ svcPc = "config"
    /\ svcRunning = {} /\ svcAwaiting = <<>>
    /\ svcStop = FALSE
    /\ svcStreams = {} /\ svcLoops = FALSE
    /\ svcMounts \in BOOLEAN /\ svcHelper = FALSE
    /\ svcSaved = {}

SvcStay == UNCHANGED <<svcRunning, svcAwaiting, svcStop, svcStreams, svcLoops, svcMounts, svcHelper, svcSaved>>

\* load_config and create_state: an invalid configuration ends the process;
\* a registry or pairing file that cannot be read does not.
SvcBootstrap(valid) ==
    /\ svcPc = "config"
    /\ svcPc' = IF valid THEN "load" ELSE "dropping"
    /\ SvcStay

\* unmount_via_mounter of what is mounted: it succeeds, fails, or is given up
\* after mount_timeout and left to its thread.
SvcUnmount ==
    /\ svcMounts' \in {FALSE, svcMounts}
    /\ svcHelper' \in {svcHelper, svcHelper \/ svcMounts'}

\* load_persisted_data, then the sweep of mounts a crash left behind.
SvcLoad ==
    /\ svcPc = "load"
    /\ svcPc' = "identity"
    /\ SvcUnmount
    /\ UNCHANGED <<svcRunning, svcAwaiting, svcStop, svcStreams, svcLoops, svcSaved>>

\* load_identity and the bind of the TCP port.
SvcIdentity(ok) ==
    /\ svcPc = "identity"
    /\ svcPc' = IF ok THEN "discovery" ELSE "dropping"
    /\ SvcStay

\* start_discovery, which fails with its UDP socket and may lack mDNS, and
\* start_tcp_listener.
SvcStart(outcome) ==
    /\ svcPc = "discovery"
    /\ svcPc' = IF outcome = "noSocket" THEN "dropping" ELSE "api"
    /\ svcRunning' = CASE outcome = "noSocket" -> {}
                       [] outcome = "noMdns"   -> SvcTasks \ {"api", "mdns"}
                       [] outcome = "started"  -> SvcTasks \ {"api"}
    /\ UNCHANGED <<svcAwaiting, svcStop, svcStreams, svcLoops, svcMounts, svcHelper, svcSaved>>

\* start_api_server: disabled, started, or its port is taken.  Then run
\* returns the error and the runtime takes all tasks down.
SvcApi(outcome) ==
    /\ svcPc = "api"
    /\ svcPc' = IF outcome = "taken" THEN "dropping" ELSE "ready"
    /\ svcRunning' = CASE outcome = "started"  -> svcRunning \cup {"api"}
                       [] outcome = "disabled" -> svcRunning
                       [] outcome = "taken"    -> {}
    /\ svcLoops' = (svcLoops /\ outcome # "taken")
    /\ UNCHANGED <<svcAwaiting, svcStop, svcStreams, svcMounts, svcHelper, svcSaved>>

\* Links come and go.
SvcLoop ==
    /\ "tcp" \in svcRunning /\ ~svcStop
    /\ svcLoops' = ~svcLoops
    /\ UNCHANGED <<svcPc, svcRunning, svcAwaiting, svcStop, svcStreams, svcMounts, svcHelper, svcSaved>>

\* mount_device for a packet or a request that is being handled, also one that
\* is so when the token is cancelled.
SvcMount ==
    /\ svcLoops
    /\ svcHelper' = TRUE
    /\ UNCHANGED <<svcPc, svcRunning, svcAwaiting, svcStop, svcStreams, svcLoops, svcMounts, svcSaved>>

\* wait_with_output returns; nothing bounds how long it takes.
SvcHelperEnds ==
    /\ svcHelper
    /\ svcHelper' = FALSE
    /\ svcMounts' \in BOOLEAN
    /\ UNCHANGED <<svcPc, svcRunning, svcAwaiting, svcStop, svcStreams, svcLoops, svcSaved>>

SvcLoopStops ==
    /\ svcStop /\ svcLoops
    /\ svcLoops' = FALSE
    /\ UNCHANGED <<svcPc, svcRunning, svcAwaiting, svcStop, svcStreams, svcMounts, svcHelper, svcSaved>>

\* sse_events: the stream ends when its client goes, never by the server.
SvcStream(c) ==
    /\ svcPc # "exited"
    /\ \/ "api" \in svcRunning /\ ~svcStop /\ svcStreams' = svcStreams \cup {c}
       \/ c \in svcStreams /\ svcStreams' = svcStreams \ {c}
    /\ UNCHANGED <<svcPc, svcRunning, svcAwaiting, svcStop, svcLoops, svcMounts, svcHelper, svcSaved>>

\* A signal ends wait_for_shutdown_signal; run cancels the token.
SvcSignal ==
    /\ svcPc = "ready"
    /\ svcPc' = "stopping"
    /\ svcStop' = TRUE
    /\ svcAwaiting' = SvcOrder
    /\ UNCHANGED <<svcRunning, svcStreams, svcLoops, svcMounts, svcHelper, svcSaved>>

\* A task sees the token.  axum's graceful shutdown waits for open responses.
SvcTaskEnds(t) ==
    /\ svcStop /\ t \in svcRunning
    /\ t = "api" => svcStreams = {}
    /\ svcRunning' = svcRunning \ {t}
    /\ UNCHANGED <<svcPc, svcAwaiting, svcStop, svcStreams, svcLoops, svcMounts, svcHelper, svcSaved>>

\* Mutant of SvcAwait: the handle is awaited without a timeout.
SvcAwaitForever ==
    /\ svcPc = "stopping" /\ svcAwaiting # <<>>
    /\ Head(svcAwaiting) \notin svcRunning
    /\ svcAwaiting' = Tail(svcAwaiting)
    /\ UNCHANGED <<svcPc, svcRunning, svcStop, svcStreams, svcLoops, svcMounts, svcHelper, svcSaved>>

\* The next handle has ended, or its 5 s are over.
SvcAwait ==
    /\ svcPc = "stopping" /\ svcAwaiting # <<>>
    /\ svcAwaiting' = Tail(svcAwaiting)
    /\ UNCHANGED <<svcPc, svcRunning, svcStop, svcStreams, svcLoops, svcMounts, svcHelper, svcSaved>>

\* The registry is saved, then the pairings; failures are only logged.
SvcSave(ok) ==
    /\ svcPc = "stopping" /\ svcAwaiting = <<>>
    /\ svcPc' = "saving"
    /\ svcSaved' = IF ok THEN {"registry"} ELSE {}
    /\ UNCHANGED <<svcRunning, svcAwaiting, svcStop, svcStreams, svcLoops, svcMounts, svcHelper>>

SvcSavePairings(ok) ==
    /\ svcPc = "saving"
    /\ svcPc' = "cleanup"
    /\ svcSaved' = svcSaved \cup (IF ok THEN {"pairings"} ELSE {})
    /\ UNCHANGED <<svcRunning, svcAwaiting, svcStop, svcStreams, svcLoops, svcMounts, svcHelper>>

\* cleanup_all; run returns, and the runtime that is dropped cancels all tasks.
SvcCleanup ==
    /\ svcPc = "cleanup"
    /\ svcPc' = "dropping"
    /\ SvcUnmount
    /\ svcRunning' = {} /\ svcStreams' = {} /\ svcLoops' = FALSE
    /\ UNCHANGED <<svcAwaiting, svcStop, svcSaved>>

\* The blocking pool has ended its threads.
SvcExit ==
    /\ svcPc = "dropping"
    /\ ~svcHelper
    /\ svcPc' = "exited"
    /\ SvcStay

SvcMain ==
    \/ \E ok \in BOOLEAN : SvcBootstrap(ok) \/ SvcIdentity(ok)
                              \/ SvcSave(ok) \/ SvcSavePairings(ok)
    \/ SvcLoad \/ SvcAwait \/ SvcCleanup \/ SvcExit
    \/ \E outcome \in {"started", "noMdns", "noSocket"} : SvcStart(outcome)
    \/ \E outcome \in {"started", "disabled", "taken"} : SvcApi(outcome)

SvcNext ==
    \/ SvcMain
    \/ SvcLoop \/ SvcMount \/ SvcHelperEnds \/ SvcLoopStops \/ SvcSignal
    \/ \E c \in SvcClients : SvcStream(c)
    \/ \E t \in SvcTasks : SvcTaskEnds(t)

SvcFairness == WF_svcVars(SvcMain) /\ \A t \in SvcTasks : WF_svcVars(SvcTaskEnds(t))

SvcSpec == SvcInit /\ [][SvcNext]_svcVars /\ SvcFairness

SvcTypeOK ==
    /\ svcPc \in {"config", "load", "identity", "discovery", "api", "ready", "stopping",
                  "saving", "cleanup", "dropping", "exited"}
    /\ svcRunning \subseteq SvcTasks
    /\ \E i \in 1..7 : svcAwaiting = SubSeq(SvcOrder, i, 6)
    /\ {svcStop, svcLoops, svcMounts, svcHelper} \subseteq BOOLEAN
    /\ svcStreams \subseteq SvcClients
    /\ svcSaved \subseteq {"registry", "pairings"}

\* Once told to stop, the daemon exits, even while a client keeps its event
\* stream open and so keeps the API server from ending.  Only a mount helper that
\* never returns can hold the process, and then run has done all it had to do.
StopExitsOrHelper ==
    svcStop ~> (svcPc = "exited" \/ (svcPc = "dropping" /\ svcHelper))
=============================================================================
