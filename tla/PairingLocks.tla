---------------------------- MODULE PairingLocks ----------------------------
(***************************************************************************)
(* The order in which PairingHandler takes its four RwLocks.  Every call   *)
(* is the list of its acquisitions and releases, in program order; the     *)
(* data is left out.  tokio's RwLock is fair: requests queue first in,     *)
(* first out, so a reader waits behind a writer that is itself waiting.    *)
(***************************************************************************)
EXTENDS Naturals, Sequences

CONSTANTS
    Tasks,
    Calls         \* the calls in use: subset of DOMAIN Program

Locks == {"outgoing", "incoming", "certs", "paired"}

Read(l) == [do |-> "read", lock |-> l]
Write(l) == [do |-> "write", lock |-> l]
Free(l) == [do |-> "free", lock |-> l]

ReadBriefly(l) == <<Read(l), Free(l)>>
WriteBriefly(l) == <<Write(l), Free(l)>>

\* Mutant of CleanupExpired: the first guard is not dropped.
CleanupHoldingBoth(reaped) ==
    <<Write("outgoing"), Write("incoming")>> \o ReadBriefly("outgoing")
        \o (IF reaped THEN WriteBriefly("certs") ELSE <<>>)
        \o <<Free("incoming"), Free("outgoing")>>

\* cleanup_expired: incoming stays write-locked while outgoing is counted again
\* and, when something was reaped, the staged certificates are dropped.
CleanupExpired(reaped) ==
    WriteBriefly("outgoing")
        \o <<Write("incoming")>> \o ReadBriefly("outgoing")
        \o (IF reaped THEN WriteBriefly("certs") ELSE <<>>) \o <<Free("incoming")>>

\* outgoing.read().await.len() + incoming.read().await.len(): the first guard is
\* a temporary of the statement and lives to its end.
CountPending ==
    <<Read("outgoing"), Read("incoming"), Free("incoming"), Free("outgoing")>>

\* remove_pending_request on an expired outgoing request, which ends the accept.
RemoveExpired == WriteBriefly("outgoing") \o WriteBriefly("certs")

\* accept_pairing of an incoming request, its save_to_disk included.
AcceptPairing ==
    WriteBriefly("outgoing") \o WriteBriefly("incoming") \o WriteBriefly("certs")
        \o WriteBriefly("paired") \o ReadBriefly("paired")

RejectPairing ==
    WriteBriefly("certs") \o WriteBriefly("outgoing") \o WriteBriefly("incoming")

Unpair == WriteBriefly("certs") \o WriteBriefly("paired") \o ReadBriefly("paired")

PairState ==
    ReadBriefly("paired") \o ReadBriefly("outgoing") \o ReadBriefly("incoming")

InitiatePairing(reaped) ==
    CleanupExpired(reaped) \o ReadBriefly("paired") \o CountPending
        \o WriteBriefly("outgoing")

\* receive_pair_request_with_cert of a new request ...
ReceiveRequest ==
    ReadBriefly("paired") \o CleanupExpired(TRUE) \o ReadBriefly("outgoing")
        \o ReadBriefly("incoming") \o CountPending \o WriteBriefly("incoming")
        \o WriteBriefly("certs")

\* ... and of one that answers ours.
ReceiveMutual ==
    ReadBriefly("paired") \o CleanupExpired(FALSE) \o ReadBriefly("outgoing")
        \o WriteBriefly("certs") \o AcceptPairing

Program ==
    [initiate |-> InitiatePairing(FALSE), initiateReap |-> InitiatePairing(TRUE),
     receive |-> ReceiveRequest, mutual |-> ReceiveMutual,
     expired |-> RemoveExpired, accept |-> AcceptPairing, reject |-> RejectPairing,
     unpair |-> Unpair, state |-> PairState]

VARIABLES
    call,      \* the call a task runs, "none" between calls
    at,        \* its next instruction
    queue,     \* requests waiting for each lock, in order
    held       \* guards held on each lock

lockVars == <<call, at, queue, held>>

LockInit ==
    /\ call = [t \in Tasks |-> "none"]
    /\ at = [t \in Tasks |-> 1]
    /\ queue = [l \in Locks |-> <<>>]
    /\ held = [l \in Locks |-> {}]

Request(t, mode) == [task |-> t, mode |-> mode]
Waiting(t) == \E l \in Locks : \E i \in 1..Len(queue[l]) : queue[l][i].task = t
Running(t) == call[t] # "none"
Instr(t) == Program[call[t]][at[t]]

Begin(t) ==
    /\ ~Running(t)
    /\ \E c \in Calls : call' = [call EXCEPT ![t] = c]
    /\ UNCHANGED <<at, queue, held>>

\* Past the last instruction the call returns.
Advance(t) ==
    IF at[t] = Len(Program[call[t]])
    THEN at' = [at EXCEPT ![t] = 1] /\ call' = [call EXCEPT ![t] = "none"]
    ELSE at' = [at EXCEPT ![t] = @ + 1] /\ UNCHANGED call

\* The await on a lock: join its queue.
Enqueue(t) ==
    /\ Running(t) /\ ~Waiting(t)
    /\ Instr(t).do # "free"
    /\ queue' = [queue EXCEPT ![Instr(t).lock] = Append(@, Request(t, Instr(t).do))]
    /\ UNCHANGED <<call, at, held>>

Conflict(r, h) == r.mode = "write" \/ h.mode = "write"

\* The head of the queue gets the lock when no guard conflicts.
Grant(l) ==
    /\ queue[l] # <<>>
    /\ LET r == Head(queue[l]) IN
       /\ \A h \in held[l] : ~Conflict(r, h)
       /\ queue' = [queue EXCEPT ![l] = Tail(@)]
       /\ held' = [held EXCEPT ![l] = @ \cup {r}]
       /\ Advance(r.task)

Release(t) ==
    /\ Running(t)
    /\ Instr(t).do = "free"
    /\ held' = [held EXCEPT ![Instr(t).lock] = {h \in @ : h.task # t}]
    /\ Advance(t)
    /\ UNCHANGED queue

LockNext ==
    \/ \E t \in Tasks : Begin(t) \/ Enqueue(t) \/ Release(t)
    \/ \E l \in Locks : Grant(l)

\* Ready tasks are polled, and tokio hands a free lock to the next waiter.
LockSpec ==
    /\ LockInit /\ [][LockNext]_lockVars
    /\ \A t \in Tasks : WF_lockVars(Enqueue(t)) /\ WF_lockVars(Release(t))
    /\ \A l \in Locks : WF_lockVars(Grant(l))

\* t cannot get its lock before u has moved: u holds a conflicting guard or is
\* ahead in the queue.
WaitsFor(t, u) ==
    \E l \in Locks : \E i \in 1..Len(queue[l]) :
        /\ queue[l][i].task = t
        /\ \/ \E h \in held[l] : h.task = u /\ Conflict(queue[l][i], h)
           \/ \E j \in 1..(i - 1) : queue[l][j].task = u

\* No set of calls waits for itself: the lock order of PairingHandler has no
\* deadlock.
NoDeadlock ==
    ~ \E S \in SUBSET Tasks :
        S # {} /\ \A t \in S : \E u \in S : WaitsFor(t, u)

\* Every call on PairingHandler returns.
CallsReturn == \A t \in Tasks : Running(t) ~> ~Running(t)
=============================================================================
