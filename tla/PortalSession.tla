--------------------------- MODULE PortalSession ---------------------------
(***************************************************************************)
(* Opening and closing an InputCapture session of the desktop portal.      *)
(*                                                                         *)
(* start calls the portal five times.  Three of the calls return the path  *)
(* of a request and are answered by a signal on that path, which the       *)
(* portal may send before the call has returned, late, or never; start     *)
(* waits five seconds.  A signal reaches the client only if a match rule   *)
(* was registered when it was sent.  What happens in a session once it is  *)
(* enabled is the subject of InputCapture, InputGate and Barrier.          *)
(***************************************************************************)
EXTENDS Integers, Sequences

CONSTANT PoStarts   \* bound: sessions started

ASSUME PoAssumption == PoStarts \in Nat

Calls == <<"CreateSession", "ConnectToEIS", "GetZones", "SetPointerBarriers", "Enable">>
Answered == {"CreateSession", "GetZones", "SetPointerBarriers"}

VARIABLES
    poProbed,     \* the portal has the interface and the capabilities
    poTry,        \* number of the start under way or last made
    poStep,       \* its call under way, 0 when none is
    poPhase,      \* "idle", "subscribe", "call", "reply", "await", "watch", "up", "closing"
    poAsked,      \* requests the portal has not answered yet
    poInbox,      \* Response signals delivered and not read
    poRules,      \* match rules registered: "response", "session"
    poOwner,      \* who holds the session of this start: "none", "guard", "session"
    poClosers,    \* sessions a spawned task is about to close
    poLearnt,     \* sessions whose handle the client has seen and not yet closed
    poSessions,   \* sessions that exist at the portal
    poUnheard     \* signals sent to a client still waiting, with no rule

poVars == <<poProbed, poTry, poStep, poPhase, poAsked, poInbox, poRules, poOwner,
            poClosers, poLearnt, poSessions, poUnheard>>

Call == Calls[poStep]

----------------------------------------------------------------------------
(* version >= 1, and keyboard and pointer among the capabilities.  The     *)
(* value 4 stands for any capability that is neither.                      *)

read_property_u32(choices) == choices \cup {-1}

probe_portal_available ==
    \E version \in read_property_u32({0, 1}), caps \in read_property_u32(0..7) :
        poProbed = (version >= 1 /\ caps >= 0 /\ caps % 4 = 3)

----------------------------------------------------------------------------
(* A start ends here on any error: the guard, once it is armed, leaves the *)
(* closing to a task of its own.                                           *)

PoOnError == IF poOwner = "guard" THEN poClosers \cup {poTry} ELSE poClosers

PoFail == /\ poPhase' = "idle" /\ poStep' = 0
          /\ poOwner' = "none" /\ poClosers' = PoOnError
          /\ poRules' = {} /\ poInbox' = {}

(* The Response stream is opened before the first call. *)
PoSubscribe ==
    /\ poPhase = "idle" /\ poProbed /\ poTry < PoStarts
    /\ poTry' = poTry + 1 /\ poStep' = 1 /\ poPhase' = "call"
    /\ poRules' = {"response"}
    /\ UNCHANGED <<poProbed, poAsked, poInbox, poOwner, poClosers, poLearnt, poSessions, poUnheard>>

unique_token == <<poTry, Call>>

(* The call goes out; for Enable the session signals may start. *)
call_input_capture ==
    /\ poPhase = "call"
    /\ poPhase' = "reply"
    /\ poAsked' = IF Call \in Answered THEN poAsked \cup {unique_token} ELSE poAsked
    /\ UNCHANGED <<poProbed, poTry, poStep, poInbox, poRules, poOwner, poClosers, poLearnt, poSessions, poUnheard>>

PoAdvance == IF poStep < Len(Calls)
             THEN /\ poStep' = poStep + 1
                  /\ poPhase' = IF Calls[poStep + 1] = "Enable" THEN "watch" ELSE "call"
                  /\ UNCHANGED poOwner
             ELSE /\ poStep' = 0 /\ poPhase' = "up"     \* the guard is defused
                  /\ poOwner' = "session"

PoReply ==
    /\ poPhase = "reply"
    /\ \/ /\ Call \in Answered
          /\ poPhase' = "await"
          /\ UNCHANGED <<poStep, poOwner, poClosers, poInbox, poRules>>
       \/ /\ Call \notin Answered
          /\ PoAdvance
          /\ poRules' = IF Call = "Enable" THEN poRules \ {"response"} ELSE poRules
          /\ UNCHANGED <<poInbox, poClosers>>
       \/ PoFail
    /\ UNCHANGED <<poProbed, poTry, poAsked, poLearnt, poSessions, poUnheard>>

(* The answer to the request of this call; others in the stream are        *)
(* skipped.                                                                *)
await_request_response(code) == [token |-> unique_token, code |-> code] \in poInbox

(* Code 0 is success, 1 the user's refusal, 2 anything else. *)
require_success(code) == code = 0

PoAwait ==
    /\ poPhase = "await"
    /\ \E code \in 0..2 :
          /\ await_request_response(code)
          /\ IF require_success(code)
             THEN /\ poInbox' = {}
                  /\ IF Call = "CreateSession"
                     THEN /\ poLearnt' = poLearnt \cup {poTry} /\ poOwner' = "guard"
                          /\ poStep' = poStep + 1 /\ poPhase' = "call"
                     ELSE PoAdvance /\ UNCHANGED poLearnt
                  /\ UNCHANGED <<poRules, poClosers>>
             ELSE PoFail /\ UNCHANGED poLearnt
    /\ UNCHANGED <<poProbed, poTry, poAsked, poSessions, poUnheard>>

(* An answer without a usable session handle, zones that cannot be decoded, *)
(* none at all, a barrier refused.                                         *)
decode_zones ==
    /\ poPhase = "await" /\ Call \in {"CreateSession", "GetZones", "SetPointerBarriers"}
    /\ await_request_response(0)
    /\ PoFail
    /\ UNCHANGED <<poProbed, poTry, poAsked, poLearnt, poSessions, poUnheard>>

PoTimeout ==
    /\ poPhase = "await"
    /\ \A code \in 0..2 : ~await_request_response(code)
    /\ PoFail
    /\ UNCHANGED <<poProbed, poTry, poAsked, poLearnt, poSessions, poUnheard>>

(* The session signals are subscribed to before Enable. *)
session_signal_stream ==
    /\ poPhase = "watch"
    /\ \/ /\ poRules' = poRules \cup {"session"} /\ poPhase' = "call"
          /\ UNCHANGED <<poStep, poOwner, poClosers, poInbox>>
       \/ PoFail
    /\ UNCHANGED <<poProbed, poTry, poAsked, poLearnt, poSessions, poUnheard>>

----------------------------------------------------------------------------
(* close: Disable and Close of a session that is up.  Drop leaves it to    *)
(* the same task as the guard.  Either asks once: a session the portal     *)
(* failed to close stays.                                                  *)

PoAskClose(s) == /\ poLearnt' = poLearnt \ {s}
                 /\ poSessions' \in {poSessions, poSessions \ {s}}

PoCloseSession ==
    /\ poPhase = "up"
    /\ poPhase' = "closing"
    /\ UNCHANGED <<poProbed, poTry, poStep, poAsked, poInbox, poRules, poOwner,
                   poClosers, poLearnt, poSessions, poUnheard>>

PoClosed ==
    /\ poPhase = "closing"
    /\ poPhase' = "idle" /\ poOwner' = "none" /\ poRules' = {}
    /\ PoAskClose(poTry)
    /\ UNCHANGED <<poProbed, poTry, poStep, poAsked, poInbox, poClosers, poUnheard>>

PoDrop ==
    /\ poPhase = "up"
    /\ poPhase' = "idle" /\ poOwner' = "none" /\ poRules' = {}
    /\ poClosers' = poClosers \cup {poTry}
    /\ UNCHANGED <<poProbed, poTry, poStep, poAsked, poInbox, poLearnt, poSessions, poUnheard>>

close_session_best_effort ==
    \E s \in poClosers :
        /\ poClosers' = poClosers \ {s}
        /\ PoAskClose(s)
        /\ UNCHANGED <<poProbed, poTry, poStep, poPhase, poAsked, poInbox, poRules, poOwner, poUnheard>>

----------------------------------------------------------------------------
(* The portal answers a request, in time or after the client gave up, and  *)
(* sends the signals of an enabled session.                                *)

PoWaits(token) == token[1] = poTry /\ poPhase \in {"reply", "await"} /\ token[2] = Call

PoAnswers ==
    \E token \in poAsked, code \in 0..2 :
        /\ poAsked' = poAsked \ {token}
        /\ poSessions' = IF token[2] = "CreateSession" /\ code = 0
                         THEN poSessions \cup {token[1]} ELSE poSessions
        /\ poInbox' = IF "response" \in poRules
                      THEN poInbox \cup {[token |-> token, code |-> code]} ELSE poInbox
        /\ poUnheard' = IF "response" \notin poRules /\ PoWaits(token)
                        THEN poUnheard \cup {token[2]} ELSE poUnheard
        /\ UNCHANGED <<poProbed, poTry, poStep, poPhase, poRules, poOwner, poClosers, poLearnt>>

PoSignals ==
    /\ \/ poPhase = "up"
       \/ poPhase = "reply" /\ Call = "Enable"
    /\ poUnheard' = IF "session" \in poRules THEN poUnheard ELSE poUnheard \cup {"Activated"}
    /\ UNCHANGED <<poProbed, poTry, poStep, poPhase, poAsked, poInbox, poRules, poOwner,
                   poClosers, poLearnt, poSessions>>

PoInit == /\ probe_portal_available
          /\ poTry = 0 /\ poStep = 0 /\ poPhase = "idle"
          /\ poAsked = {} /\ poInbox = {} /\ poRules = {}
          /\ poOwner = "none" /\ poClosers = {} /\ poLearnt = {} /\ poSessions = {} /\ poUnheard = {}

PoNext == \/ PoSubscribe \/ call_input_capture \/ PoReply \/ PoAwait \/ decode_zones \/ PoTimeout
          \/ session_signal_stream \/ PoCloseSession \/ PoClosed \/ PoDrop
          \/ close_session_best_effort \/ PoAnswers \/ PoSignals

PoSpec == PoInit /\ [][PoNext]_poVars

PoTypeOK == /\ poProbed \in BOOLEAN
            /\ poTry \in 0..PoStarts
            /\ poStep \in 0..Len(Calls)
            /\ poOwner \in {"none", "guard", "session"}
            /\ poClosers \cup poLearnt \cup poSessions \subseteq 1..PoStarts

(* No signal that the client waits for is sent before its match rule is    *)
(* there: not the Response the portal sends while the call is still under  *)
(* way, and not a signal sent the moment the session is enabled.           *)
NothingUnheard == poUnheard = {}

(* A session whose handle the client has learnt is closed in the end:      *)
(* whatever fails afterwards, it belongs to the guard or the session of    *)
(* the start under way, or to a task that will ask the portal to close it. *)
KnownSessionHasOwner ==
    poLearnt \subseteq poClosers \cup (IF poOwner = "none" THEN {} ELSE {poTry})
=============================================================================
