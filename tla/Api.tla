-------------------------------- MODULE Api --------------------------------
(***************************************************************************)
(* The REST interface: the layers of the router (limiter, key, body) and   *)
(* the handlers behind them.                                               *)
(*                                                                         *)
(* A handler is the sequence of its checks and calls, in the order of the  *)
(* code, with the statuses its OpenAPI entry declares.  Every step reads   *)
(* shared state anew, so a link found up by one step may be down for the   *)
(* next.  Handlers whose calls change pairing, mounts or transfers are     *)
(* actions of the modules of those parts.                                  *)
(***************************************************************************)
EXTENDS Integers, Sequences, FiniteSets

CONSTANTS ApiClients,   \* addresses that call the interface
          ApiLimit,     \* requests per window (100)
          ApiWindow,    \* length of a window (60 s)
          ApiHorizon,   \* the clock stops here
          ApiCapacity,  \* clients the limiter keeps track of (10000)
          ApiWord,      \* 2^64, of usize
          ApiListed     \* largest number of entries in a list

ASSUME ApiAssumption ==
    /\ ApiLimit \in Nat \ {0} /\ ApiWindow \in Nat \ {0} /\ ApiHorizon \in Nat
    /\ ApiCapacity \in Nat \ {0} /\ ApiWord \in Nat \ {0} /\ ApiListed \in 0..(ApiWord - 1)

VARIABLES
    apiLimited,  \* the interface is bound beyond loopback, so the limiter is in place
    apiClock,    \* seconds, up to ApiHorizon
    apiBuckets,  \* limiter: <<>> or <<window start, count>> per client
    apiRefused,  \* when the limiter first refused the client since it last served it, or <<>>
    apiUp,       \* whether the phone the requests name is connected
    apiCall,     \* the request under way: endpoint, position, client; or idle
    apiAnswer,   \* endpoint, code and status of the last answer
    apiPage      \* page, limit, number of entries and entries shown by the last list

apiVars == <<apiLimited, apiClock, apiBuckets, apiRefused, apiUp, apiCall, apiAnswer, apiPage>>

----------------------------------------------------------------------------
(* Errors: the code of an error and the status of a code. *)

ApiCode(error) == CASE error = "DbusError" -> "OtherError"
                    [] error = "io" -> "InternalError"
                    [] error = "not_found" -> "NotFound"
                    [] error = "validation" -> "InvalidRequest"
                    [] OTHER -> error

ApiStatus(code) ==
    CASE code = "Unauthorized" -> 401
      [] code = "RateLimited" -> 429
      [] code \in {"NotFound", "DeviceNotFound", "PluginNotFound", "FileNotFound"} -> 404
      [] code \in {"InvalidRequest", "InvalidPacket", "InvalidConfigValue",
                   "CapabilityNotSupported"} -> 400
      [] code \in {"DeviceAlreadyExists", "DeviceNotPaired", "PairingRejected"} -> 409
      [] code \in {"PairingTimeout", "ConnectionError", "TlsError", "ConnectionTimeout",
                   "ServiceUnavailable"} -> 503
      [] code \in {"PacketTooLarge", "PayloadTooLarge"} -> 413
      [] OTHER -> 500

ApiErr(endpoint, error) == [endpoint |-> endpoint, error |-> error, status |-> ApiStatus(ApiCode(error))]

ApiOk(endpoint) == [endpoint |-> endpoint, error |-> "none", status |-> 200]

----------------------------------------------------------------------------
(* What the steps of a handler may come to. *)

ApiJson == {"next", "PayloadTooLarge", "InvalidRequest"}

validate_device_id == {"next", "validation"}

unavailable_error == {"next", "PluginError"}

ApiSend == IF apiUp THEN {"next", "CapabilityNotSupported", "ConnectionError", "ConnectionTimeout"}
                    ELSE {"ConnectionError"}

ApiOutcomes(step) ==
    CASE step = "json"    -> ApiJson
      [] step = "id"      -> validate_device_id
      [] step = "refused" -> {"next", "InvalidRequest"}
      [] step = "online"  -> IF apiUp THEN {"next"} ELSE {"InvalidRequest"}
      [] step = "found"   -> IF apiUp THEN {"next"} ELSE {"DeviceNotFound"}
      [] step = "stored"  -> {"next", "not_found"}
      [] step = "record"  -> {"next", "DeviceNotFound"}
      [] step = "audio"   -> unavailable_error
      [] step = "sink"    -> {"next", "io", "not_found"}
      [] step = "file"    -> {"next", "io"}
      [] step = "send"    -> ApiSend
      [] step = "read"    -> {"next"}

----------------------------------------------------------------------------
(* The handlers. *)

Endpoint(steps, declared) == [steps |-> steps, declared |-> declared]

health == Endpoint(<<"read">>, {200})
list_devices == Endpoint(<<"page">>, {200, 401, 500})
get_device == Endpoint(<<"id", "record", "read">>, {200, 401, 404, 500})
send_ping == Endpoint(<<"json", "id", "send">>, {200, 401, 404, 503, 500})
get_device_state == Endpoint(<<"id", "read">>, {200, 401})
list_connected_devices == Endpoint(<<"read">>, {200, 401})
list_plugins == Endpoint(<<"read">>, {200, 401})
get_capabilities == Endpoint(<<"read">>, {200, 401})
list_tools == Endpoint(<<"read">>, {200, 401})
list_share_files == Endpoint(<<"read">>, {200, 401})
send_text_to_device == Endpoint(<<"json", "id", "refused", "online", "send">>, {200, 400, 401})
send_url_to_device == Endpoint(<<"json", "id", "refused", "online", "send">>, {200, 400, 401})
get_clipboard == Endpoint(<<"read">>, {200, 401})
request_clipboard == Endpoint(<<"id", "send">>, {200, 401, 404})
get_device_battery == Endpoint(<<"id", "stored">>, {200, 401, 404})
request_device_battery == Endpoint(<<"id", "send">>, {200, 401, 404})
get_device_connectivity == Endpoint(<<"id", "stored">>, {200, 401, 404})
get_sms_threads == Endpoint(<<"id", "read">>, {200, 401, 404})
request_sms_threads == Endpoint(<<"id", "send">>, {200, 401, 404})
get_sms_thread == Endpoint(<<"id", "read">>, {200, 401, 404})
send_sms == Endpoint(<<"json", "id", "online", "send">>, {200, 400, 401, 404})
get_device_mpris == Endpoint(<<"id", "read">>, {200, 401, 404})
get_local_players == Endpoint(<<"read">>, {200, 401})
request_mpris == Endpoint(<<"id", "send">>, {200, 401, 404})
mpris_action == Endpoint(<<"json", "id", "refused", "send">>, {200, 400, 401, 404})
get_remotecommands == Endpoint(<<"id", "found", "read">>, {200, 400, 401, 404, 500})
trigger_remotecommand == Endpoint(<<"id", "found", "send">>, {200, 400, 401, 404, 500})
send_remotekeyboard_keypress == Endpoint(<<"json", "id", "found", "send">>, {200, 400, 401, 404, 500})
send_remotecontrol_pointer == Endpoint(<<"json", "id", "found", "refused", "send">>, {200, 400, 401, 404})
get_device_telephony == Endpoint(<<"id", "read">>, {200, 401, 404})
mute_device_call == Endpoint(<<"id", "send">>, {200, 401, 404})
lock_device == Endpoint(<<"json", "id", "online", "refused", "send">>, {200, 400, 401, 404})
find_my_phone == Endpoint(<<"id", "online", "send">>, {200, 400, 401})
get_contacts == Endpoint(<<"id", "read">>, {200, 400, 401})
set_volume == Endpoint(<<"json", "id", "online", "send">>, {200, 400, 401, 404})
get_local_sinks == Endpoint(<<"audio", "read">>, {200, 401, 503})
set_local_sink_control == Endpoint(<<"json", "refused", "audio", "sink">>, {200, 400, 401, 503})
request_sftp == Endpoint(<<"id", "online", "send">>, {200, 401, 404})
get_sftp_info == Endpoint(<<"id", "stored">>, {200, 401, 404})
get_notifications == Endpoint(<<"read">>, {200, 401})
send_notification == Endpoint(<<"json", "id", "online", "send">>, {200, 400, 401, 404})
reply_notification == Endpoint(<<"json", "id", "online", "refused", "send">>, {200, 400, 401, 404})
get_notification_icon == Endpoint(<<"id", "stored", "file">>, {200, 400, 401, 404})
activate_notification_action == Endpoint(<<"json", "id", "online", "refused", "send">>, {200, 400, 401})

build_router ==
    {health, list_devices, get_device, send_ping, get_device_state, list_connected_devices,
     list_plugins, get_capabilities, list_tools, list_share_files, send_text_to_device,
     send_url_to_device, get_clipboard, request_clipboard, get_device_battery,
     request_device_battery, get_device_connectivity, get_sms_threads, request_sms_threads,
     get_sms_thread, send_sms, get_device_mpris, get_local_players, request_mpris, mpris_action,
     get_remotecommands, trigger_remotecommand, send_remotekeyboard_keypress,
     send_remotecontrol_pointer, get_device_telephony, mute_device_call, lock_device,
     find_my_phone, get_contacts, set_volume, get_local_sinks, set_local_sink_control,
     request_sftp, get_sftp_info, get_notifications, send_notification, reply_notification,
     get_notification_icon, activate_notification_action}

----------------------------------------------------------------------------
(* Pages of a list: page and limit come from the query, as usize. *)

ApiPages == 0..(ApiWord - 1)

Saturated(n) == IF n >= ApiWord THEN ApiWord - 1 ELSE n

ApiPred(page) == IF page = 0 THEN 0 ELSE page - 1

Least(m, n) == IF m <= n THEN m ELSE n

ApiStart(page, limit, total) == Least(Saturated(ApiPred(page) * limit), total)

render_device_list(page, limit, total) ==
    LET start == ApiStart(page, limit, total)
        end == Least(Saturated(start + limit), total)
    IN start..(end - 1)

NoPage == [page |-> 1, limit |-> 0, total |-> 0, shown |-> {}]

----------------------------------------------------------------------------
(* The layers. *)

ApiIdle == [pc |-> "idle"]

api_bind_is_loopback == BOOLEAN

ApiInit == /\ \E loopback \in api_bind_is_loopback : apiLimited = ~loopback
           /\ apiClock = 0
           /\ apiBuckets = [c \in ApiClients |-> <<>>]
           /\ apiRefused = [c \in ApiClients |-> <<>>]
           /\ apiUp \in BOOLEAN
           /\ apiCall = ApiIdle
           /\ apiAnswer = ApiOk(health)
           /\ apiPage = NoPage

(* A request takes no time on the scale of the limiter. *)
ApiTick == /\ apiClock < ApiHorizon /\ apiCall = ApiIdle /\ apiLimited
           /\ apiClock' = apiClock + 1
           /\ UNCHANGED <<apiLimited, apiBuckets, apiRefused, apiUp, apiCall, apiAnswer, apiPage>>

ApiLink == /\ apiUp' = ~apiUp
           /\ UNCHANGED <<apiLimited, apiClock, apiBuckets, apiRefused, apiCall, apiAnswer, apiPage>>

(* The cache holds more clients than its capacity: one is forgotten. *)
ApiForget(c) ==
    /\ apiBuckets[c] # <<>>
    /\ Cardinality({d \in ApiClients : apiBuckets[d] # <<>>}) > ApiCapacity
    /\ apiBuckets' = [apiBuckets EXCEPT ![c] = <<>>]
    /\ UNCHANGED <<apiLimited, apiClock, apiRefused, apiUp, apiCall, apiAnswer, apiPage>>

ApiWindowOpen(c) ==
    apiBuckets[c] # <<>> /\ apiClock - apiBuckets[c][1] < ApiWindow

rate_limiter_sliding(c) ==
    IF ApiWindowOpen(c) THEN <<apiClock, Least(apiBuckets[c][2] + 1, ApiLimit + 1)>> ELSE <<apiClock, 1>>

(* The client's window and the number of its requests, counted no further  *)
(* than needed to see that the limit is passed.                            *)
rate_limiter(c) ==
    IF ApiWindowOpen(c) THEN <<apiBuckets[c][1], Least(apiBuckets[c][2] + 1, ApiLimit + 1)>>
                        ELSE <<apiClock, 1>>

ApiRefuse(e, error) == /\ apiAnswer' = ApiErr(e, error)
                       /\ apiCall' = ApiIdle

(* A request goes through the limiter when the interface is not bound to   *)
(* loopback.                                                               *)
ApiRequest(c, e) ==
    LET bucket == rate_limiter(c)
    IN /\ apiCall = ApiIdle
       /\ IF apiLimited
          THEN /\ apiBuckets' = [apiBuckets EXCEPT ![c] = bucket]
               /\ IF bucket[2] > ApiLimit
                  THEN /\ ApiRefuse(e, "RateLimited")
                       /\ apiRefused' = [apiRefused EXCEPT ![c] = IF @ = <<>> THEN <<apiClock>> ELSE @]
                  ELSE /\ apiRefused' = [apiRefused EXCEPT ![c] = <<>>]
                       /\ apiCall' = [pc |-> "auth", endpoint |-> e, at |-> 1]
                       /\ apiAnswer' = ApiOk(health)
          ELSE /\ apiCall' = [pc |-> "auth", endpoint |-> e, at |-> 1]
               /\ apiAnswer' = ApiOk(health)
               /\ UNCHANGED <<apiBuckets, apiRefused>>
       /\ apiPage' = NoPage
       /\ UNCHANGED <<apiLimited, apiClock, apiUp>>

(* The key: a header, or the query for the event stream only; an empty     *)
(* list of keys refuses every key.                                         *)
validate_api_key == {"next", "Unauthorized"}

auth_middleware ==
    /\ apiCall.pc = "auth"
    /\ \/ /\ apiCall' = [apiCall EXCEPT !.pc = "run"]
          /\ UNCHANGED apiAnswer
       \/ /\ apiCall.endpoint # health /\ "Unauthorized" \in validate_api_key
          /\ ApiRefuse(apiCall.endpoint, "Unauthorized")
    /\ UNCHANGED <<apiLimited, apiClock, apiBuckets, apiRefused, apiUp, apiPage>>

ApiAdvance == IF apiCall.at = Len(apiCall.endpoint.steps)
              THEN /\ apiAnswer' = ApiOk(apiCall.endpoint)
                   /\ apiCall' = ApiIdle
              ELSE /\ apiCall' = [apiCall EXCEPT !.at = @ + 1]
                   /\ UNCHANGED apiAnswer

(* One step of the handler.  A write that fails takes the link down. *)
ApiStep ==
    /\ apiCall.pc = "run"
    /\ LET step == apiCall.endpoint.steps[apiCall.at]
       IN /\ step # "page"
          /\ \E o \in ApiOutcomes(step) :
                /\ IF o = "next" THEN ApiAdvance ELSE ApiRefuse(apiCall.endpoint, o)
                /\ apiUp' = (apiUp /\ o \notin {"ConnectionError", "ConnectionTimeout"})
    /\ UNCHANGED <<apiLimited, apiClock, apiBuckets, apiRefused, apiPage>>

ApiList ==
    /\ apiCall.pc = "run" /\ apiCall.endpoint.steps[apiCall.at] = "page"
    /\ \E page, limit \in ApiPages, total \in 0..ApiListed :
          apiPage' = [page |-> page, limit |-> limit, total |-> total,
                      shown |-> render_device_list(page, limit, total)]
    /\ ApiAdvance
    /\ UNCHANGED <<apiLimited, apiClock, apiBuckets, apiRefused, apiUp>>

ApiNext == \/ ApiTick
           \/ ApiLink
           \/ \E c \in ApiClients : ApiForget(c)
           \/ \E c \in ApiClients, e \in build_router : ApiRequest(c, e)
           \/ auth_middleware
           \/ ApiStep
           \/ ApiList

ApiSpec == ApiInit /\ [][ApiNext]_apiVars

----------------------------------------------------------------------------
ApiTypeOK == /\ apiLimited \in BOOLEAN /\ apiClock \in 0..ApiHorizon /\ apiUp \in BOOLEAN
             /\ apiCall.pc \in {"idle", "auth", "run"}
             /\ apiAnswer.endpoint \in build_router
             /\ apiAnswer.status \in {200, 400, 401, 404, 413, 429, 500, 503}

(* A page of the device list holds exactly the entries that lie on it, for *)
(* every page and limit a query can carry; a page past the end is empty.   *)
(* render_device_list, whose comment asks for it.                          *)
PageIsSlice ==
    apiPage.shown = {i \in 0..(apiPage.total - 1) :
                        /\ i >= ApiPred(apiPage.page) * apiPage.limit
                        /\ i < (ApiPred(apiPage.page) + 1) * apiPage.limit}

(* The limiter answers 429 with "Retry-After: 60": no client is refused    *)
(* for 60 s on end, not even one that keeps asking, as a refused request   *)
(* does not extend the window.                                             *)
RetryAfterHolds ==
    \A c \in ApiClients :
        apiRefused[c] # <<>> /\ apiClock - apiRefused[c][1] >= ApiWindow
        => rate_limiter(c)[2] <= ApiLimit

(* Every answer has a status that the endpoint's OpenAPI entry declares.   *)
(* The limiter's answer is not part of an entry.                           *)
DeclaredStatus == apiAnswer.error = "RateLimited"
                  \/ apiAnswer.status \in apiAnswer.endpoint.declared
=============================================================================
