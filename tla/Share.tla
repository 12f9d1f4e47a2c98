------------------------------- MODULE Share -------------------------------
(***************************************************************************)
(* plugins/share.rs, protocol/payload_transfer.rs and api/handlers/share.rs:*)
(* files and texts that phones send, and files sent to a phone.            *)
(*                                                                         *)
(* A byte is a unit: a sender has `total` of them, and declares a size or, *)
(* with the sentinel -1, none ("stream").  A file is named by the name the *)
(* sender gave and the number collision_candidate appended to it.          *)
(***************************************************************************)
EXTENDS Naturals, Sequences, FiniteSets

CONSTANTS
    ShDevices,      \* phones
    ShJobs,         \* receptions that may run at a time
    ShNames,        \* file names
    ShCopies,       \* candidates create_unique_destination tries
    ShMax,          \* max_file_size_bytes
    ShTotals,       \* what senders may have to send
    ShPerDevice,    \* MAX_TRANSFERS_PER_DEVICE
    ShGlobal,       \* MAX_TRANSFERS_GLOBAL
    ShKnown,        \* MAX_TRANSFER_DEVICES
    ShLogCap,       \* MAX_RECEIVED_FILES
    ShRequests      \* bound on the receptions of a behaviour

ASSUME ShAssumption ==
    /\ ShCopies \in Nat \ {0} /\ ShMax \in Nat /\ ShTotals \subseteq Nat
    /\ ShLogCap \in Nat \ {0}

ShFiles == ShNames \X (0..ShCopies - 1)
ShAbsent == [by |-> 0, bytes |-> 0]

VARIABLES
    shJob,      \* job -> its state
    shDisk,     \* file -> who wrote it (number of the request) and its length
    shLog,      \* received_files: request and file
    shSems,     \* devices that have a semaphore
    shBatch,    \* devices with batch totals
    shSeen,     \* requests so far: kind, declared size and what the sender has
    shSend,     \* the API's send: none, upload, offer, serve
    shServer    \* transfer tasks of sends: with their handler, and without

shVars == <<shJob, shDisk, shLog, shSems, shBatch, shSeen, shSend, shServer>>
shIn == <<shJob, shDisk, shLog, shSems, shBatch, shSeen>>
shOut == <<shSend, shServer>>

ShIdle == [pc |-> "idle", dev |-> "none", name |-> "none", copy |-> 0, req |-> 0, got |-> 0]

ShInit ==
    /\ shJob = [j \in ShJobs |-> ShIdle]
    /\ shDisk = [f \in ShFiles |-> ShAbsent]
    /\ shLog = <<>> /\ shSems = {} /\ shBatch = {} /\ shSeen = <<>>
    /\ shSend = "none" /\ shServer = [held |-> 0, loose |-> 0]

-----------------------------------------------------------------------------
(* A request from a phone                                                  *)

\* A permit is held from the request to the end of the job; texts need none.
ShHolding(d) == {j \in ShJobs : shJob[j].dev = d /\ shJob[j].pc # "idle"
                                  /\ shSeen[shJob[j].req].kind # "text"}
ShPermits(d) ==
    /\ Cardinality(UNION {ShHolding(e) : e \in ShDevices}) < ShGlobal
    /\ d \in shSems \/ Cardinality(shSems) < ShKnown
    /\ Cardinality(ShHolding(d)) < ShPerDevice

\* record_batch_totals, on every request that carries them.
ShRecordBatch(d, carries) ==
    shBatch' = IF carries /\ (d \in shBatch \/ Cardinality(shBatch) < ShKnown)
               THEN shBatch \cup {d} ELSE shBatch

\* The job and the request it serves.
ShBegin(j, d, name, kind, size, total) ==
    /\ Len(shSeen) < ShRequests
    /\ shSeen' = Append(shSeen, [kind |-> kind, size |-> size, total |-> total])
    /\ shJob' = [shJob EXCEPT ![j] = [pc |-> "create", dev |-> d, name |-> name, copy |-> 0,
                                      req |-> Len(shSeen) + 1, got |-> 0]]

\* handle_packet spawns receive_file_async with its permits; a declared size above
\* the limit ends it at once.
ShReceiveFile(j, d, name, kind, size, total, carries) ==
    /\ shJob[j].pc = "idle"
    /\ ShPermits(d)
    /\ shSems' = shSems \cup {d}
    /\ IF kind = "known" /\ size > ShMax
       THEN UNCHANGED <<shJob, shSeen>>
       ELSE ShBegin(j, d, name, kind, size, total)
    /\ ShRecordBatch(d, carries)
    /\ UNCHANGED <<shDisk, shLog, shOut>>

\* receive_text runs in the handler; its name may be taken.
ShReceiveText(j, d, name, total, carries) ==
    /\ shJob[j].pc = "idle"
    /\ ShBegin(j, d, name, "text", 0, total)
    /\ ShRecordBatch(d, carries)
    /\ UNCHANGED <<shDisk, shLog, shSems, shOut>>

\* kdeconnect.share.request.update.
ShUpdate(d) ==
    /\ ShRecordBatch(d, TRUE)
    /\ UNCHANGED <<shJob, shDisk, shLog, shSems, shSeen, shOut>>

ShDisconnected(d) ==
    /\ shBatch' = shBatch \ {d}
    /\ UNCHANGED <<shJob, shDisk, shLog, shSems, shSeen, shOut>>

-----------------------------------------------------------------------------
(* Receiving                                                               *)

ShFile(j) == <<shJob[j].name, shJob[j].copy>>
ShReq(j) == shSeen[shJob[j].req]

\* create_new on one candidate after the other.
ShCreate(j) ==
    /\ shJob[j].pc = "create"
    /\ IF shDisk[ShFile(j)] = ShAbsent
       THEN /\ shDisk' = [shDisk EXCEPT ![ShFile(j)] = [by |-> shJob[j].req, bytes |-> 0]]
            /\ shJob' = [shJob EXCEPT ![j].pc = IF ShReq(j).kind = "text" THEN "copy" ELSE "connect"]
       ELSE /\ shJob' = IF shJob[j].copy + 1 < ShCopies
                        THEN [shJob EXCEPT ![j].copy = @ + 1] ELSE [shJob EXCEPT ![j] = ShIdle]
            /\ UNCHANGED shDisk
    /\ UNCHANGED <<shLog, shSems, shBatch, shSeen, shOut>>

\* connect_receiver: TCP and TLS in time.
ShConnect(j) ==
    /\ shJob[j].pc = "connect"
    /\ shJob' = [shJob EXCEPT ![j].pc = "copy"]
    /\ UNCHANGED <<shDisk, shLog, shSems, shBatch, shSeen, shOut>>

\* How far the reader goes: one byte past the cap tells a stream that ends there
\* from one that does not.
ShLimit(r) ==
    CASE r.kind = "known" -> r.size
      [] r.kind = "stream" -> ShMax + 1
      [] OTHER -> r.total

\* copy_with_idle_timeout, a unit at a time.
ShCopy(j) ==
    /\ shJob[j].pc = "copy"
    /\ shJob[j].got < ShLimit(ShReq(j)) /\ shJob[j].got < ShReq(j).total
    /\ shJob' = [shJob EXCEPT ![j].got = @ + 1]
    /\ shDisk' = [shDisk EXCEPT ![ShFile(j)].bytes = @ + 1]
    /\ UNCHANGED <<shLog, shSems, shBatch, shSeen, shOut>>

\* Anything that goes wrong deletes the file.
ShDiscard(j) ==
    /\ shDisk' = [shDisk EXCEPT ![ShFile(j)] = ShAbsent]
    /\ UNCHANGED shLog

\* Connecting, reading, writing or flushing fails, or takes too long.
ShFail(j) ==
    /\ shJob[j].pc \in {"connect", "copy"}
    /\ ShDiscard(j)
    /\ shJob' = [shJob EXCEPT ![j] = ShIdle]
    /\ UNCHANGED <<shSems, shBatch, shSeen, shOut>>

\* A size that was declared must be reached, a cap not passed.
ShAccepts(r, got) ==
    CASE r.kind = "known" -> got >= r.size
      [] r.kind = "stream" -> got <= ShMax
      [] OTHER -> TRUE

\* The reader is at its end: the sender closed, or the limit is reached.
ShFinish(j) ==
    /\ shJob[j].pc = "copy"
    /\ shJob[j].got = ShLimit(ShReq(j)) \/ shJob[j].got = ShReq(j).total
    /\ IF ShAccepts(ShReq(j), shJob[j].got)
       THEN /\ shLog' = Append(IF Len(shLog) >= ShLogCap THEN Tail(shLog) ELSE shLog,
                               [req |-> shJob[j].req, file |-> ShFile(j)])
            /\ UNCHANGED shDisk
       ELSE ShDiscard(j)
    /\ shJob' = [shJob EXCEPT ![j] = ShIdle]
    /\ UNCHANGED <<shSems, shBatch, shSeen, shOut>>

-----------------------------------------------------------------------------
(* Sending: one call of send_file_to_device after the other                *)

\* The device is connected and a permit free.
ShSendStart == shSend = "none" /\ shSend' = "upload" /\ UNCHANGED <<shIn, shServer>>

\* stream_upload_to_file and send_file: the listener and its task exist before
\* the phone is told.  An upload that is empty, too long or too slow is refused.
ShUpload(ok) ==
    /\ shSend = "upload"
    /\ shSend' = IF ok THEN "offer" ELSE "none"
    /\ shServer' = [shServer EXCEPT !.held = IF ok THEN 1 ELSE 0]
    /\ UNCHANGED shIn

\* The packet goes out, or the task is aborted.
ShOffer(ok) ==
    /\ shSend = "offer"
    /\ shSend' = IF ok THEN "serve" ELSE "none"
    /\ shServer' = [shServer EXCEPT !.held = IF ok THEN @ ELSE 0]
    /\ UNCHANGED shIn

\* The task ends by success, failure or one of its timeouts, and with it the call.
ShServe ==
    /\ shSend = "serve"
    /\ shSend' = "none" /\ shServer' = [shServer EXCEPT !.held = 0]
    /\ UNCHANGED shIn

\* The API client leaves: permit and temporary directory go with the handler, the
\* task stays until its own timeouts.
ShLeave ==
    /\ shSend \in {"upload", "offer", "serve"} /\ shServer.loose = 0
    /\ shSend' = "none" /\ shServer' = [held |-> 0, loose |-> shServer.held]
    /\ UNCHANGED shIn

ShLooseEnds ==
    /\ shServer.loose = 1 /\ shServer' = [shServer EXCEPT !.loose = 0]
    /\ UNCHANGED <<shIn, shSend>>

-----------------------------------------------------------------------------

ShNext ==
    \/ \E j \in ShJobs, d \in ShDevices, name \in ShNames, total \in ShTotals, carries \in BOOLEAN :
          \/ \E size \in 0..ShMax + 1 : ShReceiveFile(j, d, name, "known", size, total, carries)
          \/ ShReceiveFile(j, d, name, "stream", 0, total, carries)
          \/ ShReceiveText(j, d, name, total, carries)
    \/ \E d \in ShDevices : ShUpdate(d) \/ ShDisconnected(d)
    \/ \E j \in ShJobs : ShCreate(j) \/ ShConnect(j) \/ ShCopy(j) \/ ShFail(j) \/ ShFinish(j)
    \/ ShSendStart \/ ShServe \/ ShLeave \/ ShLooseEnds
    \/ \E ok \in BOOLEAN : ShUpload(ok) \/ ShOffer(ok)

ShSpec == ShInit /\ [][ShNext]_shVars

ShTypeOK ==
    /\ \A j \in ShJobs : /\ shJob[j].pc \in {"idle", "create", "connect", "copy"}
                         /\ shJob[j].req \in 0..ShRequests
    /\ shDisk \in [ShFiles -> [by : 0..ShRequests, bytes : Nat]]
    /\ Len(shLog) <= ShLogCap
    /\ shSems \subseteq ShDevices /\ Cardinality(shSems) <= ShKnown
    /\ shBatch \subseteq ShDevices /\ Cardinality(shBatch) <= ShKnown
    /\ shSend \in {"none", "upload", "offer", "serve"}

\* Whatever order transfers start, fail and end in, what is left in the download
\* directory is whole: a file nobody is writing holds exactly the declared number
\* of bytes, or the whole of a stream, and every file on the list of received files
\* is the file of its own request (receive_into, receive_into_streaming,
\* create_unique_destination).
DownloadsWhole ==
    /\ \A f \in ShFiles :
          shDisk[f] # ShAbsent /\ (\A j \in ShJobs : shJob[j].req # shDisk[f].by)
              => LET r == shSeen[shDisk[f].by]
                 IN  shDisk[f].bytes = IF r.kind = "known" THEN r.size ELSE r.total
    /\ \A i \in 1..Len(shLog) : shDisk[shLog[i].file].by = shLog[i].req

\* send_file_to_device holds its permit "until the transfer completes", so that no
\* more transfer tasks run than permits exist.  It fails when the client leaves.
SendsCapped == shServer.held + shServer.loose <= 1
=============================================================================
