# rust-connect in TLA+

A model of rust-connect's daemon: the links to devices, pairing and trust, how
devices are found and dialled, the services around the links, and the plugins that
keep state. TLC checks the modules on small instances; TLAPS proves the central
invariants for every value of the constants. Paths below are relative to
`src/src/`; line numbers are those of the modelled revision. `PROJECT.json` maps
every definition to its lines and lists components, hazards and findings.

## The system

The daemon is a set of tokio tasks on a multi-threaded runtime. They share state
behind async locks, so every lock release and every other await is a point where
any other task may run. A `select!` drops the arms that lose; a timeout drops the
future it wraps at whatever await it has reached; a thread started with
`spawn_blocking` cannot be dropped at all.

| part | what is hard about it | modules |
|---|---|---|
| connection manager, packet loop, listener | a device is dialled, accepted, replaced, written to and torn down at once; ownership is a generation number | `Links`, `LinkSlot`, `Handshake` |
| framing | chunk boundaries, the cap, a read dropped by a timeout | `LineReader` |
| pairing | several locks per call, expiry on both sides, a crash between two files | `Pairing`, `PairingLocks`, `PairingDialogue` |
| certificates, own identity | files half written, layouts of older versions | `CertStore` |
| discovery, orchestrator, service manager | announcements that cross, retries, stopping | `Meeting`, `Discovery`, `Dialling`, `Daemon` |
| registry, events, routing, notices | state changed under one lock and announced after it | `DeviceRegistry`, `EventStream`, `Routing`, `PluginNotices` |
| REST interface | checks that are stale when used, limits, paging | `Api` |
| input sharing | four actors on one portal session; two channels whose order matters | `PortalSession`, `InputCapture`, `InputGate`, `Barrier` |
| desktop shown on phones | watchers, echoes, newcomers | `Mpris`, `SystemVolume`, `Clipboard`, `Notification` |
| phones shown on the desktop | caps, eviction, disconnects in the middle | `Notification`, `Contacts`, `PhoneData`, `Share`, `Sftp` |
| phones acting on the desktop | what was changed must be undone | `PauseMusic`, `Alarm`, `RunCommand`, `Pointer`, `Tablet` |

## Modules

State and actions keep the source's names where one action is one function;
otherwise the prefix of a module (`dg`, `ntc`, `po`, ...) marks its variables, and the
comment above an action names the function.

### Links and pairing

**`Links`** (instances in `MCLinks`, proofs in `LinksProofs`). The slot of every
device. A link is a socket with the task that drives it; its program counter `pc`
moves from one critical section to the next: `AcceptInsert`, the eviction in three
steps, the identity exchange for an accepted socket; `OutGen`, `OutOld`, the
eviction, `OutInsert` and the two halves of `cleanup_stale_generations` for a
dialled one; then `Register`, `Connect` and the exits of `run_packet_loop`, one
action each. `SendStart/Ok/Fail` is a `send_packet` in flight, the `Api...`
actions are `disconnect_device`, `unpair_device` and `delete_device`. The code
knows a link by its generation number, the model knows the link as well. That is
how it can say that a number named the wrong link (`usurped`). Socket shutdowns
take no step of their own: they only delay the next one. `disconnect` is one step
because it holds `connections` while it removes the token. `forgotten` records the
devices whose counter `cleanup_stale_generations` has discarded.

**`LinkSlot`** is the abstract specification `Links` implements: a device has one
slot, a link takes the slot of its own device at most once, and a link that left
it never comes back. The refinement mapping (`Slot` in `Links`) reads the owner off
`connections` and counts a link as spent once it took the slot or can no longer take
it. `PluginNotices` is built on that promise: its sessions
take the slot once.

**`Handshake`** (`LinksProofs`). From a TCP socket to an entry in the table: plaintext
identity, TLS with trust on first use, encrypted identity, and every check in between, with
other sockets, pairing and unpairing between any two reads.

**`LineReader`** (`DialogueProofs`). `read_steady_line` under
`recv_packet_inner`. A line is its length; the stream arrives in chunks that end
anywhere. `Timeout` drops the buffer and the discarding flag and keeps the stream
position. `cuts` records the lines in whose middle that happened.

**`Pairing`** (`PairingProofs`; the cfg files instantiate it directly).
`PairingHandler` with its callers. A task runs one call; a step is one lock section or one file operation. Subroutines
(sweep, accept, unpair) return to the label in `loc[t].ret`. Requests are live or
expired (`Expire` is time passing), certificates are values, the fingerprint file
holds the certificate it was made from. A save is three steps, as `save_to_disk`
holds only the read guard and shares one `.tmp` with every other save: `SaveOpen`
truncates it, `SaveWrite` writes what was serialized to whatever the opened file is
called by then, `SaveRename` renames what is there. A file is torn, or holds a map.
`"save" \in Faults` lets each step fail, which the code only logs; `"cert"` lets the
certificate files fail to be written or deleted. `Crash` loses memory and runs `load_from_disk`. The sweep's
count is computed as in the code, from a second look at `outgoing`; unsigned
wrap-around makes a negative difference positive, so it is compared with zero only.
That is the release build, a debug build panics there.

**`PairingLocks`**. The same calls reduced to the order in which they take and
release the four RwLocks, with tokio's first-in first-out queue (external, from
tokio's documented fairness) instead of the data.

**`PairingDialogue`** (`DialogueProofs`). Two daemons pair with each other: requests
that cross, late answers, lost links, the two timeouts, timestamps, and the
verification key each user sees. A call is one step here.

**`CertStore`** (`StoreProofs`). `own.crt`, `own.key`, `device_id`, the layout of older
versions, and a peer's PEM copy and fingerprint. A call is the list of file operations it
has left to do; `fs::write` truncates and then fills, and a crash may fall anywhere.

### Finding, dialling, serving

**`Meeting`**: daemons that hear each other by broadcast and by mDNS, on one host or
several, the dial that follows, the identity sent back when it fails, and the limiter of
each leg. **`Discovery`**: debounced re-announcement, the broadcast fallback.
**`Dialling`**: the pending-dial mark shared by announcements and reconnect loops,
the API's dial, accepted links, the setup after a dial and its errors, the ends of a
packet loop (those that disconnect and those that leave the link in its slot), backoff,
shutdown. **`Daemon`**: start order, a failed start, stop with its timeouts, and the
drop of the runtime, which waits for a mount helper on a blocking thread.

**`DeviceRegistry`** (`LinksProofs`): records, the transition table, the cap on unpaired records,
save and load, the delete handler with the places its request can be dropped.
**`EventStream`**: the bounded broadcast channel, several tasks that change a device and
announce it in two steps, and one client.
**`Routing`**: registration in two locks, lookup in two locks, fan-out; the router's own
handlers and default handlers.
**`PluginNotices`**: links that are accepted, dialled, evicted and run to one of the ends
of the packet loop, their connect and disconnect notices racing redials, the delayed
plugin initialisation, and as their consumers the state packets put into plugins
and the screensaver's inhibit slot. An eviction cancels whatever token is registered by
then, and the arm a cancelled loop ends at gives no notice: such a session is `"cut"`.
**`Api`**: the limiter, the key and body layers, and each handler as the sequence of
its checks and calls with the statuses its OpenAPI entry declares.

### Plugins

**`PortalSession`**: the calls that open a capture session, answered by signals that
may come early, late or never. **`InputCapture`**: the capability gate, the activation,
Disabled and the end of the stream, all on one session slot. **`InputGate`**: input held
until its activation has arrived. **`Barrier`**: which edge is chosen and how it
follows the desktop. **`Mpris`**, **`SystemVolume`**, **`Clipboard`**:
the desktop with its watchers on one side, phones on the other; a phone's request lists
in one step and is answered in a later one. **`Notification`**:
both directions of the notification plugins. **`Contacts`**, **`PhoneData`**, **`Share`**, **`Sftp`**: what
phones send, with caps, evictions and disconnects. **`PauseMusic`**, **`Alarm`**,
**`RunCommand`**, **`Pointer`**, **`Tablet`**: what phones do to the desktop. D-Bus
services, `pactl`, `sshfs`, the kernel's input layer and the phones are external:
they are nondeterministic in what the code must cope with.

### How the modules meet

`LoopEnd`, `LoopStale` and `LoopReject` of `Links` are the outcomes of the pair
packets of `Pairing` and of the reads of `LineReader`; `PluginNotices` composes the
slot of `LinkSlot` with the plugin state and the inhibit slot; a dial that comes of
`Meeting` goes on in `Dialling`, then in `Handshake`, then in `Links`.

`MCProgress`, `MCServices` and `MCPlugins` put several components into one
instance. A component of theirs shares no variable with another, so their product
would show nothing their sum does not: `focus` (`plugin` in `MCPlugins`) is chosen in
the initial state, the component it names runs from all of its initial states, and the others stay in one.
The theme invariants of these modules (`CaptureTied`, `PeersAreKnown`, ...) are
conjunctions of the properties of the components. `CompositionProofs` proves most of
them of the product: of every behaviour that is one of each component.

## Runs

| run | shows |
|---|---|
| `links_safety` | a generation names one link; no teardown removes a link it does not own |
| `links_liveness` | a loop whose link was replaced ends; `Links` implements `LinkSlot` |
| `pairing_sequential` | calls that do not overlap: paired devices are pinned, staged certificates have a request, no request survives its accept, pins are never replaced, a reaped request takes its certificate along |
| `pairing_concurrent` | two overlapping calls and a crash anywhere: the overrun of the cap is bounded, file and memory agree but for calls and saves under way, a pin that no accept is about to write stays |
| `progress` | what needs fairness: every line is read, any two pairing calls return, a stop ends every dial and reconnect loop, the process exits unless a mount helper never ends, a change of network is announced, the fallback keeps calling; with the invariants of the same components |
| `services` | registry, event stream, routing, certificates, handshake, dialogue, discovery, notices, REST |
| `plugins` | the plugins |

The properties of the last two, by theme:

- `RegistryTrue`: a deleted device does not come back with the file
  (`DeletedStaysDeleted`), a page of the list is its slice (`PageIsSlice`).
- `ViewConverges`: a client of the event stream that has read everything shows the
  true state, unless an older change was announced after the latest one: updating a
  record and broadcasting the event are two steps of `transition`, under no common lock.
- `CertificatesKept`: a machine keeps its id through crashes and renewals
  (`IdentityKept`); PEM and pin name one certificate (`PemMatchesPin`).
- `PeersAreKnown`: a link speaks for the id it is filed under
  (`LinkSpeaksForItsId`), daemons of one host never meet (`SameHostNeverMeets`),
  unicasts and dials to one address are spaced, each by its limiter (`UnicastSpaced`).
- `AcceptFindsRequest`, `SidesAgree`: an accept made in time finds the request it
  answers; once nothing is under way, both sides are paired or neither is.
- `PluginsFollow`: the index is exact, every handler of a packet runs, plugin state
  goes with the last link unless the loop that wrote it, or that of the last link, ended at
  an arm that gives no notice; no cookie is lost.
- `RetryAfterHolds`: no client is refused for a whole window on end.
- `CaptureTied`: no awaited signal is missed, a known portal session has an owner, an
  armed one a peer, there is one session, and the barrier follows the desktop.
- `GateInOrder`: input never precedes its request, a deferred activation is replayed.
- `InputCarriedOut`: keys come up again, pixels keep pace with what was asked.
- `DesktopMirrored`: phones see players, sinks and clipboard as they are, once nothing is
  under way. What the code loses is excepted by a history variable that the step in question
  sets: a player that comes or goes between the list and the subscription, a failed list, a
  list that was made earlier and sent later, the late send of an aborted listener, a
  clipboard that was cleared.
- `PhoneMirrored`: downloads are whole, contacts are current, the newest
  conversation is kept.
- `DesktopRestored`: a call's end tells what the call paused to play (a player may refuse),
  an alarm restores the mutes. `on_disconnected` takes no `call_lock`: a link that goes while
  its own handler runs is excepted.
- `CleanupSparesNewer`: an sftp cleanup that waited never takes a newer mount with it.
- `PopupsWithinReach`: a popup stays in the live table or the shadow, so that a cancel
  can close it, but for the cases its comment lists (popups without an id, evicted,
  whose entry went while they were being shown, or met by a packet in the window of
  `on_disconnected`, where the code does lose them: `ForgottenStaysForgotten` below).

The properties of `pairing_sequential` are about calls that do not overlap. On the
instance of `pairing_concurrent` without crashes TLC refutes all five for two
overlapping calls:

- `StagedHasRequest`: an accept takes the certificate between the insert and the
  staging of `initiate_pairing`.
- `PairedHasNoRequest`: `initiate_pairing` looks at `paired` before the accept of
  an earlier request inserts there.
- `PairedHasAnchor`: an accept inserts into `paired` between the removal from
  `paired` and the deletion of the pin by an `unpair`.
- `PinNeverReplaced`: two accepts find no pin and both write. What holds of overlapping
  calls is `PinSettles`: once there is a pin and nobody is between check and write, nobody
  gets there.
- `ReapedCertGoes`: another call inserts into `outgoing` before the sweep counts.

They are listed as hazards, with this limit in their notes.

Five more runs each check one sentence of the code's comments or documents and end
in a counterexample; `findings` quotes the sentence.

| run | the sentence fails because |
|---|---|
| `links_driver` | the loop of a dialled link returns on a refused pairing without a disconnect |
| `pairing_crash` | unpair deletes the pin before it saves the map |
| `locks_three` | a count, a sweep and a queued writer wait for one another |
| `reader_oversize` | a timeout in the middle of a long line forgets that it was being skipped |
| `same_key` | a second pair call takes a new timestamp that the peer ignores |

### Statements kept without a run

These too are sentences of the code that TLC refutes, on the instance of the run that
contains the module (take the statement as the only `INVARIANT`, or as `PROPERTY`
where it is about steps: those of `Sftp`, `Notification` and `Pairing`). Each is a finding.

| statement | module | what happens |
|---|---|---|
| `LiveLinkNotMarkedDown` | `Links` | a redial connects between a teardown's `disconnect` and its lifecycle transition |
| `LiveLoopCancellable` | `Links` | the token removal of a slow eviction hits the token of a newer link |
| `InhibitGoesWithSession` | `PluginNotices` | the delayed connect notice comes after the disconnect notice |
| `DisabledConverges` | `InputCapture` | the handler sets its latch after the activation has read it |
| `InputInOrder` | `InputGate` | the pump sends between the disarming of the gate and the replay |
| `FinishedSurvives` | `Pairing` | two saves meet at the `.tmp`, and a crash finds the torn file renamed (with a second phone in the instance) |
| `AnswersTrackReality` | `SystemVolume` | the list made for a request overwrites what was pushed meanwhile |
| `NewcomerGetsList` | `SystemVolume` | a phone reconnects between two ticks |
| `NothingLiveToRelease` | `Sftp` | a mount finishes while the cleanup waits for its lock |
| `SendsCapped` | `Share` | a dropped request releases its permit, its server goes on |
| `ForgottenStaysForgotten` | `Notification` | a cancel falls between the two locks of a disconnect |
| `FailedIsUnavailable` | `Notification` | the failing monitor stores its flag first |
| `TimeoutEndsGroup` | `RunCommand` | the shell was reaped, its group has no id any more |
| `DeclaredStatus` | `Api` | errors end in statuses the entry does not declare |
| `StartRepairs` | `CertStore` | `own.crt` torn by a crash fails every later start; `KeyFitsCertificate` fails for the same two writes |

### Bounds

- `Links`: one phone, two accepted sockets and one dial. Devices share nothing but
  `cleanup_stale_generations`, and one phone already meets it between generation
  and insert. Two replacements of one link, in every order of accept and dial, fit
  into three links. `links_liveness` gives one socket another certificate to reach
  the rejection. One send and one API call per device are in flight at a time.
  Generations need no cap: each link takes one.
- `Pairing`: `pairing_sequential` has two phones, two certificates and a cap of 2, so
  that the cap is reached, the sweep sees both maps and, after a deletion that
  failed, a second certificate meets a pin. `pairing_concurrent` has one phone, two
  certificate, two tasks and a cap of 1; its properties are proved for all sizes.
- `progress`: a line cap of 4 with lines of 1, 4, 5 and 9 bytes (blank, exactly the
  cap, one over, more than two caps); nine calls by two tasks; two announcement tasks
  with two retries; three changes of network and two doublings of the interval.
- `services`: two of everything that can be confused (ids, certificates, plugins,
  daemons, addresses, sessions, clients) and limits of 1 or 2, so that every limit is
  reached. Timeouts of the dialogue are 3 and 1 with a delay of 1, which just meets
  the condition the proof needs; three requests. `ApiWord` is 4, so that offsets
  overflow.
- `plugins`: two phones where they interact (clipboard, calls, notifications sent to phones), one where
  their maps are keyed by device and nothing else is shared; caps of 1 or 2; two to four
  changes from outside, enough for a change, a second one while the first is under way,
  and one after. Integers of the tablet wrap at 16.
- Symmetry: accepted sockets with the same certificate, and tasks, phones and
  certificates of `Pairing`, in runs of invariants only.

Bounded counters (`DgRequests`, `PoStarts`, `ClpMoves`, ...) limit inputs: the guard
they appear in is that of a user, a phone, the network or the clock. In `Meeting` one
dial is under way at a time (`MtUnderWay`), and the addresses are taken up to their names.
Where the product of everything around a component is too large, its instance has several
foci, each with a part of its next-state relation: `routing` and `router` (the registry's
table, the router's own), `mpris`, `phone` and `remote` (host and watcher, host and asking
phone, remote players), `volume` and `sinks` (host and failing backend, host and asking
phone). What needs two of these parts at once is not explored. `links_driver` has one dialled
link; with two accepted ones instead `LinkHasTask` fails by the listener's timeout.

`CHECK_DEADLOCK FALSE` is set where the system may stop: every link done, the stream
ended, the inputs of a bound used up, the process gone.

### Fairness

`Links!FairSpec` has weak fairness on what a task does without its peer: tokio
polls a ready task, and a blocked read ends after 30 s, which is why `LoopStale`
is such a step. Nothing is assumed of peers, accepts, dials or users.
`MCFairness` of `MCProgress` is that of each component while it has the focus:
sent bytes arrive (`Chunk`, `EndOfStream`); running tasks move on and a free lock
goes to the head of its queue (tokio's RwLock is fair); a dial, a loop or a backoff
ends once the stop token is cancelled, as each of its waits is in a `select!` with the
token or bounded by a timeout; timers of the watcher, the
reactor and the fallback fire; the main task and the tasks it awaits move on, each
await being bounded by 5 s; nothing is assumed of the mount helper. Changes of network, announcements and the stop itself are
not fair: nobody has to stop the daemon.

## Proofs

Seven modules hold the proofs about components, packed by what they share; an eighth,
`CompositionProofs`, puts components together. Each theorem is for every value of the
constants that the `ASSUME` of the component's module allows. Those assumptions are
about types and null values (finite sets of devices, positive caps, a null value that is
no member) except where a line below says more.

`LinksProofs`, on `Links` (accepted and dialled links are disjoint, every link belongs to
a device), `Handshake`, `Meeting` and `DeviceRegistry`:

- `TypeCorrect`: `TypeOK` is inductive.
- `GenerationsUnique`, `TeardownOwnsLink`, from the inductive `LinkInv`.
  Uniqueness alone is not inductive, as a new number must exceed all numbers
  handed out: `CounterInv` says that no link of a device has a number above the
  counter while that counter was not discarded. `TaskInv` says that a task past
  its first step has a number, `HandleInv` that every link in the slot or held by
  a send or an API call has one; so a teardown that finds its own number in the
  slot has found its own link. `TearDownStep` is the shared lemma for every
  caller of `disconnect`, `QuietStep` for the steps that leave numbers alone.
- `ImplementsSlot`: every step is a step of `LinkSlot` or leaves it alone.
- `LinksSpeakForIds`: `HandshakeInv` says of every socket what it has shown by the time
  it is where it is (`Shown`), and of every entry of the table that its socket got far
  enough and showed that id (`Filed`).
- `HostsStayApart`, `UnicastsSpaced`: datagrams carry the host they come from, and dials
  and links come of datagrams; an address sent to or dialled within the window is still in
  that leg's map (`Remembered`), which needs that a map keeps entries
  for no less than a window (`MtKept >= MtWindow`; the code keeps them
  for 60 s and the window is `CONNECTION_RATE_LIMIT`).
- `DeletionsLast`: `RegInv` follows a deletion through the save it owes: a device that is
  in the file and not in the map has a save ahead of it or a writer under way without it,
  until a save has failed or was dropped with its request.

`PairingProofs`, on `Pairing`:

- `TypeCorrect`, from `DataOK /\ ControlOK`. `TypeOK` alone is not inductive:
  a subroutine jumps to its return label, so `RetOK` says which labels each
  subroutine can hold.
- `PendingIsBounded`: the overrun of `max_pending` is at most the number of calls
  in flight less one. The property counts the tasks about to insert, which makes
  it inductive: a task that passes the check saw fewer than the cap.
- `DiskAgrees`, when saves do not fail: file and memory differ only for devices a
  call is pairing or unpairing, or while a save rewrites a file that was renamed under it.
  `DiskInv` says that what a save has serialized is the map, as its read guard keeps
  writers out; that the `.tmp` is the map or is about to be written; and that where it is
  gone, renamed by another save, the same holds of the file. `OnlySavesSave` and
  `SavingStays` isolate the few steps that matter.
- `PinsSettle`, for any number of overlapping calls, crashes and failures: the check of
  `store_peer_certificate` lets nobody past it while a pin stands (`OnlyStorePins`).

What holds only of calls that do not overlap (`pairing_sequential`) is left to TLC: the
code does not keep its calls apart, so a theorem would assume what nothing provides.

`DialogueProofs`, on `LineReader`, `PairingDialogue` (the timeouts differ by at least two
delays) and `InputGate`:

- `BufferStaysExact`, inductive with the types of its variables; `LinesArrive` and
  `LinkStays`, from `ReaderInv`: a line is cut exactly when the present read began inside
  it, and discarding begins only beyond the cap. What was delivered is a sequence defined
  by its length and its order, so that the step "one line more" is a lemma about `Append`.
- `TimeoutsFit`: an accept made in time finds the request it answers, for all
  timeouts and delays. `AcceptFindsRequest` is about a flag raised when it is too
  late; the induction follows the dialogue of one request through its phases
  (`Unheard`, `Sent`, `Heard`, `DgAnswered`, `Agreed`), each with a bound on how far
  the clock is from the request. The delay of the request, the accept timeout and
  the delay of the answer add up to no more than the request timeout
  (`AnswerInTime`), which is where the assumption is used and the only place.
- `BothOrNeither`: `AgreeInv` says of each side that it has spoken after its last pair
  packet (`SpokeLast`), that a side which was told it is not paired heard it or is about to
  (`ToldInVain`), and that one which is paired alone and has spoken will be told
  (`WillHear`).
- `GateIsInOrder`, from `InputIsAnnounced` and `EarlyIsReplayed`: `GateInv` lists every
  place in which input that passed the gate, or an
  id that would let it pass, can be, and says that a request was announced by then.

`StoreProofs`, on `CertStore` and `Share`:

- `IdentityStays`: `IdentityInv` says which file operations are left in every phase of a
  start (`OwnOp`), and that a file with none left names the daemon's id.
- `PinsFit`: `PhoneInv` orders the writes of PEM and pin against each other.
- `DownloadsAreWhole`: `ShareInv` ties a job to its request and its file; two jobs never
  have a request in common, and a file that no job holds is as long as its request said.

`ServiceProofs`, on `Routing`, `EventStream`, `PluginNotices`, `Dialling`, `Api` and
`PhoneData`:

- `IndexExact`, for one task that registers (`RtSequential`: `load_all` registers the
  plugins in a loop). Between the two locks of a call exactly its own plugin is out of
  step (`RtOwed`). `FanOutEnds` needs no such hypothesis.
- `ViewFollows`, for any number of tasks that change and announce a device. As long as the
  latest change is not announced, it carries the present state; once it is, and no older one
  came behind it, the last event in the channel does, and then the client's view (`SseInv`).
- `StateGoes`: `NtcInv` says that the link in the slot is the last one and its task has its
  notice still to give, and that the task of the link which wrote plugin state has its notice
  still to give or ended without one, or the last link's task has or did.
- `NoCookieLost`: `CookieInv` adds that cookies are numbered by generation, so that
  a task that stores or gives back a cookie cannot mean another one.
- `MarkedDialsExclude`: the pending mark is set exactly while an announcement or a
  reconnect loop dials, and one does at a time. `MarkInv` also needs that the API's
  dial and accepted links never reach the marked positions.
- `RefusalsEnd`: a window never moves while it is open, so it is no younger than the
  first refusal in it (`LimiterInv`).
- `PagesCutRight`: the saturating product and sum of `render_device_list` cut the
  page out exactly, for every page and limit a `usize` can hold (`PageOfList`).
- `NewestStays`: exactly one thread has the newest date (`PdHolds`), and the eviction takes
  one whose newest message is oldest (`PdSpared`).

`CaptureProofs`, on `InputCapture`, `PortalSession` and `Barrier`:

- `SessionsAreOne`: one activation at a time, which owns the empty slot until it has
  stored its session (`CapOne`); a session the portal still has is with that activation,
  in the slot, or with an actor about to close it (`CapHeld`).
- `ArmedForSomebody`: a session armed for nobody is about to be looked at (`CapNoticed`):
  every path by which the last peer leaves has a step ahead of it that reads the peers.
- `SessionsAreClosed`, `SignalsAreHeard`: owner and match rules by the phase of a start.
- `BarrierOnBorder`: a barrier that is out of date is followed by a signal that says so
  (`BarFollows`); the edge is the first of the zones with the largest coordinate, which is
  what the fold of `plan_barrier` computes (`BarFirst`).

`PluginProofs`, on `Sftp`, `Clipboard`, `PauseMusic`, `Alarm`, `Tablet` and `Notification`:

- `LateCleanupsSpare`: whoever holds the mount lock runs a command and no other command
  runs (`SfTurns`), until a dropped request has left its command behind, which the property
  excepts.
- `ClipboardSettles`: a text on the clipboard is stored, is the last of what is under way,
  or is about to be read or replaced (`ClpConverging`).
- `CallsEndResumed`: a player that a phone's call holds is in its record, in the hands of
  its handler, or about to be played (`PmPhoneInv`).
- `MuteRestored`: `MuteInv` gives the mutes by the position of the ring task.
- `PaceIsKept`: the remainder is what rounding left (`RoundNear`).
- `PopupsInReach`: a popup that is shown is in the live table, in the shadow while that is
  in time, or in the hands of `on_disconnected` (`NtReached`). That a disconnect overwrites
  none of the ways to it needs `NtCovered`: a live entry has the id of what was collected
  before it; and `NtApart`: no two notifications share an id.

`CompositionProofs` conjoins the specifications of components that share no variable: a
behaviour of the daemon is one of each component with steps of the others between. From
the theorems above, `RegistryIsTrue`, `CertificatesAreKept`, `PeersAreWhoTheySay`,
`PluginsAreServed`, `CaptureIsTied` and `DesktopIsRestored` are the themes of the runs
`services` and `plugins`.

Statements by induction over the length of a sequence (the edge of the barrier, what is
left of a filtered index) take the set of lengths for which they hold and show that it
contains 0 and with a number its successor; that is as far as the provers go, and a
statement about what a fold computes for every operator is out of their reach.

Only model-checked:

- all liveness, and `ENABLED`;
- the properties of `pairing_sequential`, see above;
- `KeysComeUp` (folds over bursts of key events), and so `InputCarriedOut`;
- the mirrors of players, sinks and contacts (`DesktopMirrored` beyond the clipboard,
  `PhoneMirrored` beyond downloads and messages);
- the type invariants of the theme runs.

## Not modelled

- TLS and cryptography: certificates and keys are values, a verification key is the
  triple it is computed from.
- Plugins without state (`ping`, `findmyphone`, `remotekeyboard`, `tool`, the
  loader): one packet in, one out.
- The command line, configuration, pages, serialisation, OpenAPI text, logging:
  sequential text processing.
- Encoding of datagrams, socket set-up and interface enumeration; the port search
  of the listener; statistics.
- In the plugins: metadata and album art of players, fields of vCards, attachments
  of messages, actions of and replies to notifications, key symbols, parsing of
  `pactl` output, detection of clipboard tools, the text and URL variants of share.
- `set_own_device_id` with its purge, the test-only `force_accept_pairing`.
- The write of a registry save that was dropped with its request and goes on in the
  background while the next save uses the same temporary file.
- Errors the code only logs and that change nothing a property sees: a failed emit of the
  virtual pointer and tablet, a failed removal of a discarded download. A notification's packets are handled one at a time per phone.
- Unit tests, which are most of the lines of many source files.

## Plan

1. Abstract specification of the trust store (pair and unpair as single steps),
   refined by `Pairing` for one task.
2. `Dialling` and `Links` in one instance: the generation a reconnect loop holds
   against the slot it finds.
3. Attachments and notification actions, once they have a property of their own.
