# A TLA+ model of the remote desktop engine

This directory holds TLA+ specifications of the engine, from the identity file
of a machine and the PIN on its screen to the pixels in the viewer's window and
the keys on the host's keyboard. TLC checks them on small instances, TLAPS
proves their safety properties for every value of the constants. Paths below are
relative to `crates/` unless they begin with `app/` or `docs/`.

## 1. Inventory

| Component | State it keeps | Operations | Interacts with |
|---|---|---|---|
| Authorization (`rda-host/src/session.rs`) | session state, requested and consented capabilities, grant, PIN verifier, pending key | consent, PIN round, confirmation, token, restrict, close | address book, token store, audit log |
| Credentials (`rda-crypto`) | PIN with attempts and expiry, revocation list, pinned keys, identity file | generate, respond, confirm, issue, revoke, prune, verify, pin, load or create | called by authorization, by the handshake and at start-up |
| Injection (`rda-input`) | held keys, rate windows, combination policy, who has control, shared displays | apply (seven payloads), takeover, release-all | operating-system backend |
| Viewer (`rda-client`) | keys and buttons last reported, sequence counters, letterbox, frame slot | window loop, forward input, receive video, ask for keyframes, report quality | data channels |
| Host loop (`rda-host/src/serve.rs`) | displayed PIN, session being set up, stream state | wait for a caller, negotiate, authenticate, drain input, send video, adapt | everything on the host |
| Negotiation and handshake (`rda-session`) | buffered candidates, early frames, readiness on both sides | dial, accept, pump, Hello ... SessionReady | signaling connection, peer connection |
| Signaling server (`rda-signal-server`) | presence by device, sessions by id, per-connection challenge and limiter, the fleet of relays | register, dial, answer, forward, tear down, rank relays | one task per connection, shared tables |
| Signaling client (`rda-signal-client`) | inbox, outbox | connect, send, receive | server |
| Transport (`rda-transport`) | peer connection, eight data channels, pushed-back frames | send, events, hand back, cap relays | webrtc-rs |
| Wire protocol (`rda-proto`) | none | encode, decode, fragment, parse and group identifiers | every peer |
| Capture (`rda-capture`, `rda-host/src/capture_thread.rs`) | latest frame, permit of the consumer, failures in a row | publish, receive, restart | streaming task |
| Encoding (`rda-encode`) | directive, encoder with its size and flags, time of the last keyframe | convert, scale, step, rebuild, recover | host loop |
| Decoding (`rda-decode`) | partial frames, jitter buffer, parameter sets, session | reassemble, expire, push, poll, decode | viewer, C ABI |
| Telemetry (`rda-telemetry`) | loss window, bitrate estimate, ladder rung, sequence tracker | sample, update, report | both ends |
| C ABI and Flutter application (`rda-ffi`, `app/lib`) | client handle, frame buffer, pending move, keys held, uploads, stall warning | encode input, poll and upload frames, focus, heartbeat, dispose | decoder, engine |
| Network simulator (`rda-netsim`) | packets in flight, loss state, statistics | send, poll | tests only |

Hard behaviours, and where they come from:

- **Concurrency.** Every signaling connection is a task over shared tables that
  lock one access at a time; a handler is atomic only between two accesses. The
  capture thread and the streaming task meet in a one-frame slot.
- **Two paths between the same peers.** What goes through the signaling server
  and what goes over SCTP overtake each other.
- **Several readers of one queue.** Negotiation, handshake and stream loop take
  turns at the events of a transport, and hand frames over.
- **Left-overs.** The host serves one session after the other from one inbox;
  a session inherits whatever the last one did not read.
- **Loss and reordering.** Pointer moves carry modifier masks over an unordered
  channel without retransmission, key events an ordered one; fragments of
  frames are lost, late and interleaved.
- **Crashes.** The identity file is created, written and read in several calls.
- **Timeouts and retries.** Every wait of the set-up has one, at each end its
  own, and the viewer retries with the PIN it was given.
- **Partial failure.** The backend may refuse one call of a batch; an encoder
  drops a frame, or cannot be rebuilt.
- **Limits.** PIN attempts and lifetime, token expiry, rate windows that restart
  instead of sliding, the key table, the audit log, partial frames, the queue of
  the jitter buffer.
- **Two pieces of code that agree by hand.** Encoder and decoder of the wire
  format, of the bitstream, of planes with padded rows, of a pointer position.

What makes each component correct, in short: a grant exists only for a peer that
proved itself and never exceeds what was consented to; a PIN the host drew opens
one session;
the address of a machine survives restarts; a key the peer no longer holds does
not stay down; a session-scoped message only ever passes between the two
participants; presence names only live connections; nobody speaks on a channel
the other side has not opened; what is sent reliably is read in order; frames
are shown whole, in order and once; a viewer that says it has no picture gets
one; every loss is counted and the picture changes its size only for a reason that lasted.
`PROJECT.json` lists the hazards line by line with the properties that would
notice them.

## 2. Modules

| Module | Models | Used by |
|---|---|---|
| `AuthorizationGate` | what authorization promises: asked once, admitted at most once and within the request, only narrowed, over for good | refined by `HostSession` |
| `HostSession` | `session.rs` with PIN, binding, tokens, address book, audit log | `MCHostSession` |
| `KeyFile` | `keystore.rs`: the identity file under crashes, failing calls and two processes | `Connection` |
| `SessionSetup` | the serve loop's PIN, the viewer's attempts, the handshake between them | `Connection` |
| `Registration` | one signaling connection: challenge, limiter, acknowledgement, teardown | `Connection` |
| `Dialing` | identifiers as typed and as parsed, the ranking of relays and their credentials | `Connection` |
| `Transport` | one direction of a peer connection and its three readers | `Connection` |
| `RateWindow`, `RateGuard` | `grant::Window`, and `RateGuard::allow` over time | `Injector`, `Connection` |
| `Connection` | the six above side by side | `MCConnection` |
| `SignalServer` | all connection tasks over the registry | `MCSignalServer`, `MCConnection` |
| `Negotiation` | the host's wait loop, both sides' negotiation, the first exchange of the handshake | `MCNegotiation` |
| `Injector` | `Injector::apply`, key state, takeover, the backend's keys | `InputPath`, `MCInjector` |
| `InputPath` | viewer window, both input channels, the drain of the host loop, composed with `Injector` | `MCInputPath`, `MCInput` |
| `AppInput` | the Flutter input layer with the encoder of the C ABI | `MCInput` |
| `CaptureThread` | capture thread, latest-frame slot, macOS backend | `MCMedia` |
| `Planar` | `convert.rs` and the copies of planes: BGRA to NV12 and I420 in Q16 arithmetic | `Screen` |
| `AnnexB` | the bitstream and the parameter sets between the two VideoToolbox backends | `Screen` |
| `Picture` | scaling, letterbox, and the way of a pointer position back to the host | `Screen` |
| `Screen` | the way of the picture: the conjunction of the three above | `MCMedia` |
| `RateControl` | loss window, bitrate estimate, ladder, directive, rebuilds | `MCMedia` |
| `WireFormat` | `control.rs`, byte by byte | `MCMedia` |
| `NetSim` | `LinkSim` of the network tests | `MCMedia` |
| `LinkReport` | one counter for pings and fragments, `SequenceTracker`, QoS reports | `MCMedia` |
| `Reassembly`, `JitterBuffer`, `Playout` | fragments to frames, frames to deadlines, and their composition in the viewer's loop | `MCMedia` |
| `Recovery` | keyframes: encoder, lossy channel, decoder, requests, limiter | `MCMedia` |
| `AppCanvas` | client handle, frame buffer, uploads and stall warning of the Flutter canvas | `MCMedia` |
| `Listing` | the elements of a finite set of numbers in ascending order, as loops over lists need them | `Dialing`, `AnnexB`, `SequenceFacts` |
| `SequenceFacts` | what the proofs have in common: sequences, ranks, orders, induction over the naturals | the `*Proofs` |
| `HostSessionProofs`, `NegotiationProofs` | theorems about the module they are named after | |
| `ConnectionProofs` | theorems about `KeyFile`, `SessionSetup`, `Transport`, `RateGuard`, `Registration`, `Dialing`, their composition `Connection`, and `SignalServer` | |
| `InputProofs` | theorems about `Injector`, `InputPath` and `AppInput` | |
| `MediaProofs` | theorems about `CaptureThread`, `RateControl`, `LinkReport`, `Recovery`, `NetSim`, `Playout` (with a lemma for each operation of `Reassembly` and `JitterBuffer`) and `AppCanvas` | |
| `ScreenProofs` | theorems about `Planar`, `AnnexB`, `Picture` and `Screen` | |
| `WireProofs` | the theorem about `WireFormat`, with a lemma for each payload | |
| `MC*` | constants of the small instances, and the runs that put components side by side | |

`MCInput`, `Connection` and `MCMedia` each hold several components that share
no state. A variable `part`, chosen at the start, names the one whose steps a
behaviour takes; the others keep an initial state. `MCConnection` puts the server
beside them in the same way (`routing`), and `scenario` of `MCHostSession` keeps a
behaviour to one of two parts of a larger instance. The run therefore checks each
component by itself, and says nothing about how two of them interact: that is
what `InputPath` (viewer, channels, injector), `Playout` (reassembly, buffer),
`Recovery` (encoder, channel, decoder), `SessionSetup` (host, viewer, handshake)
and `Negotiation` (host, controllers, server, transport) are for.

### HostSession

One variable per field of `HostSession`, indexed by session, and one per shared
store. Each method is one action per outcome, in the order of the code's checks:
`complete_pin_auth` is `ConfirmationFails`, `PeerKeyChanged`, `PinBindingFails`,
`CompletePinAuth`. What the peer may send is nondeterministic: any tag it could
compute or echo, any key, any proof. Cryptography is reduced to what the code
compares. Keys and device ids are distinct sets, because a device id is a
truncated digest. Times are abstract units; the token's seconds and the
session's milliseconds run on one clock. `proved`, `redeemed` and `withdrawn`
are history variables that no action reads. `HostSession` is a library of the
host crate; the shipped loop in `serve.rs` reaches the same credentials through
`rda-session/src/auth.rs`, which is `SessionSetup`.

### KeyFile, SessionSetup, Registration, Dialing, Transport

- `KeyFile` has one action for each call to the file system; a process may stop
  or meet an error between any two. `raced` records that two first runs
  overlapped, the one case the code does not defend against.
- In `SessionSetup` a PIN is the number of its draw. Each side walks through the
  handshake message by message; any wait may time out at either end without the
  other being told. `Negotiated` is the success of the negotiation, otherwise
  the business of `Negotiation`. `opened` is a history of PINs that were let in.
  `fixedPin` is the option `--pin`, with which `mint_pin` returns the same digits
  every time: one PIN then opens any number of sessions, as `serve.rs:56` says.
- `Registration` splits `handle_register` between the insertion into the
  registry and the acknowledgement, because other connections put envelopes on
  the queue in between. When the server leaves a connection it sends what is
  queued and nothing else: no close ever reaches the client (`left_open`).
  `arrivals` holds when each message was read, to
  state what the limiter owes the client.
- `Dialing` writes identifiers as sequences of characters, since folding look-alike
  characters is what the code does there; a relay is a number in the order
  of the codes by which the code breaks ties. The ranking is the sequence that
  the order of the code's comparison determines.
- In `Transport` the streams of SCTP interleave freely and are each ordered if
  reliable; negotiation reads the raw queue and hands its frames back in front,
  the handshake drops frames of other channels.

### RateWindow, RateGuard, Injector, InputPath

Usages are numbers, since batches go to the backend in ascending order. `osDown`
is what the operating system believes; `held` what the program believes; the
whole point is how they can differ. A step that calls the backend takes a set
`F` of usages for which a call fails: always those without a platform code,
sometimes those of `MayFail`. `clean` records whether that ever happened or a
press met a full table. A refused frame whose refusal precedes the rate limiter
is a stuttering step. `WindowLoop` is one iteration of `viewer::run` together
with the forwarding by the session task: both are FIFO, so their composition is.
`input-k` is a sequence, `input-p` a set from which moves are delivered or lost
in any order. `EndStream` is every way out of `serve::stream`.

### AppInput, AppCanvas

Dart is single-threaded: a callback is one action, and `_onTick` is split at its
one await. `AppInput` follows a frame from the layer through the encoder, with
its coalesced pointer move, to a host that applies what arrives in order.
`repeated` holds the keys that reached the host as a repeat only; `KeyboardsAgree`
makes an exception for them (section 6). In `AppCanvas` the transport that will
call `rda_client_submit_frame` is not wired up in this repository: `SubmitFrame`
is its caller.

### SignalServer, Negotiation

Atomic steps of `SignalServer` are single table accesses: `Resolve` and
`CreateSession` for a dial; `Unregister`, `RemovePeer` and `Sweep` for a teardown.
A connection is single-threaded, so it reads its next frame when its handler has
returned (`Ready`). `sent` holds what the last step put on queues: the
properties are about each message, not about backlogs.

In `Negotiation` a controller dials once and is named by its session. Its
failure, or its user's patience, is `ControllerLeaves`, possible at any time;
the host's is `HostGivesUp`. `link` and `LinkUp` stand for webrtc-rs. From the
comment on `Session::unopened_channels`, a channel that receives data before it
was opened never opens: `AllOpen` is then disabled.

### The media modules

- `CaptureThread` splits `publish` into count, replace, notify and `recv` into
  test and wait. A `Notify` keeps one permit.
- `Planar` computes offsets and strides as the code does and samples with its
  integer arithmetic; the reference is exact arithmetic over the pixels of a
  cell: a luma to one code value, a colour difference to two, and to three in
  limited range, where the division truncates towards grey. A byte of an output
  that nothing wrote to is `Unwritten`.
- `AnnexB` puts units together and takes them apart byte by byte: start codes of
  three and four bytes, frames that are lost, resets, changes of the parameter
  sets. When a session cannot be built, malformed sets are kept and the next frame
  tries again; an unavailable decoder is reset. Of a NAL unit it assumes what the standard says (`IsUnit`): it is not
  empty, has no start code in it and does not end in a zero byte.
- `RateControl` keeps the code's thresholds. Filters are integer arithmetic.
- `WireFormat` has one layout for each payload with a fixed one. A text is its
  UTF-8 bytes, cut at the start of a character where it is too long. CBOR bodies
  are opaque. Between the ends a frame loses its end or gains one, as between peers
  of different versions. A stub is refused, except a Pong that lacks one or both of
  its reserved bytes: `decode_payload` does not ask for them (section 5).
- `LinkReport` knows a fragment by its place in all that was sent; on the wire
  it is that place modulo `SequenceSpace`, which the run makes small. A number too
  far ahead makes the tracker start afresh and hides what it passed over; `leapt`
  records that this happened.
- `Reassembly` and `JitterBuffer` are records and operators; `Playout` is one
  turn of the viewer's loop: at most one fragment, then a poll.
- `Recovery` has both decoders, the software one and that of VideoToolbox, the
  flag for a forced keyframe, rebuilds for another size, and the limiter. A frame
  that cannot be decoded is `refused` with an error, and the viewer asks for a
  keyframe, or `swallowed`: `Ok` without a picture, from openh264, or from a
  VideoToolbox error that only the callback sees. Nothing bounds how often.
- `Picture` computes with quotients of integers where the viewer uses `f32`, and
  with the display's scale in thousandths, as the code does. The display's origin,
  which `denormalise` adds, is left out: it moves both sides alike. The
  cursor may be up to two points beside what is under the pointer: the position
  is rounded to 16 bits, scaled by the width less one, and truncated. `NORM` is
  `u16::MAX` in the code and small in the run, so that this rounding shows.
- `NetSim` leaves chances open and keeps everything else. What is in flight is a
  set, since `poll` sorts what it takes out by time and sequence (`ByTime`).

## 3. Runs

| Run | Instance | What it shows |
|---|---|---|
| `host_session` | PIN: two sessions, two keys with one device id, no token. Token: one session, two keys with two ids, one jti. One capability, log of two entries, clock 0..2 | grants exist only in established sessions, within consent or token, only for peers that derived the key; one round per PIN; the log agrees with the grant; refinement of the gate; pruning never lets a revoked token back in |
| `input` | path: one key, one modifier, three window iterations, a blocked chord, a reachable key limit. Injector: five keys (ordinary, unmapped, unknown, two modifiers), table of two. Layer: a key and both sides of a modifier, two buttons | differences between the ends are always under way; keys go up; tracked keys are the pressed ones; the local user wins; the table is bounded; the Flutter layer, its heartbeat and the host agree |
| `negotiation` | two controllers, one host | no early data; no candidate and no early frame lost; each session accepted once |
| `connection` | two processes on a key file; two viewers, two attempts each, one refresh; a connection with limit 2; two channels of two frames; nine ways to type two identifiers, four fleets, six probe vectors; two windows of the rate guard; a host with two connections, a controller, a stranger, one session of the server | routing, presence, departure; the address survives; one drawn PIN, one session, and any PIN known to both ends; the set-up ends; `connect` returns, because every refusal sends an error first; a client within the limit is never closed; reliable frames are read in order, and are read; a typed identifier reaches its device over the cheapest relays; at most twice the limit in any window's length |
| `media` | three frames in the slot and two restarts; screens of 1 to 4 by 1 to 3 pixels; eleven frames of NAL units, three pairs of parameter sets; five units of rate control; one message of every type with fields at their boundaries; three packets; seven numbers modulo 6; three frames of up to two fragments; two rebuilds, faults and requests; three screens of scale 2, 1.5 and 1 in three windows; four pictures | no lost wake-up; pixels, units and bytes arrive as they were; rungs are earned; losses are counted; frames play whole, in order, once and soon; a picture returns to a viewer whose decoder reports errors; the pointer is where the user points; the canvas never goes back, and stalls are shown |
| `takeover` | the injector without a refusing system | **violated**: a key pressed while the table is full is not tracked, and a takeover leaves it down |
| `input_teardown` | as the path of `input` | **violated**: the end of a session releases nothing |
| `evicted` | a host with two connections, a controller | **violated**: a teardown removes the registration that replaced it |
| `readiness` | two controllers, one host | **violated**: a peer may leave the pump unannounced |
| `phantom_loss` | seven numbers modulo 6, one ping | **violated**: a link that loses nothing is reported as lossy |
| `left_open` | a connection with limit 2 | **violated**: the server leaves a client, and never closes its socket |
| `silence` | one fault, one rebuild | **violated**: a lost keyframe, a decoder that says nothing, and a viewer that never asks |

The seven violated runs each check one sentence of a comment or a document
against the code; `PROJECT.json` quotes it under `findings`.

**Bounds.** Two sessions suffice where sessions share stores: every shared store
is touched by one session at a time. Two keys with the same device id are the
least for a changed key. Capabilities do not interact, and one is enough for a clamp
to keep it or to drop it. Clocks run past every expiry by one. A key table of two fills up; a rate
limit is reached within the clock, and `GuardTime` covers two windows and a
restart between them. `MaxFrames` = 3 lets a key go down, up and down again.
Four connections let a device reconnect while its peer and a stranger act. Two
sessions in `Negotiation` are what left-overs need, two viewers in `SessionSetup`
what a PIN used before needs. Three frames are the least for one to be overtaken
by two; a store of one partial frame and a queue of two overflow. `SequenceSpace`
= 6 wraps within seven numbers, keeps `MAX_REORDER` = 2 below half of it, as in
the code, and leaves room for a number that is neither near the head nor late. Two faults let a keyframe and its successor be lost;
what a decoder swallows is not a fault and has no bound. Sides of one to
three pixels are odd and even, and have cells of one, two and four pixels.
`NORM` = 17 is one more than the widest screen, about the least the module's
assumption allows, so that neighbouring positions fall together on the wire.
Beyond these bounds the safety of every component is proved (section 4).

**Deadlock** is not checked: clocks, window iterations, connections and session
ids are finite, and sessions really end.

**Fairness** is weak throughout, and stated for what the code or its runtime does
by itself, never for what a user, the peer or the network may do:

| Specification | Fair | Why |
|---|---|---|
| `InputPath` | `DeliverKey` | the drain of a running stream loop takes every frame that arrived, and SCTP delivers a reliable channel; nothing is promised once the stream has ended |
| `SignalServer` | each `Teardown` | a function without an await that runs when the socket ends |
| `Registration` | the reads of both tasks, the acknowledgement | tokio runs a task whose socket is readable |
| `SessionSetup` | the deadlines, the pause before a retry, the reading of a request | `pump`, `STEP_TIMEOUT` and `sleep` are timers; a session itself may last for ever |
| `Transport` | the readers; delivery on reliable channels | every reader awaits the next event |
| `Recovery` | encoding, the host's reading of requests, the viewer's turn, time | both loops run on timers; a screen that changes is encoded. Faults are bounded: the claim is about what happens after them |
| `AppCanvas` | tick, telemetry poll, time, the end of an upload | the ticker and the timer run while the screen is mounted, and the engine completes every upload |

`Negotiation`, `HostSession` and `Injector` have no liveness property: every
wait in them may be ended by a person or a deadline.

## 4. Proofs

Every theorem is for arbitrary constants under the named assumptions of the
module that declares them: types, that values such as `None` or `NoKey` are none
of the others, that modifiers are the greatest usages, that a limit is positive,
that a message holds what its Rust type can hold, that a NAL unit is one.

Each safety theorem is `Init => Inv`, `Inv /\ [Next]_vars => Inv'` and
`Inv => Property` for an inductive invariant `Inv` that is stronger than the
property. What follows says what it has to add, which is the reason why the code
is right.

- **`HostSessionProofs`.** The inductive invariant `IInv` is the properties and
  `ConsentRecorded`: no consented set before the user answered; one, and a PIN
  without an attempt, while authenticating; and a consented set always within
  the request. Without it nothing says that the set `complete_pin_auth` grants
  exists or was asked for. `WithdrawnTokensStayOut` rests on a second invariant,
  `Withdrawals`: jtis are distinct, and a jti ever revoked is still listed or its
  token has expired, which is why `prune_expired` may forget it.
  `AuditFollowsGrants` is about positions in a log that drops its front when it
  is full: one entry moves every other one by at most one place, and the entries
  of a session keep their order. `ImplementsGate` maps each action to `Ask`,
  `Admit`, `Narrow`, `End` or a stutter, using `IInv` where a grant is given.
- **`NegotiationProofs`.** The invariant describes what the inboxes may hold.
  `CredentialsOnce`: the credentials of a session come once, and the host needs
  them to accept it, so that it accepts once. `ReadinessIsTrue`: an announcement
  that a controller has taken or will read is true of the host's channels to it;
  the host may take one left over from another session, but it speaks second, to
  a controller whose Hello shows that its channels are open.
  `AnswerFirst`: in the inbox of a controller the answer comes before the
  candidates, which is why it may go without a buffer for them. `HelloInHand`
  follows an early Hello from the channel through the hand-over to the handshake.
- **`ConnectionProofs`.** `AddressesSurvive` needs to know who is writing:
  `OneAtATime` says that without a race at most one process is between its look
  at the file and its last line, and that the file is then not complete.
  `PinsOpenTheirSessions` needs that the PIN on the screen has opened nothing but
  the session that is streaming (`OpenedAreOlder`), that a confirmation of the
  attempt under way is made with the PIN its viewer was given
  (`ConfirmsArePersonal`), and that both ends of a handshake are in one session.
  `ReliableChannelsStayInOrder` says of each reliable channel that what was read,
  then what was handed back or is queued, then the stream, are the numbers from
  1 to the last one sent. `GuardLetsThroughTwice` and `QuietClientsStay` are about
  restarting windows: the events counted in the current one are the last of all,
  and those before them came before it began. `CallsAreRight` is about what a call
  is made of: `DialingInv` says that the peer is what was read in the text, and that
  what was minted is for this peer and the fleet the server knows. A text and an
  identifier are related symbol by symbol, through the separators and the
  look-alikes that are folded; and the ranking lists the relays in the order of
  the code's comparison, so that none left out is cheaper than one that is in.
  `CallsAlwaysReach` takes the parts to their composition: a step of another
  component leaves the variables of this one alone. Of `SignalServer`,
  `OnlyParticipants` needs `NoGhostPresence` (presence names a connection of the
  right device, so that what is sent to a participant reaches it) and
  `DialsItsTarget` (the queue a dial holds belongs to the device it resolved, even
  if that has reconnected since).
- **`InputProofs`.** `HeldIsDown` is inductive with the type invariant: a batch
  without a fault is performed completely. `LocalUserWins` needs that the key
  state is empty while the local user has control; `BoundedTable` is an argument
  about cardinalities of finite sets. `InputDifferenceIsInFlight` extends this
  invariant over the channel: the last frame about a key that is under way tells
  the truth about the viewer (`LastFramesAreTrue`), and with none under way the
  host has the viewer's state or has refused it (`KeySettled`).
  `KeyboardsStayTogether` needs `NothingHeldAway` (nothing is held without the
  focus, so that a release outside the layer leaves nothing behind), `NoDeadTimer`
  (a cancelled timer is left behind by the disposal only) and the lemma
  `MaskKeepsHeldKeys` about `reconcile_modifiers`.
- **`MediaProofs`.** `SlotHandsOver`: that no wake-up is lost rests on
  `ArmedIsCovered`, by which a consumer about to wait beside a full slot has a
  permit or a publisher that has yet to notify. `RateStaysSteady` is an action
  property: the rung that is waited for was recommended without a break since
  the waiting began. `LossesAreCounted` follows the tracker's counters to the
  newest number (`TracksTo`); it needs that the reordering window is less than
  half of the sequence space. `DecoderStaysCurrent` needs `KeyIsCurrent` (the last
  keyframe under way, with no loss behind it, is of the encoder that is running) and
  `ReferencesAreCurrent`, its counterpart when none is. `SimulatorIsHonest`: no two
  packets in flight have one sequence, so sorting them is a bijection with their
  ranks (`ByTimeOf`); none in flight comes before what was collected, also when one
  is pulled forward; and what `lastDelivered` remembers is the highest sequence
  collected, so that what one poll counts is what the whole history shows.
  `PlayInv` relates reassembler, queue and decoder by one set, the timestamps of
  the frames of which every fragment arrived (`WholeOf`). Only these leave the
  reassembler (`AcceptOf`), wait in the queue and were played; the queue is sorted
  by time and by deadline at once, also after an insertion in its middle raised
  the deadlines behind it (`RaiseDeadlinesOf`, `InsertOf`), and it is ahead of what
  was played (`PollOf`, `PushOf`). `CanvasInv` of the Flutter canvas: what waits in
  the client's buffer comes after what was played, at most one upload is under
  way, and none is of a picture older than the one shown, whoever finishes first.
- **`WireProofs`.** `WireInv` says that the frame and the encoding of its message
  agree up to the end of the shorter, and by how much their lengths differ.
  For each payload there is a lemma of what decoding reads of such a frame: what
  was written, if all of its bytes are there and whatever follows them; a refusal,
  if one is missing, or the message as it was where only reserved bytes are. A
  body that is carried unread is read back from whole frames only. Texts that are
  too long are cut, and the cut is a sequence of whole characters.
- **`ScreenProofs`.** `PlanarInv`: the rows that are written hold what their pixels
  give, and a copy holds what the planes hold, each at the place of its row in
  rows with padding; that no two samples share a byte is the uniqueness of
  quotient and remainder. The colours are bounds on integer arithmetic: with the
  coefficients of either matrix the weighted sum is within 0.51 code values of the
  exact one, and a difference within the two or three that `DifferenceIsTrue`
  allows. `StreamInv`: a frame under way is its slices behind start codes, with
  the sets of a format in front of them or none, and a session has been built from
  the sets the decoder holds. That the slices are found again rests on streams
  laid out frame by frame (`Framed`): length prefixes become start codes
  (`AnnexBOfAvcc`), the scan finds a start code where a frame begins and none in
  between (`NoCodeInside`, `CodesFound`), so that it splits the stream into its
  units (`SplitOf`), also when two streams were joined (`FramesJoin`). What the
  recursive functions of the model compute is proved by showing that a function
  with the recursion exists (`FlatteningExists`, `FromExists`, `CodesExist`), by
  induction on its domain. `PictureInv`: the cursor is where the last movement of
  the pointer put it; the rest is a chain of inequalities between quotients, from
  the place in the window through letterbox, 16 bits and display.
  `ScreenStaysShown` is the conjunction of the three.
- **`SequenceFacts`.** The library's induction theorems take an operator as a
  parameter and cannot be used here. `InductionOverNat` states induction of a set
  of naturals instead; `LeastNatural`, `LeastAndGreatest` and `RankOf` (the
  elements of a finite set of integers have the ranks from 1 to their number)
  give the loops and sorted lists of the models their meaning, with the same for
  any strict order (`SortedHas`), for the list of a set (`AscendingOf`) and for
  sequences that are joined (`JoinOf`).

Only model-checked is liveness, which is out of this prover's reach: `KeysGoUp`,
`DepartureEndsSessions`, `ConnectEnds`, `SetupEnds`, `ReliableArrives`,
`ViewerGetsItsPicture` and `StallsAreShown`. So are the seven runs that find a
violation. `ViewerGetsItsPicture` says that a picture returns or the decoder swallows
everything from some time on, in silence; that this second case happens is `silence`.

## 5. Divergences met while modelling that have no run

Between documents and code:

- `docs/PROTOCOL.md:493` asks tokens to rotate on use; `TokenStore::verify` never
  replaces one.
- `docs/PROTOCOL.md:63` wants a payload below the minimum of its type rejected, and
  line 599 gives a Pong eight bytes; `control.rs:1068` reads the six it uses, and
  accepts six or seven.
- `docs/PROTOCOL.md:627` asks a receiver to discard stale moves by sequence;
  `serve.rs:472` applies every frame, and `SerialTracker` in `seq.rs` is unused,
  as is `MalformedCounter` (`docs/PROTOCOL.md:638`).
- `rda-input/src/state.rs:10` counts on a 250 ms `KeyStateSync` heartbeat; the
  viewer of `rda-client` never sends one, so a refused key release stays.
- `rda-input/src/grant.rs:183` calls the rate guard a sliding window; it restarts,
  hence the factor of two in `AtMostTwiceTheLimit`.
- `negotiate.rs:136` says that the acceptance and the credentials are both needed;
  the credentials carry the session id and end the wait alone, so that a refusal
  may come too late to be seen.
- `serve.rs:223` says that whatever PIN is displayed is valid; the refresh happens
  only when the inbox has been silent for ten seconds.
- `rda-client/src/session.rs:68` says of two errors that "Both clear on a retry";
  the retry uses the PIN of the first attempt, and the host draws a new one for
  every session it begins.
- `rda-client/src/session.rs:160`: "Closed explicitly on every path", yet a failed
  authentication returns without `session.close()`.
- `rda-signal-client`: `connect` "Returns once `register_ack` arrives"; an
  envelope queued between the registration and the acknowledgement makes it fail.
- `capture_thread.rs:8` promises to survive a change of resolution. The restart
  uses the geometry enumerated at the start (`macos.rs:217`), and the next frame
  is refused again, for ever. `capture_thread.rs:23` tolerates five errors; one
  failed restart ends the thread.
- `rda-telemetry`: "Descend after 2 s of sustained pressure"; a target that flaps
  between two worse rungs restarts the wait each time.
- `relay.rs` says that an empty domain "produces zero ICE servers"; one STUN entry
  without URLs is always pushed. A relay that both measured above `UNMEASURED`
  ranks behind those nobody measured.
- `avcc_to_annex_b` passes Annex B through unless its bytes parse as AVCC.
- `convert.rs` calls two ways of averaging "arithmetically identical"; they differ by
  rounding.
- `rda-ffi/src/input.rs:10`: the last of the coalesced moves is kept until the next
  event; nothing flushes it when no event follows.
- `input_layer.dart:17`: "Everything is released when focus is lost." A repeat does
  not enter `_held`, and `_releaseAll` returns early when that is empty.

Within the code:

- `state.rs:57`: a press that meets a full table is injected and not tracked, so
  that no release-all undoes it. A `KeyStateSync` may name usages without a
  mapping; they enter the key state, and the batch stops at them.
- `negotiate.rs`: `pump` compares no envelope's session with its own.
- `session.rs:313` pins a first contact before its binding is verified.
- `session.rs:388` compares the subject of a token with the identity it was handed,
  and `session.rs:397` verifies the binding by the key inside the proof, of which
  it asks only that it has the identifier of the peer. Nothing compares the two keys,
  so that the proof may be made with another key than the one the token names.
  `session.rs:365` says that "the binding proof still has to verify against the
  identity key the token names", and `docs/PROTOCOL.md:495` that the controller
  must "prove possession of the private key matching `sub`". The model has both
  tests as they are; no property asks for more.
- `ws.rs:417` and `422`: a superseded connection skips the sweep of its sessions,
  and the sweep looks sessions up by device, after the registration was removed. A
  session created after the teardown of its participant is removed by nobody.
- `serve.rs:463`: the drain goes on as long as an event arrives every millisecond.
- `pipeline.rs:199`: a failed rebuild is not tried again, because the directive that
  asked for it is already stored. At the floor, 120 kbit/s and their error
  correction exceed an estimate of 150 kbit/s.
- `lib.rs:156` empties the key state before it calls the backend, and returns at the
  first release that fails: the other keys stay down and nothing tracks them.
- A forced keyframe that VideoToolbox drops loses its flag. A first keyframe lost on a static screen leaves
  the window blank until the screen changes.
- `SequenceTracker` takes a burst longer than `MAX_REORDER` for a renumbering and
  counts none of it, and a fragment older than the first takes back a loss that was never counted.
- The handshake's `next_frame` drops frames of other channels that it meets.
- An empty `TextInput` is encoded and refused by the decoder. A pointer is
  normalised by the width and denormalised by the width less one, and the result
  truncated, where `docs/PROTOCOL.md:658` rounds: the cursor may be off by up to two
  points. In limited range, colour
  differences below grey are truncated towards it, those above are rounded.
- `serve.rs:82`: a first run that crashes leaves a file every later run refuses;
  two that overlap may leave an address neither printed.
- `main.dart`: `_start` leaks the handle when `setPeer` throws; `_onPointerUp` always
  reports button 1; `_sendInput` and `_requestKeyframe` are stubs.
- `LinkSim` empties its bottleneck queue at once when it drains.

## 6. What the models leave open

Some properties make an exception that the code makes: `KeyboardsAgree` for keys
that reached the host as a repeat only, `AddressSurvives` for two first runs at
once, `LossIsCounted` for fragments older than the first and for everything after
a burst longer than `MAX_REORDER` (`leapt`), `PinOpensItsSession` for the PIN of
`--pin`, `ViewerGetsItsPicture` for a decoder that has fallen silent,
`WireIsFaithful` for the reserved bytes of a Pong, `RateIsSteady` for the floor
below which no video is sent, `HeldIsDown` and `LocalUserWins` for failed calls
and a full table (`clean`), `DifferenceIsInFlight` and `KeysGoUp` for frames the
injector refused (`refused`). Each exception is a history variable or a disjunct of the property, and
described above.

`TryRecv` takes the frame from the slot and counts it in one step; the code does so
in two, between which nothing reads the counter for a decision.

## 7. Not modelled, and why

Signatures, hashes, SPAKE2's algebra, the construction of the binding input, the
short authentication string, CBOR and JSON bodies: pure functions with reference
tests, and no state. Smoothed round-trip times and frame rates: floating-point
filters. The calls into VideoToolbox, CoreGraphics and the injection APIs,
ICE, DTLS and SCTP, HTTP set-up, printing and argument parsing, widgets and
forms: I/O. `ReleaseGuard`, `SyncWatchdog`, `SerialTracker`, `MalformedCounter` and
`Backoff`: nothing but their tests uses them. `signaling.rs` is the vocabulary of
`SignalServer` and `Registration`, where envelopes are their kinds.

## 8. Plan

1. *Done:* authorization, injection, input path, signaling server, negotiation,
   session set-up, registration, dialing, transport, key file, the media path,
   rate control, the Flutter application, the simulator.
2. *Done:* the inductive invariants of section 4, and with them a theorem for each
   safety property that a run checks.
3. **Compositions.** `LinkReport` with `RateControl`: what phantom losses do to the
   ladder. `Playout` with `Recovery`: expiry of a keyframe's fragments.
4. **Bodies.** The CBOR bodies of the handshake and of the display list, which
   `WireFormat` carries unread.
