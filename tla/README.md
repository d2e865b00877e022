# A TLA+ development of the NoisyTransfer protocol

This directory specifies and verifies the protocol packages of this repository:
`packages/noisyauth` (two users authenticate a session by comparing a short
string), `packages/noisystream` (one encrypted, signed, credited transfer),
`packages/transport` (the mailbox WebSocket and the WebRTC data channel under
both) and `packages/noisycache` (a sealed object uploaded to an HTTP store and
downloaded by a pool of workers). Every definition is translated from the JavaScript source; `PROJECT.json`
gives, for each of them, the lines it stands for. Line numbers in this file are
those of the source this directory was written from.

    tlc -workers 2 -config StreamOrdered.cfg NoisyStream.tla    # a model-checking run
    tlapm NoisyStreamProofs.tla                                 # a proof module

## 1. The system

### 1.1 Components, their state and their operations

| Component | State it keeps | Operations |
|---|---|---|
| noisystream sender, `sendFileWithAuth` | phase of one async function, `creditEnabled`/`credit`, `seq`, FIN attempts, `done`, abort flag | send INIT, await READY, data loop (credit gate, seal, send), READY/CREDIT listener, FIN with retries, settle |
| noisystream receiver, `recvFileWithAuth` | `state.frames`, `nextSeq`, `seenMaxSeq`, the backlog map, the chain `lastWriteP`, `deliveredSinceCredit`, the promise | INIT, DATA, FIN handlers (asynchronous and overlapping), write jobs, crediting, abort, close |
| noisystream frames | none | seven frame types and their validation |
| noisyauth sender / receiver | FSM state, phase timer, scope (torn down), handler chain `q`, bound commit / offer / reveal, `waitingPeerConfirm`, last frame to resend | COMMIT, OFFER, REVEAL, RCVCONFIRM handlers, the user's decision, timer expiry, `close()` |
| mailbox transport | `alive`, `outQ` (bounded), backlog of 16, `deliveredUpTo`, listeners | `send`, `onMessage`, `close`, open / message / close events of the socket |
| reconnecting WebSocket | current socket, retry timer, listeners | connect, reconnect with backoff, `onClose` at every close event |
| mailbox broker (test helper) | per room and side: a socket, a queue | connection, message, close |
| WebRTC initiator / responder | promise or facade, deferred candidates, end-of-candidates flags, ICE watchdog, handler sets | offer, answer, candidates, datachannel, failures, `close` |
| data channel wrapper, flush, teardown | `isUp`, `closed`, handler sets, `bufferedAmount`; the promise and the work of a flush; how far each `close` is | send, open / close / error and connection-state events, late `onUp`/`onDown`/`onClose`, `waitForDrain`, `flush(tx)`, `close()`, `forceCloseNoFlush`, `hardCloseRTC` |
| crypto | HPKE contexts, a running transcript hash | seal, open, commit, verify, SAS, sign, verify |
| noisycache store client and manifest | none of its own; per request the failed attempts | `_request` with its retries, `create`, `putBlob`, `putManifest`, `commit`, `getRange`; chunk counts, lengths and offsets |
| noisycache uploader | the source's rest, pieces sealed and hashed | create, PUT blob while sealing, sign and PUT manifest, commit |
| noisycache downloader | worker pool (`active`, `nextSeq`), `slots`, `nextSeqToDrain`, `draining`, the running hash, `doneP` | schedule, fetch, open, in-order drain over a synchronous or asynchronous sink, verdict, abort |
| noisycache courier | one signed key packet behind a handshake | not modelled (section 5) |
| util, errors, constants | none | pure helpers |

### 1.2 How they interact

    application
       |  hooks (onSAS, waitConfirm, onDone, onError)        promises
    noisyauth sender <------ COMMIT/OFFER/REVEAL/RCVCONFIRM ------> noisyauth receiver
    noisystream sender <---- INIT/READY/DATA/CREDIT/FIN/FIN_ACK --> noisystream receiver
       |  tx.send, tx.onMessage, tx.onClose                          |
    mailbox transport / data channel wrapper             mailbox transport / wrapper
       |  WebSocket                                                   |  RTCPeerConnection
    broker or sequenced mailbox server          signalling: offer, answer, candidates

    uploader --- create, blob, manifest, commit --> object store --- ranges --> downloader
                                                                                    |  write
                                                                                   sink

All of it is single-threaded JavaScript on each side: code between two `await`s
is atomic. Concurrency is what happens at the `await`s: message handlers that are
not serialised (noisystream receiver, WebRTC listeners), handlers that are
serialised but wait for a user for minutes (noisyauth), timers, the other side,
and a network that loses, repeats, delays and reconnects.

### 1.3 What is hard, and what correct means

* **noisystream.** Credit, writes, DATA and FIN handlers overlap; FIN is retried,
  FIN_ACK is not. Correct: the sender never outruns the window, no credit is
  lost, chunks are written once and in order, `ok` on either side means every
  byte is in the sink, and both promises settle.
* **noisyauth.** A handler awaits the user while the phase timer, `close()` and
  the peer's messages go on; a timer resends the last frame. Correct: the two
  users are shown strings over the same three messages, nobody is done before
  both accepted (over a data channel), an honest peer is never reported as an
  attack, done and failed exclude each other, and no session hangs.
* **mailbox.** Sockets break at any time, the server notices late, a new socket
  may be there before the old one's close event. Correct: payloads are neither
  lost, reordered nor delivered twice while nothing breaks, never reordered when
  something does, and acknowledged only when they have a place to go.
* **Data channel.** Opening, errors, the close and the connection's states come in
  any order, listeners register late, two callers close at once and a buffer may
  never drain. Correct: what a listener last heard is true, nothing is told after
  `close()`, a flush that resolves means sent, every call settles.
* **noisycache.** Answers are lost after the store acted, bodies are streams and
  cannot be sent twice; chunks arrive in any order and fail in the middle, a drain
  overlaps workers that end. Correct: what is committed is the whole source, the
  sink takes it from the beginning, in order and without a gap (a chunk again only when
  the caller's `onProgress` threw behind its write), "verified" means all of it, once, and
  a download fails for a reason only.
* **WebRTC.** Candidates overtake descriptions that are being set; five ways to
  end come in any order. Correct: no candidate is given to a connection without a
  remote description, the end mark is last, `onClose` fires once and for good,
  `send` is live exactly while the channel is up, and both sides settle, but for an
  initiator whose channel closes unopened without an error.

`PROJECT.json` lists every hazard at its line with the properties that cover it.

## 2. The modules

| Module | Models | Lines |
|---|---|---|
| `Transfer` | what a transfer promises its two callers: an abstract specification without frames | 55 |
| `NoisyStream` | noisystream sender, receiver, the transport between them and its faults | 606 |
| `NoisyStreamProofs` | theorems about it | 1942 |
| `NoisyAuth` | noisyauth sender and receiver, their users, timers and transport | 506 |
| `NoisyAuthProofs` | theorems about it | 2950 |
| `Mailbox` | two mailbox transports, their sockets and the server | 404 |
| `MailboxProofs` | theorems about it | 2737 |
| `Webrtc` | initiator, responder, signalling, the two peer connections | 655 |
| `WebrtcProofs` | theorems about it | 913 |
| `Channel` | one wrapped data channel: notices, flush, closing | 288 |
| `ChannelProofs` | theorems about it | 338 |
| `HttpStore` | the store's client, the store, the manifest | 113 |
| `Uploader` | `uploadCiphertext` over `HttpStore` | 130 |
| `Downloader` | `downloadAndDecrypt` over `HttpStore` | 279 |
| `Cache` | both on one object, and what they promise together | 83 |
| `CacheProofs` | theorems about it | 2715 |

`Transfer` and `NoisyStream` are composed by refinement: `NoisyStream` instantiates
`Transfer` with `sent <- seq`, `written <- delivered` and the two promises. `Cache`
extends `Uploader` and `Downloader`, which both extend `HttpStore` and share the
object it keeps: a step of the one leaves the variables of the other alone. The
others compose the two ends of a component with the medium between them;
`NoisyAuth` under `Policy = "ws_async"` assumes of its transport what `Mailbox`
checks (kept until somebody listens, in order, possibly repeated).

Each module starts with its CONSTANTS, whose assumptions are named, and its
variables in the order of the code's objects. One action is one turn of the event
loop: from an entry point or a resumed `await` to the next one. Definitions marked
*Mutant* change a neighbouring definition the way a plausible bug would, and are
used by no specification; they are there to show that each property depends on the
code it is about.

### 2.1 NoisyStream

* The sender's program counter `sPc` names where `sendFileWithAuth` awaits:
  `waitReady`, `data` (before a chunk, polling for credit included), `seal`, `fin`
  (between attempts), `finWait` (for FIN_ACK). The abort signal is looked at only
  in the data loop, as in the code; the close listener only knows how to reject the
  wait for READY.
* The receiver has an INIT handler (`initStage`), the chain of write jobs
  (`delivered .. nextSeq` are the jobs not done) and any number of FIN handlers
  that wait for the writes (`finWait`) or for the signature (`finVerify`).
* `OnData` keeps the code's order: the backlog map and its byte count first, a stale
  duplicate stays in the map, the byte count is raised twice for other frames.
* `Drain` treats the loop over `processInOrder` as one step: it awaits nothing but
  microtasks, so no other message event comes between, and a write job that does
  reads only `seenMaxSeq`, which is set before.
* A digest is what it covers: frames and bytes counted when it was finalised.
* Data: a chunk is one byte and is its sequence number; `totalBytes` is `Total`,
  which may differ from what the source yields.
* `lost`, `dups`, `delays` bound an imperfect transport, `Faults` selects aborts,
  closes and a failing sink.

### 2.2 NoisyAuth

* `Policy` selects a data channel (`rtc`: drops what arrives before a listener,
  throws when closed, all four timers, waits for the peer's confirmation) or a
  mailbox (`ws_async`: keeps and may repeat messages, two timers, done as soon as
  the own confirmation is sent).
* `inbox` is the promise chain `q`; `pc` is where the handler at its head awaits.
  `Quiet(r)` states that microtasks run before the event loop turns: a timer or a
  socket event never comes between a handler that is ready and its first step.
* A teardown unsubscribes and nothing else: `inbox` is still handled and a handler
  that awaits still resumes. This is what the code does; section 3.4 says what follows from it.
* `Table`, `Allows` and `NextState` are the transition tables; an event that is not
  in the table throws and ends in `handle_error`.
* Data: a nonce is the number of its draw; commitment and SAS are injective. A peer
  with another id than the session's is the fault `wrongPeer`.

### 2.3 Mailbox

* Per side: the mailbox object, the socket (`conn`, numbered by `epoch`) and the
  frames in both directions; the broker's socket per side (`routed`) and queue.
* `Flap` is any close event of the socket, failed attempts included. As in the
  code, it makes the mailbox dead (`AliveAfterFlap`) although the socket reconnects.
* `gone` holds sockets that ended without the server having noticed; the broker
  forwards to them in vain, or queues once it knows that they are closing.
* `NothingLost` counts what lies between `send()` and the listener: the payloads handled,
  on the socket and in the broker's queue are `1 .. k`, and those still at the sender
  are `k + 1 .. sent` in turn (`InTurn`, by positions, so that it can be reasoned about
  without an induction over the queue).
* `server = "sequenced"` is the server `mailbox.js` speaks `hello`, `deliver` and
  `delivered` to. It is not in the repository: an external log with at-least-once
  delivery, modelled from how the client uses it.

### 2.4 Webrtc

* Signalling is a queue per side. A relay drops what arrives before the responder
  exists; a mailbox that keeps messages is a relay that is slow, so it needs no
  case of its own.
* The initiator's main function, its answer handler with the awaits between
  deferred candidates, and its listener for candidates are separate; so are the
  responder's offer handler, ICE listener and facade.
* `env.slow` says whether the ICE watchdogs may fire before what they watch, and
  `env.announced` in which state the channel is announced; both are chosen at the
  start.
* `RTCPeerConnection` and `RTCDataChannel` are external. `Connects` needs both
  descriptions and a candidate of the other side at a side whose checks get
  through. The error event and the close event of a channel are two events, and either
  may come without the other: `InitiatorChannelErrs` rejects and goes on signalling,
  `InitiatorLosesChannel` ends signalling and the watchdog and leaves the promise as it
  is. A channel that closes before it opened, without an error, therefore leaves
  `rtcInitiator` pending for ever (`ClosedUnopened`); nothing is assumed of the platform
  that would exclude it, and `EverySideSettles` names it as its exception.
* `rtcInitiator`'s `close()` is one action; the responder's has an await in the
  middle (`ResponderCloses`, `ChannelClosed`).

### 2.5 Channel

* One channel behind `wrapDataChannel`, from `connecting` or already open. `Webrtc`
  and `NoisyAuth` model how a channel comes to be and what they do over it; here it
  is the wrapper itself that is looked at, with every event it listens for.
* `Tell` calls the listeners of the kinds that are registered, in the code's order;
  `told` is what the application heard last, `late` that an event called a listener
  after `close()` had been called. `Register` is a late `onUp`, `onDown` or `onClose`
  with the immediate call each makes on its own condition.
* `bufferedAmount` is counted in messages and stays when the channel closes, as the
  W3C specification says.
* `flush(tx)` is two things in the code, a promise and its work: `flushed` and
  `work`. The guard rejects the promise and stops nothing. `surface` is what flush
  finds on `tx`: through a wrapper `flush` and `bufferedAmount`, on a bare object its
  `dc`, and only the latter tells it that the channel closed.
* Two callers may close at once, the application and `forceCloseNoFlush`. The removal
  of the listeners, the race of the drain with 200 ms, `hardCloseRTC` and the pauses
  are separate steps. A wrapper shows neither channel nor connection, so what
  `forceCloseNoFlush` does to those it finds does nothing here.

### 2.6 Cache

* A blob is a sequence of pieces; each has the ciphertext byte it begins at (`at`, the
  running `totalCt`) and its plaintext bytes, and is `TagBytes` longer as ciphertext.
  `totalPt` is the uploader's running total. `RangeIsPiece` says when the bytes of a
  range are exactly the piece with the range's number: `openChunk` accepts nothing
  else. `CtOffset`, `CtLen` and `MakeManifest` are the arithmetic of `manifest.js`.
* `MaxChunks` bounds the workers' table; `ObjectsFit` states that the sizes chosen need no
  more chunks than that.
* An answer is `ok`, `busy` (429, 502 to 504), `lost` (fetch rejects) or a status
  that is reported at once. A `lost` one may have had its effect (`Effect`), which is
  what makes retries hard; a retried commit may be refused. The store is external and
  modelled from the requests made of it.
* The upload's program counter names the request it awaits. While the blob is sent
  its source is read, sealed and hashed (`SealChunk`); the store keeps a body only
  when it came whole, and a streamed body has no retries (`BlobRetries`). A source is
  cut into chunks (`bytes`) or taken as it comes (`stream`).
* A worker is fetching, opening, `ended` or gone: between the last two is the
  microtask after its `finally`, in which it still counts as active while
  `schedule()` has run. If all workers end before one of their promises settles, no
  worker is left to start the remaining chunks.
* `drain()` on a sink that returns no promise is one step (`DrainNow`); on one that
  does it awaits each write (`DrainLater`, `WriteDone`, `WriteFails`).
* `onProgress` is called unguarded between the write and the two statements that take the
  chunk out of its slot (`downloader.js:61`). When it throws (`ProgressThrows`, and the last
  case of `DrainNow`), the sink has taken the chunk and the chunk stays, so that the drain of
  another worker hashes and writes it again. `threw` is a history variable: it holds the
  writes, by position, behind which this happened.
* Nothing waits for a drain but the last one, called from `Finish`; that returns at once when
  another is at work, and `Verdict` then finds chunks left: `NC_INTERNAL_ORDER`.
* Nothing in the code times a fetch out; an abort is noticed by the request under way
  and in `schedule()`.

## 3. The runs

State counts and times are with two workers.

| Run | Question | Size |
|---|---|---|
| `stream_ordered` | on a lossless ordered transport: window, credit, the only way to fail, both settle | 578 states, 1 s |
| `stream_faulty` | one frame lost, one repeated, one overtaken, every fault: does `ok` still mean delivered, is `Transfer` still implemented | 2.4 M, 90 s |
| `stream_closed` | *violation*: the transport closes in the data loop | |
| `auth_rtc` | data channel with a lost frame, a late or broken link, rejection, close: both accepted, done is final, every side settles | 14.8 k, 5 s |
| `auth_mailbox` | mailbox with two repetitions: same SAS, no honest peer blamed, both users get to see the string | 49 k, 7 s |
| `mailbox_pair` | both servers, one break, one repetition: order, completeness, routing, acknowledgement | 108 k, 50 s |
| `mailbox_offline` | *violation*: a frame sent while disconnected | |
| `rtc_pair` | both modes, one platform failure, slow or timely watchdogs, close on either side | 316 k, 90 s |
| `rtc_trickle` | *violation*: a candidate after the offer | |
| `channel` | listeners registered at any time, a flush, two callers that close, a network that owes nothing: notices true, close silent, flushed means sent, every call settles | 308 k, 100 s |
| `channel_flush_closed` | *violation*: a wrapped channel closes while flush drains it | |
| `cache` | upload and download of objects of no, two, and two and a half chunks, two faults of any kind: whole, in order, verified, and failing for a reason | 390 k, 50 s |

### 3.1 Why the bounds are enough

* **Stream.** Six chunks with window 3 and credit 2 let the window fill, close and
  reopen twice and leave a last partial grant; two FIN retries give a second FIN
  handler that overlaps the first, and a third that finds the receiver settled. The
  faulty run trades size for faults: three chunks, a backlog limit of two that is
  reached by an overtaken frame, each kind of disturbance once and all together.
  `Signed = FALSE` there keeps a wrong count from being hidden by the signature.
* **Auth.** There is one frame of each kind per side; one loss covers each of them,
  two repetitions let a repetition be repeated or two frames be repeated against each
  other. The numbers of draws and resends are bounded by the code itself.
* **Mailbox.** With limits of one, two sends overflow the queue or the backlog; two
  sends are enough for a reordering or a gap; one break with a successor socket gives
  the race of the late close event. Only A sends: the directions do not interact in
  the server, and the acknowledgements of B share its socket.
* **WebRTC.** One candidate and the end mark per side are enough for every
  relative order of a description, a candidate, the end mark and an await; one fault
  at any point reaches every pair of endings, with the closes of the users besides.

* **Channel.** Two messages over a threshold of one give a buffer above, at and below
  it; two changes of the connection let it fail and recover. Each kind of listener is
  registered once, in any order with the events.
* **Cache.** Chunks of two bytes and sizes of 0, 4 and 5 give the empty object, an exact
  multiple, and a short last chunk after two of which two workers must leave one
  waiting; streams yield pieces of any length. One retry and two faults let an answer
  be lost and its retry be refused, a write fail and be repeated, or `onProgress` throw
  behind a chunk that is then written again.

### 3.2 Fairness

Fairness is only assumed of what the JavaScript runtime and an undisturbed network
owe: a resolved promise continues its function, an armed timer fires, an open link
delivers, gathering ends. No user has to answer, close or abort, no fault has to
happen, and a link that is not up need not come up. `NoisyStream` has one weak
fairness condition per actor. `NoisyAuth` has them for the handlers, per side for
arrival and expiry; `Mailbox` needs strong fairness for `Subscribe` because an
application may stop listening again and again. In `Webrtc` every behaviour is
finite but for stuttering, because faults, candidates and closes are bounded, so one
condition on the disjunction of what is owed says the same as one for each.
`Channel` has them for flush's loop, its guard and the timers of `close()`, and none
for the network: a buffer may never drain. `Cache` has one for the pool: a request is
answered or fails, and promises settle; behaviours are finite there, too.

`CHECK_DEADLOCK FALSE` stands in every configuration: a transfer, a handshake and a
connection end.

### 3.3 Mutants

Each property of each passing run has a mutant in `PROJECT.json`: the run with one
definition changed finds the property violated. For instance, credit drawn without
waiting breaks `WithinWindow`, a commitment compared by identity breaks
`HonestPeerNotBlamed`, a close handler that does not compare sockets breaks
`OpenMeansRouted`, a responder without watchdog breaks `EverySideSettles`.

### 3.4 Findings

1. `noisystream/src/sender.js:228`. The close listener rejects a promise that is
   settled once READY has come; a transport that closes later leaves
   `sendFileWithAuth` polling for credit for ever (`stream_closed`).
2. `transport/src/ws/mailbox.js:148`. The first disconnect makes a mailbox dead; its
   durable queue never holds anything (`mailbox_offline`).
3. `transport/src/webrtc/responder.js:267`. `haveRemote` is never set: candidates
   after the offer are kept and never used (`rtc_trickle`).
4. `transport/src/flush.js:100`. `flush` cannot see that a wrapped channel closed: it
   times out and its loop goes on polling (`channel_flush_closed`).

Others are in the models without a run of their own; the passing runs claim nothing
that they would break, and `PROJECT.json` lists them as hazards:

* A failed sink write is noticed by nothing before FIN; with crediting on, FIN never
  comes and both sides hang (`receiver.js:198` of noisystream).
* A noisyauth handler that waited for the user does not look whether the session was
  torn down: `onDone` after `onError` (`sender.js:198`). A REVEAL resent in READY is
  handled again: the user is asked again and `onDone` is called twice (`sender.js:161`).
* An envelope delivered again reaches the listener twice (`mailbox.js:132`).
* The byte count of the backlog grows without bound (`receiver.js:237`), stale
  duplicates stay in its map (`receiver.js:179`).
* The close event of a channel that never opened clears the initiator's watchdog and
  rejects nothing: `rtcInitiator` stays pending when no error event came before
  (`initiator.js:235`).
* An `onProgress` that throws makes the download fail, and makes its sink take a chunk a
  second time while other workers are under way (`downloader.js:61`).
* A connection that recovers stays down (`responder.js:317`); `isUp` stays true after
  `close()`.
* With a sink that returns promises a complete download may fail as
  `NC_INTERNAL_ORDER` (`downloader.js:158`); a pool whose workers all end before one of
  their promises settles, always so with `parallel: 1`, stalls with chunks left
  (`downloader.js:137`); a stream whose pieces are not `chunkBytes` long gets a manifest
  that does not fit its blob (`uploader.js:55`).
* `flush` reads `timeoutMs` and rejects when it is over, while `transport/README.md:150`
  passes `timeout` and says that it resolves; and
  `forceCloseNoFlush` waits for the drain that its name excludes, because it calls the
  wrapper's `close()` (`teardown.js:93`).

## 4. The proofs

`tlapm` checks every leaf; no theorem rests on an assumption other than the named
ones on the constants (`SizesAreNat`, `ModesAreBoolean`, `FaultsAreKnown` of
`NoisyStream`; `PolicyIsKnown`, `BoundsAreNat`, `FaultsAreKnown` of `NoisyAuth`;
`ServersAreKnown`, `SendersAreSides`, `LimitsAreNat` of `Mailbox`; `ModesAreKnown`,
`AnnouncedIsKnown`, `ChecksAreSides`, `BoundsAreNat` of `Webrtc`; those of `Channel`,
`HttpStore`, `Uploader` and `Downloader`; `ObjectsFit` of `Cache`). They say of which
kind a constant is, and `ObjectsFit` relates two bounds; TLC evaluates them in every
run. Each safety invariant and each action property of a passing run is the subject of
a theorem. Five theorems have a hypothesis on the constants besides, named with them
below (`Total = Chunks`, `Crediting` twice, `Orderly`, `InSequence`), and the
configuration of the run that checks the property satisfies it.

### 4.1 NoisyStreamProofs

`TypeCorrect`, `StreamInvariant`, `AckProvesDelivery` (`OkMeansDelivered`),
`ReceiptIsWhole` (`ReceivedMeansWhole`, if `Total = Chunks`), `SlidingWindow`
(`WithinWindow`) and `CreditConserved` (`NoCreditLost`), both for a transport that
may lose but not repeat or overtake, and `TransferImplemented`.

The properties are not inductive: that a sender may resolve depends on an
acknowledgement in flight, and that on the chunks written when it was sent.

    IInv == TypeOK /\ DeliveryInv /\ OrderInv /\ (Crediting => CreditInv)

* `DeliveryInv`: nothing past READY exists before the receiver is ready, and an
  acknowledgement seen or in flight means that `delivered >= Total`.
* `OrderInv`: `delivered <= nextSeq <= seq <= Chunks`, and nothing in flight, in the
  backlog or seen is as high as `seq`.
* `CreditInv`: READY is in flight at most once and before any credit (`ReadyOnce`);
  the CREDIT frames in flight are disjoint slices of the interval from the credits
  applied to the credits granted (`Slices`; the history field `upto` says which);
  what the sender holds and has drawn is at most the window and what it applied; and
  what is granted and not yet granted is what was written. Its heart is
  `GrantIsWhole`: the minimum with the room of the window, which would throw credit
  away, never cuts a grant. `Slices` is what survives the loss of a frame and fails
  when one is repeated or overtaken; hence the condition `Crediting`.

The refinement shows that each action of `NoisyStream` is one of `Transfer` or a
stutter under the mapping, with `IInv` where a promise resolves and where a chunk is
sent or written.

`OnlyRetriesAreRefused` (`OnlyRetriedFinRejects`) is about a transfer nobody disturbs:
`Orderly` says that the transport neither loses, repeats nor reorders, that nobody
aborts, closes or fails, that INIT tells the length and that the backlog is not limited
in bytes (which are counted twice, section 3.4). Its invariant has nothing to do with
`IInv`:

    RetryInv == OnlyRetriedFinRejects /\ (rResult = "pending" => LineInv /\ FinInv)

* `LineInv`: while the receiver's promise is open, what is in flight is INIT alone, or
  exactly the chunks the receiver has not reserved, in order, with FIN frames behind.
  Hence no frame is kept in the backlog and none is out of turn.
* `FinInv`: every FIN frame handled has counted one frame more than the last, and the
  FINs handled, waiting and in flight are no more than the sender has sent. A digest
  that is wrong by its frame count therefore comes from a second FIN, and that from a
  retry.

### 4.2 NoisyAuthProofs

`TypeCorrect`, `AuthInvariant`, `SasAgreement` (`SasAgrees`), `BothAccepted`
(`DoneMeansBothAccepted`) and `HonestPeer` (`HonestPeerNotBlamed`), under either
policy, for any number of lost and repeated frames and every set of faults; and
`NothingAfterDone` (`ReadyIsFinal`) over a data channel.

    IInv == TypeOK /\ FramesInv /\ NonceInv /\ FsmInv /\ AcceptInv /\ HonestPeerNotBlamed

* `FramesInv`: every frame on the wire, in a chain or kept for a resend is one its
  side can have sent, with the nonce it drew, and a confirmation means that its user
  accepted.
* `NonceInv`: each side draws once, and what is bound was drawn before.
* `FsmInv`: the machine stands where the handler that resumes expects it, so no
  transition throws that the code does not guard. `TypeOK` needs it: the type of the
  receiver's state says that it is never seen in WAIT_COMMIT.

`ReadyIsFinal` needs that a data channel repeats nothing (`InSequence`): a REVEAL that came
again behind the confirmation would be handled in READY, ask the user again and arm the
SAS timer. Its invariant comes on top of `IInv`:

* `BoundInv`: who accepted has bound the peer's messages, and the receiver then keeps
  no REVEAL to resend.
* `FinalInv`: on its way to the sender, in flight and in the chain, no REVEAL is behind a
  confirmation (`Settled`); a side that is done has no timer and no handler, and a sender
  that is done no REVEAL left to handle.

### 4.3 MailboxProofs

`TypeCorrect`, `MailboxInvariant`, `RouteIsCurrent` (`OpenMeansRouted`),
`DeliversInOrder` (`InOrderOnce`), `EverythingIsSomewhere` (`NothingLost`),
`NothingIsSkipped` (`NoGap`) and `AcknowledgedIsHandled` (`AckedIsHandled`), for any
number of sends, breaks and redeliveries, every length of the two queues, and either
server.

    IInv == TypeOK /\ RouteInv /\ ClientInv /\ OrderInv /\ WholeInv
            /\ FrameInv /\ PushInv /\ HeardInv

* `RouteInv`: the server sends to the newest socket of a side, or to one that has ended.
* `ClientInv`: a mailbox that is alive is on its first socket, and a frame waits in its
  queue or is on its way, never both. That a break makes a mailbox dead for good (section
  3.4) is part of why this holds.
* `OrderInv`: along the way (the sender's queue, its socket, the broker's queue, the
  other socket, the backlog, the listener; with the sequenced server as far as its log)
  payloads keep the order of the sends, whatever is missing; frames that are no payloads
  lie between them.
* `WholeInv`: nothing is missing along that way unless something fell to a full queue or
  the reader is gone, and at its end only once the sender is dead.
* `FrameInv`, `PushInv`, `HeardInv`: what the sequenced server repeats keeps every payload
  behind its predecessors (`Gapless`), what it pushed has arrived or is on its way,
  and a side acknowledges no more than it has heard (`Holds`). Between them they say more
  than order, because a repeated envelope does reach the listener again.

### 4.4 WebrtcProofs

`TypeCorrect`, `WebrtcInvariant`, `CandidatesWait` (`DeferredUntilDescribed`),
`NothingAfterEnd` (`EndIsLast`), `SendIsGuarded` (`SendLiveMeansUp`), `ClosedForGood`
(`ClosedIsFinal`) and `ClosesOnce`, in both modes, for any number of candidates and of
failures of the platform.

    IInv == TypeOK /\ WireInv /\ StageInv /\ EndInv /\ LiveInv /\ ClosedInv /\ ~early

* `WireInv`: only candidates that exist travel, and an answer only once the responder has
  sent it. `TypeOK` is inductive with it.
* `StageInv` relates how far the two sides are: whoever drains deferred candidates has a
  remote description, and the initiator has one only after the answer was sent.
* `EndInv`: a side that has signalled the end has gathered all, or is an initiator that no
  longer listens for candidates.
* `LiveInv`: a live `send` means an open channel that is up, and neither an armed watchdog
  nor a close under way.
* `ClosedInv`: after `onClose` no listener and no connection is left that could bring the
  responder up, and it has fired once.

### 4.5 ChannelProofs

`TypeCorrect`, `ChannelInvariant`, `NoticesAreTrue` (`ToldIsCurrent`),
`SilentAfterClose` (`NothingToldAfterClose`) and `FlushIsHonest` (`FlushedMeansSent`),
for any number of messages and changes of the connection and every threshold.

    IInv == TypeOK /\ ToldInv /\ LateInv /\ FlushInv

`ToldIsCurrent` speaks of an application that listens for both kinds; `ToldInv` says it
of each kind by itself, because the second listener may register at any time.
`LateInv` says that who closes has removed the listeners first. `FlushInv` says that
past the native drain as many messages have left as were sent before the call, unless
the channel closed; messages sent meanwhile may refill the buffer.

### 4.6 CacheProofs

`CacheInvariant`, `CommitIsWhole` (`CommittedIsWhole`), `WritesInOrder` (`SinkInOrder`),
`VerifiedMeansWhole` (`VerifiedIsWhole`), `PoolInvariant`, `TypeCorrect`, `PoolBounded`
and `FailureHasCause` (`FailuresHaveCauses`), for every size of chunk and object,
every number of chunks, workers, retries and faults, over both kinds of source and
sink.

* `UploadInv` says what the store holds at each request of the upload. That a blob is
  never retried is what makes `sealed = body` while it is sent.
* `SinkInv`: the chunk the drain is at is the one that is due after what the sink has taken
  (`Due`: the one after the last, or the last again when `onProgress` threw behind it). Each
  throw puts the drain one chunk behind the number of writes; with none, what was written is
  the run of chunks up to `nextToDrain`.
* `DrainInv`: what was hashed contains every chunk the drain is past and has at least as many
  entries as the sink has taken chunks, and a drain that awaits a write has its chunk hashed
  and still in its slot. A chunk may be hashed and written twice; the verdict is what
  excludes it.
* `PoolInv`: nothing is opened before the commit, and no chunk past the last.
* `VerdictInv`: a hash that equals the digest's run and covers `0 .. Total - 1` has
  exactly `Total` elements, so the manifest's count, computed from bytes, is the number
  of pieces sealed, even for a stream that was not cut. The sink has then taken no more than
  `Total` chunks, so `onProgress` threw behind none of them, and each was written once.

A second invariant, on top of the first, is about how many and where:

    PoolHolds == SizeInv /\ CutInv /\ EndsInv /\ CountInv /\ CalmInv

* `SizeInv`: what was read of the source and what is left of it are one of `Sizes`.
* `CutInv`: the uploader begins chunk `i` where the downloader looks for it, and every chunk
  but the last is full. That the two agree on the number of chunks, and so that it stays
  within `MaxChunks`, is the arithmetic of `Chunks` over the running total (a multiple of
  `ChunkBytes`, or not); no sum over the sequence is needed.
* `EndsInv`: each request and each promise ends with one of its codes.
* `CountInv`: `active` is the number of workers whose promise has not settled, at most
  `parallel` (`PoolBounded`); chunks are started in order, each once, none past the last.
* `CalmInv`: with no fault, a cut source and a sink that returns no promise, a chunk whose
  worker ended well is written or waits in its slot for one before it, and only a download
  that came before the commit fails.

### 4.7 What is only model-checked

Liveness (`BothSettle`, `EverySideSettles`, `BothReachSas`, `AllDelivered`,
`BothUp`, `CallsSettle`, `PoolSettles`) and `ENABLED` are out of the prover's reach, and so
is what a recursive definition computes for every input; the modules have no recursive
operator. `ImplementsTransfer` is proved as the refinement it is, of `Transfer` without
fairness. The properties of the runs that expect a violation are refuted by TLC and
have no theorem.

## 5. What is not modelled, and why

* **room_full** in noisyauth: the signalling helper sends it without a sessionId
  (`test-helpers/src/signalling.js:59`), so the handler returns before it.
* **Adaptive chunk size and `bufferedAmount` throttling**: they delay a sender and
  keep no protocol state.
* **dialRtcUntilReady**: it repeats a dial only for `TRANSPORT_LOST_PRE_READY`, a code
  that nothing in `src/` throws.
* **A connection closed behind the wrapper's back**: `Channel` closes it through
  `hardCloseRTC` only.
* **The courier** of noisycache (`sender.js`, `receiver.js`, `keypacket.js`): one
  signed frame over a mailbox after a handshake that is `NoisyAuth`. It adds a backlog
  until the key is imported, and the truncation of its counts to 32 bits
  (`keypacket.js:30`).
* **The HPKE session queues** of `crypto/src/handshake.js`: jobs in a chain, each with
  a timeout that does not stop it. The calls pass the duration where `withTimeout`
  (`util/src/async.js:11`) takes the label, so the timeout is always its default.
* **`headBlob` and `get`** of the store client have no caller in `src/`; the final
  signature of a manifest is made and checked over a digest that the models compare.
* **Encodings and hashing**: base64url, HPKE, SHA and signatures are injective
  functions or what they cover. The truncation of counts to 32 bits in
  `frames.js` is not modelled.
* **Giving up to reconnect** (`maxRetries`): the mailbox never sets it. The broker
  has one room and never deletes it.
* **Logging**, **type declarations**, **scripts**: see the components of
  `PROJECT.json`.

## 6. Plan

Order is by importance to the system; 1 to 7 are done.

1. `Transfer`, `NoisyStream`: transfer and refinement. Runs ordered and faulty.
2. `NoisyAuth`: handshake under both policies.
3. `Mailbox`, `Webrtc`: the two transports.
4. Proofs of types, safety and refinement for 1 and 2.
5. `Channel`: the wrapper, flush and teardown, with proofs.
6. `HttpStore`, `Uploader`, `Downloader`, `Cache`: the object store, with proofs.
7. Proofs for `Mailbox` and `Webrtc`, and of what was left of the other three:
   `OnlyRetriedFinRejects`, `ReadyIsFinal`, `TypeOK` and `FailuresHaveCauses` of `Cache`.
8. An abstract mailbox (a reliable queue per direction) that `Mailbox` implements
   while nothing breaks, and `NoisyAuth` composed over it.
9. The courier over that mailbox, and the session queues with their timeouts.
10. The disconnection that recovers (`responder.js:317`), the broker's deletion of a
    room, the byte limit of the backlog with a run of its own.
