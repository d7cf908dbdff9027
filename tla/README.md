# Rabaska: a verification project

Rabaska moves a file between two devices with nothing but their screens and
cameras.  The sender shows an endless stream of QR codes; the receiver films
them, collects rateless (RaptorQ) packets until it can reassemble the object,
opens it with a key agreed by an optical handshake, and offers the file.  There
is no network between the devices and, apart from the handshake's two frames
and a final COMPLETE code, nothing flows back.

This directory holds TLA+ models of that program, the TLC runs that check them
on small instances and TLAPS proofs for every instance.  Paths below are
relative to the repository (`core/src/...`, `app/...`).

    tlc -workers 2 -config MCReceiver.cfg MCReceiver     # any run below
    tlapm Receiver_proof.tla                             # any proof below


## 1. The system

| Component | Code | State | Operations |
|---|---|---|---|
| Receiver pipeline | `core/src/pipeline.rs` `Receiver`, `core/src/wasm.rs` `Receive` | beacon, key, parked packets, packets absorbed and their ids, counters, decoder, done | `ingest` (BEACON, SYMBOL, others), `derive_and_set`, `restore`, `checkpoint` |
| Transmitter pipeline | `core/src/pipeline.rs` `Transmitter`, `core/src/wasm.rs` `Send` | packet pool, cursor, frame number, held | `next_frame_at`, `release` |
| Display loop | `app/app.js` `beSender`'s `tick` | tick, the frame on screen | one frame per timer, on the rung of a fixed ladder schedule |
| Pairing handshake | `core/src/wasm.rs` `Session`, `Send`, `core/src/crypto.rs` | whose PAIR_REQ was answered, ephemeral keys, stored identities, mode, digits, stage of the send | `pair_req`, `Send::reply`, `Send::seal`, `Send::open`, `reveal`, `accept_reveal`, `release`, `complete_frame`, `verify_complete` |
| Checkpoint | `app/app.js` `beReceiver`, `finish`; IndexedDB | one slot on disk, the two-second writer, requests in flight | read at start, write, delete on delivery |
| Page shell | `app/app.js` `main`, `startCamera`, `onFrame`, `beSender`, `scanOneFrame` | role, stop flag, switch, camera handle and element, staged payload and choice | the switch, staging, choosing, cancelling, the receive loop, the flip, the scans |
| Service worker, updates | `app/sw.js`, `app/app.js` | installed, waiting and active worker, its cache | install, activate, skip waiting, fetch |
| Build skew healing | `app/app.js` `healSkew` | a mark in session storage | reload once |
| Device identity | `app/app.js` `wrappingKey`, `loadIdentity` | wrapping key and sealed identity in IndexedDB | get or create |
| Wire format | `core/src/wire.rs` | none | encode and decode of five frames, associated data, packing |
| Payload envelope | `core/src/payload.rs` | none | wrap, unwrap, name and type hygiene |
| Cryptography | `core/src/crypto.rs` | none | key agreement in four modes, digits, commitments, sealing |
| QR codec | `core/src/qr.rs` | none | render, decode, measure a rung's capacity |
| File through the bytes | `core/src/pipeline.rs` `maybe_compress`, `Transmitter::new`, `Receiver::absorb` | none of its own | sniff, compress, seal, cut into packets; join, open, inflate, unwrap |
| Harness | `harness/src/main.rs` | none | both keys of a transfer; rates over a simulated channel |
| Tools, markup | `tools/`, `app/index.html` | - | - |

How they interact.  The page owns everything: `onFrame` decodes a camera frame
and calls `Receive::ingest`, which calls `Receiver::ingest` and, on a beacon,
derives the key; `tick` calls `Send::next_frame`, which calls
`Transmitter::next_frame_at`.  Two devices interact only by light: what one
displays, the other's camera may read, not at all, once, or many times, and a
camera reads whatever screen is in its view.  Within a page, JavaScript runs one
callback at a time, and the camera, the display, the stop flag and the one
checkpoint slot are shared by callbacks that wait on timers, promises and video
frames.

What is hard here:

* **no feedback**: frames are lost, repeated and interleaved with another
  sender's, for ever, and neither side knows;
* **identity of packets**: a packet carries an id and four bytes of a session
  id.  Ids start over in every object, two senders that answer one PAIR_REQ
  share a session, and session prefixes may collide;
* **order**: symbols may come before the beacon, a checkpoint before or after
  it, the key only by a second call after the beacon;
* **crossed handshakes**: with three devices in view, beacons, REVEALs, digits
  and COMPLETEs of different pairs mix;
* **one byte too few**: lengths that are counted in one unit and written in
  another, frames packed to the last byte of a measured capacity, a trailer found
  from the end of whatever arrived;
* **two ends of one secret**: either side decides from its own store who the
  other is, and must still derive the same key or none;
* **death of the page** at any moment, with storage requests in flight;
* **waiting callbacks**: `getUserMedia`, `play()`, the wake lock, zero timers,
  display timers and scan loops interleave with each other and with the person,
  under one shared `stop` flag that the next sender lowers again;
* **two builds at once**: a deployment, an activation or a healing may fall into
  any gap of a page's load or of a worker's install.

`PROJECT.json` lists each hazard with its line and the properties that cover it.


## 2. The modules

    Receiver ----------+                       MCReceiver, Receiver_proof
                       +--> Transfer --> (implements) Courier     MCTransfer, Transfer_proof
    Transmitter -------+
         +--> Ladder                           MCLadder, Ladder_proof (of both)
    Keys --> Pairing                           MCPairing, Pairing_proof
    Resume   Update                            MCResume, MCUpdate, Resume_proof, Update_proof
    Shell                                      MCShell, Shell_proof
    Wire, Payload, Qr --> Parcel               MCParcel, Parcel_proof (of all four)

### Receiver

`Receiver.tla` is `struct Receiver` together with the way `Receive` drives it.

* An *object* is one transmitter's ciphertext.  A beacon is represented by the
  object it announces (all its fields are functions of it), a key by the object
  it opens, a packet by `[obj, id]`.  The code never sees `obj`: every guard
  uses only the session prefix and the id, so packets of two objects of one
  session are as indistinguishable in the model as they are in the program.
* `AcquireBeacon` is `ingest`'s beacon arm *and* `derive_and_set`, which
  `Receive::ingest` calls before it returns.  When derivation fails the beacon
  stays and there is no key: result `nokey`.
* `HoldSymbols`, `ForeignSymbols` and `Absorb` are the symbol arm.  `Absorb` is
  the whole of `absorb()`: it drains what is parked and then the frame's own
  packets, keeps the positions of its session whose id is new (`FreshUpTo`),
  feeds them to the decoder in order (`Decode`) and, if anything was new and a
  key is set, opens, inflates and finishes (`Outcome`).
* RaptorQ is external: some number of packets between K and K + Slack
  reassembles, chosen anew on each call, and what comes out of a mixture is
  `Garbage`.  Sealing is external too: a key opens the object it was derived for
  and nothing else.
* `Restore` is `restore()`: before or after the beacon, and even after `done`.
* `heard` is a history variable: every packet ever offered.

### Transmitter and Ladder

`Transmitter.tla` is `struct Transmitter` under the display loop: `Tick` is one
`next_frame_at` on the rung that is due.  A beacon takes the slot of that rung
and the schedule advances all the same, as in `tick`.  `PacketsPerFrame` is
computed from bytes, with the code's two edges (never less than one, never more
than 255).  `Ladder.tla` adds two observers: the ids shown on each rung, and the
frames since the last beacon.

### Transfer and Courier

`Transfer.tla` joins one receiver with several screens.  The channel has no
state of its own: `Capture` reads what a screen displays *now*, so losing and
repeating frames is the absence or repetition of `Capture` between two ticks.
`Courier.tla` is the promise: a set of cleared payloads and at most one
delivered, never one that was not cleared.  `Transfer` refines it with
`cleared = {o : ~held[o]}`.

### Keys and Pairing

`Keys.tla` is `crypto.rs` with symbolic primitives: a derived key is the record of
all that went into it, a Diffie-Hellman value the unordered pair of the two key
pairs.  What is translated is what the code feeds each derivation, in which order,
on each of the two sides; two keys are equal exactly when those inputs are.

`Pairing.tla` is the handshake among any number of devices, each of which may
receive, send to the PAIR_REQ it reads (`Flip`), or send unasked, sealed to a stored
identity or in the open (`SendUnasked`).  `Identified` are the devices that pass an
identity to `Session` and `Send`, `Peer` says whose identity each has stored.
`Send::reply` chooses SESSION when both are there and PAIR otherwise.  The shell
passes its own identity and null for the peer's (`app.js:734`), and never calls
`Send::seal`: it is the case in which `Peer` is None everywhere, and SESSION and SEAL are
for other callers of the library and its tests.  `view` says whose screen a camera
can read.  A person confirms only when some screen shows the digits the sender
shows.  `ScanReveal` aborts on a REVEAL of another session, as `accept_reveal`'s
error does; `ScanComplete` reads any COMPLETE, as the code does.

Worth knowing, and visible in the model:

* a SESSION sender is not held back, so two that answered one PAIR_REQ do mix in a
  receiver, which then fails its tag (`NeverMixed` speaks of PAIR);
* a SESSION beacon acquired by a receiver with no stored identity leaves it without
  a key and with the beacon: it collects all symbols and never opens;
* an anonymous SEAL never opens at a receiver that has stored some sender, because
  `derive_and_set` decides from its own store whether the sender is authenticated,
  not from the beacon's flag;
* `Send` sets SENDER_AUTH whenever it was given an identity, in PAIR too, where the
  identity is not in the key, although `docs/SPEC.md:73` reads "Sender identity
  folded into the KDF".  Nothing reads the flag.

### Resume

`Resume.tla` is a device across page loads.  `epoch` counts loads: each has a
fresh `Session`, so a PAIR sender bound to epoch 1 cannot be opened by a page of
epoch 2.  `queue` is the storage requests in flight, performed in order by
IndexedDB and lost with the page.  The receiver is reduced to what the
checkpoint shows of it: beacon, parked symbols with the session they name,
symbols absorbed.

### Shell

`Shell.tla` is one page.  Every `await` is a place where a call can be
(`spc` for `startCamera`, `xpc` for `beSender`), so every interleaving of the
callbacks is a behaviour.  `live` is the set of streams whose tracks run, named
by the call that opened them: the light on the device is on when it is not
empty.  `Wanted` is the guard both frame loops share, `Schedule` the re-arming,
`Enlist` the raising of `stop` before the zero timer that lowers it.

`armed` counts the callbacks that wait.  One that comes while the loop is wanted
sees a frame of a running camera, whichever call opened it, and either concludes
something (`FireFlips`, `FireDone`, `FireAuth`) or re-arms (`FireOn`); one that comes
after the loop was stopped ends (`FireEnds`).  When it comes is the browser's affair:
`requestAnimationFrame` delivers at once, `requestVideoFrameCallback` not before
there is a frame, which with the camera off may be when it is on again.  The model
allows both, so a callback armed before the switch went off may outlive it, and
then two loops run (three, after a second time).  `crossed` is a history variable: a
callback flipped this page to sending while a call of `startCamera` had no stream in
the handle yet (`HandleDue`), so that the flip's `closeCamera(stream)` closed nothing.

Two constants are assumptions about the person, and about nothing else.
`Hasty = FALSE`: they do not tap while something they started is still opening.
`Overlap = FALSE`: they do not start a send while another is on screen.  The interface
enforces neither; the passing run needs both, and section 5 says which property needs
which.

With `Overlap = TRUE` two display loops do come to paint in turn, because the
second send raises and lowers `stop` between two ticks of the first.

### Update

`Update.tla` is the way a device comes to run a build: `sw.js`, the update
button, `healSkew`, and the versioned names `build.sh` writes.  A page is two
fetches, "page" (`index.html` and the `app.js` it names) and "core" (glue and
module, asked for under the build of that `app.js`).  `PageServed` and
`CoreServed` are the worker's cache-first answer; what is missing comes from the
origin, which answers a versioned name with whatever it serves at the time.
Between a page's steps anything may happen: a deployment, another page's tap that
hands every window to a new worker, another page's healing that deletes the caches.

The registration's slots are the browser's (external): a new worker is installed,
waits, and activates when it is told to or when no window is controlled any more.
`TakeOver` is the `activate` handler with the reload it causes in the pages that
asked.  A precache is filled with files as they were at any moment since `sw.js`
was fetched.  Not modelled: the HTTP cache (a copy under the name of build b is
asked for only by a page of build b, and a cached copy of that build only makes the
page agree), being offline, and the offline chip.


### Wire, Payload, Qr and Parcel

`Wire.tla` is the codec byte by byte.  A byte is a tuple: its value where the value
matters, its place in a named field where it does not, and the four bytes of a CRC are
named by what they cover and are the only bytes of four parts.  So a slice at a wrong
offset, a length of the wrong field or a checksum over the wrong bytes gives different
bytes, as in the code.  The value
of a CRC is not computed: that two contents share one is left to chance.

`Payload.tla` is the envelope: names are sequences of Unicode code points, their
bytes the right number per character, so `MAX_NAME` characters and the one byte the
length is written in are told apart.  `Trim`, `Base` and `Shorten` are the steps of
`safe_name`.

`Qr.tla` is `capacity()`: a binary search against an encoder that alone knows how
much a rung holds.

`Parcel.tla` sends one file through all of it: `wrap`, `maybe_compress`,
`Transmitter::new` (the associated data is taken before the beacon's object
description is filled in), packets, frames packed for the measured rungs; then
a camera, and `Receiver::ingest` down to `unwrap`.  `Damaged` is what the
camera may hand over beyond whole frames: cut short, torn between any two frames of
the room, padded, or of another version of the protocol.  Deflate, the AEAD and RaptorQ are
external; their output is named by their input and has the right length.

Worth knowing:

* `safe_name` trims dots and then white space, once, so it is not idempotent.  Either
  end applies it, and a name such as `. . .bashrc` survives both as the hidden
  `.bashrc`, against `payload.rs:134`, "Leading dots hide the file";
* `safe_mime` refuses `image/svg+xml` by that name: `audio/svg+xml` is let through as
  any audio type is (`payload.rs:199`);
* the planner in `qr.rs` counts `symbol_size + 4` bytes a packet, but RaptorQ
  rounds the symbol size down to a multiple of eight: a packet may be up to
  seven bytes shorter than was planned for, never longer;
* `SymbolFrame::decode` would panic on a frame that claims packets of no bytes
  (`chunks_exact(0)`).  No encoder writes one;
* `unwrap` takes the tail of any body that ends like an envelope.  A sender that
  wraps is safe (the run sends such a body); a caller that does not wrap is not.


## 3. The runs

| Run | Instance | What it asks |
|---|---|---|
| `receiver` | four senders: a and b of one session, c of another with a key that is wrong here, d with a colliding prefix and no key; b does not inflate; K = 2; frames of one and two packets; at most three parked | whether the counters agree, sessions mix, packets get lost, an object is delivered wrongly, left unopened or delivered twice |
| `transfer` | x in PAIR mode (K 2, pool 3), y in OPEN mode (K 1, pool 2), two rungs, beacon every third frame | refinement of `Courier`, nothing of a held object leaves its device, delivery under fairness |
| `ladder` | the shipping schedule, capacities and packet length; pool 47 (K 32); `FrameIds` 61 | a beacon within every 15 frames also across the wrap; each rung alone carries K packets |
| `pairing` | three devices, every arrangement of views, two that know each other and one that knows the first but shows no identity; K = 2 | symbols are released to, absorbed and opened by those they are meant for only; a verified send was delivered; a transfer that is alone gets through in each mode |
| `resume` | three loads, one OPEN and one PAIR transfer, K = 2 of 3 symbols, two requests in flight | the checkpoint is pure, comes back whole, never shrinks, is forgotten when delivered; only a stale pairing fails; a page that stays up delivers |
| `shell` | three starts, two sends, camera granted or refused, callbacks that outlive the switch | no deaf receiver, one send on screen; one stream at a time, the receive stream closed while sending, off goes dark, and what a flip during an opening costs of these: one receive stream |
| `update` | two windows, one without session storage; two builds, whose core may arrive late or never | taps land on the new build, open pages decide, a load ends, nobody is stranded |
| `parcel` | seven files, three rungs (no packet, one, two), frames broken at seven places | capacities are exact and frames fit; only what was shown is read; a complete set opens; the file comes out as it went in, its name and type harmless |
| `ladder_resonance` | pool 59, `FrameIds` 60 | violates `EveryRungConverges` |
| `payload_names` | files of 8, 30 and 60 bytes, a short name and one of ninety wide characters | violates `DeliveredAsSent` |
| `shell_camera_less` | as `shell` | violates `CameraLessCanSend` |
| `shell_off` | `Hasty = TRUE`, one send | violates `OffIsDark` |

Why the bounds are enough.

* *Receiver.*  Two packets to reassemble and three ids per object let a set of
  absorbed packets be short, exact, mixed or larger than needed; two objects of
  one session and a third with the same prefix are what mixing takes;
  `MaxPending = 3` lets a two-packet frame and another be parked together.  The
  proofs remove these bounds.
* *Ladder.*  2^32 frames last years, so `FrameIds` stands for 2^32 by what it
  does to the beacon interval: 61 leaves the same remainder modulo 15 as 2^32
  does (one), so the wrap shortens a round exactly as in the code.  The resonance run
  takes 60, a multiple of the 30-frame round, so that the wrap, years away in the
  code, does not break the resonance after two rounds.
* *Pairing.*  Crossing two handshakes takes three devices: two senders of one
  receiver, or a chain.  Two that know each other and a third that knows one of
  them one-sidedly give SESSION, PAIR between strangers, PAIR with half a
  friendship, anonymous and authenticated SEAL, and a SEAL to a receiver that has stored
  somebody else.
* *Parcel.*  The sizes are small and the arithmetic is the code's: packets of 164
  bytes, as `Mtu` = 161 is aligned to 160, on rungs that hold 331, 362 and 84 bytes:
  one packet where two would fit but for `SYMBOL_OVERHEAD`, two, and none.  The files are
  plain, compressible with a name to be shortened, already compressed with a name
  in two-byte characters, empty with a name of dots, without envelope, with a body that
  ends like an envelope, and with a path for a name and a type that can script.  The
  cuts fall in the header and just after it, between and inside the fields of a
  beacon, in its CRC, and inside the first and the second packet of a symbol frame.
* *Resume.*  Three loads give a page that saved, a page that resumed and saved
  again, and a page that resumed that; two requests give a write racing a delete.
* *Shell.*  Three starts give the first and two switch-ons, so up to three callbacks
  wait at once; two sends are the least that can overlap.  A flip that crosses an
  opening takes two starts and one send, so the other start and the other send are
  there to act upon what it leaves.
* *Update.*  One update between two builds lets a deployment fall into every gap of
  a load and of an install; two windows are what it takes for one to heal or tap
  under the other.  There is no other bound.

Fairness, and what justifies it.

* *Ladder, Transfer*: weak fairness of a tick, because `tick` re-arms its own
  timer.  In `Transfer`, strong fairness of capturing each packet of a screen
  the camera is *aimed* at: the code sets no phase between the two devices'
  rates, so a frame that keeps coming back is eventually read whole.  Screens
  that are merely in view get no fairness.
* *Pairing*: weak fairness of starting the display, of reading a frame that stays
  on display and of a person who sees the digits agree.  Choosing to send is never obliged.
* *Resume*: weak fairness of absorbing what is on air, of the storage engine
  and of the first read.  Loading, dying and confirming are never obliged.
* *Shell*: promises settle and timers fire.  No tap and no decoded frame is obliged,
  and no callback need come once the camera is off.
* *Update*: weak fairness of the steps of a load and of the browser's own work, and
  a moment (`Calm`) after which fetches no longer fail and the person, who keeps
  opening and closing the app, takes the update they are offered.  Before it,
  checks and installs fail, windows are closed half loaded and updates are ignored
  at will.  That the browser checks for an update by itself is possible, never
  obliged: the comment at `app.js:1148` says why.

Deadlock is checked in the receiver, transfer and ladder runs, which never stop.
A device may rest for ever in `Pairing`, `Resume` and `Shell`, a `Parcel` is done
when it is delivered, and no window need be opened in `Update`, so those runs turn
the check off.

The type invariants of `Resume`, `Update` and of the transmitter, and that nothing
is shown while held, are not run but proved (section 5).  `MCParcel` also assumes
`Sendable` of each of its files, so that the run and the theorem speak of the same ones.


## 4. What the violations show

* `ladder_resonance`: six rungs in the schedule and a beacon every fifteenth
  frame repeat every 30 frames, and such a round carries 177 = 3 * 59 packets.  With
  a pool of 59 the cursor is therefore back where it was after every round: the lowest
  rung shows the same 15 packets for ever, although 44 are needed.  `core/src/pipeline.rs:274` says a
  receiver in bad light "simply harvests the low rungs and takes longer".
* `payload_names`: `MAX_NAME` limits a name to 96 characters, its byte length is
  written as a `u8`.  Ninety characters of three bytes and `.txt` are 274 bytes,
  written as 18; the receiver cuts the trailer in the wrong place and leaves the
  first 256 bytes of the name at the end of the file.  `core/src/payload.rs:74`
  says of the two lengths "both are bounded by the sanitisers above", and
  `payload.rs:87-88` "the bytes are exactly what the peer sent either way".
* `shell_camera_less`: when the camera is refused at startup, `main()` ends in
  the rejected `beReceiver()` and never attaches the file picker.
  `docs/SPEC.md:360` promises sending without a camera.
* `shell_off`: the switch turned off while the camera is opening stops nothing;
  the stream arrives afterwards and stays live.  `app/app.js:337` says "Off ends
  the track".

Three more disagreements show in what holds instead of a run of their own.

The first is the camera's, and takes neither haste nor overlap.  With the camera
running and a file staged for an encrypted send, the switch is turned off and on.  A
callback of the old loop still waits; `app/app.js:492-494` says that it "still fires
once afterwards", and counts on the switch still being off then.  It is on again, so
when the new stream is on the element and shows a PAIR_REQ the callback flips the page,
possibly while `startCamera()` still waits for `play()`: `closeCamera(stream)` at
`app/app.js:548` then closes the old handle, and the new stream gets into the handle
afterwards.  It stays live while the sender's scan opens a second one, against
`app/app.js:231` "One camera, one preview, one owner".  If the scan takes the element
first, `play()` is cut short, the call fails and turns the switch off, and the track
stays live with nobody to end it, against `app/app.js:337` "Off ends the track".
`OneCamera`, `SenderOwnsCamera` and `OffGoesDark` say that this is the only way, marked
by `crossed`, and what it can cost: never a third stream, never a sender's own track.
TLC finds each of the three violated by a patient person when the exception is taken
out of it (`live` of size two in 14 states, a dark switch over a live track in 17).

A reload makes a new ephemeral key: the checkpoint of a PAIR transfer comes back and
the sender's beacon is accepted, but the object cannot be opened, although
`app/app.js:651` says "There is never a restart"; `OnlyStalePairingFails` says that
nothing else fails.

And not calling `skipWaiting()` parks a build only while a
window is open: when the last one is closed the browser activates the waiting
worker, and the next visit runs a build nobody tapped for, although `app/sw.js:7-14`
says "THIS WORKER NEVER SILENTLY UPDATES ... it activates only on an explicit
action" and `docs/DEPLOY.md:294` repeats it; `OpenPagesDecide` is what does hold.

With `Hasty = TRUE` the model also reaches a receiver whose loop ended while its
camera runs: switched off while the first start waits, and on again when it is over.
No text of the repository speaks of that, so no run claims it.


## 5. The proofs

### Receiver_proof

The module proves, for any objects, sessions, keys, runs and history, under
`ReceiverAssumption` alone:

| Theorem | Says |
|---|---|
| `Invariance` | `Spec => []IInv` |
| `TypeCorrect` | `Spec => []TypeOK` |
| `CountersNeverDiverge` | `Spec => []CountersAgree` |
| `SessionsNeverMix` | `Spec => []OneSession` |
| `DeliveryIsAnnounced` | `Spec => []DeliveredIsAnnounced` |
| `NoPacketLost` | `Spec => []NothingLost` |
| `NothingStranded` | `Spec => []NoStrandedObject` |
| `DeliveryIsFinal` | `Spec => DoneIsFinal` |

None of the safety properties is inductive alone.  What is added:

* `ParkedTruly`: a parked packet is parked under its own session.  Without it
  `absorb` would take a foreign packet whose tag lies, and `OneSession` and
  `NothingLost` would fail.
* `NothingUnannounced`: nothing is absorbed, reassembled or delivered before a
  beacon.  `AcquireBeacon` resets the decoder but not the packets absorbed, and is
  sound only because there are none.
* `ObjectSound`: a reassembled object is the announced one, and at least K of
  its packets are absorbed.
* `DoneSound`: a delivery is that object, and the key is its key.

The argument about `absorb` is in four lemmas.  `FreshPositions`: accepted
positions carry pairwise distinct ids.  `CarriedOnce`: so the packets and the ids
added are as many as the positions (by a bijection), which is `CountersAgree`.
`EveryIdTaken`: the first position to carry an id is accepted, which is
`NothingLost`.  `DecodeSound`: the decoder reports at the first position that
reaches its threshold, and what it was fed then is part of what is absorbed.

### Transfer_proof

| Theorem | Says |
|---|---|
| `TransferInvariance` | `Spec => []XInv` |
| `HeldNeverLeaves` | `Spec => []HeldStaysHome` |
| `TransferRefinesCourier` | `Spec => ImplementsCourier` |

These hold for any number of screens and any interleaving of ticks, releases and
captures, under `TransferAssumption`.  The two proof modules above are
instantiated (`RxP`, `TxP`), and `SameReceiver` and `SameTransmitter` say that
their actions are those `Transfer` is made of, so that their lemmas apply.
`XInv` joins the two inductive invariants with `HeldUnknown`: the receiver knows
no packet (parked, absorbed or ever heard) of an object that is still held.
`HeldStaysHome` alone is not inductive, because what it says of absorbed packets
depends on what is parked.  `CaptureXInv` is where the halves meet: the frame
captured is on screen, so by `HeldShowsNothing` its object is not held, and by
`Provenance` every packet the receiver comes to know is one of that frame.  The
refinement then needs one more fact: a delivery has absorbed a packet of the
object it delivers, so that object is not held and the courier may deliver it.

### Ladder_proof

Of the transmitter, for any pools, packet lengths, ladder and schedule, under
`TransmitterAssumption`: `TransmitterTypes` (`Spec => []TypeOK`: the cursor never
leaves the pool, whatever a frame packs and wherever `frame_id` wraps) and
`NothingShownWhileHeld` (`Spec => []HeldShowsNothing`).  Together they are
inductive (`TxInv`).  `HeldShowsNothing` needs its second half, that the cursor
of a held transmitter has not moved: a beacon repeats what the schedule was about
to show, and only `BeaconDue` keeps a held transmitter on beacons.

Of the ladder, `BeaconComesInTime` (`LadderSpec => []BeaconWithinInterval`), for any interval, any
modulus of `frame_id`, any pool and schedule.  The number of frames since a beacon
says nothing by itself; what is inductive (`QuietInv`) is that it never exceeds
`Slack(frame_id)`, the place of the next frame in its interval.  A step that is no beacon
moves that place on by one; the wrap of `frame_id` moves it to a beacon, so
a modulus that the interval does not divide brings a beacon forward and never delays
one.  The facts about `%` and `\div` the argument needs are proved from their
defining equation (`Divided`, `OneQuotient`, `NextRemainder`).

### Pairing_proof

| Theorem | Says |
|---|---|
| `PeersAgree` | in each mode both sides derive one key, whatever their keys are |
| `Invariance` | the inductive invariant, for any devices, views and stored identities |
| `TypeCorrect` | `Spec => []TypeOK` |
| `ReleaseIsToThePeer` | `Spec => []ReleasedToItsPeer` |
| `PairsNeverMix` | `Spec => []NeverMixed` |
| `OnlyTheMeantOpen` | `Spec => []OnlyMeantOpens` |
| `VerifiedIsDelivered` | `Spec => []VerifiedMeansDelivered` |

`PairingAssumption` says that an identity is not the absent one and that stored
identities are those of identified devices.  The lemmas `PairKeyMeans`,
`SessionKeyMeans` and `SealKeyMeans` carry the argument: equal keys have equal salts
and secrets, a salt names both ephemerals and, where they count, both
identities, so a receiver that derives the sender's key is the one meant, in every mode.
Digits are the same argument: they agree only if session, both
ephemerals and the nonce do, which ties a release to the receiver that follows.
A device that has started to send stops listening, so whom it acquired no longer
changes.

### Resume_proof

| Theorem | Says |
|---|---|
| `Invariance` | the inductive invariant, for any transfers, loads and requests |
| `TypeCorrect` | `Spec => []TypeOK` |
| `SavedIsPure` | `Spec => []CheckpointIsPure` |
| `ResumingIsWhole` | `Spec => []ResumeRestoresAll` |
| `DeliveryIsForgotten` | `Spec => []DeliveredIsForgotten` |
| `FailuresAreStale` | `Spec => []OnlyStalePairingFails` |
| `SavedOnlyGrows` | `Spec => SavedNeverShrinks` |

Nothing about the slot is inductive without the requests on their way to it:
`Growing` orders slot, queue and what the page has seen by inclusion, per session.
What makes it true after a reload is `Fresh`: until a page has absorbed its first
symbol it has written nothing, and what it read is still parked, so that first
absorption brings it all back before a write can follow.  `Forgetting` says
the delete of a finished page is the last request in its queue.

### Update_proof

| Theorem | Says |
|---|---|
| `Invariance` | the inductive invariant, for any windows, private or not, and number of builds |
| `TypeCorrect` | `Spec => []TypeOK` |
| `TapsLandOnNew` | `Spec => []TapLandsOnNew` |
| `OpenPagesAreAsked` | `Spec => OpenPagesDecide` |

`Slots` says builds only grow on their way from the origin through installing,
waiting and active.  `Handover` says that the build a window waits for is not newer
than any slot that may take over, and that what it was handed over for is not newer
than what will be served.  `TakeOver`, which rewrites every window at once, has a
lemma of its own, used by both ways it is reached, an install with nothing active and an
activation.

### Shell_proof

For any number of starts and of sends, under `ShellAssumption`.  The third column is
what the theorem asks of the person, and TLC finds each property violated without it.

| Theorem | Says | Assumes |
|---|---|---|
| `Invariance` | all four parts of the inductive invariant | `~Hasty`, `~Overlap` |
| `TypeCorrect` | `Spec => []TypeOK` | not both `Hasty` and `Overlap` |
| `OneDisplay` | `Spec => []OneTransferInFlight` | `~Overlap` |
| `ReceiverHears` | `Spec => []NeverDeaf` | `~Hasty` |
| `CameraIsHandedOver` | `Spec => []SenderOwnsCamera`: the receive stream is closed during a send, unless `crossed` | `~Hasty` |
| `OneLight` | `Spec => []OneCamera`: one stream, two once `crossed` | `~Hasty`, `~Overlap` |
| `PatientOffIsDark` | `Spec => [](OffIsDark \/ (crossed /\ live \subseteq Start))` | `~Hasty`, `~Overlap` |
| `GrantedPageStarts` | `Spec => [](permitted => CameraLessCanSend)` | `~Hasty` |

Nothing is assumed of the callbacks: they come in any order, at any time the browser
may bring them, and as many wait as the switch has left.

The last two are the counterparts of two violations of section 4.  `OffIsDark` is
broken by haste, by overlap, or by a flip that crosses an opening, which asks nothing of
the person, and in that last case the only track that can be left is a receive stream.
A page that was granted its camera fails to attach its picker only by haste.

The invariant has four parts, each preserved under its own assumption and the parts
before it.  `TypeInv` adds to the types that a choice is armed only while its payload is
staged and nobody is about to take it away (`ChoiceIsStaged`).  `SendInv` says that one
call of `beSender` is busy at a time, and none while a choice is armed.

`CameraInv` is the receive loop.  `StartInv`: one `startCamera` waits at a time, with the
switch on (`OneStart`, `StartIsOn`), nothing sends while it does unless the page is
crossed (`StartIsAlone`), and how far it has come is what it holds of handle and element
(`StartHolds`).  `RoleInv`: the loop's stream is closed from the moment a sender is
enlisted, not only from the moment it shows (`SendingCloses`), and a crossed page sends,
or is about to, so it never opens its receive camera again (`CrossedSends`): that is why
one stray stream is all there can be.  `LoopInv`: a running stream of a receiver has its
loop armed or about to be (`Listening`).  `FirstWires` follows the first call to the
picker.

`LightInv` gives every live track an owner that will end it: a scan (`ScansOwn`), or the
loop's handle or the call still waiting for `play()` (`StartsOwn`), of which there is one
at a time (`OneStartLives`), but for the one a crossed start left.  A scan keeps its
element until it has its stream (`ScanHolds`), which is what a second send's scan breaks.

### Parcel_proof

For any rungs and capacities, any symbol size RaptorQ takes, any files and any places
where a frame breaks off:

| Theorem | Says |
|---|---|
| `Invariance` | `Spec => []ParcelInv` |
| `CapacityHolds` | `Spec => []CapacityExact` |
| `FramesAlwaysFit` | `Spec => []FramesFit` |
| `NothingElseIsRead` | `Spec => []OnlyShownIsRead` |
| `CompleteIsOpened` | `Spec => []CompleteSetOpens` |
| `LabelIsHarmless` | `Spec => []HarmlessLabel` |
| `DeliveredIntact` | `Spec => []DeliveredAsSent`, if every file is `Sendable` |
| `CapacityIsExact` | `QrSpec => []CapacityExact`, for `Qr` alone |
| `SearchAlwaysNarrows` | `QrSpec => SearchNarrows`: the loop ends |

The assumptions are `ParcelAssumption` (a symbol size of 8 to 65535: the field is a `u16`,
and RaptorQ aligns to eight), `FileAssumption` (what is staged is bytes, a name is code
points, a type has two tokens, the sealed object lies in the page's 32-bit
memory, and `None` is none of the things it stands for) and `QrAssumption`.
`DeliveredIntact` alone assumes `Sendable` of the files: the name
written takes no more than 255 bytes, and a file sent bare does not end like an envelope.
The first is what `payload_names` violates; the second is the caller's choice not to
wrap.  Nothing is assumed of a file that is enveloped and has a short name.

The argument, in the order of the module:

* *Sequences.*  The models compute with folds and filters of the community modules, and
  the provers cannot instantiate an induction theorem.  `LeastElement` replaces it: a
  set of numbers that is not empty has a least element (a case of the
  well-foundedness of `<`, which needs no operator parameter), so a fold that
  goes wrong somewhere goes wrong first somewhere, and the step before
  contradicts it.  So `FlattenUniform` (what is joined of equal lengths, in closed form),
  `KeptSteps` and `KeptAgree` (what a filter keeps), `FlattenSteps`.
* *Frames.*  `Opens(p, s)` says that the frame s begins with p and was sealed.
  `Extended` and `ReadField` go through a frame field by field, forth and back, which
  gives each `...ReadBack`.  `AcceptedIsWhole` is the heart of `OnlyShownIsRead`: what
  `open_frame` accepts ends with a checksum of all before it, the bytes of a
  checksum are no other bytes (`SumIsNotPlain`), so in what is torn between two frames
  that checksum is the one of the second or of the first, and it is that frame.
* *Packets.*  Packet e is the e-th slice, its id is e (`PacketReadBack`), and there are as
  many as the announced lengths say (`PacketsNeeded`), so joined and cut they are the
  ciphertext (`ChunksJoined`).  `DeliverIs` follows: whoever has them all delivers
  `unwrap(Plaintext(file))`.
* *Invariant.*  `ParcelInv` is then short: either nothing is staged, or what was decoded is
  what is displayed, the rungs are measured, and what came out is what was staged.
  `OnlyShownIsRead` alone is not inductive, because the display could change under what
  was decoded.
* *Envelope.*  `EnvelopeOpens`: the three fields are where `unwrap` looks for them, because the
  two lengths fit their bytes.  `Utf8ReadBack`: characters come back from their bytes,
  by the first bytes a filter finds among them.  `CleanIsKept` and
  `TidyIsKept`: what `safe_name` leaves alone it leaves alone again, and what it
  shortens once keeps its extension when it is applied again at the other end.

Attempts at these proofs corrected the properties.  That a delivered name ends in the
extension of the claimed one was stated of any name, and is false of names
that lose something to trimming (`x. `) or whose extension is all there is (a
hundred dots and `abc`): it is now stated of the tidy names, in `DeliveredAsSent`.  That no type
with `svg+xml` comes out is false of `audio/svg+xml`.

### What stays with TLC

* Liveness (`Delivery` of Transfer and of Resume, `EveryRungConverges`,
  `LoneTransferDelivers`, `OffGoesDark`, `LoadEnds`, `NoDeviceStranded`): fairness and
  ENABLED are beyond the proof system here.
* What fails: the four runs of section 4.
* That the assumptions have instances: `ParcelAssumption`, `FileAssumption` and
  `Sendable` are evaluated on the seven files of the `parcel` run, the others on the
  instance of their run.


## 6. Not modelled

* **Images.**  Rendering and decoding of codes: a frame that does not decode is a
  frame not read.  `plan_symbol_size`, float arithmetic that only tests call, is
  the constant `Mtu`.
* **The insides of libraries**: deflate, the AEAD, RaptorQ and CRC-32.  `Parcel`
  carries source packets only; what repair packets do is in `Receiver`.
* **Cryptographic strength.**  Keys and digits are symbolic: equal if and only if
  their inputs are.  The five digits of the real comparison can collide by chance.
  Zeroization and random numbers are left out.
* **Identity storage**: planned.  What the identity is for, once loaded, is in
  `Pairing`.  **The offline chip** and being offline.
* **The harness's channel simulator**, which measures rates: statistics, not
  behaviour.  Build tools and browser tests, markup and style.
* A send that throws while its transmitter is built, other than that of a
  cancelled payload.


## 7. Plan

Done, in this order: Receiver, Transmitter, Ladder, Courier and Transfer, Shell,
Resume, Pairing, Receiver_proof, Transfer_proof, Update, Keys with SESSION and SEAL in
Pairing, Wire, Payload, Qr, Parcel, Pairing_proof, Resume_proof, Update_proof,
Ladder_proof, Shell_proof, Parcel_proof.

Left:

1. `Identity`: two tabs of a first launch on one IndexedDB.  Property: the
   identity on disk opens under the wrapping key on disk.
2. Proofs beyond the properties the runs check: that the frames of `Parcel` carry what
   `Transfer` calls packets, which would join the bytes to the courier.
3. A send that fails while it is built, in `Shell`.
