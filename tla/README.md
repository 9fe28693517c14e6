# esp32-universal-control in TLA+

A Mac program captures keyboard and trackpad and sends them over a UART to an
ESP32-S3, which is a BLE keyboard and precision touchpad to up to `MAX_PEERS`
peers.  One peer at a time, or the Mac itself, gets the input.  This project
models what decides where input goes and what a peer is left holding: the
firmware session with its BLE callbacks, the touch report encoder, the threads
of the host program with their mirror of the firmware's peer table, and the
capture callbacks with the outbox and the Mac cursor.

`PROJECT.json` lists components, runs, mutants, hazards, findings and theorems,
and maps each definition to the lines of the source that it models.

## The system

| Component | State | Operations | Hard about it | Right when |
|---|---|---|---|---|
| wire protocol (`protocol/src/wire.rs`, `input.rs`) | none | the messages of both directions | no acknowledgement, no sequence numbers | both ends decide alike |
| touch encoder (`protocol/src/ptp.rs`) | `tracked` | `encode`, `reset` | lifts and new fingers share five places | every finger that went down is lifted once |
| session (`firmware/src/session.rs`) | peers, active slot, keyboard, consumer and touch state | BLE events, host messages, flush of a touch frame | peers drop between any two steps; notifications are refused | no key stays pressed on a peer left behind, nothing reaches the wrong one |
| main loop, transmit task (`firmware/src/main.rs`) | a channel each way | drain, flush, read, dispatch; send | order of events against messages | pending work leaves, events come in order |
| BLE wrapper (`firmware/src/ble_hid.rs`) | characteristics, event channel | callbacks, notify, `has_connection` | runs on another task; reuses handles | the peer table follows the connections |
| slot table (`host/src/slots.rs`) | slots, active, forwarding flag | snapshot, connect, disconnect, set active | read without the lock | never forwards to nobody |
| serial link (`host/src/serial.rs`) | channel | reader, handshake, send | timeouts with late answers, old messages | the handshake ends with a current table |
| capture threads (`host/src/capture/mod.rs`) | table, cursor, outbox | fw-events, serial-writer | two writers, unlock before the cursor moves | table is the firmware's; input comes back to the Mac |
| outbox (`host/src/capture/outbox.rs`) | control queue, latest touch frame | push, recv | control overtakes touch | a frame reaches the peer it was queued for |
| keyboard (`host/src/capture/keyboard.rs`) | keys, modifiers, escape state, hotkey | callback of the event tap | the flag flips between press and release; modifier events do not say which way | no key sticks or gets lost on either machine, Esc is typed once or was a hotkey |
| trackpad (`host/src/capture/trackpad.rs`) | `HAD_CONTACTS`, click state | `mt_callback` | flag and click are read, then the frame is pushed | resting fingers show and will be lifted, lifts are lost nowhere new |
| cursor (`host/src/capture/cursor.rs`) | forwarding, restore point | `transition`, hide, show, warp | the cursor may not be readable; changes come in a row | hidden once, back where it was |
| keymap (`host/src/capture/keymap.rs`) | none | tables | | only which kind a key is |
| HID descriptor, keyboard report, debug CLI, entry points, build files | constants or none | | | not modelled |

How they interact: NimBLE callbacks post `BleEvent`s to a channel that the
firmware loop drains.  The loop reads host messages from the UART, calls the
session and notifies peers through the BLE wrapper; what it tells the host goes
through a second channel to the transmit task.  On the host a reader thread
posts firmware messages to a channel, which `main` reads during the handshake
and fw-events afterwards.  fw-events and serial-writer change the slot table
under a mutex and the cursor under another.  The capture callbacks read only
the forwarding flag, check a slot for a hotkey, and push to the outbox, which
serial-writer empties into the UART.

## Modules

| Module | Models | Built on |
|---|---|---|
| `Wire` | the messages | |
| `TouchReportEncoder` | `encode()` as operators | |
| `TouchStream` | the encoder fed any frames, with a peer that applies its reports | `TouchReportEncoder` |
| `Session` | session, loop, transmit task, BLE callbacks, and what each peer was last told | `Wire`, `TouchReportEncoder` |
| `InputSwitch` | abstract: what the firmware promises its host | `Wire` |
| `SlotTable` | the host's mirror, as operators on table values | `Wire` |
| `Host` | the threads of `run`, reader and handshake, over the UART to an `InputSwitch` | `InputSwitch`, `SlotTable` |
| `Cursor` | the cursor session, as operators | |
| `EventTap` | the keyboard callback, the keys each machine sees, and the switch it asks for | `Cursor` |
| `Outbox` | the queue, as operators on its value | `Wire` |
| `Trackpad` | a finger's way: callback, outbox, wire, firmware, and the flag coming back | `Outbox`, `InputSwitch`, `SlotTable` |
| `MCSession`, `MCHost`, `MCEventTap` | instances for TLC | |
| `EncoderLemmas`, `TouchProofs` | facts about the encoder's operators; proofs about `TouchStream` | `TouchStream` |
| `SessionProofs`, `RoutingProofs` | proofs about `Session`: types, slots, refinement; then what peers hold, see, and whether they are in the table | `EncoderLemmas` |
| `SwitchLemmas` | facts about `InputSwitch` and `SlotTable`, for both hosts | |
| `HostProofs`, `TrackpadProofs` | proofs about `Host` and `Trackpad` | `SwitchLemmas` |
| `EventTapProofs` | proofs about `EventTap` | |

`Session` implements `InputSwitch` under a refinement mapping that forgets
handles, input and the loop (`ImplementsSwitch`, checked and proved).  `Host`
composes the host with `InputSwitch` in place of `Session`, so what is checked
of the host holds for any firmware that keeps the promise; so does `Trackpad`,
which adds to `InputSwitch` the fingers the encoder tracks and what each peer
shows of its touch reports.  `EventTap` has the two steps of the switch that
matter to keys (the firmware obeys, the flag follows) in place of `Host` and
`Session`, with queues both ways, so that several switches may be under way.

### How the models correspond to the code

* **Session.**  The variables from `host_ready` to `touch` are the fields of
  `struct Session`.  `pc` and `window` say where `run()` is: `drain` is the
  `try_recv` loop, `flush` and `notify` are `flush_touch_if_due` before and
  after its check of the connection, `read` is the UART read and the window of
  messages it returned.  A handler is one action with every call it makes,
  except that the stack may act between `has_connection` and the notification.
  Clock values are one Boolean, `pacing`: `now < next_touch_send_at_us`.  The
  log throttle is left out.  In `clear_outputs_for` only the three reports
  appear: the fields it resets are reset again by `reset_input_state`, which
  follows each call.
* **BLE stack** (external).  A connection appears or drops together with its
  callback.  `shown` is what the peer behind a handle was last told; a new
  connection shows nothing pressed.  A notification to a lost connection
  fails; one to a live connection succeeds unless `backpressure` (ENOMEM or
  EBUSY) or, for touch reports, `error` (anything else) is among the faults.
* **Reports and fingers.**  A report lifts a finger only by naming it
  (`PeerDown`).  The touch report of `clear_outputs_for` names none: it lets the
  button go and leaves the fingers down, in `Session` as in `Trackpad`.
* **Encoder.**  Arrays with counts are functions from contact identifiers,
  which name fingers and are unique in a frame.  Which new contacts are dropped
  when a report is full depends on the order of the frame and is a choice here.
* **Host messages** to `Session` are unrestricted, and so stand for any host,
  restarted or not.  Only the shape of touch frames is restricted in the
  instances (`HostFrames`, after `build_touch_frame`).
* **Host.**  One program counter per thread that takes two steps.  `HostEnds`
  is the end of the process at any moment; `HostStarts` opens the port and
  spawns the reader.  Messages that arrive while nobody reads are lost; with
  the fault `noise` the next frame of either direction may be lost at any time.
  The outbox has only its control queue.  `lost` is history.
* **Event tap.**  One callback is one action, because macOS calls it for one
  event at a time and it reads the flag once.  `Found` is the reset that starts
  every callback while input is local.  `Tell` pushes the messages that the
  handler returned; a snapshot holds all keys, so of several in a row only the
  last matters to what a peer shows.  `asked`, `routed` and `answers` stand for
  the outbox, the session and the way back: a request is a `SelectPeer` with the
  last snapshots queued behind it, which reach the peer that is active once it
  was handled.  A hotkey may be pressed, and the active peer may drop, before an
  earlier switch is over.  `mac` holds the keys the Mac
  saw pressed and will see let go; a release that is dropped while forwarding
  takes the key out, so a key held across a switch is not counted (see below).
* **Cursor.**  Reading the position and warping may fail, as the calls of macOS
  may; the restore point is then missing, or the cursor stays.
* **Trackpad.**  Fingers without coordinates, at most as many as a frame holds.
  `MtCallback` reads the flag and the click state, `MtPush` pushes: other threads
  run between them.  `due` is a change that the driver has not called back for;
  it calls back while fingers touch and once when the last has left.  `tracked`
  is the encoder of the firmware, which a switch, a drop of the active peer and
  a selection of nobody reset.  A report is assumed delivered: refused ones are
  `session_retry`'s subject.
* **Faults** are sets in a constant, so each run says what may go wrong.

## Runs

| Run | Question | Bounds | Expected |
|---|---|---|---|
| `touch_stream` | encoder against a peer, any frames | 3 fingers, 2 positions, reports of 2 | pass |
| `session_routing` | routing, released outputs and fingers over switches, drops and input | 2 peers, 2 handles, 2 key snapshots, 2 usages, 2 fingers, the button | pass |
| `session_reuse` | peer table and refinement when handles are reused and all firmware faults happen | 2 peers, 2 handles, 3 waiting events, 2 versions, LEDs | pass |
| `session_backpressure` | retries with refused and failing notifications, dropping links | 1 peer, 2 fingers, fair, accepted in the end | pass |
| `session_retry` | is a refused report really retried? | same, `FairSpec` | violation |
| `host_mirror` | is the host's table the firmware's? | 2 peers, LEDs, restarts of both ends, queues of 1 and 4 | pass |
| `host_liveness` | handshake, Esc+1, dead port | 1 peer, lost frames, resets, unplugging, fair, 2 attempts | pass |
| `host_fallback` | does falling back to the Mac last? | 1 peer, unplugging, queues of 2 | violation |
| `host_firmware_reset` | does Esc+1 work after a reset of the ESP32? | 1 peer, resets, fair | violation |
| `capture_keys` | do keys stick or get lost while targets switch? | Esc, two digits, a consumer key, both shifts, reports of 2, 2 places, 2 messages of switches on their way | pass |
| `capture_chord` | is a hotkey's digit typed as well? | same, with digits that repeat | violation |
| `capture_touch` | do fingers arrive and leave while targets switch? | 2 peers, 1 finger, button, any host restarts, 1 selection in the outbox, fair | pass |

Why the bounds are enough: the code treats slots, handles and fingers alike
except for "first free" and "is it the active one", so two of each give every
case; three fingers against reports of two give the full report with a lift and
a new finger at once.  Three events hold a drop, a reconnect with the same
handle and one more event before the loop looks.  In the host, queues of one
or two messages with four on the wire give the old answers after a restart and
the crossing of the two writers.  `MaxEvents`, `MaxTx`, `MaxRx` and `MaxHostTx` are bounds of the
models only: the channels of the code are unbounded.

`capture_keys` has one key of each role (Esc, the digit of the Mac, the digit
of a peer, which is also an ordinary key, a consumer key) and reports of two
keys, so that they fill up.  `RepeatingKeys` says which keys are held long
enough to repeat: Esc there; the digits too would be `capture_chord`.  At most
`MaxOnTheWay` selections and answers are under way at once: two, the least with
which switches cross.  `Bounded`, a constraint of the run, keeps three keys held
at most, and no modifier held or tracked while two messages are on their way:
modifiers touch the way only through the event that tells of keys.  Where the
cursor is decides nothing, so the two places are symmetric, and so are the two
sides of a modifier; what the run checks are invariants and single steps.

In `session_routing` handles, addresses and fingers are each interchangeable,
which no definition contradicts; the run checks invariants and single steps.  In
`capture_touch` one selection may wait in the outbox and two messages on the
wire.  The host may end any number of times: `TouchCatchesUp` assumes only that
it does not end again and again.

In `host_mirror` the two addresses are symmetric: no code looks into one, and
the run has only an invariant.

Deadlock is checked everywhere except in `session_reuse`, where a UART read
error halts the firmware as it does in the code.

Every property of a passing run has a mutant of the code that breaks it: a
dropped guard, a missing reset, an off-by-one, a forgotten case.  The mutated
forms stand before the definitions they replace, marked "Mutant".

### Fairness

* Firmware (`Fairness`): the loop runs; a read returns at most 64 bytes, so its
  window ends; the drain loop outruns the BLE stack, which needs radio time for
  each event (strong fairness, because the bound on events can hold an action
  up); the pacing time passes; the transmit task runs.
* `AcceptingSpec` adds that a notification tried over and over is accepted once:
  the stack frees its buffers as it sends.  Nothing in the code ensures it, so
  it is used in one run only.
* Host (`HostFairness`): every thread runs and bytes that were sent arrive.  The
  firmware's receive step is strongly fair because `MaxTx` can hold it up, which
  the real channel cannot.  The timeout of the handshake is strongly fair: the
  code waits for a silent second (`recv_timeout` starts anew with each
  message), and peers are assumed to grant one now and then.  Without that, and
  with the answer to a hello lost, the handshake can wait as long as peers keep
  coming and going.  Nothing else is assumed about users, peers or faults; in
  particular not that frames stop being lost.
* Trackpad (`PathFairness`): the driver calls back, the pushing thread, the
  writer with the firmware, and the reader with fw-events run.
* `EventTap` has no fairness: its properties are about safety.

### What the runs found

1. **A refused touch report is not retried** (`session_retry`).
   `flush_touch_if_due` encodes before it sends, and `encode` advances
   `tracked`.  On ENOMEM or EBUSY the frame is kept and encoded again, but
   against the advanced state: a lift in the refused report is never sent.  If
   the frame was empty, `encode` returns nothing and the frame is dropped.  The
   finger stays down on the peer until a later contact with the same identifier
   is lifted.  That new fingers do arrive is
   `QuietShowsFingers`.
2. **Falling back to the Mac can be undone** (`host_fallback`).  When a write
   fails, serial-writer sets the table to the Mac and ends; an
   `ActivePeerChanged` that fw-events has not yet applied switches forwarding
   on again, and with the writer gone no hotkey helps.
   The crossing has a second effect: fw-events sets its flag to forward and
   releases the table, serial-writer falls back and shows the cursor, and then
   fw-events hides it, on a Mac whose input is local.  TLC finds this when
   `CursorFollows` is checked with `Faults = {"unplug"}`; no run keeps it.
3. **After a reset of the ESP32 alone, Esc+1 is dead** (`host_firmware_reset`).
   The UART bridge is a separate chip, so writes succeed, but the firmware does
   not answer `SelectPeer` before a hello, and the host says hello only at its
   start and changes its table only on an answer.
4. **A hotkey's digit is typed when it repeats** (`capture_chord`).  The first
   event of the digit sets `ChordUsed`; the repeats no longer find `Pending`,
   are ordinary presses, and go to the peer just switched to.  The release is
   swallowed as the hotkey's, so the digit stays pressed until the next switch
   or until it is pressed again.  After Esc+1 the Mac is left with it likewise.

Behaviour that no text of the repository contradicts, met on the way:

* A key held on the Mac while Esc+2 switches: its release is dropped, and the
  Mac keeps it pressed.  `MacSeesRelease` is about releases while local.
* A modifier held before forwarding began is not tracked.  If its sibling is
  pressed and the first one released, that release looks like a press.
* When switches cross, a peer may get a snapshot meant for the one before.
  TLC finds, without the exemption of `stale` in `NoGhostKeys`: Esc+2 is
  pressed again while forwarding and then a key; the active peer drops before
  the firmware sees the selection, so the flag goes down and up again; the key
  is let go while it is down, and the release stays local; the snapshot queued
  behind the selection presses the key on the new peer.  The next event that
  tells of keys of its kind corrects it.
* A finger that is down at a switch stays down on the peer that is left, because
  `clear_outputs_for` resets the encoder and sends a report that names no
  contact.  `NoFingerGetsStuck` shows that nothing else leaves a finger behind,
  as long as reports get through.  (What a host makes of a report without
  contacts is up to its driver.)
* A touch report that fails for another reason than a full buffer, with the link
  up, resets the encoder: fingers that are down then stay so.
* A selection throws the waiting touch frame away even when the firmware then
  changes nothing, and a callback between two targets forgets that a lift is
  owed.  `LiftsLostOnly` says that lifts are lost in these ways and with the
  host, and in no other; `TouchCatchesUp` that the next touch makes the encoder
  right again.
* A selection that the firmware refuses leaves the peer before active, and the
  frames queued behind it go there; `FrameReachesTarget` exempts that.
* The answer to a selection may be lost.  Selecting the slot again is then not
  answered, since it is active already, and the host stays local; Esc+1 repairs
  it (`HotkeyReturnsToMac`).

## Proofs

TLAPS proves the following for every value of the constants that satisfies the
named assumptions: `WireAssumption` (slots fit in a byte, `None` is no slot,
address or peer), `SessionAssumption` (the frames are touch frames, finitely
many handles, positive bounds), `EncoderAssumption` (finitely many contacts, room for one),
`HostAssumption` (at least one attempt, positive bounds, known faults),
`EventTapAssumption` (the kinds of keys do not overlap, reports hold a key).

* **Encoder** (`TouchProofs`).  `StreamInv` is inductive: what is tracked is
  what the last report showed touching, the peer shows just that, and it fits
  in a report.  The last part is what makes `PeerAgrees` inductive: only
  because the tracked contacts fit is there room for every lift.  It gives
  `StreamTypeCorrect`, `PeerAlwaysAgrees` and `CapacityAlwaysRespected`.  The
  three action properties (`LiftsStayInPlace`, `LiftsAreSentOnce`,
  `SecondFrameAlwaysCatchesUp`) need `LastInv`, which adds that what is tracked
  is a part of the last frame, as the last report showed it.  `EncoderLemmas`
  holds the facts about the operators; `Session`'s proofs use them as well.
* **Session safety** (`SessionProofs`).  `SafeInv` is type correctness, the
  active slot having a peer, and there being an active peer between the check
  and the notification of a touch report.  None of the three is inductive
  alone: without the third, `Notify` could update the view of no peer; without
  the second, the third does not survive a disconnection.  It gives
  `TypeCorrect`, `ActivePeerAlwaysKnown` and `SwitchAlwaysForgetsInput`.
* **Handle reuse.**  `HandlesAlwaysDistinct` needs an invariant of the event
  queue, `QueueInv`: between two connections with one handle the queue holds a
  drop of it; before a waiting connection whose handle some slot still has,
  there is a drop of it; and a slot whose handle is not linked to it has its
  drop on the way.  TLC checked `QueueInv` before it was proved.
* **What peers hold** (`RoutingProofs`).  `ViewInv` says what every peer shows
  of keys, consumer control and button: one that is not active nothing; the
  active one, while its link is there, the remembered keys and usage; and a
  handle without a link nothing.  It is inductive together with `QueueInv`,
  because a peer stops being the active one by an event that waits in the queue
  while its link may be gone or new.  `IdlePeersAlwaysReleased` and
  `ActivePeerAlwaysUpToDate` follow, without the faults `reuse`, `backpressure`
  and `error`.  None can be spared: a notification that does not get through
  leaves a key pressed (a hazard the code accepts), and with a reused handle the
  clearing report goes to the handle's next owner; TLC shows each of the two
  violated with each of the faults.
* **Fingers.**  `FingersNeverGetStuck` is an action property: in a step that
  keeps the active slot, the fingers which the active peer shows and the encoder
  does not track grow no more.  It needs `UnlinkedReleased`, for a peer that
  comes back under its handle, and holds with reused handles.
  `NeverPhantomContact` is the other direction, and holds with reports that
  fail, which reset the encoder; `reuse` and `backpressure` break it.
* **Refused reports.**  `QuietAlwaysShowsFingers` allows `backpressure`.  Its
  invariant `QuietInv` adds to the property that every contact of the latest
  frame touches.  It assumes `Roomy`: reports have room for every finger, lifts
  included, and the host's frames name only fingers that touch, as
  `build_touch_frame` makes them.  Without room, fingers wait for the next frame
  (`SecondFrameCatchesUp`).
* **Table and links.**  `PeerTableAlwaysTracksLinks` holds under every fault.
  `HistoryInv` reads the event queue as a history: after any number of waiting
  events the set of links is one that the stack allowed then, and the table is
  the oldest of these sets.  So a connection that the loop hears of always
  finds a free slot, provided the stack allows at most as many connections as
  there are slots (`MaxConnections <= MAX_PEERS`); that is so, with 4 slots and
  the ESP-IDF default of 3 connections, which `sdkconfig.defaults` keeps.
  `AddrInv` does the same for addresses.
* **Refinement.**  `SessionImplementsSwitch`: the initial states agree, and
  each action of `Session` is one of `InputSwitch` or leaves the switch alone.
* **Host** (`HostProofs`).  A table is *sound* when it forwards exactly if it
  has an active slot, and that slot has a peer.  Every message makes a sound
  table of a sound table (`ApplySound`), in any order and however stale, and a
  snapshot or a selection makes one of any table; so `HostInv` (types and
  `ForwardsToSomebody`) is inductive under every fault.  `ForwardsToSomebody`
  alone is not: it needs the messages on every queue to be typed.  It gives
  `HostTypeCorrect` and `AlwaysForwardsToSomebody`.
* **The mirror.**  `MirrorAlwaysExact`: for any slots, peers and queues the
  host's table becomes the firmware's with what is on its way.  `MirrorInv`
  adds two things to it.  While the host is not running it has no table to
  speak of, so there the invariant says that *every* snapshot that waits leads
  to the firmware's table, whichever the handshake will take; this is what
  makes an old host's answer harmless.  And a firmware that has just restarted
  owes nothing until its hello, whose snapshot overrides whatever waits before
  it (`SnapshotDecides`).  Each step of the switch tells what it did
  (`ToldRightly`).  `ApplyAll` is a recursive function, not a fold, so that it
  can be reasoned about: `SwitchLemmas` shows, by well-founded induction over
  sets of positions, that it exists and splits at any place of the queue.  The
  theorem excludes `unplug` and `noise`: each loses messages, and nothing in
  the protocol notices until the next hello.
* **A finger's way** (`TrackpadProofs`).  `FrameReachesTarget` says nothing
  while selections wait.  `TargetInv` does: a waiting frame was queued for the
  last target asked for, because each selection throws older frames away; the
  last selection in the queue is that target, and when none is left the
  firmware has made it active, and perhaps lost it since, or has refused it.  It
  gives `FrameAlwaysReachesTarget`, with `PathTypeCorrect`, for any trackpad,
  any number of peers and of restarts.  `LiftsAreLostOnly` follows a lift from
  `had_contacts` to the frame, the outbox and the encoder; it needs that the
  frame about to be pushed has fingers exactly if `had_contacts` says so
  (`FrameInv`), and that nothing is tracked for nobody (`TouchInv`).
* **Event tap** (`EventTapProofs`).  `MacAlwaysSeesRelease` and
  `NeverGhostKeys` assume that no digit of a hotkey is held until it repeats
  (`RepeatingKeys \cap Digits = {}`): with a repeating digit, finding 4, they
  are false.  `MacInv` ties the escape state to what the user holds: a pending
  Esc is still the key that repeats, a forwarded one no longer repeats, and the
  digit whose release will be swallowed never reached the Mac.  Without these
  the swallowed release could be one the Mac waits for.  `InputInv` says that
  what is tracked is held.  `FlagInv` says that the last answer on its way, or
  the flag, is what the firmware does, however many are on their way.
  `GhostInv` is about each kind (keys, consumer controls) that no crossing has
  left in doubt: at most one message of a switch is under way, and what the
  peer shows of the kind, or will once a waiting selection is handled, is
  tracked (`Sound`).  A selection or drop that begins while another is under way
  puts both kinds in doubt (`stale`); an event that tells of a kind when all is
  quiet, or input that is local again, takes it out.  Together they give
  `NeverGhostKeys`.  `CursorAlwaysKept` follows from `CursorInv`, which adds
  that the cursor stays put between the flag's rise and fw-events' move.
  `TapTypeCorrect`, `KeysAlwaysArrive`, `EscapeAlwaysOnce` and
  `ModifiersAlwaysInStep` have no hypothesis: they hold with repeating digits
  too.  `TrackedOK` says what a report can hold, `FreshInv` that a key pressed
  for the peer is tracked until it is let go, and shown or in a snapshot behind
  the *last* selection, which is why crossing switches do not lose it, and `EscapeInv` ties the
  story of one press of Esc to the escape state: not typed while it is pending,
  typed once when it was forwarded (or found the report full).

Every safety property of a passing run is proved but `CursorFollows`, which
holds only while nobody but fw-events moves the cursor and would say too little
as a theorem.  Only model-checked besides it: liveness (`PendingTouchDrains`,
`LinkLossNoticed`, `HotkeyReturnsToMac`, `HandshakeEnds`, `UnplugNoticed`,
`TouchCatchesUp`), which is out of the prover's reach, and the four findings,
which are violations.  What the hypotheses above
leave out is in the runs' fault sets where it holds, and among the findings and
hazards where it does not.

## Not modelled

Bytes: postcard, COBS framing, HID report layout, the descriptor, key maps and
scaling of coordinates (constants and conversions that no property is about).
A damaged frame is modelled as lost; that a decoder may take the next frame
with it is two losses.  BLE pairing, connection parameters and feature reports.
A tap that macOS disables: which events it missed is not knowable, and the code
resets nothing.  Synthetic events that macOS refuses.  Several trackpads: they
share one callback and its state, and nothing tells them apart.  The debug
command line, which is outside the capture path.

## Plan

1. `EventTap` composed with `Host`, with `serial-writer` falling back while keys
   are held.
2. `Trackpad` as a refinement of a smaller specification of a frame's way.
