------------------------------ MODULE EventTap ------------------------------
(***************************************************************************)
(* host/src/capture/keyboard.rs: the callback of the event tap, with what  *)
(* the two machines make of it -- the keys the Mac sees and those the      *)
(* active peer was told -- and with the cursor of cursor.rs.               *)
(*                                                                         *)
(* A callback is one action: it reads the forwarding flag once, and macOS  *)
(* calls it for one event at a time.  A switch takes several steps that    *)
(* other events fall between: the hotkey queues SelectPeer, the firmware   *)
(* obeys it, the flag follows its answer, the cursor follows the flag.     *)
(***************************************************************************)
EXTENDS Cursor, FiniteSets, Sequences

CONSTANTS Escape, MacDigit, PeerDigits,   \* keys: Esc, 1, and 2 to 5
          Letters, ConsumerKeys,          \* other keys; volume and mute keys
          ModifierKinds, Sides,           \* control, shift, alternate, command; left, right
          MAX_KEYS,
          RepeatingKeys,                  \* keys held long enough to repeat
          MaxOnTheWay                     \* bound: selections and answers on their way

Digits    == {MacDigit} \cup PeerDigits
HidKeys   == {Escape} \cup Digits \cup Letters
Keys      == HidKeys \cup ConsumerKeys
Modifiers == ModifierKinds \X Sides

ASSUME EventTapAssumption ==
  /\ MAX_KEYS \in Nat \ {0} /\ MaxOnTheWay \in Nat
  /\ IsFiniteSet(HidKeys)
  /\ ConsumerKeys \cap HidKeys = {}
  /\ None \notin Keys \cup BOOLEAN /\ \A keys \in SUBSET Keys : keys # None
  /\ Escape \notin Digits \cup Letters /\ MacDigit \notin PeerDigits
  /\ Letters \cap Digits = {}
  /\ RepeatingKeys \subseteq Keys

(* CaptureState: KeyboardSnapshot and ConsumerState.                       *)
Input    == [modifiers : SUBSET Modifiers, keys : SUBSET HidKeys, consumer : SUBSET ConsumerKeys]
Released == [modifiers |-> {}, keys |-> {}, consumer |-> {}]

(* Of what a peer is told, the keys; snapshots say all of them, so the     *)
(* last one counts.  A selection on its way, with the last snapshots that  *)
(* are queued behind it.                                                   *)
View       == [keys : SUBSET HidKeys, consumer : SUBSET ConsumerKeys]
NothingDown == [keys |-> {}, consumer |-> {}]
Unpushed   == [keys |-> None, consumer |-> None]
SelectPeer(target) == [to |-> target, snapshots |-> Unpushed]

VARIABLES
  held, held_modifiers,  \* what the user holds down
  repeating,             \* the key that repeats, if the last one pressed does
  input,                 \* CaptureState: what is tracked of keys and modifiers
  hotkey_keyup, escape_state,
  forwarding,            \* the flag
  asked,                 \* the selections on their way to the firmware
  routed,                \* the firmware has an active peer
  answers,               \* values of the flag on their way from the firmware
  mac,                   \* keys the Mac saw pressed and will see let go
  remote,                \* what the active peer shows
  syncing,               \* fw-events has set the flag and will move the cursor
  session, position, hides,
  \* History, for the properties:
  story,                 \* of the last press of Esc: how often typed, as a chord, refused
  fresh,                 \* keys held since they were pressed for this peer
  stale,                 \* kinds not told since two switches crossed
  left_at                \* where the cursor was when the flag rose

userVars   == <<held, held_modifiers, repeating>>
tapVars    == <<input, hotkey_keyup, escape_state>>
switchVars == <<asked, routed, answers>>
viewVars   == <<mac, remote>>
cursorVars == <<syncing, session, position, hides>>
history    == <<story, fresh, stale, left_at>>
vars == <<userVars, tapVars, forwarding, switchVars, viewVars, cursorVars, history>>

NoStory == [typed |-> 0, chord |-> FALSE, refused |-> FALSE]

(* A host whose handshake found a peer active starts with the flag up.     *)
Init ==
  /\ held = {} /\ held_modifiers = {} /\ repeating = None
  /\ input = Released /\ hotkey_keyup = None /\ escape_state = "Idle"
  /\ forwarding \in BOOLEAN /\ routed = forwarding
  /\ asked = <<>> /\ answers = <<>>
  /\ mac = {} /\ remote = NothingDown
  /\ syncing = forwarding /\ session = NewSession /\ hides = 0
  /\ position \in Places /\ left_at = IF forwarding THEN position ELSE None
  /\ story = NoStory /\ fresh = {} /\ stale = {}

-----------------------------------------------------------------------------
(* Messages to the peer.  A snapshot queued behind a SelectPeer reaches    *)
(* the peer that is selected; without one it reaches the active peer.      *)
Kinds == {"keys", "consumer"}

Told(view, kinds) == [kind \in Kinds |-> IF kind \in kinds THEN input'[kind] ELSE view[kind]]

Push(kinds) ==
  IF asked = <<>>
    THEN remote' = (IF routed THEN Told(remote, kinds) ELSE remote) /\ UNCHANGED asked
    ELSE asked' = [asked EXCEPT ![Len(asked)].snapshots = Told(@, kinds)] /\ UNCHANGED remote

(* Bound.                                                                  *)
RoomOnTheWay == Len(asked) + Len(answers) < MaxOnTheWay

(* History: a switch is over when its answer has reached the flag.         *)
Settled == asked = <<>> /\ answers = <<>>

(* Mutant: what was tracked survives while input is local.                 *)
FoundStale == input

(* What every event finds: reset_remote_input, unless it is forwarded.     *)
Found == IF forwarding THEN input ELSE Released

(* The messages an event gives rise to: KeyboardState, ConsumerState.      *)
Changed ==
  {kind \in Kinds :
     \/ input'[kind] # Found[kind]
     \/ kind = "keys" /\ input'.modifiers # Found.modifiers}

Pressed(view) == view.keys \cup view.consumer

(* History: a switch that begins before another one is over may overtake   *)
(* the release of a key.                                                   *)
Crossed == IF Settled THEN stale ELSE Kinds

(* How an event ends: its messages are pushed if it is forwarded.          *)
Tell(kinds) ==
  /\ Push(IF forwarding THEN kinds ELSE {})
  /\ stale' = IF forwarding /\ Settled THEN stale \ kinds ELSE stale
  /\ fresh' = IF forwarding THEN (fresh \cup (Pressed(input') \ Pressed(Found))) \cap held'
                            ELSE {}

(* Mutant: room for one more key than there is.                            *)
PressOneMore(found, key) ==
  IF key \in ConsumerKeys THEN [found EXCEPT !.consumer = @ \cup {key}]
  ELSE IF Cardinality(found.keys) <= MAX_KEYS THEN [found EXCEPT !.keys = @ \cup {key}]
  ELSE found

(* update_hid_key_state and the consumer half of handle_key_down.  A full  *)
(* report takes no further key.                                            *)
Press(found, key) ==
  IF key \in ConsumerKeys THEN [found EXCEPT !.consumer = @ \cup {key}]
  ELSE IF Cardinality(found.keys) < MAX_KEYS THEN [found EXCEPT !.keys = @ \cup {key}]
  ELSE found

(* Mutant: letting go of a key of a full report takes another one along.   *)
ReleaseShiftsTwice(found, key) ==
  [found EXCEPT !.consumer = @ \ {key},
                !.keys = IF key \in @ /\ Cardinality(@) = MAX_KEYS THEN {} ELSE @ \ {key}]

Release(found, key) == [found EXCEPT !.consumer = @ \ {key}, !.keys = @ \ {key}]

-----------------------------------------------------------------------------
(* Key events.  A held key may be pressed again while it repeats.          *)
KeyGoesDown(key) ==
  /\ key \notin held \/ repeating = key
  /\ held' = held \cup {key} /\ repeating' = IF key \in RepeatingKeys THEN key ELSE None
  /\ UNCHANGED held_modifiers

KeyGoesUp(key) ==
  /\ key \in held
  /\ held' = held \ {key}
  /\ repeating' = IF repeating = key THEN None ELSE repeating
  /\ UNCHANGED held_modifiers

(* History of the Esc that is held, kept until the next event.             *)
Typed(times, refused) ==
  story' = IF Escape \in held
             THEN [story EXCEPT !.typed = @ + times, !.refused = @ \/ refused]
             ELSE NoStory

EscapeDown ==
  /\ KeyGoesDown(Escape)
  /\ input' = Found /\ escape_state' = "Pending"
  /\ Tell({})
  /\ Typed(0, FALSE)
  /\ UNCHANGED <<hotkey_keyup, forwarding, routed, answers, mac, cursorVars, left_at>>

(* handle_slot_hotkey for a slot the table has; it does not wait for the   *)
(* answer to an earlier one.                                               *)
Chord(digit) ==
  /\ escape_state = "Pending"
  /\ RoomOnTheWay
  /\ KeyGoesDown(digit)
  /\ input' = Found /\ hotkey_keyup' = digit /\ escape_state' = "ChordUsed"
  /\ asked' = Append(asked, SelectPeer(IF digit = MacDigit THEN "mac" ELSE "peer"))
  /\ story' = [story EXCEPT !.chord = TRUE]
  /\ fresh' = {} /\ stale' = Crossed
  /\ UNCHANGED <<forwarding, routed, answers, viewVars, cursorVars, left_at>>

(* Mutant: a flushed Esc stays pending, so its release types it again.     *)
StaysPending == escape_state' = escape_state

(* flush_pending_escape, as it leaves the escape state.                    *)
Flushed == escape_state' = IF escape_state = "Pending" THEN "Forwarded" ELSE escape_state

(* Any other key, a digit without a slot among them.  A pending Esc is     *)
(* typed first.                                                            *)
OrdinaryDown(key) ==
  /\ ~(escape_state = "Pending" /\ key = MacDigit)
  /\ KeyGoesDown(key)
  /\ LET flush   == escape_state = "Pending"
         escaped == IF flush THEN Press(Found, Escape) ELSE Found
     IN  IF forwarding
           THEN /\ input' = Press(escaped, key)
                /\ Typed(IF escaped # Found THEN 1 ELSE 0, flush /\ escaped = Found)
                /\ UNCHANGED mac
           ELSE /\ input' = Found
                /\ Typed(IF flush THEN 1 ELSE 0, FALSE)
                /\ mac' = mac \cup {key} \cup (IF flush THEN {Escape} ELSE {})
  /\ Flushed
  /\ Tell(Changed)
  /\ UNCHANGED <<hotkey_keyup, forwarding, routed, answers, cursorVars, left_at>>

(* finish_escape.                                                          *)
EscapeUp ==
  /\ KeyGoesUp(Escape)
  /\ LET pending == escape_state = "Pending"
         finish  == escape_state \in {"Pending", "Forwarded"}
         room    == Press(Found, Escape) # Found
     IN  IF forwarding
           THEN /\ input' = IF finish THEN Release(Found, Escape) ELSE Found
                /\ Typed(IF pending /\ room THEN 1 ELSE 0, pending /\ ~room)
                /\ Tell(IF pending /\ room THEN {"keys"} ELSE Changed)
                /\ mac' = mac \ {Escape}
           ELSE /\ input' = Found
                /\ Typed(IF pending THEN 1 ELSE 0, FALSE)
                /\ Tell({})
                /\ mac' = IF finish THEN mac \ {Escape} ELSE mac
  /\ escape_state' = "Idle"
  /\ UNCHANGED <<hotkey_keyup, forwarding, routed, answers, cursorVars, left_at>>

(* Mutant: the hotkey stays armed when its release has been seen.          *)
StaysArmed(key) == UNCHANGED hotkey_keyup

(* consume_hotkey_keyup.                                                   *)
Disarm(key) == hotkey_keyup' = IF hotkey_keyup = key THEN None ELSE hotkey_keyup

(* While forwarding the release is dropped, also that of a key the Mac saw *)
(* pressed before; `mac' does not count it as owed from then on.           *)
KeyUp(key) ==
  /\ KeyGoesUp(key)
  /\ Disarm(key)
  /\ input' = IF forwarding /\ hotkey_keyup # key THEN Release(Found, key) ELSE Found
  /\ mac' = IF ~forwarding /\ hotkey_keyup = key THEN mac ELSE mac \ {key}
  /\ Tell(Changed) /\ Typed(0, FALSE)
  /\ UNCHANGED <<escape_state, forwarding, routed, answers, cursorVars, left_at>>

-----------------------------------------------------------------------------
(* Modifiers and the mouse.                                                *)

Siblings(modifier) == {m \in Modifiers : m[1] = modifier[1]} \ {modifier}

(* Mutant: the two sides of a modifier are not told apart.                 *)
TransitionBySide(current, modifier, generic_pressed) ==
  IF generic_pressed THEN current \cup {modifier} ELSE current \ {modifier}

(* apply_modifier_transition: an event names the key that changed and      *)
(* says only whether one of its kind is down.                              *)
ModifierTransition(current, modifier, generic_pressed) ==
  IF generic_pressed /\ ~(modifier \in current /\ Siblings(modifier) \cap current # {})
    THEN current \cup {modifier}
    ELSE current \ {modifier}

(* handle_flags_changed; the Mac gets every modifier event as well.        *)
ModifierChanges(modifier) ==
  /\ held_modifiers' = IF modifier \in held_modifiers THEN held_modifiers \ {modifier}
                                                      ELSE held_modifiers \cup {modifier}
  /\ LET generic_pressed == held_modifiers' \cap ({modifier} \cup Siblings(modifier)) # {}
     IN  input' = IF forwarding
                    THEN [input EXCEPT !.modifiers =
                            ModifierTransition(@, modifier, generic_pressed)]
                    ELSE Found
  /\ UNCHANGED <<held, repeating>>
  /\ Tell(Changed) /\ Typed(0, FALSE)
  /\ UNCHANGED <<hotkey_keyup, escape_state, forwarding, routed, answers, mac,
                 cursorVars, left_at>>

(* Mouse and scroll events: dropped while forwarding.                      *)
MouseMoves(place) ==
  /\ place # position
  /\ position' = IF forwarding THEN position ELSE place
  /\ UNCHANGED userVars
  /\ input' = Found
  /\ Tell({}) /\ Typed(0, FALSE)
  /\ UNCHANGED <<hotkey_keyup, escape_state, forwarding, routed, answers, mac,
                 syncing, session, hides, left_at>>

-----------------------------------------------------------------------------
(* The other side of the switch: Session::select_peer and the fw-events    *)
(* thread of the host, see Session and Host.                               *)

(* What the peer shows when a selection has been handled: the snapshots    *)
(* that were queued behind it, over what it showed before.                 *)
Shows(view) ==
  [kind \in Kinds |-> IF routed' /\ Head(asked).snapshots[kind] # None
                       THEN Head(asked).snapshots[kind] ELSE view[kind]]

(* The new peer, or the Mac, gets what was queued behind the request.      *)
FirmwareSwitches ==
  /\ asked # <<>>
  /\ routed' = (Head(asked).to = "peer") /\ answers' = Append(answers, routed')
  /\ remote' = Shows(NothingDown)
  /\ asked' = Tail(asked)
  /\ UNCHANGED <<userVars, tapVars, forwarding, mac, cursorVars, history>>

(* History: with input local and no switch under way all is forgotten.     *)
Over == stale' = IF Settled' /\ ~forwarding' THEN {} ELSE stale

(* The slot is active already, or its peer has gone: nothing changes, and  *)
(* the flag stays.                                                         *)
FirmwareIgnores ==
  /\ asked # <<>> /\ Head(asked).to = "peer"
  /\ UNCHANGED routed
  /\ remote' = Shows(remote)
  /\ asked' = Tail(asked)
  /\ UNCHANGED <<userVars, tapVars, forwarding, answers, mac, cursorVars, story, fresh, left_at>>
  /\ Over

(* The active peer may drop at any time.  The two messages that tell of it *)
(* set the flag alike and are one answer here.                             *)
PeerDrops ==
  /\ routed /\ RoomOnTheWay
  /\ routed' = FALSE /\ answers' = Append(answers, FALSE)
  /\ remote' = NothingDown /\ fresh' = {} /\ stale' = Crossed
  /\ UNCHANGED <<userVars, tapVars, forwarding, asked, mac, cursorVars, story, left_at>>

(* set_active or disconnect; then, with the table unlocked, sync_cursor.   *)
FlagFollows ==
  /\ answers # <<>> /\ ~syncing
  /\ forwarding' = Head(answers) /\ answers' = Tail(answers) /\ syncing' = TRUE
  /\ left_at' = IF forwarding' /\ ~forwarding THEN position ELSE left_at
  /\ fresh' = IF forwarding' THEN fresh ELSE {}
  /\ UNCHANGED <<userVars, tapVars, asked, routed, viewVars, session, position, hides,
                 story>>
  /\ Over

SyncForwarding ==
  /\ syncing /\ syncing' = FALSE
  /\ \E reading \in Readings(position) : session' = Transition(session, forwarding, reading)
  /\ hides' = hides + HideCalls(session, forwarding)
  /\ position' \in Warps(session, forwarding, position)
  /\ left_at' = IF forwarding THEN left_at ELSE None
  /\ UNCHANGED <<userVars, tapVars, forwarding, switchVars, viewVars, story, fresh, stale>>

-----------------------------------------------------------------------------
KeyEvent ==
  \/ EscapeDown \/ EscapeUp
  \/ \E digit \in Digits : Chord(digit)
  \/ \E key \in Keys \ {Escape} : OrdinaryDown(key) \/ KeyUp(key)

Switching == FirmwareSwitches \/ FirmwareIgnores \/ PeerDrops \/ FlagFollows \/ SyncForwarding

Next ==
  \/ KeyEvent
  \/ \E modifier \in Modifiers : ModifierChanges(modifier)
  \/ \E place \in Places : MouseMoves(place)
  \/ Switching

Spec == Init /\ [][Next]_vars

-----------------------------------------------------------------------------
(* Properties.                                                             *)

TapTypeOK ==
  /\ held \subseteq Keys /\ held_modifiers \subseteq Modifiers /\ repeating \in Keys \cup {None}
  /\ input \in Input /\ Cardinality(input.keys) <= MAX_KEYS
  /\ hotkey_keyup \in Digits \cup {None}
  /\ escape_state \in {"Idle", "Pending", "Forwarded", "ChordUsed"}
  /\ forwarding \in BOOLEAN /\ routed \in BOOLEAN
  /\ answers \in Seq(BOOLEAN) /\ Len(asked) + Len(answers) <= MaxOnTheWay
  /\ mac \subseteq Keys /\ remote \in View
  /\ syncing \in BOOLEAN /\ session \in CursorSessions /\ position \in Places /\ hides \in Int

(* No key is stuck on a peer: once a switch is over the peer shows only    *)
(* keys that the user holds.  When a second selection, or a drop of the    *)
(* peer, came before the first was over, a snapshot may have outlived its  *)
(* keys; it is put right by the next event that tells of keys of the kind, *)
(* and forgotten when input is local again.                                *)
NoGhostKeys ==
  Settled /\ forwarding => \A kind \in Kinds \ stale : remote[kind] \subseteq held

(* No key gets lost: what was pressed for this peer and had room in the    *)
(* report is down there until it is let go, whatever else is typed, also   *)
(* when it was pressed while several switches were under way.              *)
KeysArrive == Settled /\ forwarding /\ routed => fresh \subseteq Pressed(remote)

(* Esc is typed once per press, on whatever machine and however it ends,   *)
(* and not at all when it was half of a hotkey.                            *)
EscapeOnce ==
  [][(Escape \in held \ held') /\ ~story'.refused =>
       story'.typed = (IF story'.chord THEN 0 ELSE 1)]_vars

(* A key that the Mac saw pressed does not stick there when it is let go   *)
(* while input is local, whatever hotkeys and switches came in between.    *)
MacSeesRelease == mac \subseteq held

(* Once the tracked modifiers are the held ones, every change of a left or *)
(* right modifier keeps them so, although the event does not say whether   *)
(* it is a press or a release.                                             *)
ModifiersStayInStep ==
  [][input.modifiers = held_modifiers /\ forwarding =>
       input'.modifiers = held_modifiers']_vars

(* The cursor comes back to where it was when forwarding began, and is     *)
(* hidden once however the targets change.                                 *)
CursorKept ==
  /\ session.forwarding /\ session.restore_point # None => session.restore_point = left_at
  /\ hides = IF session.forwarding THEN 1 ELSE 0

(* "Check if a KeyDown is `Esc+1-5`.  If so, switch target": a digit that  *)
(* was a hotkey is not typed as well, on the peer that it switched to.     *)
ChordTypesNothing == Settled /\ forwarding => hotkey_keyup \notin Pressed(remote)
=============================================================================
