--------------------------- MODULE EventTapProofs ---------------------------
(***************************************************************************)
(* What TLAPS proves about the event tap, for any keys, any room in a      *)
(* report, and whatever switches and drops come between two events.        *)
(***************************************************************************)
EXTENDS EventTap, FiniteSetTheorems, TLAPS

LEMMA KeyFacts ==
  /\ Escape \notin Digits /\ MacDigit \in Digits
  /\ None \notin Keys \cup BOOLEAN /\ Escape \in Keys /\ Digits \subseteq Keys
  BY EventTapAssumption DEF EventTapAssumption, Digits, HidKeys, Keys

(* The steps of the switch leave the user, the tap and the Mac alone.      *)
LEMMA SwitchingLeavesTap ==
  ASSUME Switching
  PROVE  UNCHANGED <<userVars, tapVars, mac>>
  BY DEF Switching, FirmwareSwitches, FirmwareIgnores, PeerDrops, FlagFollows, SyncForwarding, viewVars

-----------------------------------------------------------------------------
(* The keys of the Mac.  Esc reaches the Mac only when it is flushed, and  *)
(* can then no longer repeat; a hotkey's digit was not down before.        *)
MacInv ==
  /\ mac \subseteq held
  /\ repeating \in RepeatingKeys \cup {None}
  /\ (escape_state # "Idle") = (Escape \in held)
  /\ Escape \in mac => escape_state = "Forwarded"
  /\ escape_state = "Pending" => repeating \in {Escape, None}
  /\ escape_state = "Forwarded" => repeating # Escape
  /\ hotkey_keyup # None => hotkey_keyup \in (held \cap Digits) \ mac

LEMMA MacInvInit == Init => MacInv
  BY DEF Init, MacInv

LEMMA MacInvStep ==
  ASSUME RepeatingKeys \cap Digits = {}, MacInv, [Next]_vars
  PROVE  MacInv'
  <1> USE KeyFacts
  <1>1. CASE EscapeDown
    BY <1>1 DEF EscapeDown, KeyGoesDown, MacInv
  <1>2. CASE EscapeUp
    <2>1. /\ held' = held \ {Escape} /\ Escape \in held /\ escape_state' = "Idle"
          /\ UNCHANGED hotkey_keyup
          /\ repeating' = IF repeating = Escape THEN None ELSE repeating
      BY <1>2 DEF EscapeUp, KeyGoesUp
    <2>2. mac' = mac \ {Escape} \/ (mac' = mac /\ escape_state # "Forwarded")
      <3>1. CASE forwarding
        BY <1>2, <3>1 DEF EscapeUp
      <3>2. CASE ~forwarding
        BY <1>2, <3>2 DEF EscapeUp
      <3> QED
        BY <3>1, <3>2
    <2> QED
      BY <2>1, <2>2 DEF MacInv
  <1>3. ASSUME NEW digit \in Digits, Chord(digit) PROVE MacInv'
    <2>1. digit \notin held /\ digit # Escape
      BY <1>3 DEF Chord, KeyGoesDown, MacInv
    <2> QED
      BY <1>3, <2>1 DEF Chord, KeyGoesDown, MacInv, viewVars
  <1>4. ASSUME NEW key \in Keys \ {Escape}, OrdinaryDown(key) PROVE MacInv'
    <2>1. /\ held' = held \cup {key} /\ UNCHANGED hotkey_keyup
          /\ repeating' = IF key \in RepeatingKeys THEN key ELSE None
      BY <1>4 DEF OrdinaryDown, KeyGoesDown
    <2>2. key # hotkey_keyup
      BY <1>4 DEF OrdinaryDown, KeyGoesDown, MacInv
    <2>3. mac' = mac \/ mac' = mac \cup {key} \cup (IF escape_state = "Pending" THEN {Escape} ELSE {})
      BY <1>4 DEF OrdinaryDown
    <2>4. escape_state' = IF escape_state = "Pending" THEN "Forwarded" ELSE escape_state
      BY <1>4 DEF OrdinaryDown, Flushed
    <2> QED
      BY <1>4, <2>1, <2>2, <2>3, <2>4 DEF MacInv
  <1>5. ASSUME NEW key \in Keys \ {Escape}, KeyUp(key) PROVE MacInv'
    BY <1>5 DEF KeyUp, KeyGoesUp, Disarm, MacInv
  <1>6. CASE \E modifier \in Modifiers : ModifierChanges(modifier)
    BY <1>6 DEF ModifierChanges, MacInv
  <1>7. CASE \E place \in Places : MouseMoves(place)
    BY <1>7 DEF MouseMoves, userVars, MacInv
  <1>8. CASE Switching
    BY <1>8, SwitchingLeavesTap DEF userVars, tapVars, MacInv
  <1>9. CASE UNCHANGED vars
    BY <1>9 DEF vars, userVars, tapVars, viewVars, MacInv
  <1> QED
    BY <1>1, <1>2, <1>3, <1>4, <1>5, <1>6, <1>7, <1>8, <1>9 DEF Next, KeyEvent

(* No key sticks on the Mac when it is let go while input is local, as     *)
(* long as the digit of a hotkey is not held until it repeats.  (When it   *)
(* is, see ChordTypesNothing.)                                             *)
THEOREM MacAlwaysSeesRelease ==
  ASSUME RepeatingKeys \cap Digits = {}
  PROVE  Spec => []MacSeesRelease
  <1>1. MacInv /\ [Next]_vars => MacInv'
    BY MacInvStep
  <1>2. MacInv => MacSeesRelease
    BY DEF MacInv, MacSeesRelease
  <1> QED
    BY <1>1, <1>2, MacInvInit, PTL DEF Spec

-----------------------------------------------------------------------------
(* The cursor.  While fw-events has set the flag and not yet moved the     *)
(* cursor, the cursor stays where it was when the flag rose.               *)
CursorInv ==
  /\ session \in CursorSessions /\ forwarding \in BOOLEAN /\ answers \in Seq(BOOLEAN)
  /\ position \in Places
  /\ ~session.forwarding => session.restore_point = None
  /\ ~syncing => session.forwarding = forwarding
  /\ syncing /\ forwarding /\ ~session.forwarding => position = left_at
  /\ CursorKept

LEMMA CursorInvInit == Init => CursorInv
  <1> SUFFICES ASSUME Init PROVE CursorInv
    OBVIOUS
  <1>1. /\ session \in CursorSessions /\ session.forwarding = FALSE
        /\ session.restore_point = None
    BY DEF Init, NewSession, CursorSessions
  <1>2. /\ hides = 0 /\ syncing = forwarding /\ forwarding \in BOOLEAN
        /\ answers = <<>> /\ position \in Places
        /\ forwarding => position = left_at
    BY DEF Init
  <1>3. CursorKept
    BY <1>1, <1>2 DEF CursorKept
  <1>4. ~syncing => session.forwarding = forwarding
    BY <1>1, <1>2
  <1> QED
    BY <1>1, <1>2, <1>3, <1>4 DEF CursorInv

(* The steps that do not touch the cursor, but may move the mouse.         *)
LEMMA CursorLeftAlone ==
  ASSUME CursorInv, position' \in Places, forwarding => position' = position, answers' \in Seq(BOOLEAN),
         UNCHANGED <<forwarding, syncing, session, hides, left_at>>
  PROVE  CursorInv'
  <1>1. CursorKept'
    BY DEF CursorInv, CursorKept
  <1>2. (syncing /\ forwarding /\ ~session.forwarding => position = left_at)'
    BY DEF CursorInv
  <1>3. (session \in CursorSessions /\ forwarding \in BOOLEAN)'
    BY DEF CursorInv
  <1>4. ((~session.forwarding => session.restore_point = None)
         /\ (~syncing => session.forwarding = forwarding))'
    BY DEF CursorInv
  <1> QED
    BY <1>1, <1>2, <1>3, <1>4 DEF CursorInv

LEMMA CursorInvStep ==
  ASSUME CursorInv, [Next]_vars
  PROVE  CursorInv'
  <1>0. position \in Places /\ answers \in Seq(BOOLEAN) /\ forwarding \in BOOLEAN
    BY DEF CursorInv
  <1>1. CASE KeyEvent \/ (\E modifier \in Modifiers : ModifierChanges(modifier)) \/ UNCHANGED vars
    <2>1. UNCHANGED <<forwarding, answers, cursorVars, left_at>>
      BY <1>1 DEF KeyEvent, EscapeDown, EscapeUp, Chord, OrdinaryDown, KeyUp, ModifierChanges,
                  vars, switchVars, history
    <2> QED
      BY <1>0, <2>1, CursorLeftAlone DEF cursorVars
  <1>2. CASE \E place \in Places : MouseMoves(place)
    BY <1>0, <1>2, CursorLeftAlone DEF MouseMoves
  <1>3. CASE FirmwareSwitches \/ FirmwareIgnores \/ PeerDrops
    <2>1. UNCHANGED <<forwarding, cursorVars, left_at>>
      BY <1>3 DEF FirmwareSwitches, FirmwareIgnores, PeerDrops, history
    <2>2. answers' = answers \/ \E answer \in BOOLEAN : answers' = Append(answers, answer)
      BY <1>3 DEF FirmwareSwitches, FirmwareIgnores, PeerDrops
    <2>3. answers' \in Seq(BOOLEAN)
      BY <1>0, <2>2
    <2> QED
      BY <1>0, <2>1, <2>3, CursorLeftAlone DEF cursorVars
  <1>4. CASE FlagFollows
    <2>1. forwarding' \in BOOLEAN /\ answers' \in Seq(BOOLEAN)
      BY <1>0, <1>4 DEF FlagFollows
    <2>2. session.forwarding = forwarding
      BY <1>4 DEF FlagFollows, CursorInv
    <2> QED
      BY <1>4, <2>1, <2>2 DEF FlagFollows, CursorInv, CursorKept
  <1>5. CASE SyncForwarding
    <2>1. PICK reading \in Readings(position) : session' = Transition(session, forwarding, reading)
      BY <1>5 DEF SyncForwarding
    <2>2. reading = position \/ reading = None
      BY <2>1 DEF Readings
    <2>3. session' \in CursorSessions /\ session'.forwarding = forwarding
      BY <1>0, <2>1, <2>2 DEF CursorInv, Transition, CursorSessions
    <2>4. ~session'.forwarding => session'.restore_point = None
      BY <1>0, <2>1 DEF CursorInv, Transition, CursorSessions
    <2>5. position' \in Places
      BY <1>0, <1>5 DEF SyncForwarding, Warps, CursorInv, CursorSessions
    <2>6. hides' = IF session'.forwarding THEN 1 ELSE 0
      BY <1>0, <1>5, <2>3 DEF SyncForwarding, HideCalls, CursorInv, CursorKept, CursorSessions
    <2>7. session'.forwarding /\ session'.restore_point # None => session'.restore_point = left_at'
      <3>1. CASE session.forwarding = forwarding
        BY <1>5, <2>1, <2>3, <3>1 DEF SyncForwarding, Transition, CursorInv, CursorKept
      <3>2. CASE session.forwarding # forwarding
        BY <1>0, <1>5, <2>1, <2>2, <2>3, <3>2 DEF SyncForwarding, Transition, CursorInv, CursorSessions
      <3> QED
        BY <3>1, <3>2
    <2> QED
      BY <1>0, <1>5, <2>3, <2>4, <2>5, <2>6, <2>7 DEF SyncForwarding, switchVars, CursorInv, CursorKept
  <1> QED
    BY <1>1, <1>2, <1>3, <1>4, <1>5 DEF Next, Switching

(* The cursor is brought back to where it was when forwarding began, and   *)
(* hide and show calls are balanced, in whatever order targets change and  *)
(* whichever calls of macOS fail.                                          *)
THEOREM CursorAlwaysKept == Spec => []CursorKept
  <1>1. CursorInv => CursorKept
    BY DEF CursorInv
  <1> QED
    BY <1>1, CursorInvInit, CursorInvStep, PTL DEF Spec

-----------------------------------------------------------------------------
(* What is tracked of the keys, and its type.  A report has room for       *)
(* MAX_KEYS keys.                                                          *)
LEMMA PressFacts ==
  ASSUME NEW found \in Input, NEW key \in Keys
  PROVE  /\ Press(found, key) \in Input
         /\ Press(found, key).keys \subseteq found.keys \cup {key}
         /\ Press(found, key).consumer \subseteq found.consumer \cup {key}
         /\ found.consumer \subseteq Press(found, key).consumer
         /\ key \notin ConsumerKeys => Press(found, key).consumer = found.consumer
  BY DEF Input, Press, Keys

LEMMA ReleaseFacts ==
  ASSUME NEW found \in Input, NEW key
  PROVE  /\ Release(found, key) \in Input
         /\ Release(found, key).keys = found.keys \ {key}
         /\ Release(found, key).consumer = found.consumer \ {key}
  BY DEF Input, Release

LEMMA FoundFacts ==
  ASSUME input \in Input
  PROVE  /\ Found \in Input
         /\ \A kind \in Kinds : Found[kind] \subseteq input[kind]
         /\ Found.keys \subseteq input.keys /\ Found.consumer \subseteq input.consumer
         /\ forwarding => Found = input
  BY DEF Found, Released, Input, Kinds

LEMMA PressFits ==
  ASSUME NEW found \in Input, NEW key, Cardinality(found.keys) <= MAX_KEYS
  PROVE  /\ Cardinality(Press(found, key).keys) <= MAX_KEYS
         /\ Cardinality(Release(found, key).keys) <= MAX_KEYS
  <1> DEFINE k == found.keys
  <1>1. /\ k \in SUBSET HidKeys /\ IsFiniteSet(HidKeys) /\ MAX_KEYS \in Nat
        /\ found = [modifiers |-> found.modifiers, keys |-> k, consumer |-> found.consumer]
    BY EventTapAssumption DEF EventTapAssumption, Input
  <1>2. IsFiniteSet(k) /\ Cardinality(k) \in Nat
    <2> HIDE DEF k
    <2> QED
      BY <1>1, FS_Subset, FS_CardinalityType
  <1>3. Press(found, key).keys = k \/ (Cardinality(k) < MAX_KEYS /\ Press(found, key).keys = k \cup {key})
    BY <1>1 DEF Press
  <1>4. Release(found, key).keys = k \ {key}
    BY <1>1 DEF Release
  <1>5. Cardinality(k) <= MAX_KEYS
    OBVIOUS
  <1> HIDE DEF k
  <1> DEFINE more == k \cup {key}
             n    == Cardinality(more)
  <1>6. n <= Cardinality(k) + 1 /\ n \in Nat
    <2>1. n = IF key \in k THEN Cardinality(k) ELSE Cardinality(k) + 1
      BY <1>2, FS_AddElement
    <2> HIDE DEF n
    <2> QED
      BY <1>2, <2>1
  <1>7. Cardinality(k \ {key}) <= Cardinality(k)
    BY <1>2, FS_RemoveElement
  <1>8. Cardinality(Press(found, key).keys) <= MAX_KEYS
    <2>1. Press(found, key).keys = k \/ (Cardinality(k) < MAX_KEYS /\ Press(found, key).keys = more)
      BY <1>3
    <2>2. Cardinality(k) < MAX_KEYS => n <= MAX_KEYS
      <3> HIDE DEF n
      <3> QED
        BY <1>1, <1>2, <1>6
    <2> HIDE DEF more
    <2> QED
      BY <1>5, <2>1, <2>2
  <1>9. Cardinality(Release(found, key).keys) <= MAX_KEYS
    <2>1. Cardinality(k \ {key}) \in Nat
      BY <1>2, FS_RemoveElement, FS_CardinalityType
    <2> QED
      BY <1>1, <1>2, <1>4, <1>5, <1>7, <2>1
  <1> QED
    BY <1>8, <1>9

TrackedOK == input \in Input /\ Cardinality(input.keys) <= MAX_KEYS

LEMMA FoundFits ==
  ASSUME TrackedOK
  PROVE  Found \in Input /\ Cardinality(Found.keys) <= MAX_KEYS
  <1>1. Cardinality({}) <= MAX_KEYS
    BY FS_EmptySet, EventTapAssumption DEF EventTapAssumption
  <1> QED
    BY <1>1, FoundFacts DEF TrackedOK, Found, Released

LEMMA TrackedStep ==
  ASSUME TrackedOK, [Next]_vars
  PROVE  TrackedOK'
  <1> USE KeyFacts
  <1>0. /\ Found \in Input /\ Cardinality(Found.keys) <= MAX_KEYS
        /\ input \in Input /\ Cardinality(input.keys) <= MAX_KEYS
    BY FoundFits DEF TrackedOK
  <1>1. CASE input' = Found \/ input' = input
    BY <1>0, <1>1 DEF TrackedOK
  <1>2. ASSUME NEW key \in Keys, input' = Release(Found, key) PROVE TrackedOK'
    BY <1>0, <1>2, PressFits, ReleaseFacts DEF TrackedOK
  <1>3. ASSUME NEW key \in Keys, OrdinaryDown(key) PROVE TrackedOK'
    <2> DEFINE escaped == IF escape_state = "Pending" THEN Press(Found, Escape) ELSE Found
    <2>1. input' = Press(escaped, key) \/ input' = Found
      BY <1>3 DEF OrdinaryDown
    <2>2. escaped \in Input /\ Cardinality(escaped.keys) <= MAX_KEYS
      BY <1>0, PressFacts, PressFits
    <2> HIDE DEF escaped
    <2>3. Press(escaped, key) \in Input /\ Cardinality(Press(escaped, key).keys) <= MAX_KEYS
      BY <2>2, PressFacts, PressFits
    <2> QED
      BY <1>1, <2>1, <2>3 DEF TrackedOK
  <1>4. ASSUME NEW modifier \in Modifiers, ModifierChanges(modifier) PROVE TrackedOK'
    <2> DEFINE g == held_modifiers' \cap ({modifier} \cup Siblings(modifier)) # {}
    <2>1. CASE forwarding
      <3>1. ModifierTransition(input.modifiers, modifier, g) \subseteq Modifiers
        BY <1>0, <1>4 DEF ModifierTransition, Input
      <3>2. input' = [input EXCEPT !.modifiers = ModifierTransition(@, modifier, g)]
        BY <1>4, <2>1 DEF ModifierChanges
      <3>3. input' \in Input /\ input'.keys = input.keys
        BY <1>0, <3>1, <3>2 DEF Input
      <3> QED
        BY <1>0, <3>3 DEF TrackedOK
    <2>2. CASE ~forwarding
      BY <1>1, <1>4, <2>2 DEF ModifierChanges
    <2> QED
      BY <2>1, <2>2
  <1>5. KeyEvent => \/ input' = Found
                    \/ \E key \in Keys : input' = Release(Found, key)
                    \/ \E key \in Keys : OrdinaryDown(key)
    BY DEF KeyEvent, EscapeDown, EscapeUp, Chord, KeyUp
  <1>6. (\E place \in Places : MouseMoves(place)) \/ Switching \/ UNCHANGED vars =>
          input' = Found \/ input' = input
    BY SwitchingLeavesTap DEF MouseMoves, vars, tapVars
  <1> QED
    BY <1>1, <1>2, <1>3, <1>4, <1>5, <1>6 DEF Next

(* What is queued behind a SelectPeer is a view whose snapshots may be     *)
(* missing.                                                                *)
Snapshots == [keys : (SUBSET HidKeys) \cup {None}, consumer : (SUBSET ConsumerKeys) \cup {None}]
Requests  == [to : {"mac", "peer"}, snapshots : Snapshots]

WayOK ==
  /\ asked \in Seq(Requests) /\ answers \in Seq(BOOLEAN) /\ routed \in BOOLEAN
  /\ Len(asked) + Len(answers) <= MaxOnTheWay

ViewsOK == remote \in View /\ mac \subseteq Keys

TypeInv == TapTypeOK /\ WayOK

LEMMA LastRequest ==
  ASSUME asked \in Seq(Requests), asked # <<>>
  PROVE  /\ Len(asked) \in DOMAIN asked /\ Len(asked) \in Nat /\ Len(asked) > 0
         /\ asked[Len(asked)] \in Requests
         /\ Head(asked) = asked[1] /\ Head(asked) \in Requests
         /\ Tail(asked) \in Seq(Requests) /\ Len(Tail(asked)) = Len(asked) - 1
         /\ \A i \in 1 .. Len(asked) - 1 : Tail(asked)[i] = asked[i + 1]
  OBVIOUS

LEMMA ToldType ==
  ASSUME input' \in Input, NEW kinds
  PROVE  /\ \A view \in View : Told(view, kinds) \in View
         /\ \A view \in Snapshots : Told(view, kinds) \in Snapshots
  BY DEF Told, View, Input, Snapshots, Kinds

(* What a message queued behind the last selection does to the queue.      *)
LEMMA PushBehind ==
  ASSUME asked \in Seq(Requests), asked # <<>>, input' \in Input, NEW kinds, Push(kinds)
  PROVE  /\ asked' \in Seq(Requests) /\ Len(asked') = Len(asked)
         /\ \A kind \in Kinds :
              asked'[Len(asked)].snapshots[kind]
                = IF kind \in kinds THEN input'[kind] ELSE asked[Len(asked)].snapshots[kind]
  <1> DEFINE n    == Len(asked)
             last == asked[n]
             told == Told(last.snapshots, kinds)
             new  == [last EXCEPT !.snapshots = told]
  <1>1. n \in DOMAIN asked /\ last \in Requests
    BY LastRequest
  <1>2. told \in Snapshots
    BY <1>1, ToldType DEF Requests
  <1>3. asked' = [asked EXCEPT ![n] = new]
    BY DEF Push
  <1>4. new \in Requests /\ new.snapshots = told
    <2> HIDE DEF told, last
    <2> QED
      BY <1>1, <1>2 DEF Requests
  <1>5. \A kind \in Kinds : told[kind] = IF kind \in kinds THEN input'[kind] ELSE last.snapshots[kind]
    BY DEF Told
  <1> HIDE DEF new
  <1>6. asked' \in Seq(Requests) /\ Len(asked') = Len(asked) /\ asked'[n] = new
    BY <1>1, <1>3, <1>4
  <1> QED
    BY <1>4, <1>5, <1>6

LEMMA PushType ==
  ASSUME WayOK, remote \in View, input' \in Input, NEW kinds, Push(kinds)
  PROVE  remote' \in View /\ asked' \in Seq(Requests) /\ Len(asked') = Len(asked)
  <1>1. CASE asked = <<>>
    BY <1>1, ToldType DEF Push, WayOK
  <1>2. CASE asked # <<>>
    BY <1>2, PushBehind DEF Push, WayOK
  <1> QED
    BY <1>1, <1>2

(* An event that is no hotkey tells something, perhaps nothing at all.     *)
LEMMA EventTells ==
  ASSUME \/ EscapeDown \/ EscapeUp
         \/ \E key \in Keys \ {Escape} : OrdinaryDown(key) \/ KeyUp(key)
         \/ \E modifier \in Modifiers : ModifierChanges(modifier)
         \/ \E place \in Places : MouseMoves(place)
  PROVE  (\E kinds : Tell(kinds)) /\ UNCHANGED <<forwarding, routed, answers>>
  BY DEF EscapeDown, EscapeUp, OrdinaryDown, KeyUp, ModifierChanges, MouseMoves

LEMMA ViewsStep ==
  ASSUME TrackedOK', ViewsOK, WayOK, [Next]_vars
  PROVE  ViewsOK' /\ WayOK'
  <1> USE KeyFacts
  <1>1. ASSUME NEW kinds, Tell(kinds), UNCHANGED <<routed, answers>>
        PROVE  remote' \in View /\ WayOK'
    BY <1>1, PushType DEF Tell, ViewsOK, TrackedOK, WayOK
  <1>2. CASE \/ EscapeDown \/ EscapeUp
             \/ \E key \in Keys \ {Escape} : OrdinaryDown(key) \/ KeyUp(key)
             \/ \E modifier \in Modifiers : ModifierChanges(modifier)
             \/ \E place \in Places : MouseMoves(place)
    <2>1. (\E kinds : Tell(kinds)) /\ UNCHANGED <<routed, answers>>
      BY <1>2, EventTells
    <2>2. mac' \subseteq mac \cup Keys
      BY <1>2 DEF EscapeDown, EscapeUp, OrdinaryDown, KeyUp, ModifierChanges, MouseMoves
    <2> QED
      BY <1>1, <2>1, <2>2 DEF ViewsOK
  <1>3. ASSUME NEW digit \in Digits, Chord(digit) PROVE ViewsOK' /\ WayOK'
    <2> DEFINE request == SelectPeer(IF digit = MacDigit THEN "mac" ELSE "peer")
    <2>1. request \in Requests
      BY DEF SelectPeer, Requests, Snapshots, Unpushed
    <2>2. asked' = Append(asked, request) /\ RoomOnTheWay /\ UNCHANGED <<routed, answers, viewVars>>
      BY <1>3 DEF Chord
    <2> HIDE DEF request
    <2>3. asked' \in Seq(Requests) /\ Len(asked') = Len(asked) + 1
      BY <2>1, <2>2 DEF WayOK
    <2>4. Len(asked) \in Nat /\ Len(answers) \in Nat /\ MaxOnTheWay \in Nat
      BY EventTapAssumption DEF EventTapAssumption, WayOK
    <2> QED
      BY <2>2, <2>3, <2>4 DEF RoomOnTheWay, viewVars, ViewsOK, WayOK
  <1>4. ASSUME asked # <<>>, NEW view \in View, remote' = Shows(view), routed' \in BOOLEAN
        PROVE  remote' \in View
    <2>1. Head(asked).snapshots \in Snapshots
      BY <1>4, LastRequest DEF WayOK, Requests
    <2> QED
      BY <1>4, <2>1 DEF Shows, View, Snapshots, Kinds
  <1>5. NothingDown \in View
    BY DEF NothingDown, View
  <1>6. CASE FirmwareSwitches
    <2>1. /\ asked # <<>> /\ routed' \in BOOLEAN /\ answers' = Append(answers, routed')
          /\ asked' = Tail(asked) /\ mac' = mac /\ remote' \in View
      BY <1>4, <1>5, <1>6 DEF FirmwareSwitches
    <2>2. /\ answers' \in Seq(BOOLEAN) /\ Len(answers') = Len(answers) + 1
          /\ asked' \in Seq(Requests) /\ Len(asked') = Len(asked) - 1
          /\ Len(asked) \in Nat /\ Len(answers) \in Nat
      BY <2>1, LastRequest DEF WayOK
    <2> QED
      BY <2>1, <2>2, EventTapAssumption DEF ViewsOK, WayOK, EventTapAssumption
  <1>7. CASE FirmwareIgnores
    <2>1. /\ asked # <<>> /\ UNCHANGED <<routed, answers>>
          /\ asked' = Tail(asked) /\ mac' = mac /\ remote' \in View
      BY <1>4, <1>7 DEF FirmwareIgnores, ViewsOK, WayOK
    <2>2. /\ asked' \in Seq(Requests) /\ Len(asked') = Len(asked) - 1
          /\ Len(asked) \in Nat /\ Len(answers) \in Nat
      BY <2>1, LastRequest DEF WayOK
    <2> QED
      BY <2>1, <2>2, EventTapAssumption DEF ViewsOK, WayOK, EventTapAssumption
  <1>8. CASE PeerDrops
    <2>1. /\ routed' = FALSE /\ answers' = Append(answers, FALSE) /\ RoomOnTheWay
          /\ asked' = asked /\ mac' = mac /\ remote' = NothingDown
      BY <1>8 DEF PeerDrops
    <2>2. /\ answers' \in Seq(BOOLEAN) /\ Len(answers') = Len(answers) + 1
          /\ Len(asked) \in Nat /\ Len(answers) \in Nat
      BY <2>1 DEF WayOK
    <2>3. Len(asked) + Len(answers') <= MaxOnTheWay
      BY <2>1, <2>2, EventTapAssumption DEF RoomOnTheWay, EventTapAssumption
    <2> QED
      BY <1>5, <2>1, <2>2, <2>3 DEF ViewsOK, WayOK
  <1>9. CASE FlagFollows
    <2>1. answers # <<>> /\ answers' = Tail(answers) /\ UNCHANGED <<asked, routed, mac, remote>>
      BY <1>9 DEF FlagFollows, viewVars
    <2>2. /\ answers' \in Seq(BOOLEAN) /\ Len(answers') = Len(answers) - 1
          /\ Len(asked) \in Nat /\ Len(answers) \in Nat
      BY <2>1 DEF WayOK
    <2> QED
      BY <2>1, <2>2, EventTapAssumption DEF ViewsOK, WayOK, EventTapAssumption
  <1>10. CASE SyncForwarding \/ UNCHANGED vars
    BY <1>10 DEF SyncForwarding, vars, switchVars, viewVars, ViewsOK, WayOK
  <1> QED
    BY <1>2, <1>3, <1>6, <1>7, <1>8, <1>9, <1>10 DEF Next, KeyEvent, Switching

LEMMA TypeInvInit == Init => TypeInv
  <1> SUFFICES ASSUME Init PROVE TypeInv
    OBVIOUS
  <1>1. /\ input \in Input /\ remote \in View /\ session \in CursorSessions
    BY DEF Init, Released, NothingDown, NewSession, Input, View, CursorSessions
  <1>2. Cardinality(input.keys) <= MAX_KEYS
    BY FS_EmptySet, EventTapAssumption DEF Init, Released, EventTapAssumption
  <1>3. held = {} /\ held_modifiers = {} /\ repeating = None /\ hotkey_keyup = None /\ mac = {}
        /\ escape_state = "Idle" /\ forwarding \in BOOLEAN /\ routed = forwarding
        /\ asked = <<>> /\ answers = <<>> /\ syncing = forwarding /\ position \in Places /\ hides = 0
    BY DEF Init
  <1>4. WayOK
    BY <1>3, EventTapAssumption DEF WayOK, EventTapAssumption
  <1> QED
    BY <1>1, <1>2, <1>3, <1>4 DEF TypeInv, TapTypeOK, WayOK

LEMMA TypeInvStep ==
  ASSUME TypeInv, CursorInv', [Next]_vars
  PROVE  TypeInv'
  <1> USE KeyFacts
  <1>1. TrackedOK' /\ ViewsOK' /\ WayOK'
    BY TrackedStep, ViewsStep DEF TypeInv, TapTypeOK, TrackedOK, ViewsOK
  <1>2. held' \subseteq Keys /\ held_modifiers' \subseteq Modifiers /\ repeating' \in Keys \cup {None}
    <2>0. held \subseteq Keys /\ held_modifiers \subseteq Modifiers /\ repeating \in Keys \cup {None}
      BY DEF TypeInv, TapTypeOK
    <2>1. \/ (\E key \in Keys : KeyGoesDown(key) \/ KeyGoesUp(key))
          \/ (\E modifier \in Modifiers : ModifierChanges(modifier))
          \/ UNCHANGED userVars
      BY SwitchingLeavesTap DEF Next, KeyEvent, EscapeDown, EscapeUp, Chord, OrdinaryDown, KeyUp,
                                MouseMoves, vars
    <2> QED
      BY <2>0, <2>1 DEF KeyGoesDown, KeyGoesUp, ModifierChanges, userVars
  <1>3. /\ hotkey_keyup' \in Digits \cup {None}
        /\ escape_state' \in {"Idle", "Pending", "Forwarded", "ChordUsed"}
    <2>0. /\ hotkey_keyup \in Digits \cup {None}
          /\ escape_state \in {"Idle", "Pending", "Forwarded", "ChordUsed"}
      BY DEF TypeInv, TapTypeOK
    <2>1. hotkey_keyup' = hotkey_keyup \/ hotkey_keyup' = None \/ hotkey_keyup' \in Digits
      BY SwitchingLeavesTap DEF Next, KeyEvent, EscapeDown, EscapeUp, Chord, OrdinaryDown, KeyUp, Disarm,
                                ModifierChanges, MouseMoves, vars, tapVars
    <2>2. escape_state' = escape_state \/ escape_state' \in {"Idle", "Pending", "Forwarded", "ChordUsed"}
      BY SwitchingLeavesTap DEF Next, KeyEvent, EscapeDown, EscapeUp, Chord, OrdinaryDown, KeyUp, Flushed,
                                ModifierChanges, MouseMoves, vars, tapVars
    <2> QED
      BY <2>0, <2>1, <2>2
  <1>4. syncing' \in BOOLEAN
    <2>0. syncing \in BOOLEAN
      BY DEF TypeInv, TapTypeOK
    <2>1. syncing' = syncing \/ syncing' \in BOOLEAN
      BY DEF Next, KeyEvent, EscapeDown, EscapeUp, Chord, OrdinaryDown, KeyUp, ModifierChanges,
             MouseMoves, Switching, FirmwareSwitches, FirmwareIgnores, PeerDrops, FlagFollows,
             SyncForwarding, vars, cursorVars
    <2> QED
      BY <2>0, <2>1
  <1>5. hides' \in Int
    BY DEF CursorInv, CursorKept
  <1>6. forwarding' \in BOOLEAN /\ session' \in CursorSessions /\ position' \in Places
    BY DEF CursorInv
  <1> QED
    BY <1>1, <1>2, <1>3, <1>4, <1>5, <1>6 DEF TypeInv, TapTypeOK, TrackedOK, ViewsOK, WayOK

LEMMA TypeInvariant == Spec => []TypeInv
  BY TypeInvInit, TypeInvStep, CursorInvInit, CursorInvStep, PTL DEF Spec

(* The tap's state, and the report's bound on its keys.                    *)
THEOREM TapTypeCorrect == Spec => []TapTypeOK
  <1>1. TypeInv => TapTypeOK
    BY DEF TypeInv
  <1> QED
    BY <1>1, TypeInvariant, PTL

-----------------------------------------------------------------------------
(* The keys of the peer.  First what is tracked: keys that are held, of    *)
(* the kind they are stored as; Esc only once it was flushed, and never    *)
(* the digit whose release will be swallowed.                              *)
InputInv ==
  /\ input \in Input
  /\ \A kind \in Kinds : input[kind] \subseteq held
  /\ Escape \in input.keys => escape_state = "Forwarded"
  /\ hotkey_keyup \notin input.keys \cup input.consumer

LEMMA InputInvInit == Init => InputInv
  BY KeyFacts DEF Init, InputInv, Input, Released, Kinds

(* An event that leaves of what it found only keys that stay held.         *)
LEMMA InputShrinks ==
  ASSUME InputInv, input' \in Input,
         input'.keys \subseteq Found.keys, input'.consumer \subseteq Found.consumer,
         input'.keys \cup input'.consumer \subseteq held',
         hotkey_keyup' \notin input'.keys \cup input'.consumer,
         Escape \in input'.keys => escape_state' = "Forwarded"
  PROVE  InputInv'
  BY DEF InputInv, Kinds

LEMMA InputInvStep ==
  ASSUME RepeatingKeys \cap Digits = {}, MacInv, InputInv, [Next]_vars
  PROVE  InputInv'
  <1> USE KeyFacts
  <1>0. /\ input \in Input /\ Found \in Input
        /\ Found.keys \subseteq input.keys /\ Found.consumer \subseteq input.consumer
        /\ input.keys \cup input.consumer \subseteq held
    BY FoundFacts DEF InputInv, Kinds
  <1>a. Escape \notin input.consumer
    BY <1>0, EventTapAssumption DEF EventTapAssumption, Input, HidKeys
  <1>1. CASE EscapeDown
    BY <1>0, <1>1, InputShrinks DEF EscapeDown, KeyGoesDown, MacInv, InputInv
  <1>2. CASE EscapeUp
    <2>1. input' = Found \/ input' = Release(Found, Escape)
      BY <1>2 DEF EscapeUp
    <2>2. /\ held' = held \ {Escape} /\ UNCHANGED hotkey_keyup
          /\ Escape \in held
      BY <1>2 DEF EscapeUp, KeyGoesUp
    <2>3. Escape \notin input'.keys
      <3>1. CASE escape_state \in {"Pending", "Forwarded"} /\ forwarding
        <4>1. input' = Release(Found, Escape)
          BY <1>2, <3>1 DEF EscapeUp
        <4> QED
          BY <1>0, <4>1, ReleaseFacts
      <3>2. CASE ~forwarding
        BY <1>2, <3>2 DEF EscapeUp, Found, Released
      <3>3. CASE escape_state \notin {"Pending", "Forwarded"}
        <4>1. Escape \notin input.keys
          BY <3>3 DEF InputInv
        <4> QED
          BY <1>0, <2>1, <4>1, ReleaseFacts
      <3> QED
        BY <3>1, <3>2, <3>3
    <2>4. input' \in Input /\ input'.keys \subseteq Found.keys /\ input'.consumer \subseteq Found.consumer
      BY <1>0, <2>1, ReleaseFacts
    <2> QED
      BY <1>0, <1>a, <2>2, <2>3, <2>4, InputShrinks DEF InputInv
  <1>3. ASSUME NEW digit \in Digits, Chord(digit) PROVE InputInv'
    <2>1. digit \notin held
      BY <1>3 DEF Chord, KeyGoesDown, MacInv
    <2>2. Escape \notin input.keys
      BY <1>3 DEF Chord, InputInv
    <2> QED
      BY <1>0, <1>3, <2>1, <2>2, InputShrinks DEF Chord, KeyGoesDown
  <1>4. ASSUME NEW key \in Keys \ {Escape}, OrdinaryDown(key) PROVE InputInv'
    <2> DEFINE escaped == IF escape_state = "Pending" THEN Press(Found, Escape) ELSE Found
    <2>1. held' = held \cup {key} /\ UNCHANGED hotkey_keyup /\ key # hotkey_keyup
      BY <1>4 DEF OrdinaryDown, KeyGoesDown, MacInv
    <2>2. /\ escape_state' = IF escape_state = "Pending" THEN "Forwarded" ELSE escape_state
          /\ escape_state = "Pending" => Escape \in held
      BY <1>4 DEF OrdinaryDown, Flushed, MacInv
    <2>3. CASE forwarding
      <3>1. input' = Press(escaped, key)
        BY <1>4, <2>3 DEF OrdinaryDown
      <3>2. /\ escaped \in Input
            /\ escaped.keys \subseteq Found.keys \cup (IF escape_state = "Pending" THEN {Escape} ELSE {})
            /\ escaped.consumer = Found.consumer
        BY <1>0, PressFacts, EventTapAssumption DEF EventTapAssumption, HidKeys
      <3> HIDE DEF escaped
      <3>3. /\ input' \in Input
            /\ input'.keys \subseteq escaped.keys \cup {key}
            /\ input'.consumer \subseteq escaped.consumer \cup {key}
        BY <1>4, <3>1, <3>2, PressFacts
      <3>4. hotkey_keyup # Escape
        BY DEF MacInv
      <3>5. input'.keys \subseteq held' /\ input'.consumer \subseteq held'
        BY <1>0, <2>1, <2>2, <3>2, <3>3
      <3>6. hotkey_keyup' \notin input'.keys \cup input'.consumer
        BY <1>0, <2>1, <3>2, <3>3, <3>4 DEF InputInv
      <3>7. Escape \in input'.keys => escape_state' = "Forwarded"
        BY <1>0, <1>4, <2>2, <3>2, <3>3 DEF InputInv
      <3> QED
        BY <3>3, <3>5, <3>6, <3>7 DEF InputInv, Kinds
    <2>4. CASE ~forwarding
      <3>1. input' = Found
        BY <1>4, <2>4 DEF OrdinaryDown
      <3> QED
        BY <1>0, <2>1, <2>2, <3>1, InputShrinks DEF InputInv
    <2> QED
      BY <2>3, <2>4
  <1>5. ASSUME NEW key \in Keys \ {Escape}, KeyUp(key) PROVE InputInv'
    <2>1. /\ held' = held \ {key} /\ UNCHANGED escape_state
          /\ hotkey_keyup' = IF hotkey_keyup = key THEN None ELSE hotkey_keyup
          /\ input' = IF forwarding /\ hotkey_keyup # key THEN Release(Found, key) ELSE Found
      BY <1>5 DEF KeyUp, KeyGoesUp, Disarm
    <2>2. input' \in Input /\ input'.keys \subseteq Found.keys /\ input'.consumer \subseteq Found.consumer
      BY <1>0, <2>1, ReleaseFacts
    <2>3. key \notin input'.keys \cup input'.consumer
      <3>1. CASE forwarding /\ hotkey_keyup # key
        BY <1>0, <2>1, <3>1, ReleaseFacts
      <3>2. CASE ~forwarding
        BY <2>1, <3>2 DEF Found, Released
      <3>3. CASE hotkey_keyup = key
        BY <1>0, <2>1, <2>2, <3>3 DEF InputInv
      <3> QED
        BY <3>1, <3>2, <3>3
    <2>4. None \notin input'.keys \cup input'.consumer
      BY <2>2 DEF Input, Keys
    <2> QED
      BY <1>0, <2>1, <2>2, <2>3, <2>4, InputShrinks DEF InputInv
  <1>6. ASSUME NEW modifier \in Modifiers, ModifierChanges(modifier) PROVE InputInv'
    <2>1. UNCHANGED <<held, hotkey_keyup, escape_state>>
      BY <1>6 DEF ModifierChanges
    <2>2. input' \in Input /\ input'.keys \subseteq Found.keys /\ input'.consumer \subseteq Found.consumer
      <3>1. CASE forwarding
        <4> DEFINE g == held_modifiers' \cap ({modifier} \cup Siblings(modifier)) # {}
        <4>1. ModifierTransition(input.modifiers, modifier, g) \subseteq Modifiers
          BY <1>0, <1>6 DEF ModifierTransition, Input
        <4>2. input' = [input EXCEPT !.modifiers = ModifierTransition(@, modifier, g)]
          BY <1>6, <3>1 DEF ModifierChanges
        <4>3. Found = input
          BY <1>0, <3>1, FoundFacts
        <4> QED
          BY <1>0, <4>1, <4>2, <4>3 DEF Input
      <3>2. CASE ~forwarding
        BY <1>0, <1>6, <3>2 DEF ModifierChanges
      <3> QED
        BY <3>1, <3>2
    <2> QED
      BY <1>0, <2>1, <2>2, InputShrinks DEF InputInv
  <1>7. CASE \E place \in Places : MouseMoves(place)
    <2>1. input' = Found /\ UNCHANGED <<held, hotkey_keyup, escape_state>>
      BY <1>7 DEF MouseMoves, userVars
    <2> QED
      BY <1>0, <2>1, InputShrinks DEF InputInv
  <1>8. CASE Switching \/ UNCHANGED vars
    <2>1. UNCHANGED <<input, held, hotkey_keyup, escape_state>>
      BY <1>8, SwitchingLeavesTap DEF userVars, tapVars, vars
    <2> QED
      BY <2>1 DEF InputInv
  <1> QED
    BY <1>1, <1>2, <1>3, <1>4, <1>5, <1>6, <1>7, <1>8 DEF Next, KeyEvent

LEMMA SmallLengths ==
  ASSUME NEW m \in Nat, NEW n \in Nat
  PROVE  /\ m # 0 /\ m # 1 => m > 1
         /\ m + n <= 1 /\ m # 0 => m = 1 /\ n = 0
         /\ m + n <= 1 /\ n # 0 => m = 0 /\ n = 1
  OBVIOUS

(* Then the way to the peer.  The last answer on its way, or the flag, is  *)
(* what the firmware does; a firmware without an active peer shows nothing *)
(* anywhere.                                                               *)
FlagInv ==
  /\ forwarding \in BOOLEAN
  /\ IF answers = <<>> THEN forwarding = routed ELSE answers[Len(answers)] = routed
  /\ ~routed => \A kind \in Kinds : remote[kind] = {}

LEMMA FlagInvInit == Init => FlagInv
  BY DEF Init, FlagInv, NothingDown, Kinds

LEMMA FlagInvStep ==
  ASSUME WayOK, FlagInv, [Next]_vars
  PROVE  FlagInv'
  <1>1. ASSUME NEW kinds, Tell(kinds), UNCHANGED <<forwarding, routed, answers>>
        PROVE  FlagInv'
    <2>1. ~routed => remote' = remote
      BY <1>1 DEF Tell, Push
    <2> QED
      BY <1>1, <2>1 DEF FlagInv
  <1>2. CASE \/ EscapeDown \/ EscapeUp
             \/ \E key \in Keys \ {Escape} : OrdinaryDown(key) \/ KeyUp(key)
             \/ \E modifier \in Modifiers : ModifierChanges(modifier)
             \/ \E place \in Places : MouseMoves(place)
    BY <1>1, <1>2, EventTells
  <1>3. CASE (\E digit \in Digits : Chord(digit)) \/ SyncForwarding \/ UNCHANGED vars
    <2>1. UNCHANGED <<forwarding, routed, answers, remote>>
      BY <1>3 DEF Chord, SyncForwarding, vars, switchVars, viewVars
    <2> QED
      BY <2>1 DEF FlagInv
  <1>4. ASSUME NEW answer \in BOOLEAN, answers' = Append(answers, answer), routed' = answer,
               forwarding' = forwarding,
               ~routed' => \A kind \in Kinds : remote'[kind] = {}
        PROVE  FlagInv'
    <2>1. answers' # <<>> /\ answers'[Len(answers')] = answer
      BY <1>4 DEF WayOK
    <2> QED
      BY <1>4, <2>1 DEF FlagInv
  <1>5. CASE FirmwareSwitches
    <2>1. ~routed' => \A kind \in Kinds : remote'[kind] = {}
      BY <1>5 DEF FirmwareSwitches, Shows, NothingDown, Kinds
    <2>2. routed' \in BOOLEAN /\ answers' = Append(answers, routed') /\ forwarding' = forwarding
      BY <1>5 DEF FirmwareSwitches
    <2> QED
      BY <1>4, <2>1, <2>2
  <1>6. CASE FirmwareIgnores
    <2>1. UNCHANGED <<forwarding, routed, answers>>
      BY <1>6 DEF FirmwareIgnores
    <2>2. ~routed' => \A kind \in Kinds : remote'[kind] = remote[kind]
      BY <1>6 DEF FirmwareIgnores, Shows, Kinds
    <2> QED
      BY <2>1, <2>2 DEF FlagInv
  <1>7. CASE PeerDrops
    <2>1. /\ answers' = Append(answers, FALSE) /\ routed' = FALSE /\ forwarding' = forwarding
          /\ remote' = NothingDown
      BY <1>7 DEF PeerDrops
    <2>2. \A kind \in Kinds : remote'[kind] = {}
      BY <2>1 DEF NothingDown, Kinds
    <2> QED
      BY <1>4, <2>1, <2>2
  <1>8. CASE FlagFollows
    <2>1. /\ answers # <<>> /\ answers' = Tail(answers) /\ forwarding' = Head(answers)
          /\ UNCHANGED <<routed, remote>>
      BY <1>8 DEF FlagFollows, viewVars
    <2>2. CASE Len(answers) = 1
      <3>1. answers' = <<>> /\ forwarding' = answers[Len(answers)] /\ forwarding' \in BOOLEAN
        BY <2>1, <2>2 DEF WayOK
      <3> QED
        BY <2>1, <3>1 DEF FlagInv
    <2>3. CASE Len(answers) # 1
      <3>1. /\ answers' # <<>> /\ answers'[Len(answers')] = answers[Len(answers)]
            /\ forwarding' \in BOOLEAN
        <4>0. answers \in Seq(BOOLEAN) /\ Len(answers) \in Nat /\ Len(answers) # 0
          BY <2>1 DEF WayOK
        <4>1. Len(answers) > 1
          BY <2>3, <4>0, SmallLengths
        <4>2. Len(answers') = Len(answers) - 1 /\ answers'[Len(answers) - 1] = answers[Len(answers)]
          BY <2>1, <4>0, <4>1
        <4>3. Len(answers') > 0 /\ answers'[Len(answers')] = answers[Len(answers)]
          BY <4>0, <4>1, <4>2
        <4>4. answers' # <<>>
          BY <4>3
        <4>5. forwarding' \in BOOLEAN
          BY <2>1, <4>0
        <4> QED
          BY <4>3, <4>4, <4>5
      <3> QED
        BY <2>1, <3>1 DEF FlagInv
    <2> QED
      BY <2>2, <2>3
  <1> QED
    BY <1>2, <1>3, <1>5, <1>6, <1>7, <1>8 DEF Next, KeyEvent, Switching

LEMMA FlagInvariant == Spec => []FlagInv
  <1>1. TypeInv => WayOK
    BY DEF TypeInv
  <1> QED
    BY <1>1, FlagInvInit, FlagInvStep, TypeInvariant, PTL DEF Spec

(* A kind that no crossing of switches has left in doubt: one switch at    *)
(* most is under way, nobody shows anything of the kind unless both ends   *)
(* route to it, and what is shown, or will be, is tracked.                 *)
AtMostOne    == Len(asked) + Len(answers) <= 1
Queued(kind) == asked[1].snapshots[kind]

Sound(kind) ==
  /\ AtMostOne
  /\ ~forwarding => remote[kind] = {}
  /\ forwarding /\ routed /\ (asked = <<>> \/ Queued(kind) = None) =>
       remote[kind] \subseteq input[kind]
  /\ asked # <<>> /\ Queued(kind) # None =>
       forwarding /\ Queued(kind) \subseteq input[kind]

GhostInv == \A kind \in Kinds \ stale : Sound(kind)

LEMMA GhostInvInit == Init => GhostInv
  BY DEF Init, GhostInv, Sound, AtMostOne, NothingDown, Kinds

LEMMA LengthFacts ==
  ASSUME WayOK
  PROVE  /\ Settled => AtMostOne
         /\ AtMostOne /\ asked # <<>> => Len(asked) = 1 /\ answers = <<>>
         /\ AtMostOne /\ answers # <<>> => asked = <<>> /\ Len(answers) = 1
  <1>1. Len(asked) \in Nat /\ Len(answers) \in Nat
    BY DEF WayOK
  <1>2. (asked = <<>> <=> Len(asked) = 0) /\ (answers = <<>> <=> Len(answers) = 0)
    BY DEF WayOK
  <1>3. Settled => AtMostOne
    BY <1>2 DEF Settled, AtMostOne
  <1>4. AtMostOne /\ Len(asked) # 0 => Len(asked) = 1 /\ Len(answers) = 0
    BY <1>1, SmallLengths DEF AtMostOne
  <1>5. AtMostOne /\ Len(answers) # 0 => Len(asked) = 0 /\ Len(answers) = 1
    BY <1>1, SmallLengths DEF AtMostOne
  <1> QED
    BY <1>2, <1>3, <1>4, <1>5

(* Every event: what has changed is pushed when it is forwarded, nothing   *)
(* is when it is not.                                                      *)
LEMMA EventKeepsGhost ==
  ASSUME TypeInv, TapTypeOK', FlagInv, GhostInv, NEW kinds, Tell(kinds),
         UNCHANGED <<forwarding, routed, answers>>,
         \A kind \in Kinds : input'[kind] # None,
         forwarding => \A kind \in Kinds : kind \in kinds \/ input[kind] \subseteq input'[kind]
  PROVE  GhostInv'
  <1> SUFFICES ASSUME NEW kind \in Kinds, kind \notin stale' PROVE Sound(kind)'
    BY DEF GhostInv
  <1>0. WayOK /\ remote \in View /\ input' \in Input
    BY DEF TypeInv, TapTypeOK
  <1>1. CASE asked = <<>>
    <2>1. asked' = asked
      BY <1>1 DEF Tell, Push
    <2>a. AtMostOne' <=> AtMostOne
      BY <2>1 DEF AtMostOne
    <2>2. remote'[kind] = IF forwarding /\ routed /\ kind \in kinds THEN input'[kind] ELSE remote[kind]
      BY <1>0, <1>1 DEF Tell, Push, Told, Kinds, View
    <2>3. CASE kind \notin stale
      BY <1>1, <2>1, <2>a, <2>2, <2>3 DEF GhostInv, Sound
    <2>4. CASE kind \in stale
      <3>1. forwarding /\ Settled /\ kind \in kinds
        BY <2>4 DEF Tell
      <3>2. routed /\ AtMostOne
        BY <1>0, <3>1, LengthFacts DEF Settled, FlagInv
      <3> QED
        BY <1>1, <2>1, <2>a, <2>2, <3>1, <3>2 DEF Sound
    <2> QED
      BY <2>3, <2>4
  <1>2. CASE asked # <<>>
    <2>1. kind \notin stale
      BY <1>2 DEF Tell, Settled
    <2>2. Len(asked) = 1 /\ Sound(kind) /\ AtMostOne
      BY <1>0, <1>2, <2>1, LengthFacts DEF GhostInv, Sound
    <2>3. remote' = remote
      BY <1>2 DEF Tell, Push
    <2>4. /\ Len(asked') = Len(asked)
          /\ Queued(kind)' = IF forwarding /\ kind \in kinds THEN input'[kind] ELSE Queued(kind)
      <3>1. Push(IF forwarding THEN kinds ELSE {})
        BY DEF Tell
      <3>2. CASE forwarding
        <4>1. Push(kinds)
          BY <3>1, <3>2
        <4> QED
          BY <1>0, <1>2, <2>2, <3>2, <4>1, PushBehind DEF WayOK, Queued
      <3>3. CASE ~forwarding
        <4>1. Push({})
          BY <3>1, <3>3
        <4> QED
          BY <1>0, <1>2, <2>2, <3>3, <4>1, PushBehind DEF WayOK, Queued
      <3> QED
        BY <3>2, <3>3
    <2>5. asked' # <<>> /\ AtMostOne'
      BY <2>2, <2>4 DEF AtMostOne
    <2> QED
      BY <1>2, <2>2, <2>3, <2>4, <2>5 DEF Sound
  <1> QED
    BY <1>1, <1>2

(* No tracked set of keys is taken for the absence of a snapshot.          *)
LEMMA TrackedIsNotNone ==
  ASSUME NEW tracked \in Input
  PROVE  \A kind \in Kinds : tracked[kind] # None
  <1>1. tracked.keys \in SUBSET Keys /\ tracked.consumer \in SUBSET Keys
    BY DEF Input, Keys
  <1> QED
    BY <1>1, EventTapAssumption DEF EventTapAssumption, Kinds

(* A selection that is handled, as one kind sees it.                       *)
LEMMA HandledShows ==
  ASSUME WayOK, Len(asked) = 1, NEW view, NEW kind \in Kinds, remote' = Shows(view)
  PROVE  remote'[kind] = IF routed' /\ Queued(kind) # None THEN Queued(kind) ELSE view[kind]
  <1>1. Head(asked) = asked[1]
    BY DEF WayOK
  <1> QED
    BY <1>1 DEF Shows, Queued

LEMMA SwitchingKeepsGhost ==
  ASSUME TypeInv, FlagInv, FlagInv', WayOK', GhostInv, Switching
  PROVE  GhostInv'
  <1> SUFFICES ASSUME NEW kind \in Kinds, kind \notin stale' PROVE Sound(kind)'
    BY DEF GhostInv
  <1>0. WayOK /\ input' = input /\ forwarding \in BOOLEAN
    BY SwitchingLeavesTap DEF TypeInv, tapVars, FlagInv
  <1>1. CASE FirmwareSwitches
    <2>1. /\ asked # <<>> /\ asked' = Tail(asked) /\ answers' = Append(answers, routed')
          /\ remote' = Shows(NothingDown) /\ forwarding' = forwarding /\ stale' = stale
      BY <1>1 DEF FirmwareSwitches, history
    <2>2. Sound(kind) /\ Len(asked) = 1 /\ answers = <<>>
      BY <1>0, <2>1, LengthFacts DEF GhostInv, Sound
    <2>3. asked' = <<>> /\ AtMostOne'
      BY <1>0, <2>1, <2>2 DEF WayOK, AtMostOne
    <2>a. NothingDown[kind] = {}
      BY DEF NothingDown, Kinds
    <2>4. remote'[kind] = IF routed' /\ Queued(kind) # None THEN Queued(kind) ELSE {}
      BY <1>0, <2>1, <2>2, <2>a, HandledShows
    <2> QED
      BY <1>0, <2>1, <2>2, <2>3, <2>4 DEF Sound
  <1>2. CASE FirmwareIgnores
    <2>1. /\ asked # <<>> /\ asked' = Tail(asked) /\ UNCHANGED <<answers, routed, forwarding>>
          /\ remote' = Shows(remote) /\ Over
      BY <1>2 DEF FirmwareIgnores
    <2>2. CASE kind \notin stale
      <3>1. Sound(kind) /\ Len(asked) = 1 /\ answers = <<>>
        BY <1>0, <2>1, <2>2, LengthFacts DEF GhostInv, Sound
      <3>2. asked' = <<>> /\ AtMostOne'
        BY <1>0, <2>1, <3>1 DEF WayOK, AtMostOne
      <3>3. remote'[kind] = IF routed /\ Queued(kind) # None THEN Queued(kind) ELSE remote[kind]
        BY <1>0, <2>1, <3>1, HandledShows
      <3> QED
        BY <1>0, <2>1, <3>1, <3>2, <3>3 DEF Sound
    <2>3. CASE kind \in stale
      <3>1. Settled' /\ ~forwarding'
        BY <2>1, <2>3 DEF Over
      <3>2. remote'[kind] = {} /\ asked' = <<>> /\ answers' = <<>>
        BY <3>1 DEF Settled, FlagInv
      <3>3. AtMostOne'
        BY <3>2 DEF AtMostOne
      <3> QED
        BY <3>1, <3>2, <3>3 DEF Sound
    <2> QED
      BY <2>2, <2>3
  <1>3. CASE PeerDrops
    <2>1. /\ routed' = FALSE /\ remote' = NothingDown /\ stale' = Crossed
          /\ answers' = Append(answers, FALSE) /\ UNCHANGED <<asked, forwarding>>
      BY <1>3 DEF PeerDrops
    <2>2. Settled /\ asked = <<>> /\ answers = <<>>
      BY <2>1 DEF Crossed, Settled
    <2>3. asked' = <<>> /\ AtMostOne'
      BY <2>1, <2>2 DEF AtMostOne
    <2>4. remote'[kind] = {}
      BY <2>1 DEF NothingDown, Kinds
    <2> QED
      BY <2>1, <2>3, <2>4 DEF Sound
  <1>4. CASE FlagFollows
    <2>1. /\ answers # <<>> /\ answers' = Tail(answers) /\ forwarding' = Head(answers)
          /\ UNCHANGED <<asked, routed, remote>> /\ Over
      BY <1>4 DEF FlagFollows, viewVars
    <2>2. CASE kind \notin stale
      <3>1. Sound(kind) /\ asked = <<>> /\ Len(answers) = 1
        BY <1>0, <2>1, <2>2, LengthFacts DEF GhostInv, Sound
      <3>2. asked' = <<>> /\ answers' = <<>> /\ forwarding' = routed
        <4>1. answers' = <<>> /\ forwarding' = answers[1]
          BY <1>0, <2>1, <3>1 DEF WayOK
        <4> QED
          BY <2>1, <3>1, <4>1 DEF FlagInv
      <3>3. ~forwarding' => remote'[kind] = {}
        BY <2>1, <3>2 DEF FlagInv
      <3>4. forwarding' => remote'[kind] \subseteq input'[kind]
        <4>1. CASE forwarding
          BY <1>0, <2>1, <3>1, <3>2, <4>1 DEF Sound
        <4>2. CASE ~forwarding
          BY <1>0, <2>1, <3>1, <4>2 DEF Sound
        <4> QED
          BY <1>0, <4>1, <4>2
      <3>5. AtMostOne'
        BY <3>2 DEF AtMostOne
      <3> QED
        BY <3>2, <3>3, <3>4, <3>5 DEF Sound
    <2>3. CASE kind \in stale
      <3>1. Settled' /\ ~forwarding'
        BY <2>1, <2>3 DEF Over
      <3>2. remote'[kind] = {} /\ asked' = <<>> /\ answers' = <<>>
        BY <3>1 DEF Settled, FlagInv
      <3>3. AtMostOne'
        BY <3>2 DEF AtMostOne
      <3> QED
        BY <3>1, <3>2, <3>3 DEF Sound
    <2> QED
      BY <2>2, <2>3
  <1>5. CASE SyncForwarding
    <2>1. UNCHANGED <<asked, answers, routed, forwarding, remote, stale>>
      BY <1>5 DEF SyncForwarding, switchVars, viewVars
    <2> QED
      BY <1>0, <2>1 DEF GhostInv, Sound, AtMostOne, Queued
  <1> QED
    BY <1>1, <1>2, <1>3, <1>4, <1>5 DEF Switching

LEMMA GhostInvStep ==
  ASSUME TypeInv, TypeInv', FlagInv, FlagInv', GhostInv, [Next]_vars
  PROVE  GhostInv'
  <1>0. /\ input \in Input /\ input' \in Input /\ TapTypeOK'
        /\ Escape \notin input.consumer
        /\ forwarding => Found = input
    BY FoundFacts, KeyFacts, EventTapAssumption DEF TypeInv, TapTypeOK, Input, EventTapAssumption, HidKeys
  <1>1. \A kind \in Kinds : input'[kind] # None
    BY <1>0, TrackedIsNotNone
  <1>2. forwarding => \A kind \in Kinds : kind \in Changed \/ input[kind] \subseteq input'[kind]
    BY <1>0 DEF Changed, Kinds
  <1>3. CASE EscapeDown \/ \E place \in Places : MouseMoves(place)
    <2>1. Tell({}) /\ input' = Found /\ UNCHANGED <<forwarding, routed, answers>>
      BY <1>3 DEF EscapeDown, MouseMoves
    <2> QED
      BY <1>0, <1>1, <2>1, EventKeepsGhost
  <1>4. CASE EscapeUp
    <2>1. UNCHANGED <<forwarding, routed, answers>>
      BY <1>4 DEF EscapeUp
    <2>2. CASE forwarding
      <3>1. Tell(Changed) \/ (Tell({"keys"}) /\ input' = Release(Found, Escape))
        BY <1>4, <2>2 DEF EscapeUp
      <3>2. CASE Tell(Changed)
        BY <1>0, <1>1, <1>2, <2>1, <3>2, EventKeepsGhost
      <3>3. CASE Tell({"keys"}) /\ input' = Release(Found, Escape)
        <4>1. input'.consumer = input.consumer
          <5>1. Found = input /\ Found \in Input /\ input' = Release(Found, Escape)
            BY <1>0, <2>2, <3>3
          <5>2. input'.consumer = Found.consumer \ {Escape}
            BY <5>1, ReleaseFacts
          <5> QED
            BY <1>0, <5>1, <5>2
        <4>2. \A kind \in Kinds : kind \in {"keys"} \/ input[kind] \subseteq input'[kind]
          BY <4>1 DEF Kinds
        <4> QED
          BY <1>0, <1>1, <2>1, <3>3, <4>2, EventKeepsGhost
      <3> QED
        BY <3>1, <3>2, <3>3
    <2>3. CASE ~forwarding
      <3>1. Tell({})
        BY <1>4, <2>3 DEF EscapeUp
      <3> QED
        BY <1>0, <1>1, <2>1, <2>3, <3>1, EventKeepsGhost
    <2> QED
      BY <2>2, <2>3
  <1>5. CASE \/ \E key \in Keys \ {Escape} : OrdinaryDown(key) \/ KeyUp(key)
             \/ \E modifier \in Modifiers : ModifierChanges(modifier)
    <2>1. Tell(Changed) /\ UNCHANGED <<forwarding, routed, answers>>
      BY <1>5 DEF OrdinaryDown, KeyUp, ModifierChanges
    <2> QED
      BY <1>0, <1>1, <1>2, <2>1, EventKeepsGhost
  <1>6. ASSUME NEW digit \in Digits, Chord(digit) PROVE GhostInv'
    <2> SUFFICES ASSUME NEW kind \in Kinds, kind \notin stale' PROVE Sound(kind)'
      BY DEF GhostInv
    <2>1. PICK target : asked' = Append(asked, SelectPeer(target))
      BY <1>6 DEF Chord
    <2>2. /\ stale' = Crossed /\ input' = Found
          /\ UNCHANGED <<forwarding, routed, answers, remote>>
      BY <1>6 DEF Chord, viewVars
    <2>3. Settled /\ kind \notin stale /\ asked = <<>> /\ answers = <<>>
      BY <2>2 DEF Crossed, Settled
    <2>4. asked' = <<SelectPeer(target)>> /\ answers' = <<>>
      BY <2>1, <2>2, <2>3
    <2>5. asked' # <<>> /\ AtMostOne' /\ Queued(kind)' = None
      BY <2>4 DEF SelectPeer, Unpushed, Kinds, AtMostOne, Queued
    <2>6. Sound(kind)
      BY <2>3 DEF GhostInv
    <2> QED
      BY <1>0, <2>2, <2>3, <2>5, <2>6 DEF Sound
  <1>7. CASE Switching
    BY <1>7, SwitchingKeepsGhost DEF TypeInv
  <1>8. CASE UNCHANGED vars
    BY <1>8 DEF vars, tapVars, switchVars, viewVars, history, GhostInv, Sound, AtMostOne, Queued
  <1> QED
    BY <1>3, <1>4, <1>5, <1>6, <1>7, <1>8 DEF Next, KeyEvent

LEMMA GhostInvariant == Spec => []GhostInv
  BY GhostInvInit, GhostInvStep, TypeInvariant, FlagInvariant, PTL DEF Spec

(* No key is stuck on a peer: with selections, drops of the peer and key   *)
(* events in any order, the peer that gets the input shows only keys that  *)
(* are held, but for kinds that it has not been told of since two switches *)
(* crossed -- as long as the digit of a hotkey does not repeat.            *)
THEOREM NeverGhostKeys ==
  ASSUME RepeatingKeys \cap Digits = {}
  PROVE  Spec => []NoGhostKeys
  <1> DEFINE Inv == MacInv /\ InputInv
  <1>1. Init => Inv
    BY MacInvInit, InputInvInit
  <1>2. Inv /\ [Next]_vars => Inv'
    BY MacInvStep, InputInvStep
  <1>3. Inv /\ FlagInv /\ GhostInv => NoGhostKeys
    <2> SUFFICES ASSUME Inv, FlagInv, GhostInv, Settled, forwarding, NEW kind \in Kinds \ stale
                 PROVE  remote[kind] \subseteq held
      BY DEF NoGhostKeys
    <2>1. routed /\ asked = <<>> /\ Sound(kind)
      BY DEF FlagInv, GhostInv, Settled
    <2>2. remote[kind] \subseteq input[kind]
      BY <2>1 DEF Sound
    <2>3. input[kind] \subseteq held
      BY DEF InputInv
    <2> QED
      BY <2>2, <2>3
  <1> QED
    BY <1>1, <1>2, <1>3, FlagInvariant, GhostInvariant, PTL DEF Spec

-----------------------------------------------------------------------------
(* The keys pressed for the peer that gets the input: each of them is      *)
(* tracked, and shown or in a snapshot behind the last selection.          *)
FreshInv ==
  /\ ~forwarding => fresh = {}
  /\ fresh \subseteq Pressed(input)
  /\ asked = <<>> /\ routed => fresh \subseteq Pressed(remote)
  /\ asked # <<>> => \A x \in fresh : \E kind \in Kinds :
       asked[Len(asked)].snapshots[kind] # None /\ x \in asked[Len(asked)].snapshots[kind]

(* No key is of two kinds, however it is spoken of.                        *)
LEMMA OneKind ==
  ASSUME NEW found \in Input, NEW view \in View \cup Snapshots, NEW x, NEW kind \in Kinds, NEW other \in Kinds,
         view[other] # None, x \in found[kind], x \in view[other]
  PROVE  kind = other
  BY EventTapAssumption DEF EventTapAssumption, Input, View, Snapshots, Kinds

(* An event loses no tracked key but one that is let go, and pushes every  *)
(* kind of key that it changed.                                            *)
LEMMA EventKeepsFresh ==
  ASSUME TypeInv, TapTypeOK', FreshInv, NEW kinds, Tell(kinds),
         UNCHANGED <<forwarding, routed>>,
         forwarding => \A kind \in Kinds : /\ kind \in kinds \/ input'[kind] = input[kind]
                                           /\ input[kind] \cap held' \subseteq input'[kind]
  PROVE  FreshInv'
  <1>0. /\ \A kind \in Kinds : input'[kind] # None
        /\ input \in Input /\ input' \in Input /\ remote \in View /\ WayOK
    BY TrackedIsNotNone DEF TypeInv, TapTypeOK
  <1>1. CASE ~forwarding
    BY <1>1 DEF Tell, FreshInv
  <1>2. CASE forwarding
    <2>1. Found = input /\ fresh' = (fresh \cup (Pressed(input') \ Pressed(input))) \cap held' /\ Push(kinds)
      BY <1>2 DEF Tell, Found
    <2>2. ASSUME NEW x, x \in Pressed(input') \ Pressed(input)
          PROVE  \E kind \in Kinds : kind \in kinds /\ x \in input'[kind]
      BY <1>2, <2>2 DEF Pressed, Kinds
    <2>3. ASSUME NEW x \in fresh, x \in held'
          PROVE  \E kind \in Kinds : x \in input[kind] /\ x \in input'[kind]
      <3>1. PICK kind \in Kinds : x \in input[kind]
        BY <2>3 DEF FreshInv, Pressed, Kinds
      <3> QED
        BY <1>2, <2>3, <3>1
    <2>4. fresh' \subseteq Pressed(input')
      BY <2>1, <2>3 DEF Pressed, Kinds
    <2>5. CASE asked = <<>> /\ routed
      <3>1. ASSUME NEW kind \in Kinds
            PROVE  remote'[kind] = IF kind \in kinds THEN input'[kind] ELSE remote[kind]
        BY <2>1, <2>5 DEF Push, Told
      <3>2. ASSUME NEW x \in fresh' PROVE \E kind \in Kinds : x \in remote'[kind]
        <4>1. CASE x \in Pressed(input') \ Pressed(input)
          BY <2>2, <3>1, <4>1
        <4>2. CASE x \in fresh /\ x \in held'
          <5>1. PICK kind \in Kinds : x \in input[kind] /\ x \in input'[kind]
            BY <2>3, <4>2
          <5>2. PICK other \in Kinds : x \in remote[other]
            BY <2>5, <4>2 DEF FreshInv, Pressed, Kinds
          <5>3. remote[other] # None
            BY <1>0, TrackedIsNotNone, EventTapAssumption DEF EventTapAssumption, View, Kinds, Keys
          <5>4. kind = other
            BY <1>0, <5>1, <5>2, <5>3, OneKind
          <5> QED
            BY <3>1, <5>1, <5>2, <5>4
        <4> QED
          BY <2>1, <4>1, <4>2
      <3>3. asked' = <<>>
        BY <2>1, <2>5 DEF Push
      <3> QED
        BY <1>2, <2>4, <3>2, <3>3 DEF FreshInv, Pressed, Kinds
    <2>6. CASE asked # <<>>
      <3> DEFINE old(kind) == asked[Len(asked)].snapshots[kind]
                 new(kind) == asked'[Len(asked')].snapshots[kind]
      <3>1. /\ Len(asked') = Len(asked) /\ asked' # <<>>
            /\ \A kind \in Kinds : new(kind) = IF kind \in kinds THEN input'[kind] ELSE old(kind)
        <4>1. /\ Len(asked') = Len(asked) /\ asked' \in Seq(Requests)
              /\ \A kind \in Kinds : asked'[Len(asked)].snapshots[kind]
                   = IF kind \in kinds THEN input'[kind] ELSE asked[Len(asked)].snapshots[kind]
          BY <1>0, <2>1, <2>6, PushBehind DEF WayOK
        <4>2. Len(asked) > 0
          BY <1>0, <2>6 DEF WayOK
        <4> QED
          BY <4>1, <4>2
      <3>2. asked[Len(asked)].snapshots \in Snapshots
        BY <1>0, <2>6, LastRequest DEF WayOK, Requests
      <3>3. ASSUME NEW x \in fresh' PROVE \E kind \in Kinds : new(kind) # None /\ x \in new(kind)
        <4>1. CASE x \in Pressed(input') \ Pressed(input)
          BY <1>0, <2>2, <3>1, <4>1
        <4>2. CASE x \in fresh /\ x \in held'
          <5>1. PICK kind \in Kinds : x \in input[kind] /\ x \in input'[kind]
            BY <2>3, <4>2
          <5>2. PICK other \in Kinds : old(other) # None /\ x \in old(other)
            BY <2>6, <4>2 DEF FreshInv
          <5>3. kind = other
            BY <1>0, <3>2, <5>1, <5>2, OneKind
          <5> QED
            BY <1>0, <3>1, <5>1, <5>2, <5>3
        <4> QED
          BY <2>1, <4>1, <4>2
      <3>4. \A x \in fresh' : \E kind \in Kinds :
              asked'[Len(asked')].snapshots[kind] # None /\ x \in asked'[Len(asked')].snapshots[kind]
        BY <3>3
      <3> QED
        BY <1>2, <2>4, <3>1, <3>4 DEF FreshInv
    <2>7. CASE asked = <<>> /\ ~routed
      <3>1. asked' = <<>>
        BY <2>1, <2>7 DEF Push
      <3> QED
        BY <1>2, <2>4, <2>7, <3>1 DEF FreshInv
    <2> QED
      BY <2>5, <2>6, <2>7
  <1> QED
    BY <1>1, <1>2

(* A selection that is handled leaves the snapshots behind later ones.     *)
LEMMA HandledKeepsFresh ==
  ASSUME WayOK, FreshInv, asked # <<>>, asked' = Tail(asked), NEW view, remote' = Shows(view),
         UNCHANGED <<forwarding, fresh, input>>
  PROVE  FreshInv'
  <1>0. /\ Len(asked) \in Nat /\ Len(asked) > 0 /\ Head(asked) = asked[1]
        /\ Len(asked') = Len(asked) - 1 /\ asked' \in Seq(Requests)
        /\ \A i \in 1 .. Len(asked) - 1 : asked'[i] = asked[i + 1]
    BY LastRequest DEF WayOK
  <1>1. CASE Len(asked) = 1
    <2>1. asked' = <<>>
      BY <1>0, <1>1
    <2>2. ASSUME routed', NEW x \in fresh PROVE \E kind \in Kinds : x \in remote'[kind]
      <3>1. PICK kind \in Kinds : asked[1].snapshots[kind] # None /\ x \in asked[1].snapshots[kind]
        BY <1>1, <2>2 DEF FreshInv
      <3>2. remote'[kind] = asked[1].snapshots[kind]
        BY <1>0, <2>2, <3>1 DEF Shows
      <3> QED
        BY <3>1, <3>2
    <2> QED
      BY <2>1, <2>2 DEF FreshInv, Pressed, Kinds
  <1>2. CASE Len(asked) # 1
    <2>1. asked' # <<>> /\ asked'[Len(asked')] = asked[Len(asked)]
      <3>1. Len(asked') \in 1 .. Len(asked) - 1 /\ Len(asked') + 1 = Len(asked) /\ Len(asked') > 0
        BY <1>0, <1>2
      <3>2. asked'[Len(asked')] = asked[Len(asked') + 1]
        BY <1>0, <3>1
      <3>3. asked' # <<>>
        BY <3>1
      <3> QED
        BY <3>1, <3>2, <3>3
    <2> QED
      BY <2>1 DEF FreshInv
  <1> QED
    BY <1>1, <1>2

LEMMA FreshInvStep ==
  ASSUME TypeInv, TapTypeOK', FreshInv, [Next]_vars
  PROVE  FreshInv'
  <1>0. /\ input \in Input /\ Found \in Input
        /\ forwarding => Found = input
        /\ Escape \notin input.consumer
    BY FoundFacts, KeyFacts, EventTapAssumption DEF TypeInv, TapTypeOK, Input, EventTapAssumption, HidKeys
  <1>1. \A kind \in Kinds : Found[kind] = input'[kind] \/ kind \in Changed
    BY DEF Changed, Kinds
  <1>2. CASE EscapeDown \/ \E place \in Places : MouseMoves(place)
    <2>1. Tell({}) /\ input' = Found /\ UNCHANGED <<forwarding, routed>>
      BY <1>2 DEF EscapeDown, MouseMoves
    <2> QED
      BY <1>0, <2>1, EventKeepsFresh
  <1>3. CASE EscapeUp
    <2>1. UNCHANGED <<forwarding, routed>> /\ Escape \notin held'
      BY <1>3 DEF EscapeUp, KeyGoesUp
    <2>2. PICK kinds : Tell(kinds) /\ (forwarding => kinds = {"keys"} \/ kinds = Changed)
      BY <1>3 DEF EscapeUp
    <2>3. input' = Found \/ input' = Release(Found, Escape)
      BY <1>3 DEF EscapeUp
    <2>4. /\ input'.keys = Found.keys \/ input'.keys = Found.keys \ {Escape}
          /\ input'.consumer = Found.consumer \/ input'.consumer = Found.consumer \ {Escape}
      BY <1>0, <2>3, ReleaseFacts
    <2>5. forwarding => input'.consumer = input.consumer
      BY <1>0, <2>4
    <2>6. forwarding => \A kind \in Kinds : /\ kind \in kinds \/ input'[kind] = input[kind]
                                            /\ input[kind] \cap held' \subseteq input'[kind]
      BY <1>0, <1>1, <2>1, <2>2, <2>4, <2>5 DEF Kinds
    <2> QED
      BY <2>1, <2>2, <2>6, EventKeepsFresh
  <1>4. ASSUME NEW key \in Keys \ {Escape}, OrdinaryDown(key) PROVE FreshInv'
    <2> DEFINE escaped == IF escape_state = "Pending" THEN Press(Found, Escape) ELSE Found
    <2>1. Tell(Changed) /\ UNCHANGED <<forwarding, routed>>
          /\ (forwarding => input' = Press(escaped, key))
      BY <1>4 DEF OrdinaryDown
    <2>2. Found.keys \subseteq escaped.keys /\ Found.consumer \subseteq escaped.consumer /\ escaped \in Input
      BY <1>0, KeyFacts, PressFacts DEF Press, Input
    <2> HIDE DEF escaped
    <2>3. /\ escaped.keys \subseteq Press(escaped, key).keys
          /\ escaped.consumer \subseteq Press(escaped, key).consumer
      BY <2>2 DEF Press, Input
    <2>4. forwarding => \A kind \in Kinds : /\ kind \in Changed \/ input'[kind] = input[kind]
                                            /\ input[kind] \cap held' \subseteq input'[kind]
      BY <1>0, <1>1, <2>1, <2>2, <2>3 DEF Kinds
    <2> QED
      BY <2>1, <2>4, EventKeepsFresh
  <1>5. ASSUME NEW key \in Keys \ {Escape}, KeyUp(key) PROVE FreshInv'
    <2>1. /\ Tell(Changed) /\ UNCHANGED <<forwarding, routed>> /\ key \notin held'
          /\ input' = Found \/ input' = Release(Found, key)
      BY <1>5 DEF KeyUp, KeyGoesUp
    <2>2. /\ input'.keys = Found.keys \/ input'.keys = Found.keys \ {key}
          /\ input'.consumer = Found.consumer \/ input'.consumer = Found.consumer \ {key}
      BY <1>0, <2>1, ReleaseFacts
    <2>3. forwarding => \A kind \in Kinds : /\ kind \in Changed \/ input'[kind] = input[kind]
                                            /\ input[kind] \cap held' \subseteq input'[kind]
      BY <1>0, <1>1, <2>1, <2>2 DEF Kinds
    <2> QED
      BY <2>1, <2>3, EventKeepsFresh
  <1>6. ASSUME NEW modifier \in Modifiers, ModifierChanges(modifier) PROVE FreshInv'
    <2>1. Tell(Changed) /\ UNCHANGED <<forwarding, routed>>
      BY <1>6 DEF ModifierChanges
    <2>2. forwarding => input'.keys = input.keys /\ input'.consumer = input.consumer
      BY <1>0, <1>6 DEF ModifierChanges, Input
    <2> QED
      BY <1>0, <1>1, <2>1, <2>2, EventKeepsFresh DEF Kinds
  <1>7. CASE (\E digit \in Digits : Chord(digit)) \/ PeerDrops
    BY <1>7 DEF Chord, PeerDrops, FreshInv
  <1>8. CASE FirmwareSwitches \/ FirmwareIgnores
    <2>1. /\ asked # <<>> /\ asked' = Tail(asked) /\ (\E view : remote' = Shows(view))
          /\ UNCHANGED <<forwarding, fresh, input>>
      BY <1>8 DEF FirmwareSwitches, FirmwareIgnores, tapVars, history
    <2> QED
      BY <2>1, HandledKeepsFresh DEF TypeInv
  <1>9. CASE FlagFollows
    <2>1. /\ UNCHANGED <<asked, routed, remote, input>> /\ fresh' \subseteq fresh
          /\ ~forwarding' => fresh' = {}
      BY <1>9 DEF FlagFollows, viewVars, tapVars
    <2> QED
      BY <2>1 DEF FreshInv
  <1>10. CASE SyncForwarding \/ UNCHANGED vars
    BY <1>10 DEF SyncForwarding, vars, tapVars, switchVars, viewVars, history, FreshInv
  <1> QED
    BY <1>2, <1>3, <1>4, <1>5, <1>6, <1>7, <1>8, <1>9, <1>10 DEF Next, KeyEvent, Switching

(* No key gets lost on the way: one pressed for this peer and given room   *)
(* in the report is down there until it is let go, also when selections,   *)
(* refusals of them and drops of other peers came in between.              *)
THEOREM KeysAlwaysArrive == Spec => []KeysArrive
  <1>1. Init => FreshInv
    BY DEF Init, FreshInv
  <1>2. TypeInv /\ TapTypeOK' /\ FreshInv /\ [Next]_vars => FreshInv'
    BY FreshInvStep
  <1>3. FreshInv => KeysArrive
    BY DEF FreshInv, KeysArrive, Settled
  <1> QED
    BY <1>1, <1>2, <1>3, TypeInvariant, TapTypeCorrect, PTL DEF Spec

-----------------------------------------------------------------------------
(* Esc.  What has become of the one that is held is told by escape_state;  *)
(* it can only repeat while it is pending.                                 *)
EscapeInv ==
  /\ story.typed \in Nat
  /\ (escape_state # "Idle") = (Escape \in held)
  /\ escape_state \in {"Idle", "Pending", "Forwarded", "ChordUsed"}
  /\ repeating = Escape => escape_state = "Pending"
  /\ escape_state = "Pending" => story.typed = 0 /\ ~story.chord
  /\ escape_state = "Forwarded" => (story.typed = 1 \/ story.refused) /\ ~story.chord
  /\ escape_state = "ChordUsed" => story.typed = 0 /\ story.chord

StoryOK == story \in [typed : Nat, chord : BOOLEAN, refused : BOOLEAN]

LEMMA TypedFacts ==
  ASSUME StoryOK, NEW times \in Nat, NEW refused \in BOOLEAN, Typed(times, refused)
  PROVE  /\ StoryOK'
         /\ Escape \in held =>
              /\ story'.typed = story.typed + times /\ (story'.chord <=> story.chord)
              /\ story'.refused <=> story.refused \/ refused
         /\ Escape \notin held => story' = NoStory
  <1>1. CASE Escape \in held
    <2>1. story' = [story EXCEPT !.typed = story.typed + times, !.refused = (story.refused \/ refused)]
      BY <1>1 DEF Typed
    <2>2. story.typed + times \in Nat /\ (story.refused \/ refused) \in BOOLEAN
      BY DEF StoryOK
    <2> DEFINE n == story.typed + times
               r == story.refused \/ refused
    <2> HIDE DEF n, r
    <2>3. story' = [story EXCEPT !.typed = n, !.refused = r] /\ n \in Nat /\ r \in BOOLEAN
      BY <2>1, <2>2 DEF n, r
    <2>4. StoryOK' /\ story'.typed = n /\ (story'.chord <=> story.chord) /\ (story'.refused <=> r)
      BY <2>3 DEF StoryOK
    <2> QED
      BY <1>1, <2>4 DEF n, r
  <1>2. CASE Escape \notin held
    BY <1>2 DEF Typed, StoryOK, NoStory
  <1> QED
    BY <1>1, <1>2

LEMMA EscapeStep ==
  ASSUME StoryOK, EscapeInv, [Next]_vars
  PROVE  /\ StoryOK' /\ EscapeInv'
         /\ (Escape \in held \ held') /\ ~story'.refused =>
              story'.typed = IF story'.chord THEN 0 ELSE 1
  <1> USE KeyFacts
  <1>1. CASE EscapeDown
    <2>1. StoryOK' /\ story'.typed = 0 /\ ~story'.chord
      <3>1. Typed(0, FALSE) /\ (Escape \in held => repeating = Escape)
        BY <1>1 DEF EscapeDown, KeyGoesDown
      <3>2. Escape \in held => story.typed = 0 /\ ~story.chord
        BY <3>1 DEF EscapeInv
      <3> QED
        <4>1. CASE Escape \in held
          <5>1. StoryOK' /\ story'.typed = story.typed + 0 /\ (story'.chord <=> story.chord)
            BY <3>1, <4>1, TypedFacts
          <5> QED
            BY <3>2, <4>1, <5>1
        <4>2. CASE Escape \notin held
          <5>1. StoryOK' /\ story' = NoStory
            BY <3>1, <4>2, TypedFacts
          <5> QED
            BY <5>1 DEF NoStory
        <4> QED
          BY <4>1, <4>2
    <2> QED
      BY <1>1, <2>1 DEF EscapeDown, KeyGoesDown, EscapeInv
  <1>2. CASE EscapeUp
    <2>1. /\ Escape \in held /\ Escape \notin held' /\ repeating' # Escape /\ escape_state' = "Idle"
      BY <1>2 DEF EscapeUp, KeyGoesUp
    <2>2. PICK times \in {0, 1}, refused \in BOOLEAN :
            /\ Typed(times, refused)
            /\ escape_state = "Pending" => times = 1 \/ refused
            /\ escape_state # "Pending" => times = 0 /\ ~refused
      <3> DEFINE pending == escape_state = "Pending"
                 room    == Press(Found, Escape) # Found
      <3>1. CASE forwarding
        <4>1. Typed(IF pending /\ room THEN 1 ELSE 0, pending /\ ~room)
          BY <1>2, <3>1 DEF EscapeUp
        <4> QED
          BY <4>1
      <3>2. CASE ~forwarding
        <4>1. Typed(IF pending THEN 1 ELSE 0, FALSE)
          BY <1>2, <3>2 DEF EscapeUp
        <4> QED
          BY <4>1
      <3> QED
        BY <3>1, <3>2
    <2>3. /\ StoryOK' /\ story'.typed = story.typed + times /\ (story'.chord <=> story.chord)
          /\ story'.refused <=> story.refused \/ refused
      BY <2>1, <2>2, TypedFacts
    <2>4. ASSUME ~story'.refused PROVE story'.typed = IF story'.chord THEN 0 ELSE 1
      <3>1. ~story.refused /\ ~refused /\ story.typed \in Nat
        BY <2>3, <2>4 DEF StoryOK
      <3>2. CASE escape_state = "Pending"
        BY <2>2, <2>3, <3>1, <3>2 DEF EscapeInv
      <3>3. CASE escape_state = "Forwarded"
        BY <2>2, <2>3, <3>1, <3>3 DEF EscapeInv
      <3>4. CASE escape_state = "ChordUsed"
        BY <2>2, <2>3, <3>1, <3>4 DEF EscapeInv
      <3> QED
        BY <2>1, <3>2, <3>3, <3>4 DEF EscapeInv
    <2> QED
      BY <2>1, <2>3, <2>4 DEF EscapeInv, StoryOK
  <1>3. ASSUME NEW digit \in Digits, Chord(digit) PROVE StoryOK' /\ EscapeInv' /\ held \subseteq held'
    <2>1. /\ escape_state = "Pending" /\ escape_state' = "ChordUsed" /\ repeating' \in {digit, None}
          /\ held' = held \cup {digit} /\ story' = [story EXCEPT !.chord = TRUE]
      BY <1>3 DEF Chord, KeyGoesDown
    <2>2. StoryOK' /\ story'.typed = story.typed /\ story'.chord
      BY <2>1 DEF StoryOK
    <2> QED
      BY <2>1, <2>2 DEF EscapeInv
  <1>4. ASSUME NEW key \in Keys \ {Escape}, OrdinaryDown(key)
        PROVE  StoryOK' /\ EscapeInv' /\ held \subseteq held'
    <2> DEFINE flush   == escape_state = "Pending"
               escaped == IF flush THEN Press(Found, Escape) ELSE Found
    <2>1. /\ held' = held \cup {key} /\ repeating' \in {key, None}
          /\ escape_state' = IF escape_state = "Pending" THEN "Forwarded" ELSE escape_state
      BY <1>4 DEF OrdinaryDown, KeyGoesDown, Flushed
    <2>2. PICK times \in {0, 1}, refused \in BOOLEAN :
            /\ Typed(times, refused)
            /\ escape_state = "Pending" => times = 1 \/ refused
            /\ escape_state # "Pending" => times = 0 /\ ~refused
      <3>1. CASE forwarding
        <4>1. Typed(IF escaped # Found THEN 1 ELSE 0, flush /\ escaped = Found)
          BY <1>4, <3>1 DEF OrdinaryDown
        <4> QED
          BY <4>1
      <3>2. CASE ~forwarding
        <4>1. Typed(IF flush THEN 1 ELSE 0, FALSE)
          BY <1>4, <3>2 DEF OrdinaryDown
        <4> QED
          BY <4>1
      <3> QED
        BY <3>1, <3>2
    <2>3. CASE Escape \in held
      <3>1. /\ StoryOK' /\ story'.typed = story.typed + times /\ (story'.chord <=> story.chord)
            /\ story'.refused <=> story.refused \/ refused
        BY <2>2, <2>3, TypedFacts
      <3> QED
        BY <2>1, <2>2, <2>3, <3>1 DEF EscapeInv, StoryOK
    <2>4. CASE Escape \notin held
      <3>1. StoryOK' /\ story' = NoStory
        BY <2>2, <2>4, TypedFacts
      <3>2. escape_state' = "Idle" /\ Escape \notin held'
        BY <2>1, <2>4 DEF EscapeInv
      <3> QED
        BY <2>1, <3>1, <3>2 DEF EscapeInv, NoStory
    <2> QED
      BY <2>1, <2>3, <2>4
  <1>5. ASSUME Typed(0, FALSE), UNCHANGED escape_state, Escape \in held' <=> Escape \in held,
               repeating' = repeating \/ repeating' = None
        PROVE  StoryOK' /\ EscapeInv'
    <2>1. CASE Escape \in held
      <3>1. /\ StoryOK' /\ story'.typed = story.typed /\ (story'.chord <=> story.chord)
            /\ story'.refused <=> story.refused
        <4>1. /\ StoryOK' /\ story'.typed = story.typed + 0 /\ (story'.chord <=> story.chord)
              /\ story'.refused <=> story.refused \/ FALSE
          BY <1>5, <2>1, TypedFacts
        <4> QED
          BY <4>1 DEF EscapeInv
      <3> QED
        BY <1>5, <2>1, <3>1 DEF EscapeInv
    <2>2. CASE Escape \notin held
      <3>1. StoryOK' /\ story' = NoStory
        BY <1>5, <2>2, TypedFacts
      <3> QED
        BY <1>5, <2>2, <3>1 DEF EscapeInv, NoStory
    <2> QED
      BY <2>1, <2>2
  <1>6. ASSUME \/ \E key \in Keys \ {Escape} : KeyUp(key)
               \/ \E modifier \in Modifiers : ModifierChanges(modifier)
               \/ \E place \in Places : MouseMoves(place)
        PROVE  StoryOK' /\ EscapeInv' /\ ~(Escape \in held \ held')
    <2>1. /\ Typed(0, FALSE) /\ UNCHANGED escape_state /\ (Escape \in held' <=> Escape \in held)
          /\ repeating' = repeating \/ repeating' = None
      BY <1>6 DEF KeyUp, KeyGoesUp, ModifierChanges, MouseMoves, userVars
    <2> QED
      BY <1>5, <2>1
  <1>7. CASE Switching \/ UNCHANGED vars
    <2>1. UNCHANGED <<held, repeating, escape_state, story>>
      BY <1>7, SwitchingLeavesTap DEF Switching, FirmwareSwitches, FirmwareIgnores, PeerDrops,
         FlagFollows, SyncForwarding, vars, userVars, tapVars, history
    <2> QED
      BY <2>1 DEF EscapeInv, StoryOK
  <1> QED
    BY <1>1, <1>2, <1>3, <1>4, <1>6, <1>7 DEF Next, KeyEvent

(* Esc is typed once per press, wherever it goes and whatever was typed or *)
(* switched while it was held, and not at all when it was half of a        *)
(* hotkey; only a report without room for it may leave it out.             *)
THEOREM EscapeAlwaysOnce == Spec => EscapeOnce
  <1>1. Init => StoryOK /\ EscapeInv
    BY KeyFacts DEF Init, StoryOK, EscapeInv, NoStory
  <1>2. StoryOK /\ EscapeInv /\ [Next]_vars => (StoryOK /\ EscapeInv)'
    BY EscapeStep
  <1>3. StoryOK /\ EscapeInv /\ [Next]_vars =>
          [(Escape \in held \ held') /\ ~story'.refused =>
             story'.typed = (IF story'.chord THEN 0 ELSE 1)]_vars
    BY EscapeStep
  <1> QED
    BY <1>1, <1>2, <1>3, PTL DEF Spec, EscapeOnce

-----------------------------------------------------------------------------
(* Modifiers.  An event says only whether one of a kind is down; with the  *)
(* tracked modifiers in step, that is enough to tell left from right.      *)
LEMMA TransitionFollows ==
  ASSUME NEW current \in SUBSET Modifiers, NEW modifier \in Modifiers
  PROVE  LET next == IF modifier \in current THEN current \ {modifier} ELSE current \cup {modifier}
         IN  ModifierTransition(current, modifier, next \cap ({modifier} \cup Siblings(modifier)) # {})
               = next
  <1>1. modifier \notin Siblings(modifier)
    BY DEF Siblings
  <1>2. CASE modifier \in current
    <2>1. (current \ {modifier}) \cap ({modifier} \cup Siblings(modifier)) = Siblings(modifier) \cap current
      BY <1>1
    <2> QED
      BY <1>2, <2>1 DEF ModifierTransition
  <1>3. CASE modifier \notin current
    BY <1>3 DEF ModifierTransition
  <1> QED
    BY <1>2, <1>3

(* Once the tracked modifiers are the held ones they stay so while input   *)
(* is forwarded, with any number of left and right pairs: an event for one *)
(* of a pair never swaps it with its sibling.                              *)
THEOREM ModifiersAlwaysInStep == Spec => ModifiersStayInStep
  <1>1. TapTypeOK /\ [Next]_vars =>
          [input.modifiers = held_modifiers /\ forwarding => input'.modifiers = held_modifiers']_vars
    <2> SUFFICES ASSUME TapTypeOK, [Next]_vars, input.modifiers = held_modifiers, forwarding
                 PROVE  input'.modifiers = held_modifiers'
      OBVIOUS
    <2>0. input \in Input /\ Found = input
      BY DEF TapTypeOK, Found
    <2>1. ASSUME NEW modifier \in Modifiers, ModifierChanges(modifier)
          PROVE  input'.modifiers = held_modifiers'
      <3> DEFINE next == held_modifiers'
      <3>1. next = IF modifier \in input.modifiers THEN input.modifiers \ {modifier}
                                                   ELSE input.modifiers \cup {modifier}
        BY <2>1 DEF ModifierChanges
      <3>2. input'.modifiers = ModifierTransition(input.modifiers, modifier,
                                 next \cap ({modifier} \cup Siblings(modifier)) # {})
        BY <2>0, <2>1 DEF ModifierChanges, Input
      <3>3. input.modifiers \in SUBSET Modifiers
        BY <2>0 DEF Input
      <3> HIDE DEF next
      <3>4. input'.modifiers = next
        BY <3>1, <3>2, <3>3, TransitionFollows
      <3> QED
        BY <3>4 DEF next
    <2>2. CASE KeyEvent \/ \E place \in Places : MouseMoves(place)
      <3>1. held_modifiers' = held_modifiers
        BY <2>2 DEF KeyEvent, EscapeDown, EscapeUp, Chord, OrdinaryDown, KeyUp, KeyGoesDown, KeyGoesUp,
                    MouseMoves, userVars
      <3>2. \A found \in Input : \A key : /\ Press(found, key).modifiers = found.modifiers
                                          /\ Release(found, key).modifiers = found.modifiers
        BY DEF Press, Release, Input
      <3>3. \/ input' = Found \/ (\E key \in Keys : input' = Release(Found, key))
            \/ \E key \in Keys : input' = Press(Found, key) \/ input' = Press(Press(Found, Escape), key)
        BY <2>2, KeyFacts DEF KeyEvent, EscapeDown, EscapeUp, Chord, OrdinaryDown, KeyUp, MouseMoves
      <3>4. Press(Found, Escape) \in Input
        BY <2>0, KeyFacts, PressFacts
      <3> QED
        BY <2>0, <3>1, <3>2, <3>3, <3>4
    <2>3. CASE Switching \/ UNCHANGED vars
      BY <2>3, SwitchingLeavesTap DEF vars, userVars, tapVars
    <2> QED
      BY <2>1, <2>2, <2>3 DEF Next
  <1> QED
    BY <1>1, TapTypeCorrect, PTL DEF Spec, ModifiersStayInStep
=============================================================================
