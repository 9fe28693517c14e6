------------------------------- MODULE Cursor -------------------------------
(***************************************************************************)
(* host/src/capture/cursor.rs: hiding the Mac cursor while input is        *)
(* forwarded and bringing it back to where it was.  A session is a value;  *)
(* reading and warping the cursor may fail, as the calls of macOS may.     *)
(***************************************************************************)
EXTENDS Integers

CONSTANTS Places,      \* where the cursor can be
          None         \* Option::None

ASSUME CursorAssumption == None \notin Places

CursorSessions == [forwarding : BOOLEAN, restore_point : Places \cup {None}]
NewSession     == [forwarding |-> FALSE, restore_point |-> None]

(* current_cursor_position(): where the cursor is, or an error.            *)
Readings(position) == {position, None}

(* Mutant: leaving does not take the restore point.                        *)
TransitionKeeps(session, next_forwarding, reading) ==
  IF session.forwarding = next_forwarding THEN session
  ELSE [forwarding |-> next_forwarding,
        restore_point |-> IF next_forwarding /\ session.restore_point = None
                            THEN reading ELSE session.restore_point]

(* CursorSession::transition.  Entering keeps a restore point that is      *)
(* there, leaving takes it.                                                *)
Transition(session, next_forwarding, reading) ==
  IF session.forwarding = next_forwarding THEN session
  ELSE [forwarding |-> next_forwarding,
        restore_point |-> CASE ~next_forwarding -> None
                            [] next_forwarding /\ session.restore_point = None -> reading
                            [] OTHER -> session.restore_point]

(* What sync_forwarding does about it: the calls that hide, less those     *)
(* that show, for macOS counts them; and where the cursor may be then.     *)
HideCalls(session, next_forwarding) ==
  IF session.forwarding = next_forwarding THEN 0 ELSE IF next_forwarding THEN 1 ELSE -1

Warps(session, next_forwarding, position) ==
  IF session.forwarding /\ ~next_forwarding /\ session.restore_point # None
    THEN {session.restore_point, position} ELSE {position}
=============================================================================
