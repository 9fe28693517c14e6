----------------------------- MODULE TouchStream -----------------------------
(***************************************************************************)
(* The encoder on its own: it is fed any sequence of frames, and a peer    *)
(* applies every report it returns.  The button is left out of the frames: *)
(* encode() copies it and decides nothing by it.                           *)
(***************************************************************************)
EXTENDS TouchReportEncoder

VARIABLES tracked,  \* TouchReportEncoder::tracked
          contacts, \* the contacts of the frame encoded last
          report,   \* the report it gave, NoContacts for None
          down      \* the contacts the peer believes are on the surface

vars == <<tracked, contacts, report, down>>

Init ==
  /\ tracked = NoContacts
  /\ contacts = NoContacts
  /\ report = NoContacts
  /\ down = {}

Encode(frame) ==
  \E fresh \in FreshChoices(tracked, frame) :
    /\ contacts' = frame
    /\ report' = Report(tracked, frame, fresh)
    /\ tracked' = NextTracked(tracked, frame, fresh)
    /\ down' = PeerDown(down, report')

Next == \E frame \in {c \in ContactMap : Bounded(c)} : Encode(frame)

Spec == Init /\ [][Next]_vars

-----------------------------------------------------------------------------
(* What is tracked is what the last report showed touching.                *)
TypeOK ==
  /\ tracked \in ContactMap /\ contacts \in ContactMap /\ report \in ContactMap
  /\ DOMAIN tracked = Touching(report)

(* A peer that got every report has on its surface exactly the contacts    *)
(* the encoder tracks: none is stuck, none is missing.                     *)
PeerAgrees == down = DOMAIN tracked

(* A report never names more contacts than its array holds, although it    *)
(* carries the lifts of one frame and the new contacts of the next.        *)
CapacityRespected == Cardinality(DOMAIN report) <= MAX_TOUCH_CONTACTS

(* A finger that leaves the frame is lifted where the peer last saw it,    *)
(* with confidence kept: a lift elsewhere would be a movement.             *)
LiftAtLastPlace ==
  [][\A id \in down \ DOMAIN contacts' :
       /\ id \in DOMAIN report'
       /\ report'[id] = [at |-> report[id].at, confident |-> TRUE, touching |-> FALSE]]_vars

(* "one-frame liftoff reports": a contact that is not in the frame is      *)
(* named only by the report that lifts it, never by a second one.          *)
LiftedOnce ==
  [][\A id \in DOMAIN report' \ DOMAIN contacts' : id \in Touching(report)]_vars

(* A new contact that found no room because lifts filled the report gets   *)
(* it as soon as the same fingers are reported again.                      *)
SecondFrameCatchesUp ==
  [][contacts' = contacts => DOMAIN tracked' = Touching(contacts')]_vars
=============================================================================
