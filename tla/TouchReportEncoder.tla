------------------------- MODULE TouchReportEncoder -------------------------
(***************************************************************************)
(* protocol/src/ptp.rs: the stateful encoder that turns semantic touch     *)
(* frames into Windows precision-touchpad reports.                         *)
(*                                                                         *)
(* A contact array with its count is a function from contact identifiers:  *)
(* identifiers are unique in a frame (they name fingers), and a peer reads *)
(* a report by identifier, so positions in the arrays say nothing.  The    *)
(* one place where the order decides is which new contacts are dropped     *)
(* when a report is full: that is a choice here.  The two flag bits are    *)
(* `confident' (CONFIDENCE) and `touching' (TIP_SWITCH).  Scan times and   *)
(* coordinates are data; a position only says where a finger was.          *)
(***************************************************************************)
EXTENDS Integers, FiniteSets

CONSTANTS ContactIds, Positions, MAX_TOUCH_CONTACTS

ASSUME EncoderAssumption ==
  /\ IsFiniteSet(ContactIds)
  /\ MAX_TOUCH_CONTACTS \in Nat \ {0}

Contact    == [at : Positions, confident : BOOLEAN, touching : BOOLEAN]
ContactMap == UNION {[ids -> Contact] : ids \in SUBSET ContactIds}
NoContacts == [id \in {} |-> id]

(* What fits in the arrays of a frame, of a report and of the encoder.     *)
Bounded(contacts) == Cardinality(DOMAIN contacts) <= MAX_TOUCH_CONTACTS
TouchFrame == [contacts : {c \in ContactMap : Bounded(c)}, button : BOOLEAN]
NoFrame    == [contacts |-> NoContacts, button |-> FALSE]

-----------------------------------------------------------------------------
(* encode(): tracked contacts that are in the frame keep their entry,      *)
(* tracked contacts that are not get a lift, and new contacts fill what is *)
(* left of the report.  `fresh' is the set of new contacts that fit.       *)

(* Mutant: the lift is reported at some other place.                       *)
LiftForgetsPlace(contact) ==
  [at |-> CHOOSE p \in Positions : p # contact.at, confident |-> TRUE, touching |-> FALSE]

(* PtpContact::FINGER_UP at the position that was last reported.           *)
Lift(contact) == [at |-> contact.at, confident |-> TRUE, touching |-> FALSE]

(* Mutant: lifts are not counted against the room of the report.           *)
FreshIgnoringLifts(tracked, contacts) ==
  LET new  == DOMAIN contacts \ DOMAIN tracked
      room == MAX_TOUCH_CONTACTS - Cardinality(DOMAIN tracked \cap DOMAIN contacts)
  IN  {fresh \in SUBSET new :
         IF Cardinality(new) <= room THEN fresh = new
                                     ELSE Cardinality(fresh) = room}

FreshChoices(tracked, contacts) ==
  LET new  == DOMAIN contacts \ DOMAIN tracked
      room == MAX_TOUCH_CONTACTS - Cardinality(DOMAIN tracked)
  IN  {fresh \in SUBSET new :
         IF Cardinality(new) <= room THEN fresh = new
                                     ELSE Cardinality(fresh) = room}

Report(tracked, contacts, fresh) ==
  [id \in DOMAIN tracked \cup fresh |->
     IF id \in DOMAIN contacts THEN contacts[id] ELSE Lift(tracked[id])]

(* Mutants: a contact that stopped touching stays tracked; a lifted one    *)
(* stays tracked; a new one is reported but not tracked.                   *)
TrackedUntilGone(tracked, contacts, fresh) ==
  [id \in (DOMAIN tracked \cap DOMAIN contacts) \cup fresh |-> contacts[id]]

TrackedForever(tracked, contacts, fresh) ==
  [id \in DOMAIN tracked \cup fresh |->
     IF id \in DOMAIN contacts THEN contacts[id] ELSE tracked[id]]

TrackedOnlyKept(tracked, contacts, fresh) ==
  [id \in {i \in DOMAIN tracked \cap DOMAIN contacts : contacts[i].touching} |-> contacts[id]]

NextTracked(tracked, contacts, fresh) ==
  [id \in {i \in (DOMAIN tracked \cap DOMAIN contacts) \cup fresh : contacts[i].touching}
     |-> contacts[id]]

-----------------------------------------------------------------------------
(* The contacts a frame or a report shows on the surface.                  *)
Touching(map) == {id \in DOMAIN map : map[id].touching}

(* How a peer reads a report: a contact with the tip switch is down, one   *)
(* without is up, and one the report does not name stays as it was -- the  *)
(* encoder's lift frames exist because of that.                            *)
PeerDown(down, report) == (down \ DOMAIN report) \cup Touching(report)
=============================================================================
