---------------------------- MODULE EncoderLemmas ----------------------------
(***************************************************************************)
(* What TLAPS proves about the operators of TouchReportEncoder, for any    *)
(* number of fingers and any size of report.                               *)
(***************************************************************************)
EXTENDS TouchReportEncoder, FiniteSetTheorems, TLAPS

(* Members of ContactMap are the functions from some contacts.             *)
LEMMA ContactMapIntro ==
  ASSUME NEW ids \in SUBSET ContactIds, NEW map \in [ids -> Contact]
  PROVE  map \in ContactMap
  BY DEF ContactMap

LEMMA ContactMapElim ==
  ASSUME NEW map \in ContactMap
  PROVE  /\ DOMAIN map \subseteq ContactIds
         /\ map \in [DOMAIN map -> Contact]
         /\ \A id \in DOMAIN map : map[id] \in Contact
  BY DEF ContactMap

LEMMA NoContactsIsMap == NoContacts \in ContactMap /\ DOMAIN NoContacts = {}
  <1>1. NoContacts \in [{} -> Contact] /\ DOMAIN NoContacts = {}
    BY DEF NoContacts
  <1> QED
    BY <1>1, ContactMapIntro

(* The operators of the encoder stay within the types.                     *)
LEMMA LiftType ==
  ASSUME NEW contact \in Contact
  PROVE  /\ Lift(contact) \in Contact
         /\ ~Lift(contact).touching
  BY DEF Lift, Contact

LEMMA FreshIsNew ==
  ASSUME NEW t, NEW c, NEW fresh \in FreshChoices(t, c)
  PROVE  fresh \subseteq DOMAIN c \ DOMAIN t
  BY DEF FreshChoices

LEMMA ReportType ==
  ASSUME NEW t \in ContactMap, NEW c \in ContactMap, NEW fresh \in FreshChoices(t, c)
  PROVE  /\ Report(t, c, fresh) \in ContactMap
         /\ DOMAIN Report(t, c, fresh) = DOMAIN t \cup fresh
  <1>1. DOMAIN t \cup fresh \subseteq ContactIds
    BY ContactMapElim, FreshIsNew
  <1>2. ASSUME NEW id \in DOMAIN t \cup fresh
        PROVE  (IF id \in DOMAIN c THEN c[id] ELSE Lift(t[id])) \in Contact
    BY ContactMapElim, FreshIsNew, LiftType
  <1>3. Report(t, c, fresh) \in [DOMAIN t \cup fresh -> Contact]
    BY <1>2 DEF Report
  <1> QED
    BY <1>1, <1>3, ContactMapIntro

LEMMA NextTrackedType ==
  ASSUME NEW t \in ContactMap, NEW c \in ContactMap, NEW fresh \in FreshChoices(t, c)
  PROVE  /\ NextTracked(t, c, fresh) \in ContactMap
         /\ DOMAIN NextTracked(t, c, fresh) \subseteq DOMAIN t \cup fresh
         /\ \A id \in DOMAIN t \cup fresh :
              id \in DOMAIN NextTracked(t, c, fresh) <=> id \in DOMAIN c /\ c[id].touching
  <1> DEFINE kept == (DOMAIN t \cap DOMAIN c) \cup fresh
             ids  == {i \in kept : c[i].touching}
  <1>1. fresh \subseteq DOMAIN c \ DOMAIN t
    BY FreshIsNew
  <1>2. ids \subseteq DOMAIN c /\ ids \subseteq ContactIds
    BY <1>1, ContactMapElim
  <1>3. NextTracked(t, c, fresh) \in [ids -> Contact]
    BY <1>2, ContactMapElim DEF NextTracked
  <1>4. DOMAIN NextTracked(t, c, fresh) = ids
    BY DEF NextTracked
  <1>5. \A id \in DOMAIN t \cup fresh : id \in ids <=> id \in DOMAIN c /\ c[id].touching
    BY <1>1
  <1>6. ids \subseteq DOMAIN t \cup fresh
    OBVIOUS
  <1> HIDE DEF ids
  <1> QED
    BY <1>2, <1>3, <1>4, <1>5, <1>6, ContactMapIntro

(* What the encoder tracks next is what the report it returns shows        *)
(* touching: a contact that is in the frame is reported as it is, one that *)
(* is not is lifted.                                                       *)
LEMMA TrackedIsTouching ==
  ASSUME NEW t \in ContactMap, NEW c \in ContactMap, NEW fresh \in FreshChoices(t, c)
  PROVE  DOMAIN NextTracked(t, c, fresh) = Touching(Report(t, c, fresh))
  <1>1. ASSUME NEW id \in DOMAIN t \cup fresh
        PROVE  Report(t, c, fresh)[id].touching <=> (id \in DOMAIN c /\ c[id].touching)
    <2>1. CASE id \in DOMAIN c
      BY <2>1 DEF Report
    <2>2. CASE id \notin DOMAIN c
      <3>1. id \in DOMAIN t /\ t[id] \in Contact
        BY <2>2, FreshIsNew, ContactMapElim
      <3>2. Report(t, c, fresh)[id] = Lift(t[id])
        BY <2>2 DEF Report
      <3> QED
        BY <2>2, <3>1, <3>2, LiftType
    <2> QED
      BY <2>1, <2>2
  <1> DEFINE next == NextTracked(t, c, fresh)
             r    == Report(t, c, fresh)
  <1>2. DOMAIN r = DOMAIN t \cup fresh
    BY ReportType
  <1>3. DOMAIN next \subseteq DOMAIN t \cup fresh
    BY NextTrackedType
  <1>4. \A id \in DOMAIN t \cup fresh : id \in DOMAIN next <=> r[id].touching
    BY <1>1, NextTrackedType
  <1> HIDE DEF next, r
  <1>5. DOMAIN next = Touching(r)
    BY <1>2, <1>3, <1>4 DEF Touching
  <1> QED
    BY <1>5 DEF next, r

(* A peer that had on its surface what the encoder tracked has it again    *)
(* after the next report.                                                  *)
LEMMA PeerFollows ==
  ASSUME NEW t \in ContactMap, NEW c \in ContactMap, NEW fresh \in FreshChoices(t, c)
  PROVE  PeerDown(DOMAIN t, Report(t, c, fresh)) = DOMAIN NextTracked(t, c, fresh)
  <1> DEFINE r == Report(t, c, fresh)
  <1>0. DOMAIN r = DOMAIN t \cup fresh
    BY ReportType
  <1>1. DOMAIN t \subseteq DOMAIN r
    <2> HIDE DEF r
    <2> QED
      BY <1>0
  <1>2. DOMAIN NextTracked(t, c, fresh) = Touching(r)
    BY TrackedIsTouching
  <1> HIDE DEF r
  <1>3. PeerDown(DOMAIN t, r) = Touching(r)
    BY <1>1 DEF PeerDown
  <1> QED
    BY <1>2, <1>3 DEF r

-----------------------------------------------------------------------------
(* How many contacts a report names.                                       *)

LEMMA MapsAreFinite ==
  ASSUME NEW map \in ContactMap
  PROVE  IsFiniteSet(DOMAIN map) /\ Cardinality(DOMAIN map) \in Nat
  BY ContactMapElim, FS_Subset, FS_CardinalityType, EncoderAssumption DEF EncoderAssumption

(* The encoder never tracks more than a report holds, and no report names  *)
(* more: the new contacts fill at most the room that tracked ones leave.   *)
LEMMA ReportFits ==
  ASSUME NEW t \in ContactMap, NEW c \in ContactMap, NEW fresh \in FreshChoices(t, c),
         Cardinality(DOMAIN t) <= MAX_TOUCH_CONTACTS
  PROVE  /\ Cardinality(DOMAIN Report(t, c, fresh)) <= MAX_TOUCH_CONTACTS
         /\ Cardinality(DOMAIN NextTracked(t, c, fresh)) <= MAX_TOUCH_CONTACTS
  <1> DEFINE new  == DOMAIN c \ DOMAIN t
             room == MAX_TOUCH_CONTACTS - Cardinality(DOMAIN t)
             r    == DOMAIN Report(t, c, fresh)
  <1>1. IsFiniteSet(fresh) /\ Cardinality(fresh) <= room
    <2>1. IsFiniteSet(new) /\ fresh \in SUBSET new
      BY MapsAreFinite, FS_Difference DEF FreshChoices
    <2>2. IsFiniteSet(fresh)
      BY <2>1, FS_Subset
    <2>3. Cardinality(fresh) <= room
      BY MapsAreFinite, EncoderAssumption DEF FreshChoices, EncoderAssumption
    <2> QED
      BY <2>2, <2>3
  <1>2. IsFiniteSet(r) /\ Cardinality(r) = Cardinality(DOMAIN t) + Cardinality(fresh)
    <2>1. DOMAIN t \cap fresh = {}
      BY FreshIsNew
    <2>2. r = DOMAIN t \cup fresh
      BY ReportType
    <2>3. Cardinality(DOMAIN t) \in Nat /\ Cardinality(fresh) \in Nat
      BY <1>1, MapsAreFinite, FS_CardinalityType
    <2>4. /\ IsFiniteSet(DOMAIN t \cup fresh)
          /\ Cardinality(DOMAIN t \cup fresh)
               = Cardinality(DOMAIN t) + Cardinality(fresh) - Cardinality(DOMAIN t \cap fresh)
      BY <1>1, MapsAreFinite, FS_Union
    <2>5. Cardinality(DOMAIN t \cap fresh) = 0
      BY <2>1, FS_EmptySet
    <2> HIDE DEF r
    <2> QED
      BY <2>2, <2>3, <2>4, <2>5
  <1>3. Cardinality(r) <= MAX_TOUCH_CONTACTS
    BY <1>1, <1>2, MapsAreFinite, FS_CardinalityType, EncoderAssumption DEF EncoderAssumption
  <1>4. DOMAIN NextTracked(t, c, fresh) \in SUBSET r
    <2>1. DOMAIN NextTracked(t, c, fresh) \subseteq DOMAIN t \cup fresh
      BY NextTrackedType
    <2>2. r = DOMAIN t \cup fresh
      BY ReportType
    <2> HIDE DEF r
    <2> QED
      BY <2>1, <2>2
  <1> QED
    BY <1>2, <1>3, <1>4, FS_Subset, FS_CardinalityType, EncoderAssumption DEF EncoderAssumption
=============================================================================
