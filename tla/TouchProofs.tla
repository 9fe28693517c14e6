----------------------------- MODULE TouchProofs -----------------------------
(***************************************************************************)
(* What TLAPS proves about a stream of touch frames, for any number of     *)
(* fingers and any size of report.                                         *)
(***************************************************************************)
EXTENDS TouchStream, EncoderLemmas

-----------------------------------------------------------------------------
(* The stream of frames.  The inductive invariant: the last report showed  *)
(* touching what is tracked, the peer has just that, and it fits.          *)
StreamInv == TypeOK /\ PeerAgrees /\ Bounded(tracked) /\ CapacityRespected

LEMMA StreamInit == Init => StreamInv
  <1> SUFFICES ASSUME Init PROVE StreamInv
    OBVIOUS
  <1>1. Touching(NoContacts) = {}
    BY NoContactsIsMap DEF Touching
  <1>2. Cardinality({}) <= MAX_TOUCH_CONTACTS
    BY FS_EmptySet, EncoderAssumption DEF EncoderAssumption
  <1> QED
    BY <1>1, <1>2, NoContactsIsMap DEF Init, StreamInv, TypeOK, PeerAgrees, Bounded, CapacityRespected

LEMMA StreamStep == StreamInv /\ [Next]_vars => StreamInv'
  <1> SUFFICES ASSUME StreamInv, [Next]_vars PROVE StreamInv'
    OBVIOUS
  <1>1. CASE Next
    <2>0. PICK frame \in ContactMap : Encode(frame)
      BY <1>1 DEF Next
    <2>1. PICK fresh \in FreshChoices(tracked, frame) :
            /\ contacts' = frame
            /\ report' = Report(tracked, frame, fresh)
            /\ tracked' = NextTracked(tracked, frame, fresh)
            /\ down' = PeerDown(down, report')
      BY <2>0 DEF Encode
    <2>2. tracked \in ContactMap /\ down = DOMAIN tracked
          /\ Cardinality(DOMAIN tracked) <= MAX_TOUCH_CONTACTS
      BY DEF StreamInv, TypeOK, PeerAgrees, Bounded
    <2>3. TypeOK'
      <3>1. tracked' \in ContactMap /\ contacts' \in ContactMap /\ report' \in ContactMap
        BY <2>0, <2>1, <2>2, ReportType, NextTrackedType
      <3>2. DOMAIN NextTracked(tracked, frame, fresh) = Touching(Report(tracked, frame, fresh))
        BY <2>1, <2>2, TrackedIsTouching
      <3>3. DOMAIN tracked' = Touching(report')
        BY <3>2, <2>1
      <3> QED
        BY <3>1, <3>3 DEF TypeOK, Touching
    <2>4. PeerAgrees'
      BY <2>1, <2>2, PeerFollows DEF PeerAgrees
    <2>5. Bounded(tracked)' /\ CapacityRespected'
      BY <2>1, <2>2, ReportFits DEF Bounded, CapacityRespected
    <2> QED
      BY <2>3, <2>4, <2>5 DEF StreamInv
  <1>2. CASE UNCHANGED vars
    BY <1>2 DEF vars, StreamInv, TypeOK, PeerAgrees, Bounded, CapacityRespected, Touching
  <1> QED
    BY <1>1, <1>2

LEMMA StreamInvariant == Spec => []StreamInv
  BY StreamInit, StreamStep, PTL DEF Spec

(* Type correctness of the stream, with what the encoder tracks being what *)
(* its last report showed touching.                                        *)
THEOREM StreamTypeCorrect == Spec => []TypeOK
  <1>1. StreamInv => TypeOK
    BY DEF StreamInv
  <1> QED
    BY <1>1, StreamInvariant, PTL

(* For any number of fingers and any size of report, a peer that gets      *)
(* every report has on its surface exactly what the encoder tracks.        *)
THEOREM PeerAlwaysAgrees == Spec => []PeerAgrees
  <1>1. StreamInv => PeerAgrees
    BY DEF StreamInv
  <1> QED
    BY <1>1, StreamInvariant, PTL

(* No report is asked to hold more contacts than its array has.            *)
THEOREM CapacityAlwaysRespected == Spec => []CapacityRespected
  <1>1. StreamInv => CapacityRespected
    BY DEF StreamInv
  <1> QED
    BY <1>1, StreamInvariant, PTL

-----------------------------------------------------------------------------
(* What a step may do.  What is tracked of a contact is what the last      *)
(* report said of it, and comes from the last frame, which fits.           *)
LastInv ==
  /\ StreamInv
  /\ \A id \in DOMAIN tracked : tracked[id] = report[id]
  /\ DOMAIN tracked \subseteq DOMAIN contacts
  /\ Bounded(contacts)

LEMMA LastStep == LastInv /\ [Next]_vars => LastInv'
  <1> SUFFICES ASSUME LastInv, [Next]_vars PROVE LastInv'
    OBVIOUS
  <1>1. CASE Next
    <2>1. PICK frame \in ContactMap : Bounded(frame) /\ Encode(frame)
      BY <1>1 DEF Next
    <2>2. PICK fresh \in FreshChoices(tracked, frame) :
            /\ contacts' = frame
            /\ report' = Report(tracked, frame, fresh)
            /\ tracked' = NextTracked(tracked, frame, fresh)
      BY <2>1 DEF Encode
    <2>3. tracked \in ContactMap
      BY DEF LastInv, StreamInv, TypeOK
    <2>4. DOMAIN tracked' \subseteq DOMAIN contacts' /\ DOMAIN tracked' \subseteq DOMAIN tracked \cup fresh
      BY <2>2, <2>3, NextTrackedType
    <2>5. \A id \in DOMAIN tracked' : tracked'[id] = frame[id]
      BY <2>2 DEF NextTracked
    <2>6. \A id \in DOMAIN tracked' : report'[id] = frame[id]
      BY <2>2, <2>4 DEF Report
    <2> QED
      BY <1>1, <2>1, <2>2, <2>4, <2>5, <2>6, StreamStep DEF LastInv, Bounded
  <1>2. CASE UNCHANGED vars
    BY <1>2, StreamStep DEF LastInv, vars, Bounded
  <1> QED
    BY <1>1, <1>2

LEMMA LastInvariant == Spec => []LastInv
  <1>1. Init => LastInv
    BY StreamInit, NoContactsIsMap DEF Init, LastInv, StreamInv, Bounded
  <1> QED
    BY <1>1, LastStep, PTL DEF Spec

(* A finger that leaves is lifted where it was last reported.              *)
THEOREM LiftsStayInPlace == Spec => LiftAtLastPlace
  <1>1. LastInv /\ [Next]_vars =>
          [\A id \in down \ DOMAIN contacts' :
             /\ id \in DOMAIN report'
             /\ report'[id] = [at |-> report[id].at, confident |-> TRUE, touching |-> FALSE]]_vars
    <2> SUFFICES ASSUME LastInv, Next, NEW id \in down \ DOMAIN contacts'
                 PROVE  /\ id \in DOMAIN report'
                        /\ report'[id] = [at |-> report[id].at, confident |-> TRUE, touching |-> FALSE]
      OBVIOUS
    <2>1. PICK frame \in ContactMap : Encode(frame)
      BY DEF Next
    <2>2. PICK fresh \in FreshChoices(tracked, frame) :
            contacts' = frame /\ report' = Report(tracked, frame, fresh)
      BY <2>1 DEF Encode
    <2>3. id \in DOMAIN tracked /\ id \notin DOMAIN frame /\ tracked[id] = report[id]
      BY <2>2 DEF LastInv, StreamInv, PeerAgrees
    <2>4. DOMAIN report' = DOMAIN tracked \cup fresh /\ report'[id] = Lift(tracked[id])
      BY <2>2, <2>3 DEF Report
    <2> QED
      BY <2>3, <2>4 DEF Lift
  <1> QED
    BY <1>1, LastInvariant, PTL DEF Spec, LiftAtLastPlace

(* No contact is lifted a second time.                                     *)
THEOREM LiftsAreSentOnce == Spec => LiftedOnce
  <1>1. LastInv /\ [Next]_vars =>
          [\A id \in DOMAIN report' \ DOMAIN contacts' : id \in Touching(report)]_vars
    <2> SUFFICES ASSUME LastInv, Next, NEW id \in DOMAIN report' \ DOMAIN contacts'
                 PROVE  id \in Touching(report)
      OBVIOUS
    <2>1. PICK frame \in ContactMap : Encode(frame)
      BY DEF Next
    <2>2. PICK fresh \in FreshChoices(tracked, frame) :
            contacts' = frame /\ report' = Report(tracked, frame, fresh)
      BY <2>1 DEF Encode
    <2>3. DOMAIN report' = DOMAIN tracked \cup fresh /\ fresh \subseteq DOMAIN frame
      BY <2>2, FreshIsNew DEF Report
    <2>4. DOMAIN tracked = Touching(report)
      BY DEF LastInv, StreamInv, TypeOK
    <2> QED
      BY <2>2, <2>3, <2>4
  <1> QED
    BY <1>1, LastInvariant, PTL DEF Spec, LiftedOnce

(* When the same fingers are reported twice, the second report has room    *)
(* for all of them: what is tracked is among them, so no lift takes any.   *)
LEMMA AllFresh ==
  ASSUME NEW t \in ContactMap, NEW c \in ContactMap, DOMAIN t \subseteq DOMAIN c, Bounded(c),
         NEW fresh \in FreshChoices(t, c)
  PROVE  fresh = DOMAIN c \ DOMAIN t
  <1> DEFINE new == DOMAIN c \ DOMAIN t
  <1>1. Cardinality(new) = Cardinality(DOMAIN c) - Cardinality(DOMAIN c \cap DOMAIN t)
    BY MapsAreFinite, FS_Difference
  <1>2. DOMAIN c \cap DOMAIN t = DOMAIN t
    OBVIOUS
  <1>3. Cardinality(DOMAIN c) \in Nat /\ Cardinality(DOMAIN t) \in Nat
    BY MapsAreFinite
  <1>4. Cardinality(new) <= MAX_TOUCH_CONTACTS - Cardinality(DOMAIN t)
    BY <1>1, <1>2, <1>3, EncoderAssumption DEF Bounded, EncoderAssumption
  <1> QED
    BY <1>4 DEF FreshChoices

THEOREM SecondFrameAlwaysCatchesUp == Spec => SecondFrameCatchesUp
  <1>1. LastInv /\ [Next]_vars => [contacts' = contacts => DOMAIN tracked' = Touching(contacts')]_vars
    <2> SUFFICES ASSUME LastInv, Next, contacts' = contacts
                 PROVE  DOMAIN tracked' = Touching(contacts')
      OBVIOUS
    <2>1. PICK frame \in ContactMap : Encode(frame)
      BY DEF Next
    <2>2. PICK fresh \in FreshChoices(tracked, frame) :
            contacts' = frame /\ tracked' = NextTracked(tracked, frame, fresh)
      BY <2>1 DEF Encode
    <2>3. tracked \in ContactMap /\ DOMAIN tracked \subseteq DOMAIN frame /\ Bounded(frame)
      BY <2>2 DEF LastInv, StreamInv, TypeOK, Bounded
    <2>4. fresh = DOMAIN frame \ DOMAIN tracked
      BY <2>3, AllFresh
    <2>5. DOMAIN tracked \cup fresh = DOMAIN frame
      BY <2>3, <2>4
    <2>6. DOMAIN tracked' \subseteq DOMAIN frame
          /\ \A id \in DOMAIN frame : id \in DOMAIN tracked' <=> frame[id].touching
      BY <2>2, <2>3, <2>5, NextTrackedType
    <2> QED
      BY <2>2, <2>6 DEF Touching
  <1> QED
    BY <1>1, LastInvariant, PTL DEF Spec, SecondFrameCatchesUp
=============================================================================
