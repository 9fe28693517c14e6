SPECIFICATION Spec
CONSTANTS
  ContactIds = {c1, c2, c3}
  Positions = {p, q}
  MAX_TOUCH_CONTACTS = 2
INVARIANTS TypeOK PeerAgrees CapacityRespected
PROPERTIES LiftAtLastPlace LiftedOnce SecondFrameCatchesUp
