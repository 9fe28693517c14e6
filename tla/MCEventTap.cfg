SPECIFICATION Spec
CONSTANTS
  None = None
  Places = {p1, p2}
  Escape = esc
  MacDigit = one
  PeerDigits = {two}
  Letters = {}
  ConsumerKeys = {mute}
  ModifierKinds = {shift}
  Sides = {left, right}
  MAX_KEYS = 2
  MaxOnTheWay = 2
  RepeatingKeys = {esc}
INVARIANTS TapTypeOK NoGhostKeys KeysArrive MacSeesRelease CursorKept
PROPERTIES EscapeOnce ModifiersStayInStep
CONSTRAINT Bounded
SYMMETRY Symmetry
