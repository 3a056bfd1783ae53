SPECIFICATION Spec
CONSTANTS
  Cell <- MCCell
  Pos <- MCCell
  Data <- MCCell
  Raise <- MCRaise
  Lower <- MCLower
  Keys <- MCKeys
INVARIANTS LinesFollowPort AddressHeld
PROPERTIES ImplementsMemory
