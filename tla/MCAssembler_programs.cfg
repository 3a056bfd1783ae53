\* Up to three words where two fit, one name, a number in range and one out of range.
SPECIFICATION Spec
CONSTANTS
  name = name
  Names = {name}
  Opcodes = {1}
  Numbers = {1, 2}
  Half = 1
  NIL = NIL
INVARIANTS Resolved PatchesHit CodeFits
