\* .ORG back to an address before.
SPECIFICATION Spec
CONSTANTS
  name = name
  Names = {name}
  Opcodes = {1}
  Numbers = {1, 2}
  Half = 1
  NIL = NIL
INVARIANTS WordsRemain
