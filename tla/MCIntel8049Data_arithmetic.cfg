SPECIFICATION Spec
CONSTANTS
  Nibble = 4
  Radix = 3
  RamSize = 2
  Regs = 1
  Bank1 = 1
  Input = {6, 9}
  Garbage = {11}
INVARIANTS DataTypeOK
PROPERTIES DecimalExact BanksApart ImplementsAccumulator
