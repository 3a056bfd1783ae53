\* Two digits, one key with two buttons, one switch.
SPECIFICATION Spec
CONSTANTS
  dark = dark  lit = lit  off = off  on = on
  left = left  right = right  key0 = key0
  Rows = 2
  Blank = dark  Segments = {dark, lit}
  Buttons = {left, right}  Typable = {right}
  Keys = {key0}  KeyOf <- MCKeyOf  RowOf <- MCRowOf
  Switches = 1
  AllOff = on  AllOn = on  Levels = {on}
  NIL = NIL
  MaxUpdates = 1
INVARIANTS DisplayAlive SwitchesFresh
PROPERTIES DigitsGenuine DisplaySettles KeysSettle
