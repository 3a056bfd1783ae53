\* The keys when the user has let go of them.
SPECIFICATION Spec
CONSTANTS
  dark = dark  lit = lit  off = off  on = on
  left = left  right = right  key0 = key0
  Rows = 2
  Blank = dark  Segments = {dark}
  Buttons = {left, right}  Typable = {right}
  Keys = {key0}  KeyOf <- MCKeyOf  RowOf <- MCRowOf
  Switches = 0
  AllOff = on  AllOn = on  Levels = {on}
  NIL = NIL
  MaxUpdates = 1
INVARIANTS KeysLetGo
