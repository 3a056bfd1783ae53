SPECIFICATION Spec
CONSTANTS
  a0 = a0  a1 = a1  blank = blank  code = code
  Addr = {a0, a1}
  ResetPc = a0
  Movx = {a1}
  Isr = {a1}
  Content = {blank, code}
  Blank = blank
  Files <- MCFiles
  Codes <- MCCodes
  Ops = {"START", "STOP", "RESET", "LOAD_STATE", "SAVE_STATE", "WRITE_RAM", "QUIT"}
  MaxCommands = 2
  MaxSignals = 0
INVARIANTS CallerOwnsState StateIsMachine
PROPERTIES ThreadSpec CallsReturn QuitEnds
