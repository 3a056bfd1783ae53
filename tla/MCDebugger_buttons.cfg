SPECIFICATION Spec
CONSTANTS
  a0 = a0  a1 = a1  blank = blank  code = code
  Addr = {a0, a1}
  ResetPc = a0
  Movx = {a1}
  Isr = {}
  Content = {blank}
  Blank = blank
  Files <- NoFiles
  Codes <- NoCodes
  Ops = {"START", "STOP", "SINGLE_STEP", "RESET", "ADD_BP", "REMOVE_BP", "BREAK_ON_MOVX"}
  MaxCommands = 2
  MaxSignals = 1
INVARIANTS ButtonsAgree TitleNotStopped MarksAgree StopPrevails NoRunThroughBreakpoint
PROPERTIES StopIsShown StopIsServed
