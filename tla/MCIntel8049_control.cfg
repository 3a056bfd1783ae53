SPECIFICATION Spec
CONSTANTS
  f0 = f0  f1 = f1
  PageSize = 1
  BankSize = 2
  RomSize = 3
  StackSize = 2
  Prescaler = 2
  TSize = 2
  TimerVector = 1
  Flags = {f0, f1}
  NoFlags = f0
INVARIANTS StackHolds InterruptOnce PendingOnlyWhileBusy TimerExact NoOverflowLost
PROPERTIES ReturnsHome
