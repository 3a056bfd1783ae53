SPECIFICATION Both
CONSTANTS
  Page = 2
  Size = 4
  Roms <- Patterns
  Beyond = 255
  Vectors = {3}
  Tables = {0, 1, 2, 3}
  Code <- Reachable
INVARIANTS ShownIsExecuted InStep HighlightFollows FirmwareIsFound
