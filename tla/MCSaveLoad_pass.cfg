SPECIFICATION Spec
CONSTANTS
  Cell <- MCCell
  Pos <- MCCell
  Data <- MCData
  Raise <- MCRaise
  Lower <- MCLower
  Cpus <- MCCpus
  Fresh <- MCFresh
  Torn = {66}
INVARIANTS ResumesOnSamePorts
PROPERTIES LoadedWasSaved
