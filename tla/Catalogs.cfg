SPECIFICATION Spec
CONSTANTS
  None = None
  Order <- MCOrder
  Config = "config"
  Seeds <- MCSeeds
  Images <- MCImages
  Edits <- MCEdits
  Imports <- MCImports
  Workers = {w1, w2}
  Admins = {a1, a2}
  MaxCopies = 1
  MaxRequests = 2
  MaxBoots = 1
INVARIANTS CachesHold
PROPERTIES ImportIsSafe RestartKeepsEdits
SYMMETRY Same
CHECK_DEADLOCK FALSE
