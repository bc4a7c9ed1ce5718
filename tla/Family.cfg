SPECIFICATION Spec
CONSTANTS
  Chars <- MCChars
  Letters <- MCLetters
  Plain <- MCPlain
  STOPWORDS = {"estudio"}
  Price <- MCPrice
  FLETE = 5
  MaxRows = 5
  s1 = s1
  s2 = s2
  Slots <- MCSlots
  MaxRequests <- MCMaxRequests
  Names <- MCNames
  PieceLists <- MCPieceLists
  WebInputs <- MCWebInputs
  Databases <- MCDatabases
SYMMETRY MCSymmetry
INVARIANTS TypeOK FamiliesAreFlat ResumenHolds
PROPERTIES FamilyGoesTogether ClientNeverBlanked ExactIsAccepted
CHECK_DEADLOCK FALSE
