CONSTANTS
  h1 = h1
  h2 = h2
  w1 = w1
  w2 = w2
  Hashes = {h1, h2}
  Writers = {w1, w2}
  MaxEvents = 4
  Torn = Torn
  None = None
SPECIFICATION Spec
SYMMETRY Symmetric
INVARIANTS
  TypeOK
  PublishedWhole
  ReturnedIsStored
  JournalMatches
PROPERTY PublishedFinal
CHECK_DEADLOCK FALSE
