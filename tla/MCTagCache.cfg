CONSTANTS
  t1 = t1
  t2 = t2
  t3 = t3
  t4 = t4
  Tag = {t1, t2, t3, t4}
  Bit = {1, 2, 3, 4, 5}
  Hash <- MCHash
  Limit = 4
SPECIFICATION Spec
INVARIANTS
  TypeOK
  BitsAreOfKeptTags
PROPERTIES
  AnswersWithinTolerance
  ImplementsMemory
