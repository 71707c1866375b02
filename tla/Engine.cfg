SPECIFICATION Spec
CONSTANTS
  g = g  a1 = a1  a2 = a2  a3 = a3  a4 = a4  b1 = b1  b2 = b2  b3 = b3  b4 = b4  c2 = c2
  lost = lost  zero = zero  goal = goal  none = none
INVARIANTS MemoryIsCanonicalChain AnswersAreTrue BackfillExclusive InMemoryConsistent
PROPERTIES BufferConsistent EngineProgress
