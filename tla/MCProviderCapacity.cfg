SPECIFICATION CSpec
CONSTANTS
  a = a
  b = b
  Terminals = {a, b}
  Legacy = {b}
  Callers = {b}
  Mortal = {b}
  Turns <- TwoAndOne
  MaxLimit = 2
  MaxTries = 2
PROPERTIES WithinLimit SuccessorKept NoneForgotten
CHECK_DEADLOCK FALSE
