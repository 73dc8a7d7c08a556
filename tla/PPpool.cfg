SPECIFICATION Spec
CONSTANTS
  Key <- MCKey
  Declared <- MCDeclared
  Concurrency = 2
  MinFailures = 2
  MaxStreak = 1
INVARIANTS TypeOK OneResultEach SendsAreSafe
PROPERTIES Terminates VerdictSpec
