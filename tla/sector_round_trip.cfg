SPECIFICATION Spec
CONSTANTS
  WordMod = 4
  WordsPerSector = 3
  XorKey = 3
  Keystream <- MCKeystream
  WordXor <- MCXor
INVARIANT RoundTrip
INVARIANT WrongLbaRecoversNothing
INVARIANT EqualSectorsDiffer
CHECK_DEADLOCK FALSE
