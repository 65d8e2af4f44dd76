SPECIFICATION Spec
CONSTANTS
  one = one
  two = two
  Passwords = {one, two}
  MaxFormats = 2
  MaxCuts = 2
  Faults = {"abort", "power", "short"}
INVARIANT TypeOK
INVARIANT NothingOldUnderCover
INVARIANT HeaderNeedsCover
INVARIANT PoweredOpens
INVARIANT OpenedIsWhole
INVARIANT SanitizedSurvives
SYMMETRY Perms
