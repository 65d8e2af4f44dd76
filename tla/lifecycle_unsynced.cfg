SPECIFICATION Spec
CONSTANTS
  one = one
  two = two
  Passwords = {one, two}
  MaxFormats = 1
  MaxCuts = 1
  Faults = {"power"}
INVARIANT DoneOpens
SYMMETRY Perms
