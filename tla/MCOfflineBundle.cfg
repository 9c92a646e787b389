\* Two exports, of one commit or of two, into one directory or two.
SPECIFICATION Spec
CONSTANTS
  Exporters = {e1, e2}
  Dirs = {d1, d2}
  Shas = {s1, s2}
  Powers = {10, 100, 1000}
  Rests = {8, 98}
  Nothing = Nothing
  Damaged = Damaged
  MaxFaults = 2
INVARIANTS
  StartedIsExported
  IntactAccepted
  SizeSettles
SYMMETRY Perms
CHECK_DEADLOCK FALSE
