SPECIFICATION Spec
CONSTANTS
  Callers = {a, b}
  Procs = {p, q}
  MaxMint = 2
  MaxPosts = 2
  Freezes = {"live"}
  Faults = {"lost", "nowrite", "noflock", "crash", "logout"}
SYMMETRY MCSymmetry
INVARIANTS
  SpentOnce
  NewestKept
  VerdictTrue
CHECK_DEADLOCK FALSE
