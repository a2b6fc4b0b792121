SPECIFICATION Spec
CONSTANTS
  Threads = {t1, t2, t3}
  Monitors = {}
  OpenDuration = 2
  WindowDuration = 0
  MinSamples = 1
  RateNum = 1
  RateDen = 2
  MaxProbes = 1
  WindowCap = 1
  UsizeMod = 8
  CallTicks = 1
  History = {"probing"}
SYMMETRY MCSymmetry
INVARIANT ProbeLimit
