SPECIFICATION Spec
CONSTANTS
  Threads = {t1, t2}
  Monitors = {t1, t2}
  OpenDuration = 5
  WindowDuration = 1
  MinSamples = 2
  RateNum = 1
  RateDen = 2
  MaxProbes = 1
  WindowCap = 2
  UsizeMod = 8
  CallTicks = 1
  History = {"open_for"}
SYMMETRY MCSymmetry
INVARIANTS
  WindowConsistent
  StampFresh
PROPERTIES
  CoolDownBounded
