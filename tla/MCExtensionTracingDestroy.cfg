SPECIFICATION Spec
CONSTANTS
  Thread = {t1, t2}
  Tracer = {r1, r2}
  MaxRefCount = 3
  Serialised = TRUE
  InstallDuringCalls = FALSE
SYMMETRY Symmetry
INVARIANT EpiloguesOfLiveTracers
