SPECIFICATION SpecWithGaps
CONSTANTS
  Thread = {t1}
  Tracer = {r1}
  MaxRefCount = 3
  Serialised = TRUE
  InstallDuringCalls = FALSE
INVARIANT FramesHandedBack
