SPECIFICATION Spec
CONSTANTS
  Thread = {t1, t2}
  Driver = {"gpu", "legacy", "vpu", "npu", "alt1", "alt2"}
  None = None
  Devices <- MCDevices
  Advertised <- MCAdvertised
  Environments <- MCEither
  InitFlags = {}
  Descs = {{"GPU"}, {"NPU"}}
  Together = TRUE
INVARIANT RequestedDriversReturned
