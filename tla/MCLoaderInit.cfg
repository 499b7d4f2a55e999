SPECIFICATION Spec
CONSTANTS
  Thread = {t1, t2}
  Driver = {"gpu", "legacy", "vpu", "npu", "alt1", "alt2"}
  None = None
  Devices <- MCDevices
  Advertised <- MCAdvertised
  Environments <- MCEnvironments
  InitFlags = {{"GPU", "NPU"}}
  Descs = {{"GPU"}, {"NPU"}, {"GPU", "NPU"}}
  Together = FALSE
INVARIANTS TypeOK DriversKept RequestedDriversReturned IdenticalHandles DocumentedOrder
