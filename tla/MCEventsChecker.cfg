SPECIFICATION Spec
CONSTANTS
  MaxNodes = 4
  None = None
  Event = {e1, e2, e3}
  nullptr = nullptr
  invalidDagID = invalidDagID
  unknown = unknown
  MaxUses = 1
SYMMETRY Symmetry
INVARIANTS TypeOK CheckInvariants
PROPERTIES ImplementsAcyclicGraph ImplementsEventWaits
