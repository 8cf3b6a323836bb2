\* Two requests of any kind, sent ahead or one after the other.
SPECIFICATION Spec
CONSTANTS
  Tree <- MCTree
  Root <- MCRoot
  Routes <- MCRoutes
  Requests <- MCRequests
  MaxRequests = 2
INVARIANTS ClientStaysInStep CloseAgreed HandledAsMeant
CHECK_DEADLOCK FALSE
