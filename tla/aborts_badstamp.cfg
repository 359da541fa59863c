CONSTANTS
  N <- MCN
  Kind <- MCKindBadStamp
  Stamp <- MCStamp
  NsPerMs <- MCNsPerMs
  CloseWithoutError = FALSE

SPECIFICATION Spec

INVARIANT ReplayNeverAborts

CHECK_DEADLOCK FALSE
