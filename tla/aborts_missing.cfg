CONSTANTS
  N <- MCN
  Kind <- MCKindMissing
  Stamp <- MCStamp
  NsPerMs <- MCNsPerMs
  CloseWithoutError = FALSE

SPECIFICATION Spec

INVARIANT ReplayNeverAborts

CHECK_DEADLOCK FALSE
