CONSTANTS
  N <- MCN
  Kind <- MCKindSkips
  Stamp <- MCStamp
  NsPerMs <- MCNsPerMs
  CloseWithoutError = TRUE

SPECIFICATION Spec

INVARIANT SessionPrefix


\* The process may exit on a signal or crash on a malformed record.
CHECK_DEADLOCK FALSE
