CONSTANTS
  N <- MCN
  Kind <- MCKindSkips
  Stamp <- MCStamp
  NsPerMs <- MCNsPerMs
  CloseWithoutError = FALSE

SPECIFICATION Spec

INVARIANT TypeOK
INVARIANT SessionPrefix

PROPERTY ReplayProgress
PROPERTY ImplementsAbstract
PROPERTY PlaybackStoppedUntilReconnection

\* The process may exit on a signal or crash on a malformed record.
CHECK_DEADLOCK FALSE
