CONSTANTS
  TimeLo <- MCTimeLo
  TimeHi <- MCTimeHi

INIT MInit
NEXT MNext

INVARIANT MetricsConsistent
