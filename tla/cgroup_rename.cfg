CONSTANTS
  Chars <- MCChars
  Cut = 2
  NameLen = 4
  IdLens = {2}

INIT RInit
NEXT CgroupCreate

INVARIANT NameLengthKept
