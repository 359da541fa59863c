CONSTANTS
  Chars <- MCChars
  Cut = 2
  NameLen = 3
  IdLens = {1}

INIT RInit
NEXT CgroupCreate

INVARIANT CgroupRenameFaithful
