SPECIFICATION Spec
CONSTANTS
  f1 = f1  f2 = f2
  h1 = h1  h2 = h2  h3 = h3
  none = none  null = null
  Fd = {f1, f2}
  NoFd = none
  NULL = null
  Handle = {h1, h2}
  Image <- MCImage
  Buffer = {"lib", "nil", "future", "ident", "torn"}
  FileImage <- MCOddFiles
  Shape <- MCShape
  Members <- MCBadMembers
  Symtab <- MCSymtab
  MaxActs = 2
INVARIANTS
  HandlesLive
PROPERTIES
  EndReturns
