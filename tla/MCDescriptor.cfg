SPECIFICATION Spec
CONSTANTS
  f1 = f1  f2 = f2
  h1 = h1  h2 = h2  h3 = h3
  none = none  null = null
  Fd = {f1, f2}
  NoFd = none
  NULL = null
  Handle = {h1, h2, h3}
  Image <- MCImage
  Buffer = {"text"}
  FileImage <- MCFiles
  Shape <- MCShape
  Members <- MCMembers
  Symtab <- MCSymtab
  MaxActs = 2
SYMMETRY Symmetry
VIEW NoErr
INVARIANTS
  TypeOK
  MemberSafe
  ChildCount
  Reclaimed
PROPERTIES
  ReleaseExact
  Lives
