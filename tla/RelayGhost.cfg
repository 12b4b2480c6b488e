CONSTANTS
  Client = {c1, c2, c3}
  Name = {n1, n2, n3}
  RoomId = {r1, r2}
  None = None
  Impl = "py"
  AutoGo = FALSE
  Fuse = {0, 1}
SYMMETRY Alike
SPECIFICATION Spec
INVARIANT NamesConsistent
