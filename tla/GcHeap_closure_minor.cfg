CONSTANTS
  a1 = a1
  o1 = o1
  o2 = o2
  c1 = c1
  None = None
  Obj <- ObjTwo
  Arena <- NoArena
  Hidden <- NoArena
  Clo <- OneClosure
  Arrow <- NoClosure
  Kinds = {"ordinary"}
  GcEnabled = TRUE
  Nursery = 1
  MajorPeriod = 1
  MaxRefs = 2
  BarrierFails = {FALSE}
  RegisterFails = {FALSE}
SPECIFICATION Spec
SYMMETRY SymmetricTwo
INVARIANT NoDangling
