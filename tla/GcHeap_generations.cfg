CONSTANTS
  a1 = a1
  o1 = o1
  o2 = o2
  c1 = c1
  None = None
  Obj <- ObjArena
  Arena <- OneArena
  Hidden <- NoArena
  Clo <- NoClosure
  Arrow <- NoClosure
  Kinds = {"collection", "weak"}
  GcEnabled = TRUE
  Nursery = 1
  MajorPeriod = 1
  MaxRefs = 2
  BarrierFails = {TRUE, FALSE}
  RegisterFails = {FALSE}
SPECIFICATION Spec
SYMMETRY SymmetricTwo
INVARIANT TypeOK
INVARIANT IInv
INVARIANT NoDangling
INVARIANT RememberedComplete
INVARIANT BookkeepingAlive
PROPERTY PurgedKeysUnreachable
