\* Seven loops, offered to both tiers at every moment of their heat.
SPECIFICATION FairSpec
CONSTANTS
  Half = 8
  ShiftBits = 4
  SafeInt = 16
  NegZero = NegZero
  NaN = NaN
  Frac = Frac
  Big = Big
  Doubles <- MCDoubles
  FArith <- MCFArith
  FNeg <- MCFNeg
  FLess <- MCFLess
  FEqual <- MCFEqual
  FToInt32 <- MCFToInt32
  ALU <- MCALU
  Programs <- MCPrograms
  Scopes <- MCScopes
  Regs = {0, 1, 2, 3}
  Arguments <- MCArguments
  HelperValues = {}
  MaxEffects = 0
  HotThreshold = 2
  DeoptThreshold = 2
  MaxExits = 8
  MaxAccs = 4
INVARIANT TypeOK
INVARIANT LoopsAgree
PROPERTY LoopsEnd
\* A call ends.
CHECK_DEADLOCK FALSE
