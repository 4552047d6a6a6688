\* A comparison whose register is also the result's.
SPECIFICATION Spec
CONSTANTS
  Half = 8
  ShiftBits = 4
  SafeInt = 16
  NegZero = NegZero
  NaN = NaN
  Frac = Frac
  Big = Big
  Doubles <- MCDoubles
  FArith <- MCFArith
  FNeg <- MCFNeg
  FLess <- MCFLess
  FEqual <- MCFEqual
  FToInt32 <- MCFToInt32
  ALU <- MCALU
  Programs <- MCEscaping
  Scopes <- MCScopes
  Regs = {0, 1, 2, 3}
  Arguments <- MCFewArguments
  HelperValues <- MCHelperValues
  MaxEffects = 5
INVARIANT BooleansGateBranches
\* A call ends.
CHECK_DEADLOCK FALSE
