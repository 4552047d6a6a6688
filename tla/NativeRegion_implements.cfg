\* Every compiled operator, and functions that loop, call, capture and close
\* over, on a 4-bit machine.
SPECIFICATION Spec
CONSTANTS
  Half = 8
  ShiftBits = 4
  SafeInt = 16
  NegZero = NegZero
  NaN = NaN
  Frac = Frac
  Big = Big
  Doubles <- MCDoubles
  FArith <- MCFArith
  FNeg <- MCFNeg
  FLess <- MCFLess
  FEqual <- MCFEqual
  FToInt32 <- MCFToInt32
  ALU <- MCALU
  Programs <- MCPrograms
  Scopes <- MCScopes
  Regs = {0, 1, 2, 3}
  Arguments <- MCArguments
  HelperValues <- MCHelperValues
  MaxEffects = 5
INVARIANT TypeOK
PROPERTY ImplementsInterpreter
\* A call ends.
CHECK_DEADLOCK FALSE
