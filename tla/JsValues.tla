------------------------------ MODULE JsValues ------------------------------
(***************************************************************************)
(* The values of the engine and the operators of the language on them, as  *)
(* the interpreter computes them (src/src/value/value.zig, the arithmetic  *)
(* and comparison handlers of src/src/vm/ops/).  A value is a NaN box:     *)
(* what it holds is given by its tag, and num is its payload.              *)
(*                                                                         *)
(* The widths are parameters: an SMI holds -Half .. Half-1 (2^31 in the    *)
(* code), a double represents every integer up to SafeInt (2^53).  The     *)
(* doubles that are not such integers are the members of Doubles.  The     *)
(* floating-point unit and the 32-bit ALU are external: the constants      *)
(* FArith .. ALU, of which only what the assumptions below say is used.    *)
(***************************************************************************)
EXTENDS Integers

CONSTANTS Half, ShiftBits, SafeInt, Doubles, NegZero, NaN,
          FArith(_, _, _), FNeg(_), FLess(_, _), FEqual(_, _), FToInt32(_),
          ALU(_, _, _)

SmiInts == -Half .. Half - 1
Safe    == -SafeInt .. SafeInt
F64     == Safe \cup Doubles

ArithOps   == {"ADD", "SUB", "MUL", "DIV", "MOD"}
BitwiseOps == {"BIT_AND", "BIT_OR", "BIT_XOR", "SHL", "SHR", "USHR"}
ShiftOps   == {"SHL", "SHR", "USHR"}
StepOps    == {"INC", "DEC"}
CompareOps == {"EQ", "NEQ", "SEQ", "SNEQ", "LT", "LE", "GT", "GE"}
UnaryOps   == StepOps \cup {"NEG", "BIT_NOT", "TO_NUMERIC", "NOT"}
Operators  == ArithOps \cup BitwiseOps \cup CompareOps \cup UnaryOps

-----------------------------------------------------------------------------
(* What is assumed of the machine.                                         *)

Exact(op, x, y) == CASE op = "ADD" -> x + y
                     [] op = "SUB" -> x - y
                     [] op = "MUL" -> x * y

\* The remainder of a division that truncates, with the sign of the dividend:
\* the machine's srem and, on integers, JavaScript's %.
Rem(x, y) == LET d == IF y < 0 THEN -y ELSE y
             IN  IF x < 0 THEN -((-x) % d) ELSE x % d

ASSUME WidthsAssumption ==
    /\ Half \in Nat \ {0}  /\  SafeInt \in Nat  /\  2 * Half <= SafeInt
    /\ ShiftBits \in Nat \ {0}
    /\ Doubles \cap Int = {}  /\  NegZero \in Doubles  /\  NaN \in Doubles

\* Results of the FPU are doubles; on integers it is exact as long as the
\* result is representable, and the sign of a zero is the only thing an
\* integer multiplication or remainder can lose.
ASSUME FloatAssumption ==
    /\ \A op \in ArithOps, x, y \in F64 : FArith(op, x, y) \in F64
    /\ \A x \in F64 : FNeg(x) \in F64
    /\ \A op \in {"ADD", "SUB", "MUL"}, x, y \in Safe :
          Exact(op, x, y) \in Safe /\ (op = "MUL" => x * y # 0)
             => FArith(op, x, y) = Exact(op, x, y)
    /\ \A x \in SmiInts, y \in SmiInts \ {0} :
          FArith("MOD", x, y) =
             IF Rem(x, y) = 0 /\ x < 0 THEN NegZero ELSE Rem(x, y)
    /\ \A x, y \in Safe : (FLess(x, y) <=> x < y) /\ (FEqual(x, y) <=> x = y)

\* Comparisons of doubles: all false on NaN, else exactly one of three holds.
ASSUME OrderAssumption ==
    \A x, y \in F64 :
       /\ FLess(x, y) \in BOOLEAN /\ FEqual(x, y) \in BOOLEAN
       /\ x = NaN \/ y = NaN => ~FLess(x, y) /\ ~FEqual(x, y)
       /\ x # NaN /\ y # NaN => (FLess(x, y) \/ FEqual(x, y) <=> ~FLess(y, x))

\* The 32-bit operations: USHR answers an unsigned word, the others a signed one.
ASSUME AluAssumption ==
    /\ \A x \in F64 : FToInt32(x) \in SmiInts
    /\ \A x \in SmiInts : FToInt32(x) = x
    /\ \A op \in BitwiseOps, x, y \in SmiInts :
          ALU(op, x, IF op \in ShiftOps THEN y % ShiftBits ELSE y)
             \in IF op = "USHR" THEN 0 .. 2 * Half - 1 ELSE SmiInts

-----------------------------------------------------------------------------
(* Values.                                                                 *)

Smi(n)  == [tag |-> "smi",  num |-> n]
Dbl(x)  == [tag |-> "dbl",  num |-> x]
Bool(b) == [tag |-> "bool", num |-> IF b THEN 1 ELSE 0]
Cell(a) == [tag |-> "cell", num |-> a]          \* an object or a function
Undef   == [tag |-> "undef", num |-> 0]
Null    == [tag |-> "null",  num |-> 0]

IsNumber(v) == v.tag \in {"smi", "dbl"}
IsObject(v) == v.tag = "cell"
Nullish(v)  == v.tag \in {"undef", "null"}

\* A machine word whose payload is what its tag promises.
WellBoxed(v) ==
    /\ v.tag \in {"smi", "dbl", "bool", "undef", "null", "cell"}
    /\ v.tag = "smi" => v.num \in SmiInts
    /\ v.tag = "dbl" => v.num \in F64
    /\ v.tag = "bool" => v.num \in {0, 1}

MakeNumber(x) == IF x \in SmiInts THEN Smi(x) ELSE Dbl(x)

\* Of an operand that is not an object.
ToNumber(v) == CASE IsNumber(v) -> v.num
                 [] v.tag = "undef" -> NaN
                 [] v.tag = "null" -> 0
                 [] v.tag = "bool" -> v.num

ToBoolean(v) == CASE IsNumber(v) -> ~(FEqual(v.num, 0) \/ v.num = NaN)
                  [] v.tag = "bool" -> v.num = 1
                  [] Nullish(v) -> FALSE
                  [] OTHER -> TRUE

-----------------------------------------------------------------------------
(* The operators, on operands that need no coercion of an object.          *)

\* Two SMIs are added, subtracted and multiplied as integers when the result
\* is an SMI again; a product of 0 is left to the FPU, for its sign.
SmiArith(op, l, r) ==
    /\ op \in {"ADD", "SUB", "MUL"}
    /\ l.tag = "smi" /\ r.tag = "smi"
    /\ Exact(op, l.num, r.num) \in SmiInts
    /\ op = "MUL" => l.num * r.num # 0

JsArith(op, l, r) == IF SmiArith(op, l, r) THEN Smi(Exact(op, l.num, r.num))
                     ELSE MakeNumber(FArith(op, ToNumber(l), ToNumber(r)))

JsStep(op, v) == MakeNumber(FArith(IF op = "INC" THEN "ADD" ELSE "SUB", ToNumber(v), 1))

JsBitwise(op, l, r) ==
    LET x == FToInt32(ToNumber(l))
        y == FToInt32(ToNumber(r))
    IN  MakeNumber(ALU(op, x, IF op \in ShiftOps THEN y % ShiftBits ELSE y))

JsStrictEqual(l, r) == IF IsNumber(l) /\ IsNumber(r) THEN FEqual(l.num, r.num) ELSE l = r

JsLooseEqual(l, r) ==
    CASE (IsNumber(l) /\ IsNumber(r)) \/ l.tag = r.tag -> JsStrictEqual(l, r)
      [] Nullish(l) \/ Nullish(r) -> Nullish(l) /\ Nullish(r)
      [] OTHER -> FEqual(ToNumber(l), ToNumber(r))

JsLess(l, r)  == FLess(ToNumber(l), ToNumber(r))
Ordered(l, r) == ToNumber(l) # NaN /\ ToNumber(r) # NaN

JsCompare(op, l, r) == CASE op = "EQ"   -> JsLooseEqual(l, r)
                         [] op = "NEQ"  -> ~JsLooseEqual(l, r)
                         [] op = "SEQ"  -> JsStrictEqual(l, r)
                         [] op = "SNEQ" -> ~JsStrictEqual(l, r)
                         [] op = "LT"   -> JsLess(l, r)
                         [] op = "GT"   -> JsLess(r, l)
                         [] op = "LE"   -> Ordered(l, r) /\ ~JsLess(r, l)
                         [] op = "GE"   -> Ordered(l, r) /\ ~JsLess(l, r)

JsUnary(op, v) == CASE op \in StepOps   -> JsStep(op, v)
                    [] op = "NEG"        -> MakeNumber(FNeg(ToNumber(v)))
                    [] op = "BIT_NOT"    -> MakeNumber(-FToInt32(ToNumber(v)) - 1)
                    [] op = "TO_NUMERIC" -> IF IsNumber(v) THEN v ELSE MakeNumber(ToNumber(v))
                    [] op = "NOT"        -> Bool(~ToBoolean(v))

JsResult(op, l, r) == CASE op \in UnaryOps   -> JsUnary(op, l)
                        [] op \in ArithOps   -> JsArith(op, l, r)
                        [] op \in BitwiseOps -> JsBitwise(op, l, r)
                        [] op \in CompareOps -> Bool(JsCompare(op, l, r))

\* An object operand has to be made a primitive first, which may run the
\* program's own valueOf; equality looks at one only beside a primitive.
Coerces(op, l, r) ==
    CASE op \in {"NOT", "SEQ", "SNEQ"} -> FALSE
      [] op \in UnaryOps \ {"NOT"} -> IsObject(l)
      [] op \in {"EQ", "NEQ"} -> /\ IsObject(l) # IsObject(r)
                                 /\ ~Nullish(l) /\ ~Nullish(r)
      [] OTHER -> IsObject(l) \/ IsObject(r)
=============================================================================
