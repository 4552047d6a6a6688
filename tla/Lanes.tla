-------------------------------- MODULE Lanes --------------------------------
(***************************************************************************)
(* The machine code the native backend emits for each operator on boxed    *)
(* words (src/jit-native/src): what it leaves in the destination register, *)
(* or Deopt when its guard branches to the fine-deopt block instead.       *)
(*                                                                         *)
(* A comparison leaves a bare 0 or 1, which is no boxed value: Raw(b).     *)
(***************************************************************************)
EXTENDS JsValues

Raw(b) == [tag |-> "raw", num |-> IF b THEN 1 ELSE 0]
Deopt  == [tag |-> "deopt", num |-> 0]

\* What a register may hold while native code runs, and the value it stands for.
BareWords == {Raw(TRUE), Raw(FALSE)}
Word(w)   == WellBoxed(w) \/ w \in BareWords
Js(w)     == IF w.tag = "raw" THEN Bool(w.num = 1) ELSE w

IsSmi(w)     == w.tag = "smi"
IsNum(w)     == w.tag \in {"smi", "dbl"}     \* some bit of the number tag is set
NonZero(w)   == w # Undef /\ w # Raw(FALSE)  \* the two words whose bits are 0
BothSmi(l, r) == IsSmi(l) /\ IsSmi(r)
BothNum(l, r) == IsNum(l) /\ IsNum(r)

-----------------------------------------------------------------------------
(* Boxing.                                                                 *)

BoxAnyI64(n) == Smi(n)                  \* mutant: the low half is stored unchecked

BoxI64(n) == IF -Half <= n /\ n <= Half - 1 THEN Smi(n) ELSE Dbl(n)

\* trunc and the comparisons with the bounds take -0 for 0, so -0 has a test
\* of its own: it must stay a double.
Trunc0(f) == IF f = NegZero THEN 0 ELSE f
BoxF64(f) == IF /\ Trunc0(f) \in Int
                /\ -Half <= Trunc0(f) /\ Trunc0(f) <= Half - 1
                /\ f # NegZero
             THEN Smi(f) ELSE Dbl(f)

\* The guard on an integer result: outside it an f64 would have been rounded.
Escapes(n) == n > SafeInt \/ n < -SafeInt
Guarded(n) == IF Escapes(n) THEN Deopt ELSE BoxI64(n)

-----------------------------------------------------------------------------
(* One operator for each emission.                                         *)

\* + - *: integers when both operands are SMIs, in wider arithmetic, so that
\* the operation itself cannot wrap.
BoxedBinop(op, l, r) ==
    IF ~BothNum(l, r) THEN Deopt
    ELSE IF BothSmi(l, r)
         THEN IF op = "MUL" /\ l.num * r.num = 0
              THEN BoxF64(FArith("MUL", l.num, r.num))
              ELSE Guarded(Exact(op, l.num, r.num))
         ELSE BoxF64(FArith(op, l.num, r.num))

BoxedStep(op, w) ==
    IF ~IsNum(w) THEN Deopt
    ELSE IF IsSmi(w) THEN Guarded(IF op = "INC" THEN w.num + 1 ELSE w.num - 1)
         ELSE BoxF64(FArith(IF op = "INC" THEN "ADD" ELSE "SUB", w.num, 1))

BoxedDiv(l, r) == IF BothNum(l, r) THEN BoxF64(FArith("DIV", l.num, r.num)) ELSE Deopt

BoxedModInt(l, r) ==                    \* mutant: the sign of a zero is forgotten
    IF ~BothSmi(l, r) \/ r.num = 0 THEN Deopt ELSE BoxI64(Rem(l.num, r.num))

\* The machine remainder has lost the sign of a zero.
BoxedMod(l, r) ==
    IF ~BothSmi(l, r) \/ r.num = 0 THEN Deopt
    ELSE LET rem == Rem(l.num, r.num)
         IN  IF rem = 0 /\ l.num < 0 THEN BoxF64(NegZero) ELSE BoxI64(rem)

BoxedNeg(w) == IF IsNum(w) THEN BoxF64(FNeg(w.num)) ELSE Deopt

ToNumeric(w) == IF IsNum(w) THEN w ELSE Deopt

\* The shift count is masked; USHR is zero-extended to 64 bits and the others
\* are sign-extended, so USHR of a negative word is above the SMI range.
RawBinary(op, x, y) == ALU(op, x, IF op \in ShiftOps THEN y % ShiftBits ELSE y)

BoxedBitwise(op, l, r) ==
    IF BothSmi(l, r) THEN BoxI64(RawBinary(op, l.num, r.num)) ELSE Deopt

BitNot(w) == IF IsSmi(w) THEN BoxI64(-w.num - 1) ELSE Deopt

BoxedNot(w) == IF IsSmi(w) THEN Raw(w.num = 0) ELSE Deopt

IntCompare(op, x, y) == CASE op \in {"EQ", "SEQ"}   -> x = y
                          [] op \in {"NEQ", "SNEQ"} -> x # y
                          [] op = "LT" -> x < y
                          [] op = "LE" -> x <= y
                          [] op = "GT" -> x > y
                          [] op = "GE" -> x >= y

FloatCompare(op, x, y) == CASE op \in {"EQ", "SEQ"}   -> FEqual(x, y)
                            [] op \in {"NEQ", "SNEQ"} -> ~FEqual(x, y)
                            [] op = "LT" -> FLess(x, y)
                            [] op = "LE" -> FLess(x, y) \/ FEqual(x, y)
                            [] op = "GT" -> FLess(y, x)
                            [] op = "GE" -> FLess(y, x) \/ FEqual(y, x)

BoxedCompare(op, l, r) ==
    IF ~BothNum(l, r) THEN Deopt
    ELSE Raw(IF BothSmi(l, r) THEN IntCompare(op, l.num, r.num)
             ELSE FloatCompare(op, l.num, r.num))

\* The dispatch of the emitter on the opcode.
LaneResult(op, l, r) == CASE op \in {"ADD", "SUB", "MUL"} -> BoxedBinop(op, l, r)
                          [] op \in BitwiseOps   -> BoxedBitwise(op, l, r)
                          [] op = "BIT_NOT"      -> BitNot(l)
                          [] op = "DIV"          -> BoxedDiv(l, r)
                          [] op = "MOD"          -> BoxedMod(l, r)
                          [] op = "NEG"          -> BoxedNeg(l)
                          [] op = "TO_NUMERIC"   -> ToNumeric(l)
                          [] op \in StepOps      -> BoxedStep(op, l)
                          [] op = "NOT"          -> BoxedNot(l)
                          [] op \in CompareOps   -> BoxedCompare(op, l, r)

-----------------------------------------------------------------------------
(* The lane of loops: unboxed 64-bit integers, with no tag to look at.     *)

IntLaneOps == {"ADD", "SUB", "MUL"} \cup BitwiseOps \cup StepOps \cup CompareOps
                \cup {"BIT_NOT", "TO_NUMERIC", "NOT"}

Wide(op, x, y) == CASE op = "INC" -> x + 1
                    [] op = "DEC" -> x - 1
                    [] OTHER -> Exact(op, x, y)

MulEscapes(op, x, y) == op = "MUL" /\ Escapes(Wide(op, x, y))   \* mutant: the others wrap late

IntEscapes(op, x, y) == op \in {"ADD", "SUB", "MUL"} \cup StepOps /\ Escapes(Wide(op, x, y))

Bit(b) == IF b THEN 1 ELSE 0

IntLaneResult(op, x, y) ==
    CASE op \in {"ADD", "SUB", "MUL"} \cup StepOps -> Wide(op, x, y)
      [] op \in BitwiseOps   -> RawBinary(op, FToInt32(x), FToInt32(y))
      [] op = "BIT_NOT"      -> -FToInt32(x) - 1
      [] op = "TO_NUMERIC"   -> x
      [] op = "NOT"          -> Bit(x = 0)
      [] op \in CompareOps   -> Bit(IntCompare(op, x, y))
=============================================================================
