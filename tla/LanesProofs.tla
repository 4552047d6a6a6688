------------------------- MODULE LanesProofs -------------------------
(***************************************************************************)
(* The emitted code of an operator agrees with the language, for every     *)
(* machine width and every floating-point unit that meets the assumptions  *)
(* of JsValues: one lemma per emitter, and LanesAgree for all of them.     *)
(***************************************************************************)
EXTENDS Lanes, TLAPS

\* Boxing a double as the machine does is the language's MakeNumber.
LEMMA BoxF64Makes == ASSUME NEW f \in F64 PROVE BoxF64(f) = MakeNumber(f) /\ WellBoxed(BoxF64(f))
  BY WidthsAssumption DEF F64, Safe, BoxF64, Trunc0, MakeNumber, SmiInts, WellBoxed, Smi, Dbl

\* Boxing an exact 64-bit integer is the language's MakeNumber.
LEMMA BoxI64Makes == ASSUME NEW n \in Safe PROVE BoxI64(n) = MakeNumber(n) /\ WellBoxed(BoxI64(n))
  BY WidthsAssumption DEF F64, Safe, BoxI64, MakeNumber, SmiInts, WellBoxed, Smi, Dbl

\* MakeNumber answers a boxed value.
LEMMA MakeNumberBoxes == ASSUME NEW f \in F64 PROVE WellBoxed(MakeNumber(f))
  BY DEF MakeNumber, WellBoxed, Smi, Dbl

\* The payload of a boxed number is a double.
LEMMA NumberPayload == ASSUME NEW v, WellBoxed(v), IsNumber(v) PROVE v.num \in F64
  BY WidthsAssumption DEF WellBoxed, IsNumber, F64, Safe, SmiInts

\* The value of an operand that is no object, as a number, is a double.
LEMMA ToNumberIsDouble ==
    ASSUME NEW v, WellBoxed(v), ~IsObject(v) PROVE ToNumber(v) \in F64
  BY WidthsAssumption DEF WellBoxed, IsObject, ToNumber, IsNumber, F64, Safe, SmiInts

\* A boolean is a boxed value.
LEMMA BoolBoxed == ASSUME NEW b PROVE WellBoxed(Bool(b)) /\ Bool(b) \notin BareWords
  BY DEF WellBoxed, Bool, BareWords, Raw

\* What the interpreter's operators answer is a boxed value.
LEMMA JsResultBoxed ==
    ASSUME NEW op \in Operators, NEW l, NEW r, WellBoxed(l), WellBoxed(r), ~Coerces(op, l, r)
    PROVE  WellBoxed(JsResult(op, l, r))
<1>1. 1 \in F64 /\ SmiInts \subseteq F64
  BY WidthsAssumption DEF F64, Safe, SmiInts
<1>2. CASE op \in StepOps
  <2>1. ToNumber(l) \in F64
    BY <1>2, ToNumberIsDouble DEF Coerces, UnaryOps, StepOps
  <2>2. JsResult(op, l, r) = MakeNumber(FArith(IF op = "INC" THEN "ADD" ELSE "SUB", ToNumber(l), 1))
    BY <1>2 DEF JsResult, JsUnary, JsStep, UnaryOps, StepOps, ArithOps, BitwiseOps,
          CompareOps
  <2> QED BY <2>1, <2>2, <1>1, FloatAssumption, MakeNumberBoxes DEF ArithOps
<1>3. CASE op = "NEG"
  <2>1. ToNumber(l) \in F64
    BY <1>3, ToNumberIsDouble DEF Coerces, UnaryOps, StepOps
  <2>2. JsResult(op, l, r) = MakeNumber(FNeg(ToNumber(l)))
    BY <1>3 DEF JsResult, JsUnary, UnaryOps, StepOps, ArithOps, BitwiseOps,
          CompareOps
  <2> QED BY <2>1, <2>2, FloatAssumption, MakeNumberBoxes
<1>4. CASE op = "BIT_NOT"
  <2>1. ToNumber(l) \in F64
    BY <1>4, ToNumberIsDouble DEF Coerces, UnaryOps, StepOps
  <2>2. JsResult(op, l, r) = MakeNumber(-FToInt32(ToNumber(l)) - 1)
    BY <1>4 DEF JsResult, JsUnary, UnaryOps, StepOps, ArithOps, BitwiseOps,
          CompareOps
  <2>3. FToInt32(ToNumber(l)) \in SmiInts
    BY <2>1, AluAssumption
  <2>4. -FToInt32(ToNumber(l)) - 1 \in SmiInts
    BY <2>3, WidthsAssumption DEF SmiInts
  <2> QED BY <2>2, <2>4, <1>1, MakeNumberBoxes
<1>5. CASE op = "TO_NUMERIC"
  <2>1. ToNumber(l) \in F64
    BY <1>5, ToNumberIsDouble DEF Coerces, UnaryOps, StepOps
  <2>2. JsResult(op, l, r) = IF IsNumber(l) THEN l ELSE MakeNumber(ToNumber(l))
    BY <1>5 DEF JsResult, JsUnary, UnaryOps, StepOps, ArithOps, BitwiseOps,
          CompareOps
  <2> QED BY <2>1, <2>2, MakeNumberBoxes
<1>6. CASE op = "NOT"
  BY <1>6, BoolBoxed DEF JsResult, JsUnary, UnaryOps, StepOps, ArithOps, BitwiseOps,
          CompareOps
<1>7. CASE op \in ArithOps
  <2>1. ToNumber(l) \in F64 /\ ToNumber(r) \in F64
    BY <1>7, ToNumberIsDouble DEF Coerces, ArithOps, UnaryOps, StepOps
  <2>2. JsResult(op, l, r) = JsArith(op, l, r)
    BY <1>7 DEF JsResult, UnaryOps, StepOps, ArithOps, BitwiseOps,
          CompareOps
  <2>3. CASE SmiArith(op, l, r)
    BY <2>2, <2>3 DEF JsArith, SmiArith, WellBoxed, Smi
  <2>4. CASE ~SmiArith(op, l, r)
    BY <2>1, <2>2, <2>4, <1>7, FloatAssumption, MakeNumberBoxes DEF JsArith
  <2> QED BY <2>3, <2>4
<1>8. CASE op \in BitwiseOps
  <2>1. ToNumber(l) \in F64 /\ ToNumber(r) \in F64
    BY <1>8, ToNumberIsDouble DEF Coerces, BitwiseOps, UnaryOps, StepOps
  <2> DEFINE x == FToInt32(ToNumber(l))
             y == FToInt32(ToNumber(r))
             n == ALU(op, x, IF op \in ShiftOps THEN y % ShiftBits ELSE y)
  <2>2. JsResult(op, l, r) = MakeNumber(n)
    BY <1>8 DEF JsResult, JsBitwise, UnaryOps, StepOps, ArithOps, BitwiseOps,
          CompareOps
  <2>3. x \in SmiInts /\ y \in SmiInts
    BY <2>1, AluAssumption
  <2>4. n \in IF op = "USHR" THEN 0 .. 2 * Half - 1 ELSE SmiInts
    BY <2>3, <1>8, AluAssumption
  <2>5. n \in F64
    BY <2>4, <1>1, WidthsAssumption DEF F64, Safe, SmiInts
  <2> QED BY <2>2, <2>5, MakeNumberBoxes
<1>9. CASE op \in CompareOps
  BY <1>9, BoolBoxed DEF JsResult, UnaryOps, StepOps, ArithOps, BitwiseOps,
          CompareOps
<1> QED BY <1>2, <1>3, <1>4, <1>5, <1>6, <1>7, <1>8, <1>9 DEF Operators, UnaryOps

-----------------------------------------------------------------------------
(* Each emission, when it does not deopt, leaves what the language says.   *)

Agrees(op, l, r, w) ==
    w # Deopt => ~Coerces(op, l, r) /\ Word(w) /\ Js(w) = JsResult(op, l, r)

\* emit_boxed_num_binop: an addition, subtraction or product stays in the
\* integer lane only when that loses neither range nor the sign of a zero.
LEMMA BinopAgrees ==
    ASSUME NEW op \in {"ADD", "SUB", "MUL"}, NEW l, NEW r, Word(l), Word(r)
    PROVE  Agrees(op, l, r, BoxedBinop(op, l, r))
<1> SUFFICES ASSUME BoxedBinop(op, l, r) # Deopt
             PROVE  /\ ~Coerces(op, l, r) /\ Word(BoxedBinop(op, l, r))
                    /\ Js(BoxedBinop(op, l, r)) = JsArith(op, l, r)
  BY DEF Agrees, JsResult, ArithOps, BitwiseOps, CompareOps, UnaryOps, StepOps
<1>1. BothNum(l, r) /\ WellBoxed(l) /\ WellBoxed(r) /\ IsNumber(l) /\ IsNumber(r)
  BY DEF BoxedBinop, BothNum, IsNum, IsNumber, Word, BareWords, Raw
<1>2. l.num \in F64 /\ r.num \in F64
  BY <1>1, NumberPayload
<1>3. ToNumber(l) = l.num /\ ToNumber(r) = r.num /\ ~Coerces(op, l, r)
  BY <1>1 DEF ToNumber, Coerces, IsObject, IsNumber, UnaryOps, StepOps
<1>4. CASE ~BothSmi(l, r)
  <2>1. BoxedBinop(op, l, r) = MakeNumber(FArith(op, l.num, r.num))
    BY <1>1, <1>2, <1>4, BoxF64Makes, FloatAssumption DEF BoxedBinop, ArithOps
  <2>2. JsArith(op, l, r) = MakeNumber(FArith(op, l.num, r.num))
    BY <1>3, <1>4 DEF JsArith, SmiArith, BothSmi, IsSmi
  <2> QED BY <2>1, <2>2, <1>2, <1>3, MakeNumberBoxes, FloatAssumption
          DEF Word, ArithOps, Js, MakeNumber, Smi, Dbl
<1>5. CASE BothSmi(l, r) /\ op = "MUL" /\ l.num * r.num = 0
  <2>1. BoxedBinop(op, l, r) = MakeNumber(FArith(op, l.num, r.num))
    BY <1>1, <1>2, <1>5, BoxF64Makes, FloatAssumption DEF BoxedBinop, ArithOps
  <2>2. JsArith(op, l, r) = MakeNumber(FArith(op, l.num, r.num))
    BY <1>3, <1>5 DEF JsArith, SmiArith
  <2> QED BY <2>1, <2>2, <1>2, <1>3, MakeNumberBoxes, FloatAssumption
          DEF Word, ArithOps, Js, MakeNumber, Smi, Dbl
<1>6. CASE BothSmi(l, r) /\ ~(op = "MUL" /\ l.num * r.num = 0)
  <2> DEFINE n == Exact(op, l.num, r.num)
  <2>1. l.num \in SmiInts /\ r.num \in SmiInts
    BY <1>1, <1>6 DEF BothSmi, IsSmi, WellBoxed
  <2>2. n \in Int
    BY <2>1, WidthsAssumption DEF SmiInts, Exact
  <2>3. BoxedBinop(op, l, r) = Guarded(n)
    BY <1>1, <1>6 DEF BoxedBinop
  <2>4. n \in Safe /\ BoxedBinop(op, l, r) = BoxI64(n)
    BY <2>2, <2>3, WidthsAssumption DEF Guarded, Escapes, Safe
  <2>5. l.num \in Safe /\ r.num \in Safe
    BY <2>1, WidthsAssumption DEF SmiInts, Safe
  <2>6. FArith(op, l.num, r.num) = n
    BY <2>4, <2>5, <1>6, FloatAssumption
  <2>7. JsArith(op, l, r) = MakeNumber(n)
    BY <1>3, <2>6, <1>6 DEF JsArith, MakeNumber, SmiArith
  <2> QED BY <2>4, <2>7, <1>3, BoxI64Makes DEF Word, Js, MakeNumber, Smi, Dbl
<1> QED BY <1>4, <1>5, <1>6

\* Increment and decrement do what adding 1 and -1 does.
LEMMA StepAgrees ==
    ASSUME NEW op \in StepOps, NEW l, NEW r, Word(l)
    PROVE  Agrees(op, l, r, BoxedStep(op, l))
<1> DEFINE aop == IF op = "INC" THEN "ADD" ELSE "SUB"
<1> SUFFICES ASSUME BoxedStep(op, l) # Deopt
             PROVE  /\ ~Coerces(op, l, r) /\ Word(BoxedStep(op, l))
                    /\ Js(BoxedStep(op, l)) = JsStep(op, l)
  BY DEF Agrees, JsResult, JsUnary, StepOps, ArithOps, BitwiseOps, CompareOps, UnaryOps
<1>1. WellBoxed(l) /\ IsNumber(l) /\ IsNum(l)
  BY DEF BoxedStep, IsNum, IsNumber, Word, BareWords, Raw
<1>2. l.num \in F64 /\ 1 \in SmiInts \cup Safe
  BY <1>1, NumberPayload, WidthsAssumption DEF SmiInts, Safe
<1>3. ToNumber(l) = l.num /\ ~Coerces(op, l, r)
  BY <1>1 DEF ToNumber, Coerces, IsObject, IsNumber, UnaryOps, StepOps
<1>4. JsStep(op, l) = MakeNumber(FArith(aop, l.num, 1))
  BY <1>3 DEF JsStep
<1>5. 1 \in F64 /\ 1 \in Safe /\ aop \in ArithOps /\ aop \in {"ADD", "SUB"}
  BY WidthsAssumption DEF F64, Safe, ArithOps
<1>6. CASE ~IsSmi(l)
  <2>1. FArith(aop, l.num, 1) \in F64
    BY <1>2, <1>5, FloatAssumption
  <2>2. BoxedStep(op, l) = BoxF64(FArith(aop, l.num, 1))
    BY <1>1, <1>6 DEF BoxedStep
  <2> QED BY <2>1, <2>2, <1>3, <1>4, BoxF64Makes DEF Word, Js, MakeNumber, Smi, Dbl
<1>7. CASE IsSmi(l)
  <2> DEFINE n == Exact(aop, l.num, 1)
  <2>1. l.num \in Safe /\ n \in Int /\ n = (IF op = "INC" THEN l.num + 1 ELSE l.num - 1)
    BY <1>1, <1>7, WidthsAssumption DEF IsSmi, WellBoxed, SmiInts, Safe, Exact
  <2>2. BoxedStep(op, l) = Guarded(n)
    BY <1>1, <1>7, <2>1 DEF BoxedStep
  <2>3. n \in Safe /\ BoxedStep(op, l) = BoxI64(n)
    BY <2>1, <2>2, WidthsAssumption DEF Guarded, Escapes, Safe
  <2>4. FArith(aop, l.num, 1) = n
    BY <2>1, <2>3, <1>5, FloatAssumption
  <2> QED BY <2>3, <2>4, <1>3, <1>4, BoxI64Makes DEF Word, Js, MakeNumber, Smi, Dbl
<1> QED BY <1>6, <1>7

\* numeric.rs emit_div: every division is done in doubles.
LEMMA DivAgrees ==
    ASSUME NEW l, NEW r, Word(l), Word(r)
    PROVE  Agrees("DIV", l, r, BoxedDiv(l, r))
<1> SUFFICES ASSUME BoxedDiv(l, r) # Deopt
             PROVE  /\ ~Coerces("DIV", l, r) /\ Word(BoxedDiv(l, r))
                    /\ Js(BoxedDiv(l, r)) = JsArith("DIV", l, r)
  BY DEF Agrees, JsResult, StepOps, ArithOps, BitwiseOps, CompareOps, UnaryOps
<1>1. WellBoxed(l) /\ WellBoxed(r) /\ IsNumber(l) /\ IsNumber(r)
  BY DEF BoxedDiv, BothNum, IsNum, IsNumber, Word, BareWords, Raw
<1>2. l.num \in F64 /\ r.num \in F64 /\ "DIV" \in ArithOps
  BY <1>1, NumberPayload DEF ArithOps
<1>3. ToNumber(l) = l.num /\ ToNumber(r) = r.num /\ ~Coerces("DIV", l, r)
  BY <1>1 DEF ToNumber, Coerces, IsObject, IsNumber, UnaryOps, StepOps
<1>4. FArith("DIV", l.num, r.num) \in F64
  BY <1>2, FloatAssumption
<1>5. BoxedDiv(l, r) = BoxF64(FArith("DIV", l.num, r.num))
  BY DEF BoxedDiv
<1>6. JsArith("DIV", l, r) = MakeNumber(FArith("DIV", l.num, r.num))
  BY <1>3 DEF JsArith, SmiArith
<1> QED BY <1>3, <1>4, <1>5, <1>6, BoxF64Makes DEF Word, Js, MakeNumber, Smi, Dbl

\* The integer remainder of two SMIs is an exact integer.
LEMMA RemIsSafe ==
    ASSUME NEW x \in SmiInts, NEW y \in SmiInts, y # 0
    PROVE  Rem(x, y) \in Safe
<1> DEFINE d == IF y < 0 THEN -y ELSE y
<1>1. x \in Int /\ d \in 1 .. Half /\ Half \in Nat /\ SafeInt \in Nat /\ 2 * Half <= SafeInt
  BY WidthsAssumption DEF SmiInts
<1>2. \A a \in Int : a % d \in 0 .. d - 1
  BY <1>1
<1>3. Rem(x, y) = (IF x < 0 THEN -((-x) % d) ELSE x % d)
  BY DEF Rem
<1>4. x % d \in 0 .. d - 1 /\ (-x) % d \in 0 .. d - 1
  BY <1>1, <1>2
<1> QED BY <1>1, <1>3, <1>4 DEF Safe

\* numeric.rs emit_mod: the integer remainder is used only when the sign of
\* a zero cannot be lost; everything else deopts or goes to the interpreter.
LEMMA ModAgrees ==
    ASSUME NEW l, NEW r, Word(l), Word(r)
    PROVE  Agrees("MOD", l, r, BoxedMod(l, r))
<1> SUFFICES ASSUME BoxedMod(l, r) # Deopt
             PROVE  /\ ~Coerces("MOD", l, r) /\ Word(BoxedMod(l, r))
                    /\ Js(BoxedMod(l, r)) = JsArith("MOD", l, r)
  BY DEF Agrees, JsResult, StepOps, ArithOps, BitwiseOps, CompareOps, UnaryOps
<1>1. WellBoxed(l) /\ WellBoxed(r) /\ IsNumber(l) /\ IsNumber(r) /\ BothSmi(l, r) /\ r.num # 0
  BY DEF BoxedMod, BothSmi, IsSmi, IsNumber, Word, BareWords, Raw
<1>2. l.num \in SmiInts /\ r.num \in SmiInts \ {0}
  BY <1>1 DEF BothSmi, IsSmi, WellBoxed
<1>3. ToNumber(l) = l.num /\ ToNumber(r) = r.num /\ ~Coerces("MOD", l, r)
  BY <1>1 DEF ToNumber, Coerces, IsObject, IsNumber, UnaryOps, StepOps
<1> DEFINE rem == Rem(l.num, r.num)
           res == IF rem = 0 /\ l.num < 0 THEN NegZero ELSE rem
<1>4. rem \in Safe
  BY <1>2, RemIsSafe
<1>5. JsArith("MOD", l, r) = MakeNumber(res)
  BY <1>2, <1>3, FloatAssumption DEF JsArith, SmiArith
<1>6. res \in F64
  BY <1>4, WidthsAssumption DEF F64
<1>7. BoxedMod(l, r) = MakeNumber(res)
  BY <1>1, <1>4, <1>6, BoxF64Makes, BoxI64Makes, WidthsAssumption DEF BoxedMod, F64
<1> QED BY <1>3, <1>5, <1>6, <1>7, MakeNumberBoxes DEF Word, Js, MakeNumber, Smi, Dbl

\* numeric.rs emit_neg: negating 0 leaves the SMI lane, for -0.
LEMMA NegAgrees ==
    ASSUME NEW l, NEW r, Word(l)
    PROVE  Agrees("NEG", l, r, BoxedNeg(l))
<1> SUFFICES ASSUME BoxedNeg(l) # Deopt
             PROVE  /\ ~Coerces("NEG", l, r) /\ Word(BoxedNeg(l))
                    /\ Js(BoxedNeg(l)) = MakeNumber(FNeg(ToNumber(l)))
  BY DEF Agrees, JsResult, JsUnary, StepOps, ArithOps, BitwiseOps, CompareOps, UnaryOps
<1>1. WellBoxed(l) /\ IsNumber(l)
  BY DEF BoxedNeg, IsNum, IsNumber, Word, BareWords, Raw
<1>2. l.num \in F64 /\ FNeg(l.num) \in F64
  BY <1>1, NumberPayload, FloatAssumption
<1>3. ToNumber(l) = l.num /\ ~Coerces("NEG", l, r)
  BY <1>1 DEF ToNumber, Coerces, IsObject, IsNumber, UnaryOps, StepOps
<1>4. BoxedNeg(l) = BoxF64(FNeg(l.num))
  BY DEF BoxedNeg
<1> QED BY <1>2, <1>3, <1>4, BoxF64Makes DEF Word, Js, MakeNumber, Smi, Dbl

\* numeric.rs emit_to_numeric: numbers are unchanged, the rest deopts.
LEMMA ToNumericAgrees ==
    ASSUME NEW l, NEW r, Word(l)
    PROVE  Agrees("TO_NUMERIC", l, r, ToNumeric(l))
<1> SUFFICES ASSUME ToNumeric(l) # Deopt
             PROVE  /\ ~Coerces("TO_NUMERIC", l, r) /\ Word(ToNumeric(l))
                    /\ IsNumber(l) /\ Js(ToNumeric(l)) = l
  BY DEF Agrees, JsResult, JsUnary, StepOps, ArithOps, BitwiseOps, CompareOps, UnaryOps
<1> QED BY DEF ToNumeric, IsNum, IsNumber, Word, BareWords, Raw, Js, Coerces, IsObject, UnaryOps,
                StepOps

\* bitwise.rs emit: the binary operators on two SMIs, shift counts masked.
LEMMA BitwiseAgrees ==
    ASSUME NEW op \in BitwiseOps, NEW l, NEW r, Word(l), Word(r)
    PROVE  Agrees(op, l, r, BoxedBitwise(op, l, r))
<1> SUFFICES ASSUME BoxedBitwise(op, l, r) # Deopt
             PROVE  /\ ~Coerces(op, l, r) /\ Word(BoxedBitwise(op, l, r))
                    /\ Js(BoxedBitwise(op, l, r)) = JsBitwise(op, l, r)
  BY DEF Agrees, JsResult, StepOps, ArithOps, BitwiseOps, CompareOps, UnaryOps
<1>1. WellBoxed(l) /\ WellBoxed(r) /\ IsNumber(l) /\ IsNumber(r) /\ BothSmi(l, r)
  BY DEF BoxedBitwise, BothSmi, IsSmi, IsNumber, Word, BareWords, Raw
<1>2. l.num \in SmiInts /\ r.num \in SmiInts
  BY <1>1 DEF BothSmi, IsSmi, WellBoxed
<1>3. ToNumber(l) = l.num /\ ToNumber(r) = r.num /\ ~Coerces(op, l, r)
  BY <1>1 DEF ToNumber, Coerces, IsObject, IsNumber, BitwiseOps, UnaryOps, StepOps
<1> DEFINE n == RawBinary(op, l.num, r.num)
<1>4. n \in Safe
  <2>1. n \in IF op = "USHR" THEN 0 .. 2 * Half - 1 ELSE SmiInts
    BY <1>2, AluAssumption DEF RawBinary
  <2> QED BY <2>1, WidthsAssumption DEF SmiInts, Safe
<1>5. JsBitwise(op, l, r) = MakeNumber(n)
  BY <1>2, <1>3, AluAssumption DEF JsBitwise, RawBinary
<1>6. BoxedBitwise(op, l, r) = BoxI64(n)
  BY <1>1 DEF BoxedBitwise
<1> QED BY <1>3, <1>4, <1>5, <1>6, BoxI64Makes DEF Word, Js, MakeNumber, Smi, Dbl

\* bitwise.rs emit_not: the complement of an SMI.
LEMMA BitNotAgrees ==
    ASSUME NEW l, NEW r, Word(l)
    PROVE  Agrees("BIT_NOT", l, r, BitNot(l))
<1> SUFFICES ASSUME BitNot(l) # Deopt
             PROVE  /\ ~Coerces("BIT_NOT", l, r) /\ Word(BitNot(l))
                    /\ Js(BitNot(l)) = MakeNumber(-FToInt32(ToNumber(l)) - 1)
  BY DEF Agrees, JsResult, JsUnary, StepOps, ArithOps, BitwiseOps, CompareOps, UnaryOps
<1>1. WellBoxed(l) /\ IsNumber(l) /\ IsSmi(l) /\ l.num \in SmiInts
  BY DEF BitNot, IsSmi, IsNumber, Word, BareWords, Raw, WellBoxed
<1>2. ToNumber(l) = l.num /\ ~Coerces("BIT_NOT", l, r) /\ FToInt32(l.num) = l.num
  BY <1>1, AluAssumption DEF ToNumber, Coerces, IsObject, IsNumber, UnaryOps, StepOps
<1>3. BitNot(l) = BoxI64(-l.num - 1) /\ -l.num - 1 \in Safe
  BY <1>1, WidthsAssumption DEF BitNot, SmiInts, Safe
<1> QED BY <1>2, <1>3, BoxI64Makes DEF Word, Js, MakeNumber, Smi, Dbl

\* Logical negation reads a bare word as the boolean it stands for.
LEMMA NotAgrees ==
    ASSUME NEW l, NEW r, Word(l)
    PROVE  Agrees("NOT", l, r, BoxedNot(l))
<1> SUFFICES ASSUME BoxedNot(l) # Deopt
             PROVE  /\ ~Coerces("NOT", l, r) /\ Word(BoxedNot(l))
                    /\ Js(BoxedNot(l)) = Bool(~ToBoolean(l))
  BY DEF Agrees, JsResult, JsUnary, StepOps, ArithOps, BitwiseOps, CompareOps, UnaryOps
<1>1. WellBoxed(l) /\ IsNumber(l) /\ IsSmi(l) /\ l.num \in SmiInts
  BY DEF BoxedNot, IsSmi, IsNumber, Word, BareWords, Raw, WellBoxed
<1>2. l.num \in Safe /\ 0 \in Safe /\ l.num # NaN
  BY <1>1, WidthsAssumption DEF SmiInts, Safe
<1>3. ToBoolean(l) <=> l.num # 0
  BY <1>1, <1>2, FloatAssumption DEF ToBoolean, IsNumber, Nullish
<1>4. BoxedNot(l) = Raw(l.num = 0)
  BY <1>1 DEF BoxedNot
<1>5. Js(Raw(l.num = 0)) = Bool(l.num = 0) /\ Word(Raw(l.num = 0))
  BY DEF Js, Raw, Bool, Word, BareWords
<1>6. Bool(l.num = 0) = Bool(~ToBoolean(l))
  <2>1. CASE ToBoolean(l)
    BY <1>3, <2>1 DEF Bool
  <2>2. CASE ~ToBoolean(l)
    BY <1>3, <2>2 DEF Bool
  <2> QED BY <2>1, <2>2
<1>7. ~Coerces("NOT", l, r)
  BY DEF Coerces, UnaryOps, StepOps
<1> QED BY <1>4, <1>5, <1>6, <1>7

\* A comparison leaves the bare word of the boolean that the language answers.
LEMMA CompareAgrees ==
    ASSUME NEW op \in CompareOps, NEW l, NEW r, Word(l), Word(r)
    PROVE  Agrees(op, l, r, BoxedCompare(op, l, r))
<1> SUFFICES ASSUME BoxedCompare(op, l, r) # Deopt
             PROVE  /\ ~Coerces(op, l, r) /\ Word(BoxedCompare(op, l, r))
                    /\ Js(BoxedCompare(op, l, r)) = Bool(JsCompare(op, l, r))
  BY DEF Agrees, JsResult, StepOps, ArithOps, BitwiseOps, CompareOps, UnaryOps
<1>1. WellBoxed(l) /\ WellBoxed(r) /\ IsNumber(l) /\ IsNumber(r) /\ BothNum(l, r)
  BY DEF BoxedCompare, BothNum, IsNum, IsNumber, Word, BareWords, Raw
<1>2. l.num \in F64 /\ r.num \in F64
  BY <1>1, NumberPayload
<1>3. ToNumber(l) = l.num /\ ToNumber(r) = r.num /\ ~Coerces(op, l, r)
  BY <1>1 DEF ToNumber, Coerces, IsObject, IsNumber, CompareOps, UnaryOps, StepOps
<1> DEFINE b == IF BothSmi(l, r) THEN IntCompare(op, l.num, r.num)
                ELSE FloatCompare(op, l.num, r.num)
<1>4. BoxedCompare(op, l, r) = Raw(b) /\ Word(Raw(b)) /\ Js(Raw(b)) = Bool(b)
  BY <1>1 DEF BoxedCompare, Word, BareWords, Raw, Js, Bool
<1>5. JsLooseEqual(l, r) = FEqual(l.num, r.num) /\ JsStrictEqual(l, r) = FEqual(l.num, r.num)
  BY <1>1 DEF JsLooseEqual, JsStrictEqual, IsNumber, Nullish
<1>6. /\ JsLess(l, r) = FLess(l.num, r.num) /\ JsLess(r, l) = FLess(r.num, l.num)
      /\ Ordered(l, r) <=> l.num # NaN /\ r.num # NaN
  BY <1>3 DEF JsLess, Ordered
<1>7. CASE ~BothSmi(l, r)
  <2>1. FloatCompare(op, l.num, r.num) <=> JsCompare(op, l, r)
    BY <1>2, <1>5, <1>6, OrderAssumption DEF FloatCompare, JsCompare, CompareOps
  <2> QED BY <2>1, <1>3, <1>4, <1>7 DEF Bool
<1>8. CASE BothSmi(l, r)
  <2>1. l.num \in SmiInts /\ r.num \in SmiInts
    BY <1>1, <1>8 DEF BothSmi, IsSmi, WellBoxed
  <2>2. /\ l.num \in Int /\ r.num \in Int /\ l.num # NaN /\ r.num # NaN
        /\ FEqual(l.num, r.num) <=> l.num = r.num
        /\ FLess(l.num, r.num) <=> l.num < r.num
        /\ FLess(r.num, l.num) <=> r.num < l.num
    BY <2>1, WidthsAssumption, FloatAssumption DEF SmiInts, Safe
  <2>3. IntCompare(op, l.num, r.num) <=> JsCompare(op, l, r)
    <3>1. CASE op \in {"EQ", "NEQ", "SEQ", "SNEQ"}
      BY <2>2, <1>5, <3>1 DEF IntCompare, JsCompare
    <3>2. CASE op \in {"LT", "GT"}
      BY <2>2, <1>6, <3>2 DEF IntCompare, JsCompare
    <3>3. /\ l.num <= r.num <=> Ordered(l, r) /\ ~JsLess(r, l)
          /\ l.num >= r.num <=> Ordered(l, r) /\ ~JsLess(l, r)
      BY <2>2, <1>6
    <3>4. CASE op = "LE"
      BY <3>3, <3>4 DEF IntCompare, JsCompare
    <3>5. CASE op = "GE"
      BY <3>3, <3>5 DEF IntCompare, JsCompare
    <3> QED BY <3>1, <3>2, <3>4, <3>5 DEF CompareOps
  <2> QED BY <2>3, <1>3, <1>4, <1>8 DEF Bool
<1> QED BY <1>7, <1>8

(* Whatever native code computes without leaving the region is what the    *)
(* interpreter computes, for every operator and every pair of operands.    *)
THEOREM LanesAgree ==
    ASSUME NEW op \in Operators, NEW l, NEW r, Word(l), Word(r)
    PROVE  Agrees(op, l, r, LaneResult(op, l, r))
<1>1. CASE op \in {"ADD", "SUB", "MUL"}
  BY <1>1, BinopAgrees DEF LaneResult, BitwiseOps, StepOps, CompareOps
<1>2. CASE op \in StepOps
  BY <1>2, StepAgrees DEF LaneResult, BitwiseOps, StepOps, CompareOps
<1>3. CASE op \in BitwiseOps
  BY <1>3, BitwiseAgrees DEF LaneResult, BitwiseOps, StepOps, CompareOps
<1>4. CASE op \in CompareOps
  BY <1>4, CompareAgrees DEF LaneResult, BitwiseOps, StepOps, CompareOps
<1>5. CASE op = "DIV"
  BY <1>5, DivAgrees DEF LaneResult, BitwiseOps, StepOps, CompareOps
<1>6. CASE op = "MOD"
  BY <1>6, ModAgrees DEF LaneResult, BitwiseOps, StepOps, CompareOps
<1>7. CASE op = "NEG"
  BY <1>7, NegAgrees DEF LaneResult, BitwiseOps, StepOps, CompareOps
<1>8. CASE op = "TO_NUMERIC"
  BY <1>8, ToNumericAgrees DEF LaneResult, BitwiseOps, StepOps, CompareOps
<1>9. CASE op = "BIT_NOT"
  BY <1>9, BitNotAgrees DEF LaneResult, BitwiseOps, StepOps, CompareOps
<1>10. CASE op = "NOT"
  BY <1>10, NotAgrees DEF LaneResult, BitwiseOps, StepOps, CompareOps
<1> QED BY <1>1, <1>2, <1>3, <1>4, <1>5, <1>6, <1>7, <1>8, <1>9, <1>10
        DEF Operators, ArithOps, UnaryOps, StepOps

-----------------------------------------------------------------------------
(* The lane of loops: an integer stands for a number, a bit for a boolean. *)

StandsFor(op, n) == IF op \in CompareOps \cup {"NOT"} THEN Bool(n = 1) ELSE MakeNumber(n)

IntAgrees(op, x, y) ==
    /\ IntLaneResult(op, x, y) \in Safe
    /\ StandsFor(op, IntLaneResult(op, x, y)) = JsResult(op, MakeNumber(x), MakeNumber(y))

\* What the language sees of an operand of the lane.
LEMMA IntOperand ==
    ASSUME NEW x \in Safe
    PROVE  /\ IsNumber(MakeNumber(x)) /\ MakeNumber(x).num = x /\ ToNumber(MakeNumber(x)) = x
           /\ x \in F64 /\ x \in Int /\ x # NaN
  BY WidthsAssumption DEF MakeNumber, IsNumber, ToNumber, Smi, Dbl, F64, Safe

LEMMA IntArithAgrees ==
    ASSUME NEW op \in {"ADD", "SUB", "MUL"}, NEW x \in Safe, NEW y \in Safe,
           ~IntEscapes(op, x, y), op = "MUL" => x * y # 0
    PROVE  IntAgrees(op, x, y)
<1> DEFINE n == Exact(op, x, y)
<1>1. n \in Int /\ IntLaneResult(op, x, y) = n /\ Wide(op, x, y) = n
  BY WidthsAssumption DEF IntLaneResult, Wide, Exact, Safe, StepOps, BitwiseOps, CompareOps
<1>2. n \in Safe
  BY <1>1, WidthsAssumption DEF IntEscapes, Escapes, Safe
<1>3. FArith(op, x, y) = n
  BY <1>2, FloatAssumption
<1>4. JsArith(op, MakeNumber(x), MakeNumber(y)) = MakeNumber(n)
  BY <1>3, IntOperand DEF JsArith, SmiArith, MakeNumber
<1>5. JsResult(op, MakeNumber(x), MakeNumber(y)) = MakeNumber(n)
  BY <1>4 DEF JsResult, ArithOps, BitwiseOps, CompareOps, UnaryOps, StepOps
<1> QED BY <1>1, <1>2, <1>5 DEF IntAgrees, StandsFor, CompareOps

LEMMA IntStepAgrees ==
    ASSUME NEW op \in StepOps, NEW x \in Safe, NEW y \in Safe, ~IntEscapes(op, x, y)
    PROVE  IntAgrees(op, x, y)
<1> DEFINE aop == IF op = "INC" THEN "ADD" ELSE "SUB"
           n == Exact(aop, x, 1)
<1>1. n \in Int /\ IntLaneResult(op, x, y) = n /\ Wide(op, x, y) = n
  BY WidthsAssumption DEF IntLaneResult, Wide, Exact, Safe, StepOps, BitwiseOps, CompareOps
<1>2. n \in Safe /\ 1 \in Safe
  BY <1>1, WidthsAssumption DEF IntEscapes, Escapes, Safe
<1>3. FArith(aop, x, 1) = n
  BY <1>2, FloatAssumption
<1>4. JsResult(op, MakeNumber(x), MakeNumber(y)) = MakeNumber(n)
  BY <1>3, IntOperand DEF JsResult, JsUnary, JsStep, ArithOps, BitwiseOps, CompareOps, UnaryOps,
     StepOps
<1> QED BY <1>1, <1>2, <1>4 DEF IntAgrees, StandsFor, CompareOps, StepOps

LEMMA IntBitwiseAgrees ==
    ASSUME NEW op \in BitwiseOps \cup {"BIT_NOT"}, NEW x \in Safe, NEW y \in Safe
    PROVE  IntAgrees(op, x, y)
<1>1. FToInt32(x) \in SmiInts /\ FToInt32(y) \in SmiInts
  BY IntOperand, AluAssumption
<1>2. CASE op = "BIT_NOT"
  <2>1. IntLaneResult(op, x, y) = -FToInt32(x) - 1 /\ -FToInt32(x) - 1 \in Safe
    BY <1>1, <1>2, WidthsAssumption DEF IntLaneResult, BitwiseOps, StepOps, CompareOps, SmiInts, Safe
  <2>2. JsResult(op, MakeNumber(x), MakeNumber(y)) = MakeNumber(-FToInt32(x) - 1)
    BY <1>2, IntOperand DEF JsResult, JsUnary, ArithOps, BitwiseOps, CompareOps, UnaryOps, StepOps
  <2> QED BY <1>2, <2>1, <2>2 DEF IntAgrees, StandsFor, CompareOps
<1>3. CASE op \in BitwiseOps
  <2> DEFINE n == RawBinary(op, FToInt32(x), FToInt32(y))
  <2>1. IntLaneResult(op, x, y) = n
    BY <1>3 DEF IntLaneResult, BitwiseOps, StepOps, CompareOps
  <2>2. n \in IF op = "USHR" THEN 0 .. 2 * Half - 1 ELSE SmiInts
    BY <1>1, <1>3, AluAssumption DEF RawBinary
  <2>3. n \in Safe
    BY <2>2, WidthsAssumption DEF SmiInts, Safe
  <2>4. JsResult(op, MakeNumber(x), MakeNumber(y)) = MakeNumber(n)
    BY <1>3, IntOperand DEF JsResult, JsBitwise, RawBinary, ArithOps, BitwiseOps, CompareOps,
       UnaryOps, StepOps
  <2> QED BY <1>3, <2>1, <2>3, <2>4 DEF IntAgrees, StandsFor, BitwiseOps, CompareOps
<1> QED BY <1>2, <1>3

LEMMA IntToNumericAgrees ==
    ASSUME NEW x \in Safe, NEW y \in Safe
    PROVE  IntAgrees("TO_NUMERIC", x, y)
<1>1. IntLaneResult("TO_NUMERIC", x, y) = x
  BY DEF IntLaneResult, BitwiseOps, StepOps, CompareOps
<1>2. JsResult("TO_NUMERIC", MakeNumber(x), MakeNumber(y)) = MakeNumber(x)
  BY IntOperand DEF JsResult, JsUnary, ArithOps, BitwiseOps, CompareOps, UnaryOps,
     StepOps
<1> QED BY <1>1, <1>2 DEF IntAgrees, StandsFor, CompareOps

\* The bits of the lane.
LEMMA BitStands ==
    ASSUME NEW b
    PROVE  Bit(b) \in Safe /\ Bool(Bit(b) = 1) = Bool(b)
<1>1. CASE b
  BY <1>1, WidthsAssumption DEF Bit, Bool, Safe
<1>2. CASE ~b
  BY <1>2, WidthsAssumption DEF Bit, Bool, Safe
<1> QED BY <1>1, <1>2

LEMMA IntNotAgrees ==
    ASSUME NEW x \in Safe, NEW y \in Safe
    PROVE  IntAgrees("NOT", x, y)
<1>1. IntLaneResult("NOT", x, y) = Bit(x = 0)
  BY DEF IntLaneResult, BitwiseOps, StepOps, CompareOps
<1>2. 0 \in Safe /\ (FEqual(x, 0) <=> x = 0)
  BY WidthsAssumption, FloatAssumption DEF Safe
<1>3. ToBoolean(MakeNumber(x)) <=> x # 0
  BY <1>2, IntOperand DEF ToBoolean, IsNumber, Nullish
<1>4. JsResult("NOT", MakeNumber(x), MakeNumber(y)) = Bool(~ToBoolean(MakeNumber(x)))
  BY DEF JsResult, JsUnary, ArithOps, BitwiseOps, CompareOps, UnaryOps,
     StepOps
<1>5. Bool(~ToBoolean(MakeNumber(x))) = Bool(x = 0)
  <2>1. CASE x = 0
    BY <1>3, <2>1 DEF Bool
  <2>2. CASE x # 0
    BY <1>3, <2>2 DEF Bool
  <2> QED BY <2>1, <2>2
<1>6. Bit(x = 0) \in Safe /\ Bool(Bit(x = 0) = 1) = Bool(x = 0)
  BY BitStands
<1> QED BY <1>1, <1>4, <1>5, <1>6 DEF IntAgrees, StandsFor

LEMMA IntCompareAgrees ==
    ASSUME NEW op \in CompareOps, NEW x \in Safe, NEW y \in Safe
    PROVE  IntAgrees(op, x, y)
<1> DEFINE l == MakeNumber(x)
           r == MakeNumber(y)
<1>1. IntLaneResult(op, x, y) = Bit(IntCompare(op, x, y))
  BY DEF IntLaneResult, BitwiseOps, StepOps, CompareOps
<1>2. JsResult(op, l, r) = Bool(JsCompare(op, l, r))
  BY DEF JsResult, ArithOps, BitwiseOps, CompareOps, UnaryOps, StepOps
<1>3. /\ IsNumber(l) /\ IsNumber(r) /\ l.num = x /\ r.num = y
      /\ ToNumber(l) = x /\ ToNumber(r) = y
      /\ x \in Int /\ y \in Int /\ x # NaN /\ y # NaN
  BY IntOperand
<1>4. /\ FEqual(x, y) <=> x = y
      /\ FLess(x, y) <=> x < y
      /\ FLess(y, x) <=> y < x
  BY FloatAssumption
<1>5. JsLooseEqual(l, r) = FEqual(x, y) /\ JsStrictEqual(l, r) = FEqual(x, y)
  BY <1>3 DEF JsLooseEqual, JsStrictEqual, IsNumber, Nullish
<1>6. JsLess(l, r) = FLess(x, y) /\ JsLess(r, l) = FLess(y, x) /\ Ordered(l, r)
  BY <1>3 DEF JsLess, Ordered
<1>7. IntCompare(op, x, y) <=> JsCompare(op, l, r)
  <2>1. CASE op \in {"EQ", "NEQ", "SEQ", "SNEQ"}
    BY <1>3, <1>4, <1>5, <2>1 DEF IntCompare, JsCompare
  <2>2. CASE op \in {"LT", "GT"}
    BY <1>3, <1>4, <1>6, <2>2 DEF IntCompare, JsCompare
  <2>3. (x <= y <=> ~JsLess(r, l)) /\ (x >= y <=> ~JsLess(l, r))
    BY <1>3, <1>4, <1>6
  <2>4. CASE op \in {"LE", "GE"}
    BY <1>6, <2>3, <2>4 DEF IntCompare, JsCompare
  <2> QED BY <2>1, <2>2, <2>4 DEF CompareOps
<1>8. Bit(IntCompare(op, x, y)) \in Safe
      /\ Bool(Bit(IntCompare(op, x, y)) = 1) = Bool(IntCompare(op, x, y))
  BY BitStands
<1>9. Bool(IntCompare(op, x, y)) = Bool(JsCompare(op, l, r))
  BY <1>7 DEF Bool
<1> QED BY <1>1, <1>2, <1>8, <1>9 DEF IntAgrees, StandsFor

(* The unboxed lane of compiled loops: an operator whose result does not   *)
(* escape leaves an exact integer, and it stands for the number or boolean *)
(* that the language answers.  The one exception is a product of 0, whose  *)
(* sign an integer cannot carry.                                           *)
THEOREM IntLanesAgree ==
    ASSUME NEW op \in IntLaneOps, NEW x \in Safe, NEW y \in Safe,
           ~IntEscapes(op, x, y), op = "MUL" => x * y # 0
    PROVE  IntAgrees(op, x, y)
  BY IntArithAgrees, IntStepAgrees, IntBitwiseAgrees, IntToNumericAgrees, IntNotAgrees,
     IntCompareAgrees DEF IntLaneOps
=============================================================================
