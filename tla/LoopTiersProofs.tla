--------------------------- MODULE LoopTiersProofs ---------------------------
(***************************************************************************)
(* What holds of loops that run as machine code on integers, for every     *)
(* machine width, every floating-point unit that meets the assumptions,    *)
(* every program, any hotness and any number of failed attempts: an        *)
(* integer stands for the interpreter's value at every instruction, and    *)
(* what a loop leaves behind is what the interpreter would have left.      *)
(***************************************************************************)
EXTENDS LoopTiers, LanesProofs, WellFoundedInduction

-----------------------------------------------------------------------------
(* Values that only the sign of a zero can tell apart.                     *)

Plain(v) == WellBoxed(v) /\ ~IsObject(v)

\* Two doubles that compare equal do so either way, and neither is NaN.
LEMMA EqualNumbers ==
    ASSUME NEW x \in F64, NEW y \in F64, FEqual(x, y)
    PROVE  FEqual(y, x) /\ x # NaN /\ y # NaN
<1>1. x # NaN /\ y # NaN
  BY OrderAssumption
<1>2. FEqual(x, x)
  BY <1>1, OrderAssumption
<1>3. FEqual(x, x) <=> FEqual(y, x)
  BY SignAssumption
<1> QED BY <1>1, <1>2, <1>3

\* The payload that counts in arithmetic.
LEMMA PlainNumber == ASSUME NEW v, Plain(v) PROVE ToNumber(v) \in F64
  BY ToNumberIsDouble DEF Plain

LEMMA SameBack == ASSUME NEW v, NEW w, Plain(v), Plain(w), Same(v, w) PROVE Same(w, v)
  BY NumberPayload, EqualNumbers DEF Same, Plain

LEMMA SameOn ==
    ASSUME NEW u, NEW v, NEW w, Plain(u), Plain(v), Plain(w), Same(u, v), Same(v, w)
    PROVE  Same(u, w)
<1>1. CASE u = v \/ v = w
  BY <1>1 DEF Same
<1>2. CASE u # v /\ v # w
  <2>1. /\ IsNumber(u) /\ IsNumber(v) /\ IsNumber(w)
        /\ FEqual(u.num, v.num) /\ FEqual(v.num, w.num)
    BY <1>2 DEF Same
  <2>2. u.num \in F64 /\ v.num \in F64 /\ w.num \in F64
    BY <2>1, NumberPayload DEF Plain
  <2>3. FEqual(u.num, w.num) <=> FEqual(v.num, w.num)
    BY <2>1, <2>2, SignAssumption
  <2> QED BY <2>1, <2>3 DEF Same
<1> QED BY <1>1, <1>2

LEMMA SameMade ==
    ASSUME NEW x \in F64, NEW y \in F64, SameNumber(x, y)
    PROVE  Same(MakeNumber(x), MakeNumber(y)) /\ Plain(MakeNumber(x))
<1>1. WellBoxed(MakeNumber(x)) /\ WellBoxed(MakeNumber(y))
  BY MakeNumberBoxes
<1>2. /\ IsNumber(MakeNumber(x)) /\ MakeNumber(x).num = x
      /\ IsNumber(MakeNumber(y)) /\ MakeNumber(y).num = y
  BY DEF MakeNumber, IsNumber, Smi, Dbl
<1> QED BY <1>1, <1>2 DEF SameNumber, Same, Plain, IsNumber, IsObject

\* What the operators see of them.
LEMMA SameSeen ==
    ASSUME NEW v, NEW w, Plain(v), Plain(w), Same(v, w)
    PROVE  /\ SameNumber(ToNumber(v), ToNumber(w))
           /\ FToInt32(ToNumber(v)) = FToInt32(ToNumber(w))
           /\ (ToBoolean(v) <=> ToBoolean(w))
           /\ (IsNumber(v) <=> IsNumber(w))
<1>1. CASE v = w
  BY <1>1 DEF SameNumber
<1>2. CASE v # w
  <2>1. IsNumber(v) /\ IsNumber(w) /\ FEqual(v.num, w.num)
    BY <1>2 DEF Same
  <2>2. v.num \in F64 /\ w.num \in F64 /\ 0 \in F64
    BY <2>1, NumberPayload, WidthsAssumption DEF Plain, F64, Safe
  <2>3. ToNumber(v) = v.num /\ ToNumber(w) = w.num
    BY <2>1 DEF ToNumber, IsNumber
  <2>4. FToInt32(v.num) = FToInt32(w.num) /\ (FEqual(v.num, 0) <=> FEqual(w.num, 0))
    BY <2>1, <2>2, SignAssumption
  <2>5. v.num # NaN /\ w.num # NaN
    BY <2>1, <2>2, EqualNumbers
  <2>6. (ToBoolean(v) <=> ToBoolean(w))
    BY <2>1, <2>4, <2>5 DEF ToBoolean, IsNumber, Nullish
  <2> QED BY <2>1, <2>3, <2>4, <2>6 DEF SameNumber
<1> QED BY <1>1, <1>2

\* SMI arithmetic is floating-point arithmetic.
LEMMA ArithIs ==
    ASSUME NEW op \in ArithOps, NEW l, NEW r, Plain(l), Plain(r)
    PROVE  JsArith(op, l, r) = MakeNumber(FArith(op, ToNumber(l), ToNumber(r)))
<1>1. CASE SmiArith(op, l, r)
  <2>1. l.num \in Safe /\ r.num \in Safe /\ ToNumber(l) = l.num /\ ToNumber(r) = r.num
    BY <1>1, WidthsAssumption DEF SmiArith, Plain, WellBoxed, ToNumber, IsNumber, Safe, SmiInts
  <2>2. Exact(op, l.num, r.num) \in Safe
    BY <1>1, WidthsAssumption DEF SmiArith, Safe, SmiInts
  <2>3. FArith(op, l.num, r.num) = Exact(op, l.num, r.num)
    BY <1>1, <2>1, <2>2, FloatAssumption DEF SmiArith
  <2> QED BY <1>1, <2>1, <2>3 DEF JsArith, SmiArith, MakeNumber
<1>2. CASE ~SmiArith(op, l, r)
  BY <1>2 DEF JsArith
<1> QED BY <1>1, <1>2

LEMMA SameArith ==
    ASSUME NEW op \in ArithOps \ {"DIV"}, NEW x \in F64, NEW y \in F64, NEW u \in F64, NEW v \in F64,
           SameNumber(x, u), SameNumber(y, v)
    PROVE  SameNumber(FArith(op, x, y), FArith(op, u, v))
<1>1. SameNumber(FArith(op, x, y), FArith(op, u, y))
  BY SignAssumption DEF SameNumber
<1>2. SameNumber(FArith(op, u, y), FArith(op, u, v))
  BY SignAssumption DEF SameNumber
<1>3. FArith(op, x, y) \in F64 /\ FArith(op, u, y) \in F64 /\ FArith(op, u, v) \in F64
  BY FloatAssumption
<1> DEFINE a == FArith(op, x, y)
           b == FArith(op, u, y)
           c == FArith(op, u, v)
<1> HIDE DEF a, b, c
<1>4. a \in F64 /\ b \in F64 /\ c \in F64 /\ SameNumber(a, b) /\ SameNumber(b, c)
  BY <1>1, <1>2, <1>3 DEF a, b, c
<1>5. SameNumber(a, c)
  BY <1>4, SignAssumption DEF SameNumber
<1> QED BY <1>5 DEF a, c

\* A boolean that two values give is the same.
LEMMA SameCompare ==
    ASSUME NEW op \in CompareOps, NEW l, NEW r, NEW l2, NEW r2,
           Plain(l), Plain(r), Plain(l2), Plain(r2), Same(l, l2), Same(r, r2)
    PROVE  JsCompare(op, l, r) <=> JsCompare(op, l2, r2)
<1> DEFINE a == ToNumber(l)
           b == ToNumber(r)
           a2 == ToNumber(l2)
           b2 == ToNumber(r2)
<1>1. a \in F64 /\ b \in F64 /\ a2 \in F64 /\ b2 \in F64
  BY PlainNumber
<1>2. SameNumber(a, a2) /\ SameNumber(b, b2)
  BY SameSeen
<1>3. (IsNumber(l) <=> IsNumber(l2)) /\ (IsNumber(r) <=> IsNumber(r2))
  BY SameSeen
<1>4. /\ IsNumber(l) => a = l.num
      /\ IsNumber(r) => b = r.num
      /\ IsNumber(l2) => a2 = l2.num
      /\ IsNumber(r2) => b2 = r2.num
  BY DEF ToNumber, IsNumber
<1>5. (~IsNumber(l) => l = l2) /\ (~IsNumber(r) => r = r2)
  BY DEF Same
<1>6. (a = NaN <=> a2 = NaN) /\ (b = NaN <=> b2 = NaN)
  BY <1>1, <1>2, EqualNumbers DEF SameNumber
<1>7. /\ FLess(a, b) <=> FLess(a2, b2)
      /\ FLess(b, a) <=> FLess(b2, a2)
      /\ FEqual(a, b) <=> FEqual(a2, b2)
  <2> HIDE DEF a, b, a2, b2
  <2>1. /\ FLess(a, b) <=> FLess(a2, b)
        /\ FLess(b, a) <=> FLess(b, a2)
        /\ FEqual(a, b) <=> FEqual(a2, b)
    BY <1>1, <1>2, SignAssumption DEF SameNumber
  <2>2. /\ FLess(a2, b) <=> FLess(a2, b2)
        /\ FLess(b, a2) <=> FLess(b2, a2)
        /\ FEqual(a2, b) <=> FEqual(a2, b2)
    BY <1>1, <1>2, SignAssumption DEF SameNumber
  <2> QED BY <2>1, <2>2
<1> HIDE DEF a, b, a2, b2
<1>8. JsStrictEqual(l, r) <=> JsStrictEqual(l2, r2)
  <2>1. CASE IsNumber(l) /\ IsNumber(r)
    BY <1>3, <1>4, <1>7, <2>1 DEF JsStrictEqual
  <2>2. CASE ~(IsNumber(l) /\ IsNumber(r))
    <3>1. l = r <=> l2 = r2
      BY <1>3, <1>5, <2>2 DEF IsNumber
    <3> QED BY <1>3, <2>2, <3>1 DEF JsStrictEqual
  <2> QED BY <2>1, <2>2
<1>9. JsLooseEqual(l, r) <=> JsLooseEqual(l2, r2)
  <2>1. (Nullish(l) <=> Nullish(l2)) /\ (Nullish(r) <=> Nullish(r2))
    BY <1>3, <1>5 DEF Nullish, IsNumber
  <2>2. CASE IsNumber(l) /\ IsNumber(r)
    <3>1. JsLooseEqual(l, r) <=> JsStrictEqual(l, r)
      BY <2>2 DEF JsLooseEqual, JsStrictEqual, Nullish, IsNumber
    <3>2. JsLooseEqual(l2, r2) <=> JsStrictEqual(l2, r2)
      BY <1>3, <2>2 DEF JsLooseEqual, JsStrictEqual, Nullish, IsNumber
    <3> QED BY <1>8, <3>1, <3>2
  <2>3. CASE ~(IsNumber(l) /\ IsNumber(r))
    <3>1. l.tag = r.tag <=> l2.tag = r2.tag
      BY <1>3, <1>5, <2>3 DEF IsNumber
    <3>2. CASE l.tag = r.tag
      <4>1. ~IsNumber(l) /\ ~IsNumber(r)
        BY <2>3, <3>2 DEF IsNumber
      <4> QED BY <1>5, <4>1
    <3>3. CASE l.tag # r.tag
      <4>1. JsLooseEqual(l, r) <=> IF Nullish(l) \/ Nullish(r) THEN Nullish(l) /\ Nullish(r)
                                   ELSE FEqual(a, b)
        BY <2>3, <3>3 DEF JsLooseEqual, a, b
      <4>2. JsLooseEqual(l2, r2) <=> IF Nullish(l2) \/ Nullish(r2)
                                     THEN Nullish(l2) /\ Nullish(r2) ELSE FEqual(a2, b2)
        BY <1>3, <2>3, <3>1, <3>3 DEF JsLooseEqual, a2, b2
      <4> QED BY <1>7, <2>1, <4>1, <4>2
    <3> QED BY <3>2, <3>3
  <2> QED BY <2>2, <2>3
<1>10. /\ JsLess(l, r) <=> JsLess(l2, r2)
       /\ JsLess(r, l) <=> JsLess(r2, l2)
       /\ Ordered(l, r) <=> Ordered(l2, r2)
  BY <1>6, <1>7 DEF JsLess, Ordered, a, b, a2, b2
<1> QED BY <1>8, <1>9, <1>10 DEF JsCompare, CompareOps

\* What an operator other than division answers.
LEMMA SameResult ==
    ASSUME NEW op \in Operators \ {"DIV"}, NEW l, NEW r, NEW l2, NEW r2,
           Plain(l), Plain(r), Plain(l2), Plain(r2),
           Same(l, l2), op \notin UnaryOps => Same(r, r2)
    PROVE  Same(JsResult(op, l, r), JsResult(op, l2, r2)) /\ Plain(JsResult(op, l, r))
<1> USE DEF UnaryOps, StepOps, ArithOps, BitwiseOps, CompareOps
<1>1. /\ ToNumber(l) \in F64 /\ ToNumber(l2) \in F64 /\ ToNumber(r) \in F64 /\ ToNumber(r2) \in F64
      /\ SameNumber(ToNumber(l), ToNumber(l2))
      /\ op \notin UnaryOps => SameNumber(ToNumber(r), ToNumber(r2))
  BY PlainNumber, SameSeen
<1>2. 1 \in F64 /\ SmiInts \subseteq F64
  BY WidthsAssumption DEF F64, Safe, SmiInts
<1>3. CASE op \in StepOps
  <2> DEFINE aop == IF op = "INC" THEN "ADD" ELSE "SUB"
  <2>1. /\ JsResult(op, l, r) = MakeNumber(FArith(aop, ToNumber(l), 1))
        /\ JsResult(op, l2, r2) = MakeNumber(FArith(aop, ToNumber(l2), 1))
    BY <1>3 DEF JsResult, JsUnary, JsStep
  <2>2. aop \in ArithOps \ {"DIV"}
    OBVIOUS
  <2>3. SameNumber(FArith(aop, ToNumber(l), 1), FArith(aop, ToNumber(l2), 1))
    BY <1>1, <1>2, <2>2, SameArith DEF SameNumber
  <2>4. FArith(aop, ToNumber(l), 1) \in F64 /\ FArith(aop, ToNumber(l2), 1) \in F64
    BY <1>1, <1>2, <2>2, FloatAssumption
  <2> QED BY <2>1, <2>3, <2>4, SameMade
<1>4. CASE op = "NEG"
  <2>1. /\ JsResult(op, l, r) = MakeNumber(FNeg(ToNumber(l)))
        /\ JsResult(op, l2, r2) = MakeNumber(FNeg(ToNumber(l2)))
    BY <1>4 DEF JsResult, JsUnary
  <2>2. SameNumber(FNeg(ToNumber(l)), FNeg(ToNumber(l2)))
    BY <1>1, SignAssumption DEF SameNumber
  <2> QED BY <1>1, <2>1, <2>2, SameMade, FloatAssumption
<1>5. CASE op = "BIT_NOT"
  <2> DEFINE n == -FToInt32(ToNumber(l)) - 1
  <2>1. JsResult(op, l, r) = MakeNumber(n) /\ JsResult(op, l2, r2) = MakeNumber(n)
    BY <1>5, SameSeen DEF JsResult, JsUnary
  <2>2. FToInt32(ToNumber(l)) \in SmiInts
    BY <1>1, AluAssumption
  <2>3. n \in F64
    BY <1>2, <2>2, WidthsAssumption DEF SmiInts
  <2> QED BY <2>1, <2>3, SameMade DEF SameNumber
<1>6. CASE op = "TO_NUMERIC"
  <2>1. /\ JsResult(op, l, r) = IF IsNumber(l) THEN l ELSE MakeNumber(ToNumber(l))
        /\ JsResult(op, l2, r2) = IF IsNumber(l2) THEN l2 ELSE MakeNumber(ToNumber(l2))
    BY <1>6 DEF JsResult, JsUnary
  <2>2. IsNumber(l) <=> IsNumber(l2)
    BY SameSeen
  <2> QED BY <1>1, <2>1, <2>2, SameMade
<1>7. CASE op = "NOT"
  <2>1. /\ JsResult(op, l, r) = Bool(~ToBoolean(l))
        /\ JsResult(op, l2, r2) = Bool(~ToBoolean(l2))
    BY <1>7 DEF JsResult, JsUnary
  <2>2. Bool(~ToBoolean(l)) = Bool(~ToBoolean(l2))
    BY SameSeen DEF Bool
  <2> QED BY <2>1, <2>2 DEF Same, Plain, WellBoxed, IsObject, Bool
<1>8. CASE op \in ArithOps
  <2>1. /\ JsResult(op, l, r) = MakeNumber(FArith(op, ToNumber(l), ToNumber(r)))
        /\ JsResult(op, l2, r2) = MakeNumber(FArith(op, ToNumber(l2), ToNumber(r2)))
    BY <1>8, ArithIs DEF JsResult
  <2>2. SameNumber(FArith(op, ToNumber(l), ToNumber(r)), FArith(op, ToNumber(l2), ToNumber(r2)))
    BY <1>1, <1>8, SameArith
  <2> QED BY <1>1, <1>8, <2>1, <2>2, SameMade, FloatAssumption
<1>9. CASE op \in BitwiseOps
  <2> DEFINE x == FToInt32(ToNumber(l))
             y == FToInt32(ToNumber(r))
             n == ALU(op, x, IF op \in ShiftOps THEN y % ShiftBits ELSE y)
  <2>1. JsResult(op, l, r) = MakeNumber(n) /\ JsResult(op, l2, r2) = MakeNumber(n)
    BY <1>9, SameSeen DEF JsResult, JsBitwise
  <2>2. x \in SmiInts /\ y \in SmiInts
    BY <1>1, AluAssumption
  <2>3. n \in IF op = "USHR" THEN 0 .. 2 * Half - 1 ELSE SmiInts
    BY <1>9, <2>2, AluAssumption
  <2>4. n \in F64
    BY <1>2, <2>3, WidthsAssumption DEF F64, Safe, SmiInts
  <2> QED BY <2>1, <2>4, SameMade DEF SameNumber
<1>10. CASE op \in CompareOps
  <2>1. /\ JsResult(op, l, r) = Bool(JsCompare(op, l, r))
        /\ JsResult(op, l2, r2) = Bool(JsCompare(op, l2, r2))
    BY <1>10 DEF JsResult
  <2>2. Bool(JsCompare(op, l, r)) = Bool(JsCompare(op, l2, r2))
    BY <1>10, SameCompare DEF Bool
  <2> QED BY <2>1, <2>2 DEF Same, Plain, WellBoxed, IsObject, Bool
<1> QED BY <1>3, <1>4, <1>5, <1>6, <1>7, <1>8, <1>9, <1>10 DEF Operators

-----------------------------------------------------------------------------
(* Integers that stand for values.                                         *)

Stands(n, v) == \/ IsNumber(v) /\ Same(v, MakeNumber(n))
                \/ n \in {0, 1} /\ v = Bool(n = 1)
                \/ n = 0 /\ v = Undef

\* A gate tests the integer as the language tests the value.
LEMMA GateStands ==
    ASSUME NEW n \in Safe, NEW v, Plain(v), Stands(n, v)
    PROVE  n # 0 <=> ToBoolean(v)
<1>1. CASE IsNumber(v) /\ Same(v, MakeNumber(n))
  <2>1. Plain(MakeNumber(n)) /\ MakeNumber(n).num = n /\ IsNumber(MakeNumber(n)) /\ n # NaN
    BY SameMade, IntOperand DEF SameNumber
  <2>2. ToBoolean(v) <=> ToBoolean(MakeNumber(n))
    BY <1>1, <2>1, SameSeen
  <2>3. ToBoolean(MakeNumber(n)) <=> ~FEqual(n, 0)
    BY <2>1 DEF ToBoolean, IsNumber, Nullish
  <2>4. FEqual(n, 0) <=> n = 0
    BY FloatAssumption, WidthsAssumption DEF Safe
  <2> QED BY <2>2, <2>3, <2>4
<1>2. CASE n \in {0, 1} /\ v = Bool(n = 1)
  BY <1>2 DEF Bool, ToBoolean, IsNumber, Nullish
<1>3. CASE n = 0 /\ v = Undef
  BY <1>3 DEF Undef, ToBoolean, IsNumber, Nullish
<1> QED BY <1>1, <1>2, <1>3 DEF Stands

\* A number that passes the guard is the integer it is unboxed to.
LEMMA GuardedStands ==
    ASSUME NEW v, Plain(v), IntGuard(v)
    PROVE  Trunc0(v.num) \in Safe /\ Same(v, MakeNumber(Trunc0(v.num)))
<1>1. IsNumber(v) /\ Trunc0(v.num) \in Safe
  BY DEF IntGuard
<1>2. v.num \in F64 /\ 0 \in F64
  BY <1>1, NumberPayload, WidthsAssumption DEF Plain, F64, Safe
<1>3. Trunc0(v.num) \in F64 /\ SameNumber(v.num, Trunc0(v.num))
  BY <1>1, <1>2, SignAssumption DEF Trunc0, SameNumber
<1>4. FEqual(v.num, Trunc0(v.num)) \/ v.num = Trunc0(v.num)
  BY <1>3 DEF SameNumber
<1>5. MakeNumber(Trunc0(v.num)).num = Trunc0(v.num) /\ IsNumber(MakeNumber(Trunc0(v.num)))
  BY <1>1, IntOperand
<1>6. Trunc0(v.num) = v.num => FEqual(v.num, Trunc0(v.num))
  BY <1>1, FloatAssumption
<1> QED BY <1>1, <1>4, <1>5, <1>6 DEF Same

\* What the lane leaves stands for what the interpreter computes.
LEMMA LaneStands ==
    ASSUME NEW op \in IntLaneOps, NEW x \in Safe, NEW y \in Safe, ~IntEscapes(op, x, y),
           NEW l, NEW r, Plain(l), Plain(r), Same(l, MakeNumber(x)),
           op \notin UnaryOps => Same(r, MakeNumber(y))
    PROVE  /\ IntLaneResult(op, x, y) \in Safe
           /\ Stands(IntLaneResult(op, x, y), JsResult(op, l, r))
           /\ op \in IntOps => IsNumber(JsResult(op, l, r))
           /\ op \in IntOps => Same(JsResult(op, l, r), MakeNumber(IntLaneResult(op, x, y)))
<1> DEFINE n == IntLaneResult(op, x, y)
           v == JsResult(op, l, r)
           m == JsResult(op, MakeNumber(x), MakeNumber(y))
<1>1. Plain(MakeNumber(x)) /\ Plain(MakeNumber(y))
  BY SameMade, IntOperand DEF SameNumber
<1>2. op \in Operators \ {"DIV"}
  BY DEF IntLaneOps, Operators, ArithOps, UnaryOps, BitwiseOps, CompareOps, StepOps
<1>3. Same(v, m) /\ Plain(v)
  BY <1>1, <1>2, SameResult
<1>4. Plain(m)
  BY <1>1, <1>2, SameResult DEF Same
<1>5. CASE op \in CompareOps \cup {"NOT"}
  <2>1. n \in Safe /\ Bool(n = 1) = m
    BY <1>5, IntLanesAgree DEF IntAgrees, StandsFor, CompareOps
  <2>2. n \in {0, 1}
    BY <1>5 DEF IntLaneResult, Bit, CompareOps, StepOps, BitwiseOps
  <2>3. v = m
    BY <1>3, <2>1 DEF Same, IsNumber, Bool
  <2> QED BY <1>5, <2>1, <2>2, <2>3 DEF Stands, IntOps, CompareOps
<1>6. CASE op \notin CompareOps \cup {"NOT"}
  <2>1. n \in Safe /\ Same(m, MakeNumber(n))
    <3>1. CASE op = "MUL" /\ x * y = 0
      <4>1. n = 0 /\ n \in Safe
        BY <3>1, WidthsAssumption DEF IntLaneResult, Wide, Exact, StepOps, BitwiseOps, CompareOps, Safe
      <4>2. m = MakeNumber(FArith("MUL", x, y))
        BY <1>1, <3>1, ArithIs, IntOperand
           DEF JsResult, UnaryOps, StepOps, ArithOps, BitwiseOps, CompareOps
      <4>3. FEqual(FArith("MUL", x, y), 0)
        BY <3>1, SignAssumption
      <4>4. FArith("MUL", x, y) \in F64 /\ 0 \in F64
        BY FloatAssumption, IntOperand, WidthsAssumption DEF ArithOps, F64, Safe
      <4> QED BY <4>1, <4>2, <4>3, <4>4, SameMade DEF SameNumber
    <3>2. CASE ~(op = "MUL" /\ x * y = 0)
      BY <1>6, <3>2, IntLanesAgree DEF IntAgrees, StandsFor, Same
    <3> QED BY <3>1, <3>2
  <2>2. Plain(MakeNumber(n)) /\ IsNumber(MakeNumber(n))
    BY <2>1, SameMade, IntOperand DEF SameNumber
  <2>3. Same(v, MakeNumber(n))
    BY <1>3, <1>4, <2>1, <2>2, SameOn
  <2>4. IsNumber(v)
    BY <2>2, <2>3 DEF Same
  <2> QED BY <2>1, <2>3, <2>4 DEF Stands
<1> QED BY <1>5, <1>6

-----------------------------------------------------------------------------
(* The layout of code, and the registers that are fresh at an instruction. *)

NextOf(p, o) == o + InstrSize(Code(p)[o].op)
Ending == {"JMP", "RETURN", "RETURN_UNDEF"}

LEMMA SizeIs == ASSUME NEW op PROVE InstrSize(op) \in 1 .. 5
BY DEF InstrSize, UnaryOps, StepOps

LEMMA LaidOut ==
    ASSUME NEW p \in DOMAIN Programs, NEW o \in Offsets(p)
    PROVE  /\ o \in Nat /\ NextOf(p, o) \in Nat /\ o < NextOf(p, o)
           /\ Code(p)[o].op \notin Ending => NextOf(p, o) \in Offsets(p)
           /\ \A x \in Offsets(p) : x <= o \/ NextOf(p, o) <= x
           /\ Code(p)[o].op \in Jumps =>
                 Code(p)[o].to \in Offsets(p) /\ Code(p)[o].to \in Targets(p)
           /\ Code(p)[o].d \in Regs /\ Code(p)[o].l \in Regs /\ Code(p)[o].r \in Regs
           /\ Plain(Code(p)[o].val)
<1>1. o \in Nat
  BY LayoutAssumption
<1>2. NextOf(p, o) \in Nat /\ o < NextOf(p, o)
  BY <1>1, SizeIs DEF NextOf
<1>3. /\ Code(p)[o].op \notin Ending => NextOf(p, o) \in Offsets(p)
      /\ \A x \in Offsets(p) : x <= o \/ NextOf(p, o) <= x
      /\ Code(p)[o].op \in Jumps => Code(p)[o].to \in Offsets(p)
  BY LayoutAssumption DEF NextOf, Ending
<1>4. /\ Code(p)[o].d \in Regs /\ Code(p)[o].l \in Regs /\ Code(p)[o].r \in Regs
      /\ Plain(Code(p)[o].val)
  BY ProgramsAssumption, LoopsAssumption DEF Plain
<1> QED BY <1>1, <1>2, <1>3, <1>4 DEF Targets

\* Nothing is fresh where ways join.
LEMMA FreshAtTarget ==
    ASSUME NEW p \in DOMAIN Programs, NEW t \in Targets(p), NEW ops
    PROVE  Fresh(p, t, ops) = {}
<1>1. t \in Nat
  BY LaidOut DEF Targets
<1> SUFFICES ASSUME NEW k \in Offsets(p), k < t, \A x \in Targets(p) : x <= k \/ t < x
             PROVE  FALSE
  BY DEF Fresh
<1>2. k \in Nat /\ (t <= k \/ t < t)
  BY LaidOut
<1> QED BY <1>1, <1>2

\* Going on to the next instruction, what is fresh was so before, or was written.
LEMMA FreshNext ==
    ASSUME NEW p \in DOMAIN Programs, NEW o \in Offsets(p), NEW ops, NEW r,
           r \in Fresh(p, NextOf(p, o), ops)
    PROVE  \/ Code(p)[o].op \in ops /\ r = Code(p)[o].d
           \/ /\ r \in Fresh(p, o, ops)
              /\ Code(p)[o].op \in Computes => r # Code(p)[o].d
<1> DEFINE n == NextOf(p, o)
<1>1. PICK k \in Offsets(p) :
         /\ k < n /\ Code(p)[k].op \in ops /\ Code(p)[k].d = r
         /\ \A t \in Targets(p) : t <= k \/ n < t
         /\ \A j \in Offsets(p) : k < j /\ j < n /\ Code(p)[j].op \in Computes => Code(p)[j].d # r
  BY DEF Fresh
<1>2. r \in Regs /\ o \in Nat /\ n \in Nat /\ o < n /\ k \in Nat /\ (k <= o \/ n <= k)
  BY LaidOut DEF Fresh
<1>3. k <= o
  BY <1>1, <1>2
<1>4. CASE k = o
  BY <1>1, <1>4
<1>5. CASE k # o
  <2>1. k < o
    BY <1>2, <1>3, <1>5
  <2>2. \A t \in Targets(p) : t <= k \/ o < t
    <3> TAKE t \in Targets(p)
    <3>1. t \in Nat /\ (t <= k \/ n < t)
      BY <1>1, LaidOut DEF Targets
    <3> QED BY <1>2, <3>1
  <2>3. \A j \in Offsets(p) : k < j /\ j < o /\ Code(p)[j].op \in Computes => Code(p)[j].d # r
    <3> TAKE j \in Offsets(p)
    <3>1. j \in Nat
      BY LaidOut
    <3>2. j < o => j < n
      BY <1>2, <3>1
    <3> QED BY <1>1, <3>2
  <2>4. Code(p)[o].op \in Computes => Code(p)[o].d # r
    BY <1>1, <1>2, <2>1
  <2> QED BY <1>1, <1>2, <2>1, <2>2, <2>3, <2>4 DEF Fresh
<1> QED BY <1>4, <1>5

\* A register that is read later without a write in between, and is fresh
\* there, is fresh already.
LEMMA FreshEarlier ==
    ASSUME NEW p \in DOMAIN Programs, NEW o \in Offsets(p), NEW q \in Offsets(p), o <= q,
           NEW r \in Fresh(p, q, Computes),
           \A k \in Offsets(p) : o <= k /\ k < q /\ Code(p)[k].op \in Computes => Code(p)[k].d # r
    PROVE  r \in Fresh(p, o, Computes)
<1>1. PICK k \in Offsets(p) :
         /\ k < q /\ Code(p)[k].op \in Computes /\ Code(p)[k].d = r
         /\ \A t \in Targets(p) : t <= k \/ q < t
         /\ \A j \in Offsets(p) : k < j /\ j < q /\ Code(p)[j].op \in Computes => Code(p)[j].d # r
  BY DEF Fresh
<1>2. r \in Regs /\ o \in Nat /\ q \in Nat /\ k \in Nat
  BY LaidOut DEF Fresh
<1>3. k < o
  BY <1>1, <1>2
<1>4. \A t \in Targets(p) : t <= k \/ o < t
  <2> TAKE t \in Targets(p)
  <2>1. t \in Nat /\ (t <= k \/ q < t)
    BY <1>1, LaidOut DEF Targets
  <2> QED BY <1>2, <2>1
<1>5. \A j \in Offsets(p) : k < j /\ j < o /\ Code(p)[j].op \in Computes => Code(p)[j].d # r
  <2> TAKE j \in Offsets(p)
  <2>1. j \in Nat
    BY LaidOut
  <2>2. j < o => j < q
    BY <1>2, <2>1
  <2> QED BY <1>1, <2>2
<1> QED BY <1>1, <1>2, <1>3, <1>4, <1>5 DEF Fresh
-----------------------------------------------------------------------------
(* Frames: the real one, the one of the interpreter alone, and the latter  *)
(* as it was when machine code was entered.                                *)

Real   == [pc |-> pc, regs |-> regs, env |-> env, outer |-> outer,
           status |-> status, result |-> result]
Mirror == [pc |-> ipc, regs |-> iregs, env |-> ienv, outer |-> iouter,
           status |-> istatus, result |-> iresult]
Kept   == [pc |-> before.pc, regs |-> before.regs, env |-> before.env, outer |-> before.outer,
           status |-> istatus, result |-> iresult]

HoldsPlain(g, S) == DOMAIN g = S /\ \A x \in S : Plain(g[x])

Proper(p, f) == /\ HoldsPlain(f.regs, Regs)
                /\ HoldsPlain(f.env, Owned(p)) /\ HoldsPlain(f.outer, DOMAIN f.outer)
                /\ Plain(f.result)

\* Two functions whose values only the sign of a zero can tell apart.
Alike(g, h, S) == \A x \in S : Same(g[x], h[x])

\* The frames cannot be told apart by the code that is ahead.
Agree(p, f, g) ==
    /\ f.pc = g.pc /\ f.status = g.status /\ Same(f.result, g.result)
    /\ DOMAIN f.outer = DOMAIN g.outer
    /\ Alike(f.env, g.env, Owned(p)) /\ Alike(f.outer, g.outer, DOMAIN f.outer)
    /\ Alike(f.regs, g.regs, (Regs \ Scratch(p)) \cup Fresh(p, f.pc, Computes))

\* Every variable that is assigned exists.
Bound(f) == \E s \in Scopes : DOMAIN f.outer = DOMAIN s

-----------------------------------------------------------------------------
(* One step of the interpreter, of either frame.                           *)

Value(p, f) ==
    LET i == Code(p)[f.pc]
    IN  CASE i.op = "LOAD_K" -> i.val
          [] i.op = "LOAD_TRUE" -> Bool(TRUE)
          [] i.op = "LOAD_FALSE" -> Bool(FALSE)
          [] i.op = "LOAD_UNDEF" -> Undef
          [] i.op = "MOVE" -> f.regs[i.l]
          [] i.op = "GET_GLOBAL" -> IF i.name \in DOMAIN f.env THEN f.env[i.name]
                                    ELSE f.outer[i.name]
          [] i.op \in Operators -> JsResult(i.op, f.regs[i.l], f.regs[i.r])

Ahead(p, f) ==
    LET i == Code(p)[f.pc]
    IN  IF \/ i.op = "JMP"
           \/ i.op \in JumpIfOps /\ (ToBoolean(f.regs[i.l]) <=> i.op = "JMP_IF_TRUE")
        THEN i.to ELSE NextOf(p, f.pc)

SameVariables(f, g) == g.env = f.env /\ g.outer = f.outer
SameEnd(f, g)       == g.status = f.status /\ g.result = f.result

Computing(p, f, g) ==
    LET i == Code(p)[f.pc]
    IN  /\ i.op \in Computes
        /\ i.op = "GET_GLOBAL" => i.name \in DOMAIN f.env \cup DOMAIN f.outer
        /\ g.regs = [f.regs EXCEPT ![i.d] = Value(p, f)] /\ g.pc = NextOf(p, f.pc)
        /\ SameVariables(f, g) /\ SameEnd(f, g)

Storing(p, f, g) ==
    LET i == Code(p)[f.pc]
    IN  /\ i.op \in StoreOps
        /\ \/ /\ i.name \in DOMAIN f.env /\ g.outer = f.outer
              /\ g.env = [f.env EXCEPT ![i.name] = f.regs[i.l]]
           \/ /\ i.name \notin DOMAIN f.env /\ g.env = f.env
              /\ g.outer = [n \in DOMAIN f.outer \cup {i.name} |->
                              IF n = i.name THEN f.regs[i.l] ELSE f.outer[n]]
        /\ g.pc = NextOf(p, f.pc) /\ g.regs = f.regs /\ SameEnd(f, g)

Moving(p, f, g) ==
    /\ Code(p)[f.pc].op \in Jumps \cup {"HOIST_VAR"}
    /\ g.pc = Ahead(p, f) /\ g.regs = f.regs /\ SameVariables(f, g) /\ SameEnd(f, g)

Stopping(p, f, g) ==
    LET i == Code(p)[f.pc]
    IN  /\ \/ /\ i.op \in {"RETURN", "RETURN_UNDEF"} /\ g.status = "returned"
              /\ g.result = IF i.op = "RETURN" THEN f.regs[i.l] ELSE Undef
           \/ /\ i.op \in StoreOps \cup {"GET_GLOBAL"}
              /\ i.name \notin DOMAIN f.env \cup DOMAIN f.outer
              /\ g.status = "threw" /\ g.result = Undef
        /\ g.pc = f.pc /\ g.regs = f.regs /\ SameVariables(f, g)

Goes(p, f, g) ==
    /\ f.status = "running" /\ f.pc \in Offsets(p)
    /\ \/ Computing(p, f, g) \/ Storing(p, f, g) \/ Moving(p, f, g) \/ Stopping(p, f, g)

\* A plain value is read as it is, and nothing coerces one.
LEMMA PlainRead == ASSUME NEW v, Plain(v) PROVE Seen(v) = v
  BY DEF Plain, WellBoxed, Seen

LEMMA PlainOperands ==
    ASSUME NEW op \in Operators, NEW l, NEW r, Plain(l), Plain(r) PROVE ~Coerces(op, l, r)
  BY DEF Plain, IsObject, Coerces, Operators, ArithOps, BitwiseOps, CompareOps, UnaryOps, StepOps

\* No loop's function runs code outside itself.
LEMMA NothingOutside ==
    ASSUME prog \in DOMAIN Programs, Proper(prog, Real)
    PROVE  ~CallOut /\ ~NewClosure
<1> SUFFICES ASSUME pc \in Offsets(prog) PROVE ~RunsOutside /\ ~At("NEW_CLOSURE")
  BY DEF CallOut, NewClosure, RunsOutside, At, AtAny
<1>1. /\ Instr.op \notin HelperOps \cup {"NEW_CLOSURE"}
      /\ Plain(regs[Instr.l]) /\ Plain(regs[Instr.r])
  BY LoopsAssumption, LaidOut DEF Instr, Proper, Real, HoldsPlain
<1>2. Instr.op \in Operators => ~Coerces(Instr.op, L, R)
  BY <1>1, PlainRead, PlainOperands DEF L, R
<1> QED BY <1>1, <1>2 DEF RunsOutside, At, AtAny

LEMMA RealGoes ==
    ASSUME prog \in DOMAIN Programs, Proper(prog, Real), InterpNext
    PROVE  Goes(prog, Real, Real') /\ prog' = prog
<1>1. pc \in Offsets(prog) /\ status = "running" /\ prog' = prog
  BY NothingOutside DEF InterpNext, Load, Operate, GetGlobal, SetOwn, SetOuter, HoistVar, Jump,
     JumpIf, Branch, NewClosure, Return, At, AtAny, Local
<1>2. /\ L = regs[Instr.l] /\ R = regs[Instr.r] /\ Next1 = NextOf(prog, pc)
      /\ Instr = Code(prog)[pc]
  BY <1>1, LaidOut, PlainRead DEF L, R, Next1, NextOf, Instr, Proper, Real, HoldsPlain
<1> DEFINE i == Code(prog)[pc]
<1>3. /\ Real.pc = pc /\ Real.regs = regs /\ Real.env = env /\ Real.outer = outer
      /\ Real.status = status /\ Real.result = result
      /\ Real'.pc = pc' /\ Real'.regs = regs' /\ Real'.env = env' /\ Real'.outer = outer'
      /\ Real'.status = status' /\ Real'.result = result'
  BY DEF Real
<1> USE DEF Goes, SameVariables, SameEnd, Local, Running
<1>4. CASE Load
  <2>1. LoadedValue = Value(prog, Real)
    BY <1>2, <1>3, <1>4 DEF Load, AtAny, LoadOps, LoadedValue, Value
  <2>2. i.op \in LoadOps
    BY <1>2, <1>4 DEF Load, AtAny
  <2>3. i.op \in Computes /\ i.op # "GET_GLOBAL"
    BY <2>2 DEF Computes, LoadOps
  <2>4. Computing(prog, Real, Real')
    BY <1>2, <1>3, <1>4, <2>1, <2>3 DEF Load, Answer, Computing
  <2> QED BY <1>1, <1>3, <2>4
<1>5. CASE Operate
  <2>1. i.op \in Operators
    BY <1>2, <1>5 DEF Operate, AtAny
  <2>2. JsResult(i.op, L, R) = Value(prog, Real)
    BY <1>2, <1>3, <2>1
       DEF Value, Operators, ArithOps, BitwiseOps, CompareOps, UnaryOps, StepOps
  <2>3. i.op \in Computes /\ i.op # "GET_GLOBAL"
    BY <2>1 DEF Computes, Operators, ArithOps, BitwiseOps, CompareOps, UnaryOps, StepOps
  <2>4. Computing(prog, Real, Real')
    BY <1>2, <1>3, <1>5, <2>2, <2>3 DEF Operate, Answer, Computing
  <2> QED BY <1>1, <1>3, <2>4
<1>6. CASE GetGlobal
  <2>1. i.op = "GET_GLOBAL" /\ i.op \in Computes
    BY <1>2, <1>6 DEF GetGlobal, At, Computes
  <2>2. Value(prog, Real) = IF i.name \in DOMAIN env THEN env[i.name] ELSE outer[i.name]
    BY <1>3, <2>1 DEF Value, Operators, ArithOps, BitwiseOps, CompareOps, UnaryOps, StepOps
  <2>3. Computing(prog, Real, Real') \/ Stopping(prog, Real, Real')
    BY <1>2, <1>3, <1>6, <2>1, <2>2 DEF GetGlobal, Answer, Ends, Computing, Stopping
  <2> QED BY <1>1, <1>3, <2>3
<1>7. CASE SetOwn \/ SetOuter
  <2>1. i.op \in StoreOps
    BY <1>2, <1>7 DEF SetOwn, SetOuter, AtAny
  <2>2. Storing(prog, Real, Real') \/ Stopping(prog, Real, Real')
    BY <1>2, <1>3, <1>7, <2>1 DEF SetOwn, SetOuter, GoOn, Ends, Storing, Stopping
  <2> QED BY <1>1, <1>3, <2>2
<1>8. CASE HoistVar \/ Jump \/ JumpIf
  <2>1. i.op \in Jumps \cup {"HOIST_VAR"}
    BY <1>2, <1>8 DEF HoistVar, Jump, JumpIf, At, AtAny, Jumps
  <2>2. pc' = Ahead(prog, Real)
    BY <1>2, <1>3, <1>8
       DEF HoistVar, Jump, JumpIf, Branch, At, AtAny, JumpIfOps, GoOn, Ahead
  <2>3. regs' = regs /\ env' = env /\ outer' = outer /\ status' = status /\ result' = result
    BY <1>8 DEF HoistVar, Jump, JumpIf, Branch, GoOn
  <2>4. Moving(prog, Real, Real')
    BY <1>3, <2>1, <2>2, <2>3 DEF Moving
  <2> QED BY <1>1, <1>3, <2>4
<1>9. CASE Return
  <2>1. Stopping(prog, Real, Real')
    BY <1>2, <1>3, <1>9 DEF Return, AtAny, Ends, Stopping
  <2> QED BY <1>1, <1>3, <2>1
<1> QED BY <1>1, <1>4, <1>5, <1>6, <1>7, <1>8, <1>9, NothingOutside DEF InterpNext

-----------------------------------------------------------------------------
(* The interpreter alone runs by the same rules.                           *)

LEMMA AloneOperators ==
    ASSUME NEW op, NEW l, NEW r
    PROVE  Alone!JsResult(op, l, r) = JsResult(op, l, r)
  BY DEF Alone!JsResult, Alone!JsUnary, Alone!JsStep, Alone!JsArith, Alone!JsBitwise,
         Alone!JsCompare, Alone!JsLooseEqual, Alone!JsStrictEqual, Alone!JsLess,
         Alone!Ordered, Alone!SmiArith, Alone!Exact, Alone!MakeNumber, Alone!ToNumber,
         Alone!ToBoolean, Alone!Smi, Alone!Dbl, Alone!Bool, Alone!IsNumber,
         Alone!Nullish, Alone!SmiInts,
         Alone!ArithOps, Alone!BitwiseOps, Alone!ShiftOps, Alone!StepOps,
         Alone!CompareOps, Alone!UnaryOps,
         JsResult, JsUnary, JsStep, JsArith, JsBitwise,
         JsCompare, JsLooseEqual, JsStrictEqual, JsLess,
         Ordered, SmiArith, Exact, MakeNumber, ToNumber,
         ToBoolean, Smi, Dbl, Bool, IsNumber, Nullish, SmiInts,
         ArithOps, BitwiseOps, ShiftOps, StepOps, CompareOps, UnaryOps

LEMMA AloneOps ==
    /\ Alone!LoadOps = LoadOps /\ Alone!StoreOps = StoreOps /\ Alone!JumpIfOps = JumpIfOps
    /\ Alone!HelperOps = HelperOps /\ Alone!Operators = Operators
    /\ Alone!CompareOps = CompareOps
  BY DEF Alone!LoadOps, Alone!StoreOps, Alone!JumpIfOps, Alone!HelperOps, Alone!PropertyOps,
         Alone!Operators, Alone!ArithOps, Alone!BitwiseOps, Alone!CompareOps, Alone!UnaryOps,
         Alone!StepOps, LoadOps, StoreOps, JumpIfOps, HelperOps, PropertyOps, Operators,
         ArithOps, BitwiseOps, CompareOps, UnaryOps, StepOps

LEMMA AloneReads ==
    ASSUME NEW v
    PROVE  /\ Alone!Seen(v) = Seen(v) /\ (Alone!ToBoolean(v) <=> ToBoolean(v))
           /\ \A op, w : Alone!Coerces(op, v, w) = Coerces(op, v, w)
           /\ \A b : Alone!Bool(b) = Bool(b)
           /\ Alone!Undef = Undef
<1>1. Alone!Seen(v) = Seen(v)
  BY DEF Alone!Seen, Alone!Undef, Alone!Cell, Seen, Undef, Cell
<1>2. Alone!ToBoolean(v) <=> ToBoolean(v)
  BY DEF Alone!ToBoolean, Alone!IsNumber, Alone!Nullish, ToBoolean, IsNumber, Nullish
<1>3. \A op, w : Alone!Coerces(op, v, w) = Coerces(op, v, w)
  BY DEF Alone!Coerces, Alone!IsObject, Alone!Nullish, Alone!UnaryOps, Alone!StepOps,
         Coerces, IsObject, Nullish, UnaryOps, StepOps
<1>4. (\A b : Alone!Bool(b) = Bool(b)) /\ Alone!Undef = Undef
  BY DEF Alone!Bool, Bool, Alone!Undef, Undef
<1> QED BY <1>1, <1>2, <1>3, <1>4

LEMMA AloneCode ==
    /\ Alone!Instr = Code(prog)[ipc] /\ Alone!Next1 = NextOf(prog, ipc)
    /\ Alone!Offsets(prog) = Offsets(prog)
  BY DEF Alone!Instr, Alone!Next1, Alone!Offsets, Alone!Code, Alone!InstrSize, Alone!UnaryOps,
         Alone!StepOps, NextOf, Offsets, Code, InstrSize, UnaryOps, StepOps

LEMMA NothingOutsideAlone ==
    ASSUME prog \in DOMAIN Programs, Proper(prog, Mirror)
    PROVE  ~Alone!CallOut /\ ~Alone!NewClosure
<1> DEFINE i == Code(prog)[ipc]
<1> SUFFICES ASSUME ipc \in Offsets(prog)
             PROVE  ~Alone!RunsOutside /\ ~Alone!At("NEW_CLOSURE")
  BY AloneCode DEF Alone!CallOut, Alone!NewClosure, Alone!RunsOutside, Alone!At, Alone!AtAny
<1>1. /\ i.op \notin HelperOps \cup {"NEW_CLOSURE"}
      /\ Plain(iregs[i.l]) /\ Plain(iregs[i.r])
  BY LoopsAssumption, LaidOut DEF Proper, Mirror, HoldsPlain
<1>2. Alone!L = iregs[i.l] /\ Alone!R = iregs[i.r]
  BY <1>1, AloneCode, AloneReads, PlainRead DEF Alone!L, Alone!R
<1>3. i.op \in Operators => ~Alone!Coerces(i.op, iregs[i.l], iregs[i.r])
  <2> DEFINE l == iregs[i.l]
             r == iregs[i.r]
  <2>1. i.op \in Operators => ~Coerces(i.op, l, r)
    BY <1>1, PlainOperands
  <2>2. Alone!Coerces(i.op, l, r) = Coerces(i.op, l, r)
    <3> HIDE DEF i, l, r
    <3> QED BY AloneReads
  <2> QED BY <2>1, <2>2
<1> QED BY <1>1, <1>2, <1>3, AloneCode, AloneOps DEF Alone!RunsOutside, Alone!At, Alone!AtAny

LEMMA AloneGoes ==
    ASSUME prog \in DOMAIN Programs, Proper(prog, Mirror), Alone!InterpNext
    PROVE  Goes(prog, Mirror, Mirror') /\ prog' = prog
<1>1. ipc \in Offsets(prog) /\ istatus = "running" /\ prog' = prog
  BY NothingOutsideAlone, AloneCode
     DEF Alone!InterpNext, Alone!Load, Alone!Operate, Alone!GetGlobal, Alone!SetOwn,
         Alone!SetOuter, Alone!HoistVar, Alone!Jump, Alone!JumpIf, Alone!Branch,
         Alone!NewClosure, Alone!Return, Alone!At, Alone!AtAny, Alone!Local
<1> DEFINE i == Code(prog)[ipc]
<1>2. /\ Alone!L = iregs[i.l] /\ Alone!R = iregs[i.r]
      /\ Alone!Next1 = NextOf(prog, ipc) /\ Alone!Instr = i
  BY <1>1, LaidOut, PlainRead, AloneReads, AloneCode
     DEF Alone!L, Alone!R, Proper, Mirror, HoldsPlain
<1>3. /\ Mirror.pc = ipc /\ Mirror.regs = iregs /\ Mirror.env = ienv /\ Mirror.outer = iouter
      /\ Mirror.status = istatus /\ Mirror.result = iresult
      /\ Mirror'.pc = ipc' /\ Mirror'.regs = iregs' /\ Mirror'.env = ienv'
      /\ Mirror'.outer = iouter' /\ Mirror'.status = istatus' /\ Mirror'.result = iresult'
  BY DEF Mirror
<1>4. /\ Alone!Undef = Undef /\ \A b : Alone!Bool(b) = Bool(b)
      /\ Alone!ToBoolean(iregs[i.l]) <=> ToBoolean(iregs[i.l])
  BY AloneReads
<1> USE DEF Goes, SameVariables, SameEnd, Alone!Local, Alone!Running
<1>5. CASE Alone!Load
  <2>1. i.op \in LoadOps
    BY <1>2, <1>5, AloneOps DEF Alone!Load, Alone!AtAny
  <2>2. Alone!LoadedValue = Value(prog, Mirror)
    BY <1>2, <1>3, <1>4, <2>1 DEF LoadOps, Alone!LoadedValue, Value
  <2>3. i.op \in Computes /\ i.op # "GET_GLOBAL"
    BY <2>1 DEF Computes, LoadOps
  <2>4. Computing(prog, Mirror, Mirror')
    BY <1>2, <1>3, <1>5, <2>2, <2>3 DEF Alone!Load, Alone!Answer, Computing
  <2> QED BY <1>1, <1>3, <2>4
<1>6. CASE Alone!Operate
  <2>1. i.op \in Operators
    BY <1>2, <1>6, AloneOps DEF Alone!Operate, Alone!AtAny
  <2>2. Alone!JsResult(i.op, Alone!L, Alone!R) = Value(prog, Mirror)
    <3>1. Alone!JsResult(i.op, iregs[i.l], iregs[i.r]) = JsResult(i.op, iregs[i.l], iregs[i.r])
      BY AloneOperators
    <3>2. Value(prog, Mirror) = JsResult(i.op, iregs[i.l], iregs[i.r])
      BY <1>3, <2>1
         DEF Value, Operators, ArithOps, BitwiseOps, CompareOps, UnaryOps, StepOps
    <3> QED BY <1>2, <3>1, <3>2
  <2>3. i.op \in Computes /\ i.op # "GET_GLOBAL"
    BY <2>1 DEF Computes, Operators, ArithOps, BitwiseOps, CompareOps, UnaryOps, StepOps
  <2>4. Computing(prog, Mirror, Mirror')
    BY <1>2, <1>3, <1>6, <2>2, <2>3 DEF Alone!Operate, Alone!Answer, Computing
  <2> QED BY <1>1, <1>3, <2>4
<1>7. CASE Alone!GetGlobal
  <2>1. i.op = "GET_GLOBAL" /\ i.op \in Computes
    BY <1>2, <1>7 DEF Alone!GetGlobal, Alone!At, Computes
  <2>2. Value(prog, Mirror) = IF i.name \in DOMAIN ienv THEN ienv[i.name] ELSE iouter[i.name]
    BY <1>3, <2>1 DEF Value, Operators, ArithOps, BitwiseOps, CompareOps, UnaryOps, StepOps
  <2>3. Computing(prog, Mirror, Mirror') \/ Stopping(prog, Mirror, Mirror')
    BY <1>2, <1>3, <1>4, <1>7, <2>1, <2>2
       DEF Alone!GetGlobal, Alone!Answer, Alone!Ends, Computing, Stopping
  <2> QED BY <1>1, <1>3, <2>3
<1>8. CASE Alone!SetOwn \/ Alone!SetOuter
  <2>1. i.op \in StoreOps
    BY <1>2, <1>8, AloneOps DEF Alone!SetOwn, Alone!SetOuter, Alone!AtAny
  <2>2. Storing(prog, Mirror, Mirror') \/ Stopping(prog, Mirror, Mirror')
    BY <1>2, <1>3, <1>4, <1>8, <2>1
       DEF Alone!SetOwn, Alone!SetOuter, Alone!GoOn, Alone!Ends, Storing, Stopping
  <2> QED BY <1>1, <1>3, <2>2
<1>9. CASE Alone!HoistVar \/ Alone!Jump \/ Alone!JumpIf
  <2>1. /\ Alone!HoistVar => i.op = "HOIST_VAR"
        /\ Alone!Jump => i.op = "JMP"
        /\ Alone!JumpIf => i.op \in JumpIfOps
    BY <1>2, AloneOps DEF Alone!HoistVar, Alone!Jump, Alone!JumpIf, Alone!At, Alone!AtAny
  <2>2. ipc' = Ahead(prog, Mirror)
    BY <1>2, <1>3, <1>4, <1>9, <2>1
       DEF Alone!HoistVar, Alone!Jump, Alone!JumpIf, Alone!Branch, JumpIfOps, Alone!GoOn, Ahead
  <2>3. /\ iregs' = iregs /\ ienv' = ienv /\ iouter' = iouter
        /\ istatus' = istatus /\ iresult' = iresult
    BY <1>9 DEF Alone!HoistVar, Alone!Jump, Alone!JumpIf, Alone!Branch, Alone!GoOn
  <2>4. Moving(prog, Mirror, Mirror')
    BY <1>3, <1>9, <2>1, <2>2, <2>3 DEF Moving, Jumps
  <2> QED BY <1>1, <1>3, <2>4
<1>10. CASE Alone!Return
  <2>1. Stopping(prog, Mirror, Mirror')
    BY <1>2, <1>3, <1>4, <1>10 DEF Alone!Return, Alone!AtAny, Alone!Ends, Stopping
  <2> QED BY <1>1, <1>3, <2>1
<1> QED BY <1>1, <1>5, <1>6, <1>7, <1>8, <1>9, <1>10, NothingOutsideAlone DEF Alone!InterpNext

-----------------------------------------------------------------------------
(* What a step does to frames that cannot be told apart.                   *)

\* An instruction that computes leaves a plain value.
LEMMA ValuePlain ==
    ASSUME NEW p \in DOMAIN Programs, NEW f, Proper(p, f), f.pc \in Offsets(p),
           Code(p)[f.pc].op \in Computes,
           Code(p)[f.pc].op = "GET_GLOBAL" =>
              Code(p)[f.pc].name \in DOMAIN f.env \cup DOMAIN f.outer
    PROVE  Plain(Value(p, f))
<1> DEFINE i == Code(p)[f.pc]
<1>1. Plain(i.val) /\ Plain(f.regs[i.l]) /\ Plain(f.regs[i.r])
  BY LaidOut DEF Proper, HoldsPlain
<1>2. CASE i.op \in Operators
  <2>1. WellBoxed(JsResult(i.op, f.regs[i.l], f.regs[i.r]))
    <3> DEFINE l == f.regs[i.l]
               r == f.regs[i.r]
    <3>1. ~Coerces(i.op, l, r) /\ WellBoxed(l) /\ WellBoxed(r)
      <4>1. Plain(l) /\ Plain(r)
        BY <1>1
      <4> HIDE DEF l, r, i
      <4> QED BY <1>2, <4>1, PlainOperands DEF Plain
    <3> HIDE DEF l, r, i
    <3>2. WellBoxed(JsResult(i.op, l, r))
      BY <1>2, <3>1, JsResultBoxed
    <3> QED BY <3>2 DEF l, r
  <2>2. ~IsObject(JsResult(i.op, f.regs[i.l], f.regs[i.r]))
    BY <1>1, <1>2
       DEF Plain, Operators, JsResult, JsUnary, JsStep, JsArith, JsBitwise, MakeNumber, IsNumber,
           IsObject, Smi, Dbl, Bool, ArithOps, BitwiseOps, CompareOps, UnaryOps, StepOps
  <2>3. Value(p, f) = JsResult(i.op, f.regs[i.l], f.regs[i.r])
    BY <1>2 DEF Value, Operators, ArithOps, BitwiseOps, CompareOps, UnaryOps, StepOps
  <2> QED BY <2>1, <2>2, <2>3 DEF Plain
<1>3. CASE i.op = "GET_GLOBAL"
  <2>1. Value(p, f) = IF i.name \in DOMAIN f.env THEN f.env[i.name] ELSE f.outer[i.name]
    BY <1>3 DEF Value, Operators, ArithOps, BitwiseOps, CompareOps, UnaryOps, StepOps
  <2> QED BY <1>3, <2>1 DEF Proper, HoldsPlain
<1>4. CASE i.op \in LoadOps
  <2>1. Plain(Bool(TRUE)) /\ Plain(Bool(FALSE)) /\ Plain(Undef)
    BY DEF Plain, WellBoxed, IsObject, Bool, Undef
  <2>2. Value(p, f) \in {i.val, Bool(TRUE), Bool(FALSE), Undef, f.regs[i.l]}
    BY <1>4
       DEF Value, LoadOps, Operators, ArithOps, BitwiseOps, CompareOps, UnaryOps, StepOps
  <2> QED BY <1>1, <2>1, <2>2
<1> QED BY <1>2, <1>3, <1>4 DEF Computes

LEMMA GoesProper ==
    ASSUME NEW p \in DOMAIN Programs, NEW f, NEW g, Proper(p, f), Goes(p, f, g)
    PROVE  Proper(p, g)
<1> DEFINE i == Code(p)[f.pc]
<1>1. f.pc \in Offsets(p) /\ Plain(f.regs[i.l]) /\ Plain(Undef)
  BY LaidOut DEF Goes, Proper, HoldsPlain, Plain, WellBoxed, IsObject, Undef
<1>2. CASE Computing(p, f, g)
  <2>1. Plain(Value(p, f))
    BY <1>1, <1>2, ValuePlain DEF Computing
  <2>2. HoldsPlain(g.regs, Regs)
    BY <1>1, <1>2, <2>1, LaidOut DEF Computing, Proper, HoldsPlain
  <2> QED BY <1>2, <2>2 DEF Computing, SameVariables, SameEnd, Proper
<1>3. CASE Storing(p, f, g)
  <2>1. HoldsPlain(g.env, Owned(p)) /\ HoldsPlain(g.outer, DOMAIN g.outer)
    BY <1>1, <1>3 DEF Storing, Proper, HoldsPlain
  <2> QED BY <1>3, <2>1 DEF Storing, SameEnd, Proper
<1>4. CASE Moving(p, f, g)
  BY <1>4 DEF Moving, SameVariables, SameEnd, Proper
<1>5. CASE Stopping(p, f, g)
  BY <1>1, <1>5 DEF Stopping, SameVariables, Proper
<1> QED BY <1>2, <1>3, <1>4, <1>5 DEF Goes

\* In tidy code an assignment finds its variable.
LEMMA GoesBound ==
    ASSUME NEW p \in DOMAIN Programs, Tidy(p), NEW f, NEW g, Proper(p, f), Bound(f),
           Goes(p, f, g)
    PROVE  /\ Bound(g) /\ DOMAIN g.outer = DOMAIN f.outer
           /\ Code(p)[f.pc].op \in StoreOps =>
                Storing(p, f, g) /\ Code(p)[f.pc].name \in DOMAIN f.env \cup DOMAIN f.outer
<1> DEFINE i == Code(p)[f.pc]
<1>1. f.pc \in Offsets(p) /\ DOMAIN f.env = Owned(p)
  BY DEF Goes, Proper, HoldsPlain
<1>2. i.op \in StoreOps => i.name \in DOMAIN f.env \cup DOMAIN f.outer
  BY <1>1 DEF Tidy, TidyAt, Bound
<1>3. DOMAIN g.outer = DOMAIN f.outer
  <2>1. CASE Storing(p, f, g)
    BY <1>2, <2>1 DEF Storing
  <2>2. CASE ~Storing(p, f, g)
    BY <2>2 DEF Goes, Computing, Moving, Stopping, SameVariables
  <2> QED BY <2>1, <2>2
<1>4. i.op \in StoreOps => Storing(p, f, g)
  <2> SUFFICES ASSUME i.op \in StoreOps PROVE Storing(p, f, g)
    OBVIOUS
  <2>1. ~Computing(p, f, g)
    BY DEF Computing, Computes, StoreOps, LoadOps, Operators, ArithOps, BitwiseOps, CompareOps,
       UnaryOps, StepOps
  <2>2. ~Moving(p, f, g)
    BY DEF Moving, StoreOps, Jumps, JumpIfOps
  <2>3. ~Stopping(p, f, g)
    BY <1>2 DEF Stopping, StoreOps
  <2> QED BY <2>1, <2>2, <2>3 DEF Goes
<1> QED BY <1>2, <1>3, <1>4 DEF Bound

\* What an instruction of tidy code reads does not tell the frames apart.
LEMMA SourcesAgree ==
    ASSUME NEW p \in DOMAIN Programs, Tidy(p), NEW f, NEW g, Agree(p, f, g),
           f.pc \in Offsets(p), NEW r \in Sources(Code(p)[f.pc])
    PROVE  Same(f.regs[r], g.regs[r])
<1>1. r \in Regs
  BY LaidOut DEF Sources
<1>2. r \in Scratch(p) => r \in Fresh(p, f.pc, Computes)
  BY DEF Tidy, TidyAt
<1> QED BY <1>1, <1>2 DEF Agree, Alike

LEMMA ValueAgree ==
    ASSUME NEW p \in DOMAIN Programs, Tidy(p), NEW f, NEW g, Proper(p, f), Proper(p, g),
           Agree(p, f, g), f.pc \in Offsets(p), Code(p)[f.pc].op \in Computes,
           Code(p)[f.pc].op = "GET_GLOBAL" =>
              Code(p)[f.pc].name \in DOMAIN f.env \cup DOMAIN f.outer
    PROVE  Same(Value(p, f), Value(p, g))
<1> DEFINE i == Code(p)[f.pc]
<1>1. f.pc = g.pc /\ DOMAIN f.env = Owned(p) /\ DOMAIN g.env = Owned(p)
  BY DEF Agree, Proper, HoldsPlain
<1>2. /\ Plain(f.regs[i.l]) /\ Plain(f.regs[i.r])
      /\ Plain(g.regs[i.l]) /\ Plain(g.regs[i.r])
  BY LaidOut DEF Proper, HoldsPlain
<1>3. CASE i.op \in Operators
  <2>1. /\ i.op # "DIV"
    BY DEF Tidy, TidyAt
  <2>2. i.l \in Sources(i) /\ (i.op \notin UnaryOps => i.r \in Sources(i))
    BY <1>3 DEF Sources, Operators, ArithOps, BitwiseOps, CompareOps, UnaryOps, StepOps, StoreOps,
       JumpIfOps
  <2>3. /\ Same(f.regs[i.l], g.regs[i.l])
        /\ i.op \notin UnaryOps => Same(f.regs[i.r], g.regs[i.r])
    BY <2>2, SourcesAgree
  <2>4. Same(JsResult(i.op, f.regs[i.l], f.regs[i.r]), JsResult(i.op, g.regs[i.l], g.regs[i.r]))
    <3> DEFINE a == f.regs[i.l]
               b == f.regs[i.r]
               c == g.regs[i.l]
               d == g.regs[i.r]
               op == i.op
    <3>1. /\ Plain(a) /\ Plain(b) /\ Plain(c) /\ Plain(d) /\ op \in Operators \ {"DIV"}
          /\ Same(a, c) /\ (op \notin UnaryOps => Same(b, d))
      BY <1>2, <1>3, <2>1, <2>3
    <3> HIDE DEF a, b, c, d, op
    <3>2. Same(JsResult(op, a, b), JsResult(op, c, d))
      BY <3>1, SameResult
    <3> QED BY <3>2 DEF a, b, c, d, op
  <2>5. /\ Value(p, f) = JsResult(i.op, f.regs[i.l], f.regs[i.r])
        /\ Value(p, g) = JsResult(i.op, g.regs[i.l], g.regs[i.r])
    BY <1>1, <1>3 DEF Value, Operators, ArithOps, BitwiseOps, CompareOps, UnaryOps, StepOps
  <2> QED BY <2>4, <2>5
<1>4. CASE i.op = "GET_GLOBAL"
  <2>1. /\ Value(p, f) = IF i.name \in DOMAIN f.env THEN f.env[i.name] ELSE f.outer[i.name]
        /\ Value(p, g) = IF i.name \in DOMAIN g.env THEN g.env[i.name] ELSE g.outer[i.name]
    BY <1>1, <1>4 DEF Value, Operators, ArithOps, BitwiseOps, CompareOps, UnaryOps, StepOps
  <2> QED BY <1>1, <1>4, <2>1 DEF Agree, Alike
<1>5. CASE i.op = "MOVE"
  <2>1. Value(p, f) = f.regs[i.l] /\ Value(p, g) = g.regs[i.l]
    BY <1>1, <1>5 DEF Value, Operators, ArithOps, BitwiseOps, CompareOps, UnaryOps, StepOps
  <2>2. i.l \in Sources(i)
    BY <1>5 DEF Sources, Operators, ArithOps, BitwiseOps, CompareOps, UnaryOps, StepOps
  <2> QED BY <2>1, <2>2, SourcesAgree
<1>6. CASE i.op \in LoadOps \ {"MOVE"}
  <2>1. Value(p, f) = Value(p, g)
    BY <1>1, <1>6 DEF Value, LoadOps
  <2> QED BY <2>1 DEF Same
<1> QED BY <1>3, <1>4, <1>5, <1>6 DEF Computes

\* One step of each leaves them alike.
LEMMA GoesAgree ==
    ASSUME NEW p \in DOMAIN Programs, Tidy(p), NEW f, NEW f2, NEW g, NEW g2,
           Proper(p, f), Proper(p, g), Bound(f), Bound(g), Agree(p, f, g),
           Goes(p, f, f2), Goes(p, g, g2)
    PROVE  Agree(p, f2, g2)
<1> DEFINE i == Code(p)[f.pc]
           o == f.pc
<1>1. /\ o \in Offsets(p) /\ f.pc = g.pc
      /\ DOMAIN f.env = Owned(p) /\ DOMAIN g.env = Owned(p) /\ DOMAIN f.outer = DOMAIN g.outer
      /\ DOMAIN f.regs = Regs /\ DOMAIN g.regs = Regs
      /\ DOMAIN f2.outer = DOMAIN f.outer /\ DOMAIN g2.outer = DOMAIN g.outer
  BY GoesBound DEF Goes, Agree, Proper, HoldsPlain
<1>2. /\ \A n \in Owned(p) : Same(f.env[n], g.env[n])
      /\ \A n \in DOMAIN f.outer : Same(f.outer[n], g.outer[n])
      /\ \A r \in (Regs \ Scratch(p)) \cup Fresh(p, o, Computes) : Same(f.regs[r], g.regs[r])
      /\ f.status = g.status /\ Same(f.result, g.result)
  BY DEF Agree, Alike
<1>3. \A ops, r : r \in Fresh(p, o, ops) => r \in Regs
  BY DEF Fresh
<1> USE DEF SameVariables, SameEnd
<1>4. CASE i.op \in Computes /\ (i.op = "GET_GLOBAL" => i.name \in DOMAIN f.env \cup DOMAIN f.outer)
  <2>1. Computing(p, f, f2) /\ Computing(p, g, g2)
    <3>1. i.op \notin StoreOps \cup Jumps \cup {"HOIST_VAR", "RETURN", "RETURN_UNDEF"}
      BY <1>4 DEF Computes, StoreOps, LoadOps, Operators, ArithOps, BitwiseOps, CompareOps,
         UnaryOps, StepOps, Jumps, JumpIfOps
    <3> QED BY <1>1, <1>4, <3>1 DEF Goes, Storing, Moving, Stopping
  <2>2. Same(Value(p, f), Value(p, g))
    BY <1>1, <1>4, ValueAgree
  <2>3. \A r \in (Regs \ Scratch(p)) \cup Fresh(p, NextOf(p, o), Computes) :
           Same(f2.regs[r], g2.regs[r])
    <3> TAKE r \in (Regs \ Scratch(p)) \cup Fresh(p, NextOf(p, o), Computes)
    <3>1. r \in Regs
      BY DEF Fresh
    <3>2. r = i.d \/ r \in (Regs \ Scratch(p)) \cup Fresh(p, o, Computes)
      BY <1>1, FreshNext
    <3>3. /\ f2.regs[r] = IF r = i.d THEN Value(p, f) ELSE f.regs[r]
          /\ g2.regs[r] = IF r = i.d THEN Value(p, g) ELSE g.regs[r]
      BY <1>1, <2>1, <3>1 DEF Computing
    <3> QED BY <1>2, <2>2, <3>2, <3>3
  <2> QED BY <1>1, <1>2, <2>1, <2>3 DEF Computing, Agree, Alike
<1>5. CASE i.op = "GET_GLOBAL" /\ i.name \notin DOMAIN f.env \cup DOMAIN f.outer
  <2>1. Stopping(p, f, f2) /\ Stopping(p, g, g2)
    BY <1>1, <1>5 DEF Goes, Computing, Storing, Moving, StoreOps, Jumps, JumpIfOps
  <2>2. /\ f2.status = "threw" /\ g2.status = "threw" /\ f2.result = Undef /\ g2.result = Undef
    BY <1>1, <1>5, <2>1 DEF Stopping
  <2> QED BY <1>1, <1>2, <2>1, <2>2 DEF Stopping, Agree, Alike, Same
<1>6. CASE i.op \in StoreOps
  <2>1. Storing(p, f, f2) /\ Storing(p, g, g2)
    BY <1>1, <1>6, GoesBound
  <2>2. Same(f.regs[i.l], g.regs[i.l])
    BY <1>1, <1>6, SourcesAgree DEF Sources
  <2>3. /\ \A n \in Owned(p) : Same(f2.env[n], g2.env[n])
        /\ \A n \in DOMAIN f.outer : Same(f2.outer[n], g2.outer[n])
    <3> DEFINE v == f.regs[i.l]
               w == g.regs[i.l]
    <3>1. CASE i.name \in Owned(p)
      <4>1. /\ f2.env = [f.env EXCEPT ![i.name] = v] /\ f2.outer = f.outer
            /\ g2.env = [g.env EXCEPT ![i.name] = w] /\ g2.outer = g.outer
        BY <1>1, <2>1, <3>1 DEF Storing
      <4>2. Same(v, w)
        BY <2>2
      <4> HIDE DEF v, w
      <4> QED BY <1>1, <1>2, <4>1, <4>2
    <3>2. CASE i.name \notin Owned(p)
      <4> DEFINE S == DOMAIN f.outer \cup {i.name}
      <4>1. /\ f2.env = f.env /\ f2.outer = [n \in S |-> IF n = i.name THEN v ELSE f.outer[n]]
            /\ g2.env = g.env /\ g2.outer = [n \in S |-> IF n = i.name THEN w ELSE g.outer[n]]
        <5>1. f2.env = f.env /\ f2.outer = [n \in S |-> IF n = i.name THEN v ELSE f.outer[n]]
          BY <1>1, <2>1, <3>2 DEF Storing
        <5>2. /\ g2.env = g.env
              /\ g2.outer = [n \in DOMAIN g.outer \cup {i.name} |->
                               IF n = i.name THEN w ELSE g.outer[n]]
          BY <1>1, <2>1, <3>2 DEF Storing
        <5>3. DOMAIN g.outer = DOMAIN f.outer
          BY <1>1 DEF Agree
        <5> QED BY <5>1, <5>2, <5>3
      <4>2. Same(v, w)
        BY <2>2
      <4> HIDE DEF v, w
      <4> QED BY <1>1, <1>2, <4>1, <4>2
    <3> QED BY <3>1, <3>2
  <2>4. \A r \in Fresh(p, NextOf(p, o), Computes) : r \in Fresh(p, o, Computes)
    <3>1. i.op \notin Computes
      BY <1>6 DEF Computes, StoreOps, LoadOps, Operators, ArithOps, BitwiseOps, CompareOps,
         UnaryOps, StepOps
    <3> QED BY <1>1, <3>1, FreshNext
  <2> QED BY <1>1, <1>2, <2>1, <2>3, <2>4 DEF Storing, Agree, Alike
<1>7. CASE i.op \in Jumps \cup {"HOIST_VAR"}
  <2>1. Moving(p, f, f2) /\ Moving(p, g, g2)
    <3>1. i.op \notin StoreOps \cup Computes \cup {"RETURN", "RETURN_UNDEF", "GET_GLOBAL"}
      BY <1>7 DEF Computes, StoreOps, LoadOps, Operators, ArithOps, BitwiseOps, CompareOps,
         UnaryOps, StepOps, Jumps, JumpIfOps
    <3> QED BY <1>1, <3>1 DEF Goes, Computing, Storing, Stopping
  <2>2. i.op \in JumpIfOps => (ToBoolean(f.regs[i.l]) <=> ToBoolean(g.regs[i.l]))
    <3>1. i.op \in JumpIfOps => Same(f.regs[i.l], g.regs[i.l])
      BY <1>1, SourcesAgree DEF Sources
    <3>2. Plain(f.regs[i.l]) /\ Plain(g.regs[i.l])
      BY <1>1, LaidOut DEF Proper, HoldsPlain
    <3> QED BY <3>1, <3>2, SameSeen
  <2>3. Ahead(p, f) = Ahead(p, g)
    BY <1>1, <2>2 DEF Ahead
  <2>4. \A r \in Fresh(p, Ahead(p, f), Computes) : r \in Fresh(p, o, Computes)
    <3>1. CASE Ahead(p, f) = NextOf(p, o)
      <4>1. i.op \notin Computes
        BY <1>7 DEF Computes, LoadOps, Operators, ArithOps, BitwiseOps, CompareOps,
           UnaryOps, StepOps, Jumps, JumpIfOps
      <4> QED BY <1>1, <3>1, <4>1, FreshNext
    <3>2. CASE Ahead(p, f) # NextOf(p, o)
      <4>1. i.op \in Jumps /\ Ahead(p, f) = i.to
        BY <3>2 DEF Ahead, Jumps
      <4>2. Ahead(p, f) \in Targets(p)
        BY <1>1, <4>1, LaidOut
      <4> QED BY <4>2, FreshAtTarget
    <3> QED BY <3>1, <3>2
  <2> QED BY <1>1, <1>2, <2>1, <2>3, <2>4 DEF Moving, Agree, Alike
<1>8. CASE i.op \in {"RETURN", "RETURN_UNDEF"}
  <2>1. Stopping(p, f, f2) /\ Stopping(p, g, g2)
    <3>1. i.op \notin StoreOps \cup Computes \cup Jumps \cup {"HOIST_VAR"}
      BY <1>8 DEF Computes, StoreOps, LoadOps, Operators, ArithOps, BitwiseOps, CompareOps,
         UnaryOps, StepOps, Jumps, JumpIfOps
    <3> QED BY <1>1, <3>1 DEF Goes, Computing, Storing, Moving
  <2>2. i.op = "RETURN" => Same(f.regs[i.l], g.regs[i.l])
    BY <1>1, SourcesAgree DEF Sources
  <2>3. f2.status = "returned" /\ g2.status = "returned" /\ Same(f2.result, g2.result)
    BY <1>1, <1>8, <2>1, <2>2 DEF Stopping, StoreOps, Same
  <2> QED BY <1>1, <1>2, <2>1, <2>3 DEF Stopping, Agree, Alike
<1>9. \/ i.op \in Computes \cup StoreOps \cup Jumps \cup {"HOIST_VAR", "RETURN", "RETURN_UNDEF"}
  BY <1>1 DEF Goes, Computing, Storing, Moving, Stopping, Computes
<1> QED BY <1>4, <1>5, <1>6, <1>7, <1>8, <1>9

-----------------------------------------------------------------------------
(* Kernels.                                                                *)

LEMMA BoundedHasLast ==
    ASSUME NEW n \in Nat, NEW T \in SUBSET (1 .. n), T # {}
    PROVE  \E k \in T : \A j \in T : j <= k
<1> DEFINE Less == OpToRel(<, Nat)
           U == {n - k : k \in T}
<1>1. \A x, y \in Nat : <<x, y>> \in Less <=> x < y
  BY DEF OpToRel
<1>0. \A k \in T : k \in Nat /\ n - k \in Nat
  OBVIOUS
<1>2. U \subseteq Nat /\ U # {}
  BY <1>0
<1>3. PICK u \in U : \A y \in U : ~(<<y, u>> \in Less)
  <2> HIDE DEF U, Less
  <2>1. IsWellFoundedOn(Less, Nat)
    BY NatLessThanWellFounded DEF Less
  <2> QED BY <1>2, <2>1, WFMin
<1>4. \A y \in U : u <= y
  <2> HIDE DEF Less
  <2> TAKE y \in U
  <2>1. y \in Nat /\ u \in Nat /\ ~(y < u)
    BY <1>1, <1>2, <1>3
  <2> HIDE DEF U
  <2> QED BY <2>1
<1>5. PICK k \in T : u = n - k
  OBVIOUS
<1>6. \A j \in T : j <= k
  <2> TAKE j \in T
  <2>1. n - k <= n - j
    BY <1>4, <1>5
  <2> QED BY <1>0, <2>1
<1> QED BY <1>6

Foldable == {"ADD", "SUB", "MUL"}

\* What the kernel is told about a loop that is recognised.
LEMMA KernelSound ==
    ASSUME NEW p, NEW o, NEW t \in Kernel(p, o)
    PROVE  /\ Trunc0(t.limit.num) \in Safe /\ t.step \in Safe
           /\ t.cmp \in {"LT", "LE", "GT", "GE"} /\ Approaches(t.cmp, t.step)
           /\ \E n \in Nat : /\ DOMAIN t.accs = 1 .. n
                             /\ \A k \in 1 .. n : t.accs[k].op \in Foldable
<1> DEFINE c == Stripped[p][o]
<1>1. PICK accs \in 0 .. MaxAccs : t = Template(c, accs) /\ KernelAccepts(c, accs)
  BY DEF Kernel
<1> DEFINE k == 4 * accs + 4
<1> HIDE DEF c
<1>2. /\ IsTemplate(c, accs) /\ IntGuard(c[2].val) /\ Approaches(c[3].op, StepOf(c, k))
      /\ accs \in Nat
  BY <1>1, LoopsAssumption DEF KernelAccepts
<1>3. /\ t.limit = c[2].val /\ t.cmp = c[3].op /\ t.step = StepOf(c, k)
      /\ t.accs = [j \in 1 .. accs |-> [name |-> c[4 * j + 1].name, op |-> c[4 * j + 3].op]]
  BY <1>1 DEF Template
<1>4. c[3].op \in {"LT", "LE", "GT", "GE"}
  BY <1>2 DEF IsTemplate, IsGuard
<1>5. StepOf(c, k) \in Safe
  <2>0. 1 \in Safe /\ -1 \in Safe /\ \A x \in Safe : -x \in Safe
    BY WidthsAssumption DEF Safe
  <2>1. /\ IsUnitStep(c, k) \/ IsConstStep(c, k)
        /\ c[Len(c) - 1].op = "SET_GLOBAL"
    BY <1>2 DEF IsTemplate, IsStep
  <2> HIDE DEF k
  <2>2. CASE IsUnitStep(c, k)
    <3>1. k \in Nat
      BY <1>2 DEF k
    <3>2. c[k + 3].op = "SET_GLOBAL"
      BY <2>1, <2>2, <3>1 DEF IsUnitStep
    <3> QED BY <2>0, <2>2, <3>2 DEF IsUnitStep, StepOps, StepOf
  <2>3. CASE IsConstStep(c, k)
    BY <2>0, <2>3 DEF IsConstStep, IntGuard, StepOf
  <2> QED BY <2>1, <2>2, <2>3
<1>6. \A j \in 1 .. accs : c[4 * j + 3].op \in Foldable
  <2> TAKE j \in 1 .. accs
  <2>1. IsAcc(c, 4 * j)
    BY <1>2 DEF IsTemplate
  <2> QED BY <2>1 DEF IsAcc, Foldable
<1>7. \A j \in 1 .. accs : t.accs[j].op \in Foldable
  BY <1>3, <1>6
<1> QED BY <1>2, <1>3, <1>4, <1>5, <1>7 DEF IntGuard

\* While the limit is not reached the counter is exact, and so can only
\* leave the exact integers in its last step.
CounterNear == kernel.i \in Safe \/ kernel.i - kernel.t.step \in Safe

KernelOK ==
    /\ site \in BackEdges(prog) /\ kernel.t \in Kernel(prog, site)
    /\ kernel.i \in Int /\ CounterNear
    /\ DOMAIN kernel.s = DOMAIN kernel.t.accs
    /\ \A k \in DOMAIN kernel.s : kernel.s[k] \in F64

LEMMA CounterExact ==
    ASSUME KernelOK, CmpTrue PROVE kernel.i \in Safe
<1>1. /\ Trunc0(kernel.t.limit.num) \in Safe /\ kernel.t.step \in Safe
      /\ kernel.t.cmp \in {"LT", "LE", "GT", "GE"} /\ Approaches(kernel.t.cmp, kernel.t.step)
  BY KernelSound DEF KernelOK
<1> DEFINE m == Trunc0(kernel.t.limit.num)
           i == kernel.i
           s == kernel.t.step
<1> HIDE DEF m, i, s
<1>2. m \in Safe /\ s \in Safe /\ i \in Int /\ (i \in Safe \/ i - s \in Safe)
  BY <1>1 DEF KernelOK, CounterNear, m, i, s
<1>3. (i <= m /\ s > 0) \/ (i >= m /\ s < 0)
  <2> DEFINE op == kernel.t.cmp
  <2>1. IntCompare(op, i, m) /\ op \in {"LT", "LE", "GT", "GE"}
        /\ (op \in {"LT", "LE"} => s > 0) /\ (op \in {"GT", "GE"} => s < 0)
    BY <1>1 DEF CmpTrue, Approaches, m, i, s
  <2> HIDE DEF op
  <2>2. m \in Int /\ s \in Int
    BY <1>2, WidthsAssumption DEF Safe
  <2>3. CASE op = "LT"
    BY <1>2, <2>1, <2>2, <2>3 DEF IntCompare
  <2>4. CASE op = "LE"
    BY <1>2, <2>1, <2>2, <2>4 DEF IntCompare
  <2>5. CASE op = "GT"
    BY <1>2, <2>1, <2>2, <2>5 DEF IntCompare
  <2>6. CASE op = "GE"
    BY <1>2, <2>1, <2>2, <2>6 DEF IntCompare
  <2> QED BY <2>1, <2>3, <2>4, <2>5, <2>6
<1>4. i \in Safe
  BY <1>2, <1>3, WidthsAssumption DEF Safe
<1> QED BY <1>4 DEF i

\* What the kernel leaves in the variables.
LEMMA KernelLeaves ==
    ASSUME KernelOK, NEW n \in DOMAIN KernelValues PROVE Plain(KernelValues[n])
<1>1. Counter \in F64
  <2>1. kernel.t.step \in F64 /\ "ADD" \in ArithOps
    BY KernelSound DEF KernelOK, F64, ArithOps
  <2>2. kernel.i \in F64 \/ kernel.i - kernel.t.step \in F64
    BY DEF KernelOK, CounterNear, F64
  <2>3. kernel.i \notin Safe => kernel.i - kernel.t.step \in F64
    BY DEF KernelOK, CounterNear, F64
  <2> QED BY <2>1, <2>3, FloatAssumption DEF Counter, F64
<1> DEFINE T == {k \in DOMAIN kernel.s : kernel.t.accs[k].name = n}
           last == CHOOSE k \in DOMAIN kernel.s :
                      /\ kernel.t.accs[k].name = n
                      /\ \A j \in DOMAIN kernel.s : kernel.t.accs[j].name = n => j <= k
<1>2. n # kernel.t.ind => last \in DOMAIN kernel.s
  <2> SUFFICES ASSUME n # kernel.t.ind PROVE last \in DOMAIN kernel.s
    OBVIOUS
  <2>1. T # {}
    BY DEF KernelValues
  <2>2. PICK m \in Nat : DOMAIN kernel.s = 1 .. m
    BY KernelSound DEF KernelOK
  <2>3. PICK k \in T : \A j \in T : j <= k
    BY <2>1, <2>2, BoundedHasLast
  <2> QED BY <2>3
<1>3. KernelValues[n] = MakeNumber(IF n = kernel.t.ind THEN Counter ELSE kernel.s[last])
  BY DEF KernelValues
<1>4. (IF n = kernel.t.ind THEN Counter ELSE kernel.s[last]) \in F64
  <2> HIDE DEF last
  <2> QED BY <1>1, <1>2 DEF KernelOK
<1> QED BY <1>3, <1>4, SameMade DEF SameNumber

-----------------------------------------------------------------------------
(* Compiled loops.                                                         *)

\* A loop is the code between its backward jump and where that leads, and is
\* left by a jump.
LEMMA LoopIs ==
    ASSUME NEW p \in DOMAIN Programs, NEW o \in BackEdges(p)
    PROVE  /\ o \in Offsets(p) /\ Code(p)[o].op = "JMP" /\ Code(p)[o].to <= o
           /\ Region(p, o) = {x \in Offsets(p) : Code(p)[o].to <= x /\ x <= o}
           /\ \A q \in Region(p, o) :
                 /\ Loops[p][o][q] = Code(p)[q]
                 /\ Code(p)[q].op \notin Ending => NextOf(p, q) \in Region(p, o)
           /\ o \in DOMAIN Plans[p]
<1> DEFINE c == Code(p)
           S == {x \in DOMAIN c : c[x].op = "JMP" /\ c[x].to <= x}
           T == {x \in DOMAIN c : c[o].to <= x /\ x <= o}
<1>1. Loops[p] = [e \in S |-> [q \in {x \in DOMAIN c : c[e].to <= x /\ x <= e} |-> c[q]]]
  BY DEF Loops
<1>2. BackEdges(p) = S /\ Loops[p][o] = [q \in T |-> c[q]]
  BY <1>1 DEF BackEdges
<1>3. o \in Offsets(p) /\ c[o].op = "JMP" /\ c[o].to <= o
  BY <1>2 DEF Offsets
<1>4. Region(p, o) = T /\ \A q \in T : Loops[p][o][q] = c[q]
  BY <1>2 DEF Region
<1>5. ASSUME NEW q \in T, c[q].op \notin Ending PROVE NextOf(p, q) \in T
  <2>1. /\ q \in Offsets(p) /\ q \in Nat /\ o \in Nat /\ c[o].to \in Nat
        /\ NextOf(p, q) \in Offsets(p) /\ q < NextOf(p, q)
        /\ o <= q \/ NextOf(p, q) <= o
    BY <1>3, <1>5, LaidOut DEF Offsets, Jumps
  <2>2. q # o
    BY <1>3, <1>5 DEF Ending
  <2>3. NextOf(p, q) \in Nat
    BY <2>1, LaidOut
  <2>4. NextOf(p, q) <= o /\ c[o].to <= NextOf(p, q)
    BY <1>5, <2>1, <2>2, <2>3
  <2> QED BY <2>1, <2>4 DEF Offsets
<1>6. o \in DOMAIN Plans[p]
  BY DEF Plans
<1> QED BY <1>3, <1>4, <1>5, <1>6 DEF Offsets

\* What the analysis of a compiled loop has found.
LEMMA OsrAnalysed ==
    ASSUME NEW p \in DOMAIN Programs, NEW o \in BackEdges(p), Plans[p][o].osr,
           NEW q \in Region(p, o)
    PROVE  /\ q \in Offsets(p) /\ q \in Inside(p)
           /\ Code(p)[q].op \in OsrOps
           /\ Code(p)[q].op = "LOAD_K" => IntGuard(Code(p)[q].val)
           /\ Sources(Code(p)[q]) \subseteq Scratch(p)
           /\ Code(p)[q].op \in Computes => Code(p)[q].d \in Scratch(p)
           /\ Code(p)[q].op = "GET_GLOBAL" => Code(p)[q].name \in LoopNames(p, o)
           /\ Code(p)[q].op \in StoreOps => Code(p)[q].name \in Written(p, o)
<1>1. /\ OsrAccepts(Loops[p][o], o)
      /\ \A x \in Region(p, o) : x \in Offsets(p) /\ Loops[p][o][x] = Code(p)[x]
  BY LoopIs DEF Plans
<1>2. Region(p, o) = DOMAIN Loops[p][o]
  BY DEF Region
<1>3. \A x \in Region(p, o) : x \in Inside(p)
  BY DEF Inside
<1>4. \A x \in Region(p, o) : Code(p)[x].op \in Computes => Code(p)[x].d \in Scratch(p)
  BY <1>3 DEF Scratch
<1>5. /\ Code(p)[q].op \in OsrOps
      /\ Code(p)[q].op = "LOAD_K" => IntGuard(Code(p)[q].val)
  BY <1>1, <1>2 DEF OsrAccepts, ExactConst
<1>6. ASSUME NEW r \in Sources(Code(p)[q]) PROVE r \in Scratch(p)
  <2>1. CarriesNothing(Loops[p][o], q)
    BY <1>1, <1>2 DEF OsrAccepts
  <2>2. PICK k \in DOMAIN Loops[p][o] : Loops[p][o][k].op \in Computes /\ Loops[p][o][k].d = r
    BY <1>1, <1>6, <2>1 DEF CarriesNothing
  <2> QED BY <1>1, <1>2, <1>4, <2>2
<1>7. /\ Code(p)[q].op = "GET_GLOBAL" => Code(p)[q].name \in LoopNames(p, o)
      /\ Code(p)[q].op \in StoreOps => Code(p)[q].name \in Written(p, o)
  <2>1. \A ops : Code(p)[q].op \in ops => Code(p)[q].name \in NamesIn(Loops[p][o], ops)
    BY <1>1, <1>2 DEF NamesIn
  <2>2. Code(p)[q].op = "GET_GLOBAL" =>
           Code(p)[q].name \in NamesIn(Loops[p][o], StoreOps \cup {"GET_GLOBAL"})
    BY <2>1
  <2> QED BY <2>1, <2>2 DEF LoopNames, Written
<1> QED BY <1>1, <1>3, <1>4, <1>5, <1>6, <1>7

LEMMA WrittenIsOfLoop == ASSUME NEW p, NEW o PROVE Written(p, o) \subseteq LoopNames(p, o)
  BY DEF Written, LoopNames, NamesIn

-----------------------------------------------------------------------------
(* Types.                                                                  *)

Frames == Proper(prog, Real) /\ Proper(prog, Mirror)

\* A site is known, and what is counted of it.
Counts == /\ phase \in {"interp", "osr", "kernel", "replay"}
          /\ site \in BackEdges(prog) \cup {0}
          /\ hits \in [BackEdges(prog) -> 0 .. HotThreshold]
          /\ failures \in [BackEdges(prog) -> 0 .. DeoptThreshold]

\* Machine code is in its loop, or at an instruction to which the loop was left.
Compiled == /\ site \in BackEdges(prog) /\ plans[site].osr
            /\ npc \in Region(prog, site) \cup Targets(prog)
            /\ nregs \in [Regs -> Safe]
            /\ locals \in [LoopNames(prog, site) -> Safe]
            /\ Proper(prog, Kept)

TypeInv == /\ prog \in DOMAIN Programs /\ plans = Plans[prog]
           /\ Frames /\ Counts
           /\ phase = "osr" => Compiled
           /\ phase = "kernel" => KernelOK

LEMMA TypeInvTypes == TypeInv => TypeOK
<1> SUFFICES ASSUME TypeInv PROVE TypeOK
  OBVIOUS
<1>1. /\ \A r \in Regs : WellBoxed(regs[r])
      /\ \A n \in DOMAIN env : WellBoxed(env[n])
  BY DEF TypeInv, Frames, Proper, HoldsPlain, Plain, Real
<1>2. phase = "osr" => npc \in Offsets(prog)
  <2> SUFFICES ASSUME phase = "osr" PROVE npc \in Offsets(prog)
    OBVIOUS
  <2>1. site \in BackEdges(prog) /\ npc \in Region(prog, site) \cup Targets(prog)
    BY DEF TypeInv, Compiled
  <2>2. npc \in Region(prog, site) => npc \in Offsets(prog)
    BY <2>1, LoopIs DEF TypeInv
  <2>3. npc \in Targets(prog) => npc \in Offsets(prog)
    BY LaidOut DEF Targets, TypeInv
  <2> QED BY <2>1, <2>2, <2>3
<1> QED BY <1>1, <1>2 DEF TypeOK, TypeInv, Counts, Compiled, KernelOK

LEMMA InitTypeInv == Init => TypeInv
<1> SUFFICES ASSUME Init PROVE TypeInv
  OBVIOUS
<1>1. Plain(Undef) /\ \A v \in Arguments : Plain(v)
  BY ValuesAssumption, LoopsAssumption DEF Plain, WellBoxed, IsObject, Undef
<1>2. PICK args \in [Params(prog) -> Arguments] :
         env = [n \in Owned(prog) |-> IF n \in Params(prog) THEN args[n] ELSE Undef]
  BY DEF Init, InterpInit
<1>3. /\ prog \in DOMAIN Programs /\ phase = "interp" /\ plans = Plans[prog]
      /\ regs = [r \in Regs |-> Undef] /\ outer \in Scopes /\ result = Undef
      /\ iregs = regs /\ ienv = env /\ iouter = outer /\ iresult = result
  BY DEF Init, InterpInit
<1>4. HoldsPlain(env, Owned(prog))
  BY <1>1, <1>2 DEF HoldsPlain
<1>5. HoldsPlain(outer, DOMAIN outer)
  BY <1>3, ValuesAssumption, LoopsAssumption DEF HoldsPlain, Plain
<1>6. Frames
  BY <1>1, <1>3, <1>4, <1>5 DEF Frames, Proper, Real, Mirror, HoldsPlain
<1>7. Counts
  BY LoopsAssumption DEF Init, Counts
<1> QED BY <1>3, <1>6, <1>7 DEF TypeInv

\* Values of the variables of the loop are written back.
LEMMA WriteBackProper ==
    ASSUME prog \in DOMAIN Programs, Proper(prog, Real),
           NEW w, \A n \in DOMAIN w : Plain(w[n]), WriteBack(w),
           prog' = prog, UNCHANGED <<regs, result>>
    PROVE  Proper(prog, Real)'
<1>1. /\ HoldsPlain(env', DOMAIN env)
      /\ HoldsPlain(outer', DOMAIN outer)
  BY DEF WriteBack, Proper, Real, HoldsPlain
<1>2. /\ HoldsPlain(env', Owned(prog)) /\ HoldsPlain(outer', DOMAIN outer')
      /\ HoldsPlain(regs', Regs) /\ Plain(result')
  BY <1>1 DEF Proper, Real, HoldsPlain
<1>3. Owned(prog)' = Owned(prog)
  BY DEF Owned, Params, Names, Offsets, Code
<1> QED BY <1>2, <1>3 DEF Proper, Real, HoldsPlain

\* A step of a frame keeps it proper.
LEMMA FrameStep ==
    ASSUME prog \in DOMAIN Programs, prog' = prog
    PROVE  /\ Proper(prog, Real) /\ Goes(prog, Real, Real') => Proper(prog, Real)'
           /\ Proper(prog, Mirror) /\ Goes(prog, Mirror, Mirror') => Proper(prog, Mirror)'
           /\ Proper(prog, Real) /\ UNCHANGED <<regs, env, outer, result>> => Proper(prog, Real)'
           /\ Proper(prog, Mirror) /\ UNCHANGED aloneVars => Proper(prog, Mirror)'
<1>1. Proper(prog, Real)' = Proper(prog, Real') /\ Proper(prog, Mirror)' = Proper(prog, Mirror')
  BY DEF Proper, HoldsPlain, Owned, Params, Names, Offsets, Code
<1>2. /\ Proper(prog, Real) /\ Goes(prog, Real, Real') => Proper(prog, Real')
      /\ Proper(prog, Mirror) /\ Goes(prog, Mirror, Mirror') => Proper(prog, Mirror')
  BY GoesProper
<1>3. /\ Proper(prog, Real) /\ UNCHANGED <<regs, env, outer, result>> => Proper(prog, Real')
      /\ Proper(prog, Mirror) /\ UNCHANGED aloneVars => Proper(prog, Mirror')
  BY DEF Proper, Real, Mirror, aloneVars
<1> QED BY <1>1, <1>2, <1>3

LEMMA JumpIsStep ==
    /\ Jump => InterpNext /\ prog' = prog
    /\ Alone!Jump => Alone!InterpNext
  BY DEF InterpNext, Alone!InterpNext, Jump, Local

LEMMA LookedUp ==
    ASSUME Proper(prog, Real), NEW n, Resolves(n) PROVE Plain(Lookup(n))
  BY DEF Proper, Real, HoldsPlain, Resolves, Lookup

\* The second tier starts on what it may, or the failure is noted.
LEMMA FallbackType ==
    ASSUME TypeInv, NEW o \in BackEdges(prog), Fallback(o), prog' = prog
    PROVE  /\ phase' \in {"kernel", "interp"} /\ site' = o
           /\ failures' \in [BackEdges(prog) -> 0 .. DeoptThreshold]
           /\ phase' = "kernel" => KernelOK'
<1>1. CASE \E t \in plans[o].kernels : KernelEnters(t) /\ StartKernel(o, t)
  <2>1. PICK t \in plans[o].kernels : KernelEnters(t) /\ StartKernel(o, t)
    BY <1>1
  <2>2. /\ phase' = "kernel" /\ site' = o /\ failures' = failures
        /\ kernel' = [t |-> t, i |-> Trunc0(Lookup(t.ind).num),
                      s |-> [k \in DOMAIN t.accs |-> Lookup(t.accs[k].name).num]]
    BY <2>1 DEF StartKernel
  <2>3. t \in Kernel(prog, o)
    BY DEF TypeInv, Plans
  <2>4. Trunc0(Lookup(t.ind).num) \in Safe
    BY <2>1 DEF KernelEnters, IntGuard
  <2>5. \A k \in DOMAIN t.accs : Lookup(t.accs[k].name).num \in F64
    BY <2>1, LookedUp, NumberPayload DEF KernelEnters, TypeInv, Frames, Plain
  <2>6. Trunc0(Lookup(t.ind).num) \in Int
    BY <2>4, WidthsAssumption DEF Safe
  <2>7. KernelOK'
    <3> DEFINE i == Trunc0(Lookup(t.ind).num)
               s == [k \in DOMAIN t.accs |-> Lookup(t.accs[k].name).num]
    <3>1. kernel'.t = t /\ kernel'.i = i /\ kernel'.s = s
      BY <2>2
    <3>2. DOMAIN s = DOMAIN t.accs /\ \A k \in DOMAIN s : s[k] \in F64
      BY <2>5
    <3> HIDE DEF i, s
    <3>3. i \in Safe /\ i \in Int
      BY <2>4, <2>6 DEF i
    <3> QED BY <2>2, <2>3, <3>1, <3>2, <3>3 DEF KernelOK, CounterNear, BackEdges
  <2> QED BY <2>2, <2>7 DEF TypeInv, Counts
<1>2. CASE /\ phase' = "interp" /\ site' = o
           /\ failures' = [failures EXCEPT ![o] = IF @ < DeoptThreshold THEN @ + 1 ELSE @]
  BY <1>2, LoopsAssumption DEF TypeInv, Counts
<1> QED BY <1>1, <1>2 DEF Fallback

\* Machine code starts on integers.
LEMMA StartOsrType ==
    ASSUME TypeInv, NEW o \in BackEdges(prog), OsrEnters(o), StartOsr(o), Alone!Jump, prog' = prog,
           plans' = plans
    PROVE  Compiled' /\ phase' = "osr" /\ site' = o
<1>1. /\ npc' = Code(prog)[o].to /\ site' = o /\ plans[o].osr /\ phase' = "osr"
      /\ nregs' = [r \in Regs |-> 0]
      /\ locals' = [n \in LoopNames(prog, o) |-> Trunc0(Lookup(n).num)]
      /\ before' = [pc |-> ipc', regs |-> iregs, env |-> ienv, outer |-> iouter]
  BY DEF StartOsr, OsrEnters
<1>2. Code(prog)[o].to \in Targets(prog)
  BY LoopIs, LaidOut DEF TypeInv, Jumps
<1>3. nregs' \in [Regs -> Safe]
  BY <1>1, WidthsAssumption DEF Safe
<1>4. locals' \in [LoopNames(prog, o) -> Safe]
  BY <1>1 DEF OsrEnters, IntGuard
<1>5. Proper(prog, Kept)'
  <2>1. HoldsPlain(iregs, Regs) /\ HoldsPlain(ienv, Owned(prog)) /\ HoldsPlain(iouter, DOMAIN iouter)
        /\ Plain(iresult)
    BY DEF TypeInv, Frames, Proper, Mirror
  <2>2. iresult' = iresult
    BY DEF Alone!Jump, Alone!Running
  <2>3. Kept'.regs = iregs /\ Kept'.env = ienv /\ Kept'.outer = iouter /\ Kept'.result = iresult
    BY <1>1, <2>2 DEF Kept
  <2>4. Proper(prog, Kept')
    BY <2>1, <2>3 DEF Proper
  <2> QED BY <2>4 DEF Proper, HoldsPlain, Owned, Params, Names, Offsets, Code
<1> QED BY <1>1, <1>2, <1>3, <1>4, <1>5
        DEF Compiled, BackEdges, Region, Targets, LoopNames, Params, NamesIn, Offsets, Code
\* The interpreter alone makes a step that is not seen.
LEMMA OutOfSightType ==
    ASSUME TypeInv, OutOfSight, phase = "osr", phase' = "osr",
           npc' \in Region(prog, site) \cup Targets(prog),
           nregs' \in [Regs -> Safe], locals' \in [LoopNames(prog, site) -> Safe]
    PROVE  TypeInv'
<1>1. /\ prog' = prog /\ plans' = plans /\ site' = site /\ hits' = hits /\ failures' = failures
      /\ regs' = regs /\ env' = env /\ outer' = outer /\ result' = result /\ before' = before
  BY DEF OutOfSight, program, frameVars, siteVars
<1>2. Goes(prog, Mirror, Mirror')
  BY AloneGoes DEF OutOfSight, TypeInv, Frames
<1>3. Frames'
  BY <1>1, <1>2, FrameStep DEF TypeInv, Frames
<1>4. Proper(prog, Kept)'
  <2>1. /\ HoldsPlain(before.regs, Regs) /\ HoldsPlain(before.env, Owned(prog))
        /\ HoldsPlain(before.outer, DOMAIN before.outer)
    BY DEF TypeInv, Compiled, Proper, Kept
  <2>2. Plain(iresult')
    BY <1>3 DEF Frames, Proper, Mirror
  <2>3. Proper(prog, Kept')
    BY <1>1, <2>1, <2>2 DEF Proper, Kept
  <2> QED BY <1>1, <2>3 DEF Proper, HoldsPlain, Owned, Params, Names, Offsets, Code
<1>5. Compiled'
  BY <1>1, <1>4 DEF TypeInv, Compiled, BackEdges, Region, Targets, LoopNames, Params, NamesIn,
                    Offsets, Code
<1>6. Counts'
  BY <1>1 DEF TypeInv, Counts, BackEdges
<1> QED BY <1>1, <1>3, <1>5, <1>6 DEF TypeInv

\* Where the next instruction of a loop is.
LEMMA StaysInLoop ==
    ASSUME TypeInv, phase = "osr", npc \in Region(prog, site)
    PROVE  /\ NI.op # "JMP" => NextN \in Region(prog, site)
           /\ NI.op \in Jumps => NI.to \in Targets(prog)
           /\ NI.d \in Regs /\ NI.l \in Regs /\ NI.r \in Regs
           /\ nregs \in [Regs -> Safe] /\ X \in Safe /\ Y \in Safe
           /\ NI = Code(prog)[npc] /\ NextN = NextOf(prog, npc)
<1>1. /\ site \in BackEdges(prog) /\ npc \in Offsets(prog) /\ NI.op \in OsrOps
      /\ prog \in DOMAIN Programs
  BY LoopIs, OsrAnalysed DEF TypeInv, Compiled, NI
<1>2. NI.op # "JMP" => NI.op \notin Ending
  BY <1>1 DEF OsrOps, Ending, LoadOps, StoreOps, Jumps, JumpIfOps, IntLaneOps, BitwiseOps, StepOps,
              CompareOps
<1>3. NI = Code(prog)[npc] /\ NextN = NextOf(prog, npc)
  BY DEF NI, NextN, NextOf
<1>4. NI.op # "JMP" => NextN \in Region(prog, site)
  BY <1>1, <1>2, <1>3, LoopIs
<1>5. /\ NI.op \in Jumps => NI.to \in Targets(prog)
      /\ NI.d \in Regs /\ NI.l \in Regs /\ NI.r \in Regs
  BY <1>1, <1>3, LaidOut
<1>6. nregs \in [Regs -> Safe] /\ X \in Safe /\ Y \in Safe
  BY <1>5 DEF TypeInv, Compiled, X, Y
<1> QED BY <1>3, <1>4, <1>5, <1>6

\* What machine code computes fits.
LEMMA LoadedFits ==
    ASSUME TypeInv, phase = "osr", npc \in Region(prog, site), NI.op \in LoadOps
    PROVE  LoadedInt \in Safe
<1>1. X \in Safe /\ 0 \in Safe /\ 1 \in Safe
  BY StaysInLoop, WidthsAssumption DEF Safe
<1>2. NI.op = "LOAD_K" => Trunc0(NI.val.num) \in Safe
  BY OsrAnalysed DEF TypeInv, Compiled, NI, IntGuard
<1> QED BY <1>1, <1>2 DEF LoadedInt, LoadOps

LEMMA LaneFits ==
    ASSUME NEW op \in IntLaneOps, NEW x \in Safe, NEW y \in Safe, ~IntEscapes(op, x, y)
    PROVE  IntLaneResult(op, x, y) \in Safe
<1>1. Plain(MakeNumber(x)) /\ Plain(MakeNumber(y)) /\ Same(MakeNumber(x), MakeNumber(x))
      /\ Same(MakeNumber(y), MakeNumber(y))
  BY SameMade, IntOperand DEF SameNumber
<1> QED BY <1>1, LaneStands

LEMMA OsrStepType ==
    ASSUME TypeInv, OsrLoad \/ OsrOperate \/ OsrGet \/ OsrSet \/ OsrHoist \/ OsrJump
    PROVE  TypeInv'
<1>1. phase = "osr" /\ npc \in Region(prog, site) /\ OutOfSight /\ phase' = "osr"
  BY DEF OsrLoad, OsrOperate, OsrGet, OsrSet, OsrHoist, OsrJump, InLoop, Leaves
<1>2. locals \in [LoopNames(prog, site) -> Safe]
  BY <1>1 DEF TypeInv, Compiled
<1>3. npc' \in Region(prog, site) \cup Targets(prog)
  <2>1. CASE OsrJump
    BY <1>1, <2>1, StaysInLoop DEF OsrJump, InLoop
  <2>2. CASE ~OsrJump
    <3>1. npc' = NextN /\ NI.op # "JMP"
      BY <2>2 DEF OsrLoad, OsrOperate, OsrGet, OsrSet, OsrHoist, InLoop, Leaves, LoadOps, StoreOps,
                  IntLaneOps, BitwiseOps, StepOps, CompareOps
    <3> QED BY <1>1, <3>1, StaysInLoop
  <2> QED BY <2>1, <2>2
<1>4. nregs' \in [Regs -> Safe] /\ locals' \in [LoopNames(prog, site) -> Safe]
  <2>1. NI.d \in Regs /\ nregs \in [Regs -> Safe] /\ X \in Safe /\ Y \in Safe
    BY <1>1, StaysInLoop
  <2>2. CASE OsrLoad
    BY <1>1, <1>2, <2>1, <2>2, LoadedFits DEF OsrLoad, InLoop, Leaves
  <2>3. CASE OsrOperate
    BY <1>1, <1>2, <2>1, <2>3, LaneFits DEF OsrOperate, InLoop, Leaves
  <2>4. CASE OsrGet
    <3>1. NI.name \in LoopNames(prog, site)
      BY <1>1, <2>4, OsrAnalysed DEF TypeInv, Compiled, NI, OsrGet, InLoop
    <3> QED BY <1>1, <1>2, <2>1, <2>4, <3>1 DEF OsrGet, Leaves
  <2>5. CASE OsrSet
    BY <1>2, <2>1, <2>5 DEF OsrSet
  <2>6. CASE OsrHoist \/ OsrJump
    BY <1>2, <2>1, <2>6 DEF OsrHoist, OsrJump
  <2> QED BY <2>2, <2>3, <2>4, <2>5, <2>6
<1> QED BY <1>1, <1>3, <1>4, OutOfSightType

LEMMA DeoptType == ASSUME TypeInv, OsrDeopt PROVE TypeInv'
<1>1. /\ prog' = prog /\ plans' = plans /\ UNCHANGED frameVars /\ hits' = hits /\ Compiled
      /\ Fallback(site) /\ GoesBack
  BY DEF OsrDeopt, InLoop, program, TypeInv
<1>2. /\ phase' \in {"kernel", "interp"} /\ site' = site
      /\ failures' \in [BackEdges(prog) -> 0 .. DeoptThreshold]
      /\ phase' = "kernel" => KernelOK'
  BY <1>1, FallbackType DEF Compiled
<1>3. Proper(prog, Mirror)'
  <2>1. Proper(prog, Mirror')
    BY <1>1 DEF GoesBack, Compiled, Proper, Kept, Mirror
  <2> QED BY <1>1, <2>1 DEF Proper, HoldsPlain, Owned, Params, Names, Offsets, Code
<1>4. Frames'
  BY <1>1, <1>3, FrameStep DEF TypeInv, Frames, frameVars
<1>5. Counts'
  BY <1>1, <1>2 DEF TypeInv, Counts, BackEdges
<1> QED BY <1>1, <1>2, <1>4, <1>5 DEF TypeInv

LEMMA OsrExitType == ASSUME TypeInv, OsrExit PROVE TypeInv'
<1> DEFINE w == [n \in Written(prog, site) |-> MakeNumber(locals[n])]
<1>1. /\ prog' = prog /\ plans' = plans /\ UNCHANGED <<regs, result, aloneVars, siteVars, site>>
      /\ phase' = "interp" /\ WriteBack(w) /\ Compiled
  BY DEF OsrExit, program, TypeInv
<1>2. \A n \in DOMAIN w : Plain(w[n])
  <2> TAKE n \in DOMAIN w
  <2>1. locals[n] \in F64
    BY <1>1, WrittenIsOfLoop DEF Compiled, F64
  <2> QED BY <2>1, SameMade DEF SameNumber
<1>3. Frames'
  <2> HIDE DEF w
  <2> QED BY <1>1, <1>2, WriteBackProper, FrameStep DEF TypeInv, Frames
<1>4. Counts'
  BY <1>1 DEF TypeInv, Counts, BackEdges, siteVars
<1> QED BY <1>1, <1>3, <1>4 DEF TypeInv

LEMMA KernelType == ASSUME TypeInv, KernelStep \/ KernelExit PROVE TypeInv'
<1>1. /\ prog' = prog /\ plans' = plans /\ hits' = hits /\ failures' = failures /\ site' = site
      /\ UNCHANGED aloneVars /\ KernelOK /\ phase = "kernel"
  BY DEF KernelStep, KernelExit, program, siteVars, TypeInv
<1>2. CASE KernelStep
  <2>1. /\ kernel' = [kernel EXCEPT !.i = @ + kernel.t.step,
                                    !.s = [k \in DOMAIN @ |->
                                             FArith(kernel.t.accs[k].op, @[k], kernel.i)]]
        /\ phase' = "kernel" /\ UNCHANGED frameVars
    BY <1>1, <1>2 DEF KernelStep
  <2>2. kernel.i \in Safe /\ kernel.t.step \in Safe
    BY <1>1, <1>2, CounterExact, KernelSound DEF KernelStep, KernelOK
  <2>3. /\ kernel'.t = kernel.t /\ kernel'.i = kernel.i + kernel.t.step
        /\ DOMAIN kernel'.s = DOMAIN kernel.s
        /\ \A k \in DOMAIN kernel.s :
              kernel'.s[k] = FArith(kernel.t.accs[k].op, kernel.s[k], kernel.i)
    BY <2>1
  <2>4. KernelOK'
    <3> DEFINE i == kernel.i
               d == kernel.t.step
    <3>1. \A k \in DOMAIN kernel.s : kernel'.s[k] \in F64
      <4> TAKE k \in DOMAIN kernel.s
      <4>1. kernel.t.accs[k].op \in ArithOps
        BY <1>1, KernelSound DEF KernelOK, Foldable, ArithOps
      <4>2. kernel.s[k] \in F64 /\ kernel.i \in F64
        BY <1>1, <2>2 DEF KernelOK, F64
      <4> QED BY <2>3, <4>1, <4>2, FloatAssumption
    <3>2. i + d \in Int /\ (i + d) - d \in Safe
      <4>1. i \in Safe /\ d \in Safe
        BY <2>2
      <4> HIDE DEF i, d
      <4>2. i \in Int /\ d \in Int
        BY <4>1, WidthsAssumption DEF Safe
      <4>3. (i + d) - d = i
        BY <4>2
      <4> QED BY <4>1, <4>2, <4>3
    <3>3. kernel'.i = i + d /\ kernel'.t.step = d
      BY <2>3
    <3>4. kernel'.i \in Int /\ CounterNear'
      <4> HIDE DEF i, d
      <4> QED BY <3>2, <3>3 DEF CounterNear
    <3>5. site' \in BackEdges(prog)' /\ kernel'.t \in Kernel(prog, site)'
      BY <1>1, <2>3 DEF KernelOK, BackEdges, Kernel
    <3> QED BY <1>1, <2>3, <3>1, <3>4, <3>5 DEF KernelOK
  <2>5. Frames' /\ Counts'
    BY <1>1, <2>1, FrameStep DEF TypeInv, Frames, Counts, BackEdges, frameVars
  <2> QED BY <1>1, <2>1, <2>4, <2>5 DEF TypeInv
<1>3. CASE KernelExit
  <2>1. WriteBack(KernelValues) /\ phase' = "replay" /\ UNCHANGED <<regs, result>>
    BY <1>3 DEF KernelExit
  <2>2. Frames'
    BY <1>1, <2>1, KernelLeaves, WriteBackProper, FrameStep DEF TypeInv, Frames
  <2>3. Counts'
    BY <1>1, <2>1 DEF TypeInv, Counts, BackEdges
  <2> QED BY <1>1, <2>1, <2>2, <2>3 DEF TypeInv
<1> QED BY <1>2, <1>3

LEMMA InterpretType == ASSUME TypeInv, Interpret \/ Replay \/ Rejoin PROVE TypeInv'
<1>1. /\ prog' = prog /\ plans' = plans /\ hits' = hits /\ failures' = failures /\ site' = site
      /\ phase' \in {"interp", "replay"}
  BY RealGoes, AloneGoes
     DEF Interpret, Replay, Rejoin, program, siteVars, TypeInv, Frames
<1>2. Frames'
  <2>1. CASE Interpret
    BY <1>1, <2>1, RealGoes, AloneGoes, FrameStep DEF Interpret, TypeInv, Frames
  <2>2. CASE Replay
    BY <1>1, <2>2, AloneGoes, FrameStep DEF Replay, TypeInv, Frames
  <2>3. CASE Rejoin
    BY <1>1, <2>3, FrameStep DEF Rejoin, frameVars, TypeInv, Frames
  <2> QED BY <2>1, <2>2, <2>3
<1>3. Counts'
  BY <1>1 DEF TypeInv, Counts, BackEdges
<1> QED BY <1>1, <1>2, <1>3 DEF TypeInv

LEMMA BackEdgeType == ASSUME TypeInv, BackEdge PROVE TypeInv'
<1> DEFINE count == IF hits[pc] < HotThreshold THEN hits[pc] + 1 ELSE HotThreshold
<1>1. /\ Jump /\ Alone!Jump /\ plans' = plans /\ prog' = prog /\ phase = "interp"
      /\ pc \in BackEdges(prog) /\ hits' = [hits EXCEPT ![pc] = count]
  BY JumpIsStep DEF BackEdge
<1>2. Frames'
  BY <1>1, JumpIsStep, RealGoes, AloneGoes, FrameStep DEF TypeInv, Frames
<1>3. hits' \in [BackEdges(prog) -> 0 .. HotThreshold]
  <2>1. hits \in [BackEdges(prog) -> 0 .. HotThreshold] /\ hits[pc] \in 0 .. HotThreshold
    BY <1>1 DEF TypeInv, Counts
  <2>2. count \in 0 .. HotThreshold
    BY <2>1, LoopsAssumption
  <2> HIDE DEF count
  <2> QED BY <1>1, <2>1, <2>2
<1>4. /\ phase' \in {"interp", "osr", "kernel"} /\ site' \in BackEdges(prog) \cup {0}
      /\ failures' \in [BackEdges(prog) -> 0 .. DeoptThreshold]
      /\ phase' = "osr" => Compiled'
      /\ phase' = "kernel" => KernelOK'
  <2>1. CASE UNCHANGED <<phase, site, tierVars, failures, before>>
    BY <1>1, <2>1 DEF TypeInv, Counts
  <2>2. CASE OsrEnters(pc) /\ StartOsr(pc)
    <3>1. failures' = failures
      BY <2>2 DEF StartOsr
    <3> QED BY <1>1, <2>2, <3>1, StartOsrType DEF TypeInv, Counts
  <2>3. CASE Fallback(pc)
    BY <1>1, <2>3, FallbackType
  <2> QED BY <2>1, <2>2, <2>3 DEF BackEdge
<1>5. Counts'
  BY <1>1, <1>3, <1>4 DEF Counts, BackEdges
<1> QED BY <1>1, <1>2, <1>4, <1>5 DEF TypeInv

LEMMA TypeInvStep == TypeInv /\ [Next]_vars => TypeInv'
<1> SUFFICES ASSUME TypeInv, [Next]_vars PROVE TypeInv'
  OBVIOUS
<1>1. CASE Interpret \/ Replay \/ Rejoin
  BY <1>1, InterpretType
<1>2. CASE BackEdge
  BY <1>2, BackEdgeType
<1>3. CASE NativeStep
  BY <1>3, OsrStepType, DeoptType, OsrExitType, KernelType DEF NativeStep
<1>4. CASE UNCHANGED vars
  <2>1. Frames'
    BY <1>4, FrameStep DEF vars, program, frameVars, aloneVars, TypeInv, Frames
  <2>2. Counts'
    BY <1>4 DEF vars, program, siteVars, TypeInv, Counts, BackEdges
  <2>3. Compiled' = Compiled /\ KernelOK' = KernelOK
    BY <1>4 DEF vars, program, siteVars, tierVars, aloneVars, Compiled, KernelOK, CounterNear, Kept,
       Proper, HoldsPlain, BackEdges, Region, Targets, LoopNames, NamesIn, Owned, Params, Names,
       Offsets, Code, Kernel
  <2> QED BY <1>4, <2>1, <2>2, <2>3 DEF vars, program, TypeInv
<1> QED BY <1>1, <1>2, <1>3, <1>4 DEF Next

(* Whatever the program and however often each tier takes its loops over,  *)
(* is abandoned and is taken over again, the integers of machine code stay *)
(* within those that a double represents and within its loop, a kernel's   *)
(* accumulators stay doubles although its counter may leave the exact      *)
(* integers in its last step, what is written back is a value, and no site *)
(* is counted beyond its thresholds.                                       *)
THEOREM TypeCorrect == Spec => []TypeOK
<1>1. Spec => []TypeInv
  BY InitTypeInv, TypeInvStep, PTL DEF Spec
<1> QED BY <1>1, TypeInvTypes, PTL
-----------------------------------------------------------------------------
(* Loops in machine code.                                                  *)

\* What an integer variable of machine code is for the interpreter.
InMirror(n) == IF n \in DOMAIN ienv THEN ienv[n] ELSE iouter[n]

\* Machine code has gone as far as the interpreter alone, on integers that
\* stand for its values.  The real frame waits at the beginning of the loop;
\* what the loop does not write it shares with the interpreter.
InStep ==
    /\ status = "running" /\ npc = ipc
    /\ Agree(prog, Real, Kept)
    /\ \A n \in LoopNames(prog, site) :
          n \in DOMAIN ienv \cup DOMAIN iouter /\ Same(InMirror(n), MakeNumber(locals[n]))
    /\ Alike(env, ienv, Owned(prog) \ Written(prog, site))
    /\ Alike(outer, iouter, DOMAIN outer \ (Written(prog, site) \ Owned(prog)))
    /\ Alike(regs, iregs, Regs \ Scratch(prog))
    /\ \A r \in Fresh(prog, npc, Computes) : Stands(nregs[r], iregs[r])
    /\ \A r \in Fresh(prog, npc, IntOps) : IsNumber(iregs[r])

LoopInv == /\ pc \in Offsets(prog)
           /\ Bound(Real) /\ Bound(Mirror) /\ DOMAIN outer = DOMAIN iouter
           /\ phase = "interp" => Agree(prog, Real, Mirror)
           /\ phase = "osr" => InStep

\* Fresh from an integer is fresh.
LEMMA FreshOfInt == ASSUME NEW p, NEW o PROVE Fresh(p, o, IntOps) \subseteq Fresh(p, o, Computes)
<1>1. IntOps \subseteq Computes
  BY DEF IntOps, Computes, LoadOps, IntLaneOps, Operators, ArithOps, BitwiseOps, CompareOps,
         UnaryOps, StepOps
<1> QED BY <1>1 DEF Fresh

\* What code ahead may read, the frames agree on.
LEMMA AgreeShows ==
    ASSUME TypeInv, Tidy(prog), pc \in Offsets(prog), Agree(prog, Real, Mirror)
    PROVE  FramesAgree(Same)
<1>1. /\ pc = ipc /\ status = istatus /\ Same(result, iresult)
      /\ DOMAIN outer = DOMAIN iouter /\ DOMAIN env = Owned(prog) /\ DOMAIN ienv = Owned(prog)
      /\ \A n \in DOMAIN env : Same(env[n], ienv[n])
      /\ \A n \in DOMAIN outer : Same(outer[n], iouter[n])
      /\ \A r \in (Regs \ Scratch(prog)) \cup Fresh(prog, pc, Computes) : Same(regs[r], iregs[r])
  BY DEF Agree, Alike, Real, Mirror, TypeInv, Frames, Proper, HoldsPlain
<1>2. ASSUME NEW r \in Live[prog][pc]
      PROVE  r \in (Regs \ Scratch(prog)) \cup Fresh(prog, pc, Computes)
  <2> DEFINE c == Code(prog)
             LiveAt(o) == {x \in Regs : \E q \in DOMAIN c :
                  /\ q >= o /\ x \in Sources(c[q])
                  /\ \A k \in DOMAIN c : o <= k /\ k < q /\ c[k].op \in Computes => c[k].d # x}
  <2>1. prog \in DOMAIN Programs
    BY DEF TypeInv
  <2>2. Live[prog] = [o \in DOMAIN c |-> LiveAt(o)]
    BY <2>1 DEF Live
  <2>3. r \in LiveAt(pc)
    BY <2>2 DEF Offsets
  <2>4. PICK q \in Offsets(prog) :
           /\ q >= pc /\ r \in Sources(c[q])
           /\ \A k \in Offsets(prog) : pc <= k /\ k < q /\ c[k].op \in Computes => c[k].d # r
    BY <2>3 DEF Offsets
  <2>5. r \in Regs /\ pc <= q
    BY <2>1, <2>3, <2>4, LaidOut
  <2>6. r \in Scratch(prog) => r \in Fresh(prog, q, Computes)
    BY <2>4 DEF Tidy, TidyAt
  <2>7. r \in Scratch(prog) => r \in Fresh(prog, pc, Computes)
    BY <2>1, <2>4, <2>5, <2>6, FreshEarlier
  <2> QED BY <2>5, <2>7
<1> QED BY <1>1, <1>2 DEF FramesAgree

\* A step of a frame leads to an instruction.
LEMMA GoesOn ==
    ASSUME NEW p \in DOMAIN Programs, NEW f, NEW g, Goes(p, f, g) PROVE g.pc \in Offsets(p)
<1> DEFINE i == Code(p)[f.pc]
<1>1. f.pc \in Offsets(p) /\ (i.op \notin Ending => NextOf(p, f.pc) \in Offsets(p))
      /\ (i.op \in Jumps => i.to \in Offsets(p))
  BY LaidOut DEF Goes
<1>2. CASE Computing(p, f, g) \/ Storing(p, f, g)
  <2>1. i.op \notin Ending
    BY <1>2 DEF Computing, Storing, Computes, StoreOps, LoadOps, Operators, ArithOps, BitwiseOps,
       CompareOps, UnaryOps, StepOps, Ending
  <2> QED BY <1>1, <1>2, <2>1 DEF Computing, Storing
<1>3. CASE Moving(p, f, g)
  BY <1>1, <1>3 DEF Moving, Ahead, Ending, Jumps, JumpIfOps
<1>4. CASE Stopping(p, f, g)
  BY <1>1, <1>4 DEF Stopping
<1> QED BY <1>2, <1>3, <1>4 DEF Goes

\* A step of both frames in the interpreter.
LEMMA BothStep ==
    ASSUME TypeInv, LoopInv, Tidy(prog), phase = "interp", InterpNext, Alone!InterpNext
    PROVE  /\ pc' \in Offsets(prog) /\ Agree(prog, Real', Mirror')
           /\ Bound(Real') /\ Bound(Mirror') /\ DOMAIN outer' = DOMAIN iouter'
           /\ prog' = prog
<1>1. /\ Goes(prog, Real, Real') /\ Goes(prog, Mirror, Mirror') /\ prog' = prog
      /\ prog \in DOMAIN Programs
  BY RealGoes, AloneGoes DEF TypeInv, Frames
<1>2. Agree(prog, Real', Mirror')
  BY <1>1, GoesAgree DEF TypeInv, Frames, LoopInv
<1>3. Bound(Real') /\ Bound(Mirror')
  BY <1>1, GoesBound DEF TypeInv, Frames, LoopInv
<1>4. Real'.pc = pc' /\ Real'.outer = outer' /\ Mirror'.outer = iouter'
  BY DEF Real, Mirror
<1>5. pc' \in Offsets(prog)
  BY <1>1, <1>4, GoesOn
<1> QED BY <1>1, <1>2, <1>3, <1>4, <1>5 DEF Agree

\* The parts of InStep in the next state.
LEMMA MakesInStep ==
    ASSUME prog' = prog, NEW o, site' = o, status' = "running", npc' = ipc',
           Agree(prog, Real', Kept'),
           \A n \in LoopNames(prog, o) :
              /\ n \in DOMAIN ienv' \cup DOMAIN iouter'
              /\ Same(IF n \in DOMAIN ienv' THEN ienv'[n] ELSE iouter'[n], MakeNumber(locals'[n])),
           Alike(env', ienv', Owned(prog) \ Written(prog, o)),
           Alike(outer', iouter', DOMAIN outer' \ (Written(prog, o) \ Owned(prog))),
           Alike(regs', iregs', Regs \ Scratch(prog)),
           \A r \in Fresh(prog, npc', Computes) : Stands(nregs'[r], iregs'[r]),
           \A r \in Fresh(prog, npc', IntOps) : IsNumber(iregs'[r])
    PROVE  InStep'
<1>1. /\ LoopNames(prog, site)' = LoopNames(prog, o) /\ Written(prog, site)' = Written(prog, o)
      /\ Owned(prog)' = Owned(prog) /\ Scratch(prog)' = Scratch(prog)
      /\ Agree(prog, Real, Kept)' = Agree(prog, Real', Kept')
      /\ Fresh(prog, npc, Computes)' = Fresh(prog, npc', Computes)
      /\ Fresh(prog, npc, IntOps)' = Fresh(prog, npc', IntOps)
  OBVIOUS
<1>2. \A n \in LoopNames(prog, o) :
         (n \in DOMAIN ienv \cup DOMAIN iouter /\ Same(InMirror(n), MakeNumber(locals[n])))'
  BY DEF InMirror
<1>3. /\ Alike(env, ienv, Owned(prog) \ Written(prog, site))'
      /\ Alike(outer, iouter, DOMAIN outer \ (Written(prog, site) \ Owned(prog)))'
      /\ Alike(regs, iregs, Regs \ Scratch(prog))'
  BY <1>1 DEF Alike
<1> QED BY <1>1, <1>2, <1>3 DEF InStep

\* The loop is entered with integers that are the variables' values.
LEMMA EntersInStep ==
    ASSUME TypeInv, LoopInv, Tidy(prog), phase = "interp", NEW o \in BackEdges(prog), pc = o,
           OsrEnters(o), StartOsr(o), Jump, Alone!Jump
    PROVE  InStep'
<1>1. /\ prog' = prog /\ prog \in DOMAIN Programs /\ site' = o /\ npc' = Code(prog)[o].to
      /\ pc' = Code(prog)[o].to /\ ipc' = pc' /\ status' = "running"
      /\ Agree(prog, Real', Mirror')
  <2>1. Agree(prog, Real', Mirror') /\ prog' = prog
    BY BothStep, JumpIsStep
  <2>2. ipc' = pc'
    BY <2>1 DEF Agree, Real, Mirror
  <2> QED BY <2>1, <2>2 DEF Jump, At, Running, Instr, StartOsr, TypeInv
<1>2. /\ regs' = regs /\ env' = env /\ outer' = outer /\ result' = result /\ status' = status
      /\ iregs' = iregs /\ ienv' = ienv /\ iouter' = iouter
      /\ before' = [pc |-> ipc', regs |-> iregs, env |-> ienv, outer |-> iouter]
      /\ locals' = [n \in LoopNames(prog, o) |-> Trunc0(Lookup(n).num)]
  BY DEF Jump, Alone!Jump, Local, Running, Alone!Local, Alone!Running, StartOsr
<1>3. Kept' = Mirror'
  BY <1>2 DEF Kept, Mirror
<1>4. ASSUME NEW n \in LoopNames(prog, o)
      PROVE  n \in DOMAIN ienv \cup DOMAIN iouter /\ Same(InMirror(n), MakeNumber(locals'[n]))
  <2>1. Resolves(n) /\ IntGuard(Lookup(n)) /\ locals'[n] = Trunc0(Lookup(n).num)
    BY <1>2 DEF OsrEnters
  <2>2. Plain(Lookup(n))
    BY <2>1, LookedUp DEF TypeInv, Frames
  <2>3. n \in DOMAIN ienv \cup DOMAIN iouter /\ Plain(InMirror(n)) /\ Same(Lookup(n), InMirror(n))
    BY <2>1 DEF Resolves, Lookup, InMirror, LoopInv, Agree, Alike, Real, Mirror, TypeInv, Frames,
                Proper, HoldsPlain
  <2>4. Trunc0(Lookup(n).num) \in F64 /\ Same(Lookup(n), MakeNumber(Trunc0(Lookup(n).num)))
    BY <2>1, <2>2, GuardedStands DEF F64
  <2>5. Plain(MakeNumber(Trunc0(Lookup(n).num)))
    BY <2>4, SameMade DEF SameNumber
  <2> QED BY <2>1, <2>2, <2>3, <2>4, <2>5, SameBack, SameOn
<1>5. Fresh(prog, npc', Computes) = {} /\ Fresh(prog, npc', IntOps) = {}
  <2>1. npc' \in Targets(prog)
    BY <1>1, LoopIs, LaidOut DEF Jumps
  <2> QED BY <1>1, <2>1, FreshAtTarget
<1>6. /\ Alike(env, ienv, Owned(prog)) /\ Alike(outer, iouter, DOMAIN outer)
      /\ Alike(regs, iregs, Regs \ Scratch(prog))
  BY DEF LoopInv, Agree, Real, Mirror, Alike
<1> QED BY <1>1, <1>2, <1>3, <1>4, <1>5, <1>6, MakesInStep DEF InMirror, Alike

\* Where machine code is, the interpreter alone does not stop, and the real
\* frame waits.
LEMMA StepsAlong ==
    ASSUME TypeInv, LoopInv, Tidy(prog), phase = "osr", npc \in Region(prog, site), OutOfSight
    PROVE  /\ NI = Code(prog)[Mirror.pc] /\ NextN = NextOf(prog, Mirror.pc)
           /\ \/ Computing(prog, Mirror, Mirror') \/ Storing(prog, Mirror, Mirror')
              \/ Moving(prog, Mirror, Mirror')
           /\ Bound(Mirror') /\ DOMAIN iouter' = DOMAIN iouter
           /\ Agree(prog, Real', Kept') /\ prog' = prog /\ site' = site /\ status' = "running"
           /\ UNCHANGED <<pc, regs, env, outer>>
<1>1. /\ prog \in DOMAIN Programs /\ Compiled /\ InStep /\ plans = Plans[prog]
      /\ Proper(prog, Mirror)
  BY DEF TypeInv, LoopInv, Frames
<1>2. Goes(prog, Mirror, Mirror')
  BY <1>1, AloneGoes DEF OutOfSight
<1>3. NI = Code(prog)[Mirror.pc] /\ NextN = NextOf(prog, Mirror.pc)
  BY <1>1 DEF NI, NextN, NextOf, InStep, Mirror
<1>4. /\ Bound(Mirror') /\ DOMAIN Mirror'.outer = DOMAIN Mirror.outer
      /\ NI.op \in StoreOps => Storing(prog, Mirror, Mirror')
  BY <1>1, <1>2, <1>3, GoesBound DEF LoopInv
<1>5. ~Stopping(prog, Mirror, Mirror')
  <2>1. NI.op \in OsrOps
    BY <1>1, OsrAnalysed DEF Compiled, NI
  <2>2. NI.op \notin {"RETURN", "RETURN_UNDEF"}
    BY <2>1 DEF OsrOps, LoadOps, StoreOps, Jumps, JumpIfOps, IntLaneOps, BitwiseOps, StepOps,
                CompareOps
  <2>3. CASE NI.op \in StoreOps
    <3>1. NI.name \in DOMAIN Mirror.env \cup DOMAIN Mirror.outer
      BY <1>1, <1>2, <1>3, <2>3, GoesBound DEF LoopInv
    <3> QED BY <1>3, <2>2, <3>1 DEF Stopping
  <2>4. CASE NI.op = "GET_GLOBAL"
    <3>1. NI.name \in LoopNames(prog, site)
      BY <1>1, <2>4, OsrAnalysed DEF Compiled, NI
    <3> QED BY <1>1, <1>3, <2>2, <3>1 DEF Stopping, InStep, Mirror
  <2> QED BY <1>3, <2>2, <2>3, <2>4 DEF Stopping
<1>6. /\ prog' = prog /\ site' = site /\ status' = status /\ result' = result
      /\ UNCHANGED <<pc, regs, env, outer>> /\ before' = before
  BY DEF OutOfSight, program, frameVars
<1>7. istatus' = istatus /\ iresult' = iresult
  <2>1. Mirror'.status = Mirror.status /\ Mirror'.result = Mirror.result
    BY <1>2, <1>5 DEF Goes, Computing, Storing, Moving, SameEnd
  <2> QED BY <2>1 DEF Mirror
<1>8. Real' = Real /\ Kept' = Kept
  BY <1>6, <1>7 DEF Real, Kept
<1>9. DOMAIN iouter' = DOMAIN iouter
  BY <1>4 DEF Mirror
<1> QED BY <1>1, <1>2, <1>3, <1>4, <1>5, <1>6, <1>8, <1>9 DEF Goes, InStep

\* Machine code answers an integer that stands for the interpreter's answer.
LEMMA AnswersInStep ==
    ASSUME TypeInv, LoopInv, Tidy(prog), phase = "osr", npc \in Region(prog, site), OutOfSight,
           NI.op \in Computes, NEW n, nregs' = [nregs EXCEPT ![NI.d] = n], npc' = NextN,
           locals' = locals,
           Stands(n, Value(prog, Mirror)), NI.op \in IntOps => IsNumber(Value(prog, Mirror))
    PROVE  InStep'
<1> DEFINE v == Value(prog, Mirror)
<1>1. /\ prog \in DOMAIN Programs /\ Compiled /\ InStep /\ plans = Plans[prog]
      /\ DOMAIN iregs = Regs /\ DOMAIN nregs = Regs /\ NI.d \in Regs
  BY StaysInLoop DEF TypeInv, LoopInv, Frames, Proper, HoldsPlain, Mirror, Compiled
<1>2. /\ NI = Code(prog)[Mirror.pc] /\ NextN = NextOf(prog, Mirror.pc)
      /\ Agree(prog, Real', Kept') /\ prog' = prog /\ site' = site /\ status' = "running"
      /\ UNCHANGED <<regs, env, outer>>
  BY StepsAlong
<1>3. Computing(prog, Mirror, Mirror')
  <2>1. NI.op \notin StoreOps \cup Jumps \cup {"HOIST_VAR"}
    BY DEF Computes, StoreOps, LoadOps, Operators, ArithOps, BitwiseOps, CompareOps,
       UnaryOps, StepOps, Jumps, JumpIfOps
  <2> QED BY <1>2, <2>1, StepsAlong DEF Storing, Moving
<1>4. iregs' = [iregs EXCEPT ![NI.d] = v] /\ ipc' = NextN /\ ienv' = ienv /\ iouter' = iouter
  BY <1>2, <1>3 DEF Computing, SameVariables, Mirror
<1> HIDE DEF v
<1>5. \A r \in Regs : /\ iregs'[r] = IF r = NI.d THEN v ELSE iregs[r]
                      /\ nregs'[r] = IF r = NI.d THEN n ELSE nregs[r]
  BY <1>1, <1>4
<1>6. NI.d \in Scratch(prog)
  BY <1>1, OsrAnalysed DEF Compiled, NI
<1>7. npc = Mirror.pc /\ npc \in Offsets(prog) /\ NextN = NextOf(prog, npc) /\ NI = Code(prog)[npc]
  BY <1>1, <1>2, LoopIs DEF Mirror, InStep, Compiled
<1>8. ASSUME NEW r \in Fresh(prog, npc', Computes) PROVE Stands(nregs'[r], iregs'[r])
  <2>1. r \in Regs /\ (r = NI.d \/ r \in Fresh(prog, npc, Computes))
    BY <1>1, <1>7, FreshNext DEF Fresh
  <2> QED BY <1>1, <1>5, <2>1 DEF InStep, v
<1>9. ASSUME NEW r \in Fresh(prog, npc', IntOps) PROVE IsNumber(iregs'[r])
  <2>1. (NI.op \in IntOps /\ r = NI.d) \/ (r \in Fresh(prog, npc, IntOps) /\ r # NI.d)
    BY <1>1, <1>7, FreshNext
  <2>2. r \in Regs
    BY DEF Fresh
  <2> QED BY <1>1, <1>5, <2>1, <2>2 DEF InStep, v
<1>10. Alike(regs', iregs', Regs \ Scratch(prog))
  BY <1>1, <1>2, <1>5, <1>6 DEF InStep, Alike
<1>11. /\ Alike(env', ienv', Owned(prog) \ Written(prog, site))
       /\ Alike(outer', iouter', DOMAIN outer' \ (Written(prog, site) \ Owned(prog)))
  BY <1>1, <1>2, <1>4 DEF InStep, Alike
<1>12. \A m \in LoopNames(prog, site) :
          /\ m \in DOMAIN ienv' \cup DOMAIN iouter'
          /\ Same(IF m \in DOMAIN ienv' THEN ienv'[m] ELSE iouter'[m], MakeNumber(locals'[m]))
  BY <1>1, <1>4 DEF InStep, InMirror
<1> QED BY <1>2, <1>4, <1>8, <1>9, <1>10, <1>11, <1>12, MakesInStep

LEMMA LoadInStep ==
    ASSUME TypeInv, LoopInv, Tidy(prog), OsrLoad PROVE InStep'
<1>1. /\ phase = "osr" /\ npc \in Region(prog, site) /\ OutOfSight /\ NI.op \in LoadOps
      /\ nregs' = [nregs EXCEPT ![NI.d] = LoadedInt] /\ npc' = NextN /\ locals' = locals
  BY DEF OsrLoad, InLoop, Leaves
<1>2. /\ prog \in DOMAIN Programs /\ Compiled /\ InStep /\ plans = Plans[prog]
      /\ npc = Mirror.pc /\ NI = Code(prog)[npc] /\ npc \in Offsets(prog)
  BY <1>1, LoopIs DEF TypeInv, LoopInv, Compiled, InStep, Mirror, NI
<1>3. NI.op \in Computes
  BY <1>1 DEF Computes
<1>4. /\ Stands(LoadedInt, Value(prog, Mirror))
      /\ NI.op \in IntOps => IsNumber(Value(prog, Mirror))
  <2>1. CASE NI.op = "LOAD_K"
    <3>1. IntGuard(NI.val) /\ Plain(NI.val)
      BY <1>1, <1>2, <2>1, OsrAnalysed, LaidOut DEF Compiled
    <3>2. Value(prog, Mirror) = NI.val /\ LoadedInt = Trunc0(NI.val.num)
      BY <1>2, <2>1
         DEF Value, LoadedInt, Operators, ArithOps, BitwiseOps, CompareOps, UnaryOps, StepOps
    <3> QED BY <3>1, <3>2, GuardedStands DEF Stands, IntGuard
  <2>2. CASE NI.op \in {"LOAD_TRUE", "LOAD_FALSE", "LOAD_UNDEF"}
    <3>1. NI.op \notin IntOps
      BY <2>2 DEF IntOps, IntLaneOps, BitwiseOps, CompareOps, StepOps
    <3>2. /\ NI.op = "LOAD_TRUE" => Value(prog, Mirror) = Bool(TRUE) /\ LoadedInt = 1
          /\ NI.op = "LOAD_FALSE" => Value(prog, Mirror) = Bool(FALSE) /\ LoadedInt = 0
          /\ NI.op = "LOAD_UNDEF" => Value(prog, Mirror) = Undef /\ LoadedInt = 0
      BY <1>2, <2>2
         DEF Value, LoadedInt, Operators, ArithOps, BitwiseOps, CompareOps, UnaryOps, StepOps
    <3> QED BY <2>2, <3>1, <3>2 DEF Stands, Bool
  <2>3. CASE NI.op = "MOVE"
    <3>1. NI.op \notin IntOps
      BY <2>3 DEF IntOps, IntLaneOps, BitwiseOps, CompareOps, StepOps
    <3>2. NI.l \in Sources(NI)
      BY <2>3 DEF Sources, Operators, ArithOps, BitwiseOps, CompareOps, UnaryOps, StepOps
    <3>3. NI.l \in Fresh(prog, npc, Computes)
      BY <1>1, <1>2, <3>2, OsrAnalysed DEF Compiled, Tidy, TidyAt
    <3>4. Value(prog, Mirror) = iregs[NI.l] /\ LoadedInt = nregs[NI.l]
      BY <1>2, <2>3 DEF Value, LoadedInt, Operators, ArithOps, BitwiseOps, CompareOps, UnaryOps,
         StepOps, Mirror, X
    <3> QED BY <1>2, <3>1, <3>3, <3>4 DEF InStep
  <2> QED BY <1>1, <2>1, <2>2, <2>3 DEF LoadOps
<1> QED BY <1>1, <1>3, <1>4, AnswersInStep

LEMMA GetInStep ==
    ASSUME TypeInv, LoopInv, Tidy(prog), OsrGet PROVE InStep'
<1>1. /\ phase = "osr" /\ npc \in Region(prog, site) /\ OutOfSight /\ NI.op = "GET_GLOBAL"
      /\ nregs' = [nregs EXCEPT ![NI.d] = locals[NI.name]] /\ npc' = NextN /\ locals' = locals
  BY DEF OsrGet, InLoop, Leaves
<1>2. /\ prog \in DOMAIN Programs /\ Compiled /\ InStep /\ plans = Plans[prog]
      /\ npc = Mirror.pc /\ NI = Code(prog)[npc]
  BY <1>1 DEF TypeInv, LoopInv, InStep, Mirror, NI
<1>3. NI.op \in Computes
  BY <1>1 DEF Computes
<1>4. NI.name \in LoopNames(prog, site)
  BY <1>1, <1>2, OsrAnalysed DEF Compiled
<1>5. Value(prog, Mirror) = InMirror(NI.name)
  BY <1>1, <1>2 DEF Value, InMirror, Mirror, Operators, ArithOps, BitwiseOps, CompareOps, UnaryOps,
     StepOps
<1>6. Same(InMirror(NI.name), MakeNumber(locals[NI.name]))
  BY <1>2, <1>4 DEF InStep
<1>7. IsNumber(InMirror(NI.name))
  BY <1>6 DEF Same, MakeNumber, IsNumber, Smi, Dbl
<1> QED BY <1>1, <1>3, <1>5, <1>6, <1>7, AnswersInStep DEF Stands

\* An operand of the lane is the integer that the interpreter has.
LEMMA OperandsInStep ==
    ASSUME TypeInv, LoopInv, Tidy(prog), phase = "osr", npc \in Region(prog, site),
           NI.op \in StoreOps \cup Operators, NEW r \in Sources(NI)
    PROVE  r \in Regs /\ Plain(iregs[r]) /\ nregs[r] \in Safe /\ Same(iregs[r], MakeNumber(nregs[r]))
<1>1. /\ prog \in DOMAIN Programs /\ Compiled /\ InStep /\ plans = Plans[prog]
      /\ NI = Code(prog)[npc]
  BY DEF TypeInv, LoopInv, NI
<1>2. npc \in Offsets(prog) /\ npc \in Inside(prog)
  BY <1>1, OsrAnalysed DEF Compiled
<1>3. r \in Fresh(prog, npc, IntOps)
  BY <1>1, <1>2 DEF Tidy, TidyAt
<1>4. r \in Regs /\ r \in Fresh(prog, npc, Computes) /\ IsNumber(iregs[r])
  BY <1>1, <1>3, FreshOfInt DEF InStep, Fresh
<1>5. Plain(iregs[r]) /\ nregs[r] \in Safe
  BY <1>1, <1>4 DEF TypeInv, Frames, Proper, HoldsPlain, Mirror, Compiled
<1>6. Stands(nregs[r], iregs[r])
  BY <1>1, <1>4 DEF InStep
<1> QED BY <1>4, <1>5, <1>6 DEF Stands, IsNumber, Bool, Undef

LEMMA OperateInStep ==
    ASSUME TypeInv, LoopInv, Tidy(prog), OsrOperate PROVE InStep'
<1>1. /\ phase = "osr" /\ npc \in Region(prog, site) /\ OutOfSight /\ NI.op \in IntLaneOps
      /\ ~IntEscapes(NI.op, X, Y)
      /\ nregs' = [nregs EXCEPT ![NI.d] = IntLaneResult(NI.op, X, Y)] /\ npc' = NextN
      /\ locals' = locals
  BY DEF OsrOperate, InLoop, Leaves
<1>2. npc = Mirror.pc /\ NI = Code(prog)[npc]
  BY <1>1 DEF LoopInv, InStep, Mirror, NI
<1>3. NI.op \in Computes /\ NI.op \in Operators
  BY <1>1 DEF Computes, IntLaneOps, Operators, ArithOps, BitwiseOps, CompareOps, UnaryOps, StepOps
<1>4. NI.l \in Sources(NI) /\ (NI.op \notin UnaryOps => NI.r \in Sources(NI))
  BY <1>3 DEF Sources, Operators, ArithOps, BitwiseOps, CompareOps, UnaryOps, StepOps, StoreOps,
              JumpIfOps
<1> DEFINE l == iregs[NI.l]
           r == iregs[NI.r]
           op == NI.op
<1>5. Same(l, MakeNumber(X)) /\ (op \notin UnaryOps => Same(r, MakeNumber(Y)))
  BY <1>1, <1>3, <1>4, OperandsInStep DEF X, Y
<1>6. X \in Safe /\ Y \in Safe /\ Plain(l) /\ Plain(r) /\ op \in IntLaneOps /\ ~IntEscapes(op, X, Y)
  BY <1>1, StaysInLoop DEF TypeInv, Frames, Proper, HoldsPlain, Mirror
<1>7. Value(prog, Mirror) = JsResult(op, l, r)
  BY <1>2, <1>3 DEF Value, Operators, ArithOps, BitwiseOps, CompareOps, UnaryOps, StepOps, Mirror
<1> HIDE DEF l, r, op
<1>8. /\ Stands(IntLaneResult(op, X, Y), JsResult(op, l, r))
      /\ op \in IntOps => IsNumber(JsResult(op, l, r))
  BY <1>5, <1>6, LaneStands
<1>9. /\ Stands(IntLaneResult(NI.op, X, Y), Value(prog, Mirror))
      /\ NI.op \in IntOps => IsNumber(Value(prog, Mirror))
  BY <1>7, <1>8 DEF op
<1> QED BY <1>1, <1>3, <1>9, AnswersInStep

LEMMA SetInStep ==
    ASSUME TypeInv, LoopInv, Tidy(prog), OsrSet PROVE InStep'
<1> DEFINE m == NI.name
           v == iregs[NI.l]
<1>1. /\ phase = "osr" /\ npc \in Region(prog, site) /\ OutOfSight /\ NI.op \in StoreOps
      /\ locals' = [locals EXCEPT ![NI.name] = X] /\ npc' = NextN /\ nregs' = nregs
  BY DEF OsrSet, InLoop
<1>2. /\ prog \in DOMAIN Programs /\ Compiled /\ InStep /\ plans = Plans[prog]
      /\ npc = Mirror.pc /\ NI = Code(prog)[npc] /\ npc \in Offsets(prog)
      /\ DOMAIN ienv = Owned(prog) /\ DOMAIN locals = LoopNames(prog, site)
  BY <1>1, LoopIs
     DEF TypeInv, LoopInv, Compiled, InStep, Mirror, NI, Frames, Proper, HoldsPlain
<1>3. /\ NextN = NextOf(prog, npc) /\ Agree(prog, Real', Kept')
      /\ prog' = prog /\ site' = site /\ status' = "running"
      /\ UNCHANGED <<regs, env, outer>> /\ DOMAIN iouter' = DOMAIN iouter
  BY <1>1, <1>2, StepsAlong
<1>4. Storing(prog, Mirror, Mirror')
  <2>1. NI.op \notin Computes \cup Jumps \cup {"HOIST_VAR"}
    BY <1>1 DEF Computes, StoreOps, LoadOps, Operators, ArithOps, BitwiseOps, CompareOps,
       UnaryOps, StepOps, Jumps, JumpIfOps
  <2> QED BY <1>1, <1>2, <2>1, StepsAlong DEF Computing, Moving
<1>5. /\ ipc' = NextN /\ iregs' = iregs
      /\ \/ m \in DOMAIN ienv /\ iouter' = iouter /\ ienv' = [ienv EXCEPT ![m] = v]
         \/ /\ m \notin DOMAIN ienv /\ ienv' = ienv
            /\ iouter' = [n \in DOMAIN iouter \cup {m} |-> IF n = m THEN v ELSE iouter[n]]
  BY <1>2, <1>3, <1>4 DEF Storing, Mirror
<1>6. Same(v, MakeNumber(X)) /\ m \in Written(prog, site) /\ m \in LoopNames(prog, site)
  <2>1. NI.l \in Sources(NI)
    BY <1>1 DEF Sources
  <2> QED BY <1>1, <1>2, <2>1, OperandsInStep, OsrAnalysed, WrittenIsOfLoop DEF X, Compiled
<1> HIDE DEF m, v
<1>7. ASSUME NEW n \in LoopNames(prog, site)
      PROVE  /\ n \in DOMAIN ienv' \cup DOMAIN iouter'
             /\ Same(IF n \in DOMAIN ienv' THEN ienv'[n] ELSE iouter'[n], MakeNumber(locals'[n]))
  <2>1. n \in DOMAIN ienv \cup DOMAIN iouter /\ Same(InMirror(n), MakeNumber(locals[n]))
    BY <1>2 DEF InStep
  <2>2. locals'[n] = IF n = m THEN X ELSE locals[n]
    BY <1>1, <1>2 DEF m
  <2> QED BY <1>3, <1>5, <1>6, <2>1, <2>2 DEF InMirror
<1>8. Alike(env', ienv', Owned(prog) \ Written(prog, site))
  BY <1>2, <1>3, <1>5, <1>6 DEF InStep, Alike
<1>9. Alike(outer', iouter', DOMAIN outer' \ (Written(prog, site) \ Owned(prog)))
  <2>1. Alike(outer, iouter, DOMAIN outer \ (Written(prog, site) \ Owned(prog)))
        /\ DOMAIN outer = DOMAIN iouter
    BY <1>2 DEF InStep, LoopInv
  <2> QED BY <1>2, <1>3, <1>5, <1>6, <2>1 DEF Alike
<1>10. NI.op \notin Computes \cup IntOps
  BY <1>1 DEF Computes, StoreOps, LoadOps, Operators, ArithOps, BitwiseOps, CompareOps,
     UnaryOps, StepOps, IntOps, IntLaneOps
<1>11. /\ Fresh(prog, npc', Computes) \subseteq Fresh(prog, npc, Computes)
       /\ Fresh(prog, npc', IntOps) \subseteq Fresh(prog, npc, IntOps)
  BY <1>1, <1>2, <1>3, <1>10, FreshNext
<1>12. /\ \A r \in Fresh(prog, npc', Computes) : Stands(nregs'[r], iregs'[r])
       /\ \A r \in Fresh(prog, npc', IntOps) : IsNumber(iregs'[r])
       /\ Alike(regs', iregs', Regs \ Scratch(prog))
  BY <1>1, <1>2, <1>3, <1>5, <1>11 DEF InStep
<1> QED BY <1>1, <1>3, <1>5, <1>7, <1>8, <1>9, <1>12, MakesInStep

\* Machine code takes the branch that the interpreter takes.
LEMMA MoveInStep ==
    ASSUME TypeInv, LoopInv, Tidy(prog), OsrHoist \/ OsrJump PROVE InStep'
<1>1. /\ phase = "osr" /\ npc \in Region(prog, site) /\ OutOfSight
      /\ NI.op \in Jumps \cup {"HOIST_VAR"} /\ nregs' = nregs /\ locals' = locals
  BY DEF OsrHoist, OsrJump, InLoop
<1>2. /\ prog \in DOMAIN Programs /\ Compiled /\ InStep /\ plans = Plans[prog]
      /\ npc = Mirror.pc /\ NI = Code(prog)[npc] /\ npc \in Offsets(prog)
      /\ DOMAIN ienv = Owned(prog) /\ HoldsPlain(iregs, Regs)
  BY <1>1, LoopIs
     DEF TypeInv, LoopInv, Compiled, InStep, Mirror, NI, Frames, Proper, HoldsPlain
<1>3. /\ NextN = NextOf(prog, npc) /\ Agree(prog, Real', Kept')
      /\ prog' = prog /\ site' = site /\ status' = "running"
      /\ UNCHANGED <<regs, env, outer>>
  BY <1>1, <1>2, StepsAlong
<1>4. NI.op \notin Computes \cup IntOps \cup StoreOps
  BY <1>1 DEF Computes, StoreOps, LoadOps, Operators, ArithOps, BitwiseOps, CompareOps,
     UnaryOps, StepOps, IntOps, IntLaneOps, Jumps, JumpIfOps
<1>5. Moving(prog, Mirror, Mirror')
  BY <1>1, <1>2, <1>4, StepsAlong DEF Computing, Storing
<1>6. ipc' = Ahead(prog, Mirror) /\ iregs' = iregs /\ ienv' = ienv /\ iouter' = iouter
  BY <1>2, <1>5 DEF Moving, SameVariables, Mirror
<1>7. NI.op \in JumpIfOps => (X # 0 <=> ToBoolean(iregs[NI.l]))
  <2> SUFFICES ASSUME NI.op \in JumpIfOps PROVE X # 0 <=> ToBoolean(iregs[NI.l])
    OBVIOUS
  <2>1. NI.l \in Sources(NI)
    BY DEF Sources, JumpIfOps
  <2>2. NI.l \in Fresh(prog, npc, Computes) /\ NI.l \in Regs
    BY <1>1, <1>2, <2>1, OsrAnalysed DEF Compiled, Tidy, TidyAt, Fresh
  <2>3. Stands(X, iregs[NI.l]) /\ X \in Safe /\ Plain(iregs[NI.l])
    BY <1>2, <2>2 DEF InStep, X, Compiled, HoldsPlain
  <2> QED BY <2>3, GateStands
<1>8. /\ npc' = ipc'
      /\ npc' = NextN \/ npc' \in Targets(prog)
  <2>1. CASE OsrHoist
    BY <1>2, <1>3, <1>6, <2>1 DEF OsrHoist, InLoop, Ahead, JumpIfOps
  <2>2. CASE OsrJump
    <3>1. npc' = IF NI.op = "JMP" \/ (X # 0 <=> NI.op = "JMP_IF_TRUE") THEN NI.to ELSE NextN
      BY <2>2 DEF OsrJump
    <3>2. NI.op \in Jumps
      BY <2>2 DEF OsrJump, InLoop
    <3>3. ipc' = IF \/ NI.op = "JMP"
                    \/ NI.op \in JumpIfOps /\ (ToBoolean(iregs[NI.l]) <=> NI.op = "JMP_IF_TRUE")
                 THEN NI.to ELSE NextN
      BY <1>2, <1>3, <1>6 DEF Ahead, Mirror
    <3>4. npc' = ipc'
      <4>1. CASE NI.op = "JMP"
        BY <3>1, <3>3, <4>1
      <4>2. CASE NI.op \in JumpIfOps
        BY <1>7, <3>1, <3>3, <4>2 DEF JumpIfOps
      <4> QED BY <3>2, <4>1, <4>2 DEF Jumps
    <3>5. NI.to \in Targets(prog)
      BY <1>2, <3>2, LaidOut
    <3> QED BY <3>1, <3>4, <3>5
  <2> QED BY <2>1, <2>2
<1>9. /\ Fresh(prog, npc', Computes) \subseteq Fresh(prog, npc, Computes)
      /\ Fresh(prog, npc', IntOps) \subseteq Fresh(prog, npc, IntOps)
  <2>1. CASE npc' = NextN
    BY <1>2, <1>3, <1>4, <2>1, FreshNext
  <2>2. CASE npc' \in Targets(prog)
    BY <1>2, <2>2, FreshAtTarget
  <2> QED BY <1>8, <2>1, <2>2
<1>10. /\ \A r \in Fresh(prog, npc', Computes) : Stands(nregs'[r], iregs'[r])
       /\ \A r \in Fresh(prog, npc', IntOps) : IsNumber(iregs'[r])
       /\ Alike(regs', iregs', Regs \ Scratch(prog))
       /\ Alike(env', ienv', Owned(prog) \ Written(prog, site))
       /\ Alike(outer', iouter', DOMAIN outer' \ (Written(prog, site) \ Owned(prog)))
  BY <1>1, <1>2, <1>3, <1>6, <1>9 DEF InStep
<1>11. \A n \in LoopNames(prog, site) :
          /\ n \in DOMAIN ienv' \cup DOMAIN iouter'
          /\ Same(IF n \in DOMAIN ienv' THEN ienv'[n] ELSE iouter'[n], MakeNumber(locals'[n]))
  BY <1>1, <1>2, <1>6 DEF InStep, InMirror
<1> QED BY <1>3, <1>8, <1>10, <1>11, MakesInStep

\* While machine code runs, the real frame waits.
LEMMA InStepGoesOn ==
    ASSUME TypeInv, LoopInv, Tidy(prog),
           OsrLoad \/ OsrOperate \/ OsrGet \/ OsrSet \/ OsrHoist \/ OsrJump
    PROVE  LoopInv'
<1>1. InStep'
  BY LoadInStep, OperateInStep, GetInStep, SetInStep, MoveInStep
<1>2. phase = "osr" /\ npc \in Region(prog, site) /\ OutOfSight /\ phase' = "osr"
  BY DEF OsrLoad, OsrOperate, OsrGet, OsrSet, OsrHoist, OsrJump, InLoop, Leaves
<1>3. /\ Bound(Mirror') /\ DOMAIN iouter' = DOMAIN iouter /\ prog' = prog
      /\ UNCHANGED <<pc, regs, env, outer>>
  BY <1>2, StepsAlong
<1>4. Bound(Real)' /\ Bound(Mirror)' /\ DOMAIN outer' = DOMAIN iouter'
  BY <1>3 DEF LoopInv, Bound, Real
<1>5. pc' \in Offsets(prog)'
  BY <1>3 DEF LoopInv, Offsets, Code
<1> QED BY <1>1, <1>2, <1>4, <1>5 DEF LoopInv

\* Where the loop is left, what is written back is what the interpreter has.
LEMMA ExitAgrees == ASSUME TypeInv, LoopInv, OsrExit PROVE LoopInv'
<1> DEFINE W == Written(prog, site)
           w == [n \in W |-> MakeNumber(locals[n])]
<1>1. /\ phase = "osr" /\ npc \notin Region(prog, site) /\ WriteBack(w)
      /\ pc' = npc /\ phase' = "interp" /\ prog' = prog
      /\ UNCHANGED <<regs, status, result, ipc, iregs, ienv, iouter, istatus, iresult>>
  BY DEF OsrExit, program, aloneVars
<1>2. /\ prog \in DOMAIN Programs /\ Compiled /\ InStep
      /\ HoldsPlain(env, Owned(prog)) /\ HoldsPlain(ienv, Owned(prog))
      /\ HoldsPlain(iouter, DOMAIN iouter) /\ DOMAIN outer = DOMAIN iouter
  BY <1>1 DEF TypeInv, LoopInv, Frames, Proper, Real, Mirror
<1>3. npc \in Targets(prog)
  BY <1>1, <1>2 DEF Compiled
<1>4. npc \in Offsets(prog) /\ Fresh(prog, npc, Computes) = {}
  BY <1>2, <1>3, FreshAtTarget, LaidOut DEF Targets
<1>5. DOMAIN w = W /\ \A n \in W : w[n] = MakeNumber(locals[n])
  OBVIOUS
<1>6. ASSUME NEW n \in W
      PROVE  /\ n \in Owned(prog) => Same(w[n], ienv[n])
             /\ n \in DOMAIN outer \ Owned(prog) => Same(w[n], iouter[n])
  <2>1. n \in LoopNames(prog, site)
    BY WrittenIsOfLoop
  <2>2. Same(InMirror(n), MakeNumber(locals[n])) /\ locals[n] \in F64
    BY <1>2, <2>1 DEF InStep, Compiled, F64
  <2>3. Plain(MakeNumber(locals[n]))
    BY <2>2, SameMade DEF SameNumber
  <2>4. Plain(InMirror(n)) => Same(MakeNumber(locals[n]), InMirror(n))
    BY <2>2, <2>3, SameBack
  <2>5. n \in Owned(prog) => InMirror(n) = ienv[n] /\ Plain(ienv[n])
    BY <1>2 DEF InMirror, HoldsPlain
  <2>6. n \in DOMAIN outer \ Owned(prog) => InMirror(n) = iouter[n] /\ Plain(iouter[n])
    BY <1>2 DEF InMirror, HoldsPlain
  <2> QED BY <2>4, <2>5, <2>6
<1> HIDE DEF w
<1>7. /\ env' = [n \in DOMAIN env |-> IF n \in W THEN w[n] ELSE env[n]]
      /\ outer' = [n \in DOMAIN outer |-> IF n \in W \ DOMAIN env THEN w[n] ELSE outer[n]]
  BY <1>1, <1>5 DEF WriteBack
<1>8. /\ Alike(env, ienv, Owned(prog) \ W)
      /\ Alike(outer, iouter, DOMAIN outer \ (W \ Owned(prog)))
      /\ Alike(regs, iregs, Regs \ Scratch(prog))
      /\ npc = ipc /\ status = istatus /\ Same(result, iresult)
  BY <1>2 DEF InStep, Agree, Real, Kept
<1>9. Alike(env', ienv', Owned(prog))
  BY <1>1, <1>2, <1>6, <1>7, <1>8 DEF Alike, HoldsPlain
<1>10. DOMAIN outer' = DOMAIN outer /\ Alike(outer', iouter', DOMAIN outer')
  BY <1>1, <1>2, <1>6, <1>7, <1>8 DEF Alike, HoldsPlain
<1>11. Agree(prog, Real', Mirror')
  BY <1>1, <1>2, <1>4, <1>8, <1>9, <1>10 DEF Agree, Real, Mirror
<1>12. Agree(prog, Real, Mirror)' /\ pc' \in Offsets(prog)'
  BY <1>1, <1>4, <1>11 DEF Agree, Alike, Offsets, Owned, Params, Names, Code, Scratch, Fresh, Inside,
     Targets, BackEdges, Region
<1>13. Bound(Real)' /\ Bound(Mirror)' /\ DOMAIN outer' = DOMAIN iouter'
  BY <1>1, <1>2, <1>10 DEF LoopInv, Bound, Real, Mirror
<1> QED BY <1>1, <1>12, <1>13 DEF LoopInv

\* Where machine code is abandoned, both are where it was entered.
LEMMA DeoptAgrees == ASSUME TypeInv, LoopInv, OsrDeopt PROVE LoopInv'
<1>1. /\ phase = "osr" /\ GoesBack /\ Fallback(site) /\ prog' = prog
      /\ UNCHANGED <<pc, regs, env, outer, status, result>>
  BY DEF OsrDeopt, InLoop, program, frameVars
<1>2. phase' # "osr"
  BY <1>1 DEF Fallback, StartKernel
<1>3. InStep
  BY <1>1 DEF LoopInv
<1>4. Real' = Real /\ Mirror' = Kept
  BY <1>1 DEF GoesBack, Real, Mirror, Kept
<1>5. Agree(prog, Real', Mirror')
  BY <1>3, <1>4 DEF InStep
<1>6. /\ Agree(prog, Real, Mirror)' /\ pc' \in Offsets(prog)'
  BY <1>1, <1>5 DEF LoopInv
<1>7. DOMAIN Kept.outer = DOMAIN outer
  BY <1>3 DEF InStep, Agree, Real
<1>8. Bound(Real') /\ Bound(Mirror') /\ DOMAIN outer' = DOMAIN iouter'
  BY <1>1, <1>4, <1>7 DEF LoopInv, Bound, Real, Mirror
<1>9. Bound(Real)' /\ Bound(Mirror)'
  BY <1>8
<1> QED BY <1>2, <1>6, <1>8, <1>9 DEF LoopInv

\* In the interpreter.
LEMMA InterpretAgrees == ASSUME TypeInv, LoopInv, Tidy(prog), Interpret PROVE LoopInv'
<1>1. phase = "interp" /\ phase' = "interp" /\ InterpNext /\ Alone!InterpNext
  BY DEF Interpret
<1>2. /\ pc' \in Offsets(prog) /\ Agree(prog, Real', Mirror')
      /\ Bound(Real') /\ Bound(Mirror') /\ DOMAIN outer' = DOMAIN iouter' /\ prog' = prog
  BY <1>1, BothStep
<1>3. pc' \in Offsets(prog)' /\ Agree(prog, Real, Mirror)' /\ Bound(Real)' /\ Bound(Mirror)'
  BY <1>2
<1> QED BY <1>1, <1>2, <1>3 DEF LoopInv

LEMMA BackEdgeAgrees == ASSUME TypeInv, LoopInv, Tidy(prog), BackEdge PROVE LoopInv'
<1>1. /\ phase = "interp" /\ pc \in BackEdges(prog) /\ Jump /\ Alone!Jump
      /\ InterpNext /\ Alone!InterpNext
  BY JumpIsStep DEF BackEdge
<1>2. /\ pc' \in Offsets(prog) /\ Agree(prog, Real', Mirror')
      /\ Bound(Real') /\ Bound(Mirror') /\ DOMAIN outer' = DOMAIN iouter' /\ prog' = prog
  BY <1>1, BothStep
<1>3. pc' \in Offsets(prog)' /\ Agree(prog, Real, Mirror)' /\ Bound(Real)' /\ Bound(Mirror)'
  BY <1>2
<1>4. phase' = "osr" => InStep'
  <2>1. phase' = "osr" => OsrEnters(pc) /\ StartOsr(pc)
    BY <1>1 DEF BackEdge, Fallback, StartKernel
  <2> QED BY <1>1, <2>1, EntersInStep
<1> QED BY <1>2, <1>3, <1>4 DEF LoopInv

\* Until a kernel runs, only machine code and the interpreter do.
WithoutKernel == phase \in {"interp", "osr"}

LEMMA InitLoopInv == Init => LoopInv /\ WithoutKernel
<1> SUFFICES ASSUME Init PROVE LoopInv /\ WithoutKernel
  OBVIOUS
<1>1. /\ prog \in DOMAIN Programs /\ phase = "interp" /\ pc = 0 /\ outer \in Scopes
      /\ ipc = pc /\ iregs = regs /\ ienv = env /\ iouter = outer
      /\ istatus = status /\ iresult = result
  BY DEF Init, InterpInit
<1>2. pc \in Offsets(prog)
  BY <1>1, LayoutAssumption
<1>3. Real = Mirror /\ Bound(Real)
  BY <1>1 DEF Real, Mirror, Bound
<1>4. Agree(prog, Real, Mirror)
  BY <1>3 DEF Agree, Alike, Same
<1> QED BY <1>1, <1>2, <1>3, <1>4 DEF LoopInv, WithoutKernel

LEMMA LoopInvStep ==
    ASSUME TypeInv, LoopInv, WithoutKernel, Tidy(prog), [Next]_vars, phase' # "kernel"
    PROVE  LoopInv' /\ WithoutKernel'
<1>1. CASE Interpret
  BY <1>1, InterpretAgrees DEF Interpret, WithoutKernel
<1>2. CASE BackEdge
  <2>1. phase' \in {"interp", "osr", "kernel"}
    BY <1>2 DEF BackEdge, Fallback, StartKernel, StartOsr
  <2> QED BY <1>2, <2>1, BackEdgeAgrees DEF WithoutKernel
<1>3. CASE OsrLoad \/ OsrOperate \/ OsrGet \/ OsrSet \/ OsrHoist \/ OsrJump
  <2>1. phase' = phase
    BY <1>3 DEF OsrLoad, OsrOperate, OsrGet, OsrSet, OsrHoist, OsrJump, Leaves
  <2> QED BY <1>3, <2>1, InStepGoesOn DEF WithoutKernel
<1>4. CASE OsrDeopt
  <2>1. phase' \in {"interp", "kernel"}
    BY <1>4 DEF OsrDeopt, Fallback, StartKernel
  <2> QED BY <1>4, <2>1, DeoptAgrees DEF WithoutKernel
<1>5. CASE OsrExit
  BY <1>5, ExitAgrees DEF OsrExit, WithoutKernel
<1>6. ~(KernelStep \/ KernelExit \/ Replay \/ Rejoin)
  BY DEF KernelStep, KernelExit, Replay, Rejoin, WithoutKernel
<1>7. CASE UNCHANGED vars
  <2>1. /\ prog' = prog /\ site' = site /\ npc' = npc /\ nregs' = nregs /\ locals' = locals
        /\ UNCHANGED <<pc, regs, env, outer, status, result, phase, before>>
        /\ UNCHANGED <<ipc, iregs, ienv, iouter, istatus, iresult>>
    BY <1>7 DEF vars, program, frameVars, tierVars, siteVars, aloneVars
  <2>2. Real' = Real /\ Mirror' = Mirror /\ Kept' = Kept
    BY <2>1 DEF Real, Mirror, Kept
  <2>3. /\ pc' \in Offsets(prog)' <=> pc \in Offsets(prog)
        /\ Bound(Real)' = Bound(Real) /\ Bound(Mirror)' = Bound(Mirror)
        /\ Agree(prog, Real, Mirror)' = Agree(prog, Real, Mirror)
    BY <2>1, <2>2
  <2>4. phase = "osr" /\ InStep => InStep'
    <3>1. /\ LoopNames(prog, site)' = LoopNames(prog, site)
          /\ Written(prog, site)' = Written(prog, site)
      BY <2>1
    <3> SUFFICES ASSUME InStep PROVE InStep'
      OBVIOUS
    <3> USE DEF InStep, InMirror
    <3>2. /\ status' = "running" /\ npc' = ipc' /\ Agree(prog, Real', Kept')
          /\ \A n \in LoopNames(prog, site) :
                /\ n \in DOMAIN ienv' \cup DOMAIN iouter'
                /\ Same(IF n \in DOMAIN ienv' THEN ienv'[n] ELSE iouter'[n],
                        MakeNumber(locals'[n]))
      BY <2>1, <2>2
    <3>3. /\ Alike(env', ienv', Owned(prog) \ Written(prog, site))
          /\ Alike(outer', iouter', DOMAIN outer' \ (Written(prog, site) \ Owned(prog)))
          /\ Alike(regs', iregs', Regs \ Scratch(prog))
          /\ \A r \in Fresh(prog, npc', Computes) : Stands(nregs'[r], iregs'[r])
          /\ \A r \in Fresh(prog, npc', IntOps) : IsNumber(iregs'[r])
      BY <2>1
    <3> HIDE DEF InStep, InMirror
    <3> QED BY <2>1, <3>2, <3>3, MakesInStep
  <2> QED BY <2>1, <2>3, <2>4 DEF LoopInv, WithoutKernel
<1> QED BY <1>1, <1>2, <1>3, <1>4, <1>5, <1>6, <1>7 DEF Next, NativeStep

\* The program is the same.
LEMMA ProgramStays == ASSUME TypeInv, [Next]_vars PROVE prog' = prog
<1>1. Interpret \/ BackEdge => prog' = prog
  BY JumpIsStep, RealGoes DEF Interpret, BackEdge, TypeInv, Frames
<1>2. NativeStep => prog' = prog
  BY DEF NativeStep, OsrLoad, OsrOperate, OsrDeopt, OsrGet, OsrSet, OsrHoist, OsrJump, OsrExit,
     KernelStep, KernelExit, Leaves, OutOfSight, program
<1>3. Replay \/ Rejoin => prog' = prog
  BY AloneGoes DEF Replay, Rejoin, program, TypeInv, Frames
<1> QED BY <1>1, <1>2, <1>3 DEF Next, vars, program

(* On-stack replacement cannot be seen.  When the loops of the function    *)
(* are tidy, however often machine code takes them over, leaves them and   *)
(* drops them: whenever the interpreter has the frame, place, variables,   *)
(* result and live registers are those of the interpreter alone, but for   *)
(* the sign of a zero ("that writeback reproduces exactly the integer      *)
(* results the interpreter would have computed", src/src/jit/osr_jit.zig:32). *)
(* This holds up to the first kernel: of those, the runs speak.            *)
THEOREM OsrIsInvisible == Spec /\ Tidy(prog) /\ [](phase # "kernel") => []LoopsAgree
<1> DEFINE Inv == TypeInv /\ LoopInv /\ WithoutKernel /\ Tidy(prog)
<1>1. Init /\ Tidy(prog) => Inv
  BY InitTypeInv, InitLoopInv
<1>2. Inv /\ [Next]_vars /\ (phase # "kernel")' => Inv'
  <2> SUFFICES ASSUME Inv, [Next]_vars, phase' # "kernel" PROVE Inv'
    OBVIOUS
  <2>1. TypeInv' /\ LoopInv' /\ WithoutKernel'
    BY TypeInvStep, LoopInvStep
  <2>2. prog' = prog
    BY ProgramStays
  <2>3. Tidy(prog)'
    BY <2>2
  <2> QED BY <2>1, <2>3
<1>3. Inv => LoopsAgree
  <2> SUFFICES ASSUME Inv, phase = "interp" PROVE FramesAgree(Same)
    BY DEF LoopsAgree, Together, WithoutKernel
  <2> QED BY AgreeShows DEF LoopInv
<1> QED BY <1>1, <1>2, <1>3, PTL DEF Spec
===============================================================================
