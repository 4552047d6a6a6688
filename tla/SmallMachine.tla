---------------------------- MODULE SmallMachine ----------------------------
(* A machine of 4-bit SMIs, and doubles with 5 bits of integer precision,   *)
(* for TLC; and an assembler for the functions that it runs.                *)
EXTENDS Interpreter, Lanes, Bitwise, Sequences, TLC

CONSTANTS Frac, Big       \* 0.5, and a number above every exact integer

MCDoubles == {NegZero, NaN, Frac, Big}

-----------------------------------------------------------------------------
(* The machine.                                                            *)

Fit(n) == IF n \in Safe THEN n ELSE Big
Negative(x) == x = NegZero \/ (x \notin Doubles /\ x < 0)
Quotient(a, b) == IF (a < 0) = (b < 0) THEN (IF a < 0 THEN -a ELSE a) \div (IF b < 0 THEN -b ELSE b)
                  ELSE -((IF a < 0 THEN -a ELSE a) \div (IF b < 0 THEN -b ELSE b))
Zero(negative) == IF negative THEN NegZero ELSE 0

IntArith(op, x, y) ==
    LET a == Trunc0(x)
        b == Trunc0(y)
    IN  CASE op = "ADD" -> IF a + b = 0 THEN Zero(x = NegZero /\ y = NegZero) ELSE Fit(a + b)
          [] op = "SUB" -> IF a - b = 0 THEN Zero(x = NegZero /\ y = 0) ELSE Fit(a - b)
          [] op = "MUL" -> IF a * b = 0 THEN Zero(Negative(x) # Negative(y)) ELSE Fit(a * b)
          [] op = "DIV" -> IF b = 0 THEN IF a = 0 THEN NaN ELSE Big
                           ELSE IF Rem(a, b) # 0 THEN Frac
                           ELSE IF a = 0 THEN Zero(Negative(x) # Negative(y))
                           ELSE Quotient(a, b)
          [] op = "MOD" -> IF b = 0 THEN NaN
                           ELSE IF Rem(a, b) = 0 THEN Zero(Negative(x)) ELSE Rem(a, b)

MCFArith(op, x, y) == IF NaN \in {x, y} THEN NaN
                      ELSE IF Big \in {x, y} THEN Big
                      ELSE IF Frac \in {x, y} THEN Frac
                      ELSE IntArith(op, x, y)
MCFNeg(x) == CASE x = 0 -> NegZero [] x = NegZero -> 0 [] x \in {NaN, Frac, Big} -> x
               [] OTHER -> -x

Rank(x) == CASE x = NegZero -> 0 [] x = Frac -> 1 [] x = Big -> 1000 [] OTHER -> 2 * x
MCFLess(x, y)  == NaN \notin {x, y} /\ Rank(x) < Rank(y)
MCFEqual(x, y) == NaN \notin {x, y} /\ Rank(x) = Rank(y)

Wrap(n) == ((n + Half) % (2 * Half)) - Half
MCFToInt32(x) == IF x \in Doubles THEN 0 ELSE Wrap(x)

Unsigned(n) == n % (2 * Half)
MCALU(op, x, y) == CASE op = "BIT_AND" -> Wrap(Unsigned(x) & Unsigned(y))
                     [] op = "BIT_OR"  -> Wrap(Unsigned(x) | Unsigned(y))
                     [] op = "BIT_XOR" -> Wrap(Unsigned(x) ^^ Unsigned(y))
                     [] op = "SHL"     -> Wrap(x * 2^y)
                     [] op = "SHR"     -> x \div 2^y
                     [] op = "USHR"    -> Unsigned(x) \div 2^y

-----------------------------------------------------------------------------
(* Functions, written as sequences of instructions whose jumps name the *)
(* index of their target.                                                  *)

I(op, d, l, r) == [op |-> op, d |-> d, l |-> l, r |-> r, val |-> Undef, name |-> "", to |-> 0]
Var(op, r, name)  == [I(op, r, r, 0) EXCEPT !.name = name]
Const(d, v)       == [I("LOAD_K", d, 0, 0) EXCEPT !.val = v]
Goto(op, l, to)   == [I(op, 0, l, 0) EXCEPT !.to = to]

Function(params, s) ==
    LET off[i \in 1 .. Len(s) + 1] ==
            IF i = 1 THEN 0 ELSE off[i - 1] + InstrSize(s[i - 1].op)
        Placed(i) == IF i.op \in JumpIfOps \cup {"JMP"} THEN [i EXCEPT !.to = off[@]] ELSE i
        Place(o) == CHOOSE i \in 1 .. Len(s) : off[i] = o
    IN  [params |-> params,
         code |-> [o \in {off[i] : i \in 1 .. Len(s)} |-> Placed(s[Place(o)])]]
=============================================================================
