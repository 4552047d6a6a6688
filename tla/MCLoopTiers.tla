---------------------------- MODULE MCLoopTiers ----------------------------
(* Instances of LoopTiers for TLC: functions with loops.                    *)
EXTENDS LoopTiers, SmallMachine

Get(r, n) == Var("GET_GLOBAL", r, n)
Set(n, r) == Var("SET_GLOBAL", r, n)
Let0(n, v) == <<Const(0, v), Var("DEFINE_GLOBAL", 0, n)>>
Give(n) == <<Get(0, n), I("RETURN", 0, 0, 0)>>
Exit(jump, from, op, to) == <<from, Get(2, "b"), I(op, 3, 1, 2), Goto(jump, 3, to)>>
Fold(acc, op, ind) == <<Get(1, acc), Get(2, ind), I(op, 1, 1, 2), Set(acc, 1)>>
StepBy(ind, op, n) == <<Get(1, ind), Const(2, n), I(op, 1, 1, 2), Set(ind, 1)>>
Inc(ind) == <<Get(1, ind), I("TO_NUMERIC", 2, 1, 0), I("INC", 2, 2, 0), Set(ind, 2)>>

\* while (a < 6) ++a; return a
Count == Function({"a", "b"},
    <<Get(1, "a"), Const(2, Smi(6)), I("LT", 3, 1, 2), Goto("JMP_IF_FALSE", 3, 9),
      Get(1, "a"), I("INC", 2, 1, 0), Set("a", 2), Goto("JMP", 0, 1)>> \o Give("a"))

\* s = 0.5; while (a >= -3) { s = s * a; b = b - a; a = a - 2 } return b, at the top level
Folds == Function({"a", "b"},
    Let0("s", Dbl(Frac)) \o
    <<Get(1, "a"), Const(2, Smi(-3)), I("GE", 3, 1, 2), Goto("JMP_IF_FALSE", 3, 22),
      I("MOVE", 3, 0, 0)>>
      \o Fold("s", "MUL", "a") \o Fold("b", "SUB", "a") \o StepBy("a", "SUB", Smi(2))
      \o <<I("MOVE", 3, 0, 0), Goto("JMP", 0, 3)>> \o Give("b"))

\* s = 2; while (a < b) { if (a & 1) s = s * a; else { s = s - 3; if (s < -6) return a } a++ }
\* return s
Branches == Function({"a", "b"},
    Let0("s", Smi(2)) \o Exit("JMP_IF_FALSE", Get(1, "a"), "LT", 29) \o
    <<Get(1, "a"), Const(2, Smi(1)), I("BIT_AND", 1, 1, 2), Goto("JMP_IF_FALSE", 1, 16)>>
      \o Fold("s", "MUL", "a") \o <<Goto("JMP", 0, 24)>>
      \o StepBy("s", "SUB", Smi(3)) \o
    <<Get(1, "s"), Const(2, Smi(-6)), I("LT", 3, 1, 2), Goto("JMP_IF_TRUE", 3, 31)>>
      \o Inc("a") \o <<Goto("JMP", 0, 3)>> \o Give("s") \o Give("a"))

\* s = 0; while (a < 1) { for (j = 0; j < b; j++) s = s + j; a++ } return s
Nested == Function({"a", "b"},
    Let0("s", Smi(0)) \o <<Var("DEFINE_GLOBAL", 0, "j")>> \o
    <<Get(1, "a"), Const(2, Smi(1)), I("LT", 3, 1, 2), Goto("JMP_IF_FALSE", 3, 27)>>
      \o Let0("j", Smi(0)) \o Exit("JMP_IF_FALSE", Get(1, "j"), "LT", 23)
      \o Fold("s", "ADD", "j") \o Inc("j") \o <<Goto("JMP", 0, 10)>>
      \o <<Get(1, "a"), I("INC", 2, 1, 0), Set("a", 2), Goto("JMP", 0, 4)>> \o Give("s"))

\* while (a < 6) { b = b * a; a++ } return b
Overflow == Function({"a", "b"},
    <<Get(1, "a"), Const(2, Smi(6)), I("LT", 3, 1, 2), Goto("JMP_IF_FALSE", 3, 14)>>
      \o Fold("b", "MUL", "a") \o StepBy("a", "ADD", Smi(1)) \o <<Goto("JMP", 0, 1)>>
      \o Give("b"))

\* do { var s; s = 5; g = ~g; s = s ^ a; s = s << a; s = s >>> 2; if (!s) return g; a-- }
\* while (a >= b); return s
Bits == Function({"a", "b"},
    <<Var("HOIST_VAR", 0, "s"), Const(0, Smi(5)), Var("DEFINE_GLOBAL", 0, "s"),
      Get(1, "g"), I("BIT_NOT", 1, 1, 0), Set("g", 1)>>
      \o Fold("s", "BIT_XOR", "a") \o Fold("s", "SHL", "a") \o StepBy("s", "USHR", Smi(2)) \o
    <<Get(1, "s"), I("NOT", 3, 1, 0), Goto("JMP_IF_TRUE", 3, 32),
      Get(1, "a"), I("DEC", 2, 1, 0), Set("a", 2)>>
      \o Exit("JMP_IF_FALSE", Get(1, "a"), "GE", 30) \o <<Goto("JMP", 0, 1)>>
      \o Give("s") \o Give("g"))

\* s = 0.5; while (a < 6) { s = s + a; a = a + 0 } return s
Standstill == Function({"a", "b"},
    Let0("s", Dbl(Frac)) \o
    <<Get(1, "a"), Const(2, Smi(6)), I("LT", 3, 1, 2), Goto("JMP_IF_FALSE", 3, 16)>>
      \o Fold("s", "ADD", "a") \o StepBy("a", "ADD", Smi(0)) \o <<Goto("JMP", 0, 3)>>
      \o Give("s"))

\* TLC evaluates a definition once, and the body of a constant's value at every use
\* (and counts what is below an operator there, but not below a LET).
Library == [count |-> Count, folds |-> Folds, branches |-> Branches, nested |-> Nested,
            overflow |-> Overflow, bits |-> Bits, standstill |-> Standstill]
MCPrograms == LET library == Library IN library

\* The condition of the theorem about compiled loops has instances.
ASSUME TidyExamples ==
    \A p \in DOMAIN Programs : Tidy(p) /\ \E o \in BackEdges(p) : p = "folds" \/ Plans[p][o].osr

SomeValues == {Smi(n) : n \in {-3, 0, 4}} \cup {Dbl(12), Dbl(NegZero), Undef}
MCArguments == SomeValues
SomeScopes == {[n \in {"g"} |-> v] : v \in {Smi(-8), Null}}
MCScopes == SomeScopes
=============================================================================
