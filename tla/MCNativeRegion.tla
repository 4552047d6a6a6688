--------------------------- MODULE MCNativeRegion ---------------------------
(* Instances of NativeRegion for TLC: the functions that are called.        *)
EXTENDS NativeRegion, SmallMachine

GetAB == <<Var("GET_GLOBAL", 1, "a"), Var("GET_GLOBAL", 2, "b")>>

\* return a OP b
Apply(op) == Function({"a", "b"}, GetAB \o <<I(op, 3, 1, 2), I("RETURN", 0, 3, 0)>>)

\* if (a OP b) return 1; return undefined
Test(op, jump) ==
    Function({"a", "b"}, GetAB \o
        <<I(op, 3, 1, 2), Goto(jump, 3, 7), Const(1, Smi(1)), I("RETURN", 0, 1, 0),
          I("RETURN_UNDEF", 0, 0, 0)>>)

\* var s = 0; while (a < b) { a++; s = s * a } return s
Loop == Function({"a", "b"},
    <<Var("HOIST_VAR", 0, "s"), Const(0, Smi(3)), Var("DEFINE_GLOBAL", 0, "s"),
      Var("GET_GLOBAL", 1, "a"), Var("GET_GLOBAL", 2, "b"), I("LT", 3, 1, 2),
      Goto("JMP_IF_FALSE", 3, 15),
      I("TO_NUMERIC", 2, 1, 0), I("INC", 1, 2, 0), Var("SET_GLOBAL", 1, "a"),
      Var("GET_GLOBAL", 0, "s"), I("MUL", 0, 0, 1), Var("SET_GLOBAL", 0, "s"),
      Goto("JMP", 0, 4),
      Var("GET_GLOBAL", 0, "s"), I("RETURN", 0, 0, 0)>>)

\* a.x = a.x + b; return a[b] = f(b)
Helpers == Function({"a", "b"}, GetAB \o
    <<I("GET_PROP", 3, 1, 0), I("ADD", 3, 3, 2), I("SET_PROP", 0, 1, 3),
      I("GET_PROP_DYN", 0, 1, 2), I("CALL", 0, 0, 2), I("SET_PROP_DYN", 1, 2, 0),
      I("RETURN", 0, 0, 0)>>)

\* var s = true; f = () => s; s = b; f(); return !s
Closure == Function({"b"},
    <<I("LOAD_TRUE", 0, 0, 0), Var("DEFINE_GLOBAL", 0, "s"), I("NEW_CLOSURE", 1, 0, 0),
      Var("GET_GLOBAL", 0, "b"), Var("SET_GLOBAL", 0, "s"), I("CALL", 1, 1, 0),
      Var("GET_GLOBAL", 0, "s"), I("NOT", 0, 0, 0), I("RETURN", 0, 0, 0)>>)

\* the same, with the negation gating a branch
ClosureBranch == Function({"b"},
    <<I("LOAD_FALSE", 0, 0, 0), Var("DEFINE_GLOBAL", 0, "s"), Var("GET_GLOBAL", 1, "b"),
      I("NOT", 0, 1, 0), Goto("JMP_IF_TRUE", 0, 8),
      I("NEW_CLOSURE", 1, 0, 0), I("CALL", 1, 1, 0),
      Var("GET_GLOBAL", 2, "s"), I("RETURN", 0, 2, 0)>>)

\* return g * b, of a captured g
Capture == Function({"b"},
    <<Var("GET_GLOBAL", 1, "g"), Var("GET_GLOBAL", 2, "b"), I("MUL", 0, 1, 2),
      I("MOVE", 3, 0, 0), I("RETURN", 0, 3, 0)>>)

\* g = b; return g, which is not compiled
SetCapture == Function({"b"},
    <<Var("GET_GLOBAL", 1, "b"), Var("SET_GLOBAL", 1, "g"), Var("GET_GLOBAL", 2, "g"),
      I("LOAD_UNDEF", 3, 0, 0), I("RETURN", 0, 2, 0)>>)

\* TLC evaluates a definition once, and the body of a constant's value at every use.
Library ==
    [op \in (Operators \ BoolOps) \cup {"LT"} |-> Apply(op)]
      @@ [op \in {"EQ", "NEQ", "SEQ", "SNEQ", "LE", "GE", "NOT"} |-> Test(op, "JMP_IF_FALSE")]
      @@ [op \in {"GT"} |-> Test(op, "JMP_IF_TRUE")]
      @@ [loop |-> Loop, helpers |-> Helpers, closure |-> Closure, branch |-> ClosureBranch,
          capture |-> Capture, assign |-> SetCapture]
MCPrograms == Library

\* Programs that meet one of the three hazards each.
\* return (a < b) && b: the comparison's register is also the result's.
Conjunction == Function({"a", "b"}, GetAB \o
    <<I("LT", 3, 1, 2), Goto("JMP_IF_FALSE", 3, 6), I("MOVE", 3, 2, 0), I("RETURN", 0, 3, 0)>>)
MCEscaping == LET escaping == [conjunction |-> Conjunction] IN escaping

\* if (a) return 1; return undefined
Condition == Function({"a"},
    <<Var("GET_GLOBAL", 1, "a"), Goto("JMP_IF_FALSE", 1, 5), Const(1, Smi(1)),
      I("RETURN", 0, 1, 0), I("RETURN_UNDEF", 0, 0, 0)>>)
MCBranching == LET branching == [condition |-> Condition] IN branching

\* a(); return g, of a captured g
Observer == Function({"a"},
    <<Var("GET_GLOBAL", 0, "a"), I("CALL", 0, 0, 0), Var("GET_GLOBAL", 1, "g"),
      I("RETURN", 0, 1, 0)>>)
MCObserving == LET observing == [observer |-> Observer] IN observing

\* The condition of the theorems about disciplined code has instances.
ASSUME DisciplinedExamples ==
    \A p \in DOMAIN Programs \cap {"loop", "helpers", "capture", "EQ", "GE", "NOT", "USHR"} :
        Disciplined(p)

-----------------------------------------------------------------------------
SomeValues == {Smi(n) : n \in {-8, -1, 0, 5, 7}} \cup {Dbl(x) : x \in MCDoubles \cup {12}}
                 \cup {Undef, Null, Bool(TRUE), Cell(1)}
MCArguments == SomeValues
MCFewArguments == {Smi(-1), Smi(3), Dbl(NaN)}
MCFunctions == {Cell(1)}
MCHelperValues == {Smi(7), Undef}
NoNames == [n \in {} |-> Undef]
SomeScopes == {NoNames} \cup {[n \in {"g"} |-> v] : v \in {Smi(-8), Null}}
MCScopes == SomeScopes
BoundScopes == SomeScopes \ {NoNames}
MCBoundScopes == BoundScopes
=============================================================================
