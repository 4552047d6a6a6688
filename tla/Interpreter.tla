----------------------------- MODULE Interpreter -----------------------------
(***************************************************************************)
(* One call of a bytecode function run by the interpreter: what the        *)
(* handlers of src/src/vm/ops/ do to the frame's registers, to the         *)
(* function's own variables and to the world outside.  This is the         *)
(* abstract specification of a call, the one native code must implement.   *)
(*                                                                         *)
(* A function has parameters, and code that maps the byte offset of each   *)
(* instruction to the instruction.                                         *)
(* An instruction is a record of an opcode, its registers d (destination), *)
(* l and r, its constant val, its name, and the offset to it jumps to.     *)
(* What happens inside a callee, a getter, a setter or a valueOf is not    *)
(* modelled: it is one step, which counts as an effect, may change the     *)
(* variables of the enclosing scopes, may assign one of the function's own *)
(* variables when a closure has captured them, and answers or throws.      *)
(***************************************************************************)
EXTENDS JsValues

CONSTANTS Programs,       \* the functions that may be called: name -> function
          Scopes,         \* what the enclosing scopes may hold: name -> value
          Regs,           \* the registers of a frame
          Arguments,      \* the values a parameter may be given
          HelperValues,   \* what a callee or a getter may answer
          MaxEffects      \* bound on the steps outside the function

VARIABLES prog,           \* the name of the function called
          pc, regs,       \* the frame: bytecode offset and registers
          env,            \* the function's own variables
          outer,          \* the variables of the enclosing scopes it can see
          closed,         \* whether a closure has captured env
          effects,        \* how many times code outside the function ran
          status, result  \* how the call ended

frameVars == <<pc, regs, env, outer, closed, effects, status, result>>

-----------------------------------------------------------------------------
(* Bytecode.                                                               *)

LoadOps  == {"LOAD_K", "LOAD_TRUE", "LOAD_FALSE", "LOAD_UNDEF", "MOVE"}
StoreOps == {"SET_GLOBAL", "DEFINE_GLOBAL"}
JumpIfOps == {"JMP_IF_TRUE", "JMP_IF_FALSE"}
\* Instructions that run code outside the function.
PropertyOps == {"GET_PROP", "SET_PROP", "GET_PROP_DYN", "SET_PROP_DYN"}
HelperOps   == PropertyOps \cup {"CALL"}

InstrSize(op) ==
    CASE op = "RETURN_UNDEF" -> 1
      [] op \in {"RETURN", "LOAD_TRUE", "LOAD_FALSE", "LOAD_UNDEF"} -> 2
      [] op \in {"MOVE", "HOIST_VAR", "JMP"} \cup UnaryOps -> 3
      [] op \in {"GET_PROP", "SET_PROP"} -> 5
      [] OTHER -> 4

Code(p)    == Programs[p].code
Params(p)  == Programs[p].params
Offsets(p) == DOMAIN Code(p)
Names(p, ops) == {Code(p)[o].name : o \in {x \in Offsets(p) : Code(p)[x].op \in ops}}
Owned(p) == Params(p) \cup Names(p, {"DEFINE_GLOBAL", "HOIST_VAR"})

Instr == Code(prog)[pc]
Next1 == pc + InstrSize(Instr.op)

\* A register as the interpreter reads it.  A word that native code left there
\* as the bare 0 or 1 of a comparison (see Lanes) reads as undefined, whose
\* bits are 0, or as an object at address 1.
Seen(w) == IF w.tag # "raw" THEN w ELSE IF w.num = 0 THEN Undef ELSE Cell(1)

L == Seen(regs[Instr.l])
R == Seen(regs[Instr.r])

\* Every operand names a register of the frame, and a call's callee and
\* arguments are consecutive ones; no value is anything but a boxed value
\* before native code runs.
ASSUME ProgramsAssumption ==
    \A p \in DOMAIN Programs : \A o \in Offsets(p) :
       LET i == Code(p)[o]
       IN  /\ i.d \in Regs /\ i.l \in Regs /\ i.r \in Regs /\ WellBoxed(i.val)
           /\ i.op = "CALL" => i.l .. i.l + i.r \subseteq Regs
ASSUME ValuesAssumption ==
    /\ \A v \in Arguments \cup HelperValues : WellBoxed(v)
    /\ \A s \in Scopes : \A n \in DOMAIN s : WellBoxed(s[n])
    /\ MaxEffects \in Nat

-----------------------------------------------------------------------------
InterpInit ==
    /\ prog \in DOMAIN Programs
    /\ pc = 0
    /\ regs = [r \in Regs |-> Undef]
    /\ \E args \in [Params(prog) -> Arguments] :
          env = [n \in Owned(prog) |-> IF n \in Params(prog) THEN args[n] ELSE Undef]
    /\ outer \in Scopes
    /\ closed = FALSE
    /\ effects = 0
    /\ status = "running"
    /\ result = Undef

At(op) == status = "running" /\ pc \in Offsets(prog) /\ Instr.op = op
AtAny(ops) == status = "running" /\ pc \in Offsets(prog) /\ Instr.op \in ops

\* The instruction leaves v in register d and goes on with the next one.
Answer(d, v) == regs' = [regs EXCEPT ![d] = v] /\ pc' = Next1
GoOn         == pc' = Next1 /\ UNCHANGED regs
Ends(how, v) == status' = how /\ result' = v /\ UNCHANGED <<pc, regs>>
Local        == UNCHANGED <<prog, outer, closed, effects>>
Running      == UNCHANGED <<status, result>>

LoadedValue == CASE Instr.op = "LOAD_K" -> Instr.val
                 [] Instr.op = "LOAD_TRUE" -> Bool(TRUE)
                 [] Instr.op = "LOAD_FALSE" -> Bool(FALSE)
                 [] Instr.op = "LOAD_UNDEF" -> Undef
                 [] Instr.op = "MOVE" -> L

Load == /\ AtAny(LoadOps)
        /\ Answer(Instr.d, LoadedValue)
        /\ Local /\ Running /\ UNCHANGED env

Operate == /\ AtAny(Operators) /\ ~Coerces(Instr.op, L, R)
           /\ Answer(Instr.d, JsResult(Instr.op, L, R))
           /\ Local /\ Running /\ UNCHANGED env

\* A name is looked up in the function's variables, then outwards.
GetGlobal == /\ At("GET_GLOBAL")
             /\ \/ /\ Instr.name \in DOMAIN env
                   /\ Answer(Instr.d, env[Instr.name]) /\ Running
                \/ /\ Instr.name \notin DOMAIN env /\ Instr.name \in DOMAIN outer
                   /\ Answer(Instr.d, outer[Instr.name]) /\ Running
                \/ /\ Instr.name \notin DOMAIN env \cup DOMAIN outer
                   /\ Ends("threw", Undef)
             /\ Local /\ UNCHANGED env

SetOwn == /\ AtAny(StoreOps) /\ Instr.name \in DOMAIN env
          /\ env' = [env EXCEPT ![Instr.name] = L]
          /\ GoOn /\ Local /\ Running

\* An assignment that resolves outside the function; an unresolved name
\* becomes a global of sloppy code and throws in strict code.
SetOuter == /\ AtAny(StoreOps) /\ Instr.name \notin DOMAIN env
            /\ \/ /\ outer' = [n \in DOMAIN outer \cup {Instr.name} |->
                                IF n = Instr.name THEN L ELSE outer[n]]
                  /\ GoOn /\ Running
               \/ /\ Instr.name \notin DOMAIN outer
                  /\ Ends("threw", Undef) /\ UNCHANGED outer
            /\ UNCHANGED <<prog, env, closed, effects>>

HoistVar == /\ At("HOIST_VAR")
            /\ GoOn /\ Local /\ Running /\ UNCHANGED env

Jump == /\ At("JMP")
        /\ pc' = Instr.to
        /\ Local /\ Running /\ UNCHANGED <<regs, env>>

Branch(taken) == /\ pc' = IF taken THEN Instr.to ELSE Next1
                 /\ Local /\ Running /\ UNCHANGED <<regs, env>>

JumpIf == /\ AtAny(JumpIfOps)
          /\ Branch(ToBoolean(L) <=> Instr.op = "JMP_IF_TRUE")

NewClosure == /\ At("NEW_CLOSURE")
              /\ closed' = TRUE
              /\ Answer(Instr.d, Cell(0))
              /\ Running /\ UNCHANGED <<prog, env, outer, effects>>

\* What a step outside the function may do to the variables it can reach.
Outside ==
    /\ effects < MaxEffects
    /\ effects' = effects + 1
    /\ outer' \in Scopes
    /\ UNCHANGED <<prog, closed>>

Assigned(locals) ==
    {locals} \cup (IF closed THEN {[locals EXCEPT ![n] = v] :
                                      n \in DOMAIN locals, v \in HelperValues}
                   ELSE {})

Answers == IF Instr.op \in {"SET_PROP", "SET_PROP_DYN"} THEN GoOn
           ELSE \E v \in IF Instr.op \in CompareOps THEN {Bool(TRUE), Bool(FALSE)}
                        ELSE HelperValues :
                   Answer(Instr.d, v)

\* A property access, a call, or an operator that coerces an object.
RunsOutside == AtAny(HelperOps) \/ (AtAny(Operators) /\ Coerces(Instr.op, L, R))

CallOut == /\ RunsOutside
           /\ Outside /\ env' \in Assigned(env)
           /\ \/ Answers /\ Running
              \/ Ends("threw", Undef)

Return == /\ AtAny({"RETURN", "RETURN_UNDEF"})
          /\ Ends("returned", IF Instr.op = "RETURN" THEN L ELSE Undef)
          /\ Local /\ UNCHANGED env

InterpNext == \/ Load \/ Operate \/ GetGlobal \/ SetOwn \/ SetOuter \/ HoistVar
              \/ Jump \/ JumpIf \/ NewClosure \/ CallOut \/ Return

InterpSpec == InterpInit /\ [][InterpNext]_<<prog, frameVars>>
=============================================================================
