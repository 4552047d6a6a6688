---------------------------- MODULE NativeRegion ----------------------------
(***************************************************************************)
(* A call of a bytecode function that may run as native code: the analysis *)
(* that accepts a function, the code the Cranelift backend emits for it on *)
(* boxed words (src/jit-native/src), and the protocol by which native code *)
(* is entered and left (src/src/jit/int_fn_jit.zig: analyze, run;          *)
(* src/src/vm/bc_vm.zig: tryJitCall, resumeJitFrame).                      *)
(*                                                                         *)
(* The variables of Interpreter are the frame.  While native code runs its *)
(* register file is regs, its program counter is pc, and the function's    *)
(* variables are not in env but in the private buffer locals, which also   *)
(* holds a copy of every captured variable, made when the region is        *)
(* entered.  The region is left with a flag: 0 it returned, 2 something it *)
(* called threw, 3 it stopped at resumePc, where the interpreter goes on   *)
(* with a frame made from regs and locals.                                 *)
(***************************************************************************)
EXTENDS Interpreter, Lanes

VARIABLES phase,       \* "call", then "native", "exit", "interp", "over"
          locals,      \* the region's buffer of variables
          flag, resumePc, ret

regionVars == <<phase, locals, flag, resumePc, ret>>
vars == <<prog, frameVars, regionVars>>

-----------------------------------------------------------------------------
(* What is compiled.                                                       *)

Captured(p)   == Names(p, {"GET_GLOBAL"}) \ Owned(p)
Slots(p)      == Owned(p) \cup Captured(p)

BoolOps == CompareOps \cup {"NOT"}
Supported == LoadOps \cup StoreOps \cup JumpIfOps \cup HelperOps \cup Operators
               \cup {"GET_GLOBAL", "HOIST_VAR", "JMP", "NEW_CLOSURE", "RETURN",
                     "RETURN_UNDEF"}

\* The result of a comparison must be read by a conditional jump right behind.
Contained(p, o) ==
    LET n == o + InstrSize(Code(p)[o].op)
    IN  n \in Offsets(p) /\ Code(p)[n].op \in JumpIfOps /\ Code(p)[n].l = Code(p)[o].d

\* The analysis: only supported instructions, no assignment to a captured
\* variable, no boolean that is not contained.
Accepts(p) == \A o \in Offsets(p) :
                 /\ Code(p)[o].op \in Supported
                 /\ Code(p)[o].op \in StoreOps => Code(p)[o].name \in Owned(p)
                 /\ Code(p)[o].op \in BoolOps => Contained(p, o)

\* The backend's basic blocks start at every jump target and behind every
\* jump; it gives up on a jump with no block to go to.
Leaders(p) == {o \in Offsets(p) : \/ o = 0
                                  \/ \E q \in Offsets(p) :
                                        /\ Code(p)[q].op \in JumpIfOps \cup {"JMP"}
                                        /\ o \in {Code(p)[q].to, q + InstrSize(Code(p)[q].op)}}
Compiles(p) == \A o \in Offsets(p) :
                  Code(p)[o].op \in JumpIfOps \cup {"JMP"} => Code(p)[o].to \in Leaders(p)

-----------------------------------------------------------------------------
Init == /\ InterpInit
        /\ phase = "call"
        /\ locals = <<>>
        /\ flag = 0 /\ resumePc = 0 /\ ret = Undef

\* The function is not hot yet, was rejected, a captured name does not resolve
\* (the coarse deopt, before anything ran), or no backend is built in.
RunInterpreted == /\ phase = "call"
                  /\ phase' = "interp"
                  /\ UNCHANGED <<prog, frameVars, locals, flag, resumePc, ret>>

\* Registers start as zero words, which are undefined.
EnterRegion ==
    /\ phase = "call" /\ Accepts(prog) /\ Compiles(prog)
    /\ Captured(prog) \subseteq DOMAIN outer
    /\ phase' = "native"
    /\ locals' = [n \in Slots(prog) |->
                     IF n \in Owned(prog) THEN env[n] ELSE outer[n]]
    /\ UNCHANGED <<prog, frameVars, flag, resumePc, ret>>

-----------------------------------------------------------------------------
(* Native code, one action for each group of emissions.                    *)

Native(ops) == phase = "native" /\ pc \in Offsets(prog) /\ Instr.op \in ops
WL == regs[Instr.l]
WR == regs[Instr.r]

Emitted == UNCHANGED <<prog, env, closed, status, result>>
Stays   == UNCHANGED <<phase, flag, resumePc, ret>>
Private == UNCHANGED <<outer, effects>>

\* The fine-deopt block: remember where, and leave.
FineDeopt == /\ phase' = "exit" /\ flag' = 3 /\ resumePc' = pc
             /\ UNCHANGED <<pc, regs, locals, ret>>

NativeLoad ==
    /\ Native(LoadOps)
    /\ Answer(Instr.d, IF Instr.op = "MOVE" THEN WL ELSE LoadedValue)
    /\ Emitted /\ Stays /\ Private /\ UNCHANGED locals

NativeOperate ==
    /\ Native(Operators)
    /\ LET w == LaneResult(Instr.op, WL, WR)
       IN  \/ w = Deopt /\ FineDeopt
           \/ w # Deopt /\ Answer(Instr.d, w) /\ Stays /\ UNCHANGED locals
    /\ Emitted /\ Private

NativeGetGlobal ==
    /\ Native({"GET_GLOBAL"})
    /\ Answer(Instr.d, locals[Instr.name])
    /\ Emitted /\ Stays /\ Private /\ UNCHANGED locals

NativeSetGlobal ==
    /\ Native(StoreOps)
    /\ locals' = [locals EXCEPT ![Instr.name] = WL]
    /\ GoOn /\ Emitted /\ Stays /\ Private

NativeHoistVar ==
    /\ Native({"HOIST_VAR"})
    /\ GoOn /\ Emitted /\ Stays /\ Private /\ UNCHANGED locals

NativeJump ==
    /\ Native({"JMP"})
    /\ pc' = Instr.to
    /\ Emitted /\ Stays /\ Private /\ UNCHANGED <<regs, locals>>

\* The test is on the word, not on the value it boxes.
Taken == NonZero(WL) <=> Instr.op = "JMP_IF_TRUE"

NativeJumpIf ==
    /\ Native(JumpIfOps)
    /\ pc' = IF Taken THEN Instr.to ELSE Next1
    /\ Emitted /\ Stays /\ Private /\ UNCHANGED <<regs, locals>>

\* A helper runs the access or the call once and reports: 0 done, 2 it threw,
\* and for a property access 1, there is no interpreter to run it.
NativeHelper ==
    /\ Native(HelperOps)
    /\ \/ /\ Outside /\ Answers /\ Stays
       \/ /\ Outside /\ phase' = "exit" /\ flag' = 2
          /\ UNCHANGED <<pc, regs, resumePc, ret>>
    /\ UNCHANGED <<env, status, result, locals>>

NoInterpreter ==
    /\ Native(PropertyOps)
    /\ FineDeopt /\ Emitted /\ Private

\* A closure would have to share the variables, which are private here.
NativeClosure ==
    /\ Native({"NEW_CLOSURE"})
    /\ FineDeopt /\ Emitted /\ Private

NativeReturn ==
    /\ Native({"RETURN", "RETURN_UNDEF"})
    /\ phase' = "exit" /\ flag' = 0
    /\ ret' = IF Instr.op = "RETURN" THEN WL ELSE Undef
    /\ Emitted /\ Private /\ UNCHANGED <<pc, regs, locals, resumePc>>

NativeStep == \/ NativeLoad \/ NativeOperate \/ NativeGetGlobal \/ NativeSetGlobal
              \/ NativeHoistVar \/ NativeJump \/ NativeJumpIf \/ NativeHelper
              \/ NoInterpreter \/ NativeClosure \/ NativeReturn

-----------------------------------------------------------------------------
(* Leaving native code.                                                    *)

Returned == /\ phase = "exit" /\ flag = 0
            /\ phase' = "over" /\ status' = "returned" /\ result' = ret
            /\ UNCHANGED <<prog, pc, regs, env, outer, closed, effects, locals,
                           flag, resumePc, ret>>

Threw == /\ phase = "exit" /\ flag = 2
         /\ phase' = "over" /\ status' = "threw"
         /\ UNCHANGED <<prog, pc, regs, env, outer, closed, effects, result, locals,
                        flag, resumePc, ret>>

\* A frame is pushed whose registers are the native ones and whose environment
\* is made from the owned part of the buffer.
Resume == /\ phase = "exit" /\ flag = 3
          /\ phase' = "interp" /\ pc' = resumePc
          /\ env' = [n \in Owned(prog) |-> locals[n]]
          /\ UNCHANGED <<prog, regs, outer, closed, effects, status, result, locals,
                         flag, resumePc, ret>>

Interpret == /\ phase = "interp" /\ InterpNext /\ UNCHANGED regionVars

Next == \/ RunInterpreted \/ EnterRegion \/ NativeStep \/ Returned \/ Threw
        \/ Resume \/ Interpret

Spec == Init /\ [][Next]_vars
-----------------------------------------------------------------------------
Statuses == {"running", "returned", "threw"}
Holds(f, S) == f \in [S -> {f[x] : x \in S}] /\ \A x \in S : Word(f[x])

(* Registers and variables hold boxed values or the bare word of a         *)
(* comparison, an SMI within its range; the buffer and the environment     *)
(* have a slot for every variable the program names.                       *)
TypeOK ==
    /\ prog \in DOMAIN Programs
    /\ phase \in {"call", "native", "exit", "interp", "over"}
    /\ Holds(regs, Regs)
    /\ Holds(env, Owned(prog))
    /\ phase \in {"native", "exit", "over"} => Holds(locals, Slots(prog))
    /\ \A n \in DOMAIN outer : WellBoxed(outer[n])
    /\ status \in Statuses /\ effects \in 0 .. MaxEffects /\ closed \in BOOLEAN
    /\ flag \in {0, 2, 3} /\ (flag = 3 => resumePc \in Offsets(prog))

\* The registers an instruction reads, other than to branch on.
Reads(i) ==
    CASE i.op \in {"MOVE", "RETURN", "GET_PROP"} \cup StoreOps \cup UnaryOps -> {i.l}
      [] i.op \in (Operators \ UnaryOps) \cup {"SET_PROP", "GET_PROP_DYN"} -> {i.l, i.r}
      [] i.op = "SET_PROP_DYN" -> {i.d, i.l, i.r}
      [] i.op = "CALL" -> i.l .. i.l + i.r
      [] OTHER -> {}

Executing == phase \in {"native", "interp"} /\ status = "running" /\ pc \in Offsets(prog)

(* The bare 0 or 1 of a comparison only gates a branch: no other           *)
(* instruction reads a register that holds one, and no interpreted one     *)
(* does ("a boolean never escapes into a stored/returned value",           *)
(* src/src/jit/int_fn_jit.zig:17).                                         *)
BooleansGateBranches ==
    Executing =>
        /\ \A r \in Reads(Instr) : regs[r] \notin BareWords
        /\ phase = "interp" /\ Instr.op \in JumpIfOps => regs[Instr.l] \notin BareWords

(* A native conditional jump, which compares a word with 0, goes where the *)
(* truth value of what the word stands for goes.                           *)
BranchesAgree ==
    phase = "native" /\ Native(JumpIfOps) => (NonZero(WL) <=> ToBoolean(Js(WL)))

(* When native code reads a captured variable from its buffer, the         *)
(* variable still has the value that was copied on entry.                  *)
CapturesCurrent ==
    Native({"GET_GLOBAL"}) /\ Instr.name \in Captured(prog) =>
        Instr.name \in DOMAIN outer /\ locals[Instr.name] = outer[Instr.name]

Faithful == BooleansGateBranches /\ BranchesAgree /\ CapturesCurrent

\* What code must be like for the analysis to be right about it: the registers
\* of comparisons are used for nothing else, every conditional jump is reached
\* from a comparison and tests its register, and code that reads captured
\* variables runs nothing that could assign them.
BoolRegs(p) == {Code(p)[o].d : o \in {x \in Offsets(p) : Code(p)[x].op \in BoolOps}}
Branches(p) == {o \in Offsets(p) : Code(p)[o].op \in JumpIfOps}
AnswerOps == LoadOps \cup Operators \cup HelperOps \cup {"GET_GLOBAL", "NEW_CLOSURE"}

DisciplinedAt(p, o) ==
    LET i == Code(p)[o]
        n == o + InstrSize(i.op)
    IN  /\ Reads(i) \cap BoolRegs(p) = {}
        /\ i.op \in AnswerOps \ BoolOps => i.d \notin BoolRegs(p)
        /\ i.op \in JumpIfOps => o # 0 /\ i.l \in BoolRegs(p)
        /\ i.op \in JumpIfOps \cup {"JMP"} => i.to \notin Branches(p)
        /\ n \in Branches(p) => i.op \in BoolOps /\ i.d = Code(p)[n].l
        /\ i.op \in HelperOps => Captured(p) = {}

Disciplined(p) == \A o \in Offsets(p) : DisciplinedAt(p, o)

-----------------------------------------------------------------------------
(* Native execution implements interpretation.  The frame that is          *)
(* interpreted in the abstract has a boolean where native code has a bare  *)
(* word, and the owned variables of the buffer for its environment; it     *)
(* ends when native code does, before the flag is read.                    *)

AbsRegs == [r \in Regs |-> Js(regs[r])]
AbsEnv  == IF phase \in {"call", "interp"} THEN env ELSE [n \in Owned(prog) |-> locals[n]]
AbsStatus == IF phase # "exit" \/ flag = 3 THEN status
             ELSE IF flag = 0 THEN "returned" ELSE "threw"
AbsResult == IF phase = "exit" /\ flag = 0 THEN ret ELSE result

Interp == INSTANCE Interpreter
              WITH regs <- AbsRegs, env <- AbsEnv, status <- AbsStatus, result <- AbsResult

(* Every behaviour of a call that runs natively, deopts, throws or resumes *)
(* is one the interpreter alone could have had: the same values in the     *)
(* same registers and variables, each effect once and in the same order,   *)
(* the same result or exception.                                           *)
ImplementsInterpreter == Interp!InterpSpec
=============================================================================
