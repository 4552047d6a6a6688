----------------------- MODULE NativeImplementsProofs -----------------------
(***************************************************************************)
(* Native execution implements interpretation, for every program and every *)
(* machine width, in every behaviour that the three hazards of Faithful    *)
(* spare: no bare boolean is read as a value, no branch tests a value as a *)
(* word, no captured variable changes under the region's copy of it.       *)
(***************************************************************************)
EXTENDS NativeRegionProofs

-----------------------------------------------------------------------------
(* The abstract interpreter computes with the same operators.              *)

\* The operators of the abstract interpreter are those of the machine.
LEMMA SameOperators ==
    ASSUME NEW op, NEW l, NEW r
    PROVE  Interp!JsResult(op, l, r) = JsResult(op, l, r)
  BY DEF Interp!JsResult, Interp!JsUnary, Interp!JsStep, Interp!JsArith, Interp!JsBitwise,
         Interp!JsCompare, Interp!JsLooseEqual, Interp!JsStrictEqual, Interp!JsLess,
         Interp!Ordered, Interp!SmiArith, Interp!Exact, Interp!MakeNumber, Interp!ToNumber,
         Interp!ToBoolean, Interp!Smi, Interp!Dbl, Interp!Bool, Interp!IsNumber,
         Interp!Nullish, Interp!SmiInts,
         Interp!ArithOps, Interp!BitwiseOps, Interp!ShiftOps, Interp!StepOps,
         Interp!CompareOps, Interp!UnaryOps,
         JsResult, JsUnary, JsStep, JsArith, JsBitwise,
         JsCompare, JsLooseEqual, JsStrictEqual, JsLess,
         Ordered, SmiArith, Exact, MakeNumber, ToNumber,
         ToBoolean, Smi, Dbl, Bool, IsNumber, Nullish, SmiInts,
         ArithOps, BitwiseOps, ShiftOps, StepOps, CompareOps, UnaryOps

\* So is the condition under which an operand must be coerced.
LEMMA SameCoercions ==
    ASSUME NEW op, NEW l, NEW r
    PROVE  Interp!Coerces(op, l, r) = Coerces(op, l, r)
  BY DEF Interp!Coerces, Interp!IsObject, Interp!Nullish, Interp!UnaryOps, Interp!StepOps,
         Coerces, IsObject, Nullish, UnaryOps, StepOps

\* The two read the same instruction of the same function.
LEMMA SameCode ==
    /\ Interp!Instr = Instr /\ Interp!Next1 = Next1
    /\ Interp!Owned(prog) = Owned(prog) /\ Interp!Params(prog) = Params(prog)
    /\ Interp!Offsets(prog) = Offsets(prog)
  BY DEF Interp!Instr, Interp!Next1, Interp!Owned, Interp!Offsets, Interp!Code, Interp!Params,
         Interp!Names, Interp!InstrSize, Interp!UnaryOps, Interp!StepOps,
         Instr, Next1, Owned, Offsets, Code, Params, Names, InstrSize, UnaryOps, StepOps

-----------------------------------------------------------------------------
(* What faithful execution keeps, beside the types.                        *)

\* No bare boolean is ever stored in a variable.
CleanVariables ==
    /\ \A n \in Owned(prog) : WellBoxed(env[n])
    /\ phase \in {"native", "exit", "over"} => \A n \in Slots(prog) : WellBoxed(locals[n])

\* What the phases of a call mean.
Protocol ==
    /\ phase \in {"call", "native", "exit"} => status = "running"
    /\ status = "running" => result = Undef
    /\ phase = "native" => Accepts(prog)
    /\ phase = "exit" /\ flag = 3 => resumePc = pc

Clean == CleanVariables /\ Protocol

\* A boxed value stands for itself.
LEMMA JsOfBoxed == ASSUME NEW w, WellBoxed(w) PROVE Js(w) = w /\ Seen(w) = w /\ w \notin BareWords
  BY DEF WellBoxed, Js, Seen, BareWords, Raw

\* The abstract interpreter sees what a word stands for.
LEMMA SeenOfJs == ASSUME NEW w, Word(w) PROVE Interp!Seen(Js(w)) = Js(w)
  BY DEF Interp!Seen, Word, WellBoxed, BareWords, Raw, Js, Bool

\* The operands of an instruction that is executed, where the three hazards
\* do not strike.
LEMMA OperandsBoxed ==
    ASSUME TypeOK, Faithful, Executing
    PROVE  /\ Instr.op \in {"MOVE", "RETURN"} \cup StoreOps \cup Operators => WellBoxed(WL)
           /\ Instr.op \in Operators \ UnaryOps => WellBoxed(WR)
           /\ phase = "interp" /\ Instr.op \in JumpIfOps => WellBoxed(WL)
<1>1. Word(WL) /\ Word(WR)
  BY Operands DEF TypeOK, Holds, Executing, WL, WR
<1>2. /\ \A r \in Reads(Instr) : regs[r] \notin BareWords
      /\ phase = "interp" /\ Instr.op \in JumpIfOps => WL \notin BareWords
  BY DEF Faithful, BooleansGateBranches, WL
<1>3. /\ Instr.op \in {"MOVE", "RETURN"} \cup StoreOps \cup UnaryOps => Instr.l \in Reads(Instr)
      /\ Instr.op \in Operators \ UnaryOps => Instr.l \in Reads(Instr) /\ Instr.r \in Reads(Instr)
  BY DEF Reads, StoreOps, Operators, UnaryOps, StepOps, ArithOps, BitwiseOps, CompareOps
<1> QED BY <1>1, <1>2, <1>3 DEF WL, WR, Word

\* A call begins with boxed values in its registers and variables.
LEMMA InitClean == Init => Clean
<1> SUFFICES ASSUME Init PROVE Clean
  OBVIOUS
<1>1. PICK args \in [Params(prog) -> Arguments] :
         env = [n \in Owned(prog) |-> IF n \in Params(prog) THEN args[n] ELSE Undef]
  BY DEF Init, InterpInit
<1>2. \A n \in Owned(prog) : WellBoxed(env[n])
  BY <1>1, ValuesAssumption DEF WellBoxed, Undef
<1>3. phase = "call" /\ status = "running" /\ result = Undef
  BY DEF Init, InterpInit
<1> QED BY <1>2, <1>3 DEF Clean, CleanVariables, Protocol

\* An interpreted step.
LEMMA InterpretClean ==
    ASSUME TypeOK, Clean, phase = "interp", InterpNext, UNCHANGED regionVars
    PROVE  Clean'
<1>1. /\ prog' = prog /\ phase' = "interp"
      /\ \A n \in Owned(prog) : WellBoxed(env[n])
  BY DEF Clean, CleanVariables, regionVars, InterpNext, Load, Operate, GetGlobal, SetOwn,
         SetOuter, HoistVar, Jump, JumpIf, Branch, NewClosure, CallOut, Return, Local, Outside
<1>2. status' = "running" => result' = Undef
  BY DEF Clean, Protocol, InterpNext, Load, Operate, GetGlobal, SetOwn, SetOuter, HoistVar,
         Jump, JumpIf, Branch, NewClosure, CallOut, Return, Running, Ends
<1>3. \A n \in Owned(prog) : WellBoxed(env'[n])
  <2>1. CASE SetOwn
    <3>1. WellBoxed(L)
      BY <2>1, Operands, SeenBoxed DEF SetOwn, AtAny, TypeOK, Holds, L
    <3> QED BY <1>1, <2>1, <3>1 DEF SetOwn, TypeOK, Holds
  <2>2. CASE CallOut
    BY <1>1, <2>2, ValuesAssumption DEF CallOut, Assigned, TypeOK, Holds
  <2>3. CASE ~SetOwn /\ ~CallOut
    BY <1>1, <2>3 DEF InterpNext, Load, Operate, GetGlobal, SetOuter, HoistVar,
       Jump, JumpIf, Branch, NewClosure, Return
  <2> QED BY <2>1, <2>2, <2>3
<1> QED BY <1>1, <1>2, <1>3 DEF Clean, CleanVariables, Protocol, regionVars

\* A native step.
LEMMA NativeClean == ASSUME TypeOK, Clean, Faithful, NativeStep PROVE Clean'
<1>1. /\ prog' = prog /\ env' = env /\ status' = status /\ result' = result
      /\ phase = "native" /\ phase' \in {"native", "exit"} /\ pc \in Offsets(prog)
      /\ phase' = "exit" /\ flag' = 3 => resumePc' = pc'
  BY DEF NativeStep, NativeLoad, NativeOperate, NativeGetGlobal, NativeSetGlobal,
         NativeHoistVar, NativeJump, NativeJumpIf, NativeHelper, NoInterpreter,
         NativeClosure, NativeReturn, Native, Emitted, Stays, Private, FineDeopt, Outside
<1>2. /\ status = "running" /\ result = Undef /\ Accepts(prog)
      /\ \A n \in Owned(prog) : WellBoxed(env[n])
      /\ \A n \in Slots(prog) : WellBoxed(locals[n])
  BY <1>1 DEF Clean, CleanVariables, Protocol
<1>3. \A n \in Slots(prog) : WellBoxed(locals'[n])
  <2>1. CASE NativeSetGlobal
    <3>1. WellBoxed(WL)
      BY <1>1, <1>2, <2>1, OperandsBoxed DEF NativeSetGlobal, Native, Executing
    <3> QED BY <1>1, <1>2, <2>1, <3>1 DEF NativeSetGlobal, TypeOK, Holds
  <2>2. CASE ~NativeSetGlobal
    <3>1. locals' = locals
      BY <2>2 DEF NativeStep, NativeLoad, NativeOperate, NativeGetGlobal, NativeHoistVar,
         NativeJump, NativeJumpIf, NativeHelper, NoInterpreter, NativeClosure,
         NativeReturn, FineDeopt
    <3> QED BY <1>2, <3>1
  <2> QED BY <2>1, <2>2
<1> QED BY <1>1, <1>2, <1>3 DEF Clean, CleanVariables, Protocol, Accepts

\* Entering and leaving native code.
LEMMA ProtocolClean ==
    ASSUME TypeOK, Clean, RunInterpreted \/ EnterRegion \/ Returned \/ Threw \/ Resume
    PROVE  Clean'
<1> USE DEF Clean, CleanVariables, Protocol, frameVars
<1>1. CASE RunInterpreted
  BY <1>1 DEF RunInterpreted
<1>2. CASE EnterRegion
  <2>1. \A n \in Slots(prog) : WellBoxed(IF n \in Owned(prog) THEN env[n] ELSE outer[n])
    BY <1>2 DEF EnterRegion, Slots, TypeOK
  <2>2. \A n \in Slots(prog) : WellBoxed(locals'[n])
    BY <1>2, <2>1 DEF EnterRegion
  <2> QED BY <1>2, <2>2 DEF EnterRegion
<1>3. CASE Returned
  BY <1>3 DEF Returned
<1>4. CASE Threw
  BY <1>4 DEF Threw
<1>5. CASE Resume
  <2>1. \A n \in Owned(prog) : WellBoxed(env'[n])
    BY <1>5 DEF Resume, Slots
  <2> QED BY <1>5, <2>1 DEF Resume
<1> QED BY <1>1, <1>2, <1>3, <1>4, <1>5

-----------------------------------------------------------------------------
(* Every step is a step of the interpreter, or changes nothing it has.     *)

AbsVars == <<prog, Interp!frameVars>>

\* Storing a word in a register is storing what it stands for.
LEMMA AbsUpdate ==
    ASSUME TypeOK, NEW d \in Regs, NEW w, regs' = [regs EXCEPT ![d] = w]
    PROVE  AbsRegs' = [AbsRegs EXCEPT ![d] = Js(w)]
<1>1. DOMAIN regs = Regs
  BY DEF TypeOK, Holds
<1>2. \A r \in Regs : regs'[r] = IF r = d THEN w ELSE regs[r]
  BY <1>1
<1>3. AbsRegs' = [r \in Regs |-> IF r = d THEN Js(w) ELSE Js(regs[r])]
  BY <1>2 DEF AbsRegs
<1> QED BY <1>3 DEF AbsRegs

\* The abstract operands.
LEMMA AbsOperands ==
    ASSUME TypeOK, pc \in Offsets(prog)
    PROVE  Interp!L = Js(WL) /\ Interp!R = Js(WR)
<1>1. Word(WL) /\ Word(WR) /\ Instr.l \in Regs /\ Instr.r \in Regs
  BY Operands DEF TypeOK, Holds, WL, WR
<1>2. AbsRegs[Instr.l] = Js(WL) /\ AbsRegs[Instr.r] = Js(WR)
  BY <1>1 DEF AbsRegs, WL, WR
<1>3. Interp!L = Interp!Seen(AbsRegs[Instr.l]) /\ Interp!R = Interp!Seen(AbsRegs[Instr.r])
  BY SameCode DEF Interp!L, Interp!R
<1> QED BY <1>1, <1>2, <1>3, SeenOfJs

\* A unary operator does not look at its right operand.
LEMMA UnaryIgnores ==
    ASSUME NEW op \in UnaryOps, NEW l, NEW r, NEW q
    PROVE  JsResult(op, l, r) = JsResult(op, l, q) /\ Coerces(op, l, r) = Coerces(op, l, q)
  BY DEF JsResult, Coerces, UnaryOps, StepOps, ArithOps, BitwiseOps, CompareOps

\* Native code and the interpreter are at the same instruction.
LEMMA AbsAt ==
    ASSUME NEW ops, AbsStatus = "running", pc \in Offsets(prog), Instr.op \in ops
    PROVE  Interp!AtAny(ops) /\ \A op : Instr.op = op => Interp!At(op)
  BY SameCode DEF Interp!AtAny, Interp!At

\* A step of native code that stays in the region and touches no variable.
LEMMA NativeStays ==
    ASSUME TypeOK, Clean, phase = "native", Stays, Emitted, UNCHANGED locals
    PROVE  /\ AbsStatus = "running" /\ Interp!Running /\ AbsEnv' = AbsEnv /\ prog' = prog
           /\ Private => Interp!Local
<1>1. phase' = "native" /\ status = "running" /\ result = Undef
  BY DEF Stays, Clean, Protocol
<1>2. prog' = prog /\ Owned(prog)' = Owned(prog) /\ locals' = locals
  BY DEF Emitted, Owned, Params, Names, Offsets, Code
<1>3. AbsStatus = "running" /\ AbsStatus' = "running" /\ AbsResult = Undef /\ AbsResult' = Undef
  BY <1>1 DEF AbsStatus, AbsResult, Emitted
<1>4. AbsEnv' = AbsEnv
  BY <1>1, <1>2 DEF AbsEnv
<1> QED BY <1>2, <1>3, <1>4 DEF Interp!Running, Interp!Local, Private, Emitted

\* A step that leaves the region to be resumed changes nothing.
LEMMA DeoptStutters ==
    ASSUME TypeOK, Clean, phase = "native", FineDeopt, Emitted, Private
    PROVE  UNCHANGED AbsVars
<1>1. phase' = "exit" /\ flag' = 3 /\ locals' = locals /\ regs' = regs
  BY DEF FineDeopt
<1>2. AbsEnv' = AbsEnv /\ AbsStatus' = AbsStatus /\ AbsResult' = AbsResult /\ AbsRegs' = AbsRegs
  BY <1>1 DEF AbsEnv, AbsStatus, AbsResult, AbsRegs, Emitted
<1> QED BY <1>2 DEF AbsVars, Interp!frameVars, FineDeopt, Emitted, Private

\* A native load is an interpreted one.
LEMMA LoadSimulates ==
    ASSUME TypeOK, Clean, Faithful, NativeLoad PROVE Interp!Load
<1> DEFINE w == IF Instr.op = "MOVE" THEN WL ELSE LoadedValue
<1>1. /\ phase = "native" /\ pc \in Offsets(prog) /\ Instr.op \in LoadOps /\ Instr.d \in Regs
      /\ Executing /\ WellBoxed(Instr.val)
  BY Operands DEF NativeLoad, Native, TypeOK, Clean, Protocol, Executing
<1>2. WellBoxed(w)
  BY <1>1, OperandsBoxed, LoadedBoxed
<1>3. AbsRegs' = [AbsRegs EXCEPT ![Instr.d] = w] /\ pc' = Next1
  BY <1>1, <1>2, AbsUpdate, JsOfBoxed DEF NativeLoad, Answer
<1>4. w = Interp!LoadedValue
  <2>1. CASE Instr.op = "MOVE"
    BY <1>1, <1>2, <2>1, AbsOperands, SameCode, JsOfBoxed DEF Interp!LoadedValue
  <2>2. CASE Instr.op # "MOVE"
    BY <1>1, <2>2, SameCode
       DEF Interp!LoadedValue, LoadedValue, LoadOps, Interp!Bool, Bool, Interp!Undef, Undef
  <2> QED BY <2>1, <2>2
<1>5. Interp!LoadOps = LoadOps
  BY DEF Interp!LoadOps, LoadOps
<1> QED BY <1>1, <1>3, <1>4, <1>5, AbsAt, NativeStays, SameCode
        DEF NativeLoad, Interp!Load, Interp!Answer

\* A native operator is the interpreted one, or deopts, which is a stutter.
LEMMA OperateSimulates ==
    ASSUME TypeOK, Clean, Faithful, NativeOperate
    PROVE  Interp!Operate \/ UNCHANGED AbsVars
<1> DEFINE w == LaneResult(Instr.op, WL, WR)
<1>1. /\ phase = "native" /\ pc \in Offsets(prog) /\ Instr.op \in Operators /\ Instr.d \in Regs
      /\ Executing /\ Word(WL) /\ Word(WR) /\ WellBoxed(WL)
      /\ Instr.op \notin UnaryOps => WellBoxed(WR)
  BY Operands, OperandsBoxed
     DEF NativeOperate, Native, TypeOK, Holds, Clean, Protocol, Executing, WL, WR
<1>2. CASE w = Deopt
  BY <1>1, <1>2, DeoptStutters DEF NativeOperate
<1>3. CASE w # Deopt
  <2>1. Word(w) /\ Js(w) = JsResult(Instr.op, WL, WR) /\ ~Coerces(Instr.op, WL, WR)
    BY <1>1, <1>3, LanesAgree DEF Agrees
  <2>2. Interp!L = WL /\ Interp!R = Js(WR)
    BY <1>1, AbsOperands, JsOfBoxed
  <2>3. /\ JsResult(Instr.op, WL, Js(WR)) = JsResult(Instr.op, WL, WR)
        /\ Coerces(Instr.op, WL, Js(WR)) = Coerces(Instr.op, WL, WR)
    BY <1>1, UnaryIgnores, JsOfBoxed
  <2>4. AbsRegs' = [AbsRegs EXCEPT ![Instr.d] = Js(w)] /\ pc' = Next1
    BY <1>1, <1>3, AbsUpdate DEF NativeOperate, Answer
  <2>5. Interp!Operators = Operators
    BY DEF Interp!Operators, Interp!ArithOps, Interp!BitwiseOps, Interp!CompareOps,
       Interp!UnaryOps, Interp!StepOps, Operators, ArithOps, BitwiseOps, CompareOps,
       UnaryOps, StepOps
  <2>6. Interp!Local /\ Interp!Running /\ AbsEnv' = AbsEnv /\ AbsStatus = "running"
    BY <1>1, <1>3, NativeStays DEF NativeOperate
  <2>7. /\ Interp!AtAny(Interp!Operators) /\ ~Interp!Coerces(Interp!Instr.op, Interp!L, Interp!R)
        /\ Js(w) = Interp!JsResult(Interp!Instr.op, Interp!L, Interp!R)
    BY <1>1, <2>1, <2>2, <2>3, <2>5, <2>6, AbsAt, SameOperators, SameCoercions, SameCode
  <2> QED BY <2>4, <2>6, <2>7, SameCode DEF Interp!Operate, Interp!Answer
<1> QED BY <1>2, <1>3

\* Reading a slot of the buffer is reading the variable.
LEMMA GetGlobalSimulates ==
    ASSUME TypeOK, Clean, Faithful, NativeGetGlobal PROVE Interp!GetGlobal
<1>1. /\ phase = "native" /\ pc \in Offsets(prog) /\ Instr.op = "GET_GLOBAL"
      /\ Instr.d \in Regs /\ Instr.name \in Slots(prog)
  BY Operands DEF NativeGetGlobal, Native, TypeOK, Slots, Captured, Names, Instr
<1>2. WellBoxed(locals[Instr.name])
  BY <1>1 DEF Clean, CleanVariables
<1>3. AbsRegs' = [AbsRegs EXCEPT ![Instr.d] = locals[Instr.name]] /\ pc' = Next1
  <2> DEFINE w == locals[Instr.name]
  <2>1. regs' = [regs EXCEPT ![Instr.d] = w] /\ pc' = Next1
    BY DEF NativeGetGlobal, Answer
  <2>2. Js(w) = w
    BY <1>2, JsOfBoxed
  <2>3. AbsRegs' = [AbsRegs EXCEPT ![Instr.d] = Js(w)]
    BY <1>1, <2>1, AbsUpdate
  <2> QED BY <2>1, <2>2, <2>3
<1>4. /\ AbsStatus = "running" /\ Interp!Running /\ AbsEnv' = AbsEnv /\ Interp!Local
      /\ Interp!At("GET_GLOBAL")
  BY <1>1, NativeStays, AbsAt DEF NativeGetGlobal
<1>5. AbsEnv = [n \in Owned(prog) |-> locals[n]]
  BY <1>1 DEF AbsEnv
<1>6. CASE Instr.name \in Owned(prog)
  BY <1>1, <1>3, <1>4, <1>5, <1>6, SameCode DEF Interp!GetGlobal, Interp!Answer
<1>7. CASE Instr.name \notin Owned(prog)
  <2>1. Instr.name \in DOMAIN outer /\ locals[Instr.name] = outer[Instr.name]
    BY <1>1, <1>7 DEF Faithful, CapturesCurrent, NativeGetGlobal, Slots
  <2> QED BY <1>1, <1>3, <1>4, <1>5, <1>7, <2>1, SameCode DEF Interp!GetGlobal, Interp!Answer
<1> QED BY <1>6, <1>7

\* Writing a slot of the buffer is assigning the function's own variable.
LEMMA SetGlobalSimulates ==
    ASSUME TypeOK, Clean, Faithful, NativeSetGlobal PROVE Interp!SetOwn
<1>1. /\ phase = "native" /\ pc \in Offsets(prog) /\ Instr.op \in StoreOps
      /\ status = "running" /\ result = Undef /\ Executing /\ Accepts(prog)
  BY DEF NativeSetGlobal, Native, Clean, Protocol, Executing
<1>2. Instr.name \in Owned(prog) /\ WellBoxed(WL)
  BY <1>1, OperandsBoxed DEF Accepts, Instr
<1>3. /\ phase' = "native" /\ prog' = prog /\ status' = status /\ result' = result
      /\ locals' = [locals EXCEPT ![Instr.name] = WL] /\ regs' = regs /\ pc' = Next1
  BY <1>1 DEF NativeSetGlobal, Stays, Emitted, GoOn
<1>4. DOMAIN locals = Slots(prog) /\ Owned(prog) \subseteq Slots(prog)
  BY <1>1 DEF TypeOK, Holds, Slots
<1>5. AbsEnv = [n \in Owned(prog) |-> locals[n]]
  BY <1>1 DEF AbsEnv
<1>6. AbsEnv' = [n \in Owned(prog) |-> IF n = Instr.name THEN WL ELSE locals[n]]
  <2>1. AbsEnv' = [n \in Owned(prog) |-> locals'[n]]
    BY <1>3 DEF AbsEnv, Owned, Params, Names, Offsets, Code
  <2> QED BY <1>3, <1>4, <2>1
<1>7. AbsEnv' = [AbsEnv EXCEPT ![Instr.name] = WL]
  BY <1>5, <1>6
<1>8. Interp!L = WL
  BY <1>1, <1>2, AbsOperands, JsOfBoxed
<1>9. AbsRegs' = AbsRegs /\ AbsStatus = "running" /\ Interp!Running
  BY <1>1, <1>3 DEF AbsRegs, AbsStatus, AbsResult, Interp!Running
<1>10. Interp!AtAny(Interp!StoreOps)
  BY <1>1, <1>9, AbsAt DEF Interp!StoreOps, StoreOps
<1> QED BY <1>2, <1>3, <1>5, <1>7, <1>8, <1>9, <1>10, SameCode
        DEF Interp!SetOwn, Interp!GoOn, Interp!Local, NativeSetGlobal, Private, Emitted

\* Native jumps go where interpreted ones go.
LEMMA JumpsSimulate ==
    ASSUME TypeOK, Clean, Faithful, NativeHoistVar \/ NativeJump \/ NativeJumpIf
    PROVE  Interp!HoistVar \/ Interp!Jump \/ Interp!JumpIf
<1>1. /\ phase = "native" /\ pc \in Offsets(prog) /\ regs' = regs
      /\ Stays /\ Emitted /\ Private /\ UNCHANGED locals
  BY DEF NativeHoistVar, NativeJump, NativeJumpIf, Native, GoOn
<1>2. /\ AbsRegs' = AbsRegs /\ AbsStatus = "running" /\ Interp!Running
      /\ AbsEnv' = AbsEnv /\ Interp!Local
  BY <1>1, NativeStays DEF AbsRegs
<1>3. CASE NativeHoistVar
  BY <1>1, <1>2, <1>3, AbsAt, SameCode DEF NativeHoistVar, Native, GoOn, Interp!HoistVar, Interp!GoOn
<1>4. CASE NativeJump
  BY <1>1, <1>2, <1>4, AbsAt, SameCode DEF NativeJump, Native, Interp!Jump
<1>5. CASE NativeJumpIf
  <2>1. Interp!ToBoolean(Interp!L) = ToBoolean(Js(WL))
    <3>1. Interp!ToBoolean(Js(WL)) = ToBoolean(Js(WL))
      BY DEF Interp!ToBoolean, ToBoolean, Interp!IsNumber, IsNumber, Interp!Nullish, Nullish
    <3> QED BY <1>1, <3>1, AbsOperands
  <2>2. NonZero(WL) <=> ToBoolean(Js(WL))
    BY <1>5 DEF Faithful, BranchesAgree, NativeJumpIf, Native
  <2>3. Interp!AtAny(Interp!JumpIfOps)
    BY <1>1, <1>2, <1>5, AbsAt DEF NativeJumpIf, Native, Interp!JumpIfOps, JumpIfOps
  <2> QED BY <1>2, <1>5, <2>1, <2>2, <2>3, SameCode
          DEF NativeJumpIf, Taken, Interp!JumpIf, Interp!Branch
<1> QED BY <1>3, <1>4, <1>5

\* Interpreted or native, code outside the function answers a boxed value.
LEMMA AnswersSimulate ==
    ASSUME TypeOK, pc \in Offsets(prog), Answers PROVE Interp!Answers
<1>1. CASE Instr.op \in {"SET_PROP", "SET_PROP_DYN"}
  BY <1>1, SameCode DEF Answers, GoOn, Interp!Answers, Interp!GoOn, AbsRegs
<1>2. CASE Instr.op \notin {"SET_PROP", "SET_PROP_DYN"}
  <2> DEFINE A == IF Instr.op \in CompareOps THEN {Bool(TRUE), Bool(FALSE)} ELSE HelperValues
  <2>1. PICK v \in A : Answer(Instr.d, v)
    BY <1>2 DEF Answers
  <2>2. WellBoxed(v)
    BY <2>1, BoolBoxed, ValuesAssumption
  <2>3. Instr.d \in Regs /\ Js(v) = v
    BY <2>2, JsOfBoxed, Operands DEF TypeOK
  <2>4. AbsRegs' = [AbsRegs EXCEPT ![Instr.d] = v] /\ pc' = Next1
    <3>1. AbsRegs' = [AbsRegs EXCEPT ![Instr.d] = Js(v)]
      BY <2>1, <2>3, AbsUpdate DEF Answer
    <3> QED BY <2>1, <2>3, <3>1 DEF Answer
  <2>5. A = IF Instr.op \in Interp!CompareOps THEN {Interp!Bool(TRUE), Interp!Bool(FALSE)}
            ELSE HelperValues
    BY DEF Interp!CompareOps, CompareOps, Interp!Bool, Bool
  <2> QED BY <1>2, <2>1, <2>4, <2>5, SameCode DEF Interp!Answers, Interp!Answer
<1> QED BY <1>1, <1>2

\* A helper call is one interpreted step outside the function.
LEMMA HelperSimulates ==
    ASSUME TypeOK, Clean, Faithful, NativeHelper PROVE Interp!CallOut
<1>1. /\ phase = "native" /\ pc \in Offsets(prog) /\ Instr.op \in HelperOps
      /\ status = "running" /\ result = Undef
      /\ Outside /\ status' = status /\ result' = result /\ locals' = locals
  BY DEF NativeHelper, Native, Clean, Protocol
<1>2. AbsStatus = "running" /\ Interp!Outside /\ prog' = prog
  BY <1>1 DEF AbsStatus, Outside, Interp!Outside
<1>3. Interp!RunsOutside
  BY <1>1, <1>2, AbsAt DEF Interp!RunsOutside, Interp!HelperOps, HelperOps, Interp!PropertyOps,
     PropertyOps
<1>4. CASE Answers /\ Stays
  <2>1. Interp!Answers /\ AbsEnv' = AbsEnv /\ Interp!Running
    BY <1>1, <1>2, <1>4, AnswersSimulate
       DEF Stays, AbsEnv, AbsStatus, AbsResult, Interp!Running, Owned, Params, Names, Offsets, Code
  <2> QED BY <1>2, <1>3, <2>1 DEF Interp!CallOut, Interp!Assigned
<1>5. CASE phase' = "exit" /\ flag' = 2 /\ UNCHANGED <<pc, regs, resumePc, ret>>
  <2>1. /\ AbsEnv' = AbsEnv /\ AbsStatus' = "threw" /\ AbsResult' = Undef
        /\ AbsRegs' = AbsRegs /\ pc' = pc
    BY <1>1, <1>2, <1>5
       DEF AbsEnv, AbsStatus, AbsResult, AbsRegs, Owned, Params, Names, Offsets, Code
  <2> QED BY <1>2, <1>3, <2>1
          DEF Interp!CallOut, Interp!Assigned, Interp!Ends, Interp!Undef, Undef
<1> QED BY <1>4, <1>5 DEF NativeHelper

\* A native return answers what the interpreter would have answered.
LEMMA ReturnSimulates ==
    ASSUME TypeOK, Clean, Faithful, NativeReturn PROVE Interp!Return
<1>1. /\ phase = "native" /\ pc \in Offsets(prog) /\ Instr.op \in {"RETURN", "RETURN_UNDEF"}
      /\ status = "running" /\ Executing
  BY DEF NativeReturn, Native, Clean, Protocol, Executing
<1>2. Instr.op = "RETURN" => Interp!L = WL
  BY <1>1, OperandsBoxed, AbsOperands, JsOfBoxed
<1>3. /\ AbsStatus' = "returned" /\ AbsEnv' = AbsEnv /\ AbsRegs' = AbsRegs
      /\ AbsResult' = (IF Instr.op = "RETURN" THEN WL ELSE Undef)
  BY <1>1 DEF NativeReturn, AbsStatus, AbsEnv, AbsRegs, AbsResult, Emitted, Owned, Params,
              Names, Offsets, Code
<1>4. Interp!AtAny({"RETURN", "RETURN_UNDEF"})
  BY <1>1, AbsAt DEF AbsStatus
<1> QED BY <1>1, <1>2, <1>3, <1>4, SameCode
        DEF NativeReturn, Emitted, Private, Interp!Return, Interp!Ends, Interp!Local,
            Interp!Undef, Undef

\* One step of native code is one step of the interpreter, or the deopt.
LEMMA NativeSimulates ==
    ASSUME TypeOK, Clean, Faithful, NativeStep
    PROVE  Interp!InterpNext \/ UNCHANGED AbsVars
<1>1. CASE NoInterpreter \/ NativeClosure
  BY <1>1, DeoptStutters DEF NoInterpreter, NativeClosure, Native
<1> QED BY <1>1, LoadSimulates, OperateSimulates, GetGlobalSimulates, SetGlobalSimulates,
           JumpsSimulate, HelperSimulates, ReturnSimulates DEF NativeStep, Interp!InterpNext

\* Entering and leaving native code is invisible.
LEMMA ProtocolSimulates ==
    ASSUME TypeOK, Clean, RunInterpreted \/ EnterRegion \/ Returned \/ Threw \/ Resume
    PROVE  UNCHANGED AbsVars
<1> USE DEF AbsVars, Interp!frameVars, AbsStatus, AbsResult, AbsRegs, frameVars
<1>0. env = [n \in Owned(prog) |-> env[n]]
  BY DEF TypeOK, Holds
<1>1. CASE RunInterpreted
  BY <1>1 DEF RunInterpreted, AbsEnv
<1>2. CASE EnterRegion
  <2>1. prog' = prog /\ Owned(prog') = Owned(prog) /\ Owned(prog) \subseteq Slots(prog)
    BY <1>2 DEF EnterRegion, Slots
  <2>2. AbsEnv' = [n \in Owned(prog) |-> env[n]]
    BY <1>2, <2>1 DEF EnterRegion, AbsEnv
  <2>3. AbsEnv' = AbsEnv
    BY <1>0, <1>2, <2>2 DEF EnterRegion, AbsEnv
  <2> QED BY <1>2, <2>3 DEF EnterRegion, Clean, Protocol
<1>3. CASE Returned
  BY <1>3 DEF Returned, AbsEnv
<1>4. CASE Threw
  BY <1>4 DEF Threw, AbsEnv
<1>5. CASE Resume
  BY <1>5 DEF Resume, AbsEnv, Clean, Protocol
<1> QED BY <1>1, <1>2, <1>3, <1>4, <1>5

\* A resumed frame may still hold bare words, which no instruction reads: its
\* steps are those of a frame with booleans in their place.
LEMMA InterpretSimulates ==
    ASSUME TypeOK, Clean, Faithful, Interpret PROVE Interp!InterpNext
<1> DEFINE Vars == /\ AbsStatus = status /\ AbsStatus' = status'
                   /\ AbsResult = result /\ AbsResult' = result'
                   /\ AbsEnv = env /\ AbsEnv' = env'
<1>1. phase = "interp" /\ InterpNext /\ Vars
  BY DEF Interpret, regionVars, AbsStatus, AbsResult, AbsEnv
<1>2. regs' = regs => AbsRegs' = AbsRegs
  BY DEF AbsRegs
<1>3. ASSUME pc \in Offsets(prog), status = "running"
      PROVE  /\ Instr.op \in {"MOVE", "RETURN"} \cup StoreOps \cup Operators \cup JumpIfOps =>
                    L = Interp!L /\ WellBoxed(L)
             /\ Instr.op \in Operators \ UnaryOps => R = Interp!R /\ WellBoxed(R)
             /\ WellBoxed(R) /\ Instr.d \in Regs /\ WellBoxed(Interp!R)
  <2>1. Word(WL) /\ Word(WR) /\ Instr.d \in Regs
    BY <1>3, Operands DEF TypeOK, Holds, WL, WR
  <2>2. /\ Instr.op \in {"MOVE", "RETURN"} \cup StoreOps \cup Operators \cup JumpIfOps => WellBoxed(WL)
        /\ Instr.op \in Operators \ UnaryOps => WellBoxed(WR)
    BY <1>1, <1>3, OperandsBoxed DEF Executing
  <2>3. L = Seen(WL) /\ R = Seen(WR) /\ Interp!L = Js(WL) /\ Interp!R = Js(WR)
    BY <1>3, AbsOperands DEF L, R, WL, WR
  <2>4. WellBoxed(Js(WR)) /\ WellBoxed(Seen(WR))
    BY <2>1, SeenBoxed, BoolBoxed, JsOfBoxed DEF Js, Word, BareWords, Raw
  <2> QED BY <2>1, <2>2, <2>3, <2>4, JsOfBoxed
<1>4. ASSUME NEW v, WellBoxed(v), pc \in Offsets(prog), Answer(Instr.d, v)
      PROVE  Interp!Answer(Instr.d, v)
  <2>1. Instr.d \in Regs /\ regs' = [regs EXCEPT ![Instr.d] = v] /\ Js(v) = v
    BY <1>4, Operands, JsOfBoxed DEF TypeOK, Answer
  <2>2. AbsRegs' = [AbsRegs EXCEPT ![Instr.d] = Js(v)]
    BY <2>1, AbsUpdate
  <2> QED BY <1>4, <2>1, <2>2, SameCode DEF Answer, Interp!Answer
<1>5. /\ Local => Interp!Local
      /\ Running => Interp!Running
      /\ GoOn => Interp!GoOn
      /\ \A how, v : Ends(how, v) => Interp!Ends(how, v)
  BY <1>1, <1>2, SameCode DEF Local, Interp!Local, Running, Interp!Running, GoOn, Interp!GoOn,
     Ends, Interp!Ends
<1>6. ASSUME NEW ops, AtAny(ops)
      PROVE  Interp!AtAny(ops) /\ (\A op : Instr.op = op => Interp!At(op))
             /\ pc \in Offsets(prog) /\ status = "running" /\ Instr.op \in ops
  BY <1>1, <1>6, AbsAt DEF AtAny
<1>7. CASE Load
  <2>1. AtAny(LoadOps) /\ Answer(Instr.d, LoadedValue) /\ Local /\ Running /\ env' = env
    BY <1>7 DEF Load
  <2>2. WellBoxed(LoadedValue) /\ pc \in Offsets(prog) /\ Interp!AtAny(LoadOps)
    BY <2>1, <1>6, LoadedBoxed
  <2>3. LoadedValue = Interp!LoadedValue
    <3>1. CASE Instr.op = "MOVE"
      BY <1>3, <1>6, <2>1, <3>1, SameCode DEF Interp!LoadedValue, LoadedValue
    <3>2. CASE Instr.op # "MOVE"
      BY <1>6, <2>1, <3>2, SameCode
         DEF Interp!LoadedValue, LoadedValue, LoadOps, Interp!Bool, Bool, Interp!Undef, Undef
    <3> QED BY <3>1, <3>2
  <2>4. Interp!LoadOps = LoadOps
    BY DEF Interp!LoadOps, LoadOps
  <2> QED BY <1>1, <1>4, <1>5, <2>1, <2>2, <2>3, <2>4, SameCode
          DEF Interp!Load, Interp!InterpNext
<1>8. CASE Operate
  <2>1. AtAny(Operators) /\ ~Coerces(Instr.op, L, R) /\ Local /\ Running /\ env' = env
        /\ Answer(Instr.d, JsResult(Instr.op, L, R))
    BY <1>8 DEF Operate
  <2>2. pc \in Offsets(prog) /\ Instr.op \in Operators /\ WellBoxed(L) /\ L = Interp!L
    BY <2>1, <1>3, <1>6
  <2>3. /\ Coerces(Instr.op, L, R) = Coerces(Instr.op, Interp!L, Interp!R)
        /\ JsResult(Instr.op, L, R) = JsResult(Instr.op, Interp!L, Interp!R)
    BY <2>1, <2>2, <1>3, <1>6, UnaryIgnores
  <2>4. WellBoxed(JsResult(Instr.op, L, R))
    BY <2>1, <2>2, <1>3, <1>6, JsResultBoxed
  <2>5. Interp!Operators = Operators
    BY DEF Interp!Operators, Interp!ArithOps, Interp!BitwiseOps, Interp!CompareOps,
       Interp!UnaryOps, Interp!StepOps, Operators, ArithOps, BitwiseOps, CompareOps,
       UnaryOps, StepOps
  <2>6. Interp!AtAny(Interp!Operators) /\ Interp!Answer(Instr.d, JsResult(Instr.op, L, R))
    BY <1>4, <1>6, <2>1, <2>2, <2>4, <2>5
  <2> QED BY <1>1, <1>5, <2>1, <2>3, <2>6, SameCode, SameOperators, SameCoercions
          DEF Interp!Operate, Interp!InterpNext
<1>9. CASE GetGlobal
  <2>1. AtAny({"GET_GLOBAL"}) /\ Local /\ env' = env
    BY <1>9 DEF GetGlobal, At, AtAny
  <2>2. pc \in Offsets(prog) /\ Interp!At("GET_GLOBAL") /\ DOMAIN env = Owned(prog)
    BY <2>1, <1>6 DEF TypeOK, Holds
  <2>3. CASE Instr.name \in DOMAIN env /\ Answer(Instr.d, env[Instr.name]) /\ Running
    <3>1. WellBoxed(env[Instr.name])
      BY <2>2, <2>3 DEF Clean, CleanVariables
    <3> QED BY <1>1, <1>4, <1>5, <2>1, <2>2, <2>3, <3>1, SameCode
            DEF Interp!GetGlobal, Interp!InterpNext
  <2>4. CASE /\ Instr.name \notin DOMAIN env /\ Instr.name \in DOMAIN outer
             /\ Answer(Instr.d, outer[Instr.name]) /\ Running
    <3>1. WellBoxed(outer[Instr.name])
      BY <2>4 DEF TypeOK
    <3> QED BY <1>1, <1>4, <1>5, <2>1, <2>2, <2>4, <3>1, SameCode
            DEF Interp!GetGlobal, Interp!InterpNext
  <2>5. CASE Instr.name \notin DOMAIN env \cup DOMAIN outer /\ Ends("threw", Undef)
    BY <1>1, <1>5, <2>1, <2>2, <2>5, SameCode
       DEF Interp!GetGlobal, Interp!InterpNext, Interp!Undef, Undef
  <2> QED BY <1>9, <2>3, <2>4, <2>5 DEF GetGlobal
<1>10. ASSUME AtAny(StoreOps) PROVE L = Interp!L /\ Interp!AtAny(Interp!StoreOps)
  <2>1. Interp!StoreOps = StoreOps
    BY DEF Interp!StoreOps, StoreOps
  <2> QED BY <1>10, <1>3, <1>6, <2>1
<1>11. CASE SetOwn
  BY <1>1, <1>5, <1>10, <1>11, SameCode DEF SetOwn, Interp!SetOwn, Interp!InterpNext
<1>12. CASE SetOuter
  <2>1. L = Interp!L /\ Interp!AtAny(Interp!StoreOps)
    BY <1>10, <1>12 DEF SetOuter
  <2> QED BY <1>1, <1>5, <1>12, <2>1, SameCode
          DEF SetOuter, Interp!SetOuter, Interp!InterpNext, Interp!Undef, Undef
<1>13. CASE HoistVar
  <2>1. Interp!At("HOIST_VAR")
    BY <1>6, <1>13 DEF HoistVar, At, AtAny
  <2> QED BY <1>1, <1>5, <1>13, <2>1 DEF HoistVar, Interp!HoistVar, Interp!InterpNext
<1>14. CASE Jump
  <2>1. Interp!At("JMP")
    BY <1>6, <1>14 DEF Jump, At, AtAny
  <2> QED BY <1>1, <1>2, <1>5, <1>14, <2>1, SameCode DEF Jump, Interp!Jump, Interp!InterpNext
<1>15. CASE JumpIf
  <2>1. L = Interp!L /\ Interp!AtAny(Interp!JumpIfOps)
    BY <1>3, <1>6, <1>15 DEF JumpIf, Interp!JumpIfOps, JumpIfOps
  <2>2. Interp!ToBoolean(L) = ToBoolean(L)
    BY DEF Interp!ToBoolean, ToBoolean, Interp!IsNumber, IsNumber, Interp!Nullish, Nullish
  <2> QED BY <1>1, <1>2, <1>5, <1>15, <2>1, <2>2, SameCode
          DEF JumpIf, Branch, Interp!JumpIf, Interp!Branch, Interp!InterpNext
<1>16. CASE NewClosure
  <2>1. Interp!At("NEW_CLOSURE") /\ pc \in Offsets(prog)
    BY <1>6, <1>16 DEF NewClosure, At, AtAny
  <2>2. WellBoxed(Cell(0)) /\ Interp!Cell(0) = Cell(0)
    BY DEF WellBoxed, Cell, Interp!Cell
  <2>3. Interp!Answer(Instr.d, Interp!Cell(0))
    BY <1>4, <1>16, <2>1, <2>2 DEF NewClosure
  <2> QED BY <1>1, <1>5, <1>16, <2>1, <2>3, SameCode
          DEF NewClosure, Interp!NewClosure, Interp!InterpNext
<1>17. CASE CallOut
  <2>1. Interp!RunsOutside /\ pc \in Offsets(prog)
    <3>1. CASE AtAny(HelperOps)
      BY <1>6, <3>1 DEF Interp!RunsOutside, Interp!HelperOps, HelperOps, Interp!PropertyOps,
         PropertyOps
    <3>2. CASE AtAny(Operators) /\ Coerces(Instr.op, L, R)
      <4>1. Interp!Operators = Operators
        BY DEF Interp!Operators, Interp!ArithOps, Interp!BitwiseOps, Interp!CompareOps,
           Interp!UnaryOps, Interp!StepOps, Operators, ArithOps, BitwiseOps, CompareOps,
           UnaryOps, StepOps
      <4>2. Coerces(Instr.op, L, R) = Coerces(Instr.op, Interp!L, Interp!R)
        BY <1>3, <1>6, <3>2, UnaryIgnores
      <4> QED BY <1>6, <3>2, <4>1, <4>2, SameCode, SameCoercions DEF Interp!RunsOutside
    <3> QED BY <1>17, <3>1, <3>2 DEF CallOut, RunsOutside
  <2>2. Interp!Outside /\ env' \in Interp!Assigned(env)
    BY <1>17 DEF CallOut, Outside, Interp!Outside, Assigned, Interp!Assigned
  <2>3. CASE Answers /\ Running
    BY <1>1, <1>5, <2>1, <2>2, <2>3, AnswersSimulate DEF Interp!CallOut, Interp!InterpNext
  <2>4. CASE Ends("threw", Undef)
    BY <1>1, <1>5, <2>1, <2>2, <2>4 DEF Interp!CallOut, Interp!InterpNext, Interp!Undef, Undef
  <2> QED BY <1>17, <2>3, <2>4 DEF CallOut
<1>18. CASE Return
  <2>1. Interp!AtAny({"RETURN", "RETURN_UNDEF"}) /\ pc \in Offsets(prog)
    BY <1>6, <1>18 DEF Return
  <2>2. Instr.op = "RETURN" => L = Interp!L
    BY <1>3, <1>6, <1>18 DEF Return
  <2> QED BY <1>1, <1>5, <1>18, <2>1, <2>2, SameCode
          DEF Return, Interp!Return, Interp!InterpNext, Interp!Undef, Undef
<1> QED BY <1>1, <1>7, <1>8, <1>9, <1>11, <1>12, <1>13, <1>14, <1>15, <1>16, <1>17, <1>18
        DEF InterpNext

\* The initial frame is one of the interpreter's.
LEMMA InitSimulates == Init => Interp!InterpInit
<1> SUFFICES ASSUME Init PROVE Interp!InterpInit
  OBVIOUS
<1>1. AbsEnv = env /\ AbsStatus = status /\ AbsResult = result
  BY DEF Init, AbsEnv, AbsStatus, AbsResult
<1>2. AbsRegs = [r \in Regs |-> Interp!Undef]
  BY DEF Init, InterpInit, AbsRegs, Js, Undef, Interp!Undef
<1>3. \E args \in [Interp!Params(prog) -> Arguments] :
         env = [n \in Interp!Owned(prog) |->
                   IF n \in Interp!Params(prog) THEN args[n] ELSE Interp!Undef]
  BY SameCode DEF Init, InterpInit, Undef, Interp!Undef
<1> QED BY <1>1, <1>2, <1>3 DEF Init, InterpInit, Interp!InterpInit, Undef, Interp!Undef

(* Native execution implements interpretation: whatever mixture of native  *)
(* and interpreted steps a call takes, with deopts, helpers that throw and *)
(* resumed frames, the values, the effects and the result are those of     *)
(* some run of the interpreter alone - as long as no bare boolean is read  *)
(* as a value, no branch tests a value as a word and no captured variable  *)
(* changes while the region holds a copy.                                  *)
THEOREM Implements == Spec /\ []Faithful => ImplementsInterpreter
<1>1. TypeOK /\ Clean /\ Faithful /\ [Next]_vars => Clean'
  <2> SUFFICES ASSUME TypeOK, Clean, Faithful, [Next]_vars PROVE Clean'
    OBVIOUS
  <2>1. CASE Next
    BY <2>1, NativeClean, ProtocolClean, InterpretClean DEF Next, Interpret
  <2>2. CASE UNCHANGED vars
    BY <2>2 DEF Clean, CleanVariables, Protocol, vars, frameVars, regionVars
  <2> QED BY <2>1, <2>2
<1>2. TypeOK /\ Clean /\ Faithful /\ [Next]_vars => [Interp!InterpNext]_AbsVars
  <2> SUFFICES ASSUME TypeOK, Clean, Faithful, [Next]_vars
               PROVE  [Interp!InterpNext]_AbsVars
    OBVIOUS
  <2>1. CASE Next
    BY <2>1, NativeSimulates, ProtocolSimulates, InterpretSimulates DEF Next
  <2>2. CASE UNCHANGED vars
    BY <2>2 DEF vars, frameVars, regionVars, AbsVars, Interp!frameVars, AbsRegs, AbsEnv, AbsStatus, AbsResult
  <2> QED BY <2>1, <2>2
<1> QED BY <1>1, <1>2, InitClean, InitSimulates, TypeCorrect, PTL
        DEF Spec, ImplementsInterpreter, Interp!InterpSpec, AbsVars

-----------------------------------------------------------------------------
(* Disciplined code meets none of the hazards, so that native execution of *)
(* it implements interpretation without further conditions.                *)

\* What disciplined code keeps of its registers and of its copies.
Discipline ==
    /\ \A r \in Regs \ BoolRegs(prog) : WellBoxed(regs[r])
    /\ phase \in {"call", "native"} => \A r \in BoolRegs(prog) : regs[r] \in BareWords \cup {Undef}
    /\ phase = "native" => \A n \in Captured(prog) : n \in DOMAIN outer /\ locals[n] = outer[n]
    /\ phase = "exit" /\ flag = 3 => resumePc \notin Branches(prog)
    /\ phase = "call" => pc = 0
    /\ phase = "interp" /\ status = "running" /\ pc \in Branches(prog) => WellBoxed(regs[Instr.l])

\* A call begins with no bare word in any register.
LEMMA InitDiscipline == ASSUME Init, Disciplined(prog) PROVE Discipline
<1>1. \A r \in Regs : regs[r] = Undef
  BY DEF Init, InterpInit
<1>2. WellBoxed(Undef)
  BY DEF WellBoxed, Undef
<1>3. BoolRegs(prog) \subseteq Regs /\ prog \in DOMAIN Programs
  BY ProgramsAssumption DEF Init, InterpInit, BoolRegs
<1> QED BY <1>1, <1>2, <1>3 DEF Discipline, Init, InterpInit

\* What a step of the interpreter does to the registers.
LEMMA InterpretWrites ==
    ASSUME TypeOK, Clean, InterpNext
    PROVE  /\ prog' = prog /\ pc \in Offsets(prog)
           /\ \/ /\ Instr.op \in AnswerOps /\ pc' = Next1
                 /\ \E v : WellBoxed(v) /\ regs' = [regs EXCEPT ![Instr.d] = v]
              \/ Instr.op \notin BoolOps /\ regs' = regs
                 /\ pc' \in {Next1} \cup {x \in {Instr.to} : Instr.op \in JumpIfOps \cup {"JMP"}}
              \/ regs' = regs /\ status' # "running"
<1>1. CASE Load
  <2>1. WellBoxed(LoadedValue)
    BY <1>1, LoadedBoxed DEF Load, AtAny
  <2> QED BY <1>1, <2>1 DEF Load, AtAny, Answer, Local, AnswerOps
<1>2. CASE Operate
  <2>1. WellBoxed(L) /\ WellBoxed(R)
    BY <1>2, Operands, SeenBoxed DEF Operate, AtAny, TypeOK, Holds, L, R
  <2>2. WellBoxed(JsResult(Instr.op, L, R))
    BY <1>2, <2>1, JsResultBoxed DEF Operate, AtAny
  <2> QED BY <1>2, <2>2 DEF Operate, AtAny, Answer, Local, AnswerOps
<1>3. CASE SetOwn \/ SetOuter \/ HoistVar \/ Jump \/ JumpIf
  BY <1>3 DEF SetOwn, SetOuter, HoistVar, Jump, JumpIf, Branch, Local, GoOn, At, AtAny,
     StoreOps, JumpIfOps, BoolOps, CompareOps, Ends
<1>4. CASE NewClosure
  <2>1. WellBoxed(Cell(0))
    BY DEF WellBoxed, Cell
  <2> QED BY <1>4, <2>1 DEF NewClosure, At, Answer, AnswerOps
<1>5. CASE Return
  BY <1>5 DEF Return, AtAny, Ends, Local
<1>6. CASE GetGlobal
  <2>1. /\ Instr.name \in DOMAIN env => WellBoxed(env[Instr.name])
        /\ Instr.name \in DOMAIN outer => WellBoxed(outer[Instr.name])
    BY DEF TypeOK, Holds, Clean, CleanVariables
  <2> QED BY <1>6, <2>1 DEF GetGlobal, At, Answer, Ends, Local, AnswerOps
<1>7. CASE CallOut
  <2>1. prog' = prog /\ pc \in Offsets(prog) /\ Instr.op \in AnswerOps
    BY <1>7 DEF CallOut, RunsOutside, AtAny, Outside, AnswerOps
  <2>2. CASE Answers
    BY <2>1, <2>2, BoolBoxed, ValuesAssumption
       DEF Answers, Answer, GoOn, BoolOps, CompareOps
  <2>3. CASE Ends("threw", Undef)
    BY <2>1, <2>3 DEF Ends
  <2> QED BY <1>7, <2>2, <2>3 DEF CallOut
<1> QED BY <1>1, <1>2, <1>3, <1>4, <1>5, <1>6, <1>7 DEF InterpNext

\* What a comparison or a negation leaves is a bare word, anything else is not.
LEMMA LaneKinds ==
    ASSUME NEW op \in Operators, NEW l, NEW r, Word(l), Word(r), LaneResult(op, l, r) # Deopt
    PROVE  /\ op \in BoolOps => LaneResult(op, l, r) \in BareWords
           /\ op \notin BoolOps => WellBoxed(LaneResult(op, l, r))
<1> DEFINE w == LaneResult(op, l, r)
<1>1. Word(w)
  BY LanesAgree DEF Agrees
<1>2. CASE op \in BoolOps
  BY <1>2 DEF LaneResult, BoolOps, CompareOps, BitwiseOps, StepOps, BoxedNot, BoxedCompare,
     BareWords, Raw
<1>3. CASE op \notin BoolOps
  <2>1. w.tag \in {"smi", "dbl"}
    BY <1>3 DEF LaneResult, BoolOps, CompareOps, BitwiseOps, StepOps, Operators, ArithOps,
       UnaryOps, BoxedBinop, BoxedBitwise, BitNot, BoxedDiv, BoxedMod, BoxedNeg, ToNumeric,
       BoxedStep, Guarded, BoxF64, BoxI64, Smi, Dbl, IsNum
  <2> QED BY <1>1, <1>3, <2>1 DEF Word, BareWords, Raw
<1> QED BY <1>2, <1>3

\* In disciplined code the hazards do not strike.
LEMMA DisciplineIsFaithful ==
    ASSUME TypeOK, Discipline, Disciplined(prog) PROVE Faithful
<1>1. ASSUME Executing PROVE Reads(Instr) \subseteq Regs \ BoolRegs(prog)
  <2>1. Instr.d \in Regs /\ Instr.l \in Regs /\ Instr.r \in Regs
    BY <1>1, Operands DEF Executing, TypeOK
  <2>2. Instr.op = "CALL" => Instr.l .. Instr.l + Instr.r \subseteq Regs
    BY <1>1, ProgramsAssumption DEF Executing, TypeOK, Instr
  <2>3. Reads(Instr) \cap BoolRegs(prog) = {}
    BY <1>1 DEF Executing, Disciplined, DisciplinedAt, Instr
  <2> QED BY <2>1, <2>2, <2>3 DEF Reads
<1>2. BooleansGateBranches
  <2> SUFFICES ASSUME Executing
               PROVE  /\ \A r \in Reads(Instr) : regs[r] \notin BareWords
                      /\ phase = "interp" /\ Instr.op \in JumpIfOps => regs[Instr.l] \notin BareWords
    BY DEF BooleansGateBranches
  <2>1. \A r \in Reads(Instr) : regs[r] \notin BareWords
    BY <1>1, JsOfBoxed DEF Discipline
  <2>2. phase = "interp" /\ Instr.op \in JumpIfOps => regs[Instr.l] \notin BareWords
    BY JsOfBoxed DEF Discipline, Executing, Branches, Instr
  <2> QED BY <2>1, <2>2
<1>3. BranchesAgree
  <2> SUFFICES ASSUME phase = "native", Native(JumpIfOps)
               PROVE  NonZero(WL) <=> ToBoolean(Js(WL))
    BY DEF BranchesAgree
  <2>1. WL \in BareWords \cup {Undef}
    BY DEF Native, Discipline, Disciplined, DisciplinedAt, Instr, WL
  <2> QED BY <2>1 DEF NonZero, ToBoolean, Js, BareWords, Raw, Bool, Undef, IsNumber, Nullish
<1>4. CapturesCurrent
  BY DEF CapturesCurrent, Discipline, Native
<1> QED BY <1>2, <1>3, <1>4 DEF Faithful

\* An interpreted step keeps the discipline.
LEMMA InterpretDiscipline ==
    ASSUME TypeOK, Clean, Discipline, Disciplined(prog), Interpret PROVE Discipline'
<1>1. /\ phase = "interp" /\ phase' = "interp" /\ prog' = prog /\ BoolRegs(prog)' = BoolRegs(prog)
      /\ Branches(prog)' = Branches(prog) /\ pc \in Offsets(prog) /\ DOMAIN regs = Regs
  BY InterpretWrites DEF Interpret, regionVars, BoolRegs, Branches, Offsets, Code, TypeOK, Holds
<1>2. DisciplinedAt(prog, pc)
  BY <1>1 DEF Disciplined
<1>3. \A r \in Regs \ BoolRegs(prog) : WellBoxed(regs'[r])
  BY <1>1, InterpretWrites DEF Interpret, Discipline
<1>4. ASSUME status' = "running", pc' \in Branches(prog) PROVE WellBoxed(regs'[Instr.l'])
  <2>1. CASE /\ pc' = Next1
             /\ \E v : WellBoxed(v) /\ regs' = [regs EXCEPT ![Instr.d] = v]
    <3>1. Instr.d = Code(prog)[pc'].l /\ Instr.d \in Regs
      BY <1>1, <1>2, <1>4, <2>1, Operands DEF DisciplinedAt, Next1, Instr, TypeOK
    <3>2. Instr' = Code(prog)[pc']
      BY <1>1 DEF Instr, Code
    <3> QED BY <1>1, <2>1, <3>1, <3>2
  <2>2. CASE /\ Instr.op \notin BoolOps
             /\ pc' \in {Next1} \cup {x \in {Instr.to} : Instr.op \in JumpIfOps \cup {"JMP"}}
    BY <1>2, <1>4, <2>2 DEF DisciplinedAt, Next1, Instr
  <2> QED BY <1>4, <2>1, <2>2, InterpretWrites DEF Interpret
<1> QED BY <1>1, <1>3, <1>4 DEF Discipline

\* What a step of native code does to the registers.
LEMMA NativeWrites ==
    ASSUME TypeOK, Clean, NativeStep
    PROVE  \/ regs' = regs
           \/ /\ Instr.op \in AnswerOps
              /\ \/ Instr.op \in BoolOps /\ \E w \in BareWords : regs' = [regs EXCEPT ![Instr.d] = w]
                 \/ /\ Instr.op \notin BoolOps
                    /\ \E w : Word(w) /\ (WL \notin BareWords \/ Instr.op # "MOVE" => WellBoxed(w))
                              /\ regs' = [regs EXCEPT ![Instr.d] = w]
<1>1. phase = "native" /\ pc \in Offsets(prog) /\ Word(WL) /\ Word(WR)
  BY Operands DEF NativeStep, NativeLoad, NativeOperate, NativeGetGlobal, NativeSetGlobal,
         NativeHoistVar, NativeJump, NativeJumpIf, NativeHelper, NoInterpreter,
         NativeClosure, NativeReturn, Native, TypeOK, Holds, WL, WR
<1>2. CASE NativeLoad
  <2>1. Instr.op # "MOVE" => WellBoxed(LoadedValue)
    BY <1>1, <1>2, LoadedBoxed DEF NativeLoad, Native
  <2>2. Instr.op \in AnswerOps /\ Instr.op \notin BoolOps
    BY <1>2 DEF NativeLoad, Native, AnswerOps, LoadOps, BoolOps, CompareOps
  <2> QED BY <1>1, <1>2, <2>1, <2>2 DEF NativeLoad, Answer, Word
<1>3. CASE NativeOperate
  <2> DEFINE w == LaneResult(Instr.op, WL, WR)
  <2>1. CASE w = Deopt
    BY <1>3, <2>1 DEF NativeOperate, FineDeopt
  <2>2. CASE w # Deopt
    <3>1. /\ Instr.op \in BoolOps => w \in BareWords
          /\ Instr.op \notin BoolOps => WellBoxed(w)
      BY <1>1, <1>3, <2>2, LaneKinds DEF NativeOperate, Native
    <3> QED BY <1>3, <2>2, <3>1 DEF NativeOperate, Native, Answer, AnswerOps, Word
  <2> QED BY <2>1, <2>2
<1>4. CASE NativeGetGlobal
  <2>1. WellBoxed(locals[Instr.name])
    BY <1>1, <1>4 DEF NativeGetGlobal, Native, Clean, CleanVariables, Slots, Captured, Names, Instr
  <2>2. Instr.op \in AnswerOps /\ Instr.op \notin BoolOps
    BY <1>4 DEF NativeGetGlobal, Native, AnswerOps, BoolOps, CompareOps
  <2> QED BY <1>4, <2>1, <2>2 DEF NativeGetGlobal, Answer, Word
<1>5. CASE NativeHelper
  <2>1. Instr.op \in AnswerOps /\ Instr.op \notin BoolOps /\ Instr.op \notin CompareOps
    BY <1>5 DEF NativeHelper, Native, AnswerOps, HelperOps, PropertyOps, BoolOps, CompareOps
  <2>2. Answers => regs' = regs \/ \E w \in HelperValues : regs' = [regs EXCEPT ![Instr.d] = w]
    BY <2>1 DEF Answers, Answer, GoOn
  <2>3. \A w \in HelperValues : WellBoxed(w)
    BY ValuesAssumption
  <2> QED BY <1>5, <2>1, <2>2, <2>3 DEF NativeHelper, Word
<1>6. CASE ~NativeLoad /\ ~NativeOperate /\ ~NativeGetGlobal /\ ~NativeHelper
  BY <1>6 DEF NativeStep, NativeSetGlobal, NativeHoistVar, NativeJump, NativeJumpIf,
     NoInterpreter, NativeClosure, NativeReturn, GoOn, FineDeopt
<1> QED BY <1>2, <1>3, <1>4, <1>5, <1>6

\* A step of native code keeps the discipline.
LEMMA NativeDiscipline ==
    ASSUME TypeOK, Clean, Discipline, Disciplined(prog), NativeStep PROVE Discipline'
<1>1. /\ phase = "native" /\ phase' \in {"native", "exit"} /\ prog' = prog
      /\ BoolRegs(prog)' = BoolRegs(prog) /\ Branches(prog)' = Branches(prog)
      /\ Captured(prog)' = Captured(prog) /\ pc \in Offsets(prog) /\ DOMAIN regs = Regs
      /\ Instr.d \in Regs /\ Instr.l \in Regs
  BY Operands DEF NativeStep, NativeLoad, NativeOperate, NativeGetGlobal, NativeSetGlobal,
         NativeHoistVar, NativeJump, NativeJumpIf, NativeHelper, NoInterpreter,
         NativeClosure, NativeReturn, Native, Emitted, Stays, Private, FineDeopt, Outside,
         BoolRegs, Branches, Offsets, Code, Captured, Names, Owned, Params, TypeOK, Holds
<1>2. DisciplinedAt(prog, pc)
  BY <1>1 DEF Disciplined
<1>3. Instr.op \in BoolOps => Instr.d \in BoolRegs(prog)
  BY <1>1 DEF BoolRegs, Instr
<1>4. Instr.op = "MOVE" => WL \notin BareWords
  <2>1. Instr.op = "MOVE" => Instr.l \in Reads(Instr)
    BY DEF Reads
  <2>2. Instr.op = "MOVE" => Instr.l \notin BoolRegs(prog)
    BY <1>2, <2>1 DEF DisciplinedAt, Instr
  <2> QED BY <1>1, <2>2, JsOfBoxed DEF Discipline, WL
<1>5. Instr.op \in AnswerOps \ BoolOps => Instr.d \notin BoolRegs(prog)
  BY <1>2 DEF DisciplinedAt, Instr
<1>6. /\ \A r \in Regs \ BoolRegs(prog) : WellBoxed(regs'[r])
      /\ \A r \in BoolRegs(prog) : regs'[r] \in BareWords \cup {Undef}
  <2>1. CASE regs' = regs
    BY <1>1, <2>1 DEF Discipline
  <2>2. CASE Instr.op \in BoolOps /\ \E w \in BareWords : regs' = [regs EXCEPT ![Instr.d] = w]
    BY <1>1, <1>3, <2>2 DEF Discipline
  <2>3. CASE /\ Instr.op \in AnswerOps \ BoolOps
             /\ \E w : WellBoxed(w) /\ regs' = [regs EXCEPT ![Instr.d] = w]
    BY <1>1, <1>5, <2>3 DEF Discipline
  <2> QED BY <1>4, <2>1, <2>2, <2>3, NativeWrites
<1>7. phase' = "native" => \A n \in Captured(prog) : n \in DOMAIN outer' /\ locals'[n] = outer'[n]
  <2>1. CASE NativeSetGlobal
    <3>1. Instr.name \in Owned(prog)
      BY <1>1, <2>1 DEF Clean, Protocol, Accepts, NativeSetGlobal, Native, Instr
    <3>2. \A n \in Captured(prog) : n # Instr.name
      BY <3>1 DEF Captured
    <3>3. outer' = outer /\ locals' = [locals EXCEPT ![Instr.name] = WL]
      BY <2>1 DEF NativeSetGlobal, Private
    <3> QED BY <1>1, <3>2, <3>3 DEF Discipline, TypeOK, Holds
  <2>2. CASE NativeHelper
    <3>1. Captured(prog) = {}
      BY <1>2, <2>2 DEF NativeHelper, Native, DisciplinedAt, Instr
    <3> QED BY <3>1
  <2>3. CASE ~NativeSetGlobal /\ ~NativeHelper
    <3>1. outer' = outer /\ locals' = locals
      BY <2>3 DEF NativeStep, NativeLoad, NativeOperate, NativeGetGlobal, NativeHoistVar,
         NativeJump, NativeJumpIf, NoInterpreter, NativeClosure, NativeReturn, Private, FineDeopt
    <3> QED BY <1>1, <3>1 DEF Discipline
  <2> QED BY <2>1, <2>2, <2>3
<1>8. phase' = "exit" /\ flag' = 3 => resumePc' \notin Branches(prog)
  <2>1. CASE NativeOperate \/ NoInterpreter \/ NativeClosure
    BY <1>1, <2>1 DEF NativeOperate, NoInterpreter, NativeClosure, Native, FineDeopt, Branches,
       Instr, Operators, ArithOps, BitwiseOps, CompareOps, UnaryOps, StepOps, PropertyOps,
       JumpIfOps, Stays
  <2>2. CASE ~(NativeOperate \/ NoInterpreter \/ NativeClosure)
    BY <1>1, <2>2 DEF NativeStep, NativeLoad, NativeGetGlobal, NativeSetGlobal, NativeHoistVar,
       NativeJump, NativeJumpIf, NativeHelper, NativeReturn, Stays
  <2> QED BY <2>1, <2>2
<1> QED BY <1>1, <1>6, <1>7, <1>8 DEF Discipline

\* Entering and leaving native code keeps the discipline.
LEMMA ProtocolDiscipline ==
    ASSUME TypeOK, Clean, Discipline, Disciplined(prog),
           RunInterpreted \/ EnterRegion \/ Returned \/ Threw \/ Resume
    PROVE  Discipline'
<1> USE DEF Discipline, frameVars
<1>1. prog' = prog /\ BoolRegs(prog)' = BoolRegs(prog) /\ Branches(prog)' = Branches(prog)
      /\ Captured(prog)' = Captured(prog)
  <2>1. prog' = prog
    BY DEF RunInterpreted, EnterRegion, Returned, Threw, Resume
  <2> QED BY <2>1 DEF BoolRegs, Branches, Offsets, Code, Captured, Names, Owned, Params
<1>2. CASE RunInterpreted
  <2>1. 0 \notin Branches(prog)
    BY DEF Disciplined, DisciplinedAt, Branches
  <2> QED BY <1>1, <1>2, <2>1 DEF RunInterpreted
<1>3. CASE EnterRegion
  <2>1. \A n \in Captured(prog) : n \in DOMAIN outer /\ locals'[n] = outer[n]
    BY <1>3 DEF EnterRegion, Captured, Slots
  <2> QED BY <1>1, <1>3, <2>1 DEF EnterRegion
<1>4. CASE Returned
  BY <1>1, <1>4 DEF Returned
<1>5. CASE Threw
  BY <1>1, <1>5 DEF Threw
<1>6. CASE Resume
  BY <1>1, <1>6 DEF Resume
<1> QED BY <1>2, <1>3, <1>4, <1>5, <1>6

(* Disciplined programs never meet the hazards: no bare boolean is read as *)
(* a value, no branch tests a value as a word, and every captured variable *)
(* keeps the value the region copied.                                      *)
THEOREM DisciplinedIsFaithful ==
    ASSUME \A p \in DOMAIN Programs : Disciplined(p)
    PROVE  Spec => []Faithful
<1> DEFINE Inv == TypeOK /\ Clean /\ Discipline
<1>0. TypeOK => Disciplined(prog)
  BY DEF TypeOK
<1>1. Init => Inv
  BY InitType, InitClean, InitDiscipline, <1>0
<1>2. Inv => Faithful
  BY DisciplineIsFaithful, <1>0
<1>3. Inv /\ [Next]_vars => Clean' /\ Discipline'
  <2> SUFFICES ASSUME Inv, [Next]_vars PROVE Clean' /\ Discipline'
    OBVIOUS
  <2>0. Disciplined(prog) /\ Faithful
    BY <1>0, <1>2
  <2>1. CASE Next
    <3>1. Clean'
      BY <2>0, <2>1, NativeClean, ProtocolClean, InterpretClean DEF Next, Interpret
    <3>2. Discipline'
      BY <2>0, <2>1, NativeDiscipline, ProtocolDiscipline, InterpretDiscipline DEF Next
    <3> QED BY <3>1, <3>2
  <2>2. CASE UNCHANGED vars
    BY <2>2 DEF Clean, CleanVariables, Protocol, Discipline, vars, frameVars, regionVars, Instr
  <2> QED BY <2>1, <2>2
<1> HIDE DEF Inv
<1>4. Inv /\ TypeOK' /\ [Next]_vars => Inv'
  BY <1>3 DEF Inv
<1> QED BY <1>1, <1>2, <1>4, TypeCorrect, PTL DEF Spec

(* For disciplined programs, of any size and on any machine, a call that   *)
(* runs natively does what the interpreter would have done.                *)
THEOREM DisciplinedImplements ==
    ASSUME \A p \in DOMAIN Programs : Disciplined(p)
    PROVE  Spec => ImplementsInterpreter
<1>1. Spec => []Faithful
  BY DisciplinedIsFaithful
<1> QED BY <1>1, Implements, PTL
-----------------------------------------------------------------------------
(* Copies of captured variables stay right until code outside has run.     *)

\* Until then the code that runs is accepted code, and its copies are what they
\* are copies of.
Copied ==
    phase = "native" =>
        /\ Accepts(prog)
        /\ effects = 0 =>
             \A n \in Captured(prog) : n \in DOMAIN outer /\ locals[n] = outer[n]

LEMMA SameProgram ==
    ASSUME prog' = prog
    PROVE  Captured(prog)' = Captured(prog) /\ Accepts(prog)' = Accepts(prog)
BY DEF Captured, Names, Owned, Params, Offsets, Code, Accepts, Contained

LEMMA NativeCopied ==
    ASSUME TypeOK, Copied, NativeStep PROVE Copied'
<1>1. phase = "native" /\ prog' = prog /\ pc \in Offsets(prog)
  BY DEF NativeStep, NativeLoad, NativeOperate, NativeGetGlobal, NativeSetGlobal,
         NativeHoistVar, NativeJump, NativeJumpIf, NativeHelper, NoInterpreter,
         NativeClosure, NativeReturn, Native, Emitted, Outside
<1>0. Captured(prog)' = Captured(prog) /\ Accepts(prog)' = Accepts(prog)
  BY <1>1, SameProgram
<1>2. CASE NativeSetGlobal
  <2>1. Instr.name \in Owned(prog)
    BY <1>1, <1>2 DEF Copied, Accepts, NativeSetGlobal, Native, Instr
  <2>2. \A n \in Captured(prog) : n # Instr.name
    BY <2>1 DEF Captured
  <2>3. outer' = outer /\ effects' = effects /\ locals' = [locals EXCEPT ![Instr.name] = WL]
    BY <1>2 DEF NativeSetGlobal, Private
  <2> QED BY <1>0, <1>1, <2>2, <2>3 DEF Copied, TypeOK, Holds, Slots
<1>3. CASE NativeHelper
  <2>1. effects' # 0
    BY <1>3 DEF NativeHelper, Outside, TypeOK
  <2> QED BY <1>0, <1>1, <2>1 DEF Copied
<1>4. CASE ~NativeSetGlobal /\ ~NativeHelper
  <2>1. outer' = outer /\ effects' = effects /\ locals' = locals
    BY <1>4 DEF NativeStep, NativeLoad, NativeOperate, NativeGetGlobal, NativeHoistVar,
       NativeJump, NativeJumpIf, NoInterpreter, NativeClosure, NativeReturn, Private, FineDeopt
  <2> QED BY <1>0, <1>1, <2>1 DEF Copied
<1> QED BY <1>2, <1>3, <1>4

(* A captured variable is read as it is until the region has let code      *)
(* outside run: the entry copies every one of them, and the analysis lets  *)
(* the function assign none. So only a call, an accessor or a coercion     *)
(* between the entry and the read can make a copy stale (analyze and run   *)
(* of int_fn_jit.zig).                                                     *)
THEOREM CapturesStayCurrent == Spec => [](effects = 0 => CapturesCurrent)
<1>1. Init => Copied
  BY DEF Init, Copied
<1>2. TypeOK /\ Copied /\ [Next]_vars => Copied'
  <2> SUFFICES ASSUME TypeOK, Copied, [Next]_vars PROVE Copied'
    OBVIOUS
  <2>1. CASE NativeStep
    BY <2>1, NativeCopied DEF TypeOK
  <2>2. CASE EnterRegion
    <3>1. /\ Accepts(prog)' = Accepts(prog) /\ Captured(prog)' = Captured(prog)
          /\ prog' = prog
      BY <2>2, SameProgram DEF EnterRegion
    <3> QED BY <2>2, <3>1 DEF EnterRegion, Copied, Captured, Slots, frameVars
  <2>3. CASE RunInterpreted \/ Returned \/ Threw \/ Resume \/ Interpret
    BY <2>3 DEF RunInterpreted, Returned, Threw, Resume, Interpret, regionVars, Copied
  <2>4. CASE UNCHANGED vars
    BY <2>4, SameProgram DEF Copied, vars, frameVars, regionVars
  <2> QED BY <2>1, <2>2, <2>3, <2>4 DEF Next
<1>3. Copied => (effects = 0 => CapturesCurrent)
  BY DEF Copied, CapturesCurrent, Native
<1> QED BY <1>1, <1>2, <1>3, TypeCorrect, PTL DEF Spec

(* In disciplined code the bare 0 or 1 of a comparison gates branches and  *)
(* is read by nothing else (int_fn_jit.zig:17).                            *)
THEOREM BooleansStayInside ==
    ASSUME \A p \in DOMAIN Programs : Disciplined(p)
    PROVE  Spec => []BooleansGateBranches
<1>1. Faithful => BooleansGateBranches
  BY DEF Faithful
<1> QED BY <1>1, DisciplinedIsFaithful, PTL
===============================================================================
