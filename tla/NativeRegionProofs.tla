------------------------- MODULE NativeRegionProofs -------------------------
(***************************************************************************)
(* What holds of a call that may run as native code, for every machine     *)
(* width, every floating-point unit that meets the assumptions, every      *)
(* program and every number of effects: its frame is well formed, and as   *)
(* long as three hazards do not strike it implements interpretation.       *)
(***************************************************************************)
EXTENDS NativeRegion, LanesProofs

-----------------------------------------------------------------------------
(* The frame is well formed.                                               *)

\* The operands of the instruction at pc.
LEMMA Operands ==
    ASSUME prog \in DOMAIN Programs, pc \in Offsets(prog)
    PROVE  Instr.d \in Regs /\ Instr.l \in Regs /\ Instr.r \in Regs /\ WellBoxed(Instr.val)
  BY ProgramsAssumption DEF Instr

\* The interpreter sees a boxed value in every register.
LEMMA SeenBoxed == ASSUME NEW w, Word(w) PROVE WellBoxed(Seen(w))
  BY DEF Word, BareWords, Raw, Seen, WellBoxed, Undef, Cell

\* Storing a word in a slot keeps a register file or an environment one.
LEMMA HoldsUpdate ==
    ASSUME NEW f, NEW S, NEW x, NEW w, Holds(f, S), Word(w)
    PROVE  Holds([f EXCEPT ![x] = w], S)
<1> DEFINE g == [f EXCEPT ![x] = w]
<1>1. DOMAIN g = S /\ g = [y \in S |-> g[y]]
  BY DEF Holds
<1>2. \A y \in S : g[y] = IF y = x THEN w ELSE f[y]
  BY DEF Holds
<1>3. \A y \in S : Word(g[y])
  BY <1>2 DEF Holds
<1>4. g \in [S -> {g[y] : y \in S}]
  BY <1>1
<1> QED BY <1>3, <1>4 DEF Holds

\* The frame of a call that begins is well formed.
LEMMA InitType == Init => TypeOK
<1> SUFFICES ASSUME Init PROVE TypeOK
  OBVIOUS
<1>1. Word(Undef)
  BY DEF Word, WellBoxed, Undef
<1>2. Holds(regs, Regs)
  BY <1>1 DEF Init, InterpInit, Holds
<1>3. Holds(env, Owned(prog))
  <2>1. PICK args \in [Params(prog) -> Arguments] :
           env = [n \in Owned(prog) |-> IF n \in Params(prog) THEN args[n] ELSE Undef]
    BY DEF Init, InterpInit
  <2>2. \A n \in Owned(prog) : Word(env[n])
    BY <2>1, <1>1, ValuesAssumption DEF Word
  <2> QED BY <2>1, <2>2 DEF Holds
<1>4. \A n \in DOMAIN outer : WellBoxed(outer[n])
  BY ValuesAssumption DEF Init, InterpInit
<1>5. effects \in 0 .. MaxEffects
  BY ValuesAssumption DEF Init, InterpInit
<1>6. /\ prog \in DOMAIN Programs /\ phase = "call" /\ flag = 0
      /\ status \in Statuses /\ closed \in BOOLEAN
  BY DEF Init, InterpInit, Statuses
<1> QED BY <1>2, <1>3, <1>4, <1>5, <1>6 DEF TypeOK

\* What the interpreter loads into a register.
LEMMA LoadedBoxed ==
    ASSUME TypeOK, pc \in Offsets(prog), Instr.op \in LoadOps
    PROVE  WellBoxed(LoadedValue) /\ WellBoxed(L) /\ WellBoxed(R)
<1>1. Word(regs[Instr.l]) /\ Word(regs[Instr.r]) /\ WellBoxed(Instr.val)
  BY Operands DEF TypeOK, Holds
<1>2. WellBoxed(L) /\ WellBoxed(R)
  BY <1>1, SeenBoxed DEF L, R
<1> QED BY <1>1, <1>2, BoolBoxed DEF LoadedValue, LoadOps, WellBoxed, Undef

\* Interpreting an instruction keeps the frame well formed.
LEMMA InterpretType == TypeOK /\ InterpNext /\ UNCHANGED regionVars => TypeOK'
<1> SUFFICES ASSUME TypeOK, InterpNext, UNCHANGED regionVars PROVE TypeOK'
  OBVIOUS
<1> USE DEF regionVars
<1> DEFINE Same == /\ prog' = prog /\ Holds(regs', Regs) /\ Holds(env', Owned(prog))
                   /\ \A n \in DOMAIN outer' : WellBoxed(outer'[n])
                   /\ status' \in Statuses /\ effects' \in 0 .. MaxEffects
                   /\ closed' \in BOOLEAN
<1>0. SUFFICES Same
  BY DEF TypeOK
<1>1. /\ prog \in DOMAIN Programs /\ Holds(regs, Regs) /\ Holds(env, Owned(prog))
      /\ \A n \in DOMAIN outer : WellBoxed(outer[n])
      /\ status \in Statuses /\ effects \in 0 .. MaxEffects /\ closed \in BOOLEAN
  BY DEF TypeOK
<1>2. ASSUME pc \in Offsets(prog)
      PROVE  /\ Word(L) /\ Word(R) /\ WellBoxed(L) /\ WellBoxed(R) /\ Instr.d \in Regs
             /\ \A v : Word(v) => Holds([regs EXCEPT ![Instr.d] = v], Regs)
  <2>1. Word(regs[Instr.l]) /\ Word(regs[Instr.r]) /\ Instr.d \in Regs
    BY <1>1, <1>2, Operands DEF Holds
  <2> QED BY <2>1, <1>1, SeenBoxed, HoldsUpdate DEF L, R, Word
<1>3. CASE Load
  <2>1. Word(LoadedValue)
    BY <1>3, LoadedBoxed DEF Load, AtAny, Word
  <2> QED BY <1>1, <1>2, <1>3, <2>1 DEF Load, AtAny, Answer, Local, Running
<1>4. CASE Operate
  <2>1. Word(JsResult(Instr.op, L, R))
    BY <1>2, <1>4, JsResultBoxed DEF Operate, AtAny, Word
  <2> QED BY <1>1, <1>2, <1>4, <2>1 DEF Operate, AtAny, Answer, Local, Running
<1>5. CASE GetGlobal
  <2>1. CASE Instr.name \in DOMAIN env /\ Answer(Instr.d, env[Instr.name]) /\ Running
    <3>1. Word(env[Instr.name])
      BY <1>1, <2>1 DEF Holds
    <3> QED BY <1>1, <1>2, <1>5, <2>1, <3>1 DEF GetGlobal, At, Answer, Local, Running
  <2>2. CASE Instr.name \in DOMAIN outer /\ Answer(Instr.d, outer[Instr.name]) /\ Running
    <3>1. Word(outer[Instr.name])
      BY <1>1, <2>2 DEF Word
    <3> QED BY <1>1, <1>2, <1>5, <2>2, <3>1 DEF GetGlobal, At, Answer, Local, Running
  <2>3. CASE Ends("threw", Undef)
    BY <1>1, <1>5, <2>3 DEF GetGlobal, Ends, Local, Statuses
  <2> QED BY <1>5, <2>1, <2>2, <2>3 DEF GetGlobal
<1>6. CASE SetOwn
  <2>1. Holds([env EXCEPT ![Instr.name] = L], Owned(prog))
    BY <1>1, <1>2, <1>6, HoldsUpdate DEF SetOwn, AtAny
  <2> QED BY <1>1, <1>6, <2>1 DEF SetOwn, GoOn, Local, Running
<1>7. CASE SetOuter
  <2>1. WellBoxed(L)
    BY <1>2, <1>7 DEF SetOuter, AtAny
  <2>2. CASE /\ outer' = [n \in DOMAIN outer \cup {Instr.name} |->
                             IF n = Instr.name THEN L ELSE outer[n]]
             /\ GoOn /\ Running
    BY <1>1, <1>7, <2>1, <2>2 DEF SetOuter, GoOn, Running
  <2>3. CASE Ends("threw", Undef) /\ UNCHANGED outer
    BY <1>1, <1>7, <2>3 DEF SetOuter, Ends, Statuses
  <2> QED BY <1>7, <2>2, <2>3 DEF SetOuter
<1>8. CASE HoistVar
  BY <1>1, <1>8 DEF HoistVar, GoOn, Local, Running
<1>9. CASE Jump
  BY <1>1, <1>9 DEF Jump, Local, Running
<1>10. CASE JumpIf
  BY <1>1, <1>10 DEF JumpIf, Branch, Local, Running
<1>11. CASE NewClosure
  <2>1. Word(Cell(0))
    BY DEF Word, WellBoxed, Cell
  <2> QED BY <1>1, <1>2, <1>11, <2>1 DEF NewClosure, At, Answer, Running
<1>12. CASE CallOut
  <2>1. /\ prog' = prog /\ closed' \in BOOLEAN /\ effects' \in 0 .. MaxEffects
        /\ \A n \in DOMAIN outer' : WellBoxed(outer'[n])
    BY <1>1, <1>12, ValuesAssumption DEF CallOut, Outside
  <2>2. Holds(env', Owned(prog))
    BY <1>1, <1>12, HoldsUpdate, ValuesAssumption DEF CallOut, Assigned, Word
  <2>3. CASE Answers /\ Running
    BY <1>1, <1>2, <1>12, <2>1, <2>2, <2>3, BoolBoxed, ValuesAssumption
       DEF CallOut, RunsOutside, AtAny, Answers, Answer, GoOn, Running, Word
  <2>4. CASE Ends("threw", Undef)
    BY <1>1, <1>12, <2>1, <2>2, <2>4 DEF Ends, Statuses
  <2> QED BY <1>12, <2>3, <2>4 DEF CallOut
<1>13. CASE Return
  BY <1>1, <1>13 DEF Return, Ends, Local, Statuses
<1> QED BY <1>3, <1>4, <1>5, <1>6, <1>7, <1>8, <1>9, <1>10, <1>11, <1>12, <1>13 DEF InterpNext

\* A step of native code.
LEMMA NativeType == TypeOK /\ NativeStep => TypeOK'
<1> SUFFICES ASSUME TypeOK, NativeStep PROVE TypeOK'
  OBVIOUS
<1> DEFINE Same == /\ prog' = prog /\ env' = env /\ closed' = closed /\ status' = status
                   /\ phase' \in {"native", "exit"}
                   /\ Holds(regs', Regs) /\ Holds(locals', Slots(prog))
                   /\ \A n \in DOMAIN outer' : WellBoxed(outer'[n])
                   /\ effects' \in 0 .. MaxEffects
                   /\ \/ flag' = flag /\ resumePc' = resumePc
                      \/ flag' \in {0, 2}
                      \/ flag' = 3 /\ resumePc' \in Offsets(prog)
<1>0. SUFFICES Same
  BY DEF TypeOK
<1>1. /\ prog \in DOMAIN Programs /\ Holds(regs, Regs) /\ Holds(env, Owned(prog))
      /\ \A n \in DOMAIN outer : WellBoxed(outer[n])
      /\ effects \in 0 .. MaxEffects
      /\ phase = "native" /\ pc \in Offsets(prog) /\ Holds(locals, Slots(prog))
  BY DEF TypeOK, NativeStep, NativeLoad, NativeOperate, NativeGetGlobal, NativeSetGlobal,
         NativeHoistVar, NativeJump, NativeJumpIf, NativeHelper, NoInterpreter,
         NativeClosure, NativeReturn, Native
<1>2. /\ Word(WL) /\ Word(WR) /\ Instr.d \in Regs
      /\ \A v : Word(v) => Holds([regs EXCEPT ![Instr.d] = v], Regs)
  <2>1. Word(regs[Instr.l]) /\ Word(regs[Instr.r]) /\ Instr.d \in Regs
    BY <1>1, Operands DEF Holds
  <2> QED BY <2>1, <1>1, HoldsUpdate DEF WL, WR
<1> USE DEF Emitted, Stays, Private
<1>3. CASE NativeLoad
  <2>1. Word(IF Instr.op = "MOVE" THEN WL ELSE LoadedValue)
    BY <1>1, <1>2, <1>3, LoadedBoxed DEF NativeLoad, Native, Word
  <2> QED BY <1>1, <1>2, <1>3, <2>1 DEF NativeLoad, Answer
<1>4. CASE NativeOperate
  <2> DEFINE w == LaneResult(Instr.op, WL, WR)
  <2>1. CASE w = Deopt
    BY <1>1, <1>4, <2>1 DEF NativeOperate, FineDeopt
  <2>2. CASE w # Deopt
    <3>1. Word(w)
      BY <1>2, <1>4, <2>2, LanesAgree DEF NativeOperate, Native, Agrees
    <3> QED BY <1>1, <1>2, <1>4, <2>2, <3>1 DEF NativeOperate, Answer
  <2> QED BY <2>1, <2>2
<1>5. CASE NativeGetGlobal
  <2>1. Instr.name \in Slots(prog)
    BY <1>1, <1>5 DEF NativeGetGlobal, Native, Slots, Captured, Names, Instr
  <2>2. Word(locals[Instr.name])
    BY <1>1, <2>1 DEF Holds
  <2> QED BY <1>1, <1>2, <1>5, <2>2 DEF NativeGetGlobal, Answer
<1>6. CASE NativeSetGlobal
  <2>1. Holds([locals EXCEPT ![Instr.name] = WL], Slots(prog))
    BY <1>1, <1>2, HoldsUpdate
  <2> QED BY <1>1, <1>6, <2>1 DEF NativeSetGlobal, GoOn
<1>7. CASE NativeHoistVar
  BY <1>1, <1>7 DEF NativeHoistVar, GoOn
<1>8. CASE NativeJump
  BY <1>1, <1>8 DEF NativeJump
<1>9. CASE NativeJumpIf
  BY <1>1, <1>9 DEF NativeJumpIf
<1>10. CASE NativeHelper
  <2>1. /\ prog' = prog /\ closed' = closed /\ effects' \in 0 .. MaxEffects
        /\ \A n \in DOMAIN outer' : WellBoxed(outer'[n])
    BY <1>1, <1>10, ValuesAssumption DEF NativeHelper, Outside
  <2>2. CASE Answers /\ Stays
    BY <1>1, <1>2, <1>10, <2>1, <2>2, BoolBoxed, ValuesAssumption
       DEF NativeHelper, Answers, Answer, GoOn, Word
  <2>3. CASE phase' = "exit" /\ flag' = 2 /\ UNCHANGED <<pc, regs, resumePc, ret>>
    BY <1>1, <1>10, <2>1, <2>3 DEF NativeHelper
  <2> QED BY <1>10, <2>2, <2>3 DEF NativeHelper
<1>11. CASE NoInterpreter
  BY <1>1, <1>11 DEF NoInterpreter, FineDeopt
<1>12. CASE NativeClosure
  BY <1>1, <1>12 DEF NativeClosure, FineDeopt
<1>13. CASE NativeReturn
  BY <1>1, <1>13 DEF NativeReturn
<1> QED BY <1>3, <1>4, <1>5, <1>6, <1>7, <1>8, <1>9, <1>10, <1>11, <1>12, <1>13 DEF NativeStep

\* Entering and leaving native code.
LEMMA ProtocolType ==
    TypeOK /\ (RunInterpreted \/ EnterRegion \/ Returned \/ Threw \/ Resume) => TypeOK'
<1> SUFFICES ASSUME TypeOK, RunInterpreted \/ EnterRegion \/ Returned \/ Threw \/ Resume
             PROVE  TypeOK'
  OBVIOUS
<1> USE DEF TypeOK, frameVars
<1>1. CASE RunInterpreted
  BY <1>1 DEF RunInterpreted
<1>2. CASE EnterRegion
  <2>1. \A n \in Slots(prog) : Word(IF n \in Owned(prog) THEN env[n] ELSE outer[n])
    BY <1>2 DEF EnterRegion, Slots, Holds, Word
  <2>2. Holds(locals', Slots(prog))
    BY <1>2, <2>1 DEF EnterRegion, Holds
  <2> QED BY <1>2, <2>2 DEF EnterRegion
<1>3. CASE Returned
  BY <1>3 DEF Returned, Statuses
<1>4. CASE Threw
  BY <1>4 DEF Threw, Statuses
<1>5. CASE Resume
  <2>1. \A n \in Owned(prog) : Word(locals[n])
    BY <1>5 DEF Resume, Holds, Slots
  <2>2. Holds(env', Owned(prog))
    BY <1>5, <2>1 DEF Resume, Holds
  <2> QED BY <1>5, <2>2 DEF Resume
<1> QED BY <1>1, <1>2, <1>3, <1>4, <1>5

(* Type correctness: at every step of native and interpreted execution the *)
(* registers, the environment and the region's buffer hold boxed values or *)
(* the bare word of a comparison, whatever the program computes.           *)
THEOREM TypeCorrect == Spec => []TypeOK
<1>1. TypeOK /\ [Next]_vars => TypeOK'
  <2> SUFFICES ASSUME TypeOK, [Next]_vars PROVE TypeOK'
    OBVIOUS
  <2>1. CASE Next
    BY <2>1, NativeType, ProtocolType, InterpretType DEF Next, Interpret
  <2>2. CASE UNCHANGED vars
    BY <2>2 DEF TypeOK, vars, frameVars, regionVars
  <2> QED BY <2>1, <2>2
<1> QED BY <1>1, InitType, PTL DEF Spec

=============================================================================
