------------------------------ MODULE LoopTiers ------------------------------
(***************************************************************************)
(* What the engine does with a loop that has become hot (experimental      *)
(* mode of the JIT).  The interpreter notes each backward jump; once its   *)
(* site is hot, it offers the rest of the loop to two tiers in turn:       *)
(*   - on-stack replacement (src/src/jit/osr_jit.zig): the loop's bytecode *)
(*     is compiled to machine code on unboxed 64-bit integers, which runs  *)
(*     on a private copy of the variables; they are written back when the  *)
(*     loop is left, and not at all when a result escapes the integers     *)
(*     that a double represents: then the loop goes on as if the attempt   *)
(*     had not been made;                                                  *)
(*   - fast-forward (src/src/jit/loop_jit.zig): a loop that only counts    *)
(*     and folds the counter into accumulators is run by a kernel.         *)
(* A site where nothing helps several times is left alone.                 *)
(*                                                                         *)
(* The variables of Interpreter are the frame.  The variables that start   *)
(* with an i are the frame of the same call when the interpreter is alone. *)
(* It goes along with machine code, an instruction for an instruction, and *)
(* back to where it was when the attempt is dropped; it waits while a      *)
(* kernel runs, and then runs the loop itself ("replay").                  *)
(***************************************************************************)
EXTENDS Interpreter, Lanes, Sequences, FiniteSets

CONSTANTS HotThreshold, DeoptThreshold,
          MaxExits,        \* a region may be left through so many edges
          MaxAccs          \* the kernel folds into so many accumulators

VARIABLES plans,           \* of each backward jump: what the tiers make of it
          phase,           \* "interp", "osr", "kernel", "replay"
          site,            \* the backward jump whose loop a tier runs
          npc, nregs, locals,      \* the machine code: where it is, its integers
          kernel,                  \* the kernel's counter and accumulators
          hits, failures,          \* of each site
          ipc, iregs, ienv, iouter, istatus, iresult,
          before                   \* of these, when machine code was entered

tierVars  == <<npc, nregs, locals, kernel>>
siteVars  == <<hits, failures>>
aloneVars == <<ipc, iregs, ienv, iouter, istatus, iresult>>
program   == <<prog, plans>>
vars == <<program, frameVars, phase, site, tierVars, siteVars, aloneVars, before>>

Alone == INSTANCE Interpreter WITH pc <- ipc, regs <- iregs, env <- ienv, outer <- iouter,
                                   status <- istatus, result <- iresult

Jumps == JumpIfOps \cup {"JMP"}

\* A loop that runs code outside the function is compiled by neither tier, and
\* functions that do are left to NativeRegion; so there are no objects here.
ASSUME LoopsAssumption ==
    /\ \A p \in DOMAIN Programs : \A o \in Offsets(p) :
          /\ Code(p)[o].op \notin HelperOps \cup {"NEW_CLOSURE"}
          /\ ~IsObject(Code(p)[o].val)
    /\ \A v \in Arguments : ~IsObject(v)
    /\ \A s \in Scopes : \A n \in DOMAIN s : ~IsObject(s[n])
    /\ {HotThreshold, DeoptThreshold, MaxExits, MaxAccs} \subseteq Nat \ {0}

\* An instruction follows the other without a gap, and jumps lead to some.
ASSUME LayoutAssumption ==
    \A p \in DOMAIN Programs :
       /\ Offsets(p) \subseteq Nat /\ 0 \in Offsets(p)
       /\ \A o \in Offsets(p) :
             LET i == Code(p)[o]
                 n == o + InstrSize(i.op)
             IN  /\ i.op \notin {"JMP", "RETURN", "RETURN_UNDEF"} => n \in Offsets(p)
                 /\ \A x \in Offsets(p) : x <= o \/ n <= x
                 /\ i.op \in Jumps => i.to \in Offsets(p)

\* No operation but a division tells -0 from 0, other than in the sign of a zero.
SameNumber(x, y) == x = y \/ FEqual(x, y)

ASSUME SignAssumption ==
    /\ FEqual(NegZero, 0)
    /\ \A x, y \in Safe : x * y = 0 => FEqual(FArith("MUL", x, y), 0)
    /\ \A x, y \in F64 : FEqual(x, y) =>
          /\ FToInt32(x) = FToInt32(y) /\ SameNumber(FNeg(x), FNeg(y))
          /\ \A z \in F64 :
                /\ (FLess(x, z) <=> FLess(y, z)) /\ (FLess(z, x) <=> FLess(z, y))
                /\ (FEqual(x, z) <=> FEqual(y, z)) /\ (FEqual(z, x) <=> FEqual(z, y))
                /\ \A op \in ArithOps \ {"DIV"} :
                      /\ SameNumber(FArith(op, x, z), FArith(op, y, z))
                      /\ SameNumber(FArith(op, z, x), FArith(op, z, y))

-----------------------------------------------------------------------------
(* Loops.                                                                  *)

\* The loops of each function, by their backward jump: offsets and instructions.
Loops == [p \in DOMAIN Programs |->
    LET c == Code(p)
    IN  [o \in {x \in DOMAIN c : c[x].op = "JMP" /\ c[x].to <= x} |->
           [q \in {x \in DOMAIN c : c[o].to <= x /\ x <= o} |-> c[q]]]]

BackEdges(p) == DOMAIN Loops[p]
Region(p, o) == DOMAIN Loops[p][o]

Exits(loop) == {loop[q].to : q \in {x \in DOMAIN loop : loop[x].op \in Jumps}} \ DOMAIN loop

Computes == LoadOps \cup Operators \cup {"GET_GLOBAL"}
Sources(i) == CASE i.op \in {"MOVE", "RETURN"} \cup StoreOps \cup UnaryOps \cup JumpIfOps -> {i.l}
                [] i.op \in Operators \ UnaryOps -> {i.l, i.r}
                [] OTHER -> {}

NamesIn(loop, ops) == {loop[q].name : q \in {x \in DOMAIN loop : loop[x].op \in ops}}
Written(p, o)   == NamesIn(Loops[p][o], StoreOps)
LoopNames(p, o) == Params(p) \cup NamesIn(Loops[p][o], StoreOps \cup {"GET_GLOBAL"})

Resolves(n) == n \in DOMAIN env \cup DOMAIN outer
Lookup(n)   == IF n \in DOMAIN env THEN env[n] ELSE outer[n]

\* A number that is an integer and exactly represented; -0 passes for 0.
IntGuard(v) == IsNumber(v) /\ Trunc0(v.num) \in Safe

\* Variables get the values of f, where the name resolves.
WriteBack(f) ==
    /\ env'   = [n \in DOMAIN env |-> IF n \in DOMAIN f THEN f[n] ELSE env[n]]
    /\ outer' = [n \in DOMAIN outer |->
                   IF n \in DOMAIN f \ DOMAIN env THEN f[n] ELSE outer[n]]

-----------------------------------------------------------------------------
(* What is compiled for on-stack replacement.                              *)

OsrOps == LoadOps \cup StoreOps \cup Jumps \cup IntLaneOps \cup {"GET_GLOBAL", "HOIST_VAR"}

ExactConst(v) == IntGuard(v) /\ Trunc0(v.num) \notin {SafeInt, -SafeInt}

\* A register read in the loop was written further up in it, so nothing is
\* carried into the loop in a register.
CarriesNothing(loop, q) ==
    \A r \in Sources(loop[q]) :
        \E k \in DOMAIN loop : k < q /\ loop[k].op \in Computes /\ loop[k].d = r

\* A comparison only gates the conditional jump behind it.
GatesJump(loop, q) ==
    LET n == q + InstrSize(loop[q].op)
    IN  n \in DOMAIN loop /\ loop[n].op \in JumpIfOps /\ loop[n].l = loop[q].d

OsrAccepts(loop, o) ==
    /\ loop[o].to < o
    /\ \A q \in DOMAIN loop :
          /\ loop[q].op \in OsrOps
          /\ loop[q].op = "LOAD_K" => ExactConst(loop[q].val)
          /\ CarriesNothing(loop, q)
          /\ loop[q].op \in CompareOps \cup {"NOT"} => GatesJump(loop, q)
    /\ Exits(loop) # {} /\ Cardinality(Exits(loop)) <= MaxExits

\* Every variable of the loop, and every parameter, must be an integer now.
OsrEnters(o) ==
    /\ plans[o].osr
    /\ \A n \in LoopNames(prog, o) : Resolves(n) /\ IntGuard(Lookup(n))

-----------------------------------------------------------------------------
(* The loops that the kernel knows, recognised in the order of their code: *)
(* the guard, accumulators that fold in the counter, the step.  Between    *)
(* the statements the top level keeps its completion value.                *)

BenignOps == {"MOVE", "LOAD_UNDEF"}

InOrder == [p \in DOMAIN Programs |-> [o \in BackEdges(p) |->
    LET loop == Loops[p][o]
        Before(q) == Cardinality({x \in DOMAIN loop : x < q})
    IN  [j \in 1 .. Cardinality(DOMAIN loop) |->
            loop[CHOOSE q \in DOMAIN loop : Before(q) = j - 1]]]]
BenignPlaces(c) ==
    \A j \in DOMAIN c : c[j].op \in BenignOps =>
        j > 1 /\ c[j - 1].op \in BenignOps \cup {"JMP_IF_FALSE", "SET_GLOBAL"}
Stripped == [p \in DOMAIN Programs |-> [o \in BackEdges(p) |->
               SelectSeq(InOrder[p][o], LAMBDA i : i.op \notin BenignOps)]]

IsGuard(c) == /\ c[1].op = "GET_GLOBAL" /\ c[2].op = "LOAD_K"
              /\ c[3].op \in {"LT", "LE", "GT", "GE"}
              /\ c[3].l = c[1].d /\ c[3].r = c[2].d
              /\ c[4].op = "JMP_IF_FALSE" /\ c[4].l = c[3].d
\* An accumulator's four instructions behind c[k].
IsAcc(c, k) == /\ c[k + 1].op = "GET_GLOBAL" /\ c[k + 1].name # c[1].name
               /\ c[k + 2].op = "GET_GLOBAL" /\ c[k + 2].name = c[1].name
               /\ c[k + 3].op \in {"ADD", "SUB", "MUL"}
               /\ c[k + 3].l = c[k + 1].d /\ c[k + 3].r = c[k + 2].d
               /\ c[k + 4].op = "SET_GLOBAL" /\ c[k + 4].name = c[k + 1].name
               /\ c[k + 4].l = c[k + 3].d
\* The step's instructions, the jump included: by one, or by a constant.
IsUnitStep(c, k) == /\ Len(c) = k + 4
                    /\ c[k + 2].op \in StepOps /\ c[k + 2].l = c[k + 1].d
IsConstStep(c, k) == /\ Len(c) = k + 5
                     /\ c[k + 2].op = "LOAD_K" /\ IntGuard(c[k + 2].val)
                     /\ c[k + 3].op \in {"ADD", "SUB"}
                     /\ c[k + 3].l = c[k + 1].d /\ c[k + 3].r = c[k + 2].d
IsStep(c, k) == /\ c[k + 1].op = "GET_GLOBAL" /\ c[k + 1].name = c[1].name
                /\ IsUnitStep(c, k) \/ IsConstStep(c, k)
                /\ LET n == Len(c) - 1
                   IN  c[n].op = "SET_GLOBAL" /\ c[n].name = c[1].name /\ c[n].l = c[n - 1].d

IsTemplate(c, accs) ==
    /\ Len(c) >= 8 /\ Len(c) \in {4 * accs + 8, 4 * accs + 9}
    /\ IsGuard(c)
    /\ \A k \in 1 .. accs : IsAcc(c, 4 * k)
    /\ IsStep(c, 4 * accs + 4)

\* What the kernel is told of the loop.
StepOf(c, k) == CASE c[k + 2].op = "INC" -> 1
                  [] c[k + 2].op = "DEC" -> -1
                  [] c[k + 3].op = "ADD" -> Trunc0(c[k + 2].val.num)
                  [] c[k + 3].op = "SUB" -> -Trunc0(c[k + 2].val.num)
Template(c, accs) ==
    [ind |-> c[1].name, limit |-> c[2].val, cmp |-> c[3].op, exit |-> c[4].to,
     step |-> StepOf(c, 4 * accs + 4),
     accs |-> [k \in 1 .. accs |-> [name |-> c[4 * k + 1].name, op |-> c[4 * k + 3].op]]]

ApproachesOrStays(cmp, step) ==         \* mutant: a step of 0 is let in
    IF cmp \in {"LT", "LE"} THEN step >= 0 ELSE step <= 0

\* A kernel has no exit but its limit: only loops that approach it are run.
Approaches(cmp, step) == IF cmp \in {"LT", "LE"} THEN step > 0 ELSE step < 0

KernelAccepts(c, accs) ==
    /\ IsTemplate(c, accs) /\ IntGuard(c[2].val)
    /\ Approaches(c[3].op, StepOf(c, 4 * accs + 4))

Kernel(p, o) ==
    IF BenignPlaces(InOrder[p][o])
    THEN {Template(Stripped[p][o], n) : n \in {m \in 0 .. MaxAccs : KernelAccepts(Stripped[p][o], m)}}
    ELSE {}

\* Each is analysed once and kept.
Plans == [p \in DOMAIN Programs |-> [o \in BackEdges(p) |->
            [osr |-> OsrAccepts(Loops[p][o], o), kernels |-> Kernel(p, o)]]]

KernelEnters(t) ==
    /\ Resolves(t.ind) /\ IntGuard(Lookup(t.ind))
    /\ \A k \in DOMAIN t.accs : Resolves(t.accs[k].name) /\ IsNumber(Lookup(t.accs[k].name))

-----------------------------------------------------------------------------
Init ==
    /\ InterpInit
    /\ phase = "interp" /\ site = 0
    /\ npc = 0 /\ nregs = <<>> /\ locals = <<>> /\ kernel = <<>>
    /\ plans = Plans[prog]
    \* Earlier calls of the function may have counted, and found out.
    /\ hits \in [BackEdges(prog) -> {0, HotThreshold}]
    /\ failures \in [BackEdges(prog) -> 0 .. DeoptThreshold]
    /\ ipc = pc /\ iregs = regs /\ ienv = env /\ iouter = outer
    /\ istatus = status /\ iresult = result
    /\ before = <<>>

\* Any instruction but a backward jump; the interpreter alone makes the same.
Interpret ==
    /\ phase = "interp" /\ pc \notin BackEdges(prog)
    /\ InterpNext /\ Alone!InterpNext
    /\ UNCHANGED <<plans, phase, site, tierVars, siteVars, before>>

StartKernel(o, t) ==
    /\ phase' = "kernel" /\ site' = o
    /\ kernel' = [t |-> t, i |-> Trunc0(Lookup(t.ind).num),
                  s |-> [k \in DOMAIN t.accs |-> Lookup(t.accs[k].name).num]]
    /\ UNCHANGED <<npc, nregs, locals, failures>>

\* The second tier, or the note that neither helps.
Fallback(o) ==
    \/ \E t \in plans[o].kernels : KernelEnters(t) /\ StartKernel(o, t)
    \/ /\ ~\E t \in plans[o].kernels : KernelEnters(t)
       /\ phase' = "interp" /\ site' = o
       /\ failures' = [failures EXCEPT ![o] = IF @ < DeoptThreshold THEN @ + 1 ELSE @]
       /\ UNCHANGED tierVars

StartOsr(o) ==
    /\ phase' = "osr" /\ site' = o
    /\ npc' = Code(prog)[o].to
    /\ nregs' = [r \in Regs |-> 0]
    /\ locals' = [n \in LoopNames(prog, o) |-> Trunc0(Lookup(n).num)]
    /\ before' = [pc |-> ipc', regs |-> iregs, env |-> ienv, outer |-> iouter]
    /\ UNCHANGED <<kernel, failures>>

\* A backward jump: it is made, counted, and offered to the tiers when hot.
BackEdge ==
    /\ phase = "interp" /\ pc \in BackEdges(prog)
    /\ Jump /\ Alone!Jump
    /\ LET count == IF hits[pc] < HotThreshold THEN hits[pc] + 1 ELSE HotThreshold
           tried == count = HotThreshold /\ failures[pc] < DeoptThreshold
       IN  /\ hits' = [hits EXCEPT ![pc] = count] /\ UNCHANGED plans
           /\ \/ ~tried /\ UNCHANGED <<phase, site, tierVars, failures, before>>
              \/ tried /\ OsrEnters(pc) /\ StartOsr(pc)
              \/ tried /\ ~OsrEnters(pc) /\ Fallback(pc) /\ UNCHANGED before

-----------------------------------------------------------------------------
(* Machine code, one action for each group of emissions.                   *)

NI == Code(prog)[npc]
InLoop(ops) == phase = "osr" /\ npc \in Region(prog, site) /\ NI.op \in ops
X == nregs[NI.l]
Y == nregs[NI.r]
NextN == npc + InstrSize(NI.op)

OutOfSight == /\ UNCHANGED <<program, frameVars, site, kernel, siteVars, before>>
              /\ Alone!InterpNext
Leaves(r, n) == /\ nregs' = [nregs EXCEPT ![r] = n] /\ npc' = NextN
                /\ UNCHANGED <<phase, locals>> /\ OutOfSight

LoadedInt == CASE NI.op = "LOAD_K" -> Trunc0(NI.val.num)
               [] NI.op = "LOAD_TRUE" -> 1
               [] NI.op \in {"LOAD_FALSE", "LOAD_UNDEF"} -> 0
               [] NI.op = "MOVE" -> X

OsrLoad == InLoop(LoadOps) /\ Leaves(NI.d, LoadedInt)

OsrOperate == /\ InLoop(IntLaneOps) /\ ~IntEscapes(NI.op, X, Y)
              /\ Leaves(NI.d, IntLaneResult(NI.op, X, Y))

GoesBack == /\ ipc' = before.pc /\ iregs' = before.regs
            /\ ienv' = before.env /\ iouter' = before.outer
            /\ UNCHANGED <<istatus, iresult>>

OsrDeoptCommits ==                      \* mutant: written back, and then repeated
    /\ InLoop(IntLaneOps) /\ IntEscapes(NI.op, X, Y)
    /\ WriteBack([n \in Written(prog, site) |-> MakeNumber(locals[n])])
    /\ phase' = "interp" /\ GoesBack
    /\ UNCHANGED <<program, pc, regs, closed, effects, status, result, site, tierVars,
                   siteVars, before>>

\* The result would have been rounded: the private state is dropped.
OsrDeopt == /\ InLoop(IntLaneOps) /\ IntEscapes(NI.op, X, Y)
            /\ Fallback(site) /\ GoesBack
            /\ UNCHANGED <<program, frameVars, hits, before>>

OsrGet == InLoop({"GET_GLOBAL"}) /\ Leaves(NI.d, locals[NI.name])

OsrSet == /\ InLoop(StoreOps)
          /\ locals' = [locals EXCEPT ![NI.name] = X]
          /\ npc' = NextN /\ UNCHANGED <<phase, nregs>> /\ OutOfSight

OsrHoist == /\ InLoop({"HOIST_VAR"})
            /\ npc' = NextN /\ UNCHANGED <<phase, nregs, locals>> /\ OutOfSight

OsrJump == /\ InLoop(Jumps)
           /\ npc' = IF NI.op = "JMP" \/ (X # 0 <=> NI.op = "JMP_IF_TRUE")
                     THEN NI.to ELSE NextN
           /\ UNCHANGED <<phase, nregs, locals>> /\ OutOfSight

\* The loop is left: what it assigned is boxed and written back, and the
\* interpreter goes on behind the edge that was taken.
OsrExit == /\ phase = "osr" /\ npc \notin Region(prog, site)
           /\ WriteBack([n \in Written(prog, site) |-> MakeNumber(locals[n])])
           /\ pc' = npc /\ phase' = "interp"
           /\ UNCHANGED <<program, regs, closed, effects, status, result, site, tierVars,
                          siteVars, aloneVars, before>>

-----------------------------------------------------------------------------
(* The kernel.                                                             *)

CmpTrue == IntCompare(kernel.t.cmp, kernel.i, Trunc0(kernel.t.limit.num))

KernelStep ==
    /\ phase = "kernel" /\ CmpTrue
    /\ kernel' = [kernel EXCEPT !.i = @ + kernel.t.step,
                                !.s = [k \in DOMAIN @ |->
                                         FArith(kernel.t.accs[k].op, @[k], kernel.i)]]
    /\ UNCHANGED <<program, frameVars, phase, site, npc, nregs, locals, siteVars, aloneVars,
                   before>>

\* Only the last step can leave the exact integers: a double is its rounding.
Counter == IF kernel.i \in Safe THEN kernel.i
           ELSE FArith("ADD", kernel.i - kernel.t.step, kernel.t.step)

KernelValues ==
    LET names == {kernel.t.accs[k].name : k \in DOMAIN kernel.s}
        last(n) == CHOOSE k \in DOMAIN kernel.s :
                      /\ kernel.t.accs[k].name = n
                      /\ \A j \in DOMAIN kernel.s : kernel.t.accs[j].name = n => j <= k
    IN  [n \in names \cup {kernel.t.ind} |->
            MakeNumber(IF n = kernel.t.ind THEN Counter ELSE kernel.s[last(n)])]

KernelExit == /\ phase = "kernel" /\ ~CmpTrue
              /\ WriteBack(KernelValues)
              /\ pc' = kernel.t.exit /\ phase' = "replay"
              /\ UNCHANGED <<program, regs, closed, effects, status, result, site, tierVars,
                             siteVars, aloneVars, before>>

-----------------------------------------------------------------------------
(* The interpreter alone runs the loop that a kernel has finished.         *)

Replay == /\ phase = "replay" /\ ipc \in Region(prog, site)
          /\ Alone!InterpNext
          /\ UNCHANGED <<pc, regs, env, outer, status, result, plans, phase, site, tierVars,
                        siteVars, before>>

Rejoin == /\ phase = "replay" /\ ipc \notin Region(prog, site)
          /\ phase' = "interp"
          /\ UNCHANGED <<program, frameVars, site, tierVars, siteVars, aloneVars, before>>

NativeStep == \/ OsrLoad \/ OsrOperate \/ OsrDeopt \/ OsrGet \/ OsrSet \/ OsrHoist
              \/ OsrJump \/ OsrExit \/ KernelStep \/ KernelExit

Next == Interpret \/ BackEdge \/ NativeStep \/ Replay \/ Rejoin

Spec == Init /\ [][Next]_vars

\* Machine code and the interpreter's loop go on until they are done.
FairSpec == Spec /\ WF_vars(NativeStep) /\ WF_vars(Replay \/ Rejoin)
-----------------------------------------------------------------------------
TypeOK ==
    /\ prog \in DOMAIN Programs
    /\ phase \in {"interp", "osr", "kernel", "replay"}
    /\ site \in BackEdges(prog) \cup {0}
    /\ \A r \in Regs : WellBoxed(regs[r])
    /\ \A n \in DOMAIN env : WellBoxed(env[n])
    /\ phase = "osr" => /\ npc \in Offsets(prog)
                        /\ nregs \in [Regs -> Safe]
                        /\ locals \in [LoopNames(prog, site) -> Safe]
    /\ phase = "kernel" => kernel.i \in Int /\ \A k \in DOMAIN kernel.s : kernel.s[k] \in F64
    /\ hits \in [BackEdges(prog) -> 0 .. HotThreshold]
    /\ failures \in [BackEdges(prog) -> 0 .. DeoptThreshold]

\* Values that only the sign of a zero can tell apart.
Same(v, w) == v = w \/ (IsNumber(v) /\ IsNumber(w) /\ FEqual(v.num, w.num))

\* The registers that code from o on reads before it writes them.
Live == [p \in DOMAIN Programs |->
    LET c == Code(p)
    IN  [o \in DOMAIN c |->
           {r \in Regs : \E q \in DOMAIN c :
              /\ q >= o /\ r \in Sources(c[q])
              /\ \A k \in DOMAIN c : o <= k /\ k < q /\ c[k].op \in Computes => c[k].d # r}]]

FramesAgree(same(_, _)) ==
    /\ pc = ipc /\ status = istatus /\ same(result, iresult)
    /\ DOMAIN env = DOMAIN ienv /\ \A n \in DOMAIN env : same(env[n], ienv[n])
    /\ DOMAIN outer = DOMAIN iouter /\ \A n \in DOMAIN outer : same(outer[n], iouter[n])
    /\ \A r \in Live[prog][pc] : same(regs[r], iregs[r])

Together == phase = "interp" \/ (phase = "replay" /\ ipc \notin Region(prog, site))

(* However often a loop is entered, abandoned and entered again by either  *)
(* tier, it leaves at the place, with the variables and with the live      *)
(* registers that it would have had in the interpreter, but for the sign   *)
(* of a zero ("that writeback reproduces exactly the integer results the   *)
(* interpreter would have computed", src/src/jit/osr_jit.zig:32).          *)
LoopsAgree == Together => FramesAgree(Same)

(* The same without the exception for zeros ("this makes the fast path     *)
(* bit-exact with JS number semantics", src/jit-native/src/lib.rs:438).    *)
LoopsAgreeExactly == Together => FramesAgree(LAMBDA v, w : v = w)

\* What code must be like for the integers of compiled loops to stand for its
\* values: every way to an instruction that reads a register of such a loop goes
\* straight through one that has written it, inside one of an integer; every
\* assigned variable exists; and nothing divides, which would tell zeros apart.
Targets(p) == {Code(p)[q].to : q \in {x \in Offsets(p) : Code(p)[x].op \in Jumps}}

Fresh(p, o, ops) ==
    {r \in Regs : \E k \in Offsets(p) :
       /\ k < o /\ Code(p)[k].op \in ops /\ Code(p)[k].d = r
       /\ \A t \in Targets(p) : t <= k \/ o < t
       /\ \A j \in Offsets(p) : k < j /\ j < o /\ Code(p)[j].op \in Computes =>
                                   Code(p)[j].d # r}

IntOps == {"LOAD_K", "GET_GLOBAL"} \cup (IntLaneOps \ (CompareOps \cup {"NOT"}))
Inside(p)  == UNION {Region(p, o) : o \in {x \in BackEdges(p) : Plans[p][x].osr}}
Scratch(p) == {Code(p)[q].d : q \in {x \in Inside(p) : Code(p)[x].op \in Computes}}

TidyAt(p, o) ==
    LET i == Code(p)[o]
    IN  /\ Sources(i) \cap Scratch(p) \subseteq Fresh(p, o, Computes)
        /\ o \in Inside(p) /\ i.op \in StoreOps \cup Operators =>
              Sources(i) \subseteq Fresh(p, o, IntOps)
        /\ i.op \in StoreOps => \A s \in Scopes : i.name \in Owned(p) \cup DOMAIN s
        /\ i.op # "DIV"

Tidy(p) == \A o \in Offsets(p) : TidyAt(p, o)

(* A loop that a tier has taken over ends there, and would have ended in   *)
(* the interpreter ("only fast-forward provably-terminating loops",        *)
(* src/src/jit/loop_jit.zig:406): no limit on time or instructions is      *)
(* looked at inside.                                                       *)
LoopsEnd == phase # "interp" ~> phase = "interp"
=============================================================================
