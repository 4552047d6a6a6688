# JSZ: specifications, model checking and proofs

JSZ is a JavaScript engine in Zig: a parser and bytecode compiler, a register
interpreter (`BcVm`), hidden classes with inline caches, a generational garbage
collector, promises and async functions on a microtask queue, an ES module
loader, and an optional JIT. This directory holds TLA+ modules that model the
parts of it whose correctness depends on an *order of steps*: the collector
running between two steps of the program, user code running in the middle of the
engine's own work, a cache consulted long after it was filled, machine code that
hands a half-finished call back to the interpreter. The modules are
translated from the Zig sources; paths below are relative to the repository.

Everything is single-threaded: an isolate runs one script at a time. What makes
the engine hard is *re-entrancy* (getters, executors, `then` methods, disposers
and proxies call back into the program from inside a native operation),
*deferred work* (microtasks, coroutines, collections) and *state that is trusted
later* (shapes, caches, remembered sets). The "processes" of the models are
these.

## 1. Inventory

For each component: the state it keeps, its operations, what it interacts with,
what is hard, and what makes it correct. `PROJECT.json` has the same list with
the status of each.

| Component | Source | Status |
|---|---|---|
| Garbage collector | `src/gc/heap.zig` | modelled in part, proved about |
| Collections and weak references | `src/runtime/builtins/es2015_collections.zig` | as the collector sees them |
| Handle scopes | `src/gc/handle.zig` | as roots; not their limits |
| Promises, microtask queue | `src/runtime/builtins/promise.zig` | modelled without combinators, proved about |
| Async functions | `src/vm/bc_vm.zig` | modelled, proved about |
| Generators, async generators | `src/vm/bc_vm.zig`, `src/vm/ops/call.zig` | async generators modelled, proved about |
| Hidden classes and objects | `src/object/object.zig` | ordinary objects modelled, proved about |
| Inline caches, property opcodes | `src/vm/ic.zig`, `src/vm/ops/property.zig`, `src/jit/int_fn_jit.zig` | modelled, proved about |
| Interpreter loop | `src/vm/bc_vm.zig`, `src/vm/ops/` | the instructions that are also compiled |
| JIT tiers | `src/jit/` | function tier and both loop tiers modelled, proved about |
| External JIT backend | `jit-native/src` | what each emission computes, proved correct |
| Environments and closures | `src/bytecode/function.zig`, `src/runtime/` | as holders of references |
| Isolates, contexts, limits | `src/vm/isolate.zig` | successive evaluations |
| Realm and intrinsics | `src/runtime/realm.zig` | which of them the collector knows |
| Disposable stacks, `using` | `src/runtime/builtins/disposable_stack.zig` | as holders of references |
| Module system, arrays, exotic objects, typed arrays, parser, compiler, snapshots, regexp, text, dates, Intl, shadow realms, debugger, CLI | | not modelled, section 8 |

**Garbage collector.** *State*: two lists of headers (nursery and old), a mark
bit per object and `gc_seen` flags for arena objects, the worklist, the
remembered set, `weak_containers`, `young_alloc_bytes`, `minors_since_major`,
`force_major`, `minor_mode`, the extra roots, the VM's root callback.
*Operations*: `allocateObject`, `writeBarrier`, `addRoot`/`removeRoot`,
`noteWeakContainer`, `maybeCollect`, `collect`, `collectMinor` and their steps.
*Interactions*: every component allocates from it; objects call the barrier on
each store; collections register themselves and are called back by the strong
trace and weak hooks; the VM is called back for its registers. *Hard*: a
collection may start at any allocation; one missing barrier is visible only after
a particular pair of collections; ephemerons; out-of-memory inside the barrier.
*Correct when*: nothing reachable is destroyed, nothing unreachable is kept by a
major collection, a weak entry disappears only when its key is unreachable, and a
collection terminates.

**Collections and weak references.** *State*: `MapData`, `SetData`, `WeakRefData`
and so on, in arena memory behind `internal_slot`. *Operations*: set, add,
delete, iterate, the two hooks of the collector. *Hard*: entries that are keys of
each other, containers that die in the cycle that processes them, deletion under
iteration. *Correct when*: as above, and each live iterator visits each entry once.

**Promises and the queue.** *State*: `PromiseData` (state, value, reactions), the
resolver pairs with their shared already-resolved record, the queue,
`drain_cursor`, the draining flag. *Operations*: constructor, resolving functions,
`then`/`catch`/`finally`, `runMicrotasks`, the reaction, adoption and thenable
jobs. *Interactions*: the isolate drains after each script; the VM subscribes
coroutines; modules drain when a deferred namespace is read. *Hard*: a getter for
`then` runs in the middle of a resolution, drains nest, adoption takes several
jobs. *Correct when*: a promise is settled once and by what it was resolved to,
every reaction runs once, in order, and eventually.

**Async functions and generators.** *State*: a suspended frame, its result
promise, the VM it runs on; for an async generator a request queue, a running flag,
the promise in flight and four flags of the coroutine that are never all reset.
*Operations*: next, throw and return, the pump, the drive, five continuations.
*Hard*: requests made while the body runs or while a getter inside an await does, an
error between suspending and subscribing, the VM of an earlier script. *Correct
when*: each suspended coroutine has exactly one continuation waiting, and every
request is answered once, in order, with its own value.

**Objects, shapes and inline caches.** *State*: the shape tree shared by all
objects, per object the slots and attributes, per opcode a cache of four stages and
a prototype cache. *Operations*: get, set, define, delete, set prototype, seal,
freeze, the JIT's copies of the hits. *Hard*: no cache is ever invalidated, so a hit
is right only if the shape implies everything it relies on; getters run between
lookup and recording. *Correct when*: a hit is where the lookup would end, locked
properties stay locked on every path, and no operation disturbs another property.

**JIT.** *State*: hotness counters and a blacklist per site, compiled plans, and
during a run a register file, a buffer of variables, a flag and the place to resume.
*Operations*: analysis, entry (with type guards and copies of captured variables),
the emitted instructions, helper calls back into the VM, *fine deopt* (stop in the
middle, go on in the interpreter), and for loops the exit with its write-back.
*Hard*: an integer lane must notice -0, 2^53 and unsigned words; a comparison leaves
a bare bit where a value should be; a stopped region must neither repeat nor
skip an effect; a loop whose attempt is dropped must go on as if nothing had happened.
*Correct when*: a call or loop is one the interpreter could have made.

**Module system, limits, disposal.** Per module a status, a cycle root and pending
dependencies; gas, time and memory limits that interrupt a run between two
instructions; disposers that throw while others are pending. Section 8 says why they
have no model.

The hazards, each at the line where it bites and with the property that catches it
or the reason why none does, are in `PROJECT.json`.

## 2. The modules

```
  GcHeap  <-EXTENDS-  GcHeapInv  <-EXTENDS-  GcHeapProofs   (TLAPS)
                          ^---EXTENDS---  MCGcHeap          (TLC)
  PromiseFate  <-INSTANCE-  Promises  <-EXTENDS-  MCPromises
                                ^---EXTENDS---  PromisesProofs     (TLAPS)
  RequestQueue <-INSTANCE-  AsyncGenerators  <-EXTENDS-  MCAsyncGenerators
                                ^---EXTENDS---  AsyncGeneratorsProofs   (TLAPS)
  InlineCaches  <-EXTENDS-  MCInlineCaches
      ^---EXTENDS---  InlineCachesProofs                                (TLAPS)

  JsValues  <-EXTENDS-  Lanes  <-EXTENDS-  LanesProofs                  (TLAPS)
      ^---EXTENDS---  Interpreter
  Interpreter, Lanes  <-EXTENDS-  NativeRegion  (implements Interpreter)
      NativeRegion  <-EXTENDS-  NativeRegionProofs  <-  NativeImplementsProofs   (TLAPS)
      NativeRegion, SmallMachine  <-EXTENDS-  MCNativeRegion
  Interpreter, Lanes  <-EXTENDS-  LoopTiers  (beside a second Interpreter)
      LoopTiers, SmallMachine  <-EXTENDS-  MCLoopTiers
      LoopTiers, LanesProofs  <-EXTENDS-  LoopTiersProofs               (TLAPS)
```

`GcHeapInv` defines the inductive invariant; keeping it outside the proofs lets TLC
check the very formula that is proved. The `MC` modules only give constants their
values. Some modules hold, next to an operator, a variant that a plausible slip
would leave ("mutant" or "slip" in its comment). No specification uses them:
each is substituted for the real operator to see the property named with it in
`PROJECT.json` fail.

### GcHeap - the collector and its mutator

| Model | Code (`src/gc/heap.zig` unless named) |
|---|---|
| `Obj`, `gen` | a `JsObject` and the list its header is in; `"arena"` for intrinsics |
| `proto`, `slots` | prototype; shape slots, dense elements, symbol properties |
| `inner`, `weak` | what `internal_slot` points at: strong contents, weak entries |
| `Clo`, `env`, `this` | `BytecodeFunction` closures (`src/bytecode/function.zig`) |
| `roots`, `scanner` | global environment, `extra_roots`, handles, the VM's registers; the root callback |
| `Children` versus `Edges` | what `scanChildren` and the strong trace visit, versus what the program can follow |
| `Barrier` | `writeBarrier`, `writeBarrierObj`, with the out-of-memory path that sets `force_major` |
| `Allocate`, `AutoCollect` | `allocateObject`, `maybeCollect` |
| `Begin`, `Scan` | `markRoots`, `drainWorklist` |
| `TraceCollections` | `traceLiveCollections`, in minor collections |
| `MarkEphemerons`, `PurgeWeak` | the two loops of `gcProcessWeak`, then `processWeak`'s compaction and `clearArenaSeen` |
| `Sweep`, `ClearRemembered` | `sweepInto`, `clearRemembered`, in the order each kind of collection calls them |

Most of what could go wrong lives in the gap between `Edges` and `Children`, so both
are written from the code separately. The program's side is nondeterministic: it may
store, delete, read, drop or bind whatever its registers hold.

One abstraction is worth naming: `Scan` scans a whole worklist in one step. Marks
only grow during the drain and nothing else runs, so the order of pops cannot be
seen.

### Promises - settling, jobs, coroutines

The call stack is explicit: a record per executor, handler, getter, foreign `then`,
coroutine and drain in progress. `UserCode` holds when the innermost is the
program's, and it may then do anything a script can. `CallResolver` is
`nativePromiseResolver`, `ResolveData` is `promiseResolveData`, `Then` is
`nativePromiseThen`, `RunJob` is the loop of `runMicrotasks` with
`runReactionJob`, `Await` and `RunAwait` are `subscribeAwait`, `asyncOnFulfill` and
`asyncOnReject` of `src/vm/bc_vm.zig`, `Eval` and `ScriptEnds` are `evalWithMode` and
`runMainBc` of `src/vm/isolate.zig`. `Return` and `Throw` have one disjunct for each
kind of call the engine makes: its result goes where that native function sends it.

`PromiseFate` is the abstract specification: the fate of a promise is open, then
it follows another promise or is settled; a follower takes over exactly the outcome
of the promise it follows. `Promises` implements it under a mapping that reads the
fate off the reaction lists and the queue (`FollowsItsFate`).

### InlineCaches - shapes, objects, caches

`shapes` is the tree `ShapeManager` grows (a key added to a shape follows or creates
an edge, a deletion makes a shape of its own with packed slots), `obj` the ordinary
objects, `ic` an `InlineCache` per property opcode, `calls` the accesses that wait
for the getter or setter they called. A hit changes nothing, so it is not a step:
`Hit` and `JitStore` say what the caches would answer, and the
properties quantify over all of them in every state. The JIT's read
(`jsz_jit_get_prop`) takes the same hit and declines it when the slot is an accessor's. `ReadMiss`/`ReadAccessor` are
the slow path of `opGetProp` and `opGetPropDyn`; `Write`, `WriteRefused`,
`WriteAccessor` that of `opSetProp`; `JitWrite` is `jsz_jit_set_prop`; the
`Reshape` actions are the operations of `object.zig`. The out-of-memory outcomes of
`InlineCache.record` (a dead megamorphic site, an entry that is left out) are
choices in `Record`.

### AsyncGenerators - one generator object and its consumers

The natives that drive a generator call each other in tail position, so `step` holds
the one call in progress. `Enqueue` is `asyncGenEnqueue`, possible wherever user code
runs: at the top level, in the body, and inside the four operations that read a
`constructor` or `then` of the program's. The `Start...` actions are the branches of
`pumpAsyncGen`, `ResumeBody` and `BodyRuns` are `runSuspendable`, `AfterStop` is the
rest of `driveAsyncGen`, `Subscribe...` is `subscribeAwait` with its failure,
`Continue` the five `asyncGenOn...`/`asyncGenYieldReturn...` continuations, and
`CompleteRequest` is `asyncGenComplete` followed by the pump. The body is any body that stops
`MaxStops` times: it yields, awaits, returns, throws, and may hold a return back in a
`finally`. `RequestQueue` is the abstract specification: a queue of requests of
which the first unanswered one is answered next, finally if and only if the
generator has finished, from which on it answers without running anything
(`ServesInOrder`). `caller` and `thrown` are history, so that "a call returns a
promise" can be stated.

### JsValues, Interpreter, Lanes, NativeRegion - compiled functions

`JsValues` holds the NaN-boxed values and what the interpreter computes for each
operator. Widths and the floating-point unit are parameters, of which only
`WidthsAssumption`, `FloatAssumption`, `OrderAssumption` and `AluAssumption` is used: a
double represents every integer up to `SafeInt`, and operations on such integers are
exact when the result is one.

`Interpreter` is one call of a bytecode function: `pc`, registers, environment, the
scope outside, the list of effects, status and result; one action for each kind of
instruction. Property accesses, calls and coercions are single steps that may assign
what the function captured or exposed, may throw, and append an effect.

`Lanes` has one operator for each emission of the backend on boxed words
(`BoxedBinop` is `emit_boxed_num_binop`, `BoxF64` is `emit_box_f64`, and so on), and the
operators of the unboxed lane of loops.

`NativeRegion` composes the two: `Accepts` is `analyze` of `int_fn_jit.zig`,
`EnterRegion` its `run`, the `Native...` actions are the emitted code, `FineDeopt` is the
guard's branch, and `Returned`, `Threw`, `Resume` are the three ways `tryJitCall`
and `resumeJitFrame` receive the call. Its specification *is* the interpreter's under
the mapping that reads a bare bit as a boolean and the buffer as the environment
(`ImplementsInterpreter`), when three hazards do not bite: a bare bit read as a value
(`BooleansGateBranches`), a jump on a word that is not a bare bit (`BranchesAgree`), a copy of a
captured variable that is out of date (`CapturesCurrent`). The code is exposed to each of
them: sections 4 and 5 have a function for every one.

### LoopTiers - hot loops

`BackEdge` is `opJmp` with its counter and blacklist. It offers the loop to on-stack
replacement (`OsrAccepts` is `analyze` of `osr_jit.zig`, `OsrEnters`, `StartOsr` and
`OsrExit` are its `run`, the other `Osr...` actions are the emitted integer code,
`OsrDeopt` the escape past 2^53) and then to the kernels of `loop_jit.zig`
(`Kernel` is its recogniser, `Approaches` its termination guard, `KernelStep` one
iteration). The variables that start with `i` are the frame of the same call run by
the interpreter alone. It goes along with machine code, one instruction for one, and goes
back to where the loop was entered (`before`) when the attempt is dropped (`GoesBack`);
while a kernel runs it waits, and then it runs the loop itself (`Replay`, `Rejoin`).
Whenever the two stand side by side they must agree (`LoopsAgree`) in place, variables
and the registers that are still read.

`SmallMachine` is the machine of both MC modules: 4-bit SMIs, doubles with 5 bits
of integer precision, -0, NaN, a fraction and a number above every exact integer.

## 3. Runs that pass

| Run | Question | What it shows |
|---|---|---|
| `GcHeap_generations` | Are generations sound, and weak entries? | An intrinsic and two heap objects that are Map-like collections or weak containers, each other's contents, keys and values, and a barrier that may fail: `NoDangling`, `RememberedComplete`, the invariant `IInv` used by the proof; the collector's own lists never hold a destroyed object (`BookkeepingAlive`); only unreachable keys are purged |
| `GcHeap_terminates` | Does a collection end, and keep nothing needless? | `CollectionTerminates` and `MajorIsPrecise`, through the ephemeron fixpoint: two weak containers and a closure that are keys and values of each other make chains whose second link is found in a second round |
| `Promises_chains` | Do outcomes and reactions go where they should? | Three promises and an await that may fail: each reaction runs once and in order; refinement of `PromiseFate` |
| `Promises_thenables` | Can re-entrant user code break a resolution, and is everything served? | A foreign thenable with a getter, nested drains, an awaiting function: exactly one way to settle each pending promise, one continuation per suspended coroutine, nothing runnable left when idle, and every reaction of a settled promise runs |
| `InlineCaches_hits` | Is a hit where the lookup ends? | Three objects in prototype chains of two links, accessors that reshape the objects while the read waits: own and prototype hits |
| `InlineCaches_locks` | Do packed slots and locks survive every path? | One object under define, delete, seal and freeze, a computed read site and a write site: properties change one at a time, locked ones stay, key order is kept |
| `AsyncGenerators_requests` | Does every request get its answer? | Five requests of any kind at any moment: refinement of `RequestQueue`, one holder of the request in flight, values at their owners, flags that tell the place, an ended body that never runs, and no request that waits for ever |
| `NativeRegion_implements` | Is a native call one the interpreter could have made? | 29 functions on 14 operands, each interpreted, native, and native with every deopt: the refinement. The functions are ones in which none of the three hazards (sections 4 and 5) bites, which is the condition of the theorem (section 6) |
| `LoopTiers_loops` | Does a loop leave behind what the interpreter would? | Seven loops at every moment of their heat, in both tiers, with deopts and the blacklist: `LoopsAgree`, and every loop that a tier takes over ends |

**Bounds.** *Collector*: `Nursery = 1` makes every second allocation a
collection, which is the finest interleaving, as under `JSZ_GC_STRESS`;
`MajorPeriod = 1` alternates minor and major collections; two heap objects and an
intrinsic are enough for every old-to-young edge to arise and to be the only
reference left, and every such object may also be a weak container. In `GcHeap_terminates` the closure
stands for a key that is live from the start: an entry (`c1`, `o1`) is processed in the first round and makes
live the key of an entry (`o1`, `o2`), whose value only a second round finds. Liveness is
checked without symmetry.
`MaxRefs = 2` bounds the references held at once, and the proofs have no bound at
all. *Promises*: `MaxPairs` (2 or 3 resolver pairs), `MaxDepth = 4` (script, drain,
job and a call inside it), `MaxQueue`, `MaxEvals`. Two pairs on one promise are
what an order needs; three promises are what an adoption chain or cycle
needs. A handler that would need a pair beyond the bound does not make it, and
the bound counts the pairs that waiting thenable jobs will create, so no job is
ever blocked by it. *Caches*: `PolyCap = 2` instead of 8, so that one site goes
through all four stages; `ProtoDepth = 5` as in the code, chains of two links;
`MaxShapes` 3 or 4: the root, one shape per key and one that a deletion makes;
`MaxCalls = 1` getter or setter waiting, which is enough for its access to record
what a changed world looks like. *Async generators*: five requests and three stops are enough for
requests to queue behind an await, a return that is held back, a second return and a
request after the end. *JIT*: `Half = 8` and `SafeInt = 16`, so that every boundary (SMI overflow,
rounding, unsigned shift, -0) is one operation away; arguments of every tag, and
`MaxEffects` effects for the helper calls. Hotness 2 instead of 1000 and blacklisting at 2
instead of 8, where earlier calls may have left the counters anywhere;
`MaxExits = 8` and `MaxAccs = 4` are the code's. `GcHeap_generations` treats the heap
objects, and `InlineCaches_hits` the objects that are only holders, as interchangeable; all other constants are distinguishable or are single.

`CHECK_DEADLOCK FALSE` is set for promises, generators and calls of functions (they end) and caches (a bound on
shapes may leave nothing to do). The collector's runs check deadlock: a
collection always has a next step.

**Fairness.** `GcHeap!FairSpec` has weak fairness of the collector's steps: `collect`
is a function that does not return before it is done and nothing else runs. It assumes
nothing of the program. `Promises!FairSpec` has weak fairness of `Return`, `RunJob`
and `EndDrain`: a call of user code returns, and the loop of `runMicrotasks`
goes on until the queue is empty. The first is an assumption on the program (a handler
that loops forever serves nothing, in any engine); the second is the code's own loop.
`AsyncGenerators` has weak fairness of `Progress`, everything but new requests: a call in
progress goes on, the body stops eventually, awaited promises settle; the last two are
assumptions on the program again. `LoopTiers!FairSpec` has weak fairness of machine code and
of the interpreter's replay of the same loop, never of the program around it.
`LoopsEnd` is a statement about kernels, which accept no loop that moves away from its
limit; on-stack replacement has no such guard, and there the property holds because
the integer loops of the instance end in the interpreter too (section 5).

## 4. Runs that show a violation

Each shows one statement the code does not keep. `PROJECT.json` has the quotations
under "findings". The specifications are those of the passing runs; only the values of
constants differ.

* `GcHeap_closure_minor` (`NoDangling`): the write barrier ignores closures. An old object stores a
  closure whose environment is the only holder of a young object; no barrier records
  the old object, and a minor collection destroys the young one, although the comment
  on minor marking says that no live young object can be missed.
* `InlineCaches_accessor` (`ReadsAreCurrent`): turning a data property into an accessor in place keeps
  the shape, so a read site that cached the slot answers with the object that boxes
  the getter, without calling it. A comment promises a shape transition, and the
  JIT's copy of the hit checks the attribute.
* `NativeRegion_escaping` (`BooleansGateBranches`): in `return (a < b) && b`
  the jump behind the comparison is taken with the bare 0 or 1 still in the register of
  the result, which is then returned as if it were a value. `int_fn_jit.zig:17` says a
  boolean "never escapes into a stored/returned value". The collector scans the registers of a
  region (`bc_vm.zig:5782`) and would take a bare 1 for a pointer (`int_fn_jit.zig:80`).

## 5. Further observations

Found while translating. Most of them are not runs of their own, but the properties and instances
named here reproduce them: give the run named the values of constants and the property stated, and TLC
finds the trace.

The collector, on `GcHeap_closure_minor` with `Clo <- NoClosure` and the kinds named:

* `Kinds = {"ordinary", "promise"}`, `NoDangling`: an old promise is settled with a young object. Its record is in
  an arena, settling passes no barrier, and the strong trace has no case for promises
  (`es2015_collections.zig:912`), so a minor collection destroys the object; `heap.zig:653` says
  that no live young object can be missed.
* `Kinds = {"ordinary", "stack"}`, `NoDangling`: disposable stacks are traced when visited (`disposable_stack.zig:484`)
  but not registered the way Map and Set are, so an old stack's young resources are missed
  by a minor collection.
* `Kinds = {"ordinary", "collection"}` and `RegisterFails = {TRUE, FALSE}`, `NoDangling`: after a failed
  registration `force_major` is set, but the major
  collection clears it and the container stays unregistered; a minor one misses its entries.
* `Kinds = {"ordinary", "weak"}`, `DeadContainersKeepNothing`: weak processing is documented to skip containers
  that died this cycle (`heap.zig:519`) and does not; a dead WeakMap keeps its values for
  one more collection.
* `Clo` with weak containers: `isValueLive` counts every closure as live, so a
  closure that is a key keeps its entry for ever, and the objects its environment
  holds are not marked for being so.
* `Arrow`: `captured_this` of an arrow function is not marked with its closure
  (`src/bytecode/function.zig:99`).
* `Hidden`: intrinsics that no root names, such as an iterator prototype
  (`src/runtime/realm.zig:5883`), can be given references no collection visits.
* `docs/architecture.md` describes a *shared global* megamorphic cache and prototype
  hits *at any depth, with invalidation on prototype mutation*. In the code the map
  belongs to its site, the depth is `PROTO_IC_DEPTH` (5), and nothing is invalidated: each
  hit compares the shape of every link.
* `growSlots` (`object.zig:470`) may fail after the object has its new shape.
* Queueing a reaction may fail; the failure is swallowed and the reaction list
  cleared (`promise.zig:251`).

Promises and generators:

* `Promises`, `MaxEvals = 2`: a coroutine suspended when its script ends is resumed by
  a later script of the same context on the first script's VM (`bc_vm.zig:5589`), a
  local of `runMainBc` (`isolate.zig:433`) that no longer exists. `ResumedOnItsVm`
  states it; `docs/api.md:471` allows several evaluations of one context.
* `Promises_thenables` with `Poisonable = TRUE`, `AwaitsAreResumed`: an await whose operand is a promise with a throwing
  `constructor` getter leaves the coroutine suspended, with no continuation and its
  promise pending for ever (`bc_vm.zig:4943`).
* `AsyncGenerators_requests` with `"await"` in `Poisonable`, `OneHolder`: the same error inside a generator escapes
  (`bc_vm.zig:5246`): `next()` throws instead of returning a promise, the running
  flag stays set and every later request waits for ever (also `NobodyWaits` and
  `CallsReturnPromises`). The awaits of a returned value handle it.

Compiled functions (the first two on `NativeRegion_escaping` with the constants named):

* `Programs <- MCBranching`, `BranchesAgree`: a native conditional jump tests the word, and boxed
  `false`, `null`, NaN, 0 and the empty string are not the zero word. `if (a) return 1` with
  `a = 0` goes the wrong way; the analysis does not ask what a jump tests.
* `Programs <- MCObserving`, `Arguments <- MCFunctions`, `Scopes <- MCBoundScopes`, `CapturesCurrent`:
  in `a(); return g` the captured `g` was copied on entry
  (`int_fn_jit.zig:563`), and the function called assigns it.
* Two parameters of one name have one slot but two arguments (`int_fn_jit.zig:558`): native
  code sees the first, the interpreter the last.
* `arith.zig:517` converts two doubles to integers without a range check once it has seen two
  numbers.
* After a fine deopt of a function that native code called directly (`bc_vm.zig:3962`) the
  interpreter goes on with `this` undefined.

Loops:

* `LoopTiers_loops` with `LoopsAgreeExactly`: the entry guard of on-stack replacement takes -0 for the integer 0
  (`osr_jit.zig:91`), and 0 is written back, where `lib.rs:438` says "bit-exact with JS number
  semantics". Booleans and `undefined` stored in such a loop come out as 1 and 0.
* On-stack replacement has no termination guard, and neither tier looks at gas, time or memory
  while it runs: an endless integer loop cannot be interrupted
  (`docs/architecture.md:114`, `docs/api.md:241`).
* The analysis takes a register for written once a write stands further up in the loop
  (`osr_jit.zig:143`), also when that is in a branch that was not taken: such a register would
  hold 0 in machine code. Nothing shows that the compiler leaves one; section 6 states it as a
  condition.
* Write-back covers every name stored to anywhere in the loop, taken branch or not: an
  assignment to a constant in a branch that was not taken fails, and then *defines* the name
  (`osr_jit.zig:406`). It may also run out of memory half-way, after which the loop is run again.
* The kernel: two accumulators over one variable each start from its old value; with `<=` and
  a limit of 2^53 the kernel ends and the interpreter would not; at the top level the
  completion value is not updated.
* `HOIST_LEX` and `INIT_LEX` are accepted by the analysis and rejected by the backend.

## 6. What is proved

All proofs are checked by TLAPS.

### The collector

`GcHeapProofs` holds for every set of objects, every nursery size and
major period, every reference bound and a barrier that may or may not fail.

* `TypeCorrect`: `Spec => []TypeOK`, with no assumption beyond `ConstantsAssumption`
  (closures, arrow functions and hidden intrinsics included).
* `Invariant`: `Spec => []IInv`, and from it
* `CollectionIsSafe` (`NoDangling`): no collection destroys what the program can reach;
* `BarrierIsComplete` (`RememberedComplete`): between collections the remembered set
  covers every old-to-young slot and prototype, or a major collection is forced;
* `CollectorIsSafe` (`BookkeepingAlive`): the collector's own lists hold
  allocated objects only, in every intermediate step;
* `PurgeIsSafe` (`PurgedKeysUnreachable`): a purged entry's key is unreachable.
* `MajorKeepsNoGarbage` (`MajorIsPrecise`): `Spec => []MajorIsPrecise`, again with no assumption
  on the heap: what a major collection has marked is live, so it keeps no garbage.

All but `TypeCorrect` and `MajorKeepsNoGarbage` assume `VisibleHeap`: no closures and no hidden intrinsics, only
ordinary objects, Map-like collections and weak containers, no failed registration. The
assumption is what sections 4 and 5 show to be needed: with closures in a minor
collection, promises, stacks or a failed registration the theorem is false of this
code. Within it, generations, the barrier with its out-of-memory path, collections,
ephemerons and purging are all there.

**The argument.** `NoDangling` alone is not inductive: whether a sweep is safe depends
on what was marked, and that on what the barrier recorded. `IInv` is a conjunction of
named parts, each the contract of one mechanism:

* `GraphSafe` - what an allocated object or root refers to is allocated;
* `ShapeOfObjects` - destroyed objects hold nothing, structs belong to their kind;
* `TrackedExact` - `weak_containers` holds exactly the containers that will survive;
* `RememberedExact` - the barrier's contract, with `force_major` as its alternative, and
  no minor collection starts while a major one is forced;
* `MarkSound` - the tricolour invariant during marking: roots, remembered contents and
  the children of black objects are shaded, where an old object counts as shaded in a
  minor collection;
* `SweepSound` - once the weak entries are purged, survivors refer to survivors only;
* `Quiescent` - marks, worklist and remembered set are empty when nobody needs them.

The step from `MarkSound` to `SweepSound` is the heart of it (`LiveClosed`,
`PurgeWeakInv`): when the worklist is empty and no ephemeron is pending, the
live objects are closed under reads. For a minor collection this needs
`RememberedExact` for slots and prototypes, and `TraceCollections` for the contents of
old collections, which have no barrier. `PurgeIsSafe` uses the same closed set as
the witness that a purged key is unreachable. There is one lemma per action, and
`NextInv` puts them together.

Precision is the other direction and has an invariant of its own, `PreciseInv`. `MajorIsPrecise`
says that every set the program cannot see out of contains all that is marked: while marking,
each such set `L` does (`MarkExact`); the purge shrinks what survivors hold, so a set that is closed after
it was closed before it once what only dead containers held is added (`KeptBeforePurge`), which is
what `SweepExact` carries through the sweep. It needs no `VisibleHeap` because a reference the
collector overlooks can only make it mark less. A closure used as a weak key counts
as live for ever (`isValueLive`), and `ClosureKeysLive` says so in the statement.

### Objects, shapes and caches

`InlineCachesProofs` holds for any number of objects, keys, shapes, sites and pending accessors,
any length of a cached prototype chain and any capacity of a polymorphic site:
`TypeCorrect`; `HitsAreRight` (`HitsFindTheProperty`); `ChangesOneProperty`
(`OnePropertyAtATime`, for objects that share their shapes, too); `LocksHold`
(`LockedStaysLocked`); and `KeysStayInOrder` (`KeysKeepTheirOrder`). They assume
what the constants of any program satisfy (`ConstantsFit`, `ProgramFits`).

No cache is ever invalidated, so the invariant has to say what makes an old entry still right.
`IInv` has four parts, all checked by TLC on the runs' instances before they were proved:

* `TreeRight` - no shape has a key twice, and an edge leads to the shape with that one key more;
* `ObjectsRight` - an object has a slot and attributes for each key of its shape;
* `CachesRight` - an entry names the slot of its key in its shape, and a prototype entry names
  shapes without the key up to the one that keeps it;
* `CallsRight` - an access that waits for its accessor has a site and a key of its own.

The last two speak of shapes and never of objects, and shapes only grow in number (`Grows`): whatever
the program does to objects, also while an accessor runs in the middle of an access, what a
cache says stays true. `HitFound` then reads the answer of a hit off the shapes of the chain it
compared.

For the action properties every step is classified by its effect on each object
(`Effect`): it honours the locks (`StaysLocked`), keeps the order (`StaysOrdered`) and leaves alone all
properties but one (`StaysThere`). Each operation is one of four moves: rewrite a property in place,
add one, delete one with the slots behind it moved down, or lock. The JIT's store is a rewrite only because `CachesRight`
makes the cached slot the key's.

The library's induction theorems cannot be used here, so the two arguments that need
one (the search along a chain ends where its guards end, and a key has a least position) go through
cardinalities of intervals (`Downset`, `Induct`).

### Async generators

`AsyncGeneratorsProofs` has no bound on requests or stops: `TypeCorrect`; `FlagsAreRight` (two
flags that are never reset tell, whenever they are read, where the body stands);
`OneHolderAlways` (under the assumption that an await of the body does not fail to
subscribe, which section 5 shows to be needed); `ValuesReach`; `EndedStaysEnded`; and
`ImplementsQueue`, the refinement of `RequestQueue`. They rest on one inductive invariant,
`IInv`: the calls in progress fit the flags and the place of the body (`Calls`, `Stands`), at
most one call or continuation holds the request in flight (`Holds`), the requests are
numbered in the order of the queue (`Numbers`), and a value under way belongs to the
request in flight or was held back by a `finally` (`Owners`).

### Promises

`PromisesProofs` holds for any number of promises, resolver pairs, jobs and coroutines, any
depth of calls and drains, and whatever user code does in an executor, a handler, a getter or
a foreign `then`: `TypeCorrect`; `SettledOneWay` (`OneWayToSettle`); `RunsOnce`
(`ReactionsRunOnce`); `RunInOrder` (`ReactionsInOrder`); `IdleDrained` (`IdleIsDrained`);
`ResumedOnce` (`AwaitsAreResumed`, under the assumption that no await fails to subscribe, which
section 5 shows to be needed); and `ImplementsFate`, the refinement of `PromiseFate`. Of
the constants they assume that a promise is none of the other values (`PromisesAssumption`).

The inductive invariant `IInv` is one conjunction for all of them, since none of these facts
holds without the others:

* `Types` - the records of the state, of the frames and of the jobs;
* `Refers` - pairs, frames and coroutines name promises that exist, and a promise that is no
  longer pending has an empty list;
* `Calls` - the call stack is what the engine can have built: a script only at the bottom,
  the outermost drain known as such, each running coroutine in one frame;
* `WaysInv` - a pending promise has one way to be settled, of four kinds: an unused pair, a
  getter in progress, a coroutine, or a place where a reaction that settles it waits;
* `ThensInv`, `AwaitsInv` - each reaction of a `then` or an await waits in one place;
* `OrderInv` - within a list, and within what is left of the queue, the reactions on one promise
  are in the order of their registration.

Places and ways are *sets*, and "exactly one" is `Single(P) == \E x : P = {x}`: a step that moves
a reaction from a list to the queue, or turns a pair into a getter, replaces the one element, and
the proof never counts. Only at the end are these sets related to the cardinalities of
the checked properties (`PairCounted` and its neighbours). The lemmas about places say what
happens to them when a reaction is listed, a job queued or taken, or a list flushed; the lemmas about
the ways do the same for settling, adopting and marking a pair. Each action is then a
few of these moves in a row, which is how the code is built, too.

For the refinement every step is classified by its effect on the lists and the queue
(`StepEffect`): nothing changes its fate; one promise is *decided* (settled, or made to follow); or an outcome
*arrives* at a follower whose adoption job has run. `ListsHoldAlways` says that a following promise
waits exactly where the mapping looks for it, so that `FateIs` can read the abstract fate off the
state, and each class is a step of `PromiseFate` or a stutter.

### Machine code

`LanesProofs!LanesAgree`: for every operator and every two words, what the emitted code leaves is
what the interpreter computes, or it deopts, for every width and every
floating-point unit that meets the assumptions of `JsValues`. `IntLanesAgree` is the same for
the unboxed lane of loops, with the product of 0 as the exception. One
lemma per emission; the arithmetic is in `BoxedBinop`, where the guard at 2^53 is what
makes the integer result equal to the rounded double.

`NativeRegionProofs!TypeCorrect`: registers, variables and the buffer hold well-formed
words, for every program. `NativeImplementsProofs!Implements`:

    Spec /\ []Faithful => ImplementsInterpreter

a native call refines the interpreter in every behaviour in which none of the three
hazards bites (`Faithful`). It needs `TypeOK` and `Clean` (no bare word outside the
registers of a region), and one simulation lemma per action: a deopt and the hand-over
stutter, each emitted instruction is one of the interpreter. So the three hazards are the
*only* ways in which native code can differ.

`DisciplinedImplements` discharges the hypothesis for programs that meet
a condition on their text (`Disciplined`: registers of comparisons are used for nothing
else, jumps test them, and code that reads captured variables calls nothing). The
condition is sufficient, not necessary, and code the compiler emits often reuses registers
and falls outside of it; `DisciplinedExamples` in `MCNativeRegion` shows that loops,
helper calls and comparisons inside of it exist.

By itself, `BooleansStayInside` proves `BooleansGateBranches` under the same condition, whether the code runs
natively, interpreted or is resumed after a deopt. `CapturesStayCurrent` needs no condition at all:

    Spec => [](effects = 0 => CapturesCurrent)

for every program, a copy is what the variable holds at every read until the region has let
code outside run. The entry copies every captured variable, and the analysis accepts no
assignment to one. So a call, an accessor or a coercion between the entry and the
read is the only way a copy goes stale, and section 5 has the function in which it does.

### Loops

`LoopTiersProofs` holds for every program, every machine that meets the assumptions, any
threshold and any number of failed attempts.

`TypeCorrect`: the integers of machine code stay within those that a double represents, machine code
stays in its loop until it leaves through one of the analysed edges, and a kernel's
accumulators stay doubles although its counter may leave the exact integers in its last step.

`OsrIsInvisible`: on-stack replacement cannot be seen.

    Spec /\ Tidy(prog) /\ [](phase # "kernel") => []LoopsAgree

Until the first kernel, whenever the interpreter has the frame, it has what the interpreter alone
would have, the sign of a zero excepted. The invariant (`LoopInv`) has two halves. In the
interpreter the frames agree on everything that is still read (`Agree`); a step of both keeps that,
because no operator but a division tells -0 from 0 (`SameResult`). In machine code (`InStep`) both
are at the same instruction, each variable of the loop is the boxed form of its
integer, what the loop does not write is shared, the real frame agrees with the one the interpreter
will be put back to, and each register that is *fresh* holds an integer that stands for the
interpreter's value: the number, or 0 and 1 for a boolean, or 0 for `undefined`. So a
jump tests it as the language does (`GateStands`), an operator computes what the language does
(`LaneStands`, from `IntLanesAgree`), an exit boxes what the interpreter has
(`ExitAgrees`), and dropping the attempt leaves the frames as they were at the entry
(`DeoptAgrees`).

`Tidy` is a condition on the function's code, and the reason why it is needed is a fact about
`osr_jit.zig`: its analysis checks that a register read in the loop was written further *up* in it
(`CarriesNothing`), not that it was written on every *way* to the read, and it does not ask
whether an operand was a boolean. A register is fresh at an instruction if a write of it
leads there straight, with no jump into the stretch between; tidy code reads the
registers of its compiled loops only where they are fresh, and computes and stores only what
was fresh as a number. It also stores only to variables that exist, and does not divide. The compiler's
output for expressions on numbers has this form, since it loads its operands behind
the last jump; `TidyExamples` in `MCLoopTiers` has TLC confirm it for all seven functions of the run,
and a conditional expression or a stored `true` falls outside.

The assumptions on the constants are `LayoutAssumption` (instructions follow each other without
a gap, jumps lead to instructions) and `SignAssumption` (the floating-point
unit lets only division see the sign of a zero).

## 7. What is only model-checked

Termination of a collection, `ReactionsServed`, `NobodyWaits` and `LoopsEnd`, since liveness
under fairness is out of the prover's reach; `LoopsAgree` after a kernel has run (the
interpreter catches up with a kernel's whole run, which would need induction over its
iterations) and for code that is not tidy; `ImplementsInterpreter` for functions outside of
`Disciplined` that meet none of the three hazards: `Implements` reduces it to their absence, and that they
are absent TLC shows for the functions of the run. For
these the README claims what the bounds of section 3 cover and no more. The other way round, hidden intrinsics,
the captured `this` of arrow functions and disposable stacks are in no run's instance: `TypeCorrect` and
`MajorKeepsNoGarbage` of the collector cover them, and section 5 says what they break.

## 8. What is not modelled, and why

* Parser, compiler, regular expressions, text, numbers, dates, Intl and Temporal:
  sequential, deterministic functions on data, covered by test262; their states are too
  large and their control too local for a model checker to add to that.
* Cranelift and the linking of its code: it is trusted to do what the emitted instructions say.
* The module system: evaluation order with cycles and top-level await is a component as
  large as the promises it rests on; a model without the promises' jobs would leave out what
  is hard, and one with them needs both in one state space.
* Gas, time and memory limits: they end an evaluation between two instructions, and what
  they leave behind depends on the native operation they interrupt.
* Arrays, typed arrays, the disposal protocol: sequential code on sizes and lists.
* The command line, the test runner, the debugger: input and output.
* Inside modelled components: plain generators, `yield*`, the direct native-to-native call, loops over
  registers instead of variables (`GET_LOCAL`), strings and BigInts as operands of compiled code, the order of entries and live iterators of Map and Set,
  with-scope objects, array and string exotic behaviour, symbols and private
  names, promise combinators, `Promise.prototype.finally`, subclassed promises and other observable
  `constructor` reads, an await of a foreign thenable (a promise resolved with it and
  then awaited, both of which are there), wording of errors.
* Memory exhaustion outside the collector and the caches, except where named.

## 9. Plan

What could come next, most important first:

1. Module system: evaluation with cycles and top-level await over an abstract promise,
   against "each module once, after its dependencies outside its cycle".
2. Handle scopes and limits: the 32-slot scope, and what an interrupted run leaves in the
   queue and in suspended coroutines.
3. Arrays: dense elements, the change to sparse, mapped arguments and their cached slot.
4. Promise combinators, Map iterators, typed-array length tracking.

Theorems worth proving next: closures under major collections only, which weakens `VisibleHeap`;
a refinement of the collector to an abstract heap whose only step is "destroy
something unreachable"; and `LoopsAgree` for the kernels, with an interpreter that goes along
with them as it does with machine code.

## 10. Running

```
tlc -config GcHeap_generations.cfg MCGcHeap.tla
tlc -config NativeRegion_implements.cfg MCNativeRegion.tla
tlapm GcHeapProofs.tla
```

`PROJECT.json` lists every run with its module and configuration, the
source lines each definition stands for, and the variants each property rejects.
