------------------------------- MODULE GcHeap -------------------------------
(***************************************************************************)
(* The generational, non-moving mark-sweep collector of src/gc/heap.zig,   *)
(* together with the mutator that runs between collections.                *)
(*                                                                         *)
(* A JsObject is a member of Obj. Its outgoing references are split the    *)
(* way the collector sees them: proto, slots (shape slots, dense elements, *)
(* symbol properties), inner (references held in an arena-side struct      *)
(* behind internal_slot) and weak (the entries of a WeakMap, WeakSet,      *)
(* WeakRef or FinalizationRegistry). Arena objects, the intrinsics, are    *)
(* never collected. A closure is a member of Clo: the arena owns it, it    *)
(* has no header, and it refers to objects through its environment chain,  *)
(* its backing object and, for an arrow function, its captured this.       *)
(*                                                                         *)
(* A collection is a sequence of steps (markRoots, drain, traceLive-       *)
(* Collections, processWeak, sweepInto, clearRemembered); the mutator is   *)
(* stopped meanwhile, so its actions are guarded by phase = "run".         *)
(***************************************************************************)
EXTENDS Naturals, FiniteSets

CONSTANTS
  Obj,              \* object identities, arena intrinsics included
  Arena,            \* the intrinsics, allocated in the arena
  Hidden,           \* the intrinsics no root reaches: iterator prototypes, ...
  Clo,              \* closures; arena-owned, never freed
  Arrow,            \* the closures that are arrow functions
  None,             \* no reference
  Kinds,            \* the internal kinds the mutator may allocate
  GcEnabled,        \* FALSE under JSZ_GC_OFF
  Nursery,          \* nursery_bytes, counted in objects
  MajorPeriod,      \* major_period; 0 makes every automatic collection major
  MaxRefs,          \* bound on the references between objects and closures
  BarrierFails,     \* outcomes of the remembered-set append (TRUE is OOM)
  RegisterFails     \* outcomes of the weak_containers append (TRUE is OOM)

Val == Obj \union Clo
AllKinds == {"ordinary", "collection", "stack", "promise", "weak"}
\* Kinds whose arena-side struct gcStrongTrace walks: Map and Set; iterator
\* helpers and the disposable stacks.
TracedKinds == {"collection", "stack"}
\* Kinds that registerCollection enters in weak_containers.
TrackedKinds == {"collection", "weak"}

ASSUME ConstantsAssumption ==
  /\ Arena \subseteq Obj /\ Hidden \subseteq Arena
  /\ Arrow \subseteq Clo
  /\ None \notin Val
  /\ Obj \intersect Clo = {}
  /\ Kinds \subseteq AllKinds
  /\ GcEnabled \in BOOLEAN
  /\ Nursery \in Nat \ {0} /\ MajorPeriod \in Nat /\ MaxRefs \in Nat
  /\ BarrierFails \subseteq BOOLEAN /\ RegisterFails \subseteq BOOLEAN

VARIABLES
  gen,          \* "free" (unallocated or destroyed), "young", "old", "arena"
  kind,         \* internal_kind
  proto,        \* prototype link
  slots,        \* references in shape slots, dense elements, symbol properties
  inner,        \* references in the arena-side struct of the object
  weak,         \* <<key, value>> entries; <<target, None>> for a WeakRef
  made,         \* closures created so far
  env,          \* references a closure's environment chain and backing hold
  this,         \* captured_this of an arrow closure
  roots,        \* global environment, extra_roots, handle scopes and, during
                \* a run, the registers and environments of the VM's frames
  scanner,      \* is a VM root-scan callback installed?
  youngBytes,   \* young_alloc_bytes, in objects
  minors,       \* minors_since_major
  forceMajor,   \* force_major
  remembered,   \* the remembered set
  tracked,      \* weak_containers
  phase,        \* "run", or the step a collection is at
  minor,        \* minor_mode
  auto,         \* was the collection started by maybeCollect?
  marked,       \* mark bits and gc_seen flags
  gray          \* mark_worklist

graphVars == <<gen, kind, proto, slots, inner, weak, made, env, this>>
rootVars == <<roots, scanner>>
policyVars == <<youngBytes, minors, forceMajor>>
setVars == <<remembered, tracked>>
gcVars == <<phase, minor, auto, marked, gray>>
vars == <<graphVars, rootVars, policyVars, setVars, gcVars>>

-----------------------------------------------------------------------------
(* The object graph                                                        *)

Alloc == {o \in Obj : gen[o] # "free"}
IsOld(v) == v \in Obj /\ gen[v] = "old"
IsYoung(v) == v \in Obj /\ gen[v] = "young"

\* What the mutator can reach from an object or a closure in one step.
Edges(v) ==
  IF v \in Clo THEN env[v] \union ({this[v]} \ {None})
  ELSE ({proto[v]} \ {None}) \union slots[v] \union inner[v]

\* What scanChildren / markEnvironment shade when they reach an object or a
\* closure: captured_this is not traced, nor is an arena-side struct whose kind
\* gcStrongTrace does not know.
TracedInner(o) == IF kind[o] \in TracedKinds THEN inner[o] ELSE {}
ChildrenNoBacking(v) ==                \* mutant: markEnvironment does nothing
  IF v \in Clo THEN {} ELSE ({proto[v]} \ {None}) \union slots[v] \union TracedInner(v)
Children(v) ==
  IF v \in Clo THEN env[v]
  ELSE ({proto[v]} \ {None}) \union slots[v] \union TracedInner(v)

TypeOK ==
  /\ gen \in [Obj -> {"free", "young", "old", "arena"}]
  /\ \A o \in Obj : gen[o] = "arena" <=> o \in Arena
  /\ kind \in [Obj -> AllKinds]
  /\ proto \in [Obj -> Obj \union {None}]
  /\ slots \in [Obj -> SUBSET Val]
  /\ inner \in [Obj -> SUBSET Val]
  /\ weak \in [Obj -> SUBSET (Val \X (Val \union {None}))]
  /\ made \subseteq Clo
  /\ env \in [Clo -> SUBSET Val]
  /\ this \in [Clo -> Obj \union {None}]
  /\ roots \subseteq Val /\ scanner \in BOOLEAN
  /\ youngBytes \in Nat /\ minors \in Nat /\ forceMajor \in BOOLEAN
  /\ remembered \subseteq Obj /\ tracked \subseteq Obj
  /\ phase \in {"run", "mark", "weak", "sweep", "clear"}
  /\ minor \in BOOLEAN /\ auto \in BOOLEAN
  /\ marked \subseteq Val /\ gray \subseteq Val

Init ==
  /\ gen = [o \in Obj |-> IF o \in Arena THEN "arena" ELSE "free"]
  /\ kind = [o \in Obj |-> "ordinary"]
  /\ proto = [o \in Obj |-> None]
  /\ slots = [o \in Obj |-> {}]
  /\ inner = [o \in Obj |-> {}]
  /\ weak = [o \in Obj |-> {}]
  /\ made = {}
  /\ env = [c \in Clo |-> {}]
  /\ this = [c \in Clo |-> None]
  /\ roots = Arena \ Hidden /\ scanner = FALSE
  /\ youngBytes = 0 /\ minors = 0 /\ forceMajor = FALSE
  /\ remembered = {} /\ tracked = {}
  /\ phase = "run" /\ minor = FALSE /\ auto = FALSE
  /\ marked = {} /\ gray = {}

-----------------------------------------------------------------------------
(* The mutator                                                             *)

Running == phase = "run" /\ scanner

\* Room for one more reference between objects: the bound of the model.
HasRoom ==
  Cardinality({e \in Obj \X Val : e[2] \in slots[e[1]]})
    + Cardinality({e \in Obj \X Val : e[2] \in inner[e[1]]})
    + Cardinality({o \in Obj : weak[o] # {}})
    + Cardinality({o \in Obj : proto[o] # None})
    + Cardinality({e \in Clo \X Val : e[2] \in env[e[1]]}) < MaxRefs

\* A run installs the VM's scan callback. When it ends the callback and the
\* frames are gone: only what S holds, the other roots, is still scanned.
StartRun ==
  /\ phase = "run" /\ ~scanner
  /\ scanner' = TRUE
  /\ UNCHANGED <<graphVars, roots, policyVars, setVars, gcVars>>

EndRun(S) ==
  /\ Running
  /\ Arena \ Hidden \subseteq S /\ S \subseteq roots
  /\ scanner' = FALSE
  /\ roots' = S
  /\ UNCHANGED <<graphVars, policyVars, setVars, gcVars>>

\* maybeCollect's test, made at the top of allocateObject.
CollectionDue == GcEnabled /\ scanner /\ youngBytes >= Nursery

\* noteWeakContainer: registers o once. On OOM it is left out and the next
\* automatic collection is made a major one.
NoteWeakContainer(o, k) ==
  \E oom \in IF k \in TrackedKinds THEN RegisterFails ELSE {FALSE} :
    /\ tracked' = IF k \in TrackedKinds /\ ~oom THEN tracked \union {o} ELSE tracked
    /\ forceMajor' = (forceMajor \/ oom)

\* allocateObject, once no collection is due. The caller holds p. The new
\* object lands in a register, or in the global environment at bootstrap.
Allocate(o, k, p) ==
  /\ phase = "run" /\ ~CollectionDue
  /\ gen[o] = "free" /\ k \in Kinds
  /\ p \in (roots \intersect Obj) \union {None}
  /\ p # None => HasRoom
  /\ gen' = [gen EXCEPT ![o] = "young"]
  /\ kind' = [kind EXCEPT ![o] = k]
  /\ proto' = [proto EXCEPT ![o] = p]
  /\ NoteWeakContainer(o, k)
  /\ youngBytes' = IF youngBytes < Nursery THEN youngBytes + 1 ELSE youngBytes
  /\ roots' = roots \union {o}
  /\ UNCHANGED <<slots, inner, weak, made, env, this, scanner, minors,
                 remembered, gcVars>>

BarrierOnce(o, v) ==                   \* mutant: the append is lost on OOM
  IF IsOld(o) /\ o \notin remembered /\ IsYoung(v)
  THEN \E oom \in BarrierFails :
         /\ remembered' = IF oom THEN remembered ELSE remembered \union {o}
         /\ UNCHANGED forceMajor
  ELSE UNCHANGED <<remembered, forceMajor>>

BarrierOnYoung(o, v) ==                \* mutant: the generations are swapped
  IF IsYoung(o) /\ o \notin remembered /\ IsOld(v)
  THEN \E oom \in BarrierFails :
         /\ remembered' = IF oom THEN remembered ELSE remembered \union {o}
         /\ forceMajor' = (forceMajor \/ oom)
  ELSE UNCHANGED <<remembered, forceMajor>>

\* writeBarrier / writeBarrierObj: an old owner that stores a reference to a
\* young object joins the remembered set. Only a value that is an object
\* counts: a closure never does. An arena owner has no gc_heap: no barrier.
Barrier(o, v) ==
  IF IsOld(o) /\ o \notin remembered /\ IsYoung(v)
  THEN \E oom \in BarrierFails :
         /\ remembered' = IF oom THEN remembered ELSE remembered \union {o}
         /\ forceMajor' = (forceMajor \/ oom)
  ELSE UNCHANGED <<remembered, forceMajor>>

\* A property store (JsObject.set, defineOwnData, denseSet, ...): v replaces w.
Store(o, v, w) ==
  /\ Running
  /\ o \in roots \intersect Obj /\ v \in roots
  /\ w \in slots[o] \/ (w = None /\ HasRoom)
  /\ slots' = [slots EXCEPT ![o] = (@ \ {w}) \union {v}]
  /\ Barrier(o, v)
  /\ UNCHANGED <<gen, kind, proto, inner, weak, made, env, this, rootVars,
                 youngBytes, minors, tracked, gcVars>>

Delete(o, w) ==
  /\ Running
  /\ o \in roots \intersect Obj /\ w \in slots[o]
  /\ slots' = [slots EXCEPT ![o] = @ \ {w}]
  /\ UNCHANGED <<gen, kind, proto, inner, weak, made, env, this, rootVars,
                 policyVars, setVars, gcVars>>

\* A prototype assignment followed by setProtoBarrier.
SetProto(o, p) ==
  /\ Running
  /\ o \in roots \intersect Obj /\ p \in (roots \intersect Obj) \union {None}
  /\ p # None /\ proto[o] = None => HasRoom
  /\ proto' = [proto EXCEPT ![o] = p]
  /\ Barrier(o, p)
  /\ UNCHANGED <<gen, kind, slots, inner, weak, made, env, this, rootVars,
                 youngBytes, minors, tracked, gcVars>>

\* Map.set, Set.add, DisposableStack.use, promise settlement...: the reference
\* goes to the arena-side struct, without a barrier.
PutInner(o, v) ==
  /\ Running
  /\ o \in roots \intersect Obj /\ v \in roots
  /\ kind[o] \in {"collection", "stack", "promise"}
  /\ HasRoom
  /\ inner' = [inner EXCEPT ![o] = @ \union {v}]
  /\ UNCHANGED <<gen, kind, proto, slots, weak, made, env, this, rootVars,
                 policyVars, setVars, gcVars>>

RemoveInner(o, w) ==
  /\ Running
  /\ o \in roots \intersect Obj /\ w \in inner[o]
  /\ inner' = [inner EXCEPT ![o] = @ \ {w}]
  /\ UNCHANGED <<gen, kind, proto, slots, weak, made, env, this, rootVars,
                 policyVars, setVars, gcVars>>

\* WeakMap.set(k, v); new WeakRef(k) when v is None. One entry per container.
PutWeak(o, k, v) ==
  /\ Running
  /\ o \in roots \intersect Obj /\ k \in roots /\ v \in roots \union {None}
  /\ kind[o] = "weak"
  /\ weak[o] = {} => HasRoom
  /\ weak' = [weak EXCEPT ![o] = {<<k, v>>}]
  /\ UNCHANGED <<gen, kind, proto, slots, inner, made, env, this, rootVars,
                 policyVars, setVars, gcVars>>

\* NEW_CLOSURE: the environment chain is filled by Bind; an arrow function
\* also captures the this value t of its definition site.
MakeClosure(c, t) ==
  /\ Running
  /\ c \notin made
  /\ t \in IF c \in Arrow THEN roots \intersect Obj ELSE {None}
  /\ made' = made \union {c}
  /\ this' = [this EXCEPT ![c] = t]
  /\ roots' = roots \union {c}
  /\ UNCHANGED <<gen, kind, proto, slots, inner, weak, env, scanner,
                 policyVars, setVars, gcVars>>

\* Environment.define / assign / initialize, or the lazy creation of the
\* backing object: no barrier, an environment has no header.
Bind(c, v) ==
  /\ Running
  /\ c \in roots \intersect Clo /\ v \in roots
  /\ HasRoom
  /\ env' = [env EXCEPT ![c] = @ \union {v}]
  /\ UNCHANGED <<gen, kind, proto, slots, inner, weak, made, this, rootVars,
                 policyVars, setVars, gcVars>>

\* A read leaves its result in a register: a property, a Map entry, a binding,
\* the value of a WeakMap key in hand, or the target of a WeakRef.
Readable(v) ==
  Edges(v) \union
    IF v \in Obj
    THEN {e[2] : e \in {x \in weak[v] : x[1] \in roots /\ x[2] # None}}
         \union {e[1] : e \in {x \in weak[v] : x[2] = None}}
    ELSE {}

\* A native function yields an intrinsic from the realm's table: an array
\* iterator, say, whose prototype the program then asks for.
Load(r) ==
  /\ Running
  /\ r \in Hidden \union UNION {Readable(v) : v \in roots}
  /\ roots' = roots \union {r}
  /\ UNCHANGED <<graphVars, scanner, policyVars, setVars, gcVars>>

\* A register is overwritten, a binding reassigned, a root removed, a handle
\* scope closed.
Drop(v) ==
  /\ phase = "run"
  /\ v \in roots \ (Arena \ Hidden)
  /\ roots' = roots \ {v}
  /\ UNCHANGED <<graphVars, scanner, policyVars, setVars, gcVars>>

-----------------------------------------------------------------------------
(* The collector                                                           *)

\* markObject's tests: an old object is skipped in a minor collection, and
\* nothing is shaded twice.
Shadable(v, m) == v \notin marked /\ ~(m /\ IsOld(v))

Shade(S) ==
  LET new == {v \in S : Shadable(v, minor)}
  IN  marked' = marked \union new /\ gray' = gray \union new

\* markRoots; a minor collection also scans every remembered object.
Begin(m, a) ==
  LET grayed == roots \union IF m THEN UNION {Children(o) : o \in remembered} ELSE {}
      new == {v \in grayed : Shadable(v, m)}
  IN  /\ phase' = "mark" /\ minor' = m /\ auto' = a
      /\ marked' = new /\ gray' = new
      /\ UNCHANGED <<graphVars, rootVars, policyVars, setVars>>

\* maybeCollect: allocation pressure starts a collection, major when forced or
\* when the period is over.
AutoCollect ==
  /\ phase = "run" /\ CollectionDue
  /\ Begin(~(forceMajor \/ minors >= MajorPeriod), TRUE)

\* Context.gc between evals, or __gc__ within one.
HostCollect ==
  /\ phase = "run"
  /\ Begin(FALSE, FALSE)

\* drainWorklist: the objects on the worklist are popped and scanned (a closure,
\* which markValue expands at once, is an entry of its own). One step stands for
\* the pops of a whole worklist: marks only grow, so their order is immaterial.
Scan ==
  /\ phase \in {"mark", "weak"}
  /\ gray # {}
  /\ LET new == {x \in UNION {Children(v) : v \in gray} : Shadable(x, minor)}
     IN  marked' = marked \union new /\ gray' = new
  /\ UNCHANGED <<graphVars, rootVars, policyVars, setVars, phase, minor, auto>>

\* isLive and isValueLive: a closure always counts as live.
IsLive(o) == o \in Arena \/ (minor /\ IsOld(o)) \/ o \in marked
ValueLive(v) == v \in Obj => IsLive(v)

\* The drain is over. A minor collection now traces the contents of every live
\* registered collection, since no old one is scanned otherwise.
TraceCollections ==
  /\ phase = "mark" /\ gray = {}
  /\ phase' = "weak"
  /\ Shade(IF minor THEN UNION {TracedInner(o) : o \in {x \in tracked : IsLive(x)}}
                    ELSE {})
  /\ UNCHANGED <<graphVars, rootVars, policyVars, setVars, minor, auto>>

AllWeakValues ==                       \* mutant: the key's liveness is not tested
  {e[2] : e \in {x \in UNION {weak[o] : o \in tracked} :
                   x[2] # None /\ ~ValueLive(x[2])}}

LiveEphemerons ==                      \* mutant: progress without a new mark
  {e[2] : e \in {x \in UNION {weak[o] : o \in tracked} :
                   x[2] # None /\ ValueLive(x[1])}}

\* The first loop of gcProcessWeak: values whose key is live and that are not.
EphemeronValues ==
  {e[2] : e \in {x \in UNION {weak[o] : o \in tracked} :
                   x[2] # None /\ ValueLive(x[1]) /\ ~ValueLive(x[2])}}

MarkEphemerons ==
  /\ phase = "weak" /\ gray = {} /\ EphemeronValues # {}
  /\ Shade(EphemeronValues)
  /\ UNCHANGED <<graphVars, rootVars, policyVars, setVars, phase, minor, auto>>

PurgeOnce ==                           \* mutant: one pass over the ephemerons
  /\ phase = "weak" /\ gray = {}
  /\ weak' = [o \in Obj |-> IF o \in tracked THEN {e \in weak[o] : ValueLive(e[1])}
                                             ELSE weak[o]]
  /\ tracked' = {o \in tracked : IsLive(o)}
  /\ marked' = marked \ (Arena \union Clo)
  /\ phase' = IF minor THEN "sweep" ELSE "clear"
  /\ UNCHANGED <<gen, kind, proto, slots, inner, made, env, this, rootVars,
                 policyVars, remembered, minor, auto, gray>>

PurgeKeepsContainers ==                \* mutant: dead containers stay registered
  /\ phase = "weak" /\ gray = {} /\ EphemeronValues = {}
  /\ weak' = [o \in Obj |-> IF o \in tracked THEN {e \in weak[o] : ValueLive(e[1])}
                                             ELSE weak[o]]
  /\ tracked' = tracked
  /\ marked' = marked \ (Arena \union Clo)
  /\ phase' = IF minor THEN "sweep" ELSE "clear"
  /\ UNCHANGED <<gen, kind, proto, slots, inner, made, env, this, rootVars,
                 policyVars, remembered, minor, auto, gray>>

\* The second loop of gcProcessWeak purges entries with a dead key or target,
\* processWeak drops dead containers, clearArenaSeen resets gc_seen flags.
PurgeWeak ==
  /\ phase = "weak" /\ gray = {} /\ EphemeronValues = {}
  /\ weak' = [o \in Obj |-> IF o \in tracked THEN {e \in weak[o] : ValueLive(e[1])}
                                             ELSE weak[o]]
  /\ tracked' = {o \in tracked : IsLive(o)}
  /\ marked' = marked \ (Arena \union Clo)
  /\ phase' = IF minor THEN "sweep" ELSE "clear"
  /\ UNCHANGED <<gen, kind, proto, slots, inner, made, env, this, rootVars,
                 policyVars, remembered, minor, auto, gray>>

\* The collection is over: its counters, and maybeCollect's reset.
Finish ==
  /\ phase' = "run"
  /\ minors' = IF minor THEN minors + 1 ELSE 0
  /\ forceMajor' = (forceMajor /\ minor)
  /\ youngBytes' = IF auto THEN 0 ELSE youngBytes

SweptArena ==                          \* mutant: the arena's cleared flags count
  {o \in Obj : gen[o] # "free" /\ o \notin marked /\ ~(minor /\ IsOld(o))}

\* sweepInto: unmarked objects of the swept generations are destroyed and the
\* survivors are tenured.
Swept == {o \in Obj : /\ gen[o] = "young" \/ (~minor /\ gen[o] = "old")
                      /\ o \notin marked}

Sweep ==
  /\ phase = "sweep"
  /\ gen' = [o \in Obj |-> IF o \in Swept THEN "free"
                           ELSE IF gen[o] = "young" THEN "old" ELSE gen[o]]
  /\ kind' = [o \in Obj |-> IF o \in Swept THEN "ordinary" ELSE kind[o]]
  /\ proto' = [o \in Obj |-> IF o \in Swept THEN None ELSE proto[o]]
  /\ slots' = [o \in Obj |-> IF o \in Swept THEN {} ELSE slots[o]]
  /\ inner' = [o \in Obj |-> IF o \in Swept THEN {} ELSE inner[o]]
  /\ weak' = [o \in Obj |-> IF o \in Swept THEN {} ELSE weak[o]]
  /\ marked' = {}
  /\ IF minor THEN phase' = "clear" /\ UNCHANGED policyVars ELSE Finish
  /\ UNCHANGED <<made, env, this, rootVars, setVars, minor, auto, gray>>

\* clearRemembered resets the flag in each member's header: a major collection
\* does it before its sweep, which may free members, a minor one after.
ClearRemembered ==
  /\ phase = "clear"
  /\ remembered' = {}
  /\ IF minor THEN Finish ELSE phase' = "sweep" /\ UNCHANGED policyVars
  /\ UNCHANGED <<graphVars, rootVars, tracked, minor, auto, marked, gray>>

-----------------------------------------------------------------------------
Mutate ==
  \/ StartRun
  \/ \E S \in SUBSET roots : EndRun(S)
  \/ \E o \in Obj, k \in Kinds, p \in Obj \union {None} : Allocate(o, k, p)
  \/ \E o \in Obj, v \in Val, w \in Val \union {None} : Store(o, v, w)
  \/ \E o \in Obj, w \in Val : Delete(o, w)
  \/ \E o \in Obj, p \in Obj \union {None} : SetProto(o, p)
  \/ \E o \in Obj, v \in Val : PutInner(o, v)
  \/ \E o \in Obj, w \in Val : RemoveInner(o, w)
  \/ \E o \in Obj, k \in Val, v \in Val \union {None} : PutWeak(o, k, v)
  \/ \E c \in Clo, t \in Obj \union {None} : MakeClosure(c, t)
  \/ \E c \in Clo, v \in Val : Bind(c, v)
  \/ \E r \in Val : Load(r)
  \/ \E v \in Val : Drop(v)

Collector ==
  \/ Scan
  \/ TraceCollections
  \/ MarkEphemerons
  \/ PurgeWeak
  \/ Sweep
  \/ ClearRemembered

Next == Mutate \/ AutoCollect \/ HostCollect \/ Collector

Spec == Init /\ [][Next]_vars

\* collect and collectMinor run to completion once called.
FairSpec == Spec /\ WF_vars(Collector)

-----------------------------------------------------------------------------
(* Properties                                                              *)

\* L holds the roots and the intrinsics, and every reference out of L stays in
\* L: the edges, and the WeakMap values whose key is in L, for the weak
\* containers in W.
ClosedFor(L, W) ==
  /\ roots \union Arena \subseteq L
  /\ \A v \in L : Edges(v) \subseteq L
  /\ \A w \in W : \A e \in weak[w] : (e[1] \in L /\ e[2] # None) => e[2] \in L

\* L holds the values whose key is a closure, reachable or not.
ClosureKeysLive(L, W) ==
  \A w \in W : \A e \in weak[w] : (e[1] \in Clo /\ e[2] # None) => e[2] \in L

(* No reference the program can follow leads to a destroyed object: some set *)
(* holds the roots, is closed under reads, contains only allocated objects,  *)
(* and every weak entry in it has an allocated key. This is what markRoots,  *)
(* the drain, the write barrier, traceLiveCollections and processWeak        *)
(* together have to guarantee before sweepInto frees anything.               *)
NoDangling ==
  \E L \in SUBSET Val :
    /\ ClosedFor(L, L \intersect Obj)
    /\ L \intersect Obj \subseteq Alloc
    /\ \A w \in L \intersect Obj : \A e \in weak[w] :
         /\ e[1] \in Obj => e[1] \in Alloc
         /\ e[2] = None => e[1] \in L

(* Between collections every old object that holds a young one in a slot or  *)
(* as its prototype is in the remembered set, or the next automatic          *)
(* collection is forced to be major.                                         *)
RememberedComplete ==
  phase = "run" =>
    \A o \in Obj : IsOld(o) =>
      \/ o \in remembered \/ forceMajor
      \/ \A v \in slots[o] \union {proto[o]} : ~IsYoung(v)

(* At every step, those of a collection included, what the collector will    *)
(* dereference is allocated: the members of the remembered set (and they are *)
(* old), the registered containers with the keys and values of their weak    *)
(* entries, and the worklist.                                                *)
BookkeepingAlive ==
  /\ \A o \in remembered : IsOld(o)
  /\ tracked \union (gray \intersect Obj) \subseteq Alloc
  /\ \A w \in tracked : \A e \in weak[w] :
       (({e[1], e[2]} \ {None}) \intersect Obj) \subseteq Alloc

(* A major collection keeps nothing it need not keep: what is marked when    *)
(* the sweep starts is in every set that holds the roots and is closed under *)
(* reads and under the ephemerons of all weak containers, where a closure    *)
(* that is a key is live for ever (isValueLive).                             *)
MajorIsPrecise ==
  (phase = "sweep" /\ ~minor) =>
    \A L \in SUBSET Val :
      ClosedFor(L, Alloc) /\ ClosureKeysLive(L, Alloc) => marked \subseteq L

(* A collection never clears a WeakRef, nor removes a WeakMap, WeakSet or    *)
(* FinalizationRegistry entry, whose target the program can still reach.     *)
PurgedKeysUnreachable ==
  [][PurgeWeak =>
       \A w \in Obj : \A e \in weak[w] \ weak'[w] :
         \E L \in SUBSET Val : ClosedFor(L, L \intersect Obj) /\ e[1] \notin L]_vars

(* Marking, the ephemeron fixpoint and the sweep terminate: a collection,    *)
(* once started, gives the program back control.                             *)
CollectionTerminates == (phase # "run") ~> (phase = "run")

(* The weak-process hook is documented to skip containers that are dead this *)
(* cycle: then a major collection marks nothing but what a live container's  *)
(* ephemerons, or an edge, reach.                                            *)
DeadContainersKeepNothing ==
  (phase = "sweep" /\ ~minor) =>
    \A L \in SUBSET Val : ClosedFor(L, L \intersect Obj) => marked \subseteq L
=============================================================================
