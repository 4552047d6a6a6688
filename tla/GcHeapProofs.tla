---------------------------- MODULE GcHeapProofs ----------------------------
(***************************************************************************)
(* Proofs about GcHeap for every set of objects and every constant: type   *)
(* correctness, and, for a heap whose references the collector can all     *)
(* see, that no collection leaves a dangling reference.                    *)
(***************************************************************************)
EXTENDS GcHeapInv, TLAPS

-----------------------------------------------------------------------------
(* Type correctness                                                        *)

LEMMA InitType == Init => TypeOK
<1> SUFFICES ASSUME Init PROVE TypeOK
  OBVIOUS
<1>1. /\ gen \in [Obj -> {"free", "young", "old", "arena"}]
      /\ \A o \in Obj : gen[o] = "arena" <=> o \in Arena
  BY DEF Init
<1>2. /\ kind \in [Obj -> AllKinds] /\ proto \in [Obj -> Obj \union {None}]
      /\ slots \in [Obj -> SUBSET Val] /\ inner \in [Obj -> SUBSET Val]
      /\ weak \in [Obj -> SUBSET (Val \X (Val \union {None}))]
  BY DEF Init, AllKinds
<1>3. /\ env \in [Clo -> SUBSET Val] /\ this \in [Clo -> Obj \union {None}]
      /\ roots \subseteq Val
  BY ConstantsAssumption DEF Init, Val
<1>4. QED
  BY <1>1, <1>2, <1>3 DEF Init, TypeOK

\* What every mutator step leaves alone or keeps typed.
LEMMA MutateType == TypeOK /\ Mutate => TypeOK'
<1> SUFFICES ASSUME TypeOK, Mutate PROVE TypeOK'
  OBVIOUS
<1> USE ConstantsAssumption
<1> USE DEF TypeOK, vars, graphVars, rootVars, policyVars, setVars, gcVars
<1>1. CASE StartRun
  BY <1>1 DEF StartRun
<1>2. ASSUME NEW S \in SUBSET roots, EndRun(S) PROVE TypeOK'
  BY <1>2 DEF EndRun
<1>3. ASSUME NEW o \in Obj, NEW k \in Kinds, NEW p \in Obj \union {None},
             Allocate(o, k, p)
      PROVE  TypeOK'
  <2>1. tracked' \subseteq Obj /\ forceMajor' \in BOOLEAN
    BY <1>3 DEF Allocate, NoteWeakContainer
  <2>2. k \in AllKinds /\ o \in Val
    BY DEF Val
  <2>3. youngBytes' \in Nat
    BY <1>3 DEF Allocate
  <2>4. gen' \in [Obj -> {"free", "young", "old", "arena"}]
    BY <1>3 DEF Allocate
  <2>5. \A x \in Obj : gen'[x] = "arena" <=> x \in Arena
    BY <1>3 DEF Allocate
  <2>6. QED
    BY <1>3, <2>1, <2>2, <2>3, <2>4, <2>5 DEF Allocate
<1>4. ASSUME NEW o \in Obj, NEW v \in Val, NEW w \in Val \union {None},
             Store(o, v, w)
      PROVE  TypeOK'
  BY <1>4 DEF Store, Barrier
<1>5. ASSUME NEW o \in Obj, NEW w \in Val, Delete(o, w) PROVE TypeOK'
  BY <1>5 DEF Delete
<1>6. ASSUME NEW o \in Obj, NEW p \in Obj \union {None}, SetProto(o, p)
      PROVE  TypeOK'
  BY <1>6 DEF SetProto, Barrier
<1>7. ASSUME NEW o \in Obj, NEW v \in Val, PutInner(o, v) PROVE TypeOK'
  BY <1>7 DEF PutInner
<1>8. ASSUME NEW o \in Obj, NEW w \in Val, RemoveInner(o, w) PROVE TypeOK'
  BY <1>8 DEF RemoveInner
<1>9. ASSUME NEW o \in Obj, NEW k \in Val, NEW v \in Val \union {None},
             PutWeak(o, k, v)
      PROVE  TypeOK'
  BY <1>9 DEF PutWeak
<1>10. ASSUME NEW c \in Clo, NEW t \in Obj \union {None}, MakeClosure(c, t)
       PROVE  TypeOK'
  BY <1>10 DEF MakeClosure, Val
<1>11. ASSUME NEW c \in Clo, NEW v \in Val, Bind(c, v) PROVE TypeOK'
  BY <1>11 DEF Bind
<1>12. ASSUME NEW r \in Val, Load(r) PROVE TypeOK'
  BY <1>12 DEF Load
<1>13. ASSUME NEW v \in Val, Drop(v) PROVE TypeOK'
  BY <1>13 DEF Drop
<1>14. QED
  BY <1>1, <1>2, <1>3, <1>4, <1>5, <1>6, <1>7, <1>8, <1>9, <1>10, <1>11,
     <1>12, <1>13 DEF Mutate

LEMMA CollectType ==
  TypeOK /\ (AutoCollect \/ HostCollect \/ Collector) => TypeOK'
<1> SUFFICES ASSUME TypeOK, AutoCollect \/ HostCollect \/ Collector
             PROVE  TypeOK'
  OBVIOUS
<1> USE ConstantsAssumption
<1> USE DEF TypeOK, vars, graphVars, rootVars, policyVars, setVars, gcVars
<1>0. \A v \in Val : Children(v) \subseteq Val
  BY DEF Children, TracedInner, Val
<1>1. ASSUME NEW m \in BOOLEAN, NEW a \in BOOLEAN, Begin(m, a) PROVE TypeOK'
  <2>1. marked' \subseteq Val /\ gray' = marked'
    BY <1>0, <1>1 DEF Begin, Val
  <2>2. QED
    BY <1>1, <2>1 DEF Begin
<1>2. CASE AutoCollect
  BY <1>1, <1>2 DEF AutoCollect
<1>3. CASE HostCollect
  BY <1>1, <1>3 DEF HostCollect
<1>4. CASE Scan
  <2>1. marked' \subseteq Val /\ gray' \subseteq Val
    BY <1>0, <1>4 DEF Scan
  <2>2. QED
    BY <1>4, <2>1 DEF Scan
<1>5. CASE TraceCollections
  <2>1. \A o \in tracked : TracedInner(o) \subseteq Val
    BY DEF TracedInner
  <2>2. marked' \subseteq Val /\ gray' \subseteq Val
    BY <1>5, <2>1 DEF TraceCollections, Shade
  <2>3. QED
    BY <1>5, <2>2 DEF TraceCollections
<1>6. CASE MarkEphemerons
  <2>1. EphemeronValues \subseteq Val
    BY DEF EphemeronValues
  <2>2. marked' \subseteq Val /\ gray' \subseteq Val
    BY <1>6, <2>1 DEF MarkEphemerons, Shade
  <2>3. QED
    BY <1>6, <2>2 DEF MarkEphemerons
<1>7. CASE PurgeWeak
  <2>1. weak' \in [Obj -> SUBSET (Val \X (Val \union {None}))]
    BY <1>7 DEF PurgeWeak
  <2>2. QED
    BY <1>7, <2>1 DEF PurgeWeak
<1>8. ASSUME Finish
      PROVE  phase' = "run" /\ minors' \in Nat /\ forceMajor' \in BOOLEAN
               /\ youngBytes' \in Nat
  BY <1>8 DEF Finish
<1>9. CASE Sweep
  <2>1. /\ phase' \in {"run", "clear"} /\ minors' \in Nat
        /\ forceMajor' \in BOOLEAN /\ youngBytes' \in Nat
    BY <1>8, <1>9 DEF Sweep
  <2>2. gen' \in [Obj -> {"free", "young", "old", "arena"}]
    BY <1>9 DEF Sweep
  <2>3. \A o \in Obj : gen'[o] = "arena" <=> o \in Arena
    BY <1>9 DEF Sweep, Swept
  <2>4. /\ kind' \in [Obj -> AllKinds] /\ proto' \in [Obj -> Obj \union {None}]
        /\ slots' \in [Obj -> SUBSET Val] /\ inner' \in [Obj -> SUBSET Val]
        /\ weak' \in [Obj -> SUBSET (Val \X (Val \union {None}))]
    BY <1>9 DEF Sweep, AllKinds
  <2>5. gray' = gray /\ marked' = {}
    BY <1>9 DEF Sweep
  <2>6. QED
    BY <1>9, <2>1, <2>2, <2>3, <2>4, <2>5 DEF Sweep
<1>10. CASE ClearRemembered
  BY <1>8, <1>10 DEF ClearRemembered
<1>11. QED
  BY <1>2, <1>3, <1>4, <1>5, <1>6, <1>7, <1>9, <1>10 DEF Collector

(* The state is well typed throughout: in particular an object is an arena   *)
(* object exactly when it is an intrinsic.                                   *)
THEOREM TypeCorrect == Spec => []TypeOK
<1>1. Init => TypeOK
  BY InitType
<1>2. TypeOK /\ [Next]_vars => TypeOK'
  <2> SUFFICES ASSUME TypeOK, [Next]_vars PROVE TypeOK'
    OBVIOUS
  <2>1. CASE UNCHANGED vars
    BY <2>1 DEF TypeOK, vars, graphVars, rootVars, policyVars, setVars, gcVars
  <2>2. QED
    BY <2>1, MutateType, CollectType DEF Next
<1>3. QED
  BY <1>1, <1>2, PTL DEF Spec

-----------------------------------------------------------------------------
(* The inductive invariant of a heap the collector can see entirely        *)

LEMMA NoClosures ==
  ASSUME VisibleHeap
  PROVE  Val = Obj /\ Kinds \subseteq VisibleKinds /\ Arena \ Hidden = Arena
  BY DEF VisibleHeap, Val

LEMMA EdgesOfObject ==
  ASSUME VisibleHeap, NEW o \in Obj
  PROVE  Edges(o) = ({proto[o]} \ {None}) \union slots[o] \union inner[o]
  BY DEF VisibleHeap, Edges

\* The collector's view of an object agrees with the program's.
LEMMA ChildrenAreEdges ==
  ASSUME VisibleHeap, ShapeOfObjects, NEW o \in Obj
  PROVE  Children(o) = Edges(o) /\ TracedInner(o) = inner[o]
<1>1. TracedInner(o) = inner[o]
  BY DEF TracedInner, ShapeOfObjects, TracedKinds
<1>2. QED
  BY <1>1, EdgesOfObject DEF VisibleHeap, Children

LEMMA InitInv == ASSUME VisibleHeap, Init PROVE IInv
<1>1. TypeOK
  BY InitType
<1>2. Alloc = Arena
  BY ConstantsAssumption DEF Alloc, Init
<1>3. GraphSafe
  BY <1>2, NoClosures, ConstantsAssumption, EdgesOfObject DEF GraphSafe, Init
<1>4. ShapeOfObjects
  BY DEF ShapeOfObjects, VisibleKinds, Init
<1>5. TrackedExact
  BY DEF TrackedExact, TrackedKinds, Init, Alloc
<1>6. RememberedExact
  BY ConstantsAssumption DEF RememberedExact, Init, IsOld
<1>7. MarkSound /\ SweepSound /\ Quiescent
  BY DEF MarkSound, SweepSound, Quiescent, Marking, Doomed, Init
<1>8. QED
  BY <1>1, <1>3, <1>4, <1>5, <1>6, <1>7 DEF IInv

\* The mutator only runs when no collection is under way, and starts none.
LEMMA MutatorLeavesCollector ==
  ASSUME Quiescent, phase = "run", UNCHANGED gcVars
  PROVE  MarkSound' /\ SweepSound' /\ Quiescent'
  BY DEF Quiescent, MarkSound, SweepSound, Marking, Doomed, gcVars

\* Steps that only change what is rooted.
LEMMA RootStep ==
  ASSUME VisibleHeap, IInv, phase = "run",
         UNCHANGED <<graphVars, policyVars, setVars, gcVars>>,
         roots' \subseteq Alloc, Arena \subseteq roots'
  PROVE  GraphSafe' /\ ShapeOfObjects' /\ TrackedExact' /\ RememberedExact'
<1> USE DEF IInv, graphVars, policyVars, setVars, gcVars
<1>1. Alloc' = Alloc
  BY DEF Alloc
<1>2. GraphSafe'
  BY <1>1 DEF GraphSafe, Edges
<1>3. ShapeOfObjects'
  BY DEF ShapeOfObjects
<1>4. TrackedExact'
  BY <1>1 DEF TrackedExact, Doomed
<1>5. RememberedExact'
  BY DEF RememberedExact, IsOld, IsYoung
<1>6. QED
  BY <1>2, <1>3, <1>4, <1>5

\* A read never yields a destroyed object.
LEMMA ReadSafe ==
  ASSUME VisibleHeap, TypeOK, GraphSafe, NEW v \in roots, NEW r \in Readable(v)
  PROVE  r \in Alloc
<1>1. v \in Alloc
  BY DEF GraphSafe
<1>2. CASE r \in Edges(v)
  BY <1>1, <1>2 DEF GraphSafe
<1>3. ASSUME NEW e \in weak[v], e[2] # None, r = e[2] PROVE r \in Alloc
  BY <1>1, <1>3 DEF GraphSafe
<1>4. ASSUME NEW e \in weak[v], e[2] = None, r = e[1] PROVE r \in Alloc
  <2>1. e \in Val \X (Val \union {None})
    BY <1>1, NoClosures DEF TypeOK, Alloc
  <2>2. e[1] # None
    BY <2>1, ConstantsAssumption
  <2>3. QED
    BY <1>1, <1>4, <2>2 DEF GraphSafe
<1>5. QED
  BY <1>2, <1>3, <1>4 DEF Readable

LEMMA RootSteps ==
  ASSUME VisibleHeap, IInv,
         \/ StartRun
         \/ \E S \in SUBSET roots : EndRun(S)
         \/ \E r \in Val : Load(r)
         \/ \E v \in Val : Drop(v)
  PROVE  IInv'
<1>1. /\ phase = "run"
      /\ UNCHANGED <<graphVars, policyVars, setVars, gcVars>>
  BY DEF StartRun, EndRun, Load, Drop, Running
<1>2. roots' \subseteq Alloc /\ Arena \subseteq roots'
  <2>1. roots \subseteq Alloc /\ Arena \subseteq roots
    BY DEF IInv, GraphSafe
  <2>2. ASSUME NEW r \in Val, Load(r)
        PROVE  roots' \subseteq Alloc /\ Arena \subseteq roots'
    BY <2>1, <2>2, ReadSafe DEF Load, IInv, VisibleHeap
  <2>3. QED
    BY <2>1, <2>2, NoClosures DEF StartRun, EndRun, Drop
<1>3. GraphSafe' /\ ShapeOfObjects' /\ TrackedExact' /\ RememberedExact'
  BY <1>1, <1>2, RootStep
<1>4. MarkSound' /\ SweepSound' /\ Quiescent'
  BY <1>1, MutatorLeavesCollector DEF IInv
<1>5. TypeOK'
  BY MutateType DEF Mutate, IInv
<1>6. QED
  BY <1>3, <1>4, <1>5 DEF IInv

\* What every store into an allocated object preserves.
LEMMA GraphStep ==
  ASSUME VisibleHeap, IInv, phase = "run",
         UNCHANGED <<gen, kind, rootVars, tracked, gcVars>>,
         \A o \in Alloc : Edges(o)' \subseteq Alloc,
         \A o \in Alloc : \A e \in weak'[o] : {e[1], e[2]} \ {None} \subseteq Alloc
  PROVE  GraphSafe' /\ TrackedExact' /\ MarkSound' /\ SweepSound' /\ Quiescent'
<1> USE DEF rootVars, gcVars
<1>1. Alloc' = Alloc
  BY DEF Alloc
<1>2. GraphSafe'
  BY <1>1 DEF GraphSafe, IInv
<1>3. TrackedExact'
  BY <1>1 DEF TrackedExact, Doomed, IInv
<1>4. MarkSound' /\ SweepSound' /\ Quiescent'
  BY MutatorLeavesCollector DEF IInv
<1>5. QED
  BY <1>2, <1>3, <1>4

\* The barrier records the owner of every reference from old to young.
LEMMA BarrierRecords ==
  ASSUME TypeOK, RememberedExact, phase = "run", UNCHANGED <<gen, phase>>,
         NEW o \in Obj, NEW v, Barrier(o, v),
         \A x \in Obj : \A y \in slots'[x] \union {proto'[x]} :
           y \in slots[x] \union {proto[x], None} \/ (x = o /\ y = v)
  PROVE  RememberedExact'
<1>1. None \notin Obj
  BY ConstantsAssumption DEF Val
<1>2. \A x \in Obj : IsOld(x)' = IsOld(x)
  BY DEF IsOld
<1>3. \A x : IsYoung(x)' = IsYoung(x)
  BY DEF IsYoung
<1>4. remembered \subseteq remembered' /\ (forceMajor => forceMajor')
  BY DEF Barrier
<1>5. \A x \in remembered' : IsOld(x)
  BY DEF Barrier, RememberedExact
<1>6. ASSUME NEW x \in Obj, IsOld(x), x \notin remembered', ~forceMajor',
             NEW y \in slots'[x] \union {proto'[x]}
      PROVE  ~IsYoung(y)
  <2>1. x \notin remembered /\ ~forceMajor
    BY <1>4, <1>6
  <2>2. \A z \in slots[x] \union {proto[x]} : ~IsYoung(z)
    BY <2>1, <1>6 DEF RememberedExact
  <2>3. ~IsYoung(None)
    BY <1>1 DEF IsYoung
  <2>4. CASE x = o /\ y = v
    BY <1>6, <2>1, <2>4 DEF Barrier
  <2>5. QED
    BY <2>2, <2>3, <2>4, <1>6
<1>7. \A x \in remembered' : IsOld(x)'
  BY <1>2, <1>5 DEF TypeOK, IsOld
<1>8. QED
  BY <1>2, <1>3, <1>6, <1>7 DEF RememberedExact

LEMMA StoreInv ==
  ASSUME VisibleHeap, IInv, NEW o \in Obj, NEW v \in Val, NEW w \in Val \union {None},
         Store(o, v, w)
  PROVE  IInv'
<1> USE DEF Store, rootVars, gcVars
<1>1. TypeOK'
  BY MutateType DEF Mutate, IInv
<1>2. phase = "run" /\ o \in Alloc /\ v \in Alloc
  BY DEF Running, IInv, GraphSafe
<1>3. \A x \in Obj : slots'[x] \subseteq slots[x] \union {v}
  BY DEF IInv, TypeOK
<1>4. \A x \in Alloc : Edges(x)' \subseteq Alloc
  <2>1. \A x \in Alloc : Edges(x)' \subseteq Edges(x) \union {v}
    BY <1>3, EdgesOfObject DEF Alloc, Edges, VisibleHeap
  <2>2. QED
    BY <1>2, <2>1 DEF IInv, GraphSafe
<1>5. GraphSafe' /\ TrackedExact' /\ MarkSound' /\ SweepSound' /\ Quiescent'
  BY <1>2, <1>4, GraphStep DEF IInv, GraphSafe
<1>6. ShapeOfObjects'
  BY <1>2 DEF ShapeOfObjects, IInv, Alloc, TypeOK
<1>7. RememberedExact'
  <2>1. \A x \in Obj : slots'[x] = slots[x] \/ (x = o /\ slots'[x] \subseteq slots[x] \union {v})
    BY DEF IInv, TypeOK
  <2>2. QED
    BY <1>2, <2>1, BarrierRecords DEF IInv
<1>8. QED
  BY <1>1, <1>5, <1>6, <1>7 DEF IInv

LEMMA DeleteInv ==
  ASSUME VisibleHeap, IInv, NEW o \in Obj, NEW w \in Val, Delete(o, w)
  PROVE  IInv'
<1> USE DEF Delete, rootVars, policyVars, setVars, gcVars
<1>1. TypeOK'
  BY MutateType DEF Mutate, IInv
<1>2. phase = "run" /\ o \in Alloc
  BY DEF Running, IInv, GraphSafe
<1>3. \A x \in Obj : slots'[x] \subseteq slots[x]
  BY DEF IInv, TypeOK
<1>4. \A x \in Alloc : Edges(x)' \subseteq Alloc
  <2>1. \A x \in Alloc : Edges(x)' \subseteq Edges(x)
    BY <1>3, EdgesOfObject DEF Alloc, Edges, VisibleHeap
  <2>2. QED
    BY <2>1 DEF IInv, GraphSafe
<1>5. GraphSafe' /\ TrackedExact' /\ MarkSound' /\ SweepSound' /\ Quiescent'
  BY <1>2, <1>4, GraphStep DEF IInv, GraphSafe
<1>6. ShapeOfObjects'
  BY <1>2, <1>3 DEF ShapeOfObjects, IInv
<1>7. RememberedExact'
  BY <1>3 DEF RememberedExact, IInv, IsOld, IsYoung
<1>8. QED
  BY <1>1, <1>5, <1>6, <1>7 DEF IInv

LEMMA SetProtoInv ==
  ASSUME VisibleHeap, IInv, NEW o \in Obj, NEW p \in Obj \union {None}, SetProto(o, p)
  PROVE  IInv'
<1> USE DEF SetProto, rootVars, gcVars
<1>1. TypeOK'
  BY MutateType DEF Mutate, IInv
<1>2. phase = "run" /\ o \in Alloc /\ p \in Alloc \union {None}
  BY DEF Running, IInv, GraphSafe
<1>3. \A x \in Obj : proto'[x] \in {proto[x], p}
  BY DEF IInv, TypeOK
<1>4. \A x \in Alloc : Edges(x)' \subseteq Alloc
  <2>1. \A x \in Alloc : Edges(x)' \subseteq Edges(x) \union ({p} \ {None})
    BY <1>3, EdgesOfObject DEF Alloc, Edges, VisibleHeap
  <2>2. QED
    BY <1>2, <2>1 DEF IInv, GraphSafe
<1>5. GraphSafe' /\ TrackedExact' /\ MarkSound' /\ SweepSound' /\ Quiescent'
  BY <1>2, <1>4, GraphStep DEF IInv, GraphSafe
<1>6. ShapeOfObjects'
  BY <1>2 DEF ShapeOfObjects, IInv, Alloc, TypeOK
<1>7. RememberedExact'
  <2>1. \A x \in Obj : proto'[x] = proto[x] \/ (x = o /\ proto'[x] = p)
    BY DEF IInv, TypeOK
  <2>2. QED
    BY <1>2, <2>1, BarrierRecords DEF IInv
<1>8. QED
  BY <1>1, <1>5, <1>6, <1>7 DEF IInv

LEMMA InnerInv ==
  ASSUME VisibleHeap, IInv, NEW o \in Obj, NEW v \in Val,
         PutInner(o, v) \/ RemoveInner(o, v)
  PROVE  IInv'
<1> USE DEF PutInner, RemoveInner, rootVars, policyVars, setVars, gcVars
<1>1. TypeOK'
  BY MutateType DEF Mutate, IInv
<1>2. phase = "run" /\ o \in Alloc
  BY DEF Running, IInv, GraphSafe
<1>3. \A x \in Obj : inner'[x] \subseteq inner[x] \union (roots \intersect {v})
  BY DEF IInv, TypeOK
<1>4. \A x \in Alloc : Edges(x)' \subseteq Alloc
  <2>1. \A x \in Alloc : Edges(x)' \subseteq Edges(x) \union roots
    BY <1>3, EdgesOfObject DEF Alloc, Edges, VisibleHeap
  <2>2. QED
    BY <1>2, <2>1 DEF IInv, GraphSafe
<1>5. GraphSafe' /\ TrackedExact' /\ MarkSound' /\ SweepSound' /\ Quiescent'
  BY <1>2, <1>4, GraphStep DEF IInv, GraphSafe
<1>6. ShapeOfObjects'
  <2>1. kind[o] = "collection"
    BY DEF ShapeOfObjects, IInv, VisibleKinds
  <2>2. QED
    BY <2>1 DEF ShapeOfObjects, IInv, TypeOK
<1>7. RememberedExact'
  BY DEF RememberedExact, IInv, IsOld, IsYoung
<1>8. QED
  BY <1>1, <1>5, <1>6, <1>7 DEF IInv

LEMMA PutWeakInv ==
  ASSUME VisibleHeap, IInv, NEW o \in Obj, NEW k \in Val, NEW v \in Val \union {None},
         PutWeak(o, k, v)
  PROVE  IInv'
<1> USE DEF PutWeak, rootVars, policyVars, setVars, gcVars
<1>1. TypeOK'
  BY MutateType DEF Mutate, IInv
<1>2. phase = "run" /\ o \in Alloc /\ kind[o] = "weak" /\ {k, v} \ {None} \subseteq Alloc
  BY DEF Running, IInv, GraphSafe
<1>3. \A x \in Obj : weak'[x] = IF x = o THEN {<<k, v>>} ELSE weak[x]
  BY DEF IInv, TypeOK
<1>4. \A x \in Alloc : Edges(x)' \subseteq Alloc
  BY EdgesOfObject DEF Edges, IInv, GraphSafe
<1>5. \A x \in Alloc : \A e \in weak'[x] : {e[1], e[2]} \ {None} \subseteq Alloc
  BY <1>2, <1>3 DEF Alloc, IInv, GraphSafe
<1>6. GraphSafe' /\ TrackedExact' /\ MarkSound' /\ SweepSound' /\ Quiescent'
  BY <1>2, <1>4, <1>5, GraphStep
<1>7. ShapeOfObjects'
  BY <1>2, <1>3 DEF ShapeOfObjects, IInv
<1>8. RememberedExact'
  BY DEF RememberedExact, IInv, IsOld, IsYoung
<1>9. QED
  BY <1>1, <1>6, <1>7, <1>8 DEF IInv

LEMMA AllocateInv ==
  ASSUME VisibleHeap, IInv, NEW o \in Obj, NEW k \in Kinds, NEW p \in Obj \union {None},
         Allocate(o, k, p)
  PROVE  IInv'
<1> USE DEF Allocate, gcVars
<1>1. TypeOK'
  BY MutateType DEF Mutate, IInv
<1>2. /\ phase = "run" /\ gen[o] = "free" /\ p \in Alloc \union {None}
      /\ k \in VisibleKinds
  BY NoClosures DEF IInv, GraphSafe
<1>3. Alloc' = Alloc \union {o} /\ o \notin Alloc
  BY <1>2 DEF Alloc, IInv, TypeOK
<1>4. /\ kind[o] = "ordinary" /\ proto[o] = None /\ slots[o] = {}
      /\ inner[o] = {} /\ weak[o] = {}
  BY <1>2 DEF IInv, ShapeOfObjects
<1>5. /\ gen' = [gen EXCEPT ![o] = "young"] /\ kind' = [kind EXCEPT ![o] = k]
      /\ proto' = [proto EXCEPT ![o] = p]
      /\ UNCHANGED <<slots, inner, weak, phase, remembered>>
  OBVIOUS
<1>6. /\ tracked' = IF k \in TrackedKinds THEN tracked \union {o} ELSE tracked
      /\ forceMajor' = forceMajor
  <2>1. PICK oom \in IF k \in TrackedKinds THEN RegisterFails ELSE {FALSE} :
          /\ tracked' = IF k \in TrackedKinds /\ ~oom THEN tracked \union {o} ELSE tracked
          /\ forceMajor' = (forceMajor \/ oom)
    BY DEF NoteWeakContainer
  <2>2. oom = FALSE
    BY <2>1 DEF VisibleHeap
  <2>3. forceMajor \in BOOLEAN
    BY DEF IInv, TypeOK
  <2>4. QED
    BY <2>1, <2>2, <2>3
<1>7. GraphSafe'
  <2>1. \A x \in Alloc : Edges(x)' = Edges(x)
    BY <1>3, <1>5 DEF Edges, IInv, TypeOK, VisibleHeap, Alloc
  <2>2. Edges(o)' = {p} \ {None}
    BY <1>4, <1>5 DEF Edges, VisibleHeap, IInv, TypeOK
  <2>3. QED
    BY <1>2, <1>3, <1>4, <2>1, <2>2 DEF IInv, GraphSafe
<1>8. ShapeOfObjects'
  BY <1>2, <1>4, <1>5 DEF IInv, ShapeOfObjects, TypeOK
<1>9. TrackedExact'
  <2>1. tracked = {x \in Alloc : kind[x] \in TrackedKinds} /\ phase' = "run"
    BY <1>2 DEF IInv, TrackedExact, Doomed
  <2>2. kind'[o] = k /\ \A x \in Alloc : kind'[x] = kind[x]
    BY <1>3, <1>5 DEF IInv, TypeOK
  <2>3. tracked' = {x \in Alloc' : kind'[x] \in TrackedKinds}
    <3> HIDE DEF Allocate
    <3>1. \A x \in Alloc : x \in tracked' <=> kind'[x] \in TrackedKinds
      BY <1>3, <1>6, <2>1, <2>2
    <3>2. o \in tracked' <=> kind'[o] \in TrackedKinds
      BY <1>3, <1>6, <2>1, <2>2
    <3>3. tracked' \subseteq Alloc'
      BY <1>3, <1>6, <2>1
    <3>4. QED
      BY <1>3, <3>1, <3>2, <3>3
  <2>4. QED
    BY <2>1, <2>3 DEF TrackedExact, Doomed
<1>10. RememberedExact'
  <2>1. \A x \in Obj : IsOld(x)' = IsOld(x)
    BY <1>2, <1>5 DEF IsOld, IInv, TypeOK
  <2>2. \A x \in Alloc : IsYoung(x)' = IsYoung(x)
    BY <1>3, <1>5 DEF IsYoung, IInv, TypeOK
  <2>3. \A x \in Obj : IsOld(x) => x \in Alloc /\ x # o
    BY <1>3 DEF IsOld, Alloc
  <2>4. \A x \in Obj : IsOld(x) =>
           \A y \in slots[x] \union {proto[x]} : y = None \/ y \in Alloc
    BY <2>3, EdgesOfObject DEF IInv, GraphSafe
  <2>5. ~IsYoung(None)'
    BY ConstantsAssumption DEF IsYoung, Val
  <2>6. \A x \in Obj : IsOld(x) => slots'[x] = slots[x] /\ proto'[x] = proto[x]
    BY <1>5, <2>3 DEF IInv, TypeOK
  <2>7. remembered' = remembered /\ forceMajor' = forceMajor /\ phase' = phase
    BY <1>5, <1>6
  <2>8. ASSUME NEW x \in Obj, IsOld(x), x \notin remembered, ~forceMajor,
               NEW y \in slots'[x] \union {proto'[x]}
        PROVE  ~IsYoung(y)'
    <3>1. ~IsYoung(y)
      BY <1>2, <2>6, <2>8 DEF RememberedExact, IInv
    <3>2. y = None \/ y \in Alloc
      BY <2>4, <2>6, <2>8
    <3>3. QED
      BY <2>2, <2>5, <3>1, <3>2
  <2>9. \A x \in remembered' : IsOld(x)'
    BY <2>1, <2>7 DEF RememberedExact, IInv, TypeOK
  <2>10. QED
    BY <1>2, <2>1, <2>7, <2>8, <2>9 DEF RememberedExact
<1>11. MarkSound' /\ SweepSound' /\ Quiescent'
  BY <1>2, MutatorLeavesCollector DEF IInv
<1>12. QED
  BY <1>1, <1>7, <1>8, <1>9, <1>10, <1>11 DEF IInv

-----------------------------------------------------------------------------
(* The collector                                                           *)

\* A step of the mark phase changes nothing but marks, worklist and phase.
LEMMA MarkStep ==
  ASSUME VisibleHeap, IInv, ~Doomed, Marking',
         UNCHANGED <<graphVars, rootVars, policyVars, setVars>>,
         minor' => ~forceMajor,
         phase = "run" \/ minor' = minor
  PROVE  /\ GraphSafe' /\ ShapeOfObjects' /\ TrackedExact' /\ RememberedExact'
         /\ SweepSound' /\ Quiescent'
<1> USE DEF IInv, graphVars, rootVars, policyVars, setVars
<1>1. Alloc' = Alloc /\ ~Doomed'
  BY DEF Alloc, Marking, Doomed
<1>2. GraphSafe'
  BY <1>1 DEF GraphSafe, Edges
<1>3. ShapeOfObjects'
  BY DEF ShapeOfObjects
<1>4. TrackedExact'
  BY <1>1 DEF TrackedExact
<1>5. RememberedExact'
  BY DEF RememberedExact, IsOld, IsYoung, Marking
<1>6. SweepSound' /\ Quiescent'
  BY <1>1 DEF SweepSound, Quiescent, Marking
<1>7. QED
  BY <1>2, <1>3, <1>4, <1>5, <1>6

\* Where MarkSound' is about unchanged objects.
LEMMA SameGraph ==
  ASSUME UNCHANGED <<graphVars, rootVars, setVars>>
  PROVE  /\ Alloc' = Alloc
         /\ \A v : (Edges(v)' = Edges(v) /\ Children(v)' = Children(v)
                    /\ IsOld(v)' = IsOld(v))
  BY DEF graphVars, rootVars, setVars, Alloc, Edges, Children, TracedInner, IsOld

LEMMA BeginInv ==
  ASSUME VisibleHeap, IInv, phase = "run", NEW m \in BOOLEAN, NEW a \in BOOLEAN,
         m => ~forceMajor, Begin(m, a)
  PROVE  /\ GraphSafe' /\ ShapeOfObjects' /\ TrackedExact' /\ RememberedExact'
         /\ SweepSound' /\ Quiescent' /\ MarkSound'
<1> DEFINE grayed == roots \union IF m THEN UNION {Children(o) : o \in remembered} ELSE {}
<1> DEFINE new == {v \in grayed : Shadable(v, m)}
<1>1. /\ phase' = "mark" /\ minor' = m /\ marked' = new /\ gray' = new
      /\ UNCHANGED <<graphVars, rootVars, policyVars, setVars>>
  BY DEF Begin
<1> HIDE DEF new
<1>2. /\ GraphSafe' /\ ShapeOfObjects' /\ TrackedExact' /\ RememberedExact'
      /\ SweepSound' /\ Quiescent'
  BY <1>1, MarkStep DEF Doomed, Marking
<1>3. marked = {}
  BY DEF IInv, Quiescent
<1>4. \A v \in grayed : v \in marked' \/ (m /\ IsOld(v))
  BY <1>1, <1>3 DEF new, Shadable
<1>5. grayed \subseteq Alloc
  <2>1. \A o \in remembered : o \in Alloc /\ o \in Obj
    BY DEF IInv, RememberedExact, IsOld, Alloc
  <2>2. \A o \in remembered : Children(o) \subseteq Alloc
    BY <2>1, ChildrenAreEdges DEF IInv, GraphSafe
  <2>3. QED
    BY <2>2 DEF IInv, GraphSafe
<1>6. marked' \subseteq Alloc'
  BY <1>1, <1>5, SameGraph DEF new
<1>7. \A v \in roots' : Shaded(v)'
  BY <1>1, <1>4, SameGraph DEF Shaded, rootVars
<1>8. minor' => \A o \in remembered' : \A x \in Children(o)' : Shaded(x)'
  <2>1. ASSUME m, NEW o \in remembered, NEW x \in Children(o)
        PROVE  x \in grayed
    BY <2>1
  <2>2. QED
    BY <1>1, <1>4, <2>1, SameGraph DEF Shaded, setVars
<1>9. MarkSound'
  BY <1>1, <1>6, <1>7, <1>8 DEF MarkSound
<1>10. QED
  BY <1>2, <1>9

LEMMA CollectInv ==
  ASSUME VisibleHeap, IInv, AutoCollect \/ HostCollect PROVE IInv'
<1>1. TypeOK'
  BY CollectType DEF IInv
<1>2. CASE AutoCollect
  <2>1. phase = "run" /\ Begin(~(forceMajor \/ minors >= MajorPeriod), TRUE)
    BY <1>2 DEF AutoCollect
  <2>2. QED
    BY <1>1, <2>1, BeginInv DEF IInv
<1>3. CASE HostCollect
  BY <1>1, <1>3, BeginInv DEF HostCollect, IInv
<1>4. QED
  BY <1>2, <1>3

\* Shading a set that has been traversed: what was shaded stays so, and the
\* black objects are those whose children have been shaded.
LEMMA ShadeStep ==
  ASSUME VisibleHeap, IInv, Marking, Marking', minor' = minor,
         UNCHANGED <<graphVars, rootVars, policyVars, setVars>>,
         NEW S \in SUBSET Alloc,
         marked' = marked \union {v \in S : Shadable(v, minor)},
         gray' \subseteq marked',
         \A v \in marked' \ gray' : v \in marked /\ (v \in gray => Children(v) \subseteq S),
         phase' = "weak" /\ minor =>
           \A o \in tracked : IsOld(o) => phase = "weak" \/ inner[o] \subseteq S
  PROVE  /\ GraphSafe' /\ ShapeOfObjects' /\ TrackedExact' /\ RememberedExact'
         /\ SweepSound' /\ Quiescent' /\ MarkSound'
<1>1. /\ GraphSafe' /\ ShapeOfObjects' /\ TrackedExact' /\ RememberedExact'
      /\ SweepSound' /\ Quiescent'
  <2>1. ~Doomed /\ (minor' => ~forceMajor)
    BY DEF Marking, Doomed, IInv, RememberedExact
  <2>2. QED
    BY <2>1, MarkStep
<1>2. \A v : Shaded(v) => Shaded(v)'
  BY SameGraph DEF Shaded
<1>3. \A v \in S : Shaded(v)'
  BY SameGraph DEF Shaded, Shadable
<1>4. MarkSound
  BY DEF IInv
<1>5. marked' \subseteq Alloc' /\ gray' \subseteq marked'
  BY <1>4, SameGraph DEF MarkSound
<1>6. \A v \in roots' : Shaded(v)'
  BY <1>2, <1>4 DEF MarkSound, rootVars
<1>7. \A v \in marked' \ gray' : \A x \in Children(v)' : Shaded(x)'
  BY <1>2, <1>3, <1>4, SameGraph DEF MarkSound
<1>8. minor' => \A o \in remembered' : \A x \in Children(o)' : Shaded(x)'
  BY <1>2, <1>4, SameGraph DEF MarkSound, setVars
<1>9. phase' = "weak" /\ minor' =>
        \A o \in tracked' : IsOld(o)' => \A x \in inner'[o] : Shaded(x)'
  BY <1>2, <1>3, <1>4, SameGraph DEF MarkSound, setVars, graphVars
<1>10. QED
  BY <1>1, <1>5, <1>6, <1>7, <1>8, <1>9 DEF MarkSound

LEMMA ScanInv == ASSUME VisibleHeap, IInv, Scan PROVE IInv'
<1> DEFINE S == UNION {Children(v) : v \in gray}
<1>1. TypeOK'
  BY CollectType DEF IInv, Collector
<1>2. Marking /\ Marking' /\ phase' = phase /\ minor' = minor
  BY DEF Scan, Marking
<1>3. gray \subseteq marked /\ marked \subseteq Alloc
  BY <1>2 DEF IInv, MarkSound
<1>4. S \subseteq Alloc
  <2>1. \A v \in gray : v \in Alloc /\ v \in Obj
    BY <1>3 DEF Alloc
  <2>2. \A v \in gray : Children(v) \subseteq Alloc
    BY <2>1, ChildrenAreEdges DEF IInv, GraphSafe
  <2>3. QED
    BY <2>2
<1>5. /\ marked' = marked \union {v \in S : Shadable(v, minor)}
      /\ gray' = {v \in S : Shadable(v, minor)}
      /\ UNCHANGED <<graphVars, rootVars, policyVars, setVars>>
  BY DEF Scan
<1>6. \A v \in gray : Children(v) \subseteq S
  OBVIOUS
<1> HIDE DEF S
<1>7. /\ GraphSafe' /\ ShapeOfObjects' /\ TrackedExact' /\ RememberedExact'
      /\ SweepSound' /\ Quiescent' /\ MarkSound'
  BY <1>2, <1>4, <1>5, <1>6, ShadeStep
<1>8. QED
  BY <1>1, <1>7 DEF IInv

LEMMA TraceCollectionsInv ==
  ASSUME VisibleHeap, IInv, TraceCollections PROVE IInv'
<1> DEFINE S == IF minor THEN UNION {TracedInner(o) : o \in {x \in tracked : IsLive(x)}}
                ELSE {}
<1>1. TypeOK'
  BY CollectType DEF IInv, Collector
<1>2. Marking /\ Marking' /\ phase' = "weak" /\ minor' = minor
  BY DEF TraceCollections, Marking
<1>3. \A o \in tracked : o \in Alloc /\ TracedInner(o) = inner[o] /\ inner[o] \subseteq Alloc
  <2>1. \A o \in tracked : o \in Alloc /\ o \in Obj
    BY DEF IInv, TrackedExact, Alloc
  <2>2. \A o \in tracked : inner[o] \subseteq Edges(o)
    BY <2>1, EdgesOfObject
  <2>3. QED
    BY <2>1, <2>2, ChildrenAreEdges DEF IInv, GraphSafe
<1>4. S \subseteq Alloc
  BY <1>3
<1>5. /\ marked' = marked \union {v \in S : Shadable(v, minor)}
      /\ gray' = {v \in S : Shadable(v, minor)} /\ gray = {}
      /\ UNCHANGED <<graphVars, rootVars, policyVars, setVars>>
  BY DEF TraceCollections, Shade
<1>6. minor => \A o \in tracked : IsOld(o) => inner[o] \subseteq S
  <2>1. ASSUME minor, NEW o \in tracked, IsOld(o) PROVE IsLive(o)
    BY <2>1 DEF IsLive
  <2>2. QED
    BY <1>3, <2>1
<1> HIDE DEF S
<1>7. /\ GraphSafe' /\ ShapeOfObjects' /\ TrackedExact' /\ RememberedExact'
      /\ SweepSound' /\ Quiescent' /\ MarkSound'
  BY <1>2, <1>4, <1>5, <1>6, ShadeStep
<1>8. QED
  BY <1>1, <1>7 DEF IInv

LEMMA MarkEphemeronsInv ==
  ASSUME VisibleHeap, IInv, MarkEphemerons PROVE IInv'
<1>1. TypeOK'
  BY CollectType DEF IInv, Collector
<1>2. Marking /\ Marking' /\ phase = "weak" /\ minor' = minor
  BY DEF MarkEphemerons, Marking
<1>3. EphemeronValues \subseteq Alloc
  <2>1. tracked \subseteq Alloc
    BY DEF IInv, TrackedExact
  <2>2. QED
    BY <2>1 DEF EphemeronValues, IInv, GraphSafe
<1>4. /\ marked' = marked \union {v \in EphemeronValues : Shadable(v, minor)}
      /\ gray' = {v \in EphemeronValues : Shadable(v, minor)} /\ gray = {}
      /\ UNCHANGED <<graphVars, rootVars, policyVars, setVars>>
  BY DEF MarkEphemerons, Shade
<1>5. /\ GraphSafe' /\ ShapeOfObjects' /\ TrackedExact' /\ RememberedExact'
      /\ SweepSound' /\ Quiescent' /\ MarkSound'
  BY <1>2, <1>3, <1>4, ShadeStep
<1>6. QED
  BY <1>1, <1>5 DEF IInv

\* When the weak entries are about to be purged, what is live is closed under
\* references, the entries of live weak containers with a live key included.
LEMMA LiveClosed ==
  ASSUME VisibleHeap, IInv, PurgeWeak
  PROVE  /\ \A o \in roots : IsLive(o)
         /\ \A o \in Alloc : IsLive(o) => \A x \in Edges(o) : IsLive(x)
         /\ \A o \in Alloc : \A e \in weak[o] :
              IsLive(e[1]) /\ e[2] # None => IsLive(e[2])
<1>1. phase = "weak" /\ gray = {} /\ EphemeronValues = {}
  BY DEF PurgeWeak
<1>2. /\ MarkSound /\ Marking /\ RememberedExact /\ GraphSafe /\ ShapeOfObjects
      /\ ~Doomed /\ TrackedExact /\ TypeOK
  BY <1>1 DEF IInv, Marking, Doomed
<1>3. \A v : Shaded(v) => IsLive(v)
  BY DEF Shaded, IsLive
<1>4. \A o \in roots : IsLive(o)
  BY <1>2, <1>3 DEF MarkSound
<1>5. ASSUME NEW o \in Alloc, IsLive(o), NEW x \in Edges(o) PROVE IsLive(x)
  <2>1. o \in Obj /\ Children(o) = Edges(o) /\ x \in Alloc
    BY <1>2, <1>5, ChildrenAreEdges DEF Alloc, GraphSafe
  <2>2. CASE o \in marked
    BY <1>1, <1>2, <1>3, <1>5, <2>1, <2>2 DEF MarkSound
  <2>3. CASE o \in Arena
    <3>1. Shaded(o)
      BY <1>2, <2>3 DEF MarkSound, GraphSafe
    <3>2. ~IsOld(o)
      BY <1>2, <2>1, <2>3 DEF TypeOK, IsOld
    <3>3. QED
      BY <2>2, <3>1, <3>2 DEF Shaded
  <2>4. CASE minor /\ IsOld(o)
    <3>1. CASE x \in inner[o]
      <4>1. kind[o] = "collection"
        BY <1>2, <2>1, <3>1 DEF ShapeOfObjects
      <4>2. o \in tracked
        BY <1>2, <1>5, <4>1 DEF TrackedExact, TrackedKinds
      <4>3. QED
        BY <1>1, <1>2, <1>3, <2>4, <3>1, <4>2 DEF MarkSound
    <3>2. CASE x \in slots[o] \union {proto[o]}
      <4>1. CASE o \in remembered
        BY <1>2, <1>3, <1>5, <2>1, <2>4, <4>1 DEF MarkSound
      <4>2. CASE o \notin remembered
        <5>1. ~IsYoung(x)
          BY <1>1, <1>2, <2>1, <2>4, <3>2, <4>2 DEF RememberedExact
        <5>2. x \in Obj /\ gen[x] \in {"old", "arena"}
          BY <1>2, <2>1, <5>1 DEF Alloc, TypeOK, IsYoung
        <5>3. QED
          BY <1>2, <2>4, <5>2 DEF IsLive, IsOld, TypeOK
      <4>3. QED
        BY <4>1, <4>2
    <3>3. QED
      BY <2>1, <3>1, <3>2, <1>5, EdgesOfObject
  <2>5. QED
    BY <1>5, <2>2, <2>3, <2>4 DEF IsLive
<1>6. ASSUME NEW o \in Alloc, NEW e \in weak[o], IsLive(e[1]), e[2] # None
      PROVE  IsLive(e[2])
  <2>1. o \in Obj /\ kind[o] = "weak"
    BY <1>2, <1>6 DEF ShapeOfObjects, Alloc
  <2>2. o \in tracked
    BY <1>2, <1>6, <2>1 DEF TrackedExact, TrackedKinds
  <2>3. e[2] \in Obj
    BY <1>2, <1>6 DEF GraphSafe, Alloc
  <2>4. e \in UNION {weak[x] : x \in tracked}
    BY <2>2, <1>6
  <2>5. ValueLive(e[1])
    BY <1>6 DEF ValueLive
  <2>6. ValueLive(e[2])
    BY <1>1, <1>6, <2>4, <2>5 DEF EphemeronValues
  <2>7. QED
    BY <2>3, <2>6 DEF ValueLive
<1>7. QED
  BY <1>4, <1>5, <1>6

LEMMA PurgeWeakInv == ASSUME VisibleHeap, IInv, PurgeWeak PROVE IInv'
<1> USE DEF rootVars
<1>1. TypeOK'
  BY CollectType DEF IInv, Collector
<1>2. /\ phase = "weak" /\ gray = {} /\ minor' = minor
      /\ phase' = IF minor THEN "sweep" ELSE "clear"
      /\ marked' = marked \ (Arena \union Clo)
      /\ UNCHANGED <<gen, kind, proto, slots, inner, roots, forceMajor, remembered, gray>>
  BY DEF PurgeWeak, policyVars
<1>3. \A o \in Obj : weak'[o] \subseteq weak[o]
  BY DEF PurgeWeak
<1>4. Alloc' = Alloc /\ Doomed' /\ ~Marking' /\ ~Doomed
  BY <1>2 DEF Alloc, Doomed, Marking
<1>5. \A o \in Alloc : Edges(o)' = Edges(o)
  BY <1>2 DEF Edges, VisibleHeap
<1>6. \A o \in Alloc : o \in Swept' <=> ~IsLive(o)
  BY <1>2, ConstantsAssumption DEF IInv, TypeOK, Alloc, Swept, IsLive, IsOld, VisibleHeap
<1>7. GraphSafe'
  BY <1>2, <1>3, <1>4, <1>5 DEF IInv, GraphSafe, Alloc
<1>8. ShapeOfObjects'
  BY <1>2, <1>3 DEF IInv, ShapeOfObjects
<1>9. TrackedExact'
  <2>1. tracked' = {o \in tracked : IsLive(o)}
    BY DEF PurgeWeak
  <2>2. tracked = {o \in Alloc : kind[o] \in TrackedKinds}
    BY <1>4 DEF IInv, TrackedExact
  <2>3. tracked' = {o \in Alloc : kind[o] \in TrackedKinds /\ o \notin Swept'}
    BY <1>6, <2>1, <2>2
  <2>4. QED
    BY <1>2, <1>4, <2>3 DEF TrackedExact
<1>10. RememberedExact'
  BY <1>2 DEF IInv, RememberedExact, IsOld, IsYoung
<1>11. MarkSound' /\ Quiescent'
  BY <1>2, <1>4 DEF MarkSound, Quiescent
<1>12. SweepSound'
  <2>1. \A o : o \in Survivors' <=> o \in Alloc /\ IsLive(o)
    BY <1>4, <1>6 DEF Survivors
  <2>2. roots' \subseteq Survivors'
    BY <1>2, <2>1, LiveClosed DEF IInv, GraphSafe
  <2>3. \A o \in Survivors' : Edges(o)' \subseteq Survivors'
    BY <1>5, <2>1, LiveClosed DEF IInv, GraphSafe
  <2>4. ASSUME NEW o \in Survivors', NEW e \in weak'[o]
        PROVE  {e[1], e[2]} \ {None} \subseteq Survivors'
    <3>1. o \in Alloc /\ o \in Obj /\ e \in weak[o]
      BY <1>3, <2>1, <2>4 DEF Alloc
    <3>2. {e[1], e[2]} \ {None} \subseteq Alloc
      BY <3>1 DEF IInv, GraphSafe
    <3>3. o \in tracked
      BY <1>4, <3>1 DEF IInv, ShapeOfObjects, TrackedExact, TrackedKinds
    <3>4. e[1] # None /\ e[1] \in Obj
      <4>1. e \in Val \X (Val \union {None})
        BY <3>1 DEF IInv, TypeOK
      <4>2. QED
        BY <4>1, NoClosures, ConstantsAssumption
    <3>5. IsLive(e[1])
      BY <2>4, <3>1, <3>3, <3>4 DEF PurgeWeak, ValueLive
    <3>6. e[2] # None => IsLive(e[2])
      BY <3>1, <3>5, LiveClosed
    <3>7. QED
      BY <2>1, <3>2, <3>5, <3>6
  <2>5. QED
    BY <2>2, <2>3, <2>4 DEF SweepSound
<1>13. QED
  BY <1>1, <1>7, <1>8, <1>9, <1>10, <1>11, <1>12 DEF IInv

LEMMA SweepInv == ASSUME VisibleHeap, IInv, Sweep PROVE IInv'
<1> USE DEF rootVars, setVars
<1>1. TypeOK'
  BY CollectType DEF IInv, Collector
<1>2. /\ phase = "sweep" /\ Doomed /\ gray' = {} /\ marked' = {} /\ minor' = minor
      /\ UNCHANGED <<roots, remembered, tracked>>
      /\ phase' = IF minor THEN "clear" ELSE "run"
      /\ minor => forceMajor' = forceMajor
  BY DEF Sweep, Finish, Doomed, IInv, Quiescent, Marking, policyVars
<1>3. ~Doomed' /\ ~Marking'
  BY <1>2 DEF Doomed, Marking
<1>4. /\ \A o \in Obj : gen'[o] = IF o \in Swept THEN "free"
                             ELSE IF gen[o] = "young" THEN "old" ELSE gen[o]
      /\ \A o \in Obj : kind'[o] = IF o \in Swept THEN "ordinary" ELSE kind[o]
      /\ \A o \in Obj : proto'[o] = IF o \in Swept THEN None ELSE proto[o]
      /\ \A o \in Obj : slots'[o] = IF o \in Swept THEN {} ELSE slots[o]
      /\ \A o \in Obj : inner'[o] = IF o \in Swept THEN {} ELSE inner[o]
      /\ \A o \in Obj : weak'[o] = IF o \in Swept THEN {} ELSE weak[o]
  <2> HIDE DEF rootVars, setVars
  <2>1. QED
    BY Zenon DEF Sweep
<1>5. Alloc' = Survivors
  <2>1. \A o \in Obj : gen'[o] # "free" <=> gen[o] # "free" /\ o \notin Swept
    BY <1>4
  <2>2. QED
    BY <2>1 DEF Alloc, Survivors
<1>6. \A o \in Survivors : Edges(o)' = Edges(o) /\ weak'[o] = weak[o] /\ kind'[o] = kind[o]
  <2>1. ASSUME NEW o \in Survivors
        PROVE  /\ o \in Obj /\ weak'[o] = weak[o] /\ kind'[o] = kind[o]
               /\ proto'[o] = proto[o] /\ slots'[o] = slots[o] /\ inner'[o] = inner[o]
    BY <1>4 DEF Survivors, Alloc
  <2>2. QED
    BY <2>1 DEF Edges, VisibleHeap
<1>7. SweepSound
  BY DEF IInv
<1>8. GraphSafe'
  BY <1>2, <1>5, <1>6, <1>7 DEF IInv, GraphSafe, SweepSound
<1>9. ShapeOfObjects'
  <2>1. \A o \in Obj : gen'[o] = "free" => o \in Swept \/ gen[o] = "free"
    BY <1>4
  <2>2. QED
    BY <1>4, <2>1 DEF IInv, ShapeOfObjects, VisibleKinds
<1>10. TrackedExact'
  <2>1. tracked = {o \in Survivors : kind[o] \in TrackedKinds}
    BY <1>2 DEF IInv, TrackedExact, Survivors
  <2>2. QED
    BY <1>2, <1>3, <1>5, <1>6, <2>1 DEF TrackedExact
<1>11. \A y : ~IsYoung(y)'
  BY <1>2, <1>4 DEF IsYoung, Swept
<1>12. RememberedExact'
  <2>1. \A o \in remembered' : IsOld(o)'
    BY <1>2, <1>4 DEF IInv, RememberedExact, Quiescent, IsOld, Swept
  <2>2. phase' # "run" /\ minor' => ~forceMajor'
    BY <1>2 DEF IInv, RememberedExact
  <2>3. QED
    BY <1>11, <2>1, <2>2 DEF RememberedExact
<1>13. MarkSound' /\ SweepSound' /\ Quiescent'
  BY <1>2, <1>3, <1>11 DEF MarkSound, SweepSound, Quiescent
<1>14. QED
  BY <1>1, <1>8, <1>9, <1>10, <1>12, <1>13 DEF IInv

LEMMA ClearRememberedInv == ASSUME VisibleHeap, IInv, ClearRemembered PROVE IInv'
<1> USE DEF rootVars, graphVars
<1>1. TypeOK'
  BY CollectType DEF IInv, Collector
<1>2. /\ phase = "clear" /\ minor' = minor /\ remembered' = {}
      /\ phase' = IF minor THEN "run" ELSE "sweep"
      /\ UNCHANGED <<graphVars, rootVars, tracked, marked, gray>>
  BY DEF ClearRemembered, Finish
<1>3. /\ Alloc' = Alloc /\ Swept' = Swept /\ Survivors' = Survivors
      /\ Doomed' = Doomed /\ ~Marking' /\ ~Marking
      /\ \A v : Edges(v)' = Edges(v)
  BY <1>2 DEF Alloc, Swept, Survivors, Doomed, Marking, Edges
<1>4. GraphSafe' /\ ShapeOfObjects' /\ TrackedExact' /\ MarkSound' /\ SweepSound'
  BY <1>2, <1>3 DEF IInv, GraphSafe, ShapeOfObjects, TrackedExact, MarkSound, SweepSound
<1>5. RememberedExact'
  BY <1>2 DEF IInv, Quiescent, RememberedExact, IsYoung, IsOld, TypeOK
<1>6. Quiescent'
  BY <1>2, <1>3 DEF IInv, Quiescent
<1>7. QED
  BY <1>1, <1>4, <1>5, <1>6 DEF IInv

-----------------------------------------------------------------------------
(* Inductiveness, and what follows                                         *)

LEMMA NextInv == ASSUME VisibleHeap, IInv, [Next]_vars PROVE IInv'
<1>1. CASE Mutate
  <2>1. Clo = {} /\ Hidden = {}
    BY DEF VisibleHeap
  <2>2. QED
    BY <1>1, <2>1, RootSteps, AllocateInv, StoreInv, DeleteInv, SetProtoInv,
       InnerInv, PutWeakInv DEF Mutate
<1>2. CASE AutoCollect \/ HostCollect
  BY <1>2, CollectInv
<1>3. CASE Collector
  BY <1>3, ScanInv, TraceCollectionsInv, MarkEphemeronsInv, PurgeWeakInv, SweepInv,
     ClearRememberedInv DEF Collector
<1>4. CASE UNCHANGED vars
  <2> USE <1>4 DEF vars, graphVars, rootVars, policyVars, setVars, gcVars, IInv
  <2>1. TypeOK' /\ GraphSafe' /\ ShapeOfObjects'
    BY DEF TypeOK, GraphSafe, ShapeOfObjects, Alloc, Edges
  <2>2. TrackedExact' /\ RememberedExact'
    BY DEF TrackedExact, RememberedExact, Alloc, Doomed, Swept, IsOld, IsYoung
  <2>3. MarkSound'
    BY DEF MarkSound, Marking, Alloc, Shaded, Children, TracedInner, IsOld
  <2>4. SweepSound' /\ Quiescent'
    BY DEF SweepSound, Quiescent, Survivors, Swept, Alloc, Edges, Doomed, Marking, IsYoung
  <2>5. QED
    BY <2>1, <2>2, <2>3, <2>4
<1>5. QED
  BY <1>1, <1>2, <1>3, <1>4 DEF Next

\* The allocated objects themselves are the closed set NoDangling asks for.
LEMMA InvNoDangling == ASSUME VisibleHeap, IInv PROVE NoDangling
<1>1. GraphSafe /\ TypeOK /\ Alloc \subseteq Obj /\ Val = Obj
  BY NoClosures DEF IInv, Alloc
<1>2. \A w \in Alloc : \A e \in weak[w] : e[1] \in Alloc /\ (e[2] # None => e[2] \in Alloc)
  <2>1. \A w \in Alloc : \A e \in weak[w] : e[1] # None
    BY <1>1, ConstantsAssumption DEF TypeOK
  <2>2. QED
    BY <1>1, <2>1 DEF GraphSafe
<1>3. ClosedFor(Alloc, Alloc \intersect Obj)
  BY <1>1, <1>2 DEF ClosedFor, GraphSafe
<1>4. QED
  BY <1>1, <1>2, <1>3 DEF NoDangling

LEMMA InvBookkeeping == ASSUME VisibleHeap, IInv PROVE BookkeepingAlive
<1>1. \A o \in remembered : IsOld(o)
  BY DEF IInv, RememberedExact
<1>2. tracked \subseteq Alloc
  BY DEF IInv, TrackedExact
<1>3. gray \subseteq Alloc
  BY DEF IInv, MarkSound, Quiescent
<1>4. \A w \in tracked : \A e \in weak[w] : {e[1], e[2]} \ {None} \subseteq Alloc
  BY <1>2 DEF IInv, GraphSafe
<1>5. QED
  BY <1>1, <1>2, <1>3, <1>4 DEF BookkeepingAlive

LEMMA InvPurge ==
  ASSUME VisibleHeap, IInv, PurgeWeak,
         NEW w \in Obj, NEW e \in weak[w] \ weak'[w]
  PROVE  \E L \in SUBSET Val : ClosedFor(L, L \intersect Obj) /\ e[1] \notin L
<1> DEFINE L == {o \in Alloc : IsLive(o)}
<1>1. w \in tracked /\ ~ValueLive(e[1])
  BY DEF PurgeWeak
<1>2. e[1] \notin L
  BY <1>1 DEF ValueLive
<1>3. GraphSafe /\ L \subseteq Alloc /\ Alloc \subseteq Val
  BY DEF IInv, Alloc, Val
<1>4. roots \union Arena \subseteq L
  BY <1>3, LiveClosed DEF GraphSafe
<1>5. \A o \in L : Edges(o) \subseteq L
  BY <1>3, LiveClosed DEF GraphSafe
<1>6. \A o \in L : \A x \in weak[o] : x[1] \in L /\ x[2] # None => x[2] \in L
  BY <1>3, LiveClosed DEF GraphSafe
<1>7. ClosedFor(L, L \intersect Obj)
  BY <1>4, <1>5, <1>6 DEF ClosedFor
<1>8. QED
  BY <1>2, <1>3, <1>7

(* The invariant is inductive for every number of objects, any nursery size  *)
(* and major period, and any outcome of the barrier's append.                *)
THEOREM Invariant == ASSUME VisibleHeap PROVE Spec => []IInv
<1>1. Init => IInv
  BY InitInv
<1>2. IInv /\ [Next]_vars => IInv'
  BY NextInv
<1>3. QED
  BY <1>1, <1>2, PTL DEF Spec

(* No collection, minor or major, destroys an object the program can still   *)
(* follow a reference to.                                                    *)
THEOREM CollectionIsSafe == ASSUME VisibleHeap PROVE Spec => []NoDangling
<1>1. IInv => NoDangling
  BY InvNoDangling
<1>2. QED
  BY <1>1, Invariant, PTL

(* The write barrier keeps the remembered set complete between collections.  *)
THEOREM BarrierIsComplete == ASSUME VisibleHeap PROVE Spec => []RememberedComplete
<1>1. IInv => RememberedComplete
  BY DEF IInv, RememberedExact, RememberedComplete
<1>2. QED
  BY <1>1, Invariant, PTL

(* The collector never dereferences a destroyed object through its own sets. *)
THEOREM CollectorIsSafe == ASSUME VisibleHeap PROVE Spec => []BookkeepingAlive
<1>1. IInv => BookkeepingAlive
  BY InvBookkeeping
<1>2. QED
  BY <1>1, Invariant, PTL

(* A weak entry is purged only when its target is unreachable, ephemeron     *)
(* chains through any number of WeakMaps included.                           *)
THEOREM PurgeIsSafe == ASSUME VisibleHeap PROVE Spec => PurgedKeysUnreachable
<1>1. IInv /\ [Next]_vars =>
        [PurgeWeak =>
           \A w \in Obj : \A e \in weak[w] \ weak'[w] :
             \E L \in SUBSET Val : ClosedFor(L, L \intersect Obj) /\ e[1] \notin L]_vars
  BY InvPurge
<1>2. QED
  BY <1>1, Invariant, PTL DEF Spec, PurgedKeysUnreachable

-----------------------------------------------------------------------------
(* A major collection keeps nothing it need not keep                        *)

\* Steps of the mutator leave the marks alone.
LEMMA PreciseAtRest ==
  ASSUME PreciseInv, TypeOK', phase = "run", UNCHANGED gcVars, TrackedAlive'
  PROVE  PreciseInv'
BY DEF PreciseInv, MarkExact, SweepExact, Unmarked, Marking, gcVars

LEMMA MutatePrecise == ASSUME PreciseInv, Mutate PROVE PreciseInv'
<1>1. TypeOK' /\ TypeOK /\ TrackedAlive
  BY MutateType DEF PreciseInv
<1>2. phase = "run" /\ UNCHANGED gcVars
  BY DEF Mutate, StartRun, EndRun, Allocate, Store, Delete, SetProto, PutInner,
     RemoveInner, PutWeak, MakeClosure, Bind, Load, Drop, Running
<1>3. ~Doomed'
  BY <1>2 DEF Doomed, gcVars
<1>4. Alloc \subseteq Alloc' /\ tracked' \subseteq Alloc'
  <2>1. CASE \E o \in Obj, k \in Kinds, p \in Obj \union {None} : Allocate(o, k, p)
    <3>1. PICK o \in Obj, k \in Kinds, p \in Obj \union {None} : Allocate(o, k, p)
      BY <2>1
    <3>2. gen' = [gen EXCEPT ![o] = "young"] /\ tracked' \subseteq tracked \union {o}
      BY <3>1 DEF Allocate, NoteWeakContainer
    <3>3. Alloc' = Alloc \union {o}
      BY <1>1, <3>2 DEF Alloc, TypeOK
    <3> QED
      BY <1>1, <3>2, <3>3 DEF TrackedAlive
  <2>2. CASE ~\E o \in Obj, k \in Kinds, p \in Obj \union {None} : Allocate(o, k, p)
    <3>1. UNCHANGED <<gen, tracked>>
      BY <2>2 DEF Mutate, StartRun, EndRun, Store, Delete, SetProto, PutInner,
         RemoveInner, PutWeak, MakeClosure, Bind, Load, Drop,
         graphVars, setVars
    <3> QED
      BY <1>1, <3>1 DEF TrackedAlive, Alloc
  <2> QED
    BY <2>1, <2>2
<1> QED
  BY <1>1, <1>2, <1>3, <1>4, PreciseAtRest DEF TrackedAlive

\* The steps of marking leave alone what is allocated and registered.
LEMMA MarkingTracked ==
  ASSUME PreciseInv, Marking', UNCHANGED <<graphVars, setVars>>
  PROVE  TrackedAlive'
BY DEF PreciseInv, TrackedAlive, Marking, Doomed, Alloc, graphVars, setVars

LEMMA BeginPrecise ==
  ASSUME PreciseInv, phase = "run", TypeOK', NEW m, NEW a, Begin(m, a)
  PROVE  PreciseInv'
<1>1. /\ phase' = "mark" /\ minor' = m
      /\ UNCHANGED <<graphVars, rootVars, policyVars, setVars>>
  BY DEF Begin
<1>2. TrackedAlive'
  BY <1>1, MarkingTracked DEF Marking
<1>3. marked = {}
  BY DEF PreciseInv, Unmarked
<1>4. ~m => marked' = roots /\ gray' = roots
  <2> HAVE ~m
  <2>1. \A v : Shadable(v, m)
    BY <1>3 DEF Shadable
  <2> QED
    BY <2>1 DEF Begin
<1>5. MarkExact'
  BY <1>1, <1>4 DEF MarkExact, Kept, rootVars
<1> QED
  BY <1>1, <1>2, <1>5 DEF PreciseInv, SweepExact, Unmarked

\* Shading S, which every set that keeps what must be kept contains.
LEMMA ShadePrecise ==
  ASSUME PreciseInv, TypeOK', Marking, Marking', minor' = minor,
         UNCHANGED <<graphVars, rootVars, policyVars, setVars>>,
         NEW S,
         marked' = marked \union {v \in S : Shadable(v, minor)},
         gray' = {v \in S : Shadable(v, minor)},
         ~minor => \A L \in SUBSET Val : Kept(L) /\ marked \subseteq L => S \subseteq L,
         ~minor => \A v \in gray : Children(v) \subseteq S
  PROVE  PreciseInv'
<1>1. TrackedAlive'
  BY MarkingTracked
<1>2. ASSUME ~minor
      PROVE  /\ gray' \subseteq marked' /\ roots' \subseteq marked'
             /\ \A v \in marked' \ gray' : Children(v)' \subseteq marked'
             /\ \A L \in SUBSET Val : Kept(L)' => marked' \subseteq L
  <2>1. /\ gray \subseteq marked /\ roots \subseteq marked
        /\ \A v \in marked \ gray : Children(v) \subseteq marked
        /\ \A L \in SUBSET Val : Kept(L) => marked \subseteq L
    BY <1>2 DEF PreciseInv, MarkExact
  <2>2. /\ \A v : Children(v)' = Children(v)
        /\ roots' = roots /\ \A L : Kept(L)' <=> Kept(L)
    BY SameGraph DEF Kept, graphVars, rootVars, setVars
  <2>3. marked \union S \subseteq marked'
    BY <1>2 DEF Shadable
  <2>4. \A v \in marked' \ gray' : Children(v) \subseteq marked'
    BY <1>2, <2>1, <2>3
  <2> QED
    BY <1>2, <2>1, <2>2, <2>3, <2>4
<1>3. MarkExact'
  BY <1>2 DEF MarkExact
<1> QED
  BY <1>1, <1>3 DEF PreciseInv, SweepExact, Unmarked, Marking

\* What is kept is closed under the steps of marking.
LEMMA ScanPrecise == ASSUME PreciseInv, Scan PROVE PreciseInv'
<1> DEFINE S == UNION {Children(v) : v \in gray}
<1>1. TypeOK'
  BY CollectType DEF PreciseInv, Collector
<1>2. Marking /\ Marking' /\ minor' = minor
  BY DEF Scan, Marking
<1>3. ~minor => gray \subseteq marked
  BY <1>2 DEF PreciseInv, MarkExact
<1>4. ~minor => \A L \in SUBSET Val : Kept(L) /\ marked \subseteq L => S \subseteq L
  BY <1>3 DEF Kept
<1>5. \A v \in gray : Children(v) \subseteq S
  OBVIOUS
<1>6. /\ marked' = marked \union {v \in S : Shadable(v, minor)}
      /\ gray' = {v \in S : Shadable(v, minor)}
      /\ UNCHANGED <<graphVars, rootVars, policyVars, setVars>>
  BY DEF Scan
<1> HIDE DEF S
<1> QED
  BY <1>1, <1>2, <1>4, <1>5, <1>6, ShadePrecise

LEMMA TracePrecise == ASSUME PreciseInv, TraceCollections PROVE PreciseInv'
<1> DEFINE S == IF minor THEN UNION {TracedInner(o) : o \in {x \in tracked : IsLive(x)}}
                ELSE {}
<1>1. TypeOK'
  BY CollectType DEF PreciseInv, Collector
<1>2. Marking /\ Marking' /\ minor' = minor /\ gray = {}
  BY DEF TraceCollections, Marking
<1>3. ~minor => S = {}
  OBVIOUS
<1>4. /\ marked' = marked \union {v \in S : Shadable(v, minor)}
      /\ gray' = {v \in S : Shadable(v, minor)}
      /\ UNCHANGED <<graphVars, rootVars, policyVars, setVars>>
  BY DEF TraceCollections, Shade
<1> HIDE DEF S
<1> QED
  BY <1>1, <1>2, <1>3, <1>4, ShadePrecise

\* What is live in a major collection is marked, or never collected.
LEMMA LiveInMajor ==
  ASSUME ~minor, NEW v \in Val
  PROVE  ValueLive(v) <=> v \in marked \union Lasting
BY ConstantsAssumption DEF ValueLive, IsLive, Val, Lasting

LEMMA EphemeronsPrecise ==
  ASSUME PreciseInv, MarkEphemerons PROVE PreciseInv'
<1>1. TypeOK' /\ TypeOK
  BY CollectType DEF PreciseInv, Collector
<1>2. Marking /\ Marking' /\ minor' = minor /\ gray = {}
  BY DEF MarkEphemerons, Marking
<1>3. ASSUME ~minor, NEW L \in SUBSET Val, Kept(L), marked \subseteq L,
             NEW x \in EphemeronValues
      PROVE  x \in L
  <2>1. PICK w \in tracked : \E e \in weak[w] :
           x = e[2] /\ e[2] # None /\ ValueLive(e[1]) /\ ~ValueLive(e[2])
    BY DEF EphemeronValues
  <2> PICK e \in weak[w] :
         x = e[2] /\ e[2] # None /\ ValueLive(e[1]) /\ ~ValueLive(e[2])
    BY <2>1
  <2>2. e[1] \in Val /\ e[2] \in Val
    BY <1>1 DEF TypeOK
  <2>3. e[1] \in marked \union Lasting /\ e[2] \notin Lasting
    BY <1>3, <2>2, LiveInMajor
  <2> QED
    BY <1>3, <2>3 DEF Kept
<1>4. /\ marked' = marked \union {v \in EphemeronValues : Shadable(v, minor)}
      /\ gray' = {v \in EphemeronValues : Shadable(v, minor)}
      /\ UNCHANGED <<graphVars, rootVars, policyVars, setVars>>
  BY DEF MarkEphemerons, Shade
<1> QED
  BY <1>1, <1>2, <1>3, <1>4, ShadePrecise

\* The purge removes entries whose key is dead, and the entries that remain
\* with a live key have a live value: a set that is closed after the purge has
\* a marked part that was kept before it.
LEMMA KeptBeforePurge ==
  ASSUME PreciseInv, PurgeWeak, ~minor,
         NEW L \in SUBSET Val, ClosedFor(L, Alloc)', ClosureKeysLive(L, Alloc)'
  PROVE  marked \subseteq L
<1> DEFINE K == L \intersect marked
<1>1. /\ phase = "weak" /\ gray = {} /\ EphemeronValues = {}
      /\ UNCHANGED <<gen, kind, proto, slots, inner, env, this, roots>>
      /\ weak' = [o \in Obj |-> IF o \in tracked THEN {e \in weak[o] : ValueLive(e[1])}
                                ELSE weak[o]]
  BY DEF PurgeWeak, rootVars
<1>2. /\ roots \subseteq marked
      /\ \A v \in marked : Children(v) \subseteq marked
      /\ \A X \in SUBSET Val : Kept(X) => marked \subseteq X
  BY <1>1 DEF PreciseInv, MarkExact, Marking
<1>3. Alloc' = Alloc /\ \A v : Edges(v)' = Edges(v)
  BY <1>1 DEF Alloc, Edges
<1>4. /\ roots \union Arena \subseteq L
      /\ \A v \in L : Edges(v) \subseteq L
      /\ \A w \in Alloc : \A e \in weak'[w] :
           e[1] \in L \union Lasting /\ e[2] # None => e[2] \in L
  BY <1>1, <1>3 DEF ClosedFor, ClosureKeysLive, Lasting
<1>5. \A v \in K : Children(v) \subseteq K
  <2>1. \A v : Children(v) \subseteq Edges(v)
    BY DEF Children, Edges, TracedInner
  <2> QED
    BY <1>2, <1>4, <2>1
<1>6. ASSUME NEW w \in tracked, NEW e \in weak[w],
             e[1] \in K \union Lasting, e[2] # None
      PROVE  e[2] \in K \union Lasting
  <2>1. w \in Alloc /\ w \in Obj /\ TypeOK
    BY DEF PreciseInv, TrackedAlive, Alloc
  <2>2. e[1] \in Val /\ e[2] \in Val
    BY <1>6, <2>1 DEF TypeOK
  <2>3. ValueLive(e[1])
    BY <1>6, <2>2, LiveInMajor
  <2>4. e \in weak'[w]
    BY <1>1, <2>1, <2>3
  <2>5. e[2] \in L
    BY <1>4, <1>6, <2>1, <2>4
  <2>6. ValueLive(e[2])
    BY <1>1, <1>6, <2>3 DEF EphemeronValues
  <2> QED
    BY <2>2, <2>5, <2>6, LiveInMajor
<1>7. Kept(K)
  BY <1>2, <1>4, <1>5, <1>6 DEF Kept
<1> QED
  BY <1>2, <1>7

LEMMA PurgePrecise == ASSUME PreciseInv, PurgeWeak PROVE PreciseInv'
<1>1. TypeOK' /\ TypeOK /\ TrackedAlive
  BY CollectType DEF PreciseInv, Collector
<1>2. /\ phase' = (IF minor THEN "sweep" ELSE "clear")
      /\ minor' = minor /\ gen' = gen /\ marked' = marked \ Lasting
      /\ tracked' = {o \in tracked : IsLive(o)}
  BY DEF PurgeWeak, Lasting
<1>3. tracked' \subseteq Alloc'
  BY <1>1, <1>2 DEF TrackedAlive, Alloc
<1>4. tracked' \intersect Swept' = {}
  <2> SUFFICES ASSUME NEW o \in tracked' PROVE o \notin Swept'
    OBVIOUS
  <2>1. IsLive(o) /\ o \in Obj
    BY <1>1, <1>2 DEF TypeOK
  <2>2. CASE o \in Arena
    BY <1>1, <1>2, <2>1, <2>2 DEF Swept, TypeOK
  <2>3. CASE o \notin Arena
    <3>1. o \notin Lasting
      BY <2>1, <2>3, ConstantsAssumption DEF Lasting
    <3> QED
      BY <1>2, <2>1, <2>3, <3>1 DEF Swept, IsLive, IsOld
  <2> QED
    BY <2>2, <2>3
<1>5. SweepExact'
  BY <1>2, KeptBeforePurge DEF SweepExact
<1>6. MarkExact' /\ Unmarked'
  BY <1>2 DEF MarkExact, Marking, Unmarked
<1> QED
  BY <1>1, <1>3, <1>4, <1>5, <1>6 DEF PreciseInv, TrackedAlive

LEMMA SweepPrecise == ASSUME PreciseInv, Sweep PROVE PreciseInv'
<1>1. TypeOK' /\ TypeOK /\ TrackedAlive
  BY CollectType DEF PreciseInv, Collector
<1>2. /\ phase = "sweep" /\ marked' = {} /\ minor' = minor /\ tracked' = tracked
      /\ phase' = (IF minor THEN "clear" ELSE "run")
      /\ gen' = [o \in Obj |-> IF o \in Swept THEN "free"
                               ELSE IF gen[o] = "young" THEN "old" ELSE gen[o]]
  BY DEF Sweep, Finish, setVars
<1>3. tracked' \subseteq Alloc'
  BY <1>1, <1>2 DEF TrackedAlive, Doomed, Alloc, TypeOK
<1>4. MarkExact' /\ Unmarked' /\ SweepExact'
  BY <1>2 DEF MarkExact, Marking, Unmarked, SweepExact
<1> QED
  BY <1>1, <1>2, <1>3, <1>4 DEF PreciseInv, TrackedAlive, Doomed

LEMMA ClearPrecise == ASSUME PreciseInv, ClearRemembered PROVE PreciseInv'
<1>1. TypeOK' /\ TrackedAlive /\ SweepExact /\ Unmarked
  BY CollectType DEF PreciseInv, Collector
<1>2. /\ phase = "clear" /\ minor' = minor /\ marked' = marked /\ tracked' = tracked
      /\ phase' = (IF minor THEN "run" ELSE "sweep")
      /\ UNCHANGED <<graphVars, rootVars>>
  BY DEF ClearRemembered, Finish
<1>3. Alloc' = Alloc /\ Swept' = Swept
  BY <1>2 DEF Alloc, Swept, graphVars
<1>4. TrackedAlive'
  BY <1>1, <1>2, <1>3 DEF TrackedAlive, Doomed
<1>5. SweepExact'
  <2>1. \A L, W : /\ ClosedFor(L, W)' <=> ClosedFor(L, W)
                  /\ ClosureKeysLive(L, W)' <=> ClosureKeysLive(L, W)
    BY <1>2 DEF ClosedFor, ClosureKeysLive, Edges, graphVars, rootVars
  <2> QED
    BY <1>1, <1>2, <1>3, <2>1 DEF SweepExact
<1>6. MarkExact' /\ Unmarked'
  BY <1>1, <1>2 DEF MarkExact, Marking, Unmarked
<1> QED
  BY <1>1, <1>4, <1>5, <1>6 DEF PreciseInv

(* For every heap, however many intrinsics no root names, kinds the strong   *)
(* trace does not know and registrations that failed, a major collection     *)
(* (markRoots to sweepInto) marks only what is in every set that holds the   *)
(* roots and is closed under reads and ephemerons: nothing else is kept.     *)
THEOREM MajorKeepsNoGarbage == Spec => []MajorIsPrecise
<1>1. Init => PreciseInv
  <2> SUFFICES ASSUME Init PROVE PreciseInv
    OBVIOUS
  <2>1. TrackedAlive /\ MarkExact /\ SweepExact /\ Unmarked
    BY DEF Init, TrackedAlive, Doomed, MarkExact, SweepExact, Unmarked, Marking
  <2> QED
    BY <2>1, InitType DEF PreciseInv
<1>2. PreciseInv /\ [Next]_vars => PreciseInv'
  <2> SUFFICES ASSUME PreciseInv, [Next]_vars PROVE PreciseInv'
    OBVIOUS
  <2>1. CASE Mutate
    BY <2>1, MutatePrecise
  <2>2. CASE AutoCollect \/ HostCollect
    <3>1. TypeOK'
      BY <2>2, CollectType DEF PreciseInv
    <3>2. phase = "run" /\ \E m, a : Begin(m, a)
      BY <2>2 DEF AutoCollect, HostCollect
    <3> QED
      BY <3>1, <3>2, BeginPrecise
  <2>3. CASE Collector
    BY <2>3, ScanPrecise, TracePrecise, EphemeronsPrecise, PurgePrecise,
       SweepPrecise, ClearPrecise DEF Collector
  <2>4. CASE UNCHANGED vars
    <3> USE <2>4 DEF vars, graphVars, rootVars, policyVars, setVars, gcVars, PreciseInv
    <3>1. TypeOK' /\ TrackedAlive' /\ Unmarked'
      BY DEF TypeOK, TrackedAlive, Unmarked, Alloc, Doomed, Swept
    <3>2. MarkExact' /\ SweepExact'
      BY DEF MarkExact, SweepExact, Marking, Kept, Children, TracedInner, ClosedFor,
         ClosureKeysLive, Edges, Alloc
    <3> QED
      BY <3>1, <3>2
  <2> QED
    BY <2>1, <2>2, <2>3, <2>4 DEF Next
<1>3. PreciseInv => MajorIsPrecise
  BY DEF PreciseInv, SweepExact, MajorIsPrecise
<1> QED
  BY <1>1, <1>2, <1>3, PTL DEF Spec
===============================================================================
