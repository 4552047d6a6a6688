----------------------------- MODULE GcHeapInv -----------------------------
(***************************************************************************)
(* The inductive invariant behind NoDangling, for a heap whose every       *)
(* reference the collector can see: no closures, no kind whose arena-side  *)
(* struct is missed by the strong trace or by registration, and no failed  *)
(* registration. Generations, the write barrier and its out-of-memory      *)
(* path, Map, Set and the weak containers are all there.                   *)
(***************************************************************************)
EXTENDS GcHeap

VisibleKinds == {"ordinary", "collection", "weak"}

VisibleHeap ==
  /\ Clo = {} /\ Hidden = {}
  /\ Kinds \subseteq VisibleKinds
  /\ RegisterFails \subseteq {FALSE}

\* A mark phase is under way; the sweep is decided but not done.
Marking == phase \in {"mark", "weak"}
Doomed == phase = "sweep" \/ (phase = "clear" /\ ~minor)

\* Marked, or assumed live because it is old in a minor collection.
Shaded(v) == v \in marked \/ (minor /\ IsOld(v))
Survivors == Alloc \ Swept

\* Everything an allocated object or a root refers to is allocated.
GraphSafe ==
  /\ roots \subseteq Alloc
  /\ Arena \subseteq roots
  /\ \A o \in Alloc : Edges(o) \subseteq Alloc
  /\ \A o \in Alloc : \A e \in weak[o] : {e[1], e[2]} \ {None} \subseteq Alloc

\* A destroyed object holds nothing, and a struct only exists for its kind.
ShapeOfObjects ==
  /\ \A o \in Obj : gen[o] = "free" =>
       kind[o] = "ordinary" /\ proto[o] = None /\ slots[o] = {}
  /\ \A o \in Obj : kind[o] \in VisibleKinds
  /\ \A o \in Obj : inner[o] # {} => kind[o] = "collection"
  /\ \A o \in Obj : weak[o] # {} => kind[o] = "weak"

\* weak_containers holds exactly the containers that will still exist.
TrackedExact ==
  tracked = {o \in Alloc : kind[o] \in TrackedKinds /\ (Doomed => o \notin Swept)}

\* The remembered set holds old objects, all those the barrier had to record
\* unless a major collection is due; a minor one never starts when it is.
RememberedExact ==
  /\ \A o \in remembered : IsOld(o)
  /\ phase # "run" /\ minor => ~forceMajor
  /\ phase = "run" \/ minor =>
       \A o \in Obj : IsOld(o) =>
         \/ o \in remembered \/ forceMajor
         \/ \A v \in slots[o] \union {proto[o]} : ~IsYoung(v)

\* The tricolour invariant: roots and the contents of remembered objects are
\* shaded, and so is what a black object refers to.
MarkSound ==
  Marking =>
    /\ marked \subseteq Alloc /\ gray \subseteq marked
    /\ \A v \in roots : Shaded(v)
    /\ \A v \in marked \ gray : \A x \in Children(v) : Shaded(x)
    /\ minor => \A o \in remembered : \A x \in Children(o) : Shaded(x)
    /\ phase = "weak" /\ minor =>
         \A o \in tracked : IsOld(o) => \A x \in inner[o] : Shaded(x)

\* Once the weak entries are purged, survivors refer to survivors only.
SweepSound ==
  Doomed =>
    /\ roots \subseteq Survivors
    /\ \A o \in Survivors : Edges(o) \subseteq Survivors
    /\ \A o \in Survivors : \A e \in weak[o] : {e[1], e[2]} \ {None} \subseteq Survivors

\* The worklist and the marks are empty when no marking needs them, and after
\* a minor sweep nothing is young.
Quiescent ==
  /\ ~Marking => gray = {}
  /\ phase = "run" \/ (phase = "clear" /\ minor) => marked = {}
  /\ phase = "sweep" /\ ~minor => remembered = {}
  /\ phase = "clear" /\ minor => \A o \in Obj : ~IsYoung(o)

IInv ==
  /\ TypeOK /\ GraphSafe /\ ShapeOfObjects /\ TrackedExact
  /\ RememberedExact /\ MarkSound /\ SweepSound /\ Quiescent
-----------------------------------------------------------------------------
(* The inductive invariant behind MajorIsPrecise. It needs no condition on  *)
(* the heap.                                                                *)

\* Intrinsics and closures are live without a mark.
Lasting == Arena \union Clo

\* What a major collection has to mark at least: the roots, what is scanned
\* from there, and the values of registered containers whose key is live.
Kept(L) ==
  /\ roots \subseteq L
  /\ \A v \in L : Children(v) \subseteq L
  /\ \A w \in tracked : \A e \in weak[w] :
       e[1] \in L \union Lasting /\ e[2] # None => e[2] \in L \union Lasting

\* A registered container is allocated, and one that is left survives.
TrackedAlive ==
  /\ tracked \subseteq Alloc
  /\ Doomed => tracked \intersect Swept = {}

\* A major mark phase is complete up to its worklist, and marks no more than
\* it has to.
MarkExact ==
  Marking /\ ~minor =>
    /\ gray \subseteq marked /\ roots \subseteq marked
    /\ \A v \in marked \ gray : Children(v) \subseteq marked
    /\ \A L \in SUBSET Val : Kept(L) => marked \subseteq L

\* When it is over, that is so for what the program can reach.
SweepExact ==
  phase \in {"clear", "sweep"} /\ ~minor =>
    \A L \in SUBSET Val :
      ClosedFor(L, Alloc) /\ ClosureKeysLive(L, Alloc) => marked \subseteq L

\* No marks are left from an earlier collection.
Unmarked == phase = "run" \/ (phase = "clear" /\ minor) => marked = {}

PreciseInv == TypeOK /\ TrackedAlive /\ MarkExact /\ SweepExact /\ Unmarked
=============================================================================
