---------------------------- MODULE InlineCaches -----------------------------
(* Hidden classes and inline caches.                                          *)
(*                                                                            *)
(* An ordinary object keeps its properties in two parallel arrays, slots and  *)
(* attrs; which key has which slot is said by its shape, shared by all the    *)
(* objects that added the same keys in the same order. A property access in   *)
(* the bytecode owns a cache from shapes to slots. The interpreter fills the  *)
(* caches of reads and writes; it answers reads from them, and the JIT        *)
(* answers both. A cache is never invalidated: a hit is right only as long as *)
(* the shape says everything the hit relies on.                               *)
(*                                                                            *)
(* A hit changes nothing but a register, so it is no step of this module: the *)
(* properties quantify over every read that could be made in a state. Slots   *)
(* count from 1 here and from 0 in the code.                                  *)
EXTENDS Naturals, Sequences, SequencesExt, FiniteSets

CONSTANTS
    Objects,       \* ordinary objects: no arrays, proxies or namespaces
    Keys,          \* property names, "length" and "size" excepted
    Values,        \* what a data property may hold
    Holders,       \* accessor holders: the get/set pair an accessor slot boxes
    GetSites,      \* property reads in the bytecode
    SetSites,      \* property writes in the bytecode
    SiteKeys,      \* the names a site is used with: one if it is not computed
    Receivers,     \* objects the sites are reached with
    Attributes,    \* attributes the program defines properties with
    Lockable,      \* objects it may seal, freeze or make non-extensible
    NoObject, NoKey, NoProto,
    PolyCap,       \* POLY_CAP: entries before a site is megamorphic
    ProtoDepth,    \* PROTO_IC_DEPTH: links a prototype hit may cross
    MaxShapes,     \* bound: shapes the manager creates
    MaxCalls       \* bound: getters and setters running at once

Sites == GetSites \cup SetSites

\* The JIT asks the cache of an access only if its key is not computed.
Static(s) == Cardinality(SiteKeys[s]) = 1

ASSUME ConstantsFit ==
    /\ IsFiniteSet(Objects) /\ NoObject \notin Objects
    /\ IsFiniteSet(Keys) /\ NoKey \notin Keys
    /\ Values \cap Holders = {}
    /\ GetSites \cap SetSites = {}
    /\ SiteKeys \in [Sites -> SUBSET Keys]
    /\ PolyCap \in Nat \ {0, 1} /\ ProtoDepth \in Nat \ {0}
    /\ MaxShapes \in Nat \ {0} /\ MaxCalls \in Nat

VARIABLES
    shapes,   \* the shape manager's tree: shapes[1] is the root
    obj,      \* the objects
    ic,       \* the cache of each site
    calls     \* accesses waiting for the getter or setter they called

vars == <<shapes, obj, ic, calls>>

ShapeIds == 1..Len(shapes)
Edge == [Keys -> 0..MaxShapes]
Attr == [accessor : BOOLEAN, writable : BOOLEAN, configurable : BOOLEAN]
Plain == [accessor |-> FALSE, writable |-> TRUE, configurable |-> TRUE]
Entry == [shape : 1..MaxShapes, slot : 1..Cardinality(Keys)]
Guard == [obj : Objects, shape : 1..MaxShapes]
Stages == {"uninitialized", "monomorphic", "polymorphic", "megamorphic"}

ASSUME ProgramFits ==
    Attributes \subseteq Attr /\ Lockable \cup Receivers \subseteq Objects

NoCache == [state |-> "uninitialized", key |-> NoKey, entries |-> {},
            mega |-> FALSE, proto |-> NoProto]

-----------------------------------------------------------------------------
(* Shapes and objects.                                                        *)

Order(o) == shapes[obj[o].shape].order
Has(o, k) == k \in Range(Order(o))
Position(order, k) == CHOOSE i \in DOMAIN order : order[i] = k
SlotOf(o, k) == Position(Order(o), k)
Data(o, i) == ~obj[o].attrs[i].accessor

\* The prototype chain of o, o first. Cycles are refused when a prototype is
\* set, so the walk never meets MAX_PROTO_DEPTH here.
Chain(o) ==
    LET up[n \in 0..Cardinality(Objects)] ==
          IF n = 0 THEN <<o>>
          ELSE LET p == obj[Last(up[n-1])].proto
               IN  IF p = NoObject THEN up[n-1] ELSE Append(up[n-1], p)
    IN  up[Cardinality(Objects)]

\* Where k is found from o: the holder and its slot, as a set of at most one.
FindProperty(o, k) ==
    LET up == Chain(o)
        i == SelectInSeq(up, LAMBDA p : Has(p, k))
    IN  IF i = 0 THEN {} ELSE {[holder |-> up[i], slot |-> SlotOf(up[i], k)]}

\* The shape reached from s by adding k: the cached edge, or a new shape whose
\* new key has the next free slot.
Known(s, k) == shapes[s].next[k] # 0
Target(s, k) == IF Known(s, k) THEN shapes[s].next[k] ELSE Len(shapes) + 1

TransitionAdd(s, k) ==
    /\ Target(s, k) <= MaxShapes
    /\ shapes' = IF Known(s, k) THEN shapes
                 ELSE Append([shapes EXCEPT ![s].next[k] = Target(s, k)],
                             [order |-> Append(shapes[s].order, k),
                              next |-> [x \in Keys |-> 0]])

\* Removing k always makes a shape of its own, with the slots packed.
TransitionDelete(s, k) ==
    /\ Len(shapes) < MaxShapes
    /\ shapes' = Append(shapes, [order |-> RemoveAt(shapes[s].order,
                                                    Position(shapes[s].order, k)),
                                 next |-> [x \in Keys |-> 0]])

\* A new own property of o, in the slot after the others.
AddProperty(o, k, v, a) ==
    /\ obj[o].extensible
    /\ TransitionAdd(obj[o].shape, k)
    /\ obj' = [obj EXCEPT ![o].shape = Target(obj[o].shape, k),
                          ![o].slots = Append(@, v),
                          ![o].attrs = Append(@, a)]

\* An existing slot is rewritten where it is: the shape stays.
Rewrite(o, i, v, a) ==
    /\ obj' = [obj EXCEPT ![o].slots[i] = v, ![o].attrs[i] = a]
    /\ UNCHANGED shapes

-----------------------------------------------------------------------------
(* The caches.                                                                *)

\* What the own part of a cache answers for key k and shape s: a slot or nothing.
Lookup(c, k, s) ==
    IF c.key # k \/ (c.state = "megamorphic" /\ ~c.mega) THEN {}
    ELSE {e.slot : e \in {x \in c.entries : x.shape = s}}

\* slip: only the holder is compared
ProtoHoldsAtHolder(c, o, k) ==
    /\ c.key = k /\ c.proto # NoProto
    /\ c.proto.recv = obj[o].shape
    /\ LET up == Tail(Chain(o))
           n == Len(c.proto.guards)
       IN  /\ n <= Len(up)
           /\ c.proto.guards[n] = [obj |-> up[n], shape |-> obj[up[n]].shape]

\* The prototype part answers if the receiver has the shape recorded and every
\* link up to the holder is the same object, of the same shape.
ProtoHolds(c, o, k) ==
    /\ c.key = k /\ c.proto # NoProto
    /\ c.proto.recv = obj[o].shape
    /\ LET up == Tail(Chain(o))
       IN  /\ Len(c.proto.guards) <= Len(up)
           /\ \A i \in DOMAIN c.proto.guards :
                c.proto.guards[i] = [obj |-> up[i], shape |-> obj[up[i]].shape]

\* Where a read of o.k at cache c is answered from, if it hits.
Hit(c, o, k) ==
    IF Lookup(c, k, obj[o].shape) # {}
      THEN {[holder |-> o, slot |-> i] : i \in Lookup(c, k, obj[o].shape)}
    ELSE IF ProtoHolds(c, o, k)
      THEN {[holder |-> c.proto.guards[Len(c.proto.guards)].obj,
             slot |-> c.proto.slot]}
    ELSE {}

\* slip: the JIT does not look at writable
JitStoreAny(c, o, k) == {i \in Lookup(c, k, obj[o].shape) : Data(o, i)}

\* A store from the JIT needs an own, writable data slot.
JitStore(c, o, k) ==
    {i \in Lookup(c, k, obj[o].shape) : Data(o, i) /\ obj[o].attrs[i].writable}

\* slip: another key takes the site over and keeps its entries
ForgetNothing(c, k) == [c EXCEPT !.key = k]

\* A site met with another key k is dead from then on, for its own key too.
Forget(c, k) == [c EXCEPT !.state = "megamorphic", !.entries = {}, !.mega = FALSE]

\* The caches that recording slot i of shape s for key k may leave. A full
\* polymorphic site becomes a map; without memory for the map the site is dead,
\* and without memory for an entry the entry is left out.
Record(c, k, s, i) ==
    LET e == [shape |-> s, slot |-> i]
        d == [c EXCEPT !.key = k]
        full == Cardinality(c.entries) >= PolyCap
    IN  IF c.key \notin {k, NoKey} THEN {Forget(c, k)}
        ELSE IF c.state = "megamorphic" THEN
          {d} \cup {[d EXCEPT !.entries = {x \in @ : x.shape # s} \cup {e}] :
                     m \in {c.mega} \cap {TRUE}}
        ELSE IF \E x \in c.entries : x.shape = s THEN {d}
        ELSE IF full THEN
          {[d EXCEPT !.state = "megamorphic", !.entries = {}],
           [d EXCEPT !.state = "megamorphic", !.entries = @ \cup {e}, !.mega = TRUE]}
        ELSE {[d EXCEPT !.entries = @ \cup {e},
                        !.state = IF c.entries = {} THEN "monomorphic"
                                  ELSE "polymorphic"]}

\* Recording a property found n links up the chain of o.
ProtoRecord(c, k, o, n, i) ==
    LET up == Tail(Chain(o))
        guards == [j \in 1..n |-> [obj |-> up[j], shape |-> obj[up[j]].shape]]
    IN  IF c.key \notin {k, NoKey} THEN c
        ELSE [c EXCEPT !.key = k,
                !.proto = [recv |-> obj[o].shape, slot |-> i, guards |-> guards]]

\* What a read of o.k that missed leaves in its cache, from the objects as they
\* are after the read: accessors are not recorded.
AfterRead(c, o, k) ==
    LET up == Chain(o)
        n == SelectInSeq(up, LAMBDA p : Has(p, k))
        holder == up[n]
        i == SlotOf(holder, k)
    IN  IF n = 0 \/ n - 1 > ProtoDepth THEN {c}
        ELSE IF ~Data(holder, i) THEN {c}
        ELSE IF n = 1 THEN Record(c, k, obj[o].shape, i)
        ELSE {ProtoRecord(c, k, o, n - 1, i)}

\* What a write of k leaves, the object having shape s with these keys after the
\* write: its own slot, accessor or not.
AfterWrite(c, k, s, order) ==
    IF k \in Range(order) THEN Record(c, k, s, Position(order, k))
    ELSE {c}

-----------------------------------------------------------------------------
(* Types and the initial state: empty objects over the root shape.            *)

TypeOK ==
    /\ shapes \in Seq([order : Seq(Keys), next : Edge])
    /\ Len(shapes) \in 1..MaxShapes
    /\ \A s \in ShapeIds : IsInjective(shapes[s].order)
    /\ \A o \in Objects :
         /\ obj[o].shape \in ShapeIds
         /\ obj[o].slots \in Seq(Values \cup Holders)
         /\ obj[o].attrs \in Seq(Attr)
         /\ Len(obj[o].slots) = Len(Order(o)) /\ Len(obj[o].attrs) = Len(Order(o))
         /\ \A i \in DOMAIN obj[o].slots :
              obj[o].attrs[i].accessor <=> obj[o].slots[i] \in Holders
         /\ obj[o].proto \in Objects \cup {NoObject}
         /\ obj[o].extensible \in BOOLEAN
    /\ \A c \in Range(ic) :
         /\ c.state \in Stages /\ c.key \in Keys \cup {NoKey}
         /\ c.entries \subseteq Entry /\ c.mega \in BOOLEAN
         /\ c.proto # NoProto =>
              /\ c.proto.guards \in Seq(Guard)
              /\ Len(c.proto.guards) \in 1..ProtoDepth
    /\ calls \in Seq([site : Sites, obj : Objects, key : Keys])
    /\ Len(calls) <= MaxCalls

Init ==
    /\ shapes = <<[order |-> <<>>, next |-> [k \in Keys |-> 0]]>>
    /\ obj = [o \in Objects |->
               [shape |-> 1, slots |-> <<>>, attrs |-> <<>>,
                proto |-> NoObject, extensible |-> TRUE]]
    /\ ic = [s \in Sites |-> NoCache]
    /\ calls = <<>>

-----------------------------------------------------------------------------
(* Reads and writes.                                                          *)

Call(s, o, k) ==
    /\ Len(calls) < MaxCalls
    /\ calls' = Append(calls, [site |-> s, obj |-> o, key |-> k])

\* A read that misses: a data property, or none, is answered and recorded at once.
ReadMiss(s, o, k) ==
    /\ Hit(ic[s], o, k) = {}
    /\ \A h \in FindProperty(o, k) : Data(h.holder, h.slot)
    /\ \E c \in AfterRead(ic[s], o, k) : ic' = [ic EXCEPT ![s] = c]
    /\ UNCHANGED <<shapes, obj, calls>>

\* A read that misses and finds an accessor runs user code first.
ReadAccessor(s, o, k) ==
    /\ Hit(ic[s], o, k) = {}
    /\ \E h \in FindProperty(o, k) : ~Data(h.holder, h.slot)
    /\ Call(s, o, k)
    /\ UNCHANGED <<shapes, obj, ic>>

\* [[Set]] that ends in a store: on the own slot, or on a new own property when
\* the property is inherited or nowhere. An inherited read-only one stops it.
Store(o, k, v) ==
    /\ \A h \in FindProperty(o, k) :
         Data(h.holder, h.slot) /\ obj[h.holder].attrs[h.slot].writable
    /\ \/ Has(o, k) /\ Rewrite(o, SlotOf(o, k), v, obj[o].attrs[SlotOf(o, k)])
       \/ ~Has(o, k) /\ AddProperty(o, k, v, Plain)

Write(s, o, k, v) ==
    /\ Store(o, k, v)
    /\ \E c \in AfterWrite(ic[s], k, obj'[o].shape, Order(o)') :
         ic' = [ic EXCEPT ![s] = c]
    /\ UNCHANGED calls

\* [[Set]] that fails is silent in sloppy code, and recorded all the same.
WriteRefused(s, o, k) ==
    /\ \/ \E h \in FindProperty(o, k) :
            ~Data(h.holder, h.slot) \/ ~obj[h.holder].attrs[h.slot].writable
       \/ ~Has(o, k) /\ ~obj[o].extensible
    /\ UNCHANGED <<shapes, obj, calls>>
    /\ \E c \in AfterWrite(ic[s], k, obj[o].shape, Order(o)) : ic' = [ic EXCEPT ![s] = c]

\* [[Set]] that finds an accessor calls its setter.
WriteAccessor(s, o, k) ==
    /\ \E h \in FindProperty(o, k) : ~Data(h.holder, h.slot)
    /\ Call(s, o, k)
    /\ UNCHANGED <<shapes, obj, ic>>

\* The getter or setter called last returns: its access records what the
\* objects look like now, or nothing if it threw.
Return ==
    /\ calls # <<>>
    /\ calls' = Front(calls)
    /\ UNCHANGED <<shapes, obj>>
    /\ LET r == Last(calls)
           after == IF r.site \in GetSites THEN AfterRead(ic[r.site], r.obj, r.key)
                    ELSE AfterWrite(ic[r.site], r.key, obj[r.obj].shape, Order(r.obj))
       IN  \E c \in after \cup {ic[r.site]} : ic' = [ic EXCEPT ![r.site] = c]

\* A store made by the JIT: the slot the cache gives, or [[Set]] in full. It
\* records nothing.
JitWrite(s, o, k, v) ==
    /\ Static(s)
    /\ \/ \E i \in JitStore(ic[s], o, k) : Rewrite(o, i, v, obj[o].attrs[i])
       \/ JitStore(ic[s], o, k) = {} /\ Store(o, k, v)
    /\ UNCHANGED <<ic, calls>>

-----------------------------------------------------------------------------
(* Reshaping objects.                                                         *)

\* slip: the last slot is dropped, whichever was deleted
DeleteLastSlot(o, k) ==
    /\ Has(o, k) /\ obj[o].attrs[SlotOf(o, k)].configurable
    /\ TransitionDelete(obj[o].shape, k)
    /\ obj' = [obj EXCEPT ![o].shape = Len(shapes) + 1,
                          ![o].slots = Front(@), ![o].attrs = Front(@)]
    /\ UNCHANGED <<ic, calls>>

\* slip: the attributes are not packed
DeleteKeepsAttrs(o, k) ==
    /\ Has(o, k) /\ obj[o].attrs[SlotOf(o, k)].configurable
    /\ TransitionDelete(obj[o].shape, k)
    /\ obj' = [obj EXCEPT ![o].shape = Len(shapes) + 1,
                          ![o].slots = RemoveAt(@, SlotOf(o, k))]
    /\ UNCHANGED <<ic, calls>>

\* delete o.k: not a non-configurable property.
Delete(o, k) ==
    /\ Has(o, k) /\ obj[o].attrs[SlotOf(o, k)].configurable
    /\ TransitionDelete(obj[o].shape, k)
    /\ obj' = [obj EXCEPT ![o].shape = Len(shapes) + 1,
                          ![o].slots = RemoveAt(@, SlotOf(o, k)),
                          ![o].attrs = RemoveAt(@, SlotOf(o, k))]
    /\ UNCHANGED <<ic, calls>>

\* May slot i of o be redefined as data v with attributes a?
DataAllowed(o, i, v, a) ==
    LET cur == obj[o].attrs[i]
    IN  \/ cur.configurable
        \/ /\ ~cur.accessor /\ ~a.configurable
           /\ ~cur.writable => ~a.writable /\ obj[o].slots[i] = v

\* Object.defineProperty with a value: in place, or a new property.
DefineOwnData(o, k, v, a) ==
    /\ ~a.accessor
    /\ \/ /\ Has(o, k) /\ DataAllowed(o, SlotOf(o, k), v, a)
          /\ Rewrite(o, SlotOf(o, k), v, a)
       \/ ~Has(o, k) /\ AddProperty(o, k, v, a)
    /\ UNCHANGED <<ic, calls>>

\* slip: the property is removed and added again
DefineOwnAccessorAnew(o, k, h, a) ==
    /\ a.accessor
    /\ \/ /\ Has(o, k) /\ obj[o].attrs[SlotOf(o, k)].configurable
          /\ Len(shapes) < MaxShapes
          /\ LET order == Append(Remove(Order(o), k), k)
             IN  /\ shapes' = Append(shapes, [order |-> order,
                                              next |-> [x \in Keys |-> 0]])
                 /\ obj' = [obj EXCEPT
                      ![o].shape = Len(shapes) + 1,
                      ![o].slots = Append(RemoveAt(@, SlotOf(o, k)), h),
                      ![o].attrs = Append(RemoveAt(@, SlotOf(o, k)), a)]
       \/ ~Has(o, k) /\ AddProperty(o, k, h, a)
    /\ UNCHANGED <<ic, calls>>

\* Object.defineProperty with a getter or setter. A configurable property, data
\* or accessor, is turned into the accessor in place; redefining one that is not
\* configurable succeeds only if it changes nothing.
DefineOwnAccessor(o, k, h, a) ==
    /\ a.accessor
    /\ \/ /\ Has(o, k) /\ obj[o].attrs[SlotOf(o, k)].configurable
          /\ Rewrite(o, SlotOf(o, k), h, a)
       \/ ~Has(o, k) /\ AddProperty(o, k, h, a)
    /\ UNCHANGED <<ic, calls>>

\* Object.setPrototypeOf: not on a non-extensible object, never into a cycle.
SetProto(o, p) ==
    /\ obj[o].extensible /\ p # obj[o].proto
    /\ p # NoObject => o \notin Range(Chain(p))
    /\ obj' = [obj EXCEPT ![o].proto = p]
    /\ UNCHANGED <<shapes, ic, calls>>

Locked(attrs, writable) ==
    [i \in DOMAIN attrs |->
       [attrs[i] EXCEPT !.configurable = FALSE, !.writable = @ /\ writable]]

PreventExtensions(o) ==
    /\ obj' = [obj EXCEPT ![o].extensible = FALSE]
    /\ UNCHANGED <<shapes, ic, calls>>

Seal(o) ==
    /\ obj' = [obj EXCEPT ![o].extensible = FALSE, ![o].attrs = Locked(@, TRUE)]
    /\ UNCHANGED <<shapes, ic, calls>>

Freeze(o) ==
    /\ obj' = [obj EXCEPT ![o].extensible = FALSE, ![o].attrs = Locked(@, FALSE)]
    /\ UNCHANGED <<shapes, ic, calls>>

-----------------------------------------------------------------------------
Access ==
    \/ \E s \in GetSites, o \in Receivers : \E k \in SiteKeys[s] :
         ReadMiss(s, o, k) \/ ReadAccessor(s, o, k)
    \/ \E s \in SetSites, o \in Receivers : \E k \in SiteKeys[s] :
         \/ WriteRefused(s, o, k) \/ WriteAccessor(s, o, k)
         \/ \E v \in Values : Write(s, o, k, v) \/ JitWrite(s, o, k, v)
    \/ Return

Reshape ==
    \E o \in Objects :
      \/ \E k \in Keys, v \in Values, a \in Attributes : DefineOwnData(o, k, v, a)
      \/ \E k \in Keys, h \in Holders, a \in Attributes : DefineOwnAccessor(o, k, h, a)
      \/ \E k \in Keys : Delete(o, k)
      \/ \E p \in Objects \cup {NoObject} : SetProto(o, p)
      \/ o \in Lockable /\ (PreventExtensions(o) \/ Seal(o) \/ Freeze(o))

Next == Access \/ Reshape

Spec == Init /\ [][Next]_vars

-----------------------------------------------------------------------------
(* Properties.                                                                *)

\* A hit is where the full lookup would have ended: the cache of a shape's slots
\* stays right although it is never invalidated, through prototypes too
\* (opGetProp, opGetPropDyn and the JIT all trust it).
HitsFindTheProperty ==
    \A s \in Sites, o \in Objects : \A k \in SiteKeys[s] :
      Hit(ic[s], o, k) \subseteq FindProperty(o, k)

\* A read answered by the interpreter's cache is answered as without it: from
\* the slot of a data property. An accessor's slot holds its get/set pair, and
\* the answer is what the getter returns.
ReadsAreCurrent ==
    \A s \in GetSites, o \in Objects : \A k \in SiteKeys[s] :
      \A h \in Hit(ic[s], o, k) :
        h \in FindProperty(o, k) /\ Data(h.holder, h.slot)

\* The own property k of o, as a set of at most one.
Property(o, k) ==
    IF Has(o, k) THEN {[value |-> obj[o].slots[SlotOf(o, k)],
                        attr |-> obj[o].attrs[SlotOf(o, k)]]}
    ELSE {}

Contents(o, k) == {p.value : p \in Property(o, k)}

\* No step changes two properties, on whatever objects: shapes are shared and
\* slots are packed, but no write, definition or deletion moves a value to
\* another key or object. Seal and freeze change attributes, never a value.
OnePropertyAtATime ==
    [][Cardinality({x \in Objects \X Keys :
                      Contents(x[1], x[2])' # Contents(x[1], x[2])}) <= 1]_vars

\* What was locked stays locked, on every path, the JIT's store included: a
\* non-configurable property is never removed, reopened or turned into the other
\* kind, a read-only one keeps its value, and a non-extensible object gains no
\* property and keeps its prototype.
LockedStaysLocked ==
    [][\A o \in Objects :
         /\ ~obj[o].extensible =>
              /\ ~obj'[o].extensible /\ obj'[o].proto = obj[o].proto
              /\ \A k \in Keys : Has(o, k)' => Has(o, k)
         /\ \A k \in Keys : \A p \in Property(o, k) :
              ~p.attr.configurable =>
                \E q \in Property(o, k)' :
                  /\ ~q.attr.configurable /\ q.attr.accessor = p.attr.accessor
                  /\ (p.attr.accessor \/ ~p.attr.writable) =>
                       q.value = p.value
                  /\ ~p.attr.writable => ~q.attr.writable]_vars

\* The order of an object's own keys is the order in which they were added:
\* redefining a property does not move it, deleting one moves no other.
KeysKeepTheirOrder ==
    [][\A o \in Objects : \A k1, k2 \in Keys :
         /\ Has(o, k1) /\ Has(o, k2) /\ SlotOf(o, k1) < SlotOf(o, k2)
         /\ Has(o, k1)' /\ Has(o, k2)'
         => (SlotOf(o, k1) < SlotOf(o, k2))']_vars
=============================================================================
