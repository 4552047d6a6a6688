-------------------------- MODULE InlineCachesProofs --------------------------
(***************************************************************************)
(* The caches of property accesses are never invalidated and stay right,   *)
(* properties travel with their keys, and what is locked stays locked, for *)
(* any number of objects, keys, shapes and sites: proofs of the safety     *)
(* properties of InlineCaches.                                             *)
(***************************************************************************)
EXTENDS InlineCaches, TLAPS, FiniteSetTheorems

-----------------------------------------------------------------------------
(* The inductive invariant.                                                 *)

Slots == 1 .. Cardinality(Keys)

ShapeRec == [order : Seq(Keys), next : Edge]

ObjRec == [shape : 1 .. MaxShapes, slots : Seq(Values \cup Holders), attrs : Seq(Attr),
           proto : Objects \cup {NoObject}, extensible : BOOLEAN]

ProtoRec == [recv : 1 .. MaxShapes, slot : Slots, guards : Seq(Guard)]

CacheRec == [state : Stages, key : Keys \cup {NoKey}, entries : SUBSET Entry,
             mega : BOOLEAN, proto : {NoProto} \cup ProtoRec]

CallRec == [site : Sites, obj : Objects, key : Keys]

\* The tree: an edge leads to the shape with one more key.
TreeRight(sh) ==
    /\ sh \in Seq(ShapeRec) /\ Len(sh) \in 1 .. MaxShapes
    /\ \A s \in DOMAIN sh :
         /\ IsInjective(sh[s].order)
         /\ \A k \in Keys : sh[s].next[k] # 0 =>
              /\ sh[s].next[k] \in DOMAIN sh
              /\ sh[sh[s].next[k]].order = Append(sh[s].order, k)

\* An object has a slot and attributes for each key of its shape.
ObjectRight(r, sh) ==
    /\ r \in ObjRec /\ r.shape \in DOMAIN sh
    /\ Len(r.slots) = Len(sh[r.shape].order)
    /\ Len(r.attrs) = Len(sh[r.shape].order)
    /\ \A i \in DOMAIN r.slots : r.attrs[i].accessor <=> r.slots[i] \in Holders

ObjectsRight ==
    /\ obj \in [Objects -> ObjRec]
    /\ \A o \in Objects : ObjectRight(obj[o], shapes)

\* Shape s keeps key k in slot i; shape s has no key k.
Keeps(sh, s, k, i) ==
    s \in DOMAIN sh /\ i \in DOMAIN sh[s].order /\ sh[s].order[i] = k

Lacks(sh, s, k) == s \in DOMAIN sh /\ k \notin Range(sh[s].order)

\* What a cache says of shapes is true: an entry names the slot of its key, and
\* the prototype part shapes without the key up to the one that has it.
ProtoRight(c, sh) ==
    LET n == Len(c.proto.guards)
    IN  /\ n \in 1 .. ProtoDepth
        /\ Lacks(sh, c.proto.recv, c.key)
        /\ \A j \in 1 .. (n - 1) : Lacks(sh, c.proto.guards[j].shape, c.key)
        /\ Keeps(sh, c.proto.guards[n].shape, c.key, c.proto.slot)

CacheRight(c, sh) ==
    /\ c \in CacheRec
    /\ c.key = NoKey => c.entries = {} /\ c.proto = NoProto
    /\ \A e \in c.entries : Keeps(sh, e.shape, c.key, e.slot)
    /\ c.proto # NoProto => ProtoRight(c, sh)

CachesRight ==
    /\ ic \in [Sites -> CacheRec]
    /\ \A s \in Sites : CacheRight(ic[s], shapes)

CallsRight == calls \in Seq(CallRec) /\ Len(calls) <= MaxCalls

IInv == TreeRight(shapes) /\ ObjectsRight /\ CachesRight /\ CallsRight

-----------------------------------------------------------------------------
(* Induction up to a bound, from the sizes of intervals.                    *)

LEMMA Downset ==
    ASSUME NEW m \in Nat, NEW A \in SUBSET (0 .. m), 0 \in A,
           \A a \in A : 0 .. a \subseteq A,
           \A n \in 0 .. (m - 1) : n \in A => n + 1 \in A
    PROVE  A = 0 .. m
<1>1. /\ IsFiniteSet(0 .. m) /\ Cardinality(0 .. m) = m + 1
      /\ IsFiniteSet(A) /\ Cardinality(A) \in Nat /\ Cardinality(A) <= m + 1
      /\ Cardinality(A) = m + 1 => A = 0 .. m
  <2>1. IsFiniteSet(0 .. m) /\ Cardinality(0 .. m) = m + 1
    BY FS_Interval
  <2> QED
    BY <2>1, FS_Subset, FS_CardinalityType
<1>2. PICK c \in Nat : c = Cardinality(A)
  BY <1>1
<1>3. SUFFICES ASSUME c <= m PROVE FALSE
  BY <1>1, <1>2
<1>4. c >= 1
  BY <1>1, <1>2, FS_EmptySet
<1>5. \A b \in -1 .. m : IsFiniteSet(0 .. b) /\ Cardinality(0 .. b) = b + 1
  <2> TAKE b \in -1 .. m
  <2>1. 0 \in Int /\ b \in Int
    OBVIOUS
  <2> QED
    BY <2>1, FS_Interval
<1>6. c - 1 \in A
  <2>1. SUFFICES ASSUME c - 1 \notin A PROVE FALSE
    OBVIOUS
  <2>2. ASSUME NEW a \in A PROVE a \in 0 .. (c - 2)
    BY <1>4, <2>1
  <2>3. A \subseteq 0 .. (c - 2) /\ c - 2 \in -1 .. m
    BY <1>3, <1>4, <2>2
  <2>4. Cardinality(0 .. (c - 2)) = c - 1 /\ IsFiniteSet(0 .. (c - 2))
    BY <1>3, <1>4, <1>5
  <2>5. Cardinality(A) <= Cardinality(0 .. (c - 2))
    BY <2>3, <2>4, FS_Subset
  <2> QED
    BY <1>2, <2>4, <2>5
<1>7. c \in A
  BY <1>3, <1>4, <1>6
<1>8. Cardinality(0 .. c) = c + 1 /\ 0 .. c \subseteq A
  BY <1>3, <1>5, <1>7
<1>9. Cardinality(0 .. c) <= Cardinality(A)
  BY <1>1, <1>8, FS_Subset
<1> QED
  BY <1>2, <1>8, <1>9

LEMMA Induct ==
    ASSUME NEW m \in Nat, NEW S, 0 \in S,
           \A n \in 0 .. (m - 1) : n \in S => n + 1 \in S
    PROVE  0 .. m \subseteq S
<1> DEFINE A == {n \in 0 .. m : \A i \in 0 .. n : i \in S}
<1>1. A \in SUBSET (0 .. m) /\ 0 \in A
  OBVIOUS
<1>2. \A a \in A : 0 .. a \subseteq A
  OBVIOUS
<1>3. ASSUME NEW n \in 0 .. (m - 1), n \in A PROVE n + 1 \in A
  <2>1. \A i \in 0 .. n : i \in S
    BY <1>3
  <2>2. n + 1 \in S
    BY <2>1
  <2> QED
    BY <2>1, <2>2
<1>4. A = 0 .. m
  <2> HIDE DEF A
  <2> QED
    BY <1>1, <1>2, <1>3, Downset
<1> QED
  BY <1>4

-----------------------------------------------------------------------------
(* The prototype chain.                                                     *)

Linked == \A o \in Objects : obj[o].proto \in Objects \cup {NoObject}

\* The next link, and the chains that begin with o.
Up(u) == LET p == obj[Last(u)].proto
         IN  IF p = NoObject THEN u ELSE Append(u, p)

ChainsFrom(o) == {u \in Seq(Objects) : Len(u) >= 1 /\ u[1] = o}

LEMMA ChainsFromIs ==
    \A o, u : u \in ChainsFrom(o) <=> u \in Seq(Objects) /\ Len(u) >= 1 /\ u[1] = o
BY DEF ChainsFrom

LEMMA UpChain ==
    ASSUME Linked, NEW o \in Objects, NEW u \in ChainsFrom(o)
    PROVE  Up(u) \in ChainsFrom(o)
<1>1. u \in Seq(Objects) /\ Len(u) >= 1 /\ u[1] = o
  BY DEF ChainsFrom
<1>2. Last(u) \in Objects
  BY <1>1 DEF Last
<1>3. obj[Last(u)].proto \in Objects \cup {NoObject}
  BY <1>2 DEF Linked
<1>4. ASSUME NEW p \in Objects PROVE Append(u, p) \in ChainsFrom(o)
  <2>1. PICK w : w = Append(u, p)
    OBVIOUS
  <2>2. w \in Seq(Objects) /\ Len(w) = Len(u) + 1 /\ w[1] = u[1]
    BY <1>1, <2>1
  <2>3. w \in ChainsFrom(o)
    BY <1>1, <2>2, ChainsFromIs
  <2> QED
    BY <2>1, <2>3
<1> QED
  BY <1>3, <1>4 DEF Up

\* Chain(o) is what its recursive definition says it is.
Climb(f, o, m) == f = [n \in 0 .. m |-> IF n = 0 THEN <<o>> ELSE Up(f[n - 1])]

LEMMA ChainIs ==
    ASSUME NEW o
    PROVE  Chain(o) = (CHOOSE f : Climb(f, o, Cardinality(Objects)))[Cardinality(Objects)]
BY DEF Chain, Climb, Up

LEMMA ClimbTyped ==
    ASSUME Linked, NEW o \in Objects, NEW m \in Nat, NEW f, Climb(f, o, m)
    PROVE  \A n \in 0 .. m : f[n] \in ChainsFrom(o)
<1> DEFINE S == {n \in 0 .. m : f[n] \in ChainsFrom(o)}
<1>1. /\ f[0] = <<o>>
      /\ \A n \in 0 .. (m - 1) : f[n + 1] = Up(f[n])
  BY DEF Climb
<1>2. 0 \in S
  <2>1. PICK w : w = <<o>>
    OBVIOUS
  <2>2. w \in Seq(Objects) /\ Len(w) = 1 /\ w[1] = o
    BY <2>1
  <2>3. w \in ChainsFrom(o)
    BY <2>2, ChainsFromIs
  <2> QED
    BY <1>1, <2>1, <2>3
<1>3. \A n \in 0 .. (m - 1) : n \in S => n + 1 \in S
  BY <1>1, UpChain
<1> HIDE DEF S
<1>4. 0 .. m \subseteq S
  BY <1>2, <1>3, Induct
<1> QED
  BY <1>4 DEF S

LEMMA ClimbExists ==
    ASSUME NEW o, NEW m \in Nat
    PROVE  \E f : Climb(f, o, m)
<1> DEFINE S == {n \in 0 .. m : \E f : Climb(f, o, n)}
<1>1. 0 \in S
  <2> DEFINE g == [n \in 0 .. 0 |-> <<o>>]
  <2>1. Climb(g, o, 0)
    BY DEF Climb
  <2> QED
    BY <2>1
<1>2. ASSUME NEW n \in 0 .. (m - 1), n \in S PROVE n + 1 \in S
  <2>1. PICK f : Climb(f, o, n)
    BY <1>2
  <2> DEFINE g == [i \in 0 .. (n + 1) |-> IF i = n + 1 THEN Up(f[n]) ELSE f[i]]
  <2>2. /\ f[0] = <<o>>
        /\ \A i \in 1 .. n : f[i] = Up(f[i - 1])
    BY <2>1 DEF Climb
  <2>3. ASSUME NEW i \in 0 .. (n + 1)
        PROVE  g[i] = IF i = 0 THEN <<o>> ELSE Up(g[i - 1])
    <3>1. CASE i = n + 1
      BY <3>1
    <3>2. CASE i = 0
      BY <2>2, <3>2
    <3>3. CASE i \in 1 .. n
      BY <2>2, <3>3
    <3> QED
      BY <3>1, <3>2, <3>3
  <2>4. g = [i \in 0 .. (n + 1) |-> g[i]]
    OBVIOUS
  <2> HIDE DEF g
  <2>5. Climb(g, o, n + 1)
    BY <2>3, <2>4 DEF Climb
  <2> QED
    BY <2>5
<1> HIDE DEF S
<1>3. 0 .. m \subseteq S
  BY <1>1, <1>2, Induct
<1> QED
  BY <1>3 DEF S

LEMMA ChainBegins ==
    ASSUME Linked, NEW o \in Objects
    PROVE  Chain(o) \in Seq(Objects) /\ Len(Chain(o)) >= 1 /\ Chain(o)[1] = o
<1>1. PICK m \in Nat : m = Cardinality(Objects)
  BY ConstantsFit, FS_CardinalityType
<1>2. PICK f : f = CHOOSE g : Climb(g, o, m)
  OBVIOUS
<1>3. Climb(f, o, m)
  BY <1>2, ClimbExists
<1>4. f[m] \in ChainsFrom(o)
  BY <1>3, ClimbTyped
<1>5. Chain(o) = f[m]
  BY <1>1, <1>2, ChainIs
<1> QED
  BY <1>4, <1>5 DEF ChainsFrom

-----------------------------------------------------------------------------
(* Where a property is found.                                               *)

LEMMA LeastMember ==
    ASSUME NEW m \in Nat, NEW T \in SUBSET (1 .. m), T # {}
    PROVE  Min(T) \in T /\ \A y \in T : Min(T) <= y
<1>1. \E x \in T : \A y \in T : x <= y
  <2>1. SUFFICES ASSUME \A x \in T : \E y \in T : ~(x <= y) PROVE FALSE
    OBVIOUS
  <2> DEFINE S == {n \in 0 .. m : \A t \in T : t > n}
  <2>2. 0 \in S
    OBVIOUS
  <2>3. ASSUME NEW n \in 0 .. (m - 1), n \in S PROVE n + 1 \in S
    <3>1. \A t \in T : t > n
      BY <2>3
    <3>2. n + 1 \notin T
      BY <2>1, <3>1
    <3> QED
      BY <3>1, <3>2
  <2> HIDE DEF S
  <2>4. 0 .. m \subseteq S
    BY <2>2, <2>3, Induct
  <2>5. \A t \in T : t > m
    BY <2>4 DEF S
  <2>6. PICK t : t \in T
    OBVIOUS
  <2>7. t \in 1 .. m /\ t > m
    BY <2>5, <2>6
  <2> QED
    BY <2>7
<1> QED
  BY <1>1 DEF Min

LEMMA PositionIs ==
    ASSUME NEW order, NEW k
    PROVE  /\ k \in Range(order) =>
                Position(order, k) \in DOMAIN order /\ order[Position(order, k)] = k
           /\ \A i \in DOMAIN order : IsInjective(order) /\ order[i] = k =>
                Position(order, k) = i
BY DEF Range, Position, IsInjective

\* Search(up, k) is the first object of up that has k.
Search(up, k) == SelectInSeq(up, LAMBDA p : Has(p, k))

FoundAt(up, k, n) ==
    n \in 1 .. Len(up) /\ Has(up[n], k) /\ \A i \in 1 .. (n - 1) : ~Has(up[i], k)

LEMMA SearchIs ==
    ASSUME NEW up \in Seq(Objects), NEW k
    PROVE  /\ \/ FoundAt(up, k, Search(up, k))
              \/ Search(up, k) = 0 /\ \A i \in 1 .. Len(up) : ~Has(up[i], k)
           /\ \A n : FoundAt(up, k, n) => Search(up, k) = n
<1> DEFINE I == {i \in 1 .. Len(up) : Has(up[i], k)}
<1>1. Search(up, k) = IF I # {} THEN Min(I) ELSE 0
  BY DEF Search, SelectInSeq
<1>2. I # {} => Min(I) \in I /\ \A y \in I : Min(I) <= y
  <2>1. Len(up) \in Nat /\ I \in SUBSET (1 .. Len(up))
    OBVIOUS
  <2> HIDE DEF I
  <2> QED
    BY <2>1, LeastMember
<1>3. CASE I = {}
  BY <1>1, <1>3 DEF FoundAt
<1>4. CASE I # {}
  <2>1. PICK n : n = Search(up, k)
    OBVIOUS
  <2>2. n \in 1 .. Len(up) /\ Has(up[n], k) /\ \A y \in I : n <= y
    BY <1>1, <1>2, <1>4, <2>1
  <2>3. \A i \in 1 .. (n - 1) : ~Has(up[i], k)
    BY <2>2
  <2>4. ASSUME NEW j, FoundAt(up, k, j) PROVE j = n
    <3>1. j \in 1 .. Len(up) /\ Has(up[j], k) /\ \A i \in 1 .. (j - 1) : ~Has(up[i], k)
      BY <2>4 DEF FoundAt
    <3>2. n <= j
      BY <2>2, <3>1
    <3>3. ~(n < j)
      BY <2>2, <3>1
    <3> QED
      BY <2>2, <3>1, <3>2, <3>3
  <2> QED
    BY <2>1, <2>2, <2>3, <2>4 DEF FoundAt
<1> QED
  BY <1>3, <1>4

LEMMA FoundProperty ==
    ASSUME Linked, NEW o \in Objects, NEW k, NEW n, FoundAt(Chain(o), k, n)
    PROVE  FindProperty(o, k) = {[holder |-> Chain(o)[n], slot |-> SlotOf(Chain(o)[n], k)]}
<1>1. Chain(o) \in Seq(Objects)
  BY ChainBegins
<1>2. Search(Chain(o), k) = n /\ n # 0
  BY <1>1, SearchIs DEF FoundAt
<1> QED
  BY <1>2 DEF FindProperty, Search

LEMMA FoundOwn ==
    ASSUME Linked, NEW o \in Objects, NEW k, Has(o, k)
    PROVE  FindProperty(o, k) = {[holder |-> o, slot |-> SlotOf(o, k)]}
<1>1. Chain(o) \in Seq(Objects) /\ Len(Chain(o)) >= 1 /\ Chain(o)[1] = o
  BY ChainBegins
<1>2. FoundAt(Chain(o), k, 1)
  BY <1>1 DEF FoundAt
<1> QED
  BY <1>1, <1>2, FoundProperty

LEMMA InvLinked == ASSUME ObjectsRight PROVE Linked
BY DEF ObjectsRight, ObjRec, Linked

-----------------------------------------------------------------------------
(* A hit is where the lookup would end.                                     *)

LEMMA KeptIsOwn ==
    ASSUME TreeRight(shapes), NEW o \in Objects, NEW k, NEW i,
           Keeps(shapes, obj[o].shape, k, i)
    PROVE  Has(o, k) /\ SlotOf(o, k) = i
<1>1. i \in DOMAIN Order(o) /\ Order(o)[i] = k
  BY DEF Keeps, Order
<1>2. IsInjective(Order(o))
  BY DEF Keeps, TreeRight, Order
<1> QED
  BY <1>1, <1>2, PositionIs DEF Has, SlotOf, Range

LEMMA HitFound ==
    ASSUME TreeRight(shapes), ObjectsRight, NEW c, CacheRight(c, shapes),
           NEW o \in Objects, NEW k
    PROVE  Hit(c, o, k) \subseteq FindProperty(o, k)
<1>1. Linked
  BY InvLinked
<1>2. ASSUME NEW i \in Lookup(c, k, obj[o].shape)
      PROVE  [holder |-> o, slot |-> i] \in FindProperty(o, k)
  <2>1. PICK e \in c.entries : e.shape = obj[o].shape /\ e.slot = i /\ c.key = k
    BY <1>2 DEF Lookup
  <2>2. Has(o, k) /\ SlotOf(o, k) = i
    BY <2>1, KeptIsOwn DEF CacheRight
  <2> QED
    BY <1>1, <2>2, FoundOwn
<1>3. ASSUME ProtoHolds(c, o, k)
      PROVE  [holder |-> c.proto.guards[Len(c.proto.guards)].obj, slot |-> c.proto.slot]
                \in FindProperty(o, k)
  <2> DEFINE chain == Chain(o)
             up == Tail(chain)
             guards == c.proto.guards
             n == Len(guards)
  <2>1. /\ c.key = k /\ c.proto.recv = obj[o].shape /\ n <= Len(up)
        /\ \A i \in DOMAIN guards : guards[i] = [obj |-> up[i], shape |-> obj[up[i]].shape]
    BY <1>3 DEF ProtoHolds
  <2>2. ProtoRight(c, shapes) /\ c.proto \in ProtoRec
    BY <1>3 DEF ProtoHolds, CacheRight, CacheRec
  <2>3. guards \in Seq(Guard) /\ n \in 1 .. ProtoDepth
    BY <2>2 DEF ProtoRight, ProtoRec
  <2>4. chain \in Seq(Objects) /\ Len(chain) >= 1 /\ chain[1] = o
    BY <1>1, ChainBegins
  <2> HIDE DEF chain, guards
  <2>5. Len(up) = Len(chain) - 1 /\ \A i \in 1 .. Len(up) : up[i] = chain[i + 1]
    BY <2>4
  <2>6. \A i \in 1 .. n : guards[i].obj = chain[i + 1]
                           /\ guards[i].shape = obj[chain[i + 1]].shape
    <3>1. DOMAIN guards = 1 .. n
      BY <2>3
    <3> QED
      BY <2>1, <2>3, <2>5, <3>1
  <2>6a. n \in 1 .. n /\ \A j \in 1 .. (n - 1) : j \in 1 .. n
    BY <2>3, ConstantsFit
  <2>7. \A i \in 1 .. n : chain[i + 1] \in Objects
    BY <2>1, <2>3, <2>4, <2>5
  <2>8. /\ Lacks(shapes, obj[o].shape, k)
        /\ \A j \in 1 .. (n - 1) : Lacks(shapes, guards[j].shape, k)
        /\ Keeps(shapes, guards[n].shape, k, c.proto.slot)
    BY <2>1, <2>2 DEF ProtoRight, guards
  <2>9. ~Has(chain[1], k)
    BY <2>4, <2>8 DEF Lacks, Has, Order
  <2>10. ASSUME NEW j \in 1 .. (n - 1) PROVE ~Has(chain[j + 1], k)
    <3>1. guards[j].shape = obj[chain[j + 1]].shape
      BY <2>6, <2>6a
    <3> QED
      BY <2>8, <3>1 DEF Lacks, Has, Order
  <2>11. Has(chain[n + 1], k) /\ SlotOf(chain[n + 1], k) = c.proto.slot
    <3>1. guards[n].shape = obj[chain[n + 1]].shape /\ chain[n + 1] \in Objects
      BY <2>6, <2>6a, <2>7
    <3> QED
      BY <2>8, <3>1, KeptIsOwn
  <2>12. ASSUME NEW i \in 1 .. n PROVE ~Has(chain[i], k)
    <3>1. CASE i = 1
      BY <2>9, <3>1
    <3>2. CASE i # 1
      <4>1. i - 1 \in 1 .. (n - 1) /\ (i - 1) + 1 = i
        BY <2>3, <3>2
      <4> QED
        BY <2>10, <4>1
    <3> QED
      BY <3>1, <3>2
  <2>13. FoundAt(chain, k, n + 1)
    BY <2>1, <2>3, <2>4, <2>5, <2>11, <2>12 DEF FoundAt
  <2>14. FindProperty(o, k) = {[holder |-> chain[n + 1], slot |-> c.proto.slot]}
    BY <1>1, <2>11, <2>13, FoundProperty DEF chain
  <2>15. guards[n].obj = chain[n + 1]
    BY <2>6, <2>6a
  <2> QED
    BY <2>14, <2>15 DEF guards
<1> QED
  BY <1>2, <1>3 DEF Hit

-----------------------------------------------------------------------------
(* What recording leaves in a cache.                                        *)

LEMMA OrderFits ==
    ASSUME NEW sh, TreeRight(sh), NEW s \in DOMAIN sh
    PROVE  /\ sh[s] \in ShapeRec /\ s \in 1 .. MaxShapes
           /\ sh[s].order \in Seq(Keys) /\ DOMAIN sh[s].order \subseteq Slots
           /\ Len(sh[s].order) \in Nat /\ DOMAIN sh[s].order = 1 .. Len(sh[s].order)
<1>1. sh \in Seq(ShapeRec) /\ Len(sh) \in 1 .. MaxShapes /\ IsInjective(sh[s].order)
  BY DEF TreeRight
<1>2. sh[s] \in ShapeRec /\ s \in 1 .. MaxShapes
  BY <1>1, ConstantsFit
<1>3. PICK order \in Seq(Keys) : order = sh[s].order
  BY <1>2 DEF ShapeRec
<1>4. PICK n \in Nat : n = Len(order) /\ order \in [1 .. n -> Keys] /\ DOMAIN order = 1 .. n
  BY <1>3
<1>5. order \in Injection(1 .. n, Keys)
  BY <1>1, <1>3, <1>4 DEF Injection, IsInjective
<1>6. Cardinality(1 .. n) <= Cardinality(Keys)
  BY <1>5, ConstantsFit, FS_Injection
<1>7. Cardinality(1 .. n) = n
  <2>1. 1 \in Int /\ n \in Int
    OBVIOUS
  <2> QED
    BY <2>1, FS_Interval
<1>8. Cardinality(Keys) \in Nat
  BY ConstantsFit, FS_CardinalityType
<1>9. DOMAIN order \subseteq Slots
  BY <1>4, <1>6, <1>7, <1>8 DEF Slots
<1> QED
  BY <1>2, <1>3, <1>4, <1>9

LEMMA ForgetRight ==
    ASSUME NEW sh, NEW c, CacheRight(c, sh), NEW k
    PROVE  CacheRight(Forget(c, k), sh)
<1>1. /\ Forget(c, k) \in CacheRec /\ Forget(c, k).key = c.key
      /\ Forget(c, k).entries = {} /\ Forget(c, k).proto = c.proto
  BY DEF Forget, CacheRight, CacheRec, Stages
<1> QED
  BY <1>1 DEF CacheRight, ProtoRight

\* A cache that takes over key k keeps entries that are right for it.
LEMMA TakenOver ==
    ASSUME NEW sh, NEW c, CacheRight(c, sh), NEW k \in Keys, c.key \in {k, NoKey},
           NEW d \in CacheRec, d.key = k, d.proto = c.proto,
           \A e \in d.entries : e \in c.entries \/ Keeps(sh, e.shape, k, e.slot)
    PROVE  CacheRight(d, sh)
<1>1. k # NoKey
  BY ConstantsFit
<1>2. CASE c.key = k
  BY <1>1, <1>2 DEF CacheRight, ProtoRight
<1>3. CASE c.key = NoKey
  BY <1>1, <1>3 DEF CacheRight, ProtoRight
<1> QED
  BY <1>2, <1>3

LEMMA RecordRight ==
    ASSUME NEW sh, TreeRight(sh), NEW c, CacheRight(c, sh), NEW k \in Keys,
           NEW s, NEW i, Keeps(sh, s, k, i), NEW d \in Record(c, k, s, i)
    PROVE  CacheRight(d, sh)
<1> DEFINE e == [shape |-> s, slot |-> i]
           t == [c EXCEPT !.key = k]
<1>1. c \in CacheRec
  BY DEF CacheRight
<1>2. e \in Entry /\ Keeps(sh, e.shape, k, e.slot)
  BY OrderFits DEF Keeps, Entry, Slots
<1>3. CASE c.key \notin {k, NoKey}
  BY <1>3, ForgetRight DEF Record
<1>4. CASE c.key \in {k, NoKey}
  <2>1. \/ d = t
        \/ d = [t EXCEPT !.entries = {x \in @ : x.shape # s} \cup {e}]
        \/ d = [t EXCEPT !.state = "megamorphic", !.entries = {}]
        \/ d = [t EXCEPT !.state = "megamorphic", !.entries = @ \cup {e}, !.mega = TRUE]
        \/ d = [t EXCEPT !.entries = @ \cup {e}, !.state = "monomorphic"]
        \/ d = [t EXCEPT !.entries = @ \cup {e}, !.state = "polymorphic"]
    BY <1>4 DEF Record
  <2> HIDE DEF e
  <2>1a. /\ t \in CacheRec /\ t.key = k /\ t.proto = c.proto /\ t.entries = c.entries
         /\ t.entries \subseteq Entry /\ t.state \in Stages /\ t.mega \in BOOLEAN
    BY <1>1 DEF CacheRec
  <2> HIDE DEF t
  <2>1b. /\ d.state \in Stages /\ d.mega \in BOOLEAN /\ d.entries \subseteq Entry
         /\ d.key = t.key /\ d.proto = t.proto
         /\ d = [t EXCEPT !.state = d.state, !.entries = d.entries, !.mega = d.mega]
         /\ \A x \in d.entries : x \in c.entries \/ x = e
    <3>0. t = [t EXCEPT !.state = t.state, !.entries = t.entries, !.mega = t.mega]
      BY <2>1a DEF CacheRec
    <3>1. CASE d = t
      BY <3>0, <3>1, <2>1a
    <3>2. CASE d = [t EXCEPT !.entries = {x \in @ : x.shape # s} \cup {e}]
      BY <3>2, <2>1a, <1>2 DEF CacheRec
    <3>3. CASE d = [t EXCEPT !.state = "megamorphic", !.entries = {}]
      BY <3>3, <2>1a DEF CacheRec, Stages
    <3>4. CASE d = [t EXCEPT !.state = "megamorphic", !.entries = @ \cup {e}, !.mega = TRUE]
      BY <3>4, <2>1a, <1>2 DEF CacheRec, Stages
    <3>5. CASE d = [t EXCEPT !.entries = @ \cup {e}, !.state = "monomorphic"]
      BY <3>5, <2>1a, <1>2 DEF CacheRec, Stages
    <3>6. CASE d = [t EXCEPT !.entries = @ \cup {e}, !.state = "polymorphic"]
      BY <3>6, <2>1a, <1>2 DEF CacheRec, Stages
    <3> QED
      BY <2>1, <3>1, <3>2, <3>3, <3>4, <3>5, <3>6
  <2>2. /\ d \in CacheRec /\ d.key = k /\ d.proto = c.proto
        /\ \A x \in d.entries : x \in c.entries \/ x = e
    BY <2>1a, <2>1b DEF CacheRec
  <2> QED
    BY <1>2, <1>4, <2>2, TakenOver
<1> QED
  BY <1>3, <1>4

LEMMA AfterWriteRight ==
    ASSUME NEW sh, TreeRight(sh), NEW c, CacheRight(c, sh), NEW k \in Keys,
           NEW s \in DOMAIN sh, NEW d \in AfterWrite(c, k, s, sh[s].order)
    PROVE  CacheRight(d, sh)
<1>1. CASE k \in Range(sh[s].order)
  <2>1. Keeps(sh, s, k, Position(sh[s].order, k))
    BY <1>1, PositionIs DEF Keeps
  <2> QED
    BY <1>1, <2>1, RecordRight DEF AfterWrite
<1>2. CASE k \notin Range(sh[s].order)
  BY <1>2 DEF AfterWrite
<1> QED
  BY <1>1, <1>2

LEMMA ProtoRecordRight ==
    ASSUME TreeRight(shapes), ObjectsRight, NEW c, CacheRight(c, shapes),
           NEW k \in Keys, NEW o \in Objects, NEW n \in 1 .. ProtoDepth,
           FoundAt(Chain(o), k, n + 1)
    PROVE  CacheRight(ProtoRecord(c, k, o, n, SlotOf(Chain(o)[n + 1], k)), shapes)
<1> DEFINE chain == Chain(o)
           up == Tail(chain)
           guards == [j \in 1 .. n |-> [obj |-> up[j], shape |-> obj[up[j]].shape]]
           slot == SlotOf(chain[n + 1], k)
           pr == [recv |-> obj[o].shape, slot |-> slot, guards |-> guards]
           d == ProtoRecord(c, k, o, n, slot)
<1>1. CASE c.key \notin {k, NoKey}
  BY <1>1 DEF ProtoRecord
<1>2. CASE c.key \in {k, NoKey}
  <2>1. d = [c EXCEPT !.key = k, !.proto = pr]
    BY <1>2 DEF ProtoRecord
  <2>2. /\ chain \in Seq(Objects) /\ Len(chain) >= 1 /\ chain[1] = o
        /\ n + 1 \in 1 .. Len(chain) /\ Has(chain[n + 1], k)
        /\ \A i \in 1 .. n : ~Has(chain[i], k)
    BY InvLinked, ChainBegins DEF FoundAt
  <2> HIDE DEF chain, slot
  <2>3. Len(up) = Len(chain) - 1 /\ \A i \in 1 .. Len(up) : up[i] = chain[i + 1]
    BY <2>2
  <2>4. \A j \in 1 .. n : up[j] = chain[j + 1] /\ chain[j + 1] \in Objects
    BY <2>2, <2>3
  <2> HIDE DEF up
  <2>5. \A x \in Objects : obj[x].shape \in DOMAIN shapes /\ obj[x].shape \in 1 .. MaxShapes
    BY OrderFits DEF ObjectsRight, ObjectRight
  <2>6. guards \in [1 .. n -> Guard]
    BY <2>4, <2>5 DEF Guard
  <2>7. guards \in Seq(Guard) /\ Len(guards) = n
    BY <2>6, ConstantsFit
  <2>8. \A j \in 1 .. n : guards[j].shape = obj[chain[j + 1]].shape
    BY <2>4
  <2>9. \A x \in Objects : ~Has(x, k) => Lacks(shapes, obj[x].shape, k)
    BY <2>5 DEF Has, Order, Lacks
  <2>10. Lacks(shapes, obj[o].shape, k)
    BY <2>2, <2>9
  <2>11. ASSUME NEW j \in 1 .. (n - 1) PROVE Lacks(shapes, guards[j].shape, k)
    <3>1. j \in 1 .. n /\ j + 1 \in 1 .. n
      BY ConstantsFit
    <3>2. ~Has(chain[j + 1], k) /\ chain[j + 1] \in Objects
      BY <2>2, <2>4, <3>1
    <3> HIDE DEF guards
    <3> QED
      BY <2>8, <2>9, <3>1, <3>2
  <2>12. Keeps(shapes, guards[n].shape, k, slot)
    <3>1. n \in 1 .. n
      BY ConstantsFit
    <3>2. chain[n + 1] \in Objects /\ guards[n].shape = obj[chain[n + 1]].shape
      BY <2>4, <2>8, <3>1
    <3>3. slot \in DOMAIN Order(chain[n + 1]) /\ Order(chain[n + 1])[slot] = k
      BY <2>2, PositionIs DEF Has, SlotOf, slot
    <3> HIDE DEF guards
    <3> QED
      BY <2>5, <3>2, <3>3 DEF Keeps, Order
  <2>13. slot \in Slots
    BY <2>12, OrderFits DEF Keeps
  <2> HIDE DEF guards
  <2>14. pr \in ProtoRec
    BY <2>5, <2>7, <2>13 DEF ProtoRec
  <2>15. d \in CacheRec /\ d.key = k /\ d.proto = pr /\ d.entries = c.entries
    BY <2>1, <2>14 DEF CacheRight, CacheRec
  <2>16. ProtoRight(d, shapes)
    BY <2>7, <2>10, <2>11, <2>12, <2>15 DEF ProtoRight
  <2>17. \A e \in d.entries : Keeps(shapes, e.shape, k, e.slot)
    BY <1>2, <2>15 DEF CacheRight
  <2>18. k # NoKey
    BY ConstantsFit
  <2> QED
    BY <2>15, <2>16, <2>17, <2>18 DEF CacheRight, d, slot, chain
<1> QED
  BY <1>1, <1>2

LEMMA AfterReadRight ==
    ASSUME TreeRight(shapes), ObjectsRight, NEW c, CacheRight(c, shapes),
           NEW k \in Keys, NEW o \in Objects, NEW d \in AfterRead(c, o, k)
    PROVE  CacheRight(d, shapes)
<1> DEFINE n == Search(Chain(o), k)
           i == SlotOf(Chain(o)[n], k)
<1>1. Chain(o) \in Seq(Objects) /\ Chain(o)[1] = o
  BY InvLinked, ChainBegins
<1>2. \/ d = c
      \/ n = 1 /\ d \in Record(c, k, obj[o].shape, i)
      \/ n \notin {0, 1} /\ n - 1 <= ProtoDepth /\ d = ProtoRecord(c, k, o, n - 1, i)
  <2>1. AfterRead(c, o, k) =
          IF n = 0 \/ n - 1 > ProtoDepth THEN {c}
          ELSE IF ~Data(Chain(o)[n], i) THEN {c}
          ELSE IF n = 1 THEN Record(c, k, obj[o].shape, i)
          ELSE {ProtoRecord(c, k, o, n - 1, i)}
    BY DEF AfterRead, Search
  <2>2. n \in Nat
    BY <1>1, SearchIs DEF FoundAt
  <2> HIDE DEF n, i
  <2>3. n - 1 > ProtoDepth \/ n - 1 <= ProtoDepth
    BY <2>2, ConstantsFit
  <2> QED
    BY <2>1, <2>3
<1>3. n # 0 => FoundAt(Chain(o), k, n)
  BY <1>1, SearchIs
<1>4. CASE n = 1 /\ d \in Record(c, k, obj[o].shape, i)
  <2>1. Has(o, k) /\ i = SlotOf(o, k)
    BY <1>1, <1>3, <1>4 DEF FoundAt
  <2>2. Keeps(shapes, obj[o].shape, k, i)
    BY <2>1, PositionIs DEF Has, SlotOf, Order, Keeps, ObjectsRight, ObjectRight
  <2> HIDE DEF n, i
  <2> QED
    BY <1>4, <2>2, RecordRight
<1>5. CASE n \notin {0, 1} /\ n - 1 <= ProtoDepth /\ d = ProtoRecord(c, k, o, n - 1, i)
  <2>1. n \in 1 .. Len(Chain(o)) /\ FoundAt(Chain(o), k, n)
    BY <1>3, <1>5 DEF FoundAt
  <2> DEFINE m == n - 1
  <2>2. m \in 1 .. ProtoDepth /\ m + 1 = n
    BY <1>1, <1>5, <2>1, ConstantsFit
  <2> HIDE DEF n
  <2>3. FoundAt(Chain(o), k, m + 1)
    BY <2>1, <2>2
  <2> HIDE DEF m
  <2>4. CacheRight(ProtoRecord(c, k, o, m, SlotOf(Chain(o)[m + 1], k)), shapes)
    BY <2>2, <2>3, ProtoRecordRight
  <2> QED
    BY <1>5, <2>2, <2>4 DEF m
<1> QED
  BY <1>2, <1>4, <1>5

-----------------------------------------------------------------------------
(* Longer and shorter sequences.                                            *)

\* t is s with x at its end; t is s without its element i.
Longer(s, t, x) ==
    Len(t) = Len(s) + 1 /\ t[Len(s) + 1] = x /\ \A j \in 1 .. Len(s) : t[j] = s[j]

Shorter(s, t, i) ==
    /\ Len(t) = Len(s) - 1
    /\ \A j \in 1 .. Len(t) : t[j] = IF j < i THEN s[j] ELSE s[j + 1]

LEMMA AppendIs ==
    ASSUME NEW S, NEW s \in Seq(S), NEW x \in S, NEW t, t = Append(s, x)
    PROVE  t \in Seq(S) /\ Longer(s, t, x)
BY DEF Longer

LEMMA RemoveAtIs ==
    ASSUME NEW S, NEW s \in Seq(S), NEW i \in 1 .. Len(s), NEW t, t = RemoveAt(s, i)
    PROVE  t \in Seq(S) /\ Shorter(s, t, i)
<1> DEFINE n == Len(s)
<1>1. PICK a : a = SubSeq(s, 1, i - 1)
  OBVIOUS
<1>2. PICK b : b = SubSeq(s, i + 1, n)
  OBVIOUS
<1>3. n \in Nat /\ i \in 1 .. n /\ \A j \in 1 .. n : s[j] \in S
  OBVIOUS
<1>4. a \in Seq(S) /\ Len(a) = i - 1 /\ \A j \in 1 .. (i - 1) : a[j] = s[j]
  BY <1>1
<1>5. b \in Seq(S) /\ Len(b) = n - i /\ \A j \in 1 .. (n - i) : b[j] = s[i + j]
  BY <1>2
<1>6. t = a \o b
  BY <1>1, <1>2 DEF RemoveAt
<1>7. /\ t \in Seq(S) /\ Len(t) = Len(a) + Len(b)
      /\ \A j \in 1 .. Len(a) : t[j] = a[j]
      /\ \A j \in (Len(a) + 1) .. (Len(a) + Len(b)) : t[j] = b[j - Len(a)]
  <2>1. a \in Seq(S) /\ b \in Seq(S)
    BY <1>4, <1>5
  <2> QED
    BY <2>1, <1>6
<1> HIDE DEF n
<1>8. Len(t) = n - 1
  BY <1>3, <1>4, <1>5, <1>7
<1>9. ASSUME NEW j \in 1 .. Len(t) PROVE t[j] = IF j < i THEN s[j] ELSE s[j + 1]
  <2>1. CASE j < i
    BY <2>1, <1>3, <1>4, <1>7, <1>8
  <2>2. CASE ~(j < i)
    <3>1. PICK m \in 1 .. (n - i) : m = j - (i - 1)
      BY <2>2, <1>3, <1>8
    <3>2. t[j] = b[m]
      BY <2>2, <3>1, <1>3, <1>4, <1>5, <1>7, <1>8
    <3>3. b[m] = s[i + m] /\ i + m = j + 1
      BY <3>1, <1>3, <1>5, <1>8
    <3> QED
      BY <2>2, <3>2, <3>3
  <2> QED
    BY <2>1, <2>2
<1> QED
  BY <1>7, <1>8, <1>9 DEF Shorter, n

LEMMA PositionLonger ==
    ASSUME NEW s \in Seq(Keys), NEW t \in Seq(Keys), IsInjective(s), NEW k,
           Longer(s, t, k), k \notin Range(s)
    PROVE  /\ IsInjective(t) /\ \A q : q \in Range(t) <=> q = k \/ q \in Range(s)
           /\ \A q \in Range(s) : Position(t, q) = Position(s, q)
<1>1. DOMAIN s = 1 .. Len(s) /\ DOMAIN t = 1 .. (Len(s) + 1) /\ Len(s) \in Nat
  BY DEF Longer
<1>2. /\ \A j \in DOMAIN s : j \in DOMAIN t /\ t[j] = s[j] /\ t[j] # k
      /\ Len(s) + 1 \in DOMAIN t /\ t[Len(s) + 1] = k
      /\ \A j \in DOMAIN t : j \in DOMAIN s \/ j = Len(s) + 1
  BY <1>1 DEF Longer, Range
<1>3. IsInjective(t)
  BY <1>2 DEF IsInjective
<1>4. \A q : q \in Range(t) <=> q = k \/ q \in Range(s)
  BY <1>2 DEF Range
<1>5. \A q \in Range(s) : Position(t, q) = Position(s, q)
  BY <1>2, <1>3, PositionIs
<1> QED
  BY <1>3, <1>4, <1>5

LEMMA PositionShorter ==
    ASSUME NEW s \in Seq(Keys), NEW t \in Seq(Keys), IsInjective(s), NEW i \in 1 .. Len(s),
           Shorter(s, t, i)
    PROVE  /\ IsInjective(t) /\ \A q : q \in Range(t) <=> q # s[i] /\ q \in Range(s)
           /\ \A q \in Range(t) :
                /\ Position(s, q) \in 1 .. Len(s) /\ Position(s, q) # i
                /\ Position(t, q) = IF Position(s, q) < i THEN Position(s, q)
                                    ELSE Position(s, q) - 1
<1>1. DOMAIN s = 1 .. Len(s) /\ DOMAIN t = 1 .. (Len(s) - 1) /\ Len(s) \in Nat
  BY DEF Shorter
<1> DEFINE old(j) == IF j < i THEN j ELSE j + 1
           new(j) == IF j < i THEN j ELSE j - 1
<1>2. \A j \in DOMAIN t : old(j) \in DOMAIN s /\ t[j] = s[old(j)] /\ old(j) # i
  BY <1>1 DEF Shorter
<1>3. \A j \in DOMAIN s : j # i => new(j) \in DOMAIN t /\ t[new(j)] = s[j]
  <2> TAKE j \in DOMAIN s
  <2> HAVE j # i
  <2>1. new(j) \in DOMAIN t /\ old(new(j)) = j
    BY <1>1
  <2> QED
    BY <2>1, <1>2
<1>4. IsInjective(t)
  <2>1. ASSUME NEW a \in DOMAIN t, NEW b \in DOMAIN t, t[a] = t[b] PROVE a = b
    <3>1. old(a) = old(b)
      BY <2>1, <1>2 DEF IsInjective
    <3> QED
      BY <3>1, <1>1
  <2> QED
    BY <2>1 DEF IsInjective
<1>5. \A q : q \in Range(t) <=> q # s[i] /\ q \in Range(s)
  <2>1. ASSUME NEW j \in DOMAIN t PROVE t[j] # s[i] /\ t[j] \in Range(s)
    BY <1>1, <1>2 DEF IsInjective, Range
  <2>2. ASSUME NEW j \in DOMAIN s, s[j] # s[i] PROVE s[j] \in Range(t)
    BY <2>2, <1>3 DEF Range
  <2> QED
    BY <2>1, <2>2 DEF Range
<1>6. ASSUME NEW q \in Range(t)
      PROVE  /\ Position(s, q) \in 1 .. Len(s) /\ Position(s, q) # i
             /\ Position(t, q) = new(Position(s, q))
  <2>1. PICK p : p = Position(s, q)
    OBVIOUS
  <2>2. p \in DOMAIN s /\ s[p] = q /\ p # i
    BY <2>1, <1>5, PositionIs
  <2>3. new(p) \in DOMAIN t /\ t[new(p)] = q
    BY <2>2, <1>3
  <2>4. Position(t, q) = new(p)
    <3> HIDE DEF new
    <3> QED
      BY <2>3, <1>4, PositionIs
  <2> QED
    BY <2>1, <2>2, <2>4, <1>1
<1> QED
  BY <1>4, <1>5, <1>6

-----------------------------------------------------------------------------
(* The tree of shapes grows and never changes.                              *)

Grows(sh, sh2) == \A s \in DOMAIN sh : s \in DOMAIN sh2 /\ sh2[s].order = sh[s].order

LEMMA CacheGrows ==
    ASSUME NEW sh, NEW sh2, Grows(sh, sh2), NEW c, CacheRight(c, sh)
    PROVE  CacheRight(c, sh2)
<1>1. /\ \A s, k, i : Keeps(sh, s, k, i) => Keeps(sh2, s, k, i)
      /\ \A s, k : Lacks(sh, s, k) => Lacks(sh2, s, k)
  BY DEF Grows, Keeps, Lacks
<1> QED
  BY <1>1 DEF CacheRight, ProtoRight

BareShape(order) == [order |-> order, next |-> [x \in Keys |-> 0]]

\* mid is sh but for edges to a shape with this order, to be put at the end.
AwaitsShape(sh, mid, order) ==
    /\ Len(mid) = Len(sh)
    /\ \A s \in DOMAIN sh :
         /\ mid[s].order = sh[s].order
         /\ \A k \in Keys :
              \/ mid[s].next[k] = sh[s].next[k]
              \/ mid[s].next[k] = Len(sh) + 1 /\ order = Append(sh[s].order, k)

HasShape(sh2, mid, order) == sh2 = Append(mid, BareShape(order))

LEMMA NewShape ==
    ASSUME NEW sh, TreeRight(sh), Len(sh) < MaxShapes,
           NEW order \in Seq(Keys), IsInjective(order),
           NEW mid \in Seq(ShapeRec), AwaitsShape(sh, mid, order),
           NEW sh2, HasShape(sh2, mid, order)
    PROVE  /\ TreeRight(sh2) /\ Grows(sh, sh2)
           /\ Len(sh) + 1 \in DOMAIN sh2 /\ sh2[Len(sh) + 1].order = order
<1> DEFINE n == Len(sh)
           rec == BareShape(order)
<1>2. rec \in ShapeRec /\ rec.order = order /\ \A x \in Keys : rec.next[x] = 0
  BY ConstantsFit DEF ShapeRec, Edge, BareShape
<1> HIDE DEF rec
<1>3. sh2 \in Seq(ShapeRec) /\ Longer(mid, sh2, rec)
  BY <1>2, AppendIs DEF rec, HasShape
<1>4. sh \in Seq(ShapeRec) /\ n \in 1 .. MaxShapes /\ DOMAIN sh = 1 .. n
  BY DEF TreeRight
<1> HIDE DEF n
<1>5. Len(sh2) = n + 1 /\ DOMAIN sh2 = 1 .. (n + 1) /\ sh2[n + 1] = rec
      /\ \A s \in 1 .. n : sh2[s] = mid[s]
  BY <1>3, <1>4 DEF Longer, n, AwaitsShape
<1>6. ASSUME NEW s \in DOMAIN sh2
      PROVE  /\ IsInjective(sh2[s].order)
             /\ \A k \in Keys : sh2[s].next[k] # 0 =>
                  /\ sh2[s].next[k] \in DOMAIN sh2
                  /\ sh2[sh2[s].next[k]].order = Append(sh2[s].order, k)
  <2>1. CASE s = n + 1
    BY <2>1, <1>2, <1>5
  <2>2. CASE s \in 1 .. n
    <3>1. sh2[s] = mid[s] /\ mid[s].order = sh[s].order /\ IsInjective(sh[s].order)
      BY <2>2, <1>4, <1>5 DEF TreeRight, AwaitsShape
    <3>2. ASSUME NEW k \in Keys, mid[s].next[k] # 0
          PROVE  /\ mid[s].next[k] \in DOMAIN sh2
                 /\ sh2[mid[s].next[k]].order = Append(sh[s].order, k)
      <4>1. CASE mid[s].next[k] = n + 1 /\ order = Append(sh[s].order, k)
        BY <4>1, <1>2, <1>4, <1>5
      <4>2. CASE mid[s].next[k] = sh[s].next[k]
        <5>1. PICK u : u = sh[s].next[k]
          OBVIOUS
        <5>2. u \in DOMAIN sh /\ sh[u].order = Append(sh[s].order, k)
          BY <5>1, <4>2, <3>2, <2>2, <1>4 DEF TreeRight
        <5>3. u \in DOMAIN sh2 /\ sh2[u] = mid[u] /\ mid[u].order = sh[u].order
          BY <5>2, <1>4, <1>5 DEF AwaitsShape
        <5> QED
          BY <5>1, <5>2, <5>3, <4>2
      <4> QED
        BY <4>1, <4>2, <2>2, <1>4 DEF n, AwaitsShape
    <3> QED
      BY <3>1, <3>2
  <2>3. s = n + 1 \/ s \in 1 .. n
    BY <1>4, <1>5
  <2> QED
    BY <2>1, <2>2, <2>3
<1>7. Len(sh2) \in 1 .. MaxShapes
  BY <1>4, <1>5, ConstantsFit DEF n
<1>8. Grows(sh, sh2)
  BY <1>4, <1>5 DEF Grows, AwaitsShape
<1>9. TreeRight(sh2)
  BY <1>3, <1>6, <1>7 DEF TreeRight
<1> QED
  BY <1>2, <1>5, <1>8, <1>9 DEF n

LEMMA AddedShape ==
    ASSUME TreeRight(shapes), NEW s \in DOMAIN shapes, NEW k \in Keys,
           k \notin Range(shapes[s].order), TransitionAdd(s, k)
    PROVE  /\ TreeRight(shapes') /\ Grows(shapes, shapes')
           /\ Target(s, k) \in DOMAIN shapes'
           /\ shapes'[Target(s, k)].order = Append(shapes[s].order, k)
<1>1. CASE Known(s, k)
  BY <1>1 DEF TransitionAdd, Target, Known, TreeRight, Grows
<1>2. CASE ~Known(s, k)
  <2> DEFINE n == Len(shapes)
  <2>1. PICK mid : mid = [shapes EXCEPT ![s].next[k] = n + 1]
    OBVIOUS
  <2>2. PICK order : order = Append(shapes[s].order, k)
    OBVIOUS
  <2>3. Target(s, k) = n + 1 /\ n + 1 <= MaxShapes /\ shapes' = Append(mid, BareShape(order))
    BY <1>2, <2>1, <2>2 DEF BareShape, TransitionAdd, Target
  <2>4. shapes \in Seq(ShapeRec) /\ n \in 1 .. MaxShapes /\ IsInjective(shapes[s].order)
        /\ shapes[s] \in ShapeRec /\ shapes[s].order \in Seq(Keys)
    BY OrderFits DEF TreeRight
  <2>5. order \in Seq(Keys) /\ Longer(shapes[s].order, order, k)
    BY <2>2, <2>4, AppendIs
  <2>6. IsInjective(order)
    BY <2>4, <2>5, PositionLonger
  <2> HIDE DEF n
  <2>7. n + 1 \in 0 .. MaxShapes /\ n < MaxShapes
    BY <2>3, <2>4, ConstantsFit
  <2>8. [shapes[s] EXCEPT !.next[k] = n + 1] \in ShapeRec
    BY <2>4, <2>7 DEF ShapeRec, Edge
  <2>9. /\ mid \in Seq(ShapeRec) /\ Len(mid) = n
        /\ \A u \in DOMAIN shapes : u # s => mid[u] = shapes[u]
        /\ mid[s] = [shapes[s] EXCEPT !.next[k] = n + 1]
    BY <2>1, <2>4, <2>8 DEF n
  <2>10. ASSUME NEW u \in DOMAIN shapes
         PROVE  /\ mid[u].order = shapes[u].order
                /\ \A q \in Keys :
                     \/ mid[u].next[q] = shapes[u].next[q]
                     \/ mid[u].next[q] = n + 1 /\ order = Append(shapes[u].order, q)
    <3>1. CASE u # s
      BY <3>1, <2>9
    <3>2. CASE u = s
      BY <3>2, <2>2, <2>4, <2>9 DEF ShapeRec, Edge
    <3> QED
      BY <3>1, <3>2
  <2>11. /\ TreeRight(shapes') /\ Grows(shapes, shapes')
         /\ n + 1 \in DOMAIN shapes' /\ shapes'[n + 1].order = order
    <3>1. AwaitsShape(shapes, mid, order) /\ HasShape(shapes', mid, order)
      BY <2>3, <2>9, <2>10 DEF AwaitsShape, HasShape, n
    <3>2. mid \in Seq(ShapeRec) /\ order \in Seq(Keys) /\ Len(shapes) < MaxShapes
      BY <2>5, <2>7, <2>9 DEF n
    <3>3. /\ TreeRight(shapes') /\ Grows(shapes, shapes')
          /\ Len(shapes) + 1 \in DOMAIN shapes' /\ shapes'[Len(shapes) + 1].order = order
      BY <2>6, <3>1, <3>2, NewShape
    <3> QED
      BY <3>3 DEF n
  <2> QED
    BY <2>2, <2>3, <2>11
<1> QED
  BY <1>1, <1>2

LEMMA DeletedShape ==
    ASSUME TreeRight(shapes), NEW s \in DOMAIN shapes, NEW k \in Keys,
           k \in Range(shapes[s].order), TransitionDelete(s, k)
    PROVE  /\ TreeRight(shapes') /\ Grows(shapes, shapes')
           /\ Len(shapes) + 1 \in DOMAIN shapes'
           /\ shapes'[Len(shapes) + 1].order
                = RemoveAt(shapes[s].order, Position(shapes[s].order, k))
<1>1. PICK i : i = Position(shapes[s].order, k)
  OBVIOUS
<1>2. PICK order : order = RemoveAt(shapes[s].order, i)
  OBVIOUS
<1>3. /\ Len(shapes) < MaxShapes
      /\ shapes' = Append(shapes, [order |-> order, next |-> [x \in Keys |-> 0]])
  BY <1>1, <1>2 DEF TransitionDelete
<1>4. /\ shapes[s].order \in Seq(Keys) /\ IsInjective(shapes[s].order)
      /\ i \in 1 .. Len(shapes[s].order) /\ shapes \in Seq(ShapeRec)
  BY <1>1, OrderFits, PositionIs DEF TreeRight
<1>5. order \in Seq(Keys) /\ Shorter(shapes[s].order, order, i)
  BY <1>2, <1>4, RemoveAtIs
<1>6. IsInjective(order)
  BY <1>4, <1>5, PositionShorter
<1>7. AwaitsShape(shapes, shapes, order) /\ HasShape(shapes', shapes, order)
  BY <1>3 DEF AwaitsShape, HasShape, BareShape
<1> QED
  BY <1>1, <1>2, <1>3, <1>4, <1>5, <1>6, <1>7, NewShape

-----------------------------------------------------------------------------
(* What a step does to the objects.                                         *)

\* A slot with value v and attributes a may hold w and b after the step.
Honours(v, a, w, b) ==
    ~a.configurable =>
      /\ ~b.configurable /\ b.accessor = a.accessor
      /\ (a.accessor \/ ~a.writable) => w = v
      /\ ~a.writable => ~b.writable

StaysLocked(o) ==
    /\ ~obj[o].extensible =>
         /\ ~obj'[o].extensible /\ obj'[o].proto = obj[o].proto
         /\ \A k \in Keys : Has(o, k)' => Has(o, k)
    /\ \A k \in Keys : Has(o, k) /\ ~obj[o].attrs[SlotOf(o, k)].configurable =>
         /\ Has(o, k)'
         /\ Honours(obj[o].slots[SlotOf(o, k)], obj[o].attrs[SlotOf(o, k)],
                    obj'[o].slots[SlotOf(o, k)'], obj'[o].attrs[SlotOf(o, k)'])

StaysOrdered(o) ==
    \A k1, k2 \in Keys :
      /\ Has(o, k1) /\ Has(o, k2) /\ SlotOf(o, k1) < SlotOf(o, k2)
      /\ Has(o, k1)' /\ Has(o, k2)'
      => (SlotOf(o, k1) < SlotOf(o, k2))'

StaysThere(o, k) == Contents(o, k)' = Contents(o, k)

Same(o) == obj'[o] = obj[o] /\ Order(o)' = Order(o)

Effect ==
    /\ TreeRight(shapes') /\ Grows(shapes, shapes') /\ ObjectsRight'
    /\ \A o \in Objects : StaysLocked(o) /\ StaysOrdered(o)
    /\ \E x, y : \A o \in Objects, k \in Keys : (o = x /\ k = y) \/ StaysThere(o, k)

LEMMA PropertyIs ==
    ASSUME NEW o, NEW k
    PROVE  /\ Has(o, k) =>
                /\ Property(o, k) = {[value |-> obj[o].slots[SlotOf(o, k)],
                                      attr |-> obj[o].attrs[SlotOf(o, k)]]}
                /\ Contents(o, k) = {obj[o].slots[SlotOf(o, k)]}
           /\ ~Has(o, k) => Property(o, k) = {} /\ Contents(o, k) = {}
           /\ Has(o, k)' =>
                /\ Property(o, k)' = {[value |-> obj'[o].slots[SlotOf(o, k)'],
                                       attr |-> obj'[o].attrs[SlotOf(o, k)']]}
                /\ Contents(o, k)' = {obj'[o].slots[SlotOf(o, k)']}
           /\ ~Has(o, k)' => Property(o, k)' = {} /\ Contents(o, k)' = {}
<1>1. /\ Has(o, k) => Property(o, k) = {[value |-> obj[o].slots[SlotOf(o, k)],
                                         attr |-> obj[o].attrs[SlotOf(o, k)]]}
      /\ ~Has(o, k) => Property(o, k) = {}
      /\ Has(o, k)' => Property(o, k)' = {[value |-> obj'[o].slots[SlotOf(o, k)'],
                                           attr |-> obj'[o].attrs[SlotOf(o, k)']]}
      /\ ~Has(o, k)' => Property(o, k)' = {}
  BY DEF Property
<1> DEFINE ValuesIn(P) == {p.value : p \in P}
<1>2. /\ Contents(o, k) = ValuesIn(Property(o, k))
      /\ Contents(o, k)' = ValuesIn(Property(o, k)')
  BY DEF Contents
<1>3. ASSUME NEW v, NEW a PROVE ValuesIn({[value |-> v, attr |-> a]}) = {v}
  OBVIOUS
<1>4. ValuesIn({}) = {}
  OBVIOUS
<1> HIDE DEF ValuesIn
<1> QED
  BY <1>1, <1>2, <1>3, <1>4

\* The slot of a key is a slot of its object.
LEMMA SlotThere ==
    ASSUME TreeRight(shapes), ObjectsRight, NEW o \in Objects
    PROVE  /\ obj[o].shape \in DOMAIN shapes /\ Order(o) \in Seq(Keys) /\ IsInjective(Order(o))
           /\ Order(o) = shapes[obj[o].shape].order
           /\ obj[o].slots \in Seq(Values \cup Holders) /\ obj[o].attrs \in Seq(Attr)
           /\ Len(obj[o].slots) = Len(Order(o)) /\ Len(obj[o].attrs) = Len(Order(o))
           /\ \A k : Has(o, k) =>
                SlotOf(o, k) \in 1 .. Len(Order(o)) /\ Order(o)[SlotOf(o, k)] = k
<1>1. obj[o] \in ObjRec /\ ObjectRight(obj[o], shapes)
  BY DEF ObjectsRight
<1>2. obj[o].shape \in DOMAIN shapes /\ Order(o) \in Seq(Keys) /\ IsInjective(Order(o))
  BY <1>1, OrderFits DEF ObjectRight, Order, TreeRight
<1>3. \A k : Has(o, k) => SlotOf(o, k) \in DOMAIN Order(o) /\ Order(o)[SlotOf(o, k)] = k
  BY PositionIs DEF Has, SlotOf
<1> QED
  BY <1>1, <1>2, <1>3 DEF ObjRec, ObjectRight, Order

LEMMA SameStays ==
    ASSUME NEW o \in Objects, Same(o)
    PROVE  StaysLocked(o) /\ StaysOrdered(o) /\ \A k \in Keys : StaysThere(o, k)
<1>1. obj'[o] = obj[o] /\ \A k : (Has(o, k)' <=> Has(o, k)) /\ SlotOf(o, k)' = SlotOf(o, k)
  BY DEF Same, Has, SlotOf
<1>2. StaysLocked(o)
  BY <1>1 DEF StaysLocked, Honours
<1>3. StaysOrdered(o)
  BY <1>1 DEF StaysOrdered
<1>4. ASSUME NEW k \in Keys PROVE StaysThere(o, k)
  <2>1. CASE Has(o, k)
    <3>1. Contents(o, k) = {obj[o].slots[SlotOf(o, k)]}
      BY <2>1, PropertyIs
    <3>2. Contents(o, k)' = {obj'[o].slots[SlotOf(o, k)']}
      BY <2>1, <1>1, PropertyIs
    <3> QED
      BY <3>1, <3>2, <1>1 DEF StaysThere
  <2>2. CASE ~Has(o, k)
    BY <2>2, <1>1, PropertyIs DEF StaysThere
  <2> QED
    BY <2>1, <2>2
<1> QED
  BY <1>2, <1>3, <1>4

LEMMA OneChanges ==
    ASSUME ObjectsRight, TreeRight(shapes'), Grows(shapes, shapes'),
           NEW o \in Objects, NEW r, obj' = [obj EXCEPT ![o] = r], ObjectRight(r, shapes'),
           StaysLocked(o), StaysOrdered(o),
           NEW k, \A q \in Keys : q = k \/ StaysThere(o, q)
    PROVE  Effect
<1>1. obj \in [Objects -> ObjRec] /\ r \in ObjRec
  BY DEF ObjectsRight, ObjectRight
<1>2. obj' \in [Objects -> ObjRec] /\ obj'[o] = r
      /\ \A x \in Objects \ {o} : obj'[x] = obj[x]
  BY <1>1
<1>3. ASSUME NEW x \in Objects \ {o}
      PROVE  ObjectRight(obj'[x], shapes') /\ Same(x)
  <2>1. ObjectRight(obj[x], shapes) /\ obj'[x] = obj[x]
    BY <1>2 DEF ObjectsRight
  <2> QED
    BY <2>1 DEF ObjectRight, Grows, Same, Order
<1>4. ObjectsRight'
  BY <1>2, <1>3 DEF ObjectsRight
<1>5. ASSUME NEW x \in Objects
      PROVE  /\ StaysLocked(x) /\ StaysOrdered(x)
             /\ \A q \in Keys : (x = o /\ q = k) \/ StaysThere(x, q)
  <2>1. CASE x = o
    BY <2>1
  <2>2. CASE x # o
    BY <2>2, <1>3, SameStays
  <2> QED
    BY <2>1, <2>2
<1> QED
  BY <1>4, <1>5 DEF Effect

Fits(v, a) == v \in Values \cup Holders /\ a \in Attr /\ (a.accessor <=> v \in Holders)

LEMMA RewriteEffect ==
    ASSUME TreeRight(shapes), ObjectsRight, NEW o \in Objects, NEW i \in 1 .. Len(Order(o)),
           NEW v, NEW a, Fits(v, a), Honours(obj[o].slots[i], obj[o].attrs[i], v, a),
           Rewrite(o, i, v, a)
    PROVE  Effect
<1> DEFINE r == [obj[o] EXCEPT !.slots[i] = v, !.attrs[i] = a]
<1>1. shapes' = shapes /\ obj' = [obj EXCEPT ![o] = r]
  BY DEF Rewrite
<1>2. obj \in [Objects -> ObjRec] /\ obj[o] \in ObjRec /\ ObjectRight(obj[o], shapes)
  BY DEF ObjectsRight
<1>3. PICK n \in Nat : n = Len(Order(o))
  BY SlotThere
<1>4. /\ obj[o].slots \in Seq(Values \cup Holders) /\ Len(obj[o].slots) = n
      /\ obj[o].attrs \in Seq(Attr) /\ Len(obj[o].attrs) = n
      /\ DOMAIN Order(o) = 1 .. n /\ i \in 1 .. n
  BY <1>3, SlotThere
<1>5. /\ r.slots = [obj[o].slots EXCEPT ![i] = v] /\ r.attrs = [obj[o].attrs EXCEPT ![i] = a]
      /\ r.shape = obj[o].shape /\ r.proto = obj[o].proto /\ r.extensible = obj[o].extensible
      /\ r = [obj[o] EXCEPT !.slots = r.slots, !.attrs = r.attrs]
  BY <1>2 DEF ObjRec
<1> HIDE DEF r
<1>6. /\ r.slots \in Seq(Values \cup Holders) /\ Len(r.slots) = n
      /\ r.attrs \in Seq(Attr) /\ Len(r.attrs) = n
      /\ r.slots[i] = v /\ r.attrs[i] = a
      /\ \A j \in 1 .. n : j # i => r.slots[j] = obj[o].slots[j] /\ r.attrs[j] = obj[o].attrs[j]
  BY <1>4, <1>5 DEF Fits
<1>7. r \in ObjRec
  BY <1>2, <1>5, <1>6 DEF ObjRec
<1>8. \A j \in DOMAIN r.slots : r.attrs[j].accessor <=> r.slots[j] \in Holders
  BY <1>2, <1>4, <1>6 DEF ObjectRight, Fits
<1>9. ObjectRight(r, shapes)
  BY <1>2, <1>3, <1>4, <1>5, <1>6, <1>7, <1>8 DEF ObjectRight, Order
<1>10. /\ obj'[o] = r /\ Order(o)' = Order(o)
       /\ \A k : (Has(o, k)' <=> Has(o, k)) /\ SlotOf(o, k)' = SlotOf(o, k)
  <2>1. obj'[o] = r
    BY <1>1, <1>2, <1>7
  <2>2. Order(o)' = Order(o)
    BY <2>1, <1>1, <1>5 DEF Order
  <2> QED
    BY <2>1, <2>2 DEF Has, SlotOf
<1>11. \A k : Has(o, k) => SlotOf(o, k) \in 1 .. n /\ Order(o)[SlotOf(o, k)] = k
  BY <1>3, SlotThere
<1>12. StaysLocked(o)
  <2>1. ASSUME NEW k \in Keys, Has(o, k), ~obj[o].attrs[SlotOf(o, k)].configurable
        PROVE  Honours(obj[o].slots[SlotOf(o, k)], obj[o].attrs[SlotOf(o, k)],
                       r.slots[SlotOf(o, k)], r.attrs[SlotOf(o, k)])
    <3>1. CASE SlotOf(o, k) = i
      BY <3>1, <1>6
    <3>2. CASE SlotOf(o, k) # i
      BY <2>1, <3>2, <1>6, <1>11 DEF Honours
    <3> QED
      BY <3>1, <3>2
  <2> QED
    BY <2>1, <1>5, <1>10 DEF StaysLocked
<1>13. StaysOrdered(o)
  BY <1>10 DEF StaysOrdered
<1>14. ASSUME NEW k \in Keys, k # Order(o)[i] PROVE StaysThere(o, k)
  <2>1. CASE Has(o, k)
    <3>1. SlotOf(o, k) \in 1 .. n /\ SlotOf(o, k) # i
      BY <2>1, <1>11, <1>14
    <3>2. r.slots[SlotOf(o, k)] = obj[o].slots[SlotOf(o, k)]
      BY <3>1, <1>6
    <3>3. Contents(o, k) = {obj[o].slots[SlotOf(o, k)]}
      BY <2>1, PropertyIs
    <3>4. Contents(o, k)' = {obj'[o].slots[SlotOf(o, k)']}
      BY <2>1, <1>10, PropertyIs
    <3> QED
      BY <3>2, <3>3, <3>4, <1>10 DEF StaysThere
  <2>2. CASE ~Has(o, k)
    BY <2>2, <1>10, PropertyIs DEF StaysThere
  <2> QED
    BY <2>1, <2>2
<1>15. TreeRight(shapes') /\ Grows(shapes, shapes') /\ ObjectRight(r, shapes')
  BY <1>1, <1>9 DEF Grows
<1> QED
  BY <1>1, <1>12, <1>13, <1>14, <1>15, OneChanges

\* Attributes that lock no less than the old ones.
NoLooser(attrs, old) ==
    /\ Len(attrs) = Len(old)
    /\ \A i \in 1 .. Len(old) :
         /\ attrs[i].accessor = old[i].accessor
         /\ attrs[i].configurable => old[i].configurable
         /\ attrs[i].writable => old[i].writable

LEMMA LockEffect ==
    ASSUME TreeRight(shapes), ObjectsRight, NEW o \in Objects, NEW r \in ObjRec,
           obj' = [obj EXCEPT ![o] = r], shapes' = shapes,
           r.shape = obj[o].shape, r.slots = obj[o].slots, NoLooser(r.attrs, obj[o].attrs),
           ~obj[o].extensible => ~r.extensible /\ r.proto = obj[o].proto
    PROVE  Effect
<1>1. obj \in [Objects -> ObjRec] /\ ObjectRight(obj[o], shapes)
  BY DEF ObjectsRight
<1>2. obj'[o] = r /\ Order(o)' = Order(o)
      /\ \A k : (Has(o, k)' <=> Has(o, k)) /\ SlotOf(o, k)' = SlotOf(o, k)
  <2>1. obj'[o] = r
    BY <1>1
  <2>2. Order(o)' = Order(o)
    BY <2>1 DEF Order
  <2> QED
    BY <2>1, <2>2 DEF Has, SlotOf
<1>3. \A k : Has(o, k) => SlotOf(o, k) \in 1 .. Len(Order(o))
  BY SlotThere
<1>4. DOMAIN obj[o].slots = 1 .. Len(Order(o)) /\ Len(obj[o].attrs) = Len(Order(o))
  BY SlotThere
<1>5. ObjectRight(r, shapes)
  BY <1>1, <1>4 DEF ObjectRight, NoLooser
<1>6. StaysLocked(o)
  BY <1>2, <1>3, <1>4 DEF StaysLocked, Honours, NoLooser
<1>7. StaysOrdered(o)
  BY <1>2 DEF StaysOrdered
<1>8. ASSUME NEW k \in Keys PROVE StaysThere(o, k)
  <2>1. CASE Has(o, k)
    <3>1. Contents(o, k) = {obj[o].slots[SlotOf(o, k)]}
      BY <2>1, PropertyIs
    <3>2. Contents(o, k)' = {obj'[o].slots[SlotOf(o, k)']}
      BY <2>1, <1>2, PropertyIs
    <3> QED
      BY <3>1, <3>2, <1>2 DEF StaysThere
  <2>2. CASE ~Has(o, k)
    BY <2>2, <1>2, PropertyIs DEF StaysThere
  <2> QED
    BY <2>1, <2>2
<1>9. TreeRight(shapes') /\ Grows(shapes, shapes') /\ ObjectRight(r, shapes')
  BY <1>5 DEF Grows
<1> QED
  BY <1>6, <1>7, <1>8, <1>9, OneChanges

LEMMA AddEffect ==
    ASSUME TreeRight(shapes), ObjectsRight, NEW o \in Objects, NEW k \in Keys, ~Has(o, k),
           NEW v, NEW a, Fits(v, a), AddProperty(o, k, v, a)
    PROVE  Effect
<1> DEFINE t == Target(obj[o].shape, k)
           r == [obj[o] EXCEPT !.shape = t, !.slots = Append(@, v), !.attrs = Append(@, a)]
<1>1. /\ TransitionAdd(obj[o].shape, k) /\ obj' = [obj EXCEPT ![o] = r]
      /\ obj[o].extensible
  BY DEF AddProperty
<1>2. obj \in [Objects -> ObjRec] /\ obj[o] \in ObjRec /\ ObjectRight(obj[o], shapes)
  BY DEF ObjectsRight
<1>3. /\ r.slots = Append(obj[o].slots, v) /\ r.attrs = Append(obj[o].attrs, a)
      /\ r.shape = t /\ r.proto = obj[o].proto /\ r.extensible = obj[o].extensible
      /\ r = [obj[o] EXCEPT !.shape = r.shape, !.slots = r.slots, !.attrs = r.attrs]
  BY <1>2 DEF ObjRec
<1> HIDE DEF t, r
<1>4. PICK n \in Nat : n = Len(Order(o))
  BY SlotThere
<1>5. /\ Order(o) \in Seq(Keys) /\ IsInjective(Order(o)) /\ k \notin Range(Order(o))
      /\ obj[o].shape \in DOMAIN shapes /\ Order(o) = shapes[obj[o].shape].order
      /\ obj[o].slots \in Seq(Values \cup Holders) /\ Len(obj[o].slots) = n
      /\ obj[o].attrs \in Seq(Attr) /\ Len(obj[o].attrs) = n
  BY <1>4, SlotThere DEF Has
<1>6. /\ TreeRight(shapes') /\ Grows(shapes, shapes')
      /\ t \in DOMAIN shapes' /\ shapes'[t].order = Append(Order(o), k)
  BY <1>1, <1>5, AddedShape DEF t
<1>7. PICK order : order = shapes'[t].order
  OBVIOUS
<1>8. order \in Seq(Keys) /\ Longer(Order(o), order, k)
  BY <1>5, <1>6, <1>7, AppendIs
<1>9. /\ r.slots \in Seq(Values \cup Holders) /\ Longer(obj[o].slots, r.slots, v)
      /\ r.attrs \in Seq(Attr) /\ Longer(obj[o].attrs, r.attrs, a)
  <2>1. v \in Values \cup Holders /\ a \in Attr
    BY DEF Fits
  <2> QED
    BY <2>1, <1>3, <1>5, AppendIs
<1>10. t \in 1 .. MaxShapes
  BY <1>6, OrderFits
<1>11. r \in ObjRec
  BY <1>2, <1>3, <1>9, <1>10 DEF ObjRec
<1>12. ObjectRight(r, shapes')
  <2>1. /\ Len(order) = n + 1 /\ Len(r.slots) = n + 1 /\ Len(r.attrs) = n + 1
        /\ r.slots[n + 1] = v /\ r.attrs[n + 1] = a
        /\ \A i \in 1 .. n : r.slots[i] = obj[o].slots[i] /\ r.attrs[i] = obj[o].attrs[i]
    BY <1>4, <1>5, <1>8, <1>9 DEF Longer
  <2>2. DOMAIN r.slots = 1 .. (n + 1) /\ DOMAIN obj[o].slots = 1 .. n
    BY <2>1, <1>5, <1>9
  <2>3. ASSUME NEW i \in DOMAIN r.slots PROVE r.attrs[i].accessor <=> r.slots[i] \in Holders
    <3>1. CASE i = n + 1
      BY <3>1, <2>1 DEF Fits
    <3>2. CASE i \in 1 .. n
      BY <3>2, <2>1, <2>2, <1>2 DEF ObjectRight
    <3> QED
      BY <3>1, <3>2, <2>2
  <2> QED
    BY <2>1, <2>3, <1>3, <1>6, <1>7, <1>11 DEF ObjectRight
<1>13. obj'[o] = r /\ Order(o)' = order
  <2>1. obj'[o] = r
    BY <1>1, <1>2, <1>11
  <2> QED
    BY <2>1, <1>3, <1>7 DEF Order
<1>14. /\ \A q : Has(o, q)' <=> q = k \/ Has(o, q)
       /\ \A q : Has(o, q) => SlotOf(o, q)' = SlotOf(o, q)
  <2>1. /\ \A q : q \in Range(order) <=> q = k \/ q \in Range(Order(o))
        /\ \A q \in Range(Order(o)) : Position(order, q) = Position(Order(o), q)
    BY <1>5, <1>8, PositionLonger
  <2> QED
    BY <2>1, <1>13 DEF Has, SlotOf
<1>15. \A q : Has(o, q) => /\ SlotOf(o, q) \in 1 .. n
                           /\ r.slots[SlotOf(o, q)] = obj[o].slots[SlotOf(o, q)]
                           /\ r.attrs[SlotOf(o, q)] = obj[o].attrs[SlotOf(o, q)]
  BY <1>4, <1>5, <1>9, SlotThere DEF Longer
<1>16. StaysLocked(o)
  BY <1>1, <1>13, <1>14, <1>15 DEF StaysLocked, Honours
<1>17. ASSUME NEW q \in Keys, q # k PROVE StaysThere(o, q)
  <2>1. CASE Has(o, q)
    <3>1. Contents(o, q) = {obj[o].slots[SlotOf(o, q)]}
      BY <2>1, PropertyIs
    <3>2. Contents(o, q)' = {obj'[o].slots[SlotOf(o, q)']}
      BY <2>1, <1>14, PropertyIs
    <3> QED
      BY <2>1, <3>1, <3>2, <1>13, <1>14, <1>15 DEF StaysThere
  <2>2. CASE ~Has(o, q)
    BY <2>2, <1>14, <1>17, PropertyIs DEF StaysThere
  <2> QED
    BY <2>1, <2>2
<1>18. StaysOrdered(o)
  BY <1>14 DEF StaysOrdered
<1> QED
  BY <1>1, <1>6, <1>12, <1>16, <1>17, <1>18, OneChanges

LEMMA DeleteEffect ==
    ASSUME TreeRight(shapes), ObjectsRight, NEW o \in Objects, NEW k \in Keys, Delete(o, k)
    PROVE  Effect
<1> DEFINE t == Len(shapes) + 1
           i == SlotOf(o, k)
           r == [obj[o] EXCEPT !.shape = t, !.slots = RemoveAt(@, i), !.attrs = RemoveAt(@, i)]
<1>1. /\ TransitionDelete(obj[o].shape, k) /\ obj' = [obj EXCEPT ![o] = r]
      /\ Has(o, k) /\ obj[o].attrs[i].configurable
  BY DEF Delete
<1>2. obj \in [Objects -> ObjRec] /\ obj[o] \in ObjRec /\ ObjectRight(obj[o], shapes)
  BY DEF ObjectsRight
<1>3. /\ r.slots = RemoveAt(obj[o].slots, i) /\ r.attrs = RemoveAt(obj[o].attrs, i)
      /\ r.shape = t /\ r.proto = obj[o].proto /\ r.extensible = obj[o].extensible
      /\ r = [obj[o] EXCEPT !.shape = r.shape, !.slots = r.slots, !.attrs = r.attrs]
  BY <1>2 DEF ObjRec
<1> HIDE DEF r
<1>4. PICK n \in Nat : n = Len(Order(o))
  BY SlotThere
<1>5. /\ Order(o) \in Seq(Keys) /\ IsInjective(Order(o)) /\ k \in Range(Order(o))
      /\ obj[o].shape \in DOMAIN shapes /\ Order(o) = shapes[obj[o].shape].order
      /\ obj[o].slots \in Seq(Values \cup Holders) /\ Len(obj[o].slots) = n
      /\ obj[o].attrs \in Seq(Attr) /\ Len(obj[o].attrs) = n
      /\ i \in 1 .. n /\ Order(o)[i] = k
  BY <1>1, <1>4, SlotThere DEF Has
<1>6. /\ TreeRight(shapes') /\ Grows(shapes, shapes')
      /\ t \in DOMAIN shapes' /\ shapes'[t].order = RemoveAt(Order(o), i)
  BY <1>1, <1>5, DeletedShape DEF SlotOf
<1> HIDE DEF t, i
<1>7. PICK order : order = shapes'[t].order
  OBVIOUS
<1>8. order \in Seq(Keys) /\ Shorter(Order(o), order, i)
  BY <1>4, <1>5, <1>6, <1>7, RemoveAtIs
<1>9. /\ r.slots \in Seq(Values \cup Holders) /\ Shorter(obj[o].slots, r.slots, i)
      /\ r.attrs \in Seq(Attr) /\ Shorter(obj[o].attrs, r.attrs, i)
  BY <1>3, <1>5, RemoveAtIs
<1>10. t \in 1 .. MaxShapes
  BY <1>6, OrderFits
<1>11. r \in ObjRec
  BY <1>2, <1>3, <1>9, <1>10 DEF ObjRec
<1>12. /\ Len(order) = n - 1 /\ Len(r.slots) = n - 1 /\ Len(r.attrs) = n - 1
       /\ \A j \in 1 .. (n - 1) :
            /\ r.slots[j] = IF j < i THEN obj[o].slots[j] ELSE obj[o].slots[j + 1]
            /\ r.attrs[j] = IF j < i THEN obj[o].attrs[j] ELSE obj[o].attrs[j + 1]
  BY <1>4, <1>5, <1>8, <1>9 DEF Shorter
<1>13. ObjectRight(r, shapes')
  <2>1. DOMAIN r.slots = 1 .. (n - 1) /\ DOMAIN obj[o].slots = 1 .. n
    BY <1>5, <1>9, <1>12
  <2>2. ASSUME NEW j \in DOMAIN r.slots PROVE r.attrs[j].accessor <=> r.slots[j] \in Holders
    <3>1. j \in 1 .. n /\ j + 1 \in 1 .. n
      BY <2>1
    <3> QED
      BY <3>1, <2>1, <1>2, <1>12 DEF ObjectRight
  <2> QED
    BY <2>2, <1>3, <1>6, <1>7, <1>11, <1>12 DEF ObjectRight
<1>14. obj'[o] = r /\ Order(o)' = order
  <2>1. obj'[o] = r
    BY <1>1, <1>2, <1>11
  <2> QED
    BY <2>1, <1>3, <1>7 DEF Order
<1>15. /\ \A q : Has(o, q)' <=> q # k /\ Has(o, q)
       /\ \A q : Has(o, q)' =>
            /\ SlotOf(o, q) \in 1 .. n /\ SlotOf(o, q) # i
            /\ SlotOf(o, q)' = IF SlotOf(o, q) < i THEN SlotOf(o, q) ELSE SlotOf(o, q) - 1
  <2>1. /\ \A q : q \in Range(order) <=> q # k /\ q \in Range(Order(o))
        /\ \A q \in Range(order) :
             /\ Position(Order(o), q) \in 1 .. n /\ Position(Order(o), q) # i
             /\ Position(order, q) = IF Position(Order(o), q) < i THEN Position(Order(o), q)
                                     ELSE Position(Order(o), q) - 1
    BY <1>4, <1>5, <1>8, PositionShorter
  <2> QED
    BY <2>1, <1>14 DEF Has, SlotOf
<1>16. ASSUME NEW q, Has(o, q)'
       PROVE  /\ r.slots[SlotOf(o, q)'] = obj[o].slots[SlotOf(o, q)]
              /\ r.attrs[SlotOf(o, q)'] = obj[o].attrs[SlotOf(o, q)]
  <2>1. PICK x, y : x = SlotOf(o, q) /\ y = SlotOf(o, q)'
    OBVIOUS
  <2>2. x \in 1 .. n /\ x # i /\ y = IF x < i THEN x ELSE x - 1
    BY <2>1, <1>15, <1>16
  <2>3. y \in 1 .. (n - 1) /\ (y < i => x = y) /\ (~(y < i) => x = y + 1)
    BY <2>2, <1>5
  <2> QED
    BY <2>1, <2>3, <1>12
<1>17. StaysLocked(o)
  <2>1. ASSUME NEW q \in Keys, Has(o, q), ~obj[o].attrs[SlotOf(o, q)].configurable
        PROVE  Has(o, q)'
    BY <2>1, <1>1, <1>15 DEF i
  <2> QED
    BY <2>1, <1>3, <1>14, <1>15, <1>16 DEF StaysLocked, Honours
<1>18. ASSUME NEW q \in Keys, q # k PROVE StaysThere(o, q)
  <2>1. CASE Has(o, q)
    <3>1. Contents(o, q) = {obj[o].slots[SlotOf(o, q)]}
      BY <2>1, PropertyIs
    <3>2. Has(o, q)'
      BY <2>1, <1>15, <1>18
    <3>3. Contents(o, q)' = {obj'[o].slots[SlotOf(o, q)']}
      BY <3>2, PropertyIs
    <3> QED
      BY <3>1, <3>2, <3>3, <1>14, <1>16 DEF StaysThere
  <2>2. CASE ~Has(o, q)
    BY <2>2, <1>15, PropertyIs DEF StaysThere
  <2> QED
    BY <2>1, <2>2
<1>19. StaysOrdered(o)
  <2>1. SUFFICES ASSUME NEW k1 \in Keys, NEW k2 \in Keys, SlotOf(o, k1) < SlotOf(o, k2),
                        Has(o, k1)', Has(o, k2)'
                 PROVE  SlotOf(o, k1)' < SlotOf(o, k2)'
    BY DEF StaysOrdered
  <2>2. PICK x, y : x = SlotOf(o, k1) /\ y = SlotOf(o, k2)
    OBVIOUS
  <2>3. x \in 1 .. n /\ y \in 1 .. n /\ x < y /\ x # i /\ y # i
    BY <2>1, <2>2, <1>15
  <2>4. /\ SlotOf(o, k1)' = IF x < i THEN x ELSE x - 1
        /\ SlotOf(o, k2)' = IF y < i THEN y ELSE y - 1
    BY <2>1, <2>2, <1>15
  <2> QED
    BY <2>3, <2>4, <1>5
<1> QED
  BY <1>1, <1>6, <1>13, <1>17, <1>18, <1>19, OneChanges

-----------------------------------------------------------------------------
(* The invariant is inductive.                                              *)

LEMMA IdleEffect ==
    ASSUME TreeRight(shapes), ObjectsRight, UNCHANGED <<shapes, obj>>
    PROVE  Effect
<1>1. \A o \in Objects : Same(o)
  BY DEF Same, Order
<1>2. ObjectsRight' /\ TreeRight(shapes') /\ Grows(shapes, shapes')
  BY DEF ObjectsRight, Grows
<1> QED
  BY <1>1, <1>2, SameStays DEF Effect

\* Writing a plain value over a writable one.
LEMMA OverwriteEffect ==
    ASSUME TreeRight(shapes), ObjectsRight, NEW o \in Objects, NEW i \in 1 .. Len(Order(o)),
           NEW v \in Values, Data(o, i), obj[o].attrs[i].writable,
           Rewrite(o, i, v, obj[o].attrs[i])
    PROVE  Effect
<1>1. PICK a : a = obj[o].attrs[i]
  OBVIOUS
<1>2. a \in Attr
  BY <1>1, SlotThere
<1>3. v \notin Holders
  BY ConstantsFit
<1>4. Fits(v, a)
  BY <1>1, <1>2, <1>3 DEF Fits, Data
<1>5. Honours(obj[o].slots[i], obj[o].attrs[i], v, a)
  BY <1>1 DEF Honours, Data
<1> QED
  BY <1>1, <1>4, <1>5, RewriteEffect

LEMMA StoreEffect ==
    ASSUME TreeRight(shapes), ObjectsRight, NEW o \in Objects, NEW k \in Keys,
           NEW v \in Values, Store(o, k, v)
    PROVE  Effect
<1>1. CASE Has(o, k) /\ Rewrite(o, SlotOf(o, k), v, obj[o].attrs[SlotOf(o, k)])
  <2>1. PICK i : i = SlotOf(o, k)
    OBVIOUS
  <2>2. i \in 1 .. Len(Order(o))
    BY <1>1, <2>1, SlotThere
  <2>3. FindProperty(o, k) = {[holder |-> o, slot |-> i]}
    BY <1>1, <2>1, InvLinked, FoundOwn
  <2>4. PICK h \in FindProperty(o, k) : h.holder = o /\ h.slot = i
    BY <2>3
  <2>5. Data(o, i) /\ obj[o].attrs[i].writable
    BY <2>4 DEF Store
  <2> QED
    BY <1>1, <2>1, <2>2, <2>5, OverwriteEffect
<1>2. CASE ~Has(o, k) /\ AddProperty(o, k, v, Plain)
  <2>1. Plain \in Attr /\ ~Plain.accessor /\ v \notin Holders
    BY ConstantsFit DEF Plain, Attr
  <2>2. Fits(v, Plain)
    BY <2>1 DEF Fits
  <2> QED
    BY <1>2, <2>2, AddEffect
<1> QED
  BY <1>1, <1>2 DEF Store

LEMMA JitStoreEffect ==
    ASSUME TreeRight(shapes), ObjectsRight, NEW c, CacheRight(c, shapes),
           NEW o \in Objects, NEW k, NEW i \in JitStore(c, o, k),
           NEW v \in Values, Rewrite(o, i, v, obj[o].attrs[i])
    PROVE  Effect
<1>1. i \in Lookup(c, k, obj[o].shape) /\ Data(o, i) /\ obj[o].attrs[i].writable
  BY DEF JitStore
<1>2. PICK e \in c.entries : e.shape = obj[o].shape /\ e.slot = i /\ c.key = k
  BY <1>1 DEF Lookup
<1>3. Has(o, k) /\ SlotOf(o, k) = i
  BY <1>2, KeptIsOwn DEF CacheRight
<1> QED
  BY <1>1, <1>3, SlotThere, OverwriteEffect

LEMMA DefineDataEffect ==
    ASSUME TreeRight(shapes), ObjectsRight, NEW o \in Objects, NEW k \in Keys,
           NEW v \in Values, NEW a \in Attributes, DefineOwnData(o, k, v, a)
    PROVE  Effect
<1>1. a \in Attr /\ ~a.accessor /\ v \notin Holders
  BY ConstantsFit, ProgramFits DEF DefineOwnData
<1>2. Fits(v, a)
  BY <1>1 DEF Fits
<1>3. CASE /\ Has(o, k) /\ DataAllowed(o, SlotOf(o, k), v, a)
           /\ Rewrite(o, SlotOf(o, k), v, a)
  <2>1. PICK i : i = SlotOf(o, k)
    OBVIOUS
  <2>2. i \in 1 .. Len(Order(o))
    BY <1>3, <2>1, SlotThere
  <2>3. obj[o].attrs[i] \in Attr
    BY <2>2, SlotThere
  <2>4. Honours(obj[o].slots[i], obj[o].attrs[i], v, a)
    BY <1>1, <1>3, <2>1, <2>3 DEF Honours, DataAllowed, Attr
  <2> QED
    BY <1>2, <1>3, <2>1, <2>2, <2>4, RewriteEffect
<1>4. CASE ~Has(o, k) /\ AddProperty(o, k, v, a)
  BY <1>2, <1>4, AddEffect
<1> QED
  BY <1>3, <1>4 DEF DefineOwnData

LEMMA DefineAccessorEffect ==
    ASSUME TreeRight(shapes), ObjectsRight, NEW o \in Objects, NEW k \in Keys,
           NEW h \in Holders, NEW a \in Attributes, DefineOwnAccessor(o, k, h, a)
    PROVE  Effect
<1>1. Fits(h, a)
  BY ProgramFits DEF DefineOwnAccessor, Fits
<1>2. CASE /\ Has(o, k) /\ obj[o].attrs[SlotOf(o, k)].configurable
           /\ Rewrite(o, SlotOf(o, k), h, a)
  <2>1. PICK i : i = SlotOf(o, k)
    OBVIOUS
  <2>2. i \in 1 .. Len(Order(o))
    BY <1>2, <2>1, SlotThere
  <2>3. Honours(obj[o].slots[i], obj[o].attrs[i], h, a)
    BY <1>2, <2>1 DEF Honours
  <2> QED
    BY <1>1, <1>2, <2>1, <2>2, <2>3, RewriteEffect
<1>3. CASE ~Has(o, k) /\ AddProperty(o, k, h, a)
  BY <1>1, <1>3, AddEffect
<1> QED
  BY <1>2, <1>3 DEF DefineOwnAccessor

LEMMA SetProtoEffect ==
    ASSUME TreeRight(shapes), ObjectsRight, NEW o \in Objects,
           NEW p \in Objects \cup {NoObject}, SetProto(o, p)
    PROVE  Effect
<1> DEFINE r == [obj[o] EXCEPT !.proto = p]
<1>1. obj[o] \in ObjRec /\ obj' = [obj EXCEPT ![o] = r] /\ shapes' = shapes /\ obj[o].extensible
  BY DEF ObjectsRight, SetProto
<1>2. /\ r \in ObjRec /\ r.shape = obj[o].shape /\ r.slots = obj[o].slots
      /\ r.attrs = obj[o].attrs
  BY <1>1 DEF ObjRec
<1> HIDE DEF r
<1>3. NoLooser(r.attrs, obj[o].attrs)
  BY <1>2 DEF NoLooser
<1> QED
  BY <1>1, <1>2, <1>3, LockEffect

\* Nothing becomes writable or configurable.
LEMMA LockingEffect ==
    ASSUME TreeRight(shapes), ObjectsRight, NEW o \in Objects,
           PreventExtensions(o) \/ Seal(o) \/ Freeze(o)
    PROVE  Effect
<1>1. /\ obj \in [Objects -> ObjRec] /\ obj[o] \in ObjRec /\ shapes' = shapes
      /\ obj[o].attrs \in Seq(Attr)
  BY SlotThere DEF ObjectsRight, PreventExtensions, Seal, Freeze
<1>2. PICK n \in Nat : n = Len(obj[o].attrs) /\ DOMAIN obj[o].attrs = 1 .. n
  BY <1>1
<1>3. ASSUME NEW w \in BOOLEAN
      PROVE  /\ Locked(obj[o].attrs, w) \in Seq(Attr)
             /\ NoLooser(Locked(obj[o].attrs, w), obj[o].attrs)
  <2> DEFINE lock(a) == [a EXCEPT !.configurable = FALSE, !.writable = @ /\ w]
  <2>1. Locked(obj[o].attrs, w) = [i \in 1 .. n |-> lock(obj[o].attrs[i])]
    BY <1>2 DEF Locked
  <2>2. \A a \in Attr : /\ lock(a) \in Attr /\ lock(a).accessor = a.accessor
                        /\ ~lock(a).configurable /\ (lock(a).writable => a.writable)
    BY DEF Attr
  <2> HIDE DEF lock
  <2>3. \A i \in 1 .. n : obj[o].attrs[i] \in Attr
    BY <1>1, <1>2
  <2>4. [i \in 1 .. n |-> lock(obj[o].attrs[i])] \in [1 .. n -> Attr]
    BY <2>2, <2>3
  <2>5. Locked(obj[o].attrs, w) \in Seq(Attr) /\ Len(Locked(obj[o].attrs, w)) = n
    BY <2>1, <2>4
  <2> QED
    BY <2>1, <2>2, <2>3, <2>5, <1>2 DEF NoLooser
<1>4. PICK attrs \in Seq(Attr) :
        /\ obj' = [obj EXCEPT ![o].extensible = FALSE, ![o].attrs = attrs]
        /\ NoLooser(attrs, obj[o].attrs)
  <2>1. CASE PreventExtensions(o)
    <3>1. [obj EXCEPT ![o].extensible = FALSE]
            = [obj EXCEPT ![o].extensible = FALSE, ![o].attrs = obj[o].attrs]
      BY <1>1 DEF ObjRec
    <3> QED
      BY <2>1, <3>1, <1>1 DEF PreventExtensions, NoLooser
  <2>2. CASE Seal(o)
    BY <2>2, <1>3 DEF Seal
  <2>3. CASE Freeze(o)
    BY <2>3, <1>3 DEF Freeze
  <2> QED
    BY <2>1, <2>2, <2>3
<1> DEFINE r == [obj[o] EXCEPT !.extensible = FALSE, !.attrs = attrs]
<1>5. /\ r \in ObjRec /\ r.shape = obj[o].shape /\ r.slots = obj[o].slots
      /\ r.attrs = attrs /\ r.proto = obj[o].proto /\ ~r.extensible
  BY <1>1 DEF ObjRec
<1>6. obj' = [obj EXCEPT ![o] = r]
  BY <1>1, <1>4
<1> HIDE DEF r
<1> QED
  BY <1>1, <1>4, <1>5, <1>6, LockEffect

LEMMA ReshapeEffect ==
    ASSUME TreeRight(shapes), ObjectsRight, Reshape
    PROVE  Effect /\ UNCHANGED <<ic, calls>>
<1>1. PICK o \in Objects :
        \/ \E k \in Keys, v \in Values, a \in Attributes : DefineOwnData(o, k, v, a)
        \/ \E k \in Keys, h \in Holders, a \in Attributes : DefineOwnAccessor(o, k, h, a)
        \/ \E k \in Keys : Delete(o, k)
        \/ \E p \in Objects \cup {NoObject} : SetProto(o, p)
        \/ o \in Lockable /\ (PreventExtensions(o) \/ Seal(o) \/ Freeze(o))
  BY DEF Reshape
<1>2. ASSUME NEW k \in Keys, NEW v \in Values, NEW a \in Attributes, DefineOwnData(o, k, v, a)
      PROVE  Effect /\ UNCHANGED <<ic, calls>>
  BY <1>2, DefineDataEffect DEF DefineOwnData
<1>3. ASSUME NEW k \in Keys, NEW h \in Holders, NEW a \in Attributes,
             DefineOwnAccessor(o, k, h, a)
      PROVE  Effect /\ UNCHANGED <<ic, calls>>
  BY <1>3, DefineAccessorEffect DEF DefineOwnAccessor
<1>4. ASSUME NEW k \in Keys, Delete(o, k)
      PROVE  Effect /\ UNCHANGED <<ic, calls>>
  BY <1>4, DeleteEffect DEF Delete
<1>5. ASSUME NEW p \in Objects \cup {NoObject}, SetProto(o, p)
      PROVE  Effect /\ UNCHANGED <<ic, calls>>
  BY <1>5, SetProtoEffect DEF SetProto
<1>6. ASSUME PreventExtensions(o) \/ Seal(o) \/ Freeze(o)
      PROVE  Effect /\ UNCHANGED <<ic, calls>>
  BY <1>6, LockingEffect DEF PreventExtensions, Seal, Freeze
<1> QED
  BY <1>1, <1>2, <1>3, <1>4, <1>5, <1>6

\* One cache becomes another that is right for the shapes as they are then.
LEMMA OneCache ==
    ASSUME CachesRight, Grows(shapes, shapes'), NEW s \in Sites,
           NEW c, CacheRight(c, shapes'), ic' = [ic EXCEPT ![s] = c]
    PROVE  CachesRight'
<1>1. c \in CacheRec /\ \A x \in Sites : CacheRight(ic[x], shapes')
  BY CacheGrows DEF CachesRight, CacheRight
<1> QED
  BY <1>1 DEF CachesRight

LEMMA SameCaches ==
    ASSUME CachesRight, Grows(shapes, shapes'), UNCHANGED ic
    PROVE  CachesRight'
BY CacheGrows DEF CachesRight

LEMMA CallMade ==
    ASSUME CallsRight, NEW s \in Sites, NEW o \in Objects, NEW k \in Keys, Call(s, o, k)
    PROVE  CallsRight'
<1>1. PICK r \in CallRec : r = [site |-> s, obj |-> o, key |-> k]
  BY DEF CallRec
<1>2. calls' = Append(calls, r) /\ Len(calls) < MaxCalls /\ calls \in Seq(CallRec)
  BY <1>1 DEF Call, CallsRight
<1> QED
  BY <1>2, ConstantsFit DEF CallsRight

LEMMA ReturnKeeps ==
    ASSUME TreeRight(shapes), ObjectsRight, CachesRight, CallsRight, Return
    PROVE  Effect /\ CachesRight' /\ CallsRight'
<1>1. calls \in Seq(CallRec) /\ Len(calls) <= MaxCalls /\ calls # <<>> /\ calls' = Front(calls)
      /\ UNCHANGED <<shapes, obj>>
  BY DEF CallsRight, Return
<1>2. Len(calls) >= 1 /\ Last(calls) \in CallRec
  BY <1>1 DEF Last
<1>3. CallsRight'
  BY <1>1, <1>2, ConstantsFit DEF CallsRight, Front
<1>4. PICK r \in CallRec : r = Last(calls)
  BY <1>2
<1>5. r.site \in Sites /\ r.obj \in Objects /\ r.key \in Keys
  BY DEF CallRec
<1>6. PICK c \in (IF r.site \in GetSites THEN AfterRead(ic[r.site], r.obj, r.key)
                  ELSE AfterWrite(ic[r.site], r.key, obj[r.obj].shape, Order(r.obj)))
                 \cup {ic[r.site]} : ic' = [ic EXCEPT ![r.site] = c]
  BY <1>4 DEF Return
<1>7. CacheRight(ic[r.site], shapes)
  BY <1>5 DEF CachesRight
<1>8. obj[r.obj].shape \in DOMAIN shapes /\ Order(r.obj) = shapes[obj[r.obj].shape].order
  BY <1>5, SlotThere
<1>9. CacheRight(c, shapes)
  <2>1. CASE c \in AfterRead(ic[r.site], r.obj, r.key)
    BY <2>1, <1>5, <1>7, AfterReadRight
  <2>2. CASE c \in AfterWrite(ic[r.site], r.key, obj[r.obj].shape, Order(r.obj))
    BY <2>2, <1>5, <1>7, <1>8, AfterWriteRight
  <2>3. CASE c = ic[r.site]
    BY <2>3, <1>7
  <2> QED
    BY <2>1, <2>2, <2>3
<1>10. Effect
  BY <1>1, IdleEffect
<1>11. Grows(shapes, shapes') /\ CacheRight(c, shapes')
  BY <1>1, <1>9 DEF Grows
<1> QED
  BY <1>3, <1>5, <1>6, <1>10, <1>11, OneCache

LEMMA SitesKnown ==
    \A s \in Sites : SiteKeys[s] \subseteq Keys
BY ConstantsFit

LEMMA AccessKeeps ==
    ASSUME TreeRight(shapes), ObjectsRight, CachesRight, CallsRight, Access
    PROVE  Effect /\ CachesRight' /\ CallsRight'
<1> DEFINE Goal == Effect /\ CachesRight' /\ CallsRight'
<1>1. ASSUME NEW s \in Sites PROVE CacheRight(ic[s], shapes)
  BY DEF CachesRight
<1>2. ASSUME UNCHANGED <<shapes, obj>> PROVE Effect /\ Grows(shapes, shapes')
  BY <1>2, IdleEffect DEF Grows
<1>3. ASSUME NEW s \in Sites, NEW o \in Objects, NEW k \in Keys, ReadMiss(s, o, k)
      PROVE  Goal
  <2>1. PICK c \in AfterRead(ic[s], o, k) : ic' = [ic EXCEPT ![s] = c]
    BY <1>3 DEF ReadMiss
  <2>2. UNCHANGED <<shapes, obj, calls>>
    BY <1>3 DEF ReadMiss
  <2>3. CacheRight(c, shapes)
    BY <1>1, AfterReadRight
  <2>4. CacheRight(c, shapes')
    BY <2>2, <2>3
  <2> QED
    BY <1>2, <2>1, <2>2, <2>4, OneCache DEF CallsRight
<1>4. ASSUME NEW s \in Sites, NEW o \in Objects, NEW k \in Keys,
             ReadAccessor(s, o, k) \/ WriteAccessor(s, o, k)
      PROVE  Goal
  <2>1. Call(s, o, k) /\ UNCHANGED <<shapes, obj, ic>>
    BY <1>4 DEF ReadAccessor, WriteAccessor
  <2> QED
    BY <1>2, <2>1, CallMade, SameCaches
<1>5. ASSUME NEW s \in Sites, NEW o \in Objects, NEW k \in Keys, WriteRefused(s, o, k)
      PROVE  Goal
  <2>1. PICK c \in AfterWrite(ic[s], k, obj[o].shape, Order(o)) : ic' = [ic EXCEPT ![s] = c]
    BY <1>5 DEF WriteRefused
  <2>2. UNCHANGED <<shapes, obj, calls>>
    BY <1>5 DEF WriteRefused
  <2>3. CacheRight(c, shapes)
    BY <1>1, <2>1, SlotThere, AfterWriteRight
  <2>4. CacheRight(c, shapes')
    BY <2>2, <2>3
  <2> QED
    BY <1>2, <2>1, <2>2, <2>4, OneCache DEF CallsRight
<1>6. ASSUME NEW s \in Sites, NEW o \in Objects, NEW k \in Keys, NEW v \in Values,
             Write(s, o, k, v)
      PROVE  Goal
  <2>1. Effect
    BY <1>6, StoreEffect DEF Write
  <2>2. PICK c \in AfterWrite(ic[s], k, obj'[o].shape, Order(o)') : ic' = [ic EXCEPT ![s] = c]
    BY <1>6 DEF Write
  <2>3. TreeRight(shapes') /\ Grows(shapes, shapes') /\ ObjectsRight'
    BY <2>1 DEF Effect
  <2>4. obj'[o].shape \in DOMAIN shapes' /\ Order(o)' = shapes'[obj'[o].shape].order
    BY <2>3 DEF ObjectsRight, ObjectRight, Order
  <2>5. CacheRight(ic[s], shapes')
    BY <1>1, <2>3, CacheGrows
  <2>6. CacheRight(c, shapes')
    BY <2>3, <2>4, <2>5, AfterWriteRight
  <2>7. UNCHANGED calls
    BY <1>6 DEF Write
  <2> QED
    BY <2>1, <2>2, <2>3, <2>6, <2>7, OneCache DEF CallsRight
<1>7. ASSUME NEW s \in Sites, NEW o \in Objects, NEW k \in Keys, NEW v \in Values,
             JitWrite(s, o, k, v)
      PROVE  Goal
  <2>1. Effect
    BY <1>1, <1>7, StoreEffect, JitStoreEffect DEF JitWrite
  <2>2. UNCHANGED <<ic, calls>> /\ Grows(shapes, shapes')
    BY <1>7, <2>1 DEF JitWrite, Effect
  <2> QED
    BY <2>1, <2>2, SameCaches DEF CallsRight
<1>8. ASSUME Return PROVE Goal
  BY <1>8, ReturnKeeps
<1>9. Receivers \subseteq Objects /\ GetSites \subseteq Sites /\ SetSites \subseteq Sites
  BY ProgramFits DEF Sites
<1> HIDE DEF Goal
<1>10. ASSUME NEW s \in GetSites, NEW o \in Receivers, NEW k \in SiteKeys[s],
              ReadMiss(s, o, k) \/ ReadAccessor(s, o, k)
       PROVE  Goal
  BY <1>3, <1>4, <1>9, <1>10, SitesKnown
<1>11. ASSUME NEW s \in SetSites, NEW o \in Receivers, NEW k \in SiteKeys[s],
              \/ WriteRefused(s, o, k) \/ WriteAccessor(s, o, k)
              \/ \E v \in Values : Write(s, o, k, v) \/ JitWrite(s, o, k, v)
       PROVE  Goal
  BY <1>4, <1>5, <1>6, <1>7, <1>9, <1>11, SitesKnown
<1>12. Goal
  BY <1>8, <1>10, <1>11 DEF Access
<1> QED
  BY <1>12 DEF Goal

LEMMA StepKeeps ==
    ASSUME IInv, [Next]_vars
    PROVE  Effect /\ IInv'
<1>1. TreeRight(shapes) /\ ObjectsRight /\ CachesRight /\ CallsRight
  BY DEF IInv
<1>2. ASSUME Reshape PROVE Effect /\ CachesRight' /\ CallsRight'
  BY <1>1, <1>2, ReshapeEffect, SameCaches DEF Effect, CallsRight
<1>3. ASSUME Access PROVE Effect /\ CachesRight' /\ CallsRight'
  BY <1>1, <1>3, AccessKeeps
<1>4. ASSUME UNCHANGED vars PROVE Effect /\ CachesRight' /\ CallsRight'
  BY <1>1, <1>4, IdleEffect, SameCaches DEF vars, Effect, CallsRight
<1>5. Effect /\ CachesRight' /\ CallsRight'
  BY <1>2, <1>3, <1>4 DEF Next
<1>6. TreeRight(shapes)' /\ ObjectsRight'
  BY <1>5 DEF Effect
<1> QED
  BY <1>5, <1>6 DEF IInv

LEMMA InitRight ==
    ASSUME Init
    PROVE  IInv
<1>1. PICK root : root = [order |-> <<>>, next |-> [k \in Keys |-> 0]]
  OBVIOUS
<1>2. root \in ShapeRec /\ root.order = <<>> /\ \A k \in Keys : root.next[k] = 0
  BY <1>1, ConstantsFit DEF ShapeRec, Edge
<1>3. shapes = <<root>>
  BY <1>1 DEF Init
<1>4. shapes \in Seq(ShapeRec) /\ Len(shapes) = 1 /\ DOMAIN shapes = 1 .. 1 /\ shapes[1] = root
  BY <1>2, <1>3
<1>5. IsInjective(root.order)
  BY <1>2 DEF IsInjective
<1>6. TreeRight(shapes)
  BY <1>2, <1>4, <1>5, ConstantsFit DEF TreeRight
<1>7. PICK new : new = [shape |-> 1, slots |-> <<>>, attrs |-> <<>>, proto |-> NoObject,
                        extensible |-> TRUE]
  OBVIOUS
<1>8. new \in ObjRec /\ new.shape = 1 /\ new.slots = <<>> /\ new.attrs = <<>>
  BY <1>7, ConstantsFit DEF ObjRec
<1>9. obj = [o \in Objects |-> new]
  BY <1>7 DEF Init
<1>10. ObjectRight(new, shapes)
  BY <1>2, <1>4, <1>8 DEF ObjectRight
<1>11. ObjectsRight
  BY <1>8, <1>9, <1>10 DEF ObjectsRight
<1>12. NoCache \in CacheRec /\ NoCache.entries = {} /\ NoCache.proto = NoProto
  BY DEF NoCache, CacheRec, Stages
<1>13. ic = [s \in Sites |-> NoCache]
  BY DEF Init
<1>14. CacheRight(NoCache, shapes)
  BY <1>12 DEF CacheRight
<1>15. CachesRight
  BY <1>12, <1>13, <1>14 DEF CachesRight
<1>16. CallsRight
  BY ConstantsFit DEF Init, CallsRight
<1> QED
  BY <1>6, <1>11, <1>15, <1>16 DEF IInv

LEMMA Invariant == Spec => []IInv
<1>1. Init => IInv
  BY InitRight
<1>2. IInv /\ [Next]_vars => IInv'
  BY StepKeeps
<1> QED
  BY <1>1, <1>2, PTL DEF Spec

-----------------------------------------------------------------------------
(* The theorems.                                                            *)

\* Shapes, objects, caches and calls keep their types; an object has a slot for
\* each key of its shape (src/value/shape.zig, src/object/object.zig).
THEOREM TypeCorrect == Spec => []TypeOK
<1>1. IInv => TypeOK
  <2> SUFFICES ASSUME IInv PROVE TypeOK
    OBVIOUS
  <2>1. TreeRight(shapes) /\ ObjectsRight /\ CachesRight /\ CallsRight
    BY DEF IInv
  <2>2. /\ shapes \in Seq([order : Seq(Keys), next : Edge])
        /\ Len(shapes) \in 1 .. MaxShapes
        /\ \A s \in ShapeIds : IsInjective(shapes[s].order)
    BY <2>1 DEF TreeRight, ShapeRec, ShapeIds
  <2>3. ASSUME NEW o \in Objects
        PROVE  /\ obj[o].shape \in ShapeIds
               /\ obj[o].slots \in Seq(Values \cup Holders)
               /\ obj[o].attrs \in Seq(Attr)
               /\ Len(obj[o].slots) = Len(Order(o)) /\ Len(obj[o].attrs) = Len(Order(o))
               /\ \A i \in DOMAIN obj[o].slots :
                    obj[o].attrs[i].accessor <=> obj[o].slots[i] \in Holders
               /\ obj[o].proto \in Objects \cup {NoObject}
               /\ obj[o].extensible \in BOOLEAN
    <3>1. obj[o] \in ObjRec /\ ObjectRight(obj[o], shapes)
      BY <2>1 DEF ObjectsRight
    <3>2. obj[o].shape \in ShapeIds
      BY <3>1, <2>2 DEF ObjectRight, ShapeIds
    <3> QED
      BY <3>1, <3>2 DEF ObjRec, ObjectRight, Order
  <2>4. ASSUME NEW c \in Range(ic)
        PROVE  /\ c.state \in Stages /\ c.key \in Keys \cup {NoKey}
               /\ c.entries \subseteq Entry /\ c.mega \in BOOLEAN
               /\ c.proto # NoProto =>
                    /\ c.proto.guards \in Seq(Guard)
                    /\ Len(c.proto.guards) \in 1 .. ProtoDepth
    <3>1. CacheRight(c, shapes) /\ c \in CacheRec
      BY <2>1 DEF CachesRight, CacheRight, Range
    <3>2. c.proto # NoProto => c.proto \in ProtoRec
      BY <3>1 DEF CacheRec
    <3> QED
      BY <3>1, <3>2 DEF CacheRec, CacheRight, ProtoRight, ProtoRec
  <2>5. calls \in Seq([site : Sites, obj : Objects, key : Keys]) /\ Len(calls) <= MaxCalls
    BY <2>1 DEF CallsRight, CallRec
  <2> QED
    BY <2>2, <2>3, <2>4, <2>5 DEF TypeOK
<1> QED
  BY <1>1, Invariant, PTL

\* A hit of any cache, own or through prototypes, is where the full lookup would
\* have ended, although no cache is ever invalidated (InlineCache.lookup, and
\* the prototype cache of opGetProp).
THEOREM HitsAreRight == Spec => []HitsFindTheProperty
<1>1. IInv => HitsFindTheProperty
  BY HitFound DEF IInv, CachesRight, HitsFindTheProperty
<1> QED
  BY <1>1, Invariant, PTL

\* No step moves a value to another key or another object: at most one property
\* has other contents after it (JsObject.deleteOwn, set and defineOwnData).
THEOREM ChangesOneProperty == Spec => OnePropertyAtATime
<1> DEFINE Changed == {x \in Objects \X Keys : Contents(x[1], x[2])' # Contents(x[1], x[2])}
<1>1. IInv /\ [Next]_vars => Cardinality(Changed) <= 1
  <2> SUFFICES ASSUME IInv, [Next]_vars PROVE Cardinality(Changed) <= 1
    OBVIOUS
  <2>1. PICK a, b : \A o \in Objects, k \in Keys : (o = a /\ k = b) \/ StaysThere(o, k)
    BY StepKeeps DEF Effect
  <2>2. Changed \subseteq {<<a, b>>}
    BY <2>1 DEF StaysThere
  <2>3. IsFiniteSet({<<a, b>>}) /\ Cardinality({<<a, b>>}) = 1
    BY FS_Singleton
  <2> HIDE DEF Changed
  <2> QED
    BY <2>2, <2>3, FS_Subset
<1>2. IInv /\ [Next]_vars => [Cardinality(Changed) <= 1]_vars
  BY <1>1
<1> QED
  BY <1>2, Invariant, PTL DEF Spec, OnePropertyAtATime

\* What is sealed, frozen or non-extensible stays so on every path, the JIT's
\* store and Object.defineProperty included (attrs.configurable and .writable).
THEOREM LocksHold == Spec => LockedStaysLocked
<1> DEFINE Stays(o) ==
             /\ ~obj[o].extensible =>
                  /\ ~obj'[o].extensible /\ obj'[o].proto = obj[o].proto
                  /\ \A k \in Keys : Has(o, k)' => Has(o, k)
             /\ \A k \in Keys : \A p \in Property(o, k) :
                  ~p.attr.configurable =>
                    \E q \in Property(o, k)' :
                      /\ ~q.attr.configurable /\ q.attr.accessor = p.attr.accessor
                      /\ (p.attr.accessor \/ ~p.attr.writable) => q.value = p.value
                      /\ ~p.attr.writable => ~q.attr.writable
<1>1. ASSUME IInv, [Next]_vars, NEW o \in Objects PROVE Stays(o)
  <2>1. StaysLocked(o)
    BY <1>1, StepKeeps DEF Effect
  <2>2. ASSUME NEW k \in Keys, NEW p \in Property(o, k), ~p.attr.configurable
        PROVE  \E q \in Property(o, k)' :
                 /\ ~q.attr.configurable /\ q.attr.accessor = p.attr.accessor
                 /\ (p.attr.accessor \/ ~p.attr.writable) => q.value = p.value
                 /\ ~p.attr.writable => ~q.attr.writable
    <3>1. Has(o, k) /\ p = [value |-> obj[o].slots[SlotOf(o, k)],
                            attr |-> obj[o].attrs[SlotOf(o, k)]]
      BY <2>2, PropertyIs
    <3>2. /\ Has(o, k)'
          /\ Honours(p.value, p.attr, obj'[o].slots[SlotOf(o, k)'],
                     obj'[o].attrs[SlotOf(o, k)'])
      BY <2>1, <2>2, <3>1 DEF StaysLocked
    <3>3. PICK q : q = [value |-> obj'[o].slots[SlotOf(o, k)'],
                        attr |-> obj'[o].attrs[SlotOf(o, k)']]
      OBVIOUS
    <3>4. q \in Property(o, k)'
      BY <3>2, <3>3, PropertyIs
    <3>5. Honours(p.value, p.attr, q.value, q.attr)
      BY <3>2, <3>3
    <3> QED
      BY <2>2, <3>4, <3>5 DEF Honours
  <2> QED
    BY <2>1, <2>2 DEF StaysLocked
<1>2. IInv /\ [Next]_vars => [\A o \in Objects : Stays(o)]_vars
  BY <1>1
<1> QED
  BY <1>2, Invariant, PTL DEF Spec, LockedStaysLocked

\* An object's keys keep the order they were added in (Shape.key_order, which
\* [[OwnPropertyKeys]] lists, integer keys apart).
THEOREM KeysStayInOrder == Spec => KeysKeepTheirOrder
<1> DEFINE Stays(o, k1, k2) ==
             /\ Has(o, k1) /\ Has(o, k2) /\ SlotOf(o, k1) < SlotOf(o, k2)
             /\ Has(o, k1)' /\ Has(o, k2)'
             => (SlotOf(o, k1) < SlotOf(o, k2))'
<1>1. ASSUME IInv, [Next]_vars, NEW o \in Objects, NEW k1 \in Keys, NEW k2 \in Keys
      PROVE  Stays(o, k1, k2)
  <2>1. StaysOrdered(o)
    BY <1>1, StepKeeps DEF Effect
  <2> QED
    BY <2>1 DEF StaysOrdered
<1>2. IInv /\ [Next]_vars
        => [\A o \in Objects : \A k1, k2 \in Keys : Stays(o, k1, k2)]_vars
  <2> HIDE DEF Stays
  <2> QED
    BY <1>1
<1> QED
  BY <1>2, Invariant, PTL DEF Spec, KeysKeepTheirOrder
===============================================================================
