------------------------------ MODULE MCGcHeap ------------------------------
(* Instances of GcHeap for TLC: objects and closures are model values.       *)
EXTENDS GcHeapInv, TLC

CONSTANTS a1, o1, o2, c1

ObjTwo == {o1, o2}
ObjArena == {a1, o1, o2}
NoArena == {}
OneArena == {a1}
NoClosure == {}
OneClosure == {c1}
\* Heap objects are interchangeable; so are they in every property.
SymmetricTwo == Permutations({o1, o2})
=============================================================================
