--------------------------- MODULE MCInlineCaches ----------------------------
(* Instances of InlineCaches for TLC.                                         *)
EXTENDS InlineCaches, TLC

CONSTANTS a, b, get, set

StaticGet == get :> {a}
DynamicGet == get :> {a, b}
DynamicGetStaticSet == (get :> {a, b}) @@ (set :> {a})

Accessor == [Plain EXCEPT !.accessor = TRUE]
Unlocked == {Plain, Accessor}
Locking == Unlocked \cup {[Plain EXCEPT !.writable = FALSE],
                          [Plain EXCEPT !.configurable = FALSE],
                          [Accessor EXCEPT !.configurable = FALSE]}

Interchangeable == Permutations(Objects \ Receivers)
=============================================================================
