----------------------------- MODULE PromiseFate ------------------------------
(***************************************************************************)
(* What a promise promises.  Its fate is open until it is settled or made  *)
(* to follow another promise; from then on nothing but the outcome of that *)
(* promise can settle it, and it takes over exactly that outcome.          *)
(***************************************************************************)
CONSTANTS Promises

VARIABLE fate

Unborn == [kind |-> "unborn"]
Open == [kind |-> "open"]
Follows(q) == [kind |-> "follows", of |-> q]
Destined(state, value) == [kind |-> "destined", state |-> state, value |-> value]
SettledAs(state, value) == [kind |-> "settled", state |-> state, value |-> value]

Init == fate = [p \in Promises |-> Unborn]

\* The fate of p is f now and g after the step, which leaves the other
\* promises with the fates `after`.
Keeps(f, g, after) ==
    g = f /\ (f.kind = "follows" => after[f.of].kind # "settled")

Decides(f, g) ==
    \/ f = Unborn /\ g = Open
    \/ f = Open /\ g.kind \in {"follows", "settled"}

TakesOver(f, g, after) ==
    /\ f.kind = "follows"
    /\ after[f.of].kind = "settled"
    /\ g = Destined(after[f.of].state, after[f.of].value)

Completes(f, g) == f.kind = "destined" /\ g = SettledAs(f.state, f.value)

Next ==
    \A p \in Promises :
        \/ Keeps(fate[p], fate'[p], fate')
        \/ Decides(fate[p], fate'[p])
        \/ TakesOver(fate[p], fate'[p], fate')
        \/ Completes(fate[p], fate'[p])

Spec == Init /\ [][Next]_fate

=============================================================================
