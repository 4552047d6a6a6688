----------------------------- MODULE RequestQueue -----------------------------
(***************************************************************************)
(* What an async generator promises its consumers.  Requests are numbered  *)
(* as they arrive and answered one by one in that order.  The generator    *)
(* closes at most once, on behalf of the request it serves; an answer is   *)
(* final (done, or a rejection) if and only if it is given after that.     *)
(***************************************************************************)
EXTENDS Naturals

CONSTANTS
    Requests,     \* the numbers of the requests
    Answer,       \* what can be answered: records with a field `final`
    NoAnswer

VARIABLES
    asked,        \* how many requests have arrived
    served,       \* how many have been answered
    answer,       \* the answer of each request
    closed        \* whether the generator has finished

vars == <<asked, served, answer, closed>>

Init ==
    /\ asked = 0
    /\ served = 0
    /\ answer = [r \in Requests |-> NoAnswer]
    /\ closed = FALSE

Ask ==
    /\ asked + 1 \in Requests
    /\ asked' = asked + 1
    /\ UNCHANGED <<served, answer, closed>>

Close ==
    /\ served < asked
    /\ ~closed
    /\ closed' = TRUE
    /\ UNCHANGED <<asked, served, answer>>

Serve ==
    /\ served < asked
    /\ \E a \in Answer :
          /\ a.final = closed
          /\ answer' = [answer EXCEPT ![served + 1] = a]
    /\ served' = served + 1
    /\ UNCHANGED <<asked, closed>>

Next == Ask \/ Close \/ Serve

Spec == Init /\ [][Next]_vars

=============================================================================
