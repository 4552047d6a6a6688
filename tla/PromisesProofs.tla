---------------------------- MODULE PromisesProofs ----------------------------
(***************************************************************************)
(* A promise is settled once and by what it was resolved with, a reaction  *)
(* runs once and in its turn, and a suspended coroutine is resumed once,   *)
(* for any number of promises, pairs and coroutines and however user code, *)
(* getters and drains nest: proofs of the safety properties of Promises    *)
(* and of its refinement of PromiseFate.                                   *)
(***************************************************************************)
EXTENDS Promises, TLAPS, FiniteSetTheorems

-----------------------------------------------------------------------------
(* What the state is made of.                                               *)

\* What a promise is settled with: never a promise, which is adopted instead.
Directs == Plain \cup Thenables \cup {TypeError, Undefined}

Reaction ==
    [kind : {"then"}, pair : Nat, f : BOOLEAN, r : BOOLEAN]
    \cup [kind : {"adopt", "thenable"}, promise : Promises]
    \cup [kind : {"await"}, co : Coroutines]

Job == [reaction : Reaction, state : States, value : Directs]

Callee == {"executor", "thenable", "handler"}

Frame ==
    [kind : Callee, pair : Nat]
    \cup [kind : {"getter"}, promise : Promises, value : Thenables]
    \cup [kind : {"coroutine"}, co : Coroutines]
    \cup [kind : {"drain"}, outermost : BOOLEAN]
    \cup [kind : {"script"}]

PromiseTypes ==
    promise \in [Promises -> [state : {"none", "pending"} \cup States,
                              value : Directs, reactions : Seq(Reaction)]]

PairTypes ==
    pairs \in Seq([promise : Promises, source : Promises \cup {0},
                   already : BOOLEAN, ran : Nat])

CallTypes ==
    /\ stack \in Seq(Frame)
    /\ co \in [Coroutines -> [state : {"idle", "running", "suspended", "done"},
                              result : Promises \cup {0}, vm : Nat]]
    /\ draining \in BOOLEAN /\ evals \in Nat

QueueTypes == queue \in Seq(Job) /\ cursor \in 0 .. Len(queue)

Types == PromiseTypes /\ PairTypes /\ QueueTypes /\ CallTypes

-----------------------------------------------------------------------------
(* Where a reaction waits.                                                  *)

\* The reactions of one call of `then`, of one coroutine's await, and those
\* that will settle p.
Thens(k) == {r \in Reaction : r.kind = "then" /\ r.pair = k}
Awaits(c) == {r \in Reaction : r.kind = "await" /\ r.co = c}
Adopts(p) == {r \in Reaction : r.kind \in {"adopt", "thenable"} /\ r.promise = p}

\* The places where a reaction of S waits: in the list of a promise, or, under
\* the number 0, in the queue.
PlacesIn(lists, jobs, taken, S) ==
    {<<0, i>> : i \in {i \in DOMAIN jobs : i > taken /\ jobs[i].reaction \in S}}
    \cup UNION {{<<q, i>> : i \in {i \in DOMAIN lists[q] : lists[q][i] \in S}}
                  : q \in Promises}

Places(S) == PlacesIn(Reactions, queue, cursor, S)

Single(P) == \E x : P = {x}

\* The other ways to settle p.
PairWays(p) == {k \in DOMAIN pairs : pairs[k].promise = p /\ ~pairs[k].already}
GettersIn(calls, p) == {i \in DOMAIN calls : calls[i].kind = "getter" /\ calls[i].promise = p}
GetterWays(p) == GettersIn(stack, p)
CoWays(p) == {c \in Coroutines : co[c].state \in {"running", "suspended"}
                                 /\ co[c].result = p}

-----------------------------------------------------------------------------
(* The inductive invariant.                                                 *)

\* Pairs, coroutines and waiting reactions refer to what exists, and only a
\* pending promise has a list.
Refers ==
    /\ \A k \in DOMAIN pairs :
          Born(pairs[k].promise) /\ (pairs[k].source # 0 => Born(pairs[k].source))
    /\ \A c \in Coroutines : co[c].state # "idle" =>
                                co[c].result \in Promises /\ Born(co[c].result)
    /\ \A p \in Promises : ~Pending(p) => Reactions[p] = <<>>

\* The calls in progress: each refers to a pair or a running coroutine, the
\* first one is a script or the drain after it, and the first drain is the
\* outermost one.
CallsRefer(calls, run, known) ==
    \A i \in DOMAIN calls :
        /\ calls[i].kind \in Callee => calls[i].pair \in known
        /\ calls[i].kind = "coroutine" => calls[i].co \in run
        /\ calls[i].kind = "script" => i = 1
        /\ i = 1 => calls[i].kind \in {"script", "drain"}

OutermostFirst(calls) ==
    \A i \in DOMAIN calls : calls[i].kind = "drain" =>
        (calls[i].outermost <=> \A j \in 1 .. (i - 1) : calls[j].kind # "drain")

RunOnce(calls, run) ==
    /\ \A i, j \in DOMAIN calls :
          calls[i].kind = "coroutine" /\ calls[j].kind = "coroutine"
             /\ calls[i].co = calls[j].co => i = j
    /\ \A c \in run : \E i \in DOMAIN calls : calls[i].kind = "coroutine" /\ calls[i].co = c

Drains(calls, drains) == drains <=> \E i \in DOMAIN calls : calls[i].kind = "drain"

CallsOf(calls, run, drains, known) ==
    /\ CallsRefer(calls, run, known) /\ OutermostFirst(calls)
    /\ RunOnce(calls, run) /\ Drains(calls, drains)

Run == {c \in Coroutines : co[c].state = "running"}

Calls ==
    /\ CallsOf(stack, Run, draining, DOMAIN pairs)
    /\ stack = <<>> => queue = <<>>

\* The ways to settle p.
OneOf(A, B, C, D) ==
    \/ Single(A) /\ B = {} /\ C = {} /\ D = {}
    \/ A = {} /\ Single(B) /\ C = {} /\ D = {}
    \/ A = {} /\ B = {} /\ Single(C) /\ D = {}
    \/ A = {} /\ B = {} /\ C = {} /\ Single(D)

NoneOf(A, B, C, D) == A = {} /\ B = {} /\ C = {} /\ D = {}

OneWay(p) == OneOf(PairWays(p), GetterWays(p), CoWays(p), Places(Adopts(p)))

NoWay(p) == NoneOf(PairWays(p), GetterWays(p), CoWays(p), Places(Adopts(p)))

WaysInv == \A p \in Promises : IF Pending(p) THEN OneWay(p) ELSE NoWay(p)

\* Each registered reaction is in one place until it runs.
ThensInv ==
    /\ \A k \in Nat : k \notin ThenPairs => Places(Thens(k)) = {}
    /\ \A k \in ThenPairs :
          \/ pairs[k].ran = 0 /\ Single(Places(Thens(k)))
          \/ pairs[k].ran = 1 /\ Places(Thens(k)) = {}

AwaitsInv ==
    \A c \in Coroutines :
        IF co[c].state = "suspended"
        THEN Single(Places(Awaits(c))) \/ (Poisonable /\ Places(Awaits(c)) = {})
        ELSE Places(Awaits(c)) = {}

\* The promise on which each reaction was registered, and the settled ones.
Sources == [k \in ThenPairs |-> pairs[k].source]

Done == {q \in Promises : promise[q].state \in States}

\* Lists and queue hold the reactions of one promise in order: in its list
\* while it is pending, in the queue once it is settled.
ListedInOrder(lists, source) ==
    \A q \in Promises : \A i \in DOMAIN lists[q] : lists[q][i].kind = "then" =>
        /\ lists[q][i].pair \in DOMAIN source /\ source[lists[q][i].pair] = q
        /\ \A j \in 1 .. (i - 1) : lists[q][j].kind = "then" =>
                lists[q][j].pair < lists[q][i].pair

InTurn(jobs, taken, source, done, i) ==
    /\ jobs[i].reaction.pair \in DOMAIN source
    /\ source[jobs[i].reaction.pair] \in done
    /\ \A j \in (taken + 1) .. (i - 1) :
          jobs[j].reaction.kind = "then"
             /\ source[jobs[j].reaction.pair] = source[jobs[i].reaction.pair]
            => jobs[j].reaction.pair < jobs[i].reaction.pair

QueuedInOrder(jobs, taken, source, done) ==
    \A i \in DOMAIN jobs : i > taken /\ jobs[i].reaction.kind = "then" =>
        InTurn(jobs, taken, source, done, i)

OrderInv ==
    /\ ListedInOrder(Reactions, Sources)
    /\ QueuedInOrder(queue, cursor, Sources, Done)
    /\ ReactionsInOrder

IInv == Types /\ Refers /\ Calls /\ WaysInv /\ ThensInv /\ AwaitsInv /\ OrderInv
-----------------------------------------------------------------------------
(* Places when reactions move.                                              *)

\* What is in which place.
LEMMA PlaceIff ==
    ASSUME NEW R, NEW J, NEW c, NEW S
    PROVE  /\ \A a, b : <<a, b>> \in PlacesIn(R, J, c, S) <=>
                 \/ a = 0 /\ b \in DOMAIN J /\ b > c /\ J[b].reaction \in S
                 \/ a \in Promises /\ b \in DOMAIN R[a] /\ R[a][b] \in S
           /\ \A w \in PlacesIn(R, J, c, S) : w = <<w[1], w[2]>>
BY DEF PlacesIn

Lists == [Promises -> Seq(Reaction)]

Listed(R, q, r) == [R EXCEPT ![q] = Append(@, r)]

\* A reaction is appended to the list of a pending promise.
LEMMA ListedPlaces ==
    ASSUME NEW R \in Lists, NEW J, NEW c, NEW S, NEW q \in Promises, NEW r \in Reaction
    PROVE  PlacesIn(Listed(R, q, r), J, c, S) =
             PlacesIn(R, J, c, S) \cup (IF r \in S THEN {<<q, Len(R[q]) + 1>>} ELSE {})
<1> DEFINE R2 == Listed(R, q, r)
           P == PlacesIn(R, J, c, S)
           P2 == PlacesIn(R2, J, c, S)
           N == IF r \in S THEN {<<q, Len(R[q]) + 1>>} ELSE {}
<1>1. /\ \A a \in Promises : a # q => R2[a] = R[a]
      /\ R2[q] = Append(R[q], r)
      /\ DOMAIN R2[q] = DOMAIN R[q] \cup {Len(R[q]) + 1}
      /\ \A i \in DOMAIN R[q] : R2[q][i] = R[q][i]
      /\ R2[q][Len(R[q]) + 1] = r
      /\ Len(R[q]) + 1 \notin DOMAIN R[q]
  BY DEF Lists, Listed
<1>2. 0 \notin Promises
  BY PromisesAssumption
<1>3. ASSUME NEW a, NEW b
      PROVE  <<a, b>> \in P2 <=> <<a, b>> \in P \cup N
  <2>1. <<a, b>> \in P2 <=>
           \/ a = 0 /\ b \in DOMAIN J /\ b > c /\ J[b].reaction \in S
           \/ a \in Promises /\ b \in DOMAIN R2[a] /\ R2[a][b] \in S
    BY PlaceIff
  <2>2. <<a, b>> \in P <=>
           \/ a = 0 /\ b \in DOMAIN J /\ b > c /\ J[b].reaction \in S
           \/ a \in Promises /\ b \in DOMAIN R[a] /\ R[a][b] \in S
    BY PlaceIff
  <2>3. <<a, b>> \in N <=> r \in S /\ a = q /\ b = Len(R[q]) + 1
    OBVIOUS
  <2> QED
    BY <1>1, <1>2, <2>1, <2>2, <2>3
<1>4. /\ \A w \in P : w = <<w[1], w[2]>>
      /\ \A w \in P2 : w = <<w[1], w[2]>>
      /\ \A w \in N : w = <<w[1], w[2]>>
  BY PlaceIff
<1>5. P2 = P \cup N
  <2> HIDE DEF P, P2, N
  <2> QED
    BY <1>3, <1>4
<1> QED
  BY <1>5

\* A job is appended to the queue.
LEMMA QueuedPlaces ==
    ASSUME NEW R, NEW J \in Seq(Job), NEW c \in 0 .. Len(J), NEW S, NEW j \in Job
    PROVE  PlacesIn(R, Append(J, j), c, S) =
             PlacesIn(R, J, c, S) \cup
               (IF j.reaction \in S THEN {<<0, Len(J) + 1>>} ELSE {})
<1> DEFINE J2 == Append(J, j)
           P == PlacesIn(R, J, c, S)
           P2 == PlacesIn(R, J2, c, S)
           N == IF j.reaction \in S THEN {<<0, Len(J) + 1>>} ELSE {}
<1>1. /\ DOMAIN J2 = DOMAIN J \cup {Len(J) + 1}
      /\ \A i \in DOMAIN J : J2[i] = J[i]
      /\ J2[Len(J) + 1] = j
      /\ Len(J) + 1 \notin DOMAIN J /\ Len(J) + 1 > c
  OBVIOUS
<1>2. 0 \notin Promises
  BY PromisesAssumption
<1> HIDE DEF J2
<1>3. ASSUME NEW a, NEW b
      PROVE  <<a, b>> \in P2 <=> <<a, b>> \in P \cup N
  <2>1. <<a, b>> \in P2 <=>
           \/ a = 0 /\ b \in DOMAIN J2 /\ b > c /\ J2[b].reaction \in S
           \/ a \in Promises /\ b \in DOMAIN R[a] /\ R[a][b] \in S
    BY PlaceIff
  <2>2. <<a, b>> \in P <=>
           \/ a = 0 /\ b \in DOMAIN J /\ b > c /\ J[b].reaction \in S
           \/ a \in Promises /\ b \in DOMAIN R[a] /\ R[a][b] \in S
    BY PlaceIff
  <2>3. <<a, b>> \in N <=> j.reaction \in S /\ a = 0 /\ b = Len(J) + 1
    OBVIOUS
  <2> QED
    BY <1>1, <1>2, <2>1, <2>2, <2>3
<1>4. /\ \A w \in P : w = <<w[1], w[2]>>
      /\ \A w \in P2 : w = <<w[1], w[2]>>
      /\ \A w \in N : w = <<w[1], w[2]>>
  BY PlaceIff
<1>5. P2 = P \cup N
  <2> HIDE DEF P, P2, N
  <2> QED
    BY <1>3, <1>4
<1> QED
  BY <1>5 DEF J2

\* A job is taken from the queue.
LEMMA TakenPlaces ==
    ASSUME NEW R, NEW J \in Seq(Job), NEW c \in Nat, c < Len(J), NEW S
    PROVE  /\ PlacesIn(R, J, c + 1, S) \subseteq PlacesIn(R, J, c, S)
           /\ \A w \in PlacesIn(R, J, c, S) :
                w \in PlacesIn(R, J, c + 1, S) \/ w = <<0, c + 1>>
           /\ <<0, c + 1>> \notin PlacesIn(R, J, c + 1, S)
           /\ <<0, c + 1>> \in PlacesIn(R, J, c, S) <=> J[c + 1].reaction \in S
<1> DEFINE P == PlacesIn(R, J, c, S)
           P2 == PlacesIn(R, J, c + 1, S)
<1>1. ASSUME NEW a, NEW b
      PROVE  /\ <<a, b>> \in P2 <=>
                  \/ a = 0 /\ b \in DOMAIN J /\ b > c + 1 /\ J[b].reaction \in S
                  \/ a \in Promises /\ b \in DOMAIN R[a] /\ R[a][b] \in S
             /\ <<a, b>> \in P <=>
                  \/ a = 0 /\ b \in DOMAIN J /\ b > c /\ J[b].reaction \in S
                  \/ a \in Promises /\ b \in DOMAIN R[a] /\ R[a][b] \in S
  BY PlaceIff
<1>2. /\ \A w \in P : w = <<w[1], w[2]>>
      /\ \A w \in P2 : w = <<w[1], w[2]>>
  BY PlaceIff
<1>3. 0 \notin Promises
  BY PromisesAssumption
<1>4. ASSUME NEW a, NEW b, <<a, b>> \in P
      PROVE  <<a, b>> \in P2 \/ (a = 0 /\ b = c + 1)
  BY <1>1, <1>4
<1>5. ASSUME NEW a, NEW b, <<a, b>> \in P2 PROVE <<a, b>> \in P
  BY <1>1, <1>5
<1>6. <<0, c + 1>> \notin P2 /\ (<<0, c + 1>> \in P <=> J[c + 1].reaction \in S)
  BY <1>1, <1>3
<1> HIDE DEF P, P2
<1>7. P2 \subseteq P /\ \A w \in P : w \in P2 \/ w = <<0, c + 1>>
  BY <1>2, <1>4, <1>5
<1> QED
  BY <1>6, <1>7 DEF P, P2

\* A job says what it was made of.
LEMMA JobParts ==
    \A r, state, value :
        LET j == ReactionJob(r, state, value)
        IN  j.reaction = r /\ j.state = state /\ j.value = value
BY DEF ReactionJob

\* The jobs made of a list.
FlushedIn(J, L, state, value) == J \o [i \in DOMAIN L |-> ReactionJob(L[i], state, value)]

LEMMA FlushedJobs ==
    ASSUME NEW J \in Seq(Job), NEW L \in Seq(Reaction), NEW state \in States,
           NEW value \in Directs
    PROVE  LET J2 == FlushedIn(J, L, state, value)
           IN  /\ J2 \in Seq(Job)
               /\ Len(J2) = Len(J) + Len(L)
               /\ \A i \in 1 .. Len(J) : J2[i] = J[i]
               /\ \A i \in 1 .. Len(L) :
                    J2[Len(J) + i] = ReactionJob(L[i], state, value)
<1> DEFINE M == [i \in DOMAIN L |-> ReactionJob(L[i], state, value)]
<1>1. M \in Seq(Job)
  <2>1. DOMAIN L = 1 .. Len(L) /\ Len(L) \in Nat /\ \A i \in DOMAIN L : L[i] \in Reaction
    OBVIOUS
  <2>2. \A i \in DOMAIN L : ReactionJob(L[i], state, value) \in Job
    BY <2>1 DEF Job, ReactionJob
  <2> HIDE DEF Job
  <2>3. M \in [1 .. Len(L) -> Job]
    BY <2>1, <2>2
  <2> QED
    BY <2>1, <2>3
<1>2. Len(M) = Len(L) /\ \A i \in 1 .. Len(L) : M[i] = ReactionJob(L[i], state, value)
  BY <1>1
<1> HIDE DEF M
<1>3. /\ J \o M \in Seq(Job)
      /\ Len(J \o M) = Len(J) + Len(M)
      /\ \A i \in 1 .. Len(J) : (J \o M)[i] = J[i]
      /\ \A i \in 1 .. Len(M) : (J \o M)[Len(J) + i] = M[i]
  BY <1>1
<1> QED
  BY <1>2, <1>3 DEF M, FlushedIn

\* A list moves to the queue.
LEMMA FlushedPlaces ==
    ASSUME NEW R \in Lists, NEW J \in Seq(Job), NEW c \in 0 .. Len(J), NEW S,
           NEW p \in Promises, NEW state \in States, NEW value \in Directs
    PROVE  LET P == PlacesIn(R, J, c, S)
               P2 == PlacesIn([R EXCEPT ![p] = <<>>], FlushedIn(J, R[p], state, value), c, S)
           IN  (P = {} => P2 = {}) /\ (Single(P) => Single(P2))
<1> DEFINE P == PlacesIn(R, J, c, S)
           R2 == [R EXCEPT ![p] = <<>>]
           J2 == FlushedIn(J, R[p], state, value)
           P2 == PlacesIn(R2, J2, c, S)
<1>1. R[p] \in Seq(Reaction) /\ Len(R[p]) \in Nat
  BY DEF Lists
<1>2. /\ Len(J2) = Len(J) + Len(R[p])
      /\ DOMAIN J2 = 1 .. (Len(J) + Len(R[p]))
      /\ \A i \in 1 .. Len(J) : J2[i] = J[i]
      /\ \A i \in 1 .. Len(R[p]) : J2[Len(J) + i].reaction = R[p][i]
  <2>1. /\ J2 \in Seq(Job)
        /\ Len(J2) = Len(J) + Len(R[p])
        /\ \A i \in 1 .. Len(J) : J2[i] = J[i]
        /\ \A i \in 1 .. Len(R[p]) : J2[Len(J) + i] = ReactionJob(R[p][i], state, value)
    BY <1>1, FlushedJobs
  <2>2. \A i \in 1 .. Len(R[p]) : J2[Len(J) + i].reaction = R[p][i]
    BY <2>1, JobParts
  <2> HIDE DEF J2
  <2> QED
    BY <2>1, <2>2
<1>3. /\ \A a \in Promises : a # p => R2[a] = R[a]
      /\ R2[p] = <<>> /\ DOMAIN R2[p] = {}
      /\ DOMAIN R[p] = 1 .. Len(R[p])
      /\ DOMAIN J = 1 .. Len(J)
  BY <1>1 DEF Lists
<1>4. 0 \notin Promises
  BY PromisesAssumption
<1> HIDE DEF R2, J2
<1>5. ASSUME NEW a, NEW b
      PROVE  /\ <<a, b>> \in P <=>
                  \/ a = 0 /\ b \in DOMAIN J /\ b > c /\ J[b].reaction \in S
                  \/ a \in Promises /\ b \in DOMAIN R[a] /\ R[a][b] \in S
             /\ <<a, b>> \in P2 <=>
                  \/ a = 0 /\ b \in DOMAIN J2 /\ b > c /\ J2[b].reaction \in S
                  \/ a \in Promises /\ b \in DOMAIN R2[a] /\ R2[a][b] \in S
  BY PlaceIff
<1>6. /\ \A w \in P : w = <<w[1], w[2]>>
      /\ \A w \in P2 : w = <<w[1], w[2]>>
  BY PlaceIff
<1> HIDE DEF P, P2
<1>7. ASSUME NEW a, NEW b, <<a, b>> \in P2
      PROVE  \/ a = 0 /\ b \in 1 .. Len(J) /\ <<0, b>> \in P
             \/ a = 0 /\ b \in (Len(J) + 1) .. (Len(J) + Len(R[p])) /\ <<p, b - Len(J)>> \in P
             \/ a \in Promises \ {p} /\ <<a, b>> \in P
  <2>1. CASE a \in Promises
    BY <2>1, <1>3, <1>4, <1>5, <1>7
  <2>2. CASE a = 0 /\ b \in 1 .. Len(J)
    BY <2>2, <1>2, <1>3, <1>4, <1>5, <1>7
  <2>3. CASE a = 0 /\ b \in (Len(J) + 1) .. (Len(J) + Len(R[p]))
    <3>1. b - Len(J) \in 1 .. Len(R[p]) /\ b = Len(J) + (b - Len(J))
      BY <2>3, <1>1
    <3>2. J2[b].reaction = R[p][b - Len(J)]
      BY <3>1, <1>2
    <3>3. J2[b].reaction \in S
      BY <2>3, <1>4, <1>5, <1>7
    <3> QED
      BY <2>3, <3>1, <3>2, <3>3, <1>3, <1>5
  <2> QED
    BY <2>1, <2>2, <2>3, <1>1, <1>2, <1>5, <1>7
<1>8. P = {} => P2 = {}
  BY <1>6, <1>7
<1>9. ASSUME Single(P) PROVE Single(P2)
  <2>1. PICK x : P = {x}
    BY <1>9 DEF Single
  <2>2. PICK y, z : x = <<y, z>>
    BY <2>1, <1>6
  <2>3. CASE y = p
    <3>1. z \in 1 .. Len(R[p]) /\ R[p][z] \in S
      BY <2>1, <2>2, <2>3, <1>3, <1>4, <1>5
    <3>2. <<0, Len(J) + z>> \in P2
      <4>1. PICK b \in Nat : b = Len(J) + z
        BY <3>1, <1>1
      <4>2. b \in DOMAIN J2 /\ b > c
        BY <3>1, <4>1, <1>1, <1>2
      <4>3. J2[b].reaction = R[p][z]
        BY <3>1, <4>1, <1>2
      <4>4. <<0, b>> \in P2
        BY <3>1, <4>2, <4>3, <1>5
      <4> QED
        BY <4>1, <4>4
    <3>3. ASSUME NEW a, NEW b, <<a, b>> \in P2 PROVE a = 0 /\ b = Len(J) + z
      <4>1. ASSUME NEW u, NEW w, <<u, w>> \in P PROVE u = p /\ w = z
        BY <4>1, <2>1, <2>2, <2>3
      <4>2. ASSUME a = 0, b \in (Len(J) + 1) .. (Len(J) + Len(R[p])), <<p, b - Len(J)>> \in P
            PROVE  b = Len(J) + z
        <5>1. b - Len(J) = z
          BY <4>1, <4>2
        <5> QED
          BY <5>1, <4>2, <1>1
      <4> QED
        BY <3>3, <1>4, <1>7, <4>1, <4>2
    <3>4. P2 = {<<0, Len(J) + z>>}
      BY <3>2, <3>3, <1>6
    <3> QED
      BY <3>4 DEF Single
  <2>4. CASE y # p
    <3>1. <<y, z>> \in P2
      BY <2>1, <2>2, <2>4, <1>1, <1>2, <1>3, <1>5
    <3>2. ASSUME NEW a, NEW b, <<a, b>> \in P2 PROVE a = y /\ b = z
      BY <3>2, <1>1, <1>4, <1>7, <2>1, <2>2, <2>4
    <3>3. P2 = {<<y, z>>}
      BY <3>1, <3>2, <1>6
    <3> QED
      BY <3>3 DEF Single
  <2> QED
    BY <2>3, <2>4
<1> QED
  BY <1>8, <1>9 DEF P, P2, R2, J2

-----------------------------------------------------------------------------
(* What a step does to the places.                                          *)

\* A step takes at most one job from the queue.
CursorMoves == cursor' \in {cursor, cursor + 1} /\ cursor' <= Len(queue)

\* The places once that job is taken.
Later(S) == PlacesIn(Reactions, queue, cursor', S)

Carries(S) ==
    /\ Later(S) = {} => Places(S)' = {}
    /\ Single(Later(S)) => Single(Places(S)')

Gains(S) == Later(S) = {} => Single(Places(S)')

\* No reaction moves; those of p move to the queue; r is added.
Still == Reactions' = Reactions /\ queue' = queue

Flushes(p) ==
    \E state \in States, value \in Directs :
        /\ Reactions' = [Reactions EXCEPT ![p] = <<>>]
        /\ queue' = FlushedIn(queue, Reactions[p], state, value)

AddsToList(q, r) ==
    Reactions' = Listed(Reactions, q, r) /\ queue' = queue

AddsToQueue(r) ==
    /\ Reactions' = Reactions
    /\ \E j \in Job : j.reaction = r /\ queue' = Append(queue, j)

LEMMA ReactionsType ==
    ASSUME PromiseTypes
    PROVE  Reactions \in Lists /\ \A q \in Promises : Reactions[q] = promise[q].reactions
BY DEF PromiseTypes, Reactions, Lists

LEMMA StillPlaces == Still => \A S : Places(S)' = Later(S)
BY DEF Still, Places, Later

LEMMA FlushesPlaces ==
    ASSUME PromiseTypes, QueueTypes, CursorMoves, NEW p \in Promises, Flushes(p)
    PROVE  \A S : Carries(S)
<1> SUFFICES ASSUME NEW S PROVE Carries(S)
  OBVIOUS
<1>1. PICK state \in States, value \in Directs :
        /\ Reactions' = [Reactions EXCEPT ![p] = <<>>]
        /\ queue' = FlushedIn(queue, Reactions[p], state, value)
  BY DEF Flushes
<1>2. Reactions \in Lists /\ queue \in Seq(Job) /\ cursor' \in 0 .. Len(queue)
  BY ReactionsType DEF QueueTypes, CursorMoves
<1> QED
  BY <1>1, <1>2, FlushedPlaces DEF Carries, Later, Places

LEMMA AddsToListPlaces ==
    ASSUME PromiseTypes, NEW q \in Promises, NEW r \in Reaction, AddsToList(q, r)
    PROVE  \A S : IF r \in S THEN Gains(S) ELSE Places(S)' = Later(S)
<1> SUFFICES ASSUME NEW S PROVE IF r \in S THEN Gains(S) ELSE Places(S)' = Later(S)
  OBVIOUS
<1>1. Places(S)' = Later(S) \cup (IF r \in S THEN {<<q, Len(Reactions[q]) + 1>>} ELSE {})
  <2>1. Reactions \in Lists
    BY ReactionsType
  <2>2. PlacesIn(Reactions', queue, cursor', S) =
          Later(S) \cup (IF r \in S THEN {<<q, Len(Reactions[q]) + 1>>} ELSE {})
    BY <2>1, ListedPlaces DEF Later, AddsToList
  <2> QED
    BY <2>2 DEF AddsToList, Places
<1> QED
  BY <1>1 DEF Gains, Single

LEMMA AddsToQueuePlaces ==
    ASSUME QueueTypes, CursorMoves, NEW r \in Reaction, AddsToQueue(r)
    PROVE  \A S : IF r \in S THEN Gains(S) ELSE Places(S)' = Later(S)
<1> SUFFICES ASSUME NEW S PROVE IF r \in S THEN Gains(S) ELSE Places(S)' = Later(S)
  OBVIOUS
<1>1. PICK j \in Job : j.reaction = r /\ queue' = Append(queue, j)
  BY DEF AddsToQueue
<1>2. queue \in Seq(Job) /\ cursor' \in 0 .. Len(queue)
  BY DEF QueueTypes, CursorMoves
<1>3. Places(S)' = Later(S) \cup (IF r \in S THEN {<<0, Len(queue) + 1>>} ELSE {})
  BY <1>1, <1>2, QueuedPlaces DEF AddsToQueue, Places, Later
<1> QED
  BY <1>3 DEF Gains, Single

\* What taking a job leaves.
LEMMA LaterPlaces ==
    ASSUME QueueTypes, CursorMoves
    PROVE  /\ cursor' = cursor => \A S : Later(S) = Places(S)
           /\ \A S : Places(S) = {} => Later(S) = {}
           /\ cursor' = cursor + 1 => \A S :
                 IF queue[cursor + 1].reaction \in S
                 THEN Places(S) # {} /\ (Single(Places(S)) => Later(S) = {})
                 ELSE Later(S) = Places(S)
<1>1. cursor' = cursor => \A S : Later(S) = Places(S)
  BY DEF Later, Places
<1>2. ASSUME cursor' = cursor + 1, NEW S
      PROVE  /\ Places(S) = {} => Later(S) = {}
             /\ IF queue[cursor + 1].reaction \in S
                 THEN Places(S) # {} /\ (Single(Places(S)) => Later(S) = {})
                 ELSE Later(S) = Places(S)
  <2>1. queue \in Seq(Job) /\ cursor \in Nat /\ cursor < Len(queue)
    BY <1>2 DEF QueueTypes, CursorMoves
  <2>2. /\ Later(S) \subseteq Places(S)
        /\ \A w \in Places(S) : w \in Later(S) \/ w = <<0, cursor + 1>>
        /\ <<0, cursor + 1>> \notin Later(S)
        /\ <<0, cursor + 1>> \in Places(S) <=> queue[cursor + 1].reaction \in S
    BY <1>2, <2>1, TakenPlaces DEF Later, Places
  <2> QED
    BY <2>2 DEF Single
<1> QED
  BY <1>1, <1>2 DEF CursorMoves

\* Reactions of different kinds, and of different owners, are different.
LEMMA Owners ==
    /\ \A k \in Nat, f, r \in BOOLEAN :
          ThenReaction(k, f, r) \in Reaction /\ ThenReaction(k, f, r) \in Thens(k)
    /\ \A p \in Promises :
          /\ AdoptReaction(p) \in Reaction /\ AdoptReaction(p) \in Adopts(p)
          /\ ThenableJob(p).reaction \in Reaction /\ ThenableJob(p).reaction \in Adopts(p)
    /\ \A c \in Coroutines : AwaitReaction(c) \in Reaction /\ AwaitReaction(c) \in Awaits(c)
BY DEF Reaction, ThenReaction, AdoptReaction, AwaitReaction, ThenableJob, Thens, Adopts, Awaits

LEMMA OwnersDiffer ==
    /\ \A k, p : Thens(k) \cap Adopts(p) = {}
    /\ \A k, c : Thens(k) \cap Awaits(c) = {}
    /\ \A p, c : Adopts(p) \cap Awaits(c) = {}
    /\ \A j, k : j # k => Thens(j) \cap Thens(k) = {}
    /\ \A p, q : p # q => Adopts(p) \cap Adopts(q) = {}
    /\ \A c, d : c # d => Awaits(c) \cap Awaits(d) = {}
BY DEF Thens, Adopts, Awaits

-----------------------------------------------------------------------------
(* What a resolution does (promiseResolveData, promiseRejectData and        *)
(* settlePromise): it finds p settled, settles it, makes it follow another  *)
(* promise, or stops in the getter of a thenable.                           *)

Ignored(p, st) == ~Pending(p) /\ stack' = st /\ UNCHANGED <<promise, queue>>

Settles(p, st) ==
    /\ Pending(p) /\ stack' = st
    /\ \E state \in States, value \in Directs :
          promise' = Settled(p, state, value) /\ queue' = Flushed(p, state, value)

Follows(p, st) ==
    /\ Pending(p) /\ stack' = st /\ queue' = queue
    /\ \E q \in Promises \ {p} :
          /\ Pending(q)
          /\ promise' = [promise EXCEPT ![q].reactions = Append(@, AdoptReaction(p))]

Getter(p, v) == [kind |-> "getter", promise |-> p, value |-> v]

Asks(p, st) ==
    /\ Pending(p) /\ UNCHANGED <<promise, queue>>
    /\ \E v \in Thenables : stack' = Append(st, Getter(p, v))

Resolution(p, st) == Ignored(p, st) \/ Settles(p, st) \/ Follows(p, st) \/ Asks(p, st)

LEMMA SettleCases ==
    ASSUME NEW p \in Promises, NEW st, NEW state \in States, NEW value \in Directs,
           Settle(p, state, value, st)
    PROVE  Ignored(p, st) \/ Settles(p, st)
BY DEF Settle, Ignored, Settles

LEMMA RejectCases ==
    ASSUME NEW p \in Promises, NEW st, NEW v \in Directs, RejectData(p, v, st)
    PROVE  Ignored(p, st) \/ Settles(p, st)
BY SettleCases DEF RejectData, States

LEMMA AdoptCases ==
    ASSUME PromiseTypes, NEW p \in Promises, NEW q \in Promises \ {p}, NEW st,
           Pending(p), Born(q), Adopt(p, q, st)
    PROVE  Resolution(p, st)
<1>1. CASE Pending(q)
  BY <1>1 DEF Adopt, Resolution, Follows
<1>2. CASE ~Pending(q)
  <2>1. promise[q].state \in States /\ promise[q].value \in Directs
    BY <1>2 DEF PromiseTypes, Born, Pending
  <2> QED
    BY <1>2, <2>1, SettleCases DEF Adopt, Resolution
<1> QED
  BY <1>1, <1>2

LEMMA ResolveCases ==
    ASSUME PromiseTypes, NEW p \in Promises, NEW st,
           NEW v \in Directs \cup {q \in Promises : Born(q)}, ResolveData(p, v, st)
    PROVE  Resolution(p, st)
<1>1. CASE ~Pending(p)
  BY <1>1 DEF ResolveData, Resolution, Ignored
<1>2. CASE Pending(p) /\ v = p
  <2>1. Settle(p, "rejected", TypeError, st)
    BY <1>2, PromisesAssumption DEF ResolveData
  <2>2. TypeError \in Directs /\ "rejected" \in States
    BY DEF Directs, States
  <2> QED
    BY <2>1, <2>2, SettleCases DEF Resolution
<1>3. CASE Pending(p) /\ v \in Promises \ {p}
  <2>1. Born(v)
    BY <1>3, PromisesAssumption DEF Directs
  <2>2. Adopt(p, v, st)
    BY <1>3, PromisesAssumption DEF ResolveData
  <2> QED
    BY <1>3, <2>1, <2>2, AdoptCases
<1>4. CASE Pending(p) /\ v \in Thenables
  <2>1. v \notin Promises
    BY <1>4, PromisesAssumption
  <2> QED
    BY <1>4, <2>1 DEF ResolveData, Resolution, Asks, Getter
<1>5. CASE Pending(p) /\ v \notin Promises /\ v \notin Thenables
  <2>1. Settle(p, "fulfilled", v, st)
    BY <1>5 DEF ResolveData
  <2>2. v \in Directs /\ "fulfilled" \in States
    BY <1>5 DEF Directs, States
  <2> QED
    BY <2>1, <2>2, SettleCases DEF Resolution
<1> QED
  BY <1>1, <1>2, <1>3, <1>4, <1>5

\* Only the promise that is resolved changes its state, and only one that is
\* pending keeps a list.
Settling(p) ==
    /\ \A q \in Promises : Born(q)' <=> Born(q)
    /\ \A q \in Promises : q # p => (Pending(q)' <=> Pending(q))
    /\ Pending(p)' => Pending(p)
    /\ (\A q \in Promises : ~Pending(q) => Reactions[q] = <<>>)
         => (\A q \in Promises : ~Pending(q) => Reactions[q] = <<>>)'

LEMMA IgnoredEffect ==
    ASSUME NEW p \in Promises, NEW st, Ignored(p, st)
    PROVE  Settling(p) /\ Still
BY DEF Ignored, Settling, Still, Born, Pending, Reactions

LEMMA AsksEffect ==
    ASSUME NEW p \in Promises, NEW st, Asks(p, st)
    PROVE  Settling(p) /\ Still
BY DEF Asks, Settling, Still, Born, Pending, Reactions

LEMMA SettlesEffect ==
    ASSUME PromiseTypes, QueueTypes, NEW p \in Promises, NEW st, Settles(p, st)
    PROVE  /\ Settling(p) /\ Flushes(p) /\ ~Pending(p)'
           /\ PromiseTypes'
           /\ queue' \in Seq(Job) /\ Len(queue') >= Len(queue)
<1>1. PICK state \in States, value \in Directs :
        promise' = Settled(p, state, value) /\ queue' = Flushed(p, state, value)
  BY DEF Settles
<1>2. /\ promise'[p] = [state |-> state, value |-> value, reactions |-> <<>>]
      /\ \A q \in Promises \ {p} : promise'[q] = promise[q]
  BY <1>1 DEF PromiseTypes, Settled
<1>3. /\ Reactions \in Lists /\ Reactions[p] = promise[p].reactions
      /\ Reactions' = [Reactions EXCEPT ![p] = <<>>]
  BY <1>2, ReactionsType DEF Reactions
<1>4. queue' = FlushedIn(queue, Reactions[p], state, value)
  BY <1>1, <1>3 DEF Flushed, FlushedIn
<1>5. Settling(p)
  BY <1>2, <1>3 DEF Settling, Born, Pending, States, Settles, Reactions
<1>6. PromiseTypes'
  BY <1>1, <1>2 DEF PromiseTypes, Settled
<1>7. queue' \in Seq(Job) /\ Len(queue') >= Len(queue)
  BY <1>3, <1>4, FlushedJobs DEF QueueTypes, Lists
<1> QED
  BY <1>2, <1>3, <1>4, <1>5, <1>6, <1>7 DEF Flushes, Pending, States

LEMMA FollowsEffect ==
    ASSUME PromiseTypes, NEW p \in Promises, NEW st, Follows(p, st)
    PROVE  /\ Settling(p) /\ Pending(p)'
           /\ PromiseTypes' /\ queue' = queue
           /\ \E q \in Promises \ {p} : Pending(q) /\ AddsToList(q, AdoptReaction(p))
<1>1. PICK q \in Promises \ {p} :
        /\ Pending(q)
        /\ promise' = [promise EXCEPT ![q].reactions = Append(@, AdoptReaction(p))]
  BY DEF Follows
<1>2. AdoptReaction(p) \in Reaction
  BY Owners
<1>3. /\ \A r \in Promises \ {q} : promise'[r] = promise[r]
      /\ promise'[q].state = promise[q].state /\ promise'[q].value = promise[q].value
      /\ promise'[q].reactions = Append(promise[q].reactions, AdoptReaction(p))
  BY <1>1 DEF PromiseTypes
<1>4. Reactions' = Listed(Reactions, q, AdoptReaction(p))
  BY <1>3, ReactionsType DEF Reactions, Listed
<1>5. PromiseTypes'
  <2> DEFINE R == {"none", "pending"} \cup States
             Q == Seq(Reaction)
  <2>1. promise[q].reactions \in Q
    BY DEF PromiseTypes
  <2>2. Append(promise[q].reactions, AdoptReaction(p)) \in Q
    BY <1>2, <2>1
  <2> HIDE DEF R, Q
  <2>3. promise \in [Promises -> [state : R, value : Directs, reactions : Q]]
    BY DEF PromiseTypes, R, Q
  <2>4. promise' \in [Promises -> [state : R, value : Directs, reactions : Q]]
    BY <1>1, <2>2, <2>3
  <2> QED
    BY <2>4 DEF PromiseTypes, R, Q
<1>6. Settling(p)
  BY <1>1, <1>3 DEF Settling, Born, Pending, Reactions
<1> QED
  BY <1>1, <1>3, <1>4, <1>5, <1>6 DEF AddsToList, Follows, Pending

-----------------------------------------------------------------------------
(* The ways to settle a promise.                                            *)

\* A call is made, or returns.
LEMMA GettersPushed ==
    ASSUME NEW s \in Seq(Frame), NEW f \in Frame, NEW p
    PROVE  GettersIn(Append(s, f), p) =
             GettersIn(s, p) \cup
               (IF f.kind = "getter" /\ f.promise = p THEN {Len(s) + 1} ELSE {})
<1>1. /\ DOMAIN Append(s, f) = DOMAIN s \cup {Len(s) + 1}
      /\ \A i \in DOMAIN s : Append(s, f)[i] = s[i]
      /\ Append(s, f)[Len(s) + 1] = f
      /\ Len(s) + 1 \notin DOMAIN s
  OBVIOUS
<1> DEFINE t == Append(s, f)
<1> HIDE DEF t
<1> QED
  BY <1>1 DEF GettersIn, t

LEMMA FrontOfCalls ==
    ASSUME NEW s \in Seq(Frame), s # <<>>
    PROVE  /\ Front(s) \in Seq(Frame)
           /\ Last(s) \in Frame /\ Last(s) = s[Len(s)]
           /\ Len(s) \in Nat /\ Len(s) > 0 /\ DOMAIN s = 1 .. Len(s)
           /\ Len(Front(s)) = Len(s) - 1
           /\ DOMAIN Front(s) = DOMAIN s \ {Len(s)}
           /\ \A i \in DOMAIN Front(s) : Front(s)[i] = s[i]
<1>1. Len(s) \in Nat /\ Len(s) > 0 /\ DOMAIN s = 1 .. Len(s)
  OBVIOUS
<1>2. Last(s) = s[Len(s)] /\ s[Len(s)] \in Frame
  BY <1>1 DEF Last
<1>3. /\ Front(s) \in Seq(Frame)
      /\ Len(Front(s)) = Len(s) - 1
      /\ \A i \in 1 .. (Len(s) - 1) : Front(s)[i] = s[i]
  BY <1>1 DEF Front
<1>4. DOMAIN Front(s) = 1 .. (Len(s) - 1)
  BY <1>3
<1>5. DOMAIN Front(s) = DOMAIN s \ {Len(s)}
  BY <1>1, <1>4
<1> QED
  BY <1>1, <1>2, <1>3, <1>4, <1>5

LEMMA GettersPopped ==
    ASSUME NEW s \in Seq(Frame), s # <<>>, NEW p
    PROVE  GettersIn(Front(s), p) = GettersIn(s, p) \ {Len(s)}
BY FrontOfCalls DEF GettersIn

\* The way that is taken is gone, the resolution opens one new way or none.
LEMMA ResolutionWays ==
    ASSUME PromiseTypes, QueueTypes, CursorMoves, WaysInv,
           NEW p \in Promises, NEW st \in Seq(Frame), Resolution(p, st),
           \A q \in Promises \ {p} :
              /\ PairWays(q)' = PairWays(q) /\ CoWays(q)' = CoWays(q)
              /\ GettersIn(st, q) = GetterWays(q)
              /\ Later(Adopts(q)) = Places(Adopts(q)),
           PairWays(p)' = {}, CoWays(p)' = {}, GettersIn(st, p) = {}, Later(Adopts(p)) = {}
    PROVE  WaysInv'
<1>1. ASSUME Settling(p), \A q \in Promises \ {p} : Carries(Adopts(q)),
             \A q \in Promises \ {p} : GetterWays(q)' = GetterWays(q),
             IF Pending(p)' THEN OneWay(p)' ELSE NoWay(p)'
      PROVE  WaysInv'
  <2> SUFFICES ASSUME NEW q \in Promises
               PROVE  IF Pending(q)' THEN OneWay(q)' ELSE NoWay(q)'
    BY DEF WaysInv
  <2>1. CASE q = p
    BY <2>1, <1>1
  <2>2. CASE q # p
    <3>1. IF Pending(q) THEN OneWay(q) ELSE NoWay(q)
      BY DEF WaysInv
    <3>2. Pending(q)' <=> Pending(q)
      BY <1>1, <2>2 DEF Settling
    <3>3. /\ PairWays(q)' = PairWays(q) /\ CoWays(q)' = CoWays(q)
          /\ GetterWays(q)' = GetterWays(q)
          /\ Places(Adopts(q)) = {} => Places(Adopts(q))' = {}
          /\ Single(Places(Adopts(q))) => Single(Places(Adopts(q))')
      BY <1>1, <2>2 DEF Carries
    <3> QED
      BY <3>1, <3>2, <3>3 DEF OneWay, NoWay, OneOf, NoneOf
  <2> QED
    BY <2>1, <2>2
<1>2. CASE Ignored(p, st)
  <2>1. Settling(p) /\ (\A S : Places(S)' = Later(S))
    BY <1>2, IgnoredEffect, StillPlaces
  <2>2. ~Pending(p)'
    BY <1>2, <2>1 DEF Settling, Ignored
  <2>3. \A q : GetterWays(q)' = GettersIn(st, q)
    BY <1>2 DEF Ignored, GetterWays
  <2>4. NoWay(p)'
    BY <2>1, <2>3 DEF NoWay, NoneOf
  <2> QED
    BY <1>1, <2>1, <2>2, <2>3, <2>4 DEF Carries
<1>3. CASE Settles(p, st)
  <2>1. Settling(p) /\ ~Pending(p)' /\ (\A S : Carries(S))
    BY <1>3, SettlesEffect, FlushesPlaces
  <2>2. \A q : GetterWays(q)' = GettersIn(st, q)
    BY <1>3 DEF Settles, GetterWays
  <2>3. NoWay(p)'
    BY <2>1, <2>2 DEF NoWay, NoneOf, Carries
  <2> QED
    BY <1>1, <2>1, <2>2, <2>3
<1>4. CASE Follows(p, st)
  <2>1. PICK q \in Promises \ {p} : AddsToList(q, AdoptReaction(p))
    BY <1>4, FollowsEffect
  <2>2. Settling(p) /\ Pending(p)'
    BY <1>4, FollowsEffect
  <2>3. AdoptReaction(p) \in Reaction /\ AdoptReaction(p) \in Adopts(p)
    BY Owners
  <2>4. \A S : IF AdoptReaction(p) \in S THEN Gains(S) ELSE Places(S)' = Later(S)
    BY <2>1, <2>3, AddsToListPlaces
  <2>5. \A r \in Promises \ {p} : Carries(Adopts(r))
    BY <2>3, <2>4, OwnersDiffer DEF Carries
  <2>6. \A r : GetterWays(r)' = GettersIn(st, r)
    BY <1>4 DEF Follows, GetterWays
  <2>7. Single(Places(Adopts(p))')
    BY <2>3, <2>4 DEF Gains
  <2>8. OneWay(p)'
    BY <2>6, <2>7 DEF OneWay, OneOf
  <2> QED
    BY <1>1, <2>2, <2>5, <2>6, <2>8
<1>5. CASE Asks(p, st)
  <2>1. Settling(p) /\ (\A S : Places(S)' = Later(S))
    BY <1>5, AsksEffect, StillPlaces
  <2>2. PICK v \in Thenables : stack' = Append(st, Getter(p, v))
    BY <1>5 DEF Asks
  <2>3. Getter(p, v) \in Frame /\ Getter(p, v).kind = "getter" /\ Getter(p, v).promise = p
    BY DEF Frame, Getter
  <2>4. /\ \A q \in Promises \ {p} : GetterWays(q)' = GettersIn(st, q)
        /\ GetterWays(p)' = {Len(st) + 1}
    <3> DEFINE g == Getter(p, v)
    <3>1. g \in Frame /\ g.kind = "getter" /\ g.promise = p
      BY <2>3
    <3> HIDE DEF g
    <3>2. \A q : GettersIn(Append(st, g), q) =
                   GettersIn(st, q) \cup (IF p = q THEN {Len(st) + 1} ELSE {})
      BY <3>1, GettersPushed
    <3>3. \A q : GetterWays(q)' = GettersIn(Append(st, g), q)
      BY <2>2 DEF GetterWays, g
    <3> QED
      BY <3>2, <3>3
  <2>5. Pending(p)'
    BY <1>5 DEF Asks, Pending
  <2>6. OneWay(p)'
    BY <2>1, <2>4 DEF OneWay, OneOf, Single
  <2> QED
    BY <1>1, <2>1, <2>4, <2>5, <2>6 DEF Carries
<1> QED
  BY <1>2, <1>3, <1>4, <1>5 DEF Resolution

-----------------------------------------------------------------------------
(* The calls in progress.                                                   *)

LEMMA CallsKnown ==
    ASSUME NEW s, NEW run, NEW d, NEW known, NEW known2, known \subseteq known2,
           CallsOf(s, run, d, known)
    PROVE  CallsOf(s, run, d, known2)
BY DEF CallsOf, CallsRefer

\* A call that is made.
LEMMA PushedCall ==
    ASSUME NEW s \in Seq(Frame), NEW f \in Frame
    PROVE  /\ Append(s, f) \in Seq(Frame)
           /\ Append(s, f) # <<>>
           /\ Len(s) \in Nat /\ DOMAIN s = 1 .. Len(s)
           /\ DOMAIN Append(s, f) = DOMAIN s \cup {Len(s) + 1}
           /\ \A i \in DOMAIN s : Append(s, f)[i] = s[i]
           /\ Append(s, f)[Len(s) + 1] = f
OBVIOUS

LEMMA PushedOutermost ==
    ASSUME NEW s \in Seq(Frame), NEW f \in Frame, OutermostFirst(s),
           f.kind = "drain" => (f.outermost <=> ~\E i \in DOMAIN s : s[i].kind = "drain")
    PROVE  OutermostFirst(Append(s, f))
<1> DEFINE t == Append(s, f)
<1>1. /\ Len(s) \in Nat /\ DOMAIN s = 1 .. Len(s)
      /\ DOMAIN t = DOMAIN s \cup {Len(s) + 1}
      /\ \A i \in DOMAIN s : t[i] = s[i]
      /\ t[Len(s) + 1] = f
  BY PushedCall
<1> HIDE DEF t
<1> SUFFICES ASSUME NEW i \in DOMAIN t, t[i].kind = "drain"
             PROVE  t[i].outermost <=> \A j \in 1 .. (i - 1) : t[j].kind # "drain"
  BY DEF OutermostFirst, t
<1>2. CASE i \in DOMAIN s
  <2>1. \A j \in 1 .. (i - 1) : t[j] = s[j]
    BY <1>1, <1>2
  <2>2. s[i].outermost <=> \A j \in 1 .. (i - 1) : s[j].kind # "drain"
    BY <1>1, <1>2 DEF OutermostFirst
  <2> QED
    BY <1>1, <1>2, <2>1, <2>2
<1>3. CASE i = Len(s) + 1
  <2>1. 1 .. (i - 1) = DOMAIN s
    BY <1>1, <1>3
  <2> QED
    BY <1>1, <1>3, <2>1
<1> QED
  BY <1>1, <1>2, <1>3

LEMMA CallPushed ==
    ASSUME NEW s \in Seq(Frame), s # <<>>, NEW f \in Frame, NEW run, NEW d, NEW known,
           CallsOf(s, run, d, known),
           \/ f.kind = "getter"
           \/ f.kind \in Callee /\ f.pair \in known
    PROVE  CallsOf(Append(s, f), run, d, known)
<1> DEFINE t == Append(s, f)
<1>1. f.kind \notin {"coroutine", "script", "drain"}
  BY DEF Callee
<1>2. OutermostFirst(t)
  BY <1>1, PushedOutermost DEF CallsOf
<1>3. /\ Len(s) \in Nat /\ Len(s) > 0 /\ DOMAIN s = 1 .. Len(s)
      /\ DOMAIN t = DOMAIN s \cup {Len(s) + 1}
      /\ \A i \in DOMAIN s : t[i] = s[i]
      /\ t[Len(s) + 1] = f
  BY PushedCall
<1> HIDE DEF t
<1>4. CallsRefer(t, run, known)
  BY <1>1, <1>3 DEF CallsOf, CallsRefer, Callee
<1>5. RunOnce(t, run)
  BY <1>1, <1>3 DEF CallsOf, RunOnce
<1>6. Drains(t, d)
  BY <1>1, <1>3 DEF CallsOf, Drains
<1> QED
  BY <1>2, <1>4, <1>5, <1>6 DEF CallsOf, t

LEMMA CoroutinePushed ==
    ASSUME NEW s \in Seq(Frame), s # <<>>, NEW c \in Coroutines, NEW run, NEW d, NEW known,
           CallsOf(s, run, d, known), c \notin run, NEW f \in Frame,
           f.kind = "coroutine", f.co = c
    PROVE  CallsOf(Append(s, f), run \cup {c}, d, known)
<1> DEFINE t == Append(s, f)
<1>1. OutermostFirst(t)
  BY PushedOutermost DEF CallsOf
<1>2. /\ Len(s) \in Nat /\ Len(s) > 0 /\ DOMAIN s = 1 .. Len(s)
      /\ DOMAIN t = DOMAIN s \cup {Len(s) + 1}
      /\ \A i \in DOMAIN s : t[i] = s[i]
      /\ t[Len(s) + 1] = f
  BY PushedCall
<1> HIDE DEF t
<1>3. \A i \in DOMAIN s : s[i].kind = "coroutine" => s[i].co # c
  BY DEF CallsOf, CallsRefer
<1>4. CallsRefer(t, run \cup {c}, known)
  BY <1>2 DEF CallsOf, CallsRefer, Callee
<1>5. RunOnce(t, run \cup {c})
  BY <1>2, <1>3 DEF CallsOf, RunOnce
<1>6. Drains(t, d)
  BY <1>2 DEF CallsOf, Drains
<1> QED
  BY <1>1, <1>4, <1>5, <1>6 DEF CallsOf, t

LEMMA DrainPushed ==
    ASSUME NEW s \in Seq(Frame), s # <<>>, NEW run, NEW d \in BOOLEAN, NEW known,
           CallsOf(s, run, d, known), NEW f \in Frame,
           f.kind = "drain", f.outermost <=> ~d
    PROVE  CallsOf(Append(s, f), run, TRUE, known)
<1> DEFINE t == Append(s, f)
<1>1. OutermostFirst(t)
  BY PushedOutermost DEF CallsOf, Drains
<1>2. /\ Len(s) \in Nat /\ Len(s) > 0 /\ DOMAIN s = 1 .. Len(s)
      /\ DOMAIN t = DOMAIN s \cup {Len(s) + 1}
      /\ \A i \in DOMAIN s : t[i] = s[i]
      /\ t[Len(s) + 1] = f
  BY PushedCall
<1> HIDE DEF t
<1>3. CallsRefer(t, run, known)
  BY <1>2 DEF CallsOf, CallsRefer, Callee
<1>4. RunOnce(t, run)
  BY <1>2 DEF CallsOf, RunOnce
<1>5. Drains(t, TRUE)
  BY <1>2 DEF Drains
<1> QED
  BY <1>1, <1>3, <1>4, <1>5 DEF CallsOf, t

\* A call that returns.
LEMMA PoppedOutermost ==
    ASSUME NEW s \in Seq(Frame), s # <<>>, OutermostFirst(s)
    PROVE  /\ OutermostFirst(Front(s))
           /\ Last(s).kind = "drain" =>
                (Last(s).outermost <=>
                   \A i \in DOMAIN Front(s) : Front(s)[i].kind # "drain")
<1> DEFINE t == Front(s)
<1>1. /\ Last(s) = s[Len(s)]
      /\ Len(s) \in Nat /\ Len(s) > 0 /\ DOMAIN s = 1 .. Len(s)
      /\ DOMAIN t = DOMAIN s \ {Len(s)}
      /\ \A i \in DOMAIN t : t[i] = s[i]
  BY FrontOfCalls
<1> HIDE DEF t
<1>2. DOMAIN t = 1 .. (Len(s) - 1)
  BY <1>1
<1>3. OutermostFirst(t)
  <2> SUFFICES ASSUME NEW i \in DOMAIN t, t[i].kind = "drain"
               PROVE  t[i].outermost <=> \A j \in 1 .. (i - 1) : t[j].kind # "drain"
    BY DEF OutermostFirst
  <2>1. i \in DOMAIN s /\ t[i] = s[i]
    BY <1>1
  <2>2. s[i].outermost <=> \A j \in 1 .. (i - 1) : s[j].kind # "drain"
    BY <2>1 DEF OutermostFirst
  <2>3. \A j \in 1 .. (i - 1) : t[j] = s[j]
    <3>1. i \in 1 .. (Len(s) - 1)
      BY <1>2
    <3>2. ASSUME NEW n \in Nat, i \in 1 .. n PROVE \A j \in 1 .. (i - 1) : j \in 1 .. n
      BY <3>2
    <3>3. Len(s) - 1 \in Nat
      BY <1>1
    <3>4. \A j \in 1 .. (i - 1) : j \in DOMAIN t
      BY <3>1, <3>2, <3>3, <1>2
    <3> QED
      BY <3>4, <1>1
  <2> QED
    BY <2>1, <2>2, <2>3
<1>4. Last(s).kind = "drain" =>
         (Last(s).outermost <=> \A i \in DOMAIN t : t[i].kind # "drain")
  BY <1>1, <1>2 DEF OutermostFirst
<1> QED
  BY <1>3, <1>4 DEF t

LEMMA CallPopped ==
    ASSUME NEW s \in Seq(Frame), s # <<>>, NEW run, NEW d, NEW known,
           CallsOf(s, run, d, known), Last(s).kind \in Callee \cup {"getter"}
    PROVE  CallsOf(Front(s), run, d, known) /\ Front(s) # <<>>
<1> DEFINE t == Front(s)
<1>1. OutermostFirst(t)
  BY PoppedOutermost DEF CallsOf
<1>2. /\ Last(s) = s[Len(s)] /\ t \in Seq(Frame)
      /\ Len(s) \in Nat /\ Len(s) > 0 /\ DOMAIN s = 1 .. Len(s)
      /\ Len(t) = Len(s) - 1
      /\ DOMAIN t = DOMAIN s \ {Len(s)}
      /\ \A i \in DOMAIN t : t[i] = s[i]
  BY FrontOfCalls
<1> HIDE DEF t
<1>3. Last(s).kind \notin {"coroutine", "script", "drain"}
  BY DEF Callee
<1>4. t # <<>>
  <2>1. Len(s) # 1
    BY <1>2, <1>3 DEF CallsOf, CallsRefer
  <2> QED
    BY <1>2, <2>1
<1>5. CallsRefer(t, run, known)
  BY <1>2 DEF CallsOf, CallsRefer
<1>6. RunOnce(t, run)
  BY <1>2, <1>3 DEF CallsOf, RunOnce
<1>7. Drains(t, d)
  BY <1>2, <1>3 DEF CallsOf, Drains
<1> QED
  BY <1>1, <1>4, <1>5, <1>6, <1>7 DEF CallsOf, t

LEMMA CoroutinePopped ==
    ASSUME NEW s \in Seq(Frame), s # <<>>, NEW run, NEW d, NEW known,
           CallsOf(s, run, d, known), Last(s).kind = "coroutine"
    PROVE  CallsOf(Front(s), run \ {Last(s).co}, d, known) /\ Front(s) # <<>>
<1> DEFINE t == Front(s)
<1>1. OutermostFirst(t)
  BY PoppedOutermost DEF CallsOf
<1>2. /\ Last(s) = s[Len(s)] /\ t \in Seq(Frame)
      /\ Len(s) \in Nat /\ Len(s) > 0 /\ DOMAIN s = 1 .. Len(s)
      /\ Len(t) = Len(s) - 1
      /\ DOMAIN t = DOMAIN s \ {Len(s)}
      /\ \A i \in DOMAIN t : t[i] = s[i]
  BY FrontOfCalls
<1> HIDE DEF t
<1>3. t # <<>>
  <2>1. Len(s) # 1
    BY <1>2 DEF CallsOf, CallsRefer
  <2> QED
    BY <1>2, <2>1
<1>4. \A i \in DOMAIN t : t[i].kind = "coroutine" => t[i].co # Last(s).co
  BY <1>2 DEF CallsOf, RunOnce
<1>5. CallsRefer(t, run \ {Last(s).co}, known)
  BY <1>2, <1>4 DEF CallsOf, CallsRefer
<1>6. RunOnce(t, run \ {Last(s).co})
  BY <1>2 DEF CallsOf, RunOnce
<1>7. Drains(t, d)
  BY <1>2 DEF CallsOf, Drains
<1> QED
  BY <1>1, <1>3, <1>5, <1>6, <1>7 DEF CallsOf, t

LEMMA DrainPopped ==
    ASSUME NEW s \in Seq(Frame), s # <<>>, NEW run, NEW d, NEW known,
           CallsOf(s, run, d, known), Last(s).kind = "drain"
    PROVE  /\ Last(s).outermost => CallsOf(Front(s), run, FALSE, known)
           /\ ~Last(s).outermost => CallsOf(Front(s), run, d, known) /\ Front(s) # <<>>
<1> DEFINE t == Front(s)
<1>1. /\ OutermostFirst(t)
      /\ Last(s).outermost <=> \A i \in DOMAIN t : t[i].kind # "drain"
  BY PoppedOutermost DEF CallsOf
<1>2. /\ Last(s) = s[Len(s)] /\ t \in Seq(Frame)
      /\ Len(s) \in Nat /\ Len(s) > 0 /\ DOMAIN s = 1 .. Len(s)
      /\ DOMAIN t = DOMAIN s \ {Len(s)}
      /\ \A i \in DOMAIN t : t[i] = s[i]
  BY FrontOfCalls
<1> HIDE DEF t
<1>3. CallsRefer(t, run, known)
  BY <1>2 DEF CallsOf, CallsRefer
<1>4. RunOnce(t, run)
  BY <1>2 DEF CallsOf, RunOnce
<1>5. Last(s).outermost => Drains(t, FALSE)
  BY <1>1 DEF Drains
<1>6. ASSUME ~Last(s).outermost PROVE Drains(t, d) /\ t # <<>>
  <2>1. PICK i \in DOMAIN t : t[i].kind = "drain"
    BY <1>1, <1>6
  <2>2. t # <<>>
    BY <2>1
  <2>3. d
    BY <1>2 DEF CallsOf, Drains
  <2>4. \E j \in DOMAIN t : t[j].kind = "drain"
    BY <2>1
  <2>5. Drains(t, d)
    BY <1>2, <2>3, <2>4 DEF CallsOf, Drains
  <2> QED
    BY <2>2, <2>5
<1> QED
  BY <1>1, <1>3, <1>4, <1>5, <1>6 DEF CallsOf, t

-----------------------------------------------------------------------------
(* The order of the reactions.                                              *)

\* More pairs, more settled promises and fewer jobs leave the order alone.
LEMMA OrderGrows ==
    ASSUME NEW R, NEW J \in Seq(Job), NEW c \in Nat, NEW c2 \in Nat, c2 >= c,
           NEW source, NEW source2, NEW done, NEW done2,
           DOMAIN source \subseteq DOMAIN source2, done \subseteq done2,
           \A k \in DOMAIN source : source2[k] = source[k]
    PROVE  /\ ListedInOrder(R, source) => ListedInOrder(R, source2)
           /\ QueuedInOrder(J, c, source, done) => QueuedInOrder(J, c2, source2, done2)
<1>1. ListedInOrder(R, source) => ListedInOrder(R, source2)
  BY DEF ListedInOrder
<1>2. ASSUME QueuedInOrder(J, c, source, done) PROVE QueuedInOrder(J, c2, source2, done2)
  <2> SUFFICES ASSUME NEW i \in DOMAIN J, i > c2, J[i].reaction.kind = "then"
               PROVE  InTurn(J, c2, source2, done2, i)
    BY DEF QueuedInOrder
  <2>1. DOMAIN J = 1 .. Len(J) /\ Len(J) \in Nat
    OBVIOUS
  <2>2. i > c /\ InTurn(J, c, source, done, i)
    BY <1>2, <2>1 DEF QueuedInOrder
  <2>3. ASSUME NEW j \in (c2 + 1) .. (i - 1), J[j].reaction.kind = "then"
        PROVE  J[j].reaction.pair \in DOMAIN source /\ j \in (c + 1) .. (i - 1)
    <3>1. j \in DOMAIN J /\ j > c /\ j \in (c + 1) .. (i - 1)
      BY <2>1
    <3> QED
      BY <3>1, <1>2, <2>3 DEF QueuedInOrder, InTurn
  <2> QED
    BY <2>2, <2>3 DEF InTurn
<1> QED
  BY <1>1, <1>2

\* A reaction is appended to a list: one of `then` is the newest.
LEMMA ListedOrder ==
    ASSUME NEW R \in Lists, NEW source, NEW q \in Promises, NEW r \in Reaction,
           ListedInOrder(R, source),
           r.kind = "then" =>
              /\ r.pair \in DOMAIN source /\ source[r.pair] = q
              /\ \A i \in DOMAIN R[q] : R[q][i].kind = "then" => R[q][i].pair < r.pair
    PROVE  ListedInOrder(Listed(R, q, r), source)
<1> DEFINE R2 == Listed(R, q, r)
<1>1. /\ \A a \in Promises : a # q => R2[a] = R[a]
      /\ R2[q] = Append(R[q], r)
      /\ DOMAIN R2[q] = DOMAIN R[q] \cup {Len(R[q]) + 1}
      /\ \A i \in DOMAIN R[q] : R2[q][i] = R[q][i]
      /\ R2[q][Len(R[q]) + 1] = r
      /\ Len(R[q]) \in Nat /\ DOMAIN R[q] = 1 .. Len(R[q])
  BY DEF Lists, Listed
<1> HIDE DEF R2
<1> SUFFICES ASSUME NEW a \in Promises, NEW i \in DOMAIN R2[a], R2[a][i].kind = "then"
             PROVE  /\ R2[a][i].pair \in DOMAIN source /\ source[R2[a][i].pair] = a
                    /\ \A j \in 1 .. (i - 1) : R2[a][j].kind = "then" =>
                          R2[a][j].pair < R2[a][i].pair
  BY DEF ListedInOrder, R2
<1>2. CASE a # q
  BY <1>1, <1>2 DEF ListedInOrder
<1>3. CASE a = q /\ i \in DOMAIN R[q]
  <2>1. \A j \in 1 .. (i - 1) : j \in DOMAIN R[q]
    BY <1>1, <1>3
  <2>2. R2[a][i] = R[q][i] /\ \A j \in 1 .. (i - 1) : R2[a][j] = R[q][j]
    BY <1>1, <1>3, <2>1
  <2>3. /\ R[q][i].pair \in DOMAIN source /\ source[R[q][i].pair] = q
        /\ \A j \in 1 .. (i - 1) : R[q][j].kind = "then" =>
                R[q][j].pair < R[q][i].pair
    BY <1>3, <2>2 DEF ListedInOrder
  <2> QED
    BY <1>3, <2>2, <2>3
<1>4. CASE a = q /\ i = Len(R[q]) + 1
  <2>1. 1 .. (i - 1) = DOMAIN R[q]
    BY <1>1, <1>4
  <2> QED
    BY <1>1, <1>4, <2>1
<1> QED
  BY <1>1, <1>2, <1>3, <1>4

\* A job is appended to the queue: one for a reaction of `then` is the newest.
LEMMA QueuedOrder ==
    ASSUME NEW J \in Seq(Job), NEW c \in Nat, NEW source, NEW done, NEW j \in Job,
           QueuedInOrder(J, c, source, done),
           j.reaction.kind = "then" =>
              /\ j.reaction.pair \in DOMAIN source /\ source[j.reaction.pair] \in done
              /\ \A i \in DOMAIN J : i > c /\ J[i].reaction.kind = "then" =>
                     J[i].reaction.pair < j.reaction.pair
    PROVE  QueuedInOrder(Append(J, j), c, source, done)
<1> DEFINE J2 == Append(J, j)
<1>1. /\ DOMAIN J2 = DOMAIN J \cup {Len(J) + 1}
      /\ \A i \in DOMAIN J : J2[i] = J[i]
      /\ J2[Len(J) + 1] = j
      /\ Len(J) \in Nat /\ DOMAIN J = 1 .. Len(J)
  OBVIOUS
<1> HIDE DEF J2
<1> SUFFICES ASSUME NEW i \in DOMAIN J2, i > c, J2[i].reaction.kind = "then"
             PROVE  InTurn(J2, c, source, done, i)
  BY DEF QueuedInOrder, J2
<1>2. CASE i \in DOMAIN J
  <2>1. \A b \in (c + 1) .. (i - 1) : b \in DOMAIN J
    BY <1>1, <1>2
  <2>2. InTurn(J, c, source, done, i)
    BY <1>1, <1>2 DEF QueuedInOrder
  <2> QED
    BY <1>1, <1>2, <2>1, <2>2 DEF InTurn
<1>3. CASE i = Len(J) + 1
  <2>1. \A b \in (c + 1) .. (i - 1) : b \in DOMAIN J /\ b > c
    BY <1>1, <1>3
  <2> QED
    BY <1>1, <1>3, <2>1 DEF InTurn
<1> QED
  BY <1>1, <1>2, <1>3

\* A list moves to the queue when its promise is settled: none of its
\* reactions was there before.
LEMMA FlushedOrder ==
    ASSUME NEW R \in Lists, NEW J \in Seq(Job), NEW c \in 0 .. Len(J), NEW source,
           NEW done, NEW p \in Promises \ done, NEW state \in States, NEW value \in Directs,
           ListedInOrder(R, source), QueuedInOrder(J, c, source, done)
    PROVE  /\ ListedInOrder([R EXCEPT ![p] = <<>>], source)
           /\ QueuedInOrder(FlushedIn(J, R[p], state, value), c, source, done \cup {p})
<1> DEFINE R2 == [R EXCEPT ![p] = <<>>]
           L == R[p]
           J2 == FlushedIn(J, L, state, value)
<1>1. /\ \A a \in Promises : a # p => R2[a] = R[a]
      /\ DOMAIN R2[p] = {}
      /\ L \in Seq(Reaction) /\ Len(L) \in Nat /\ DOMAIN L = 1 .. Len(L)
      /\ Len(J) \in Nat /\ DOMAIN J = 1 .. Len(J) /\ c \in Nat /\ c <= Len(J)
  BY DEF Lists
<1>2. /\ DOMAIN J2 = 1 .. (Len(J) + Len(L))
      /\ \A i \in 1 .. Len(J) : J2[i] = J[i]
      /\ \A i \in 1 .. Len(L) : J2[Len(J) + i].reaction = L[i]
  <2>1. /\ J2 \in Seq(Job)
        /\ Len(J2) = Len(J) + Len(L)
        /\ \A i \in 1 .. Len(J) : J2[i] = J[i]
        /\ \A i \in 1 .. Len(L) : J2[Len(J) + i] = ReactionJob(L[i], state, value)
    BY <1>1, FlushedJobs
  <2>2. \A i \in 1 .. Len(L) : J2[Len(J) + i].reaction = L[i]
    BY <2>1, JobParts
  <2> HIDE DEF J2
  <2> QED
    BY <2>1, <2>2
<1> HIDE DEF R2, J2
<1>3. ListedInOrder(R2, source)
  BY <1>1 DEF ListedInOrder
<1>4. ASSUME NEW b \in DOMAIN L, L[b].kind = "then"
      PROVE  /\ L[b].pair \in DOMAIN source /\ source[L[b].pair] = p
             /\ \A j \in 1 .. (b - 1) : L[j].kind = "then" => L[j].pair < L[b].pair
  BY <1>4 DEF ListedInOrder
<1>5. ASSUME NEW i \in DOMAIN J, i > c, J[i].reaction.kind = "then"
      PROVE  InTurn(J, c, source, done, i)
  BY <1>5 DEF QueuedInOrder
<1>6. ASSUME NEW i \in DOMAIN J2, i > c, J2[i].reaction.kind = "then"
      PROVE  InTurn(J2, c, source, done \cup {p}, i)
  <2>1. CASE i \in 1 .. Len(J)
    <3>1. \A j \in (c + 1) .. (i - 1) : j \in 1 .. Len(J)
      BY <1>1, <2>1
    <3>2. InTurn(J, c, source, done, i)
      BY <1>1, <1>2, <1>5, <1>6, <2>1
    <3> QED
      BY <1>2, <2>1, <3>1, <3>2 DEF InTurn
  <2>2. CASE i \in (Len(J) + 1) .. (Len(J) + Len(L))
    <3> DEFINE b == i - Len(J)
    <3>1. b \in 1 .. Len(L) /\ i = Len(J) + b
      BY <1>1, <2>2
    <3> HIDE DEF b
    <3>2. J2[i].reaction = L[b] /\ L[b].kind = "then"
      BY <1>2, <1>6, <3>1
    <3>3. /\ L[b].pair \in DOMAIN source /\ source[L[b].pair] = p
          /\ \A j \in 1 .. (b - 1) : L[j].kind = "then" => L[j].pair < L[b].pair
      BY <1>1, <1>4, <3>1, <3>2
    <3>4. ASSUME NEW j \in (c + 1) .. (i - 1), J2[j].reaction.kind = "then",
                 source[J2[j].reaction.pair] = p
          PROVE  J2[j].reaction.pair < L[b].pair
      <4>1. CASE j \in 1 .. Len(J)
        <5>1. j > c /\ J2[j] = J[j]
          BY <1>1, <1>2, <4>1
        <5>2. InTurn(J, c, source, done, j)
          BY <1>1, <1>5, <3>4, <4>1, <5>1
        <5> QED
          BY <3>4, <5>1, <5>2 DEF InTurn
      <4>2. CASE j \in (Len(J) + 1) .. (i - 1)
        <5> DEFINE a == j - Len(J)
        <5>1. a \in 1 .. (b - 1) /\ a \in 1 .. Len(L) /\ j = Len(J) + a
          BY <1>1, <3>1, <4>2
        <5> HIDE DEF a
        <5>2. J2[j].reaction = L[a]
          BY <1>2, <5>1
        <5> QED
          BY <3>3, <3>4, <5>1, <5>2
      <4> QED
        BY <1>1, <2>2, <4>1, <4>2
    <3> QED
      BY <3>2, <3>3, <3>4 DEF InTurn
  <2> QED
    BY <1>1, <1>2, <2>1, <2>2
<1>7. QueuedInOrder(J2, c, source, done \cup {p})
  BY <1>6 DEF QueuedInOrder
<1> QED
  BY <1>3, <1>7 DEF R2, J2

-----------------------------------------------------------------------------
(* What a step does to the reactions of `then` and of await.                *)

\* A job of S is taken.
Taken(S) == cursor' = cursor + 1 /\ queue[cursor + 1].reaction \in S

\* The reactions stay, are flushed, or a reaction of S is added.
Shifts(S) ==
    \/ Still
    \/ \E p \in Promises : Pending(p) /\ ~Pending(p)' /\ Flushes(p)
    \/ \E q \in Promises, r \in S : AddsToList(q, r)
    \/ \E r \in S : AddsToQueue(r)

\* The handlers of the pairs run as their jobs are taken.
PairsRun ==
    /\ ThenPairs' = ThenPairs
    /\ \A k \in ThenPairs :
          /\ pairs'[k].source = pairs[k].source
          /\ pairs'[k].ran = IF Taken(Thens(k)) THEN pairs[k].ran + 1 ELSE pairs[k].ran

\* A suspended coroutine stays so until its job is taken.
CoResumes ==
    \A c \in Coroutines :
        IF Taken(Awaits(c)) THEN co'[c].state # "suspended"
        ELSE co'[c].state = "suspended" <=> co[c].state = "suspended"

\* No promise is unsettled or unborn.
Grows ==
    \A q \in Promises : (Born(q) => Born(q)') /\ (Born(q) /\ ~Pending(q) => ~Pending(q)')

LEMMA PairParts ==
    ASSUME PairTypes
    PROVE  /\ DOMAIN pairs = 1 .. Len(pairs) /\ Len(pairs) \in Nat
           /\ \A k \in DOMAIN pairs :
                /\ k \in Nat \ {0} /\ k <= Len(pairs)
                /\ pairs[k].promise \in Promises /\ pairs[k].source \in Promises \cup {0}
                /\ pairs[k].already \in BOOLEAN /\ pairs[k].ran \in Nat
           /\ ThenPairs \subseteq DOMAIN pairs
<1> DEFINE P == [promise : Promises, source : Promises \cup {0}, already : BOOLEAN, ran : Nat]
<1>1. \A x \in P : /\ x.promise \in Promises /\ x.source \in Promises \cup {0}
                   /\ x.already \in BOOLEAN /\ x.ran \in Nat
  OBVIOUS
<1>2. pairs \in Seq(P)
  BY DEF PairTypes
<1> HIDE DEF P
<1>3. /\ DOMAIN pairs = 1 .. Len(pairs) /\ Len(pairs) \in Nat
      /\ \A k \in DOMAIN pairs : pairs[k] \in P /\ k \in Nat \ {0} /\ k <= Len(pairs)
  BY <1>2
<1> QED
  BY <1>1, <1>3 DEF ThenPairs

LEMMA TakenIff ==
    ASSUME QueueTypes, CursorMoves, NEW S
    PROVE  IF Taken(S) THEN Places(S) # {} /\ (Single(Places(S)) => Later(S) = {})
           ELSE Later(S) = Places(S)
BY LaterPlaces DEF Taken, CursorMoves

LEMMA ShiftsCarry ==
    ASSUME PromiseTypes, QueueTypes, CursorMoves, NEW S \in SUBSET Reaction, Shifts(S)
    PROVE  \A T : T \cap S = {} => Carries(T)
<1> SUFFICES ASSUME NEW T, T \cap S = {} PROVE Carries(T)
  OBVIOUS
<1>1. CASE Still
  BY <1>1, StillPlaces DEF Carries
<1>2. CASE \E p \in Promises : Pending(p) /\ ~Pending(p)' /\ Flushes(p)
  BY <1>2, FlushesPlaces
<1>3. CASE \E q \in Promises, r \in S : AddsToList(q, r)
  <2>1. PICK q \in Promises, r \in S : AddsToList(q, r)
    BY <1>3
  <2>2. r \in Reaction /\ r \notin T
    OBVIOUS
  <2>3. Places(T)' = Later(T)
    BY <2>1, <2>2, AddsToListPlaces
  <2> QED
    BY <2>3 DEF Carries
<1>4. CASE \E r \in S : AddsToQueue(r)
  <2>1. PICK r \in S : AddsToQueue(r)
    BY <1>4
  <2>2. r \in Reaction /\ r \notin T
    OBVIOUS
  <2>3. Places(T)' = Later(T)
    BY <2>1, <2>2, AddsToQueuePlaces
  <2> QED
    BY <2>3 DEF Carries
<1> QED
  BY <1>1, <1>2, <1>3, <1>4 DEF Shifts

LEMMA ThensKept ==
    ASSUME QueueTypes, PairTypes, CursorMoves, ThensInv, PairsRun,
           \A k \in Nat : Carries(Thens(k))
    PROVE  ThensInv'
<1>1. ASSUME NEW k \in Nat, k \notin ThenPairs
      PROVE  Places(Thens(k))' = {}
  <2>1. Places(Thens(k)) = {}
    BY <1>1 DEF ThensInv
  <2>2. Later(Thens(k)) = {}
    BY <2>1, LaterPlaces
  <2> QED
    BY <2>2 DEF Carries
<1>2. ASSUME NEW k \in ThenPairs
      PROVE  \/ pairs'[k].ran = 0 /\ Single(Places(Thens(k))')
             \/ pairs'[k].ran = 1 /\ Places(Thens(k))' = {}
  <2>1. k \in Nat
    BY DEF ThenPairs, PairTypes
  <2>2. \/ pairs[k].ran = 0 /\ Single(Places(Thens(k)))
        \/ pairs[k].ran = 1 /\ Places(Thens(k)) = {}
    BY DEF ThensInv
  <2>3. CASE Taken(Thens(k))
    <3>1. pairs[k].ran = 0 /\ Later(Thens(k)) = {}
      BY <2>2, <2>3, TakenIff
    <3> QED
      BY <3>1, <2>1, <2>3 DEF Carries, PairsRun
  <2>4. CASE ~Taken(Thens(k))
    <3>1. Later(Thens(k)) = Places(Thens(k))
      BY <2>4, TakenIff
    <3> QED
      BY <3>1, <2>1, <2>2, <2>4 DEF Carries, PairsRun
  <2> QED
    BY <2>3, <2>4
<1> QED
  BY <1>1, <1>2 DEF ThensInv, PairsRun

LEMMA AwaitsKept ==
    ASSUME QueueTypes, CursorMoves, AwaitsInv, CoResumes,
           \A c \in Coroutines : Carries(Awaits(c))
    PROVE  AwaitsInv'
<1> SUFFICES ASSUME NEW c \in Coroutines
             PROVE  IF co'[c].state = "suspended"
                    THEN \/ Single(Places(Awaits(c))')
                         \/ Poisonable /\ Places(Awaits(c))' = {}
                    ELSE Places(Awaits(c))' = {}
  BY DEF AwaitsInv
<1>1. IF co[c].state = "suspended"
      THEN Single(Places(Awaits(c))) \/ (Poisonable /\ Places(Awaits(c)) = {})
      ELSE Places(Awaits(c)) = {}
  BY DEF AwaitsInv
<1>2. Carries(Awaits(c))
  OBVIOUS
<1>3. CASE Taken(Awaits(c))
  <2>1. Later(Awaits(c)) = {}
    BY <1>1, <1>3, TakenIff
  <2> QED
    BY <2>1, <1>2, <1>3 DEF Carries, CoResumes
<1>4. CASE ~Taken(Awaits(c))
  <2>1. Later(Awaits(c)) = Places(Awaits(c))
    BY <1>4, TakenIff
  <2> QED
    BY <2>1, <1>1, <1>2, <1>4 DEF Carries, CoResumes
<1> QED
  BY <1>3, <1>4

LEMMA DoneIff ==
    ASSUME PromiseTypes
    PROVE  \A q : q \in Done <=> q \in Promises /\ Born(q) /\ ~Pending(q)
BY DEF PromiseTypes, Done, Born, Pending, States

\* The reactions of `then` stay in order, those of S being of another kind.
LEMMA OrderKept ==
    ASSUME PromiseTypes, PromiseTypes', QueueTypes, CursorMoves, OrderInv,
           Sources' = Sources, Grows,
           NEW S \in SUBSET Reaction, \A r \in S : r.kind # "then", Shifts(S)
    PROVE  ListedInOrder(Reactions, Sources)' /\ QueuedInOrder(queue, cursor, Sources, Done)'
<1>1. /\ Reactions \in Lists /\ queue \in Seq(Job)
      /\ cursor \in Nat /\ cursor' \in 0 .. Len(queue) /\ cursor' \in Nat /\ cursor' >= cursor
  BY ReactionsType DEF QueueTypes, CursorMoves
<1>2. Done \subseteq Done'
  <2> SUFFICES ASSUME NEW q \in Done PROVE q \in Done'
    OBVIOUS
  <2>1. q \in Promises /\ Born(q) /\ ~Pending(q)
    BY DoneIff
  <2>2. Born(q)' /\ ~Pending(q)'
    BY <2>1 DEF Grows
  <2> QED
    BY <2>1, <2>2 DEF Done, Born, Pending, PromiseTypes, States
<1>3. /\ ListedInOrder(Reactions, Sources) /\ ListedInOrder(Reactions, Sources')
      /\ QueuedInOrder(queue, cursor', Sources, Done)
      /\ QueuedInOrder(queue, cursor', Sources', Done')
  <2>1. ListedInOrder(Reactions, Sources) /\ QueuedInOrder(queue, cursor, Sources, Done)
    BY DEF OrderInv
  <2>2. /\ DOMAIN Sources \subseteq DOMAIN Sources
        /\ \A k \in DOMAIN Sources : Sources[k] = Sources[k]
        /\ Done \subseteq Done
    OBVIOUS
  <2> HIDE DEF Sources, Done, OrderInv, Grows
  <2>3. QueuedInOrder(queue, cursor', Sources, Done)
    BY <1>1, <2>1, <2>2, OrderGrows
  <2>4. QueuedInOrder(queue, cursor', Sources, Done')
    BY <1>1, <1>2, <2>1, <2>2, OrderGrows
  <2> QED
    BY <2>1, <2>3, <2>4
<1>4. CASE Still
  BY <1>3, <1>4 DEF Still
<1>5. CASE \E p \in Promises : Pending(p) /\ ~Pending(p)' /\ Flushes(p)
  <2>1. PICK p \in Promises : Pending(p) /\ ~Pending(p)' /\ Flushes(p)
    BY <1>5
  <2>2. PICK state \in States, value \in Directs :
          /\ Reactions' = [Reactions EXCEPT ![p] = <<>>]
          /\ queue' = FlushedIn(queue, Reactions[p], state, value)
    BY <2>1 DEF Flushes
  <2>3. p \in Promises \ Done
    BY <2>1, DoneIff
  <2>4. p \in Done'
    <3>1. Born(p)'
      BY <2>1 DEF Grows, Born, Pending
    <3> QED
      BY <2>1, <3>1 DEF Done, Born, Pending, PromiseTypes, States
  <2>5. /\ ListedInOrder(Reactions', Sources)
        /\ QueuedInOrder(queue', cursor', Sources, Done \cup {p})
    BY <1>1, <1>3, <2>2, <2>3, FlushedOrder
  <2>6. queue' \in Seq(Job)
    BY <1>1, <2>2, FlushedJobs DEF Lists
  <2>7. /\ DOMAIN Sources \subseteq DOMAIN Sources
        /\ \A k \in DOMAIN Sources : Sources[k] = Sources[k]
        /\ Done \cup {p} \subseteq Done' /\ cursor' >= cursor'
    BY <1>1, <1>2, <2>4
  <2> HIDE DEF Sources, Done, OrderInv, Grows
  <2>8. QueuedInOrder(queue', cursor', Sources, Done')
    BY <1>1, <2>5, <2>6, <2>7, OrderGrows
  <2> QED
    BY <2>5, <2>8
<1>6. CASE \E q \in Promises, r \in S : AddsToList(q, r)
  <2>1. PICK q \in Promises, r \in S : AddsToList(q, r)
    BY <1>6
  <2>2. ListedInOrder(Listed(Reactions, q, r), Sources')
    BY <1>1, <1>3, <2>1, ListedOrder
  <2> QED
    BY <1>3, <2>1, <2>2 DEF AddsToList
<1>7. CASE \E r \in S : AddsToQueue(r)
  <2>1. PICK r \in S : AddsToQueue(r)
    BY <1>7
  <2>2. PICK j \in Job : j.reaction = r /\ queue' = Append(queue, j)
    BY <2>1 DEF AddsToQueue
  <2>3. QueuedInOrder(Append(queue, j), cursor', Sources', Done')
    BY <1>1, <1>3, <2>1, <2>2, QueuedOrder
  <2> QED
    BY <1>3, <2>1, <2>2, <2>3 DEF AddsToQueue
<1> QED
  BY <1>4, <1>5, <1>6, <1>7 DEF Shifts

\* The job that is taken is the oldest of the reactions of its promise.
LEMMA TakenInTurn ==
    ASSUME PromiseTypes, PairTypes, QueueTypes, CursorMoves, Refers, ThensInv, OrderInv,
           NEW j \in ThenPairs, NEW k \in ThenPairs, j < k,
           pairs[j].source = pairs[k].source, Taken(Thens(k))
    PROVE  pairs[j].ran > 0
<1> SUFFICES ASSUME pairs[j].ran = 0 PROVE FALSE
  BY PairParts
<1>1. /\ queue \in Seq(Job) /\ cursor + 1 \in DOMAIN queue /\ cursor \in Nat
      /\ queue[cursor + 1].reaction.kind = "then" /\ queue[cursor + 1].reaction.pair = k
  BY DEF Taken, Thens, QueueTypes, CursorMoves
<1>2. InTurn(queue, cursor, Sources, Done, cursor + 1)
  BY <1>1 DEF OrderInv, QueuedInOrder
<1>3. /\ Sources[j] = Sources[k] /\ DOMAIN Sources = ThenPairs
      /\ Sources[k] = pairs[k].source /\ Sources[k] \in Done
  BY <1>1, <1>2 DEF Sources, InTurn
<1>4. \E a, b : <<a, b>> \in Places(Thens(j))
  <2>1. PICK x : Places(Thens(j)) = {x}
    <3>1. Single(Places(Thens(j)))
      BY DEF ThensInv
    <3> QED
      BY <3>1 DEF Single
  <2>2. x = <<x[1], x[2]>>
    BY <2>1, PlaceIff DEF Places
  <2> QED
    BY <2>1, <2>2
<1>5. PICK a, b : <<a, b>> \in Places(Thens(j))
  BY <1>4
<1>6. \/ b \in DOMAIN queue /\ b > cursor /\ queue[b].reaction \in Thens(j)
      \/ a \in Promises /\ b \in DOMAIN Reactions[a] /\ Reactions[a][b] \in Thens(j)
  BY <1>5, PlaceIff DEF Places
<1>7. CASE a \in Promises /\ b \in DOMAIN Reactions[a] /\ Reactions[a][b] \in Thens(j)
  <2>1. Reactions[a][b].kind = "then" /\ Reactions[a][b].pair = j
    BY <1>7 DEF Thens
  <2>2. Sources[j] = a
    BY <1>7, <2>1 DEF OrderInv, ListedInOrder
  <2>3. ~Pending(a)
    BY <1>3, <2>2, DoneIff
  <2>4. Reactions[a] = <<>>
    BY <1>7, <2>3 DEF Refers
  <2> QED
    BY <1>7, <2>4
<1>8. CASE b \in DOMAIN queue /\ b > cursor /\ queue[b].reaction \in Thens(j)
  <2>1. queue[b].reaction.kind = "then" /\ queue[b].reaction.pair = j
    BY <1>8 DEF Thens
  <2>2. j \in Nat /\ k \in Nat /\ b \in Nat
    BY <1>8, <1>1, PairParts
  <2>3. b # cursor + 1
    BY <1>1, <2>1, <2>2
  <2>4. InTurn(queue, cursor, Sources, Done, b)
    BY <1>8, <2>1 DEF OrderInv, QueuedInOrder
  <2>5. cursor + 1 \in (cursor + 1) .. (b - 1)
    BY <1>1, <1>8, <2>2, <2>3
  <2>6. k < j
    BY <1>1, <1>3, <2>1, <2>4, <2>5 DEF InTurn
  <2> QED
    BY <2>2, <2>6
<1> QED
  BY <1>6, <1>7, <1>8

LEMMA InOrderKept ==
    ASSUME PromiseTypes, PairTypes, QueueTypes, CursorMoves, Refers, ThensInv, OrderInv,
           PairsRun
    PROVE  ReactionsInOrder'
<1> SUFFICES ASSUME NEW j \in ThenPairs, NEW k \in ThenPairs, j < k,
                    pairs[j].source = pairs[k].source, pairs'[k].ran > 0
             PROVE  pairs'[j].ran > 0
  BY DEF ReactionsInOrder, PairsRun
<1>1. pairs[j].ran \in Nat /\ pairs[k].ran \in Nat
  BY PairParts
<1>2. pairs[j].ran > 0
  <2>1. CASE Taken(Thens(k))
    BY <2>1, TakenInTurn
  <2>2. CASE ~Taken(Thens(k))
    BY <2>2 DEF PairsRun, OrderInv, ReactionsInOrder
  <2> QED
    BY <2>1, <2>2
<1> QED
  BY <1>1, <1>2 DEF PairsRun

-----------------------------------------------------------------------------
(* A step that ends in a resolution.                                        *)

LEMMA ResolutionShifts ==
    ASSUME PromiseTypes, QueueTypes, CursorMoves, NEW p \in Promises, NEW st,
           Resolution(p, st)
    PROVE  Settling(p) /\ Shifts(Adopts(p)) /\ PromiseTypes' /\ QueueTypes' /\ Grows
<1>1. Settling(p) => Grows
  BY DEF Settling, Grows
<1>2. queue \in Seq(Job) /\ Len(queue) \in Nat /\ cursor' \in 0 .. Len(queue)
  BY DEF QueueTypes, CursorMoves
<1>3. CASE Ignored(p, st) \/ Asks(p, st)
  <2>1. promise' = promise /\ queue' = queue /\ Settling(p) /\ Still
    BY <1>3, IgnoredEffect, AsksEffect DEF Ignored, Asks
  <2>2. PromiseTypes'
    BY <2>1 DEF PromiseTypes
  <2>3. QueueTypes'
    BY <1>2, <2>1 DEF QueueTypes
  <2> QED
    BY <1>1, <2>1, <2>2, <2>3 DEF Shifts
<1>4. CASE Settles(p, st)
  <2>1. /\ Settling(p) /\ Flushes(p) /\ ~Pending(p)' /\ PromiseTypes'
        /\ queue' \in Seq(Job) /\ Len(queue') >= Len(queue)
    BY <1>4, SettlesEffect
  <2>2. QueueTypes'
    BY <1>2, <2>1 DEF QueueTypes
  <2>3. Pending(p)
    BY <1>4 DEF Settles
  <2> QED
    BY <1>1, <2>1, <2>2, <2>3 DEF Shifts
<1>5. CASE Follows(p, st)
  <2>1. /\ Settling(p) /\ PromiseTypes' /\ queue' = queue
        /\ \E q \in Promises \ {p} : Pending(q) /\ AddsToList(q, AdoptReaction(p))
    BY <1>5, FollowsEffect
  <2>2. QueueTypes'
    BY <1>2, <2>1 DEF QueueTypes
  <2>3. AdoptReaction(p) \in Adopts(p)
    BY Owners
  <2> QED
    BY <1>1, <2>1, <2>2, <2>3 DEF Shifts
<1> QED
  BY <1>3, <1>4, <1>5 DEF Resolution

LEMMA ResolutionCalls ==
    ASSUME NEW p \in Promises, NEW st \in Seq(Frame), st # <<>>, Resolution(p, st),
           NEW run, NEW d, NEW known, CallsOf(st, run, d, known)
    PROVE  stack' \in Seq(Frame) /\ stack' # <<>> /\ CallsOf(stack', run, d, known)
<1>1. CASE stack' = st
  BY <1>1
<1>2. ASSUME NEW v \in Thenables, stack' = Append(st, Getter(p, v))
      PROVE  stack' \in Seq(Frame) /\ stack' # <<>> /\ CallsOf(stack', run, d, known)
  <2>1. Getter(p, v) \in Frame /\ Getter(p, v).kind = "getter"
    BY DEF Frame, Getter
  <2> DEFINE f == Getter(p, v)
  <2>2. f \in Frame /\ f.kind = "getter" /\ stack' = Append(st, f)
    BY <1>2, <2>1
  <2> HIDE DEF f
  <2>3. stack' \in Seq(Frame) /\ stack' # <<>>
    BY <2>2, PushedCall
  <2> QED
    BY <2>2, <2>3, CallPushed
<1> QED
  BY <1>1, <1>2 DEF Resolution, Ignored, Settles, Follows, Asks

\* The pairs stay what they are, some may be used.
PairsStay ==
    /\ PairTypes' /\ DOMAIN pairs' = DOMAIN pairs
    /\ \A k \in DOMAIN pairs :
          pairs'[k].promise = pairs[k].promise /\ pairs'[k].source = pairs[k].source

LEMMA PairsStaySources ==
    ASSUME PairsStay
    PROVE  ThenPairs' = ThenPairs /\ Sources' = Sources
<1>1. ThenPairs' = ThenPairs
  BY DEF PairsStay, ThenPairs
<1> QED
  BY <1>1 DEF PairsStay, ThenPairs, Sources

\* The coroutines stay what they are, some may be resumed or end.
CoTypes ==
    co \in [Coroutines -> [state : {"idle", "running", "suspended", "done"},
                           result : Promises \cup {0}, vm : Nat]]

CoStay ==
    /\ CoTypes' /\ draining' \in BOOLEAN /\ evals' \in Nat
    /\ \A c \in Coroutines :
          /\ co'[c].state = "idle" <=> co[c].state = "idle"
          /\ co'[c].result = co[c].result

\* What the pairs and the coroutines refer to goes on to exist.
LEMMA RefersKept ==
    ASSUME PairTypes, Refers, Grows,
           (\A q \in Promises : ~Pending(q) => Reactions[q] = <<>>)',
           \A k \in DOMAIN pairs' :
              \/ k \in DOMAIN pairs /\ pairs'[k].promise = pairs[k].promise
                                    /\ pairs'[k].source = pairs[k].source
              \/ /\ promise'[pairs'[k].promise].state # "none"
                 /\ pairs'[k].source # 0 => promise'[pairs'[k].source].state # "none",
           \A c \in Coroutines : co'[c].state # "idle" =>
              \/ co[c].state # "idle" /\ co'[c].result = co[c].result
              \/ co'[c].result \in Promises /\ promise'[co'[c].result].state # "none"
    PROVE  Refers'
<1>1. ASSUME NEW k \in DOMAIN pairs'
      PROVE  /\ promise'[pairs'[k].promise].state # "none"
             /\ pairs'[k].source # 0 => promise'[pairs'[k].source].state # "none"
  <2>1. CASE k \in DOMAIN pairs /\ pairs'[k].promise = pairs[k].promise
                                 /\ pairs'[k].source = pairs[k].source
    <3>1. pairs[k].promise \in Promises /\ pairs[k].source \in Promises \cup {0}
      BY <2>1, PairParts
    <3>2. Born(pairs[k].promise) /\ (pairs[k].source # 0 => Born(pairs[k].source))
      BY <2>1 DEF Refers
    <3> QED
      BY <2>1, <3>1, <3>2 DEF Grows, Born
  <2> QED
    BY <2>1
<1>2. ASSUME NEW c \in Coroutines, co'[c].state # "idle"
      PROVE  co'[c].result \in Promises /\ promise'[co'[c].result].state # "none"
  <2>1. CASE co[c].state # "idle" /\ co'[c].result = co[c].result
    <3>1. co[c].result \in Promises /\ Born(co[c].result)
      BY <2>1 DEF Refers
    <3> QED
      BY <2>1, <3>1 DEF Grows, Born
  <2> QED
    BY <1>2, <2>1
<1> QED
  BY <1>1, <1>2 DEF Refers, Born

\* The reactions of `then` when those of S, of another kind, are added.
LEMMA ThenReactionsKept ==
    ASSUME Types, Refers, ThensInv, OrderInv, CursorMoves, PromiseTypes', PairsRun, Grows,
           NEW S \in SUBSET Reaction, Shifts(S), \A r \in S : r.kind # "then"
    PROVE  ThensInv' /\ OrderInv'
<1>1. PromiseTypes /\ PairTypes /\ QueueTypes
  BY DEF Types
<1>2. \A k : Thens(k) \cap S = {}
  BY DEF Thens
<1>3. ThensInv'
  BY <1>1, <1>2, ShiftsCarry, ThensKept
<1>4. Sources' = Sources
  BY DEF PairsRun, Sources
<1>5. OrderInv'
  BY <1>1, <1>4, OrderKept, InOrderKept DEF OrderInv
<1> QED
  BY <1>3, <1>5

\* The ways to settle p are the same, a reaction may have moved.
SameWays(p) ==
    /\ Pending(p)' <=> Pending(p)
    /\ PairWays(p)' = PairWays(p) /\ GetterWays(p)' = GetterWays(p) /\ CoWays(p)' = CoWays(p)
    /\ Places(Adopts(p)) = {} => Places(Adopts(p))' = {}
    /\ Single(Places(Adopts(p))) => Single(Places(Adopts(p))')

LEMMA WaysKept ==
    ASSUME WaysInv, \A p \in Promises :
              SameWays(p) \/ (Pending(p)' /\ OneWay(p)')
    PROVE  WaysInv'
<1> SUFFICES ASSUME NEW p \in Promises
             PROVE  IF Pending(p)' THEN OneWay(p)' ELSE NoWay(p)'
  BY DEF WaysInv
<1>1. CASE SameWays(p)
  <2>1. IF Pending(p) THEN OneWay(p) ELSE NoWay(p)
    BY DEF WaysInv
  <2> QED
    BY <1>1, <2>1 DEF SameWays, OneWay, NoWay, OneOf, NoneOf
<1> QED
  BY <1>1

\* A way to settle p is the only one.
LEMMA OnlyWay ==
    ASSUME WaysInv, NEW p \in Promises
    PROVE  /\ PairWays(p) # {} =>
                /\ Pending(p) /\ Single(PairWays(p)) /\ GetterWays(p) = {}
                /\ CoWays(p) = {} /\ Places(Adopts(p)) = {}
           /\ GetterWays(p) # {} =>
                /\ Pending(p) /\ PairWays(p) = {} /\ Single(GetterWays(p))
                /\ CoWays(p) = {} /\ Places(Adopts(p)) = {}
           /\ CoWays(p) # {} =>
                /\ Pending(p) /\ PairWays(p) = {} /\ GetterWays(p) = {}
                /\ Single(CoWays(p)) /\ Places(Adopts(p)) = {}
           /\ Places(Adopts(p)) # {} =>
                /\ Pending(p) /\ PairWays(p) = {} /\ GetterWays(p) = {}
                /\ CoWays(p) = {} /\ Single(Places(Adopts(p)))
<1>1. IF Pending(p) THEN OneWay(p) ELSE NoWay(p)
  BY DEF WaysInv
<1> QED
  BY <1>1 DEF OneWay, NoWay, OneOf, NoneOf

\* A pair is used.
LEMMA PairUsed ==
    ASSUME PairTypes, NEW k \in DOMAIN pairs, NEW p, p = pairs[k].promise,
           PairsStay, ~pairs[k].already, pairs'[k].already,
           \A j \in DOMAIN pairs : j # k => pairs'[j].already = pairs[j].already
    PROVE  /\ k \in PairWays(p)
           /\ \A q : q # p => PairWays(q)' = PairWays(q)
           /\ Single(PairWays(p)) => PairWays(p)' = {}
<1>1. k \in PairWays(p)
  BY DEF PairWays
<1>2. \A q : q # p => PairWays(q)' = PairWays(q)
  BY DEF PairWays, PairsStay
<1>3. PairWays(p)' \subseteq PairWays(p) \ {k}
  BY DEF PairWays, PairsStay
<1> QED
  BY <1>1, <1>2, <1>3 DEF Single

LEMMA ResolutionKeeps ==
    ASSUME IInv, CursorMoves, PairsStay, PairsRun, CoStay, CoResumes,
           NEW p \in Promises, NEW st \in Seq(Frame), st # <<>>, Resolution(p, st),
           CallsOf(st, Run', draining', DOMAIN pairs),
           \A q \in Promises \ {p} :
              /\ PairWays(q)' = PairWays(q) /\ CoWays(q)' = CoWays(q)
              /\ GettersIn(st, q) = GetterWays(q)
              /\ ~Taken(Adopts(q)),
           PairWays(p)' = {}, CoWays(p)' = {}, GettersIn(st, p) = {}, Later(Adopts(p)) = {}
    PROVE  IInv'
<1>1. /\ Types /\ Refers /\ WaysInv /\ ThensInv /\ AwaitsInv /\ OrderInv
      /\ PromiseTypes /\ PairTypes /\ QueueTypes /\ CallTypes
  BY DEF IInv, Types
<1>2. Settling(p) /\ Shifts(Adopts(p)) /\ PromiseTypes' /\ QueueTypes' /\ Grows
  BY <1>1, ResolutionShifts
<1>3. stack' \in Seq(Frame) /\ stack' # <<>> /\ CallsOf(stack', Run', draining', DOMAIN pairs)
  BY ResolutionCalls
<1>4. Types'
  BY <1>1, <1>2, <1>3 DEF Types, PairsStay, CoStay, CoTypes, CallTypes
<1>5. Calls'
  BY <1>3 DEF Calls, CoStay, PairsStay
<1>6. \A q \in Promises \ {p} : Later(Adopts(q)) = Places(Adopts(q))
  BY <1>1, TakenIff
<1>7. WaysInv'
  BY <1>1, <1>6, ResolutionWays
<1>8. /\ Adopts(p) \subseteq Reaction /\ \A r \in Adopts(p) : r.kind # "then"
      /\ \A c \in Coroutines : Awaits(c) \cap Adopts(p) = {}
  BY DEF Adopts, Awaits
<1>9. \A c \in Coroutines : Carries(Awaits(c))
  BY <1>1, <1>2, <1>8, ShiftsCarry
<1>10. (\A q \in Promises : ~Pending(q) => Reactions[q] = <<>>)'
  <2>1. \A q \in Promises : ~Pending(q) => Reactions[q] = <<>>
    BY <1>1 DEF Refers
  <2> QED
    BY <1>2, <2>1 DEF Settling
<1>11. Refers'
  BY <1>1, <1>2, <1>10, RefersKept DEF PairsStay, CoStay
<1>12. AwaitsInv'
  BY <1>1, <1>9, AwaitsKept
<1>13. ThensInv' /\ OrderInv'
  BY <1>1, <1>2, <1>8, ThenReactionsKept
<1> QED
  BY <1>4, <1>5, <1>7, <1>11, <1>12, <1>13 DEF IInv

\* A step that moves no reaction, but for a job that it takes.
LEMMA QuietKeeps ==
    ASSUME IInv, CursorMoves, PairsStay, PairsRun, CoStay, CoResumes \/ AwaitsInv',
           promise' = promise, queue' = queue,
           stack' \in Seq(Frame), stack' # <<>>,
           CallsOf(stack', Run', draining', DOMAIN pairs),
           \A q \in Promises :
              /\ PairWays(q)' = PairWays(q) /\ CoWays(q)' = CoWays(q)
              /\ GetterWays(q)' = GetterWays(q)
              /\ ~Taken(Adopts(q))
    PROVE  IInv'
<1>1. /\ Types /\ Refers /\ WaysInv /\ ThensInv /\ AwaitsInv /\ OrderInv
      /\ PromiseTypes /\ PairTypes /\ QueueTypes /\ CallTypes
  BY DEF IInv, Types
<1>2. /\ Still /\ Grows /\ \A q : Pending(q)' <=> Pending(q)
      /\ (\A q \in Promises : ~Pending(q) => Reactions[q] = <<>>)'
  BY <1>1 DEF Still, Grows, Pending, Born, Reactions, Refers
<1>3. PromiseTypes' /\ QueueTypes'
  BY <1>1 DEF PromiseTypes, QueueTypes, CursorMoves
<1>4. Types'
  BY <1>3 DEF Types, PairsStay, CoStay, CoTypes, CallTypes
<1>5. Calls'
  BY DEF Calls, PairsStay
<1>6. \A S : Places(S)' = Later(S)
  BY <1>2, StillPlaces
<1>7. \A q \in Promises : SameWays(q)
  BY <1>1, <1>2, <1>6, TakenIff DEF SameWays
<1>8. WaysInv'
  BY <1>1, <1>7, WaysKept
<1>9. Shifts({}) /\ \A c \in Coroutines : Carries(Awaits(c))
  BY <1>2, <1>6 DEF Shifts, Carries
<1>10. {} \in SUBSET Reaction /\ \A r \in {} : r.kind # "then"
  OBVIOUS
<1>11. Refers'
  BY <1>1, <1>2, RefersKept DEF PairsStay, CoStay
<1>12. AwaitsInv'
  BY <1>1, <1>9, AwaitsKept
<1>13. ThensInv' /\ OrderInv'
  BY <1>1, <1>2, <1>3, <1>9, <1>10, ThenReactionsKept
<1> QED
  BY <1>4, <1>5, <1>8, <1>11, <1>12, <1>13 DEF IInv

-----------------------------------------------------------------------------
(* User code calls resolving functions, returns and throws.                 *)

LEMMA NoJobTaken ==
    ASSUME QueueTypes, cursor' = cursor
    PROVE  CursorMoves /\ \A S : ~Taken(S) /\ Later(S) = Places(S)
BY DEF QueueTypes, CursorMoves, Taken, Later, Places

LEMMA PairsSame ==
    ASSUME PairTypes, pairs' = pairs
    PROVE  /\ PairsStay /\ \A q : PairWays(q)' = PairWays(q)
           /\ (\A k \in ThenPairs : ~Taken(Thens(k))) => PairsRun
BY DEF PairTypes, PairsStay, PairWays, PairsRun, ThenPairs

LEMMA CoSame ==
    ASSUME CallTypes, co' = co, draining' \in BOOLEAN, evals' \in Nat
    PROVE  /\ CoStay /\ Run' = Run /\ \A q : CoWays(q)' = CoWays(q)
           /\ (\A c \in Coroutines : ~Taken(Awaits(c))) => CoResumes
BY DEF CallTypes, CoStay, CoTypes, Run, CoWays, CoResumes

\* A pair is overwritten.
LEMMA PairSet ==
    ASSUME PairTypes, NEW k \in DOMAIN pairs, NEW already \in BOOLEAN, NEW ran \in Nat,
           pairs' = [pairs EXCEPT ![k] = [pairs[k] EXCEPT !.already = already, !.ran = ran]]
    PROVE  /\ PairsStay
           /\ pairs'[k].already = already /\ pairs'[k].ran = ran
           /\ \A j \in DOMAIN pairs : j # k => pairs'[j] = pairs[j]
<1> DEFINE P == [promise : Promises, source : Promises \cup {0}, already : BOOLEAN, ran : Nat]
           x == [pairs[k] EXCEPT !.already = already, !.ran = ran]
<1>1. pairs[k] \in P /\ pairs \in Seq(P)
  <2>1. pairs \in Seq(P)
    BY DEF PairTypes
  <2> HIDE DEF P
  <2> QED
    BY <2>1
<1>2. /\ x \in P /\ x.promise = pairs[k].promise /\ x.source = pairs[k].source
      /\ x.already = already /\ x.ran = ran
  BY <1>1
<1> HIDE DEF P, x
<1>3. pairs' = [pairs EXCEPT ![k] = x]
  BY DEF x
<1>4. pairs' \in Seq(P) /\ DOMAIN pairs' = DOMAIN pairs
  BY <1>1, <1>2, <1>3
<1>5. pairs'[k] = x /\ \A j \in DOMAIN pairs : j # k => pairs'[j] = pairs[j]
  BY <1>3
<1>6. PairTypes'
  BY <1>4 DEF PairTypes, P
<1> QED
  BY <1>2, <1>4, <1>5, <1>6 DEF PairsStay

LEMMA PairMarked ==
    ASSUME PairTypes, NEW k \in DOMAIN pairs, pairs' = MarkResolved(k)
    PROVE  /\ PairsStay
           /\ pairs'[k].already /\ pairs'[k].ran = pairs[k].ran
           /\ \A j \in DOMAIN pairs : j # k => pairs'[j] = pairs[j]
<1>1. /\ pairs' = [pairs EXCEPT ![k] = [pairs[k] EXCEPT !.already = TRUE, !.ran = pairs[k].ran]]
      /\ pairs[k].ran \in Nat
  <2> DEFINE P == [promise : Promises, source : Promises \cup {0}, already : BOOLEAN, ran : Nat]
  <2>1. pairs[k] \in P
    <3>1. pairs \in Seq(P)
      BY DEF PairTypes
    <3> HIDE DEF P
    <3> QED
      BY <3>1
  <2>2. [pairs[k] EXCEPT !.already = TRUE] =
        [pairs[k] EXCEPT !.already = TRUE, !.ran = pairs[k].ran]
    BY <2>1
  <2> QED
    BY <2>1, <2>2 DEF MarkResolved
<1> QED
  BY <1>1, PairSet

LEMMA PairCounted ==
    ASSUME PairTypes, NEW k \in DOMAIN pairs,
           \/ pairs' = Ran(k)
           \/ pairs' = [Ran(k) EXCEPT ![k].already = TRUE] /\ ~pairs[k].already
    PROVE  /\ PairsStay /\ pairs'[k].ran = pairs[k].ran + 1
           /\ pairs' = Ran(k) => pairs'[k].already = pairs[k].already
           /\ pairs' = [Ran(k) EXCEPT ![k].already = TRUE] => pairs'[k].already
           /\ \A j \in DOMAIN pairs : j # k => pairs'[j] = pairs[j]
<1> DEFINE P == [promise : Promises, source : Promises \cup {0}, already : BOOLEAN, ran : Nat]
<1>1. pairs[k] \in P /\ pairs \in Seq(P)
  <2>1. pairs \in Seq(P)
    BY DEF PairTypes
  <2> HIDE DEF P
  <2> QED
    BY <2>1
<1>2. pairs[k].ran + 1 \in Nat /\ pairs[k].already \in BOOLEAN
  BY <1>1
<1>3. /\ Ran(k) = [pairs EXCEPT ![k] = [pairs[k] EXCEPT !.already = pairs[k].already,
                                                       !.ran = pairs[k].ran + 1]]
      /\ [Ran(k) EXCEPT ![k].already = TRUE] =
           [pairs EXCEPT ![k] = [pairs[k] EXCEPT !.already = TRUE, !.ran = pairs[k].ran + 1]]
  BY <1>1 DEF Ran
<1>6. ASSUME pairs' = [Ran(k) EXCEPT ![k].already = TRUE] PROVE pairs'[k].already
  BY <1>2, <1>3, <1>6, PairSet
<1>4. CASE pairs' = Ran(k)
  <2> DEFINE a == pairs[k].already
             n == pairs[k].ran + 1
  <2>1. /\ pairs' = [pairs EXCEPT ![k] = [pairs[k] EXCEPT !.already = a, !.ran = n]]
        /\ a \in BOOLEAN /\ n \in Nat
    BY <1>2, <1>3, <1>4
  <2> HIDE DEF a, n
  <2>2. /\ PairsStay /\ pairs'[k].ran = n /\ pairs'[k].already = a
        /\ \A j \in DOMAIN pairs : j # k => pairs'[j] = pairs[j]
    BY <2>1, PairSet
  <2>3. /\ PairsStay /\ pairs'[k].ran = pairs[k].ran + 1 /\ pairs'[k].already = pairs[k].already
        /\ \A j \in DOMAIN pairs : j # k => pairs'[j] = pairs[j]
    BY <2>2 DEF a, n
  <2> QED
    BY <1>6, <2>3
<1>5. CASE pairs' = [Ran(k) EXCEPT ![k].already = TRUE] /\ ~pairs[k].already
  <2>1. /\ PairsStay /\ pairs'[k].ran = pairs[k].ran + 1 /\ pairs'[k].already
        /\ \A j \in DOMAIN pairs : j # k => pairs'[j] = pairs[j]
    BY <1>2, <1>3, <1>5, PairSet
  <2>2. Ran(k)[k].already = pairs[k].already
    BY <1>1, <1>2, <1>3
  <2>3. pairs' # Ran(k)
    BY <1>5, <2>1, <2>2
  <2> QED
    BY <1>6, <2>1, <2>3
<1> QED
  BY <1>4, <1>5, <1>6

\* What a resolving function is called with.
LEMMA ValuesGiven ==
    /\ Values \subseteq Directs \cup {q \in Promises : Born(q)}
    /\ Reasons \subseteq Directs /\ TypeError \in Directs /\ Undefined \in Directs
BY DEF Values, Reasons, Directs

\* A resolving function is called, or an action that settles through its pair.
LEMMA ResolverKeeps ==
    ASSUME IInv, NEW k \in DOMAIN pairs, NEW st \in Seq(Frame), st # <<>>,
           \/ \E v \in Values : CallResolver(k, TRUE, v, st)
           \/ \E v \in Reasons : CallResolver(k, FALSE, v, st),
           cursor' = cursor, co' = co, draining' = draining, evals' = evals,
           CallsOf(st, Run, draining, DOMAIN pairs),
           \A q : GettersIn(st, q) = GetterWays(q)
    PROVE  IInv'
<1>1. PromiseTypes /\ PairTypes /\ QueueTypes /\ CallTypes /\ WaysInv
  BY DEF IInv, Types
<1>2. CursorMoves /\ \A S : ~Taken(S) /\ Later(S) = Places(S)
  BY <1>1, NoJobTaken
<1>3. /\ CoStay /\ Run' = Run /\ (\A q : CoWays(q)' = CoWays(q)) /\ CoResumes
      /\ draining' = draining
  BY <1>1, <1>2, CoSame DEF CallTypes
<1>4. CASE pairs[k].already
  <2>1. stack' = st /\ UNCHANGED <<promise, queue, pairs>>
    BY <1>4 DEF CallResolver
  <2>2. PairsStay /\ (\A q : PairWays(q)' = PairWays(q)) /\ PairsRun
    BY <1>1, <1>2, <2>1, PairsSame
  <2>3. \A q : GetterWays(q)' = GetterWays(q)
    BY <2>1 DEF GetterWays
  <2> QED
    BY <1>2, <1>3, <2>1, <2>2, <2>3, QuietKeeps
<1>5. CASE ~pairs[k].already
  <2>2. PICK p \in Promises : p = pairs[k].promise
    BY <1>1, PairParts
  <2>1. /\ pairs' = MarkResolved(k)
        /\ \/ \E v \in Values : ResolveData(p, v, st)
           \/ \E v \in Reasons : RejectData(p, v, st)
    BY <1>5, <2>2 DEF CallResolver
  <2>3. Resolution(p, st)
    BY <1>1, <2>1, <2>2, ValuesGiven, ResolveCases, RejectCases DEF Resolution
  <2>4. /\ PairsStay
        /\ pairs'[k].already /\ pairs'[k].ran = pairs[k].ran
        /\ \A j \in DOMAIN pairs : j # k => pairs'[j] = pairs[j]
    BY <1>1, <2>1, PairMarked
  <2>5. PairsRun
    BY <1>1, <1>2, <2>4, PairParts, PairsStaySources DEF PairsRun, PairsStay
  <2>6. /\ k \in PairWays(p) /\ (\A q : q # p => PairWays(q)' = PairWays(q))
        /\ Single(PairWays(p)) => PairWays(p)' = {}
    BY <1>1, <1>5, <2>2, <2>4, PairUsed
  <2>7. Single(PairWays(p)) /\ GetterWays(p) = {} /\ CoWays(p) = {} /\ Places(Adopts(p)) = {}
    <3>1. PairWays(p) # {}
      BY <2>6
    <3> QED
      BY <1>1, <2>2, <3>1, OnlyWay
  <2>8. /\ PairWays(p)' = {} /\ CoWays(p)' = {} /\ GettersIn(st, p) = {}
        /\ Later(Adopts(p)) = {}
    BY <1>2, <1>3, <2>6, <2>7
  <2>9. /\ \A q \in Promises \ {p} :
              /\ PairWays(q)' = PairWays(q) /\ CoWays(q)' = CoWays(q)
              /\ GettersIn(st, q) = GetterWays(q)
              /\ ~Taken(Adopts(q))
        /\ CallsOf(st, Run', draining', DOMAIN pairs)
    BY <1>2, <1>3, <2>6
  <2> QED
    BY <1>2, <1>3, <2>2, <2>3, <2>4, <2>5, <2>8, <2>9, ResolutionKeeps
<1> QED
  BY <1>4, <1>5

\* The innermost call.
LEMMA TopFrame ==
    ASSUME IInv, stack # <<>>
    PROVE  /\ stack \in Seq(Frame) /\ Below \in Seq(Frame)
           /\ Top \in Frame /\ Top = stack[Len(stack)] /\ Len(stack) \in DOMAIN stack
           /\ \A q : GettersIn(Below, q) = GetterWays(q) \ {Len(stack)}
           /\ Top.kind # "getter" => \A q : GettersIn(Below, q) = GetterWays(q)
           /\ CallsOf(stack, Run, draining, DOMAIN pairs)
<1>1. stack \in Seq(Frame)
  BY DEF IInv, Types, CallTypes
<1>2. /\ Below \in Seq(Frame) /\ Top \in Frame /\ Top = stack[Len(stack)]
      /\ Len(stack) \in DOMAIN stack
  <2>1. /\ Front(stack) \in Seq(Frame)
        /\ Last(stack) \in Frame /\ Last(stack) = stack[Len(stack)]
        /\ Len(stack) \in Nat /\ Len(stack) > 0 /\ DOMAIN stack = 1 .. Len(stack)
    BY <1>1, FrontOfCalls
  <2> QED
    BY <2>1 DEF Below, Top
<1>3. \A q : GettersIn(Below, q) = GetterWays(q) \ {Len(stack)}
  BY <1>1, GettersPopped DEF GetterWays, Below
<1>4. Top.kind # "getter" => \A q : Len(stack) \notin GetterWays(q)
  BY <1>2 DEF GetterWays, GettersIn
<1> QED
  BY <1>1, <1>2, <1>3, <1>4 DEF IInv, Calls

\* What the innermost call refers to.
LEMMA TopParts ==
    ASSUME IInv, stack # <<>>
    PROVE  /\ Top.kind \in Callee =>
                /\ Top.pair \in DOMAIN pairs /\ Below # <<>>
                /\ CallsOf(Below, Run, draining, DOMAIN pairs)
           /\ Top.kind = "getter" =>
                /\ Top.promise \in Promises /\ Top.value \in Thenables /\ Below # <<>>
                /\ CallsOf(Below, Run, draining, DOMAIN pairs)
           /\ Top.kind = "coroutine" =>
                /\ Top.co \in Run /\ Below # <<>>
                /\ CallsOf(Below, Run \ {Top.co}, draining, DOMAIN pairs)
<1>1. /\ stack \in Seq(Frame) /\ Top \in Frame
      /\ Top = stack[Len(stack)] /\ Len(stack) \in DOMAIN stack
      /\ CallsOf(stack, Run, draining, DOMAIN pairs)
  BY TopFrame
<1>2. /\ Top.kind \in Callee => Top.pair \in DOMAIN pairs
      /\ Top.kind = "coroutine" => Top.co \in Run
  BY <1>1 DEF CallsOf, CallsRefer
<1>3. Top.kind = "getter" => Top.promise \in Promises /\ Top.value \in Thenables
  BY <1>1 DEF Frame, Callee
<1> QED
  BY <1>1, <1>2, <1>3, CallPopped, CoroutinePopped DEF Below, Top

LEMMA ResolverStep ==
    ASSUME IInv, Resolver PROVE IInv'
<1>1. /\ stack \in Seq(Frame) /\ stack # <<>>
      /\ CallsOf(stack, Run, draining, DOMAIN pairs)
      /\ \A q : GettersIn(stack, q) = GetterWays(q)
  BY TopFrame DEF Resolver, UserCode, GetterWays
<1>2. PICK k \in DOMAIN pairs :
        \/ \E v \in Values : CallResolver(k, TRUE, v, stack)
        \/ \E v \in Reasons : CallResolver(k, FALSE, v, stack)
  BY DEF Resolver
<1>3. cursor' = cursor /\ co' = co /\ draining' = draining /\ evals' = evals
  BY DEF Resolver
<1> QED
  BY <1>1, <1>2, <1>3, ResolverKeeps

LEMMA HandlerReturnsStep ==
    ASSUME IInv, stack # <<>>, HandlerReturns, UNCHANGED <<cursor, evals>> PROVE IInv'
<1>1. Top.kind = "handler" /\ Top.kind \in Callee /\ Top.kind # "getter"
  BY DEF HandlerReturns, Callee
<1>2. /\ Below \in Seq(Frame) /\ Below # <<>> /\ Top.pair \in DOMAIN pairs
      /\ CallsOf(Below, Run, draining, DOMAIN pairs)
      /\ \A q : GettersIn(Below, q) = GetterWays(q)
  BY <1>1, TopFrame, TopParts
<1>3. PICK k \in DOMAIN pairs : k = Top.pair
  BY <1>2
<1>4. /\ \E v \in Values : CallResolver(k, TRUE, v, Below)
      /\ cursor' = cursor /\ co' = co /\ draining' = draining /\ evals' = evals
  BY <1>3 DEF HandlerReturns
<1> QED
  BY <1>2, <1>4, ResolverKeeps

LEMMA CalleeThrowsStep ==
    ASSUME IInv, stack # <<>>, NEW v \in Reasons, CalleeThrows(v), UNCHANGED <<cursor, evals>>
    PROVE  IInv'
<1>1. Top.kind \in Callee /\ Top.kind # "getter"
  BY DEF CalleeThrows, Callee
<1>2. /\ Below \in Seq(Frame) /\ Below # <<>> /\ Top.pair \in DOMAIN pairs
      /\ CallsOf(Below, Run, draining, DOMAIN pairs)
      /\ \A q : GettersIn(Below, q) = GetterWays(q)
  BY <1>1, TopFrame, TopParts
<1>3. PICK k \in DOMAIN pairs : k = Top.pair
  BY <1>2
<1>4. /\ \E w \in Reasons : CallResolver(k, FALSE, w, Below)
      /\ cursor' = cursor /\ co' = co /\ draining' = draining /\ evals' = evals
  BY <1>3 DEF CalleeThrows
<1> QED
  BY <1>2, <1>4, ResolverKeeps

\* A quiet step that leaves the queue, the pairs and the coroutines alone.
LEMMA CallsOnly ==
    ASSUME IInv, UNCHANGED <<promise, pairs, queue, cursor, co, evals>>,
           draining' \in BOOLEAN, stack' \in Seq(Frame), stack' # <<>>,
           CallsOf(stack', Run, draining', DOMAIN pairs),
           \A q : GettersIn(stack', q) = GetterWays(q)
    PROVE  IInv'
<1>1. PairTypes /\ QueueTypes /\ CallTypes
  BY DEF IInv, Types
<1>2. CursorMoves /\ (\A S : ~Taken(S))
  BY <1>1, NoJobTaken
<1>3. /\ CoStay /\ Run' = Run /\ (\A q : CoWays(q)' = CoWays(q)) /\ CoResumes
  BY <1>1, <1>2, CoSame DEF CallTypes
<1>4. PairsStay /\ (\A q : PairWays(q)' = PairWays(q)) /\ PairsRun
  BY <1>1, <1>2, PairsSame
<1>5. \A q : GetterWays(q)' = GetterWays(q)
  BY DEF GetterWays
<1> QED
  BY <1>2, <1>3, <1>4, <1>5, QuietKeeps

LEMMA CalleeReturnsStep ==
    ASSUME IInv, stack # <<>>, CalleeReturns, UNCHANGED <<cursor, evals>> PROVE IInv'
<1>1. Top.kind \in Callee /\ Top.kind # "getter"
  BY DEF CalleeReturns, Callee
<1>2. /\ Below \in Seq(Frame) /\ Below # <<>>
      /\ CallsOf(Below, Run, draining, DOMAIN pairs)
      /\ \A q : GettersIn(Below, q) = GetterWays(q)
  BY <1>1, TopFrame, TopParts
<1>3. draining' = draining /\ draining \in BOOLEAN
  BY DEF CalleeReturns, IInv, Types, CallTypes
<1> QED
  BY <1>2, <1>3, CallsOnly DEF CalleeReturns

LEMMA DrainFrame ==
    \A outermost \in BOOLEAN :
        LET f == [kind |-> "drain", outermost |-> outermost]
        IN  f \in Frame /\ f.kind = "drain" /\ f.outermost = outermost
BY DEF Frame

LEMMA DrainStep ==
    ASSUME IInv, Drain PROVE IInv'
<1>1. /\ stack \in Seq(Frame) /\ stack # <<>>
      /\ CallsOf(stack, Run, draining, DOMAIN pairs) /\ draining \in BOOLEAN
  BY TopFrame DEF Drain, UserCode, IInv, Types, CallTypes
<1> DEFINE f == [kind |-> "drain", outermost |-> ~draining]
<1>2. f \in Frame /\ f.kind = "drain" /\ f.outermost = ~draining
  BY <1>1, DrainFrame
<1>3. stack' = Append(stack, f) /\ draining' = TRUE
  BY DEF Drain
<1> HIDE DEF f
<1>4. stack' \in Seq(Frame) /\ stack' # <<>>
  BY <1>1, <1>2, <1>3, PushedCall
<1>5. CallsOf(stack', Run, draining', DOMAIN pairs)
  BY <1>1, <1>2, <1>3, DrainPushed
<1>6. \A q : GettersIn(stack', q) = GetterWays(q)
  <2>1. \A q : GettersIn(Append(stack, f), q) = GettersIn(stack, q) \cup
             (IF f.kind = "getter" /\ f.promise = q THEN {Len(stack) + 1} ELSE {})
    BY <1>1, <1>2, GettersPushed
  <2> QED
    BY <1>2, <1>3, <2>1 DEF GetterWays
<1>7. UNCHANGED <<promise, pairs, queue, cursor, co, evals>>
  BY DEF Drain
<1> QED
  BY <1>3, <1>4, <1>5, <1>6, <1>7, CallsOnly

\* A script that ends leaves the outermost drain alone on the stack.
LEMMA ScriptEndsStep ==
    ASSUME IInv, stack # <<>>, ScriptEnds, UNCHANGED <<cursor, evals>> PROVE IInv'
<1>1. /\ stack \in Seq(Frame) /\ Top = stack[Len(stack)] /\ Len(stack) \in DOMAIN stack
      /\ CallsOf(stack, Run, draining, DOMAIN pairs) /\ draining \in BOOLEAN
  BY TopFrame DEF IInv, Types, CallTypes
<1>2. Len(stack) = 1 /\ stack[1].kind = "script" /\ DOMAIN stack = {1}
  <2>1. Len(stack) = 1
    BY <1>1 DEF ScriptEnds, CallsOf, CallsRefer
  <2> QED
    BY <1>1, <2>1 DEF ScriptEnds
<1>3. Run = {} /\ ~draining /\ \A q : GetterWays(q) = {}
  BY <1>1, <1>2 DEF CallsOf, RunOnce, Drains, GetterWays, GettersIn
<1> DEFINE f == [kind |-> "drain", outermost |-> TRUE]
<1>4. f \in Frame /\ f.kind = "drain" /\ f.outermost
  BY DrainFrame
<1>5. stack' = <<f>> /\ draining' = TRUE
  BY <1>3 DEF ScriptEnds
<1> HIDE DEF f
<1>6. stack' \in Seq(Frame) /\ stack' # <<>> /\ DOMAIN stack' = {1} /\ stack'[1] = f
  BY <1>4, <1>5
<1>7. CallsOf(stack', Run, draining', DOMAIN pairs)
  BY <1>3, <1>4, <1>5, <1>6
     DEF CallsOf, CallsRefer, OutermostFirst, RunOnce, Drains, Callee
<1>8. \A q : GettersIn(stack', q) = GetterWays(q)
  BY <1>3, <1>4, <1>6 DEF GettersIn
<1>9. UNCHANGED <<promise, pairs, queue, cursor, co, evals>>
  BY DEF ScriptEnds
<1> QED
  BY <1>5, <1>6, <1>7, <1>8, <1>9, CallsOnly

\* A coroutine runs to its end.
LEMMA CoroutineEnds ==
    ASSUME IInv, stack # <<>>, Top.kind = "coroutine",
           co' = [co EXCEPT ![Top.co].state = "done"],
           \/ \E v \in Values : ResolveData(co[Top.co].result, v, Below)
           \/ \E v \in Reasons : RejectData(co[Top.co].result, v, Below),
           UNCHANGED <<pairs, cursor, draining, evals>>
    PROVE  IInv'
<1>1. /\ PromiseTypes /\ PairTypes /\ QueueTypes /\ CallTypes /\ WaysInv /\ Refers
  BY DEF IInv, Types
<1>2. CursorMoves /\ \A S : ~Taken(S) /\ Later(S) = Places(S)
  BY <1>1, NoJobTaken
<1>3. PairsStay /\ (\A q : PairWays(q)' = PairWays(q)) /\ PairsRun
  BY <1>1, <1>2, PairsSame
<1>4. /\ Top.co \in Run /\ Below # <<>> /\ Below \in Seq(Frame)
      /\ CallsOf(Below, Run \ {Top.co}, draining, DOMAIN pairs)
      /\ \A q : GettersIn(Below, q) = GetterWays(q)
  BY TopFrame, TopParts
<1>5. PICK c \in Coroutines : c = Top.co /\ co[c].state = "running"
  BY <1>4 DEF Run
<1>6. PICK p \in Promises : p = co[c].result
  BY <1>1, <1>5 DEF Refers
<1>7. /\ co'[c].state = "done" /\ co'[c].result = co[c].result
      /\ \A d \in Coroutines : d # c => co'[d] = co[d]
  BY <1>1, <1>5 DEF CallTypes
<1>8. CoStay /\ Run' = Run \ {c}
  <2>1. CoTypes'
    BY <1>1, <1>5 DEF CallTypes, CoTypes
  <2> QED
    BY <1>1, <1>5, <1>7, <2>1 DEF CallTypes, CoStay, Run
<1>9. CoResumes
  BY <1>2, <1>5, <1>7 DEF CoResumes
<1>10. Resolution(p, Below)
  BY <1>1, <1>5, <1>6, ValuesGiven, ResolveCases, RejectCases DEF Resolution
<1>11. /\ c \in CoWays(p) /\ CoWays(p)' \subseteq CoWays(p) \ {c}
       /\ \A q : q # p => CoWays(q)' = CoWays(q)
  BY <1>5, <1>6, <1>7 DEF CoWays
<1>12. /\ PairWays(p) = {} /\ GetterWays(p) = {} /\ Single(CoWays(p))
       /\ Places(Adopts(p)) = {}
  BY <1>1, <1>11, OnlyWay
<1>13. CoWays(p)' = {}
  BY <1>11, <1>12 DEF Single
<1>14. /\ PairWays(p)' = {} /\ CoWays(p)' = {} /\ GettersIn(Below, p) = {}
       /\ Later(Adopts(p)) = {}
  BY <1>2, <1>3, <1>4, <1>12, <1>13
<1>15. /\ \A q \in Promises \ {p} :
              /\ PairWays(q)' = PairWays(q) /\ CoWays(q)' = CoWays(q)
              /\ GettersIn(Below, q) = GetterWays(q)
              /\ ~Taken(Adopts(q))
       /\ CallsOf(Below, Run', draining', DOMAIN pairs)
  BY <1>2, <1>3, <1>4, <1>5, <1>8, <1>11
<1> QED
  BY <1>2, <1>3, <1>4, <1>8, <1>9, <1>10, <1>14, <1>15, ResolutionKeeps

\* A getter in the middle of a resolution ends and settles its promise.
LEMMA GetterEnds ==
    ASSUME IInv, stack # <<>>, Top.kind = "getter",
           \/ Settle(Top.promise, "fulfilled", Top.value, Below)
           \/ \E v \in Reasons : RejectData(Top.promise, v, Below),
           UNCHANGED <<pairs, cursor, draining, evals, co>>
    PROVE  IInv'
<1>1. /\ PromiseTypes /\ PairTypes /\ QueueTypes /\ CallTypes /\ WaysInv
  BY DEF IInv, Types
<1>2. CursorMoves /\ \A S : ~Taken(S) /\ Later(S) = Places(S)
  BY <1>1, NoJobTaken
<1>3. PairsStay /\ (\A q : PairWays(q)' = PairWays(q)) /\ PairsRun
  BY <1>1, <1>2, PairsSame
<1>4. CoStay /\ Run' = Run /\ (\A q : CoWays(q)' = CoWays(q)) /\ CoResumes
  BY <1>1, <1>2, CoSame DEF CallTypes
<1>5. /\ Below # <<>> /\ Below \in Seq(Frame) /\ Top.promise \in Promises
      /\ Top.value \in Thenables
      /\ Top = stack[Len(stack)] /\ Len(stack) \in DOMAIN stack
      /\ CallsOf(Below, Run, draining, DOMAIN pairs)
      /\ \A q : GettersIn(Below, q) = GetterWays(q) \ {Len(stack)}
  BY TopFrame, TopParts
<1>6. PICK p \in Promises : p = Top.promise
  BY <1>5
<1>7. Top.value \in Directs /\ "fulfilled" \in States
  BY <1>5 DEF Directs, States
<1>8. Resolution(p, Below)
  BY <1>6, <1>7, ValuesGiven, SettleCases, RejectCases DEF Resolution
<1>9. /\ Len(stack) \in GetterWays(p)
      /\ \A q : q # p => GettersIn(Below, q) = GetterWays(q)
  BY <1>5, <1>6 DEF GetterWays, GettersIn
<1>10. /\ PairWays(p) = {} /\ Single(GetterWays(p)) /\ CoWays(p) = {}
       /\ Places(Adopts(p)) = {}
  <2>1. GetterWays(p) # {}
    BY <1>9
  <2> QED
    BY <2>1, <1>1, OnlyWay
<1>11. GettersIn(Below, p) = {}
  BY <1>5, <1>9, <1>10 DEF Single
<1>12. /\ PairWays(p)' = {} /\ CoWays(p)' = {} /\ Later(Adopts(p)) = {}
  BY <1>2, <1>3, <1>4, <1>10
<1>13. /\ \A q \in Promises \ {p} :
              /\ PairWays(q)' = PairWays(q) /\ CoWays(q)' = CoWays(q)
              /\ GettersIn(Below, q) = GetterWays(q)
              /\ ~Taken(Adopts(q))
       /\ CallsOf(Below, Run', draining', DOMAIN pairs)
  BY <1>2, <1>3, <1>4, <1>5, <1>9
<1> QED
  BY <1>2, <1>3, <1>4, <1>5, <1>8, <1>11, <1>12, <1>13, ResolutionKeeps

\* Reactions that are added: those of S, to a list or to the queue.
LEMMA AddedGain ==
    ASSUME PromiseTypes, QueueTypes, CursorMoves, NEW r \in Reaction,
           (\E q \in Promises : AddsToList(q, r)) \/ AddsToQueue(r)
    PROVE  \A S : IF r \in S THEN Gains(S) ELSE Places(S)' = Later(S)
<1>1. CASE \E q \in Promises : AddsToList(q, r)
  BY <1>1, AddsToListPlaces
<1>2. CASE AddsToQueue(r)
  BY <1>2, AddsToQueuePlaces
<1> QED
  BY <1>1, <1>2

\* The getter returned a function: a job is queued to call it.
LEMMA GetterQueues ==
    ASSUME IInv, stack # <<>>, Top.kind = "getter",
           queue' = Append(queue, ThenableJob(Top.promise)), stack' = Below,
           UNCHANGED <<promise, pairs, cursor, draining, evals, co>>
    PROVE  IInv'
<1>1. /\ PromiseTypes /\ PairTypes /\ QueueTypes /\ CallTypes /\ WaysInv
      /\ Types /\ Refers /\ ThensInv /\ AwaitsInv /\ OrderInv
  BY DEF IInv, Types
<1>2. CursorMoves /\ \A S : ~Taken(S) /\ Later(S) = Places(S)
  BY <1>1, NoJobTaken
<1>3. PairsStay /\ (\A q : PairWays(q)' = PairWays(q)) /\ PairsRun
  BY <1>1, <1>2, PairsSame
<1>4. CoStay /\ Run' = Run /\ (\A q : CoWays(q)' = CoWays(q)) /\ CoResumes
  BY <1>1, <1>2, CoSame DEF CallTypes
<1>5. /\ Below # <<>> /\ Below \in Seq(Frame) /\ Top.promise \in Promises
      /\ Top = stack[Len(stack)] /\ Len(stack) \in DOMAIN stack
      /\ CallsOf(Below, Run, draining, DOMAIN pairs)
      /\ \A q : GettersIn(Below, q) = GetterWays(q) \ {Len(stack)}
  BY TopFrame, TopParts
<1>6. PICK p \in Promises : p = Top.promise
  BY <1>5
<1>7. PICK r \in Adopts(p) : r = ThenableJob(p).reaction /\ r \in Reaction
  BY Owners
<1>8. ThenableJob(p) \in Job
  <2>1. ThenableJob(p).state \in States /\ ThenableJob(p).value \in Directs
    BY ValuesGiven DEF ThenableJob, States
  <2> QED
    BY <2>1, <1>7 DEF Job, ThenableJob
<1>9. Reactions' = Reactions /\ AddsToQueue(r)
  BY <1>6, <1>7, <1>8 DEF Reactions, AddsToQueue
<1>10. Types'
  <2>1. PromiseTypes' /\ PairTypes'
    BY <1>1 DEF PromiseTypes, PairTypes
  <2> DEFINE j == ThenableJob(p)
  <2>2. j \in Job /\ queue \in Seq(Job) /\ cursor' \in 0 .. Len(queue) /\ queue' = Append(queue, j)
    BY <1>1, <1>6, <1>8 DEF QueueTypes
  <2> HIDE DEF j
  <2>3. queue' \in Seq(Job) /\ cursor' \in 0 .. Len(queue')
    BY <2>2
  <2>4. CallTypes'
    BY <1>1, <1>5 DEF CallTypes
  <2> QED
    BY <2>1, <2>3, <2>4 DEF Types, QueueTypes
<1>11. Calls'
  BY <1>4, <1>5 DEF Calls
<1>12. /\ Grows /\ (\A q : Pending(q)' <=> Pending(q))
       /\ (\A q \in Promises : ~Pending(q) => Reactions[q] = <<>>)'
  BY <1>1, <1>9 DEF Grows, Pending, Born, Refers
<1>13. /\ Adopts(p) \subseteq Reaction /\ \A x \in Adopts(p) : x.kind # "then"
       /\ \A c \in Coroutines : Awaits(c) \cap Adopts(p) = {}
  BY DEF Adopts, Awaits
<1>14. Shifts(Adopts(p)) /\ \A c \in Coroutines : Carries(Awaits(c))
  <2>1. Shifts(Adopts(p))
    BY <1>9 DEF Shifts
  <2> QED
    BY <2>1, <1>1, <1>2, <1>13, ShiftsCarry
<1>15. /\ Refers'
       /\ AwaitsInv'
       /\ ThensInv' /\ OrderInv'
  <2>1. Refers'
    BY <1>1, <1>3, <1>4, <1>12, RefersKept DEF PairsStay, CoStay
  <2>2. AwaitsInv'
    BY <1>1, <1>2, <1>4, <1>14, AwaitsKept
  <2>3. ThensInv' /\ OrderInv'
    BY <1>1, <1>2, <1>3, <1>10, <1>12, <1>13, <1>14, ThenReactionsKept DEF Types
  <2> QED
    BY <2>1, <2>2, <2>3
<1>16. WaysInv'
  <2>1. \A S : IF r \in S THEN Gains(S) ELSE Places(S)' = Later(S)
    BY <1>1, <1>2, <1>7, <1>9, AddedGain
  <2>2. /\ Len(stack) \in GetterWays(p)
        /\ \A q : q # p => GetterWays(q)' = GetterWays(q)
        /\ GetterWays(p)' = GetterWays(p) \ {Len(stack)}
    <3>1. /\ Len(stack) \in GetterWays(p)
          /\ \A q : q # p => Len(stack) \notin GetterWays(q)
      BY <1>5, <1>6 DEF GetterWays, GettersIn
    <3>2. \A q : GetterWays(q)' = GettersIn(Below, q)
      BY DEF GetterWays
    <3> QED
      BY <3>1, <3>2, <1>5
  <2>3. /\ Pending(p) /\ PairWays(p) = {} /\ Single(GetterWays(p)) /\ CoWays(p) = {}
        /\ Places(Adopts(p)) = {}
    <3>1. GetterWays(p) # {}
      BY <2>2
    <3> QED
      BY <3>1, <1>1, OnlyWay
  <2>4. Single(Places(Adopts(p))')
    BY <2>1, <2>3, <1>2, <1>7 DEF Gains
  <2>5. GetterWays(p)' = {}
    BY <2>2, <2>3 DEF Single
  <2>6. Pending(p)' /\ OneWay(p)'
    BY <2>3, <2>4, <2>5, <1>3, <1>4, <1>12 DEF OneWay, OneOf
  <2>7. ASSUME NEW q \in Promises \ {p} PROVE SameWays(q)
    <3>1. r \notin Adopts(q)
      BY <1>7, OwnersDiffer
    <3>2. Places(Adopts(q))' = Places(Adopts(q))
      BY <3>1, <2>1, <1>2
    <3> QED
      BY <3>2, <2>2, <1>3, <1>4, <1>12 DEF SameWays
  <2> QED
    BY <2>6, <2>7, <1>1, WaysKept
<1> QED
  BY <1>10, <1>11, <1>15, <1>16 DEF IInv

-----------------------------------------------------------------------------
(* A coroutine is suspended.                                                *)

\* A coroutine goes from running to suspended, or back.
LEMMA CoSwitched ==
    ASSUME CallTypes, NEW c \in Coroutines, NEW s \in {"running", "suspended"},
           co[c].state \in {"running", "suspended"}, co' = [co EXCEPT ![c].state = s],
           draining' = draining, evals' = evals
    PROVE  /\ CoStay /\ \A q : CoWays(q)' = CoWays(q)
           /\ co'[c].state = s /\ \A d \in Coroutines : d # c => co'[d] = co[d]
           /\ Run' = IF s = "running" THEN Run \cup {c} ELSE Run \ {c}
<1>1. /\ co'[c].state = s /\ co'[c].result = co[c].result
      /\ \A d \in Coroutines : d # c => co'[d] = co[d]
  BY DEF CallTypes
<1>2. CoTypes'
  BY DEF CallTypes, CoTypes
<1>3. CoStay
  BY <1>1, <1>2 DEF CoStay, CallTypes
<1>4. \A q : CoWays(q)' = CoWays(q)
  BY <1>1 DEF CoWays
<1>5. Run' = IF s = "running" THEN Run \cup {c} ELSE Run \ {c}
  BY <1>1 DEF Run
<1> QED
  BY <1>1, <1>3, <1>4, <1>5

\* The innermost call is a coroutine that runs.
LEMMA TopCoroutine ==
    ASSUME IInv, stack # <<>>, Top.kind = "coroutine"
    PROVE  /\ Top.co \in Coroutines /\ co[Top.co].state = "running"
           /\ Below \in Seq(Frame) /\ Below # <<>>
           /\ CallsOf(Below, Run \ {Top.co}, draining, DOMAIN pairs)
           /\ \A q : GettersIn(Below, q) = GetterWays(q)
BY TopFrame, TopParts DEF Run

\* The await fails: nothing is subscribed.
LEMMA AwaitPoisonedStep ==
    ASSUME IInv, AwaitPoisoned PROVE IInv'
<1>1. /\ PairTypes /\ QueueTypes /\ CallTypes /\ AwaitsInv
  BY DEF IInv, Types
<1>2. CursorMoves /\ \A S : ~Taken(S) /\ Later(S) = Places(S)
  BY <1>1, NoJobTaken DEF AwaitPoisoned
<1>3. PairsStay /\ (\A q : PairWays(q)' = PairWays(q)) /\ PairsRun
  BY <1>1, <1>2, PairsSame DEF AwaitPoisoned
<1>4. stack # <<>> /\ Top.kind = "coroutine"
  BY DEF AwaitPoisoned, UserCode
<1>5. PICK c \in Coroutines : c = Top.co
  BY <1>4, TopCoroutine
<1>6. /\ co[c].state = "running" /\ Below \in Seq(Frame) /\ Below # <<>>
      /\ CallsOf(Below, Run \ {c}, draining, DOMAIN pairs)
      /\ \A q : GettersIn(Below, q) = GetterWays(q)
  BY <1>4, <1>5, TopCoroutine
<1>7. /\ CoStay /\ (\A q : CoWays(q)' = CoWays(q)) /\ Run' = Run \ {c}
      /\ co'[c].state = "suspended" /\ \A d \in Coroutines : d # c => co'[d] = co[d]
  BY <1>1, <1>5, <1>6, CoSwitched DEF AwaitPoisoned
<1>8. /\ promise' = promise /\ queue' = queue /\ stack' = Below /\ draining' = draining
      /\ Poisonable
  BY DEF AwaitPoisoned
<1>9. \A S : Places(S)' = Places(S)
  BY <1>2, <1>8, StillPlaces DEF Still, Reactions
<1>10. AwaitsInv'
  <2> SUFFICES ASSUME NEW d \in Coroutines
               PROVE  IF co'[d].state = "suspended"
                      THEN \/ Single(Places(Awaits(d))')
                           \/ Poisonable /\ Places(Awaits(d))' = {}
                      ELSE Places(Awaits(d))' = {}
    BY DEF AwaitsInv
  <2>1. IF co[d].state = "suspended"
        THEN Single(Places(Awaits(d))) \/ (Poisonable /\ Places(Awaits(d)) = {})
        ELSE Places(Awaits(d)) = {}
    BY <1>1 DEF AwaitsInv
  <2>2. Places(Awaits(d))' = Places(Awaits(d))
    BY <1>9
  <2> QED
    BY <2>1, <2>2, <1>6, <1>7, <1>8
<1>11. /\ stack' \in Seq(Frame) /\ stack' # <<>>
       /\ CallsOf(stack', Run', draining', DOMAIN pairs)
       /\ \A q \in Promises :
              /\ PairWays(q)' = PairWays(q) /\ CoWays(q)' = CoWays(q)
              /\ GetterWays(q)' = GetterWays(q)
              /\ ~Taken(Adopts(q))
  <2>1. \A q : GetterWays(q)' = GettersIn(Below, q)
    BY <1>8 DEF GetterWays
  <2> QED
    BY <2>1, <1>2, <1>3, <1>6, <1>7, <1>8
<1> QED
  BY <1>2, <1>3, <1>7, <1>8, <1>10, <1>11, QuietKeeps

\* A reaction is appended to a list.
LEMMA ListAppended ==
    ASSUME PromiseTypes, NEW q \in Promises, NEW r \in Reaction,
           promise' = [promise EXCEPT ![q].reactions = Append(@, r)]
    PROVE  /\ PromiseTypes' /\ Reactions' = Listed(Reactions, q, r)
           /\ Grows /\ \A p \in Promises : Pending(p)' <=> Pending(p)
           /\ Pending(q) /\ (\A p \in Promises : ~Pending(p) => Reactions[p] = <<>>)
                => (\A p \in Promises : ~Pending(p) => Reactions[p] = <<>>)'
<1>1. /\ \A p \in Promises \ {q} : promise'[p] = promise[p]
      /\ promise'[q].state = promise[q].state /\ promise'[q].value = promise[q].value
      /\ promise'[q].reactions = Append(promise[q].reactions, r)
  BY DEF PromiseTypes
<1>2. Reactions' = Listed(Reactions, q, r)
  BY <1>1, ReactionsType DEF Reactions, Listed
<1>3. PromiseTypes'
  <2> DEFINE R == {"none", "pending"} \cup States
             Q == Seq(Reaction)
  <2>1. promise[q].reactions \in Q
    BY DEF PromiseTypes
  <2>2. Append(promise[q].reactions, r) \in Q
    BY <2>1
  <2> HIDE DEF R, Q
  <2>3. promise \in [Promises -> [state : R, value : Directs, reactions : Q]]
    BY DEF PromiseTypes, R, Q
  <2>4. promise' \in [Promises -> [state : R, value : Directs, reactions : Q]]
    BY <2>2, <2>3
  <2> QED
    BY <2>4 DEF PromiseTypes, R, Q
<1>4. Grows /\ \A p \in Promises : Pending(p)' <=> Pending(p)
  BY <1>1 DEF Grows, Born, Pending
<1> QED
  BY <1>1, <1>2, <1>3, <1>4 DEF Reactions, Pending

LEMMA JobQueued ==
    ASSUME QueueTypes, cursor' = cursor, NEW j \in Job, queue' = Append(queue, j)
    PROVE  QueueTypes'
BY DEF QueueTypes

LEMMA JobMade ==
    ASSUME NEW r \in Reaction, NEW state \in States, NEW value \in Directs
    PROVE  ReactionJob(r, state, value) \in Job /\ ReactionJob(r, state, value).reaction = r
BY DEF Job, ReactionJob

\* The continuation of the await waits in a list or in the queue.
LEMMA AwaitAdds ==
    ASSUME PromiseTypes, QueueTypes, NEW c \in Coroutines, c = Top.co, Await
    PROVE  /\ PromiseTypes' /\ QueueTypes' /\ Grows
           /\ \A p \in Promises : Pending(p)' <=> Pending(p)
           /\ (\A p \in Promises : ~Pending(p) => Reactions[p] = <<>>)
                => (\A p \in Promises : ~Pending(p) => Reactions[p] = <<>>)'
           /\ \/ \E q \in Promises : AddsToList(q, AwaitReaction(c))
              \/ AddsToQueue(AwaitReaction(c))
<1>1. PICK r \in Reaction : r = AwaitReaction(c)
  BY Owners
<1>2. PICK v \in Values \ Thenables :
        IF v \in Promises /\ Pending(v)
        THEN /\ promise' = [promise EXCEPT ![v].reactions = Append(@, r)]
             /\ queue' = queue
        ELSE /\ queue' = Append(queue,
                    IF v \in Promises THEN ReactionJob(r, promise[v].state, promise[v].value)
                    ELSE ReactionJob(r, "fulfilled", v))
             /\ promise' = promise
  BY <1>1 DEF Await
<1>3. CASE v \in Promises /\ Pending(v)
  <2>1. promise' = [promise EXCEPT ![v].reactions = Append(@, r)] /\ queue' = queue
    BY <1>2, <1>3
  <2>2. QueueTypes'
    BY <2>1 DEF QueueTypes, Await
  <2>3. AddsToList(v, r)
    BY <1>3, <2>1, ListAppended DEF AddsToList
  <2> QED
    BY <1>1, <1>3, <2>1, <2>2, <2>3, ListAppended
<1>4. CASE ~(v \in Promises /\ Pending(v))
  <2>1. PICK state \in States, value \in Directs :
          queue' = Append(queue, ReactionJob(r, state, value))
    <3>1. CASE v \in Promises
      <4>1. Born(v)
        BY <1>2, <3>1, ValuesGiven, PromisesAssumption DEF Directs
      <4>2. promise[v].state \in States /\ promise[v].value \in Directs
        BY <1>4, <3>1, <4>1 DEF PromiseTypes, Born, Pending
      <4> QED
        BY <1>2, <1>4, <3>1, <4>2
    <3>2. CASE v \notin Promises
      <4>1. v \in Directs /\ "fulfilled" \in States
        BY <1>2, <3>2, ValuesGiven DEF States
      <4> QED
        BY <1>2, <1>4, <3>2, <4>1
    <3> QED
      BY <3>1, <3>2
  <2>2. /\ ReactionJob(r, state, value) \in Job /\ ReactionJob(r, state, value).reaction = r
        /\ promise' = promise /\ cursor' = cursor
    BY <1>2, <1>4, JobMade DEF Await
  <2>3. QueueTypes'
    BY <2>1, <2>2, JobQueued
  <2>4. AddsToQueue(r)
    BY <2>1, <2>2 DEF AddsToQueue, Reactions
  <2>5. PromiseTypes' /\ Grows /\ (\A p \in Promises : Pending(p)' <=> Pending(p))
        /\ Reactions' = Reactions
    BY <2>2 DEF PromiseTypes, Grows, Pending, Born, Reactions
  <2> QED
    BY <1>1, <2>3, <2>4, <2>5
<1> QED
  BY <1>3, <1>4

LEMMA AwaitStep ==
    ASSUME IInv, Await PROVE IInv'
<1>1. /\ PromiseTypes /\ PairTypes /\ QueueTypes /\ CallTypes /\ WaysInv
      /\ Types /\ Refers /\ ThensInv /\ AwaitsInv /\ OrderInv
  BY DEF IInv, Types
<1>2. /\ stack # <<>> /\ Top.kind = "coroutine" /\ stack' = Below
      /\ pairs' = pairs /\ cursor' = cursor /\ draining' = draining /\ evals' = evals
  BY DEF Await, UserCode
<1>3. CursorMoves /\ \A S : ~Taken(S) /\ Later(S) = Places(S)
  BY <1>1, <1>2, NoJobTaken
<1>4. PairsStay /\ (\A q : PairWays(q)' = PairWays(q)) /\ PairsRun
  BY <1>1, <1>2, <1>3, PairsSame
<1>5. PICK c \in Coroutines : c = Top.co
  BY <1>2, TopCoroutine
<1>6. /\ co[c].state = "running" /\ Below \in Seq(Frame) /\ Below # <<>>
      /\ CallsOf(Below, Run \ {c}, draining, DOMAIN pairs)
      /\ \A q : GettersIn(Below, q) = GetterWays(q)
  BY <1>2, <1>5, TopCoroutine
<1>7. /\ CoStay /\ (\A q : CoWays(q)' = CoWays(q)) /\ Run' = Run \ {c}
      /\ co'[c].state = "suspended" /\ \A d \in Coroutines : d # c => co'[d] = co[d]
  BY <1>1, <1>2, <1>5, <1>6, CoSwitched DEF Await
<1>8. PICK r \in Awaits(c) : r = AwaitReaction(c) /\ r \in Reaction
  BY Owners
<1>9. /\ PromiseTypes' /\ QueueTypes' /\ Grows
      /\ \A p \in Promises : Pending(p)' <=> Pending(p)
      /\ (\A p \in Promises : ~Pending(p) => Reactions[p] = <<>>)
                => (\A p \in Promises : ~Pending(p) => Reactions[p] = <<>>)'
      /\ (\E q \in Promises : AddsToList(q, r)) \/ AddsToQueue(r)
  BY <1>1, <1>5, <1>8, AwaitAdds
<1>10. (\A p \in Promises : ~Pending(p) => Reactions[p] = <<>>)'
  BY <1>1, <1>9 DEF Refers
<1>11. \A S : IF r \in S THEN Gains(S) ELSE Places(S)' = Later(S)
  BY <1>1, <1>3, <1>8, <1>9, AddedGain
<1>12. Types'
  BY <1>1, <1>2, <1>4, <1>6, <1>7, <1>9 DEF Types, PairsStay, CoStay, CoTypes, CallTypes
<1>13. Calls'
  BY <1>2, <1>6, <1>7 DEF Calls
<1>14. Refers'
  BY <1>1, <1>4, <1>7, <1>9, <1>10, RefersKept DEF PairsStay, CoStay
<1>15. ThensInv' /\ OrderInv'
  <2>1. /\ Awaits(c) \in SUBSET Reaction /\ \A x \in Awaits(c) : x.kind # "then"
        /\ Shifts(Awaits(c))
    BY <1>9 DEF Awaits, Shifts
  <2> QED
    BY <1>1, <1>3, <1>4, <1>9, <2>1, ThenReactionsKept
<1>16. AwaitsInv'
  <2> SUFFICES ASSUME NEW d \in Coroutines
               PROVE  IF co'[d].state = "suspended"
                      THEN \/ Single(Places(Awaits(d))')
                           \/ Poisonable /\ Places(Awaits(d))' = {}
                      ELSE Places(Awaits(d))' = {}
    BY DEF AwaitsInv
  <2>1. IF co[d].state = "suspended"
        THEN Single(Places(Awaits(d))) \/ (Poisonable /\ Places(Awaits(d)) = {})
        ELSE Places(Awaits(d)) = {}
    BY <1>1 DEF AwaitsInv
  <2>2. CASE d = c
    <3>1. Places(Awaits(c)) = {}
      BY <2>1, <2>2, <1>6
    <3>2. Single(Places(Awaits(c))')
      BY <3>1, <1>3, <1>11, <1>8 DEF Gains
    <3> QED
      BY <3>2, <2>2, <1>7
  <2>3. CASE d # c
    <3>1. r \notin Awaits(d)
      BY <2>3, <1>8, OwnersDiffer
    <3>2. Places(Awaits(d))' = Places(Awaits(d))
      BY <3>1, <1>3, <1>11
    <3> QED
      BY <3>2, <2>1, <2>3, <1>7
  <2> QED
    BY <2>2, <2>3
<1>17. WaysInv'
  <2> SUFFICES ASSUME NEW p \in Promises PROVE SameWays(p)
    BY <1>1, WaysKept
  <2>1. r \notin Adopts(p)
    BY <1>8, OwnersDiffer
  <2>2. Places(Adopts(p))' = Places(Adopts(p))
    BY <2>1, <1>3, <1>11
  <2>3. GetterWays(p)' = GetterWays(p)
    BY <1>2, <1>6 DEF GetterWays
  <2> QED
    BY <2>2, <2>3, <1>4, <1>7, <1>9 DEF SameWays
<1> QED
  BY <1>12, <1>13, <1>14, <1>15, <1>16, <1>17 DEF IInv

-----------------------------------------------------------------------------
(* A promise is made.                                                       *)

LEMMA PromiseBorn ==
    ASSUME PromiseTypes, Refers, NEW p \in Promises, ~Born(p),
           promise' = [promise EXCEPT ![p] = PendingPromise]
    PROVE  /\ PromiseTypes' /\ Reactions' = Reactions /\ Grows
           /\ Pending(p)' /\ Born(p)'
           /\ \A q \in Promises : q # p => (Pending(q)' <=> Pending(q))
           /\ (\A q \in Promises : ~Pending(q) => Reactions[q] = <<>>)'
<1>1. /\ \A q \in Promises \ {p} : promise'[q] = promise[q]
      /\ promise'[p].state = "pending" /\ promise'[p].reactions = <<>>
  BY DEF PromiseTypes, PendingPromise
<1>2. PromiseTypes'
  <2> DEFINE R == {"none", "pending"} \cup States
             Q == Seq(Reaction)
  <2>1. <<>> \in Q /\ Undefined \in Directs /\ "pending" \in R
    BY ValuesGiven
  <2> HIDE DEF R, Q
  <2>2. PendingPromise \in [state : R, value : Directs, reactions : Q]
    BY <2>1 DEF PendingPromise
  <2>3. promise \in [Promises -> [state : R, value : Directs, reactions : Q]]
    BY DEF PromiseTypes, R, Q
  <2>4. promise' \in [Promises -> [state : R, value : Directs, reactions : Q]]
    BY <2>2, <2>3
  <2> QED
    BY <2>4 DEF PromiseTypes, R, Q
<1>3. Reactions' = Reactions
  <2>1. Reactions[p] = <<>>
    BY DEF Refers, Born, Pending
  <2>2. promise[p].reactions = <<>>
    BY <2>1, ReactionsType
  <2> QED
    BY <1>1, <2>2 DEF Reactions
<1>4. /\ Pending(p)' /\ Born(p)'
      /\ \A q \in Promises : q # p => ((Pending(q)' <=> Pending(q)) /\ (Born(q)' <=> Born(q)))
  BY <1>1 DEF Pending, Born
<1>5. Grows
  BY <1>4 DEF Grows
<1>6. (\A q \in Promises : ~Pending(q) => Reactions[q] = <<>>)'
  BY <1>3, <1>4 DEF Refers
<1> QED
  BY <1>2, <1>3, <1>4, <1>5, <1>6

LEMMA PairAppended ==
    ASSUME PairTypes, NEW p \in Promises, NEW s \in Promises \cup {0},
           pairs' = Append(pairs, NewPair(p, s)), NEW n, n = Len(pairs) + 1
    PROVE  /\ PairTypes' /\ n \in Nat /\ n > 0
           /\ DOMAIN pairs' = DOMAIN pairs \cup {n}
           /\ \A k \in DOMAIN pairs : pairs'[k] = pairs[k] /\ k < n
           /\ pairs'[n].promise = p /\ pairs'[n].source = s /\ pairs'[n].ran = 0
           /\ PairWays(p)' = PairWays(p) \cup {n}
           /\ \A q : q # p => PairWays(q)' = PairWays(q)
           /\ ThenPairs' = IF s = 0 THEN ThenPairs ELSE ThenPairs \cup {n}
<1> DEFINE P == [promise : Promises, source : Promises \cup {0}, already : BOOLEAN, ran : Nat]
           x == NewPair(p, s)
<1>1. x \in P /\ x.promise = p /\ x.source = s /\ x.ran = 0 /\ ~x.already
  BY DEF NewPair
<1>2. pairs \in Seq(P) /\ pairs' = Append(pairs, x)
  BY DEF PairTypes
<1> HIDE DEF P, x
<1>3. /\ pairs' \in Seq(P) /\ n \in Nat /\ n > 0
      /\ DOMAIN pairs' = DOMAIN pairs \cup {n} /\ n \notin DOMAIN pairs
      /\ \A k \in DOMAIN pairs : pairs'[k] = pairs[k] /\ k < n
      /\ pairs'[n] = x
  BY <1>1, <1>2
<1>4. PairTypes'
  BY <1>3 DEF PairTypes, P
<1>5. /\ PairWays(p)' = PairWays(p) \cup {n}
      /\ \A q : q # p => PairWays(q)' = PairWays(q)
  BY <1>1, <1>3 DEF PairWays
<1>6. ThenPairs' = IF s = 0 THEN ThenPairs ELSE ThenPairs \cup {n}
  BY <1>1, <1>3 DEF ThenPairs
<1> QED
  BY <1>1, <1>3, <1>4, <1>5, <1>6

LEMMA CalleeFrame ==
    \A kind \in Callee, k \in Nat :
        LET f == [kind |-> kind, pair |-> k]
        IN  f \in Frame /\ f.kind = kind /\ f.pair = k
BY DEF Frame

LEMMA ConstructStep ==
    ASSUME IInv, Construct PROVE IInv'
<1>1. /\ PromiseTypes /\ PairTypes /\ QueueTypes /\ CallTypes /\ WaysInv
      /\ Types /\ Refers /\ ThensInv /\ AwaitsInv /\ OrderInv
  BY DEF IInv, Types
<1>2. PICK p \in Promises :
        /\ Fresh(p)
        /\ promise' = [promise EXCEPT ![p] = PendingPromise]
        /\ pairs' = Append(pairs, NewPair(p, 0))
        /\ stack' = Append(stack, [kind |-> "executor", pair |-> Len(pairs) + 1])
  BY DEF Construct
<1>3. /\ queue' = queue /\ cursor' = cursor /\ draining' = draining /\ co' = co
      /\ evals' = evals /\ stack # <<>>
  BY DEF Construct, UserCode
<1>4. CursorMoves /\ \A S : ~Taken(S) /\ Later(S) = Places(S)
  BY <1>1, <1>3, NoJobTaken
<1>5. CoStay /\ Run' = Run /\ (\A q : CoWays(q)' = CoWays(q)) /\ CoResumes
  BY <1>1, <1>3, <1>4, CoSame DEF CallTypes
<1>6. /\ PromiseTypes' /\ Reactions' = Reactions /\ Grows /\ Pending(p)' /\ Born(p)'
      /\ \A q \in Promises : q # p => (Pending(q)' <=> Pending(q))
      /\ (\A q \in Promises : ~Pending(q) => Reactions[q] = <<>>)'
  BY <1>1, <1>2, PromiseBorn DEF Fresh
<1>7. PICK n : n = Len(pairs) + 1
  OBVIOUS
<1>8. /\ PairTypes' /\ n \in Nat /\ n > 0
      /\ DOMAIN pairs' = DOMAIN pairs \cup {n}
      /\ \A k \in DOMAIN pairs : pairs'[k] = pairs[k] /\ k < n
      /\ pairs'[n].promise = p /\ pairs'[n].source = 0
      /\ PairWays(p)' = PairWays(p) \cup {n}
      /\ \A q : q # p => PairWays(q)' = PairWays(q)
      /\ ThenPairs' = ThenPairs
  BY <1>1, <1>2, <1>7, PairAppended
<1>9. /\ CallsOf(stack, Run, draining, DOMAIN pairs) /\ stack \in Seq(Frame)
  BY <1>3, TopFrame
<1> DEFINE f == [kind |-> "executor", pair |-> n]
<1>10. f \in Frame /\ f.kind = "executor" /\ f.kind \in Callee /\ f.pair \in DOMAIN pairs'
  BY <1>8, CalleeFrame DEF Callee
<1>11. stack' = Append(stack, f)
  BY <1>2, <1>7
<1> HIDE DEF f
<1>12. stack' \in Seq(Frame) /\ stack' # <<>>
  BY <1>9, <1>10, <1>11, PushedCall
<1>13. CallsOf(stack', Run', draining', DOMAIN pairs')
  <2>1. CallsOf(stack, Run, draining, DOMAIN pairs')
    BY <1>8, <1>9, CallsKnown
  <2> QED
    BY <2>1, <1>3, <1>5, <1>9, <1>10, <1>11, CallPushed
<1>14. \A q : GetterWays(q)' = GetterWays(q)
  <2>1. \A q : GettersIn(Append(stack, f), q) = GettersIn(stack, q) \cup
             (IF f.kind = "getter" /\ f.promise = q THEN {Len(stack) + 1} ELSE {})
    BY <1>9, <1>10, GettersPushed
  <2> QED
    BY <1>10, <1>11, <2>1 DEF GetterWays
<1>15. QueueTypes'
  BY <1>1, <1>3 DEF QueueTypes
<1>16. Types'
  BY <1>1, <1>3, <1>6, <1>8, <1>12, <1>15 DEF Types, CallTypes
<1>17. Calls'
  BY <1>12, <1>13 DEF Calls
<1>18. Refers'
  BY <1>1, <1>5, <1>6, <1>8, RefersKept DEF CoStay, Born
<1>19. Still /\ \A S : Places(S)' = Places(S)
  BY <1>3, <1>4, <1>6, StillPlaces DEF Still
<1>20. PairsRun
  BY <1>1, <1>4, <1>8, PairParts DEF PairsRun
<1>21. ThensInv' /\ OrderInv'
  <2>1. /\ {} \in SUBSET Reaction /\ (\A r \in {} : r.kind # "then") /\ Shifts({})
    BY <1>19 DEF Shifts
  <2> QED
    BY <1>1, <1>4, <1>6, <1>20, <2>1, ThenReactionsKept
<1>22. AwaitsInv'
  BY <1>1, <1>4, <1>5, <1>19, AwaitsKept DEF Carries
<1>23. WaysInv'
  <2>1. PairWays(p) = {} /\ GetterWays(p) = {} /\ CoWays(p) = {} /\ Places(Adopts(p)) = {}
    BY <1>1, <1>2 DEF WaysInv, NoWay, NoneOf, Fresh, Born, Pending
  <2>2. Pending(p)' /\ OneWay(p)'
    BY <2>1, <1>5, <1>6, <1>8, <1>14, <1>19 DEF OneWay, OneOf, Single
  <2>3. \A q \in Promises \ {p} : SameWays(q)
    BY <1>5, <1>6, <1>8, <1>14, <1>19 DEF SameWays
  <2> QED
    BY <1>1, <2>2, <2>3, WaysKept
<1> QED
  BY <1>16, <1>17, <1>18, <1>21, <1>22, <1>23 DEF IInv

LEMMA CoroutineFrame ==
    \A c \in Coroutines :
        LET f == [kind |-> "coroutine", co |-> c]
        IN  f \in Frame /\ f.kind = "coroutine" /\ f.co = c
BY DEF Frame

LEMMA CallAsyncStep ==
    ASSUME IInv, CallAsync PROVE IInv'
<1>1. /\ PromiseTypes /\ PairTypes /\ QueueTypes /\ CallTypes /\ WaysInv
      /\ Types /\ Refers /\ ThensInv /\ AwaitsInv /\ OrderInv
  BY DEF IInv, Types
<1>2. PICK c \in Coroutines, p \in Promises :
        /\ co[c].state = "idle" /\ Fresh(p)
        /\ promise' = [promise EXCEPT ![p] = PendingPromise]
        /\ co' = [co EXCEPT ![c] = [state |-> "running", result |-> p, vm |-> evals]]
        /\ stack' = Append(stack, [kind |-> "coroutine", co |-> c])
  BY DEF CallAsync
<1>3. /\ queue' = queue /\ cursor' = cursor /\ draining' = draining /\ pairs' = pairs
      /\ evals' = evals /\ stack # <<>>
  BY DEF CallAsync, UserCode
<1>4. CursorMoves /\ \A S : ~Taken(S) /\ Later(S) = Places(S)
  BY <1>1, <1>3, NoJobTaken
<1>5. PairsStay /\ (\A q : PairWays(q)' = PairWays(q)) /\ PairsRun
  BY <1>1, <1>3, <1>4, PairsSame
<1>6. /\ PromiseTypes' /\ Reactions' = Reactions /\ Grows /\ Pending(p)' /\ Born(p)'
      /\ \A q \in Promises : q # p => (Pending(q)' <=> Pending(q))
      /\ (\A q \in Promises : ~Pending(q) => Reactions[q] = <<>>)'
  BY <1>1, <1>2, PromiseBorn DEF Fresh
<1>7. /\ co'[c].state = "running" /\ co'[c].result = p
      /\ \A d \in Coroutines : d # c => co'[d] = co[d]
  BY <1>1, <1>2 DEF CallTypes
<1>8. /\ CoTypes' /\ Run' = Run \cup {c} /\ c \notin Run
      /\ CoWays(p)' = CoWays(p) \cup {c}
      /\ \A q : q # p => CoWays(q)' = CoWays(q)
  <2>1. CoTypes'
    BY <1>1, <1>2 DEF CallTypes, CoTypes
  <2>2. Run' = Run \cup {c} /\ c \notin Run
    BY <1>2, <1>7 DEF Run
  <2>3. /\ CoWays(p)' = CoWays(p) \cup {c}
        /\ \A q : q # p => CoWays(q)' = CoWays(q)
    BY <1>2, <1>7 DEF CoWays
  <2> QED
    BY <2>1, <2>2, <2>3
<1>9. CoResumes
  BY <1>2, <1>4, <1>7 DEF CoResumes
<1>10. /\ CallsOf(stack, Run, draining, DOMAIN pairs) /\ stack \in Seq(Frame)
  BY <1>3, TopFrame
<1> DEFINE f == [kind |-> "coroutine", co |-> c]
<1>11. f \in Frame /\ f.kind = "coroutine" /\ f.co = c
  BY CoroutineFrame
<1>12. stack' = Append(stack, f)
  BY <1>2
<1> HIDE DEF f
<1>13. stack' \in Seq(Frame) /\ stack' # <<>>
  BY <1>10, <1>11, <1>12, PushedCall
<1>14. CallsOf(stack', Run', draining', DOMAIN pairs')
  BY <1>3, <1>8, <1>10, <1>11, <1>12, CoroutinePushed
<1>15. \A q : GetterWays(q)' = GetterWays(q)
  <2>1. \A q : GettersIn(Append(stack, f), q) = GettersIn(stack, q) \cup
             (IF f.kind = "getter" /\ f.promise = q THEN {Len(stack) + 1} ELSE {})
    BY <1>10, <1>11, GettersPushed
  <2> QED
    BY <1>11, <1>12, <2>1 DEF GetterWays
<1>16. QueueTypes'
  BY <1>1, <1>3 DEF QueueTypes
<1>17. Types'
  BY <1>1, <1>3, <1>5, <1>6, <1>8, <1>13, <1>16 DEF Types, CallTypes, CoTypes, PairsStay
<1>18. Calls'
  BY <1>13, <1>14 DEF Calls
<1>19. Refers'
  BY <1>1, <1>5, <1>6, <1>7, RefersKept DEF PairsStay, Born
<1>20. Still /\ \A S : Places(S)' = Places(S)
  BY <1>3, <1>4, <1>6, StillPlaces DEF Still
<1>21. ThensInv' /\ OrderInv'
  <2>1. /\ {} \in SUBSET Reaction /\ (\A r \in {} : r.kind # "then") /\ Shifts({})
    BY <1>20 DEF Shifts
  <2> QED
    BY <1>1, <1>4, <1>5, <1>6, <2>1, ThenReactionsKept
<1>22. AwaitsInv'
  BY <1>1, <1>4, <1>9, <1>20, AwaitsKept DEF Carries
<1>23. WaysInv'
  <2>1. PairWays(p) = {} /\ GetterWays(p) = {} /\ CoWays(p) = {} /\ Places(Adopts(p)) = {}
    BY <1>1, <1>2 DEF WaysInv, NoWay, NoneOf, Fresh, Born, Pending
  <2>2. Pending(p)' /\ OneWay(p)'
    BY <2>1, <1>5, <1>6, <1>8, <1>15, <1>20 DEF OneWay, OneOf, Single
  <2>3. \A q \in Promises \ {p} : SameWays(q)
    BY <1>5, <1>6, <1>8, <1>15, <1>20 DEF SameWays
  <2> QED
    BY <1>1, <2>2, <2>3, WaysKept
<1> QED
  BY <1>17, <1>18, <1>19, <1>21, <1>22, <1>23 DEF IInv

\* `then` is called: a promise and a pair are made, and the reaction waits for
\* the promise q that then is called on, or is queued at once.
LEMMA ThenEffect ==
    ASSUME PromiseTypes, PairTypes, QueueTypes, Refers, Then
    PROVE  \E q, p \in Promises, n \in Nat, r \in Reaction :
             /\ r \in Thens(n) /\ Born(q) /\ ~Born(p) /\ q # p /\ n = Len(pairs) + 1
             /\ pairs' = Append(pairs, NewPair(p, q))
             /\ PromiseTypes' /\ QueueTypes' /\ Grows
             /\ Pending(p)' /\ Born(p)'
             /\ \A a \in Promises : a # p => (Pending(a)' <=> Pending(a))
             /\ (\A a \in Promises : ~Pending(a) => Reactions[a] = <<>>)'
             /\ \/ AddsToList(q, r)
                \/ AddsToQueue(r) /\ ~Pending(q)
<1>1. PICK q \in Promises, p \in Promises, f \in BOOLEAN, g \in BOOLEAN :
        LET reaction == ThenReaction(Len(pairs) + 1, f, g)
            born == [promise EXCEPT ![p] = PendingPromise]
        IN  /\ Born(q) /\ Fresh(p)
            /\ pairs' = Append(pairs, NewPair(p, q))
            /\ IF Pending(q)
               THEN /\ promise' = [born EXCEPT ![q].reactions = Append(@, reaction)]
                    /\ queue' = queue
               ELSE /\ promise' = born
                    /\ queue' = Append(queue,
                             ReactionJob(reaction, promise[q].state, promise[q].value))
  BY DEF Then
<1>2. PICK n \in Nat : n = Len(pairs) + 1
  BY PairParts
<1>3. PICK r \in Reaction : r = ThenReaction(n, f, g) /\ r \in Thens(n)
  BY Owners
<1>4. /\ Born(q) /\ ~Born(p) /\ q # p /\ cursor' = cursor
      /\ n = Len(pairs) + 1 /\ pairs' = Append(pairs, NewPair(p, q))
  BY <1>1, <1>2 DEF Fresh, Then
<1>5. CASE Pending(q)
  <2> DEFINE L == Append(promise[q].reactions, r)
  <2>1. promise' = [[promise EXCEPT ![p] = PendingPromise] EXCEPT ![q].reactions = Append(@, r)]
    BY <1>1, <1>2, <1>3, <1>5
  <2>2. /\ promise'[p] = PendingPromise
        /\ promise'[q] = [promise[q] EXCEPT !.reactions = L]
        /\ \A a \in Promises \ {p, q} : promise'[a] = promise[a]
        /\ DOMAIN promise' = Promises
        /\ promise' \in [Promises -> Range(promise')]
    BY <1>4, <2>1 DEF PromiseTypes, Range
  <2>3. PromiseTypes'
    <3> DEFINE R == {"none", "pending"} \cup States
               Q == Seq(Reaction)
    <3>1. <<>> \in Q /\ Undefined \in Directs /\ "pending" \in R
      BY ValuesGiven
    <3>2. promise[q].reactions \in Q
      BY DEF PromiseTypes
    <3>3. L \in Q
      BY <1>3, <3>2
    <3> HIDE DEF R, Q, L
    <3>4. promise \in [Promises -> [state : R, value : Directs, reactions : Q]]
      BY DEF PromiseTypes, R, Q
    <3>5. PendingPromise \in [state : R, value : Directs, reactions : Q]
      BY <3>1 DEF PendingPromise
    <3>6. [promise[q] EXCEPT !.reactions = L] \in [state : R, value : Directs, reactions : Q]
      BY <3>3, <3>4
    <3>7. \A a \in Promises : promise'[a] \in [state : R, value : Directs, reactions : Q]
      BY <2>2, <3>4, <3>5, <3>6
    <3>8. promise' \in [Promises -> [state : R, value : Directs, reactions : Q]]
      BY <2>2, <3>7
    <3> QED
      BY <3>8 DEF PromiseTypes, R, Q
  <2>4. /\ promise'[p].state = "pending" /\ promise'[p].reactions = <<>>
        /\ promise'[q].state = promise[q].state
        /\ promise'[q].reactions = Append(promise[q].reactions, r)
    BY <2>2 DEF PromiseTypes, PendingPromise
  <2>5. /\ Pending(p)' /\ Born(p)'
        /\ \A a \in Promises : a # p => (Pending(a)' <=> Pending(a)) /\ (Born(a)' <=> Born(a))
    BY <1>4, <2>2, <2>4 DEF Pending, Born
  <2>6. Reactions' = Listed(Reactions, q, r)
    <3>1. Reactions[p] = <<>>
      BY <1>4 DEF Refers, Born, Pending
    <3>2. promise[p].reactions = <<>>
      BY <3>1, ReactionsType
    <3> QED
      BY <1>4, <2>2, <2>4, <3>2, ReactionsType DEF Reactions, Listed
  <2>7. QueueTypes'
    BY <1>1, <1>4, <1>5 DEF QueueTypes
  <2>8. AddsToList(q, r)
    BY <1>1, <1>5, <2>6 DEF AddsToList
  <2>9. (\A a \in Promises : ~Pending(a) => Reactions[a] = <<>>)'
    <3>1. \A a \in Promises \ {q} : Reactions'[a] = Reactions[a]
      BY <2>6, ReactionsType DEF Listed, Lists
    <3>2. \A a \in Promises \ {q} : ~Pending(a)' => Reactions'[a] = <<>>
      BY <2>5, <3>1 DEF Refers
    <3>3. Pending(q)'
      BY <1>4, <1>5, <2>5
    <3> QED
      BY <3>2, <3>3
  <2>10. Grows
    BY <2>5, <1>4 DEF Grows
  <2> QED
    BY <1>3, <1>4, <2>3, <2>5, <2>7, <2>8, <2>9, <2>10
<1>6. CASE ~Pending(q)
  <2>1. /\ promise' = [promise EXCEPT ![p] = PendingPromise]
        /\ queue' = Append(queue, ReactionJob(r, promise[q].state, promise[q].value))
    BY <1>1, <1>2, <1>3, <1>6
  <2>2. /\ PromiseTypes' /\ Reactions' = Reactions /\ Grows /\ Pending(p)' /\ Born(p)'
        /\ \A a \in Promises : a # p => (Pending(a)' <=> Pending(a))
        /\ (\A a \in Promises : ~Pending(a) => Reactions[a] = <<>>)'
    BY <1>4, <2>1, PromiseBorn
  <2>3. promise[q].state \in States /\ promise[q].value \in Directs
    BY <1>4, <1>6 DEF PromiseTypes, Born, Pending
  <2>4. PICK j \in Job : j.reaction = r /\ queue' = Append(queue, j)
    BY <1>3, <2>1, <2>3, JobMade
  <2>5. QueueTypes'
    BY <1>4, <2>4, JobQueued
  <2>6. AddsToQueue(r)
    BY <2>2, <2>4 DEF AddsToQueue
  <2> QED
    BY <1>3, <1>4, <1>6, <2>2, <2>5, <2>6
<1> QED
  BY <1>5, <1>6

LEMMA ThenStep ==
    ASSUME IInv, Then PROVE IInv'
<1>1. /\ PromiseTypes /\ PairTypes /\ QueueTypes /\ CallTypes /\ WaysInv
      /\ Types /\ Refers /\ ThensInv /\ AwaitsInv /\ OrderInv
  BY DEF IInv, Types
<1>2. PICK q \in Promises, p \in Promises, n \in Nat, r \in Reaction :
        /\ r \in Thens(n) /\ Born(q) /\ ~Born(p) /\ q # p /\ n = Len(pairs) + 1
        /\ pairs' = Append(pairs, NewPair(p, q))
        /\ PromiseTypes' /\ QueueTypes' /\ Grows
        /\ Pending(p)' /\ Born(p)'
        /\ \A a \in Promises : a # p => (Pending(a)' <=> Pending(a))
        /\ (\A a \in Promises : ~Pending(a) => Reactions[a] = <<>>)'
        /\ \/ AddsToList(q, r)
           \/ AddsToQueue(r) /\ ~Pending(q)
  BY <1>1, ThenEffect
<1>3. /\ cursor' = cursor /\ draining' = draining /\ co' = co
      /\ evals' = evals /\ stack' = stack /\ stack # <<>>
  BY DEF Then, UserCode
<1>4. CursorMoves /\ \A S : ~Taken(S) /\ Later(S) = Places(S)
  BY <1>1, <1>3, NoJobTaken
<1>5. CoStay /\ Run' = Run /\ (\A a : CoWays(a)' = CoWays(a)) /\ CoResumes
  BY <1>1, <1>3, <1>4, CoSame DEF CallTypes
<1>6. 0 \notin Promises /\ r \in Reaction /\ r \in Thens(n) /\ r.kind = "then" /\ r.pair = n
  <2>1. r \in Thens(n)
    BY <1>2
  <2> QED
    BY <2>1, PromisesAssumption DEF Thens
<1>7. /\ PairTypes' /\ n > 0
      /\ DOMAIN pairs' = DOMAIN pairs \cup {n}
      /\ \A k \in DOMAIN pairs : pairs'[k] = pairs[k] /\ k < n
      /\ pairs'[n].promise = p /\ pairs'[n].source = q /\ pairs'[n].ran = 0
      /\ PairWays(p)' = PairWays(p) \cup {n}
      /\ \A a : a # p => PairWays(a)' = PairWays(a)
      /\ ThenPairs' = ThenPairs \cup {n}
  <2>1. q \in Promises \cup {0} /\ q # 0
    BY <1>6
  <2> QED
    BY <1>1, <1>2, <2>1, PairAppended
<1>8. \A S : IF r \in S THEN Gains(S) ELSE Places(S)' = Places(S)
  <2>1. (\E a \in Promises : AddsToList(a, r)) \/ AddsToQueue(r)
    BY <1>2
  <2>2. \A S : IF r \in S THEN Gains(S) ELSE Places(S)' = Later(S)
    BY <1>1, <1>4, <1>6, <2>1, AddedGain
  <2> QED
    BY <1>4, <2>2
<1>9. ThenPairs \subseteq DOMAIN pairs /\ n \notin DOMAIN pairs /\ DOMAIN pairs \subseteq Nat
  BY <1>1, <1>7, PairParts
<1>10. Types'
  BY <1>1, <1>2, <1>3, <1>7 DEF Types, CallTypes
<1>11. Calls'
  <2>1. CallsOf(stack, Run, draining, DOMAIN pairs)
    BY <1>3, TopFrame
  <2>2. CallsOf(stack, Run, draining, DOMAIN pairs')
    BY <1>7, <2>1, CallsKnown
  <2> QED
    BY <2>2, <1>3, <1>5 DEF Calls
<1>12. Refers'
  <2>1. promise'[q].state # "none" /\ promise'[p].state # "none"
    BY <1>2 DEF Grows, Born
  <2>2. \A k \in DOMAIN pairs' :
              \/ k \in DOMAIN pairs /\ pairs'[k].promise = pairs[k].promise
                                    /\ pairs'[k].source = pairs[k].source
              \/ /\ promise'[pairs'[k].promise].state # "none"
                 /\ pairs'[k].source # 0 => promise'[pairs'[k].source].state # "none"
    BY <1>7, <2>1
  <2>3. \A c \in Coroutines : co'[c].state # "idle" =>
              co[c].state # "idle" /\ co'[c].result = co[c].result
    BY <1>3
  <2> QED
    BY <1>1, <1>2, <2>2, <2>3, RefersKept
<1>13. ThensInv'
  <2>1. ASSUME NEW k \in Nat, k \notin ThenPairs'
        PROVE  Places(Thens(k))' = {}
    <3>1. k # n /\ k \notin ThenPairs
      BY <1>7, <2>1
    <3>2. r \notin Thens(k)
      BY <3>1, <1>6 DEF Thens
    <3> QED
      BY <3>1, <3>2, <1>1, <1>8 DEF ThensInv
  <2>2. ASSUME NEW k \in ThenPairs'
        PROVE  \/ pairs'[k].ran = 0 /\ Single(Places(Thens(k))')
               \/ pairs'[k].ran = 1 /\ Places(Thens(k))' = {}
    <3>1. CASE k = n
      <4>1. Places(Thens(n)) = {}
        BY <1>1, <1>9 DEF ThensInv
      <4>2. Later(Thens(n)) = {}
        BY <1>4, <4>1
      <4>3. Single(Places(Thens(n))')
        BY <1>6, <1>8, <4>2 DEF Gains
      <4> QED
        BY <3>1, <4>3, <1>7
    <3>2. CASE k # n
      <4>1. k \in ThenPairs /\ pairs'[k] = pairs[k]
        BY <3>2, <1>7, <1>9
      <4>2. r \notin Thens(k)
        BY <3>2, <1>6 DEF Thens
      <4>3. Places(Thens(k))' = Places(Thens(k))
        BY <4>2, <1>8
      <4> QED
        BY <4>1, <4>3, <1>1 DEF ThensInv
    <3> QED
      BY <3>1, <3>2
  <2> QED
    BY <2>1, <2>2 DEF ThensInv
<1>14. AwaitsInv'
  <2>1. ASSUME NEW c \in Coroutines PROVE Carries(Awaits(c))
    <3>1. r \notin Awaits(c)
      BY <1>6 DEF Awaits
    <3> QED
      BY <3>1, <1>4, <1>8 DEF Carries
  <2> QED
    BY <2>1, <1>1, <1>4, <1>5, AwaitsKept
<1>15. WaysInv'
  <2>1. \A a \in Promises : r \notin Adopts(a)
    BY <1>6 DEF Adopts
  <2>2. \A a : GetterWays(a)' = GetterWays(a)
    BY <1>3 DEF GetterWays
  <2>3. PairWays(p) = {} /\ GetterWays(p) = {} /\ CoWays(p) = {} /\ Places(Adopts(p)) = {}
    BY <1>1, <1>2 DEF WaysInv, NoWay, NoneOf, Born, Pending
  <2>4. Pending(p)' /\ OneWay(p)'
    BY <2>1, <2>2, <2>3, <1>2, <1>5, <1>7, <1>8 DEF OneWay, OneOf, Single
  <2>5. \A a \in Promises \ {p} : SameWays(a)
    BY <2>1, <2>2, <1>2, <1>5, <1>7, <1>8 DEF SameWays
  <2> QED
    BY <1>1, <2>4, <2>5, WaysKept
<1>16. /\ DOMAIN Sources \subseteq DOMAIN Sources'
       /\ \A k \in DOMAIN Sources : Sources'[k] = Sources[k] /\ k < n
       /\ n \in DOMAIN Sources' /\ Sources'[n] = q
  <2>1. DOMAIN Sources = ThenPairs /\ \A k \in ThenPairs : Sources[k] = pairs[k].source
    BY DEF Sources
  <2>2. DOMAIN Sources' = ThenPairs' /\ \A k \in ThenPairs' : Sources'[k] = pairs'[k].source
    BY DEF Sources
  <2> QED
    BY <2>1, <2>2, <1>7, <1>9
<1>17. Done \subseteq Done'
  <2> SUFFICES ASSUME NEW a \in Done PROVE a \in Done'
    OBVIOUS
  <2>1. a \in Promises /\ Born(a) /\ ~Pending(a)
    BY <1>1, DoneIff
  <2>2. Born(a)' /\ ~Pending(a)'
    BY <1>2, <2>1 DEF Grows
  <2> QED
    BY <1>2, <2>1, <2>2 DEF Done, Born, Pending, PromiseTypes, States
<1>18. /\ ListedInOrder(Reactions, Sources')
       /\ QueuedInOrder(queue, cursor, Sources', Done')
  <2>1. ListedInOrder(Reactions, Sources) /\ QueuedInOrder(queue, cursor, Sources, Done)
    BY <1>1 DEF OrderInv
  <2>2. queue \in Seq(Job) /\ cursor \in Nat /\ cursor >= cursor
    BY <1>1 DEF QueueTypes
  <2>3. \A k \in DOMAIN Sources : Sources'[k] = Sources[k]
    BY <1>16
  <2> HIDE DEF Sources, Done
  <2> QED
    BY <1>16, <1>17, <2>1, <2>2, <2>3, OrderGrows
<1>19. ListedInOrder(Reactions, Sources)' /\ QueuedInOrder(queue, cursor, Sources, Done)'
  <2>1. CASE AddsToList(q, r)
    <3>1. Reactions \in Lists
      BY <1>1, ReactionsType
    <3>2. \A i \in DOMAIN Reactions[q] : Reactions[q][i].kind = "then" =>
              Reactions[q][i].pair < n
      BY <1>1, <1>16 DEF OrderInv, ListedInOrder
    <3>3. ListedInOrder(Listed(Reactions, q, r), Sources')
      BY <3>1, <3>2, <1>6, <1>16, <1>18, ListedOrder
    <3> QED
      BY <3>3, <2>1, <1>3, <1>18 DEF AddsToList
  <2>2. CASE AddsToQueue(r) /\ ~Pending(q)
    <3>1. PICK j \in Job : j.reaction = r /\ queue' = Append(queue, j)
      BY <2>2 DEF AddsToQueue
    <3>2. queue \in Seq(Job) /\ cursor \in Nat
      BY <1>1 DEF QueueTypes
    <3>3. q \in Done'
      <4>1. q \in Done
        BY <1>1, <1>2, <2>2, DoneIff
      <4> QED
        BY <4>1, <1>17
    <3>4. \A i \in DOMAIN queue : i > cursor /\ queue[i].reaction.kind = "then" =>
              queue[i].reaction.pair < n
      BY <1>1, <1>16 DEF OrderInv, QueuedInOrder, InTurn
    <3>5. QueuedInOrder(Append(queue, j), cursor, Sources', Done')
      BY <3>1, <3>2, <3>3, <3>4, <1>6, <1>16, <1>18, QueuedOrder
    <3>6. queue' = Append(queue, j) /\ cursor' = cursor /\ Reactions' = Reactions
      BY <3>1, <2>2, <1>3 DEF AddsToQueue
    <3> QED
      BY <3>5, <3>6, <1>18
  <2> QED
    BY <2>1, <2>2, <1>2
<1>20. ReactionsInOrder'
  <2> SUFFICES ASSUME NEW j \in ThenPairs', NEW k \in ThenPairs', j < k,
                      pairs'[j].source = pairs'[k].source, pairs'[k].ran > 0
               PROVE  pairs'[j].ran > 0
    BY DEF ReactionsInOrder
  <2>1. k # n
    BY <1>7
  <2>2. k \in ThenPairs /\ k < n /\ k \in Nat /\ j \in Nat
    BY <2>1, <1>7, <1>9
  <2>3. j # n
    BY <2>2
  <2>4. j \in ThenPairs /\ pairs'[j] = pairs[j] /\ pairs'[k] = pairs[k]
    BY <2>2, <2>3, <1>7, <1>9
  <2> QED
    BY <2>2, <2>4, <1>1 DEF OrderInv, ReactionsInOrder
<1>21. OrderInv'
  BY <1>19, <1>20 DEF OrderInv
<1> QED
  BY <1>10, <1>11, <1>12, <1>13, <1>14, <1>15, <1>21 DEF IInv

-----------------------------------------------------------------------------
(* A job runs.                                                              *)

LEMMA JobTaken ==
    ASSUME QueueTypes, cursor < Len(queue), cursor' = cursor + 1
    PROVE  /\ CursorMoves
           /\ \A S : Taken(S) <=> queue[cursor + 1].reaction \in S
           /\ queue[cursor + 1].reaction \in Reaction
           /\ queue[cursor + 1].state \in States /\ queue[cursor + 1].value \in Directs
<1>1. queue \in Seq(Job) /\ cursor \in Nat /\ Len(queue) \in Nat
  BY DEF QueueTypes
<1>2. queue[cursor + 1] \in Job
  BY <1>1
<1>3. \A j \in Job : j.reaction \in Reaction /\ j.state \in States /\ j.value \in Directs
  BY DEF Job
<1>4. CursorMoves
  BY <1>1 DEF CursorMoves
<1> QED
  BY <1>2, <1>3, <1>4 DEF Taken

LEMMA RunThenableStep ==
    ASSUME IInv, stack # <<>>, cursor < Len(queue), cursor' = cursor + 1,
           queue[cursor + 1].reaction.kind = "thenable", RunThenable(queue[cursor + 1]),
           UNCHANGED <<draining, evals>>
    PROVE  IInv'
<1>1. /\ PromiseTypes /\ PairTypes /\ QueueTypes /\ CallTypes /\ WaysInv
      /\ Types /\ Refers /\ ThensInv /\ AwaitsInv /\ OrderInv
  BY DEF IInv, Types
<1>2. PICK r \in Reaction : r = queue[cursor + 1].reaction /\ r.kind = "thenable"
  BY <1>1, JobTaken
<1>3. CursorMoves /\ \A S : Taken(S) <=> r \in S
  BY <1>1, <1>2, JobTaken
<1>4. PICK p \in Promises : p = r.promise
  BY <1>2 DEF Reaction
<1>5. r \in Adopts(p) /\ \A q : q # p => r \notin Adopts(q)
  BY <1>2, <1>4 DEF Adopts
<1>6. (\A k : r \notin Thens(k)) /\ (\A c : r \notin Awaits(c))
  BY <1>2 DEF Thens, Awaits
<1>7. /\ Pending(p) /\ PairWays(p) = {} /\ GetterWays(p) = {} /\ CoWays(p) = {}
      /\ Later(Adopts(p)) = {}
  <2>1. Places(Adopts(p)) # {} /\ (Single(Places(Adopts(p))) => Later(Adopts(p)) = {})
    BY <1>1, <1>3, <1>5, TakenIff
  <2> QED
    BY <2>1, <1>1, OnlyWay
<1>8. /\ promise' = promise /\ queue' = queue /\ co' = co
      /\ pairs' = Append(pairs, NewPair(p, 0))
      /\ stack' = Append(stack, [kind |-> "thenable", pair |-> Len(pairs) + 1])
      /\ draining' = draining /\ evals' = evals
  BY <1>2, <1>4 DEF RunThenable
<1>9. CoStay /\ Run' = Run /\ (\A q : CoWays(q)' = CoWays(q)) /\ CoResumes
  BY <1>1, <1>3, <1>6, <1>8, CoSame DEF CallTypes
<1>10. PICK n : n = Len(pairs) + 1
  OBVIOUS
<1>11. /\ PairTypes' /\ n \in Nat /\ n > 0
       /\ DOMAIN pairs' = DOMAIN pairs \cup {n}
       /\ \A k \in DOMAIN pairs : pairs'[k] = pairs[k] /\ k < n
       /\ pairs'[n].promise = p /\ pairs'[n].source = 0
       /\ PairWays(p)' = PairWays(p) \cup {n}
       /\ \A q : q # p => PairWays(q)' = PairWays(q)
       /\ ThenPairs' = ThenPairs
  BY <1>1, <1>8, <1>10, PairAppended
<1>12. CallsOf(stack, Run, draining, DOMAIN pairs) /\ stack \in Seq(Frame)
  BY TopFrame
<1> DEFINE f == [kind |-> "thenable", pair |-> n]
<1>13. f \in Frame /\ f.kind = "thenable" /\ f.kind \in Callee /\ f.pair \in DOMAIN pairs'
  BY <1>11, CalleeFrame DEF Callee
<1>14. stack' = Append(stack, f)
  BY <1>8, <1>10
<1> HIDE DEF f
<1>15. stack' \in Seq(Frame) /\ stack' # <<>>
  BY <1>12, <1>13, <1>14, PushedCall
<1>16. CallsOf(stack', Run', draining', DOMAIN pairs')
  <2>1. CallsOf(stack, Run, draining, DOMAIN pairs')
    BY <1>11, <1>12, CallsKnown
  <2> QED
    BY <2>1, <1>8, <1>9, <1>12, <1>13, <1>14, CallPushed
<1>17. \A q : GetterWays(q)' = GetterWays(q)
  <2>1. \A q : GettersIn(Append(stack, f), q) = GettersIn(stack, q) \cup
             (IF f.kind = "getter" /\ f.promise = q THEN {Len(stack) + 1} ELSE {})
    BY <1>12, <1>13, GettersPushed
  <2> QED
    BY <1>13, <1>14, <2>1 DEF GetterWays
<1>18. /\ PromiseTypes' /\ QueueTypes' /\ Grows /\ Still
       /\ \A q : Pending(q)' <=> Pending(q)
       /\ (\A q \in Promises : ~Pending(q) => Reactions[q] = <<>>)'
  BY <1>1, <1>3, <1>8
     DEF PromiseTypes, QueueTypes, CursorMoves, Grows, Still, Pending, Born, Reactions, Refers
<1>19. Types'
  BY <1>1, <1>8, <1>11, <1>15, <1>18 DEF Types, CallTypes
<1>20. Calls'
  BY <1>15, <1>16 DEF Calls
<1>21. Refers'
  <2>1. promise'[p].state # "none"
    BY <1>7, <1>8 DEF Pending
  <2> QED
    BY <2>1, <1>1, <1>9, <1>11, <1>18, RefersKept DEF CoStay
<1>22. \A S : Places(S)' = Later(S)
  BY <1>18, StillPlaces
<1>23. PairsRun
  BY <1>1, <1>3, <1>6, <1>11, PairParts DEF PairsRun
<1>24. ThensInv' /\ OrderInv'
  <2>1. /\ {} \in SUBSET Reaction /\ (\A x \in {} : x.kind # "then") /\ Shifts({})
    BY <1>18 DEF Shifts
  <2> QED
    BY <1>1, <1>3, <1>18, <1>23, <2>1, ThenReactionsKept
<1>25. AwaitsInv'
  BY <1>1, <1>3, <1>9, <1>22, AwaitsKept DEF Carries
<1>26. WaysInv'
  <2>1. Pending(p)' /\ OneWay(p)'
    BY <1>7, <1>9, <1>11, <1>17, <1>18, <1>22 DEF OneWay, OneOf, Single
  <2>2. ASSUME NEW q \in Promises \ {p} PROVE SameWays(q)
    <3>1. Later(Adopts(q)) = Places(Adopts(q))
      BY <1>1, <1>3, <1>5, TakenIff
    <3> QED
      BY <3>1, <1>9, <1>11, <1>17, <1>18, <1>22 DEF SameWays
  <2> QED
    BY <1>1, <2>1, <2>2, WaysKept
<1> QED
  BY <1>19, <1>20, <1>21, <1>24, <1>25, <1>26 DEF IInv

LEMMA RunAdoptStep ==
    ASSUME IInv, stack # <<>>, cursor < Len(queue), cursor' = cursor + 1,
           queue[cursor + 1].reaction.kind = "adopt", RunAdopt(queue[cursor + 1]),
           UNCHANGED <<draining, evals>>
    PROVE  IInv'
<1>1. /\ PromiseTypes /\ PairTypes /\ QueueTypes /\ CallTypes /\ WaysInv
  BY DEF IInv, Types
<1>2. PICK r \in Reaction : r = queue[cursor + 1].reaction /\ r.kind = "adopt"
  BY <1>1, JobTaken
<1>3. CursorMoves /\ \A S : Taken(S) <=> r \in S
  BY <1>1, <1>2, JobTaken
<1>4. PICK p \in Promises : p = r.promise
  BY <1>2 DEF Reaction
<1>5. r \in Adopts(p) /\ \A q : q # p => r \notin Adopts(q)
  BY <1>2, <1>4 DEF Adopts
<1>6. (\A k : r \notin Thens(k)) /\ (\A c : r \notin Awaits(c))
  BY <1>2 DEF Thens, Awaits
<1>7. /\ PairWays(p) = {} /\ GetterWays(p) = {} /\ CoWays(p) = {}
      /\ Later(Adopts(p)) = {}
  <2>1. Places(Adopts(p)) # {} /\ (Single(Places(Adopts(p))) => Later(Adopts(p)) = {})
    BY <1>1, <1>3, <1>5, TakenIff
  <2> QED
    BY <2>1, <1>1, OnlyWay
<1>8. PICK state \in States, value \in Directs : Settle(p, state, value, stack)
  BY <1>1, <1>2, <1>4, JobTaken DEF RunAdopt
<1>9. Resolution(p, stack)
  BY <1>8, SettleCases DEF Resolution
<1>10. pairs' = pairs /\ co' = co /\ draining' = draining /\ evals' = evals
  BY DEF RunAdopt
<1>11. CoStay /\ Run' = Run /\ (\A q : CoWays(q)' = CoWays(q)) /\ CoResumes
  BY <1>1, <1>3, <1>6, <1>10, CoSame DEF CallTypes
<1>12. PairsStay /\ (\A q : PairWays(q)' = PairWays(q)) /\ PairsRun
  BY <1>1, <1>3, <1>6, <1>10, PairsSame
<1>13. stack \in Seq(Frame) /\ CallsOf(stack, Run, draining, DOMAIN pairs)
  BY TopFrame
<1>14. /\ \A q \in Promises \ {p} :
              /\ PairWays(q)' = PairWays(q) /\ CoWays(q)' = CoWays(q)
              /\ GettersIn(stack, q) = GetterWays(q)
              /\ ~Taken(Adopts(q))
       /\ CallsOf(stack, Run', draining', DOMAIN pairs)
       /\ PairWays(p)' = {} /\ CoWays(p)' = {} /\ GettersIn(stack, p) = {}
  BY <1>3, <1>5, <1>7, <1>10, <1>11, <1>12, <1>13 DEF GetterWays
<1> QED
  BY <1>3, <1>7, <1>9, <1>11, <1>12, <1>13, <1>14, ResolutionKeeps

\* A reaction of `then` counts as run, and no other one does.
LEMMA PairRuns ==
    ASSUME Types, CursorMoves, ThensInv, NEW k, NEW r \in Reaction,
           r.kind = "then", k = r.pair, \A S : Taken(S) <=> r \in S
    PROVE  /\ k \in DOMAIN pairs
           /\ \/ pairs' = Ran(k)
              \/ pairs' = [Ran(k) EXCEPT ![k].already = TRUE] /\ ~pairs[k].already
              => PairsRun
<1>1. PairTypes /\ QueueTypes
  BY DEF Types
<1>2. k \in Nat /\ r \in Thens(k) /\ \A j : j # k => r \notin Thens(j)
  BY DEF Reaction, Thens
<1>3. k \in ThenPairs
  <2>1. Places(Thens(k)) # {}
    BY <1>1, <1>2, TakenIff
  <2> QED
    BY <1>2, <2>1 DEF ThensInv
<1>4. k \in DOMAIN pairs
  BY <1>3 DEF ThenPairs
<1>5. ASSUME \/ pairs' = Ran(k)
             \/ pairs' = [Ran(k) EXCEPT ![k].already = TRUE] /\ ~pairs[k].already
      PROVE  PairsRun
  <2>1. /\ PairsStay /\ pairs'[k].ran = pairs[k].ran + 1
        /\ \A j \in DOMAIN pairs : j # k => pairs'[j] = pairs[j]
    BY <1>1, <1>4, <1>5, PairCounted
  <2> QED
    BY <2>1, <1>1, <1>2, PairParts, PairsStaySources DEF PairsRun, PairsStay
<1> QED
  BY <1>4, <1>5

LEMMA RunThenStep ==
    ASSUME IInv, stack # <<>>, cursor < Len(queue), cursor' = cursor + 1,
           queue[cursor + 1].reaction.kind = "then", RunThen(queue[cursor + 1]),
           UNCHANGED <<draining, evals>>
    PROVE  IInv'
<1>1. /\ PromiseTypes /\ PairTypes /\ QueueTypes /\ CallTypes /\ WaysInv
      /\ Types /\ ThensInv
  BY DEF IInv, Types
<1>2. PICK r \in Reaction : r = queue[cursor + 1].reaction /\ r.kind = "then"
  BY <1>1, JobTaken
<1>3. CursorMoves /\ \A S : Taken(S) <=> r \in S
  BY <1>1, <1>2, JobTaken
<1>4. PICK k \in DOMAIN pairs :
        /\ k = r.pair
        /\ \/ pairs' = Ran(k)
           \/ pairs' = [Ran(k) EXCEPT ![k].already = TRUE] /\ ~pairs[k].already
           => PairsRun
  BY <1>1, <1>2, <1>3, PairRuns
<1>5. (\A q : r \notin Adopts(q)) /\ (\A c : r \notin Awaits(c))
  BY <1>2 DEF Adopts, Awaits
<1>6. PICK p \in Promises : p = pairs[k].promise
  BY <1>1, PairParts
<1>7. \/ /\ pairs' = Ran(k) /\ UNCHANGED <<promise, queue>>
         /\ \/ stack' = Append(stack, [kind |-> "handler", pair |-> k])
            \/ stack' = stack
      \/ /\ ~pairs[k].already /\ pairs' = [Ran(k) EXCEPT ![k].already = TRUE]
         /\ \/ ResolveData(p, queue[cursor + 1].value, stack)
            \/ RejectData(p, queue[cursor + 1].value, stack)
  BY <1>2, <1>4, <1>6 DEF RunThen
<1>8. co' = co /\ draining' = draining /\ evals' = evals
  BY DEF RunThen
<1>9. CoStay /\ Run' = Run /\ (\A q : CoWays(q)' = CoWays(q)) /\ CoResumes
  BY <1>1, <1>3, <1>5, <1>8, CoSame DEF CallTypes
<1>10. stack \in Seq(Frame) /\ CallsOf(stack, Run, draining, DOMAIN pairs)
  BY TopFrame
<1>11. CASE pairs' = Ran(k) /\ UNCHANGED <<promise, queue>>
            /\ (stack' = Append(stack, [kind |-> "handler", pair |-> k]) \/ stack' = stack)
  <2>1. /\ PairsStay /\ pairs'[k].already = pairs[k].already
        /\ \A j \in DOMAIN pairs : j # k => pairs'[j] = pairs[j]
    BY <1>1, <1>11, PairCounted
  <2>2. \A q : PairWays(q)' = PairWays(q)
    BY <2>1 DEF PairWays, PairsStay
  <2> DEFINE f == [kind |-> "handler", pair |-> k]
  <2>3. f \in Frame /\ f.kind = "handler" /\ f.kind \in Callee /\ f.pair \in DOMAIN pairs
    <3>1. k \in Nat
      BY <1>1, PairParts
    <3> QED
      BY <3>1, CalleeFrame DEF Callee
  <2>4. stack' = Append(stack, f) \/ stack' = stack
    BY <1>11
  <2> HIDE DEF f
  <2>5. stack' \in Seq(Frame) /\ stack' # <<>>
    BY <1>10, <2>3, <2>4, PushedCall
  <2>6. CallsOf(stack', Run', draining', DOMAIN pairs)
    BY <1>8, <1>9, <1>10, <2>3, <2>4, CallPushed
  <2>7. \A q : GetterWays(q)' = GetterWays(q)
    <3>1. \A q : GettersIn(Append(stack, f), q) = GettersIn(stack, q) \cup
               (IF f.kind = "getter" /\ f.promise = q THEN {Len(stack) + 1} ELSE {})
      BY <1>10, <2>3, GettersPushed
    <3>2. \A q : GettersIn(stack', q) = GettersIn(stack, q)
      BY <2>3, <2>4, <3>1
    <3> QED
      BY <3>2 DEF GetterWays
  <2>8. \A q \in Promises :
              /\ PairWays(q)' = PairWays(q) /\ CoWays(q)' = CoWays(q)
              /\ GetterWays(q)' = GetterWays(q)
              /\ ~Taken(Adopts(q))
    BY <1>3, <1>5, <1>9, <2>2, <2>7
  <2>9. PairsRun
    BY <1>4, <1>11
  <2> QED
    BY <1>3, <1>9, <1>11, <2>1, <2>5, <2>6, <2>8, <2>9, QuietKeeps
<1>12. CASE /\ ~pairs[k].already /\ pairs' = [Ran(k) EXCEPT ![k].already = TRUE]
            /\ \/ ResolveData(p, queue[cursor + 1].value, stack)
               \/ RejectData(p, queue[cursor + 1].value, stack)
  <2>1. PICK v \in Directs : ResolveData(p, v, stack) \/ RejectData(p, v, stack)
    BY <1>1, <1>12, JobTaken
  <2>2. Resolution(p, stack)
    BY <1>1, <2>1, ResolveCases, RejectCases DEF Resolution
  <2>3. /\ PairsStay /\ pairs'[k].already
        /\ \A j \in DOMAIN pairs : j # k => pairs'[j] = pairs[j]
    BY <1>1, <1>12, PairCounted
  <2>4. /\ k \in PairWays(p) /\ (\A q : q # p => PairWays(q)' = PairWays(q))
        /\ Single(PairWays(p)) => PairWays(p)' = {}
    BY <1>1, <1>6, <1>12, <2>3, PairUsed
  <2>5. Single(PairWays(p)) /\ GetterWays(p) = {} /\ CoWays(p) = {} /\ Places(Adopts(p)) = {}
    <3>1. PairWays(p) # {}
      BY <2>4
    <3> QED
      BY <1>1, <3>1, OnlyWay
  <2>6. Later(Adopts(p)) = {}
    BY <1>1, <1>3, <1>5, <2>5, TakenIff
  <2>7. /\ \A q \in Promises \ {p} :
              /\ PairWays(q)' = PairWays(q) /\ CoWays(q)' = CoWays(q)
              /\ GettersIn(stack, q) = GetterWays(q)
              /\ ~Taken(Adopts(q))
        /\ CallsOf(stack, Run', draining', DOMAIN pairs)
        /\ PairWays(p)' = {} /\ CoWays(p)' = {} /\ GettersIn(stack, p) = {}
    BY <1>3, <1>5, <1>8, <1>9, <1>10, <2>4, <2>5 DEF GetterWays
  <2>8. PairsRun
    BY <1>4, <1>12
  <2> QED
    BY <1>3, <1>9, <1>10, <2>2, <2>3, <2>6, <2>7, <2>8, ResolutionKeeps
<1> QED
  BY <1>7, <1>11, <1>12

\* The coroutine whose continuation runs is the suspended one.
LEMMA RunAwaitStep ==
    ASSUME IInv, stack # <<>>, cursor < Len(queue), cursor' = cursor + 1,
           queue[cursor + 1].reaction.kind = "await", RunAwait(queue[cursor + 1]),
           UNCHANGED <<draining, evals>>
    PROVE  IInv'
<1>1. PairTypes /\ QueueTypes /\ CallTypes /\ AwaitsInv
  BY DEF IInv, Types
<1>2. PICK r \in Reaction : r = queue[cursor + 1].reaction /\ r.kind = "await"
  BY <1>1, JobTaken
<1>3. CursorMoves /\ \A S : Taken(S) <=> r \in S
  BY <1>1, <1>2, JobTaken
<1>4. PICK c \in Coroutines : c = r.co
  BY <1>2 DEF Reaction
<1>5. /\ r \in Awaits(c) /\ \A d : d # c => r \notin Awaits(d)
      /\ (\A k : r \notin Thens(k)) /\ (\A q : r \notin Adopts(q))
  BY <1>2, <1>4 DEF Awaits, Thens, Adopts
<1>6. co[c].state = "suspended"
  <2>1. Places(Awaits(c)) # {}
    BY <1>1, <1>3, <1>5, TakenIff
  <2> QED
    BY <1>1, <2>1 DEF AwaitsInv
<1> DEFINE f == [kind |-> "coroutine", co |-> c]
<1>7. /\ co' = [co EXCEPT ![c].state = "running"]
      /\ stack' = Append(stack, f)
      /\ promise' = promise /\ queue' = queue /\ pairs' = pairs
      /\ draining' = draining /\ evals' = evals
  BY <1>2, <1>4, <1>6 DEF RunAwait
<1>8. f \in Frame /\ f.kind = "coroutine" /\ f.co = c
  BY CoroutineFrame
<1> HIDE DEF f
<1>9. /\ CoStay /\ (\A q : CoWays(q)' = CoWays(q)) /\ Run' = Run \cup {c}
      /\ co'[c].state = "running" /\ \A d \in Coroutines : d # c => co'[d] = co[d]
  BY <1>1, <1>6, <1>7, CoSwitched
<1>10. CoResumes
  BY <1>3, <1>5, <1>6, <1>9 DEF CoResumes
<1>11. PairsStay /\ (\A q : PairWays(q)' = PairWays(q)) /\ PairsRun
  BY <1>1, <1>3, <1>5, <1>7, PairsSame
<1>12. /\ stack \in Seq(Frame) /\ CallsOf(stack, Run, draining, DOMAIN pairs)
       /\ c \notin Run
  BY <1>6, TopFrame DEF Run
<1>13. stack' \in Seq(Frame) /\ stack' # <<>>
  BY <1>7, <1>8, <1>12, PushedCall
<1>14. CallsOf(stack', Run', draining', DOMAIN pairs)
  <2>1. CallsOf(Append(stack, f), Run \cup {c}, draining, DOMAIN pairs)
    BY <1>8, <1>12, CoroutinePushed
  <2> QED
    BY <2>1, <1>7, <1>9
<1>15. \A q : GetterWays(q)' = GetterWays(q)
  <2>1. \A q : GettersIn(Append(stack, f), q) = GettersIn(stack, q) \cup
             (IF f.kind = "getter" /\ f.promise = q THEN {Len(stack) + 1} ELSE {})
    BY <1>8, <1>12, GettersPushed
  <2> QED
    BY <1>7, <1>8, <2>1 DEF GetterWays
<1>16. \A q \in Promises :
              /\ PairWays(q)' = PairWays(q) /\ CoWays(q)' = CoWays(q)
              /\ GetterWays(q)' = GetterWays(q)
              /\ ~Taken(Adopts(q))
  BY <1>3, <1>5, <1>9, <1>11, <1>15
<1> QED
  BY <1>3, <1>7, <1>9, <1>10, <1>11, <1>13, <1>14, <1>16, QuietKeeps

LEMMA RunJobStep ==
    ASSUME IInv, RunJob PROVE IInv'
<1>1. /\ stack # <<>> /\ cursor < Len(queue) /\ cursor' = cursor + 1
      /\ UNCHANGED <<draining, evals>>
  BY DEF RunJob
<1>2. LET job == queue[cursor + 1] IN
          \/ job.reaction.kind = "thenable" /\ RunThenable(job)
          \/ job.reaction.kind = "then" /\ RunThen(job)
          \/ job.reaction.kind = "adopt" /\ RunAdopt(job)
          \/ job.reaction.kind = "await" /\ RunAwait(job)
  BY DEF RunJob
<1> QED
  BY <1>1, <1>2, RunThenableStep, RunThenStep, RunAdoptStep, RunAwaitStep

-----------------------------------------------------------------------------
(* A drain ends, a script begins.                                           *)

\* A queue that has been drained is dropped: nothing waited in it.
LEMMA QueueDropped ==
    ASSUME IInv, cursor = Len(queue), queue' = <<>>, cursor' = 0,
           UNCHANGED <<promise, pairs, co>>, draining' \in BOOLEAN, evals' \in Nat,
           stack' \in Seq(Frame), CallsOf(stack', Run, draining', DOMAIN pairs),
           \A q : GettersIn(stack', q) = GetterWays(q)
    PROVE  IInv'
<1>1. /\ PromiseTypes /\ PairTypes /\ QueueTypes /\ CallTypes /\ WaysInv
      /\ Refers /\ ThensInv /\ AwaitsInv /\ OrderInv
  BY DEF IInv, Types
<1>2. Reactions' = Reactions
  BY DEF Reactions
<1>3. \A S : Places(S)' = Places(S)
  <2> SUFFICES ASSUME NEW S PROVE Places(S)' = Places(S)
    OBVIOUS
  <2>1. queue \in Seq(Job)
    BY <1>1 DEF QueueTypes
  <2>2. {i \in DOMAIN queue : i > cursor /\ queue[i].reaction \in S} = {}
    BY <2>1
  <2>3. {i \in DOMAIN queue' : i > cursor' /\ queue'[i].reaction \in S} = {}
    OBVIOUS
  <2>4. /\ Places(S) = {<<0, i>> : i \in {i \in DOMAIN queue : i > cursor /\ queue[i].reaction \in S}}
            \cup UNION {{<<q, i>> : i \in {i \in DOMAIN Reactions[q] : Reactions[q][i] \in S}}
                  : q \in Promises}
        /\ Places(S)' = {<<0, i>> : i \in {i \in DOMAIN queue' : i > cursor' /\ queue'[i].reaction \in S}}
            \cup UNION {{<<q, i>> : i \in {i \in DOMAIN Reactions[q] : Reactions[q][i] \in S}}
                  : q \in Promises}
    BY <1>2 DEF Places, PlacesIn
  <2> QED
    BY <2>2, <2>3, <2>4
<1>4. Types'
  BY <1>1 DEF Types, PromiseTypes, PairTypes, QueueTypes, CallTypes
<1>5. Calls'
  BY <1>1 DEF Calls, Run
<1>6. Refers'
  BY <1>1, <1>2 DEF Refers, Born, Pending
<1>7. WaysInv'
  <2>1. \A q \in Promises : SameWays(q)
    BY <1>3 DEF SameWays, PairWays, CoWays, GetterWays, Pending
  <2> QED
    BY <1>1, <2>1, WaysKept
<1>8. ThensInv' /\ AwaitsInv'
  BY <1>1, <1>3 DEF ThensInv, AwaitsInv, ThenPairs
<1>9. OrderInv'
  <2>1. Sources' = Sources /\ ThenPairs' = ThenPairs /\ Done' = Done
    BY DEF Sources, ThenPairs, Done
  <2>2. QueuedInOrder(queue', cursor', Sources', Done')
    BY DEF QueuedInOrder
  <2>3. ListedInOrder(Reactions', Sources') /\ ReactionsInOrder'
    BY <1>1, <1>2, <2>1 DEF OrderInv, ReactionsInOrder
  <2> QED
    BY <2>2, <2>3 DEF OrderInv
<1> QED
  BY <1>4, <1>5, <1>6, <1>7, <1>8, <1>9 DEF IInv

LEMMA EndDrainStep ==
    ASSUME IInv, EndDrain PROVE IInv'
<1>1. /\ stack # <<>> /\ Top.kind = "drain" /\ cursor = Len(queue) /\ stack' = Below
      /\ UNCHANGED <<promise, pairs, co, evals>>
  BY DEF EndDrain
<1>2. /\ stack \in Seq(Frame) /\ Below \in Seq(Frame)
      /\ \A q : GettersIn(Below, q) = GetterWays(q)
      /\ CallsOf(stack, Run, draining, DOMAIN pairs)
      /\ draining \in BOOLEAN /\ evals \in Nat
  BY <1>1, TopFrame DEF IInv, Types, CallTypes
<1>3. /\ Top.outermost => CallsOf(Below, Run, FALSE, DOMAIN pairs)
      /\ ~Top.outermost => CallsOf(Below, Run, draining, DOMAIN pairs) /\ Below # <<>>
  BY <1>1, <1>2, DrainPopped DEF Top, Below
<1>4. CASE Top.outermost
  <2>1. queue' = <<>> /\ cursor' = 0 /\ draining' = FALSE
    BY <1>4 DEF EndDrain
  <2> QED
    BY <1>1, <1>2, <1>3, <1>4, <2>1, QueueDropped
<1>5. CASE ~Top.outermost
  <2>1. UNCHANGED <<queue, cursor, draining>>
    BY <1>5 DEF EndDrain
  <2> QED
    BY <1>1, <1>2, <1>3, <1>5, <2>1, CallsOnly
<1> QED
  BY <1>4, <1>5

\* Nothing is called before a script.
LEMMA EvalStep ==
    ASSUME IInv, Eval PROVE IInv'
<1>1. /\ stack = <<>> /\ queue' = <<>> /\ cursor' = 0 /\ draining' = FALSE
      /\ stack' = <<[kind |-> "script"]>> /\ evals' = evals + 1
      /\ UNCHANGED <<promise, pairs, co>>
  BY DEF Eval
<1>2. /\ queue = <<>> /\ cursor = Len(queue) /\ evals' \in Nat
      /\ CallsOf(stack, Run, draining, DOMAIN pairs)
  BY <1>1 DEF IInv, Calls, Types, QueueTypes, CallTypes
<1>3. Run = {} /\ \A q : GetterWays(q) = {}
  BY <1>1, <1>2 DEF CallsOf, RunOnce, GetterWays, GettersIn
<1> DEFINE f == [kind |-> "script"]
<1>4. f \in Frame /\ f.kind = "script"
  BY DEF Frame
<1> HIDE DEF f
<1>5. stack' = <<f>>
  BY <1>1 DEF f
<1>6. stack' \in Seq(Frame) /\ DOMAIN stack' = {1} /\ stack'[1] = f
  BY <1>4, <1>5
<1>7. CallsOf(stack', Run, draining', DOMAIN pairs)
  BY <1>1, <1>3, <1>4, <1>6
     DEF CallsOf, CallsRefer, OutermostFirst, RunOnce, Drains, Callee
<1>8. \A q : GettersIn(stack', q) = GetterWays(q)
  BY <1>3, <1>4, <1>6 DEF GettersIn
<1> QED
  BY <1>1, <1>2, <1>6, <1>7, <1>8, QueueDropped

-----------------------------------------------------------------------------
(* The invariant.                                                           *)

LEMMA InitHolds == Init => IInv
<1> SUFFICES ASSUME Init PROVE IInv
  OBVIOUS
<1>1. /\ queue = <<>> /\ cursor = 0 /\ draining = FALSE /\ stack = <<>> /\ evals = 0
      /\ pairs = <<>> /\ DOMAIN queue = {} /\ DOMAIN stack = {} /\ DOMAIN pairs = {}
  BY DEF Init
<1>2. \A p \in Promises : promise[p].state = "none" /\ promise[p].reactions = <<>>
  BY DEF Init
<1>3. \A c \in Coroutines : co[c].state = "idle"
  BY DEF Init
<1>4. PromiseTypes
  BY DEF Init, PromiseTypes, Directs
<1>5. Types
  <2>1. PairTypes /\ QueueTypes
    BY <1>1 DEF PairTypes, QueueTypes
  <2>2. co \in [Coroutines -> [state : {"idle", "running", "suspended", "done"},
                               result : Promises \cup {0}, vm : Nat]]
    BY DEF Init
  <2>3. stack \in Seq(Frame) /\ draining \in BOOLEAN /\ evals \in Nat
    <3>1. stack \in Seq(Frame) /\ evals \in Nat
      BY <1>1
    <3>2. draining \in BOOLEAN
      BY <1>1
    <3> QED
      BY <3>1, <3>2
  <2>4. CallTypes
    BY <2>2, <2>3 DEF CallTypes
  <2> QED
    BY <1>4, <2>1, <2>4 DEF Types
<1>6. \A q \in Promises : Reactions[q] = <<>> /\ DOMAIN Reactions[q] = {}
  BY <1>2 DEF Reactions
<1>7. \A S : Places(S) = {}
  BY <1>1, <1>6 DEF Places, PlacesIn
<1>8. Refers
  BY <1>1, <1>3, <1>6 DEF Refers
<1>9. Run = {}
  BY <1>3 DEF Run
<1>10. Calls
  BY <1>1, <1>9 DEF Calls, CallsOf, CallsRefer, OutermostFirst, RunOnce, Drains
<1>11. WaysInv
  <2> SUFFICES ASSUME NEW p \in Promises PROVE ~Pending(p) /\ NoWay(p)
    BY DEF WaysInv
  <2>1. ~Pending(p)
    BY <1>2 DEF Pending
  <2>2. PairWays(p) = {} /\ GetterWays(p) = {} /\ CoWays(p) = {}
    BY <1>1, <1>3 DEF PairWays, GetterWays, GettersIn, CoWays
  <2> QED
    BY <1>7, <2>1, <2>2 DEF NoWay, NoneOf
<1>12. ThenPairs = {}
  BY <1>1 DEF ThenPairs
<1>13. ThensInv /\ AwaitsInv
  BY <1>3, <1>7, <1>12 DEF ThensInv, AwaitsInv
<1>14. OrderInv
  BY <1>1, <1>6, <1>12 DEF OrderInv, ListedInOrder, QueuedInOrder, ReactionsInOrder
<1> QED
  BY <1>5, <1>8, <1>10, <1>11, <1>13, <1>14 DEF IInv

LEMMA ReturnStep ==
    ASSUME IInv, Return PROVE IInv'
<1>1. stack # <<>> /\ UNCHANGED <<cursor, evals>>
  BY DEF Return, UserCode
<1>2. CASE ScriptEnds
  BY <1>1, <1>2, ScriptEndsStep
<1>3. CASE CalleeReturns
  BY <1>1, <1>3, CalleeReturnsStep
<1>4. CASE HandlerReturns
  BY <1>1, <1>4, HandlerReturnsStep
<1>5. CASE CoroutineReturns
  BY <1>1, <1>5, CoroutineEnds DEF CoroutineReturns
<1>6. CASE GetterReturns
  <2>1. /\ Top.kind = "getter" /\ UNCHANGED <<pairs, cursor, draining, evals, co>>
    BY <1>1, <1>6 DEF GetterReturns
  <2>2. \/ /\ queue' = Append(queue, ThenableJob(Top.promise))
           /\ stack' = Below /\ UNCHANGED promise
        \/ Settle(Top.promise, "fulfilled", Top.value, Below)
    BY <1>6 DEF GetterReturns
  <2> QED
    BY <1>1, <2>1, <2>2, GetterEnds, GetterQueues
<1> QED
  BY <1>2, <1>3, <1>4, <1>5, <1>6 DEF Return

LEMMA ThrowStep ==
    ASSUME IInv, Throw PROVE IInv'
<1>1. stack # <<>> /\ UNCHANGED <<cursor, evals>>
  BY DEF Throw, UserCode
<1>2. CASE ScriptEnds
  BY <1>1, <1>2, ScriptEndsStep
<1>3. ASSUME NEW v \in Reasons, CalleeThrows(v) PROVE IInv'
  BY <1>1, <1>3, CalleeThrowsStep
<1>4. ASSUME NEW v \in Reasons, CoroutineThrows(v) PROVE IInv'
  <2>1. /\ Top.kind = "coroutine" /\ co' = [co EXCEPT ![Top.co].state = "done"]
        /\ \E w \in Reasons : RejectData(co[Top.co].result, w, Below)
        /\ UNCHANGED <<pairs, cursor, draining, evals>>
    BY <1>1, <1>4 DEF CoroutineThrows
  <2> QED
    BY <1>1, <2>1, CoroutineEnds
<1>5. ASSUME NEW v \in Reasons, GetterThrows(v) PROVE IInv'
  <2>1. /\ Top.kind = "getter"
        /\ \E w \in Reasons : RejectData(Top.promise, w, Below)
        /\ UNCHANGED <<pairs, cursor, draining, evals, co>>
    BY <1>1, <1>5 DEF GetterThrows
  <2> QED
    BY <1>1, <2>1, GetterEnds
<1> QED
  BY <1>2, <1>3, <1>4, <1>5 DEF Throw

LEMMA StutterStep ==
    ASSUME IInv, UNCHANGED vars PROVE IInv'
<1>1. /\ promise' = promise /\ pairs' = pairs /\ queue' = queue /\ cursor' = cursor
      /\ draining' = draining /\ stack' = stack /\ co' = co /\ evals' = evals
  BY DEF vars
<1> QED
  BY <1>1 DEF IInv, Types, PromiseTypes, PairTypes, QueueTypes, CallTypes, Refers, Calls, Run,
       WaysInv, OneWay, NoWay, PairWays, GetterWays, CoWays, Places, Reactions, Born, Pending,
       ThensInv, AwaitsInv, ThenPairs, OrderInv, Sources, Done, ReactionsInOrder

LEMMA NextHolds ==
    ASSUME IInv, [Next]_vars PROVE IInv'
<1>1. CASE UserStep
  <2>1. CASE Construct
    BY <2>1, ConstructStep
  <2>2. CASE Resolver
    BY <2>2, ResolverStep
  <2>3. CASE Then
    BY <2>3, ThenStep
  <2>4. CASE CallAsync
    BY <2>4, CallAsyncStep
  <2>5. CASE Drain
    BY <2>5, DrainStep
  <2>6. CASE Await
    BY <2>6, AwaitStep
  <2>7. CASE AwaitPoisoned
    BY <2>7, AwaitPoisonedStep
  <2>8. CASE Return
    BY <2>8, ReturnStep
  <2>9. CASE Throw
    BY <2>9, ThrowStep
  <2> QED
    BY <1>1, <2>1, <2>2, <2>3, <2>4, <2>5, <2>6, <2>7, <2>8, <2>9 DEF UserStep
<1>2. CASE RunJob
  BY <1>2, RunJobStep
<1>3. CASE EndDrain
  BY <1>3, EndDrainStep
<1>4. CASE Eval
  BY <1>4, EvalStep
<1>5. CASE UNCHANGED vars
  BY <1>5, StutterStep
<1> QED
  BY <1>1, <1>2, <1>3, <1>4, <1>5 DEF Next

LEMMA Invariance == Spec => []IInv
BY InitHolds, NextHolds, PTL DEF Spec

-----------------------------------------------------------------------------
(* The safety properties.                                                   *)

\* Every variable keeps its type, and what a pair or a coroutine refers to
\* exists.
THEOREM TypeCorrect == Spec => []TypeOK
<1>1. ASSUME IInv PROVE TypeOK
  <2>1. /\ PromiseTypes /\ PairTypes /\ QueueTypes /\ CallTypes /\ Refers
    BY <1>1 DEF IInv, Types
  <2>2. ASSUME NEW p \in Promises
        PROVE  /\ promise[p].state \in {"none", "pending"} \cup States
               /\ promise[p].value \in Outcomes
               /\ Born(p) \/ promise[p].reactions = <<>>
    <3>1. /\ promise[p].state \in {"none", "pending"} \cup States
          /\ promise[p].value \in Directs
      BY <2>1 DEF PromiseTypes
    <3>2. ~Pending(p) => promise[p].reactions = <<>>
      BY <2>1 DEF Refers, Reactions
    <3> QED
      BY <3>1, <3>2 DEF Directs, Outcomes, Born, Pending
  <2>3. ASSUME NEW k \in DOMAIN pairs
        PROVE  /\ pairs[k].promise \in Promises /\ Born(pairs[k].promise)
               /\ pairs[k].source \in Promises \cup {0}
    BY <2>1, PairParts DEF Refers
  <2>4. \A c \in Coroutines : co[c].state # "idle" => Born(co[c].result)
    BY <2>1 DEF Refers
  <2>5. cursor \in 0 .. Len(queue) /\ draining \in BOOLEAN
    BY <2>1 DEF QueueTypes, CallTypes
  <2> QED
    BY <2>2, <2>3, <2>4, <2>5 DEF TypeOK
<1> QED
  BY <1>1, Invariance, PTL

\* The places of the reactions of S, as the properties write them.
Named(a, b, S) ==
    {<<a, i>> : i \in {i \in Waiting : queue[i].reaction \in S}}
    \cup UNION {{<<b, q, i>> : i \in {i \in DOMAIN Reactions[q] : Reactions[q][i] \in S}}
                  : q \in Promises}

LEMMA NamedPlaces ==
    ASSUME NEW a, NEW b, NEW S
    PROVE  /\ Places(S) = {} => Named(a, b, S) = {}
           /\ Single(Places(S)) => Single(Named(a, b, S))
<1> DEFINE W == {i \in Waiting : queue[i].reaction \in S}
           L(q) == {i \in DOMAIN Reactions[q] : Reactions[q][i] \in S}
           N == {<<a, i>> : i \in W} \cup UNION {{<<b, q, i>> : i \in L(q)} : q \in Promises}
<1>1. Named(a, b, S) = N
  BY DEF Named
<1>2. ASSUME NEW i, NEW q
      PROVE  /\ i \in W => <<0, i>> \in Places(S)
             /\ q \in Promises /\ i \in L(q) => <<q, i>> \in Places(S)
  BY PlaceIff DEF Places, Waiting
<1>3. ASSUME NEW y, NEW z, <<y, z>> \in Places(S)
      PROVE  (y = 0 /\ z \in W) \/ (y \in Promises /\ z \in L(y))
  BY <1>3, PlaceIff DEF Places, Waiting
<1>4. \A w \in Places(S) : w = <<w[1], w[2]>>
  BY PlaceIff DEF Places
<1>5. 0 \notin Promises
  BY PromisesAssumption
<1> HIDE DEF W, L
<1>6. ASSUME Places(S) = {} PROVE N = {}
  BY <1>2, <1>6
<1>7. ASSUME Single(Places(S)) PROVE Single(N)
  <2>1. PICK y, z : Places(S) = {<<y, z>>}
    BY <1>4, <1>7 DEF Single
  <2>2. (y = 0 /\ z \in W) \/ (y \in Promises /\ z \in L(y))
    BY <1>3, <2>1
  <2>3. \A i, q : (i \in W => y = 0 /\ i = z) /\ (q \in Promises /\ i \in L(q) => q = y /\ i = z)
    BY <1>2, <2>1
  <2>4. CASE y = 0
    <3>1. W = {z} /\ \A q \in Promises : L(q) = {}
      BY <1>5, <2>2, <2>3, <2>4
    <3>2. N = {<<a, z>>}
      BY <3>1
    <3> QED
      BY <3>2 DEF Single
  <2>5. CASE y # 0
    <3>1. /\ W = {} /\ y \in Promises /\ L(y) = {z}
          /\ \A q \in Promises : q # y => L(q) = {}
      BY <2>2, <2>3, <2>5
    <3>2. N = {<<b, y, z>>}
      BY <3>1
    <3> QED
      BY <3>2 DEF Single
  <2> QED
    BY <2>4, <2>5
<1> QED
  BY <1>1, <1>6, <1>7

\* What waits is a reaction.
LEMMA WaitingReactions ==
    ASSUME PromiseTypes, QueueTypes
    PROVE  /\ \A i \in Waiting : queue[i].reaction \in Reaction
           /\ \A q \in Promises : \A i \in DOMAIN Reactions[q] : Reactions[q][i] \in Reaction
<1>1. \A i \in DOMAIN queue : queue[i] \in Job
  BY DEF QueueTypes
<1>2. \A j \in Job : j.reaction \in Reaction
  BY DEF Job
<1>3. Reactions \in Lists
  BY ReactionsType
<1> QED
  BY <1>1, <1>2, <1>3 DEF Waiting, Lists

LEMMA NamedThens ==
    ASSUME PromiseTypes, QueueTypes, NEW k
    PROVE  PlacesOfThen(k) = Named("queue", "list", Thens(k))
BY WaitingReactions DEF PlacesOfThen, Named, Thens

LEMMA NamedAwaits ==
    ASSUME PromiseTypes, QueueTypes, NEW c \in Coroutines
    PROVE  PlacesOfAwait(c) = Named("queue", "list", Awaits(c))
<1>1. \A r \in Reaction : r \in Awaits(c) <=> r = AwaitReaction(c)
  BY DEF Reaction, Awaits, AwaitReaction
<1> QED
  BY <1>1, WaitingReactions DEF PlacesOfAwait, Named

LEMMA OneOrNone ==
    ASSUME NEW P
    PROVE  (P = {} => Cardinality(P) = 0) /\ (Single(P) => Cardinality(P) = 1)
BY FS_EmptySet, FS_Singleton DEF Single

\* A reaction registered by `then` is in one place until it has run, and runs
\* once; it waits in the list of its promise exactly while that is pending.
THEOREM RunsOnce == Spec => []ReactionsRunOnce
<1>1. ASSUME IInv PROVE ReactionsRunOnce
  <2>1. PromiseTypes /\ QueueTypes /\ PairTypes /\ Refers /\ ThensInv
    BY <1>1 DEF IInv, Types
  <2>2. ASSUME NEW k \in ThenPairs
        PROVE  pairs[k].ran + Cardinality(PlacesOfThen(k)) = 1
    <3>1. PlacesOfThen(k) = Named("queue", "list", Thens(k))
      BY <2>1, NamedThens
    <3>2. CASE pairs[k].ran = 0 /\ Single(Places(Thens(k)))
      BY <3>1, <3>2, NamedPlaces, OneOrNone
    <3>3. CASE pairs[k].ran = 1 /\ Places(Thens(k)) = {}
      BY <3>1, <3>3, NamedPlaces, OneOrNone
    <3> QED
      BY <2>1, <3>2, <3>3 DEF ThensInv
  <2> QED
    BY <2>1, <2>2 DEF ReactionsRunOnce, Refers
<1> QED
  BY <1>1, Invariance, PTL

\* The reactions of one promise start in the order of their registration,
\* however user code nests drains.
THEOREM RunInOrder == Spec => []ReactionsInOrder
<1>1. IInv => ReactionsInOrder
  BY DEF IInv, OrderInv
<1> QED
  BY <1>1, Invariance, PTL

\* If no `constructor` of a promise is a throwing getter (subscribeAwait lets
\* that error escape), a suspended coroutine has exactly one continuation
\* waiting and every other one has none.
THEOREM ResumedOnce == ~Poisonable => (Spec => []AwaitsAreResumed)
<1> SUFFICES ASSUME ~Poisonable PROVE Spec => []AwaitsAreResumed
  OBVIOUS
<1>1. IInv => AwaitsAreResumed
  <2> SUFFICES ASSUME IInv, NEW c \in Coroutines
               PROVE  Cardinality(PlacesOfAwait(c)) =
                        IF co[c].state = "suspended" THEN 1 ELSE 0
    BY DEF AwaitsAreResumed
  <2>1. PlacesOfAwait(c) = Named("queue", "list", Awaits(c))
    BY NamedAwaits DEF IInv, Types
  <2>2. IF co[c].state = "suspended" THEN Single(Places(Awaits(c))) ELSE Places(Awaits(c)) = {}
    BY DEF IInv, AwaitsInv
  <2> QED
    BY <2>1, <2>2, NamedPlaces, OneOrNone
<1> QED
  BY <1>1, Invariance, PTL

\* When the engine is idle, nothing that could run is left.
THEOREM IdleDrained == Spec => []IdleIsDrained
<1>1. ASSUME IInv PROVE IdleIsDrained
  <2> SUFFICES ASSUME stack = <<>>
               PROVE  /\ queue = <<>> /\ ~draining
                      /\ \A k \in ThenPairs : pairs[k].ran = 0 => Pending(pairs[k].source)
                      /\ \A c \in Coroutines : co[c].state # "running"
    BY DEF IdleIsDrained
  <2>1. /\ queue = <<>> /\ CallsOf(stack, Run, draining, DOMAIN pairs)
        /\ PromiseTypes /\ Refers /\ ThensInv /\ OrderInv
    BY <1>1 DEF IInv, Calls, Types
  <2>2. ~draining /\ Run = {}
    BY <2>1 DEF CallsOf, RunOnce, Drains
  <2>3. ASSUME NEW k \in ThenPairs, pairs[k].ran = 0 PROVE Pending(pairs[k].source)
    <3>1. Single(Places(Thens(k)))
      BY <2>1, <2>3 DEF ThensInv
    <3>2. PICK a, b : <<a, b>> \in Places(Thens(k))
      BY <3>1, PlaceIff DEF Single, Places
    <3>3. /\ a \in Promises /\ b \in DOMAIN Reactions[a]
          /\ Reactions[a][b].kind = "then" /\ Reactions[a][b].pair = k
      BY <3>2, <2>1, PlaceIff DEF Places, Thens
    <3>4. Sources[k] = a
      BY <2>1, <3>3 DEF OrderInv, ListedInOrder
    <3>5. pairs[k].source = a
      BY <3>4 DEF Sources
    <3>6. Pending(a)
      BY <2>1, <3>3 DEF Refers
    <3> QED
      BY <3>5, <3>6
  <2> QED
    BY <2>1, <2>2, <2>3 DEF Run
<1> QED
  BY <1>1, Invariance, PTL

-----------------------------------------------------------------------------
(* What a step does to outcomes and adoptions.                              *)

\* No promise is settled, no reaction that adopts moves.
OutcomesStay ==
    \A q \in Promises :
        \/ promise'[q].state = promise[q].state /\ promise'[q].value = promise[q].value
        \/ ~Born(q) /\ Pending(q)'

AddsOther ==
    \/ \E q \in Promises, r \in Reaction : r.kind \in {"then", "await"} /\ AddsToList(q, r)
    \/ \E r \in Reaction : r.kind # "adopt" /\ AddsToQueue(r)

Drops ==
    Reactions' = Reactions /\ cursor = Len(queue) /\ queue' = <<>> /\ cursor' = 0

NoAdoption == \A p \in Promises : ~Taken({AdoptReaction(p)})

Quiet ==
    /\ OutcomesStay
    /\ \/ CursorMoves /\ NoAdoption /\ (Still \/ AddsOther)
       \/ Drops

\* The places where p waits for the outcome of another promise.
Adoption(p) == Places({AdoptReaction(p)})

\* p, which waits for no other promise, is settled or made to wait for one.
Decided(p) ==
    /\ CursorMoves /\ NoAdoption /\ Adoption(p) = {}
    /\ Settles(p, stack') \/ Follows(p, stack')

\* The outcome for which p waited arrives.
Arrived(p) ==
    /\ CursorMoves /\ Taken({AdoptReaction(p)}) /\ Pending(p)
    /\ promise' = Settled(p, queue[cursor + 1].state, queue[cursor + 1].value)
    /\ queue' = Flushed(p, queue[cursor + 1].state, queue[cursor + 1].value)

Effect == Quiet \/ \E p \in Promises : Decided(p) \/ Arrived(p)

LEMMA StillQuiet ==
    ASSUME CursorMoves, NoAdoption, promise' = promise, queue' = queue
    PROVE  Effect
BY DEF Effect, Quiet, OutcomesStay, Still, Reactions

LEMMA NothingTaken ==
    ASSUME QueueTypes, cursor' = cursor
    PROVE  CursorMoves /\ NoAdoption
BY NoJobTaken DEF NoAdoption

LEMMA ResolutionEffect ==
    ASSUME CursorMoves, NoAdoption, NEW p \in Promises, NEW st, Resolution(p, st),
           Pending(p) => Adoption(p) = {}
    PROVE  Effect
<1>1. CASE Ignored(p, st)
  BY <1>1, StillQuiet DEF Ignored
<1>2. CASE Asks(p, st)
  BY <1>2, StillQuiet DEF Asks
<1>3. CASE Settles(p, st) \/ Follows(p, st)
  <2>1. Decided(p)
    BY <1>3 DEF Decided, Settles, Follows
  <2> QED
    BY <2>1 DEF Effect
<1> QED
  BY <1>1, <1>2, <1>3 DEF Resolution

\* A promise that can be settled in another way waits for none.
LEMMA OtherWay ==
    ASSUME WaysInv, NEW p \in Promises,
           PairWays(p) # {} \/ GetterWays(p) # {} \/ CoWays(p) # {}
    PROVE  Adoption(p) = {}
<1>1. Places(Adopts(p)) = {}
  BY OnlyWay
<1>2. AdoptReaction(p) \in Adopts(p)
  BY Owners
<1>3. ASSUME NEW w \in Places({AdoptReaction(p)}) PROVE FALSE
  <2>1. w = <<w[1], w[2]>>
    BY PlaceIff DEF Places
  <2>2. <<w[1], w[2]>> \in Places(Adopts(p))
    BY <1>2, <2>1, PlaceIff DEF Places
  <2> QED
    BY <1>1, <2>2
<1> QED
  BY <1>3 DEF Adoption

\* A resolving function.
LEMMA ResolverEffect ==
    ASSUME IInv, NEW k \in DOMAIN pairs, NEW st,
           \/ \E v \in Values : CallResolver(k, TRUE, v, st)
           \/ \E v \in Reasons : CallResolver(k, FALSE, v, st),
           cursor' = cursor
    PROVE  Effect
<1>1. PromiseTypes /\ PairTypes /\ QueueTypes /\ WaysInv
  BY DEF IInv, Types
<1>2. CursorMoves /\ NoAdoption
  BY <1>1, NothingTaken
<1>3. CASE pairs[k].already
  BY <1>2, <1>3, StillQuiet DEF CallResolver
<1>4. CASE ~pairs[k].already
  <2>1. PICK p \in Promises : p = pairs[k].promise
    BY <1>1, PairParts
  <2>2. \/ \E v \in Values : ResolveData(p, v, st)
        \/ \E v \in Reasons : RejectData(p, v, st)
    BY <1>4, <2>1 DEF CallResolver
  <2>3. Resolution(p, st)
    BY <1>1, <2>2, ValuesGiven, ResolveCases, RejectCases DEF Resolution
  <2>4. k \in PairWays(p)
    BY <1>4, <2>1 DEF PairWays
  <2>5. Adoption(p) = {}
    BY <1>1, <2>4, OtherWay
  <2> QED
    BY <1>2, <2>3, <2>5, ResolutionEffect
<1> QED
  BY <1>3, <1>4

LEMMA CoroutineEndsEffect ==
    ASSUME IInv, stack # <<>>, Top.kind = "coroutine", cursor' = cursor, NEW st,
           \/ \E v \in Values : ResolveData(co[Top.co].result, v, st)
           \/ \E v \in Reasons : RejectData(co[Top.co].result, v, st)
    PROVE  Effect
<1>1. PromiseTypes /\ QueueTypes /\ WaysInv /\ Refers
  BY DEF IInv, Types
<1>2. CursorMoves /\ NoAdoption
  BY <1>1, NothingTaken
<1>3. PICK c \in Coroutines : c = Top.co /\ co[c].state = "running"
  BY TopCoroutine
<1>4. PICK p \in Promises : p = co[c].result
  BY <1>1, <1>3 DEF Refers
<1>5. Resolution(p, st)
  BY <1>1, <1>3, <1>4, ValuesGiven, ResolveCases, RejectCases DEF Resolution
<1>6. c \in CoWays(p)
  BY <1>3, <1>4 DEF CoWays
<1>7. Adoption(p) = {}
  BY <1>1, <1>6, OtherWay
<1> QED
  BY <1>2, <1>5, <1>7, ResolutionEffect

LEMMA GetterEndsEffect ==
    ASSUME IInv, stack # <<>>, Top.kind = "getter", cursor' = cursor, NEW st,
           \/ Settle(Top.promise, "fulfilled", Top.value, st)
           \/ \E v \in Reasons : RejectData(Top.promise, v, st)
    PROVE  Effect
<1>1. PromiseTypes /\ QueueTypes /\ WaysInv
  BY DEF IInv, Types
<1>2. CursorMoves /\ NoAdoption
  BY <1>1, NothingTaken
<1>3. /\ Top.promise \in Promises /\ Top.value \in Thenables
      /\ Top = stack[Len(stack)] /\ Len(stack) \in DOMAIN stack
  BY TopFrame, TopParts
<1>4. PICK p \in Promises : p = Top.promise
  BY <1>3
<1>5. Top.value \in Directs /\ "fulfilled" \in States
  BY <1>3 DEF Directs, States
<1>6. Resolution(p, st)
  BY <1>4, <1>5, ValuesGiven, SettleCases, RejectCases DEF Resolution
<1>7. Len(stack) \in GetterWays(p)
  BY <1>3, <1>4 DEF GetterWays, GettersIn
<1>8. Adoption(p) = {}
  BY <1>1, <1>7, OtherWay
<1> QED
  BY <1>2, <1>6, <1>8, ResolutionEffect

LEMMA BirthEffect ==
    ASSUME IInv, NEW p \in Promises, ~Born(p),
           promise' = [promise EXCEPT ![p] = PendingPromise],
           queue' = queue, cursor' = cursor
    PROVE  Effect
<1>1. PromiseTypes /\ QueueTypes /\ Refers
  BY DEF IInv, Types
<1>2. CursorMoves /\ NoAdoption
  BY <1>1, NothingTaken
<1>3. Reactions' = Reactions /\ Pending(p)'
  BY <1>1, PromiseBorn
<1>4. \A q \in Promises : q # p => promise'[q] = promise[q]
  BY <1>1 DEF PromiseTypes
<1> QED
  BY <1>2, <1>3, <1>4 DEF Effect, Quiet, OutcomesStay, Still

\* A list that grows leaves the outcomes alone.
LEMMA ListedOutcomes ==
    ASSUME PromiseTypes, NEW q \in Promises, NEW r,
           promise' = [promise EXCEPT ![q].reactions = Append(@, r)]
    PROVE  \A p \in Promises :
             promise'[p].state = promise[p].state /\ promise'[p].value = promise[p].value
BY DEF PromiseTypes

LEMMA ThenOutcomes ==
    ASSUME IInv, Then PROVE OutcomesStay
<1>1. PromiseTypes
  BY DEF IInv, Types
<1>2. PICK p \in Promises, q \in Promises :
        /\ Born(p) /\ ~Born(q)
        /\ \E r : \/ promise' = [promise EXCEPT ![q] = PendingPromise]
                 \/ promise' = [[promise EXCEPT ![q] = PendingPromise] EXCEPT
                                   ![p].reactions = Append(@, r)]
  BY DEF Then, Fresh
<1>9. PICK r : \/ promise' = [promise EXCEPT ![q] = PendingPromise]
               \/ promise' = [[promise EXCEPT ![q] = PendingPromise] EXCEPT
                                 ![p].reactions = Append(@, r)]
  BY <1>2
<1>3. p # q
  BY <1>2
<1> DEFINE born == [promise EXCEPT ![q] = PendingPromise]
<1>4. /\ born[q].state = "pending" /\ DOMAIN born = Promises /\ q \in Promises
      /\ \A x \in Promises : x # q => born[x] = promise[x]
  BY <1>1 DEF PromiseTypes, PendingPromise
<1> HIDE DEF born
<1>5. promise' = born \/ promise' = [born EXCEPT ![p].reactions = Append(@, r)]
  BY <1>9 DEF born
<1>6. promise'[q].state = "pending"
  BY <1>3, <1>4, <1>5
<1>7. \A x \in Promises : x # q => \/ promise'[x] = born[x]
                                   \/ promise'[x] = [born[x] EXCEPT !.reactions = Append(@, r)]
  BY <1>4, <1>5
<1>8. \A x \in Promises : x # q => promise'[x].state = promise[x].state
                                   /\ promise'[x].value = promise[x].value
  <2> SUFFICES ASSUME NEW x \in Promises, x # q
               PROVE  promise'[x].state = promise[x].state /\ promise'[x].value = promise[x].value
    OBVIOUS
  <2>1. promise[x] \in [state : {"none", "pending"} \cup States,
                        value : Directs, reactions : Seq(Reaction)]
    BY <1>1 DEF PromiseTypes
  <2>2. \/ promise'[x] = promise[x]
        \/ promise'[x] = [promise[x] EXCEPT !.reactions = Append(promise[x].reactions, r)]
    BY <1>4, <1>7
  <2> QED
    BY <2>1, <2>2
<1> QED
  BY <1>2, <1>6, <1>8 DEF OutcomesStay, Pending

LEMMA ThenMoves ==
    ASSUME IInv, Then PROVE Effect
<1>1. /\ PromiseTypes /\ PairTypes /\ QueueTypes /\ Refers
  BY DEF IInv, Types
<1>2. PICK q \in Promises, n \in Nat, r \in Reaction :
        r \in Thens(n) /\ (AddsToList(q, r) \/ AddsToQueue(r))
  BY <1>1, ThenEffect
<1>3. r.kind = "then"
  BY <1>2 DEF Thens
<1>4. CursorMoves /\ NoAdoption
  BY <1>1, NothingTaken DEF Then
<1>5. OutcomesStay
  BY ThenOutcomes
<1> QED
  BY <1>2, <1>3, <1>4, <1>5 DEF Effect, Quiet, AddsOther

LEMMA AwaitMoves ==
    ASSUME IInv, Await PROVE Effect
<1>1. /\ PromiseTypes /\ QueueTypes
  BY DEF IInv, Types
<1>2. stack # <<>> /\ Top.kind = "coroutine"
  BY DEF Await, UserCode
<1>3. PICK c \in Coroutines : c = Top.co
  BY <1>2, TopCoroutine
<1>4. PICK r \in Reaction : r = AwaitReaction(c) /\ r.kind = "await"
  BY Owners DEF AwaitReaction
<1>5. (\E q \in Promises : AddsToList(q, r)) \/ AddsToQueue(r)
  BY <1>1, <1>3, <1>4, AwaitAdds
<1>6. OutcomesStay
  <2>1. \/ promise' = promise
        \/ \E q \in Promises : promise' = [promise EXCEPT ![q].reactions = Append(@, r)]
    BY <1>3, <1>4 DEF Await
  <2> QED
    BY <1>1, <2>1, ListedOutcomes DEF OutcomesStay
<1>7. CursorMoves /\ NoAdoption
  BY <1>1, NothingTaken DEF Await
<1> QED
  BY <1>4, <1>5, <1>6, <1>7 DEF Effect, Quiet, AddsOther

LEMMA GetterQueuesEffect ==
    ASSUME IInv, stack # <<>>, Top.kind = "getter", cursor' = cursor,
           queue' = Append(queue, ThenableJob(Top.promise)), promise' = promise
    PROVE  Effect
<1>1. QueueTypes
  BY DEF IInv, Types
<1>2. PICK p \in Promises : p = Top.promise
  BY TopParts
<1>3. CursorMoves /\ NoAdoption
  BY <1>1, NothingTaken
<1>4. PICK r \in Reaction : r = ThenableJob(p).reaction /\ r.kind # "adopt"
  BY Owners DEF ThenableJob
<1>5. ThenableJob(p) \in Job
  BY <1>4, ValuesGiven DEF ThenableJob, Job, States
<1>6. AddsToQueue(r)
  BY <1>2, <1>4, <1>5 DEF AddsToQueue, Reactions
<1> QED
  BY <1>3, <1>4, <1>6 DEF Effect, Quiet, AddsOther, OutcomesStay

LEMMA ReturnEffect ==
    ASSUME IInv, Return PROVE Effect
<1>1. stack # <<>> /\ cursor' = cursor
  BY DEF Return, UserCode
<1>2. CursorMoves /\ NoAdoption
  BY <1>1, NothingTaken DEF IInv, Types
<1>3. CASE ScriptEnds
  BY <1>2, <1>3, StillQuiet DEF ScriptEnds
<1>4. CASE CalleeReturns
  BY <1>2, <1>4, StillQuiet DEF CalleeReturns
<1>5. CASE HandlerReturns
  <2>1. PICK k \in DOMAIN pairs : k = Top.pair
    BY <1>1, <1>5, TopParts DEF HandlerReturns, Callee
  <2>2. \E v \in Values : CallResolver(k, TRUE, v, Below)
    BY <1>5, <2>1 DEF HandlerReturns
  <2> QED
    BY <1>1, <2>2, ResolverEffect
<1>6. CASE CoroutineReturns
  BY <1>1, <1>6, CoroutineEndsEffect DEF CoroutineReturns
<1>7. CASE GetterReturns
  <2>1. Top.kind = "getter"
    BY <1>7 DEF GetterReturns
  <2>2. \/ queue' = Append(queue, ThenableJob(Top.promise)) /\ promise' = promise
        \/ Settle(Top.promise, "fulfilled", Top.value, Below)
    BY <1>7 DEF GetterReturns
  <2> QED
    BY <1>1, <2>1, <2>2, GetterEndsEffect, GetterQueuesEffect
<1> QED
  BY <1>3, <1>4, <1>5, <1>6, <1>7 DEF Return

LEMMA ThrowEffect ==
    ASSUME IInv, Throw PROVE Effect
<1>1. stack # <<>> /\ cursor' = cursor
  BY DEF Throw, UserCode
<1>2. CursorMoves /\ NoAdoption
  BY <1>1, NothingTaken DEF IInv, Types
<1>3. CASE ScriptEnds
  BY <1>2, <1>3, StillQuiet DEF ScriptEnds
<1>4. ASSUME NEW v \in Reasons, CalleeThrows(v) PROVE Effect
  <2>1. PICK k \in DOMAIN pairs : k = Top.pair
    BY <1>1, <1>4, TopParts DEF CalleeThrows, Callee
  <2>2. \E w \in Reasons : CallResolver(k, FALSE, w, Below)
    BY <1>4, <2>1 DEF CalleeThrows
  <2> QED
    BY <1>1, <2>2, ResolverEffect
<1>5. ASSUME NEW v \in Reasons, CoroutineThrows(v) PROVE Effect
  <2>1. Top.kind = "coroutine" /\ \E w \in Reasons : RejectData(co[Top.co].result, w, Below)
    BY <1>5 DEF CoroutineThrows
  <2> QED
    BY <1>1, <2>1, CoroutineEndsEffect
<1>6. ASSUME NEW v \in Reasons, GetterThrows(v) PROVE Effect
  <2>1. Top.kind = "getter" /\ \E w \in Reasons : RejectData(Top.promise, w, Below)
    BY <1>6 DEF GetterThrows
  <2> QED
    BY <1>1, <2>1, GetterEndsEffect
<1> QED
  BY <1>3, <1>4, <1>5, <1>6 DEF Throw

LEMMA RunJobEffect ==
    ASSUME IInv, RunJob PROVE Effect
<1>1. PromiseTypes /\ PairTypes /\ QueueTypes /\ WaysInv /\ ThensInv /\ AwaitsInv /\ Types
  BY DEF IInv, Types
<1>2. cursor < Len(queue) /\ cursor' = cursor + 1 /\ stack # <<>>
  BY DEF RunJob
<1>3. PICK r \in Reaction, state \in States, value \in Directs :
        r = queue[cursor + 1].reaction
          /\ state = queue[cursor + 1].state /\ value = queue[cursor + 1].value
  BY <1>1, <1>2, JobTaken
<1>4. CursorMoves /\ \A S : Taken(S) <=> r \in S
  BY <1>1, <1>2, <1>3, JobTaken
<1>5. r.kind # "adopt" => NoAdoption
  BY <1>4 DEF NoAdoption, AdoptReaction
<1>6. CASE r.kind = "thenable"
  <2>1. promise' = promise /\ queue' = queue
    BY <1>3, <1>6 DEF RunJob, RunThenable
  <2> QED
    BY <1>4, <1>5, <1>6, <2>1, StillQuiet
<1>7. CASE r.kind = "then"
  <2>1. PICK k \in DOMAIN pairs : k = r.pair
    BY <1>1, <1>3, <1>4, <1>7, PairRuns
  <2>2. PICK p \in Promises : p = pairs[k].promise
    BY <1>1, PairParts
  <2>3. \/ promise' = promise /\ queue' = queue
        \/ ~pairs[k].already /\ (ResolveData(p, value, stack) \/ RejectData(p, value, stack))
    BY <1>3, <1>7, <2>1, <2>2 DEF RunJob, RunThen
  <2>4. CASE promise' = promise /\ queue' = queue
    BY <1>4, <1>5, <1>7, <2>4, StillQuiet
  <2>5. CASE ~pairs[k].already /\ (ResolveData(p, value, stack) \/ RejectData(p, value, stack))
    <3>1. Resolution(p, stack)
      BY <1>1, <2>5, ResolveCases, RejectCases DEF Resolution
    <3>2. k \in PairWays(p)
      BY <2>2, <2>5 DEF PairWays
    <3>3. Adoption(p) = {}
      BY <1>1, <3>2, OtherWay
    <3> QED
      BY <1>4, <1>5, <1>7, <3>1, <3>3, ResolutionEffect
  <2> QED
    BY <2>3, <2>4, <2>5
<1>8. CASE r.kind = "adopt"
  <2>1. PICK p \in Promises : r = AdoptReaction(p)
    BY <1>3, <1>8 DEF Reaction, AdoptReaction
  <2>2. Settle(p, state, value, stack)
    BY <1>3, <1>8, <2>1 DEF RunJob, RunAdopt, AdoptReaction
  <2>3. Taken({AdoptReaction(p)}) /\ Taken(Adopts(p))
    BY <1>4, <2>1, Owners
  <2>4. Pending(p)
    BY <1>1, <1>4, <2>3, TakenIff, OnlyWay
  <2>5. Arrived(p)
    BY <1>3, <1>4, <2>2, <2>3, <2>4 DEF Arrived, Settle
  <2> QED
    BY <2>5 DEF Effect
<1>9. CASE r.kind = "await"
  <2>1. PICK c \in Coroutines : c = r.co /\ r \in Awaits(c)
    BY <1>3, <1>9 DEF Reaction, Awaits
  <2>2. co[c].state = "suspended"
    <3>1. Places(Awaits(c)) # {}
      BY <1>1, <1>4, <2>1, TakenIff
    <3> QED
      BY <1>1, <3>1 DEF AwaitsInv
  <2>3. promise' = promise /\ queue' = queue
    BY <1>3, <1>9, <2>1, <2>2 DEF RunJob, RunAwait
  <2> QED
    BY <1>4, <1>5, <1>9, <2>3, StillQuiet
<1>10. r.kind \in {"then", "adopt", "thenable", "await"}
  BY <1>3 DEF Reaction
<1> QED
  BY <1>6, <1>7, <1>8, <1>9, <1>10

LEMMA StepEffect ==
    ASSUME IInv, [Next]_vars PROVE Effect
<1>1. QueueTypes
  BY DEF IInv, Types
<1>2. CASE Construct \/ CallAsync
  <2>1. PICK p \in Promises : Fresh(p) /\ promise' = [promise EXCEPT ![p] = PendingPromise]
    BY <1>2 DEF Construct, CallAsync
  <2>2. queue' = queue /\ cursor' = cursor
    BY <1>2 DEF Construct, CallAsync
  <2> QED
    BY <2>1, <2>2, BirthEffect DEF Fresh
<1>3. CASE Resolver
  <2>1. \E k \in DOMAIN pairs :
          \/ \E v \in Values : CallResolver(k, TRUE, v, stack)
          \/ \E v \in Reasons : CallResolver(k, FALSE, v, stack)
    BY <1>3 DEF Resolver
  <2> QED
    BY <1>3, <2>1, ResolverEffect DEF Resolver
<1>4. CASE Drain \/ AwaitPoisoned \/ UNCHANGED vars
  <2>1. promise' = promise /\ queue' = queue /\ cursor' = cursor
    BY <1>4 DEF Drain, AwaitPoisoned, vars
  <2> QED
    BY <1>1, <2>1, NothingTaken, StillQuiet
<1>5. CASE EndDrain \/ Eval
  <2>1. promise' = promise
    BY <1>5 DEF EndDrain, Eval
  <2>2. \/ queue' = queue /\ cursor' = cursor
        \/ cursor = Len(queue) /\ queue' = <<>> /\ cursor' = 0
    BY <1>1, <1>5 DEF EndDrain, Eval, IInv, Calls, QueueTypes
  <2>3. CASE queue' = queue /\ cursor' = cursor
    BY <1>1, <2>1, <2>3, NothingTaken, StillQuiet
  <2>4. CASE cursor = Len(queue) /\ queue' = <<>> /\ cursor' = 0
    BY <2>1, <2>4 DEF Effect, Quiet, OutcomesStay, Drops, Reactions
  <2> QED
    BY <2>2, <2>3, <2>4
<1> QED
  BY <1>2, <1>3, <1>4, <1>5, ThenMoves, AwaitMoves, ReturnEffect, ThrowEffect, RunJobEffect
     DEF Next, UserStep

-----------------------------------------------------------------------------
(* One way to settle each promise.                                          *)

\* A thenable job never waits in a list: it is put into the queue.
ListsHold ==
    \A q \in Promises : \A i \in DOMAIN Reactions[q] : Reactions[q][i].kind # "thenable"

LEMMA ArrivedSettles ==
    ASSUME QueueTypes, NEW p \in Promises, Arrived(p)
    PROVE  Settles(p, stack')
<1>1. queue[cursor + 1].state \in States /\ queue[cursor + 1].value \in Directs
  BY JobTaken DEF Arrived, Taken, CursorMoves, QueueTypes
<1> QED
  BY <1>1 DEF Arrived, Settles

LEMMA EffectOnLists ==
    ASSUME IInv, Effect
    PROVE  \/ Reactions' = Reactions
           \/ \E q \in Promises : Reactions' = [Reactions EXCEPT ![q] = <<>>]
           \/ \E q \in Promises, r \in Reaction :
                r.kind # "thenable" /\ Reactions' = Listed(Reactions, q, r)
<1>1. PromiseTypes /\ QueueTypes
  BY DEF IInv, Types
<1>2. CASE Quiet
  BY <1>2 DEF Quiet, Still, AddsOther, AddsToList, AddsToQueue, Drops
<1>3. ASSUME NEW p \in Promises, Decided(p) \/ Arrived(p)
      PROVE  \/ \E q \in Promises : Reactions' = [Reactions EXCEPT ![q] = <<>>]
             \/ \E q \in Promises, r \in Reaction :
                  r.kind # "thenable" /\ Reactions' = Listed(Reactions, q, r)
  <2>1. CASE Settles(p, stack')
    BY <1>1, <2>1, SettlesEffect DEF Flushes
  <2>2. CASE Follows(p, stack')
    <3>1. AdoptReaction(p) \in Reaction /\ AdoptReaction(p).kind # "thenable"
      BY Owners DEF AdoptReaction
    <3> QED
      BY <1>1, <2>2, <3>1, FollowsEffect DEF AddsToList
  <2> QED
    BY <1>1, <1>3, <2>1, <2>2, ArrivedSettles DEF Decided
<1> QED
  BY <1>2, <1>3 DEF Effect

LEMMA ListsHoldAlways == Spec => []ListsHold
<1>1. Init => ListsHold
  BY DEF Init, ListsHold, Reactions
<1>2. ASSUME IInv, [Next]_vars, ListsHold PROVE ListsHold'
  <2>1. Reactions \in Lists
    <3>1. PromiseTypes
      BY <1>2 DEF IInv, Types
    <3> QED
      BY <3>1, ReactionsType
  <2>2. CASE Reactions' = Reactions
    BY <1>2, <2>2 DEF ListsHold
  <2>3. ASSUME NEW q \in Promises, Reactions' = [Reactions EXCEPT ![q] = <<>>]
        PROVE  ListsHold'
    <3>1. \A p \in Promises : Reactions'[p] = IF p = q THEN <<>> ELSE Reactions[p]
      BY <2>1, <2>3 DEF Lists
    <3> QED
      BY <1>2, <3>1 DEF ListsHold
  <2>4. ASSUME NEW q \in Promises, NEW r \in Reaction, r.kind # "thenable",
               Reactions' = Listed(Reactions, q, r)
        PROVE  ListsHold'
    <3>1. \A p \in Promises : p # q => Reactions'[p] = Reactions[p]
      BY <2>1, <2>4 DEF Lists, Listed
    <3>2. Reactions'[q] = Append(Reactions[q], r) /\ Reactions[q] \in Seq(Reaction)
      BY <2>1, <2>4 DEF Lists, Listed
    <3>3. \A i \in DOMAIN Reactions'[q] :
             Reactions'[q][i] = r \/ (i \in DOMAIN Reactions[q] /\ Reactions'[q][i] = Reactions[q][i])
      BY <3>2
    <3> QED
      BY <1>2, <2>4, <3>1, <3>3 DEF ListsHold
  <2> QED
    BY <1>2, <2>2, <2>3, <2>4, StepEffect, EffectOnLists
<1> QED
  BY <1>1, <1>2, Invariance, PTL DEF Spec

LEMMA Marked ==
    ASSUME NEW a, NEW P
    PROVE  /\ P = {} => {<<a, x>> : x \in P} = {}
           /\ Single(P) => Single({<<a, x>> : x \in P})
<1>1. ASSUME Single(P) PROVE Single({<<a, x>> : x \in P})
  <2>1. PICK y : P = {y}
    BY <1>1 DEF Single
  <2>2. {<<a, x>> : x \in P} = {<<a, y>>}
    BY <2>1
  <2> QED
    BY <2>2 DEF Single
<1> QED
  BY <1>1

\* A pending promise has exactly one way left to be settled, and a settled one
\* none.
THEOREM SettledOneWay == Spec => []OneWayToSettle
<1>1. ASSUME IInv, ListsHold PROVE OneWayToSettle
  <2> SUFFICES ASSUME NEW p \in Promises
               PROVE  Cardinality(Ways(p)) = IF Pending(p) THEN 1 ELSE 0
    BY DEF OneWayToSettle
  <2>1. PromiseTypes /\ QueueTypes /\ WaysInv
    BY <1>1 DEF IInv, Types
  <2> DEFINE A == {<<"pair", k>> : k \in PairWays(p)}
             B == {<<"getter", i>> : i \in GetterWays(p)}
             C == {<<"coroutine", c>> : c \in CoWays(p)}
             D == Named("job", "reaction", Adopts(p))
  <2>2. Ways(p) = A \cup B \cup C \cup D
    <3>1. \A i \in Waiting :
             queue[i].reaction \in Adopts(p) <=>
               queue[i].reaction.kind \in {"adopt", "thenable"} /\ queue[i].reaction.promise = p
      BY <2>1, WaitingReactions DEF Adopts
    <3>2. ASSUME NEW q \in Promises, NEW i \in DOMAIN Reactions[q]
          PROVE  Reactions[q][i] \in Adopts(p) <=> Reactions[q][i] = AdoptReaction(p)
      <4>1. Reactions[q][i] \in Reaction /\ Reactions[q][i].kind # "thenable"
        BY <1>1, <2>1, WaitingReactions DEF ListsHold
      <4>2. \A r \in Reaction : r.kind # "thenable" =>
               (r \in Adopts(p) <=> r = AdoptReaction(p))
        BY DEF Reaction, Adopts, AdoptReaction
      <4> QED
        BY <4>1, <4>2
    <3>3. \A q \in Promises : Reactions[q] = promise[q].reactions
      BY <2>1, ReactionsType
    <3>4. D = {<<"job", i>> : i \in {i \in Waiting :
                 /\ queue[i].reaction.kind \in {"adopt", "thenable"}
                 /\ queue[i].reaction.promise = p}}
              \cup UNION {{<<"reaction", q, i>> : i \in {i \in DOMAIN promise[q].reactions :
                 promise[q].reactions[i] = AdoptReaction(p)}} : q \in Promises}
      BY <3>1, <3>2, <3>3 DEF Named
    <3> QED
      BY <3>4 DEF Ways, PairWays, GetterWays, GettersIn, CoWays
  <2>3. /\ PairWays(p) = {} => A = {}
        /\ Single(PairWays(p)) => Single(A)
    BY Marked
  <2>4. /\ GetterWays(p) = {} => B = {}
        /\ Single(GetterWays(p)) => Single(B)
    BY Marked
  <2>5. /\ CoWays(p) = {} => C = {}
        /\ Single(CoWays(p)) => Single(C)
    BY Marked
  <2>6. /\ Places(Adopts(p)) = {} => D = {}
        /\ Single(Places(Adopts(p))) => Single(D)
    BY NamedPlaces
  <2>7. IF Pending(p) THEN OneWay(p) ELSE NoWay(p)
    BY <2>1 DEF WaysInv
  <2> HIDE DEF A, B, C, D
  <2>8. IF Pending(p) THEN Single(A \cup B \cup C \cup D) ELSE A \cup B \cup C \cup D = {}
    BY <2>3, <2>4, <2>5, <2>6, <2>7 DEF OneWay, NoWay, OneOf, NoneOf, Single
  <2> QED
    BY <2>2, <2>8, OneOrNone
<1> QED
  BY <1>1, Invariance, ListsHoldAlways, PTL

-----------------------------------------------------------------------------
(* The fate of a promise: the refinement of PromiseFate.                    *)

FateOf(p) ==
    CASE ~Born(p) -> [kind |-> "unborn"]
      [] promise[p].state \in States ->
            [kind |-> "settled", state |-> promise[p].state, value |-> promise[p].value]
      [] Pending(p) /\ AdoptionJobs(p) # {} ->
            LET job == queue[Min(AdoptionJobs(p))]
            IN  [kind |-> "destined", state |-> job.state, value |-> job.value]
      [] Pending(p) /\ AdoptionJobs(p) = {} /\ Followed(p) # {} ->
            [kind |-> "follows", of |-> Min(Followed(p))]
      [] OTHER -> [kind |-> "open"]

Fates == [p \in Promises |-> FateOf(p)]

\* The fate of p as its state and the place of its adoption tell it.
FateShape(p) ==
    /\ ~Born(p) => FateOf(p) = Fate!Unborn
    /\ Born(p) /\ ~Pending(p) =>
          FateOf(p) = Fate!SettledAs(promise[p].state, promise[p].value)
    /\ Pending(p) /\ Adoption(p) = {} => FateOf(p) = Fate!Open
    /\ \A i : Pending(p) /\ <<0, i>> \in Adoption(p) =>
          FateOf(p) = Fate!Destined(queue[i].state, queue[i].value)
    /\ \A q \in Promises : \A i : Pending(p) /\ <<q, i>> \in Adoption(p) =>
          Pending(q) /\ FateOf(p) = Fate!Follows(q)
    /\ ~Pending(p) => Adoption(p) = {}
    /\ Pending(p) /\ Adoption(p) # {} =>
          \E q, i : Adoption(p) = {<<q, i>>} /\ q \in Promises \cup {0}

LEMMA AdoptionParts ==
    ASSUME NEW p
    PROVE  /\ \A i : <<0, i>> \in Adoption(p) <=> i \in AdoptionJobs(p)
           /\ \A q \in Promises : \A i : <<q, i>> \in Adoption(p) <=>
                 i \in DOMAIN Reactions[q] /\ Reactions[q][i] = AdoptReaction(p)
           /\ \A q : q \in Followed(p) <=> q \in Promises /\ \E i : <<q, i>> \in Adoption(p)
           /\ \A w \in Adoption(p) : w = <<w[1], w[2]>> /\ w[1] \in Promises \cup {0}
<1>1. /\ \A a, b : <<a, b>> \in Adoption(p) <=>
            \/ a = 0 /\ b \in Waiting /\ queue[b].reaction = AdoptReaction(p)
            \/ a \in Promises /\ b \in DOMAIN Reactions[a] /\ Reactions[a][b] = AdoptReaction(p)
      /\ \A w \in Adoption(p) : w = <<w[1], w[2]>>
  BY PlaceIff DEF Adoption, Places, Waiting
<1>2. 0 \notin Promises
  BY PromisesAssumption
<1>3. \A i : <<0, i>> \in Adoption(p) <=> i \in AdoptionJobs(p)
  BY <1>1, <1>2 DEF AdoptionJobs
<1>4. \A q \in Promises : \A i : <<q, i>> \in Adoption(p) <=>
                 i \in DOMAIN Reactions[q] /\ Reactions[q][i] = AdoptReaction(p)
  BY <1>1, <1>2
<1>5. \A w \in Adoption(p) : w[1] \in Promises \cup {0}
  BY <1>1
<1> QED
  BY <1>1, <1>3, <1>4, <1>5 DEF Followed

\* p waits in at most one place, and only while it is pending.
LEMMA AdoptionSingle ==
    ASSUME IInv, NEW p \in Promises
    PROVE  /\ ~Pending(p) => Adoption(p) = {}
           /\ \A w, x \in Adoption(p) : w = x
<1>1. IF Pending(p) THEN OneWay(p) ELSE NoWay(p)
  BY DEF IInv, WaysInv
<1>2. Adoption(p) \subseteq Places(Adopts(p))
  <2>1. AdoptReaction(p) \in Adopts(p)
    BY Owners
  <2>2. ASSUME NEW w \in Adoption(p) PROVE w \in Places(Adopts(p))
    <3>1. w = <<w[1], w[2]>>
      BY PlaceIff DEF Adoption, Places
    <3>2. <<w[1], w[2]>> \in Places(Adopts(p))
      BY <2>1, <3>1, PlaceIff DEF Adoption, Places
    <3> QED
      BY <3>1, <3>2
  <2> QED
    BY <2>2
<1> QED
  BY <1>1, <1>2 DEF OneWay, NoWay, OneOf, NoneOf, Single

LEMMA LeastOfOne == \A i \in Int : Min({i}) = i
BY DEF Min

LEMMA FateIs == IInv => \A p \in Promises : FateShape(p)
<1> SUFFICES ASSUME IInv, NEW p \in Promises PROVE FateShape(p)
  OBVIOUS
<1>1. PromiseTypes /\ QueueTypes /\ Refers
  BY DEF IInv, Types
<1>2. promise[p].state \in {"none", "pending"} \cup States
  BY <1>1 DEF PromiseTypes
<1>3. ~Born(p) => FateOf(p) = Fate!Unborn
  <2> HAVE ~Born(p)
  <2>1. promise[p].state \notin States /\ ~Pending(p)
    BY DEF Born, Pending, States
  <2> QED
    BY <2>1 DEF FateOf, Fate!Unborn
<1>4. Born(p) /\ ~Pending(p) => FateOf(p) = Fate!SettledAs(promise[p].state, promise[p].value)
  <2> HAVE Born(p) /\ ~Pending(p)
  <2>1. promise[p].state \in States
    BY <1>2 DEF Born, Pending
  <2> QED
    BY <2>1 DEF FateOf, Fate!SettledAs
<1>5. Pending(p) => Born(p) /\ promise[p].state \notin States
  BY DEF Pending, Born, States
<1>6. /\ \A i : <<0, i>> \in Adoption(p) <=> i \in AdoptionJobs(p)
      /\ \A q : q \in Followed(p) <=> q \in Promises /\ \E i : <<q, i>> \in Adoption(p)
      /\ \A w \in Adoption(p) : w = <<w[1], w[2]>> /\ w[1] \in Promises \cup {0}
      /\ \A q \in Promises : \A i : <<q, i>> \in Adoption(p) <=>
                 i \in DOMAIN Reactions[q] /\ Reactions[q][i] = AdoptReaction(p)
  BY AdoptionParts
<1>7. (~Pending(p) => Adoption(p) = {}) /\ \A w, x \in Adoption(p) : w = x
  BY AdoptionSingle
<1>8. Pending(p) /\ Adoption(p) = {} => FateOf(p) = Fate!Open
  <2> HAVE Pending(p) /\ Adoption(p) = {}
  <2>1. AdoptionJobs(p) = {} /\ Followed(p) = {}
    BY <1>6
  <2> QED
    BY <1>5, <2>1 DEF FateOf, Fate!Open
<1>9. ASSUME NEW i, Pending(p), <<0, i>> \in Adoption(p)
      PROVE  FateOf(p) = Fate!Destined(queue[i].state, queue[i].value)
  <2>1. AdoptionJobs(p) = {i}
    BY <1>6, <1>7, <1>9
  <2>2. i \in Int
    BY <1>1, <2>1 DEF AdoptionJobs, Waiting, QueueTypes
  <2>3. Min(AdoptionJobs(p)) = i /\ AdoptionJobs(p) # {}
    BY <2>1, <2>2, LeastOfOne
  <2> QED
    BY <1>5, <1>9, <2>3 DEF FateOf, Fate!Destined
<1>10. ASSUME NEW q \in Promises, NEW i, Pending(p), <<q, i>> \in Adoption(p)
       PROVE  Pending(q) /\ FateOf(p) = Fate!Follows(q)
  <2>1. Followed(p) = {q}
    <3>1. ASSUME NEW r \in Followed(p) PROVE r = q
      <4>1. PICK j : <<r, j>> \in Adoption(p)
        BY <1>6
      <4>2. <<r, j>> = <<q, i>>
        BY <1>7, <1>10, <4>1
      <4> QED
        BY <4>2
    <3>2. q \in Followed(p)
      BY <1>6, <1>10
    <3> QED
      BY <3>1, <3>2
  <2>2. AdoptionJobs(p) = {}
    <3>1. \A j : <<0, j>> \in Adoption(p) => <<0, j>> = <<q, i>>
      BY <1>7, <1>10
    <3> QED
      BY <1>6, <3>1, PromisesAssumption
  <2>3. Min(Followed(p)) = q /\ Followed(p) # {}
    BY <2>1, LeastOfOne, PromisesAssumption
  <2>4. Pending(q)
    BY <1>1, <1>6, <1>10 DEF Refers
  <2>5. FateOf(p) = Fate!Follows(q)
    BY <1>5, <1>10, <2>2, <2>3 DEF FateOf, Fate!Follows
  <2> QED
    BY <2>4, <2>5
<1>11. Pending(p) /\ Adoption(p) # {} =>
          \E q, i : Adoption(p) = {<<q, i>>} /\ q \in Promises \cup {0}
  <2> HAVE Pending(p) /\ Adoption(p) # {}
  <2>1. PICK w : w \in Adoption(p)
    OBVIOUS
  <2>2. Adoption(p) = {<<w[1], w[2]>>} /\ w[1] \in Promises \cup {0}
    BY <1>6, <1>7, <2>1
  <2> QED
    BY <2>2
<1> QED
  BY <1>3, <1>4, <1>7, <1>8, <1>9, <1>10, <1>11 DEF FateShape

LEMMA FateIsNext == IInv' => (\A p \in Promises : FateShape(p))'
BY FateIs, PTL

\* What PromiseFate allows for p.
FateStep(p) ==
    \/ Fate!Keeps(FateOf(p), FateOf(p)', Fates')
    \/ Fate!Decides(FateOf(p), FateOf(p)')
    \/ Fate!TakesOver(FateOf(p), FateOf(p)', Fates')
    \/ Fate!Completes(FateOf(p), FateOf(p)')

LEMMA FateNext == (\A p \in Promises : FateStep(p)) => Fate!Next
<1> SUFFICES ASSUME \A p \in Promises : FateStep(p) PROVE Fate!Next
  OBVIOUS
<1>1. \A p \in Promises : Fates[p] = FateOf(p) /\ Fates'[p] = FateOf(p)'
  BY DEF Fates
<1>2. \A p \in Promises :
        \/ Fate!Keeps(Fates[p], Fates'[p], Fates')
        \/ Fate!Decides(Fates[p], Fates'[p])
        \/ Fate!TakesOver(Fates[p], Fates'[p], Fates')
        \/ Fate!Completes(Fates[p], Fates'[p])
  BY <1>1 DEF FateStep
<1> QED
  BY <1>2 DEF Fate!Next, Fates, FateOf

LEMMA SettledFates ==
    ASSUME IInv' PROVE \A q \in Promises :
        /\ Fates'[q] = FateOf(q)'
        /\ Pending(q)' => Fates'[q].kind # "settled"
<1> SUFFICES ASSUME NEW q \in Promises
             PROVE  Fates'[q] = FateOf(q)' /\ (Pending(q)' => Fates'[q].kind # "settled")
  OBVIOUS
<1>1. Fates'[q] = FateOf(q)'
  BY DEF Fates
<1>2. FateShape(q)'
  BY FateIsNext
<1>3. Pending(q)' => FateOf(q)'.kind # "settled"
  <2> HAVE Pending(q)'
  <2>1. CASE Adoption(q)' = {}
    BY <1>2, <2>1 DEF FateShape, Fate!Open
  <2>2. CASE Adoption(q)' # {}
    <3>1. PICK r, i : <<r, i>> \in Adoption(q)' /\ r \in Promises \cup {0}
      BY <1>2, <2>2 DEF FateShape
    <3>2. CASE r = 0
      BY <1>2, <3>1, <3>2 DEF FateShape, Fate!Destined
    <3>3. CASE r \in Promises
      BY <1>2, <3>1, <3>3 DEF FateShape, Fate!Follows
    <3> QED
      BY <3>1, <3>2, <3>3
  <2> QED
    BY <2>1, <2>2
<1> QED
  BY <1>1, <1>3

\* The fate of p stays what it is.
LEMMA FateKept ==
    ASSUME IInv, IInv', NEW p \in Promises,
           promise'[p].state = promise[p].state, promise'[p].value = promise[p].value,
           \A i : <<0, i>> \in Adoption(p) =>
                    <<0, i>> \in Adoption(p)' /\ queue'[i] = queue[i],
           \A q \in Promises : \A i : <<q, i>> \in Adoption(p) =>
                    \E j : <<q, j>> \in Adoption(p)',
           Adoption(p) = {} => Adoption(p)' = {}
    PROVE  FateStep(p)
<1>1. FateShape(p) /\ FateShape(p)'
  BY FateIs, FateIsNext
<1>2. (Born(p)' <=> Born(p)) /\ (Pending(p)' <=> Pending(p))
  BY DEF Born, Pending
<1>3. CASE ~Pending(p)
  <2>1. FateOf(p)' = FateOf(p) /\ FateOf(p).kind # "follows"
    BY <1>1, <1>2, <1>3 DEF FateShape, Fate!Unborn, Fate!SettledAs
  <2> QED
    BY <2>1 DEF FateStep, Fate!Keeps
<1>4. CASE Pending(p) /\ Adoption(p) = {}
  <2>1. FateOf(p)' = FateOf(p) /\ FateOf(p).kind # "follows"
    BY <1>1, <1>2, <1>4 DEF FateShape, Fate!Open
  <2> QED
    BY <2>1 DEF FateStep, Fate!Keeps
<1>5. CASE Pending(p) /\ Adoption(p) # {}
  <2>1. PICK q, i : <<q, i>> \in Adoption(p) /\ q \in Promises \cup {0}
    BY <1>1, <1>5 DEF FateShape
  <2>2. CASE q = 0
    <3>1. FateOf(p)' = FateOf(p) /\ FateOf(p).kind # "follows"
      BY <1>1, <1>2, <1>5, <2>1, <2>2 DEF FateShape, Fate!Destined
    <3> QED
      BY <3>1 DEF FateStep, Fate!Keeps
  <2>3. CASE q \in Promises
    <3>1. PICK j : <<q, j>> \in Adoption(p)'
      BY <2>1, <2>3
    <3>2. /\ FateOf(p) = Fate!Follows(q) /\ FateOf(p)' = Fate!Follows(q)
          /\ Pending(q)'
      BY <1>1, <1>2, <1>5, <2>1, <2>3, <3>1 DEF FateShape
    <3>3. Fates'[q].kind # "settled"
      BY <2>3, <3>2, SettledFates
    <3>4. FateOf(p).of = q
      BY <3>2 DEF Fate!Follows
    <3> QED
      BY <3>2, <3>3, <3>4 DEF FateStep, Fate!Keeps
  <2> QED
    BY <2>1, <2>2, <2>3
<1> QED
  BY <1>3, <1>4, <1>5

\* Without a flush, places and jobs stay.
LEMMA QuietAdoption ==
    ASSUME IInv, CursorMoves, NEW p \in Promises, ~Taken({AdoptReaction(p)}),
           \/ Still
           \/ \E q \in Promises, r \in Reaction : r # AdoptReaction(p) /\ AddsToList(q, r)
           \/ \E r \in Reaction : r # AdoptReaction(p) /\ AddsToQueue(r)
    PROVE  /\ Adoption(p)' = Adoption(p)
           /\ \A i : <<0, i>> \in Adoption(p) => queue'[i] = queue[i]
<1>1. PromiseTypes /\ QueueTypes
  BY DEF IInv, Types
<1>2. Later({AdoptReaction(p)}) = Adoption(p)
  BY <1>1, TakenIff DEF Adoption
<1>3. Adoption(p)' = Later({AdoptReaction(p)})
  <2>1. CASE Still
    BY <2>1, StillPlaces DEF Adoption
  <2>2. ASSUME NEW q \in Promises, NEW r \in Reaction, r # AdoptReaction(p), AddsToList(q, r)
        PROVE  Adoption(p)' = Later({AdoptReaction(p)})
    <3>1. r \notin {AdoptReaction(p)}
      BY <2>2
    <3> QED
      BY <1>1, <2>2, <3>1, AddsToListPlaces DEF Adoption
  <2>3. ASSUME NEW r \in Reaction, r # AdoptReaction(p), AddsToQueue(r)
        PROVE  Adoption(p)' = Later({AdoptReaction(p)})
    <3>1. r \notin {AdoptReaction(p)}
      BY <2>3
    <3> QED
      BY <1>1, <2>3, <3>1, AddsToQueuePlaces DEF Adoption
  <2> QED
    BY <2>1, <2>2, <2>3
<1>4. ASSUME NEW i, <<0, i>> \in Adoption(p) PROVE queue'[i] = queue[i]
  <2>1. i \in DOMAIN queue /\ queue \in Seq(Job)
    BY <1>1, <1>4, AdoptionParts DEF AdoptionJobs, Waiting, QueueTypes
  <2>2. queue' = queue \/ \E j : queue' = Append(queue, j)
    BY DEF Still, AddsToList, AddsToQueue
  <2> QED
    BY <2>1, <2>2
<1> QED
  BY <1>2, <1>3, <1>4

\* A queue that is dropped held no adoption.
LEMMA DropsAdoption ==
    ASSUME IInv, Drops, NEW p \in Promises
    PROVE  /\ Adoption(p)' = Adoption(p)
           /\ \A i : <<0, i>> \notin Adoption(p)
<1>1. QueueTypes
  BY DEF IInv, Types
<1>2. AdoptionJobs(p) = {}
  BY <1>1 DEF Drops, AdoptionJobs, Waiting, QueueTypes
<1>3. \A i : <<0, i>> \notin Adoption(p)
  BY <1>2, AdoptionParts
<1>4. ASSUME NEW a, NEW b PROVE <<a, b>> \in Adoption(p)' <=> <<a, b>> \in Adoption(p)
  <2>1. <<a, b>> \in PlacesIn(Reactions', queue', cursor', {AdoptReaction(p)}) <=>
          \/ a = 0 /\ b \in DOMAIN queue' /\ b > cursor' /\ queue'[b].reaction \in {AdoptReaction(p)}
          \/ a \in Promises /\ b \in DOMAIN Reactions'[a] /\ Reactions'[a][b] \in {AdoptReaction(p)}
    BY PlaceIff
  <2>2. <<a, b>> \in PlacesIn(Reactions, queue, cursor, {AdoptReaction(p)}) <=>
          \/ a = 0 /\ b \in DOMAIN queue /\ b > cursor /\ queue[b].reaction \in {AdoptReaction(p)}
          \/ a \in Promises /\ b \in DOMAIN Reactions[a] /\ Reactions[a][b] \in {AdoptReaction(p)}
    BY PlaceIff
  <2>3. DOMAIN queue' = {} /\ Reactions' = Reactions
    BY DEF Drops
  <2>4. a = 0 => <<a, b>> \notin Adoption(p)
    BY <1>3
  <2> QED
    BY <2>1, <2>2, <2>3, <2>4 DEF Adoption, Places
<1>5. /\ \A w \in Adoption(p) : w = <<w[1], w[2]>>
      /\ \A w \in Adoption(p)' : w = <<w[1], w[2]>>
  BY PlaceIff DEF Adoption, Places
<1>6. Adoption(p)' = Adoption(p)
  <2>1. \A w : w \in Adoption(p)' <=> w \in Adoption(p)
    BY <1>4, <1>5
  <2> QED
    BY <2>1
<1> QED
  BY <1>3, <1>6

LEMMA QuietFate ==
    ASSUME IInv, IInv', Quiet, NEW p \in Promises
    PROVE  FateStep(p)
<1>1. /\ Adoption(p)' = Adoption(p)
      /\ \A i : <<0, i>> \in Adoption(p) => queue'[i] = queue[i]
  <2>1. CASE Drops
    BY <2>1, DropsAdoption
  <2>2. CASE CursorMoves /\ NoAdoption /\ (Still \/ AddsOther)
    <3>1. ~Taken({AdoptReaction(p)})
      BY <2>2 DEF NoAdoption
    <3>2. \/ Still
          \/ \E q \in Promises, r \in Reaction : r # AdoptReaction(p) /\ AddsToList(q, r)
          \/ \E r \in Reaction : r # AdoptReaction(p) /\ AddsToQueue(r)
      <4>1. \A r : r.kind # "adopt" => r # AdoptReaction(p)
        BY DEF AdoptReaction
      <4> QED
        BY <2>2, <4>1 DEF AddsOther
    <3> QED
      BY <2>2, <3>1, <3>2, QuietAdoption
  <2> QED
    BY <2>1, <2>2 DEF Quiet
<1>2. CASE promise'[p].state = promise[p].state /\ promise'[p].value = promise[p].value
  BY <1>1, <1>2, FateKept
<1>3. CASE ~Born(p) /\ Pending(p)'
  <2>1. FateShape(p) /\ FateShape(p)'
    BY FateIs, FateIsNext
  <2>2. Adoption(p) = {}
    BY <1>3, <2>1 DEF FateShape, Born, Pending
  <2>3. FateOf(p) = Fate!Unborn /\ FateOf(p)' = Fate!Open
    BY <1>1, <1>3, <2>1, <2>2 DEF FateShape
  <2> QED
    BY <2>3 DEF FateStep, Fate!Decides
<1> QED
  BY <1>2, <1>3 DEF Quiet, OutcomesStay

\* A promise is settled: its fate was open, or it was this outcome.
LEMMA FollowersTakeOver ==
    ASSUME IInv, IInv', CursorMoves, NEW p \in Promises, Pending(p),
           NEW state \in States, NEW value \in Directs,
           promise' = Settled(p, state, value), queue' = Flushed(p, state, value),
           NEW q \in Promises, q # p, ~Taken({AdoptReaction(q)})
    PROVE  FateStep(q)
<1>1. PromiseTypes /\ QueueTypes
  BY DEF IInv, Types
<1>2. /\ promise'[p] = [state |-> state, value |-> value, reactions |-> <<>>]
      /\ \A x \in Promises : x # p => promise'[x] = promise[x]
  BY <1>1 DEF PromiseTypes, Settled
<1>3. /\ Reactions \in Lists /\ Reactions[p] = promise[p].reactions
      /\ \A x \in Promises : x # p => Reactions'[x] = Reactions[x]
  BY <1>1, <1>2, ReactionsType DEF Reactions
<1>4. /\ queue \in Seq(Job) /\ Reactions[p] \in Seq(Reaction)
      /\ queue' = FlushedIn(queue, Reactions[p], state, value)
  BY <1>1, <1>3 DEF QueueTypes, Lists, Flushed, FlushedIn
<1>5. /\ Len(queue') = Len(queue) + Len(Reactions[p])
      /\ queue' \in Seq(Job)
      /\ \A i \in 1 .. Len(queue) : queue'[i] = queue[i]
      /\ \A i \in 1 .. Len(Reactions[p]) :
            queue'[Len(queue) + i] = ReactionJob(Reactions[p][i], state, value)
  <2> DEFINE jobs == FlushedIn(queue, Reactions[p], state, value)
  <2>1. /\ Len(jobs) = Len(queue) + Len(Reactions[p])
        /\ jobs \in Seq(Job)
        /\ \A i \in 1 .. Len(queue) : jobs[i] = queue[i]
        /\ \A i \in 1 .. Len(Reactions[p]) :
              jobs[Len(queue) + i] = ReactionJob(Reactions[p][i], state, value)
    BY <1>4, FlushedJobs
  <2>2. queue' = jobs
    BY <1>4
  <2> HIDE DEF jobs
  <2> QED
    BY <2>1, <2>2
<1>6. Later({AdoptReaction(q)}) = Adoption(q)
  BY <1>1, TakenIff DEF Adoption
<1>7. FateShape(q) /\ FateShape(q)' /\ FateShape(p)'
  BY FateIs, FateIsNext
<1>8. promise'[q].state = promise[q].state /\ promise'[q].value = promise[q].value
  BY <1>2
<1>9. ASSUME NEW i, <<0, i>> \in Adoption(q)
      PROVE  <<0, i>> \in Adoption(q)' /\ queue'[i] = queue[i]
  <2>1. i \in DOMAIN queue /\ i > cursor' /\ queue[i].reaction = AdoptReaction(q)
    BY <1>6, <1>9, PlaceIff, PromisesAssumption DEF Later
  <2>2. i \in DOMAIN queue' /\ queue'[i] = queue[i]
    BY <1>4, <1>5, <2>1
  <2>3. <<0, i>> \in PlacesIn(Reactions', queue', cursor', {AdoptReaction(q)})
    BY <2>1, <2>2, PlaceIff
  <2> QED
    BY <2>2, <2>3 DEF Adoption, Places
<1>10. ASSUME NEW a \in Promises, NEW i, a # p, <<a, i>> \in Adoption(q)
       PROVE  <<a, i>> \in Adoption(q)'
  <2>1. i \in DOMAIN Reactions'[a] /\ Reactions'[a][i] = AdoptReaction(q)
    BY <1>3, <1>10, AdoptionParts
  <2>2. <<a, i>> \in PlacesIn(Reactions', queue', cursor', {AdoptReaction(q)})
    BY <2>1, PlaceIff
  <2> QED
    BY <2>2 DEF Adoption, Places
<1>11. CASE \E i : <<p, i>> \in Adoption(q)
  <2>1. PICK i : <<p, i>> \in Adoption(q)
    BY <1>11
  <2>2. i \in 1 .. Len(Reactions[p]) /\ Reactions[p][i] = AdoptReaction(q)
    BY <1>4, <2>1, AdoptionParts
  <2>3. PICK j \in Nat : j = Len(queue) + i
    BY <1>4, <2>2
  <2>4. queue'[j] = ReactionJob(AdoptReaction(q), state, value) /\ j \in DOMAIN queue'
    BY <1>4, <1>5, <2>2, <2>3
  <2>5. /\ queue'[j].reaction = AdoptReaction(q)
        /\ queue'[j].state = state /\ queue'[j].value = value
    BY <2>4, JobParts
  <2>6. j > cursor'
    BY <1>1, <1>4, <2>2, <2>3 DEF CursorMoves, QueueTypes
  <2>7. <<0, j>> \in Adoption(q)'
    <3>1. <<0, j>> \in PlacesIn(Reactions', queue', cursor', {AdoptReaction(q)})
      BY <2>4, <2>5, <2>6, PlaceIff
    <3> QED
      BY <3>1 DEF Adoption, Places
  <2>8. Pending(q) /\ Pending(q)'
    BY <1>7, <1>8, <2>1 DEF FateShape, Pending
  <2>9. FateOf(q) = Fate!Follows(p) /\ FateOf(q)' = Fate!Destined(state, value)
    <3>1. FateOf(q)' = Fate!Destined(queue'[j].state, queue'[j].value)
      BY <1>7, <2>7, <2>8 DEF FateShape
    <3>2. FateOf(q) = Fate!Follows(p)
      BY <1>7, <2>1, <2>8 DEF FateShape
    <3> QED
      BY <3>1, <3>2, <2>5
  <2>10. Fates'[p] = Fate!SettledAs(state, value)
    <3>1. Born(p)' /\ ~Pending(p)' /\ promise'[p].state = state /\ promise'[p].value = value
      BY <1>2 DEF Born, Pending, States
    <3>2. FateOf(p)' = Fate!SettledAs(state, value)
      BY <1>7, <3>1 DEF FateShape
    <3> QED
      BY <3>2, SettledFates
  <2> QED
    BY <2>9, <2>10 DEF FateStep, Fate!TakesOver, Fate!Follows, Fate!SettledAs, Fate!Destined
<1>12. CASE \A i : <<p, i>> \notin Adoption(q)
  <2>1. ASSUME Adoption(q) = {} PROVE Adoption(q)' = {}
    <3>1. Settles(p, stack')
      BY DEF Settles
    <3>2. Flushes(p)
      BY <1>1, <3>1, SettlesEffect
    <3>3. Carries({AdoptReaction(q)})
      BY <1>1, <3>2, FlushesPlaces
    <3> QED
      BY <1>6, <2>1, <3>3 DEF Carries, Adoption
  <2>2. \A a \in Promises : \A i : <<a, i>> \in Adoption(q) => \E j : <<a, j>> \in Adoption(q)'
    BY <1>10, <1>12
  <2> QED
    BY <1>8, <1>9, <2>1, <2>2, FateKept
<1> QED
  BY <1>11, <1>12

LEMMA DecidedFates ==
    ASSUME IInv, IInv', NEW p \in Promises, Decided(p), NEW q \in Promises
    PROVE  FateStep(q)
<1>1. PromiseTypes /\ QueueTypes
  BY DEF IInv, Types
<1>2. CursorMoves /\ Adoption(p) = {} /\ Pending(p) /\ \A x \in Promises : ~Taken({AdoptReaction(x)})
  BY DEF Decided, NoAdoption, Settles, Follows
<1>3. FateShape(p) /\ FateShape(p)'
  BY FateIs, FateIsNext
<1>4. FateOf(p) = Fate!Open
  BY <1>2, <1>3 DEF FateShape
<1>5. CASE Settles(p, stack')
  <2>1. PICK state \in States, value \in Directs :
          promise' = Settled(p, state, value) /\ queue' = Flushed(p, state, value)
    BY <1>5 DEF Settles
  <2>2. CASE q # p
    BY <1>2, <2>1, <2>2, FollowersTakeOver
  <2>3. CASE q = p
    <3>1. promise'[p].state = state /\ promise'[p].value = value
      BY <1>1, <2>1 DEF PromiseTypes, Settled
    <3>2. FateOf(p)' = Fate!SettledAs(state, value)
      BY <1>3, <3>1 DEF FateShape, Born, Pending, States
    <3> QED
      BY <1>4, <2>3, <3>2 DEF FateStep, Fate!Decides, Fate!SettledAs
  <2> QED
    BY <2>2, <2>3
<1>6. CASE Follows(p, stack')
  <2>1. PICK a \in Promises :
          /\ promise' = [promise EXCEPT ![a].reactions = Append(@, AdoptReaction(p))]
          /\ queue' = queue
    BY <1>6 DEF Follows
  <2>2. AdoptReaction(p) \in Reaction
    BY Owners
  <2>3. AddsToList(a, AdoptReaction(p))
    BY <1>1, <2>1, <2>2, ListAppended DEF AddsToList
  <2>4. \A x \in Promises :
          promise'[x].state = promise[x].state /\ promise'[x].value = promise[x].value
    BY <1>1, <2>1, ListedOutcomes
  <2>5. CASE q # p
    <3>1. AdoptReaction(p) # AdoptReaction(q)
      <4>1. AdoptReaction(p).promise = p /\ AdoptReaction(q).promise = q
        BY DEF AdoptReaction
      <4> QED
        BY <2>5, <4>1
    <3>2. /\ Adoption(q)' = Adoption(q)
          /\ \A i : <<0, i>> \in Adoption(q) => queue'[i] = queue[i]
      BY <1>2, <2>2, <2>3, <3>1, QuietAdoption
    <3> QED
      BY <2>4, <3>2, FateKept
  <2>6. CASE q = p
    <3>1. Pending(p)'
      BY <1>2, <2>4 DEF Pending
    <3>2. Reactions \in Lists /\ Reactions' = Listed(Reactions, a, AdoptReaction(p))
      BY <1>1, <2>3, ReactionsType DEF AddsToList
    <3>3. /\ Reactions'[a] = Append(Reactions[a], AdoptReaction(p))
          /\ Reactions[a] \in Seq(Reaction)
      BY <3>2 DEF Lists, Listed
    <3>4. PICK i : i = Len(Reactions[a]) + 1
      OBVIOUS
    <3>5. i \in DOMAIN Reactions'[a] /\ Reactions'[a][i] = AdoptReaction(p)
      BY <2>2, <3>3, <3>4
    <3>6. <<a, i>> \in Adoption(p)'
      <4>1. <<a, i>> \in PlacesIn(Reactions', queue', cursor', {AdoptReaction(p)})
        BY <3>5, PlaceIff
      <4> QED
        BY <4>1 DEF Adoption, Places
    <3>7. FateOf(p)' = Fate!Follows(a)
      BY <1>3, <3>1, <3>6 DEF FateShape
    <3> QED
      BY <1>4, <2>6, <3>7 DEF FateStep, Fate!Decides, Fate!Follows
  <2> QED
    BY <2>5, <2>6
<1> QED
  BY <1>5, <1>6 DEF Decided

LEMMA ArrivedFates ==
    ASSUME IInv, IInv', NEW p \in Promises, Arrived(p), NEW q \in Promises
    PROVE  FateStep(q)
<1>1. PromiseTypes /\ QueueTypes
  BY DEF IInv, Types
<1>2. /\ CursorMoves /\ Pending(p) /\ cursor' = cursor + 1
      /\ queue[cursor + 1].reaction = AdoptReaction(p)
  BY DEF Arrived, Taken
<1>3. PICK state \in States, value \in Directs :
        state = queue[cursor + 1].state /\ value = queue[cursor + 1].value
  BY <1>1, <1>2, JobTaken DEF CursorMoves, QueueTypes
<1>4. promise' = Settled(p, state, value) /\ queue' = Flushed(p, state, value)
  BY <1>3 DEF Arrived
<1>5. CASE q # p
  <2>1. AdoptReaction(p).promise = p /\ AdoptReaction(q).promise = q
    BY DEF AdoptReaction
  <2>2. ~Taken({AdoptReaction(q)})
    BY <1>2, <1>5, <2>1 DEF Taken
  <2> QED
    BY <1>2, <1>4, <1>5, <2>2, FollowersTakeOver
<1>6. CASE q = p
  <2>1. FateShape(p) /\ FateShape(p)'
    BY FateIs, FateIsNext
  <2>2. cursor + 1 \in AdoptionJobs(p)
    BY <1>1, <1>2 DEF AdoptionJobs, Waiting, CursorMoves, QueueTypes
  <2>3. <<0, cursor + 1>> \in Adoption(p)
    BY <2>2, AdoptionParts
  <2>4. FateOf(p) = Fate!Destined(state, value)
    BY <1>2, <1>3, <2>1, <2>3 DEF FateShape
  <2>5. promise'[p].state = state /\ promise'[p].value = value
    BY <1>1, <1>4 DEF PromiseTypes, Settled
  <2>6. FateOf(p)' = Fate!SettledAs(state, value)
    BY <2>1, <2>5 DEF FateShape, Born, Pending, States
  <2> QED
    BY <1>6, <2>4, <2>6 DEF FateStep, Fate!Completes, Fate!Destined, Fate!SettledAs
<1> QED
  BY <1>5, <1>6

\* A promise that was resolved with another one takes over that promise's
\* outcome and no other.
THEOREM ImplementsFate == Spec => FollowsItsFate
<1>1. Init => Fate!Init
  <2> SUFFICES ASSUME Init PROVE Fate!Init
    OBVIOUS
  <2>1. \A p \in Promises : ~Born(p)
    BY DEF Init, Born
  <2>2. \A p \in Promises : FateOf(p) = Fate!Unborn
    BY <2>1, InitHolds, FateIs DEF FateShape
  <2>3. Fates = [p \in Promises |-> Fate!Unborn]
    BY <2>2 DEF Fates
  <2> QED
    BY <2>3 DEF Fate!Init, Fates, FateOf
<1>2. ASSUME IInv, IInv', [Next]_vars PROVE Fate!Next
  <2>1. \A q \in Promises : FateStep(q)
    BY <1>2, StepEffect, QuietFate, DecidedFates, ArrivedFates DEF Effect
  <2> QED
    BY <2>1, FateNext
<1> QED
  BY <1>1, <1>2, Invariance, PTL DEF Spec, FollowsItsFate, Fate!Spec
===============================================================================
