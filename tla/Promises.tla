------------------------------- MODULE Promises -------------------------------
(***************************************************************************)
(* Promises, the microtask queue and async functions.                      *)
(*                                                                         *)
(* A promise is settled through its resolving functions (a pair that       *)
(* shares one already-resolved record), by adopting another promise, by a  *)
(* job that calls a foreign `then`, or by the coroutine of an async        *)
(* function.  All of it happens on one thread, but user code runs in the   *)
(* middle of the engine's work (an executor, a handler, a foreign `then`,  *)
(* a getter for "then") and may there do anything a script can do,         *)
(* draining the queue included: the stack records who is in the middle of  *)
(* what.                                                                   *)
(***************************************************************************)
EXTENDS Integers, Sequences, SequencesExt, FiniteSetsExt

CONSTANTS
    Promises,     \* promise records, allocated in increasing order
    Plain,        \* values without a `then` method
    Thenables,    \* objects, not promises, with a getter for "then"
    Coroutines,   \* calls of async functions
    TypeError,    \* the reason the engine itself rejects with
    Undefined,
    MaxPairs,     \* bound on the pairs of resolving functions
    MaxDepth,     \* bound on the nesting of user code and drains
    MaxQueue,     \* bound on the queue beyond which nothing is awaited
    MaxEvals,     \* bound on the scripts the host evaluates
    Poisonable    \* whether a promise's `constructor` may be a throwing getter

ASSUME PromisesAssumption ==
    /\ Promises \subseteq Nat \ {0}
    /\ Promises \cap (Plain \cup Thenables \cup {TypeError, Undefined}) = {}
    /\ {MaxPairs, MaxDepth, MaxQueue, MaxEvals} \subseteq Nat
    /\ Poisonable \in BOOLEAN

VARIABLES
    promise,      \* PromiseData of each record: state, value, reactions
    pairs,        \* the pairs made by newResolverPair, in order
    queue,        \* microtasks
    cursor,       \* drain_cursor: the jobs already taken from the queue
    draining,     \* whether a drain is active
    stack,        \* the calls in progress, the innermost one last
    co,           \* the coroutine of each async call, with the VM that made it
    evals         \* the scripts evaluated so far

vars == <<promise, pairs, queue, cursor, draining, stack, co, evals>>

-----------------------------------------------------------------------------

States == {"fulfilled", "rejected"}

Born(p) == promise[p].state # "none"

Pending(p) == promise[p].state = "pending"

\* What user code can pass to a resolving function, return, throw or await.
Values == Plain \cup Thenables \cup {p \in Promises : Born(p)}

\* The reason of a rejection is never looked at: a plain one stands for all.
Reasons == Plain

Fresh(p) == ~Born(p) /\ \A q \in Promises : q < p => Born(q)

PendingPromise == [state |-> "pending", value |-> Undefined, reactions |-> <<>>]

\* A call of `then`: which handlers are callable, the pair that settles its
\* result and the promise it was called on.
ThenReaction(k, f, r) == [kind |-> "then", pair |-> k, f |-> f, r |-> r]

\* The handler-less reaction by which p takes over another promise's outcome.
AdoptReaction(p) == [kind |-> "adopt", promise |-> p]

\* The continuation of an await.
AwaitReaction(c) == [kind |-> "await", co |-> c]

ReactionJob(reaction, state, value) ==
    [reaction |-> reaction, state |-> state, value |-> value]

\* A PromiseResolveThenableJob.
ThenableJob(p) == [reaction |-> [kind |-> "thenable", promise |-> p],
                   state |-> "fulfilled", value |-> Undefined]

Waiting == {i \in DOMAIN queue : i > cursor}

Top == Last(stack)

Below == Front(stack)

\* User code is running: the innermost call is not a drain.
UserCode == stack # <<>> /\ Top.kind # "drain"

CanCall == Len(stack) < MaxDepth

\* A pair can still be made, those of the waiting thenable jobs counted.
CanPair ==
    Len(pairs) + Cardinality({i \in Waiting : queue[i].reaction.kind = "thenable"})
        < MaxPairs

-----------------------------------------------------------------------------
(* Settling.  Each operator fixes promise', queue' and stack', the last     *)
(* one from st, the stack the operation returns to.                         *)

\* Slip: the reactions of a settled promise are not cleared.
SettledKeeps(p, state, value) ==
    [promise EXCEPT ![p] = [state |-> state, value |-> value, reactions |-> promise[p].reactions]]

Settled(p, state, value) ==
    [promise EXCEPT ![p] = [state |-> state, value |-> value, reactions |-> <<>>]]

\* Slip: the reactions are flushed last first.
FlushedReversed(p, state, value) ==
    queue \o [i \in DOMAIN promise[p].reactions |->
                 ReactionJob(Reverse(promise[p].reactions)[i], state, value)]

\* Slip: the last reaction is not flushed.
FlushedShort(p, state, value) ==
    queue \o [i \in 1 .. (Len(promise[p].reactions) - 1) |->
                 ReactionJob(promise[p].reactions[i], state, value)]

Flushed(p, state, value) ==
    queue \o [i \in DOMAIN promise[p].reactions |->
                 ReactionJob(promise[p].reactions[i], state, value)]

\* settlePromise, then flushReactions.
Settle(p, state, value, st) ==
    /\ stack' = st
    /\ IF Pending(p)
       THEN /\ promise' = Settled(p, state, value)
            /\ queue' = Flushed(p, state, value)
       ELSE UNCHANGED <<promise, queue>>

\* Adoption of a promise by its record, without calling its `then`.
Adopt(p, q, st) ==
    IF Pending(q)
    THEN /\ promise' = [promise EXCEPT ![q].reactions = Append(@, AdoptReaction(p))]
         /\ stack' = st
         /\ UNCHANGED queue
    ELSE Settle(p, promise[q].state, promise[q].value, st)

\* promiseResolveData.  Reading "then" of a thenable runs its getter.
ResolveData(p, v, st) ==
    \/ /\ ~Pending(p)
       /\ stack' = st /\ UNCHANGED <<promise, queue>>
    \/ /\ Pending(p) /\ v = p
       /\ Settle(p, "rejected", TypeError, st)
    \/ /\ Pending(p) /\ v \in Promises \ {p}
       /\ Adopt(p, v, st)
    \/ /\ Pending(p) /\ v \in Thenables
       /\ stack' = Append(st, [kind |-> "getter", promise |-> p, value |-> v])
       /\ UNCHANGED <<promise, queue>>
    \/ /\ Pending(p) /\ v \notin Promises \cup Thenables
       /\ Settle(p, "fulfilled", v, st)

\* promiseRejectData.
RejectData(p, v, st) == Settle(p, "rejected", v, st)

\* Slip: the already-resolved record is not set.
MarkNothing(k) == pairs

MarkResolved(k) == [pairs EXCEPT ![k].already = TRUE]

\* Slip: the record is consulted by the resolve function only.
CallResolverSplit(k, resolve, v, st) ==
    IF resolve /\ pairs[k].already
    THEN stack' = st /\ UNCHANGED <<promise, queue, pairs>>
    ELSE /\ pairs' = MarkResolved(k)
         /\ IF resolve
            THEN ResolveData(pairs[k].promise, v, st)
            ELSE RejectData(pairs[k].promise, v, st)

\* nativePromiseResolver: the pair works once, whichever function is called.
CallResolver(k, resolve, v, st) ==
    IF pairs[k].already
    THEN stack' = st /\ UNCHANGED <<promise, queue, pairs>>
    ELSE /\ pairs' = MarkResolved(k)
         /\ IF resolve
            THEN ResolveData(pairs[k].promise, v, st)
            ELSE RejectData(pairs[k].promise, v, st)

NewPair(p, source) ==
    [promise |-> p, source |-> source, already |-> FALSE, ran |-> 0]

-----------------------------------------------------------------------------
(* What user code can do.                                                   *)

\* nativePromiseCtor: the executor runs at once.
Construct ==
    /\ UserCode /\ CanCall /\ CanPair
    /\ \E p \in Promises :
          /\ Fresh(p)
          /\ promise' = [promise EXCEPT ![p] = PendingPromise]
          /\ pairs' = Append(pairs, NewPair(p, 0))
          /\ stack' = Append(stack, [kind |-> "executor", pair |-> Len(pairs) + 1])
    /\ UNCHANGED <<queue, cursor, draining, co, evals>>

\* A resolving function is called.
Resolver ==
    /\ UserCode
    /\ \E k \in DOMAIN pairs :
          \/ \E v \in Values : /\ v \in Thenables => CanCall
                              /\ CallResolver(k, TRUE, v, stack)
          \/ \E v \in Reasons : CallResolver(k, FALSE, v, stack)
    /\ UNCHANGED <<cursor, draining, co, evals>>

\* nativePromiseThen with an intrinsic constructor, also behind catch.
Then ==
    /\ UserCode /\ CanPair
    /\ \E p, q \in Promises, f, r \in BOOLEAN :
          LET reaction == ThenReaction(Len(pairs) + 1, f, r)
              born == [promise EXCEPT ![q] = PendingPromise]
          IN  /\ Born(p) /\ Fresh(q)
              /\ pairs' = Append(pairs, NewPair(q, p))
              /\ IF Pending(p)
                 THEN /\ promise' = [born EXCEPT ![p].reactions = Append(@, reaction)]
                      /\ UNCHANGED queue
                 ELSE /\ promise' = born
                      /\ queue' = Append(queue,
                             ReactionJob(reaction, promise[p].state, promise[p].value))
    /\ UNCHANGED <<cursor, draining, stack, co, evals>>

\* buildAsyncFunction: the body runs up to its first await.
CallAsync ==
    /\ UserCode /\ CanCall
    /\ \E c \in Coroutines, p \in Promises :
          /\ co[c].state = "idle" /\ Fresh(p)
          /\ promise' = [promise EXCEPT ![p] = PendingPromise]
          /\ co' = [co EXCEPT ![c] = [state |-> "running", result |-> p, vm |-> evals]]
          /\ stack' = Append(stack, [kind |-> "coroutine", co |-> c])
    /\ UNCHANGED <<pairs, queue, cursor, draining, evals>>

\* __runMicrotasks__, or the evaluation of a deferred module.
Drain ==
    /\ UserCode /\ Len(stack) + 1 < MaxDepth      \* room for the jobs' calls
    /\ stack' = Append(stack, [kind |-> "drain", outermost |-> ~draining])
    /\ draining' = TRUE
    /\ UNCHANGED <<promise, pairs, queue, cursor, co, evals>>

\* driveAsync, yielded: subscribeAwait(v), the coroutine is left suspended. An
\* await of a foreign thenable is left out: it is a promise resolved with it.
Await ==
    /\ UserCode /\ Top.kind = "coroutine" /\ Len(queue) < MaxQueue
    /\ \E v \in Values \ Thenables :
          /\ IF v \in Promises /\ Pending(v)
             THEN /\ promise' = [promise EXCEPT ![v].reactions =
                                    Append(@, AwaitReaction(Top.co))]
                  /\ UNCHANGED queue
             ELSE /\ queue' = Append(queue,
                         IF v \in Promises
                         THEN ReactionJob(AwaitReaction(Top.co),
                                          promise[v].state, promise[v].value)
                         ELSE ReactionJob(AwaitReaction(Top.co), "fulfilled", v))
                  /\ UNCHANGED promise
    /\ co' = [co EXCEPT ![Top.co].state = "suspended"]
    /\ stack' = Below
    /\ UNCHANGED <<pairs, cursor, draining, evals>>

\* The same, when reading `constructor` of the awaited promise throws: the
\* error leaves driveAsync before anything is subscribed.
AwaitPoisoned ==
    /\ Poisonable
    /\ UserCode /\ Top.kind = "coroutine"
    /\ \E p \in Promises : Born(p)
    /\ co' = [co EXCEPT ![Top.co].state = "suspended"]
    /\ stack' = Below
    /\ UNCHANGED <<promise, pairs, queue, cursor, draining, evals>>

\* The script ends, by an error too, and its jobs are drained.
ScriptEnds ==
    /\ Top.kind = "script"
    /\ stack' = <<[kind |-> "drain", outermost |-> ~draining]>>
    /\ draining' = TRUE
    /\ UNCHANGED <<promise, pairs, queue, co>>

\* What an executor or a foreign `then` returns is not looked at.
CalleeReturns ==
    /\ Top.kind \in {"executor", "thenable"}
    /\ stack' = Below
    /\ UNCHANGED <<promise, pairs, queue, draining, co>>

\* The result of a handler resolves the promise that `then` returned.
HandlerReturns ==
    /\ Top.kind = "handler"
    /\ \E v \in Values : CallResolver(Top.pair, TRUE, v, Below)
    /\ UNCHANGED <<draining, co>>

CoroutineReturns ==
    /\ Top.kind = "coroutine"
    /\ co' = [co EXCEPT ![Top.co].state = "done"]
    /\ \E v \in Values : ResolveData(co[Top.co].result, v, Below)
    /\ UNCHANGED <<pairs, draining>>

\* The getter for "then" returns something callable, or not.
GetterReturns ==
    /\ Top.kind = "getter"
    /\ \/ /\ CanPair
          /\ queue' = Append(queue, ThenableJob(Top.promise))
          /\ stack' = Below
          /\ UNCHANGED promise
       \/ Settle(Top.promise, "fulfilled", Top.value, Below)
    /\ UNCHANGED <<pairs, draining, co>>

\* The innermost user code returns.
Return ==
    /\ UserCode
    /\ \/ ScriptEnds \/ CalleeReturns \/ HandlerReturns
       \/ CoroutineReturns \/ GetterReturns
    /\ UNCHANGED <<cursor, evals>>

\* An executor, a foreign `then` or a handler throws v: its pair rejects,
\* unless it was used.
CalleeThrows(v) ==
    /\ Top.kind \in {"executor", "thenable", "handler"}
    /\ CallResolver(Top.pair, FALSE, v, Below)
    /\ UNCHANGED <<draining, co>>

CoroutineThrows(v) ==
    /\ Top.kind = "coroutine"
    /\ co' = [co EXCEPT ![Top.co].state = "done"]
    /\ RejectData(co[Top.co].result, v, Below)
    /\ UNCHANGED <<pairs, draining>>

GetterThrows(v) ==
    /\ Top.kind = "getter"
    /\ RejectData(Top.promise, v, Below)
    /\ UNCHANGED <<pairs, draining, co>>

\* The innermost user code throws and does not catch it.
Throw ==
    /\ UserCode
    /\ \/ ScriptEnds
       \/ \E v \in Reasons : CalleeThrows(v) \/ CoroutineThrows(v) \/ GetterThrows(v)
    /\ UNCHANGED <<cursor, evals>>

UserStep ==
    \/ Construct \/ Resolver \/ Then \/ CallAsync \/ Drain
    \/ Await \/ AwaitPoisoned \/ Return \/ Throw

-----------------------------------------------------------------------------
(* Draining the queue: runMicrotasks and runReactionJob.                    *)

\* assimilateThenable: a fresh pair, and the foreign `then` is called.
RunThenable(job) ==
    /\ CanCall
    /\ pairs' = Append(pairs, NewPair(job.reaction.promise, 0))
    /\ stack' = Append(stack, [kind |-> "thenable", pair |-> Len(pairs) + 1])
    /\ UNCHANGED <<promise, queue, co>>

Handled(job) == IF job.state = "fulfilled" THEN job.reaction.f ELSE job.reaction.r

Ran(k) == [pairs EXCEPT ![k].ran = @ + 1]

\* A reaction of `then`: its handler is called, or the outcome passes through.
RunThen(job) ==
    LET k == job.reaction.pair IN
    \/ /\ Handled(job) /\ CanCall
       /\ pairs' = Ran(k)
       /\ stack' = Append(stack, [kind |-> "handler", pair |-> k])
       /\ UNCHANGED <<promise, queue, co>>
    \/ /\ ~Handled(job)
       /\ IF pairs[k].already
          THEN pairs' = Ran(k) /\ UNCHANGED <<promise, queue, stack>>
          ELSE /\ pairs' = [Ran(k) EXCEPT ![k].already = TRUE]
               /\ IF job.state = "fulfilled"
                  THEN ResolveData(pairs[k].promise, job.value, stack)
                  ELSE RejectData(pairs[k].promise, job.value, stack)
       /\ UNCHANGED co

\* Slip: an adopting promise does not flush its own reactions.
RunAdoptSilently(job) ==
    /\ promise' = [promise EXCEPT ![job.reaction.promise].state = job.state,
                                  ![job.reaction.promise].value = job.value]
    /\ UNCHANGED <<pairs, co, queue, stack>>

RunAdopt(job) ==
    /\ Settle(job.reaction.promise, job.state, job.value, stack)
    /\ UNCHANGED <<pairs, co>>

\* asyncOnFulfill, asyncOnReject: runSuspendable refuses a coroutine that is
\* already running and a finished one, and driveAsync settles its result.
RunAwait(job) ==
    LET c == job.reaction.co IN
    /\ \/ /\ co[c].state = "suspended" /\ CanCall
          /\ co' = [co EXCEPT ![c].state = "running"]
          /\ stack' = Append(stack, [kind |-> "coroutine", co |-> c])
          /\ UNCHANGED <<promise, queue>>
       \/ /\ co[c].state = "running"
          /\ RejectData(co[c].result, TypeError, stack) /\ UNCHANGED co
       \/ /\ co[c].state \notin {"suspended", "running"}
          /\ IF job.state = "fulfilled"
             THEN ResolveData(co[c].result, Undefined, stack)
             ELSE RejectData(co[c].result, job.value, stack)
          /\ UNCHANGED co
    /\ UNCHANGED pairs

\* The next job is taken from the queue before it runs.
RunJob ==
    /\ stack # <<>> /\ Top.kind = "drain"
    /\ cursor < Len(queue)
    /\ cursor' = cursor + 1
    /\ LET job == queue[cursor + 1] IN
          \/ job.reaction.kind = "thenable" /\ RunThenable(job)
          \/ job.reaction.kind = "then" /\ RunThen(job)
          \/ job.reaction.kind = "adopt" /\ RunAdopt(job)
          \/ job.reaction.kind = "await" /\ RunAwait(job)
    /\ UNCHANGED <<draining, evals>>

\* Slip: the cursor survives the queue.
EndDrainKeepsCursor ==
    /\ stack # <<>> /\ Top.kind = "drain"
    /\ cursor = Len(queue)
    /\ stack' = Below
    /\ IF Top.outermost
       THEN queue' = <<>> /\ draining' = FALSE /\ UNCHANGED cursor
       ELSE UNCHANGED <<queue, cursor, draining>>
    /\ UNCHANGED <<promise, pairs, co, evals>>

\* Nothing is left: only the outermost drain clears the queue.
EndDrain ==
    /\ stack # <<>> /\ Top.kind = "drain"
    /\ cursor = Len(queue)
    /\ stack' = Below
    /\ IF Top.outermost
       THEN queue' = <<>> /\ cursor' = 0 /\ draining' = FALSE
       ELSE UNCHANGED <<queue, cursor, draining>>
    /\ UNCHANGED <<promise, pairs, co, evals>>

\* The host evaluates a script, which starts from an empty queue.
Eval ==
    /\ stack = <<>> /\ evals < MaxEvals
    /\ queue' = <<>> /\ cursor' = 0 /\ draining' = FALSE
    /\ stack' = <<[kind |-> "script"]>>
    /\ evals' = evals + 1
    /\ UNCHANGED <<promise, pairs, co>>

-----------------------------------------------------------------------------

Init ==
    /\ promise = [p \in Promises |-> [state |-> "none", value |-> Undefined,
                                      reactions |-> <<>>]]
    /\ pairs = <<>>
    /\ queue = <<>> /\ cursor = 0 /\ draining = FALSE
    /\ stack = <<>>
    /\ co = [c \in Coroutines |-> [state |-> "idle", result |-> 0, vm |-> 0]]
    /\ evals = 0

Next == UserStep \/ RunJob \/ EndDrain \/ Eval

Spec == Init /\ [][Next]_vars

\* Every call of user code ends, and the engine goes on draining.
FairSpec == Spec /\ WF_vars(Return) /\ WF_vars(RunJob) /\ WF_vars(EndDrain)

-----------------------------------------------------------------------------
(* Properties.                                                              *)

Outcomes == Plain \cup Thenables \cup Promises \cup {TypeError, Undefined}

\* Every variable has its type, and what a pair or a coroutine refers to exists.
TypeOK ==
    /\ \A p \in Promises :
          /\ promise[p].state \in {"none", "pending"} \cup States
          /\ promise[p].value \in Outcomes
          /\ Born(p) \/ promise[p].reactions = <<>>
    /\ \A k \in DOMAIN pairs :
          /\ pairs[k].promise \in Promises /\ Born(pairs[k].promise)
          /\ pairs[k].source \in Promises \cup {0}
    /\ cursor \in 0 .. Len(queue)
    /\ draining \in BOOLEAN
    /\ \A c \in Coroutines : co[c].state # "idle" => Born(co[c].result)

\* Every way promise p can still be settled: an unused pair, a job or a
\* reaction that adopts, a getter in the middle of a resolution, a coroutine.
Ways(p) ==
    {<<"pair", k>> : k \in {k \in DOMAIN pairs :
                              pairs[k].promise = p /\ ~pairs[k].already}}
    \cup {<<"job", i>> : i \in {i \in Waiting :
             /\ queue[i].reaction.kind \in {"adopt", "thenable"}
             /\ queue[i].reaction.promise = p}}
    \cup {<<"getter", i>> : i \in {i \in DOMAIN stack :
             stack[i].kind = "getter" /\ stack[i].promise = p}}
    \cup {<<"coroutine", c>> : c \in {c \in Coroutines :
             co[c].state \in {"running", "suspended"} /\ co[c].result = p}}
    \cup UNION {{<<"reaction", q, i>> : i \in {i \in DOMAIN promise[q].reactions :
             promise[q].reactions[i] = AdoptReaction(p)}} : q \in Promises}

\* A pending promise has exactly one way left to be settled, and a settled one
\* none: whatever is called twice, or from inside a getter, settles nothing.
OneWayToSettle ==
    \A p \in Promises : Cardinality(Ways(p)) = IF Pending(p) THEN 1 ELSE 0

Reactions == [q \in Promises |-> promise[q].reactions]

\* Where a reaction of the given kind for x, a pair or a coroutine, waits.
PlacesOfThen(k) ==
    {<<"queue", i>> : i \in {i \in Waiting :
         queue[i].reaction.kind = "then" /\ queue[i].reaction.pair = k}}
    \cup UNION {{<<"list", q, i>> : i \in {i \in DOMAIN Reactions[q] :
         Reactions[q][i].kind = "then" /\ Reactions[q][i].pair = k}} : q \in Promises}

PlacesOfAwait(c) ==
    {<<"queue", i>> : i \in {i \in Waiting : queue[i].reaction = AwaitReaction(c)}}
    \cup UNION {{<<"list", q, i>> : i \in {i \in DOMAIN Reactions[q] :
         Reactions[q][i] = AwaitReaction(c)}} : q \in Promises}

ThenPairs == {k \in DOMAIN pairs : pairs[k].source # 0}

\* A reaction registered by `then` is in one place until it has run, and runs
\* once; it waits in the list of its promise exactly while that is pending.
ReactionsRunOnce ==
    /\ \A k \in ThenPairs : pairs[k].ran + Cardinality(PlacesOfThen(k)) = 1
    /\ \A p \in Promises : ~Pending(p) => Reactions[p] = <<>>

\* The reactions of one promise start in the order of their registration,
\* also when a handler drains the queue.
ReactionsInOrder ==
    \A j, k \in ThenPairs :
        j < k /\ pairs[j].source = pairs[k].source /\ pairs[k].ran > 0
            => pairs[j].ran > 0

\* A suspended coroutine has exactly one continuation waiting, a coroutine
\* that runs or has ended has none: none is resumed twice, none is forgotten.
AwaitsAreResumed ==
    \A c \in Coroutines :
        Cardinality(PlacesOfAwait(c)) = IF co[c].state = "suspended" THEN 1 ELSE 0

\* A coroutine runs on the VM that made it, which lives as long as the
\* evaluation of its script.
ResumedOnItsVm ==
    \A c \in Coroutines : co[c].state = "running" => co[c].vm = evals

\* When the engine is idle, nothing that could run is left: the queue is empty
\* and whatever waits does so for a promise that is still pending.
IdleIsDrained ==
    stack = <<>> =>
        /\ queue = <<>> /\ ~draining
        /\ \A k \in ThenPairs : pairs[k].ran = 0 => Pending(pairs[k].source)
        /\ \A c \in Coroutines : co[c].state # "running"

\* Every reaction of a settled promise runs.
ReactionsServed ==
    \A k \in 1 .. MaxPairs :
        (k \in ThenPairs /\ ~Pending(pairs[k].source))
            ~> (k \in ThenPairs /\ pairs[k].ran > 0)

\* The outcome promise p takes over when its adoption job runs.
AdoptionJobs(p) == {i \in Waiting : queue[i].reaction = AdoptReaction(p)}

Followed(p) ==
    {q \in Promises : \E i \in DOMAIN Reactions[q] : Reactions[q][i] = AdoptReaction(p)}

Fate == INSTANCE PromiseFate WITH
    fate <- [p \in Promises |->
        CASE ~Born(p) -> [kind |-> "unborn"]
          [] promise[p].state \in States ->
                [kind |-> "settled", state |-> promise[p].state, value |-> promise[p].value]
          [] Pending(p) /\ AdoptionJobs(p) # {} ->
                LET job == queue[Min(AdoptionJobs(p))]
                IN  [kind |-> "destined", state |-> job.state, value |-> job.value]
          [] Pending(p) /\ AdoptionJobs(p) = {} /\ Followed(p) # {} ->
                [kind |-> "follows", of |-> Min(Followed(p))]
          [] OTHER -> [kind |-> "open"]]

\* A promise that was resolved with another one takes over that promise's
\* outcome, whatever the resolving functions are called with afterwards.
FollowsItsFate == Fate!Spec

=============================================================================
