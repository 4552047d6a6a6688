--------------------------- MODULE AsyncGenerators ----------------------------
(***************************************************************************)
(* One async generator object and its consumers.                           *)
(*                                                                         *)
(* The body is a coroutine (BcGeneratorState) that runs until it yields,   *)
(* awaits or ends.  The object keeps a queue of requests (AsyncGenCtx):    *)
(* next, throw and return append to it and answer with a promise, and one  *)
(* request at a time is in flight, across every await of the body.  The    *)
(* natives that drive it call each other in tail position, so `step` is    *)
(* the call in progress; user code runs in the middle of four of them, and *)
(* may there make further requests.                                        *)
(***************************************************************************)
EXTENDS Naturals, Sequences

CONSTANTS
    MaxRequests,  \* bound on the requests made
    MaxStops,     \* bound on the times the body stops before it ends
    Poisonable,   \* the awaits whose operand may have a throwing `constructor`
    Body,         \* any value or error that the body makes
    Undefined

Requests == 1..MaxRequests
Kinds == {"next", "throw", "return"}
Waits == {"await", "unwrap", "finish"}

ASSUME AsyncGeneratorsAssumption ==
    /\ MaxRequests \in Nat
    /\ MaxStops \in Nat
    /\ Poisonable \subseteq Waits
    /\ Body \notin Nat /\ Undefined \notin Nat

VARIABLES
    request,      \* the kind of every request made so far
    queue,        \* AsyncGenCtx.queue: the requests not yet started
    running,      \* AsyncGenCtx.running: a request is in flight
    current,      \* AsyncGenCtx.cur_promise: the request in flight, or the last
    answer,       \* what the promise of each request was settled with
    waits,        \* the continuations registered on awaited promises
    done,         \* BcGeneratorState.done
    executing,    \* BcGeneratorState.executing
    lastAwait,    \* BcGeneratorState.last_suspend_await
    atUserYield,  \* BcGeneratorState.at_user_yield
    place,        \* BcGeneratorState.frame: where the body stands
    completion,   \* the return value whose completion the body unwinds with, or 0
    stops,        \* the times the body has stopped
    step,         \* the call in progress
    caller,       \* the request whose own call is on the stack, or 0
    thrown        \* the requests whose call threw instead of returning

object == <<request, queue, running, current, answer, waits>>
coroutine == <<done, executing, lastAwait, atUserYield, place, completion, stops>>
vars == <<object, coroutine, step, caller, thrown>>

-----------------------------------------------------------------------------

(* Values.  The argument of a request is named by the request.               *)

Values == Requests \cup {Body, Undefined}

NoAnswer == [value |-> Undefined, final |-> FALSE, error |-> TRUE]

Answers == [value : Values, final : BOOLEAN, error : {FALSE}]
             \cup [value : Values, final : {TRUE}, error : {TRUE}]

\* ResumeKind: a return is a throw of the return completion.
Resumption == [kind : Kinds, value : Values]

Resume(kind, value) == [kind |-> kind, value |-> value]

(* The calls.                                                                *)

Idle == [fn |-> "idle"]
Pump == [fn |-> "pump"]
Running == [fn |-> "body"]
Stopped == [fn |-> "stopped"]
Drive(how) == [fn |-> "drive", how |-> how]
Complete(value, final, error) ==
    [fn |-> "complete",
     answer |-> [value |-> value, final |-> final, error |-> error]]
Subscribe(on, of) == [fn |-> "subscribe", on |-> on, of |-> of]

Continuations == [on : Waits, of : Values]

Steps ==
    {Idle, Pump, Running, Stopped}
      \cup [fn : {"drive"}, how : Resumption]
      \cup [fn : {"complete"}, answer : Answers]
      \cup [fn : {"subscribe"}, on : Waits, of : Values]

\* User code runs at the top level and in the body, and as a getter: of
\* `constructor` while a value is awaited, of `then` while one is answered.
UserCodeMayRun == step.fn \in {"idle", "body", "subscribe", "complete"}

Return == step' = Idle /\ caller' = 0

-----------------------------------------------------------------------------

Init ==
    /\ request = <<>>
    /\ queue = <<>>
    /\ running = FALSE
    /\ current = 0
    /\ answer = [r \in Requests |-> NoAnswer]
    /\ waits = {}
    /\ done = FALSE
    /\ executing = FALSE
    /\ lastAwait = FALSE
    /\ atUserYield = FALSE
    /\ place = "start"
    /\ completion = 0
    /\ stops = 0
    /\ step = Idle
    /\ caller = 0
    /\ thrown = {}

(* The three methods.                                                        *)

\* A request is queued; the pump that follows returns at once when another
\* request is in flight.
Enqueue(kind) ==
    /\ UserCodeMayRun
    /\ Len(request) < MaxRequests
    /\ request' = Append(request, kind)
    /\ queue' = Append(queue, Len(request) + 1)
    /\ IF running
       THEN UNCHANGED <<step, caller>>
       ELSE step' = Pump /\ caller' = Len(request) + 1
    /\ UNCHANGED <<running, current, answer, waits, coroutine, thrown>>

(* The pump.                                                                 *)

NothingToStart ==
    /\ step = Pump
    /\ queue = <<>>
    /\ Return
    /\ UNCHANGED <<object, coroutine, thrown>>

\* Slip: the promise settled is that of the latest request.
StartTheLatest ==
    /\ step = Pump
    /\ queue # <<>>
    /\ current' = queue[Len(queue)]
    /\ queue' = Tail(queue)
    /\ running' = TRUE
    /\ UNCHANGED <<request, answer, waits, caller, thrown>>

Start ==
    /\ step = Pump
    /\ queue # <<>>
    /\ current' = Head(queue)
    /\ queue' = Tail(queue)
    /\ running' = TRUE
    /\ UNCHANGED <<request, answer, waits, caller, thrown>>

KindOfFirst == request[Head(queue)]

\* At a yield the argument of return is awaited before the body unwinds.
StartReturnAtYield ==
    /\ Start
    /\ KindOfFirst = "return"
    /\ ~done /\ atUserYield
    /\ step' = Subscribe("unwrap", Head(queue))
    /\ UNCHANGED coroutine

\* Slip: the coroutine is not marked done.
StartReturnOpen ==
    /\ Start
    /\ KindOfFirst = "return"
    /\ done \/ ~atUserYield
    /\ step' = Subscribe("finish", Head(queue))
    /\ UNCHANGED coroutine

\* Elsewhere it is awaited too, but the body does not run any more.
StartReturn ==
    /\ Start
    /\ KindOfFirst = "return"
    /\ done \/ ~atUserYield
    /\ done' = TRUE
    /\ step' = Subscribe("finish", Head(queue))
    /\ UNCHANGED <<executing, lastAwait, atUserYield, place, completion, stops>>

StartFinished ==
    /\ Start
    /\ KindOfFirst # "return"
    /\ done
    /\ step' = IF KindOfFirst = "next"
               THEN Complete(Undefined, TRUE, FALSE)
               ELSE Complete(Head(queue), TRUE, TRUE)
    /\ UNCHANGED coroutine

StartDriving ==
    /\ Start
    /\ KindOfFirst # "return"
    /\ ~done
    /\ step' = Drive(Resume(KindOfFirst, Head(queue)))
    /\ UNCHANGED coroutine

StartNext ==
    StartReturnAtYield \/ StartReturn \/ StartFinished \/ StartDriving

(* Driving the coroutine: runSuspendable, and what its outcome leads to.     *)

\* What runSuspendable gives when it does not run the body at all: the body
\* has ended, or is running and asked to resume itself.
Refusal(how) ==
    CASE executing -> Complete(Body, TRUE, TRUE)
      [] ~executing /\ how.kind = "next" -> Complete(Undefined, TRUE, FALSE)
      [] ~executing /\ how.kind # "next" ->
             Complete(how.value, TRUE, how.kind = "throw")

\* A throw, or a return completion, that finds no handler where the body
\* stands ends it on the spot.  No try statement encloses the start.
Escapes(how) ==
    /\ done' = TRUE
    /\ place' = "end"
    /\ completion' = 0
    /\ step' = Complete(how.value, TRUE, how.kind = "throw")
    /\ UNCHANGED executing

\* Slip: any error is taken for a return completion.
EntersReturning(how) ==
    /\ how.kind # "next" => place # "start"
    /\ executing' = TRUE
    /\ place' = "running"
    /\ completion' = IF how.kind # "next" THEN how.value ELSE completion
    /\ step' = Running
    /\ UNCHANGED done

Enters(how) ==
    /\ how.kind # "next" => place # "start"
    /\ executing' = TRUE
    /\ place' = "running"
    /\ completion' = IF how.kind = "return" THEN how.value ELSE completion
    /\ step' = Running
    /\ UNCHANGED done

ResumeBody ==
    /\ step.fn = "drive"
    /\ IF done \/ executing
       THEN /\ step' = Refusal(step.how)
            /\ done' = (done \/ Refusal(step.how).answer.error)
            /\ UNCHANGED <<executing, place, completion>>
       ELSE \/ step.how.kind # "next" /\ Escapes(step.how)
            \/ Enters(step.how)
    /\ UNCHANGED <<object, lastAwait, atUserYield, stops, caller, thrown>>

(* The body.  A finally block may stop, drop the return completion or end    *)
(* the body otherwise, and passes the completion on when it does neither.    *)

Stops ==
    /\ step = Running
    /\ stops < MaxStops
    /\ stops' = stops + 1
    /\ executing' = FALSE
    /\ step' = Stopped
    /\ \E kept \in {0, completion} : completion' = kept
    /\ UNCHANGED <<object, done, caller, thrown>>

\* Slip: the flag of an earlier await is left set.
BodyYieldsQuietly ==
    /\ Stops
    /\ atUserYield' = TRUE
    /\ place' = "yield"
    /\ UNCHANGED lastAwait

BodyYields ==
    /\ Stops
    /\ lastAwait' = FALSE
    /\ atUserYield' = TRUE
    /\ place' = "yield"

BodyAwaits ==
    /\ Stops
    /\ lastAwait' = TRUE
    /\ place' = "await"
    /\ UNCHANGED atUserYield

\* Slip: the coroutine is not marked done.
EndsUnmarked(call) ==
    /\ step = Running
    /\ executing' = FALSE
    /\ place' = "end"
    /\ completion' = 0
    /\ step' = call
    /\ UNCHANGED <<object, done, lastAwait, atUserYield, stops, caller, thrown>>

Ends(call) ==
    /\ step = Running
    /\ executing' = FALSE
    /\ done' = TRUE
    /\ place' = "end"
    /\ completion' = 0
    /\ step' = call
    /\ UNCHANGED <<object, lastAwait, atUserYield, stops, caller, thrown>>

BodyReturns == Ends(Complete(Body, TRUE, FALSE))

BodyThrows == Ends(Complete(Body, TRUE, TRUE))

BodyPassesTheReturnOn ==
    /\ completion # 0
    /\ Ends(Complete(completion, TRUE, FALSE))

BodyRuns ==
    BodyYields \/ BodyAwaits \/ BodyReturns \/ BodyThrows \/ BodyPassesTheReturnOn

\* driveAsyncGen tells a yield from an await by the flag of the last stop.
AfterStop ==
    /\ step = Stopped
    /\ step' = IF lastAwait THEN Subscribe("await", Body)
                            ELSE Complete(Body, FALSE, FALSE)
    /\ UNCHANGED <<object, coroutine, caller, thrown>>

(* Awaiting.                                                                 *)

Subscribes ==
    /\ step.fn = "subscribe"
    /\ waits' = waits \cup {[on |-> step.on, of |-> step.of]}
    /\ Return
    /\ UNCHANGED <<request, queue, running, current, answer, coroutine, thrown>>

\* The operand is a promise whose `constructor` throws.  The two awaits of
\* return turn the error into an answer; that of the body lets it escape
\* through the call at the bottom of the stack.
SubscribeFails ==
    /\ step.fn = "subscribe"
    /\ step.on \in Poisonable
    /\ CASE step.on = "unwrap" ->
              step' = Drive(Resume("throw", step.of)) /\ UNCHANGED <<caller, thrown>>
         [] step.on = "finish" ->
              step' = Complete(step.of, TRUE, TRUE) /\ UNCHANGED <<caller, thrown>>
         [] step.on = "await" ->
              Return /\ thrown' = thrown \cup ({caller} \ {0})
    /\ UNCHANGED <<object, coroutine>>

\* A job runs the continuation of an awaited promise that was settled.
Continue ==
    /\ step = Idle
    /\ \E w \in waits :
          /\ waits' = waits \ {w}
          /\ CASE w.on = "await" ->
                    \E kind \in {"next", "throw"} : step' = Drive(Resume(kind, w.of))
               [] w.on = "unwrap" ->
                    \E kind \in {"return", "throw"} : step' = Drive(Resume(kind, w.of))
               [] w.on = "finish" ->
                    \E error \in BOOLEAN : step' = Complete(w.of, TRUE, error)
    /\ UNCHANGED <<request, queue, running, current, answer, coroutine, caller, thrown>>

(* Answering.  A promise that is settled already stays as it is.             *)

\* Slip: the request stays in flight after its answer.
CompleteInFlight ==
    /\ step.fn = "complete"
    /\ answer' = IF answer[current] = NoAnswer
                 THEN [answer EXCEPT ![current] = step.answer]
                 ELSE answer
    /\ step' = Pump
    /\ UNCHANGED <<request, queue, running, current, waits, coroutine, caller, thrown>>

\* Slip: the next request is not started.
CompleteAndStop ==
    /\ step.fn = "complete"
    /\ answer' = IF answer[current] = NoAnswer
                 THEN [answer EXCEPT ![current] = step.answer]
                 ELSE answer
    /\ running' = FALSE
    /\ Return
    /\ UNCHANGED <<request, queue, current, waits, coroutine, thrown>>

CompleteRequest ==
    /\ step.fn = "complete"
    /\ answer' = IF answer[current] = NoAnswer
                 THEN [answer EXCEPT ![current] = step.answer]
                 ELSE answer
    /\ running' = FALSE
    /\ step' = Pump
    /\ UNCHANGED <<request, queue, current, waits, coroutine, caller, thrown>>

-----------------------------------------------------------------------------

Native ==
    \/ NothingToStart
    \/ StartNext
    \/ ResumeBody
    \/ AfterStop
    \/ Subscribes
    \/ SubscribeFails
    \/ CompleteRequest

Progress == Native \/ BodyRuns \/ Continue

Next == (\E kind \in Kinds : Enqueue(kind)) \/ Progress

\* The engine runs to the end what it has begun.  Of the program it is asked
\* that the body does not run for ever without stopping and that an awaited
\* promise is settled.
Spec == Init /\ [][Next]_vars /\ WF_vars(Progress)

-----------------------------------------------------------------------------

ObjectTypes ==
    /\ request \in Seq(Kinds) /\ Len(request) <= MaxRequests
    /\ queue \in Seq(Requests)
    /\ running \in BOOLEAN
    /\ current \in 0..Len(request)
    /\ answer \in [Requests -> Answers \cup {NoAnswer}]
    /\ waits \subseteq Continuations

CoroutineTypes ==
    /\ done \in BOOLEAN /\ executing \in BOOLEAN
    /\ lastAwait \in BOOLEAN /\ atUserYield \in BOOLEAN
    /\ place \in {"start", "yield", "await", "running", "end"}
    /\ completion \in Requests \cup {0}
    /\ stops \in 0..MaxStops

CallTypes ==
    /\ step \in Steps
    /\ caller \in 0..Len(request)
    /\ thrown \subseteq Requests

TypeOK == ObjectTypes /\ CoroutineTypes /\ CallTypes

\* The flags of the coroutine, which are set and never reset, tell where the
\* body stands whenever they are read: at_user_yield by the pump, when no
\* request is in flight, and last_suspend_await when the body has stopped
\* (bc_vm.zig:5175 and 5241).
FlagsTellThePlace ==
    /\ step = Pump /\ ~done => (atUserYield <=> place = "yield")
    /\ step = Stopped => (lastAwait <=> place = "await")
    /\ executing <=> place = "running"

\* A request in flight has exactly one thing left that will answer it: the
\* call in progress or one registered continuation.  So the body is never
\* resumed while it runs, nor a request started over another one.
OneHolder ==
    /\ running =>
         /\ step = Idle => waits # {}
         /\ step # Idle => waits = {}
         /\ step # Pump
         /\ \A v, w \in waits : v = w
         /\ answer[current] = NoAnswer
    /\ ~running => waits = {} /\ step \in {Idle, Pump}
    /\ step.fn = "drive" => ~executing

\* Nobody gets the value of another's request, except that a return whose
\* finally block yields is answered by that yield, and its value by a later
\* request (the completion lives on in the body, bc_vm.zig:5705).
ValuesReachTheirOwners ==
    \A r, q \in Requests :
        answer[r] # NoAnswer /\ answer[r].value = q /\ q # r =>
            q < r /\ request[q] = "return" /\ ~answer[q].final

\* A body that has ended never runs again, nor one that a return has closed
\* before its first instruction, whatever is requested or settled later.
EndedIsEnded ==
    [][done \/ place = "end" => done' /\ ~executing']_vars

\* Each request is answered once and in the order of the calls, and finally
\* if and only if the generator has finished.
Served == Len(request) - Len(queue) - (IF running THEN 1 ELSE 0)

Queue == INSTANCE RequestQueue WITH
    Answer <- Answers, asked <- Len(request), served <- Served, closed <- done

ServesInOrder == Queue!Spec

\* No request waits for ever, whatever is requested meanwhile and whichever
\* awaits of returned values fail.
NobodyWaits ==
    \A r \in Requests : r <= Len(request) ~> answer[r] # NoAnswer

\* "Enqueue a request and (if idle) start pumping; always returns the
\* request's promise immediately" (bc_vm.zig:5611).
CallsReturnPromises == thrown = {}

=============================================================================
