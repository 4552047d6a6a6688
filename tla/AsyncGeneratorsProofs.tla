------------------------ MODULE AsyncGeneratorsProofs -------------------------
(***************************************************************************)
(* An async generator serves its requests in order, once each, finally if  *)
(* and only if it has finished, for any number of requests and stops and   *)
(* whichever awaits fail: proofs of the safety properties of               *)
(* AsyncGenerators and of the safety part of its refinement.               *)
(***************************************************************************)
EXTENDS AsyncGenerators, TLAPS

-----------------------------------------------------------------------------

(* The inductive invariant.                                                  *)

\* The body stands where a consumer's request may find it.
AtRest == place \in {"start", "yield"} /\ (atUserYield <=> place = "yield")

\* What an await of each kind says of the coroutine while it is pending.
Awaits(on, of) ==
    /\ on = "await" => ~done /\ place = "await"
    /\ on = "unwrap" => ~done /\ place = "yield" /\ atUserYield /\ of \in Requests
    /\ on = "finish" => done

\* What the call in progress says of the coroutine.
Calls ==
    /\ step.fn = "drive" =>
         /\ ~done /\ place \in {"start", "yield", "await"}
         /\ step.how.kind = "return" => step.how.value \in Requests
    /\ step.fn = "subscribe" => Awaits(step.on, step.of)
    /\ step.fn = "complete" =>
         /\ step.answer.final <=> done
         /\ ~done => place = "yield" /\ atUserYield
    /\ step.fn = "stopped" =>
         /\ ~done /\ place \in {"yield", "await"}
         /\ lastAwait <=> place = "await"
         /\ place = "yield" => atUserYield

\* Where the body stands.
Stands ==
    /\ executing <=> place = "running"
    /\ executing <=> step.fn = "body"
    /\ executing => ~done
    /\ place = "end" => done
    /\ ~running /\ ~done => AtRest

\* Who holds the request in flight.
Holds ==
    /\ ~running => waits = {} /\ step.fn \in {"idle", "pump"}
    /\ running => step.fn # "pump"
    /\ running /\ step.fn = "idle" => waits # {} \/ "await" \in Poisonable
    /\ running /\ step.fn # "idle" => waits = {}
    /\ \A v, w \in waits : v = w
    /\ \A w \in waits : Awaits(w.on, w.of)

\* How the requests are numbered, and which of them are answered.
Numbers ==
    /\ Served \in 0..Len(request)
    /\ \A i \in 1..Len(queue) : queue[i] = Len(request) - Len(queue) + i
    /\ running => current = Served + 1
    /\ \A r \in Requests : answer[r] = NoAnswer <=> r > Served

\* Whose values are on their way.  The argument of an earlier request lives
\* on only as the completion of a return that its finally block has answered.
Inherited(q) ==
    /\ q <= Served
    /\ request[q] = "return"
    /\ ~answer[q].final

Owned(v) == v \in Requests => v = current

Owners ==
    /\ \A w \in waits : Owned(w.of)
    /\ step.fn = "subscribe" => Owned(step.of)
    /\ step.fn = "drive" => Owned(step.how.value)
    /\ step.fn = "complete" /\ step.answer.value \in Requests =>
           step.answer.value = current \/ Inherited(step.answer.value)
    /\ step.fn = "drive" /\ step.how.kind = "return" =>
           request[current] = "return"
    /\ \A w \in waits : w.on = "unwrap" => request[current] = "return"
    /\ step.fn = "subscribe" /\ step.on = "unwrap" => request[current] = "return"
    /\ completion # 0 /\ ~Inherited(completion) =>
           running /\ completion = current /\ request[current] = "return"
    /\ completion # 0 => ~done /\ place # "start"
    /\ ValuesReachTheirOwners

IInv == TypeOK /\ Calls /\ Stands /\ Holds /\ Numbers /\ Owners
-----------------------------------------------------------------------------

(* Helpers.                                                                  *)

\* The calls are told apart by their function (the records of Steps).
LEMMA StepKinds ==
    /\ Idle.fn = "idle" /\ Pump.fn = "pump"
    /\ Running.fn = "body" /\ Stopped.fn = "stopped"
    /\ \A s \in Steps : s.fn = "idle" => s = Idle
    /\ \A s \in Steps : s.fn = "pump" => s = Pump
    /\ \A s \in Steps : s.fn = "body" => s = Running
    /\ \A s \in Steps : s.fn = "stopped" => s = Stopped
BY DEF Steps, Idle, Pump, Running, Stopped

\* The calls that the natives make are calls (driveAsyncGen, asyncGenComplete
\* and subscribeAwait with their arguments).
LEMMA StepTypes ==
    /\ Idle \in Steps /\ Pump \in Steps /\ Running \in Steps /\ Stopped \in Steps
    /\ \A kind \in Kinds, v \in Values : Drive(Resume(kind, v)) \in Steps
    /\ \A v \in Values : Complete(v, FALSE, FALSE) \in Steps
    /\ \A v \in Values, e \in BOOLEAN : Complete(v, TRUE, e) \in Steps
    /\ \A on \in Waits, v \in Values : Subscribe(on, v) \in Steps
BY DEF Steps, Idle, Pump, Running, Stopped, Drive, Resume, Complete, Subscribe,
       Resumption, Answers

\* An answer is never mistaken for a missing one (a settled promise).
LEMMA AnswersAreAnswers == NoAnswer \notin Answers
BY DEF NoAnswer, Answers

\* And what they are made with.
LEMMA StepParts ==
    /\ \A s \in Steps : s.fn = "drive" => s.how.kind \in Kinds /\ s.how.value \in Values
    /\ \A s \in Steps : s.fn = "complete" => s.answer \in Answers
    /\ \A s \in Steps : s.fn = "subscribe" => s.on \in Waits /\ s.of \in Values
BY DEF Steps, Idle, Pump, Running, Stopped, Resumption

\* What a request is made of (asyncGenEnqueue).
LEMMA RequestTypes ==
    /\ Requests \subseteq Nat /\ Requests \subseteq Values
    /\ Body \in Values /\ Undefined \in Values
    /\ Body \notin Requests /\ Undefined \notin Requests
    /\ 0 \notin Requests
BY AsyncGeneratorsAssumption DEF Requests, Values

\* A number up to that of the latest request is one of a request.
LEMMA NumbersOfRequests ==
    ASSUME TypeOK, NEW r \in Nat, 1 <= r, r <= Len(request)
    PROVE  r \in Requests
BY AsyncGeneratorsAssumption DEF TypeOK, ObjectTypes, Requests

\* The oldest request of a queue that is not empty (orderedRemove(0)).
LEMMA HeadOfQueue ==
    ASSUME TypeOK, Numbers, queue # <<>>
    PROVE  /\ Head(queue) \in Requests
           /\ Head(queue) = Len(request) - Len(queue) + 1
           /\ Head(queue) \in 1..Len(request)
           /\ request[Head(queue)] \in Kinds
           /\ Tail(queue) \in Seq(Requests)
           /\ Len(Tail(queue)) = Len(queue) - 1
           /\ \A i \in 1..Len(Tail(queue)) :
                 Tail(queue)[i] = Len(request) - Len(Tail(queue)) + i
<1>1. Len(queue) \in Nat /\ Len(queue) # 0 /\ Len(request) \in Nat
  BY DEF TypeOK, ObjectTypes
<1>2. Head(queue) = queue[1] /\ Head(queue) \in Requests
  BY <1>1 DEF TypeOK, ObjectTypes
<1>3. queue[1] = Len(request) - Len(queue) + 1
  BY <1>1 DEF Numbers
<1>4. Len(queue) <= Len(request)
  BY <1>1 DEF Numbers, Served, TypeOK, ObjectTypes
<1>5. Head(queue) \in 1..Len(request)
  BY <1>1, <1>2, <1>3, <1>4
<1>6. request[Head(queue)] \in Kinds
  BY <1>5 DEF TypeOK, ObjectTypes
<1>7. Tail(queue) \in Seq(Requests) /\ Len(Tail(queue)) = Len(queue) - 1
  BY <1>1 DEF TypeOK, ObjectTypes
<1>8. \A i \in 1..Len(Tail(queue)) : Tail(queue)[i] = queue[i + 1]
  BY <1>1, <1>7 DEF TypeOK, ObjectTypes
<1>9. \A i \in 1..Len(Tail(queue)) :
         Tail(queue)[i] = Len(request) - Len(Tail(queue)) + i
  BY <1>1, <1>7, <1>8 DEF Numbers
<1> QED
  BY <1>2, <1>3, <1>5, <1>6, <1>7, <1>9

-----------------------------------------------------------------------------

\* Every step keeps the types (the fields of AsyncGenCtx and
\* BcGeneratorState).
LEMMA TypeStep == TypeOK /\ Calls /\ Owners /\ Numbers /\ [Next]_vars => TypeOK'
<1> SUFFICES ASSUME TypeOK, Calls, Owners, Numbers, [Next]_vars PROVE TypeOK'
  OBVIOUS
<1> USE DEF TypeOK
<1>1. ASSUME NEW kind \in Kinds, Enqueue(kind) PROVE TypeOK'
  <2>1. Len(request) + 1 \in Requests
    BY <1>1, NumbersOfRequests, AsyncGeneratorsAssumption
    DEF Enqueue, ObjectTypes, Requests
  <2>2. ObjectTypes'
    <3>1. request' \in Seq(Kinds) /\ Len(request') = Len(request) + 1
      BY <1>1 DEF Enqueue, ObjectTypes
    <3>2. queue' \in Seq(Requests)
      BY <1>1, <2>1 DEF Enqueue, ObjectTypes
    <3>3. Len(request') <= MaxRequests /\ current' \in 0..Len(request')
      BY <1>1, <3>1, AsyncGeneratorsAssumption DEF Enqueue, ObjectTypes
    <3> QED
      BY <1>1, <3>1, <3>2, <3>3 DEF Enqueue, ObjectTypes
  <2>3. CallTypes'
    BY <1>1, StepTypes DEF Enqueue, CallTypes, ObjectTypes
  <2> QED
    BY <1>1, <2>2, <2>3 DEF Enqueue, coroutine, CoroutineTypes
<1>2. CASE NothingToStart
  BY <1>2, StepTypes DEF NothingToStart, Return, object, coroutine, ObjectTypes,
     CoroutineTypes, CallTypes
<1>3. CASE StartNext
  <2>1. Start /\ queue # <<>>
    BY <1>3 DEF StartNext, StartReturnAtYield, StartReturn, StartFinished,
                StartDriving, Start
  <2>2. ObjectTypes'
    BY <2>1, HeadOfQueue DEF Start, ObjectTypes
  <2>3. CoroutineTypes'
    BY <1>3 DEF StartNext, StartReturnAtYield, StartReturn, StartFinished,
                StartDriving, coroutine, CoroutineTypes
  <2>4. step' \in Steps
    <3>1. Head(queue) \in Values /\ KindOfFirst \in Kinds
      BY <2>1, HeadOfQueue, RequestTypes DEF KindOfFirst
    <3> QED
      BY <1>3, <3>1, StepTypes, RequestTypes
      DEF StartNext, StartReturnAtYield, StartReturn, StartFinished, StartDriving,
          Waits
  <2> QED
    BY <2>1, <2>2, <2>3, <2>4 DEF CallTypes, Start
<1>4. CASE ResumeBody
  <2>1. step.how.kind \in Kinds /\ step.how.value \in Values /\ ~done
    BY <1>4, StepParts DEF ResumeBody, CallTypes, Calls
  <2>2. CASE executing
    BY <1>4, <2>1, <2>2, StepTypes, RequestTypes
    DEF ResumeBody, Refusal, object, ObjectTypes, CoroutineTypes, CallTypes, Complete
  <2>3. CASE ~executing /\ Escapes(step.how)
    BY <1>4, <2>1, <2>3, StepTypes
    DEF ResumeBody, Escapes, object, ObjectTypes, CoroutineTypes, CallTypes
  <2>4. CASE ~executing /\ Enters(step.how)
    BY <1>4, <2>1, <2>4, StepTypes
    DEF ResumeBody, Enters, object, ObjectTypes, CoroutineTypes, CallTypes, Calls
  <2> QED
    BY <1>4, <2>1, <2>2, <2>3, <2>4 DEF ResumeBody
<1>5. CASE AfterStop
  BY <1>5, StepTypes, RequestTypes
  DEF AfterStop, object, coroutine, Waits, ObjectTypes, CoroutineTypes, CallTypes
<1>6. CASE Subscribes
  <2>1. [on |-> step.on, of |-> step.of] \in Continuations
    BY <1>6, StepParts DEF Subscribes, CallTypes, Continuations
  <2> QED
    BY <1>6, <2>1, StepTypes
    DEF Subscribes, Return, coroutine, ObjectTypes, CoroutineTypes, CallTypes
<1>7. CASE SubscribeFails
  <2>1. step.on \in Waits /\ step.of \in Values
    BY <1>7, StepParts DEF SubscribeFails, CallTypes
  <2>2. step' \in Steps
    BY <1>7, <2>1, StepTypes DEF SubscribeFails, Waits, Return, Kinds
  <2>3. caller' \in {0, caller} /\ thrown' \in {thrown, thrown \cup ({caller} \ {0})}
    BY <1>7, <2>1 DEF SubscribeFails, Waits, Return
  <2>4. {caller} \ {0} \subseteq Requests
    BY NumbersOfRequests DEF CallTypes, ObjectTypes
  <2> QED
    BY <1>7, <2>2, <2>3, <2>4
    DEF SubscribeFails, object, coroutine, ObjectTypes, CoroutineTypes, CallTypes
<1>8. CASE CompleteRequest
  <2>1. step.answer \in Answers
    BY <1>8, StepParts DEF CompleteRequest, CallTypes
  <2> QED
    BY <1>8, <2>1, StepTypes
    DEF CompleteRequest, coroutine, ObjectTypes, CoroutineTypes, CallTypes
<1>9. CASE BodyRuns
  <2>1. completion \in Requests \cup {0} /\ completion \in Nat
    BY RequestTypes DEF CoroutineTypes
  <2>2. CASE BodyYields \/ BodyAwaits
    <3>1. Stops
      BY <2>2 DEF BodyYields, BodyAwaits
    <3>2. stops' \in 0..MaxStops /\ completion' \in Requests \cup {0}
      BY <3>1, <2>1, AsyncGeneratorsAssumption DEF Stops, CoroutineTypes
    <3>3. ObjectTypes' /\ CallTypes'
      BY <3>1, StepTypes DEF Stops, object, ObjectTypes, CallTypes
    <3>4. CoroutineTypes'
      BY <2>2, <3>1, <3>2 DEF BodyYields, BodyAwaits, Stops, CoroutineTypes
    <3> QED
      BY <3>3, <3>4
  <2>3. CASE BodyReturns \/ BodyThrows \/ BodyPassesTheReturnOn
    BY <2>1, <2>3, StepTypes, RequestTypes
    DEF BodyReturns, BodyThrows, BodyPassesTheReturnOn, Ends, object, ObjectTypes,
        CoroutineTypes, CallTypes
  <2> QED
    BY <1>9, <2>2, <2>3 DEF BodyRuns
<1>10. CASE Continue
  <2>1. PICK w \in waits :
           /\ waits' = waits \ {w}
           /\ CASE w.on = "await" ->
                     \E kind \in {"next", "throw"} : step' = Drive(Resume(kind, w.of))
                [] w.on = "unwrap" ->
                     \E kind \in {"return", "throw"} : step' = Drive(Resume(kind, w.of))
                [] w.on = "finish" ->
                     \E error \in BOOLEAN : step' = Complete(w.of, TRUE, error)
    BY <1>10 DEF Continue
  <2>2. w.on \in Waits /\ w.of \in Values
    BY DEF ObjectTypes, Continuations
  <2>3. step' \in Steps
    BY <2>1, <2>2, StepTypes DEF Waits, Kinds
  <2> QED
    BY <1>10, <2>1, <2>3
    DEF Continue, coroutine, ObjectTypes, CoroutineTypes, CallTypes
<1>11. CASE UNCHANGED vars
  BY <1>11 DEF vars, object, coroutine, ObjectTypes, CoroutineTypes, CallTypes
<1> QED
  BY <1>1, <1>2, <1>3, <1>4, <1>5, <1>6, <1>7, <1>8, <1>9, <1>10, <1>11
  DEF Next, Progress, Native
-----------------------------------------------------------------------------

\* Every step keeps the control part of the invariant: what is in progress,
\* where the body stands, and who holds the request in flight.
LEMMA ControlStep ==
    TypeOK /\ Calls /\ Stands /\ Holds /\ [Next]_vars => Calls' /\ Stands' /\ Holds'
<1> SUFFICES ASSUME TypeOK, Calls, Stands, Holds, [Next]_vars
             PROVE  Calls' /\ Stands' /\ Holds'
  OBVIOUS
<1>0. /\ step \in Steps /\ done \in BOOLEAN /\ executing \in BOOLEAN
      /\ running \in BOOLEAN /\ waits \subseteq Continuations
      /\ completion \in Requests \cup {0}
  BY DEF TypeOK, CallTypes, CoroutineTypes, ObjectTypes
<1>1. ASSUME NEW kind \in Kinds, Enqueue(kind) PROVE Calls' /\ Stands' /\ Holds'
  <2>1. CASE running
    BY <1>1, <2>1 DEF Enqueue, coroutine, Calls, Stands, Holds, Awaits, AtRest
  <2>2. CASE ~running
    BY <1>1, <2>2, StepKinds
    DEF Enqueue, coroutine, Calls, Stands, Holds, Awaits, AtRest, UserCodeMayRun
  <2> QED
    BY <1>0, <2>1, <2>2
<1>2. CASE NothingToStart
  BY <1>2, StepKinds
  DEF NothingToStart, Return, object, coroutine, Calls, Stands, Holds, Awaits, AtRest
<1>3. CASE StartNext
  <2>1. Start /\ step.fn = "pump" /\ ~running /\ waits = {} /\ waits' = {} /\ running'
    BY <1>3, <1>0, StepKinds
    DEF StartNext, StartReturnAtYield, StartReturn, StartFinished, StartDriving,
        Start, Holds
  <2>2. CASE StartReturnAtYield
    <3>1. Head(queue) \in Requests
      BY <2>1 DEF Start, TypeOK, ObjectTypes
    <3> QED
      BY <2>1, <2>2, <3>1
      DEF StartReturnAtYield, coroutine, Subscribe, Calls, Stands, Holds, Awaits, AtRest
  <2>3. CASE StartReturn
    BY <2>1, <2>3 DEF StartReturn, Subscribe, Calls, Stands, Holds, Awaits, AtRest
  <2>4. CASE StartFinished
    BY <2>1, <2>4
    DEF StartFinished, coroutine, Complete, Calls, Stands, Holds, Awaits, AtRest
  <2>5. CASE StartDriving
    BY <2>1, <2>5
    DEF StartDriving, coroutine, Drive, Resume, Calls, Stands, Holds, Awaits, AtRest
  <2> QED
    BY <1>3, <2>2, <2>3, <2>4, <2>5 DEF StartNext
<1>4. CASE ResumeBody
  <2>1. /\ step.fn = "drive" /\ ~done /\ ~executing /\ running /\ waits = {}
        /\ UNCHANGED <<object, lastAwait, atUserYield>>
        /\ Escapes(step.how) \/ Enters(step.how)
    BY <1>0, <1>4 DEF ResumeBody, Calls, Stands, Holds
  <2>2. step.how.kind \in Kinds
    BY <1>0, <2>1, StepParts
  <2>3. CASE Escapes(step.how)
    BY <1>4, <2>1, <2>3
    DEF Escapes, Complete, object, Calls, Stands, Holds, Awaits, AtRest
  <2>4. CASE Enters(step.how)
    BY <1>4, <2>1, <2>4, StepKinds
    DEF Enters, object, Calls, Stands, Holds, Awaits, AtRest
  <2> QED
    BY <2>1, <2>3, <2>4
<1>5. CASE AfterStop
  <2>1. step.fn = "stopped" /\ running /\ waits = {} /\ ~done
    BY <1>0, <1>5, StepKinds DEF AfterStop, Calls, Holds
  <2>2. lastAwait \in BOOLEAN
    BY DEF TypeOK, CoroutineTypes
  <2> QED
    BY <1>5, <2>1, <2>2
    DEF AfterStop, object, coroutine, Complete, Subscribe, Calls, Stands, Holds,
        Awaits, AtRest
<1>6. CASE Subscribes
  <2>1. running /\ waits = {} /\ waits' = {[on |-> step.on, of |-> step.of]}
    BY <1>0, <1>6 DEF Subscribes, Holds
  <2>2. Awaits(step.on, step.of)
    BY <1>6 DEF Subscribes, Calls
  <2> QED
    BY <1>6, <2>1, <2>2, StepKinds
    DEF Subscribes, Return, coroutine, Calls, Stands, Holds, Awaits, AtRest
<1>7. CASE SubscribeFails
  <2>1. running /\ waits = {} /\ step.fn = "subscribe" /\ step.on \in Waits
        /\ Awaits(step.on, step.of) /\ UNCHANGED <<object, coroutine>>
    BY <1>0, <1>7, StepParts DEF SubscribeFails, Holds, Calls
  <2>2. CASE step.on = "unwrap"
    BY <1>7, <2>1, <2>2
    DEF SubscribeFails, object, coroutine, Drive, Resume, Calls, Stands, Holds, Awaits,
        AtRest
  <2>3. CASE step.on = "finish"
    BY <1>7, <2>1, <2>3
    DEF SubscribeFails, object, coroutine, Complete, Calls, Stands, Holds, Awaits, AtRest
  <2>4. CASE step.on = "await"
    BY <1>7, <2>1, <2>4, StepKinds
    DEF SubscribeFails, Return, object, coroutine, Calls, Stands, Holds, Awaits, AtRest
  <2> QED
    BY <2>1, <2>2, <2>3, <2>4 DEF Waits
<1>8. CASE CompleteRequest
  BY <1>0, <1>8, StepKinds
  DEF CompleteRequest, coroutine, Calls, Stands, Holds, Awaits, AtRest
<1>9. CASE BodyRuns
  <2>1. step.fn = "body" /\ running /\ waits = {} /\ ~done /\ waits' = {} /\ running'
    BY <1>0, <1>9, StepKinds
    DEF BodyRuns, BodyYields, BodyAwaits, Stops, BodyReturns, BodyThrows,
        BodyPassesTheReturnOn, Ends, object, Stands, Holds
  <2>2. CASE BodyYields \/ BodyAwaits
    BY <2>1, <2>2, StepKinds
    DEF BodyYields, BodyAwaits, Stops, object, Calls, Stands, Holds, Awaits, AtRest
  <2>3. CASE BodyReturns \/ BodyThrows \/ BodyPassesTheReturnOn
    BY <2>1, <2>3
    DEF BodyReturns, BodyThrows, BodyPassesTheReturnOn, Ends, object, Complete,
        Calls, Stands, Holds, Awaits, AtRest
  <2> QED
    BY <1>9, <2>2, <2>3 DEF BodyRuns
<1>10. CASE Continue
  <2>1. PICK w \in waits :
           /\ waits' = waits \ {w}
           /\ CASE w.on = "await" ->
                     \E kind \in {"next", "throw"} : step' = Drive(Resume(kind, w.of))
                [] w.on = "unwrap" ->
                     \E kind \in {"return", "throw"} : step' = Drive(Resume(kind, w.of))
                [] w.on = "finish" ->
                     \E error \in BOOLEAN : step' = Complete(w.of, TRUE, error)
    BY <1>10 DEF Continue
  <2>2. w.on \in Waits /\ Awaits(w.on, w.of) /\ waits' = {} /\ running
        /\ step.fn = "idle" /\ running' /\ UNCHANGED coroutine
    BY <1>0, <1>10, <2>1, StepKinds DEF Holds, Continuations, Continue
  <2>3. CASE w.on = "await"
    BY <2>1, <2>2, <2>3
    DEF coroutine, Drive, Resume, Calls, Stands, Holds, Awaits, AtRest
  <2>4. CASE w.on = "unwrap"
    BY <2>1, <2>2, <2>4
    DEF coroutine, Drive, Resume, Calls, Stands, Holds, Awaits, AtRest
  <2>5. CASE w.on = "finish"
    BY <2>1, <2>2, <2>5
    DEF coroutine, Complete, Calls, Stands, Holds, Awaits, AtRest
  <2> QED
    BY <2>2, <2>3, <2>4, <2>5 DEF Waits
<1>11. CASE UNCHANGED vars
  BY <1>11 DEF vars, object, coroutine, Calls, Stands, Holds, Awaits, AtRest
<1> QED
  BY <1>1, <1>2, <1>3, <1>4, <1>5, <1>6, <1>7, <1>8, <1>9, <1>10, <1>11
  DEF Next, Progress, Native
-----------------------------------------------------------------------------

\* A step that leaves the requests alone leaves their numbers alone.
LEMMA NumbersUnchanged ==
    Numbers /\ UNCHANGED <<request, queue, running, current, answer>> => Numbers'
BY DEF Numbers, Served

\* Every step keeps the numbering: requests are appended at one end, taken at
\* the other, and answered when they are taken and not before.
LEMMA NumbersStep == TypeOK /\ Holds /\ Numbers /\ [Next]_vars => Numbers'
<1> SUFFICES ASSUME TypeOK, Holds, Numbers, [Next]_vars PROVE Numbers'
  OBVIOUS
<1>0. /\ Len(request) \in Nat /\ Len(queue) \in Nat /\ running \in BOOLEAN
      /\ Requests \subseteq Nat /\ step \in Steps
  BY RequestTypes DEF TypeOK, ObjectTypes, CallTypes
<1>1. ASSUME NEW kind \in Kinds, Enqueue(kind) PROVE Numbers'
  <2>1. Len(request') = Len(request) + 1 /\ Len(queue') = Len(queue) + 1
    BY <1>0, <1>1 DEF Enqueue, TypeOK, ObjectTypes
  <2>2. \A i \in 1..Len(queue) : queue'[i] = queue[i]
    BY <1>0, <1>1 DEF Enqueue, TypeOK, ObjectTypes
  <2>3. queue'[Len(queue) + 1] = Len(request) + 1
    BY <1>0, <1>1 DEF Enqueue, TypeOK, ObjectTypes
  <2>4. \A i \in 1..Len(queue') : queue'[i] = Len(request') - Len(queue') + i
    BY <1>0, <2>1, <2>2, <2>3 DEF Numbers
  <2>5. Served' = Served
    BY <1>0, <1>1, <2>1 DEF Enqueue, Served
  <2> QED
    BY <1>0, <1>1, <2>1, <2>4, <2>5 DEF Enqueue, Numbers
<1>2. CASE StartNext
  <2>1. Start /\ queue # <<>> /\ ~running
    BY <1>2, <1>0, StepKinds
    DEF StartNext, StartReturnAtYield, StartReturn, StartFinished, StartDriving,
        Start, Holds
  <2>2. queue' = Tail(queue) /\ current' = Head(queue) /\ request' = request
        /\ answer' = answer /\ running' = TRUE
    BY <2>1 DEF Start
  <2>3. Len(queue') = Len(queue) - 1
        /\ (\A i \in 1..Len(queue') : queue'[i] = Len(request') - Len(queue') + i)
        /\ current' = Len(request) - Len(queue) + 1
    BY <2>1, <2>2, HeadOfQueue
  <2>4. Served' = Served /\ current' = Served' + 1
    BY <1>0, <2>1, <2>2, <2>3 DEF Served
  <2> QED
    BY <2>2, <2>3, <2>4 DEF Numbers
<1>3. CASE CompleteRequest
  <2>1. running /\ current = Served + 1 /\ current \in Requests
    <3>1. running /\ current = Served + 1
      BY <1>3, <1>0 DEF CompleteRequest, Holds, Numbers
    <3> QED
      BY <1>0, <3>1, NumbersOfRequests DEF Numbers, TypeOK, ObjectTypes
  <2>2. Served' = Served + 1 /\ Len(request') = Len(request) /\ ~running'
    BY <1>0, <1>3, <2>1 DEF CompleteRequest, Served
  <2>3. step.answer \in Answers /\ step.answer # NoAnswer
    BY <1>0, <1>3, StepParts, AnswersAreAnswers DEF CompleteRequest
  <2>4. answer[current] = NoAnswer
    BY <1>0, <2>1 DEF Numbers
  <2>5. answer' = [answer EXCEPT ![current] = step.answer]
    BY <1>3, <2>4 DEF CompleteRequest
  <2>6. \A r \in Requests : answer'[r] = NoAnswer <=> r > Served'
    BY <1>0, <2>1, <2>2, <2>3, <2>5 DEF Numbers, TypeOK, ObjectTypes
  <2>7. Served' \in 0..Len(request')
    BY <1>0, <2>1, <2>2 DEF Numbers, Served
  <2> QED
    BY <1>3, <2>2, <2>6, <2>7 DEF CompleteRequest, Numbers
<1>4. ASSUME \/ NothingToStart \/ ResumeBody \/ AfterStop \/ Subscribes
             \/ SubscribeFails \/ BodyRuns \/ Continue \/ UNCHANGED vars
      PROVE  Numbers'
  <2>1. UNCHANGED <<request, queue, running, current, answer>>
    BY <1>4
    DEF NothingToStart, ResumeBody, AfterStop, Subscribes, SubscribeFails, BodyRuns,
        BodyYields, BodyAwaits, Stops, BodyReturns, BodyThrows, BodyPassesTheReturnOn,
        Ends, Continue, vars, object
  <2> QED
    BY <2>1, NumbersUnchanged
<1> QED
  BY <1>1, <1>2, <1>3, <1>4 DEF Next, Progress, Native

-----------------------------------------------------------------------------

\* A step that leaves requests and answers alone moves no inheritance.
LEMMA InheritedUnchanged ==
    ASSUME UNCHANGED <<request, queue, running, answer>>, NEW q
    PROVE  Inherited(q)' <=> Inherited(q)
BY DEF Inherited, Served

\* Every step keeps values with their owners: the argument of a request goes
\* into the await, the resumption or the answer of that request, and only a
\* return completion outlives it (asyncGenYieldReturnFulfill).
LEMMA OwnersStep ==
    /\ TypeOK /\ Calls /\ Stands /\ Holds /\ Numbers /\ Owners
    /\ Stands' /\ [Next]_vars
    => Owners'
<1> SUFFICES ASSUME TypeOK, Calls, Stands, Holds, Numbers, Owners, Stands', [Next]_vars
             PROVE  Owners'
  OBVIOUS
<1>0. /\ step \in Steps /\ done \in BOOLEAN /\ executing \in BOOLEAN
      /\ running \in BOOLEAN /\ waits \subseteq Continuations
      /\ completion \in Requests \cup {0}
      /\ Len(request) \in Nat /\ Len(queue) \in Nat /\ Requests \subseteq Nat
  BY RequestTypes DEF TypeOK, CallTypes, CoroutineTypes, ObjectTypes
<1>1. ASSUME NEW kind \in Kinds, Enqueue(kind) PROVE Owners'
  <2>1. /\ Len(request') = Len(request) + 1 /\ Len(queue') = Len(queue) + 1
        /\ \A r \in 1..Len(request) : request'[r] = request[r]
    BY <1>0, <1>1 DEF Enqueue, TypeOK, ObjectTypes
  <2>2. Served' = Served
    BY <1>0, <1>1, <2>1 DEF Enqueue, Served
  <2>3. \A q \in Requests : Inherited(q) => Inherited(q)'
    BY <1>0, <1>1, <2>1, <2>2 DEF Enqueue, Inherited, Numbers, Requests
  <2>4. running => current \in 1..Len(request)
    BY <1>0 DEF Numbers, TypeOK, ObjectTypes
  <2>5. \A q \in Requests : answer[q] # NoAnswer => q \in 1..Len(request)
    BY <1>0 DEF Numbers, Requests
  <2>6. ValuesReachTheirOwners'
    BY <1>0, <1>1, <2>1, <2>5
    DEF Enqueue, Owners, ValuesReachTheirOwners, Numbers, Requests
  <2>7. completion # 0 /\ ~Inherited(completion)' =>
            running' /\ completion' = current' /\ request'[current] = "return"
    BY <1>0, <1>1, <2>1, <2>3, <2>4 DEF Enqueue, coroutine, Owners
  <2>8. CASE running
    BY <1>0, <1>1, <2>1, <2>3, <2>4, <2>6, <2>7, <2>8
    DEF Enqueue, coroutine, Owners, Owned
  <2>9. CASE ~running
    BY <1>0, <1>1, <2>3, <2>6, <2>7, <2>9, StepKinds
    DEF Enqueue, coroutine, Owners, Owned, Holds
  <2> QED
    BY <1>0, <2>8, <2>9
<1>2. CASE NothingToStart
  BY <1>2, StepKinds, InheritedUnchanged
  DEF NothingToStart, Return, object, coroutine, Owners, Owned, ValuesReachTheirOwners
<1>3. CASE StartNext
  <2>1. Start /\ queue # <<>> /\ ~running /\ waits' = {}
    BY <1>3, <1>0, StepKinds
    DEF StartNext, StartReturnAtYield, StartReturn, StartFinished, StartDriving,
        Start, Holds
  <2>2. queue' = Tail(queue) /\ current' = Head(queue) /\ request' = request
        /\ answer' = answer /\ running' = TRUE
    BY <2>1 DEF Start
  <2>3. Served' = Served
    BY <1>0, <2>1, <2>2, HeadOfQueue DEF Served
  <2>4. \A q : Inherited(q)' <=> Inherited(q)
    BY <2>2, <2>3 DEF Inherited
  <2>5. completion # 0 => Inherited(completion)
    BY <2>1 DEF Owners
  <2>6. ValuesReachTheirOwners'
    BY <2>2 DEF Owners, ValuesReachTheirOwners
  <2>7. Head(queue) \in Requests
    BY <2>1, HeadOfQueue
  <2>8. CASE StartReturnAtYield
    BY <2>1, <2>2, <2>4, <2>5, <2>6, <2>7, <2>8
    DEF StartReturnAtYield, coroutine, Subscribe, KindOfFirst, Owners, Owned
  <2>9. CASE StartReturn
    <3>1. completion' = 0
      BY <1>0, <2>1, <2>9 DEF StartReturn, Stands, AtRest, Owners
    <3> QED
      BY <2>1, <2>2, <2>4, <2>6, <2>7, <2>9, <3>1
      DEF StartReturn, Subscribe, KindOfFirst, Owners, Owned
  <2>10. CASE StartFinished
    BY <2>1, <2>2, <2>4, <2>5, <2>6, <2>7, <2>10, RequestTypes
    DEF StartFinished, coroutine, Complete, Owners, Owned
  <2>11. CASE StartDriving
    BY <2>1, <2>2, <2>4, <2>5, <2>6, <2>7, <2>11
    DEF StartDriving, coroutine, Drive, Resume, KindOfFirst, Owners, Owned
  <2> QED
    BY <1>3, <2>8, <2>9, <2>10, <2>11 DEF StartNext
<1>4. CASE ResumeBody
  <2>1. /\ step.fn = "drive" /\ ~done /\ running /\ waits = {} /\ waits' = {}
        /\ UNCHANGED object
        /\ Escapes(step.how) \/ Enters(step.how)
    BY <1>0, <1>4 DEF ResumeBody, Calls, Stands, Holds, object
  <2>2. UNCHANGED <<request, queue, running, answer, current>>
    BY <2>1 DEF object
  <2>3. ValuesReachTheirOwners' /\ \A q : Inherited(q)' <=> Inherited(q)
    BY <2>2, InheritedUnchanged DEF Owners, ValuesReachTheirOwners
  <2>4. Owned(step.how.value)
        /\ (step.how.kind = "return" =>
              request[current] = "return" /\ step.how.value \in Requests)
    BY <2>1 DEF Owners, Calls
  <2>5. CASE Escapes(step.how)
    BY <2>1, <2>2, <2>3, <2>4, <2>5 DEF Escapes, Complete, Owners, Owned
  <2>6. CASE Enters(step.how)
    BY <2>1, <2>2, <2>3, <2>4, <2>6, StepKinds DEF Enters, Owners, Owned
  <2> QED
    BY <2>1, <2>5, <2>6
<1>5. CASE AfterStop
  <2>1. waits' = waits /\ UNCHANGED <<request, queue, running, answer, current>>
        /\ UNCHANGED <<completion, done, place>>
    BY <1>5 DEF AfterStop, object, coroutine
  <2>2. ValuesReachTheirOwners' /\ \A q : Inherited(q)' <=> Inherited(q)
    BY <2>1, InheritedUnchanged DEF Owners, ValuesReachTheirOwners
  <2> QED
    BY <1>5, <2>1, <2>2, RequestTypes DEF AfterStop, Complete, Subscribe, Owners, Owned
<1>6. CASE Subscribes
  <2>1. UNCHANGED <<request, queue, running, answer, current>>
        /\ UNCHANGED <<completion, done, place>>
        /\ waits' = waits \cup {[on |-> step.on, of |-> step.of]}
        /\ step' = Idle /\ step.fn = "subscribe"
    BY <1>6 DEF Subscribes, Return, coroutine
  <2>2. ValuesReachTheirOwners' /\ \A q : Inherited(q)' <=> Inherited(q)
    BY <2>1, InheritedUnchanged DEF Owners, ValuesReachTheirOwners
  <2> QED
    BY <2>1, <2>2, StepKinds DEF Owners, Owned
<1>7. CASE SubscribeFails
  <2>1. UNCHANGED <<request, queue, running, answer, current, waits>>
        /\ UNCHANGED <<completion, done, place>> /\ step.fn = "subscribe" /\ step.on \in Waits
    BY <1>0, <1>7, StepParts DEF SubscribeFails, object, coroutine
  <2>2. ValuesReachTheirOwners' /\ \A q : Inherited(q)' <=> Inherited(q)
    BY <2>1, InheritedUnchanged DEF Owners, ValuesReachTheirOwners
  <2>3. step' \in {Drive(Resume("throw", step.of)), Complete(step.of, TRUE, TRUE), Idle}
    BY <1>7, <2>1 DEF SubscribeFails, Waits, Return
  <2> QED
    BY <2>1, <2>2, <2>3, StepKinds DEF Drive, Resume, Complete, Owners, Owned
<1>8. CASE CompleteRequest
  <2>1. running /\ current = Served + 1 /\ current \in Requests /\ waits = {}
    <3>1. running /\ current = Served + 1 /\ waits = {}
      BY <1>8, <1>0 DEF CompleteRequest, Holds, Numbers
    <3> QED
      BY <1>0, <3>1, NumbersOfRequests DEF Numbers, TypeOK, ObjectTypes
  <2>2. Served' = Served + 1 /\ request' = request /\ waits' = {} /\ step' = Pump
        /\ Served \in Nat
    BY <1>0, <1>8, <2>1 DEF CompleteRequest, Served, Numbers
  <2>3. answer' = [answer EXCEPT ![current] = step.answer]
    BY <1>0, <1>8, <2>1 DEF CompleteRequest, Numbers
  <2>4. step.answer.value \in Requests =>
           step.answer.value = current \/ Inherited(step.answer.value)
    BY <1>8 DEF CompleteRequest, Owners
  <2>5. \A q \in Requests : q # current => answer'[q] = answer[q]
    BY <2>3 DEF TypeOK, ObjectTypes
  <2>6. answer'[current] = step.answer
    BY <2>1, <2>3 DEF TypeOK, ObjectTypes
  <2>7. \A q \in Requests : Inherited(q) => Inherited(q)' /\ q < current
    <3> SUFFICES ASSUME NEW q \in Requests, Inherited(q)
                 PROVE  Inherited(q)' /\ q < current
      OBVIOUS
    <3>1. q < current /\ q <= Served'
      BY <1>0, <2>1, <2>2 DEF Inherited
    <3>2. answer'[q] = answer[q]
      BY <1>0, <3>1, <2>1, <2>5
    <3> QED
      BY <2>2, <3>1, <3>2 DEF Inherited
  <2>8. ValuesReachTheirOwners'
    <3> SUFFICES ASSUME NEW r \in Requests, NEW q \in Requests,
                        answer'[r] # NoAnswer, answer'[r].value = q, q # r
                 PROVE  q < r /\ request[q] = "return" /\ ~answer'[q].final
      BY <2>2 DEF ValuesReachTheirOwners
    <3>1. CASE r = current
      BY <2>4, <2>6, <2>7, <3>1, <2>5 DEF Inherited
    <3>2. CASE r # current
      <4>1. answer[r] = answer'[r] /\ answer[r] # NoAnswer
        BY <2>5, <3>2
      <4>2. q < r /\ request[q] = "return" /\ ~answer[q].final
        BY <4>1 DEF Owners, ValuesReachTheirOwners
      <4>3. r <= Served /\ q # current
        BY <1>0, <4>1, <4>2, <2>1, <2>2 DEF Numbers
      <4> QED
        BY <4>2, <4>3, <2>5
    <3> QED
      BY <3>1, <3>2
  <2>9. completion' # 0 => Inherited(completion)' /\ ~done' /\ place' # "start"
    <3>0. completion' = completion /\ current' = current /\ done' = done /\ place' = place
      BY <1>8 DEF CompleteRequest, coroutine
    <3> SUFFICES ASSUME completion # 0
                 PROVE  Inherited(completion)' /\ ~done /\ place # "start"
      BY <3>0
    <3>1. ~done /\ place # "start" /\ completion \in Requests
      BY <1>0 DEF Owners
    <3>2. ~step.answer.final
      BY <1>8, <3>1 DEF CompleteRequest, Calls
    <3>3. CASE Inherited(completion)
      BY <3>0, <3>1, <3>3, <2>7 DEF Inherited
    <3>4. CASE ~Inherited(completion)
      <4>1. completion = current /\ request[current] = "return"
        BY <3>1, <3>4 DEF Owners
      <4>3. current <= Served' /\ ~answer'[current].final
        BY <1>0, <2>1, <2>2, <2>6, <3>2
      <4> QED
        BY <2>2, <3>0, <3>1, <4>1, <4>3 DEF Inherited
    <3> QED
      BY <3>1, <3>3, <3>4
  <2> QED
    BY <2>2, <2>8, <2>9, StepKinds DEF Owners
<1>9. CASE BodyRuns
  <2>1. UNCHANGED <<request, queue, running, answer, current, waits>> /\ ~done
        /\ step.fn = "body"
    BY <1>0, <1>9, StepKinds
    DEF BodyRuns, BodyYields, BodyAwaits, Stops, BodyReturns, BodyThrows,
        BodyPassesTheReturnOn, Ends, object, Stands
  <2>2. ValuesReachTheirOwners' /\ \A q : Inherited(q)' <=> Inherited(q)
    BY <2>1, InheritedUnchanged DEF Owners, ValuesReachTheirOwners
  <2>3. CASE BodyYields \/ BodyAwaits
    BY <2>1, <2>2, <2>3, StepKinds DEF BodyYields, BodyAwaits, Stops, Owners, Owned
  <2>4. CASE BodyReturns \/ BodyThrows \/ BodyPassesTheReturnOn
    BY <2>1, <2>2, <2>4, RequestTypes
    DEF BodyReturns, BodyThrows, BodyPassesTheReturnOn, Ends, Complete, Owners, Owned
  <2> QED
    BY <1>9, <2>3, <2>4 DEF BodyRuns
<1>10. CASE Continue
  <2>1. PICK w \in waits :
           /\ waits' = waits \ {w}
           /\ CASE w.on = "await" ->
                     \E kind \in {"next", "throw"} : step' = Drive(Resume(kind, w.of))
                [] w.on = "unwrap" ->
                     \E kind \in {"return", "throw"} : step' = Drive(Resume(kind, w.of))
                [] w.on = "finish" ->
                     \E error \in BOOLEAN : step' = Complete(w.of, TRUE, error)
    BY <1>10 DEF Continue
  <2>2. UNCHANGED <<request, queue, running, answer, current, completion, done, place>>
    BY <1>10 DEF Continue, coroutine
  <2>3. ValuesReachTheirOwners' /\ \A q : Inherited(q)' <=> Inherited(q)
    BY <2>2, InheritedUnchanged DEF Owners, ValuesReachTheirOwners
  <2>4. w.on \in Waits /\ Owned(w.of)
        /\ (w.on = "unwrap" => request[current] = "return")
    BY <1>0 DEF Continuations, Owners
  <2>5. CASE w.on = "await"
    BY <2>1, <2>2, <2>3, <2>4, <2>5 DEF Drive, Resume, Owners, Owned
  <2>6. CASE w.on = "unwrap"
    BY <2>1, <2>2, <2>3, <2>4, <2>6 DEF Drive, Resume, Owners, Owned
  <2>7. CASE w.on = "finish"
    BY <2>1, <2>2, <2>3, <2>4, <2>7 DEF Complete, Owners, Owned
  <2> QED
    BY <2>4, <2>5, <2>6, <2>7 DEF Waits
<1>11. CASE UNCHANGED vars
  BY <1>11, InheritedUnchanged
  DEF vars, object, coroutine, Owners, Owned, ValuesReachTheirOwners
<1> QED
  BY <1>1, <1>2, <1>3, <1>4, <1>5, <1>6, <1>7, <1>8, <1>9, <1>10, <1>11
  DEF Next, Progress, Native

-----------------------------------------------------------------------------

\* The initial state.
LEMMA InitInv == Init => IInv
<1> SUFFICES ASSUME Init PROVE IInv
  OBVIOUS
<1>1. TypeOK
  <2>1. Len(request) = 0 /\ request \in Seq(Kinds) /\ queue \in Seq(Requests)
    BY DEF Init
  <2>2. ObjectTypes
    <3>1. Len(request) <= MaxRequests /\ current \in 0..Len(request)
      BY <2>1, AsyncGeneratorsAssumption DEF Init
    <3>2. answer \in [Requests -> Answers \cup {NoAnswer}]
      BY DEF Init
    <3>3. waits \subseteq Continuations /\ running \in BOOLEAN
      BY DEF Init
    <3> QED
      BY <2>1, <3>1, <3>2, <3>3 DEF ObjectTypes
  <2>3. CoroutineTypes
    <3>1. stops \in 0..MaxStops
      BY AsyncGeneratorsAssumption DEF Init
    <3> QED
      BY <3>1 DEF Init, CoroutineTypes
  <2>4. CallTypes
    BY <2>1, StepTypes DEF Init, CallTypes
  <2> QED
    BY <2>2, <2>3, <2>4 DEF TypeOK
<1>2. Calls /\ Stands /\ Holds
  BY StepKinds DEF Init, Calls, Stands, Holds, AtRest
<1>3. Served = 0 /\ Len(request) = 0 /\ Len(queue) = 0
  <2>1. Len(request) = 0 /\ Len(queue) = 0 /\ running = FALSE
    BY DEF Init
  <2>2. Served = 0 - 0 - 0
    BY <2>1 DEF Served
  <2> QED
    BY <2>1, <2>2
<1>4. Numbers
  <2>1. \A r \in Requests : answer[r] = NoAnswer
    <3>1. answer = [r \in Requests |-> NoAnswer]
      BY DEF Init
    <3> QED
      BY <3>1
  <2>2. \A r \in Requests : answer[r] = NoAnswer <=> r > Served
    <3>1. \A r \in Requests : r > 0
      BY AsyncGeneratorsAssumption DEF Requests
    <3> QED
      BY <1>3, <2>1, <3>1
  <2> QED
    BY <1>3, <2>2 DEF Init, Numbers
<1>5. Owners
  BY StepKinds DEF Init, Owners, ValuesReachTheirOwners
<1> QED
  BY <1>1, <1>2, <1>4, <1>5 DEF IInv
\* The invariant holds throughout.
LEMMA Invariance == Spec => []IInv
<1>1. Init => IInv
  BY InitInv
<1>2. IInv /\ [Next]_vars => IInv'
  <2> SUFFICES ASSUME IInv, [Next]_vars PROVE IInv'
    OBVIOUS
  <2>1. TypeOK'
    BY TypeStep DEF IInv
  <2>2. Calls' /\ Stands' /\ Holds'
    BY ControlStep DEF IInv
  <2>3. Numbers'
    BY NumbersStep DEF IInv
  <2>4. Owners'
    BY <2>2, OwnersStep DEF IInv
  <2> QED
    BY <2>1, <2>2, <2>3, <2>4 DEF IInv
<1> QED
  BY <1>1, <1>2, PTL DEF Spec

-----------------------------------------------------------------------------

\* The fields of AsyncGenCtx and BcGeneratorState keep their types.
THEOREM TypeCorrect == Spec => []TypeOK
<1>1. IInv => TypeOK
  BY DEF IInv
<1> QED
  BY <1>1, Invariance, PTL

\* at_user_yield and last_suspend_await, though stale in between, are right
\* whenever they are read (pumpAsyncGen and driveAsyncGen).
THEOREM FlagsAreRight == Spec => []FlagsTellThePlace
<1>1. IInv => FlagsTellThePlace
  <2> SUFFICES ASSUME IInv PROVE FlagsTellThePlace
    OBVIOUS
  <2>1. running \in BOOLEAN /\ executing \in BOOLEAN
    BY DEF IInv, TypeOK, ObjectTypes, CoroutineTypes
  <2> QED
    BY <2>1, StepKinds DEF IInv, Stands, AtRest, Calls, Holds, FlagsTellThePlace
<1> QED
  BY <1>1, Invariance, PTL

\* If no await of the body fails to subscribe (driveAsyncGen lets that error
\* escape), the request in flight always has exactly one thing left that will
\* answer it.
THEOREM OneHolderAlways == "await" \notin Poisonable => (Spec => []OneHolder)
<1> SUFFICES ASSUME "await" \notin Poisonable PROVE Spec => []OneHolder
  OBVIOUS
<1>1. IInv => OneHolder
  <2> SUFFICES ASSUME IInv PROVE OneHolder
    OBVIOUS
  <2>1. /\ running \in BOOLEAN /\ executing \in BOOLEAN /\ step \in Steps
        /\ Len(request) \in Nat /\ Len(queue) \in Nat
    BY DEF IInv, TypeOK, ObjectTypes, CoroutineTypes, CallTypes
  <2>2. running => answer[current] = NoAnswer
    <3> SUFFICES ASSUME running PROVE answer[current] = NoAnswer
      OBVIOUS
    <3>1. current = Served + 1 /\ current \in Requests
      BY <2>1, NumbersOfRequests DEF IInv, Numbers, TypeOK, ObjectTypes
    <3> QED
      BY <2>1, <3>1 DEF IInv, Numbers
  <2>3. step = Idle <=> step.fn = "idle"
    BY <2>1, StepKinds
  <2> QED
    BY <2>1, <2>2, <2>3, StepKinds DEF IInv, Stands, Holds, OneHolder
<1> QED
  BY <1>1, Invariance, PTL

\* No consumer gets a value that belongs to another's request, but for the
\* return value that a finally block held back.
THEOREM ValuesReach == Spec => []ValuesReachTheirOwners
<1>1. IInv => ValuesReachTheirOwners
  BY DEF IInv, Owners
<1> QED
  BY <1>1, Invariance, PTL

\* A body that has ended, or was closed before it began, never runs again.
THEOREM EndedStaysEnded == Spec => EndedIsEnded
<1>1. IInv /\ IInv' /\ [Next]_vars => [done \/ place = "end" => done' /\ ~executing']_vars
  <2> SUFFICES ASSUME IInv, IInv', [Next]_vars, done \/ place = "end"
               PROVE  done' /\ ~executing'
    OBVIOUS
  <2>1. done
    BY DEF IInv, Stands
  <2>2. done'
    BY <2>1
    DEF Next, Progress, Native, Enqueue, NothingToStart, StartNext, StartReturnAtYield,
        StartReturn, StartFinished, StartDriving, ResumeBody, AfterStop, Subscribes,
        SubscribeFails, CompleteRequest, BodyRuns, BodyYields, BodyAwaits, Stops,
        BodyReturns, BodyThrows, BodyPassesTheReturnOn, Ends, Continue, vars, coroutine
  <2> QED
    BY <2>2 DEF IInv, Stands, TypeOK, CoroutineTypes
<1> QED
  BY <1>1, Invariance, PTL DEF Spec, EndedIsEnded
-----------------------------------------------------------------------------

(* The refinement.                                                           *)

\* Every step is a step of the queue of requests, or none of its business.
LEMMA StepsServe ==
    IInv /\ IInv' /\ [Next]_vars => [Queue!Next]_(Queue!vars)
<1> SUFFICES ASSUME IInv, IInv', [Next]_vars
             PROVE  \/ Queue!Ask \/ Queue!Close \/ Queue!Serve
                    \/ UNCHANGED <<Len(request), Served, answer, done>>
  BY DEF Queue!Next, Queue!vars
<1>0. /\ Len(request) \in Nat /\ Len(queue) \in Nat /\ running \in BOOLEAN
      /\ step \in Steps /\ done \in BOOLEAN /\ executing \in BOOLEAN
      /\ Requests \subseteq Nat /\ Served \in 0..Len(request)
  <2>1. TypeOK /\ Numbers
    BY DEF IInv
  <2> QED
    BY <2>1, RequestTypes DEF TypeOK, ObjectTypes, CoroutineTypes, CallTypes, Numbers
<1>1. ASSUME NEW kind \in Kinds, Enqueue(kind) PROVE Queue!Ask
  <2>1. Len(request') = Len(request) + 1 /\ Len(queue') = Len(queue) + 1
    BY <1>1 DEF Enqueue, IInv, TypeOK, ObjectTypes
  <2>2. Served' = Served
    BY <1>0, <1>1, <2>1 DEF Enqueue, Served
  <2>3. Len(request) + 1 \in Requests
    BY <1>0, <1>1, AsyncGeneratorsAssumption DEF Enqueue, Requests
  <2> QED
    BY <1>1, <2>1, <2>2, <2>3 DEF Queue!Ask, Enqueue, coroutine
<1>2. CASE StartNext
  <2>1. Start /\ queue # <<>> /\ ~running
    BY <1>2, <1>0, StepKinds
    DEF StartNext, StartReturnAtYield, StartReturn, StartFinished, StartDriving,
        Start, IInv, Holds
  <2>2. Served' = Served /\ request' = request /\ answer' = answer
    BY <1>0, <2>1, HeadOfQueue DEF Start, Served, IInv
  <2>3. Served < Len(request)
    BY <1>0, <2>1, HeadOfQueue DEF Served, IInv
  <2>4. done' = done \/ (~done /\ done' = TRUE)
    BY <1>0, <1>2
    DEF StartNext, StartReturnAtYield, StartReturn, StartFinished, StartDriving,
        coroutine
  <2> QED
    BY <2>2, <2>3, <2>4 DEF Queue!Close
<1>3. CASE CompleteRequest
  <2>1. running /\ current = Served + 1 /\ current \in Requests
    <3>1. running /\ current = Served + 1
      BY <1>3, <1>0 DEF CompleteRequest, IInv, Holds, Numbers
    <3> QED
      BY <1>0, <3>1, NumbersOfRequests DEF IInv, TypeOK, ObjectTypes
  <2>2. Served' = Served + 1 /\ request' = request /\ done' = done
    BY <1>0, <1>3, <2>1 DEF CompleteRequest, Served, coroutine
  <2>3. Served < Len(request)
    BY <1>0, <2>1 DEF IInv, TypeOK, ObjectTypes
  <2>4. step.answer \in Answers /\ step.answer.final = done
    <3>1. step.answer \in Answers /\ (step.answer.final <=> done)
      BY <1>0, <1>3, StepParts DEF CompleteRequest, IInv, Calls
    <3>2. step.answer.final \in BOOLEAN
      BY <3>1 DEF Answers
    <3> QED
      BY <1>0, <3>1, <3>2
  <2>5. answer' = [answer EXCEPT ![Served + 1] = step.answer]
    BY <1>0, <1>3, <2>1 DEF CompleteRequest, IInv, Numbers
  <2> QED
    BY <2>2, <2>3, <2>4, <2>5 DEF Queue!Serve
<1>4. ASSUME ResumeBody \/ BodyRuns
      PROVE  \/ Queue!Close
             \/ UNCHANGED <<Len(request), Served, answer, done>>
  <2>1. UNCHANGED <<request, queue, running, answer>>
    BY <1>4
    DEF ResumeBody, BodyRuns, BodyYields, BodyAwaits, Stops, BodyReturns, BodyThrows,
        BodyPassesTheReturnOn, Ends, object
  <2>2. Served' = Served
    BY <2>1 DEF Served
  <2>3. running
    BY <1>0, <1>4, StepKinds
    DEF ResumeBody, BodyRuns, BodyYields, BodyAwaits, Stops, BodyReturns, BodyThrows,
        BodyPassesTheReturnOn, Ends, IInv, Holds
  <2>4. Served < Len(request)
    BY <1>0, <2>3 DEF IInv, Numbers, TypeOK, ObjectTypes
  <2>5. done => done'
    BY <1>4
    DEF ResumeBody, BodyRuns, BodyYields, BodyAwaits, Stops, BodyReturns, BodyThrows,
        BodyPassesTheReturnOn, Ends, IInv, Calls
  <2>6. done' \in BOOLEAN
    BY DEF IInv, TypeOK, CoroutineTypes
  <2> QED
    BY <1>0, <2>1, <2>2, <2>4, <2>5, <2>6 DEF Queue!Close
<1>5. ASSUME \/ NothingToStart \/ AfterStop \/ Subscribes \/ SubscribeFails
             \/ Continue \/ UNCHANGED vars
      PROVE  UNCHANGED <<Len(request), Served, answer, done>>
  <2>1. UNCHANGED <<request, queue, running, answer, done>>
    BY <1>5
    DEF NothingToStart, AfterStop, Subscribes, SubscribeFails, Continue, vars, object,
        coroutine
  <2> QED
    BY <2>1 DEF Served
<1> QED
  BY <1>1, <1>2, <1>3, <1>4, <1>5 DEF Next, Progress, Native

\* An async generator implements its queue of requests: each is answered once
\* and in order, and finally if and only if the generator has finished.
THEOREM ImplementsQueue == Spec => ServesInOrder
<1>1. Init => Queue!Init
  <2>1. ASSUME Init PROVE Len(request) = 0 /\ Served = 0
    <3>1. Len(request) = 0 /\ Len(queue) = 0 /\ running = FALSE
      BY <2>1 DEF Init
    <3>2. Served = 0 - 0 - 0
      BY <3>1 DEF Served
    <3> QED
      BY <3>1, <3>2
  <2> QED
    BY <2>1 DEF Init, Queue!Init
<1> QED
  BY <1>1, StepsServe, Invariance, PTL DEF Spec, ServesInOrder, Queue!Spec

=============================================================================
