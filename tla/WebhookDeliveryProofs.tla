------------------------ MODULE WebhookDeliveryProofs -------------------------
(***************************************************************************)
(* Proofs about a delivery from SendTest to the handlers, for any backoff  *)
(* list, listener and registrations.                                       *)
(*                                                                         *)
(* The composition implements its two parts, so that what is proved of the *)
(* listener and of the sender holds of it.  What needs both is what the    *)
(* report of SendTest says about the handlers: Shaped says what has become *)
(* of each attempt at the listener, Echoed that the answers on record are  *)
(* the listener's, and Awaited and Relayed what the sender made of them.   *)
(***************************************************************************)
EXTENDS WebhookDelivery, WebhookListenerProofs

\* The proofs about the sender, for the sender of the composition.
SP == INSTANCE WebhookSenderProofs WITH pc <- sending

\* Their assumptions are those of the composition.
LEMMA SenderAssumptions == SP!MaxAttemptsAssumption /\ SP!NothingAssumption
BY SenderAssumption
DEF SP!MaxAttemptsAssumption, Sender!MaxAttemptsAssumption, SP!NothingAssumption,
    Sender!NothingAssumption, SP!Statuses, Sender!Statuses, SP!Results, Sender!Results,
    SP!Errors, Sender!Errors

\* The sender of the composition is the sender of the proofs.
LEMMA SameSender ==
    /\ Sender!Init <=> SP!Init
    /\ UNCHANGED senderVars <=> UNCHANGED SP!vars
    /\ Sender!StartAttempt <=> SP!StartAttempt
    /\ Sender!CancelBackoff <=> SP!CancelBackoff
    /\ Sender!ReceiveAnswer <=> SP!ReceiveAnswer
    /\ Sender!AttemptFails <=> SP!AttemptFails
    /\ Sender!Cancel <=> SP!Cancel
    /\ \A n : Sender!ReceiverHandles(n) <=> SP!ReceiverHandles(n)
<1>1. Sender!Init <=> SP!Init
  BY DEF Sender!Init, SP!Init
<1>2. UNCHANGED senderVars <=> UNCHANGED SP!vars
  BY DEF senderVars, SP!vars
<1> USE DEF Sender!Again, SP!Again, Sender!Report, SP!Report
<1>3. Sender!StartAttempt <=> SP!StartAttempt
  BY DEF Sender!StartAttempt, SP!StartAttempt, Sender!Ready, SP!Ready
<1>4. Sender!CancelBackoff <=> SP!CancelBackoff
  BY DEF Sender!CancelBackoff, SP!CancelBackoff, Sender!CancelledAttempts,
         SP!CancelledAttempts
<1>5. Sender!ReceiveAnswer <=> SP!ReceiveAnswer
  BY DEF Sender!ReceiveAnswer, SP!ReceiveAnswer, Sender!Succeeded, SP!Succeeded,
         Sender!Permanent, SP!Permanent
<1>6. Sender!AttemptFails <=> SP!AttemptFails
  BY DEF Sender!AttemptFails, SP!AttemptFails, Sender!DoError, SP!DoError
<1>7. Sender!Cancel <=> SP!Cancel
  BY DEF Sender!Cancel, SP!Cancel
<1>8. \A n : Sender!ReceiverHandles(n) <=> SP!ReceiverHandles(n)
  BY DEF Sender!ReceiverHandles, SP!ReceiverHandles, Sender!Statuses, SP!Statuses
<1>9. QED
  BY <1>1, <1>2, <1>3, <1>4, <1>5, <1>6, <1>7, <1>8

-------------------------------------------------------------------------------
(* The composition implements its parts.                                    *)

\* A step of the composition is the sender's own, the listener's own, or one of an
\* attempt: it connects, or is handled, which the sender sees when it is answered.
LEMMA StepKinds ==
    ASSUME [DeliveryNext]_deliveryVars
    PROVE  \/ SenderSteps
           \/ ListenerSteps
           \/ \E n \in Attempts : n \in Deliveries /\ (AttemptConnects(n) \/ AttemptHandled(n))
           \/ UNCHANGED deliveryVars
BY AttemptsAssumption DEF DeliveryNext

\* Every step is one of each part, or leaves it alone.
LEMMA StepParts ==
    ASSUME [DeliveryNext]_deliveryVars
    PROVE  [Next]_vars /\ [SP!Next]_SP!vars
<1>1. CASE UNCHANGED deliveryVars
  BY <1>1, SameSender DEF deliveryVars
<1>2. CASE SenderSteps
  <2>1. UNCHANGED vars
    BY <1>2 DEF SenderSteps
  <2>2. SP!Next
    BY <1>2, SameSender DEF SenderSteps, SP!Next
  <2>3. QED
    BY <2>1, <2>2
<1>3. CASE ListenerSteps
  <2>1. Next
    BY <1>3 DEF ListenerSteps, Next
  <2>2. UNCHANGED SP!vars
    BY <1>3, SameSender DEF ListenerSteps
  <2>3. QED
    BY <2>1, <2>2
<1>4. ASSUME NEW n \in Deliveries, AttemptConnects(n)
      PROVE  Next /\ UNCHANGED SP!vars
  <2>1. Next
    BY <1>4 DEF AttemptConnects, Next
  <2>2. UNCHANGED SP!vars
    BY <1>4, SameSender DEF AttemptConnects
  <2>3. QED
    BY <2>1, <2>2
<1>5. ASSUME NEW n \in Deliveries, AttemptHandled(n)
      PROVE  Next /\ [SP!Next]_SP!vars
  <2>1. Next
    BY <1>5 DEF AttemptHandled, Next
  <2>2. SP!ReceiverHandles(n) \/ UNCHANGED SP!vars
    BY <1>5, SameSender DEF AttemptHandled
  <2>3. SP!ReceiverHandles(n) => n \in wire
    BY DEF SP!ReceiverHandles
  <2>4. QED
    BY <2>1, <2>2, <2>3 DEF SP!Next
<1>6. QED
  BY <1>1, <1>2, <1>3, <1>4, <1>5, StepKinds

\* A delivery is SendTest against a WebhookListener: each of them goes through its own
\* steps only, whatever the other does (webhooks.go:119-221, listener.go:85-224).
THEOREM ImplementsParts == DeliverySpec => Spec /\ Sender!Spec
<1>1. [DeliveryNext]_deliveryVars => [Next]_vars /\ [Sender!Next]_Sender!vars
  <2>1. SP!Next => Sender!Next
    BY SameSender DEF SP!Next, Sender!Next
  <2>2. UNCHANGED SP!vars => UNCHANGED Sender!vars
    BY DEF SP!vars, Sender!vars
  <2>3. QED
    BY <2>1, <2>2, StepParts
<1>2. DeliveryInit => Init /\ Sender!Init
  BY DEF DeliveryInit
<1>3. QED
  BY <1>1, <1>2, PTL DEF DeliverySpec, Spec, Sender!Spec

\* Stop waits for the handlers of a test delivery too, also for those of an attempt
\* that SendTest has given up on (listener.go:126-138, webhooks.go:174-192).
THEOREM StopsIdle == DeliverySpec => []StoppedMeansIdle
BY ImplementsParts, StopWaitsForDeliveries, PTL

\* The answer to every attempt tells what the handlers have done for it, whether or
\* not SendTest still waits for it (listener.go:160-224).
THEOREM AttemptsTruthful == DeliverySpec => []AnswersAreTruthful
BY ImplementsParts, AnswersMeanHandled, PTL

\* So the invariants of the parts are invariants of the composition.
LEMMA AlwaysParts == DeliverySpec => [](TypeOK /\ SP!IInv)
<1>1. DeliverySpec => Spec /\ SP!Spec
  <2>1. DeliveryInit => Init /\ SP!Init
    BY SameSender DEF DeliveryInit
  <2>2. QED
    BY <2>1, StepParts, PTL DEF DeliverySpec, Spec, SP!Spec
<1>2. SP!Spec => []SP!IInv
  BY SenderAssumptions, SP!Invariance
<1>3. QED
  BY <1>1, <1>2, TypeCorrect, PTL

\* A delivery is bounded and true whatever the listener does with its attempts, and the
\* listener a slot for one server whatever is sent to it (webhooks.go:145-221,
\* listener.go:85-138).
THEOREM PromisesKept ==
  ASSUME ~PortCleared
  PROVE  DeliverySpec => ImplementsServerSlot /\ SP!ImplementsBoundedDelivery
<1>1. DeliverySpec => Spec /\ SP!Spec
  <2>1. DeliveryInit => Init /\ SP!Init
    BY SameSender DEF DeliveryInit
  <2>2. QED
    BY <2>1, StepParts, PTL DEF DeliverySpec, Spec, SP!Spec
<1>2. SP!Spec => SP!ImplementsBoundedDelivery
  BY SenderAssumptions, SP!Refinement
<1>3. QED
  BY <1>1, <1>2, Refinement, PTL

-------------------------------------------------------------------------------
(* What the report of SendTest says about the handlers.                     *)

\* What has become of an attempt at the listener: only the URL and the secret that
\* fit let handlers run, those of event "test", and a 200 comes after the last.
ShapedOf(n) ==
    LET m == delivery[n] IN
    /\ m.stage # "answered" => m.status = 0
    /\ m.stage \in {"new", "queued", "reading"} => m.event = "none"
    /\ m.stage = "running" => m.event = "test"
    /\ m.stage = "running" \/ m.ran # <<>> => setup = "matching"
    /\ m.stage = "answered" /\ m.status = 200 => m.event = "test" /\ m.todo = <<>>

Shaped == \A n \in Deliveries : ShapedOf(n)

\* An answer on record is the one the listener has given, for good.
Echoed ==
    \A h \in handled :
        /\ delivery[h.attempt].stage = "answered"
        /\ h.status = StatusClass(delivery[h.attempt].status)

\* The sender waits for a 200 when its options fit.
Awaited == setup = "matching" /\ sending = "waiting" => answer \in {Nothing, "2xx"}

\* Its report of a success goes back to the listener's answer to the attempt it names,
\* and it reports a refusal only when its options do not fit.
Relayed ==
    result # Nothing =>
        /\ result.success => [attempt |-> result.attempts, status |-> "2xx"] \in handled
        /\ result.error = "http" /\ result.statusCode = "4xx" => setup # "matching"

JoinedInv ==
    /\ setup \in {"matching", "other_secret", "other_path"}
    /\ Shaped /\ Echoed /\ Awaited /\ Relayed

\* Before SendTest is called no attempt has reached the listener.
LEMMA InitJoined == DeliveryInit => JoinedInv
BY SameSender
DEF DeliveryInit, Init, SP!Init, NewDelivery, JoinedInv, Shaped, ShapedOf, Echoed, Awaited,
    Relayed

\* The steps of a delivery, by what they do to the parts of it that ShapedOf speaks of.
LEMMA StageEffect ==
    ASSUME TypeOK, NEW n \in Deliveries, DeliveryStep(n)
    PROVE  LET m == delivery[n]
               k == delivery'[n]
           IN  /\ m.stage \notin {"answered", "reset"}
               /\ \A d \in Deliveries \ {n} : delivery'[d] = delivery[d]
               /\ \/ /\ m.stage \in {"new", "queued"}
                     /\ k.stage \in {"queued", "reading", "reset"}
                     /\ k.event = m.event /\ k.status = m.status /\ k.ran = m.ran
                  \/ /\ m.stage = "reading" /\ k.stage = "answered"
                     /\ k.status \in {401, 404, 405}
                     /\ k.event = m.event /\ k.ran = m.ran
                  \/ /\ m.stage = "reading" /\ k.stage = "refusing"
                     /\ k.event = m.event /\ k.status = m.status /\ k.ran = m.ran
                  \/ /\ m.stage = "refusing" /\ k.stage = "answered" /\ k.status = 400
                     /\ k.event = m.event /\ k.ran = m.ran
                  \/ /\ m.stage = "reading" /\ k.stage = "running"
                     /\ k.status = m.status /\ k.ran = m.ran
                  \/ /\ m.stage = "running" /\ k.stage = "running"
                     /\ k.event = m.event /\ k.status = m.status
                  \/ /\ m.stage = "running" /\ m.todo = <<>>
                     /\ k.stage = "answered" /\ k.status = 200
                     /\ k.event = m.event /\ k.ran = m.ran /\ k.todo = m.todo
<1> DEFINE m == delivery[n]
           k == delivery'[n]
<1>1. m \in DeliveryStates /\ delivery \in [Deliveries -> DeliveryStates]
  BY DEF TypeOK
<1>2. \A d \in Deliveries \ {n} : delivery'[d] = delivery[d]
  BY <1>1, DeliveryEffect DEF Becomes
<1>3. CASE (\E s \in Servers : Connect(n, s)) \/ Accept(n) \/ Reset(n)
  <2>1. /\ m.stage \in {"new", "queued"} /\ k.stage \in {"queued", "reading", "reset"}
        /\ k.event = m.event /\ k.status = m.status /\ k.ran = m.ran
    <3>1. CASE \E s \in Servers : Connect(n, s)
      BY <1>1, <3>1 DEF Connect, Becomes, DeliveryStates
    <3>2. CASE Accept(n)
      BY <1>1, <3>2 DEF Accept, Becomes, DeliveryStates
    <3>3. CASE Reset(n)
      BY <1>1, <3>3 DEF Reset, Becomes, DeliveryStates
    <3>4. QED
      BY <1>3, <3>1, <3>2, <3>3
  <2>2. QED
    BY <1>2, <2>1
<1>4. CASE HandleWebhook(n)
  <2>1. m.stage = "reading"
    BY <1>4 DEF HandleWebhook
  <2>2. \/ /\ k.stage = "answered" /\ k.status \in {401, 404, 405}
           /\ k.event = m.event /\ k.ran = m.ran
        \/ /\ k.stage = "refusing"
           /\ k.event = m.event /\ k.status = m.status /\ k.ran = m.ran
        \/ k.stage = "running" /\ k.status = m.status /\ k.ran = m.ran
    <3>1. ASSUME NEW status \in {401, 404, 405}, Respond(n, status)
          PROVE  /\ k.stage = "answered" /\ k.status = status
                 /\ k.event = m.event /\ k.ran = m.ran
      BY <1>1, <3>1 DEF Respond, Becomes, DeliveryStates
    <3>2. ASSUME NEW event \in {"alert", "test"},
                 Becomes(n, [m EXCEPT !.stage = "running", !.event = event,
                                      !.todo = Snapshot(event)])
          PROVE  k.stage = "running" /\ k.status = m.status /\ k.ran = m.ran
      BY <1>1, <3>2 DEF Becomes, DeliveryStates
    <3>3. ASSUME Becomes(n, [m EXCEPT !.stage = "refusing"])
          PROVE  /\ k.stage = "refusing"
                 /\ k.event = m.event /\ k.status = m.status /\ k.ran = m.ran
      BY <1>1, <3>3 DEF Becomes, DeliveryStates
    <3>4. QED
      BY <1>4, <3>1, <3>2, <3>3 DEF HandleWebhook
  <2>3. QED
    BY <1>2, <2>1, <2>2
<1>5. CASE RunHandler(n)
  <2>1. /\ m.stage = "running" /\ k.stage = "running"
        /\ k.event = m.event /\ k.status = m.status
    BY <1>1, <1>5 DEF RunHandler, Becomes, DeliveryStates
  <2>2. QED
    BY <1>2, <2>1
<1>6. CASE Answer(n)
  <2>1. ASSUME NEW status, Respond(n, status)
        PROVE  /\ k.stage = "answered" /\ k.status = status
               /\ k.event = m.event /\ k.ran = m.ran /\ k.todo = m.todo
    BY <1>1, <2>1 DEF Respond, Becomes, DeliveryStates
  <2>2. CASE m.stage = "running" /\ m.todo = <<>> /\ Respond(n, 200)
    BY <1>2, <2>1, <2>2
  <2>3. CASE m.stage = "refusing" /\ Respond(n, 400)
    BY <1>2, <2>1, <2>3
  <2>4. QED
    BY <1>6, <2>2, <2>3 DEF Answer
<1>7. QED
  BY <1>3, <1>4, <1>5, <1>6 DEF DeliveryStep

\* Calling an error handler is nothing to the sender, nor to what a delivery has become.
LEMMA TellJoined ==
    ASSUME JoinedInv, NEW n \in Deliveries, TellError(n), UNCHANGED <<senderVars, setup>>
    PROVE  JoinedInv'
<1>1. delivery' = delivery
  BY DEF TellError
<1>2. QED
  BY <1>1
  DEF JoinedInv, Shaped, ShapedOf, Echoed, Awaited, Relayed, senderVars, StatusClass

\* Giving an attempt up reports no refusal, unless it is over one.
LEMMA AgainRelayed ==
    ASSUME Relayed, UNCHANGED <<handled, setup>>, NEW status, NEW error,
           SP!Again(status, error), error # "http" \/ status # "4xx"
    PROVE  Relayed'
<1>1. CASE UNCHANGED result
  BY <1>1 DEF Relayed
<1>2. CASE SP!Report(FALSE, status, MaxAttempts, error)
  <2>1. result'.success = FALSE /\ result'.error = error /\ result'.statusCode = status
    BY <1>2 DEF SP!Report
  <2>2. QED
    BY <2>1 DEF Relayed
<1>3. QED
  BY <1>1, <1>2 DEF SP!Again

\* The sender's own steps keep the invariant.
LEMMA SenderJoined ==
    ASSUME SP!IInv, JoinedInv, SenderSteps
    PROVE  JoinedInv'
<1>1. UNCHANGED <<vars, setup, handled>>
  BY SameSender
  DEF SenderSteps, SP!StartAttempt, SP!CancelBackoff, SP!ReceiveAnswer, SP!AttemptFails,
      SP!Cancel
<1>2. delivery' = delivery
  BY <1>1 DEF vars
<1>3. Shaped' /\ Echoed'
  BY <1>1, <1>2 DEF JoinedInv, Shaped, ShapedOf, Echoed, StatusClass
<1>4. Awaited /\ Relayed
  BY DEF JoinedInv
<1>5. CASE SP!StartAttempt
  <2>1. Awaited'
    BY <1>5 DEF SP!StartAttempt, Awaited
  <2>2. Relayed'
    <3>1. CASE \E error \in {"request", "timeout"} : SP!Again(lastStatusCode, error)
      BY <1>1, <1>4, <3>1, AgainRelayed
    <3>2. CASE UNCHANGED result
      BY <1>1, <1>4, <3>2 DEF Relayed
    <3>3. QED
      BY <1>5, <3>1, <3>2 DEF SP!StartAttempt
  <2>3. QED
    BY <1>1, <1>3, <2>1, <2>2 DEF JoinedInv
<1>6. CASE SP!CancelBackoff
  <2>1. /\ SP!Report(FALSE, lastStatusCode, attempt, "cancelled")
        /\ UNCHANGED answer
    BY <1>6 DEF SP!CancelBackoff, SP!CancelledAttempts
  <2>2. sending' = "done" /\ result'.success = FALSE /\ result'.error = "cancelled"
    BY <2>1 DEF SP!Report
  <2>3. QED
    BY <1>1, <1>3, <2>2 DEF JoinedInv, Awaited, Relayed
<1>7. CASE SP!ReceiveAnswer
  <2>1. /\ sending = "waiting" /\ answer # Nothing
        /\ [attempt |-> attempt + 1, status |-> answer] \in handled
    BY <1>7 DEF SP!ReceiveAnswer, SP!IInv, SP!Heard
  <2>2. Awaited'
    <3>1. sending' # "waiting"
      BY <1>7 DEF SP!ReceiveAnswer, SP!Again, SP!Report
    <3>2. QED
      BY <3>1 DEF Awaited
  <2>3. Relayed'
    <3>1. CASE answer = "2xx" /\ SP!Report(TRUE, answer, attempt + 1, "none")
      <4>1. /\ result'.attempts = attempt + 1 /\ result'.error = "none"
        BY <3>1 DEF SP!Report
      <4>2. QED
        BY <1>1, <2>1, <3>1, <4>1 DEF Relayed
    <3>2. CASE answer = "4xx" /\ SP!Report(FALSE, answer, attempt + 1, "http")
      <4>1. result'.success = FALSE
        BY <3>2 DEF SP!Report
      <4>2. setup # "matching"
        BY <1>4, <2>1, <3>2 DEF Awaited
      <4>3. QED
        BY <1>1, <4>1, <4>2 DEF Relayed
    <3>3. CASE answer # "4xx" /\ SP!Again(answer, "http")
      BY <1>1, <1>4, <3>3, AgainRelayed
    <3>4. QED
      BY <1>7, <3>1, <3>2, <3>3 DEF SP!ReceiveAnswer, SP!Succeeded, SP!Permanent
  <2>4. QED
    BY <1>1, <1>3, <2>2, <2>3 DEF JoinedInv
<1>8. CASE SP!AttemptFails
  <2>1. SP!Again(lastStatusCode, SP!DoError) /\ SP!DoError # "http"
    BY <1>8 DEF SP!AttemptFails, SP!DoError
  <2>2. sending' # "waiting"
    BY <2>1 DEF SP!Again, SP!Report
  <2>3. Relayed'
    BY <1>1, <1>4, <2>1, AgainRelayed
  <2>4. QED
    BY <1>1, <1>3, <2>2, <2>3 DEF JoinedInv, Awaited
<1>9. CASE SP!Cancel
  BY <1>1, <1>3, <1>9 DEF SP!Cancel, JoinedInv, Awaited, Relayed
<1>10. QED
  BY <1>5, <1>6, <1>7, <1>8, <1>9, SameSender DEF SenderSteps

\* A delivery that is not handled yet may connect, be accepted or be reset.
LEMMA ArrivalJoined ==
    ASSUME TypeOK, JoinedInv, NEW n \in Deliveries, DeliveryStep(n),
           delivery[n].stage \in {"new", "queued"}, SP!IInv, UNCHANGED <<senderVars, setup>>
    PROVE  JoinedInv'
<1>1. /\ \A d \in Deliveries \ {n} : delivery'[d] = delivery[d]
      /\ delivery'[n].stage \in {"queued", "reading", "reset"}
      /\ delivery'[n].event = delivery[n].event
      /\ delivery'[n].status = delivery[n].status /\ delivery'[n].ran = delivery[n].ran
  BY StageEffect
<1>2. Shaped'
  <2>1. ShapedOf(n)'
    BY <1>1 DEF JoinedInv, Shaped, ShapedOf
  <2>2. ASSUME NEW d \in Deliveries \ {n} PROVE ShapedOf(d)'
    BY <1>1, <2>2 DEF JoinedInv, Shaped, ShapedOf
  <2>3. QED
    BY <2>1, <2>2 DEF Shaped
<1>3. Echoed'
  <2>1. ASSUME NEW h \in handled
        PROVE  /\ delivery'[h.attempt].stage = "answered"
               /\ h.status = StatusClass(delivery'[h.attempt].status)
    <3>1. h.attempt \in Deliveries
      BY AttemptsAssumption DEF SP!IInv, SP!TypeOK, Attempts
    <3>2. h.attempt # n
      BY DEF JoinedInv, Echoed
    <3>3. QED
      BY <1>1, <3>1, <3>2 DEF JoinedInv, Echoed
  <2>2. QED
    BY <2>1 DEF Echoed, senderVars, StatusClass
<1>4. QED
  BY <1>2, <1>3 DEF JoinedInv, Awaited, Relayed, senderVars

\* The listener's own steps keep it.
LEMMA ListenerJoined ==
    ASSUME TypeOK, SP!IInv, JoinedInv, ListenerSteps
    PROVE  JoinedInv'
<1>1. UNCHANGED <<senderVars, setup>>
  BY DEF ListenerSteps
<1>2. CASE UNCHANGED delivery
  BY <1>1, <1>2
  DEF JoinedInv, Shaped, ShapedOf, Echoed, Awaited, Relayed, senderVars, StatusClass
<1>3. ASSUME NEW d \in Deliveries, Accept(d) \/ Reset(d)
      PROVE  JoinedInv'
  <2>1. delivery[d].stage = "queued" /\ DeliveryStep(d)
    BY <1>3 DEF Accept, Reset, DeliveryStep
  <2>2. QED
    BY <1>1, <2>1, ArrivalJoined
<1>4. QED
  BY <1>2, <1>3
  DEF ListenerSteps, StartChecks, Listen, SetPort, Install, Stop, StopProceeds,
      ShutdownBegins, ShutdownReturns, ShutdownGivesUp, Serve, ServeBegins, ServeEnds,
      ServeFails, TellError, Register, dispatch

\* What a step of handleWebhook makes of an attempt, given how the sender's options fit.
LEMMA HandledShape ==
    ASSUME TypeOK, JoinedInv, NEW n \in Deliveries, AttemptHandled(n), ~TellError(n)
    PROVE  /\ Handled(n)
           /\ \A d \in Deliveries \ {n} : delivery'[d] = delivery[d]
           /\ ShapedOf(n)'
           /\ setup = "matching" /\ delivery'[n].stage = "answered" =>
                 delivery'[n].status = 200 \/ GivenUp(n)
<1> DEFINE m == delivery[n]
           k == delivery'[n]
<1>1. /\ HandleWebhook(n) \/ RunHandler(n) \/ Answer(n)
      /\ Understood(n) /\ setup' = setup
  BY DEF AttemptHandled, Handle, RunHandlers
<1>2. m.stage \in {"reading", "running", "refusing"}
  BY <1>1 DEF HandleWebhook, RunHandler, Answer
<1>3. /\ \A d \in Deliveries \ {n} : delivery'[d] = delivery[d]
      /\ \/ /\ m.stage = "reading" /\ k.stage = "answered"
            /\ k.status \in {401, 404, 405}
            /\ k.event = m.event /\ k.ran = m.ran
         \/ /\ m.stage = "reading" /\ k.stage = "refusing"
            /\ k.event = m.event /\ k.status = m.status /\ k.ran = m.ran
         \/ /\ m.stage = "refusing" /\ k.stage = "answered" /\ k.status = 400
            /\ k.event = m.event /\ k.ran = m.ran
         \/ /\ m.stage = "reading" /\ k.stage = "running"
            /\ k.status = m.status /\ k.ran = m.ran
         \/ /\ m.stage = "running" /\ k.stage = "running"
            /\ k.event = m.event /\ k.status = m.status
         \/ /\ m.stage = "running" /\ m.todo = <<>>
            /\ k.stage = "answered" /\ k.status = 200
            /\ k.event = m.event /\ k.ran = m.ran /\ k.todo = m.todo
  BY <1>1, <1>2, StageEffect DEF DeliveryStep
<1>4. ShapedOf(n) /\ setup \in {"matching", "other_secret", "other_path"}
  BY DEF JoinedInv, Shaped
<1>5. k.stage = "running" => setup = "matching" /\ k.event = "test"
  <2>1. k.stage = "running" => k.status = 0
    BY <1>2, <1>3, <1>4 DEF ShapedOf
  <2>2. QED
    BY <1>1, <1>4, <2>1 DEF Understood
<1>6. setup = "matching" /\ k.stage = "answered" => k.status = 200 \/ GivenUp(n)
  <2>1. SUFFICES ASSUME setup = "matching", k.stage = "answered", k.status # 200
                 PROVE  GivenUp(n)
    OBVIOUS
  <2>2. k.event = "none" \/ k.status = 400
    BY <1>3, <1>4, <2>1 DEF ShapedOf
  <2>3. QED
    BY <1>1, <2>1, <2>2 DEF Understood
<1>7. ShapedOf(n)'
  BY <1>1, <1>3, <1>4, <1>5 DEF ShapedOf
<1>8. QED
  BY <1>2, <1>3, <1>6, <1>7 DEF Handled

\* The listener's answer is the one the sender gets.
LEMMA AnswerGoesBack ==
    ASSUME TypeOK, SP!IInv, JoinedInv, NEW n \in Deliveries, AttemptHandled(n),
           ~TellError(n), delivery'[n].stage = "answered"
    PROVE  LET status == StatusClass(delivery'[n].status) IN
           /\ handled' = handled \cup {[attempt |-> n, status |-> status]}
           /\ answer' = IF sending = "waiting" /\ n = attempt + 1 THEN status ELSE answer
           /\ UNCHANGED <<sending, attempt, result>>
<1> DEFINE class == StatusClass(delivery'[n].status)
<1>1. delivery[n].stage # "answered"
  BY HandledShape DEF Handled
<1>2. SP!ReceiverHandles(n) /\ [attempt |-> n, status |-> class] \in handled'
  BY <1>1, SameSender DEF AttemptHandled
<1>3. PICK status \in SP!Statuses :
         /\ handled' = handled \cup {[attempt |-> n, status |-> status]}
         /\ answer' = IF sending = "waiting" /\ n = attempt + 1 THEN status ELSE answer
  BY <1>2 DEF SP!ReceiverHandles
<1>4. n \in wire /\ UNCHANGED <<sending, attempt, result>>
  BY <1>2 DEF SP!ReceiverHandles
<1>5. [attempt |-> n, status |-> class] \notin handled
  BY <1>4 DEF SP!IInv, SP!Traffic
<1>6. class = status
  BY <1>2, <1>3, <1>5
<1>7. QED
  BY <1>3, <1>4, <1>6

\* The steps of handleWebhook keep the invariant.
LEMMA HandledJoined ==
    ASSUME TypeOK, SP!IInv, JoinedInv, NEW n \in Deliveries, AttemptHandled(n),
           ~TellError(n)
    PROVE  JoinedInv'
<1>1. /\ delivery[n].stage \in {"reading", "running", "refusing"} /\ setup' = setup
      /\ \A d \in Deliveries \ {n} : delivery'[d] = delivery[d]
  BY HandledShape DEF AttemptHandled, Handled
<1>2. Shaped'
  <2>1. ASSUME NEW d \in Deliveries PROVE ShapedOf(d)'
    <3>1. CASE d = n
      BY <3>1, HandledShape
    <3>2. CASE d # n
      BY <1>1, <3>2 DEF JoinedInv, Shaped, ShapedOf
    <3>3. QED
      BY <3>1, <3>2
  <2>2. QED
    BY <2>1 DEF Shaped
<1>3. ASSUME NEW h \in handled
      PROVE  /\ delivery'[h.attempt].stage = "answered"
             /\ h.status = StatusClass(delivery'[h.attempt].status)
  <2>1. h.attempt \in Deliveries /\ h.attempt # n
    BY <1>1, AttemptsAssumption DEF SP!IInv, SP!TypeOK, Attempts, JoinedInv, Echoed
  <2>2. QED
    BY <1>1, <2>1 DEF JoinedInv, Echoed
<1>4. CASE delivery'[n].stage = "answered"
  <2> DEFINE status == StatusClass(delivery'[n].status)
             h == [attempt |-> n, status |-> status]
  <2>1. /\ handled' = handled \cup {h}
        /\ answer' = IF sending = "waiting" /\ n = attempt + 1 THEN status ELSE answer
        /\ UNCHANGED <<sending, attempt, result>>
    BY <1>4, AnswerGoesBack
  <2>2. h.attempt = n /\ h.status = status
    OBVIOUS
  <2>3. Echoed'
    <3>1. StatusClass(delivery'[n].status) = StatusClass(delivery[n].status)'
      BY DEF StatusClass
    <3> HIDE DEF h
    <3>2. QED
      BY <1>3, <1>4, <2>1, <2>2, <3>1 DEF Echoed, StatusClass
  <2>4. Awaited'
    <3>1. SUFFICES ASSUME setup = "matching", sending = "waiting"
                   PROVE  answer' \in {Nothing, "2xx"}
      BY <1>1, <2>1 DEF Awaited
    <3>2. CASE n = attempt + 1
      <4>1. delivery'[n].status = 200
        BY <1>4, <3>1, <3>2, HandledShape DEF GivenUp
      <4>2. QED
        BY <2>1, <3>1, <3>2, <4>1 DEF StatusClass
    <3>3. CASE n # attempt + 1
      BY <2>1, <3>1, <3>3 DEF JoinedInv, Awaited
    <3>4. QED
      BY <3>2, <3>3
  <2>5. Relayed'
    BY <1>1, <2>1 DEF JoinedInv, Relayed
  <2>6. QED
    BY <1>1, <1>2, <2>3, <2>4, <2>5 DEF JoinedInv
<1>5. CASE delivery'[n].stage # "answered"
  <2>1. UNCHANGED senderVars
    BY <1>5 DEF AttemptHandled
  <2>2. Echoed'
    BY <1>3, <2>1 DEF Echoed, senderVars, StatusClass
  <2>3. QED
    BY <1>1, <1>2, <2>1, <2>2 DEF JoinedInv, Awaited, Relayed, senderVars
<1>6. QED
  BY <1>4, <1>5

\* It is inductive, given the invariants of the parts.
LEMMA JoinedStep ==
    ASSUME TypeOK, SP!IInv, JoinedInv, [DeliveryNext]_deliveryVars
    PROVE  JoinedInv'
<1>1. CASE UNCHANGED deliveryVars
  BY <1>1
  DEF deliveryVars, vars, senderVars, JoinedInv, Shaped, ShapedOf, Echoed, Awaited, Relayed,
      StatusClass
<1>2. ASSUME NEW n \in Deliveries, AttemptConnects(n)
      PROVE  JoinedInv'
  <2>1. delivery[n].stage = "new" /\ DeliveryStep(n) /\ UNCHANGED <<senderVars, setup>>
    BY <1>2 DEF AttemptConnects, Connect, DeliveryStep
  <2>2. QED
    BY <2>1, ArrivalJoined
<1>3. ASSUME NEW n \in Deliveries, AttemptHandled(n)
      PROVE  JoinedInv'
  <2>1. CASE TellError(n)
    <3>1. UNCHANGED delivery
      BY <2>1 DEF TellError
    <3>2. UNCHANGED <<senderVars, setup>>
      BY <1>3, <3>1 DEF AttemptHandled
    <3>3. QED
      BY <2>1, <3>2, TellJoined
  <2>2. QED
    BY <1>3, <2>1, HandledJoined
<1>4. QED
  BY <1>1, <1>2, <1>3, StepKinds, SenderJoined, ListenerJoined

\* The invariants of the parts and of what joins them hold in every reachable state.
LEMMA JoinedInvariance == DeliverySpec => [](SP!IInv /\ JoinedInv)
<1>1. TypeOK /\ SP!IInv /\ JoinedInv /\ [DeliveryNext]_deliveryVars => JoinedInv'
  BY JoinedStep
<1>2. QED
  BY <1>1, InitJoined, AlwaysParts, PTL DEF DeliverySpec

\* For any backoff list, any registrations, and whatever the network, the handlers and
\* a concurrent Stop do: SendTest reports success only when the test handlers that
\* were registered when the reported attempt came in have all run for it, in order
\* (webhooks.go:194-200, listener.go:189-210).
THEOREM SuccessMeansHandled == DeliverySpec => []DeliveredMeansHandled
<1>1. SP!IInv /\ JoinedInv /\ AnswersAreTruthful => DeliveredMeansHandled
  <2>1. SUFFICES ASSUME SP!IInv, JoinedInv, AnswersAreTruthful, result # Nothing,
                        result.success
                 PROVE  /\ IsPrefix(delivery[result.attempts].due["test"],
                                    delivery[result.attempts].ran)
                        /\ delivery[result.attempts].todo = <<>>
    BY DEF DeliveredMeansHandled
  <2> DEFINE n == result.attempts
             h == [attempt |-> n, status |-> "2xx"]
  <2>2. h \in handled /\ h.attempt = n /\ h.status = "2xx"
    BY <2>1 DEF JoinedInv, Relayed
  <2>3. n \in Deliveries
    BY <2>1, <2>2, AttemptsAssumption DEF SP!IInv, SP!TypeOK, Attempts
  <2>4. delivery[n].stage = "answered" /\ "2xx" = StatusClass(delivery[n].status)
    <3> HIDE DEF h, n
    <3>1. QED
      BY <2>1, <2>2 DEF JoinedInv, Echoed
  <2>5. delivery[n].status = 200
    BY <2>4 DEF StatusClass
  <2>6. delivery[n].event = "test" /\ delivery[n].todo = <<>>
    BY <2>1, <2>3, <2>4, <2>5 DEF JoinedInv, Shaped, ShapedOf
  <2>7. IsPrefix(delivery[n].due["test"], delivery[n].ran)
    BY <2>1, <2>3, <2>4, <2>5, <2>6 DEF AnswersAreTruthful
  <2>8. QED
    BY <2>6, <2>7
<1>2. QED
  BY <1>1, JoinedInvariance, AttemptsTruthful, PTL

\* When SendTest reports a permanent refusal no handler has run for any of its
\* attempts, the ones it has given up on included, nor ever will (webhooks.go:202-210,
\* listener.go:160-187).
THEOREM RefusalsTouchNothing == DeliverySpec => []RefusedMeansUntouched
<1>1. JoinedInv => RefusedMeansUntouched
  BY AttemptsAssumption DEF JoinedInv, Relayed, Shaped, ShapedOf, RefusedMeansUntouched
<1>2. QED
  BY <1>1, JoinedInvariance, PTL
===============================================================================
