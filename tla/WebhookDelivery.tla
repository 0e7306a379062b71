---------------------------- MODULE WebhookDelivery ---------------------------
(***************************************************************************)
(* WebhookService.SendTest (webhooks.go) against a WebhookListener         *)
(* (listener.go): one delivery from the call of SendTest to the handlers.  *)
(*                                                                         *)
(* The attempts of the sender are deliveries of the listener.  A listener's*)
(* answer is the receiver's answer of WebhookSender, in the same step; the *)
(* attempt's connection, its place in the accept queue and the handlers    *)
(* that run for it go on after the sender has given up on it.              *)
(***************************************************************************)
EXTENDS WebhookListener

CONSTANT MaxAttempts  \* len(backoffMs) + 1

Attempts == 1 .. MaxAttempts

ASSUME AttemptsAssumption == Deliveries = Attempts

VARIABLES
    setup,           \* how Secret and URL of SendTestOptions fit the listener
    sending,         \* WebhookSender's pc
    urlParses, attempt, lastStatusCode, lastError, result, begun, ctxDone, wire,
    handled, answer  \* as in WebhookSender

senderVars == <<urlParses, sending, attempt, lastStatusCode, lastError, result, begun,
                ctxDone, wire, handled, answer>>

deliveryVars == <<vars, senderVars, setup>>

Sender == INSTANCE WebhookSender WITH pc <- sending

ASSUME SenderAssumption == Sender!MaxAttemptsAssumption /\ Sender!NothingAssumption

-------------------------------------------------------------------------------

DeliveryInit ==
    /\ Init
    /\ Sender!Init
    /\ setup \in {"matching", "other_secret", "other_path"}

SenderSteps ==
    /\ \/ Sender!StartAttempt
       \/ Sender!CancelBackoff
       \/ Sender!ReceiveAnswer
       \/ Sender!AttemptFails
       \/ Sender!Cancel
    /\ UNCHANGED <<vars, setup>>

GivenUp(n) == n # attempt + 1 \/ sending # "waiting"

\* What handleWebhook can make of an attempt: the signature is of the sender's
\* secret, the path of its URL and the event is "test"; reading the body fails only
\* when the sender has closed the connection.
Understood(n) ==
    LET m == delivery'[n] IN
    IF setup = "other_path" THEN m.status = 404
    ELSE IF m.stage = "refusing" \/ m.status = 400 THEN GivenUp(n)
    ELSE IF setup = "other_secret" THEN m.status = 401
    ELSE m.event = "test"

StatusClass(status) == IF status = 200 THEN "2xx" ELSE "4xx"

\* The listener's side of attempt n, and the answer on its way back to the sender.
AttemptHandled(n) ==
    /\ Handle(n)
    /\ Understood(n)
    /\ IF delivery[n].stage # "answered" /\ delivery'[n].stage = "answered"
       THEN /\ Sender!ReceiverHandles(n)
            /\ [attempt |-> n, status |-> StatusClass(delivery'[n].status)] \in handled'
       ELSE UNCHANGED senderVars
    /\ UNCHANGED setup

AttemptConnects(n) ==
    /\ n \in wire
    /\ \E s \in Servers : Connect(n, s)
    /\ UNCHANGED <<senderVars, setup>>

ListenerSteps ==
    /\ \/ \E c \in Callers : StartChecks(c) \/ Listen(c) \/ SetPort(c) \/ Install(c)
       \/ \E g \in Goroutines : Stop(g) \/ StopProceeds(g) \/ ShutdownGivesUp(g)
       \/ \E s \in Servers : Serve(s) \/ ServeFails(s) \/ TellError(s)
       \/ \E d \in Deliveries : Accept(d) \/ Reset(d)
       \/ \E event \in Events, h \in Handlers : Register(event, h)
    /\ UNCHANGED <<senderVars, setup>>

DeliveryNext ==
    \/ SenderSteps
    \/ ListenerSteps
    \/ \E n \in Attempts : AttemptConnects(n) \/ AttemptHandled(n)

DeliverySpec == DeliveryInit /\ [][DeliveryNext]_deliveryVars

-------------------------------------------------------------------------------
(* Properties.                                                              *)

\* SendTest reports success only when every test handler registered before the
\* attempt it reports reached the listener has run for that very attempt, in order,
\* panics of some of them included (webhooks.go:194-200, listener.go:189-210).
DeliveredMeansHandled ==
    result # Nothing =>
        (result.success =>
            /\ IsPrefix(delivery[result.attempts].due["test"],
                        delivery[result.attempts].ran)
            /\ delivery[result.attempts].todo = <<>>)

\* A permanent failure ("HTTP 4xx") means that no handler has run for any attempt,
\* nor will for one that is still on its way (webhooks.go:202-210,
\* listener.go:160-187): what SendTest does not repeat has not been processed.
RefusedMeansUntouched ==
    result # Nothing =>
        (result.error = "http" /\ result.statusCode = "4xx" =>
            \A n \in Attempts : delivery[n].stage # "running" /\ delivery[n].ran = <<>>)
===============================================================================
