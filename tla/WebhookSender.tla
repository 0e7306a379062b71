---------------------------- MODULE WebhookSender -----------------------------
(***************************************************************************)
(* One SDK-side webhook delivery: SendTest and deliverWithRetry            *)
(* (webhooks.go).  The delivery is retried after a backoff on network      *)
(* errors, on the SDK's own timeout of five seconds per attempt, on 429    *)
(* and on any other status that is neither 2xx nor 4xx.  The caller's      *)
(* context may end at any time.                                            *)
(*                                                                         *)
(* The environment is the network and the receiver: an attempt the sender  *)
(* has given up on may still reach the receiver, before or after the next. *)
(* Deliveries share no state, so one is enough.                            *)
(***************************************************************************)
EXTENDS Naturals

CONSTANTS
    MaxAttempts,  \* len(backoffMs) + 1
    Nothing       \* no status code, no answer, no result

ASSUME MaxAttemptsAssumption == MaxAttempts \in Nat \ {0}

VARIABLES
    urlParses,       \* http.NewRequest takes the URL
    pc,              \* where deliverWithRetry is
    attempt,         \* its loop counter
    lastStatusCode,
    lastError,
    result,          \* the WebhookTestResult returned
    begun,           \* history: attempts begun
    ctxDone,         \* external: the caller's context is done
    wire,            \* external: attempts on their way to the receiver
    handled,         \* external: what the receiver answered to each attempt
    answer           \* external: the answer that has reached the sender

vars == <<urlParses, pc, attempt, lastStatusCode, lastError, result, begun,
          ctxDone, wire, handled, answer>>

-------------------------------------------------------------------------------

\* "4xx" is a 4xx other than 429.
Statuses == {"2xx", "3xx", "4xx", "429", "5xx"}

Errors == {"none", "request", "network", "timeout", "http", "cancelled"}

Results == [success : BOOLEAN, statusCode : Statuses \cup {Nothing},
            attempts : Nat, error : Errors]

ASSUME NothingAssumption == Nothing \notin Statuses \cup Results

TypeOK ==
    /\ urlParses \in BOOLEAN
    /\ pc \in {"start", "backoff", "waiting", "done"}
    /\ attempt \in 0 .. MaxAttempts
    /\ lastStatusCode \in Statuses \cup {Nothing}
    /\ lastError \in Errors
    /\ result \in Results \cup {Nothing}
    /\ begun \in 0 .. MaxAttempts
    /\ ctxDone \in BOOLEAN
    /\ wire \subseteq 1 .. MaxAttempts
    /\ handled \subseteq [attempt : 1 .. MaxAttempts, status : Statuses]
    /\ answer \in Statuses \cup {Nothing}

Init ==
    /\ urlParses \in BOOLEAN
    /\ pc = "start"
    /\ attempt = 0
    /\ lastStatusCode = Nothing
    /\ lastError = "none"
    /\ result = Nothing
    /\ begun = 0
    /\ ctxDone \in BOOLEAN
    /\ wire = {}
    /\ handled = {}
    /\ answer = Nothing

-------------------------------------------------------------------------------

Report(success, status, attempts, error) ==
    /\ pc' = "done"
    /\ result' = [success |-> success, statusCode |-> status,
                  attempts |-> attempts, error |-> error]

\* One attempt too many.
MutAgainOnce(status, error) ==
    /\ lastStatusCode' = status
    /\ lastError' = error
    /\ attempt' = attempt + 1
    /\ IF attempt < MaxAttempts
       THEN pc' = "backoff" /\ UNCHANGED result
       ELSE Report(FALSE, status, MaxAttempts, error)

\* The rest of the loop body when the attempt failed and may be repeated.
Again(status, error) ==
    /\ lastStatusCode' = status
    /\ lastError' = error
    /\ attempt' = attempt + 1
    /\ IF attempt + 1 < MaxAttempts
       THEN pc' = "backoff" /\ UNCHANGED result
       ELSE Report(FALSE, status, MaxAttempts, error)

Ready == pc = "start" \/ pc = "backoff"

\* The next attempt, the first at once, later ones when the backoff has elapsed:
\* select may take the timer even when the context is done too.  net/http sends
\* nothing under a context that is done.
StartAttempt ==
    /\ Ready
    /\ begun' = begun + 1
    /\ \/ /\ ~urlParses
          /\ Again(lastStatusCode, "request")
          /\ UNCHANGED wire
       \/ /\ urlParses /\ ctxDone
          /\ Again(lastStatusCode, "timeout")
          /\ UNCHANGED wire
       \/ /\ urlParses /\ ~ctxDone
          /\ pc' = "waiting"
          /\ wire' = wire \cup {attempt + 1}
          /\ UNCHANGED <<attempt, lastStatusCode, lastError, result>>
    /\ answer' = Nothing
    /\ UNCHANGED <<urlParses, ctxDone, handled>>

MutCancelledAttempts(n) == n + 1
\* Attempts of the result when the context ends before attempt n (from 0).
CancelledAttempts(n) == n

\* The select in the backoff takes ctx.Done().
CancelBackoff ==
    /\ pc = "backoff"
    /\ ctxDone
    /\ Report(FALSE, lastStatusCode, CancelledAttempts(attempt), "cancelled")
    /\ UNCHANGED <<urlParses, attempt, lastStatusCode, lastError, begun, ctxDone,
                   wire, handled, answer>>

MutSucceeded(status) == status \in {"2xx", "3xx"}
Succeeded(status) == status = "2xx"

Permanent(status) == status = "4xx"

\* hc.Do returns the receiver's answer.
ReceiveAnswer ==
    /\ pc = "waiting"
    /\ answer # Nothing
    /\ \/ /\ Succeeded(answer)
          /\ Report(TRUE, answer, attempt + 1, "none")
          /\ lastStatusCode' = answer
          /\ UNCHANGED <<attempt, lastError>>
       \/ /\ Permanent(answer)
          /\ Report(FALSE, answer, attempt + 1, "http")
          /\ lastStatusCode' = answer
          /\ UNCHANGED <<attempt, lastError>>
       \/ /\ ~Succeeded(answer) /\ ~Permanent(answer)
          /\ Again(answer, "http")
    /\ UNCHANGED <<urlParses, begun, ctxDone, wire, handled, answer>>

\* Asking the context of the attempt, which its own timeout ends too.
MutDoError == "timeout"

\* The error recorded for an attempt without an answer: "timeout" when the
\* caller's context is done, the error itself otherwise.
DoError == IF ctxDone THEN "timeout" ELSE "network"

\* No timeout per attempt, only the caller's context.
MutAttemptFails ==
    /\ pc = "waiting"
    /\ ctxDone
    /\ Again(lastStatusCode, DoError)
    /\ UNCHANGED <<urlParses, begun, ctxDone, wire, handled, answer>>

\* hc.Do returns an error: the network failed, the five seconds are over, or the
\* caller's context is done.  The receiver may have handled the attempt.
AttemptFails ==
    /\ pc = "waiting"
    /\ Again(lastStatusCode, DoError)
    /\ UNCHANGED <<urlParses, begun, ctxDone, wire, handled, answer>>

Cancel ==
    /\ ~ctxDone
    /\ ctxDone' = TRUE
    /\ UNCHANGED <<urlParses, pc, attempt, lastStatusCode, lastError, result, begun,
                   wire, handled, answer>>

\* External: the receiver handles an attempt; its answer reaches the sender only
\* while that attempt is the one the sender waits for.
ReceiverHandles(n) ==
    /\ n \in wire
    /\ wire' = wire \ {n}
    /\ \E status \in Statuses :
          /\ handled' = handled \cup {[attempt |-> n, status |-> status]}
          /\ answer' = IF pc = "waiting" /\ n = attempt + 1 THEN status ELSE answer
    /\ UNCHANGED <<urlParses, pc, attempt, lastStatusCode, lastError, result, begun,
                   ctxDone>>

-------------------------------------------------------------------------------

Next ==
    \/ StartAttempt
    \/ CancelBackoff
    \/ ReceiveAnswer
    \/ AttemptFails
    \/ Cancel
    \/ \E n \in wire : ReceiverHandles(n)

Spec == Init /\ [][Next]_vars

\* The goroutine keeps running, timers fire, and the SDK's own timeout ends an
\* attempt that gets no answer.  Nothing is assumed of the caller's context, the
\* network or the receiver.
Fairness == WF_vars(StartAttempt) /\ WF_vars(ReceiveAnswer \/ AttemptFails)

FairSpec == Spec /\ Fairness

-------------------------------------------------------------------------------
(* Properties.                                                              *)

Answered(S) == {h.attempt : h \in {g \in handled : g.status \in S}}

Outcome ==
    IF result = Nothing THEN "pending"
    ELSE IF result.success THEN "delivered" ELSE "given_up"

Delivery == INSTANCE BoundedDelivery WITH
    arrived <- Answered(Statuses),
    accepted <- Answered({"2xx"}),
    refused <- Answered({"4xx"}),
    cancelled <- ctxDone,
    outcome <- Outcome

\* Success is reported only for an attempt the receiver accepted, attempts are
\* bounded and stop with the report, and the sender gives up only after a
\* permanent refusal, a cancellation or its last attempt (webhooks.go:145-221).
ImplementsBoundedDelivery == Delivery!Spec

\* The result tells what happened: Attempts is the number of attempts begun, also
\* when the context ends in a backoff (webhooks.go:152-160), the receiver sees no
\* later attempt, and a status code is one the receiver gave.
ResultMatchesAttempts ==
    result # Nothing =>
        /\ result.attempts = begun
        /\ wire \cup Answered(Statuses) \subseteq 1 .. result.attempts
        /\ result.statusCode # Nothing =>
              Answered({result.statusCode}) # {}

\* The error of a result is the fate of the last attempt it counts.  Success and an
\* HTTP error quote the answer to that very attempt, not a late one to an attempt
\* given up before; "timeout" and "context cancelled" mean that the caller's own
\* context had ended, never the SDK's five seconds (webhooks.go:152-160, 181-217).
ErrorIsOfLastAttempt ==
    result # Nothing =>
        /\ result.error \in {"none", "http"} =>
              [attempt |-> result.attempts, status |-> result.statusCode] \in handled
        /\ result.error \in {"timeout", "cancelled"} => ctxDone

\* SendTest returns, whatever the receiver, the network and the caller's context
\* do: only its own timeouts are relied on (webhooks.go:143-220).
DeliveryEnds == <>(result # Nothing)

-------------------------------------------------------------------------------
(* What the documentation says and the code does not do.                    *)

\* "nil on network error" (types.go:336): the status code of a result whose error
\* is a network error.
StatusNilOnNetworkError ==
    result # Nothing =>
        (result.error = "network" => result.statusCode = Nothing)
===============================================================================
