-------------------------- MODULE WebhookSenderProofs -------------------------
(***************************************************************************)
(* Proofs about WebhookSender, for every backoff list.                     *)
(*                                                                         *)
(* The properties speak of the report, the receiver and the attempts begun,*)
(* so the inductive invariant says how the loop counter relates to the     *)
(* attempts begun at every point of deliverWithRetry (Counting), that      *)
(* whatever is on the wire or was handled is an attempt that was begun,    *)
(* and is not both (Traffic), and that every status code the sender holds  *)
(* is one the receiver gave (Heard).                                       *)
(***************************************************************************)
EXTENDS WebhookSender, TLAPS

Counting ==
    /\ pc = "start" => attempt = 0 /\ begun = 0
    /\ pc = "backoff" => attempt < MaxAttempts /\ begun = attempt
    /\ pc = "waiting" => attempt < MaxAttempts /\ begun = attempt + 1
    /\ pc = "done" => result # Nothing /\ result.attempts = begun
    /\ pc # "done" => result = Nothing

Traffic ==
    /\ wire \subseteq 1 .. begun
    /\ \A h \in handled : h.attempt \in 1 .. begun /\ h.attempt \notin wire

Given(status) == \E h \in handled : h.status = status

Heard ==
    /\ lastStatusCode # Nothing => Given(lastStatusCode)
    /\ result # Nothing =>
          (result.statusCode # Nothing => Given(result.statusCode))
    /\ pc = "waiting" /\ answer # Nothing =>
          [attempt |-> attempt + 1, status |-> answer] \in handled

IInv == TypeOK /\ Counting /\ Traffic /\ Heard

USE MaxAttemptsAssumption, NothingAssumption

\* A delivery that has not begun satisfies the invariant.
LEMMA InitIInv == Init => IInv
  BY DEF Init, IInv, TypeOK, Counting, Traffic, Heard, Given, Results, Statuses, Errors

\* What giving an attempt up does, with a last status code that the receiver gave.
LEMMA AgainEffect ==
  ASSUME TypeOK, attempt < MaxAttempts, result = Nothing,
         NEW status \in Statuses \cup {Nothing}, NEW error \in Errors, Again(status, error)
  PROVE  /\ attempt' = attempt + 1 /\ attempt' \in 0 .. MaxAttempts
         /\ lastStatusCode' = status /\ lastError' = error
         /\ \/ /\ pc' = "backoff" /\ result' = Nothing
               /\ attempt + 1 < MaxAttempts
            \/ /\ pc' = "done" /\ attempt + 1 = MaxAttempts
               /\ result' \in Results /\ result' # Nothing
               /\ result'.attempts = attempt + 1
               /\ result'.statusCode = status
               /\ result'.success = FALSE
               /\ result'.error = error
  <1>1. attempt \in Nat /\ attempt + 1 \in 0 .. MaxAttempts
    BY DEF TypeOK
  <1>2. CASE attempt + 1 < MaxAttempts
    BY <1>1, <1>2 DEF Again
  <1>3. CASE ~(attempt + 1 < MaxAttempts)
    <2> DEFINE r == [success |-> FALSE, statusCode |-> status,
                     attempts |-> MaxAttempts, error |-> error]
    <2>1. attempt + 1 = MaxAttempts
      BY <1>1, <1>3
    <2>2. pc' = "done" /\ result' = r
      BY <1>3 DEF Again, Report
    <2>3. r \in Results
      BY DEF Results
    <2>4. r # Nothing
      BY <2>3
    <2>5. /\ r.attempts = MaxAttempts /\ r.statusCode = status /\ r.success = FALSE
          /\ r.error = error
      OBVIOUS
    <2> HIDE DEF r
    <2> QED
      BY <1>1, <2>1, <2>2, <2>3, <2>4, <2>5 DEF Again
  <1> QED
    BY <1>2, <1>3

\* What reporting does.
LEMMA ReportEffect ==
  ASSUME NEW success \in BOOLEAN, NEW status \in Statuses \cup {Nothing},
         NEW attempts \in Nat, NEW error \in Errors,
         Report(success, status, attempts, error)
  PROVE  /\ pc' = "done" /\ result' \in Results /\ result' # Nothing
         /\ result'.attempts = attempts /\ result'.statusCode = status
         /\ result'.success = success /\ result'.error = error
  <1> DEFINE r == [success |-> success, statusCode |-> status,
                   attempts |-> attempts, error |-> error]
  <1>1. pc' = "done" /\ result' = r
    BY DEF Report
  <1>2. r \in Results
    BY DEF Results
  <1>3. /\ r.attempts = attempts /\ r.statusCode = status /\ r.success = success
        /\ r.error = error
    OBVIOUS
  <1> HIDE DEF r
  <1> QED
    BY <1>1, <1>2, <1>3

\* The three ways to begin an attempt.
LEMMA StartStep == ASSUME IInv, StartAttempt PROVE IInv'
  <1> USE DEF IInv
  <1>1. /\ attempt < MaxAttempts /\ begun = attempt /\ result = Nothing /\ attempt \in Nat
        /\ lastStatusCode \in Statuses \cup {Nothing} /\ {"request", "timeout"} \subseteq Errors
    BY DEF StartAttempt, Ready, Counting, TypeOK, Errors
  <1>2. begun' = attempt + 1 /\ answer' = Nothing /\ UNCHANGED <<urlParses, ctxDone, handled>>
    BY <1>1 DEF StartAttempt
  <1>3. CASE \E error \in {"request", "timeout"} :
                Again(lastStatusCode, error) /\ UNCHANGED wire
    <2>1. PICK error \in {"request", "timeout"} :
             Again(lastStatusCode, error) /\ UNCHANGED wire
      BY <1>3
    <2>2. error \in Errors
      BY <1>1, <2>1
    <2>3. /\ attempt' = attempt + 1 /\ attempt' \in 0 .. MaxAttempts
          /\ lastStatusCode' = lastStatusCode /\ lastError' = error
          /\ \/ pc' = "backoff" /\ result' = Nothing /\ attempt + 1 < MaxAttempts
             \/ /\ pc' = "done" /\ result' \in Results /\ result' # Nothing
                /\ result'.attempts = attempt + 1 /\ result'.statusCode = lastStatusCode
      BY <1>1, <2>1, <2>2, AgainEffect
    <2>4. TypeOK'
      BY <1>1, <1>2, <2>1, <2>2, <2>3 DEF TypeOK
    <2>5. Counting'
      BY <1>1, <1>2, <2>3 DEF Counting
    <2>6. Traffic'
      BY <1>1, <1>2, <2>1 DEF Traffic, TypeOK
    <2>7. Heard'
      BY <1>2, <2>3 DEF Heard, Given
    <2> QED
      BY <2>4, <2>5, <2>6, <2>7
  <1>4. CASE /\ pc' = "waiting" /\ wire' = wire \cup {attempt + 1}
             /\ UNCHANGED <<attempt, lastStatusCode, lastError, result>>
    <2>1. TypeOK'
      BY <1>1, <1>2, <1>4 DEF TypeOK
    <2>2. Counting'
      BY <1>1, <1>2, <1>4 DEF Counting
    <2>3. Traffic'
      BY <1>1, <1>2, <1>4 DEF Traffic, TypeOK
    <2>4. Heard'
      BY <1>1, <1>2, <1>4 DEF Heard, Given
    <2> QED
      BY <2>1, <2>2, <2>3, <2>4
  <1> QED
    BY <1>3, <1>4 DEF StartAttempt

\* The context ends in a backoff.
LEMMA CancelBackoffStep == ASSUME IInv, CancelBackoff PROVE IInv'
  <1> USE DEF IInv
  <1>1. /\ attempt \in Nat /\ begun = attempt /\ "cancelled" \in Errors
        /\ lastStatusCode \in Statuses \cup {Nothing}
    BY DEF CancelBackoff, Counting, TypeOK, Errors
  <1>2. Report(FALSE, lastStatusCode, attempt, "cancelled")
    BY DEF CancelBackoff, CancelledAttempts
  <1>3. /\ pc' = "done" /\ result' \in Results /\ result' # Nothing
        /\ result'.attempts = attempt /\ result'.statusCode = lastStatusCode
    BY <1>1, <1>2, ReportEffect
  <1>4. UNCHANGED <<urlParses, attempt, lastStatusCode, lastError, begun, ctxDone,
                    wire, handled, answer>>
    BY DEF CancelBackoff
  <1>5. TypeOK' /\ Counting' /\ Traffic'
    BY <1>1, <1>3, <1>4 DEF TypeOK, Counting, Traffic
  <1>6. Heard'
    BY <1>3, <1>4 DEF Heard, Given
  <1> QED
    BY <1>5, <1>6

\* An answer ends the delivery or the attempt.
LEMMA ReceiveStep == ASSUME IInv, ReceiveAnswer PROVE IInv'
  <1> USE DEF IInv
  <1>1. /\ attempt < MaxAttempts /\ begun = attempt + 1 /\ result = Nothing /\ attempt \in Nat
        /\ answer \in Statuses /\ {"none", "http"} \subseteq Errors
        /\ [attempt |-> attempt + 1, status |-> answer] \in handled
    BY DEF ReceiveAnswer, Counting, TypeOK, Errors, Heard
  <1>2. Given(answer)
    BY <1>1 DEF Given
  <1>3. UNCHANGED <<urlParses, begun, ctxDone, wire, handled, answer>>
    BY DEF ReceiveAnswer
  <1>4. CASE \E success \in BOOLEAN, error \in {"none", "http"} :
                /\ Report(success, answer, attempt + 1, error)
                /\ lastStatusCode' = answer /\ UNCHANGED <<attempt, lastError>>
    <2>1. PICK success \in BOOLEAN, error \in {"none", "http"} :
                /\ Report(success, answer, attempt + 1, error)
                /\ lastStatusCode' = answer /\ UNCHANGED <<attempt, lastError>>
      BY <1>4
    <2>2. error \in Errors /\ attempt + 1 \in Nat
      BY <1>1, <2>1
    <2>3. /\ pc' = "done" /\ result' \in Results /\ result' # Nothing
          /\ result'.attempts = attempt + 1 /\ result'.statusCode = answer
      BY <1>1, <2>1, <2>2, ReportEffect
    <2>4. TypeOK' /\ Counting' /\ Traffic'
      BY <1>1, <1>3, <2>1, <2>3 DEF TypeOK, Counting, Traffic
    <2>5. Heard'
      BY <1>2, <1>3, <2>1, <2>3 DEF Heard, Given
    <2> QED
      BY <2>4, <2>5
  <1>5. CASE Again(answer, "http")
    <2>1. /\ attempt' = attempt + 1 /\ attempt' \in 0 .. MaxAttempts
          /\ lastStatusCode' = answer /\ lastError' = "http"
          /\ \/ pc' = "backoff" /\ result' = Nothing /\ attempt + 1 < MaxAttempts
             \/ /\ pc' = "done" /\ result' \in Results /\ result' # Nothing
                /\ result'.attempts = attempt + 1 /\ result'.statusCode = answer
      BY <1>1, <1>5, AgainEffect
    <2>2. TypeOK' /\ Counting' /\ Traffic'
      BY <1>1, <1>3, <2>1 DEF TypeOK, Counting, Traffic
    <2>3. Heard'
      BY <1>2, <1>3, <2>1 DEF Heard, Given
    <2> QED
      BY <2>2, <2>3
  <1> QED
    BY <1>4, <1>5 DEF ReceiveAnswer

\* An attempt ends without an answer.
LEMMA FailStep == ASSUME IInv, AttemptFails PROVE IInv'
  <1> USE DEF IInv
  <1>1. /\ attempt < MaxAttempts /\ begun = attempt + 1 /\ result = Nothing /\ attempt \in Nat
        /\ lastStatusCode \in Statuses \cup {Nothing} /\ DoError \in Errors
    BY DEF AttemptFails, Counting, TypeOK, Errors, DoError
  <1>2. /\ Again(lastStatusCode, DoError)
        /\ UNCHANGED <<urlParses, begun, ctxDone, wire, handled, answer>>
    BY DEF AttemptFails
  <1>3. /\ attempt' = attempt + 1 /\ attempt' \in 0 .. MaxAttempts
        /\ lastStatusCode' = lastStatusCode /\ lastError' = DoError
        /\ \/ pc' = "backoff" /\ result' = Nothing /\ attempt + 1 < MaxAttempts
           \/ /\ pc' = "done" /\ result' \in Results /\ result' # Nothing
              /\ result'.attempts = attempt + 1 /\ result'.statusCode = lastStatusCode
    BY <1>1, <1>2, AgainEffect
  <1>4. TypeOK' /\ Counting' /\ Traffic'
    BY <1>1, <1>2, <1>3 DEF TypeOK, Counting, Traffic
  <1>5. Heard'
    BY <1>2, <1>3 DEF Heard, Given
  <1> QED
    BY <1>4, <1>5

\* The receiver handles an attempt, whether or not the sender still waits for it.
LEMMA ReceiverStep ==
  ASSUME IInv, NEW n \in wire, ReceiverHandles(n) PROVE IInv'
  <1> USE DEF IInv
  <1>1. PICK status \in Statuses :
          /\ handled' = handled \cup {[attempt |-> n, status |-> status]}
          /\ answer' = IF pc = "waiting" /\ n = attempt + 1 THEN status ELSE answer
    BY DEF ReceiverHandles
  <1>2. /\ wire' = wire \ {n} /\ n \in 1 .. begun /\ n \in 1 .. MaxAttempts
        /\ UNCHANGED <<urlParses, pc, attempt, lastStatusCode, lastError, result, begun,
                       ctxDone>>
    BY DEF ReceiverHandles, Traffic, TypeOK
  <1>3. TypeOK'
    BY <1>1, <1>2 DEF TypeOK
  <1>4. Counting' /\ Traffic'
    BY <1>1, <1>2 DEF Counting, Traffic
  <1>5. Heard'
    <2>1. \A s : Given(s) => Given(s)'
      BY <1>1 DEF Given
    <2> QED
      BY <1>1, <1>2, <2>1 DEF Heard
  <1> QED
    BY <1>3, <1>4, <1>5

\* Every step keeps the invariant.
LEMMA StepIInv == IInv /\ [Next]_vars => IInv'
  <1> SUFFICES ASSUME IInv, [Next]_vars PROVE IInv'
    OBVIOUS
  <1>1. CASE Cancel
    BY <1>1 DEF Cancel, IInv, TypeOK, Counting, Traffic, Heard, Given
  <1>2. CASE UNCHANGED vars
    BY <1>2 DEF vars, IInv, TypeOK, Counting, Traffic, Heard, Given
  <1> QED
    BY <1>1, <1>2, StartStep, CancelBackoffStep, ReceiveStep, FailStep, ReceiverStep
    DEF Next

\* The inductive invariant holds in every reachable state of deliverWithRetry.
THEOREM Invariance == Spec => []IInv
  BY InitIInv, StepIInv, PTL DEF Spec

\* The types of deliverWithRetry's variables and of what is on the wire.
THEOREM TypeCorrect == Spec => []TypeOK
  <1>1. IInv => TypeOK
    BY DEF IInv
  <1> QED
    BY <1>1, Invariance, PTL

\* The report of SendTest agrees with the attempts begun, with what the receiver
\* saw and with a status it gave, at all four places that build a result.
THEOREM ReportIsTrue == Spec => []ResultMatchesAttempts
  <1>1. IInv => ResultMatchesAttempts
    <2> SUFFICES ASSUME IInv, result # Nothing
                 PROVE  /\ result.attempts = begun
                        /\ wire \cup Answered(Statuses) \subseteq 1 .. result.attempts
                        /\ result.statusCode # Nothing => Answered({result.statusCode}) # {}
      BY DEF ResultMatchesAttempts
    <2>1. result.attempts = begun
      BY DEF IInv, Counting
    <2>2. wire \cup Answered(Statuses) \subseteq 1 .. begun
      BY DEF IInv, Traffic, Answered
    <2>3. result.statusCode # Nothing => Answered({result.statusCode}) # {}
      <3> SUFFICES ASSUME result.statusCode # Nothing
                   PROVE  Answered({result.statusCode}) # {}
        OBVIOUS
      <3>1. PICK h \in handled : h.status = result.statusCode
        BY DEF IInv, Heard, Given
      <3>2. h.attempt \in Answered({result.statusCode})
        BY <3>1 DEF Answered
      <3> QED
        BY <3>2
    <2> QED
      BY <2>1, <2>2, <2>3
  <1> QED
    BY <1>1, Invariance, PTL

\* Every step keeps the error of a result true, and records it truly when it makes
\* the result.
LEMMA ErrorStep ==
  ASSUME IInv, ErrorIsOfLastAttempt, [Next]_vars
  PROVE  ErrorIsOfLastAttempt'
  <1> USE DEF IInv
  <1>1. CASE StartAttempt
    <2>1. /\ result = Nothing /\ attempt < MaxAttempts /\ ctxDone' = ctxDone
          /\ lastStatusCode \in Statuses \cup {Nothing} /\ {"request", "timeout"} \subseteq Errors
      BY <1>1 DEF StartAttempt, Ready, Counting, TypeOK, Errors
    <2>2. CASE result' = result
      BY <2>1, <2>2 DEF ErrorIsOfLastAttempt
    <2>3. ASSUME NEW error \in {"request", "timeout"}, Again(lastStatusCode, error),
                 error = "timeout" => ctxDone
          PROVE  ErrorIsOfLastAttempt'
      <3>1. result' = Nothing \/ result'.error = error
        BY <2>1, <2>3, AgainEffect
      <3>2. QED
        BY <2>1, <2>3, <3>1 DEF ErrorIsOfLastAttempt
    <2>4. QED
      BY <1>1, <2>2, <2>3 DEF StartAttempt
  <1>2. CASE CancelBackoff
    <2>1. /\ Report(FALSE, lastStatusCode, attempt, "cancelled") /\ ctxDone /\ ctxDone'
          /\ attempt \in Nat /\ lastStatusCode \in Statuses \cup {Nothing}
          /\ "cancelled" \in Errors /\ FALSE \in BOOLEAN
      <3>1. Report(FALSE, lastStatusCode, attempt, "cancelled") /\ ctxDone /\ ctxDone' = ctxDone
        BY <1>2 DEF CancelBackoff, CancelledAttempts
      <3>2. attempt \in Nat /\ lastStatusCode \in Statuses \cup {Nothing} /\ "cancelled" \in Errors
        BY DEF TypeOK, Errors
      <3>3. QED
        BY <3>1, <3>2, Zenon
    <2>2. result'.error = "cancelled"
      BY <2>1, ReportEffect
    <2>3. QED
      BY <2>1, <2>2 DEF ErrorIsOfLastAttempt
  <1>3. CASE ReceiveAnswer
    <2>1. /\ attempt < MaxAttempts /\ result = Nothing /\ attempt \in Nat
          /\ answer \in Statuses /\ {"none", "http"} \subseteq Errors
          /\ [attempt |-> attempt + 1, status |-> answer] \in handled /\ handled' = handled
      BY <1>3 DEF ReceiveAnswer, Counting, TypeOK, Errors, Heard
    <2>2. \/ \E success \in BOOLEAN, error \in {"none", "http"} :
                Report(success, answer, attempt + 1, error)
          \/ Again(answer, "http")
      BY <1>3 DEF ReceiveAnswer
    <2>3. \/ result' = Nothing
          \/ /\ result'.attempts = attempt + 1 /\ result'.statusCode = answer
             /\ result'.error \in {"none", "http"}
      <3>1. ASSUME NEW success \in BOOLEAN, NEW error \in {"none", "http"},
                   Report(success, answer, attempt + 1, error)
            PROVE  /\ result'.attempts = attempt + 1 /\ result'.statusCode = answer
                   /\ result'.error \in {"none", "http"}
        <4>1. error \in Errors /\ attempt + 1 \in Nat
          BY <2>1
        <4>2. QED
          BY <2>1, <3>1, <4>1, ReportEffect
      <3>2. ASSUME Again(answer, "http")
            PROVE  \/ result' = Nothing
                   \/ /\ result'.attempts = attempt + 1 /\ result'.statusCode = answer
                      /\ result'.error \in {"none", "http"}
        BY <2>1, <3>2, AgainEffect
      <3>3. QED
        BY <2>2, <3>1, <3>2
    <2>4. QED
      BY <2>1, <2>3 DEF ErrorIsOfLastAttempt
  <1>4. CASE AttemptFails
    <2>1. /\ attempt < MaxAttempts /\ result = Nothing /\ Again(lastStatusCode, DoError)
          /\ lastStatusCode \in Statuses \cup {Nothing} /\ DoError \in Errors
          /\ ctxDone' = ctxDone
      BY <1>4 DEF AttemptFails, Counting, TypeOK, Errors, DoError
    <2>2. result' = Nothing \/ result'.error = DoError
      BY <2>1, AgainEffect
    <2>3. QED
      BY <2>1, <2>2 DEF ErrorIsOfLastAttempt, DoError
  <1>5. CASE Cancel
    BY <1>5 DEF Cancel, ErrorIsOfLastAttempt
  <1>6. ASSUME NEW n \in wire, ReceiverHandles(n) PROVE ErrorIsOfLastAttempt'
    <2>1. handled \subseteq handled' /\ UNCHANGED <<result, ctxDone>>
      BY <1>6 DEF ReceiverHandles
    <2>2. QED
      BY <2>1 DEF ErrorIsOfLastAttempt
  <1>7. CASE UNCHANGED vars
    BY <1>7 DEF vars, ErrorIsOfLastAttempt
  <1>8. QED
    BY <1>1, <1>2, <1>3, <1>4, <1>5, <1>6, <1>7 DEF Next

\* Whatever answers come late and whenever the context ends, the error of a result
\* is that of the last attempt it counts.
THEOREM ErrorIsTrue == Spec => []ErrorIsOfLastAttempt
  <1>1. Init => ErrorIsOfLastAttempt
    BY DEF Init, ErrorIsOfLastAttempt
  <1>2. IInv /\ ErrorIsOfLastAttempt /\ [Next]_vars => ErrorIsOfLastAttempt'
    BY ErrorStep
  <1> QED
    BY <1>1, <1>2, Invariance, PTL DEF Spec

-------------------------------------------------------------------------------
(* The sender implements BoundedDelivery.                                   *)

\* The initial states map to initial states.
LEMMA InitRefines == Init => Delivery!Init
  BY DEF Init, Delivery!Init, Answered, Outcome

\* The receiver's record changes only when the receiver handles an attempt.
LEMMA AnsweredFrame ==
  ASSUME UNCHANGED handled PROVE \A S : UNCHANGED Answered(S)
  BY DEF Answered

\* An attempt that ends the delivery or not, without an answer that settles it.
LEMMA OutcomeOfAgain ==
  ASSUME IInv, attempt < MaxAttempts, result = Nothing,
         NEW status \in Statuses \cup {Nothing}, NEW error \in Errors, Again(status, error)
  PROVE  /\ Outcome = "pending" /\ Outcome' \in {"pending", "given_up"}
         /\ Outcome' = "given_up" => attempt + 1 = MaxAttempts
  <1>1. \/ pc' = "backoff" /\ result' = Nothing
        \/ attempt + 1 = MaxAttempts /\ result' # Nothing /\ result'.success = FALSE
    BY AgainEffect DEF IInv
  <1> QED
    BY <1>1 DEF Outcome

\* Beginning an attempt, sent or not, is the abstract Attempt.
LEMMA StartRefines == ASSUME IInv, StartAttempt PROVE Delivery!Attempt
  <1>1. /\ attempt < MaxAttempts /\ begun = attempt /\ result = Nothing /\ attempt \in Nat
        /\ lastStatusCode \in Statuses \cup {Nothing} /\ {"request", "timeout"} \subseteq Errors
    BY DEF StartAttempt, Ready, IInv, Counting, TypeOK, Errors
  <1>2. begun' = begun + 1 /\ UNCHANGED <<handled, ctxDone>>
    BY DEF StartAttempt
  <1>3. /\ Outcome = "pending" /\ Outcome' \in {"pending", "given_up"}
        /\ Outcome' = "given_up" => attempt + 1 = MaxAttempts
    <2>1. CASE \E error \in {"request", "timeout"} : Again(lastStatusCode, error)
      BY <1>1, <2>1, OutcomeOfAgain
    <2>2. CASE UNCHANGED result
      BY <1>1, <2>2 DEF Outcome
    <2> QED
      BY <2>1, <2>2 DEF StartAttempt
  <1>4. \A S : UNCHANGED Answered(S)
    BY <1>2, AnsweredFrame
  <1> QED
    BY <1>1, <1>2, <1>3, <1>4 DEF Delivery!Attempt

\* Giving up in a backoff is the abstract GiveUp after a cancellation.
LEMMA CancelBackoffRefines == ASSUME IInv, CancelBackoff PROVE Delivery!GiveUp
  <1>1. /\ attempt \in Nat /\ "cancelled" \in Errors /\ result = Nothing
        /\ lastStatusCode \in Statuses \cup {Nothing}
    BY DEF CancelBackoff, IInv, Counting, TypeOK, Errors
  <1>2. Report(FALSE, lastStatusCode, attempt, "cancelled")
    BY DEF CancelBackoff, CancelledAttempts
  <1>3. result' # Nothing /\ result'.success = FALSE
    BY <1>1, <1>2, ReportEffect
  <1>4. Outcome = "pending" /\ Outcome' = "given_up"
    BY <1>1, <1>3 DEF Outcome
  <1>5. ctxDone /\ UNCHANGED <<begun, handled, ctxDone>>
    BY DEF CancelBackoff
  <1>6. \A S : UNCHANGED Answered(S)
    BY <1>5, AnsweredFrame
  <1> QED
    BY <1>4, <1>5, <1>6 DEF Delivery!GiveUp

\* An answer delivers, gives up, or leaves the delivery pending.
LEMMA ReceiveRefines ==
  ASSUME IInv, ReceiveAnswer
  PROVE  Delivery!Deliver \/ Delivery!GiveUp \/ UNCHANGED Delivery!vars
  <1>1. /\ attempt < MaxAttempts /\ begun = attempt + 1 /\ result = Nothing /\ attempt \in Nat
        /\ answer \in Statuses /\ {"none", "http"} \subseteq Errors
        /\ [attempt |-> attempt + 1, status |-> answer] \in handled
    BY DEF ReceiveAnswer, IInv, Counting, TypeOK, Errors, Heard
  <1>2. begun \in Answered({answer}) /\ attempt + 1 \in Nat
    BY <1>1 DEF Answered
  <1>3. UNCHANGED <<begun, handled, ctxDone>>
    BY DEF ReceiveAnswer
  <1>4. \A S : UNCHANGED Answered(S)
    BY <1>3, AnsweredFrame
  <1>5. Outcome = "pending"
    BY <1>1 DEF Outcome
  <1>6. CASE answer = "2xx" /\ Report(TRUE, answer, attempt + 1, "none")
    <2>1. result' # Nothing /\ result'.success = TRUE
      BY <1>1, <1>2, <1>6, ReportEffect
    <2>2. Outcome' = "delivered"
      BY <2>1 DEF Outcome
    <2> QED
      BY <1>2, <1>3, <1>4, <1>5, <1>6, <2>2 DEF Delivery!Deliver
  <1>7. CASE answer = "4xx" /\ Report(FALSE, answer, attempt + 1, "http")
    <2>1. result' # Nothing /\ result'.success = FALSE
      BY <1>1, <1>2, <1>7, ReportEffect
    <2>2. Outcome' = "given_up"
      BY <2>1 DEF Outcome
    <2> QED
      BY <1>2, <1>3, <1>4, <1>5, <1>7, <2>2 DEF Delivery!GiveUp
  <1>8. CASE Again(answer, "http")
    <2>1. /\ Outcome' \in {"pending", "given_up"}
          /\ Outcome' = "given_up" => begun = MaxAttempts
      BY <1>1, <1>8, OutcomeOfAgain
    <2> QED
      BY <1>3, <1>4, <1>5, <2>1 DEF Delivery!GiveUp, Delivery!vars
  <1> QED
    BY <1>6, <1>7, <1>8 DEF ReceiveAnswer, Succeeded, Permanent

\* An attempt without an answer gives up or leaves the delivery pending.
LEMMA FailRefines ==
  ASSUME IInv, AttemptFails
  PROVE  Delivery!GiveUp \/ UNCHANGED Delivery!vars
  <1>1. /\ attempt < MaxAttempts /\ begun = attempt + 1 /\ result = Nothing
        /\ lastStatusCode \in Statuses \cup {Nothing} /\ DoError \in Errors
    BY DEF AttemptFails, IInv, Counting, TypeOK, Errors, DoError
  <1>2. Again(lastStatusCode, DoError) /\ UNCHANGED <<begun, handled, ctxDone>>
    BY DEF AttemptFails
  <1>3. /\ Outcome = "pending" /\ Outcome' \in {"pending", "given_up"}
        /\ Outcome' = "given_up" => begun = MaxAttempts
    BY <1>1, <1>2, OutcomeOfAgain
  <1>4. \A S : UNCHANGED Answered(S)
    BY <1>2, AnsweredFrame
  <1> QED
    BY <1>2, <1>3, <1>4 DEF Delivery!GiveUp, Delivery!vars

\* The receiver handles an attempt it has not seen yet.
LEMMA ReceiverRefines ==
  ASSUME IInv, NEW n \in wire, ReceiverHandles(n)
  PROVE  n \in 1 .. begun /\ Delivery!Arrive(n)
  <1>1. PICK status \in Statuses :
          handled' = handled \cup {[attempt |-> n, status |-> status]}
    BY DEF ReceiverHandles
  <1>2. UNCHANGED <<begun, ctxDone, result>> /\ n \in 1 .. begun
    BY DEF ReceiverHandles, IInv, Traffic
  <1>3. \A S : Answered(S)' = IF status \in S THEN Answered(S) \cup {n} ELSE Answered(S)
    <2> SUFFICES ASSUME NEW S, NEW m
                 PROVE  m \in Answered(S)' <=> m \in Answered(S) \/ (status \in S /\ m = n)
      BY DEF Answered
    <2>1. m \in Answered(S)' <=> \E h \in handled' : h.status \in S /\ h.attempt = m
      BY DEF Answered
    <2>2. m \in Answered(S) <=> \E h \in handled : h.status \in S /\ h.attempt = m
      BY DEF Answered
    <2> DEFINE g == [attempt |-> n, status |-> status]
    <2>3. g.attempt = n /\ g.status = status /\ handled' = handled \cup {g}
      BY <1>1
    <2> HIDE DEF g
    <2> QED
      BY <2>1, <2>2, <2>3
  <1>4. n \notin Answered(Statuses)
    BY DEF IInv, Traffic, Answered
  <1>5. UNCHANGED Outcome
    BY <1>2 DEF Outcome
  <1>6. Answered(Statuses)' = Answered(Statuses) \cup {n}
    BY <1>3
  <1>7. \/ /\ Answered({"2xx"})' = Answered({"2xx"}) \cup {n}
           /\ Answered({"4xx"})' = Answered({"4xx"})
        \/ /\ Answered({"4xx"})' = Answered({"4xx"}) \cup {n}
           /\ Answered({"2xx"})' = Answered({"2xx"})
        \/ /\ Answered({"2xx"})' = Answered({"2xx"})
           /\ Answered({"4xx"})' = Answered({"4xx"})
    BY <1>3
  <1> QED
    BY <1>2, <1>4, <1>5, <1>6, <1>7 DEF Delivery!Arrive

\* Every step of deliverWithRetry and its environment maps to a step or a stutter.
LEMMA StepRefines == IInv /\ [Next]_vars => [Delivery!Next]_(Delivery!vars)
  <1> SUFFICES ASSUME IInv, [Next]_vars PROVE [Delivery!Next]_(Delivery!vars)
    OBVIOUS
  <1>1. CASE Cancel
    <2>1. \A S : UNCHANGED Answered(S)
      BY <1>1, AnsweredFrame DEF Cancel
    <2> QED
      BY <1>1, <2>1 DEF Cancel, Outcome, Delivery!Cancel, Delivery!Next
  <1>2. CASE UNCHANGED vars
    BY <1>2 DEF vars, Answered, Outcome, Delivery!vars
  <1>3. CASE \E n \in wire : ReceiverHandles(n)
    BY <1>3, ReceiverRefines DEF Delivery!Next
  <1>4. CASE StartAttempt
    BY <1>4, StartRefines DEF Delivery!Next
  <1>5. CASE CancelBackoff
    BY <1>5, CancelBackoffRefines DEF Delivery!Next
  <1>6. CASE ReceiveAnswer
    BY <1>6, ReceiveRefines DEF Delivery!Next
  <1>7. CASE AttemptFails
    BY <1>7, FailRefines DEF Delivery!Next
  <1> QED
    BY <1>1, <1>2, <1>3, <1>4, <1>5, <1>6, <1>7 DEF Next

\* SendTest implements the bounded delivery: success is real, attempts are
\* bounded, and giving up has a reason.
THEOREM Refinement == Spec => ImplementsBoundedDelivery
  BY InitRefines, StepRefines, Invariance, PTL
  DEF Spec, ImplementsBoundedDelivery, Delivery!Spec
===============================================================================
