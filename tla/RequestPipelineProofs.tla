------------------------- MODULE RequestPipelineProofs ------------------------
(***************************************************************************)
(* Proofs about RequestPipeline, for any set of calls of any kind, any     *)
(* requirements and every authentication mode.                             *)
(*                                                                         *)
(* The promise of PaidCalls is not inductive: that a refused call stays    *)
(* uncharged depends on what is still on the wire.  IInv ties the three    *)
(* together: a call makes one signature, every paid request carries it,    *)
(* and for a request net/http does not repeat there is one paid request,   *)
(* which is either on the wire (and not charged yet) or answered.          *)
(*                                                                         *)
(* The second part is about what a call is told.  Ids keeps the request a  *)
(* JSON-RPC call makes apart from those of the other calls, and Truth      *)
(* follows what the server asks and answers to the outcome of the call.    *)
(***************************************************************************)
EXTENDS RequestPipeline, TLAPS

\* The one payment call c can make.
PaymentOf(c) == [call |-> c, offer |-> asked[c], nonce |-> 1]

PaidFor(m, c) == m.call = c /\ m.payment # Nothing

\* The control state of a call agrees with its request, result and signature.
ControlOf(c) ==
    /\ pc[c] \in {"idle", "done"} <=> request[c] = Nothing
    /\ request[c] # Nothing => request[c].call = c
    /\ result[c] = "pending" <=> pc[c] # "done"
    /\ pc[c] \in {"idle", "auth", "first", "sign"} => signatures[c] = 0
    /\ pc[c] \in {"auth", "first", "sign"} => request[c].payment = Nothing
    /\ pc[c] = "sign" => asked[c] # Nothing
    /\ pc[c] = "paid" => asked[c] # Nothing /\ request[c].payment = PaymentOf(c)
    /\ signatures[c] \in {0, 1}
    /\ pc[c] = "paid" => signatures[c] = 1

Control == \A c \in Calls : ControlOf(c)

\* A payment exists only once it is signed, and it is the only one of its call.
OnePayment ==
    /\ \A m \in wire \cup received : m.payment # Nothing =>
          m.payment = PaymentOf(m.call) /\ signatures[m.call] = 1
    /\ \A p \in settled : p = PaymentOf(p.call) /\ signatures[p.call] = 1
    /\ \A c \in Calls :
          \/ charges[c] = 0 /\ PaymentOf(c) \notin settled
          \/ charges[c] = 1 /\ PaymentOf(c) \in settled

\* Without replays, the paid request of a call is charged or still to come.
OnePaidRequestOf(c) ==
    ~Replayable(c) =>
        /\ pc[c] = "paid" => request[c].copy = 1
        /\ \A m, n \in wire : PaidFor(m, c) /\ PaidFor(n, c) => m = n
        /\ \A m \in wire : PaidFor(m, c) =>
              /\ charges[c] = 0
              /\ pc[c] = "paid" => m = request[c] /\ reply[c] = Nothing
        /\ pc[c] = "paid" /\ reply[c] # Nothing /\ reply[c].status = "402"
              => charges[c] = 0
        /\ result[c] = "payment_rejected" =>
              charges[c] = 0 /\ \A m \in wire : ~PaidFor(m, c)

OnePaidRequest == \A c \in Calls : OnePaidRequestOf(c)

\* Errors from before the payment leave nothing signed.
UnsignedErrors ==
    \A c \in Calls :
        result[c] \in {"invalid", "auth_error", "token_failed", "sign_error",
                       "payment_required"}
            => signatures[c] = 0

IInv ==
    /\ TypeOK
    /\ Control
    /\ OnePayment
    /\ OnePaidRequest
    /\ UnsignedErrors
-------------------------------------------------------------------------------
(* The inductive invariant, one lemma per conjunct.                        *)

\* Before any call is made the invariant holds.
LEMMA InitIInv == Init => IInv
BY NothingAssumption
DEF Init, IInv, TypeOK, Locations, Control, ControlOf, OnePayment, OnePaidRequest,
    OnePaidRequestOf, UnsignedErrors

\* Handing a request to net/http keeps the types.
LEMMA SendType ==
    ASSUME TypeOK, NEW c \in Calls, NEW m \in Requests, NEW location \in Locations,
           Send(c, m, location)
    PROVE  /\ pc' \in [Calls -> Locations]
           /\ request' \in [Calls -> Requests \cup {Nothing}]
           /\ reply' \in [Calls -> Replies \cup {Nothing}]
           /\ wire' \subseteq Requests
BY DEF TypeOK, Send

\* Ending a call keeps the types.
LEMMA ReturnType ==
    ASSUME TypeOK, NEW c \in Calls, NEW outcome \in Outcomes,
           NEW requirements \in Offers \cup {Nothing},
           Return(c, outcome, requirements)
    PROVE  /\ pc' \in [Calls -> Locations]
           /\ request' \in [Calls -> Requests \cup {Nothing}]
           /\ reply' \in [Calls -> Replies \cup {Nothing}]
           /\ result' \in [Calls -> Outcomes \cup {"pending"}]
           /\ carried' \in [Calls -> Offers \cup {Nothing}]
           /\ wire' \subseteq Requests
BY DEF TypeOK, Return, Locations

\* A call whose answer is neither an x402 402 nor lost returns.
LEMMA FinishReturns ==
    ASSUME TypeOK, NEW c \in Calls, reply[c] # Nothing, Finish(c)
    PROVE  \E outcome \in Outcomes \ {"payment_rejected", "invalid", "auth_error",
                                      "token_failed", "sign_error"},
              requirements \in Offers \cup {Nothing} :
               /\ Return(c, outcome, requirements)
               /\ outcome = "payment_required" => reply[c].status = "402"
<1>1. reply[c] \in Replies
  BY DEF TypeOK
<1>2. CASE reply[c].status \in {"402", "429", "failed"}
  BY <1>1, <1>2 DEF Finish, HTTPError, Outcomes, Replies
<1>3. CASE reply[c].status \notin {"402", "429", "failed"}
  BY <1>1, <1>3 DEF Finish, Decoded, Outcomes, Replies
<1>4. QED
  BY <1>2, <1>3

\* Every step of a call, of net/http and of the server keeps the types.
LEMMA TypeStep ==
    ASSUME IInv, [Next]_vars
    PROVE  TypeOK'
<1> USE DEF IInv
<1>1. ASSUME NEW c \in Calls, Begin(c) PROVE TypeOK'
  <2>1. nextID' \in Nat
    BY <1>1 DEF Begin, AdvanceID, TypeOK
  <2>2. FirstRequest(c, RequestID(c)) \in Requests
    BY DEF FirstRequest, RequestID, FirstBody, HasBody, Requests, TypeOK
  <2>3. CASE /\ pc' = [pc EXCEPT ![c] = "auth"]
             /\ request' = [request EXCEPT ![c] = FirstRequest(c, RequestID(c))]
             /\ UNCHANGED <<reply, result, carried, wire>>
    BY <1>1, <2>1, <2>2, <2>3 DEF Begin, TypeOK, Locations, server
  <2>4. CASE Send(c, FirstRequest(c, RequestID(c)), "first") /\ UNCHANGED <<result, carried>>
    <3>1. "first" \in Locations
      BY DEF Locations
    <3>2. QED
      BY <1>1, <2>1, <2>2, <2>4, <3>1, SendType DEF Begin, TypeOK, server
  <2>5. CASE Return(c, "invalid", Nothing)
    <3>1. "invalid" \in Outcomes
      BY DEF Outcomes
    <3>2. QED
      BY <1>1, <2>1, <2>5, <3>1, ReturnType DEF Begin, TypeOK, server
  <2>6. QED
    BY <1>1, <2>3, <2>4, <2>5 DEF Begin
<1>2. ASSUME NEW c \in Calls, Authenticate(c) PROVE TypeOK'
  <2>1. request[c] \in Requests
    BY <1>2 DEF Authenticate, Control, ControlOf, TypeOK
  <2>2. CASE Send(c, request[c], "first") /\ UNCHANGED <<result, carried>>
    <3>1. "first" \in Locations
      BY DEF Locations
    <3>2. QED
      BY <1>2, <2>1, <2>2, <3>1, SendType DEF Authenticate, TypeOK, server
  <2>3. CASE \E outcome \in {"auth_error", "token_failed"} : Return(c, outcome, Nothing)
    <3>1. {"auth_error", "token_failed"} \subseteq Outcomes
      BY DEF Outcomes
    <3>2. QED
      BY <1>2, <2>3, <3>1, ReturnType DEF Authenticate, TypeOK, server
  <2>4. QED
    BY <1>2, <2>2, <2>3 DEF Authenticate
<1>3. ASSUME NEW c \in Calls, ConnectionFails(c) PROVE TypeOK'
  <2>1. "request_failed" \in Outcomes
    BY DEF Outcomes
  <2>2. QED
    BY <1>3, <2>1, ReturnType DEF ConnectionFails, TypeOK, server
<1>4. ASSUME NEW c \in Calls, Resend(c) PROVE TypeOK'
  <2>1. request[c] \in Requests
    BY <1>4 DEF Resend, Control, ControlOf, TypeOK
  <2>2. [request[c] EXCEPT !.copy = 2] \in Requests
    BY <2>1 DEF Requests
  <2>3. QED
    BY <1>4, <2>2, SendType DEF Resend, TypeOK, server
<1>5. ASSUME NEW c \in Calls, ReceiveFirst(c) PROVE TypeOK'
  <2>1. reply[c] \in Replies /\ reply[c].offer \in Offers \cup {Nothing}
    BY <1>5 DEF ReceiveFirst, TypeOK, Replies
  <2>2. CASE Finish(c) /\ UNCHANGED asked
    BY <1>5, <2>2, FinishReturns, ReturnType DEF ReceiveFirst, TypeOK, server
  <2>3. CASE Return(c, "payment_required", reply[c].offer) /\ UNCHANGED asked
    <3>1. "payment_required" \in Outcomes
      BY DEF Outcomes
    <3>2. QED
      BY <1>5, <2>1, <2>3, <3>1, ReturnType DEF ReceiveFirst, TypeOK, server
  <2>4. CASE /\ pc' = [pc EXCEPT ![c] = "sign"]
             /\ asked' = [asked EXCEPT ![c] = reply[c].offer]
             /\ reply' = [reply EXCEPT ![c] = Nothing]
             /\ UNCHANGED <<request, result, carried, wire>>
    BY <1>5, <2>1, <2>4 DEF ReceiveFirst, TypeOK, Locations, server
  <2>5. QED
    BY <1>5, <2>2, <2>3, <2>4 DEF ReceiveFirst
<1>6. ASSUME NEW c \in Calls, SignAndRetry(c) PROVE TypeOK'
  <2>1. request[c] \in Requests /\ asked[c] \in Offers
    BY <1>6 DEF SignAndRetry, Control, ControlOf, TypeOK
  <2>2. CASE signatures' = [signatures EXCEPT ![c] = @ + 1]
    <3> DEFINE m == [request[c] EXCEPT
                       !.body = RetryBody(c),
                       !.payment = [call |-> c, offer |-> asked[c],
                                    nonce |-> signatures'[c]],
                       !.copy = 1]
    <3>1. signatures' \in [Calls -> Nat]
      BY <2>2 DEF TypeOK
    <3>2. [call |-> c, offer |-> asked[c], nonce |-> signatures'[c]] \in Payments
      BY <2>1, <3>1 DEF Payments
    <3>3. RetryBody(c) \in {"none", "bytes", "consumed"}
      BY DEF RetryBody
    <3>4. m \in Requests
      BY <2>1, <3>2, <3>3 DEF Requests
    <3>5. CASE Send(c, m, "paid") /\ UNCHANGED <<result, carried>>
      <4>1. "paid" \in Locations
        BY DEF Locations
      <4>2. HIDE DEF m
      <4>3. QED
        BY <1>6, <3>1, <3>4, <3>5, <4>1, SendType DEF SignAndRetry, TypeOK, server
    <3>6. CASE Return(c, "sign_error", Nothing)
      <4>1. "sign_error" \in Outcomes
        BY DEF Outcomes
      <4>2. QED
        BY <1>6, <3>1, <3>6, <4>1, ReturnType DEF SignAndRetry, TypeOK, server
    <3>7. QED
      BY <1>6, <3>5, <3>6 DEF SignAndRetry
  <2>3. CASE Return(c, "sign_error", Nothing) /\ UNCHANGED signatures
    <3>1. "sign_error" \in Outcomes
      BY DEF Outcomes
    <3>2. QED
      BY <1>6, <2>3, <3>1, ReturnType DEF SignAndRetry, TypeOK, server
  <2>4. QED
    BY <1>6, <2>2, <2>3 DEF SignAndRetry
<1>7. ASSUME NEW c \in Calls, ReceivePaid(c) PROVE TypeOK'
  <2>1. CASE Return(c, "payment_rejected", asked[c])
    <3>1. "payment_rejected" \in Outcomes /\ asked[c] \in Offers \cup {Nothing}
      BY DEF Outcomes, TypeOK
    <3>2. QED
      BY <1>7, <2>1, <3>1, ReturnType DEF ReceivePaid, TypeOK, server
  <2>2. CASE Finish(c)
    BY <1>7, <2>2, FinishReturns, ReturnType DEF ReceivePaid, TypeOK, server
  <2>3. QED
    BY <1>7, <2>1, <2>2 DEF ReceivePaid
<1>8. ASSUME NEW m \in wire, ServerHandles(m) PROVE TypeOK'
  BY <1>8 DEF ServerHandles, AnswersTo, client, TypeOK, Requests, Replies
<1>9. CASE UNCHANGED vars
  BY <1>9 DEF vars, TypeOK
<1>10. QED
  BY <1>1, <1>2, <1>3, <1>4, <1>5, <1>6, <1>7, <1>8, <1>9 DEF Next, Proceed

\* A step of one call leaves the others alone.
LEMMA ControlFrame ==
    ASSUME Control, NEW c \in Calls, ControlOf(c)',
           \A d \in Calls \ {c} :
              /\ pc'[d] = pc[d] /\ request'[d] = request[d] /\ reply'[d] = reply[d]
              /\ asked'[d] = asked[d] /\ result'[d] = result[d]
              /\ signatures'[d] = signatures[d]
    PROVE  Control'
<1>1. ASSUME NEW d \in Calls, d # c PROVE ControlOf(d)'
  BY <1>1 DEF Control, ControlOf, PaymentOf
<1>2. QED
  BY <1>1 DEF Control

\* What Send does at each call.
LEMMA SendEffect ==
    ASSUME TypeOK, NEW c \in Calls, NEW m, NEW location, Send(c, m, location)
    PROVE  /\ pc'[c] = location /\ request'[c] = m /\ reply'[c] = Nothing
           /\ wire' = wire \cup {m}
           /\ \A d \in Calls \ {c} :
                 pc'[d] = pc[d] /\ request'[d] = request[d] /\ reply'[d] = reply[d]
BY DEF TypeOK, Send

\* What Return does at each call.
LEMMA ReturnEffect ==
    ASSUME TypeOK, NEW c \in Calls, NEW outcome, NEW requirements,
           Return(c, outcome, requirements)
    PROVE  /\ pc'[c] = "done" /\ request'[c] = Nothing /\ reply'[c] = Nothing
           /\ result'[c] = outcome /\ wire' = wire
           /\ \A d \in Calls \ {c} :
                 /\ pc'[d] = pc[d] /\ request'[d] = request[d] /\ reply'[d] = reply[d]
                 /\ result'[d] = result[d]
BY DEF TypeOK, Return

\* A call that returns is done, whatever it had signed.
LEMMA ReturnControl ==
    ASSUME TypeOK, Control, NEW c \in Calls, NEW outcome \in Outcomes, NEW requirements,
           Return(c, outcome, requirements), UNCHANGED signatures, UNCHANGED asked
    PROVE  Control'
<1>1. outcome # "pending"
  BY DEF Outcomes
<1>2. ControlOf(c)'
  BY <1>1, ReturnEffect DEF Control, ControlOf
<1>3. QED
  BY <1>2, ReturnEffect, ControlFrame

\* The control state of a call agrees with its request, result and signature.
LEMMA ControlStep ==
    ASSUME IInv, [Next]_vars
    PROVE  Control'
<1> USE DEF IInv
<1>1. ASSUME NEW c \in Calls, Begin(c) PROVE Control'
  <2> DEFINE m == FirstRequest(c, RequestID(c))
  <2>1. m \in Requests /\ m.call = c /\ m.payment = Nothing
    BY DEF FirstRequest, RequestID, FirstBody, HasBody, Requests, TypeOK
  <2>2. m # Nothing
    BY <2>1, NothingAssumption
  <2>3. UNCHANGED <<asked, signatures>>
    BY <1>1 DEF Begin
  <2>4. CASE /\ pc' = [pc EXCEPT ![c] = "auth"]
             /\ request' = [request EXCEPT ![c] = m]
             /\ UNCHANGED <<reply, result, carried, wire>>
    <3>1. ControlOf(c)'
      BY <1>1, <2>1, <2>2, <2>3, <2>4 DEF Begin, TypeOK, Control, ControlOf
    <3>2. QED
      BY <2>3, <2>4, <3>1, ControlFrame DEF TypeOK
  <2>5. CASE Send(c, m, "first") /\ UNCHANGED <<result, carried>>
    <3>1. ControlOf(c)'
      BY <1>1, <2>1, <2>2, <2>3, <2>5, SendEffect DEF Begin, Control, ControlOf
    <3>2. QED
      BY <2>3, <2>5, <3>1, SendEffect, ControlFrame
  <2>6. CASE Return(c, "invalid", Nothing)
    BY <2>3, <2>6, ReturnControl DEF Outcomes
  <2>7. QED
    BY <1>1, <2>4, <2>5, <2>6 DEF Begin
<1>2. ASSUME NEW c \in Calls, Authenticate(c) PROVE Control'
  <2>1. UNCHANGED <<asked, signatures>> /\ pc[c] = "auth"
    BY <1>2 DEF Authenticate
  <2>2. CASE Send(c, request[c], "first") /\ UNCHANGED <<result, carried>>
    <3>1. ControlOf(c)'
      BY <2>1, <2>2, SendEffect DEF Control, ControlOf
    <3>2. QED
      BY <2>1, <2>2, <3>1, SendEffect, ControlFrame
  <2>3. CASE \E outcome \in {"auth_error", "token_failed"} : Return(c, outcome, Nothing)
    BY <2>1, <2>3, ReturnControl DEF Outcomes
  <2>4. QED
    BY <1>2, <2>2, <2>3 DEF Authenticate
<1>3. ASSUME NEW c \in Calls, ConnectionFails(c) PROVE Control'
  BY <1>3, ReturnControl DEF ConnectionFails, Outcomes
<1>4. ASSUME NEW c \in Calls, Resend(c) PROVE Control'
  <2> DEFINE m == [request[c] EXCEPT !.copy = 2]
  <2>1. request[c] \in Requests
    BY <1>4 DEF Resend, Control, ControlOf, TypeOK
  <2>2. m \in Requests /\ m.call = request[c].call /\ m.payment = request[c].payment
    BY <2>1 DEF Requests
  <2>3. m # Nothing
    BY <2>2, NothingAssumption
  <2>4. Send(c, m, pc[c]) /\ UNCHANGED <<asked, signatures, result>>
    BY <1>4 DEF Resend
  <2>5. pc'[c] = pc[c] /\ request'[c] = m /\ pc[c] \in {"first", "paid"}
    BY <1>4, <2>4, SendEffect DEF Resend
  <2>6. request[c] # Nothing /\ ControlOf(c)
    BY <2>1, NothingAssumption DEF Control
  <2>7. HIDE DEF m
  <2>8. ControlOf(c)'
    BY <2>2, <2>3, <2>4, <2>5, <2>6 DEF ControlOf, PaymentOf
  <2>9. QED
    BY <2>4, <2>8, SendEffect, ControlFrame
<1>5. ASSUME NEW c \in Calls, ReceiveFirst(c) PROVE Control'
  <2>1. UNCHANGED signatures /\ pc[c] = "first" /\ reply[c] # Nothing
    BY <1>5 DEF ReceiveFirst
  <2>2. CASE Finish(c) /\ UNCHANGED asked
    BY <2>1, <2>2, FinishReturns, ReturnControl
  <2>3. CASE Return(c, "payment_required", reply[c].offer) /\ UNCHANGED asked
    BY <2>1, <2>3, ReturnControl DEF Outcomes
  <2>4. CASE /\ Payable(reply[c].offer)
             /\ pc' = [pc EXCEPT ![c] = "sign"]
             /\ asked' = [asked EXCEPT ![c] = reply[c].offer]
             /\ reply' = [reply EXCEPT ![c] = Nothing]
             /\ UNCHANGED <<request, result, carried, wire>>
    <3>1. reply[c].offer # Nothing
      BY <2>4 DEF Payable
    <3>2. asked'[c] # Nothing /\ pc'[c] = "sign"
      BY <2>4, <3>1 DEF TypeOK
    <3>3. request[c] # Nothing /\ request[c].call = c /\ request[c].payment = Nothing
          /\ result[c] = "pending" /\ signatures[c] = 0
      BY <2>1 DEF Control, ControlOf
    <3>4. ControlOf(c)'
      BY <2>1, <2>4, <3>2, <3>3 DEF ControlOf
    <3>5. QED
      BY <2>1, <2>4, <3>4, ControlFrame DEF TypeOK
  <2>5. QED
    BY <1>5, <2>2, <2>3, <2>4 DEF ReceiveFirst
<1>6. ASSUME NEW c \in Calls, SignAndRetry(c) PROVE Control'
  <2>1. UNCHANGED asked /\ pc[c] = "sign" /\ signatures[c] = 0
    BY <1>6 DEF SignAndRetry, Control, ControlOf
  <2>2. CASE Return(c, "sign_error", Nothing) /\ UNCHANGED signatures
    BY <2>1, <2>2, ReturnControl DEF Outcomes
  <2>3. CASE /\ signatures' = [signatures EXCEPT ![c] = @ + 1]
             /\ Send(c, [request[c] EXCEPT
                           !.body = RetryBody(c),
                           !.payment = [call |-> c, offer |-> asked[c],
                                        nonce |-> signatures'[c]],
                           !.copy = 1], "paid")
             /\ UNCHANGED <<result, carried>>
    <3> DEFINE m == [request[c] EXCEPT
                       !.body = RetryBody(c),
                       !.payment = [call |-> c, offer |-> asked[c],
                                    nonce |-> signatures'[c]],
                       !.copy = 1]
    <3>1. signatures'[c] = 1 /\ \A d \in Calls \ {c} : signatures'[d] = signatures[d]
      BY <2>1, <2>3 DEF TypeOK
    <3>2. request[c] \in Requests /\ asked[c] \in Offers /\ request[c].call = c
      BY <2>1 DEF Control, ControlOf, TypeOK
    <3>3. PaymentOf(c) \in Payments
      BY <3>2 DEF PaymentOf, Payments
    <3>4. m.call = c /\ m.payment = PaymentOf(c) /\ m \in Requests
      BY <3>1, <3>2, <3>3 DEF Requests, PaymentOf, RetryBody
    <3>5. m # Nothing
      BY <3>4, NothingAssumption
    <3>6. Send(c, m, "paid")
      BY <2>3
    <3>7. HIDE DEF m
    <3>8. pc'[c] = "paid" /\ request'[c] = m /\ result'[c] = result[c] /\ result[c] = "pending"
      BY <2>1, <2>3, <3>6, SendEffect DEF Control, ControlOf
    <3>9. ControlOf(c)'
      BY <2>1, <3>1, <3>2, <3>4, <3>5, <3>8, NothingAssumption DEF ControlOf, PaymentOf
    <3>10. QED
      BY <2>1, <2>3, <3>1, <3>6, <3>9, SendEffect, ControlFrame
  <2>4. QED
    BY <1>6, <2>2, <2>3 DEF SignAndRetry
<1>7. ASSUME NEW c \in Calls, ReceivePaid(c) PROVE Control'
  <2>1. UNCHANGED <<signatures, asked>> /\ reply[c] # Nothing
    BY <1>7 DEF ReceivePaid
  <2>2. CASE Return(c, "payment_rejected", asked[c])
    BY <2>1, <2>2, ReturnControl DEF Outcomes
  <2>3. CASE Finish(c)
    BY <2>1, <2>3, FinishReturns, ReturnControl
  <2>4. QED
    BY <1>7, <2>2, <2>3 DEF ReceivePaid
<1>8. ASSUME NEW m \in wire, ServerHandles(m) PROVE Control'
  BY <1>8 DEF ServerHandles, client, Control, ControlOf, PaymentOf
<1>9. CASE UNCHANGED vars
  BY <1>9 DEF vars, Control, ControlOf, PaymentOf
<1>10. QED
  BY <1>1, <1>2, <1>3, <1>4, <1>5, <1>6, <1>7, <1>8, <1>9 DEF Next, Proceed
-------------------------------------------------------------------------------

\* Requests put on the wire carry nothing or the one payment of their call.
LEMMA OnePaymentFrame ==
    ASSUME OnePayment, UNCHANGED <<asked, signatures, settled, charges>>,
           \A m \in (wire' \cup received') \ (wire \cup received) : m.payment # Nothing =>
               m.payment = PaymentOf(m.call) /\ signatures[m.call] = 1
    PROVE  OnePayment'
BY DEF OnePayment, PaymentOf

\* A call without a signature has paid for nothing and has no paid request.
LEMMA UnsignedIsUnpaid ==
    ASSUME IInv, NEW c \in Calls, signatures[c] = 0
    PROVE  /\ charges[c] = 0
           /\ \A p \in settled : p.call # c
           /\ \A m \in wire \cup received : ~PaidFor(m, c)
<1>1. \A p \in settled : p.call # c
  BY DEF IInv, OnePayment
<1>2. PaymentOf(c) \notin settled
  BY <1>1 DEF PaymentOf
<1>3. QED
  BY <1>1, <1>2 DEF IInv, OnePayment, PaidFor

\* A call makes one payment and every paid request carries it.
LEMMA OnePaymentStep ==
    ASSUME IInv, [Next]_vars
    PROVE  OnePayment'
<1> USE DEF IInv
<1>1. ASSUME NEW c \in Calls, Begin(c) PROVE OnePayment'
  <2>1. FirstRequest(c, RequestID(c)).payment = Nothing
    BY DEF FirstRequest
  <2>2. wire' \subseteq wire \cup {FirstRequest(c, RequestID(c))}
    BY <1>1 DEF Begin, Send, Return
  <2>3. QED
    BY <1>1, <2>1, <2>2, OnePaymentFrame DEF Begin, server
<1>2. ASSUME NEW c \in Calls, Authenticate(c) PROVE OnePayment'
  <2>1. wire' \subseteq wire \cup {request[c]} /\ request[c].payment = Nothing
    BY <1>2 DEF Authenticate, Send, Return, Control, ControlOf
  <2>2. QED
    BY <1>2, <2>1, OnePaymentFrame DEF Authenticate, server
<1>3. ASSUME NEW c \in Calls, ConnectionFails(c) PROVE OnePayment'
  BY <1>3, OnePaymentFrame DEF ConnectionFails, Return, server
<1>4. ASSUME NEW c \in Calls, Resend(c) PROVE OnePayment'
  <2> DEFINE m == [request[c] EXCEPT !.copy = 2]
  <2>1. request[c] \in Requests
    BY <1>4 DEF Resend, Control, ControlOf, TypeOK
  <2>2. m.call = request[c].call /\ m.payment = request[c].payment
    BY <2>1 DEF Requests
  <2>3. request[c].call = c /\ (pc[c] = "first" => request[c].payment = Nothing)
        /\ (pc[c] = "paid" => request[c].payment = PaymentOf(c) /\ signatures[c] = 1)
    BY <2>1, NothingAssumption DEF Control, ControlOf
  <2>4. wire' = wire \cup {m}
    BY <1>4 DEF Resend, Send
  <2>5. QED
    BY <1>4, <2>2, <2>3, <2>4, OnePaymentFrame DEF Resend, server
<1>5. ASSUME NEW c \in Calls, ReceiveFirst(c) PROVE OnePayment'
  <2>1. pc[c] = "first" /\ reply[c] # Nothing /\ wire' = wire
        /\ UNCHANGED <<signatures, settled, charges, received>>
    BY <1>5 DEF ReceiveFirst, Finish, Return, server
  <2>2. signatures[c] = 0
    BY <2>1 DEF Control, ControlOf
  <2>3. \A d \in Calls \ {c} : asked'[d] = asked[d]
    BY <1>5 DEF ReceiveFirst, TypeOK
  <2>4. ASSUME NEW m \in wire \cup received, m.payment # Nothing
        PROVE  m.payment = PaymentOf(m.call)' /\ signatures[m.call] = 1
    <3>1. m.call \in Calls /\ m.call # c
      BY <2>2, <2>4, UnsignedIsUnpaid DEF TypeOK, Requests, PaidFor
    <3>2. QED
      BY <2>3, <2>4, <3>1 DEF OnePayment, PaymentOf
  <2>5. ASSUME NEW p \in settled
        PROVE  p = PaymentOf(p.call)' /\ signatures[p.call] = 1
    <3>1. p.call \in Calls /\ p.call # c
      BY <2>2, UnsignedIsUnpaid DEF TypeOK, Payments
    <3>2. QED
      BY <2>3, <3>1 DEF OnePayment, PaymentOf
  <2>6. ASSUME NEW d \in Calls
        PROVE  \/ charges[d] = 0 /\ PaymentOf(d)' \notin settled
               \/ charges[d] = 1 /\ PaymentOf(d)' \in settled
    <3>1. CASE d = c
      <4>1. PaymentOf(d)'.call = c
        BY <3>1 DEF PaymentOf
      <4>2. QED
        BY <2>2, <3>1, <4>1, UnsignedIsUnpaid
    <3>2. CASE d # c
      BY <2>3, <3>2 DEF OnePayment, PaymentOf
    <3>3. QED
      BY <3>1, <3>2
  <2>7. QED
    BY <2>1, <2>4, <2>5, <2>6 DEF OnePayment
<1>6. ASSUME NEW c \in Calls, SignAndRetry(c) PROVE OnePayment'
  <2>1. /\ UNCHANGED <<asked, settled, charges, received>>
        /\ pc[c] = "sign" /\ signatures[c] = 0
    BY <1>6 DEF SignAndRetry, Control, ControlOf, server
  <2>2. CASE Return(c, "sign_error", Nothing) /\ UNCHANGED signatures
    BY <2>1, <2>2, OnePaymentFrame DEF Return
  <2>3. CASE /\ signatures' = [signatures EXCEPT ![c] = @ + 1]
             /\ Send(c, [request[c] EXCEPT
                           !.body = RetryBody(c),
                           !.payment = [call |-> c, offer |-> asked[c],
                                        nonce |-> signatures'[c]],
                           !.copy = 1], "paid")
    <3> DEFINE m == [request[c] EXCEPT
                       !.body = RetryBody(c),
                       !.payment = [call |-> c, offer |-> asked[c],
                                    nonce |-> signatures'[c]],
                       !.copy = 1]
    <3>1. signatures'[c] = 1 /\ \A d \in Calls \ {c} : signatures'[d] = signatures[d]
      BY <2>1, <2>3 DEF TypeOK
    <3>2. request[c] \in Requests /\ request[c].call = c
      BY <2>1 DEF Control, ControlOf, TypeOK
    <3>3. m.call = c /\ m.payment = PaymentOf(c)
      BY <3>1, <3>2 DEF Requests, PaymentOf
    <3>4. wire' = wire \cup {m}
      BY <2>3 DEF Send
    <3>5. HIDE DEF m
    <3>6. \A n \in wire' \cup received' : n.payment # Nothing =>
              n.payment = PaymentOf(n.call) /\ signatures'[n.call] = 1
      BY <2>1, <3>1, <3>3, <3>4 DEF OnePayment, TypeOK, Requests
    <3>7. \A p \in settled : p = PaymentOf(p.call) /\ signatures'[p.call] = 1
      BY <3>1 DEF OnePayment, TypeOK, Payments
    <3>8. QED
      BY <2>1, <3>6, <3>7 DEF OnePayment, PaymentOf
  <2>4. QED
    BY <1>6, <2>2, <2>3 DEF SignAndRetry
<1>7. ASSUME NEW c \in Calls, ReceivePaid(c) PROVE OnePayment'
  BY <1>7, OnePaymentFrame DEF ReceivePaid, Finish, Return, server
<1>8. ASSUME NEW m \in wire, ServerHandles(m) PROVE OnePayment'
  <2>1. wire' \cup received' \subseteq wire \cup received /\ UNCHANGED <<asked, signatures>>
    BY <1>8 DEF ServerHandles, client
  <2>2. CASE UNCHANGED <<settled, charges>>
    BY <2>1, <2>2, OnePaymentFrame
  <2>3. CASE /\ m.payment \notin settled \cup {Nothing}
             /\ settled' = settled \cup {m.payment}
             /\ charges' = [charges EXCEPT ![m.call] = @ + 1]
    <3>1. m.call \in Calls /\ m.payment = PaymentOf(m.call) /\ signatures[m.call] = 1
      BY <2>3 DEF OnePayment, TypeOK, Requests
    <3>2. charges[m.call] = 0 /\ charges'[m.call] = 1
      BY <2>3, <3>1 DEF OnePayment, TypeOK
    <3>3. \A d \in Calls \ {m.call} : charges'[d] = charges[d] /\ PaymentOf(d) # m.payment
      BY <2>3, <3>1 DEF PaymentOf, TypeOK
    <3>4. m.payment.call = m.call
      BY <3>1 DEF PaymentOf
    <3>5. \A d \in Calls : PaymentOf(d)' = PaymentOf(d)
      BY <2>1 DEF PaymentOf
    <3>6. \A p \in settled' : p = PaymentOf(p.call) /\ signatures[p.call] = 1
      BY <2>3, <3>1, <3>4 DEF OnePayment
    <3>7. \A p \in settled' : p.call \in Calls
      BY <2>3, <3>1, <3>4 DEF TypeOK, Payments
    <3>8. \A n \in wire' \cup received' : n.payment # Nothing =>
              n.payment = PaymentOf(n.call) /\ signatures[n.call] = 1 /\ n.call \in Calls
      BY <2>1 DEF OnePayment, TypeOK, Requests
    <3>9. ASSUME NEW d \in Calls
          PROVE  \/ charges'[d] = 0 /\ PaymentOf(d) \notin settled'
                 \/ charges'[d] = 1 /\ PaymentOf(d) \in settled'
      BY <2>3, <3>1, <3>2, <3>3 DEF OnePayment
    <3>10. QED
      BY <2>1, <3>5, <3>6, <3>7, <3>8, <3>9 DEF OnePayment
  <2>4. QED
    BY <1>8, <2>2, <2>3 DEF ServerHandles
<1>9. CASE UNCHANGED vars
  BY <1>9, OnePaymentFrame DEF vars
<1>10. QED
  BY <1>1, <1>2, <1>3, <1>4, <1>5, <1>6, <1>7, <1>8, <1>9 DEF Next, Proceed
-------------------------------------------------------------------------------

\* A call keeps OnePaidRequestOf when nothing happens to it but that requests
\* leave the wire.
LEMMA OnePaidRequestFrame ==
    ASSUME NEW d \in Calls, OnePaidRequestOf(d),
           pc'[d] = pc[d], request'[d] = request[d], reply'[d] = reply[d],
           result'[d] = result[d], charges'[d] = charges[d],
           \A m \in wire' : PaidFor(m, d) => m \in wire
    PROVE  OnePaidRequestOf(d)'
BY DEF OnePaidRequestOf, PaidFor

\* A call that returns, with a refused payment only if it is uncharged and its
\* paid request is off the wire, keeps OnePaidRequestOf.
LEMMA OnePaidRequestReturn ==
    ASSUME IInv, NEW c \in Calls, NEW outcome \in Outcomes, NEW requirements,
           Return(c, outcome, requirements), UNCHANGED charges,
           outcome = "payment_rejected" /\ ~Replayable(c) =>
               charges[c] = 0 /\ \A m \in wire : ~PaidFor(m, c)
    PROVE  OnePaidRequest'
<1>1. OnePaidRequestOf(c)'
  BY ReturnEffect DEF IInv, OnePaidRequest, OnePaidRequestOf, PaidFor
<1>2. ASSUME NEW d \in Calls, d # c PROVE OnePaidRequestOf(d)'
  BY <1>2, ReturnEffect, OnePaidRequestFrame DEF IInv, OnePaidRequest
<1>3. QED
  BY <1>1, <1>2 DEF OnePaidRequest

\* Sending a request that pays for nothing keeps OnePaidRequest.
LEMMA OnePaidRequestUnpaid ==
    ASSUME IInv, NEW c \in Calls, NEW m, m.payment = Nothing, Send(c, m, "first"),
           pc[c] # "done", UNCHANGED <<result, charges>>
    PROVE  OnePaidRequest'
<1>1. result[c] = "pending"
  BY DEF IInv, Control, ControlOf
<1>2. OnePaidRequestOf(c)'
  BY <1>1, SendEffect DEF IInv, OnePaidRequest, OnePaidRequestOf, PaidFor
<1>3. ASSUME NEW d \in Calls, d # c PROVE OnePaidRequestOf(d)'
  BY <1>3, SendEffect, OnePaidRequestFrame DEF IInv, OnePaidRequest, PaidFor
<1>4. QED
  BY <1>2, <1>3 DEF OnePaidRequest

\* Without replays a paid request is answered or still uncharged.
LEMMA OnePaidRequestStep ==
    ASSUME IInv, [Next]_vars
    PROVE  OnePaidRequest'
<1>1. ASSUME NEW c \in Calls, Begin(c) PROVE OnePaidRequest'
  <2>1. FirstRequest(c, RequestID(c)).payment = Nothing
    BY DEF FirstRequest
  <2>2. CASE /\ pc' = [pc EXCEPT ![c] = "auth"]
             /\ request' = [request EXCEPT ![c] = FirstRequest(c, RequestID(c))]
             /\ UNCHANGED <<reply, result, carried, wire>>
    <3>1. pc'[c] = "auth" /\ UNCHANGED <<reply, result, wire, charges>>
          /\ \A d \in Calls \ {c} : pc'[d] = pc[d] /\ request'[d] = request[d]
      BY <1>1, <2>2 DEF Begin, server, IInv, TypeOK
    <3>2. OnePaidRequestOf(c)'
      BY <3>1 DEF IInv, OnePaidRequest, OnePaidRequestOf, PaidFor
    <3>3. ASSUME NEW d \in Calls, d # c PROVE OnePaidRequestOf(d)'
      BY <3>1, <3>3, OnePaidRequestFrame DEF IInv, OnePaidRequest
    <3>4. QED
      BY <3>2, <3>3 DEF OnePaidRequest
  <2>3. CASE /\ Send(c, FirstRequest(c, RequestID(c)), "first")
             /\ UNCHANGED <<result, carried>>
    BY <1>1, <2>1, <2>3, OnePaidRequestUnpaid DEF Begin, server
  <2>4. CASE Return(c, "invalid", Nothing)
    BY <1>1, <2>4, OnePaidRequestReturn DEF Begin, server, Outcomes
  <2>5. QED
    BY <1>1, <2>2, <2>3, <2>4 DEF Begin
<1>2. ASSUME NEW c \in Calls, Authenticate(c) PROVE OnePaidRequest'
  <2>1. CASE Send(c, request[c], "first") /\ UNCHANGED <<result, carried>>
    BY <1>2, <2>1, OnePaidRequestUnpaid DEF Authenticate, server, IInv, Control, ControlOf
  <2>2. CASE \E outcome \in {"auth_error", "token_failed"} : Return(c, outcome, Nothing)
    BY <1>2, <2>2, OnePaidRequestReturn DEF Authenticate, server, Outcomes
  <2>3. QED
    BY <1>2, <2>1, <2>2 DEF Authenticate
<1>3. ASSUME NEW c \in Calls, ConnectionFails(c) PROVE OnePaidRequest'
  BY <1>3, OnePaidRequestReturn DEF ConnectionFails, server, Outcomes
<1>4. ASSUME NEW c \in Calls, Resend(c) PROVE OnePaidRequest'
  <2> DEFINE m == [request[c] EXCEPT !.copy = 2]
  <2>1. request[c] \in Requests /\ request[c].call = c
    BY <1>4 DEF Resend, IInv, Control, ControlOf, TypeOK
  <2>2. m.call = c
    BY <2>1 DEF Requests
  <2>3. Send(c, m, pc[c]) /\ Replayable(c) /\ UNCHANGED <<result, charges>>
    BY <1>4 DEF Resend, server
  <2>4. HIDE DEF m
  <2>5. OnePaidRequestOf(c)'
    BY <2>3 DEF OnePaidRequestOf, Replayable
  <2>6. ASSUME NEW d \in Calls, d # c PROVE OnePaidRequestOf(d)'
    BY <2>2, <2>3, <2>6, SendEffect, OnePaidRequestFrame DEF IInv, OnePaidRequest, PaidFor
  <2>7. QED
    BY <2>5, <2>6 DEF OnePaidRequest
<1>5. ASSUME NEW c \in Calls, ReceiveFirst(c) PROVE OnePaidRequest'
  <2>1. UNCHANGED charges /\ reply[c] # Nothing /\ pc[c] = "first"
    BY <1>5 DEF ReceiveFirst, server
  <2>2. CASE Finish(c)
    BY <2>1, <2>2, FinishReturns, OnePaidRequestReturn DEF IInv
  <2>3. CASE Return(c, "payment_required", reply[c].offer)
    BY <2>1, <2>3, OnePaidRequestReturn DEF Outcomes
  <2>4. CASE /\ pc' = [pc EXCEPT ![c] = "sign"]
             /\ reply' = [reply EXCEPT ![c] = Nothing]
             /\ UNCHANGED <<request, result, carried, wire>>
    <3>1. pc'[c] = "sign" /\ UNCHANGED <<request, result, wire, charges>>
          /\ \A d \in Calls \ {c} : pc'[d] = pc[d] /\ reply'[d] = reply[d]
      BY <2>1, <2>4 DEF IInv, TypeOK
    <3>2. OnePaidRequestOf(c)'
      BY <3>1 DEF IInv, OnePaidRequest, OnePaidRequestOf, PaidFor
    <3>3. ASSUME NEW d \in Calls, d # c PROVE OnePaidRequestOf(d)'
      BY <3>1, <3>3, OnePaidRequestFrame DEF IInv, OnePaidRequest
    <3>4. QED
      BY <3>2, <3>3 DEF OnePaidRequest
  <2>5. QED
    BY <1>5, <2>2, <2>3, <2>4 DEF ReceiveFirst
<1>6. ASSUME NEW c \in Calls, SignAndRetry(c) PROVE OnePaidRequest'
  <2>1. signatures[c] = 0 /\ UNCHANGED charges
    BY <1>6 DEF SignAndRetry, server, IInv, Control, ControlOf
  <2>2. charges[c] = 0 /\ \A n \in wire : ~PaidFor(n, c)
    BY <2>1, UnsignedIsUnpaid
  <2>3. CASE Return(c, "sign_error", Nothing)
    BY <2>1, <2>3, OnePaidRequestReturn DEF Outcomes
  <2>4. CASE /\ Send(c, [request[c] EXCEPT
                           !.body = RetryBody(c),
                           !.payment = [call |-> c, offer |-> asked[c],
                                        nonce |-> signatures'[c]],
                           !.copy = 1], "paid")
             /\ UNCHANGED <<result, carried>>
    <3> DEFINE m == [request[c] EXCEPT
                       !.body = RetryBody(c),
                       !.payment = [call |-> c, offer |-> asked[c],
                                    nonce |-> signatures'[c]],
                       !.copy = 1]
    <3>1. request[c] \in Requests /\ request[c].call = c /\ result[c] = "pending"
      BY <1>6 DEF SignAndRetry, IInv, Control, ControlOf, TypeOK
    <3>2. m.call = c /\ m.copy = 1
      BY <3>1 DEF Requests
    <3>3. Send(c, m, "paid")
      BY <2>4
    <3>4. HIDE DEF m
    <3>5. OnePaidRequestOf(c)'
      BY <2>1, <2>2, <2>4, <3>1, <3>2, <3>3, SendEffect DEF IInv, OnePaidRequestOf, PaidFor
    <3>6. ASSUME NEW d \in Calls, d # c PROVE OnePaidRequestOf(d)'
      BY <2>1, <2>4, <3>2, <3>3, <3>6, SendEffect, OnePaidRequestFrame
      DEF IInv, OnePaidRequest, PaidFor
    <3>7. QED
      BY <3>5, <3>6 DEF OnePaidRequest
  <2>5. QED
    BY <1>6, <2>3, <2>4 DEF SignAndRetry
<1>7. ASSUME NEW c \in Calls, ReceivePaid(c) PROVE OnePaidRequest'
  <2>1. UNCHANGED charges /\ reply[c] # Nothing /\ pc[c] = "paid"
    BY <1>7 DEF ReceivePaid, server
  <2>2. CASE reply[c].status = "402" /\ Return(c, "payment_rejected", asked[c])
    <3>1. ~Replayable(c) => charges[c] = 0 /\ \A m \in wire : ~PaidFor(m, c)
      BY <2>1, <2>2 DEF IInv, OnePaidRequest, OnePaidRequestOf
    <3>2. QED
      BY <2>1, <2>2, <3>1, OnePaidRequestReturn DEF Outcomes
  <2>3. CASE Finish(c)
    BY <2>1, <2>3, FinishReturns, OnePaidRequestReturn DEF IInv
  <2>4. QED
    BY <1>7, <2>2, <2>3 DEF ReceivePaid
<1>8. ASSUME NEW m \in wire, ServerHandles(m) PROVE OnePaidRequest'
  <2>1. m \in Requests /\ m.call \in Calls /\ wire' = wire \ {m}
        /\ UNCHANGED <<pc, request, result>>
    BY <1>8 DEF ServerHandles, client, IInv, TypeOK, Requests
  <2>2. PICK r \in AnswersTo(m) :
          /\ reply' = IF request[m.call] = m THEN [reply EXCEPT ![m.call] = r] ELSE reply
          /\ \/ /\ m.payment \notin settled \cup {Nothing}
                /\ r.status # "402"
                /\ charges' = [charges EXCEPT ![m.call] = @ + 1]
             \/ UNCHANGED charges
    BY <1>8 DEF ServerHandles
  <2>3. ASSUME NEW d \in Calls, d # m.call PROVE OnePaidRequestOf(d)'
    BY <2>1, <2>2, <2>3, OnePaidRequestFrame DEF IInv, TypeOK, OnePaidRequest
  <2> DEFINE c == m.call
  <2>4. CASE m.payment = Nothing
    <3>1. UNCHANGED charges
      BY <2>2, <2>4
    <3>2. pc[c] = "paid" => request[c] # m
      <4>1. pc[c] = "paid" => asked[c] \in Offers /\ request[c].payment = PaymentOf(c)
        BY <2>1 DEF IInv, Control, ControlOf, TypeOK
      <4>2. asked[c] \in Offers => PaymentOf(c) \in Payments
        BY <2>1 DEF PaymentOf, Payments
      <4>3. QED
        BY <2>4, <4>1, <4>2, NothingAssumption
    <3>3. OnePaidRequestOf(c)'
      BY <2>1, <2>2, <3>1, <3>2 DEF IInv, OnePaidRequest, OnePaidRequestOf, PaidFor
    <3>4. QED
      BY <2>3, <3>3 DEF OnePaidRequest
  <2>5. CASE m.payment # Nothing
    <3>1. PaidFor(m, c)
      BY <2>5 DEF PaidFor
    <3>2. ASSUME ~Replayable(c) PROVE OnePaidRequestOf(c)'
      <4>1. charges[c] = 0 /\ result[c] # "payment_rejected"
            /\ (pc[c] = "paid" => m = request[c] /\ request[c].copy = 1)
        BY <2>1, <3>1, <3>2 DEF IInv, OnePaidRequest, OnePaidRequestOf
      <4>2. \A n \in wire' : ~PaidFor(n, c)
        BY <2>1, <3>1, <3>2 DEF IInv, OnePaidRequest, OnePaidRequestOf
      <4>3. pc[c] = "paid" => reply'[c] = r
        BY <2>1, <2>2, <4>1 DEF IInv, TypeOK
      <4>4. r.status = "402" => charges'[c] = 0
        BY <2>2, <4>1
      <4>5. QED
        BY <2>1, <4>1, <4>2, <4>3, <4>4 DEF OnePaidRequestOf
    <3>3. OnePaidRequestOf(c)'
      BY <3>2 DEF OnePaidRequestOf, Replayable
    <3>4. QED
      BY <2>3, <3>3 DEF OnePaidRequest
  <2>6. QED
    BY <2>4, <2>5
<1>9. CASE UNCHANGED vars
  BY <1>9, OnePaidRequestFrame DEF vars, IInv, OnePaidRequest
<1>10. QED
  BY <1>1, <1>2, <1>3, <1>4, <1>5, <1>6, <1>7, <1>8, <1>9 DEF Next, Proceed
-------------------------------------------------------------------------------

\* A call that returns one of the errors from before the payment has signed
\* nothing.
LEMMA UnsignedErrorsReturn ==
    ASSUME IInv, NEW c \in Calls, NEW outcome, NEW requirements,
           Return(c, outcome, requirements), UNCHANGED signatures,
           outcome \in {"invalid", "auth_error", "token_failed", "sign_error",
                       "payment_required"}
               => signatures[c] = 0
    PROVE  UnsignedErrors'
BY ReturnEffect DEF IInv, UnsignedErrors

\* The errors from before the payment are returned before Sign succeeds.
LEMMA UnsignedErrorsStep ==
    ASSUME IInv, [Next]_vars
    PROVE  UnsignedErrors'
<1> USE DEF IInv
<1>1. ASSUME NEW c \in Calls, Begin(c) PROVE UnsignedErrors'
  <2>1. signatures[c] = 0 /\ UNCHANGED signatures
    BY <1>1 DEF Begin, Control, ControlOf
  <2>2. CASE UNCHANGED result
    BY <2>1, <2>2 DEF UnsignedErrors
  <2>3. CASE Return(c, "invalid", Nothing)
    BY <2>1, <2>3, UnsignedErrorsReturn
  <2>4. QED
    BY <1>1, <2>2, <2>3 DEF Begin
<1>2. ASSUME NEW c \in Calls, Authenticate(c) PROVE UnsignedErrors'
  <2>1. signatures[c] = 0 /\ UNCHANGED signatures
    BY <1>2 DEF Authenticate, Control, ControlOf
  <2>2. CASE UNCHANGED result
    BY <2>1, <2>2 DEF UnsignedErrors
  <2>3. CASE \E outcome \in {"auth_error", "token_failed"} : Return(c, outcome, Nothing)
    BY <2>1, <2>3, UnsignedErrorsReturn
  <2>4. QED
    BY <1>2, <2>2, <2>3 DEF Authenticate
<1>3. ASSUME NEW c \in Calls, ConnectionFails(c) PROVE UnsignedErrors'
  BY <1>3, UnsignedErrorsReturn DEF ConnectionFails
<1>4. ASSUME NEW c \in Calls, Resend(c) PROVE UnsignedErrors'
  BY <1>4 DEF Resend, UnsignedErrors
<1>5. ASSUME NEW c \in Calls, ReceiveFirst(c) PROVE UnsignedErrors'
  <2>1. signatures[c] = 0 /\ UNCHANGED signatures /\ reply[c] # Nothing
    BY <1>5 DEF ReceiveFirst, Control, ControlOf
  <2>2. CASE UNCHANGED result
    BY <2>1, <2>2 DEF UnsignedErrors
  <2>3. CASE Finish(c)
    BY <2>1, <2>3, FinishReturns, UnsignedErrorsReturn
  <2>4. CASE Return(c, "payment_required", reply[c].offer)
    BY <2>1, <2>4, UnsignedErrorsReturn
  <2>5. QED
    BY <1>5, <2>2, <2>3, <2>4 DEF ReceiveFirst
<1>6. ASSUME NEW c \in Calls, SignAndRetry(c) PROVE UnsignedErrors'
  <2>1. signatures[c] = 0 /\ result[c] = "pending"
    BY <1>6 DEF SignAndRetry, Control, ControlOf
  <2>2. CASE Return(c, "sign_error", Nothing) /\ UNCHANGED signatures
    BY <2>1, <2>2, UnsignedErrorsReturn
  <2>3. CASE signatures' = [signatures EXCEPT ![c] = @ + 1] /\ UNCHANGED result
    BY <2>1, <2>3 DEF UnsignedErrors, TypeOK
  <2>4. QED
    BY <1>6, <2>2, <2>3 DEF SignAndRetry
<1>7. ASSUME NEW c \in Calls, ReceivePaid(c) PROVE UnsignedErrors'
  <2>1. UNCHANGED signatures /\ reply[c] # Nothing
    BY <1>7 DEF ReceivePaid
  <2>2. CASE Return(c, "payment_rejected", asked[c])
    BY <2>1, <2>2, UnsignedErrorsReturn
  <2>3. CASE reply[c].status # "402" /\ Finish(c)
    BY <2>1, <2>3, FinishReturns, UnsignedErrorsReturn
  <2>4. QED
    BY <1>7, <2>2, <2>3 DEF ReceivePaid
<1>8. ASSUME NEW m \in wire, ServerHandles(m) PROVE UnsignedErrors'
  BY <1>8 DEF ServerHandles, client, UnsignedErrors
<1>9. CASE UNCHANGED vars
  BY <1>9 DEF vars, UnsignedErrors
<1>10. QED
  BY <1>1, <1>2, <1>3, <1>4, <1>5, <1>6, <1>7, <1>8, <1>9 DEF Next, Proceed

\* IInv is inductive.
LEMMA StepIInv == IInv /\ [Next]_vars => IInv'
BY TypeStep, ControlStep, OnePaymentStep, OnePaidRequestStep, UnsignedErrorsStep
DEF IInv

\* IInv holds in every reachable state.
THEOREM Invariance == Spec => []IInv
BY InitIInv, StepIInv, PTL DEF Spec

\* Requests, replies, payments and control states keep their types.
THEOREM TypeCorrect == Spec => []TypeOK
<1>1. IInv => TypeOK
  BY DEF IInv
<1>2. QED
  BY <1>1, Invariance, PTL

-------------------------------------------------------------------------------
(* The pipeline keeps the promise of PaidCalls.                             *)

\* No call is charged or over before it is made.
LEMMA InitRefines == Init => Paid!Init
BY DEF Init, Paid!Init

\* A step that returns from a call, with an error that says "unpaid" only when
\* nothing was charged, is a Return of PaidCalls.
LEMMA ReturnRefines ==
    ASSUME IInv, NEW c \in Calls, NEW outcome \in Outcomes, NEW requirements,
           pc[c] # "done", Return(c, outcome, requirements), UNCHANGED charges,
           Unpaid(c, outcome) => charges[c] = 0
    PROVE  Paid!Next
<1>1. result[c] = "pending" /\ result' = [result EXCEPT ![c] = outcome]
  BY DEF IInv, Control, ControlOf, Return
<1>2. Paid!Return(c)
  BY <1>1 DEF Paid!Return
<1>3. QED
  BY <1>2 DEF Paid!Next

\* Every step charges a call, returns from one, or is invisible.
LEMMA StepRefines ==
    ASSUME IInv, [Next]_vars
    PROVE  [Paid!Next]_Paid!paidVars
<1> DEFINE Refined == [Paid!Next]_Paid!paidVars
<1> USE DEF IInv
<1>1. ASSUME NEW c \in Calls, Begin(c) PROVE Refined
  <2>1. pc[c] = "idle" /\ charges[c] = 0 /\ UNCHANGED charges
    BY <1>1, UnsignedIsUnpaid DEF Begin, server, Control, ControlOf
  <2>2. CASE UNCHANGED result
    BY <2>1, <2>2 DEF Paid!paidVars
  <2>3. CASE Return(c, "invalid", Nothing)
    BY <2>1, <2>3, ReturnRefines DEF Outcomes
  <2>4. QED
    BY <1>1, <2>2, <2>3 DEF Begin
<1>2. ASSUME NEW c \in Calls, Authenticate(c) PROVE Refined
  <2>1. pc[c] = "auth" /\ charges[c] = 0 /\ UNCHANGED charges
    BY <1>2, UnsignedIsUnpaid DEF Authenticate, server, Control, ControlOf
  <2>2. CASE UNCHANGED result
    BY <2>1, <2>2 DEF Paid!paidVars
  <2>3. CASE \E outcome \in {"auth_error", "token_failed"} : Return(c, outcome, Nothing)
    BY <2>1, <2>3, ReturnRefines DEF Outcomes
  <2>4. QED
    BY <1>2, <2>2, <2>3 DEF Authenticate
<1>3. ASSUME NEW c \in Calls, ConnectionFails(c) PROVE Refined
  BY <1>3, ReturnRefines DEF ConnectionFails, server, Outcomes, Unpaid
<1>4. ASSUME NEW c \in Calls, Resend(c) PROVE Refined
  BY <1>4 DEF Resend, server, Paid!paidVars
<1>5. ASSUME NEW c \in Calls, ReceiveFirst(c) PROVE Refined
  <2>1. pc[c] = "first" /\ charges[c] = 0 /\ UNCHANGED charges /\ reply[c] # Nothing
    BY <1>5, UnsignedIsUnpaid DEF ReceiveFirst, server, Control, ControlOf
  <2>2. CASE UNCHANGED result
    BY <2>1, <2>2 DEF Paid!paidVars
  <2>3. CASE Finish(c)
    BY <2>1, <2>3, FinishReturns, ReturnRefines
  <2>4. CASE Return(c, "payment_required", reply[c].offer)
    BY <2>1, <2>4, ReturnRefines DEF Outcomes
  <2>5. QED
    BY <1>5, <2>2, <2>3, <2>4 DEF ReceiveFirst
<1>6. ASSUME NEW c \in Calls, SignAndRetry(c) PROVE Refined
  <2>1. pc[c] = "sign" /\ charges[c] = 0 /\ UNCHANGED charges
    BY <1>6, UnsignedIsUnpaid DEF SignAndRetry, server, Control, ControlOf
  <2>2. CASE UNCHANGED result
    BY <2>1, <2>2 DEF Paid!paidVars
  <2>3. CASE Return(c, "sign_error", Nothing)
    BY <2>1, <2>3, ReturnRefines DEF Outcomes
  <2>4. QED
    BY <1>6, <2>2, <2>3 DEF SignAndRetry
<1>7. ASSUME NEW c \in Calls, ReceivePaid(c) PROVE Refined
  <2>1. pc[c] = "paid" /\ UNCHANGED charges /\ reply[c] # Nothing
    BY <1>7 DEF ReceivePaid, server
  <2>2. CASE reply[c].status = "402" /\ Return(c, "payment_rejected", asked[c])
    <3>1. Unpaid(c, "payment_rejected") => charges[c] = 0
      BY <2>1, <2>2 DEF Unpaid, OnePaidRequest, OnePaidRequestOf
    <3>2. QED
      BY <2>1, <2>2, <3>1, ReturnRefines DEF Outcomes
  <2>3. CASE reply[c].status # "402" /\ Finish(c)
    BY <2>1, <2>3, FinishReturns, ReturnRefines DEF Unpaid
  <2>4. QED
    BY <1>7, <2>2, <2>3 DEF ReceivePaid
<1>8. ASSUME NEW m \in wire, ServerHandles(m) PROVE Refined
  <2>1. m.call \in Calls /\ UNCHANGED result
    BY <1>8 DEF ServerHandles, client, TypeOK, Requests
  <2>2. CASE UNCHANGED charges
    BY <2>1, <2>2 DEF Paid!paidVars
  <2>3. CASE /\ m.payment \notin settled \cup {Nothing}
             /\ charges' = [charges EXCEPT ![m.call] = @ + 1]
    <3>1. m.payment = PaymentOf(m.call) /\ signatures[m.call] = 1 /\ charges[m.call] = 0
      BY <2>1, <2>3 DEF OnePayment
    <3>2. ~Unpaid(m.call, result[m.call])
      BY <2>1, <2>3, <3>1
      DEF Unpaid, UnsignedErrors, OnePaidRequest, OnePaidRequestOf, PaidFor
    <3>3. Paid!Charge(m.call)
      BY <2>1, <2>3, <3>1, <3>2 DEF Paid!Charge, TypeOK
    <3>4. QED
      BY <2>1, <3>3 DEF Paid!Next
  <2>4. QED
    BY <1>8, <2>2, <2>3 DEF ServerHandles
<1>9. CASE UNCHANGED vars
  BY <1>9 DEF vars, Paid!paidVars
<1>10. QED
  BY <1>1, <1>2, <1>3, <1>4, <1>5, <1>6, <1>7, <1>8, <1>9 DEF Next, Proceed

\* Whatever the server, the network and net/http do with its requests, a call is
\* charged at most once, and never when its error says that it was not paid for
\* (x402.go:54-129, client.go:213-304, mcp.go:89-205).
THEOREM Refinement == Spec => ImplementsPaidCalls
<1>1. IInv /\ [Next]_vars => [Paid!Next]_Paid!paidVars
  BY StepRefines
<1>2. QED
  BY <1>1, InitRefines, Invariance, PTL DEF Spec, ImplementsPaidCalls, Paid!Spec

-------------------------------------------------------------------------------
(* What the outcomes, ids and payments say is true.                        *)
(*                                                                         *)
(* OneRequestPerCall looks at what the server has received only: Ids adds  *)
(* the requests on the wire and those the calls still hold, and that no id *)
(* is ahead of the counter.  QuotesOf follows the server's requirements    *)
(* from an answer to the payment and the error; HandledOf says at which    *)
(* points a call is known to have reached the server, or not to have.      *)

Seen(m) == m \in wire \/ m \in received \/ \E c \in Calls : request[c] = m

\* A request has the body and the id of its call, whose id is used up.
Ids ==
    /\ \A m \in Requests : Seen(m) =>
          m.id <= nextID /\ m.body = FirstBody(m.call) /\ pc[m.call] # "idle"
    /\ \A m, n \in Requests : Seen(m) /\ Seen(n) =>
          /\ m.call = n.call => m.id = n.id
          /\ m.id # 0 /\ m.id = n.id => m.call = n.call

\* Requirements that a call works with were asked of it.
QuotesOf(c) ==
    /\ reply[c] # Nothing /\ reply[c].status = "402" => reply[c].offer \in quoted[c]
    /\ asked[c] # Nothing => asked[c] \in quoted[c] /\ FilterAcceptsByNetwork(asked[c])

WasHandled(c) == \E m \in received : m.call = c

WasSent(c) == \E m \in received \cup wire : m.call = c

WasPaid(c) == \E m \in received \cup wire : PaidFor(m, c)

Unsent == {"invalid", "auth_error", "token_failed"}

Unreported == Unsent \cup {"pending", "request_failed"}

HandledOf(c) ==
    /\ pc[c] \in {"idle", "auth"} \/ result[c] \in Unsent => ~WasSent(c)
    /\ reply[c] # Nothing \/ pc[c] \in {"sign", "paid"} \/ result[c] \notin Unreported
          => WasHandled(c)

\* A 402 that ends the call: before the payment, or after it.
RefusedOf(c) ==
    /\ pc[c] = "paid" \/ result[c] = "payment_rejected" => WasPaid(c)
    /\ result[c] = "payment_rejected" => carried[c] = asked[c]
    /\ result[c] = "payment_required" =>
          /\ carried[c] \in quoted[c]
          /\ AuthMode[c] = "x402" => ~Payable(carried[c])

-------------------------------------------------------------------------------
(* Ids.                                                                     *)

\* Before any call is made there is no request.
LEMMA InitIds == Init => Ids
BY NothingAssumption DEF Init, Ids, Seen, Requests

\* A step that at most repeats requests keeps the ids apart.
LEMMA AlikeIds ==
    ASSUME IInv, Ids, nextID' \in Nat, nextID' >= nextID,
           \A n \in Requests : Seen(n)' =>
              \E m \in Requests :
                 Seen(m) /\ m.call = n.call /\ m.id = n.id /\ m.body = n.body,
           \A d \in Calls : pc'[d] = "idle" => pc[d] = "idle"
    PROVE  Ids'
<1>1. \A m \in Requests : m.id \in Nat /\ m.call \in Calls
  BY DEF Requests
<1>2. nextID \in Nat
  BY DEF IInv, TypeOK
<1>3. ASSUME NEW n \in Requests, Seen(n)'
      PROVE  n.id <= nextID' /\ n.body = FirstBody(n.call) /\ pc'[n.call] # "idle"
  <2>1. PICK m \in Requests :
           Seen(m) /\ m.call = n.call /\ m.id = n.id /\ m.body = n.body
    BY <1>3
  <2>2. m.id <= nextID /\ m.body = FirstBody(m.call) /\ pc[m.call] # "idle"
    BY <2>1 DEF Ids
  <2>3. QED
    BY <1>1, <1>2, <2>1, <2>2
<1>4. ASSUME NEW n \in Requests, NEW k \in Requests, Seen(n)', Seen(k)'
      PROVE  /\ n.call = k.call => n.id = k.id
             /\ n.id # 0 /\ n.id = k.id => n.call = k.call
  <2>1. PICK m \in Requests :
           Seen(m) /\ m.call = n.call /\ m.id = n.id /\ m.body = n.body
    BY <1>4
  <2>2. PICK j \in Requests :
           Seen(j) /\ j.call = k.call /\ j.id = k.id /\ j.body = k.body
    BY <1>4
  <2>3. QED
    BY <2>1, <2>2 DEF Ids
<1>5. QED
  BY <1>3, <1>4 DEF Ids, FirstBody, HasBody

\* The requests after a Send are the ones before it and the one sent.
LEMMA SendSeen ==
    ASSUME TypeOK, NEW c \in Calls, NEW m, NEW location, Send(c, m, location),
           UNCHANGED received
    PROVE  \A n : Seen(n)' => n = m \/ Seen(n)
BY SendEffect DEF Seen

\* A call that returns leaves no new request behind.
LEMMA ReturnSeen ==
    ASSUME TypeOK, NEW c \in Calls, NEW outcome, NEW requirements,
           Return(c, outcome, requirements), UNCHANGED received
    PROVE  \A n \in Requests : Seen(n)' => Seen(n)
BY ReturnEffect, NothingAssumption DEF Seen

\* A call that returns keeps the ids apart.
LEMMA ReturnIds ==
    ASSUME IInv, Ids, NEW c \in Calls, NEW outcome, NEW requirements,
           Return(c, outcome, requirements), UNCHANGED received,
           nextID' \in Nat, nextID' >= nextID
    PROVE  Ids'
<1>1. TypeOK
  BY DEF IInv
<1>2. \A n \in Requests : Seen(n)' => Seen(n)
  BY <1>1, ReturnSeen
<1>3. \A d \in Calls : pc'[d] = "idle" => pc[d] = "idle"
  BY <1>1, ReturnEffect
<1>4. QED
  BY <1>2, <1>3, AlikeIds

\* Requests of a call, the paid retry included, keep its body and id.
LEMMA IdsStep ==
    ASSUME IInv, Ids, [Next]_vars
    PROVE  Ids'
<1> USE DEF IInv
<1>0. nextID \in Nat /\ \A m \in Requests : m.id \in Nat /\ m.call \in Calls
  BY DEF TypeOK, Requests
<1>1. ASSUME NEW c \in Calls, Begin(c) PROVE Ids'
  <2> DEFINE k == FirstRequest(c, RequestID(c))
  <2>1. /\ k \in Requests /\ k.call = c /\ k.id = RequestID(c) /\ k.body = FirstBody(c)
        /\ pc[c] = "idle" /\ UNCHANGED received /\ nextID' \in Nat /\ nextID' >= nextID
        /\ RequestID(c) # 0 => RequestID(c) = nextID + 1
        /\ RequestID(c) <= nextID'
    BY <1>0, <1>1 DEF FirstRequest, RequestID, FirstBody, HasBody, Requests, Begin, server,
       AdvanceID
  <2>2. ASSUME \A n \in Requests : Seen(n)' => n = k \/ Seen(n),
               pc'[c] # "idle", \A d \in Calls \ {c} : pc'[d] = pc[d]
        PROVE  Ids'
    <3>1. \A m \in Requests : Seen(m) => m.call # c /\ m.id <= nextID
      BY <2>1 DEF Ids
    <3> HIDE DEF k
    <3>2. ASSUME NEW n \in Requests, Seen(n)'
          PROVE  n.id <= nextID' /\ n.body = FirstBody(n.call) /\ pc'[n.call] # "idle"
      <4>1. CASE n = k
        BY <2>1, <2>2, <4>1
      <4>2. CASE Seen(n)
        <5>1. n.id <= nextID /\ n.body = FirstBody(n.call) /\ pc[n.call] # "idle"
          BY <4>2 DEF Ids
        <5>2. QED
          BY <1>0, <2>1, <2>2, <3>1, <4>2, <5>1
      <4>3. QED
        BY <2>2, <3>2, <4>1, <4>2
    <3>3. ASSUME NEW n \in Requests, NEW j \in Requests, Seen(n)', Seen(j)'
          PROVE  /\ n.call = j.call => n.id = j.id
                 /\ n.id # 0 /\ n.id = j.id => n.call = j.call
      <4>1. CASE Seen(n) /\ Seen(j)
        BY <4>1 DEF Ids
      <4>2. CASE n = k /\ j = k
        BY <4>2
      <4>3. CASE n = k /\ Seen(j)
        BY <1>0, <2>1, <3>1, <4>3
      <4>4. CASE Seen(n) /\ j = k
        BY <1>0, <2>1, <3>1, <4>4
      <4>5. QED
        BY <2>2, <3>3, <4>1, <4>2, <4>3, <4>4
    <3>4. QED
      BY <3>2, <3>3 DEF Ids, FirstBody, HasBody
  <2>3. CASE /\ pc' = [pc EXCEPT ![c] = "auth"]
             /\ request' = [request EXCEPT ![c] = k]
             /\ UNCHANGED <<reply, result, carried, wire>>
    <3>1. \A n \in Requests : Seen(n)' => n = k \/ Seen(n)
      BY <2>1, <2>3 DEF Seen, TypeOK
    <3>2. QED
      BY <2>2, <2>3, <3>1 DEF TypeOK
  <2>4. CASE Send(c, k, "first")
    <3>1. \A n \in Requests : Seen(n)' => n = k \/ Seen(n)
      BY <2>1, <2>4, SendSeen
    <3>2. QED
      BY <2>2, <2>4, <3>1, SendEffect
  <2>5. CASE Return(c, "invalid", Nothing)
    BY <2>1, <2>5, ReturnIds
  <2>6. QED
    BY <1>1, <2>3, <2>4, <2>5 DEF Begin
<1>2. ASSUME NEW c \in Calls, Authenticate(c) PROVE Ids'
  <2>1. UNCHANGED <<nextID, received>> /\ request[c] \in Requests /\ Seen(request[c])
    BY <1>2 DEF Authenticate, server, Control, ControlOf, TypeOK, Seen
  <2>2. CASE Send(c, request[c], "first")
    <3>1. \A n \in Requests : Seen(n)' => Seen(n)
      BY <2>1, <2>2, SendSeen
    <3>2. \A d \in Calls : pc'[d] = "idle" => pc[d] = "idle"
      BY <2>2, SendEffect
    <3>3. QED
      BY <1>0, <2>1, <3>1, <3>2, AlikeIds
  <2>3. CASE \E outcome \in {"auth_error", "token_failed"} : Return(c, outcome, Nothing)
    BY <1>0, <2>1, <2>3, ReturnIds
  <2>4. QED
    BY <1>2, <2>2, <2>3 DEF Authenticate
<1>3. ASSUME NEW c \in Calls, ConnectionFails(c) PROVE Ids'
  BY <1>0, <1>3, ReturnIds DEF ConnectionFails, server
<1>4. ASSUME NEW c \in Calls, Resend(c) PROVE Ids'
  <2> DEFINE k == [request[c] EXCEPT !.copy = 2]
  <2>1. UNCHANGED <<nextID, received>> /\ request[c] \in Requests /\ Seen(request[c])
    BY <1>4 DEF Resend, server, Control, ControlOf, TypeOK, Seen
  <2>2. k.call = request[c].call /\ k.id = request[c].id /\ k.body = request[c].body
    BY <2>1 DEF Requests
  <2>3. Send(c, k, pc[c])
    BY <1>4 DEF Resend
  <2> HIDE DEF k
  <2>4. \A n \in Requests : Seen(n)' => n = k \/ Seen(n)
    BY <2>1, <2>3, SendSeen
  <2>5. \A d \in Calls : pc'[d] = "idle" => pc[d] = "idle"
    BY <2>3, SendEffect
  <2>6. QED
    BY <1>0, <2>1, <2>2, <2>4, <2>5, AlikeIds
<1>5. ASSUME NEW c \in Calls, ReceiveFirst(c) PROVE Ids'
  <2>1. UNCHANGED <<nextID, received>>
    BY <1>5 DEF ReceiveFirst, server
  <2>2. CASE Finish(c)
    BY <1>0, <1>5, <2>1, <2>2, FinishReturns, ReturnIds DEF ReceiveFirst
  <2>3. CASE Return(c, "payment_required", reply[c].offer)
    BY <1>0, <2>1, <2>3, ReturnIds
  <2>4. CASE pc' = [pc EXCEPT ![c] = "sign"] /\ UNCHANGED <<request, wire>>
    <3>1. \A n \in Requests : Seen(n)' => Seen(n)
      BY <2>1, <2>4 DEF Seen
    <3>2. \A d \in Calls : pc'[d] = "idle" => pc[d] = "idle"
      BY <2>4 DEF TypeOK
    <3>3. QED
      BY <1>0, <2>1, <3>1, <3>2, AlikeIds
  <2>5. QED
    BY <1>5, <2>2, <2>3, <2>4 DEF ReceiveFirst
<1>6. ASSUME NEW c \in Calls, SignAndRetry(c) PROVE Ids'
  <2>1. UNCHANGED <<nextID, received>> /\ request[c] \in Requests /\ Seen(request[c])
    BY <1>6 DEF SignAndRetry, server, Control, ControlOf, TypeOK, Seen
  <2>2. CASE Return(c, "sign_error", Nothing)
    BY <1>0, <2>1, <2>2, ReturnIds
  <2>3. ASSUME NEW p,
               Send(c, [request[c] EXCEPT !.body = RetryBody(c), !.payment = p, !.copy = 1],
                    "paid")
        PROVE  Ids'
    <3> DEFINE k == [request[c] EXCEPT !.body = RetryBody(c), !.payment = p, !.copy = 1]
    <3>1. k.call = request[c].call /\ k.id = request[c].id /\ k.body = RetryBody(c)
      BY <2>1 DEF Requests
    <3>2. request[c].call = c /\ request[c].body = FirstBody(c)
      BY <2>1, NothingAssumption DEF Ids, Control, ControlOf
    <3>3. k.body = request[c].body
      BY <3>1, <3>2 DEF RetryBody, FirstBody
    <3>4. Send(c, k, "paid")
      BY <2>3
    <3> HIDE DEF k
    <3>5. \A n \in Requests : Seen(n)' => n = k \/ Seen(n)
      BY <2>1, <3>4, SendSeen
    <3>6. \A d \in Calls : pc'[d] = "idle" => pc[d] = "idle"
      BY <3>4, SendEffect
    <3>7. QED
      BY <1>0, <2>1, <3>1, <3>3, <3>5, <3>6, AlikeIds
  <2>4. QED
    BY <1>6, <2>2, <2>3 DEF SignAndRetry
<1>7. ASSUME NEW c \in Calls, ReceivePaid(c) PROVE Ids'
  <2>1. UNCHANGED <<nextID, received>> /\ reply[c] # Nothing
    BY <1>7 DEF ReceivePaid, server
  <2>2. CASE Return(c, "payment_rejected", asked[c])
    BY <1>0, <2>1, <2>2, ReturnIds
  <2>3. CASE Finish(c)
    BY <1>0, <2>1, <2>3, FinishReturns, ReturnIds
  <2>4. QED
    BY <1>7, <2>2, <2>3 DEF ReceivePaid
<1>8. ASSUME NEW m \in wire, ServerHandles(m) PROVE Ids'
  <2>1. UNCHANGED <<nextID, pc, request>> /\ \A n \in Requests : Seen(n)' => Seen(n)
    BY <1>8 DEF ServerHandles, client, Seen
  <2>2. QED
    BY <1>0, <2>1, AlikeIds
<1>9. CASE UNCHANGED vars
  <2>1. UNCHANGED <<nextID, pc>> /\ \A n \in Requests : Seen(n)' => Seen(n)
    BY <1>9 DEF vars, Seen
  <2>2. QED
    BY <1>0, <2>1, AlikeIds
<1>10. QED
  BY <1>1, <1>2, <1>3, <1>4, <1>5, <1>6, <1>7, <1>8, <1>9 DEF Next, Proceed

\* The server sees each call as one request: the paid retry has the body and the
\* JSON-RPC id of the first attempt, and no two JSON-RPC calls share an id
\* (x402.go:93-110, mcp.go:90).
THEOREM RequestsApart == Spec => []OneRequestPerCall
<1>1. IInv /\ Ids => OneRequestPerCall
  <2>1. IInv /\ Ids => \A m \in received : m \in Requests /\ Seen(m)
    BY DEF IInv, TypeOK, Seen
  <2>2. QED
    BY <2>1 DEF Ids, OneRequestPerCall
<1>2. IInv /\ Ids /\ [Next]_vars => Ids'
  BY IdsStep
<1>3. QED
  BY <1>1, <1>2, InitIds, Invariance, PTL DEF Spec

-------------------------------------------------------------------------------
(* Requirements and outcomes.                                               *)

TruthOf(c) == QuotesOf(c) /\ HandledOf(c) /\ RefusedOf(c)

Truth == \A c \in Calls : TruthOf(c)

\* Before any call is made nothing is asked, sent or handled.
LEMMA InitTruth == Init => Truth
BY DEF Init, Truth, TruthOf, QuotesOf, HandledOf, RefusedOf, WasSent, WasHandled,
       Unreported, Unsent

\* A call keeps its truth while others send, are asked and are handled.
LEMMA OtherTruth ==
    ASSUME NEW d \in Calls, TruthOf(d),
           pc'[d] = pc[d], reply'[d] = reply[d], asked'[d] = asked[d],
           result'[d] = result[d], carried'[d] = carried[d],
           quoted[d] \subseteq quoted'[d], received \subseteq received',
           wire \cup received \subseteq wire' \cup received',
           \A m \in wire' \cup received' : m.call = d => m \in wire \cup received
    PROVE  TruthOf(d)'
<1>1. /\ WasHandled(d) => WasHandled(d)'
      /\ WasSent(d)' <=> WasSent(d)
      /\ WasPaid(d)' <=> WasPaid(d)
  BY DEF WasSent, WasHandled, WasPaid, PaidFor
<1>2. QED
  BY <1>1 DEF TruthOf, QuotesOf, HandledOf, RefusedOf

\* A step of call c that only sends requests of its own leaves the others' truth.
LEMMA OwnStep ==
    ASSUME IInv, Truth, NEW c \in Calls, UNCHANGED server, TruthOf(c)',
           wire \subseteq wire', \A m \in wire' \ wire : m.call = c,
           \A d \in Calls \ {c} :
              /\ pc'[d] = pc[d] /\ reply'[d] = reply[d] /\ asked'[d] = asked[d]
              /\ result'[d] = result[d] /\ carried'[d] = carried[d]
    PROVE  Truth'
<1>1. UNCHANGED <<received, quoted>>
  BY DEF server
<1>2. ASSUME NEW d \in Calls \ {c} PROVE TruthOf(d)'
  BY <1>1, <1>2, OtherTruth DEF Truth
<1>3. QED
  BY <1>2 DEF Truth

\* What Send does to the truth of its call: it waits for an answer.
LEMMA SendTruth ==
    ASSUME IInv, Truth, NEW c \in Calls, NEW m, m.call = c,
           NEW location \in {"first", "paid"}, Send(c, m, location),
           location = "paid" => WasHandled(c) /\ (m.payment # Nothing \/ WasPaid(c)),
           result[c] = "pending",
           UNCHANGED <<asked, result, carried>>, UNCHANGED server
    PROVE  Truth'
<1>1. TypeOK
  BY DEF IInv
<1>2. UNCHANGED <<received, quoted>>
  BY DEF server
<1>3. /\ pc'[c] = location /\ reply'[c] = Nothing /\ wire' = wire \cup {m}
  BY <1>1, SendEffect
<1>4. location = "paid" => WasPaid(c)'
  BY <1>2, <1>3 DEF WasPaid, PaidFor
<1>5. TruthOf(c)'
  BY <1>2, <1>3, <1>4
  DEF Truth, TruthOf, QuotesOf, HandledOf, RefusedOf, WasHandled, Unreported, Unsent
<1>6. QED
  BY <1>1, <1>3, <1>5, SendEffect, OwnStep

\* What Return does: the requirements it carries were asked, and its outcome fits
\* what is known of the server.
LEMMA ReturnTruth ==
    ASSUME IInv, Truth, NEW c \in Calls, NEW outcome, NEW requirements,
           Return(c, outcome, requirements), UNCHANGED asked, UNCHANGED server,
           outcome = "payment_required" =>
               /\ requirements \in quoted[c]
               /\ AuthMode[c] = "x402" => ~Payable(requirements),
           outcome = "payment_rejected" => requirements = asked[c] /\ WasPaid(c),
           outcome \in Unsent => ~WasSent(c),
           outcome \notin Unreported => WasHandled(c)
    PROVE  Truth'
<1>1. TypeOK
  BY DEF IInv
<1>2. UNCHANGED <<received, quoted>>
  BY DEF server
<1>3. /\ carried'[c] = requirements
      /\ \A d \in Calls \ {c} : carried'[d] = carried[d]
  BY <1>1 DEF TypeOK, Return
<1>4. TruthOf(c)'
  BY <1>1, <1>2, <1>3, ReturnEffect
  DEF Truth, TruthOf, QuotesOf, HandledOf, RefusedOf, WasSent, WasHandled, WasPaid
<1>5. QED
  BY <1>1, <1>3, <1>4, ReturnEffect, OwnStep

\* An answer's error carries its requirements or none.
LEMMA FinishCarries ==
    ASSUME NEW c \in Calls, Finish(c)
    PROVE  \E outcome \in Outcomes \ {"invalid", "auth_error", "token_failed",
                                      "payment_rejected"} :
               \E requirements \in {reply[c].offer, Nothing} :
                   /\ Return(c, outcome, requirements)
                   /\ outcome = "payment_required" =>
                         reply[c].status = "402" /\ requirements = reply[c].offer
<1>1. CASE reply[c].status \in {"402", "429", "failed"}
  <2>1. /\ HTTPError(reply[c].status)
              \in Outcomes \ {"invalid", "auth_error", "token_failed", "payment_rejected"}
        /\ HTTPError(reply[c].status) = "payment_required" => reply[c].status = "402"
    BY DEF HTTPError, Outcomes
  <2>2. Return(c, HTTPError(reply[c].status), reply[c].offer)
    BY <1>1 DEF Finish
  <2>3. QED
    BY <2>1, <2>2, Zenon
<1>2. CASE reply[c].status \notin {"402", "429", "failed"}
  <2>1. /\ Decoded(c, reply[c].status)
              \in Outcomes \ {"invalid", "auth_error", "token_failed", "payment_rejected"}
        /\ Decoded(c, reply[c].status) # "payment_required"
    BY DEF Decoded, Outcomes
  <2>2. Return(c, Decoded(c, reply[c].status), Nothing)
    BY <1>2 DEF Finish
  <2>3. QED
    BY <2>1, <2>2, Zenon
<1>3. QED
  BY <1>1, <1>2

\* A call that ends with an answer tells the truth.
LEMMA FinishTruth ==
    ASSUME IInv, Truth, NEW c \in Calls, reply[c] # Nothing, Finish(c), UNCHANGED asked,
           UNCHANGED server, AuthMode[c] # "x402" \/ reply[c].status # "402"
    PROVE  Truth'
<1>1. WasHandled(c)
  BY DEF Truth, TruthOf, HandledOf
<1>2. reply[c].status = "402" => reply[c].offer \in quoted[c]
  BY DEF Truth, TruthOf, QuotesOf
<1>3. PICK outcome \in Outcomes \ {"invalid", "auth_error", "token_failed", "payment_rejected"},
           requirements \in {reply[c].offer, Nothing} :
               /\ Return(c, outcome, requirements)
               /\ outcome = "payment_required" =>
                     reply[c].status = "402" /\ requirements = reply[c].offer
  BY FinishCarries
<1>4. outcome \notin Unsent
  BY DEF Unsent
<1>5. QED
  BY <1>1, <1>2, <1>3, <1>4, ReturnTruth

\* Every step keeps the truth of every call.
LEMMA TruthStep ==
    ASSUME IInv, Truth, [Next]_vars
    PROVE  Truth'
<1> USE DEF IInv
<1>1. ASSUME NEW c \in Calls, Begin(c) PROVE Truth'
  <2> DEFINE k == FirstRequest(c, RequestID(c))
  <2>1. k.call = c
    BY DEF FirstRequest
  <2>2. pc[c] = "idle" /\ UNCHANGED asked /\ UNCHANGED server /\ ~WasSent(c)
        /\ result[c] = "pending"
    BY <1>1 DEF Begin, Truth, TruthOf, HandledOf, Control, ControlOf
  <2>3. CASE pc' = [pc EXCEPT ![c] = "auth"] /\ UNCHANGED <<reply, result, carried, wire>>
    <3>1. TruthOf(c)'
      BY <2>2, <2>3
      DEF server, TypeOK, Truth, TruthOf, QuotesOf, HandledOf, RefusedOf, WasSent, WasHandled,
          Unsent
    <3>2. QED
      BY <2>2, <2>3, <3>1, OwnStep DEF TypeOK
  <2>4. CASE Send(c, k, "first") /\ UNCHANGED <<result, carried>>
    <3> HIDE DEF k
    <3> QED
      BY <2>1, <2>2, <2>4, SendTruth
  <2>5. CASE Return(c, "invalid", Nothing)
    BY <2>2, <2>5, ReturnTruth DEF Unreported, Unsent
  <2>6. QED
    BY <1>1, <2>3, <2>4, <2>5 DEF Begin
<1>2. ASSUME NEW c \in Calls, Authenticate(c) PROVE Truth'
  <2>1. pc[c] = "auth" /\ UNCHANGED asked /\ UNCHANGED server /\ ~WasSent(c)
        /\ result[c] = "pending" /\ request[c].call = c
    BY <1>2 DEF Authenticate, Truth, TruthOf, HandledOf, Control, ControlOf
  <2>2. CASE Send(c, request[c], "first") /\ UNCHANGED <<result, carried>>
    BY <2>1, <2>2, SendTruth
  <2>3. CASE \E outcome \in {"auth_error", "token_failed"} : Return(c, outcome, Nothing)
    BY <2>1, <2>3, ReturnTruth DEF Unreported, Unsent
  <2>4. QED
    BY <1>2, <2>2, <2>3 DEF Authenticate
<1>3. ASSUME NEW c \in Calls, ConnectionFails(c) PROVE Truth'
  BY <1>3, ReturnTruth DEF ConnectionFails, Unreported, Unsent
<1>4. ASSUME NEW c \in Calls, Resend(c) PROVE Truth'
  <2> DEFINE k == [request[c] EXCEPT !.copy = 2]
  <2>1. request[c] \in Requests /\ request[c].call = c /\ result[c] = "pending"
        /\ pc[c] \in {"first", "paid"}
    BY <1>4 DEF Resend, Control, ControlOf, TypeOK
  <2>2. k.call = c
    BY <2>1 DEF Requests
  <2>3. pc[c] = "paid" => WasHandled(c) /\ WasPaid(c)
    BY DEF Truth, TruthOf, HandledOf, RefusedOf
  <2>4. Send(c, k, pc[c]) /\ UNCHANGED <<asked, result, carried>> /\ UNCHANGED server
    BY <1>4 DEF Resend
  <2> HIDE DEF k
  <2>5. QED
    BY <2>1, <2>2, <2>3, <2>4, SendTruth
<1>5. ASSUME NEW c \in Calls, ReceiveFirst(c) PROVE Truth'
  <2>1. reply[c] # Nothing /\ UNCHANGED server /\ result[c] = "pending" /\ WasHandled(c)
    BY <1>5 DEF ReceiveFirst, Truth, TruthOf, HandledOf, Control, ControlOf
  <2>2. reply[c].status = "402" => reply[c].offer \in quoted[c]
    BY <2>1 DEF Truth, TruthOf, QuotesOf
  <2>3. CASE /\ AuthMode[c] # "x402" \/ reply[c].status # "402"
             /\ Finish(c) /\ UNCHANGED asked
    BY <2>1, <2>3, FinishTruth
  <2>4. CASE /\ reply[c].status = "402" /\ CannotPay(reply[c].offer)
             /\ Return(c, "payment_required", reply[c].offer) /\ UNCHANGED asked
    BY <2>1, <2>2, <2>4, ReturnTruth DEF CannotPay, Unsent
  <2>5. CASE /\ reply[c].status = "402"
             /\ Payable(reply[c].offer)
             /\ pc' = [pc EXCEPT ![c] = "sign"]
             /\ asked' = [asked EXCEPT ![c] = reply[c].offer]
             /\ reply' = [reply EXCEPT ![c] = Nothing]
             /\ UNCHANGED <<request, result, carried, wire>>
    <3>1. reply[c].offer # Nothing /\ FilterAcceptsByNetwork(reply[c].offer)
      BY <2>5 DEF Payable
    <3>2. pc'[c] = "sign" /\ asked'[c] = reply[c].offer /\ reply'[c] = Nothing
          /\ UNCHANGED <<received, quoted>>
      BY <2>1, <2>5 DEF TypeOK, server
    <3>3. FilterAcceptsByNetwork(asked'[c])
      BY <3>1, <3>2
    <3>4. TruthOf(c)'
      BY <2>1, <2>2, <2>5, <3>1, <3>2, <3>3
      DEF Truth, TruthOf, QuotesOf, HandledOf, RefusedOf, WasHandled, Unreported, Unsent
    <3>5. QED
      BY <2>1, <2>5, <3>4, OwnStep DEF TypeOK
  <2>6. QED
    BY <1>5, <2>3, <2>4, <2>5 DEF ReceiveFirst
<1>6. ASSUME NEW c \in Calls, SignAndRetry(c) PROVE Truth'
  <2>1. request[c] \in Requests /\ request[c].call = c /\ result[c] = "pending"
        /\ UNCHANGED asked /\ UNCHANGED server /\ WasHandled(c)
    BY <1>6 DEF SignAndRetry, Truth, TruthOf, HandledOf, Control, ControlOf, TypeOK
  <2>2. CASE Return(c, "sign_error", Nothing)
    BY <2>1, <2>2, ReturnTruth DEF Unsent
  <2>3. ASSUME NEW p, p # Nothing, UNCHANGED <<result, carried>>,
               Send(c, [request[c] EXCEPT !.body = RetryBody(c), !.payment = p, !.copy = 1],
                    "paid")
        PROVE  Truth'
    <3> DEFINE k == [request[c] EXCEPT !.body = RetryBody(c), !.payment = p, !.copy = 1]
    <3>1. k.call = c /\ k.payment # Nothing
      BY <2>1, <2>3 DEF Requests
    <3>2. Send(c, k, "paid")
      BY <2>3
    <3> HIDE DEF k
    <3>3. QED
      BY <2>1, <2>3, <3>1, <3>2, SendTruth
  <2>4. asked[c] # Nothing /\ signatures[c] = 0
    BY <1>6 DEF SignAndRetry, Control, ControlOf
  <2>5. signatures' = [signatures EXCEPT ![c] = @ + 1] =>
            [call |-> c, offer |-> asked[c], nonce |-> signatures'[c]] # Nothing
    <3>1. asked[c] \in Offers
      BY <2>4 DEF TypeOK
    <3>2. signatures' = [signatures EXCEPT ![c] = @ + 1] => signatures'[c] = 1
      BY <2>4 DEF TypeOK
    <3>3. QED
      BY <3>1, <3>2, NothingAssumption DEF Payments
  <2>6. QED
    BY <1>6, <2>2, <2>3, <2>5 DEF SignAndRetry
<1>7. ASSUME NEW c \in Calls, ReceivePaid(c) PROVE Truth'
  <2>1. reply[c] # Nothing /\ UNCHANGED asked /\ UNCHANGED server /\ WasHandled(c) /\ WasPaid(c)
    BY <1>7 DEF ReceivePaid, Truth, TruthOf, HandledOf, RefusedOf
  <2>2. CASE Return(c, "payment_rejected", asked[c])
    BY <2>1, <2>2, ReturnTruth DEF Unsent
  <2>3. CASE reply[c].status # "402" /\ Finish(c)
    BY <2>1, <2>3, FinishTruth
  <2>4. QED
    BY <1>7, <2>2, <2>3 DEF ReceivePaid
<1>8. ASSUME NEW m \in wire, ServerHandles(m) PROVE Truth'
  <2>1. m.call \in Calls /\ UNCHANGED <<pc, asked, result, carried>>
        /\ wire' = wire \ {m} /\ received' = received \cup {m}
    BY <1>8 DEF ServerHandles, client, TypeOK, Requests
  <2>2. PICK r \in AnswersTo(m) :
           /\ reply' = IF request[m.call] = m THEN [reply EXCEPT ![m.call] = r] ELSE reply
           /\ quoted' = [quoted EXCEPT ![m.call] =
                            IF r.status = "402" THEN @ \cup {r.offer} ELSE @]
    BY <1>8 DEF ServerHandles
  <2>3. \A d \in Calls : quoted[d] \subseteq quoted'[d]
    BY <2>1, <2>2 DEF TypeOK
  <2>4. ASSUME NEW d \in Calls, d # m.call PROVE TruthOf(d)'
    <3>1. reply'[d] = reply[d]
      BY <2>1, <2>2, <2>4 DEF TypeOK
    <3>2. QED
      BY <2>1, <2>3, <2>4, <3>1, OtherTruth DEF Truth
  <2>5. TruthOf(m.call)'
    <3> DEFINE d == m.call
    <3>1. WasHandled(d)' /\ WasSent(d)
      BY <2>1 DEF WasHandled, WasSent
    <3>2. r.status = "402" => r.offer \in quoted'[d]
      BY <2>1, <2>2 DEF TypeOK
    <3>3. reply'[d] \in {r, reply[d]}
      BY <2>1, <2>2 DEF TypeOK
    <3>4. QuotesOf(d)'
      BY <2>1, <2>3, <3>2, <3>3 DEF Truth, TruthOf, QuotesOf, FilterAcceptsByNetwork
    <3>5. HandledOf(d)'
      BY <2>1, <3>1 DEF Truth, TruthOf, HandledOf
    <3>6. WasPaid(d)' <=> WasPaid(d)
      BY <2>1 DEF WasPaid
    <3>7. RefusedOf(d)'
      BY <2>1, <2>3, <3>6 DEF Truth, TruthOf, RefusedOf
    <3>8. QED
      BY <3>4, <3>5, <3>7 DEF TruthOf
  <2>6. QED
    BY <2>4, <2>5 DEF Truth
<1>9. CASE UNCHANGED vars
  BY <1>9, OtherTruth DEF vars, Truth
<1>10. QED
  BY <1>1, <1>2, <1>3, <1>4, <1>5, <1>6, <1>7, <1>8, <1>9 DEF Next, Proceed

\* Truth holds in every reachable state.
LEMMA AlwaysTruth == Spec => []Truth
<1>1. IInv /\ Truth /\ [Next]_vars => Truth'
  BY TruthStep
<1>2. QED
  BY <1>1, InitTruth, Invariance, PTL DEF Spec

\* Nothing is paid that the server did not ask this very call for, or that it would
\* not take from the signer's network (x402.go:75-88).
THEOREM PaysAsked == Spec => []PaysWhatWasAsked
<1>1. ASSUME IInv, Truth PROVE PaysWhatWasAsked
  <2>1. ASSUME NEW p \in settled
        PROVE  /\ p.offer \in quoted[p.call]
               /\ Network \in {p.offer[i] : i \in DOMAIN p.offer}
    <3>1. p \in Payments /\ p.call \in Calls /\ p.offer \in Offers /\ p.offer # Nothing
      BY <1>1, NothingAssumption DEF IInv, TypeOK, Payments
    <3>2. p.offer = asked[p.call]
      BY <1>1, <3>1 DEF IInv, OnePayment, PaymentOf
    <3>3. asked[p.call] \in quoted[p.call] /\ FilterAcceptsByNetwork(asked[p.call])
      BY <1>1, <3>1, <3>2 DEF Truth, TruthOf, QuotesOf
    <3>4. QED
      BY <3>2, <3>3 DEF FilterAcceptsByNetwork
  <2>2. QED
    BY <2>1 DEF PaysWhatWasAsked
<1>2. QED
  BY <1>1, Invariance, AlwaysTruth, PTL

\* A call refused before it was sent, or whose GetIDToken failed, never reached the
\* wire; a reported answer was given by the server; "Payment required" carries what
\* a 402 asked, after no payment, and "Payment rejected" what the payment was made
\* from (client.go:263-303, mcp.go:114-204, x402.go:66-126).
THEOREM OutcomesTrue == Spec => []OutcomesAreTruthful
<1>1. ASSUME IInv, Truth PROVE OutcomesAreTruthful
  <2>1. ASSUME NEW c \in Calls
        PROVE  /\ result[c] \in Unsent => RequestsOf(c) = {}
               /\ result[c] \notin Unreported => RequestsOf(c) \cap received # {}
    BY <1>1 DEF Truth, TruthOf, HandledOf, WasSent, WasHandled, RequestsOf
  <2>2. ASSUME NEW c \in Calls, result[c] = "payment_required"
        PROVE  /\ carried[c] \in quoted[c]
               /\ \A m \in RequestsOf(c) : m.payment = Nothing
               /\ AuthMode[c] = "x402" => ~Payable(carried[c])
    <3>1. signatures[c] = 0
      BY <1>1, <2>2 DEF IInv, UnsignedErrors
    <3>2. QED
      BY <1>1, <2>2, <3>1, UnsignedIsUnpaid
      DEF Truth, TruthOf, RefusedOf, RequestsOf, PaidFor
  <2>3. ASSUME NEW c \in Calls, result[c] = "payment_rejected"
        PROVE  /\ \E m \in RequestsOf(c) : m.payment # Nothing
               /\ \A m \in RequestsOf(c) : m.payment # Nothing => carried[c] = m.payment.offer
    <3>1. WasPaid(c) /\ carried[c] = asked[c]
      BY <1>1, <2>3 DEF Truth, TruthOf, RefusedOf
    <3>2. ASSUME NEW m \in RequestsOf(c), m.payment # Nothing
          PROVE  carried[c] = m.payment.offer
      <4>1. m \in wire \cup received /\ m.call = c
        BY <3>2 DEF RequestsOf
      <4>2. m.payment = PaymentOf(c)
        BY <1>1, <3>2, <4>1 DEF IInv, OnePayment
      <4>3. QED
        BY <3>1, <4>2 DEF PaymentOf
    <3>3. QED
      BY <3>1, <3>2 DEF WasPaid, PaidFor, RequestsOf
  <2>4. QED
    BY <2>1, <2>2, <2>3 DEF OutcomesAreTruthful, Unsent, Unreported
<1>2. QED
  BY <1>1, Invariance, AlwaysTruth, PTL
===============================================================================
