--------------------------- MODULE ServiceCallsProofs --------------------------
(***************************************************************************)
(* What holds of the service calls for any calls, inputs and answers, and  *)
(* of the error mappings for any response.                                 *)
(*                                                                         *)
(* The first part is about ErrorMapping's operators.  In the second the    *)
(* inductive invariant ties each call to the copies of its request that    *)
(* are on the wire (Traffic), its answer and outcome to what the server    *)
(* has done for it (Told), and each field to the updates (Survival).       *)
(***************************************************************************)
EXTENDS ServiceCalls, SequenceTheorems, TLAPS

-------------------------------------------------------------------------------
(* The error mappings.                                                      *)

TypeOf(status) ==
    IF status = 402 THEN "PaymentRequiredError"
    ELSE IF status = 429 THEN "RateLimitError"
    ELSE "APIError"

Branch(status) == IF status = 402 THEN "pay" ELSE IF status = 429 THEN "wait" ELSE "failed"

\* The switch finds the type of the status at the front of its chain.
LEMMA BareChains ==
    ASSUME NEW e, NEW s, e.chain = Unwrapped(TypeOf(s))
    PROVE  Classified(e) = Branch(s)
<1>1. CASE s = 402
  <2>1. e.chain = <<"PaymentRequiredError", "APIError">>
    BY <1>1 DEF Unwrapped, TypeOf
  <2>2. As(e, "PaymentRequiredError")
    BY <2>1 DEF As
  <2>3. QED
    BY <1>1, <2>2 DEF Classified, Branch
<1>2. CASE s = 429
  <2>1. e.chain = <<"RateLimitError", "APIError">>
    BY <1>2 DEF Unwrapped, TypeOf
  <2>2. As(e, "RateLimitError") /\ ~As(e, "PaymentRequiredError")
    BY <2>1 DEF As
  <2>3. QED
    BY <1>2, <2>2 DEF Classified, Branch
<1>3. CASE s # 402 /\ s # 429
  <2>1. e.chain = <<"APIError">>
    BY <1>3 DEF Unwrapped, TypeOf
  <2>2. As(e, "APIError") /\ ~As(e, "PaymentRequiredError") /\ ~As(e, "RateLimitError")
    BY <2>1 DEF As
  <2>3. QED
    BY <1>3, <2>2 DEF Classified, Branch
<1>4. QED
  BY <1>1, <1>2, <1>3

\* Both copies of the mapping make an error of the type of the status, rpc if it can read
\* the body.
LEMMA ErrorChains ==
    ASSUME NEW r, NEW service, service = "mcp" => r.body # "broken"
    PROVE  ErrorOf(service, r).chain = Unwrapped(TypeOf(r.status))
<1>1. DoError(r).chain = Unwrapped(TypeOf(r.status))
  BY DEF DoError, NewError, TypeOf
<1>2. r.body # "broken" => RpcError(r).chain = Unwrapped(TypeOf(r.status))
  BY DEF RpcError, NewError, TypeOf
<1>3. QED
  BY <1>1, <1>2 DEF ErrorOf

\* An error of none of the SDK's types takes no branch.
LEMMA ReadErrorUnknown == Classified(ReadError) = "unknown"
<1>1. ReadError.chain = <<"fmt.wrapError", "io.error">>
  BY DEF ReadError, NewError
<1>2. ReadError.chain[1] = "fmt.wrapError" /\ ReadError.chain[2] = "io.error"
      /\ DOMAIN ReadError.chain = {1, 2}
  BY <1>1
<1>3. QED
  BY <1>2 DEF Classified, As

\* The switch takes the branch of the status in every mode and service, or none when
\* rpc cannot read the body: the wrapper around the errors of doWithX402 hides none of
\* their types.
LEMMA Classification ==
    ASSUME NEW r, NEW mode, NEW service
    PROVE  Classified(CallError(mode, service, r)) =
              IF Unreadable(mode, service, r) THEN "unknown" ELSE Branch(r.status)
<1>1. CASE mode = "x402" /\ r.status = 402
  <2> DEFINE e == CallError(mode, service, r)
  <2>1. X402Error(r).chain = <<"PaymentRequiredError", "APIError">>
    BY DEF X402Error, NewError, Unwrapped
  <2>2. e.chain = <<"fmt.wrapError">> \o X402Error(r).chain
    BY <1>1 DEF CallError, Wrapped, X402Error, NewError
  <2> HIDE DEF e
  <2>3. As(e, "PaymentRequiredError")
    <3> DEFINE w == <<"fmt.wrapError">>
               q == <<"PaymentRequiredError", "APIError">>
               S == {"fmt.wrapError", "PaymentRequiredError", "APIError"}
    <3>1. w \in Seq(S) /\ q \in Seq(S) /\ Len(w) = 1 /\ Len(q) = 2
      OBVIOUS
    <3>2. w \o q \in Seq(S) /\ Len(w \o q) = 3 /\ (w \o q)[2] = q[1]
      BY <3>1, ConcatProperties
    <3>3. 2 \in DOMAIN e.chain /\ e.chain[2] = "PaymentRequiredError"
      BY <2>1, <2>2, <3>2
    <3>4. QED
      BY <3>3 DEF As
  <2>4. Classified(e) = "pay"
    BY <2>3 DEF Classified
  <2>5. QED
    BY <1>1, <2>4 DEF e, Branch, Unreadable
<1>2. CASE ~(mode = "x402" /\ r.status = 402)
  <2>1. CallError(mode, service, r) = ErrorOf(service, r)
    BY <1>2 DEF CallError
  <2>2. CASE service = "mcp" /\ r.body = "broken"
    <3>1. ErrorOf(service, r) = ReadError
      BY <2>2 DEF ErrorOf, RpcError
    <3>2. QED
      BY <1>2, <2>1, <2>2, <3>1, ReadErrorUnknown DEF Unreadable
  <2>3. CASE ~(service = "mcp" /\ r.body = "broken")
    BY <2>1, <2>3, ErrorChains, BareChains DEF Unreadable
  <2>4. QED
    BY <2>2, <2>3
<1>3. QED
  BY <1>1, <1>2

\* The two copies differ in the message of an empty member, and where rpc cannot read
\* the body, and nowhere else.
LEMMA Agreement ==
    ASSUME NEW r \in Responses
    PROVE  Agreed(r)
<1>1. r.body \in {"whole", "broken"}
  BY DEF Responses
<1>2. CASE r.body = "whole"
  <2>1. /\ DoMessage(r) # "empty" => DoMessage(r) = RpcMessage(r)
        /\ RpcMessage(r) # "empty"
    BY DEF DoMessage, RpcMessage
  <2>2. ASSUME NEW chain, NEW m, NEW n, NEW required, NEW after
        PROVE  [NewError(chain, m, required, after) EXCEPT !.message = "any"] =
                  [NewError(chain, n, required, after) EXCEPT !.message = "any"]
    BY DEF NewError
  <2>3. [DoError(r) EXCEPT !.message = "any"] = [RpcError(r) EXCEPT !.message = "any"]
    BY <1>2, <2>2 DEF DoError, RpcError
  <2>4. DoMessage(r) = RpcMessage(r) => DoError(r) = RpcError(r)
    BY <1>2 DEF DoError, RpcError
  <2>5. DoError(r).message = DoMessage(r) /\ RpcError(r).message = RpcMessage(r)
    BY <1>2 DEF DoError, RpcError, NewError
  <2>6. DoError(r) = RpcError(r) <=> DoMessage(r) # "empty"
    BY <2>1, <2>4, <2>5
  <2>7. QED
    BY <1>2, <2>3, <2>6 DEF Agreed
<1>3. CASE r.body = "broken"
  <2>1. RpcError(r).chain = <<"fmt.wrapError", "io.error">>
    BY <1>3 DEF RpcError, ReadError, NewError
  <2>2. DoError(r).chain = Unwrapped(TypeOf(r.status))
    BY ErrorChains DEF ErrorOf
  <2>3. DoError(r).chain[1] # "fmt.wrapError"
    BY <2>2 DEF Unwrapped, TypeOf
  <2>4. DoError(r) # RpcError(r)
    BY <2>1, <2>3
  <2>5. QED
    BY <1>3, <2>4 DEF Agreed
<1>4. QED
  BY <1>1, <1>2, <1>3

-------------------------------------------------------------------------------
(* The inductive invariant.                                                 *)

Message(c, copy) == [call |-> c, copy |-> copy, sets |-> SentFields(c)]

\* Whether a copy of the request of a call is on its way, as a number.
Count(c, copy) == IF Message(c, copy) \in wire THEN 1 ELSE 0

\* Every request is that of its call, and a call under way waits for one of its own,
\* which has left the wire when its answer is there.
ControlOf(c) ==
    /\ sent[c] # Nothing => outcome[c] = "pending"
                            /\ sent[c] = Message(c, sent[c].copy)
                            /\ sent[c].copy \in {1, 2}
    /\ reply[c] # Nothing => sent[c] # Nothing /\ sent[c] \notin wire

Control ==
    /\ \A c \in Calls : ControlOf(c)
    /\ \A m \in wire : m = Message(m.call, m.copy)

\* A copy of a request changes something once, and on its way not yet; only a GET
\* has a second copy.
TrafficOf(c) ==
    /\ effects[c] + Count(c, 1) + Count(c, 2) <= 2
    /\ sent[c] = Nothing /\ outcome[c] = "pending" =>
          effects[c] = 0 /\ Count(c, 1) = 0 /\ Count(c, 2) = 0
    /\ sent[c] # Nothing /\ sent[c].copy = 1 =>
          effects[c] + Count(c, 1) <= 1 /\ Count(c, 2) = 0
    /\ ~Replayable(c) =>
          /\ effects[c] + Count(c, 1) <= 1 /\ Count(c, 2) = 0
          /\ sent[c] # Nothing => sent[c].copy = 1

Traffic == \A c \in Calls : TrafficOf(c)

\* What an answer that has arrived says of the server.
HeardOf(c) ==
    reply[c] # Nothing =>
        LET status == reply[c].status IN
        /\ status < 400 /\ Effect(c) # "read" => effects[c] > 0
        /\ status \in 400 .. 499 /\ ~Replayable(c) => effects[c] = 0
        /\ status < 400 /\ Effect(c) = "create" => reply[c].resource = <<c, 1>>
        /\ status = 204 => ~MethodOf[c].result

\* What an outcome says of it, now and later.
ReportedOf(c) ==
    /\ outcome[c] = "ok" /\ Effect(c) # "read" => effects[c] > 0
    /\ outcome[c] = "ok" /\ Effect(c) = "create" => returned[c] = <<c, 1>>
    /\ outcome[c] \in {"pay", "wait", "failed"} => code[c] >= 400
    /\ Refused(c) /\ ~Replayable(c) => effects[c] = 0 /\ outcome[c] # "pending"
    /\ outcome[c] \in Outcomes \ {"pending", "request_failed"} /\ ~Replayable(c) =>
          Count(c, 1) = 0 /\ Count(c, 2) = 0
    /\ outcome[c] = "request_failed" => code[c] = 0

Told == \A c \in Calls : HeardOf(c) /\ ReportedOf(c)

\* What was created was created for a call of a creating method, once.
Creations ==
    \A r \in created : Effect(r[1]) = "create" /\ effects[r[1]] > 0 /\ r[2] = 1

\* A field keeps what an update set once the server has done it, or has what a
\* later update or one in progress at its beginning set.
Kept(c, f) ==
    \/ fields[f] = c
    \/ fields[f] \in Calls \ earlier[c] /\ f \in SentFields(fields[f])

Done(c) == outcome[c] = "ok" \/ (reply[c] # Nothing /\ reply[c].status < 400)

Survival ==
    \A c \in Calls :
        /\ earlier[c] \subseteq AnsweredUpdates
        /\ Done(c) => \A f \in SentFields(c) : Kept(c, f)

IInv == TypeOK /\ Control /\ Traffic /\ Told /\ Creations /\ Survival

-------------------------------------------------------------------------------
(* The methods and the requests.                                            *)

\* What is created or updated is not so by a GET, and what is created is decoded.
LEMMA MethodFacts ==
    ASSUME NEW c \in Calls
    PROVE  /\ Effect(c) \in {"create", "update"} => ~Replayable(c)
           /\ Effect(c) = "create" => MethodOf[c].result
           /\ Effect(c) # "update" => SentFields(c) = {}
           /\ Effect(c) = "update" => SentFields(c) = Input[c]
           /\ SentFields(c) \in SUBSET Fields
<1>1. MethodOf[c] \in Methods
  BY MethodAssumption
<1>2. ASSUME NEW m \in Methods
      PROVE  /\ m.effect \in {"create", "update"} => m.verb # "GET"
             /\ m.effect = "create" => m.result
  BY DEF Methods, SubscriptionMethods, WebhookMethods, APIKeyMethods, PushMethods,
         WalletMethods, PaymentMethods, BundleMethods, RedeemMethods, DataMethods,
         AgentMethods, Method
<1>3. QED
  BY <1>1, <1>2, InputAssumption DEF Effect, Replayable, SentFields

\* The two copies of a request are different requests, and requests of different
\* calls are.
LEMMA Messages ==
    ASSUME NEW c \in Calls, NEW copy \in {1, 2}
    PROVE  /\ Message(c, copy) \in Requests
           /\ Message(c, copy).call = c
           /\ Message(c, copy).copy = copy
           /\ Message(c, copy).sets = SentFields(c)
           /\ Message(c, copy) # Nothing
BY MethodFacts, NothingAssumption DEF Message, Requests

\* The counts are numbers, and depend on the wire only.
LEMMA Counts ==
    ASSUME NEW c \in Calls, NEW copy \in {1, 2}
    PROVE  Count(c, copy) \in {0, 1}
BY DEF Count

\* Before anything happens.
LEMMA InitIInv == Init => IInv
<1> SUFFICES ASSUME Init PROVE IInv
  OBVIOUS
<1>1. TypeOK
  BY DEF Init, TypeOK, Outcomes
<1>2. Control /\ Creations
  BY DEF Init, Control, ControlOf, Creations
<1>3. Traffic
  BY DEF Init, Traffic, TrafficOf, Count
<1>4. Told
  BY DEF Init, Told, HeardOf, ReportedOf, Refused
<1>5. Survival
  BY DEF Init, Survival, Done
<1>6. QED
  BY <1>1, <1>2, <1>3, <1>4, <1>5 DEF IInv

-------------------------------------------------------------------------------
(* The steps of a call.                                                     *)

\* Sending the first copy of a request, or the second one of a GET.
LEMMA SendStep ==
    ASSUME IInv, NEW c \in Calls, NEW copy \in {1, 2}, Send(c, copy),
           outcome[c] = "pending",
           copy = 1 => sent[c] = Nothing,
           copy = 2 => sent[c] # Nothing /\ sent[c].copy = 1 /\ Replayable(c),
           NEW v \in SUBSET AnsweredUpdates, earlier' = [earlier EXCEPT ![c] = v],
           UNCHANGED <<outcome, code, returned, server>>
    PROVE  IInv'
<1> DEFINE m == Message(c, copy)
<1>1. /\ sent' = [sent EXCEPT ![c] = m]
      /\ reply' = [reply EXCEPT ![c] = Nothing]
      /\ wire' = wire \cup {m}
  BY DEF Send, Message
<1>2. m \in Requests /\ m # Nothing /\ m.call = c /\ m.copy = copy
  BY Messages
<1>3. \A d \in Calls, k \in {1, 2} : Message(d, k) = m <=> d = c /\ k = copy
  BY Messages
<1> HIDE DEF m
<1>4. TypeOK'
  <2>1. AnsweredUpdates \subseteq Calls
    BY DEF AnsweredUpdates
  <2>2. QED
    BY <1>1, <1>2, <2>1 DEF IInv, TypeOK, server
<1>5. Control'
  <2>1. ASSUME NEW d \in Calls PROVE ControlOf(d)'
    <3>1. CASE d = c
      BY <1>1, <1>2, <3>1 DEF IInv, TypeOK, ControlOf, m
    <3>2. CASE d # c
      <4>1. sent'[d] = sent[d] /\ reply'[d] = reply[d] /\ ControlOf(d)
        BY <1>1, <3>2 DEF IInv, TypeOK, Control
      <4>2. sent[d] # Nothing => sent[d] # m
        BY <1>3, <3>2, <4>1 DEF ControlOf
      <4>3. QED
        BY <1>1, <4>1, <4>2 DEF ControlOf
    <3>3. QED
      BY <3>1, <3>2
  <2>2. \A n \in wire' : n = Message(n.call, n.copy)
    BY <1>1, <1>2 DEF IInv, Control, m
  <2>3. QED
    BY <2>1, <2>2 DEF Control
<1>6. \A d \in Calls, k \in {1, 2} :
         Count(d, k)' = IF d = c /\ k = copy THEN 1 ELSE Count(d, k)
  BY <1>1, <1>3 DEF Count
<1>7. Traffic'
  <2>1. ASSUME NEW d \in Calls PROVE TrafficOf(d)'
    <3>1. /\ effects'[d] = effects[d] /\ effects[d] \in 0 .. 2 /\ outcome'[d] = outcome[d]
          /\ TrafficOf(d) /\ Count(d, 1) \in {0, 1} /\ Count(d, 2) \in {0, 1}
      BY Counts DEF IInv, TypeOK, Traffic, server
    <3>2. CASE d = c
      <4>1. sent'[c] = m /\ m # Nothing /\ m.copy = copy
        BY <1>1, <1>2 DEF IInv, TypeOK
      <4>2. CASE copy = 1
        BY <1>6, <3>1, <3>2, <4>1, <4>2 DEF TrafficOf, Replayable
      <4>3. CASE copy = 2
        BY <1>6, <3>1, <3>2, <4>1, <4>3 DEF TrafficOf, Replayable
      <4>4. QED
        BY <4>2, <4>3
    <3>3. CASE d # c
      <4>1. sent'[d] = sent[d]
        BY <1>1, <3>3 DEF IInv, TypeOK
      <4>2. QED
        BY <1>6, <3>1, <3>3, <4>1 DEF TrafficOf, Replayable
    <3>4. QED
      BY <3>2, <3>3
  <2>2. QED
    BY <2>1 DEF Traffic
<1>8. Told'
  <2>1. ASSUME NEW d \in Calls PROVE HeardOf(d)'
    <3>1. reply'[d] \in {reply[d], Nothing}
      BY <1>1 DEF IInv, TypeOK
    <3>2. QED
      BY <3>1 DEF IInv, Told, HeardOf, server, Effect, Replayable
  <2>2. ASSUME NEW d \in Calls PROVE ReportedOf(d)'
    BY <1>6 DEF IInv, Told, ReportedOf, Refused, server, Effect, Replayable
  <2>3. QED
    BY <2>1, <2>2 DEF Told
<1>9. Creations'
  BY DEF IInv, Creations, server, Effect
<1>10. Survival'
  <2>1. AnsweredUpdates' = AnsweredUpdates
    BY DEF AnsweredUpdates, Effect
  <2>2. ASSUME NEW d \in Calls
        PROVE  /\ earlier'[d] \subseteq AnsweredUpdates
               /\ Done(d)' => \A f \in SentFields(d) : Kept(d, f)'
    <3>1. CASE d = c
      BY <1>1, <3>1 DEF IInv, TypeOK, Done
    <3>2. CASE d # c
      BY <1>1, <3>2 DEF IInv, TypeOK, Survival, Done, Kept, server
    <3>3. QED
      BY <3>1, <3>2
  <2>3. QED
    BY <2>1, <2>2 DEF Survival, SentFields, Effect
<1>11. QED
  BY <1>4, <1>5, <1>7, <1>8, <1>9, <1>10 DEF IInv

\* Returning, with an outcome that what has arrived justifies.
LEMMA ReturnStep ==
    ASSUME IInv, NEW c \in Calls, sent[c] # Nothing,
           NEW how \in Outcomes \ {"pending"}, NEW status \in Statuses \cup {0},
           NEW resource \in Resources \cup {Nothing}, Return(c, how, status, resource),
           how = "request_failed" => status = 0,
           how # "request_failed" => sent[c] \notin wire,
           how = "ok" => reply[c] # Nothing /\ reply[c].status < 400,
           how = "ok" /\ Effect(c) # "read" => effects[c] > 0,
           how = "ok" /\ Effect(c) = "create" => resource = <<c, 1>>,
           how \in {"pay", "wait", "failed"} => status >= 400,
           status \in 400 .. 499 /\ ~Replayable(c) => effects[c] = 0
    PROVE  IInv'
<1>1. /\ sent' = [sent EXCEPT ![c] = Nothing]
      /\ reply' = [reply EXCEPT ![c] = Nothing]
      /\ outcome' = [outcome EXCEPT ![c] = how]
      /\ code' = [code EXCEPT ![c] = status]
      /\ returned' = [returned EXCEPT ![c] = resource]
      /\ UNCHANGED <<earlier, wire, created, exists, fields, effects>>
  BY DEF Return, server
<1>2. outcome[c] = "pending" /\ sent[c] = Message(c, sent[c].copy) /\ sent[c].copy \in {1, 2}
  BY DEF IInv, Control, ControlOf
<1>3. TypeOK'
  BY <1>1 DEF IInv, TypeOK
<1>4. \A d \in Calls :
         /\ d = c => /\ sent'[d] = Nothing /\ reply'[d] = Nothing /\ outcome'[d] = how
                     /\ code'[d] = status /\ returned'[d] = resource
         /\ d # c => /\ sent'[d] = sent[d] /\ reply'[d] = reply[d]
                     /\ outcome'[d] = outcome[d] /\ code'[d] = code[d]
                     /\ returned'[d] = returned[d]
  BY <1>1 DEF IInv, TypeOK
<1>5. Control'
  BY <1>1, <1>4 DEF IInv, Control, ControlOf
<1>6. \A d \in Calls, k \in {1, 2} : Count(d, k)' = Count(d, k)
  BY <1>1 DEF Count
<1>7. Traffic'
  <2>1. ASSUME NEW d \in Calls PROVE TrafficOf(d)'
    <3>1. TrafficOf(d) /\ effects'[d] = effects[d]
      BY <1>1 DEF IInv, Traffic
    <3>2. QED
      BY <1>4, <1>6, <3>1 DEF TrafficOf, Replayable
  <2>2. QED
    BY <2>1 DEF Traffic
<1>8. Told'
  <2>1. ASSUME NEW d \in Calls PROVE HeardOf(d)'
    BY <1>1, <1>4 DEF IInv, Told, HeardOf, Effect, Replayable
  <2>2. ASSUME NEW d \in Calls PROVE ReportedOf(d)'
    <3>1. CASE d = c
      <4>1. how # "request_failed" /\ ~Replayable(c) =>
               Count(c, 1)' = 0 /\ Count(c, 2)' = 0
        BY <1>2, <1>6 DEF IInv, Traffic, TrafficOf, Count
      <4>2. /\ effects'[c] = effects[c] /\ Refused(c)' = (status \in 400 .. 499)
            /\ outcome'[c] = how /\ code'[c] = status /\ returned'[c] = resource
        BY <1>1, <1>4 DEF Refused
      <4>3. /\ outcome'[c] = "ok" /\ Effect(c) # "read" => effects'[c] > 0
            /\ outcome'[c] = "ok" /\ Effect(c) = "create" => returned'[c] = <<c, 1>>
        BY <4>2
      <4>4. /\ outcome'[c] \in {"pay", "wait", "failed"} => code'[c] >= 400
            /\ outcome'[c] = "request_failed" => code'[c] = 0
        BY <4>2
      <4>5. Refused(c)' /\ ~Replayable(c) => effects'[c] = 0 /\ outcome'[c] # "pending"
        BY <4>2
      <4>6. outcome'[c] \in Outcomes \ {"pending", "request_failed"} /\ ~Replayable(c) =>
               Count(c, 1)' = 0 /\ Count(c, 2)' = 0
        BY <4>1, <4>2
      <4>7. ReportedOf(c)'
        BY <4>3, <4>4, <4>5, <4>6 DEF ReportedOf, Effect, Replayable
      <4>8. QED
        BY <3>1, <4>7
    <3>2. CASE d # c
      BY <1>1, <1>4, <1>6, <3>2 DEF IInv, Told, ReportedOf, Refused, Effect, Replayable
    <3>3. QED
      BY <3>1, <3>2
  <2>3. QED
    BY <2>1, <2>2 DEF Told
<1>9. Creations'
  BY <1>1 DEF IInv, Creations, Effect
<1>10. Survival'
  <2>1. AnsweredUpdates \subseteq AnsweredUpdates'
    BY <1>2, <1>4 DEF AnsweredUpdates, Effect
  <2>2. ASSUME NEW d \in Calls PROVE Done(d)' => Done(d)
    BY <1>4 DEF Done
  <2>3. QED
    BY <1>1, <2>1, <2>2 DEF IInv, Survival, Kept, SentFields, Effect
<1>11. QED
  BY <1>3, <1>5, <1>7, <1>8, <1>9, <1>10 DEF IInv

-------------------------------------------------------------------------------
(* The steps of the server.                                                 *)

\* Handling a request: the copy is on its way no more, and what the server changes
\* and answers is what the call is told.
LEMMA ServerStep ==
    ASSUME IInv, NEW m \in wire, ServerHandles(m)
    PROVE  IInv'
<1> DEFINE c == m.call
           k == m.copy
<1>1. /\ c \in Calls /\ k \in {1, 2} /\ m = Message(c, k)
      /\ m.sets = SentFields(c) /\ m \in Requests /\ m # Nothing
  <2>1. m \in Requests /\ m = Message(m.call, m.copy)
    BY DEF IInv, TypeOK, Control
  <2>2. m.call \in Calls /\ m.copy \in {1, 2}
    BY <2>1 DEF Requests
  <2>3. QED
    BY <2>1, <2>2, Messages
<1> HIDE DEF c, k
<1>2. PICK status \in Answers[c] :
         /\ status < 400 => Possible(c)
         /\ status = 204 => ~MethodOf[c].result
         /\ \/ /\ status \notin 400 .. 499
               /\ Effect(c) # "read"
               /\ Changes(m)
            \/ /\ status >= 400 \/ Effect(c) = "read"
               /\ UNCHANGED server
         /\ reply' = IF sent[c] # m THEN reply
                     ELSE [reply EXCEPT ![c] =
                             [status |-> status,
                              resource |-> IF status < 400 /\ Effect(c) = "create"
                                           THEN <<c, k>> ELSE Nothing]]
  BY DEF ServerHandles, c, k
<1>3. wire' = wire \ {m} /\ UNCHANGED <<sent, outcome, code, returned, earlier>>
  BY DEF ServerHandles, client
<1>4. status \in Statuses /\ status \in Nat
  BY <1>1, AnswersAssumption, StatusesAssumption
<1> DEFINE Acts == Effect(c) # "read" /\ status \notin 400 .. 499 /\ Changes(m)
<1>5. /\ Acts => /\ effects' = [effects EXCEPT ![c] = @ + 1]
                 /\ created' = IF Effect(c) = "create" THEN created \cup {<<c, k>>} ELSE created
                 /\ fields' = [f \in Fields |-> IF f \in SentFields(c) THEN c ELSE fields[f]]
                 /\ exists' \in BOOLEAN
      /\ ~Acts => UNCHANGED <<created, exists, fields, effects>>
      /\ status < 400 /\ Effect(c) # "read" => Acts
  <2>1. ASSUME Changes(m) PROVE exists' \in BOOLEAN
    <3>1. exists' = (exists /\ Effect(m.call) # "delete")
      BY <2>1 DEF Changes
    <3>2. QED
      BY <3>1, Zenon
  <2>2. ASSUME Changes(m)
        PROVE  /\ effects' = [effects EXCEPT ![c] = @ + 1]
               /\ created' = IF Effect(c) = "create" THEN created \cup {<<c, k>>} ELSE created
               /\ fields' = [f \in Fields |-> IF f \in SentFields(c) THEN c ELSE fields[f]]
    BY <1>1, <2>2 DEF Changes, c, k
  <2>3. Acts \/ (UNCHANGED server /\ (status >= 400 \/ Effect(c) = "read"))
    BY <1>2
  <2>4. Acts => Changes(m)
    OBVIOUS
  <2> HIDE DEF Acts
  <2>5. QED
    BY <1>4, <2>1, <2>2, <2>3, <2>4 DEF server
<1>6. /\ effects \in [Calls -> 0 .. 2] /\ TrafficOf(c) /\ ControlOf(c) /\ HeardOf(c)
      /\ ReportedOf(c)
  BY <1>1 DEF IInv, TypeOK, Traffic, Control, Told
<1> HIDE DEF Acts
<1>7. \A d \in Calls, j \in {1, 2} :
         Count(d, j)' = IF d = c /\ j = k THEN 0 ELSE Count(d, j)
  <2>1. \A d \in Calls, j \in {1, 2} : Message(d, j) = m <=> d = c /\ j = k
    BY <1>1, Messages
  <2>2. QED
    BY <1>3, <2>1 DEF Count
<1>8. Count(c, k) = 1 /\ Count(c, 1) \in {0, 1} /\ Count(c, 2) \in {0, 1}
  BY <1>1, Counts DEF Count
<1>9. \A d \in Calls :
         /\ effects'[d] = IF d = c /\ Acts THEN effects[d] + 1 ELSE effects[d]
         /\ effects'[d] >= effects[d]
  BY <1>1, <1>5, <1>6
<1>10. ~Replayable(c) => /\ k = 1 /\ effects[c] = 0 /\ reply[c] = Nothing
                         /\ outcome[c] \in {"pending", "request_failed"}
  <2>1. ASSUME ~Replayable(c) PROVE k = 1 /\ effects[c] = 0
    BY <1>1, <1>6, <1>8, <2>1 DEF TrafficOf
  <2>2. ASSUME ~Replayable(c), reply[c] # Nothing PROVE FALSE
    <3>1. sent[c] = Message(c, 1) /\ sent[c] \notin wire
      BY <1>6, <2>2 DEF ControlOf, TrafficOf
    <3>2. QED
      BY <1>1, <2>1, <2>2, <3>1
  <2>3. ASSUME ~Replayable(c) PROVE outcome[c] \in {"pending", "request_failed"}
    <3>1. outcome[c] \in Outcomes
      BY <1>1 DEF IInv, TypeOK
    <3>2. QED
      BY <1>6, <1>8, <1>1, <2>3, <3>1 DEF ReportedOf
  <2>4. QED
    BY <2>1, <2>2, <2>3
<1>11. \A d \in Calls : d # c \/ sent[c] # m => reply'[d] = reply[d]
  BY <1>1, <1>2 DEF IInv, TypeOK
<1>12. sent[c] = m => /\ reply'[c].status = status
                      /\ status < 400 /\ Effect(c) = "create" => reply'[c].resource = <<c, k>>
  BY <1>1, <1>2 DEF IInv, TypeOK
<1>13. TypeOK'
  <2>1. reply' \in [Calls -> Replies \cup {Nothing}]
    <3>1. <<c, k>> \in Resources
      BY <1>1 DEF Resources
    <3>2. [status |-> status,
           resource |-> IF status < 400 /\ Effect(c) = "create"
                        THEN <<c, k>> ELSE Nothing] \in Replies
      BY <1>4, <3>1 DEF Replies
    <3>3. QED
      BY <1>2, <3>2 DEF IInv, TypeOK
  <2>2. effects' \in [Calls -> 0 .. 2]
    <3>1. effects[c] + 1 <= 2
      BY <1>1, <1>6, <1>8 DEF TrafficOf
    <3>2. QED
      BY <1>1, <1>5, <1>6, <3>1
  <2>3. created' \subseteq Resources /\ exists' \in BOOLEAN
    BY <1>1, <1>5 DEF IInv, TypeOK, Resources
  <2>4. fields' \in [Fields -> Calls \cup {Nothing}]
    BY <1>1, <1>5 DEF IInv, TypeOK
  <2>5. QED
    BY <1>3, <2>1, <2>2, <2>3, <2>4 DEF IInv, TypeOK
<1>14. Control'
  BY <1>1, <1>3, <1>11 DEF IInv, Control, ControlOf
<1>15. Traffic'
  <2>1. ASSUME NEW d \in Calls, d # c PROVE TrafficOf(d)'
    <3>1. Count(d, 1)' = Count(d, 1) /\ Count(d, 2)' = Count(d, 2) /\ effects'[d] = effects[d]
      BY <1>7, <1>9, <2>1
    <3>2. QED
      BY <1>3, <3>1 DEF IInv, Traffic, TrafficOf, Replayable
  <2>2. TrafficOf(c)'
    <3>1. effects'[c] \in {effects[c], effects[c] + 1} /\ effects[c] \in 0 .. 2
      BY <1>1, <1>6, <1>9
    <3>2. CASE k = 1
      <4>1. Count(c, 1)' = 0 /\ Count(c, 2)' = Count(c, 2) /\ Count(c, 1) = 1
        BY <1>1, <1>7, <1>8, <3>2
      <4>2. QED
        BY <1>3, <1>6, <1>8, <3>1, <4>1 DEF TrafficOf, Replayable
    <3>3. CASE k = 2
      <4>1. Count(c, 1)' = Count(c, 1) /\ Count(c, 2)' = 0 /\ Count(c, 2) = 1
        BY <1>1, <1>7, <1>8, <3>3
      <4>2. QED
        BY <1>3, <1>6, <1>8, <3>1, <4>1 DEF TrafficOf, Replayable
    <3>4. QED
      BY <1>1, <3>2, <3>3
  <2>3. QED
    BY <2>1, <2>2 DEF Traffic
<1>16. Told'
  <2>1. ASSUME NEW d \in Calls, d # c PROVE HeardOf(d)' /\ ReportedOf(d)'
    BY <1>3, <1>7, <1>9, <1>11, <2>1
       DEF IInv, Told, HeardOf, ReportedOf, Refused, Effect, Replayable
  <2>2. HeardOf(c)'
    <3>1. CASE sent[c] = m
      <4>1. status < 400 /\ Effect(c) # "read" => effects'[c] > 0
        BY <1>1, <1>5, <1>6, <1>9
      <4>2. status \in 400 .. 499 /\ ~Replayable(c) => effects'[c] = 0
        <5>1. status \in 400 .. 499 => ~Acts
          BY DEF Acts
        <5>2. QED
          BY <1>1, <1>9, <1>10, <5>1
      <4>3. status < 400 /\ Effect(c) = "create" => reply'[c].resource = <<c, 1>>
        BY <1>1, <1>10, <1>12, <3>1, MethodFacts
      <4>4. status = 204 => ~MethodOf[c].result
        BY <1>2
      <4>5. reply'[c].status = status
        BY <1>12, <3>1
      <4>6. QED
        BY <4>1, <4>2, <4>3, <4>4, <4>5 DEF HeardOf, Effect, Replayable
    <3>2. CASE sent[c] # m
      BY <1>1, <1>6, <1>9, <1>10, <1>11, <3>2 DEF HeardOf, Effect, Replayable
    <3>3. QED
      BY <3>1, <3>2
  <2>3. ReportedOf(c)'
    <3>1. Count(c, 1)' <= Count(c, 1) /\ Count(c, 2)' <= Count(c, 2)
      BY <1>1, <1>7, <1>8
    <3>2. effects'[c] >= effects[c] /\ effects[c] \in Nat /\ effects'[c] \in Nat
      BY <1>1, <1>6, <1>9
    <3>3. ~Replayable(c) => ~Refused(c)
      BY <1>6, <1>10 DEF ReportedOf, Refused
    <3>4. QED
      BY <1>3, <1>6, <1>8, <1>10, <3>1, <3>2, <3>3
         DEF ReportedOf, Refused, Effect, Replayable
  <2>4. QED
    BY <2>1, <2>2, <2>3 DEF Told
<1>17. Creations'
  <2>1. ASSUME NEW r \in created' PROVE Effect(r[1]) = "create" /\ effects'[r[1]] > 0 /\ r[2] = 1
    <3>1. CASE r \in created
      <4>1. r[1] \in Calls
        BY <3>1 DEF IInv, TypeOK, Resources
      <4>2. effects[r[1]] \in Nat /\ effects[r[1]] > 0
        BY <1>6, <3>1, <4>1 DEF IInv, Creations
      <4>3. QED
        BY <1>9, <3>1, <4>1, <4>2 DEF IInv, Creations
    <3>2. CASE r \notin created
      <4>1. Acts /\ Effect(c) = "create" /\ r = <<c, k>>
        BY <1>5, <3>2
      <4>2. k = 1 /\ effects[c] = 0 /\ effects'[c] = effects[c] + 1
        BY <1>1, <1>9, <1>10, <4>1, MethodFacts
      <4>3. QED
        BY <4>1, <4>2
    <3>3. QED
      BY <3>1, <3>2
  <2>2. QED
    BY <2>1 DEF Creations, Effect
<1>18. Survival'
  <2>1. AnsweredUpdates' = AnsweredUpdates
    BY <1>3 DEF AnsweredUpdates, Effect
  <2>2. ASSUME NEW d \in Calls PROVE earlier'[d] \subseteq AnsweredUpdates
    BY <1>3 DEF IInv, Survival
  <2>3. c \notin AnsweredUpdates
    BY <1>10, MethodFacts DEF AnsweredUpdates
  <2>4. ASSUME NEW d \in Calls, Done(d)', NEW f \in SentFields(d) PROVE Kept(d, f)'
    <3>1. f \in Fields /\ Effect(d) = "update"
      BY <2>4, MethodFacts
    <3>2. CASE Acts /\ f \in SentFields(c)
      BY <1>1, <1>3, <1>5, <2>2, <2>3, <3>1, <3>2 DEF Kept, SentFields, Effect
    <3>3. CASE ~(Acts /\ f \in SentFields(c))
      <4>1. fields'[f] = fields[f]
        BY <1>5, <3>1, <3>3 DEF IInv, TypeOK
      <4>2. Done(d)
        <5>1. CASE d = c /\ sent[c] = m
          BY <1>3, <1>5, <1>12, <2>4, <3>1, <3>3, <5>1 DEF Done
        <5>2. CASE ~(d = c /\ sent[c] = m)
          BY <1>3, <1>11, <2>4, <5>2 DEF Done
        <5>3. QED
          BY <5>1, <5>2
      <4>3. QED
        BY <1>3, <2>4, <4>1, <4>2 DEF IInv, Survival, Kept, SentFields, Effect
    <3>4. QED
      BY <3>2, <3>3
  <2>5. QED
    BY <2>1, <2>2, <2>4 DEF Survival, SentFields, Effect
<1>19. QED
  BY <1>13, <1>14, <1>15, <1>16, <1>17, <1>18 DEF IInv

-------------------------------------------------------------------------------
(* The specification.                                                       *)

\* A call returns an outcome it has been told of.
LEMMA ReceiveStep ==
    ASSUME IInv, NEW c \in Calls, Receive(c)
    PROVE  IInv'
<1> DEFINE status == reply[c].status
<1>1. /\ reply[c] \in Replies /\ sent[c] # Nothing /\ sent[c] \notin wire
      /\ HeardOf(c) /\ reply[c] # Nothing
  BY DEF Receive, IInv, TypeOK, Control, ControlOf, Told
<1>2. status \in Statuses /\ status \in Nat /\ reply[c].resource \in Resources \cup {Nothing}
  BY <1>1, StatusesAssumption DEF Replies
<1> HIDE DEF status
<1>3. CASE status >= 400
  <2> DEFINE how == Classified(CallError(AuthMode, "rest", Response(status)))
  <2>1. how = Branch(status)
    BY Classification DEF Response, Unreadable
  <2>2. how \in {"pay", "wait", "failed"}
    BY <2>1 DEF Branch
  <2>3. Return(c, how, status, Nothing)
    BY <1>3 DEF Receive, status
  <2>4. status \in 400 .. 499 /\ ~Replayable(c) => effects[c] = 0
    BY <1>1 DEF HeardOf, status
  <2> HIDE DEF how
  <2>5. QED
    BY <1>1, <1>2, <1>3, <2>2, <2>3, <2>4, ReturnStep DEF Outcomes
<1>4. CASE ~(status >= 400)
  <2>1. PICK how \in {"ok", "decode_error"}, resource \in {reply[c].resource, Nothing} :
           /\ Return(c, how, 0, resource)
           /\ how = "ok" /\ Decodes(c, status) => resource = reply[c].resource
    BY <1>4 DEF Receive, status
  <2>2. status < 400
    BY <1>2, <1>4
  <2>3. Effect(c) = "create" => Decodes(c, status)
    BY <1>1, MethodFacts DEF HeardOf, Decodes, status
  <2>4. /\ Effect(c) # "read" => effects[c] > 0
        /\ Effect(c) = "create" => reply[c].resource = <<c, 1>>
    BY <1>1, <2>2 DEF HeardOf, status
  <2>5. /\ how \in Outcomes \ {"pending"} /\ resource \in Resources \cup {Nothing}
        /\ how # "request_failed" /\ how \notin {"pay", "wait", "failed"}
    BY <1>2, <2>1 DEF Outcomes
  <2>6. how = "ok" /\ Effect(c) = "create" => resource = <<c, 1>>
    BY <2>1, <2>3, <2>4
  <2>7. how = "ok" => reply[c] # Nothing /\ reply[c].status < 400
    BY <1>1, <2>2 DEF status
  <2>8. 0 \notin 400 .. 499
    OBVIOUS
  <2> DEFINE none == 0
  <2>9. Return(c, how, none, resource) /\ none \in Statuses \cup {0} /\ none \notin 400 .. 499
    BY <2>1, <2>8
  <2> HIDE DEF none
  <2>10. QED
    BY <1>1, <2>4, <2>5, <2>6, <2>7, <2>9, ReturnStep
<1>5. QED
  BY <1>3, <1>4

\* Every step keeps the invariant.
LEMMA NextIInv == IInv /\ [Next]_vars => IInv'
<1> SUFFICES ASSUME IInv, [Next]_vars PROVE IInv'
  OBVIOUS
<1>1. ASSUME NEW c \in Calls, Call(c) PROVE IInv'
  <2>1. PICK v \in SUBSET AnsweredUpdates : earlier' = [earlier EXCEPT ![c] = v]
    BY <1>1 DEF Call
  <2> DEFINE copy == 1
  <2>2. /\ Send(c, copy) /\ copy \in {1, 2} /\ copy # 2
        /\ sent[c] = Nothing /\ outcome[c] = "pending"
        /\ UNCHANGED <<outcome, code, returned, server>>
    BY <1>1 DEF Call
  <2> HIDE DEF copy
  <2>3. QED
    BY <2>1, <2>2, SendStep
<1>2. ASSUME NEW c \in Calls, Resend(c) PROVE IInv'
  <2>1. outcome[c] = "pending"
    BY <1>2 DEF Resend, IInv, Control, ControlOf
  <2>2. earlier[c] \in SUBSET AnsweredUpdates /\ earlier' = [earlier EXCEPT ![c] = earlier[c]]
    BY <1>2 DEF Resend, IInv, TypeOK, Survival
  <2> DEFINE copy == 2
             v == earlier[c]
  <2>3. /\ Send(c, copy) /\ copy \in {1, 2} /\ copy # 1
        /\ sent[c] # Nothing /\ sent[c].copy = 1 /\ Replayable(c)
        /\ UNCHANGED <<outcome, code, returned, server>>
    BY <1>2 DEF Resend
  <2>4. v \in SUBSET AnsweredUpdates /\ earlier' = [earlier EXCEPT ![c] = v]
    BY <2>2
  <2> HIDE DEF copy, v
  <2>5. QED
    BY <2>1, <2>3, <2>4, SendStep
<1>3. ASSUME NEW c \in Calls, ConnectionFails(c) PROVE IInv'
  BY <1>3, ReturnStep DEF ConnectionFails, Outcomes
<1>4. ASSUME NEW c \in Calls, Receive(c) PROVE IInv'
  BY <1>4, ReceiveStep
<1>5. ASSUME NEW m \in wire, ServerHandles(m) PROVE IInv'
  BY <1>5, ServerStep
<1>6. CASE UNCHANGED vars
  BY <1>6 DEF vars, IInv, TypeOK, Control, ControlOf, Traffic, TrafficOf, Count, Told, HeardOf,
              ReportedOf, Refused, Creations, Survival, AnsweredUpdates, Done, Kept,
              SentFields, Effect, Replayable
<1>7. QED
  BY <1>1, <1>2, <1>3, <1>4, <1>5, <1>6 DEF Next

\* The invariant holds of every run of the service calls (client.go:257-303).
THEOREM Invariance == Spec => []IInv
BY InitIInv, NextIInv, PTL DEF Spec

\* Type correctness of the service calls for any calls, methods and answers
\* (client.go:257-303): among the rest, every failed response of the server is one
\* of the errors the switch knows.
THEOREM TypeCorrect == Spec => []TypeOK
BY Invariance, PTL DEF IInv

\* What a call reports is what it did, for any calls and answers
\* (client.go:283-303).
THEOREM OutcomesMeanEffects == Spec => []OutcomesMatchEffects
<1>1. ASSUME IInv PROVE OutcomesMatchEffects
  <2>1. ASSUME NEW c \in Calls
        PROVE  /\ outcome[c] = "ok" /\ Effect(c) # "read" => effects[c] > 0
               /\ MethodOf[c].verb # "GET" =>
                     effects[c] <= 1 /\ (Refused(c) => effects[c] = 0)
               /\ \/ {r \in created : r[1] = c} \subseteq {returned[c]}
                  \/ outcome[c] \in {"pending", "decode_error", "request_failed"}
                  \/ code[c] >= 500
    <3>1. /\ ReportedOf(c) /\ TrafficOf(c) /\ effects[c] \in 0 .. 2 /\ outcome[c] \in Outcomes
          /\ Count(c, 1) \in {0, 1} /\ code[c] \in Nat
      <4>1. code[c] \in Statuses \/ code[c] = 0
        BY <1>1 DEF IInv, TypeOK
      <4>2. \A s \in Statuses : s \in Nat
        BY StatusesAssumption
      <4>3. ReportedOf(c) /\ TrafficOf(c)
        BY <1>1 DEF IInv, Told, Traffic
      <4>4. effects[c] \in 0 .. 2 /\ outcome[c] \in Outcomes
        BY <1>1 DEF IInv, TypeOK
      <4>5. QED
        BY <4>1, <4>2, <4>3, <4>4, Counts
    <3>2. MethodOf[c].verb # "GET" => effects[c] <= 1 /\ (Refused(c) => effects[c] = 0)
      BY <3>1 DEF ReportedOf, TrafficOf, Replayable
    <3>3. ASSUME NEW r \in created, r[1] = c,
                 outcome[c] \notin {"pending", "decode_error", "request_failed"},
                 ~(code[c] >= 500)
          PROVE  r = returned[c]
      <4>1. Effect(c) = "create" /\ effects[c] > 0 /\ r = <<c, 1>>
        BY <1>1, <3>3 DEF IInv, TypeOK, Creations, Resources
      <4>2. ~Refused(c)
        BY <3>1, <4>1, MethodFacts DEF ReportedOf
      <4>3. outcome[c] \notin {"pay", "wait", "failed"}
        BY <3>1, <3>3, <4>2 DEF ReportedOf, Refused
      <4>4. outcome[c] = "ok"
        BY <3>1, <3>3, <4>3 DEF Outcomes
      <4>5. QED
        BY <3>1, <4>1, <4>4 DEF ReportedOf
    <3>4. QED
      BY <3>1, <3>2, <3>3 DEF ReportedOf
  <2>2. QED
    BY <2>1 DEF OutcomesMatchEffects
<1>2. QED
  BY <1>1, Invariance, PTL

\* Concurrent updates keep each other's fields, for any number of them and any inputs
\* (subscriptions.go:45-53).
THEOREM UpdatesKept == Spec => []UpdatesSurvive
<1>1. ASSUME IInv PROVE UpdatesSurvive
  <2>1. ASSUME NEW c \in Calls, outcome[c] = "ok", NEW f \in SentFields(c) \cap Input[c]
        PROVE  fields[f] = c
                  \/ (fields[f] \in Calls \ earlier[c] /\ f \in Input[fields[f]])
    <3>1. Kept(c, f)
      BY <1>1, <2>1 DEF IInv, Survival, Done
    <3>2. QED
      BY <3>1, MethodFacts DEF Kept
  <2>2. QED
    BY <2>1 DEF UpdatesSurvive
<1>2. QED
  BY <1>1, Invariance, PTL

\* Every response that may arrive is one of the statuses considered.
LEMMA ErrorsKnown == TypeOK => ErrorStatuses \subseteq Statuses
BY DEF TypeOK, ErrorStatuses, Replies

\* The two mappings make the same error of every response whose body can be read and
\* whose first message is not empty, and of no other: an empty message is the only thing
\* the second kind differs in, and a body that breaks off costs rpc's error its type
\* (client.go:306-347, mcp.go:139-182).
THEOREM TwinsAlike == Spec => []TwinsAgree
<1>1. AgreedStatuses = Statuses
  BY Agreement DEF AgreedStatuses, Failures
<1>2. TypeOK => TwinsAgree
  BY <1>1, ErrorsKnown DEF TwinsAgree
<1>3. QED
  BY <1>2, TypeCorrect, PTL

\* The documented switch takes the branch of the status, for every response, mode
\* and service, except that it takes none for an MCP response whose body breaks off
\* (errors.go:20, README.md:222-234, mcp.go:139-143).
THEOREM RightlyTold == Spec => []ClassifiedByStatus
<1>1. ClassifiedStatuses = Statuses
  BY Classification DEF ClassifiedStatuses, RightlyClassified, Branch
<1>2. TypeOK => ClassifiedByStatus
  BY <1>1, ErrorsKnown DEF ClassifiedByStatus
<1>3. QED
  BY <1>2, TypeCorrect, PTL
================================================================================
