---------------------------- MODULE RequestPipeline ---------------------------
(***************************************************************************)
(* One authenticated API call through the SDK: Client.do (client.go) for   *)
(* the REST services, MCPService.rpc (mcp.go) for JSON-RPC, and the x402   *)
(* payment retry they share, doWithX402 (x402.go).                         *)
(*                                                                         *)
(* Any number of calls run at once, on the Clients of an application.  The *)
(* JSON-RPC calls share an id counter; everything else is local to the     *)
(* call, so that the steps of a call between two exchanges are one action. *)
(* The environment is the API server, which prices a request with a 402 and*)
(* settles the payment a retry carries, the signer, and net/http, which    *)
(* loses answers, gives up while the server still works on a request, and  *)
(* sends a GET again when its connection breaks.                           *)
(*                                                                         *)
(* A set of payment requirements is abstracted to the sequence of networks *)
(* of its `accepts' list, a body to whether its bytes are there.           *)
(***************************************************************************)
EXTENDS Naturals, Sequences

CONSTANTS
    Calls,     \* the API calls of the run
    Kind,      \* the service method behind each call: see Kinds
    AuthMode,  \* AuthMode() of the Client each call is made with
    Offers,    \* external: requirements the server may ask for
    Answers,   \* external: the statuses of its answers
    Network,   \* signer.Network()
    Nothing    \* no request, no reply, no requirements

\* A REST read (GET), a REST write with a body and a result (POST, PUT), a
\* REST DELETE, which passes a nil result, and a JSON-RPC call.
Kinds == {"get", "post", "delete", "rpc"}

ASSUME KindAssumption == Kind \in [Calls -> Kinds]

ASSUME ModeAssumption == AuthMode \in [Calls -> {"apikey", "x402", "cognito", "none"}]

\* nextID is the counter of one Client's MCPService.
ASSUME OneServiceAssumption ==
    \A c, d \in Calls : Kind[c] = "rpc" /\ Kind[d] = "rpc" => AuthMode[c] = AuthMode[d]

VARIABLES
    pc,          \* where each call is
    request,     \* the request net/http is working on for the call
    reply,       \* the answer to it that has arrived
    asked,       \* `requirements' of doWithX402
    result,      \* how the call ended
    carried,     \* PaymentRequirements of the error it returned
    nextID,      \* MCPService.nextID
    signatures,  \* external: payments the signer made for each call
    wire,        \* external: requests on their way to the server
    received,    \* external: requests the server has handled
    quoted,      \* external: requirements of its 402s to each call, Nothing when
                 \* one had none that could be read
    settled,     \* external: payments it has settled
    charges      \* external: how often each call has been charged

client == <<pc, request, asked, result, carried, nextID, signatures>>
server == <<received, quoted, settled, charges>>
vars == <<pc, request, reply, asked, result, carried, nextID, signatures,
          wire, received, quoted, settled, charges>>

-------------------------------------------------------------------------------

Locations == {"idle", "auth", "first", "sign", "paid", "done"}

Outcomes == {"ok", "invalid", "auth_error", "token_failed", "request_failed",
             "sign_error", "payment_required", "payment_rejected", "rate_limited",
             "api_error", "decode_error", "mcp_error"}

Payments == [call : Calls, offer : Offers, nonce : Nat]

Requests == [call : Calls, id : Nat, body : {"none", "bytes", "consumed"},
             payment : Payments \cup {Nothing}, copy : {1, 2}]

Statuses == {"ok", "no_content", "garbled", "rpc_error", "402", "429", "failed"}

Replies == [status : Statuses, offer : Offers \cup {Nothing}]

ASSUME AnswersAssumption == Answers \subseteq Statuses

ASSUME NothingAssumption ==
    /\ Nothing \notin Offers
    /\ Nothing \notin Payments
    /\ Nothing \notin Requests
    /\ Nothing \notin Replies

TypeOK ==
    /\ pc \in [Calls -> Locations]
    /\ request \in [Calls -> Requests \cup {Nothing}]
    /\ reply \in [Calls -> Replies \cup {Nothing}]
    /\ asked \in [Calls -> Offers \cup {Nothing}]
    /\ result \in [Calls -> Outcomes \cup {"pending"}]
    /\ carried \in [Calls -> Offers \cup {Nothing}]
    /\ nextID \in Nat
    /\ signatures \in [Calls -> Nat]
    /\ wire \subseteq Requests
    /\ received \subseteq Requests
    /\ quoted \in [Calls -> SUBSET (Offers \cup {Nothing})]
    /\ settled \subseteq Payments
    /\ charges \in [Calls -> Nat]

Init ==
    /\ pc = [c \in Calls |-> "idle"]
    /\ request = [c \in Calls |-> Nothing]
    /\ reply = [c \in Calls |-> Nothing]
    /\ asked = [c \in Calls |-> Nothing]
    /\ result = [c \in Calls |-> "pending"]
    /\ carried = [c \in Calls |-> Nothing]
    /\ nextID = 0
    /\ signatures = [c \in Calls |-> 0]
    /\ wire = {}
    /\ received = {}
    /\ quoted = [c \in Calls |-> {}]
    /\ settled = {}
    /\ charges = [c \in Calls |-> 0]

-------------------------------------------------------------------------------
(* Building, sending and giving up on a request.                            *)

HasBody(c) == Kind[c] \in {"post", "rpc"}

\* net/http sends a request again by itself only when it is idempotent.
Replayable(c) == Kind[c] = "get"

FirstBody(c) == IF HasBody(c) THEN "bytes" ELSE "none"

\* The first attempt has read req.Body to its end.
MutRetryBody(c) == IF HasBody(c) THEN "consumed" ELSE "none"
RetryBody(c) == IF HasBody(c) THEN "bytes" ELSE "none"

Send(c, m, location) ==
    /\ pc' = [pc EXCEPT ![c] = location]
    /\ request' = [request EXCEPT ![c] = m]
    /\ reply' = [reply EXCEPT ![c] = Nothing]
    /\ wire' = wire \cup {m}

Return(c, outcome, requirements) ==
    /\ pc' = [pc EXCEPT ![c] = "done"]
    /\ request' = [request EXCEPT ![c] = Nothing]
    /\ reply' = [reply EXCEPT ![c] = Nothing]
    /\ result' = [result EXCEPT ![c] = outcome]
    /\ carried' = [carried EXCEPT ![c] = requirements]
    /\ UNCHANGED wire

RequestID(c) == IF Kind[c] = "rpc" THEN nextID + 1 ELSE 0

MutAdvanceID(c) == nextID' = nextID
AdvanceID(c) == nextID' = IF Kind[c] = "rpc" THEN nextID + 1 ELSE nextID

FirstRequest(c, id) ==
    [call |-> c, id |-> id, body |-> FirstBody(c), payment |-> Nothing, copy |-> 1]

\* From the call to the first attempt, or to GetIDToken in cognito mode.  The
\* request the id belongs to is built before the token is asked for.
Begin(c) ==
    /\ pc[c] = "idle"
    /\ AdvanceID(c)
    /\ \/ /\ AuthMode[c] = "cognito"
          /\ pc' = [pc EXCEPT ![c] = "auth"]
          /\ request' = [request EXCEPT ![c] = FirstRequest(c, RequestID(c))]
          /\ UNCHANGED <<reply, result, carried, wire>>
       \/ /\ AuthMode[c] # "cognito"
          /\ Send(c, FirstRequest(c, RequestID(c)), "first")
          /\ UNCHANGED <<result, carried>>
       \/ Return(c, "invalid", Nothing)
    /\ UNCHANGED <<asked, signatures, server>>

\* Sending without a token when GetIDToken fails, and reporting the failure.
MutAuthenticate(c) ==
    /\ pc[c] = "auth"
    /\ \/ /\ Send(c, request[c], "first")
          /\ UNCHANGED <<result, carried>>
       \/ /\ Send(c, request[c], "done")
          /\ result' = [result EXCEPT ![c] = "auth_error"]
          /\ UNCHANGED carried
    /\ UNCHANGED <<asked, nextID, signatures, server>>

\* GetIDToken, modelled in CognitoAuth: a token, an AuthError (no tokens and no
\* credentials, MFA required, refused), or the error of a failed exchange with
\* Cognito, which is neither an AuthError nor an error of the API request.
Authenticate(c) ==
    /\ pc[c] = "auth"
    /\ \/ /\ Send(c, request[c], "first")
          /\ UNCHANGED <<result, carried>>
       \/ \E outcome \in {"auth_error", "token_failed"} :
              Return(c, outcome, Nothing)
    /\ UNCHANGED <<asked, nextID, signatures, server>>

\* hc.Do returns an error: the connection broke or the context ended.  The
\* server may have handled the request, or handle it later.
ConnectionFails(c) ==
    /\ pc[c] \in {"first", "paid"}
    /\ Return(c, "request_failed", Nothing)
    /\ UNCHANGED <<asked, nextID, signatures, server>>

\* External: net/http sends an idempotent request once more when the connection
\* broke before an answer came, whether or not the server has seen the first copy.
Resend(c) ==
    /\ pc[c] \in {"first", "paid"}
    /\ Replayable(c)
    /\ request[c].copy = 1
    /\ Send(c, [request[c] EXCEPT !.copy = 2], pc[c])
    /\ UNCHANGED <<asked, result, carried, nextID, signatures, server>>

-------------------------------------------------------------------------------
(* The answer.                                                              *)

MutHTTPError(status) == status
HTTPError(status) ==
    IF status = "402" THEN "payment_required"
    ELSE IF status = "429" THEN "rate_limited"
    ELSE "api_error"

\* do: 204 and calls without a result decode nothing.  rpc: always decodes.
Decoded(c, status) ==
    IF status = "rpc_error" THEN "mcp_error"
    ELSE IF status = "garbled" /\ Kind[c] # "delete" THEN "decode_error"
    ELSE IF status = "no_content" /\ Kind[c] = "rpc" THEN "decode_error"
    ELSE "ok"

\* Status handling and decoding at the end of do and rpc.
Finish(c) ==
    IF reply[c].status \in {"402", "429", "failed"}
    THEN Return(c, HTTPError(reply[c].status), reply[c].offer)
    ELSE Return(c, Decoded(c, reply[c].status), Nothing)

MutFilterAcceptsByNetwork(offer) == offer # <<>>
\* Some accepted payment is on the signer's network.
FilterAcceptsByNetwork(offer) == \E i \in DOMAIN offer : offer[i] = Network

Payable(offer) ==
    IF offer = Nothing THEN FALSE ELSE FilterAcceptsByNetwork(offer)

MutCannotPay(offer) == offer # Nothing /\ ~Payable(offer)
CannotPay(offer) == ~Payable(offer)

ReceiveFirst(c) ==
    /\ pc[c] = "first"
    /\ reply[c] # Nothing
    /\ \/ /\ AuthMode[c] # "x402" \/ reply[c].status # "402"
          /\ Finish(c)
          /\ UNCHANGED asked
       \/ /\ AuthMode[c] = "x402" /\ reply[c].status = "402"
          /\ CannotPay(reply[c].offer)
          /\ Return(c, "payment_required", reply[c].offer)
          /\ UNCHANGED asked
       \/ /\ AuthMode[c] = "x402" /\ reply[c].status = "402"
          /\ Payable(reply[c].offer)
          /\ pc' = [pc EXCEPT ![c] = "sign"]
          /\ asked' = [asked EXCEPT ![c] = reply[c].offer]
          /\ reply' = [reply EXCEPT ![c] = Nothing]
          /\ UNCHANGED <<request, result, carried, wire>>
    /\ UNCHANGED <<nextID, signatures, server>>

\* signer.Sign, then the original request once more with Payment-Signature.
SignAndRetry(c) ==
    /\ pc[c] = "sign"
    /\ \/ /\ signatures' = [signatures EXCEPT ![c] = @ + 1]
          /\ Send(c, [request[c] EXCEPT
                        !.body = RetryBody(c),
                        !.payment = [call |-> c, offer |-> asked[c],
                                     nonce |-> signatures'[c]],
                        !.copy = 1], "paid")
          /\ UNCHANGED <<result, carried>>
       \/ /\ Return(c, "sign_error", Nothing)
          /\ UNCHANGED signatures
    /\ UNCHANGED <<asked, nextID, server>>

\* Signing again whenever a payment is refused.
MutReceivePaid(c) ==
    /\ pc[c] = "paid"
    /\ reply[c] # Nothing
    /\ \/ /\ reply[c].status = "402"
          /\ pc' = [pc EXCEPT ![c] = "sign"]
          /\ reply' = [reply EXCEPT ![c] = Nothing]
          /\ UNCHANGED <<request, result, carried, wire>>
       \/ /\ reply[c].status # "402"
          /\ Finish(c)
    /\ UNCHANGED <<asked, nextID, signatures, server>>

\* The error of a refused payment with the requirements of the refusal.
MutRejection(c) ==
    /\ pc[c] = "paid"
    /\ reply[c] # Nothing
    /\ \/ /\ reply[c].status = "402"
          /\ Return(c, "payment_rejected", reply[c].offer)
       \/ /\ reply[c].status # "402"
          /\ Finish(c)
    /\ UNCHANGED <<asked, nextID, signatures, server>>

\* A second 402 ends the call; its error carries the first requirements.
ReceivePaid(c) ==
    /\ pc[c] = "paid"
    /\ reply[c] # Nothing
    /\ \/ /\ reply[c].status = "402"
          /\ Return(c, "payment_rejected", asked[c])
       \/ /\ reply[c].status # "402"
          /\ Finish(c)
    /\ UNCHANGED <<asked, nextID, signatures, server>>

-------------------------------------------------------------------------------
(* External: the API server.                                                *)

AnswersTo(m) ==
    {r \in Replies :
        /\ r.status \in Answers
        /\ r.status = "rpc_error" => Kind[m.call] = "rpc"
        /\ r.status # "402" => r.offer = Nothing}

\* The answer reaches the call only if it still waits for this very request.
\* A payment is settled at most once, and only an answer that is not a 402 can
\* follow a settlement; a payment seen before may be honoured or refused.
ServerHandles(m) ==
    /\ m \in wire
    /\ wire' = wire \ {m}
    /\ received' = received \cup {m}
    /\ \E r \in AnswersTo(m) :
          /\ reply' = IF request[m.call] = m THEN [reply EXCEPT ![m.call] = r]
                      ELSE reply
          /\ quoted' = [quoted EXCEPT ![m.call] =
                           IF r.status = "402" THEN @ \cup {r.offer} ELSE @]
          /\ \/ /\ m.payment \notin settled \cup {Nothing}
                /\ r.status # "402"
                /\ settled' = settled \cup {m.payment}
                /\ charges' = [charges EXCEPT ![m.call] = @ + 1]
             \/ UNCHANGED <<settled, charges>>
    /\ UNCHANGED client

-------------------------------------------------------------------------------

Proceed(c) ==
    \/ Authenticate(c)
    \/ ReceiveFirst(c)
    \/ SignAndRetry(c)
    \/ ReceivePaid(c)

ExchangeEnds(c) ==
    /\ reply[c] = Nothing
    /\ \/ ConnectionFails(c)
       \/ /\ request[c] \in wire
          /\ ServerHandles(request[c])

Next ==
    \/ \E c \in Calls : Begin(c) \/ Proceed(c) \/ ConnectionFails(c) \/ Resend(c)
    \/ \E m \in wire : ServerHandles(m)

Spec == Init /\ [][Next]_vars

\* A call's goroutine keeps running, the signer and GetIDToken return, and an
\* exchange ends: the deadline of the caller's context sees to that.
Fairness ==
    \A c \in Calls :
        /\ WF_vars(Proceed(c))
        /\ WF_vars(ExchangeEnds(c))

FairSpec == Spec /\ Fairness

-------------------------------------------------------------------------------
(* Properties.                                                              *)

\* Outcomes after which the application may take the call for unpaid.  A 402
\* that answers a paid GET is not among them: net/http may have sent the payment
\* twice and got the 402 for the second copy.
Unpaid(c, outcome) ==
    \/ outcome \in {"invalid", "auth_error", "token_failed", "sign_error",
                    "payment_required"}
    \/ outcome = "payment_rejected" /\ ~Replayable(c)

Paid == INSTANCE PaidCalls WITH Clean <- Unpaid, outcome <- result

\* Every call is charged at most once, and a call that ended with an error from
\* before the payment, or with "Payment rejected after signing" (x402.go:117-126)
\* for a request net/http does not repeat, is not charged and never will be, no
\* matter which of its requests the server still has to handle.
ImplementsPaidCalls == Paid!Spec

\* The server sees each call as one request: the paid retry has the body and the
\* JSON-RPC id of the first attempt (x402.go:93-110), and no two JSON-RPC calls
\* in progress at once share an id (mcp.go:90).
OneRequestPerCall ==
    \A m, n \in received :
        /\ m.call = n.call => m.id = n.id /\ m.body = n.body
        /\ m.id # 0 /\ m.id = n.id => m.call = n.call

\* Nothing is paid that the server did not ask this very call for, or that it
\* would not take from the signer's network (x402.go:75-88).
PaysWhatWasAsked ==
    \A p \in settled :
        /\ p.offer \in quoted[p.call]
        /\ Network \in {p.offer[i] : i \in DOMAIN p.offer}

\* The requests of a call that were ever sent.
RequestsOf(c) == {m \in received \cup wire : m.call = c}

\* An outcome tells what happened.  A call refused before it was sent, or whose
\* GetIDToken failed in whatever way, never reaches the wire (client.go:263-274,
\* mcp.go:98-123); one that reports an answer (its data, an API error, a rate
\* limit) had a request handled by the server.  The requirements of "Payment
\* required" are those of a 402 that the server sent this call, and a call of an
\* x402 client that ends so has paid nothing and could not have (x402.go:66-86);
\* those of "Payment rejected after signing" are the ones its payment was made
\* from, whatever the server asks in the 402 that rejects it (x402.go:117-126).
OutcomesAreTruthful ==
    \A c \in Calls :
        LET paid == {m \in RequestsOf(c) : m.payment # Nothing}
        IN  /\ result[c] \in {"invalid", "auth_error", "token_failed"}
                  => RequestsOf(c) = {}
            /\ result[c] \notin {"pending", "invalid", "auth_error", "token_failed",
                                "request_failed"}
                  => RequestsOf(c) \cap received # {}
            /\ result[c] = "payment_required" =>
                  /\ carried[c] \in quoted[c]
                  /\ AuthMode[c] = "x402" => paid = {} /\ ~Payable(carried[c])
            /\ result[c] = "payment_rejected" =>
                  /\ paid # {}
                  /\ \A m \in paid : carried[c] = m.payment.offer

\* Every call returns, under concurrent calls, refusals, replays and failures.
EveryCallReturns ==
    \A c \in Calls : pc[c] # "idle" ~> pc[c] = "done"
===============================================================================
