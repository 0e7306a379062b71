------------------------------ MODULE ErrorMapping ----------------------------
(***************************************************************************)
(* What an application sees of a failed API call: the error values of      *)
(* errors.go, the two places that make them from an HTTP response, Client. *)
(* do (client.go) and MCPService.rpc (mcp.go), and the errors of doWithX402*)
(* (x402.go), which both wrap once more.                                   *)
(*                                                                         *)
(* An error is the chain errors.As walks, the outermost value first.  A    *)
(* string is "empty" or stands for its origin, a member of the body is also*)
(* "absent" or "other", not a string.  A body may break off while it is    *)
(* read; its members are then those of the part that arrived.              *)
(***************************************************************************)
EXTENDS Integers, Sequences

CONSTANTS
    MaxInt,       \* the largest int
    AuthModes,    \* modes of the clients considered
    Statuses,     \* status codes
    Seconds       \* integers a Retry-After header may hold

ASSUME MaxIntAssumption == MaxInt \in Nat /\ Seconds \subseteq Int

ASSUME StatusesAssumption == Statuses \subseteq 100 .. 599

Members == {"absent", "other", "empty", "text"}

\* "none": no header or an empty one.  "words": not an integer, as an HTTP date.
RetryAfterHeaders == {"none", "words"} \X {0} \cup {"seconds"} \X Seconds

Responses ==
    [status : Statuses, body : {"whole", "broken"}, error : Members, message : Members,
     retryAfter : RetryAfterHeaders, required : {"nothing", "no_offer", "offer"}]

Services == {"rest", "mcp"}

-------------------------------------------------------------------------------
(* From a response to an error.                                             *)

\* Error(), Unwrap() and the order of errors.As: the types a status stands for.
Unwrapped(type) ==
    IF type \in {"PaymentRequiredError", "RateLimitError"} THEN <<type, "APIError">>
    ELSE IF type = "MFARequiredError" THEN <<type, "AuthError">>
    ELSE <<type>>

\* strconv.Atoi without its error: 0 for what is not an integer, the nearest int
\* for one that does not fit.
Atoi(header) ==
    IF header[2] > MaxInt THEN MaxInt
    ELSE IF header[2] < -MaxInt - 1 THEN -MaxInt - 1
    ELSE header[2]

NewError(chain, message, required, retryAfter) ==
    [chain |-> chain, message |-> message, required |-> required,
     retryAfter |-> retryAfter]

\* handleHTTPError: the first of the two members that is a string, even an empty one.
\* It ignores the error of reading the body.
DoMessage(r) ==
    IF r.error = "text" THEN "error"
    ELSE IF r.error = "empty" THEN "empty"
    ELSE IF r.message = "text" THEN "message"
    ELSE IF r.message = "empty" THEN "empty"
    ELSE "status"

\* The statuses without a type of their own left to a plain error.
MutDoError(r) ==
    IF r.status = 402
    THEN NewError(Unwrapped("PaymentRequiredError"), DoMessage(r), r.required, 0)
    ELSE IF r.status = 429
    THEN NewError(Unwrapped("RateLimitError"), DoMessage(r), "nothing", Atoi(r.retryAfter))
    ELSE NewError(<<"errors.errorString">>, DoMessage(r), "nothing", 0)

DoError(r) ==
    IF r.status = 402
    THEN NewError(Unwrapped("PaymentRequiredError"), DoMessage(r), r.required, 0)
    ELSE IF r.status = 429
    THEN NewError(Unwrapped("RateLimitError"), DoMessage(r), "nothing", Atoi(r.retryAfter))
    ELSE NewError(Unwrapped("APIError"), DoMessage(r), "nothing", 0)

\* rpc: the first of them that is a string and not empty.
RpcMessage(r) ==
    IF r.error = "text" THEN "error"
    ELSE IF r.message = "text" THEN "message"
    ELSE "status"

\* rpc reads the body before it looks at the status.
ReadError == NewError(<<"fmt.wrapError", "io.error">>, "read", "nothing", 0)

\* The requirements of the REST services forgotten in their copy.
MutRpcError(r) ==
    IF r.body = "broken" THEN ReadError
    ELSE IF r.status = 402
    THEN NewError(Unwrapped("PaymentRequiredError"), RpcMessage(r), "nothing", 0)
    ELSE IF r.status = 429
    THEN NewError(Unwrapped("RateLimitError"), RpcMessage(r), "nothing", Atoi(r.retryAfter))
    ELSE NewError(Unwrapped("APIError"), RpcMessage(r), "nothing", 0)

RpcError(r) ==
    IF r.body = "broken" THEN ReadError
    ELSE IF r.status = 402
    THEN NewError(Unwrapped("PaymentRequiredError"), RpcMessage(r), r.required, 0)
    ELSE IF r.status = 429
    THEN NewError(Unwrapped("RateLimitError"), RpcMessage(r), "nothing", Atoi(r.retryAfter))
    ELSE NewError(Unwrapped("APIError"), RpcMessage(r), "nothing", 0)

ErrorOf(service, r) == IF service = "mcp" THEN RpcError(r) ELSE DoError(r)

\* %v in place of %w.
MutWrapped(e) == [e EXCEPT !.chain = <<"fmt.wrapError">>]
\* "request failed: %w" around what doWithX402 returns.
Wrapped(e) == [e EXCEPT !.chain = <<"fmt.wrapError">> \o @]

\* The 402 that ends a call in x402 mode, before or after the payment, with the
\* requirements of the first.
X402Error(r) ==
    NewError(Unwrapped("PaymentRequiredError"), "x402", r.required, 0)

\* The error of a call whose last response is r.  A client that signs payments
\* takes a 402 in doWithX402, which reads requirements and never the body.
CallError(mode, service, r) ==
    IF mode = "x402" /\ r.status = 402 THEN Wrapped(X402Error(r))
    ELSE ErrorOf(service, r)

-------------------------------------------------------------------------------
(* What the application does with it.                                       *)

As(e, type) == \E i \in DOMAIN e.chain : e.chain[i] = type

\* The switch of README.md:222-234.
Classified(e) ==
    IF As(e, "PaymentRequiredError") THEN "pay"
    ELSE IF As(e, "RateLimitError") THEN "wait"
    ELSE IF As(e, "APIError") THEN "failed"
    ELSE "unknown"

Failures == {r \in Responses : r.status >= 400}

-------------------------------------------------------------------------------
(* What the properties of ServiceCalls ask of the responses.                *)

\* The two copies make the same error of it, except in two cases: a first member that
\* is an empty string, where only the messages differ, and a body that breaks off, which
\* leaves rpc's error without a type.
Agreed(r) ==
    /\ DoError(r) = RpcError(r) <=> r.body = "whole" /\ DoMessage(r) # "empty"
    /\ r.body = "whole" =>
          [DoError(r) EXCEPT !.message = "any"] = [RpcError(r) EXCEPT !.message = "any"]

\* rpc takes the body of a 402 only where doWithX402 has not taken the 402.
Unreadable(mode, service, r) ==
    service = "mcp" /\ r.body = "broken" /\ ~(mode = "x402" /\ r.status = 402)

\* The switch takes the branch of the server's status, or none.
RightlyClassified(r) ==
    \A mode \in AuthModes, service \in Services :
        Classified(CallError(mode, service, r)) =
            IF Unreadable(mode, service, r) THEN "unknown"
            ELSE IF r.status = 402 THEN "pay"
            ELSE IF r.status = 429 THEN "wait" ELSE "failed"

AgreedStatuses == {s \in Statuses : \A r \in Failures : r.status = s => Agreed(r)}

ClassifiedStatuses ==
    {s \in Statuses : \A r \in Failures : r.status = s => RightlyClassified(r)}
===============================================================================
