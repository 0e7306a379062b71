------------------------------ MODULE ServiceCalls ----------------------------
(***************************************************************************)
(* The REST service namespaces (subscriptions.go, webhooks.go, apikeys.go, *)
(* push.go, wallets.go, payments.go, bundles.go, redeem.go, data.go,       *)
(* agent.go): what concurrent calls of their methods, each one exchange of *)
(* Client.do, make of the account's resources on the API server.           *)
(*                                                                         *)
(* A call may give up while its request is on its way; net/http repeats a  *)
(* GET.  Payments and authentication are RequestPipeline's.                *)
(*                                                                         *)
(* External: the server.  It applies a request in one step, changes nothing*)
(* when it answers with a 4xx, may have changed what it was asked to when  *)
(* it answers with a 5xx, and leaves a body out where no result is decoded.*)
(***************************************************************************)
EXTENDS ErrorMapping, FiniteSets

CONSTANTS
    Calls,      \* the calls of the run
    MethodOf,   \* the method of each
    Input,      \* the fields of UpdateSubscriptionInput that each sets
    AuthMode,   \* Client.AuthMode()
    Answers,    \* external: the statuses each may be answered with
    Nothing

VARIABLES
    sent,       \* the request each call waits for
    reply,      \* the answer to it that has arrived
    outcome,    \* how the call ended
    code,       \* APIError.StatusCode of the error it returned
    returned,   \* the resource it returned
    earlier,    \* history: updates that had been answered when an update began
    wire,       \* external: requests on their way
    created,    \* external: resources created so far
    exists,     \* external: the subscription is there
    fields,     \* external: which call last set each of its fields
    effects     \* external: changes made for each call

client == <<sent, outcome, code, returned, earlier>>
server == <<created, exists, fields, effects>>
vars == <<sent, reply, outcome, code, returned, earlier, wire, created, exists,
          fields, effects>>

-------------------------------------------------------------------------------
(* The methods: the verb, whether the answer is decoded, and (external) what*)
(* the server does: create, update or delete, act once (a purchase, a       *)
(* redemption, a test delivery, the deduction of a credit), or nothing.     *)

Method(name, verb, result, effect) ==
    [name |-> name, verb |-> verb, result |-> result, effect |-> effect]

SubscriptionMethods ==
    {Method("Subscriptions.Catalog", "GET", TRUE, "read"),
     Method("Subscriptions.List", "GET", TRUE, "read"),
     Method("Subscriptions.Create", "POST", TRUE, "create"),
     Method("Subscriptions.Update", "PUT", TRUE, "update"),
     Method("Subscriptions.Delete", "DELETE", FALSE, "delete")}

WebhookMethods ==
    {Method("Webhooks.Create", "POST", TRUE, "create"),
     Method("Webhooks.List", "GET", TRUE, "read"),
     Method("Webhooks.Delete", "DELETE", FALSE, "delete"),
     Method("Webhooks.SendServerTest", "POST", TRUE, "act")}

APIKeyMethods ==
    {Method("APIKeys.Create", "POST", TRUE, "create"),
     Method("APIKeys.List", "GET", TRUE, "read"),
     Method("APIKeys.Revoke", "DELETE", FALSE, "delete")}

PushMethods ==
    {Method("Push.List", "GET", TRUE, "read"),
     Method("Push.Create", "POST", TRUE, "create"),
     Method("Push.Delete", "DELETE", FALSE, "delete")}

WalletMethods ==
    {Method("Wallets.Register", "POST", TRUE, "create"),
     Method("Wallets.List", "GET", TRUE, "read"),
     Method("Wallets.Remove", "DELETE", FALSE, "delete")}

PaymentMethods ==
    {Method("Payments.Subscribe", "POST", TRUE, "act"),
     Method("Payments.Status", "GET", TRUE, "read"),
     Method("Payments.UpgradeQuote", "GET", TRUE, "read")}

BundleMethods ==
    {Method("Bundles.List", "GET", TRUE, "read"),
     Method("Bundles.Purchase", "POST", TRUE, "create")}

RedeemMethods == {Method("Redeem.Redeem", "POST", TRUE, "act")}

\* GetTokenData is "paid via x402, bundle deduction, or included monthly pushes".
DataMethods ==
    {Method("Data.GetLatest", "GET", TRUE, "read"),
     Method("Data.GetTokenData", "GET", TRUE, "act"),
     Method("Data.GetDataPush", "GET", TRUE, "read")}

AgentMethods ==
    {Method("Agent.GetScore", "GET", TRUE, "read"),
     Method("Agent.GetData", "GET", TRUE, "read")}

Methods ==
    UNION {SubscriptionMethods, WebhookMethods, APIKeyMethods, PushMethods,
           WalletMethods, PaymentMethods, BundleMethods, RedeemMethods,
           DataMethods, AgentMethods}

ASSUME AnswersAssumption == Answers \in [Calls -> SUBSET Statuses]

ASSUME MethodAssumption == MethodOf \in [Calls -> Methods]

Fields == {"label", "groups", "cooldownMinutes", "isActive"}

ASSUME InputAssumption == Input \in [Calls -> SUBSET Fields]

Effect(c) == MethodOf[c].effect

\* What the server made for a copy of a call's request.
Resources == Calls \X {1, 2}

Requests == [call : Calls, copy : {1, 2}, sets : SUBSET Fields]

Replies == [status : Statuses, resource : Resources \cup {Nothing}]

ASSUME NothingAssumption ==
    Nothing \notin Calls \cup Resources \cup Requests \cup Replies

Outcomes == {"pending", "ok", "decode_error", "request_failed", "pay", "wait", "failed"}

TypeOK ==
    /\ sent \in [Calls -> Requests \cup {Nothing}]
    /\ reply \in [Calls -> Replies \cup {Nothing}]
    /\ outcome \in [Calls -> Outcomes]
    /\ code \in [Calls -> Statuses \cup {0}]
    /\ returned \in [Calls -> Resources \cup {Nothing}]
    /\ earlier \in [Calls -> SUBSET Calls]
    /\ wire \subseteq Requests
    /\ created \subseteq Resources
    /\ exists \in BOOLEAN
    /\ fields \in [Fields -> Calls \cup {Nothing}]
    /\ effects \in [Calls -> 0 .. 2]

Init ==
    /\ sent = [c \in Calls |-> Nothing]
    /\ reply = [c \in Calls |-> Nothing]
    /\ outcome = [c \in Calls |-> "pending"]
    /\ code = [c \in Calls |-> 0]
    /\ returned = [c \in Calls |-> Nothing]
    /\ earlier = [c \in Calls |-> {}]
    /\ wire = {}
    /\ created = {}
    /\ exists = TRUE
    /\ fields = [f \in Fields |-> Nothing]
    /\ effects = [c \in Calls |-> 0]

-------------------------------------------------------------------------------
(* A call.                                                                  *)

\* The fields as values, which JSON carries whether they were set or not.
MutSentFields(c) == IF Effect(c) = "update" THEN Fields ELSE {}
\* "Only non-nil fields are sent": pointers that omitempty leaves out when nil.
SentFields(c) == IF Effect(c) = "update" THEN Input[c] ELSE {}

\* Requests marked idempotent for net/http.
MutReplayable(c) == TRUE
\* net/http repeats what it takes for idempotent by its verb.
Replayable(c) == MethodOf[c].verb = "GET"

AnsweredUpdates ==
    {d \in Calls : Effect(d) = "update" /\ outcome[d] \notin {"pending", "request_failed"}}

Send(c, copy) ==
    LET m == [call |-> c, copy |-> copy, sets |-> SentFields(c)] IN
    /\ sent' = [sent EXCEPT ![c] = m]
    /\ reply' = [reply EXCEPT ![c] = Nothing]
    /\ wire' = wire \cup {m}

Call(c) ==
    /\ sent[c] = Nothing
    /\ outcome[c] = "pending"
    /\ Send(c, 1)
    /\ earlier' = [earlier EXCEPT ![c] = IF Effect(c) = "update" THEN AnsweredUpdates ELSE {}]
    /\ UNCHANGED <<outcome, code, returned, server>>

\* External: net/http repeats the request on a new connection.
Resend(c) ==
    /\ sent[c] # Nothing
    /\ Replayable(c)
    /\ sent[c].copy = 1
    /\ Send(c, 2)
    /\ UNCHANGED <<outcome, code, returned, earlier, server>>

Return(c, how, status, resource) ==
    /\ sent' = [sent EXCEPT ![c] = Nothing]
    /\ reply' = [reply EXCEPT ![c] = Nothing]
    /\ outcome' = [outcome EXCEPT ![c] = how]
    /\ code' = [code EXCEPT ![c] = status]
    /\ returned' = [returned EXCEPT ![c] = resource]
    /\ UNCHANGED <<earlier, wire, server>>

\* httpClient.Do fails: the connection breaks or the context ends.
ConnectionFails(c) ==
    /\ sent[c] # Nothing
    /\ Return(c, "request_failed", 0, Nothing)

Response(status) ==
    [status |-> status, body |-> "whole", error |-> "text", message |-> "absent",
     retryAfter |-> <<"none", 0>>, required |-> "nothing"]

Decodes(c, status) == status # 204 /\ MethodOf[c].result

Receive(c) ==
    /\ reply[c] # Nothing
    /\ LET status == reply[c].status IN
       IF status >= 400
       THEN Return(c, Classified(CallError(AuthMode, "rest", Response(status))), status, Nothing)
       ELSE IF Decodes(c, status)
       THEN \/ Return(c, "ok", 0, reply[c].resource)
            \/ Return(c, "decode_error", 0, Nothing)
       ELSE Return(c, "ok", 0, Nothing)

-------------------------------------------------------------------------------
(* External: the server.                                                    *)

Possible(c) == Effect(c) \in {"update", "delete"} => exists

Changes(m) ==
    LET effect == Effect(m.call) IN
    /\ created' = IF effect = "create" THEN created \cup {<<m.call, m.copy>>} ELSE created
    /\ exists' = (exists /\ effect # "delete")
    /\ fields' = [f \in Fields |-> IF f \in m.sets THEN m.call ELSE fields[f]]
    /\ effects' = [effects EXCEPT ![m.call] = @ + 1]

ServerHandles(m) ==
    /\ m \in wire
    /\ wire' = wire \ {m}
    /\ \E status \in Answers[m.call] :
          /\ status < 400 => Possible(m.call)
          /\ status = 204 => ~MethodOf[m.call].result
          /\ \/ /\ status \notin 400 .. 499
                /\ Effect(m.call) # "read" /\ Possible(m.call)
                /\ Changes(m)
             \/ /\ status >= 400 \/ Effect(m.call) = "read"
                /\ UNCHANGED server
          /\ reply' = IF sent[m.call] # m THEN reply
                      ELSE [reply EXCEPT ![m.call] =
                              [status |-> status,
                               resource |-> IF status < 400 /\ Effect(m.call) = "create"
                                            THEN <<m.call, m.copy>> ELSE Nothing]]
    /\ UNCHANGED client

-------------------------------------------------------------------------------

Next ==
    \/ \E c \in Calls :
          Call(c) \/ Resend(c) \/ ConnectionFails(c) \/ Receive(c)
    \/ \E m \in wire : ServerHandles(m)

Spec == Init /\ [][Next]_vars

-------------------------------------------------------------------------------
(* Properties.                                                              *)

\* The server's 4xx, and nothing after it.
Refused(c) == code[c] \in 400 .. 499

\* What a call reports is what it did: nil means done, a 4xx means that nothing
\* was done nor will be, nothing is done twice except by a GET,
\* and a resource nobody was handed (with the secret "shown only once",
\* webhooks.go:23, apikeys.go:14) comes from a call without an answer the SDK could
\* read or with a 5xx (client.go:283-303).
OutcomesMatchEffects ==
    \A c \in Calls :
        LET made == {r \in created : r[1] = c} IN
        /\ outcome[c] = "ok" /\ Effect(c) # "read" => effects[c] > 0
        /\ MethodOf[c].verb # "GET" =>
              effects[c] <= 1 /\ (Refused(c) => effects[c] = 0)
        /\ made \subseteq {returned[c]}
              \/ outcome[c] \in {"pending", "decode_error", "request_failed"}
              \/ code[c] >= 500

\* Concurrent updates do not undo each other: a field set by an update that returned
\* nil keeps that value, or has that of an update which was given this field and
\* had not been answered before the first one began.  Only an update that was
\* abandoned can come in late (subscriptions.go:45-53, types.go:232-239).
UpdatesSurvive ==
    \A c \in Calls :
        outcome[c] = "ok" =>
            \A f \in SentFields(c) \cap Input[c] :
                LET d == fields[f] IN
                d = c \/ (d \in Calls \ earlier[c] /\ f \in Input[d])

ErrorStatuses == {reply[c].status : c \in {d \in Calls : reply[d] # Nothing}} \cap 400 .. 599

\* The two copies of the error mapping (client.go:306-347, mcp.go:139-182) make the
\* same error, with the same message, requirements and retry hint, of every response
\* with the status of an answer under way, with two exceptions, which are exact: when the
\* first of "error" and "message" that is a string is empty, only the messages differ;
\* when the body breaks off, rpc returns an error of none of the SDK's types, because it
\* looks at the status last (mcp.go:139-146), and handleHTTPError one of the status.
TwinsAgree == ErrorStatuses \subseteq AgreedStatuses

\* "All error types ... support errors.As()" (errors.go:20): the switch documented in
\* README.md:222-234 takes the branch of the status of every such response, in every
\* mode and for every service, also for the 402s that doWithX402 finds and do and
\* rpc wrap; the one exception is an MCP response whose body breaks off, which takes
\* none, unless doWithX402 took it as a 402 (mcp.go:139-143).
ClassifiedByStatus == ErrorStatuses \subseteq ClassifiedStatuses
===============================================================================
