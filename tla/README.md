# Verification of the AttaGo Go SDK

TLA+ models of `attago`, the Go client of the AttaGo API (`src/`, one Go package), with
TLC runs over small instances and TLAPS proofs for every instance. `PROJECT.json` lists the
runs, the mutants each property is tested with, the source lines behind every definition, the
findings, the hazards and the theorems.

## The system

| Part | Source | State it keeps | Operations |
|---|---|---|---|
| Client construction | `client.go` | the credentials, the region, the `http.Client`, `Auth` | `NewClient`, its options, `AuthMode` |
| Cognito token cache | `auth.go` | `tokens`, under an `RWMutex` | `GetIDToken`, `SignIn`, `RespondToMFA`, `SignOut`, `GetTokens`, `SetTokens` |
| Registration helpers | `auth.go` | none; the account is in Cognito | `SignUp`, `ConfirmSignUp`, `ForgotPassword`, `ConfirmForgotPassword` |
| REST request pipeline | `client.go` | none beyond the call | `Client.do`, `handleHTTPError` |
| x402 payment retry | `x402.go` | none beyond the call | `doWithX402`, `ParsePaymentRequired`, `FilterAcceptsByNetwork` |
| MCP service | `mcp.go` | `nextID`, an atomic counter | `rpc` behind `Initialize`, `ListTools`, `CallTool`, `Ping` |
| REST services | `agent.go`, `wallets.go`, ... | none; the resources are on the server | 29 methods, one `Client.do` each |
| Error types | `errors.go` | data | the error chain, `errors.As` |
| Webhook sender | `webhooks.go` | none beyond the call | `SendTest`, `deliverWithRetry` |
| Webhook listener | `listener.go` | `server`, `ln`, handler lists under `mu`; `Port` outside it | `Start`, `Stop`, `OnAlert`, `OnTest`, `OnError`, `handleWebhook`, `emitError`, `Listening`, `Addr` |
| Payloads, signatures, types | `webhooks.go`, `types.go` | none | pure functions and data |

**Interactions.** Every service method is a call of `Client.do`, every MCP method one of `rpc`.
Both build a request, ask `CognitoAuth.GetIDToken` for a token in cognito mode, and hand the
exchange to `doWithX402` in x402 mode, which may send the request a second time with a signed
payment. A `Client` is shared by goroutines, so that calls meet at the token cache, at the MCP
counter and at the account's resources on the server. The registration helpers and the manager
`NewClient` makes meet at the account in Cognito. The listener runs one goroutine for `Serve` and
one per delivery, and calls back into functions of the application, which may call the listener;
the sender talks to any listener over HTTP.

**What is hard here.** No method holds a lock over I/O, so that every operation is several
critical sections with other goroutines in between (`auth.go:39-56`, `listener.go:89-113`).
Requests that cost money are sent twice on purpose and sometimes a third time by `net/http`,
and an answer can be lost after the server has acted. Deliveries time out while the receiver
still works on them, and senders stall in the middle of theirs. Handlers panic, or stop their own
server. `Stop` meets a `Serve` that has
not begun. The same mapping of responses to errors exists twice. `hazards` in `PROJECT.json`
lists each of these at its line with the property that guards it.

**What makes each part correct.**
- Construction: whatever the order of the options, the last of each sort counts, and a client has
  the credentials of one mode.
- Token cache: it behaves like one atomic cell fed by granted tokens; it never dereferences nil
  and never blocks for ever; it signs in no more than it has to; what was signed out is not sent.
- Registration: nil means done, a refusal not done; a client with the e-mail, client id, region and
  password of a registration can sign in.
- Pipeline, x402, MCP: at most one charge per call, and no charge behind an error that says
  unpaid; the retry is the same request; only what was asked for is paid; outcomes are true, and the
  requirements they carry were asked of that request.
- Services: nil means done, a 4xx not done, nothing is done twice but by a GET; updates keep each
  other's fields; the documented switch over error types takes the branch of the status, as far as the
  response can be read.
- Sender: the report agrees with what the receiver saw and gives the error of the last attempt;
  attempts are bounded; it returns whatever the receiver does; success means that the handlers ran.
- Listener: a running server can always be stopped; a `Stop` that says nil has waited; a 200
  means that the handlers ran; a panicking handler hurts nobody else and is reported each time; a
  stalled sender holds up nobody but `Stop`.

## The modules

| Module | Role |
|---|---|
| `TokenStore` | abstract: an atomic cell of tokens with grants on their way to it |
| `CognitoAuth` | the cache of `auth.go`, implements `TokenStore` |
| `ClientConfig` | `NewClient` and its options |
| `AccountCalls` | registration, reset and sign-in of accounts; composes `ClientConfig` with Cognito's user pools |
| `PaidCalls` | abstract: calls that are charged at most once and report truly |
| `RequestPipeline` | `client.go`, `x402.go`, `mcp.go`, implements `PaidCalls` |
| `AuthenticatedCalls` | composes `RequestPipeline` in cognito mode with `CognitoAuth` |
| `ErrorMapping` | errors made of responses, and what `errors.As` finds in them |
| `ServiceCalls` | the methods of the REST services and the resources they change; uses `ErrorMapping` |
| `BoundedDelivery` | abstract: a delivery that succeeds or gives up for a reason |
| `WebhookSender` | `deliverWithRetry`, implements `BoundedDelivery` |
| `ServerSlot` | abstract: a slot for one server, never filled while the server in it works |
| `WebhookListener` | `listener.go`, implements `ServerSlot` |
| `WebhookDelivery` | composes `WebhookSender` with `WebhookListener` |
| `MC*` | instances for TLC: model values, offers, kinds, options, registrations, symmetries |
| `*Proofs` | theorems about the module they are named after, and their proofs |

How they correspond to the code:

- **CognitoAuth.** `tokens` is `a.tokens`, a token set being its identity, `Blank` for an empty
  ID token or `NoTokens` for nil. Each critical section of `a.mu` is an action (`CheckCached`,
  `Store`, `Reread`, `Write`, `GetTokens`), the exchange with Cognito two more. The read lock that
  `GetIDToken` does not release when line 54 panics is `LeakedReaders`; a writer queued on it
  keeps new readers out, as Go's `RWMutex` does (`waiting`). Token expiry is left out, because no
  line of the code looks at it. In `TokenStore` the cell is overwritten only with what a call that is
  going on was asked to write (`asked`: the sets in the arguments of `SetTokens` and the nil of
  `SignOut`, here `Arguments`); a grant is written by its `Install` and by nothing else.
- **ClientConfig.** An option is the function of the fields it assigns, which is what the closures
  of `client.go:21-53` are; `ApplyOption` is one turn of the loop of `NewClient` and `Build` what
  follows it. `Modes` is the count of `NewClient`, `AuthMode` the method: two separate pieces of code.
  `applied` remembers the options for the properties.
- **AccountCalls.** Each helper, and `SignIn` of a client that was built, is one `cognitoRequest`:
  `Begin`, then `Receive` or `ConnectionFails`. Every helper call takes an `input` of its own: region,
  possibly none, e-mail, client id and password; the sign-in has the manager's. A request names its
  account by host, `ClientId` and user name (`Account`), and Cognito (external), with one pool and one
  app client per region, refuses what names no account it can have. A code it mails is named after
  the call that made it. An answer is abstracted to its class and what its body
  holds; `denied` is an `AuthError` with the name of a refusal, `open` everything that leaves
  the effect unknown.
- **RequestPipeline.** A call is at `first` while its first request is out, at `sign` in the
  signer and at `paid` while the retry is out. Each call has the mode of the client it is made
  with; the JSON-RPC calls share one counter and so one client. A set of payment requirements is
  the sequence of networks of its `accepts` list; the server asks, settles and refuses as it
  likes, but never settles one payment twice. `copy` tells apart the two transmissions `net/http`
  may make of a GET. The header decoding of `ParsePaymentRequired` is the environment's choice
  between some requirements and none. `quoted` remembers the requirements of every 402 of a request;
  `token_failed` is a call that ends in `GetIDToken`, whether it was refused or its exchange broke.
- **AuthenticatedCalls.** A call's goroutine is a caller of `CognitoAuth`: where the pipeline alone
  chooses an outcome of `GetIDToken`, the composition runs its steps. `bearer` is the token in the
  request, `signedOut` and `barred` remember what had been signed out before a call began.
- **ErrorMapping.** An error is the chain `errors.As` walks with the fields an application reads. A
  response is abstracted to its status, whether each of the body's two members is absent, no
  string, empty or a text, what `Retry-After` holds, the requirements header, and whether the body arrives whole: `rpc` reads it
  before it looks at the status and gives up when it breaks, `handleHTTPError` goes on. `MaxInt` bounds
  `int`; `Atoi` clamps to it, as `strconv.Atoi` does.
- **ServiceCalls.** `Methods` lists every method with its verb, whether its answer is decoded and
  (external) what the server does. The server applies a request in one step, or not at all with a
  4xx. `SentFields` is what `omitempty` leaves of an `UpdateSubscriptionInput`; `earlier` remembers
  which updates had been answered when an update began.
- **WebhookSender.** `attempt` is the loop counter, `begun` the attempts put on the wire,
  `lastStatusCode` and `lastError` the variables of those names. Each of the four places that
  build a `WebhookTestResult` is a disjunct. An attempt given up can be handled later.
- **WebhookListener.** `pc` and `mine` are the local state of `Start` and `Stop`; `Start` is the
  check under the lock, `Listen`, `SetPort` and `Install`. `phase`, `shutting` and `socket` are what
  `Start` and `Stop` rely on of `http.Server`: `Serve` registers its socket or finds `Shutdown` came
  first, `Shutdown` closes registered sockets and waits for active requests. A delivery carries
  the snapshot of handlers it still has to run (`todo`) and those it ran; `due` is a history
  variable with the handlers registered when the sender connected. `reading` lasts until the sender
  has sent its body or given up. `emitError` takes a snapshot as well (`telling`), and its handlers run
  one after another on the goroutine of the delivery or of `Serve`; every failure is reported by
  itself. `StopHandlers` are the handlers, of either kind, that call `Stop`; the goroutine they run on
  is then in `Stop` itself. The slot of
  `ServerSlot` is `l.server`; a server has been there once `Serve` was handed it, has left it when
  some `Stop` has taken it, and is gone when that `Stop` has found it idle.
- **WebhookDelivery.** Attempt `n` of the sender is delivery `n` of the listener. `setup` says whether
  the URL and the secret of `SendTestOptions` are the listener's. The listener's answer is the
  receiver's answer of `WebhookSender`, in one step; a connection the sender has given up is
  accepted and handled all the same.

## The runs

| Run | Instance | What it shows |
|---|---|---|
| `CognitoCache` | 2 goroutines, 2 grants; `GetIDToken`, `RespondToMFA`, `SignOut`, `SetTokens` | the cache implements `TokenStore`; a panic needs a clearing in between; nobody signs in twice while the cache is full; every call returns unless a panic has left the read lock held |
| `CognitoPanic` | 2 goroutines, 1 grant | **violated**: `GetIDToken` can panic |
| `AuthenticatedCalls` | 2 JSON-RPC calls and 1 goroutine that signs out and in, 2 grants | a signed-out token is in no request of a call that begins later; ids and outcomes, with what `GetIDToken` really does |
| `PipelinePayments` | a GET and a JSON-RPC call in x402 mode, a DELETE in cognito mode; a payable and an unpayable offer | at most one charge, true errors with the requirements of that request, only what was asked is paid, the retry is the same request, every call returns |
| `SenderDelivery` | 4 attempts, the default | report, the error of the last attempt, bounds, refinement, termination |
| `SenderStaleStatus` | 4 attempts | **violated**: the status is not nil on a network error |
| `ListenerLifecycle` | 2 goroutines, 2 servers, 1 delivery to a handler and an error handler that may call `Stop`, fixed port | no server is lost, the listener implements `ServerSlot`, every `Stop` returns unless a sender stalls or it waits for itself, every delivery that was read is answered, stopped sockets close |
| `ListenerDoubleStart` | 2 goroutines, 2 servers, `Port` set to 0 | **violated**: a server is lost |
| `ListenerStopBeforeServe` | 1 goroutine, 2 servers | **violated**: `Stop` says nil and the socket is open |
| `WebhookDelivery` | 2 attempts, 1 goroutine, 1 server, 2 test handlers and an error handler | success means handled, a permanent failure untouched; a 200 is true; a `Stop` that said nil has waited |
| `ServiceCalls` | two updates, a paid GET, a create and a delete at once | outcomes and effects, updates keep each other's fields, where both mappings agree, and that the switch takes the branch of the status |
| `AccountCalls` | one call of each helper and a sign-in, 2 pools, 2 addresses, 2 passwords, an input of its own for each, any 2 of 8 options | options reach the manager, one mode per client, outcomes and effects, sign-ups and sign-ins are refused for a reason only |

**Bounds.** Two goroutines suffice for the races of the token cache: one between its critical
sections, one doing anything else; two grants tell a token signed out from its successor. In the
composition two calls can share a sign-in or an id, while the application does the clearing. One
payable and one unpayable offer make the choice of the accepted payment and the refusal to pay
distinct, and the server can change its mind between them; a GET is the only request `net/http`
repeats. The answers it leaves out are treated by `Finish` as others are; `ServiceCalls` has the
rate limit and a fault. Four attempts are the
default of `SendTest` (`webhooks.go:68-71`), with every position a failure can have; for what the
listener makes of a delivery two suffice, one late and one on time. Two servers are one lost and
one found. In `ServiceCalls` two updates share a field and differ in another one; each call has
the answers that matter to it, a 402, a 404, a 429 and a 5xx among them; `MaxInt = 7` and headers from -9 to 9
reach over both ends of `int`. In `AccountCalls` two pools tell a region passed on from one
replaced by the default, and a client id or a code from that of another account; two passwords
tell the old from the new; two options are enough for each
pair of options that touch the same field or select two modes, and for `WithCognito` with or
without a region. Counters need no bound of their own: calls, attempts, grants, servers and
registrations are finite sets. The proofs cover what the bounds do not.

`CHECK_DEADLOCK FALSE` is set where the system may stop: when all calls of a run are done, the
report of a delivery is made, or a leaked read lock blocks everybody (or an unrecovered panic ends
the process). `ListenerLifecycle` checks for deadlock.

**Fairness.** Weak fairness of what a goroutine does on its own, which the Go scheduler gives, and:
- *CognitoAuth, RequestPipeline*: an exchange ends, with an answer or an error. The SDK sets no
  timeout (`client.go:111` uses `http.DefaultClient` unless the application brings its own), so
  this assumes a deadline in the caller's context or client. The signer returns. Nothing makes a
  call begin.
- *WebhookSender*: only its own timers and its per-attempt timeout (`webhooks.go:166`); neither the
  context, the network nor the receiver is assumed to do anything.
- *WebhookListener*: `Serve` and deliveries whose body has been read go on, that is, the
  application's handlers and error handlers return; `Shutdown` goes on. Nothing is assumed of
  `Stop`'s context, of the senders, nor that a delivery in the backlog is ever accepted. The server
  sets no read timeouts (`listener.go:108`), so that a sender that stalls keeps `Shutdown` waiting for
  ever: `EveryStopReturns` has as its premise that none does (`SendersFinish`), and excepts a handler
  that stops the server it runs on, which waits for itself (`StopsItself`). `EveryDeliveryIsAnswered`
  needs no such premise, for a delivery that has been read, but excepts one whose handler is in `Stop`.

The compositions (`AuthenticatedCalls`, `WebhookDelivery`) and `ServiceCalls` and `AccountCalls` are
checked for safety only; termination is a property of their parts.

Each property of a passing run has a mutant, a plausible bug in a mapped definition, that TLC
finds with the run's own configuration.

## The proofs

Assumptions are those named in the modules: sentinels differ from real values, kinds, modes and
methods are what the code knows, statuses lie between 100 and 599, 4000 is a port. The two
compositions assume of their parts what these assume themselves (`CacheAssumption`,
`SenderAssumption`), no more. Every theorem holds for any number of goroutines, calls, tokens, options, attempts, servers and deliveries.

- **CognitoAuthProofs.** `IInv` is type correctness, `Provenance` (what the cache, the callers and
  the writes hold was granted), `GrantsApart` (two sign-ins never carry the same token set),
  `ReadBack` (between a caller's write and its second read the cache is not nil unless it was
  cleared) and `CacheStaysWarm`; `Unseen` (a grant on its way from Cognito is known to nobody) and
  `Writers` (only `SignOut` and `SetTokens` write without a grant) are for the composition. It gives `TypeCorrect`, `PanicNeedsClear`, `SignInOnce` and, since
  grants that are apart are installed or lost one at a time and what else is written was handed in
  (`AskRefines`), `Refinement` of `TokenStore`.
- **RequestPipelineProofs.** `IInv` is type correctness, `Control` (what each location says of the
  request, the reply and the signatures), `OnePayment` (a call signs at most once, and whatever is
  on the wire or settled for it is that payment), `OnePaidRequest` (a request net/http does not
  repeat is on the wire or handled, never both) and `UnsignedErrors` (an outcome from before the
  payment has no signature behind it). They give `TypeCorrect` and `Refinement` of `PaidCalls`: the
  third and fourth are what makes "at most one charge" and "payment rejected" stable while
  requests are still under way. In the second part `Ids` extends `OneRequestPerCall` from what the server has received to what
  is on the wire or held by a call, and says that no id is ahead of the counter: that is what
  keeps the next id apart from those in use. `Truth` follows requirements from the server's answer
  to the payment and to the error that carries them (all of them quoted for that very request), and
  says at which points a call is known to have reached the server, or not to have. They give `RequestsApart`, `PaysAsked` and `OutcomesTrue`.
- **ServiceCallsProofs.** First, for any response: both mappings make a chain that begins with the
  type of the status, but for `rpc` when the body breaks, where nothing in the chain has a type; the
  wrapper of an x402 error hides none of it; and with a whole body the messages differ for an empty
  member only. Then the invariant: `Traffic` (a copy of a request changes something once,
  and not yet while it is on the wire; only a GET has a second copy), `Told` (what an answer that
  has arrived, and an outcome, say of the server), `Creations`, and `Survival` (a field has what the
  call set or what an update not answered before set later). It gives `TypeCorrect`,
  `OutcomesMeanEffects`, `UpdatesKept`, `TwinsAlike` and `RightlyTold`. The third holds because an
  update has a single copy, gone from the wire once it is answered.
- **AccountCallsProofs.** `ConfigInv`: a field holds what the last option that assigns it gave it
  (`Latest`), and the manager is made at the end, of a client with the credentials of no other mode
  (`Manager`). `OneCopy` and `CallInv`: one copy of each request, applied or on the wire, never both. They give
  `TypeCorrect`, `ManagerAsAsked`, `ModesApart` and `OutcomesMeanEffects`. `HistoryInv` gives
  `RefusalsExplained`: a request carries what the call was given, its account included (`Asked`), an
  account is what the requests applied to it have made of it (`AccountSoFar`: there because of a
  sign-up, confirmed for good, with the password of a reset once there was one), and what a sign-in
  found done when it began is done (`EarlierDone`), so that Cognito refuses for one of the reasons of
  `RefusedForAReason` only (`Reasons`); a call that has begun goes on meaning the same account.
- **WebhookSenderProofs.** `IInv` relates the loop counter to the attempts begun at every point
  (`Counting`), says that what is on the wire or handled was begun and is not both (`Traffic`), and
  that every status the sender holds came from the receiver (`Heard`). It gives `TypeCorrect`,
  `ReportIsTrue`, `ErrorIsTrue` (the error a report gives is how the last attempt ended) and `Refinement` of `BoundedDelivery`.
- **WebhookListenerProofs.** `ShutdownInv`: a `Stop` works on a server that was handed to `Serve`, and
  a server some `Stop` is done with is marked, so that a late `Serve` finds the mark. It gives
  `StopWaitsForDeliveries`. `PortInv`: while the application leaves `Port` alone, all sockets are on
  one port and at most one is open. It gives `OneServer`: the window between the two critical
  sections of `Start` is closed by the port alone, and the theorem's hypothesis `~PortCleared` is what
  `ListenerDoubleStart` drops. `DispatchInv`: what a delivery has run and what it has left make up
  the handlers it was given, which begin with those registered when it came; and each of its failures has been reported to, or
  is still to be told to, the error handlers registered then. It gives `AnswersMeanHandled`. `SlotInv`: no `Stop` has taken the server in `l.server`, and only a `Stop` ends a
  server. With the other three it gives `Refinement` of `ServerSlot`, again under `~PortCleared`: the
  server a `Start` replaces in its second critical section must have failed, since one that
  works would still have the port the `Start` has just bound.
- **AuthenticatedCallsProofs.** `ImplementsParts`: every behaviour of the composition is one of the
  pipeline and, with the calls among the goroutines, one of the cache; the theorems about both,
  imported with `INSTANCE`, carry over (`PromisesKept`, `CallsApart`, `CallsTruthful`). `CallsInv` is
  what neither part can say: a token signed out is neither in the cache nor in a grant on its way
  (`SignedOutGone`, which rests on `Unseen`), a call that asks for a token is in `GetIDToken` and
  nowhere else (`JoinedOf`), and what it holds is not barred (`BarredOf`). It gives `SignedOutIsOut`.
- **WebhookDeliveryProofs.** `ImplementsParts` likewise, for listener and sender; the rest is
  `StopsIdle`, `AttemptsTruthful` and `PromisesKept` (both refinements; that of the listener under
  `~PortCleared`). `JoinedInv` relates the two: what has become of an attempt at the listener
  (`Shaped`), that the answers on record are the listener's (`Echoed`), that a sender whose options
  fit is answered with a success if at all (`Awaited`), and what its report says of them (`Relayed`). It gives
  `SuccessMeansHandled` and `RefusalsTouchNothing`.

Only model-checked: liveness (`EveryCallReturns`, `DeliveryEnds`, `EveryStopReturns`,
`EveryDeliveryIsAnswered`, `StoppedSocketsClose`), which rests on fairness and is beyond the
prover. Every safety property of a passing run is a theorem. What the four violated properties
say is false, and has no theorem.

## Findings

Runs show four disagreements between the code and what is said of it:
1. `auth.go:54` dereferences nil when a `SignOut` comes between `GetIDToken`'s write and second read.
2. `webhooks.go:217` reports the status of an earlier attempt with a later network error.
3. `listener.go:94`: with `Port` set to 0, two concurrent `Start`s lose a server.
4. `listener.go:137`: a `Stop` that overtakes the `Serve` goroutine returns nil with the socket open.

Further observations, behaviours the models contain or leave out by a named assumption, of which
no document says otherwise or which are a matter of wording:
- *Tokens.* The panic of 1 leaves the read lock held, so that a later `SignOut` waits for ever if the
  panic is recovered. `GetIDToken` hands out expired tokens (`auth.go:42` says so). Every challenge
  is reported as MFA required (`auth.go:163`).
- *Accounts.* `AuthError` drops the status, so that a fault of Cognito is told from a refusal by its
  name only (`auth.go:264-269`). A manager keeps the password of `NewClient` after a reset.
- *Construction.* `WithCognitoRegion("")` keeps an empty region where the helpers take the default
  (`client.go:41`, `auth.go:112`; `RegionAssumption`). `WithCognito` with a password only is no mode.
- *Calls.* In cognito mode the calls documented as public (`data.go:35`) fail without a token
  (`client.go:267`). The error for a rejected payment carries the requirements of the first 402 and
  not of the one it reports (`x402.go:124`, `errors.go:39`). `net/http` may repeat a GET that is paid
  for. A create whose answer is lost leaves a webhook or key whose secret nobody has. The two error
  mappings choose the message differently when a member of the body is an empty string
  (`client.go:313-320`, `mcp.go:150-156`), and a failed MCP response whose body breaks is an error
  without a type, whatever its status, where a REST call still tells a 402 or 429 (`mcp.go:139-143`,
  `client.go:308`). A `Retry-After` may come out negative or clamped
  (`client.go:338`).
- *Webhooks.* After `Serve` fails `Listening` stays true (`listener.go:118`, `151`). A second `Stop`
  returns nil while the first still waits (`listener.go:134`). A configured port of 0, documented
  as assigned by the system, becomes 4000 (`listener.go:35`, `47`). An attempt that hits the
  sender's own five seconds is reported with the context's text (`webhooks.go:182`). The listener's
  server has no read timeouts: a sender that stalls keeps the `Stop(context.Background())` of
  `README.md:190` from returning (`listener.go:108`, `167`).

## Not modelled

HTTP framing, JSON, base64 and HMAC (a signature is valid or not); URLs and the parameters of the
services, `WithBaseURL` with them; texts of errors; what the answers of the services contain; the
data race on `l.Port` beyond the order of its read and its write; TLS and proxies; the Go memory
model. `BuildTestPayload`, `SignPayload` and `VerifySignature` are formatting and cryptography
without state, and the types of `types.go` are data: both are modelled where a decision depends on
them, as the notes of their components say.

## Plan

Done: every component that keeps state or makes decisions, the abstract specifications of four of
them, the two compositions, and proofs of all their safety properties. What could still be added:
abstract specifications of what the services and the account calls promise, which are invariants
so far; the composition of the pipeline in x402 mode with the services, whose effects it leaves to
the server; and expiry of tokens, once the code reads it.
