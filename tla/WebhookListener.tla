--------------------------- MODULE WebhookListener ----------------------------
(***************************************************************************)
(* WebhookListener (listener.go): the life of the HTTP server behind Start *)
(* and Stop, the registration of handlers and the handling of a delivery.  *)
(*                                                                         *)
(* Goroutines of the application call Start, Stop, OnAlert, OnTest and     *)
(* OnError at any time; every Start that gets a socket leaves a goroutine  *)
(* running Serve, and net/http runs handleWebhook in a goroutine per       *)
(* delivery.  Handlers of deliveries and of errors run one after the other *)
(* in the goroutine of the delivery, or of Serve, and may themselves call  *)
(* Stop.  A critical section of l.mu is one action; what happens between   *)
(* two of them is not.                                                     *)
(*                                                                         *)
(* External: the sockets, the part of net/http's Server that Start and Stop*)
(* rely on (Serve registers the listener or finds the server shut down,    *)
(* Shutdown closes registered listeners and waits for Serve and for active *)
(* requests), and the senders of deliveries.                               *)
(***************************************************************************)
EXTENDS Naturals, Sequences, FiniteSets, SequencesExt

CONSTANTS
    Callers,      \* goroutines that call Start and Stop
    Servers,      \* http.Servers with their sockets; bounds the Starts
    Deliveries,   \* requests to the listener
    Handlers,     \* functions of the application
    StopHandlers, \* those that may call Stop
    Registrations,\* the event and handler of each registration it makes
    Ports,        \* the ports of the machine
    ConfigPort,   \* WebhookListenerConfig.Port
    PortCleared,  \* the application sets the exported field Port to 0 itself
    Nothing       \* no server

ASSUME PortsAssumption ==
    /\ Ports \subseteq Nat \ {0}
    /\ ConfigPort \in Ports \cup {0}
    /\ 4000 \in Ports
    /\ PortCleared \in BOOLEAN

ASSUME RegistrationsAssumption ==
    Registrations \subseteq {"alert", "test", "error"} \X Handlers

ASSUME NothingAssumption == Nothing \notin Servers

ASSUME GoroutinesAssumption ==
    /\ Callers \cap (Deliveries \cup Servers) = {}
    /\ Deliveries \cap Servers = {}

VARIABLES
    pc,         \* where each goroutine is in Start or Stop
    mine,       \* the server the Start made or the Stop took that it is in
    server,     \* l.server; l.ln is always that server's socket
    Port,       \* l.Port
    handlers,   \* l.onAlert, l.onTest, l.onError
    phase,      \* external: what has become of each server
    shutting,   \* external: servers whose Shutdown has begun
    socket,     \* external: the server's socket
    portOf,     \* external: its port
    delivery,   \* the deliveries
    telling,    \* emitError: the error handlers left to call in each goroutine
    reports,    \* which error handler was told of which failure
    stopped     \* history: servers a Stop has returned nil for

lifecycle == <<pc, mine, server, Port, shutting, stopped>>
sockets == <<phase, socket, portOf>>
dispatch == <<handlers, delivery, telling, reports>>
vars == <<pc, mine, server, Port, handlers, phase, shutting, socket, portOf,
          delivery, telling, reports, stopped>>

-------------------------------------------------------------------------------

Events == {"alert", "test", "error"}

Registered == Seq(Handlers)

NewDelivery ==
    [stage |-> "new", at |-> Nothing, status |-> 0, todo |-> <<>>, ran |-> <<>>,
     panicked |-> {}, due |-> [e \in Events |-> <<>>], event |-> "none"]

Stages == {"new", "queued", "reading", "running", "refusing", "answered", "reset"}

Codes == {0, 200, 400, 401, 404, 405}

HandlerLists == [Events -> Registered]

DeliveryStates ==
    [stage : Stages, at : Servers \cup {Nothing}, status : Codes,
     todo : Registered, ran : Registered, panicked : SUBSET Nat,
     due : HandlerLists, event : {"none", "alert", "test"}]

\* Those that call emitError: handleWebhook's, and the one a Start leaves behind.
Emitters == Deliveries \cup Servers

\* Those of the application, and those that run its handlers.
Goroutines == Callers \cup Emitters

TypeOK ==
    /\ pc \in [Goroutines -> {"idle", "listen", "bound", "install", "shutdown", "draining"}]
    /\ mine \in [Goroutines -> Servers \cup {Nothing}]
    /\ \A g \in Goroutines : pc[g] \notin {"idle", "listen"} => mine[g] \in Servers
    /\ server \in Servers \cup {Nothing}
    /\ Port \in Ports \cup {0}
    /\ handlers \in HandlerLists
    /\ phase \in [Servers -> {"none", "bound", "installed", "serving", "ended", "failed"}]
    /\ shutting \subseteq Servers
    /\ socket \in [Servers -> {"none", "open", "closed"}]
    /\ portOf \in [Servers -> Ports \cup {0}]
    /\ delivery \in [Deliveries -> DeliveryStates]
    /\ telling \in [Emitters -> Registered]
    /\ reports \subseteq Emitters \X Nat \X Handlers
    /\ stopped \subseteq Servers

\* NewWebhookListener: a configured port of 0 becomes 4000.
DefaultPort(port) == IF port = 0 THEN 4000 ELSE port

Init ==
    /\ pc = [g \in Goroutines |-> "idle"]
    /\ mine = [g \in Goroutines |-> Nothing]
    /\ server = Nothing
    /\ Port = IF PortCleared THEN 0 ELSE DefaultPort(ConfigPort)
    /\ handlers = [e \in Events |-> <<>>]
    /\ phase = [s \in Servers |-> "none"]
    /\ shutting = {}
    /\ socket = [s \in Servers |-> "none"]
    /\ portOf = [s \in Servers |-> 0]
    /\ delivery = [d \in Deliveries |-> NewDelivery]
    /\ telling = [g \in Emitters |-> <<>>]
    /\ reports = {}
    /\ stopped = {}

-------------------------------------------------------------------------------
(* Registering handlers.                                                    *)

\* OnAlert, OnTest and OnError.  Bound: Registrations, once each.
Register(event, h) ==
    /\ <<event, h>> \in Registrations
    /\ h \notin ToSet(handlers[event])
    /\ handlers' = [handlers EXCEPT ![event] = Append(@, h)]
    /\ UNCHANGED <<lifecycle, sockets, delivery, telling, reports>>

\* emitError reads the error handlers under the lock; the goroutine then calls them.
EmitError(g) == telling' = [telling EXCEPT ![g] = handlers["error"]]

\* A failure is known by how many handlers of the delivery had run: 0 for a body that
\* cannot be read or parsed, and for Serve.
Failure(g) == IF g \in Deliveries THEN Len(delivery[g].ran) ELSE 0

\* The next error handler returns, or panics, which is swallowed; while it is in
\* Stop it does neither.
TellError(g) ==
    /\ telling[g] # <<>>
    /\ pc[g] = "idle"
    /\ reports' = reports \cup {<<g, Failure(g), Head(telling[g])>>}
    /\ telling' = [telling EXCEPT ![g] = Tail(@)]
    /\ UNCHANGED <<lifecycle, sockets, handlers, delivery>>

-------------------------------------------------------------------------------
(* Start.                                                                   *)

\* Start or Stop returns; of what it returns, stopped keeps what a property is about.
Finish(c) ==
    /\ pc' = [pc EXCEPT ![c] = "idle"]
    /\ mine' = [mine EXCEPT ![c] = Nothing]

\* Bound: a Start begins only while it will find a server to make.
FreshServerLeft ==
    Cardinality({s \in Servers : phase[s] = "none"})
        > Cardinality({c \in Callers : pc[c] = "listen"})

\* The check under the lock.
StartChecks(c) ==
    /\ pc[c] = "idle"
    /\ FreshServerLeft
    /\ \/ server # Nothing /\ Finish(c)
       \/ server = Nothing /\ pc' = [pc EXCEPT ![c] = "listen"] /\ UNCHANGED mine
    /\ UNCHANGED <<server, Port, shutting, stopped, sockets, dispatch>>

\* SO_REUSEPORT on the socket.
MutAvailable(p) == TRUE
\* External: no socket of the process is open on the port.
Available(p) == \A s \in Servers : socket[s] = "open" => portOf[s] # p

\* net.Listen outside the lock: on port 0 the system picks any available port.  It
\* can fail although a port is available, as on a host it cannot resolve.
Listen(c) ==
    /\ pc[c] = "listen"
    /\ \/ \E s \in Servers, p \in Ports :
             /\ phase[s] = "none"
             /\ Port \in {0, p}
             /\ Available(p)
             /\ phase' = [phase EXCEPT ![s] = "bound"]
             /\ socket' = [socket EXCEPT ![s] = "open"]
             /\ portOf' = [portOf EXCEPT ![s] = p]
             /\ mine' = [mine EXCEPT ![c] = s]
             /\ pc' = [pc EXCEPT ![c] = "bound"]
       \/ /\ Finish(c)
          /\ UNCHANGED sockets
    /\ UNCHANGED <<server, Port, shutting, stopped, dispatch>>

\* l.Port becomes the port of the socket, still outside the lock.
SetPort(c) ==
    /\ pc[c] = "bound"
    /\ Port' = portOf[mine[c]]
    /\ pc' = [pc EXCEPT ![c] = "install"]
    /\ UNCHANGED <<mine, server, shutting, stopped, sockets, dispatch>>

\* l.server and l.ln under the lock, and the goroutine for Serve.
Install(c) ==
    /\ pc[c] = "install"
    /\ server' = mine[c]
    /\ phase' = [phase EXCEPT ![mine[c]] = "installed"]
    /\ Finish(c)
    /\ UNCHANGED <<Port, shutting, socket, portOf, stopped, dispatch>>

\* External: Serve registers the listener, unless Shutdown came first.
ServeBegins(s) ==
    /\ phase[s] = "installed"
    /\ IF s \in shutting
       THEN /\ phase' = [phase EXCEPT ![s] = "ended"]
            /\ socket' = [socket EXCEPT ![s] = "closed"]
       ELSE /\ phase' = [phase EXCEPT ![s] = "serving"]
            /\ UNCHANGED socket
    /\ UNCHANGED <<lifecycle, portOf, dispatch>>

\* Serve returns ErrServerClosed.
ServeEnds(s) ==
    /\ phase[s] = "serving"
    /\ s \in shutting
    /\ phase' = [phase EXCEPT ![s] = "ended"]
    /\ UNCHANGED <<lifecycle, socket, portOf, dispatch>>

\* Serve returns another error: Accept failed.
ServeFails(s) ==
    /\ phase[s] = "serving"
    /\ s \notin shutting
    /\ phase' = [phase EXCEPT ![s] = "failed"]
    /\ socket' = [socket EXCEPT ![s] = "closed"]
    /\ EmitError(s)
    /\ UNCHANGED <<lifecycle, portOf, handlers, delivery, reports>>

-------------------------------------------------------------------------------
(* Stop.                                                                    *)

\* The handler of the application that goroutine g is in.
InHandler(g) ==
    IF telling[g] # <<>> THEN {Head(telling[g])}
    ELSE IF g \in Deliveries THEN {h \in Handlers : /\ delivery[g].stage = "running"
                                                  /\ delivery[g].todo # <<>>
                                                  /\ h = Head(delivery[g].todo)}
    ELSE {}

\* The application calls Stop, by itself or in a handler.
MayStop(g) ==
    /\ pc[g] = "idle"
    /\ g \in Emitters => InHandler(g) \cap StopHandlers # {}

\* Dropping the check for nil.
MutStopUnchecked(g) ==
    /\ MayStop(g)
    /\ mine' = [mine EXCEPT ![g] = server]
    /\ server' = Nothing
    /\ pc' = [pc EXCEPT ![g] = "shutdown"]
    /\ UNCHANGED <<Port, shutting, stopped, sockets, dispatch>>

\* Forgetting the server without shutting it down.
MutStop(g) ==
    /\ MayStop(g)
    /\ Finish(g)
    /\ server' = Nothing
    /\ stopped' = stopped \cup ({server} \cap Servers)
    /\ UNCHANGED <<Port, shutting, sockets, dispatch>>

\* The critical section.
Stop(g) ==
    /\ MayStop(g)
    /\ \/ server = Nothing /\ Finish(g) /\ UNCHANGED server
       \/ /\ server # Nothing
          /\ mine' = [mine EXCEPT ![g] = server]
          /\ server' = Nothing
          /\ pc' = [pc EXCEPT ![g] = "shutdown"]
    /\ UNCHANGED <<Port, shutting, stopped, sockets, dispatch>>

\* srv.Shutdown: marks the server and closes the listener Serve registered.
ShutdownBegins(g) ==
    /\ pc[g] = "shutdown"
    /\ shutting' = shutting \cup {mine[g]}
    /\ socket' = IF phase[mine[g]] = "serving"
                 THEN [socket EXCEPT ![mine[g]] = "closed"] ELSE socket
    /\ pc' = [pc EXCEPT ![g] = "draining"]
    /\ UNCHANGED <<mine, server, Port, stopped, phase, portOf, dispatch>>

Handled(d) == delivery[d].stage \in {"reading", "running", "refusing"}

Active(s) == {d \in Deliveries : delivery[d].at = s /\ Handled(d)}

\* Not waiting for the handlers, and waiting for Serve to end without an error.
MutDrained(s) == phase[s] # "serving"
MutDrainedByServe(s) == phase[s] = "ended" /\ Active(s) = {}
Drained(s) == phase[s] # "serving" /\ Active(s) = {}

ShutdownReturns(g) ==
    /\ pc[g] = "draining"
    /\ Drained(mine[g])
    /\ Finish(g)
    /\ stopped' = stopped \cup {mine[g]}
    /\ UNCHANGED <<server, Port, shutting, sockets, dispatch>>

\* The context of Stop ends first.
ShutdownGivesUp(g) ==
    /\ pc[g] = "draining"
    /\ Finish(g)
    /\ UNCHANGED <<server, Port, shutting, stopped, sockets, dispatch>>

-------------------------------------------------------------------------------
(* Deliveries.                                                              *)

Becomes(d, m) == delivery' = [delivery EXCEPT ![d] = m]

\* External: a sender connects; the connection waits for Serve to accept it.
Connect(d, s) ==
    /\ delivery[d].stage = "new"
    /\ socket[s] = "open"
    /\ Becomes(d, [delivery[d] EXCEPT !.stage = "queued", !.at = s, !.due = handlers])
    /\ UNCHANGED <<lifecycle, sockets, handlers, telling, reports>>

\* External: a closed socket resets the connections nobody accepted.
Reset(d) ==
    /\ delivery[d].stage = "queued"
    /\ socket[delivery[d].at] = "closed"
    /\ Becomes(d, [delivery[d] EXCEPT !.stage = "reset"])
    /\ UNCHANGED <<lifecycle, sockets, handlers, telling, reports>>

\* Serve takes the connection and net/http reads the header of the request.
Accept(d) ==
    /\ delivery[d].stage = "queued"
    /\ phase[delivery[d].at] = "serving"
    /\ socket[delivery[d].at] = "open"
    /\ Becomes(d, [delivery[d] EXCEPT !.stage = "reading"])
    /\ UNCHANGED <<lifecycle, sockets, handlers, telling, reports>>

Respond(d, status) ==
    Becomes(d, [delivery[d] EXCEPT !.stage = "answered", !.status = status])

\* The handlers of the event, read under the lock.  Slices only ever grow, so
\* that the loop works on this snapshot.
Snapshot(event) == handlers[event]

\* handleWebhook up to the loop over the handlers, once the sender has sent the body
\* or given up: the server has no read timeout, so that this may never come.  The
\* mux answers another path, a forged signature is not reported, and every event but
\* "test" is an alert.
HandleWebhook(d) ==
    /\ delivery[d].stage = "reading"
    /\ \/ \E status \in {404, 405, 401} : Respond(d, status) /\ UNCHANGED telling
       \/ /\ Becomes(d, [delivery[d] EXCEPT !.stage = "refusing"])
          /\ EmitError(d)
       \/ \E event \in {"alert", "test"} :
             /\ Becomes(d, [delivery[d] EXCEPT !.stage = "running", !.event = event,
                                               !.todo = Snapshot(event)])
             /\ UNCHANGED telling
    /\ UNCHANGED <<lifecycle, sockets, handlers, reports>>

\* A panic ends the loop.
MutAfterPanic(todo) == <<>>
\* recover inside the loop: the handlers that are left when one panics.
AfterPanic(todo) == todo

\* No recover: net/http drops the connection of a handler that panics.
MutRunHandler(d) ==
    /\ delivery[d].stage = "running"
    /\ delivery[d].todo # <<>>
    /\ telling[d] = <<>> /\ pc[d] = "idle"
    /\ \/ Becomes(d, [delivery[d] EXCEPT !.todo = Tail(@)])
       \/ Becomes(d, [delivery[d] EXCEPT !.stage = "reset"])
    /\ UNCHANGED <<lifecycle, sockets, handlers, telling, reports>>

\* The next handler returns or panics; while it is in Stop it does neither.
RunHandler(d) ==
    /\ delivery[d].stage = "running"
    /\ delivery[d].todo # <<>>
    /\ telling[d] = <<>> /\ pc[d] = "idle"
    /\ LET left == Tail(delivery[d].todo)
           ran == Append(delivery[d].ran, Head(delivery[d].todo))
       IN  \/ /\ Becomes(d, [delivery[d] EXCEPT !.todo = left, !.ran = ran])
              /\ UNCHANGED telling
           \/ /\ Becomes(d, [delivery[d] EXCEPT !.todo = AfterPanic(left), !.ran = ran,
                                                 !.panicked = @ \cup {Len(ran)}])
              /\ EmitError(d)
    /\ UNCHANGED <<lifecycle, sockets, handlers, reports>>

\* The sender is told at once, as webhook receivers often do.
MutAnswerEarly(d) ==
    /\ delivery[d].stage = "running"
    /\ Respond(d, 200)
    /\ UNCHANGED <<lifecycle, sockets, handlers, telling, reports>>

\* A delivery whose handlers panicked is refused.
MutAnswerPanics(d) ==
    /\ delivery[d].stage = "running"
    /\ delivery[d].todo = <<>>
    /\ Respond(d, IF delivery[d].panicked = {} THEN 200 ELSE 422)
    /\ UNCHANGED <<lifecycle, sockets, handlers, telling, reports>>

\* 200 after the last handler, 400 after the last error handler.
Answer(d) ==
    /\ telling[d] = <<>>
    /\ \/ /\ delivery[d].stage = "running"
          /\ delivery[d].todo = <<>>
          /\ Respond(d, 200)
       \/ /\ delivery[d].stage = "refusing"
          /\ Respond(d, 400)
    /\ UNCHANGED <<lifecycle, sockets, handlers, telling, reports>>

-------------------------------------------------------------------------------

Serve(s) == ServeBegins(s) \/ ServeEnds(s)

\* What handleWebhook does once it has the body.
RunHandlers(d) == TellError(d) \/ RunHandler(d) \/ Answer(d)

Handle(d) == HandleWebhook(d) \/ RunHandlers(d)

StopProceeds(g) == ShutdownBegins(g) \/ ShutdownReturns(g)

Next ==
    \/ \E c \in Callers : StartChecks(c) \/ Listen(c) \/ SetPort(c) \/ Install(c)
    \/ \E g \in Goroutines : Stop(g) \/ StopProceeds(g) \/ ShutdownGivesUp(g)
    \/ \E s \in Servers : Serve(s) \/ ServeFails(s) \/ TellError(s)
    \/ \E d \in Deliveries :
          \/ \E s \in Servers : Connect(d, s)
          \/ Accept(d) \/ Reset(d) \/ Handle(d)
    \/ \E event \in Events, h \in Handlers : Register(event, h)

Spec == Init /\ [][Next]_vars

\* Goroutines keep running and the application's handlers return, unless they wait in
\* Stop.  Nothing is assumed of Stop's context, which may be context.Background
\* (README.md:190), nor of the senders: the server sets no read timeout.
Fairness ==
    /\ \A s \in Servers : WF_vars(Serve(s)) /\ WF_vars(TellError(s))
    /\ \A d \in Deliveries : WF_vars(RunHandlers(d))
    /\ \A g \in Goroutines : WF_vars(StopProceeds(g))

FairSpec == Spec /\ Fairness

-------------------------------------------------------------------------------
(* Properties.                                                              *)

\* Some Stop has taken the server, whether or not it has shut it down yet.
TakenByStop(s) ==
    s \in shutting \/ \E g \in Goroutines : pc[g] = "shutdown" /\ mine[g] = s

Running(s) == phase[s] \in {"installed", "serving"} /\ ~TakenByStop(s)

\* No server is lost: one that runs is the one Stop will find, however Starts and
\* Stops of several goroutines interleave between the two critical sections of
\* Start (listener.go:89-113).  "expected error on double start"
\* (listener_test.go:44-45).
NoServerIsLost == \A s \in Servers : Running(s) => s = server

Known == {s \in Servers : phase[s] \notin {"none", "bound"}}

HandledBy(d) ==
    IF Handled(d) THEN delivery[d].at ELSE Nothing

Slot == INSTANCE ServerSlot WITH
    current <- server,
    used <- Known,
    failed <- {s \in Servers : phase[s] = "failed"},
    leaving <- {s \in Servers : TakenByStop(s)},
    gone <- stopped,
    busy <- [d \in Deliveries |-> HandledBy(d)]

\* The listener is a slot for one server, although Start checks it in one critical
\* section and fills it in another, the server begins to serve in a goroutine of its
\* own, and Stop waits outside the lock: no Start puts its server in the place of one
\* that works, no server is taken out twice, and one that Stop said is gone handles no
\* delivery any more (listener.go:85-138).
ImplementsServerSlot == Slot!Spec

\* A Stop that returned nil after taking a server has waited for its deliveries,
\* and no delivery is handled on it afterwards (listener.go:126-138).
StoppedMeansIdle == \A s \in stopped : Active(s) = {}

\* The sender's 200 means that every handler registered for the event when the
\* delivery came in has run, exactly once and in the order of registration,
\* whatever other handlers panicked or were registered meanwhile; no handler runs
\* for a delivery that was refused; and every single panic, and every body that was
\* not understood, has been reported to each error handler (listener.go:160-224).
AnswersAreTruthful ==
    \A d \in Deliveries :
        LET m == delivery[d] IN
        m.stage = "answered" =>
            /\ m.status = 200 => IsPrefix(m.due[m.event], m.ran) /\ IsInjective(m.ran)
            /\ m.status # 200 => m.ran = <<>>
            /\ LET failures == m.panicked \cup (IF m.status = 400 THEN {0} ELSE {})
               IN  {d} \X failures \X ToSet(m.due["error"]) \subseteq reports

\* A handler has called Stop for the server that runs it.
StopsItself(g) ==
    /\ g \in Deliveries
    /\ pc[g] \in {"shutdown", "draining"}
    /\ mine[g] = delivery[g].at

\* No sender leaves a request unfinished for ever.
SendersFinish == \A d \in Deliveries : []<>(delivery[d].stage # "reading")

\* Stop returns with any context, whatever handlers and error handlers call it, also
\* after a failure of Serve, provided that no sender stalls in the middle of its
\* request: the server has no read timeout (listener.go:108, 167) and Shutdown waits
\* for the request.  Then the one Stop that may not return is that of a handler for
\* the server that runs it: Shutdown waits for the handler and the handler for
\* Shutdown (listener.go:126-138, 206, 213-223).
EveryStopReturns ==
    SendersFinish =>
        \A g \in Goroutines :
            pc[g] \in {"shutdown", "draining"} ~> (pc[g] = "idle" \/ StopsItself(g))

\* A delivery whose body has been read gets its answer, whatever the senders of the
\* others do, even if Stop or a failure of Serve comes in between, unless its handler
\* waits in a Stop: for itself, or for a sender that stalls (listener.go:182-224).
EveryDeliveryIsAnswered ==
    \A d \in Deliveries :
        delivery[d].stage \in {"running", "refusing"} ~>
            (delivery[d].stage = "answered" \/ pc[d] # "idle")

\* The socket of a server that was stopped does not stay open, even when Shutdown
\* ran before Serve.
StoppedSocketsClose ==
    \A s \in Servers : s \in stopped ~> socket[s] = "closed"

-------------------------------------------------------------------------------
(* What the documentation says and the code does not do.                    *)

\* "Stop shuts down the HTTP server" (listener.go:126): when it has returned nil
\* the server's socket is closed, so that the listener can start again.
StopClosesSocket == \A s \in stopped : socket[s] = "closed"
===============================================================================
