------------------------- MODULE WebhookListenerProofs ------------------------
(***************************************************************************)
(* Proofs about WebhookListener, for any number of goroutines, servers,    *)
(* deliveries and handlers.                                                *)
(*                                                                         *)
(* ShutdownInv carries StoppedMeansIdle: a server some Stop is done with is*)
(* marked, is not served any more and cannot be again.  PortInv carries    *)
(* NoServerIsLost, which holds when the application leaves Port alone: the *)
(* check of Start and its assignment are two critical sections, and what   *)
(* keeps two Starts apart in between is the port, of which only one socket *)
(* can be open.  DispatchInv carries AnswersAreTruthful, and SlotInv, with *)
(* the other three, the refinement of ServerSlot.                          *)
(***************************************************************************)
EXTENDS WebhookListener, TLAPS

\* The state NewWebhookListener makes is well typed.
LEMMA InitType == Init => TypeOK
  <1> SUFFICES ASSUME Init PROVE TypeOK
    OBVIOUS
  <1>1. NewDelivery \in DeliveryStates
    BY DEF NewDelivery, DeliveryStates, Registered, Stages, Codes, HandlerLists
  <1>2. delivery \in [Deliveries -> DeliveryStates]
    BY <1>1 DEF Init
  <1>3. handlers \in HandlerLists
    BY DEF Init, Registered, HandlerLists
  <1>4. telling \in [Emitters -> Registered]
    BY DEF Init, Registered
  <1> QED
    BY <1>2, <1>3, <1>4, PortsAssumption DEF Init, TypeOK, DefaultPort

LifecycleStep(c) ==
    \/ StartChecks(c) \/ Listen(c) \/ SetPort(c) \/ Install(c)
    \/ Stop(c) \/ StopProceeds(c) \/ ShutdownGivesUp(c)

\* Start, Stop and Serve keep the types.
LEMMA LifecycleType ==
  ASSUME TypeOK, NEW c \in Goroutines,
         LifecycleStep(c)
  PROVE  TypeOK'
  <1> USE PortsAssumption DEF TypeOK, lifecycle, sockets, dispatch, Finish
  <1>1. CASE StartChecks(c)
    BY <1>1 DEF StartChecks
  <1>2. CASE Listen(c)
    BY <1>2 DEF Listen
  <1>3. CASE Install(c)
    BY <1>3 DEF Install
  <1>4. CASE Stop(c)
    BY <1>4 DEF Stop
  <1>5. CASE ShutdownBegins(c)
    BY <1>5 DEF ShutdownBegins
  <1>6. CASE ShutdownReturns(c)
    BY <1>6 DEF ShutdownReturns
  <1>7. CASE ShutdownGivesUp(c)
    BY <1>7 DEF ShutdownGivesUp
  <1>8. CASE SetPort(c)
    BY <1>8 DEF SetPort
  <1> QED
    BY <1>1, <1>2, <1>3, <1>4, <1>5, <1>6, <1>7, <1>8 DEF LifecycleStep, StopProceeds

\* Serve and the registration of handlers keep the types.
LEMMA ServeType ==
  ASSUME TypeOK, NEW s \in Servers, Serve(s) \/ ServeFails(s)
  PROVE  TypeOK'
  <1> USE DEF TypeOK, lifecycle, dispatch
  <1>1. CASE ServeBegins(s)
    BY <1>1 DEF ServeBegins
  <1>2. CASE ServeEnds(s)
    BY <1>2 DEF ServeEnds
  <1>3. CASE ServeFails(s)
    <2>1. handlers["error"] \in Registered /\ s \in Emitters
      BY DEF Events, HandlerLists, Emitters
    <2> QED
      BY <1>3, <2>1 DEF ServeFails, EmitError
  <1> QED
    BY <1>1, <1>2, <1>3 DEF Serve

\* OnAlert, OnTest and OnError keep the types.
LEMMA RegisterType ==
  ASSUME TypeOK, NEW event \in Events, NEW h \in Handlers, Register(event, h)
  PROVE  TypeOK'
  <1>1. Append(handlers[event], h) \in Registered
    BY DEF TypeOK, Registered, HandlerLists
  <1>2. handlers' \in HandlerLists
    BY <1>1 DEF Register, TypeOK, HandlerLists
  <1> QED
    BY <1>2 DEF Register, TypeOK, lifecycle, sockets

\* An error handler that was told was registered, of a failure with a number.
LEMMA TellType ==
  ASSUME TypeOK, NEW g \in Emitters, TellError(g)
  PROVE  TypeOK'
  <1>1. telling[g] \in Seq(Handlers) /\ telling[g] # <<>>
    BY DEF TypeOK, TellError, Registered
  <1>2. Head(telling[g]) \in Handlers /\ Tail(telling[g]) \in Registered
    BY <1>1 DEF Registered
  <1>3. Failure(g) \in Nat
    <2>1. g \in Deliveries => delivery[g].ran \in Seq(Handlers)
      BY DEF TypeOK, DeliveryStates, Registered
    <2> QED
      BY <2>1 DEF Failure
  <1>4. telling' \in [Emitters -> Registered]
    BY <1>2 DEF TypeOK, TellError
  <1>5. reports' \subseteq Emitters \X Nat \X Handlers
    BY <1>2, <1>3 DEF TypeOK, TellError
  <1> QED
    BY <1>4, <1>5 DEF TypeOK, TellError, lifecycle, sockets

\* A delivery replaced by a well-typed one, and registered handlers to tell.
LEMMA DeliveryFrame ==
  ASSUME TypeOK, NEW d \in Deliveries, NEW m \in DeliveryStates, Becomes(d, m),
         UNCHANGED <<lifecycle, sockets, handlers, reports>>,
         UNCHANGED telling \/ EmitError(d)
  PROVE  TypeOK'
  <1>1. delivery' \in [Deliveries -> DeliveryStates]
    BY DEF TypeOK, Becomes
  <1>2. handlers["error"] \in Registered /\ d \in Emitters
    BY DEF TypeOK, Events, HandlerLists, Emitters
  <1>3. telling' \in [Emitters -> Registered]
    BY <1>2 DEF TypeOK, EmitError
  <1> QED
    BY <1>1, <1>3 DEF TypeOK, lifecycle, sockets

\* What a delivery may become has the type of one, whose fields are changed one
\* after the other.
LEMMA ConnectedType ==
  ASSUME NEW m \in DeliveryStates, NEW s \in Servers, NEW due \in HandlerLists
  PROVE  [m EXCEPT !.stage = "queued", !.at = s, !.due = due] \in DeliveryStates
  <1>1. [m EXCEPT !.stage = "queued"] \in DeliveryStates
    BY DEF DeliveryStates, Stages
  <1>2. [[m EXCEPT !.stage = "queued"] EXCEPT !.at = s] \in DeliveryStates
    BY <1>1 DEF DeliveryStates
  <1>3. [[[m EXCEPT !.stage = "queued"] EXCEPT !.at = s] EXCEPT !.due = due]
          \in DeliveryStates
    BY <1>2 DEF DeliveryStates
  <1> QED
    BY <1>3

\* The type of a delivery that is answered.
LEMMA AnsweredType ==
  ASSUME NEW m \in DeliveryStates, NEW status \in Codes
  PROVE  [m EXCEPT !.stage = "answered", !.status = status] \in DeliveryStates
  <1>1. [m EXCEPT !.stage = "answered"] \in DeliveryStates
    BY DEF DeliveryStates, Stages
  <1>2. [[m EXCEPT !.stage = "answered"] EXCEPT !.status = status] \in DeliveryStates
    BY <1>1 DEF DeliveryStates
  <1> QED
    BY <1>2

\* The type of a delivery whose handlers begin to run.
LEMMA RunningType ==
  ASSUME NEW m \in DeliveryStates, NEW event \in {"alert", "test"}, NEW todo \in Registered
  PROVE  [m EXCEPT !.stage = "running", !.event = event, !.todo = todo] \in DeliveryStates
  <1>1. [m EXCEPT !.stage = "running"] \in DeliveryStates
    BY DEF DeliveryStates, Stages
  <1>2. [[m EXCEPT !.stage = "running"] EXCEPT !.event = event] \in DeliveryStates
    BY <1>1 DEF DeliveryStates
  <1>3. [[[m EXCEPT !.stage = "running"] EXCEPT !.event = event] EXCEPT !.todo = todo]
          \in DeliveryStates
    BY <1>2 DEF DeliveryStates
  <1> QED
    BY <1>3

\* The type of a delivery after one more handler.
LEMMA RanType ==
  ASSUME NEW m \in DeliveryStates, NEW todo \in Registered, NEW ran \in Registered,
         NEW panicked \in SUBSET Nat
  PROVE  /\ [m EXCEPT !.todo = todo, !.ran = ran] \in DeliveryStates
         /\ [m EXCEPT !.todo = todo, !.ran = ran, !.panicked = panicked] \in DeliveryStates
  <1>1. [m EXCEPT !.todo = todo] \in DeliveryStates
    BY DEF DeliveryStates
  <1>2. [[m EXCEPT !.todo = todo] EXCEPT !.ran = ran] \in DeliveryStates
    BY <1>1 DEF DeliveryStates
  <1>3. [[[m EXCEPT !.todo = todo] EXCEPT !.ran = ran] EXCEPT !.panicked = panicked]
          \in DeliveryStates
    BY <1>2 DEF DeliveryStates
  <1> QED
    BY <1>2, <1>3

DeliveryStep(d) ==
    \/ (\E s \in Servers : Connect(d, s)) \/ Accept(d) \/ Reset(d)
    \/ HandleWebhook(d) \/ RunHandler(d) \/ Answer(d)

\* What a step of a delivery makes of it and what it leaves alone.
LEMMA DeliveryEffect ==
  ASSUME TypeOK, NEW d \in Deliveries, DeliveryStep(d)
  PROVE  /\ \E m \in DeliveryStates : Becomes(d, m)
         /\ UNCHANGED <<lifecycle, sockets, handlers, reports>>
         /\ UNCHANGED telling \/ EmitError(d)
  <1> DEFINE old == delivery[d]
  <1>0. old \in DeliveryStates
    BY DEF TypeOK
  <1>1. CASE \E s \in Servers : Connect(d, s)
    <2>1. PICK s \in Servers : Connect(d, s)
      BY <1>1
    <2>2. [old EXCEPT !.stage = "queued", !.at = s, !.due = handlers] \in DeliveryStates
      BY <1>0, ConnectedType DEF TypeOK
    <2> QED
      BY <2>1, <2>2 DEF Connect
  <1>2. CASE Accept(d)
    <2>1. [old EXCEPT !.stage = "reading"] \in DeliveryStates
      BY <1>0 DEF DeliveryStates, Stages
    <2> QED
      BY <1>2, <2>1 DEF Accept
  <1>3. CASE Reset(d)
    <2>1. [old EXCEPT !.stage = "reset"] \in DeliveryStates
      BY <1>0 DEF DeliveryStates, Stages
    <2> QED
      BY <1>3, <2>1 DEF Reset
  <1>4. ASSUME NEW status \in {200, 400, 401, 404, 405}, Respond(d, status)
        PROVE  \E m \in DeliveryStates : Becomes(d, m)
    <2>1. status \in Codes
      BY DEF Codes
    <2>2. [old EXCEPT !.stage = "answered", !.status = status] \in DeliveryStates
      <3> HIDE DEF old
      <3> QED BY <1>0, <2>1, AnsweredType
    <2> QED
      BY <1>4, <2>2 DEF Respond
  <1>5. CASE HandleWebhook(d)
    <2>1. ASSUME NEW status \in {404, 405, 401}, Respond(d, status)
          PROVE  \E m \in DeliveryStates : Becomes(d, m)
      BY <1>4, <2>1
    <2>2. [old EXCEPT !.stage = "refusing"] \in DeliveryStates
      BY <1>0 DEF DeliveryStates, Stages
    <2>3. ASSUME NEW event \in {"alert", "test"},
                 Becomes(d, [old EXCEPT !.stage = "running", !.event = event,
                                        !.todo = Snapshot(event)])
          PROVE  \E m \in DeliveryStates : Becomes(d, m)
      <3>1. Snapshot(event) \in Registered
        BY DEF Snapshot, TypeOK, Events, HandlerLists
      <3>2. [old EXCEPT !.stage = "running", !.event = event, !.todo = Snapshot(event)]
              \in DeliveryStates
        BY <1>0, <3>1, RunningType
      <3> QED
        BY <2>3, <3>2
    <2> QED
      BY <1>5, <2>1, <2>2, <2>3 DEF HandleWebhook
  <1>6. CASE RunHandler(d)
    <2> DEFINE h == Head(old.todo)
               left == Tail(old.todo)
    <2>1. h \in Handlers /\ left \in Registered /\ Append(old.ran, h) \in Registered
      <3>1. old.todo \in Seq(Handlers) /\ old.todo # <<>> /\ old.ran \in Seq(Handlers)
        BY <1>0, <1>6 DEF RunHandler, DeliveryStates, Registered
      <3> QED
        BY <3>1 DEF Registered
    <2>2. [old EXCEPT !.todo = left, !.ran = Append(old.ran, h)] \in DeliveryStates
      BY <1>0, <2>1, RanType DEF DeliveryStates
    <2> DEFINE ran == Append(old.ran, h)
    <2>3. old.panicked \cup {Len(ran)} \in SUBSET Nat
      <3>1. Len(ran) \in Nat
        BY <2>1 DEF Registered
      <3> QED
        BY <1>0, <3>1 DEF DeliveryStates
    <2>4. [old EXCEPT !.todo = left, !.ran = ran,
                      !.panicked = old.panicked \cup {Len(ran)}] \in DeliveryStates
      <3>1. ran \in Registered
        BY <2>1
      <3> HIDE DEF left, h, ran
      <3> QED BY <1>0, <2>1, <2>3, <3>1, RanType
    <2> QED
      BY <1>6, <2>2, <2>4 DEF RunHandler, AfterPanic
  <1>7. CASE Answer(d)
    BY <1>4, <1>7 DEF Answer
  <1> QED
    BY <1>1, <1>2, <1>3, <1>5, <1>6, <1>7 DEF DeliveryStep

\* Every step keeps the types.
LEMMA TypeStep == TypeOK /\ [Next]_vars => TypeOK'
  <1> SUFFICES ASSUME TypeOK, [Next]_vars PROVE TypeOK'
    OBVIOUS
  <1>1. CASE \E c \in Goroutines : LifecycleStep(c)
    BY <1>1, LifecycleType
  <1>2. CASE \E s \in Servers : Serve(s) \/ ServeFails(s)
    BY <1>2, ServeType
  <1>3. CASE \E d \in Deliveries : DeliveryStep(d)
    BY <1>3, DeliveryEffect, DeliveryFrame
  <1>4. CASE \E event \in Events, h \in Handlers : Register(event, h)
    BY <1>4, RegisterType
  <1>5. CASE \E g \in Emitters : TellError(g)
    BY <1>5, TellType
  <1>6. CASE UNCHANGED vars
    BY <1>6 DEF vars, TypeOK
  <1> QED
    BY <1>1, <1>2, <1>3, <1>4, <1>5, <1>6
    DEF Next, Goroutines, Emitters, LifecycleStep, DeliveryStep, Handle, RunHandlers

\* The types of the listener, its servers and its deliveries.
THEOREM TypeCorrect == Spec => []TypeOK
  BY InitType, TypeStep, PTL DEF Spec

-------------------------------------------------------------------------------
(* StoppedMeansIdle.                                                        *)

\* A Stop works on a server that has been handed to Serve, and so does l.server;
\* a server some Stop is done with is marked, and Serve is over or will find out.
ShutdownInv ==
    /\ \A c \in Goroutines : pc[c] \in {"shutdown", "draining"} => phase[mine[c]] \notin {"none", "bound"}
    /\ \A c \in Goroutines : pc[c] = "draining" => mine[c] \in shutting
    /\ server # Nothing => phase[server] \notin {"none", "bound"}
    /\ \A s \in stopped : s \in shutting /\ phase[s] \in {"installed", "ended", "failed"}
    /\ StoppedMeansIdle

\* Start and Stop keep ShutdownInv: Shutdown returns once nothing is served or
\* handled, and by then Serve is over or will find the mark.
LEMMA ShutdownLifecycle ==
  ASSUME TypeOK, ShutdownInv, NEW c \in Goroutines,
         LifecycleStep(c)
  PROVE  ShutdownInv'
  <1> USE NothingAssumption
      DEF TypeOK, ShutdownInv, StoppedMeansIdle, Active, Handled, sockets, dispatch, Finish
  <1>1. CASE StartChecks(c)
    BY <1>1 DEF StartChecks
  <1>2. CASE Listen(c)
    BY <1>2 DEF Listen
  <1>3. CASE Install(c)
    BY <1>3 DEF Install
  <1>4. CASE Stop(c)
    BY <1>4 DEF Stop
  <1>5. CASE ShutdownBegins(c)
    BY <1>5 DEF ShutdownBegins
  <1>6. CASE ShutdownReturns(c)
    BY <1>6 DEF ShutdownReturns, Drained
  <1>7. CASE ShutdownGivesUp(c)
    BY <1>7 DEF ShutdownGivesUp
  <1>8. CASE SetPort(c)
    BY <1>8 DEF SetPort
  <1> QED
    BY <1>1, <1>2, <1>3, <1>4, <1>5, <1>6, <1>7, <1>8 DEF LifecycleStep, StopProceeds

\* Serve keeps ShutdownInv: it does not begin on a marked server.
LEMMA ShutdownServe ==
  ASSUME TypeOK, ShutdownInv, NEW s \in Servers, Serve(s) \/ ServeFails(s)
  PROVE  ShutdownInv'
  <1> USE NothingAssumption
      DEF TypeOK, ShutdownInv, StoppedMeansIdle, Active, Handled, lifecycle, dispatch
  <1>1. CASE ServeBegins(s)
    BY <1>1 DEF ServeBegins
  <1>2. CASE ServeEnds(s)
    BY <1>2 DEF ServeEnds
  <1>3. CASE ServeFails(s)
    BY <1>3 DEF ServeFails
  <1> QED
    BY <1>1, <1>2, <1>3 DEF Serve

\* A delivery becomes active only on a server that serves.
LEMMA ActiveEffect ==
  ASSUME TypeOK, NEW d \in Deliveries, DeliveryStep(d), NEW e \in Deliveries,
         Handled(e)'
  PROVE  /\ delivery'[e].at = delivery[e].at
         /\ \/ Handled(e)
            \/ phase[delivery[e].at] = "serving"
  <1>1. delivery \in [Deliveries -> DeliveryStates]
    BY DEF TypeOK
  <1>2. CASE e # d
    <2>1. PICK m \in DeliveryStates : Becomes(d, m)
      BY DeliveryEffect
    <2> QED
      BY <1>1, <1>2, <2>1 DEF Becomes, Handled
  <1>3. CASE e = d
    <2> USE <1>1, <1>3 DEF DeliveryStates, Becomes, Handled
    <2>1. CASE \E s \in Servers : Connect(d, s)
      BY <2>1 DEF Connect
    <2>2. CASE Accept(d)
      BY <2>2 DEF Accept
    <2>3. CASE Reset(d)
      BY <2>3 DEF Reset
    <2>4. CASE HandleWebhook(d)
      <3>1. delivery'[d].at = delivery[d].at
        <4>1. ASSUME NEW status, Respond(d, status)
              PROVE  delivery'[d].at = delivery[d].at
          BY <4>1 DEF Respond
        <4>2. ASSUME NEW event, NEW todo,
                     Becomes(d, [delivery[d] EXCEPT !.stage = "running", !.event = event,
                                                    !.todo = todo])
              PROVE  delivery'[d].at = delivery[d].at
          BY <4>2
        <4>3. ASSUME Becomes(d, [delivery[d] EXCEPT !.stage = "refusing"])
              PROVE  delivery'[d].at = delivery[d].at
          BY <4>3
        <4> QED
          BY <2>4, <4>1, <4>2, <4>3 DEF HandleWebhook
      <3> QED
        BY <2>4, <3>1 DEF HandleWebhook
    <2>5. CASE RunHandler(d)
      BY <2>5 DEF RunHandler
    <2>6. CASE Answer(d)
      <3>1. ASSUME NEW status, Respond(d, status)
            PROVE  delivery'[d].stage = "answered"
        BY <3>1 DEF Respond
      <3> QED
        BY <2>6, <3>1 DEF Answer
    <2> QED
      BY <2>1, <2>2, <2>3, <2>4, <2>5, <2>6 DEF DeliveryStep
  <1> QED
    BY <1>2, <1>3

\* Deliveries keep ShutdownInv: none becomes active on a server that is not served.
LEMMA ShutdownDelivery ==
  ASSUME TypeOK, ShutdownInv, NEW d \in Deliveries, DeliveryStep(d)
  PROVE  ShutdownInv'
  <1>1. UNCHANGED <<lifecycle, sockets>>
    BY DeliveryEffect
  <1>2. ASSUME NEW s \in stopped, NEW e \in Active(s)'
        PROVE  e \in Active(s)
    <2>1. e \in Deliveries /\ delivery'[e].at = s /\ Handled(e)'
      BY <1>2 DEF Active
    <2>2. phase[s] # "serving"
      BY DEF ShutdownInv
    <2> QED
      BY <2>1, <2>2, ActiveEffect DEF Active
  <1>3. StoppedMeansIdle'
    BY <1>1, <1>2 DEF ShutdownInv, StoppedMeansIdle, lifecycle
  <1> QED
    BY <1>1, <1>3 DEF ShutdownInv, lifecycle, sockets

\* Every step keeps ShutdownInv.
LEMMA ShutdownStep == TypeOK /\ ShutdownInv /\ [Next]_vars => ShutdownInv'
  <1> SUFFICES ASSUME TypeOK, ShutdownInv, [Next]_vars PROVE ShutdownInv'
    OBVIOUS
  <1>1. CASE \E c \in Goroutines : LifecycleStep(c)
    BY <1>1, ShutdownLifecycle
  <1>2. CASE \E s \in Servers : Serve(s) \/ ServeFails(s)
    BY <1>2, ShutdownServe
  <1>3. CASE \E d \in Deliveries : DeliveryStep(d)
    BY <1>3, ShutdownDelivery
  <1>4. CASE \E event \in Events, h \in Handlers : Register(event, h)
    BY <1>4 DEF Register, ShutdownInv, StoppedMeansIdle, Active, Handled, lifecycle, sockets
  <1>5. CASE UNCHANGED vars \/ \E g \in Emitters : TellError(g)
    BY <1>5
    DEF vars, TellError, ShutdownInv, StoppedMeansIdle, Active, Handled, lifecycle, sockets
  <1> QED
    BY <1>1, <1>2, <1>3, <1>4, <1>5
    DEF Next, Goroutines, Emitters, LifecycleStep, DeliveryStep, Handle, RunHandlers

\* ShutdownInv holds in every reachable state.
LEMMA ShutdownInvariance == Spec => [](TypeOK /\ ShutdownInv)
  <1>1. Init => TypeOK /\ ShutdownInv
    BY InitType, NothingAssumption
       DEF Init, ShutdownInv, StoppedMeansIdle
  <1> QED
    BY <1>1, TypeStep, ShutdownStep, PTL DEF Spec

\* After a Stop that returned nil no delivery is being handled on the server it
\* took, and none ever is again (listener.go:126-138).
THEOREM StopWaitsForDeliveries == Spec => []StoppedMeansIdle
  <1>1. ShutdownInv => StoppedMeansIdle
    BY DEF ShutdownInv
  <1> QED
    BY <1>1, ShutdownInvariance, PTL

-------------------------------------------------------------------------------
(* NoServerIsLost.                                                          *)

\* The port NewWebhookListener settles on.
DefaultedPort == DefaultPort(ConfigPort)

\* When the application leaves l.Port alone it never changes, every socket is on
\* it and at most one of them is open, which a server of a Start under way has.
PortInv ==
    /\ Port = DefaultedPort
    /\ \A s \in Servers : phase[s] # "none" => portOf[s] = DefaultedPort
    /\ \A s, t \in Servers : socket[s] = "open" /\ socket[t] = "open" => s = t
    /\ \A s \in Servers : socket[s] = "open" => phase[s] # "none"
    /\ \A s \in Servers : phase[s] \in {"bound", "installed"} => socket[s] = "open"
    /\ \A s \in Servers : phase[s] = "serving" /\ s \notin shutting => socket[s] = "open"
    /\ \A c \in Goroutines : pc[c] \in {"bound", "install"} => phase[mine[c]] = "bound"
    /\ \A c, b \in Goroutines :
          pc[c] \in {"bound", "install"} /\ pc[b] \in {"bound", "install"} /\ mine[c] = mine[b]
              => c = b
    /\ NoServerIsLost

\* Start and Stop keep PortInv: a second Start cannot listen while the first server
\* has the port, and a server whose port is free is no longer running.
LEMMA PortLifecycle ==
  ASSUME TypeOK, PortInv, NEW c \in Goroutines,
         LifecycleStep(c)
  PROVE  PortInv'
  <1> DefaultedPort # 0
    BY PortsAssumption DEF DefaultedPort, DefaultPort
  <1> USE NothingAssumption
      DEF TypeOK, PortInv, NoServerIsLost, Running, TakenByStop, sockets, Finish
  <1>1. CASE StartChecks(c)
    BY <1>1 DEF StartChecks
  <1>2. CASE Listen(c)
    BY <1>2 DEF Listen, Available
  <1>3. CASE Install(c)
    BY <1>3 DEF Install
  <1>4. CASE Stop(c)
    <2>1. pc[c] = "idle" /\ UNCHANGED <<Port, shutting, phase, socket, portOf>>
      BY <1>4 DEF Stop, MayStop
    <2>2. CASE server = Nothing
      BY <1>4, <2>1, <2>2 DEF Stop
    <2>3. CASE server # Nothing
      <3>1. /\ mine' = [mine EXCEPT ![c] = server] /\ server' = Nothing
            /\ pc' = [pc EXCEPT ![c] = "shutdown"]
        BY <1>4, <2>3 DEF Stop
      <3>2. \A s \in Servers : s = server \/ TakenByStop(s) => TakenByStop(s)'
        BY <2>1, <3>1
      <3>3. NoServerIsLost'
        BY <2>1, <3>1, <3>2
      <3>4. \A g \in Goroutines :
               pc'[g] \in {"bound", "install"} => g # c /\ pc[g] = pc'[g] /\ mine[g] = mine'[g]
        BY <3>1
      <3> HIDE DEF TypeOK, NoServerIsLost
      <3> QED
        BY <2>1, <3>3, <3>4
    <2> QED
      BY <2>2, <2>3
  <1>5. CASE ShutdownBegins(c)
    BY <1>5 DEF ShutdownBegins
  <1>6. CASE ShutdownReturns(c)
    BY <1>6 DEF ShutdownReturns
  <1>7. CASE ShutdownGivesUp(c)
    BY <1>7 DEF ShutdownGivesUp
  <1>8. CASE SetPort(c)
    BY <1>8 DEF SetPort
  <1> QED
    BY <1>1, <1>2, <1>3, <1>4, <1>5, <1>6, <1>7, <1>8 DEF LifecycleStep, StopProceeds

\* Serve keeps PortInv: it closes the socket of a server that was marked.
LEMMA PortServe ==
  ASSUME TypeOK, PortInv, NEW s \in Servers, Serve(s) \/ ServeFails(s)
  PROVE  PortInv'
  <1> USE DEF TypeOK, PortInv, NoServerIsLost, Running, TakenByStop, lifecycle
  <1>1. CASE ServeBegins(s)
    BY <1>1 DEF ServeBegins
  <1>2. CASE ServeEnds(s)
    BY <1>2 DEF ServeEnds
  <1>3. CASE ServeFails(s)
    BY <1>3 DEF ServeFails
  <1> QED
    BY <1>1, <1>2, <1>3 DEF Serve

\* Every step keeps PortInv.
LEMMA PortStep == TypeOK /\ PortInv /\ [Next]_vars => PortInv'
  <1> SUFFICES ASSUME TypeOK, PortInv, [Next]_vars PROVE PortInv'
    OBVIOUS
  <1>1. CASE \E c \in Goroutines : LifecycleStep(c)
    BY <1>1, PortLifecycle
  <1>2. CASE \E s \in Servers : Serve(s) \/ ServeFails(s)
    BY <1>2, PortServe
  <1> USE DEF PortInv, NoServerIsLost, Running, TakenByStop
  <1>3. CASE \E d \in Deliveries : DeliveryStep(d)
    BY <1>3, DeliveryEffect DEF lifecycle, sockets
  <1>4. CASE \E event \in Events, h \in Handlers : Register(event, h)
    BY <1>4 DEF Register, lifecycle, sockets
  <1>5. CASE UNCHANGED vars \/ \E g \in Emitters : TellError(g)
    BY <1>5 DEF vars, TellError, lifecycle, sockets
  <1> QED
    BY <1>1, <1>2, <1>3, <1>4, <1>5
    DEF Next, Goroutines, Emitters, LifecycleStep, DeliveryStep, Handle, RunHandlers

\* If the application leaves l.Port alone, the server that runs is always the one
\* Stop will find (listener.go:89-113, 126-138).
THEOREM OneServer ==
  ASSUME ~PortCleared
  PROVE  Spec => []NoServerIsLost
  <1>1. Init => TypeOK /\ PortInv
    BY InitType DEF Init, PortInv, NoServerIsLost, Running, DefaultedPort
  <1>2. PortInv => NoServerIsLost
    BY DEF PortInv
  <1> QED
    BY <1>1, <1>2, TypeStep, PortStep, PTL DEF Spec

-------------------------------------------------------------------------------
(* AnswersAreTruthful.                                                      *)

\* A prefix has the same elements at its places.
LEMMA PrefixPlaces ==
  ASSUME NEW S, NEW s \in Seq(S), NEW t \in Seq(S)
  PROVE  IsPrefix(s, t) <=> Len(s) <= Len(t) /\ \A i \in 1 .. Len(s) : s[i] = t[i]
  <1>1. CASE IsPrefix(s, t)
    <2>1. Len(s) <= Len(t) /\ SubSeq(s, 1, Len(s)) = SubSeq(t, 1, Len(s))
      BY <1>1 DEF IsPrefix
    <2>2. \A i \in 1 .. Len(s) : SubSeq(s, 1, Len(s))[i] = s[i] /\ SubSeq(t, 1, Len(s))[i] = t[i]
      BY <2>1
    <2>3. ASSUME NEW i \in 1 .. Len(s) PROVE s[i] = t[i]
      <3>1. SubSeq(s, 1, Len(s))[i] = SubSeq(t, 1, Len(s))[i]
        BY <2>1, Zenon
      <3> QED
        BY <2>2, <3>1
    <2> QED
      BY <1>1, <2>1, <2>3
  <1>2. CASE Len(s) <= Len(t) /\ \A i \in 1 .. Len(s) : s[i] = t[i]
    <2>1. SubSeq(s, 1, Len(s)) = SubSeq(t, 1, Len(s))
      BY <1>2
    <2> QED
      BY <1>2, <2>1 DEF IsPrefix
  <1> QED
    BY <1>1, <1>2

\* What has been registered before is among what is registered.
LEMMA PrefixElements ==
  ASSUME NEW S, NEW s \in Seq(S), NEW t \in Seq(S), IsPrefix(s, t)
  PROVE  ToSet(s) \subseteq ToSet(t)
  BY PrefixPlaces DEF ToSet

\* Registering a handler adds it at the end.
LEMMA PrefixAppend ==
  ASSUME NEW S, NEW s \in Seq(S), NEW t \in Seq(S), NEW h \in S, IsPrefix(s, t)
  PROVE  IsPrefix(s, Append(t, h))
  <1>1. Append(t, h) \in Seq(S)
    OBVIOUS
  <1>2. Len(s) <= Len(t) /\ \A i \in 1 .. Len(s) : s[i] = t[i]
    BY PrefixPlaces
  <1>3. Len(s) <= Len(Append(t, h)) /\ \A i \in 1 .. Len(s) : s[i] = Append(t, h)[i]
    BY <1>2
  <1> QED
    BY <1>1, <1>3, PrefixPlaces

\* A list without a handler stays without repetition when it is added.
LEMMA InjectiveAppend ==
  ASSUME NEW S, NEW t \in Seq(S), NEW h \in S, IsInjective(t), h \notin ToSet(t)
  PROVE  IsInjective(Append(t, h))
  <1>1. DOMAIN Append(t, h) = 1 .. Len(t) + 1 /\ DOMAIN t = 1 .. Len(t) /\ Len(t) \in Nat
    OBVIOUS
  <1>2. \A i \in 1 .. Len(t) : Append(t, h)[i] = t[i] /\ t[i] # h
    BY DEF ToSet
  <1>3. Append(t, h)[Len(t) + 1] = h
    OBVIOUS
  <1> QED
    BY <1>1, <1>2, <1>3 DEF IsInjective

\* The handlers that have run and those to come are the same list after each.
LEMMA NextHandler ==
  ASSUME NEW S, NEW ran \in Seq(S), NEW todo \in Seq(S), todo # <<>>
  PROVE  Append(ran, Head(todo)) \o Tail(todo) = ran \o todo
  OBVIOUS

\* What the error handlers have to hear of a delivery.
Failures(m) ==
    m.panicked \cup
        (IF m.stage = "refusing" \/ (m.stage = "answered" /\ m.status = 400) THEN {0} ELSE {})

\* Each of them has heard it, or has its turn in the loop of emitError still to come.
HasHeard(d, m, k, h) ==
    <<d, k, h>> \in reports \/ (k = Len(m.ran) /\ h \in ToSet(telling[d]))

\* A delivery whose handlers run goes through what was registered for its event when
\* they began, which starts with what was when it came in; the error handlers of that
\* time hear of its failures, all of them before the answer.
Dispatched(d, m) ==
    /\ \A e \in Events : IsPrefix(m.due[e], handlers[e])
    /\ m.stage \in {"new", "queued", "reading"} =>
          m.ran = <<>> /\ m.panicked = {} /\ telling[d] = <<>>
    /\ m.stage = "refusing" => m.ran = <<>> /\ m.panicked = {}
    /\ m.stage = "running" =>
          /\ m.event \in {"alert", "test"}
          /\ IsPrefix(m.due[m.event], m.ran \o m.todo)
          /\ IsInjective(m.ran \o m.todo)
    /\ \A k \in Failures(m), h \in ToSet(m.due["error"]) : HasHeard(d, m, k, h)
    /\ m.stage = "answered" =>
          /\ telling[d] = <<>>
          /\ m.status = 200 => IsPrefix(m.due[m.event], m.ran) /\ IsInjective(m.ran)
          /\ m.status # 200 => m.ran = <<>>

DispatchInv ==
    /\ \A e \in Events : IsInjective(handlers[e])
    /\ \A d \in Deliveries : Dispatched(d, delivery[d])

\* A step that adds reports and leaves the handlers and the other deliveries alone keeps
\* what those have.
LEMMA DispatchFrame ==
  ASSUME DispatchInv, UNCHANGED handlers, reports \subseteq reports',
         NEW d \in Deliveries, Dispatched(d, delivery[d])',
         \A e \in Deliveries \ {d} : delivery'[e] = delivery[e] /\ telling'[e] = telling[e]
  PROVE  DispatchInv'
  <1>1. ASSUME NEW e \in Deliveries \ {d} PROVE Dispatched(e, delivery[e])'
    BY <1>1 DEF DispatchInv, Dispatched, HasHeard
  <1> QED
    BY <1>1 DEF DispatchInv

\* Those that were registered when a delivery came in are among those a failure of it
\* is going to be told to.
LEMMA ReportedFailure ==
  ASSUME TypeOK, DispatchInv, NEW d \in Deliveries, EmitError(d)
  PROVE  ToSet(delivery[d].due["error"]) \subseteq ToSet(telling'[d])
  <1>1. delivery[d].due["error"] \in Seq(Handlers) /\ handlers["error"] \in Seq(Handlers)
    BY DEF TypeOK, DeliveryStates, HandlerLists, Registered, Events
  <1>2. IsPrefix(delivery[d].due["error"], handlers["error"])
    BY DEF DispatchInv, Dispatched, Events
  <1>3. ToSet(delivery[d].due["error"]) \subseteq ToSet(handlers["error"])
    BY <1>1, <1>2, PrefixElements
  <1>4. telling'[d] = handlers["error"]
    BY DEF EmitError, TypeOK, Emitters
  <1> QED
    BY <1>3, <1>4

\* When no error handler is left to call, all have heard.
LEMMA AllHeard ==
  ASSUME DispatchInv, NEW d \in Deliveries, telling[d] = <<>>
  PROVE  \A k \in Failures(delivery[d]), h \in ToSet(delivery[d].due["error"]) :
            <<d, k, h>> \in reports
  <1>1. ToSet(telling[d]) = {}
    BY DEF ToSet
  <1> QED
    BY <1>1 DEF DispatchInv, Dispatched, HasHeard

\* The one that is called hears, the others keep their turns.
LEMMA TellDispatch ==
  ASSUME TypeOK, DispatchInv, NEW g \in Emitters, TellError(g)
  PROVE  DispatchInv'
  <1>1. /\ UNCHANGED <<handlers, delivery>> /\ reports \subseteq reports'
        /\ \A e \in Emitters \ {g} : telling'[e] = telling[e]
    BY DEF TellError, TypeOK
  <1>2. ASSUME NEW d \in Deliveries PROVE Dispatched(d, delivery[d])'
    <2>1. CASE d # g
      <3>1. telling'[d] = telling[d]
        BY <1>1, <2>1 DEF Emitters
      <3> QED
        BY <1>1, <3>1 DEF DispatchInv, Dispatched, HasHeard
    <2>2. CASE d = g
      <3> DEFINE m == delivery[d]
      <3>1. Dispatched(d, m) /\ telling[d] # <<>>
        BY <2>2 DEF DispatchInv, TellError
      <3>2. m.stage \notin {"new", "queued", "reading", "answered"}
        BY <3>1 DEF Dispatched
      <3>3. \A h \in ToSet(telling[d]) :
               <<d, Len(m.ran), h>> \in reports' \/ h \in ToSet(telling'[d])
        <4>1. telling[d] \in Seq(Handlers) /\ telling'[d] = Tail(telling[d])
          BY <2>2 DEF TypeOK, TellError, Registered
        <4>2. <<d, Len(m.ran), Head(telling[d])>> \in reports'
          BY <2>2 DEF TellError, Failure
        <4>3. \A h \in ToSet(telling[d]) :
                 h = Head(telling[d]) \/ h \in ToSet(Tail(telling[d]))
          <5>1. ASSUME NEW i \in 1 .. Len(telling[d])
                PROVE  \/ telling[d][i] = Head(telling[d])
                       \/ telling[d][i] \in ToSet(Tail(telling[d]))
            <6>1. CASE i = 1
              BY <3>1, <4>1, <6>1
            <6>2. CASE i # 1
              <7>1. i - 1 \in 1 .. Len(Tail(telling[d]))
                    /\ Tail(telling[d])[i - 1] = telling[d][i]
                BY <3>1, <4>1, <6>2
              <7> QED
                BY <4>1, <7>1 DEF ToSet
            <6> QED
              BY <6>1, <6>2
          <5> QED
            BY <4>1, <5>1 DEF ToSet
        <4> QED
          BY <4>1, <4>2, <4>3
      <3>4. \A k \in Failures(m), h \in ToSet(m.due["error"]) : HasHeard(d, m, k, h)'
        BY <1>1, <3>1, <3>3 DEF Dispatched, HasHeard
      <3> QED
        BY <1>1, <3>1, <3>2, <3>4 DEF Dispatched
    <2> QED
      BY <2>1, <2>2
  <1> QED
    BY <1>1, <1>2 DEF DispatchInv

\* The handlers of an event are run in the order of registration, each once.
LEMMA RunDispatch ==
  ASSUME TypeOK, DispatchInv, NEW d \in Deliveries, RunHandler(d)
  PROVE  Dispatched(d, delivery[d])'
  <1> DEFINE m == delivery[d]
             h == Head(m.todo)
             ran == Append(m.ran, h)
  <1>1. /\ m \in DeliveryStates /\ m.stage = "running" /\ m.todo # <<>>
        /\ m.ran \in Seq(Handlers) /\ m.todo \in Seq(Handlers)
        /\ telling[d] = <<>>
    BY DEF TypeOK, RunHandler, DeliveryStates, Registered
  <1>2. ran \o Tail(m.todo) = m.ran \o m.todo
    BY <1>1, NextHandler
  <1>3. Dispatched(d, m)
    BY DEF DispatchInv
  <1>4. UNCHANGED <<handlers, reports>>
    BY DEF RunHandler
  <1>5. \A k \in m.panicked, e \in ToSet(m.due["error"]) : <<d, k, e>> \in reports
    BY <1>1, AllHeard DEF Failures
  <1>6. CASE Becomes(d, [m EXCEPT !.todo = Tail(m.todo), !.ran = ran])
    <2>1. /\ delivery'[d].stage = "running" /\ delivery'[d].event = m.event
          /\ delivery'[d].due = m.due /\ delivery'[d].panicked = m.panicked
          /\ delivery'[d].ran \o delivery'[d].todo = m.ran \o m.todo
      BY <1>1, <1>2, <1>6 DEF Becomes, TypeOK, DeliveryStates
    <2>2. Failures(delivery'[d]) = m.panicked
      BY <2>1 DEF Failures
    <2> QED
      BY <1>1, <1>3, <1>4, <1>5, <2>1, <2>2 DEF Dispatched, HasHeard
  <1>7. CASE /\ Becomes(d, [m EXCEPT !.todo = Tail(m.todo), !.ran = ran,
                                     !.panicked = m.panicked \cup {Len(ran)}])
             /\ EmitError(d)
    <2>1. /\ delivery'[d].stage = "running" /\ delivery'[d].event = m.event
          /\ delivery'[d].due = m.due /\ delivery'[d].ran = ran
          /\ delivery'[d].panicked = m.panicked \cup {Len(ran)}
          /\ delivery'[d].ran \o delivery'[d].todo = m.ran \o m.todo
      BY <1>1, <1>2, <1>7 DEF Becomes, TypeOK, DeliveryStates
    <2>2. Failures(delivery'[d]) = m.panicked \cup {Len(ran)}
      BY <2>1 DEF Failures
    <2>3. ToSet(m.due["error"]) \subseteq ToSet(telling'[d])
      BY <1>7, ReportedFailure
    <2>4. \A k \in Failures(delivery'[d]), e \in ToSet(delivery'[d].due["error"]) :
             HasHeard(d, delivery[d], k, e)'
      <3> HIDE DEF ran, m
      <3> QED BY <1>4, <1>5, <2>1, <2>2, <2>3 DEF HasHeard
    <2> QED
      BY <1>1, <1>3, <1>4, <2>1, <2>4 DEF Dispatched
  <1> QED
    BY <1>6, <1>7 DEF RunHandler, AfterPanic

\* A delivery that is answered at once has run nothing, nor has one that is refused
\* once the error handlers are told.
LEMMA HandleDispatch ==
  ASSUME TypeOK, DispatchInv, NEW d \in Deliveries, HandleWebhook(d)
  PROVE  Dispatched(d, delivery[d])'
  <1> DEFINE m == delivery[d]
  <1>1. /\ m \in DeliveryStates /\ m.stage = "reading" /\ m.ran = <<>> /\ m.panicked = {}
        /\ telling[d] = <<>> /\ Dispatched(d, m) /\ UNCHANGED handlers
    BY DEF TypeOK, HandleWebhook, DispatchInv, Dispatched
  <1>2. ASSUME NEW status \in {404, 405, 401}, Respond(d, status), UNCHANGED telling
        PROVE  Dispatched(d, delivery[d])'
    <2>1. /\ delivery'[d].stage = "answered" /\ delivery'[d].status = status
          /\ delivery'[d].ran = <<>> /\ delivery'[d].panicked = {}
          /\ delivery'[d].due = m.due
      BY <1>1, <1>2 DEF Respond, Becomes, TypeOK, DeliveryStates
    <2>2. Failures(delivery'[d]) = {} /\ status # 200
      BY <2>1 DEF Failures
    <2> QED
      BY <1>1, <1>2, <2>1, <2>2 DEF Dispatched
  <1>3. ASSUME Becomes(d, [m EXCEPT !.stage = "refusing"]), EmitError(d)
        PROVE  Dispatched(d, delivery[d])'
    <2>1. /\ delivery'[d].stage = "refusing" /\ delivery'[d].ran = <<>>
          /\ delivery'[d].panicked = {} /\ delivery'[d].due = m.due
      BY <1>1, <1>3 DEF Becomes, TypeOK, DeliveryStates
    <2>2. Failures(delivery'[d]) = {0} /\ Len(delivery'[d].ran) = 0
      BY <2>1 DEF Failures
    <2>3. ToSet(m.due["error"]) \subseteq ToSet(telling'[d])
      BY <1>3, ReportedFailure
    <2> QED
      BY <1>1, <2>1, <2>2, <2>3 DEF Dispatched, HasHeard
  <1>4. ASSUME NEW event \in {"alert", "test"}, UNCHANGED telling,
               Becomes(d, [m EXCEPT !.stage = "running", !.event = event,
                                    !.todo = Snapshot(event)])
        PROVE  Dispatched(d, delivery[d])'
    <2>1. /\ delivery'[d].stage = "running" /\ delivery'[d].event = event
          /\ delivery'[d].ran = <<>> /\ delivery'[d].panicked = {}
          /\ delivery'[d].due = m.due /\ delivery'[d].todo = handlers[event]
      BY <1>1, <1>4 DEF Becomes, TypeOK, DeliveryStates, Snapshot
    <2>2. event \in Events /\ handlers[event] \in Seq(Handlers)
      BY <1>4 DEF Events, TypeOK, HandlerLists, Registered
    <2>3. delivery'[d].ran \o delivery'[d].todo = handlers[event]
      BY <2>1, <2>2
    <2>4. IsPrefix(m.due[event], handlers[event]) /\ IsInjective(handlers[event])
      BY <1>1, <2>2 DEF Dispatched, DispatchInv
    <2>5. Failures(delivery'[d]) = {}
      BY <2>1 DEF Failures
    <2> QED
      BY <1>1, <1>4, <2>1, <2>3, <2>4, <2>5 DEF Dispatched
  <1> QED
    BY <1>2, <1>3, <1>4 DEF HandleWebhook

\* A delivery is answered when the handlers, and the error handlers, have all run.
LEMMA AnswerDispatch ==
  ASSUME TypeOK, DispatchInv, NEW d \in Deliveries, Answer(d)
  PROVE  Dispatched(d, delivery[d])'
  <1> DEFINE m == delivery[d]
             k == delivery'[d]
  <1>1. /\ m \in DeliveryStates /\ Dispatched(d, m) /\ telling[d] = <<>>
        /\ UNCHANGED <<handlers, telling, reports>>
    BY DEF Answer, TypeOK, DispatchInv
  <1>0. ASSUME NEW status, Respond(d, status)
        PROVE  /\ k.stage = "answered" /\ k.status = status /\ k.ran = m.ran
               /\ k.event = m.event /\ k.due = m.due /\ k.panicked = m.panicked
    BY <1>0, <1>1 DEF Respond, Becomes, TypeOK, DeliveryStates
  <1>2. \/ m.stage = "running" /\ m.todo = <<>> /\ k.status = 200
        \/ m.stage = "refusing" /\ k.status = 400
    BY <1>0 DEF Answer
  <1>3. /\ k.stage = "answered" /\ k.ran = m.ran /\ k.event = m.event
        /\ k.due = m.due /\ k.panicked = m.panicked
    BY <1>0 DEF Answer
  <1>4. Failures(k) = Failures(m)
    BY <1>2, <1>3 DEF Failures
  <1>5. \A j \in Failures(k), h \in ToSet(k.due["error"]) : <<d, j, h>> \in reports'
    BY <1>1, <1>3, <1>4, AllHeard
  <1>6. m.stage = "running" /\ m.todo = <<>> => m.ran \o m.todo = m.ran
    BY <1>1 DEF DeliveryStates, Registered
  <1>7. k.status = 200 => IsPrefix(k.due[k.event], k.ran) /\ IsInjective(k.ran)
    <2>1. SUFFICES ASSUME k.status = 200
                   PROVE  IsPrefix(k.due[k.event], k.ran) /\ IsInjective(k.ran)
      OBVIOUS
    <2>2. m.stage = "running" /\ m.ran \o m.todo = m.ran
      <3>1. m.stage = "running" /\ m.todo = <<>>
        BY <1>2, <2>1
      <3> QED
        BY <1>6, <3>1
    <2>3. IsPrefix(m.due[m.event], m.ran) /\ IsInjective(m.ran)
      BY <1>1, <2>2 DEF Dispatched
    <2> QED
      BY <1>3, <2>3
  <1>8. k.status # 200 => k.ran = <<>>
    BY <1>1, <1>2, <1>3 DEF Dispatched
  <1>9. \A e \in Events : IsPrefix(k.due[e], handlers'[e])
    BY <1>1, <1>3 DEF Dispatched
  <1> QED
    BY <1>1, <1>3, <1>5, <1>7, <1>8, <1>9 DEF Dispatched, HasHeard

\* Every step of a delivery keeps DispatchInv.
LEMMA DeliveryDispatch ==
  ASSUME TypeOK, DispatchInv, NEW d \in Deliveries, DeliveryStep(d)
  PROVE  DispatchInv'
  <1> DEFINE m == delivery[d]
  <1>1. /\ UNCHANGED <<handlers, reports>>
        /\ \A e \in Deliveries \ {d} : delivery'[e] = delivery[e] /\ telling'[e] = telling[e]
    BY DeliveryEffect DEF TypeOK, Becomes, EmitError, Emitters
  <1>2. m \in DeliveryStates /\ Dispatched(d, m)
    BY DEF TypeOK, DispatchInv
  <1>3. SUFFICES Dispatched(d, delivery[d])'
    BY <1>1, DispatchFrame
  <1>4. CASE \E s \in Servers : Connect(d, s)
    <2>1. /\ m.stage = "new" /\ delivery'[d].stage = "queued" /\ delivery'[d].due = handlers
          /\ delivery'[d].ran = m.ran /\ delivery'[d].panicked = m.panicked
          /\ UNCHANGED telling
      BY <1>2, <1>4 DEF Connect, Becomes, TypeOK, DeliveryStates
    <2>2. \A e \in Events : IsPrefix(handlers[e], handlers[e])
      BY PrefixPlaces DEF TypeOK, HandlerLists, Registered
    <2>3. Failures(delivery'[d]) = {}
      BY <1>2, <2>1 DEF Failures, Dispatched
    <2> QED
      BY <1>1, <1>2, <2>1, <2>2, <2>3 DEF Dispatched
  <1>5. CASE Accept(d) \/ Reset(d)
    <2>1. /\ m.stage = "queued" /\ delivery'[d].stage \in {"reading", "reset"}
          /\ delivery'[d].due = m.due
          /\ delivery'[d].ran = m.ran /\ delivery'[d].panicked = m.panicked
          /\ UNCHANGED telling
      BY <1>2, <1>5 DEF Accept, Reset, Becomes, TypeOK, DeliveryStates
    <2>2. Failures(delivery'[d]) = {}
      BY <1>2, <2>1 DEF Failures, Dispatched
    <2> QED
      BY <1>1, <1>2, <2>1, <2>2 DEF Dispatched
  <1>6. CASE HandleWebhook(d)
    BY <1>6, HandleDispatch
  <1>7. CASE RunHandler(d)
    BY <1>7, RunDispatch
  <1>8. CASE Answer(d)
    BY <1>8, AnswerDispatch
  <1> QED
    BY <1>4, <1>5, <1>6, <1>7, <1>8 DEF DeliveryStep

\* So does a registration.
LEMMA RegisterDispatch ==
  ASSUME TypeOK, DispatchInv, NEW event \in Events, NEW h \in Handlers, Register(event, h)
  PROVE  DispatchInv'
  <1>1. /\ handlers' = [handlers EXCEPT ![event] = Append(handlers[event], h)]
        /\ h \notin ToSet(handlers[event]) /\ UNCHANGED <<delivery, telling, reports>>
    BY DEF Register
  <1>2. \A e \in Events : handlers[e] \in Seq(Handlers)
    BY DEF TypeOK, HandlerLists, Registered
  <1>3. handlers'[event] = Append(handlers[event], h)
        /\ \A e \in Events \ {event} : handlers'[e] = handlers[e]
    BY <1>1 DEF TypeOK, HandlerLists
  <1>4. \A e \in Events : IsInjective(handlers'[e])
    <2>1. IsInjective(handlers'[event])
      BY <1>1, <1>2, <1>3, InjectiveAppend DEF DispatchInv
    <2> QED
      BY <1>3, <2>1 DEF DispatchInv
  <1>5. ASSUME NEW d \in Deliveries PROVE Dispatched(d, delivery[d])'
    <2>1. ASSUME NEW e \in Events PROVE IsPrefix(delivery[d].due[e], handlers'[e])
      <3>1. delivery[d].due[e] \in Seq(Handlers) /\ IsPrefix(delivery[d].due[e], handlers[e])
        BY DEF TypeOK, DeliveryStates, HandlerLists, Registered, DispatchInv, Dispatched
      <3>2. CASE e = event
        BY <1>2, <1>3, <3>1, <3>2, PrefixAppend
      <3>3. CASE e # event
        BY <1>3, <3>1, <3>3
      <3> QED
        BY <3>2, <3>3
    <2> QED
      BY <1>1, <2>1 DEF DispatchInv, Dispatched, HasHeard
  <1> QED
    BY <1>4, <1>5 DEF DispatchInv

\* Every step keeps DispatchInv.
LEMMA DispatchStep == TypeOK /\ DispatchInv /\ [Next]_vars => DispatchInv'
  <1> SUFFICES ASSUME TypeOK, DispatchInv, [Next]_vars PROVE DispatchInv'
    OBVIOUS
  <1>1. ASSUME UNCHANGED dispatch PROVE DispatchInv'
    BY <1>1 DEF dispatch, DispatchInv, Dispatched, HasHeard
  <1>2. CASE \E g \in Emitters : TellError(g)
    BY <1>2, TellDispatch
  <1>3. CASE \E c \in Goroutines : LifecycleStep(c)
    BY <1>1, <1>3 DEF LifecycleStep, StartChecks, Listen, SetPort, Install, Stop, StopProceeds,
       ShutdownBegins, ShutdownReturns, ShutdownGivesUp, dispatch
  <1>4. CASE \E s \in Servers : Serve(s) \/ ServeFails(s)
    <2>1. PICK s \in Servers : Serve(s) \/ ServeFails(s)
      BY <1>4
    <2>2. UNCHANGED <<handlers, delivery, reports>>
      BY <2>1 DEF Serve, ServeBegins, ServeEnds, ServeFails, dispatch
    <2>3. \A d \in Deliveries : telling'[d] = telling[d]
      BY <2>1, GoroutinesAssumption
      DEF Serve, ServeBegins, ServeEnds, ServeFails, EmitError, dispatch, TypeOK, Emitters
    <2> QED
      BY <2>2, <2>3 DEF DispatchInv, Dispatched, HasHeard
  <1>5. CASE \E d \in Deliveries : DeliveryStep(d)
    BY <1>5, DeliveryDispatch
  <1>6. CASE \E event \in Events, h \in Handlers : Register(event, h)
    BY <1>6, RegisterDispatch
  <1>7. CASE UNCHANGED vars
    BY <1>1, <1>7 DEF vars, dispatch
  <1> QED
    BY <1>2, <1>3, <1>4, <1>5, <1>6, <1>7
    DEF Next, Goroutines, Emitters, LifecycleStep, DeliveryStep, Handle, RunHandlers

\* For any deliveries, handlers and registrations: a 200 means that the handlers
\* registered when the delivery came in have run, in order and once each, any other
\* answer that none has, and every failure has reached the error handlers
\* (listener.go:160-224).
THEOREM AnswersMeanHandled == Spec => []AnswersAreTruthful
  <1>1. Init => TypeOK /\ DispatchInv
    <2> SUFFICES ASSUME Init PROVE DispatchInv
      BY InitType
    <2>1. \A e \in Events : handlers[e] = <<>>
      BY DEF Init
    <2>2. IsInjective(<<>>) /\ IsPrefix(<<>>, <<>>)
      BY DEF IsInjective, IsPrefix
    <2>3. ASSUME NEW d \in Deliveries PROVE Dispatched(d, delivery[d])
      <3>1. delivery[d] = NewDelivery
        BY DEF Init
      <3>2. /\ NewDelivery.stage = "new" /\ NewDelivery.ran = <<>>
            /\ NewDelivery.panicked = {} /\ Failures(NewDelivery) = {}
            /\ \A e \in Events : NewDelivery.due[e] = <<>>
        BY DEF NewDelivery, Failures
      <3>3. telling[d] = <<>>
        BY DEF Init, Emitters
      <3> QED
        BY <2>1, <2>2, <3>1, <3>2, <3>3 DEF Dispatched
    <2> QED
      BY <2>1, <2>2, <2>3 DEF DispatchInv
  <1>2. DispatchInv => AnswersAreTruthful
    <2> SUFFICES ASSUME DispatchInv, NEW d \in Deliveries, delivery[d].stage = "answered"
                 PROVE  LET m == delivery[d]
                            failures == m.panicked \cup (IF m.status = 400 THEN {0} ELSE {})
                        IN  /\ m.status = 200 => IsPrefix(m.due[m.event], m.ran)
                                                  /\ IsInjective(m.ran)
                            /\ m.status # 200 => m.ran = <<>>
                            /\ {d} \X failures \X ToSet(m.due["error"]) \subseteq reports
      BY DEF AnswersAreTruthful
    <2>1. Dispatched(d, delivery[d])
      BY DEF DispatchInv
    <2>2. ToSet(telling[d]) = {}
      BY <2>1 DEF Dispatched, ToSet
    <2>3. Failures(delivery[d])
            = delivery[d].panicked \cup (IF delivery[d].status = 400 THEN {0} ELSE {})
      BY DEF Failures
    <2>4. \A k \in Failures(delivery[d]), h \in ToSet(delivery[d].due["error"]) :
             <<d, k, h>> \in reports
      BY <2>1, <2>2 DEF Dispatched, HasHeard
    <2> QED
      BY <2>1, <2>3, <2>4 DEF Dispatched
  <1> QED
    BY <1>1, <1>2, TypeStep, DispatchStep, PTL DEF Spec

-------------------------------------------------------------------------------
(* The listener implements ServerSlot.                                      *)

\* What is in l.server works or has failed and is no Stop's; what a Stop has marked was
\* handed to Serve, which ends in order only when marked; a delivery is of a server.
SlotInv ==
    /\ server # Nothing =>
          ~TakenByStop(server) /\ phase[server] \in {"installed", "serving", "failed"}
    /\ \A s \in shutting : phase[s] \notin {"none", "bound"}
    /\ \A s \in Servers : phase[s] = "ended" => s \in shutting
    /\ \A d \in Deliveries :
          delivery[d].stage \in {"queued", "reading", "running", "refusing"} => delivery[d].at \in Servers

\* Start and Stop keep SlotInv: what Stop takes is not l.server any more, and nobody
\* has taken what Start puts there.
LEMMA SlotLifecycle ==
  ASSUME TypeOK, ShutdownInv, PortInv, SlotInv, NEW c \in Goroutines, LifecycleStep(c)
  PROVE  SlotInv'
  <1> USE NothingAssumption
      DEF TypeOK, ShutdownInv, SlotInv, TakenByStop, sockets, dispatch, Finish
  <1>1. CASE StartChecks(c)
    BY <1>1 DEF StartChecks
  <1>2. CASE Listen(c)
    BY <1>2 DEF Listen
  <1>3. CASE Install(c)
    BY <1>3 DEF Install, PortInv
  <1>4. CASE Stop(c)
    BY <1>4 DEF Stop
  <1>5. CASE ShutdownBegins(c)
    BY <1>5 DEF ShutdownBegins
  <1>6. CASE ShutdownReturns(c)
    BY <1>6 DEF ShutdownReturns
  <1>7. CASE ShutdownGivesUp(c)
    BY <1>7 DEF ShutdownGivesUp
  <1>8. CASE SetPort(c)
    BY <1>8 DEF SetPort
  <1> QED
    BY <1>1, <1>2, <1>3, <1>4, <1>5, <1>6, <1>7, <1>8 DEF LifecycleStep, StopProceeds

\* Serve keeps SlotInv.
LEMMA SlotServe ==
  ASSUME TypeOK, SlotInv, NEW s \in Servers, Serve(s) \/ ServeFails(s)
  PROVE  SlotInv'
  <1> USE DEF TypeOK, SlotInv, TakenByStop, lifecycle, dispatch
  <1>1. CASE ServeBegins(s)
    BY <1>1 DEF ServeBegins
  <1>2. CASE ServeEnds(s)
    BY <1>2 DEF ServeEnds
  <1>3. CASE ServeFails(s)
    BY <1>3 DEF ServeFails
  <1> QED
    BY <1>1, <1>2, <1>3 DEF Serve

\* How a step of a delivery moves it: it connects to a server, is accepted by one that
\* serves, or stays where it is until it is over.
LEMMA PlaceEffect ==
  ASSUME TypeOK, NEW d \in Deliveries, DeliveryStep(d)
  PROVE  LET m == delivery[d]
             k == delivery'[d]
         IN  /\ \A e \in Deliveries \ {d} : delivery'[e] = delivery[e]
             /\ \/ m.stage = "new" /\ k.stage = "queued" /\ k.at \in Servers
                \/ m.stage = "queued" /\ k.stage = "reset"
                \/ /\ m.stage = "queued" /\ k.stage = "reading" /\ k.at = m.at
                   /\ phase[m.at] = "serving"
                \/ Handled(d) /\ Handled(d)' /\ k.at = m.at
                \/ Handled(d) /\ k.stage = "answered"
  <1> DEFINE m == delivery[d]
             k == delivery'[d]
  <1>1. m \in DeliveryStates /\ delivery \in [Deliveries -> DeliveryStates]
    BY DEF TypeOK
  <1>2. \A e \in Deliveries \ {d} : delivery'[e] = delivery[e]
    BY <1>1, DeliveryEffect DEF Becomes
  <1>3. CASE \E s \in Servers : Connect(d, s)
    <2>1. m.stage = "new" /\ k.stage = "queued" /\ k.at \in Servers
      BY <1>1, <1>3 DEF Connect, Becomes, DeliveryStates
    <2> QED
      BY <1>2, <2>1
  <1>4. CASE Accept(d)
    <2>1. /\ m.stage = "queued" /\ k.stage = "reading" /\ k.at = m.at
          /\ phase[m.at] = "serving"
      BY <1>1, <1>4 DEF Accept, Becomes, DeliveryStates
    <2> QED
      BY <1>2, <2>1
  <1>5. CASE Reset(d)
    <2>1. m.stage = "queued" /\ k.stage = "reset"
      BY <1>1, <1>5 DEF Reset, Becomes, DeliveryStates
    <2> QED
      BY <1>2, <2>1
  <1>6. ASSUME NEW status, Respond(d, status)
        PROVE  k.stage = "answered"
    BY <1>1, <1>6 DEF Respond, Becomes, DeliveryStates
  <1>7. CASE HandleWebhook(d)
    <2>1. ASSUME NEW event, NEW todo,
                 Becomes(d, [m EXCEPT !.stage = "running", !.event = event, !.todo = todo])
          PROVE  k.stage = "running" /\ k.at = m.at
      BY <1>1, <2>1 DEF Becomes, DeliveryStates
    <2>2. m.stage = "reading"
      BY <1>7 DEF HandleWebhook
    <2>3. ASSUME Becomes(d, [m EXCEPT !.stage = "refusing"])
          PROVE  k.stage = "refusing" /\ k.at = m.at
      BY <1>1, <2>3 DEF Becomes, DeliveryStates
    <2>4. k.stage = "answered" \/ (k.stage \in {"running", "refusing"} /\ k.at = m.at)
      BY <1>6, <1>7, <2>1, <2>3 DEF HandleWebhook
    <2> QED
      BY <1>2, <2>2, <2>4 DEF Handled
  <1>8. CASE RunHandler(d)
    <2>1. m.stage = "running" /\ k.stage = "running" /\ k.at = m.at
      BY <1>1, <1>8 DEF RunHandler, Becomes, DeliveryStates
    <2> QED
      BY <1>2, <2>1 DEF Handled
  <1>9. CASE Answer(d)
    <2>1. m.stage \in {"running", "refusing"} /\ k.stage = "answered"
      BY <1>6, <1>9 DEF Answer
    <2> QED
      BY <1>2, <2>1 DEF Handled
  <1> QED
    BY <1>3, <1>4, <1>5, <1>7, <1>8, <1>9 DEF DeliveryStep

\* Every step keeps SlotInv.
LEMMA SlotStep ==
  TypeOK /\ ShutdownInv /\ PortInv /\ SlotInv /\ [Next]_vars => SlotInv'
  <1> SUFFICES ASSUME TypeOK, ShutdownInv, PortInv, SlotInv, [Next]_vars PROVE SlotInv'
    OBVIOUS
  <1>1. CASE \E c \in Goroutines : LifecycleStep(c)
    BY <1>1, SlotLifecycle
  <1>2. CASE \E s \in Servers : Serve(s) \/ ServeFails(s)
    BY <1>2, SlotServe
  <1>3. ASSUME NEW d \in Deliveries, DeliveryStep(d) PROVE SlotInv'
    <2>1. UNCHANGED <<lifecycle, sockets>>
      BY <1>3, DeliveryEffect
    <2>2. ASSUME NEW e \in Deliveries,
                 delivery'[e].stage \in {"queued", "reading", "running", "refusing"}
          PROVE  delivery'[e].at \in Servers
      BY <1>3, <2>2, PlaceEffect DEF SlotInv, Handled
    <2> QED
      BY <2>1, <2>2 DEF SlotInv, TakenByStop, lifecycle, sockets
  <1>4. CASE \E event \in Events, h \in Handlers : Register(event, h)
    BY <1>4 DEF Register, SlotInv, TakenByStop, lifecycle, sockets
  <1>5. CASE UNCHANGED vars \/ \E g \in Emitters : TellError(g)
    BY <1>5 DEF vars, TellError, SlotInv, TakenByStop, lifecycle, sockets
  <1> QED
    BY <1>1, <1>2, <1>3, <1>4, <1>5
    DEF Next, Goroutines, Emitters, LifecycleStep, DeliveryStep, Handle, RunHandlers

Failed == {s \in Servers : phase[s] = "failed"}
Leaving == {s \in Servers : TakenByStop(s)}
Busy == [d \in Deliveries |-> HandledBy(d)]

\* The actions of ServerSlot, in terms of the listener.
LEMMA SlotActions ==
  /\ \A s : Slot!PutIn(s) <=>
        /\ s \notin Known /\ server \in Failed \cup {Nothing}
        /\ server' = s /\ Known' = Known \cup {s}
        /\ UNCHANGED <<Failed, Leaving, stopped, Busy>>
  /\ Slot!TakeOut <=>
        /\ server # Nothing
        /\ server' = Nothing /\ Leaving' = Leaving \cup {server}
        /\ UNCHANGED <<Known, Failed, stopped, Busy>>
  /\ \A s : Slot!Fail(s) <=>
        /\ s \in Known \ stopped
        /\ Failed' = Failed \cup {s}
        /\ UNCHANGED <<server, Known, Leaving, stopped, Busy>>
  /\ \A d : Slot!Arrive(d) <=>
        /\ Busy[d] = Nothing
        /\ \E s \in Known \ (Failed \cup stopped) : Busy' = [Busy EXCEPT ![d] = s]
        /\ UNCHANGED <<server, Known, Failed, Leaving, stopped>>
  /\ \A d : Slot!Depart(d) <=>
        /\ Busy' = [Busy EXCEPT ![d] = Nothing]
        /\ UNCHANGED <<server, Known, Failed, Leaving, stopped>>
  /\ \A s : Slot!Retire(s) <=>
        /\ s \in Leaving /\ \A d \in Deliveries : Busy[d] # s
        /\ stopped' = stopped \cup {s}
        /\ UNCHANGED <<server, Known, Failed, Leaving, Busy>>
  /\ UNCHANGED Slot!vars <=> UNCHANGED <<server, Known, Failed, Leaving, stopped, Busy>>
  BY DEF Slot!PutIn, Slot!TakeOut, Slot!Fail, Slot!Arrive, Slot!Depart, Slot!Retire, Slot!vars,
     Failed, Leaving, Busy

\* What leaves the servers or the deliveries alone.
LEMMA SlotFrame ==
  /\ UNCHANGED phase => UNCHANGED <<Known, Failed>>
  /\ UNCHANGED delivery => UNCHANGED Busy
  /\ UNCHANGED <<shutting, pc, mine>> => UNCHANGED Leaving
  BY DEF Known, Failed, Busy, HandledBy, Handled, Leaving, TakenByStop

\* Start fills the slot when it installs its server: what is there has failed, since a
\* server that works would have the port; Stop empties it, and retires the server
\* when it is done.
LEMMA LifecycleRefines ==
  ASSUME TypeOK, ShutdownInv, PortInv, SlotInv, NEW c \in Goroutines, LifecycleStep(c)
  PROVE  \/ Slot!TakeOut
         \/ \E s \in Servers : Slot!PutIn(s) \/ Slot!Retire(s)
         \/ UNCHANGED Slot!vars
  <1>0. /\ pc \in [Goroutines -> {"idle", "listen", "bound", "install", "shutdown", "draining"}]
        /\ mine \in [Goroutines -> Servers \cup {Nothing}]
        /\ \A g \in Goroutines : pc[g] \notin {"idle", "listen"} => mine[g] \in Servers
        /\ server \in Servers \cup {Nothing} /\ shutting \subseteq Servers
        /\ phase \in [Servers -> {"none", "bound", "installed", "serving", "ended", "failed"}]
    BY DEF TypeOK
  <1> USE DEF sockets, dispatch, Finish
  <1>1. ASSUME UNCHANGED <<server, phase, stopped, delivery>>, UNCHANGED Leaving
        PROVE  UNCHANGED Slot!vars
    BY <1>1, SlotFrame, SlotActions
  <1>2. CASE StartChecks(c)
    <2>1. UNCHANGED Leaving
      BY <1>0, <1>2 DEF StartChecks, Leaving, TakenByStop
    <2> QED
      BY <1>1, <1>2, <2>1 DEF StartChecks
  <1>3. CASE Listen(c)
    <2>1. UNCHANGED Leaving
      BY <1>0, <1>3 DEF Listen, Leaving, TakenByStop
    <2>2. UNCHANGED <<Known, Failed>>
      BY <1>0, <1>3 DEF Listen, Known, Failed
    <2> QED
      BY <1>3, <2>1, <2>2, SlotFrame, SlotActions DEF Listen
  <1>4. CASE SetPort(c)
    <2>1. UNCHANGED Leaving
      BY <1>0, <1>4 DEF SetPort, Leaving, TakenByStop
    <2> QED
      BY <1>1, <1>4, <2>1 DEF SetPort
  <1>5. CASE Install(c)
    <2> DEFINE s == mine[c]
    <2>1. s \in Servers /\ phase[s] = "bound" /\ server' = s
      BY <1>0, <1>5 DEF Install, PortInv
    <2>2. s \notin Known /\ Known' = Known \cup {s} /\ UNCHANGED Failed
      BY <1>0, <1>5, <2>1 DEF Install, Known, Failed
    <2>3. server \in Failed \cup {Nothing}
      <3>1. SUFFICES ASSUME server \in Servers, phase[server] # "failed" PROVE FALSE
        BY <1>0 DEF Failed
      <3>2. phase[server] \in {"installed", "serving"} /\ server \notin shutting
        BY <3>1, NothingAssumption DEF SlotInv, TakenByStop
      <3>3. socket[server] = "open" /\ socket[s] = "open"
        BY <2>1, <3>1, <3>2 DEF PortInv
      <3> QED
        BY <2>1, <3>1, <3>2, <3>3 DEF PortInv
    <2>4. UNCHANGED Leaving
      BY <1>0, <1>5 DEF Install, Leaving, TakenByStop
    <2>5. UNCHANGED <<stopped, delivery>>
      BY <1>5 DEF Install
    <2>6. Slot!PutIn(s)
      <3> HIDE DEF s
      <3> QED
        BY <2>1, <2>2, <2>3, <2>4, <2>5, SlotFrame, SlotActions
    <2> QED
      BY <2>1, <2>6
  <1>6. CASE Stop(c)
    <2>1. pc[c] = "idle" /\ UNCHANGED <<phase, shutting, stopped, delivery>>
      BY <1>6 DEF Stop, MayStop
    <2>2. CASE server = Nothing
      <3>1. UNCHANGED Leaving /\ UNCHANGED server
        BY <1>0, <1>6, <2>1, <2>2 DEF Stop, Leaving, TakenByStop
      <3> QED
        BY <1>1, <2>1, <3>1
    <2>3. CASE server # Nothing
      <3>1. /\ mine' = [mine EXCEPT ![c] = server] /\ server' = Nothing
            /\ pc' = [pc EXCEPT ![c] = "shutdown"]
        BY <1>6, <2>3 DEF Stop
      <3>2. Leaving' = Leaving \cup {server}
        BY <1>0, <2>1, <2>3, <3>1 DEF Leaving, TakenByStop
      <3> QED
        BY <2>1, <2>3, <3>1, <3>2, SlotFrame, SlotActions
    <2> QED
      BY <2>2, <2>3
  <1>7. CASE ShutdownBegins(c)
    <2>1. UNCHANGED Leaving
      BY <1>0, <1>7 DEF ShutdownBegins, Leaving, TakenByStop
    <2> QED
      BY <1>1, <1>7, <2>1 DEF ShutdownBegins
  <1>8. CASE ShutdownReturns(c)
    <2> DEFINE s == mine[c]
    <2>1. s \in Servers /\ s \in shutting /\ Active(s) = {} /\ stopped' = stopped \cup {s}
      BY <1>0, <1>8 DEF ShutdownReturns, Drained, ShutdownInv
    <2>2. UNCHANGED Leaving /\ s \in Leaving
      BY <1>0, <1>8, <2>1 DEF ShutdownReturns, Leaving, TakenByStop
    <2>3. UNCHANGED <<server, phase, delivery>>
      BY <1>8 DEF ShutdownReturns
    <2>4. \A d \in Deliveries : Busy[d] # s
      BY <2>1, NothingAssumption DEF Busy, HandledBy, Active
    <2>5. Slot!Retire(s)
      <3> HIDE DEF s
      <3> QED
        BY <2>1, <2>2, <2>3, <2>4, SlotFrame, SlotActions
    <2> QED
      BY <2>1, <2>5
  <1>9. CASE ShutdownGivesUp(c)
    <2>1. UNCHANGED Leaving
      BY <1>0, <1>9 DEF ShutdownGivesUp, Leaving, TakenByStop
    <2> QED
      BY <1>1, <1>9, <2>1 DEF ShutdownGivesUp
  <1> QED
    BY <1>2, <1>3, <1>4, <1>5, <1>6, <1>7, <1>8, <1>9 DEF LifecycleStep, StopProceeds

\* Serve changes nothing in the slot, unless it fails.
LEMMA ServeRefines ==
  ASSUME TypeOK, ShutdownInv, NEW s \in Servers, Serve(s) \/ ServeFails(s)
  PROVE  Slot!Fail(s) \/ UNCHANGED Slot!vars
  <1>1. UNCHANGED <<server, stopped, shutting, pc, mine, delivery>>
    BY DEF Serve, ServeBegins, ServeEnds, ServeFails, lifecycle, dispatch
  <1>2. phase \in [Servers -> {"none", "bound", "installed", "serving", "ended", "failed"}]
    BY DEF TypeOK
  <1>3. CASE Serve(s)
    <2>1. UNCHANGED <<Known, Failed>>
      BY <1>2, <1>3 DEF Serve, ServeBegins, ServeEnds, Known, Failed
    <2> QED
      BY <1>1, <2>1, SlotFrame, SlotActions
  <1>4. CASE ServeFails(s)
    <2>1. /\ s \in Known \ stopped
          /\ Failed' = Failed \cup {s} /\ UNCHANGED Known
      BY <1>2, <1>4 DEF ServeFails, Known, Failed, ShutdownInv
    <2> QED
      BY <1>1, <2>1, SlotFrame, SlotActions
  <1> QED
    BY <1>3, <1>4

\* A delivery arrives at a server that serves, is handled there, and departs.
LEMMA DeliveryRefines ==
  ASSUME TypeOK, ShutdownInv, SlotInv, NEW d \in Deliveries, DeliveryStep(d)
  PROVE  Slot!Arrive(d) \/ Slot!Depart(d) \/ UNCHANGED Slot!vars
  <1>1. UNCHANGED <<server, stopped, shutting, pc, mine, phase>>
    BY DeliveryEffect DEF lifecycle, sockets
  <1>2. UNCHANGED <<server, Known, Failed, Leaving, stopped>>
    BY <1>1, SlotFrame
  <1>3. \A e \in Deliveries \ {d} : HandledBy(e)' = HandledBy(e)
    BY PlaceEffect DEF HandledBy, Handled
  <1>4. Busy' = [Busy EXCEPT ![d] = HandledBy(d)']
    BY <1>3 DEF Busy
  <1>5. CASE HandledBy(d)' = Nothing
    BY <1>2, <1>4, <1>5, SlotActions
  <1>6. CASE HandledBy(d)' = HandledBy(d)
    <2>1. Busy' = Busy
      BY <1>3, <1>6 DEF Busy
    <2> QED
      BY <1>2, <2>1, SlotActions
  <1>7. CASE /\ delivery[d].stage = "queued" /\ delivery'[d].stage = "reading"
             /\ delivery'[d].at = delivery[d].at /\ phase[delivery[d].at] = "serving"
    <2> DEFINE s == delivery[d].at
    <2>1. s \in Servers
      BY <1>7 DEF SlotInv
    <2>2. s \in Known \ (Failed \cup stopped)
      BY <1>7, <2>1 DEF Known, Failed, ShutdownInv
    <2>3. Busy[d] = Nothing /\ HandledBy(d)' = s
      BY <1>7 DEF Busy, HandledBy, Handled
    <2> QED
      BY <1>2, <1>4, <2>2, <2>3, SlotActions
  <1> QED
    BY <1>5, <1>6, <1>7, PlaceEffect DEF HandledBy, Handled

\* Every step is one of ServerSlot or leaves it alone.
LEMMA StepRefines ==
  TypeOK /\ ShutdownInv /\ PortInv /\ SlotInv /\ [Next]_vars => [Slot!Next]_Slot!vars
  <1> SUFFICES ASSUME TypeOK, ShutdownInv, PortInv, SlotInv, [Next]_vars
               PROVE  [Slot!Next]_Slot!vars
    OBVIOUS
  <1>1. CASE \E c \in Goroutines : LifecycleStep(c)
    BY <1>1, LifecycleRefines DEF Slot!Next
  <1>2. CASE \E s \in Servers : Serve(s) \/ ServeFails(s)
    BY <1>2, ServeRefines DEF Slot!Next
  <1>3. CASE \E d \in Deliveries : DeliveryStep(d)
    BY <1>3, DeliveryRefines DEF Slot!Next
  <1>4. CASE UNCHANGED <<lifecycle, sockets, delivery>>
    BY <1>4, SlotFrame, SlotActions DEF lifecycle, sockets
  <1>5. CASE \E g \in Emitters : TellError(g)
    BY <1>4, <1>5 DEF TellError
  <1> QED
    BY <1>1, <1>2, <1>3, <1>4, <1>5
    DEF Next, Goroutines, Emitters, LifecycleStep, DeliveryStep, Handle, RunHandlers,
        Register, vars, lifecycle, sockets

\* If the application leaves l.Port alone the listener is a slot for one server, for any
\* number of goroutines, handlers and deliveries (listener.go:85-138).
THEOREM Refinement ==
  ASSUME ~PortCleared
  PROVE  Spec => ImplementsServerSlot
  <1>1. Init => TypeOK /\ ShutdownInv /\ PortInv /\ SlotInv
    <2> SUFFICES ASSUME Init PROVE TypeOK /\ ShutdownInv /\ PortInv /\ SlotInv
      OBVIOUS
    <2>1. \A d \in Deliveries : delivery[d].stage = "new"
      BY DEF Init, NewDelivery
    <2> QED
      BY <2>1, InitType, NothingAssumption
      DEF Init, ShutdownInv, StoppedMeansIdle, PortInv, NoServerIsLost, Running, DefaultedPort,
          SlotInv
  <1>2. Init => Slot!Init
    <2> SUFFICES ASSUME Init PROVE Slot!Init
      OBVIOUS
    <2>1. \A d \in Deliveries : HandledBy(d) = Nothing
      BY DEF Init, NewDelivery, HandledBy, Handled
    <2>2. Known = {} /\ Failed = {} /\ Leaving = {}
      BY DEF Init, Known, Failed, Leaving, TakenByStop
    <2> QED
      BY <2>1, <2>2 DEF Init, Slot!Init, Failed, Leaving
  <1> QED
    BY <1>1, <1>2, TypeStep, ShutdownStep, PortStep, SlotStep, StepRefines, PTL
    DEF Spec, Slot!Spec, ImplementsServerSlot

===============================================================================
