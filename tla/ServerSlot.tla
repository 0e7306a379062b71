------------------------------ MODULE ServerSlot ------------------------------
(***************************************************************************)
(* What a WebhookListener promises to the goroutines that start and stop   *)
(* it, without locks, sockets or goroutines of its own.                    *)
(*                                                                         *)
(* The listener is a slot for one server.  Start puts a new server there,  *)
(* never in the place of one that works; Stop takes it out.  A server that *)
(* was taken out may go on with deliveries, until some Stop says that it is*)
(* gone: then it handles none and never will again.                        *)
(***************************************************************************)
CONSTANTS
    Servers,
    Deliveries,
    Nothing

VARIABLES
    current,  \* the server in the slot
    used,     \* the servers that have been there
    failed,   \* those that have failed by themselves
    leaving,  \* those a Stop has taken out
    gone,     \* those a Stop has returned nil for
    busy      \* the server that handles each delivery

vars == <<current, used, failed, leaving, gone, busy>>

Init ==
    /\ current = Nothing
    /\ used = {}
    /\ failed = {}
    /\ leaving = {}
    /\ gone = {}
    /\ busy = [d \in Deliveries |-> Nothing]

PutIn(s) ==
    /\ s \notin used
    /\ current \in failed \cup {Nothing}
    /\ current' = s
    /\ used' = used \cup {s}
    /\ UNCHANGED <<failed, leaving, gone, busy>>

TakeOut ==
    /\ current # Nothing
    /\ current' = Nothing
    /\ leaving' = leaving \cup {current}
    /\ UNCHANGED <<used, failed, gone, busy>>

Fail(s) ==
    /\ s \in used \ gone
    /\ failed' = failed \cup {s}
    /\ UNCHANGED <<current, used, leaving, gone, busy>>

Arrive(d) ==
    /\ busy[d] = Nothing
    /\ \E s \in used \ (failed \cup gone) : busy' = [busy EXCEPT ![d] = s]
    /\ UNCHANGED <<current, used, failed, leaving, gone>>

Depart(d) ==
    /\ busy' = [busy EXCEPT ![d] = Nothing]
    /\ UNCHANGED <<current, used, failed, leaving, gone>>

Retire(s) ==
    /\ s \in leaving
    /\ \A d \in Deliveries : busy[d] # s
    /\ gone' = gone \cup {s}
    /\ UNCHANGED <<current, used, failed, leaving, busy>>

Next ==
    \/ TakeOut
    \/ \E s \in Servers : PutIn(s) \/ Fail(s) \/ Retire(s)
    \/ \E d \in Deliveries : Arrive(d) \/ Depart(d)

Spec == Init /\ [][Next]_vars
===============================================================================
