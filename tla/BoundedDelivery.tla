--------------------------- MODULE BoundedDelivery ----------------------------
(***************************************************************************)
(* What WebhookService.SendTest promises of one delivery: it reports       *)
(* success only when the receiver accepted the attempt it made last, makes *)
(* at most MaxAttempts attempts and none after it has reported, never hands*)
(* the receiver an attempt twice, and gives up only when the receiver      *)
(* refused for good, the caller cancelled or the attempts are used up.     *)
(* Attempts may reach the receiver late, in any order, or never.           *)
(***************************************************************************)
EXTENDS Naturals

CONSTANT MaxAttempts

VARIABLES
    begun,      \* attempts begun
    arrived,    \* attempts the receiver has handled
    accepted,   \* those it answered with a 2xx
    refused,    \* those it answered with a 4xx other than 429
    cancelled,  \* the caller's context is done
    outcome     \* "pending", "delivered" or "given_up"

vars == <<begun, arrived, accepted, refused, cancelled, outcome>>

Init ==
    /\ begun = 0
    /\ arrived = {}
    /\ accepted = {}
    /\ refused = {}
    /\ cancelled \in BOOLEAN
    /\ outcome = "pending"

Cancel ==
    /\ cancelled' = TRUE
    /\ UNCHANGED <<begun, arrived, accepted, refused, outcome>>

Arrive(n) ==
    /\ n \notin arrived
    /\ arrived' = arrived \cup {n}
    /\ \/ accepted' = accepted \cup {n} /\ UNCHANGED refused
       \/ refused' = refused \cup {n} /\ UNCHANGED accepted
       \/ UNCHANGED <<accepted, refused>>
    /\ UNCHANGED <<begun, cancelled, outcome>>

Deliver ==
    /\ outcome = "pending"
    /\ begun \in accepted
    /\ outcome' = "delivered"
    /\ UNCHANGED <<begun, arrived, accepted, refused, cancelled>>

\* An attempt that fails at once may be the last one.
Attempt ==
    /\ outcome = "pending"
    /\ begun < MaxAttempts
    /\ begun' = begun + 1
    /\ outcome' = "given_up" => begun' = MaxAttempts
    /\ outcome' \in {"pending", "given_up"}
    /\ UNCHANGED <<arrived, accepted, refused, cancelled>>

GiveUp ==
    /\ outcome = "pending"
    /\ cancelled \/ begun \in refused \/ begun = MaxAttempts
    /\ outcome' = "given_up"
    /\ UNCHANGED <<begun, arrived, accepted, refused, cancelled>>

Next ==
    \/ Cancel
    \/ \E n \in 1 .. begun : Arrive(n)
    \/ Attempt
    \/ Deliver
    \/ GiveUp

Spec == Init /\ [][Next]_vars
===============================================================================
