---------------------------- MODULE MCServiceCalls ----------------------------
(* ServiceCalls for TLC: the methods called, the fields the updates set, and *)
(* the integers a Retry-After header may hold around the bounds of int.      *)
EXTENDS ServiceCalls, TLC

CONSTANTS u1, u2, get, cr, del

Chosen(name) == CHOOSE m \in Methods : m.name = name

OneOfEachEffect ==
    u1 :> Chosen("Subscriptions.Update") @@ u2 :> Chosen("Subscriptions.Update")
        @@ del :> Chosen("Subscriptions.Delete")
        @@ get :> Chosen("Data.GetTokenData") @@ cr :> Chosen("Webhooks.Create")

Inputs == u1 :> {"label"} @@ u2 :> {"label", "isActive"} @@ [c \in {get, cr, del} |-> {}]

SomeAnswers ==
    u1 :> {200, 402} @@ u2 :> {200, 500} @@ get :> {200, 429}
        @@ cr :> {200, 402, 500} @@ del :> {204, 404}

SmallInts == -9 .. 9
===============================================================================
