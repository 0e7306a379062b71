------------------------------- MODULE PaidCalls ------------------------------
(***************************************************************************)
(* What the SDK promises to an application whose requests may cost money,  *)
(* without HTTP, signatures or retries: one API call is charged at most    *)
(* once, and an error of a kind that says "this was not paid for" is true  *)
(* when it is returned and stays true, even for requests that are still    *)
(* somewhere in the network.                                               *)
(***************************************************************************)
EXTENDS Naturals

CONSTANTS Calls,        \* API calls
          Outcomes,     \* how a call can end
          Clean(_, _)   \* Clean(c, o): outcome o tells that call c was not charged

VARIABLES charges,  \* how many times each call was charged
          outcome   \* how each call ended, or "pending"

paidVars == <<charges, outcome>>

Init ==
    /\ charges = [c \in Calls |-> 0]
    /\ outcome = [c \in Calls |-> "pending"]

Charge(c) ==
    /\ charges[c] = 0
    /\ ~Clean(c, outcome[c])
    /\ charges' = [charges EXCEPT ![c] = 1]
    /\ UNCHANGED outcome

Return(c) ==
    /\ outcome[c] = "pending"
    /\ \E o \in Outcomes :
          /\ Clean(c, o) => charges[c] = 0
          /\ outcome' = [outcome EXCEPT ![c] = o]
    /\ UNCHANGED charges

Next == \E c \in Calls : Charge(c) \/ Return(c)

Spec == Init /\ [][Next]_paidVars
===============================================================================
