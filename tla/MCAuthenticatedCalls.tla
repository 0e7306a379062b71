------------------------- MODULE MCAuthenticatedCalls -------------------------
(* AuthenticatedCalls for TLC: which service method each call is.           *)
EXTENDS AuthenticatedCalls, TLC

CONSTANTS c1, c2, base

OneOffer == {<<base>>}
CognitoMode == [c \in Calls |-> "cognito"]
TwoRpcs == c1 :> "rpc" @@ c2 :> "rpc"

\* Both calls are of the same kind.
CallSymmetry == Permutations(Calls)
===============================================================================
