--------------------------- MODULE MCRequestPipeline --------------------------
(* Instances of RequestPipeline small enough for TLC.                      *)
EXTENDS RequestPipeline, TLC

CONSTANTS c1, c2, c3, base, solana

\* Requirements with the signer's network behind another one, and without it.
TwoOffers == {<<solana, base>>, <<solana>>}

\* A call net/http may repeat and one with a body and a JSON-RPC id, which sign
\* payments, and one of another client, which authenticates with Cognito.
OneOfEach == c1 :> "get" @@ c2 :> "rpc" @@ c3 :> "delete"
Modes == c1 :> "x402" @@ c2 :> "x402" @@ c3 :> "cognito"
===============================================================================
