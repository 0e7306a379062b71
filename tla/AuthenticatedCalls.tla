-------------------------- MODULE AuthenticatedCalls --------------------------
(***************************************************************************)
(* API calls of a Client in Cognito mode (client.go, mcp.go) over its token*)
(* cache (auth.go), while the application signs in and out.                *)
(*                                                                         *)
(* A call is the RequestPipeline up to GetIDToken, the CognitoAuth call its*)
(* goroutine then makes, and the RequestPipeline again from what GetIDToken*)
(* returned: the last step of GetIDToken and the request that carries its  *)
(* token are one step, for nothing in between is shared.                   *)
(***************************************************************************)
EXTENDS RequestPipeline

CONSTANTS
    Apps,             \* goroutines of the application that use client.Auth
    TokenIds, Saved, Operations, HasCredentials, PanicsRecovered, NoTokens,
    Blank             \* as in CognitoAuth

ASSUME CognitoModeAssumption ==
    AuthMode = [c \in Calls |-> "cognito"] /\ Apps \cap Calls = {}

VARIABLES
    at,               \* CognitoAuth's pc
    returned,         \* its result
    tokens, op, held, got, waiting, issued, clearedSince, installed,
                      \* as in CognitoAuth
    bearer,           \* the token in the Authorization header of each call
    signedOut,        \* history: token sets a SignOut has removed
    barred            \* history: those already removed when the call began

cognitoVars == <<tokens, at, op, held, got, returned, waiting, issued,
                 clearedSince, installed>>

callVars == <<vars, cognitoVars, bearer, signedOut, barred>>

Goroutines == Calls \cup Apps

Cognito == INSTANCE CognitoAuth WITH
    Callers <- Goroutines, pc <- at, result <- returned

\* What CognitoAuth assumes of the constants it shares.
ASSUME CacheAssumption ==
    /\ Cognito!SentinelAssumption /\ Cognito!ReplyAssumption
    /\ Cognito!SavedAssumption /\ Cognito!OperationsAssumption /\ Cognito!FlagAssumption

-------------------------------------------------------------------------------

CallsInit ==
    /\ Init
    /\ Cognito!Init
    /\ bearer = [c \in Calls |-> NoTokens]
    /\ signedOut = {}
    /\ barred = [c \in Calls |-> {}]

\* do and rpc up to GetIDToken.
BeginCall(c) ==
    /\ Begin(c)
    /\ IF pc'[c] = "auth"
       THEN Cognito!CallGetIDToken(c)
       ELSE UNCHANGED cognitoVars
    /\ barred' = [barred EXCEPT ![c] = signedOut]
    /\ UNCHANGED <<bearer, signedOut>>

\* What the call makes of what GetIDToken returned: "Bearer " and the token, or
\* the error as it is.
TokenArrives(c) ==
    /\ Authenticate(c)
    /\ IF returned'[c] = "ok"
       THEN /\ pc'[c] = "first"
            /\ bearer' = [bearer EXCEPT ![c] = got'[c]]
       ELSE /\ pc'[c] = "done"
            /\ result'[c] =
                  IF returned'[c] = "error" THEN "token_failed" ELSE "auth_error"
            /\ UNCHANGED bearer

GetIDTokenStep(c) ==
    /\ pc[c] = "auth"
    /\ Cognito!Proceed(c) \/ Cognito!Exchange(c)
    /\ IF at'[c] = "idle" THEN TokenArrives(c) ELSE UNCHANGED <<vars, bearer>>
    /\ UNCHANGED <<signedOut, barred>>

\* A token set counts as signed out until the application restores it.
SignedOut(a) ==
    IF at[a] # "write" \/ at'[a] = "write" THEN signedOut
    ELSE IF op[a] = "SignOut" THEN signedOut \cup ({tokens} \cap TokenIds)
    ELSE signedOut \ {tokens'}

AppStep(a) ==
    /\ Cognito!StartCall(a) \/ Cognito!Proceed(a) \/ Cognito!Exchange(a)
    /\ signedOut' = SignedOut(a)
    /\ barred' = [c \in Calls |-> IF op[a] = "SetTokens" THEN barred[c] \ {tokens'}
                                  ELSE barred[c]]
    /\ UNCHANGED <<vars, bearer>>

\* The exchange with the API server.
RequestStep ==
    /\ \/ \E c \in Calls :
             \/ ReceiveFirst(c)
             \/ ConnectionFails(c)
             \/ Resend(c)
       \/ \E m \in wire : ServerHandles(m)
    /\ UNCHANGED <<cognitoVars, bearer, signedOut, barred>>

CallsNext ==
    /\ Cognito!Alive
    /\ \/ \E c \in Calls : BeginCall(c) \/ GetIDTokenStep(c)
       \/ \E a \in Apps : AppStep(a)
       \/ RequestStep

CallsSpec == CallsInit /\ [][CallsNext]_callVars

-------------------------------------------------------------------------------
(* Properties.                                                              *)

\* A token that SignOut has removed is sent by no call that begins afterwards,
\* unless the application restores it: neither a sign-in that was under way nor
\* a concurrent call brings it back (auth.go:40-58, 68-79, client.go:269-273).
SignedOutTokensStayOut == \A c \in Calls : bearer[c] \notin barred[c]
===============================================================================
