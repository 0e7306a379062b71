------------------------ MODULE AuthenticatedCallsProofs ----------------------
(***************************************************************************)
(* Proofs about API calls of a Client in Cognito mode, for any calls, any  *)
(* goroutines of the application and any token sets.                       *)
(*                                                                         *)
(* The composition implements both of its parts, so that whatever is proved*)
(* of the request pipeline and of the token cache holds of it.  What needs *)
(* both is that a token signed out stays out: SignedOutGone and BarredOf   *)
(* follow the token sets signed out through the cache and the calls, and   *)
(* JoinedOf ties a call to the GetIDToken its goroutine is in.             *)
(***************************************************************************)
EXTENDS AuthenticatedCalls, RequestPipelineProofs

\* The proofs about the cache, for the cache of the composition.
CP == INSTANCE CognitoAuthProofs WITH
    Callers <- Goroutines, pc <- at, result <- returned

\* Their assumptions are those of the composition.
LEMMA CacheAssumptions ==
    /\ CP!SentinelAssumption /\ CP!ReplyAssumption /\ CP!SavedAssumption
    /\ CP!OperationsAssumption /\ CP!FlagAssumption
BY CacheAssumption
DEF CP!SentinelAssumption, Cognito!SentinelAssumption, CP!ReplyAssumption,
    Cognito!ReplyAssumption, CP!SavedAssumption, Cognito!SavedAssumption,
    CP!OperationsAssumption, Cognito!OperationsAssumption, CP!AllOperations,
    Cognito!AllOperations, CP!FlagAssumption, Cognito!FlagAssumption

\* The cache of the composition is the cache of the proofs.
LEMMA SameCache ==
    /\ Cognito!Init <=> CP!Init
    /\ Cognito!Alive <=> CP!Alive
    /\ UNCHANGED cognitoVars <=> UNCHANGED CP!vars
BY DEF Cognito!Init, CP!Init, Cognito!Alive, CP!Alive, Cognito!LeakedReaders,
       CP!LeakedReaders, cognitoVars, CP!vars

\* So are its calls.
LEMMA SameStart ==
    ASSUME NEW g
    PROVE  /\ Cognito!CallGetIDToken(g) <=> CP!CallGetIDToken(g)
           /\ Cognito!StartCall(g) <=> CP!StartCall(g)
BY DEF Cognito!StartCall, CP!StartCall, Cognito!CallGetIDToken, CP!CallGetIDToken,
       Cognito!CallGetTokens, CP!CallGetTokens, Cognito!CallExchange, CP!CallExchange,
       Cognito!CallSignOut, CP!CallSignOut, Cognito!CallSetTokens, CP!CallSetTokens,
       Cognito!Restorable, CP!Restorable, Cognito!Enter, CP!Enter

\* And their steps.
LEMMA SameStep ==
    ASSUME NEW g
    PROVE  /\ Cognito!Proceed(g) <=> CP!Proceed(g)
           /\ Cognito!Exchange(g) <=> CP!Exchange(g)
BY DEF Cognito!Proceed, CP!Proceed, Cognito!Exchange, CP!Exchange,
       Cognito!CheckCached, CP!CheckCached, Cognito!CacheHit, CP!CacheHit,
       Cognito!Reread, CP!Reread, Cognito!GetTokens, CP!GetTokens,
       Cognito!ReceiveAnswer, CP!ReceiveAnswer, Cognito!ReplyError, CP!ReplyError,
       Cognito!Store, CP!Store, Cognito!Write, CP!Write,
       Cognito!BlockOnLock, CP!BlockOnLock, Cognito!ProviderAnswers, CP!ProviderAnswers,
       Cognito!ConnectionFails, CP!ConnectionFails, Cognito!CanRLock, CP!CanRLock,
       Cognito!CanLock, CP!CanLock, Cognito!LeakedReaders, CP!LeakedReaders,
       Cognito!Leave, CP!Leave, Cognito!Goto, CP!Goto

-------------------------------------------------------------------------------
(* The composition implements its parts.                                    *)

\* It starts as they do.
LEMMA InitParts == CallsInit => Init /\ CP!Init
BY SameCache DEF CallsInit

\* A step of a goroutine in the cache is a step of the cache.
LEMMA CacheStep ==
    ASSUME NEW g \in Goroutines, CP!Alive,
           CP!StartCall(g) \/ CP!Proceed(g) \/ CP!Exchange(g)
    PROVE  CP!Next
BY DEF CP!Next

\* Every step is one of each part, or leaves it alone.
LEMMA StepParts ==
    ASSUME [CallsNext]_callVars
    PROVE  [Next]_vars /\ [CP!Next]_CP!vars
<1>1. CASE UNCHANGED callVars
  BY <1>1, SameCache DEF callVars
<1>2. ASSUME NEW c \in Calls, CP!Alive, BeginCall(c) PROVE Next /\ [CP!Next]_CP!vars
  <2>1. Begin(c)
    BY <1>2 DEF BeginCall
  <2>2. CP!CallGetIDToken(c) \/ UNCHANGED CP!vars
    BY <1>2, SameStart, SameCache DEF BeginCall
  <2>3. c \in Goroutines
    BY DEF Goroutines
  <2>4. QED
    BY <1>2, <2>1, <2>2, <2>3, CacheStep DEF Next, CP!StartCall
<1>3. ASSUME NEW c \in Calls, CP!Alive, GetIDTokenStep(c) PROVE [Next]_vars /\ CP!Next
  <2>1. Authenticate(c) \/ UNCHANGED vars
    BY <1>3 DEF GetIDTokenStep, TokenArrives
  <2>2. CP!Proceed(c) \/ CP!Exchange(c)
    BY <1>3, SameStep DEF GetIDTokenStep
  <2>3. c \in Goroutines
    BY DEF Goroutines
  <2>4. QED
    BY <1>3, <2>1, <2>2, <2>3, CacheStep DEF Next, Proceed
<1>4. ASSUME NEW a \in Apps, CP!Alive, AppStep(a) PROVE UNCHANGED vars /\ CP!Next
  <2>1. CP!StartCall(a) \/ CP!Proceed(a) \/ CP!Exchange(a)
    BY <1>4, SameStart, SameStep DEF AppStep
  <2>2. a \in Goroutines
    BY DEF Goroutines
  <2>3. QED
    BY <1>4, <2>1, <2>2, CacheStep DEF AppStep
<1>5. ASSUME RequestStep PROVE Next /\ UNCHANGED CP!vars
  <2>1. Next
    BY <1>5 DEF RequestStep, Next, Proceed
  <2>2. QED
    BY <1>5, <2>1, SameCache DEF RequestStep
<1>6. QED
  BY <1>1, <1>2, <1>3, <1>4, <1>5, SameCache DEF CallsNext

\* An API client in cognito mode is the request pipeline over the token cache: each
\* of them goes through its own steps only, whatever the other does (client.go:263-303,
\* auth.go:39-105).
THEOREM ImplementsParts == CallsSpec => Spec /\ Cognito!Spec
<1>1. [CallsNext]_callVars => [Next]_vars /\ [Cognito!Next]_Cognito!vars
  <2>1. CP!Next => Cognito!Next
    BY SameCache, SameStart, SameStep DEF CP!Next, Cognito!Next
  <2>2. UNCHANGED CP!vars => UNCHANGED Cognito!vars
    BY DEF CP!vars, Cognito!vars
  <2>3. QED
    BY <2>1, <2>2, StepParts
<1>2. CallsInit => Init /\ Cognito!Init
  BY DEF CallsInit
<1>3. QED
  BY <1>1, <1>2, PTL DEF CallsSpec, Spec, Cognito!Spec

\* So the invariants of the parts are invariants of the composition.
LEMMA AlwaysParts == CallsSpec => [](IInv /\ CP!IInv)
<1>1. CallsSpec => Spec /\ CP!Spec
  BY InitParts, StepParts, PTL DEF CallsSpec, Spec, CP!Spec
<1>2. CP!Spec => []CP!IInv
  BY CacheAssumptions, CP!Invariance
<1>3. QED
  BY <1>1, <1>2, Invariance, PTL

\* The server sees each call as one request, with an id of its own, whichever call
\* signs in and however often the cache is cleared meanwhile (mcp.go:90).
THEOREM CallsApart == CallsSpec => []OneRequestPerCall
BY ImplementsParts, RequestsApart, PTL

\* A call whose GetIDToken failed was never sent, and the outcome of one that was
\* sent tells what the server has done with it (client.go:263-303, mcp.go:114-204).
THEOREM CallsTruthful == CallsSpec => []OutcomesAreTruthful
BY ImplementsParts, OutcomesTrue, PTL

\* A call is charged at most once whatever the goroutines of the application do to the
\* cache, and the cache is an atomic cell whatever the calls do (x402.go:50-129,
\* auth.go:39-105).
THEOREM PromisesKept == CallsSpec => ImplementsPaidCalls /\ CP!ImplementsTokenStore
<1>1. CallsSpec => Spec /\ CP!Spec
  BY InitParts, StepParts, PTL DEF CallsSpec, Spec, CP!Spec
<1>2. CP!Spec => CP!ImplementsTokenStore
  BY CacheAssumptions, CP!Refinement
<1>3. QED
  BY <1>1, <1>2, Refinement, PTL

-------------------------------------------------------------------------------
(* What is signed out stays out.                                            *)

\* Token sets that were signed out are old ones: they are not in the cache, and no
\* sign-in under way brings one back.
SignedOutGone ==
    /\ signedOut \subseteq issued \ {tokens}
    /\ \A g \in CP!InFlight : held[g] \notin signedOut

\* A call of the pipeline that asks for a token is in GetIDToken, and in no other
\* method of the cache; it has no bearer before.
JoinedOf(c) ==
    /\ pc[c] = "auth" <=> at[c] # "idle"
    /\ at[c] # "idle" => op[c] = "GetIDToken" /\ at[c] \notin {"read", "write"}
    /\ pc[c] \in {"idle", "auth"} => bearer[c] = NoTokens

\* Histories of the calls: what was signed out when a call began still is, unless it
\* was restored, and is not what the call sends.
BarredOf(c) ==
    /\ barred[c] \subseteq signedOut
    /\ bearer[c] \notin barred[c]

CallsInv ==
    /\ bearer \in [Calls -> CP!CacheValues]
    /\ barred \in [Calls -> SUBSET TokenIds]
    /\ SignedOutGone
    /\ \A c \in Calls : JoinedOf(c) /\ BarredOf(c)

\* Before any call there is nothing to keep out.
LEMMA InitCalls == CallsInit => CallsInv
BY CacheAssumptions
DEF CallsInit, Init, Cognito!Init, CallsInv, SignedOutGone, CP!InFlight, JoinedOf, BarredOf,
    CP!CacheValues, Goroutines

\* What a step of a goroutine does to the token sets: it may write a grant that was
\* under way, or as a writer what it holds; a new grant is a fresh token set.
LEMMA CacheEffect ==
    ASSUME CP!IInv, NEW g \in Goroutines, CP!StartCall(g) \/ CP!Proceed(g) \/ CP!Exchange(g)
    PROVE  /\ issued \subseteq issued'
           /\ \A d \in CP!InFlight' :
                 \/ d \in CP!InFlight /\ held'[d] = held[d]
                 \/ held'[d] \notin issued
           /\ \/ tokens' = tokens
              \/ g \in CP!InFlight /\ tokens' = held[g] /\ at[g] = "store"
              \/ tokens' = held[g] /\ at[g] = "write" /\ at'[g] = "idle"
           /\ at[g] = "write" => at'[g] = "write" \/ (at'[g] = "idle" /\ tokens' = held[g])
           /\ \A d \in Goroutines \ {g} : at'[d] = at[d] /\ op'[d] = op[d]
<1> DEFINE Effect ==
           /\ issued \subseteq issued'
           /\ \A d \in CP!InFlight' :
                 \/ d \in CP!InFlight /\ held'[d] = held[d]
                 \/ held'[d] \notin issued
           /\ \/ tokens' = tokens
              \/ g \in CP!InFlight /\ tokens' = held[g] /\ at[g] = "store"
              \/ tokens' = held[g] /\ at[g] = "write" /\ at'[g] = "idle"
           /\ at[g] = "write" => at'[g] = "write" \/ (at'[g] = "idle" /\ tokens' = held[g])
           /\ \A d \in Goroutines \ {g} : at'[d] = at[d] /\ op'[d] = op[d]
<1> USE CacheAssumptions
    DEF CP!IInv, CP!TypeOK, CP!Provenance, CP!InFlight, CP!Replies, CP!SentinelAssumption,
        CP!ReplyAssumption
<1>1. CASE CP!CallGetIDToken(g)
  BY <1>1 DEF CP!CallGetIDToken, CP!Enter
<1>2. CASE CP!CallGetTokens(g)
  BY <1>2 DEF CP!CallGetTokens, CP!Enter
<1>3. CASE CP!CallExchange(g)
  BY <1>3 DEF CP!CallExchange, CP!Enter
<1>4. CASE CP!CallSignOut(g)
  BY <1>4 DEF CP!CallSignOut, CP!Enter
<1>5. CASE CP!CallSetTokens(g)
  BY <1>5 DEF CP!CallSetTokens, CP!Enter
<1>6. CASE CP!CheckCached(g)
  BY <1>6 DEF CP!CheckCached, CP!Leave, CP!Goto
<1>7. CASE CP!Reread(g)
  BY <1>7 DEF CP!Reread, CP!Leave, CP!Goto
<1>8. CASE CP!GetTokens(g)
  BY <1>8 DEF CP!GetTokens, CP!Leave
<1>9. CASE CP!ReceiveAnswer(g)
  BY <1>9 DEF CP!ReceiveAnswer, CP!Leave, CP!Goto
<1>10. CASE CP!Store(g)
  BY <1>10 DEF CP!Store, CP!Leave, CP!Goto
<1>11. CASE CP!Write(g)
  BY <1>11 DEF CP!Write, CP!Leave
<1>12. CASE CP!BlockOnLock(g)
  BY <1>12 DEF CP!BlockOnLock
<1>13. CASE CP!ProviderAnswers(g)
  BY <1>13 DEF CP!ProviderAnswers, CP!Goto
<1>14. CASE CP!ConnectionFails(g)
  BY <1>14 DEF CP!ConnectionFails, CP!Leave
<1>15. QED
  BY <1>1, <1>2, <1>3, <1>4, <1>5, <1>6, <1>7, <1>8, <1>9, <1>10, <1>11, <1>12, <1>13, <1>14
  DEF CP!StartCall, CP!Proceed, CP!Exchange

\* A step of GetIDToken: it stays one until the call returns, and a call that returns
\* a token returns the one in the cache.
LEMMA GetIDTokenEffect ==
    ASSUME CP!IInv, NEW g \in Goroutines, op[g] = "GetIDToken",
           at[g] \notin {"idle", "read", "write"}, CP!Proceed(g) \/ CP!Exchange(g)
    PROVE  /\ at'[g] # "idle" => op'[g] = "GetIDToken" /\ at'[g] \notin {"read", "write"}
           /\ at'[g] = "idle" /\ returned'[g] = "ok" => tokens' = tokens /\ got'[g] = tokens
<1> USE DEF CP!IInv, CP!TypeOK
<1>1. CASE CP!CheckCached(g)
  BY <1>1 DEF CP!CheckCached, CP!Leave, CP!Goto
<1>2. CASE CP!Reread(g)
  BY <1>2 DEF CP!Reread, CP!Leave, CP!Goto
<1>3. CASE CP!ReceiveAnswer(g)
  BY <1>3 DEF CP!ReceiveAnswer, CP!Leave, CP!Goto, CP!ReplyError
<1>4. CASE CP!Store(g)
  BY <1>4 DEF CP!Store, CP!Leave, CP!Goto
<1>5. CASE CP!BlockOnLock(g)
  BY <1>5 DEF CP!BlockOnLock
<1>6. CASE CP!ProviderAnswers(g)
  BY <1>6 DEF CP!ProviderAnswers, CP!Goto
<1>7. CASE CP!ConnectionFails(g)
  BY <1>7 DEF CP!ConnectionFails, CP!Leave
<1>8. QED
  BY <1>1, <1>2, <1>3, <1>4, <1>5, <1>6, <1>7
  DEF CP!Proceed, CP!Exchange, CP!GetTokens, CP!Write

\* A step of the cache that leaves the histories alone keeps what is signed out
\* gone, if it is not one of SignOut or SetTokens.
LEMMA GoneStays ==
    ASSUME CP!IInv, CallsInv, NEW g \in Goroutines,
           CP!StartCall(g) \/ CP!Proceed(g) \/ CP!Exchange(g),
           at[g] # "write" \/ at'[g] = "write", UNCHANGED signedOut
    PROVE  SignedOutGone'
<1>1. /\ issued \subseteq issued'
      /\ \A d \in CP!InFlight' :
            \/ d \in CP!InFlight /\ held'[d] = held[d]
            \/ held'[d] \notin issued
      /\ tokens' = tokens \/ (g \in CP!InFlight /\ tokens' = held[g])
  BY CacheEffect
<1>2. signedOut' \subseteq issued' \ {tokens'}
  BY <1>1 DEF CallsInv, SignedOutGone
<1>3. ASSUME NEW d \in CP!InFlight' PROVE held'[d] \notin signedOut'
  BY <1>1, <1>3 DEF CallsInv, SignedOutGone
<1>4. QED
  BY <1>2, <1>3 DEF SignedOutGone

\* A call that begins keeps it.
LEMMA BeginCalls ==
    ASSUME IInv, CP!IInv, CallsInv, NEW c \in Calls, BeginCall(c)
    PROVE  CallsInv'
<1>1. c \in Goroutines
  BY DEF Goroutines
<1>2. pc[c] = "idle" /\ at[c] = "idle" /\ bearer[c] = NoTokens
  BY DEF BeginCall, Begin, CallsInv, JoinedOf
<1>3. bearer' = bearer /\ signedOut' = signedOut /\ barred' = [barred EXCEPT ![c] = signedOut]
  BY DEF BeginCall
<1>4. /\ pc' \in [Calls -> Locations] /\ pc'[c] \in {"auth", "first", "done"}
      /\ \A d \in Calls \ {c} : pc'[d] = pc[d]
  BY DEF IInv, TypeOK, BeginCall, Begin, Send, Return, Locations
<1>5. IF pc'[c] = "auth" THEN CP!CallGetIDToken(c) ELSE UNCHANGED cognitoVars
  BY SameStart DEF BeginCall
<1>6. NoTokens \notin signedOut /\ signedOut \subseteq TokenIds
  BY CacheAssumptions DEF CP!IInv, CP!TypeOK, CallsInv, SignedOutGone, CP!SentinelAssumption
<1>7. SignedOutGone'
  <2>1. CASE pc'[c] = "auth"
    BY <1>1, <1>2, <1>3, <1>5, <2>1, GoneStays DEF CP!StartCall
  <2>2. CASE pc'[c] # "auth"
    BY <1>3, <1>5, <2>2 DEF CallsInv, SignedOutGone, CP!InFlight, cognitoVars
  <2>3. QED
    BY <2>1, <2>2
<1>8. ASSUME NEW d \in Calls PROVE JoinedOf(d)'
  <2>1. CASE pc'[c] = "auth"
    <3>1. at' = [at EXCEPT ![c] = "check"] /\ op' = [op EXCEPT ![c] = "GetIDToken"]
      BY <1>5, <2>1 DEF CP!CallGetIDToken, CP!Enter
    <3>2. at \in [Goroutines -> CP!Locations] /\ op \in [Goroutines -> Operations \cup {"none"}]
          /\ d \in Goroutines
      BY DEF CP!IInv, CP!TypeOK, Goroutines
    <3>3. QED
      BY <1>2, <1>3, <1>4, <2>1, <3>1, <3>2 DEF CallsInv, JoinedOf
  <2>2. CASE pc'[c] # "auth"
    BY <1>2, <1>3, <1>4, <1>5, <2>2 DEF CallsInv, JoinedOf, cognitoVars
  <2>3. QED
    BY <2>1, <2>2
<1>9. ASSUME NEW d \in Calls PROVE BarredOf(d)'
  BY <1>2, <1>3, <1>6 DEF CallsInv, BarredOf
<1>10. QED
  BY <1>3, <1>6, <1>7, <1>8, <1>9 DEF CallsInv

\* A step of a call in GetIDToken keeps it: the token it returns is in the cache, so
\* it is not signed out.
LEMMA GetIDTokenCalls ==
    ASSUME IInv, CP!IInv, CallsInv, NEW c \in Calls, GetIDTokenStep(c)
    PROVE  CallsInv'
<1>1. c \in Goroutines /\ pc[c] = "auth"
  BY DEF Goroutines, GetIDTokenStep
<1>2. at[c] # "idle" /\ op[c] = "GetIDToken" /\ at[c] \notin {"read", "write"}
  BY <1>1 DEF CallsInv, JoinedOf
<1>3. CP!Proceed(c) \/ CP!Exchange(c)
  BY SameStep DEF GetIDTokenStep
<1>4. /\ at'[c] # "idle" => op'[c] = "GetIDToken" /\ at'[c] \notin {"read", "write"}
      /\ at'[c] = "idle" /\ returned'[c] = "ok" => tokens' = tokens /\ got'[c] = tokens
  BY <1>1, <1>2, <1>3, GetIDTokenEffect
<1>5. \A d \in Goroutines \ {c} : at'[d] = at[d] /\ op'[d] = op[d]
  BY <1>1, <1>3, CacheEffect
<1>6. UNCHANGED <<signedOut, barred>>
  BY DEF GetIDTokenStep
<1>7. SignedOutGone'
  BY <1>1, <1>2, <1>3, <1>6, GoneStays
<1>8. CASE at'[c] # "idle"
  <2>1. UNCHANGED <<vars, bearer>>
    BY <1>8 DEF GetIDTokenStep
  <2>2. pc' = pc
    BY <2>1 DEF vars
  <2>3. ASSUME NEW d \in Calls PROVE JoinedOf(d)'
    <3>1. CASE d = c
      BY <1>1, <1>4, <1>8, <2>1, <2>2, <3>1 DEF CallsInv, JoinedOf
    <3>2. CASE d # c
      BY <1>5, <2>1, <2>2, <3>2 DEF CallsInv, JoinedOf, Goroutines
    <3>3. QED
      BY <3>1, <3>2
  <2>4. \A d \in Calls : BarredOf(d)'
    BY <1>6, <2>1 DEF CallsInv, BarredOf
  <2>5. QED
    BY <1>6, <1>7, <2>1, <2>3, <2>4 DEF CallsInv
<1>9. CASE at'[c] = "idle"
  <2>1. TokenArrives(c)
    BY <1>9 DEF GetIDTokenStep
  <2>2. pc'[c] \in {"first", "done"} /\ \A d \in Calls \ {c} : pc'[d] = pc[d]
    BY <2>1 DEF IInv, TypeOK, TokenArrives, Authenticate, Send, Return
  <2>3. bearer' = bearer \/ (bearer' = [bearer EXCEPT ![c] = tokens] /\ tokens' = tokens)
    BY <1>4, <1>9, <2>1 DEF TokenArrives
  <2>4. tokens \in CP!CacheValues /\ tokens \notin signedOut
    BY DEF CP!IInv, CP!TypeOK, CallsInv, SignedOutGone
  <2>5. ASSUME NEW d \in Calls PROVE JoinedOf(d)'
    <3>1. CASE d = c
      BY <1>9, <2>2, <3>1 DEF JoinedOf
    <3>2. CASE d # c
      BY <1>5, <2>2, <2>3, <3>2 DEF CallsInv, JoinedOf, Goroutines
    <3>3. QED
      BY <3>1, <3>2
  <2>6. ASSUME NEW d \in Calls PROVE BarredOf(d)'
    BY <1>6, <2>3, <2>4 DEF CallsInv, BarredOf
  <2>7. bearer' \in [Calls -> CP!CacheValues]
    BY <2>3, <2>4 DEF CallsInv
  <2>8. QED
    BY <1>6, <1>7, <2>5, <2>6, <2>7 DEF CallsInv
<1>10. QED
  BY <1>8, <1>9

\* A step of the application keeps it: SignOut removes what is in the cache, which no
\* exchange carries, and SetTokens restores what it names.
LEMMA AppCalls ==
    ASSUME IInv, CP!IInv, CallsInv, NEW a \in Apps, AppStep(a)
    PROVE  CallsInv'
<1>1. a \in Goroutines /\ a \notin Calls
  BY CognitoModeAssumption DEF Goroutines
<1>2. CP!StartCall(a) \/ CP!Proceed(a) \/ CP!Exchange(a)
  BY SameStart, SameStep DEF AppStep
<1>3. /\ signedOut' = SignedOut(a)
      /\ barred' = [c \in Calls |-> IF op[a] = "SetTokens" THEN barred[c] \ {tokens'}
                                    ELSE barred[c]]
      /\ UNCHANGED <<vars, bearer>>
  BY DEF AppStep
<1>4. \A d \in Goroutines \ {a} : at'[d] = at[d] /\ op'[d] = op[d]
  BY <1>1, <1>2, CacheEffect
<1>5. barred' \in [Calls -> SUBSET TokenIds] /\ bearer' \in [Calls -> CP!CacheValues]
  BY <1>3 DEF CallsInv
<1>6. \A c \in Calls : JoinedOf(c)'
  BY <1>1, <1>3, <1>4 DEF CallsInv, JoinedOf, Goroutines, vars
<1>7. \A c \in Calls : barred'[c] \subseteq barred[c] /\ bearer'[c] = bearer[c]
  BY <1>3
<1>8. CASE at[a] # "write" \/ at'[a] = "write"
  <2>1. signedOut' = signedOut
    BY <1>3, <1>8 DEF SignedOut
  <2>2. SignedOutGone'
    BY <1>1, <1>2, <1>8, <2>1, GoneStays
  <2>3. \A c \in Calls : BarredOf(c)'
    BY <1>7, <2>1 DEF CallsInv, BarredOf
  <2>4. QED
    BY <1>5, <1>6, <2>2, <2>3 DEF CallsInv
<1>9. CASE at[a] = "write" /\ at'[a] # "write"
  <2>1. /\ tokens' = held[a] /\ issued \subseteq issued'
        /\ \A d \in CP!InFlight' :
              \/ d \in CP!InFlight /\ held'[d] = held[d]
              \/ held'[d] \notin issued
    BY <1>1, <1>2, <1>9, CacheEffect
  <2>2. op[a] = "SetTokens" \/ (op[a] = "SignOut" /\ held[a] = NoTokens)
    BY <1>1, <1>9 DEF CP!IInv, CP!Writers
  <2>3. signedOut' = IF op[a] = "SignOut" THEN signedOut \cup ({tokens} \cap TokenIds)
                     ELSE signedOut \ {tokens'}
    BY <1>3, <1>9 DEF SignedOut
  <2>4. \A d \in CP!InFlight : held[d] # tokens
    BY DEF CP!IInv, CP!Unseen
  <2>5. {tokens} \cap TokenIds \subseteq issued /\ NoTokens \notin TokenIds
    BY CacheAssumptions
    DEF CP!IInv, CP!Provenance, CP!Known, CP!SentinelAssumption
  <2>6. signedOut \subseteq issued \ {tokens} /\ issued \subseteq TokenIds
    BY DEF CallsInv, SignedOutGone, CP!IInv, CP!TypeOK
  <2>7. signedOut' \subseteq issued' \ {tokens'}
    BY <2>1, <2>2, <2>3, <2>5, <2>6
  <2>8. ASSUME NEW d \in CP!InFlight' PROVE held'[d] \notin signedOut'
    <3>1. signedOut' \subseteq issued /\ signedOut' \subseteq signedOut \cup {tokens}
      BY <2>3, <2>5, <2>6
    <3>2. CASE d \in CP!InFlight /\ held'[d] = held[d]
      BY <2>4, <3>1, <3>2 DEF CallsInv, SignedOutGone
    <3>3. CASE held'[d] \notin issued
      BY <3>1, <3>3
    <3>4. QED
      BY <2>1, <2>8, <3>2, <3>3
  <2>9. \A c \in Calls : BarredOf(c)'
    BY <1>3, <2>2, <2>3 DEF CallsInv, BarredOf
  <2>10. QED
    BY <1>5, <1>6, <2>7, <2>8, <2>9 DEF CallsInv, SignedOutGone
<1>10. QED
  BY <1>8, <1>9

\* The exchange with the API server keeps it.
LEMMA RequestCalls ==
    ASSUME IInv, CP!IInv, CallsInv, RequestStep
    PROVE  CallsInv'
<1>1. UNCHANGED <<cognitoVars, bearer, signedOut, barred>>
  BY DEF RequestStep
<1>2. \A c \in Calls : pc'[c] = pc[c] \/ (pc[c] # "auth" /\ pc'[c] \notin {"idle", "auth"})
  <2>1. ASSUME NEW d \in Calls, ReceiveFirst(d) \/ ConnectionFails(d) \/ Resend(d)
        PROVE  /\ pc[d] \in {"first", "paid"} /\ pc'[d] \in {"first", "paid", "sign", "done"}
               /\ \A c \in Calls \ {d} : pc'[c] = pc[c]
    BY <2>1 DEF IInv, TypeOK, ReceiveFirst, ConnectionFails, Resend, Finish, Send, Return
  <2>2. ASSUME NEW m \in wire, ServerHandles(m) PROVE pc' = pc
    BY <2>2 DEF ServerHandles, client
  <2>3. QED
    BY <2>1, <2>2 DEF RequestStep
<1>3. SignedOutGone'
  BY <1>1 DEF CallsInv, SignedOutGone, CP!InFlight, cognitoVars
<1>4. \A c \in Calls : JoinedOf(c)' /\ BarredOf(c)'
  BY <1>1, <1>2 DEF CallsInv, JoinedOf, BarredOf, cognitoVars
<1>5. QED
  BY <1>1, <1>3, <1>4 DEF CallsInv

\* It is inductive, given the invariants of the parts.
LEMMA CallsStep ==
    ASSUME IInv, CP!IInv, CallsInv, [CallsNext]_callVars
    PROVE  CallsInv'
<1>1. CASE UNCHANGED callVars
  BY <1>1
  DEF CallsInv, SignedOutGone, CP!InFlight, JoinedOf, BarredOf, callVars, vars, cognitoVars
<1>2. QED
  BY <1>1, BeginCalls, GetIDTokenCalls, AppCalls, RequestCalls DEF CallsNext

\* For any calls, any goroutines of the application and any interleaving of their
\* sign-ins, sign-outs and restores: a token that SignOut has removed is sent by no
\* call that begins afterwards, unless it was restored (auth.go:40-79,
\* client.go:269-273).
THEOREM SignedOutIsOut == CallsSpec => []SignedOutTokensStayOut
<1>1. IInv /\ CP!IInv /\ CallsInv /\ [CallsNext]_callVars => CallsInv'
  BY CallsStep
<1>2. CallsInv => SignedOutTokensStayOut
  BY DEF CallsInv, BarredOf, SignedOutTokensStayOut
<1>3. QED
  BY <1>1, <1>2, InitCalls, AlwaysParts, PTL DEF CallsSpec
===============================================================================
