----------------------------- MODULE CognitoAuth ------------------------------
(***************************************************************************)
(* The Cognito token cache of auth.go: one *CognitoAuth shared by the      *)
(* goroutines that issue API requests (Client.do and MCPService.rpc both   *)
(* call GetIDToken) and by the application (SignIn, SignOut, SetTokens,    *)
(* GetTokens, RespondToMFA).                                               *)
(*                                                                         *)
(* Every method holds a.mu only around one read or one write of a.tokens,  *)
(* so each of those is one step; the HTTP exchange with Cognito happens    *)
(* between them with no lock held.  The one lock that can stay held is the *)
(* read lock of GetIDToken's second read: `a.tokens.IDToken' (auth.go:54)  *)
(* dereferences a nil pointer when the cache was cleared meanwhile, and    *)
(* the panic leaves the function before a.mu.RUnlock().                    *)
(*                                                                         *)
(* A token set is abstracted to its identity: an element of TokenIds, Blank*)
(* (IDToken = "") or NoTokens (the nil pointer).                           *)
(***************************************************************************)
CONSTANTS
    Callers,          \* goroutines that share the CognitoAuth
    TokenIds,         \* token sets the provider can grant: bounds the grants
    Saved,            \* token sets an earlier process persisted
    Operations,       \* the methods the callers use
    HasCredentials,   \* WithCognito got both an email and a password
    PanicsRecovered,  \* external: a panic is recovered above the SDK, as
                      \* net/http does for a request handler
    NoTokens,
    Blank

AllOperations ==
    {"GetIDToken", "SignIn", "RespondToMFA", "SignOut", "SetTokens", "GetTokens"}

ASSUME SentinelAssumption ==
    /\ NoTokens \notin TokenIds
    /\ Blank \notin TokenIds
    /\ NoTokens # Blank

ASSUME ReplyAssumption ==
    TokenIds \cap {"challenge", "refused", "garbled"} = {}

ASSUME SavedAssumption == Saved \subseteq TokenIds

ASSUME OperationsAssumption == Operations \subseteq AllOperations

ASSUME FlagAssumption ==
    HasCredentials \in BOOLEAN /\ PanicsRecovered \in BOOLEAN

VARIABLES
    tokens,        \* a.tokens
    pc,            \* where each caller is in its current call
    op,            \* the method it is in
    held,          \* the call's local value: reply of the provider, or argument
    got,           \* the token each caller was last handed
    result,        \* how its last call ended
    waiting,       \* writers queued in a.mu.Lock(), which keep readers out
    issued,        \* external: every token set ever granted
    clearedSince,  \* history: the cache was cleared since the caller's request
                   \* (before its write) or since its write (after it)
    installed      \* history: callers whose GetIDToken has written the cache
                   \* since it was last emptied

vars == <<tokens, pc, op, held, got, result, waiting, issued, clearedSince, installed>>

-------------------------------------------------------------------------------

CacheValues == TokenIds \cup {NoTokens, Blank}

\* Replies of cognitoRequest that carry no token set: an MFA challenge, a
\* reply answered with *AuthError (status >= 400, no AuthenticationResult or no
\* IdToken), and a body that is not JSON.
Replies == TokenIds \cup {"challenge", "refused", "garbled"}

Locations == {"idle", "check", "request", "answered", "store", "reread",
              "read", "write", "panicked"}

Results == {"none", "ok", "mfa_required", "auth_error", "error"}

TypeOK ==
    /\ tokens \in CacheValues
    /\ pc \in [Callers -> Locations]
    /\ op \in [Callers -> Operations \cup {"none"}]
    /\ held \in [Callers -> CacheValues \cup Replies]
    /\ got \in [Callers -> CacheValues]
    /\ result \in [Callers -> Results]
    /\ waiting \subseteq Callers
    /\ issued \subseteq TokenIds
    /\ clearedSince \in [Callers -> BOOLEAN]
    /\ installed \subseteq Callers

Init ==
    /\ tokens = NoTokens
    /\ pc = [c \in Callers |-> "idle"]
    /\ op = [c \in Callers |-> "none"]
    /\ held = [c \in Callers |-> NoTokens]
    /\ got = [c \in Callers |-> NoTokens]
    /\ result = [c \in Callers |-> "none"]
    /\ waiting = {}
    /\ issued = Saved
    /\ clearedSince = [c \in Callers |-> FALSE]
    /\ installed = {}

-------------------------------------------------------------------------------
(* a.mu.  A caller that panicked at the second read never releases it.      *)

LeakedReaders == {c \in Callers : pc[c] = "panicked"}

CanRLock == waiting = {}
CanLock == LeakedReaders = {}

\* An unrecovered panic ends the process.
Alive == PanicsRecovered \/ LeakedReaders = {}

-------------------------------------------------------------------------------
(* Entering and leaving a call.                                             *)

Enter(c, method, location, value) ==
    /\ pc[c] = "idle"
    /\ method \in Operations
    /\ pc' = [pc EXCEPT ![c] = location]
    /\ op' = [op EXCEPT ![c] = method]
    /\ held' = [held EXCEPT ![c] = value]

Leave(c, outcome) ==
    /\ pc' = [pc EXCEPT ![c] = "idle"]
    /\ op' = [op EXCEPT ![c] = "none"]
    /\ held' = [held EXCEPT ![c] = NoTokens]
    /\ result' = [result EXCEPT ![c] = outcome]

Goto(c, location) == pc' = [pc EXCEPT ![c] = location]

CallGetIDToken(c) ==
    /\ Enter(c, "GetIDToken", "check", NoTokens)
    /\ UNCHANGED <<tokens, got, result, waiting, issued, clearedSince, installed>>

CallGetTokens(c) ==
    /\ Enter(c, "GetTokens", "read", NoTokens)
    /\ UNCHANGED <<tokens, got, result, waiting, issued, clearedSince, installed>>

\* SignIn and RespondToMFA go straight to the provider.
CallExchange(c) ==
    /\ \E method \in {"SignIn", "RespondToMFA"} :
           Enter(c, method, "request", NoTokens)
    /\ clearedSince' = [clearedSince EXCEPT ![c] = FALSE]
    /\ UNCHANGED <<tokens, got, result, waiting, issued, installed>>

CallSignOut(c) ==
    /\ Enter(c, "SignOut", "write", NoTokens)
    /\ UNCHANGED <<tokens, got, result, waiting, issued, clearedSince, installed>>

\* Token sets the application can hand to SetTokens: nil, an empty one, one
\* that it persisted earlier or one it was handed by this CognitoAuth.
Restorable == {NoTokens, Blank} \cup Saved \cup {got[d] : d \in Callers}

CallSetTokens(c) ==
    /\ \E t \in Restorable : Enter(c, "SetTokens", "write", t)
    /\ UNCHANGED <<tokens, got, result, waiting, issued, clearedSince, installed>>

-------------------------------------------------------------------------------
(* GetIDToken: the cached token, or a sign-in and a second read.            *)

MutCacheHit == FALSE
CacheHit == tokens \notin {NoTokens, Blank}

\* A caller that finds the cache empty puts back the token set it was last handed.
MutCheckCached(c) ==
    /\ pc[c] = "check"
    /\ CanRLock
    /\ LET fallback == IF CacheHit THEN tokens ELSE got[c] IN
       \/ /\ fallback \notin {NoTokens, Blank}
          /\ tokens' = fallback
          /\ got' = [got EXCEPT ![c] = fallback]
          /\ Leave(c, "ok")
          /\ UNCHANGED clearedSince
       \/ /\ fallback \in {NoTokens, Blank}
          /\ HasCredentials
          /\ Goto(c, "request")
          /\ clearedSince' = [clearedSince EXCEPT ![c] = FALSE]
          /\ UNCHANGED <<tokens, op, held, got, result>>
       \/ /\ fallback \in {NoTokens, Blank}
          /\ ~HasCredentials
          /\ Leave(c, "auth_error")
          /\ UNCHANGED <<tokens, got, clearedSince>>
    /\ UNCHANGED <<waiting, issued, installed>>

CheckCached(c) ==
    /\ pc[c] = "check"
    /\ CanRLock
    /\ \/ /\ CacheHit
          /\ got' = [got EXCEPT ![c] = tokens]
          /\ Leave(c, "ok")
          /\ UNCHANGED clearedSince
       \/ /\ ~CacheHit
          /\ HasCredentials
          /\ Goto(c, "request")
          /\ clearedSince' = [clearedSince EXCEPT ![c] = FALSE]
          /\ UNCHANGED <<op, held, got, result>>
       \/ /\ ~CacheHit
          /\ ~HasCredentials
          /\ Leave(c, "auth_error")
          /\ UNCHANGED <<got, clearedSince>>
    /\ UNCHANGED <<tokens, waiting, issued, installed>>

\* A "fixed" second read that trusts the caller's own reply.
MutReread(c) ==
    /\ pc[c] = "reread"
    /\ CanRLock
    /\ got' = [got EXCEPT ![c] = held[c]]
    /\ Leave(c, "ok")
    /\ UNCHANGED <<tokens, waiting, issued, clearedSince, installed>>

Reread(c) ==
    /\ pc[c] = "reread"
    /\ CanRLock
    /\ \/ /\ tokens # NoTokens
          /\ got' = [got EXCEPT ![c] = tokens]
          /\ Leave(c, "ok")
       \/ /\ tokens = NoTokens
          /\ Goto(c, "panicked")
          /\ UNCHANGED <<op, held, got, result>>
    /\ UNCHANGED <<tokens, waiting, issued, clearedSince, installed>>

GetTokens(c) ==
    /\ pc[c] = "read"
    /\ CanRLock
    /\ got' = [got EXCEPT ![c] = tokens]
    /\ Leave(c, "ok")
    /\ UNCHANGED <<tokens, waiting, issued, clearedSince, installed>>

-------------------------------------------------------------------------------
(* The HTTP exchange with the provider (cognitoRequest).                    *)

\* External: the provider grants a fresh token set to the right password or MFA
\* code, asks a password sign-in for a second factor, or refuses.
ProviderAnswers(c) ==
    /\ pc[c] = "request"
    /\ \/ \E t \in TokenIds \ issued :
              /\ op[c] = "RespondToMFA" \/ HasCredentials
              /\ issued' = issued \cup {t}
              /\ held' = [held EXCEPT ![c] = t]
       \/ /\ op[c] # "RespondToMFA"
          /\ HasCredentials
          /\ held' = [held EXCEPT ![c] = "challenge"]
          /\ UNCHANGED issued
       \/ \E r \in {"refused", "garbled"} :
              /\ held' = [held EXCEPT ![c] = r]
              /\ UNCHANGED issued
    /\ Goto(c, "answered")
    /\ UNCHANGED <<tokens, op, got, result, waiting, clearedSince, installed>>

\* The request is never sent or its answer never read: a bad URL, a cancelled
\* context, a connection that breaks before or after the provider acted.
ConnectionFails(c) ==
    /\ pc[c] \in {"request", "answered"}
    /\ Leave(c, "error")
    /\ UNCHANGED <<tokens, got, waiting, issued, clearedSince,
                   installed>>

MutReplyError(r) == IF r = "garbled" THEN "error" ELSE r
ReplyError(r) ==
    IF r = "challenge" THEN "mfa_required"
    ELSE IF r = "refused" THEN "auth_error"
    ELSE "error"

\* Asking again for as long as the provider refuses.
MutReceiveAnswer(c) ==
    /\ pc[c] = "answered"
    /\ \/ /\ held[c] \in TokenIds
          /\ Goto(c, "store")
          /\ UNCHANGED <<op, held, result>>
       \/ /\ held[c] = "refused"
          /\ Goto(c, "request")
          /\ UNCHANGED <<op, held, result>>
       \/ /\ held[c] \notin TokenIds \cup {"refused"}
          /\ Leave(c, ReplyError(held[c]))
    /\ UNCHANGED <<tokens, got, waiting, issued, clearedSince, installed>>

ReceiveAnswer(c) ==
    /\ pc[c] = "answered"
    /\ \/ /\ held[c] \in TokenIds
          /\ Goto(c, "store")
          /\ UNCHANGED <<op, held, result>>
       \/ /\ held[c] \notin TokenIds
          /\ Leave(c, ReplyError(held[c]))
    /\ UNCHANGED <<tokens, got, waiting, issued, clearedSince,
                   installed>>

-------------------------------------------------------------------------------
(* Writing a.tokens.                                                        *)

\* Reporting success without having kept the token set.
MutStore(c) ==
    /\ pc[c] = "store"
    /\ CanLock
    /\ \/ /\ op[c] = "GetIDToken"
          /\ Goto(c, "reread")
          /\ installed' = installed \cup {c}
          /\ UNCHANGED <<op, held, result>>
       \/ /\ op[c] # "GetIDToken"
          /\ Leave(c, "ok")
          /\ UNCHANGED installed
    /\ clearedSince' = [clearedSince EXCEPT ![c] = FALSE]
    /\ waiting' = waiting \ {c}
    /\ UNCHANGED <<tokens, got, issued>>

Store(c) ==
    /\ pc[c] = "store"
    /\ CanLock
    /\ tokens' = held[c]
    /\ \/ /\ op[c] = "GetIDToken"
          /\ Goto(c, "reread")
          /\ installed' = installed \cup {c}
          /\ UNCHANGED <<op, held, result>>
       \/ /\ op[c] # "GetIDToken"
          /\ Leave(c, "ok")
          /\ UNCHANGED installed
    /\ clearedSince' = [clearedSince EXCEPT ![c] = FALSE]
    /\ waiting' = waiting \ {c}
    /\ UNCHANGED <<got, issued>>

\* SignOut leaves the cache as it is.
MutWrite(c) ==
    /\ pc[c] = "write"
    /\ CanLock
    /\ tokens' = IF op[c] = "SignOut" THEN tokens ELSE held[c]
    /\ Leave(c, "ok")
    /\ waiting' = waiting \ {c}
    /\ UNCHANGED <<got, issued, clearedSince, installed>>

\* SignOut (nil) and SetTokens (the argument).
Write(c) ==
    /\ pc[c] = "write"
    /\ CanLock
    /\ tokens' = held[c]
    /\ clearedSince' = IF held[c] = NoTokens
                       THEN [d \in Callers |-> TRUE]
                       ELSE clearedSince
    /\ installed' = IF held[c] \in {NoTokens, Blank} THEN {} ELSE installed
    /\ Leave(c, "ok")
    /\ waiting' = waiting \ {c}
    /\ UNCHANGED <<got, issued>>

\* A writer that finds the lock held announces itself and waits; from then on
\* sync.RWMutex admits no new reader.
BlockOnLock(c) ==
    /\ pc[c] \in {"store", "write"}
    /\ ~CanLock
    /\ c \notin waiting
    /\ waiting' = waiting \cup {c}
    /\ UNCHANGED <<tokens, pc, op, held, got, result, issued, clearedSince, installed>>

-------------------------------------------------------------------------------

StartCall(c) ==
    \/ CallGetIDToken(c)
    \/ CallGetTokens(c)
    \/ CallExchange(c)
    \/ CallSignOut(c)
    \/ CallSetTokens(c)

Proceed(c) ==
    \/ CheckCached(c)
    \/ Reread(c)
    \/ GetTokens(c)
    \/ ReceiveAnswer(c)
    \/ Store(c)
    \/ Write(c)
    \/ BlockOnLock(c)

Exchange(c) ==
    \/ ProviderAnswers(c)
    \/ ConnectionFails(c)

Next ==
    /\ Alive
    /\ \E c \in Callers : StartCall(c) \/ Proceed(c) \/ Exchange(c)

Spec == Init /\ [][Next]_vars

\* The Go scheduler runs every goroutine that can run.  An HTTP exchange ends,
\* with an answer or an error: that is the deadline of the caller's context (the
\* SDK sets none of its own, so the liveness results assume the caller does).
\* Nothing makes the application start a call.
Fairness ==
    \A c \in Callers :
        /\ WF_vars(Alive /\ Proceed(c))
        /\ WF_vars(Alive /\ Exchange(c))

FairSpec == Spec /\ Fairness

-------------------------------------------------------------------------------
(* Properties.                                                              *)

\* GetIDToken's nil dereference (auth.go:54) has one cause only: somebody
\* cleared the cache, by SignOut or SetTokens(nil), between this caller's own
\* write of the token set and its second read.  No failed, challenged, slow or
\* concurrent sign-in can bring it about.
PanicOnlyIfCleared ==
    \A c \in Callers : pc[c] = "panicked" => clearedSince[c]

\* "Performs sign-in on first call" (auth.go:38), as far as it goes for
\* concurrent first calls: until the cache is emptied, no caller whose GetIDToken
\* has signed in once ever goes to the provider from GetIDToken again, whatever
\* the sign-ins and the SetTokens of the others do.
SignsInAtMostOnce ==
    \A c \in installed :
        op[c] = "GetIDToken" => pc[c] \notin {"request", "answered", "store"}

\* Token sets granted by the provider that are still on their way to the cache.
InFlight == {c \in Callers : pc[c] \in {"answered", "store"} /\ held[c] \in TokenIds}

\* The arguments of SignOut (nil) and SetTokens on their way to the cache.
Writing == {c \in Callers : pc[c] = "write"}
Arguments == {<<c, held[c]>> : c \in Writing}

\* The cache implements the atomic token store.
Store_ == INSTANCE TokenStore WITH
    cell <- tokens,
    used <- issued,
    pending <- {held[c] : c \in InFlight},
    handed <- got,
    asked <- Arguments

\* Every step of the cache is a step of the atomic store.  A sign-in writes the
\* grant it was given, once, and never after it was reported lost; every other
\* write is one that SignOut or SetTokens was called for, of a token set the
\* application could have: one it persisted, or one this cache handed it.  And
\* every token handed to a caller is the one in the cache at that step
\* (auth.go:41-56, 62-72, 75-93).
ImplementsTokenStore == Store_!Spec

\* Every call of every method returns, whatever the other callers do, as long as
\* no panic leaves GetIDToken with the read lock held (auth.go:53-55).
EveryCallReturns ==
    \A c \in Callers : pc[c] # "idle" ~> (pc[c] = "idle" \/ LeakedReaders # {})

-------------------------------------------------------------------------------
(* What the comments of auth.go say and the code does not do.               *)

\* "GetIDToken returns a valid ID token" (auth.go:37): it does not blow up.
GetIDTokenNeverPanics == \A c \in Callers : pc[c] # "panicked"
===============================================================================
