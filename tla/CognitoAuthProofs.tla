--------------------------- MODULE CognitoAuthProofs --------------------------
(***************************************************************************)
(* Proofs about CognitoAuth, for any number of callers and token sets.     *)
(*                                                                         *)
(* IInv is the inductive invariant.  Every safety result follows from it:  *)
(* TypeOK and PanicOnlyIfCleared are conjuncts, SignsInAtMostOnce needs    *)
(* CacheStaysWarm, and the refinement of TokenStore needs Provenance (what *)
(* a write puts into the cache was granted) and GrantsApart (two sign-ins  *)
(* never carry the same token set, so installing or losing one removes     *)
(* exactly one pending grant).  Unseen and Writers are what a client of the*)
(* cache needs to know of it: AuthenticatedCallsProofs builds on them.     *)
(***************************************************************************)
EXTENDS CognitoAuth, TLAPS

\* What the cache, the callers and the arguments of SetTokens can hold.
Known == issued \cup {NoTokens, Blank}

Provenance ==
    /\ Saved \subseteq issued
    /\ tokens \in Known
    /\ \A c \in Callers :
          /\ got[c] \in Known
          /\ pc[c] = "write" => held[c] \in Known
          /\ pc[c] = "answered" => held[c] \in issued \cup (Replies \ TokenIds)
          /\ pc[c] = "store" => held[c] \in issued

GrantsApart ==
    \A c, d \in InFlight : c # d => held[c] # held[d]

\* A write is followed by a second read of a non-nil cache, or by a clearing.
ReadBack ==
    \A c \in Callers :
        /\ pc[c] = "reread" /\ ~clearedSince[c] => tokens # NoTokens
        /\ pc[c] = "panicked" => clearedSince[c]

\* A grant on its way to the cache has been seen by nobody: it is not in the cache,
\* was handed to no caller and is no argument of SetTokens.
Unseen ==
    \A d \in InFlight :
        /\ held[d] \notin Saved \cup {tokens}
        /\ \A c \in Callers : held[d] # got[c] /\ (pc[c] = "write" => held[d] # held[c])

\* Only SignOut and SetTokens write without a sign-in, and SignOut writes nil.
Writers ==
    \A c \in Callers :
        pc[c] = "write" => op[c] = "SetTokens" \/ (op[c] = "SignOut" /\ held[c] = NoTokens)

CacheStaysWarm ==
    /\ installed # {} => tokens \in TokenIds
    /\ SignsInAtMostOnce

IInv ==
    /\ TypeOK
    /\ Provenance
    /\ GrantsApart
    /\ ReadBack
    /\ CacheStaysWarm
    /\ Unseen
    /\ Writers
-------------------------------------------------------------------------------
(* The inductive invariant, one lemma per conjunct.                        *)

\* The initial state of newCognitoAuth satisfies the invariant.
LEMMA InitIInv == Init => IInv
BY SentinelAssumption, SavedAssumption, OperationsAssumption
DEF Init, IInv, TypeOK, Provenance, Known, GrantsApart, InFlight, ReadBack,
    CacheStaysWarm, SignsInAtMostOnce, Unseen, Writers, CacheValues, Replies, Locations,
    Results

\* Every step of every method keeps the variables in their types.
LEMMA TypeStep ==
    ASSUME IInv, [Next]_vars
    PROVE  TypeOK'
<1> USE DEF IInv, Provenance, Known, TypeOK, CacheValues, Replies, Locations, Results
<1>1. ASSUME NEW c \in Callers, CallGetIDToken(c) PROVE TypeOK'
  BY <1>1, SavedAssumption, OperationsAssumption DEF CallGetIDToken, Enter
<1>2. ASSUME NEW c \in Callers, CallGetTokens(c) PROVE TypeOK'
  BY <1>2, SavedAssumption, OperationsAssumption DEF CallGetTokens, Enter
<1>3. ASSUME NEW c \in Callers, CallExchange(c) PROVE TypeOK'
  BY <1>3, SavedAssumption, OperationsAssumption DEF CallExchange, Enter
<1>4. ASSUME NEW c \in Callers, CallSignOut(c) PROVE TypeOK'
  BY <1>4, SavedAssumption, OperationsAssumption DEF CallSignOut, Enter
<1>5. ASSUME NEW c \in Callers, CallSetTokens(c) PROVE TypeOK'
  BY <1>5, SavedAssumption, OperationsAssumption DEF CallSetTokens, Enter, Restorable
<1>6. ASSUME NEW c \in Callers, CheckCached(c) PROVE TypeOK'
  <2>1. CASE CacheHit /\ got' = [got EXCEPT ![c] = tokens] /\ Leave(c, "ok") /\ UNCHANGED clearedSince
    BY <1>6, <2>1, SavedAssumption, OperationsAssumption DEF CheckCached, Leave, CacheHit
  <2>2. CASE Goto(c, "request") /\ clearedSince' = [clearedSince EXCEPT ![c] = FALSE] /\ UNCHANGED <<op, held, got, result>>
    BY <1>6, <2>2, SavedAssumption, OperationsAssumption DEF CheckCached, Goto
  <2>3. CASE Leave(c, "auth_error") /\ UNCHANGED <<got, clearedSince>>
    BY <1>6, <2>3, SavedAssumption, OperationsAssumption DEF CheckCached, Leave
  <2>4. QED
    BY <1>6, <2>1, <2>2, <2>3 DEF CheckCached
<1>7. ASSUME NEW c \in Callers, Reread(c) PROVE TypeOK'
  BY <1>7, SavedAssumption, OperationsAssumption DEF Reread, Leave, Goto
<1>8. ASSUME NEW c \in Callers, GetTokens(c) PROVE TypeOK'
  BY <1>8, SavedAssumption, OperationsAssumption DEF GetTokens, Leave
<1>9. ASSUME NEW c \in Callers, ReceiveAnswer(c) PROVE TypeOK'
  BY <1>9, SavedAssumption, OperationsAssumption DEF ReceiveAnswer, Leave, Goto, ReplyError
<1>10. ASSUME NEW c \in Callers, Store(c) PROVE TypeOK'
  BY <1>10, SavedAssumption, OperationsAssumption DEF Store, Leave, Goto
<1>11. ASSUME NEW c \in Callers, Write(c) PROVE TypeOK'
  BY <1>11, SavedAssumption, OperationsAssumption DEF Write, Leave
<1>12. ASSUME NEW c \in Callers, BlockOnLock(c) PROVE TypeOK'
  BY <1>12, SavedAssumption, OperationsAssumption DEF BlockOnLock
<1>13. ASSUME NEW c \in Callers, ProviderAnswers(c) PROVE TypeOK'
  BY <1>13, SavedAssumption, OperationsAssumption DEF ProviderAnswers, Goto
<1>14. ASSUME NEW c \in Callers, ConnectionFails(c) PROVE TypeOK'
  BY <1>14, SavedAssumption, OperationsAssumption DEF ConnectionFails, Leave
<1>15. CASE UNCHANGED vars
  BY <1>15, SavedAssumption, OperationsAssumption DEF vars
<1>16. QED
  BY <1>1, <1>2, <1>3, <1>4, <1>5, <1>6, <1>7, <1>8,
   <1>9, <1>10, <1>11, <1>12, <1>13, <1>14, <1>15
  DEF Next, StartCall, Proceed, Exchange

\* Whatever can reach the cache was granted by the provider.
LEMMA ProvenanceStep ==
    ASSUME IInv, [Next]_vars
    PROVE  Provenance'
<1> USE DEF IInv, TypeOK, Provenance, Known, CacheValues, Replies
<1>1. ASSUME NEW c \in Callers, CallGetIDToken(c) PROVE Provenance'
  BY <1>1, SentinelAssumption, ReplyAssumption, SavedAssumption DEF CallGetIDToken, Enter
<1>2. ASSUME NEW c \in Callers, CallGetTokens(c) PROVE Provenance'
  BY <1>2, SentinelAssumption, ReplyAssumption, SavedAssumption DEF CallGetTokens, Enter
<1>3. ASSUME NEW c \in Callers, CallExchange(c) PROVE Provenance'
  BY <1>3, SentinelAssumption, ReplyAssumption, SavedAssumption DEF CallExchange, Enter
<1>4. ASSUME NEW c \in Callers, CallSignOut(c) PROVE Provenance'
  BY <1>4, SentinelAssumption, ReplyAssumption, SavedAssumption DEF CallSignOut, Enter
<1>5. ASSUME NEW c \in Callers, CallSetTokens(c) PROVE Provenance'
  BY <1>5, SentinelAssumption, ReplyAssumption, SavedAssumption DEF CallSetTokens, Enter, Restorable
<1>6. ASSUME NEW c \in Callers, CheckCached(c) PROVE Provenance'
  <2>1. CASE CacheHit /\ got' = [got EXCEPT ![c] = tokens] /\ Leave(c, "ok") /\ UNCHANGED clearedSince
    BY <1>6, <2>1, SentinelAssumption, ReplyAssumption, SavedAssumption DEF CheckCached, Leave, CacheHit
  <2>2. CASE Goto(c, "request") /\ clearedSince' = [clearedSince EXCEPT ![c] = FALSE] /\ UNCHANGED <<op, held, got, result>>
    BY <1>6, <2>2, SentinelAssumption, ReplyAssumption, SavedAssumption DEF CheckCached, Goto
  <2>3. CASE Leave(c, "auth_error") /\ UNCHANGED <<got, clearedSince>>
    BY <1>6, <2>3, SentinelAssumption, ReplyAssumption, SavedAssumption DEF CheckCached, Leave
  <2>4. QED
    BY <1>6, <2>1, <2>2, <2>3 DEF CheckCached
<1>7. ASSUME NEW c \in Callers, Reread(c) PROVE Provenance'
  BY <1>7, SentinelAssumption, ReplyAssumption, SavedAssumption DEF Reread, Leave, Goto
<1>8. ASSUME NEW c \in Callers, GetTokens(c) PROVE Provenance'
  BY <1>8, SentinelAssumption, ReplyAssumption, SavedAssumption DEF GetTokens, Leave
<1>9. ASSUME NEW c \in Callers, ReceiveAnswer(c) PROVE Provenance'
  BY <1>9, SentinelAssumption, ReplyAssumption, SavedAssumption DEF ReceiveAnswer, Leave, Goto, ReplyError
<1>10. ASSUME NEW c \in Callers, Store(c) PROVE Provenance'
  BY <1>10, SentinelAssumption, ReplyAssumption, SavedAssumption DEF Store, Leave, Goto
<1>11. ASSUME NEW c \in Callers, Write(c) PROVE Provenance'
  BY <1>11, SentinelAssumption, ReplyAssumption, SavedAssumption DEF Write, Leave
<1>12. ASSUME NEW c \in Callers, BlockOnLock(c) PROVE Provenance'
  BY <1>12, SentinelAssumption, ReplyAssumption, SavedAssumption DEF BlockOnLock
<1>13. ASSUME NEW c \in Callers, ProviderAnswers(c) PROVE Provenance'
  BY <1>13, SentinelAssumption, ReplyAssumption, SavedAssumption DEF ProviderAnswers, Goto
<1>14. ASSUME NEW c \in Callers, ConnectionFails(c) PROVE Provenance'
  BY <1>14, SentinelAssumption, ReplyAssumption, SavedAssumption DEF ConnectionFails, Leave
<1>15. CASE UNCHANGED vars
  BY <1>15, SentinelAssumption, ReplyAssumption, SavedAssumption DEF vars
<1>16. QED
  BY <1>1, <1>2, <1>3, <1>4, <1>5, <1>6, <1>7, <1>8,
   <1>9, <1>10, <1>11, <1>12, <1>13, <1>14, <1>15
  DEF Next, StartCall, Proceed, Exchange

\* A token set is granted to one exchange only.
LEMMA GrantsApartStep ==
    ASSUME IInv, [Next]_vars
    PROVE  GrantsApart'
<1> USE DEF IInv, TypeOK, Provenance, GrantsApart, InFlight, Replies
<1>1. ASSUME NEW c \in Callers, CallGetIDToken(c) PROVE GrantsApart'
  BY <1>1, SentinelAssumption, ReplyAssumption DEF CallGetIDToken, Enter
<1>2. ASSUME NEW c \in Callers, CallGetTokens(c) PROVE GrantsApart'
  BY <1>2, SentinelAssumption, ReplyAssumption DEF CallGetTokens, Enter
<1>3. ASSUME NEW c \in Callers, CallExchange(c) PROVE GrantsApart'
  BY <1>3, SentinelAssumption, ReplyAssumption DEF CallExchange, Enter
<1>4. ASSUME NEW c \in Callers, CallSignOut(c) PROVE GrantsApart'
  BY <1>4, SentinelAssumption, ReplyAssumption DEF CallSignOut, Enter
<1>5. ASSUME NEW c \in Callers, CallSetTokens(c) PROVE GrantsApart'
  BY <1>5, SentinelAssumption, ReplyAssumption DEF CallSetTokens, Enter, Restorable
<1>6. ASSUME NEW c \in Callers, CheckCached(c) PROVE GrantsApart'
  BY <1>6, SentinelAssumption, ReplyAssumption DEF CheckCached, Leave, Goto, CacheHit
<1>7. ASSUME NEW c \in Callers, Reread(c) PROVE GrantsApart'
  BY <1>7, SentinelAssumption, ReplyAssumption DEF Reread, Leave, Goto
<1>8. ASSUME NEW c \in Callers, GetTokens(c) PROVE GrantsApart'
  BY <1>8, SentinelAssumption, ReplyAssumption DEF GetTokens, Leave
<1>9. ASSUME NEW c \in Callers, ReceiveAnswer(c) PROVE GrantsApart'
  BY <1>9, SentinelAssumption, ReplyAssumption DEF ReceiveAnswer, Leave, Goto, ReplyError
<1>10. ASSUME NEW c \in Callers, Store(c) PROVE GrantsApart'
  BY <1>10, SentinelAssumption, ReplyAssumption DEF Store, Leave, Goto
<1>11. ASSUME NEW c \in Callers, Write(c) PROVE GrantsApart'
  BY <1>11, SentinelAssumption, ReplyAssumption DEF Write, Leave
<1>12. ASSUME NEW c \in Callers, BlockOnLock(c) PROVE GrantsApart'
  BY <1>12, SentinelAssumption, ReplyAssumption DEF BlockOnLock
<1>13. ASSUME NEW c \in Callers, ProviderAnswers(c) PROVE GrantsApart'
  BY <1>13, SentinelAssumption, ReplyAssumption DEF ProviderAnswers, Goto
<1>14. ASSUME NEW c \in Callers, ConnectionFails(c) PROVE GrantsApart'
  BY <1>14, SentinelAssumption, ReplyAssumption DEF ConnectionFails, Leave
<1>15. CASE UNCHANGED vars
  BY <1>15, SentinelAssumption, ReplyAssumption DEF vars
<1>16. QED
  BY <1>1, <1>2, <1>3, <1>4, <1>5, <1>6, <1>7, <1>8,
   <1>9, <1>10, <1>11, <1>12, <1>13, <1>14, <1>15
  DEF Next, StartCall, Proceed, Exchange

\* The second read of GetIDToken finds a token set unless the cache was cleared.
LEMMA ReadBackStep ==
    ASSUME IInv, [Next]_vars
    PROVE  ReadBack'
<1> USE DEF IInv, TypeOK, Provenance, ReadBack, Replies
<1>1. ASSUME NEW c \in Callers, CallGetIDToken(c) PROVE ReadBack'
  BY <1>1, SentinelAssumption, ReplyAssumption DEF CallGetIDToken, Enter
<1>2. ASSUME NEW c \in Callers, CallGetTokens(c) PROVE ReadBack'
  BY <1>2, SentinelAssumption, ReplyAssumption DEF CallGetTokens, Enter
<1>3. ASSUME NEW c \in Callers, CallExchange(c) PROVE ReadBack'
  BY <1>3, SentinelAssumption, ReplyAssumption DEF CallExchange, Enter
<1>4. ASSUME NEW c \in Callers, CallSignOut(c) PROVE ReadBack'
  BY <1>4, SentinelAssumption, ReplyAssumption DEF CallSignOut, Enter
<1>5. ASSUME NEW c \in Callers, CallSetTokens(c) PROVE ReadBack'
  BY <1>5, SentinelAssumption, ReplyAssumption DEF CallSetTokens, Enter, Restorable
<1>6. ASSUME NEW c \in Callers, CheckCached(c) PROVE ReadBack'
  BY <1>6, SentinelAssumption, ReplyAssumption DEF CheckCached, Leave, Goto, CacheHit
<1>7. ASSUME NEW c \in Callers, Reread(c) PROVE ReadBack'
  BY <1>7, SentinelAssumption, ReplyAssumption DEF Reread, Leave, Goto
<1>8. ASSUME NEW c \in Callers, GetTokens(c) PROVE ReadBack'
  BY <1>8, SentinelAssumption, ReplyAssumption DEF GetTokens, Leave
<1>9. ASSUME NEW c \in Callers, ReceiveAnswer(c) PROVE ReadBack'
  BY <1>9, SentinelAssumption, ReplyAssumption DEF ReceiveAnswer, Leave, Goto, ReplyError
<1>10. ASSUME NEW c \in Callers, Store(c) PROVE ReadBack'
  BY <1>10, SentinelAssumption, ReplyAssumption DEF Store, Leave, Goto
<1>11. ASSUME NEW c \in Callers, Write(c) PROVE ReadBack'
  BY <1>11, SentinelAssumption, ReplyAssumption DEF Write, Leave
<1>12. ASSUME NEW c \in Callers, BlockOnLock(c) PROVE ReadBack'
  BY <1>12, SentinelAssumption, ReplyAssumption DEF BlockOnLock
<1>13. ASSUME NEW c \in Callers, ProviderAnswers(c) PROVE ReadBack'
  BY <1>13, SentinelAssumption, ReplyAssumption DEF ProviderAnswers, Goto
<1>14. ASSUME NEW c \in Callers, ConnectionFails(c) PROVE ReadBack'
  BY <1>14, SentinelAssumption, ReplyAssumption DEF ConnectionFails, Leave
<1>15. CASE UNCHANGED vars
  BY <1>15, SentinelAssumption, ReplyAssumption DEF vars
<1>16. QED
  BY <1>1, <1>2, <1>3, <1>4, <1>5, <1>6, <1>7, <1>8,
   <1>9, <1>10, <1>11, <1>12, <1>13, <1>14, <1>15
  DEF Next, StartCall, Proceed, Exchange

\* Until it is emptied a filled cache stays filled, and no caller that filled it
\* signs in from GetIDToken again.
LEMMA CacheStaysWarmStep ==
    ASSUME IInv, [Next]_vars
    PROVE  CacheStaysWarm'
<1> USE DEF IInv, TypeOK, Provenance, CacheStaysWarm, SignsInAtMostOnce, Known, Replies
<1>1. ASSUME NEW c \in Callers, CallGetIDToken(c) PROVE CacheStaysWarm'
  BY <1>1, SentinelAssumption, ReplyAssumption DEF CallGetIDToken, Enter
<1>2. ASSUME NEW c \in Callers, CallGetTokens(c) PROVE CacheStaysWarm'
  BY <1>2, SentinelAssumption, ReplyAssumption DEF CallGetTokens, Enter
<1>3. ASSUME NEW c \in Callers, CallExchange(c) PROVE CacheStaysWarm'
  BY <1>3, SentinelAssumption, ReplyAssumption DEF CallExchange, Enter
<1>4. ASSUME NEW c \in Callers, CallSignOut(c) PROVE CacheStaysWarm'
  BY <1>4, SentinelAssumption, ReplyAssumption DEF CallSignOut, Enter
<1>5. ASSUME NEW c \in Callers, CallSetTokens(c) PROVE CacheStaysWarm'
  BY <1>5, SentinelAssumption, ReplyAssumption DEF CallSetTokens, Enter, Restorable
<1>6. ASSUME NEW c \in Callers, CheckCached(c) PROVE CacheStaysWarm'
  BY <1>6, SentinelAssumption, ReplyAssumption DEF CheckCached, Leave, Goto, CacheHit
<1>7. ASSUME NEW c \in Callers, Reread(c) PROVE CacheStaysWarm'
  BY <1>7, SentinelAssumption, ReplyAssumption DEF Reread, Leave, Goto
<1>8. ASSUME NEW c \in Callers, GetTokens(c) PROVE CacheStaysWarm'
  BY <1>8, SentinelAssumption, ReplyAssumption DEF GetTokens, Leave
<1>9. ASSUME NEW c \in Callers, ReceiveAnswer(c) PROVE CacheStaysWarm'
  BY <1>9, SentinelAssumption, ReplyAssumption DEF ReceiveAnswer, Leave, Goto, ReplyError
<1>10. ASSUME NEW c \in Callers, Store(c) PROVE CacheStaysWarm'
  BY <1>10, SentinelAssumption, ReplyAssumption DEF Store, Leave, Goto
<1>11. ASSUME NEW c \in Callers, Write(c) PROVE CacheStaysWarm'
  BY <1>11, SentinelAssumption, ReplyAssumption DEF Write, Leave
<1>12. ASSUME NEW c \in Callers, BlockOnLock(c) PROVE CacheStaysWarm'
  BY <1>12, SentinelAssumption, ReplyAssumption DEF BlockOnLock
<1>13. ASSUME NEW c \in Callers, ProviderAnswers(c) PROVE CacheStaysWarm'
  BY <1>13, SentinelAssumption, ReplyAssumption DEF ProviderAnswers, Goto
<1>14. ASSUME NEW c \in Callers, ConnectionFails(c) PROVE CacheStaysWarm'
  BY <1>14, SentinelAssumption, ReplyAssumption DEF ConnectionFails, Leave
<1>15. CASE UNCHANGED vars
  BY <1>15, SentinelAssumption, ReplyAssumption DEF vars
<1>16. QED
  BY <1>1, <1>2, <1>3, <1>4, <1>5, <1>6, <1>7, <1>8,
   <1>9, <1>10, <1>11, <1>12, <1>13, <1>14, <1>15
  DEF Next, StartCall, Proceed, Exchange

\* What the provider grants is new to the cache and to the callers.
LEMMA UnseenStep ==
    ASSUME IInv, [Next]_vars
    PROVE  Unseen'
<1> USE DEF IInv, TypeOK, Provenance, GrantsApart, InFlight, Unseen, Known, Replies
<1>1. ASSUME NEW c \in Callers, CallGetIDToken(c) PROVE Unseen'
  BY <1>1, SentinelAssumption, ReplyAssumption DEF CallGetIDToken, Enter
<1>2. ASSUME NEW c \in Callers, CallGetTokens(c) PROVE Unseen'
  BY <1>2, SentinelAssumption, ReplyAssumption DEF CallGetTokens, Enter
<1>3. ASSUME NEW c \in Callers, CallExchange(c) PROVE Unseen'
  BY <1>3, SentinelAssumption, ReplyAssumption DEF CallExchange, Enter
<1>4. ASSUME NEW c \in Callers, CallSignOut(c) PROVE Unseen'
  BY <1>4, SentinelAssumption, ReplyAssumption DEF CallSignOut, Enter
<1>5. ASSUME NEW c \in Callers, CallSetTokens(c) PROVE Unseen'
  BY <1>5, SentinelAssumption, ReplyAssumption DEF CallSetTokens, Enter, Restorable
<1>6. ASSUME NEW c \in Callers, CheckCached(c) PROVE Unseen'
  BY <1>6, SentinelAssumption, ReplyAssumption DEF CheckCached, Leave, Goto, CacheHit
<1>7. ASSUME NEW c \in Callers, Reread(c) PROVE Unseen'
  BY <1>7, SentinelAssumption, ReplyAssumption DEF Reread, Leave, Goto
<1>8. ASSUME NEW c \in Callers, GetTokens(c) PROVE Unseen'
  BY <1>8, SentinelAssumption, ReplyAssumption DEF GetTokens, Leave
<1>9. ASSUME NEW c \in Callers, ReceiveAnswer(c) PROVE Unseen'
  BY <1>9, SentinelAssumption, ReplyAssumption DEF ReceiveAnswer, Leave, Goto, ReplyError
<1>10. ASSUME NEW c \in Callers, Store(c) PROVE Unseen'
  BY <1>10, SentinelAssumption, ReplyAssumption DEF Store, Leave, Goto
<1>11. ASSUME NEW c \in Callers, Write(c) PROVE Unseen'
  BY <1>11, SentinelAssumption, ReplyAssumption DEF Write, Leave
<1>12. ASSUME NEW c \in Callers, BlockOnLock(c) PROVE Unseen'
  BY <1>12, SentinelAssumption, ReplyAssumption DEF BlockOnLock
<1>13. ASSUME NEW c \in Callers, ProviderAnswers(c) PROVE Unseen'
  BY <1>13, SentinelAssumption, ReplyAssumption DEF ProviderAnswers, Goto
<1>14. ASSUME NEW c \in Callers, ConnectionFails(c) PROVE Unseen'
  BY <1>14, SentinelAssumption, ReplyAssumption DEF ConnectionFails, Leave
<1>15. CASE UNCHANGED vars
  BY <1>15, SentinelAssumption, ReplyAssumption DEF vars
<1>16. QED
  BY <1>1, <1>2, <1>3, <1>4, <1>5, <1>6, <1>7, <1>8,
   <1>9, <1>10, <1>11, <1>12, <1>13, <1>14, <1>15
  DEF Next, StartCall, Proceed, Exchange

\* The writers of nil and of an argument stay what they are.
LEMMA WritersStep ==
    ASSUME IInv, [Next]_vars
    PROVE  Writers'
<1> USE DEF IInv, TypeOK, Writers
<1>1. ASSUME NEW c \in Callers, CallGetIDToken(c) PROVE Writers'
  BY <1>1, SentinelAssumption, ReplyAssumption DEF CallGetIDToken, Enter
<1>2. ASSUME NEW c \in Callers, CallGetTokens(c) PROVE Writers'
  BY <1>2, SentinelAssumption, ReplyAssumption DEF CallGetTokens, Enter
<1>3. ASSUME NEW c \in Callers, CallExchange(c) PROVE Writers'
  BY <1>3, SentinelAssumption, ReplyAssumption DEF CallExchange, Enter
<1>4. ASSUME NEW c \in Callers, CallSignOut(c) PROVE Writers'
  BY <1>4, SentinelAssumption, ReplyAssumption DEF CallSignOut, Enter
<1>5. ASSUME NEW c \in Callers, CallSetTokens(c) PROVE Writers'
  BY <1>5, SentinelAssumption, ReplyAssumption DEF CallSetTokens, Enter, Restorable
<1>6. ASSUME NEW c \in Callers, CheckCached(c) PROVE Writers'
  BY <1>6, SentinelAssumption, ReplyAssumption DEF CheckCached, Leave, Goto, CacheHit
<1>7. ASSUME NEW c \in Callers, Reread(c) PROVE Writers'
  BY <1>7, SentinelAssumption, ReplyAssumption DEF Reread, Leave, Goto
<1>8. ASSUME NEW c \in Callers, GetTokens(c) PROVE Writers'
  BY <1>8, SentinelAssumption, ReplyAssumption DEF GetTokens, Leave
<1>9. ASSUME NEW c \in Callers, ReceiveAnswer(c) PROVE Writers'
  BY <1>9, SentinelAssumption, ReplyAssumption DEF ReceiveAnswer, Leave, Goto, ReplyError
<1>10. ASSUME NEW c \in Callers, Store(c) PROVE Writers'
  BY <1>10, SentinelAssumption, ReplyAssumption DEF Store, Leave, Goto
<1>11. ASSUME NEW c \in Callers, Write(c) PROVE Writers'
  BY <1>11, SentinelAssumption, ReplyAssumption DEF Write, Leave
<1>12. ASSUME NEW c \in Callers, BlockOnLock(c) PROVE Writers'
  BY <1>12, SentinelAssumption, ReplyAssumption DEF BlockOnLock
<1>13. ASSUME NEW c \in Callers, ProviderAnswers(c) PROVE Writers'
  BY <1>13, SentinelAssumption, ReplyAssumption DEF ProviderAnswers, Goto
<1>14. ASSUME NEW c \in Callers, ConnectionFails(c) PROVE Writers'
  BY <1>14, SentinelAssumption, ReplyAssumption DEF ConnectionFails, Leave
<1>15. CASE UNCHANGED vars
  BY <1>15, SentinelAssumption, ReplyAssumption DEF vars
<1>16. QED
  BY <1>1, <1>2, <1>3, <1>4, <1>5, <1>6, <1>7, <1>8,
   <1>9, <1>10, <1>11, <1>12, <1>13, <1>14, <1>15
  DEF Next, StartCall, Proceed, Exchange

\* IInv is inductive.
LEMMA StepIInv == IInv /\ [Next]_vars => IInv'
BY TypeStep, ProvenanceStep, GrantsApartStep, ReadBackStep, CacheStaysWarmStep,
   UnseenStep, WritersStep
DEF IInv

\* IInv holds in every reachable state.
THEOREM Invariance == Spec => []IInv
BY InitIInv, StepIInv, PTL DEF Spec

-------------------------------------------------------------------------------
(* What the invariant gives.                                               *)

\* The cache, the program counters and the values in flight keep their types.
THEOREM TypeCorrect == Spec => []TypeOK
<1>1. IInv => TypeOK
  BY DEF IInv
<1>2. QED
  BY <1>1, Invariance, PTL

\* GetIDToken dereferences a nil pointer (auth.go:54) only after somebody
\* cleared the cache between its write and its second read.
THEOREM PanicNeedsClear == Spec => []PanicOnlyIfCleared
<1>1. IInv => PanicOnlyIfCleared
  BY DEF IInv, ReadBack, PanicOnlyIfCleared
<1>2. QED
  BY <1>1, Invariance, PTL

\* A caller signs in at most once from GetIDToken until the cache is
\* emptied (auth.go:38, 49-56).
THEOREM SignInOnce == Spec => []SignsInAtMostOnce
<1>1. IInv => SignsInAtMostOnce
  BY DEF IInv, CacheStaysWarm
<1>2. QED
  BY <1>1, Invariance, PTL
-------------------------------------------------------------------------------
(* The cache implements the atomic token store.                            *)

\* A fresh CognitoAuth is a fresh store.
LEMMA InitRefines == Init => Store_!Init
BY DEF Init, InFlight, Arguments, Writing, Store_!Init

\* A step that leaves the cache, the grants, the exchanges and the writes under way
\* and the handed tokens alone is invisible to the store.
LEMMA Invisible ==
    ASSUME UNCHANGED <<tokens, issued, got>>, InFlight' = InFlight,
           \A d \in InFlight : held'[d] = held[d],
           Writing' = Writing, \A d \in Writing : held'[d] = held[d]
    PROVE  UNCHANGED Store_!storeVars
BY DEF Store_!storeVars, InFlight, Arguments, Writing

\* The arguments under way stay when no caller starts or ends a write.
LEMMA SameArguments ==
    ASSUME Writing' = Writing, \A d \in Writing : held'[d] = held[d]
    PROVE  Arguments' = Arguments
BY DEF Arguments, Writing

\* A call of SignOut or SetTokens asks the store for one write.
LEMMA AskRefines ==
    ASSUME IInv, NEW c \in Callers, NEW t \in Restorable, pc[c] = "idle",
           pc' = [pc EXCEPT ![c] = "write"], held' = [held EXCEPT ![c] = t],
           UNCHANGED <<tokens, got, issued>>
    PROVE  Store_!Next
<1> USE DEF IInv, TypeOK
<1>1. InFlight' = InFlight /\ (\A d \in InFlight : held'[d] = held[d])
  BY DEF InFlight
<1>2. c \notin Writing /\ Writing' = Writing \cup {c} /\ (\A d \in Writing : held'[d] = held[d])
  BY DEF Writing
<1>3. {held[d] : d \in InFlight}' = {held[d] : d \in InFlight}
  BY <1>1
<1>4. \A a \in Arguments : a[1] # c
  BY <1>2 DEF Arguments
<1>5. Arguments' = Arguments \cup {<<c, t>>}
  BY <1>2 DEF Arguments
<1>6. t \in Store_!Askable
  BY DEF Restorable, Store_!Askable
<1>7. Store_!Ask(c)
  BY <1>3, <1>4, <1>5, <1>6 DEF Store_!Ask
<1>8. QED
  BY <1>7 DEF Store_!Next

\* Every step of the cache is a step of the store or leaves it alone.
LEMMA StepRefines ==
    ASSUME IInv, IInv', [Next]_vars
    PROVE  [Store_!Next]_Store_!storeVars
<1> DEFINE Refined == [Store_!Next]_Store_!storeVars
<1> USE DEF IInv, TypeOK, Replies, CacheValues
<1>1. ASSUME NEW c \in Callers, CallGetIDToken(c) PROVE Refined
  BY <1>1, Invisible, SentinelAssumption, ReplyAssumption DEF CallGetIDToken, Enter, InFlight, Writing
<1>2. ASSUME NEW c \in Callers, CallGetTokens(c) PROVE Refined
  BY <1>2, Invisible, SentinelAssumption, ReplyAssumption DEF CallGetTokens, Enter, InFlight, Writing
<1>3. ASSUME NEW c \in Callers, CallExchange(c) PROVE Refined
  BY <1>3, Invisible, SentinelAssumption, ReplyAssumption DEF CallExchange, Enter, InFlight, Writing
<1>4. ASSUME NEW c \in Callers, CallSignOut(c) PROVE Refined
  BY <1>4, AskRefines DEF CallSignOut, Enter, Restorable
<1>5. ASSUME NEW c \in Callers, CallSetTokens(c) PROVE Refined
  BY <1>5, AskRefines DEF CallSetTokens, Enter
<1>6. ASSUME NEW c \in Callers, CheckCached(c) PROVE Refined
  <2>1. /\ UNCHANGED <<tokens, issued>> /\ InFlight' = InFlight /\ Writing' = Writing
        /\ \A d \in InFlight \cup Writing : held'[d] = held[d]
    BY <1>6, SentinelAssumption, ReplyAssumption DEF CheckCached, Leave, Goto, InFlight, Writing
  <2>2. got' = got \/ got' = [got EXCEPT ![c] = tokens]
    BY <1>6 DEF CheckCached
  <2>3. QED
    BY <2>1, <2>2, Invisible, SameArguments DEF Store_!Next, Store_!HandOut, Store_!storeVars, InFlight, Writing
<1>7. ASSUME NEW c \in Callers, Reread(c) PROVE Refined
  <2>1. /\ UNCHANGED <<tokens, issued>> /\ InFlight' = InFlight /\ Writing' = Writing
        /\ \A d \in InFlight \cup Writing : held'[d] = held[d]
    BY <1>7, SentinelAssumption, ReplyAssumption DEF Reread, Leave, Goto, InFlight, Writing
  <2>2. got' = got \/ got' = [got EXCEPT ![c] = tokens]
    BY <1>7 DEF Reread
  <2>3. QED
    BY <2>1, <2>2, Invisible, SameArguments DEF Store_!Next, Store_!HandOut, Store_!storeVars, InFlight, Writing
<1>8. ASSUME NEW c \in Callers, GetTokens(c) PROVE Refined
  <2>1. /\ InFlight' = InFlight /\ Writing' = Writing
        /\ \A d \in InFlight \cup Writing : held'[d] = held[d]
    BY <1>8, SentinelAssumption, ReplyAssumption DEF GetTokens, Leave, InFlight, Writing
  <2>2. {held[d] : d \in InFlight}' = {held[d] : d \in InFlight} /\ Arguments' = Arguments
    BY <2>1, SameArguments
  <2>3. Store_!HandOut(c)
    BY <1>8, <2>2 DEF GetTokens, Store_!HandOut
  <2>4. QED
    BY <2>3 DEF Store_!Next
<1>9. ASSUME NEW c \in Callers, ReceiveAnswer(c) PROVE Refined
  BY <1>9, Invisible, SentinelAssumption, ReplyAssumption DEF ReceiveAnswer, Leave, Goto, InFlight, Writing
<1>10. ASSUME NEW c \in Callers, Store(c) PROVE Refined
  <2>1. /\ InFlight' = InFlight \ {c} /\ c \in InFlight /\ Writing' = Writing
        /\ \A d \in InFlight' \cup Writing : held'[d] = held[d]
    BY <1>10, SentinelAssumption, ReplyAssumption
    DEF Store, Leave, Goto, InFlight, Provenance, Writing
  <2>2. {held[d] : d \in InFlight}' = {held[d] : d \in InFlight} \ {held[c]}
    BY <2>1 DEF GrantsApart, InFlight
  <2>3. Store_!Install
    BY <1>10, <2>1, <2>2, SameArguments DEF Store, Store_!Install
  <2>4. QED
    BY <2>3 DEF Store_!Next
<1>11. ASSUME NEW c \in Callers, Write(c) PROVE Refined
  <2>1. /\ InFlight' = InFlight /\ c \in Writing /\ Writing' = Writing \ {c}
        /\ \A d \in InFlight \cup Writing' : held'[d] = held[d]
    BY <1>11, SentinelAssumption, ReplyAssumption DEF Write, Leave, InFlight, Writing
  <2>2. {held[d] : d \in InFlight}' = {held[d] : d \in InFlight}
    BY <2>1
  <2>3. <<c, held[c]>> \in Arguments /\ Arguments' = Arguments \ {<<c, held[c]>>}
    BY <2>1 DEF Arguments
  <2>4. Store_!Overwrite
    BY <1>11, <2>2, <2>3 DEF Write, Store_!Overwrite
  <2>5. QED
    BY <2>4 DEF Store_!Next
<1>12. ASSUME NEW c \in Callers, BlockOnLock(c) PROVE Refined
  BY <1>12, Invisible DEF BlockOnLock, InFlight, Writing
<1>13. ASSUME NEW c \in Callers, ProviderAnswers(c) PROVE Refined
  <2>1. CASE \E t \in TokenIds \ issued : issued' = issued \cup {t} /\ held' = [held EXCEPT ![c] = t]
    <3>1. PICK t \in TokenIds \ issued : issued' = issued \cup {t} /\ held' = [held EXCEPT ![c] = t]
      BY <2>1
    <3>2. /\ InFlight' = InFlight \cup {c} /\ c \notin InFlight
          /\ Writing' = Writing /\ (\A d \in Writing : held'[d] = held[d])
      BY <1>13, <3>1 DEF ProviderAnswers, Goto, InFlight, Writing
    <3>3. {held[d] : d \in InFlight}' = {held[d] : d \in InFlight} \cup {t}
      BY <3>1, <3>2 DEF InFlight
    <3>4. Store_!Grant
      BY <1>13, <3>1, <3>2, <3>3, SameArguments DEF ProviderAnswers, Store_!Grant
    <3>5. QED
      BY <3>4 DEF Store_!Next
  <2>2. CASE \E r \in {"challenge", "refused", "garbled"} : held' = [held EXCEPT ![c] = r] /\ UNCHANGED issued
    BY <1>13, <2>2, Invisible, SentinelAssumption, ReplyAssumption DEF ProviderAnswers, Goto, InFlight, Writing
  <2>3. QED
    BY <1>13, <2>1, <2>2 DEF ProviderAnswers
<1>14. ASSUME NEW c \in Callers, ConnectionFails(c) PROVE Refined
  <2>1. CASE c \in InFlight
    <3>1. /\ InFlight' = InFlight \ {c} /\ Writing' = Writing
          /\ \A d \in InFlight' \cup Writing : held'[d] = held[d]
      BY <1>14 DEF ConnectionFails, Leave, InFlight, Writing
    <3>2. {held[d] : d \in InFlight}' = {held[d] : d \in InFlight} \ {held[c]}
      BY <2>1, <3>1 DEF GrantsApart, InFlight
    <3>3. held[c] \in {held[d] : d \in InFlight} /\ UNCHANGED <<tokens, issued, got>>
      BY <1>14, <2>1 DEF ConnectionFails
    <3>4. Store_!Lose
      BY <3>1, <3>2, <3>3, SameArguments DEF Store_!Lose
    <3>5. QED
      BY <3>4 DEF Store_!Next
  <2>2. CASE c \notin InFlight
    BY <1>14, <2>2, Invisible, SentinelAssumption, ReplyAssumption DEF ConnectionFails, Leave, InFlight, Writing
  <2>3. QED
    BY <2>1, <2>2
<1>15. CASE UNCHANGED vars
  BY <1>15, Invisible DEF vars, InFlight, Writing
<1>16. QED
  BY <1>1, <1>2, <1>3, <1>4, <1>5, <1>6, <1>7, <1>8,
     <1>9, <1>10, <1>11, <1>12, <1>13, <1>14, <1>15
  DEF Next, StartCall, Proceed, Exchange

\* The locks, the unlocked exchange with the provider and the second read of
\* GetIDToken together behave like one atomic cell (auth.go:39-105).
THEOREM Refinement == Spec => ImplementsTokenStore
<1>1. IInv /\ IInv' /\ [Next]_vars => [Store_!Next]_Store_!storeVars
  BY StepRefines
<1>2. QED
  BY <1>1, InitRefines, Invariance, PTL DEF Spec, ImplementsTokenStore, Store_!Spec
===============================================================================
