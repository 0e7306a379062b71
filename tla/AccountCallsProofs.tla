-------------------------- MODULE AccountCallsProofs --------------------------
(***************************************************************************)
(* What holds of NewClient for any list of options, and of the account     *)
(* calls for any calls, pools and passwords.  The first part is about the  *)
(* steps of ClientConfig, the second about those of AccountCalls, which    *)
(* are steps of ClientConfig or leave the client alone.                    *)
(***************************************************************************)
EXTENDS AccountCalls, FiniteSetTheorems, TLAPS

-------------------------------------------------------------------------------
(* NewClient.                                                               *)

\* A field holds what the last option that assigns it gave it, if any does.
Latest(f) ==
    /\ Setters(f) # {} => \E i \in Setters(f) : \A j \in Setters(f) : j <= i
    /\ config[f] = LastOption(f)

\* The manager is made once, at the end, from the fields, and only for a client
\* that has the credentials of no other mode.
Manager ==
    /\ auth # Nil => /\ phase = "built"
                     /\ auth = NewCognitoAuth
                     /\ config["cognitoClientID"] # Empty
    /\ phase = "built" =>
          /\ AuthMode = "apikey" => config["signer"] = Empty
          /\ AuthMode \in {"apikey", "x402"} => ~UsesCognito
          /\ (auth # Nil) <=> (AuthMode = "cognito")

ConfigInv ==
    /\ ConfigTypeOK
    /\ \A f \in ConfigFields : Latest(f)
    /\ Manager

\* Appending an option makes it the last one for its fields and for no other.
LEMMA LastAppended ==
    ASSUME applied \in Seq(Options), NEW o \in Options, NEW f \in ConfigFields, Latest(f),
           applied' = Append(applied, o),
           config'[f] = IF f \in DOMAIN o THEN o[f] ELSE config[f]
    PROVE  Latest(f)'
<1> DEFINE n == Len(applied) + 1
<1>1. /\ DOMAIN applied = 1 .. Len(applied) /\ DOMAIN applied' = 1 .. n
      /\ Len(applied) \in Nat /\ applied'[n] = o
      /\ \A i \in DOMAIN applied : applied'[i] = applied[i]
  OBVIOUS
<1>2. CASE f \in DOMAIN o
  <2>1. n \in Setters(f)' /\ \A j \in Setters(f)' : j <= n
    BY <1>1, <1>2 DEF Setters
  <2>2. \A i \in Setters(f)' : (\A j \in Setters(f)' : j <= i) => i = n
    BY <1>1, <2>1 DEF Setters
  <2>3. (CHOOSE i \in Setters(f)' : \A j \in Setters(f)' : j <= i) = n
    BY <2>1, <2>2
  <2>4. LastOption(f)' = o[f]
    BY <1>1, <2>1, <2>3 DEF LastOption
  <2>5. QED
    BY <1>2, <2>1, <2>4 DEF Latest
<1>3. CASE f \notin DOMAIN o
  <2>1. Setters(f)' = Setters(f)
    BY <1>1, <1>3 DEF Setters
  <2>2. CASE Setters(f) = {}
    BY <1>3, <2>1, <2>2 DEF Latest, LastOption
  <2>3. CASE Setters(f) # {}
    <3> DEFINE last == CHOOSE i \in Setters(f) : \A j \in Setters(f) : j <= i
    <3>1. last \in Setters(f)
      BY <2>3 DEF Latest
    <3>2. applied'[last] = applied[last]
      BY <1>1, <3>1 DEF Setters
    <3>3. LastOption(f) = applied[last][f]
      BY <2>3 DEF LastOption
    <3>4. LastOption(f)' = applied'[last][f]
      BY <2>1, <2>3 DEF LastOption
    <3>5. QED
      BY <1>3, <2>1, <3>2, <3>3, <3>4 DEF Latest
  <2>4. QED
    BY <2>2, <2>3
<1>4. QED
  BY <1>2, <1>3

\* Two modes are more than one.
LEMMA OneMode ==
    ASSUME ~(Cardinality(Modes) > 1), NEW m \in Modes, NEW n \in Modes
    PROVE  m = n
<1>1. IsFiniteSet(Modes)
  <2>1. IsFiniteSet({} \cup {"apikey"} \cup {"x402"} \cup {"cognito"})
    BY FS_EmptySet, FS_AddElement, Zenon
  <2>2. Modes \subseteq {} \cup {"apikey"} \cup {"x402"} \cup {"cognito"}
    BY DEF Modes
  <2>3. QED
    BY <2>1, <2>2, FS_Subset
<1>2. SUFFICES ASSUME m # n PROVE FALSE
  OBVIOUS
<1>3. {m, n} \subseteq Modes
  OBVIOUS
<1>4. IsFiniteSet({m}) /\ Cardinality({m}) = 1
  BY FS_Singleton
<1>5. Cardinality({m} \cup {n}) = 2
  BY <1>2, <1>4, FS_AddElement
<1>6. {m} \cup {n} = {m, n}
  OBVIOUS
<1>7. 2 <= Cardinality(Modes)
  BY <1>1, <1>3, <1>5, <1>6, FS_Subset
<1>8. Cardinality(Modes) \in Nat
  BY <1>1, FS_CardinalityType
<1>9. QED
  BY <1>7, <1>8

\* The invariant holds when NewClient starts.
LEMMA InitConfig == ConfigInit => ConfigInv
<1> SUFFICES ASSUME ConfigInit PROVE ConfigInv
  OBVIOUS
<1>1. ConfigTypeOK
  <2>1. Default \in [ConfigFields -> Values]
    BY DEF Default, Values
  <2>2. <<>> \in Seq(Options)
    OBVIOUS
  <2>3. QED
    BY <2>1, <2>2 DEF ConfigInit, ConfigTypeOK, Phases
<1>2. \A f \in ConfigFields : Latest(f)
  BY DEF ConfigInit, Latest, LastOption, Setters
<1>3. Manager
  BY DEF ConfigInit, Manager
<1>4. QED
  BY <1>1, <1>2, <1>3 DEF ConfigInv

\* An option keeps it.
LEMMA OptionStep ==
    ASSUME ConfigInv, NEW o \in Options, ApplyOption(o)
    PROVE  ConfigInv'
<1>1. ConfigTypeOK'
  <2>1. \A f \in DOMAIN o : o[f] \in Values
    <3>1. \A f \in DOMAIN o : o[f] \in {o[g] : g \in DOMAIN o}
      OBVIOUS
    <3>2. {o[g] : g \in DOMAIN o} \in {{p[g] : g \in DOMAIN p} : p \in Options}
      OBVIOUS
    <3>3. {o[g] : g \in DOMAIN o} \subseteq Values
      BY <3>2, Zenon DEF Values
    <3>4. QED
      BY <3>1, <3>3
  <2>2. QED
    BY <2>1 DEF ConfigInv, ConfigTypeOK, ApplyOption
<1>2. ASSUME NEW f \in ConfigFields PROVE Latest(f)'
  BY LastAppended DEF ConfigInv, ConfigTypeOK, ApplyOption
<1>3. auth = Nil /\ auth' = Nil /\ phase' = "options"
  BY DEF ConfigInv, Manager, ApplyOption
<1>4. QED
  BY <1>1, <1>2, <1>3 DEF ConfigInv, Manager

\* The check and the manager at the end keep it.
LEMMA BuildStep ==
    ASSUME ConfigInv, Build
    PROVE  ConfigInv'
<1>1. NewCognitoAuth \in Managers /\ NewCognitoAuth # Nil
  BY OptionsAssumption
  DEF ConfigInv, ConfigTypeOK, NewCognitoAuth, Managers, ConfigFields
<1>2. ConfigTypeOK'
  BY <1>1 DEF ConfigInv, ConfigTypeOK, Build, Phases
<1>3. \A f \in ConfigFields : Latest(f)'
  BY DEF ConfigInv, Latest, LastOption, Setters, Build
<1>4. Manager'
  <2>1. auth = Nil
    BY DEF ConfigInv, Manager, Build
  <2>2. AuthMode' = AuthMode /\ UsesCognito' = UsesCognito /\ NewCognitoAuth' = NewCognitoAuth
    BY DEF Build, AuthMode, UsesCognito, NewCognitoAuth
  <2>3. CASE phase' # "built"
    BY <2>1, <2>3 DEF Build, Manager
  <2>4. CASE phase' = "built"
    <3>1. ~(Cardinality(Modes) > 1)
      BY <2>4 DEF Build
    <3>2. /\ config["apiKey"] # Empty => "apikey" \in Modes
          /\ config["signer"] # Empty => "x402" \in Modes
          /\ UsesCognito => "cognito" \in Modes
      BY DEF Modes
    <3>3. /\ ~("apikey" \in Modes /\ "x402" \in Modes)
          /\ ~("apikey" \in Modes /\ "cognito" \in Modes)
          /\ ~("x402" \in Modes /\ "cognito" \in Modes)
      BY <3>1, OneMode
    <3>4. /\ AuthMode = "apikey" => config["signer"] = Empty
          /\ AuthMode \in {"apikey", "x402"} => ~UsesCognito
      BY <3>2, <3>3 DEF AuthMode
    <3>5. IF AuthMode = "cognito"
          THEN auth' = NewCognitoAuth /\ config["cognitoClientID"] # Empty
          ELSE auth' = Nil
      BY <2>1, <2>4, <3>1 DEF Build
    <3>6. config' = config
      BY DEF Build
    <3>7. QED
      BY <1>1, <2>2, <2>4, <3>4, <3>5, <3>6 DEF Manager
  <2>5. QED
    BY <2>3, <2>4
<1>5. QED
  BY <1>2, <1>3, <1>4 DEF ConfigInv

\* A step that leaves the client alone keeps it.
LEMMA ConfigStutter ==
    ASSUME ConfigInv, UNCHANGED configVars
    PROVE  ConfigInv'
BY DEF ConfigInv, ConfigTypeOK, Latest, LastOption, Setters, Manager, AuthMode, UsesCognito,
       NewCognitoAuth, configVars

\* It is inductive.
LEMMA ConfigStep == ConfigInv /\ [ConfigNext]_configVars => ConfigInv'
BY OptionStep, BuildStep, ConfigStutter DEF ConfigNext

\* NewClient keeps it, for any options.
LEMMA ConfigAlways == ConfigSpec => []ConfigInv
BY InitConfig, ConfigStep, PTL DEF ConfigSpec

\* What it says of the manager.
LEMMA ConfigMeans == ConfigInv => ManagerHasLastOptions /\ OneModePerClient
<1> SUFFICES ASSUME ConfigInv PROVE ManagerHasLastOptions /\ OneModePerClient
  OBVIOUS
<1>1. \A f \in ConfigFields : config[f] = LastOption(f)
  BY DEF ConfigInv, Latest
<1>2. ManagerHasLastOptions
  BY <1>1 DEF ConfigInv, Manager, ManagerHasLastOptions, NewCognitoAuth, ConfigFields
<1>3. OneModePerClient
  BY <1>1 DEF ConfigInv, Manager, OneModePerClient, NewCognitoAuth, UsesCognito, ConfigFields
<1>4. QED
  BY <1>2, <1>3

-------------------------------------------------------------------------------
(* The account.                                                             *)

\* The region of a built client is one of the pools'.
RegionIsPool == config["cognitoRegion"] \in Regions

\* A call has one request.  It is on its way, or handled, after the call has begun;
\* what it was answered is what Cognito did with it.
CallInv(c) ==
    LET waiting == \E m \in wire : m.call = c
    IN  /\ waiting => outcome[c] # "idle" /\ c \notin done /\ reply[c] = Nil
        /\ c \in done => outcome[c] # "idle"
        /\ reply[c] # Nil => outcome[c] # "idle"
        /\ reply[c] # Nil /\ reply[c].class = "2xx" => c \in done
        /\ reply[c] # Nil /\ reply[c].class = "4xx" => c \notin done
        /\ outcome[c] \in {"ok", "mfa"} => c \in done
        /\ outcome[c] = "denied" => c \notin done /\ ~waiting

OneCopy == \A m, n \in wire : m.call = n.call => m = n

IInv ==
    /\ ConfigInv
    /\ RegionIsPool
    /\ TypeOK
    /\ OneCopy
    /\ \A c \in Calls : CallInv(c)

\* The invariant holds initially.
LEMMA InitInv == Init => IInv
<1> SUFFICES ASSUME Init PROVE IInv
  OBVIOUS
<1>1. ConfigInv
  BY InitConfig DEF Init
<1>2. RegionIsPool
  BY RegionAssumption DEF Init, ConfigInit, RegionIsPool, Default, ConfigFields
<1>3. TypeOK
  BY <1>1 DEF Init, TypeOK, ConfigInv, Outcomes, Strings, Values
<1>4. OneCopy /\ \A c \in Calls : CallInv(c)
  BY DEF Init, OneCopy, CallInv
<1>5. QED
  BY <1>1, <1>2, <1>3, <1>4 DEF IInv

\* The steps of NewClient keep it.
LEMMA ClientStep ==
    ASSUME IInv, ConfigNext, UNCHANGED accountVars
    PROVE  IInv'
<1>1. ConfigInv'
  BY ConfigStep DEF IInv
<1>2. RegionIsPool'
  <2>1. ASSUME NEW o \in Options, ApplyOption(o) PROVE RegionIsPool'
    BY <2>1, RegionAssumption DEF IInv, RegionIsPool, ApplyOption, ConfigFields
  <2>2. CASE Build
    BY <2>2 DEF IInv, RegionIsPool, Build
  <2>3. QED
    BY <2>1, <2>2 DEF ConfigNext
<1>3. TypeOK'
  BY <1>1 DEF IInv, TypeOK, ConfigInv, accountVars
<1>4. OneCopy' /\ \A c \in Calls : CallInv(c)'
  BY DEF IInv, OneCopy, CallInv, accountVars
<1>5. QED
  BY <1>1, <1>2, <1>3, <1>4 DEF IInv

\* A step of the account leaves the client alone.
LEMMA ClientKept ==
    ASSUME IInv, UNCHANGED configVars
    PROVE  ConfigInv' /\ RegionIsPool' /\ ConfigTypeOK'
<1>1. ConfigInv'
  BY ConfigStutter DEF IInv
<1>2. RegionIsPool'
  BY DEF IInv, RegionIsPool, configVars
<1>3. QED
  BY <1>1, <1>2 DEF ConfigInv

\* A call sends what it was given or what the manager has.
LEMMA RequestType ==
    ASSUME IInv, NEW c \in Calls, Helper[c] = "SignIn" => auth # Nil, NEW given \in Given(c),
           NEW typed \in Typed(c)
    PROVE  Request(c, given, typed) \in Requests /\ Request(c, given, typed).call = c
<1>1. typed \in Calls \cup {Nil}
  BY DEF IInv, TypeOK, Typed
<1>2. CASE Helper[c] = "SignIn"
  <2>1. /\ auth.region \in Regions
        /\ auth.clientID \in Strings /\ auth.email \in Strings /\ auth.password \in Strings
    BY <1>2 DEF IInv, ConfigInv, ConfigTypeOK, Manager, NewCognitoAuth, RegionIsPool,
                Managers, Strings
  <2>2. QED
    BY <1>2, <2>1 DEF Request, Requests
<1>3. CASE Helper[c] # "SignIn"
  <2>1. given \in Input
    BY <1>3, RegionAssumption DEF Given
  <2>2. Region(given.region) \in Regions
    BY <2>1, RegionAssumption DEF Input, Region
  <2>3. /\ given.clientID \in Strings /\ given.email \in Strings
        /\ given.password \in Strings /\ Empty \in Strings
    BY <2>1 DEF Input, Strings, Values
  <2>4. QED
    BY <1>1, <1>3, <2>2, <2>3 DEF Request, Requests
<1>4. QED
  BY <1>2, <1>3

\* A call that begins keeps it.
LEMMA BeginStep ==
    ASSUME IInv, NEW c \in Calls, Begin(c)
    PROVE  IInv'
<1>1. PICK given \in Given(c), typed \in Typed(c) :
          /\ input' = [input EXCEPT ![c] = given]
          /\ sent' = [sent EXCEPT ![c] = Request(c, given, typed)]
          /\ wire' = wire \cup {Request(c, given, typed)}
  BY DEF Begin
<1> DEFINE m == Request(c, given, typed)
<1>2. m \in Requests /\ m.call = c
  BY RequestType DEF Begin
<1> HIDE DEF m
<1>3. ~\E n \in wire : n.call = c
  BY DEF IInv, CallInv, Begin
<1>4. TypeOK'
  <2>1. given \in Input \cup {Nil}
    BY RegionAssumption DEF Given
  <2>2. input' \in [Calls -> Input \cup {Nil}]
    BY <1>1, <2>1 DEF IInv, TypeOK
  <2>3. sent' \in [Calls -> Requests \cup {Nil}] /\ wire' \subseteq Requests
    BY <1>1, <1>2 DEF m, IInv, TypeOK
  <2>4. outcome' \in [Calls -> Outcomes] /\ earlier' \in [Calls -> SUBSET Calls]
    BY DEF IInv, TypeOK, Begin, Outcomes
  <2>5. QED
    BY <2>2, <2>3, <2>4, ClientKept DEF IInv, TypeOK, Begin, pools
<1>5. OneCopy'
  BY <1>1, <1>2, <1>3 DEF m, IInv, OneCopy
<1>6. ASSUME NEW d \in Calls PROVE CallInv(d)'
  <2>1. outcome'[c] = "pending" /\ reply' = reply /\ done' = done
    BY DEF IInv, TypeOK, Begin, pools
  <2>2. CASE d = c
    BY <2>1, <2>2 DEF IInv, CallInv, Begin
  <2>3. CASE d # c
    BY <1>1, <1>2, <2>1, <2>3 DEF m, IInv, TypeOK, CallInv, Begin
  <2>4. QED
    BY <2>2, <2>3
<1>7. QED
  BY <1>4, <1>5, <1>6, ClientKept DEF IInv, Begin

\* A call that returns keeps it, when its outcome fits what Cognito did.
LEMMA ReturnStep ==
    ASSUME IInv, NEW c \in Calls, NEW how \in Outcomes \ {"idle"}, Return(c, how),
           how \in {"ok", "mfa"} => c \in done,
           how = "denied" => c \notin done /\ ~\E m \in wire : m.call = c
    PROVE  IInv'
<1>1. TypeOK'
  BY ClientKept DEF IInv, TypeOK, Return, pools
<1>2. OneCopy'
  BY DEF IInv, OneCopy, Return
<1>3. ASSUME NEW d \in Calls PROVE CallInv(d)'
  BY DEF IInv, TypeOK, CallInv, Return, pools
<1>4. QED
  BY <1>1, <1>2, <1>3, ClientKept DEF IInv, Return

\* The answer tells what Cognito did, or nothing.
LEMMA ReceiveStep ==
    ASSUME IInv, NEW c \in Calls, Receive(c)
    PROVE  IInv'
<1> DEFINE how == IF Helper[c] = "SignIn" THEN SignedIn(reply[c]) ELSE Answered(reply[c])
<1>1. reply[c] # Nil /\ reply[c] \in Replies /\ Return(c, how)
  BY DEF IInv, TypeOK, Receive
<1>2. /\ how \in {"ok", "mfa", "denied", "open"}
      /\ how \in {"ok", "mfa"} => reply[c].class = "2xx"
      /\ how = "denied" => reply[c].class = "4xx"
  BY <1>1 DEF Answered, SignedIn, Replies
<1>3. /\ how \in {"ok", "mfa"} => c \in done
      /\ how = "denied" => c \notin done /\ ~\E m \in wire : m.call = c
  BY <1>1, <1>2 DEF IInv, CallInv
<1>4. how \in Outcomes \ {"idle"}
  BY <1>2 DEF Outcomes
<1> HIDE DEF how
<1>5. QED
  BY <1>1, <1>3, <1>4, ReturnStep

\* What Cognito does with a request keeps it.
LEMMA ProviderStep ==
    ASSUME IInv, NEW m \in wire, ProviderHandles(m)
    PROVE  IInv'
<1>1. m \in Requests /\ m.call \in Calls /\ m.password \in Strings
  BY DEF IInv, TypeOK, Requests
<1>2. PICK r \in Replies :
          /\ \/ /\ Allowed(m) /\ r.class \in {"2xx", "5xx"}
                /\ Applies(m)
             \/ /\ ~Allowed(m) /\ r.class = "4xx"
                /\ UNCHANGED pools
             \/ /\ r.class = "5xx"
                /\ UNCHANGED pools
          /\ reply' = IF sent[m.call] = m THEN [reply EXCEPT ![m.call] = r] ELSE reply
  BY DEF ProviderHandles
<1>3. wire' = wire \ {m} /\ UNCHANGED <<configVars, input, sent, outcome, earlier>>
  BY DEF ProviderHandles
<1>4. TypeOK'
  <2>1. reply' \in [Calls -> Replies \cup {Nil}]
    BY <1>2 DEF IInv, TypeOK
  <2>2. CASE Applies(m)
    BY <1>1, <1>3, <2>1, <2>2, ClientKept DEF IInv, TypeOK, Applies
  <2>3. CASE UNCHANGED pools
    BY <1>3, <2>1, <2>3, ClientKept DEF IInv, TypeOK, pools
  <2>4. QED
    BY <1>2, <2>2, <2>3
<1>5. OneCopy'
  BY <1>3 DEF IInv, OneCopy
<1>6. ASSUME NEW d \in Calls PROVE CallInv(d)'
  <2>1. CASE d = m.call
    <3>1. outcome[d] # "idle" /\ d \notin done /\ reply[d] = Nil
          /\ outcome[d] \notin {"ok", "mfa", "denied"}
      BY <2>1 DEF IInv, CallInv
    <3>2. ~\E n \in wire' : n.call = d
      BY <1>3, <2>1 DEF IInv, OneCopy
    <3>3. reply'[d] \in {r, Nil}
      BY <1>2, <2>1, <3>1 DEF IInv, TypeOK
    <3>4. CASE d \in done'
      <4>1. r.class # "4xx"
        BY <1>2, <3>1, <3>4 DEF pools
      <4>2. QED
        BY <1>3, <3>1, <3>2, <3>3, <3>4, <4>1 DEF CallInv
    <3>5. CASE d \notin done'
      <4>1. r.class # "2xx"
        BY <1>2, <2>1, <3>5 DEF Applies
      <4>2. QED
        BY <1>3, <3>1, <3>2, <3>3, <3>5, <4>1 DEF CallInv
    <3>6. QED
      BY <3>4, <3>5
  <2>2. CASE d # m.call
    <3>1. d \in done' <=> d \in done
      BY <1>2, <2>2 DEF Applies, pools
    <3>2. (\E n \in wire' : n.call = d) <=> (\E n \in wire : n.call = d)
      BY <1>3, <2>2
    <3>3. reply'[d] = reply[d] /\ outcome'[d] = outcome[d]
      BY <1>2, <1>3, <2>2 DEF IInv, TypeOK
    <3>4. QED
      BY <3>1, <3>2, <3>3 DEF IInv, CallInv
  <2>3. QED
    BY <2>1, <2>2
<1>7. QED
  BY <1>3, <1>4, <1>5, <1>6, ClientKept DEF IInv

\* It is inductive.
LEMMA StepInv ==
    ASSUME IInv, [Next]_vars
    PROVE  IInv'
<1>1. CASE ConfigNext /\ UNCHANGED accountVars
  BY <1>1, ClientStep
<1>2. ASSUME NEW c \in Calls, Begin(c) PROVE IInv'
  BY <1>2, BeginStep
<1>3. ASSUME NEW c \in Calls, ConnectionFails(c) PROVE IInv'
  <2>1. "open" \in Outcomes \ {"idle"}
    BY DEF Outcomes
  <2>2. QED
    BY <1>3, <2>1, ReturnStep DEF ConnectionFails
<1>4. ASSUME NEW c \in Calls, Receive(c) PROVE IInv'
  BY <1>4, ReceiveStep
<1>5. ASSUME NEW m \in wire, ProviderHandles(m) PROVE IInv'
  BY <1>5, ProviderStep
<1>6. CASE UNCHANGED vars
  <2>1. UNCHANGED configVars
    BY <1>6 DEF vars
  <2>2. TypeOK'
    BY <1>6, <2>1, ClientKept DEF IInv, TypeOK, vars, accountVars
  <2>3. OneCopy' /\ \A c \in Calls : CallInv(c)'
    BY <1>6 DEF IInv, OneCopy, CallInv, vars, accountVars
  <2>4. QED
    BY <2>1, <2>2, <2>3, ClientKept DEF IInv
<1>7. QED
  BY <1>1, <1>2, <1>3, <1>4, <1>5, <1>6 DEF Next

\* Every reachable state has it, for any options, calls and pools.
LEMMA Always == Spec => []IInv
<1>1. IInv /\ [Next]_vars => IInv'
  BY StepInv
<1>2. QED
  BY <1>1, InitInv, PTL DEF Spec

\* Type correctness of the helpers, the manager and Cognito.
THEOREM TypeCorrect == Spec => []TypeOK
<1>1. IInv => TypeOK
  BY DEF IInv
<1>2. QED
  BY <1>1, Always, PTL

\* For any list of options in any order, the manager NewClient makes works with the
\* last option of each sort (client.go:31, 117-139).
THEOREM ManagerAsAsked == Spec => []ManagerHasLastOptions
<1>1. IInv => ManagerHasLastOptions
  BY ConfigMeans DEF IInv
<1>2. QED
  BY <1>1, Always, PTL

\* For any list of options, a client that NewClient returns has the credentials of
\* the mode AuthMode reports only, and the manager just in cognito mode
\* (client.go:104, 117-139, 158-170).
THEOREM ModesApart == Spec => []OneModePerClient
<1>1. IInv => OneModePerClient
  BY ConfigMeans DEF IInv
<1>2. QED
  BY <1>1, Always, PTL

\* Whatever calls run at once, whatever answers are lost and whatever faults occur,
\* nil from a helper means done, and a named refusal not done, for good
\* (auth.go:250-275).
THEOREM OutcomesMeanEffects == Spec => []OutcomesMatchAccount
<1>1. IInv => OutcomesMatchAccount
  BY DEF IInv, CallInv, OutcomesMatchAccount
<1>2. QED
  BY <1>1, Always, PTL

-------------------------------------------------------------------------------
(* Why a sign-in is refused.                                                *)
(*                                                                         *)
(* HistoryInv ties the account to the calls Cognito has applied, and them to*)
(* the calls that had succeeded when a sign-in began.  It is inductive      *)
(* together with IInv.                                                     *)

SignUps(a) == {d \in done : Helper[d] = "SignUp" /\ Meant(d) = a}

Resets(a) == {d \in done : Helper[d] = "ConfirmForgotPassword" /\ Meant(d) = a}

\* What is on its way is what the call was given: a sign-in carries what the manager
\* was made with, a helper goes to the account of its input.
AskedBy(m) ==
    /\ Helper[m.call] = "SignIn" =>
          auth # Nil /\ Account(m) = Account(auth) /\ m.password = auth.password
    /\ Helper[m.call] # "SignIn" => Account(m) = Meant(m.call)
    /\ Helper[m.call] \in {"SignUp", "ConfirmForgotPassword"} =>
          m.password = input[m.call].password

Asked == \A m \in wire : AskedBy(m)

\* An account is what the requests applied to it have made of it: it came with a
\* sign-up, it is never taken back, and its password is of a reset once there has
\* been one.
AccountSoFar ==
    /\ \A a \in Accounts : status[a] # "none" => SignUps(a) # {}
    /\ \A d \in done : Helper[d] = "SignUp" =>
                          Meant(d) \in Accounts /\ status[Meant(d)] # "none"
    /\ \A d \in done : Helper[d] \in {"ConfirmSignUp", "ConfirmForgotPassword"} =>
                          Meant(d) \in Accounts /\ status[Meant(d)] = "confirmed"
    /\ \A a \in Accounts : Resets(a) # {} =>
                          \E d \in Resets(a) : password[a] = input[d].password
    /\ \A a \in Accounts : Resets(a) = {} =>
                          \A d \in SignUps(a) : password[a] = input[d].password

EarlierDone == \A c \in Calls : earlier[c] \subseteq done

\* What RefusedForAReason asks for.
Reason(c) ==
    /\ Helper[c] = "SignUp" =>
          \/ Meant(c) \notin Accounts
          \/ \E d \in Begun("SignUp", Meant(c)) : d # c
    /\ Helper[c] = "SignIn" =>
          /\ auth # Nil
          /\ \/ ~Registered(earlier[c], MeantByClient)
             \/ LastOption("cognitoPassword") \notin Agreed(earlier[c], MeantByClient)

Refused(c) == outcome[c] = "denied" \/ (reply[c] # Nil /\ reply[c].class = "4xx")

Reasons == \A c \in Calls : Refused(c) => Reason(c)

HistoryInv == Asked /\ AccountSoFar /\ EarlierDone /\ Reasons

\* Nothing has happened yet.
LEMMA InitHistory == Init => HistoryInv
BY DEF Init, HistoryInv, Asked, AccountSoFar, EarlierDone, Reasons, Refused, Resets, SignUps

\* NewClient is over once there is a manager.
LEMMA ManagerStays ==
    ASSUME IInv, auth # Nil
    PROVE  ~ConfigNext
BY DEF IInv, ConfigInv, Manager, ConfigNext, ApplyOption, Build

\* A step in which no call that has begun gets another input or becomes idle.
Onward ==
    \A d \in Calls : outcome[d] # "idle" => outcome'[d] # "idle" /\ input'[d] = input[d]

\* Then a call that has begun goes on meaning the same account.
LEMMA MeantStays ==
    ASSUME Onward, NEW d \in Calls, outcome[d] # "idle"
    PROVE  Meant(d)' = Meant(d)
BY DEF Onward, Meant

\* And it stays begun for it.
LEMMA BegunGrows ==
    ASSUME Onward, NEW helper, NEW a
    PROVE  /\ Begun(helper, a) \subseteq Begun(helper, a)'
           /\ \A d \in Calls : outcome[d] # "idle" /\ d \in Begun(helper, a)' =>
                                  d \in Begun(helper, a)
BY MeantStays DEF Begun, Onward

\* A password agreed on was agreed on before, if the calls of the past have begun:
\* a reset that begins can only end the agreement.
LEMMA AgreedShrinks ==
    ASSUME Onward, NEW past, past \subseteq Calls, \A d \in past : outcome[d] # "idle", NEW a
    PROVE  /\ Agreed(past, a)' \subseteq Agreed(past, a)
           /\ Registered(past, a)' => Registered(past, a)
<1> DEFINE resets == Begun("ConfirmForgotPassword", a)
<1>1. resets \subseteq resets'
  BY BegunGrows
<1>2. ASSUME NEW d \in past
      PROVE  /\ d \in Begun("SignUp", a)' => d \in Begun("SignUp", a)
             /\ d \in Begun("ConfirmSignUp", a)' => d \in Begun("ConfirmSignUp", a)
             /\ d \in resets' => d \in resets
             /\ input'[d] = input[d]
  BY <1>2, BegunGrows DEF Onward
<1> HIDE DEF resets
<1>3. ASSUME NEW d \in past,
             \/ d \in Begun("SignUp", a)' /\ resets' = {}
             \/ resets' = {d}
      PROVE  \/ d \in Begun("SignUp", a) /\ resets = {}
             \/ resets = {d}
  <2>1. CASE d \in Begun("SignUp", a)' /\ resets' = {}
    BY <1>1, <1>2, <2>1
  <2>2. CASE resets' = {d}
    BY <1>1, <1>2, <2>2
  <2>3. QED
    BY <1>3, <2>1, <2>2
<1>4. Agreed(past, a)' \subseteq Agreed(past, a)
  <2>1. ASSUME NEW p \in Agreed(past, a)' PROVE p \in Agreed(past, a)
    <3>1. PICK d \in past : /\ p = input'[d].password
                            /\ \/ d \in Begun("SignUp", a)' /\ resets' = {}
                               \/ resets' = {d}
      BY <2>1 DEF Agreed, resets
    <3>2. p = input[d].password
      BY <1>2, <3>1
    <3>3. QED
      BY <1>3, <3>1, <3>2 DEF Agreed, resets
  <2>2. QED
    BY <2>1
<1>5. Registered(past, a)' => Registered(past, a)
  BY <1>2 DEF Registered
<1>6. QED
  BY <1>4, <1>5

\* So a reason stays one.
LEMMA ReasonStays ==
    ASSUME IInv, HistoryInv, NEW c \in Calls, Reason(c), outcome[c] # "idle", Onward,
           UNCHANGED configVars, earlier'[c] = earlier[c]
    PROVE  Reason(c)'
<1>1. earlier[c] \subseteq Calls /\ \A d \in earlier[c] : outcome[d] # "idle"
  BY DEF IInv, TypeOK, CallInv, HistoryInv, EarlierDone
<1> DEFINE past == earlier[c]
           a == MeantByClient
<1>2. \A f : LastOption(f)' = LastOption(f)
  BY DEF LastOption, Setters, configVars
<1>3. MeantByClient' = a
  BY <1>2 DEF MeantByClient
<1>4. /\ Registered(past, a)' => Registered(past, a)
      /\ Agreed(past, a)' \subseteq Agreed(past, a)
  <2>1. ASSUME NEW q, q = past, NEW b, b = a
        PROVE  /\ Registered(q, b)' => Registered(q, b)
               /\ Agreed(q, b)' \subseteq Agreed(q, b)
    BY <1>1, <2>1, AgreedShrinks
  <2>2. PICK q, b : q = past /\ b = a
    OBVIOUS
  <2>3. past' = past /\ a' = a
    BY <1>3
  <2>4. \A helper : Begun(helper, a)' = Begun(helper, b)'
    BY <2>2, <2>3 DEF Begun
  <2>5. Registered(past, a)' <=> Registered(q, b)'
    BY <2>2, <2>3, <2>4 DEF Registered
  <2>6. Agreed(past, a)' = Agreed(q, b)'
    BY <2>2, <2>3, <2>4 DEF Agreed
  <2>7. QED
    BY <2>1, <2>2, <2>5, <2>6
<1>5. Helper[c] = "SignIn" => Reason(c)'
  BY <1>2, <1>3, <1>4 DEF Reason, configVars
<1>6. Helper[c] = "SignUp" => Reason(c)'
  <2>1. Meant(c)' = Meant(c)
    BY MeantStays
  <2>2. Begun("SignUp", Meant(c)) \subseteq Begun("SignUp", Meant(c))'
    <3>1. ASSUME NEW b, b = Meant(c) PROVE Begun("SignUp", b) \subseteq Begun("SignUp", b)'
      BY BegunGrows
    <3>2. QED
      BY <2>1, <3>1 DEF Begun
  <2>3. Accounts' = Accounts
    BY DEF Accounts
  <2>4. QED
    BY <2>1, <2>2, <2>3 DEF Reason
<1>7. QED
  BY <1>5, <1>6 DEF Reason

\* Cognito refuses a sign-up for an account that is there, or that cannot be.
LEMMA SignUpHasReason ==
    ASSUME IInv, HistoryInv, NEW m \in wire, Helper[m.call] = "SignUp", ~Allowed(m)
    PROVE  Reason(m.call)
<1> DEFINE c == m.call
<1>1. c \in Calls /\ c \notin done
  BY DEF IInv, TypeOK, Requests, CallInv
<1>2. Account(m) = Meant(c)
  BY DEF HistoryInv, Asked, AskedBy
<1>3. SUFFICES ASSUME Meant(c) \in Accounts PROVE \E d \in Begun("SignUp", Meant(c)) : d # c
  BY DEF Reason
<1>4. status[Meant(c)] # "none"
  BY <1>2, <1>3 DEF Allowed
<1>5. PICK d \in SignUps(Meant(c)) : TRUE
  BY <1>3, <1>4 DEF HistoryInv, AccountSoFar
<1>6. d \in Begun("SignUp", Meant(c)) /\ d # c
  BY <1>1, <1>5 DEF IInv, TypeOK, CallInv, SignUps, Begun
<1>7. QED
  BY <1>6

\* It refuses a sign-in of a confirmed account for its password only, and the password
\* is the one last agreed on.
LEMMA SignInHasReason ==
    ASSUME IInv, HistoryInv, NEW m \in wire, Helper[m.call] = "SignIn", ~Allowed(m)
    PROVE  Reason(m.call)
<1> DEFINE c == m.call
           a == MeantByClient
<1>1. c \in Calls /\ earlier[c] \subseteq done
  BY DEF IInv, TypeOK, Requests, HistoryInv, EarlierDone
<1>2. auth # Nil /\ Account(m) = Account(auth) /\ m.password = auth.password
  BY DEF HistoryInv, Asked, AskedBy
<1>3. Account(auth) = a /\ auth.password = LastOption("cognitoPassword")
  BY <1>2, ConfigMeans DEF IInv, ManagerHasLastOptions, Account, MeantByClient
<1> HIDE DEF a
<1>4. SUFFICES ASSUME Registered(earlier[c], a),
                      LastOption("cognitoPassword") \in Agreed(earlier[c], a)
               PROVE  FALSE
  BY <1>2 DEF Reason, a
<1>5. PICK e \in earlier[c] : e \in Begun("ConfirmSignUp", a)
  BY <1>4 DEF Registered
<1>6. a \in Accounts /\ status[a] = "confirmed"
  BY <1>1, <1>5 DEF HistoryInv, AccountSoFar, Begun
<1>7. PICK d \in earlier[c] :
          /\ auth.password = input[d].password
          /\ \/ d \in Begun("SignUp", a) /\ Begun("ConfirmForgotPassword", a) = {}
             \/ Begun("ConfirmForgotPassword", a) = {d}
  BY <1>3, <1>4 DEF Agreed
<1>8. Resets(a) \subseteq Begun("ConfirmForgotPassword", a)
  BY DEF IInv, TypeOK, CallInv, Resets, Begun
<1>9. password[a] = input[d].password
  <2>1. CASE d \in Begun("SignUp", a) /\ Begun("ConfirmForgotPassword", a) = {}
    <3>1. d \in SignUps(a) /\ Resets(a) = {}
      BY <1>1, <1>8, <2>1 DEF SignUps, Begun
    <3>2. QED
      BY <1>6, <3>1 DEF HistoryInv, AccountSoFar
  <2>2. CASE Begun("ConfirmForgotPassword", a) = {d}
    <3>1. d \in Resets(a)
      BY <1>1, <2>2 DEF Begun, Resets
    <3>2. PICK f \in Resets(a) : password[a] = input[f].password
      BY <1>6, <3>1 DEF HistoryInv, AccountSoFar
    <3>3. f = d
      BY <1>8, <2>2
    <3>4. QED
      BY <3>2, <3>3
  <2>3. QED
    BY <1>7, <2>1, <2>2
<1>10. QED
  BY <1>2, <1>3, <1>6, <1>7, <1>9 DEF Allowed

\* A step that refuses nobody keeps the reasons.
LEMMA ReasonsStay ==
    ASSUME IInv, HistoryInv, UNCHANGED configVars, Onward,
           \A c \in Calls : Refused(c)' => Refused(c) /\ earlier'[c] = earlier[c]
    PROVE  Reasons'
<1>1. ASSUME NEW c \in Calls, Refused(c)' PROVE Reason(c)'
  <2>1. Refused(c) /\ earlier'[c] = earlier[c] /\ Reason(c)
    BY <1>1 DEF HistoryInv, Reasons
  <2>2. outcome[c] # "idle"
    BY <2>1 DEF IInv, CallInv, Refused
  <2>3. QED
    BY <2>1, <2>2, ReasonStays
<1>2. QED
  BY <1>1 DEF Reasons

\* So does the account, in a step that leaves it alone.
LEMMA AccountStays ==
    ASSUME IInv, HistoryInv, Onward, UNCHANGED pools
    PROVE  AccountSoFar'
<1>1. \A d \in done : d \in Calls /\ Meant(d)' = Meant(d) /\ input'[d] = input[d]
  BY MeantStays DEF IInv, TypeOK, CallInv, Onward
<1>2. done' = done /\ status' = status /\ password' = password
  BY DEF pools
<1>3. Accounts' = Accounts
  BY DEF Accounts
<1>4. \A a : SignUps(a)' = SignUps(a) /\ Resets(a)' = Resets(a)
  BY <1>1, <1>2 DEF SignUps, Resets
<1>5. \A a : \A d \in SignUps(a) \cup Resets(a) : input'[d] = input[d]
  BY <1>1 DEF SignUps, Resets
<1>6. QED
  BY <1>1, <1>2, <1>3, <1>4, <1>5 DEF HistoryInv, AccountSoFar

\* A call that begins keeps the history.
LEMMA BeginHistory ==
    ASSUME IInv, HistoryInv, NEW c \in Calls, Begin(c)
    PROVE  HistoryInv'
<1>1. PICK given \in Given(c), typed \in Typed(c) :
          input' = [input EXCEPT ![c] = given] /\ wire' = wire \cup {Request(c, given, typed)}
  BY DEF Begin
<1>2. UNCHANGED <<configVars, pools, reply>> /\ outcome[c] = "idle"
  BY DEF Begin
<1>3. input'[c] = given /\ \A d \in Calls \ {c} : input'[d] = input[d]
  BY <1>1 DEF IInv, TypeOK
<1>4. Onward
  BY <1>2, <1>3 DEF IInv, TypeOK, Onward, Begin
<1>5. Asked'
  <2>1. ASSUME NEW m \in wire PROVE AskedBy(m)'
    <3>1. m.call \in Calls /\ outcome[m.call] # "idle"
      BY DEF IInv, TypeOK, Requests, CallInv
    <3>2. Meant(m.call)' = Meant(m.call) /\ input'[m.call] = input[m.call]
      BY <1>4, <3>1, MeantStays DEF Onward
    <3>3. AskedBy(m)
      BY DEF HistoryInv, Asked
    <3>4. QED
      BY <1>2, <3>2, <3>3 DEF AskedBy, configVars
  <2>2. ASSUME NEW m, m = Request(c, given, typed) PROVE AskedBy(m)'
    <3>1. CASE Helper[c] = "SignIn"
      <4>1. auth # Nil /\ auth' = auth
        BY <1>2, <3>1 DEF Begin, configVars
      <4>2. m.call = c /\ Account(m) = Account(auth) /\ m.password = auth.password
        BY <2>2, <3>1 DEF Request, Account
      <4>3. QED
        BY <3>1, <4>1, <4>2 DEF AskedBy
    <3>2. CASE Helper[c] # "SignIn"
      <4>1. m.call = c
        BY <2>2, <3>2 DEF Request
      <4>2. Account(m) = Meant(c)'
        BY <1>3, <2>2, <3>2 DEF Request, Account, Meant, Region
      <4>3. Helper[c] \in {"SignUp", "ConfirmForgotPassword"} => m.password = input'[c].password
        BY <1>3, <2>2, <3>2 DEF Request
      <4>4. QED
        BY <3>2, <4>1, <4>2, <4>3 DEF AskedBy
    <3>3. QED
      BY <3>1, <3>2
  <2>3. QED
    BY <1>1, <2>1, <2>2 DEF Asked
<1>6. AccountSoFar'
  BY <1>2, <1>4, AccountStays
<1>7. EarlierDone'
  <2>1. \A d \in Calls : outcome[d] = "ok" => d \in done
    BY DEF IInv, CallInv
  <2>2. QED
    BY <1>2, <2>1 DEF IInv, TypeOK, HistoryInv, EarlierDone, Begin, pools
<1>8. Reasons'
  <2>1. ~Refused(c)'
    BY <1>2 DEF IInv, TypeOK, CallInv, Refused, Begin
  <2>2. \A d \in Calls \ {c} : Refused(d)' => Refused(d) /\ earlier'[d] = earlier[d]
    BY <1>2 DEF IInv, TypeOK, Refused, Begin
  <2>3. QED
    BY <1>2, <1>4, <2>1, <2>2, ReasonsStay
<1>9. QED
  BY <1>5, <1>6, <1>7, <1>8 DEF HistoryInv

\* What is asked does not change in a step that keeps the client and the inputs, and
\* sends nothing.
LEMMA AskedStays ==
    ASSUME Asked, UNCHANGED <<configVars, input>>, wire' \subseteq wire
    PROVE  Asked'
BY DEF Asked, AskedBy, Meant, configVars

\* A call that returns keeps it, if it is denied only what had been refused.
LEMMA ReturnHistory ==
    ASSUME IInv, HistoryInv, NEW c \in Calls, NEW how \in Outcomes \ {"idle"}, Return(c, how),
           how = "denied" => Refused(c)
    PROVE  HistoryInv'
<1>1. UNCHANGED <<configVars, input, earlier, wire, pools>>
  BY DEF Return
<1>2. Onward
  BY <1>1 DEF IInv, TypeOK, Onward, Return
<1>3. Asked'
  BY <1>1, AskedStays DEF HistoryInv
<1>4. AccountSoFar'
  BY <1>1, <1>2, AccountStays
<1>5. EarlierDone'
  BY <1>1 DEF HistoryInv, EarlierDone, pools
<1>6. Reasons'
  <2>1. \A d \in Calls : Refused(d)' => Refused(d)
    BY DEF IInv, TypeOK, Refused, Return
  <2>2. QED
    BY <1>1, <1>2, <2>1, ReasonsStay
<1>7. QED
  BY <1>3, <1>4, <1>5, <1>6 DEF HistoryInv

\* Cognito's part: applying a request makes the account what the history says.
LEMMA AppliesHistory ==
    ASSUME IInv, HistoryInv, NEW m \in wire, Allowed(m), Applies(m), input' = input
    PROVE  AccountSoFar'
<1> DEFINE r == Account(m)
           c == m.call
<1>1. c \in Calls /\ c \notin done /\ r \in Accounts
  BY DEF IInv, TypeOK, Requests, CallInv, Allowed
<1>2. done' = done \cup {c} /\ \A d : Meant(d)' = Meant(d)
  BY DEF Applies, Meant
<1>3. /\ status' = [status EXCEPT ![r] =
                      IF Helper[c] = "SignUp" THEN "unconfirmed" ELSE "confirmed"]
      /\ password' = [password EXCEPT ![r] =
                        IF Helper[c] \in {"SignUp", "ConfirmForgotPassword"}
                        THEN m.password ELSE @]
  BY DEF Applies
<1>4. /\ status \in [Accounts -> {"none", "unconfirmed", "confirmed"}]
      /\ password \in [Accounts -> Strings]
      /\ Helper[c] \in Helpers
  BY <1>1, HelperAssumption DEF IInv, TypeOK
<1>5. /\ Helper[c] # "SignIn" => r = Meant(c)
      /\ Helper[c] \in {"SignUp", "ConfirmForgotPassword"} => m.password = input[c].password
  BY DEF HistoryInv, Asked, AskedBy
<1>6. /\ Helper[c] = "SignUp" => status[r] = "none"
      /\ Helper[c] \in {"ForgotPassword", "ConfirmForgotPassword", "SignIn"} =>
            status[r] = "confirmed"
      /\ Helper[c] = "ConfirmSignUp" => status[r] = "unconfirmed"
  BY DEF Allowed
<1> HIDE DEF r, c
<1>7. /\ \A a \in Accounts \ {r} : status'[a] = status[a] /\ password'[a] = password[a]
      /\ status'[r] = IF Helper[c] = "SignUp" THEN "unconfirmed" ELSE "confirmed"
      /\ password'[r] = IF Helper[c] \in {"SignUp", "ConfirmForgotPassword"}
                        THEN m.password ELSE password[r]
  BY <1>1, <1>3, <1>4
<1>8. Accounts' = Accounts
  BY DEF Accounts
<1>9. ASSUME NEW a
      PROVE  /\ SignUps(a)' = SignUps(a) \cup {d \in {c} : Helper[c] = "SignUp" /\ Meant(c) = a}
             /\ Resets(a)' = Resets(a) \cup {d \in {c} : Helper[c] = "ConfirmForgotPassword"
                                                        /\ Meant(c) = a}
  BY <1>2 DEF SignUps, Resets
<1>10. Helper[c] = "SignUp" => Resets(r) = {} /\ SignUps(r) = {}
  BY <1>1, <1>6 DEF HistoryInv, AccountSoFar, SignUps, Resets
<1>11. \A a \in Accounts : status'[a] # "none" => SignUps(a)' # {}
  <2>1. ASSUME NEW a \in Accounts, status'[a] # "none" PROVE SignUps(a)' # {}
    <3>1. CASE Helper[c] = "SignUp" /\ a = r
      BY <1>5, <1>9, <3>1
    <3>2. CASE ~(Helper[c] = "SignUp" /\ a = r)
      <4>1. status[a] # "none"
        BY <1>4, <1>6, <1>7, <2>1, <3>2 DEF Helpers
      <4>2. QED
        BY <1>9, <4>1 DEF HistoryInv, AccountSoFar
    <3>3. QED
      BY <3>1, <3>2
  <2>2. QED
    BY <2>1
<1>12. ASSUME NEW d \in done', Helper[d] = "SignUp"
       PROVE  Meant(d) \in Accounts /\ status'[Meant(d)] # "none"
  BY <1>1, <1>2, <1>5, <1>7, <1>12 DEF HistoryInv, AccountSoFar
<1>13. ASSUME NEW d \in done', Helper[d] \in {"ConfirmSignUp", "ConfirmForgotPassword"}
       PROVE  Meant(d) \in Accounts /\ status'[Meant(d)] = "confirmed"
  <2>1. CASE d = c
    BY <1>1, <1>5, <1>7, <1>13, <2>1
  <2>2. CASE d # c
    <3>1. Meant(d) \in Accounts /\ status[Meant(d)] = "confirmed"
      BY <1>2, <1>13, <2>2 DEF HistoryInv, AccountSoFar
    <3>2. QED
      BY <1>6, <1>7, <3>1
  <2>3. QED
    BY <2>1, <2>2
<1>14. ASSUME NEW a \in Accounts, Resets(a)' # {}
       PROVE  \E d \in Resets(a)' : password'[a] = input[d].password
  <2>1. CASE Helper[c] = "ConfirmForgotPassword" /\ a = r
    <3>1. c \in Resets(a)' /\ password'[a] = input[c].password
      BY <1>5, <1>7, <1>9, <2>1
    <3>2. QED
      BY <3>1
  <2>2. CASE ~(Helper[c] = "ConfirmForgotPassword" /\ a = r)
    <3>1. Resets(a)' = Resets(a)
      BY <1>5, <1>9, <2>2
    <3>2. password'[a] = password[a]
      BY <1>7, <1>10, <1>14, <2>2, <3>1
    <3>3. QED
      BY <1>14, <3>1, <3>2 DEF HistoryInv, AccountSoFar
  <2>3. QED
    BY <2>1, <2>2
<1>15. ASSUME NEW a \in Accounts, Resets(a)' = {}, NEW d \in SignUps(a)'
       PROVE  password'[a] = input[d].password
  <2>1. CASE Helper[c] = "SignUp" /\ a = r
    <3>1. d = c
      BY <1>9, <1>10, <1>15, <2>1
    <3>2. QED
      BY <1>5, <1>7, <2>1, <3>1
  <2>2. CASE ~(Helper[c] = "SignUp" /\ a = r)
    <3>1. d \in SignUps(a) /\ Resets(a) = {}
      BY <1>5, <1>9, <1>15, <2>2
    <3>2. password'[a] = password[a]
      BY <1>5, <1>7, <1>9, <1>15, <2>2
    <3>3. QED
      BY <3>1, <3>2 DEF HistoryInv, AccountSoFar
  <2>3. QED
    BY <2>1, <2>2
<1>16. QED
  BY <1>2, <1>8, <1>11, <1>12, <1>13, <1>14, <1>15 DEF AccountSoFar

\* What Cognito does with a request keeps the history.
LEMMA ProviderHistory ==
    ASSUME IInv, HistoryInv, NEW m \in wire, ProviderHandles(m)
    PROVE  HistoryInv'
<1>1. m.call \in Calls /\ outcome[m.call] # "idle"
  BY DEF IInv, TypeOK, Requests, CallInv
<1>2. PICK r \in Replies :
          /\ \/ /\ Allowed(m) /\ r.class \in {"2xx", "5xx"}
                /\ Applies(m)
             \/ /\ ~Allowed(m) /\ r.class = "4xx"
                /\ UNCHANGED pools
             \/ /\ r.class = "5xx"
                /\ UNCHANGED pools
          /\ reply' = IF sent[m.call] = m THEN [reply EXCEPT ![m.call] = r] ELSE reply
  BY DEF ProviderHandles
<1>3. wire' = wire \ {m} /\ UNCHANGED <<configVars, input, sent, outcome, earlier>>
  BY DEF ProviderHandles
<1>4. Onward
  BY <1>3 DEF Onward
<1>5. Asked'
  BY <1>3, AskedStays DEF HistoryInv
<1>6. AccountSoFar'
  <2>1. CASE Allowed(m) /\ Applies(m)
    BY <1>3, <2>1, AppliesHistory
  <2>2. CASE UNCHANGED pools
    BY <1>4, <2>2, AccountStays
  <2>3. QED
    BY <1>2, <2>1, <2>2
<1>7. EarlierDone'
  <2>1. done \subseteq done'
    BY <1>2 DEF Applies, pools
  <2>2. QED
    BY <1>3, <2>1 DEF HistoryInv, EarlierDone
<1>8. ASSUME NEW c \in Calls, Refused(c)' PROVE Reason(c)'
  <2>1. Reason(c) /\ outcome[c] # "idle"
    <3>1. CASE Refused(c)
      BY <3>1 DEF IInv, CallInv, Refused, HistoryInv, Reasons
    <3>2. CASE ~Refused(c)
      <4>1. c = m.call /\ r.class = "4xx"
        BY <1>1, <1>2, <1>3, <1>8, <3>2 DEF IInv, TypeOK, Refused
      <4>2. ~Allowed(m)
        BY <1>2, <4>1
      <4>3. Helper[c] \notin {"SignUp", "SignIn"} => Reason(c)
        BY DEF Reason
      <4>4. QED
        BY <1>1, <4>1, <4>2, <4>3, SignUpHasReason, SignInHasReason
    <3>3. QED
      BY <3>1, <3>2
  <2>2. QED
    BY <1>3, <1>4, <2>1, ReasonStays
<1>9. QED
  BY <1>5, <1>6, <1>7, <1>8 DEF HistoryInv, Reasons

\* The history is inductive, given IInv.
LEMMA HistoryStep ==
    ASSUME IInv, HistoryInv, [Next]_vars
    PROVE  HistoryInv'
<1>1. CASE ConfigNext /\ UNCHANGED accountVars
  <2>1. auth = Nil
    BY <1>1, ManagerStays
  <2>2. Onward /\ UNCHANGED pools
    BY <1>1 DEF Onward, accountVars, pools
  <2>3. Asked'
    BY <1>1, <2>1 DEF HistoryInv, Asked, AskedBy, Meant, accountVars
  <2>4. AccountSoFar' /\ EarlierDone'
    BY <1>1, <2>2, AccountStays DEF HistoryInv, EarlierDone, accountVars
  <2>5. ASSUME NEW c \in Calls, Refused(c)' PROVE Reason(c)'
    <3>1. Refused(c) /\ Reason(c)
      BY <1>1, <2>5 DEF HistoryInv, Reasons, Refused, accountVars
    <3>2. Helper[c] # "SignIn"
      BY <2>1, <3>1 DEF Reason
    <3>3. Meant(c)' = Meant(c) /\ \A a : Begun("SignUp", a)' = Begun("SignUp", a)
      BY <1>1 DEF Begun, Meant, accountVars
    <3>4. Accounts' = Accounts
      BY DEF Accounts
    <3>5. QED
      BY <3>1, <3>2, <3>3, <3>4 DEF Reason
  <2>6. QED
    BY <2>3, <2>4, <2>5 DEF HistoryInv, Reasons
<1>2. ASSUME NEW c \in Calls, Begin(c) PROVE HistoryInv'
  BY <1>2, BeginHistory
<1>3. ASSUME NEW c \in Calls, ConnectionFails(c) PROVE HistoryInv'
  <2>1. "open" \in Outcomes \ {"idle"}
    BY DEF Outcomes
  <2>2. QED
    BY <1>3, <2>1, ReturnHistory DEF ConnectionFails
<1>4. ASSUME NEW c \in Calls, Receive(c) PROVE HistoryInv'
  <2> DEFINE how == IF Helper[c] = "SignIn" THEN SignedIn(reply[c]) ELSE Answered(reply[c])
  <2>1. reply[c] # Nil /\ Return(c, how)
    BY <1>4 DEF Receive
  <2>2. how \in Outcomes \ {"idle"} /\ (how = "denied" => reply[c].class = "4xx")
    BY DEF Answered, SignedIn, Outcomes
  <2> HIDE DEF how
  <2>3. QED
    BY <2>1, <2>2, ReturnHistory DEF Refused
<1>5. ASSUME NEW m \in wire, ProviderHandles(m) PROVE HistoryInv'
  BY <1>5, ProviderHistory
<1>6. CASE UNCHANGED vars
  <2>1. UNCHANGED <<configVars, input, wire, outcome, reply, earlier, pools>>
    BY <1>6 DEF vars, accountVars, pools
  <2>2. Onward
    BY <2>1 DEF Onward
  <2>3. Asked'
    BY <2>1, AskedStays DEF HistoryInv
  <2>4. AccountSoFar' /\ EarlierDone'
    BY <2>1, <2>2, AccountStays DEF HistoryInv, EarlierDone, pools
  <2>5. Reasons'
    BY <2>1, <2>2, ReasonsStay DEF Refused
  <2>6. QED
    BY <2>3, <2>4, <2>5 DEF HistoryInv
<1>7. QED
  BY <1>1, <1>2, <1>3, <1>4, <1>5, <1>6 DEF Next

\* Registration, NewClient's options and SignIn agree on the account, for any calls with
\* any inputs, any options and any interleaving: a sign-up for an account that there can
\* be is refused only because of another one, and a sign-in with the e-mail, the client
\* id, the region and the password of a registration that is over is not refused
\* (auth.go:110-157, client.go:112-139).
THEOREM RefusalsExplained == Spec => []RefusedForAReason
<1>1. IInv /\ HistoryInv /\ [Next]_vars => HistoryInv'
  BY HistoryStep
<1>2. HistoryInv => RefusedForAReason
  BY DEF HistoryInv, Reasons, Refused, Reason, RefusedForAReason
<1>3. QED
  BY <1>1, <1>2, InitHistory, Always, PTL DEF Spec
===============================================================================
