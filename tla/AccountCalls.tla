----------------------------- MODULE AccountCalls -----------------------------
(***************************************************************************)
(* Registration, password reset and sign-in (auth.go): the package-level   *)
(* helpers, each call with an input of its own, next to a Client built with*)
(* options, whose manager signs in.  Every call is one exchange of         *)
(* cognitoRequest; it may give up while its request is on its way.  What a *)
(* sign-in stores is CognitoAuth's.                                        *)
(*                                                                         *)
(* External: Cognito, one user pool with one app client per region.  It    *)
(* checks and applies a request in one step; a code it sends is named after*)
(* the call that made it send it, and works once.                          *)
(***************************************************************************)
EXTENDS ClientConfig

CONSTANTS
    Calls,          \* the calls of the run
    Helper,         \* the function of each
    Inputs,         \* the inputs the application may give each
    Texts,          \* the e-mails, client ids and passwords in them
    Regions,        \* external: where there is a user pool
    AppClient,      \* external: the client id of each pool
    Emails          \* external: the addresses there are

Helpers == {"SignUp", "ConfirmSignUp", "ForgotPassword", "ConfirmForgotPassword", "SignIn"}

ASSUME HelperAssumption ==
    /\ Helper \in [Calls -> Helpers]
    /\ Calls \cap {Nil, Empty} = {}

\* password is SignUpInput.Password or ConfirmForgotPasswordInput.NewPassword.
Input ==
    [region : Regions \cup {Empty}, clientID : Texts, email : Texts,
     password : Texts \cup {Empty}]

\* An option with an empty region, which NewClient would keep as it is, is left out.
ASSUME RegionAssumption ==
    /\ Empty \notin Regions /\ DefaultCognitoRegion \in Regions
    /\ Inputs \in [Calls -> SUBSET Input]
    /\ \A o \in Options : "cognitoRegion" \in DOMAIN o => o["cognitoRegion"] \in Regions
    /\ AppClient \in [Regions -> Texts]
    /\ Emails \subseteq Texts \ {Empty}

VARIABLES
    input,    \* the input of each helper call
    sent,     \* the request each call waits for
    reply,    \* the answer that has arrived
    outcome,  \* how the call ended
    earlier,  \* history: calls that had succeeded when a sign-in began
    wire,     \* external: requests on their way
    status,   \* external: of each account
    password, \* external: its password
    code,     \* external: the code that works
    mail,     \* external: codes the user has received
    done      \* history, external: what the calls' requests were applied

accountVars == <<input, sent, reply, outcome, earlier, wire, status, password, code,
                 mail, done>>

vars == <<configVars, accountVars>>

pools == <<status, password, code, mail, done>>

Strings == Texts \cup Values

Requests ==
    [call : Calls, region : Regions, clientID : Strings, email : Strings,
     password : Strings, code : Calls \cup {Nil}]

\* The account a request is about, or an input or a manager.
Account(x) == [region |-> x.region, clientID |-> x.clientID, email |-> x.email]

\* External: the accounts there can be.
Accounts ==
    {[region |-> r, clientID |-> AppClient[r], email |-> e] : r \in Regions, e \in Emails}

Replies == [class : {"2xx", "4xx", "5xx"}, body : {"result", "challenge", "named", "bare", "garbled"}]

\* "denied" is an AuthError with the name of a refusal, "open" any other error: an
\* AuthError without a name or with that of a fault, an answer that does not decode,
\* a failed request.
Outcomes == {"idle", "pending", "ok", "mfa", "denied", "open"}

TypeOK ==
    /\ ConfigTypeOK
    /\ input \in [Calls -> Input \cup {Nil}]
    /\ sent \in [Calls -> Requests \cup {Nil}]
    /\ reply \in [Calls -> Replies \cup {Nil}]
    /\ outcome \in [Calls -> Outcomes]
    /\ earlier \in [Calls -> SUBSET Calls]
    /\ wire \subseteq Requests
    /\ status \in [Accounts -> {"none", "unconfirmed", "confirmed"}]
    /\ password \in [Accounts -> Strings]
    /\ code \in [Accounts -> Calls \cup {Nil}]
    /\ mail \subseteq Calls
    /\ done \subseteq Calls

Init ==
    /\ ConfigInit
    /\ input = [c \in Calls |-> Nil]
    /\ sent = [c \in Calls |-> Nil]
    /\ reply = [c \in Calls |-> Nil]
    /\ outcome = [c \in Calls |-> "idle"]
    /\ earlier = [c \in Calls |-> {}]
    /\ wire = {}
    /\ status = [a \in Accounts |-> "none"]
    /\ password = [a \in Accounts |-> Empty]
    /\ code = [a \in Accounts |-> Nil]
    /\ mail = {}
    /\ done = {}

-------------------------------------------------------------------------------
(* The SDK.                                                                 *)

\* The input's region as it is.
MutRegionAsIs(given) == given

\* The input's region forgotten.
MutRegion(given) == DefaultCognitoRegion
\* The four helpers: "defaults to DefaultCognitoRegion if empty".
Region(given) == IF given = Empty THEN DefaultCognitoRegion ELSE given

\* SignIn takes what the manager was built with, the helpers their input.  The user
\* types a code from the mail.
Request(c, given, typed) ==
    IF Helper[c] = "SignIn"
    THEN [call |-> c, region |-> auth.region, clientID |-> auth.clientID,
          email |-> auth.email, password |-> auth.password, code |-> Nil]
    ELSE [call |-> c, region |-> Region(given.region), clientID |-> given.clientID,
          email |-> given.email,
          password |-> IF Helper[c] \in {"SignUp", "ConfirmForgotPassword"}
                       THEN given.password ELSE Empty,
          code |-> typed]

Given(c) == IF Helper[c] = "SignIn" THEN {Nil} ELSE Inputs[c]

Typed(c) ==
    IF Helper[c] = "ConfirmSignUp" THEN {d \in mail : Helper[d] = "SignUp"}
    ELSE IF Helper[c] = "ConfirmForgotPassword" THEN {d \in mail : Helper[d] = "ForgotPassword"}
    ELSE {Nil}

Begin(c) ==
    /\ outcome[c] = "idle"
    /\ Helper[c] = "SignIn" => auth # Nil
    /\ \E given \in Given(c), typed \in Typed(c) :
          /\ input' = [input EXCEPT ![c] = given]
          /\ sent' = [sent EXCEPT ![c] = Request(c, given, typed)]
          /\ wire' = wire \cup {Request(c, given, typed)}
    /\ outcome' = [outcome EXCEPT ![c] = "pending"]
    /\ earlier' = [earlier EXCEPT ![c] =
                      {d \in Calls : Helper[c] = "SignIn" /\ outcome[d] = "ok"}]
    /\ UNCHANGED <<configVars, reply, pools>>

Return(c, how) ==
    /\ sent' = [sent EXCEPT ![c] = Nil]
    /\ reply' = [reply EXCEPT ![c] = Nil]
    /\ outcome' = [outcome EXCEPT ![c] = how]
    /\ UNCHANGED <<configVars, input, earlier, wire, pools>>

\* The connection breaks or the context ends.
ConnectionFails(c) ==
    /\ outcome[c] = "pending"
    /\ Return(c, "open")

\* A status of 500 or more taken for an answer.
MutAnswered(r) ==
    IF r.class = "4xx" THEN IF r.body = "named" THEN "denied" ELSE "open"
    ELSE IF r.body = "garbled" THEN "open"
    ELSE "ok"

\* cognitoRequest.  AuthError keeps the name of the error, "__type", if the body has
\* one, and not the status; "named" stands for the names of refusals.
Answered(r) ==
    IF r.class = "4xx" /\ r.body = "named" THEN "denied"
    ELSE IF r.class # "2xx" \/ r.body = "garbled" THEN "open"
    ELSE "ok"

\* cognitoInitiateAuth takes every challenge for MFA; the tokens may be missing.
SignedIn(r) ==
    IF Answered(r) # "ok" THEN Answered(r)
    ELSE IF r.body = "challenge" THEN "mfa"
    ELSE IF r.body = "result" THEN "ok"
    ELSE "open"

Receive(c) ==
    /\ reply[c] # Nil
    /\ Return(c, IF Helper[c] = "SignIn" THEN SignedIn(reply[c]) ELSE Answered(reply[c]))

-------------------------------------------------------------------------------
(* External: Cognito.                                                       *)

\* The host names the pool's region, ClientId and the user name the account in it.
Allowed(m) ==
    LET a == Account(m)
        helper == Helper[m.call]
    IN  /\ a \in Accounts
        /\ helper = "SignUp" => status[a] = "none"
        /\ helper = "ConfirmSignUp" => status[a] = "unconfirmed" /\ code[a] = m.code
        /\ helper = "ForgotPassword" => status[a] = "confirmed"
        /\ helper = "ConfirmForgotPassword" => status[a] = "confirmed" /\ code[a] = m.code
        /\ helper = "SignIn" => status[a] = "confirmed" /\ password[a] = m.password

\* A sign-up and a reset send a code, their confirmations use it up.
Applies(m) ==
    LET a == Account(m)
        helper == Helper[m.call]
        sends == helper \in {"SignUp", "ForgotPassword"}
    IN  /\ status' = [status EXCEPT ![a] =
                         IF helper = "SignUp" THEN "unconfirmed" ELSE "confirmed"]
        /\ password' = [password EXCEPT ![a] =
                           IF helper \in {"SignUp", "ConfirmForgotPassword"}
                           THEN m.password ELSE @]
        /\ code' = [code EXCEPT ![a] =
                       IF sends THEN m.call ELSE IF helper = "SignIn" THEN @ ELSE Nil]
        /\ mail' = IF sends THEN mail \cup {m.call} ELSE mail
        /\ done' = done \cup {m.call}

\* What is not allowed is refused with a name.  A fault may come before the request
\* is applied or after it.
ProviderHandles(m) ==
    /\ m \in wire
    /\ wire' = wire \ {m}
    /\ \E r \in Replies :
          /\ \/ /\ Allowed(m) /\ r.class \in {"2xx", "5xx"}
                /\ Applies(m)
             \/ /\ ~Allowed(m) /\ r.class = "4xx"
                /\ UNCHANGED pools
             \/ /\ r.class = "5xx"
                /\ UNCHANGED pools
          /\ r.class = "4xx" => r.body \in {"named", "bare"}
          /\ r.class = "5xx" => r.body = "bare"
          /\ r.class = "2xx" =>
                r.body \in {"result", "garbled"}
                              \cup IF Helper[m.call] = "SignIn" THEN {"challenge", "bare"} ELSE {}
          /\ reply' = IF sent[m.call] = m THEN [reply EXCEPT ![m.call] = r] ELSE reply
    /\ UNCHANGED <<configVars, input, sent, outcome, earlier>>

-------------------------------------------------------------------------------

Next ==
    \/ ConfigNext /\ UNCHANGED accountVars
    \/ \E c \in Calls : Begin(c) \/ ConnectionFails(c) \/ Receive(c)
    \/ \E m \in wire : ProviderHandles(m)

Spec == Init /\ [][Next]_vars

-------------------------------------------------------------------------------
(* Properties.                                                              *)

\* A helper that returns nil has done what it was asked; one whose error bears the
\* name of a refusal has not, nor will its request still be applied.  An error
\* without a name, a fault or no answer leaves it open (auth.go:250-275).
OutcomesMatchAccount ==
    \A c \in Calls :
        /\ outcome[c] \in {"ok", "mfa"} => c \in done
        /\ outcome[c] = "denied" => c \notin done /\ \A m \in wire : m.call # c

\* The application's side of it: the account it means in a helper's input, the one it
\* means in its last options, and the password that the calls that have returned nil
\* have given an account, as long as no reset of it is open.
Meant(c) ==
    [region |-> IF input[c].region = Empty THEN DefaultCognitoRegion ELSE input[c].region,
     clientID |-> input[c].clientID, email |-> input[c].email]

MeantByClient ==
    [region |-> LastOption("cognitoRegion"), clientID |-> LastOption("cognitoClientID"),
     email |-> LastOption("cognitoEmail")]

Begun(helper, a) ==
    {c \in Calls : Helper[c] = helper /\ outcome[c] # "idle" /\ Meant(c) = a}

Agreed(past, a) ==
    {input[c].password :
        c \in {d \in past :
                  \/ d \in Begun("SignUp", a) /\ Begun("ConfirmForgotPassword", a) = {}
                  \/ Begun("ConfirmForgotPassword", a) = {d}}}

Registered(past, a) ==
    /\ past \cap Begun("SignUp", a) # {}
    /\ past \cap Begun("ConfirmSignUp", a) # {}

\* Registration, options and sign-in agree on the account, whatever else went on before
\* and meanwhile, in this region or another: a sign-up is refused only if there can be
\* no such account or another sign-up for it was begun; and once SignUp and
\* ConfirmSignUp have returned nil for an account, a client whose last options are its
\* e-mail, its client id, its region, given or left to the default, and the password
\* last agreed on is not refused (auth.go:110-146, 148-157, client.go:112-139).
RefusedForAReason ==
    \A c \in Calls : outcome[c] = "denied" =>
        /\ Helper[c] = "SignUp" =>
              \/ Meant(c) \notin Accounts
              \/ \E d \in Begun("SignUp", Meant(c)) : d # c
        /\ Helper[c] = "SignIn" =>
              \/ ~Registered(earlier[c], MeantByClient)
              \/ LastOption("cognitoPassword") \notin Agreed(earlier[c], MeantByClient)
===============================================================================
