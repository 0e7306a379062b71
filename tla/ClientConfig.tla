----------------------------- MODULE ClientConfig -----------------------------
(***************************************************************************)
(* NewClient and its options (client.go): the options are applied one after*)
(* another, then the authentication mode is checked and the auth manager   *)
(* made.  An option is the function of the fields it assigns.              *)
(*                                                                         *)
(* The empty string and a nil signer are Empty.  baseURL, which only ends  *)
(* up in URLs, and the service namespaces, which only point to the client, *)
(* are left out.                                                           *)
(***************************************************************************)
EXTENDS Naturals, Sequences, FiniteSets

CONSTANTS
    Options,        \* the options the application chooses from
    MaxOptions,     \* bound: how many it passes
    Empty,
    DefaultClient,  \* http.DefaultClient
    DefaultCognitoRegion,
    Nil

ConfigFields ==
    {"apiKey", "signer", "cognitoEmail", "cognitoPassword", "cognitoClientID",
     "cognitoRegion", "httpClient"}

Values ==
    {Empty, DefaultClient, DefaultCognitoRegion}
        \cup UNION {{o[f] : f \in DOMAIN o} : o \in Options}

WithAPIKey(key) == [f \in {"apiKey"} |-> key]

WithSigner(s) == [f \in {"signer"} |-> s]

WithCognito(email, password, clientID) ==
    [cognitoEmail |-> email, cognitoPassword |-> password, cognitoClientID |-> clientID]

WithCognitoRegion(region) == [f \in {"cognitoRegion"} |-> region]

WithHTTPClient(hc) == [f \in {"httpClient"} |-> hc]

Managers ==
    [clientID : Values, region : Values, httpClient : Values, email : Values,
     password : Values]

ASSUME OptionsAssumption ==
    /\ \A o \in Options : DOMAIN o \subseteq ConfigFields /\ o = [f \in DOMAIN o |-> o[f]]
    /\ DefaultClient # Empty
    /\ Nil \notin Managers
    /\ MaxOptions \in Nat

VARIABLES
    config,   \* the Client's fields
    applied,  \* history: the options applied so far
    phase,    \* where NewClient is, or how it returned
    auth      \* Client.Auth

configVars == <<config, applied, phase, auth>>

Phases == {"options", "built", "many_modes", "no_client_id"}

ConfigTypeOK ==
    /\ config \in [ConfigFields -> Values]
    /\ applied \in Seq(Options)
    /\ phase \in Phases
    /\ auth \in Managers \cup {Nil}

Default ==
    [f \in ConfigFields |->
        IF f = "cognitoRegion" THEN DefaultCognitoRegion
        ELSE IF f = "httpClient" THEN DefaultClient ELSE Empty]

ConfigInit ==
    /\ config = Default
    /\ applied = <<>>
    /\ phase = "options"
    /\ auth = Nil

-------------------------------------------------------------------------------

ApplyOption(o) ==
    /\ phase = "options"
    /\ Len(applied) < MaxOptions
    /\ config' = [f \in ConfigFields |-> IF f \in DOMAIN o THEN o[f] ELSE config[f]]
    /\ applied' = Append(applied, o)
    /\ UNCHANGED <<phase, auth>>

UsesCognito == config["cognitoEmail"] # Empty \/ config["cognitoClientID"] # Empty

\* Cognito recognised by its e-mail alone.
MutModes ==
    {m \in {"apikey", "x402", "cognito"} :
        \/ m = "apikey" /\ config["apiKey"] # Empty
        \/ m = "x402" /\ config["signer"] # Empty
        \/ m = "cognito" /\ config["cognitoEmail"] # Empty}

\* NewClient counts them.
Modes ==
    {m \in {"apikey", "x402", "cognito"} :
        \/ m = "apikey" /\ config["apiKey"] # Empty
        \/ m = "x402" /\ config["signer"] # Empty
        \/ m = "cognito" /\ UsesCognito}

\* Client.AuthMode, its switch in order.
AuthMode ==
    IF config["apiKey"] # Empty THEN "apikey"
    ELSE IF config["signer"] # Empty THEN "x402"
    ELSE IF UsesCognito THEN "cognito"
    ELSE "none"

\* The defaults passed in place of the client's own fields.
MutNewCognitoAuth ==
    [clientID |-> config["cognitoClientID"], region |-> DefaultCognitoRegion,
     httpClient |-> DefaultClient, email |-> config["cognitoEmail"],
     password |-> config["cognitoPassword"]]

NewCognitoAuth ==
    [clientID |-> config["cognitoClientID"], region |-> config["cognitoRegion"],
     httpClient |-> config["httpClient"], email |-> config["cognitoEmail"],
     password |-> config["cognitoPassword"]]

\* NewClient after the loop.
Build ==
    /\ phase = "options"
    /\ IF Cardinality(Modes) > 1
       THEN phase' = "many_modes" /\ UNCHANGED auth
       ELSE IF AuthMode # "cognito"
       THEN phase' = "built" /\ UNCHANGED auth
       ELSE IF config["cognitoClientID"] = Empty
       THEN phase' = "no_client_id" /\ UNCHANGED auth
       ELSE phase' = "built" /\ auth' = NewCognitoAuth
    /\ UNCHANGED <<config, applied>>

ConfigNext == Build \/ \E o \in Options : ApplyOption(o)

ConfigSpec == ConfigInit /\ [][ConfigNext]_configVars

-------------------------------------------------------------------------------
(* Properties.                                                              *)

\* The value the application chose for a field: the last option that assigns it.
Setters(f) == {i \in DOMAIN applied : f \in DOMAIN applied[i]}

LastOption(f) ==
    IF Setters(f) = {} THEN Default[f]
    ELSE applied[CHOOSE i \in Setters(f) : \A j \in Setters(f) : j <= i][f]

\* The auth manager works with the last option of each sort, in whatever order they
\* came: a region or an http.Client given before or after WithCognito reaches it,
\* and a second WithCognito replaces the first one whole (client.go:31, 117-139).
ManagerHasLastOptions ==
    auth # Nil =>
        /\ auth.email = LastOption("cognitoEmail")
        /\ auth.password = LastOption("cognitoPassword")
        /\ auth.clientID = LastOption("cognitoClientID")
        /\ auth.region = LastOption("cognitoRegion")
        /\ auth.httpClient = LastOption("httpClient")

\* "Only one auth mode is allowed at a time" (client.go:104): a client that was
\* built has been given the credentials of the mode it reports and of no other, and
\* in cognito mode, never elsewhere, the manager that do and rpc ask for a token
\* (client.go:84, 267).  NewClient and AuthMode tell the modes apart separately.
OneModePerClient ==
    phase = "built" =>
        /\ AuthMode = "apikey" => LastOption("signer") = Empty
        /\ AuthMode \in {"apikey", "x402"} =>
              LastOption("cognitoEmail") = Empty /\ LastOption("cognitoClientID") = Empty
        /\ (auth # Nil) <=> (AuthMode = "cognito")
        /\ auth # Nil => auth.clientID # Empty
===============================================================================
