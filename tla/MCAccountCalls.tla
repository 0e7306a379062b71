---------------------------- MODULE MCAccountCalls ----------------------------
(* AccountCalls for TLC: one call of every function, for an e-mail with an  *)
(* account to be in either of two regions, and the options.                *)
EXTENDS AccountCalls, TLC

CONSTANTS up, cu, fp, cf, si, east, west, old, new

OneOfEach ==
    up :> "SignUp" @@ cu :> "ConfirmSignUp" @@ fp :> "ForgotPassword"
        @@ cf :> "ConfirmForgotPassword" @@ si :> "SignIn"

In(region, clientID, email, p) ==
    [region |-> region, clientID |-> clientID, email |-> email, password |-> p]

Either(p) == {In(Empty, "id", "email", p), In(west, "west id", "email", p)}

\* Either account; a sign-up with the client id of the other region; and a code typed
\* for another address.
SomeInputs ==
    up :> Either(old) \cup {In(west, "id", "email", old)}
        @@ cu :> Either(Empty)
        @@ fp :> {In(west, "west id", "email", Empty)}
        @@ cf :> {In(west, "west id", e, new) : e \in {"email", "other"}}
        @@ si :> {}

SomeTexts == {"id", "west id", "email", "other", old, new}

TwoClients == east :> "id" @@ west :> "west id"

SomeOptions ==
    {WithCognito("email", old, "id"), WithCognito("email", new, "west id"),
     WithCognito(Empty, old, "id"), WithCognito("email", new, Empty),
     WithCognitoRegion(west), WithAPIKey("key"), WithSigner("signer"),
     WithHTTPClient("hc")}
===============================================================================
