------------------------------ MODULE TokenStore ------------------------------
(***************************************************************************)
(* What the Cognito token cache of auth.go promises to the goroutines that *)
(* share it, without locks, requests or call stacks.                       *)
(*                                                                         *)
(* The cache is one atomic cell.  The identity provider grants token sets; *)
(* each grant reaches the cell at most once, or is lost on the way and     *)
(* then never reaches it.  The application may ask for the cell to be      *)
(* overwritten with nil, with an empty token set, with one that an earlier *)
(* process persisted or with one that a caller has been handed; what it    *)
(* asked for is written once.  So no token set reaches the cell that was   *)
(* not granted, and none that was lost or is still on its way by another   *)
(* door.  Whatever a caller is handed is what the cell holds at that step. *)
(***************************************************************************)
CONSTANTS Callers,   \* the goroutines that share the cache
          TokenIds,  \* the token sets the provider can grant
          Saved,     \* the token sets persisted by an earlier process
          NoTokens,  \* the nil *CognitoTokens
          Blank      \* a non-nil token set whose IDToken is empty

VARIABLES cell,     \* the token set in the cache
          used,     \* the token sets granted so far
          pending,  \* granted, not yet installed and not yet lost
          handed,   \* what each caller was last handed
          asked     \* the overwrites under way: pairs of caller and value

storeVars == <<cell, used, pending, handed, asked>>

Init ==
    /\ cell = NoTokens
    /\ used = Saved
    /\ pending = {}
    /\ handed = [c \in Callers |-> NoTokens]
    /\ asked = {}

Grant ==
    \E t \in TokenIds \ used :
        /\ used' = used \cup {t}
        /\ pending' = pending \cup {t}
        /\ UNCHANGED <<cell, handed, asked>>

Install ==
    \E t \in pending :
        /\ cell' = t
        /\ pending' = pending \ {t}
        /\ UNCHANGED <<used, handed, asked>>

Lose ==
    \E t \in pending :
        /\ pending' = pending \ {t}
        /\ UNCHANGED <<cell, used, handed, asked>>

Askable == {NoTokens, Blank} \cup Saved \cup {handed[c] : c \in Callers}

Ask(c) ==
    /\ UNCHANGED <<cell, used, pending, handed>>
    /\ \A a \in asked : a[1] # c
    /\ asked' \in {asked \cup {<<c, t>>} : t \in Askable}

Overwrite ==
    \E a \in asked :
        /\ cell' = a[2]
        /\ asked' = asked \ {a}
        /\ UNCHANGED <<used, pending, handed>>

HandOut(c) ==
    /\ handed' = [handed EXCEPT ![c] = cell]
    /\ UNCHANGED <<cell, used, pending, asked>>

Next ==
    \/ Grant
    \/ Install
    \/ Lose
    \/ Overwrite
    \/ \E c \in Callers : Ask(c) \/ HandOut(c)

Spec == Init /\ [][Next]_storeVars
===============================================================================
