---------------------------- MODULE MCCognitoAuth -----------------------------
(* CognitoAuth for TLC: every constant is given by the configurations.      *)
EXTENDS CognitoAuth
===============================================================================
