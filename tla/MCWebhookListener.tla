-------------------------- MODULE MCWebhookListener ---------------------------
(* WebhookListener for TLC: the registrations of the runs.                  *)
EXTENDS WebhookListener

CONSTANTS h1

NoRegistrations == {}
AlertAndError == {<<"alert", h1>>, <<"error", h1>>}
===============================================================================
