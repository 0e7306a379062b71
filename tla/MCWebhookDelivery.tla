-------------------------- MODULE MCWebhookDelivery ---------------------------
(* WebhookDelivery for TLC: two attempts, and the registrations of the run.  *)
EXTENDS WebhookDelivery

CONSTANTS h1, h2, h3

TwoTests == {<<"test", h1>>, <<"test", h2>>, <<"error", h3>>}
===============================================================================
