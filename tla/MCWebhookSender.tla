--------------------------- MODULE MCWebhookSender ----------------------------
(* WebhookSender for TLC: the default backoff of three delays (webhooks.go:67).*)
EXTENDS WebhookSender
===============================================================================
