-------------------------- MODULE MC_WebhookConfig --------------------------
(* Model-checking instance of WebhookConfig: up to three fields set, so    *)
(* that a port, a list and a nested serving field can all differ from      *)
(* their zero values in one configuration.                                 *)
EXTENDS WebhookConfig
=============================================================================
