------------------------------ MODULE MCWebhook ------------------------------
(* Either store, two handlers, two events, three faults.                     *)
EXTENDS Webhook

=============================================================================
