---------------------------- MODULE MCBillingJob ----------------------------
(* One workspace, two billing periods, a few units of usage. *)
EXTENDS BillingJob
=============================================================================
