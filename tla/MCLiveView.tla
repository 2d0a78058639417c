----------------------------- MODULE MCLiveView -----------------------------
(* Three batches, a quiet window of two ticks under a ceiling of four. *)
EXTENDS LiveView
=============================================================================
