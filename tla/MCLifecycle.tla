---------------------------- MODULE MCLifecycle ----------------------------
(* An instance of Lifecycle: one more process than there are faults, so that a
   daemon can come up after each. *)
EXTENDS Lifecycle
=============================================================================
