----------------------------- MODULE MCLeaseBook -----------------------------
(* Three hosts, two tokens, leases of a few ticks. *)
EXTENDS LeaseBook
==============================================================================
