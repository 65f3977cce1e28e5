-------------------------- MODULE MCEventConsumer --------------------------
(* Two processes of one group and a partition with up to three messages.   *)
EXTENDS EventConsumer

CONSTANTS pay, sell, odd, bad, m1, m2
=============================================================================
