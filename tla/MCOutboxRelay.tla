--------------------------- MODULE MCOutboxRelay ---------------------------
(* Three events: two of one order on one partition, with another order's   *)
(* event on a second partition inserted between them.                      *)
EXTENDS OutboxRelay, TLC

CONSTANTS a, b, p1, p2, r1, r2

MCKeyOf  == (1 :> a) @@ (2 :> b) @@ (3 :> a)
MCPartOf == (a :> p1) @@ (b :> p2)
=============================================================================
