---------------------------- MODULE MCCheckout -----------------------------
(* Three calls with one key: a request, a retry of it, and another cart.   *)
EXTENDS Checkout, TLC

CONSTANTS c1, c2, c3, k1, shirt, shoes

MCKeyOf  == [c \in Calls |-> k1]
MCCartOf == (c1 :> shirt) @@ (c2 :> shirt) @@ (c3 :> shoes)
=============================================================================
