----------------------------- MODULE MCPayment -----------------------------
(* One order: a payment, a retry of it, another request under its key, and *)
(* a payment under a key of its own.                                       *)
EXTENDS Payment, TLC

CONSTANTS c1, c2, c3, c4, h1, k1, k2, card, qr, o1

MCKeyOf     == [c \in Calls |-> IF c = c3 THEN k2 ELSE k1]
MCRequestOf == [c \in Calls |-> IF c = c4 THEN qr ELSE card]
MCOrderOf   == (card :> o1) @@ (qr :> o1)

Symm == Permutations({c1, c2})
=============================================================================
