--------------------------- MODULE MCRequestPath ---------------------------
(* One process, one request at a time to it among others to the same target.*)
EXTENDS RequestPath

CONSTANT c1

MCUnits == Calls \X (1..MaxAttempts)

Request(route, user, form) == [route |-> route, user |-> user, form |-> form]

\* The catalog's process is the identity service's by another name, with reads only.
MCMains == AllMains \ {catalogServer}

\* A write that is not repeated, refused by the edge or by the service; one that is;
\* a checkout with a token and without; a payment, and a stranger's.
MCArrivals ==
  {Request(register, "none", "fits"),
   Request(register, "none", "misfit"),
   Request(commit, "none", "fits"),
   Request(checkout, "ann", "odd"),
   Request(checkout, "none", "fits"),
   Request(startPayment, "ann", "fits"),
   Request(startPayment, "bob", "fits")}
=============================================================================
