---------------------------- MODULE StockLedger ----------------------------
(***************************************************************************)
(* What the inventory service promises its callers, with no transactions,  *)
(* locks or versions in sight: a hold takes all its units at once or none, *)
(* ends once, and gives its units back exactly when it does not become a   *)
(* sale.  Inventory implements this specification.                         *)
(***************************************************************************)
EXTENDS Integers, FiniteSets

CONSTANTS SKUs, Orders, Reservations, Baskets, MaxQty, None

VARIABLES available,  \* units of each SKU a new hold may take
          status,     \* where each reservation is in its life
          order,      \* whom it was taken for
          lines       \* how many units of each SKU it took

ledger == <<available, status, order, lines>>

\* The units of SKU s that the reservations of R took.
UnitsOf(R, s) == {u \in R \X (1..MaxQty) : u[2] <= lines[u[1]][s]}

LedgerInit ==
  /\ available = [s \in SKUs |-> 0]
  /\ status = [r \in Reservations |-> "none"]
  /\ order = [r \in Reservations |-> None]
  /\ lines = [r \in Reservations |-> [s \in SKUs |-> 0]]

\* A delivery, a write-off or a first count: nothing held is touched.
Recount(s) ==
  /\ available'[s] >= 0
  /\ \A u \in SKUs \ {s} : available'[u] = available[u]
  /\ UNCHANGED <<status, order, lines>>

\* All lines or none, for an order that holds nothing.
Take(r, o, b) ==
  /\ status[r] = "none"
  /\ \A u \in Reservations : ~(status[u] = "held" /\ order[u] = o)
  /\ \A s \in SKUs : available[s] >= b[s]
  /\ available' = [s \in SKUs |-> available[s] - b[s]]
  /\ status' = [status EXCEPT ![r] = "held"]
  /\ order' = [order EXCEPT ![r] = o]
  /\ lines' = [lines EXCEPT ![r] = b]

Sell(r) ==
  /\ status[r] = "held"
  /\ status' = [status EXCEPT ![r] = "committed"]
  /\ UNCHANGED <<available, order, lines>>

GiveBack(r) ==
  /\ status[r] = "held"
  /\ status' = [status EXCEPT ![r] = "released"]
  /\ available' = [s \in SKUs |-> available[s] + lines[r][s]]
  /\ UNCHANGED <<order, lines>>

\* A sweep ends a whole batch at once.
Sweep(B) ==
  /\ \A r \in B : status[r] = "held"
  /\ status' = [r \in Reservations |-> IF r \in B THEN "expired" ELSE status[r]]
  /\ available' = [s \in SKUs |-> available[s] + Cardinality(UnitsOf(B, s))]
  /\ UNCHANGED <<order, lines>>

LedgerNext ==
  \/ \E s \in SKUs : Recount(s)
  \/ \E r \in Reservations, o \in Orders, b \in Baskets : Take(r, o, b)
  \/ \E r \in Reservations : Sell(r) \/ GiveBack(r)
  \/ \E B \in SUBSET Reservations : Sweep(B)

LedgerSpec == LedgerInit /\ [][LedgerNext]_ledger
=============================================================================
