---------------------------- MODULE MCInventory ----------------------------
(* Instances of Inventory for TLC: two SKUs, two transactions at a time.   *)
EXTENDS Inventory, TLC

CONSTANTS o1, o2, r1, r2, t1, t2

MCSKUs == {1, 2}
Basket(a, b) == (1 :> a) @@ (2 :> b)
MCBaskets == {Basket(1, 0), Basket(1, 1)}
MCDeltas == {-1}
Symm == Permutations({o1, o2}) \cup Permutations({r1, r2}) \cup Permutations({t1, t2})

\* A hold of one unit of SKU s.
HeldUnit(o, s, e) ==
  [status |-> "held", version |-> 1, order |-> o, expires |-> e,
   lines |-> Basket(IF s = 1 THEN 1 ELSE 0, IF s = 2 THEN 1 ELSE 0)]

\* Two holds that share SKU 1, one of which has run out of time.
TwoHoldsInit ==
  /\ stock = [s \in SKUs |-> [available |-> 0, reserved |-> IF s = 1 THEN 2 ELSE 1]]
  /\ stockDraft = stock
  /\ stockOwner = [s \in SKUs |-> None]
  /\ tracked = SKUs
  /\ resv = (r1 :> [HeldUnit(o1, 1, 1) EXCEPT !.lines = Basket(1, 1)])
            @@ (r2 :> HeldUnit(o2, 1, 2))
  /\ resvDraft = resv
  /\ resvOwner = [r \in Reservations |-> None]
  /\ tx = [t \in Txns |-> IdleTx]
  /\ clock = 1
  /\ received = [s \in SKUs |-> stock[s].reserved]
  /\ phase = "busy"

TwoHoldsFairSpec == TwoHoldsInit /\ [][Next]_vars /\ Fairness
=============================================================================
