---------------------------- MODULE MCOrderBook ----------------------------
(* Four orders, the second of another user, on a clock of one tick, in a     *)
(* world whose largest amount is 7.                                          *)
EXTENDS OrderBook

CONSTANTS shirt, shoes, socks, ann, bob

MCOwnerOf == [i \in Ids |-> IF i = 2 THEN bob ELSE ann]

Item(s, n) == [sku |-> s, quantity |-> n]

\* One line; two; a quantity no line may carry; a SKU twice; a line too many.
MCCarts ==
  {<<Item(shirt, 3)>>, <<Item(shirt, 1), Item(shoes, 2)>>, <<Item(shirt, 4)>>, <<Item(shirt, 0)>>,
   <<Item(shirt, 1), Item(shirt, 2)>>, <<Item(shirt, 1), Item(shoes, 1), Item(socks, 1)>>}

Baht(n)   == [amount |-> n, currency |-> "THB"]
Dollar(n) == [amount |-> n, currency |-> "USD"]

\* Prices whose totals are just in range, out of range in one line, out of range
\* only in their sum, in two currencies, missing or unreadable.
MCPriceLists ==
  {[s \in {shirt, shoes, socks} |-> IF s = shirt THEN Baht(1) ELSE Baht(3)],
   [s \in {shirt, shoes} |-> IF s = shirt THEN Baht(5) ELSE Baht(4)],
   [s \in {shirt, shoes} |-> Baht(3)],
   [s \in {shirt, shoes} |-> IF s = shirt THEN Baht(3) ELSE Dollar(1)],
   [s \in {shirt, shoes} |-> IF s = shirt THEN Baht(3) ELSE Baht(-1)]}
=============================================================================
