----------------------------- MODULE OrderBook -----------------------------
(***************************************************************************)
(* What an order is made of, and how its owner reads it back.  A checkout  *)
(* prices its cart from the catalog, totals it within 64 bits, and writes  *)
(* one row and its lines in one transaction; a client meanwhile reads one  *)
(* order, or pages through all it has, newest first, each page in two      *)
(* statements.                                                             *)
(*                                                                         *)
(* Checkout decides whether an order is placed and OrderSaga what becomes  *)
(* of it.  Order ids are numbers, in the order PostgreSQL gives uuids; a   *)
(* transaction's now() is its first moment, so rows may appear out of the  *)
(* order of their created_at.  An amount is a number and its currency is   *)
(* beside it.                                                              *)
(***************************************************************************)
EXTENDS Integers, Sequences, FiniteSetsExt

CONSTANTS Ids,         \* order ids, each minted by one checkout: a set of numbers
          Users,
          OwnerOf,     \* who places each order
          Caller,      \* the user who reads
          SKUs,
          Currencies,
          Carts,       \* bound: the carts asked for, sequences of [sku, quantity]
          PriceLists,  \* bound: what the catalog may answer, sku -> [amount, currency]
          MaxInt64,    \* largest amount: 2^63 - 1
          maxQuantity,
          maxLines,
          defaultPageSize,
          maxPageSize,
          AskedSizes,  \* bound: page sizes asked for
          MaxClock,    \* bound: the clock
          None

ASSUME OrderBookAssumption ==
  /\ Ids \subseteq Nat /\ IsFiniteSet(Ids)
  /\ OwnerOf \in [Ids -> Users]
  /\ Caller \in Users
  /\ Carts \subseteq Seq([sku : SKUs, quantity : Int])
  /\ {MaxInt64, MaxClock} \subseteq Nat
  /\ None \notin [created : 0..MaxClock, id : Ids]
  /\ {maxQuantity, maxLines, defaultPageSize, maxPageSize} \subseteq Nat \ {0}
  /\ defaultPageSize <= maxPageSize
  /\ AskedSizes \subseteq Int

VARIABLES now,
          begun,        \* the checkouts that have begun their transaction
          stamp,        \* now() in each open transaction
          orders,       \* committed rows of orders
          order_lines,  \* committed rows of order_lines, by order
          client,       \* what the caller reads, and how far it is
          steady,       \* history: the caller's orders when its walk began
          listed        \* history: how often its walk was shown each order, 2 for more

vars == <<now, begun, stamp, orders, order_lines, client, steady, listed>>
book == <<orders, order_lines>>
walk == <<client, steady, listed>>

Positions == [created : 0..MaxClock, id : Ids]

OrderRow == [id : Ids, created : 0..MaxClock, total : 0..MaxInt64, currency : Currencies]

TypeOK ==
  /\ now \in 0..MaxClock
  /\ begun \subseteq Ids
  /\ stamp \in [Ids -> 0..MaxClock \cup {None}]
  /\ orders \in [Ids -> OrderRow \cup {None}]
  /\ DOMAIN order_lines = Ids
  /\ client.at \in {"idle", "list", "lines", "done", "refused"}
  /\ client.size \in 0..maxPageSize
  /\ client.token \in Positions \cup {None}
  /\ client.page \in Seq(OrderRow) /\ Len(client.page) <= maxPageSize + 1
  /\ steady \subseteq Ids
  /\ listed \in [Ids -> 0..2]

Idle == [at |-> "idle", size |-> 0, token |-> None, page |-> <<>>]

Init ==
  /\ now = 0
  /\ begun = {}
  /\ stamp = [i \in Ids |-> None]
  /\ orders = [i \in Ids |-> None]
  /\ order_lines = [i \in Ids |-> <<>>]
  /\ client = Idle
  /\ steady = {}
  /\ listed = [i \in Ids |-> 0]
-----------------------------------------------------------------------------
(* What an order is made of.                                               *)

\* What int64 arithmetic leaves of a number.
Int64(n) == ((n + MaxInt64 + 1) % (2 * (MaxInt64 + 1))) - (MaxInt64 + 1)

\* NewMoney: never negative.  Zero is a price; no currency is none.
IsMoney(m) == m.currency \in Currencies /\ m.amount \in 0..MaxInt64

\* A price the order service cannot read as money is dropped.
PriceSKUs(prices) == {s \in DOMAIN prices : IsMoney(prices[s])}

IsOrderLine(quantity) == quantity > 0 /\ quantity <= maxQuantity

\* Every line has a price and a quantity within bounds; SKU_NOT_SELLABLE, or a
\* validation error, otherwise.
Sellable(cart, prices) ==
  \A i \in DOMAIN cart : cart[i].sku \in PriceSKUs(prices) /\ IsOrderLine(cart[i].quantity)

\* The lines carry the prices of that answer from then on.
price(cart, prices) ==
  [i \in DOMAIN cart |->
     [sku |-> cart[i].sku, quantity |-> cart[i].quantity,
      amount |-> prices[cart[i].sku].amount, currency |-> prices[cart[i].sku].currency]]

\* No amount: TOTAL_OUT_OF_RANGE.
ErrTotalOutOfRange == -1

\* Bug variant: the product is not checked before it is taken.
SubtotalUnchecked(line) == Int64(line.amount * line.quantity)

Subtotal(line) ==
  IF line.amount > MaxInt64 \div line.quantity THEN ErrTotalOutOfRange
  ELSE Int64(line.amount * line.quantity)

\* The total of the lines, one after the other.
sum(lines) ==
  LET upTo[n \in 0..Len(lines)] ==
        IF n = 0 THEN 0
        ELSE LET subtotal == Subtotal(lines[n]) IN
             IF \/ ErrTotalOutOfRange \in {upTo[n - 1], subtotal}
                \/ upTo[n - 1] > MaxInt64 - subtotal
             THEN ErrTotalOutOfRange
             ELSE Int64(upTo[n - 1] + subtotal)
  IN upTo[Len(lines)]

\* NewOrder refuses any other lines.
IsOrder(lines) ==
  /\ Len(lines) \in 1..maxLines
  /\ \A i, j \in DOMAIN lines : lines[i].sku = lines[j].sku => i = j
  /\ \A i \in DOMAIN lines : lines[i].currency = lines[1].currency
  /\ sum(lines) # ErrTotalOutOfRange
-----------------------------------------------------------------------------
(* Placing it.                                                             *)

Begin(i) ==
  /\ i \notin begun
  /\ begun' = begun \cup {i}
  /\ stamp' = [stamp EXCEPT ![i] = now]
  /\ UNCHANGED <<now, book, walk>>

CreateOrder(i, lines) ==
  orders' = [orders EXCEPT ![i] =
    [id |-> i, created |-> stamp[i], total |-> sum(lines), currency |-> lines[1].currency]]

CreateOrderLines(i, lines) == order_lines' = [order_lines EXCEPT ![i] = lines]

\* The order and its lines, on the transaction's connection.
Create(i, lines) ==
  /\ CreateOrder(i, lines)
  /\ CreateOrderLines(i, lines)

\* The order is built, written and committed.
Place(i) ==
  /\ stamp[i] # None
  /\ \E cart \in Carts, prices \in PriceLists :
       /\ Sellable(cart, prices)
       /\ IsOrder(price(cart, prices))
       /\ Create(i, price(cart, prices))
  /\ stamp' = [stamp EXCEPT ![i] = None]
  /\ UNCHANGED <<now, begun, walk>>

\* NewOrder refuses the cart, or the transaction fails: nothing is written.
NotPlaced(i) ==
  /\ stamp[i] # None
  /\ stamp' = [stamp EXCEPT ![i] = None]
  /\ UNCHANGED <<now, begun, book, walk>>
-----------------------------------------------------------------------------
(* Reading it.                                                             *)

Committed == {i \in Ids : orders[i] # None}

\* Bug variant: the creation time alone is the position.
BeforeByTime(row, after) == after = None \/ row.created < after.created

\* Bug variant: the position is asked for again.
BeforeInclusive(row, after) ==
  \/ after = None
  \/ row.created < after.created
  \/ row.created = after.created /\ row.id <= after.id

\* (created_at, id) < (created_at, id); a first page has no position.
Before(row, after) ==
  \/ after = None
  \/ row.created < after.created
  \/ row.created = after.created /\ row.id < after.id

\* ORDER BY created_at DESC, id DESC
Newer(r, s) == r.created > s.created \/ (r.created = s.created /\ r.id > s.id)

Sorted(rows) ==
  CHOOSE found \in [1..Cardinality(rows) -> rows] :
    \A j, k \in DOMAIN found : j < k => Newer(found[j], found[k])

ListOrdersByUser(user, after, limit) ==
  LET rows == {orders[i] : i \in {j \in Committed : OwnerOf[j] = user}}
      found == Sorted({r \in rows : Before(r, after)})
  IN SubSeq(found, 1, IF Len(found) < limit THEN Len(found) ELSE limit)

pageSize(asked) ==
  CASE asked <= 0 -> defaultPageSize
    [] asked > maxPageSize -> maxPageSize
    [] OTHER -> asked

\* The token is the position of the last order shown.  RFC3339Nano keeps every
\* digit the column has.
encodeCursor(row) == [created |-> row.created, id |-> row.id]

\* What no page ended in.
Mangled == [created |-> None, id |-> None]

decodeCursor(token) == token # None => token.created # None

\* A walk begins, with pages of some size.
ListOrders ==
  /\ client.at \in {"idle", "done", "refused"}
  /\ \E asked \in AskedSizes : client' = [Idle EXCEPT !.at = "list", !.size = pageSize(asked)]
  /\ steady' = {i \in Committed : OwnerOf[i] = Caller}
  /\ listed' = [i \in Ids |-> 0]
  /\ UNCHANGED <<now, begun, stamp, book>>

\* The first statement of a page: the rows, one more than it shows.
ListRows ==
  /\ client.at = "list"
  /\ decodeCursor(client.token)
  /\ client' = [client EXCEPT !.at = "lines",
                  !.page = ListOrdersByUser(Caller, client.token, client.size + 1)]
  /\ UNCHANGED <<now, begun, stamp, book, steady, listed>>

\* The token came back mangled.
ListRefused ==
  /\ client.at = "list"
  /\ \E token \in {client.token, Mangled} : ~decodeCursor(token)
  /\ client' = [client EXCEPT !.at = "refused"]
  /\ UNCHANGED <<now, begun, stamp, book, steady, listed>>

\* The first statement of FindByID: the order's row, if it is committed.
FindByID(i) == IF i \in Committed THEN <<orders[i]>> ELSE <<>>

\* GetOrder begins with it.  Somebody else's order is not found.
GetOrder(i) ==
  /\ client.at \in {"idle", "done", "refused"}
  /\ client' = IF FindByID(i) # <<>> /\ OwnerOf[i] = Caller
               THEN [Idle EXCEPT !.at = "lines", !.page = FindByID(i)]
               ELSE [Idle EXCEPT !.at = "refused"]
  /\ steady' = {} /\ listed' = [j \in Ids |-> 0]
  /\ UNCHANGED <<now, begun, stamp, book>>

\* An order is its row and the lines the second statement reads.
toDomain(row) == [row |-> row, lines |-> order_lines[row.id]]

Answered == {toDomain(client.page[k]) : k \in DOMAIN client.page}

\* The second statement: a page is cut to its size, and names the next one if
\* there was one row more.  A read of one order has no size.
Lines ==
  /\ client.at = "lines"
  /\ LET more == client.size > 0 /\ Len(client.page) > client.size
         shown == IF more THEN SubSeq(client.page, 1, client.size) ELSE client.page
     IN /\ listed' = [i \in Ids |-> Min({2, listed[i] + Cardinality({k \in DOMAIN shown : shown[k].id = i})})]
        /\ client' = IF more
                     THEN [client EXCEPT !.at = "list", !.page = <<>>,
                             !.token = encodeCursor(client.page[client.size])]
                     ELSE [client EXCEPT !.at = "done", !.page = <<>>]
  /\ UNCHANGED <<now, begun, stamp, book, steady>>
-----------------------------------------------------------------------------
Tick ==
  /\ now < MaxClock
  /\ now' = now + 1
  /\ UNCHANGED <<begun, stamp, book, walk>>

Next ==
  \/ \E i \in Ids : Begin(i) \/ Place(i) \/ NotPlaced(i) \/ GetOrder(i)
  \/ ListOrders \/ ListRows \/ ListRefused \/ Lines
  \/ Tick

\* The service answers, and a client that has begun to page asks on.
Fairness == WF_vars(ListRows) /\ WF_vars(Lines)

Spec     == Init /\ [][Next]_vars
FairSpec == Spec /\ Fairness
-----------------------------------------------------------------------------
(* Properties.                                                             *)

\* What is owed for a line, as plain arithmetic has it.
Owed(lines) ==
  LET upTo[n \in 0..Len(lines)] ==
        IF n = 0 THEN 0 ELSE upTo[n - 1] + lines[n].amount * lines[n].quantity
  IN upTo[Len(lines)]

\* An order is owed what its lines cost, whatever the prices: no subtotal and no
\* sum wraps around, and no amount of one currency is added to another's.
TotalIsExact ==
  \A i \in Committed :
    /\ orders[i].total = Owed(order_lines[i])
    /\ \A k \in DOMAIN order_lines[i] : order_lines[i][k].currency = orders[i].currency

\* What the caller is shown is one of its own orders and all of it: the lines
\* read by the second statement are those the row read by the first is for.
ShownWhole ==
  client.at = "lines" => \A x \in Answered :
    /\ OwnerOf[x.row.id] = Caller
    /\ x.lines # <<>>
    /\ x.row.total = Owed(x.lines)

\* A walk through the pages shows every order the caller had when it began
\* exactly once, and none twice, though orders are placed between the pages,
\* appear out of the order of their times, and share a time across a page's end.
EveryOrderListedOnce ==
  /\ \A i \in Ids : listed[i] <= 1
  /\ client.at = "done" /\ client.size > 0 => \A i \in steady : listed[i] = 1

\* What a customer is shown is its own orders, each whole and each once.
OrdersAreShownOnce == TypeOK /\ ShownWhole /\ EveryOrderListedOnce

\* A walk comes to its last page although orders keep being placed.
WalksEnd == client.at = "list" ~> client.at \in {"done", "refused"}
=============================================================================
