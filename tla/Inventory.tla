----------------------------- MODULE Inventory -----------------------------
(***************************************************************************)
(* The inventory service: stock counts per SKU, reservations that hold     *)
(* stock for an order, and the reaper that takes expired holds back.       *)
(*                                                                         *)
(* Every use case is one PostgreSQL transaction at READ COMMITTED, and the *)
(* model interleaves transactions statement by statement.  A table is two  *)
(* functions: the committed rows, and the newest version of each row,      *)
(* which differs from the committed one only while the transaction that    *)
(* owns the row lock has written it.  A statement that meets a row owned   *)
(* by another transaction is not enabled until that transaction ends, and  *)
(* then evaluates its WHERE clause on the newest version; one whose WHERE  *)
(* clause already fails on the committed version does not wait.  Plain     *)
(* SELECTs read committed rows and wait for nobody.                        *)
(*                                                                         *)
(* SKUs are integers, standing for the strings the code sorts by; a        *)
(* reservation's lines are the canonical form NewReservation computes, a   *)
(* total quantity per SKU.  Timestamps other than expires_at, line ids,    *)
(* stock_items.version (never compared) and error texts are left out.      *)
(***************************************************************************)
EXTENDS Integers, FiniteSets

CONSTANTS SKUs,          \* sellable units, ordered as their names sort
          Orders,        \* order ids callers reserve for
          Reservations,  \* reservation ids that may be minted (bound)
          Txns,          \* transactions in flight at once (bound)
          Baskets,       \* canonical line sets callers ask for
          MaxQty,        \* lineQuantityMax, the most one SKU of a hold may total
          Deltas,        \* adjustments an operator makes
          None,          \* no transaction, no order, no reservation
          TTL,           \* RESERVATION_TTL
          MaxClock,      \* bound: the last instant of the model
          MaxStock,      \* bound: what Create and Adjust raise available to
          BatchSize      \* REAPER_BATCH_SIZE

Lines == [SKUs -> 0..MaxQty]

ASSUME ConstantsAssumption ==
  /\ SKUs \subseteq Int
  /\ IsFiniteSet(Reservations)
  /\ MaxQty \in Nat
  /\ Baskets \subseteq Lines
  /\ \A b \in Baskets : \E s \in SKUs : b[s] > 0
  /\ Deltas \subseteq Int \ {0}
  /\ None \notin Txns \cup Orders \cup Reservations
  /\ TTL \in Nat \ {0}
  /\ MaxClock \in Nat
  /\ MaxStock \in Nat
  /\ BatchSize \in Nat \ {0}

VARIABLES stock,       \* committed stock_items rows
          stockDraft,  \* newest version of each stock_items row
          stockOwner,  \* who holds the row lock
          tracked,     \* SKUs that have a stock_items row
          resv,        \* committed reservations rows, lines included
          resvDraft,   \* newest version of each reservations row
          resvOwner,   \* who holds the row lock
          tx,          \* what each transaction has in memory
          clock,       \* policy.Now()
          received,    \* history: units ever delivered, net of write-offs
          phase        \* "quiet" once faults and settling calls have stopped for good

stockVars == <<stock, stockDraft, stockOwner, tracked, received>>
resvVars  == <<resv, resvDraft, resvOwner>>
vars      == <<stockVars, resvVars, tx, clock, phase>>

StockRow == [available : Nat, reserved : Nat]
Statuses == {"none", "held", "committed", "released", "expired"}
Hold     == [status : Statuses, version : Nat, order : Orders \cup {None},
             lines : Lines, expires : Nat]
Ops      == {"none", "reserve", "commit", "release", "sweep"}
PCs      == {"idle", "read", "next", "move", "write", "commit"}

TxType   == [op : Ops, pc : PCs, id : Reservations \cup {None}, agg : Hold,
             now : Nat, todo : SUBSET SKUs, batch : SUBSET Reservations]

NoStock == [available |-> 0, reserved |-> 0]
NoHold  == [status |-> "none", version |-> 0, order |-> None,
            lines |-> [s \in SKUs |-> 0], expires |-> 0]

\* A transaction slot between two use cases.
IdleTx == [op |-> "none", pc |-> "idle", id |-> None, agg |-> NoHold,
           now |-> 0, todo |-> {}, batch |-> {}]

TypeOK ==
  /\ stock \in [SKUs -> StockRow]
  /\ stockDraft \in [SKUs -> StockRow]
  /\ stockOwner \in [SKUs -> Txns \cup {None}]
  /\ tracked \subseteq SKUs
  /\ resv \in [Reservations -> Hold]
  /\ resvDraft \in [Reservations -> Hold]
  /\ resvOwner \in [Reservations -> Txns \cup {None}]
  /\ tx \in [Txns -> TxType]
  /\ clock \in Nat
  /\ received \in [SKUs -> Int]
  /\ phase \in {"busy", "quiet"}

Init ==
  /\ stock = [s \in SKUs |-> NoStock]
  /\ stockDraft = stock
  /\ stockOwner = [s \in SKUs |-> None]
  /\ tracked = {}
  /\ resv = [r \in Reservations |-> NoHold]
  /\ resvDraft = resv
  /\ resvOwner = [r \in Reservations |-> None]
  /\ tx = [t \in Txns |-> IdleTx]
  /\ clock = 0
  /\ received = [s \in SKUs |-> 0]
  /\ phase = "busy"

-----------------------------------------------------------------------------
(* Helpers: the domain's state machine and the stock statements.           *)

LineSKUs(lines) == {s \in SKUs : lines[s] > 0}

\* Reservation.hasExpired: the boundary instant counts as expired.
hasExpired(hold, now) == now >= hold.expires

\* Bug variant: ReserveStock without its guard on available.
StockGuardDropped(op, row, q) == op = "reserve" \/ row.reserved >= q

\* The WHERE clause of ReserveStock, ReleaseStock and CommitStock.
StockGuard(op, row, q) ==
  IF op = "reserve" THEN row.available >= q ELSE row.reserved >= q

\* Bug variant: a sale puts the units back.
SaleGivesBack(op, row, q) ==
  IF op = "reserve" THEN [available |-> row.available - q, reserved |-> row.reserved + q]
                    ELSE [available |-> row.available + q, reserved |-> row.reserved - q]

\* The SET clause of the same three statements; a sweep releases.
StockMoved(op, row, q) ==
  CASE op = "reserve" -> [available |-> row.available - q, reserved |-> row.reserved + q]
    [] op = "commit"  -> [available |-> row.available, reserved |-> row.reserved - q]
    [] OTHER          -> [available |-> row.available + q, reserved |-> row.reserved - q]

\* The row versions a statement of t sees: its own writes, else committed ones.
VisibleStock(t, s) == IF stockOwner[s] = t THEN stockDraft[s] ELSE stock[s]
VisibleHold(t, r)  == IF resvOwner[r] = t THEN resvDraft[r] ELSE resv[r]

\* The status a use case moves a held reservation to.
TargetStatus(op) ==
  CASE op = "commit" -> "committed" [] op = "release" -> "released" [] OTHER -> "expired"

\* Reservation.Commit and Reservation.Release answer "moved" for this row.
Moves(op, hold, now) ==
  /\ hold.status = "held"
  /\ op = "commit" => ~hasExpired(hold, now)

\* Bug variant: UpdateReservationStatus keyed by id alone.
AnyVersion(row, hold) == TRUE

\* WHERE version: the row is still the one the aggregate was loaded from.
SameVersion(row, hold) == row.version = hold.version

\* COMMIT: everything the transaction wrote becomes visible and its locks go.
PublishAndUnlock(t) ==
  /\ stock' = [s \in SKUs |-> IF stockOwner[s] = t THEN stockDraft[s] ELSE stock[s]]
  /\ resv' = [r \in Reservations |-> IF resvOwner[r] = t THEN resvDraft[r] ELSE resv[r]]
  /\ stockOwner' = [s \in SKUs |-> IF stockOwner[s] = t THEN None ELSE stockOwner[s]]
  /\ resvOwner' = [r \in Reservations |-> IF resvOwner[r] = t THEN None ELSE resvOwner[r]]
  /\ tx' = [tx EXCEPT ![t] = IdleTx]
  /\ UNCHANGED <<stockDraft, resvDraft, tracked, received, clock, phase>>

\* Bug variant: the stock statements ran outside the transaction, so a
\* rollback leaves them in place.
StockOutsideTx(t) ==
  /\ stock' = [s \in SKUs |-> IF stockOwner[s] = t THEN stockDraft[s] ELSE stock[s]]
  /\ resvDraft' = [r \in Reservations |-> IF resvOwner[r] = t THEN resv[r] ELSE resvDraft[r]]
  /\ stockOwner' = [s \in SKUs |-> IF stockOwner[s] = t THEN None ELSE stockOwner[s]]
  /\ resvOwner' = [r \in Reservations |-> IF resvOwner[r] = t THEN None ELSE resvOwner[r]]
  /\ tx' = [tx EXCEPT ![t] = IdleTx]
  /\ UNCHANGED <<stockDraft, resv, tracked, received, clock, phase>>

\* ROLLBACK: what the transaction wrote is gone and its locks go.
UndoAndUnlock(t) ==
  /\ stockDraft' = [s \in SKUs |-> IF stockOwner[s] = t THEN stock[s] ELSE stockDraft[s]]
  /\ resvDraft' = [r \in Reservations |-> IF resvOwner[r] = t THEN resv[r] ELSE resvDraft[r]]
  /\ stockOwner' = [s \in SKUs |-> IF stockOwner[s] = t THEN None ELSE stockOwner[s]]
  /\ resvOwner' = [r \in Reservations |-> IF resvOwner[r] = t THEN None ELSE resvOwner[r]]
  /\ tx' = [tx EXCEPT ![t] = IdleTx]
  /\ UNCHANGED <<stock, resv, tracked, received, clock, phase>>
-----------------------------------------------------------------------------
(* Stock administration: one auto-committed statement each.                *)

CreateStockItem(s, n) ==
  /\ s \notin tracked
  /\ n <= MaxStock
  /\ tracked' = tracked \cup {s}
  /\ stock' = [stock EXCEPT ![s].available = n]
  /\ stockDraft' = [stockDraft EXCEPT ![s].available = n]
  /\ received' = [received EXCEPT ![s] = n]
  /\ UNCHANGED <<stockOwner, resvVars, tx, clock, phase>>

AdjustStock(s, d) ==
  LET n == stock[s].available + d IN
  /\ s \in tracked
  /\ stockOwner[s] = None
  /\ n \in 0..MaxStock
  /\ stock' = [stock EXCEPT ![s].available = n]
  /\ stockDraft' = [stockDraft EXCEPT ![s].available = n]
  /\ received' = [received EXCEPT ![s] = @ + d]
  /\ UNCHANGED <<stockOwner, tracked, resvVars, tx, clock, phase>>
-----------------------------------------------------------------------------
(* ReserveStock.                                                           *)

\* Ids minted but never stored are as good as new: nothing refers to them.
Fresh(r) ==
  /\ resvDraft[r].status = "none"
  /\ \A t \in Txns : tx[t].id # r

\* The candidate is built, and the clock read, before the transaction opens.
BeginReserve(t, r, o, b) ==
  /\ tx[t].pc = "idle"
  /\ Fresh(r)
  /\ tx' = [tx EXCEPT ![t] =
       [IdleTx EXCEPT !.op = "reserve", !.pc = "read", !.id = r,
          !.agg = [status |-> "held", version |-> 1, order |-> o,
                   lines |-> b, expires |-> clock + TTL]]]
  /\ UNCHANGED <<stockVars, resvVars, clock, phase>>

\* FindHeldByOrderID: the hold this order already has, if any.
HeldBy(o) == {r \in Reservations : resv[r].status = "held" /\ resv[r].order = o}

\* No hold yet: go on to take the stock.
FindNoHold(t) ==
  /\ tx[t].op = "reserve"
  /\ tx[t].pc = "read"
  /\ HeldBy(tx[t].agg.order) = {}
  /\ tx' = [tx EXCEPT ![t] = [@ EXCEPT !.pc = "move", !.todo = LineSKUs(tx[t].agg.lines)]]
  /\ UNCHANGED <<stockVars, resvVars, clock, phase>>

\* A hold exists: it is handed back when the lines match, refused with
\* RESERVATION_LINES_DIFFER when they do not; nothing is written either way.
FindExistingHold(t) ==
  /\ tx[t].op = "reserve"
  /\ tx[t].pc = "read"
  /\ HeldBy(tx[t].agg.order) # {}
  /\ tx' = [tx EXCEPT ![t] = IdleTx]
  /\ UNCHANGED <<stockVars, resvVars, clock, phase>>

\* Rows an INSERT of a hold for order o meets in the partial unique index,
\* those another transaction is in the middle of inserting or finishing ...
IndexWaits(t, o) ==
  {r \in Reservations : /\ resvOwner[r] \notin {None, t}
                        /\ resvDraft[r].order = o
                        /\ resvDraft[r] # resv[r]}
\* Bug variant: no partial unique index on live holds.
NoUniqueIndex(o) == {}

\* ... and those that are live.
IndexHits(o) ==
  {r \in Reservations : resvDraft[r].order = o /\ resvDraft[r].status = "held"}

InsertReservation(t) ==
  /\ tx[t].op = "reserve"
  /\ tx[t].pc = "write"
  /\ IndexWaits(t, tx[t].agg.order) = {}
  /\ IndexHits(tx[t].agg.order) = {}
  /\ resvDraft' = [resvDraft EXCEPT ![tx[t].id] = tx[t].agg]
  /\ resvOwner' = [resvOwner EXCEPT ![tx[t].id] = t]
  /\ tx' = [tx EXCEPT ![t].pc = "commit"]
  /\ UNCHANGED <<stockVars, resv, clock, phase>>

\* RESERVATION_IN_FLIGHT.
InsertRefused(t) ==
  /\ tx[t].op = "reserve"
  /\ tx[t].pc = "write"
  /\ IndexWaits(t, tx[t].agg.order) = {}
  /\ IndexHits(tx[t].agg.order) # {}
  /\ UndoAndUnlock(t)
-----------------------------------------------------------------------------
(* CommitReservation and ReleaseReservation, both settle.                  *)

\* The clock is read before the transaction opens.
BeginSettle(t, op, r) ==
  /\ phase = "busy"
  /\ tx[t].pc = "idle"
  /\ resv[r].status # "none"
  /\ tx' = [tx EXCEPT ![t] = [IdleTx EXCEPT !.op = op, !.pc = "read", !.id = r,
                                            !.now = IF op = "commit" THEN clock ELSE 0]]
  /\ UNCHANGED <<stockVars, resvVars, clock, phase>>

\* FindByID takes no lock; the state machine moves the copy in memory.
SettleMoves(t) ==
  /\ tx[t].op \in {"commit", "release"}
  /\ tx[t].pc = "read"
  /\ Moves(tx[t].op, resv[tx[t].id], tx[t].now)
  /\ tx' = [tx EXCEPT ![t] =
       [@ EXCEPT !.pc = "move",
                 !.agg = [resv[tx[t].id] EXCEPT !.status = TargetStatus(tx[t].op)],
                 !.todo = LineSKUs(resv[tx[t].id].lines)]]
  /\ UNCHANGED <<stockVars, resvVars, clock, phase>>

\* Already settled, or refused: the transaction ends having written nothing.
SettleStays(t) ==
  /\ tx[t].op \in {"commit", "release"}
  /\ tx[t].pc = "read"
  /\ ~Moves(tx[t].op, resv[tx[t].id], tx[t].now)
  /\ tx' = [tx EXCEPT ![t] = IdleTx]
  /\ UNCHANGED <<stockVars, resvVars, clock, phase>>
-----------------------------------------------------------------------------
(* The statements all use cases share.                                     *)

\* Bug variant: lines walked in the order the caller sent them.
AnyLineNext(t, s) == s \in tx[t].todo

\* The lines are walked in SKU order.
IsNextLine(t, s) == s \in tx[t].todo /\ \A u \in tx[t].todo : s <= u

\* stock.Reserve, stock.Commit or stock.Release on the next line.
MoveStock(t, s) ==
  LET q == tx[t].agg.lines[s] IN
  /\ tx[t].pc = "move"
  /\ IsNextLine(t, s)
  /\ stockOwner[s] \in {None, t}
  /\ StockGuard(tx[t].op, stockDraft[s], q)
  /\ stockDraft' = [stockDraft EXCEPT ![s] = StockMoved(tx[t].op, @, q)]
  /\ stockOwner' = [stockOwner EXCEPT ![s] = t]
  /\ tx' = [tx EXCEPT ![t] = [@ EXCEPT !.todo = tx[t].todo \ {s},
                                       !.pc = IF tx[t].todo = {s} THEN "write" ELSE "move"]]
  /\ UNCHANGED <<stock, tracked, received, resvVars, clock, phase>>

\* No row matched: OUT_OF_STOCK or SKU_NOT_TRACKED when reserving,
\* STOCK_INCONSISTENT otherwise.
MoveRefused(t, s) ==
  /\ tx[t].pc = "move"
  /\ IsNextLine(t, s)
  /\ ~StockGuard(tx[t].op, VisibleStock(t, s), tx[t].agg.lines[s])
  /\ UndoAndUnlock(t)

\* UpdateReservationStatus: WHERE id AND version.
UpdateReservation(t) ==
  /\ tx[t].op \in {"commit", "release", "sweep"}
  /\ tx[t].pc = "write"
  /\ resvOwner[tx[t].id] \in {None, t}
  /\ SameVersion(resvDraft[tx[t].id], tx[t].agg)
  /\ resvDraft' = [resvDraft EXCEPT ![tx[t].id] =
                     [@ EXCEPT !.status = tx[t].agg.status,
                               !.version = tx[t].agg.version + 1]]
  /\ resvOwner' = [resvOwner EXCEPT ![tx[t].id] = t]
  /\ tx' = [tx EXCEPT ![t].pc = IF tx[t].op = "sweep" THEN "next" ELSE "commit"]
  /\ UNCHANGED <<stockVars, resv, clock, phase>>

\* RESERVATION_MODIFIED.
UpdateRefused(t) ==
  /\ tx[t].op \in {"commit", "release", "sweep"}
  /\ tx[t].pc = "write"
  /\ ~SameVersion(VisibleHold(t, tx[t].id), tx[t].agg)
  /\ UndoAndUnlock(t)

CommitTx(t) == tx[t].pc = "commit" /\ PublishAndUnlock(t)
-----------------------------------------------------------------------------
(* ExpireReservations, the reaper's sweep.                                 *)

\* Bug variant: the cut-off is read when the reaper starts and never again.
BeginSweepFrozen(t) ==
  /\ tx[t].pc = "idle"
  /\ tx' = [tx EXCEPT ![t] = [IdleTx EXCEPT !.op = "sweep", !.pc = "read", !.now = 0]]
  /\ UNCHANGED <<stockVars, resvVars, clock, phase>>

\* The clock is read once, before the transaction opens.
BeginSweep(t) ==
  /\ tx[t].pc = "idle"
  /\ tx' = [tx EXCEPT ![t] = [IdleTx EXCEPT !.op = "sweep", !.pc = "read", !.now = clock]]
  /\ UNCHANGED <<stockVars, resvVars, clock, phase>>

\* Rows ClaimExpired may take: held, out of time, and not locked by anybody.
Claimable(now) ==
  {r \in Reservations : /\ resv[r].status = "held"
                        /\ hasExpired(resv[r], now)
                        /\ resvOwner[r] = None}

\* ORDER BY expires_at LIMIT BatchSize.
IsBatch(B, now) ==
  /\ B \subseteq Claimable(now)
  /\ IsFiniteSet(B)
  /\ Cardinality(B) <= BatchSize
  /\ B # Claimable(now) => Cardinality(B) = BatchSize
  /\ \A r \in B, u \in Claimable(now) \ B : resv[r].expires <= resv[u].expires

\* Bug variant: the claim is a plain SELECT.
ClaimWithoutLock(t, B) ==
  /\ tx[t].op = "sweep"
  /\ tx[t].pc = "read"
  /\ IsBatch(B, tx[t].now)
  /\ tx' = [tx EXCEPT ![t] = [@ EXCEPT !.pc = "next", !.batch = B]]
  /\ UNCHANGED <<stockVars, resvVars, clock, phase>>

\* SELECT ... FOR UPDATE SKIP LOCKED, and the lines of what it took.
ClaimExpired(t, B) ==
  /\ tx[t].op = "sweep"
  /\ tx[t].pc = "read"
  /\ IsBatch(B, tx[t].now)
  /\ resvOwner' = [r \in Reservations |-> IF r \in B THEN t ELSE resvOwner[r]]
  /\ tx' = [tx EXCEPT ![t] = [@ EXCEPT !.pc = "next", !.batch = B]]
  /\ UNCHANGED <<stockVars, resv, resvDraft, clock, phase>>

\* Reservation.Expire on the next claimed row, in the order selected.  The row
\* was read when it was locked, so it is still held and still out of time.
SweepNext(t, r) ==
  /\ tx[t].pc = "next"
  /\ r \in tx[t].batch
  /\ \A u \in tx[t].batch : resv[r].expires <= resv[u].expires
  /\ tx' = [tx EXCEPT ![t] =
       [@ EXCEPT !.pc = "move", !.id = r, !.batch = tx[t].batch \ {r},
                 !.agg = [resv[r] EXCEPT !.status = "expired"],
                 !.todo = LineSKUs(resv[r].lines)]]
  /\ UNCHANGED <<stockVars, resvVars, clock, phase>>

SweepDone(t) ==
  /\ tx[t].pc = "next"
  /\ tx[t].batch = {}
  /\ tx' = [tx EXCEPT ![t].pc = "commit"]
  /\ UNCHANGED <<stockVars, resvVars, clock, phase>>
-----------------------------------------------------------------------------
(* Failures and time.                                                      *)

\* The caller gives up, the process dies or the connection drops: PostgreSQL
\* rolls the transaction back wherever it was.
Rollback(t) == phase = "busy" /\ tx[t].pc # "idle" /\ UndoAndUnlock(t)

\* Transactions whose row locks the next statement of t waits for.
BlockedBy(t) ==
  ( CASE tx[t].pc = "move" ->
           {stockOwner[s] : s \in {x \in SKUs :
              IsNextLine(t, x) /\ StockGuard(tx[t].op, VisibleStock(t, x), tx[t].agg.lines[x])}}
      [] tx[t].pc = "write" /\ tx[t].op = "reserve" ->
           {resvOwner[r] : r \in IndexWaits(t, tx[t].agg.order)}
      [] tx[t].pc = "write" /\ tx[t].op # "reserve"
                            /\ SameVersion(VisibleHold(t, tx[t].id), tx[t].agg) ->
           {resvOwner[tx[t].id]}
      [] OTHER -> {} ) \ {None, t}

\* A nonempty set of transactions each of which waits for another one of it.
WaitCycle(D) == D # {} /\ \A t \in D : BlockedBy(t) \cap D # {}

\* PostgreSQL's deadlock detector ends one transaction of a cycle.
DeadlockVictim(t) ==
  /\ \E D \in SUBSET Txns : t \in D /\ WaitCycle(D)
  /\ UndoAndUnlock(t)

\* For liveness only: from some point on nothing fails any more, and nobody
\* commits or releases (a saga step is attempted a bounded number of times).
FallQuiet == phase = "busy" /\ phase' = "quiet" /\ UNCHANGED <<stockVars, resvVars, tx, clock>>

Tick ==
  /\ clock < MaxClock
  /\ clock' = clock + 1
  /\ UNCHANGED <<stockVars, resvVars, tx, phase>>

Statement(t) ==
  \/ FindNoHold(t) \/ FindExistingHold(t)
  \/ InsertReservation(t) \/ InsertRefused(t)
  \/ SettleMoves(t) \/ SettleStays(t)
  \/ \E s \in SKUs : MoveStock(t, s) \/ MoveRefused(t, s)
  \/ UpdateReservation(t) \/ UpdateRefused(t)
  \/ \E B \in SUBSET Reservations : ClaimExpired(t, B)
  \/ \E r \in Reservations : SweepNext(t, r)
  \/ SweepDone(t)
  \/ CommitTx(t)

Begin(t) ==
  \/ \E r \in Reservations, o \in Orders, b \in Baskets : BeginReserve(t, r, o, b)
  \/ \E op \in {"commit", "release"}, r \in Reservations : BeginSettle(t, op, r)
  \/ BeginSweep(t)

Next ==
  \/ \E s \in SKUs, n \in 0..MaxStock : CreateStockItem(s, n)
  \/ \E s \in SKUs, d \in Deltas : AdjustStock(s, d)
  \/ \E t \in Txns : Begin(t) \/ Statement(t) \/ Rollback(t) \/ DeadlockVictim(t)
  \/ Tick
  \/ FallQuiet

Spec == Init /\ [][Next]_vars
-----------------------------------------------------------------------------
(* Properties.                                                             *)

\* The units of SKU s that the reservations of R hold, one element per unit.
Units(R, s) == {u \in R \X (1..MaxQty) : u[2] <= resv[u[1]].lines[s]}
InStatus(st) == {r \in Reservations : resv[r].status = st}

\* What stock_items.reserved counts is exactly what live reservations hold
\* (ReserveStock, settle and ExpireReservations move both in one transaction),
\* whatever raced, was rolled back or was retried.
ReservedIsHeld ==
  \A s \in SKUs : stock[s].reserved = Cardinality(Units(InStatus("held"), s))

\* No unit is sold twice, returned twice or lost: what was ever received is
\* available, held, or sold by a committed reservation.
StockConserved ==
  \A s \in SKUs : stock[s].available + stock[s].reserved
                    + Cardinality(Units(InStatus("committed"), s)) = received[s]

\* The stock adds up: what is counted as reserved is held by somebody, and what
\* came in is still there, held, or sold.
StockAddsUp == ReservedIsHeld /\ StockConserved

\* Racing and retried ReserveStock calls leave an order at most one live hold.
OneHoldPerOrder ==
  \A r, u \in InStatus("held") : resv[r].order = resv[u].order => r = u

\* A reservation that was committed, released or expired never changes again,
\* so a sale is never undone and stock never comes back twice: the version
\* check of UpdateReservationStatus against a commit, a release and a sweep
\* that all read the hold before any of them wrote it.
SettledIsFinal ==
  [][\A r \in Reservations :
       resv[r].status \in {"committed", "released", "expired"} => resv'[r] = resv[r]]_vars

\* A statement on a hold is about to be refused by its WHERE clause.
HoldRefused(t) ==
  /\ tx[t].op \in {"commit", "release", "sweep"}
  /\ \/ /\ tx[t].pc = "move"
        /\ \E s \in SKUs : /\ IsNextLine(t, s)
                           /\ ~StockGuard(tx[t].op, VisibleStock(t, s), tx[t].agg.lines[s])
     \/ /\ tx[t].pc = "write"
        /\ ~SameVersion(VisibleHold(t, tx[t].id), tx[t].agg)

\* A commit or a release is refused only because another transaction settled
\* the same hold after it was read, never because the counts drifted; a sweep is
\* never refused, for the rows it claimed are locked, so neither
\* STOCK_INCONSISTENT nor RESERVATION_MODIFIED ever fails a whole batch.
RefusedOnlyWhenStale ==
  \A t \in Txns : HoldRefused(t) =>
    /\ tx[t].op # "sweep"
    /\ resv[tx[t].id].version # tx[t].agg.version

\* Reserving, committing and releasing wait for each other but never in a
\* cycle, because every one takes its stock rows in SKU order and its
\* reservation row last.
SettlingNeverDeadlocks ==
  \A D \in SUBSET {t \in Txns : tx[t].op \in {"reserve", "commit", "release"}} : ~WaitCycle(D)
-----------------------------------------------------------------------------
(* The inductive invariant behind ReservedIsHeld and StockConserved: what  *)
(* each transaction in flight has done to the newest row versions.         *)

\* A row nobody locked has no uncommitted version.
DraftsAreLocked ==
  /\ \A s \in SKUs : stockOwner[s] = None => stockDraft[s] = stock[s]
  /\ \A r \in Reservations : resvOwner[r] = None => resvDraft[r] = resv[r]

\* A SKU without a row counts nothing and is locked by nobody.
UntrackedIsEmpty ==
  \A s \in SKUs \ tracked : /\ stock[s] = NoStock
                            /\ stockOwner[s] = None
                            /\ received[s] = 0

\* Version 1 is the version of a hold, and of nothing else.
VersionIsStatus ==
  \A r \in Reservations :
    /\ resv[r].status = "none" => resv[r] = NoHold
    /\ resv[r].status = "held" <=> resv[r].version = 1

Settling(t) == tx[t].op \in {"commit", "release"}
InStock(t)  == tx[t].pc \in {"move", "write", "commit"}

\* The shape of a transaction at each of its statements.
Shape(x) ==
  /\ x.pc = "idle" <=> x.op = "none"
  /\ x.pc = "idle" => x.id = None
  /\ x.pc = "next" => x.op = "sweep"
  /\ x.op \in {"reserve", "commit", "release"} => x.id \in Reservations
  /\ x.pc \in {"move", "write"} => x.id \in Reservations
  /\ x.pc = "move" => x.todo \subseteq LineSKUs(x.agg.lines)
  /\ x.pc # "move" => x.todo = {}
  /\ x.batch # {} => x.op = "sweep" /\ x.pc \in {"next", "move", "write"}

TxShape == \A t \in Txns : Shape(tx[t])

\* The aggregate in memory: a candidate under an id nobody else knows, or a
\* copy of a stored hold with its status moved on.
AggregateOf(t) ==
  /\ tx[t].op = "reserve" =>
       /\ tx[t].agg.status = "held"
       /\ tx[t].agg.version = 1
       /\ resv[tx[t].id].status = "none"
  /\ Settling(t) => resv[tx[t].id].status # "none"
  /\ (Settling(t) /\ InStock(t)) \/ (tx[t].op = "sweep" /\ tx[t].pc \in {"move", "write"}) =>
       /\ tx[t].agg.version = 1
       /\ tx[t].agg.status = TargetStatus(tx[t].op)
       /\ tx[t].agg.lines = resv[tx[t].id].lines

AggregateOK == \A t \in Txns : AggregateOf(t)

CandidatesAreNew ==
  \A t, u \in Txns : tx[t].op = "reserve" /\ tx[u].id = tx[t].id => u = t

\* The newest version of a hold that t moved to the status of its use case.
Ended(t, r) == [resv[r] EXCEPT !.status = TargetStatus(tx[t].op), !.version = 2]

\* A sweep has claimed r and not written it yet.
ToSweep(t, r) == r \in tx[t].batch \/ (tx[t].pc \in {"move", "write"} /\ tx[t].id = r)

\* Which reservation rows a transaction has locked, and what it wrote there.
LocksOf(t, r) ==
  /\ tx[t].op = "none" \/ tx[t].pc = "read" => resvOwner[r] # t
  /\ tx[t].op = "reserve" =>
       /\ (resvOwner[r] = t) <=> (tx[t].pc = "commit" /\ r = tx[t].id)
       /\ resvOwner[r] = t => resvDraft[r] = tx[t].agg
  /\ Settling(t) =>
       /\ (resvOwner[r] = t) <=> (tx[t].pc = "commit" /\ r = tx[t].id)
       /\ resvOwner[r] = t => resv[r].status = "held" /\ resvDraft[r] = Ended(t, r)
  /\ tx[t].op = "sweep" =>
       /\ ToSweep(t, r) => resvOwner[r] = t
       /\ resvOwner[r] = t =>
            /\ resv[r].status = "held"
            /\ resvDraft[r] = IF ToSweep(t, r) THEN resv[r] ELSE Ended(t, r)
  /\ tx[t].pc \in {"move", "write"} => tx[t].id \notin tx[t].batch

HoldsLocked == \A t \in Txns, r \in Reservations : LocksOf(t, r)

\* The holds whose line s the transaction has given back or sold.
Moved(t, s) ==
  {r \in Reservations :
     \/ Settling(t) /\ InStock(t) /\ r = tx[t].id /\ s \notin tx[t].todo
     \/ tx[t].op = "sweep" /\ resvOwner[r] = t /\ ~ToSweep(t, r)
     \/ tx[t].op = "sweep" /\ tx[t].pc \in {"move", "write"} /\ r = tx[t].id /\ s \notin tx[t].todo}

\* What it has taken for the candidate of line s.
Taken(t, s) ==
  IF tx[t].op = "reserve" /\ InStock(t) /\ s \notin tx[t].todo THEN tx[t].agg.lines[s] ELSE 0

\* Which stock rows a transaction has locked, and what it wrote there.
StockLocked ==
  \A t \in Txns, s \in SKUs :
    LET n == Cardinality(Units(Moved(t, s), s)) IN
    /\ stockOwner[s] # t => n = 0 /\ Taken(t, s) = 0
    /\ stockOwner[s] = t =>
         stockDraft[s] = [available |-> stock[s].available - Taken(t, s)
                                          + IF tx[t].op = "commit" THEN 0 ELSE n,
                          reserved  |-> stock[s].reserved + Taken(t, s) - n]

\* No two reservations are, or are about to be, live holds of one order.
OneLivePerOrder ==
  \A r, u \in Reservations :
    /\ "held" \in {resv[r].status, resvDraft[r].status}
    /\ "held" \in {resv[u].status, resvDraft[u].status}
    /\ resvDraft[r].order = resvDraft[u].order
    => r = u

IndInv ==
  /\ TypeOK
  /\ DraftsAreLocked
  /\ UntrackedIsEmpty
  /\ VersionIsStatus
  /\ TxShape
  /\ AggregateOK
  /\ CandidatesAreNew
  /\ HoldsLocked
  /\ StockLocked
  /\ OneLivePerOrder
  /\ ReservedIsHeld
  /\ StockConserved
-----------------------------------------------------------------------------
(* The abstract specification, on the committed rows.                      *)

Ledger == INSTANCE StockLedger WITH
  available <- [s \in SKUs |-> stock[s].available],
  status    <- [r \in Reservations |-> resv[r].status],
  order     <- [r \in Reservations |-> resv[r].order],
  lines     <- [r \in Reservations |-> resv[r].lines]

\* Every COMMIT is one atomic step of the ledger, and no other statement is
\* visible: callers never see half a basket, a hold that ends twice, or units
\* that come back from a sale (tx.Do around ReserveStock, settle and
\* ExpireReservations).
ImplementsLedger == Ledger!LedgerSpec
-----------------------------------------------------------------------------
(* Liveness.  The reaper's loop (Run) sweeps for ever and retries what     *)
(* failed.  PostgreSQL queues lock waiters first come first served, so a   *)
(* statement that can run again and again does run, and its detector ends  *)
(* every cycle of waits.  Nobody is obliged to start a use case.           *)

Fairness ==
  /\ WF_vars(FallQuiet)
  /\ \A t \in Txns : /\ SF_vars(BeginSweep(t))
                    /\ SF_vars(Statement(t))
                    /\ WF_vars(DeadlockVictim(t))

FairSpec == Spec /\ Fairness

\* Stock nobody committed in time always comes back: a hold past its
\* expires_at is eventually swept, or released by its own caller.
ExpiredHoldsEnd ==
  \A r \in Reservations :
    (resv[r].status = "held" /\ hasExpired(resv[r], clock)) ~> resv[r].status # "held"
=============================================================================
