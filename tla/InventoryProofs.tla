-------------------------- MODULE InventoryProofs --------------------------
(***************************************************************************)
(* Theorems about Inventory, for any SKUs, orders, reservations and        *)
(* transactions.                                                           *)
(***************************************************************************)
EXTENDS Inventory, FiniteSetTheorems, TLAPS

-----------------------------------------------------------------------------
(* Typing.                                                                 *)

\* The state of a slot between two use cases is well typed.
LEMMA IdleTxType == NoHold \in Hold /\ IdleTx \in TxType
  BY ConstantsAssumption DEF NoHold, IdleTx, Hold, TxType, Statuses, Ops, PCs, Lines

\* A stock statement whose WHERE clause held leaves both counts natural.
LEMMA StockMovedType ==
  ASSUME NEW row \in StockRow, NEW q \in Nat, NEW op, StockGuard(op, row, q)
  PROVE  StockMoved(op, row, q) \in StockRow
  BY DEF StockRow, StockGuard, StockMoved

\* No transaction is open.
LEMMA InitTyped == Init => TypeOK /\ TxShape
<1> SUFFICES ASSUME Init PROVE TypeOK /\ TxShape
  OBVIOUS
<1>1. NoStock \in StockRow
  BY DEF NoStock, StockRow
<1>2. TypeOK
  BY <1>1, IdleTxType DEF Init, TypeOK
<1>3. TxShape
  BY DEF Init, TxShape, Shape, IdleTx
<1> QED BY <1>2, <1>3

\* A step that gives t the record x keeps the others' types and shapes.
LEMMA TxUpdate ==
  ASSUME TypeOK, TxShape, NEW t \in Txns, NEW x \in TxType, Shape(x),
         tx' = [tx EXCEPT ![t] = x]
  PROVE  tx' \in [Txns -> TxType] /\ TxShape'
<1>1. tx' \in [Txns -> TxType]
  BY DEF TypeOK
<1>2. \A u \in Txns : tx'[u] = IF u = t THEN x ELSE tx[u]
  BY DEF TypeOK
<1> QED BY <1>1, <1>2 DEF TxShape

\* Publishing and undoing keep every variable in its type.
LEMMA EndTyped ==
  ASSUME TypeOK, TxShape, NEW t \in Txns, PublishAndUnlock(t) \/ UndoAndUnlock(t)
  PROVE  TypeOK' /\ TxShape'
<1>1. tx' \in [Txns -> TxType] /\ TxShape'
  BY IdleTxType, TxUpdate DEF PublishAndUnlock, UndoAndUnlock, Shape, IdleTx
<1>2. TypeOK'
  BY <1>1 DEF TypeOK, PublishAndUnlock, UndoAndUnlock
<1> QED BY <1>1, <1>2

\* A transaction opens with what its call asks for.
LEMMA BeginTyped ==
  ASSUME TypeOK, TxShape, NEW t \in Txns, Begin(t)
  PROVE  TypeOK' /\ TxShape'
<1> USE DEF stockVars, resvVars
<1>1. ASSUME NEW r \in Reservations, NEW o \in Orders, NEW b \in Baskets, BeginReserve(t, r, o, b)
      PROVE  TypeOK' /\ TxShape'
  <2> DEFINE c == [status |-> "held", version |-> 1, order |-> o,
                   lines |-> b, expires |-> clock + TTL]
             x == [IdleTx EXCEPT !.op = "reserve", !.pc = "read", !.id = r, !.agg = c]
  <2>1. c \in Hold
    BY ConstantsAssumption DEF TypeOK, Hold, Statuses
  <2>2. x \in TxType
    BY <2>1, IdleTxType DEF TxType, Ops, PCs
  <2>3. Shape(x)
    BY DEF Shape, IdleTx
  <2>4. tx' \in [Txns -> TxType] /\ TxShape'
    <3>1. tx' = [tx EXCEPT ![t] = x]
      BY <1>1 DEF BeginReserve
    <3> HIDE DEF x
    <3> QED BY <3>1, <2>2, <2>3, TxUpdate
  <2> QED BY <1>1, <2>4 DEF BeginReserve, TypeOK
<1>2. ASSUME NEW op \in {"commit", "release"}, NEW r \in Reservations, BeginSettle(t, op, r)
      PROVE  TypeOK' /\ TxShape'
  <2> DEFINE x == [IdleTx EXCEPT !.op = op, !.pc = "read", !.id = r,
                                 !.now = IF op = "commit" THEN clock ELSE 0]
  <2>1. x \in TxType
    BY IdleTxType DEF TxType, Ops, PCs, TypeOK
  <2>2. Shape(x)
    BY DEF Shape, IdleTx
  <2>3. tx' \in [Txns -> TxType] /\ TxShape'
    <3>1. tx' = [tx EXCEPT ![t] = x]
      BY <1>2 DEF BeginSettle
    <3> HIDE DEF x
    <3> QED BY <3>1, <2>1, <2>2, TxUpdate
  <2> QED BY <1>2, <2>3 DEF BeginSettle, TypeOK
<1>3. CASE BeginSweep(t)
  <2> DEFINE x == [IdleTx EXCEPT !.op = "sweep", !.pc = "read", !.now = clock]
  <2>1. x \in TxType
    BY IdleTxType DEF TxType, Ops, PCs, TypeOK
  <2>2. Shape(x)
    BY DEF Shape, IdleTx
  <2>3. tx' \in [Txns -> TxType] /\ TxShape'
    <3>1. tx' = [tx EXCEPT ![t] = x]
      BY <1>3 DEF BeginSweep
    <3> HIDE DEF x
    <3> QED BY <3>1, <2>1, <2>2, TxUpdate
  <2> QED BY <1>3, <2>3 DEF BeginSweep, TypeOK
<1> QED BY <1>1, <1>2, <1>3 DEF Begin

\* Statements that change nothing but what t has in memory.
LEMMA LocalTyped ==
  ASSUME TypeOK, TxShape, NEW t \in Txns,
         \/ FindNoHold(t) \/ FindExistingHold(t) \/ SettleMoves(t) \/ SettleStays(t)
         \/ (\E r \in Reservations : SweepNext(t, r)) \/ SweepDone(t)
  PROVE  TypeOK' /\ TxShape'
<1> USE DEF stockVars, resvVars
<1>a. tx[t] \in TxType /\ Shape(tx[t])
  BY DEF TypeOK, TxShape
<1>b. /\ UNCHANGED <<stock, stockDraft, stockOwner, tracked, received, resv, resvDraft, resvOwner>>
      /\ UNCHANGED <<clock, phase>>
  BY DEF FindNoHold, FindExistingHold, SettleMoves, SettleStays, SweepNext, SweepDone
<1>c. SUFFICES \E x \in TxType : Shape(x) /\ tx' = [tx EXCEPT ![t] = x]
  <2>1. tx' \in [Txns -> TxType] /\ TxShape'
    BY <1>c, TxUpdate
  <2> QED BY <2>1, <1>b DEF TypeOK
<1>1. CASE FindNoHold(t)
  <2> DEFINE x == [tx[t] EXCEPT !.pc = "move", !.todo = LineSKUs(tx[t].agg.lines)]
  <2>1. x \in TxType
    BY <1>a DEF TxType, PCs, LineSKUs
  <2>2. Shape(x)
    BY <1>1, <1>a DEF FindNoHold, Shape, TxType
  <2> QED BY <1>1, <2>1, <2>2 DEF FindNoHold
<1>2. CASE FindExistingHold(t) \/ SettleStays(t)
  BY <1>2, IdleTxType DEF FindExistingHold, SettleStays, Shape, IdleTx
<1>3. CASE SettleMoves(t)
  <2> DEFINE a == [resv[tx[t].id] EXCEPT !.status = TargetStatus(tx[t].op)]
             x == [tx[t] EXCEPT !.pc = "move", !.agg = a, !.todo = LineSKUs(resv[tx[t].id].lines)]
  <2>1. tx[t].id \in Reservations /\ resv[tx[t].id] \in Hold
    BY <1>3, <1>a DEF SettleMoves, Shape, TypeOK
  <2>2. a \in Hold /\ a.lines = resv[tx[t].id].lines
    BY <2>1 DEF Hold, TargetStatus, Statuses
  <2>3. x \in TxType
    BY <1>a, <2>2 DEF TxType, PCs, LineSKUs
  <2>4. x.agg = a /\ x.pc = "move" /\ x.todo = LineSKUs(a.lines)
        /\ x.id = tx[t].id /\ x.op = tx[t].op /\ x.batch = tx[t].batch
    BY <1>a, <2>2 DEF TxType
  <2>5. Shape(x)
    <3> HIDE DEF a, x
    <3> QED BY <1>3, <1>a, <2>1, <2>4 DEF SettleMoves, Shape
  <2>6. tx' = [tx EXCEPT ![t] = x]
    BY <1>3 DEF SettleMoves
  <2> QED BY <2>3, <2>5, <2>6
<1>4. ASSUME NEW r \in Reservations, SweepNext(t, r)
      PROVE  \E x \in TxType : Shape(x) /\ tx' = [tx EXCEPT ![t] = x]
  <2> DEFINE a == [resv[r] EXCEPT !.status = "expired"]
             x == [tx[t] EXCEPT !.pc = "move", !.id = r, !.batch = tx[t].batch \ {r}, !.agg = a,
                                !.todo = LineSKUs(resv[r].lines)]
  <2>1. a \in Hold /\ a.lines = resv[r].lines
    BY DEF TypeOK, Hold, Statuses
  <2>2. x \in TxType
    BY <1>a, <2>1 DEF TxType, PCs, LineSKUs
  <2>3. x.agg = a /\ x.pc = "move" /\ x.todo = LineSKUs(a.lines)
        /\ x.id = r /\ x.op = tx[t].op /\ x.batch = tx[t].batch \ {r}
    BY <1>a, <2>1 DEF TxType
  <2>4. Shape(x)
    <3> HIDE DEF a, x
    <3> QED BY <1>4, <1>a, <2>3 DEF SweepNext, Shape
  <2>5. tx' = [tx EXCEPT ![t] = x]
    BY <1>4 DEF SweepNext
  <2> QED BY <2>2, <2>4, <2>5
<1>5. CASE SweepDone(t)
  <2> DEFINE x == [tx[t] EXCEPT !.pc = "commit"]
  <2>1. x \in TxType
    BY <1>a DEF TxType, PCs
  <2>2. Shape(x)
    BY <1>5, <1>a DEF SweepDone, Shape, TxType
  <2> QED BY <1>5, <2>1, <2>2 DEF SweepDone
<1> QED BY <1>1, <1>2, <1>3, <1>4, <1>5

\* Statements that lock or write rows.
LEMMA WriteTyped ==
  ASSUME TypeOK, TxShape, NEW t \in Txns,
         \/ InsertReservation(t) \/ UpdateReservation(t)
         \/ (\E s \in SKUs : MoveStock(t, s))
         \/ (\E B \in SUBSET Reservations : ClaimExpired(t, B))
  PROVE  TypeOK' /\ TxShape'
<1> USE DEF stockVars, resvVars
<1>a. tx[t] \in TxType /\ Shape(tx[t])
  BY DEF TypeOK, TxShape
<1>1. CASE InsertReservation(t)
  <2> DEFINE x == [tx[t] EXCEPT !.pc = "commit"]
  <2>1. x \in TxType /\ Shape(x)
    BY <1>1, <1>a DEF InsertReservation, Shape, TxType, PCs
  <2>2. tx' \in [Txns -> TxType] /\ TxShape'
    BY <1>1, <2>1, TxUpdate DEF InsertReservation
  <2> QED BY <1>1, <1>a, <2>2 DEF InsertReservation, TypeOK, TxType
<1>2. CASE UpdateReservation(t)
  <2> DEFINE p == IF tx[t].op = "sweep" THEN "next" ELSE "commit"
             x == [tx[t] EXCEPT !.pc = p]
             h == [resvDraft[tx[t].id] EXCEPT !.status = tx[t].agg.status,
                                              !.version = tx[t].agg.version + 1]
  <2>0. p \in PCs
    BY DEF PCs
  <2>1. x \in TxType
    BY <1>a, <2>0 DEF TxType
  <2>2. Shape(x)
    <3>1. x.pc = p /\ x.op = tx[t].op /\ x.id = tx[t].id /\ x.todo = tx[t].todo /\ x.batch = tx[t].batch
      BY <1>a DEF TxType
    <3> HIDE DEF x
    <3> QED BY <1>2, <1>a, <3>1 DEF UpdateReservation, Shape
  <2>2a. tx' \in [Txns -> TxType] /\ TxShape'
    <3>1. tx' = [tx EXCEPT ![t] = x]
      BY <1>2 DEF UpdateReservation
    <3> HIDE DEF x
    <3> QED BY <3>1, <2>1, <2>2, TxUpdate
  <2>3. tx[t].id \in Reservations /\ resvDraft[tx[t].id] \in Hold /\ tx[t].agg \in Hold
    BY <1>2, <1>a DEF UpdateReservation, Shape, TxType, TypeOK
  <2>4. h \in Hold
    <3>1. tx[t].agg.status \in Statuses /\ tx[t].agg.version + 1 \in Nat
      BY <2>3 DEF Hold
    <3> QED BY <2>3, <3>1 DEF Hold
  <2>5. resvDraft' = [resvDraft EXCEPT ![tx[t].id] = h]
    BY <1>2 DEF UpdateReservation
  <2>6. resvDraft' \in [Reservations -> Hold]
    BY <2>4, <2>5 DEF TypeOK
  <2> QED BY <1>2, <2>2a, <2>6 DEF UpdateReservation, TypeOK
<1>3. ASSUME NEW s \in SKUs, MoveStock(t, s)
      PROVE  TypeOK' /\ TxShape'
  <2> DEFINE p == IF tx[t].todo = {s} THEN "write" ELSE "move"
             x == [tx[t] EXCEPT !.todo = tx[t].todo \ {s}, !.pc = p]
             q == tx[t].agg.lines[s]
  <2>1. q \in Nat
    BY <1>a, ConstantsAssumption DEF TxType, Hold, Lines
  <2>2. StockMoved(tx[t].op, stockDraft[s], q) \in StockRow
    BY <1>3, <2>1, StockMovedType DEF MoveStock, TypeOK
  <2>3. x \in TxType /\ Shape(x)
    BY <1>3, <1>a DEF MoveStock, IsNextLine, Shape, TxType, PCs
  <2>4. tx' \in [Txns -> TxType] /\ TxShape'
    <3>1. tx' = [tx EXCEPT ![t] = x]
      BY <1>3 DEF MoveStock
    <3> HIDE DEF x
    <3> QED BY <3>1, <2>3, TxUpdate
  <2> QED BY <1>3, <2>2, <2>4 DEF MoveStock, TypeOK
<1>4. ASSUME NEW B \in SUBSET Reservations, ClaimExpired(t, B)
      PROVE  TypeOK' /\ TxShape'
  <2> DEFINE x == [tx[t] EXCEPT !.pc = "next", !.batch = B]
  <2>1. x \in TxType /\ Shape(x)
    BY <1>4, <1>a DEF ClaimExpired, Shape, TxType, PCs
  <2>2. tx' \in [Txns -> TxType] /\ TxShape'
    BY <1>4, <2>1, TxUpdate DEF ClaimExpired
  <2> QED BY <1>4, <2>2 DEF ClaimExpired, TypeOK
<1> QED BY <1>1, <1>2, <1>3, <1>4

\* Every step keeps every variable in its type.
LEMMA NextTyped == TypeOK /\ TxShape /\ [Next]_vars => TypeOK' /\ TxShape'
<1> SUFFICES ASSUME TypeOK, TxShape, [Next]_vars PROVE TypeOK' /\ TxShape'
  OBVIOUS
<1>1. ASSUME NEW s \in SKUs, NEW n \in 0..MaxStock, CreateStockItem(s, n)
      PROVE  TypeOK' /\ TxShape'
  BY <1>1, ConstantsAssumption DEF CreateStockItem, TypeOK, TxShape, StockRow, resvVars
<1>2. ASSUME NEW s \in SKUs, NEW d \in Deltas, AdjustStock(s, d)
      PROVE  TypeOK' /\ TxShape'
  <2>1. stock[s].available + d \in Nat /\ d \in Int
    BY <1>2, ConstantsAssumption DEF AdjustStock, TypeOK, StockRow
  <2> QED BY <1>2, <2>1 DEF AdjustStock, TypeOK, TxShape, StockRow, resvVars
<1>3. ASSUME NEW t \in Txns, Begin(t) \/ Statement(t) \/ Rollback(t) \/ DeadlockVictim(t)
      PROVE  TypeOK' /\ TxShape'
  BY <1>3, BeginTyped, LocalTyped, WriteTyped, EndTyped
     DEF Statement, CommitTx, InsertRefused, MoveRefused, UpdateRefused, Rollback, DeadlockVictim
<1>4. CASE Tick \/ FallQuiet
  BY <1>4 DEF Tick, FallQuiet, TypeOK, TxShape, stockVars, resvVars
<1>5. CASE UNCHANGED vars
  BY <1>5 DEF vars, TypeOK, TxShape, stockVars, resvVars
<1> QED BY <1>1, <1>2, <1>3, <1>4, <1>5 DEF Next

\* The counts of every stock row stay natural numbers in the committed and in
\* the uncommitted version: ReserveStock never takes available below zero and
\* no release or commit takes reserved below zero, so the CHECK constraints
\* of stock_items never fire.
THEOREM TypeCorrect == Spec => []TypeOK
<1>1. Init => TypeOK /\ TxShape
  BY InitTyped
<1>2. TypeOK /\ TxShape /\ [Next]_vars => (TypeOK /\ TxShape)'
  BY NextTyped
<1> QED BY <1>1, <1>2, PTL DEF Spec

-----------------------------------------------------------------------------
(* The reservation rows: what is locked, by whom, and written to what.     *)

RowInv ==
  /\ TypeOK
  /\ TxShape
  /\ DraftsAreLocked
  /\ VersionIsStatus
  /\ AggregateOK
  /\ CandidatesAreNew
  /\ HoldsLocked
  /\ OneLivePerOrder

\* There is no reservation, no draft of one and no lock.
LEMMA InitRows == Init => RowInv
<1> SUFFICES ASSUME Init PROVE RowInv
  OBVIOUS
<1>1. TypeOK /\ TxShape
  BY InitTyped
<1>2. \A t \in Txns : tx[t].op = "none" /\ tx[t].pc = "idle" /\ tx[t].id = None
  BY DEF Init, IdleTx
<1>3. \A r \in Reservations : resv[r] = NoHold /\ resvDraft[r] = NoHold /\ resvOwner[r] = None
  BY DEF Init
<1>4. DraftsAreLocked /\ VersionIsStatus /\ OneLivePerOrder
  BY <1>3 DEF Init, DraftsAreLocked, VersionIsStatus, OneLivePerOrder, NoHold
<1>5. AggregateOK /\ CandidatesAreNew
  BY <1>2 DEF AggregateOK, AggregateOf, CandidatesAreNew, Settling
<1>6. HoldsLocked
  BY <1>2, <1>3, ConstantsAssumption DEF HoldsLocked, LocksOf, Settling
<1> QED BY <1>1, <1>4, <1>5, <1>6 DEF RowInv

\* A row without an owner is the only kind that can look unused.
LEMMA UnusedRow ==
  ASSUME RowInv, NEW r \in Reservations, resvDraft[r].status = "none"
  PROVE  resvOwner[r] = None /\ resv[r].status = "none"
<1>1. ASSUME NEW t \in Txns, resvOwner[r] = t PROVE FALSE
  <2>1. LocksOf(t, r) /\ AggregateOf(t) /\ tx[t] \in TxType /\ resv[r] \in Hold
    BY DEF RowInv, HoldsLocked, AggregateOK, TypeOK
  <2>2. Ended(t, r).status # "none"
    BY <2>1 DEF Ended, TargetStatus, Hold
  <2> QED BY <1>1, <2>1, <2>2 DEF LocksOf, AggregateOf, Settling, TxType, Ops
<1> QED BY <1>1 DEF RowInv, TypeOK, DraftsAreLocked

\* A step of t that leaves the reservation rows alone has to be checked for t
\* only.
LEMMA RowsFrame ==
  ASSUME RowInv, TypeOK', TxShape', NEW t \in Txns, NEW x, tx' = [tx EXCEPT ![t] = x],
         UNCHANGED <<resv, resvDraft, resvOwner>>, DraftsAreLocked',
         AggregateOf(t)', \A r \in Reservations : LocksOf(t, r)',
         \A u \in Txns : u # t /\ x.op = "reserve" => tx[u].id # x.id,
         \A u \in Txns : u # t /\ tx[u].op = "reserve" => tx[u].id # x.id
  PROVE  RowInv'
<1>1. \A u \in Txns : tx'[u] = IF u = t THEN x ELSE tx[u]
  BY DEF RowInv, TypeOK
<1>2. AggregateOK'
  <2>1. ASSUME NEW u \in Txns, u # t PROVE AggregateOf(u)'
    <3>1. AggregateOf(u) /\ tx'[u] = tx[u]
      BY <1>1, <2>1 DEF RowInv, AggregateOK
    <3> QED BY <3>1 DEF AggregateOf, Settling, InStock
  <2> QED BY <2>1 DEF AggregateOK
<1>3. HoldsLocked'
  <2>1. ASSUME NEW u \in Txns, NEW r \in Reservations, u # t PROVE LocksOf(u, r)'
    <3>1. LocksOf(u, r) /\ tx'[u] = tx[u]
      BY <1>1, <2>1 DEF RowInv, HoldsLocked
    <3> QED BY <3>1 DEF LocksOf, Settling, ToSweep, Ended
  <2> QED BY <2>1 DEF HoldsLocked
<1>4. CandidatesAreNew'
  BY <1>1 DEF RowInv, CandidatesAreNew
<1>5. VersionIsStatus' /\ OneLivePerOrder'
  BY DEF RowInv, VersionIsStatus, OneLivePerOrder
<1> QED BY <1>2, <1>3, <1>4, <1>5 DEF RowInv

\* A step of t that leaves the tables alone has to be checked for t only.
LEMMA LocalFrame ==
  ASSUME RowInv, TypeOK', TxShape', NEW t \in Txns, NEW x, tx' = [tx EXCEPT ![t] = x],
         UNCHANGED <<stock, stockDraft, stockOwner, resv, resvDraft, resvOwner>>,
         AggregateOf(t)', \A r \in Reservations : LocksOf(t, r)',
         \A u \in Txns : u # t /\ x.op = "reserve" => tx[u].id # x.id,
         \A u \in Txns : u # t /\ tx[u].op = "reserve" => tx[u].id # x.id
  PROVE  RowInv'
<1>1. DraftsAreLocked'
  BY DEF RowInv, DraftsAreLocked
<1> QED BY <1>1, RowsFrame

\* A transaction opens: it has built a new hold or nothing yet, and has
\* locked nothing.
LEMMA BeginRows ==
  ASSUME RowInv, NEW t \in Txns, Begin(t)
  PROVE  RowInv'
<1> USE DEF stockVars, resvVars
<1>a. TypeOK' /\ TxShape'
  BY BeginTyped DEF RowInv
<1>b. tx[t] \in TxType /\ Shape(tx[t]) /\ \A r \in Reservations : LocksOf(t, r)
  BY DEF RowInv, TypeOK, TxShape, HoldsLocked
<1>c. tx \in [Txns -> TxType]
  BY DEF RowInv, TypeOK
<1>d. ASSUME tx[t].pc = "idle" PROVE \A r \in Reservations : resvOwner[r] # t
  BY <1>b, <1>d DEF Shape, LocksOf
<1>1. ASSUME NEW r \in Reservations, NEW o \in Orders, NEW b \in Baskets, BeginReserve(t, r, o, b)
      PROVE  RowInv'
  <2> DEFINE c == [status |-> "held", version |-> 1, order |-> o,
                   lines |-> b, expires |-> clock + TTL]
             x == [IdleTx EXCEPT !.op = "reserve", !.pc = "read", !.id = r, !.agg = c]
  <2>1. tx' = [tx EXCEPT ![t] = x] /\ x.op = "reserve" /\ x.id = r /\ x.pc = "read" /\ x.agg = c
    BY <1>1 DEF BeginReserve, IdleTx
  <2>2. tx'[t] = x
    BY <2>1, <1>c
  <2>3. resv[r].status = "none" /\ \A u \in Txns : tx[u].id # r
    BY <1>1, UnusedRow DEF BeginReserve, Fresh
  <2>4. AggregateOf(t)'
    <3> HIDE DEF x
    <3> QED BY <1>1, <2>1, <2>2, <2>3 DEF AggregateOf, Settling, BeginReserve
  <2>5. \A k \in Reservations : LocksOf(t, k)'
    <3> HIDE DEF x
    <3> QED BY <1>1, <1>d, <2>1, <2>2 DEF LocksOf, Settling, BeginReserve
  <2>6. UNCHANGED <<stock, stockDraft, stockOwner, resv, resvDraft, resvOwner>>
    BY <1>1 DEF BeginReserve
  <2> HIDE DEF x
  <2> QED BY <1>a, <2>1, <2>3, <2>4, <2>5, <2>6, LocalFrame
<1>2. ASSUME NEW op \in {"commit", "release"}, NEW r \in Reservations, BeginSettle(t, op, r)
      PROVE  RowInv'
  <2> DEFINE x == [IdleTx EXCEPT !.op = op, !.pc = "read", !.id = r,
                                 !.now = IF op = "commit" THEN clock ELSE 0]
  <2>1. tx' = [tx EXCEPT ![t] = x] /\ x.op = op /\ x.id = r /\ x.pc = "read"
    BY <1>2 DEF BeginSettle, IdleTx
  <2>2. tx'[t] = x
    BY <2>1, <1>c
  <2>3. resv[r].status # "none" /\ \A u \in Txns : tx[u].op = "reserve" => tx[u].id # r
    BY <1>2 DEF BeginSettle, RowInv, AggregateOK, AggregateOf
  <2>4. AggregateOf(t)'
    <3> HIDE DEF x
    <3> QED BY <1>2, <2>1, <2>2, <2>3 DEF AggregateOf, Settling, InStock, BeginSettle
  <2>5. \A k \in Reservations : LocksOf(t, k)'
    <3> HIDE DEF x
    <3> QED BY <1>2, <1>d, <2>1, <2>2 DEF LocksOf, Settling, BeginSettle
  <2>6. UNCHANGED <<stock, stockDraft, stockOwner, resv, resvDraft, resvOwner>>
    BY <1>2 DEF BeginSettle
  <2> HIDE DEF x
  <2> QED BY <1>a, <2>1, <2>3, <2>4, <2>5, <2>6, LocalFrame
<1>3. CASE BeginSweep(t)
  <2> DEFINE x == [IdleTx EXCEPT !.op = "sweep", !.pc = "read", !.now = clock]
  <2>1. /\ tx' = [tx EXCEPT ![t] = x] /\ x.op = "sweep" /\ x.id = None
        /\ x.pc = "read" /\ x.batch = {}
    BY <1>3 DEF BeginSweep, IdleTx
  <2>2. tx'[t] = x
    BY <2>1, <1>c
  <2>3. \A u \in Txns : tx[u].op = "reserve" => tx[u].id # None
    BY ConstantsAssumption DEF RowInv, TxShape, Shape
  <2>4. AggregateOf(t)'
    <3> HIDE DEF x
    <3> QED BY <1>3, <2>1, <2>2 DEF AggregateOf, Settling, BeginSweep
  <2>5. \A k \in Reservations : LocksOf(t, k)'
    <3> HIDE DEF x
    <3> QED BY <1>3, <1>d, <2>1, <2>2 DEF LocksOf, Settling, ToSweep, BeginSweep
  <2>6. UNCHANGED <<stock, stockDraft, stockOwner, resv, resvDraft, resvOwner>>
    BY <1>3 DEF BeginSweep
  <2> HIDE DEF x
  <2> QED BY <1>a, <2>1, <2>3, <2>4, <2>5, <2>6, LocalFrame
<1> QED BY <1>1, <1>2, <1>3 DEF Begin

\* Reads and decisions of one transaction change its own record and no row.
LEMMA LocalRows ==
  ASSUME RowInv, NEW t \in Txns,
         \/ FindNoHold(t) \/ FindExistingHold(t) \/ SettleMoves(t) \/ SettleStays(t)
         \/ (\E r \in Reservations : SweepNext(t, r)) \/ SweepDone(t)
  PROVE  RowInv'
<1> USE DEF stockVars, resvVars
<1>a. TypeOK' /\ TxShape'
  BY LocalTyped DEF RowInv
<1>b. tx[t] \in TxType /\ Shape(tx[t]) /\ AggregateOf(t) /\ \A r \in Reservations : LocksOf(t, r)
  BY DEF RowInv, TypeOK, TxShape, HoldsLocked, AggregateOK
<1>c. tx \in [Txns -> TxType]
  BY DEF RowInv, TypeOK
<1>d. UNCHANGED <<stock, stockDraft, stockOwner, resv, resvDraft, resvOwner>>
  BY DEF FindNoHold, FindExistingHold, SettleMoves, SettleStays, SweepNext, SweepDone
<1>e. /\ \A u \in Txns : u # t /\ tx[t].op = "reserve" => tx[u].id # tx[t].id
      /\ \A u \in Txns : u # t /\ tx[u].op = "reserve" => tx[u].id # tx[t].id
  BY DEF RowInv, CandidatesAreNew
<1>1. CASE FindNoHold(t)
  <2> DEFINE x == [tx[t] EXCEPT !.pc = "move", !.todo = LineSKUs(tx[t].agg.lines)]
  <2>1. tx' = [tx EXCEPT ![t] = x]
    BY <1>1 DEF FindNoHold
  <2>2. x.op = "reserve" /\ x.id = tx[t].id /\ x.pc = "move" /\ x.agg = tx[t].agg /\ x.batch = tx[t].batch
    BY <1>1, <1>b DEF FindNoHold, TxType
  <2>3. tx'[t] = x /\ tx[t].op = "reserve" /\ tx[t].pc = "read" /\ tx[t].batch = {}
    BY <2>1, <1>c, <1>b, <1>1 DEF FindNoHold, Shape
  <2> HIDE DEF x
  <2>4. AggregateOf(t)'
    BY <1>d, <1>b, <2>2, <2>3 DEF AggregateOf, Settling
  <2>5. \A k \in Reservations : LocksOf(t, k)'
    BY <1>d, <1>b, <2>2, <2>3 DEF LocksOf, Settling
  <2>f. /\ \A u \in Txns : u # t /\ x.op = "reserve" => tx[u].id # x.id
        /\ \A u \in Txns : u # t /\ tx[u].op = "reserve" => tx[u].id # x.id
    BY <1>e, <2>2, <2>3
  <2> QED BY <1>a, <1>d, <2>1, <2>4, <2>5, <2>f, LocalFrame
<1>2. CASE FindExistingHold(t) \/ SettleStays(t)
  <2>1. tx' = [tx EXCEPT ![t] = IdleTx] /\ tx[t].pc = "read"
    BY <1>2 DEF FindExistingHold, SettleStays
  <2>2. tx'[t] = IdleTx
    BY <2>1, <1>c
  <2>3. IdleTx.op = "none" /\ IdleTx.pc = "idle" /\ IdleTx.id = None
    BY DEF IdleTx
  <2>4. AggregateOf(t)'
    BY <2>2, <2>3 DEF AggregateOf, Settling
  <2>5. \A k \in Reservations : LocksOf(t, k)'
    BY <1>b, <1>d, <2>1, <2>2, <2>3 DEF LocksOf, Settling
  <2>6. \A u \in Txns : tx[u].op = "reserve" => tx[u].id # None
    BY ConstantsAssumption DEF RowInv, TxShape, Shape
  <2> QED BY <1>a, <1>d, <2>1, <2>3, <2>4, <2>5, <2>6, LocalFrame
<1>3. CASE SettleMoves(t)
  <2> DEFINE h == resv[tx[t].id]
             a == [h EXCEPT !.status = TargetStatus(tx[t].op)]
             x == [tx[t] EXCEPT !.pc = "move", !.agg = a, !.todo = LineSKUs(h.lines)]
  <2>1. tx' = [tx EXCEPT ![t] = x]
    BY <1>3 DEF SettleMoves
  <2>2. /\ Settling(t) /\ tx[t].pc = "read" /\ tx[t].id \in Reservations /\ tx[t].batch = {}
        /\ h.status = "held" /\ h.version = 1 /\ h \in Hold
    BY <1>3, <1>b DEF SettleMoves, Moves, Settling, Shape, RowInv, VersionIsStatus, TypeOK
  <2>3. a.version = 1 /\ a.status = TargetStatus(tx[t].op) /\ a.lines = h.lines
    BY <2>2 DEF Hold
  <2>4. x.op = tx[t].op /\ x.id = tx[t].id /\ x.pc = "move" /\ x.agg = a /\ x.batch = {}
    BY <1>b, <2>2 DEF TxType
  <2>5. tx'[t] = x
    BY <2>1, <1>c
  <2> HIDE DEF x, a
  <2>6. AggregateOf(t)'
    BY <1>d, <2>2, <2>3, <2>4, <2>5 DEF AggregateOf, Settling
  <2>7. \A k \in Reservations : LocksOf(t, k)'
    BY <1>d, <1>b, <2>2, <2>4, <2>5 DEF LocksOf, Settling
  <2>f. /\ \A u \in Txns : u # t /\ x.op = "reserve" => tx[u].id # x.id
        /\ \A u \in Txns : u # t /\ tx[u].op = "reserve" => tx[u].id # x.id
    BY <1>e, <2>2, <2>4
  <2> QED BY <1>a, <1>d, <2>1, <2>6, <2>7, <2>f, LocalFrame
<1>4. ASSUME NEW r \in Reservations, SweepNext(t, r)
      PROVE  RowInv'
  <2> DEFINE a == [resv[r] EXCEPT !.status = "expired"]
             x == [tx[t] EXCEPT !.pc = "move", !.id = r, !.batch = tx[t].batch \ {r},
                                !.agg = a, !.todo = LineSKUs(resv[r].lines)]
  <2>1. tx' = [tx EXCEPT ![t] = x]
    BY <1>4 DEF SweepNext
  <2>2. tx[t].op = "sweep" /\ tx[t].pc = "next" /\ r \in tx[t].batch
    BY <1>4, <1>b DEF SweepNext, Shape
  <2>3. resv[r].status = "held" /\ resv[r].version = 1 /\ resv[r] \in Hold
    BY <1>b, <2>2 DEF LocksOf, ToSweep, RowInv, VersionIsStatus, TypeOK
  <2>4. a.version = 1 /\ a.status = "expired" /\ a.lines = resv[r].lines
    BY <2>3 DEF Hold
  <2>5. x.op = "sweep" /\ x.id = r /\ x.pc = "move" /\ x.agg = a /\ x.batch = tx[t].batch \ {r}
    BY <1>b, <2>2 DEF TxType
  <2>6. tx'[t] = x
    BY <2>1, <1>c
  <2>7. \A u \in Txns : tx[u].op = "reserve" => tx[u].id # r
    BY <2>3 DEF RowInv, AggregateOK, AggregateOf
  <2> HIDE DEF x, a
  <2>8. AggregateOf(t)'
    BY <1>d, <2>4, <2>5, <2>6 DEF AggregateOf, Settling, TargetStatus
  <2>9. \A k \in Reservations : LocksOf(t, k)'
    <3>1. \A k \in Reservations : ToSweep(t, k)' <=> ToSweep(t, k)
      BY <2>2, <2>5, <2>6 DEF ToSweep
    <3>2. \A k \in Reservations : Ended(t, k)' = Ended(t, k)
      BY <1>d, <2>2, <2>5, <2>6 DEF Ended
    <3> QED BY <1>d, <1>b, <2>2, <2>5, <2>6, <3>1, <3>2 DEF LocksOf, Settling
  <2> QED BY <1>a, <1>d, <2>1, <2>5, <2>7, <2>8, <2>9, LocalFrame
<1>5. CASE SweepDone(t)
  <2> DEFINE x == [tx[t] EXCEPT !.pc = "commit"]
  <2>1. tx' = [tx EXCEPT ![t] = x]
    BY <1>5 DEF SweepDone
  <2>2. tx[t].op = "sweep" /\ tx[t].pc = "next" /\ tx[t].batch = {}
    BY <1>5, <1>b DEF SweepDone, Shape
  <2>3. x.op = "sweep" /\ x.id = tx[t].id /\ x.pc = "commit" /\ x.batch = {}
    BY <1>b, <2>2 DEF TxType
  <2>4. tx'[t] = x
    BY <2>1, <1>c
  <2> HIDE DEF x
  <2>5. AggregateOf(t)'
    BY <2>3, <2>4 DEF AggregateOf, Settling
  <2>6. \A k \in Reservations : LocksOf(t, k)'
    <3>1. \A k \in Reservations : ~ToSweep(t, k)' /\ ~ToSweep(t, k)
      BY <2>2, <2>3, <2>4 DEF ToSweep
    <3>2. \A k \in Reservations : Ended(t, k)' = Ended(t, k)
      BY <1>d, <2>2, <2>3, <2>4 DEF Ended
    <3> QED BY <1>d, <1>b, <2>2, <2>3, <2>4, <3>1, <3>2 DEF LocksOf, Settling
  <2>f. /\ \A u \in Txns : u # t /\ x.op = "reserve" => tx[u].id # x.id
        /\ \A u \in Txns : u # t /\ tx[u].op = "reserve" => tx[u].id # x.id
    BY <1>e, <2>2, <2>3
  <2> QED BY <1>a, <1>d, <2>1, <2>5, <2>6, <2>f, LocalFrame
<1> QED BY <1>1, <1>2, <1>3, <1>4, <1>5

\* What t does to row r is none of the business of a transaction that does not
\* own it before or after.
LEMMA LocksKept ==
  ASSUME NEW u \in Txns, NEW r \in Reservations, LocksOf(u, r), tx'[u] = tx[u],
         (resvOwner'[r] = u) <=> (resvOwner[r] = u),
         resvOwner[r] = u => resvDraft'[r] = resvDraft[r] /\ resv'[r] = resv[r]
  PROVE  LocksOf(u, r)'
  BY DEF LocksOf, Settling, ToSweep, Ended

\* A candidate's row is locked by nobody until it is inserted.
LEMMA CandidateUnlocked ==
  ASSUME RowInv, NEW t \in Txns, tx[t].op = "reserve", tx[t].pc # "commit"
  PROVE  /\ tx[t].id \in Reservations
         /\ resvOwner[tx[t].id] = None
         /\ resvDraft[tx[t].id] = resv[tx[t].id]
         /\ resv[tx[t].id].status = "none"
<1>1. tx[t].id \in Reservations /\ resv[tx[t].id].status = "none"
  BY DEF RowInv, TxShape, Shape, AggregateOK, AggregateOf
<1>2. ASSUME NEW u \in Txns, resvOwner[tx[t].id] = u PROVE FALSE
  <2>1. LocksOf(u, tx[t].id) /\ LocksOf(t, tx[t].id) /\ tx[u] \in TxType
    BY <1>1 DEF RowInv, HoldsLocked, TypeOK
  <2>2. tx[u].op = "reserve"
    BY <1>1, <1>2, <2>1 DEF LocksOf, Settling, TxType, Ops
  <2>3. tx[u].id = tx[t].id
    BY <1>2, <2>1, <2>2 DEF LocksOf
  <2>4. u = t
    BY <2>3 DEF RowInv, CandidatesAreNew
  <2> QED BY <1>2, <2>1, <2>4 DEF LocksOf
<1> QED BY <1>1, <1>2 DEF RowInv, TypeOK, DraftsAreLocked

\* A stock row is moved for one line of the hold; the reservations are as before.
LEMMA MoveRows ==
  ASSUME RowInv, NEW t \in Txns, NEW s \in SKUs, MoveStock(t, s)
  PROVE  RowInv'
<1> DEFINE p == IF tx[t].todo = {s} THEN "write" ELSE "move"
           x == [tx[t] EXCEPT !.todo = tx[t].todo \ {s}, !.pc = p]
<1>a. TypeOK' /\ TxShape'
  BY WriteTyped DEF RowInv
<1>b. /\ tx \in [Txns -> TxType] /\ tx[t] \in TxType /\ AggregateOf(t)
      /\ \A r \in Reservations : LocksOf(t, r)
  BY DEF RowInv, TypeOK, HoldsLocked, AggregateOK
<1>1. tx' = [tx EXCEPT ![t] = x] /\ UNCHANGED <<resv, resvDraft, resvOwner>> /\ tx[t].pc = "move"
  BY DEF MoveStock, resvVars
<1>2. x.op = tx[t].op /\ x.id = tx[t].id /\ x.agg = tx[t].agg /\ x.batch = tx[t].batch /\ x.pc = p
  BY <1>b DEF TxType
<1>3. tx'[t] = x
  BY <1>1, <1>b
<1>4. DraftsAreLocked'
  BY ConstantsAssumption DEF MoveStock, RowInv, TypeOK, DraftsAreLocked, resvVars
<1> HIDE DEF x
<1>5. AggregateOf(t)'
  BY <1>b, <1>1, <1>2, <1>3 DEF AggregateOf, Settling, InStock
<1>6. \A r \in Reservations : LocksOf(t, r)'
  <2>1. p \in {"move", "write"}
    OBVIOUS
  <2> HIDE DEF p
  <2>2. \A k \in Reservations : ToSweep(t, k)' <=> ToSweep(t, k)
    BY <1>1, <1>2, <1>3, <2>1 DEF ToSweep
  <2>3. \A k \in Reservations : Ended(t, k)' = Ended(t, k)
    BY <1>1, <1>2, <1>3 DEF Ended
  <2> QED BY <1>b, <1>1, <1>2, <1>3, <2>1, <2>2, <2>3 DEF LocksOf, Settling
<1>c. /\ \A u \in Txns : u # t /\ tx[t].op = "reserve" => tx[u].id # tx[t].id
      /\ \A u \in Txns : u # t /\ tx[u].op = "reserve" => tx[u].id # tx[t].id
  BY DEF RowInv, CandidatesAreNew
<1>7. /\ \A u \in Txns : u # t /\ x.op = "reserve" => tx[u].id # x.id
      /\ \A u \in Txns : u # t /\ tx[u].op = "reserve" => tx[u].id # x.id
  BY <1>c, <1>2
<1> QED BY <1>a, <1>1, <1>4, <1>5, <1>6, <1>7, RowsFrame

\* The pc of t moves and nothing else in memory does.
LEMMA PcFrame ==
  ASSUME RowInv, NEW t \in Txns, NEW p, tx' = [tx EXCEPT ![t].pc = p]
  PROVE  /\ \A u \in Txns : u # t => tx'[u] = tx[u]
         /\ tx'[t].pc = p /\ tx'[t].op = tx[t].op /\ tx'[t].id = tx[t].id
         /\ tx'[t].agg = tx[t].agg /\ tx'[t].batch = tx[t].batch /\ tx'[t].todo = tx[t].todo
         /\ CandidatesAreNew'
<1>1. /\ \A u \in Txns : u # t => tx'[u] = tx[u]
      /\ tx'[t].pc = p /\ tx'[t].op = tx[t].op /\ tx'[t].id = tx[t].id
      /\ tx'[t].agg = tx[t].agg /\ tx'[t].batch = tx[t].batch /\ tx'[t].todo = tx[t].todo
  BY DEF RowInv, TypeOK, TxType
<1>2. \A u \in Txns : tx'[u].op = tx[u].op /\ tx'[u].id = tx[u].id
  BY <1>1
<1> QED BY <1>1, <1>2 DEF RowInv, CandidatesAreNew

\* CreateReservation inserts the draft only where no live hold of the order is, and
\* locks it.
LEMMA InsertRows ==
  ASSUME RowInv, NEW t \in Txns, InsertReservation(t)
  PROVE  RowInv'
<1> DEFINE r == tx[t].id
<1>a. TypeOK' /\ TxShape'
  BY WriteTyped DEF RowInv
<1>b. tx[t].op = "reserve" /\ tx[t].pc = "write" /\ tx' = [tx EXCEPT ![t].pc = "commit"]
      /\ UNCHANGED <<stock, stockDraft, stockOwner, resv>>
  BY DEF InsertReservation, stockVars
<1>c. r \in Reservations /\ resvOwner[r] = None /\ resvDraft[r] = resv[r] /\ resv[r].status = "none"
  BY <1>b, CandidateUnlocked
<1>d. /\ \A k \in Reservations : resvOwner'[k] = IF k = r THEN t ELSE resvOwner[k]
      /\ \A k \in Reservations : resvDraft'[k] = IF k = r THEN tx[t].agg ELSE resvDraft[k]
  BY <1>c DEF InsertReservation, RowInv, TypeOK
<1>e. AggregateOf(t) /\ t # None /\ \A k \in Reservations : LocksOf(t, k)
  BY ConstantsAssumption DEF RowInv, AggregateOK, HoldsLocked
<1>f. /\ \A u \in Txns : u # t => tx'[u] = tx[u]
      /\ tx'[t].pc = "commit" /\ tx'[t].op = "reserve" /\ tx'[t].id = r
      /\ tx'[t].agg = tx[t].agg /\ tx'[t].batch = tx[t].batch
      /\ CandidatesAreNew'
  BY <1>b, PcFrame
<1> HIDE DEF r
<1>1. DraftsAreLocked'
  BY <1>b, <1>d, <1>e DEF RowInv, DraftsAreLocked
<1>2. VersionIsStatus'
  BY <1>b DEF RowInv, VersionIsStatus
<1>3. AggregateOK'
  <2>1. ASSUME NEW u \in Txns, u # t PROVE AggregateOf(u)'
    BY <1>b, <1>f, <2>1 DEF RowInv, AggregateOK, AggregateOf, Settling, InStock
  <2>2. AggregateOf(t)'
    BY <1>b, <1>c, <1>e, <1>f DEF AggregateOf, Settling, r
  <2> QED BY <2>1, <2>2 DEF AggregateOK
<1>4. HoldsLocked'
  <2>1. ASSUME NEW u \in Txns, NEW k \in Reservations, u # t PROVE LocksOf(u, k)'
    <3>1. LocksOf(u, k) /\ tx'[u] = tx[u] /\ u # None
      BY <1>f, <2>1, ConstantsAssumption DEF RowInv, HoldsLocked
    <3>2. (resvOwner'[k] = u) <=> (resvOwner[k] = u)
      BY <1>c, <1>d, <2>1, <3>1
    <3>3. resvOwner[k] = u => resvDraft'[k] = resvDraft[k] /\ resv'[k] = resv[k]
      BY <1>b, <1>c, <1>d, <3>1
    <3> QED BY <3>1, <3>2, <3>3, LocksKept
  <2>2. ASSUME NEW k \in Reservations PROVE LocksOf(t, k)'
    <3>1. resvOwner[k] # t
      BY <1>b, <1>e DEF LocksOf
    <3>2. tx[t].batch = {}
      BY <1>b DEF RowInv, TxShape, Shape
    <3> QED BY <1>d, <1>f, <3>1, <3>2 DEF LocksOf, Settling
  <2> QED BY <2>1, <2>2 DEF HoldsLocked
<1>5. OneLivePerOrder'
  <2>1. ASSUME NEW k \in Reservations, k # r, resvDraft[k].order = tx[t].agg.order,
               "held" \in {resv[k].status, resvDraft[k].status}
        PROVE  FALSE
    <3>1. resvDraft[k].status # "held"
      BY <2>1 DEF InsertReservation, IndexHits
    <3>2. resvDraft[k] # resv[k]
      BY <2>1, <3>1
    <3>3. resvOwner[k] # None /\ resvOwner[k] # t
      BY <1>b, <1>e, <3>2 DEF RowInv, DraftsAreLocked, LocksOf
    <3> QED BY <2>1, <3>2, <3>3 DEF InsertReservation, IndexWaits
  <2>2. \A k \in Reservations : k # r => resv'[k] = resv[k] /\ resvDraft'[k] = resvDraft[k]
    BY <1>b, <1>d
  <2>3. resvDraft'[r] = tx[t].agg
    BY <1>c, <1>d
  <2> QED BY <2>1, <2>2, <2>3 DEF RowInv, OneLivePerOrder
<1> QED BY <1>a, <1>f, <1>1, <1>2, <1>3, <1>4, <1>5 DEF RowInv

\* The row t settles or sweeps, at the moment it is written.
LEMMA RowToWrite ==
  ASSUME RowInv, NEW t \in Txns, UpdateReservation(t)
  PROVE  /\ tx[t].id \in Reservations
         /\ resvOwner[tx[t].id] \in {None, t}
         /\ resv[tx[t].id].status = "held"
         /\ resvDraft[tx[t].id] = resv[tx[t].id]
         /\ tx[t].agg.version = 1
         /\ tx[t].agg.status = TargetStatus(tx[t].op)
         /\ tx[t].op # "sweep" => resvOwner[tx[t].id] = None
<1> DEFINE r == tx[t].id
<1>1. /\ tx[t].op \in {"commit", "release", "sweep"} /\ tx[t].pc = "write"
      /\ r \in Reservations /\ resvOwner[r] \in {None, t}
      /\ resvDraft[r].version = tx[t].agg.version
  BY DEF UpdateReservation, SameVersion, RowInv, TxShape, Shape
<1>2. tx[t].agg.version = 1 /\ tx[t].agg.status = TargetStatus(tx[t].op)
  BY <1>1 DEF RowInv, AggregateOK, AggregateOf, Settling, InStock
<1>3. LocksOf(t, r) /\ (resvOwner[r] = None => resvDraft[r] = resv[r])
      /\ (resv[r].version = 1 => resv[r].status = "held")
  BY <1>1 DEF RowInv, HoldsLocked, DraftsAreLocked, VersionIsStatus
<1>4. CASE tx[t].op = "sweep"
  <2>1. ToSweep(t, r)
    BY <1>1 DEF ToSweep
  <2> HIDE DEF r
  <2> QED BY <1>1, <1>2, <1>3, <1>4, <2>1 DEF LocksOf, r
<1>5. CASE tx[t].op # "sweep"
  <2>1. resvOwner[r] = None
    BY <1>1, <1>3, <1>5 DEF LocksOf, Settling
  <2> QED BY <1>1, <1>2, <1>3, <1>5, <2>1
<1> QED BY <1>4, <1>5

\* UpdateReservation writes the draft only over the version that was read, and
\* locks it.
LEMMA UpdateRows ==
  ASSUME RowInv, NEW t \in Txns, UpdateReservation(t)
  PROVE  RowInv'
<1> DEFINE r == tx[t].id
           p == IF tx[t].op = "sweep" THEN "next" ELSE "commit"
<1>a. TypeOK' /\ TxShape'
  BY WriteTyped DEF RowInv
<1>b. /\ tx[t].op \in {"commit", "release", "sweep"} /\ tx[t].pc = "write"
      /\ tx' = [tx EXCEPT ![t].pc = p]
      /\ UNCHANGED <<stock, stockDraft, stockOwner, resv>>
  BY DEF UpdateReservation, stockVars
<1>c. /\ r \in Reservations /\ resvOwner[r] \in {None, t} /\ resvDraft[r] = resv[r]
      /\ resv[r].status = "held" /\ tx[t].agg.version = 1
      /\ tx[t].agg.status = TargetStatus(tx[t].op)
      /\ tx[t].op # "sweep" => resvOwner[r] = None
  BY RowToWrite
<1>d. /\ \A k \in Reservations : resvOwner'[k] = IF k = r THEN t ELSE resvOwner[k]
      /\ \A k \in Reservations : resvDraft'[k] = IF k = r THEN Ended(t, r) ELSE resvDraft[k]
  <2>1. resvDraft' = [resvDraft EXCEPT ![r] = [resvDraft[r] EXCEPT
                        !.status = tx[t].agg.status, !.version = tx[t].agg.version + 1]]
    BY DEF UpdateReservation
  <2>2. [resvDraft[r] EXCEPT !.status = tx[t].agg.status,
                             !.version = tx[t].agg.version + 1] = Ended(t, r)
    BY <1>c DEF Ended
  <2>3. resvOwner' = [resvOwner EXCEPT ![r] = t]
    BY DEF UpdateReservation
  <2>4. resvOwner \in [Reservations -> Txns \cup {None}] /\ resvDraft \in [Reservations -> Hold]
    BY DEF RowInv, TypeOK
  <2> HIDE DEF r
  <2> QED BY <1>c, <2>1, <2>2, <2>3, <2>4
<1>e. /\ AggregateOf(t) /\ Shape(tx[t]) /\ t # None
      /\ \A k \in Reservations : LocksOf(t, k)
      /\ \A u \in Txns : u # None
  BY ConstantsAssumption DEF RowInv, AggregateOK, HoldsLocked, TxShape
<1> HIDE DEF r
<1>f. /\ \A u \in Txns : u # t => tx'[u] = tx[u]
      /\ tx'[t].pc = p /\ tx'[t].op = tx[t].op /\ tx'[t].id = r
      /\ tx'[t].agg = tx[t].agg /\ tx'[t].batch = tx[t].batch
      /\ CandidatesAreNew'
  <2> HIDE DEF p
  <2> QED BY <1>b, PcFrame DEF r
<1>1. DraftsAreLocked'
  BY <1>b, <1>d, <1>e DEF RowInv, DraftsAreLocked
<1>2. VersionIsStatus'
  BY <1>b DEF RowInv, VersionIsStatus
<1>3. AggregateOK'
  <2>1. ASSUME NEW u \in Txns, u # t PROVE AggregateOf(u)'
    BY <1>b, <1>f, <2>1 DEF RowInv, AggregateOK, AggregateOf, Settling, InStock
  <2>2. AggregateOf(t)'
    BY <1>b, <1>c, <1>e, <1>f DEF AggregateOf, Settling, InStock, r
  <2> QED BY <2>1, <2>2 DEF AggregateOK
<1>4. HoldsLocked'
  <2>1. ASSUME NEW u \in Txns, NEW k \in Reservations, u # t PROVE LocksOf(u, k)'
    <3>1. LocksOf(u, k) /\ tx'[u] = tx[u]
      BY <1>f, <2>1 DEF RowInv, HoldsLocked
    <3>2. (resvOwner'[k] = u) <=> (resvOwner[k] = u)
      BY <1>c, <1>d, <1>e, <2>1
    <3>3. resvOwner[k] = u => resvDraft'[k] = resvDraft[k] /\ resv'[k] = resv[k]
      BY <1>b, <1>c, <1>d, <1>e, <2>1
    <3> QED BY <3>1, <3>2, <3>3, LocksKept
  <2>2. ASSUME NEW k \in Reservations PROVE LocksOf(t, k)'
    <3>1. Ended(t, k)' = Ended(t, k) /\ LocksOf(t, k) /\ resv'[k] = resv[k]
      BY <1>b, <1>e, <1>f DEF Ended
    <3>2. CASE tx[t].op = "sweep"
      <4>1. ToSweep(t, k)' <=> (ToSweep(t, k) /\ k # r)
        BY <1>b, <1>e, <1>f, <3>1, <3>2 DEF ToSweep, LocksOf, r
      <4> QED BY <1>b, <1>c, <1>d, <1>f, <3>1, <3>2, <4>1 DEF LocksOf, Settling
    <3>3. CASE tx[t].op # "sweep"
      BY <1>b, <1>c, <1>d, <1>f, <3>1, <3>3 DEF LocksOf, Settling
    <3> QED BY <3>2, <3>3
  <2> QED BY <2>1, <2>2 DEF HoldsLocked
<1>5. OneLivePerOrder'
  <2>1. \A k \in Reservations : /\ resv'[k] = resv[k]
                                /\ k # r => resvDraft'[k] = resvDraft[k]
    BY <1>b, <1>d
  <2>2. resvDraft'[r].order = resvDraft[r].order
    <3>1. resv[r] \in Hold
      BY <1>c DEF RowInv, TypeOK
    <3>2. Ended(t, r).order = resv[r].order
      BY <3>1 DEF Ended, Hold
    <3> QED BY <1>c, <1>d, <3>2
  <2>3. "held" \in {resv[r].status, resvDraft[r].status}
    BY <1>c
  <2> QED BY <1>c, <2>1, <2>2, <2>3 DEF RowInv, OneLivePerOrder
<1> QED BY <1>a, <1>f, <1>1, <1>2, <1>3, <1>4, <1>5 DEF RowInv

\* The sweep locks a batch of expired holds nobody else has locked.
LEMMA ClaimRows ==
  ASSUME RowInv, NEW t \in Txns, NEW B \in SUBSET Reservations, ClaimExpired(t, B)
  PROVE  RowInv'
<1> DEFINE x == [tx[t] EXCEPT !.pc = "next", !.batch = B]
<1>a. TypeOK' /\ TxShape'
  BY WriteTyped DEF RowInv
<1>b. /\ tx[t].op = "sweep" /\ tx[t].pc = "read" /\ tx' = [tx EXCEPT ![t] = x]
      /\ UNCHANGED <<stock, stockDraft, stockOwner, resv, resvDraft>>
      /\ \A k \in Reservations : resvOwner'[k] = IF k \in B THEN t ELSE resvOwner[k]
  BY DEF ClaimExpired, stockVars
<1>c. \A k \in B : k \in Reservations /\ resvOwner[k] = None /\ resv[k].status = "held"
                   /\ resvDraft[k] = resv[k]
  BY DEF ClaimExpired, IsBatch, Claimable, RowInv, DraftsAreLocked
<1>d. /\ \A k \in Reservations : LocksOf(t, k)
      /\ \A u \in Txns : u # None
      /\ tx \in [Txns -> TxType] /\ tx[t] \in TxType
  BY ConstantsAssumption DEF RowInv, HoldsLocked, TypeOK
<1>e. x.op = "sweep" /\ x.pc = "next" /\ x.id = tx[t].id /\ x.batch = B
  BY <1>b, <1>d DEF TxType
<1>f. tx'[t] = x /\ \A u \in Txns : u # t => tx'[u] = tx[u]
  BY <1>b, <1>d
<1> HIDE DEF x
<1>1. DraftsAreLocked'
  BY <1>b, <1>c, <1>d DEF RowInv, DraftsAreLocked
<1>2. VersionIsStatus'
  BY <1>b DEF RowInv, VersionIsStatus
<1>3. AggregateOK'
  <2>1. ASSUME NEW u \in Txns, u # t PROVE AggregateOf(u)'
    BY <1>b, <1>f, <2>1 DEF RowInv, AggregateOK, AggregateOf, Settling, InStock
  <2>2. AggregateOf(t)'
    BY <1>e, <1>f DEF AggregateOf, Settling
  <2> QED BY <2>1, <2>2 DEF AggregateOK
<1>4. CandidatesAreNew'
  <2>1. \A u \in Txns : tx'[u].op = tx[u].op /\ tx'[u].id = tx[u].id
    BY <1>b, <1>e, <1>f
  <2> QED BY <2>1 DEF RowInv, CandidatesAreNew
<1>5. HoldsLocked'
  <2>1. ASSUME NEW u \in Txns, NEW k \in Reservations, u # t PROVE LocksOf(u, k)'
    <3>1. LocksOf(u, k) /\ tx'[u] = tx[u]
      BY <1>f, <2>1 DEF RowInv, HoldsLocked
    <3>2. (resvOwner'[k] = u) <=> (resvOwner[k] = u)
      BY <1>b, <1>c, <1>d, <2>1
    <3>3. resvOwner[k] = u => resvDraft'[k] = resvDraft[k] /\ resv'[k] = resv[k]
      BY <1>b
    <3> QED BY <3>1, <3>2, <3>3, LocksKept
  <2>2. ASSUME NEW k \in Reservations PROVE LocksOf(t, k)'
    <3>1. resvOwner[k] # t
      BY <1>b, <1>d DEF LocksOf
    <3>2. ToSweep(t, k)' <=> k \in B
      BY <1>e, <1>f DEF ToSweep
    <3> QED BY <1>b, <1>c, <1>e, <1>f, <3>1, <3>2 DEF LocksOf, Settling
  <2> QED BY <2>1, <2>2 DEF HoldsLocked
<1>6. OneLivePerOrder'
  BY <1>b DEF RowInv, OneLivePerOrder
<1> QED BY <1>a, <1>1, <1>2, <1>3, <1>4, <1>5, <1>6 DEF RowInv

\* What a transaction publishes in a reservation row: a new hold, or the end
\* of a live one.
LEMMA PublishedRow ==
  ASSUME RowInv, NEW t \in Txns, tx[t].pc = "commit", NEW k \in Reservations, resvOwner[k] = t
  PROVE  \/ /\ tx[t].op = "reserve" /\ tx[t].id = k /\ resv[k].status = "none"
            /\ resvDraft[k].status = "held" /\ resvDraft[k].version = 1
         \/ /\ resv[k].status = "held" /\ resv[k].version = 1
            /\ resvDraft[k].status \in {"committed", "released", "expired"}
            /\ resvDraft[k].version = 2 /\ resvDraft[k].lines = resv[k].lines
<1>1. /\ LocksOf(t, k) /\ AggregateOf(t) /\ Shape(tx[t]) /\ tx[t] \in TxType /\ resv[k] \in Hold
      /\ (resv[k].status = "held" <=> resv[k].version = 1)
  BY DEF RowInv, HoldsLocked, AggregateOK, TxShape, TypeOK, VersionIsStatus
<1>2. CASE tx[t].op = "reserve"
  BY <1>1, <1>2 DEF LocksOf, AggregateOf
<1>3. CASE tx[t].op # "reserve"
  <2>1. tx[t].op \in {"commit", "release", "sweep"} /\ ~ToSweep(t, k)
    BY <1>1, <1>3 DEF Shape, TxType, Ops, ToSweep
  <2>2. resv[k].status = "held" /\ resvDraft[k] = Ended(t, k)
    BY <1>1, <2>1 DEF LocksOf, Settling
  <2>3. /\ Ended(t, k).status \in {"committed", "released", "expired"}
        /\ Ended(t, k).version = 2 /\ Ended(t, k).lines = resv[k].lines
    BY <1>1, <2>1 DEF Ended, TargetStatus, Hold
  <2> QED BY <1>1, <2>2, <2>3
<1> QED BY <1>2, <1>3

\* Nobody rewrites the order of a live hold.
LEMMA OrderKept ==
  ASSUME RowInv, NEW k \in Reservations, resv[k].status = "held"
  PROVE  resvDraft[k].order = resv[k].order
<1>1. CASE resvOwner[k] = None
  BY <1>1 DEF RowInv, DraftsAreLocked
<1>2. ASSUME NEW u \in Txns, resvOwner[k] = u PROVE resvDraft[k].order = resv[k].order
  <2>1. LocksOf(u, k) /\ AggregateOf(u) /\ tx[u] \in TxType /\ resv[k] \in Hold
    BY DEF RowInv, HoldsLocked, AggregateOK, TypeOK
  <2>2. resvDraft[k] = resv[k] \/ resvDraft[k] = Ended(u, k)
    BY <1>2, <2>1 DEF LocksOf, AggregateOf, Settling, TxType, Ops
  <2>3. Ended(u, k).order = resv[k].order
    BY <2>1 DEF Ended, Hold
  <2> QED BY <2>2, <2>3
<1> QED BY <1>1, <1>2 DEF RowInv, TypeOK

\* Once t has ended its locks are gone and nobody else's are.
LEMMA Unlocked ==
  ASSUME RowInv, NEW t \in Txns, tx' = [tx EXCEPT ![t] = IdleTx],
         resvOwner' = [r \in Reservations |-> IF resvOwner[r] = t THEN None ELSE resvOwner[r]],
         \A r \in Reservations :
           resvOwner[r] # t => resvDraft'[r] = resvDraft[r] /\ resv'[r] = resv[r]
  PROVE  CandidatesAreNew' /\ HoldsLocked' /\ AggregateOf(t)'
<1>1. /\ tx'[t] = IdleTx /\ \A u \in Txns : u # t => tx'[u] = tx[u]
      /\ \A u \in Txns : u # None
  BY ConstantsAssumption DEF RowInv, TypeOK
<1>2. IdleTx.op = "none" /\ IdleTx.pc = "idle" /\ IdleTx.id = None /\ IdleTx.batch = {}
  BY DEF IdleTx
<1>3. CandidatesAreNew'
  <2>1. \A u \in Txns : tx[u].op = "reserve" => tx[u].id # None
    BY ConstantsAssumption DEF RowInv, TxShape, Shape
  <2> QED BY <1>1, <1>2, <2>1 DEF RowInv, CandidatesAreNew
<1>4. ASSUME NEW u \in Txns, NEW k \in Reservations, u # t PROVE LocksOf(u, k)'
  <2>1. LocksOf(u, k) /\ tx'[u] = tx[u]
    BY <1>1, <1>4 DEF RowInv, HoldsLocked
  <2>2. (resvOwner'[k] = u) <=> (resvOwner[k] = u)
    BY <1>1, <1>4
  <2>3. resvOwner[k] = u => resvDraft'[k] = resvDraft[k] /\ resv'[k] = resv[k]
    BY <1>4
  <2> QED BY <2>1, <2>2, <2>3, LocksKept
<1>5. ASSUME NEW k \in Reservations PROVE LocksOf(t, k)'
  <2>1. resvOwner'[k] # t
    BY <1>1
  <2> QED BY <1>1, <1>2, <2>1 DEF LocksOf, Settling
<1>6. AggregateOf(t)'
  BY <1>1, <1>2 DEF AggregateOf, Settling
<1> QED BY <1>3, <1>4, <1>5, <1>6 DEF HoldsLocked

\* COMMIT: the drafts a transaction has locked become the rows.
LEMMA PublishRows ==
  ASSUME RowInv, NEW t \in Txns, CommitTx(t)
  PROVE  RowInv'
<1>a. TypeOK' /\ TxShape'
  BY EndTyped DEF RowInv, CommitTx
<1>b. /\ tx[t].pc = "commit" /\ tx' = [tx EXCEPT ![t] = IdleTx]
      /\ resvOwner' = [r \in Reservations |-> IF resvOwner[r] = t THEN None ELSE resvOwner[r]]
      /\ \A r \in Reservations : resv'[r] = IF resvOwner[r] = t THEN resvDraft[r] ELSE resv[r]
      /\ resvDraft' = resvDraft
  BY DEF CommitTx, PublishAndUnlock
<1>c. /\ tx'[t] = IdleTx /\ \A u \in Txns : u # t => tx'[u] = tx[u]
      /\ \A u \in Txns : u # None
  BY <1>b, ConstantsAssumption DEF RowInv, TypeOK
<1>1. DraftsAreLocked'
  BY <1>b DEF CommitTx, PublishAndUnlock, RowInv, DraftsAreLocked
<1>2. VersionIsStatus'
  <2>1. ASSUME NEW k \in Reservations, resvOwner[k] = t
        PROVE  /\ resvDraft[k].status # "none"
               /\ resvDraft[k].status = "held" <=> resvDraft[k].version = 1
    BY <1>b, <2>1, PublishedRow
  <2> QED BY <1>b, <2>1 DEF RowInv, VersionIsStatus
<1>3. CandidatesAreNew' /\ HoldsLocked' /\ AggregateOf(t)'
  <2>1. \A r \in Reservations :
           resvOwner[r] # t => resvDraft'[r] = resvDraft[r] /\ resv'[r] = resv[r]
    BY <1>b
  <2> QED BY <1>b, <2>1, Unlocked
<1>4. ASSUME NEW u \in Txns, u # t PROVE AggregateOf(u)'
  <2> DEFINE k == tx[u].id
  <2>1. AggregateOf(u) /\ Shape(tx[u]) /\ tx'[u] = tx[u]
    BY <1>c, <1>4 DEF RowInv, AggregateOK, TxShape
  <2>2. CASE tx[u].op = "reserve"
    <3>1. k \in Reservations /\ resv[k].status = "none" /\ tx[t].id # k
      BY <1>4, <2>1, <2>2 DEF Shape, AggregateOf, RowInv, CandidatesAreNew
    <3>2. resvOwner[k] # t
      BY <1>b, <3>1, PublishedRow
    <3> QED BY <1>b, <2>1, <2>2, <3>1, <3>2 DEF AggregateOf, Settling
  <2>3. CASE Settling(u)
    <3>1. k \in Reservations /\ resv[k].status # "none"
      BY <2>1, <2>3 DEF Shape, AggregateOf, Settling
    <3>2. resvOwner[k] = t => resvDraft[k].status # "none" /\ resvDraft[k].lines = resv[k].lines
      BY <1>b, <3>1, PublishedRow
    <3>3. resv'[k].status # "none" /\ resv'[k].lines = resv[k].lines
      BY <1>b, <3>1, <3>2
    <3> QED BY <2>1, <2>3, <3>3 DEF AggregateOf, Settling, InStock
  <2>4. CASE tx[u].op = "sweep" /\ tx[u].pc \in {"move", "write"}
    <3>1. k \in Reservations /\ resvOwner[k] = u
      BY <2>1, <2>4 DEF Shape, RowInv, HoldsLocked, LocksOf, ToSweep
    <3>2. resv'[k] = resv[k]
      BY <1>b, <1>4, <3>1
    <3> QED BY <2>1, <2>4, <3>2 DEF AggregateOf, Settling, InStock
  <2> QED BY <2>1, <2>2, <2>3, <2>4 DEF AggregateOf, Settling
<1>5. OneLivePerOrder'
  <2>1. \A k \in Reservations : "held" \in {resv'[k].status, resvDraft'[k].status}
                                  => "held" \in {resv[k].status, resvDraft[k].status}
    BY <1>b
  <2> QED BY <1>b, <2>1 DEF RowInv, OneLivePerOrder
<1>6. AggregateOK'
  BY <1>3, <1>4 DEF AggregateOK
<1> QED BY <1>a, <1>1, <1>2, <1>3, <1>5, <1>6 DEF RowInv

\* ROLLBACK: the drafts a transaction has locked are dropped.
LEMMA UndoRows ==
  ASSUME RowInv, NEW t \in Txns, UndoAndUnlock(t)
  PROVE  RowInv'
<1>a. TypeOK' /\ TxShape'
  BY EndTyped DEF RowInv
<1>b. /\ tx' = [tx EXCEPT ![t] = IdleTx] /\ resv' = resv
      /\ resvOwner' = [r \in Reservations |-> IF resvOwner[r] = t THEN None ELSE resvOwner[r]]
      /\ \A r \in Reservations : resvDraft'[r] = IF resvOwner[r] = t THEN resv[r] ELSE resvDraft[r]
  BY DEF UndoAndUnlock
<1>1. DraftsAreLocked'
  BY <1>b DEF UndoAndUnlock, RowInv, DraftsAreLocked
<1>2. VersionIsStatus'
  BY <1>b DEF RowInv, VersionIsStatus
<1>3. CandidatesAreNew' /\ HoldsLocked' /\ AggregateOf(t)'
  BY <1>b, Unlocked
<1>4. ASSUME NEW u \in Txns, u # t PROVE AggregateOf(u)'
  <2>1. AggregateOf(u) /\ tx'[u] = tx[u]
    BY <1>b, <1>4 DEF RowInv, AggregateOK, TypeOK
  <2> QED BY <1>b, <2>1 DEF AggregateOf, Settling, InStock
<1>5. OneLivePerOrder'
  <2>1. ASSUME NEW k \in Reservations, "held" \in {resv'[k].status, resvDraft'[k].status}
        PROVE  /\ "held" \in {resv[k].status, resvDraft[k].status}
               /\ resvDraft'[k].order = resvDraft[k].order
    BY <1>b, <2>1, OrderKept
  <2> QED BY <2>1 DEF RowInv, OneLivePerOrder
<1>6. AggregateOK'
  BY <1>3, <1>4 DEF AggregateOK
<1> QED BY <1>a, <1>1, <1>2, <1>3, <1>5, <1>6 DEF RowInv

\* Every step keeps the invariant of the reservation rows.
LEMMA NextRows == RowInv /\ [Next]_vars => RowInv'
<1> SUFFICES ASSUME RowInv, [Next]_vars PROVE RowInv'
  OBVIOUS
<1>a. TypeOK' /\ TxShape'
  BY NextTyped DEF RowInv
<1>b. ASSUME UNCHANGED <<resv, resvDraft, resvOwner, tx>>, DraftsAreLocked' PROVE RowInv'
  <2>1. VersionIsStatus' /\ CandidatesAreNew' /\ OneLivePerOrder'
    BY <1>b DEF RowInv, VersionIsStatus, CandidatesAreNew, OneLivePerOrder
  <2>2. AggregateOK'
    BY <1>b DEF RowInv, AggregateOK, AggregateOf, Settling, InStock
  <2>3. HoldsLocked'
    <3>1. ASSUME NEW u \in Txns, NEW r \in Reservations PROVE LocksOf(u, r)'
      BY <1>b, LocksKept DEF RowInv, HoldsLocked
    <3> QED BY <3>1 DEF HoldsLocked
  <2> QED BY <1>a, <1>b, <2>1, <2>2, <2>3 DEF RowInv
<1>1. ASSUME NEW s \in SKUs, NEW n \in 0..MaxStock, CreateStockItem(s, n)
      PROVE  RowInv'
  <2>1. DraftsAreLocked'
    BY <1>1 DEF CreateStockItem, RowInv, TypeOK, DraftsAreLocked, resvVars
  <2> QED BY <1>1, <1>b, <2>1 DEF CreateStockItem, resvVars
<1>2. ASSUME NEW s \in SKUs, NEW d \in Deltas, AdjustStock(s, d)
      PROVE  RowInv'
  <2>1. DraftsAreLocked'
    BY <1>2 DEF AdjustStock, RowInv, TypeOK, DraftsAreLocked, resvVars
  <2> QED BY <1>2, <1>b, <2>1 DEF AdjustStock, resvVars
<1>3. ASSUME NEW t \in Txns, Begin(t) \/ Statement(t) \/ Rollback(t) \/ DeadlockVictim(t)
      PROVE  RowInv'
  BY <1>3, BeginRows, LocalRows, MoveRows, InsertRows, UpdateRows, ClaimRows, PublishRows, UndoRows
     DEF Statement, InsertRefused, MoveRefused, UpdateRefused, Rollback, DeadlockVictim
<1>4. CASE Tick \/ FallQuiet \/ UNCHANGED vars
  BY <1>4, <1>b DEF Tick, FallQuiet, vars, stockVars, resvVars, RowInv, DraftsAreLocked
<1> QED BY <1>1, <1>2, <1>3, <1>4 DEF Next

\* In every reachable state a reservation's draft differs from its row only under
\* the lock of the one transaction that writes it, and no order has two live holds.
THEOREM RowsInvariant == Spec => []RowInv
<1> QED BY InitRows, NextRows, PTL DEF Spec

\* However many ReserveStock calls race for one order, and whatever their
\* callers retry, at most one live hold of that order is ever committed.
THEOREM AtMostOneHold == Spec => []OneHoldPerOrder
<1>1. RowInv => OneHoldPerOrder
  <2> SUFFICES ASSUME RowInv, NEW r \in InStatus("held"), NEW u \in InStatus("held"),
                      resv[r].order = resv[u].order
               PROVE  r = u
    BY DEF OneHoldPerOrder
  <2>1. resvDraft[r].order = resvDraft[u].order
    BY OrderKept DEF InStatus
  <2> QED BY <2>1 DEF InStatus, RowInv, OneLivePerOrder
<1> QED BY <1>1, RowsInvariant, PTL

\* A commit, a release and a sweep that read the same hold never both take
\* effect: the first to write it bumps its version, the others are refused,
\* and no later step touches the row again.
THEOREM SettledRowsAreFinal == Spec => SettledIsFinal
<1> DEFINE Final == \A r \in Reservations :
              resv[r].status \in {"committed", "released", "expired"} => resv'[r] = resv[r]
<1>1. ASSUME RowInv, Next PROVE Final
  <2>1. ASSUME NEW t \in Txns, CommitTx(t) PROVE Final
    <3>1. tx[t].pc = "commit" /\ \A r \in Reservations :
             resv'[r] = IF resvOwner[r] = t THEN resvDraft[r] ELSE resv[r]
      BY <2>1 DEF CommitTx, PublishAndUnlock
    <3> QED BY <1>1, <3>1, PublishedRow
  <2>2. ASSUME NEW t \in Txns, Begin(t) PROVE UNCHANGED resv
    BY <2>2 DEF Begin, BeginReserve, BeginSettle, BeginSweep, resvVars
  <2>3. ASSUME NEW t \in Txns, Statement(t), ~CommitTx(t) PROVE UNCHANGED resv
    BY <2>3 DEF Statement, FindNoHold, FindExistingHold, InsertReservation, InsertRefused,
                SettleMoves, SettleStays, MoveStock, MoveRefused, UpdateReservation,
                UpdateRefused, ClaimExpired, SweepNext, SweepDone, UndoAndUnlock, resvVars
  <2>4. ASSUME NEW t \in Txns, Rollback(t) \/ DeadlockVictim(t) PROVE UNCHANGED resv
    BY <2>4 DEF Rollback, DeadlockVictim, UndoAndUnlock
  <2>5. CASE Tick \/ FallQuiet
    BY <2>5 DEF Tick, FallQuiet, resvVars
  <2>6. ASSUME NEW s \in SKUs, NEW n, CreateStockItem(s, n) \/ AdjustStock(s, n)
        PROVE  UNCHANGED resv
    BY <2>6 DEF CreateStockItem, AdjustStock, resvVars
  <2> QED BY <1>1, <2>1, <2>2, <2>3, <2>4, <2>5, <2>6 DEF Next
<1>2. RowInv /\ [Next]_vars => [Final]_vars
  BY <1>1
<1> QED BY <1>2, RowsInvariant, PTL DEF Spec, SettledIsFinal
-----------------------------------------------------------------------------
(* Counting units.                                                         *)

\* Reservations are finitely many, so the units they hold can be counted.
LEMMA UnitsFinite ==
  ASSUME NEW s, NEW R \in SUBSET Reservations
  PROVE  IsFiniteSet(Units(R, s)) /\ Cardinality(Units(R, s)) \in Nat
<1>1. IsFiniteSet(R)
  BY ConstantsAssumption, FS_Subset DEF ConstantsAssumption
<1>2. IsFiniteSet(1..MaxQty)
  BY ConstantsAssumption, FS_Interval DEF ConstantsAssumption
<1>3. IsFiniteSet(R \X (1..MaxQty))
  BY <1>1, <1>2, FS_Product
<1>4. Units(R, s) \in SUBSET (R \X (1..MaxQty))
  BY DEF Units
<1>5. IsFiniteSet(Units(R, s))
  BY <1>3, <1>4, FS_Subset
<1> QED BY <1>5, FS_CardinalityType

\* Units of disjoint sets of reservations add up.
LEMMA UnitsUnion ==
  ASSUME NEW s, NEW R \in SUBSET Reservations, NEW T \in SUBSET Reservations, R \cap T = {}
  PROVE  Cardinality(Units(R \cup T, s)) = Cardinality(Units(R, s)) + Cardinality(Units(T, s))
<1>1. Units(R \cup T, s) = Units(R, s) \cup Units(T, s) /\ Units(R, s) \cap Units(T, s) = {}
  BY DEF Units
<1>2. /\ IsFiniteSet(Units(R, s)) /\ Cardinality(Units(R, s)) \in Nat
      /\ IsFiniteSet(Units(T, s)) /\ Cardinality(Units(T, s)) \in Nat
  BY UnitsFinite
<1>3. Cardinality(Units(R, s) \cup Units(T, s))
        = Cardinality(Units(R, s)) + Cardinality(Units(T, s)) - Cardinality(Units(R, s) \cap Units(T, s))
  BY <1>2, FS_Union
<1>4. Cardinality(Units(R, s) \cap Units(T, s)) = 0
  BY <1>1, FS_EmptySet
<1>5. Cardinality(Units(R \cup T, s)) = Cardinality(Units(R, s) \cup Units(T, s))
  BY <1>1
<1> QED BY ONLY <1>2, <1>3, <1>4, <1>5

\* Nobody holds nothing, and more reservations hold no less.
LEMMA UnitsBounds ==
  ASSUME NEW s, NEW R \in SUBSET Reservations, NEW T \in SUBSET R
  PROVE  /\ Cardinality(Units({}, s)) = 0
         /\ Cardinality(Units(T, s)) <= Cardinality(Units(R, s))
<1>1. Units({}, s) = {} /\ Units(T, s) \in SUBSET Units(R, s)
  BY DEF Units
<1>2. IsFiniteSet(Units(R, s))
  BY UnitsFinite
<1>3. Cardinality(Units(T, s)) <= Cardinality(Units(R, s))
  BY <1>1, <1>2, FS_Subset
<1> QED BY <1>1, <1>3, FS_EmptySet

\* One reservation holds the quantity on its line.
LEMMA UnitsOne ==
  ASSUME TypeOK, NEW s \in SKUs, NEW r \in Reservations
  PROVE  Cardinality(Units({r}, s)) = resv[r].lines[s] /\ resv[r].lines[s] \in Nat
<1> DEFINE n == resv[r].lines[s]
<1>1. n \in 0..MaxQty /\ MaxQty \in Nat
  BY ConstantsAssumption DEF TypeOK, Hold, Lines, ConstantsAssumption
<1>2. Units({r}, s) = {r} \X (1..n)
  BY <1>1 DEF Units
<1> HIDE DEF n
<1>3. IsFiniteSet(1..n) /\ Cardinality(1..n) = n
  <2>1. IsFiniteSet(1..n) /\ Cardinality(1..n) = IF 1 > n THEN 0 ELSE n - 1 + 1
    BY <1>1, FS_Interval
  <2> QED BY <1>1, <2>1
<1>4. IsFiniteSet({r}) /\ Cardinality({r}) = 1
  BY FS_Singleton
<1>5. Cardinality({r} \X (1..n)) = Cardinality({r}) * Cardinality(1..n)
  BY <1>3, <1>4, FS_Product
<1>6. Cardinality(Units({r}, s)) = n
  <2>1. Cardinality({r} \X (1..n)) = 1 * n
    BY ONLY <1>3, <1>4, <1>5
  <2>2. 1 * n = n
    BY ONLY <1>1
  <2> QED BY ONLY <1>2, <2>1, <2>2
<1> QED BY <1>1, <1>6 DEF n

\* Units change only with the lines of their reservations.
LEMMA UnitsSame ==
  ASSUME NEW s, NEW R \in SUBSET Reservations, \A r \in R : resv'[r].lines[s] = resv[r].lines[s]
  PROVE  Units(R, s)' = Units(R, s)
  BY DEF Units
-----------------------------------------------------------------------------
(* What a transaction has done to a stock row.                             *)

\* The units of SKU s that t has given back or sold.
Back(t, s) == Cardinality(Units(Moved(t, s), s))

StockOf(t, s) ==
  /\ stockOwner[s] # t => Back(t, s) = 0 /\ Taken(t, s) = 0
  /\ stockOwner[s] = t =>
       stockDraft[s] = [available |-> stock[s].available - Taken(t, s)
                                        + IF tx[t].op = "commit" THEN 0 ELSE Back(t, s),
                        reserved  |-> stock[s].reserved + Taken(t, s) - Back(t, s)]

\* The invariant of stock rows, one transaction and one row at a time.
LEMMA StockRows == StockLocked <=> \A t \in Txns, s \in SKUs : StockOf(t, s)
  BY DEF StockLocked, StockOf, Back

\* The inductive invariant contains that of the reservation rows.
LEMMA IndRows == IndInv => RowInv
  BY DEF IndInv, RowInv

\* What t has done to a row stays as it is when nothing it depends on changes.
LEMMA StockKept ==
  ASSUME NEW t \in Txns, NEW s \in SKUs, StockOf(t, s),
         stockOwner'[s] = t <=> stockOwner[s] = t,
         stockOwner[s] = t => stock'[s] = stock[s] /\ stockDraft'[s] = stockDraft[s],
         Back(t, s)' = Back(t, s), Taken(t, s)' = Taken(t, s),
         tx'[t].op = tx[t].op \/ Back(t, s) = 0
  PROVE  StockOf(t, s)'
  BY DEF StockOf

\* Another transaction's work is not touched by a step that leaves it and the
\* reservations it has moved alone.
LEMMA OthersMoved ==
  ASSUME NEW u \in Txns, NEW s \in SKUs, tx'[u] = tx[u],
         \A r \in Reservations : resvOwner'[r] = u <=> resvOwner[r] = u,
         \A r \in Moved(u, s) : resv'[r].lines[s] = resv[r].lines[s]
  PROVE  Back(u, s)' = Back(u, s) /\ Taken(u, s)' = Taken(u, s)
<1>1. Moved(u, s)' = Moved(u, s)
  BY DEF Moved, Settling, InStock, ToSweep
<1>2. Moved(u, s) \in SUBSET Reservations
  BY DEF Moved
<1>3. Units(Moved(u, s), s)' = Units(Moved(u, s), s)
  BY <1>1, <1>2 DEF Units
<1> QED BY <1>3 DEF Back, Taken, InStock

\* Adding reservations without the SKU adds no units.
LEMMA UnitsZero ==
  ASSUME TypeOK, NEW s \in SKUs, NEW R \in SUBSET Reservations, NEW T \in SUBSET Reservations,
         R \subseteq T, \A r \in T \ R : resv[r].lines[s] = 0
  PROVE  Units(T, s) = Units(R, s)
<1>1. \A u \in Units(T, s) : u[1] \in R
  <2> SUFFICES ASSUME NEW u \in Units(T, s), u[1] \notin R PROVE FALSE
    OBVIOUS
  <2>1. u[1] \in T /\ u[2] \in 1..MaxQty /\ u[2] <= resv[u[1]].lines[s]
    BY DEF Units
  <2>2. resv[u[1]].lines[s] = 0
    BY <2>1
  <2> QED BY <2>1, <2>2, ConstantsAssumption DEF ConstantsAssumption
<1> QED BY <1>1 DEF Units

-----------------------------------------------------------------------------
(* The counts, step by step.                                               *)

\* A transaction that has not reached its statements has moved nothing ...
LEMMA NothingMoved ==
  ASSUME RowInv, NEW t \in Txns, NEW s \in SKUs, tx[t].pc \in {"idle", "read"}
  PROVE  Back(t, s) = 0 /\ Taken(t, s) = 0
<1>1. \A r \in Reservations : resvOwner[r] # t
  BY DEF RowInv, HoldsLocked, LocksOf, TxShape, Shape
<1>2. Moved(t, s) = {}
  BY <1>1 DEF Moved, Settling, InStock
<1>3. Back(t, s) = 0
  BY <1>2, UnitsBounds DEF Back
<1> QED BY <1>3 DEF Taken, InStock

\* ... and a step that brings it there leaves nothing moved.
LEMMA NothingMovedNext ==
  ASSUME RowInv', NEW t \in Txns, NEW s \in SKUs, tx'[t].pc \in {"idle", "read"}
  PROVE  Back(t, s)' = 0 /\ Taken(t, s)' = 0
<1>1. \A r \in Reservations : resvOwner'[r] # t
  BY DEF RowInv, HoldsLocked, LocksOf, TxShape, Shape
<1>2. Moved(t, s)' = {}
  BY <1>1 DEF Moved, Settling, InStock
<1>3. Units({}, s)' = {} /\ Cardinality({}) = 0
  BY FS_EmptySet DEF Units
<1>4. Back(t, s)' = 0
  BY <1>2, <1>3 DEF Back, Units
<1> QED BY <1>4 DEF Taken, InStock

\* A step of t that leaves the stock rows and what is committed alone.
LEMMA QuietCounts ==
  ASSUME IndInv, RowInv', NEW t \in Txns,
         UNCHANGED <<stock, stockDraft, stockOwner, tracked, received, resv>>,
         \A u \in Txns : u # t => tx'[u] = tx[u],
         \A u \in Txns, r \in Reservations : u # t => (resvOwner'[r] = u <=> resvOwner[r] = u),
         \A s \in SKUs : /\ Back(t, s)' = Back(t, s) /\ Taken(t, s)' = Taken(t, s)
                         /\ tx'[t].op = tx[t].op \/ Back(t, s) = 0
  PROVE  IndInv'
<1>1. ASSUME NEW u \in Txns, NEW s \in SKUs PROVE StockOf(u, s)'
  <2>1. StockOf(u, s)
    BY StockRows DEF IndInv
  <2>2. CASE u = t
    BY <2>1, <2>2, StockKept
  <2>3. CASE u # t
    <3>1. Back(u, s)' = Back(u, s) /\ Taken(u, s)' = Taken(u, s)
      BY <2>3, OthersMoved
    <3> QED BY <2>1, <2>3, <3>1, StockKept
  <2> QED BY <2>2, <2>3
<1>2. StockLocked'
  BY <1>1 DEF StockLocked, StockOf, Back
<1>3. UntrackedIsEmpty' /\ ReservedIsHeld' /\ StockConserved'
  BY DEF IndInv, UntrackedIsEmpty, ReservedIsHeld, StockConserved, Units, InStatus
<1> QED BY <1>2, <1>3 DEF IndInv, RowInv

\* The end of a transaction that wrote nothing, and its beginning.
LEMMA EdgeCounts ==
  ASSUME IndInv, RowInv', NEW t \in Txns, Begin(t) \/ FindExistingHold(t) \/ SettleStays(t)
  PROVE  IndInv'
<1>1. /\ UNCHANGED <<stock, stockDraft, stockOwner, tracked, received, resv, resvOwner>>
      /\ tx[t].pc \in {"idle", "read"}
  BY DEF Begin, BeginReserve, BeginSettle, BeginSweep, FindExistingHold, SettleStays, stockVars, resvVars
<1>2. PICK x : tx' = [tx EXCEPT ![t] = x] /\ x.pc \in {"idle", "read"}
  <2>1. CASE FindExistingHold(t) \/ SettleStays(t)
    BY <2>1 DEF FindExistingHold, SettleStays, IdleTx
  <2>2. CASE BeginSweep(t)
    <3> DEFINE x == [IdleTx EXCEPT !.op = "sweep", !.pc = "read", !.now = clock]
    <3>1. x.pc = "read"
      BY DEF IdleTx
    <3> QED BY <2>2, <3>1 DEF BeginSweep
  <2>3. ASSUME NEW op \in {"commit", "release"}, NEW r \in Reservations, BeginSettle(t, op, r)
        PROVE  \E x : tx' = [tx EXCEPT ![t] = x] /\ x.pc \in {"idle", "read"}
    <3> DEFINE x == [IdleTx EXCEPT !.op = op, !.pc = "read", !.id = r,
                                   !.now = IF op = "commit" THEN clock ELSE 0]
    <3>1. x.pc = "read"
      BY DEF IdleTx
    <3> QED BY <2>3, <3>1 DEF BeginSettle
  <2>4. ASSUME NEW r \in Reservations, NEW o \in Orders, NEW b \in Baskets, BeginReserve(t, r, o, b)
        PROVE  \E x : tx' = [tx EXCEPT ![t] = x] /\ x.pc \in {"idle", "read"}
    <3> DEFINE x == [IdleTx EXCEPT !.op = "reserve", !.pc = "read", !.id = r,
                        !.agg = [status |-> "held", version |-> 1, order |-> o,
                                 lines |-> b, expires |-> clock + TTL]]
    <3>1. x.pc = "read"
      BY DEF IdleTx
    <3> QED BY <2>4, <3>1 DEF BeginReserve
  <2> QED BY <2>1, <2>2, <2>3, <2>4 DEF Begin
<1>3. tx'[t].pc \in {"idle", "read"} /\ \A u \in Txns : u # t => tx'[u] = tx[u]
  BY <1>2 DEF IndInv, TypeOK
<1>4. \A s \in SKUs : /\ Back(t, s)' = Back(t, s) /\ Taken(t, s)' = Taken(t, s) /\ Back(t, s) = 0
  BY <1>1, <1>3, IndRows, NothingMoved, NothingMovedNext
<1> QED BY <1>1, <1>3, <1>4, QuietCounts

\* A settling call has read its hold, or a reservation found none: the lines it
\* need not move have no units.
LEMMA ReadCounts ==
  ASSUME IndInv, RowInv', NEW t \in Txns, FindNoHold(t) \/ SettleMoves(t)
  PROVE  IndInv'
<1>1. /\ UNCHANGED <<stock, stockDraft, stockOwner, tracked, received, resv, resvOwner>>
      /\ tx[t].pc = "read" /\ tx[t].op \in {"reserve", "commit", "release"}
  BY DEF FindNoHold, SettleMoves, stockVars, resvVars
<1>t. tx \in [Txns -> TxType] /\ tx[t] \in TxType /\ TypeOK
  BY DEF IndInv, TypeOK
<1>2. /\ tx'[t].op = tx[t].op /\ tx'[t].id = tx[t].id /\ tx'[t].pc = "move"
      /\ tx'[t].todo = LineSKUs(tx'[t].agg.lines)
      /\ \A u \in Txns : u # t => tx'[u] = tx[u]
  <2>1. CASE FindNoHold(t)
    <3> DEFINE x == [tx[t] EXCEPT !.pc = "move", !.todo = LineSKUs(tx[t].agg.lines)]
    <3>1. x.op = tx[t].op /\ x.id = tx[t].id /\ x.pc = "move" /\ x.agg = tx[t].agg
          /\ x.todo = LineSKUs(tx[t].agg.lines)
      BY <1>t DEF TxType
    <3>2. tx' = [tx EXCEPT ![t] = x]
      BY <2>1 DEF FindNoHold
    <3> HIDE DEF x
    <3> QED BY <1>t, <3>1, <3>2
  <2>2. CASE SettleMoves(t)
    <3> DEFINE a == [resv[tx[t].id] EXCEPT !.status = TargetStatus(tx[t].op)]
               x == [tx[t] EXCEPT !.pc = "move", !.agg = a, !.todo = LineSKUs(resv[tx[t].id].lines)]
    <3>1. resv[tx[t].id] \in Hold
      BY <1>1, <1>t DEF IndInv, TxShape, Shape, TypeOK
    <3>2. a.lines = resv[tx[t].id].lines
      BY <3>1 DEF Hold
    <3>3. x.op = tx[t].op /\ x.id = tx[t].id /\ x.pc = "move" /\ x.agg = a
          /\ x.todo = LineSKUs(resv[tx[t].id].lines)
      BY <1>t DEF TxType
    <3>4. tx' = [tx EXCEPT ![t] = x]
      BY <2>2 DEF SettleMoves
    <3> HIDE DEF a, x
    <3> QED BY <1>t, <3>2, <3>3, <3>4
  <2> QED BY <2>1, <2>2
<1>3. ASSUME NEW s \in SKUs PROVE Back(t, s)' = 0 /\ Taken(t, s)' = 0
  <2>1. tx'[t].agg.lines \in Lines /\ tx'[t] \in TxType
    BY DEF RowInv, TypeOK, TxType, Hold
  <2>2. s \notin tx'[t].todo => tx'[t].agg.lines[s] = 0
    BY <1>2, <2>1, ConstantsAssumption DEF LineSKUs, Lines, ConstantsAssumption
  <2>3. Taken(t, s)' = 0
    BY <2>2 DEF Taken
  <2>4. Back(t, s)' = 0
    <3>1. \A r \in Moved(t, s)' : Settling(t)' /\ r = tx[t].id /\ s \notin tx'[t].todo
      BY <1>1, <1>2 DEF Moved
    <3>2. Settling(t)' /\ s \notin tx'[t].todo => resv[tx[t].id].lines[s] = 0
      <4>1. AggregateOf(t)'
        BY DEF RowInv, AggregateOK
      <4> QED BY <1>1, <1>2, <2>2, <4>1 DEF AggregateOf, InStock
    <3>3. \A r \in Moved(t, s)' : resv[r].lines[s] = 0
      BY <3>1, <3>2
    <3>4. Moved(t, s)' \in SUBSET Reservations
      BY DEF Moved
    <3>5. \A R \in SUBSET Reservations : R = Moved(t, s)' => Units(R, s) = Units({}, s)
      BY <1>t, <3>3, UnitsZero
    <3>6. \A R \in SUBSET Reservations : R = Moved(t, s)' => Cardinality(Units(R, s)) = 0
      BY <3>5, UnitsBounds
    <3> QED BY <1>1, <3>4, <3>6 DEF Back, Units
  <2> QED BY <2>3, <2>4
<1>4. \A s \in SKUs : Back(t, s) = 0 /\ Taken(t, s) = 0
  BY <1>1, IndRows, NothingMoved
<1> QED BY <1>1, <1>2, <1>3, <1>4, QuietCounts

\* A sweep goes from one claimed row to the next.
LEMMA SweepCounts ==
  ASSUME IndInv, RowInv', NEW t \in Txns, (\E r \in Reservations : SweepNext(t, r)) \/ SweepDone(t)
  PROVE  IndInv'
<1>1. /\ UNCHANGED <<stock, stockDraft, stockOwner, tracked, received, resv, resvOwner>>
      /\ tx[t].pc = "next"
  BY DEF SweepNext, SweepDone, stockVars, resvVars
<1>t. tx \in [Txns -> TxType] /\ tx[t] \in TxType /\ TypeOK /\ tx[t].op = "sweep"
  BY <1>1 DEF IndInv, TypeOK, TxShape, Shape
<1>2. /\ tx'[t].op = "sweep"
      /\ \A u \in Txns : u # t => tx'[u] = tx[u]
      /\ \A k \in Reservations : ToSweep(t, k)' <=> ToSweep(t, k)
      /\ \/ tx'[t].pc = "commit"
         \/ tx'[t].pc = "move" /\ tx'[t].id \in Reservations
            /\ tx'[t].todo = LineSKUs(resv[tx'[t].id].lines)
  <2>1. CASE SweepDone(t)
    <3>1. tx[t].batch = {} /\ tx' = [tx EXCEPT ![t].pc = "commit"]
      BY <2>1 DEF SweepDone
    <3>2. tx'[t].pc = "commit" /\ tx'[t].op = "sweep" /\ tx'[t].batch = {} /\ \A u \in Txns : u # t => tx'[u] = tx[u]
      BY <3>1, <1>t DEF TxType
    <3> QED BY <1>1, <3>1, <3>2 DEF ToSweep
  <2>2. ASSUME NEW r \in Reservations, SweepNext(t, r)
        PROVE  /\ tx'[t].op = "sweep"
               /\ \A u \in Txns : u # t => tx'[u] = tx[u]
               /\ \A k \in Reservations : ToSweep(t, k)' <=> ToSweep(t, k)
               /\ tx'[t].pc = "move" /\ tx'[t].id \in Reservations
               /\ tx'[t].todo = LineSKUs(resv[tx'[t].id].lines)
    <3> DEFINE x == [tx[t] EXCEPT !.pc = "move", !.id = r, !.batch = tx[t].batch \ {r},
                                  !.agg = [resv[r] EXCEPT !.status = "expired"],
                                  !.todo = LineSKUs(resv[r].lines)]
    <3>1. x.op = "sweep" /\ x.id = r /\ x.pc = "move" /\ x.batch = tx[t].batch \ {r}
          /\ x.todo = LineSKUs(resv[r].lines)
      BY <1>t DEF TxType
    <3>2. tx' = [tx EXCEPT ![t] = x] /\ r \in tx[t].batch
      BY <2>2 DEF SweepNext
    <3> HIDE DEF x
    <3>3. tx'[t] = x /\ \A u \in Txns : u # t => tx'[u] = tx[u]
      BY <1>t, <3>2
    <3> QED BY <1>1, <3>1, <3>2, <3>3 DEF ToSweep
  <2> QED BY <2>1, <2>2
<1>3. ASSUME NEW s \in SKUs PROVE Back(t, s)' = Back(t, s) /\ Taken(t, s)' = Taken(t, s)
  <2>1. Taken(t, s)' = Taken(t, s)
    BY <1>t, <1>2 DEF Taken
  <2>2. /\ Moved(t, s) \in SUBSET Reservations /\ Moved(t, s)' \in SUBSET Reservations
        /\ Moved(t, s) \subseteq Moved(t, s)'
    BY <1>1, <1>t, <1>2 DEF Moved, Settling
  <2>3. \A r \in Moved(t, s)' \ Moved(t, s) : resv[r].lines[s] = 0
    <3>1. ASSUME NEW r \in Moved(t, s)' \ Moved(t, s)
          PROVE  r = tx'[t].id /\ r \in Reservations /\ s \notin LineSKUs(resv[r].lines)
      BY <1>1, <1>t, <1>2 DEF Moved, Settling
    <3>2. ASSUME NEW r \in Reservations, s \notin LineSKUs(resv[r].lines) PROVE resv[r].lines[s] = 0
      BY <1>t, <3>2, ConstantsAssumption DEF LineSKUs, TypeOK, Hold, Lines, ConstantsAssumption
    <3> QED BY <3>1, <3>2
  <2>4. \A R, T \in SUBSET Reservations : R = Moved(t, s) /\ T = Moved(t, s)' => Units(T, s) = Units(R, s)
    BY <1>t, <2>2, <2>3, UnitsZero
  <2>5. Back(t, s)' = Back(t, s)
    BY <1>1, <2>2, <2>4 DEF Back, Units
  <2> QED BY <2>1, <2>5
<1> QED BY <1>1, <1>t, <1>2, <1>3, QuietCounts

\* The reservation row is written: the stock was moved before.
LEMMA RowCounts ==
  ASSUME IndInv, RowInv', NEW t \in Txns, InsertReservation(t) \/ UpdateReservation(t)
  PROVE  IndInv'
<1>1. /\ UNCHANGED <<stock, stockDraft, stockOwner, tracked, received, resv>>
      /\ tx[t].pc = "write"
      /\ tx' = [tx EXCEPT ![t].pc = IF tx[t].op = "sweep" THEN "next" ELSE "commit"]
      /\ tx[t].op \in {"reserve", "commit", "release", "sweep"}
      /\ resvOwner' = [resvOwner EXCEPT ![tx[t].id] = t]
  BY DEF InsertReservation, UpdateReservation, stockVars
<1>t. tx \in [Txns -> TxType] /\ tx[t] \in TxType /\ TypeOK /\ RowInv
      /\ tx[t].id \in Reservations /\ tx[t].todo = {} /\ tx[t].id \notin tx[t].batch
      /\ \A u \in Txns : u # None
  BY <1>1, IndRows, ConstantsAssumption DEF IndInv, TypeOK, TxShape, Shape, HoldsLocked, LocksOf, ConstantsAssumption
<1>2. tx'[t].op = tx[t].op /\ tx'[t].id = tx[t].id /\ tx'[t].todo = {} /\ tx'[t].agg = tx[t].agg
      /\ tx'[t].batch = tx[t].batch /\ tx'[t].pc = (IF tx[t].op = "sweep" THEN "next" ELSE "commit")
      /\ \A u \in Txns : u # t => tx'[u] = tx[u]
  BY <1>1, <1>t, PcFrame
<1>3. resvOwner[tx[t].id] \in {None, t}
  BY <1>t, <1>1, CandidateUnlocked DEF InsertReservation, UpdateReservation
<1>4. \A k \in Reservations : resvOwner'[k] = IF k = tx[t].id THEN t ELSE resvOwner[k]
  BY <1>1, <1>t DEF TypeOK
<1>5. \A u \in Txns, r \in Reservations : u # t => (resvOwner'[r] = u <=> resvOwner[r] = u)
  BY <1>3, <1>4, <1>t
<1>6. ASSUME NEW s \in SKUs PROVE Moved(t, s)' = Moved(t, s) /\ Taken(t, s)' = Taken(t, s)
  <2>1. Taken(t, s)' = Taken(t, s)
    BY <1>1, <1>t, <1>2 DEF Taken, InStock
  <2>2. CASE tx[t].op # "sweep"
    <3>1. (Settling(t) /\ InStock(t))' <=> (Settling(t) /\ InStock(t))
      BY <1>1, <1>2, <2>2 DEF Settling, InStock
    <3>2. \A k \in Reservations : k \in Moved(t, s)' <=> k \in Moved(t, s)
      BY <1>1, <1>t, <1>2, <2>2, <3>1 DEF Moved
    <3>3. Moved(t, s)' = Moved(t, s)
      BY <3>2 DEF Moved
    <3> QED BY <2>1, <3>3
  <2>3. CASE tx[t].op = "sweep"
    <3>1. \A k \in Reservations : ToSweep(t, k)' <=> (ToSweep(t, k) /\ k # tx[t].id)
      BY <1>1, <1>t, <1>2, <2>3 DEF ToSweep
    <3>2. ToSweep(t, tx[t].id)
      BY <1>1 DEF ToSweep
    <3>3. Moved(t, s) = {k \in Reservations : (resvOwner[k] = t /\ ~ToSweep(t, k)) \/ k = tx[t].id}
      BY <1>1, <1>t, <2>3 DEF Moved, Settling
    <3>4. Moved(t, s)' = {k \in Reservations : resvOwner'[k] = t /\ ~ToSweep(t, k)'}
      BY <1>2, <2>3 DEF Moved, Settling
    <3> QED BY <1>4, <2>1, <3>1, <3>2, <3>3, <3>4
  <2> QED BY <2>1, <2>2, <2>3
<1>7. ASSUME NEW s \in SKUs PROVE Back(t, s)' = Back(t, s) /\ Taken(t, s)' = Taken(t, s)
  BY <1>1, <1>6 DEF Back, Units
<1> QED BY <1>1, <1>2, <1>5, <1>7, QuietCounts

\* A sweep claims rows and has moved none of them.
LEMMA ClaimCounts ==
  ASSUME IndInv, RowInv', NEW t \in Txns, NEW B \in SUBSET Reservations, ClaimExpired(t, B)
  PROVE  IndInv'
<1> DEFINE x == [tx[t] EXCEPT !.pc = "next", !.batch = B]
<1>1. /\ UNCHANGED <<stock, stockDraft, stockOwner, tracked, received, resv>>
      /\ tx[t].pc = "read" /\ tx[t].op = "sweep" /\ tx' = [tx EXCEPT ![t] = x]
      /\ \A r \in Reservations : resvOwner'[r] = IF r \in B THEN t ELSE resvOwner[r]
      /\ \A r \in B : resvOwner[r] = None
  BY DEF ClaimExpired, IsBatch, Claimable, stockVars
<1>t. tx \in [Txns -> TxType] /\ tx[t] \in TxType /\ RowInv /\ \A u \in Txns : u # None
  BY IndRows, ConstantsAssumption DEF IndInv, TypeOK, ConstantsAssumption
<1>2. tx'[t].op = "sweep" /\ tx'[t].pc = "next" /\ tx'[t].batch = B
      /\ \A u \in Txns : u # t => tx'[u] = tx[u]
  <2>1. x.op = "sweep" /\ x.pc = "next" /\ x.batch = B
    BY <1>1, <1>t DEF TxType
  <2> HIDE DEF x
  <2> QED BY <1>1, <1>t, <2>1
<1>3. \A u \in Txns, r \in Reservations : u # t => (resvOwner'[r] = u <=> resvOwner[r] = u)
  BY <1>1, <1>t
<1>4. \A r \in Reservations : resvOwner[r] # t
  BY <1>1, <1>t DEF RowInv, HoldsLocked, LocksOf
<1>5. ASSUME NEW s \in SKUs PROVE Back(t, s)' = 0 /\ Taken(t, s)' = 0
  <2>1. \A r \in Reservations : resvOwner'[r] = t => ToSweep(t, r)'
    BY <1>1, <1>2, <1>4 DEF ToSweep
  <2>2. Moved(t, s)' = {}
    BY <1>2, <2>1 DEF Moved, Settling
  <2>3. Units({}, s)' = {} /\ Cardinality({}) = 0
    BY FS_EmptySet DEF Units
  <2> QED BY <1>2, <2>2, <2>3 DEF Back, Taken, Units
<1>6. \A s \in SKUs : Back(t, s) = 0 /\ Taken(t, s) = 0
  BY <1>1, <1>t, NothingMoved
<1> QED BY <1>1, <1>2, <1>3, <1>5, <1>6, QuietCounts

\* The lines of the aggregate in memory are those of the row it came from.
LEMMA LinesInMemory ==
  ASSUME RowInv, NEW t \in Txns, tx[t].pc \in {"move", "write"}, tx[t].op # "reserve"
  PROVE  /\ tx[t].op \in {"commit", "release", "sweep"} /\ tx[t].id \in Reservations
         /\ tx[t].agg.lines = resv[tx[t].id].lines /\ tx[t].agg.version = 1
<1>1. tx[t] \in TxType /\ Shape(tx[t]) /\ AggregateOf(t)
  BY DEF RowInv, TypeOK, TxShape, AggregateOK
<1>2. tx[t].op \in {"commit", "release", "sweep"} /\ tx[t].id \in Reservations
  BY <1>1 DEF TxType, Ops, Shape
<1> QED BY <1>1, <1>2 DEF AggregateOf, Settling, InStock

\* A stock statement moves one line and counts it.
LEMMA MoveBack ==
  ASSUME IndInv, NEW t \in Txns, NEW s \in SKUs, MoveStock(t, s), NEW z \in SKUs
  PROVE  /\ z # s => Back(t, z)' = Back(t, z) /\ Taken(t, z)' = Taken(t, z)
         /\ Taken(t, s) = 0
         /\ Taken(t, s)' = IF tx[t].op = "reserve" THEN tx[t].agg.lines[s] ELSE 0
         /\ Back(t, s)' = Back(t, s) + IF tx[t].op = "reserve" THEN 0 ELSE tx[t].agg.lines[s]
         /\ tx[t].op = "reserve" => Back(t, s) = 0
         /\ tx'[t].op = tx[t].op
         /\ \A u \in Txns : u # t => tx'[u] = tx[u]
<1> DEFINE p == IF tx[t].todo = {s} THEN "write" ELSE "move"
           x == [tx[t] EXCEPT !.todo = tx[t].todo \ {s}, !.pc = p]
<1>1. /\ tx[t].pc = "move" /\ s \in tx[t].todo /\ tx' = [tx EXCEPT ![t] = x]
      /\ resv' = resv /\ resvOwner' = resvOwner
  BY DEF MoveStock, IsNextLine, resvVars
<1>t. tx \in [Txns -> TxType] /\ tx[t] \in TxType /\ TypeOK /\ RowInv
  BY IndRows DEF IndInv, TypeOK
<1>2. /\ tx'[t].op = tx[t].op /\ tx'[t].id = tx[t].id /\ tx'[t].agg = tx[t].agg
      /\ tx'[t].batch = tx[t].batch /\ tx'[t].todo = tx[t].todo \ {s}
      /\ tx'[t].pc \in {"move", "write"} /\ \A u \in Txns : u # t => tx'[u] = tx[u]
  <2>1. x.op = tx[t].op /\ x.id = tx[t].id /\ x.agg = tx[t].agg
        /\ x.batch = tx[t].batch /\ x.todo = tx[t].todo \ {s} /\ x.pc \in {"move", "write"}
    BY <1>t DEF TxType
  <2> HIDE DEF x
  <2> QED BY <1>1, <1>t, <2>1
<1>3. ASSUME NEW y \in SKUs
      PROVE  Moved(t, y)' = IF y = s /\ tx[t].op # "reserve" THEN Moved(t, y) \cup {tx[t].id} ELSE Moved(t, y)
  <2>1. \A k \in Reservations : ToSweep(t, k)' <=> ToSweep(t, k)
    BY <1>1, <1>2 DEF ToSweep
  <2>2. CASE tx[t].op = "reserve"
    BY <1>2, <2>2 DEF Moved, Settling
  <2>3. CASE tx[t].op # "reserve"
    <3>1. tx[t].op \in {"commit", "release", "sweep"} /\ tx[t].id \in Reservations
      BY <1>1, <1>t, <2>3, LinesInMemory
    <3>2. \A k \in Reservations :
            k \in Moved(t, y)' <=> k \in Moved(t, y) \/ (y = s /\ k = tx[t].id)
      BY <1>1, <1>2, <2>1, <3>1 DEF Moved, Settling, InStock
    <3>3. Moved(t, y) \subseteq Reservations /\ Moved(t, y)' \subseteq Reservations
      BY DEF Moved
    <3> QED BY <2>3, <3>1, <3>2, <3>3
  <2> QED BY <2>2, <2>3
<1>4. ASSUME NEW y \in SKUs PROVE Taken(t, y)' = IF y = s /\ tx[t].op = "reserve" THEN tx[t].agg.lines[s] ELSE Taken(t, y)
  BY <1>1, <1>2 DEF Taken, InStock
<1>5. Taken(t, s) = 0
  BY <1>1 DEF Taken
<1>6. ASSUME NEW y \in SKUs, y # s \/ tx[t].op = "reserve" PROVE Back(t, y)' = Back(t, y)
  BY <1>1, <1>3, <1>6 DEF Back, Units
<1>7. ASSUME tx[t].op = "reserve" PROVE Back(t, s) = 0
  <2>1. Moved(t, s) = {}
    BY <1>7 DEF Moved, Settling
  <2> QED BY <2>1, UnitsBounds DEF Back
<1>8. ASSUME tx[t].op # "reserve" PROVE Back(t, s)' = Back(t, s) + tx[t].agg.lines[s]
  <2>1. /\ tx[t].op \in {"commit", "release", "sweep"} /\ tx[t].id \in Reservations
        /\ tx[t].agg.lines = resv[tx[t].id].lines
    BY <1>1, <1>t, <1>8, LinesInMemory
  <2>2. tx[t].id \notin Moved(t, s)
    BY <1>1, <2>1 DEF Moved, Settling, ToSweep
  <2>3. Moved(t, s)' = Moved(t, s) \cup {tx[t].id} /\ Moved(t, s) \in SUBSET Reservations
    <3>1. Moved(t, s) \in SUBSET Reservations
      BY DEF Moved
    <3> QED BY <1>3, <1>8, <3>1
  <2>4. Back(t, s)' = Cardinality(Units(Moved(t, s) \cup {tx[t].id}, s))
    BY <1>1, <2>3 DEF Back, Units
  <2>5. Cardinality(Units(Moved(t, s) \cup {tx[t].id}, s))
          = Cardinality(Units(Moved(t, s), s)) + Cardinality(Units({tx[t].id}, s))
    BY <2>1, <2>2, <2>3, UnitsUnion
  <2>6. Cardinality(Units({tx[t].id}, s)) = tx[t].agg.lines[s]
    BY <1>t, <2>1, UnitsOne
  <2> QED BY <2>4, <2>5, <2>6 DEF Back
<1>9. Back(t, s) \in Nat
  <2>1. Moved(t, s) \in SUBSET Reservations
    BY DEF Moved
  <2> QED BY <2>1, UnitsFinite DEF Back
<1> QED BY <1>2, <1>4, <1>5, <1>6, <1>7, <1>8, <1>9

\* The draft of the row follows.
LEMMA MoveCounts ==
  ASSUME IndInv, RowInv', NEW t \in Txns, NEW s \in SKUs, MoveStock(t, s)
  PROVE  IndInv'
<1> DEFINE q == tx[t].agg.lines[s]
<1>1. /\ UNCHANGED <<stock, tracked, received, resv, resvOwner>>
      /\ s \in tx[t].todo /\ tx[t].pc = "move" /\ stockOwner[s] \in {None, t}
      /\ StockGuard(tx[t].op, stockDraft[s], q)
      /\ stockDraft' = [stockDraft EXCEPT ![s] = StockMoved(tx[t].op, stockDraft[s], q)]
      /\ stockOwner' = [stockOwner EXCEPT ![s] = t]
  BY DEF MoveStock, IsNextLine, resvVars
<1>t. /\ TypeOK /\ RowInv /\ stockDraft[s] \in StockRow /\ stock[s] \in StockRow /\ t # None
      /\ stockDraft \in [SKUs -> StockRow] /\ stockOwner \in [SKUs -> Txns \cup {None}]
  BY IndRows, ConstantsAssumption DEF IndInv, TypeOK, ConstantsAssumption
<1>q. q \in Nat \ {0}
  <2>1. tx[t] \in TxType /\ Shape(tx[t])
    BY DEF IndInv, TypeOK, TxShape
  <2>2. tx[t].agg.lines \in Lines /\ s \in LineSKUs(tx[t].agg.lines)
    BY <1>1, <2>1 DEF TxType, Hold, Shape
  <2> QED BY <2>2, ConstantsAssumption DEF Lines, LineSKUs, ConstantsAssumption
<1>2. /\ stockDraft'[s] = StockMoved(tx[t].op, stockDraft[s], q) /\ stockOwner'[s] = t
      /\ \A z \in SKUs : z # s => stockDraft'[z] = stockDraft[z] /\ stockOwner'[z] = stockOwner[z]
  BY <1>1, <1>t
<1>3. /\ Taken(t, s) = 0
      /\ Taken(t, s)' = IF tx[t].op = "reserve" THEN q ELSE 0
      /\ Back(t, s)' = Back(t, s) + IF tx[t].op = "reserve" THEN 0 ELSE q
      /\ tx[t].op = "reserve" => Back(t, s) = 0
      /\ tx'[t].op = tx[t].op
      /\ \A u \in Txns : u # t => tx'[u] = tx[u]
  BY MoveBack
<1>b. Back(t, s) \in Nat
  <2>1. Moved(t, s) \in SUBSET Reservations
    BY DEF Moved
  <2> QED BY <2>1, UnitsFinite DEF Back
<1>4. StockOf(t, s)'
  <2>1. stockDraft[s] = [available |-> stock[s].available + IF tx[t].op = "commit" THEN 0 ELSE Back(t, s),
                         reserved  |-> stock[s].reserved - Back(t, s)]
    <3>1. StockOf(t, s)
      BY StockRows DEF IndInv
    <3>n. stock[s].available \in Nat /\ stock[s].reserved \in Nat
          /\ stock[s] = [available |-> stock[s].available, reserved |-> stock[s].reserved]
      BY <1>t DEF StockRow
    <3>2. CASE stockOwner[s] = None
      <4>1. Back(t, s) = 0 /\ stockDraft[s] = stock[s]
        BY <3>1, <3>2, <1>t DEF StockOf, IndInv, DraftsAreLocked
      <4> QED BY <3>n, <4>1
    <3>3. CASE stockOwner[s] = t
      <4>1. stockDraft[s] = [available |-> stock[s].available - 0
                                + IF tx[t].op = "commit" THEN 0 ELSE Back(t, s),
                             reserved  |-> stock[s].reserved + 0 - Back(t, s)]
        BY <3>1, <3>3, <1>3 DEF StockOf
      <4> QED BY <3>n, <4>1, <1>b
    <3> QED BY <1>1, <3>2, <3>3
  <2> DEFINE bb == Back(t, s)
             av == stock[s].available
             rs == stock[s].reserved
  <2>n. av \in Nat /\ rs \in Nat /\ bb \in Nat /\ q \in Nat
    BY <1>t, <1>b, <1>q DEF StockRow
  <2>2. stockDraft'[s] = [available |-> av - Taken(t, s)' + IF tx[t].op = "commit" THEN 0 ELSE Back(t, s)',
                          reserved  |-> rs + Taken(t, s)' - Back(t, s)']
    <3>0. /\ stockDraft[s].available = av + IF tx[t].op = "commit" THEN 0 ELSE bb
          /\ stockDraft[s].reserved = rs - bb
      BY <2>1
    <3> HIDE DEF bb, av, rs, q
    <3>1. CASE tx[t].op = "reserve"
      <4>1. Taken(t, s)' = q /\ Back(t, s)' = 0 /\ bb = 0
        BY <1>3, <3>1, <2>n DEF bb
      <4>2. stockDraft'[s] = [available |-> av + 0 - q, reserved |-> rs - 0 + q]
        BY <1>2, <2>n, <3>0, <3>1, <4>1 DEF StockMoved
      <4> QED BY <2>n, <3>1, <4>1, <4>2
    <3>2. CASE tx[t].op = "commit"
      <4>1. Taken(t, s)' = 0 /\ Back(t, s)' = bb + q
        BY <1>3, <3>2 DEF bb
      <4>2. stockDraft'[s] = [available |-> av + 0, reserved |-> rs - bb - q]
        BY <1>2, <3>0, <3>2 DEF StockMoved
      <4> QED BY <2>n, <3>2, <4>1, <4>2
    <3>3. CASE tx[t].op \notin {"reserve", "commit"}
      <4>1. Taken(t, s)' = 0 /\ Back(t, s)' = bb + q
        BY <1>3, <3>3 DEF bb
      <4>2. stockDraft'[s] = [available |-> av + bb + q, reserved |-> rs - bb - q]
        BY <1>2, <3>0, <3>3 DEF StockMoved
      <4> QED BY <2>n, <3>3, <4>1, <4>2
    <3> QED BY <3>1, <3>2, <3>3
  <2> QED BY <1>1, <1>2, <1>3, <2>2 DEF StockOf
<1>5. ASSUME NEW u \in Txns, NEW z \in SKUs PROVE StockOf(u, z)'
  <2>1. StockOf(u, z)
    BY StockRows DEF IndInv
  <2>2. CASE u = t /\ z = s
    BY <1>4, <2>2
  <2>3. CASE u = t /\ z # s
    <3>1. Back(t, z)' = Back(t, z) /\ Taken(t, z)' = Taken(t, z)
      BY <2>3, MoveBack
    <3> QED BY <1>1, <1>2, <1>3, <2>1, <2>3, <3>1, StockKept
  <2>4. CASE u # t
    <3>1. Back(u, z)' = Back(u, z) /\ Taken(u, z)' = Taken(u, z)
      BY <1>1, <1>3, <2>4, OthersMoved
    <3>2. (stockOwner'[z] = u <=> stockOwner[z] = u) /\ (stockOwner[z] = u => z # s)
      <4>1. u # None
        BY ConstantsAssumption DEF ConstantsAssumption
      <4> QED BY <1>1, <1>2, <2>4, <4>1
    <3> QED BY <1>1, <1>2, <1>3, <2>1, <2>4, <3>1, <3>2, StockKept
  <2> QED BY <2>2, <2>3, <2>4
<1>6. StockLocked'
  BY <1>5 DEF StockLocked, StockOf, Back
<1>7. s \in tracked
  <2>1. CASE s \notin tracked
    <3>1. stock[s] = NoStock /\ stockDraft[s] = stock[s]
      BY <2>1 DEF IndInv, UntrackedIsEmpty, DraftsAreLocked
    <3> QED BY <1>1, <1>q, <3>1 DEF StockGuard, NoStock
  <2> QED BY <2>1
<1>8. UntrackedIsEmpty'
  BY <1>1, <1>2, <1>7 DEF IndInv, UntrackedIsEmpty
<1>9. ReservedIsHeld' /\ StockConserved'
  BY <1>1 DEF IndInv, ReservedIsHeld, StockConserved, Units, InStatus
<1> QED BY <1>6, <1>8, <1>9 DEF IndInv, RowInv

\* A transaction that is rolled back leaves no trace.
LEMMA UndoCounts ==
  ASSUME IndInv, RowInv', NEW t \in Txns, UndoAndUnlock(t)
  PROVE  IndInv'
<1>1. /\ UNCHANGED <<stock, tracked, received, resv>>
      /\ tx' = [tx EXCEPT ![t] = IdleTx]
      /\ \A s \in SKUs : /\ stockDraft'[s] = IF stockOwner[s] = t THEN stock[s] ELSE stockDraft[s]
                         /\ stockOwner'[s] = IF stockOwner[s] = t THEN None ELSE stockOwner[s]
      /\ \A r \in Reservations : resvOwner'[r] = IF resvOwner[r] = t THEN None ELSE resvOwner[r]
  BY DEF UndoAndUnlock
<1>t. tx \in [Txns -> TxType] /\ \A u \in Txns : u # None
  BY ConstantsAssumption DEF IndInv, TypeOK, ConstantsAssumption
<1>2. tx'[t].pc = "idle" /\ \A u \in Txns : u # t => tx'[u] = tx[u]
  BY <1>1, <1>t DEF IdleTx
<1>3. ASSUME NEW s \in SKUs PROVE StockOf(t, s)'
  <2>1. Back(t, s)' = 0 /\ Taken(t, s)' = 0
    BY <1>2, NothingMovedNext
  <2>2. stockOwner'[s] # t
    BY <1>1, <1>t
  <2> QED BY <2>1, <2>2 DEF StockOf
<1>4. ASSUME NEW u \in Txns, NEW s \in SKUs, u # t PROVE StockOf(u, s)'
  <2>1. StockOf(u, s)
    BY StockRows DEF IndInv
  <2>2. \A r \in Reservations : resvOwner'[r] = u <=> resvOwner[r] = u
    BY <1>1, <1>t, <1>4
  <2>3. Back(u, s)' = Back(u, s) /\ Taken(u, s)' = Taken(u, s)
    BY <1>1, <1>2, <1>4, <2>2, OthersMoved
  <2>4. (stockOwner'[s] = u <=> stockOwner[s] = u)
        /\ (stockOwner[s] = u => stock'[s] = stock[s] /\ stockDraft'[s] = stockDraft[s])
    BY <1>1, <1>t, <1>4
  <2> QED BY <1>2, <1>4, <2>1, <2>3, <2>4, StockKept
<1>5. StockLocked'
  BY <1>3, <1>4 DEF StockLocked, StockOf, Back
<1>6. UntrackedIsEmpty'
  BY <1>1 DEF IndInv, UntrackedIsEmpty
<1>7. ReservedIsHeld' /\ StockConserved'
  BY <1>1 DEF IndInv, ReservedIsHeld, StockConserved, Units, InStatus
<1> QED BY <1>5, <1>6, <1>7 DEF IndInv, RowInv

\* What live holds and sales add up to.
Held(s) == Cardinality(Units(InStatus("held"), s))
Sold(s) == Cardinality(Units(InStatus("committed"), s))

\* A new reservation adds its line to the units of a set.
LEMMA UnitsAdded ==
  ASSUME TypeOK', NEW s \in SKUs, NEW R \in SUBSET Reservations, NEW r \in Reservations, r \notin R
  PROVE  Cardinality(Units(R \cup {r}, s)') = Cardinality(Units(R, s)') + resv'[r].lines[s]
<1> DEFINE U == {u \in R \X (1..MaxQty) : u[2] <= resv'[u[1]].lines[s]}
           n == resv'[r].lines[s]
           W == {r} \X (1..n)
<1>1. n \in 0..MaxQty /\ MaxQty \in Nat
  BY ConstantsAssumption DEF TypeOK, Hold, Lines, ConstantsAssumption
<1>2. Units(R \cup {r}, s)' = U \cup W /\ Units(R, s)' = U /\ U \cap W = {}
  BY <1>1 DEF Units
<1>3. IsFiniteSet(U) /\ Cardinality(U) \in Nat
  <2>1. IsFiniteSet(R) /\ IsFiniteSet(1..MaxQty)
    <3>1. IsFiniteSet(Reservations) /\ 1 \in Int /\ MaxQty \in Int
      BY ConstantsAssumption DEF ConstantsAssumption
    <3>2. IsFiniteSet(R)
      BY ONLY R \in SUBSET Reservations, <3>1, FS_Subset
    <3>3. IsFiniteSet(1..MaxQty)
      BY ONLY <3>1, FS_Interval
    <3> QED BY <3>2, <3>3
  <2>2. IsFiniteSet(R \X (1..MaxQty))
    BY <2>1, FS_Product
  <2>3. U \in SUBSET (R \X (1..MaxQty))
    OBVIOUS
  <2> HIDE DEF U
  <2> QED BY <2>2, <2>3, FS_Subset, FS_CardinalityType
<1> HIDE DEF n
<1>4. IsFiniteSet(W) /\ Cardinality(W) = n
  <2>1. IsFiniteSet(1..n) /\ Cardinality(1..n) = IF 1 > n THEN 0 ELSE n - 1 + 1
    BY <1>1, FS_Interval
  <2>2. Cardinality(1..n) = n
    BY <1>1, <2>1
  <2>3. IsFiniteSet({r}) /\ Cardinality({r}) = 1
    BY FS_Singleton
  <2>4. IsFiniteSet(W) /\ Cardinality(W) = Cardinality({r}) * Cardinality(1..n)
    BY <2>1, <2>3, FS_Product
  <2>5. Cardinality(W) = 1 * n
    BY ONLY <2>2, <2>3, <2>4
  <2>6. 1 * n = n
    BY ONLY <1>1
  <2> QED BY ONLY <2>4, <2>5, <2>6
<1> HIDE DEF U, W
<1>5. Cardinality(U \cup W) = Cardinality(U) + Cardinality(W) - Cardinality(U \cap W)
  BY <1>3, <1>4, FS_Union
<1>6. Cardinality(U \cap W) = 0
  BY <1>2, FS_EmptySet
<1>7. Cardinality(U \cup W) = Cardinality(U) + n
  BY ONLY <1>1, <1>3, <1>4, <1>5, <1>6
<1> QED BY ONLY <1>2, <1>7 DEF n

\* What a COMMIT does to the reservations.
LEMMA Committed ==
  ASSUME RowInv, NEW t \in Txns, CommitTx(t)
  PROVE  /\ \A r \in Reservations : resv'[r] = IF resvOwner[r] = t THEN resvDraft[r] ELSE resv[r]
         /\ tx[t].todo = {} /\ tx[t].batch = {}
         /\ tx[t].op = "reserve" =>
              /\ tx[t].id \in Reservations
              /\ \A r \in Reservations : resvOwner[r] = t <=> r = tx[t].id
              /\ resv[tx[t].id].status = "none" /\ resvDraft[tx[t].id] = tx[t].agg
              /\ tx[t].agg.status = "held"
         /\ tx[t].op # "reserve" =>
              /\ tx[t].op \in {"commit", "release", "sweep"}
              /\ \A r \in Reservations : resvOwner[r] = t =>
                   resv[r].status = "held" /\ resvDraft[r] = Ended(t, r)
              /\ tx[t].op # "sweep" =>
                   tx[t].id \in Reservations /\ \A r \in Reservations : resvOwner[r] = t <=> r = tx[t].id
<1>1. tx[t].pc = "commit" /\ \A r \in Reservations : resv'[r] = IF resvOwner[r] = t THEN resvDraft[r] ELSE resv[r]
  BY DEF CommitTx, PublishAndUnlock
<1>2. tx[t] \in TxType /\ Shape(tx[t]) /\ AggregateOf(t) /\ \A r \in Reservations : LocksOf(t, r)
  BY DEF RowInv, TypeOK, TxShape, AggregateOK, HoldsLocked
<1>3. tx[t].todo = {} /\ tx[t].batch = {} /\ tx[t].op \in {"reserve", "commit", "release", "sweep"}
  BY <1>1, <1>2 DEF Shape, TxType, Ops
<1>4. CASE tx[t].op = "reserve"
  BY <1>1, <1>2, <1>3, <1>4 DEF LocksOf, AggregateOf, Shape
<1>5. CASE tx[t].op # "reserve"
  <2>1. \A r \in Reservations : ~ToSweep(t, r)
    BY <1>1, <1>3 DEF ToSweep
  <2>2. ASSUME NEW r \in Reservations, resvOwner[r] = t
        PROVE  resv[r].status = "held" /\ resvDraft[r] = Ended(t, r)
    BY <1>2, <1>3, <1>5, <2>1, <2>2 DEF LocksOf, Settling
  <2>3. tx[t].op # "sweep" => tx[t].id \in Reservations /\ \A r \in Reservations : resvOwner[r] = t <=> r = tx[t].id
    BY <1>1, <1>2, <1>3, <1>5 DEF LocksOf, Settling, Shape
  <2> QED BY <1>1, <1>3, <1>5, <2>2, <2>3
<1> QED BY <1>4, <1>5


\* What is held and sold after a COMMIT, by what was held and sold before.
LEMMA CommittedUnits ==
  ASSUME RowInv, RowInv', NEW t \in Txns, CommitTx(t), NEW s \in SKUs
  PROVE  /\ Held(s)' = Held(s) + Taken(t, s) - Back(t, s)
         /\ Sold(s)' = Sold(s) + IF tx[t].op = "commit" THEN Back(t, s) ELSE 0
<1> SUFFICES ASSUME NEW H, H = InStatus("held"), NEW C, C = InStatus("committed"),
                    NEW M, M = Moved(t, s), NEW i, i = tx[t].id
             PROVE  /\ Held(s)' = Held(s) + Taken(t, s) - Back(t, s)
                    /\ Sold(s)' = Sold(s) + IF tx[t].op = "commit" THEN Back(t, s) ELSE 0
  OBVIOUS
<1>t. TypeOK /\ TypeOK' /\ tx[t].pc = "commit"
  BY DEF RowInv, CommitTx
<1>0. H \in SUBSET Reservations /\ C \in SUBSET Reservations /\ M \in SUBSET Reservations /\ H \cap C = {}
  BY DEF InStatus, Moved
<1>1. \A T : /\ T = InStatus("held")' => Held(s)' = Cardinality(Units(T, s)')
             /\ T = InStatus("committed")' => Sold(s)' = Cardinality(Units(T, s)')
  BY DEF Held, Sold, Units
<1>2. Held(s) = Cardinality(Units(H, s)) /\ Sold(s) = Cardinality(Units(C, s)) /\ Back(t, s) = Cardinality(Units(M, s))
  BY DEF Held, Sold, Back
<1>n. Cardinality(Units(H, s)) \in Nat /\ Cardinality(Units(C, s)) \in Nat /\ Cardinality(Units(M, s)) \in Nat
  BY <1>0, UnitsFinite
<1>3. CASE tx[t].op = "reserve"
  <2>1. i \in Reservations /\ resv[i].status = "none"
        /\ \A r \in Reservations : resv'[r] = IF r = i THEN tx[t].agg ELSE resv[r]
    BY <1>3, Committed
  <2>2. tx[t].agg.status = "held" /\ Taken(t, s) = resv'[i].lines[s]
    <3>1. tx[t].todo = {} /\ tx[t].agg.status = "held"
      BY <1>3, Committed
    <3>2. Taken(t, s) = tx[t].agg.lines[s]
      BY <1>3, <1>t, <3>1 DEF Taken, InStock
    <3> QED BY <2>1, <3>1, <3>2
  <2>3. Back(t, s) = 0
    <3>1. M = {}
      BY <1>3 DEF Moved, Settling
    <3> QED BY <1>2, <3>1, <1>0, UnitsBounds
  <2>4. InStatus("held")' = H \cup {i} /\ InStatus("committed")' = C /\ i \notin H
    BY <2>1, <2>2 DEF InStatus
  <2>5. Units(H, s)' = Units(H, s) /\ Units(C, s)' = Units(C, s)
    <3>1. /\ \A r \in H : resv'[r].lines[s] = resv[r].lines[s]
          /\ \A r \in C : resv'[r].lines[s] = resv[r].lines[s]
      BY <1>0, <2>1 DEF InStatus
    <3> QED BY <1>0, <3>1, UnitsSame
  <2>6. Cardinality(Units(H \cup {i}, s)') = Cardinality(Units(H, s)') + resv'[i].lines[s]
    BY <1>0, <1>t, <2>1, <2>4, UnitsAdded
  <2>7. Held(s)' = Held(s) + Taken(t, s)
    BY <1>1, <1>2, <2>2, <2>4, <2>5, <2>6
  <2>8. Sold(s)' = Sold(s)
    BY <1>1, <1>2, <2>4, <2>5
  <2>9. Held(s) \in Nat /\ Sold(s) \in Nat /\ Taken(t, s) \in Nat
    BY <1>2, <1>n, <1>t, <1>3 DEF Taken, InStock, TypeOK, TxType, Hold, Lines
  <2> QED BY <1>3, <2>3, <2>7, <2>8, <2>9
<1>4. CASE tx[t].op # "reserve"
  <2>1. /\ tx[t].op \in {"commit", "release", "sweep"}
        /\ tx[t].todo = {} /\ tx[t].batch = {}
        /\ \A r \in Reservations : resvOwner[r] = t => resv[r].status = "held" /\ resvDraft[r] = Ended(t, r)
    BY <1>4, Committed
  <2>2. \A r \in Reservations : r \in M <=> resvOwner[r] = t
    <3>1. CASE tx[t].op = "sweep"
      BY <1>t, <2>1, <3>1 DEF Moved, Settling, ToSweep
    <3>2. CASE tx[t].op # "sweep"
      <4>1. tx[t].id \in Reservations /\ \A r \in Reservations : resvOwner[r] = t <=> r = tx[t].id
        BY <1>4, <3>2, Committed
      <4> QED BY <1>t, <2>1, <3>2, <4>1 DEF Moved, Settling, InStock
    <3> QED BY <3>1, <3>2
  <2>3. M \subseteq H
    BY <1>0, <2>1, <2>2 DEF InStatus
  <2>4. \A r \in Reservations : /\ resv'[r] = IF r \in M THEN Ended(t, r) ELSE resv[r]
                                /\ r \in M => resv'[r].status = TargetStatus(tx[t].op)
                                /\ resv'[r].lines = resv[r].lines
    <3>1. ASSUME NEW r \in Reservations PROVE resv'[r] = IF r \in M THEN Ended(t, r) ELSE resv[r]
      BY <2>1, <2>2, Committed
    <3>2. \A r \in Reservations : /\ Ended(t, r).status = TargetStatus(tx[t].op)
                                  /\ Ended(t, r).lines = resv[r].lines
      BY <1>t DEF Ended, TypeOK, Hold
    <3> QED BY <3>1, <3>2
  <2>5. /\ InStatus("held")' = H \ M
        /\ tx[t].op = "commit" => InStatus("committed")' = C \cup M
        /\ tx[t].op # "commit" => InStatus("committed")' = C
    <3>1. /\ TargetStatus(tx[t].op) # "held"
          /\ TargetStatus(tx[t].op) = "committed" <=> tx[t].op = "commit"
      BY <2>1 DEF TargetStatus
    <3> QED BY <1>0, <2>3, <2>4, <3>1 DEF InStatus
  <2>6. \A R \in SUBSET Reservations : Units(R, s)' = Units(R, s)
    <3> SUFFICES ASSUME NEW R \in SUBSET Reservations PROVE Units(R, s)' = Units(R, s)
      OBVIOUS
    <3>1. \A r \in R : resv'[r].lines[s] = resv[r].lines[s]
      BY <2>4
    <3> QED BY <3>1, UnitsSame
  <2>7. Held(s)' = Cardinality(Units(H \ M, s))
    BY <1>0, <1>1, <2>5, <2>6
  <2>8. Cardinality(Units((H \ M) \cup M, s)) = Cardinality(Units(H \ M, s)) + Cardinality(Units(M, s))
    BY <1>0, UnitsUnion
  <2>9. (H \ M) \cup M = H /\ Cardinality(Units(H \ M, s)) \in Nat
    BY <1>0, <2>3, UnitsFinite
  <2>10. Taken(t, s) = 0
    BY <1>4 DEF Taken
  <2>11. Held(s)' = Held(s) + Taken(t, s) - Back(t, s)
    <3>1. Cardinality(Units(H, s)) = Cardinality(Units(H \ M, s)) + Cardinality(Units(M, s))
      BY <2>8, <2>9
    <3> QED BY ONLY <1>2, <1>n, <2>7, <2>9, <2>10, <3>1
  <2>12. CASE tx[t].op = "commit"
    <3>1. Sold(s)' = Cardinality(Units(C \cup M, s))
      BY <1>0, <1>1, <2>5, <2>6, <2>12
    <3>2. Cardinality(Units(C \cup M, s)) = Cardinality(Units(C, s)) + Cardinality(Units(M, s))
      <4>1. C \cap M = {}
        BY <1>0, <2>3
      <4> QED BY <1>0, <4>1, UnitsUnion
    <3> QED BY <1>2, <2>11, <2>12, <3>1, <3>2
  <2>13. CASE tx[t].op # "commit"
    <3>1. Sold(s)' = Cardinality(Units(C, s))
      BY <1>0, <1>1, <2>5, <2>6, <2>13
    <3> QED BY <1>2, <1>n, <2>11, <2>13, <3>1
  <2> QED BY <2>12, <2>13
<1> QED BY <1>3, <1>4

\* A COMMIT keeps the lines of every stored reservation, so whoever else has
\* moved one of them has still moved as many units.
LEMMA LinesStay ==
  ASSUME RowInv, NEW t \in Txns, CommitTx(t)
  PROVE  /\ \A r \in Reservations : resv[r].status # "none" => resv'[r].lines = resv[r].lines
         /\ \A u \in Txns, s \in SKUs : \A r \in Moved(u, s) : resv[r].status # "none"
<1>t. TypeOK
  BY DEF RowInv
<1>1. ASSUME NEW r \in Reservations, resv[r].status # "none" PROVE resv'[r].lines = resv[r].lines
  <2>1. CASE resvOwner[r] # t
    BY <2>1, Committed
  <2>2. CASE resvOwner[r] = t /\ tx[t].op = "reserve"
    BY <1>1, <2>2, Committed
  <2>3. CASE resvOwner[r] = t /\ tx[t].op # "reserve"
    <3>1. resv'[r] = Ended(t, r)
      BY <2>3, Committed
    <3> QED BY <1>t, <3>1 DEF Ended, TypeOK, Hold
  <2> QED BY <2>1, <2>2, <2>3
<1>2. ASSUME NEW u \in Txns, NEW s \in SKUs, NEW r \in Moved(u, s) PROVE resv[r].status # "none"
  <2>1. r \in Reservations /\ AggregateOf(u) /\ LocksOf(u, r)
    BY DEF RowInv, AggregateOK, HoldsLocked, Moved
  <2> QED BY <2>1 DEF Moved, AggregateOf, LocksOf, ToSweep
<1> QED BY <1>1, <1>2

\* What a COMMIT makes of the counts of a row.
LEMMA CommittedStock ==
  ASSUME IndInv, NEW t \in Txns, CommitTx(t), NEW s \in SKUs
  PROVE  /\ stock'[s].available = stock[s].available - Taken(t, s)
                                    + IF tx[t].op = "commit" THEN 0 ELSE Back(t, s)
         /\ stock'[s].reserved = stock[s].reserved + Taken(t, s) - Back(t, s)
<1> DEFINE b == Back(t, s)
           k == Taken(t, s)
<1>1. stock'[s] = IF stockOwner[s] = t THEN stockDraft[s] ELSE stock[s]
  BY DEF CommitTx, PublishAndUnlock
<1>2. StockOf(t, s)
  BY StockRows DEF IndInv
<1>3. stock[s].available \in Nat /\ stock[s].reserved \in Nat
  BY DEF IndInv, TypeOK, StockRow
<1>4. CASE stockOwner[s] = t
  BY <1>1, <1>2, <1>4 DEF StockOf
<1>5. CASE stockOwner[s] # t
  <2>1. b = 0 /\ k = 0 /\ stock'[s] = stock[s]
    BY <1>1, <1>2, <1>5 DEF StockOf
  <2> HIDE DEF b, k
  <2>2. /\ stock'[s].available = stock[s].available - k + IF tx[t].op = "commit" THEN 0 ELSE b
        /\ stock'[s].reserved = stock[s].reserved + k - b
    BY <1>3, <2>1
  <2> QED BY <2>2 DEF b, k
<1> QED BY <1>4, <1>5

\* COMMIT: the counts and the holds they count become visible together.
LEMMA CommitCounts ==
  ASSUME IndInv, RowInv', NEW t \in Txns, CommitTx(t)
  PROVE  IndInv'
<1>1. /\ UNCHANGED <<stockDraft, tracked, received>>
      /\ tx' = [tx EXCEPT ![t] = IdleTx]
      /\ \A s \in SKUs : /\ stock'[s] = IF stockOwner[s] = t THEN stockDraft[s] ELSE stock[s]
                         /\ stockOwner'[s] = IF stockOwner[s] = t THEN None ELSE stockOwner[s]
      /\ \A r \in Reservations : resvOwner'[r] = IF resvOwner[r] = t THEN None ELSE resvOwner[r]
  BY DEF CommitTx, PublishAndUnlock
<1>t. /\ tx \in [Txns -> TxType] /\ TypeOK /\ \A u \in Txns : u # None
      /\ RowInv
  BY ConstantsAssumption, IndRows DEF IndInv, TypeOK, ConstantsAssumption
<1>2. tx'[t].pc = "idle" /\ \A u \in Txns : u # t => tx'[u] = tx[u]
  BY <1>1, <1>t DEF IdleTx
<1>3. ASSUME NEW s \in SKUs PROVE StockOf(t, s)'
  <2>1. Back(t, s)' = 0 /\ Taken(t, s)' = 0
    BY <1>2, NothingMovedNext
  <2>2. stockOwner'[s] # t
    BY <1>1, <1>t
  <2> QED BY <2>1, <2>2 DEF StockOf
<1>4. ASSUME NEW u \in Txns, NEW s \in SKUs, u # t PROVE StockOf(u, s)'
  <2>1. StockOf(u, s)
    BY StockRows DEF IndInv
  <2>2. \A r \in Reservations : resvOwner'[r] = u <=> resvOwner[r] = u
    BY <1>1, <1>t, <1>4
  <2>3. \A r \in Moved(u, s) : resv'[r].lines[s] = resv[r].lines[s]
    BY <1>t, LinesStay DEF Moved
  <2>4. Back(u, s)' = Back(u, s) /\ Taken(u, s)' = Taken(u, s)
    BY <1>1, <1>2, <1>4, <2>2, <2>3, OthersMoved
  <2>5. (stockOwner'[s] = u <=> stockOwner[s] = u)
        /\ (stockOwner[s] = u => stock'[s] = stock[s] /\ stockDraft'[s] = stockDraft[s])
    BY <1>1, <1>t, <1>4
  <2> QED BY <1>2, <1>4, <2>1, <2>4, <2>5, StockKept
<1>5. StockLocked'
  BY <1>3, <1>4 DEF StockLocked, StockOf, Back
<1>6. UntrackedIsEmpty'
  BY <1>1, <1>t DEF IndInv, UntrackedIsEmpty
<1>7. ASSUME NEW s \in SKUs
      PROVE  /\ stock'[s].reserved = Held(s)'
             /\ stock'[s].available + stock'[s].reserved + Sold(s)' = received'[s]
  <2> DEFINE b == Back(t, s)
             k == Taken(t, s)
             h == Held(s)
             c == Sold(s)
             a == stock[s].available
             v == stock[s].reserved
  <2>1. Held(s)' = h + k - b /\ Sold(s)' = c + IF tx[t].op = "commit" THEN b ELSE 0
    BY <1>t, CommittedUnits
  <2>2. v = h /\ a + v + c = received[s] /\ received'[s] = received[s]
    BY <1>1 DEF IndInv, ReservedIsHeld, StockConserved, Held, Sold
  <2>4. b \in Nat /\ h \in Nat /\ c \in Nat
    BY UnitsFinite DEF Back, Held, Sold, Moved, InStatus
  <2>5. a \in Nat /\ v \in Nat /\ k \in Nat
    BY <1>t DEF TypeOK, StockRow, Taken, TxType, Hold, Lines
  <2>6. /\ stock'[s].available = a - k + IF tx[t].op = "commit" THEN 0 ELSE b
        /\ stock'[s].reserved = v + k - b
    BY CommittedStock
  <2> HIDE DEF b, k, h, c, a, v
  <2> QED BY ONLY <2>1, <2>2, <2>4, <2>5, <2>6
<1>8. ReservedIsHeld' /\ StockConserved'
  BY <1>7 DEF ReservedIsHeld, StockConserved, Held, Sold
<1> QED BY <1>5, <1>6, <1>8 DEF IndInv, RowInv

\* Stock administration touches rows nobody has locked, and counts what it
\* brings in.
LEMMA AdminCounts ==
  ASSUME IndInv, RowInv', NEW s \in SKUs,
         (\E n \in 0..MaxStock : CreateStockItem(s, n)) \/ (\E d \in Deltas : AdjustStock(s, d))
  PROVE  IndInv'
<1>t. TypeOK /\ \A u \in Txns : u # None
  BY ConstantsAssumption DEF IndInv, ConstantsAssumption
<1>1. /\ UNCHANGED <<stockOwner, resv, resvOwner, tx>>
      /\ stockOwner[s] = None
      /\ \A z \in SKUs : z # s => /\ stock'[z] = stock[z] /\ stockDraft'[z] = stockDraft[z]
                                  /\ received'[z] = received[z]
      /\ s \in tracked' /\ tracked \subseteq tracked'
      /\ stock'[s].reserved = stock[s].reserved
      /\ stock'[s].available - stock[s].available = received'[s] - received[s]
      /\ stock'[s].available \in Nat /\ received'[s] \in Int
  <2>1. CASE \E n \in 0..MaxStock : CreateStockItem(s, n)
    <3>1. PICK n \in 0..MaxStock : CreateStockItem(s, n)
      BY <2>1
    <3>2. n \in Nat /\ stock[s] = NoStock /\ stockOwner[s] = None /\ received[s] = 0
      BY <3>1, ConstantsAssumption DEF CreateStockItem, IndInv, UntrackedIsEmpty, ConstantsAssumption
    <3> QED BY <1>t, <3>1, <3>2 DEF CreateStockItem, TypeOK, StockRow, NoStock, resvVars
  <2>2. CASE \E d \in Deltas : AdjustStock(s, d)
    <3>1. PICK d \in Deltas : AdjustStock(s, d)
      BY <2>2
    <3>2. d \in Int /\ MaxStock \in Nat
      BY ConstantsAssumption DEF ConstantsAssumption
    <3> QED BY <1>t, <3>1, <3>2 DEF AdjustStock, TypeOK, StockRow, resvVars
  <2> QED BY <2>1, <2>2
<1>2. ASSUME NEW u \in Txns, NEW z \in SKUs PROVE StockOf(u, z)'
  <2>1. StockOf(u, z)
    BY StockRows DEF IndInv
  <2>2. Back(u, z)' = Back(u, z) /\ Taken(u, z)' = Taken(u, z)
    BY <1>1, OthersMoved
  <2>3. stockOwner[z] = u => z # s
    BY <1>t, <1>1
  <2> QED BY <1>1, <2>1, <2>2, <2>3, StockKept
<1>3. StockLocked'
  BY <1>2 DEF StockLocked, StockOf, Back
<1>4. UntrackedIsEmpty'
  BY <1>1 DEF IndInv, UntrackedIsEmpty
<1>5. ASSUME NEW z \in SKUs
      PROVE  /\ stock'[z].reserved = Held(z)'
             /\ stock'[z].available + stock'[z].reserved + Sold(z)' = received'[z]
  <2>1. Held(z)' = Held(z) /\ Sold(z)' = Sold(z)
    BY <1>1 DEF Held, Sold, Units, InStatus
  <2>2. stock[z].reserved = Held(z) /\ stock[z].available + stock[z].reserved + Sold(z) = received[z]
    BY DEF IndInv, ReservedIsHeld, StockConserved, Held, Sold
  <2>3. CASE z # s
    BY <1>1, <2>1, <2>2, <2>3
  <2>4. CASE z = s
    <3> DEFINE h == Held(s)
               c == Sold(s)
    <3>1. h \in Nat /\ c \in Nat
      BY UnitsFinite DEF Held, Sold, InStatus
    <3>2. stock[s].available \in Nat /\ stock[s].reserved \in Nat /\ received[s] \in Int
      BY <1>t DEF TypeOK, StockRow
    <3> HIDE DEF h, c
    <3>3. /\ Held(z)' = h /\ Sold(z)' = c
          /\ stock[s].reserved = h /\ stock[s].available + stock[s].reserved + c = received[s]
      BY <2>1, <2>2, <2>4 DEF h, c
    <3> QED BY <1>1, <2>4, <3>1, <3>2, <3>3
  <2> QED BY <2>3, <2>4
<1>6. ReservedIsHeld' /\ StockConserved'
  BY <1>5 DEF ReservedIsHeld, StockConserved, Held, Sold
<1> QED BY <1>3, <1>4, <1>6 DEF IndInv, RowInv

\* Nothing is counted before the first row is created.
LEMMA InitCounts == Init => IndInv
<1> SUFFICES ASSUME Init PROVE IndInv
  OBVIOUS
<1>1. RowInv
  BY InitRows
<1>2. \A s \in SKUs : Units({}, s) = {} /\ Cardinality({}) = 0
  BY FS_EmptySet DEF Units
<1>3. InStatus("held") = {} /\ InStatus("committed") = {}
  BY DEF Init, InStatus, NoHold
<1>4. ReservedIsHeld /\ StockConserved
  <2>1. ASSUME NEW s \in SKUs
        PROVE  /\ Cardinality(Units(InStatus("held"), s)) = 0 /\ Cardinality(Units(InStatus("committed"), s)) = 0
               /\ stock[s].available = 0 /\ stock[s].reserved = 0 /\ received[s] = 0
    BY <1>2, <1>3 DEF Init, NoStock
  <2>2. ASSUME NEW s \in SKUs
        PROVE  /\ stock[s].reserved = Cardinality(Units(InStatus("held"), s))
               /\ stock[s].available + stock[s].reserved + Cardinality(Units(InStatus("committed"), s)) = received[s]
    BY <2>1
  <2> QED BY <2>2 DEF ReservedIsHeld, StockConserved
<1>5. ASSUME NEW t \in Txns, NEW s \in SKUs PROVE StockOf(t, s)
  <2>1. tx[t].pc = "idle" /\ stockOwner[s] # t
    BY ConstantsAssumption DEF Init, IdleTx, ConstantsAssumption
  <2> QED BY <1>1, <2>1, NothingMoved DEF StockOf
<1>6. StockLocked
  BY <1>5, StockRows
<1>7. UntrackedIsEmpty
  BY DEF Init, UntrackedIsEmpty
<1> QED BY <1>1, <1>4, <1>6, <1>7 DEF IndInv, RowInv

\* Every step keeps the counts in line with the holds.
LEMMA NextCounts == IndInv /\ [Next]_vars => IndInv'
<1> SUFFICES ASSUME IndInv, [Next]_vars PROVE IndInv'
  OBVIOUS
<1>0. RowInv'
  BY IndRows, NextRows
<1>1. CASE \E s \in SKUs : (\E n \in 0..MaxStock : CreateStockItem(s, n)) \/ (\E d \in Deltas : AdjustStock(s, d))
  BY <1>0, <1>1, AdminCounts
<1>2. ASSUME NEW t \in Txns, Begin(t) PROVE IndInv'
  BY <1>0, <1>2, EdgeCounts
<1>3. ASSUME NEW t \in Txns, Statement(t) PROVE IndInv'
  <2>1. CASE InsertRefused(t) \/ UpdateRefused(t) \/ \E s \in SKUs : MoveRefused(t, s)
    BY <1>0, <2>1, UndoCounts DEF InsertRefused, UpdateRefused, MoveRefused
  <2>2. CASE FindNoHold(t) \/ SettleMoves(t)
    BY <1>0, <2>2, ReadCounts
  <2>3. CASE FindExistingHold(t) \/ SettleStays(t)
    BY <1>0, <2>3, EdgeCounts
  <2>4. CASE InsertReservation(t) \/ UpdateReservation(t)
    BY <1>0, <2>4, RowCounts
  <2>5. CASE \E s \in SKUs : MoveStock(t, s)
    BY <1>0, <2>5, MoveCounts
  <2>6. CASE \E B \in SUBSET Reservations : ClaimExpired(t, B)
    BY <1>0, <2>6, ClaimCounts
  <2>7. CASE (\E r \in Reservations : SweepNext(t, r)) \/ SweepDone(t)
    BY <1>0, <2>7, SweepCounts
  <2>8. CASE CommitTx(t)
    BY <1>0, <2>8, CommitCounts
  <2> QED BY <1>3, <2>1, <2>2, <2>3, <2>4, <2>5, <2>6, <2>7, <2>8 DEF Statement
<1>4. ASSUME NEW t \in Txns, Rollback(t) \/ DeadlockVictim(t) PROVE IndInv'
  BY <1>0, <1>4, UndoCounts DEF Rollback, DeadlockVictim
<1>5. CASE Tick \/ FallQuiet \/ UNCHANGED vars
  <2>1. UNCHANGED <<stockVars, resvVars, tx>>
    BY <1>5 DEF Tick, FallQuiet, vars
  <2>2. UntrackedIsEmpty' /\ ReservedIsHeld' /\ StockConserved'
    BY <2>1 DEF IndInv, UntrackedIsEmpty, ReservedIsHeld, StockConserved, Units, InStatus, stockVars, resvVars
  <2>3. StockLocked'
    <3>1. ASSUME NEW t \in Txns, NEW s \in SKUs PROVE StockOf(t, s)'
      <4>1. StockOf(t, s)
        BY StockRows DEF IndInv
      <4>2. Back(t, s)' = Back(t, s) /\ Taken(t, s)' = Taken(t, s)
        BY <2>1, OthersMoved DEF stockVars, resvVars
      <4> QED BY <2>1, <4>1, <4>2, StockKept DEF stockVars, resvVars
    <3> QED BY <3>1 DEF StockLocked, StockOf, Back
  <2> QED BY <1>0, <2>2, <2>3 DEF IndInv, RowInv
<1> QED BY <1>1, <1>2, <1>3, <1>4, <1>5 DEF Next

\* What transactions in flight have done to the newest row versions is what
\* their memory says, in every reachable state.
THEOREM CountsInvariant == Spec => []IndInv
<1> QED BY InitCounts, NextCounts, PTL DEF Spec

\* Stock counts never drift from the holds and sales they stand for, whatever
\* ReserveStock, settle, ExpireReservations and rollbacks raced.
THEOREM CountsAlwaysAddUp == Spec => []StockAddsUp
<1>1. IndInv => StockAddsUp
  BY DEF IndInv, StockAddsUp
<1> QED BY <1>1, CountsInvariant, PTL

\* A hold that is still live is counted: what its holder has not moved yet of a
\* line is still in the row the next statement sees.
LEMMA LiveHoldIsCounted ==
  ASSUME IndInv, NEW t \in Txns, NEW s \in SKUs, tx[t].pc = "move", tx[t].op # "reserve",
         s \in tx[t].todo, resv[tx[t].id].status = "held"
  PROVE  VisibleStock(t, s).reserved >= tx[t].agg.lines[s]
<1> DEFINE H == InStatus("held")
           M == Moved(t, s)
           i == tx[t].id
           q == resv[i].lines[s]
<1>t. TypeOK /\ RowInv
  BY IndRows DEF IndInv
<1>1. /\ tx[t].op \in {"commit", "release", "sweep"} /\ i \in Reservations
      /\ tx[t].agg.lines[s] = q
  BY <1>t, LinesInMemory
<1>2. \A r \in Reservations : LocksOf(t, r)
  BY DEF IndInv, HoldsLocked
<1>3. M \in SUBSET Reservations /\ H \in SUBSET Reservations /\ i \in H
  BY <1>1 DEF Moved, InStatus
<1>4. M \subseteq H /\ i \notin M
  <2>1. ASSUME NEW r \in M PROVE resv[r].status = "held" /\ r # i
    BY <1>2, <1>3, <2>1 DEF Moved, LocksOf, Settling, ToSweep
  <2> QED BY <1>3, <2>1 DEF InStatus
<1>5. Held(s) \in Nat /\ Back(t, s) \in Nat /\ q \in Nat /\ q + Back(t, s) <= Held(s)
  <2>1. Cardinality(Units({i}, s)) = q /\ q \in Nat
    BY <1>t, <1>1, UnitsOne
  <2>2. Cardinality(Units({i} \cup M, s)) = Cardinality(Units({i}, s)) + Cardinality(Units(M, s))
    <3>1. {i} \cap M = {} /\ {i} \in SUBSET Reservations
      BY <1>1, <1>4
    <3> HIDE DEF M, i
    <3> QED BY <1>3, <3>1, UnitsUnion
  <2>3. Cardinality(Units({i} \cup M, s)) <= Cardinality(Units(H, s))
    <3>1. {i} \cup M \in SUBSET H
      BY <1>3, <1>4
    <3> HIDE DEF M, i, H
    <3> QED BY <1>3, <3>1, UnitsBounds
  <2>4. Held(s) = Cardinality(Units(H, s)) /\ Back(t, s) = Cardinality(Units(M, s))
    BY DEF Held, Back
  <2>5. Cardinality(Units(H, s)) \in Nat /\ Cardinality(Units(M, s)) \in Nat
    BY <1>3, UnitsFinite
  <2> HIDE DEF M, i, H, q
  <2> QED BY ONLY <2>1, <2>2, <2>3, <2>4, <2>5
<1>6. stock[s].reserved = Held(s) /\ StockOf(t, s) /\ Taken(t, s) = 0
  BY StockRows DEF IndInv, ReservedIsHeld, Held, Taken
<1>7. VisibleStock(t, s).reserved \in {Held(s), Held(s) + 0 - Back(t, s)}
  BY <1>6 DEF StockOf, VisibleStock
<1> HIDE DEF q
<1> QED BY <1>1, <1>5, <1>7

\* A settling transaction whose hold is still live is never refused, so neither
\* STOCK_INCONSISTENT nor RESERVATION_MODIFIED ever means that counts drifted;
\* a sweep, which locks its rows first, is never refused at all.
THEOREM RefusalsAreStale == Spec => []RefusedOnlyWhenStale
<1>1. ASSUME IndInv PROVE RefusedOnlyWhenStale
  <2> SUFFICES ASSUME NEW t \in Txns, HoldRefused(t),
                      tx[t].op = "sweep" \/ resv[tx[t].id].version = tx[t].agg.version
               PROVE  FALSE
    BY DEF RefusedOnlyWhenStale
  <2> DEFINE i == tx[t].id
  <2>1. /\ tx[t].op \in {"commit", "release", "sweep"} /\ tx[t].pc \in {"move", "write"}
        /\ i \in Reservations /\ tx[t].agg.version = 1
    BY <1>1, IndRows, LinesInMemory DEF HoldRefused
  <2>2. LocksOf(t, i) /\ (resv[i].status = "held" <=> resv[i].version = 1)
    BY <1>1, <2>1 DEF IndInv, HoldsLocked, VersionIsStatus
  <2>3. resv[i].status = "held" /\ resv[i].version = 1
    BY <2>1, <2>2 DEF LocksOf, ToSweep
  <2>4. VisibleHold(t, i).version = 1
    BY <2>1, <2>2, <2>3 DEF VisibleHold, LocksOf, ToSweep, Settling
  <2>5. tx[t].pc = "move"
    BY <2>1, <2>4 DEF HoldRefused, SameVersion
  <2>6. PICK s \in SKUs : IsNextLine(t, s) /\ ~StockGuard(tx[t].op, VisibleStock(t, s), tx[t].agg.lines[s])
    BY <2>5 DEF HoldRefused
  <2>7. VisibleStock(t, s).reserved >= tx[t].agg.lines[s]
    BY <1>1, <2>1, <2>3, <2>5, <2>6, LiveHoldIsCounted DEF IsNextLine
  <2> QED BY <2>1, <2>6, <2>7 DEF StockGuard
<1> QED BY <1>1, CountsInvariant, PTL

-----------------------------------------------------------------------------
(* Deadlocks.                                                              *)

\* A transaction that has not reached its statements holds no stock row, and
\* one that reserves or settles holds only rows before those it still wants.
MovesInOrder ==
  \A t \in Txns, s \in SKUs : stockOwner[s] = t =>
    /\ tx[t].pc \notin {"idle", "read"}
    /\ tx[t].op # "sweep" /\ tx[t].pc = "move" => \A x \in tx[t].todo : s < x

\* The next line t wants, to reserve or to settle, is in the hands of u.
QueuesBehind(t, u) ==
  /\ tx[t].op # "sweep"
  /\ tx[t].pc = "move"
  /\ \E s \in SKUs : IsNextLine(t, s) /\ stockOwner[s] = u

\* A nonempty set of transactions each of which queues behind one of it.
Circle(D) == D # {} /\ \A t \in D : \E u \in D : QueuesBehind(t, u)

\* The inductive invariant behind SettlingNeverDeadlocks: lines are taken in
\* SKU order, so nobody queues behind somebody who queues behind it.
WaitInv ==
  /\ MovesInOrder
  /\ \A D \in SUBSET Txns : ~Circle(D)

\* A step of t that takes rows for t only, or gives some up, keeps the order.
LEMMA OrderFrame ==
  ASSUME MovesInOrder, NEW t \in Txns,
         \A u \in Txns : u # t => tx'[u] = tx[u],
         \A u \in Txns, s \in SKUs : u # t => (stockOwner'[s] = u <=> stockOwner[s] = u),
         \A s \in SKUs : stockOwner'[s] = t =>
            /\ tx'[t].pc \notin {"idle", "read"}
            /\ tx'[t].op # "sweep" /\ tx'[t].pc = "move" => \A x \in tx'[t].todo : s < x
  PROVE  MovesInOrder'
<1> SUFFICES ASSUME NEW u \in Txns, NEW s \in SKUs, stockOwner'[s] = u
             PROVE  /\ tx'[u].pc \notin {"idle", "read"}
                    /\ tx'[u].op # "sweep" /\ tx'[u].pc = "move" => \A x \in tx'[u].todo : s < x
  BY DEF MovesInOrder
<1>1. CASE u = t
  BY <1>1
<1>2. CASE u # t
  BY <1>2 DEF MovesInOrder
<1> QED BY <1>1, <1>2

\* Whatever t does, its own step takes no row from, or for, anybody else.
LEMMA StepOfOne ==
  ASSUME TypeOK, TxShape, MovesInOrder, NEW t \in Txns, Begin(t) \/ Statement(t) \/ Rollback(t) \/ DeadlockVictim(t)
  PROVE  /\ MovesInOrder'
         /\ \A u \in Txns : u # t => tx'[u] = tx[u]
         /\ \A u \in Txns, s \in SKUs : u # t => (stockOwner'[s] = u <=> stockOwner[s] = u)
<1>t. /\ tx \in [Txns -> TxType] /\ \A u \in Txns : u # None
      /\ stockOwner \in [SKUs -> Txns \cup {None}]
      /\ SKUs \subseteq Int /\ tx[t].todo \subseteq SKUs
      /\ Shape(tx[t])
  BY ConstantsAssumption DEF TypeOK, ConstantsAssumption, TxType, TxShape
<1> DEFINE Keeps == /\ \A u \in Txns : u # t => tx'[u] = tx[u]
                    /\ \A u \in Txns, s \in SKUs : u # t => (stockOwner'[s] = u <=> stockOwner[s] = u)
           Ordered == \A s \in SKUs : stockOwner'[s] = t =>
                        /\ tx'[t].pc \notin {"idle", "read"}
                        /\ tx'[t].op # "sweep" /\ tx'[t].pc = "move" => \A x \in tx'[t].todo : s < x
<1>0. Keeps /\ Ordered => /\ MovesInOrder' /\ Keeps
  BY OrderFrame
<1>1. CASE UndoAndUnlock(t) \/ PublishAndUnlock(t)
  <2>1. /\ tx' = [tx EXCEPT ![t] = IdleTx]
        /\ \A s \in SKUs : stockOwner'[s] = IF stockOwner[s] = t THEN None ELSE stockOwner[s]
    BY <1>1 DEF UndoAndUnlock, PublishAndUnlock
  <2> QED BY <1>t, <1>0, <2>1
<1>2. CASE \E s \in SKUs : MoveStock(t, s)
  <2>1. PICK z \in SKUs : MoveStock(t, z)
    BY <1>2
  <2> DEFINE x == [tx[t] EXCEPT !.todo = tx[t].todo \ {z},
                                !.pc = IF tx[t].todo = {z} THEN "write" ELSE "move"]
  <2>2. /\ tx[t].pc = "move" /\ z \in tx[t].todo /\ \A u \in tx[t].todo : z <= u
        /\ stockOwner[z] \in {None, t} /\ stockOwner' = [stockOwner EXCEPT ![z] = t]
        /\ tx' = [tx EXCEPT ![t] = x]
    BY <2>1 DEF MoveStock, IsNextLine
  <2>3. x.todo = tx[t].todo \ {z} /\ x.pc \in {"move", "write"} /\ x.op = tx[t].op
    BY <1>t DEF TxType
  <2> HIDE DEF x
  <2>4. Keeps
    BY <1>t, <2>2
  <2>5. ASSUME NEW s \in SKUs, stockOwner'[s] = t, tx'[t].op # "sweep", NEW y \in tx'[t].todo
        PROVE  s < y
    <3>1. y \in tx[t].todo /\ y # z /\ tx[t].op # "sweep"
      BY <1>t, <2>2, <2>3, <2>5
    <3>2. CASE s = z
      <4>1. z <= y /\ y \in Int /\ z \in Int /\ y # z
        BY <1>t, <2>2, <3>1
      <4> QED BY ONLY <3>2, <4>1
    <3>3. CASE s # z
      <4>1. stockOwner[s] = t
        BY <1>t, <2>2, <2>5, <3>3
      <4>2. \A w \in tx[t].todo : s < w
        BY <2>2, <3>1, <4>1 DEF MovesInOrder
      <4> QED BY <3>1, <4>2
    <3> QED BY <3>2, <3>3
  <2>6. Ordered
    BY <1>t, <2>2, <2>3, <2>5
  <2> QED BY <1>0, <2>4, <2>6
<1>3. CASE \/ Begin(t) \/ FindNoHold(t) \/ FindExistingHold(t) \/ SettleMoves(t) \/ SettleStays(t)
           \/ \E B \in SUBSET Reservations : ClaimExpired(t, B)
  <2>1. UNCHANGED stockOwner /\ tx[t].pc \in {"idle", "read"} /\ \E x : tx' = [tx EXCEPT ![t] = x]
    BY <1>3 DEF Begin, BeginReserve, BeginSettle, BeginSweep, FindNoHold, FindExistingHold,
                SettleMoves, SettleStays, ClaimExpired, stockVars
  <2>2. \A s \in SKUs : stockOwner[s] # t
    BY <2>1 DEF MovesInOrder
  <2> QED BY <1>t, <1>0, <2>1, <2>2
<1>4. CASE \/ InsertReservation(t) \/ UpdateReservation(t) \/ SweepDone(t)
           \/ \E r \in Reservations : SweepNext(t, r)
  <2>1. UNCHANGED stockOwner /\ \E x : tx' = [tx EXCEPT ![t] = x] /\ (x.pc \in {"next", "commit"} \/ (x.op = "sweep" /\ x.pc = "move"))
    <3>1. CASE InsertReservation(t) \/ UpdateReservation(t) \/ SweepDone(t)
      <4>1. UNCHANGED stockOwner /\ \E p \in {"next", "commit"} : tx' = [tx EXCEPT ![t].pc = p]
        BY <3>1 DEF InsertReservation, UpdateReservation, SweepDone, stockVars
      <4>2. PICK p \in {"next", "commit"} : tx' = [tx EXCEPT ![t].pc = p]
        BY <4>1
      <4> DEFINE y == [tx[t] EXCEPT !.pc = p]
      <4>3. tx' = [tx EXCEPT ![t] = y] /\ y.pc = p
        BY <1>t, <4>2 DEF TxType
      <4> HIDE DEF y
      <4> QED BY <4>1, <4>3
    <3>2. ASSUME NEW r \in Reservations, SweepNext(t, r)
          PROVE  UNCHANGED stockOwner /\ \E x : tx' = [tx EXCEPT ![t] = x] /\ x.op = "sweep" /\ x.pc = "move"
      <4> DEFINE x == [tx[t] EXCEPT !.pc = "move", !.id = r, !.batch = tx[t].batch \ {r},
                          !.agg = [resv[r] EXCEPT !.status = "expired"],
                          !.todo = LineSKUs(resv[r].lines)]
      <4>1. UNCHANGED stockOwner /\ tx' = [tx EXCEPT ![t] = x] /\ tx[t].pc = "next"
        BY <3>2 DEF SweepNext, stockVars
      <4>2. x.op = "sweep" /\ x.pc = "move"
        BY <1>t, <4>1 DEF TxType, Shape
      <4> QED BY <4>1, <4>2
    <3> QED BY <1>4, <3>1, <3>2
  <2>2. PICK x : tx' = [tx EXCEPT ![t] = x] /\ (x.pc \in {"next", "commit"} \/ (x.op = "sweep" /\ x.pc = "move"))
    BY <2>1
  <2>3. tx'[t] = x /\ \A u \in Txns : u # t => tx'[u] = tx[u]
    BY <1>t, <2>2
  <2> QED BY <1>0, <2>1, <2>2, <2>3
<1> QED BY <1>1, <1>2, <1>3, <1>4
        DEF Statement, InsertRefused, MoveRefused, UpdateRefused, CommitTx, Rollback, DeadlockVictim

\* The last to join a circle would have to want a row it already passed: what
\* follows it in the circle was a circle before.
LEMMA NoCircle ==
  ASSUME TypeOK', MovesInOrder', \A D \in SUBSET Txns : ~Circle(D), NEW t \in Txns,
         \A u \in Txns : u # t => tx'[u] = tx[u],
         \A u \in Txns, s \in SKUs : u # t => (stockOwner'[s] = u <=> stockOwner[s] = u)
  PROVE  \A D \in SUBSET Txns : ~Circle(D)'
<1>t. SKUs \subseteq Int /\ \A u \in Txns : tx'[u].todo \subseteq SKUs
  BY ConstantsAssumption DEF TypeOK, ConstantsAssumption, TxType
<1>1. ASSUME NEW D \in SUBSET Txns, t \notin D, Circle(D)' PROVE FALSE
  <2>1. ASSUME NEW d \in D PROVE \E u \in D : QueuesBehind(d, u)
    <3>1. PICK u \in D : QueuesBehind(d, u)'
      BY <1>1 DEF Circle
    <3>2. tx'[d] = tx[d] /\ \A s \in SKUs : stockOwner'[s] = u <=> stockOwner[s] = u
      BY <1>1
    <3> QED BY <3>1, <3>2 DEF QueuesBehind, IsNextLine
  <2> QED BY <1>1, <2>1 DEF Circle
<1> SUFFICES ASSUME NEW D \in SUBSET Txns, Circle(D)' PROVE FALSE
  OBVIOUS
<1>2. t \in D
  BY <1>1
<1>3. PICK v \in D, z \in SKUs : z \in tx'[t].todo /\ stockOwner'[z] = v
  BY <1>2 DEF Circle, QueuesBehind, IsNextLine
<1> DEFINE E == {d \in D : \A x \in tx'[d].todo : z < x}
<1>4. ASSUME NEW u \in D, NEW s \in SKUs, stockOwner'[s] = u
      PROVE  \A x \in tx'[u].todo : s < x
  <2>1. tx'[u].op # "sweep" /\ tx'[u].pc = "move"
    BY DEF Circle, QueuesBehind
  <2> QED BY <1>4, <2>1 DEF MovesInOrder
<1>5. v \in E /\ E \in SUBSET Txns
  BY <1>3, <1>4
<1>6. t \notin E
  BY <1>3, <1>t
<1>7. ASSUME NEW d \in E PROVE \E u \in E : QueuesBehind(d, u)'
  <2>1. PICK u \in D : QueuesBehind(d, u)'
    BY DEF Circle
  <2>2. PICK s \in SKUs : s \in tx'[d].todo /\ stockOwner'[s] = u
    BY <2>1 DEF QueuesBehind, IsNextLine
  <2>3. z < s /\ \A x \in tx'[u].todo : s < x
    BY <1>4, <2>2
  <2>4. \A x \in tx'[u].todo : z < x
    BY <1>t, <2>3
  <2> QED BY <2>1, <2>4
<1>8. \A F : F = E => Circle(F)'
  BY <1>5, <1>7 DEF Circle
<1> HIDE DEF E
<1> QED BY <1>1, <1>5, <1>6, <1>8

\* Waits never come round, in every reachable state.
THEOREM WaitInvariant == Spec => [](IndInv /\ WaitInv)
<1>1. Init => WaitInv
  <2> SUFFICES ASSUME Init PROVE WaitInv
    OBVIOUS
  <2>1. \A s \in SKUs, u \in Txns : stockOwner[s] # u
    BY ConstantsAssumption DEF Init, ConstantsAssumption
  <2> QED BY <2>1 DEF WaitInv, MovesInOrder, Circle, QueuesBehind
<1>2. IndInv /\ WaitInv /\ [Next]_vars => WaitInv'
  <2> SUFFICES ASSUME IndInv, WaitInv, [Next]_vars PROVE WaitInv'
    OBVIOUS
  <2>1. TypeOK /\ TxShape /\ TypeOK'
    BY NextCounts DEF IndInv
  <2>2. ASSUME NEW t \in Txns, Begin(t) \/ Statement(t) \/ Rollback(t) \/ DeadlockVictim(t) PROVE WaitInv'
    BY <2>1, <2>2, StepOfOne, NoCircle DEF WaitInv
  <2>3. CASE UNCHANGED <<stockOwner, tx>>
    BY <2>3 DEF WaitInv, MovesInOrder, Circle, QueuesBehind, IsNextLine
  <2> QED BY <2>2, <2>3 DEF Next, CreateStockItem, AdjustStock, Tick, FallQuiet, vars, stockVars
<1> QED BY <1>1, <1>2, InitCounts, NextCounts, PTL DEF Spec

\* Two settling transactions, or a reserving and a settling one, never wait for
\* each other in a circle: those that wait for a reservation row wait for
\* somebody who is about to COMMIT, the others take stock rows in SKU order.
THEOREM SettlingIsDeadlockFree == Spec => []SettlingNeverDeadlocks
<1>1. ASSUME IndInv, WaitInv PROVE SettlingNeverDeadlocks
  <2> SUFFICES ASSUME NEW D \in SUBSET {t \in Txns : tx[t].op \in {"reserve", "commit", "release"}},
                      WaitCycle(D)
               PROVE  FALSE
    BY DEF SettlingNeverDeadlocks
  <2>1. ASSUME NEW u \in D, NEW r \in Reservations, resvOwner[r] = u PROVE FALSE
    <3>1. tx[u].pc = "commit"
      BY <1>1, <2>1 DEF IndInv, HoldsLocked, LocksOf, Settling
    <3>2. BlockedBy(u) = {}
      BY <3>1 DEF BlockedBy
    <3> QED BY <3>2 DEF WaitCycle
  <2>2. ASSUME NEW t \in D PROVE \E u \in D : QueuesBehind(t, u)
    <3>1. PICK u \in D : u \in BlockedBy(t)
      BY DEF WaitCycle
    <3>2. CASE tx[t].pc = "move"
      BY <3>1, <3>2 DEF BlockedBy, QueuesBehind
    <3>3. CASE tx[t].pc = "write" /\ tx[t].op = "reserve"
      BY <2>1, <3>1, <3>3 DEF BlockedBy, IndexWaits
    <3>4. CASE tx[t].pc = "write" /\ tx[t].op # "reserve"
      <4>1. tx[t].id \in Reservations
        BY <1>1, <3>4 DEF IndInv, TxShape, Shape
      <4> QED BY <2>1, <3>1, <3>4, <4>1 DEF BlockedBy
    <3>5. CASE tx[t].pc \notin {"move", "write"}
      BY <3>1, <3>5 DEF BlockedBy
    <3> QED BY <3>2, <3>3, <3>4, <3>5
  <2> QED BY <1>1, <2>2 DEF WaitInv, WaitCycle, Circle
<1> QED BY <1>1, WaitInvariant, PTL
-----------------------------------------------------------------------------
(* The ledger.                                                             *)

\* What a reservation is asked for stays with its transaction.
AskedFor ==
  \A t \in Txns : tx[t].op = "reserve" => tx[t].agg.order \in Orders /\ tx[t].agg.lines \in Baskets

\* A candidate is built once, from what a caller asked for.
LEMMA AskedForKept == TypeOK /\ TxShape /\ AskedFor /\ [Next]_vars => AskedFor'
<1> SUFFICES ASSUME TypeOK, TxShape, AskedFor, [Next]_vars PROVE AskedFor'
  OBVIOUS
<1>t. tx \in [Txns -> TxType] /\ Baskets \subseteq Lines /\ \A u \in Txns : tx[u].agg \in Hold
  BY ConstantsAssumption DEF TypeOK, TxType, ConstantsAssumption
<1> DEFINE Asked(x) == x.op = "reserve" => x.agg.order \in Orders /\ x.agg.lines \in Baskets
<1>0. ASSUME NEW t \in Txns, NEW x, tx' = [tx EXCEPT ![t] = x], Asked(x)
      PROVE  AskedFor'
  BY <1>t, <1>0 DEF AskedFor
<1>1. ASSUME NEW t \in Txns, Begin(t) PROVE AskedFor'
  <2>1. ASSUME NEW r \in Reservations, NEW o \in Orders, NEW b \in Baskets, BeginReserve(t, r, o, b)
        PROVE  AskedFor'
    <3> DEFINE x == [IdleTx EXCEPT !.op = "reserve", !.pc = "read", !.id = r,
                       !.agg = [status |-> "held", version |-> 1, order |-> o,
                                lines |-> b, expires |-> clock + TTL]]
    <3>1. tx' = [tx EXCEPT ![t] = x] /\ x.agg.order = o /\ x.agg.lines = b
      BY <2>1 DEF BeginReserve, IdleTx
    <3> HIDE DEF x
    <3> QED BY <1>0, <3>1
  <2>2. ASSUME NEW op \in {"commit", "release"}, NEW r \in Reservations, BeginSettle(t, op, r)
        PROVE  AskedFor'
    <3> DEFINE x == [IdleTx EXCEPT !.op = op, !.pc = "read", !.id = r,
                                            !.now = IF op = "commit" THEN clock ELSE 0]
    <3>1. tx' = [tx EXCEPT ![t] = x] /\ x.op # "reserve"
      BY <2>2 DEF BeginSettle, IdleTx
    <3> HIDE DEF x
    <3> QED BY <1>0, <3>1
  <2>3. CASE BeginSweep(t)
    <3> DEFINE x == [IdleTx EXCEPT !.op = "sweep", !.pc = "read", !.now = clock]
    <3>1. tx' = [tx EXCEPT ![t] = x] /\ x.op # "reserve"
      BY <2>3 DEF BeginSweep, IdleTx
    <3> HIDE DEF x
    <3> QED BY <1>0, <3>1
  <2> QED BY <1>1, <2>1, <2>2, <2>3 DEF Begin
<1>2. ASSUME NEW t \in Txns, tx' = [tx EXCEPT ![t] = IdleTx] PROVE AskedFor'
  BY <1>0, <1>2 DEF IdleTx
<1>3. ASSUME NEW t \in Txns, NEW x, tx' = [tx EXCEPT ![t] = x], x.op = tx[t].op,
             x.agg = tx[t].agg \/ tx[t].op # "reserve"
      PROVE  AskedFor'
  BY <1>0, <1>3 DEF AskedFor
<1>4. ASSUME NEW t \in Txns, Statement(t) PROVE AskedFor'
  <2>1. CASE FindNoHold(t)
    <3> DEFINE x == [tx[t] EXCEPT !.pc = "move", !.todo = LineSKUs(tx[t].agg.lines)]
    <3>1. tx' = [tx EXCEPT ![t] = x] /\ x.op = tx[t].op /\ x.agg = tx[t].agg
      BY <1>t, <2>1 DEF FindNoHold, TxType
    <3> HIDE DEF x
    <3> QED BY <1>3, <3>1
  <2>2. CASE SettleMoves(t)
    <3> DEFINE x == [tx[t] EXCEPT !.pc = "move",
                       !.agg = [resv[tx[t].id] EXCEPT !.status = TargetStatus(tx[t].op)],
                       !.todo = LineSKUs(resv[tx[t].id].lines)]
    <3>1. tx' = [tx EXCEPT ![t] = x] /\ x.op = tx[t].op /\ tx[t].op # "reserve"
      BY <1>t, <2>2 DEF SettleMoves, TxType
    <3> HIDE DEF x
    <3> QED BY <1>3, <3>1
  <2>3. ASSUME NEW s \in SKUs, MoveStock(t, s) PROVE AskedFor'
    <3> DEFINE x == [tx[t] EXCEPT !.todo = tx[t].todo \ {s},
                                  !.pc = IF tx[t].todo = {s} THEN "write" ELSE "move"]
    <3>1. tx' = [tx EXCEPT ![t] = x] /\ x.op = tx[t].op /\ x.agg = tx[t].agg
      BY <1>t, <2>3 DEF MoveStock, TxType
    <3> HIDE DEF x
    <3> QED BY <1>3, <3>1
  <2>4. CASE InsertReservation(t) \/ UpdateReservation(t) \/ SweepDone(t)
    <3>1. \E p : tx' = [tx EXCEPT ![t].pc = p]
      BY <2>4 DEF InsertReservation, UpdateReservation, SweepDone
    <3>2. PICK p : tx' = [tx EXCEPT ![t].pc = p]
      BY <3>1
    <3> DEFINE x == [tx[t] EXCEPT !.pc = p]
    <3>3. tx' = [tx EXCEPT ![t] = x] /\ x.op = tx[t].op /\ x.agg = tx[t].agg
      BY <1>t, <3>2 DEF TxType
    <3> HIDE DEF x
    <3> QED BY <1>3, <3>3
  <2>5. ASSUME NEW B \in SUBSET Reservations, ClaimExpired(t, B) PROVE AskedFor'
    <3> DEFINE x == [tx[t] EXCEPT !.pc = "next", !.batch = B]
    <3>1. tx' = [tx EXCEPT ![t] = x] /\ x.op = tx[t].op /\ x.agg = tx[t].agg
      BY <1>t, <2>5 DEF ClaimExpired, TxType
    <3> HIDE DEF x
    <3> QED BY <1>3, <3>1
  <2>6. ASSUME NEW r \in Reservations, SweepNext(t, r) PROVE AskedFor'
    <3> DEFINE x == [tx[t] EXCEPT !.pc = "move", !.id = r, !.batch = tx[t].batch \ {r},
                       !.agg = [resv[r] EXCEPT !.status = "expired"],
                       !.todo = LineSKUs(resv[r].lines)]
    <3>1. tx' = [tx EXCEPT ![t] = x] /\ x.op = tx[t].op
      BY <1>t, <2>6 DEF SweepNext, TxType
    <3>2. tx[t].op # "reserve"
      BY <2>6 DEF SweepNext, TxShape, Shape
    <3> HIDE DEF x
    <3> QED BY <1>3, <3>1, <3>2
  <2>7. CASE \/ FindExistingHold(t) \/ SettleStays(t) \/ CommitTx(t) \/ InsertRefused(t) \/ UpdateRefused(t)
             \/ \E s \in SKUs : MoveRefused(t, s)
    BY <1>2, <2>7 DEF FindExistingHold, SettleStays, CommitTx, InsertRefused, UpdateRefused, MoveRefused,
                      PublishAndUnlock, UndoAndUnlock
  <2> QED BY <1>4, <2>1, <2>2, <2>3, <2>4, <2>5, <2>6, <2>7 DEF Statement
<1>5. ASSUME NEW t \in Txns, Rollback(t) \/ DeadlockVictim(t) PROVE AskedFor'
  BY <1>2, <1>5 DEF Rollback, DeadlockVictim, UndoAndUnlock
<1>6. CASE UNCHANGED tx
  BY <1>6 DEF AskedFor
<1> QED BY <1>1, <1>4, <1>5, <1>6 DEF Next, CreateStockItem, AdjustStock, Tick, FallQuiet, vars

\* The ledger starts empty.
LEMMA LedgerInit == Init => Ledger!LedgerInit
  BY DEF Init, Ledger!LedgerInit, NoStock, NoHold

\* A step that leaves the committed rows alone is none of the ledger.
LEMMA LedgerRests ==
  ASSUME UNCHANGED <<stock, resv>>
  PROVE  UNCHANGED Ledger!ledger
  BY DEF Ledger!ledger

\* The COMMIT of a reservation takes all its lines at once.
LEMMA LedgerTakes ==
  ASSUME IndInv, RowInv', AskedFor, NEW t \in Txns, CommitTx(t), tx[t].op = "reserve"
  PROVE  \E r \in Reservations, o \in Orders, b \in Baskets : Ledger!Take(r, o, b)
<1> SUFFICES ASSUME NEW i, i = tx[t].id, NEW o, o = tx[t].agg.order, NEW b, b = tx[t].agg.lines
             PROVE  \E r \in Reservations, p \in Orders, c \in Baskets : Ledger!Take(r, p, c)
  OBVIOUS
<1>t. TypeOK /\ TypeOK' /\ RowInv /\ tx[t].pc = "commit" /\ o \in Orders /\ b \in Baskets
  BY IndRows DEF IndInv, RowInv, CommitTx, AskedFor
<1>1. /\ i \in Reservations /\ resv[i].status = "none" /\ resvOwner[i] = t /\ resvDraft[i] = tx[t].agg
      /\ tx[t].agg.status = "held" /\ tx[t].todo = {}
      /\ \A r \in Reservations : resv'[r] = IF r = i THEN tx[t].agg ELSE resv[r]
  BY <1>t, Committed
<1>2. ASSUME NEW u \in Reservations, resv[u].status = "held", resv[u].order = o PROVE FALSE
  <2>1. resvDraft[u].order = resv[u].order
    BY <1>t, <1>2, OrderKept
  <2>2. u = i
    BY <1>1, <1>2, <2>1 DEF IndInv, OneLivePerOrder
  <2> QED BY <1>1, <1>2, <2>2
<1>3. ASSUME NEW s \in SKUs
      PROVE  stock'[s].available = stock[s].available - b[s] /\ stock[s].available >= b[s]
  <2>1. Taken(t, s) = b[s]
    BY <1>t, <1>1 DEF Taken, InStock
  <2>2. Back(t, s) = 0
    <3>1. Moved(t, s) = {}
      BY DEF Moved, Settling
    <3> QED BY <3>1, UnitsBounds DEF Back
  <2>3. stock'[s].available = stock[s].available - b[s] + 0
    BY <2>1, <2>2, CommittedStock
  <2>4. stock[s].available \in Nat /\ stock'[s].available \in Nat /\ b[s] \in Nat
    BY <1>t, ConstantsAssumption DEF TypeOK, StockRow, ConstantsAssumption, Lines
  <2> QED BY <2>3, <2>4
<1>4. Ledger!Take(i, o, b)
  <2>1. [s \in SKUs |-> stock'[s].available] = [s \in SKUs |-> [z \in SKUs |-> stock[z].available][s] - b[s]]
    BY <1>3
  <2>2. [r \in Reservations |-> resv'[r].status] = [[r \in Reservations |-> resv[r].status] EXCEPT ![i] = "held"]
    BY <1>1
  <2>3. [r \in Reservations |-> resv'[r].order] = [[r \in Reservations |-> resv[r].order] EXCEPT ![i] = o]
    BY <1>1
  <2>4. [r \in Reservations |-> resv'[r].lines] = [[r \in Reservations |-> resv[r].lines] EXCEPT ![i] = b]
    BY <1>1
  <2> QED BY <1>1, <1>2, <1>3, <2>1, <2>2, <2>3, <2>4 DEF Ledger!Take
<1> QED BY <1>t, <1>1, <1>4

\* What the COMMIT of a transaction that ends holds does to them.
LEMMA LedgerEnds ==
  ASSUME IndInv, NEW t \in Txns, CommitTx(t), tx[t].op # "reserve",
         NEW B \in SUBSET Reservations, \A r \in Reservations : r \in B <=> resvOwner[r] = t
  PROVE  /\ \A r \in B : resv[r].status = "held"
         /\ [r \in Reservations |-> resv'[r].status]
              = [r \in Reservations |-> IF r \in B THEN TargetStatus(tx[t].op) ELSE resv[r].status]
         /\ [r \in Reservations |-> resv'[r].order] = [r \in Reservations |-> resv[r].order]
         /\ [r \in Reservations |-> resv'[r].lines] = [r \in Reservations |-> resv[r].lines]
         /\ \A s \in SKUs : stock'[s].available = stock[s].available
                              + IF tx[t].op = "commit" THEN 0 ELSE Cardinality(Units(B, s))
<1>t. TypeOK /\ RowInv /\ tx[t].pc = "commit"
  BY IndRows DEF IndInv, CommitTx
<1>1. /\ tx[t].op \in {"commit", "release", "sweep"}
      /\ tx[t].todo = {} /\ tx[t].batch = {}
      /\ \A r \in Reservations : resvOwner[r] = t => resv[r].status = "held" /\ resvDraft[r] = Ended(t, r)
      /\ \A r \in Reservations : resv'[r] = IF r \in B THEN resvDraft[r] ELSE resv[r]
  BY <1>t, Committed
<1>2. \A r \in Reservations : /\ resv'[r].status = IF r \in B THEN TargetStatus(tx[t].op) ELSE resv[r].status
                              /\ resv'[r].order = resv[r].order
                              /\ resv'[r].lines = resv[r].lines
  <2>1. \A r \in Reservations : /\ Ended(t, r).status = TargetStatus(tx[t].op)
                                /\ Ended(t, r).order = resv[r].order
                                /\ Ended(t, r).lines = resv[r].lines
    BY <1>t DEF Ended, TypeOK, Hold
  <2> QED BY <1>1, <2>1
<1>3. ASSUME NEW s \in SKUs
      PROVE  stock'[s].available = stock[s].available
               + IF tx[t].op = "commit" THEN 0 ELSE Cardinality(Units(B, s))
  <2>1. Moved(t, s) = B
    <3>1. CASE tx[t].op = "sweep"
      BY <1>t, <1>1, <3>1 DEF Moved, Settling, ToSweep
    <3>2. CASE tx[t].op # "sweep"
      <4>1. tx[t].id \in Reservations /\ \A r \in Reservations : resvOwner[r] = t <=> r = tx[t].id
        BY <1>t, <3>2, Committed
      <4> QED BY <1>t, <1>1, <3>2, <4>1 DEF Moved, Settling, InStock
    <3> QED BY <3>1, <3>2
  <2>2. Back(t, s) = Cardinality(Units(B, s)) /\ Back(t, s) \in Nat
    BY <2>1, UnitsFinite DEF Back
  <2>3. Taken(t, s) = 0 /\ stock[s].available \in Nat
    BY <1>t DEF Taken, TypeOK, StockRow
  <2>4. stock'[s].available = stock[s].available - 0 + IF tx[t].op = "commit" THEN 0 ELSE Cardinality(Units(B, s))
    BY <2>2, <2>3, CommittedStock
  <2> QED BY <2>3, <2>4
<1> QED BY <1>1, <1>2, <1>3

\* The COMMIT of a sale, a release or a sweep is one step of the ledger.
LEMMA LedgerGivesBack ==
  ASSUME IndInv, NEW t \in Txns, CommitTx(t), tx[t].op # "reserve"
  PROVE  \/ \E r \in Reservations : Ledger!Sell(r) \/ Ledger!GiveBack(r)
         \/ \E B \in SUBSET Reservations : Ledger!Sweep(B)
<1> SUFFICES ASSUME NEW B, B = {r \in Reservations : resvOwner[r] = t}, NEW i, i = tx[t].id
             PROVE  \/ \E r \in Reservations : Ledger!Sell(r) \/ Ledger!GiveBack(r)
                    \/ \E S \in SUBSET Reservations : Ledger!Sweep(S)
  OBVIOUS
<1>t. TypeOK /\ RowInv
  BY IndRows DEF IndInv
<1>0. B \in SUBSET Reservations /\ \A r \in Reservations : r \in B <=> resvOwner[r] = t
  OBVIOUS
<1>1. /\ \A r \in B : resv[r].status = "held"
      /\ [r \in Reservations |-> resv'[r].status]
           = [r \in Reservations |-> IF r \in B THEN TargetStatus(tx[t].op) ELSE resv[r].status]
      /\ [r \in Reservations |-> resv'[r].order] = [r \in Reservations |-> resv[r].order]
      /\ [r \in Reservations |-> resv'[r].lines] = [r \in Reservations |-> resv[r].lines]
      /\ \A s \in SKUs : stock'[s].available = stock[s].available
                           + IF tx[t].op = "commit" THEN 0 ELSE Cardinality(Units(B, s))
  BY <1>0, LedgerEnds
<1>2. /\ tx[t].op \in {"commit", "release", "sweep"}
      /\ tx[t].op # "sweep" => i \in Reservations /\ B = {i}
  BY <1>t, Committed
<1>3. CASE tx[t].op = "sweep"
  <2>1. \A s \in SKUs : Ledger!Cardinality(Ledger!UnitsOf(B, s)) = Cardinality(Units(B, s))
    <3>1. \A s \in SKUs : Ledger!UnitsOf(B, s) = Units(B, s)
      BY <1>0 DEF Ledger!UnitsOf, Units
    <3>2. \A S : Ledger!Cardinality(S) = Cardinality(S)
      BY DEF Ledger!Cardinality, Cardinality
    <3> QED BY <3>1, <3>2
  <2>2. [s \in SKUs |-> stock'[s].available]
          = [s \in SKUs |-> [z \in SKUs |-> stock[z].available][s] + Ledger!Cardinality(Ledger!UnitsOf(B, s))]
    BY <1>1, <1>3, <2>1
  <2>3. Ledger!Sweep(B)
    <3>1. [r \in Reservations |-> resv'[r].status]
            = [r \in Reservations |-> IF r \in B THEN "expired" ELSE [u \in Reservations |-> resv[u].status][r]]
      BY <1>1, <1>3 DEF TargetStatus
    <3>2. \A r \in B : [u \in Reservations |-> resv[u].status][r] = "held"
      BY <1>0, <1>1
    <3> QED BY <1>1, <2>2, <3>1, <3>2 DEF Ledger!Sweep
  <2> QED BY <1>0, <2>3
<1>4. CASE tx[t].op = "commit"
  <2>1. [s \in SKUs |-> stock'[s].available] = [s \in SKUs |-> stock[s].available]
    BY <1>t, <1>1, <1>4 DEF TypeOK, StockRow
  <2>2. Ledger!Sell(i)
    BY <1>1, <1>2, <1>4, <2>1 DEF Ledger!Sell, TargetStatus
  <2> QED BY <1>2, <1>4, <2>2
<1>5. CASE tx[t].op = "release"
  <2>1. \A s \in SKUs : Cardinality(Units({i}, s)) = resv[i].lines[s]
    BY <1>t, <1>2, <1>5, UnitsOne
  <2>2. [s \in SKUs |-> stock'[s].available]
          = [s \in SKUs |-> [z \in SKUs |-> stock[z].available][s] + [r \in Reservations |-> resv[r].lines][i][s]]
    BY <1>1, <1>2, <1>5, <2>1
  <2>3. Ledger!GiveBack(i)
    BY <1>1, <1>2, <1>5, <2>2 DEF Ledger!GiveBack, TargetStatus
  <2> QED BY <1>2, <1>5, <2>3
<1> QED BY <1>2, <1>3, <1>4, <1>5

\* A delivery, a write-off and a first count.
LEMMA LedgerRecounts ==
  ASSUME TypeOK', NEW s \in SKUs,
         (\E n \in 0..MaxStock : CreateStockItem(s, n)) \/ (\E d \in Deltas : AdjustStock(s, d))
  PROVE  Ledger!Recount(s)
<1>1. UNCHANGED resv /\ \E n : stock' = [stock EXCEPT ![s].available = n]
  BY DEF CreateStockItem, AdjustStock, resvVars
<1>2. \A z \in SKUs \ {s} : stock'[z] = stock[z]
  BY <1>1
<1>3. stock'[s].available >= 0
  BY DEF TypeOK, StockRow
<1> QED BY <1>1, <1>2, <1>3 DEF Ledger!Recount

\* Every COMMIT of the inventory service is one atomic step of the ledger, and
\* no other statement can be seen from outside: no caller sees half a basket, a
\* hold that ends twice, or units that come back from a sale.
THEOREM LedgerIsImplemented == Spec => ImplementsLedger
<1>1. Init => AskedFor
  BY DEF Init, AskedFor, IdleTx
<1>2. ASSUME IndInv, AskedFor, [Next]_vars PROVE [Ledger!LedgerNext]_(Ledger!ledger)
  <2>0. RowInv'
    BY <1>2, IndRows, NextRows
  <2>1. ASSUME NEW t \in Txns, CommitTx(t) PROVE Ledger!LedgerNext
    BY <1>2, <2>0, <2>1, LedgerTakes, LedgerGivesBack DEF Ledger!LedgerNext
  <2>2. CASE \E s \in SKUs : (\E n \in 0..MaxStock : CreateStockItem(s, n)) \/ (\E d \in Deltas : AdjustStock(s, d))
    BY <2>0, <2>2, LedgerRecounts DEF Ledger!LedgerNext, RowInv
  <2>3. ASSUME NEW t \in Txns, Begin(t) \/ Rollback(t) \/ DeadlockVictim(t) PROVE UNCHANGED <<stock, resv>>
    BY <2>3 DEF Begin, BeginReserve, BeginSettle, BeginSweep, Rollback, DeadlockVictim, UndoAndUnlock,
                stockVars, resvVars
  <2>4. ASSUME NEW t \in Txns, Statement(t), ~CommitTx(t) PROVE UNCHANGED <<stock, resv>>
    BY <2>4 DEF Statement, FindNoHold, FindExistingHold, InsertReservation, InsertRefused,
                SettleMoves, SettleStays, MoveStock, MoveRefused, UpdateReservation,
                UpdateRefused, ClaimExpired, SweepNext, SweepDone, UndoAndUnlock, stockVars, resvVars
  <2>5. CASE Tick \/ FallQuiet \/ UNCHANGED vars
    BY <2>5, LedgerRests DEF Tick, FallQuiet, vars, stockVars, resvVars
  <2> QED BY <1>2, <2>1, <2>2, <2>3, <2>4, <2>5, LedgerRests DEF Next
<1>3. IndInv /\ AskedFor /\ [Next]_vars => AskedFor'
  BY AskedForKept DEF IndInv
<1> QED BY <1>1, <1>2, <1>3, InitCounts, NextCounts, LedgerInit, PTL
        DEF Spec, ImplementsLedger, Ledger!LedgerSpec
=============================================================================
