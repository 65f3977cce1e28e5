----------------------------- MODULE OrderSaga -----------------------------
(***************************************************************************)
(* What becomes of an order once it is placed: a payment and the payment   *)
(* window race for it, and the outcome travels as an event to the call     *)
(* that sells the held stock or gives it back, while the hold runs out of  *)
(* time on its own.                                                        *)
(*                                                                         *)
(* The parts checked elsewhere are seen through what they promise: Checkout *)
(* places an order under a hold, the outbox and the consumer deliver every *)
(* event at least once and dead-letter what fails MaxAttempts times, the   *)
(* inventory service settles a hold once.  Time is in ticks of one clock.  *)
(* A sweep that is due begins, and a transaction that is open ends, before *)
(* the next tick; checkouts and payments take as long as they take.  How   *)
(* long the margin between the window and the TTL allows them is           *)
(* CheckoutLag and Lag, and `late' remembers that one took longer.         *)
(***************************************************************************)
EXTENDS Naturals, FiniteSets

CONSTANTS Orders,
          Window,       \* Policy.PaymentWindow
          TTL,          \* INVENTORY_RESERVATION_TTL
          Interval,     \* timeout worker: wait between sweeps
          MaxBackoff,   \* timeout worker: longest wait after a failed sweep
          BatchSize,    \* timeout worker: orders per sweep
          CheckoutLag,  \* margin: from taking the hold to writing the order
          Lag,          \* margin: from the start of a payment to the end of what it sets off
          MaxTime,      \* bound: the clock
          MaxFailures   \* bound: failed sweeps, failed handlers and dead letters

ASSUME SagaAssumption ==
  /\ IsFiniteSet(Orders)
  /\ {Window, Interval, BatchSize} \subseteq Nat \ {0}
  /\ {TTL, MaxBackoff, CheckoutLag, Lag, MaxTime, MaxFailures} \subseteq Nat
  /\ Interval <= MaxBackoff

VARIABLES now,
          status,    \* orders.status
          created,   \* orders.created_at
          hold,      \* the reservation, as inventory has it
          reserved,  \* when it was taken
          pay,       \* the order's payment attempt, as the payment service has it
          started,   \* when that attempt was started
          locked,    \* orders whose row MarkPaid's open transaction has locked
          events,    \* OrderPaid and OrderCancelled events raised
          handled,   \* deliveries claimed in the inbox
          dead,      \* deliveries on a dead-letter topic
          batch,     \* orders the open sweep has claimed
          sweep,     \* the timeout worker: "wait" or "tx"
          wake,      \* when it sweeps next
          backoff,   \* what it will wait after a failed sweep
          late,      \* whether a checkout or a payment took longer than its margin
          failures

vars == <<now, status, created, hold, reserved, pay, started, locked, events, handled, dead,
          batch, sweep, wake, backoff, late, failures>>

Deliveries == {"PaymentSucceeded", "OrderPaid", "OrderCancelled"} \X Orders

TypeOK ==
  /\ now \in 0..MaxTime
  /\ status \in [Orders -> {"none", "pending_payment", "paid", "cancelled"}]
  /\ created \in [Orders -> 0..MaxTime]
  /\ hold \in [Orders -> {"none", "held", "committed", "released", "expired"}]
  /\ reserved \in [Orders -> 0..MaxTime]
  /\ pay \in [Orders -> {"none", "pending", "succeeded"}]
  /\ started \in [Orders -> 0..MaxTime]
  /\ locked \subseteq Orders
  /\ events \subseteq Deliveries
  /\ handled \subseteq Deliveries
  /\ dead \subseteq Deliveries
  /\ batch \subseteq Orders
  /\ Cardinality(batch) <= BatchSize
  /\ sweep \in {"wait", "tx"}
  /\ wake \in Nat
  /\ backoff \in Interval..MaxBackoff
  /\ late \in BOOLEAN
  /\ failures \in 0..MaxFailures

Init ==
  /\ now = 0
  /\ status = [o \in Orders |-> "none"]
  /\ created = [o \in Orders |-> 0]
  /\ hold = [o \in Orders |-> "none"]
  /\ reserved = [o \in Orders |-> 0]
  /\ pay = [o \in Orders |-> "none"]
  /\ started = [o \in Orders |-> 0]
  /\ locked = {} /\ batch = {}
  /\ events = {} /\ handled = {} /\ dead = {}
  /\ sweep = "wait" /\ wake = 0 /\ backoff = Interval
  /\ late = FALSE
  /\ failures = 0

order     == <<status, created, events>>
inventory == <<hold, reserved>>
payment   == <<pay, started>>
delivery  == <<handled, dead>>
worker    == <<batch, sweep, wake, backoff>>
clock     == <<now, late>>

Fail == failures < MaxFailures /\ failures' = failures + 1

\* A delivery that still has to be handled.
Open(d) ==
  /\ d \notin handled \cup dead
  /\ IF d[1] = "PaymentSucceeded" THEN pay[d[2]] = "succeeded" ELSE d \in events
-----------------------------------------------------------------------------
(* Checkout and payment.                                                   *)

ReserveStock(o) ==
  /\ hold[o] = "none"
  /\ hold' = [hold EXCEPT ![o] = "held"]
  /\ reserved' = [reserved EXCEPT ![o] = now]
  /\ UNCHANGED <<clock, order, payment, locked, delivery, worker, failures>>

PlaceOrder(o) ==
  /\ hold[o] # "none"
  /\ status[o] = "none"
  /\ status' = [status EXCEPT ![o] = "pending_payment"]
  /\ created' = [created EXCEPT ![o] = now]
  /\ UNCHANGED <<clock, inventory, payment, locked, events, delivery, worker, failures>>

\* The payment service starts an attempt for an order it read as payable, one
\* at a time.
InitiatePayment(o) ==
  /\ status[o] = "pending_payment"
  /\ pay[o] = "none"
  /\ pay' = [pay EXCEPT ![o] = "pending"]
  /\ started' = [started EXCEPT ![o] = now]
  /\ UNCHANGED <<clock, order, inventory, locked, delivery, worker, failures>>

\* The provider's answer.  A declined attempt leaves the order open to another.
SettlePayment(o, outcome) ==
  /\ pay[o] = "pending"
  /\ pay' = [pay EXCEPT ![o] = outcome]
  /\ UNCHANGED <<clock, order, inventory, started, locked, delivery, worker, failures>>
-----------------------------------------------------------------------------
(* The worker: MarkPaid.                                                   *)

\* The claim in the inbox, and the order read FOR UPDATE: this waits while a
\* sweep has the row.
MarkPaidBegins(o) ==
  /\ Open(<<"PaymentSucceeded", o>>)
  /\ o \notin locked \cup batch
  /\ locked' = locked \cup {o}
  /\ UNCHANGED <<clock, order, inventory, payment, delivery, worker, failures>>

\* Update: the new status of these orders and what it announces, with one COMMIT.
Update(S, to, event) ==
  /\ status' = [o \in Orders |-> IF o \in S THEN to ELSE status[o]]
  /\ events' = events \cup {<<event, o>> : o \in S}

\* Bug variant: the aggregate does not refuse a cancelled order.
MarkPaidAnyway(o) ==
  /\ o \in locked
  /\ locked' = locked \ {o}
  /\ Update({o}, "paid", "OrderPaid")
  /\ handled' = handled \cup {<<"PaymentSucceeded", o>>}
  /\ UNCHANGED <<clock, created, inventory, payment, dead, worker, failures>>

\* order.MarkPaid moves a pending order, and the claim, the status and
\* OrderPaid commit together.
MarkPaid(o) ==
  /\ o \in locked
  /\ status[o] = "pending_payment"
  /\ locked' = locked \ {o}
  /\ Update({o}, "paid", "OrderPaid")
  /\ handled' = handled \cup {<<"PaymentSucceeded", o>>}
  /\ UNCHANGED <<clock, created, inventory, payment, dead, worker, failures>>

\* A cancelled order refuses every attempt, and the delivery is dead-lettered.
MarkPaidRefused(o) ==
  /\ o \in locked
  /\ status[o] = "cancelled"
  /\ locked' = locked \ {o}
  /\ dead' = dead \cup {<<"PaymentSucceeded", o>>}
  /\ UNCHANGED <<clock, order, inventory, payment, handled, worker, failures>>

\* Bug variant: the claim is not part of the transaction that fails.
MarkPaidFailsClaimed(o) ==
  /\ o \in locked
  /\ Fail
  /\ locked' = locked \ {o}
  /\ handled' = handled \cup {<<"PaymentSucceeded", o>>}
  /\ UNCHANGED <<clock, order, inventory, payment, dead, worker>>

\* The transaction fails: the delivery is tried again, or was the last attempt.
MarkPaidFails(o) ==
  /\ o \in locked
  /\ Fail
  /\ locked' = locked \ {o}
  /\ dead' \in {dead, dead \cup {<<"PaymentSucceeded", o>>}}
  /\ UNCHANGED <<clock, order, inventory, payment, handled, worker>>
-----------------------------------------------------------------------------
(* The timeout worker.                                                     *)

\* Bug variant: the boundary is exclusive.
StaleAfter(o) == status[o] = "pending_payment" /\ created[o] + Window < now

\* ClaimStaleOrders' predicate and Order.Expire's agree: inclusive.
Stale(o) == status[o] = "pending_payment" /\ created[o] + Window <= now

\* The oldest BatchSize stale orders that nobody has locked.
IsBatch(S) ==
  /\ S \subseteq {o \in Orders \ locked : Stale(o)}
  /\ Cardinality(S) <= BatchSize
  /\ \A o \in Orders \ (S \cup locked) : Stale(o) =>
       Cardinality(S) = BatchSize /\ \A s \in S : created[s] <= created[o]

ClaimStaleOrders ==
  /\ sweep = "wait"
  /\ wake <= now
  /\ \E S \in SUBSET Orders : IsBatch(S) /\ batch' = S
  /\ sweep' = "tx"
  /\ UNCHANGED <<clock, order, inventory, payment, locked, delivery, wake, backoff, failures>>

\* Every claimed order is cancelled and announced in one transaction.  A full
\* batch is followed by another at once.
ExpireStaleOrders ==
  /\ sweep = "tx"
  /\ Update(batch, "cancelled", "OrderCancelled")
  /\ batch' = {}
  /\ sweep' = "wait"
  /\ wake' = IF Cardinality(batch) = BatchSize THEN now ELSE now + Interval
  /\ backoff' = Interval
  /\ UNCHANGED <<clock, created, inventory, payment, locked, delivery, failures>>

\* The wait before the next sweep doubles.
BacksOff ==
  /\ sweep = "tx"
  /\ Fail
  /\ batch' = {}
  /\ sweep' = "wait"
  /\ wake' = now + backoff
  /\ backoff' = IF 2 * backoff > MaxBackoff THEN MaxBackoff ELSE 2 * backoff
  /\ UNCHANGED <<clock, inventory, payment, locked, delivery>>

\* A sweep that fails rolls back.
SweepFails == BacksOff /\ UNCHANGED order

\* Its COMMIT took effect and the answer was lost: the worker takes it for a failure.
SweepAnswerLost == BacksOff /\ Update(batch, "cancelled", "OrderCancelled") /\ UNCHANGED created
-----------------------------------------------------------------------------
(* The worker: CommitReservation and ReleaseReservation.                   *)

hasExpired(o) == reserved[o] + TTL <= now

\* What inventory answers, and what the call leaves behind.
Committable(o) == hold[o] = "committed" \/ (hold[o] = "held" /\ ~hasExpired(o))
Releasable(o)  == hold[o] # "committed"

Sold(o)      == [hold EXCEPT ![o] = "committed"]
GivenBack(o) == [hold EXCEPT ![o] = IF @ = "held" THEN "released" ELSE @]

\* The claim commits after the call, or fails to and the event comes again.
Recorded(d) ==
  \/ handled' = handled \cup {d} /\ UNCHANGED failures
  \/ Fail /\ UNCHANGED handled

CommitReservation(o) ==
  /\ Open(<<"OrderPaid", o>>)
  /\ Committable(o)
  /\ hold' = Sold(o)
  /\ Recorded(<<"OrderPaid", o>>)
  /\ UNCHANGED <<clock, order, reserved, payment, locked, dead, worker>>

ReleaseReservation(o) ==
  /\ Open(<<"OrderCancelled", o>>)
  /\ Releasable(o)
  /\ hold' = GivenBack(o)
  /\ Recorded(<<"OrderCancelled", o>>)
  /\ UNCHANGED <<clock, order, reserved, payment, locked, dead, worker>>

\* Inventory refuses for good: every attempt fails.
CommitRefused(o) ==
  /\ Open(<<"OrderPaid", o>>)
  /\ ~Committable(o)
  /\ dead' = dead \cup {<<"OrderPaid", o>>}
  /\ UNCHANGED <<clock, order, inventory, payment, locked, handled, worker, failures>>

\* An outage outlasts the attempts.
DeadLettered(d) ==
  /\ d[1] # "PaymentSucceeded"
  /\ Open(d)
  /\ Fail
  /\ dead' = dead \cup {d}
  /\ UNCHANGED <<clock, order, inventory, payment, locked, handled, worker>>

\* The reaper (Inventory!ExpireReservations).
ExpireReservation(o) ==
  /\ hold[o] = "held"
  /\ hasExpired(o)
  /\ hold' = [hold EXCEPT ![o] = "expired"]
  /\ UNCHANGED <<clock, order, reserved, payment, locked, delivery, worker, failures>>
-----------------------------------------------------------------------------
(* Time.                                                                   *)

\* A payment that is under way, or whose outcome is.
Unfinished(o) ==
  \/ pay[o] = "pending"
  \/ Open(<<"PaymentSucceeded", o>>)
  \/ Open(<<"OrderPaid", o>>)

Overdue(o) ==
  \/ hold[o] # "none" /\ status[o] = "none" /\ reserved[o] + CheckoutLag <= now
  \/ Unfinished(o) /\ started[o] + Lag <= now

\* The clock moves on while payments are pending and events on their way.
Tick ==
  /\ now < MaxTime
  /\ sweep = "wait" /\ now < wake
  /\ locked = {}
  /\ now' = now + 1
  /\ late' = (late \/ \E o \in Orders : Overdue(o))
  /\ UNCHANGED <<order, inventory, payment, locked, delivery, worker, failures>>

Progress(o) ==
  \/ MarkPaidBegins(o) \/ MarkPaid(o) \/ MarkPaidRefused(o)
  \/ CommitReservation(o) \/ ReleaseReservation(o) \/ CommitRefused(o)
  \/ ExpireReservation(o)

Next ==
  \/ \E o \in Orders :
       \/ ReserveStock(o) \/ PlaceOrder(o) \/ InitiatePayment(o)
       \/ SettlePayment(o, "succeeded") \/ SettlePayment(o, "none")
       \/ Progress(o) \/ MarkPaidFails(o)
  \/ ClaimStaleOrders \/ ExpireStaleOrders \/ SweepFails \/ SweepAnswerLost
  \/ \E d \in Deliveries : DeadLettered(d)
  \/ Tick

\* Consumers, the reaper and the timeout worker keep running and the clock keeps
\* going.  Nobody has to start a payment, and the provider none to settle.
Fairness ==
  /\ \A o \in Orders : WF_vars(Progress(o))
  /\ WF_vars(ClaimStaleOrders) /\ WF_vars(ExpireStaleOrders)
  /\ WF_vars(Tick)

Spec     == Init /\ [][Next]_vars
FairSpec == Spec /\ Fairness
-----------------------------------------------------------------------------
(* Properties.                                                             *)

\* An order is announced as paid or as cancelled, never as both, whichever of
\* the payment and the timeout gets to its row first; so stock is never sold
\* under one outcome and given back under the other.
OneOutcome ==
  \A o \in Orders :
    /\ <<"OrderPaid", o>> \in events => <<"OrderCancelled", o>> \notin events
    /\ hold[o] = "committed" => status[o] = "paid"

\* The same with the type invariant: what an order's row, its hold, its payment
\* and its events may be together.
OutcomesAgree == TypeOK /\ OneOutcome

\* The coupling of the two services' clocks: if the payment window is shorter
\* than the reservation's TTL by a sweep interval and what checkout and payment
\* take, and nothing fails or takes longer, then no paid order loses its hold.
MarginSuffices ==
  CheckoutLag + Window + Interval + Lag <= TTL /\ failures = 0 /\ ~late =>
    \A o \in Orders : <<"OrderPaid", o>> \notin dead

\* Nothing is left over.  Money that was taken is never forgotten: a successful
\* payment ends with its order paid or in front of a person, on the dead-letter topic.
\* And every order comes to an end although its payment may stay pending for ever, and
\* sweeps fail, skip rows that are being paid for and take one batch at a time; the
\* premise only leaves the bounded clock room for the waits.
EverythingSettles ==
  [] \A o \in Orders :
       /\ pay[o] = "succeeded" => <>(status[o] = "paid" \/ <<"PaymentSucceeded", o>> \in dead)
       /\ /\ status[o] = "pending_payment"
          /\ created[o] + Window + (MaxFailures + 1) * MaxBackoff <= MaxTime
          => <>(status[o] # "pending_payment")
=============================================================================
