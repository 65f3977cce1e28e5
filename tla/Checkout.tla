----------------------------- MODULE Checkout ------------------------------
(***************************************************************************)
(* OrderService.Checkout: a client's idempotency key, a hold taken in the  *)
(* inventory service, and the transaction that writes the claim, the order *)
(* and its event, with the compensating release.                           *)
(*                                                                         *)
(* A client that retries makes another call with the same key, possibly    *)
(* while the first one still runs.  Each call mints one order id and takes *)
(* at most one hold under it, so the call itself names both.  Keys are     *)
(* (user_id, key) pairs and carts stand for request hashes.  The inventory *)
(* service is seen through its answers: a hold is taken, refused, or the   *)
(* call times out and may still take effect later.                         *)
(***************************************************************************)
EXTENDS FiniteSets

CONSTANTS Calls,   \* Checkout calls (bound), each with the order id it mints
          Keys,    \* idempotency keys
          Carts,   \* requests, as hashRequest tells them apart
          KeyOf,   \* the key each call carries
          CartOf,  \* the cart each call carries
          None

ASSUME CheckoutAssumption ==
  /\ IsFiniteSet(Calls)
  /\ KeyOf \in [Calls -> Keys]
  /\ CartOf \in [Calls -> Carts]
  /\ None \notin Calls

VARIABLES pc,         \* where each call is
          claims,     \* committed idempotency_keys rows: the order each key names
          inserting,  \* the transaction that has inserted a key and not ended
          orders,     \* committed orders, each written with its OrderPlaced event
          holds,      \* the reservation taken under each order id
          replay,     \* the order a call that lost its key will answer with
          answer,     \* the order a call answered its client with
          wire,       \* requests the caller stopped waiting for, still under way
          faults      \* history: what went wrong around each call

checkoutVars == <<pc, claims, inserting, orders, holds, replay, answer, wire, faults>>

PCs    == {"idle", "replay", "price", "reserve", "claim", "create", "answer", "release", "done"}
Faults == {"reserveLost", "commitLost", "crash", "releaseFailed"}

CheckoutTypeOK ==
  /\ pc \in [Calls -> PCs]
  /\ claims \in [Keys -> Calls \cup {None}]
  /\ inserting \in [Keys -> Calls \cup {None}]
  /\ orders \subseteq Calls
  /\ holds \in [Calls -> {"none", "held", "released", "expired"}]
  /\ replay \in [Calls -> Calls \cup {None}]
  /\ answer \in [Calls -> Calls \cup {None}]
  /\ wire \in [Calls -> SUBSET {"reserve", "release"}]
  /\ faults \in [Calls -> SUBSET Faults]

CheckoutInit ==
  /\ pc = [c \in Calls |-> "idle"]
  /\ claims = [k \in Keys |-> None]
  /\ inserting = [k \in Keys |-> None]
  /\ orders = {}
  /\ holds = [c \in Calls |-> "none"]
  /\ replay = [c \in Calls |-> None]
  /\ answer = [c \in Calls |-> None]
  /\ wire = [c \in Calls |-> {}]
  /\ faults = [c \in Calls |-> {}]

Goto(c, from, to) == pc[c] = from /\ pc' = [pc EXCEPT ![c] = to]
Note(c, f) == faults' = [faults EXCEPT ![c] = @ \cup {f}]

Claim(c) == claims[KeyOf[c]]
\* The stored request_hash is the one of the call that claimed the key.
SameRequest(c) == CartOf[Claim(c)] = CartOf[c]

database == <<claims, inserting, orders>>
outside  == <<holds, wire>>
result   == <<replay, answer>>
-----------------------------------------------------------------------------
(* Before the hold.                                                        *)

\* Bad input is refused before this; it leaves no trace.
Begin(c) == Goto(c, "idle", "replay") /\ UNCHANGED <<database, outside, result, faults>>

\* replay: the key is free, as far as a read outside any transaction can tell.
ReplayFree(c) ==
  /\ Claim(c) = None
  /\ Goto(c, "replay", "price")
  /\ UNCHANGED <<database, outside, result, faults>>

\* replay: the key was answered, and FindByID loads that order.
ReplayAnswered(c) ==
  /\ Claim(c) # None
  /\ SameRequest(c)
  /\ Goto(c, "replay", "done")
  /\ answer' = [answer EXCEPT ![c] = Claim(c)]
  /\ UNCHANGED <<database, outside, replay, faults>>

\* replay: IDEMPOTENCY_KEY_REUSED.
ReplayReused(c) ==
  /\ Claim(c) # None
  /\ ~SameRequest(c)
  /\ Goto(c, "replay", "done")
  /\ UNCHANGED <<database, outside, result, faults>>

\* replay: a read fails, of the key or of the order it names.
ReplayFails(c) == Goto(c, "replay", "done") /\ UNCHANGED <<database, outside, result, faults>>

\* price: every line is for sale, or the catalog fails or refuses one.
Priced(c)     == Goto(c, "price", "reserve") /\ UNCHANGED <<database, outside, result, faults>>
NotPriced(c)  == Goto(c, "price", "done") /\ UNCHANGED <<database, outside, result, faults>>
-----------------------------------------------------------------------------
(* inventory.Reserve and, on the way out, inventory.Release.               *)

Reserved(c) ==
  /\ Goto(c, "reserve", "claim")
  /\ holds' = [holds EXCEPT ![c] = "held"]
  /\ UNCHANGED <<database, wire, result, faults>>

ReserveRefused(c) == Goto(c, "reserve", "done") /\ UNCHANGED <<database, outside, result, faults>>

\* The deadline passes with the request under way; ReserveStock is not one of
\* the methods the client retries.
ReserveTimesOut(c) ==
  /\ Goto(c, "reserve", "done")
  /\ wire' = [wire EXCEPT ![c] = {"reserve"}]
  /\ Note(c, "reserveLost")
  /\ UNCHANGED <<database, holds, result>>

\* Whoever answers next: the order of the call that won the key, if any and if
\* FindByID can load it.
FinishRelease(c) ==
  /\ Goto(c, "release", "done")
  /\ answer' \in {answer, [answer EXCEPT ![c] = replay[c]]}

\* Releasing what is no longer held succeeds and changes nothing.
HoldGivenBack(c) == [holds EXCEPT ![c] = IF @ = "held" THEN "released" ELSE @]

Released(c) ==
  /\ FinishRelease(c)
  /\ holds' = HoldGivenBack(c)
  /\ UNCHANGED <<database, wire, replay, faults>>

\* Logged, not returned; the request may still arrive.
ReleaseFails(c) ==
  /\ FinishRelease(c)
  /\ wire' = [wire EXCEPT ![c] = @ \cup {"release"}]
  /\ Note(c, "releaseFailed")
  /\ UNCHANGED <<database, holds, replay>>

\* A request nobody waits for any more takes effect, or is dropped.
LateReserve(c) ==
  /\ "reserve" \in wire[c]
  /\ holds' = [holds EXCEPT ![c] = "held"]
  /\ wire' = [wire EXCEPT ![c] = @ \ {"reserve"}]
  /\ UNCHANGED <<pc, database, result, faults>>

LateRelease(c) ==
  /\ "release" \in wire[c]
  /\ holds' = HoldGivenBack(c)
  /\ wire' = [wire EXCEPT ![c] = @ \ {"release"}]
  /\ UNCHANGED <<pc, database, result, faults>>

Dropped(c) ==
  /\ wire[c] # {}
  /\ wire' = [wire EXCEPT ![c] = {}]
  /\ UNCHANGED <<pc, database, holds, result, faults>>

\* The inventory reaper takes a hold back once its TTL has passed, which may be
\* at any moment: a call may take arbitrarily long.
Reap(c) ==
  /\ holds[c] = "held"
  /\ holds' = [holds EXCEPT ![c] = "expired"]
  /\ UNCHANGED <<pc, database, wire, result, faults>>
-----------------------------------------------------------------------------
(* The transaction.                                                        *)

\* Bug variant: the claim is an upsert.
ClaimOverwrites(c) ==
  /\ inserting[KeyOf[c]] = None
  /\ Goto(c, "claim", "create")
  /\ inserting' = [inserting EXCEPT ![KeyOf[c]] = c]
  /\ UNCHANGED <<claims, orders, outside, result, faults>>

\* ClaimIdempotencyKey inserted the row.  An INSERT that meets another
\* transaction's uncommitted row waits until that transaction ends.
ClaimTaken(c) ==
  /\ inserting[KeyOf[c]] = None
  /\ Claim(c) = None
  /\ Goto(c, "claim", "create")
  /\ inserting' = [inserting EXCEPT ![KeyOf[c]] = c]
  /\ UNCHANGED <<claims, orders, outside, result, faults>>

\* Bug variant: the winner's order is answered whatever was asked.
ClaimNotCompared(c) ==
  /\ inserting[KeyOf[c]] = None
  /\ Claim(c) # None
  /\ Goto(c, "claim", "release")
  /\ replay' = [replay EXCEPT ![c] = Claim(c)]
  /\ UNCHANGED <<database, outside, answer, faults>>

\* Somebody else's claim is committed: errReplay, or IDEMPOTENCY_KEY_REUSED.
ClaimLost(c) ==
  /\ inserting[KeyOf[c]] = None
  /\ Claim(c) # None
  /\ Goto(c, "claim", "release")
  /\ replay' = IF SameRequest(c) THEN [replay EXCEPT ![c] = Claim(c)] ELSE replay
  /\ UNCHANGED <<database, outside, answer, faults>>

\* What ending a transaction does to the keys it inserted.
Unlock(c) == [k \in Keys |-> IF inserting[k] = c THEN None ELSE inserting[k]]

\* Bug variant: a failed transaction is left open, holding its key.
TxLeftOpen(c) ==
  /\ \/ Goto(c, "claim", "release") \/ Goto(c, "create", "release")
  /\ UNCHANGED <<database, outside, result, faults>>

\* Bug variant: the failure path returns without releasing.
TxFailsNoRelease(c) ==
  /\ \/ Goto(c, "claim", "done") \/ Goto(c, "create", "done")
  /\ inserting' = Unlock(c)
  /\ UNCHANGED <<claims, orders, outside, result, faults>>

\* NewOrder refuses the lines, a statement fails, or the client hangs up: the
\* transaction rolls back and the hold is released on a context of its own.
TxFails(c) ==
  /\ \/ Goto(c, "claim", "release") \/ Goto(c, "create", "release")
  /\ inserting' = Unlock(c)
  /\ UNCHANGED <<claims, orders, outside, result, faults>>

\* COMMIT: the claim, the order and the event appear together.
Publish(c) ==
  /\ claims' = [claims EXCEPT ![KeyOf[c]] = c]
  /\ orders' = orders \cup {c}
  /\ inserting' = Unlock(c)

Commit(c) ==
  /\ Goto(c, "create", "answer")
  /\ Publish(c)
  /\ UNCHANGED <<outside, result, faults>>

\* The connection breaks after COMMIT took effect and before its answer came
\* back: tx.Do returns an error and the failure path is taken.
CommitAnswerLost(c) ==
  /\ Goto(c, "create", "release")
  /\ Publish(c)
  /\ Note(c, "commitLost")
  /\ UNCHANGED <<outside, result>>

Answer(c) ==
  /\ Goto(c, "answer", "done")
  /\ answer' = [answer EXCEPT ![c] = c]
  /\ UNCHANGED <<database, outside, replay, faults>>

\* The process dies; PostgreSQL rolls back what it had open, and a request it
\* had sent is still under way.
Crash(c) ==
  /\ pc[c] \notin {"idle", "done"}
  /\ pc' = [pc EXCEPT ![c] = "done"]
  /\ inserting' = Unlock(c)
  /\ wire' = [wire EXCEPT ![c] = @ \cup ({pc[c]} \cap {"reserve", "release"})]
  /\ Note(c, "crash")
  /\ UNCHANGED <<claims, orders, holds, result>>
-----------------------------------------------------------------------------
CallProgress(c) ==
  \/ ReplayFree(c) \/ ReplayAnswered(c) \/ ReplayReused(c) \/ ReplayFails(c)
  \/ Priced(c) \/ NotPriced(c)
  \/ Reserved(c) \/ ReserveRefused(c) \/ ReserveTimesOut(c)
  \/ ClaimTaken(c) \/ ClaimLost(c)
  \/ Commit(c) \/ CommitAnswerLost(c) \/ Answer(c)
  \/ Released(c) \/ ReleaseFails(c)

Network(c) == LateReserve(c) \/ LateRelease(c) \/ Dropped(c)

CheckoutNext == \E c \in Calls : Begin(c) \/ CallProgress(c) \/ TxFails(c) \/ Network(c) \/ Reap(c) \/ Crash(c)

\* A call that has begun takes its next step when it can; it does not count on
\* its deadline (TxFails) to get it out of a wait.  Nobody has to call.
CheckoutFairness == \A c \in Calls : WF_checkoutVars(CallProgress(c))

CheckoutSpec     == CheckoutInit /\ [][CheckoutNext]_checkoutVars
CheckoutFairSpec == CheckoutSpec /\ CheckoutFairness
-----------------------------------------------------------------------------
(* Properties.                                                             *)

\* However a client's retries overlap, fail and are repeated, one key places
\* one order.
OneOrderPerKey == \A c, d \in orders : KeyOf[c] = KeyOf[d] => c = d

\* A client is only ever answered with an order that was committed, under its
\* own key and for the cart it sent: never with one that was rolled back, and
\* never with the answer to another request.
AnswersAreOrders ==
  \A c \in Calls : answer[c] # None =>
    /\ answer[c] \in orders
    /\ KeyOf[answer[c]] = KeyOf[c]
    /\ CartOf[answer[c]] = CartOf[c]

\* A hold nobody bought is either still in the hands of its call or was left
\* to the reaper by a fault; no ordinary outcome (a lost key, a refused order,
\* a replay) leaks one.
HoldsAreAccounted ==
  \A c \in Calls : holds[c] = "held" /\ c \notin orders =>
    \/ pc[c] \in {"claim", "create", "release"}
    \/ faults[c] # {}

\* Checkout gives back the hold of an order that exists only when the answer
\* to its own COMMIT was lost.
OrdersKeepTheirHold ==
  \A c \in orders : holds[c] = "released" => "commitLost" \in faults[c]

\* Holds and orders belong together through every failure of Checkout: a hold
\* without an order is on its way back, and an order is under a hold.
HoldsMatchOrders == CheckoutTypeOK /\ HoldsAreAccounted /\ OrdersKeepTheirHold

\* Every call that reaches its transaction ends: the wait on a key somebody
\* else is inserting is never for ever.
CallsEnd == \A c \in Calls : pc[c] = "claim" ~> pc[c] = "done"
=============================================================================
