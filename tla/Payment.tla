------------------------------ MODULE Payment ------------------------------
(***************************************************************************)
(* The payment service and the provider it charges through.                *)
(*                                                                         *)
(* An InitiatePayment call claims the client's key and writes its attempt  *)
(* in one transaction, asks the provider for the money outside of it, and  *)
(* applies the answer in a second one; the provider's webhooks are applied *)
(* by other handlers, before, between or after.  Each call mints one       *)
(* payment id, so the call itself names the attempt, and the provider's    *)
(* charge, which is made under that id.  The provider is the one the       *)
(* repository ships (fakeprovider); what it would never send, and what     *)
(* anybody else may post, are callbacks of their own.                      *)
(***************************************************************************)
EXTENDS Naturals, FiniteSets

CONSTANTS Calls,      \* InitiatePayment calls (bound), each with the payment id it mints
          Hooks,      \* HandleProviderCallback handlers running at once (bound)
          Keys,       \* idempotency keys: (user_id, key) pairs
          Requests,   \* requests, as hashRequest tells them apart
          Orders,
          KeyOf,      \* the key each call carries
          RequestOf,  \* what each call asks for
          OrderOf,    \* the order a request names
          MaxFaults,  \* bound: attempts whose news is lost or contradicted
          None

ASSUME PaymentAssumption ==
  /\ IsFiniteSet(Calls) /\ IsFiniteSet(Hooks)
  /\ Calls \cap Hooks = {}
  /\ None \notin Calls \cup Hooks
  /\ KeyOf \in [Calls -> Keys]
  /\ RequestOf \in [Calls -> Requests]
  /\ OrderOf \in [Requests -> Orders]
  /\ MaxFaults \in Nat

VARIABLES pc,         \* where each call and each callback handler is
          claims,     \* committed idempotency_keys rows: the attempt each key names
          inserting,  \* the open transaction that has inserted a key
          payments,   \* committed payments rows
          outbox,     \* events written with the rows
          rowLock,    \* who holds an attempt's row FOR UPDATE
          message,    \* what a settling transaction was told about which attempt
          seen,       \* the row it read
          answer,     \* the attempt a call answered its client with
          request,    \* the provider's side: the charge request of each attempt
          behaviour,  \* ... what it does with it
          charge,     \* ... the charge it keeps
          due,        \* ... webhooks it has still to send
          faults,     \* history: attempts whose news was lost on the way
          odd         \* history: attempts a contradicting callback was sent about

callVars     == <<claims, inserting, answer>>
settleVars   == <<rowLock, seen>>
providerVars == <<request, behaviour, charge, due>>
history      == <<faults, odd>>
vars == <<pc, callVars, payments, outbox, settleVars, message, providerVars, history>>

Settlers   == Calls \cup Hooks
Statuses   == {"pending", "succeeded", "failed"}
Settled    == {"succeeded", "failed"}
References == {"charge", "other"}     \* the charge made for the attempt, or another one
Behaviours == {"succeed", "decline", "webhook", "duplicate", "webhookFirst", "hang"}
MaxVersion == 3                        \* a row is inserted, named and settled

Row     == [status : Statuses \cup {"absent"}, ref : References \cup {"none"}, version : 0..MaxVersion]
Message == [payment : Calls, status : Statuses, ref : References, signed : BOOLEAN]
Event   == [payment : Calls, type : Settled, version : 1..MaxVersion]

ASSUME NoneAssumption == None \notin Message

NoRow == [status |-> "absent", ref |-> "none", version |-> 0]

TypeOK ==
  /\ pc \in [Settlers -> {"idle", "claim", "create", "charge", "wait",
                          "settle", "apply", "done"}]
  /\ claims \in [Keys -> Calls \cup {None}]
  /\ inserting \in [Keys -> Calls \cup {None}]
  /\ payments \in [Calls -> Row]
  /\ outbox \subseteq Event
  /\ rowLock \in [Calls -> Settlers \cup {None}]
  /\ message \in [Settlers -> Message \cup {None}]
  /\ seen \in [Settlers -> Row]
  /\ answer \in [Calls -> Calls \cup {None}]
  /\ request \in [Calls -> {"none", "sent", "sending", "answered", "hung"}]
  /\ behaviour \in [Calls -> Behaviours \cup {None}]
  /\ charge \in [Calls -> Statuses \cup {"none"}]
  /\ due \in [Calls -> 0..2]
  /\ faults \subseteq Calls
  /\ odd \subseteq Calls

Init ==
  /\ pc = [s \in Settlers |-> "idle"]
  /\ claims = [k \in Keys |-> None]
  /\ inserting = [k \in Keys |-> None]
  /\ payments = [p \in Calls |-> NoRow]
  /\ outbox = {}
  /\ rowLock = [p \in Calls |-> None]
  /\ message = [s \in Settlers |-> None]
  /\ seen = [s \in Settlers |-> NoRow]
  /\ answer = [c \in Calls |-> None]
  /\ request = [p \in Calls |-> "none"]
  /\ behaviour = [p \in Calls |-> None]
  /\ charge = [p \in Calls |-> "none"]
  /\ due = [p \in Calls |-> 0]
  /\ faults = {} /\ odd = {}

Order(c) == OrderOf[RequestOf[c]]
Goto(s, from, to) == pc[s] = from /\ pc' = [pc EXCEPT ![s] = to]
Lose(p) == faults' = faults \cup {p} /\ Cardinality(faults' \cup odd) <= MaxFaults
\* A handler slot serves the next callback; a call is over.
Over(s) == IF s \in Hooks THEN "idle" ELSE "done"
-----------------------------------------------------------------------------
(* The Payment aggregate.  A method refuses, finds nothing to do, or moves *)
(* the attempt and raises an event when it ends it.                        *)

Refused(row)   == [kind |-> "refused", row |-> row, raised |-> {}]
Unmoved(row)   == [kind |-> "unmoved", row |-> row, raised |-> {}]
Moved(row, es) == [kind |-> "moved", row |-> row, raised |-> es]

\* NewPayment, as CreatePayment stores it.
NewPayment == [status |-> "pending", ref |-> "none", version |-> 1]

\* Bug variant: the reference is overwritten.
AttachAny(row, ref) == Moved([row EXCEPT !.ref = ref], {})

\* The same reference again changes nothing; another one is
\* ErrProviderReferenceConflict.
AttachProviderReference(row, ref) ==
  CASE row.ref = "none" -> Moved([row EXCEPT !.ref = ref], {})
    [] row.ref = ref    -> Unmoved(row)
    [] OTHER            -> Refused(row)

\* ErrPaymentFailed, or a reference that does not agree, refuses.
Succeed(row, ref) ==
  LET attached == AttachProviderReference(row, ref)
  IN IF row.status = "failed" \/ attached.kind = "refused" THEN Refused(row)
     ELSE IF row.status = "succeeded" THEN Unmoved(row)
     ELSE Moved([attached.row EXCEPT !.status = "succeeded"], {"succeeded"})

\* ErrPaymentSucceeded refuses: money that has settled is not undone here.
Fail(row) ==
  CASE row.status = "failed"    -> Unmoved(row)
    [] row.status = "succeeded" -> Refused(row)
    [] OTHER -> Moved([row EXCEPT !.status = "failed"], {"failed"})

\* A declined charge is named too, and a name that does not agree refuses it.
FailNamed(row, ref) ==
  LET failed == Fail(row)  attached == AttachProviderReference(failed.row, ref)
  IN IF failed.kind # "moved" THEN failed
     ELSE IF attached.kind = "refused" THEN Refused(row)
     ELSE [failed EXCEPT !.row = attached.row]

\* apply: what the provider said, to the attempt it said it about.
apply(row, m) ==
  CASE m.status = "succeeded" -> Succeed(row, m.ref)
    [] m.status = "failed"    -> FailNamed(row, m.ref)
    [] OTHER                  -> AttachProviderReference(row, m.ref)
-----------------------------------------------------------------------------
(* InitiatePayment, up to the attempt.                                     *)

Claim(c) == claims[KeyOf[c]]
\* The stored request_hash is the one of the call that claimed the key.
SameRequest(c) == RequestOf[Claim(c)] = RequestOf[c]
\* What ending a transaction does to the keys it inserted.
Unlock(c) == inserting' = [k \in Keys |-> IF inserting[k] = c THEN None ELSE inserting[k]]

rest == <<payments, outbox, settleVars, message, providerVars, history>>

\* Bad input and a missing key are refused first and leave no trace.  Then
\* replay finds the key free, as far as a read outside any transaction can
\* tell, and GetOrder says the order is payable and its total positive.
OrderPayable(c) ==
  /\ Claim(c) = None
  /\ Goto(c, "idle", "claim")
  /\ UNCHANGED <<callVars, rest>>

\* It is not, or the order service does not answer.
OrderRefused(c) ==
  /\ Claim(c) = None
  /\ Goto(c, "idle", "done")
  /\ UNCHANGED <<callVars, rest>>

\* Bug variant: a key is answered with what it was first used for, whatever is asked.
ReplayAny(c) ==
  /\ Claim(c) # None
  /\ Goto(c, "idle", "done")
  /\ answer' = [answer EXCEPT ![c] = Claim(c)]
  /\ UNCHANGED <<claims, inserting, rest>>

\* replay: the attempt the key names, or IDEMPOTENCY_KEY_REUSED.  Asking the
\* provider for the next action (withNextAction) changes nothing, however it ends.
ReplayAnswered(c) ==
  /\ Claim(c) # None
  /\ Goto(c, "idle", "done")
  /\ answer' = IF SameRequest(c) THEN [answer EXCEPT ![c] = Claim(c)] ELSE answer
  /\ UNCHANGED <<claims, inserting, rest>>

\* INSERT ... ON CONFLICT DO NOTHING.  One that meets another transaction's
\* uncommitted row waits until that transaction ends.
ClaimIdempotencyKey(c) ==
  /\ inserting[KeyOf[c]] = None
  /\ inserting' = [inserting EXCEPT ![KeyOf[c]] = c]

\* Bug variant: the key is inserted over the claim it finds.
ClaimOverwrites(c) ==
  /\ Goto(c, "claim", "create")
  /\ ClaimIdempotencyKey(c)
  /\ UNCHANGED <<claims, answer, rest>>

\* IdempotencyStore.Claim took the key.
ClaimTaken(c) ==
  /\ Claim(c) = None
  /\ Goto(c, "claim", "create")
  /\ ClaimIdempotencyKey(c)
  /\ UNCHANGED <<claims, answer, rest>>

\* Somebody else's claim is committed: errReplay and the attempt it names, or
\* IDEMPOTENCY_KEY_REUSED.
ClaimLost(c) ==
  /\ inserting[KeyOf[c]] = None
  /\ Claim(c) # None
  /\ Goto(c, "claim", "done")
  /\ answer' = IF SameRequest(c) THEN [answer EXCEPT ![c] = Claim(c)] ELSE answer
  /\ UNCHANGED <<claims, inserting, rest>>

\* payments_one_unresolved_per_order_idx: WHERE status <> 'failed'.
Unresolved(o) == {p \in Calls : Order(p) = o /\ payments[p].status \in {"pending", "succeeded"}}

\* PAYMENT_ALREADY_IN_FLIGHT: the transaction rolls back and the key is free.
CreateRefused(c) ==
  /\ Unresolved(Order(c)) # {}
  /\ Goto(c, "create", "done")
  /\ Unlock(c)
  /\ UNCHANGED <<claims, answer, rest>>

\* A statement fails, the client hangs up or the process dies: the transaction
\* rolls back.
TxFails(c) ==
  /\ \E at \in {"claim", "create"} : Goto(c, at, "done")
  /\ Unlock(c)
  /\ UNCHANGED <<claims, answer, rest>>

\* INSERT INTO payments, as the index allows it.
CreatePayment(c) ==
  /\ Unresolved(Order(c)) = {}
  /\ payments' = [payments EXCEPT ![c] = NewPayment]

\* CreatePayment inserts the row and COMMIT publishes it with the claim: it is
\* the last statement, and one that meets another's uncommitted row in the index
\* waits for its end, so the two are one step.
Publish(c) ==
  /\ CreatePayment(c)
  /\ claims' = [claims EXCEPT ![KeyOf[c]] = c]
  /\ Unlock(c)
  /\ UNCHANGED <<outbox, settleVars, message, providerVars, answer, odd>>

Commit(c) == Goto(c, "create", "charge") /\ Publish(c) /\ UNCHANGED faults

\* COMMIT took effect and its answer was lost: tx.Do returns an error, and the
\* provider is never asked.
CommitAnswerLost(c) == Goto(c, "create", "done") /\ Publish(c) /\ Lose(c)
-----------------------------------------------------------------------------
(* The charge.                                                             *)

\* Bug variant: the provider is asked before the attempt is committed.
ChargeEarly(c) ==
  /\ pc[c] \in {"create", "charge"}
  /\ request[c] = "none"
  /\ pc' = [pc EXCEPT ![c] = IF @ = "charge" THEN "wait" ELSE @]
  /\ request' = [request EXCEPT ![c] = "sent"]
  /\ UNCHANGED <<callVars, payments, outbox, settleVars, message, behaviour, charge, due, history>>

Charge(c) ==
  /\ Goto(c, "charge", "wait")
  /\ request' = [request EXCEPT ![c] = "sent"]
  /\ UNCHANGED <<callVars, payments, outbox, settleVars, message, behaviour, charge, due, history>>

\* fakeprovider.store: the state a behaviour starts a charge in; the answer to
\* the call carries this one, whatever has become of the charge since.
store(b) ==
  CASE b = "succeed" -> "succeeded"
    [] b = "decline" -> "failed"
    [] OTHER         -> "pending"

\* fakeprovider.deliveries.
deliveries(b) == IF b = "duplicate" THEN 2 ELSE 1

\* fakeprovider.create, for the one request made under each key.  WebhookFirst
\* sends before it answers; a hung request is never answered and leaves no charge.
create(p, b) ==
  /\ request[p] = "sent"
  /\ behaviour' = [behaviour EXCEPT ![p] = b]
  /\ charge' = IF b = "hang" THEN charge ELSE [charge EXCEPT ![p] = store(b)]
  /\ request' = [request EXCEPT ![p] =
       CASE b = "hang" -> "hung" [] b = "webhookFirst" -> "sending" [] OTHER -> "answered"]
  /\ due' = IF b = "webhookFirst" THEN [due EXCEPT ![p] = 1] ELSE due
  /\ UNCHANGED <<pc, callVars, payments, outbox, settleVars, message, history>>

\* The webhook that comes first was answered, or was not in time.
answerLate(p) ==
  /\ request[p] = "sending" /\ due[p] = 0
  /\ request' = [request EXCEPT ![p] = "answered"]
  /\ UNCHANGED <<pc, callVars, payments, outbox, settleVars, message, behaviour, charge, due, history>>

\* fakeprovider.sendLater: after its delay the charge settles, and is told.
sendLater(p) ==
  /\ charge[p] = "pending"
  /\ behaviour[p] \in {"webhook", "duplicate"}
  /\ charge' = [charge EXCEPT ![p] = "succeeded"]
  /\ due' = [due EXCEPT ![p] = deliveries(behaviour[p])]
  /\ UNCHANGED <<pc, callVars, payments, outbox, settleVars, message, request, behaviour, history>>

\* Charge returned what the provider answered.
Charged(c) ==
  /\ request[c] = "answered"
  /\ Goto(c, "wait", "settle")
  /\ message' = [message EXCEPT ![c] =
       [payment |-> c, status |-> store(behaviour[c]), ref |-> "charge", signed |-> TRUE]]
  /\ UNCHANGED <<callVars, payments, outbox, settleVars, providerVars, history>>

\* Bug variant: a charge that was not answered is written down as failed.
ChargeGuessed(c) ==
  /\ Goto(c, "wait", "settle")
  /\ message' = [message EXCEPT ![c] =
       [payment |-> c, status |-> "failed", ref |-> "charge", signed |-> TRUE]]
  /\ UNCHANGED <<callVars, payments, outbox, settleVars, providerVars, history>>

\* The deadline passes, the connection breaks, the process dies, or the answer
\* is a refusal or makes no sense: the attempt stays pending and nothing asks again.
ChargeFails(c) ==
  /\ Goto(c, "wait", "done")
  /\ Lose(c)
  /\ UNCHANGED <<callVars, payments, outbox, settleVars, message, providerVars, odd>>
-----------------------------------------------------------------------------
(* Webhooks.                                                               *)

\* Bug variant: the body is parsed and not verified.
Unverified(m) == TRUE

\* ParseCallback: nothing is made of a body whose signature does not verify.
ParseCallback(m) == m.signed

\* HandleProviderCallback, forwarded byte for byte by the edge: a body that
\* parses goes on to settle.
Receive(h, m) ==
  /\ pc[h] = "idle"
  /\ pc' = IF ParseCallback(m) THEN [pc EXCEPT ![h] = "settle"] ELSE pc
  /\ message' = IF ParseCallback(m) THEN [message EXCEPT ![h] = m] ELSE message

\* fakeprovider.send: one webhook with what the charge is now, signed.
send(p, h) ==
  /\ due[p] > 0
  /\ due' = [due EXCEPT ![p] = @ - 1]
  /\ Receive(h, [payment |-> p, status |-> charge[p], ref |-> "charge", signed |-> TRUE])
  /\ UNCHANGED <<callVars, payments, outbox, settleVars, request, behaviour, charge, history>>

\* It is not delivered; a failed delivery is logged and not repeated.
sendLost(p) ==
  /\ due[p] > 0
  /\ due' = [due EXCEPT ![p] = @ - 1]
  /\ Lose(p)
  /\ UNCHANGED <<pc, callVars, payments, outbox, settleVars, message, request, behaviour, charge, odd>>

\* What this provider does not send: a signed callback that names another
\* charge, contradicts it or is about an attempt this service does not have,
\* and one nobody signed.
Strays(p) ==
  [payment : {p}, status : Statuses, ref : References, signed : {TRUE}]
    \cup {[payment |-> p, status |-> "succeeded", ref |-> "charge", signed |-> FALSE]}

StrayCallback(h, p) ==
  /\ \E m \in Strays(p) :
       /\ Receive(h, m)
       /\ IF m.signed THEN p \notin odd /\ odd' = odd \cup {p} ELSE odd' = odd
  /\ Cardinality(odd' \cup faults) <= MaxFaults
  /\ UNCHANGED <<callVars, payments, outbox, settleVars, providerVars, faults>>

\* A callback about an attempt this service does not have is answered with silence.
CallbackUnknown(h) ==
  /\ pc[h] = "settle"
  /\ payments[message[h].payment].status = "absent"
  /\ pc' = [pc EXCEPT ![h] = "idle"]
  /\ message' = [message EXCEPT ![h] = None]
  /\ UNCHANGED <<callVars, payments, outbox, settleVars, providerVars, history>>
-----------------------------------------------------------------------------
(* settle, run by a call with its answer and by a handler with a callback. *)

\* Bug variant: the row is read without FOR UPDATE.
ReadUnlocked(s) ==
  /\ pc[s] = "settle"
  /\ payments[message[s].payment].status # "absent"
  /\ pc' = [pc EXCEPT ![s] = "apply"]
  /\ seen' = [seen EXCEPT ![s] = payments[message[s].payment]]
  /\ UNCHANGED <<callVars, payments, outbox, rowLock, message, providerVars, history>>

\* FindByIDForUpdate; it waits for whoever holds the row.
FindByIDForUpdate(s) ==
  /\ pc[s] = "settle"
  /\ payments[message[s].payment].status # "absent"
  /\ rowLock[message[s].payment] = None
  /\ rowLock' = [rowLock EXCEPT ![message[s].payment] = s]
  /\ seen' = [seen EXCEPT ![s] = payments[message[s].payment]]
  /\ pc' = [pc EXCEPT ![s] = "apply"]
  /\ UNCHANGED <<callVars, payments, outbox, message, providerVars, history>>

\* A settling transaction ends and forgets what it read.
EndSettle(s) ==
  /\ pc' = [pc EXCEPT ![s] = Over(s)]
  /\ rowLock' = [p \in Calls |-> IF rowLock[p] = s THEN None ELSE rowLock[p]]
  /\ message' = [message EXCEPT ![s] = None]
  /\ seen' = [seen EXCEPT ![s] = NoRow]

AnswerSettled(s) == answer' = IF s \in Calls THEN [answer EXCEPT ![s] = s] ELSE answer

\* UPDATE ... WHERE id = $1 AND version = $2: the row is the one that was read.
Current(s) == payments[message[s].payment].version = seen[s].version

\* ... SET status, provider_reference, version = version + 1.
SettlePayment(s, row) ==
  /\ Current(s)
  /\ payments' = [payments EXCEPT ![message[s].payment] = [row EXCEPT !.version = seen[s].version + 1]]

\* The events the aggregate raised, stamped with the version the row landed with.
writeEvents(s, raised) ==
  outbox' = outbox \cup
    {[payment |-> message[s].payment, type |-> t, version |-> seen[s].version + 1] : t \in raised}

\* apply moved it: the row and the event are written together.
Settle(s) ==
  LET result == apply(seen[s], message[s])
  IN /\ pc[s] = "apply"
     /\ result.kind = "moved"
     /\ SettlePayment(s, result.row)
     /\ writeEvents(s, result.raised)
     /\ AnswerSettled(s)
     /\ EndSettle(s)
     /\ UNCHANGED <<claims, inserting, providerVars, history>>

\* There was nothing left to do.
SettleUnmoved(s) ==
  /\ pc[s] = "apply"
  /\ apply(seen[s], message[s]).kind = "unmoved"
  /\ AnswerSettled(s)
  /\ EndSettle(s)
  /\ UNCHANGED <<claims, inserting, payments, outbox, providerVars, history>>

\* The aggregate refuses, or the row is not the one that was read
\* (PAYMENT_MODIFIED): the transaction rolls back.
SettleRefused(s) ==
  LET result == apply(seen[s], message[s])
  IN /\ pc[s] = "apply"
     /\ result.kind = "refused" \/ (result.kind = "moved" /\ ~Current(s))
     /\ EndSettle(s)
     /\ UNCHANGED <<callVars, payments, outbox, providerVars, history>>

\* The transaction fails or its handler dies; what it carried is lost.
SettleLost(s) ==
  /\ pc[s] \in {"settle", "apply"}
  /\ EndSettle(s)
  /\ Lose(message[s].payment)
  /\ UNCHANGED <<callVars, payments, outbox, providerVars, odd>>

\* The process dies with the attempt committed and the money not asked for.
Crash(c) ==
  /\ Goto(c, "charge", "done")
  /\ Lose(c)
  /\ UNCHANGED <<callVars, payments, outbox, settleVars, message, providerVars, odd>>
-----------------------------------------------------------------------------
Begin(c) == OrderPayable(c) \/ OrderRefused(c) \/ ReplayAnswered(c)

CallStep(c) ==
  \/ ClaimTaken(c) \/ ClaimLost(c)
  \/ CreateRefused(c) \/ Commit(c) \/ CommitAnswerLost(c)
  \/ Charge(c) \/ Charged(c)

SettleStep(s) == FindByIDForUpdate(s) \/ Settle(s) \/ SettleUnmoved(s) \/ SettleRefused(s)

\* What the provider does on its own.
ProviderStep(p) ==
  \/ \E b \in Behaviours : create(p, b)
  \/ answerLate(p) \/ sendLater(p) \/ sendLost(p)
  \/ \E h \in Hooks : send(p, h)

Next ==
  \/ \E c \in Calls : Begin(c) \/ CallStep(c) \/ TxFails(c) \/ ChargeFails(c) \/ Crash(c)
  \/ \E p \in Calls : ProviderStep(p)
  \/ \E h \in Hooks : CallbackUnknown(h) \/ \E p \in Calls : StrayCallback(h, p)
  \/ \E s \in Settlers : SettleStep(s) \/ SettleLost(s)

Spec == Init /\ [][Next]_vars
-----------------------------------------------------------------------------
(* Properties.                                                             *)

\* However calls race under one key or several, an order has at most one
\* attempt that is not failed.
OneUnresolvedPerOrder ==
  \A p, q \in Calls :
    {payments[p].status, payments[q].status} \subseteq {"pending", "succeeded"} /\ Order(p) = Order(q)
      => p = q

\* The customer is charged once: no two charges for one order succeed at the
\* provider, unless it contradicted itself about one of them.
ChargedOnce ==
  \A p, q \in Calls \ odd :
    charge[p] = "succeeded" /\ charge[q] = "succeeded" /\ Order(p) = Order(q) => p = q

\* One payment at a time and one at all, for every order.
PaidOnce == TypeOK /\ OneUnresolvedPerOrder /\ ChargedOnce

\* What the service wrote down is what the provider did: no request for money
\* without a committed attempt, paid only when charged, failed only when
\* declined, whichever of the answer and the webhooks came first.
RecordsMatchProvider ==
  \A p \in Calls \ odd :
    /\ request[p] # "none" => payments[p].status # "absent"
    /\ payments[p].status \in Settled => charge[p] = payments[p].status

\* Each ending is announced once, as what it was and with the version the row
\* has: redelivered and contradicting callbacks announce nothing.
AnnouncedOnce ==
  \A p \in Calls :
    {e \in outbox : e.payment = p} =
      IF payments[p].status \in Settled
      THEN {[payment |-> p, type |-> payments[p].status, version |-> payments[p].version]}
      ELSE {}

\* What the service keeps and what it announces are what the provider did.
RecordsAreTrue == RecordsMatchProvider /\ AnnouncedOnce

\* A client is answered only with a committed attempt under its own key for
\* what it asked, and one key never makes two attempts.
AnswersAreAttempts ==
  /\ \A c \in Calls : answer[c] # None =>
       /\ payments[answer[c]].status # "absent"
       /\ KeyOf[answer[c]] = KeyOf[c] /\ RequestOf[answer[c]] = RequestOf[c]
  /\ \A p, q \in Calls :
       payments[p].status # "absent" /\ payments[q].status # "absent" /\ KeyOf[p] = KeyOf[q] => p = q

\* Somebody is still to apply what the provider decided about p.
UnderWay(p) ==
  \/ due[p] > 0
  \/ pc[p] = "wait" /\ request[p] = "answered"
  \/ \E s \in Settlers : message[s] # None /\ message[s].payment = p

\* Once the provider has decided, so has the attempt: no order of the answer and
\* the webhooks leaves it pending with nobody left to settle it, unless the news
\* was lost or contradicted.
DecisionsArrive ==
  \A p \in Calls \ (faults \cup odd) :
    charge[p] \in Settled /\ ~UnderWay(p) => payments[p].status = charge[p]
=============================================================================
