---------------------------- MODULE OrderProofs ----------------------------
(***************************************************************************)
(* Placing an order and what becomes of it.                                *)
(* Checkout: one order per idempotency key, answers that are committed     *)
(* orders, and holds that belong to orders, for every number of calls,     *)
(* keys and carts.                                                         *)
(* OrderSaga: one outcome for every order, and no paid order that loses    *)
(* its hold when the margin between the payment window and the             *)
(* reservation's TTL is wide enough, for every number of orders, every     *)
(* window, TTL, sweep interval and batch size, and every clock.            *)
(***************************************************************************)
EXTENDS Checkout, OrderSaga, FiniteSetTheorems, TLAPS

(* Checkout.                                                               *)

\* A committed claim names the one order of its key, and every order has one.
ClaimsAndOrders ==
  /\ \A k \in Keys : claims[k] # None => claims[k] \in orders /\ KeyOf[claims[k]] = k
  /\ \A c \in orders : claims[KeyOf[c]] = c

\* An uncommitted claim belongs to a call inside its transaction, on a key that
\* has no committed claim.
OpenClaims ==
  /\ \A k \in Keys : inserting[k] # None =>
       pc[inserting[k]] = "create" /\ KeyOf[inserting[k]] = k /\ claims[k] = None
  /\ \A c \in Calls : pc[c] = "create" => inserting[KeyOf[c]] = c
  /\ \A c \in Calls : pc[c] = "answer" => c \in orders

\* Order a is an answer to what call c asked.
Answers(a, c) == a \in orders /\ KeyOf[a] = KeyOf[c] /\ CartOf[a] = CartOf[c]

GoodAnswers ==
  \A c \in Calls : /\ replay[c] # None => Answers(replay[c], c)
                   /\ answer[c] # None => Answers(answer[c], c)

\* The inductive invariant.
CheckoutInv == CheckoutTypeOK /\ ClaimsAndOrders /\ OpenClaims /\ GoodAnswers
-----------------------------------------------------------------------------

\* Nobody has called yet: there is no claim, no order and no answer.
LEMMA InitCheckout == CheckoutInit => CheckoutInv
  BY CheckoutAssumption DEF CheckoutInit, CheckoutInv, CheckoutTypeOK, PCs, Faults, ClaimsAndOrders, OpenClaims,
     GoodAnswers, CheckoutAssumption

\* Every step keeps the types.
LEMMA TypeStep == CheckoutTypeOK /\ [CheckoutNext]_checkoutVars => CheckoutTypeOK'
<1> SUFFICES ASSUME CheckoutTypeOK, [CheckoutNext]_checkoutVars PROVE CheckoutTypeOK'
  OBVIOUS
<1> USE CheckoutAssumption DEF CheckoutAssumption, CheckoutTypeOK, PCs, Faults, Goto, Note, database, outside, result
<1>1. ASSUME NEW c \in Calls, Begin(c) PROVE CheckoutTypeOK'
  BY <1>1 DEF Begin
<1>2. ASSUME NEW c \in Calls, ReplayFree(c) \/ ReplayReused(c) \/ ReplayFails(c) PROVE CheckoutTypeOK'
  BY <1>2 DEF ReplayFree, ReplayReused, ReplayFails
<1>3. ASSUME NEW c \in Calls, ReplayAnswered(c) PROVE CheckoutTypeOK'
  BY <1>3 DEF ReplayAnswered, Claim
<1>4. ASSUME NEW c \in Calls, Priced(c) \/ NotPriced(c) \/ ReserveRefused(c) PROVE CheckoutTypeOK'
  BY <1>4 DEF Priced, NotPriced, ReserveRefused
<1>5. ASSUME NEW c \in Calls, Reserved(c) PROVE CheckoutTypeOK'
  BY <1>5 DEF Reserved
<1>6. ASSUME NEW c \in Calls, ReserveTimesOut(c) PROVE CheckoutTypeOK'
  BY <1>6 DEF ReserveTimesOut
<1>7. ASSUME NEW c \in Calls, ClaimTaken(c) PROVE CheckoutTypeOK'
  BY <1>7 DEF ClaimTaken, Claim
<1>8. ASSUME NEW c \in Calls, ClaimLost(c) PROVE CheckoutTypeOK'
  BY <1>8 DEF ClaimLost, Claim, SameRequest
<1>9. ASSUME NEW c \in Calls, Commit(c) \/ CommitAnswerLost(c) PROVE CheckoutTypeOK'
  BY <1>9 DEF Commit, CommitAnswerLost, Publish, Unlock
<1>10. ASSUME NEW c \in Calls, Answer(c) PROVE CheckoutTypeOK'
  BY <1>10 DEF Answer
<1>11. ASSUME NEW c \in Calls, Released(c) PROVE CheckoutTypeOK'
  BY <1>11 DEF Released, FinishRelease, HoldGivenBack
<1>12. ASSUME NEW c \in Calls, ReleaseFails(c) PROVE CheckoutTypeOK'
  BY <1>12 DEF ReleaseFails, FinishRelease
<1>13. ASSUME NEW c \in Calls, TxFails(c) PROVE CheckoutTypeOK'
  BY <1>13 DEF TxFails, Unlock
<1>14. ASSUME NEW c \in Calls, LateReserve(c) \/ Dropped(c) PROVE CheckoutTypeOK'
  BY <1>14 DEF LateReserve, Dropped
<1>15. ASSUME NEW c \in Calls, LateRelease(c) \/ Reap(c) PROVE CheckoutTypeOK'
  BY <1>15 DEF LateRelease, Reap, HoldGivenBack
<1>16. ASSUME NEW c \in Calls, Crash(c) PROVE CheckoutTypeOK'
  BY <1>16 DEF Crash, Unlock
<1>17. CASE UNCHANGED checkoutVars
  BY <1>17 DEF checkoutVars
<1> QED
  BY <1>1, <1>2, <1>3, <1>4, <1>5, <1>6, <1>7, <1>8, <1>9, <1>10, <1>11, <1>12, <1>13, <1>14,
     <1>15, <1>16, <1>17 DEF CheckoutNext, CallProgress, Network
-----------------------------------------------------------------------------

\* Steps outside the transaction leave the claims and the orders alone.
Quiet(c) ==
  /\ UNCHANGED <<claims, inserting, orders>>
  /\ \/ pc' = pc
     \/ /\ pc[c] # "create"
        /\ \E p \in PCs \ {"create", "answer"} : pc' = [pc EXCEPT ![c] = p]

\* Such a step keeps what claims, orders and open transactions say of each other.
LEMMA QuietKeepsClaims ==
  ASSUME CheckoutInv, NEW c \in Calls, Quiet(c)
  PROVE  ClaimsAndOrders' /\ OpenClaims'
<1>1. claims' = claims /\ inserting' = inserting /\ orders' = orders
  BY DEF Quiet
<1>2. ClaimsAndOrders'
  BY <1>1 DEF CheckoutInv, ClaimsAndOrders
<1>3. \A d \in Calls : (pc[d] = "create" <=> pc'[d] = "create") /\ (pc'[d] = "answer" => pc[d] = "answer")
  BY DEF Quiet, CheckoutInv, CheckoutTypeOK
<1>4. OpenClaims'
  BY <1>1, <1>3, CheckoutAssumption DEF CheckoutInv, CheckoutTypeOK, OpenClaims, CheckoutAssumption
<1> QED BY <1>2, <1>4

\* Answers stay good while orders only grow.
LEMMA AnswersKept ==
  ASSUME CheckoutInv, orders \subseteq orders', NEW c \in Calls,
         replay' = replay \/ (Answers(replay'[c], c) /\ replay' = [replay EXCEPT ![c] = replay'[c]]),
         answer' = answer \/ (Answers(answer'[c], c) /\ answer' = [answer EXCEPT ![c] = answer'[c]])
                          \/ answer' = [answer EXCEPT ![c] = replay[c]]
  PROVE  GoodAnswers'
<1>1. \A a, d : Answers(a, d) => Answers(a, d)'
  BY DEF Answers
<1>2. ASSUME NEW d \in Calls, replay'[d] # None PROVE Answers(replay'[d], d)
  BY <1>2 DEF CheckoutInv, CheckoutTypeOK, GoodAnswers
<1>3. ASSUME NEW d \in Calls, answer'[d] # None PROVE Answers(answer'[d], d)
  BY <1>3 DEF CheckoutInv, CheckoutTypeOK, GoodAnswers
<1> QED BY <1>1, <1>2, <1>3 DEF GoodAnswers, Answers

\* A committed claim for the same request is a good answer.
LEMMA ClaimAnswers ==
  ASSUME CheckoutInv, NEW c \in Calls, Claim(c) # None, SameRequest(c)
  PROVE  Answers(Claim(c), c)
  BY CheckoutAssumption DEF CheckoutInv, ClaimsAndOrders, Claim, SameRequest, Answers, CheckoutAssumption

\* The end of a transaction gives up its own uncommitted claim and no other.
LEMMA UnlockKeepsClaims ==
  ASSUME CheckoutInv, NEW c \in Calls, inserting' = Unlock(c), UNCHANGED <<claims, orders>>,
         NEW p \in PCs \ {"create", "answer"}, pc' = [pc EXCEPT ![c] = p]
  PROVE  ClaimsAndOrders' /\ OpenClaims'
<1>1. claims' = claims /\ orders' = orders
  OBVIOUS
<1>2. ClaimsAndOrders'
  BY <1>1 DEF CheckoutInv, ClaimsAndOrders
<1>3. \A k \in Keys : inserting'[k] = IF inserting[k] = c THEN None ELSE inserting[k]
  BY DEF Unlock
<1>4. \A d \in Calls : d # c => pc'[d] = pc[d]
  BY DEF CheckoutInv, CheckoutTypeOK
<1>5. pc'[c] = p
  BY DEF CheckoutInv, CheckoutTypeOK
<1>6. ASSUME NEW k \in Keys, inserting'[k] # None
      PROVE  pc'[inserting'[k]] = "create" /\ KeyOf[inserting'[k]] = k /\ claims'[k] = None
  <2>1. inserting'[k] = inserting[k] /\ inserting[k] # c /\ inserting[k] \in Calls
    BY <1>3, <1>6 DEF CheckoutInv, CheckoutTypeOK
  <2> QED BY <2>1, <1>1, <1>4, <1>6 DEF CheckoutInv, OpenClaims
<1>7. ASSUME NEW d \in Calls, pc'[d] = "create" PROVE inserting'[KeyOf[d]] = d
  <2>1. d # c /\ pc[d] = "create"
    BY <1>4, <1>5, <1>7
  <2>2. inserting[KeyOf[d]] = d /\ KeyOf[d] \in Keys
    BY <2>1, CheckoutAssumption DEF CheckoutInv, OpenClaims, CheckoutAssumption
  <2> QED BY <1>3, <2>1, <2>2
<1>8. \A d \in Calls : pc'[d] = "answer" => d \in orders'
  BY <1>1, <1>4, <1>5 DEF CheckoutInv, OpenClaims
<1> QED BY <1>2, <1>6, <1>7, <1>8 DEF OpenClaims

\* COMMIT: the key had no order, and now has this one.
LEMMA PublishKeepsClaims ==
  ASSUME CheckoutInv, NEW c \in Calls, pc[c] = "create", Publish(c),
         NEW p \in {"answer", "release"}, pc' = [pc EXCEPT ![c] = p]
  PROVE  ClaimsAndOrders' /\ OpenClaims' /\ c \in orders' /\ orders \subseteq orders'
<1> DEFINE key == KeyOf[c]
<1>1. key \in Keys /\ c # None
  BY CheckoutAssumption DEF CheckoutAssumption
<1>2. inserting[key] = c /\ claims[key] = None
  BY <1>1 DEF CheckoutInv, OpenClaims
<1>3. orders' = orders \cup {c} /\ \A k \in Keys : claims'[k] = IF k = key THEN c ELSE claims[k]
  BY <1>1 DEF Publish, CheckoutInv, CheckoutTypeOK
<1>4. \A d \in orders : d \in Calls /\ KeyOf[d] \in Keys /\ KeyOf[d] # key
  <2> SUFFICES ASSUME NEW d \in orders PROVE d \in Calls /\ KeyOf[d] \in Keys /\ KeyOf[d] # key
    OBVIOUS
  <2>1. d \in Calls /\ claims[KeyOf[d]] = d
    BY DEF CheckoutInv, CheckoutTypeOK, ClaimsAndOrders
  <2>2. KeyOf[d] \in Keys /\ d # None
    BY <2>1, CheckoutAssumption DEF CheckoutAssumption
  <2> QED BY <2>1, <2>2, <1>2
<1>5. ClaimsAndOrders'
  <2>1. \A k \in Keys : claims'[k] # None => claims'[k] \in orders' /\ KeyOf[claims'[k]] = k
    BY <1>3 DEF CheckoutInv, ClaimsAndOrders
  <2>2. \A d \in orders' : claims'[KeyOf[d]] = d
    BY <1>1, <1>3, <1>4 DEF CheckoutInv, ClaimsAndOrders
  <2> QED BY <2>1, <2>2 DEF ClaimsAndOrders
<1>6. \A k \in Keys : inserting'[k] = IF inserting[k] = c THEN None ELSE inserting[k]
  BY DEF Publish, Unlock
<1>7. (\A d \in Calls : d # c => pc'[d] = pc[d]) /\ pc'[c] = p
  BY DEF CheckoutInv, CheckoutTypeOK
<1>8. ASSUME NEW k \in Keys, inserting'[k] # None
      PROVE  pc'[inserting'[k]] = "create" /\ KeyOf[inserting'[k]] = k /\ claims'[k] = None
  <2>1. inserting'[k] = inserting[k] /\ inserting[k] # c /\ inserting[k] \in Calls /\ k # key
    BY <1>2, <1>6, <1>8 DEF CheckoutInv, CheckoutTypeOK
  <2>2. claims'[k] = claims[k]
    BY <2>1, <1>3
  <2> QED BY <2>1, <2>2, <1>7, <1>8 DEF CheckoutInv, OpenClaims
<1>9. ASSUME NEW d \in Calls, pc'[d] = "create" PROVE inserting'[KeyOf[d]] = d
  <2>1. d # c /\ pc[d] = "create"
    BY <1>7, <1>9
  <2>2. inserting[KeyOf[d]] = d /\ KeyOf[d] \in Keys
    BY <2>1, CheckoutAssumption DEF CheckoutInv, OpenClaims, CheckoutAssumption
  <2> QED BY <1>6, <2>1, <2>2
<1>10. \A d \in Calls : pc'[d] = "answer" => d \in orders'
  BY <1>3, <1>7 DEF CheckoutInv, OpenClaims
<1>11. OpenClaims'
  BY <1>8, <1>9, <1>10 DEF OpenClaims
<1> QED BY <1>3, <1>5, <1>11

\* The insert of a free key.
LEMMA ClaimTakenKeepsClaims ==
  ASSUME CheckoutInv, NEW c \in Calls, ClaimTaken(c)
  PROVE  ClaimsAndOrders' /\ OpenClaims'
<1> DEFINE key == KeyOf[c]
<1>1. key \in Keys /\ c # None
  BY CheckoutAssumption DEF CheckoutAssumption
<1>2. /\ inserting[key] = None /\ claims[key] = None /\ pc[c] = "claim"
      /\ claims' = claims /\ orders' = orders
  BY DEF ClaimTaken, Claim, Goto
<1>3. \A k \in Keys : inserting'[k] = IF k = key THEN c ELSE inserting[k]
  BY <1>1 DEF ClaimTaken, CheckoutInv, CheckoutTypeOK
<1>4. (\A d \in Calls : d # c => pc'[d] = pc[d]) /\ pc'[c] = "create"
  BY DEF ClaimTaken, Goto, CheckoutInv, CheckoutTypeOK
<1>5. ClaimsAndOrders'
  BY <1>2 DEF CheckoutInv, ClaimsAndOrders
<1>6. ASSUME NEW k \in Keys, inserting'[k] # None
      PROVE  pc'[inserting'[k]] = "create" /\ KeyOf[inserting'[k]] = k /\ claims'[k] = None
  <2>1. CASE k = key
    BY <2>1, <1>2, <1>3, <1>4
  <2>2. CASE k # key
    <3>1. inserting'[k] = inserting[k] /\ inserting[k] \in Calls /\ inserting[k] # None
      BY <2>2, <1>3, <1>6 DEF CheckoutInv, CheckoutTypeOK
    <3>2. pc[inserting[k]] = "create" /\ KeyOf[inserting[k]] = k /\ claims[k] = None
      BY <3>1 DEF CheckoutInv, OpenClaims
    <3> QED BY <3>1, <3>2, <1>2, <1>4
  <2> QED BY <2>1, <2>2
<1>7. ASSUME NEW d \in Calls, pc'[d] = "create" PROVE inserting'[KeyOf[d]] = d
  <2>1. CASE d = c
    BY <2>1, <1>1, <1>3
  <2>2. CASE d # c
    <3>1. inserting[KeyOf[d]] = d /\ KeyOf[d] \in Keys /\ d # None
      BY <2>2, <1>4, <1>7, CheckoutAssumption DEF CheckoutInv, OpenClaims, CheckoutAssumption
    <3>2. KeyOf[d] # key
      BY <3>1, <1>2
    <3> QED BY <3>1, <3>2, <1>3
  <2> QED BY <2>1, <2>2
<1>8. \A d \in Calls : pc'[d] = "answer" => d \in orders'
  BY <1>2, <1>4 DEF CheckoutInv, OpenClaims
<1> QED BY <1>5, <1>6, <1>7, <1>8 DEF OpenClaims
-----------------------------------------------------------------------------

\* Every step keeps the invariant.
LEMMA NextCheckout == CheckoutInv /\ [CheckoutNext]_checkoutVars => CheckoutInv'
<1> SUFFICES ASSUME CheckoutInv, [CheckoutNext]_checkoutVars PROVE ClaimsAndOrders' /\ OpenClaims' /\ GoodAnswers'
  BY TypeStep DEF CheckoutInv
<1> DEFINE Goal == ClaimsAndOrders' /\ OpenClaims' /\ GoodAnswers'
<1>1. ASSUME NEW c \in Calls, Quiet(c), UNCHANGED <<replay, answer>> PROVE Goal
  BY <1>1, QuietKeepsClaims, AnswersKept DEF Quiet
<1>2. ASSUME NEW c \in Calls,
             Begin(c) \/ ReplayFree(c) \/ ReplayReused(c) \/ ReplayFails(c) \/ Priced(c) \/ NotPriced(c)
             \/ Reserved(c) \/ ReserveRefused(c) \/ ReserveTimesOut(c)
      PROVE  Goal
  <2>1. Quiet(c) /\ UNCHANGED <<replay, answer>>
    BY <1>2 DEF Begin, ReplayFree, ReplayReused, ReplayFails, Priced, NotPriced, Reserved, ReserveRefused,
       ReserveTimesOut, Goto, Quiet, PCs, database, result
  <2> QED BY <1>1, <2>1
<1>3. ASSUME NEW c \in Calls, Network(c) \/ Reap(c) PROVE Goal
  <2>1. Quiet(c) /\ UNCHANGED <<replay, answer>>
    BY <1>3 DEF Network, LateReserve, LateRelease, Dropped, Reap, Quiet, database, result
  <2> QED BY <1>1, <2>1
<1>4. ASSUME NEW c \in Calls, ReplayAnswered(c) PROVE Goal
  <2>1. /\ Quiet(c) /\ replay' = replay /\ orders' = orders
        /\ Claim(c) # None /\ SameRequest(c) /\ answer' = [answer EXCEPT ![c] = Claim(c)]
    BY <1>4 DEF ReplayAnswered, Goto, Quiet, PCs, database
  <2>2. answer'[c] = Claim(c) /\ Answers(Claim(c), c)
    BY <2>1, ClaimAnswers DEF CheckoutInv, CheckoutTypeOK
  <2>3. GoodAnswers'
    BY <2>1, <2>2, AnswersKept
  <2> QED BY <2>1, <2>3, QuietKeepsClaims
<1>5. ASSUME NEW c \in Calls, ClaimLost(c) PROVE Goal
  <2>1. /\ Quiet(c) /\ answer' = answer /\ orders' = orders /\ Claim(c) # None
        /\ replay' = IF SameRequest(c) THEN [replay EXCEPT ![c] = Claim(c)] ELSE replay
    BY <1>5 DEF ClaimLost, Goto, Quiet, PCs, database
  <2>2. replay' = replay \/ (Answers(replay'[c], c) /\ replay' = [replay EXCEPT ![c] = replay'[c]])
    BY <2>1, ClaimAnswers DEF CheckoutInv, CheckoutTypeOK
  <2>3. GoodAnswers'
    BY <2>1, <2>2, AnswersKept
  <2> QED BY <2>1, <2>3, QuietKeepsClaims
<1>6. ASSUME NEW c \in Calls, Released(c) \/ ReleaseFails(c) PROVE Goal
  <2>1. Quiet(c) /\ replay' = replay /\ orders' = orders
        /\ answer' \in {answer, [answer EXCEPT ![c] = replay[c]]}
    BY <1>6 DEF Released, ReleaseFails, FinishRelease, Goto, Quiet, PCs, database
  <2>2. GoodAnswers'
    BY <2>1, AnswersKept
  <2> QED BY <2>1, <2>2, QuietKeepsClaims
<1>7. ASSUME NEW c \in Calls, Answer(c) PROVE Goal
  <2>1. /\ Quiet(c) /\ replay' = replay /\ orders' = orders
        /\ pc[c] = "answer" /\ answer' = [answer EXCEPT ![c] = c]
    BY <1>7 DEF Answer, Goto, Quiet, PCs, database
  <2>2. answer'[c] = c /\ Answers(c, c)
    BY <2>1 DEF CheckoutInv, CheckoutTypeOK, OpenClaims, Answers
  <2>3. GoodAnswers'
    BY <2>1, <2>2, AnswersKept
  <2> QED BY <2>1, <2>3, QuietKeepsClaims
<1>8. ASSUME NEW c \in Calls, ClaimTaken(c) PROVE Goal
  <2>1. orders' = orders /\ replay' = replay /\ answer' = answer
    BY <1>8 DEF ClaimTaken, result
  <2> QED BY <1>8, <2>1, ClaimTakenKeepsClaims, AnswersKept
<1>9. ASSUME NEW c \in Calls, TxFails(c) \/ Crash(c) PROVE Goal
  <2>1. /\ inserting' = Unlock(c) /\ claims' = claims /\ orders' = orders
        /\ replay' = replay /\ answer' = answer
        /\ \E p \in PCs \ {"create", "answer"} : pc' = [pc EXCEPT ![c] = p]
    BY <1>9 DEF TxFails, Crash, Goto, PCs, result
  <2> QED BY <2>1, UnlockKeepsClaims, AnswersKept
<1>10. ASSUME NEW c \in Calls, Commit(c) \/ CommitAnswerLost(c) PROVE Goal
  <2>1. /\ pc[c] = "create" /\ Publish(c) /\ replay' = replay /\ answer' = answer
        /\ \E p \in {"answer", "release"} : pc' = [pc EXCEPT ![c] = p]
    BY <1>10 DEF Commit, CommitAnswerLost, Goto, result
  <2>2. ClaimsAndOrders' /\ OpenClaims' /\ orders \subseteq orders'
    BY <2>1, PublishKeepsClaims
  <2> QED BY <2>1, <2>2, AnswersKept
<1>11. CASE UNCHANGED checkoutVars
  BY <1>11 DEF checkoutVars, CheckoutInv, ClaimsAndOrders, OpenClaims, GoodAnswers, Answers
<1> QED
  BY <1>2, <1>3, <1>4, <1>5, <1>6, <1>7, <1>8, <1>9, <1>10, <1>11 DEF CheckoutNext, CallProgress
-----------------------------------------------------------------------------

\* The claims, the orders and the answers agree in every reachable state.
THEOREM CheckoutInvariant == CheckoutSpec => []CheckoutInv
  BY InitCheckout, NextCheckout, PTL DEF CheckoutSpec

\* However many calls share a key, overlap, fail and are repeated, Checkout
\* places one order for it.
THEOREM KeysPlaceOneOrder == CheckoutSpec => []OneOrderPerKey
<1>1. CheckoutInv => OneOrderPerKey
  BY DEF CheckoutInv, ClaimsAndOrders, OneOrderPerKey
<1> QED BY <1>1, CheckoutInvariant, PTL

\* Checkout only ever answers with a committed order of the caller's own key
\* and cart.
THEOREM AnswersAreCommitted == CheckoutSpec => []AnswersAreOrders
<1>1. CheckoutInv => AnswersAreOrders
  BY DEF CheckoutInv, GoodAnswers, Answers, AnswersAreOrders
<1> QED BY <1>1, CheckoutInvariant, PTL
-----------------------------------------------------------------------------
(* Holds.  A step is about the hold of its own call.                       *)

\* How far a call has come tells what it has taken and what is still under way for
\* it; the release of an order's hold has a lost COMMIT answer behind it.
HoldOK(c) ==
  /\ pc[c] # "done" => wire[c] = {}
  /\ pc[c] \in {"idle", "replay", "price", "reserve"} => holds[c] = "none"
  /\ c \in orders => pc[c] \in {"answer", "release", "done"}
  /\ pc[c] = "answer" => c \in orders
  /\ pc[c] \in {"claim", "create", "answer"} => holds[c] # "released"
  /\ "reserve" \in wire[c] => faults[c] # {}
  /\ c \in orders /\ (pc[c] = "release" \/ "release" \in wire[c] \/ holds[c] = "released") =>
       "commitLost" \in faults[c]
  /\ holds[c] = "held" /\ c \notin orders => pc[c] \in {"claim", "create", "release"} \/ faults[c] # {}

HoldInv == CheckoutTypeOK /\ \A c \in Calls : HoldOK(c)

\* No call has taken a hold yet.
LEMMA InitHolds == CheckoutInit => HoldInv
<1> SUFFICES ASSUME CheckoutInit PROVE HoldInv
  OBVIOUS
<1>1. CheckoutTypeOK
  BY InitCheckout DEF CheckoutInv
<1>2. ASSUME NEW c \in Calls PROVE HoldOK(c)
  BY DEF CheckoutInit, HoldOK
<1> QED BY <1>1, <1>2 DEF HoldInv

\* What a step of c leaves to the other calls.
LEMMA OthersHold ==
  ASSUME HoldInv, NEW c \in Calls, orders' \in {orders, orders \cup {c}}, CheckoutTypeOK',
         \A d \in Calls : d # c => /\ pc'[d] = pc[d] /\ holds'[d] = holds[d]
                                   /\ wire'[d] = wire[d] /\ faults'[d] = faults[d],
         HoldOK(c)'
  PROVE  HoldInv'
<1>1. ASSUME NEW d \in Calls, d # c PROVE HoldOK(d)'
  <2>1. HoldOK(d)
    BY DEF HoldInv
  <2>2. /\ pc'[d] = pc[d] /\ holds'[d] = holds[d] /\ wire'[d] = wire[d] /\ faults'[d] = faults[d]
        /\ d \in orders' <=> d \in orders
    BY <1>1
  <2> QED BY ONLY <2>1, <2>2 DEF HoldOK
<1> QED BY <1>1 DEF HoldInv

\* Steps before the hold and between it and the release touch no hold.
LEMMA PathKeepsHolds ==
  ASSUME HoldInv, NEW c \in Calls, CheckoutTypeOK',
         \/ Begin(c) \/ ReplayFree(c) \/ ReplayAnswered(c) \/ ReplayReused(c) \/ ReplayFails(c)
         \/ Priced(c) \/ NotPriced(c) \/ ReserveRefused(c)
         \/ ClaimTaken(c) \/ ClaimLost(c) \/ TxFails(c) \/ Answer(c)
  PROVE  HoldInv'
<1>1. PICK to \in PCs :
        /\ orders' = orders /\ holds' = holds /\ wire' = wire /\ faults' = faults
        /\ pc' = [pc EXCEPT ![c] = to]
        /\ \/ pc[c] = "idle" /\ to = "replay"
           \/ pc[c] = "replay" /\ to \in {"price", "done"}
           \/ pc[c] = "price" /\ to \in {"reserve", "done"}
           \/ pc[c] = "reserve" /\ to = "done"
           \/ pc[c] = "claim" /\ to \in {"create", "release"}
           \/ pc[c] = "create" /\ to = "release"
           \/ pc[c] = "answer" /\ to = "done"
  BY DEF Begin, ReplayFree, ReplayAnswered, ReplayReused, ReplayFails, Priced, NotPriced, ReserveRefused,
     ClaimTaken, ClaimLost, TxFails, Answer, Goto, PCs, database, outside
<1>2. pc'[c] = to /\ \A d \in Calls : d # c => pc'[d] = pc[d]
  BY <1>1 DEF HoldInv, CheckoutTypeOK
<1>3. HoldOK(c)
  BY DEF HoldInv
<1>4. HoldOK(c)'
  BY ONLY <1>1, <1>2, <1>3 DEF HoldOK
<1> QED BY <1>1, <1>2, <1>4, OthersHold

\* The answer of the inventory service, or none in time.
LEMMA ReserveKeepsHolds ==
  ASSUME HoldInv, NEW c \in Calls, CheckoutTypeOK', Reserved(c) \/ ReserveTimesOut(c)
  PROVE  HoldInv'
<1>1. /\ pc[c] = "reserve" /\ orders' = orders
      /\ \/ /\ pc' = [pc EXCEPT ![c] = "claim"] /\ holds' = [holds EXCEPT ![c] = "held"]
            /\ wire' = wire /\ faults' = faults
         \/ /\ pc' = [pc EXCEPT ![c] = "done"] /\ holds' = holds
            /\ wire' = [wire EXCEPT ![c] = {"reserve"}]
            /\ faults' = [faults EXCEPT ![c] = @ \cup {"reserveLost"}]
  BY DEF Reserved, ReserveTimesOut, Goto, Note, database
<1>t. /\ pc \in [Calls -> PCs] /\ wire \in [Calls -> SUBSET {"reserve", "release"}]
      /\ holds \in [Calls -> {"none", "held", "released", "expired"}]
      /\ faults \in [Calls -> SUBSET Faults]
  BY DEF HoldInv, CheckoutTypeOK
<1>2. /\ \/ pc'[c] = "claim" /\ holds'[c] = "held" /\ wire'[c] = wire[c] /\ faults'[c] = faults[c]
         \/ /\ pc'[c] = "done" /\ holds'[c] = holds[c] /\ wire'[c] = {"reserve"}
            /\ faults'[c] # {}
      /\ \A d \in Calls : d # c => /\ pc'[d] = pc[d] /\ holds'[d] = holds[d]
                                   /\ wire'[d] = wire[d] /\ faults'[d] = faults[d]
  <2>1. CASE pc' = [pc EXCEPT ![c] = "claim"] /\ holds' = [holds EXCEPT ![c] = "held"]
             /\ wire' = wire /\ faults' = faults
    BY ONLY <2>1, <1>t, c \in Calls
  <2>2. CASE /\ pc' = [pc EXCEPT ![c] = "done"] /\ holds' = holds
             /\ wire' = [wire EXCEPT ![c] = {"reserve"}]
             /\ faults' = [faults EXCEPT ![c] = @ \cup {"reserveLost"}]
    <3>1. faults'[c] = faults[c] \cup {"reserveLost"} /\ \A d \in Calls : d # c => faults'[d] = faults[d]
      BY ONLY <2>2, <1>t, c \in Calls
    <3>2. faults'[c] # {}
      BY ONLY <3>1
    <3>3. /\ pc'[c] = "done" /\ holds'[c] = holds[c] /\ wire'[c] = {"reserve"}
          /\ \A d \in Calls : d # c => pc'[d] = pc[d] /\ holds'[d] = holds[d] /\ wire'[d] = wire[d]
      BY ONLY <2>2, <1>t, c \in Calls
    <3> QED BY ONLY <3>1, <3>2, <3>3
  <2> QED BY <1>1, <2>1, <2>2
<1>3. HoldOK(c)
  BY DEF HoldInv
<1>4. HoldOK(c)'
  BY ONLY <1>1, <1>2, <1>3 DEF HoldOK
<1> QED BY <1>1, <1>2, <1>4, OthersHold

\* The compensating release, answered or not.
LEMMA ReleaseKeepsHolds ==
  ASSUME HoldInv, NEW c \in Calls, CheckoutTypeOK', Released(c) \/ ReleaseFails(c)
  PROVE  HoldInv'
<1>1. /\ pc[c] = "release" /\ orders' = orders /\ pc' = [pc EXCEPT ![c] = "done"]
      /\ \/ /\ holds' = [holds EXCEPT ![c] = IF @ = "held" THEN "released" ELSE @]
            /\ wire' = wire /\ faults' = faults
         \/ /\ holds' = holds /\ wire' = [wire EXCEPT ![c] = @ \cup {"release"}]
            /\ faults' = [faults EXCEPT ![c] = @ \cup {"releaseFailed"}]
  BY DEF Released, ReleaseFails, FinishRelease, HoldGivenBack, Goto, Note, database
<1>2. /\ pc'[c] = "done"
      /\ \/ holds'[c] # "held" /\ wire'[c] = wire[c] /\ faults'[c] = faults[c]
         \/ /\ holds'[c] = holds[c] /\ wire'[c] = wire[c] \cup {"release"}
            /\ faults'[c] = faults[c] \cup {"releaseFailed"}
      /\ \A d \in Calls : d # c => /\ pc'[d] = pc[d] /\ holds'[d] = holds[d]
                                   /\ wire'[d] = wire[d] /\ faults'[d] = faults[d]
  BY <1>1 DEF HoldInv, CheckoutTypeOK
<1>3. HoldOK(c)
  BY DEF HoldInv
<1>4. HoldOK(c)'
  BY ONLY <1>1, <1>2, <1>3 DEF HoldOK
<1> QED BY <1>1, <1>2, <1>4, OthersHold

\* What arrives late, is dropped, or is reaped.
LEMMA LateKeepsHolds ==
  ASSUME HoldInv, NEW c \in Calls, CheckoutTypeOK', Network(c) \/ Reap(c)
  PROVE  HoldInv'
<1>1. /\ pc' = pc /\ orders' = orders /\ faults' = faults
      /\ \/ /\ "reserve" \in wire[c] /\ holds' = [holds EXCEPT ![c] = "held"]
            /\ wire' = [wire EXCEPT ![c] = @ \ {"reserve"}]
         \/ /\ "release" \in wire[c] /\ holds' = [holds EXCEPT ![c] = IF @ = "held" THEN "released" ELSE @]
            /\ wire' = [wire EXCEPT ![c] = @ \ {"release"}]
         \/ holds' = holds /\ wire' = [wire EXCEPT ![c] = {}]
         \/ holds[c] = "held" /\ holds' = [holds EXCEPT ![c] = "expired"] /\ wire' = wire
  BY DEF Network, LateReserve, LateRelease, Dropped, Reap, HoldGivenBack, database
<1>2. /\ \/ "reserve" \in wire[c] /\ holds'[c] = "held" /\ wire'[c] = wire[c] \ {"reserve"}
         \/ /\ "release" \in wire[c] /\ wire'[c] = wire[c] \ {"release"}
            /\ holds'[c] = IF holds[c] = "held" THEN "released" ELSE holds[c]
         \/ holds'[c] = holds[c] /\ wire'[c] = {}
         \/ holds[c] = "held" /\ holds'[c] = "expired" /\ wire'[c] = wire[c]
      /\ \A d \in Calls : d # c => holds'[d] = holds[d] /\ wire'[d] = wire[d]
  BY <1>1 DEF HoldInv, CheckoutTypeOK
<1>3. HoldOK(c)
  BY DEF HoldInv
<1>4. HoldOK(c)'
  BY ONLY <1>1, <1>2, <1>3 DEF HoldOK
<1> QED BY <1>1, <1>2, <1>4, OthersHold

\* COMMIT gives the hold an order; without an answer the way out is the release.
LEMMA CommitKeepsHolds ==
  ASSUME HoldInv, NEW c \in Calls, CheckoutTypeOK', Commit(c) \/ CommitAnswerLost(c)
  PROVE  HoldInv'
<1>1. /\ pc[c] = "create" /\ orders' = orders \cup {c} /\ holds' = holds /\ wire' = wire
      /\ \/ pc' = [pc EXCEPT ![c] = "answer"] /\ faults' = faults
         \/ /\ pc' = [pc EXCEPT ![c] = "release"]
            /\ faults' = [faults EXCEPT ![c] = @ \cup {"commitLost"}]
  BY DEF Commit, CommitAnswerLost, Publish, Goto, Note, outside
<1>2. /\ \/ pc'[c] = "answer" /\ faults'[c] = faults[c]
         \/ pc'[c] = "release" /\ faults'[c] = faults[c] \cup {"commitLost"}
      /\ \A d \in Calls : d # c => pc'[d] = pc[d] /\ faults'[d] = faults[d]
  BY <1>1 DEF HoldInv, CheckoutTypeOK
<1>3. HoldOK(c)
  BY DEF HoldInv
<1>4. HoldOK(c)'
  BY ONLY <1>1, <1>2, <1>3 DEF HoldOK
<1> QED BY <1>1, <1>2, <1>4, OthersHold

\* A process that dies leaves its hold to the reaper, and what it had sent under way.
LEMMA CrashKeepsHolds ==
  ASSUME HoldInv, NEW c \in Calls, CheckoutTypeOK', Crash(c)
  PROVE  HoldInv'
<1>1. /\ pc[c] \notin {"idle", "done"} /\ pc' = [pc EXCEPT ![c] = "done"]
      /\ orders' = orders /\ holds' = holds
      /\ wire' = [wire EXCEPT ![c] = @ \cup ({pc[c]} \cap {"reserve", "release"})]
      /\ faults' = [faults EXCEPT ![c] = @ \cup {"crash"}]
  BY DEF Crash, Note
<1>2. /\ pc'[c] = "done" /\ faults'[c] = faults[c] \cup {"crash"}
      /\ wire'[c] = wire[c] \cup ({pc[c]} \cap {"reserve", "release"})
      /\ \A d \in Calls : d # c => /\ pc'[d] = pc[d] /\ wire'[d] = wire[d] /\ faults'[d] = faults[d]
  BY <1>1 DEF HoldInv, CheckoutTypeOK
<1>3. HoldOK(c)
  BY DEF HoldInv
<1>4. HoldOK(c)'
  BY ONLY <1>1, <1>2, <1>3 DEF HoldOK
<1> QED BY <1>1, <1>2, <1>4, OthersHold

\* Holds and orders agree in every reachable state.
THEOREM HoldInvariant == CheckoutSpec => []HoldInv
<1>1. HoldInv /\ [CheckoutNext]_checkoutVars => HoldInv'
  <2> SUFFICES ASSUME HoldInv, [CheckoutNext]_checkoutVars PROVE HoldInv'
    OBVIOUS
  <2>1. CheckoutTypeOK'
    BY TypeStep DEF HoldInv
  <2>2. ASSUME NEW c \in Calls,
               Begin(c) \/ CallProgress(c) \/ TxFails(c) \/ Network(c) \/ Reap(c) \/ Crash(c)
        PROVE  HoldInv'
    BY <2>1, <2>2, PathKeepsHolds, ReserveKeepsHolds, ReleaseKeepsHolds, LateKeepsHolds,
       CommitKeepsHolds, CrashKeepsHolds DEF CallProgress
  <2>3. CASE UNCHANGED checkoutVars
    BY <2>1, <2>3 DEF checkoutVars, HoldInv, HoldOK
  <2> QED BY <2>2, <2>3 DEF CheckoutNext
<1> QED BY <1>1, InitHolds, PTL DEF CheckoutSpec

\* No ordinary outcome of Checkout leaks a hold, and an order loses its own only to a
\* lost COMMIT answer.
THEOREM HoldsBelongToOrders == CheckoutSpec => []HoldsMatchOrders
<1>1. HoldInv => HoldsMatchOrders
  BY DEF HoldInv, HoldOK, HoldsMatchOrders, HoldsAreAccounted, OrdersKeepTheirHold, CheckoutTypeOK
<1> QED BY <1>1, HoldInvariant, PTL

-----------------------------------------------------------------------------
(* OrderSaga.                                                              *)

Pending(o) == status[o] = "pending_payment"
Margin == CheckoutLag + Window + Interval + Lag <= TTL

\* The row of a pending order is in the hands of one of the two: a sweep that has
\* claimed it, or a MarkPaid that has its payment's news.
RowsAreLocked ==
  /\ batch \cap locked = {}
  /\ sweep = "wait" => batch = {}
  /\ \A o \in batch : Pending(o)
  /\ \A o \in locked : Open(<<"PaymentSucceeded", o>>)

\* The event and the status are one.
StatusIsAnnounced ==
  \A o \in Orders :
    /\ <<"OrderPaid", o>> \in events <=> status[o] = "paid"
    /\ <<"OrderCancelled", o>> \in events <=> status[o] = "cancelled"

\* The hold comes before the order and the order before its payment, and the hold
\* ends as the order did or by its TTL.
HoldsFollowOrders ==
  \A o \in Orders :
    /\ hold[o] = "none" => status[o] = "none"
    /\ hold[o] = "committed" => status[o] = "paid"
    /\ hold[o] = "released" => status[o] = "cancelled"
    /\ hold[o] = "expired" => hasExpired(o)
    /\ status[o] = "none" => pay[o] = "none"
    /\ status[o] = "paid" => pay[o] = "succeeded"

\* Until one takes longer, checkout and what a payment sets off end within their bounds.
BoundsAreKept ==
  ~late =>
    \A o \in Orders :
      /\ hold[o] # "none" /\ status[o] = "none" => now <= reserved[o] + CheckoutLag
      /\ status[o] # "none" => created[o] <= reserved[o] + CheckoutLag
      /\ Unfinished(o) => now <= started[o] + Lag

\* While nothing fails: the worker waits at most an Interval, what it leaves stale
\* and unlocked behind a batch was too much for that batch, and no order stays
\* open to a payment for longer than the window and an Interval.
SweptInTime ==
  failures = 0 =>
    /\ wake <= now + Interval
    /\ sweep = "tx" => \A o \in Orders \ (batch \cup locked) : Stale(o) => Cardinality(batch) = BatchSize
    /\ sweep = "wait" /\ now < wake =>
         \A o \in Orders \ locked : Pending(o) => wake < created[o] + Window + Interval
    /\ \A o \in Orders \ locked : Pending(o) => now < created[o] + Window + Interval
    /\ \A o \in Orders : pay[o] # "none" => started[o] < created[o] + Window + Interval

SagaInv ==
  /\ TypeOK
  /\ RowsAreLocked
  /\ StatusIsAnnounced
  /\ HoldsFollowOrders
  /\ BoundsAreKept
  /\ SweptInTime
  /\ MarginSuffices
-----------------------------------------------------------------------------
(* What every step's proof uses.                                           *)

\* The numbers, and their bounds.
LEMMA Numbers ==
  ASSUME TypeOK
  PROVE  /\ now \in Nat /\ wake \in Nat /\ backoff \in Nat /\ failures \in Nat
         /\ \A o \in Orders : created[o] \in Nat /\ reserved[o] \in Nat /\ started[o] \in Nat
         /\ Window \in Nat \ {0} /\ Interval \in Nat \ {0} /\ BatchSize \in Nat \ {0}
         /\ TTL \in Nat /\ MaxBackoff \in Nat /\ CheckoutLag \in Nat /\ Lag \in Nat
         /\ MaxTime \in Nat /\ MaxFailures \in Nat /\ Interval <= MaxBackoff
<1>1. /\ Window \in Nat \ {0} /\ Interval \in Nat \ {0} /\ BatchSize \in Nat \ {0}
      /\ TTL \in Nat /\ MaxBackoff \in Nat /\ CheckoutLag \in Nat /\ Lag \in Nat
      /\ MaxTime \in Nat /\ MaxFailures \in Nat /\ Interval <= MaxBackoff
  BY SagaAssumption DEF SagaAssumption
<1> QED BY <1>1 DEF TypeOK

\* Nothing of it depends on what a stuttering step could change.
LEMMA StutterKeeps == SagaInv /\ UNCHANGED vars => SagaInv'
<1> SUFFICES ASSUME SagaInv, UNCHANGED vars PROVE SagaInv'
  OBVIOUS
<1>1. /\ now' = now /\ late' = late /\ status' = status /\ created' = created /\ hold' = hold /\ reserved' = reserved
      /\ pay' = pay /\ started' = started /\ locked' = locked /\ events' = events
      /\ handled' = handled /\ dead' = dead /\ batch' = batch /\ sweep' = sweep
      /\ wake' = wake /\ backoff' = backoff /\ failures' = failures
  BY DEF vars
<1>2. TypeOK' /\ RowsAreLocked' /\ StatusIsAnnounced'
  BY <1>1 DEF SagaInv, TypeOK, RowsAreLocked, StatusIsAnnounced, Pending, Open
<1>3. HoldsFollowOrders' /\ BoundsAreKept' /\ SweptInTime' /\ MarginSuffices'
  BY <1>1 DEF SagaInv, HoldsFollowOrders, BoundsAreKept, SweptInTime, MarginSuffices, Pending, Open,
              hasExpired, Unfinished, Stale
<1> QED BY <1>2, <1>3 DEF SagaInv

\* No order, no hold, no payment.
LEMMA InitSaga == Init => SagaInv
<1> SUFFICES ASSUME Init PROVE SagaInv
  OBVIOUS
<1>1. /\ now = 0 /\ status = [o \in Orders |-> "none"] /\ created = [o \in Orders |-> 0]
      /\ hold = [o \in Orders |-> "none"] /\ reserved = [o \in Orders |-> 0]
      /\ pay = [o \in Orders |-> "none"] /\ started = [o \in Orders |-> 0]
      /\ locked = {} /\ batch = {} /\ events = {} /\ handled = {} /\ dead = {}
      /\ sweep = "wait" /\ wake = 0 /\ backoff = Interval /\ late = FALSE /\ failures = 0
  BY DEF Init
<1>2. /\ Window \in Nat \ {0} /\ Interval \in Nat \ {0} /\ BatchSize \in Nat \ {0}
      /\ MaxBackoff \in Nat /\ MaxTime \in Nat /\ MaxFailures \in Nat /\ Interval <= MaxBackoff
  BY SagaAssumption DEF SagaAssumption
<1>3. Cardinality({}) = 0
  BY FS_EmptySet
<1>4. TypeOK
  <2>1. late \in BOOLEAN
    BY <1>1
  <2> QED BY <1>1, <1>2, <1>3, <2>1 DEF TypeOK
<1>5. RowsAreLocked /\ StatusIsAnnounced /\ HoldsFollowOrders /\ BoundsAreKept
  BY <1>1 DEF RowsAreLocked, StatusIsAnnounced, HoldsFollowOrders, BoundsAreKept, Unfinished, Open
<1>6. SweptInTime /\ MarginSuffices
  BY <1>1, <1>2 DEF SweptInTime, MarginSuffices, Pending
<1> QED BY <1>4, <1>5, <1>6 DEF SagaInv
-----------------------------------------------------------------------------
(* Checkout and payment.                                                   *)

\* A hold is taken before its order is written.
LEMMA ReservePreserves ==
  ASSUME SagaInv, NEW o \in Orders, ReserveStock(o)
  PROVE  SagaInv'
<1>1. /\ now' = now /\ late' = late /\ status' = status /\ created' = created
      /\ pay' = pay /\ started' = started /\ locked' = locked /\ events' = events
      /\ handled' = handled /\ dead' = dead /\ batch' = batch /\ sweep' = sweep
      /\ wake' = wake /\ backoff' = backoff /\ failures' = failures
      /\ hold[o] = "none"
      /\ hold' = [hold EXCEPT ![o] = "held"] /\ reserved' = [reserved EXCEPT ![o] = now]
  BY DEF ReserveStock, order, clock, payment, delivery, worker
<1>2. TypeOK'
  BY <1>1 DEF SagaInv, TypeOK
<1>3. /\ hold'[o] = "held" /\ reserved'[o] = now
      /\ \A p \in Orders : p # o => hold'[p] = hold[p] /\ reserved'[p] = reserved[p]
  BY <1>1 DEF SagaInv, TypeOK
<1>4. RowsAreLocked' /\ StatusIsAnnounced'
  BY <1>1 DEF SagaInv, RowsAreLocked, StatusIsAnnounced, Pending, Open
<1>5. HoldsFollowOrders'
  BY <1>1, <1>3 DEF SagaInv, HoldsFollowOrders, hasExpired
<1>6. BoundsAreKept'
  <2> SUFFICES ASSUME ~late PROVE BoundsAreKept'
    BY <1>1 DEF BoundsAreKept
  <2>1. now \in Nat /\ CheckoutLag \in Nat /\ status[o] = "none"
    BY <1>1, Numbers DEF SagaInv, HoldsFollowOrders
  <2>2. \A p \in Orders :
          /\ hold'[p] # "none" /\ status'[p] = "none" => now' <= reserved'[p] + CheckoutLag
          /\ status'[p] # "none" => created'[p] <= reserved'[p] + CheckoutLag
    BY <1>1, <1>3, <2>1 DEF SagaInv, BoundsAreKept
  <2>3. \A p \in Orders : Unfinished(p)' => now' <= started'[p] + Lag
    BY <1>1 DEF SagaInv, BoundsAreKept, Unfinished, Open
  <2> QED BY <1>1, <2>2, <2>3 DEF BoundsAreKept
<1>7. SweptInTime' /\ MarginSuffices'
  BY <1>1 DEF SagaInv, SweptInTime, MarginSuffices, Pending, Stale
<1> QED BY <1>2, <1>4, <1>5, <1>6, <1>7 DEF SagaInv

\* An order is written with the whole of its window before it.
LEMMA PlacePreserves ==
  ASSUME SagaInv, NEW o \in Orders, PlaceOrder(o)
  PROVE  SagaInv'
<1>1. /\ now' = now /\ late' = late /\ hold' = hold /\ reserved' = reserved
      /\ pay' = pay /\ started' = started /\ locked' = locked /\ events' = events
      /\ handled' = handled /\ dead' = dead /\ batch' = batch /\ sweep' = sweep
      /\ wake' = wake /\ backoff' = backoff /\ failures' = failures
      /\ hold[o] # "none" /\ status[o] = "none"
      /\ status' = [status EXCEPT ![o] = "pending_payment"] /\ created' = [created EXCEPT ![o] = now]
  BY DEF PlaceOrder, inventory, clock, payment, delivery, worker
<1>2. TypeOK'
  BY <1>1 DEF SagaInv, TypeOK
<1>3. /\ status'[o] = "pending_payment" /\ created'[o] = now
      /\ \A p \in Orders : p # o => status'[p] = status[p] /\ created'[p] = created[p]
      /\ batch \subseteq Orders /\ locked \subseteq Orders
  BY <1>1 DEF SagaInv, TypeOK
<1>n. /\ now \in Nat /\ wake \in Nat /\ Window \in Nat \ {0} /\ Interval \in Nat \ {0}
      /\ CheckoutLag \in Nat
  BY Numbers DEF SagaInv
<1>4. RowsAreLocked'
  BY <1>1, <1>3 DEF SagaInv, RowsAreLocked, Pending, Open
<1>5. StatusIsAnnounced' /\ HoldsFollowOrders'
  BY <1>1, <1>3 DEF SagaInv, StatusIsAnnounced, HoldsFollowOrders, hasExpired
<1>6. BoundsAreKept'
  BY <1>1, <1>3, <1>n DEF SagaInv, BoundsAreKept, Unfinished, Open
<1>7. SweptInTime'
  <2> SUFFICES ASSUME failures = 0 PROVE SweptInTime'
    BY <1>1 DEF SweptInTime
  <2>1. wake' <= now' + Interval
    BY <1>1 DEF SagaInv, SweptInTime
  <2>2. sweep' = "tx" => \A p \in Orders \ (batch \cup locked)' : Stale(p)' => Cardinality(batch') = BatchSize
    BY <1>1, <1>3, <1>n DEF SagaInv, SweptInTime, Stale
  <2>3. \A p \in Orders \ locked' : Pending(p)' =>
          /\ sweep' = "wait" /\ now' < wake' => wake' < created'[p] + Window + Interval
          /\ now' < created'[p] + Window + Interval
    BY <1>1, <1>3, <1>n, <2>1 DEF SagaInv, SweptInTime, Pending
  <2>4. \A p \in Orders : pay'[p] # "none" => started'[p] < created'[p] + Window + Interval
    <3>1. pay[o] = "none"
      BY <1>1 DEF SagaInv, HoldsFollowOrders
    <3> QED BY <1>1, <1>3, <3>1 DEF SagaInv, SweptInTime
  <2> QED BY <2>1, <2>2, <2>3, <2>4 DEF SweptInTime
<1>8. MarginSuffices'
  BY <1>1 DEF SagaInv, MarginSuffices
<1> QED BY <1>2, <1>4, <1>5, <1>6, <1>7, <1>8 DEF SagaInv

\* A payment is begun for an order no sweep was late for, and may yet be declined.
LEMMA PaymentPreserves ==
  ASSUME SagaInv, NEW o \in Orders,
         InitiatePayment(o) \/ SettlePayment(o, "succeeded") \/ SettlePayment(o, "none")
  PROVE  SagaInv'
<1>1. PICK to \in {"pending", "succeeded", "none"} :
        /\ pay' = [pay EXCEPT ![o] = to]
        /\ \/ status[o] = "pending_payment" /\ pay[o] = "none" /\ to = "pending"
                /\ started' = [started EXCEPT ![o] = now]
           \/ pay[o] = "pending" /\ to # "pending" /\ started' = started
  BY DEF InitiatePayment, SettlePayment
<1>2. /\ now' = now /\ late' = late /\ status' = status /\ created' = created /\ hold' = hold /\ reserved' = reserved
      /\ locked' = locked /\ events' = events
      /\ handled' = handled /\ dead' = dead /\ batch' = batch /\ sweep' = sweep
      /\ wake' = wake /\ backoff' = backoff /\ failures' = failures
  BY DEF InitiatePayment, SettlePayment, order, clock, inventory, delivery, worker
<1>3. TypeOK'
  BY <1>1, <1>2 DEF SagaInv, TypeOK
<1>4. /\ pay'[o] = to /\ pay[o] # "succeeded"
      /\ \A p \in Orders : p # o => pay'[p] = pay[p] /\ started'[p] = started[p]
      /\ status[o] # "none"
      /\ \/ started'[o] = now /\ pay[o] = "none" /\ status[o] = "pending_payment"
         \/ started'[o] = started[o] /\ pay[o] = "pending"
  <2>1. pay \in [Orders -> {"none", "pending", "succeeded"}] /\ started \in [Orders -> 0..MaxTime]
    BY DEF SagaInv, TypeOK
  <2>2. pay'[o] = to /\ \A p \in Orders : p # o => pay'[p] = pay[p]
    BY <1>1, <2>1
  <2>3. status[o] = "none" => pay[o] = "none"
    BY DEF SagaInv, HoldsFollowOrders
  <2>4. CASE started' = [started EXCEPT ![o] = now]
    BY <2>1, <2>2, <2>3, <2>4, <1>1
  <2>5. CASE started' = started
    BY <2>1, <2>2, <2>3, <2>5, <1>1
  <2> QED BY <1>1, <2>4, <2>5
<1>n. now \in Nat /\ Lag \in Nat
  BY Numbers DEF SagaInv
<1>5. o \notin locked
  BY <1>4 DEF SagaInv, RowsAreLocked, Open
<1>6. RowsAreLocked'
  <2>1. locked \subseteq Orders
    BY DEF SagaInv, TypeOK
  <2> QED BY <1>2, <1>4, <1>5, <2>1 DEF SagaInv, RowsAreLocked, Pending, Open
<1>7. StatusIsAnnounced' /\ HoldsFollowOrders'
  BY <1>2, <1>4 DEF SagaInv, StatusIsAnnounced, HoldsFollowOrders, hasExpired
<1>8. BoundsAreKept'
  <2> SUFFICES ASSUME ~late PROVE BoundsAreKept'
    BY <1>2 DEF BoundsAreKept
  <2>1. \A p \in Orders : Unfinished(p)' => now' <= started'[p] + Lag
    <3> SUFFICES ASSUME NEW p \in Orders, Unfinished(p)' PROVE now' <= started'[p] + Lag
      OBVIOUS
    <3>1. CASE p # o
      BY <3>1, <1>2, <1>4 DEF SagaInv, BoundsAreKept, Unfinished, Open
    <3>2. CASE p = o /\ started'[o] = now
      BY <3>2, <1>2, <1>n
    <3>3. CASE p = o /\ started'[o] = started[o] /\ pay[o] = "pending"
      BY <3>3, <1>2 DEF SagaInv, BoundsAreKept, Unfinished
    <3> QED BY <3>1, <3>2, <3>3, <1>4
  <2> QED BY <1>2, <2>1 DEF SagaInv, BoundsAreKept
<1>9. SweptInTime'
  <2> SUFFICES ASSUME failures = 0 PROVE SweptInTime'
    BY <1>2 DEF SweptInTime
  <2>1. \A p \in Orders : pay'[p] # "none" => started'[p] < created'[p] + Window + Interval
    BY <1>2, <1>4, <1>5 DEF SagaInv, SweptInTime, Pending
  <2> QED BY <1>2, <2>1 DEF SagaInv, SweptInTime, Pending, Stale
<1>10. MarginSuffices'
  BY <1>2 DEF SagaInv, MarginSuffices
<1> QED BY <1>3, <1>6, <1>7, <1>8, <1>9, <1>10 DEF SagaInv
-----------------------------------------------------------------------------
(* MarkPaid.                                                               *)

\* The news of a payment takes the row, which no sweep has.
LEMMA BeginsPreserves ==
  ASSUME SagaInv, NEW o \in Orders, MarkPaidBegins(o)
  PROVE  SagaInv'
<1>1. /\ now' = now /\ late' = late /\ status' = status /\ created' = created /\ hold' = hold /\ reserved' = reserved
      /\ pay' = pay /\ started' = started /\ events' = events
      /\ handled' = handled /\ dead' = dead /\ batch' = batch /\ sweep' = sweep
      /\ wake' = wake /\ backoff' = backoff /\ failures' = failures
      /\ Open(<<"PaymentSucceeded", o>>) /\ o \notin locked \cup batch
      /\ locked' = locked \cup {o}
  BY DEF MarkPaidBegins, order, inventory, clock, payment, delivery, worker
<1>2. TypeOK'
  BY <1>1 DEF SagaInv, TypeOK
<1>3. RowsAreLocked' /\ StatusIsAnnounced'
  BY <1>1 DEF SagaInv, RowsAreLocked, StatusIsAnnounced, Pending, Open
<1>4. HoldsFollowOrders' /\ BoundsAreKept' /\ MarginSuffices'
  BY <1>1 DEF SagaInv, HoldsFollowOrders, BoundsAreKept, MarginSuffices, hasExpired, Unfinished, Open
<1>5. SweptInTime'
  BY <1>1 DEF SagaInv, SweptInTime, Pending, Stale
<1> QED BY <1>2, <1>3, <1>4, <1>5 DEF SagaInv

\* The claim, the status and OrderPaid are written together, in time for the hold.
LEMMA MarkPaidPreserves ==
  ASSUME SagaInv, NEW o \in Orders, MarkPaid(o)
  PROVE  SagaInv'
<1>1. /\ now' = now /\ late' = late /\ created' = created /\ hold' = hold /\ reserved' = reserved
      /\ pay' = pay /\ started' = started /\ dead' = dead /\ batch' = batch /\ sweep' = sweep
      /\ wake' = wake /\ backoff' = backoff /\ failures' = failures
      /\ o \in locked /\ status[o] = "pending_payment"
      /\ locked' = locked \ {o}
      /\ status' = [p \in Orders |-> IF p \in {o} THEN "paid" ELSE status[p]]
      /\ events' = events \cup {<<"OrderPaid", p>> : p \in {o}}
      /\ handled' = handled \cup {<<"PaymentSucceeded", o>>}
  BY DEF MarkPaid, Update, clock, inventory, clock, payment, worker
<1>2. /\ status'[o] = "paid" /\ \A p \in Orders : p # o => status'[p] = status[p]
      /\ events' = events \cup {<<"OrderPaid", o>>}
      /\ batch \subseteq Orders /\ locked \subseteq Orders /\ o \notin batch
  BY <1>1 DEF SagaInv, TypeOK, RowsAreLocked
<1>3. TypeOK'
  <2>1. status' \in [Orders -> {"none", "pending_payment", "paid", "cancelled"}]
    BY <1>1 DEF SagaInv, TypeOK
  <2>2. <<"OrderPaid", o>> \in Deliveries /\ <<"PaymentSucceeded", o>> \in Deliveries
    BY DEF Deliveries
  <2> QED BY <1>1, <1>2, <2>1, <2>2 DEF SagaInv, TypeOK
<1>4. RowsAreLocked'
  <2>1. \A p \in locked' : Open(<<"PaymentSucceeded", p>>)'
    BY <1>1 DEF SagaInv, RowsAreLocked, Open
  <2> QED BY <1>1, <1>2, <2>1 DEF SagaInv, RowsAreLocked, Pending
<1>5. StatusIsAnnounced' /\ HoldsFollowOrders'
  <2>1. pay[o] = "succeeded"
    BY <1>1 DEF SagaInv, RowsAreLocked, Open
  <2> QED BY <1>1, <1>2, <2>1 DEF SagaInv, StatusIsAnnounced, HoldsFollowOrders, hasExpired
<1>6. BoundsAreKept'
  <2>1. Unfinished(o)
    BY <1>1 DEF SagaInv, RowsAreLocked, Unfinished
  <2>2. \A p \in Orders : Unfinished(p)' => Unfinished(p)
    <3> SUFFICES ASSUME NEW p \in Orders, p # o, Unfinished(p)' PROVE Unfinished(p)
      BY <2>1
    <3> QED BY <1>1, <1>2 DEF Unfinished, Open
  <2> QED BY <1>1, <1>2, <2>2 DEF SagaInv, BoundsAreKept
<1>7. SweptInTime'
  BY <1>1, <1>2 DEF SagaInv, SweptInTime, Pending, Stale
<1>8. MarginSuffices'
  BY <1>1 DEF SagaInv, MarginSuffices
<1> QED BY <1>3, <1>4, <1>5, <1>6, <1>7, <1>8 DEF SagaInv

\* A transaction that fails, or an order that refuses it: the row is given up.
LEMMA UnpaidPreserves ==
  ASSUME SagaInv, NEW o \in Orders, MarkPaidRefused(o) \/ MarkPaidFails(o)
  PROVE  SagaInv'
<1>1. /\ now' = now /\ late' = late /\ status' = status /\ created' = created /\ hold' = hold /\ reserved' = reserved
      /\ pay' = pay /\ started' = started /\ events' = events
      /\ handled' = handled /\ batch' = batch /\ sweep' = sweep
      /\ wake' = wake /\ backoff' = backoff
      /\ o \in locked /\ locked' = locked \ {o}
      /\ dead' \in {dead, dead \cup {<<"PaymentSucceeded", o>>}}
      /\ \/ failures' = failures /\ status[o] = "cancelled"
         \/ failures < MaxFailures /\ failures' = failures + 1
  BY DEF MarkPaidRefused, MarkPaidFails, Fail, order, inventory, clock, payment, worker
<1>2. TypeOK' /\ (failures' = 0 => failures = 0 /\ status[o] = "cancelled")
  <2>1. failures \in Nat /\ MaxFailures \in Nat /\ failures \in 0..MaxFailures
    BY Numbers DEF SagaInv, TypeOK
  <2>2. failures' \in 0..MaxFailures /\ (failures' = 0 => failures = 0 /\ status[o] = "cancelled")
    BY <1>1, <2>1
  <2>3. <<"PaymentSucceeded", o>> \in Deliveries
    BY DEF Deliveries
  <2> QED BY <1>1, <2>2, <2>3 DEF SagaInv, TypeOK
<1>3. RowsAreLocked'
  BY <1>1 DEF SagaInv, RowsAreLocked, Pending, Open
<1>4. StatusIsAnnounced' /\ HoldsFollowOrders'
  BY <1>1 DEF SagaInv, StatusIsAnnounced, HoldsFollowOrders, hasExpired
<1>5. BoundsAreKept'
  BY <1>1 DEF SagaInv, BoundsAreKept, Unfinished, Open
<1>6. SweptInTime'
  BY <1>1, <1>2 DEF SagaInv, SweptInTime, Pending, Stale
<1>7. MarginSuffices'
  <2>1. \A p \in Orders : <<"OrderPaid", p>> \in dead' => <<"OrderPaid", p>> \in dead
    BY <1>1
  <2>2. failures' = 0 /\ ~late' => failures = 0 /\ ~late
    BY <1>1, <1>2
  <2> QED BY <2>1, <2>2 DEF SagaInv, MarginSuffices
<1> QED BY <1>2, <1>3, <1>4, <1>5, <1>6, <1>7 DEF SagaInv
-----------------------------------------------------------------------------
(* The timeout worker.                                                     *)

\* A sweep claims pending rows nobody holds, and more only when the batch is full.
LEMMA ClaimPreserves ==
  ASSUME SagaInv, ClaimStaleOrders
  PROVE  SagaInv'
<1>1. PICK S \in SUBSET Orders : IsBatch(S) /\ batch' = S
  BY DEF ClaimStaleOrders
<1>2. /\ now' = now /\ late' = late /\ status' = status /\ created' = created /\ hold' = hold /\ reserved' = reserved
      /\ pay' = pay /\ started' = started /\ locked' = locked /\ events' = events
      /\ handled' = handled /\ dead' = dead
      /\ wake' = wake /\ backoff' = backoff /\ failures' = failures
      /\ sweep = "wait" /\ sweep' = "tx"
  BY DEF ClaimStaleOrders, order, inventory, clock, payment, delivery
<1>3. /\ Cardinality(S) <= BatchSize /\ S \cap locked = {}
      /\ \A o \in S : Pending(o)
      /\ \A o \in Orders \ (S \cup locked) : Stale(o) => Cardinality(S) = BatchSize
  BY <1>1 DEF IsBatch, Stale, Pending
<1>4. TypeOK'
  BY <1>1, <1>2, <1>3 DEF SagaInv, TypeOK
<1>5. RowsAreLocked'
  BY <1>1, <1>2, <1>3 DEF SagaInv, RowsAreLocked, Pending, Open
<1>6. StatusIsAnnounced' /\ HoldsFollowOrders' /\ BoundsAreKept' /\ MarginSuffices'
  BY <1>2 DEF SagaInv, StatusIsAnnounced, HoldsFollowOrders, BoundsAreKept, MarginSuffices,
              hasExpired, Unfinished, Open
<1>7. SweptInTime'
  BY <1>1, <1>2, <1>3 DEF SagaInv, SweptInTime, Pending, Stale
<1> QED BY <1>4, <1>5, <1>6, <1>7 DEF SagaInv

\* What a sweep has claimed is cancelled and announced, and a sweep that did not fill
\* its batch leaves nothing stale but what is being paid for.
LEMMA ExpirePreserves ==
  ASSUME SagaInv, ExpireStaleOrders
  PROVE  SagaInv'
<1>1. /\ now' = now /\ late' = late /\ created' = created /\ hold' = hold /\ reserved' = reserved
      /\ pay' = pay /\ started' = started /\ locked' = locked
      /\ handled' = handled /\ dead' = dead /\ failures' = failures
      /\ status' = [o \in Orders |-> IF o \in batch THEN "cancelled" ELSE status[o]]
      /\ events' = events \cup {<<"OrderCancelled", o>> : o \in batch}
      /\ batch' = {} /\ sweep = "tx" /\ sweep' = "wait"
      /\ wake' = IF Cardinality(batch) = BatchSize THEN now ELSE now + Interval
      /\ backoff' = Interval
  BY DEF ExpireStaleOrders, Update, inventory, clock, payment, delivery
<1>2. /\ batch \subseteq Orders /\ \A o \in batch : Pending(o) /\ o \notin locked
      /\ \A o \in Orders : status'[o] = IF o \in batch THEN "cancelled" ELSE status[o]
      /\ \A o \in Orders : <<"OrderPaid", o>> \in events' <=> <<"OrderPaid", o>> \in events
      /\ \A o \in Orders : <<"OrderCancelled", o>> \in events' <=>
                             <<"OrderCancelled", o>> \in events \/ o \in batch
  <2>1. batch \subseteq Orders /\ \A o \in batch : Pending(o) /\ o \notin locked
    BY DEF SagaInv, TypeOK, RowsAreLocked
  <2> QED BY <1>1, <2>1
<1>n. /\ now \in Nat /\ Window \in Nat \ {0} /\ Interval \in Nat \ {0} /\ MaxBackoff \in Nat
      /\ Interval <= MaxBackoff /\ BatchSize \in Nat
      /\ \A o \in Orders : created[o] \in Nat
  BY Numbers DEF SagaInv
<1>3. TypeOK'
  <2>1. status' \in [Orders -> {"none", "pending_payment", "paid", "cancelled"}]
    BY <1>1 DEF SagaInv, TypeOK
  <2>2. events' \subseteq Deliveries
    BY <1>1, <1>2 DEF SagaInv, TypeOK, Deliveries
  <2>3. Cardinality(batch') <= BatchSize
    BY <1>1, <1>n, FS_EmptySet
  <2>4. wake' \in Nat /\ backoff' \in Interval..MaxBackoff
    BY <1>1, <1>n
  <2> QED BY <1>1, <2>1, <2>2, <2>3, <2>4 DEF SagaInv, TypeOK
<1>4. RowsAreLocked'
  BY <1>1 DEF SagaInv, RowsAreLocked, Open
<1>5. StatusIsAnnounced' /\ HoldsFollowOrders'
  BY <1>1, <1>2 DEF SagaInv, StatusIsAnnounced, HoldsFollowOrders, hasExpired, Pending
<1>6. BoundsAreKept'
  <2>1. \A o \in Orders : Unfinished(o)' <=> Unfinished(o)
    BY <1>1, <1>2 DEF Unfinished, Open
  <2>2. \A o \in Orders : status'[o] = "none" <=> status[o] = "none"
    BY <1>2 DEF Pending
  <2> QED BY <1>1, <2>1, <2>2 DEF SagaInv, BoundsAreKept
<1>7. SweptInTime'
  <2> SUFFICES ASSUME failures = 0 PROVE SweptInTime'
    BY <1>1 DEF SweptInTime
  <2>1. wake' <= now' + Interval
    BY <1>1, <1>n
  <2>2. \A o \in Orders \ locked : Pending(o)' => Pending(o) /\ o \notin batch
    BY <1>2 DEF Pending
  <2>3. sweep' = "wait" /\ now' < wake' =>
          \A o \in Orders \ locked' : Pending(o)' => wake' < created'[o] + Window + Interval
    <3> SUFFICES ASSUME now < wake', NEW o \in Orders \ locked, Pending(o)'
                 PROVE  wake' < created[o] + Window + Interval
      BY <1>1
    <3>1. Cardinality(batch) # BatchSize /\ wake' = now + Interval
      BY <1>1, <1>n
    <3>2. ~Stale(o)
      BY <1>1, <2>2, <3>1 DEF SagaInv, SweptInTime
    <3> QED BY <2>2, <3>1, <3>2, <1>n DEF Stale, Pending
  <2>4. \A o \in Orders \ locked' : Pending(o)' => now' < created'[o] + Window + Interval
    BY <1>1, <2>2 DEF SagaInv, SweptInTime
  <2>5. \A o \in Orders : pay'[o] # "none" => started'[o] < created'[o] + Window + Interval
    BY <1>1 DEF SagaInv, SweptInTime
  <2> QED BY <1>1, <2>1, <2>3, <2>4, <2>5 DEF SweptInTime
<1>8. MarginSuffices'
  BY <1>1 DEF SagaInv, MarginSuffices
<1> QED BY <1>3, <1>4, <1>5, <1>6, <1>7, <1>8 DEF SagaInv

\* A sweep that fails puts everything back, and the wait before the next one doubles
\* up to its bound.
LEMMA SweepFailsPreserves ==
  ASSUME SagaInv, SweepFails
  PROVE  SagaInv'
<1>1. /\ now' = now /\ late' = late /\ status' = status /\ created' = created /\ hold' = hold /\ reserved' = reserved
      /\ pay' = pay /\ started' = started /\ locked' = locked /\ events' = events
      /\ handled' = handled /\ dead' = dead
      /\ failures < MaxFailures /\ failures' = failures + 1
      /\ batch' = {} /\ sweep' = "wait" /\ wake' = now + backoff
      /\ backoff' = IF 2 * backoff > MaxBackoff THEN MaxBackoff ELSE 2 * backoff
  BY DEF SweepFails, BacksOff, Fail, order, inventory, clock, payment, delivery
<1>n. /\ now \in Nat /\ backoff \in Nat /\ Interval \in Nat \ {0} /\ MaxBackoff \in Nat
      /\ Interval <= MaxBackoff /\ BatchSize \in Nat /\ failures \in Nat /\ MaxFailures \in Nat
      /\ backoff \in Interval..MaxBackoff
  BY Numbers DEF SagaInv, TypeOK
<1>2. TypeOK' /\ failures' # 0
  <2>1. Cardinality(batch') <= BatchSize
    BY <1>1, <1>n, FS_EmptySet
  <2>2. wake' \in Nat /\ backoff' \in Interval..MaxBackoff /\ failures' \in 0..MaxFailures /\ failures' # 0
    BY <1>1, <1>n
  <2> QED BY <1>1, <2>1, <2>2 DEF SagaInv, TypeOK
<1>3. RowsAreLocked' /\ StatusIsAnnounced' /\ HoldsFollowOrders'
  BY <1>1 DEF SagaInv, RowsAreLocked, StatusIsAnnounced, HoldsFollowOrders, hasExpired, Open
<1>4. BoundsAreKept'
  BY <1>1 DEF SagaInv, BoundsAreKept, Unfinished, Open
<1>5. SweptInTime' /\ MarginSuffices'
  BY <1>2 DEF SweptInTime, MarginSuffices
<1> QED BY <1>2, <1>3, <1>4, <1>5 DEF SagaInv

\* What a sweep cancelled whose COMMIT answer was lost is cancelled and announced; only
\* the worker waits as after a failure.
LEMMA AnswerLostPreserves ==
  ASSUME SagaInv, SweepAnswerLost
  PROVE  SagaInv'
<1>1. /\ now' = now /\ late' = late /\ created' = created /\ hold' = hold /\ reserved' = reserved
      /\ pay' = pay /\ started' = started /\ locked' = locked
      /\ handled' = handled /\ dead' = dead
      /\ status' = [o \in Orders |-> IF o \in batch THEN "cancelled" ELSE status[o]]
      /\ events' = events \cup {<<"OrderCancelled", o>> : o \in batch}
      /\ failures < MaxFailures /\ failures' = failures + 1
      /\ batch' = {} /\ sweep' = "wait" /\ wake' = now + backoff
      /\ backoff' = IF 2 * backoff > MaxBackoff THEN MaxBackoff ELSE 2 * backoff
  BY DEF SweepAnswerLost, BacksOff, Update, Fail, clock, inventory, payment, delivery
<1>2. /\ batch \subseteq Orders /\ \A o \in batch : Pending(o)
      /\ \A o \in Orders : status'[o] = IF o \in batch THEN "cancelled" ELSE status[o]
      /\ \A o \in Orders : <<"OrderPaid", o>> \in events' <=> <<"OrderPaid", o>> \in events
      /\ \A o \in Orders : <<"OrderCancelled", o>> \in events' <=>
                             <<"OrderCancelled", o>> \in events \/ o \in batch
  <2>1. batch \subseteq Orders /\ \A o \in batch : Pending(o)
    BY DEF SagaInv, TypeOK, RowsAreLocked
  <2> QED BY <1>1, <2>1
<1>n. /\ now \in Nat /\ backoff \in Nat /\ Interval \in Nat \ {0} /\ MaxBackoff \in Nat
      /\ Interval <= MaxBackoff /\ BatchSize \in Nat /\ failures \in Nat /\ MaxFailures \in Nat
      /\ backoff \in Interval..MaxBackoff
  BY Numbers DEF SagaInv, TypeOK
<1>3. TypeOK' /\ failures' # 0
  <2>1. status' \in [Orders -> {"none", "pending_payment", "paid", "cancelled"}]
    BY <1>1 DEF SagaInv, TypeOK
  <2>2. events' \subseteq Deliveries
    BY <1>1, <1>2 DEF SagaInv, TypeOK, Deliveries
  <2>3. Cardinality(batch') <= BatchSize
    BY <1>1, <1>n, FS_EmptySet
  <2>4. wake' \in Nat /\ backoff' \in Interval..MaxBackoff /\ failures' \in 0..MaxFailures /\ failures' # 0
    BY <1>1, <1>n
  <2> QED BY <1>1, <2>1, <2>2, <2>3, <2>4 DEF SagaInv, TypeOK
<1>4. RowsAreLocked'
  BY <1>1 DEF SagaInv, RowsAreLocked, Open
<1>5. StatusIsAnnounced' /\ HoldsFollowOrders'
  BY <1>1, <1>2 DEF SagaInv, StatusIsAnnounced, HoldsFollowOrders, hasExpired, Pending
<1>6. BoundsAreKept'
  <2>1. \A o \in Orders : Unfinished(o)' <=> Unfinished(o)
    BY <1>1, <1>2 DEF Unfinished, Open
  <2>2. \A o \in Orders : status'[o] = "none" <=> status[o] = "none"
    BY <1>2 DEF Pending
  <2> QED BY <1>1, <2>1, <2>2 DEF SagaInv, BoundsAreKept
<1>7. SweptInTime' /\ MarginSuffices'
  BY <1>3 DEF SweptInTime, MarginSuffices
<1> QED BY <1>3, <1>4, <1>5, <1>6, <1>7 DEF SagaInv
-----------------------------------------------------------------------------
(* CommitReservation and ReleaseReservation.                               *)

\* While nothing fails and the margin is wide enough, a paid order's event finds its
\* hold: committed already, or held and not expired.
LEMMA HoldIsInTime ==
  ASSUME SagaInv, NEW o \in Orders, Open(<<"OrderPaid", o>>), failures = 0, ~late, Margin
  PROVE  Committable(o)
<1>1. /\ now \in Nat /\ created[o] \in Nat /\ reserved[o] \in Nat /\ started[o] \in Nat
      /\ Window \in Nat /\ Interval \in Nat /\ Lag \in Nat /\ CheckoutLag \in Nat /\ TTL \in Nat
  BY Numbers DEF SagaInv
<1>2. status[o] = "paid"
  BY DEF SagaInv, StatusIsAnnounced, Open
<1>3. now <= started[o] + Lag /\ created[o] <= reserved[o] + CheckoutLag
  BY <1>2 DEF SagaInv, BoundsAreKept, Unfinished
<1>4. started[o] < created[o] + Window + Interval
  BY <1>2 DEF SagaInv, SweptInTime, HoldsFollowOrders
<1>5. ~hasExpired(o)
  BY <1>1, <1>3, <1>4 DEF hasExpired, Margin
<1>6. hold[o] \in {"none", "held", "committed", "released", "expired"}
  BY DEF SagaInv, TypeOK
<1>7. hold[o] \notin {"none", "released", "expired"}
  BY <1>2, <1>5 DEF SagaInv, HoldsFollowOrders
<1> QED BY <1>5, <1>6, <1>7 DEF Committable

\* Stock is sold for a paid order and given back for a cancelled one, whether the
\* claim commits or the event comes again.
LEMMA SettledPreserves ==
  ASSUME SagaInv, NEW o \in Orders, CommitReservation(o) \/ ReleaseReservation(o)
  PROVE  SagaInv'
<1>1. /\ now' = now /\ late' = late /\ status' = status /\ created' = created /\ reserved' = reserved
      /\ pay' = pay /\ started' = started /\ locked' = locked /\ events' = events
      /\ dead' = dead /\ batch' = batch /\ sweep' = sweep
      /\ wake' = wake /\ backoff' = backoff
  BY DEF CommitReservation, ReleaseReservation, order, clock, payment, worker
<1>2. PICK d \in Deliveries :
        /\ d[1] # "PaymentSucceeded"
        /\ \/ handled' = handled \cup {d} /\ failures' = failures
           \/ failures < MaxFailures /\ failures' = failures + 1 /\ handled' = handled
  <2>1. <<"OrderPaid", o>> \in Deliveries /\ <<"OrderCancelled", o>> \in Deliveries
    BY DEF Deliveries
  <2> QED BY <2>1 DEF CommitReservation, ReleaseReservation, Recorded, Fail
<1>3. \/ status[o] = "paid" /\ hold' = [hold EXCEPT ![o] = "committed"]
      \/ status[o] = "cancelled"
           /\ hold' = [hold EXCEPT ![o] = IF hold[o] = "held" THEN "released" ELSE hold[o]]
  BY DEF SagaInv, StatusIsAnnounced, CommitReservation, ReleaseReservation, Open, Sold, GivenBack
<1>4. TypeOK' /\ (failures' = 0 => failures = 0)
  <2>1. failures \in Nat /\ MaxFailures \in Nat /\ failures \in 0..MaxFailures
    BY Numbers DEF SagaInv, TypeOK
  <2>2. failures' \in 0..MaxFailures /\ (failures' = 0 => failures = 0)
    BY <1>2, <2>1
  <2>3. hold' \in [Orders -> {"none", "held", "committed", "released", "expired"}]
    BY <1>3 DEF SagaInv, TypeOK
  <2>4. handled' \subseteq Deliveries
    BY <1>2 DEF SagaInv, TypeOK
  <2> QED BY <1>1, <2>2, <2>3, <2>4 DEF SagaInv, TypeOK
<1>5. /\ \A p \in Orders : p # o => hold'[p] = hold[p]
      /\ hold'[o] = "committed" => status[o] = "paid" \/ hold[o] = "committed"
      /\ hold'[o] = "released" => status[o] = "cancelled"
      /\ hold'[o] = "expired" => hold[o] = "expired"
      /\ hold'[o] = "none" => hold[o] = "none"
      /\ status[o] # "none"
  BY <1>3 DEF SagaInv, TypeOK, HoldsFollowOrders
<1>6. \A p \in Orders : Open(<<"PaymentSucceeded", p>>)' <=> Open(<<"PaymentSucceeded", p>>)
  BY <1>1, <1>2 DEF Open
<1>7. RowsAreLocked' /\ StatusIsAnnounced'
  <2>1. locked \subseteq Orders
    BY DEF SagaInv, TypeOK
  <2> QED BY <1>1, <1>6, <2>1 DEF SagaInv, RowsAreLocked, StatusIsAnnounced, Pending
<1>8. HoldsFollowOrders'
  BY <1>1, <1>5 DEF SagaInv, HoldsFollowOrders, hasExpired
<1>9. BoundsAreKept'
  <2>1. \A p \in Orders : Unfinished(p)' => Unfinished(p)
    BY <1>1, <1>2, <1>6 DEF Unfinished, Open
  <2> QED BY <1>1, <1>5, <2>1 DEF SagaInv, BoundsAreKept
<1>10. SweptInTime' /\ MarginSuffices'
  BY <1>1, <1>4 DEF SagaInv, SweptInTime, MarginSuffices, Pending, Stale
<1> QED BY <1>4, <1>7, <1>8, <1>9, <1>10 DEF SagaInv

\* A delivery is given up: inventory refused it for good, or an outage outlasted the
\* attempts.  A paid order's event is given up only if something failed or the margin
\* is too narrow.
LEMMA DeadPreserves ==
  ASSUME SagaInv, (\E o \in Orders : CommitRefused(o)) \/ (\E d \in Deliveries : DeadLettered(d))
  PROVE  SagaInv'
<1>1. /\ now' = now /\ late' = late /\ status' = status /\ created' = created /\ hold' = hold /\ reserved' = reserved
      /\ pay' = pay /\ started' = started /\ locked' = locked /\ events' = events
      /\ handled' = handled /\ batch' = batch /\ sweep' = sweep
      /\ wake' = wake /\ backoff' = backoff
  BY DEF CommitRefused, DeadLettered, order, inventory, clock, payment, worker
<1>2. PICK d \in Deliveries :
        /\ d[1] # "PaymentSucceeded" /\ dead' = dead \cup {d}
        /\ \/ failures < MaxFailures /\ failures' = failures + 1
           \/ failures' = failures /\ \E o \in Orders : CommitRefused(o) /\ d = <<"OrderPaid", o>>
  <2>1. \A o \in Orders : <<"OrderPaid", o>> \in Deliveries
    BY DEF Deliveries
  <2>2. CASE \E o \in Orders : CommitRefused(o)
    BY <2>1, <2>2 DEF CommitRefused
  <2>3. CASE \E d \in Deliveries : DeadLettered(d)
    BY <2>3 DEF DeadLettered, Fail
  <2> QED BY <2>2, <2>3
<1>3. TypeOK' /\ (failures' = 0 => failures = 0 /\ failures' = failures)
  <2>1. failures \in Nat /\ MaxFailures \in Nat /\ failures \in 0..MaxFailures
    BY Numbers DEF SagaInv, TypeOK
  <2>2. failures' \in 0..MaxFailures /\ (failures' = 0 => failures = 0 /\ failures' = failures)
    BY <1>2, <2>1
  <2> QED BY <1>1, <1>2, <2>2 DEF SagaInv, TypeOK
<1>4. \A p \in Orders : Open(<<"PaymentSucceeded", p>>)' <=> Open(<<"PaymentSucceeded", p>>)
  BY <1>1, <1>2 DEF Open
<1>5. RowsAreLocked' /\ StatusIsAnnounced' /\ HoldsFollowOrders'
  <2>1. locked \subseteq Orders
    BY DEF SagaInv, TypeOK
  <2> QED BY <1>1, <1>4, <2>1 DEF SagaInv, RowsAreLocked, StatusIsAnnounced, HoldsFollowOrders, Pending, hasExpired
<1>6. BoundsAreKept'
  <2>1. \A p \in Orders : Unfinished(p)' => Unfinished(p)
    BY <1>1, <1>2, <1>4 DEF Unfinished, Open
  <2> QED BY <1>1, <2>1 DEF SagaInv, BoundsAreKept
<1>7. SweptInTime'
  BY <1>1, <1>3 DEF SagaInv, SweptInTime, Pending, Stale
<1>8. MarginSuffices'
  <2> SUFFICES ASSUME Margin, failures' = 0, ~late' PROVE \A o \in Orders : <<"OrderPaid", o>> \notin dead'
    BY DEF MarginSuffices, Margin
  <2>1. failures = 0 /\ failures' = failures /\ ~late
    BY <1>1, <1>3
  <2>2. failures # failures + 1
    BY Numbers DEF SagaInv
  <2>3. PICK o \in Orders : CommitRefused(o) /\ d = <<"OrderPaid", o>>
    BY <1>2, <2>1, <2>2
  <2>4. FALSE
    BY <2>1, <2>3, HoldIsInTime DEF CommitRefused
  <2> QED BY <2>4
<1> QED BY <1>3, <1>5, <1>6, <1>7, <1>8 DEF SagaInv

\* The reaper takes a hold whose TTL has passed.
LEMMA ReapPreserves ==
  ASSUME SagaInv, NEW o \in Orders, ExpireReservation(o)
  PROVE  SagaInv'
<1>1. /\ now' = now /\ late' = late /\ status' = status /\ created' = created /\ reserved' = reserved
      /\ pay' = pay /\ started' = started /\ locked' = locked /\ events' = events
      /\ handled' = handled /\ dead' = dead /\ batch' = batch /\ sweep' = sweep
      /\ wake' = wake /\ backoff' = backoff /\ failures' = failures
      /\ hold[o] = "held" /\ hasExpired(o)
      /\ hold' = [hold EXCEPT ![o] = "expired"]
  BY DEF ExpireReservation, order, clock, payment, delivery, worker
<1>2. TypeOK'
  BY <1>1 DEF SagaInv, TypeOK
<1>3. hold'[o] = "expired" /\ \A p \in Orders : p # o => hold'[p] = hold[p]
  BY <1>1 DEF SagaInv, TypeOK
<1>4. RowsAreLocked' /\ StatusIsAnnounced' /\ HoldsFollowOrders'
  BY <1>1, <1>3 DEF SagaInv, RowsAreLocked, StatusIsAnnounced, HoldsFollowOrders, Pending, Open, hasExpired
<1>5. BoundsAreKept'
  BY <1>1, <1>3 DEF SagaInv, BoundsAreKept, Unfinished, Open
<1>6. SweptInTime' /\ MarginSuffices'
  BY <1>1 DEF SagaInv, SweptInTime, MarginSuffices, Pending, Stale
<1> QED BY <1>2, <1>4, <1>5, <1>6 DEF SagaInv
-----------------------------------------------------------------------------
(* Time.                                                                   *)

\* The clock moves only when no sweep is due and no transaction open, and remembers what
\* was overdue.
LEMMA TickPreserves ==
  ASSUME SagaInv, Tick
  PROVE  SagaInv'
<1>1. /\ now < MaxTime /\ sweep = "wait" /\ now < wake /\ now' = now + 1
      /\ late' = (late \/ \E o \in Orders : Overdue(o))
      /\ status' = status /\ created' = created /\ hold' = hold /\ reserved' = reserved
      /\ pay' = pay /\ started' = started /\ locked' = locked /\ events' = events
      /\ handled' = handled /\ dead' = dead /\ batch' = batch /\ sweep' = sweep
      /\ wake' = wake /\ backoff' = backoff /\ failures' = failures
  BY DEF Tick, order, inventory, payment, delivery, worker
<1>n. /\ now \in Nat /\ wake \in Nat /\ MaxTime \in Nat
      /\ Window \in Nat \ {0} /\ Interval \in Nat \ {0} /\ TTL \in Nat /\ CheckoutLag \in Nat /\ Lag \in Nat
      /\ \A o \in Orders : created[o] \in Nat /\ reserved[o] \in Nat /\ started[o] \in Nat
  BY Numbers DEF SagaInv
<1>2. TypeOK'
  <2>1. now' \in 0..MaxTime
    BY <1>1, <1>n
  <2>2. late' \in BOOLEAN
    BY <1>1
  <2> QED BY <1>1, <2>1, <2>2 DEF SagaInv, TypeOK
<1>3. RowsAreLocked' /\ StatusIsAnnounced'
  BY <1>1 DEF SagaInv, RowsAreLocked, StatusIsAnnounced, Pending, Open
<1>4. HoldsFollowOrders'
  <2>1. \A o \in Orders : hasExpired(o) => hasExpired(o)'
    BY <1>1, <1>n DEF hasExpired
  <2> QED BY <1>1, <2>1 DEF SagaInv, HoldsFollowOrders
<1>5. BoundsAreKept'
  <2>t. ~late' => ~late /\ \A o \in Orders : ~Overdue(o)
    BY <1>1
  <2> SUFFICES ASSUME NEW o \in Orders, ~late'
               PROVE  /\ hold[o] # "none" /\ status[o] = "none" => now + 1 <= reserved[o] + CheckoutLag
                      /\ Unfinished(o)' => now + 1 <= started[o] + Lag
    BY <1>1, <2>t DEF SagaInv, BoundsAreKept
  <2>1. Unfinished(o)' <=> Unfinished(o)
    BY <1>1 DEF Unfinished, Open
  <2>2. hold[o] # "none" /\ status[o] = "none" => ~(reserved[o] + CheckoutLag <= now)
    BY <2>t DEF Overdue
  <2>3. Unfinished(o) => ~(started[o] + Lag <= now)
    BY <2>t DEF Overdue
  <2> QED BY <1>n, <2>1, <2>2, <2>3
<1>6. SweptInTime'
  <2> SUFFICES ASSUME failures = 0 PROVE SweptInTime'
    BY <1>1 DEF SweptInTime
  <2>1. wake' <= now' + Interval
    BY <1>1, <1>n DEF SagaInv, SweptInTime
  <2>2. \A o \in Orders \ locked : Pending(o) => wake < created[o] + Window + Interval
    BY <1>1 DEF SagaInv, SweptInTime
  <2>3. \A o \in Orders \ locked : Pending(o) => now + 1 < created[o] + Window + Interval
    BY <1>1, <1>n, <2>2
  <2>4. \A o \in Orders : pay[o] # "none" => started[o] < created[o] + Window + Interval
    BY DEF SagaInv, SweptInTime
  <2> QED BY <1>1, <2>1, <2>2, <2>3, <2>4 DEF SweptInTime, Pending
<1>7. MarginSuffices'
  BY <1>1 DEF SagaInv, MarginSuffices
<1> QED BY <1>2, <1>3, <1>4, <1>5, <1>6, <1>7 DEF SagaInv
-----------------------------------------------------------------------------
(* The theorems.                                                           *)

\* Orders, holds, payments, events and the clock agree in every state the services
\* can reach.
THEOREM SagaInvariant == Spec => []SagaInv
<1>1. SagaInv /\ [Next]_vars => SagaInv'
  <2> SUFFICES ASSUME SagaInv, Next PROVE SagaInv'
    BY StutterKeeps
  <2>1. ASSUME NEW o \in Orders,
               \/ ReserveStock(o) \/ PlaceOrder(o) \/ InitiatePayment(o)
               \/ SettlePayment(o, "succeeded") \/ SettlePayment(o, "none")
               \/ Progress(o) \/ MarkPaidFails(o)
        PROVE  SagaInv'
    <3>1. CASE ReserveStock(o)
      BY <3>1, ReservePreserves
    <3>2. CASE PlaceOrder(o)
      BY <3>2, PlacePreserves
    <3>3. CASE InitiatePayment(o) \/ SettlePayment(o, "succeeded") \/ SettlePayment(o, "none")
      BY <3>3, PaymentPreserves
    <3>4. CASE MarkPaidBegins(o)
      BY <3>4, BeginsPreserves
    <3>5. CASE MarkPaid(o)
      BY <3>5, MarkPaidPreserves
    <3>6. CASE MarkPaidRefused(o) \/ MarkPaidFails(o)
      BY <3>6, UnpaidPreserves
    <3>7. CASE CommitReservation(o) \/ ReleaseReservation(o)
      BY <3>7, SettledPreserves
    <3>8. CASE CommitRefused(o)
      BY <3>8, DeadPreserves
    <3>9. CASE ExpireReservation(o)
      BY <3>9, ReapPreserves
    <3> QED BY <2>1, <3>1, <3>2, <3>3, <3>4, <3>5, <3>6, <3>7, <3>8, <3>9 DEF Progress
  <2>2. CASE ClaimStaleOrders \/ ExpireStaleOrders \/ SweepFails \/ SweepAnswerLost
    BY <2>2, ClaimPreserves, ExpirePreserves, SweepFailsPreserves, AnswerLostPreserves
  <2>3. CASE \E d \in Deliveries : DeadLettered(d)
    BY <2>3, DeadPreserves
  <2>4. CASE Tick
    BY <2>4, TickPreserves
  <2> QED BY <2>1, <2>2, <2>3, <2>4 DEF Next
<1> QED BY <1>1, InitSaga, PTL DEF Spec

\* MarkPaid against ExpireStaleOrders, for one row: an order is announced as paid or as
\* cancelled and never as both, and its stock is sold only under the first.
THEOREM OneOutcomeOnly == Spec => []OutcomesAgree
<1>1. SagaInv => OutcomesAgree
  BY DEF SagaInv, OutcomesAgree, OneOutcome, StatusIsAnnounced, HoldsFollowOrders
<1> QED BY <1>1, SagaInvariant, PTL

\* PaymentWindow against INVENTORY_RESERVATION_TTL: with a margin of a sweep interval
\* and what checkout and payment take, and no failures, no paid order is given up.
THEOREM MarginIsEnough == Spec => []MarginSuffices
<1>1. SagaInv => MarginSuffices
  BY DEF SagaInv
<1> QED BY <1>1, SagaInvariant, PTL
=============================================================================
