--------------------------- MODULE PaymentProofs ---------------------------
(***************************************************************************)
(* One payment per order, true records and answers, and no decision lost,  *)
(* for every number of calls, callbacks, keys, orders and faults.          *)
(***************************************************************************)
EXTENDS Payment, TLAPS

Exists(p) == payments[p].status # "absent"

\* A key names one attempt, the one that was committed with it, and is being
\* inserted by the call that has found it free.
KeysAgree ==
  /\ \A k \in Keys : claims[k] # None => Exists(claims[k]) /\ KeyOf[claims[k]] = k
  /\ \A c \in Calls : Exists(c) => claims[KeyOf[c]] = c
  /\ \A k \in Keys : inserting[k] # None => pc[inserting[k]] = "create" /\ KeyOf[inserting[k]] = k
  /\ \A c \in Calls : pc[c] = "create" => inserting[KeyOf[c]] = c /\ Claim(c) = None

\* The attempt is written before the money is asked for.
AttemptFirst ==
  \A c \in Calls :
    /\ pc[c] \in {"idle", "claim", "create"} => ~Exists(c)
    /\ pc[c] \in {"charge", "wait", "settle", "apply"} => Exists(c)
    /\ pc[c] \in {"idle", "claim", "create", "charge"} => request[c] = "none"
    /\ request[c] # "none" => Exists(c)

\* The provider keeps a charge for what it took, and what it decides is final.
ChargesAreKept ==
  \A p \in Calls :
    /\ request[p] \in {"none", "sent", "hung"} => charge[p] = "none" /\ due[p] = 0
    /\ request[p] \in {"answered", "sending"} =>
         /\ behaviour[p] \in Behaviours /\ charge[p] \in Statuses
         /\ store(behaviour[p]) \in Settled => charge[p] = store(behaviour[p])

\* The version of a row tells how far it has come.
RowsAreSound ==
  \A p \in Calls :
    /\ payments[p].status = "absent" => payments[p] = NoRow
    /\ payments[p].status = "pending" => payments[p].version = IF payments[p].ref = "none" THEN 1 ELSE 2
    /\ payments[p].status \in Settled => payments[p].ref # "none" /\ payments[p].version \in 2..3

\* A settling transaction holds the row it has read, so the row is still so.
LocksAreHeld ==
  /\ \A p \in Calls : rowLock[p] # None => pc[rowLock[p]] = "apply" /\ message[rowLock[p]].payment = p
  /\ \A s \in Settlers : pc[s] = "apply" =>
       /\ rowLock[message[s].payment] = s
       /\ seen[s] = payments[message[s].payment]
       /\ Exists(message[s].payment)

\* A message is in the hands of whoever is about to settle it, and says what the
\* provider did unless the provider contradicts itself about the attempt.
Truthful(m) ==
  m.payment \notin odd =>
    /\ m.ref = "charge"
    /\ request[m.payment] # "none"
    /\ m.status \in Settled => charge[m.payment] = m.status

MessagesAreTrue ==
  /\ \A s \in Settlers : pc[s] \in {"settle", "apply"} <=> message[s] # None
  /\ \A c \in Calls : message[c] # None => message[c].payment = c
  /\ \A s \in Settlers : message[s] # None => Truthful(message[s])

RefsAreTrue == \A p \in Calls \ odd : payments[p].ref \in {"none", "charge"}

\* The decision about p is in the row or on its way to it.
Carried(p) == \E s \in Settlers : message[s] # None /\ message[s].payment = p /\ message[s].status = charge[p]
News(p) ==
  \/ payments[p].status = charge[p]
  \/ due[p] > 0
  \/ pc[p] = "wait" /\ request[p] = "answered" /\ store(behaviour[p]) = charge[p]
  \/ Carried(p)

DecisionsAreNews ==
  \A p \in Calls \ (faults \cup odd) :
    /\ request[p] = "sent" => pc[p] = "wait"
    /\ request[p] = "sending" => charge[p] = "pending" /\ behaviour[p] = "webhookFirst"
    /\ charge[p] \in Settled => News(p)

PaymentInv ==
  /\ TypeOK
  /\ KeysAgree
  /\ AttemptFirst
  /\ ChargesAreKept
  /\ RowsAreSound
  /\ LocksAreHeld
  /\ MessagesAreTrue
  /\ RefsAreTrue
  /\ DecisionsAreNews
  /\ OneUnresolvedPerOrder
  /\ RecordsMatchProvider
  /\ AnnouncedOnce
  /\ AnswersAreAttempts
-----------------------------------------------------------------------------
(* What the aggregate does with a message.                                 *)

\* The shape RowsAreSound gives a row.
Sound(row) ==
  /\ row \in Row /\ row.status # "absent"
  /\ row.status \in Settled => row.ref # "none"

Told(m) == IF m.status \in Settled THEN m.status ELSE "pending"

\* apply moves a pending attempt to what it was told and names it, raising one
\* event if that ends it.
LEMMA ApplyMoves ==
  ASSUME NEW row, Sound(row), NEW m \in Message, apply(row, m).kind = "moved"
  PROVE  /\ row.status = "pending" /\ row.ref \in {"none", m.ref}
         /\ apply(row, m).row \in Row
         /\ apply(row, m).row.status = Told(m)
         /\ apply(row, m).row.ref = m.ref
         /\ apply(row, m).raised = IF m.status \in Settled THEN {m.status} ELSE {}
         /\ m.status \notin Settled => row.ref = "none"
<1>1. row \in Row /\ row.status \in {"pending", "succeeded", "failed"} /\ row.ref \in References \cup {"none"}
  BY DEF Sound, Row, Statuses
<1>2. m.status \in {"pending", "succeeded", "failed"} /\ m.ref \in References
  BY DEF Message, Statuses
<1> DEFINE attached == AttachProviderReference(row, m.ref)
<1>3. \/ row.ref = "none" /\ attached = Moved([row EXCEPT !.ref = m.ref], {})
      \/ row.ref = m.ref /\ row.ref # "none" /\ attached = Unmoved(row)
      \/ row.ref \notin {"none", m.ref} /\ attached = Refused(row)
  BY <1>2 DEF AttachProviderReference, References
<1>4. CASE m.status = "pending"
  <2>1. apply(row, m) = attached
    BY <1>4 DEF apply
  <2>2. row.ref = "none" /\ attached = Moved([row EXCEPT !.ref = m.ref], {})
    BY <2>1, <1>3 DEF Unmoved, Refused
  <2>3. row.status = "pending"
    BY <2>2, <1>1 DEF Sound, Settled
  <2>4. [row EXCEPT !.ref = m.ref] \in Row
    BY <1>1, <1>2 DEF Row
  <2>5. apply(row, m).row = [row EXCEPT !.ref = m.ref] /\ apply(row, m).raised = {}
    BY <2>1, <2>2 DEF Moved
  <2> QED BY <2>2, <2>3, <2>4, <2>5, <1>1, <1>2, <1>4 DEF Told, Settled, Row
<1>5. CASE m.status = "succeeded"
  <2>1. apply(row, m) = Succeed(row, m.ref)
    BY <1>5 DEF apply
  <2>2. /\ row.status = "pending" /\ attached.kind # "refused"
        /\ apply(row, m) = Moved([attached.row EXCEPT !.status = "succeeded"], {"succeeded"})
    BY <2>1, <1>1 DEF Succeed, Refused, Unmoved
  <2>3. row.ref \in {"none", m.ref} /\ attached.row \in Row /\ attached.row.ref = m.ref
    BY <1>1, <1>2, <1>3, <2>2 DEF Moved, Unmoved, Refused, Row
  <2> HIDE DEF attached
  <2>4. /\ apply(row, m).row = [attached.row EXCEPT !.status = "succeeded"]
        /\ apply(row, m).raised = {"succeeded"}
    BY <2>2 DEF Moved
  <2>5. apply(row, m).row \in Row /\ apply(row, m).row.status = "succeeded" /\ apply(row, m).row.ref = m.ref
    BY <2>3, <2>4 DEF Row, Statuses
  <2> QED BY <2>2, <2>3, <2>4, <2>5, <1>5 DEF Told, Settled
<1>6. CASE m.status = "failed"
  <2>1. apply(row, m) = FailNamed(row, m.ref)
    BY <1>6 DEF apply
  <2> DEFINE failed == Fail(row)
             named  == AttachProviderReference(failed.row, m.ref)
  <2>2. \/ failed.kind # "moved" /\ FailNamed(row, m.ref) = failed
        \/ failed.kind = "moved" /\ named.kind = "refused" /\ FailNamed(row, m.ref) = Refused(row)
        \/ failed.kind = "moved" /\ named.kind # "refused"
             /\ FailNamed(row, m.ref) = [failed EXCEPT !.row = named.row]
    BY DEF FailNamed
  <2>3. failed.kind = "moved" /\ named.kind # "refused"
          /\ apply(row, m) = [failed EXCEPT !.row = named.row]
    BY <2>1, <2>2 DEF Refused
  <2>4. row.status = "pending" /\ failed = Moved([row EXCEPT !.status = "failed"], {"failed"})
    BY <2>3, <1>1 DEF Fail, Refused, Unmoved
  <2>5. failed.row = [row EXCEPT !.status = "failed"] /\ failed.raised = {"failed"}
    BY <2>4 DEF Moved
  <2>6. /\ failed.row \in Row /\ failed.row.ref = row.ref /\ failed.row.status = "failed"
    BY <2>5, <1>1 DEF Row, Statuses
  <2>7. apply(row, m).row = named.row /\ apply(row, m).raised = {"failed"}
    BY <2>3, <2>4 DEF Moved
  <2> HIDE DEF failed
  <2>8. \/ row.ref = "none" /\ named = Moved([failed.row EXCEPT !.ref = m.ref], {})
        \/ row.ref = m.ref /\ named = Unmoved(failed.row)
    BY <2>3, <2>6 DEF AttachProviderReference, Refused
  <2>9. row.ref \in {"none", m.ref} /\ named.row \in Row /\ named.row.ref = m.ref /\ named.row.status = "failed"
    BY <2>6, <2>8, <1>2 DEF Moved, Unmoved, Row
  <2> QED BY <2>4, <2>7, <2>9, <1>6 DEF Told, Settled
<1> QED BY <1>2, <1>4, <1>5, <1>6

\* What leaves the row alone had already happened, or contradicts it.
LEMMA ApplyStays ==
  ASSUME NEW row, Sound(row), NEW m \in Message, m.status \in Settled
  PROVE  /\ apply(row, m).kind = "unmoved" => row.status = m.status
         /\ apply(row, m).kind = "refused" /\ row.ref \in {"none", m.ref} =>
              row.status \in Settled /\ row.status # m.status
<1>1. row \in Row /\ row.status \in {"pending", "succeeded", "failed"}
  BY DEF Sound, Row, Statuses
<1>2. row.ref \in {"none", m.ref} => AttachProviderReference(row, m.ref).kind # "refused"
  BY DEF AttachProviderReference, Moved, Unmoved
<1>3. CASE m.status = "succeeded"
  <2>1. apply(row, m) = Succeed(row, m.ref)
    BY <1>3 DEF apply
  <2> QED BY <2>1, <1>1, <1>2, <1>3 DEF Succeed, Refused, Unmoved, Moved, Settled
<1>4. CASE m.status = "failed"
  <2>1. apply(row, m) = FailNamed(row, m.ref)
    BY <1>4 DEF apply
  <2>2. CASE row.status = "failed"
    <3>1. Fail(row) = Unmoved(row)
      BY <2>2 DEF Fail
    <3>2. apply(row, m) = Unmoved(row) /\ Unmoved(row).kind = "unmoved"
      BY <2>1, <3>1 DEF FailNamed, Unmoved
    <3> QED BY <2>2, <3>2, <1>4
  <2>3. CASE row.status = "succeeded"
    <3>1. Fail(row) = Refused(row)
      BY <2>3 DEF Fail
    <3>2. apply(row, m) = Refused(row) /\ Refused(row).kind = "refused"
      BY <2>1, <3>1 DEF FailNamed, Refused
    <3> QED BY <2>3, <3>2, <1>4 DEF Settled
  <2>4. CASE row.status = "pending"
    <3>1. Fail(row) = Moved([row EXCEPT !.status = "failed"], {"failed"})
      BY <2>4 DEF Fail
    <3>2. Fail(row).kind = "moved" /\ Fail(row).row = [row EXCEPT !.status = "failed"]
      BY <3>1 DEF Moved
    <3>3. Fail(row).row.ref = row.ref
      BY <3>2, <1>1 DEF Row
    <3> DEFINE named == AttachProviderReference(Fail(row).row, m.ref)
    <3>4. row.ref \in {"none", m.ref} => named.kind # "refused"
      BY <3>3 DEF AttachProviderReference, Moved, Unmoved
    <3>5. \/ row.ref \notin {"none", m.ref} /\ apply(row, m) = Refused(row)
          \/ apply(row, m).kind = "moved"
      <4>1. CASE named.kind = "refused"
        BY <4>1, <2>1, <3>2, <3>4 DEF FailNamed
      <4>2. CASE named.kind # "refused"
        <5>1. apply(row, m) = [Fail(row) EXCEPT !.row = named.row]
          BY <4>2, <2>1, <3>2 DEF FailNamed
        <5> QED BY <5>1, <3>1 DEF Moved
      <4> QED BY <4>1, <4>2
    <3> QED BY <3>5 DEF Refused
  <2> QED BY <1>1, <2>2, <2>3, <2>4
<1> QED BY <1>3, <1>4 DEF Settled
-----------------------------------------------------------------------------
(* Initial states, and steps before the attempt.                           *)

PCs == {"idle", "claim", "create", "charge", "wait", "settle", "apply", "done"}

\* Nothing has been claimed, charged or told yet.
LEMMA InitPayment == Init => PaymentInv
<1> SUFFICES ASSUME Init PROVE PaymentInv
  OBVIOUS
<1>0. /\ pc = [s \in Settlers |-> "idle"] /\ claims = [k \in Keys |-> None]
      /\ inserting = [k \in Keys |-> None] /\ payments = [p \in Calls |-> NoRow]
      /\ outbox = {} /\ rowLock = [p \in Calls |-> None] /\ message = [s \in Settlers |-> None]
      /\ seen = [s \in Settlers |-> NoRow] /\ answer = [c \in Calls |-> None]
      /\ request = [p \in Calls |-> "none"] /\ behaviour = [p \in Calls |-> None]
      /\ charge = [p \in Calls |-> "none"] /\ due = [p \in Calls |-> 0]
      /\ faults = {} /\ odd = {}
  BY DEF Init
<1>n. NoRow \in Row /\ NoRow.status = "absent" /\ NoRow.ref = "none"
  BY DEF NoRow, Row, MaxVersion
<1>1. TypeOK
  BY <1>0, <1>n DEF TypeOK
<1>p. \A c \in Calls : pc[c] = "idle" /\ c \in Settlers
  BY <1>0 DEF Settlers
<1>2. KeysAgree /\ AttemptFirst
  BY <1>0, <1>n, <1>p DEF KeysAgree, AttemptFirst, Exists
<1>3. ChargesAreKept /\ RowsAreSound /\ RefsAreTrue
  BY <1>0, <1>n DEF ChargesAreKept, RowsAreSound, RefsAreTrue, Settled
<1>4. LocksAreHeld /\ MessagesAreTrue
  BY <1>0, <1>p DEF LocksAreHeld, MessagesAreTrue
<1>5. DecisionsAreNews /\ OneUnresolvedPerOrder /\ RecordsMatchProvider
  BY <1>0, <1>n DEF DecisionsAreNews, OneUnresolvedPerOrder, RecordsMatchProvider, Settled
<1>6. AnnouncedOnce /\ AnswersAreAttempts
  BY <1>0, <1>n DEF AnnouncedOnce, AnswersAreAttempts, Settled
<1> QED BY <1>1, <1>2, <1>3, <1>4, <1>5, <1>6 DEF PaymentInv

\* A step of a call that has no attempt yet, as far as the keys and the answer
\* are right after it.
LEMMA EarlyStep ==
  ASSUME PaymentInv, NEW c \in Calls, NEW to \in {"claim", "create", "done"},
         pc[c] \in {"idle", "claim", "create"},
         pc' = [pc EXCEPT ![c] = to],
         UNCHANGED <<claims, rest>>,
         inserting' \in [Keys -> Calls \cup {None}],
         answer' \in [Calls -> Calls \cup {None}],
         KeysAgree', AnswersAreAttempts'
  PROVE  PaymentInv'
<1>1. /\ claims' = claims /\ payments' = payments /\ outbox' = outbox
      /\ rowLock' = rowLock /\ seen' = seen /\ message' = message
      /\ request' = request /\ behaviour' = behaviour /\ charge' = charge /\ due' = due
      /\ faults' = faults /\ odd' = odd
  BY DEF rest, settleVars, providerVars, history
<1>2. /\ pc'[c] = to /\ \A s \in Settlers : s # c => pc'[s] = pc[s]
      /\ pc' \in [Settlers -> PCs] /\ c \in Settlers
  BY DEF PaymentInv, TypeOK, PCs, Settlers
<1>3. TypeOK'
  BY <1>1, <1>2 DEF PaymentInv, TypeOK, PCs
<1>4. AttemptFirst'
  BY <1>1, <1>2 DEF PaymentInv, AttemptFirst, Exists, Settlers
<1>5. ChargesAreKept' /\ RowsAreSound' /\ RefsAreTrue'
  BY <1>1 DEF PaymentInv, ChargesAreKept, RowsAreSound, RefsAreTrue, Settled
<1>6. LocksAreHeld'
  <2>1. \A p \in Calls : rowLock[p] # None => rowLock[p] \in Settlers
    BY DEF PaymentInv, TypeOK
  <2> QED BY <1>1, <1>2, <2>1 DEF PaymentInv, LocksAreHeld, Exists
<1>7. MessagesAreTrue'
  BY <1>1, <1>2 DEF PaymentInv, MessagesAreTrue, Truthful
<1>8. DecisionsAreNews'
  BY <1>1, <1>2 DEF PaymentInv, DecisionsAreNews, News, Carried, Settlers
<1>9. OneUnresolvedPerOrder' /\ RecordsMatchProvider' /\ AnnouncedOnce'
  BY <1>1 DEF PaymentInv, OneUnresolvedPerOrder, RecordsMatchProvider, AnnouncedOnce, Order
<1> QED BY <1>3, <1>4, <1>5, <1>6, <1>7, <1>8, <1>9 DEF PaymentInv

\* A key taken by replay or by a lost claim answers with the attempt it names, if
\* the request is the same.
LEMMA ReplayIsSound ==
  ASSUME PaymentInv, NEW c \in Calls, payments' = payments,
         \/ answer' = answer
         \/ Claim(c) # None /\ SameRequest(c) /\ answer' = [answer EXCEPT ![c] = Claim(c)]
  PROVE  AnswersAreAttempts' /\ answer' \in [Calls -> Calls \cup {None}]
<1>1. answer \in [Calls -> Calls \cup {None}] /\ claims \in [Keys -> Calls \cup {None}] /\ KeyOf[c] \in Keys
  BY PaymentAssumption DEF PaymentInv, TypeOK, PaymentAssumption
<1>2. CASE answer' = answer
  BY <1>1, <1>2 DEF PaymentInv, AnswersAreAttempts
<1>3. CASE Claim(c) # None /\ SameRequest(c) /\ answer' = [answer EXCEPT ![c] = Claim(c)]
  <2>1. /\ claims[KeyOf[c]] \in Calls /\ payments[claims[KeyOf[c]]].status # "absent"
        /\ KeyOf[claims[KeyOf[c]]] = KeyOf[c] /\ RequestOf[claims[KeyOf[c]]] = RequestOf[c]
    BY <1>1, <1>3 DEF PaymentInv, KeysAgree, Claim, SameRequest, Exists
  <2>2. \A d \in Calls : answer'[d] = IF d = c THEN claims[KeyOf[c]] ELSE answer[d]
    BY <1>1, <1>3 DEF Claim
  <2>3. answer' \in [Calls -> Calls \cup {None}]
    BY <1>1, <1>3, <2>1 DEF Claim
  <2> QED BY <2>1, <2>2, <2>3 DEF PaymentInv, AnswersAreAttempts
<1> QED BY <1>2, <1>3

\* Before its transaction a call reads, is refused or is answered; a lost claim
\* ends it too.
LEMMA BeginPreserves ==
  ASSUME PaymentInv, NEW c \in Calls, Begin(c) \/ ClaimLost(c)
  PROVE  PaymentInv'
<1>1. PICK to \in {"claim", "done"} :
        /\ pc[c] \in {"idle", "claim"} /\ pc' = [pc EXCEPT ![c] = to]
        /\ UNCHANGED <<claims, inserting, rest>>
        /\ \/ answer' = answer
           \/ Claim(c) # None /\ SameRequest(c) /\ answer' = [answer EXCEPT ![c] = Claim(c)]
  <2>1. CASE OrderPayable(c) \/ OrderRefused(c)
    BY <2>1 DEF OrderPayable, OrderRefused, Goto, callVars
  <2>2. CASE ReplayAnswered(c) \/ ClaimLost(c)
    BY <2>2 DEF ReplayAnswered, ClaimLost, Goto
  <2> QED BY <2>1, <2>2 DEF Begin
<1>2. payments' = payments /\ claims' = claims /\ inserting' = inserting
  BY <1>1 DEF rest
<1>3. AnswersAreAttempts' /\ answer' \in [Calls -> Calls \cup {None}]
  BY <1>1, <1>2, ReplayIsSound
<1>4. pc'[c] = to /\ \A d \in Calls : d # c => pc'[d] = pc[d]
  BY <1>1 DEF PaymentInv, TypeOK, Settlers
<1>5. KeysAgree'
  <2>1. \A k \in Keys : inserting[k] # None => inserting[k] \in Calls
    BY DEF PaymentInv, TypeOK
  <2> QED BY <1>1, <1>2, <1>4, <2>1 DEF PaymentInv, KeysAgree, Exists, Claim
<1> QED BY <1>1, <1>2, <1>3, <1>5, EarlyStep DEF PaymentInv, TypeOK

\* The insert of the key waits for another transaction's, and takes it.
LEMMA ClaimPreserves ==
  ASSUME PaymentInv, NEW c \in Calls, ClaimTaken(c)
  PROVE  PaymentInv'
<1>1. /\ Claim(c) = None /\ pc[c] = "claim" /\ pc' = [pc EXCEPT ![c] = "create"]
      /\ inserting[KeyOf[c]] = None /\ inserting' = [inserting EXCEPT ![KeyOf[c]] = c]
      /\ UNCHANGED <<claims, answer, rest>>
  BY DEF ClaimTaken, ClaimIdempotencyKey, Goto
<1>2. payments' = payments /\ claims' = claims /\ answer' = answer
  BY <1>1 DEF rest
<1>3. AnswersAreAttempts' /\ answer' \in [Calls -> Calls \cup {None}]
  BY <1>2, ReplayIsSound
<1>4. pc'[c] = "create" /\ \A d \in Calls : d # c => pc'[d] = pc[d]
  BY <1>1 DEF PaymentInv, TypeOK, Settlers
<1>5. /\ KeyOf \in [Calls -> Keys] /\ None \notin Calls
      /\ inserting \in [Keys -> Calls \cup {None}]
  BY PaymentAssumption DEF PaymentAssumption, PaymentInv, TypeOK
<1>6. \A k \in Keys : inserting'[k] = IF k = KeyOf[c] THEN c ELSE inserting[k]
  BY <1>1, <1>5
<1>7. KeysAgree'
  <2>1. \A k \in Keys : inserting'[k] # None => pc'[inserting'[k]] = "create" /\ KeyOf[inserting'[k]] = k
    BY <1>4, <1>5, <1>6 DEF PaymentInv, KeysAgree
  <2>2. \A d \in Calls : pc'[d] = "create" => inserting'[KeyOf[d]] = d /\ claims[KeyOf[d]] = None
    BY <1>1, <1>4, <1>5, <1>6 DEF PaymentInv, KeysAgree, Claim
  <2> QED BY <1>2, <2>1, <2>2 DEF PaymentInv, KeysAgree, Exists, Claim
<1>8. inserting' \in [Keys -> Calls \cup {None}]
  BY <1>1, <1>5
<1> QED BY <1>1, <1>3, <1>7, <1>8, EarlyStep

\* What Unlock leaves: the other transactions' keys.
LEMMA UnlockFrees ==
  ASSUME PaymentInv, NEW c \in Calls, Unlock(c)
  PROVE  /\ inserting' \in [Keys -> Calls \cup {None}]
         /\ \A k \in Keys : inserting'[k] = IF inserting[k] = c THEN None ELSE inserting[k]
  BY DEF Unlock, PaymentInv, TypeOK

\* A transaction that ends without COMMIT frees its key.
LEMMA NoAttemptPreserves ==
  ASSUME PaymentInv, NEW c \in Calls, CreateRefused(c) \/ TxFails(c)
  PROVE  PaymentInv'
<1>1. /\ pc[c] \in {"claim", "create"} /\ pc' = [pc EXCEPT ![c] = "done"]
      /\ Unlock(c) /\ UNCHANGED <<claims, answer, rest>>
  BY DEF CreateRefused, TxFails, Goto
<1>2. payments' = payments /\ claims' = claims /\ answer' = answer
  BY <1>1 DEF rest
<1>3. AnswersAreAttempts' /\ answer' \in [Calls -> Calls \cup {None}]
  BY <1>2, ReplayIsSound
<1>4. pc'[c] = "done" /\ \A d \in Calls : d # c => pc'[d] = pc[d]
  BY <1>1 DEF PaymentInv, TypeOK, Settlers
<1>5. /\ inserting' \in [Keys -> Calls \cup {None}]
      /\ \A k \in Keys : inserting'[k] = IF inserting[k] = c THEN None ELSE inserting[k]
  BY <1>1, UnlockFrees
<1>6. KeysAgree'
  <2>1. KeyOf \in [Calls -> Keys] /\ \A k \in Keys : inserting[k] # None => inserting[k] \in Calls
    BY PaymentAssumption DEF PaymentAssumption, PaymentInv, TypeOK
  <2>2. \A k \in Keys : inserting'[k] # None => pc'[inserting'[k]] = "create" /\ KeyOf[inserting'[k]] = k
    BY <1>4, <1>5, <2>1 DEF PaymentInv, KeysAgree
  <2>3. \A d \in Calls : pc'[d] = "create" => inserting'[KeyOf[d]] = d /\ claims[KeyOf[d]] = None
    BY <1>4, <1>5, <2>1 DEF PaymentInv, KeysAgree, Claim
  <2> QED BY <1>2, <2>2, <2>3 DEF PaymentInv, KeysAgree, Exists, Claim
<1> QED BY <1>1, <1>3, <1>5, <1>6, EarlyStep
-----------------------------------------------------------------------------
(* The attempt and the charge.                                             *)

\* COMMIT of the attempt and of its key: the index lets no second unresolved
\* attempt for the order through, and nobody else has the key.
LEMMA PublishPreserves ==
  ASSUME PaymentInv, NEW c \in Calls, Commit(c) \/ CommitAnswerLost(c)
  PROVE  PaymentInv'
<1>1. PICK to \in {"charge", "done"} :
        /\ pc[c] = "create" /\ pc' = [pc EXCEPT ![c] = to]
        /\ Unresolved(Order(c)) = {}
        /\ payments' = [payments EXCEPT ![c] = NewPayment]
        /\ claims' = [claims EXCEPT ![KeyOf[c]] = c]
        /\ Unlock(c)
        /\ outbox' = outbox /\ rowLock' = rowLock /\ seen' = seen /\ message' = message
        /\ request' = request /\ behaviour' = behaviour /\ charge' = charge /\ due' = due
        /\ answer' = answer /\ odd' = odd
        /\ faults' = faults \/ faults' = faults \cup {c}
  BY DEF Commit, CommitAnswerLost, Publish, CreatePayment, Goto, Lose, settleVars, providerVars
<1>2. /\ pc'[c] = to /\ \A s \in Settlers : s # c => pc'[s] = pc[s]
      /\ pc' \in [Settlers -> PCs] /\ c \in Settlers /\ Calls \subseteq Settlers
  BY <1>1 DEF PaymentInv, TypeOK, PCs, Settlers
<1>3. /\ NewPayment \in Row /\ NewPayment.status = "pending" /\ NewPayment.ref = "none"
      /\ NewPayment.version = 1
  BY DEF NewPayment, Row, Statuses, MaxVersion
<1>4. /\ payments'[c] = NewPayment /\ \A p \in Calls : p # c => payments'[p] = payments[p]
      /\ payments' \in [Calls -> Row]
  BY <1>1, <1>3 DEF PaymentInv, TypeOK
<1>5. /\ inserting' \in [Keys -> Calls \cup {None}]
      /\ \A k \in Keys : inserting'[k] = IF inserting[k] = c THEN None ELSE inserting[k]
  BY <1>1, UnlockFrees
<1>6. /\ KeyOf \in [Calls -> Keys] /\ None \notin Calls
      /\ \A k \in Keys : inserting[k] # None => inserting[k] \in Calls
  BY PaymentAssumption DEF PaymentAssumption, PaymentInv, TypeOK
<1>7. /\ claims' \in [Keys -> Calls \cup {None}]
      /\ \A k \in Keys : claims'[k] = IF k = KeyOf[c] THEN c ELSE claims[k]
  BY <1>1, <1>6 DEF PaymentInv, TypeOK
<1>8. ~Exists(c) /\ request[c] = "none" /\ claims[KeyOf[c]] = None /\ inserting[KeyOf[c]] = c
  BY <1>1 DEF PaymentInv, AttemptFirst, KeysAgree, Claim
<1>9. charge[c] = "none" /\ due[c] = 0
  BY <1>8 DEF PaymentInv, ChargesAreKept
<1>10. TypeOK'
  <2>1. faults' \subseteq Calls
    BY <1>1 DEF PaymentInv, TypeOK
  <2> QED BY <1>1, <1>2, <1>4, <1>5, <1>7, <2>1 DEF PaymentInv, TypeOK, PCs
<1>11. \A p \in Calls : Exists(p)' <=> Exists(p) \/ p = c
  BY <1>3, <1>4 DEF Exists
<1>12. KeysAgree'
  <2>1. \A k \in Keys : claims'[k] # None => Exists(claims[k])' /\ KeyOf[claims'[k]] = k
    <3> SUFFICES ASSUME NEW k \in Keys, claims'[k] # None
                 PROVE  Exists(claims[k])' /\ KeyOf[claims'[k]] = k
      OBVIOUS
    <3>1. claims'[k] \in Calls
      BY <1>7
    <3>2. payments'[claims'[k]].status # "absent" /\ KeyOf[claims'[k]] = k
      BY <3>1, <1>3, <1>4, <1>7 DEF PaymentInv, KeysAgree, Exists
    <3> QED BY <3>2 DEF Exists
  <2>2. \A d \in Calls : Exists(d)' => claims'[KeyOf[d]] = d
    BY <1>6, <1>7, <1>8, <1>11 DEF PaymentInv, KeysAgree
  <2>3. \A k \in Keys : inserting'[k] # None => pc'[inserting'[k]] = "create" /\ KeyOf[inserting'[k]] = k
    BY <1>2, <1>5, <1>6 DEF PaymentInv, KeysAgree
  <2>4. \A d \in Calls : pc'[d] = "create" => inserting'[KeyOf[d]] = d /\ claims'[KeyOf[d]] = None
    BY <1>2, <1>5, <1>6, <1>7, <1>8 DEF PaymentInv, KeysAgree, Claim
  <2> QED BY <2>1, <2>2, <2>3, <2>4 DEF KeysAgree, Claim, Exists
<1>13. AttemptFirst'
  BY <1>1, <1>2, <1>8, <1>11 DEF PaymentInv, AttemptFirst
<1>14. ChargesAreKept'
  BY <1>1 DEF PaymentInv, ChargesAreKept
<1>15. RowsAreSound'
  BY <1>3, <1>4 DEF PaymentInv, RowsAreSound, Settled
<1>16. LocksAreHeld'
  <2>1. \A p \in Calls : rowLock[p] # None => rowLock[p] \in Settlers
    BY DEF PaymentInv, TypeOK
  <2>2. \A s \in Settlers : pc[s] = "apply" =>
          s # c /\ message[s].payment # c /\ Exists(message[s].payment)
    BY <1>1, <1>8 DEF PaymentInv, LocksAreHeld
  <2>3. \A s \in Settlers : pc[s] = "apply" => message[s].payment \in Calls
    <3>1. \A s \in Settlers : pc[s] = "apply" => message[s] \in Message
      BY DEF PaymentInv, MessagesAreTrue, TypeOK
    <3> QED BY <3>1 DEF Message
  <2>4. \A p \in Calls : rowLock'[p] # None => pc'[rowLock'[p]] = "apply" /\ message'[rowLock'[p]].payment = p
    BY <1>1, <1>2, <2>1 DEF PaymentInv, LocksAreHeld
  <2>5. \A s \in Settlers : pc'[s] = "apply" =>
          /\ rowLock'[message'[s].payment] = s
          /\ seen'[s] = payments'[message'[s].payment]
          /\ Exists(message[s].payment)'
    BY <1>1, <1>2, <1>4, <1>11, <2>2, <2>3 DEF PaymentInv, LocksAreHeld
  <2> QED BY <1>1, <2>4, <2>5 DEF LocksAreHeld, Exists
<1>17. MessagesAreTrue'
  BY <1>1, <1>2 DEF PaymentInv, MessagesAreTrue, Truthful
<1>18. RefsAreTrue'
  BY <1>1, <1>3, <1>4 DEF PaymentInv, RefsAreTrue
<1>19. DecisionsAreNews'
  <2> SUFFICES ASSUME NEW p \in Calls \ (faults' \cup odd')
               PROVE  /\ request'[p] = "sent" => pc'[p] = "wait"
                      /\ request'[p] = "sending" => charge'[p] = "pending" /\ behaviour'[p] = "webhookFirst"
                      /\ charge'[p] \in Settled => News(p)'
    BY DEF DecisionsAreNews
  <2>1. CASE p = c
    BY <2>1, <1>1, <1>8, <1>9 DEF Settled
  <2>2. CASE p # c
    <3>1. p \in Calls \ (faults \cup odd) /\ payments'[p] = payments[p] /\ pc'[p] = pc[p]
      BY <2>2, <1>1, <1>2, <1>4
    <3> QED BY <3>1, <1>1 DEF PaymentInv, DecisionsAreNews, News, Carried
  <2> QED BY <2>1, <2>2
<1>20. OneUnresolvedPerOrder'
  <2>1. \A p \in Calls : Order(p) = Order(c) => payments[p].status \notin {"pending", "succeeded"}
    BY <1>1 DEF Unresolved
  <2>2. \A p \in Calls : Order(p)' = Order(p)
    BY DEF Order
  <2> QED BY <1>4, <2>1, <2>2 DEF PaymentInv, OneUnresolvedPerOrder
<1>21. RecordsMatchProvider'
  BY <1>1, <1>3, <1>4, <1>8 DEF PaymentInv, RecordsMatchProvider, Settled
<1>22. AnnouncedOnce'
  <2>1. {e \in outbox : e.payment = c} = {}
    BY <1>8 DEF PaymentInv, AnnouncedOnce, Exists, Settled
  <2>2. \A p \in Calls : p # c => payments'[p] = payments[p]
    BY <1>4
  <2>3. payments'[c].status \notin Settled
    BY <1>3, <1>4 DEF Settled
  <2> QED BY <1>1, <2>1, <2>2, <2>3 DEF PaymentInv, AnnouncedOnce
<1>23. AnswersAreAttempts'
  <2>1. \A d \in Calls : answer'[d] # None =>
          /\ payments'[answer'[d]].status # "absent"
          /\ KeyOf[answer'[d]] = KeyOf[d] /\ RequestOf[answer'[d]] = RequestOf[d]
    <3>1. \A d \in Calls : answer[d] # None => answer[d] \in Calls /\ answer[d] # c
      BY <1>8 DEF PaymentInv, TypeOK, AnswersAreAttempts, Exists
    <3> QED BY <3>1, <1>1, <1>4 DEF PaymentInv, AnswersAreAttempts
  <2>2. \A p, q \in Calls : Exists(p)' /\ Exists(q)' /\ KeyOf[p] = KeyOf[q] => p = q
    BY <1>12 DEF KeysAgree
  <2> QED BY <2>1, <2>2 DEF AnswersAreAttempts, Exists
<1> QED BY <1>10, <1>12, <1>13, <1>14, <1>15, <1>16, <1>17, <1>18, <1>19, <1>20, <1>21, <1>22,
           <1>23 DEF PaymentInv

\* Keys, rows, events and answers are as they were after a step that writes none
\* of them and neither opens nor ends a claiming transaction.
LEMMA RecordsKept ==
  ASSUME PaymentInv, UNCHANGED <<callVars, payments, outbox>>,
         \A c \in Calls : pc'[c] = "create" <=> pc[c] = "create"
  PROVE  KeysAgree' /\ RowsAreSound' /\ OneUnresolvedPerOrder' /\ AnnouncedOnce' /\ AnswersAreAttempts'
<1>1. /\ claims' = claims /\ inserting' = inserting /\ answer' = answer
      /\ payments' = payments /\ outbox' = outbox
  BY DEF callVars
<1>2. \A k \in Keys : inserting[k] # None => inserting[k] \in Calls
  BY DEF PaymentInv, TypeOK
<1>3. KeysAgree'
  BY <1>1, <1>2 DEF PaymentInv, KeysAgree, Exists, Claim
<1>4. RowsAreSound' /\ OneUnresolvedPerOrder' /\ AnnouncedOnce' /\ AnswersAreAttempts'
  BY <1>1 DEF PaymentInv, RowsAreSound, OneUnresolvedPerOrder, AnnouncedOnce, AnswersAreAttempts,
              Order, Settled
<1> QED BY <1>3, <1>4

\* The locks are as they were for whoever does not settle.
LEMMA LocksKept ==
  ASSUME PaymentInv, UNCHANGED <<payments, rowLock, seen>>,
         \A s \in Settlers : pc'[s] = "apply" <=> pc[s] = "apply",
         \A s \in Settlers : pc[s] = "apply" => message'[s] = message[s]
  PROVE  LocksAreHeld'
<1>1. \A p \in Calls : rowLock[p] # None => rowLock[p] \in Settlers
  BY DEF PaymentInv, TypeOK
<1> QED BY <1>1 DEF PaymentInv, LocksAreHeld, Exists

\* The call asks for the money, or does not: the process dies first, or it hears
\* nothing of what became of it.
LEMMA ChargePreserves ==
  ASSUME PaymentInv, NEW c \in Calls, Charge(c) \/ ChargeFails(c) \/ Crash(c)
  PROVE  PaymentInv'
<1>1. PICK to \in {"wait", "done"} :
        /\ pc[c] \in {"charge", "wait"} /\ pc' = [pc EXCEPT ![c] = to]
        /\ \/ to = "wait" /\ pc[c] = "charge" /\ faults' = faults /\ request' = [request EXCEPT ![c] = "sent"]
           \/ to = "done" /\ faults' = faults \cup {c} /\ request' = request
        /\ UNCHANGED <<callVars, payments, outbox>>
        /\ payments' = payments /\ outbox' = outbox /\ rowLock' = rowLock /\ seen' = seen
        /\ message' = message /\ behaviour' = behaviour /\ charge' = charge /\ due' = due /\ odd' = odd
        /\ claims' = claims /\ inserting' = inserting /\ answer' = answer
  BY DEF Charge, ChargeFails, Crash, Goto, Lose, callVars, settleVars, providerVars, history
<1>2. /\ pc'[c] = to /\ \A s \in Settlers : s # c => pc'[s] = pc[s]
      /\ pc' \in [Settlers -> PCs] /\ c \in Settlers /\ Calls \subseteq Settlers
  BY <1>1 DEF PaymentInv, TypeOK, PCs, Settlers
<1>3. /\ \A p \in Calls : p # c => request'[p] = request[p]
      /\ \A p \in Calls : request[p] # "none" => request'[p] # "none"
      /\ \/ request'[c] = "sent" /\ request[c] = "none"
         \/ request'[c] = request[c]
  BY <1>1 DEF PaymentInv, TypeOK, AttemptFirst
<1>4. TypeOK'
  <2>1. /\ request' \in [Calls -> {"none", "sent", "sending", "answered", "hung"}]
        /\ faults' \subseteq Calls
    BY <1>1 DEF PaymentInv, TypeOK
  <2> QED BY <1>1, <1>2, <2>1 DEF PaymentInv, TypeOK, PCs
<1>5. KeysAgree' /\ RowsAreSound' /\ OneUnresolvedPerOrder' /\ AnnouncedOnce' /\ AnswersAreAttempts'
  BY <1>1, <1>2, RecordsKept
<1>6. AttemptFirst'
  BY <1>1, <1>2, <1>3 DEF PaymentInv, AttemptFirst, Exists
<1>7. ChargesAreKept'
  BY <1>1, <1>3 DEF PaymentInv, ChargesAreKept
<1>8. LocksAreHeld'
  BY <1>1, <1>2, LocksKept
<1>9. MessagesAreTrue'
  <2>1. \A s \in Settlers : message[s] # None => message[s].payment \in Calls
    <3>1. \A s \in Settlers : message[s] # None => message[s] \in Message
      BY DEF PaymentInv, TypeOK
    <3> QED BY <3>1 DEF Message
  <2> QED BY <1>1, <1>2, <1>3, <2>1 DEF PaymentInv, MessagesAreTrue, Truthful
<1>10. RefsAreTrue'
  BY <1>1 DEF PaymentInv, RefsAreTrue
<1>11. DecisionsAreNews'
  <2> SUFFICES ASSUME NEW p \in Calls \ (faults' \cup odd')
               PROVE  /\ request'[p] = "sent" => pc'[p] = "wait"
                      /\ request'[p] = "sending" => charge'[p] = "pending" /\ behaviour'[p] = "webhookFirst"
                      /\ charge'[p] \in Settled => News(p)'
    BY DEF DecisionsAreNews
  <2>1. p \in Calls \ (faults \cup odd)
    BY <1>1
  <2>2. CASE p = c
    <3>1. to = "wait" /\ request[c] = "none" /\ request'[c] = "sent" /\ pc'[c] = "wait"
      BY <2>2, <1>1, <1>2 DEF PaymentInv, AttemptFirst, TypeOK
    <3>2. charge[c] = "none"
      BY <3>1 DEF PaymentInv, ChargesAreKept
    <3> QED BY <2>2, <3>1, <3>2, <1>1 DEF Settled
  <2>3. CASE p # c
    <3>1. pc'[p] = pc[p] /\ request'[p] = request[p]
      BY <2>3, <1>2, <1>3
    <3> QED BY <2>1, <3>1, <1>1 DEF PaymentInv, DecisionsAreNews, News, Carried
  <2> QED BY <2>2, <2>3
<1>12. RecordsMatchProvider'
  <2>1. Exists(c)
    BY <1>1 DEF PaymentInv, AttemptFirst
  <2> QED BY <1>1, <1>3, <2>1 DEF PaymentInv, RecordsMatchProvider, Exists
<1> QED BY <1>4, <1>5, <1>6, <1>7, <1>8, <1>9, <1>10, <1>11, <1>12 DEF PaymentInv

\* The provider's answer is in the call's hands.
LEMMA ChargedPreserves ==
  ASSUME PaymentInv, NEW c \in Calls, Charged(c)
  PROVE  PaymentInv'
<1> DEFINE m == [payment |-> c, status |-> store(behaviour[c]), ref |-> "charge", signed |-> TRUE]
<1>1. /\ request[c] = "answered" /\ pc[c] = "wait" /\ pc' = [pc EXCEPT ![c] = "settle"]
      /\ message' = [message EXCEPT ![c] = m]
      /\ UNCHANGED <<callVars, payments, outbox>>
      /\ payments' = payments /\ outbox' = outbox /\ rowLock' = rowLock /\ seen' = seen
      /\ request' = request /\ behaviour' = behaviour /\ charge' = charge /\ due' = due
      /\ odd' = odd /\ faults' = faults
      /\ claims' = claims /\ inserting' = inserting /\ answer' = answer
  BY DEF Charged, Goto, callVars, settleVars, providerVars, history
<1>2. /\ pc'[c] = "settle" /\ \A s \in Settlers : s # c => pc'[s] = pc[s]
      /\ pc' \in [Settlers -> PCs] /\ c \in Settlers /\ Calls \subseteq Settlers
  BY <1>1 DEF PaymentInv, TypeOK, PCs, Settlers
<1>3. store(behaviour[c]) \in Settled => charge[c] = store(behaviour[c])
  BY <1>1 DEF PaymentInv, ChargesAreKept
<1>4. m \in Message /\ m # None /\ m.payment = c /\ m.ref = "charge" /\ m.status = store(behaviour[c])
  <2>1. m \in Message
    BY DEF Message, store, Statuses, References
  <2> QED BY <2>1, NoneAssumption
<1> HIDE DEF m
<1>5. message'[c] = m /\ \A s \in Settlers : s # c => message'[s] = message[s]
  BY <1>1, <1>2 DEF PaymentInv, TypeOK
<1>6. TypeOK'
  <2>1. message' \in [Settlers -> Message \cup {None}]
    BY <1>1, <1>4 DEF PaymentInv, TypeOK
  <2> QED BY <1>1, <1>2, <2>1 DEF PaymentInv, TypeOK, PCs
<1>7. KeysAgree' /\ RowsAreSound' /\ OneUnresolvedPerOrder' /\ AnnouncedOnce' /\ AnswersAreAttempts'
  BY <1>1, <1>2, RecordsKept
<1>8. AttemptFirst'
  BY <1>1, <1>2 DEF PaymentInv, AttemptFirst, Exists
<1>9. ChargesAreKept' /\ RefsAreTrue' /\ RecordsMatchProvider'
  BY <1>1 DEF PaymentInv, ChargesAreKept, RefsAreTrue, RecordsMatchProvider
<1>10. LocksAreHeld'
  BY <1>1, <1>2, <1>5, LocksKept
<1>11. MessagesAreTrue'
  BY <1>1, <1>2, <1>3, <1>4, <1>5 DEF PaymentInv, MessagesAreTrue, Truthful
<1>12. DecisionsAreNews'
  <2> SUFFICES ASSUME NEW p \in Calls \ (faults' \cup odd')
               PROVE  /\ request'[p] = "sent" => pc'[p] = "wait"
                      /\ request'[p] = "sending" => charge'[p] = "pending" /\ behaviour'[p] = "webhookFirst"
                      /\ charge'[p] \in Settled => News(p)'
    BY DEF DecisionsAreNews
  <2>1. message[c] = None
    BY <1>1, <1>2 DEF PaymentInv, MessagesAreTrue
  <2>2. Carried(p) => Carried(p)'
    BY <1>1, <1>5, <2>1 DEF Carried
  <2>3. p = c /\ store(behaviour[c]) = charge[c] => Carried(p)'
    BY <1>1, <1>2, <1>4, <1>5 DEF Carried
  <2>4. p # c => pc'[p] = pc[p]
    BY <1>2
  <2> QED BY <1>1, <2>2, <2>3, <2>4 DEF PaymentInv, DecisionsAreNews, News
<1> QED BY <1>6, <1>7, <1>8, <1>9, <1>10, <1>11, <1>12 DEF PaymentInv
-----------------------------------------------------------------------------
(* The provider.                                                           *)

\* What the provider does on its own to an attempt's request, to the behaviour it
\* has for it, to its charge and to its webhooks: what it decided stays, and what
\* it decides is on its way.
ProviderMoves(p, r, b, ch, n) ==
  /\ request' = [request EXCEPT ![p] = r]
  /\ behaviour' = [behaviour EXCEPT ![p] = b]
  /\ charge' = [charge EXCEPT ![p] = ch]
  /\ due' = [due EXCEPT ![p] = n]
  /\ request[p] # "none"
  /\ charge[p] \in Settled => ch = charge[p]
  /\ r \in {"sent", "sending", "answered", "hung"} /\ b \in Behaviours \cup {None}
  /\ ch \in Statuses \cup {"none"} /\ n \in 0..2
  /\ r \in {"sent", "hung"} => ch = "none" /\ n = 0
  /\ r \in {"answered", "sending"} =>
       b \in Behaviours /\ ch \in Statuses /\ (store(b) \in Settled => ch = store(b))
  /\ p \notin faults \cup odd =>
       /\ r = "sent" => pc[p] = "wait"
       /\ r = "sending" => ch = "pending" /\ b = "webhookFirst"
       /\ ch \in Settled => \/ charge[p] = ch /\ r = request[p] /\ b = behaviour[p] /\ n = due[p]
                            \/ n > 0
                            \/ pc[p] = "wait" /\ r = "answered" /\ store(b) = ch

\* fakeprovider.create, answering late and sendLater are such moves.
LEMMA ProviderStepMoves ==
  ASSUME PaymentInv, NEW p \in Calls,
         (\E b \in Behaviours : create(p, b)) \/ answerLate(p) \/ sendLater(p)
  PROVE  \E r, b, ch, n : ProviderMoves(p, r, b, ch, n)
<1>1. /\ request \in [Calls -> {"none", "sent", "sending", "answered", "hung"}]
      /\ behaviour \in [Calls -> Behaviours \cup {None}]
      /\ charge \in [Calls -> Statuses \cup {"none"}]
      /\ due \in [Calls -> 0..2]
  BY DEF PaymentInv, TypeOK
<1>2. /\ request[p] \in {"none", "sent", "sending", "answered", "hung"}
      /\ behaviour[p] \in Behaviours \cup {None} /\ charge[p] \in Statuses \cup {"none"} /\ due[p] \in 0..2
      /\ charge = [charge EXCEPT ![p] = charge[p]] /\ due = [due EXCEPT ![p] = due[p]]
      /\ behaviour = [behaviour EXCEPT ![p] = behaviour[p]]
      /\ request = [request EXCEPT ![p] = request[p]]
  BY <1>1
<1>3. \A b \in Behaviours : store(b) \in Statuses /\ (b = "webhookFirst" => store(b) = "pending")
  BY DEF store, Statuses
<1>4. ASSUME NEW b \in Behaviours, create(p, b) PROVE \E r, ch, n : ProviderMoves(p, r, b, ch, n)
  <2>1. /\ request[p] = "sent"
        /\ behaviour' = [behaviour EXCEPT ![p] = b]
        /\ charge' = IF b = "hang" THEN charge ELSE [charge EXCEPT ![p] = store(b)]
        /\ request' = [request EXCEPT ![p] =
             CASE b = "hang" -> "hung" [] b = "webhookFirst" -> "sending" [] OTHER -> "answered"]
        /\ due' = IF b = "webhookFirst" THEN [due EXCEPT ![p] = 1] ELSE due
    BY <1>4 DEF create
  <2>2. /\ charge[p] = "none" /\ due[p] = 0 /\ request[p] # "none"
        /\ behaviour' = [behaviour EXCEPT ![p] = b] /\ b \in Behaviours \cup {None}
    BY <2>1 DEF PaymentInv, ChargesAreKept
  <2>3. p \notin faults \cup odd => pc[p] = "wait"
    BY <2>1 DEF PaymentInv, DecisionsAreNews
  <2>4. CASE b = "hang"
    <3>1. /\ request' = [request EXCEPT ![p] = "hung"] /\ charge' = [charge EXCEPT ![p] = "none"]
          /\ due' = [due EXCEPT ![p] = 0]
      BY <1>2, <2>1, <2>2, <2>4
    <3>2. ProviderMoves(p, "hung", b, "none", 0)
      BY <2>2, <3>1 DEF ProviderMoves, Settled
    <3> QED BY <3>2
  <2>5. CASE b = "webhookFirst"
    <3>1. /\ request' = [request EXCEPT ![p] = "sending"] /\ charge' = [charge EXCEPT ![p] = "pending"]
          /\ due' = [due EXCEPT ![p] = 1]
      BY <1>3, <2>1, <2>5
    <3>2. ProviderMoves(p, "sending", b, "pending", 1)
      BY <1>3, <2>2, <2>5, <3>1 DEF ProviderMoves, Settled, Statuses
    <3> QED BY <3>2
  <2>6. CASE b \notin {"hang", "webhookFirst"}
    <3>1. /\ request' = [request EXCEPT ![p] = "answered"] /\ charge' = [charge EXCEPT ![p] = store(b)]
          /\ due' = [due EXCEPT ![p] = 0]
      BY <1>2, <2>1, <2>2, <2>6
    <3> DEFINE ch == store(b)
    <3>2. ch \in Statuses /\ ch = store(b)
      BY <1>3
    <3> HIDE DEF ch
    <3>3. ProviderMoves(p, "answered", b, ch, 0)
      BY <2>2, <2>3, <3>1, <3>2 DEF ProviderMoves, Settled
    <3> QED BY <3>3
  <2> QED BY <2>4, <2>5, <2>6
<1>5. ASSUME answerLate(p) PROVE \E r, b, ch, n : ProviderMoves(p, r, b, ch, n)
  <2>1. /\ request[p] = "sending" /\ request' = [request EXCEPT ![p] = "answered"]
        /\ behaviour' = behaviour /\ charge' = charge /\ due' = due
    BY <1>5 DEF answerLate
  <2>2. /\ behaviour[p] \in Behaviours /\ charge[p] \in Statuses
        /\ store(behaviour[p]) \in Settled => charge[p] = store(behaviour[p])
    BY <2>1 DEF PaymentInv, ChargesAreKept
  <2>3. p \notin faults \cup odd => charge[p] = "pending"
    BY <2>1 DEF PaymentInv, DecisionsAreNews
  <2>4. ProviderMoves(p, "answered", behaviour[p], charge[p], due[p])
    BY <1>2, <2>1, <2>2, <2>3 DEF ProviderMoves, Settled
  <2> QED BY <2>4
<1>6. ASSUME sendLater(p) PROVE \E r, b, ch, n : ProviderMoves(p, r, b, ch, n)
  <2>1. /\ charge[p] = "pending" /\ behaviour[p] \in {"webhook", "duplicate"}
        /\ charge' = [charge EXCEPT ![p] = "succeeded"]
        /\ due' = [due EXCEPT ![p] = deliveries(behaviour[p])]
        /\ request' = request /\ behaviour' = behaviour
    BY <1>6 DEF sendLater
  <2>2. request[p] \notin {"none", "sent", "hung"}
    BY <2>1 DEF PaymentInv, ChargesAreKept
  <2>3. deliveries(behaviour[p]) \in 1..2 /\ store(behaviour[p]) = "pending"
    BY <2>1 DEF deliveries, store
  <2>4. p \notin faults \cup odd => request[p] # "sending"
    BY <2>1 DEF PaymentInv, DecisionsAreNews
  <2>5. ProviderMoves(p, request[p], behaviour[p], "succeeded", deliveries(behaviour[p]))
    BY <1>2, <2>1, <2>2, <2>3, <2>4 DEF ProviderMoves, Settled, Statuses, Behaviours
  <2> QED BY <2>5
<1> QED BY <1>4, <1>5, <1>6

\* What was said of a charge stays true: what the provider decided does not
\* change, and nothing was said before.
LEMMA ProviderPreserves ==
  ASSUME PaymentInv, NEW p \in Calls,
         (\E b \in Behaviours : create(p, b)) \/ answerLate(p) \/ sendLater(p)
  PROVE  PaymentInv'
<1>1. /\ pc' = pc /\ message' = message /\ rowLock' = rowLock /\ seen' = seen
      /\ UNCHANGED <<callVars, payments, outbox>>
      /\ payments' = payments /\ outbox' = outbox /\ faults' = faults /\ odd' = odd
      /\ claims' = claims /\ inserting' = inserting /\ answer' = answer
  BY DEF create, answerLate, sendLater, callVars, settleVars, history
<1>2. PICK r, b, ch, n : ProviderMoves(p, r, b, ch, n)
  BY ProviderStepMoves
<1>3. /\ \A q \in Calls : request'[q] = IF q = p THEN r ELSE request[q]
      /\ \A q \in Calls : behaviour'[q] = IF q = p THEN b ELSE behaviour[q]
      /\ \A q \in Calls : charge'[q] = IF q = p THEN ch ELSE charge[q]
      /\ \A q \in Calls : due'[q] = IF q = p THEN n ELSE due[q]
  BY <1>2 DEF PaymentInv, TypeOK, ProviderMoves
<1>4. TypeOK'
  <2>1. /\ request' \in [Calls -> {"none", "sent", "sending", "answered", "hung"}]
        /\ behaviour' \in [Calls -> Behaviours \cup {None}]
        /\ charge' \in [Calls -> Statuses \cup {"none"}]
        /\ due' \in [Calls -> 0..2]
    BY <1>2 DEF PaymentInv, TypeOK, ProviderMoves
  <2> QED BY <1>1, <2>1 DEF PaymentInv, TypeOK
<1>5. KeysAgree' /\ RowsAreSound' /\ OneUnresolvedPerOrder' /\ AnnouncedOnce' /\ AnswersAreAttempts'
  BY <1>1, RecordsKept
<1>6. /\ request[p] # "none" /\ r # "none" /\ (charge[p] \in Settled => ch = charge[p])
      /\ Exists(p)
  BY <1>2 DEF ProviderMoves, PaymentInv, AttemptFirst
<1>7. AttemptFirst'
  BY <1>1, <1>3, <1>6 DEF PaymentInv, AttemptFirst, Exists
<1>8. ChargesAreKept'
  BY <1>2, <1>3 DEF PaymentInv, ChargesAreKept, ProviderMoves
<1>9. LocksAreHeld' /\ RefsAreTrue'
  BY <1>1, LocksKept DEF PaymentInv, RefsAreTrue
<1>10. MessagesAreTrue'
  <2>1. \A s \in Settlers : message[s] # None => message[s].payment \in Calls
    <3>1. \A s \in Settlers : message[s] # None => message[s] \in Message
      BY DEF PaymentInv, TypeOK
    <3> QED BY <3>1 DEF Message
  <2> QED BY <1>1, <1>3, <1>6, <2>1 DEF PaymentInv, MessagesAreTrue, Truthful, Settled
<1>11. DecisionsAreNews'
  <2> SUFFICES ASSUME NEW q \in Calls \ (faults' \cup odd')
               PROVE  /\ request'[q] = "sent" => pc'[q] = "wait"
                      /\ request'[q] = "sending" => charge'[q] = "pending" /\ behaviour'[q] = "webhookFirst"
                      /\ charge'[q] \in Settled => News(q)'
    BY DEF DecisionsAreNews
  <2>1. charge'[q] = charge[q] => (Carried(q) <=> Carried(q)')
    BY <1>1 DEF Carried
  <2>2. CASE q # p
    BY <2>1, <2>2, <1>1, <1>3 DEF PaymentInv, DecisionsAreNews, News
  <2>3. CASE q = p
    <3>1. /\ r = "sent" => pc[p] = "wait"
          /\ r = "sending" => ch = "pending" /\ b = "webhookFirst"
          /\ ch \in Settled => \/ charge[p] = ch /\ r = request[p] /\ b = behaviour[p] /\ n = due[p]
                               \/ n > 0
                               \/ pc[p] = "wait" /\ r = "answered" /\ store(b) = ch
      BY <2>3, <1>1, <1>2 DEF ProviderMoves
    <3>2. CASE ch \notin Settled
      BY <3>1, <3>2, <2>3, <1>1, <1>3
    <3>3. CASE ch \in Settled /\ charge[p] = ch /\ r = request[p] /\ b = behaviour[p] /\ n = due[p]
      BY <3>1, <3>3, <2>1, <2>3, <1>1, <1>3 DEF PaymentInv, DecisionsAreNews, News
    <3>4. CASE n > 0 \/ (pc[p] = "wait" /\ r = "answered" /\ store(b) = ch)
      BY <3>1, <3>4, <2>3, <1>1, <1>3 DEF News
    <3> QED BY <3>1, <3>2, <3>3, <3>4
  <2> QED BY <2>2, <2>3
<1>12. RecordsMatchProvider'
  BY <1>1, <1>3, <1>6 DEF PaymentInv, RecordsMatchProvider, Exists
<1> QED BY <1>4, <1>5, <1>7, <1>8, <1>9, <1>10, <1>11, <1>12 DEF PaymentInv
-----------------------------------------------------------------------------
(* Webhooks.                                                               *)

\* Whoever has a message, it is about an attempt.
LEMMA MessageType ==
  ASSUME PaymentInv, NEW s \in Settlers, message[s] # None
  PROVE  message[s] \in Message /\ message[s].payment \in Calls
<1>1. message[s] \in Message
  BY DEF PaymentInv, TypeOK
<1> QED BY <1>1 DEF Message

\* A handler takes a signed message that is true, or about an attempt the
\* provider contradicts itself about; a webhook that was due is in its hands.
LEMMA ReceivePreserves ==
  ASSUME PaymentInv, NEW h \in Hooks, NEW m \in Message,
         pc[h] = "idle", pc' = [pc EXCEPT ![h] = "settle"],
         message' = [message EXCEPT ![h] = m],
         UNCHANGED <<callVars, payments, outbox, settleVars, request, behaviour, charge, faults>>,
         odd' = odd \/ odd' = odd \cup {m.payment},
         due' \in [Calls -> 0..2],
         \A q \in Calls : due'[q] = due[q] \/ (q = m.payment /\ due[q] > 0 /\ m.status = charge[q]),
         Truthful(m)'
  PROVE  PaymentInv'
<1>1. /\ payments' = payments /\ outbox' = outbox /\ rowLock' = rowLock /\ seen' = seen
      /\ request' = request /\ behaviour' = behaviour /\ charge' = charge /\ faults' = faults
      /\ claims' = claims /\ inserting' = inserting /\ answer' = answer
  BY DEF callVars, settleVars
<1>2. /\ pc'[h] = "settle" /\ \A s \in Settlers : s # h => pc'[s] = pc[s]
      /\ pc' \in [Settlers -> PCs] /\ h \in Settlers /\ Calls \subseteq Settlers /\ h \notin Calls
      /\ m.payment \in Calls
  BY PaymentAssumption DEF PaymentAssumption, PaymentInv, TypeOK, PCs, Settlers, Message
<1>3. /\ message'[h] = m /\ \A s \in Settlers : s # h => message'[s] = message[s]
      /\ m # None /\ message[h] = None
  BY <1>2, NoneAssumption DEF PaymentInv, TypeOK, MessagesAreTrue
<1>4. TypeOK'
  <2>1. message' \in [Settlers -> Message \cup {None}] /\ odd' \subseteq Calls
    BY <1>2 DEF PaymentInv, TypeOK
  <2> QED BY <1>1, <1>2, <2>1 DEF PaymentInv, TypeOK, PCs
<1>5. KeysAgree' /\ RowsAreSound' /\ OneUnresolvedPerOrder' /\ AnnouncedOnce' /\ AnswersAreAttempts'
  <2>1. \A c \in Calls : pc'[c] = "create" <=> pc[c] = "create"
    BY <1>2
  <2> QED BY <2>1, RecordsKept
<1>6. AttemptFirst'
  <2>1. \A c \in Calls : pc'[c] = pc[c]
    BY <1>2
  <2> QED BY <1>1, <2>1 DEF PaymentInv, AttemptFirst, Exists
<1>7. ChargesAreKept'
  <2>1. \A q \in Calls : due[q] = 0 => due'[q] = 0
    OBVIOUS
  <2> QED BY <1>1, <2>1 DEF PaymentInv, ChargesAreKept
<1>8. LocksAreHeld'
  BY <1>1, <1>2, <1>3, LocksKept
<1>9. MessagesAreTrue'
  <2>1. \A s \in Settlers : s # h /\ message[s] # None => Truthful(message[s])'
    <3> SUFFICES ASSUME NEW s \in Settlers, s # h, message[s] # None PROVE Truthful(message[s])'
      OBVIOUS
    <3>1. Truthful(message[s]) /\ message'[s] = message[s]
      BY <1>3 DEF PaymentInv, MessagesAreTrue
    <3> QED BY <3>1, <1>1 DEF Truthful
  <2>2. Truthful(message[h])'
    BY <1>3 DEF Truthful
  <2>3. \A s \in Settlers : message'[s] # None => Truthful(message[s])'
    BY <2>1, <2>2, <1>3
  <2>4. \A s \in Settlers : pc'[s] \in {"settle", "apply"} <=> message'[s] # None
    BY <1>2, <1>3 DEF PaymentInv, MessagesAreTrue
  <2>5. \A c \in Calls : message'[c] # None => message'[c].payment = c
    BY <1>2, <1>3 DEF PaymentInv, MessagesAreTrue
  <2> QED BY <2>3, <2>4, <2>5 DEF MessagesAreTrue
<1>10. RefsAreTrue' /\ RecordsMatchProvider'
  BY <1>1 DEF PaymentInv, RefsAreTrue, RecordsMatchProvider
<1>11. DecisionsAreNews'
  <2> SUFFICES ASSUME NEW q \in Calls \ (faults' \cup odd')
               PROVE  /\ request'[q] = "sent" => pc'[q] = "wait"
                      /\ request'[q] = "sending" => charge'[q] = "pending" /\ behaviour'[q] = "webhookFirst"
                      /\ charge'[q] \in Settled => News(q)'
    BY DEF DecisionsAreNews
  <2>1. q \in Calls \ (faults \cup odd) /\ pc'[q] = pc[q]
    BY <1>1, <1>2
  <2>2. Carried(q) => Carried(q)'
    BY <1>1, <1>3 DEF Carried
  <2>3. due'[q] # due[q] => Carried(q)'
    BY <1>1, <1>2, <1>3 DEF Carried
  <2> QED BY <1>1, <2>1, <2>2, <2>3 DEF PaymentInv, DecisionsAreNews, News
<1> QED BY <1>4, <1>5, <1>6, <1>7, <1>8, <1>9, <1>10, <1>11 DEF PaymentInv

\* fakeprovider.send says what the charge is.
LEMMA SendPreserves ==
  ASSUME PaymentInv, NEW p \in Calls, NEW h \in Hooks, send(p, h)
  PROVE  PaymentInv'
<1>1. /\ due[p] > 0 /\ due' = [due EXCEPT ![p] = due[p] - 1]
      /\ Receive(h, [payment |-> p, status |-> charge[p], ref |-> "charge", signed |-> TRUE])
      /\ UNCHANGED <<callVars, payments, outbox, settleVars, request, behaviour, charge, faults>>
      /\ odd' = odd /\ request' = request /\ charge' = charge
  BY DEF send, history
<1>2. due \in [Calls -> 0..2] /\ due[p] \in 0..2
  BY DEF PaymentInv, TypeOK
<1>3. due' \in [Calls -> 0..2] /\ \A q \in Calls : due'[q] = due[q] \/ q = p
  <2>1. due[p] - 1 \in 0..2
    BY <1>1, <1>2
  <2> QED BY <1>1, <1>2, <2>1
<1>4. request[p] \in {"answered", "sending"} /\ charge[p] \in Statuses
  <2>1. request[p] \in {"none", "sent", "sending", "answered", "hung"} /\ due[p] # 0
    BY <1>1, <1>2 DEF PaymentInv, TypeOK
  <2> QED BY <2>1 DEF PaymentInv, ChargesAreKept
<1>5. PICK m \in Message : m = [payment |-> p, status |-> charge[p], ref |-> "charge", signed |-> TRUE]
  BY <1>4 DEF Message, References
<1>a. m.payment = p /\ m.status = charge[p] /\ m.ref = "charge" /\ m.signed = TRUE
  BY <1>5
<1>6. pc[h] = "idle" /\ pc' = [pc EXCEPT ![h] = "settle"] /\ message' = [message EXCEPT ![h] = m]
  BY <1>1, <1>5, <1>a DEF Receive, ParseCallback
<1>7. Truthful(m)'
  BY <1>1, <1>4, <1>a DEF Truthful
<1>8. \A q \in Calls : due'[q] = due[q] \/ (q = m.payment /\ due[q] > 0 /\ m.status = charge[q])
  BY <1>1, <1>3, <1>a
<1>9. odd' = odd \/ odd' = odd \cup {m.payment}
  BY <1>1
<1> QED BY <1>1, <1>3, <1>6, <1>7, <1>8, <1>9, ReceivePreserves

\* Anybody may post anything: what is not signed is dropped, and a signed
\* contradiction marks the attempt it is about.
LEMMA StrayPreserves ==
  ASSUME PaymentInv, NEW p \in Calls, NEW h \in Hooks, StrayCallback(h, p)
  PROVE  PaymentInv'
<1>1. PICK m \in Strays(p) :
        /\ Receive(h, m)
        /\ IF m.signed THEN odd' = odd \cup {p} ELSE odd' = odd
  BY DEF StrayCallback
<1>2. /\ UNCHANGED <<callVars, payments, outbox, settleVars, request, behaviour, charge, faults>>
      /\ due' = due /\ payments' = payments /\ outbox' = outbox /\ rowLock' = rowLock /\ seen' = seen
      /\ request' = request /\ behaviour' = behaviour /\ charge' = charge /\ faults' = faults
      /\ claims' = claims /\ inserting' = inserting /\ answer' = answer
  BY DEF StrayCallback, providerVars, callVars, settleVars
<1>3. m \in Message /\ m.payment = p /\ m.signed \in BOOLEAN
  <2>1. CASE m \in [payment : {p}, status : Statuses, ref : References, signed : {TRUE}]
    BY <2>1 DEF Message
  <2>2. CASE m = [payment |-> p, status |-> "succeeded", ref |-> "charge", signed |-> FALSE]
    BY <2>2 DEF Message, Statuses, References
  <2> QED BY <2>1, <2>2 DEF Strays
<1>4. CASE m.signed
  <2>1. pc[h] = "idle" /\ pc' = [pc EXCEPT ![h] = "settle"] /\ message' = [message EXCEPT ![h] = m]
    BY <1>1, <1>4 DEF Receive, ParseCallback
  <2>2. odd' = odd \cup {m.payment}
    BY <1>1, <1>3, <1>4
  <2>3. Truthful(m)'
    BY <2>2 DEF Truthful
  <2>4. due' \in [Calls -> 0..2] /\ \A q \in Calls : due'[q] = due[q]
    BY <1>2 DEF PaymentInv, TypeOK
  <2> QED BY <1>2, <1>3, <2>1, <2>2, <2>3, <2>4, ReceivePreserves
<1>5. CASE ~m.signed
  <2>1. pc' = pc /\ message' = message /\ odd' = odd
    BY <1>1, <1>5 DEF Receive, ParseCallback
  <2>2. TypeOK'
    BY <1>2, <2>1 DEF PaymentInv, TypeOK
  <2>3. KeysAgree' /\ RowsAreSound' /\ OneUnresolvedPerOrder' /\ AnnouncedOnce' /\ AnswersAreAttempts'
    BY <1>2, <2>1, RecordsKept
  <2>4. AttemptFirst' /\ ChargesAreKept' /\ RefsAreTrue' /\ RecordsMatchProvider'
    BY <1>2, <2>1 DEF PaymentInv, AttemptFirst, ChargesAreKept, RefsAreTrue, RecordsMatchProvider, Exists
  <2>5. LocksAreHeld'
    BY <1>2, <2>1, LocksKept
  <2>6. MessagesAreTrue' /\ DecisionsAreNews'
    BY <1>2, <2>1 DEF PaymentInv, MessagesAreTrue, Truthful, DecisionsAreNews, News, Carried
  <2> QED BY <2>2, <2>3, <2>4, <2>5, <2>6 DEF PaymentInv
<1> QED BY <1>3, <1>4, <1>5

\* A webhook that is not delivered is news that was lost.
LEMMA SendLostPreserves ==
  ASSUME PaymentInv, NEW p \in Calls, sendLost(p)
  PROVE  PaymentInv'
<1>1. /\ due[p] > 0 /\ due' = [due EXCEPT ![p] = due[p] - 1]
      /\ faults' = faults \cup {p}
      /\ UNCHANGED <<callVars, payments, outbox>>
      /\ pc' = pc /\ message' = message /\ odd' = odd
      /\ payments' = payments /\ outbox' = outbox /\ rowLock' = rowLock /\ seen' = seen
      /\ request' = request /\ behaviour' = behaviour /\ charge' = charge
      /\ claims' = claims /\ inserting' = inserting /\ answer' = answer
  BY DEF sendLost, Lose, callVars, settleVars
<1>2. /\ due' \in [Calls -> 0..2] /\ \A q \in Calls : q # p => due'[q] = due[q]
      /\ due[p] # 0
  <2>1. due \in [Calls -> 0..2] /\ due[p] \in 0..2
    BY DEF PaymentInv, TypeOK
  <2>2. due[p] - 1 \in 0..2
    BY <1>1, <2>1
  <2> QED BY <1>1, <2>1, <2>2
<1>3. TypeOK'
  BY <1>1, <1>2 DEF PaymentInv, TypeOK
<1>4. KeysAgree' /\ RowsAreSound' /\ OneUnresolvedPerOrder' /\ AnnouncedOnce' /\ AnswersAreAttempts'
  BY <1>1, RecordsKept
<1>5. AttemptFirst' /\ ChargesAreKept' /\ RefsAreTrue' /\ RecordsMatchProvider'
  BY <1>1, <1>2 DEF PaymentInv, AttemptFirst, ChargesAreKept, RefsAreTrue, RecordsMatchProvider, Exists
<1>6. LocksAreHeld'
  BY <1>1, LocksKept
<1>7. MessagesAreTrue' /\ DecisionsAreNews'
  BY <1>1, <1>2 DEF PaymentInv, MessagesAreTrue, Truthful, DecisionsAreNews, News, Carried
<1> QED BY <1>3, <1>4, <1>5, <1>6, <1>7 DEF PaymentInv

\* Only a contradiction is about an attempt that does not exist.
LEMMA UnknownPreserves ==
  ASSUME PaymentInv, NEW h \in Hooks, CallbackUnknown(h)
  PROVE  PaymentInv'
<1>1. /\ pc[h] = "settle" /\ ~Exists(message[h].payment)
      /\ pc' = [pc EXCEPT ![h] = "idle"] /\ message' = [message EXCEPT ![h] = None]
      /\ UNCHANGED <<callVars, payments, outbox>>
      /\ payments' = payments /\ outbox' = outbox /\ rowLock' = rowLock /\ seen' = seen
      /\ request' = request /\ behaviour' = behaviour /\ charge' = charge /\ due' = due
      /\ odd' = odd /\ faults' = faults
      /\ claims' = claims /\ inserting' = inserting /\ answer' = answer
  BY DEF CallbackUnknown, Exists, callVars, settleVars, providerVars, history
<1>2. /\ pc'[h] = "idle" /\ \A s \in Settlers : s # h => pc'[s] = pc[s]
      /\ pc' \in [Settlers -> PCs] /\ h \in Settlers /\ Calls \subseteq Settlers /\ h \notin Calls
      /\ message'[h] = None /\ \A s \in Settlers : s # h => message'[s] = message[s]
  BY <1>1, PaymentAssumption DEF PaymentAssumption, PaymentInv, TypeOK, PCs, Settlers
<1>3. message[h] # None /\ message[h].payment \in odd
  <2>1. message[h] # None /\ Truthful(message[h]) /\ message[h].payment \in Calls
    BY <1>1, <1>2, MessageType DEF PaymentInv, MessagesAreTrue
  <2> QED BY <2>1, <1>1 DEF Truthful, PaymentInv, AttemptFirst
<1>4. TypeOK'
  <2>1. message' \in [Settlers -> Message \cup {None}]
    BY <1>1 DEF PaymentInv, TypeOK
  <2> QED BY <1>1, <1>2, <2>1 DEF PaymentInv, TypeOK, PCs
<1>5. \A c \in Calls : pc'[c] = pc[c]
  BY <1>2
<1>6. KeysAgree' /\ RowsAreSound' /\ OneUnresolvedPerOrder' /\ AnnouncedOnce' /\ AnswersAreAttempts'
  BY <1>1, <1>5, RecordsKept
<1>7. AttemptFirst' /\ ChargesAreKept' /\ RefsAreTrue' /\ RecordsMatchProvider'
  BY <1>1, <1>5 DEF PaymentInv, AttemptFirst, ChargesAreKept, RefsAreTrue, RecordsMatchProvider, Exists
<1>8. LocksAreHeld'
  BY <1>1, <1>2, LocksKept
<1>9. MessagesAreTrue'
  BY <1>1, <1>2 DEF PaymentInv, MessagesAreTrue, Truthful
<1>10. DecisionsAreNews'
  BY <1>1, <1>2, <1>3, <1>5 DEF PaymentInv, DecisionsAreNews, News, Carried
<1> QED BY <1>4, <1>6, <1>7, <1>8, <1>9, <1>10 DEF PaymentInv
-----------------------------------------------------------------------------
(* settle.                                                                 *)

\* FOR UPDATE: the row is locked and is what was read.
LEMMA ReadPreserves ==
  ASSUME PaymentInv, NEW s \in Settlers, FindByIDForUpdate(s)
  PROVE  PaymentInv'
<1> DEFINE p == message[s].payment
<1>1. /\ pc[s] = "settle" /\ Exists(p) /\ rowLock[p] = None
      /\ rowLock' = [rowLock EXCEPT ![p] = s]
      /\ seen' = [seen EXCEPT ![s] = payments[p]]
      /\ pc' = [pc EXCEPT ![s] = "apply"]
      /\ UNCHANGED <<callVars, payments, outbox>>
      /\ payments' = payments /\ outbox' = outbox /\ message' = message
      /\ request' = request /\ behaviour' = behaviour /\ charge' = charge /\ due' = due
      /\ odd' = odd /\ faults' = faults
      /\ claims' = claims /\ inserting' = inserting /\ answer' = answer
  BY DEF FindByIDForUpdate, Exists, callVars, providerVars, history
<1>2. message[s] # None /\ p \in Calls /\ payments[p] \in Row
  <2>1. message[s] # None
    BY <1>1 DEF PaymentInv, MessagesAreTrue
  <2> QED BY <2>1, MessageType DEF PaymentInv, TypeOK
<1> HIDE DEF p
<1>3. /\ pc'[s] = "apply" /\ \A t \in Settlers : t # s => pc'[t] = pc[t]
      /\ pc' \in [Settlers -> PCs] /\ Calls \subseteq Settlers /\ None \notin Settlers
      /\ rowLock'[p] = s /\ \A q \in Calls : q # p => rowLock'[q] = rowLock[q]
      /\ rowLock' \in [Calls -> Settlers \cup {None}] /\ rowLock \in [Calls -> Settlers \cup {None}]
      /\ seen'[s] = payments[p] /\ \A t \in Settlers : t # s => seen'[t] = seen[t]
      /\ seen' \in [Settlers -> Row]
  BY <1>1, <1>2, PaymentAssumption DEF PaymentAssumption, PaymentInv, TypeOK, PCs, Settlers
<1>4. TypeOK'
  BY <1>1, <1>3 DEF PaymentInv, TypeOK, PCs
<1>5. \A c \in Calls : pc'[c] # pc[c] => pc[c] = "settle" /\ pc'[c] = "apply"
  BY <1>1, <1>3
<1>6. KeysAgree' /\ RowsAreSound' /\ OneUnresolvedPerOrder' /\ AnnouncedOnce' /\ AnswersAreAttempts'
  BY <1>1, <1>5, RecordsKept
<1>7. AttemptFirst'
  <2> SUFFICES ASSUME NEW c \in Calls
               PROVE  /\ pc'[c] \in {"idle", "claim", "create"} => ~Exists(c)
                      /\ pc'[c] \in {"charge", "wait", "settle", "apply"} => Exists(c)
                      /\ pc'[c] \in {"idle", "claim", "create", "charge"} => request[c] = "none"
                      /\ request[c] # "none" => Exists(c)
    BY <1>1 DEF AttemptFirst, Exists
  <2> QED BY <1>5 DEF PaymentInv, AttemptFirst
<1>8. ChargesAreKept' /\ RefsAreTrue' /\ RecordsMatchProvider'
  BY <1>1 DEF PaymentInv, ChargesAreKept, RefsAreTrue, RecordsMatchProvider
<1>9. LocksAreHeld'
  <2>1. \A q \in Calls : rowLock'[q] # None => pc'[rowLock'[q]] = "apply" /\ message[rowLock'[q]].payment = q
    <3> SUFFICES ASSUME NEW q \in Calls, rowLock'[q] # None
                 PROVE  pc'[rowLock'[q]] = "apply" /\ message[rowLock'[q]].payment = q
      OBVIOUS
    <3>1. CASE q = p
      BY <3>1, <1>3 DEF p
    <3>2. CASE q # p
      <4>1. rowLock'[q] = rowLock[q] /\ pc[rowLock[q]] = "apply" /\ message[rowLock[q]].payment = q
        BY <3>2, <1>3 DEF PaymentInv, LocksAreHeld
      <4>2. rowLock[q] \in Settlers /\ rowLock[q] # s
        BY <4>1, <1>1, <1>3
      <4> QED BY <4>1, <4>2, <1>3
    <3> QED BY <3>1, <3>2
  <2>2. \A t \in Settlers : pc'[t] = "apply" =>
          rowLock'[message[t].payment] = t /\ seen'[t] = payments[message[t].payment] /\ Exists(message[t].payment)
    <3> SUFFICES ASSUME NEW t \in Settlers, pc'[t] = "apply"
                 PROVE  /\ rowLock'[message[t].payment] = t
                        /\ seen'[t] = payments[message[t].payment] /\ Exists(message[t].payment)
      OBVIOUS
    <3>1. CASE t = s
      BY <3>1, <1>1, <1>3 DEF p
    <3>2. CASE t # s
      <4>1. pc[t] = "apply" /\ seen'[t] = seen[t]
        BY <3>2, <1>3
      <4>2. /\ rowLock[message[t].payment] = t /\ seen[t] = payments[message[t].payment]
            /\ Exists(message[t].payment)
        BY <4>1 DEF PaymentInv, LocksAreHeld
      <4>3. message[t] # None
        BY <4>1 DEF PaymentInv, MessagesAreTrue
      <4>4. message[t].payment \in Calls /\ message[t].payment # p
        BY <4>2, <4>3, <1>1, <1>3, MessageType
      <4> QED BY <4>1, <4>2, <4>4, <1>3
    <3> QED BY <3>1, <3>2
  <2> QED BY <2>1, <2>2, <1>1 DEF LocksAreHeld, Exists
<1>10. MessagesAreTrue'
  BY <1>1, <1>3 DEF PaymentInv, MessagesAreTrue, Truthful
<1>11. DecisionsAreNews'
  BY <1>1, <1>5 DEF PaymentInv, DecisionsAreNews, News, Carried
<1> QED BY <1>4, <1>6, <1>7, <1>8, <1>9, <1>10, <1>11 DEF PaymentInv

\* The end of a settling transaction, as its locks, messages and decisions see
\* it: nobody else held the row, and the news is in the row, was lost, or was
\* not in this message.
LEMMA EndKeeps ==
  ASSUME PaymentInv, NEW s \in Settlers, pc[s] \in {"settle", "apply"}, EndSettle(s),
         payments' \in [Calls -> Row],
         \A q \in Calls : Exists(q)' <=> Exists(q),
         \A q \in Calls : payments'[q] = payments[q] \/ (pc[s] = "apply" /\ q = message[s].payment),
         UNCHANGED <<request, behaviour, charge, due, odd>>,
         faults \subseteq faults', faults' \subseteq Calls,
         LET p == message[s].payment
         IN  p \notin faults' \cup odd /\ charge[p] \in Settled =>
               \/ payments'[p].status = charge[p]
               \/ message[s].status # charge[p] /\ payments'[p].status = payments[p].status
  PROVE  /\ AttemptFirst' /\ ChargesAreKept' /\ LocksAreHeld' /\ MessagesAreTrue' /\ DecisionsAreNews'
         /\ pc' \in [Settlers -> PCs] /\ message' \in [Settlers -> Message \cup {None}]
         /\ seen' \in [Settlers -> Row] /\ rowLock' \in [Calls -> Settlers \cup {None}]
         /\ \A c \in Calls : pc'[c] = "create" <=> pc[c] = "create"
<1>1. /\ pc' = [pc EXCEPT ![s] = Over(s)]
      /\ rowLock' = [q \in Calls |-> IF rowLock[q] = s THEN None ELSE rowLock[q]]
      /\ message' = [message EXCEPT ![s] = None]
      /\ seen' = [seen EXCEPT ![s] = NoRow]
      /\ request' = request /\ behaviour' = behaviour /\ charge' = charge /\ due' = due /\ odd' = odd
  BY DEF EndSettle
<1>2. Over(s) \in {"idle", "done"} /\ (s \in Calls => Over(s) = "done") /\ None \notin Settlers
      /\ Calls \subseteq Settlers
  BY PaymentAssumption DEF PaymentAssumption, Over, Settlers
<1>3. NoRow \in Row
  BY DEF NoRow, Row, MaxVersion
<1>4. /\ pc' \in [Settlers -> PCs] /\ message' \in [Settlers -> Message \cup {None}]
      /\ seen' \in [Settlers -> Row] /\ rowLock' \in [Calls -> Settlers \cup {None}]
  BY <1>1, <1>2, <1>3 DEF PaymentInv, TypeOK, PCs
<1>5. /\ pc'[s] = Over(s) /\ message'[s] = None
      /\ \A t \in Settlers : t # s =>
           pc'[t] = pc[t] /\ message'[t] = message[t] /\ seen'[t] = seen[t]
  BY <1>1 DEF PaymentInv, TypeOK
<1>6. AttemptFirst'
  <2>1. \A c \in Calls : /\ pc'[c] \in {"idle", "claim", "create", "charge"} => pc'[c] = pc[c]
                         /\ pc'[c] \in {"wait", "settle", "apply"} => pc'[c] = pc[c]
    BY <1>2, <1>5
  <2> QED BY <1>1, <2>1 DEF PaymentInv, AttemptFirst
<1>7. ChargesAreKept'
  BY <1>1 DEF PaymentInv, ChargesAreKept
<1>8. LocksAreHeld'
  <2>1. \A q \in Calls : rowLock'[q] # None => pc'[rowLock'[q]] = "apply" /\ message'[rowLock'[q]].payment = q
    <3> SUFFICES ASSUME NEW q \in Calls, rowLock'[q] # None
                 PROVE  pc'[rowLock'[q]] = "apply" /\ message'[rowLock'[q]].payment = q
      OBVIOUS
    <3>1. rowLock'[q] = rowLock[q] /\ rowLock[q] # s /\ rowLock[q] \in Settlers
      BY <1>1 DEF PaymentInv, TypeOK
    <3> QED BY <3>1, <1>5 DEF PaymentInv, LocksAreHeld
  <2>2. ASSUME NEW t \in Settlers, pc'[t] = "apply"
        PROVE  /\ rowLock'[message'[t].payment] = t
               /\ seen'[t] = payments'[message'[t].payment]
               /\ Exists(message[t].payment)'
    <3>1. t # s /\ pc[t] = "apply" /\ message'[t] = message[t] /\ seen'[t] = seen[t]
      BY <2>2, <1>2, <1>5
    <3>2. message[t].payment \in Calls
      BY <3>1, MessageType DEF PaymentInv, MessagesAreTrue
    <3>3. /\ rowLock[message[t].payment] = t /\ seen[t] = payments[message[t].payment]
          /\ Exists(message[t].payment)
      BY <3>1 DEF PaymentInv, LocksAreHeld
    <3>4. pc[s] = "apply" => message[t].payment # message[s].payment
      BY <3>1, <3>3 DEF PaymentInv, LocksAreHeld
    <3>5. payments'[message[t].payment] = payments[message[t].payment]
      BY <3>2, <3>4
    <3> QED BY <1>1, <3>1, <3>2, <3>3, <3>5 DEF Exists
  <2> QED BY <2>1, <2>2 DEF LocksAreHeld, Exists
<1>9. MessagesAreTrue'
  <2>1. \A t \in Settlers : pc'[t] \in {"settle", "apply"} <=> message'[t] # None
    BY <1>2, <1>5 DEF PaymentInv, MessagesAreTrue
  <2>2. \A c \in Calls : message'[c] # None => message'[c].payment = c
    BY <1>2, <1>5 DEF PaymentInv, MessagesAreTrue
  <2>3. \A t \in Settlers : message'[t] # None => Truthful(message[t])'
    <3> SUFFICES ASSUME NEW t \in Settlers, message'[t] # None PROVE Truthful(message[t])'
      OBVIOUS
    <3>1. message'[t] = message[t] /\ Truthful(message[t])
      BY <1>5 DEF PaymentInv, MessagesAreTrue
    <3> QED BY <3>1, <1>1 DEF Truthful
  <2> QED BY <2>1, <2>2, <2>3 DEF MessagesAreTrue
<1>10. DecisionsAreNews'
  <2> SUFFICES ASSUME NEW q \in Calls \ (faults' \cup odd')
               PROVE  /\ request'[q] = "sent" => pc'[q] = "wait"
                      /\ request'[q] = "sending" => charge'[q] = "pending" /\ behaviour'[q] = "webhookFirst"
                      /\ charge'[q] \in Settled => News(q)'
    BY DEF DecisionsAreNews
  <2>1. q \in Calls \ (faults \cup odd)
    BY <1>1
  <2>2. pc[q] = "wait" => pc'[q] = "wait"
    BY <1>2, <1>5
  <2>3. Carried(q) => Carried(q)' \/ (message[s].payment = q /\ message[s].status = charge[q])
    BY <1>1, <1>5 DEF Carried
  <2>4. CASE q # message[s].payment
    <3>1. payments'[q] = payments[q]
      BY <2>4
    <3> QED BY <1>1, <2>1, <2>2, <2>3, <2>4, <3>1 DEF PaymentInv, DecisionsAreNews, News
  <2>5. CASE q = message[s].payment
    BY <1>1, <2>1, <2>2, <2>3, <2>5 DEF PaymentInv, DecisionsAreNews, News
  <2> QED BY <2>4, <2>5
<1>11. \A c \in Calls : pc'[c] = "create" <=> pc[c] = "create"
  BY <1>2, <1>5
<1> QED BY <1>4, <1>6, <1>7, <1>8, <1>9, <1>10, <1>11

\* What a settling transaction has read, and was told.
LEMMA SettleReads ==
  ASSUME PaymentInv, NEW s \in Settlers, pc[s] = "apply"
  PROVE  /\ message[s] \in Message /\ message[s].payment \in Calls
         /\ seen[s] = payments[message[s].payment] /\ Exists(message[s].payment)
         /\ Sound(seen[s]) /\ Truthful(message[s])
         /\ message[s].payment \notin odd => seen[s].ref \in {"none", "charge"}
         /\ s \in Calls => message[s].payment = s
<1>1. message[s] # None /\ Truthful(message[s]) /\ (s \in Calls => message[s].payment = s)
  BY DEF PaymentInv, MessagesAreTrue
<1>2. message[s] \in Message /\ message[s].payment \in Calls
  BY <1>1, MessageType
<1>3. seen[s] = payments[message[s].payment] /\ Exists(message[s].payment)
  BY DEF PaymentInv, LocksAreHeld
<1>4. payments[message[s].payment] \in Row
  BY <1>2 DEF PaymentInv, TypeOK
<1>5. Sound(seen[s])
  BY <1>2, <1>3, <1>4 DEF Sound, Exists, PaymentInv, RowsAreSound
<1> QED BY <1>1, <1>2, <1>3, <1>5 DEF PaymentInv, RefsAreTrue

\* Keys and answers after the end of a settling transaction: a call answers with
\* its own attempt.
LEMMA EndAnswers ==
  ASSUME PaymentInv, NEW s \in Settlers, claims' = claims, inserting' = inserting,
         \A q \in Calls : Exists(q)' <=> Exists(q),
         \A c \in Calls : pc'[c] = "create" <=> pc[c] = "create",
         answer' = answer \/ (AnswerSettled(s) /\ (s \in Calls => Exists(s)))
  PROVE  KeysAgree' /\ AnswersAreAttempts' /\ answer' \in [Calls -> Calls \cup {None}]
<1>1. \A k \in Keys : /\ claims[k] # None => claims[k] \in Calls
                      /\ inserting[k] # None => inserting[k] \in Calls
  BY DEF PaymentInv, TypeOK
<1>2. \A k \in Keys : claims'[k] # None => Exists(claims[k])' /\ KeyOf[claims'[k]] = k
  <2> SUFFICES ASSUME NEW k \in Keys, claims'[k] # None
               PROVE  Exists(claims[k])' /\ KeyOf[claims'[k]] = k
    OBVIOUS
  <2>1. Exists(claims[k]) /\ KeyOf[claims[k]] = k /\ claims[k] \in Calls
    BY <1>1 DEF PaymentInv, KeysAgree
  <2> QED BY <2>1 DEF Exists
<1>3. KeysAgree'
  <2>1. /\ \A c \in Calls : Exists(c)' => claims'[KeyOf[c]] = c
        /\ \A k \in Keys : inserting'[k] # None => pc'[inserting'[k]] = "create" /\ KeyOf[inserting'[k]] = k
        /\ \A c \in Calls : pc'[c] = "create" => inserting'[KeyOf[c]] = c /\ claims'[KeyOf[c]] = None
    BY <1>1 DEF PaymentInv, KeysAgree, Claim
  <2> QED BY <1>2, <2>1 DEF KeysAgree, Claim, Exists
<1>4. answer \in [Calls -> Calls \cup {None}]
  BY DEF PaymentInv, TypeOK
<1>5. answer' \in [Calls -> Calls \cup {None}] /\ \A c \in Calls : answer'[c] = answer[c] \/ (answer'[c] = c /\ Exists(c))
  BY <1>4 DEF AnswerSettled
<1>6. \A c \in Calls : answer'[c] # None =>
        /\ payments'[answer'[c]].status # "absent"
        /\ KeyOf[answer'[c]] = KeyOf[c] /\ RequestOf[answer'[c]] = RequestOf[c]
  <2> SUFFICES ASSUME NEW c \in Calls, answer'[c] # None
               PROVE  /\ payments'[answer'[c]].status # "absent"
                      /\ KeyOf[answer'[c]] = KeyOf[c] /\ RequestOf[answer'[c]] = RequestOf[c]
    OBVIOUS
  <2>1. CASE answer'[c] = answer[c]
    <3>1. answer[c] \in Calls /\ Exists(answer[c])
      BY <2>1, <1>4 DEF PaymentInv, AnswersAreAttempts, Exists
    <3>2. payments'[answer[c]].status # "absent"
      BY <3>1 DEF Exists
    <3> QED BY <2>1, <3>2 DEF PaymentInv, AnswersAreAttempts
  <2>2. CASE answer'[c] = c /\ Exists(c)
    BY <2>2 DEF Exists
  <2> QED BY <2>1, <2>2, <1>5
<1>7. \A p, q \in Calls : Exists(p)' /\ Exists(q)' /\ KeyOf[p] = KeyOf[q] => p = q
  BY <1>3 DEF KeysAgree
<1>8. AnswersAreAttempts'
  BY <1>6, <1>7 DEF AnswersAreAttempts, Exists
<1> QED BY <1>3, <1>5, <1>8

\* A transaction that writes nothing: there was nothing left to do, the aggregate
\* refused, or it failed and what it carried is lost.  What a true message says
\* is refused only if it is in the row.
LEMMA UnwrittenPreserves ==
  ASSUME PaymentInv, NEW s \in Settlers, SettleUnmoved(s) \/ SettleRefused(s) \/ SettleLost(s)
  PROVE  PaymentInv'
<1> DEFINE p == message[s].payment
<1>1. /\ pc[s] \in {"settle", "apply"} /\ EndSettle(s)
      /\ payments' = payments /\ outbox' = outbox
      /\ UNCHANGED <<request, behaviour, charge, due, odd>>
      /\ claims' = claims /\ inserting' = inserting
  BY DEF SettleUnmoved, SettleRefused, SettleLost, callVars, providerVars, history
<1>2. message[s] # None /\ message[s] \in Message /\ p \in Calls /\ Truthful(message[s])
  <2>1. message[s] # None /\ Truthful(message[s])
    BY <1>1 DEF PaymentInv, MessagesAreTrue
  <2> QED BY <2>1, MessageType
<1>3. \/ /\ faults' = faults /\ pc[s] = "apply" /\ (answer' = answer \/ AnswerSettled(s))
         /\ apply(seen[s], message[s]).kind \in {"unmoved", "refused"}
      \/ faults' = faults \cup {p} /\ answer' = answer
  <2>1. CASE SettleUnmoved(s)
    <3>1. pc[s] = "apply" /\ faults' = faults /\ AnswerSettled(s)
      BY <2>1 DEF SettleUnmoved, history
    <3>2. apply(seen[s], message[s]).kind = "unmoved"
      BY <2>1 DEF SettleUnmoved
    <3> QED BY <3>1, <3>2
  <2>2. CASE SettleRefused(s)
    <3>1. pc[s] = "apply" /\ faults' = faults /\ answer' = answer
      BY <2>2 DEF SettleRefused, history, callVars
    <3>2. Current(s)
      BY <3>1, SettleReads DEF Current
    <3>3. apply(seen[s], message[s]).kind = "refused"
      BY <2>2, <3>2 DEF SettleRefused
    <3> QED BY <3>1, <3>3
  <2>3. CASE SettleLost(s)
    BY <2>3 DEF SettleLost, Lose, callVars
  <2> QED BY <2>1, <2>2, <2>3
<1>4. faults \subseteq faults' /\ faults' \subseteq Calls
  BY <1>2, <1>3 DEF PaymentInv, TypeOK
<1>5. p \notin faults' \cup odd /\ charge[p] \in Settled =>
        payments[p].status = charge[p] \/ message[s].status # charge[p]
  <2> SUFFICES ASSUME p \notin faults' \cup odd, charge[p] \in Settled, message[s].status = charge[p]
               PROVE  payments[p].status = charge[p]
    OBVIOUS
  <2>1. pc[s] = "apply" /\ apply(seen[s], message[s]).kind \in {"unmoved", "refused"}
    BY <1>3
  <2>2. /\ Sound(seen[s]) /\ seen[s] = payments[p] /\ seen[s].ref \in {"none", "charge"}
        /\ message[s].ref = "charge" /\ message[s].status \in Settled
    BY <2>1, SettleReads, <1>2 DEF Truthful
  <2>3. \/ seen[s].status = message[s].status
        \/ seen[s].status \in Settled /\ seen[s].status # message[s].status
    BY <2>1, <2>2, <1>2, ApplyStays
  <2>4. payments[p].status \in Settled => payments[p].status = charge[p]
    BY <1>2 DEF PaymentInv, RecordsMatchProvider
  <2> QED BY <2>2, <2>3, <2>4
<1>6. \A q \in Calls : Exists(q)' <=> Exists(q)
  BY <1>1 DEF Exists
<1>7. payments' \in [Calls -> Row]
  BY <1>1 DEF PaymentInv, TypeOK
<1>8. /\ AttemptFirst' /\ ChargesAreKept' /\ LocksAreHeld' /\ MessagesAreTrue' /\ DecisionsAreNews'
      /\ pc' \in [Settlers -> PCs] /\ message' \in [Settlers -> Message \cup {None}]
      /\ seen' \in [Settlers -> Row] /\ rowLock' \in [Calls -> Settlers \cup {None}]
      /\ \A c \in Calls : pc'[c] = "create" <=> pc[c] = "create"
  BY <1>1, <1>4, <1>5, <1>6, <1>7, EndKeeps
<1>9. answer' = answer \/ (AnswerSettled(s) /\ (s \in Calls => Exists(s)))
  <2>1. AnswerSettled(s) /\ pc[s] = "apply" => (s \in Calls => Exists(s))
    BY SettleReads
  <2> QED BY <1>3, <2>1
<1>10. KeysAgree' /\ AnswersAreAttempts' /\ answer' \in [Calls -> Calls \cup {None}]
  BY <1>1, <1>6, <1>8, <1>9, EndAnswers
<1>11. RowsAreSound' /\ RefsAreTrue' /\ OneUnresolvedPerOrder' /\ RecordsMatchProvider' /\ AnnouncedOnce'
  BY <1>1 DEF PaymentInv, RowsAreSound, RefsAreTrue, OneUnresolvedPerOrder, RecordsMatchProvider,
              AnnouncedOnce, Order, Settled
<1>12. TypeOK'
  BY <1>1, <1>4, <1>8, <1>10 DEF PaymentInv, TypeOK, PCs
<1> QED BY <1>8, <1>10, <1>11, <1>12 DEF PaymentInv

\* A pending attempt is settled, or named, as it was told, and announced with the
\* row's new version.
LEMMA SettlePreserves ==
  ASSUME PaymentInv, NEW s \in Settlers, Settle(s)
  PROVE  PaymentInv'
<1>1. PICK p \in Calls, m \in Message : p = message[s].payment /\ m = message[s]
  BY SettleReads DEF Settle
<1>2. PICK row \in Row : row = seen[s]
  BY SettleReads DEF Settle, Sound
<1>3. /\ pc[s] = "apply" /\ EndSettle(s)
      /\ apply(row, m).kind = "moved"
      /\ payments' = [payments EXCEPT ![p] = [apply(row, m).row EXCEPT !.version = row.version + 1]]
      /\ outbox' = outbox \cup {[payment |-> p, type |-> t, version |-> row.version + 1] :
                                  t \in apply(row, m).raised}
      /\ AnswerSettled(s)
      /\ UNCHANGED <<request, behaviour, charge, due, odd>>
      /\ claims' = claims /\ inserting' = inserting /\ faults' = faults
      /\ request' = request /\ charge' = charge /\ odd' = odd
  BY <1>1, <1>2 DEF Settle, SettlePayment, writeEvents, providerVars, history
<1>4. /\ m.payment = p /\ row = payments[p] /\ Exists(p) /\ Sound(row)
      /\ p \notin odd => m.ref = "charge" /\ row.ref \in {"none", "charge"}
                         /\ (m.status \in Settled => charge[p] = m.status)
  BY <1>1, <1>2, <1>3, SettleReads DEF Truthful
<1>5. /\ row.status = "pending" /\ row.ref \in {"none", m.ref}
      /\ apply(row, m).row \in Row
      /\ apply(row, m).row.status = Told(m)
      /\ apply(row, m).row.ref = m.ref
      /\ apply(row, m).raised = IF m.status \in Settled THEN {m.status} ELSE {}
      /\ m.status \notin Settled => row.ref = "none"
  BY <1>3, <1>4, ApplyMoves
<1> DEFINE new == [apply(row, m).row EXCEPT !.version = row.version + 1]
<1>6. row.version = IF row.ref = "none" THEN 1 ELSE 2
  BY <1>4, <1>5 DEF PaymentInv, RowsAreSound
<1>7. /\ new \in Row /\ new.status = Told(m) /\ new.ref = m.ref /\ new.version = row.version + 1
  BY <1>5, <1>6 DEF Row, MaxVersion
<1>8. /\ payments'[p] = new /\ \A q \in Calls : q # p => payments'[q] = payments[q]
      /\ payments' \in [Calls -> Row]
  BY <1>3, <1>7 DEF PaymentInv, TypeOK
<1> HIDE DEF new
<1>9. /\ m.status \in Statuses /\ m.ref \in References /\ m.ref # "none"
      /\ Told(m) \in Statuses /\ (Told(m) \in Settled <=> m.status \in Settled)
      /\ m.status \in Settled => Told(m) = m.status
      /\ m.status \notin Settled => Told(m) = "pending"
  BY DEF Message, Told, Settled, References, Statuses
<1>10. \A q \in Calls : Exists(q)' <=> Exists(q)
  BY <1>4, <1>7, <1>8, <1>9 DEF Exists, Statuses
<1>11. p \notin faults' \cup odd /\ charge[p] \in Settled =>
         \/ payments'[p].status = charge[p]
         \/ m.status # charge[p] /\ payments'[p].status = payments[p].status
  BY <1>4, <1>5, <1>7, <1>8, <1>9
<1>12. /\ AttemptFirst' /\ ChargesAreKept' /\ LocksAreHeld' /\ MessagesAreTrue' /\ DecisionsAreNews'
       /\ pc' \in [Settlers -> PCs] /\ message' \in [Settlers -> Message \cup {None}]
       /\ seen' \in [Settlers -> Row] /\ rowLock' \in [Calls -> Settlers \cup {None}]
       /\ \A c \in Calls : pc'[c] = "create" <=> pc[c] = "create"
  <2>1. faults \subseteq faults' /\ faults' \subseteq Calls
    BY <1>3 DEF PaymentInv, TypeOK
  <2> QED BY <1>1, <1>3, <1>8, <1>10, <1>11, <2>1, EndKeeps
<1>13. KeysAgree' /\ AnswersAreAttempts' /\ answer' \in [Calls -> Calls \cup {None}]
  <2>1. s \in Calls => Exists(s)
    BY <1>3, SettleReads
  <2> QED BY <1>3, <1>10, <1>12, <2>1, EndAnswers
<1>14. RowsAreSound'
  <2>1. new.status = "pending" => new.version = IF new.ref = "none" THEN 1 ELSE 2
    BY <1>5, <1>6, <1>7, <1>9 DEF Settled
  <2>2. new.status # "absent" /\ new.ref # "none" /\ new.version \in 2..3
    BY <1>6, <1>7, <1>9 DEF Statuses
  <2> QED BY <1>8, <2>1, <2>2 DEF PaymentInv, RowsAreSound
<1>15. RefsAreTrue'
  BY <1>3, <1>4, <1>7, <1>8 DEF PaymentInv, RefsAreTrue
<1>16. OneUnresolvedPerOrder'
  <2>1. \A q \in Calls : payments'[q].status \in {"pending", "succeeded"} =>
                         payments[q].status \in {"pending", "succeeded"}
    BY <1>4, <1>5, <1>8
  <2> SUFFICES ASSUME NEW q \in Calls, NEW r \in Calls,
                      {payments'[q].status, payments'[r].status} \subseteq {"pending", "succeeded"},
                      Order(q) = Order(r)
               PROVE  q = r
    BY DEF OneUnresolvedPerOrder, Order
  <2>2. payments'[q].status \in {"pending", "succeeded"} /\ payments'[r].status \in {"pending", "succeeded"}
    OBVIOUS
  <2>3. {payments[q].status, payments[r].status} \subseteq {"pending", "succeeded"}
    BY <2>1, <2>2
  <2> QED BY <2>3 DEF PaymentInv, OneUnresolvedPerOrder
<1>17. RecordsMatchProvider'
  <2>1. p \notin odd => /\ request[p] # "none" => payments'[p].status # "absent"
                        /\ payments'[p].status \in Settled => charge[p] = payments'[p].status
    BY <1>4, <1>7, <1>8, <1>9 DEF Statuses
  <2> QED BY <1>3, <1>8, <2>1 DEF PaymentInv, RecordsMatchProvider
<1>18. AnnouncedOnce'
  <2> SUFFICES ASSUME NEW q \in Calls
               PROVE  {e \in outbox' : e.payment = q} =
                        IF payments'[q].status \in Settled
                        THEN {[payment |-> q, type |-> payments'[q].status, version |-> payments'[q].version]}
                        ELSE {}
    BY DEF AnnouncedOnce
  <2>1. {e \in outbox : e.payment = q} =
          IF payments[q].status \in Settled
          THEN {[payment |-> q, type |-> payments[q].status, version |-> payments[q].version]}
          ELSE {}
    BY DEF PaymentInv, AnnouncedOnce
  <2>2. CASE m.status \in Settled
    <3> DEFINE raised == [payment |-> p, type |-> m.status, version |-> row.version + 1]
    <3>1. outbox' = outbox \cup {raised} /\ raised.payment = p
      BY <2>2, <1>3, <1>5
    <3>2. raised = [payment |-> p, type |-> payments'[p].status, version |-> payments'[p].version]
      BY <2>2, <1>7, <1>8, <1>9
    <3> HIDE DEF raised
    <3>3. CASE q = p
      <4>1. {e \in outbox : e.payment = q} = {} /\ payments'[q].status \in Settled
        BY <3>3, <2>1, <2>2, <1>4, <1>5, <1>7, <1>8, <1>9 DEF Settled
      <4> QED BY <3>1, <3>2, <3>3, <4>1
    <3>4. CASE q # p
      BY <3>1, <3>4, <2>1, <1>8
    <3> QED BY <3>3, <3>4
  <2>3. CASE m.status \notin Settled
    <3>1. outbox' = outbox
      BY <2>3, <1>3, <1>5
    <3>2. CASE q = p
      BY <3>1, <3>2, <2>1, <2>3, <1>4, <1>5, <1>7, <1>8, <1>9 DEF Settled
    <3>3. CASE q # p
      BY <3>1, <3>3, <2>1, <1>8
    <3> QED BY <3>2, <3>3
  <2> QED BY <2>2, <2>3
<1>19. outbox' \subseteq Event
  <2>1. m.status \in Settled => [payment |-> p, type |-> m.status, version |-> row.version + 1] \in Event
    BY <1>6 DEF Event, MaxVersion
  <2> QED BY <2>1, <1>3, <1>5 DEF PaymentInv, TypeOK
<1>20. TypeOK'
  BY <1>3, <1>8, <1>12, <1>13, <1>19 DEF PaymentInv, TypeOK, PCs
<1> QED BY <1>12, <1>13, <1>14, <1>15, <1>16, <1>17, <1>18, <1>20 DEF PaymentInv
-----------------------------------------------------------------------------
(* The theorems.                                                           *)

\* Nothing of it depends on what a stuttering step could change.
LEMMA StutterKeeps == PaymentInv /\ UNCHANGED vars => PaymentInv'
<1> SUFFICES ASSUME PaymentInv, UNCHANGED vars PROVE PaymentInv'
  OBVIOUS
<1>1. /\ pc' = pc /\ claims' = claims /\ inserting' = inserting /\ answer' = answer
      /\ payments' = payments /\ outbox' = outbox /\ rowLock' = rowLock /\ seen' = seen
      /\ message' = message /\ request' = request /\ behaviour' = behaviour
      /\ charge' = charge /\ due' = due /\ faults' = faults /\ odd' = odd
  BY DEF vars, callVars, settleVars, providerVars, history
<1>2. TypeOK' /\ KeysAgree' /\ AttemptFirst' /\ ChargesAreKept' /\ RowsAreSound'
  BY <1>1 DEF PaymentInv, TypeOK, KeysAgree, AttemptFirst, ChargesAreKept, RowsAreSound, Exists,
              Claim, Settled
<1>3. LocksAreHeld' /\ MessagesAreTrue' /\ RefsAreTrue' /\ DecisionsAreNews'
  BY <1>1 DEF PaymentInv, LocksAreHeld, MessagesAreTrue, RefsAreTrue, DecisionsAreNews, Exists,
              Truthful, News, Carried
<1>4. OneUnresolvedPerOrder' /\ RecordsMatchProvider' /\ AnnouncedOnce' /\ AnswersAreAttempts'
  BY <1>1 DEF PaymentInv, OneUnresolvedPerOrder, RecordsMatchProvider, AnnouncedOnce,
              AnswersAreAttempts, Order, Settled
<1> QED BY <1>2, <1>3, <1>4 DEF PaymentInv

\* Keys, rows, locks, messages and the provider's charges agree in every state the
\* service can reach.
THEOREM PaymentInvariant == Spec => []PaymentInv
<1>1. Init => PaymentInv
  BY InitPayment
<1>2. PaymentInv /\ [Next]_vars => PaymentInv'
  <2> SUFFICES ASSUME PaymentInv, Next PROVE PaymentInv'
    BY StutterKeeps
  <2>1. CASE \E c \in Calls : Begin(c) \/ CallStep(c) \/ TxFails(c) \/ ChargeFails(c) \/ Crash(c)
    <3> PICK c \in Calls : Begin(c) \/ CallStep(c) \/ TxFails(c) \/ ChargeFails(c) \/ Crash(c)
      BY <2>1
    <3>1. CASE Begin(c) \/ ClaimLost(c)
      BY <3>1, BeginPreserves
    <3>2. CASE ClaimTaken(c)
      BY <3>2, ClaimPreserves
    <3>3. CASE CreateRefused(c) \/ TxFails(c)
      BY <3>3, NoAttemptPreserves
    <3>4. CASE Commit(c) \/ CommitAnswerLost(c)
      BY <3>4, PublishPreserves
    <3>5. CASE Charge(c) \/ ChargeFails(c) \/ Crash(c)
      BY <3>5, ChargePreserves
    <3>6. CASE Charged(c)
      BY <3>6, ChargedPreserves
    <3> QED BY <3>1, <3>2, <3>3, <3>4, <3>5, <3>6 DEF CallStep
  <2>2. CASE \E p \in Calls : ProviderStep(p)
    <3> PICK p \in Calls : ProviderStep(p)
      BY <2>2
    <3>1. CASE (\E b \in Behaviours : create(p, b)) \/ answerLate(p) \/ sendLater(p)
      BY <3>1, ProviderPreserves
    <3>2. CASE sendLost(p)
      BY <3>2, SendLostPreserves
    <3>3. CASE \E h \in Hooks : send(p, h)
      BY <3>3, SendPreserves
    <3> QED BY <3>1, <3>2, <3>3 DEF ProviderStep
  <2>3. CASE \E h \in Hooks : CallbackUnknown(h) \/ \E p \in Calls : StrayCallback(h, p)
    BY <2>3, UnknownPreserves, StrayPreserves
  <2>4. CASE \E s \in Settlers : SettleStep(s) \/ SettleLost(s)
    <3> PICK s \in Settlers : SettleStep(s) \/ SettleLost(s)
      BY <2>4
    <3>1. CASE FindByIDForUpdate(s)
      BY <3>1, ReadPreserves
    <3>2. CASE Settle(s)
      BY <3>2, SettlePreserves
    <3>3. CASE SettleUnmoved(s) \/ SettleRefused(s) \/ SettleLost(s)
      BY <3>3, UnwrittenPreserves
    <3> QED BY <3>1, <3>2, <3>3 DEF SettleStep
  <2> QED BY <2>1, <2>2, <2>3, <2>4 DEF Next
<1> QED BY <1>1, <1>2, PTL DEF Spec

\* InitiatePayment, however many calls race and under however many keys: an order
\* has one attempt that is not failed, and the provider charges for one.
THEOREM OrdersArePaidOnce == Spec => []PaidOnce
<1>1. PaymentInv => PaidOnce
  <2> SUFFICES ASSUME PaymentInv, NEW p \in Calls \ odd, NEW q \in Calls \ odd,
                      charge[p] = "succeeded", charge[q] = "succeeded", Order(p) = Order(q)
               PROVE  p = q
    BY DEF PaymentInv, PaidOnce, ChargedOnce
  <2>1. \A r \in Calls \ odd : charge[r] = "succeeded" => payments[r].status \in {"pending", "succeeded"}
    <3> SUFFICES ASSUME NEW r \in Calls \ odd, charge[r] = "succeeded"
                 PROVE  payments[r].status \in {"pending", "succeeded"}
      OBVIOUS
    <3>1. request[r] # "none"
      BY DEF PaymentInv, ChargesAreKept
    <3>2. payments[r].status # "absent" /\ payments[r].status # "failed"
      BY <3>1 DEF PaymentInv, RecordsMatchProvider, Settled
    <3>3. payments[r] \in Row
      BY DEF PaymentInv, TypeOK
    <3> QED BY <3>2, <3>3 DEF Row, Statuses
  <2>2. {payments[p].status, payments[q].status} \subseteq {"pending", "succeeded"}
    BY <2>1
  <2> QED BY <2>2 DEF PaymentInv, OneUnresolvedPerOrder
<1> QED BY <1>1, PaymentInvariant, PTL

\* settle, by calls and webhook handlers in any order: what is written and announced
\* is what the provider did.
THEOREM RecordsTrue == Spec => []RecordsAreTrue
<1>1. PaymentInv => RecordsAreTrue
  BY DEF PaymentInv, RecordsAreTrue
<1> QED BY <1>1, PaymentInvariant, PTL

\* replay and the claim: a client is answered with its own attempt, and a key makes
\* one.
THEOREM AnswersTrue == Spec => []AnswersAreAttempts
<1>1. PaymentInv => AnswersAreAttempts
  BY DEF PaymentInv
<1> QED BY <1>1, PaymentInvariant, PTL

\* settle after Charge and webhooks: a decision that was not lost on the way or
\* contradicted is in the row once nobody carries it any more.
THEOREM NoDecisionLost == Spec => []DecisionsArrive
<1>1. PaymentInv => DecisionsArrive
  <2> SUFFICES ASSUME PaymentInv, NEW p \in Calls \ (faults \cup odd),
                      charge[p] \in Settled, ~UnderWay(p)
               PROVE  payments[p].status = charge[p]
    BY DEF DecisionsArrive
  <2>1. News(p)
    BY DEF PaymentInv, DecisionsAreNews
  <2> QED BY <2>1 DEF News, Carried, UnderWay
<1> QED BY <1>1, PaymentInvariant, PTL
=============================================================================
