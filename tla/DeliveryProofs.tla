-------------------------- MODULE DeliveryProofs ---------------------------
(***************************************************************************)
(* An event's way from the outbox to its handlers.  OutboxRelay: no event  *)
(* is lost, none is invented, and the topic holds them in order with no    *)
(* more copies than faults, for every number of events, partitions, relays *)
(* and faults.  EventConsumer: claims and effects agree and no message is  *)
(* passed over, for every number of events, members, attempts and failures. *)
(***************************************************************************)
EXTENDS OutboxRelay, EventConsumer, FiniteSetTheorems, TLAPS

(* OutboxRelay and its publisher.                                          *)

Committed(e) == row[e] \in {"waiting", "published"}

\* A row a relay has locked is unpublished, and only that relay has it.
LockedRows ==
  /\ \A r \in Relays : \A e \in batch[r] : row[e] = "waiting"
  /\ \A r, q \in Relays : r # q => batch[r] \cap batch[q] = {}

\* What a partition acknowledged is on the topic, and a relay that is about to
\* mark its batch has heard from every partition.
Acknowledged ==
  /\ \A r \in Relays : \A e \in batch[r] : Part(e) \in acked[r] => Sent(e)
  /\ \A r \in Relays : pc[r] = "mark" => \A e \in batch[r] : Part(e) \in acked[r]

\* Everything on its way to the topic, or on it, was committed.
OnlyCommitted ==
  /\ \A p \in Partitions : \A i \in DOMAIN topic[p] : \A e \in topic[p][i] : Committed(e)
  /\ \A w \in late : \A e \in w[2] : Committed(e)

FaultsCounted == \A e \in Events : resent[e] <= faults

\* The inductive invariant.
DeliveryInv ==
  TypeOK /\ FaultsCounted /\ LockedRows /\ Acknowledged /\ OnlyCommitted /\ MarkedIsSent

-----------------------------------------------------------------------------

\* The balancer sends every event to a partition of the topic.
LEMMA PartType == \A e \in Events : Part(e) \in Partitions
  BY OutboxAssumption DEF OutboxAssumption, Part

\* Appending a batch keeps a topic a topic.
LEMMA LandedType ==
  ASSUME TypeOK, NEW p \in Partitions, NEW S \in SUBSET Events
  PROVE  Landed(p, S) \in [Partitions -> Seq(SUBSET Events)]
<1>1. Append(topic[p], S) \in Seq(SUBSET Events)
  BY DEF TypeOK
<1> QED BY <1>1 DEF TypeOK, Landed

\* Nothing ever leaves the topic, and the appended batch is on it.
LEMMA LandedSent ==
  ASSUME TypeOK, NEW p \in Partitions, NEW S \in SUBSET Events, topic' = Landed(p, S)
  PROVE  \A e \in Events : (Sent(e) \/ (e \in S /\ Part(e) = p)) => Sent(e)'
<1> SUFFICES ASSUME NEW e \in Events, Sent(e) \/ (e \in S /\ Part(e) = p)
             PROVE  Sent(e)'
  OBVIOUS
<1>p. Part(e) \in Partitions
  BY PartType
<1>t. topic[Part(e)] \in Seq(SUBSET Events) /\ topic[p] \in Seq(SUBSET Events)
  BY <1>p DEF TypeOK
<1>s. topic' = [topic EXCEPT ![p] = Append(topic[p], S)]
  BY DEF Landed
<1>1. CASE Part(e) # p
  <2>1. topic'[Part(e)] = topic[Part(e)] /\ Sent(e)
    BY <1>1, <1>p, <1>s DEF TypeOK
  <2> QED BY <2>1 DEF Sent, Part
<1>2. CASE Part(e) = p
  <2>1. topic'[Part(e)] = Append(topic[p], S)
    BY <1>2, <1>s DEF TypeOK
  <2>2. CASE Sent(e)
    <3>1. PICK i \in DOMAIN topic[p] : e \in topic[p][i]
      BY <2>2, <1>2 DEF Sent
    <3>2. i \in DOMAIN Append(topic[p], S) /\ Append(topic[p], S)[i] = topic[p][i]
      BY <3>1, <1>t
    <3> QED BY <2>1, <3>1, <3>2 DEF Sent, Part
  <2>3. CASE e \in S
    <3>1. Len(topic[p]) + 1 \in DOMAIN Append(topic[p], S)
          /\ Append(topic[p], S)[Len(topic[p]) + 1] = S
      BY <1>t
    <3> QED BY <2>1, <2>3, <3>1 DEF Sent, Part
  <2> QED BY <2>2, <2>3, <1>2
<1> QED BY <1>1, <1>2

\* What is on the topic after an append was there before or is in the batch.
LEMMA LandedOrigin ==
  ASSUME TypeOK, NEW p \in Partitions, NEW S \in SUBSET Events, topic' = Landed(p, S),
         NEW q \in Partitions, NEW i \in DOMAIN topic'[q]
  PROVE  topic'[q][i] = S \/ (i \in DOMAIN topic[q] /\ topic'[q][i] = topic[q][i])
<1>t. topic[p] \in Seq(SUBSET Events)
  BY DEF TypeOK
<1>1. CASE q # p
  BY <1>1 DEF TypeOK, Landed
<1>2. CASE q = p
  <2>1. topic'[q] = Append(topic[p], S)
    BY <1>2 DEF TypeOK, Landed
  <2>2. i \in 1..(Len(topic[p]) + 1)
    BY <2>1, <1>t
  <2>3. i = Len(topic[p]) + 1 \/ i \in 1..Len(topic[p])
    BY <2>2, <1>t
  <2> QED BY <1>2, <2>1, <2>3, <1>t
<1> QED BY <1>1, <1>2
-----------------------------------------------------------------------------

\* The outbox and the topic are empty.
LEMMA InitDelivery == Init => DeliveryInv
<1> SUFFICES ASSUME Init PROVE DeliveryInv
  OBVIOUS
<1>1. TypeOK
  BY OutboxAssumption DEF Init, TypeOK, RowStates, OutboxAssumption
<1>2. FaultsCounted
  BY DEF Init, FaultsCounted
<1>3. LockedRows /\ Acknowledged /\ MarkedIsSent
  BY DEF Init, LockedRows, Acknowledged, MarkedIsSent
<1>4. OnlyCommitted
  BY DEF Init, OnlyCommitted
<1> QED BY <1>1, <1>2, <1>3, <1>4 DEF DeliveryInv

\* The end of a fault or of an ordinary step keeps the history counted.
LEMMA FaultCounts ==
  ASSUME TypeOK, FaultsCounted, NEW S, Fault(S)
  PROVE  faults' \in 0..MaxFaults /\ resent' \in [Events -> 0..MaxFaults] /\ FaultsCounted'
<1>1. faults \in Nat /\ faults < MaxFaults /\ faults' = faults + 1 /\ MaxFaults \in Nat
  BY OutboxAssumption DEF OutboxAssumption, TypeOK, Fault
<1>2. \A e \in Events : resent[e] \in Nat /\ resent[e] <= faults
  BY OutboxAssumption DEF OutboxAssumption, TypeOK, FaultsCounted
<1>3. \A e \in Events : resent'[e] = resent[e] + IF e \in S THEN 1 ELSE 0
  BY DEF Fault
<1>4. \A e \in Events : resent'[e] \in 0..MaxFaults /\ resent'[e] <= faults'
  BY <1>1, <1>2, <1>3
<1>5. resent' = [e \in Events |-> resent'[e]]
  BY DEF Fault
<1>6. resent' \in [Events -> 0..MaxFaults]
  BY <1>4, <1>5
<1> QED BY <1>1, <1>4, <1>6 DEF FaultsCounted

\* A step that leaves the broker and the relays alone.
LEMMA WritesPreserve ==
  ASSUME DeliveryInv, NEW e \in Events,
         Write(e) \/ EndWrite(e, "waiting") \/ EndWrite(e, "aborted")
  PROVE  DeliveryInv'
<1>1. PICK to \in {"open", "waiting", "aborted"} : row' = [row EXCEPT ![e] = to]
  BY DEF Write, EndWrite
<1>2. row[e] \in {"none", "open"} /\ UNCHANGED <<relays, broker, history>>
  BY DEF Write, EndWrite
<1>3. /\ pc' = pc /\ batch' = batch /\ acked' = acked
      /\ topic' = topic /\ late' = late /\ faults' = faults /\ resent' = resent
      /\ overlap' = overlap
  BY <1>2 DEF relays, broker, history
<1>4. TypeOK'
  BY <1>1, <1>3 DEF DeliveryInv, TypeOK, RowStates
<1>5. \A f \in Events : Committed(f) => row'[f] = row[f]
  BY <1>1, <1>2 DEF DeliveryInv, TypeOK, Committed
<1>6. \A f \in Events : Sent(f)' <=> Sent(f)
  BY <1>3 DEF Sent, Part
<1>7. FaultsCounted'
  BY <1>3 DEF DeliveryInv, FaultsCounted
<1>8. LockedRows'
  BY <1>3, <1>5 DEF DeliveryInv, TypeOK, LockedRows, Committed
<1>9. Acknowledged'
  BY <1>3, <1>6 DEF DeliveryInv, TypeOK, Acknowledged, Part
<1>10. \A p \in Partitions : \A i \in DOMAIN topic[p] : topic[p][i] \subseteq Events
  BY DEF DeliveryInv, TypeOK
<1>11. \A w \in late : w[2] \subseteq Events
  BY DEF DeliveryInv, TypeOK
<1>12. OnlyCommitted'
  BY <1>3, <1>5, <1>10, <1>11 DEF DeliveryInv, OnlyCommitted, Committed
<1>13. MarkedIsSent'
  BY <1>1, <1>6 DEF DeliveryInv, TypeOK, MarkedIsSent
<1> QED BY <1>4, <1>7, <1>8, <1>9, <1>12, <1>13 DEF DeliveryInv

\* Locks are taken only on rows nobody has.
LEMMA ClaimPreserves ==
  ASSUME DeliveryInv, NEW r \in Relays, claim(r)
  PROVE  DeliveryInv'
<1>1. PICK S \in SUBSET Events : IsBatch(S) /\ batch' = [batch EXCEPT ![r] = S]
  BY DEF claim
<1>2. /\ pc' = [pc EXCEPT ![r] = "publish"] /\ acked' = [acked EXCEPT ![r] = {}]
      /\ row' = row /\ topic' = topic /\ late' = late /\ faults' = faults /\ resent' = resent
      /\ overlap' \in {overlap, "once"}
  BY DEF claim, broker
<1>3. \A e \in S : row[e] = "waiting" /\ \A q \in Relays : e \notin batch[q]
  BY <1>1 DEF IsBatch, Claimable
<1>4. TypeOK'
  BY <1>1, <1>2 DEF DeliveryInv, TypeOK
<1>5. FaultsCounted' /\ MarkedIsSent'
  BY <1>2 DEF DeliveryInv, FaultsCounted, MarkedIsSent, Sent, Part
<1>6. LockedRows'
  BY <1>1, <1>2, <1>3 DEF DeliveryInv, TypeOK, LockedRows
<1>7. \A f \in Events : Sent(f)' <=> Sent(f)
  BY <1>2 DEF Sent, Part
<1>8. Acknowledged'
  BY <1>1, <1>2, <1>7 DEF DeliveryInv, TypeOK, Acknowledged, Part
<1>9. OnlyCommitted'
  BY <1>2 DEF DeliveryInv, OnlyCommitted, Committed
<1> QED BY <1>4, <1>5, <1>6, <1>8, <1>9 DEF DeliveryInv

\* A batch that lands was locked, hence committed, and an acknowledgement comes
\* after the append.
LEMMA DeliverPreserves ==
  ASSUME DeliveryInv, NEW r \in Relays, NEW p \in Partitions,
         Deliver(r, p) \/ DeliverUnheard(r, p)
  PROVE  DeliveryInv'
<1> DEFINE S == ToPart(batch[r], p)
<1>1. /\ topic' = Landed(p, S) /\ row' = row /\ pc' = pc /\ batch' = batch /\ late' = late
      /\ pc[r] = "publish" /\ S \in SUBSET Events
  BY DEF Deliver, DeliverUnheard, relays, ToPart, DeliveryInv, TypeOK
<1>2. acked' = acked \/ acked' = [acked EXCEPT ![r] = acked[r] \cup {p}]
  BY DEF Deliver, DeliverUnheard, relays
<1>h. overlap' = overlap
  BY DEF Deliver, DeliverUnheard, Fault, history
<1>3. \A e \in S : e \in batch[r] /\ Part(e) = p /\ row[e] = "waiting"
  BY DEF ToPart, DeliveryInv, LockedRows
<1>4. faults' \in 0..MaxFaults /\ resent' \in [Events -> 0..MaxFaults] /\ FaultsCounted'
  <2>1. CASE Deliver(r, p)
    BY <2>1 DEF Deliver, history, DeliveryInv, TypeOK, FaultsCounted
  <2>2. CASE DeliverUnheard(r, p)
    BY <2>2, FaultCounts DEF DeliverUnheard, DeliveryInv
  <2> QED BY <2>1, <2>2
<1>s. \A e \in Events : (Sent(e) \/ e \in S) => Sent(e)'
  BY <1>1, <1>3, LandedSent DEF DeliveryInv
<1>o. \A q \in Partitions : \A i \in DOMAIN topic'[q] :
         topic'[q][i] = S \/ (i \in DOMAIN topic[q] /\ topic'[q][i] = topic[q][i])
  BY <1>1, LandedOrigin DEF DeliveryInv
<1>m. S = {e \in batch[r] : Part(e) = p}
  BY DEF ToPart
<1>l. topic' \in [Partitions -> Seq(SUBSET Events)]
  BY <1>1, LandedType DEF DeliveryInv
<1> HIDE DEF S
<1>a. acked' \in [Relays -> SUBSET Partitions]
  BY <1>2 DEF DeliveryInv, TypeOK
<1>u. row' = row /\ pc' = pc /\ batch' = batch /\ late' = late
  BY <1>1
<1>5. TypeOK'
  BY <1>u, <1>a, <1>h, <1>4, <1>l DEF DeliveryInv, TypeOK
<1>6. LockedRows'
  BY <1>1 DEF DeliveryInv, LockedRows
<1>7. Acknowledged'
  <2>1. ASSUME NEW q \in Relays, NEW e \in batch'[q], Part(e) \in acked'[q]
        PROVE  Sent(e)'
    <3>1. e \in Events
      BY <1>1, <2>1 DEF DeliveryInv, TypeOK
    <3>2. Part(e) \in acked[q] \/ (q = r /\ Part(e) = p)
      BY <1>2, <2>1 DEF DeliveryInv, TypeOK
    <3>3. Sent(e) \/ e \in S
      BY <1>1, <1>m, <2>1, <3>2 DEF DeliveryInv, Acknowledged
    <3> QED BY <1>s, <3>1, <3>3
  <2>2. \A q \in Relays : pc'[q] = "mark" => \A e \in batch'[q] : Part(e) \in acked'[q]
    BY <1>1, <1>2 DEF DeliveryInv, TypeOK, Acknowledged
  <2> QED BY <2>1, <2>2 DEF Acknowledged, Part
<1>8. OnlyCommitted'
  BY <1>1, <1>3, <1>o DEF DeliveryInv, OnlyCommitted, Committed
<1>9. MarkedIsSent'
  BY <1>1, <1>s DEF DeliveryInv, MarkedIsSent
<1> QED BY <1>4, <1>5, <1>6, <1>7, <1>8, <1>9 DEF DeliveryInv

\* WriteMessages returns when every partition has the batch, so each event of it
\* is on its partition.
LEMMA ReturnPreserves ==
  ASSUME DeliveryInv, NEW r \in Relays, PublishReturns(r)
  PROVE  DeliveryInv'
<1>1. /\ pc' = [pc EXCEPT ![r] = "mark"] /\ batch' = batch /\ acked' = acked
      /\ row' = row /\ topic' = topic /\ late' = late /\ faults' = faults /\ resent' = resent
      /\ overlap' = overlap
  BY DEF PublishReturns, broker, history
<1>2. \A e \in batch[r] : Part(e) \in acked[r]
  BY DEF PublishReturns, Targets
<1>3. TypeOK' /\ FaultsCounted' /\ LockedRows'
  BY <1>1 DEF DeliveryInv, TypeOK, FaultsCounted, LockedRows
<1>4. \A f \in Events : Sent(f)' <=> Sent(f)
  BY <1>1 DEF Sent, Part
<1>5. Acknowledged'
  BY <1>1, <1>2, <1>4 DEF DeliveryInv, TypeOK, Acknowledged, Part
<1>6. OnlyCommitted' /\ MarkedIsSent'
  BY <1>1, <1>4 DEF DeliveryInv, OnlyCommitted, Committed, MarkedIsSent
<1> QED BY <1>3, <1>5, <1>6 DEF DeliveryInv

\* Only a batch every partition acknowledged is marked, and no other relay has
\* one of its rows.
LEMMA MarkPreserves ==
  ASSUME DeliveryInv, NEW r \in Relays, markPublished(r)
  PROVE  DeliveryInv'
<1>1. /\ pc[r] = "mark" /\ pc' = [pc EXCEPT ![r] = "idle"]
      /\ batch' = [batch EXCEPT ![r] = {}] /\ acked' = [acked EXCEPT ![r] = {}]
      /\ row' = [e \in Events |-> IF e \in batch[r] THEN "published" ELSE row[e]]
      /\ topic' = topic /\ late' = late /\ faults' = faults /\ resent' = resent
      /\ overlap' = overlap
  BY DEF markPublished, EndCycle, broker, history
<1>2. \A e \in batch[r] : e \in Events /\ Sent(e)
  BY <1>1 DEF DeliveryInv, TypeOK, Acknowledged
<1>3. \A f \in Events : Sent(f)' <=> Sent(f)
  BY <1>1 DEF Sent, Part
<1>4. TypeOK' /\ FaultsCounted'
  BY <1>1 DEF DeliveryInv, TypeOK, FaultsCounted, RowStates
<1>5. LockedRows'
  BY <1>1 DEF DeliveryInv, TypeOK, LockedRows
<1>6. Acknowledged'
  BY <1>1, <1>3 DEF DeliveryInv, TypeOK, Acknowledged, Part
<1>7. \A f \in Events : Committed(f) => row'[f] \in {"waiting", "published"}
  BY <1>1 DEF Committed
<1>8. \A p \in Partitions : \A i \in DOMAIN topic[p] : topic[p][i] \subseteq Events
  BY DEF DeliveryInv, TypeOK
<1>9. \A w \in late : w[2] \subseteq Events
  BY DEF DeliveryInv, TypeOK
<1>10. OnlyCommitted'
  BY <1>1, <1>7, <1>8, <1>9 DEF DeliveryInv, OnlyCommitted, Committed
<1>11. MarkedIsSent'
  BY <1>1, <1>2, <1>3 DEF DeliveryInv, MarkedIsSent
<1> QED BY <1>4, <1>5, <1>6, <1>10, <1>11 DEF DeliveryInv

\* What a failed cycle leaves in flight was locked, hence committed.
LEMMA FailPreserves ==
  ASSUME DeliveryInv, NEW r \in Relays, CycleFails(r)
  PROVE  DeliveryInv'
<1>1. /\ pc' = [pc EXCEPT ![r] = "idle"]
      /\ batch' = [batch EXCEPT ![r] = {}] /\ acked' = [acked EXCEPT ![r] = {}]
      /\ row' = row /\ topic' = topic /\ Fault(batch[r]) /\ overlap' = overlap
      /\ late' = late \cup {<<p, ToPart(batch[r], p), faults>> : p \in Targets(batch[r]) \ acked[r]}
  BY DEF CycleFails, EndCycle, Fault
<1>2. faults' \in 0..MaxFaults /\ resent' \in [Events -> 0..MaxFaults] /\ FaultsCounted'
  BY <1>1, FaultCounts DEF DeliveryInv
<1>3. batch[r] \subseteq Events /\ faults \in Nat /\ Targets(batch[r]) \subseteq Partitions
  BY PartType, OutboxAssumption DEF DeliveryInv, TypeOK, Targets, OutboxAssumption
<1>4. \A w \in late' : w \in late \/ \E p \in Partitions : w = <<p, ToPart(batch[r], p), faults>>
  BY <1>1, <1>3
<1>5. late' \subseteq Partitions \X (SUBSET Events) \X Nat
  BY <1>3, <1>4 DEF DeliveryInv, TypeOK, ToPart
<1>6. TypeOK'
  BY <1>1, <1>2, <1>5 DEF DeliveryInv, TypeOK
<1>7. LockedRows'
  BY <1>1 DEF DeliveryInv, TypeOK, LockedRows
<1>8. \A f \in Events : Sent(f)' <=> Sent(f)
  BY <1>1 DEF Sent, Part
<1>9. Acknowledged'
  BY <1>1, <1>8 DEF DeliveryInv, TypeOK, Acknowledged, Part
<1>10. \A w \in late' : \A e \in w[2] : Committed(e)'
  BY <1>1, <1>4 DEF DeliveryInv, OnlyCommitted, LockedRows, Committed, ToPart
<1>11. OnlyCommitted' /\ MarkedIsSent'
  BY <1>1, <1>8, <1>10 DEF DeliveryInv, OnlyCommitted, Committed, MarkedIsSent
<1> QED BY <1>2, <1>6, <1>7, <1>9, <1>11 DEF DeliveryInv

\* A write the relay gave up on reaches the broker, or never does.
LEMMA LatePreserves ==
  ASSUME DeliveryInv, LateDelivery \/ LateDrop
  PROVE  DeliveryInv'
<1>1. PICK w \in late : /\ late' = late \ {w}
                        /\ topic' = topic \/ topic' = Landed(w[1], w[2])
                        /\ UNCHANGED <<row, relays, history>>
  BY DEF LateDelivery, LateDrop
<1>2. /\ row' = row /\ pc' = pc /\ batch' = batch /\ acked' = acked
      /\ faults' = faults /\ resent' = resent /\ overlap' = overlap
  BY <1>1 DEF relays, history
<1>3. w[1] \in Partitions /\ w[2] \in SUBSET Events /\ \A e \in w[2] : Committed(e)
  BY <1>1 DEF DeliveryInv, TypeOK, OnlyCommitted
<1>4. topic' \in [Partitions -> Seq(SUBSET Events)]
  BY <1>1, <1>3, LandedType DEF DeliveryInv, TypeOK
<1>5. \A e \in Events : Sent(e) => Sent(e)'
  <2>1. CASE topic' = topic
    BY <2>1 DEF Sent, Part
  <2>2. CASE topic' = Landed(w[1], w[2])
    BY <2>2, <1>3, LandedSent DEF DeliveryInv
  <2> QED BY <1>1, <2>1, <2>2
<1>6. \A q \in Partitions : \A i \in DOMAIN topic'[q] : \A e \in topic'[q][i] : Committed(e)
  <2>1. CASE topic' = topic
    BY <2>1 DEF DeliveryInv, OnlyCommitted
  <2>2. CASE topic' = Landed(w[1], w[2])
    <3>1. \A q \in Partitions : \A i \in DOMAIN topic'[q] :
            topic'[q][i] = w[2] \/ (i \in DOMAIN topic[q] /\ topic'[q][i] = topic[q][i])
      BY <2>2, <1>3, LandedOrigin DEF DeliveryInv
    <3> QED BY <3>1, <1>3 DEF DeliveryInv, OnlyCommitted
  <2> QED BY <1>1, <2>1, <2>2
<1>7. TypeOK'
  BY <1>1, <1>2, <1>4 DEF DeliveryInv, TypeOK
<1>8. FaultsCounted' /\ LockedRows'
  BY <1>2 DEF DeliveryInv, FaultsCounted, LockedRows
<1>9. Acknowledged'
  BY <1>2, <1>5 DEF DeliveryInv, TypeOK, Acknowledged, Part
<1>10. OnlyCommitted'
  BY <1>1, <1>2, <1>6 DEF DeliveryInv, OnlyCommitted, Committed
<1>11. MarkedIsSent'
  BY <1>2, <1>5 DEF DeliveryInv, MarkedIsSent
<1> QED BY <1>7, <1>8, <1>9, <1>10, <1>11 DEF DeliveryInv

\* Nothing happens.
LEMMA StutterPreserves == DeliveryInv /\ UNCHANGED vars => DeliveryInv'
  BY DEF vars, DeliveryInv, TypeOK, FaultsCounted, LockedRows, Acknowledged, OnlyCommitted,
         Committed, MarkedIsSent, Sent, Part

-----------------------------------------------------------------------------

\* The relay's bookkeeping is right in every reachable state.
THEOREM DeliveryInvariant == Spec => []DeliveryInv
<1>1. Init => DeliveryInv
  BY InitDelivery
<1>2. DeliveryInv /\ [Next]_vars => DeliveryInv'
  <2> SUFFICES ASSUME DeliveryInv, [Next]_vars PROVE DeliveryInv'
    OBVIOUS
  <2>1. CASE \E e \in Events : Write(e) \/ EndWrite(e, "waiting") \/ EndWrite(e, "aborted")
    BY <2>1, WritesPreserve
  <2>2. CASE \E r \in Relays : Cycle(r) \/ CycleFails(r) \/ \E p \in Partitions : DeliverUnheard(r, p)
    BY <2>2, ClaimPreserves, DeliverPreserves, ReturnPreserves, MarkPreserves, FailPreserves DEF Cycle
  <2>3. CASE LateDelivery \/ LateDrop
    BY <2>3, LatePreserves
  <2>4. CASE UNCHANGED vars
    BY <2>4, StutterPreserves
  <2> QED BY <2>1, <2>2, <2>3, <2>4 DEF Next
<1> QED BY <1>1, <1>2, PTL DEF Spec

\* No event is lost: a row is marked published only when its event is on the
\* topic, whatever fails in Relay.publishBatch and however many relays overlap.
THEOREM NoEventLost == Spec => []MarkedIsSent
<1>1. DeliveryInv => MarkedIsSent
  BY DEF DeliveryInv
<1> QED BY <1>1, DeliveryInvariant, PTL

\* Nothing is announced that was rolled back with its aggregate.
THEOREM NoEventInvented == Spec => []SentIsCommitted
<1>1. DeliveryInv => SentIsCommitted
  BY PartType DEF DeliveryInv, OnlyCommitted, Committed, SentIsCommitted, Sent
<1> QED BY <1>1, DeliveryInvariant, PTL

\* Every variable keeps its type.
THEOREM OutboxTypes == Spec => []TypeOK
<1>1. DeliveryInv => TypeOK
  BY DEF DeliveryInv
<1> QED BY <1>1, DeliveryInvariant, PTL
-----------------------------------------------------------------------------
(* Order: events of one aggregate first reach the topic in the order of    *)
(* their ids while relays run one at a time.                               *)

\* An earlier event of the same aggregate that was not rolled back.
Before(e, f) == KeyOf[e] = KeyOf[f] /\ e < f /\ row[e] # "aborted"

\* Whatever has an event has the earlier ones, or they are on the topic.
ReachesBack(S) == \A f \in S : \A e \in Events : Before(e, f) => e \in S \/ Sent(e)

\* The aggregate's row lock: an event is written when its predecessors' fate is
\* known, though other aggregates' earlier ids may still be open.
WrittenInOrder ==
  \A e, f \in Events :
    KeyOf[e] = KeyOf[f] /\ e < f /\ row[f] # "none" => row[e] \notin {"none", "open"}

\* A cycle that has ended holds no locks; without overlap at most one is running.
OneRelay ==
  /\ \A r \in Relays : pc[r] = "idle" => batch[r] = {}
  /\ overlap = "never" => \A r, q \in Relays : r # q => pc[r] = "idle" \/ pc[q] = "idle"

InOrder(S) == overlap = "never" => ReachesBack(S)

OrderInv ==
  /\ DeliveryInv
  /\ WrittenInOrder
  /\ OneRelay
  /\ \A r \in Relays : InOrder(batch[r])
  /\ \A w \in late : InOrder(w[2])
  /\ FirstCopiesInOrder

\* Before anything is written everything is in order.
LEMMA InitOrder == Init => OrderInv
<1> SUFFICES ASSUME Init PROVE OrderInv
  OBVIOUS
<1>1. DeliveryInv
  BY InitDelivery
<1>2. WrittenInOrder
  BY DEF Init, WrittenInOrder
<1>3. OneRelay
  BY DEF Init, OneRelay
<1>4. (\A r \in Relays : InOrder(batch[r])) /\ (\A w \in late : InOrder(w[2]))
  BY DEF Init, InOrder, ReachesBack
<1>5. FirstCopiesInOrder
  BY PartType DEF Init, FirstCopiesInOrder
<1> QED BY <1>1, <1>2, <1>3, <1>4, <1>5 DEF OrderInv

\* The events of one aggregate go to one partition.
LEMMA SameKeySamePart == \A e, f \in Events : KeyOf[e] = KeyOf[f] => Part(e) = Part(f)
  BY DEF Part

\* A batch that reaches back lands in order.
LEMMA LandInOrder ==
  ASSUME TypeOK, NEW p \in Partitions, NEW S \in SUBSET Events, topic' = Landed(p, S),
         row' = row, overlap' = overlap, FirstCopiesInOrder, InOrder(ToPart(S, p))
  PROVE  FirstCopiesInOrder'
<1> SUFFICES ASSUME overlap = "never", NEW e \in Events, NEW f \in Events,
                    KeyOf[e] = KeyOf[f], e < f, row[e] # "aborted",
                    NEW i \in DOMAIN topic'[Part(f)], f \in topic'[Part(f)][i]
             PROVE  \E j \in 1..i : e \in topic'[Part(f)][j]
  BY DEF FirstCopiesInOrder, Part
<1>q. Part(f) \in Partitions /\ Part(e) = Part(f)
  BY PartType, SameKeySamePart
<1>t. topic[p] \in Seq(SUBSET Events) /\ topic[Part(f)] \in Seq(SUBSET Events)
  BY <1>q DEF TypeOK
<1>k. ASSUME NEW j \in DOMAIN topic[Part(f)]
      PROVE  j \in DOMAIN topic'[Part(f)] /\ topic'[Part(f)][j] = topic[Part(f)][j]
  <2>1. CASE Part(f) # p
    BY <2>1, <1>q DEF TypeOK, Landed
  <2>2. CASE Part(f) = p
    <3>1. topic'[Part(f)] = Append(topic[p], S)
      BY <2>2, <1>q DEF TypeOK, Landed
    <3> QED BY ONLY <1>k, <2>2, <3>1, <1>t
  <2> QED BY <2>1, <2>2
<1>i. i \in Nat \ {0} /\ DOMAIN topic[Part(f)] = 1..Len(topic[Part(f)]) /\ Len(topic[Part(f)]) \in Nat
  <2>1. topic'[Part(f)] \in Seq(SUBSET Events)
    BY LandedType, <1>q
  <2> QED BY <2>1, <1>t
<1>1. CASE i \in DOMAIN topic[Part(f)] /\ topic'[Part(f)][i] = topic[Part(f)][i]
  <2>1. PICK j \in 1..i : e \in topic[Part(f)][j]
    BY <1>1 DEF FirstCopiesInOrder
  <2>2. j \in DOMAIN topic[Part(f)]
    BY <1>1, <1>i, <2>1
  <2> QED BY <2>1, <2>2, <1>k
<1>2. CASE i \notin DOMAIN topic[Part(f)] \/ topic'[Part(f)][i] # topic[Part(f)][i]
  <2>1. topic'[Part(f)][i] = S /\ i \notin DOMAIN topic[Part(f)]
    BY <1>2, <1>q, <1>k, LandedOrigin
  <2>2. Part(f) = p
    BY <2>1, <1>q DEF TypeOK, Landed
  <2>3. e \in S \/ Sent(e)
    BY <2>1, <2>2, <1>q DEF InOrder, ReachesBack, Before, ToPart
  <2>4. CASE e \in S
    BY <2>1, <2>4, <1>i
  <2>5. CASE Sent(e)
    <3>1. PICK j \in DOMAIN topic[Part(f)] : e \in topic[Part(f)][j]
      BY <2>5, <1>q DEF Sent
    <3>2. j \in 1..i
      BY <3>1, <2>1, <1>i
    <3> QED BY <3>1, <3>2, <1>k
  <2> QED BY <2>3, <2>4, <2>5
<1> QED BY <1>1, <1>2

\* Order is kept by a step that adds to the topic and rolls nothing forward.
LEMMA ReachKept ==
  ASSUME NEW S \in SUBSET Events, InOrder(S), overlap' = overlap,
         \A e \in Events : Sent(e) => Sent(e)',
         \A f \in S : \A e \in Events : KeyOf[e] = KeyOf[f] /\ e < f => (row'[e] = "aborted" <=> row[e] = "aborted")
  PROVE  InOrder(S)'
<1> SUFFICES ASSUME overlap = "never", NEW f \in S, NEW e \in Events, Before(e, f)', e \notin S
             PROVE  Sent(e)'
  BY DEF InOrder, ReachesBack
<1>1. Before(e, f)
  BY DEF Before
<1> QED BY <1>1 DEF InOrder, ReachesBack

\* The part of a batch that goes to one partition reaches back if the batch does.
LEMMA ReachPart ==
  ASSUME NEW S \in SUBSET Events, NEW p, InOrder(S)
  PROVE  InOrder(ToPart(S, p))
  BY SameKeySamePart DEF InOrder, ReachesBack, ToPart, Before

\* Nothing reaches the topic and no relay moves: a transaction of the service.
LEMMA WritesOrder ==
  ASSUME OrderInv, DeliveryInv', NEW g \in Events,
         Write(g) \/ EndWrite(g, "waiting") \/ EndWrite(g, "aborted")
  PROVE  OrderInv'
<1>1. PICK to \in {"open", "waiting", "aborted"} :
         /\ row' = [row EXCEPT ![g] = to]
         /\ row[g] \in {"none", "open"}
         /\ \/ to # "open" /\ row[g] = "open"
            \/ /\ to = "open"
               /\ \A f \in Events : f < g => row[f] # "none"
               /\ \A f \in Events : KeyOf[f] = KeyOf[g] => row[f] # "open"
  BY DEF Write, EndWrite
<1>2. /\ pc' = pc /\ batch' = batch /\ topic' = topic /\ late' = late /\ overlap' = overlap
  BY DEF Write, EndWrite, relays, broker, history
<1>3. WrittenInOrder'
  <2> SUFFICES ASSUME NEW e \in Events, NEW f \in Events, KeyOf[e] = KeyOf[f], e < f, row'[f] # "none"
               PROVE  row'[e] \notin {"none", "open"}
    BY DEF WrittenInOrder
  <2>t. row \in [Events -> RowStates] /\ e \in Nat /\ f \in Nat
    BY OutboxAssumption DEF OrderInv, DeliveryInv, TypeOK, OutboxAssumption
  <2>w. row[f] # "none" => row[e] \notin {"none", "open"}
    BY DEF OrderInv, WrittenInOrder
  <2>1. CASE f = g /\ to = "open"
    BY <2>1, <2>t, <1>1
  <2>2. CASE f = g /\ to # "open"
    BY <2>2, <2>t, <2>w, <1>1
  <2>3. CASE f # g
    BY <2>3, <2>t, <2>w, <1>1
  <2> QED BY <2>1, <2>2, <2>3
<1>4. OneRelay'
  BY <1>2 DEF OrderInv, OneRelay
<1>5. \A f \in Events : Sent(f)' <=> Sent(f)
  BY <1>2 DEF Sent, Part
<1>6. ASSUME NEW e \in Events, NEW f \in Events, KeyOf[e] = KeyOf[f], e < f, Committed(f)
      PROVE  row'[e] = row[e]
  BY <1>1, <1>6 DEF OrderInv, DeliveryInv, TypeOK, WrittenInOrder, Committed
<1>7. ASSUME NEW S \in SUBSET Events, \A f \in S : Committed(f), InOrder(S)
      PROVE  InOrder(S)'
  <2>1. \A f \in S : \A e \in Events : KeyOf[e] = KeyOf[f] /\ e < f => (row'[e] = "aborted" <=> row[e] = "aborted")
    BY <1>6, <1>7
  <2> QED BY <2>1, <1>2, <1>5, <1>7, ReachKept
<1>8. ASSUME NEW r \in Relays PROVE InOrder(batch[r])'
  <2>1. batch[r] \in SUBSET Events /\ (\A f \in batch[r] : Committed(f)) /\ InOrder(batch[r])
    BY DEF OrderInv, DeliveryInv, TypeOK, LockedRows, Committed
  <2>2. \A S \in SUBSET Events : S = batch'[r] => InOrder(S)'
    BY <2>1, <1>2, <1>7
  <2> QED BY <2>1, <2>2, <1>2 DEF InOrder, ReachesBack
<1>9. ASSUME NEW w \in late PROVE InOrder(w[2])'
  <2>1. w[2] \in SUBSET Events /\ (\A f \in w[2] : Committed(f)) /\ InOrder(w[2])
    BY DEF OrderInv, DeliveryInv, TypeOK, OnlyCommitted
  <2> QED BY <2>1, <1>7
<1>10. FirstCopiesInOrder'
  <2> SUFFICES ASSUME overlap = "never", NEW e \in Events, NEW f \in Events,
                      KeyOf[e] = KeyOf[f], e < f, row'[e] # "aborted",
                      NEW i \in DOMAIN topic[Part(f)], f \in topic[Part(f)][i]
               PROVE  \E j \in 1..i : e \in topic[Part(f)][j]
    BY <1>2 DEF FirstCopiesInOrder, Part
  <2>1. Committed(f)
    BY PartType DEF OrderInv, DeliveryInv, OnlyCommitted
  <2>2. row[e] # "aborted"
    BY <2>1, <1>6
  <2> QED BY <2>2 DEF OrderInv, FirstCopiesInOrder
<1>11. (\A r \in Relays : InOrder(batch[r]))' /\ (\A w \in late : InOrder(w[2]))'
  BY <1>2, <1>8, <1>9 DEF InOrder, ReachesBack, Sent, Before, Part
<1> QED BY <1>3, <1>4, <1>10, <1>11 DEF OrderInv

\* ORDER BY id: what the only relay leaves behind is younger than what it takes.
LEMMA ClaimOrder ==
  ASSUME OrderInv, DeliveryInv', NEW r \in Relays, claim(r)
  PROVE  OrderInv'
<1>1. PICK S \in SUBSET Events : IsBatch(S) /\ batch' = [batch EXCEPT ![r] = S]
  BY DEF claim
<1>2. /\ pc[r] = "idle" /\ pc' = [pc EXCEPT ![r] = "publish"]
      /\ row' = row /\ topic' = topic /\ late' = late
      /\ overlap' = IF \A q \in Relays : pc[q] = "idle" THEN overlap ELSE "once"
  BY DEF claim, broker
<1>3. \A f \in Events : Sent(f)' <=> Sent(f)
  BY <1>2 DEF Sent, Part
<1>4. WrittenInOrder'
  BY <1>2 DEF OrderInv, WrittenInOrder
<1>t. pc \in [Relays -> {"idle", "publish", "mark"}] /\ batch \in [Relays -> SUBSET Events]
      /\ row \in [Events -> RowStates] /\ Events \subseteq Nat
  BY OutboxAssumption DEF OrderInv, DeliveryInv, TypeOK, OutboxAssumption
<1>5. OneRelay'
  BY <1>1, <1>2, <1>t DEF OrderInv, OneRelay
<1>6. CASE overlap' # "never"
  BY <1>6, <1>4, <1>5 DEF OrderInv, InOrder, FirstCopiesInOrder
<1>7. CASE overlap' = "never"
  <2>1. overlap = "never" /\ \A q \in Relays : pc[q] = "idle" /\ batch[q] = {}
    BY <1>2, <1>7 DEF OrderInv, OneRelay
  <2>2. ReachesBack(S)'
    <3> SUFFICES ASSUME NEW f \in S, NEW e \in Events, KeyOf[e] = KeyOf[f], e < f, row[e] # "aborted",
                        e \notin S
                 PROVE  Sent(e)
      BY <1>2, <1>3 DEF ReachesBack, Before
    <3>1. row[f] = "waiting"
      BY <1>1 DEF IsBatch, Claimable
    <3>2. row[e] \in {"waiting", "published"}
      BY <3>1, <1>t DEF OrderInv, WrittenInOrder, RowStates
    <3>3. CASE row[e] = "published"
      BY <3>3 DEF OrderInv, DeliveryInv, MarkedIsSent
    <3>4. CASE row[e] = "waiting"
      <4>1. e \in Claimable \ S
        BY <3>4, <2>1 DEF Claimable
      <4>2. f < e
        BY <4>1, <1>1 DEF IsBatch
      <4> QED BY <4>2, <1>t
    <3> QED BY <3>2, <3>3, <3>4
  <2>3. \A q \in Relays : q # r => batch'[q] = {}
    BY <1>1, <2>1, <1>t
  <2>4. \A q \in Relays : InOrder(batch[q])'
    <3>1. batch'[r] = S
      BY <1>1, <1>t
    <3>2. ASSUME NEW q \in Relays PROVE InOrder(batch[q])'
      BY <2>2, <2>3, <3>1 DEF InOrder, ReachesBack
    <3> QED BY <3>2
  <2>5. \A w \in late' : InOrder(w[2])'
    BY <1>2, <1>3, <2>1 DEF OrderInv, InOrder, ReachesBack, Before
  <2>6. FirstCopiesInOrder'
    BY <1>2, <2>1 DEF OrderInv, FirstCopiesInOrder, Part
  <2> QED BY <1>4, <1>5, <2>4, <2>5, <2>6 DEF OrderInv
<1> QED BY <1>6, <1>7

\* A relay's batch lands partition by partition.
LEMMA DeliverOrder ==
  ASSUME OrderInv, DeliveryInv', NEW r \in Relays, NEW p \in Partitions,
         Deliver(r, p) \/ DeliverUnheard(r, p)
  PROVE  OrderInv'
<1>1. /\ topic' = Landed(p, ToPart(batch[r], p)) /\ row' = row /\ pc' = pc /\ batch' = batch
      /\ late' = late /\ overlap' = overlap
  BY DEF Deliver, DeliverUnheard, relays, Fault, history
<1>2. batch[r] \in SUBSET Events /\ InOrder(batch[r]) /\ TypeOK
  BY DEF OrderInv, DeliveryInv, TypeOK
<1>3. ToPart(batch[r], p) \in SUBSET Events /\ ToPart(ToPart(batch[r], p), p) = ToPart(batch[r], p)
  BY <1>2 DEF ToPart
<1>4. InOrder(ToPart(batch[r], p))
  BY <1>2, ReachPart
<1>5. FirstCopiesInOrder'
  BY <1>1, <1>2, <1>3, <1>4, LandInOrder DEF OrderInv
<1>6. \A e \in Events : Sent(e) => Sent(e)'
  BY <1>1, <1>2, <1>3, LandedSent
<1>7. WrittenInOrder' /\ OneRelay'
  BY <1>1 DEF OrderInv, WrittenInOrder, OneRelay
<1>8. ASSUME NEW S \in SUBSET Events, InOrder(S) PROVE InOrder(S)'
  BY <1>1, <1>6, <1>8, ReachKept
<1>9. (\A q \in Relays : InOrder(batch[q])) /\ (\A w \in late : InOrder(w[2]) /\ w[2] \in SUBSET Events)
      /\ \A q \in Relays : batch[q] \in SUBSET Events
  BY DEF OrderInv, DeliveryInv, TypeOK
<1>10. (\A q \in Relays : InOrder(batch[q]))' /\ (\A w \in late : InOrder(w[2]))'
  BY <1>1, <1>8, <1>9 DEF InOrder, ReachesBack, Sent, Before, Part
<1> QED BY <1>5, <1>7, <1>10 DEF OrderInv

\* The answer to Publish, and steps that change nothing.
LEMMA QuietOrder ==
  ASSUME OrderInv, DeliveryInv', (\E r \in Relays : PublishReturns(r)) \/ UNCHANGED vars
  PROVE  OrderInv'
<1>1. /\ \A r \in Relays : pc'[r] = "idle" => pc[r] = "idle"
      /\ \A r \in Relays : pc[r] = "idle" => pc'[r] = "idle"
      /\ batch' = batch /\ row' = row /\ topic' = topic /\ late' = late /\ overlap' = overlap
  BY DEF PublishReturns, broker, history, vars, OrderInv, DeliveryInv, TypeOK
<1>2. WrittenInOrder' /\ OneRelay'
  BY <1>1 DEF OrderInv, WrittenInOrder, OneRelay
<1>3. (\A q \in Relays : InOrder(batch[q]))' /\ (\A w \in late : InOrder(w[2]))'
  BY <1>1 DEF OrderInv, InOrder, ReachesBack, Sent, Before, Part
<1>4. FirstCopiesInOrder'
  BY <1>1 DEF OrderInv, FirstCopiesInOrder, Part
<1> QED BY <1>2, <1>3, <1>4 DEF OrderInv

\* The end of a cycle, with the batch marked or with its rest still in flight.
LEMMA EndOrder ==
  ASSUME OrderInv, DeliveryInv', NEW r \in Relays, markPublished(r) \/ CycleFails(r)
  PROVE  OrderInv'
<1>1. /\ pc' = [pc EXCEPT ![r] = "idle"] /\ batch' = [batch EXCEPT ![r] = {}]
      /\ topic' = topic /\ overlap' = overlap
      /\ \/ row' = row
         \/ row' = [e \in Events |-> IF e \in batch[r] THEN "published" ELSE row[e]]
      /\ \A w \in late' : w \in late \/ \E p \in Partitions : w[2] = ToPart(batch[r], p)
  <2>1. CASE markPublished(r)
    BY <2>1 DEF markPublished, EndCycle, broker, history
  <2>2. CASE CycleFails(r)
    <3>1. Targets(batch[r]) \subseteq Partitions
      BY PartType DEF Targets, OrderInv, DeliveryInv, TypeOK
    <3>2. late' = late \cup {<<p, ToPart(batch[r], p), faults>> : p \in Targets(batch[r]) \ acked[r]}
      BY <2>2 DEF CycleFails
    <3>3. \A w \in late' : w \in late \/ \E p \in Partitions : w[2] = ToPart(batch[r], p)
      BY <3>1, <3>2
    <3> QED BY <2>2, <3>3 DEF CycleFails, EndCycle, Fault
  <2> QED BY <2>1, <2>2
<1>t. /\ pc \in [Relays -> {"idle", "publish", "mark"}] /\ batch \in [Relays -> SUBSET Events]
      /\ row \in [Events -> RowStates] /\ \A w \in late : w[2] \in SUBSET Events
      /\ \A e \in batch[r] : row[e] = "waiting"
  BY DEF OrderInv, DeliveryInv, TypeOK, LockedRows
<1>2. \A e \in Events : (row'[e] = row[e]) \/ (row[e] = "waiting" /\ row'[e] = "published")
  BY <1>1, <1>t
<1>3. WrittenInOrder'
  BY <1>2 DEF OrderInv, WrittenInOrder
<1>4. OneRelay'
  BY <1>1, <1>t DEF OrderInv, OneRelay
<1>5. \A e \in Events : Sent(e) => Sent(e)'
  BY <1>1 DEF Sent, Part
<1>6. \A e \in Events : row'[e] = "aborted" <=> row[e] = "aborted"
  BY <1>2
<1>7. ASSUME NEW S \in SUBSET Events, InOrder(S) PROVE InOrder(S)'
  BY <1>1, <1>5, <1>6, <1>7, ReachKept
<1>8. ASSUME NEW q \in Relays PROVE InOrder(batch[q])'
  <2>1. CASE q = r
    BY <2>1, <1>1, <1>t DEF InOrder, ReachesBack
  <2>2. CASE q # r
    <3>1. batch'[q] = batch[q] /\ batch[q] \in SUBSET Events /\ InOrder(batch[q])
      BY <2>2, <1>1, <1>t DEF OrderInv
    <3>2. \A S \in SUBSET Events : S = batch'[q] => InOrder(S)'
      BY <3>1, <1>7
    <3> QED BY <3>1, <3>2 DEF InOrder, ReachesBack
  <2> QED BY <2>1, <2>2
<1>9. ASSUME NEW w \in late' PROVE InOrder(w[2])'
  <2>1. CASE w \in late
    BY <2>1, <1>t, <1>7 DEF OrderInv
  <2>2. CASE \E p \in Partitions : w[2] = ToPart(batch[r], p)
    <3>1. PICK p \in Partitions : w[2] = ToPart(batch[r], p)
      BY <2>2
    <3>2. ToPart(batch[r], p) \in SUBSET Events
      BY <1>t DEF ToPart
    <3>3. InOrder(ToPart(batch[r], p))
      BY <1>t, ReachPart DEF OrderInv
    <3>4. w[2] \in SUBSET Events /\ InOrder(w[2])
      BY ONLY <3>1, <3>2, <3>3
    <3> QED BY <3>4, <1>7
  <2> QED BY <1>1, <2>1, <2>2
<1>10. FirstCopiesInOrder'
  BY <1>1, <1>6 DEF OrderInv, FirstCopiesInOrder, Part
<1>11. (\A q \in Relays : InOrder(batch[q]))'
  BY <1>8 DEF InOrder, ReachesBack
<1>12. (\A w \in late : InOrder(w[2]))'
  BY <1>9 DEF InOrder, ReachesBack
<1> QED BY <1>3, <1>4, <1>10, <1>11, <1>12 DEF OrderInv

\* What a failed cycle left behind arrives, or never does.
LEMMA LateOrder ==
  ASSUME OrderInv, DeliveryInv', LateDelivery \/ LateDrop
  PROVE  OrderInv'
<1>1. PICK w \in late : /\ late' = late \ {w}
                        /\ topic' = topic \/ topic' = Landed(w[1], w[2])
                        /\ UNCHANGED <<row, relays, history>>
  BY DEF LateDelivery, LateDrop
<1>2. row' = row /\ pc' = pc /\ batch' = batch /\ overlap' = overlap
  BY <1>1 DEF relays, history
<1>3. w[1] \in Partitions /\ w[2] \in SUBSET Events /\ InOrder(w[2]) /\ TypeOK
      /\ InOrder(ToPart(w[2], w[1]))
  <2>1. w[1] \in Partitions /\ w[2] \in SUBSET Events /\ InOrder(w[2]) /\ TypeOK
    BY <1>1 DEF OrderInv, DeliveryInv, TypeOK
  <2> QED BY <2>1, ReachPart
<1>4. FirstCopiesInOrder'
  <2>1. CASE topic' = topic
    BY <2>1, <1>2 DEF OrderInv, FirstCopiesInOrder, Part
  <2>2. CASE topic' = Landed(w[1], w[2])
    BY <2>2, <1>2, <1>3, LandInOrder DEF OrderInv
  <2> QED BY <1>1, <2>1, <2>2
<1>5. \A e \in Events : Sent(e) => Sent(e)'
  <2>1. CASE topic' = topic
    BY <2>1 DEF Sent, Part
  <2>2. CASE topic' = Landed(w[1], w[2])
    BY <2>2, <1>3, LandedSent
  <2> QED BY <1>1, <2>1, <2>2
<1>6. WrittenInOrder' /\ OneRelay'
  BY <1>2 DEF OrderInv, WrittenInOrder, OneRelay
<1>7. ASSUME NEW S \in SUBSET Events, InOrder(S) PROVE InOrder(S)'
  BY <1>2, <1>5, <1>7, ReachKept
<1>8. (\A q \in Relays : InOrder(batch[q])) /\ (\A v \in late : InOrder(v[2]) /\ v[2] \in SUBSET Events)
      /\ \A q \in Relays : batch[q] \in SUBSET Events
  BY DEF OrderInv, DeliveryInv, TypeOK
<1>9. (\A q \in Relays : InOrder(batch[q]))' /\ (\A v \in late : InOrder(v[2]))'
  BY <1>1, <1>2, <1>7, <1>8 DEF InOrder, ReachesBack, Sent, Before, Part
<1> QED BY <1>4, <1>6, <1>9 DEF OrderInv

\* Events are in order in every reachable state.
THEOREM OrderInvariant == Spec => []OrderInv
<1>1. Init => OrderInv
  BY InitOrder
<1>2. OrderInv /\ DeliveryInv' /\ [Next]_vars => OrderInv'
  <2> SUFFICES ASSUME OrderInv, DeliveryInv', [Next]_vars PROVE OrderInv'
    OBVIOUS
  <2>1. CASE \E e \in Events : Write(e) \/ EndWrite(e, "waiting") \/ EndWrite(e, "aborted")
    BY <2>1, WritesOrder
  <2>2. CASE \E r \in Relays : Cycle(r) \/ CycleFails(r) \/ \E p \in Partitions : DeliverUnheard(r, p)
    BY <2>2, ClaimOrder, DeliverOrder, QuietOrder, EndOrder DEF Cycle
  <2>3. CASE LateDelivery \/ LateDrop
    BY <2>3, LateOrder
  <2>4. CASE UNCHANGED vars
    BY <2>4, QuietOrder
  <2> QED BY <2>1, <2>2, <2>3, <2>4 DEF Next
<1> QED BY <1>1, <1>2, DeliveryInvariant, PTL DEF Spec

\* While relays run one at a time an event first arrives after every earlier event
\* of its aggregate, whatever is resent or arrives late.
THEOREM EventsInOrder == Spec => []FirstCopiesInOrder
<1>1. OrderInv => FirstCopiesInOrder
  BY DEF OrderInv
<1> QED BY <1>1, OrderInvariant, PTL
-----------------------------------------------------------------------------
(* Copies: what is on the topic, what may still arrive and the send that    *)
(* is still to come are never more than one and the faults.                *)

LateOf(e) == {w \in late : e \in w[2]}

\* An event that no partition has acknowledged to the relay that holds it.
Unheard(e) == row[e] # "published" /\ \A r \in Relays : e \in batch[r] => Part(e) \notin acked[r]
ToCome(e) == IF Unheard(e) THEN 1 ELSE 0

Counted(e) ==
  /\ IsFiniteSet(LateOf(e))
  /\ Copies(e) + Cardinality(LateOf(e)) + ToCome(e) <= 1 + resent[e]

CopyInv == OrderInv /\ \A e \in Events : Counted(e)

\* The counts are numbers.
LEMMA CountTypes ==
  ASSUME TypeOK, NEW e \in Events
  PROVE  /\ IsFiniteSet({i \in DOMAIN topic[Part(e)] : e \in topic[Part(e)][i]})
         /\ Copies(e) \in Nat
         /\ IsFiniteSet(LateOf(e)) => Cardinality(LateOf(e)) \in Nat
         /\ resent[e] \in Nat
         /\ ToCome(e) \in {0, 1}
<1>1. topic[Part(e)] \in Seq(SUBSET Events)
  BY PartType DEF TypeOK
<1>2. DOMAIN topic[Part(e)] = 1..Len(topic[Part(e)]) /\ Len(topic[Part(e)]) \in Int
  BY <1>1
<1>3. IsFiniteSet(DOMAIN topic[Part(e)])
  BY <1>2, FS_Interval
<1>4. IsFiniteSet({i \in DOMAIN topic[Part(e)] : e \in topic[Part(e)][i]})
  BY <1>3, FS_Subset
<1>5. Copies(e) \in Nat
  BY <1>4, FS_CardinalityType DEF Copies
<1>6. IsFiniteSet(LateOf(e)) => Cardinality(LateOf(e)) \in Nat
  BY FS_CardinalityType
<1>7. resent[e] \in Nat
  BY OutboxAssumption DEF TypeOK, OutboxAssumption
<1> QED BY <1>4, <1>5, <1>6, <1>7 DEF ToCome

\* A batch that lands is one more copy of each of its events.
LEMMA LandedCopies ==
  ASSUME TypeOK, NEW p \in Partitions, NEW S \in SUBSET Events, topic' = Landed(p, S),
         NEW e \in Events
  PROVE  Copies(e)' = Copies(e) + IF Part(e) = p /\ e \in S THEN 1 ELSE 0
<1> DEFINE At == {i \in DOMAIN topic[Part(e)] : e \in topic[Part(e)][i]}
           Now == {i \in DOMAIN topic'[Part(e)] : e \in topic'[Part(e)][i]}
<1>q. Part(e) \in Partitions
  BY PartType
<1>c. Copies(e) = Cardinality(At) /\ Copies(e)' = Cardinality(Now)
  BY DEF Copies, Part
<1>f. IsFiniteSet(At) /\ Cardinality(At) \in Nat
  BY CountTypes, FS_CardinalityType
<1>1. CASE Part(e) # p
  <2>1. topic'[Part(e)] = topic[Part(e)]
    BY <1>1, <1>q DEF TypeOK, Landed
  <2>2. Now = At
    BY <2>1
  <2>3. Copies(e)' = Copies(e) /\ Copies(e) \in Nat
    BY <2>2, <1>c, <1>f
  <2> QED BY <2>3, <1>1
<1>2. CASE Part(e) = p
  <2>t. topic[p] \in Seq(SUBSET Events)
    BY DEF TypeOK
  <2>1. topic'[Part(e)] = Append(topic[Part(e)], S)
    BY <1>2, <1>q DEF TypeOK, Landed
  <2> DEFINE n == Len(topic[Part(e)])
  <2>2. /\ n \in Nat /\ DOMAIN topic[Part(e)] = 1..n /\ DOMAIN topic'[Part(e)] = 1..(n + 1)
        /\ topic'[Part(e)][n + 1] = S
        /\ \A i \in 1..n : topic'[Part(e)][i] = topic[Part(e)][i]
    BY <1>2, <2>1, <2>t
  <2>3. n + 1 \notin At
    BY <2>2
  <2>4. CASE e \in S
    <3>1. Now = At \cup {n + 1}
      BY <2>2, <2>4
    <3>2. Cardinality(At \cup {n + 1}) = Cardinality(At) + 1
      BY <1>f, <2>3, FS_AddElement
    <3>3. Copies(e)' = Copies(e) + 1
      BY <3>1, <3>2, <1>c
    <3> QED BY <3>3, <1>2, <2>4
  <2>5. CASE e \notin S
    <3>1. Now = At
      BY <2>2, <2>5
    <3>2. Copies(e)' = Copies(e) /\ Copies(e) \in Nat
      BY <3>1, <1>c, <1>f
    <3> QED BY <3>2, <1>2, <2>5
  <2> QED BY <2>4, <2>5
<1> QED BY <1>1, <1>2

\* Before anything is written every event has one send to come.
LEMMA InitCopies == Init => CopyInv
<1> SUFFICES ASSUME Init PROVE CopyInv
  OBVIOUS
<1>1. OrderInv /\ TypeOK
  BY InitOrder DEF OrderInv, DeliveryInv
<1>2. ASSUME NEW e \in Events PROVE Counted(e)
  <2>1. LateOf(e) = {}
    BY DEF Init, LateOf
  <2>2. {i \in DOMAIN topic[Part(e)] : e \in topic[Part(e)][i]} = {}
    BY PartType DEF Init
  <2>3. Copies(e) = 0 /\ Cardinality(LateOf(e)) = 0 /\ IsFiniteSet(LateOf(e))
    BY <2>1, <2>2, FS_EmptySet DEF Copies
  <2>4. resent[e] = 0
    BY DEF Init
  <2> QED BY <2>3, <2>4 DEF Counted, ToCome
<1> QED BY <1>1, <1>2 DEF CopyInv

\* A step that neither lands nor leaves anything behind, and after which no more
\* sends are to come.
LEMMA QuietCopies ==
  ASSUME TypeOK, TypeOK', NEW e \in Events, Counted(e),
         topic' = topic, late' = late, resent' = resent, Unheard(e)' => Unheard(e)
  PROVE  Counted(e)'
<1>1. Copies(e)' = Copies(e) /\ LateOf(e)' = LateOf(e) /\ resent'[e] = resent[e]
  BY DEF Copies, LateOf, Part
<1>2. ToCome(e)' <= ToCome(e) /\ ToCome(e) \in {0, 1} /\ ToCome(e)' \in {0, 1}
  BY DEF ToCome
<1>3. Copies(e) \in Nat /\ Cardinality(LateOf(e)) \in Nat /\ resent[e] \in Nat
  BY CountTypes DEF Counted
<1>4. IsFiniteSet(LateOf(e)') /\ Copies(e)' + Cardinality(LateOf(e)') + ToCome(e)' <= 1 + resent'[e]
  BY <1>1, <1>2, <1>3 DEF Counted
<1> QED BY <1>4 DEF Counted

\* A cycle that fails leaves at most one write of each of its events behind.
LEMMA FailCopies ==
  ASSUME OrderInv, TypeOK', NEW r \in Relays, CycleFails(r), NEW e \in Events, Counted(e)
  PROVE  Counted(e)'
<1> DEFINE x == <<Part(e), ToPart(batch[r], Part(e)), faults>>
<1>1. /\ batch' = [batch EXCEPT ![r] = {}] /\ acked' = [acked EXCEPT ![r] = {}]
      /\ row' = row /\ topic' = topic
      /\ late' = late \cup {<<p, ToPart(batch[r], p), faults>> : p \in Targets(batch[r]) \ acked[r]}
      /\ resent'[e] = resent[e] + IF e \in batch[r] THEN 1 ELSE 0
  BY DEF CycleFails, EndCycle, Fault
<1>t. /\ batch \in [Relays -> SUBSET Events] /\ acked \in [Relays -> SUBSET Partitions] /\ TypeOK
      /\ \A f \in batch[r] : row[f] = "waiting"
      /\ \A q \in Relays : q # r => batch[q] \cap batch[r] = {}
  BY DEF OrderInv, DeliveryInv, TypeOK, LockedRows
<1>2. Copies(e)' = Copies(e)
  BY <1>1 DEF Copies, Part
<1>3. /\ Copies(e) \in Nat /\ Cardinality(LateOf(e)) \in Nat /\ resent[e] \in Nat
      /\ ToCome(e) \in {0, 1} /\ ToCome(e)' \in {0, 1} /\ IsFiniteSet(LateOf(e))
      /\ Copies(e) + Cardinality(LateOf(e)) + ToCome(e) <= 1 + resent[e]
  BY <1>t, CountTypes DEF Counted, ToCome
<1>4. CASE e \notin batch[r]
  <2>1. LateOf(e)' = LateOf(e)
    BY <1>1, <1>4 DEF LateOf, ToPart
  <2>2. Unheard(e)' => Unheard(e)
    BY <1>1, <1>4, <1>t DEF Unheard, Part
  <2>3. ToCome(e)' <= ToCome(e)
    BY <2>2 DEF ToCome
  <2> QED BY <1>1, <1>2, <1>3, <1>4, <2>1, <2>3 DEF Counted
<1>5. CASE e \in batch[r] /\ Part(e) \in acked[r]
  <2>1. LateOf(e)' = LateOf(e)
    BY <1>1, <1>5 DEF LateOf, ToPart
  <2>2. ~Unheard(e)
    BY <1>5 DEF Unheard
  <2>3. ToCome(e) = 0
    BY <2>2 DEF ToCome
  <2> QED BY <1>1, <1>2, <1>3, <1>5, <2>1, <2>3 DEF Counted
<1>6. CASE e \in batch[r] /\ Part(e) \notin acked[r]
  <2>1. LateOf(e)' = LateOf(e) \cup {x}
    <3>1. Part(e) \in Targets(batch[r]) \ acked[r] /\ e \in ToPart(batch[r], Part(e))
      BY <1>6 DEF Targets, ToPart
    <3>2. \A p : e \in ToPart(batch[r], p) => p = Part(e)
      BY DEF ToPart
    <3> QED BY <1>1, <3>1, <3>2 DEF LateOf
  <2>2. IsFiniteSet(LateOf(e)') /\ Cardinality(LateOf(e)') \in Nat
        /\ Cardinality(LateOf(e)') <= Cardinality(LateOf(e)) + 1
    <3> HIDE DEF x
    <3>1. IsFiniteSet(LateOf(e) \cup {x})
          /\ Cardinality(LateOf(e) \cup {x}) =
               IF x \in LateOf(e) THEN Cardinality(LateOf(e)) ELSE Cardinality(LateOf(e)) + 1
      BY <1>3, FS_AddElement
    <3> QED BY <1>3, <2>1, <3>1
  <2>3. Unheard(e)
    BY <1>6, <1>t DEF Unheard
  <2>4. ToCome(e) = 1
    BY <2>3 DEF ToCome
  <2> QED BY <1>1, <1>2, <1>3, <1>6, <2>2, <2>4 DEF Counted
<1> QED BY <1>4, <1>5, <1>6

\* A batch that lands was to come; unheard of, it comes again.
LEMMA DeliverCopies ==
  ASSUME OrderInv, TypeOK', NEW r \in Relays, NEW p \in Partitions,
         Deliver(r, p) \/ DeliverUnheard(r, p), NEW e \in Events, Counted(e)
  PROVE  Counted(e)'
<1> DEFINE S == ToPart(batch[r], p)
           new == IF Part(e) = p /\ e \in S THEN 1 ELSE 0
<1>1. /\ topic' = Landed(p, S) /\ row' = row /\ batch' = batch /\ late' = late
      /\ \/ /\ acked' = [acked EXCEPT ![r] = acked[r] \cup {p}] /\ resent' = resent
         \/ /\ acked' = acked
            /\ resent'[e] = resent[e] + IF e \in S THEN 1 ELSE 0
      /\ p \notin acked[r]
  BY DEF Deliver, DeliverUnheard, relays, Fault, history
<1>t. /\ batch \in [Relays -> SUBSET Events] /\ acked \in [Relays -> SUBSET Partitions] /\ TypeOK
      /\ \A f \in batch[r] : row[f] = "waiting"
      /\ \A q \in Relays : q # r => batch[q] \cap batch[r] = {}
  BY DEF OrderInv, DeliveryInv, TypeOK, LockedRows
<1>s. S \in SUBSET Events /\ (e \in S => e \in batch[r] /\ Part(e) = p)
  BY <1>t DEF ToPart
<1>2. Copies(e)' = Copies(e) + new
  BY <1>1, <1>s, <1>t, LandedCopies
<1>n. new = IF e \in S THEN 1 ELSE 0
  BY <1>s
<1>3. /\ Copies(e) \in Nat /\ Cardinality(LateOf(e)) \in Nat /\ resent[e] \in Nat
      /\ ToCome(e) \in {0, 1} /\ ToCome(e)' \in {0, 1} /\ IsFiniteSet(LateOf(e))
      /\ Copies(e) + Cardinality(LateOf(e)) + ToCome(e) <= 1 + resent[e]
  BY <1>t, CountTypes DEF Counted, ToCome
<1>4. LateOf(e)' = LateOf(e)
  BY <1>1 DEF LateOf
<1>5. Unheard(e)' => Unheard(e)
  BY <1>1, <1>t DEF Unheard, Part
<1>6. ToCome(e)' <= ToCome(e)
  BY <1>5 DEF ToCome
<1> HIDE DEF S, new
<1>7. CASE acked' = [acked EXCEPT ![r] = acked[r] \cup {p}] /\ resent' = resent
  <2>1. CASE e \in S
    <3>1. Unheard(e)
      BY <2>1, <1>1, <1>s, <1>t DEF Unheard
    <3>2. ~Unheard(e)'
      BY <2>1, <1>1, <1>7, <1>s, <1>t DEF Unheard, Part
    <3>3. ToCome(e) = 1 /\ ToCome(e)' = 0
      BY <3>1, <3>2 DEF ToCome
    <3> QED BY <1>2, <1>n, <1>3, <1>4, <1>7, <2>1, <3>3 DEF Counted
  <2>2. CASE e \notin S
    BY <1>2, <1>n, <1>3, <1>4, <1>6, <1>7, <2>2 DEF Counted
  <2> QED BY <2>1, <2>2
<1>8. CASE resent'[e] = resent[e] + IF e \in S THEN 1 ELSE 0
  BY <1>2, <1>n, <1>3, <1>4, <1>6, <1>8 DEF Counted
<1> QED BY <1>1, <1>7, <1>8

\* A write that arrives late is no longer to arrive.
LEMMA LateCopies ==
  ASSUME OrderInv, TypeOK', LateDelivery \/ LateDrop, NEW e \in Events, Counted(e)
  PROVE  Counted(e)'
<1>1. PICK w \in late : /\ late' = late \ {w}
                        /\ topic' = topic \/ topic' = Landed(w[1], w[2])
                        /\ UNCHANGED <<row, relays, history>>
  BY DEF LateDelivery, LateDrop
<1>t. TypeOK /\ w[1] \in Partitions /\ w[2] \in SUBSET Events
  BY <1>1 DEF OrderInv, DeliveryInv, TypeOK
<1>2. Copies(e)' = Copies(e) \/ (e \in w[2] /\ Copies(e)' = Copies(e) + 1)
  <2>1. CASE topic' = topic
    BY <2>1 DEF Copies, Part
  <2>2. CASE topic' = Landed(w[1], w[2])
    <3>1. Copies(e)' = Copies(e) + IF Part(e) = w[1] /\ e \in w[2] THEN 1 ELSE 0
      BY <2>2, <1>t, LandedCopies
    <3>2. Copies(e) \in Nat
      BY <1>t, CountTypes
    <3> QED BY <3>1, <3>2
  <2> QED BY <1>1, <2>1, <2>2
<1>3. /\ Copies(e) \in Nat /\ Cardinality(LateOf(e)) \in Nat /\ resent[e] \in Nat
      /\ ToCome(e) \in {0, 1} /\ IsFiniteSet(LateOf(e))
      /\ Copies(e) + Cardinality(LateOf(e)) + ToCome(e) <= 1 + resent[e]
  BY <1>t, CountTypes DEF Counted
<1>4. ToCome(e)' = ToCome(e) /\ resent' = resent
  BY <1>1 DEF ToCome, Unheard, relays, history, Part
<1>5. CASE e \in w[2]
  <2>1. LateOf(e)' = LateOf(e) \ {w} /\ w \in LateOf(e)
    BY <1>1, <1>5 DEF LateOf
  <2>2. IsFiniteSet(LateOf(e)') /\ Cardinality(LateOf(e)') = Cardinality(LateOf(e)) - 1
    BY <1>3, <2>1, FS_RemoveElement
  <2> QED BY <1>2, <1>3, <1>4, <2>2 DEF Counted
<1>6. CASE e \notin w[2]
  <2>1. LateOf(e)' = LateOf(e)
    BY <1>1, <1>6 DEF LateOf
  <2> QED BY <1>2, <1>3, <1>4, <1>6, <2>1 DEF Counted
<1> QED BY <1>5, <1>6

\* The copies of an event are accounted for in every reachable state.
THEOREM CopyInvariant == Spec => []CopyInv
<1>1. CopyInv /\ OrderInv' /\ [Next]_vars => CopyInv'
  <2> SUFFICES ASSUME CopyInv, OrderInv', [Next]_vars, NEW e \in Events PROVE Counted(e)'
    BY DEF CopyInv
  <2>t. OrderInv /\ TypeOK /\ TypeOK' /\ Counted(e)
    BY DEF CopyInv, OrderInv, DeliveryInv
  <2>1. CASE \E g \in Events : Write(g) \/ EndWrite(g, "waiting") \/ EndWrite(g, "aborted")
    <3>1. topic' = topic /\ late' = late /\ resent' = resent /\ batch' = batch /\ acked' = acked
          /\ (row'[e] # "published" => row[e] # "published")
      BY <2>1, <2>t DEF Write, EndWrite, broker, relays, history, TypeOK
    <3>2. Unheard(e)' => Unheard(e)
      BY <3>1 DEF Unheard, Part
    <3> QED BY <2>t, <3>1, <3>2, QuietCopies
  <2>2. ASSUME NEW r \in Relays, claim(r) \/ PublishReturns(r) \/ markPublished(r)
        PROVE  Counted(e)'
    <3>1. topic' = topic /\ late' = late /\ resent' = resent
      BY <2>2 DEF claim, PublishReturns, markPublished, broker, history
    <3>2. Unheard(e)' => Unheard(e)
      <4>1. CASE claim(r)
        <5>1. batch[r] = {}
          BY <4>1, <2>t DEF claim, OrderInv, OneRelay
        <5> QED BY <4>1, <5>1, <2>t DEF claim, Unheard, Part, TypeOK
      <4>2. CASE PublishReturns(r)
        BY <4>2 DEF PublishReturns, Unheard, Part
      <4>3. CASE markPublished(r)
        BY <4>3, <2>t DEF markPublished, EndCycle, Unheard, Part, TypeOK
      <4> QED BY <2>2, <4>1, <4>2, <4>3
    <3> QED BY <2>t, <3>1, <3>2, QuietCopies
  <2>3. CASE \E r \in Relays : Cycle(r) \/ CycleFails(r) \/ \E p \in Partitions : DeliverUnheard(r, p)
    BY <2>3, <2>2, <2>t, FailCopies, DeliverCopies DEF Cycle
  <2>4. CASE LateDelivery \/ LateDrop
    BY <2>4, <2>t, LateCopies
  <2>5. CASE UNCHANGED vars
    <3>1. topic' = topic /\ late' = late /\ resent' = resent /\ (Unheard(e)' => Unheard(e))
      BY <2>5 DEF vars, Unheard, Part
    <3> QED BY <2>t, <3>1, QuietCopies
  <2> QED BY <2>1, <2>3, <2>4, <2>5 DEF Next
<1> QED BY <1>1, InitCopies, OrderInvariant, PTL DEF Spec

\* How the topic looks to a consumer, for any number of relays, partitions, faults
\* and late writes: first copies in order while one relay runs at a time, and a
\* further copy of an event for each fault it was in flight for, at most.
THEOREM TopicIsSound == Spec => []DeliveredInOrder
<1>1. CopyInv => DeliveredInOrder
  <2> SUFFICES ASSUME CopyInv PROVE DeliveredInOrder
    OBVIOUS
  <2>1. TypeOK /\ FirstCopiesInOrder
    BY DEF CopyInv, OrderInv, DeliveryInv
  <2>2. ASSUME NEW e \in Events PROVE Copies(e) <= 1 + resent[e]
    <3>1. IsFiniteSet(LateOf(e)) /\ Copies(e) + Cardinality(LateOf(e)) + ToCome(e) <= 1 + resent[e]
      BY DEF CopyInv, Counted
    <3>2. /\ Copies(e) \in Nat /\ Cardinality(LateOf(e)) \in Nat /\ resent[e] \in Nat
          /\ ToCome(e) \in {0, 1}
      BY <2>1, <3>1, CountTypes
    <3> QED BY <3>1, <3>2
  <2> QED BY <2>1, <2>2 DEF DeliveredInOrder, CopiesAreFaults
<1> QED BY <1>1, CopyInvariant, PTL

-----------------------------------------------------------------------------
(* EventConsumer.                                                          *)

\* A member with a message in its hands, and one whose transaction is open.
InHand(m) == stage[m] \in {"handle", "work", "end", "dead", "commit"}
InTx(m)   == stage[m] \in {"work", "end"}

\* A message in hand is one of the partition.
MessageExists == \A m \in Members : InHand(m) => msg[m] >= 1

\* The row of a claim belongs to the open transaction of the member that is
\* working on the event, and to nobody while nobody is.
ClaimsAreHeld ==
  /\ \A m \in Members : InTx(m) => claiming[Event(m)] = m /\ Event(m) \notin claimed
  /\ \A e \in EventIds, m \in Members : claiming[e] = m => InTx(m) /\ Event(m) = e

\* A local effect and its claim are committed together.
EffectsAreClaimed ==
  \A e \in EventIds : done[e] = IF e \in claimed /\ e \notin Remote THEN 1 ELSE 0

\* A remote effect comes before the claim that covers it.
CallsComeFirst ==
  /\ \A m \in Members : stage[m] = "end" /\ Event(m) \in Remote => Event(m) \in called
  /\ \A e \in claimed : e \in Remote => e \in called

\* A member has settled what it is about to commit, everything before the
\* message in its hands and, while it owns the partition, all it has read.
SettledBehind ==
  /\ \A m \in Members : stage[m] = "commit" => Settled(msg[m])
  /\ \A m \in Members : InHand(m) => \A i \in 1..msg[m] : i < msg[m] => Settled(i)
  /\ \A m \in Members : owner = m =>
       \A i \in 1..cursor[m] : Settled(i) \/ (InHand(m) /\ i = msg[m]) \/ stage[m] = "returned"

ConsumerInv ==
  /\ ConsumerTypeOK
  /\ MessageExists
  /\ ClaimsAreHeld
  /\ EffectsAreClaimed
  /\ CallsComeFirst
  /\ SettledBehind
  /\ NothingPassedOver
-----------------------------------------------------------------------------
(* Operators.                                                              *)

\* The event in a member's hands is one of the events.
LEMMA EventType ==
  ASSUME ConsumerInv, NEW m \in Members, InHand(m)
  PROVE  msg[m] \in 1..Len(log) /\ Event(m) \in EventIds
<1>1. msg[m] \in 1..Len(log) /\ log \in Seq(EventIds)
  BY DEF ConsumerInv, ConsumerTypeOK, MessageExists
<1> QED BY <1>1 DEF Event

\* Once settled, a message stays settled: rows of the inbox and dead letters are
\* never taken back, and the partition only grows.
LEMMA SettledStays ==
  ASSUME log \in Seq(EventIds), log' = log \/ \E e \in EventIds : log' = Append(log, e),
         claimed \subseteq claimed', dlq \subseteq dlq',
         NEW i \in 1..Len(log), Settled(i)
  PROVE  Settled(i)'
<1>1. log'[i] = log[i]
  OBVIOUS
<1> QED BY <1>1 DEF Settled

\* The end of a transaction takes the claims of its member and no other.
LEMMA RollbackFrees ==
  ASSUME ConsumerInv, NEW m \in Members, claiming' = RolledBack(m)
  PROVE  /\ claiming' \in [EventIds -> Members \cup {None}]
         /\ \A e \in EventIds : claiming'[e] # m
         /\ \A e \in EventIds, q \in Members \ {m} : claiming'[e] = q <=> claiming[e] = q
  BY ConsumerAssumption DEF ConsumerAssumption, ConsumerInv, ConsumerTypeOK, RolledBack
-----------------------------------------------------------------------------

\* The partition is empty and nobody is in a transaction.
LEMMA InitConsumer == ConsumerInit => ConsumerInv
<1> SUFFICES ASSUME ConsumerInit PROVE ConsumerInv
  OBVIOUS
<1>1. ConsumerTypeOK
  <2>1. Len(log) = 0 /\ log \in Seq(EventIds)
    BY DEF ConsumerInit
  <2> QED BY <2>1, ConsumerAssumption DEF ConsumerInit, ConsumerTypeOK, ConsumerAssumption, PCs
<1>2. MessageExists /\ CallsComeFirst /\ NothingPassedOver
  BY DEF ConsumerInit, MessageExists, InHand, CallsComeFirst, NothingPassedOver
<1>3. ClaimsAreHeld /\ EffectsAreClaimed
  BY ConsumerAssumption DEF ConsumerAssumption, ConsumerInit, ClaimsAreHeld, InTx, EffectsAreClaimed
<1>4. SettledBehind
  BY ConsumerAssumption DEF ConsumerAssumption, ConsumerInit, SettledBehind, InHand
<1> QED BY <1>1, <1>2, <1>3, <1>4 DEF ConsumerInv

\* The partition grows behind everybody's back.
LEMMA ProducePreserves ==
  ASSUME ConsumerInv, NEW e \in EventIds, Produce(e)
  PROVE  ConsumerInv'
<1>1. /\ log' = Append(log, e) /\ Len(log) < MaxLog
      /\ committed' = committed /\ owner' = owner /\ stage' = stage /\ cursor' = cursor
      /\ msg' = msg /\ attempt' = attempt /\ claimed' = claimed /\ claiming' = claiming
      /\ done' = done /\ called' = called /\ dlq' = dlq /\ failures' = failures
  BY DEF Produce, group, reader, inbox, effects
<1>2. log \in Seq(EventIds) /\ log' \in Seq(EventIds) /\ Len(log') = Len(log) + 1
  BY <1>1 DEF ConsumerInv, ConsumerTypeOK
<1>3. \A i \in 1..Len(log) : Settled(i) => Settled(i)'
  BY <1>1, <1>2, SettledStays
<1>4. \A m \in Members : InHand(m) => Event(m)' = Event(m)
  BY <1>1, <1>2, EventType DEF Event
<1>5. ConsumerTypeOK'
  <2>1. Len(log) \in Nat /\ MaxLog \in Nat /\ Len(log') <= MaxLog
    BY <1>1, <1>2, ConsumerAssumption DEF ConsumerAssumption
  <2>2. 0..Len(log) \subseteq 0..Len(log')
    BY <1>2, <2>1
  <2>3. /\ committed' \in 0..Len(log')
        /\ cursor' \in [Members -> 0..Len(log')] /\ msg' \in [Members -> 0..Len(log')]
    <3>1. /\ committed \in 0..Len(log)
          /\ cursor \in [Members -> 0..Len(log)] /\ msg \in [Members -> 0..Len(log)]
      BY DEF ConsumerInv, ConsumerTypeOK
    <3> QED BY <1>1, <2>2, <3>1
  <2> QED BY <1>1, <1>2, <2>1, <2>3 DEF ConsumerInv, ConsumerTypeOK
<1>6. MessageExists' /\ EffectsAreClaimed'
  BY <1>1 DEF ConsumerInv, MessageExists, InHand, EffectsAreClaimed
<1>7. \A m \in Members : InTx(m) => InHand(m)
  BY DEF InTx, InHand
<1>8. ClaimsAreHeld' /\ CallsComeFirst'
  BY <1>1, <1>4, <1>7 DEF ConsumerInv, ClaimsAreHeld, CallsComeFirst, InTx, InHand
<1>9. SettledBehind'
  <2>1. \A n \in Members : stage[n] = "commit" => Settled(msg[n])'
    BY <1>1, <1>3, EventType DEF ConsumerInv, SettledBehind, InHand
  <2>2. \A n \in Members : InHand(n) => \A i \in 1..msg[n] : i < msg[n] => Settled(i)'
    <3>1. \A n \in Members : \A i \in 1..msg[n] : i \in 1..Len(log)
      BY <1>2 DEF ConsumerInv, ConsumerTypeOK
    <3> QED BY <1>3, <3>1 DEF ConsumerInv, SettledBehind
  <2>3. \A n \in Members : owner = n => \A i \in 1..cursor[n] :
          Settled(i)' \/ (InHand(n) /\ i = msg[n]) \/ stage[n] = "returned"
    <3>1. \A n \in Members : \A i \in 1..cursor[n] : i \in 1..Len(log)
      BY <1>2 DEF ConsumerInv, ConsumerTypeOK
    <3> QED BY <1>3, <3>1 DEF ConsumerInv, SettledBehind
  <2> QED BY <1>1, <2>1, <2>2, <2>3 DEF SettledBehind, InHand
<1>10. NothingPassedOver'
  BY <1>1, <1>2, <1>3 DEF ConsumerInv, ConsumerTypeOK, NothingPassedOver
<1> QED BY <1>5, <1>6, <1>8, <1>9, <1>10 DEF ConsumerInv

\* A member that is given the partition reads on from the committed offset, and
\* everything before it is settled; what it has in its hands stays there.
LEMMA AssignPreserves ==
  ASSUME ConsumerInv, NEW m \in Members, Assign(m), failures' \in 0..MaxFailures
  PROVE  ConsumerInv'
<1>1. /\ owner' = m /\ cursor' = [cursor EXCEPT ![m] = committed]
      /\ log' = log /\ committed' = committed /\ stage' = stage
      /\ msg' = msg /\ attempt' = attempt /\ claimed' = claimed /\ claiming' = claiming
      /\ done' = done /\ called' = called /\ dlq' = dlq
  BY DEF Assign, inbox, effects
<1>2. ConsumerTypeOK'
  BY <1>1 DEF ConsumerInv, ConsumerTypeOK
<1>3. /\ MessageExists' /\ ClaimsAreHeld' /\ EffectsAreClaimed' /\ CallsComeFirst'
      /\ NothingPassedOver'
  BY <1>1 DEF ConsumerInv, MessageExists, ClaimsAreHeld, EffectsAreClaimed, CallsComeFirst,
              NothingPassedOver, InHand, InTx, Event, Settled
<1>4. \A i : Settled(i)' <=> Settled(i)
  BY <1>1 DEF Settled
<1>5. \A q \in Members : owner' = q => cursor'[q] = committed
  BY <1>1 DEF ConsumerInv, ConsumerTypeOK
<1>6. SettledBehind'
  BY <1>1, <1>4, <1>5 DEF ConsumerInv, SettledBehind, InHand, NothingPassedOver
<1> QED BY <1>2, <1>3, <1>6 DEF ConsumerInv

\* The reader hands over the next message, and all before it is settled.
LEMMA FetchPreserves ==
  ASSUME ConsumerInv, NEW m \in Members, FetchMessage(m)
  PROVE  ConsumerInv'
<1>1. /\ stage[m] = "fetch" /\ stage' = [stage EXCEPT ![m] = "handle"]
      /\ owner = m /\ cursor[m] < Len(log)
      /\ cursor' = [cursor EXCEPT ![m] = cursor[m] + 1]
      /\ msg' = [msg EXCEPT ![m] = cursor'[m]]
      /\ attempt' = [attempt EXCEPT ![m] = 1]
      /\ log' = log /\ committed' = committed /\ owner' = owner
      /\ claimed' = claimed /\ claiming' = claiming
      /\ done' = done /\ called' = called /\ dlq' = dlq /\ failures' = failures
  BY DEF FetchMessage, Goto, group, inbox, effects
<1>2. cursor[m] \in Nat /\ cursor'[m] = cursor[m] + 1 /\ msg'[m] = cursor[m] + 1
  BY <1>1 DEF ConsumerInv, ConsumerTypeOK
<1>3. ConsumerTypeOK'
  <2>1. cursor[m] + 1 \in 0..Len(log)
    BY <1>1, <1>2 DEF ConsumerInv, ConsumerTypeOK
  <2>2. cursor' \in [Members -> 0..Len(log)] /\ msg' \in [Members -> 0..Len(log)]
    BY <1>1, <1>2, <2>1 DEF ConsumerInv, ConsumerTypeOK
  <2>3. stage' \in [Members -> PCs] /\ attempt' \in [Members -> 1..MaxAttempts]
    BY <1>1, ConsumerAssumption DEF ConsumerInv, ConsumerTypeOK, PCs, ConsumerAssumption
  <2> QED BY <1>1, <2>2, <2>3 DEF ConsumerInv, ConsumerTypeOK
<1>4. \A q \in Members : /\ q # m => stage'[q] = stage[q] /\ msg'[q] = msg[q] /\ cursor'[q] = cursor[q]
                         /\ q = m => stage'[q] = "handle"
  BY <1>1 DEF ConsumerInv, ConsumerTypeOK
<1>5. \A i : Settled(i)' <=> Settled(i)
  BY <1>1 DEF Settled
<1>6. MessageExists'
  BY <1>2, <1>4 DEF ConsumerInv, MessageExists, InHand
<1>7. ~InTx(m) /\ ~InTx(m)' /\ \A q \in Members \ {m} : (InTx(q)' <=> InTx(q)) /\ Event(q)' = Event(q)
  BY <1>1, <1>4 DEF InTx, Event
<1>8. ClaimsAreHeld'
  <2>1. \A q \in Members : InTx(q)' => claiming'[Event(q)'] = q /\ Event(q)' \notin claimed'
    BY <1>1, <1>7 DEF ConsumerInv, ClaimsAreHeld
  <2>2. \A e \in EventIds, q \in Members : claiming'[e] = q => InTx(q)' /\ Event(q)' = e
    BY <1>1, <1>7 DEF ConsumerInv, ClaimsAreHeld
  <2> QED BY <2>1, <2>2 DEF ClaimsAreHeld
<1>9. EffectsAreClaimed' /\ NothingPassedOver'
  BY <1>1, <1>5 DEF ConsumerInv, EffectsAreClaimed, NothingPassedOver
<1>10. CallsComeFirst'
  BY <1>1, <1>4 DEF Event, ConsumerInv, CallsComeFirst
<1>11. \A i \in 1..cursor[m] : Settled(i)
  BY <1>1 DEF ConsumerInv, SettledBehind, InHand
<1>12. SettledBehind'
  <2>1. \A q \in Members : stage'[q] = "commit" => Settled(msg[q])'
    BY <1>4, <1>5 DEF ConsumerInv, SettledBehind
  <2>2. \A q \in Members : InHand(q)' => \A i \in 1..msg'[q] : i < msg'[q] => Settled(i)'
    BY <1>2, <1>4, <1>5, <1>11 DEF ConsumerInv, SettledBehind, InHand
  <2>3. \A q \in Members : owner' = q =>
          \A i \in 1..cursor'[q] : Settled(i)' \/ (InHand(q)' /\ i = msg'[q]) \/ stage'[q] = "returned"
    BY <1>1, <1>2, <1>4, <1>5, <1>11 DEF InHand
  <2> QED BY <2>1, <2>2, <2>3 DEF SettledBehind
<1> QED BY <1>3, <1>6, <1>8, <1>9, <1>10, <1>12 DEF ConsumerInv
-----------------------------------------------------------------------------
(* What the steps of Run, process and a handler have in common.            *)

\* A step of a member with what it has read: it goes to another place in the
\* code, and only messages it has not returned from are in its hands.
Moves(m, to) ==
  /\ stage' = [stage EXCEPT ![m] = to]
  /\ log' = log /\ cursor' = cursor /\ msg' = msg
  /\ to \in PCs
  /\ to \notin {"fetch", "returned"} => InHand(m)

\* What a move does to the places of the members.
LEMMA MovesOne ==
  ASSUME ConsumerInv, NEW m \in Members, NEW to, Moves(m, to)
  PROVE  /\ stage' \in [Members -> PCs] /\ stage'[m] = to
         /\ \A q \in Members : q # m => stage'[q] = stage[q]
         /\ \A q \in Members : Event(q)' = Event(q)
         /\ MessageExists'
<1>1. stage' = [stage EXCEPT ![m] = to] /\ stage \in [Members -> PCs] /\ to \in PCs /\ msg' = msg /\ log' = log
  BY DEF ConsumerInv, ConsumerTypeOK, Moves
<1>2. to \in {"fetch", "returned"} \/ InHand(m)
  BY DEF Moves
<1>3. stage'[m] = to /\ \A q \in Members : q # m => stage'[q] = stage[q]
  BY <1>1
<1>4. MessageExists'
  BY <1>1, <1>2, <1>3 DEF ConsumerInv, MessageExists, InHand
<1> QED BY <1>1, <1>3, <1>4 DEF Event

\* A move leaves everything behind a member settled, if what it commits is
\* settled and it fetches on only from a settled message or without the
\* partition.
LEMMA MoveKeepsSettled ==
  ASSUME ConsumerInv, NEW m \in Members, NEW to, Moves(m, to),
         claimed \subseteq claimed', dlq \subseteq dlq',
         owner' = owner \/ (owner = m /\ owner' = None),
         to = "commit" => Settled(msg[m])',
         to = "fetch" => owner' # m \/ stage[m] = "commit",
         committed' = committed \/ (stage[m] = "commit" /\ committed' = msg[m])
  PROVE  SettledBehind' /\ NothingPassedOver'
<1>1. /\ stage'[m] = to /\ \A q \in Members : q # m => stage'[q] = stage[q]
      /\ log' = log /\ cursor' = cursor /\ msg' = msg
      /\ to \notin {"fetch", "returned"} => InHand(m)
  BY MovesOne DEF Moves
<1>2. /\ log \in Seq(EventIds) /\ committed \in 0..Len(log)
      /\ \A q \in Members : msg[q] \in 0..Len(log) /\ cursor[q] \in 0..Len(log)
  BY DEF ConsumerInv, ConsumerTypeOK
<1>3. \A i \in 1..Len(log) : Settled(i) => Settled(i)'
  BY <1>1, <1>2, SettledStays
<1>4. \A q \in Members : stage'[q] = "commit" => Settled(msg[q])'
  <2> SUFFICES ASSUME NEW q \in Members, stage'[q] = "commit" PROVE Settled(msg[q])'
    OBVIOUS
  <2>1. CASE q = m
    BY <2>1, <1>1
  <2>2. CASE q # m
    <3>1. stage[q] = "commit" /\ Settled(msg[q])
      BY <2>2, <1>1 DEF ConsumerInv, SettledBehind
    <3>2. msg[q] \in 1..Len(log)
      BY <3>1, EventType DEF InHand
    <3> QED BY <3>1, <3>2, <1>1 DEF Settled
  <2> QED BY <2>1, <2>2
<1>5. \A q \in Members : InHand(q)' => InHand(q)
  BY <1>1 DEF InHand
<1>6. \A q \in Members : InHand(q)' => \A i \in 1..msg[q] : i < msg[q] => Settled(i)'
  BY <1>2, <1>3, <1>5 DEF ConsumerInv, SettledBehind
<1>7. \A q \in Members : owner' = q => owner = q
  BY ConsumerAssumption DEF ConsumerAssumption
<1>8. \A q \in Members : owner' = q =>
        \A i \in 1..cursor[q] : Settled(i)' \/ (InHand(q)' /\ i = msg[q]) \/ stage'[q] = "returned"
  <2> SUFFICES ASSUME NEW q \in Members, owner' = q, NEW i \in 1..cursor[q]
               PROVE  Settled(i)' \/ (InHand(q)' /\ i = msg[q]) \/ stage'[q] = "returned"
    OBVIOUS
  <2>1. Settled(i) \/ (InHand(q) /\ i = msg[q]) \/ stage[q] = "returned"
    BY <1>7 DEF ConsumerInv, SettledBehind
  <2>2. i \in 1..Len(log)
    BY <1>2
  <2>3. CASE Settled(i)
    BY <2>2, <2>3, <1>3
  <2>4. CASE InHand(q) /\ i = msg[q]
    <3>1. CASE q # m
      BY <3>1, <2>4, <1>1 DEF InHand
    <3>2. CASE q = m
      <4>1. to \in PCs
        BY DEF Moves
      <4>2. CASE to = "fetch"
        BY <4>2, <3>2, <2>2, <2>4, <1>3 DEF ConsumerInv, SettledBehind
      <4>3. CASE to # "fetch"
        BY <4>1, <4>3, <3>2, <2>4, <1>1 DEF PCs, InHand
      <4> QED BY <4>2, <4>3
    <3> QED BY <3>1, <3>2
  <2>5. CASE stage[q] = "returned"
    <3>1. CASE q # m
      BY <3>1, <2>5, <1>1
    <3>2. CASE q = m
      <4>1. to = "returned"
        BY <3>2, <2>5, <1>1 DEF InHand
      <4> QED BY <4>1, <3>2, <1>1
    <3> QED BY <3>1, <3>2
  <2> QED BY <2>1, <2>3, <2>4, <2>5
<1>9. SettledBehind'
  BY <1>1, <1>4, <1>6, <1>8 DEF SettledBehind
<1>10. NothingPassedOver'
  <2>1. CASE committed' = committed
    BY <2>1, <1>2, <1>3 DEF ConsumerInv, NothingPassedOver
  <2>2. CASE stage[m] = "commit" /\ committed' = msg[m]
    <3>1. \A i \in 1..msg[m] : Settled(i)
      BY <2>2, <1>2 DEF ConsumerInv, SettledBehind, InHand
    <3> QED BY <2>2, <3>1, <1>2, <1>3 DEF NothingPassedOver
  <2> QED BY <2>1, <2>2
<1> QED BY <1>9, <1>10

\* Claims and effects while a member moves outside of a transaction.
LEMMA MoveOutsideTx ==
  ASSUME ConsumerInv, NEW m \in Members, NEW to, Moves(m, to),
         ~InTx(m), to \notin {"work", "end"},
         UNCHANGED <<claimed, claiming, done, called>>
  PROVE  ClaimsAreHeld' /\ EffectsAreClaimed' /\ CallsComeFirst'
<1>1. /\ stage'[m] = to /\ \A q \in Members : q # m => stage'[q] = stage[q]
      /\ \A q \in Members : Event(q)' = Event(q)
  BY MovesOne
<1>2. \A q \in Members : InTx(q)' <=> InTx(q)
  BY <1>1 DEF InTx
<1>3. \A q \in Members : stage'[q] = "end" => stage[q] = "end"
  BY <1>1
<1> QED BY <1>1, <1>2, <1>3 DEF ConsumerInv, ClaimsAreHeld, EffectsAreClaimed, CallsComeFirst

\* Claims and effects when a transaction rolls back: its claim goes with it.
LEMMA MoveRollsBack ==
  ASSUME ConsumerInv, NEW m \in Members, NEW to, Moves(m, to),
         to \notin {"work", "end"}, claiming' = RolledBack(m),
         claimed' = claimed, done' = done, called \subseteq called'
  PROVE  ClaimsAreHeld' /\ EffectsAreClaimed' /\ CallsComeFirst'
<1>1. /\ stage'[m] = to /\ \A q \in Members : q # m => stage'[q] = stage[q]
      /\ \A q \in Members : Event(q)' = Event(q)
  BY MovesOne
<1>2. ~InTx(m)' /\ \A q \in Members : q # m => (InTx(q)' <=> InTx(q))
  BY <1>1 DEF InTx
<1>3. \A q \in Members : stage'[q] = "end" => stage[q] = "end" /\ q # m
  BY <1>1
<1>4. /\ \A e \in EventIds : claiming'[e] # m
      /\ \A e \in EventIds, q \in Members \ {m} : claiming'[e] = q <=> claiming[e] = q
  BY RollbackFrees
<1>5. \A q \in Members : InTx(q) => Event(q) \in EventIds
  BY EventType DEF InTx, InHand
<1>6. ClaimsAreHeld'
  BY <1>1, <1>2, <1>4, <1>5 DEF ConsumerInv, ClaimsAreHeld
<1> QED BY <1>1, <1>3, <1>6 DEF ConsumerInv, EffectsAreClaimed, CallsComeFirst

\* Claims and effects when a transaction commits: nobody else held the claim,
\* nobody had it committed, so the effect is the first of its event.
LEMMA MoveRecords ==
  ASSUME ConsumerInv, NEW m \in Members, NEW to, Moves(m, to),
         stage[m] = "end", to \notin {"work", "end"}, Recorded(m), called' = called
  PROVE  ClaimsAreHeld' /\ EffectsAreClaimed' /\ CallsComeFirst'
         /\ done' \in [EventIds -> Nat] /\ claimed' \subseteq EventIds
         /\ claiming' \in [EventIds -> Members \cup {None}]
<1>1. /\ stage'[m] = to /\ \A q \in Members : q # m => stage'[q] = stage[q]
      /\ \A q \in Members : Event(q)' = Event(q)
  BY MovesOne
<1> DEFINE ev == Event(m)
<1>2. InTx(m) /\ ev \in EventIds /\ claiming[ev] = m /\ ev \notin claimed
  BY EventType DEF InTx, InHand, ConsumerInv, ClaimsAreHeld
<1>3. /\ claimed' = claimed \cup {ev}
      /\ claiming' = [claiming EXCEPT ![ev] = None]
      /\ done' = [done EXCEPT ![ev] = IF ev \in Remote THEN done[ev] ELSE done[ev] + 1]
  BY DEF Recorded
<1>4. ev \in Remote => ev \in called
  BY DEF ConsumerInv, CallsComeFirst
<1>5. ~InTx(m)' /\ \A q \in Members : q # m => (InTx(q)' <=> InTx(q))
  BY <1>1 DEF InTx
<1>6. \A q \in Members : q # m /\ InTx(q) => Event(q) # ev
  BY <1>2 DEF ConsumerInv, ClaimsAreHeld
<1>7. \A q \in Members : InTx(q) => Event(q) \in EventIds
  BY EventType DEF InTx, InHand
<1> HIDE DEF ev
<1>8. claiming \in [EventIds -> Members \cup {None}] /\ done \in [EventIds -> Nat] /\ claimed \subseteq EventIds
  BY DEF ConsumerInv, ConsumerTypeOK
<1>9. \A e \in EventIds : claiming'[e] = IF e = ev THEN None ELSE claiming[e]
  BY <1>3, <1>8
<1>10. ClaimsAreHeld'
  <2>1. ASSUME NEW q \in Members, InTx(q)'
        PROVE  claiming'[Event(q)'] = q /\ Event(q)' \notin claimed'
    <3>1. q # m /\ InTx(q)
      BY <2>1, <1>5
    <3>2. claiming[Event(q)] = q /\ Event(q) \notin claimed
      BY <3>1 DEF ConsumerInv, ClaimsAreHeld
    <3> QED BY <3>1, <3>2, <1>1, <1>3, <1>6, <1>7, <1>9
  <2>2. ASSUME NEW e \in EventIds, NEW q \in Members, claiming'[e] = q
        PROVE  InTx(q)' /\ Event(q)' = e
    <3>1. e # ev /\ claiming[e] = q
      BY <2>2, <1>9, ConsumerAssumption DEF ConsumerAssumption
    <3>2. InTx(q) /\ Event(q) = e
      BY <3>1 DEF ConsumerInv, ClaimsAreHeld
    <3>3. q # m
      BY <3>1, <3>2 DEF ev
    <3> QED BY <3>2, <3>3, <1>1, <1>5
  <2> QED BY <2>1, <2>2 DEF ClaimsAreHeld
<1>11. \A e \in EventIds : done'[e] = IF e \in claimed' /\ e \notin Remote THEN 1 ELSE 0
  <2> SUFFICES ASSUME NEW e \in EventIds
               PROVE  done'[e] = IF e \in claimed' /\ e \notin Remote THEN 1 ELSE 0
    OBVIOUS
  <2>1. done[e] = IF e \in claimed /\ e \notin Remote THEN 1 ELSE 0
    BY DEF ConsumerInv, EffectsAreClaimed
  <2> QED BY <2>1, <1>2, <1>3, <1>8
<1>12. CallsComeFirst'
  BY <1>1, <1>3, <1>4 DEF ConsumerInv, CallsComeFirst
<1>13. claiming' \in [EventIds -> Members \cup {None}] /\ done' \in [EventIds -> Nat] /\ claimed' \subseteq EventIds
  BY <1>2, <1>3, <1>8
<1> QED BY <1>10, <1>11, <1>12, <1>13 DEF EffectsAreClaimed
-----------------------------------------------------------------------------
(* One lemma per kind of step.                                             *)

\* A message of a type nobody handles, or an event some delivery has handled, is
\* passed on to the commit.
LEMMA PassOnPreserves ==
  ASSUME ConsumerInv, NEW m \in Members, Skip(m) \/ ClaimDuplicate(m)
  PROVE  ConsumerInv'
<1>1. /\ stage[m] = "handle" /\ stage' = [stage EXCEPT ![m] = "commit"]
      /\ Event(m) \in Ignored \cup claimed
      /\ log' = log /\ committed' = committed /\ owner' = owner /\ cursor' = cursor
      /\ msg' = msg /\ attempt' = attempt /\ claimed' = claimed /\ claiming' = claiming
      /\ done' = done /\ called' = called /\ dlq' = dlq /\ failures' = failures
  BY DEF Skip, ClaimDuplicate, Goto, group, reader, inbox, effects
<1>2. Moves(m, "commit") /\ ~InTx(m)
  BY <1>1 DEF Moves, PCs, InHand, InTx
<1>3. Settled(msg[m])'
  BY <1>1 DEF Settled, Event
<1>4. SettledBehind' /\ NothingPassedOver'
  BY <1>1, <1>2, <1>3, MoveKeepsSettled
<1>5. ClaimsAreHeld' /\ EffectsAreClaimed' /\ CallsComeFirst' /\ MessageExists'
  BY <1>1, <1>2, MoveOutsideTx, MovesOne
<1>6. ConsumerTypeOK'
  BY <1>1, <1>2, MovesOne DEF ConsumerInv, ConsumerTypeOK
<1> QED BY <1>4, <1>5, <1>6 DEF ConsumerInv

\* A dead letter settles its message.
LEMMA DeadLetterPreserves ==
  ASSUME ConsumerInv, NEW m \in Members, publishDLQ(m)
  PROVE  ConsumerInv'
<1>1. /\ stage[m] = "dead" /\ stage' = [stage EXCEPT ![m] = "commit"]
      /\ dlq' = dlq \cup {Event(m)}
      /\ log' = log /\ committed' = committed /\ owner' = owner /\ cursor' = cursor
      /\ msg' = msg /\ attempt' = attempt /\ claimed' = claimed /\ claiming' = claiming
      /\ done' = done /\ called' = called /\ failures' = failures
  BY DEF publishDLQ, Goto, group, reader, inbox
<1>2. Moves(m, "commit") /\ ~InTx(m) /\ InHand(m)
  BY <1>1 DEF Moves, PCs, InHand, InTx
<1>3. Settled(msg[m])'
  BY <1>1 DEF Settled, Event
<1>4. SettledBehind' /\ NothingPassedOver'
  BY <1>1, <1>2, <1>3, MoveKeepsSettled
<1>5. ClaimsAreHeld' /\ EffectsAreClaimed' /\ CallsComeFirst' /\ MessageExists'
  BY <1>1, <1>2, MoveOutsideTx, MovesOne
<1>6. Event(m) \in EventIds
  BY <1>2, EventType
<1>7. ConsumerTypeOK'
  BY <1>1, <1>2, <1>6, MovesOne DEF ConsumerInv, ConsumerTypeOK
<1> QED BY <1>4, <1>5, <1>7 DEF ConsumerInv

\* The group's offset moves to a message that is settled like all before it,
\* even when it moves back.
LEMMA CommitPreserves ==
  ASSUME ConsumerInv, NEW m \in Members, CommitMessages(m)
  PROVE  ConsumerInv'
<1>1. /\ stage[m] = "commit" /\ stage' = [stage EXCEPT ![m] = "fetch"]
      /\ committed' = msg[m] /\ owner' = owner
      /\ log' = log /\ cursor' = cursor
      /\ msg' = msg /\ attempt' = attempt /\ claimed' = claimed /\ claiming' = claiming
      /\ done' = done /\ called' = called /\ dlq' = dlq /\ failures' = failures
  BY DEF CommitMessages, Goto, reader, inbox, effects
<1>2. Moves(m, "fetch") /\ ~InTx(m)
  BY <1>1 DEF Moves, PCs, InTx
<1>3. SettledBehind' /\ NothingPassedOver'
  BY <1>1, <1>2, MoveKeepsSettled
<1>4. ClaimsAreHeld' /\ EffectsAreClaimed' /\ CallsComeFirst' /\ MessageExists'
  BY <1>1, <1>2, MoveOutsideTx, MovesOne
<1>5. ConsumerTypeOK'
  BY <1>1, <1>2, MovesOne DEF ConsumerInv, ConsumerTypeOK
<1> QED BY <1>3, <1>4, <1>5 DEF ConsumerInv

\* Run returns with the partition, or a new process takes the member's place
\* without it.
LEMMA RunReturnPreserves ==
  ASSUME ConsumerInv, NEW m \in Members, RunReturns(m) \/ Replaced(m)
  PROVE  ConsumerInv'
<1>1. PICK to \in {"returned", "fetch"} :
        /\ stage[m] \in {"fetch", "dead", "commit", "returned"} /\ stage' = [stage EXCEPT ![m] = to]
        /\ owner' = owner \/ (owner = m /\ owner' = None)
        /\ to = "fetch" => owner' # m
        /\ dlq' = dlq \/ (stage[m] = "dead" /\ dlq' = dlq \cup {Event(m)})
        /\ log' = log /\ committed' = committed /\ cursor' = cursor
        /\ msg' = msg /\ attempt' = attempt /\ claimed' = claimed /\ claiming' = claiming
        /\ done' = done /\ called' = called /\ failures' \in 0..MaxFailures
  <2>1. CASE RunReturns(m)
    BY <2>1, ConsumerAssumption
       DEF RunReturns, Failure, group, reader, inbox, ConsumerInv, ConsumerTypeOK, ConsumerAssumption
  <2>2. CASE Replaced(m)
    BY <2>2, ConsumerAssumption
       DEF Replaced, Goto, reader, inbox, effects, ConsumerInv, ConsumerTypeOK, ConsumerAssumption
  <2> QED BY <2>1, <2>2
<1>2. Moves(m, to) /\ ~InTx(m)
  BY <1>1 DEF Moves, PCs, InTx
<1>3. SettledBehind' /\ NothingPassedOver'
  BY <1>1, <1>2, MoveKeepsSettled
<1>4. ClaimsAreHeld' /\ EffectsAreClaimed' /\ CallsComeFirst' /\ MessageExists'
  BY <1>1, <1>2, MoveOutsideTx, MovesOne
<1>5. stage[m] = "dead" => Event(m) \in EventIds
  BY EventType DEF InHand
<1>6. ConsumerTypeOK'
  BY <1>1, <1>2, <1>5, MovesOne DEF ConsumerInv, ConsumerTypeOK
<1> QED BY <1>3, <1>4, <1>6 DEF ConsumerInv

\* The handler's transaction inserts a claim nobody has made.
LEMMA InboxClaimPreserves ==
  ASSUME ConsumerInv, NEW m \in Members, ClaimTaken(m)
  PROVE  ConsumerInv'
<1> DEFINE ev == Event(m)
<1>1. /\ stage[m] = "handle" /\ stage' = [stage EXCEPT ![m] = "work"]
      /\ ev \notin claimed /\ claiming[ev] = None
      /\ claiming' = [claiming EXCEPT ![ev] = m]
      /\ log' = log /\ committed' = committed /\ owner' = owner /\ cursor' = cursor
      /\ msg' = msg /\ attempt' = attempt /\ claimed' = claimed
      /\ done' = done /\ called' = called /\ dlq' = dlq /\ failures' = failures
  BY DEF ClaimTaken, Goto, group, reader, effects
<1>2. Moves(m, "work") /\ ~InTx(m) /\ InHand(m) /\ ev \in EventIds
  BY <1>1, EventType DEF Moves, PCs, InHand, InTx
<1>3. SettledBehind' /\ NothingPassedOver'
  BY <1>1, <1>2, MoveKeepsSettled
<1>4. /\ stage'[m] = "work" /\ \A q \in Members : q # m => stage'[q] = stage[q]
      /\ \A q \in Members : Event(q)' = Event(q)
      /\ MessageExists' /\ stage' \in [Members -> PCs]
  BY <1>2, MovesOne
<1>5. InTx(m)' /\ \A q \in Members : q # m => (InTx(q)' <=> InTx(q))
  BY <1>4 DEF InTx
<1>6. Event(m)' = ev
  BY <1>4
<1> HIDE DEF ev
<1>7. \A e \in EventIds : claiming'[e] = IF e = ev THEN m ELSE claiming[e]
  BY <1>1, <1>2 DEF ConsumerInv, ConsumerTypeOK
<1>8. \A q \in Members : q # m /\ InTx(q) => Event(q) # ev /\ Event(q) \in EventIds
  <2> SUFFICES ASSUME NEW q \in Members, q # m, InTx(q)
               PROVE  Event(q) # ev /\ Event(q) \in EventIds
    OBVIOUS
  <2>1. claiming[Event(q)] = q
    BY DEF ConsumerInv, ClaimsAreHeld
  <2> QED BY <2>1, <1>1, EventType, ConsumerAssumption DEF ConsumerAssumption, InTx, InHand
<1>9. ClaimsAreHeld'
  <2>1. ASSUME NEW q \in Members, InTx(q)'
        PROVE  claiming'[Event(q)'] = q /\ Event(q)' \notin claimed'
    BY <2>1, <1>1, <1>2, <1>4, <1>5, <1>6, <1>7, <1>8 DEF ConsumerInv, ClaimsAreHeld
  <2>2. ASSUME NEW e \in EventIds, NEW q \in Members, claiming'[e] = q
        PROVE  InTx(q)' /\ Event(q)' = e
    <3>1. CASE e = ev
      BY <3>1, <2>2, <1>5, <1>6, <1>7
    <3>2. CASE e # ev
      <4>1. InTx(q) /\ Event(q) = e
        BY <3>2, <2>2, <1>7 DEF ConsumerInv, ClaimsAreHeld
      <4>2. q # m
        BY <4>1, <1>2
      <4> QED BY <4>1, <4>2, <1>4, <1>5
    <3> QED BY <3>1, <3>2
  <2> QED BY <2>1, <2>2 DEF ClaimsAreHeld
<1>10. EffectsAreClaimed'
  BY <1>1 DEF ConsumerInv, EffectsAreClaimed
<1>11. \A q \in Members : stage'[q] = "end" => stage[q] = "end"
  BY <1>4
<1>12. CallsComeFirst'
  BY <1>1, <1>4, <1>11 DEF ConsumerInv, CallsComeFirst
<1>13. ConsumerTypeOK'
  BY <1>1, <1>2, <1>4 DEF ConsumerInv, ConsumerTypeOK
<1> QED BY <1>3, <1>4, <1>9, <1>10, <1>12, <1>13 DEF ConsumerInv

\* The work is done under the claim, and a remote call before its commit.
LEMMA WorkPreserves ==
  ASSUME ConsumerInv, NEW m \in Members, Work(m)
  PROVE  ConsumerInv'
<1>1. /\ stage[m] = "work" /\ stage' = [stage EXCEPT ![m] = "end"]
      /\ called' = called \cup ({Event(m)} \cap Remote)
      /\ log' = log /\ committed' = committed /\ owner' = owner /\ cursor' = cursor
      /\ msg' = msg /\ attempt' = attempt /\ claimed' = claimed /\ claiming' = claiming
      /\ done' = done /\ dlq' = dlq /\ failures' = failures
  BY DEF Work, Goto, group, reader, inbox
<1>2. Moves(m, "end") /\ InTx(m)
  BY <1>1 DEF Moves, PCs, InHand, InTx
<1>3. SettledBehind' /\ NothingPassedOver'
  BY <1>1, <1>2, MoveKeepsSettled
<1>4. /\ stage'[m] = "end" /\ \A q \in Members : q # m => stage'[q] = stage[q]
      /\ \A q \in Members : Event(q)' = Event(q)
      /\ MessageExists' /\ stage' \in [Members -> PCs]
  BY <1>2, MovesOne
<1>5. \A q \in Members : InTx(q)' <=> InTx(q)
  BY <1>2, <1>4 DEF InTx
<1>6. ClaimsAreHeld' /\ EffectsAreClaimed'
  BY <1>1, <1>4, <1>5 DEF ConsumerInv, ClaimsAreHeld, EffectsAreClaimed
<1>7. CallsComeFirst'
  BY <1>1, <1>4 DEF ConsumerInv, CallsComeFirst
<1>8. ConsumerTypeOK'
  BY <1>1, <1>4 DEF ConsumerInv, ConsumerTypeOK
<1> QED BY <1>3, <1>4, <1>6, <1>7, <1>8 DEF ConsumerInv

\* After a failed attempt the message is tried again or is to be dead-lettered;
\* the attempts stay within MaxAttempts.
LEMMA FailedAttempt ==
  ASSUME ConsumerInv, NEW m \in Members, AttemptFailed(m)
  PROVE  /\ \E to \in {"handle", "dead"} : stage' = [stage EXCEPT ![m] = to]
         /\ attempt' \in [Members -> 1..MaxAttempts]
<1>1. attempt \in [Members -> 1..MaxAttempts] /\ MaxAttempts \in Nat
  BY ConsumerAssumption DEF ConsumerAssumption, ConsumerInv, ConsumerTypeOK
<1>2. CASE attempt[m] < MaxAttempts
  <2>1. stage' = [stage EXCEPT ![m] = "handle"] /\ attempt' = [attempt EXCEPT ![m] = attempt[m] + 1]
    BY <1>2 DEF AttemptFailed
  <2>2. attempt[m] + 1 \in 1..MaxAttempts
    BY <1>1, <1>2
  <2> QED BY <1>1, <2>1, <2>2
<1>3. CASE ~(attempt[m] < MaxAttempts)
  BY <1>1, <1>3 DEF AttemptFailed
<1> QED BY <1>2, <1>3

\* A refused or failed handler, or one whose process dies, leaves no claim and
\* no local effect behind.
LEMMA RollbackPreserves ==
  ASSUME ConsumerInv, NEW m \in Members, Refuse(m) \/ HandlerFails(m) \/ Exit(m)
  PROVE  ConsumerInv'
<1>1. PICK to \in {"handle", "dead", "fetch"} :
        /\ stage' = [stage EXCEPT ![m] = to]
        /\ to \in {"handle", "dead"} => InHand(m)
        /\ to = "fetch" => owner' # m
        /\ owner' = owner \/ (owner = m /\ owner' = None)
        /\ attempt' \in [Members -> 1..MaxAttempts]
        /\ claiming' = RolledBack(m)
        /\ called' = called \/ (InHand(m) /\ called' = called \cup ({Event(m)} \cap Remote))
        /\ log' = log /\ committed' = committed /\ cursor' = cursor
        /\ msg' = msg /\ claimed' = claimed /\ done' = done /\ dlq' = dlq
        /\ failures' \in 0..MaxFailures
  <2>1. CASE Refuse(m)
    <3>1. /\ stage[m] = "work" /\ AttemptFailed(m) /\ claiming' = RolledBack(m)
          /\ owner' = owner /\ log' = log /\ committed' = committed /\ cursor' = cursor
          /\ msg' = msg /\ claimed' = claimed /\ done' = done /\ called' = called
          /\ dlq' = dlq /\ failures' = failures
      BY <2>1 DEF Refuse, group, reader, effects
    <3> QED BY <3>1, FailedAttempt DEF InHand, ConsumerInv, ConsumerTypeOK
  <2>2. CASE HandlerFails(m)
    <3>1. /\ stage[m] \in {"work", "end"} /\ AttemptFailed(m) /\ claiming' = RolledBack(m)
          /\ called' = called \/ called' = called \cup ({Event(m)} \cap Remote)
          /\ owner' = owner /\ log' = log /\ committed' = committed /\ cursor' = cursor
          /\ msg' = msg /\ claimed' = claimed /\ done' = done
          /\ dlq' = dlq /\ failures < MaxFailures /\ failures' = failures + 1
      BY <2>2 DEF HandlerFails, Failure, group, reader
    <3>2. failures' \in 0..MaxFailures
      BY <3>1, ConsumerAssumption DEF ConsumerInv, ConsumerTypeOK, ConsumerAssumption
    <3> QED BY <3>1, <3>2, FailedAttempt DEF InHand
  <2>3. CASE Exit(m)
    <3>1. /\ stage' = [stage EXCEPT ![m] = "fetch"] /\ claiming' = RolledBack(m)
          /\ owner' = IF owner = m THEN None ELSE owner
          /\ called' = called /\ attempt' = attempt /\ log' = log /\ committed' = committed
          /\ cursor' = cursor /\ msg' = msg /\ claimed' = claimed /\ done' = done
          /\ dlq' = dlq /\ failures < MaxFailures /\ failures' = failures + 1
      BY <2>3 DEF Exit, Failure, reader, effects
    <3>2. failures' \in 0..MaxFailures
      BY <3>1, ConsumerAssumption DEF ConsumerInv, ConsumerTypeOK, ConsumerAssumption
    <3>3. owner' # m /\ (owner' = owner \/ (owner = m /\ owner' = None))
      BY <3>1, ConsumerAssumption DEF ConsumerAssumption
    <3> QED BY <3>1, <3>2, <3>3 DEF ConsumerInv, ConsumerTypeOK
  <2> QED BY <2>1, <2>2, <2>3
<1>2. Moves(m, to)
  BY <1>1 DEF Moves, PCs
<1>3. SettledBehind' /\ NothingPassedOver'
  BY <1>1, <1>2, MoveKeepsSettled
<1>4. ClaimsAreHeld' /\ EffectsAreClaimed' /\ CallsComeFirst' /\ MessageExists'
  BY <1>1, <1>2, MoveRollsBack, MovesOne
<1>5. claiming' \in [EventIds -> Members \cup {None}]
  BY <1>1, RollbackFrees
<1>6. called' \subseteq Remote
  BY <1>1 DEF ConsumerInv, ConsumerTypeOK
<1>7. ConsumerTypeOK'
  BY <1>1, <1>2, <1>5, <1>6, MovesOne DEF ConsumerInv, ConsumerTypeOK
<1> QED BY <1>3, <1>4, <1>7 DEF ConsumerInv

\* The claim and the local effect commit together, whether the member hears of
\* it and goes on or does not and tries again.
LEMMA RecordPreserves ==
  ASSUME ConsumerInv, NEW m \in Members, TxCommits(m) \/ TxCommitUnheard(m)
  PROVE  ConsumerInv'
<1>1. PICK to \in {"commit", "handle", "dead"} :
        /\ stage[m] = "end" /\ stage' = [stage EXCEPT ![m] = to]
        /\ Recorded(m)
        /\ attempt' \in [Members -> 1..MaxAttempts]
        /\ log' = log /\ committed' = committed /\ owner' = owner /\ cursor' = cursor
        /\ msg' = msg /\ called' = called /\ dlq' = dlq
        /\ failures' \in 0..MaxFailures
  <2>1. CASE TxCommits(m)
    BY <2>1 DEF TxCommits, Goto, group, reader, ConsumerInv, ConsumerTypeOK
  <2>2. CASE TxCommitUnheard(m)
    <3>1. /\ stage[m] = "end" /\ AttemptFailed(m) /\ Recorded(m)
          /\ log' = log /\ committed' = committed /\ owner' = owner /\ cursor' = cursor
          /\ msg' = msg /\ called' = called /\ dlq' = dlq
          /\ failures < MaxFailures /\ failures' = failures + 1
      BY <2>2 DEF TxCommitUnheard, Failure, group, reader
    <3>2. failures' \in 0..MaxFailures
      BY <3>1, ConsumerAssumption DEF ConsumerInv, ConsumerTypeOK, ConsumerAssumption
    <3> QED BY <3>1, <3>2, FailedAttempt
  <2> QED BY <2>1, <2>2
<1>2. Moves(m, to)
  BY <1>1 DEF Moves, PCs, InHand
<1>3. claimed \subseteq claimed' /\ Settled(msg[m])'
  BY <1>1 DEF Recorded, Settled, Event
<1>4. SettledBehind' /\ NothingPassedOver'
  BY <1>1, <1>2, <1>3, MoveKeepsSettled
<1>5. ClaimsAreHeld' /\ EffectsAreClaimed' /\ CallsComeFirst' /\ MessageExists'
  BY <1>1, <1>2, MoveRecords, MovesOne
<1>6. /\ done' \in [EventIds -> Nat] /\ claimed' \subseteq EventIds
      /\ claiming' \in [EventIds -> Members \cup {None}]
  BY <1>1, <1>2, MoveRecords
<1>7. ConsumerTypeOK'
  BY <1>1, <1>2, <1>6, MovesOne DEF ConsumerInv, ConsumerTypeOK
<1> QED BY <1>4, <1>5, <1>7 DEF ConsumerInv

\* Nothing happens.
LEMMA ConsumerStutters == ConsumerInv /\ UNCHANGED consumerVars => ConsumerInv'
<1> SUFFICES ASSUME ConsumerInv, UNCHANGED consumerVars PROVE ConsumerInv'
  OBVIOUS
<1>1. /\ log' = log /\ committed' = committed /\ owner' = owner /\ stage' = stage /\ cursor' = cursor
      /\ msg' = msg /\ attempt' = attempt /\ claimed' = claimed /\ claiming' = claiming
      /\ done' = done /\ called' = called /\ dlq' = dlq /\ failures' = failures
  BY DEF consumerVars
<1>2. ConsumerTypeOK'
  BY <1>1 DEF ConsumerInv, ConsumerTypeOK
<1>3. /\ MessageExists' /\ ClaimsAreHeld' /\ EffectsAreClaimed' /\ CallsComeFirst'
      /\ SettledBehind' /\ NothingPassedOver'
  BY <1>1 DEF ConsumerInv, MessageExists, ClaimsAreHeld, EffectsAreClaimed, CallsComeFirst,
              SettledBehind, NothingPassedOver, InHand, InTx, Event, Settled
<1> QED BY <1>2, <1>3 DEF ConsumerInv
-----------------------------------------------------------------------------

\* The group's bookkeeping is right in every reachable state.
THEOREM ConsumerInvariant == ConsumerSpec => []ConsumerInv
<1>1. ConsumerInit => ConsumerInv
  BY InitConsumer
<1>2. ConsumerInv /\ [ConsumerNext]_consumerVars => ConsumerInv'
  <2> SUFFICES ASSUME ConsumerInv, [ConsumerNext]_consumerVars PROVE ConsumerInv'
    OBVIOUS
  <2>1. CASE \E e \in EventIds : Produce(e)
    BY <2>1, ProducePreserves
  <2>2. ASSUME NEW m \in Members, Step(m) PROVE ConsumerInv'
    BY <2>2, FetchPreserves, PassOnPreserves, InboxClaimPreserves, WorkPreserves, RecordPreserves,
       RollbackPreserves, DeadLetterPreserves, CommitPreserves DEF Step
  <2>3. ASSUME NEW m \in Members, Join(m) \/ Rebalance(m) PROVE ConsumerInv'
    <3>1. Assign(m)
      BY <2>3 DEF Join, Rebalance
    <3>2. failures' \in 0..MaxFailures
      BY <2>3, ConsumerAssumption DEF Join, Rebalance, Failure, ConsumerInv, ConsumerTypeOK, ConsumerAssumption
    <3> QED BY <3>1, <3>2, AssignPreserves
  <2>4. ASSUME NEW m \in Members,
               HandlerFails(m) \/ TxCommitUnheard(m) \/ Exit(m) \/ RunReturns(m) \/ Replaced(m)
        PROVE  ConsumerInv'
    BY <2>4, RollbackPreserves, RecordPreserves, RunReturnPreserves
  <2>5. CASE UNCHANGED consumerVars
    BY <2>5, ConsumerStutters
  <2> QED BY <2>1, <2>2, <2>3, <2>4, <2>5 DEF ConsumerNext
<1> QED BY <1>1, <1>2, PTL DEF ConsumerSpec

\* inbox.Claim makes redelivery harmless: every claimed event has had its effect,
\* and no local effect is committed twice, however many members work on copies of
\* an event, whatever fails and wherever they stop.
THEOREM ClaimsAgree == ConsumerSpec => []ClaimsMatchEffects
<1>1. ConsumerInv => ClaimsMatchEffects
  <2> SUFFICES ASSUME ConsumerInv PROVE ClaimsMatchEffects
    OBVIOUS
  <2>1. ConsumerTypeOK
    BY DEF ConsumerInv
  <2>2. EffectOnce
    <3> SUFFICES ASSUME NEW e \in EventIds PROVE done[e] <= 1
      BY DEF EffectOnce
    <3>1. done[e] = 0 \/ done[e] = 1
      BY DEF ConsumerInv, EffectsAreClaimed
    <3> QED BY <3>1
  <2>3. ClaimedIsDone
    BY <2>1 DEF ConsumerInv, ConsumerTypeOK, EffectsAreClaimed, CallsComeFirst, ClaimedIsDone
  <2> QED BY <2>1, <2>2, <2>3 DEF ClaimsMatchEffects
<1> QED BY <1>1, ConsumerInvariant, PTL

\* Consumer.Run commits an offset only when everything before it was handled,
\* dead-lettered or of no concern, late commits of a former owner included.
THEOREM NoMessagePassedOver == ConsumerSpec => []NothingPassedOver
<1>1. ConsumerInv => NothingPassedOver
  BY DEF ConsumerInv
<1> QED BY <1>1, ConsumerInvariant, PTL
=============================================================================
