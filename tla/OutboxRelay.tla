---------------------------- MODULE OutboxRelay ----------------------------
(***************************************************************************)
(* pkg/outbox and pkg/kafkax.Publisher: rows written with the aggregate    *)
(* they are about, claimed in batches by a relay, sent to the broker inside *)
(* the claiming transaction and marked when the broker has them all.       *)
(*                                                                         *)
(* An event is named by its row's id, so events are numbers and their order *)
(* is the order of insertion.  A topic partition is a sequence of record   *)
(* batches; a batch is the set of its events, which lie in it in id order. *)
(* The writer puts what one relay cycle sends to one partition into one    *)
(* record batch: both limits default to 100 messages.                      *)
(***************************************************************************)
EXTENDS Naturals, Sequences, FiniteSets

CONSTANTS Events,      \* the outbox ids (bound)
          Keys,        \* aggregates
          Partitions,  \* of the topic
          KeyOf,       \* the aggregate each event is about
          PartOf,      \* the partition the balancer gives each key
          Relays,      \* relay processes
          BatchSize,   \* RelayConfig.BatchSize
          MaxFaults    \* bound: failed cycles and unacknowledged writes

ASSUME OutboxAssumption ==
  /\ Events \subseteq Nat
  /\ IsFiniteSet(Events)
  /\ KeyOf \in [Events -> Keys]
  /\ PartOf \in [Keys -> Partitions]
  /\ BatchSize \in Nat \ {0}
  /\ MaxFaults \in Nat

VARIABLES row,     \* the outbox row of each event
          pc,      \* where each relay is in publishBatch
          batch,   \* the rows each relay's open transaction has locked
          acked,   \* the partitions that acknowledged the relay's batch
          topic,   \* the broker: the record batches of each partition
          late,    \* writes a relay gave up on that may still reach the broker,
                   \* told apart by the fault that orphaned them
          faults,  \* how many faults have happened
          resent,  \* history: faults each event was in flight for
          overlap  \* history: did a relay start a cycle during another's?

vars == <<row, pc, batch, acked, topic, late, faults, resent, overlap>>

RowStates == {"none", "open", "aborted", "waiting", "published"}

TypeOK ==
  /\ row \in [Events -> RowStates]
  /\ pc \in [Relays -> {"idle", "publish", "mark"}]
  /\ batch \in [Relays -> SUBSET Events]
  /\ acked \in [Relays -> SUBSET Partitions]
  /\ topic \in [Partitions -> Seq(SUBSET Events)]
  /\ late \subseteq Partitions \X (SUBSET Events) \X Nat
  /\ faults \in 0..MaxFaults
  /\ resent \in [Events -> 0..MaxFaults]
  /\ overlap \in {"never", "once"}

Init ==
  /\ row = [e \in Events |-> "none"]
  /\ pc = [r \in Relays |-> "idle"]
  /\ batch = [r \in Relays |-> {}]
  /\ acked = [r \in Relays |-> {}]
  /\ topic = [p \in Partitions |-> <<>>]
  /\ late = {}
  /\ faults = 0
  /\ resent = [e \in Events |-> 0]
  /\ overlap = "never"

Part(e) == PartOf[KeyOf[e]]
ToPart(S, p) == {e \in S : Part(e) = p}
Targets(S) == {Part(e) : e \in S}

relays == <<pc, batch, acked>>
broker == <<topic, late>>
history == <<faults, resent, overlap>>
-----------------------------------------------------------------------------
(* The service's transactions.                                             *)

\* Write, inside the transaction that changes the aggregate.  The identity
\* column hands out ids as rows are inserted, and the aggregate's row lock
\* keeps two transactions about one aggregate apart.
Write(e) ==
  /\ row[e] = "none"
  /\ \A f \in Events : f < e => row[f] # "none"
  /\ \A f \in Events : KeyOf[f] = KeyOf[e] => row[f] # "open"
  /\ row' = [row EXCEPT ![e] = "open"]
  /\ UNCHANGED <<relays, broker, history>>

\* Bug variant: Write was given the pool, so the row is visible before its
\* transaction has ended.
EndWriteOnPool(e, to) ==
  /\ row[e] \in {"open", "waiting"}
  /\ row' = [row EXCEPT ![e] = to]
  /\ UNCHANGED <<relays, broker, history>>

\* Transactions end in any order, so a lower id can become visible after a
\* higher one.
EndWrite(e, to) ==
  /\ row[e] = "open"
  /\ row' = [row EXCEPT ![e] = to]
  /\ UNCHANGED <<relays, broker, history>>
-----------------------------------------------------------------------------
(* Relay.publishBatch.                                                     *)

\* Unpublished rows nobody has locked: FOR UPDATE SKIP LOCKED.
Claimable == {e \in Events : row[e] = "waiting" /\ \A r \in Relays : e \notin batch[r]}

\* Bug variant: no ORDER BY.
IsAnyBatch(S) == S \subseteq Claimable /\ S # {} /\ Cardinality(S) <= BatchSize

\* The oldest BatchSize of them: ORDER BY id LIMIT.
IsBatch(S) ==
  /\ S \subseteq Claimable
  /\ S # {}
  /\ Cardinality(S) <= BatchSize
  /\ \A e \in S, f \in Claimable \ S : e < f
  /\ Cardinality(S) < BatchSize => S = Claimable

claim(r) ==
  /\ pc[r] = "idle"
  /\ \E S \in SUBSET Events :
       /\ IsBatch(S)
       /\ batch' = [batch EXCEPT ![r] = S]
  /\ pc' = [pc EXCEPT ![r] = "publish"]
  /\ acked' = [acked EXCEPT ![r] = {}]
  /\ overlap' = IF \A q \in Relays : pc[q] = "idle" THEN overlap ELSE "once"
  /\ UNCHANGED <<row, broker, faults, resent>>

Landed(p, S) == [topic EXCEPT ![p] = Append(@, S)]

\* The broker appends one partition's batch, and the writer hears of it.
Deliver(r, p) ==
  /\ pc[r] = "publish"
  /\ p \in Targets(batch[r]) \ acked[r]
  /\ topic' = Landed(p, ToPart(batch[r], p))
  /\ acked' = [acked EXCEPT ![r] = @ \cup {p}]
  /\ UNCHANGED <<row, pc, batch, late, history>>

\* What a fault does to the history: every event of S may now arrive once more.
Fault(S) ==
  /\ faults < MaxFaults
  /\ faults' = faults + 1
  /\ resent' = [e \in Events |-> resent[e] + IF e \in S THEN 1 ELSE 0]
  /\ UNCHANGED overlap

\* The broker appends it and the writer does not hear: it will try again.
DeliverUnheard(r, p) ==
  /\ pc[r] = "publish"
  /\ p \in Targets(batch[r]) \ acked[r]
  /\ Fault(ToPart(batch[r], p))
  /\ topic' = Landed(p, ToPart(batch[r], p))
  /\ UNCHANGED <<row, relays, late>>

\* Bug variant: the writer is asynchronous and returns before the broker has
\* anything.
PublishReturnsAsync(r) ==
  /\ pc[r] = "publish"
  /\ pc' = [pc EXCEPT ![r] = "mark"]
  /\ UNCHANGED <<row, batch, acked, broker, history>>

\* Publish returns nil only when every partition has acknowledged.
PublishReturns(r) ==
  /\ pc[r] = "publish"
  /\ Targets(batch[r]) \subseteq acked[r]
  /\ pc' = [pc EXCEPT ![r] = "mark"]
  /\ UNCHANGED <<row, batch, acked, broker, history>>

\* The end of the transaction: its locks are gone.
EndCycle(r) ==
  /\ pc' = [pc EXCEPT ![r] = "idle"]
  /\ batch' = [batch EXCEPT ![r] = {}]
  /\ acked' = [acked EXCEPT ![r] = {}]

\* markPublished and COMMIT (also a COMMIT whose answer was lost).
markPublished(r) ==
  /\ pc[r] = "mark"
  /\ row' = [e \in Events |-> IF e \in batch[r] THEN "published" ELSE row[e]]
  /\ EndCycle(r)
  /\ UNCHANGED <<broker, history>>

\* Bug variant: Run returns the error instead of going round again.
CycleGivesUp(r) ==
  /\ pc[r] # "idle"
  /\ Fault(batch[r])
  /\ pc' = [pc EXCEPT ![r] = "stopped"]
  /\ batch' = [batch EXCEPT ![r] = {}]
  /\ acked' = [acked EXCEPT ![r] = {}]
  /\ UNCHANGED <<row, broker>>

\* Publish or a statement fails, the process is told to stop, or it dies: the
\* transaction rolls back, and what was sent may still reach the broker.
CycleFails(r) ==
  /\ pc[r] # "idle"
  /\ Fault(batch[r])
  /\ late' = late \cup {<<p, ToPart(batch[r], p), faults>> : p \in Targets(batch[r]) \ acked[r]}
  /\ EndCycle(r)
  /\ UNCHANGED <<row, topic>>

LateDelivery ==
  \E w \in late :
    /\ topic' = Landed(w[1], w[2])
    /\ late' = late \ {w}
    /\ UNCHANGED <<row, relays, history>>

LateDrop ==
  \E w \in late :
    /\ late' = late \ {w}
    /\ UNCHANGED <<row, relays, topic, history>>
-----------------------------------------------------------------------------
Cycle(r) ==
  \/ claim(r)
  \/ \E p \in Partitions : Deliver(r, p)
  \/ PublishReturns(r)
  \/ markPublished(r)

Next ==
  \/ \E e \in Events : Write(e) \/ EndWrite(e, "waiting") \/ EndWrite(e, "aborted")
  \/ \E r \in Relays : Cycle(r) \/ CycleFails(r) \/ \E p \in Partitions : DeliverUnheard(r, p)
  \/ LateDelivery
  \/ LateDrop

\* Run goes round again after every cycle, failed ones included, and a process
\* that dies is restarted.
Fairness == \A r \in Relays : WF_vars(Cycle(r))

Spec     == Init /\ [][Next]_vars
FairSpec == Spec /\ Fairness
-----------------------------------------------------------------------------
(* Properties.                                                             *)

Sent(e) == \E i \in DOMAIN topic[Part(e)] : e \in topic[Part(e)][i]

\* No event is lost: a row leaves the queue only when the broker has its event,
\* through failed publishes, crashes and restarts at any point of a cycle.
MarkedIsSent == \A e \in Events : row[e] = "published" => Sent(e)

\* Nothing is announced that did not happen: every event on the topic was
\* committed with its aggregate.
SentIsCommitted == \A e \in Events : Sent(e) => row[e] \in {"waiting", "published"}

\* As long as one relay runs at a time, which is how they are deployed, an event
\* first arrives after every earlier event of the same aggregate, although ids
\* become visible out of order, batches are resent and abandoned writes arrive
\* late.
FirstCopiesInOrder ==
  overlap = "never" => \A e, f \in Events :
    /\ KeyOf[e] = KeyOf[f]
    /\ e < f
    /\ row[e] # "aborted"
    => \A i \in DOMAIN topic[Part(f)] :
         f \in topic[Part(f)][i] => \E j \in 1..i : e \in topic[Part(f)][j]

Copies(e) == Cardinality({i \in DOMAIN topic[Part(e)] : e \in topic[Part(e)][i]})

\* A second copy of an event is always the work of a fault: relays that run at
\* the same time never send the same row because of each other.
CopiesAreFaults == \A e \in Events : Copies(e) <= 1 + resent[e]

\* How the topic looks to a consumer: events of one aggregate first arrive in
\* order, and a copy of one has a fault behind it.
DeliveredInOrder == TypeOK /\ FirstCopiesInOrder /\ CopiesAreFaults

\* Every committed event is published, whatever failed before.
EventsArrive == \A e \in Events : row[e] = "waiting" ~> row[e] = "published"
=============================================================================
