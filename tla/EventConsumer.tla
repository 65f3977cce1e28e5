--------------------------- MODULE EventConsumer ---------------------------
(***************************************************************************)
(* pkg/kafkax.Consumer and pkg/inbox: a group reads one partition, hands   *)
(* each message to a handler that claims the event in the transaction its  *)
(* effect is part of, retries it, gives up to the dead-letter topic, and   *)
(* commits the offset.                                                     *)
(*                                                                         *)
(* The partition holds any sequence of events, copies included (see        *)
(* OutboxRelay).  A local effect is a write in the claiming transaction    *)
(* (MarkPaid); a remote one is a call made before that transaction commits *)
(* (CommitReservation, ReleaseReservation).  A member that lost the        *)
(* partition goes on with the message in its hands; its commit is refused, *)
(* or accepted under the generation the client has joined meanwhile.       *)
(***************************************************************************)
EXTENDS Naturals, Sequences

CONSTANTS EventIds,     \* events, by event_id
          Remote,       \* those whose handler calls another service
          Ignored,      \* those of a type this build has no handler for
          Poison,       \* those the handler refuses every time
          Members,      \* processes of the consumer group
          MaxAttempts,  \* ConsumerConfig.MaxAttempts
          MaxLog,       \* bound: length of the partition
          MaxFailures,  \* bound: failures, crashes and rebalances
          None

ASSUME ConsumerAssumption ==
  /\ Remote \subseteq EventIds
  /\ Ignored \subseteq EventIds
  /\ Poison \subseteq EventIds \ Ignored
  /\ MaxAttempts \in Nat \ {0}
  /\ MaxLog \in Nat
  /\ MaxFailures \in Nat
  /\ None \notin Members

VARIABLES log,        \* the partition
          committed,  \* the group's committed offset: messages before it are done
          owner,      \* the member the partition is assigned to
          stage,      \* where each member is in Consumer.Run
          cursor,     \* how far each member's reader has read
          msg,        \* the offset of the message in each member's hands
          attempt,    \* which attempt of it this is
          claimed,    \* committed processed_events rows of this group
          claiming,   \* the open transaction that has inserted each event's row
          done,       \* how often each event's local effect was committed
          called,     \* events whose remote call took effect
          dlq,        \* events on the dead-letter topic
          failures

consumerVars ==
  <<log, committed, owner, stage, cursor, msg, attempt, claimed, claiming, done, called, dlq, failures>>

PCs == {"fetch", "handle", "work", "end", "dead", "commit", "returned"}

ConsumerTypeOK ==
  /\ log \in Seq(EventIds) /\ Len(log) <= MaxLog
  /\ committed \in 0..Len(log)
  /\ owner \in Members \cup {None}
  /\ stage \in [Members -> PCs]
  /\ cursor \in [Members -> 0..Len(log)]
  /\ msg \in [Members -> 0..Len(log)]
  /\ attempt \in [Members -> 1..MaxAttempts]
  /\ claimed \subseteq EventIds
  /\ claiming \in [EventIds -> Members \cup {None}]
  /\ done \in [EventIds -> Nat]
  /\ called \subseteq Remote
  /\ dlq \subseteq EventIds
  /\ failures \in 0..MaxFailures

ConsumerInit ==
  /\ log = <<>>
  /\ committed = 0
  /\ owner = None
  /\ stage = [m \in Members |-> "fetch"]
  /\ cursor = [m \in Members |-> 0]
  /\ msg = [m \in Members |-> 0]
  /\ attempt = [m \in Members |-> 1]
  /\ claimed = {}
  /\ claiming = [e \in EventIds |-> None]
  /\ done = [e \in EventIds |-> 0]
  /\ called = {}
  /\ dlq = {}
  /\ failures = 0

Event(m) == log[msg[m]]
Goto(m, from, to) == stage[m] = from /\ stage' = [stage EXCEPT ![m] = to]
Failure == failures < MaxFailures /\ failures' = failures + 1

group   == <<committed, owner>>
reader  == <<cursor, msg>>
inbox   == <<claimed, claiming>>
effects == <<done, called, dlq>>
-----------------------------------------------------------------------------
(* The broker.                                                             *)

Produce(e) ==
  /\ Len(log) < MaxLog
  /\ log' = Append(log, e)
  /\ UNCHANGED <<group, stage, reader, attempt, inbox, effects, failures>>

\* A member with the partition reads on from the committed offset.
Assign(m) ==
  /\ owner' = m
  /\ cursor' = [cursor EXCEPT ![m] = committed]
  /\ UNCHANGED <<log, committed, stage, msg, attempt, inbox, effects>>

Join(m) == owner = None /\ Assign(m) /\ UNCHANGED failures

\* A rebalance can come while the old owner is working on a message.
Rebalance(m) == owner \notin {m, None} /\ Assign(m) /\ Failure
-----------------------------------------------------------------------------
(* Consumer.Run and process.                                               *)

FetchMessage(m) ==
  /\ Goto(m, "fetch", "handle")
  /\ owner = m
  /\ cursor[m] < Len(log)
  /\ cursor' = [cursor EXCEPT ![m] = @ + 1]
  /\ msg' = [msg EXCEPT ![m] = cursor'[m]]
  /\ attempt' = [attempt EXCEPT ![m] = 1]
  /\ UNCHANGED <<log, group, inbox, effects, failures>>

\* Handle: no case for the event's type.
Skip(m) ==
  /\ Goto(m, "handle", "commit")
  /\ Event(m) \in Ignored
  /\ UNCHANGED <<log, group, reader, attempt, inbox, effects, failures>>

\* inbox.Claim: the insert waits for another transaction's uncommitted row.
ClaimTaken(m) ==
  /\ Goto(m, "handle", "work")
  /\ Event(m) \notin Ignored \cup claimed
  /\ claiming[Event(m)] = None
  /\ claiming' = [claiming EXCEPT ![Event(m)] = m]
  /\ UNCHANGED <<log, group, reader, attempt, claimed, effects, failures>>

\* inbox.Claim: some earlier delivery was handled.
ClaimDuplicate(m) ==
  /\ Goto(m, "handle", "commit")
  /\ Event(m) \in claimed
  /\ claiming[Event(m)] = None
  /\ UNCHANGED <<log, group, reader, attempt, inbox, effects, failures>>

\* The handler's own work goes well: a remote call has taken effect.
Work(m) ==
  /\ Goto(m, "work", "end")
  /\ Event(m) \notin Poison
  /\ called' = called \cup ({Event(m)} \cap Remote)
  /\ UNCHANGED <<log, group, reader, attempt, inbox, done, dlq, failures>>

\* COMMIT of the claim and of the local effect.
Recorded(m) ==
  /\ claimed' = claimed \cup {Event(m)}
  /\ claiming' = [claiming EXCEPT ![Event(m)] = None]
  /\ done' = [done EXCEPT ![Event(m)] = IF Event(m) \in Remote THEN @ ELSE @ + 1]

TxCommits(m) ==
  /\ Goto(m, "end", "commit")
  /\ Recorded(m)
  /\ UNCHANGED <<log, group, reader, attempt, called, dlq, failures>>

\* Bug variant: failed attempts are not counted.
AttemptNotCounted(m) ==
  /\ stage' = [stage EXCEPT ![m] = "handle"]
  /\ UNCHANGED attempt

\* What process does with a handler's error.
AttemptFailed(m) ==
  IF attempt[m] < MaxAttempts
  THEN /\ stage' = [stage EXCEPT ![m] = "handle"]
       /\ attempt' = [attempt EXCEPT ![m] = @ + 1]
  ELSE /\ stage' = [stage EXCEPT ![m] = "dead"]
       /\ UNCHANGED attempt

\* The end of a transaction without COMMIT.
RolledBack(m) == [e \in EventIds |-> IF claiming[e] = m THEN None ELSE claiming[e]]

\* The handler refuses the event every time: it cannot be decoded, or the order
\* was cancelled.
Refuse(m) ==
  /\ stage[m] = "work"
  /\ Event(m) \in Poison
  /\ AttemptFailed(m)
  /\ claiming' = RolledBack(m)
  /\ UNCHANGED <<log, group, reader, claimed, effects, failures>>

\* Bug variant: the claim is committed on its own, before the work.
FailsAfterClaim(m) ==
  /\ stage[m] \in {"work", "end"}
  /\ Failure
  /\ AttemptFailed(m)
  /\ claiming' = RolledBack(m)
  /\ claimed' = claimed \cup {Event(m)}
  /\ UNCHANGED <<log, group, reader, effects>>

\* A statement or the remote call fails, the latter with or without effect.
HandlerFails(m) ==
  /\ stage[m] \in {"work", "end"}
  /\ Failure
  /\ AttemptFailed(m)
  /\ claiming' = RolledBack(m)
  /\ \/ UNCHANGED called
     \/ Event(m) \notin Poison /\ called' = called \cup ({Event(m)} \cap Remote)
  /\ UNCHANGED <<log, group, reader, claimed, done, dlq>>

\* COMMIT took effect and its answer was lost.
TxCommitUnheard(m) ==
  /\ stage[m] = "end"
  /\ Failure
  /\ AttemptFailed(m)
  /\ Recorded(m)
  /\ UNCHANGED <<log, group, reader, called, dlq>>

publishDLQ(m) ==
  /\ Goto(m, "dead", "commit")
  /\ dlq' = dlq \cup {Event(m)}
  /\ UNCHANGED <<log, group, reader, attempt, inbox, done, called, failures>>

CommitMessages(m) ==
  /\ Goto(m, "commit", "fetch")
  /\ committed' = msg[m]
  /\ UNCHANGED <<log, owner, reader, attempt, inbox, effects, failures>>

\* Bug variant: an error of publishDLQ is logged and the message passed over.
ExitPassesOver(m) ==
  /\ stage[m] \notin {"fetch", "returned"}
  /\ Failure
  /\ stage' = [stage EXCEPT ![m] = "fetch"]
  /\ committed' = IF stage[m] = "dead" THEN msg[m] ELSE committed
  /\ owner' = IF owner = m THEN None ELSE owner
  /\ claiming' = RolledBack(m)
  /\ UNCHANGED <<log, reader, attempt, claimed, effects>>

\* The member's process is stopped or dies and is started again: a transaction
\* rolls back and the partition goes to whoever joins next.
Exit(m) ==
  /\ stage[m] \notin {"fetch", "returned"}
  /\ Failure
  /\ stage' = [stage EXCEPT ![m] = "fetch"]
  /\ owner' = IF owner = m THEN None ELSE owner
  /\ claiming' = RolledBack(m)
  /\ UNCHANGED <<log, committed, reader, attempt, claimed, effects>>

\* Fetching fails, publishDLQ fails (perhaps after the broker has the message)
\* or the offset commit is refused: Run returns.  The worker's other consumer
\* keeps the process up, and the reader, which is closed only when both have
\* returned, keeps the partition.
RunReturns(m) ==
  /\ stage[m] \in {"fetch", "dead", "commit"}
  /\ Failure
  /\ stage' = [stage EXCEPT ![m] = "returned"]
  /\ \/ UNCHANGED dlq
     \/ stage[m] = "dead" /\ dlq' = dlq \cup {Event(m)}
  /\ UNCHANGED <<log, group, reader, attempt, inbox, done, called>>

\* The process is replaced, by a deployment or by hand.
Replaced(m) ==
  /\ Goto(m, "returned", "fetch")
  /\ owner' = IF owner = m THEN None ELSE owner
  /\ UNCHANGED <<log, committed, reader, attempt, inbox, effects, failures>>
-----------------------------------------------------------------------------
Step(m) ==
  \/ FetchMessage(m) \/ Skip(m) \/ ClaimTaken(m) \/ ClaimDuplicate(m)
  \/ Work(m) \/ TxCommits(m) \/ Refuse(m) \/ publishDLQ(m) \/ CommitMessages(m)

ConsumerNext ==
  \/ \E e \in EventIds : Produce(e)
  \/ \E m \in Members :
       Step(m) \/ Join(m) \/ Rebalance(m) \/ HandlerFails(m) \/ TxCommitUnheard(m)
       \/ Exit(m) \/ RunReturns(m) \/ Replaced(m)

\* A member keeps working while it runs, and some member always joins: a process
\* that exits is restarted.  Nothing replaces a process whose Run has returned.
ConsumerFairness ==
  /\ \A m \in Members : WF_consumerVars(Step(m))
  /\ WF_consumerVars(\E m \in Members : Join(m))

ConsumerSpec     == ConsumerInit /\ [][ConsumerNext]_consumerVars
ConsumerFairSpec == ConsumerSpec /\ ConsumerFairness
-----------------------------------------------------------------------------
(* Properties.                                                             *)

\* However often an event is delivered, to however many members, its local
\* effect is committed once.
EffectOnce == \A e \in EventIds : done[e] <= 1

\* An event is recorded as handled only with its effect: a claim never outlives
\* work that was rolled back, and a remote call is never skipped.
ClaimedIsDone == \A e \in claimed : IF e \in Remote THEN e \in called ELSE done[e] = 1

\* Claims and effects agree: an event that is claimed has been worked on, and no
\* delivery of it does the work again.
ClaimsMatchEffects == ConsumerTypeOK /\ EffectOnce /\ ClaimedIsDone

\* What becomes of a message in the end.
Settled(i) == log[i] \in claimed \cup dlq \cup Ignored

\* The group's offset never passes a message that was neither handled nor
\* dead-lettered nor of a type nobody handles, even when a member that lost the
\* partition commits its own offset late.
NothingPassedOver == \A i \in 1..committed : Settled(i)

\* A member whose Run has returned holds the partition.
Abandoned == \E m \in Members : stage[m] = "returned" /\ owner = m

\* Every message is settled in the end: no poison message blocks the partition,
\* no crash and no rebalance drops what a member had in its hands.  Only a
\* consumer that has returned and still holds the partition stops it.
MessagesSettle ==
  \A i \in 1..MaxLog : i <= Len(log) ~> i <= Len(log) /\ (Settled(i) \/ Abandoned)
=============================================================================
