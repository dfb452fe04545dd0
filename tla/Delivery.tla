------------------------------ MODULE Delivery ------------------------------
(***************************************************************************)
(* From queue to queue: the workers of SqsConsumer and the publishers of   *)
(* Outbox around one database.  They share the commit of ProcessIn, which  *)
(* writes the operation, its inbox row and its events together, and        *)
(* nothing else.                                                           *)
(*                                                                         *)
(* The group of a message stands for its wallet, its body for its          *)
(* operation: the hash of the inbox covers the payload and the idempotency *)
(* key, so that two messageIds with one body are one operation sent twice. *)
(* The transaction is one step, so a row of the outbox has the time of its *)
(* commit; the gap between the beginning and the commit of a transaction   *)
(* is Outbox's.  What the reference worker adds to an operation that was   *)
(* parked is WagerService's.                                               *)
(***************************************************************************)
EXTENDS Integers, Sequences, FiniteSets, SequencesExt

CONSTANTS
  Workers, Messages, Refused, MaxMessages, MaxReceive,   \* of SqsConsumer
  Moving,                                                \* the operations that move a balance
  Publishers, BatchSize, ChunkLimit, MaxDelay, MaxLate,  \* of Outbox
  MaxFaults                                              \* of both together

ASSUME MessagesAssumption == IsFiniteSet(Messages) /\ Refused \subseteq Messages
ASSUME OperationsAssumption ==
  LET operations == {m.body : m \in Messages}
  IN Moving \subseteq operations /\ operations \cap {m.group : m \in Messages} = {}
ASSUME SizesAssumption == {MaxMessages, MaxReceive, BatchSize, ChunkLimit} \subseteq Nat \ {0}
ASSUME FaultsAssumption == {MaxFaults, MaxDelay, MaxLate} \subseteq Nat

VARIABLES
  queue, hidden, receives, dlq, inbox, running, pc, batch, sent, done,
  state, due, locked, clock, events, tick, claim, chunk, single, failed, accepted,
  faults

consumer == << queue, hidden, receives, dlq, inbox, running, pc, batch, sent, done >>
outbox   == << state, due, locked, clock, events, tick, claim, chunk, single, failed, accepted >>
vars     == << consumer, outbox, faults >>

Groups == {m.group : m \in Messages}

Operations == {m.body : m \in Messages}

\* The event of an operation, and those of a wallet, numbered by its version:
\* an operation adds one at most, when it first commits.
Events == [group : Operations, version : {1}] \cup [group : Groups, version : 1 .. Cardinality(Moving)]

Consumer == INSTANCE SqsConsumer
Outbox   == INSTANCE Outbox WITH queue <- events, pc <- tick, batch <- claim, sent <- accepted

-----------------------------------------------------------------------------

\* WagerTransactionProcessed, ...Rejected or ...PendingReference, of the
\* operation's own aggregate.
TransactionEvent(operation) == [group |-> operation, version |-> 1]

\* WalletBalanceChanged, with the next version of the wallet.
BalanceEvent(wallet) ==
  [group |-> wallet,
   version |-> 1 + Cardinality({e \in Events : e.group = wallet /\ state[e] # "none"})]

\* Mutant of Record: the events are not part of the transaction.
RecordNothing(m) == UNCHANGED << state, due, clock >>

\* outbox.Add, in the transaction that commits m: the event of the operation
\* and, if it moved the balance, that of the wallet.  lookupExisting ends a
\* replay, under another messageId, before it writes anything.
Record(m) ==
  LET added == {TransactionEvent(m.body)}
                 \cup (IF m.body \in Moving THEN {BalanceEvent(m.group)} ELSE {})
  IN IF \E k \in DOMAIN done : done[k].body = m.body
     THEN UNCHANGED << state, due, clock >>
     ELSE /\ state' = [e \in Events |-> IF e \in added THEN "pending" ELSE state[e]]
          /\ due' = [e \in Events |-> IF e \in added THEN clock ELSE due[e]]
          /\ clock' = clock + 1

\* A step of the consumer; if it commits, it adds events.
Consume(Step) ==
  /\ Step
  /\ IF done' = done THEN UNCHANGED << state, due, clock >> ELSE Record(Last(done'))
  /\ UNCHANGED << locked, events, tick, claim, chunk, single, failed, accepted >>

\* A step of a publisher.
Publish(Step) == Step /\ UNCHANGED consumer

Init == Consumer!Init /\ Outbox!Init

Next ==
  \/ Consume(Consumer!Next)
  \/ Publish(\/ \E p \in Publishers : Outbox!Claim(p) \/ Outbox!Work(p)
             \/ \E p \in Publishers : Outbox!PublishBatchFails(p) \/ Outbox!PublishOneFails(p)
             \/ \E p \in Publishers : Outbox!SettleFails(p) \/ Outbox!Crash(p)
             \/ \E e \in Events : Outbox!Expire(e))

Spec == Init /\ [][Next]_vars

\* A worker polls again after every batch and goes on with a batch; the broker
\* ends a visibility timeout, redrives, and serves a worker that keeps polling.
\* The timer of a publisher's loop fires again after every tick, a tick goes on
\* until it is done, and a lease that nobody renews runs out.
FairSpec ==
  /\ Spec
  /\ \A p \in Workers : /\ SF_vars(Consume(Consumer!Receive(p)))
                        /\ WF_vars(Consume(Consumer!Work(p)))
                        /\ WF_vars(Consume(Consumer!Start(p)))
  /\ \A m \in Messages : /\ WF_vars(Consume(Consumer!Reappear(m)))
                         /\ SF_vars(Consume(Consumer!Redrive(m)))
  /\ \A p \in Publishers : /\ WF_vars(Publish(Outbox!Claim(p)))
                           /\ WF_vars(Publish(Outbox!Work(p)))
  /\ \A e \in Events : WF_vars(Publish(Outbox!Expire(e)))

-----------------------------------------------------------------------------

\* The event of an operation is in the outbox.
Recorded(operation) == state[TransactionEvent(operation)] \in {"pending", "published"}

\* Subscribers can receive the event of what m asks, whichever message it was
\* done for.
Announced(m) == Contains(events, TransactionEvent(m.body))

\* A message that has left the queue has an event or is in the dead-letter
\* queue, and every event is that of a commit: nothing that a worker or a
\* publisher loses loses a message, and a replay, which adds no event, is never
\* the first of its operation.
NoMessageWithoutEvent ==
  /\ \A m \in ToSet(sent) :
       \/ Contains(queue, m) \/ m \in dlq
       \/ Recorded(m.body)
  /\ \A op \in Operations : Recorded(op) => \E k \in DOMAIN done : done[k].body = op

Abstract == INSTANCE Channel WITH
  submitted <- ToSet(sent), applied <- done, dead <- dlq,
  announced <- {op \in Operations : Contains(events, TransactionEvent(op))}

\* Workers and publishers together do what Channel promises: an operation is
\* applied once per messageId and only operations that are applied are
\* announced.
ImplementsChannel == Abstract!Spec

\* Every message ends outside the queue for good, and then it is in the
\* dead-letter queue or subscribers can receive its event.
EventuallyDelivered ==
  \A m \in Messages :
    Contains(sent, m) ~> [](~Contains(queue, m) /\ (m \in dlq \/ Announced(m)))

\* Every committed event is marked published, whatever publisher crashes and
\* whatever call fails on the way, so that publishers come to rest.
EventuallyPublished ==
  \A e \in Events : state[e] = "pending" ~> state[e] = "published"

=============================================================================
