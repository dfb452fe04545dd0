------------------------------- MODULE Outbox -------------------------------
(***************************************************************************)
(* The transactional outbox: table outbox_events, its repository and       *)
(* workers.OutboxPublisher in any number of instances, publishing to an    *)
(* SQS FIFO queue.                                                         *)
(*                                                                         *)
(* An event is [group, version]: its aggregate, which is the               *)
(* MessageGroupId, and its place among the events of that aggregate, which *)
(* commit in this order because their transactions hold the wallet lock.   *)
(* Time is a counter that orders the instants written to the rows; how     *)
(* long it takes to pass is not kept.  So a lease may run out at any       *)
(* moment, whether or not its publisher is still at work, a row may become *)
(* due at any moment, though never before one with an earlier time, and    *)
(* the broker's deduplication window may close at any moment.              *)
(***************************************************************************)
EXTENDS Integers, Sequences, FiniteSets, SequencesExt

CONSTANTS
  Publishers,
  Events,
  BatchSize,        \* OUTBOX_BATCH_SIZE
  ChunkLimit,       \* sqsBatchLimit
  MaxDelay,         \* bound: the backoff of a failed send, on this scale of time
  MaxLate,          \* bound: messages the broker accepts again, their window closed
  MaxFaults         \* bound: failed calls, failed transactions and crashes

ASSUME BatchAssumption == BatchSize \in Nat \ {0} /\ ChunkLimit \in Nat \ {0}
ASSUME DelayAssumption == MaxDelay \in Nat /\ MaxLate \in Nat
ASSUME OutboxFaultsAssumption == MaxFaults \in Nat
ASSUME EventsAssumption == IsFiniteSet(Events)

VARIABLES
  state,      \* "none", "begun" (its SQL transaction runs), "pending", "published"
  due,        \* next_attempt_at
  locked,     \* locked_until is in the future
  clock,
  queue,      \* wallet-events.fifo, as accepted by the broker
  pc, batch, chunk, single, failed, sent,   \* a tick of each publisher
  faults

rows      == << state, due, locked, clock >>
publisher == << pc, batch, chunk, single, failed, sent >>
vars      == << rows, queue, publisher, faults >>

-----------------------------------------------------------------------------
(* Writers *)

\* A transaction of the service begins.
Begin(e) ==
  /\ state[e] = "none"
  /\ state' = [state EXCEPT ![e] = "begun"]
  /\ due' = [due EXCEPT ![e] = clock]
  /\ clock' = clock + 1
  /\ UNCHANGED << locked, queue, publisher, faults >>

\* outbox.Add becomes visible.  created_at and next_attempt_at are now(),
\* which in PostgreSQL is the instant the transaction began.
Add(e) ==
  /\ state[e] = "begun"
  /\ \A d \in Events : d.group = e.group /\ d.version < e.version =>
        state[d] \in {"pending", "published"}
  /\ state' = [state EXCEPT ![e] = "pending"]
  /\ UNCHANGED << due, locked, clock, queue, publisher, faults >>

-----------------------------------------------------------------------------
(* tick *)

Claimable(e) == state[e] = "pending" /\ ~locked[e]

\* The LIMIT rows that come first by next_attempt_at, of those that are due:
\* a row that is left out is not earlier than one that is taken.
FirstDue(S) ==
  /\ S \subseteq {e \in Events : Claimable(e)}
  /\ Cardinality(S) \in 1 .. BatchSize
  /\ \A e \in S, d \in Events : Claimable(d) /\ due[d] < due[e] => d \in S

Take(p, q) ==
  LET n == IF Len(q) < ChunkLimit THEN Len(q) ELSE ChunkLimit
  IN /\ chunk' = [chunk EXCEPT ![p] = SubSeq(q, 1, n)]
     /\ batch' = [batch EXCEPT ![p] = SubSeq(q, n + 1, Len(q))]
     /\ pc' = [pc EXCEPT ![p] = IF n = 0 THEN "idle" ELSE "send"]
     /\ single' = [single EXCEPT ![p] = n = 1]

\* Claim: UPDATE ... RETURNING, in no particular order, committed before the
\* first send.
Claim(p) ==
  /\ pc[p] = "idle"
  /\ \E S \in SUBSET Events :
       /\ FirstDue(S)
       /\ \E q \in SetToSeqs(S) : Take(p, q)
       /\ locked' = [e \in Events |-> locked[e] \/ e \in S]
  /\ UNCHANGED << state, due, clock, queue, failed, sent, faults >>

\* The broker appends what its deduplication window does not hold, in the
\* order of q: what it never had, and of the rest what has left the window.
Accept(q, S) ==
  \E late \in SUBSET (S \cap ToSet(queue)) :
    /\ Len(queue) - Cardinality(ToSet(queue)) + Cardinality(late) <= MaxLate
    /\ \E r \in SetToSeqs((S \ ToSet(queue)) \cup late) :
         /\ \A k, l \in DOMAIN r : k < l =>
              \E i, j \in DOMAIN q : i < j /\ q[i] = r[k] /\ q[j] = r[l]
         /\ queue' = queue \o r

\* PublishBatch: the entries that fail come back one by one.
PublishBatch(p) ==
  /\ pc[p] = "send" /\ ~single[p]
  /\ \E bad \in SUBSET ToSet(chunk[p]) :
       /\ faults' = faults + Cardinality(bad) /\ faults' <= MaxFaults
       /\ Accept(chunk[p], ToSet(chunk[p]) \ bad)
       /\ failed' = [failed EXCEPT ![p] = bad]
       /\ sent' = [sent EXCEPT ![p] = ToSet(chunk[p]) \ bad]
  /\ chunk' = [chunk EXCEPT ![p] = << >>]
  /\ pc' = [pc EXCEPT ![p] = "settle"]
  /\ UNCHANGED << rows, batch, single >>

\* The call fails, with or without effect: every record is sent on its own.
PublishBatchFails(p) ==
  /\ pc[p] = "send" /\ ~single[p]
  /\ faults < MaxFaults /\ faults' = faults + 1
  /\ Accept(chunk[p], ToSet(chunk[p])) \/ queue' = queue
  /\ single' = [single EXCEPT ![p] = TRUE]
  /\ UNCHANGED << rows, pc, batch, chunk, failed, sent >>

\* publishOne, of the next record of the chunk.
PublishOne(p) ==
  /\ pc[p] = "send" /\ single[p]
  /\ Accept(chunk[p], {Head(chunk[p])})
  /\ sent' = [sent EXCEPT ![p] = {Head(chunk[p])}]
  /\ chunk' = [chunk EXCEPT ![p] = Tail(chunk[p])]
  /\ pc' = [pc EXCEPT ![p] = "settle"]
  /\ UNCHANGED << rows, batch, single, failed, faults >>

\* The send returns an error although the broker may have the message.
PublishOneFails(p) ==
  /\ pc[p] = "send" /\ single[p]
  /\ faults < MaxFaults /\ faults' = faults + 1
  /\ Accept(chunk[p], {Head(chunk[p])}) \/ queue' = queue
  /\ failed' = [failed EXCEPT ![p] = {Head(chunk[p])}]
  /\ chunk' = [chunk EXCEPT ![p] = Tail(chunk[p])]
  /\ pc' = [pc EXCEPT ![p] = "settle"]
  /\ UNCHANGED << rows, batch, single, sent >>

\* Mutant of Reschedule: the failure is not struck off.
RescheduleAgain(p) ==
  /\ pc[p] = "settle"
  /\ \E e \in failed[p] :
       /\ \E b \in 0 .. MaxDelay : due' = [due EXCEPT ![e] = clock + b]
       /\ locked' = [locked EXCEPT ![e] = FALSE]
       /\ clock' = clock + 1
  /\ UNCHANGED << state, queue, publisher, faults >>

\* Reschedule: after a backoff, and for anyone.  It does not ask whose lease
\* it ends.
Reschedule(p) ==
  /\ pc[p] = "settle"
  /\ \E e \in failed[p] :
       /\ failed' = [failed EXCEPT ![p] = @ \ {e}]
       /\ IF state[e] = "published"
          THEN UNCHANGED << due, locked, clock >>
          ELSE /\ \E b \in 0 .. MaxDelay : due' = [due EXCEPT ![e] = clock + b]
               /\ locked' = [locked EXCEPT ![e] = FALSE]
               /\ clock' = clock + 1
  /\ UNCHANGED << state, queue, pc, batch, chunk, single, sent, faults >>

\* What is left of the chunk, then the rest of the batch.
GoOn(p) ==
  IF chunk[p] # << >>
  THEN pc' = [pc EXCEPT ![p] = "send"] /\ UNCHANGED << batch, chunk, single >>
  ELSE Take(p, batch[p])

\* Mutant of MarkPublished: marks the whole claim.
MarkPublishedAll(p) ==
  /\ pc[p] = "settle" /\ failed[p] = {}
  /\ state' = [e \in Events |-> IF e \in sent[p] \cup ToSet(chunk[p]) \cup ToSet(batch[p])
                                THEN "published" ELSE state[e]]
  /\ UNCHANGED << locked, due, clock, queue, faults, failed >>
  /\ sent' = [sent EXCEPT ![p] = {}]
  /\ GoOn(p)

\* MarkPublished and MarkPublishedBatch, after the failures are rescheduled.
MarkPublished(p) ==
  /\ pc[p] = "settle" /\ failed[p] = {}
  /\ state' = [e \in Events |-> IF e \in sent[p] THEN "published" ELSE state[e]]
  /\ locked' = [e \in Events |-> locked[e] /\ ~(e \in sent[p] /\ state[e] # "published")]
  /\ sent' = [sent EXCEPT ![p] = {}]
  /\ GoOn(p)
  /\ UNCHANGED << due, clock, queue, failed, faults >>

-----------------------------------------------------------------------------
(* Failures *)

\* The acknowledgement or the reschedule does not commit: logged and left to
\* the lease.
SettleFails(p) ==
  /\ pc[p] = "settle"
  /\ faults < MaxFaults /\ faults' = faults + 1
  /\ \/ /\ failed[p] # {}
        /\ \E e \in failed[p] : failed' = [failed EXCEPT ![p] = @ \ {e}]
        /\ UNCHANGED << pc, batch, chunk, single, sent >>
     \/ /\ failed[p] = {} /\ sent[p] # {}
        /\ sent' = [sent EXCEPT ![p] = {}]
        /\ GoOn(p)
        /\ UNCHANGED failed
  /\ UNCHANGED << rows, queue >>

\* The process dies or is stopped: the rows stay leased.
Crash(p) ==
  /\ pc[p] # "idle"
  /\ faults < MaxFaults /\ faults' = faults + 1
  /\ pc' = [pc EXCEPT ![p] = "idle"]
  /\ batch' = [batch EXCEPT ![p] = << >>]
  /\ chunk' = [chunk EXCEPT ![p] = << >>]
  /\ single' = [single EXCEPT ![p] = FALSE]
  /\ failed' = [failed EXCEPT ![p] = {}]
  /\ sent' = [sent EXCEPT ![p] = {}]
  /\ UNCHANGED << rows, queue >>

\* Mutant of Expire: the claim only takes rows whose locked_until is NULL.
ExpireUnseen(e) ==
  /\ locked[e]
  /\ UNCHANGED << rows, queue, publisher, faults >>

\* locked_until passes.
Expire(e) ==
  /\ locked[e]
  /\ locked' = [locked EXCEPT ![e] = FALSE]
  /\ UNCHANGED << state, due, clock, queue, publisher, faults >>

-----------------------------------------------------------------------------

Init ==
  /\ state = [e \in Events |-> "none"]
  /\ due = [e \in Events |-> 0]
  /\ locked = [e \in Events |-> FALSE]
  /\ clock = 1
  /\ queue = << >>
  /\ pc = [p \in Publishers |-> "idle"]
  /\ batch = [p \in Publishers |-> << >>]
  /\ chunk = [p \in Publishers |-> << >>]
  /\ single = [p \in Publishers |-> FALSE]
  /\ failed = [p \in Publishers |-> {}]
  /\ sent = [p \in Publishers |-> {}]
  /\ faults = 0

Work(p) ==
  \/ PublishBatch(p)
  \/ PublishOne(p)
  \/ Reschedule(p)
  \/ MarkPublished(p)

Next ==
  \/ \E e \in Events : Begin(e) \/ Add(e)
  \/ \E p \in Publishers : Claim(p)
  \/ \E p \in Publishers : Work(p)
  \/ \E p \in Publishers : PublishBatchFails(p) \/ PublishOneFails(p)
  \/ \E p \in Publishers : SettleFails(p) \/ Crash(p)
  \/ \E e \in Events : Expire(e)

Spec == Init /\ [][Next]_vars

-----------------------------------------------------------------------------

\* The rows and ticks have their shape; time only advances when a transaction
\* begins or a failed send is rescheduled, once for each.
TypeOK ==
  /\ state \in [Events -> {"none", "begun", "pending", "published"}]
  /\ due \in [Events -> 0 .. Cardinality(Events) + MaxFaults + MaxDelay]
  /\ locked \in [Events -> BOOLEAN]
  /\ clock \in 1 .. Cardinality(Events) + MaxFaults + 1
  /\ pc \in [Publishers -> {"idle", "send", "settle"}]
  /\ faults \in 0 .. MaxFaults

\* An event is marked published only when the broker has it, and the broker
\* has only committed events: no event is lost, and none is published before
\* its commit, however ticks, retries and crashes interleave.
PublishedIsDelivered ==
  /\ \A e \in Events : state[e] = "published" => Contains(queue, e)
  /\ \A k \in DOMAIN queue : state[queue[k]] \in {"pending", "published"}

\* What a tick still has to do: four steps for an event at most, and what
\* remains of the call it is in.
Remaining(p) ==
  4 * (Len(chunk[p]) + Len(batch[p])) + Cardinality(failed[p])
    + CASE pc[p] = "settle" -> 3 [] pc[p] = "send" -> (IF single[p] THEN 1 ELSE 2) [] OTHER -> 0

\* Every call of a tick, successful or not, ends the tick or leaves less of it:
\* a tick never takes more steps than its batch allows, whatever fails, so
\* failed sends never keep a publisher from its next claim.
TickAdvances ==
  [][\A p \in Publishers :
       \/ Work(p) \/ PublishBatchFails(p) \/ PublishOneFails(p) \/ SettleFails(p) \/ Crash(p)
       => pc'[p] = "idle" \/ Remaining(p)' < Remaining(p)]_vars

\* "MessageGroupId is the aggregate id (ordering per wallet/transaction)"
\* (publisher.go:28): the queue has the events of a wallet in version order.
GroupOrder ==
  \A k, l \in DOMAIN queue :
    k < l /\ queue[k].group = queue[l].group => queue[k].version <= queue[l].version

=============================================================================
