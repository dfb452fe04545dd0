----------------------------- MODULE SqsConsumer ----------------------------
(***************************************************************************)
(* The SQS consumer of internal/adapters/sqs: workers that poll            *)
(* wager-transactions.fifo, in any number of goroutines and processes.     *)
(*                                                                         *)
(* A message is [id, body, group, valid]: the messageId of its envelope,   *)
(* its content, its MessageGroupId, and whether the envelope, the          *)
(* idempotency key and the payload pass their checks.  ProcessIn is one    *)
(* atomic step here (WagerService has its interior): it commits the        *)
(* operation with its inbox row or nothing.                                *)
(*                                                                         *)
(* The queue is external.  Of SQS FIFO the model keeps what the consumer   *)
(* relies on: a received message is hidden until it is deleted or its      *)
(* visibility runs out, which may happen at any moment; a group with a     *)
(* hidden message delivers nothing; a message received MaxReceive times    *)
(* is redriven to the dead-letter queue.                                   *)
(***************************************************************************)
EXTENDS Integers, Sequences, FiniteSets, SequencesExt

CONSTANTS
  Workers,
  Messages,         \* [id, body, group, valid]
  Refused,          \* those that ProcessIn refuses for good: a conflict, no such wallet
  MaxMessages,      \* ReceiveMessage's MaxNumberOfMessages
  MaxReceive,       \* maxReceiveCount of the redrive policy
  MaxFaults         \* bound: failed or lost calls, rollbacks, crashes and stops

ASSUME QueueAssumption == MaxMessages \in Nat \ {0} /\ MaxReceive \in Nat \ {0}
ASSUME RefusedAssumption == Refused \subseteq Messages
ASSUME ConsumerFaultsAssumption == MaxFaults \in Nat

VARIABLES
  queue,      \* wager-transactions.fifo, in the order of the sends
  hidden,     \* the messages of the queue in flight
  receives,   \* ApproximateReceiveCount
  dlq,        \* wager-transactions-dlq.fifo, deduplicated by the SQS message id
  inbox,      \* table inbox_messages, with the message each row was recorded for
  running,    \* the worker's context is not cancelled
  pc, batch,  \* a worker's next call and its deliveries: [m, receipt]
  sent, done, \* history: the sends and the commits, in order
  faults

broker == << queue, hidden, receives, dlq, sent >>
vars   == << broker, inbox, done, running, pc, batch, faults >>

-----------------------------------------------------------------------------
(* The queue *)

Send(m) ==
  /\ ~Contains(sent, m)
  /\ sent' = Append(sent, m)
  /\ queue' = Append(queue, m)
  /\ UNCHANGED << hidden, receives, dlq, inbox, done, running, pc, batch, faults >>

\* The queue without m, which is in it at most once.
Without(m) ==
  IF Contains(queue, m) THEN RemoveAt(queue, CHOOSE k \in DOMAIN queue : queue[k] = m) ELSE queue

\* Not in flight, nor behind one of its group that is.
Available(m) == Contains(queue, m) /\ \A h \in hidden : h.group # m.group

\* What one ReceiveMessage may return: of every group a prefix.
Receivable(S) ==
  /\ Cardinality(S) \in 1 .. MaxMessages
  /\ \A m \in S : Available(m) /\ receives[m] < MaxReceive
  /\ \A k, l \in DOMAIN queue :
       k < l /\ queue[k].group = queue[l].group /\ queue[l] \in S => queue[k] \in S

\* The visibility timeout, or the backoff of ChangeMessageVisibility, is over.
Reappear(m) ==
  /\ m \in hidden
  /\ hidden' = hidden \ {m}
  /\ UNCHANGED << queue, receives, dlq, sent, inbox, done, running, pc, batch, faults >>

Redrive(m) ==
  /\ Available(m) /\ receives[m] = MaxReceive
  /\ dlq' = dlq \cup {m}
  /\ queue' = Without(m)
  /\ UNCHANGED << hidden, receives, sent, inbox, done, running, pc, batch, faults >>

\* q comes in the order of the queue.
InOrder(q) ==
  \A k, l \in DOMAIN q : k < l =>
    \E i, j \in DOMAIN queue : i < j /\ queue[i] = q[k] /\ queue[j] = q[l]

Received(S) ==
  /\ hidden' = hidden \cup S
  /\ receives' = [m \in Messages |-> IF m \in S THEN receives[m] + 1 ELSE receives[m]]
  /\ UNCHANGED << queue, dlq, sent >>

-----------------------------------------------------------------------------
(* loop *)

\* ReceiveMessage: the loop ends only at its head, so a stopped worker still
\* finishes its batch.
Receive(p) ==
  /\ pc[p] = "poll" /\ running[p]
  /\ \E S \in SUBSET Messages :
       /\ Receivable(S)
       /\ Received(S)
       /\ \E q \in SetToSeqs(S) :
            /\ InOrder(q)
            /\ batch' = [batch EXCEPT ![p] =
                           [k \in DOMAIN q |-> [m |-> q[k], receipt |-> receives[q[k]] + 1]]]
  /\ pc' = [pc EXCEPT ![p] = "handle"]
  /\ UNCHANGED << inbox, done, running, faults >>

\* The response is lost: the messages are in flight and nobody has them.
ReceiveFails(p) ==
  /\ pc[p] = "poll" /\ running[p]
  /\ faults < MaxFaults /\ faults' = faults + 1
  /\ \E S \in SUBSET Messages : Receivable(S) /\ Received(S)
  /\ UNCHANGED << inbox, done, running, pc, batch >>

Current(p) == Head(batch[p]).m

\* Mutant of NextMessage: polls again after the first message of a batch.
NextMessagePolls(p) ==
  /\ batch' = [batch EXCEPT ![p] = Tail(@)]
  /\ pc' = [pc EXCEPT ![p] = "poll"]

\* handle returns; the loop takes the next message whatever became of this one.
NextMessage(p) ==
  /\ batch' = [batch EXCEPT ![p] = Tail(@)]
  /\ pc' = [pc EXCEPT ![p] = IF Len(batch[p]) = 1 THEN "poll" ELSE "handle"]

-----------------------------------------------------------------------------
(* handle *)

\* Mutant of classify: an unknown error counts as done.
ClassifyDone(result) ==
  CASE result \in {"committed", "recorded"}           -> "delete"
    [] result \in {"invalid", "refused", "different"} -> "dead"
    [] OTHER                                          -> "delete"

\* Mutant of classify: an unknown error is permanent.
ClassifyPermanent(result) ==
  CASE result \in {"committed", "recorded"}           -> "delete"
    [] result \in {"invalid", "refused", "different"} -> "dead"
    [] OTHER                                          -> "dead"

classify(result) ==
  CASE result \in {"committed", "recorded"}           -> "delete"
    [] result \in {"invalid", "refused", "different"} -> "dead"
    [] OTHER                                          -> "retry"

Classified(p, result) == pc' = [pc EXCEPT ![p] = classify(result)]

Recorded(m) == \E n \in inbox : n.id = m.id

\* Mutant of Commits: no inbox row.
CommitsUnrecorded(m) ==
  /\ done' = Append(done, m)
  /\ inbox' = inbox

\* The transaction of uow.Do: the operation and its inbox row.
Commits(m) ==
  /\ done' = Append(done, m)
  /\ inbox' = inbox \cup {m}

Handle(p) ==
  LET m == Current(p)
  IN /\ pc[p] = "handle"
     /\ \/ /\ ~m.valid
           /\ Classified(p, "invalid")
           /\ UNCHANGED << inbox, done >>
        \/ /\ m.valid
           /\ \E n \in inbox : /\ n.id = m.id
                               /\ Classified(p, IF n.body = m.body THEN "recorded" ELSE "different")
           /\ UNCHANGED << inbox, done >>
        \/ /\ m.valid /\ ~Recorded(m) /\ m \in Refused
           /\ Classified(p, "refused")
           /\ UNCHANGED << inbox, done >>
        \/ /\ m.valid /\ ~Recorded(m) /\ m \notin Refused
           /\ Classified(p, "committed")
           /\ Commits(m)
     /\ UNCHANGED << broker, running, batch, faults >>

\* Any other error: the transaction rolled back, or it committed and the
\* acknowledgement was lost.
HandleFails(p) ==
  LET m == Current(p)
  IN /\ pc[p] = "handle" /\ m.valid
     /\ faults < MaxFaults /\ faults' = faults + 1
     /\ Classified(p, "error")
     /\ \/ UNCHANGED << inbox, done >>
        \/ ~Recorded(m) /\ m \notin Refused /\ Commits(m)
     /\ UNCHANGED << broker, running, batch >>

\* DeleteMessage.  With a receipt that a later delivery has replaced the
\* broker may or may not delete.
Delete(p) ==
  LET m == Current(p)
  IN /\ pc[p] = "delete"
     /\ \/ /\ queue' = Without(m)
           /\ hidden' = hidden \ {m}
        \/ /\ Head(batch[p]).receipt # receives[m] \/ m \notin hidden
           /\ UNCHANGED << queue, hidden >>
     /\ NextMessage(p)
     /\ UNCHANGED << receives, dlq, sent, inbox, done, running, faults >>

\* The call fails: logged, and the inbox absorbs the redelivery.
DeleteFails(p) ==
  /\ pc[p] = "delete"
  /\ faults < MaxFaults /\ faults' = faults + 1
  /\ NextMessage(p)
  /\ UNCHANGED << broker, inbox, done, running >>

\* deadLetter: the copy first, then the deletion.
deadLetter(p) ==
  /\ pc[p] = "dead"
  /\ dlq' = dlq \cup {Current(p)}
  /\ pc' = [pc EXCEPT ![p] = "delete"]
  /\ UNCHANGED << queue, hidden, receives, sent, inbox, done, running, batch, faults >>

\* The send fails, with or without effect: the message is left to redelivery.
deadLetterFails(p) ==
  /\ pc[p] = "dead"
  /\ faults < MaxFaults /\ faults' = faults + 1
  /\ dlq' \in {dlq, dlq \cup {Current(p)}}
  /\ NextMessage(p)
  /\ UNCHANGED << queue, hidden, receives, sent, inbox, done, running >>

\* Mutant of Retry: repeats ChangeMessageVisibility until it succeeds, which
\* it never does once the receipt has expired.
RetryInPlace(p) ==
  /\ pc[p] = "retry" /\ Current(p) \in hidden
  /\ NextMessage(p)
  /\ UNCHANGED << broker, inbox, done, running, faults >>

\* ChangeMessageVisibility only moves the moment of Reappear; its failure is
\* logged.
Retry(p) ==
  /\ pc[p] = "retry"
  /\ NextMessage(p)
  /\ UNCHANGED << broker, inbox, done, running, faults >>

-----------------------------------------------------------------------------
(* Lifecycle *)

\* Stop cancels the context.
Stop(p) ==
  /\ running[p]
  /\ faults < MaxFaults /\ faults' = faults + 1
  /\ running' = [running EXCEPT ![p] = FALSE]
  /\ UNCHANGED << broker, inbox, done, pc, batch >>

\* Start, of the next process.
Start(p) ==
  /\ ~running[p] /\ pc[p] = "poll"
  /\ running' = [running EXCEPT ![p] = TRUE]
  /\ UNCHANGED << broker, inbox, done, pc, batch, faults >>

\* The process dies between two calls (CrashAfterCommit), or its stop deadline
\* passes.
Crash(p) ==
  /\ pc[p] # "poll"
  /\ faults < MaxFaults /\ faults' = faults + 1
  /\ batch' = [batch EXCEPT ![p] = << >>]
  /\ pc' = [pc EXCEPT ![p] = "poll"]
  /\ UNCHANGED << broker, inbox, done, running >>

-----------------------------------------------------------------------------

Init ==
  /\ queue = << >> /\ sent = << >> /\ done = << >>
  /\ hidden = {} /\ dlq = {} /\ inbox = {}
  /\ receives = [m \in Messages |-> 0]
  /\ running = [p \in Workers |-> TRUE]
  /\ pc = [p \in Workers |-> "poll"]
  /\ batch = [p \in Workers |-> << >>]
  /\ faults = 0

\* The calls of one message.
Work(p) == Handle(p) \/ Delete(p) \/ deadLetter(p) \/ Retry(p)

Next ==
  \/ \E m \in Messages : Send(m) \/ Reappear(m) \/ Redrive(m)
  \/ \E p \in Workers : Receive(p) \/ Work(p) \/ Start(p)
  \/ \E p \in Workers : ReceiveFails(p) \/ HandleFails(p) \/ DeleteFails(p) \/ deadLetterFails(p)
  \/ \E p \in Workers : Stop(p) \/ Crash(p)

Spec == Init /\ [][Next]_vars

-----------------------------------------------------------------------------

\* The queues, the inbox and the workers have their shape: a worker polls only
\* with nothing left of its batch, and no receipt is newer than the broker's
\* count.
TypeOK ==
  /\ queue \in Seq(Messages) /\ sent \in Seq(Messages) /\ done \in Seq(Messages)
  /\ hidden \subseteq ToSet(queue) /\ dlq \subseteq Messages /\ inbox \subseteq Messages
  /\ receives \in [Messages -> 0 .. MaxReceive]
  /\ running \in [Workers -> BOOLEAN]
  /\ pc \in [Workers -> {"poll", "handle", "delete", "dead", "retry"}]
  /\ \A p \in Workers : pc[p] = "poll" <=> batch[p] = << >>
  /\ \A p \in Workers : \A k \in DOMAIN batch[p] :
       batch[p][k].receipt \in 1 .. receives[batch[p][k].m]
  /\ faults \in 0 .. MaxFaults

\* No message is lost, whatever calls fail and whichever worker dies when: it
\* is in the queue, in the dead-letter queue, or its operation is committed.
NothingLost ==
  \A m \in ToSet(sent) :
    Contains(queue, m) \/ m \in dlq \/ \E n \in inbox : n.id = m.id /\ n.body = m.body

\* However often a messageId is delivered, to however many workers, it is
\* processed once.
ProcessedOnce == \A k, l \in DOMAIN done : done[k].id = done[l].id => k = l

\* The dead-letter queue holds what can never be processed and what used up
\* its deliveries: a transient error alone does not put a message there.
DeadLettersExplained ==
  \A m \in dlq :
    \/ ~m.valid \/ m \in Refused
    \/ \E n \in inbox : n.id = m.id /\ n.body # m.body
    \/ receives[m] = MaxReceive

=============================================================================
