--------------------------- MODULE DeliveryProofs ---------------------------
(***************************************************************************)
(* Theorems about Delivery: workers and publishers around one database, in *)
(* any number, lose no message, and together implement Channel.            *)
(*                                                                         *)
(* The invariants of the two halves are those of SqsConsumerProofs and     *)
(* OutboxProofs, which are instantiated here as Delivery instantiates      *)
(* SqsConsumer and Outbox.                                                 *)
(***************************************************************************)
EXTENDS Delivery, SequenceTheorems, FiniteSetTheorems, TLAPS

C == INSTANCE SqsConsumerProofs
O == INSTANCE OutboxProofs WITH queue <- events, pc <- tick, batch <- claim, sent <- accepted

-----------------------------------------------------------------------------
(* Invariants *)

\* The operation is committed, for one message or for several.
Performed(operation) == \E k \in DOMAIN done : done[k].body = operation

\* The outbox has the events of the operations that are committed.
Matched == \A op \in Operations : Recorded(op) <=> Performed(op)

Inv == C!Inv /\ O!PublisherInv /\ Matched

-----------------------------------------------------------------------------
(* The instances *)

\* What is proved about the components is proved about the steps of Delivery.
LEMMA SameConsumer == (C!Init <=> Consumer!Init) /\ (C!Next <=> Consumer!Next)
<1>1. C!Init <=> Consumer!Init
  BY DEF C!Init, Consumer!Init
<1>2. C!Next <=> Consumer!Next
  BY Zenon DEF C!Next, Consumer!Next, C!Send, Consumer!Send, C!Reappear,
     Consumer!Reappear, C!Redrive, Consumer!Redrive, C!Receive, Consumer!Receive, C!Received,
     Consumer!Received, C!Receivable, Consumer!Receivable, C!Available, Consumer!Available,
     C!Without, Consumer!Without, C!RemoveAt, Consumer!RemoveAt, C!InOrder, Consumer!InOrder,
     C!Contains, Consumer!Contains, C!Cardinality, Consumer!Cardinality, C!SetToSeqs,
     Consumer!SetToSeqs, C!Work, Consumer!Work, C!Start, Consumer!Start, C!ReceiveFails,
     Consumer!ReceiveFails, C!HandleFails, Consumer!HandleFails, C!DeleteFails,
     Consumer!DeleteFails, C!deadLetterFails, Consumer!deadLetterFails, C!Stop,
     Consumer!Stop, C!Crash, Consumer!Crash, C!Handle, Consumer!Handle, C!Delete,
     Consumer!Delete, C!deadLetter, Consumer!deadLetter, C!Retry, Consumer!Retry,
     C!Classified, Consumer!Classified, C!classify, Consumer!classify, C!Recorded,
     Consumer!Recorded, C!Commits, Consumer!Commits, C!Current, Consumer!Current,
     C!NextMessage, Consumer!NextMessage, C!broker, Consumer!broker, C!vars, Consumer!vars
<1> QED
  BY <1>1, <1>2

LEMMA SameOutbox ==
  /\ O!Init <=> Outbox!Init
  /\ \A p : /\ O!Claim(p) <=> Outbox!Claim(p)
            /\ O!Work(p) <=> Outbox!Work(p)
            /\ O!PublishBatchFails(p) <=> Outbox!PublishBatchFails(p)
            /\ O!PublishOneFails(p) <=> Outbox!PublishOneFails(p)
            /\ O!SettleFails(p) <=> Outbox!SettleFails(p)
            /\ O!Crash(p) <=> Outbox!Crash(p)
  /\ \A e : O!Expire(e) <=> Outbox!Expire(e)
<1>1. O!Init <=> Outbox!Init
  BY DEF O!Init, Outbox!Init
<1>2. \A p : O!Claim(p) <=> Outbox!Claim(p)
  BY Zenon DEF O!Claim, Outbox!Claim, O!FirstDue, Outbox!FirstDue, O!Claimable,
     Outbox!Claimable, O!Cardinality, Outbox!Cardinality, O!SetToSeqs, Outbox!SetToSeqs,
     O!Take, Outbox!Take
<1>3. \A p : O!Work(p) <=> Outbox!Work(p)
  BY Zenon DEF O!Work, Outbox!Work, O!PublishBatch, Outbox!PublishBatch, O!PublishOne,
     Outbox!PublishOne, O!Reschedule, Outbox!Reschedule, O!MarkPublished,
     Outbox!MarkPublished, O!GoOn, Outbox!GoOn, O!Take, Outbox!Take, O!Accept, Outbox!Accept,
     O!ToSet, Outbox!ToSet, O!SetToSeqs, Outbox!SetToSeqs, O!Cardinality, Outbox!Cardinality,
     O!rows, Outbox!rows
<1>4. \A p : /\ O!PublishBatchFails(p) <=> Outbox!PublishBatchFails(p)
             /\ O!PublishOneFails(p) <=> Outbox!PublishOneFails(p)
             /\ O!SettleFails(p) <=> Outbox!SettleFails(p)
             /\ O!Crash(p) <=> Outbox!Crash(p)
  BY Zenon DEF O!PublishBatchFails, Outbox!PublishBatchFails, O!PublishOneFails,
     Outbox!PublishOneFails, O!SettleFails, Outbox!SettleFails, O!Crash, Outbox!Crash,
     O!GoOn, Outbox!GoOn, O!Take, Outbox!Take, O!Accept, Outbox!Accept, O!ToSet,
     Outbox!ToSet, O!SetToSeqs, Outbox!SetToSeqs, O!Cardinality, Outbox!Cardinality, O!rows,
     Outbox!rows
<1>5. \A e : O!Expire(e) <=> Outbox!Expire(e)
  BY Zenon DEF O!Expire, Outbox!Expire, O!rows, Outbox!rows, O!publisher, Outbox!publisher
<1> QED
  BY <1>1, <1>2, <1>3, <1>4, <1>5

\* The helpers of the instances are those of the community modules.
LEMMA SameHelpers ==
  \A s, x : /\ C!Contains(s, x) <=> Contains(s, x)
            /\ O!Contains(s, x) <=> Contains(s, x)
            /\ C!ToSet(s) = ToSet(s) /\ O!ToSet(s) = ToSet(s) /\ Abstract!ToSet(s) = ToSet(s)
  BY DEF C!Contains, O!Contains, Contains, C!ToSet, O!ToSet, Abstract!ToSet, ToSet

\* The assumptions of the two components, on this instance of theirs.
LEMMA Assumptions ==
  /\ MaxMessages \in Nat \ {0} /\ MaxReceive \in Nat \ {0}
  /\ BatchSize \in Nat \ {0} /\ ChunkLimit \in Nat \ {0}
  /\ MaxFaults \in Nat /\ MaxDelay \in Nat /\ MaxLate \in Nat /\ Refused \subseteq Messages
  /\ IsFiniteSet(Events) /\ O!IsFiniteSet(Events)
<1> DEFINE n == Cardinality(Moving)
           g == [m \in Messages |-> m.group]
           b == [m \in Messages |-> m.body]
           All == Operations \cup Groups
           f == [x \in All \X (0 .. n + 1) |-> [group |-> x[1], version |-> x[2]]]
           E == [group : All, version : 0 .. n + 1]
<1>1. IsFiniteSet(Operations) /\ IsFiniteSet(Groups)
  <2>1. g \in Surjection(Messages, Groups)
    BY DEF Surjection, Groups
  <2>2. b \in Surjection(Messages, Operations)
    BY DEF Surjection, Operations
  <2> QED
    BY <2>1, <2>2, MessagesAssumption, FS_Surjection
<1>2. n \in Nat
  <2>1. Moving \in SUBSET Operations
    BY OperationsAssumption DEF Operations
  <2> QED
    BY <1>1, <2>1, FS_Subset, FS_CardinalityType
<1>3. IsFiniteSet(All) /\ IsFiniteSet(0 .. n + 1)
  <2>1. IsFiniteSet(All)
    BY <1>1, FS_Union
  <2>2. 0 \in Int /\ n + 1 \in Int
    BY <1>2
  <2> QED
    BY <2>1, <2>2, FS_Interval
<1>4. IsFiniteSet(All \X (0 .. n + 1))
  <2> HIDE DEF All
  <2> QED
    BY <1>3, FS_Product
<1>5. f \in Surjection(All \X (0 .. n + 1), E)
  <2>1. f \in [All \X (0 .. n + 1) -> E]
    OBVIOUS
  <2>2. ASSUME NEW e \in E PROVE \E x \in All \X (0 .. n + 1) : f[x] = e
    <3>1. << e.group, e.version >> \in All \X (0 .. n + 1) /\ f[<< e.group, e.version >>] = e
      OBVIOUS
    <3> QED
      BY <3>1
  <2> QED
    BY <2>1, <2>2 DEF Surjection
<1>6. Events \in SUBSET E
  BY <1>2 DEF Events
<1>7. IsFiniteSet(Events)
  <2> HIDE DEF All, E, f
  <2>1. IsFiniteSet(E)
    BY <1>4, <1>5, FS_Surjection
  <2> QED
    BY <1>6, <2>1, FS_Subset
<1>8. O!IsFiniteSet(Events)
  BY <1>7, Zenon DEF IsFiniteSet, O!IsFiniteSet
<1> QED
  BY <1>7, <1>8, MessagesAssumption, SizesAssumption, FaultsAssumption

-----------------------------------------------------------------------------
(* Events *)

\* An operation has an event of its own.
LEMMA EventOfOperation ==
  /\ \A op \in Operations : TransactionEvent(op) \in Events
  /\ \A op, other : TransactionEvent(op) = TransactionEvent(other) => op = other
  BY DEF TransactionEvent, Events

\* It is not one of a wallet.
LEMMA EventOfWallet ==
  ASSUME NEW op \in Operations, NEW w \in Groups
  PROVE  TransactionEvent(op) # BalanceEvent(w)
  BY OperationsAssumption DEF TransactionEvent, BalanceEvent, Operations, Groups

\* Append adds the operation of its message.
LEMMA PerformedNext ==
  ASSUME done \in Seq(Messages), NEW m \in Messages, done' = Append(done, m)
  PROVE  \A op : Performed(op)' <=> Performed(op) \/ op = m.body
<1>1. Len(done) \in Nat /\ DOMAIN done = 1 .. Len(done)
  BY LenProperties
<1>2. /\ DOMAIN done' = 1 .. Len(done) + 1 /\ done'[Len(done) + 1] = m
      /\ \A k \in 1 .. Len(done) : done'[k] = done[k]
  BY AppendProperties, LenProperties
<1>3. \A k \in DOMAIN done' : k \in DOMAIN done \/ k = Len(done) + 1
  BY <1>1, <1>2
<1> QED
  BY <1>1, <1>2, <1>3 DEF Performed

-----------------------------------------------------------------------------
(* Steps *)

\* What the invariants of the workers say, in the words of Delivery.
LEMMA ConsumerFacts ==
  ASSUME C!Inv
  PROVE  /\ done \in Seq(Messages) /\ sent \in Seq(Messages) /\ dlq \subseteq ToSet(sent)
         /\ \A k, l \in DOMAIN done : done[k].id = done[l].id => k = l
         /\ faults \in 0 .. MaxFaults
<1>1. done \in Seq(Messages) /\ sent \in Seq(Messages) /\ faults \in 0 .. MaxFaults
  BY DEF C!Inv, C!TypeOK
<1>2. dlq \subseteq ToSet(sent)
  BY SameHelpers DEF C!Inv, C!OnlySent
<1>3. \A k, l \in DOMAIN done : done[k].id = done[l].id => k = l
  BY DEF C!Inv, C!ProcessedOnce
<1> QED
  BY <1>1, <1>2, <1>3

\* A step of a worker, and what can be seen of it.
LEMMA ConsumerStep ==
  ASSUME C!Inv, Consumer!Next
  PROVE  /\ C!Inv'
         /\ \/ UNCHANGED << sent, done, dlq >>
            \/ \E m \in Messages : /\ m \notin ToSet(sent) /\ ToSet(sent') = ToSet(sent) \cup {m}
                                   /\ UNCHANGED << done, dlq >>
            \/ \E m \in ToSet(sent) : /\ m \in Messages
                                      /\ \A k \in DOMAIN done : done[k].id # m.id
                                      /\ done' = Append(done, m) /\ UNCHANGED << sent, dlq >>
            \/ \E m \in ToSet(sent) : dlq' = dlq \cup {m} /\ UNCHANGED << sent, done >>
<1>1. [C!Next]_(C!vars)
  BY SameConsumer
<1>2. C!Inv'
  BY <1>1, Assumptions, C!InvStep
<1>3. C!TypeOK /\ C!BatchOK /\ C!InboxComplete /\ C!OnlySent
  BY DEF C!Inv
<1>4. C!ToSet(sent) = ToSet(sent) /\ C!ToSet(sent') = ToSet(sent')
  BY DEF C!ToSet, ToSet
<1>5. \/ UNCHANGED << sent, done, dlq >>
      \/ \E m \in Messages : /\ m \notin C!ToSet(sent)
                             /\ C!ToSet(sent') = C!ToSet(sent) \cup {m}
                             /\ UNCHANGED << done, dlq >>
      \/ \E m \in C!ToSet(sent) : /\ m \in Messages
                                  /\ \A k \in DOMAIN done : done[k].id # m.id
                                  /\ done' = C!Append(done, m) /\ UNCHANGED << sent, dlq >>
      \/ \E m \in C!ToSet(sent) : dlq' = dlq \cup {m} /\ UNCHANGED << sent, done >>
  BY <1>1, <1>3, Assumptions, C!Effects
<1> QED
  BY <1>2, <1>4, <1>5

\* What a commit leaves in the outbox: the event of its operation, which is
\* there already if another message asked for it, and every earlier row as it
\* was unless it is added now.
LEMMA RecordStep ==
  ASSUME Inv, NEW m \in Messages, done' = Append(done, m), Record(m)
  PROVE  /\ state' \in [Events -> {"none", "begun", "pending", "published"}]
         /\ due' \in [Events -> Nat] /\ clock' \in Nat \ {0}
         /\ \A d \in Events : O!Committed(d) => O!Committed(d)'
         /\ \A d \in Events : state'[d] = "published" => state[d] = "published"
         /\ Matched'
<1>1. O!Shape /\ Matched /\ done \in Seq(Messages)
  BY ConsumerFacts DEF Inv, O!PublisherInv
<1>2. /\ state \in [Events -> {"none", "begun", "pending", "published"}]
      /\ due \in [Events -> Nat] /\ clock \in Nat \ {0}
  BY <1>1 DEF O!Shape
<1>3. \A op : Performed(op)' <=> Performed(op) \/ op = m.body
  BY <1>1, PerformedNext
<1>4. m.body \in Operations /\ m.group \in Groups
  BY DEF Operations, Groups
<1>5. CASE Performed(m.body)
  <2>1. UNCHANGED << state, due, clock >>
    BY <1>5 DEF Record, Performed
  <2>2. \A op : (Performed(op)' <=> Performed(op)) /\ (Recorded(op)' <=> Recorded(op))
    BY <1>3, <1>5, <2>1 DEF Recorded
  <2> QED
    BY <1>1, <1>2, <2>1, <2>2 DEF Matched, O!Committed
<1>6. CASE ~Performed(m.body)
  <2> DEFINE added == {TransactionEvent(m.body)}
                        \cup (IF m.body \in Moving THEN {BalanceEvent(m.group)} ELSE {})
  <2>1. /\ state' = [e \in Events |-> IF e \in added THEN "pending" ELSE state[e]]
        /\ due' = [e \in Events |-> IF e \in added THEN clock ELSE due[e]]
        /\ clock' = clock + 1
    BY <1>6 DEF Record, Performed
  <2>2. \A op \in Operations : TransactionEvent(op) \in added <=> op = m.body
    BY <1>4, EventOfOperation, EventOfWallet
  <2> HIDE DEF added
  <2>3. \A d \in Events : state'[d] = IF d \in added THEN "pending" ELSE state[d]
    BY <2>1
  <2>4. /\ state' \in [Events -> {"none", "begun", "pending", "published"}]
        /\ due' \in [Events -> Nat] /\ clock' \in Nat \ {0}
    BY <1>2, <2>1
  <2>5. \A op \in Operations : Recorded(op)' <=> Recorded(op) \/ op = m.body
    BY <2>2, <2>3, EventOfOperation DEF Recorded
  <2> QED
    BY <1>1, <1>3, <2>3, <2>4, <2>5 DEF Matched, O!Committed
<1> QED
  BY <1>5, <1>6

\* Steps of the workers keep the invariant.
LEMMA ConsumeStep ==
  ASSUME Inv, Consume(Consumer!Next)
  PROVE  Inv'
<1>1. /\ Consumer!Next
      /\ UNCHANGED << locked, events, tick, claim, chunk, single, failed, accepted >>
  BY DEF Consume
<1>2. C!Inv' /\ faults' \in 0 .. MaxFaults
  <2>1. C!Inv'
    BY <1>1, ConsumerStep DEF Inv
  <2> QED
    BY <2>1 DEF C!Inv, C!TypeOK
<1>3. O!PublisherInv /\ O!Shape
  BY DEF Inv, O!PublisherInv
<1>4. UNCHANGED << locked, events, O!publisher >>
  BY <1>1 DEF O!publisher
<1>5. /\ state' \in [Events -> {"none", "begun", "pending", "published"}]
      /\ due' \in [Events -> Nat] /\ clock' \in Nat \ {0}
      /\ \A d \in Events : O!Committed(d) => O!Committed(d)'
      /\ \A d \in Events : state'[d] = "published" => state[d] = "published"
      /\ Matched'
  <2>1. CASE done' = done
    <3>1. UNCHANGED << state, due, clock >>
      BY <2>1 DEF Consume
    <3>2. Matched'
      BY <2>1, <3>1 DEF Inv, Matched, Performed, Recorded
    <3> QED
      BY <1>3, <3>1, <3>2 DEF O!Shape, O!Committed
  <2>2. CASE done' # done
    <3>1. PICK m \in Messages : done' = Append(done, m)
      BY <1>1, <2>2, ConsumerStep DEF Inv
    <3>2. Last(done') = m
      <4>1. done \in Seq(Messages)
        BY ConsumerFacts DEF Inv
      <4> QED
        BY <3>1, <4>1, AppendProperties DEF Last
    <3>3. Record(m)
      BY <2>2, <3>2 DEF Consume
    <3> QED
      BY <3>1, <3>3, RecordStep
  <2> QED
    BY <2>1, <2>2
<1>6. O!PublisherInv'
  BY <1>2, <1>3, <1>4, <1>5, Assumptions, O!RowStep
<1> QED
  BY <1>2, <1>5, <1>6 DEF Inv

\* The steps of the publishers, as Next has them.
Publishing ==
  \/ \E p \in Publishers : Outbox!Claim(p) \/ Outbox!Work(p)
  \/ \E p \in Publishers : Outbox!PublishBatchFails(p) \/ Outbox!PublishOneFails(p)
  \/ \E p \in Publishers : Outbox!SettleFails(p) \/ Outbox!Crash(p)
  \/ \E e \in Events : Outbox!Expire(e)

\* Steps of the publishers keep the invariant; they commit nothing, and the
\* broker keeps what it has.
LEMMA PublishStep ==
  ASSUME Inv, Publishing, UNCHANGED consumer
  PROVE  Inv' /\ ToSet(events) \subseteq ToSet(events')
<1>0. O!PublisherInv /\ C!Inv /\ Matched
  BY DEF Inv
<1>1. \/ \E p \in Publishers : O!Claim(p) \/ O!Work(p)
      \/ \E p \in Publishers : O!PublishBatchFails(p) \/ O!PublishOneFails(p)
      \/ \E p \in Publishers : O!SettleFails(p) \/ O!Crash(p)
      \/ \E e \in Events : O!Expire(e)
  BY SameOutbox DEF Publishing
<1>2. O!PublisherInv'
  BY <1>0, <1>1, Assumptions, O!PublisherStep
<1>3. /\ \A e \in Events : O!Committed(e)' <=> O!Committed(e)
      /\ O!ToSet(events) \subseteq O!ToSet(events')
  BY <1>0, <1>1, Assumptions, O!PublisherEffects
<1>4. ToSet(events) \subseteq ToSet(events')
  BY <1>3 DEF O!ToSet, ToSet
<1>5. faults' \in 0 .. MaxFaults
  BY <1>2 DEF O!PublisherInv, O!Shape
<1>6. UNCHANGED << queue, hidden, receives, dlq, inbox, running, pc, batch, sent, done >>
  BY DEF consumer
<1>7. C!Inv'
  <2>1. C!TypeOK'
    BY <1>0, <1>5, <1>6 DEF C!Inv, C!TypeOK
  <2>2. /\ C!BatchOK' /\ C!CallsJustified' /\ C!InboxComplete' /\ C!OnlySent'
        /\ C!NothingLost' /\ C!ProcessedOnce' /\ C!DeadLettersExplained'
    BY <1>0, <1>6
    DEF C!Inv, C!BatchOK, C!CallsJustified, C!Handled, C!Hopeless, C!Current, C!InboxComplete,
        C!OnlySent, C!NothingLost, C!ProcessedOnce, C!DeadLettersExplained
  <2> QED
    BY <2>1, <2>2 DEF C!Inv
<1>8. Matched'
  <2>1. \A op \in Operations : Recorded(op)' <=> Recorded(op)
    BY <1>3, EventOfOperation DEF Recorded, O!Committed
  <2> QED
    BY <1>0, <1>6, <2>1 DEF Matched, Performed
<1> QED
  BY <1>2, <1>4, <1>7, <1>8 DEF Inv

-----------------------------------------------------------------------------
(* Theorems *)

\* Inv is inductive, so it holds throughout: the basis of the theorems below.
THEOREM Invariance == Spec => []Inv
<1>1. Init => Inv
  <2> SUFFICES ASSUME Init PROVE Inv
    OBVIOUS
  <2>1. C!Init /\ O!Init
    BY SameConsumer, SameOutbox DEF Init
  <2>2. C!Inv
    BY <2>1, Assumptions, C!InitInv
  <2>3. O!PublisherInv
    BY <2>1, Assumptions, O!InitInv DEF O!Inv
  <2>4. Matched
    BY <2>1, EventOfOperation DEF C!Init, O!Init, Matched, Recorded, Performed
  <2> QED
    BY <2>2, <2>3, <2>4 DEF Inv
<1>2. Inv /\ [Next]_vars => Inv'
  <2> SUFFICES ASSUME Inv, [Next]_vars PROVE Inv'
    OBVIOUS
  <2>1. CASE Consume(Consumer!Next)
    BY <2>1, ConsumeStep
  <2>2. CASE Publish(Publishing)
    BY <2>2, PublishStep DEF Publish
  <2>3. CASE UNCHANGED vars
    <3>1. [C!Next]_(C!vars) /\ UNCHANGED << locked, events, O!publisher >>
      BY <2>3 DEF vars, consumer, outbox, C!vars, C!broker, O!publisher
    <3>2. C!Inv'
      BY <3>1, Assumptions, C!InvStep DEF Inv
    <3>3. UNCHANGED << state, due, clock, faults, done >>
      BY <2>3 DEF vars, consumer, outbox
    <3>4. O!PublisherInv /\ O!Shape
      BY DEF Inv, O!PublisherInv
    <3>5. /\ state' \in [Events -> {"none", "begun", "pending", "published"}]
          /\ due' \in [Events -> Nat] /\ clock' \in Nat \ {0} /\ faults' \in 0 .. MaxFaults
          /\ \A d \in Events : O!Committed(d) => O!Committed(d)'
          /\ \A d \in Events : state'[d] = "published" => state[d] = "published"
      BY <3>3, <3>4 DEF O!Shape, O!Committed
    <3>6. O!PublisherInv'
      BY <3>1, <3>4, <3>5, Assumptions, O!RowStep
    <3>7. Matched'
      BY <3>3 DEF Inv, Matched, Performed, Recorded
    <3> QED
      BY <3>2, <3>6, <3>7 DEF Inv
  <2> QED
    BY <2>1, <2>2, <2>3 DEF Next, Publishing
<1> QED
  BY <1>1, <1>2, PTL DEF Spec

\* A message that has left the queue is in the dead-letter queue or the event
\* of its operation is in the outbox, and no such event is there without a
\* commit, with any number of workers and publishers, whatever calls fail,
\* whoever crashes and however often an operation is sent.
THEOREM NothingIsLost == Spec => []NoMessageWithoutEvent
<1>1. Inv => NoMessageWithoutEvent
  <2> SUFFICES ASSUME Inv PROVE NoMessageWithoutEvent
    OBVIOUS
  <2>1. C!Inv /\ Matched /\ sent \in Seq(Messages)
    BY ConsumerFacts DEF Inv
  <2>2. ASSUME NEW m \in ToSet(sent), ~Contains(queue, m), m \notin dlq
        PROVE  Recorded(m.body)
    <3>1. m \in C!ToSet(sent) /\ ~C!Contains(queue, m)
      BY <2>2, SameHelpers
    <3>2. PICK n \in inbox : n.id = m.id /\ n.body = m.body
      BY <2>1, <2>2, <3>1 DEF C!Inv, C!NothingLost
    <3>3. PICK k \in DOMAIN done : done[k] = n
      BY <2>1 DEF C!Inv, C!InboxComplete, C!ToSet
    <3>4. m.body \in Operations
      BY <2>1 DEF ToSet, Operations
    <3> QED
      BY <2>1, <3>2, <3>3, <3>4 DEF Matched, Performed
  <2> QED
    BY <2>1, <2>2 DEF NoMessageWithoutEvent, Matched, Performed
<1> QED
  BY <1>1, Invariance, PTL

\* The operations whose event the broker has.
AnnouncedOperations == {op \in Operations : Contains(events, TransactionEvent(op))}

\* Every step of Delivery is a step of Channel, or nothing that Channel shows.
LEMMA ChannelStep ==
  ASSUME Inv, [Next]_vars
  PROVE  [Abstract!Next]_(Abstract!vars)
<1>0. C!Inv /\ done \in Seq(Messages) /\ ToSet(done) = {done[k] : k \in DOMAIN done}
  BY ConsumerFacts DEF Inv, ToSet
<1>1. CASE Consume(Consumer!Next)
  <2>1. Consumer!Next /\ UNCHANGED events
    BY <1>1 DEF Consume
  <2>2. AnnouncedOperations' = AnnouncedOperations
    BY <2>1 DEF AnnouncedOperations
  <2>3. CASE UNCHANGED << sent, done, dlq >>
    BY <2>2, <2>3 DEF Abstract!vars, AnnouncedOperations
  <2>4. CASE \E m \in Messages : /\ m \notin ToSet(sent) /\ ToSet(sent') = ToSet(sent) \cup {m}
                                 /\ UNCHANGED << done, dlq >>
    BY <2>2, <2>4 DEF Abstract!Next, Abstract!Submit, AnnouncedOperations
  <2>5. CASE \E m \in ToSet(sent) : /\ m \in Messages
                                    /\ \A k \in DOMAIN done : done[k].id # m.id
                                    /\ done' = Append(done, m) /\ UNCHANGED << sent, dlq >>
    <3>1. PICK m \in Messages : /\ m \in ToSet(sent)
                                /\ \A k \in DOMAIN done : done[k].id # m.id
                                /\ done' = Append(done, m) /\ UNCHANGED << sent, dlq >>
      BY <2>5
    <3> QED
      BY <2>2, <3>1 DEF Abstract!Next, Abstract!Apply, AnnouncedOperations
  <2>6. CASE \E m \in ToSet(sent) : dlq' = dlq \cup {m} /\ UNCHANGED << sent, done >>
    <3>1. PICK m \in ToSet(sent) : dlq' = dlq \cup {m} /\ UNCHANGED << sent, done >>
      BY <2>6
    <3>2. CASE m \in dlq
      BY <2>2, <3>1, <3>2 DEF Abstract!vars, AnnouncedOperations
    <3>3. CASE m \notin dlq
      <4>1. m \in Messages
        BY <1>0, ConsumerFacts DEF ToSet
      <4> QED
        BY <2>2, <3>1, <3>3, <4>1 DEF Abstract!Next, Abstract!PutAside, AnnouncedOperations
    <3> QED
      BY <3>2, <3>3
  <2> QED
    BY <1>0, <2>1, <2>3, <2>4, <2>5, <2>6, ConsumerStep
<1>2. CASE Publish(Publishing)
  <2>1. UNCHANGED << sent, done, dlq >> /\ ToSet(events) \subseteq ToSet(events') /\ Inv'
    BY <1>2, PublishStep DEF Publish, consumer
  <2>2. events \in Seq(Events) /\ events' \in Seq(Events)
    BY <2>1 DEF Inv, O!PublisherInv, O!Shape
  <2>3. \A x : Contains(events, x) => Contains(events', x)
    BY <2>1, <2>2 DEF Contains, ToSet
  <2>4. /\ AnnouncedOperations \subseteq AnnouncedOperations'
        /\ AnnouncedOperations' \subseteq {m.body : m \in ToSet(done)}
    <3>1. \A k \in DOMAIN events' : state'[events'[k]] \in {"pending", "published"}
      BY <2>1 DEF Inv, O!PublisherInv, O!PublishedIsDelivered
    <3>2. \A op \in AnnouncedOperations' : op \in Operations /\ Recorded(op)'
      BY <2>2, <3>1 DEF AnnouncedOperations, Contains, Recorded
    <3>3. \A op \in AnnouncedOperations' : Performed(op)'
      BY <2>1, <3>2 DEF Inv, Matched
    <3>4. AnnouncedOperations' \subseteq {m.body : m \in ToSet(done)}
      BY <2>1, <3>3 DEF Performed, ToSet
    <3> QED
      BY <2>3, <3>4 DEF AnnouncedOperations
  <2>5. CASE AnnouncedOperations' = AnnouncedOperations
    BY <2>1, <2>5 DEF Abstract!vars, AnnouncedOperations
  <2>6. CASE AnnouncedOperations' # AnnouncedOperations
    <3> DEFINE S == AnnouncedOperations' \ AnnouncedOperations
    <3>1. /\ S \in SUBSET ({m.body : m \in ToSet(done)} \ AnnouncedOperations) /\ S # {}
          /\ AnnouncedOperations' = AnnouncedOperations \cup S
      BY <2>4, <2>6
    <3>2. Abstract!ToSet(done) = ToSet(done)
      BY SameHelpers
    <3> HIDE DEF S
    <3> QED
      BY <2>1, <3>1, <3>2 DEF Abstract!Next, Abstract!Announce, AnnouncedOperations
  <2> QED
    BY <2>5, <2>6
<1>3. CASE UNCHANGED vars
  BY <1>3 DEF vars, consumer, outbox, Abstract!vars
<1> QED
  BY <1>1, <1>2, <1>3 DEF Next, Publishing

\* Workers and publishers together implement Channel: every messageId is
\* applied at most once, only what was submitted, and only what is applied is
\* announced, for every instance.
THEOREM Refinement == Spec => ImplementsChannel
<1>1. Init => Abstract!Init
  <2> SUFFICES ASSUME Init PROVE Abstract!Init
    OBVIOUS
  <2>1. sent = << >> /\ done = << >> /\ dlq = {} /\ events = << >>
    BY DEF Init, Consumer!Init, Outbox!Init
  <2>2. ToSet(sent) = {} /\ \A e : ~Contains(events, e)
    BY <2>1 DEF ToSet, Contains
  <2> QED
    BY <2>1, <2>2 DEF Abstract!Init
<1>2. Inv /\ [Next]_vars => [Abstract!Next]_(Abstract!vars)
  BY ChannelStep
<1> QED
  BY <1>1, <1>2, Invariance, PTL DEF Spec, ImplementsChannel, Abstract!Spec

=============================================================================
