------------------------- MODULE SqsConsumerProofs --------------------------
(***************************************************************************)
(* Theorems about SqsConsumer for every set of workers and messages, every *)
(* size of batches, every redrive policy and any number of failures.       *)
(***************************************************************************)
EXTENDS SqsConsumer, SequenceTheorems, TLAPS

-----------------------------------------------------------------------------
(* Invariants *)

\* A worker's batch is a sequence of deliveries.
BatchOK == batch \in [Workers -> Seq([m : Messages, receipt : Nat])]

\* m is committed, by this delivery or by another of the same content.
Handled(m) == \E n \in inbox : n.id = m.id /\ n.body = m.body

\* A message that no delivery can process: what classify calls permanent.
Hopeless(m) ==
  \/ ~m.valid \/ m \in Refused
  \/ \E n \in inbox : n.id = m.id /\ n.body # m.body

\* A worker deletes only what is committed or copied to the dead-letter queue,
\* and it copies only what is hopeless.
CallsJustified ==
  \A p \in Workers :
    /\ pc[p] = "delete" => Handled(Current(p)) \/ Current(p) \in dlq
    /\ pc[p] = "dead" => Hopeless(Current(p))

\* Every commit has its inbox row, and every row its commit.
InboxComplete == inbox = ToSet(done)

\* Nothing is delivered, committed or put aside that was not sent.
OnlySent ==
  /\ ToSet(queue) \subseteq ToSet(sent) /\ dlq \subseteq ToSet(sent)
  /\ \A p \in Workers : \A k \in DOMAIN batch[p] : batch[p][k].m \in ToSet(sent)

Inv ==
  /\ TypeOK /\ BatchOK
  /\ CallsJustified /\ InboxComplete /\ OnlySent
  /\ NothingLost /\ ProcessedOnce /\ DeadLettersExplained

-----------------------------------------------------------------------------
(* Sequences *)

\* Contains and ToSet say the same of a sequence.
LEMMA ContainsIsMember ==
  ASSUME NEW T, NEW q \in Seq(T), NEW x
  PROVE  Contains(q, x) <=> x \in ToSet(q)
  BY DEF Contains, ToSet

\* Append adds one element.
LEMMA AppendKeeps ==
  ASSUME NEW T, NEW q \in Seq(T), NEW x \in T
  PROVE  /\ Append(q, x) \in Seq(T)
         /\ ToSet(Append(q, x)) = ToSet(q) \cup {x}
<1>1. /\ Append(q, x) \in Seq(T) /\ Len(Append(q, x)) = Len(q) + 1
      /\ Append(q, x)[Len(q) + 1] = x
      /\ \A i \in 1 .. Len(q) : Append(q, x)[i] = q[i]
  BY AppendProperties
<1>2. ToSet(q) = {q[i] : i \in 1 .. Len(q)} /\ Len(q) \in Nat
  BY DEF ToSet
<1>3. ToSet(Append(q, x)) = {Append(q, x)[i] : i \in 1 .. Len(q) + 1}
  BY <1>1 DEF ToSet
<1> QED
  BY <1>1, <1>2, <1>3

\* Without(m) takes nothing but m away.
LEMMA WithoutKeeps ==
  ASSUME queue \in Seq(Messages), NEW m
  PROVE  /\ Without(m) \in Seq(Messages)
         /\ \A x : x # m => (Contains(queue, x) <=> Contains(Without(m), x))
         /\ \A x : Contains(Without(m), x) => Contains(queue, x)
<1>1. CASE ~Contains(queue, m)
  BY <1>1 DEF Without
<1>2. CASE Contains(queue, m)
  <2> DEFINE k == CHOOSE k \in DOMAIN queue : queue[k] = m
             a == SubSeq(queue, 1, k - 1)
             b == SubSeq(queue, k + 1, Len(queue))
  <2>1. k \in 1 .. Len(queue) /\ queue[k] = m
    BY <1>2 DEF Contains
  <2>2. Without(m) = a \o b
    BY <1>2 DEF Without, RemoveAt
  <2> HIDE DEF k
  <2>3. a \in Seq(Messages) /\ Len(a) = k - 1 /\ \A i \in 1 .. k - 1 : a[i] = queue[i]
    BY <2>1, SubSeqProperties
  <2>4. /\ b \in Seq(Messages) /\ Len(b) = Len(queue) - k
        /\ \A i \in 1 .. Len(queue) - k : b[i] = queue[k + i]
    BY <2>1, SubSeqProperties
  <2> HIDE DEF a, b
  <2> DEFINE c == a \o b
  <2>5. c \in Seq(Messages) /\ Len(c) = Len(queue) - 1
    BY <2>1, <2>3, <2>4, ConcatProperties
  <2>6. \A i \in 1 .. Len(a) + Len(b) : c[i] = IF i <= Len(a) THEN a[i] ELSE b[i - Len(a)]
    BY <2>3, <2>4, ConcatProperties
  <2>7. \A i \in 1 .. Len(queue) - 1 : c[i] = IF i < k THEN queue[i] ELSE queue[i + 1]
    <3> SUFFICES ASSUME NEW i \in 1 .. Len(queue) - 1
                 PROVE  c[i] = IF i < k THEN queue[i] ELSE queue[i + 1]
      OBVIOUS
    <3> HIDE DEF c
    <3>0. i \in 1 .. Len(a) + Len(b)
      BY <2>1, <2>3, <2>4
    <3>1. CASE i < k
      <4>1. i <= Len(a) /\ a[i] = queue[i]
        BY <2>1, <2>3, <3>1
      <4> QED
        BY <2>6, <3>0, <3>1, <4>1
    <3>2. CASE ~(i < k)
      <4>1. i - (k - 1) \in 1 .. Len(queue) - k /\ k + (i - (k - 1)) = i + 1
        BY <2>1, <3>2
      <4>2. b[i - (k - 1)] = queue[i + 1]
        BY <2>4, <4>1
      <4>3. ~(i <= Len(a)) /\ i - Len(a) = i - (k - 1)
        BY <2>1, <2>3, <3>2
      <4> QED
        BY <2>6, <3>0, <3>2, <4>2, <4>3
    <3> QED
      BY <3>1, <3>2
  <2>8. c = Without(m)
    BY <2>2
  <2> HIDE DEF c
  <2>9. ASSUME NEW x, Contains(c, x) PROVE Contains(queue, x)
    <3>1. PICK i \in 1 .. Len(queue) - 1 : c[i] = x
      BY <2>5, <2>9 DEF Contains
    <3>2. \E j \in 1 .. Len(queue) : queue[j] = x
      BY <3>1, <2>1, <2>7
    <3> QED
      BY <3>2 DEF Contains
  <2>10. ASSUME NEW x, x # m, Contains(queue, x) PROVE Contains(c, x)
    <3>1. PICK i \in 1 .. Len(queue) : queue[i] = x
      BY <2>10 DEF Contains
    <3>2. i # k
      BY <2>1, <2>10, <3>1
    <3>3. CASE i < k
      <4>1. i \in 1 .. Len(queue) - 1 /\ c[i] = x
        BY <2>1, <2>7, <3>1, <3>3
      <4> QED
        BY <2>5, <4>1 DEF Contains
    <3>4. CASE i > k
      <4>1. i - 1 \in 1 .. Len(queue) - 1 /\ ~(i - 1 < k) /\ (i - 1) + 1 = i
        BY <2>1, <3>1, <3>4
      <4>2. c[i - 1] = x
        BY <2>7, <3>1, <4>1
      <4> QED
        BY <2>5, <4>1, <4>2 DEF Contains
    <3> QED
      BY <2>1, <3>1, <3>2, <3>3, <3>4
  <2> QED
    BY <2>5, <2>8, <2>9, <2>10
<1> QED
  BY <1>1, <1>2

-----------------------------------------------------------------------------
(* Types *)

\* The deliveries of one call are a batch: every message with its new count.
LEMMA DeliveriesType ==
  ASSUME TypeOK, NEW S \in SUBSET Messages, Receivable(S), NEW q \in SetToSeqs(S)
  PROVE  LET b == [k \in DOMAIN q |-> [m |-> q[k], receipt |-> receives[q[k]] + 1]]
         IN /\ b \in Seq([m : Messages, receipt : Nat]) /\ b # << >>
            /\ \A k \in DOMAIN b : b[k].m \in S /\ b[k].receipt = receives[b[k].m] + 1
<1> DEFINE n == Cardinality(S)
           b == [k \in DOMAIN q |-> [m |-> q[k], receipt |-> receives[q[k]] + 1]]
<1>1. n \in Nat /\ n >= 1
  BY QueueAssumption DEF Receivable
<1>2. q \in [1 .. n -> S]
  BY DEF SetToSeqs
<1>3. \A k \in 1 .. n : q[k] \in S /\ q[k] \in Messages /\ receives[q[k]] \in Nat
  BY <1>2 DEF TypeOK
<1> HIDE DEF n
<1>4. b \in [1 .. n -> [m : Messages, receipt : Nat]]
  BY <1>2, <1>3
<1>5. b \in Seq([m : Messages, receipt : Nat]) /\ Len(b) = n
  BY <1>1, <1>4
<1>6. b # << >>
  BY <1>1, <1>5
<1>7. \A k \in DOMAIN b : b[k].m \in S /\ b[k].receipt = receives[b[k].m] + 1
  BY <1>2, <1>3
<1> QED
  BY <1>5, <1>6, <1>7

\* ReceiveMessage, on the side of the broker.
LEMMA ReceivedType ==
  ASSUME TypeOK, NEW S \in SUBSET Messages, Receivable(S), Received(S)
  PROVE  /\ hidden' \subseteq ToSet(queue')
         /\ receives' \in [Messages -> 0 .. MaxReceive]
         /\ \A m \in Messages : receives'[m] >= receives[m]
         /\ \A m \in S : receives'[m] = receives[m] + 1
<1>1. \A m \in S : m \in ToSet(queue) /\ receives[m] < MaxReceive
  <2>1. \A m \in S : Contains(queue, m) /\ receives[m] < MaxReceive
    BY DEF Receivable, Available
  <2>2. queue \in Seq(Messages)
    BY DEF TypeOK
  <2> QED
    BY <2>1, <2>2, ContainsIsMember
<1>2. receives \in [Messages -> 0 .. MaxReceive] /\ MaxReceive \in Nat
  BY QueueAssumption DEF TypeOK
<1>3. hidden' \subseteq ToSet(queue')
  BY <1>1 DEF Received, TypeOK
<1>4. receives' = [m \in Messages |-> IF m \in S THEN receives[m] + 1 ELSE receives[m]]
  BY DEF Received
<1> QED
  BY <1>1, <1>2, <1>3, <1>4

\* A delivery of a batch is a message with a receipt.
LEMMA DeliveryType ==
  ASSUME BatchOK, NEW w \in Workers, NEW k \in DOMAIN batch[w]
  PROVE  batch[w][k].m \in Messages /\ batch[w][k].receipt \in Nat
<1>1. batch[w] \in Seq([m : Messages, receipt : Nat])
  BY DEF BatchOK
<1>2. k \in 1 .. Len(batch[w])
  BY <1>1
<1>3. batch[w][k] \in [m : Messages, receipt : Nat]
  BY <1>1, <1>2, ElementOfSeq
<1> QED
  BY <1>3

\* The head of a batch that is not empty.
LEMMA CurrentType ==
  ASSUME TypeOK, BatchOK, NEW p \in Workers, pc[p] # "poll"
  PROVE  /\ Current(p) \in Messages
         /\ Len(batch[p]) >= 1
         /\ Tail(batch[p]) \in Seq([m : Messages, receipt : Nat])
         /\ Len(Tail(batch[p])) = Len(batch[p]) - 1
         /\ \A k \in DOMAIN Tail(batch[p]) : k + 1 \in DOMAIN batch[p] /\ Tail(batch[p])[k] = batch[p][k + 1]
<1>1. batch[p] \in Seq([m : Messages, receipt : Nat]) /\ batch[p] # << >>
  BY DEF TypeOK, BatchOK
<1>2. Head(batch[p]) \in [m : Messages, receipt : Nat]
  BY <1>1, HeadTailProperties
<1> QED
  BY <1>1, <1>2, HeadTailProperties DEF Current

\* Going on to the next message keeps the batches in order.
LEMMA NextMessageType ==
  ASSUME TypeOK, BatchOK, NEW p \in Workers, pc[p] # "poll", NextMessage(p),
         UNCHANGED receives
  PROVE  /\ BatchOK'
         /\ pc' \in [Workers -> {"poll", "handle", "delete", "dead", "retry"}]
         /\ \A w \in Workers : pc'[w] = "poll" <=> batch'[w] = << >>
         /\ \A w \in Workers : \A k \in DOMAIN batch'[w] :
              batch'[w][k].receipt \in 1 .. receives'[batch'[w][k].m]
<1> DEFINE t == Tail(batch[p])
<1>1. /\ t \in Seq([m : Messages, receipt : Nat])
      /\ Len(batch[p]) >= 1 /\ Len(t) = Len(batch[p]) - 1
      /\ \A k \in DOMAIN t : k + 1 \in DOMAIN batch[p] /\ t[k] = batch[p][k + 1]
  BY CurrentType
<1>2. /\ batch' = [batch EXCEPT ![p] = t]
      /\ pc' = [pc EXCEPT ![p] = IF Len(batch[p]) = 1 THEN "poll" ELSE "handle"]
  BY DEF NextMessage
<1> HIDE DEF t
<1>3. Len(batch[p]) = 1 <=> t = << >>
  BY <1>1 DEF BatchOK
<1>4. BatchOK'
  BY <1>1, <1>2 DEF BatchOK
<1>5. pc' \in [Workers -> {"poll", "handle", "delete", "dead", "retry"}]
  BY <1>2 DEF TypeOK
<1>6. \A w \in Workers : pc'[w] = "poll" <=> batch'[w] = << >>
  BY <1>2, <1>3 DEF TypeOK, BatchOK
<1>7. \A w \in Workers : \A k \in DOMAIN batch'[w] :
        batch'[w][k].receipt \in 1 .. receives'[batch'[w][k].m]
  <2> SUFFICES ASSUME NEW w \in Workers, NEW k \in DOMAIN batch'[w]
               PROVE  batch'[w][k].receipt \in 1 .. receives[batch'[w][k].m]
    OBVIOUS
  <2>1. \A i \in DOMAIN batch[w] : batch[w][i].receipt \in 1 .. receives[batch[w][i].m]
    BY DEF TypeOK
  <2>2. CASE w = p
    <3>1. batch'[w] = t
      BY <1>2, <2>2 DEF BatchOK
    <3>2. k + 1 \in DOMAIN batch[w] /\ batch'[w][k] = batch[w][k + 1]
      BY <1>1, <2>2, <3>1
    <3> QED
      BY <2>1, <3>2
  <2>3. CASE w # p
    <3>1. batch'[w] = batch[w]
      BY <1>2, <2>3 DEF BatchOK
    <3> QED
      BY <2>1, <3>1
  <2> QED
    BY <2>2, <2>3
<1> QED
  BY <1>4, <1>5, <1>6, <1>7

\* Every step keeps the types.
LEMMA TypeStep ==
  ASSUME TypeOK, BatchOK, [Next]_vars
  PROVE  TypeOK' /\ BatchOK'
<1> DEFINE Labels == {"poll", "handle", "delete", "dead", "retry"}
<1>1. ASSUME NEW m \in Messages, Send(m) PROVE TypeOK' /\ BatchOK'
  <2>0. queue \in Seq(Messages) /\ sent \in Seq(Messages)
    BY DEF TypeOK
  <2>1. /\ queue' \in Seq(Messages) /\ sent' \in Seq(Messages)
        /\ ToSet(queue) \subseteq ToSet(queue')
    BY <1>1, <2>0, AppendProperties, AppendKeeps DEF Send
  <2> QED
    BY <1>1, <2>1 DEF Send, TypeOK, BatchOK
<1>2. ASSUME NEW m \in Messages, Reappear(m) PROVE TypeOK' /\ BatchOK'
  BY <1>2 DEF Reappear, TypeOK, BatchOK
<1>3. ASSUME NEW m \in Messages, Redrive(m) PROVE TypeOK' /\ BatchOK'
  <2>1. m \notin hidden
    BY <1>3 DEF Redrive, Available
  <2>2. queue' = Without(m) /\ queue' \in Seq(Messages)
    BY <1>3, WithoutKeeps DEF Redrive, TypeOK
  <2>3. hidden \subseteq ToSet(queue')
    BY <2>1, <2>2, WithoutKeeps, ContainsIsMember DEF TypeOK
  <2> QED
    BY <1>3, <2>2, <2>3 DEF Redrive, TypeOK, BatchOK
<1>4. ASSUME NEW p \in Workers, Receive(p) PROVE TypeOK' /\ BatchOK'
  <2>1. PICK S \in SUBSET Messages :
          /\ Receivable(S) /\ Received(S)
          /\ \E q \in SetToSeqs(S) :
               batch' = [batch EXCEPT ![p] =
                           [k \in DOMAIN q |-> [m |-> q[k], receipt |-> receives[q[k]] + 1]]]
    BY <1>4 DEF Receive
  <2>2. PICK q \in SetToSeqs(S) :
          batch' = [batch EXCEPT ![p] =
                      [k \in DOMAIN q |-> [m |-> q[k], receipt |-> receives[q[k]] + 1]]]
    BY <2>1
  <2> DEFINE b == [k \in DOMAIN q |-> [m |-> q[k], receipt |-> receives[q[k]] + 1]]
  <2>3. /\ b \in Seq([m : Messages, receipt : Nat]) /\ b # << >>
        /\ \A k \in DOMAIN b : b[k].m \in S /\ b[k].receipt = receives[b[k].m] + 1
    BY <2>1, DeliveriesType
  <2>4. batch' = [batch EXCEPT ![p] = b]
    BY <2>2
  <2> HIDE DEF b
  <2>5. /\ hidden' \subseteq ToSet(queue')
        /\ receives' \in [Messages -> 0 .. MaxReceive]
        /\ \A m \in Messages : receives'[m] >= receives[m]
        /\ \A m \in S : receives'[m] = receives[m] + 1
    BY <2>1, ReceivedType
  <2>6. BatchOK'
    BY <2>3, <2>4 DEF BatchOK
  <2>7. pc' = [pc EXCEPT ![p] = "handle"] /\ UNCHANGED << inbox, done, running, faults, queue, dlq, sent >>
    BY <1>4, <2>1 DEF Receive, Received
  <2>8. \A w \in Workers : pc'[w] = "poll" <=> batch'[w] = << >>
    BY <2>3, <2>4, <2>7 DEF TypeOK, BatchOK
  <2>9. ASSUME NEW w \in Workers, NEW k \in DOMAIN batch'[w]
        PROVE  batch'[w][k].receipt \in 1 .. receives'[batch'[w][k].m]
    <3>1. CASE w = p
      <4>1. batch'[w] = b
        BY <2>4, <3>1 DEF BatchOK
      <4>2. b[k].m \in S /\ b[k].receipt = receives[b[k].m] + 1 /\ b[k].m \in Messages
        BY <2>3, <2>9, <4>1
      <4> QED
        BY <2>5, <4>1, <4>2 DEF TypeOK
    <3>2. CASE w # p
      <4>1. batch'[w] = batch[w]
        BY <2>4, <3>2 DEF BatchOK
      <4>2. batch[w][k].receipt \in 1 .. receives[batch[w][k].m] /\ batch[w][k].m \in Messages
        BY <2>9, <4>1, DeliveryType DEF TypeOK
      <4>3. /\ receives'[batch[w][k].m] >= receives[batch[w][k].m]
            /\ receives[batch[w][k].m] \in Nat /\ receives'[batch[w][k].m] \in Nat
        BY <2>5, <4>2, QueueAssumption DEF TypeOK
      <4> QED
        BY <4>1, <4>2, <4>3
    <3> QED
      BY <3>1, <3>2
  <2> QED
    BY <2>5, <2>6, <2>7, <2>8, <2>9 DEF TypeOK
<1>5. ASSUME NEW p \in Workers, ReceiveFails(p) PROVE TypeOK' /\ BatchOK'
  <2>1. PICK S \in SUBSET Messages : Receivable(S) /\ Received(S)
    BY <1>5 DEF ReceiveFails
  <2>2. /\ hidden' \subseteq ToSet(queue')
        /\ receives' \in [Messages -> 0 .. MaxReceive]
        /\ \A m \in Messages : receives'[m] >= receives[m]
    BY <2>1, ReceivedType
  <2>3. UNCHANGED << inbox, done, running, pc, batch, queue, dlq, sent >> /\ faults' \in 0 .. MaxFaults
    BY <1>5, <2>1, ConsumerFaultsAssumption DEF ReceiveFails, Received, TypeOK
  <2>4. ASSUME NEW w \in Workers, NEW k \in DOMAIN batch[w]
        PROVE  batch[w][k].receipt \in 1 .. receives'[batch[w][k].m]
    <3>1. batch[w][k].receipt \in 1 .. receives[batch[w][k].m] /\ batch[w][k].m \in Messages
      BY <2>4, DeliveryType DEF TypeOK
    <3>2. /\ receives'[batch[w][k].m] >= receives[batch[w][k].m]
          /\ receives[batch[w][k].m] \in Nat /\ receives'[batch[w][k].m] \in Nat
      BY <2>2, <3>1, QueueAssumption DEF TypeOK
    <3> QED
      BY <3>1, <3>2
  <2> QED
    BY <2>2, <2>3, <2>4 DEF TypeOK, BatchOK
<1>6. ASSUME NEW p \in Workers, NEW l \in Labels \ {"poll"}, pc[p] # "poll",
             pc' = [pc EXCEPT ![p] = l], UNCHANGED << broker, running, batch >>,
             faults' \in 0 .. MaxFaults,
             UNCHANGED << inbox, done >> \/ Commits(Current(p))
      PROVE  TypeOK' /\ BatchOK'
  <2>1. inbox' \subseteq Messages /\ done' \in Seq(Messages)
    <3>1. CASE UNCHANGED << inbox, done >>
      BY <3>1 DEF TypeOK
    <3>2. CASE Commits(Current(p))
      <4>1. Current(p) \in Messages
        BY <1>6, CurrentType
      <4> QED
        BY <3>2, <4>1, AppendProperties DEF Commits, TypeOK
    <3> QED
      BY <1>6, <3>1, <3>2
  <2> QED
    BY <1>6, <2>1 DEF TypeOK, BatchOK, broker
<1>7. ASSUME NEW p \in Workers, Handle(p) PROVE TypeOK' /\ BatchOK'
  <2>1. /\ pc[p] = "handle" /\ UNCHANGED << broker, running, batch, faults >>
        /\ \E result : Classified(p, result)
        /\ UNCHANGED << inbox, done >> \/ Commits(Current(p))
    BY <1>7 DEF Handle
  <2>2. \E l \in Labels \ {"poll"} : pc' = [pc EXCEPT ![p] = l]
    BY <2>1 DEF Classified, classify
  <2> QED
    BY <1>6, <2>1, <2>2 DEF TypeOK, broker
<1>8. ASSUME NEW p \in Workers, HandleFails(p) PROVE TypeOK' /\ BatchOK'
  <2>1. /\ pc[p] = "handle" /\ UNCHANGED << broker, running, batch >>
        /\ Classified(p, "error") /\ faults < MaxFaults /\ faults' = faults + 1
        /\ UNCHANGED << inbox, done >> \/ Commits(Current(p))
    BY <1>8 DEF HandleFails
  <2>2. \E l \in Labels \ {"poll"} : pc' = [pc EXCEPT ![p] = l]
    BY <2>1 DEF Classified, classify
  <2>3. faults' \in 0 .. MaxFaults
    BY <2>1, ConsumerFaultsAssumption DEF TypeOK
  <2> QED
    BY <1>6, <2>1, <2>2, <2>3 DEF TypeOK, broker
<1>9. ASSUME NEW p \in Workers, Delete(p) PROVE TypeOK' /\ BatchOK'
  <2>1. /\ pc[p] = "delete" /\ NextMessage(p)
        /\ UNCHANGED << receives, dlq, sent, inbox, done, running, faults >>
    BY <1>9 DEF Delete
  <2>2. queue' \in Seq(Messages) /\ hidden' \subseteq ToSet(queue')
    <3>1. CASE queue' = Without(Current(p)) /\ hidden' = hidden \ {Current(p)}
      BY <3>1, WithoutKeeps, ContainsIsMember DEF TypeOK
    <3>2. CASE UNCHANGED << queue, hidden >>
      BY <3>2 DEF TypeOK
    <3> QED
      BY <1>9, <3>1, <3>2 DEF Delete
  <2> QED
    BY <2>1, <2>2, NextMessageType DEF TypeOK
<1>10. ASSUME NEW p \in Workers, DeleteFails(p) \/ Retry(p) \/ deadLetterFails(p)
       PROVE  TypeOK' /\ BatchOK'
  <2>1. /\ pc[p] \in {"delete", "dead", "retry"} /\ NextMessage(p)
        /\ UNCHANGED << queue, hidden, receives, sent, inbox, done, running >>
        /\ dlq' \in {dlq, dlq \cup {Current(p)}}
        /\ faults' = faults \/ (faults < MaxFaults /\ faults' = faults + 1)
    BY <1>10 DEF DeleteFails, Retry, deadLetterFails, broker
  <2>2. dlq' \subseteq Messages
    BY <2>1, CurrentType DEF TypeOK
  <2>3. faults' \in 0 .. MaxFaults
    BY <2>1, ConsumerFaultsAssumption DEF TypeOK
  <2> QED
    BY <2>1, <2>2, <2>3, NextMessageType DEF TypeOK
<1>11. ASSUME NEW p \in Workers, deadLetter(p) PROVE TypeOK' /\ BatchOK'
  <2>1. Current(p) \in Messages
    BY <1>11, CurrentType DEF deadLetter
  <2> QED
    BY <1>11, <2>1 DEF deadLetter, TypeOK, BatchOK
<1>12. ASSUME NEW p \in Workers, Stop(p) \/ Start(p) PROVE TypeOK' /\ BatchOK'
  <2>1. faults' \in 0 .. MaxFaults
    BY <1>12, ConsumerFaultsAssumption DEF Stop, Start, TypeOK
  <2>2. running' \in [Workers -> BOOLEAN]
    BY <1>12 DEF Stop, Start, TypeOK
  <2> QED
    BY <1>12, <2>1, <2>2 DEF Stop, Start, TypeOK, BatchOK, broker
<1>13. ASSUME NEW p \in Workers, Crash(p) PROVE TypeOK' /\ BatchOK'
  <2>1. faults' \in 0 .. MaxFaults
    BY <1>13, ConsumerFaultsAssumption DEF Crash, TypeOK
  <2>2. BatchOK' /\ pc' \in [Workers -> Labels]
    BY <1>13, EmptySeq DEF Crash, TypeOK, BatchOK
  <2>3. \A w \in Workers : pc'[w] = "poll" <=> batch'[w] = << >>
    BY <1>13 DEF Crash, TypeOK, BatchOK
  <2>4. ASSUME NEW w \in Workers, NEW k \in DOMAIN batch'[w]
        PROVE  batch'[w][k].receipt \in 1 .. receives'[batch'[w][k].m]
    <3>1. UNCHANGED receives /\ batch'[w] \in {batch[w], << >>}
      BY <1>13 DEF Crash, BatchOK, broker
    <3>2. batch'[w] # << >>
      BY <2>4
    <3> QED
      BY <2>4, <3>1, <3>2 DEF TypeOK
  <2> QED
    BY <1>13, <2>1, <2>2, <2>3, <2>4 DEF Crash, TypeOK, broker
<1>14. CASE UNCHANGED vars
  BY <1>14 DEF vars, broker, TypeOK, BatchOK
<1> QED
  BY <1>1, <1>2, <1>3, <1>4, <1>5, <1>7, <1>8, <1>9, <1>10, <1>11, <1>12, <1>13, <1>14
  DEF Next, Work

-----------------------------------------------------------------------------
(* What a step leaves as it was *)

\* Rows of the inbox, dead letters and receive counts are there for good.
LEMMA OnlyGrow ==
  ASSUME TypeOK, BatchOK, [Next]_vars
  PROVE  /\ inbox \subseteq inbox' /\ dlq \subseteq dlq'
         /\ \A m \in Messages : receives[m] = MaxReceive => receives'[m] = MaxReceive
<1>1. inbox \subseteq inbox'
  BY DEF Next, vars, broker, Send, Reappear, Redrive, Receive, Work, Start, ReceiveFails,
         HandleFails, DeleteFails, deadLetterFails, Stop, Crash, Handle, Delete, deadLetter,
         Retry, Commits
<1>2. dlq \subseteq dlq'
  BY DEF Next, vars, broker, Send, Reappear, Redrive, Receive, Received, Work, Start,
         ReceiveFails, HandleFails, DeleteFails, deadLetterFails, Stop, Crash, Handle,
         Delete, deadLetter, Retry
<1>3. ASSUME NEW m \in Messages, receives[m] = MaxReceive PROVE receives'[m] = MaxReceive
  <2>1. UNCHANGED receives \/ \E S \in SUBSET Messages : Receivable(S) /\ Received(S)
    BY DEF Next, vars, broker, Send, Reappear, Redrive, Receive, Work, Start, ReceiveFails,
           HandleFails, DeleteFails, deadLetterFails, Stop, Crash, Handle, Delete,
           deadLetter, Retry
  <2>2. CASE \E S \in SUBSET Messages : Receivable(S) /\ Received(S)
    <3>1. PICK S \in SUBSET Messages : Receivable(S) /\ Received(S)
      BY <2>2
    <3>2. m \notin S
      BY <1>3, <3>1, QueueAssumption DEF Receivable
    <3> QED
      BY <1>3, <3>1, <3>2 DEF Received
  <2> QED
    BY <1>3, <2>1, <2>2
<1> QED
  BY <1>1, <1>2, <1>3

\* So what a message is, it stays.
LEMMA VerdictsHold ==
  ASSUME TypeOK, BatchOK, [Next]_vars, NEW m
  PROVE  (Handled(m) => Handled(m)') /\ (Hopeless(m) => Hopeless(m)')
  BY OnlyGrow DEF Handled, Hopeless

\* The broker's queue loses a message only to a redrive or to a deletion.
LEMMA QueueKeeps ==
  ASSUME TypeOK, BatchOK, [Next]_vars, NEW m, Contains(queue, m)
  PROVE  \/ Contains(queue', m)
         \/ Redrive(m)
         \/ \E p \in Workers : Delete(p) /\ m = Current(p)
<1>0. queue \in Seq(Messages)
  BY DEF TypeOK
<1>1. CASE \E n \in Messages : Send(n)
  <2>1. PICK n \in Messages : queue' = Append(queue, n)
    BY <1>1 DEF Send
  <2>2. queue' \in Seq(Messages) /\ ToSet(queue') = ToSet(queue) \cup {n}
    BY <1>0, <2>1, AppendKeeps
  <2> QED
    BY <1>0, <2>2, ContainsIsMember
<1>2. CASE \E n \in Messages : Redrive(n)
  <2>1. PICK n \in Messages : Redrive(n)
    BY <1>2
  <2> QED
    BY <1>0, <2>1, WithoutKeeps DEF Redrive
<1>3. CASE \E p \in Workers : Delete(p)
  <2>1. PICK p \in Workers : Delete(p)
    BY <1>3
  <2>2. queue' = queue \/ queue' = Without(Current(p))
    BY <2>1 DEF Delete
  <2> QED
    BY <1>0, <2>1, <2>2, WithoutKeeps
<1>4. CASE UNCHANGED queue
  BY <1>4
<1> QED
  BY <1>1, <1>2, <1>3, <1>4
  DEF Next, vars, broker, Send, Reappear, Receive, Received, Work, Start, ReceiveFails,
      HandleFails, DeleteFails, deadLetterFails, Stop, Crash, Handle, deadLetter, Retry

-----------------------------------------------------------------------------
(* The verdicts of the workers *)

\* What Handle leaves to do is right: delete what is committed, copy what no
\* delivery can process.
LEMMA HandleJustified ==
  ASSUME TypeOK, BatchOK, NEW p \in Workers, Handle(p)
  PROVE  /\ batch'[p] = batch[p]
         /\ pc'[p] = "delete" => Handled(Current(p))'
         /\ pc'[p] = "dead" => Hopeless(Current(p))'
<1> DEFINE m == Current(p)
<1>0. batch' = batch /\ m' = m
  BY DEF Handle, Current
<1>1. \A result : Classified(p, result) => pc'[p] = classify(result)
  BY DEF Classified, TypeOK
<1>2. CASE ~m.valid /\ Classified(p, "invalid")
  BY <1>0, <1>1, <1>2 DEF classify, Hopeless
<1>3. CASE /\ UNCHANGED inbox
           /\ \E n \in inbox : /\ n.id = m.id
                               /\ Classified(p, IF n.body = m.body THEN "recorded" ELSE "different")
  <2>1. PICK n \in inbox : /\ n.id = m.id
                           /\ Classified(p, IF n.body = m.body THEN "recorded" ELSE "different")
    BY <1>3
  <2>2. CASE n.body = m.body
    BY <1>0, <1>1, <1>3, <2>1, <2>2 DEF classify, Handled
  <2>3. CASE n.body # m.body
    BY <1>0, <1>1, <1>3, <2>1, <2>3 DEF classify, Hopeless
  <2> QED
    BY <2>2, <2>3
<1>4. CASE m \in Refused /\ Classified(p, "refused")
  BY <1>0, <1>1, <1>4 DEF classify, Hopeless
<1>5. CASE Classified(p, "committed") /\ Commits(m)
  BY <1>0, <1>1, <1>5 DEF classify, Handled, Commits
<1> QED
  BY <1>0, <1>2, <1>3, <1>4, <1>5 DEF Handle

\* Every worker's next call stays justified while others go on.
LEMMA CallsStep ==
  ASSUME TypeOK, BatchOK, CallsJustified, [Next]_vars
  PROVE  CallsJustified'
<1> SUFFICES ASSUME NEW w \in Workers
             PROVE  /\ pc'[w] = "delete" => Handled(Current(w))' \/ Current(w)' \in dlq'
                    /\ pc'[w] = "dead" => Hopeless(Current(w))'
  BY DEF CallsJustified
<1>1. CASE pc'[w] = pc[w] /\ batch'[w] = batch[w]
  <2>1. Current(w)' = Current(w)
    BY <1>1 DEF Current
  <2>2. /\ Handled(Current(w)) => Handled(Current(w))'
        /\ Hopeless(Current(w)) => Hopeless(Current(w))'
    <3>1. \A m : (Handled(m) => Handled(m)') /\ (Hopeless(m) => Hopeless(m)')
      BY VerdictsHold
    <3> QED
      BY <2>1, <3>1 DEF Handled, Hopeless
  <2> QED
    BY <1>1, <2>1, <2>2, OnlyGrow DEF CallsJustified
<1>2. CASE pc'[w] \in {"poll", "handle", "retry"}
  BY <1>2
<1>3. CASE Handle(w)
  BY <1>3, HandleJustified
<1>4. CASE deadLetter(w)
  BY <1>4 DEF deadLetter, Current, TypeOK
<1>5. \/ pc'[w] = pc[w] /\ batch'[w] = batch[w]
      \/ pc'[w] \in {"poll", "handle", "retry"}
      \/ Handle(w) \/ deadLetter(w)
  <2>1. CASE UNCHANGED << pc, batch >>
    BY <2>1
  <2>2. CASE \E p \in Workers : Receive(p) \/ NextMessage(p) \/ Crash(p)
    BY <2>2 DEF Receive, NextMessage, Crash, TypeOK, BatchOK
  <2>3. CASE \E p \in Workers : HandleFails(p)
    BY <2>3 DEF HandleFails, Classified, classify, TypeOK
  <2>4. CASE \E p \in Workers : Handle(p)
    <3>1. PICK p \in Workers : Handle(p)
      BY <2>4
    <3>2. CASE p = w
      BY <3>1, <3>2
    <3>3. CASE p # w
      BY <3>1, <3>3 DEF Handle, Classified, TypeOK
    <3> QED
      BY <3>2, <3>3
  <2>5. CASE \E p \in Workers : deadLetter(p)
    <3>1. PICK p \in Workers : deadLetter(p)
      BY <2>5
    <3>2. CASE p = w
      BY <3>1, <3>2
    <3>3. CASE p # w
      BY <3>1, <3>3 DEF deadLetter, TypeOK
    <3> QED
      BY <3>2, <3>3
  <2> QED
    BY <2>1, <2>2, <2>3, <2>4, <2>5
    DEF Next, vars, broker, Send, Reappear, Redrive, Work, Start, ReceiveFails, DeleteFails,
        deadLetterFails, Stop, Delete, Retry
<1> QED
  BY <1>1, <1>2, <1>3, <1>4, <1>5

-----------------------------------------------------------------------------
(* The inbox *)

\* A commit finds no row of its messageId and leaves one, so no messageId
\* is committed twice.
LEMMA InboxStep ==
  ASSUME TypeOK, BatchOK, InboxComplete, ProcessedOnce, [Next]_vars
  PROVE  InboxComplete' /\ ProcessedOnce'
<1>1. CASE UNCHANGED << inbox, done >>
  BY <1>1 DEF InboxComplete, ProcessedOnce
<1>2. CASE \E p \in Workers : pc[p] = "handle" /\ ~Recorded(Current(p)) /\ Commits(Current(p))
  <2>1. PICK m \in Messages : ~Recorded(m) /\ Commits(m)
    BY <1>2, CurrentType
  <2>2. done \in Seq(Messages)
    BY DEF TypeOK
  <2>3. /\ done' \in Seq(Messages) /\ Len(done') = Len(done) + 1
        /\ \A i \in 1 .. Len(done) : done'[i] = done[i]
        /\ done'[Len(done) + 1] = m
    BY <2>1, <2>2, AppendProperties DEF Commits
  <2>4. inbox' = inbox \cup {m} /\ \A n \in inbox : n.id # m.id
    BY <2>1 DEF Commits, Recorded
  <2>5. DOMAIN done = 1 .. Len(done) /\ DOMAIN done' = 1 .. Len(done) + 1 /\ Len(done) \in Nat
    BY <2>2, <2>3
  <2>6. \A i \in 1 .. Len(done) : done'[i].id # m.id
    BY <2>3, <2>4, <2>5 DEF InboxComplete, ToSet
  <2>7. InboxComplete'
    <3>1. ToSet(done') = ToSet(done) \cup {m}
      BY <2>1, <2>2, AppendKeeps DEF Commits
    <3> QED
      BY <2>4, <3>1 DEF InboxComplete
  <2>8. ProcessedOnce'
    <3> SUFFICES ASSUME NEW k \in 1 .. Len(done) + 1, NEW l \in 1 .. Len(done) + 1,
                        done'[k].id = done'[l].id
                 PROVE  k = l
      BY <2>5 DEF ProcessedOnce
    <3>1. CASE k = Len(done) + 1 \/ l = Len(done) + 1
      BY <2>3, <2>5, <2>6, <3>1
    <3>2. CASE k \in 1 .. Len(done) /\ l \in 1 .. Len(done)
      BY <2>3, <2>5, <3>2 DEF ProcessedOnce
    <3> QED
      BY <2>5, <3>1, <3>2
  <2> QED
    BY <2>7, <2>8
<1> QED
  BY <1>1, <1>2
  DEF Next, vars, broker, Send, Reappear, Redrive, Receive, Work, Start, ReceiveFails,
      HandleFails, DeleteFails, deadLetterFails, Stop, Crash, Handle, Delete, deadLetter, Retry

-----------------------------------------------------------------------------
(* Loss and dead letters *)

\* A message leaves the queue only committed or copied.
LEMMA LossStep ==
  ASSUME TypeOK, BatchOK, CallsJustified, NothingLost, [Next]_vars
  PROVE  NothingLost'
<1> SUFFICES ASSUME NEW m \in ToSet(sent')
             PROVE  Contains(queue', m) \/ m \in dlq' \/ Handled(m)'
  BY DEF NothingLost, Handled
<1>0. queue \in Seq(Messages) /\ sent \in Seq(Messages)
  BY DEF TypeOK
<1>1. CASE m \notin ToSet(sent)
  <2>1. PICK n \in Messages : Send(n)
    BY <1>1
    DEF Next, vars, broker, Reappear, Redrive, Receive, Received, Work, Start, ReceiveFails,
        HandleFails, DeleteFails, deadLetterFails, Stop, Crash, Handle, Delete, deadLetter,
        Retry
  <2>2. m = n /\ queue' \in Seq(Messages) /\ m \in ToSet(queue')
    BY <1>0, <1>1, <2>1, AppendKeeps DEF Send
  <2> QED
    BY <2>2, ContainsIsMember
<1>2. CASE m \in ToSet(sent)
  <2>1. Contains(queue, m) \/ m \in dlq \/ Handled(m)
    BY <1>2 DEF NothingLost, Handled
  <2>2. CASE m \in dlq \/ Handled(m)
    BY <2>2, OnlyGrow, VerdictsHold
  <2>3. CASE Contains(queue, m)
    <3>1. CASE Redrive(m)
      BY <3>1 DEF Redrive
    <3>2. CASE \E p \in Workers : Delete(p) /\ m = Current(p)
      <4>1. m \in dlq \/ Handled(m)
        BY <3>2 DEF Delete, CallsJustified
      <4> QED
        BY <4>1, OnlyGrow, VerdictsHold
    <3> QED
      BY <2>3, <3>1, <3>2, QueueKeeps
  <2> QED
    BY <2>1, <2>2, <2>3
<1> QED
  BY <1>1, <1>2

\* A dead letter is a message that no delivery can process, or one that used
\* up its deliveries.
LEMMA DeadLetterStep ==
  ASSUME TypeOK, BatchOK, CallsJustified, DeadLettersExplained, [Next]_vars
  PROVE  DeadLettersExplained'
<1> SUFFICES ASSUME NEW m \in dlq'
             PROVE  Hopeless(m)' \/ receives'[m] = MaxReceive
  BY DEF DeadLettersExplained, Hopeless
<1>1. m \in Messages
  BY TypeStep DEF TypeOK
<1>2. Hopeless(m) \/ receives[m] = MaxReceive
  <2>1. CASE m \in dlq
    BY <2>1 DEF DeadLettersExplained, Hopeless
  <2>2. CASE m \notin dlq
    <3>1. Redrive(m) \/ \E p \in Workers : pc[p] = "dead" /\ m = Current(p)
      BY <2>2
      DEF Next, vars, broker, Send, Reappear, Redrive, Receive, Received, Work, Start,
          ReceiveFails, HandleFails, DeleteFails, deadLetterFails, Stop, Crash, Handle,
          Delete, deadLetter, Retry
    <3> QED
      BY <3>1 DEF Redrive, CallsJustified
  <2> QED
    BY <2>1, <2>2
<1> QED
  BY <1>1, <1>2, OnlyGrow, VerdictsHold

-----------------------------------------------------------------------------
(* What a step does to the messages *)

\* Of all that a step may do, four things can be seen from outside: nothing,
\* a message sent, one committed, or one put aside.
LEMMA Effects ==
  ASSUME TypeOK, BatchOK, InboxComplete, OnlySent, [Next]_vars
  PROVE  \/ UNCHANGED << sent, done, dlq >>
         \/ \E m \in Messages : /\ m \notin ToSet(sent) /\ ToSet(sent') = ToSet(sent) \cup {m}
                                /\ UNCHANGED << done, dlq >>
         \/ \E m \in ToSet(sent) : /\ m \in Messages
                                   /\ \A k \in DOMAIN done : done[k].id # m.id
                                   /\ done' = Append(done, m) /\ UNCHANGED << sent, dlq >>
         \/ \E m \in ToSet(sent) : dlq' = dlq \cup {m} /\ UNCHANGED << sent, done >>
<1>0. queue \in Seq(Messages) /\ sent \in Seq(Messages) /\ ToSet(sent) \subseteq Messages
  BY DEF TypeOK, ToSet
<1>1. ASSUME NEW p \in Workers, pc[p] # "poll" PROVE Current(p) \in ToSet(sent)
  <2>1. batch[p] \in Seq([m : Messages, receipt : Nat]) /\ batch[p] # << >>
    BY <1>1 DEF TypeOK, BatchOK
  <2>2. Head(batch[p]) = batch[p][1] /\ 1 \in DOMAIN batch[p]
    BY <2>1, EmptySeq
  <2> QED
    BY <2>2 DEF OnlySent, Current
<1>2. CASE \E m \in Messages : Send(m)
  <2>1. PICK m \in Messages : Send(m)
    BY <1>2
  <2>2. m \notin ToSet(sent)
    BY <1>0, <2>1, ContainsIsMember DEF Send
  <2>3. ToSet(sent') = ToSet(sent) \cup {m}
    BY <1>0, <2>1, AppendKeeps DEF Send
  <2> QED
    BY <2>1, <2>2, <2>3 DEF Send
<1>3. CASE \E m \in Messages : Redrive(m)
  <2>1. PICK m \in Messages : Redrive(m)
    BY <1>3
  <2>2. m \in ToSet(sent)
    BY <1>0, <2>1, ContainsIsMember DEF Redrive, Available, OnlySent
  <2> QED
    BY <2>1, <2>2 DEF Redrive
<1>4. CASE \E p \in Workers : Handle(p) \/ HandleFails(p)
  <2>1. PICK p \in Workers : Handle(p) \/ HandleFails(p)
    BY <1>4
  <2>2. pc[p] = "handle" /\ UNCHANGED << sent, dlq >>
    BY <2>1 DEF Handle, HandleFails, broker
  <2>3. UNCHANGED done \/ (~Recorded(Current(p)) /\ Commits(Current(p)))
    BY <2>1 DEF Handle, HandleFails
  <2>4. CASE ~Recorded(Current(p)) /\ Commits(Current(p))
    <3>1. \A k \in DOMAIN done : done[k].id # Current(p).id
      BY <2>4 DEF Recorded, InboxComplete, ToSet
    <3> QED
      BY <1>0, <1>1, <2>2, <2>4, <3>1 DEF Commits
  <2> QED
    BY <2>2, <2>3, <2>4
<1>5. CASE \E p \in Workers : deadLetter(p) \/ deadLetterFails(p)
  <2>1. PICK p \in Workers : deadLetter(p) \/ deadLetterFails(p)
    BY <1>5
  <2>2. /\ pc[p] = "dead" /\ UNCHANGED << sent, done >>
        /\ dlq' = dlq \/ dlq' = dlq \cup {Current(p)}
    BY <2>1 DEF deadLetter, deadLetterFails
  <2> QED
    BY <1>1, <2>2
<1>6. CASE UNCHANGED << sent, done, dlq >>
  BY <1>6
<1> QED
  BY <1>2, <1>3, <1>4, <1>5, <1>6
  DEF Next, vars, broker, Reappear, Receive, Received, Work, Start, ReceiveFails, DeleteFails,
      Stop, Crash, Delete, Retry

\* What is queued or being handled has been sent.
LEMMA SentStep ==
  ASSUME TypeOK, BatchOK, InboxComplete, OnlySent, [Next]_vars
  PROVE  OnlySent'
<1>0. /\ queue \in Seq(Messages) /\ sent \in Seq(Messages)
      /\ \A w \in Workers : batch[w] \in Seq([m : Messages, receipt : Nat])
  BY DEF TypeOK, BatchOK
<1>1. ToSet(sent) \subseteq ToSet(sent') /\ dlq' \subseteq ToSet(sent')
  <2>1. dlq \subseteq ToSet(sent)
    BY DEF OnlySent
  <2>2. CASE UNCHANGED << sent, done, dlq >>
    BY <2>1, <2>2
  <2>3. CASE \E m \in Messages : /\ m \notin ToSet(sent) /\ ToSet(sent') = ToSet(sent) \cup {m}
                                 /\ UNCHANGED << done, dlq >>
    BY <2>1, <2>3
  <2>4. CASE \E m \in ToSet(sent) : /\ m \in Messages
                                    /\ \A k \in DOMAIN done : done[k].id # m.id
                                    /\ done' = Append(done, m) /\ UNCHANGED << sent, dlq >>
    BY <2>1, <2>4
  <2>5. CASE \E m \in ToSet(sent) : dlq' = dlq \cup {m} /\ UNCHANGED << sent, done >>
    BY <2>1, <2>5
  <2> QED
    BY <2>2, <2>3, <2>4, <2>5, Effects
<1>2. ToSet(queue') \subseteq ToSet(sent')
  <2>1. CASE \E m \in Messages : Send(m)
    <3>1. PICK m \in Messages : Send(m)
      BY <2>1
    <3>2. ToSet(queue') = ToSet(queue) \cup {m} /\ ToSet(sent') = ToSet(sent) \cup {m}
      BY <1>0, <3>1, AppendKeeps DEF Send
    <3> QED
      BY <3>2 DEF OnlySent
  <2>2. CASE queue' = queue \/ \E m : queue' = Without(m)
    <3>1. \A m : Without(m) \in Seq(Messages) /\ \A x : Contains(Without(m), x) => Contains(queue, x)
      BY <1>0, WithoutKeeps
    <3>2. ToSet(queue') \subseteq ToSet(queue)
      BY <1>0, <2>2, <3>1, ContainsIsMember
    <3> QED
      BY <1>1, <3>2 DEF OnlySent
  <2> QED
    BY <2>1, <2>2
    DEF Next, vars, broker, Reappear, Redrive, Receive, Received, Work, Start, ReceiveFails,
        HandleFails, DeleteFails, deadLetterFails, Stop, Crash, Handle, Delete, deadLetter,
        Retry
<1>3. ASSUME NEW w \in Workers, NEW k \in DOMAIN batch'[w]
      PROVE  batch'[w][k].m \in ToSet(sent')
  <2>1. CASE batch'[w] = batch[w]
    BY <1>1, <1>3, <2>1 DEF OnlySent
  <2>2. CASE batch'[w] = << >>
    BY <1>3, <2>2
  <2>3. CASE pc[w] # "poll" /\ batch'[w] = Tail(batch[w])
    <3>1. k + 1 \in DOMAIN batch[w] /\ batch'[w][k] = batch[w][k + 1]
      BY <1>3, <2>3, CurrentType
    <3> QED
      BY <1>1, <3>1 DEF OnlySent
  <2>4. CASE Receive(w)
    <3>1. PICK S \in SUBSET Messages :
            /\ Receivable(S)
            /\ \E q \in SetToSeqs(S) :
                 batch' = [batch EXCEPT ![w] =
                             [i \in DOMAIN q |-> [m |-> q[i], receipt |-> receives[q[i]] + 1]]]
      BY <2>4 DEF Receive
    <3>2. PICK q \in SetToSeqs(S) :
            batch'[w] = [i \in DOMAIN q |-> [m |-> q[i], receipt |-> receives[q[i]] + 1]]
      BY <3>1 DEF BatchOK
    <3>3. batch'[w][k].m \in S
      <4>1. Cardinality(S) \in Nat /\ q \in [1 .. Cardinality(S) -> S]
        BY <3>1, QueueAssumption DEF Receivable, SetToSeqs
      <4>2. k \in DOMAIN q /\ batch'[w][k].m = q[k]
        BY <1>3, <3>2
      <4> QED
        BY <4>1, <4>2
    <3>4. \A m \in S : m \in ToSet(queue)
      BY <1>0, <3>1, ContainsIsMember DEF Receivable, Available
    <3> QED
      BY <1>1, <3>3, <3>4 DEF OnlySent
  <2>5. \/ batch'[w] = batch[w] \/ batch'[w] = << >>
        \/ pc[w] # "poll" /\ batch'[w] = Tail(batch[w])
        \/ Receive(w)
    <3>1. CASE UNCHANGED batch
      BY <3>1
    <3>2. CASE \E p \in Workers : Receive(p)
      <4>1. PICK p \in Workers : Receive(p)
        BY <3>2
      <4>2. CASE p = w
        BY <4>1, <4>2
      <4>3. CASE p # w
        BY <4>1, <4>3 DEF Receive, BatchOK
      <4> QED
        BY <4>2, <4>3
    <3>3. CASE \E p \in Workers : pc[p] # "poll" /\ NextMessage(p)
      BY <3>3 DEF NextMessage, BatchOK
    <3>4. CASE \E p \in Workers : Crash(p)
      BY <3>4 DEF Crash, BatchOK
    <3> QED
      BY <3>1, <3>2, <3>3, <3>4
      DEF Next, vars, broker, Send, Reappear, Redrive, Work, Start, ReceiveFails, HandleFails,
          DeleteFails, deadLetterFails, Stop, Handle, Delete, deadLetter, Retry
  <2> QED
    BY <2>1, <2>2, <2>3, <2>4, <2>5
<1> QED
  BY <1>1, <1>2, <1>3 DEF OnlySent

\* Every step keeps the invariant.
LEMMA InvStep ==
  ASSUME Inv, [Next]_vars
  PROVE  Inv'
  BY TypeStep, CallsStep, InboxStep, SentStep, LossStep, DeadLetterStep DEF Inv

\* It holds of an empty queue.
LEMMA InitInv == Init => Inv
<1> SUFFICES ASSUME Init PROVE Inv
  OBVIOUS
<1>1. TypeOK /\ BatchOK
  BY QueueAssumption, ConsumerFaultsAssumption, EmptySeq DEF Init, TypeOK, BatchOK
<1>2. CallsJustified
  BY DEF Init, CallsJustified
<1>3. InboxComplete /\ NothingLost /\ ProcessedOnce /\ DeadLettersExplained
  BY DEF Init, InboxComplete, NothingLost, ToSet, ProcessedOnce, DeadLettersExplained
<1>4. OnlySent
  BY DEF Init, OnlySent, ToSet
<1> QED
  BY <1>1, <1>2, <1>3, <1>4 DEF Inv

-----------------------------------------------------------------------------
(* Theorems *)

\* Inv is inductive, so it holds throughout: the basis of the theorems below.
THEOREM Invariance == Spec => []Inv
<1>1. Init => Inv
  BY InitInv
<1>2. Inv /\ [Next]_vars => Inv'
  BY InvStep
<1> QED
  BY <1>1, <1>2, PTL DEF Spec

\* TypeOK for every instance: in particular a worker polls only when its batch
\* is used up, and holds no receipt newer than the broker's count.
THEOREM ConsumerTypeCorrect == Spec => []TypeOK
<1>1. Inv => TypeOK
  BY DEF Inv
<1> QED
  BY <1>1, Invariance, PTL

\* No message is lost: handle deletes only after the commit or after the copy
\* to the dead-letter queue, whatever calls fail and whichever worker dies.
THEOREM NoMessageIsLost == Spec => []NothingLost
<1>1. Inv => NothingLost
  BY DEF Inv
<1> QED
  BY <1>1, Invariance, PTL

\* No messageId is processed twice: the inbox row of the commit absorbs every
\* redelivery, to this worker or to another.
THEOREM InboxDeduplicates == Spec => []ProcessedOnce
<1>1. Inv => ProcessedOnce
  BY DEF Inv
<1> QED
  BY <1>1, Invariance, PTL

\* Transient errors alone never dead-letter a message: classify sends there
\* what can never be processed, the redrive what used up its deliveries.
THEOREM DeadLettersHaveCause == Spec => []DeadLettersExplained
<1>1. Inv => DeadLettersExplained
  BY DEF Inv
<1> QED
  BY <1>1, Invariance, PTL

=============================================================================
