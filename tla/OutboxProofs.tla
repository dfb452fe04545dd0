---------------------------- MODULE OutboxProofs ----------------------------
(***************************************************************************)
(* Theorems about Outbox for every finite set of events, any number of     *)
(* publishers, every size of claims and chunks and any number of failures. *)
(***************************************************************************)
EXTENDS Outbox, SequenceTheorems, FiniteSetTheorems, TLAPS

-----------------------------------------------------------------------------
(* Invariants *)

\* The row of the event is visible.
Committed(e) == state[e] \in {"pending", "published"}

\* Every variable has its type.
Shape ==
  /\ state \in [Events -> {"none", "begun", "pending", "published"}]
  /\ due \in [Events -> Nat]
  /\ locked \in [Events -> BOOLEAN]
  /\ clock \in Nat \ {0}
  /\ queue \in Seq(Events)
  /\ pc \in [Publishers -> {"idle", "send", "settle"}]
  /\ batch \in [Publishers -> Seq(Events)]
  /\ chunk \in [Publishers -> Seq(Events)]
  /\ single \in [Publishers -> BOOLEAN]
  /\ failed \in [Publishers -> SUBSET Events]
  /\ sent \in [Publishers -> SUBSET Events]
  /\ faults \in 0 .. MaxFaults

\* A publisher sends only what it has.
ChunkWaits == \A p \in Publishers : pc[p] = "send" => chunk[p] # << >>

\* What a tick holds: claimed and still to send, sent, or failed.
Holds(p) == ToSet(batch[p]) \cup ToSet(chunk[p]) \cup failed[p] \cup sent[p]

\* A publisher handles committed events only.
HeldCommitted == \A p \in Publishers : \A e \in Holds(p) : Committed(e)

\* What a publisher counts as sent the broker has.
SentDelivered == \A p \in Publishers : sent[p] \subseteq ToSet(queue)

PublisherInv == Shape /\ ChunkWaits /\ HeldCommitted /\ SentDelivered /\ PublishedIsDelivered

\* Every tick of the clock is a transaction begun or a fault, and every
\* failure still to be rescheduled is a fault that has not moved it yet.
Started  == {e \in Events : state[e] # "none"}
Failures == {x \in Publishers \X Events : x[2] \in failed[x[1]]}

ClockInv ==
  /\ IsFiniteSet(Failures)
  /\ clock + Cardinality(Failures) <= 1 + Cardinality(Started) + faults
  /\ \A e \in Events : due[e] < clock + MaxDelay

Inv == PublisherInv /\ ClockInv

-----------------------------------------------------------------------------
(* Sequences *)

\* Contains and ToSet say the same of a sequence.
LEMMA ContainsIsMember ==
  ASSUME NEW T, NEW q \in Seq(T), NEW x
  PROVE  Contains(q, x) <=> x \in ToSet(q)
  BY DEF Contains, ToSet

\* The elements of a sequence are its values, finitely many.
LEMMA Elements ==
  ASSUME NEW T, NEW q \in Seq(T)
  PROVE  /\ ToSet(q) = {q[i] : i \in 1 .. Len(q)}
         /\ ToSet(q) \subseteq T
         /\ ToSet(<< >>) = {}
         /\ IsFiniteSet(ToSet(q))
<1>1. Len(q) \in Nat /\ q \in [1 .. Len(q) -> T] /\ DOMAIN q = 1 .. Len(q)
  BY LenProperties
<1>2. ToSet(q) = {q[i] : i \in 1 .. Len(q)} /\ ToSet(q) \subseteq T
  BY <1>1 DEF ToSet
<1>3. ToSet(<< >>) = {}
  BY DEF ToSet
<1>4. q \in Surjection(1 .. Len(q), ToSet(q))
  BY <1>1, <1>2 DEF Surjection
<1>5. IsFiniteSet(1 .. Len(q))
  BY <1>1, FS_Interval
<1> QED
  BY <1>2, <1>3, <1>4, <1>5, FS_Surjection

\* A sequence of SetToSeqs(S) has the elements of S.
LEMMA SetToSeqsElements ==
  ASSUME NEW S, IsFiniteSet(S), NEW q \in SetToSeqs(S)
  PROVE  q \in Seq(S) /\ ToSet(q) = S /\ Len(q) = Cardinality(S)
<1> DEFINE n == Cardinality(S)
<1>1. n \in Nat
  BY FS_CardinalityType
<1>2. q \in [1 .. n -> S] /\ \A i, j \in 1 .. n : i # j => q[i] # q[j]
  BY DEF SetToSeqs
<1> HIDE DEF n
<1>3. q \in Seq(S) /\ Len(q) = n
  BY <1>1, <1>2
<1>4. q \in Injection(1 .. n, S)
  BY <1>2 DEF Injection, IsInjective
<1>5. IsFiniteSet(1 .. n) /\ Cardinality(1 .. n) = n
  BY <1>1, FS_Interval
<1>6. q \in Surjection(1 .. n, S)
  BY <1>4, <1>5, FS_Injection DEF n
<1>7. S = {q[i] : i \in 1 .. n}
  BY <1>2, <1>6 DEF Surjection
<1>8. ToSet(q) = {q[i] : i \in 1 .. n}
  BY <1>3, Elements
<1> QED
  BY <1>3, <1>7, <1>8 DEF n

\* The parts of a sequence have the elements of the whole.
LEMMA Split ==
  ASSUME NEW T, NEW q \in Seq(T), NEW n \in 0 .. Len(q)
  PROVE  /\ SubSeq(q, 1, n) \in Seq(T) /\ Len(SubSeq(q, 1, n)) = n
         /\ SubSeq(q, n + 1, Len(q)) \in Seq(T) /\ Len(SubSeq(q, n + 1, Len(q))) = Len(q) - n
         /\ ToSet(SubSeq(q, 1, n)) \subseteq ToSet(q)
         /\ ToSet(SubSeq(q, n + 1, Len(q))) \subseteq ToSet(q)
<1>0. Len(q) \in Nat /\ q \in [1 .. Len(q) -> T]
  BY LenProperties
<1> DEFINE a == SubSeq(q, 1, n)
           b == SubSeq(q, n + 1, Len(q))
<1>1. a \in Seq(T) /\ Len(a) = n /\ \A i \in 1 .. n : a[i] = q[i]
  BY <1>0, SubSeqProperties
<1>2. /\ b \in Seq(T) /\ Len(b) = Len(q) - n
      /\ \A i \in 1 .. Len(q) - n : b[i] = q[n + i]
  <2>1. n + 1 \in Int /\ Len(q) \in Int /\ \A i \in n + 1 .. Len(q) : q[i] \in T
    BY <1>0
  <2>2. /\ b \in Seq(T) /\ Len(b) = IF n + 1 <= Len(q) THEN Len(q) - (n + 1) + 1 ELSE 0
        /\ \A i \in 1 .. Len(q) - (n + 1) + 1 : b[i] = q[(n + 1) + i - 1]
    BY <2>1, SubSeqProperties
  <2> HIDE DEF b
  <2>3. Len(b) = Len(q) - n
    <3>1. CASE n + 1 <= Len(q)
      <4>1. Len(b) = Len(q) - (n + 1) + 1
        BY <2>2, <3>1
      <4> QED
        BY <1>0, <4>1
    <3>2. CASE ~(n + 1 <= Len(q))
      <4>1. Len(b) = 0
        BY <2>2, <3>2
      <4>2. Len(q) \in Nat /\ n \in Nat /\ n <= Len(q)
        BY <1>0
      <4>3. n = Len(q)
        BY <3>2, <4>2
      <4> QED
        BY <4>1, <4>2, <4>3
    <3> QED
      BY <3>1, <3>2
  <2>4. ASSUME NEW i \in 1 .. Len(q) - n PROVE b[i] = q[n + i]
    <3>1. i \in 1 .. Len(q) - (n + 1) + 1 /\ (n + 1) + i - 1 = n + i
      BY <1>0
    <3> QED
      BY <2>2, <3>1
  <2> QED
    BY <2>2, <2>3, <2>4
<1> HIDE DEF a, b
<1>3. ToSet(q) = {q[i] : i \in 1 .. Len(q)}
  BY Elements
<1>4. ToSet(a) = {a[i] : i \in 1 .. n}
  BY <1>1, Elements
<1>5. ToSet(b) = {b[i] : i \in 1 .. Len(q) - n}
  BY <1>2, Elements
<1>6. ToSet(a) \subseteq ToSet(q)
  BY <1>0, <1>1, <1>3, <1>4
<1>7. ToSet(b) \subseteq ToSet(q)
  <2> SUFFICES ASSUME NEW i \in 1 .. Len(q) - n PROVE b[i] \in ToSet(q)
    BY <1>5
  <2>1. n + i \in 1 .. Len(q)
    BY <1>0
  <2> QED
    BY <1>2, <1>3, <2>1
<1> QED
  BY <1>1, <1>2, <1>6, <1>7 DEF a, b

\* The head of a sequence and the rest are of the sequence.
LEMMA HeadTailElements ==
  ASSUME NEW T, NEW q \in Seq(T), q # << >>
  PROVE  Head(q) \in ToSet(q) /\ Tail(q) \in Seq(T) /\ ToSet(Tail(q)) \subseteq ToSet(q)
<1>1. Len(q) \in Nat \ {0} /\ Head(q) = q[1]
  BY EmptySeq
<1>2. /\ Tail(q) \in Seq(T) /\ Len(Tail(q)) = Len(q) - 1
      /\ \A i \in 1 .. Len(Tail(q)) : Tail(q)[i] = q[i + 1]
  BY HeadTailProperties
<1>3. ToSet(q) = {q[i] : i \in 1 .. Len(q)}
  BY Elements
<1>4. ToSet(Tail(q)) = {Tail(q)[i] : i \in 1 .. Len(Tail(q))}
  <2>1. \A t \in Seq(T) : ToSet(t) = {t[i] : i \in 1 .. Len(t)}
    BY Elements
  <2> QED
    BY <1>2, <2>1
<1>5. Head(q) \in ToSet(q)
  BY <1>1, <1>3
<1>6. ASSUME NEW i \in 1 .. Len(Tail(q)) PROVE Tail(q)[i] \in ToSet(q)
  <2>1. i + 1 \in 1 .. Len(q)
    BY <1>1, <1>2
  <2> QED
    BY <1>2, <1>3, <2>1
<1> QED
  BY <1>2, <1>4, <1>5, <1>6

\* The broker appends all it is sent and has not, and nothing that it is not
\* sent.
LEMMA AcceptAdds ==
  ASSUME queue \in Seq(Events), NEW q, NEW S \in SUBSET Events, Accept(q, S)
  PROVE  queue' \in Seq(Events) /\ ToSet(queue') = ToSet(queue) \cup S
<1>0. PICK late \in SUBSET (S \cap ToSet(queue)) :
        \E r \in SetToSeqs((S \ ToSet(queue)) \cup late) : queue' = queue \o r
  BY DEF Accept
<1> DEFINE new == (S \ ToSet(queue)) \cup late
<1>1. IsFiniteSet(new) /\ new \subseteq Events
  BY EventsAssumption, FS_Subset
<1>2. PICK r \in SetToSeqs(new) : queue' = queue \o r
  BY <1>0
<1>3. r \in Seq(Events) /\ ToSet(r) = new
  BY <1>1, SetToSeqsElements, SeqMonotonic
<1>4. /\ queue' \in Seq(Events) /\ Len(queue') = Len(queue) + Len(r)
      /\ \A i \in 1 .. Len(queue) + Len(r) :
           queue'[i] = IF i <= Len(queue) THEN queue[i] ELSE r[i - Len(queue)]
  BY <1>2, <1>3, ConcatProperties
<1>5. /\ ToSet(queue) = {queue[i] : i \in 1 .. Len(queue)} /\ Len(queue) \in Nat
      /\ ToSet(r) = {r[i] : i \in 1 .. Len(r)} /\ Len(r) \in Nat
      /\ ToSet(queue') = {queue'[i] : i \in 1 .. Len(queue')}
  <2>1. ToSet(queue) = {queue[i] : i \in 1 .. Len(queue)}
    BY Elements
  <2>2. ToSet(r) = {r[i] : i \in 1 .. Len(r)}
    BY <1>3, Elements
  <2>3. \A t \in Seq(Events) : ToSet(t) = {t[i] : i \in 1 .. Len(t)}
    BY Elements
  <2>4. ToSet(queue') = {queue'[i] : i \in 1 .. Len(queue')}
    BY <1>4, <2>3
  <2>5. Len(queue) \in Nat /\ Len(r) \in Nat
    BY <1>3, LenProperties
  <2> QED
    BY <2>1, <2>2, <2>4, <2>5
<1>6. ToSet(queue') \subseteq ToSet(queue) \cup ToSet(r)
  <2> SUFFICES ASSUME NEW i \in 1 .. Len(queue) + Len(r)
               PROVE  queue'[i] \in ToSet(queue) \cup ToSet(r)
    BY <1>4, <1>5
  <2>1. CASE i <= Len(queue)
    BY <1>4, <1>5, <2>1
  <2>2. CASE ~(i <= Len(queue))
    <3>1. i - Len(queue) \in 1 .. Len(r)
      BY <1>5, <2>2
    <3> QED
      BY <1>4, <1>5, <2>2, <3>1
  <2> QED
    BY <2>1, <2>2
<1>7. ToSet(queue) \subseteq ToSet(queue')
  <2> SUFFICES ASSUME NEW i \in 1 .. Len(queue) PROVE queue[i] \in ToSet(queue')
    BY <1>5
  <2>1. i \in 1 .. Len(queue) + Len(r) /\ i <= Len(queue)
    BY <1>5
  <2>2. queue'[i] = queue[i]
    BY <1>4, <2>1
  <2> QED
    BY <1>4, <1>5, <2>1, <2>2
<1>8. ToSet(r) \subseteq ToSet(queue')
  <2> SUFFICES ASSUME NEW i \in 1 .. Len(r) PROVE r[i] \in ToSet(queue')
    BY <1>5
  <2>1. /\ i + Len(queue) \in 1 .. Len(queue) + Len(r) /\ ~(i + Len(queue) <= Len(queue))
        /\ (i + Len(queue)) - Len(queue) = i
    BY <1>5
  <2>2. queue'[i + Len(queue)] = r[i]
    BY <1>4, <2>1
  <2> QED
    BY <1>4, <1>5, <2>1, <2>2
<1> QED
  BY <1>3, <1>4, <1>6, <1>7, <1>8

-----------------------------------------------------------------------------
(* A publisher's step *)

\* Take, of a sequence of committed events.
LEMMA TakeKeeps ==
  ASSUME Shape, NEW p \in Publishers, NEW q \in Seq(Events), Take(p, q)
  PROVE  /\ chunk' \in [Publishers -> Seq(Events)] /\ batch' \in [Publishers -> Seq(Events)]
         /\ pc' \in [Publishers -> {"idle", "send", "settle"}]
         /\ single' \in [Publishers -> BOOLEAN]
         /\ ToSet(chunk'[p]) \subseteq ToSet(q) /\ ToSet(batch'[p]) \subseteq ToSet(q)
         /\ pc'[p] = "send" => chunk'[p] # << >>
         /\ \A w \in Publishers \ {p} :
              chunk'[w] = chunk[w] /\ batch'[w] = batch[w] /\ pc'[w] = pc[w]
<1> DEFINE n == IF Len(q) < ChunkLimit THEN Len(q) ELSE ChunkLimit
<1>1. Len(q) \in Nat
  BY LenProperties
<1>2. n \in 0 .. Len(q)
  BY <1>1, BatchAssumption
<1>3. /\ chunk' = [chunk EXCEPT ![p] = SubSeq(q, 1, n)]
      /\ batch' = [batch EXCEPT ![p] = SubSeq(q, n + 1, Len(q))]
      /\ pc' = [pc EXCEPT ![p] = IF n = 0 THEN "idle" ELSE "send"]
      /\ single' = [single EXCEPT ![p] = n = 1]
  BY DEF Take
<1> HIDE DEF n
<1>4. /\ SubSeq(q, 1, n) \in Seq(Events) /\ Len(SubSeq(q, 1, n)) = n
      /\ SubSeq(q, n + 1, Len(q)) \in Seq(Events)
      /\ ToSet(SubSeq(q, 1, n)) \subseteq ToSet(q)
      /\ ToSet(SubSeq(q, n + 1, Len(q))) \subseteq ToSet(q)
  BY <1>2, Split
<1>5. n # 0 => SubSeq(q, 1, n) # << >>
  BY <1>4, EmptySeq
<1>6. chunk' \in [Publishers -> Seq(Events)] /\ batch' \in [Publishers -> Seq(Events)]
  BY <1>3, <1>4 DEF Shape
<1>7. pc' \in [Publishers -> {"idle", "send", "settle"}] /\ single' \in [Publishers -> BOOLEAN]
  <2>1. pc' \in [Publishers -> {"idle", "send", "settle"}]
    BY <1>3 DEF Shape
  <2>2. (n = 1) \in BOOLEAN
    OBVIOUS
  <2>3. single' \in [Publishers -> BOOLEAN]
    BY <1>3, <2>2, Zenon DEF Shape
  <2> QED
    BY <2>1, <2>3
<1>8. /\ chunk'[p] = SubSeq(q, 1, n) /\ batch'[p] = SubSeq(q, n + 1, Len(q))
      /\ pc'[p] = IF n = 0 THEN "idle" ELSE "send"
  BY <1>3 DEF Shape
<1>9. \A w \in Publishers \ {p} :
        chunk'[w] = chunk[w] /\ batch'[w] = batch[w] /\ pc'[w] = pc[w]
  BY <1>3 DEF Shape
<1>10. pc'[p] = "send" => chunk'[p] # << >>
  BY <1>5, <1>8
<1> QED
  BY <1>4, <1>6, <1>7, <1>8, <1>9, <1>10

\* GoOn: nothing new is held.
LEMMA GoOnKeeps ==
  ASSUME Shape, NEW p \in Publishers, GoOn(p)
  PROVE  /\ chunk' \in [Publishers -> Seq(Events)] /\ batch' \in [Publishers -> Seq(Events)]
         /\ pc' \in [Publishers -> {"idle", "send", "settle"}]
         /\ single' \in [Publishers -> BOOLEAN]
         /\ ToSet(chunk'[p]) \cup ToSet(batch'[p]) \subseteq ToSet(chunk[p]) \cup ToSet(batch[p])
         /\ pc'[p] = "send" => chunk'[p] # << >>
         /\ \A w \in Publishers \ {p} :
              chunk'[w] = chunk[w] /\ batch'[w] = batch[w] /\ pc'[w] = pc[w]
<1>1. CASE chunk[p] # << >>
  BY <1>1 DEF GoOn, Shape
<1>2. CASE chunk[p] = << >>
  <2>1. Take(p, batch[p]) /\ batch[p] \in Seq(Events)
    BY <1>2 DEF GoOn, Shape
  <2> QED
    BY <2>1, TakeKeeps
<1> QED
  BY <1>1, <1>2

\* What has to be shown of a step of publisher p: it holds nothing new but
\* committed events, it sends only what it holds, it counts as sent only what
\* the broker has, and it marks only what it counts as sent.
LEMMA TickStep ==
  ASSUME PublisherInv, Shape', NEW p \in Publishers, NEW S,
         \A w \in Publishers \ {p} :
           /\ chunk'[w] = chunk[w] /\ batch'[w] = batch[w] /\ pc'[w] = pc[w]
           /\ failed'[w] = failed[w] /\ sent'[w] = sent[w],
         pc'[p] = "send" => chunk'[p] # << >>,
         \A e \in S : Committed(e),
         Holds(p)' \subseteq Holds(p) \cup S,
         \A e \in Events : Committed(e) => Committed(e)',
         sent'[p] \subseteq ToSet(queue'),
         ToSet(queue) \subseteq ToSet(queue'),
         ToSet(queue') \subseteq ToSet(queue) \cup Holds(p),
         \A e \in Events : state'[e] = "published" => state[e] = "published" \/ e \in sent[p]
  PROVE  PublisherInv'
<1>1. ChunkWaits'
  BY DEF ChunkWaits, PublisherInv
<1>2. \A w \in Publishers : Holds(w) \subseteq Events
  <2>1. \A w \in Publishers : ToSet(batch[w]) \subseteq Events /\ ToSet(chunk[w]) \subseteq Events
    BY Elements DEF PublisherInv, Shape
  <2> QED
    BY <2>1 DEF PublisherInv, Shape, Holds
<1>3. Holds(p)' \subseteq Events
  <2>1. ToSet(batch'[p]) \subseteq Events /\ ToSet(chunk'[p]) \subseteq Events
    <3>1. \A t \in Seq(Events) : ToSet(t) \subseteq Events
      BY Elements
    <3> QED
      BY <3>1 DEF Shape
  <2> QED
    BY <2>1 DEF Shape, Holds
<1>4. HeldCommitted'
  <2> SUFFICES ASSUME NEW w \in Publishers, NEW e \in Holds(w)' PROVE Committed(e)'
    BY DEF HeldCommitted
  <2>1. CASE w = p
    <3>1. Committed(e) /\ e \in Events
      BY <1>3, <2>1 DEF PublisherInv, HeldCommitted
    <3> QED
      BY <3>1
  <2>2. CASE w # p
    <3>1. e \in Holds(w)
      BY <2>2 DEF Holds
    <3> QED
      BY <1>2, <3>1 DEF PublisherInv, HeldCommitted
  <2> QED
    BY <2>1, <2>2
<1>5. SentDelivered'
  BY DEF SentDelivered, PublisherInv
<1>6. PublishedIsDelivered'
  <2>0. queue \in Seq(Events) /\ queue' \in Seq(Events)
    BY DEF PublisherInv, Shape
  <2>1. ASSUME NEW e \in Events, state'[e] = "published" PROVE Contains(queue', e)
    <3>1. e \in ToSet(queue)
      <4>1. CASE state[e] = "published"
        BY <2>0, <4>1, ContainsIsMember DEF PublisherInv, PublishedIsDelivered
      <4>2. CASE e \in sent[p]
        BY <4>2 DEF PublisherInv, SentDelivered
      <4> QED
        BY <2>1, <4>1, <4>2
    <3> QED
      BY <2>0, <3>1, ContainsIsMember
  <2>2. ASSUME NEW k \in DOMAIN queue' PROVE state'[queue'[k]] \in {"pending", "published"}
    <3>1. queue'[k] \in ToSet(queue')
      BY DEF ToSet
    <3>2. CASE queue'[k] \in ToSet(queue)
      <4>1. PICK i \in DOMAIN queue : queue[i] = queue'[k]
        BY <3>2 DEF ToSet
      <4>2. Committed(queue'[k])
        BY <4>1 DEF PublisherInv, PublishedIsDelivered, Committed
      <4>3. queue'[k] \in Events
        BY <2>0, <3>2, Elements
      <4> QED
        BY <4>2, <4>3 DEF Committed
    <3>3. CASE queue'[k] \in Holds(p)
      BY <1>2, <3>3 DEF PublisherInv, HeldCommitted, Committed
    <3> QED
      BY <3>1, <3>2, <3>3
  <2> QED
    BY <2>1, <2>2 DEF PublishedIsDelivered
<1> QED
  BY <1>1, <1>4, <1>5, <1>6 DEF PublisherInv

\* What a publisher works on are events.
LEMMA ChunkElements ==
  ASSUME Shape, NEW p \in Publishers
  PROVE  /\ ToSet(chunk[p]) \subseteq Events /\ IsFiniteSet(ToSet(chunk[p]))
         /\ ToSet(batch[p]) \subseteq Events
         /\ chunk[p] # << >> =>
              /\ Head(chunk[p]) \in ToSet(chunk[p])
              /\ Tail(chunk[p]) \in Seq(Events)
              /\ ToSet(Tail(chunk[p])) \subseteq ToSet(chunk[p])
<1>1. chunk[p] \in Seq(Events) /\ batch[p] \in Seq(Events)
  BY DEF Shape
<1> QED
  BY <1>1, Elements, HeadTailElements

\* The rows as Claim leaves them are committed, and it claims committed ones.
LEMMA ClaimKeeps ==
  ASSUME PublisherInv, NEW p \in Publishers, Claim(p)
  PROVE  PublisherInv'
<1>1. PICK S \in SUBSET Events :
        /\ FirstDue(S)
        /\ \E q \in SetToSeqs(S) : Take(p, q)
        /\ locked' = [e \in Events |-> locked[e] \/ e \in S]
  BY DEF Claim
<1>2. PICK q \in SetToSeqs(S) : Take(p, q)
  BY <1>1
<1>3. q \in Seq(S) /\ ToSet(q) = S
  BY EventsAssumption, FS_Subset, SetToSeqsElements
<1>4. q \in Seq(Events)
  BY <1>3, SeqMonotonic
<1>5. UNCHANGED << state, due, clock, queue, failed, sent, faults >>
  BY DEF Claim
<1>6. \A e \in S : Committed(e)
  BY <1>1 DEF FirstDue, Claimable, Committed
<1>7. /\ chunk' \in [Publishers -> Seq(Events)] /\ batch' \in [Publishers -> Seq(Events)]
      /\ pc' \in [Publishers -> {"idle", "send", "settle"}]
      /\ single' \in [Publishers -> BOOLEAN]
      /\ ToSet(chunk'[p]) \subseteq ToSet(q) /\ ToSet(batch'[p]) \subseteq ToSet(q)
      /\ pc'[p] = "send" => chunk'[p] # << >>
      /\ \A w \in Publishers \ {p} :
           chunk'[w] = chunk[w] /\ batch'[w] = batch[w] /\ pc'[w] = pc[w]
  BY <1>2, <1>4, TakeKeeps DEF PublisherInv
<1>8. locked' \in [Events -> BOOLEAN]
  <2>1. \A e \in Events : (locked[e] \/ e \in S) \in BOOLEAN
    OBVIOUS
  <2> QED
    BY <1>1, <2>1, Zenon
<1>9. Shape'
  BY <1>5, <1>7, <1>8 DEF Shape, PublisherInv
<1>10. Holds(p)' \subseteq Holds(p) \cup S
  BY <1>3, <1>5, <1>7 DEF Holds
<1>11. \A e \in Events : Committed(e) => Committed(e)'
  BY <1>5 DEF Committed
<1>12. sent'[p] \subseteq ToSet(queue')
  BY <1>5 DEF PublisherInv, SentDelivered
<1> QED
  BY <1>5, <1>6, <1>7, <1>9, <1>10, <1>11, <1>12, TickStep

\* A call to the broker: it gets some of the chunk, of which the publisher
\* counts as sent no more than the broker has.
LEMMA SendKeeps ==
  ASSUME PublisherInv, NEW p \in Publishers, pc[p] = "send",
         NEW X \in SUBSET ToSet(chunk[p]), NEW c \in Seq(Events), NEW B \in SUBSET ToSet(chunk[p]),
         NEW G \in SUBSET ToSet(chunk[p]), NEW l \in {"send", "settle"}, NEW b \in BOOLEAN,
         Accept(chunk[p], X) \/ (queue' = queue /\ X = {}),
         ToSet(c) \subseteq ToSet(chunk[p]), l = "send" => c # << >>,
         failed' = [failed EXCEPT ![p] = B] \/ failed' = failed,
         sent' = [sent EXCEPT ![p] = G] \/ sent' = sent, G \subseteq X,
         chunk' = [chunk EXCEPT ![p] = c], pc' = [pc EXCEPT ![p] = l],
         single' = [single EXCEPT ![p] = b],
         UNCHANGED << rows, batch >>, faults' \in 0 .. MaxFaults
  PROVE  PublisherInv'
<1>0. Shape /\ ToSet(chunk[p]) \subseteq Events
  BY ChunkElements DEF PublisherInv
<1>1. queue' \in Seq(Events) /\ ToSet(queue') = ToSet(queue) \cup X
  <2>1. queue \in Seq(Events) /\ X \in SUBSET Events
    BY <1>0 DEF Shape
  <2> QED
    BY <2>1, AcceptAdds
<1>2. /\ failed' \in [Publishers -> SUBSET Events] /\ sent' \in [Publishers -> SUBSET Events]
      /\ chunk' \in [Publishers -> Seq(Events)] /\ pc' \in [Publishers -> {"idle", "send", "settle"}]
  <2>1. B \in SUBSET Events /\ G \in SUBSET Events
    BY <1>0
  <2>2. failed' \in [Publishers -> SUBSET Events] /\ sent' \in [Publishers -> SUBSET Events]
    BY <1>0, <2>1 DEF Shape
  <2> QED
    BY <1>0, <2>2 DEF Shape
<1>3. single' \in [Publishers -> BOOLEAN]
  BY <1>0, Zenon DEF Shape
<1>4. Shape'
  BY <1>0, <1>1, <1>2, <1>3 DEF Shape, rows
<1>5. /\ chunk'[p] = c /\ pc'[p] = l /\ batch'[p] = batch[p]
      /\ failed'[p] \in {B, failed[p]} /\ sent'[p] \in {G, sent[p]}
  BY <1>0 DEF Shape
<1>6. \A w \in Publishers \ {p} :
        /\ chunk'[w] = chunk[w] /\ batch'[w] = batch[w] /\ pc'[w] = pc[w]
        /\ failed'[w] = failed[w] /\ sent'[w] = sent[w]
  BY <1>0 DEF Shape
<1>7. Holds(p)' \subseteq Holds(p)
  BY <1>5 DEF Holds
<1>8. UNCHANGED state
  BY DEF rows
<1>9. \A e \in Events : Committed(e) => Committed(e)'
  BY <1>8 DEF Committed
<1>10. sent'[p] \subseteq ToSet(queue')
  BY <1>1, <1>5 DEF PublisherInv, SentDelivered
<1>11. ToSet(queue) \subseteq ToSet(queue') /\ ToSet(queue') \subseteq ToSet(queue) \cup Holds(p)
  BY <1>1 DEF Holds
<1>12. pc'[p] = "send" => chunk'[p] # << >>
  BY <1>5
<1> DEFINE S == {}
<1>13. (\A e \in S : Committed(e)) /\ Holds(p)' \subseteq Holds(p) \cup S
  BY <1>7
<1> HIDE DEF S
<1> QED
  BY <1>4, <1>6, <1>8, <1>9, <1>10, <1>11, <1>12, <1>13, TickStep

\* The four outcomes of a send.
LEMMA SendsKeep ==
  ASSUME PublisherInv, NEW p \in Publishers,
         PublishBatch(p) \/ PublishBatchFails(p) \/ PublishOne(p) \/ PublishOneFails(p)
  PROVE  PublisherInv'
<1>0. Shape /\ pc[p] = "send" /\ chunk[p] \in Seq(Events) /\ chunk[p] # << >>
  BY DEF PublisherInv, Shape, ChunkWaits, PublishBatch, PublishBatchFails, PublishOne,
         PublishOneFails
<1> DEFINE C == ToSet(chunk[p])
           h == Head(chunk[p])
           t == Tail(chunk[p])
<1>1. h \in C /\ t \in Seq(Events) /\ ToSet(t) \subseteq C /\ C \subseteq Events /\ IsFiniteSet(C)
  BY <1>0, ChunkElements
<1>2. << >> \in Seq(Events) /\ ToSet(<< >>) \subseteq C
  BY <1>0, EmptySeq, Elements
<1>3. /\ chunk = [chunk EXCEPT ![p] = chunk[p]] /\ pc = [pc EXCEPT ![p] = "send"]
      /\ single = [single EXCEPT ![p] = single[p]] /\ single[p] \in BOOLEAN
  BY <1>0 DEF Shape
<1>4. faults \in 0 .. MaxFaults /\ MaxFaults \in Nat
  BY <1>0, OutboxFaultsAssumption DEF Shape
<1>5. CASE PublishBatch(p)
  <2>1. PICK bad \in SUBSET C :
          /\ faults' = faults + Cardinality(bad) /\ faults' <= MaxFaults
          /\ Accept(chunk[p], C \ bad)
          /\ failed' = [failed EXCEPT ![p] = bad]
          /\ sent' = [sent EXCEPT ![p] = C \ bad]
    BY <1>5 DEF PublishBatch
  <2>2. Cardinality(bad) \in Nat
    BY <1>1, FS_Subset, FS_CardinalityType
  <2>3. faults' \in 0 .. MaxFaults
    BY <1>4, <2>1, <2>2
  <2>4. /\ chunk' = [chunk EXCEPT ![p] = << >>] /\ pc' = [pc EXCEPT ![p] = "settle"]
        /\ UNCHANGED << rows, batch, single >>
    BY <1>5 DEF PublishBatch
  <2>5. single' = [single EXCEPT ![p] = single[p]]
    BY <1>3, <2>4
  <2>6. C \ bad \in SUBSET C /\ C \ bad \subseteq C \ bad
    OBVIOUS
  <2> HIDE DEF C
  <2> QED
    BY <1>0, <1>2, <1>3, <2>1, <2>3, <2>4, <2>5, <2>6, SendKeeps, ZenonT(40) DEF C
<1>6. CASE PublishBatchFails(p)
  <2>1. /\ faults < MaxFaults /\ faults' = faults + 1
        /\ Accept(chunk[p], C) \/ queue' = queue
        /\ single' = [single EXCEPT ![p] = TRUE]
        /\ UNCHANGED << rows, pc, batch, chunk, failed, sent >>
    BY <1>6 DEF PublishBatchFails
  <2>2. PICK X \in {{}, C} : Accept(chunk[p], X) \/ (queue' = queue /\ X = {})
    BY <2>1
  <2>3. faults' \in 0 .. MaxFaults
    BY <1>4, <2>1
  <2>4. chunk' = [chunk EXCEPT ![p] = chunk[p]] /\ pc' = [pc EXCEPT ![p] = "send"]
    BY <1>3, <2>1
  <2>5. X \in SUBSET C /\ {} \in SUBSET C /\ {} \subseteq X /\ C \subseteq C
    BY <2>2
  <2> QED
    BY <1>0, <2>1, <2>2, <2>3, <2>4, <2>5, SendKeeps
<1>7. CASE PublishOne(p)
  <2>1. /\ Accept(chunk[p], {h}) /\ sent' = [sent EXCEPT ![p] = {h}]
        /\ chunk' = [chunk EXCEPT ![p] = t] /\ pc' = [pc EXCEPT ![p] = "settle"]
        /\ UNCHANGED << rows, batch, single, failed, faults >>
    BY <1>7 DEF PublishOne
  <2>2. single' = [single EXCEPT ![p] = single[p]] /\ faults' \in 0 .. MaxFaults
    BY <1>3, <1>4, <2>1
  <2>3. {h} \in SUBSET C /\ {} \in SUBSET C /\ {h} \subseteq {h}
    BY <1>1
  <2> HIDE DEF C, h, t
  <2> QED
    BY <1>0, <1>1, <1>3, <2>1, <2>2, <2>3, SendKeeps DEF C
<1>8. CASE PublishOneFails(p)
  <2>1. /\ faults < MaxFaults /\ faults' = faults + 1
        /\ Accept(chunk[p], {h}) \/ queue' = queue
        /\ failed' = [failed EXCEPT ![p] = {h}]
        /\ chunk' = [chunk EXCEPT ![p] = t] /\ pc' = [pc EXCEPT ![p] = "settle"]
        /\ UNCHANGED << rows, batch, single, sent >>
    BY <1>8 DEF PublishOneFails
  <2>2. PICK X \in {{}, {h}} : Accept(chunk[p], X) \/ (queue' = queue /\ X = {})
    BY <2>1
  <2>3. single' = [single EXCEPT ![p] = single[p]] /\ faults' \in 0 .. MaxFaults
    BY <1>3, <1>4, <2>1
  <2>4. X \in SUBSET C /\ {h} \in SUBSET C /\ {} \in SUBSET C /\ {} \subseteq X
    BY <1>1, <2>2
  <2> HIDE DEF C, h, t
  <2> QED
    BY <1>0, <1>1, <1>3, <2>1, <2>2, <2>3, <2>4, SendKeeps DEF C
<1> QED
  BY <1>5, <1>6, <1>7, <1>8

\* Settling a tick: the rows of failed sends are freed, those of sent events
\* are marked.
LEMMA SettleKeeps ==
  ASSUME PublisherInv, NEW p \in Publishers,
         Reschedule(p) \/ MarkPublished(p) \/ SettleFails(p)
  PROVE  PublisherInv'
<1>0. Shape /\ UNCHANGED queue
  BY DEF PublisherInv, Reschedule, MarkPublished, SettleFails
<1>1. /\ failed' \in [Publishers -> SUBSET Events] /\ failed'[p] \subseteq failed[p]
      /\ \A w \in Publishers \ {p} : failed'[w] = failed[w]
  <2>1. CASE UNCHANGED failed
    BY <1>0, <2>1 DEF Shape
  <2>2. CASE \E e \in failed[p] : failed' = [failed EXCEPT ![p] = @ \ {e}]
    BY <1>0, <2>2 DEF Shape
  <2> QED
    BY <2>1, <2>2 DEF Reschedule, MarkPublished, SettleFails
<1>2. /\ sent' \in [Publishers -> SUBSET Events] /\ sent'[p] \subseteq sent[p]
      /\ \A w \in Publishers \ {p} : sent'[w] = sent[w]
  BY <1>0 DEF Shape, Reschedule, MarkPublished, SettleFails
<1>3. /\ chunk' \in [Publishers -> Seq(Events)] /\ batch' \in [Publishers -> Seq(Events)]
      /\ pc' \in [Publishers -> {"idle", "send", "settle"}]
      /\ single' \in [Publishers -> BOOLEAN]
      /\ ToSet(chunk'[p]) \cup ToSet(batch'[p]) \subseteq ToSet(chunk[p]) \cup ToSet(batch[p])
      /\ pc'[p] = "send" => chunk'[p] # << >>
      /\ \A w \in Publishers \ {p} :
           chunk'[w] = chunk[w] /\ batch'[w] = batch[w] /\ pc'[w] = pc[w]
  <2>1. CASE GoOn(p)
    BY <1>0, <2>1, GoOnKeeps
  <2>2. CASE pc[p] = "settle" /\ UNCHANGED << pc, batch, chunk, single >>
    BY <1>0, <2>2 DEF Shape
  <2> QED
    BY <2>1, <2>2 DEF Reschedule, MarkPublished, SettleFails
<1>4. faults' \in 0 .. MaxFaults
  BY <1>0, OutboxFaultsAssumption DEF Shape, Reschedule, MarkPublished, SettleFails
<1>5. /\ state' \in [Events -> {"none", "begun", "pending", "published"}]
      /\ \A e \in Events : state'[e] = state[e] \/ (e \in sent[p] /\ state'[e] = "published")
  BY <1>0 DEF Shape, Reschedule, MarkPublished, SettleFails, rows
<1>6. due' \in [Events -> Nat] /\ clock' \in Nat \ {0} /\ locked' \in [Events -> BOOLEAN]
  <2>1. CASE Reschedule(p)
    <3>1. PICK e \in failed[p] :
            IF state[e] = "published"
            THEN UNCHANGED << due, locked, clock >>
            ELSE /\ \E b \in 0 .. MaxDelay : due' = [due EXCEPT ![e] = clock + b]
                 /\ locked' = [locked EXCEPT ![e] = FALSE]
                 /\ clock' = clock + 1
      BY <2>1 DEF Reschedule
    <3>2. CASE state[e] = "published"
      BY <1>0, <3>1, <3>2 DEF Shape
    <3>3. CASE state[e] # "published"
      <4>0. /\ \E b \in 0 .. MaxDelay : due' = [due EXCEPT ![e] = clock + b]
            /\ clock' = clock + 1
            /\ locked' = [locked EXCEPT ![e] = FALSE]
        BY <3>1, <3>3
      <4>1. due' \in [Events -> Nat] /\ clock' \in Nat \ {0}
        BY <1>0, <4>0 DEF Shape
      <4>2. locked' \in [Events -> BOOLEAN]
        BY <1>0, <4>0, Zenon DEF Shape
      <4> QED
        BY <4>1, <4>2
    <3> QED
      BY <3>2, <3>3
  <2>2. CASE MarkPublished(p)
    <3>1. UNCHANGED << due, clock >>
      BY <2>2 DEF MarkPublished
    <3>2. locked' = [e \in Events |-> locked[e] /\ ~(e \in sent[p] /\ state[e] # "published")]
      BY <2>2 DEF MarkPublished
    <3>3. \A e \in Events :
            (locked[e] /\ ~(e \in sent[p] /\ state[e] # "published")) \in BOOLEAN
      OBVIOUS
    <3>4. locked' \in [Events -> BOOLEAN]
      BY <3>2, <3>3, Zenon
    <3> QED
      BY <1>0, <3>1, <3>4 DEF Shape
  <2>3. CASE SettleFails(p)
    BY <1>0, <2>3 DEF Shape, SettleFails, rows
  <2> QED
    BY <2>1, <2>2, <2>3
<1>7. Shape'
  BY <1>0, <1>1, <1>2, <1>3, <1>4, <1>5, <1>6 DEF Shape
<1>8. Holds(p)' \subseteq Holds(p)
  BY <1>1, <1>2, <1>3 DEF Holds
<1>9. \A e \in Events : Committed(e) => Committed(e)'
  BY <1>5 DEF Committed
<1>10. sent'[p] \subseteq ToSet(queue')
  BY <1>0, <1>2 DEF PublisherInv, SentDelivered
<1>11. ToSet(queue) \subseteq ToSet(queue') /\ ToSet(queue') \subseteq ToSet(queue) \cup Holds(p)
  BY <1>0
<1>12. \A e \in Events : state'[e] = "published" => state[e] = "published" \/ e \in sent[p]
  BY <1>5
<1>13. \A w \in Publishers \ {p} :
         /\ chunk'[w] = chunk[w] /\ batch'[w] = batch[w] /\ pc'[w] = pc[w]
         /\ failed'[w] = failed[w] /\ sent'[w] = sent[w]
  BY <1>1, <1>2, <1>3
<1> DEFINE S == {}
<1>14. (\A e \in S : Committed(e)) /\ Holds(p)' \subseteq Holds(p) \cup S
  BY <1>8
<1> HIDE DEF S
<1> QED
  BY <1>3, <1>7, <1>9, <1>10, <1>11, <1>12, <1>13, <1>14, TickStep

\* A crash holds nothing any more.
LEMMA CrashKeeps ==
  ASSUME PublisherInv, NEW p \in Publishers, Crash(p)
  PROVE  PublisherInv'
<1>0. Shape /\ UNCHANGED << rows, queue >> /\ UNCHANGED << state, due, locked, clock >>
  BY DEF PublisherInv, Crash, rows
<1>1. faults' \in 0 .. MaxFaults
  BY <1>0, OutboxFaultsAssumption DEF Shape, Crash
<1>2. << >> \in Seq(Events) /\ ToSet(<< >>) = {}
  BY EmptySeq, Elements
<1>3. /\ chunk' \in [Publishers -> Seq(Events)] /\ batch' \in [Publishers -> Seq(Events)]
      /\ pc' \in [Publishers -> {"idle", "send", "settle"}]
      /\ failed' \in [Publishers -> SUBSET Events] /\ sent' \in [Publishers -> SUBSET Events]
  BY <1>0, <1>2 DEF Shape, Crash
<1>4. single' \in [Publishers -> BOOLEAN]
  BY <1>0, Zenon DEF Shape, Crash
<1>5. Shape'
  BY <1>0, <1>1, <1>3, <1>4 DEF Shape
<1>6. /\ chunk'[p] = << >> /\ batch'[p] = << >> /\ pc'[p] = "idle"
      /\ failed'[p] = {} /\ sent'[p] = {}
  BY <1>0 DEF Shape, Crash
<1>7. \A w \in Publishers \ {p} :
        /\ chunk'[w] = chunk[w] /\ batch'[w] = batch[w] /\ pc'[w] = pc[w]
        /\ failed'[w] = failed[w] /\ sent'[w] = sent[w]
  BY <1>0 DEF Shape, Crash
<1> DEFINE S == {}
<1>8. (\A e \in S : Committed(e)) /\ Holds(p)' \subseteq Holds(p) \cup S
  BY <1>2, <1>6 DEF Holds
<1> HIDE DEF S
<1>9. \A e \in Events : Committed(e) => Committed(e)'
  BY <1>0 DEF Committed
<1> QED
  BY <1>0, <1>5, <1>6, <1>7, <1>8, <1>9, TickStep

\* Any step of a publisher, and the end of a lease.
LEMMA PublisherStep ==
  ASSUME PublisherInv,
         \/ \E p \in Publishers : Claim(p) \/ Work(p)
         \/ \E p \in Publishers : PublishBatchFails(p) \/ PublishOneFails(p)
         \/ \E p \in Publishers : SettleFails(p) \/ Crash(p)
         \/ \E e \in Events : Expire(e)
  PROVE  PublisherInv'
<1>1. ASSUME NEW e \in Events, Expire(e) PROVE PublisherInv'
  <2>1. UNCHANGED << state, due, clock, queue, pc, batch, chunk, single, failed, sent, faults >>
    BY <1>1 DEF Expire, publisher
  <2>2. locked' \in [Events -> BOOLEAN]
    BY <1>1, Zenon DEF Expire, PublisherInv, Shape
  <2>3. Shape'
    BY <2>1, <2>2 DEF PublisherInv, Shape
  <2> QED
    BY <2>1, <2>3 DEF PublisherInv, ChunkWaits, HeldCommitted, Holds, Committed,
       SentDelivered,
                      PublishedIsDelivered
<1> QED
  BY <1>1, ClaimKeeps, SendsKeep, SettleKeeps, CrashKeeps DEF Work

\* It shows no event and hides none, and the broker keeps what it has.
LEMMA PublisherEffects ==
  ASSUME PublisherInv,
         \/ \E p \in Publishers : Claim(p) \/ Work(p)
         \/ \E p \in Publishers : PublishBatchFails(p) \/ PublishOneFails(p)
         \/ \E p \in Publishers : SettleFails(p) \/ Crash(p)
         \/ \E e \in Events : Expire(e)
  PROVE  /\ \A e \in Events : Committed(e)' <=> Committed(e)
         /\ ToSet(queue) \subseteq ToSet(queue')
<1>0. Shape
  BY DEF PublisherInv
<1>1. \A e \in Events : Committed(e)' <=> Committed(e)
  <2>1. CASE \E p \in Publishers : MarkPublished(p)
    <3>1. PICK p \in Publishers : MarkPublished(p)
      BY <2>1
    <3>2. \A e \in Events : state'[e] = IF e \in sent[p] THEN "published" ELSE state[e]
      BY <3>1 DEF MarkPublished
    <3>3. \A e \in sent[p] : Committed(e)
      BY DEF PublisherInv, HeldCommitted, Holds
    <3> QED
      BY <3>2, <3>3 DEF Committed
  <2>2. CASE UNCHANGED state
    BY <2>2 DEF Committed
  <2> QED
    BY <2>1, <2>2
    DEF Claim, Work, PublishBatch, PublishOne, Reschedule, PublishBatchFails, PublishOneFails,
        SettleFails, Crash, Expire, rows
<1>2. ToSet(queue) \subseteq ToSet(queue')
  <2>1. ASSUME NEW p \in Publishers, NEW X \in SUBSET ToSet(chunk[p]), Accept(chunk[p], X)
        PROVE  ToSet(queue) \subseteq ToSet(queue')
    <3>1. queue \in Seq(Events) /\ X \in SUBSET Events
      BY <1>0, ChunkElements DEF Shape
    <3> QED
      BY <2>1, <3>1, AcceptAdds
  <2>2. CASE UNCHANGED queue
    BY <2>2
  <2>3. ASSUME NEW p \in Publishers,
               PublishBatch(p) \/ PublishBatchFails(p) \/ PublishOne(p) \/ PublishOneFails(p)
        PROVE  ToSet(queue) \subseteq ToSet(queue')
    <3>1. pc[p] = "send" /\ chunk[p] # << >>
      BY <2>3 DEF PublisherInv, ChunkWaits, PublishBatch, PublishBatchFails, PublishOne,
                  PublishOneFails
    <3>2. {Head(chunk[p])} \in SUBSET ToSet(chunk[p]) /\ ToSet(chunk[p]) \in SUBSET ToSet(chunk[p])
      BY <1>0, <3>1, ChunkElements
    <3>3. \A B : ToSet(chunk[p]) \ B \in SUBSET ToSet(chunk[p])
      OBVIOUS
    <3>4. \/ UNCHANGED queue \/ Accept(chunk[p], {Head(chunk[p])})
          \/ Accept(chunk[p], ToSet(chunk[p]))
          \/ \E B \in SUBSET ToSet(chunk[p]) : Accept(chunk[p], ToSet(chunk[p]) \ B)
      BY <2>3 DEF PublishBatch, PublishBatchFails, PublishOne, PublishOneFails
    <3> QED
      BY <2>1, <2>2, <3>2, <3>3, <3>4
  <2> QED
    BY <2>2, <2>3
    DEF Claim, Work, Reschedule, MarkPublished, SettleFails, Crash, Expire
<1> QED
  BY <1>1, <1>2

-----------------------------------------------------------------------------
(* The writers *)

\* A step of a writer: it hides no event and marks none.
LEMMA RowStep ==
  ASSUME PublisherInv, UNCHANGED << locked, queue, publisher >>, faults' \in 0 .. MaxFaults,
         state' \in [Events -> {"none", "begun", "pending", "published"}],
         due' \in [Events -> Nat], clock' \in Nat \ {0},
         \A d \in Events : Committed(d) => Committed(d)',
         \A d \in Events : state'[d] = "published" => state[d] = "published"
  PROVE  PublisherInv'
<1>0. Shape /\ UNCHANGED << locked, queue, pc, batch, chunk, single, failed, sent >>
  BY DEF PublisherInv, publisher
<1>1. Shape'
  BY <1>0 DEF Shape
<1>2. \A p \in Publishers : Holds(p)' = Holds(p) /\ Holds(p) \subseteq Events
  <2>1. \A p \in Publishers : ToSet(batch[p]) \subseteq Events /\ ToSet(chunk[p]) \subseteq Events
    BY <1>0, ChunkElements
  <2> QED
    BY <1>0, <2>1 DEF Holds, Shape
<1>3. HeldCommitted'
  BY <1>2 DEF HeldCommitted, PublisherInv
<1>4. ChunkWaits' /\ SentDelivered'
  BY <1>0 DEF ChunkWaits, SentDelivered, PublisherInv
<1>5. PublishedIsDelivered'
  <2>1. \A k \in DOMAIN queue : queue[k] \in Events
    BY <1>0 DEF Shape
  <2> QED
    BY <1>0, <2>1 DEF PublishedIsDelivered, PublisherInv, Committed
<1> QED
  BY <1>1, <1>3, <1>4, <1>5 DEF PublisherInv

\* A transaction that begins shows nothing; one that commits only adds.
LEMMA WriterStep ==
  ASSUME PublisherInv, NEW e \in Events, Begin(e) \/ Add(e)
  PROVE  PublisherInv'
<1>0. Shape /\ UNCHANGED << locked, queue, publisher, faults >>
  BY DEF PublisherInv, Begin, Add
<1>1. /\ state' \in [Events -> {"none", "begun", "pending", "published"}]
      /\ \A d \in Events : Committed(d) => state'[d] = state[d]
      /\ \A d \in Events : state'[d] = "published" => state[d] = "published"
  <2>1. state \in [Events -> {"none", "begun", "pending", "published"}]
    BY <1>0 DEF Shape
  <2>2. CASE Begin(e)
    BY <2>1, <2>2 DEF Begin, Committed
  <2>3. CASE Add(e)
    BY <2>1, <2>3 DEF Add, Committed
  <2> QED
    BY <2>2, <2>3
<1>2. due' \in [Events -> Nat] /\ clock' \in Nat \ {0}
  <2>1. \/ UNCHANGED << due, clock >>
        \/ due' = [due EXCEPT ![e] = clock] /\ clock' = clock + 1
    BY DEF Begin, Add
  <2> QED
    BY <1>0, <2>1 DEF Shape
<1>3. \A d \in Events : Committed(d) => Committed(d)'
  BY <1>1 DEF Committed
<1>4. faults' \in 0 .. MaxFaults
  BY <1>0 DEF Shape
<1> QED
  BY <1>0, <1>1, <1>2, <1>3, <1>4, RowStep

-----------------------------------------------------------------------------
(* The clock *)

LEMMA Counts ==
  ASSUME ClockInv
  PROVE  /\ Cardinality(Failures) \in Nat
         /\ IsFiniteSet(Started) /\ Cardinality(Started) \in Nat
         /\ Cardinality(Started) <= Cardinality(Events) /\ Cardinality(Events) \in Nat
<1>1. Started \in SUBSET Events
  BY DEF Started
<1> QED
  BY <1>1, EventsAssumption, FS_Subset, FS_CardinalityType DEF ClockInv

LEMMA CountsAddUp ==
  ASSUME NEW t \in Nat, NEW a \in Nat, NEW b \in Nat, NEW c \in Nat, NEW d \in Nat,
         NEW s \in Nat, NEW n \in Nat, NEW x \in Nat, NEW y \in Nat,
         d <= a + b - c, b <= n, t + a <= 1 + s + x, y >= x + n
  PROVE  t + d <= 1 + s + y
  OBVIOUS

\* Failures that are struck off, or grow by n, with as many faults.
LEMMA FailuresGrow ==
  ASSUME Shape, ClockInv, NEW X, IsFiniteSet(X), NEW n \in Nat, Cardinality(X) <= n,
         Failures' \subseteq Failures \cup X,
         Started' = Started, UNCHANGED << clock, due >>,
         faults' \in Nat, faults' >= faults + n
  PROVE  ClockInv'
<1>1. /\ Cardinality(Failures) \in Nat /\ Cardinality(Started) \in Nat
      /\ clock \in Nat /\ faults \in Nat
  BY Counts DEF Shape
<1>2. /\ IsFiniteSet(Failures \cup X)
      /\ Cardinality(Failures \cup X)
           = Cardinality(Failures) + Cardinality(X) - Cardinality(Failures \cap X)
  BY FS_Union DEF ClockInv
<1>3. Cardinality(Failures \cap X) \in Nat /\ Cardinality(X) \in Nat
  BY FS_Intersection, FS_CardinalityType DEF ClockInv
<1>4. /\ IsFiniteSet(Failures') /\ Cardinality(Failures') \in Nat
      /\ Cardinality(Failures') <= Cardinality(Failures \cup X)
  <2>1. Failures' \in SUBSET (Failures \cup X)
    OBVIOUS
  <2>2. \A T \in SUBSET (Failures \cup X) :
          /\ IsFiniteSet(T) /\ Cardinality(T) \in Nat
          /\ Cardinality(T) <= Cardinality(Failures \cup X)
    BY <1>2, FS_Subset, FS_CardinalityType
  <2> QED
    BY <2>1, <2>2
<1>5. clock' + Cardinality(Failures') <= 1 + Cardinality(Started') + faults'
  <2> DEFINE a == Cardinality(Failures)
             b == Cardinality(X)
             c == Cardinality(Failures \cap X)
             d == Cardinality(Failures')
             s == Cardinality(Started)
  <2>1. a \in Nat /\ b \in Nat /\ c \in Nat /\ d \in Nat /\ s \in Nat
    BY <1>1, <1>3, <1>4
  <2>2. d <= a + b - c /\ b <= n /\ clock + a <= 1 + s + faults
    BY <1>2, <1>4 DEF ClockInv
  <2> HIDE DEF a, b, c, d, s
  <2>3. clock + d <= 1 + s + faults'
    BY <1>1, <2>1, <2>2, CountsAddUp
  <2> QED
    BY <2>3 DEF d, s
<1> QED
  BY <1>4, <1>5 DEF ClockInv

\* The clock in every step of a publisher.
LEMMA ClockTick ==
  ASSUME PublisherInv, Shape', ClockInv, NEW p \in Publishers,
         Claim(p) \/ Work(p) \/ PublishBatchFails(p) \/ PublishOneFails(p)
           \/ SettleFails(p) \/ Crash(p)
  PROVE  ClockInv'
<1>0. /\ Shape /\ faults \in Nat /\ faults' \in Nat
      /\ IsFiniteSet({}) /\ Cardinality({}) = 0
  BY FS_EmptySet DEF PublisherInv, Shape
<1>1. Started' = Started
  <2>1. \A e \in Events : state'[e] # "none" <=> state[e] # "none"
    <3>1. CASE MarkPublished(p)
      <4>1. \A e \in Events : state'[e] = IF e \in sent[p] THEN "published" ELSE state[e]
        BY <3>1 DEF MarkPublished
      <4>2. \A e \in sent[p] : state[e] # "none"
        BY DEF PublisherInv, HeldCommitted, Holds, Committed
      <4> QED
        BY <4>1, <4>2
    <3>2. CASE UNCHANGED state
      BY <3>2
    <3> QED
      BY <3>1, <3>2
      DEF Claim, Work, PublishBatch, PublishOne, Reschedule, PublishBatchFails,
          PublishOneFails, SettleFails, Crash, rows
  <2> QED
    BY <2>1 DEF Started
<1>2. CASE PublishBatch(p)
  <2>1. PICK bad \in SUBSET ToSet(chunk[p]) :
          /\ faults' = faults + Cardinality(bad)
          /\ failed' = [failed EXCEPT ![p] = bad]
    BY <1>2 DEF PublishBatch
  <2>2. bad \subseteq Events /\ IsFiniteSet(bad) /\ Cardinality(bad) \in Nat
    BY <1>0, ChunkElements, FS_Subset, FS_CardinalityType
  <2> DEFINE X == {p} \X bad
  <2>3. IsFiniteSet({p}) /\ Cardinality({p}) = 1
    BY FS_Singleton
  <2>4. IsFiniteSet(X) /\ Cardinality(X) = Cardinality({p}) * Cardinality(bad)
    BY <2>2, <2>3, FS_Product
  <2>5. Cardinality(X) <= Cardinality(bad)
    BY <2>2, <2>3, <2>4
  <2>6. Failures' \subseteq Failures \cup X
    BY <1>0, <2>1 DEF Failures, Shape
  <2>7. UNCHANGED << clock, due >> /\ faults' >= faults + Cardinality(bad)
    BY <1>0, <1>2, <2>1, <2>2 DEF PublishBatch, rows
  <2> HIDE DEF X
  <2> QED
    BY <1>0, <1>1, <2>2, <2>4, <2>5, <2>6, <2>7, FailuresGrow
<1>3. CASE PublishOneFails(p)
  <2> DEFINE X == {<< p, Head(chunk[p]) >>}
  <2>1. IsFiniteSet(X) /\ Cardinality(X) <= 1 /\ 1 \in Nat
    <3>1. IsFiniteSet(X) /\ Cardinality(X) = 1
      BY FS_Singleton, Zenon
    <3> QED
      BY <3>1
  <2>2. failed' = [failed EXCEPT ![p] = {Head(chunk[p])}]
    BY <1>3 DEF PublishOneFails
  <2>3. Failures' \subseteq Failures \cup X
    <3>1. failed'[p] = {Head(chunk[p])} /\ \A w \in Publishers \ {p} : failed'[w] = failed[w]
      BY <1>0, <2>2 DEF Shape
    <3> SUFFICES ASSUME NEW w \in Publishers, NEW e \in Events, e \in failed'[w]
                 PROVE  << w, e >> \in Failures \cup X
      BY DEF Failures
    <3>2. CASE w = p
      BY <3>1, <3>2
    <3>3. CASE w # p
      BY <3>1, <3>3 DEF Failures
    <3> QED
      BY <3>2, <3>3
  <2>4. UNCHANGED << clock, due >> /\ faults' >= faults + 1
    BY <1>0, <1>3 DEF PublishOneFails, rows
  <2> HIDE DEF X
  <2> QED
    BY <1>0, <1>1, <2>1, <2>3, <2>4, FailuresGrow
<1>4. CASE Reschedule(p)
  <2>1. PICK e \in failed[p] :
          /\ failed' = [failed EXCEPT ![p] = @ \ {e}]
          /\ \/ UNCHANGED << due, clock >>
             \/ /\ \E b \in 0 .. MaxDelay : due' = [due EXCEPT ![e] = clock + b]
                /\ clock' = clock + 1
    BY <1>4 DEF Reschedule
  <2>2. e \in Events /\ << p, e >> \in Failures /\ UNCHANGED faults
    BY <1>0, <1>4 DEF Shape, Failures, Reschedule
  <2>3. Failures' = Failures \ {<< p, e >>}
    <3>1. failed'[p] = failed[p] \ {e} /\ \A w \in Publishers \ {p} : failed'[w] = failed[w]
      BY <1>0, <2>1 DEF Shape
    <3>2. \A w \in Publishers, d \in Events :
            d \in failed'[w] <=> d \in failed[w] /\ << w, d >> # << p, e >>
      BY <3>1
    <3> QED
      BY <3>2 DEF Failures
  <2>4. /\ IsFiniteSet(Failures')
        /\ Cardinality(Failures') = Cardinality(Failures) - 1
    <3>1. /\ IsFiniteSet(Failures \ {<< p, e >>})
          /\ Cardinality(Failures \ {<< p, e >>}) = Cardinality(Failures) - 1
      BY <2>2, FS_RemoveElement DEF ClockInv
    <3> QED
      BY <2>3, <3>1
  <2>5. Cardinality(Failures) \in Nat /\ Cardinality(Started) \in Nat /\ clock \in Nat
    BY <1>0, Counts DEF Shape
  <2>6. clock' + Cardinality(Failures') <= 1 + Cardinality(Started') + faults'
    <3>1. clock' <= clock + 1 /\ clock' \in Nat
      BY <2>1, <2>5
    <3>2. clock + Cardinality(Failures) <= 1 + Cardinality(Started) + faults
      BY DEF ClockInv
    <3> QED
      BY <1>0, <1>1, <2>2, <2>4, <2>5, <3>1, <3>2
  <2>7. \A d \in Events : due'[d] < clock' + MaxDelay
    <3>1. due \in [Events -> Nat] /\ \A d \in Events : due[d] < clock + MaxDelay
      BY <1>0 DEF ClockInv, Shape
    <3> QED
      BY <2>1, <2>5, <3>1, DelayAssumption
  <2> QED
    BY <2>4, <2>6, <2>7 DEF ClockInv
<1>5. CASE /\ UNCHANGED << clock, due >> /\ faults' >= faults
           /\ \A w \in Publishers : failed'[w] \subseteq failed[w]
  <2> DEFINE X == {}
  <2>1. Failures' \subseteq Failures \cup X
    BY <1>5 DEF Failures
  <2>2. IsFiniteSet(X) /\ Cardinality(X) <= 0 /\ 0 \in Nat /\ faults' >= faults + 0
    BY <1>0, <1>5
  <2> HIDE DEF X
  <2> QED
    BY <1>0, <1>1, <1>5, <2>1, <2>2, FailuresGrow
<1>6. CASE \/ Claim(p) \/ PublishOne(p) \/ MarkPublished(p) \/ PublishBatchFails(p)
           \/ SettleFails(p) \/ Crash(p)
  <2>1. UNCHANGED << clock, due >> /\ faults' >= faults
    BY <1>0, <1>6 DEF Claim, PublishOne, MarkPublished, PublishBatchFails, SettleFails,
       Crash,
                      rows
  <2>2. UNCHANGED failed \/ failed' = [failed EXCEPT ![p] = {}]
          \/ \E e \in failed[p] : failed' = [failed EXCEPT ![p] = @ \ {e}]
    BY <1>6 DEF Claim, PublishOne, MarkPublished, PublishBatchFails, SettleFails, Crash
  <2>3. \A w \in Publishers : failed'[w] \subseteq failed[w]
    <3>1. failed = [w \in Publishers |-> failed[w]]
      BY <1>0 DEF Shape
    <3>2. UNCHANGED failed \/ \E s \in SUBSET failed[p] : failed' = [failed EXCEPT ![p] = s]
      BY <2>2
    <3> QED
      BY <3>1, <3>2
  <2> QED
    BY <1>5, <2>1, <2>3
<1> QED
  BY <1>2, <1>3, <1>4, <1>6 DEF Work

\* The clock in every other step.
LEMMA ClockStep ==
  ASSUME Inv, Shape', [Next]_vars
  PROVE  ClockInv'
<1>0. /\ PublisherInv /\ Shape /\ ClockInv
      /\ Cardinality(Failures) \in Nat /\ Cardinality(Started) \in Nat
      /\ IsFiniteSet(Started) /\ clock \in Nat
  BY Counts DEF Inv, PublisherInv, Shape
<1>1. ASSUME NEW e \in Events, Begin(e) PROVE ClockInv'
  <2>1. /\ state[e] = "none" /\ state' = [state EXCEPT ![e] = "begun"]
        /\ due' = [due EXCEPT ![e] = clock] /\ clock' = clock + 1
        /\ UNCHANGED << failed, faults >>
    BY <1>1 DEF Begin, publisher
  <2>2. Started' = Started \cup {e} /\ e \notin Started
    BY <1>0, <2>1 DEF Started, Shape
  <2>3. Cardinality(Started') = Cardinality(Started) + 1
    <3>1. Cardinality(Started \cup {e}) = Cardinality(Started) + 1
      BY <1>0, <2>2, FS_AddElement
    <3> QED
      BY <2>2, <3>1
  <2>4. Failures' = Failures
    BY <2>1 DEF Failures
  <2>5. \A d \in Events : due'[d] < clock' + MaxDelay
    BY <1>0, <2>1, DelayAssumption DEF ClockInv, Shape
  <2>6. clock' + Cardinality(Failures') <= 1 + Cardinality(Started') + faults'
    <3>1. clock + Cardinality(Failures) <= 1 + Cardinality(Started) + faults /\ faults \in Nat
      BY <1>0 DEF ClockInv, Shape
    <3> QED
      BY <1>0, <2>1, <2>3, <2>4, <3>1
  <2> QED
    BY <1>0, <2>4, <2>5, <2>6 DEF ClockInv
<1>2. CASE \E e \in Events : Add(e) \/ Expire(e)
  <2>1. UNCHANGED << due, clock, failed, faults >>
    BY <1>2 DEF Add, Expire, publisher
  <2>2. Started' = Started
    BY <1>0, <1>2 DEF Add, Expire, Started, Shape
  <2> QED
    BY <1>0, <2>1, <2>2 DEF ClockInv, Failures
<1>3. CASE UNCHANGED vars
  BY <1>0, <1>3 DEF vars, rows, publisher, ClockInv, Failures, Started
<1> QED
  BY <1>0, <1>1, <1>2, <1>3, ClockTick DEF Next

\* An empty outbox.
LEMMA InitInv == Init => Inv
<1> SUFFICES ASSUME Init PROVE Inv
  OBVIOUS
<1>1. << >> \in Seq(Events) /\ ToSet(<< >>) = {}
  BY EmptySeq, Elements
<1>2. Shape
  <2>1. locked \in [Events -> BOOLEAN] /\ single \in [Publishers -> BOOLEAN]
    BY Zenon DEF Init
  <2> QED
    BY <1>1, <2>1, OutboxFaultsAssumption DEF Init, Shape
<1>3. ChunkWaits /\ HeldCommitted /\ SentDelivered /\ PublishedIsDelivered
  BY <1>1 DEF Init, ChunkWaits, HeldCommitted, Holds, SentDelivered, PublishedIsDelivered
<1>4. Failures = {} /\ Started = {} /\ clock = 1 /\ faults = 0 /\ \A e \in Events : due[e] = 0
  BY DEF Init, Failures, Started
<1>5. ClockInv
  BY <1>4, FS_EmptySet, DelayAssumption DEF ClockInv
<1> QED
  BY <1>2, <1>3, <1>5 DEF Inv, PublisherInv

-----------------------------------------------------------------------------
(* Theorems *)

\* Inv is inductive, so it holds throughout: the basis of the theorems below.
THEOREM Invariance == Spec => []Inv
<1>1. Init => Inv
  BY InitInv
<1>2. Inv /\ [Next]_vars => Inv'
  <2> SUFFICES ASSUME Inv, [Next]_vars PROVE Inv'
    OBVIOUS
  <2>1. PublisherInv'
    <3>1. CASE UNCHANGED vars
      BY <3>1 DEF vars, rows, publisher, Inv, PublisherInv, Shape, ChunkWaits,
         HeldCommitted,
                  Holds, Committed, SentDelivered, PublishedIsDelivered
    <3> QED
      BY <3>1, PublisherStep, WriterStep DEF Next, Inv
  <2>2. Shape'
    BY <2>1 DEF PublisherInv
  <2> QED
    BY <2>1, <2>2, ClockStep DEF Inv
<1> QED
  BY <1>1, <1>2, PTL DEF Spec

\* TypeOK for every instance.  The bound on the clock is the point: a row is
\* given a new time only when its transaction begins or a failed send of it is
\* rescheduled, once for each, so that retries cannot multiply.
THEOREM OutboxTypeCorrect == Spec => []TypeOK
<1>1. Inv => TypeOK
  <2> SUFFICES ASSUME Inv PROVE TypeOK
    OBVIOUS
  <2>1. Shape /\ ClockInv
    BY DEF Inv, PublisherInv
  <2>2. /\ Cardinality(Failures) \in Nat /\ Cardinality(Started) \in Nat
        /\ Cardinality(Started) <= Cardinality(Events) /\ Cardinality(Events) \in Nat
    BY <2>1, Counts
  <2>3. clock \in 1 .. Cardinality(Events) + MaxFaults + 1
    BY <2>1, <2>2, OutboxFaultsAssumption DEF Shape, ClockInv
  <2>4. \A e \in Events : due[e] \in 0 .. Cardinality(Events) + MaxFaults + MaxDelay
    BY <2>1, <2>2, <2>3, OutboxFaultsAssumption, DelayAssumption DEF Shape, ClockInv
  <2>5. due \in [Events -> 0 .. Cardinality(Events) + MaxFaults + MaxDelay]
    BY <2>1, <2>4 DEF Shape
  <2> QED
    BY <2>1, <2>3, <2>5 DEF TypeOK, Shape
<1> QED
  BY <1>1, Invariance, PTL

\* A row is marked published only when the broker has its event, and the
\* broker has only events whose transaction committed: with any number of
\* publishers, leases that run out under a publisher at work, sends that fail
\* with or without effect, and crashes at every point.
THEOREM PublishedIsSafe == Spec => []PublishedIsDelivered
<1>1. Inv => PublishedIsDelivered
  BY DEF Inv, PublisherInv
<1> QED
  BY <1>1, Invariance, PTL

-----------------------------------------------------------------------------
(* The length of a tick *)

\* A sequence has at most as many elements as places.
LEMMA FewElements ==
  ASSUME NEW T, NEW q \in Seq(T), NEW S \in SUBSET ToSet(q)
  PROVE  IsFiniteSet(S) /\ Cardinality(S) \in Nat /\ Cardinality(S) <= Len(q)
<1>1. Len(q) \in Nat /\ q \in [1 .. Len(q) -> T]
  BY LenProperties
<1>2. ToSet(q) = {q[i] : i \in 1 .. Len(q)}
  BY Elements
<1>3. q \in Surjection(1 .. Len(q), ToSet(q))
  BY <1>1, <1>2 DEF Surjection
<1>4. IsFiniteSet(1 .. Len(q)) /\ Cardinality(1 .. Len(q)) = Len(q)
  BY <1>1, FS_Interval
<1>5. IsFiniteSet(ToSet(q)) /\ Cardinality(ToSet(q)) <= Len(q)
  BY <1>3, <1>4, FS_Surjection
<1>6. IsFiniteSet(S) /\ Cardinality(S) <= Cardinality(ToSet(q))
  BY <1>5, FS_Subset
<1>7. Cardinality(S) \in Nat /\ Cardinality(ToSet(q)) \in Nat
  BY <1>5, <1>6, FS_CardinalityType
<1> QED
  BY <1>1, <1>5, <1>6, <1>7

\* Take loses and repeats nothing.
LEMMA TakeLength ==
  ASSUME Shape, NEW p \in Publishers, NEW q \in Seq(Events), Take(p, q)
  PROVE  /\ pc'[p] \in {"idle", "send"}
         /\ Len(chunk'[p]) \in Nat /\ Len(batch'[p]) \in Nat
         /\ Len(chunk'[p]) + Len(batch'[p]) = Len(q)
<1> DEFINE n == IF Len(q) < ChunkLimit THEN Len(q) ELSE ChunkLimit
<1>1. Len(q) \in Nat
  BY LenProperties
<1>2. n \in 0 .. Len(q)
  BY <1>1, BatchAssumption
<1>3. /\ chunk'[p] = SubSeq(q, 1, n) /\ batch'[p] = SubSeq(q, n + 1, Len(q))
      /\ pc'[p] = IF n = 0 THEN "idle" ELSE "send"
  BY DEF Take, Shape
<1> HIDE DEF n
<1>4. Len(SubSeq(q, 1, n)) = n /\ Len(SubSeq(q, n + 1, Len(q))) = Len(q) - n
  BY <1>2, Split
<1> QED
  BY <1>1, <1>2, <1>3, <1>4

\* What is settled leaves the rest of the batch as it was.
LEMMA GoOnLength ==
  ASSUME Shape, NEW p \in Publishers, GoOn(p)
  PROVE  /\ pc'[p] \in {"idle", "send"}
         /\ Len(chunk'[p]) \in Nat /\ Len(batch'[p]) \in Nat
         /\ Len(chunk'[p]) + Len(batch'[p]) = Len(chunk[p]) + Len(batch[p])
<1>1. /\ batch[p] \in Seq(Events)
      /\ Len(chunk[p]) \in Nat /\ Len(batch[p]) \in Nat
  BY LenProperties DEF Shape
<1>2. CASE chunk[p] # << >>
  BY <1>1, <1>2 DEF GoOn, Shape
<1>3. CASE chunk[p] = << >>
  <2>1. Take(p, batch[p]) /\ Len(chunk[p]) = 0
    BY <1>3 DEF GoOn
  <2>2. /\ pc'[p] \in {"idle", "send"}
        /\ Len(chunk'[p]) \in Nat /\ Len(batch'[p]) \in Nat
        /\ Len(chunk'[p]) + Len(batch'[p]) = Len(batch[p])
    BY <1>1, <2>1, TakeLength
  <2>3. Len(chunk[p]) + Len(batch[p]) = Len(batch[p])
    BY <1>1, <2>1
  <2> QED
    BY <2>2, <2>3
<1> QED
  BY <1>2, <1>3

\* What of Remaining depends on the call the tick is in.
LEMMA RemainingIs ==
  ASSUME NEW p \in Publishers
  PROVE  /\ pc[p] = "settle" => Remaining(p) =
              4 * (Len(chunk[p]) + Len(batch[p])) + Cardinality(failed[p]) + 3
         /\ pc[p] = "send" /\ single[p] => Remaining(p) =
              4 * (Len(chunk[p]) + Len(batch[p])) + Cardinality(failed[p]) + 1
         /\ pc[p] = "send" /\ ~single[p] => Remaining(p) =
              4 * (Len(chunk[p]) + Len(batch[p])) + Cardinality(failed[p]) + 2
  BY DEF Remaining

\* The same of the next state.
LEMMA RemainingNext ==
  ASSUME NEW p \in Publishers
  PROVE  /\ pc'[p] = "settle" => Remaining(p)' =
              4 * (Len(chunk'[p]) + Len(batch'[p])) + Cardinality(failed'[p]) + 3
         /\ pc'[p] = "send" /\ single'[p] => Remaining(p)' =
              4 * (Len(chunk'[p]) + Len(batch'[p])) + Cardinality(failed'[p]) + 1
         /\ pc'[p] = "send" /\ ~single'[p] => Remaining(p)' =
              4 * (Len(chunk'[p]) + Len(batch'[p])) + Cardinality(failed'[p]) + 2
  BY DEF Remaining

\* The calls of a tick, failed or not.
LEMMA TickShrinks ==
  ASSUME Shape, ChunkWaits, NEW p \in Publishers,
         Work(p) \/ PublishBatchFails(p) \/ PublishOneFails(p) \/ SettleFails(p) \/ Crash(p)
  PROVE  pc'[p] = "idle" \/ Remaining(p)' < Remaining(p)
<1> DEFINE c == Len(chunk[p])
           b == Len(batch[p])
           f == Cardinality(failed[p])
           Goal == pc'[p] = "idle" \/ Remaining(p)' < Remaining(p)
<1>0. /\ chunk[p] \in Seq(Events) /\ c \in Nat /\ b \in Nat
      /\ chunk \in [Publishers -> Seq(Events)] /\ batch \in [Publishers -> Seq(Events)]
      /\ pc \in [Publishers -> {"idle", "send", "settle"}]
      /\ failed \in [Publishers -> SUBSET Events]
      /\ single \in [Publishers -> BOOLEAN]
  BY LenProperties DEF Shape
<1>1. IsFiniteSet(failed[p]) /\ f \in Nat
  <2>1. failed[p] \in SUBSET Events
    BY <1>0
  <2> QED
    BY <2>1, EventsAssumption, FS_Subset, FS_CardinalityType
<1>2. pc[p] = "send" => chunk[p] # << >> /\ c > 0
  <2>1. pc[p] = "send" => chunk[p] # << >>
    BY DEF ChunkWaits
  <2>2. c = 0 => chunk[p] = << >>
    BY <1>0, EmptySeq
  <2> QED
    BY <1>0, <2>1, <2>2
<1> HIDE DEF c, b, f
<1>3. CASE PublishBatch(p)
  <2>1. PICK bad \in SUBSET ToSet(chunk[p]) : failed' = [failed EXCEPT ![p] = bad]
    BY <1>3 DEF PublishBatch
  <2>2. Cardinality(bad) \in Nat /\ Cardinality(bad) <= c
    BY <1>0, FewElements DEF c
  <2>3. /\ pc[p] = "send" /\ ~single[p] /\ pc'[p] = "settle"
        /\ chunk'[p] = << >> /\ batch'[p] = batch[p] /\ failed'[p] = bad
    BY <1>0, <1>3, <2>1 DEF PublishBatch
  <2>4. Len(chunk'[p]) = 0
    BY <2>3
  <2>5. Remaining(p) = 4 * (c + b) + f + 2 /\ Remaining(p)' = 4 * (0 + b) + Cardinality(bad) + 3
    BY <2>3, <2>4, RemainingIs, RemainingNext DEF c, b, f
  <2> QED
    BY <1>0, <1>1, <1>2, <2>2, <2>3, <2>5
<1>4. CASE PublishBatchFails(p)
  <2>1. /\ pc[p] = "send" /\ ~single[p] /\ pc'[p] = "send" /\ single'[p]
        /\ UNCHANGED << chunk, batch, failed >>
    BY <1>0, <1>4 DEF PublishBatchFails
  <2>2. Remaining(p) = 4 * (c + b) + f + 2 /\ Remaining(p)' = 4 * (c + b) + f + 1
    BY <2>1, RemainingIs, RemainingNext DEF c, b, f
  <2> QED
    BY <1>0, <1>1, <2>2
<1>5. CASE PublishOne(p) \/ PublishOneFails(p)
  <2>1. /\ pc[p] = "send" /\ single[p] /\ pc'[p] = "settle"
        /\ chunk'[p] = Tail(chunk[p]) /\ batch'[p] = batch[p]
        /\ failed'[p] = failed[p] \/ failed'[p] = {Head(chunk[p])}
    BY <1>0, <1>5 DEF PublishOne, PublishOneFails
  <2>2. Len(chunk'[p]) = c - 1
    BY <1>0, <1>2, <2>1, HeadTailProperties DEF c
  <2>3. Cardinality(failed'[p]) \in Nat /\ Cardinality(failed'[p]) <= f + 1
    <3>1. Cardinality({Head(chunk[p])}) = 1
      BY FS_Singleton
    <3>2. CASE failed'[p] = failed[p]
      <4>1. Cardinality(failed'[p]) = f
        BY <3>2 DEF f
      <4> QED
        BY <1>1, <4>1
    <3>3. CASE failed'[p] = {Head(chunk[p])}
      BY <1>1, <3>1, <3>3
    <3> QED
      BY <2>1, <3>2, <3>3
  <2>4. /\ Remaining(p) = 4 * (c + b) + f + 1
        /\ Remaining(p)' = 4 * ((c - 1) + b) + Cardinality(failed'[p]) + 3
    BY <2>1, <2>2, RemainingIs, RemainingNext DEF c, b, f
  <2> QED
    BY <1>0, <1>1, <2>3, <2>4
<1>6. ASSUME NEW e \in failed[p], pc[p] = "settle", failed' = [failed EXCEPT ![p] = @ \ {e}],
             UNCHANGED << pc, batch, chunk >>
      PROVE  Goal
  <2>1. Cardinality(failed'[p]) = f - 1
    <3>1. failed'[p] = failed[p] \ {e}
      BY <1>0, <1>6
    <3>2. Cardinality(failed[p] \ {e}) = Cardinality(failed[p]) - 1
      BY <1>1, <1>6, FS_RemoveElement
    <3> QED
      BY <3>1, <3>2 DEF f
  <2>2. Remaining(p) = 4 * (c + b) + f + 3 /\ Remaining(p)' = 4 * (c + b) + (f - 1) + 3
    BY <1>6, <2>1, RemainingIs, RemainingNext DEF c, b, f
  <2> QED
    BY <1>0, <1>1, <2>2
<1>7. ASSUME pc[p] = "settle", GoOn(p), UNCHANGED failed PROVE Goal
  <2>1. /\ pc'[p] \in {"idle", "send"}
        /\ Len(chunk'[p]) \in Nat /\ Len(batch'[p]) \in Nat
        /\ Len(chunk'[p]) + Len(batch'[p]) = c + b
    BY <1>7, GoOnLength DEF c, b
  <2>2. Remaining(p) = 4 * (c + b) + f + 3
    BY <1>7, RemainingIs DEF c, b, f
  <2>3. pc'[p] = "send" => \/ Remaining(p)' = 4 * (c + b) + f + 1
                          \/ Remaining(p)' = 4 * (c + b) + f + 2
    BY <1>7, <2>1, RemainingNext DEF f
  <2> QED
    BY <1>0, <1>1, <2>1, <2>2, <2>3
<1>8. CASE Reschedule(p)
  BY <1>6, <1>8 DEF Reschedule
<1>9. CASE MarkPublished(p)
  BY <1>7, <1>9 DEF MarkPublished
<1>10. CASE SettleFails(p)
  BY <1>6, <1>7, <1>10 DEF SettleFails
<1>11. CASE Crash(p)
  BY <1>0, <1>11 DEF Crash
<1> QED
  BY <1>3, <1>4, <1>5, <1>8, <1>9, <1>10, <1>11 DEF Work

\* Every call of a tick, successful or not, ends it or leaves less of it: with
\* any number of publishers and of failures, a tick is over after a number of
\* calls that what it claimed bounds, so failing sends cannot keep a publisher
\* from its next claim.  What is left to fairness is that calls return.
THEOREM TicksAdvance == Spec => TickAdvances
<1>1. ASSUME Inv
      PROVE  \A p \in Publishers :
               \/ Work(p) \/ PublishBatchFails(p) \/ PublishOneFails(p) \/ SettleFails(p) \/ Crash(p)
               => pc'[p] = "idle" \/ Remaining(p)' < Remaining(p)
  BY <1>1, TickShrinks DEF Inv, PublisherInv
<1> QED
  BY <1>1, Invariance, PTL DEF TickAdvances

=============================================================================
