------------------------------ MODULE Channel -------------------------------
(***************************************************************************)
(* What the service promises between its two queues: a message put into    *)
(* wager-transactions.fifo is applied at most once per messageId, or put   *)
(* aside in the dead-letter queue; an operation that is applied, and only  *)
(* such a one, is announced in the event queue, whether one message asks   *)
(* for it or several do.  A message may be both applied and put aside: its *)
(* commit is known to the database before it is to the worker.             *)
(***************************************************************************)
EXTENDS Sequences, SequencesExt

CONSTANT Messages       \* records with an id, and the operation they ask for as body

VARIABLES
  submitted,  \* the messages sent
  applied,    \* the messages whose operation is committed, in order
  announced,  \* the operations whose event subscribers can receive
  dead        \* the messages put aside

vars == << submitted, applied, announced, dead >>

Init ==
  /\ submitted = {} /\ announced = {} /\ dead = {}
  /\ applied = << >>

Submit(m) ==
  /\ m \notin submitted
  /\ submitted' = submitted \cup {m}
  /\ UNCHANGED << applied, announced, dead >>

Apply(m) ==
  /\ m \in submitted
  /\ \A k \in DOMAIN applied : applied[k].id # m.id
  /\ applied' = Append(applied, m)
  /\ UNCHANGED << submitted, announced, dead >>

\* One call may announce several.
Announce ==
  /\ \E S \in SUBSET ({m.body : m \in ToSet(applied)} \ announced) :
       S # {} /\ announced' = announced \cup S
  /\ UNCHANGED << submitted, applied, dead >>

PutAside(m) ==
  /\ m \in submitted \ dead
  /\ dead' = dead \cup {m}
  /\ UNCHANGED << submitted, applied, announced >>

Next == Announce \/ \E m \in Messages : Submit(m) \/ Apply(m) \/ PutAside(m)

Spec == Init /\ [][Next]_vars

=============================================================================
