------------------------- MODULE WagerHistoryProofs -------------------------
(***************************************************************************)
(* What WagerService promises about its history, for every set of wallets, *)
(* commands, messages and sessions: which rows come to exist, which never  *)
(* change, what a caller may rely on, who waits for whom.                  *)
(***************************************************************************)
EXTENDS WagerProofs

USE DEF Optional

-----------------------------------------------------------------------------
(* What may become of a transaction, given the committed rows T *)

\* The commands of both entry points.
Submitted == Commands \cup {m.cmd : m \in Messages}

\* The rows an operation refers to.
Referred(T, t) ==
  {i \in DOMAIN T : T[i].cmd.provider = t.cmd.provider /\ T[i].cmd.ext = t.cmd.ref}

\* Row i is final and t may refer to it.
Names(T, t, i) ==
  i \in Referred(T, t) /\ T[i].status \in Terminal /\ ReferenceFailure(t, T[i]) = Null

Reversed(T, i) == \E j \in DOMAIN T : IsProcessedReversal(T[j], i)

NeedsRow(t, w) == MatchesWallet(t, w) /\ NeedsReference(t)

\* The four ways apply ends for t on wallet row w: it reads no reference, it
\* parks or gives up, it refuses the reference, it accepts the reference.
Alone(t, w, o) == ~NeedsRow(t, w) /\ o = ApplyAlone(t, w)

Missing(T, t) ==
  \A i \in Referred(T, t) : T[i].status \notin Terminal \/ T[i].cmd.wallet # t.cmd.wallet

Parks(T, t, w, o) ==
  NeedsRow(t, w) /\ Missing(T, t) /\ \E at \in RetryTimes : o = Park(t, w, at)

Refuses(T, t, w, o) ==
  /\ NeedsRow(t, w)
  /\ \E i \in Referred(T, t) :
       /\ T[i].status \in Terminal /\ ReferenceFailure(t, T[i]) # Null
       /\ o = Rejected(t, w, ReferenceFailure(t, T[i]))

Accepts(T, t, w, o) ==
  /\ NeedsRow(t, w)
  /\ \E i \in Referred(T, t) :
       /\ Names(T, t, i)
       /\ o = IF t.cmd.kind \in ReversalKinds /\ Reversed(T, i)
              THEN Rejected(t, w, "REFERENCE_ALREADY_REVERSED")
              ELSE ApplyResolved(Resolved(t, i), w, T[i].cmd.kind)

Choice(T, t, w, o) ==
  Alone(t, w, o) \/ Parks(T, t, w, o) \/ Refuses(T, t, w, o) \/ Accepts(T, t, w, o)

\* A row that commits can make.
RowOK(T, t) ==
  /\ t.status \in {"PROCESSED", "REJECTED", "PENDING_REFERENCE"}
  /\ Stored(t) = t
  /\ t.status = "PENDING_REFERENCE" =>
       t.attempts \in 1 .. MaxAttempts /\ t.refTx = 0 /\ t.code = Null /\ t.balance = Null
  /\ IF t.cmd.kind = "OPENING" THEN t.cmd.provider = Null /\ t.status = "PROCESSED"
     ELSE t.cmd \in Submitted /\ ValidRequest(t.cmd)
  /\ t.status = "PROCESSED" /\ t.cmd.kind \in ReversalKinds => Names(T, t, t.refTx)

RowsOK(T) == \A i \in DOMAIN T : RowOK(T, T[i])

\* U is T after commits: commands stay, final rows stay.
Grown(T, U) ==
  \A i \in DOMAIN T : /\ i \in DOMAIN U /\ U[i].cmd = T[i].cmd
                      /\ T[i].status \in Terminal => U[i] = T[i]

\* None of the commits was on wallet w.
GrownBeside(T, U, w) ==
  /\ Grown(T, U)
  /\ \A i \in DOMAIN U : U[i].cmd.wallet = w => i \in DOMAIN T /\ U[i] = T[i]

\* A reference stays good.
LEMMA NamesKept ==
  ASSUME NEW T, NEW U, Grown(T, U), NEW t, NEW i, Names(T, t, i)
  PROVE  Names(U, t, i) /\ U[i] = T[i]
  BY DEF Grown, Names, Referred

\* What a session decided under the lock of its wallet stays right while
\* others commit on other wallets.
LEMMA ChoiceKept ==
  ASSUME NEW T, NEW U, NEW t, NEW w, NEW o, GrownBeside(T, U, t.cmd.wallet), RowsOK(U),
         Choice(T, t, w, o)
  PROVE  Choice(U, t, w, o)
<1> USE DEF GrownBeside
<1>1. CASE Alone(t, w, o)
  BY <1>1 DEF Choice
<1>2. CASE Parks(T, t, w, o)
  BY <1>2 DEF Choice, Parks, Missing, Referred, Grown
<1>3. CASE Refuses(T, t, w, o)
  BY <1>3 DEF Choice, Refuses, Referred, Grown
<1>4. CASE Accepts(T, t, w, o)
  <2>1. PICK i \in Referred(T, t) :
          /\ Names(T, t, i)
          /\ o = IF t.cmd.kind \in ReversalKinds /\ Reversed(T, i)
                 THEN Rejected(t, w, "REFERENCE_ALREADY_REVERSED")
                 ELSE ApplyResolved(Resolved(t, i), w, T[i].cmd.kind)
    BY <1>4 DEF Accepts
  <2>2. Names(U, t, i) /\ U[i] = T[i]
    BY <2>1, NamesKept
  <2>3. Reversed(T, i) => Reversed(U, i)
    BY DEF Reversed, IsProcessedReversal, Grown, Terminal
  <2>4. ASSUME t.cmd.kind \in ReversalKinds, Reversed(U, i)
        PROVE  Reversed(T, i)
    <3>1. PICK j \in DOMAIN U : IsProcessedReversal(U[j], i)
      BY <2>4 DEF Reversed
    <3>2. Names(U, U[j], i)
      BY <3>1 DEF RowsOK, RowOK, IsProcessedReversal
    <3>3. U[j].cmd.wallet = U[i].cmd.wallet /\ U[i].cmd.wallet = t.cmd.wallet
      <4>1. \A x, y : ReferenceFailure(x, y) = Null => SameContext(x, y)
        BY NullAssumption DEF ReferenceFailure, FailureCodes
      <4> QED
        BY <2>2, <3>2, <4>1 DEF Names, SameContext
    <3> QED
      BY <3>1, <3>3 DEF Reversed
  <2> QED
    BY <1>4, <2>1, <2>2, <2>3, <2>4 DEF Choice, Accepts, Names
<1> QED
  BY <1>1, <1>2, <1>3, <1>4 DEF Choice

\* The direction in which a transaction moves money (Wallet.Credit or Debit).
Direction(T, t) ==
  IF t.cmd.kind = "BET" \/ (t.cmd.kind = "ROLLBACK" /\ T[t.refTx].cmd.kind # "BET")
  THEN "DEBIT" ELSE "CREDIT"

\* A transaction apply has not decided yet.
Undecided(t) ==
  /\ t \in Transaction /\ t.cmd.kind \in ExternalKinds
  /\ t.attempts <= MaxAttempts /\ t.refTx = 0 /\ t.code = Null /\ t.balance = Null

\* What every outcome that is no error says of its transaction and its entry.
Sound(T, t, o) ==
  /\ \/ o.tx.status = "PROCESSED" /\ o.tx.attempts = t.attempts
     \/ o.tx.status = "REJECTED" /\ o.tx.attempts = t.attempts
     \/ /\ o.tx.status = "PENDING_REFERENCE" /\ o.tx.attempts = t.attempts + 1
        /\ o.tx.attempts <= MaxAttempts
        /\ o.tx.refTx = 0 /\ o.tx.code = Null /\ o.tx.balance = Null
  /\ o.tx.code = "REFERENCE_NOT_FOUND" => Missing(T, t) /\ o.tx.attempts = MaxAttempts
  /\ o.tx.status = "PROCESSED" /\ t.cmd.kind \in ReversalKinds =>
       Names(T, t, o.tx.refTx) /\ ~Reversed(T, o.tx.refTx)
  /\ o.entry # Null <=> o.tx.status = "PROCESSED" /\ t.cmd.kind # "LOSS"
  /\ o.entry # Null => /\ o.entry.amount = t.cmd.amount
                       /\ o.entry.dir = Direction(T, o.tx)

\* A rejection with any other code than REFERENCE_NOT_FOUND.
LEMMA RejectedSound ==
  ASSUME NEW T, NEW t, Undecided(t), NEW w \in WalletRow,
         NEW code \in FailureCodes \ {"REFERENCE_NOT_FOUND"}
  PROVE  Sound(T, t, Rejected(t, w, code))
  BY DEF Undecided, Sound, Rejected, Outcome, MarkRejected, Transaction

\* A movement of a transaction, with a reference or without.
LEMMA MovedSound ==
  ASSUME NEW T, NEW t, Undecided(t), NEW w \in WalletRow, NEW id \in Nat,
         NEW dir, NEW after \in 0 .. MaxMinor, dir = Direction(T, Resolved(t, id)),
         t.cmd.kind # "LOSS",
         t.cmd.kind \in ReversalKinds => Names(T, t, id) /\ ~Reversed(T, id)
  PROVE  Sound(T, t, Moved(Resolved(t, id), w, dir, after))
<1> DEFINE u == Resolved(t, id)
           o == Moved(u, w, dir, after)
           e == [dir |-> dir, amount |-> t.cmd.amount, before |-> w.balance, after |-> after]
<1>1. u \in Transaction /\ u.cmd = t.cmd /\ u.refTx = id /\ u.attempts = t.attempts
  BY DEF Undecided, Resolved, Transaction
<1>2. /\ o.tx.status = "PROCESSED" /\ o.tx.attempts = t.attempts /\ o.tx.code = Null
      /\ o.tx.cmd = t.cmd /\ o.tx.refTx = id
  BY <1>1 DEF Moved, Outcome, MarkProcessed, Transaction
<1>3. o.entry = e
  BY <1>1 DEF Moved, Outcome
<1>4. e \in Entry
  BY MaxMinorAssumption DEF Entry, Undecided, Transaction, Command, WalletRow, Direction
<1>5. e # Null /\ Null # "REFERENCE_NOT_FOUND"
  BY <1>4, NullRowsAssumption, NullAssumption DEF FailureCodes
<1>6. Direction(T, o.tx) = dir
  BY <1>1, <1>2 DEF Direction
<1> HIDE DEF o
<1>7. Sound(T, t, o)
  BY <1>2, <1>3, <1>5, <1>6 DEF Sound
<1> QED
  BY <1>7 DEF o

\* A transaction that refers to nothing is its own resolution.
LEMMA Unresolved ==
  ASSUME NEW t, Undecided(t)
  PROVE  Resolved(t, 0) = t
  BY DEF Undecided, Resolved, Transaction

\* Every outcome apply reaches and does not report as an error is sound.
LEMMA ChoiceSound ==
  ASSUME NEW T, DOMAIN T \subseteq Nat, NEW t, Undecided(t), NEW w \in WalletRow,
         NEW o, Choice(T, t, w, o), ~o.error
  PROVE  OutcomeOK(o, t, w) /\ Sound(T, t, o)
<1> USE DEF Undecided
<1>0. t.cmd.amount \in Nat /\ w.balance \in 0 .. MaxMinor
  BY DEF Transaction, Command, WalletRow
<1>1. ASSUME NEW id \in Nat, Direction(T, Resolved(t, id)) = "CREDIT", t.cmd.kind # "LOSS",
             t.cmd.kind \in ReversalKinds => Names(T, t, id) /\ ~Reversed(T, id),
             o = Credit(Resolved(t, id), w)
      PROVE  Sound(T, t, o)
  <2> DEFINE u == Resolved(t, id)
             after == w.balance + t.cmd.amount
  <2>1. u.cmd = t.cmd
    BY DEF Resolved, Transaction
  <2>2. ~AddOverflows(w.balance, t.cmd.amount)
    BY <1>1, <2>1 DEF Credit, Failed, Outcome
  <2>3. o = Moved(u, w, "CREDIT", after) /\ after \in 0 .. MaxMinor
    BY <1>0, <1>1, <2>1, <2>2, MaxMinorAssumption DEF Credit, AddOverflows
  <2> QED
    BY <1>1, <2>3, MovedSound
<1>2. ASSUME NEW id \in Nat, Direction(T, Resolved(t, id)) = "DEBIT", t.cmd.kind # "LOSS",
             t.cmd.kind \in ReversalKinds => Names(T, t, id) /\ ~Reversed(T, id),
             NEW code \in FailureCodes \ {"REFERENCE_NOT_FOUND"},
             o = Debit(Resolved(t, id), w, code)
      PROVE  Sound(T, t, o)
  <2> DEFINE u == Resolved(t, id)
             after == w.balance - t.cmd.amount
  <2>1. u.cmd = t.cmd
    BY DEF Resolved, Transaction
  <2>2. CASE after < 0
    <3>1. o = Rejected(u, w, code)
      BY <1>2, <2>1, <2>2 DEF Debit
    <3> QED
      BY <3>1 DEF Sound, Rejected, Outcome, MarkRejected, Resolved, Transaction
  <2>3. CASE ~(after < 0)
    <3>1. o = Moved(u, w, "DEBIT", after) /\ after \in 0 .. MaxMinor
      BY <1>0, <1>2, <2>1, <2>3, MaxMinorAssumption DEF Debit
    <3> QED
      BY <1>2, <3>1, MovedSound
  <2> QED
    BY <2>2, <2>3
<1>3. CASE Alone(t, w, o)
  <2>1. OutcomeOK(o, t, w)
    BY <1>3, ApplyAloneOK DEF Alone
  <2>2. CASE o \in {Rejected(t, w, "WALLET_PLAYER_MISMATCH"), Rejected(t, w, "CURRENCY_MISMATCH")}
    BY <2>1, <2>2, RejectedSound DEF FailureCodes
  <2>3. CASE t.cmd.kind = "BET" /\ o = Debit(t, w, "INSUFFICIENT_FUNDS")
    <3>1. Direction(T, Resolved(t, 0)) = "DEBIT"
      BY <2>3, Unresolved DEF Direction
    <3> QED
      BY <1>2, <2>1, <2>3, <3>1, Unresolved DEF FailureCodes, ReversalKinds
  <2>4. CASE t.cmd.kind = "LOSS" /\ o = Outcome(MarkProcessed(t, w.balance, w.currency), w, Null)
    <3>1. /\ o.tx.status = "PROCESSED" /\ o.tx.code = Null /\ o.tx.attempts = t.attempts
          /\ o.entry = Null
      BY <2>4 DEF Outcome, MarkProcessed, Transaction
    <3> QED
      BY <2>1, <2>4, <3>1, NullAssumption DEF Sound, FailureCodes, ReversalKinds
  <2>5. CASE t.cmd.kind = "WIN" /\ o = Credit(t, w)
    <3>1. Direction(T, Resolved(t, 0)) = "CREDIT"
      BY <2>5, Unresolved DEF Direction
    <3> QED
      BY <1>1, <2>1, <2>5, <3>1, Unresolved DEF ReversalKinds
  <2>6. o # Failed(t, w)
    BY DEF Failed, Outcome
  <2> QED
    BY <1>3, <2>2, <2>3, <2>4, <2>5, <2>6
       DEF Alone, ApplyAlone, MatchesWallet, NeedsReference, NeedsRow, ExternalKinds, ReversalKinds
<1>4. CASE Parks(T, t, w, o)
  <2>1. PICK at \in RetryTimes : o = Park(t, w, at)
    BY <1>4 DEF Parks
  <2>2. OutcomeOK(o, t, w)
    BY <2>1, ParkOK
  <2>3. CASE t.attempts >= MaxAttempts
    <3>1. o = Rejected(t, w, "REFERENCE_NOT_FOUND") /\ t.attempts = MaxAttempts
      BY <2>1, <2>3, MaxAttemptsAssumption DEF Park, Transaction
    <3> QED
      BY <1>4, <2>2, <3>1 DEF Sound, Rejected, Outcome, MarkRejected, Transaction, Parks
  <2>4. CASE ~(t.attempts >= MaxAttempts)
    <3>1. o = Outcome(AwaitReference(t, at), w, Null) /\ t.attempts + 1 <= MaxAttempts
      BY <2>1, <2>4, MaxAttemptsAssumption DEF Park, Transaction
    <3>2. /\ o.tx.status = "PENDING_REFERENCE" /\ o.tx.attempts = t.attempts + 1
          /\ o.tx.refTx = 0 /\ o.tx.code = Null /\ o.tx.balance = Null /\ o.entry = Null
      BY <3>1 DEF Outcome, AwaitReference, Transaction
    <3> QED
      BY <2>2, <3>1, <3>2, NullAssumption DEF Sound, FailureCodes
  <2> QED
    BY <2>3, <2>4
<1>5. CASE Refuses(T, t, w, o)
  <2>1. PICK i \in Referred(T, t) :
          ReferenceFailure(t, T[i]) # Null /\ o = Rejected(t, w, ReferenceFailure(t, T[i]))
    BY <1>5 DEF Refuses
  <2>2. ReferenceFailure(t, T[i]) \in FailureCodes \ {"REFERENCE_NOT_FOUND"}
    BY <2>1 DEF ReferenceFailure, FailureCodes
  <2> QED
    BY <2>1, <2>2, RejectedSound, RejectedOK
<1>6. CASE Accepts(T, t, w, o)
  <2>1. PICK i \in Referred(T, t) :
          /\ Names(T, t, i)
          /\ o = IF t.cmd.kind \in ReversalKinds /\ Reversed(T, i)
                 THEN Rejected(t, w, "REFERENCE_ALREADY_REVERSED")
                 ELSE ApplyResolved(Resolved(t, i), w, T[i].cmd.kind)
    BY <1>6 DEF Accepts
  <2>2. CASE t.cmd.kind \in ReversalKinds /\ Reversed(T, i)
    BY <2>1, <2>2, RejectedSound, RejectedOK DEF FailureCodes
  <2>3. CASE ~(t.cmd.kind \in ReversalKinds /\ Reversed(T, i))
    <3>1. i \in Nat /\ o = ApplyResolved(Resolved(t, i), w, T[i].cmd.kind)
      BY <2>1, <2>3 DEF Referred
    <3>2. OutcomeOK(o, t, w)
      BY <3>1, ApplyResolvedOK
    <3>3. Resolved(t, i).cmd = t.cmd /\ Resolved(t, i).refTx = i
      BY DEF Resolved, Transaction
    <3>4. t.cmd.kind \in {"WIN", "REFUND", "ROLLBACK"}
      BY <1>6 DEF Accepts, NeedsRow, NeedsReference, ReversalKinds
    <3>5. CASE t.cmd.kind = "ROLLBACK" /\ T[i].cmd.kind # "BET"
      <4>1. Direction(T, Resolved(t, i)) = "DEBIT"
        BY <3>3, <3>5 DEF Direction
      <4>2. o = Debit(Resolved(t, i), w, "REVERSAL_INSUFFICIENT_FUNDS")
        BY <3>1, <3>3, <3>5 DEF ApplyResolved
      <4> QED
        BY <1>2, <2>1, <2>3, <3>1, <3>2, <3>5, <4>1, <4>2 DEF FailureCodes
    <3>6. CASE ~(t.cmd.kind = "ROLLBACK" /\ T[i].cmd.kind # "BET")
      <4>1. Direction(T, Resolved(t, i)) = "CREDIT"
        BY <3>3, <3>4, <3>6 DEF Direction
      <4>2. o = Credit(Resolved(t, i), w)
        BY <3>1, <3>3, <3>6 DEF ApplyResolved
      <4> QED
        BY <1>1, <2>1, <2>3, <3>1, <3>2, <3>4, <4>1, <4>2
    <3> QED
      BY <3>5, <3>6
  <2> QED
    BY <2>2, <2>3
<1> QED
  BY <1>3, <1>4, <1>5, <1>6 DEF Choice

\* The balance of an outcome is in the currency of the transaction, unless the
\* wallet was the wrong one.
Labelled(t) == t.balance = Null \/ t.balance.currency = t.cmd.currency \/ t.code \in WrongWallet

\* Every outcome is told with the currency of the wallet it was computed on.
LEMMA ChoiceLabelled ==
  ASSUME NEW T, DOMAIN T \subseteq Nat, NEW t, Undecided(t), NEW w \in WalletRow,
         NEW o, Choice(T, t, w, o), ~o.error
  PROVE  Labelled(o.tx)
<1>1. ASSUME NEW u \in Transaction, u.cmd = t.cmd, NEW code,
             MatchesWallet(t, w) \/ code \in WrongWallet
      PROVE  Labelled(Rejected(u, w, code).tx)
  BY <1>1 DEF Labelled, Rejected, Outcome, MarkRejected, MatchesWallet, Transaction
<1>2. ASSUME NEW u \in Transaction, u.cmd = t.cmd, MatchesWallet(t, w), NEW dir, NEW after
      PROVE  Labelled(Moved(u, w, dir, after).tx)
  BY <1>2 DEF Labelled, Moved, Outcome, MarkProcessed, MatchesWallet, Transaction
<1>3. ASSUME NEW u \in Transaction, u.cmd = t.cmd, MatchesWallet(t, w), NEW code
      PROVE  Labelled(Debit(u, w, code).tx)
  BY <1>1, <1>2, <1>3 DEF Debit
<1>4. ASSUME NEW u \in Transaction, u.cmd = t.cmd, MatchesWallet(t, w), o = Credit(u, w)
      PROVE  Labelled(o.tx)
  BY <1>2, <1>4 DEF Credit, Failed, Outcome
<1>5. t \in Transaction /\ t.balance = Null
  BY DEF Undecided
<1>6. CASE Alone(t, w, o)
  <2>1. CASE o \in {Rejected(t, w, "WALLET_PLAYER_MISMATCH"), Rejected(t, w, "CURRENCY_MISMATCH")}
    BY <1>1, <1>5, <2>1 DEF WrongWallet
  <2>2. CASE MatchesWallet(t, w) /\ o \in {Debit(t, w, "INSUFFICIENT_FUNDS"), Credit(t, w)}
    BY <1>3, <1>4, <1>5, <2>2
  <2>3. CASE MatchesWallet(t, w) /\ o = Outcome(MarkProcessed(t, w.balance, w.currency), w, Null)
    BY <1>5, <2>3 DEF Labelled, Outcome, MarkProcessed, MatchesWallet, Transaction
  <2>4. CASE o = Failed(t, w)
    BY <2>4 DEF Failed, Outcome
  <2> QED
    BY <1>6, <2>1, <2>2, <2>3, <2>4 DEF Alone, ApplyAlone
<1>7. CASE Parks(T, t, w, o)
  <2>1. PICK at \in RetryTimes : o = Park(t, w, at)
    BY <1>7 DEF Parks
  <2>2. CASE o = Rejected(t, w, "REFERENCE_NOT_FOUND")
    BY <1>1, <1>5, <1>7, <2>2 DEF Parks, NeedsRow
  <2>3. CASE o = Outcome(AwaitReference(t, at), w, Null)
    BY <1>5, <2>3 DEF Labelled, Outcome, AwaitReference, Transaction
  <2> QED
    BY <2>1, <2>2, <2>3 DEF Park
<1>8. CASE Refuses(T, t, w, o)
  BY <1>1, <1>5, <1>8 DEF Refuses, NeedsRow
<1>9. CASE Accepts(T, t, w, o)
  <2>1. PICK i \in Referred(T, t) :
          o = IF t.cmd.kind \in ReversalKinds /\ Reversed(T, i)
              THEN Rejected(t, w, "REFERENCE_ALREADY_REVERSED")
              ELSE ApplyResolved(Resolved(t, i), w, T[i].cmd.kind)
    BY <1>9 DEF Accepts
  <2>2. MatchesWallet(t, w)
    BY <1>9 DEF Accepts, NeedsRow
  <2>3. CASE o = Rejected(t, w, "REFERENCE_ALREADY_REVERSED")
    BY <1>1, <1>5, <2>2, <2>3
  <2>4. CASE o = ApplyResolved(Resolved(t, i), w, T[i].cmd.kind)
    <3> DEFINE u == Resolved(t, i)
    <3>1. i \in Nat => u \in Transaction /\ u.cmd = t.cmd
      BY <1>5 DEF Resolved, Transaction
    <3>2. i \in Nat
      BY DEF Referred
    <3> HIDE DEF u
    <3> QED
      BY <1>3, <1>4, <2>2, <2>4, <3>1, <3>2 DEF ApplyResolved, u
  <2> QED
    BY <2>1, <2>3, <2>4
<1> QED
  BY <1>6, <1>7, <1>8, <1>9 DEF Choice

-----------------------------------------------------------------------------
(* The inductive invariant *)

\* The aggregate as a session read or made it, before apply.
Before(s) == IF claim[s] # 0 THEN txs[claim[s]] ELSE NewExternal(Cmd(s))

\* What apply left in memory.
Result(s) == [tx |-> tx[s], row |-> row[s], entry |-> entry[s], error |-> FALSE]

\* Where a session comes from.
Origin(s) ==
  /\ pc[s] = "idle" => claim[s] = 0 /\ msg[s] = Null /\ ~again[s]
  /\ again[s] => s \in Callers
  /\ msg[s] # Null => s \in Consumers /\ pc[s] # "idle" /\ Cmd(s) = msg[s].cmd
  /\ pc[s] = "inbox" => s \in Consumers /\ claim[s] = 0
  /\ pc[s] # "idle" => Cmd(s) \in Submitted /\ ValidRequest(Cmd(s))
  /\ pc[s] # "idle" => claim[s] # 0 \/ msg[s] # Null \/ Cmd(s) \in Commands
  /\ pc[s] \notin {"idle", "persist", "commit"} => tx[s] = Before(s)

\* What a resolver has claimed is still waiting, and is what it works on.
Claims(s) ==
  claim[s] # 0 =>
    /\ s \in Resolvers
    /\ pc[s] \in {"lock", "apply", "reversal", "persist", "commit"}
    /\ claim[s] \in DOMAIN txs
    /\ txs[claim[s]].status = "PENDING_REFERENCE"
    /\ txs[claim[s]].cmd = Cmd(s)

\* A session that looks for an earlier reversal has an acceptable reference.
Resolving(s) ==
  pc[s] = "reversal" => /\ Names(txs, tx[s], ref[s])
                        /\ tx[s].cmd.kind \in ReversalKinds
                        /\ MatchesWallet(tx[s], row[s])

\* What a session is about to store is what the rules say of the rows as they
\* are now, not only as they were when it read them.
Decided(s) ==
  pc[s] \in {"persist", "commit"} =>
    Choice(txs, Before(s), wallets[Cmd(s).wallet], Result(s))

SameKeyOf(t, c) == t.cmd.provider = c.provider /\ t.cmd.key = c.key
SameExtOf(t, c) == t.cmd.provider = c.provider /\ t.cmd.ext = c.ext

\* After its lookups under the lock, a row with the session's key or external
\* id can only have come from another wallet.
NoTwin(s) ==
  claim[s] = 0 =>
    /\ pc[s] \in {"ext2", "apply", "reversal", "persist", "commit"} =>
         \A i \in DOMAIN txs : SameKeyOf(txs[i], Cmd(s)) => txs[i].cmd.wallet # Cmd(s).wallet
    /\ pc[s] \in {"apply", "reversal", "persist", "commit"} =>
         \A i \in DOMAIN txs : SameExtOf(txs[i], Cmd(s)) => txs[i].cmd.wallet # Cmd(s).wallet

\* An inserted row has its key and its external id to itself.
ClearToCommit(s) ==
  pc[s] = "commit" /\ claim[s] = 0 => \A i \in DOMAIN txs : ~SameUniqueKey(tx[s], txs[i])

\* A request that runs again will find the row it lost to.
Settles(s) ==
  again[s] => \/ pc[s] = "key1" /\ \E i \in DOMAIN txs : SameUniqueKey(tx[s], txs[i])
              \/ pc[s] = "ext1" /\ \E i \in DOMAIN txs : SameExtOf(txs[i], Cmd(s))

\* A consumer has inserted its inbox row.
Recording(s) == msg[s] # Null /\ RecordsInbox(s)

Unrecorded(s) == Recording(s) => \A m \in inbox : m.id # msg[s].id

SessionInv(s) ==
  /\ Origin(s) /\ Claims(s) /\ Resolving(s) /\ Decided(s)
  /\ NoTwin(s) /\ ClearToCommit(s) /\ Settles(s) /\ Unrecorded(s)

\* Two sessions never have the same claim, insert the same key or external id,
\* or record the same message.
Apart(s, q) ==
  /\ claim[s] # 0 => claim[s] # claim[q]
  /\ pc[s] = "commit" /\ pc[q] = "commit" /\ claim[s] = 0 => ~SameUniqueKey(tx[s], tx[q])
  /\ Recording(s) /\ Recording(q) => msg[s].id # msg[q].id

SessionsInv == \A s \in Sessions : SessionInv(s)
PairsInv    == \A s, q \in Sessions : s # q => Apart(s, q)

UniqueRows(T) ==
  \A i, j \in DOMAIN T : i # j /\ T[i].cmd.provider # Null => ~SameUniqueKey(T[i], T[j])

RowsInv == RowsOK(txs) /\ UniqueRows(txs) /\ ReversedOnce

\* What a caller was told is still true, and a conflict is still one.
Truthful(T, a) ==
  /\ a.code = "OK" =>
       /\ a.row \in Transaction
       /\ \E i \in DOMAIN T : /\ T[i].cmd = a.cmd
                              /\ IF a.row.status \in Terminal
                                 THEN ReplaysAs(a.row, T[i])
                                 ELSE a.row.attempts <= T[i].attempts
  /\ a.code \in Conflicts =>
       /\ a.cmd.provider # Null
       /\ \E i \in DOMAIN T : T[i].cmd # a.cmd /\ (SameKeyOf(T[i], a.cmd) \/ SameExtOf(T[i], a.cmd))

AnswersInv == \A s \in Callers : answer[s] # Null => Truthful(txs, answer[s])

HistoryInv ==
  Inv /\ SessionsInv /\ PairsInv /\ RowsInv /\ AnswersInv /\ InboxImpliesHandled

-----------------------------------------------------------------------------
(* The sessions that do not move *)

Stays(q) ==
  /\ pc'[q] = pc[q] /\ tx'[q] = tx[q] /\ row'[q] = row[q] /\ entry'[q] = entry[q]
  /\ ref'[q] = ref[q] /\ claim'[q] = claim[q] /\ msg'[q] = msg[q] /\ again'[q] = again[q]

\* What a step of somebody else leaves to session q.
Beside(q) ==
  /\ RowsOK(txs') /\ Grown(txs, txs')
  /\ claim[q] # 0 => txs'[claim[q]] = txs[claim[q]]
  /\ pc[q] \in Locked => /\ wallets'[Cmd(q).wallet] = wallets[Cmd(q).wallet]
                         /\ GrownBeside(txs, txs', Cmd(q).wallet)
  /\ pc[q] = "commit" /\ claim[q] = 0 => \A i \in DOMAIN txs' : ~SameUniqueKey(tx[q], txs'[i])
  /\ Recording(q) => \A m \in inbox' : m.id # msg[q].id

\* A session that stays keeps its invariant.
LEMMA SessionStays ==
  ASSUME NEW q, SessionInv(q), Stays(q), Beside(q)
  PROVE  SessionInv(q)'
<1>0. Before(q)' = Before(q)
  BY DEF Before, Stays, Beside, Cmd
<1>1. Origin(q)'
  BY <1>0 DEF SessionInv, Origin, Stays, Cmd
<1>2. Claims(q)'
  BY DEF SessionInv, Claims, Stays, Cmd, Beside, Grown
<1>3. Resolving(q)'
  <2> SUFFICES ASSUME pc[q] = "reversal" PROVE Names(txs', tx[q], ref[q])
    BY DEF SessionInv, Resolving, Stays
  <2> QED
    BY NamesKept DEF SessionInv, Resolving, Beside
<1>4. Decided(q)'
  <2> SUFFICES ASSUME pc[q] \in {"persist", "commit"}
               PROVE  Choice(txs', Before(q), wallets[Cmd(q).wallet], Result(q))
    BY <1>0 DEF Decided, Stays, Beside, Locked, Cmd, Result
  <2>1. Choice(txs, Before(q), wallets[Cmd(q).wallet], Result(q))
    BY DEF SessionInv, Decided
  <2>2. Before(q).cmd = Cmd(q)
    BY DEF Before, SessionInv, Claims, NewExternal
  <2>3. GrownBeside(txs, txs', Before(q).cmd.wallet) /\ RowsOK(txs')
    BY <2>2 DEF Beside, Locked
  <2> QED
    BY <2>1, <2>3, ChoiceKept
<1>5. NoTwin(q)'
  BY DEF SessionInv, NoTwin, Stays, Beside, GrownBeside, Locked, Cmd, SameKeyOf, SameExtOf
<1>6. ClearToCommit(q)'
  BY DEF SessionInv, ClearToCommit, Stays, Beside
<1>7. Settles(q)'
  BY DEF SessionInv, Settles, Stays, Beside, Grown, Cmd, SameExtOf, SameUniqueKey
<1>8. Unrecorded(q)'
  BY DEF SessionInv, Unrecorded, Recording, RecordsInbox, Stays, Beside
<1> QED
  BY <1>1, <1>2, <1>3, <1>4, <1>5, <1>6, <1>7, <1>8 DEF SessionInv

\* Rows are numbered from 1.
LEMMA RowNumbers ==
  ASSUME TypeOK
  PROVE  /\ Len(txs) \in Nat /\ DOMAIN txs = 1 .. Len(txs) /\ 0 \notin DOMAIN txs
         /\ \A i \in DOMAIN txs : i \in Nat /\ txs[i] \in Transaction
  BY LenProperties DEF TypeOK, TablesOK

\* A step that leaves rows and wallets alone and records no message q records.
LEMMA QuietBeside ==
  ASSUME HistoryInv, NEW q \in Sessions, txs' = txs, wallets' = wallets,
         Recording(q) => \A m \in inbox' \ inbox : m.id # msg[q].id
  PROVE  Beside(q)
  BY DEF HistoryInv, SessionsInv, SessionInv, Unrecorded, RowsInv, ClearToCommit,
         Beside, Grown, GrownBeside

\* Neither session of a pair moved.
LEMMA ApartStays ==
  ASSUME NEW s, NEW q, Apart(s, q), Stays(s), Stays(q)
  PROVE  Apart(s, q)'
  BY DEF Apart, Stays, Recording, RecordsInbox

\* One of a pair moved, but made no claim, did not reach its commit and
\* recorded no message.
LEMMA ApartMoves ==
  ASSUME NEW s, NEW q, Apart(s, q), Apart(q, s), Stays(q),
         claim'[s] = claim[s], pc'[s] # "commit",
         Recording(s)' => Recording(s) /\ msg'[s] = msg[s]
  PROVE  Apart(s, q)' /\ Apart(q, s)'
  BY DEF Apart, Stays, Recording, RecordsInbox

\* A session that ended has nothing in common with another.
LEMMA ResetApart ==
  ASSUME SessionsOK, NEW s \in Sessions, Reset(s), NEW q \in Sessions
  PROVE  q # s => Stays(q) /\ Apart(s, q)' /\ Apart(q, s)'
  BY DEF SessionsOK, Reset, Apart, Recording, RecordsInbox, Stays

\* A session that ended has no obligations.
LEMMA ResetSession ==
  ASSUME SessionsOK, NEW s \in Sessions, Reset(s)
  PROVE  SessionInv(s)'
<1>1. /\ pc'[s] = "idle" /\ claim'[s] = 0 /\ msg'[s] = Null /\ again'[s] = FALSE
  BY DEF SessionsOK, Reset
<1> QED
  BY <1>1 DEF SessionInv, Origin, Claims, Resolving, Decided, NoTwin, ClearToCommit,
              Settles, Unrecorded, Recording

\* A step of one session inside its transaction.
LEMMA MoveStep ==
  ASSUME HistoryInv, Inv', NEW s \in Sessions, UNCHANGED db,
         \A q \in Sessions \ {s} : Stays(q) /\ Apart(s, q)' /\ Apart(q, s)',
         SessionInv(s)', AnswersInv'
  PROVE  HistoryInv'
<1>1. txs' = txs /\ wallets' = wallets /\ inbox' = inbox
  BY DEF db
<1>2. SessionsInv'
  <2> SUFFICES ASSUME NEW q \in Sessions, q # s PROVE SessionInv(q)'
    BY DEF SessionsInv
  <2> QED
    BY <1>1, QuietBeside, SessionStays DEF HistoryInv, SessionsInv
<1>3. PairsInv'
  <2> SUFFICES ASSUME NEW p \in Sessions, NEW q \in Sessions, p # q, p # s, q # s
               PROVE  Apart(p, q)'
    BY DEF PairsInv
  <2> QED
    BY ApartStays DEF HistoryInv, PairsInv
<1>4. RowsInv'
  BY <1>1 DEF HistoryInv, RowsInv, ReversedOnce
<1>5. InboxImpliesHandled'
  BY <1>1 DEF HistoryInv, InboxImpliesHandled
<1> QED
  BY <1>2, <1>3, <1>4, <1>5 DEF HistoryInv

\* The equality lookupExisting tests: same key and same payload.
LEMMA SamePayload ==
  ASSUME NEW c \in Command, NEW d \in Command,
         c.key = d.key, PayloadHash(c) = PayloadHash(d)
  PROVE  c = d
<1>1. /\ c.provider = d.provider /\ c.ext = d.ext /\ c.wallet = d.wallet
      /\ c.player = d.player /\ c.round = d.round /\ c.kind = d.kind
      /\ c.amount = d.amount /\ c.currency = d.currency /\ c.ref = d.ref
  <2>1. /\ PayloadHash(c).provider = c.provider /\ PayloadHash(c).ext = c.ext
        /\ PayloadHash(c).wallet = c.wallet /\ PayloadHash(c).player = c.player
        /\ PayloadHash(c).round = c.round /\ PayloadHash(c).kind = c.kind
        /\ PayloadHash(c).amount = c.amount /\ PayloadHash(c).currency = c.currency
        /\ PayloadHash(c).ref = c.ref
    BY DEF PayloadHash, Command
  <2>2. /\ PayloadHash(d).provider = d.provider /\ PayloadHash(d).ext = d.ext
        /\ PayloadHash(d).wallet = d.wallet /\ PayloadHash(d).player = d.player
        /\ PayloadHash(d).round = d.round /\ PayloadHash(d).kind = d.kind
        /\ PayloadHash(d).amount = d.amount /\ PayloadHash(d).currency = d.currency
        /\ PayloadHash(d).ref = d.ref
    BY DEF PayloadHash, Command
  <2> QED
    BY <2>1, <2>2
<1> QED
  BY <1>1 DEF Command

\* A caller is told something true; what the others were told stays true.
LEMMA AnswerStep ==
  ASSUME TypeOK, AnswersInv, NEW s \in Sessions, NEW code, NEW r, Answer(s, code, r),
         \A a : Truthful(txs, a) => Truthful(txs', a),
         Truthful(txs', [cmd |-> Cmd(s), code |-> code, row |-> r])
  PROVE  AnswersInv'
<1> SUFFICES ASSUME NEW q \in Callers, answer'[q] # Null
             PROVE  Truthful(txs', answer'[q])
  BY DEF AnswersInv
<1>1. CASE q = s
  BY <1>1 DEF Answer, TypeOK, SessionsOK
<1>2. CASE q # s
  <2>1. answer'[q] = answer[q]
    BY <1>2 DEF Answer, TypeOK, SessionsOK
  <2> QED
    BY <2>1 DEF AnswersInv
<1> QED
  BY <1>1, <1>2

\* An answer that promises nothing is true.
LEMMA NoPromise ==
  ASSUME NEW T, NEW c, NEW r, NEW code \in AnswerCodes \ (Conflicts \cup {"OK"})
  PROVE  Truthful(T, [cmd |-> c, code |-> code, row |-> r])
  BY DEF Truthful, AnswerCodes, Conflicts

\* A session that ends without a change of the tables.
LEMMA RollbackStep ==
  ASSUME HistoryInv, Inv', NEW s \in Sessions, Reset(s), UNCHANGED db,
         NEW code, Answer(s, code, Null),
         Truthful(txs, [cmd |-> Cmd(s), code |-> code, row |-> Null])
  PROVE  HistoryInv'
<1>1. TypeOK /\ SessionsOK /\ txs' = txs
  BY DEF HistoryInv, Inv, TypeOK, db
<1>2. AnswersInv'
  BY <1>1, AnswerStep DEF HistoryInv
<1>3. SessionInv(s)' /\ \A q \in Sessions \ {s} : Stays(q) /\ Apart(s, q)' /\ Apart(q, s)'
  BY <1>1, ResetSession, ResetApart
<1> QED
  BY <1>2, <1>3, MoveStep

\* A rollback whose answer promises nothing.
LEMMA AbortStep ==
  ASSUME HistoryInv, Inv', NEW s \in Sessions,
         NEW code \in AnswerCodes \ (Conflicts \cup {"OK"}), Abort(s, code)
  PROVE  HistoryInv'
  BY RollbackStep, NoPromise DEF Abort

\* A lookup that found the same operation.
LEMMA ReplayStep ==
  ASSUME HistoryInv, Inv', NEW s \in Sessions, pc[s] \notin {"idle", "inbox"},
         NEW i \in DOMAIN txs, txs[i].cmd = Cmd(s), Replay(s, i)
  PROVE  HistoryInv'
<1>1. TypeOK /\ SessionsOK /\ txs' = txs /\ wallets' = wallets /\ SessionInv(s)
  BY DEF HistoryInv, Inv, TypeOK, Replay, SessionsInv
<1>2. SessionInv(s)' /\ \A q \in Sessions \ {s} : Stays(q) /\ Apart(s, q)' /\ Apart(q, s)'
  BY <1>1, ResetSession, ResetApart DEF Replay
<1>3. msg[s] # Null => Recording(s) /\ Cmd(s) = msg[s].cmd
  BY <1>1 DEF Recording, RecordsInbox, SessionInv, Origin
<1>4. ASSUME NEW q \in Sessions, q # s PROVE SessionInv(q)'
  <2>1. Recording(q) => \A m \in inbox' \ inbox : m.id # msg[q].id
    BY <1>3, <1>4 DEF Replay, CommitInbox, HistoryInv, PairsInv, Apart
  <2> QED
    BY <1>1, <1>2, <1>4, <2>1, QuietBeside, SessionStays DEF HistoryInv, SessionsInv
<1>5. SessionsInv'
  BY <1>2, <1>4 DEF SessionsInv
<1>6. PairsInv'
  <2> SUFFICES ASSUME NEW p \in Sessions, NEW q \in Sessions, p # q, p # s, q # s
               PROVE  Apart(p, q)'
    BY <1>2 DEF PairsInv
  <2> QED
    BY <1>2, ApartStays DEF HistoryInv, PairsInv
<1>7. RowsInv'
  BY <1>1 DEF HistoryInv, RowsInv, ReversedOnce
<1>8. AnswersInv'
  <2>1. Truthful(txs, [cmd |-> Cmd(s), code |-> "OK", row |-> txs[i]])
    <3>1. txs[i] \in Transaction /\ txs[i].attempts \in Nat
      BY <1>1, RowNumbers DEF Transaction
    <3>2. ReplaysAs(txs[i], txs[i])
      BY DEF ReplaysAs
    <3> QED
      BY <3>1, <3>2 DEF Truthful, Conflicts
  <2> QED
    BY <1>1, <2>1, AnswerStep DEF HistoryInv, Replay
<1>9. InboxImpliesHandled'
  BY <1>1, <1>3 DEF HistoryInv, InboxImpliesHandled, Replay, CommitInbox, SessionInv,
     Unrecorded
<1> QED
  BY <1>5, <1>6, <1>7, <1>8, <1>9 DEF HistoryInv

-----------------------------------------------------------------------------
(* The steps that change the tables *)

\* U is T with row i added, or the parked row i decided, as t.
Adds(T, U, i, t) ==
  /\ DOMAIN U = DOMAIN T \cup {i} /\ U[i] = t
  /\ \A j \in DOMAIN T \ {i} : U[j] = T[j]
  /\ i \in DOMAIN T => GoesOn(T[i], t)

LEMMA AddsGrows ==
  ASSUME NEW T, NEW U, NEW i, NEW t, Adds(T, U, i, t)
  PROVE  Grown(T, U)
  BY DEF Adds, Grown, GoesOn, Terminal

LEMMA AddsRows ==
  ASSUME NEW T, NEW U, NEW i, NEW t, Adds(T, U, i, t), RowsOK(T), RowOK(T, t)
  PROVE  RowsOK(U)
<1> SUFFICES ASSUME NEW j \in DOMAIN U PROVE RowOK(U, U[j])
  BY DEF RowsOK
<1>1. RowOK(T, U[j])
  BY DEF RowsOK, Adds
<1> QED
  BY <1>1, AddsGrows, NamesKept DEF RowOK

LEMMA AddsUnique ==
  ASSUME NEW T, NEW U, NEW i, NEW t, Adds(T, U, i, t), UniqueRows(T),
         i \notin DOMAIN T => \A j \in DOMAIN T : t.cmd.provider # Null => ~SameUniqueKey(t, T[j])
  PROVE  UniqueRows(U)
<1>1. \A j \in DOMAIN T \ {i} : t.cmd.provider # Null => ~SameUniqueKey(t, T[j])
  <2>1. CASE i \in DOMAIN T
    BY <2>1 DEF Adds, GoesOn, UniqueRows, SameUniqueKey
  <2> QED
    BY <2>1
<1> QED
  BY <1>1 DEF Adds, UniqueRows, SameUniqueKey

\* Storing changes nothing but the label of the balance, and nothing twice.
LEMMA StoredKeeps ==
  ASSUME NEW t \in Transaction
  PROVE  /\ Stored(t) \in Transaction /\ Stored(t).cmd = t.cmd
         /\ Stored(t).status = t.status /\ Stored(t).code = t.code
         /\ Stored(t).refTx = t.refTx /\ Stored(t).attempts = t.attempts
         /\ Stored(Stored(t)) = Stored(t)
         /\ t.balance = Null => Stored(t) = t
<1>1. CASE t.balance = Null
  BY <1>1 DEF Stored
<1>2. CASE t.balance # Null
  <2>1. t.balance \in Balance /\ t.cmd \in Command
    BY <1>2 DEF Transaction
  <2> DEFINE b == [t.balance EXCEPT !.currency = t.cmd.currency]
             u == [t EXCEPT !.balance = b]
  <2>2. b \in Balance /\ [b EXCEPT !.currency = t.cmd.currency] = b
    BY <2>1 DEF Balance, Command
  <2>3. Stored(t) = u
    BY <1>2 DEF Stored
  <2>4. u.balance = b /\ u.cmd = t.cmd /\ u \in Transaction
    BY <2>2 DEF Transaction
  <2>5. [u EXCEPT !.balance = b] = u
    BY <2>4 DEF Transaction
  <2>6. Stored(u) = u
    BY <2>2, <2>4, <2>5 DEF Stored
  <2> QED
    BY <1>2, <2>3, <2>4, <2>6 DEF Transaction
<1> QED
  BY <1>1, <1>2

\* What is stored of an outcome is what was told, but for the wrong wallet.
LEMMA StoredReplays ==
  ASSUME NEW t \in Transaction, Labelled(t)
  PROVE  ReplaysAs(t, Stored(t))
<1>1. CASE t.balance = Null
  BY <1>1 DEF Stored, ReplaysAs
<1>2. CASE t.balance # Null /\ t.balance.currency = t.cmd.currency
  <2>1. [t.balance EXCEPT !.currency = t.cmd.currency] = t.balance
    BY <1>2 DEF Transaction, Balance
  <2>2. [t EXCEPT !.balance = t.balance] = t
    BY DEF Transaction
  <2> QED
    BY <1>2, <2>1, <2>2 DEF Stored, ReplaysAs
<1>3. CASE t.balance # Null /\ t.balance.currency # t.cmd.currency
  BY <1>3 DEF Stored, ReplaysAs, Labelled
<1> QED
  BY <1>1, <1>2, <1>3

\* A row that shows a final outcome is final.
LEMMA ReplaysStatus ==
  ASSUME NEW r \in Transaction, NEW u, ReplaysAs(r, u)
  PROVE  u.status = r.status
  BY DEF ReplaysAs, Transaction

\* What callers were told stays true when rows are added.
LEMMA AddsTruthful ==
  ASSUME NEW T, NEW U, NEW i, NEW t, Adds(T, U, i, t), NEW a, Truthful(T, a),
         \A j \in DOMAIN T : T[j] \in Transaction, t \in Transaction
  PROVE  Truthful(U, a)
<1>1. Grown(T, U)
  BY AddsGrows
<1>2. ASSUME a.code = "OK"
      PROVE  /\ a.row \in Transaction
             /\ \E j \in DOMAIN U : /\ U[j].cmd = a.cmd
                                    /\ IF a.row.status \in Terminal
                                       THEN ReplaysAs(a.row, U[j])
                                       ELSE a.row.attempts <= U[j].attempts
  <2>1. PICK j \in DOMAIN T : /\ T[j].cmd = a.cmd
                              /\ IF a.row.status \in Terminal
                                 THEN ReplaysAs(a.row, T[j])
                                 ELSE a.row.attempts <= T[j].attempts
    BY <1>2 DEF Truthful
  <2>2. a.row \in Transaction /\ j \in DOMAIN U /\ U[j].cmd = a.cmd
    BY <1>1, <1>2, <2>1 DEF Truthful, Grown
  <2>3. CASE a.row.status \in Terminal
    BY <1>1, <2>1, <2>2, <2>3, ReplaysStatus DEF Grown
  <2>4. CASE a.row.status \notin Terminal
    <3>1. a.row.attempts \in Nat /\ T[j].attempts \in Nat /\ U[j].attempts \in Nat
      BY <2>1, <2>2 DEF Transaction, Adds
    <3>2. U[j].attempts >= T[j].attempts
      BY <2>1, <3>1 DEF Adds, GoesOn
    <3> QED
      BY <2>1, <2>2, <2>4, <3>1, <3>2
  <2> QED
    BY <2>3, <2>4
<1>3. a.code \in Conflicts =>
       /\ a.cmd.provider # Null
       /\ \E j \in DOMAIN U : U[j].cmd # a.cmd /\ (SameKeyOf(U[j], a.cmd) \/ SameExtOf(U[j], a.cmd))
  BY <1>1 DEF Truthful, Grown, SameKeyOf, SameExtOf
<1> QED
  BY <1>2, <1>3 DEF Truthful

\* What a session begins with is undecided.
LEMMA BeforeUndecided ==
  ASSUME HistoryInv, NEW s \in Sessions, pc[s] # "idle"
  PROVE  /\ Undecided(Before(s)) /\ Before(s).cmd = Cmd(s)
         /\ tx[s] \in Transaction /\ tx[s].cmd = Cmd(s)
         /\ Cmd(s) \in Command /\ Cmd(s).provider # Null /\ Cmd(s).wallet \in Wallets
<1>1. TypeOK /\ SessionShape /\ SessionInv(s) /\ RowsOK(txs)
  BY DEF HistoryInv, Inv, WalletLockHolds, SessionsInv, RowsInv
<1>2. tx[s] \in Transaction /\ tx[s].cmd = Cmd(s) /\ Cmd(s) \in Command /\ Cmd(s).wallet \in Wallets
  BY <1>1 DEF SessionShape, Cmd, Transaction, Command
<1>3. Cmd(s).provider # Null
  BY <1>1, CommandsAssumption DEF SessionInv, Origin, Submitted
<1>4. Before(s).cmd = Cmd(s)
  BY <1>1 DEF Before, SessionInv, Claims, NewExternal
<1>5. Cmd(s).kind \in ExternalKinds
  BY <1>1 DEF SessionInv, Origin, ValidRequest
<1>6. ASSUME claim[s] # 0 PROVE Undecided(Before(s))
  <2>1. Before(s) = txs[claim[s]] /\ claim[s] \in DOMAIN txs
        /\ txs[claim[s]].status = "PENDING_REFERENCE"
    BY <1>1, <1>6 DEF Before, SessionInv, Claims
  <2>2. txs[claim[s]] \in Transaction /\ RowOK(txs, txs[claim[s]])
    BY <1>1, <2>1, RowNumbers DEF RowsOK
  <2> QED
    BY <1>4, <1>5, <2>1, <2>2, MaxAttemptsAssumption DEF RowOK, Undecided
<1>7. ASSUME claim[s] = 0 PROVE Undecided(Before(s))
  <2>1. Before(s) = NewExternal(Cmd(s))
    BY <1>7 DEF Before
  <2> QED
    BY <1>2, <1>4, <1>5, <2>1, NewExternalType, MaxAttemptsAssumption DEF Undecided,
       NewExternal
<1> QED
  BY <1>2, <1>3, <1>4, <1>6, <1>7

\* What a session decided is sound now.
LEMMA DecidedSound ==
  ASSUME HistoryInv, NEW s \in Sessions, pc[s] \in {"persist", "commit"}
  PROVE  /\ Undecided(Before(s)) /\ Before(s).cmd = Cmd(s)
         /\ tx[s] \in Transaction /\ tx[s].cmd = Cmd(s)
         /\ OutcomeOK(Result(s), Before(s), wallets[Cmd(s).wallet])
         /\ Sound(txs, Before(s), Result(s)) /\ Labelled(tx[s])
<1>1. TypeOK /\ FreshCopy /\ SessionInv(s) /\ pc[s] \in Locked
  BY DEF HistoryInv, Inv, WalletLockHolds, SessionsInv, Locked
<1>2. /\ Undecided(Before(s)) /\ Before(s).cmd = Cmd(s) /\ Cmd(s).wallet \in Wallets
      /\ tx[s] \in Transaction /\ tx[s].cmd = Cmd(s)
  BY BeforeUndecided
<1>3. wallets[Cmd(s).wallet] \in WalletRow
  BY <1>1, <1>2 DEF FreshCopy, TypeOK, TablesOK
<1>4. DOMAIN txs \subseteq Nat
  BY <1>1, RowNumbers
<1>5. Choice(txs, Before(s), wallets[Cmd(s).wallet], Result(s)) /\ ~Result(s).error
  BY <1>1 DEF SessionInv, Decided, Result
<1> QED
  BY <1>2, <1>3, <1>4, <1>5, ChoiceSound, ChoiceLabelled DEF Result

\* A commit adds one good row, or decides the one it claimed.
LEMMA CommitAdds ==
  ASSUME HistoryInv, NEW s \in Sessions, pc[s] = "commit", CommitRows(s)
  PROVE  /\ Adds(txs, txs', IdOf(s), Stored(tx[s]))
         /\ RowOK(txs, Stored(tx[s])) /\ Stored(tx[s]) \in Transaction
         /\ Stored(tx[s]).cmd = Cmd(s)
         /\ IdOf(s) \in DOMAIN txs <=> claim[s] # 0
         /\ claim[s] # 0 => IdOf(s) = claim[s]
<1> DEFINE t == Stored(tx[s])
           b == Before(s)
<1>1. TypeOK /\ SessionInv(s) /\ RowsOK(txs)
  BY DEF HistoryInv, Inv, SessionsInv, RowsInv
<1>2. /\ Undecided(b) /\ b.cmd = Cmd(s) /\ tx[s] \in Transaction /\ tx[s].cmd = Cmd(s)
      /\ Sound(txs, b, Result(s)) /\ Result(s).tx = tx[s]
  BY DecidedSound DEF Result
<1>3. /\ t \in Transaction /\ t.cmd = Cmd(s) /\ t.status = tx[s].status /\ t.code = tx[s].code
      /\ t.refTx = tx[s].refTx /\ t.attempts = tx[s].attempts /\ Stored(t) = t
      /\ tx[s].balance = Null => t = tx[s]
  BY <1>2, StoredKeeps
<1> HIDE DEF t
<1>4. tx[s].attempts >= b.attempts /\ b.attempts \in Nat /\ tx[s].attempts \in Nat
  BY <1>2 DEF Sound, Undecided, Transaction
<1>5. /\ tx[s].status \in {"PROCESSED", "REJECTED", "PENDING_REFERENCE"}
      /\ tx[s].status = "PENDING_REFERENCE" =>
           /\ tx[s].attempts \in 1 .. MaxAttempts /\ tx[s].refTx = 0 /\ tx[s].code = Null
           /\ tx[s].balance = Null
  BY <1>2, <1>4, MaxAttemptsAssumption DEF Sound
<1>6. RowOK(txs, t)
  <2>1. t.cmd \in Submitted /\ ValidRequest(t.cmd) /\ t.cmd.kind # "OPENING"
    BY <1>1, <1>3 DEF SessionInv, Origin, ValidRequest, ExternalKinds, ReversalKinds
  <2>2. t.status = "PROCESSED" /\ t.cmd.kind \in ReversalKinds => Names(txs, t, t.refTx)
    <3>1. ASSUME NEW i, Names(txs, b, i) PROVE Names(txs, t, i)
      BY <1>2, <1>3, <3>1 DEF Names, Referred, ReferenceFailure, SameContext
    <3> QED
      BY <1>2, <1>3, <3>1 DEF Sound
  <2> QED
    BY <1>3, <1>5, <2>1, <2>2 DEF RowOK
<1>7. CASE claim[s] # 0
  <2>1. /\ claim[s] \in DOMAIN txs /\ b = txs[claim[s]] /\ IdOf(s) = claim[s]
        /\ txs[claim[s]].status = "PENDING_REFERENCE"
    BY <1>1, <1>7 DEF SessionInv, Claims, Before, IdOf
  <2>2. txs' = [txs EXCEPT ![claim[s]] = t]
    BY <1>7, <2>1 DEF CommitRows, t
  <2>3. GoesOn(b, t)
    BY <1>2, <1>3, <1>4, <2>1 DEF Sound, GoesOn, Terminal
  <2> QED
    BY <1>1, <1>2, <1>3, <1>6, <1>7, <2>1, <2>2, <2>3, RowNumbers DEF Adds, t
<1>8. CASE claim[s] = 0
  <2>1. IdOf(s) = Len(txs) + 1 /\ txs' = Append(txs, t)
    BY <1>8 DEF CommitRows, IdOf, t
  <2>2. txs \in Seq(Transaction) /\ Len(txs) \in Nat /\ DOMAIN txs = 1 .. Len(txs)
    BY <1>1, RowNumbers DEF TypeOK, TablesOK
  <2>3. /\ DOMAIN txs' = 1 .. (Len(txs) + 1) /\ txs'[Len(txs) + 1] = t
        /\ \A j \in 1 .. Len(txs) : txs'[j] = txs[j]
    BY <1>3, <2>1, <2>2, AppendProperties
  <2> QED
    BY <1>3, <1>6, <1>8, <2>1, <2>2, <2>3 DEF Adds, t
<1> QED
  BY <1>7, <1>8

\* The end of a transaction that commits, whatever its caller is told.
LEMMA CommitStep ==
  ASSUME HistoryInv, Inv', NEW s \in Sessions, pc[s] = "commit", CommitRows(s), Reset(s),
         NEW code, NEW r, Answer(s, code, r),
         (code = "OK" /\ r = tx[s]) \/ code = "TEMPORARILY_UNAVAILABLE"
  PROVE  HistoryInv'
<1> DEFINE id == IdOf(s)
           t  == Stored(tx[s])
<1>1. /\ TypeOK /\ SessionsOK /\ SessionShape /\ Exclusive /\ SessionInv(s)
      /\ RowsOK(txs) /\ UniqueRows(txs)
  BY DEF HistoryInv, Inv, TypeOK, WalletLockHolds, SessionsInv, RowsInv
<1>2. /\ Adds(txs, txs', id, t) /\ RowOK(txs, t) /\ t \in Transaction /\ t.cmd = Cmd(s)
      /\ id \in DOMAIN txs <=> claim[s] # 0
      /\ claim[s] # 0 => id = claim[s]
  BY CommitAdds
<1>3. /\ tx[s] \in Transaction /\ Sound(txs, Before(s), Result(s)) /\ Before(s).cmd = Cmd(s)
      /\ t.status = tx[s].status /\ t.refTx = tx[s].refTx /\ t.attempts = tx[s].attempts
  BY DecidedSound, StoredKeeps
<1> HIDE DEF id, t
<1>4. Grown(txs, txs') /\ RowsOK(txs')
  BY <1>1, <1>2, AddsGrows, AddsRows
<1>5. msg[s] # Null => Recording(s) /\ Cmd(s) = msg[s].cmd
  BY <1>1 DEF Recording, RecordsInbox, SessionInv, Origin
<1>6. SessionInv(s)' /\ \A q \in Sessions \ {s} : Stays(q) /\ Apart(s, q)' /\ Apart(q, s)'
  BY <1>1, ResetSession, ResetApart
<1>7. ASSUME NEW q \in Sessions, q # s PROVE SessionInv(q)'
  <2>1. SessionInv(q) /\ Apart(q, s) /\ Stays(q)
    BY <1>6, <1>7 DEF HistoryInv, SessionsInv, PairsInv
  <2>2. claim[q] # 0 => txs'[claim[q]] = txs[claim[q]]
    BY <1>2, <2>1 DEF Apart, Adds, SessionInv, Claims
  <2>3. ASSUME pc[q] \in Locked
        PROVE  /\ wallets'[Cmd(q).wallet] = wallets[Cmd(q).wallet]
               /\ GrownBeside(txs, txs', Cmd(q).wallet)
    <3>1. Cmd(q).wallet \in Wallets /\ Cmd(s).wallet \in Wallets /\ pc[s] \in Locked
      BY <1>1, <2>3 DEF SessionShape, Cmd, Transaction, Command, Locked
    <3>2. Cmd(q).wallet # Cmd(s).wallet
      BY <1>1, <1>7, <2>3, <3>1 DEF Exclusive, Holds, Cmd
    <3>3. wallets'[Cmd(q).wallet] = wallets[Cmd(q).wallet]
      BY <1>1, <3>1, <3>2 DEF CommitRows, TypeOK, TablesOK
    <3> QED
      BY <1>2, <1>4, <3>2, <3>3 DEF GrownBeside, Adds
  <2>4. ASSUME pc[q] = "commit", claim[q] = 0, NEW i \in DOMAIN txs'
        PROVE  ~SameUniqueKey(tx[q], txs'[i])
    BY <1>2, <2>1, <2>4 DEF Adds, Apart, SessionInv, ClearToCommit, SameUniqueKey, Cmd
  <2>5. Recording(q) => \A m \in inbox' : m.id # msg[q].id
    BY <1>5, <2>1 DEF CommitRows, CommitInbox, Apart, SessionInv, Unrecorded
  <2> QED
    BY <1>4, <2>1, <2>2, <2>3, <2>4, <2>5, SessionStays DEF Beside
<1>8. SessionsInv'
  BY <1>6, <1>7 DEF SessionsInv
<1>9. PairsInv'
  <2> SUFFICES ASSUME NEW p \in Sessions, NEW q \in Sessions, p # q, p # s, q # s
               PROVE  Apart(p, q)'
    BY <1>6 DEF PairsInv
  <2> QED
    BY <1>6, ApartStays DEF HistoryInv, PairsInv
<1>10. UniqueRows(txs')
  <2>1. id \notin DOMAIN txs => \A j \in DOMAIN txs : ~SameUniqueKey(t, txs[j])
    BY <1>1, <1>2 DEF SessionInv, ClearToCommit, SameUniqueKey, Cmd
  <2> QED
    BY <1>1, <1>2, <2>1, AddsUnique
<1>11. ReversedOnce'
  <2> DEFINE Once(T) ==
        \A i, j \in DOMAIN T :
          IsProcessedReversal(T[i], T[i].refTx) /\ IsProcessedReversal(T[j], T[i].refTx) => i = j
  <2>1. ASSUME NEW j \in DOMAIN txs, IsProcessedReversal(t, t.refTx)
        PROVE  ~IsProcessedReversal(txs[j], t.refTx)
    <3>1. ~Reversed(txs, tx[s].refTx)
      BY <1>2, <1>3, <2>1 DEF Sound, Result, IsProcessedReversal
    <3> QED
      BY <1>3, <2>1, <3>1 DEF Reversed
  <2>2. Once(txs)
    BY DEF HistoryInv, RowsInv, ReversedOnce, IsProcessedReversal, ReversalKinds
  <2>3. Once(txs')
    BY <1>2, <2>1, <2>2 DEF Adds, IsProcessedReversal
  <2> QED
    BY <2>3 DEF ReversedOnce, IsProcessedReversal, ReversalKinds
<1>12. AnswersInv'
  <2>1. \A a : Truthful(txs, a) => Truthful(txs', a)
    BY <1>1, <1>2, RowNumbers, AddsTruthful
  <2>2. CASE code = "OK" /\ r = tx[s]
    <3>1. id \in DOMAIN txs' /\ txs'[id] = t /\ tx[s].attempts \in Nat
      BY <1>2, <1>3 DEF Adds, Transaction
    <3>2. Truthful(txs', [cmd |-> Cmd(s), code |-> "OK", row |-> tx[s]])
      <4>1. ReplaysAs(tx[s], t)
        BY <1>3, DecidedSound, StoredReplays DEF t
      <4>2. t.cmd = Cmd(s) /\ tx[s].attempts <= t.attempts
        BY <1>2, <1>3, <3>1
      <4> QED
        BY <1>3, <3>1, <4>1, <4>2 DEF Truthful, Conflicts
    <3> QED
      BY <1>1, <2>1, <2>2, <3>2, AnswerStep DEF HistoryInv
  <2>3. CASE code = "TEMPORARILY_UNAVAILABLE"
    <3>1. Truthful(txs', [cmd |-> Cmd(s), code |-> "TEMPORARILY_UNAVAILABLE", row |-> r])
      BY NoPromise DEF AnswerCodes, Conflicts
    <3> QED
      BY <1>1, <2>1, <2>3, <3>1, AnswerStep DEF HistoryInv
  <2> QED
    BY <2>2, <2>3
<1>13. InboxImpliesHandled'
  <2>1. \A m \in inbox' : m \in inbox \/ (m = msg[s] /\ msg[s] # Null)
    BY DEF CommitRows, CommitInbox
  <2>2. ASSUME NEW m \in inbox' PROVE \E i \in DOMAIN txs' : txs'[i].cmd = m.cmd
    <3>1. CASE m \in inbox
      BY <1>4, <3>1 DEF HistoryInv, InboxImpliesHandled, Grown
    <3>2. CASE m = msg[s] /\ msg[s] # Null
      BY <1>2, <1>5, <3>2 DEF Adds
    <3> QED
      BY <2>1, <3>1, <3>2
  <2>3. ASSUME NEW m \in inbox', NEW n \in inbox', m.id = n.id PROVE m = n
    BY <1>1, <1>5, <2>1, <2>3 DEF HistoryInv, InboxImpliesHandled, SessionInv, Unrecorded
  <2> QED
    BY <2>2, <2>3 DEF InboxImpliesHandled
<1> QED
  BY <1>4, <1>8, <1>9, <1>10, <1>11, <1>12, <1>13 DEF HistoryInv, RowsInv

\* The row that OpenWallet adds with a balance.
Opened(o) ==
  MarkProcessed(NewOpening(o.wallet, o.player, o.currency, o.amount), o.amount, o.currency)

LEMMA OpenedRow ==
  ASSUME NEW T, NEW o \in Openings
  PROVE  /\ Opened(o) \in Transaction /\ RowOK(T, Opened(o))
         /\ Opened(o).cmd.kind = "OPENING" /\ Opened(o).cmd.provider = Null
         /\ Opened(o).cmd.wallet = o.wallet /\ Opened(o).cmd.amount = o.amount
         /\ Opened(o).status = "PROCESSED" /\ Opened(o).refTx = 0
         /\ Opened(o).attempts = 0 /\ Opened(o).code = Null
<1> DEFINE t == Opened(o)
<1>1. /\ t.cmd.kind = "OPENING" /\ t.cmd.provider = Null /\ t.status = "PROCESSED"
      /\ t.cmd.wallet = o.wallet /\ t.refTx = 0 /\ t.cmd.currency = o.currency
      /\ t.cmd.amount = o.amount /\ t.attempts = 0 /\ t.code = Null
      /\ t.balance = [minor |-> o.amount, currency |-> o.currency]
  BY DEF Opened, MarkProcessed, NewOpening, NewExternal
<1>2. t \in Transaction
  <2> DEFINE c == [ provider |-> Null, key |-> Null, ext |-> Null, wallet |-> o.wallet,
                    player |-> o.player, round |-> Null, kind |-> "OPENING",
                    amount |-> o.amount, currency |-> o.currency, ref |-> Null ]
             u == NewExternal(c)
  <2>1. /\ o.wallet \in Wallets /\ o.player \in Players
        /\ o.currency \in Currencies /\ o.amount \in 0 .. MaxMinor
    BY CommandsAssumption
  <2>2. c \in Command
    BY <2>1, MaxMinorAssumption DEF Command, Kinds
  <2>3. u \in Transaction
    BY <2>2, NewExternalType
  <2>4. t = MarkProcessed(u, o.amount, o.currency)
    BY DEF NewOpening, Opened
  <2> HIDE DEF u, t
  <2> QED
    BY <2>1, <2>3, <2>4 DEF MarkProcessed, Transaction, Balance, Statuses, Terminal
<1>3. Stored(t) = t
  <2>1. [t.balance EXCEPT !.currency = t.cmd.currency] = t.balance
    BY <1>1
  <2> HIDE DEF t
  <2>2. [t EXCEPT !.balance = t.balance] = t
    BY <1>2 DEF Transaction
  <2> QED
    BY <2>1, <2>2 DEF Stored
<1> HIDE DEF t
<1>4. RowOK(T, t)
  BY <1>1, <1>3 DEF RowOK, ReversalKinds
<1> QED
  BY <1>1, <1>2, <1>4 DEF t

LEMMA OpenAdds ==
  ASSUME TypeOK, NEW o \in Openings, OpenWallet(o)
  PROVE  /\ Len(txs) + 1 \notin DOMAIN txs
         /\ IF o.amount = 0 THEN txs' = txs ELSE Adds(txs, txs', Len(txs) + 1, Opened(o))
<1>1. txs' = IF o.amount = 0 THEN txs ELSE Append(txs, Opened(o))
  BY DEF OpenWallet, Opened
<1>2. txs \in Seq(Transaction) /\ Len(txs) \in Nat /\ DOMAIN txs = 1 .. Len(txs)
  BY RowNumbers DEF TypeOK, TablesOK
<1>3. CASE o.amount # 0
  <2>1. Opened(o) \in Transaction /\ txs' = Append(txs, Opened(o))
    BY <1>1, <1>3, OpenedRow
  <2>2. /\ DOMAIN txs' = 1 .. (Len(txs) + 1) /\ txs'[Len(txs) + 1] = Opened(o)
        /\ \A j \in 1 .. Len(txs) : txs'[j] = txs[j]
    BY <1>2, <2>1, AppendProperties
  <2>3. Adds(txs, txs', Len(txs) + 1, Opened(o))
    BY <1>2, <2>2 DEF Adds
  <2> QED
    BY <1>2, <1>3, <2>3
<1>4. CASE o.amount = 0
  BY <1>1, <1>2, <1>4
<1> QED
  BY <1>3, <1>4

\* OpenWallet adds a row without provider and a wallet nobody can hold.
LEMMA OpenStep ==
  ASSUME HistoryInv, Inv', NEW o \in Openings, OpenWallet(o)
  PROVE  HistoryInv'
<1> DEFINE id == Len(txs) + 1
           t  == Opened(o)
<1>1. /\ TypeOK /\ TypeOK' /\ SessionsOK /\ SessionShape /\ FreshCopy
      /\ RowsOK(txs) /\ UniqueRows(txs)
  BY DEF HistoryInv, Inv, TypeOK, WalletLockHolds, RowsInv
<1>2. /\ pc' = pc /\ tx' = tx /\ row' = row /\ entry' = entry /\ ref' = ref
      /\ claim' = claim /\ msg' = msg /\ again' = again /\ inbox' = inbox /\ answer' = answer
  BY DEF OpenWallet, local
<1>3. \A q \in Sessions : Stays(q)
  BY <1>2 DEF Stays
<1>4. PairsInv'
  BY <1>3, ApartStays DEF HistoryInv, PairsInv
<1> HIDE DEF t
<1>5. /\ t.cmd.kind = "OPENING" /\ t.cmd.provider = Null /\ t.status = "PROCESSED"
      /\ t.cmd.wallet = o.wallet /\ t.refTx = 0
  BY OpenedRow DEF t
<1>6. t \in Transaction
  BY OpenedRow DEF t
<1>7. RowOK(txs, t)
  BY OpenedRow DEF t
<1>8. txs' = txs \/ Adds(txs, txs', id, t)
  BY <1>1, OpenAdds DEF t
<1>9. id \notin DOMAIN txs
  BY <1>1, RowNumbers
<1> HIDE DEF id
<1>10. /\ Grown(txs, txs') /\ RowsOK(txs') /\ UniqueRows(txs')
       /\ \A a : Truthful(txs, a) => Truthful(txs', a)
  <2>1. CASE txs' = txs
    BY <1>1, <2>1 DEF Grown
  <2>2. CASE Adds(txs, txs', id, t)
    BY <1>1, <1>5, <1>6, <1>7, <2>2, AddsGrows, AddsRows, AddsUnique, AddsTruthful,
       RowNumbers
  <2> QED
    BY <1>8, <2>1, <2>2
<1>11. \A i \in DOMAIN txs' : (i \in DOMAIN txs /\ txs'[i] = txs[i]) \/ txs'[i] = t
  BY <1>8 DEF Adds
<1>12. ASSUME NEW q \in Sessions PROVE SessionInv(q)'
  <2>1. SessionInv(q) /\ Stays(q)
    BY <1>3 DEF HistoryInv, SessionsInv
  <2>2. claim[q] # 0 => txs'[claim[q]] = txs[claim[q]]
    BY <1>8, <1>9, <2>1 DEF Adds, SessionInv, Claims
  <2>3. ASSUME pc[q] \in Locked
        PROVE  /\ wallets'[Cmd(q).wallet] = wallets[Cmd(q).wallet]
               /\ GrownBeside(txs, txs', Cmd(q).wallet)
    <3>1. wallets[Cmd(q).wallet] # Null /\ wallets[o.wallet] = Null
      BY <1>1, <2>3 DEF FreshCopy, OpenWallet
    <3>2. wallets'[Cmd(q).wallet] = wallets[Cmd(q).wallet]
      <4>1. Cmd(q).wallet \in Wallets
        BY <1>1, <2>3 DEF SessionShape, Cmd, Transaction, Command, Locked
      <4> QED
        BY <1>1, <3>1, <4>1 DEF OpenWallet, TypeOK, TablesOK
    <3> QED
      BY <1>5, <1>10, <1>11, <3>1, <3>2 DEF GrownBeside
  <2>4. ASSUME pc[q] = "commit", claim[q] = 0, NEW i \in DOMAIN txs'
        PROVE  ~SameUniqueKey(tx[q], txs'[i])
    <3>1. tx[q].cmd.provider # Null
      BY <2>1, <2>4, CommandsAssumption DEF SessionInv, Origin, Submitted, Cmd
    <3> QED
      BY <1>5, <1>11, <2>1, <2>4, <3>1 DEF SessionInv, ClearToCommit, SameUniqueKey
  <2>5. Recording(q) => \A m \in inbox' : m.id # msg[q].id
    BY <1>2, <2>1 DEF SessionInv, Unrecorded
  <2> QED
    BY <1>10, <2>1, <2>2, <2>3, <2>4, <2>5, SessionStays DEF Beside
<1>13. ReversedOnce'
  <2>1. \A i \in DOMAIN txs' : txs'[i].cmd.kind \in ReversalKinds =>
          i \in DOMAIN txs /\ txs'[i] = txs[i]
    BY <1>5, <1>11 DEF ReversalKinds
  <2> QED
    BY <2>1 DEF HistoryInv, RowsInv, ReversedOnce, ReversalKinds
<1>14. AnswersInv'
  BY <1>2, <1>10 DEF HistoryInv, AnswersInv
<1>15. InboxImpliesHandled'
  BY <1>2, <1>10 DEF HistoryInv, InboxImpliesHandled, Grown
<1> QED
  BY <1>4, <1>10, <1>12, <1>13, <1>14, <1>15 DEF HistoryInv, RowsInv, SessionsInv

-----------------------------------------------------------------------------
(* The steps that begin a transaction *)

\* What one idle session has.
LEMMA IdleSession ==
  ASSUME HistoryInv, NEW s \in Sessions, pc[s] = "idle"
  PROVE  claim[s] = 0 /\ msg[s] = Null /\ again[s] = FALSE /\ ~Recording(s)
  BY DEF HistoryInv, SessionsInv, SessionInv, Origin, Recording, Inv, TypeOK, SessionsOK

LEMMA SubmitStep ==
  ASSUME HistoryInv, Inv', NEW s \in Callers, NEW c \in Commands, Submit(s, c)
  PROVE  HistoryInv'
<1>1. s \in Sessions /\ SessionsOK
  BY DEF Sessions, HistoryInv, Inv, TypeOK
<1>2. claim[s] = 0 /\ msg[s] = Null /\ again[s] = FALSE /\ ~Recording(s)
  BY <1>1, IdleSession DEF Submit
<1>3. /\ pc'[s] = "key1" /\ tx'[s] = NewExternal(c) /\ claim'[s] = 0 /\ msg'[s] = Null
      /\ again'[s] = FALSE
      /\ \A q \in Sessions \ {s} : Stays(q)
  BY <1>1, <1>2 DEF Submit, Goto, SessionsOK, Stays
<1>4. tx'[s].cmd = c /\ c \in Submitted /\ ValidRequest(c)
  BY <1>3 DEF NewExternal, Submitted, Submit
<1>5. SessionInv(s)'
  BY <1>3, <1>4 DEF SessionInv, Origin, Claims, Resolving, Decided, NoTwin, ClearToCommit,
                    Settles, Unrecorded, Recording, Before, Cmd
<1>6. \A q \in Sessions \ {s} : Apart(s, q)' /\ Apart(q, s)'
  BY <1>1, <1>2, <1>3, ApartMoves DEF HistoryInv, PairsInv, Recording
<1>7. AnswersInv'
  BY DEF HistoryInv, AnswersInv, Submit, db, Inv, TypeOK, SessionsOK
<1> QED
  BY <1>1, <1>3, <1>5, <1>6, <1>7, MoveStep DEF Submit

LEMMA RefuseStep ==
  ASSUME HistoryInv, Inv', NEW s \in Callers, NEW c \in Commands, RefuseInvalid(s, c)
  PROVE  HistoryInv'
<1>1. s \in Sessions /\ TypeOK
  BY DEF Sessions, HistoryInv, Inv
<1>2. \A q \in Sessions : Stays(q)
  BY DEF RefuseInvalid, local, Stays
<1>3. SessionInv(s)'
  BY <1>1, <1>2, QuietBeside, SessionStays DEF RefuseInvalid, db, HistoryInv, SessionsInv
<1>4. \A q \in Sessions \ {s} : Apart(s, q)' /\ Apart(q, s)'
  BY <1>1, <1>2, ApartStays DEF HistoryInv, PairsInv
<1>5. AnswersInv'
  <2>1. Truthful(txs, [cmd |-> c, code |-> "VALIDATION_ERROR", row |-> Null])
    BY NoPromise DEF AnswerCodes, Conflicts
  <2> QED
    BY <1>1, <2>1 DEF HistoryInv, AnswersInv, RefuseInvalid, db, TypeOK, SessionsOK
<1> QED
  BY <1>1, <1>2, <1>3, <1>4, <1>5, MoveStep DEF RefuseInvalid

LEMMA DeliverStep ==
  ASSUME HistoryInv, Inv', NEW s \in Consumers, NEW m \in Messages, Deliver(s, m)
  PROVE  HistoryInv'
<1>1. s \in Sessions /\ SessionsOK
  BY DEF Sessions, HistoryInv, Inv, TypeOK
<1>2. claim[s] = 0 /\ again[s] = FALSE /\ ~Recording(s)
  BY <1>1, IdleSession DEF Deliver
<1>3. /\ pc'[s] = "inbox" /\ tx'[s] = NewExternal(m.cmd) /\ claim'[s] = 0 /\ msg'[s] = m
      /\ again'[s] = FALSE
      /\ \A q \in Sessions \ {s} : Stays(q)
  BY <1>1, <1>2 DEF Deliver, Goto, SessionsOK, Stays
<1>4. tx'[s].cmd = m.cmd /\ m.cmd \in Submitted /\ ValidRequest(m.cmd)
  BY <1>3 DEF NewExternal, Submitted, Deliver
<1>5. ~Recording(s)'
  BY <1>3 DEF Recording, RecordsInbox
<1>6. SessionInv(s)'
  BY <1>3, <1>4, <1>5, CommandsAssumption
     DEF SessionInv, Origin, Claims, Resolving, Decided, NoTwin, ClearToCommit, Settles,
         Unrecorded, Before, Cmd
<1>7. \A q \in Sessions \ {s} : Apart(s, q)' /\ Apart(q, s)'
  BY <1>1, <1>2, <1>3, <1>5, ApartMoves DEF HistoryInv, PairsInv
<1>8. AnswersInv'
  BY DEF HistoryInv, AnswersInv, Deliver, db
<1> QED
  BY <1>1, <1>3, <1>6, <1>7, <1>8, MoveStep DEF Deliver

LEMMA ClaimStep ==
  ASSUME HistoryInv, Inv', NEW s \in Resolvers, NEW i \in DOMAIN txs,
         ClaimDuePendingReference(s, i)
  PROVE  HistoryInv'
<1>1. s \in Sessions /\ SessionsOK /\ TypeOK
  BY DEF Sessions, HistoryInv, Inv, TypeOK
<1>2. claim[s] = 0 /\ msg[s] = Null /\ again[s] = FALSE /\ ~Recording(s) /\ i # 0
  BY <1>1, IdleSession, RowNumbers DEF ClaimDuePendingReference
<1>3. /\ pc'[s] = "lock" /\ tx'[s] = txs[i] /\ claim'[s] = i /\ msg'[s] = Null
      /\ again'[s] = FALSE /\ txs' = txs
      /\ \A q \in Sessions \ {s} : Stays(q)
  BY <1>1, <1>2 DEF ClaimDuePendingReference, Goto, SessionsOK, Stays, db
<1>4. txs[i].status = "PENDING_REFERENCE" /\ Unclaimed(i)
  BY DEF ClaimDuePendingReference
<1>5. txs[i].cmd \in Submitted /\ ValidRequest(txs[i].cmd)
  BY <1>4 DEF HistoryInv, RowsInv, RowsOK, RowOK
<1>6. SessionInv(s)'
  BY <1>2, <1>3, <1>4, <1>5
     DEF SessionInv, Origin, Claims, Resolving, Decided, NoTwin, ClearToCommit,
         Settles, Unrecorded, Recording, Before, Cmd
<1>7. ASSUME NEW q \in Sessions \ {s} PROVE Apart(s, q)' /\ Apart(q, s)'
  <2>1. claim[q] # i
    <3>1. CASE q \in Resolvers
      BY <1>4, <3>1 DEF Unclaimed
    <3>2. CASE q \notin Resolvers
      BY <1>2, <3>2 DEF HistoryInv, SessionsInv, SessionInv, Claims
    <3> QED
      BY <3>1, <3>2
  <2> QED
    BY <1>2, <1>3, <2>1 DEF Apart, Stays, Recording
<1>8. AnswersInv'
  BY DEF HistoryInv, AnswersInv, ClaimDuePendingReference, db
<1> QED
  BY <1>1, <1>3, <1>6, <1>7, <1>8, MoveStep DEF ClaimDuePendingReference

-----------------------------------------------------------------------------
(* The statements of a transaction *)

LEMMA RecordInboxStep ==
  ASSUME HistoryInv, Inv', NEW s \in Sessions, RecordInbox(s)
  PROVE  HistoryInv'
<1>1. CASE Abort(s, "DUPLICATE_DELIVERY")
  BY <1>1, AbortStep DEF AnswerCodes, Conflicts
<1>2. CASE /\ \A m \in inbox : m.id # msg[s].id
           /\ Goto(s, "key1")
           /\ UNCHANGED << db, local, answer, faults >>
  <2>1. SessionsOK /\ SessionInv(s) /\ pc[s] = "inbox"
    BY DEF HistoryInv, Inv, TypeOK, SessionsInv, RecordInbox
  <2>2. /\ pc'[s] = "key1" /\ tx' = tx /\ claim' = claim /\ msg' = msg /\ again' = again
        /\ row' = row /\ entry' = entry /\ ref' = ref /\ txs' = txs /\ inbox' = inbox
        /\ \A q \in Sessions \ {s} : Stays(q)
    BY <1>2, <2>1 DEF Goto, SessionsOK, Stays, db, local
  <2>3. claim[s] = 0 /\ again[s] = FALSE /\ s \in Consumers
    BY <2>1, SessionsAssumption DEF SessionInv, Origin, Settles, SessionsOK
  <2>4. SessionInv(s)'
    BY <1>2, <2>1, <2>2, <2>3
       DEF SessionInv, Origin, Claims, Resolving, Decided, NoTwin, ClearToCommit,
           Settles, Unrecorded, Before, Cmd
  <2>5. ASSUME NEW q \in Sessions \ {s} PROVE Apart(s, q)' /\ Apart(q, s)'
    <3>1. Recording(q) => msg[q].id # msg[s].id
      BY DEF Recording, RecordInbox, HistoryInv, SessionsInv, SessionInv, Origin
    <3>2. Apart(s, q) /\ Apart(q, s) /\ Stays(q)
      BY <2>2 DEF HistoryInv, PairsInv
    <3> QED
      BY <2>2, <3>1, <3>2 DEF Apart, Stays, Recording, RecordsInbox
  <2>6. AnswersInv'
    BY <1>2 DEF HistoryInv, AnswersInv, db
  <2> QED
    BY <1>2, <2>2, <2>4, <2>5, <2>6, MoveStep
<1> QED
  BY <1>1, <1>2 DEF RecordInbox

\* A statement that only reads, and goes on.
LEMMA GotoStep ==
  ASSUME HistoryInv, Inv', NEW s \in Sessions, NEW label, Goto(s, label),
         pc[s] \notin {"idle", "inbox"}, label \notin {"idle", "inbox", "commit"},
         UNCHANGED << db, local, answer, faults >>,
         SessionInv(s)'
  PROVE  HistoryInv'
<1>1. SessionsOK
  BY DEF HistoryInv, Inv, TypeOK
<1>2. /\ pc'[s] = label /\ claim' = claim /\ msg' = msg
      /\ \A q \in Sessions \ {s} : Stays(q)
  BY <1>1 DEF Goto, SessionsOK, Stays, local
<1>3. \A q \in Sessions \ {s} : Apart(s, q)' /\ Apart(q, s)'
  BY <1>2, ApartMoves DEF HistoryInv, PairsInv, Recording, RecordsInbox
<1>4. AnswersInv'
  BY DEF HistoryInv, AnswersInv, db
<1> QED
  BY <1>2, <1>3, <1>4, MoveStep

LEMMA FindByIdempotencyKeyStep ==
  ASSUME HistoryInv, Inv', NEW s \in Sessions, FindByIdempotencyKey(s)
  PROVE  HistoryInv'
<1> DEFINE found == ByKey(Cmd(s).provider, Cmd(s).key)
<1>1. /\ TypeOK /\ SessionsOK /\ SessionInv(s) /\ pc[s] \in {"key1", "key2"}
  BY DEF HistoryInv, Inv, TypeOK, SessionsInv, FindByIdempotencyKey
<1>2. Cmd(s) \in Command /\ Cmd(s).provider # Null
  BY <1>1, BeforeUndecided
<1>3. CASE /\ found = {}
           /\ Goto(s, IF pc[s] = "key1" THEN "ext1" ELSE "ext2")
           /\ UNCHANGED << db, local, answer, faults >>
  <2>1. \A i \in DOMAIN txs : ~SameKeyOf(txs[i], Cmd(s))
    BY <1>3 DEF ByKey, SameKeyOf
  <2>2. /\ pc'[s] = IF pc[s] = "key1" THEN "ext1" ELSE "ext2"
        /\ tx' = tx /\ claim' = claim /\ msg' = msg /\ again' = again
        /\ row' = row /\ entry' = entry /\ ref' = ref /\ txs' = txs /\ inbox' = inbox
    BY <1>1, <1>3 DEF Goto, SessionsOK, db, local
  <2>3. claim[s] = 0
    BY <1>1 DEF SessionInv, Claims
  <2>4. (again[s] => pc'[s] = "ext1" /\ \E i \in DOMAIN txs : SameExtOf(txs[i], Cmd(s)))
    BY <1>1, <2>1, <2>2 DEF SessionInv, Settles, SameUniqueKey, SameKeyOf, SameExtOf, Cmd
  <2>5. SessionInv(s)'
    <3>1. Origin(s)' /\ Claims(s)'
      BY <1>1, <2>2, <2>3 DEF SessionInv, Origin, Claims, Before, Cmd
    <3>2. Resolving(s)' /\ Decided(s)' /\ ClearToCommit(s)'
      BY <2>2 DEF Resolving, Decided, ClearToCommit
    <3>3. NoTwin(s)' /\ Settles(s)'
      BY <2>1, <2>2, <2>4 DEF NoTwin, Settles, Cmd
    <3>4. Unrecorded(s)'
      BY <1>1, <2>2 DEF SessionInv, Unrecorded, Recording, RecordsInbox
    <3> QED
      BY <3>1, <3>2, <3>3, <3>4 DEF SessionInv
  <2> QED
    BY <1>1, <1>3, <2>5, GotoStep
<1>4. ASSUME NEW i \in found, PayloadHash(txs[i].cmd) = PayloadHash(Cmd(s)), Replay(s, i)
      PROVE  HistoryInv'
  <2>1. i \in DOMAIN txs /\ txs[i].cmd.key = Cmd(s).key /\ txs[i].cmd \in Command
    BY <1>1, <1>4, RowNumbers DEF ByKey, Transaction
  <2>2. txs[i].cmd = Cmd(s)
    BY <1>2, <1>4, <2>1, SamePayload
  <2> QED
    BY <1>1, <1>4, <2>1, <2>2, ReplayStep
<1>5. ASSUME NEW i \in found, PayloadHash(txs[i].cmd) # PayloadHash(Cmd(s)),
             Abort(s, "IDEMPOTENCY_KEY_CONFLICT")
      PROVE  HistoryInv'
  <2>1. i \in DOMAIN txs /\ txs[i].cmd # Cmd(s) /\ SameKeyOf(txs[i], Cmd(s))
    BY <1>5 DEF ByKey, SameKeyOf
  <2>2. Truthful(txs, [cmd |-> Cmd(s), code |-> "IDEMPOTENCY_KEY_CONFLICT", row |-> Null])
    BY <1>2, <2>1 DEF Truthful, Conflicts
  <2> QED
    BY <1>5, <2>2, RollbackStep DEF Abort
<1> HIDE DEF found
<1> QED
  BY <1>3, <1>4, <1>5 DEF FindByIdempotencyKey, found

LEMMA FindByExternalIDStep ==
  ASSUME HistoryInv, Inv', NEW s \in Sessions, FindByExternalID(s)
  PROVE  HistoryInv'
<1> DEFINE found == ByExternalId(Cmd(s).provider, Cmd(s).ext)
<1>1. /\ TypeOK /\ SessionsOK /\ SessionInv(s) /\ pc[s] \in {"ext1", "ext2"}
  BY DEF HistoryInv, Inv, TypeOK, SessionsInv, FindByExternalID
<1>2. Cmd(s) \in Command /\ Cmd(s).provider # Null
  BY <1>1, BeforeUndecided
<1>3. CASE /\ found = {}
           /\ Goto(s, IF pc[s] = "ext1" THEN "lock" ELSE "apply")
           /\ UNCHANGED << db, local, answer, faults >>
  <2>1. \A i \in DOMAIN txs : ~SameExtOf(txs[i], Cmd(s))
    BY <1>3 DEF ByExternalId, SameExtOf
  <2>2. /\ pc'[s] = IF pc[s] = "ext1" THEN "lock" ELSE "apply"
        /\ tx' = tx /\ claim' = claim /\ msg' = msg /\ again' = again
        /\ row' = row /\ entry' = entry /\ ref' = ref /\ txs' = txs /\ inbox' = inbox
    BY <1>1, <1>3 DEF Goto, SessionsOK, db, local
  <2>3. claim[s] = 0 /\ ~again[s]
    BY <1>1, <2>1 DEF SessionInv, Claims, Settles
  <2>4. SessionInv(s)'
    <3>1. Origin(s)' /\ Claims(s)'
      BY <1>1, <2>2, <2>3 DEF SessionInv, Origin, Claims, Before, Cmd
    <3>2. Resolving(s)' /\ Decided(s)' /\ ClearToCommit(s)'
      BY <2>2 DEF Resolving, Decided, ClearToCommit
    <3>3. NoTwin(s)' /\ Settles(s)'
      BY <1>1, <2>1, <2>2, <2>3 DEF SessionInv, NoTwin, Settles, Cmd
    <3>4. Unrecorded(s)'
      BY <1>1, <2>2 DEF SessionInv, Unrecorded, Recording, RecordsInbox
    <3> QED
      BY <3>1, <3>2, <3>3, <3>4 DEF SessionInv
  <2> QED
    BY <1>1, <1>3, <2>4, GotoStep
<1>4. ASSUME NEW i \in found, SameKey(txs[i].cmd, Cmd(s)),
             PayloadHash(txs[i].cmd) = PayloadHash(Cmd(s)), Replay(s, i)
      PROVE  HistoryInv'
  <2>1. i \in DOMAIN txs /\ txs[i].cmd.key = Cmd(s).key /\ txs[i].cmd \in Command
    BY <1>1, <1>4, RowNumbers DEF ByExternalId, Transaction, SameKey
  <2>2. txs[i].cmd = Cmd(s)
    BY <1>2, <1>4, <2>1, SamePayload
  <2> QED
    BY <1>1, <1>4, <2>1, <2>2, ReplayStep
<1>5. ASSUME NEW i \in found, txs[i].cmd # Cmd(s), NEW code \in Conflicts, Abort(s, code)
      PROVE  HistoryInv'
  <2>1. i \in DOMAIN txs /\ SameExtOf(txs[i], Cmd(s))
    BY <1>5 DEF ByExternalId, SameExtOf
  <2>2. Truthful(txs, [cmd |-> Cmd(s), code |-> code, row |-> Null])
    BY <1>2, <1>5, <2>1 DEF Truthful, Conflicts
  <2> QED
    BY <1>5, <2>2, RollbackStep DEF Abort
<1> HIDE DEF found
<1> QED
  BY <1>3, <1>4, <1>5 DEF FindByExternalID, SameKey, Conflicts, found

\* A lookup ends a session well only with the operation it carries.
LEMMA LookupStep ==
  ASSUME HistoryInv, NEW s \in Sessions, FindByIdempotencyKey(s) \/ FindByExternalID(s)
  PROVE  \/ UNCHANGED db
         \/ /\ pc[s] \notin {"idle", "inbox"}
            /\ \E i \in DOMAIN txs : txs[i].cmd = Cmd(s) /\ Replay(s, i)
<1>1. /\ TypeOK /\ SessionInv(s) /\ pc[s] \in {"key1", "key2", "ext1", "ext2"}
  BY DEF HistoryInv, Inv, SessionsInv, FindByIdempotencyKey, FindByExternalID
<1>2. Cmd(s) \in Command
  BY <1>1, BeforeUndecided
<1>3. ASSUME NEW i \in DOMAIN txs, txs[i].cmd.key = Cmd(s).key,
             PayloadHash(txs[i].cmd) = PayloadHash(Cmd(s))
      PROVE  txs[i].cmd = Cmd(s)
  <2>1. txs[i].cmd \in Command
    BY <1>1, RowNumbers DEF Transaction
  <2> QED
    BY <1>2, <1>3, <2>1, SamePayload
<1>4. CASE FindByIdempotencyKey(s)
  BY <1>1, <1>3, <1>4 DEF FindByIdempotencyKey, ByKey, Abort
<1>5. CASE FindByExternalID(s)
  BY <1>1, <1>3, <1>5 DEF FindByExternalID, ByExternalId, SameKey, Abort
<1> QED
  BY <1>4, <1>5

LEMMA GetForUpdateStep ==
  ASSUME HistoryInv, Inv', NEW s \in Sessions, GetForUpdate(s)
  PROVE  HistoryInv'
<1>1. CASE Abort(s, "WALLET_NOT_FOUND")
  BY <1>1, AbortStep DEF AnswerCodes, Conflicts
<1>2. CASE ~Abort(s, "WALLET_NOT_FOUND")
  <2>1. /\ SessionsOK /\ SessionInv(s) /\ pc[s] = "lock"
    BY DEF HistoryInv, Inv, TypeOK, SessionsInv, GetForUpdate
  <2>2. /\ pc' = [pc EXCEPT ![s] = IF claim[s] # 0 THEN "apply" ELSE "key2"]
        /\ row' = [row EXCEPT ![s] = wallets[Cmd(s).wallet]]
        /\ UNCHANGED << db, tx, entry, ref, claim, msg, again, answer, faults >>
    BY <1>2 DEF GetForUpdate, Goto
  <2>3. /\ pc'[s] = IF claim[s] # 0 THEN "apply" ELSE "key2"
        /\ tx' = tx /\ claim' = claim /\ msg' = msg /\ again' = again /\ txs' = txs
        /\ inbox' = inbox /\ answer' = answer
        /\ \A q \in Sessions \ {s} : Stays(q)
    BY <2>1, <2>2 DEF SessionsOK, db, Stays
  <2>4. SessionInv(s)'
    <3>1. Origin(s)' /\ Claims(s)'
      BY <2>1, <2>3 DEF SessionInv, Origin, Claims, Before, Cmd
    <3>2. Resolving(s)' /\ Decided(s)' /\ ClearToCommit(s)' /\ NoTwin(s)'
      BY <2>3 DEF Resolving, Decided, ClearToCommit, NoTwin
    <3>3. Settles(s)'
      BY <2>1, <2>3 DEF SessionInv, Settles
    <3>4. Unrecorded(s)'
      BY <2>1, <2>3 DEF SessionInv, Unrecorded, Recording, RecordsInbox
    <3> QED
      BY <3>1, <3>2, <3>3, <3>4 DEF SessionInv
  <2>5. \A q \in Sessions \ {s} : Apart(s, q)' /\ Apart(q, s)'
    BY <2>1, <2>3, ApartMoves DEF HistoryInv, PairsInv, Recording, RecordsInbox
  <2>6. AnswersInv'
    BY <2>3 DEF HistoryInv, AnswersInv
  <2> QED
    BY <2>2, <2>3, <2>4, <2>5, <2>6, MoveStep
<1> QED
  BY <1>1, <1>2

\* An outcome has these four fields and no other.
LEMMA OutcomeFields ==
  ASSUME NEW T, NEW t, NEW w, NEW o, Choice(T, t, w, o), ~o.error
  PROVE  o = [tx |-> o.tx, row |-> o.row, entry |-> o.entry, error |-> FALSE]
<1> DEFINE Good(x) == \/ x.error = TRUE
                      \/ x = [tx |-> x.tx, row |-> x.row, entry |-> x.entry, error |-> FALSE]
<1>1. \A u, v, e : Good(Outcome(u, v, e))
  BY DEF Outcome
<1>2. \A u : Good(Failed(u, w))
  BY DEF Outcome, Failed
<1>3. \A u, code : Good(Rejected(u, w, code))
  BY <1>1 DEF Rejected
<1>4. \A u, dir, after : Good(Moved(u, w, dir, after))
  BY <1>1 DEF Moved
<1> HIDE DEF Good
<1>5. \A u, code : Good(Credit(u, w)) /\ Good(Debit(u, w, code))
  BY <1>2, <1>3, <1>4 DEF Credit, Debit
<1>6. Good(ApplyAlone(t, w)) /\ \A at : Good(Park(t, w, at))
  BY <1>1, <1>2, <1>3, <1>5 DEF ApplyAlone, Park
<1>7. \A i, k : Good(ApplyResolved(Resolved(t, i), w, k))
  BY <1>5 DEF ApplyResolved
<1>8. Good(o)
  BY <1>3, <1>6, <1>7 DEF Choice, Alone, Parks, Refuses, Accepts
<1> QED
  BY <1>8 DEF Good

\* apply ends with an outcome of the rules.
LEMMA ConcludeStep ==
  ASSUME HistoryInv, Inv', NEW s \in Sessions, pc[s] \in {"apply", "reversal"},
         NEW o, Choice(txs, tx[s], row[s], o), Conclude(s, o)
  PROVE  HistoryInv'
<1>1. CASE o.error
  BY <1>1, AbortStep DEF Conclude, AnswerCodes, Conflicts
<1>2. CASE ~o.error
  <2>1. /\ TypeOK /\ SessionsOK /\ SessionShape /\ FreshCopy /\ SessionInv(s) /\ pc[s] \in Locked
    BY DEF HistoryInv, Inv, TypeOK, WalletLockHolds, SessionsInv, Locked
  <2>2. /\ pc' = [pc EXCEPT ![s] = "persist"]
        /\ tx' = [tx EXCEPT ![s] = o.tx]
        /\ row' = [row EXCEPT ![s] = o.row]
        /\ entry' = [entry EXCEPT ![s] = o.entry]
        /\ UNCHANGED << db, ref, claim, msg, again, answer, faults >>
    BY <1>2 DEF Conclude, Goto
  <2>3. /\ pc'[s] = "persist" /\ tx'[s] = o.tx /\ row'[s] = o.row /\ entry'[s] = o.entry
        /\ claim' = claim /\ msg' = msg /\ again' = again /\ txs' = txs
        /\ wallets' = wallets /\ inbox' = inbox /\ answer' = answer
        /\ \A q \in Sessions \ {s} : Stays(q)
    BY <2>1, <2>2 DEF SessionsOK, db, Stays
  <2>4. /\ tx[s] = Before(s) /\ Undecided(tx[s]) /\ Before(s).cmd = Cmd(s)
        /\ row[s] = wallets[Cmd(s).wallet] /\ row[s] \in WalletRow
    <3>1. tx[s] = Before(s) /\ Undecided(Before(s)) /\ Before(s).cmd = Cmd(s)
      BY <2>1, BeforeUndecided DEF SessionInv, Origin
    <3> QED
      BY <2>1, <3>1 DEF FreshCopy, SessionShape
  <2>5. o.tx.cmd = Cmd(s)
    BY <1>2, <2>1, <2>4, ChoiceSound, RowNumbers DEF OutcomeOK
  <2>6. Cmd(s)' = Cmd(s) /\ Before(s)' = Before(s)
    BY <2>3, <2>5 DEF Cmd, Before
  <2>7. SessionInv(s)'
    <3>1. Origin(s)' /\ Claims(s)'
      BY <2>1, <2>3, <2>6 DEF SessionInv, Origin, Claims
    <3>2. Resolving(s)' /\ ClearToCommit(s)'
      BY <2>3 DEF Resolving, ClearToCommit
    <3>3. Decided(s)'
      <4>1. Result(s)' = o
        BY <1>2, <2>3, OutcomeFields DEF Result
      <4>2. Choice(txs, Before(s), wallets[Cmd(s).wallet], o)
        BY <2>4
      <4> QED
        BY <2>3, <2>6, <4>1, <4>2 DEF Decided
    <3>4. NoTwin(s)'
      BY <2>1, <2>3, <2>6 DEF SessionInv, NoTwin
    <3>5. Settles(s)'
      BY <2>1, <2>3 DEF SessionInv, Settles
    <3>6. Unrecorded(s)'
      BY <2>1, <2>3 DEF SessionInv, Unrecorded, Recording, RecordsInbox
    <3> QED
      BY <3>1, <3>2, <3>3, <3>4, <3>5, <3>6 DEF SessionInv
  <2>8. \A q \in Sessions \ {s} : Apart(s, q)' /\ Apart(q, s)'
    BY <2>3, ApartMoves DEF HistoryInv, PairsInv, Recording, RecordsInbox
  <2>9. AnswersInv'
    BY <2>3 DEF HistoryInv, AnswersInv
  <2> QED
    BY <2>2, <2>3, <2>7, <2>8, <2>9, MoveStep
<1> QED
  BY <1>1, <1>2

\* resolveReferenceTx finds at most one row, by the unique index on external ids.
LEMMA OneReference ==
  ASSUME HistoryInv, NEW t, t.cmd.provider # Null,
         NEW i \in Referred(txs, t), NEW j \in Referred(txs, t)
  PROVE  i = j
  BY DEF HistoryInv, RowsInv, UniqueRows, SameUniqueKey, Referred

LEMMA FindReferenceStep ==
  ASSUME HistoryInv, Inv', NEW s \in Sessions, FindReference(s)
  PROVE  HistoryInv'
<1> DEFINE t     == tx[s]
           found == Referred(txs, t)
           waits == \A i \in found : txs[i].status \in {"PENDING", "PENDING_REFERENCE"}
<1>1. /\ TypeOK /\ SessionsOK /\ SessionInv(s) /\ pc[s] = "apply" /\ NeedsRow(t, row[s])
  BY DEF HistoryInv, Inv, TypeOK, SessionsInv, FindReference, NeedsRow
<1>2. t.cmd.provider # Null /\ t.cmd = Cmd(s)
  BY <1>1, BeforeUndecided
<1>3. waits => Missing(txs, t)
  BY DEF Missing, Terminal
<1>4. ASSUME ~waits, NEW i \in found
      PROVE  txs[i].status \in Terminal
  <2>1. PICK j \in found : txs[j].status \notin {"PENDING", "PENDING_REFERENCE"}
    BY <1>4
  <2>2. i = j
    BY <1>2, <1>4, <2>1, OneReference
  <2> QED
    BY <2>1, <2>2 DEF HistoryInv, RowsInv, RowsOK, RowOK, Referred, Terminal
<1>5. ASSUME waits, NEW at \in RetryTimes, Conclude(s, Park(t, row[s], at))
      PROVE  HistoryInv'
  <2>1. Choice(txs, t, row[s], Park(t, row[s], at))
    BY <1>1, <1>3, <1>5 DEF Choice, Parks
  <2> QED
    BY <1>1, <1>5, <2>1, ConcludeStep
<1>6. ASSUME NEW i \in found, ~waits, ReferenceFailure(t, txs[i]) # Null,
             Conclude(s, Rejected(t, row[s], ReferenceFailure(t, txs[i])))
      PROVE  HistoryInv'
  <2>1. Choice(txs, t, row[s], Rejected(t, row[s], ReferenceFailure(t, txs[i])))
    BY <1>1, <1>4, <1>6 DEF Choice, Refuses
  <2> QED
    BY <1>1, <1>6, <2>1, ConcludeStep
<1>7. ASSUME NEW i \in found, ~waits, ReferenceFailure(t, txs[i]) = Null,
             t.cmd.kind \notin ReversalKinds,
             Conclude(s, ApplyResolved(Resolved(t, i), row[s], txs[i].cmd.kind))
      PROVE  HistoryInv'
  <2>1. Choice(txs, t, row[s], ApplyResolved(Resolved(t, i), row[s], txs[i].cmd.kind))
    BY <1>1, <1>4, <1>7 DEF Choice, Accepts, Names
  <2> QED
    BY <1>1, <1>7, <2>1, ConcludeStep
<1>8. ASSUME NEW i \in found, ~waits, ReferenceFailure(t, txs[i]) = Null,
             t.cmd.kind \in ReversalKinds, Goto(s, "reversal"),
             ref' = [ref EXCEPT ![s] = i],
             UNCHANGED << db, tx, row, entry, claim, msg, again, answer, faults >>
      PROVE  HistoryInv'
  <2>1. /\ pc'[s] = "reversal" /\ ref'[s] = i
        /\ tx' = tx /\ claim' = claim /\ msg' = msg /\ again' = again /\ row' = row
        /\ entry' = entry /\ txs' = txs /\ inbox' = inbox /\ answer' = answer
        /\ \A q \in Sessions \ {s} : Stays(q)
    BY <1>1, <1>8 DEF SessionsOK, db, Stays, Goto
  <2>2. SessionInv(s)'
    <3>1. Origin(s)' /\ Claims(s)'
      BY <1>1, <2>1 DEF SessionInv, Origin, Claims, Before, Cmd
    <3>2. Decided(s)' /\ ClearToCommit(s)'
      BY <2>1 DEF Decided, ClearToCommit
    <3>3. Resolving(s)'
      <4>1. Names(txs, t, i) /\ MatchesWallet(t, row[s])
        BY <1>1, <1>4, <1>8 DEF Names, NeedsRow
      <4> QED
        BY <1>8, <2>1, <4>1 DEF Resolving
    <3>4. NoTwin(s)'
      BY <1>1, <2>1 DEF SessionInv, NoTwin, Cmd
    <3>5. Settles(s)'
      BY <1>1, <2>1 DEF SessionInv, Settles
    <3>6. Unrecorded(s)'
      BY <1>1, <2>1 DEF SessionInv, Unrecorded, Recording, RecordsInbox
    <3> QED
      BY <3>1, <3>2, <3>3, <3>4, <3>5, <3>6 DEF SessionInv
  <2>3. \A q \in Sessions \ {s} : Apart(s, q)' /\ Apart(q, s)'
    BY <1>1, <2>1, ApartMoves DEF HistoryInv, PairsInv, Recording, RecordsInbox
  <2>4. AnswersInv'
    BY <2>1 DEF HistoryInv, AnswersInv
  <2> QED
    BY <1>8, <2>1, <2>2, <2>3, <2>4, MoveStep
<1>9. found = ByExternalId(t.cmd.provider, t.cmd.ref)
  BY DEF Referred, ByExternalId
<1> HIDE DEF found
<1> QED
  BY <1>5, <1>6, <1>7, <1>8, <1>9 DEF FindReference

LEMMA ApplyStep ==
  ASSUME HistoryInv, Inv', NEW s \in Sessions, Apply(s) \/ CheckReversal(s)
  PROVE  HistoryInv'
<1>1. CASE Apply(s)
  <2>1. Choice(txs, tx[s], row[s], ApplyAlone(tx[s], row[s]))
    BY <1>1 DEF Apply, Choice, Alone, NeedsRow
  <2> QED
    BY <1>1, <2>1, ConcludeStep DEF Apply
<1>2. CASE CheckReversal(s)
  <2> DEFINE t == tx[s]
             o == IF HasProcessedReversal(ref[s])
                  THEN Rejected(t, row[s], "REFERENCE_ALREADY_REVERSED")
                  ELSE ApplyResolved(Resolved(t, ref[s]), row[s], txs[ref[s]].cmd.kind)
  <2>1. Names(txs, t, ref[s]) /\ t.cmd.kind \in ReversalKinds /\ MatchesWallet(t, row[s])
    BY <1>2 DEF CheckReversal, HistoryInv, SessionsInv, SessionInv, Resolving
  <2>2. HasProcessedReversal(ref[s]) <=> Reversed(txs, ref[s])
    BY DEF HasProcessedReversal, Reversed
  <2>3. ref[s] \in Referred(txs, t) /\ NeedsRow(t, row[s])
    BY <2>1 DEF Names, NeedsRow, NeedsReference
  <2>4. Choice(txs, t, row[s], o)
    BY <2>1, <2>2, <2>3 DEF Choice, Accepts
  <2> QED
    BY <1>2, <2>4, ConcludeStep DEF CheckReversal
<1> QED
  BY <1>1, <1>2

LEMMA PersistStep ==
  ASSUME HistoryInv, Inv', NEW s \in Sessions, Persist(s)
  PROVE  HistoryInv'
<1>1. /\ TypeOK /\ SessionsOK /\ SessionInv(s) /\ pc[s] = "persist"
  BY DEF HistoryInv, Inv, TypeOK, SessionsInv, Persist
<1>2. /\ pc'[s] = "commit" /\ tx' = tx /\ claim' = claim /\ msg' = msg /\ again' = again
      /\ row' = row /\ entry' = entry /\ ref' = ref /\ txs' = txs /\ inbox' = inbox
      /\ wallets' = wallets /\ answer' = answer
      /\ \A q \in Sessions \ {s} : Stays(q)
  BY <1>1 DEF Persist, Goto, SessionsOK, db, local, Stays
<1>3. claim[s] = 0 => \A i \in DOMAIN txs : ~SameUniqueKey(tx[s], txs[i])
  BY <1>1, RowNumbers DEF Persist, DuplicateTransaction, Clash
<1>4. SessionInv(s)'
  <2>1. Origin(s)' /\ Claims(s)'
    BY <1>1, <1>2 DEF SessionInv, Origin, Claims, Before, Cmd
  <2>2. Resolving(s)' /\ ClearToCommit(s)'
    BY <1>2, <1>3 DEF Resolving, ClearToCommit
  <2>3. Decided(s)'
    BY <1>1, <1>2 DEF SessionInv, Decided, Before, Cmd, Result
  <2>4. NoTwin(s)'
    BY <1>1, <1>2 DEF SessionInv, NoTwin, Cmd
  <2>5. Settles(s)'
    BY <1>1, <1>2 DEF SessionInv, Settles
  <2>6. Unrecorded(s)'
    BY <1>1, <1>2 DEF SessionInv, Unrecorded, Recording, RecordsInbox
  <2> QED
    BY <2>1, <2>2, <2>3, <2>4, <2>5, <2>6 DEF SessionInv
<1>5. ASSUME NEW q \in Sessions \ {s} PROVE Apart(s, q)' /\ Apart(q, s)'
  <2>1. Apart(s, q) /\ Apart(q, s) /\ Stays(q) /\ SessionInv(q)
    BY <1>2 DEF HistoryInv, PairsInv, SessionsInv
  <2>2. ASSUME pc[q] = "commit", claim[s] = 0 PROVE ~SameUniqueKey(tx[s], tx[q])
    BY <2>2 DEF Persist, BlockedBy, InFlight, Clash
  <2>3. ASSUME pc[q] = "commit", claim[q] = 0 PROVE ~SameUniqueKey(tx[q], tx[s])
    <3>1. CASE claim[s] = 0
      BY <2>2, <2>3, <3>1 DEF SameUniqueKey
    <3>2. CASE claim[s] # 0
      BY <1>1, <2>1, <2>3, <3>2 DEF SessionInv, Claims, ClearToCommit, SameUniqueKey, Cmd
    <3> QED
      BY <3>1, <3>2
  <2> QED
    BY <1>1, <1>2, <2>1, <2>2, <2>3 DEF Apart, Stays, Recording, RecordsInbox
<1>6. AnswersInv'
  BY <1>2 DEF HistoryInv, AnswersInv
<1> QED
  BY <1>2, <1>4, <1>5, <1>6, MoveStep DEF Persist

\* The wallet lock leaves a lost race for the key or the external id as the
\* only reason why Insert or Update can meet a unique violation.
LEMMA DuplicateIsTwin ==
  ASSUME HistoryInv, NEW s \in Sessions, pc[s] \in {"persist", "commit"}, NEW i \in DOMAIN txs
  PROVE  ~SameReversal(tx[s], txs[i])
<1>1. Sound(txs, Before(s), Result(s)) /\ Before(s).cmd = Cmd(s) /\ tx[s].cmd = Cmd(s)
  BY DecidedSound
<1> QED
  BY <1>1 DEF Sound, Result, SameReversal, IsProcessedReversal, Reversed

LEMMA PersistFailsStep ==
  ASSUME HistoryInv, Inv', NEW s \in Sessions, PersistFails(s)
  PROVE  HistoryInv'
<1>1. CASE Abort(s, "CONCURRENT_UPDATE")
  BY <1>1, AbortStep DEF AnswerCodes, Conflicts
<1>2. CASE ~Abort(s, "CONCURRENT_UPDATE")
  <2>1. /\ TypeOK /\ SessionsOK /\ SessionInv(s) /\ pc[s] = "persist"
        /\ s \in Callers /\ DuplicateTransaction(s)
    BY <1>2 DEF HistoryInv, Inv, TypeOK, SessionsInv, PersistFails
  <2>2. /\ pc' = [pc EXCEPT ![s] = "key1"]
        /\ tx' = [tx EXCEPT ![s] = NewExternal(Cmd(s))]
        /\ row' = [row EXCEPT ![s] = Null]
        /\ entry' = [entry EXCEPT ![s] = Null]
        /\ ref' = [ref EXCEPT ![s] = 0]
        /\ again' = [again EXCEPT ![s] = TRUE]
        /\ UNCHANGED << db, claim, msg, answer, faults >>
    BY <1>2 DEF PersistFails, Goto
  <2>3. /\ pc'[s] = "key1" /\ tx'[s] = NewExternal(Cmd(s)) /\ again'[s] = TRUE
        /\ claim' = claim /\ msg' = msg /\ txs' = txs /\ inbox' = inbox /\ answer' = answer
        /\ \A q \in Sessions \ {s} : Stays(q)
    BY <2>1, <2>2 DEF SessionsOK, db, Stays
  <2>4. claim[s] = 0 /\ msg[s] = Null /\ tx'[s].cmd = Cmd(s)
    BY <2>1, <2>3, SessionsAssumption DEF SessionInv, Claims, Origin, NewExternal
  <2>5. \E i \in DOMAIN txs : SameUniqueKey(tx'[s], txs[i])
    BY <2>1, <2>4, DuplicateIsTwin DEF DuplicateTransaction, Clash, SameUniqueKey, Cmd
  <2>6. SessionInv(s)'
    <3>1. Origin(s)' /\ Claims(s)'
      BY <2>1, <2>3, <2>4 DEF SessionInv, Origin, Claims, Before, Cmd
    <3>2. Resolving(s)' /\ Decided(s)' /\ ClearToCommit(s)' /\ NoTwin(s)'
      BY <2>3 DEF Resolving, Decided, ClearToCommit, NoTwin
    <3>3. Settles(s)'
      BY <2>3, <2>5 DEF Settles
    <3>4. Unrecorded(s)'
      BY <2>3, <2>4 DEF Unrecorded, Recording
    <3> QED
      BY <3>1, <3>2, <3>3, <3>4 DEF SessionInv
  <2>7. \A q \in Sessions \ {s} : Apart(s, q)' /\ Apart(q, s)'
    BY <2>3, <2>4, ApartMoves DEF HistoryInv, PairsInv, Recording
  <2>8. AnswersInv'
    BY <2>3 DEF HistoryInv, AnswersInv
  <2> QED
    BY <2>2, <2>3, <2>6, <2>7, <2>8, MoveStep
<1> QED
  BY <1>1, <1>2

\* Every step keeps the invariant.
LEMMA HistoryStep ==
  ASSUME HistoryInv, [Next]_vars
  PROVE  HistoryInv'
<1>0. Inv'
  BY TypeStep, LockStep, ChainStep DEF HistoryInv, Inv, WalletLockHolds
<1>1. ASSUME NEW s \in Sessions, Commit(s) \/ CommitUnacknowledged(s) PROVE HistoryInv'
  BY <1>0, <1>1, CommitStep DEF Commit, CommitUnacknowledged
<1>2. ASSUME NEW s \in Sessions, Fault(s) PROVE HistoryInv'
  <2>1. Truthful(txs, [cmd |-> Cmd(s), code |-> "TEMPORARILY_UNAVAILABLE", row |-> Null])
    BY NoPromise DEF AnswerCodes, Conflicts
  <2> QED
    BY <1>0, <1>2, <2>1, RollbackStep DEF Fault
<1>3. ASSUME NEW s \in Sessions, Advance(s) PROVE HistoryInv'
  BY <1>0, <1>1, <1>3, RecordInboxStep, FindByIdempotencyKeyStep, FindByExternalIDStep,
     GetForUpdateStep, ApplyStep, FindReferenceStep, PersistStep, PersistFailsStep
     DEF Advance
<1>4. CASE UNCHANGED vars
  <2>1. /\ txs' = txs /\ wallets' = wallets /\ inbox' = inbox /\ answer' = answer
        /\ \A q \in Sessions : Stays(q)
    BY <1>4 DEF vars, db, local, Stays
  <2>2. SessionsInv'
    BY <2>1, QuietBeside, SessionStays DEF HistoryInv, SessionsInv
  <2>3. PairsInv'
    BY <2>1, ApartStays DEF HistoryInv, PairsInv
  <2>4. RowsInv' /\ AnswersInv' /\ InboxImpliesHandled'
    BY <2>1 DEF HistoryInv, RowsInv, ReversedOnce, AnswersInv, InboxImpliesHandled
  <2> QED
    BY <1>0, <2>2, <2>3, <2>4 DEF HistoryInv
<1> QED
  BY <1>0, <1>1, <1>2, <1>3, <1>4, OpenStep, SubmitStep, RefuseStep, DeliverStep, ClaimStep
     DEF Next

-----------------------------------------------------------------------------
(* The theorems *)

\* HistoryInv holds in every reachable state.
THEOREM HistoryInvariance == Spec => []HistoryInv
<1>1. Init => HistoryInv
  <2> SUFFICES ASSUME Init PROVE HistoryInv
    OBVIOUS
  <2>1. Inv
    BY InitInv
  <2>2. SessionsInv
    <3> SUFFICES ASSUME NEW s \in Sessions PROVE SessionInv(s)
      BY DEF SessionsInv
    <3>1. pc[s] = "idle" /\ claim[s] = 0 /\ msg[s] = Null /\ again[s] = FALSE
      BY DEF Init
    <3> QED
      BY <3>1 DEF SessionInv, Origin, Claims, Resolving, Decided, NoTwin, ClearToCommit,
                  Settles, Unrecorded, Recording
  <2>3. PairsInv
    BY DEF Init, PairsInv, Apart, Recording
  <2>4. DOMAIN txs = {}
    BY DEF Init
  <2>5. RowsInv /\ AnswersInv /\ InboxImpliesHandled
    BY <2>4 DEF Init, RowsInv, RowsOK, UniqueRows, ReversedOnce, AnswersInv,
       InboxImpliesHandled
  <2> QED
    BY <2>1, <2>2, <2>3, <2>5 DEF HistoryInv
<1> QED
  BY <1>1, HistoryStep, PTL DEF Spec

\* RetrySettles: the one retry of Process always ends in its lookups, so
\* CONCURRENT_UPDATE never reaches an HTTP caller, whoever it races with.
THEOREM OneRetrySuffices == Spec => []RetrySettles
<1>1. HistoryInv => RetrySettles
  BY DEF HistoryInv, SessionsInv, SessionInv, Settles, RetrySettles
<1> QED
  BY <1>1, HistoryInvariance, PTL

\* BackstopsIdle: under the wallet lock the version check and the index on
\* reversals never fire, and a unique violation is always lost to an operation
\* on another wallet.
THEOREM LockMakesBackstopsIdle == Spec => []BackstopsIdle
<1>1. ASSUME HistoryInv, NEW s \in Sessions, pc[s] = "persist"
      PROVE  /\ ~ConcurrentModification(s)
             /\ \A i \in DOMAIN txs : i # claim[s] /\ Clash(s, txs[i]) =>
                  /\ ~SameReversal(tx[s], txs[i])
                  /\ txs[i].cmd.wallet # Cmd(s).wallet
             /\ \A q \in Sessions : BlockedBy(s, q) => Cmd(q).wallet # Cmd(s).wallet
  <2>1. TypeOK /\ FreshCopy /\ Exclusive /\ SessionInv(s) /\ pc[s] \in Locked
    BY <1>1 DEF HistoryInv, Inv, WalletLockHolds, SessionsInv, Locked
  <2>2. Cmd(s).wallet \in Wallets
    BY <1>1, BeforeUndecided
  <2>3. ~ConcurrentModification(s)
    <3>1. wallets[Cmd(s).wallet].version \in Nat
      BY <2>1, <2>2 DEF FreshCopy, TypeOK, TablesOK, WalletRow
    <3> QED
      BY <2>1, <3>1 DEF FreshCopy, ConcurrentModification
  <2>4. ASSUME NEW i \in DOMAIN txs, Clash(s, txs[i])
        PROVE  ~SameReversal(tx[s], txs[i]) /\ txs[i].cmd.wallet # Cmd(s).wallet
    <3>1. ~SameReversal(tx[s], txs[i])
      BY <1>1, DuplicateIsTwin
    <3> QED
      BY <1>1, <2>1, <2>4, <3>1
         DEF Clash, SessionInv, NoTwin, SameUniqueKey, SameKeyOf, SameExtOf, Cmd
  <2>5. ASSUME NEW q \in Sessions, BlockedBy(s, q) PROVE Cmd(q).wallet # Cmd(s).wallet
    BY <2>1, <2>2, <2>5 DEF BlockedBy, InFlight, Exclusive, Holds, Locked, Cmd
  <2> QED
    BY <2>3, <2>4, <2>5
<1>2. HistoryInv => BackstopsIdle
  BY <1>1 DEF BackstopsIdle
<1> QED
  BY <1>2, HistoryInvariance, PTL

\* ReversedOnce: no transaction is undone twice.
THEOREM NothingUndoneTwice == Spec => []ReversedOnce
<1>1. HistoryInv => ReversedOnce
  BY DEF HistoryInv, RowsInv
<1> QED
  BY <1>1, HistoryInvariance, PTL

\* InboxImpliesHandled: an inbox row is only ever committed together with the
\* operation of its message, and there is one per message id.
THEOREM InboxIsHonest == Spec => []InboxImpliesHandled
<1>1. HistoryInv => InboxImpliesHandled
  BY DEF HistoryInv
<1> QED
  BY <1>1, HistoryInvariance, PTL

\* AnswersHold: what an HTTP caller was told stays true, field by field, with the
\* balance it was told; the one exception is the currency of a balance on a
\* wallet that was not the operation's (Stored drops it).
THEOREM AnswersAreKept == Spec => []AnswersHold
<1>1. ASSUME HistoryInv, NEW s \in Callers, answer[s] # Null,
             answer[s].code \in Conflicts, NEW j \in DOMAIN txs
      PROVE  txs[j].cmd # answer[s].cmd
  <2> DEFINE c == answer[s].cmd
  <2>1. PICK i \in DOMAIN txs : txs[i].cmd # c /\ (SameKeyOf(txs[i], c) \/ SameExtOf(txs[i], c))
    BY <1>1 DEF HistoryInv, AnswersInv, Truthful
  <2>2. c.provider # Null
    BY <1>1 DEF HistoryInv, AnswersInv, Truthful
  <2> HIDE DEF c
  <2>3. SUFFICES ASSUME txs[j].cmd = c PROVE FALSE
    BY DEF c
  <2>4. j # i /\ SameUniqueKey(txs[j], txs[i])
    BY <2>1, <2>3 DEF SameUniqueKey, SameKeyOf, SameExtOf
  <2> QED
    BY <1>1, <2>2, <2>3, <2>4 DEF HistoryInv, RowsInv, UniqueRows
<1>2. ASSUME HistoryInv, NEW s \in Callers, answer[s] # Null, answer[s].code = "OK"
      PROVE  \E i \in {j \in DOMAIN txs : txs[j].cmd = answer[s].cmd} :
               IF answer[s].row.status \in Terminal
               THEN ReplaysAs(answer[s].row, txs[i])
               ELSE answer[s].row.attempts <= txs[i].attempts
  BY <1>2 DEF HistoryInv, AnswersInv, Truthful
<1>3. HistoryInv => AnswersHold
  BY <1>1, <1>2 DEF AnswersHold
<1> QED
  BY <1>3, HistoryInvariance, PTL

\* NoWaitCycle: whoever waits, waits for somebody who has got further (inbox,
\* then wallet lock, then index entries), so sessions cannot deadlock.
THEOREM NoDeadlock == Spec => []NoWaitCycle
<1>1. ASSUME NEW s, NEW q, WaitsFor(s, q)
      PROVE  \/ pc[s] = "inbox" /\ pc[q] # "inbox"
             \/ pc[s] = "lock" /\ pc[q] \in Locked
             \/ pc[s] = "persist" /\ pc[q] = "commit"
  BY <1>1 DEF WaitsFor, RecordsInbox, Holds, BlockedBy, InFlight
<1>2. ASSUME NEW S \in (SUBSET Sessions) \ {{}}
      PROVE  \E s \in S : \A q \in S : ~WaitsFor(s, q)
  <2>1. CASE \E s \in S : pc[s] \notin {"inbox", "lock", "persist"}
    BY <1>1, <2>1
  <2>2. CASE /\ \A s \in S : pc[s] \in {"inbox", "lock", "persist"}
             /\ \E s \in S : pc[s] = "persist"
    BY <1>1, <2>2
  <2>3. CASE /\ \A s \in S : pc[s] \in {"inbox", "lock"}
             /\ \E s \in S : pc[s] = "lock"
    BY <1>1, <2>3 DEF Locked
  <2>4. CASE \A s \in S : pc[s] = "inbox"
    BY <1>1, <2>4
  <2> QED
    BY <2>1, <2>2, <2>3, <2>4
<1>3. NoWaitCycle
  BY <1>2 DEF NoWaitCycle
<1> QED
  BY <1>3, PTL

-----------------------------------------------------------------------------
(* What a step may never do *)

\* The tables change in a commit, with a new wallet, or when a lookup finds the
\* operation of a message.
LEMMA TablesStep ==
  ASSUME HistoryInv, [Next]_vars
  PROVE  \/ UNCHANGED db
         \/ \E s \in Sessions : pc[s] = "commit" /\ CommitRows(s)
         \/ \E s \in Sessions : /\ pc[s] \notin {"idle", "inbox"}
                               /\ \E i \in DOMAIN txs : txs[i].cmd = Cmd(s) /\ Replay(s, i)
         \/ \E o \in Openings : OpenWallet(o)
<1>1. ASSUME NEW s \in Sessions, Advance(s)
      PROVE  \/ UNCHANGED db
             \/ pc[s] = "commit" /\ CommitRows(s)
             \/ FindByIdempotencyKey(s) \/ FindByExternalID(s)
  BY <1>1 DEF Advance, RecordInbox, GetForUpdate, Apply, FindReference, CheckReversal,
              Persist, PersistFails, Commit, Conclude, Abort
<1>2. ASSUME NEW s, NEW c, Submit(s, c) \/ RefuseInvalid(s, c)
      PROVE  UNCHANGED db
  BY <1>2 DEF Submit, RefuseInvalid
<1>3. ASSUME NEW s, NEW m, Deliver(s, m) \/ ClaimDuePendingReference(s, m)
      PROVE  UNCHANGED db
  BY <1>3 DEF Deliver, ClaimDuePendingReference
<1>4. ASSUME NEW s \in Sessions, CommitUnacknowledged(s) \/ Fault(s)
      PROVE  UNCHANGED db \/ (pc[s] = "commit" /\ CommitRows(s))
  BY <1>4 DEF CommitUnacknowledged, Fault
<1>5. CASE UNCHANGED vars
  BY <1>5 DEF vars
<1> QED
  BY <1>1, <1>2, <1>3, <1>4, <1>5, LookupStep DEF Next

\* A lookup leaves the operations as they are.
LEMMA OperationsStep ==
  ASSUME HistoryInv, [Next]_vars
  PROVE  \/ UNCHANGED << wallets, txs, ledger, outbox >>
         \/ \E s \in Sessions : pc[s] = "commit" /\ CommitRows(s)
         \/ \E o \in Openings : OpenWallet(o)
  BY TablesStep DEF Replay, db

\* Append keeps what was there.
LEMMA AppendKeeps ==
  ASSUME NEW S, NEW l \in Seq(S), NEW e
  PROVE  \A k \in DOMAIN l : k \in DOMAIN Append(l, e) /\ Append(l, e)[k] = l[k]
  OBVIOUS

\* HistoryFrozen: no step changes a final row, a command or a ledger entry, and
\* a parked row changes only by being decided or by one more of its attempts.
THEOREM HistoryIsFrozen == Spec => HistoryFrozen
<1> DEFINE RowsFrozen == \A i \in DOMAIN txs :
             i \in DOMAIN txs' /\ (txs'[i] # txs[i] => GoesOn(txs[i], txs'[i]))
           LedgerFrozen == \A w \in Wallets : \A k \in DOMAIN ledger[w] :
             k \in DOMAIN ledger'[w] /\ ledger'[w][k] = ledger[w][k]
<1>1. ASSUME HistoryInv, [Next]_vars PROVE RowsFrozen
  <2>1. TypeOK /\ \A i \in DOMAIN txs : txs[i].attempts \in Nat
    BY <1>1, RowNumbers DEF HistoryInv, Inv, Transaction
  <2>2. ASSUME NEW i, NEW t, Adds(txs, txs', i, t) PROVE RowsFrozen
    BY <2>1, <2>2 DEF Adds
  <2>3. CASE txs' = txs
    BY <2>1, <2>3
  <2> HIDE DEF RowsFrozen
  <2> QED
    BY <1>1, <2>1, <2>2, <2>3, OperationsStep, CommitAdds, OpenAdds
<1>2. ASSUME HistoryInv, [Next]_vars PROVE LedgerFrozen
  <2>1. ledger \in [Wallets -> Seq(LedgerRow)]
    BY <1>1, <1>2 DEF HistoryInv, Inv, TypeOK, TablesOK
  <2>2. ASSUME NEW v, NEW e, ledger' = [ledger EXCEPT ![v] = Append(@, e)] PROVE LedgerFrozen
    <3> SUFFICES ASSUME NEW w \in Wallets, NEW k \in DOMAIN ledger[w]
                 PROVE  k \in DOMAIN ledger'[w] /\ ledger'[w][k] = ledger[w][k]
      OBVIOUS
    <3>1. ledger'[w] = IF w = v THEN Append(ledger[w], e) ELSE ledger[w]
      BY <2>1, <2>2
    <3> QED
      BY <2>1, <3>1, AppendKeeps
  <2>3. CASE ledger' = ledger
    BY <2>3
  <2> HIDE DEF LedgerFrozen
  <2>4. ASSUME NEW s \in Sessions, CommitRows(s) PROVE LedgerFrozen
    BY <2>2, <2>3, <2>4 DEF CommitRows
  <2>5. ASSUME NEW o \in Openings, OpenWallet(o) PROVE LedgerFrozen
    BY <2>2, <2>3, <2>5 DEF OpenWallet
  <2> QED
    BY <1>2, <2>3, <2>4, <2>5, OperationsStep
<1>3. HistoryInv /\ [Next]_vars => RowsFrozen /\ LedgerFrozen
  BY <1>1, <1>2
<1> QED
  BY <1>3, HistoryInvariance, PTL DEF Spec, HistoryFrozen

\* NotFoundIsTrue: REFERENCE_NOT_FOUND is stored only after MaxAttempts
\* attempts and while no processed transaction of the wallet bears the
\* external id.
THEOREM NotFoundIsHonest == Spec => NotFoundIsTrue
<1> DEFINE Honest == \A i \in DOMAIN txs' :
             txs'[i].code = "REFERENCE_NOT_FOUND"
             /\ (i \in DOMAIN txs => txs[i].status \notin Terminal)
             => /\ txs'[i].attempts = MaxAttempts
                /\ \A j \in DOMAIN txs :
                     /\ txs[j].cmd.provider = txs'[i].cmd.provider
                     /\ txs[j].cmd.ext = txs'[i].cmd.ref
                     /\ txs[j].cmd.wallet = txs'[i].cmd.wallet
                     => txs[j].status # "PROCESSED"
<1>1. ASSUME HistoryInv, [Next]_vars PROVE Honest
  <2>1. /\ TypeOK /\ Null # "REFERENCE_NOT_FOUND"
        /\ \A i \in DOMAIN txs : txs[i].status \notin Terminal => txs[i].code = Null
    BY <1>1, NullAssumption DEF HistoryInv, Inv, RowsInv, RowsOK, RowOK, FailureCodes,
       Terminal
  <2>2. ASSUME NEW i, NEW t, Adds(txs, txs', i, t),
               t.code = "REFERENCE_NOT_FOUND" => t.attempts = MaxAttempts /\ Missing(txs, t)
        PROVE  Honest
    BY <2>1, <2>2 DEF Adds, Missing, Referred, Terminal
  <2>3. CASE txs' = txs
    BY <2>1, <2>3
  <2> HIDE DEF Honest
  <2>4. ASSUME NEW s \in Sessions, pc[s] = "commit", CommitRows(s) PROVE Honest
    <3> DEFINE t == Stored(tx[s])
    <3>1. Adds(txs, txs', IdOf(s), t)
      BY <1>1, <2>4, CommitAdds
    <3>2. /\ Sound(txs, Before(s), Result(s)) /\ Result(s).tx = tx[s]
          /\ tx[s].cmd = Before(s).cmd /\ tx[s] \in Transaction
      BY <1>1, <2>4, DecidedSound DEF Result
    <3>3. t.cmd = tx[s].cmd /\ t.code = tx[s].code /\ t.attempts = tx[s].attempts
      BY <3>2, StoredKeeps
    <3>4. t.code = "REFERENCE_NOT_FOUND" => t.attempts = MaxAttempts /\ Missing(txs, t)
      BY <3>2, <3>3 DEF Sound, Missing, Referred
    <3> QED
      BY <2>2, <3>1, <3>4
  <2>5. ASSUME NEW o \in Openings, OpenWallet(o) PROVE Honest
    BY <2>1, <2>2, <2>3, <2>5, OpenAdds, OpenedRow
  <2> QED
    BY <1>1, <2>3, <2>4, <2>5, OperationsStep
<1>2. HistoryInv /\ [Next]_vars => Honest
  BY <1>1
<1> QED
  BY <1>2, HistoryInvariance, PTL DEF Spec, NotFoundIsTrue

=============================================================================
