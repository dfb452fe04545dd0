---------------------------- MODULE WagerProofs -----------------------------
(***************************************************************************)
(* Theorems about WagerService for every set of wallets, commands,         *)
(* messages and sessions, every width of the integers and any number of    *)
(* attempts and failures.                                                  *)
(***************************************************************************)
EXTENDS WagerProperties, SequenceTheorems, TLAPS

USE DEF Optional

-----------------------------------------------------------------------------
(* Money *)

\* The overflow test of Money.Add, which never leaves int64 itself, is exact:
\* it is true iff the sum does not fit.
THEOREM AddOverflowExact ==
  ASSUME NEW m \in Minor, NEW o \in Minor
  PROVE  AddOverflows(m, o) <=> m + o \notin Minor
  BY MaxMinorAssumption DEF AddOverflows, Minor, MinMinor

\* The overflow test of Money.Sub is exact: it is true iff the difference
\* does not fit.
THEOREM SubOverflowExact ==
  ASSUME NEW m \in Minor, NEW o \in Minor
  PROVE  SubOverflows(m, o) <=> m - o \notin Minor
  BY MaxMinorAssumption DEF SubOverflows, Minor, MinMinor

-----------------------------------------------------------------------------
(* Outcomes of apply *)

\* What every outcome of the domain rules for t on wallet row w is: a
\* transaction for the same command, and a wallet that is either untouched or
\* one movement and one version away from w.
OutcomeOK(o, t, w) ==
  /\ o.tx \in Transaction
  /\ o.tx.cmd = t.cmd
  /\ o.row \in WalletRow
  /\ o.entry \in Optional(Entry)
  /\ o.entry = Null => o.row = w
  /\ o.entry # Null => /\ Follows(o.entry, w.balance)
                       /\ o.row.balance = o.entry.after
                       /\ o.row.version = w.version + 1

\* A rejection (MarkRejected) leaves the wallet alone.
LEMMA RejectedOK ==
  ASSUME NEW t \in Transaction, NEW w \in WalletRow, NEW code \in FailureCodes
  PROVE  OutcomeOK(Rejected(t, w, code), t, w)
  BY DEF OutcomeOK, Rejected, Outcome, MarkRejected, Transaction, WalletRow, Balance,
         Statuses, Terminal

\* An error of apply leaves transaction and wallet alone.
LEMMA FailedOK ==
  ASSUME NEW t \in Transaction, NEW w \in WalletRow
  PROVE  OutcomeOK(Failed(t, w), t, w)
  BY DEF OutcomeOK, Failed, Outcome

\* A movement (Wallet.apply and NewLedgerEntry) is recorded as it happened.
LEMMA MovedOK ==
  ASSUME NEW t \in Transaction, NEW w \in WalletRow, NEW dir \in {"DEBIT", "CREDIT"},
         NEW after \in 0 .. MaxMinor,
         after = IF dir = "CREDIT" THEN w.balance + t.cmd.amount
                                   ELSE w.balance - t.cmd.amount
  PROVE  OutcomeOK(Moved(t, w, dir, after), t, w)
<1> DEFINE e == [dir |-> dir, amount |-> t.cmd.amount, before |-> w.balance, after |-> after]
           o == Moved(t, w, dir, after)
<1>1. e \in Entry
  BY MaxMinorAssumption DEF Entry, Transaction, Command, WalletRow
<1>2. o.entry = e /\ e # Null
  BY <1>1, NullRowsAssumption DEF Moved, Outcome
<1>3. o.tx \in Transaction /\ o.tx.cmd = t.cmd
  BY DEF Moved, Outcome, MarkProcessed, Transaction, WalletRow, Balance, Statuses, Terminal
<1>4. o.row \in WalletRow /\ o.row.balance = after /\ o.row.version = w.version + 1
  <2>1. w.version + 1 \in Nat
    BY DEF WalletRow
  <2>2. o.row = [w EXCEPT !.balance = after, !.version = w.version + 1]
    BY DEF Moved, Outcome
  <2> HIDE DEF o
  <2> QED
    BY <2>1, <2>2 DEF WalletRow
<1>5. Follows(e, w.balance)
  BY DEF Follows
<1> QED
  BY <1>1, <1>2, <1>3, <1>4, <1>5 DEF OutcomeOK

\* Wallet.Credit either moves the balance inside int64 or is an error.
LEMMA CreditOK ==
  ASSUME NEW t \in Transaction, NEW w \in WalletRow
  PROVE  OutcomeOK(Credit(t, w), t, w)
<1> DEFINE after == w.balance + t.cmd.amount
<1>1. t.cmd.amount \in Nat /\ w.balance \in 0 .. MaxMinor
  BY DEF Transaction, Command, WalletRow
<1>2. CASE AddOverflows(w.balance, t.cmd.amount)
  BY <1>2, FailedOK DEF Credit
<1>3. CASE ~AddOverflows(w.balance, t.cmd.amount)
  <2>1. after \in 0 .. MaxMinor
    BY <1>1, <1>3, MaxMinorAssumption DEF AddOverflows
  <2>2. OutcomeOK(Moved(t, w, "CREDIT", after), t, w)
    BY <2>1, MovedOK
  <2> QED
    BY <1>3, <2>2 DEF Credit
<1> QED
  BY <1>2, <1>3

\* Wallet.Debit never makes a balance negative.
LEMMA DebitOK ==
  ASSUME NEW t \in Transaction, NEW w \in WalletRow, NEW code \in FailureCodes
  PROVE  OutcomeOK(Debit(t, w, code), t, w)
<1> DEFINE after == w.balance - t.cmd.amount
<1>1. t.cmd.amount \in Nat /\ w.balance \in 0 .. MaxMinor
  BY DEF Transaction, Command, WalletRow
<1>2. CASE after < 0
  BY <1>2, RejectedOK DEF Debit
<1>3. CASE ~(after < 0)
  <2>1. after \in 0 .. MaxMinor
    BY <1>1, <1>3, MaxMinorAssumption
  <2>2. OutcomeOK(Moved(t, w, "DEBIT", after), t, w)
    BY <2>1, MovedOK
  <2> QED
    BY <1>3, <2>2 DEF Debit
<1> QED
  BY <1>2, <1>3

\* Parking a transaction leaves the wallet alone.
LEMMA ParkOK ==
  ASSUME NEW t \in Transaction, NEW w \in WalletRow, NEW at \in RetryTimes
  PROVE  OutcomeOK(Park(t, w, at), t, w)
<1>1. OutcomeOK(Rejected(t, w, "REFERENCE_NOT_FOUND"), t, w)
  BY RejectedOK DEF FailureCodes
<1>2. OutcomeOK(Outcome(AwaitReference(t, at), w, Null), t, w)
  <2>1. t.attempts + 1 \in Nat
    BY DEF Transaction
  <2>2. AwaitReference(t, at) \in Transaction /\ AwaitReference(t, at).cmd = t.cmd
    BY <2>1 DEF AwaitReference, Transaction, Statuses
  <2> QED
    BY <2>2 DEF OutcomeOK, Outcome
<1> QED
  BY <1>1, <1>2 DEF Park

\* Every path of apply that reads no reference.
LEMMA ApplyAloneOK ==
  ASSUME NEW t \in Transaction, NEW w \in WalletRow
  PROVE  OutcomeOK(ApplyAlone(t, w), t, w)
<1>1. \A code \in FailureCodes : OutcomeOK(Rejected(t, w, code), t, w)
  BY RejectedOK
<1>2. OutcomeOK(Debit(t, w, "INSUFFICIENT_FUNDS"), t, w)
  BY DebitOK DEF FailureCodes
<1>3. OutcomeOK(Outcome(MarkProcessed(t, w.balance, w.currency), w, Null), t, w)
  BY DEF OutcomeOK, Outcome, MarkProcessed, Transaction, WalletRow, Balance, Statuses,
     Terminal
<1>4. OutcomeOK(Credit(t, w), t, w) /\ OutcomeOK(Failed(t, w), t, w)
  BY CreditOK, FailedOK
<1> QED
  BY <1>1, <1>2, <1>3, <1>4 DEF ApplyAlone, FailureCodes, MatchesWallet

\* Every movement of a transaction whose reference was accepted.
LEMMA ApplyResolvedOK ==
  ASSUME NEW t \in Transaction, NEW w \in WalletRow, NEW id \in Nat, NEW kind
  PROVE  OutcomeOK(ApplyResolved(Resolved(t, id), w, kind), t, w)
<1> DEFINE u == Resolved(t, id)
<1>1. u \in Transaction /\ u.cmd = t.cmd
  BY DEF Resolved, Transaction
<1>2. OutcomeOK(Credit(u, w), u, w) /\ OutcomeOK(Debit(u, w, "REVERSAL_INSUFFICIENT_FUNDS"), u, w)
  BY <1>1, CreditOK, DebitOK DEF FailureCodes
<1>3. OutcomeOK(ApplyResolved(u, w, kind), u, w)
  BY <1>2 DEF ApplyResolved
<1> QED
  BY <1>1, <1>3 DEF OutcomeOK

-----------------------------------------------------------------------------
(* Types *)

\* What a session has in memory when it starts.
LEMMA NewExternalType ==
  ASSUME NEW c \in Command
  PROVE  NewExternal(c) \in Transaction
  BY DEF NewExternal, Transaction, Statuses

\* What a row read back from wager_transactions is.
LEMMA StoredType ==
  ASSUME NEW t \in Transaction
  PROVE  Stored(t) \in Transaction /\ Stored(t).cmd = t.cmd
<1>1. CASE t.balance = Null
  BY <1>1 DEF Stored
<1>2. CASE t.balance # Null
  <2>1. t.balance \in Balance /\ t.cmd \in Command
    BY <1>2 DEF Transaction
  <2>2. [t.balance EXCEPT !.currency = t.cmd.currency] \in Balance
    BY <2>1 DEF Balance, Command
  <2>3. Stored(t) = [t EXCEPT !.balance = [t.balance EXCEPT !.currency = t.cmd.currency]]
    BY <1>2 DEF Stored
  <2> QED
    BY <2>2, <2>3 DEF Transaction
<1> QED
  BY <1>1, <1>2

\* The events persistOutcome adds.
LEMMA EventsType ==
  ASSUME NEW t \in Transaction, NEW id \in Nat, NEW e, NEW version \in Nat
  PROVE  EventsOf(t, id, e, version) \in Seq(Event)
<1>1. /\ BalanceChanged(id, version) \in Event /\ ProcessedEvent(id) \in Event
      /\ RejectedEvent(id) \in Event /\ PendingReferenceEvent(id) \in Event
  BY DEF Event, BalanceChanged, ProcessedEvent, RejectedEvent, PendingReferenceEvent
<1> QED
  BY <1>1 DEF EventsOf

\* Every end of a session leaves well-typed, idle locals.
LEMMA ResetType ==
  ASSUME SessionsOK, SessionShape, NEW s \in Sessions, pc[s] # "idle",
         NEW code \in AnswerCodes, NEW r \in Optional(Transaction),
         Reset(s), Answer(s, code, r)
  PROVE  SessionsOK' /\ SessionShape'
<1>1. Cmd(s) \in Command
  BY DEF Cmd, SessionShape, Transaction
<1>2. answer' \in [Callers -> Optional([cmd : Command, code : AnswerCodes,
                                        row : Optional(Transaction)])]
  BY <1>1 DEF Answer, SessionsOK
<1>3. SessionsOK'
  BY <1>2 DEF SessionsOK, Reset, Unlocked
<1>4. SessionShape'
  BY DEF SessionsOK, SessionShape, Reset, Unlocked, Locked
<1> QED
  BY <1>3, <1>4

\* A rollback (Abort).
LEMMA AbortType ==
  ASSUME TypeOK, SessionShape, NEW s \in Sessions, pc[s] # "idle",
         NEW code \in AnswerCodes, Abort(s, code)
  PROVE  TypeOK' /\ SessionShape'
<1>1. SessionsOK' /\ SessionShape'
  BY ResetType DEF TypeOK, Abort
<1> QED
  BY <1>1 DEF TypeOK, TablesOK, Abort, db

\* A replay (Replay).
LEMMA ReplayType ==
  ASSUME TypeOK, SessionShape, NEW s \in Sessions, pc[s] # "idle",
         NEW i \in DOMAIN txs, Replay(s, i)
  PROVE  TypeOK' /\ SessionShape'
<1>1. txs[i] \in Transaction
  BY DEF TypeOK, TablesOK
<1>2. SessionsOK' /\ SessionShape'
  BY <1>1, ResetType DEF TypeOK, Replay, AnswerCodes
<1>3. inbox' \in SUBSET Messages
  BY DEF TypeOK, TablesOK, SessionsOK, Replay, CommitInbox
<1> QED
  BY <1>2, <1>3 DEF TypeOK, TablesOK, Replay

\* An outcome of apply that goes on to be persisted (Conclude).
LEMMA ConcludeType ==
  ASSUME TypeOK, SessionShape, NEW s \in Sessions, pc[s] \in Locked,
         NEW o, OutcomeOK(o, tx[s], row[s]), Conclude(s, o)
  PROVE  TypeOK' /\ SessionShape'
<1>1. CASE o.error
  <2>1. Abort(s, "VALIDATION_ERROR") /\ pc[s] # "idle"
    BY <1>1 DEF Conclude, Locked
  <2> QED
    BY <2>1, AbortType DEF AnswerCodes
<1>2. CASE ~o.error
  <2>1. /\ pc' = [pc EXCEPT ![s] = "persist"]
        /\ tx' = [tx EXCEPT ![s] = o.tx]
        /\ row' = [row EXCEPT ![s] = o.row]
        /\ entry' = [entry EXCEPT ![s] = o.entry]
        /\ UNCHANGED << wallets, txs, ledger, outbox, inbox, ref, claim, msg, again, answer, faults >>
    BY <1>2 DEF Conclude, Goto, db
  <2>2. o.tx \in Transaction /\ o.row \in WalletRow /\ o.entry \in Optional(Entry)
    BY DEF OutcomeOK
  <2>3. TablesOK' /\ faults' \in 0 .. MaxFaults
    BY <2>1 DEF TypeOK, TablesOK
  <2>4. SessionsOK'
    BY <2>1, <2>2 DEF TypeOK, SessionsOK, Locked
  <2>5. SessionShape'
    BY <2>1, <2>2 DEF TypeOK, SessionsOK, SessionShape, Locked
  <2> QED
    BY <2>3, <2>4, <2>5 DEF TypeOK
<1> QED
  BY <1>1, <1>2

\* The tables after a commit (CommitRows).
LEMMA CommitType ==
  ASSUME TypeOK, SessionShape, NEW s \in Sessions, pc[s] = "commit", CommitRows(s)
  PROVE  TablesOK'
<1> DEFINE w == Cmd(s).wallet
           id == IdOf(s)
           e == entry[s]
<1>1. tx[s] \in Transaction /\ row[s] \in WalletRow /\ w \in Wallets
  BY DEF SessionShape, Locked, Cmd, Transaction, Command
<1>2. Stored(tx[s]) \in Transaction /\ id \in Nat /\ row[s].version \in Nat
  BY <1>1, StoredType DEF IdOf, TypeOK, TablesOK, SessionsOK, WalletRow
<1>3. txs' \in Seq(Transaction)
  <2>1. txs' = IF claim[s] # 0 THEN [txs EXCEPT ![id] = Stored(tx[s])]
                               ELSE Append(txs, Stored(tx[s]))
    BY DEF CommitRows
  <2>2. [txs EXCEPT ![id] = Stored(tx[s])] \in Seq(Transaction)
    <3>1. txs \in [1 .. Len(txs) -> Transaction] /\ Len(txs) \in Nat
      BY LenProperties DEF TypeOK, TablesOK
    <3>2. [txs EXCEPT ![id] = Stored(tx[s])] \in [1 .. Len(txs) -> Transaction]
      BY <1>2, <3>1
    <3> QED
      BY <3>1, <3>2, SeqDef
  <2>3. Append(txs, Stored(tx[s])) \in Seq(Transaction)
    BY <1>2 DEF TypeOK, TablesOK
  <2> QED
    BY <2>1, <2>2, <2>3
<1>4. wallets' \in [Wallets -> Optional(WalletRow)]
  BY <1>1 DEF CommitRows, TypeOK, TablesOK
<1>5. ledger' \in [Wallets -> Seq(LedgerRow)]
  <2> DEFINE r == [tx |-> id, dir |-> e.dir, amount |-> e.amount,
                   before |-> e.before, after |-> e.after]
  <2>1. CASE e = Null
    BY <2>1 DEF CommitRows, TypeOK, TablesOK
  <2>2. CASE e # Null
    <3>1. e \in Entry
      BY <2>2 DEF TypeOK, SessionsOK
    <3>2. r \in LedgerRow
      BY <1>2, <3>1 DEF LedgerRow, Entry
    <3>3. Append(ledger[w], r) \in Seq(LedgerRow)
      BY <1>1, <3>2 DEF TypeOK, TablesOK
    <3>4. ledger' = [ledger EXCEPT ![w] = Append(ledger[w], r)]
      BY <2>2 DEF CommitRows
    <3> QED
      BY <1>1, <3>3, <3>4 DEF TypeOK, TablesOK
  <2> QED
    BY <2>1, <2>2
<1>6. outbox' \in Seq(Event)
  <2>1. EventsOf(tx[s], id, e, row[s].version) \in Seq(Event)
    BY <1>1, <1>2, EventsType
  <2>2. outbox' = outbox \o EventsOf(tx[s], id, e, row[s].version)
    BY DEF CommitRows
  <2> QED
    BY <2>1, <2>2, ConcatProperties DEF TypeOK, TablesOK
<1>7. inbox' \in SUBSET Messages
  BY DEF TypeOK, TablesOK, SessionsOK, CommitRows, CommitInbox
<1> QED
  BY <1>3, <1>4, <1>5, <1>6, <1>7 DEF TablesOK

\* CheckReversal comes next for a session that found a reversible reference.
FoundReversible(s) ==
  /\ pc[s] = "apply"
  /\ Goto(s, "reversal")
  /\ \E i \in Nat : ref' = [ref EXCEPT ![s] = i]
  /\ UNCHANGED << db, tx, row, entry, claim, msg, again, answer, faults >>

\* Every step of apply concludes with a sound outcome, or goes on to look for
\* an earlier reversal.
LEMMA ApplySteps ==
  ASSUME TypeOK, SessionShape, NEW s \in Sessions,
         Apply(s) \/ FindReference(s) \/ CheckReversal(s)
  PROVE  /\ pc[s] \in {"apply", "reversal"}
         /\ \/ \E o : OutcomeOK(o, tx[s], row[s]) /\ Conclude(s, o)
            \/ FoundReversible(s)
<1>0. pc[s] \in {"apply", "reversal"}
  BY DEF Apply, FindReference, CheckReversal
<1>1. tx[s] \in Transaction /\ row[s] \in WalletRow
  BY <1>0 DEF SessionShape, Locked
<1>2. CASE Apply(s)
  BY <1>0, <1>1, <1>2, ApplyAloneOK DEF Apply
<1>3. CASE FindReference(s)
  <2> DEFINE t     == tx[s]
             found == ByExternalId(t.cmd.provider, t.cmd.ref)
             waits == \A i \in found : txs[i].status \in {"PENDING", "PENDING_REFERENCE"}
  <2>0. \A i \in found : i \in Nat
    BY LenProperties DEF ByExternalId, TypeOK, TablesOK
  <2>1. CASE \E at \in RetryTimes : Conclude(s, Park(t, row[s], at))
    BY <1>0, <1>1, <2>1, ParkOK
  <2>2. CASE \E i \in found :
               /\ ReferenceFailure(t, txs[i]) # Null
               /\ Conclude(s, Rejected(t, row[s], ReferenceFailure(t, txs[i])))
    <3>1. PICK i \in found :
               /\ ReferenceFailure(t, txs[i]) # Null
               /\ Conclude(s, Rejected(t, row[s], ReferenceFailure(t, txs[i])))
      BY <2>2
    <3>2. ReferenceFailure(t, txs[i]) \in FailureCodes
      BY <3>1 DEF ReferenceFailure, FailureCodes
    <3>3. OutcomeOK(Rejected(t, row[s], ReferenceFailure(t, txs[i])), t, row[s])
      BY <1>1, <3>2, RejectedOK
    <3> QED
      BY <1>0, <3>1, <3>3
  <2>3. CASE \E i \in found :
               Conclude(s, ApplyResolved(Resolved(t, i), row[s], txs[i].cmd.kind))
    BY <1>0, <1>1, <2>0, <2>3, ApplyResolvedOK
  <2>4. CASE \E i \in found :
               /\ pc[s] = "apply"
               /\ Goto(s, "reversal")
               /\ ref' = [ref EXCEPT ![s] = i]
               /\ UNCHANGED << db, tx, row, entry, claim, msg, again, answer, faults >>
    BY <1>0, <2>0, <2>4 DEF FoundReversible
  <2> HIDE DEF found
  <2> QED
    BY <1>3, <2>1, <2>2, <2>3, <2>4 DEF FindReference, found
<1>4. CASE CheckReversal(s)
  <2>1. ref[s] \in Nat
    BY DEF TypeOK, SessionsOK
  <2>2. OutcomeOK(Rejected(tx[s], row[s], "REFERENCE_ALREADY_REVERSED"), tx[s], row[s])
    BY <1>1, RejectedOK DEF FailureCodes
  <2>3. OutcomeOK(ApplyResolved(Resolved(tx[s], ref[s]), row[s], txs[ref[s]].cmd.kind),
                  tx[s], row[s])
    BY <1>1, <2>1, ApplyResolvedOK
  <2> QED
    BY <1>0, <1>4, <2>2, <2>3 DEF CheckReversal
<1> QED
  BY <1>2, <1>3, <1>4

\* Every step keeps the types and what sessions have in memory.
LEMMA TypeStep ==
  ASSUME TypeOK, SessionShape, [Next]_vars
  PROVE  TypeOK' /\ SessionShape'
<1> USE DEF TypeOK
<1>1. ASSUME NEW o \in Openings, OpenWallet(o)
      PROVE  TypeOK' /\ SessionShape'
  <2> DEFINE id == Len(txs) + 1
             t  == NewOpening(o.wallet, o.player, o.currency, o.amount)
             u  == MarkProcessed(t, o.amount, o.currency)
             r  == [tx |-> id, dir |-> "CREDIT", amount |-> o.amount,
                    before |-> 0, after |-> o.amount]
             n  == [player |-> o.player, currency |-> o.currency,
                    balance |-> o.amount, version |-> 1]
  <2>1. /\ o.wallet \in Wallets /\ o.player \in Players
        /\ o.currency \in Currencies /\ o.amount \in 0 .. MaxMinor
    BY <1>1, CommandsAssumption
  <2>2. o.amount \in Nat /\ id \in Nat
    BY <2>1, MaxMinorAssumption, LenProperties DEF TablesOK
  <2>3. u \in Transaction
    <3>1. t.cmd \in Command
      BY <2>1, <2>2 DEF NewOpening, NewExternal, Command, Kinds
    <3>2. t \in Transaction
      BY <3>1, NewExternalType DEF NewOpening, NewExternal
    <3> HIDE DEF t
    <3> QED
      BY <2>1, <3>2 DEF MarkProcessed, Transaction, Balance, Statuses, Terminal
  <2>4. r \in LedgerRow /\ n \in WalletRow
    BY <2>1, <2>2 DEF LedgerRow, WalletRow
  <2>5. wallets' \in [Wallets -> Optional(WalletRow)]
    BY <1>1, <2>1, <2>4 DEF OpenWallet, TablesOK
  <2>6. txs' \in Seq(Transaction)
    <3>1. txs' = txs \/ txs' = Append(txs, u)
      BY <1>1 DEF OpenWallet
    <3>2. txs \in Seq(Transaction) /\ \A x \in Transaction : Append(txs, x) \in Seq(Transaction)
      BY AppendProperties DEF TablesOK
    <3> QED
      BY <2>3, <3>1, <3>2, Zenon
  <2>7. ledger' \in [Wallets -> Seq(LedgerRow)]
    <3>1. Append(ledger[o.wallet], r) \in Seq(LedgerRow)
      BY <2>1, <2>4 DEF TablesOK
    <3>2. \/ ledger' = ledger
          \/ ledger' = [ledger EXCEPT ![o.wallet] = Append(ledger[o.wallet], r)]
      BY <1>1 DEF OpenWallet
    <3> QED
      BY <2>1, <3>1, <3>2 DEF TablesOK
  <2>8. outbox' \in Seq(Event)
    <3>1. << ProcessedEvent(id), BalanceChanged(id, 1) >> \in Seq(Event)
      <4>1. ProcessedEvent(id) \in Event /\ BalanceChanged(id, 1) \in Event
        BY <2>2 DEF ProcessedEvent, BalanceChanged, Event
      <4> QED
        BY <4>1
    <3>2. outbox' = outbox \/ outbox' = outbox \o << ProcessedEvent(id), BalanceChanged(id, 1) >>
      BY <1>1 DEF OpenWallet
    <3>3. outbox \in Seq(Event)
      BY DEF TablesOK
    <3> QED
      BY <3>1, <3>2, <3>3, ConcatProperties
  <2>9. UNCHANGED << inbox, pc, tx, row, entry, ref, claim, msg, again, answer, faults >>
    BY <1>1 DEF OpenWallet, local
  <2> QED
    BY <2>5, <2>6, <2>7, <2>8, <2>9 DEF TablesOK, SessionsOK, SessionShape
<1>2. ASSUME NEW s \in Callers, NEW c \in Commands, Submit(s, c)
      PROVE  TypeOK' /\ SessionShape'
  <2>1. NewExternal(c) \in Transaction /\ s \in Sessions
    BY CommandsAssumption, NewExternalType DEF Sessions
  <2>2. SessionsOK' /\ SessionShape'
    BY <1>2, <2>1 DEF Submit, Goto, SessionsOK, SessionShape, Unlocked, Locked
  <2> QED
    BY <1>2, <2>2 DEF Submit, TablesOK, db
<1>3. ASSUME NEW s \in Callers, NEW c \in Commands, RefuseInvalid(s, c)
      PROVE  TypeOK' /\ SessionShape'
  <2>1. c \in Command /\ "VALIDATION_ERROR" \in AnswerCodes
    BY CommandsAssumption DEF AnswerCodes
  <2>2. SessionsOK' /\ SessionShape'
    BY <1>3, <2>1 DEF RefuseInvalid, SessionsOK, SessionShape, local
  <2> QED
    BY <1>3, <2>2 DEF RefuseInvalid, TablesOK, db
<1>4. ASSUME NEW s \in Consumers, NEW m \in Messages, Deliver(s, m)
      PROVE  TypeOK' /\ SessionShape'
  <2>1. NewExternal(m.cmd) \in Transaction /\ s \in Sessions
    BY CommandsAssumption, NewExternalType DEF Sessions
  <2>2. SessionsOK' /\ SessionShape'
    BY <1>4, <2>1 DEF Deliver, Goto, SessionsOK, SessionShape, Unlocked, Locked
  <2> QED
    BY <1>4, <2>2 DEF Deliver, TablesOK, db
<1>5. ASSUME NEW s \in Resolvers, NEW i \in DOMAIN txs, ClaimDuePendingReference(s, i)
      PROVE  TypeOK' /\ SessionShape'
  <2>1. txs[i] \in Transaction /\ i \in Nat /\ s \in Sessions
    BY LenProperties DEF TablesOK, Sessions
  <2>2. SessionsOK' /\ SessionShape'
    BY <1>5, <2>1
       DEF ClaimDuePendingReference, Goto, SessionsOK, SessionShape, Unlocked, Locked
  <2> QED
    BY <1>5, <2>2 DEF ClaimDuePendingReference, TablesOK, db
<1>6. ASSUME NEW s \in Sessions, RecordInbox(s)
      PROVE  TypeOK' /\ SessionShape'
  <2>1. CASE Abort(s, "DUPLICATE_DELIVERY")
    BY <1>6, <2>1, AbortType DEF RecordInbox, AnswerCodes
  <2>2. CASE Goto(s, "key1") /\ UNCHANGED << db, local, answer, faults >>
    BY <1>6, <2>2 DEF RecordInbox, Goto, db, local, TablesOK, SessionsOK, SessionShape,
                      Unlocked, Locked
  <2> QED
    BY <1>6, <2>1, <2>2 DEF RecordInbox
<1>7. ASSUME NEW s \in Sessions, FindByIdempotencyKey(s)
      PROVE  TypeOK' /\ SessionShape'
  <2>1. CASE Abort(s, "IDEMPOTENCY_KEY_CONFLICT")
    BY <1>7, <2>1, AbortType DEF FindByIdempotencyKey, AnswerCodes
  <2>2. CASE \E i \in DOMAIN txs : Replay(s, i)
    BY <1>7, <2>2, ReplayType DEF FindByIdempotencyKey
  <2>3. CASE /\ Goto(s, IF pc[s] = "key1" THEN "ext1" ELSE "ext2")
             /\ UNCHANGED << db, local, answer, faults >>
    BY <1>7, <2>3 DEF FindByIdempotencyKey, Goto, db, local, TablesOK, SessionsOK,
                      SessionShape, Unlocked, Locked
  <2> QED
    BY <1>7, <2>1, <2>2, <2>3 DEF FindByIdempotencyKey, ByKey
<1>8. ASSUME NEW s \in Sessions, FindByExternalID(s)
      PROVE  TypeOK' /\ SessionShape'
  <2>1. CASE \/ Abort(s, "IDEMPOTENCY_KEY_CONFLICT")
             \/ Abort(s, "EXTERNAL_TRANSACTION_ID_CONFLICT")
    BY <1>8, <2>1, AbortType DEF FindByExternalID, AnswerCodes
  <2>2. CASE \E i \in DOMAIN txs : Replay(s, i)
    BY <1>8, <2>2, ReplayType DEF FindByExternalID
  <2>3. CASE /\ Goto(s, IF pc[s] = "ext1" THEN "lock" ELSE "apply")
             /\ UNCHANGED << db, local, answer, faults >>
    BY <1>8, <2>3 DEF FindByExternalID, Goto, db, local, TablesOK, SessionsOK,
                      SessionShape, Unlocked, Locked
  <2> QED
    BY <1>8, <2>1, <2>2, <2>3 DEF FindByExternalID, ByExternalId
<1>9. ASSUME NEW s \in Sessions, GetForUpdate(s)
      PROVE  TypeOK' /\ SessionShape'
  <2> DEFINE w == Cmd(s).wallet
  <2>1. w \in Wallets
    BY <1>9 DEF GetForUpdate, SessionShape, Cmd, Transaction, Command
  <2>2. CASE Abort(s, "WALLET_NOT_FOUND")
    BY <1>9, <2>2, AbortType DEF GetForUpdate, AnswerCodes
  <2>3. CASE /\ wallets[w] # Null
             /\ Goto(s, IF claim[s] # 0 THEN "apply" ELSE "key2")
             /\ row' = [row EXCEPT ![s] = wallets[w]]
             /\ UNCHANGED << db, tx, entry, ref, claim, msg, again, answer, faults >>
    <3>1. wallets[w] \in WalletRow
      BY <2>1, <2>3 DEF TablesOK
    <3> HIDE DEF w
    <3> QED
      BY <1>9, <2>3, <3>1 DEF GetForUpdate, Goto, db, TablesOK, SessionsOK, SessionShape,
                              Unlocked, Locked
  <2> QED
    BY <1>9, <2>2, <2>3 DEF GetForUpdate
<1>10. ASSUME NEW s \in Sessions, Apply(s) \/ FindReference(s) \/ CheckReversal(s)
       PROVE  TypeOK' /\ SessionShape'
  <2>1. pc[s] \in {"apply", "reversal"} /\ pc[s] \in Locked
    BY <1>10, ApplySteps DEF Locked
  <2>2. CASE \E o : OutcomeOK(o, tx[s], row[s]) /\ Conclude(s, o)
    BY <2>1, <2>2, ConcludeType
  <2>3. CASE FoundReversible(s)
    BY <2>3 DEF FoundReversible, Goto, db, TablesOK, SessionsOK, SessionShape,
                Unlocked, Locked
  <2> QED
    BY <1>10, <2>2, <2>3, ApplySteps
<1>11. ASSUME NEW s \in Sessions, Persist(s)
       PROVE  TypeOK' /\ SessionShape'
  BY <1>11 DEF Persist, Goto, db, local, TablesOK, SessionsOK, SessionShape, Unlocked,
     Locked
<1>12. ASSUME NEW s \in Sessions, PersistFails(s)
       PROVE  TypeOK' /\ SessionShape'
  <2>1. CASE Abort(s, "CONCURRENT_UPDATE")
    BY <1>12, <2>1, AbortType DEF PersistFails, AnswerCodes
  <2>2. CASE /\ Goto(s, "key1")
             /\ tx' = [tx EXCEPT ![s] = NewExternal(Cmd(s))]
             /\ row' = [row EXCEPT ![s] = Null]
             /\ entry' = [entry EXCEPT ![s] = Null]
             /\ ref' = [ref EXCEPT ![s] = 0]
             /\ again' = [again EXCEPT ![s] = TRUE]
             /\ UNCHANGED << db, claim, msg, answer, faults >>
    <3>1. NewExternal(Cmd(s)) \in Transaction
      BY <1>12, NewExternalType DEF PersistFails, SessionShape, Cmd, Transaction
    <3> QED
      BY <2>2, <3>1 DEF Goto, db, TablesOK, SessionsOK, SessionShape, Unlocked, Locked
  <2> QED
    BY <1>12, <2>1, <2>2 DEF PersistFails
<1>13. ASSUME NEW s \in Sessions, Commit(s)
       PROVE  TypeOK' /\ SessionShape'
  <2>1. TablesOK'
    BY <1>13, CommitType DEF Commit
  <2>2. tx[s] \in Transaction
    BY <1>13 DEF Commit, SessionShape
  <2>3. SessionsOK' /\ SessionShape'
    BY <1>13, <2>2, ResetType DEF Commit, AnswerCodes
  <2> QED
    BY <1>13, <2>1, <2>3 DEF Commit
<1>14. ASSUME NEW s \in Sessions, CommitUnacknowledged(s)
       PROVE  TypeOK' /\ SessionShape'
  <2>1. TablesOK'
    BY <1>14, CommitType DEF CommitUnacknowledged
  <2>2. SessionsOK' /\ SessionShape'
    BY <1>14, ResetType DEF CommitUnacknowledged, AnswerCodes
  <2> QED
    BY <1>14, <2>1, <2>2, MaxFaultsAssumption DEF CommitUnacknowledged
<1>15. ASSUME NEW s \in Sessions, Fault(s)
       PROVE  TypeOK' /\ SessionShape'
  <2>1. SessionsOK' /\ SessionShape'
    BY <1>15, ResetType DEF Fault, AnswerCodes
  <2> QED
    BY <1>15, <2>1, MaxFaultsAssumption DEF Fault, TablesOK, db
<1>16. CASE UNCHANGED vars
  BY <1>16 DEF vars, db, local, TablesOK, SessionsOK, SessionShape
<1> QED
  BY <1>1, <1>2, <1>3, <1>4, <1>5, <1>6, <1>7, <1>8, <1>9, <1>10, <1>11, <1>12, <1>13,
     <1>14, <1>15, <1>16 DEF Next, Advance

-----------------------------------------------------------------------------
(* Locks *)

\* A session's lock and what it has under the lock stay as they are.
Keeps(q) ==
  pc'[q] \in Locked =>
    pc[q] \in Locked /\ tx'[q] = tx[q] /\ row'[q] = row[q] /\ entry'[q] = entry[q]

\* A step that neither takes a lock nor touches a wallet or a locked session.
LEMMA KeepsLocks ==
  ASSUME Exclusive, FreshCopy, wallets' = wallets, \A q \in Sessions : Keeps(q)
  PROVE  Exclusive' /\ FreshCopy'
<1>1. Exclusive'
  BY DEF Exclusive, Holds, Keeps
<1>2. FreshCopy'
  BY DEF FreshCopy, Cmd, Keeps
<1> QED
  BY <1>1, <1>2

\* A session that ends releases its lock; the others keep theirs.
LEMMA ResetKeeps ==
  ASSUME SessionsOK, NEW s \in Sessions, Reset(s)
  PROVE  /\ pc'[s] \notin Locked
         /\ \A q \in Sessions \ {s} : /\ pc'[q] = pc[q] /\ tx'[q] = tx[q]
                                      /\ row'[q] = row[q] /\ entry'[q] = entry[q]
         /\ \A q \in Sessions : Keeps(q)
  BY DEF SessionsOK, Reset, Keeps, Locked

\* An outcome computed under the lock.
LEMMA ConcludeLock ==
  ASSUME TypeOK, WalletLockHolds, NEW s \in Sessions, pc[s] \in {"apply", "reversal"},
         NEW o, OutcomeOK(o, tx[s], row[s]), Conclude(s, o)
  PROVE  Exclusive' /\ FreshCopy'
<1> USE DEF WalletLockHolds
<1>1. CASE o.error
  BY <1>1, ResetKeeps, KeepsLocks DEF Conclude, Abort, db, TypeOK
<1>2. CASE ~o.error
  <2>1. /\ pc' = [pc EXCEPT ![s] = "persist"]
        /\ tx' = [tx EXCEPT ![s] = o.tx]
        /\ row' = [row EXCEPT ![s] = o.row]
        /\ entry' = [entry EXCEPT ![s] = o.entry]
        /\ wallets' = wallets
    BY <1>2 DEF Conclude, Goto, db
  <2>2. pc[s] \in Locked /\ entry[s] = Null /\ row[s] = wallets[tx[s].cmd.wallet]
    BY DEF Locked, SessionShape, FreshCopy, Cmd
  <2>3. o.tx.cmd = tx[s].cmd
    BY DEF OutcomeOK
  <2>4. /\ pc'[s] \in Locked /\ tx'[s] = o.tx /\ row'[s] = o.row /\ entry'[s] = o.entry
        /\ \A q \in Sessions \ {s} : /\ pc'[q] = pc[q] /\ tx'[q] = tx[q]
                                     /\ row'[q] = row[q] /\ entry'[q] = entry[q]
    BY <2>1 DEF TypeOK, SessionsOK, Locked
  <2>5. Exclusive'
    BY <2>2, <2>3, <2>4 DEF Exclusive, Holds
  <2>6. ASSUME NEW q \in Sessions, pc'[q] \in Locked
        PROVE  LET w == wallets[tx'[q].cmd.wallet]
               IN /\ w # Null
                  /\ entry'[q] = Null => row'[q] = w
                  /\ entry'[q] # Null => /\ Follows(entry'[q], w.balance)
                                         /\ row'[q].balance = entry'[q].after
                                         /\ row'[q].version = w.version + 1
    <3>1. CASE q = s
      BY <2>2, <2>3, <2>4, <3>1 DEF FreshCopy, Cmd, OutcomeOK
    <3>2. CASE q # s
      BY <2>4, <2>6, <3>2 DEF FreshCopy, Cmd
    <3> QED
      BY <3>1, <3>2
  <2>7. FreshCopy'
    BY <2>1, <2>6 DEF FreshCopy, Cmd, Follows
  <2> QED
    BY <2>5, <2>7
<1> QED
  BY <1>1, <1>2

\* A commit replaces the one wallet its session has locked.
LEMMA CommitLock ==
  ASSUME TypeOK, WalletLockHolds, NEW s \in Sessions, pc[s] = "commit",
         CommitRows(s), Reset(s)
  PROVE  Exclusive' /\ FreshCopy'
<1> USE DEF WalletLockHolds
<1> DEFINE w == tx[s].cmd.wallet
<1>1. Exclusive'
  BY ResetKeeps DEF Exclusive, Holds, Keeps, TypeOK
<1>2. ASSUME NEW q \in Sessions, pc'[q] \in Locked
      PROVE  q # s /\ tx[q].cmd.wallet # w /\ tx[q].cmd.wallet \in Wallets
  <2>1. q # s /\ pc[q] \in Locked /\ pc[s] \in Locked
    BY <1>2, ResetKeeps DEF TypeOK, Locked
  <2>2. tx[q].cmd.wallet \in Wallets /\ w \in Wallets
    BY <2>1 DEF SessionShape, Transaction, Command, Locked
  <2> QED
    BY <2>1, <2>2 DEF Exclusive, Holds
<1>3. \A v \in Wallets : v # w => wallets'[v] = wallets[v]
  BY DEF CommitRows, Cmd, TypeOK, TablesOK
<1>4. FreshCopy'
  BY <1>2, <1>3, ResetKeeps DEF FreshCopy, Cmd, TypeOK, Follows
<1> QED
  BY <1>1, <1>4

\* Every step keeps the locks exclusive and the copies under them fresh.
LEMMA LockStep ==
  ASSUME TypeOK, WalletLockHolds, [Next]_vars
  PROVE  Exclusive' /\ FreshCopy'
<1> USE DEF WalletLockHolds, TypeOK
<1>1. ASSUME NEW o \in Openings, OpenWallet(o)
      PROVE  Exclusive' /\ FreshCopy'
  <2>1. pc' = pc /\ tx' = tx /\ row' = row /\ entry' = entry
    BY <1>1 DEF OpenWallet, local
  <2>2. \A v \in Wallets : wallets[v] # Null => wallets'[v] = wallets[v]
    BY <1>1, CommandsAssumption DEF OpenWallet, TablesOK
  <2>3. \A q \in Sessions : pc[q] \in Locked => tx[q].cmd.wallet \in Wallets
    BY DEF SessionShape, Locked, Transaction, Command
  <2>4. Exclusive'
    BY <2>1 DEF Exclusive, Holds
  <2>5. FreshCopy'
    BY <2>1, <2>2, <2>3 DEF FreshCopy, Cmd, Follows
  <2> QED
    BY <2>4, <2>5
<1>2. ASSUME NEW s \in Callers, NEW c \in Commands, Submit(s, c) \/ RefuseInvalid(s, c)
      PROVE  Exclusive' /\ FreshCopy'
  <2>1. s \in Sessions
    BY DEF Sessions
  <2>2. wallets' = wallets /\ \A q \in Sessions : Keeps(q)
    BY <1>2, <2>1 DEF Submit, RefuseInvalid, Goto, db, local, Keeps, SessionsOK, Locked
  <2> QED
    BY <2>2, KeepsLocks
<1>3. ASSUME NEW s \in Consumers, NEW m \in Messages, Deliver(s, m)
      PROVE  Exclusive' /\ FreshCopy'
  <2>1. s \in Sessions
    BY DEF Sessions
  <2>2. wallets' = wallets /\ \A q \in Sessions : Keeps(q)
    BY <1>3, <2>1 DEF Deliver, Goto, db, Keeps, SessionsOK, Locked
  <2> QED
    BY <2>2, KeepsLocks
<1>4. ASSUME NEW s \in Resolvers, NEW i \in DOMAIN txs, ClaimDuePendingReference(s, i)
      PROVE  Exclusive' /\ FreshCopy'
  <2>1. s \in Sessions
    BY DEF Sessions
  <2>2. wallets' = wallets /\ \A q \in Sessions : Keeps(q)
    BY <1>4, <2>1 DEF ClaimDuePendingReference, Goto, db, Keeps, SessionsOK, Locked
  <2> QED
    BY <2>2, KeepsLocks
<1>5. ASSUME NEW s \in Sessions, Reset(s), wallets' = wallets
      PROVE  Exclusive' /\ FreshCopy'
  BY <1>5, ResetKeeps, KeepsLocks
<1>6. ASSUME NEW s \in Sessions, RecordInbox(s)
      PROVE  Exclusive' /\ FreshCopy'
  <2>1. CASE Goto(s, "key1") /\ UNCHANGED << db, local >>
    <3>1. wallets' = wallets /\ \A q \in Sessions : Keeps(q)
      BY <2>1 DEF Goto, db, local, Keeps, SessionsOK, Locked
    <3> QED
      BY <3>1, KeepsLocks
  <2> QED
    BY <1>5, <1>6, <2>1 DEF RecordInbox, Abort, db
<1>7. ASSUME NEW s \in Sessions, FindByIdempotencyKey(s) \/ FindByExternalID(s)
      PROVE  Exclusive' /\ FreshCopy'
  <2>1. \/ Reset(s) /\ wallets' = wallets
        \/ /\ pc[s] \in Locked \/ pc'[s] \notin Locked
           /\ wallets' = wallets /\ tx' = tx /\ row' = row /\ entry' = entry
           /\ \A q \in Sessions \ {s} : pc'[q] = pc[q]
    BY <1>7 DEF FindByIdempotencyKey, FindByExternalID, Replay, Abort, Goto, db, local,
                SessionsOK, Locked
  <2>2. CASE /\ pc[s] \in Locked \/ pc'[s] \notin Locked
             /\ wallets' = wallets /\ tx' = tx /\ row' = row /\ entry' = entry
             /\ \A q \in Sessions \ {s} : pc'[q] = pc[q]
    BY <2>2, KeepsLocks DEF Keeps
  <2> QED
    BY <1>5, <2>1, <2>2
<1>8. ASSUME NEW s \in Sessions, GetForUpdate(s)
      PROVE  Exclusive' /\ FreshCopy'
  <2> DEFINE w == tx[s].cmd.wallet
  <2>1. CASE Abort(s, "WALLET_NOT_FOUND")
    BY <1>5, <2>1 DEF Abort, db
  <2>2. CASE /\ wallets[w] # Null
             /\ WalletFree(s, w)
             /\ Goto(s, IF claim[s] # 0 THEN "apply" ELSE "key2")
             /\ row' = [row EXCEPT ![s] = wallets[w]]
             /\ UNCHANGED << db, tx, entry, ref, claim, msg, again, answer, faults >>
    <3>1. pc[s] = "lock" /\ entry[s] = Null /\ w \in Wallets
      BY <1>8 DEF GetForUpdate, SessionShape, Transaction, Command
    <3>2. /\ pc'[s] \in Locked /\ row'[s] = wallets[w]
          /\ \A q \in Sessions \ {s} : pc'[q] = pc[q] /\ row'[q] = row[q]
          /\ tx' = tx /\ entry' = entry /\ wallets' = wallets
      BY <2>2 DEF Goto, SessionsOK, Locked, db
    <3>3. Exclusive'
      BY <2>2, <3>2 DEF Exclusive, Holds, WalletFree
    <3>4. FreshCopy'
      BY <2>2, <3>1, <3>2 DEF FreshCopy, Cmd
    <3> QED
      BY <3>3, <3>4
  <2> QED
    BY <1>8, <2>1, <2>2 DEF GetForUpdate, Cmd
<1>9. ASSUME NEW s \in Sessions, Apply(s) \/ FindReference(s) \/ CheckReversal(s)
      PROVE  Exclusive' /\ FreshCopy'
  <2>1. CASE FoundReversible(s)
    <3>1. wallets' = wallets /\ \A q \in Sessions : Keeps(q)
      BY <2>1 DEF FoundReversible, Goto, db, Keeps, SessionsOK, Locked
    <3> QED
      BY <3>1, KeepsLocks
  <2> QED
    BY <1>9, <2>1, ApplySteps, ConcludeLock
<1>10. ASSUME NEW s \in Sessions, Persist(s)
       PROVE  Exclusive' /\ FreshCopy'
  <2>1. wallets' = wallets /\ \A q \in Sessions : Keeps(q)
    BY <1>10 DEF Persist, Goto, db, local, Keeps, SessionsOK, Locked
  <2> QED
    BY <2>1, KeepsLocks
<1>11. ASSUME NEW s \in Sessions, PersistFails(s)
       PROVE  Exclusive' /\ FreshCopy'
  <2>1. CASE Abort(s, "CONCURRENT_UPDATE")
    BY <1>5, <2>1 DEF Abort, db
  <2>2. CASE ~Abort(s, "CONCURRENT_UPDATE")
    <3>1. wallets' = wallets /\ \A q \in Sessions : Keeps(q)
      BY <1>11, <2>2 DEF PersistFails, Goto, db, Keeps, SessionsOK, Locked
    <3> QED
      BY <3>1, KeepsLocks
  <2> QED
    BY <2>1, <2>2
<1>12. ASSUME NEW s \in Sessions, Commit(s) \/ CommitUnacknowledged(s)
       PROVE  Exclusive' /\ FreshCopy'
  BY <1>12, CommitLock DEF Commit, CommitUnacknowledged
<1>13. ASSUME NEW s \in Sessions, Fault(s)
       PROVE  Exclusive' /\ FreshCopy'
  BY <1>5, <1>13 DEF Fault, db
<1>14. CASE UNCHANGED vars
  BY <1>14, KeepsLocks DEF vars, db, local, Keeps
<1> QED
  BY <1>1, <1>2, <1>3, <1>4, <1>6, <1>7, <1>8, <1>9, <1>10, <1>11, <1>12, <1>13, <1>14
     DEF Next, Advance

-----------------------------------------------------------------------------
(* The ledger chain *)

\* The chain of one wallet: row is its row or Null, l its entries.
ChainOf(r, l) ==
  /\ \A k \in DOMAIN l : Follows(l[k], IF k = 1 THEN 0 ELSE l[k - 1].after)
  /\ r = Null => l = << >>
  /\ r # Null => r.balance = IF l = << >> THEN 0 ELSE l[Len(l)].after

\* Appending an entry that starts from the stored balance extends the chain.
LEMMA ChainExtends ==
  ASSUME NEW l \in Seq(LedgerRow), NEW r, NEW e \in LedgerRow, NEW n \in WalletRow,
         ChainOf(r, l), n.balance = e.after,
         Follows(e, IF r = Null THEN 0 ELSE r.balance)
  PROVE  ChainOf(n, Append(l, e))
<1> DEFINE m == Append(l, e)
<1>1. Len(l) \in Nat /\ DOMAIN l = 1 .. Len(l)
  BY LenProperties
<1>2. /\ DOMAIN m = 1 .. (Len(l) + 1) /\ Len(m) = Len(l) + 1
      /\ m[Len(l) + 1] = e /\ \A k \in 1 .. Len(l) : m[k] = l[k]
  BY <1>1, AppendProperties
<1>3. l = << >> <=> Len(l) = 0
  BY <1>1, EmptySeq
<1>4. n # Null /\ m # << >>
  BY <1>1, <1>2, NullRowsAssumption, EmptySeq
<1>5. ASSUME NEW k \in DOMAIN m
      PROVE  Follows(m[k], IF k = 1 THEN 0 ELSE m[k - 1].after)
  <2>1. CASE k \in 1 .. Len(l)
    <3>1. m[k] = l[k] /\ (k # 1 => m[k - 1] = l[k - 1])
      BY <1>1, <1>2, <2>1
    <3> QED
      BY <1>1, <2>1, <3>1 DEF ChainOf
  <2>2. CASE k = Len(l) + 1 /\ Len(l) = 0
    BY <1>2, <1>3, <2>2 DEF ChainOf
  <2>3. CASE k = Len(l) + 1 /\ Len(l) # 0
    <3>1. m[k] = e /\ m[k - 1] = l[Len(l)] /\ k # 1
      <4>1. k - 1 = Len(l) /\ Len(l) \in 1 .. Len(l) /\ k # 1
        BY <1>1, <2>3
      <4> HIDE DEF m
      <4> QED
        BY <1>2, <2>3, <4>1
    <3>2. r # Null /\ r.balance = l[Len(l)].after
      BY <1>3, <2>3 DEF ChainOf
    <3> QED
      BY <3>1, <3>2
  <2> QED
    BY <1>1, <1>2, <2>1, <2>2, <2>3
<1> HIDE DEF m
<1>6. m[Len(m)] = e
  BY <1>2
<1> QED
  BY <1>4, <1>5, <1>6 DEF ChainOf, m

\* A commit appends the entry it computed under the lock.
LEMMA CommitChain ==
  ASSUME TypeOK, WalletLockHolds, LedgerChain, NEW s \in Sessions, pc[s] = "commit",
         CommitRows(s)
  PROVE  LedgerChain'
<1> DEFINE w == Cmd(s).wallet
           e == entry[s]
           r == [tx |-> IdOf(s), dir |-> e.dir, amount |-> e.amount,
                 before |-> e.before, after |-> e.after]
<1>1. CASE e = Null
  BY <1>1 DEF CommitRows, LedgerChain
<1>2. CASE e # Null
  <2>1. pc[s] \in Locked /\ w \in Wallets /\ row[s] \in WalletRow
    BY DEF WalletLockHolds, SessionShape, Locked, Cmd, Transaction, Command
  <2>2. /\ wallets[w] # Null /\ Follows(e, wallets[w].balance)
        /\ row[s].balance = e.after
    BY <1>2, <2>1 DEF WalletLockHolds, FreshCopy
  <2>3. e \in Entry /\ IdOf(s) \in Nat
    BY <1>2, LenProperties DEF TypeOK, SessionsOK, TablesOK, IdOf
  <2>4. /\ r \in LedgerRow /\ row[s].balance = r.after
        /\ Follows(r, wallets[w].balance)
    BY <2>2, <2>3 DEF LedgerRow, Entry, Follows
  <2>5. wallets' = [wallets EXCEPT ![w] = row[s]]
        /\ ledger' = [ledger EXCEPT ![w] = Append(ledger[w], r)]
    BY <1>2 DEF CommitRows
  <2> HIDE DEF r
  <2>6. ChainOf(row[s], Append(ledger[w], r))
    <3>1. ledger[w] \in Seq(LedgerRow) /\ ChainOf(wallets[w], ledger[w])
      BY <2>1 DEF TypeOK, TablesOK, LedgerChain, ChainOf
    <3> QED
      BY <2>1, <2>2, <2>4, <3>1, ChainExtends
  <2> HIDE DEF w
  <2>7. ASSUME NEW v \in Wallets
        PROVE  ChainOf(wallets'[v], ledger'[v])
    <3>1. CASE v = w
      BY <2>1, <2>5, <2>6, <3>1 DEF TypeOK, TablesOK
    <3>2. CASE v # w
      BY <2>1, <2>5, <3>2 DEF TypeOK, TablesOK, LedgerChain, ChainOf
    <3> QED
      BY <3>1, <3>2
  <2> QED
    BY <2>7 DEF LedgerChain, ChainOf, Follows
<1> QED
  BY <1>1, <1>2

\* Every step keeps the chains.
LEMMA ChainStep ==
  ASSUME TypeOK, WalletLockHolds, LedgerChain, [Next]_vars
  PROVE  LedgerChain'
<1>1. ASSUME NEW o \in Openings, OpenWallet(o)
      PROVE  LedgerChain'
  <2> DEFINE w == o.wallet
             n == [player |-> o.player, currency |-> o.currency,
                   balance |-> o.amount, version |-> 1]
             r == [tx |-> Len(txs) + 1, dir |-> "CREDIT", amount |-> o.amount,
                   before |-> 0, after |-> o.amount]
  <2>1. /\ w \in Wallets /\ o.player \in Players
        /\ o.currency \in Currencies /\ o.amount \in Nat /\ o.amount \in 0 .. MaxMinor
    BY CommandsAssumption, MaxMinorAssumption
  <2>2. n \in WalletRow /\ r \in LedgerRow /\ n.balance = r.after /\ Follows(r, 0)
    BY <2>1, LenProperties DEF WalletRow, LedgerRow, Follows, TypeOK, TablesOK
  <2>3. /\ wallets[w] = Null /\ wallets' = [wallets EXCEPT ![w] = n]
        /\ \/ o.amount = 0 /\ ledger' = ledger
           \/ ledger' = [ledger EXCEPT ![w] = Append(ledger[w], r)]
    BY <1>1 DEF OpenWallet
  <2>4. n.balance = o.amount
    OBVIOUS
  <2>5. ledger[w] = << >> /\ ledger[w] \in Seq(LedgerRow) /\ ChainOf(Null, ledger[w])
    BY <2>1, <2>3 DEF LedgerChain, ChainOf, TypeOK, TablesOK
  <2>6. ChainOf(n, Append(ledger[w], r))
    BY <2>2, <2>5, ChainExtends
  <2>7. n # Null
    BY <2>2, NullRowsAssumption
  <2> HIDE DEF w, n, r
  <2>8. ASSUME NEW v \in Wallets
        PROVE  ChainOf(wallets'[v], ledger'[v])
    <3>1. CASE v = w /\ ledger' = ledger /\ o.amount = 0
      <4>1. wallets'[v] = n /\ ledger'[v] = << >> /\ n.balance = 0
        BY <2>1, <2>3, <2>4, <2>5, <3>1 DEF TypeOK, TablesOK
      <4> QED
        BY <2>7, <4>1 DEF ChainOf
    <3>2. CASE v = w /\ ledger' = [ledger EXCEPT ![w] = Append(ledger[w], r)]
      BY <2>1, <2>3, <2>6, <3>2 DEF TypeOK, TablesOK
    <3>3. CASE v # w
      BY <2>1, <2>3, <3>3 DEF TypeOK, TablesOK, LedgerChain, ChainOf
    <3> QED
      BY <2>3, <3>1, <3>2, <3>3
  <2> QED
    BY <2>8 DEF LedgerChain, ChainOf, Follows
<1>2. ASSUME NEW s \in Sessions, Commit(s) \/ CommitUnacknowledged(s)
      PROVE  LedgerChain'
  BY <1>2, CommitChain DEF Commit, CommitUnacknowledged
<1>3. ASSUME wallets' = wallets, ledger' = ledger
      PROVE  LedgerChain'
  BY <1>3 DEF LedgerChain, Follows
<1>4. ASSUME NEW s \in Callers, NEW c \in Commands, Submit(s, c) \/ RefuseInvalid(s, c)
      PROVE  LedgerChain'
  BY <1>3, <1>4 DEF Submit, RefuseInvalid, db
<1>5. ASSUME NEW s \in Consumers, NEW m \in Messages, Deliver(s, m)
      PROVE  LedgerChain'
  BY <1>3, <1>5 DEF Deliver, db
<1>6. ASSUME NEW s \in Resolvers, NEW i \in DOMAIN txs, ClaimDuePendingReference(s, i)
      PROVE  LedgerChain'
  BY <1>3, <1>6 DEF ClaimDuePendingReference, db
<1>7. ASSUME NEW s \in Sessions,
             \/ RecordInbox(s) \/ FindByIdempotencyKey(s) \/ FindByExternalID(s)
             \/ GetForUpdate(s) \/ Persist(s) \/ PersistFails(s) \/ Fault(s)
      PROVE  LedgerChain'
  BY <1>3, <1>7 DEF RecordInbox, FindByIdempotencyKey, FindByExternalID, GetForUpdate,
                    Persist, PersistFails, Fault, Abort, Replay, db
<1>8. ASSUME NEW s \in Sessions, Apply(s) \/ FindReference(s) \/ CheckReversal(s)
      PROVE  LedgerChain'
  <2>1. wallets' = wallets /\ ledger' = ledger
    BY <1>8, ApplySteps DEF WalletLockHolds, Conclude, FoundReversible, Abort, db
  <2> QED
    BY <1>3, <2>1
<1>9. CASE UNCHANGED vars
  BY <1>3, <1>9 DEF vars, db
<1> QED
  BY <1>1, <1>2, <1>4, <1>5, <1>6, <1>7, <1>8, <1>9 DEF Next, Advance

-----------------------------------------------------------------------------
(* The theorems *)

\* The inductive invariant: the chain needs a commit to write what it computed
\* from the stored row (FreshCopy), which needs the lock to be exclusive, which
\* needs the sessions to have a command.
Inv == TypeOK /\ WalletLockHolds /\ LedgerChain

\* The empty database satisfies Inv.
LEMMA InitInv ==
  ASSUME Init
  PROVE  Inv
<1>1. TablesOK
  BY DEF Init, TablesOK
<1>2. SessionsOK
  BY DEF Init, SessionsOK, Unlocked
<1>3. faults \in 0 .. MaxFaults
  BY MaxFaultsAssumption DEF Init
<1>4. WalletLockHolds
  BY DEF Init, WalletLockHolds, SessionShape, Exclusive, FreshCopy, Holds, Locked
<1>5. LedgerChain
  BY DEF Init, LedgerChain
<1> QED
  BY <1>1, <1>2, <1>3, <1>4, <1>5 DEF Inv, TypeOK

\* Inv holds in every reachable state.
THEOREM Invariance == Spec => []Inv
<1>1. Inv /\ [Next]_vars => Inv'
  BY TypeStep, LockStep, ChainStep DEF Inv, WalletLockHolds
<1> QED
  BY <1>1, InitInv, PTL DEF Spec

\* Type correctness: in particular no balance is ever negative or out of int64,
\* whatever requests, messages and worker passes race (the CHECK constraints
\* of wallets and wallet_ledger_entries never fire).
THEOREM TypeCorrect == Spec => []TypeOK
<1>1. Inv => TypeOK
  BY DEF Inv
<1> QED
  BY <1>1, Invariance, PTL

\* From GetForUpdate to the end of its SQL transaction a session has its
\* wallet to itself, and its copy is the stored row or one movement from it.
THEOREM LockingSound == Spec => []WalletLockHolds
<1>1. Inv => WalletLockHolds
  BY DEF Inv
<1> QED
  BY <1>1, Invariance, PTL

\* The ledger of every wallet chains from zero to its stored balance: no
\* balance change is lost, duplicated or computed from a stale read.
THEOREM LedgerSound == Spec => []LedgerChain
<1>1. Inv => LedgerChain
  BY DEF Inv
<1> QED
  BY <1>1, Invariance, PTL

=============================================================================
