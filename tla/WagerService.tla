---------------------------- MODULE WagerService ----------------------------
(***************************************************************************)
(* The core of the service: internal/app/process.go and wallets.go over    *)
(* the PostgreSQL schema of migrations/000001_init.up.sql.                 *)
(*                                                                         *)
(* A session is one goroutine inside UnitOfWork.Do: an HTTP request        *)
(* (Callers), a message of the SQS consumer (Consumers) or a pass of the   *)
(* pending-reference worker (Resolvers), in any number of instances of the *)
(* process.  The database runs at READ COMMITTED, so one action is one SQL *)
(* statement: it sees what is committed when it runs, and it waits for     *)
(* the row locks and for the in-flight unique-index entries of others.     *)
(* What a session has read or computed stays in its own variables until it *)
(* commits.                                                                *)
(*                                                                         *)
(* Rows of wager_transactions are kept in commit order and identified by   *)
(* their position.  wallet_ledger_entries is kept per wallet in seq order. *)
(***************************************************************************)
EXTENDS Wager, FiniteSets, Functions

CONSTANTS
  Callers, Consumers, Resolvers,
  Commands,         \* what providers submit over HTTP, well formed or not
  Messages,         \* [id, cmd]: what the command queue delivers
  Openings,         \* [wallet, player, currency, amount]: wallets being opened
  MaxFaults         \* bound: rollbacks for infrastructure reasons, lost acknowledgements

ASSUME MaxFaultsAssumption == MaxFaults \in Nat

ASSUME SessionsAssumption ==
  /\ Callers \cap Consumers = {}
  /\ (Callers \cup Consumers) \cap Resolvers = {}

ASSUME CommandsAssumption ==
  /\ Commands \subseteq Command
  /\ Null \notin Messages /\ \A m \in Messages : m.cmd \in Command
  /\ \A c \in Commands \cup {m.cmd : m \in Messages} :
       Null \notin {c.provider, c.key, c.ext, c.round}
  /\ \A o \in Openings : /\ o.wallet \in Wallets /\ o.player \in Players
                         /\ o.currency \in Currencies /\ o.amount \in 0 .. MaxMinor

VARIABLES
  wallets,    \* table wallets: Null where there is no row yet
  txs,        \* table wager_transactions
  ledger,     \* table wallet_ledger_entries, per wallet
  outbox,     \* table outbox_events
  inbox,      \* table inbox_messages
  pc,         \* the next statement of each session
  tx,         \* its aggregate, as the statements so far left it
  row,        \* its copy of the wallet, read under the row lock
  entry,      \* its ledger entry, when the balance moves
  ref,        \* the row its reference resolved to, 0 if none
  claim,      \* the PENDING_REFERENCE row a resolver has locked, 0 if none
  msg,        \* the message a consumer is handling
  again,      \* an HTTP request is in its second run after a lost race
  answer,     \* history: what each HTTP caller was told last
  faults

db      == << wallets, txs, ledger, outbox, inbox >>
local   == << tx, row, entry, ref, claim, msg, again >>
vars    == << db, pc, local, answer, faults >>

Sessions == Callers \cup Consumers \cup Resolvers

AnswerCodes ==
  { "OK", "VALIDATION_ERROR", "WALLET_NOT_FOUND", "IDEMPOTENCY_KEY_CONFLICT",
    "EXTERNAL_TRANSACTION_ID_CONFLICT", "CONCURRENT_UPDATE", "TEMPORARILY_UNAVAILABLE",
    "DUPLICATE_DELIVERY" }

Unlocked == {"idle", "inbox", "key1", "ext1", "lock"}
Locked   == {"key2", "ext2", "apply", "reversal", "persist", "commit"}

-----------------------------------------------------------------------------
(* Reads *)

Cmd(s) == tx[s].cmd

\* A row of wallet_ledger_entries names its transaction.
LedgerRow == [tx : Nat, dir : {"DEBIT", "CREDIT"}, amount : Nat, before : Nat, after : Nat]

\* FindByIdempotencyKey and FindByExternalID: origin = 'EXTERNAL' only.
ByKey(provider, key) ==
  {i \in DOMAIN txs : txs[i].cmd.provider = provider /\ txs[i].cmd.key = key}

\* Mutant of ByExternalId: compares the idempotency key.
ByExternalIdAsKey(provider, ext) ==
  {i \in DOMAIN txs : txs[i].cmd.provider = provider /\ txs[i].cmd.key = ext}

ByExternalId(provider, ext) ==
  {i \in DOMAIN txs : txs[i].cmd.provider = provider /\ txs[i].cmd.ext = ext}

HasProcessedReversal(id) == \E i \in DOMAIN txs : IsProcessedReversal(txs[i], id)

\* The FOR UPDATE lock on a wallet row is held from GetForUpdate to the end.
Holds(s, w) == pc[s] \in Locked /\ tx[s].cmd.wallet = w

\* Mutant of WalletFree: SELECT without FOR UPDATE.
WalletReadable(s, w) == TRUE

WalletFree(s, w) == \A q \in Sessions \ {s} : ~Holds(q, w)

\* Mutant of Unclaimed: SELECT without FOR UPDATE SKIP LOCKED.
Claimable(i) == TRUE

Unclaimed(i) == \A q \in Resolvers : claim[q] # i

\* The amounts of the entries l in direction dir, summed up to each entry.
RunningTotal(l, dir) ==
  LET sum[k \in 0 .. Len(l)] ==
        IF k = 0 THEN 0 ELSE sum[k - 1] + (IF l[k].dir = dir THEN l[k].amount ELSE 0)
  IN sum

\* Mutant of Total: no FILTER on the direction.
TotalUnfiltered(w, dir) ==
  RunningTotal(ledger[w], "CREDIT")[Len(ledger[w])] +
    RunningTotal(ledger[w], "DEBIT")[Len(ledger[w])]

\* ledger.Totals: SUM(amount_minor) FILTER (direction), cast to BIGINT.
Total(w, dir) == RunningTotal(ledger[w], dir)[Len(ledger[w])]

\* Reconcile reads wallet and totals in one REPEATABLE READ snapshot and
\* writes nothing.  ok is FALSE when a cast or a subtraction overflows.
Reconcile(w) ==
  LET credits    == Total(w, "CREDIT")
      debits     == Total(w, "DEBIT")
      calculated == credits - debits
  IN [ ok |-> /\ credits <= MaxMinor /\ debits <= MaxMinor
              /\ ~SubOverflows(credits, debits)
              /\ ~SubOverflows(wallets[w].balance, calculated),
       difference |-> wallets[w].balance - calculated ]

\* A consumer's inbox row is in the index from Record to the end.
RecordsInbox(q) == pc[q] \notin {"idle", "inbox"}

\* The id a session's transaction has: its row's, or the next one.
IdOf(s) == IF claim[s] # 0 THEN claim[s] ELSE Len(txs) + 1

-----------------------------------------------------------------------------
(* Ends of a session *)

Reset(s) ==
  /\ pc' = [pc EXCEPT ![s] = "idle"]
  /\ tx' = [tx EXCEPT ![s] = Null]
  /\ row' = [row EXCEPT ![s] = Null]
  /\ entry' = [entry EXCEPT ![s] = Null]
  /\ ref' = [ref EXCEPT ![s] = 0]
  /\ claim' = [claim EXCEPT ![s] = 0]
  /\ msg' = [msg EXCEPT ![s] = Null]
  /\ again' = [again EXCEPT ![s] = FALSE]

\* writeJSON and writeAppError; consumers and resolvers have no caller.
Answer(s, code, r) ==
  answer' = IF s \in Callers
            THEN [answer EXCEPT ![s] = [cmd |-> Cmd(s), code |-> code, row |-> r]]
            ELSE answer

\* The inbox row commits with everything else of a consumer's transaction.
CommitInbox(s) == inbox' = IF msg[s] = Null THEN inbox ELSE inbox \cup {msg[s]}

\* Mutant of Abort: the inbox row is committed on its own.
AbortKeepingInbox(s, code) ==
  /\ Reset(s) /\ Answer(s, code, Null) /\ CommitInbox(s)
  /\ UNCHANGED << wallets, txs, ledger, outbox, faults >>

\* An error leaves UnitOfWork.run through Rollback.
Abort(s, code) == Reset(s) /\ Answer(s, code, Null) /\ UNCHANGED << db, faults >>

\* lookupExisting found the same operation: its row is the answer.
Replay(s, i) ==
  /\ Reset(s)
  /\ Answer(s, "OK", txs[i])
  /\ CommitInbox(s)
  /\ UNCHANGED << wallets, txs, ledger, outbox, faults >>

Goto(s, label) == pc' = [pc EXCEPT ![s] = label]

-----------------------------------------------------------------------------
(* Starting a session *)

\* OpenWallet: wallet, OPENING transaction, entry and both events in one
\* commit.  Nothing of it is visible before; the only statement that can wait
\* or fail is the insert under wallets_player_currency_unique.
OpenWallet(o) ==
  /\ wallets[o.wallet] = Null
  /\ \A w \in Wallets : wallets[w] # Null =>
        << wallets[w].player, wallets[w].currency >> # << o.player, o.currency >>
  /\ wallets' = [wallets EXCEPT ![o.wallet] =
        [player |-> o.player, currency |-> o.currency, balance |-> o.amount, version |-> 1]]
  /\ IF o.amount = 0
     THEN UNCHANGED << txs, ledger, outbox >>
     ELSE LET id == Len(txs) + 1
              t  == NewOpening(o.wallet, o.player, o.currency, o.amount)
          IN /\ txs' = Append(txs, MarkProcessed(t, o.amount, o.currency))
             /\ ledger' = [ledger EXCEPT ![o.wallet] = Append(@,
                   [tx |-> id, dir |-> "CREDIT", amount |-> o.amount, before |-> 0, after |-> o.amount])]
             /\ outbox' = outbox \o << ProcessedEvent(id), BalanceChanged(id, 1) >>
  /\ UNCHANGED << inbox, pc, local, answer, faults >>

\* postTransaction: ToRequest, then Process.
Submit(s, c) ==
  /\ pc[s] = "idle"
  /\ ValidRequest(c)
  /\ Goto(s, "key1")
  /\ tx' = [tx EXCEPT ![s] = NewExternal(c)]
  /\ answer' = [answer EXCEPT ![s] = Null]
  /\ UNCHANGED << db, row, entry, ref, claim, msg, again, faults >>

\* A request that fails validation changes nothing but the caller's answer.
RefuseInvalid(s, c) ==
  /\ pc[s] = "idle"
  /\ ~ValidRequest(c)
  /\ answer' = [answer EXCEPT ![s] = [cmd |-> c, code |-> "VALIDATION_ERROR", row |-> Null]]
  /\ UNCHANGED << db, pc, local, faults >>

\* Consumer.handle: any message, any number of times, to several consumers.
\* An invalid one is dead-lettered before a transaction begins.
Deliver(s, m) ==
  /\ pc[s] = "idle"
  /\ ValidRequest(m.cmd)
  /\ Goto(s, "inbox")
  /\ tx' = [tx EXCEPT ![s] = NewExternal(m.cmd)]
  /\ msg' = [msg EXCEPT ![s] = m]
  /\ UNCHANGED << db, row, entry, ref, claim, again, answer, faults >>

\* inbox.Record: ON CONFLICT DO NOTHING waits for an in-flight insert of the
\* same message id.  A recorded message ends here (errAlreadyProcessed, or a
\* validation error when the body differs).
RecordInbox(s) ==
  /\ pc[s] = "inbox"
  /\ \A q \in Consumers \ {s} : RecordsInbox(q) => msg[q].id # msg[s].id
  /\ \/ /\ \A m \in inbox : m.id # msg[s].id
        /\ Goto(s, "key1")
        /\ UNCHANGED << db, local, answer, faults >>
     \/ /\ \E m \in inbox : m.id = msg[s].id
        /\ Abort(s, "DUPLICATE_DELIVERY")

\* ClaimDuePendingReference: the due row with the least
\* next_reference_retry_at among those nobody has locked.
ClaimDuePendingReference(s, i) ==
  LET free == {j \in DOMAIN txs : txs[j].status = "PENDING_REFERENCE" /\ Unclaimed(j)}
  IN /\ pc[s] = "idle"
     /\ i \in free
     /\ \A j \in free : txs[i].next <= txs[j].next
     /\ Goto(s, "lock")
     /\ tx' = [tx EXCEPT ![s] = txs[i]]
     /\ claim' = [claim EXCEPT ![s] = i]
     /\ UNCHANGED << db, row, entry, ref, msg, again, answer, faults >>

-----------------------------------------------------------------------------
(* lookupExisting, before (key1, ext1) and under (key2, ext2) the lock *)

FindByIdempotencyKey(s) ==
  /\ pc[s] \in {"key1", "key2"}
  /\ LET found == ByKey(Cmd(s).provider, Cmd(s).key)
     IN \/ /\ found = {}
           /\ Goto(s, IF pc[s] = "key1" THEN "ext1" ELSE "ext2")
           /\ UNCHANGED << db, local, answer, faults >>
        \/ \E i \in found : /\ PayloadHash(txs[i].cmd) = PayloadHash(Cmd(s))
                            /\ Replay(s, i)
        \/ \E i \in found : /\ PayloadHash(txs[i].cmd) # PayloadHash(Cmd(s))
                            /\ Abort(s, "IDEMPOTENCY_KEY_CONFLICT")

\* Mutant of SameKey: a hit by external id is always a conflict.
NeverSameKey(c, d) == FALSE

SameKey(c, d) == c.key = d.key

\* The row may have been committed since the lookup by key.
FindByExternalID(s) ==
  /\ pc[s] \in {"ext1", "ext2"}
  /\ LET found == ByExternalId(Cmd(s).provider, Cmd(s).ext)
     IN \/ /\ found = {}
           /\ Goto(s, IF pc[s] = "ext1" THEN "lock" ELSE "apply")
           /\ UNCHANGED << db, local, answer, faults >>
        \/ \E i \in found : /\ SameKey(txs[i].cmd, Cmd(s))
                            /\ PayloadHash(txs[i].cmd) = PayloadHash(Cmd(s))
                            /\ Replay(s, i)
        \/ \E i \in found : /\ SameKey(txs[i].cmd, Cmd(s))
                            /\ PayloadHash(txs[i].cmd) # PayloadHash(Cmd(s))
                            /\ Abort(s, "IDEMPOTENCY_KEY_CONFLICT")
        \/ \E i \in found : /\ ~SameKey(txs[i].cmd, Cmd(s))
                            /\ Abort(s, "EXTERNAL_TRANSACTION_ID_CONFLICT")

\* GetForUpdate: waits for the holder, then reads the committed row.
GetForUpdate(s) ==
  /\ pc[s] = "lock"
  /\ LET w == Cmd(s).wallet
     IN \/ /\ wallets[w] = Null
           /\ Abort(s, "WALLET_NOT_FOUND")
        \/ /\ wallets[w] # Null
           /\ WalletFree(s, w)
           /\ Goto(s, IF claim[s] # 0 THEN "apply" ELSE "key2")
           /\ row' = [row EXCEPT ![s] = wallets[w]]
           /\ UNCHANGED << db, tx, entry, ref, claim, msg, again, answer, faults >>

-----------------------------------------------------------------------------
(* apply, in memory except for the reads of the reference *)

\* Mutant of Conclude: instead of parking, looks again under the lock.
ConcludeOrPoll(s, o) ==
  IF o.tx.status = "PENDING_REFERENCE"
  THEN Goto(s, "key2") /\ UNCHANGED << db, local, answer, faults >>
  ELSE /\ Goto(s, "persist")
       /\ tx' = [tx EXCEPT ![s] = o.tx]
       /\ row' = [row EXCEPT ![s] = o.row]
       /\ entry' = [entry EXCEPT ![s] = o.entry]
       /\ UNCHANGED << db, ref, claim, msg, again, answer, faults >>

\* An error of apply is money.ErrOverflow, which the API calls a validation
\* error; otherwise the outcome goes on to be persisted.
Conclude(s, o) ==
  IF o.error
  THEN Abort(s, "VALIDATION_ERROR")
  ELSE /\ Goto(s, "persist")
       /\ tx' = [tx EXCEPT ![s] = o.tx]
       /\ row' = [row EXCEPT ![s] = o.row]
       /\ entry' = [entry EXCEPT ![s] = o.entry]
       /\ UNCHANGED << db, ref, claim, msg, again, answer, faults >>

Apply(s) ==
  /\ pc[s] = "apply"
  /\ MatchesWallet(tx[s], row[s]) => ~NeedsReference(tx[s])
  /\ Conclude(s, ApplyAlone(tx[s], row[s]))

\* resolveReferenceTx up to HasProcessedReversal.  The reference may be on
\* another wallet, which this session has not locked.
FindReference(s) ==
  LET t     == tx[s]
      found == ByExternalId(t.cmd.provider, t.cmd.ref)
      waits == \A i \in found : txs[i].status \in {"PENDING", "PENDING_REFERENCE"}
  IN /\ pc[s] = "apply"
     /\ MatchesWallet(t, row[s]) /\ NeedsReference(t)
     /\ \/ /\ waits
           /\ \E at \in RetryTimes : Conclude(s, Park(t, row[s], at))
        \/ \E i \in found :
             /\ ~waits
             /\ ReferenceFailure(t, txs[i]) # Null
             /\ Conclude(s, Rejected(t, row[s], ReferenceFailure(t, txs[i])))
        \/ \E i \in found :
             /\ ~waits
             /\ ReferenceFailure(t, txs[i]) = Null
             /\ t.cmd.kind \notin ReversalKinds
             /\ Conclude(s, ApplyResolved(Resolved(t, i), row[s], txs[i].cmd.kind))
        \/ \E i \in found :
             /\ ~waits
             /\ ReferenceFailure(t, txs[i]) = Null
             /\ t.cmd.kind \in ReversalKinds
             /\ Goto(s, "reversal")
             /\ ref' = [ref EXCEPT ![s] = i]
             /\ UNCHANGED << db, tx, row, entry, claim, msg, again, answer, faults >>

CheckReversal(s) ==
  /\ pc[s] = "reversal"
  /\ Conclude(s,
       IF HasProcessedReversal(ref[s])
       THEN Rejected(tx[s], row[s], "REFERENCE_ALREADY_REVERSED")
       ELSE ApplyResolved(Resolved(tx[s], ref[s]), row[s], txs[ref[s]].cmd.kind))

-----------------------------------------------------------------------------
(* Insert or Update, then persistOutcome, then COMMIT *)

\* Mutant of SameUniqueKey: one unique index on all three columns.
SameKeyAndExternalId(t, u) ==
  /\ t.cmd.provider = u.cmd.provider
  /\ t.cmd.key = u.cmd.key /\ t.cmd.ext = u.cmd.ext

SameUniqueKey(t, u) ==
  /\ t.cmd.provider = u.cmd.provider
  /\ t.cmd.key = u.cmd.key \/ t.cmd.ext = u.cmd.ext

SameReversal(t, u) == t.refTx # 0 /\ IsProcessedReversal(t, t.refTx) /\ IsProcessedReversal(u, t.refTx)

\* Two transactions that a unique index does not let both commit.  A resolver
\* updates a row that is already in the indexes on provider and key.
Clash(s, u) == (claim[s] = 0 /\ SameUniqueKey(tx[s], u)) \/ SameReversal(tx[s], u)

\* Mutant of InFlight: the key is reserved by a statement of its own before
\* the external id is.
InFlightEarly(q) == pc[q] \in {"persist", "commit"}

\* The statements of another session that has not committed yet.
InFlight(q) == pc[q] = "commit"

BlockedBy(s, q) == q # s /\ InFlight(q) /\ Clash(s, tx[q])

\* isUniqueViolation on wager_transactions.
DuplicateTransaction(s) ==
  \E i \in DOMAIN txs : i # claim[s] /\ Clash(s, txs[i])

\* wallets.Update matched no row WHERE version = expected.
ConcurrentModification(s) ==
  entry[s] # Null /\ wallets[Cmd(s).wallet].version # row[s].version - 1

Persist(s) ==
  /\ pc[s] = "persist"
  /\ \A q \in Sessions : ~BlockedBy(s, q)
  /\ ~DuplicateTransaction(s) /\ ~ConcurrentModification(s)
  /\ Goto(s, "commit")
  /\ UNCHANGED << db, local, answer, faults >>

\* Process runs an HTTP request a second time after ErrDuplicateTransaction.
PersistFails(s) ==
  /\ pc[s] = "persist"
  /\ \A q \in Sessions : ~BlockedBy(s, q)
  /\ DuplicateTransaction(s) \/ ConcurrentModification(s)
  /\ \/ /\ s \in Callers /\ ~again[s] /\ DuplicateTransaction(s)
        /\ Goto(s, "key1")
        /\ tx' = [tx EXCEPT ![s] = NewExternal(Cmd(s))]
        /\ row' = [row EXCEPT ![s] = Null]
        /\ entry' = [entry EXCEPT ![s] = Null]
        /\ ref' = [ref EXCEPT ![s] = 0]
        /\ again' = [again EXCEPT ![s] = TRUE]
        /\ UNCHANGED << db, claim, msg, answer, faults >>
     \/ /\ s \in Callers => again[s] \/ ~DuplicateTransaction(s)
        /\ Abort(s, "CONCURRENT_UPDATE")

\* What the statements of the session wrote becomes visible.
CommitRows(s) ==
  LET w  == Cmd(s).wallet
      id == IdOf(s)
      e  == entry[s]
  IN /\ txs' = IF claim[s] # 0 THEN [txs EXCEPT ![id] = Stored(tx[s])]
                               ELSE Append(txs, Stored(tx[s]))
     /\ IF e = Null
        THEN UNCHANGED << wallets, ledger >>
        ELSE /\ wallets' = [wallets EXCEPT ![w] = row[s]]
             /\ ledger' = [ledger EXCEPT ![w] = Append(@,
                   [tx |-> id, dir |-> e.dir, amount |-> e.amount,
                    before |-> e.before, after |-> e.after])]
     /\ outbox' = outbox \o EventsOf(tx[s], id, e, row[s].version)
     /\ CommitInbox(s)

Commit(s) ==
  /\ pc[s] = "commit"
  /\ CommitRows(s)
  /\ Reset(s)
  /\ Answer(s, "OK", tx[s])
  /\ UNCHANGED faults

-----------------------------------------------------------------------------
(* Failures *)

\* The server commits and the connection is lost before it says so: the
\* caller is told to retry with the same key.
CommitUnacknowledged(s) ==
  /\ pc[s] = "commit"
  /\ faults < MaxFaults
  /\ CommitRows(s)
  /\ Reset(s)
  /\ Answer(s, "TEMPORARILY_UNAVAILABLE", Null)
  /\ faults' = faults + 1

\* A statement fails, the request is cancelled or the process dies: the
\* transaction is rolled back and its locks are released.
Fault(s) ==
  /\ pc[s] # "idle"
  /\ faults < MaxFaults
  /\ Reset(s)
  /\ Answer(s, "TEMPORARILY_UNAVAILABLE", Null)
  /\ faults' = faults + 1
  /\ UNCHANGED db

-----------------------------------------------------------------------------

Init ==
  /\ wallets = [w \in Wallets |-> Null]
  /\ txs = << >>
  /\ ledger = [w \in Wallets |-> << >>]
  /\ outbox = << >>
  /\ inbox = {}
  /\ pc = [s \in Sessions |-> "idle"]
  /\ tx = [s \in Sessions |-> Null]
  /\ row = [s \in Sessions |-> Null]
  /\ entry = [s \in Sessions |-> Null]
  /\ ref = [s \in Sessions |-> 0]
  /\ claim = [s \in Sessions |-> 0]
  /\ msg = [s \in Sessions |-> Null]
  /\ again = [s \in Sessions |-> FALSE]
  /\ answer = [s \in Callers |-> Null]
  /\ faults = 0

\* The statements of a session that has begun.
Advance(s) ==
  \/ RecordInbox(s)
  \/ FindByIdempotencyKey(s)
  \/ FindByExternalID(s)
  \/ GetForUpdate(s)
  \/ Apply(s)
  \/ FindReference(s)
  \/ CheckReversal(s)
  \/ Persist(s)
  \/ PersistFails(s)
  \/ Commit(s)

Next ==
  \/ \E o \in Openings : OpenWallet(o)
  \/ \E s \in Callers, c \in Commands : Submit(s, c) \/ RefuseInvalid(s, c)
  \/ \E s \in Consumers, m \in Messages : Deliver(s, m)
  \/ \E s \in Resolvers : \E i \in DOMAIN txs : ClaimDuePendingReference(s, i)
  \/ \E s \in Sessions : Advance(s)
  \/ \E s \in Sessions : CommitUnacknowledged(s) \/ Fault(s)

Spec == Init /\ [][Next]_vars

=============================================================================
