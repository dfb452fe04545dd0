-------------------------- MODULE WagerProperties --------------------------
(***************************************************************************)
(* What WagerService promises.                                             *)
(***************************************************************************)
EXTENDS WagerService, Backoff, FiniteSetsExt

\* The tables of 000001_init.up.sql.
TablesOK ==
  /\ wallets \in [Wallets -> Optional(WalletRow)]
  /\ txs \in Seq(Transaction)
  /\ ledger \in [Wallets -> Seq(LedgerRow)]
  /\ outbox \in Seq(Event)
  /\ inbox \in SUBSET Messages

\* The local variables of ProcessIn.
SessionsOK ==
  /\ pc \in [Sessions -> Locked \cup Unlocked]
  /\ tx \in [Sessions -> Optional(Transaction)]
  /\ row \in [Sessions -> Optional(WalletRow)]
  /\ entry \in [Sessions -> Optional(Entry)]
  /\ ref \in [Sessions -> Nat]
  /\ claim \in [Sessions -> Nat]
  /\ msg \in [Sessions -> Optional(Messages)]
  /\ again \in [Sessions -> BOOLEAN]
  /\ answer \in [Callers -> Optional([cmd : Command, code : AnswerCodes,
                                      row : Optional(Transaction)])]

\* The state has the shape of the tables and of the sessions' variables; the
\* balances of wallets, entries and results never leave 0 .. MaxMinor, the
\* CHECK constraints of the schema.
TypeOK ==
  /\ TablesOK
  /\ SessionsOK
  /\ faults \in 0 .. MaxFaults

-----------------------------------------------------------------------------
(* The ledger and the balance *)

\* One entry, and the balance the one before it left.
Follows(e, before) ==
  /\ e.before = before
  /\ e.after = IF e.dir = "CREDIT" THEN e.before + e.amount ELSE e.before - e.amount

\* No balance change is lost, applied twice or recorded against a stale
\* balance, whatever writers raced for the wallet: the entries of a wallet
\* chain from zero to the balance stored in its row.
LedgerChain ==
  \A w \in Wallets :
    LET l == ledger[w]
    IN /\ \A k \in DOMAIN l : Follows(l[k], IF k = 1 THEN 0 ELSE l[k - 1].after)
       /\ wallets[w] = Null => l = << >>
       /\ wallets[w] # Null =>
            wallets[w].balance = IF l = << >> THEN 0 ELSE l[Len(l)].after

\* Reconcile never reports a divergence (Consistent is always TRUE) for a
\* wallet whose totals fit in a BIGINT.
ReconcileConsistent ==
  \A w \in Wallets :
    wallets[w] # Null /\ Reconcile(w).ok => Reconcile(w).difference = 0

\* The balance changes of wallet w that were announced.
Changes(w) ==
  {n \in DOMAIN outbox : outbox[n].type = "BalanceChanged" /\ txs[outbox[n].tx].cmd.wallet = w}

\* The entry an event stands for: the wallet's version is that of its last.
EntryOf(w, n) == Len(ledger[w]) - (wallets[w].version - outbox[n].version)

\* The events of a wallet's balance changes carry consecutive walletVersions
\* in commit order and describe its entries one by one, and the wallet's own
\* version is the last of them (a wallet opened with a balance starts with
\* an event, one opened empty starts at version 1 without).
VersionsContiguous ==
  \A w \in Wallets : wallets[w] # Null =>
    /\ \A n \in Changes(w) : /\ EntryOf(w, n) \in DOMAIN ledger[w]
                             /\ ledger[w][EntryOf(w, n)].tx = outbox[n].tx
    /\ \A k \in DOMAIN ledger[w] : \E n \in Changes(w) : EntryOf(w, n) = k
    /\ \A n, m \in Changes(w) : n < m => EntryOf(w, n) < EntryOf(w, m)

-----------------------------------------------------------------------------
(* Exactly one effect *)

\* The entries of transaction i, as << wallet, seq >>.
Entries(i) == UNION { {w} \X {k \in DOMAIN ledger[w] : ledger[w][k].tx = i} : w \in Wallets }

Added(type, i) == Cardinality({n \in DOMAIN outbox : outbox[n].type = type /\ outbox[n].tx = i})

\* However often an operation is submitted, over HTTP and SQS at once, it has
\* one row, and the row has the one effect its status says: a ledger entry iff
\* it was processed and moves money, one event of its final status, and one
\* PendingReference event iff it was ever parked.
EffectOnce ==
  /\ \A i, j \in DOMAIN txs :
       i # j /\ txs[i].cmd.provider # Null /\ txs[i].cmd.provider = txs[j].cmd.provider
       => txs[i].cmd.key # txs[j].cmd.key /\ txs[i].cmd.ext # txs[j].cmd.ext
  /\ \A i \in DOMAIN txs :
       LET t == txs[i]
           moves == IF t.status = "PROCESSED" /\ t.cmd.kind # "LOSS" THEN 1 ELSE 0
       IN /\ Cardinality(Entries(i)) = moves
          /\ \A e \in Entries(i) : e[1] = t.cmd.wallet
          /\ Added("BalanceChanged", i) = moves
          /\ Added("Processed", i) = IF t.status = "PROCESSED" THEN 1 ELSE 0
          /\ Added("Rejected", i) = IF t.status = "REJECTED" THEN 1 ELSE 0
          /\ Added("PendingReference", i) = IF t.attempts > 0 THEN 1 ELSE 0

\* A bet, win or refund is undone at most once, by a refund or a rollback,
\* whatever reversals race for it and however late they resolve.
ReversedOnce ==
  LET undoes(i) == txs[i].status = "PROCESSED" /\ txs[i].cmd.kind \in {"REFUND", "ROLLBACK"}
  IN \A i, j \in DOMAIN txs :
       undoes(i) /\ undoes(j) /\ txs[i].refTx = txs[j].refTx => i = j

\* A processed reversal undoes what it names: its reference is a processed
\* transaction of the same wallet, player and round, its entry is the exact
\* opposite of the reference's.
ReversalSound ==
  \A i \in DOMAIN txs :
    LET t == txs[i]
        r == txs[t.refTx]
        w == t.cmd.wallet
    IN t.status = "PROCESSED" /\ t.cmd.kind \in ReversalKinds =>
         /\ t.refTx \in DOMAIN txs
         /\ r.status = "PROCESSED" /\ r.cmd.ext = t.cmd.ref
         /\ r.cmd.round = t.cmd.round /\ r.cmd.player = t.cmd.player
         /\ \E k, l \in DOMAIN ledger[w] :
              /\ k < l /\ ledger[w][k].tx = t.refTx /\ ledger[w][l].tx = i
              /\ ledger[w][k].amount = ledger[w][l].amount
              /\ ledger[w][k].dir # ledger[w][l].dir

-----------------------------------------------------------------------------
(* Locking *)

\* What a session has in memory at each statement.
SessionShape ==
  \A s \in Sessions :
    /\ pc[s] # "idle" => tx[s] \in Transaction
    /\ pc[s] \in Locked => row[s] \in WalletRow
    /\ pc[s] \notin {"persist", "commit"} => entry[s] = Null

\* Two sessions never hold the same wallet.
Exclusive ==
  \A s, q \in Sessions, w \in Wallets : Holds(s, w) /\ Holds(q, w) => s = q

\* The copy of a wallet a session works on under the lock is the committed row,
\* or what one movement made of it.
FreshCopy ==
  \A s \in Sessions : pc[s] \in Locked =>
    LET w == wallets[Cmd(s).wallet]
    IN /\ w # Null
       /\ entry[s] = Null => row[s] = w
       /\ entry[s] # Null => /\ Follows(entry[s], w.balance)
                             /\ row[s].balance = entry[s].after
                             /\ row[s].version = w.version + 1

\* Between GetForUpdate and the end of the transaction nobody else changes the
\* wallet, so what apply computed from it still holds when it is written.
WalletLockHolds == SessionShape /\ Exclusive /\ FreshCopy

\* The wallet lock alone makes the rules safe: a session that is about to
\* write never meets another version of its wallet, never meets another
\* reversal of its reference, and a unique violation is only ever lost to an
\* operation on another wallet.
BackstopsIdle ==
  \A s \in Sessions : pc[s] = "persist" =>
    /\ ~ConcurrentModification(s)
    /\ \A i \in DOMAIN txs : i # claim[s] /\ Clash(s, txs[i]) =>
         /\ ~SameReversal(tx[s], txs[i])
         /\ txs[i].cmd.wallet # Cmd(s).wallet
    /\ \A q \in Sessions : BlockedBy(s, q) => Cmd(q).wallet # Cmd(s).wallet

\* The one retry of Process is enough: the second run ends in its lookups,
\* so CONCURRENT_UPDATE never reaches an HTTP caller.
RetrySettles == \A s \in Sessions : again[s] => pc[s] \in {"key1", "ext1"}

\* s waits for a lock or an index entry of q.
WaitsFor(s, q) ==
  /\ s # q
  /\ \/ pc[s] = "inbox" /\ q \in Consumers /\ RecordsInbox(q) /\ msg[q].id = msg[s].id
     \/ pc[s] = "lock" /\ Holds(q, Cmd(s).wallet)
     \/ pc[s] = "persist" /\ BlockedBy(s, q)

\* No set of sessions waits on itself: inbox rows, claimed rows, wallet locks
\* and index entries are always taken in this order.
NoWaitCycle ==
  \A S \in (SUBSET Sessions) \ {{}} : \E s \in S : \A q \in S : ~WaitsFor(s, q)

-----------------------------------------------------------------------------
(* Retries *)

\* While an operation is parked, the delay of its attempt and of every later
\* one doubles up to its limit: never nothing, never negative, never shorter
\* than the one before, whatever base and limit are configured, as long as the
\* limit is at most half of what a duration can hold.  With the defaults the
\* service gives up after about five minutes (ARCHITECTURE.md:88); with 2 s
\* and 5 min the loop is that of a message's visibility.
BackoffSound ==
  \A i \in DOMAIN txs : txs[i].status = "PENDING_REFERENCE" =>
    txs[i].attempts .. LastAttempt \subseteq RightAttempts /\ AsDocumented

-----------------------------------------------------------------------------
(* Answers *)

Conflicts == {"IDEMPOTENCY_KEY_CONFLICT", "EXTERNAL_TRANSACTION_ID_CONFLICT"}

\* Refused before any rule was applied: the balance the caller is told is that
\* of a wallet which is not its player's, or not in its currency.
WrongWallet == {"WALLET_PLAYER_MISMATCH", "CURRENCY_MISMATCH"}

\* The row u, as every replay will show it, is the outcome r that was told, to
\* the last field; only the balance of a wallet in another currency comes
\* back with its number and the currency of the transaction.
ReplaysAs(r, u) ==
  \/ u = r
  \/ /\ r.code \in WrongWallet /\ r.balance.currency # r.cmd.currency
     /\ u = [r EXCEPT !.balance.currency = r.cmd.currency]

\* A caller that was told an outcome can rely on it: the row it was told is
\* committed, a final outcome with its balance is what replays show for ever
\* (but for the currency of a balance on the wrong wallet), and a command that
\* was accepted is never refused as a conflict with itself.
AnswersHold ==
  \A s \in Callers : answer[s] # Null =>
    LET a == answer[s]
        rows == {i \in DOMAIN txs : txs[i].cmd = a.cmd}
    IN /\ a.code = "OK" =>
            \E i \in rows : IF a.row.status \in Terminal
                            THEN ReplaysAs(a.row, txs[i])
                            ELSE a.row.attempts <= txs[i].attempts
       /\ a.code \in Conflicts => rows = {}

\* "The observed balance is kept so that replays return what the provider saw
\* originally" (transaction.go:374): two callers that were told the final
\* outcome of one operation were told the same.
ReplaysAgree ==
  \A s, q \in Callers :
    LET a == answer[s]
        b == answer[q]
    IN /\ a # Null /\ b # Null
       /\ a.cmd = b.cmd /\ a.code = "OK" /\ b.code = "OK"
       /\ a.row.status \in Terminal /\ b.row.status \in Terminal
       => a.row = b.row

\* An inbox row exists only for a message whose operation is committed, once
\* per message id: deleting the message from the queue loses nothing.
InboxImpliesHandled ==
  /\ \A m \in inbox : \E i \in DOMAIN txs : txs[i].cmd = m.cmd
  /\ \A m, n \in inbox : m.id = n.id => m = n

-----------------------------------------------------------------------------
(* What a step may never do *)

\* A parked row t changes by being decided, or by one more of its attempts.
GoesOn(t, u) ==
  /\ t.status = "PENDING_REFERENCE" /\ u.cmd = t.cmd
  /\ \/ u.status \in Terminal /\ u.attempts = t.attempts
     \/ u.status = t.status /\ u.attempts = t.attempts + 1 /\ u.attempts <= MaxAttempts

\* Without the triggers' help: a terminal row never changes, a pending row
\* keeps its command and changes at most MaxAttempts times, whichever workers
\* compete for it, and a ledger only grows.
HistoryFrozen ==
  [][ /\ \A i \in DOMAIN txs :
           i \in DOMAIN txs' /\ (txs'[i] # txs[i] => GoesOn(txs[i], txs'[i]))
      /\ \A w \in Wallets : \A k \in DOMAIN ledger[w] :
           k \in DOMAIN ledger'[w] /\ ledger'[w][k] = ledger[w][k] ]_vars

\* A transaction is rejected as REFERENCE_NOT_FOUND only after all its
\* attempts, and only if no processed transaction of its own wallet bears the
\* external id it names at the moment the rejection commits.
NotFoundIsTrue ==
  [][ \A i \in DOMAIN txs' :
        txs'[i].code = "REFERENCE_NOT_FOUND" /\ (i \in DOMAIN txs => txs[i].status \notin Terminal)
        => /\ txs'[i].attempts = MaxAttempts
           /\ \A j \in DOMAIN txs : 
                /\ txs[j].cmd.provider = txs'[i].cmd.provider
                /\ txs[j].cmd.ext = txs'[i].cmd.ref
                /\ txs[j].cmd.wallet = txs'[i].cmd.wallet
                => txs[j].status # "PROCESSED" ]_vars

-----------------------------------------------------------------------------
(* Atomicity *)

Atomic == INSTANCE WagerAtomic WITH
            Requests <- Commands, Deliveries <- Messages, AtomicOpenings <- Openings

\* However the statements of requests, messages and worker passes interleave,
\* all tables change as if every operation ran alone at the moment it commits,
\* with its entry, its events and its message's inbox row (the promise of the
\* wallet lock in ProcessIn and of UnitOfWork).
ActsAtomically == Atomic!AtomicSpec

-----------------------------------------------------------------------------
(* Progress *)

\* PostgreSQL grants row locks in the order of the waiters and a statement
\* ends, so a session that can go on again and again goes on; the worker's
\* timer fires again after every pass (workers/outbox.go loop).
Fairness ==
  /\ \A s \in Sessions : SF_vars(Advance(s))
  /\ \A s \in Resolvers : WF_vars(\E i \in DOMAIN txs : ClaimDuePendingReference(s, i))

FairSpec == Spec /\ Fairness

\* Every request, message and worker pass that began ends.
SessionsFinish == \A s \in Sessions : pc[s] # "idle" ~> pc[s] = "idle"

HasStatus(c, S) == \E i \in DOMAIN txs : txs[i].cmd = c /\ txs[i].status \in S

\* A parked transaction becomes PROCESSED or REJECTED (ARCHITECTURE.md: the
\* worker gives up after PENDING_MAX_ATTEMPTS).
PendingResolves ==
  \A c \in Commands : HasStatus(c, {"PENDING_REFERENCE"}) ~> HasStatus(c, Terminal)

=============================================================================
