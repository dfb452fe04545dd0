------------------------------- MODULE Wager -------------------------------
(***************************************************************************)
(* The domain: the rules of internal/domain/wagering and                   *)
(* internal/domain/wallet that internal/app/process.go applies to one      *)
(* transaction and one locked wallet, as operators without state.          *)
(*                                                                         *)
(* A command is a provider operation with its idempotency key.  gameId is  *)
(* left out: it only enters the payload hash, where any other field stands *)
(* for it.  Timestamps are left out except next_reference_retry_at, which  *)
(* orders the pending worker's queue.  Null stands for SQL NULL and for    *)
(* the empty optional strings.                                             *)
(***************************************************************************)
EXTENDS Money, Sequences

CONSTANTS
  Wallets,          \* wallet ids
  Players,          \* player ids
  Currencies,       \* ISO codes
  Providers,        \* provider ids
  Keys,             \* idempotency keys
  ExternalIds,      \* the providers' transaction ids
  Rounds,           \* game rounds
  Null,             \* SQL NULL, "" and nil
  MaxAttempts,      \* PENDING_MAX_ATTEMPTS
  RetryTimes        \* the instants next_reference_retry_at can take

ASSUME MaxAttemptsAssumption == MaxAttempts \in Nat \ {0}

ASSUME RetryTimesAssumption == RetryTimes \subseteq Nat /\ RetryTimes # {}

ReversalKinds == {"REFUND", "ROLLBACK"}
ExternalKinds == {"BET", "WIN", "LOSS"} \cup ReversalKinds
Kinds == {"OPENING"} \cup ExternalKinds

Terminal == {"PROCESSED", "REJECTED", "FAILED"}
Statuses == {"PENDING", "PENDING_REFERENCE"} \cup Terminal

FailureCodes ==
  { "INSUFFICIENT_FUNDS", "REVERSAL_INSUFFICIENT_FUNDS", "REFERENCE_NOT_FOUND",
    "REFERENCE_NOT_PROCESSED", "REFERENCE_KIND_MISMATCH", "REFERENCE_MISMATCH",
    "REFERENCE_AMOUNT_MISMATCH", "REFERENCE_ALREADY_REVERSED",
    "WALLET_PLAYER_MISMATCH", "CURRENCY_MISMATCH" }

ASSUME NullAssumption ==
  /\ Null \notin Int
  /\ Null \notin Wallets \cup Players \cup Currencies \cup Providers
  /\ Null \notin Keys \cup ExternalIds \cup Rounds \cup FailureCodes

Optional(S) == S \cup {Null}

Command ==
  [ provider : Optional(Providers), key : Optional(Keys), ext : Optional(ExternalIds),
    wallet : Wallets, player : Players, round : Optional(Rounds), kind : Kinds,
    amount : Nat, currency : Currencies, ref : Optional(ExternalIds) ]

\* money.Money of the result: minor units labelled with a currency.
Balance == [minor : 0 .. MaxMinor, currency : Currencies]

\* The aggregate wagering.Transaction and its row in wager_transactions.
Transaction ==
  [ cmd : Command, status : Statuses, code : Optional(FailureCodes),
    balance : Optional(Balance), refTx : Nat, attempts : Nat,
    next : Optional(RetryTimes) ]

WalletRow ==
  [player : Players, currency : Currencies, balance : 0 .. MaxMinor, version : Nat]

\* wallet.LedgerEntry before it is stored; a stored row adds its transaction.
Entry == [dir : {"DEBIT", "CREDIT"}, amount : Nat, before : Nat, after : Nat]

ASSUME NullRowsAssumption == Null \notin WalletRow \cup Entry \cup Transaction

-----------------------------------------------------------------------------
(* Requests *)

\* NewExternalRequest: the zero-value policy and the reference policy.
ValidRequest(c) ==
  /\ c.kind \in ExternalKinds
  /\ IF c.kind = "LOSS" THEN c.amount = 0 ELSE c.amount > 0
  /\ c.kind \in ReversalKinds => c.ref # Null
  /\ c.kind \in {"BET", "LOSS"} => c.ref = Null
  /\ c.ref # c.ext

\* PayloadHash covers the business fields and not the idempotency key.
PayloadHash(c) == [c EXCEPT !.key = Null]

NewExternal(c) ==
  [ cmd |-> c, status |-> "PENDING", code |-> Null, balance |-> Null,
    refTx |-> 0, attempts |-> 0, next |-> Null ]

\* NewOpening: an internal transaction has no provider metadata.
NewOpening(w, player, currency, amount) ==
  NewExternal([ provider |-> Null, key |-> Null, ext |-> Null, wallet |-> w,
                player |-> player, round |-> Null, kind |-> "OPENING",
                amount |-> amount, currency |-> currency, ref |-> Null ])

-----------------------------------------------------------------------------
(* Transitions of the aggregate *)

MarkProcessed(t, minor, currency) ==
  [t EXCEPT !.status = "PROCESSED", !.code = Null, !.next = Null,
            !.balance = [minor |-> minor, currency |-> currency]]

\* The observed balance is kept in the currency of the wallet.
MarkRejected(t, w, code) ==
  [t EXCEPT !.status = "REJECTED", !.code = code, !.next = Null,
            !.balance = [minor |-> w.balance, currency |-> w.currency]]

\* Mutant of AwaitReference: the attempt is not counted.
AwaitReferenceUncounted(t, at) ==
  [t EXCEPT !.status = "PENDING_REFERENCE", !.next = at]

AwaitReference(t, at) ==
  [t EXCEPT !.status = "PENDING_REFERENCE", !.attempts = @ + 1, !.next = at]

\* Insert or Update followed by a scan: result_balance_minor has no currency
\* column, so a row read back labels it with the transaction's own currency.
Stored(t) ==
  IF t.balance = Null THEN t ELSE [t EXCEPT !.balance.currency = t.cmd.currency]

-----------------------------------------------------------------------------
(* Outcomes: what apply leaves in memory: the transaction, the wallet, the *)
(* ledger entry if the balance moved, and whether it returned an error.    *)

Outcome(t, w, e) == [tx |-> t, row |-> w, entry |-> e, error |-> FALSE]

Rejected(t, w, code) == Outcome(MarkRejected(t, w, code), w, Null)

\* Mutant of Moved: Wallet.apply only advances the version.
MovedVersionOnly(t, w, dir, after) ==
  Outcome(MarkProcessed(t, after, w.currency),
          [w EXCEPT !.version = @ + 1],
          [dir |-> dir, amount |-> t.cmd.amount, before |-> w.balance, after |-> after])

\* Wallet.apply: the new balance and the next version.
Moved(t, w, dir, after) ==
  Outcome(MarkProcessed(t, after, w.currency),
          [w EXCEPT !.balance = after, !.version = @ + 1],
          [dir |-> dir, amount |-> t.cmd.amount, before |-> w.balance, after |-> after])

\* money.ErrOverflow leaves apply as an error: the SQL transaction rolls back.
Failed(t, w) == [Outcome(t, w, Null) EXCEPT !.error = TRUE]

Credit(t, w) ==
  IF AddOverflows(w.balance, t.cmd.amount)
  THEN Failed(t, w)
  ELSE Moved(t, w, "CREDIT", w.balance + t.cmd.amount)

\* Mutant of Debit: no test for a negative balance.
DebitUnchecked(t, w, code) == Moved(t, w, "DEBIT", w.balance - t.cmd.amount)

Debit(t, w, code) ==
  IF w.balance - t.cmd.amount < 0
  THEN Rejected(t, w, code)
  ELSE Moved(t, w, "DEBIT", w.balance - t.cmd.amount)

\* Mutant of Park: gives up one attempt early.
ParkEarly(t, w, at) ==
  IF t.attempts + 1 >= MaxAttempts
  THEN Rejected(t, w, "REFERENCE_NOT_FOUND")
  ELSE Outcome(AwaitReference(t, at), w, Null)

\* park: another attempt, or REFERENCE_NOT_FOUND when they are exhausted.
Park(t, w, at) ==
  IF t.attempts >= MaxAttempts
  THEN Rejected(t, w, "REFERENCE_NOT_FOUND")
  ELSE Outcome(AwaitReference(t, at), w, Null)

-----------------------------------------------------------------------------
(* apply *)

MatchesWallet(t, w) == w.player = t.cmd.player /\ w.currency = t.cmd.currency

NeedsReference(t) ==
  \/ t.cmd.kind \in ReversalKinds
  \/ t.cmd.kind = "WIN" /\ t.cmd.ref # Null

\* The paths of apply that read no other transaction.
ApplyAlone(t, w) ==
  CASE w.player # t.cmd.player     -> Rejected(t, w, "WALLET_PLAYER_MISMATCH")
    [] w.player = t.cmd.player /\ w.currency # t.cmd.currency
                                   -> Rejected(t, w, "CURRENCY_MISMATCH")
    [] MatchesWallet(t, w) /\ t.cmd.kind = "BET"
                                   -> Debit(t, w, "INSUFFICIENT_FUNDS")
    [] MatchesWallet(t, w) /\ t.cmd.kind = "LOSS"
                                   -> Outcome(MarkProcessed(t, w.balance, w.currency), w, Null)
    [] MatchesWallet(t, w) /\ t.cmd.kind = "WIN"
                                   -> Credit(t, w)
    [] OTHER                       -> Failed(t, w)

AllowedReference(kind, refKind) ==
  IF kind = "ROLLBACK" THEN refKind \in {"BET", "WIN", "REFUND"} ELSE refKind = "BET"

\* Mutant of SameContext: the round is not compared.
SameContextAnyRound(t, r) ==
  /\ r.cmd.player = t.cmd.player /\ r.cmd.wallet = t.cmd.wallet
  /\ r.cmd.currency = t.cmd.currency

SameContext(t, r) ==
  /\ r.cmd.player = t.cmd.player /\ r.cmd.wallet = t.cmd.wallet
  /\ r.cmd.round = t.cmd.round /\ r.cmd.currency = t.cmd.currency

\* resolveReferenceTx, from the reference r that was found: the code it
\* rejects with, or Null.
ReferenceFailure(t, r) ==
  IF r.status # "PROCESSED" THEN "REFERENCE_NOT_PROCESSED"
  ELSE IF ~AllowedReference(t.cmd.kind, r.cmd.kind) THEN "REFERENCE_KIND_MISMATCH"
  ELSE IF ~SameContext(t, r) THEN "REFERENCE_MISMATCH"
  ELSE IF t.cmd.kind \in ReversalKinds /\ r.cmd.amount # t.cmd.amount
       THEN "REFERENCE_AMOUNT_MISMATCH"
  ELSE Null

\* Mutant of IsProcessedReversal: only refunds count.
IsProcessedRefund(t, id) ==
  t.refTx = id /\ t.status = "PROCESSED" /\ t.cmd.kind = "REFUND"

\* The predicate of HasProcessedReversal and of the partial unique index
\* wager_transactions_single_reversal.
IsProcessedReversal(t, id) ==
  t.refTx = id /\ t.status = "PROCESSED" /\ t.cmd.kind \in ReversalKinds

\* ResolveReference.
Resolved(t, id) == [t EXCEPT !.refTx = id]

\* The movement of a transaction whose reference was accepted.
ApplyResolved(t, w, refKind) ==
  IF t.cmd.kind = "ROLLBACK" /\ refKind # "BET"
  THEN Debit(t, w, "REVERSAL_INSUFFICIENT_FUNDS")
  ELSE Credit(t, w)

-----------------------------------------------------------------------------
(* Integration events, in the order persistOutcome adds them.  version is  *)
(* walletVersion of WalletBalanceChanged and 0 in the others.              *)

Event == [type : {"Processed", "Rejected", "PendingReference", "BalanceChanged"},
          tx : Nat, version : Nat]

\* Mutant of BalanceChanged: the expected version instead of the new one.
BalanceChangedStale(id, version) ==
  [type |-> "BalanceChanged", tx |-> id, version |-> version - 1]

BalanceChanged(id, version) == [type |-> "BalanceChanged", tx |-> id, version |-> version]
ProcessedEvent(id)          == [type |-> "Processed", tx |-> id, version |-> 0]
RejectedEvent(id)           == [type |-> "Rejected", tx |-> id, version |-> 0]
PendingReferenceEvent(id)   == [type |-> "PendingReference", tx |-> id, version |-> 0]

EventsOf(t, id, e, version) ==
  CASE t.status = "PROCESSED" /\ e # Null ->
         << BalanceChanged(id, version), ProcessedEvent(id) >>
    [] t.status = "PROCESSED" /\ e = Null -> << ProcessedEvent(id) >>
    [] t.status = "REJECTED" -> << RejectedEvent(id) >>
    [] t.status = "PENDING_REFERENCE" /\ t.attempts = 1 -> << PendingReferenceEvent(id) >>
    [] OTHER -> << >>

=============================================================================
