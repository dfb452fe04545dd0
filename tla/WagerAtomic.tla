---------------------------- MODULE WagerAtomic -----------------------------
(***************************************************************************)
(* What the service promises, without sessions, statements or locks: an    *)
(* operation is executed as a whole, alone, at the moment it commits, and  *)
(* a message is recorded in that same moment or not at all.  The tables    *)
(* are those of WagerService.                                              *)
(***************************************************************************)
EXTENDS Wager

CONSTANTS
  Requests,         \* the commands that come over HTTP
  Deliveries,       \* [id, cmd]: the messages of the command queue
  AtomicOpenings    \* [wallet, player, currency, amount]

VARIABLES wallets, txs, ledger, outbox, inbox

atomicVars == << wallets, txs, ledger, outbox, inbox >>

References(t) ==
  {i \in DOMAIN txs : txs[i].cmd.provider = t.cmd.provider /\ txs[i].cmd.ext = t.cmd.ref}

\* What executing t on wallet w may lead to.  A reference is seen as it is,
\* except that one on another wallet may be seen late.
Outcomes(t, w) ==
  IF ~(MatchesWallet(t, w) /\ NeedsReference(t))
  THEN {ApplyAlone(t, w)}
  ELSE {Park(t, w, at) : at \in
          {a \in RetryTimes : \A i \in References(t) :
              txs[i].status \notin Terminal \/ txs[i].cmd.wallet # t.cmd.wallet}}
       \cup {Rejected(t, w, ReferenceFailure(t, txs[i])) : i \in
          {j \in References(t) : txs[j].status \in Terminal /\ ReferenceFailure(t, txs[j]) # Null}}
       \cup {IF t.cmd.kind \in ReversalKinds /\ \E j \in DOMAIN txs : IsProcessedReversal(txs[j], i)
             THEN Rejected(t, w, "REFERENCE_ALREADY_REVERSED")
             ELSE ApplyResolved(Resolved(t, i), w, txs[i].cmd.kind) : i \in
          {j \in References(t) : txs[j].status \in Terminal /\ ReferenceFailure(t, txs[j]) = Null}}

\* What operation i leaves behind when it ends as o: the wallet, an entry if
\* the balance moved, and its events.
Leaves(i, o) ==
  LET w == o.tx.cmd.wallet
  IN /\ wallets' = [wallets EXCEPT ![w] = o.row]
     /\ ledger' = IF o.entry = Null THEN ledger
                  ELSE [ledger EXCEPT ![w] = Append(@,
                          [tx |-> i, dir |-> o.entry.dir, amount |-> o.entry.amount,
                           before |-> o.entry.before, after |-> o.entry.after])]
     /\ outbox' = outbox \o EventsOf(o.tx, i, o.entry, o.row.version)

\* A wallet with a balance begins with an operation of its own.
Open(o) ==
  LET t == MarkProcessed(NewOpening(o.wallet, o.player, o.currency, o.amount), o.amount, o.currency)
      i == Len(txs) + 1
  IN /\ wallets[o.wallet] = Null
     /\ \A w \in Wallets : wallets[w] # Null =>
           << wallets[w].player, wallets[w].currency >> # << o.player, o.currency >>
     /\ wallets' = [wallets EXCEPT ![o.wallet] =
           [player |-> o.player, currency |-> o.currency, balance |-> o.amount, version |-> 1]]
     /\ IF o.amount = 0
        THEN UNCHANGED << txs, ledger, outbox >>
        ELSE /\ txs' = Append(txs, t)
             /\ ledger' = [ledger EXCEPT ![o.wallet] = Append(@,
                   [tx |-> i, dir |-> "CREDIT", amount |-> o.amount, before |-> 0, after |-> o.amount])]
             /\ outbox' = outbox \o << ProcessedEvent(i), BalanceChanged(i, 1) >>
     /\ UNCHANGED inbox

\* A new operation: nobody has used its key or its external id.
Execute(c) ==
  /\ ValidRequest(c)
  /\ \A i \in DOMAIN txs : txs[i].cmd.provider = c.provider =>
        txs[i].cmd.key # c.key /\ txs[i].cmd.ext # c.ext
  /\ wallets[c.wallet] # Null
  /\ \E o \in Outcomes(NewExternal(c), wallets[c.wallet]) :
       /\ ~o.error
       /\ txs' = Append(txs, Stored(o.tx))
       /\ Leaves(Len(txs) + 1, o)

\* A message nobody has recorded: its operation is executed, or was before.
Receive(m) ==
  /\ \A n \in inbox : n.id # m.id
  /\ inbox' = inbox \cup {m}
  /\ \/ Execute(m.cmd)
     \/ /\ \E i \in DOMAIN txs : txs[i].cmd = m.cmd
        /\ UNCHANGED << wallets, txs, ledger, outbox >>

\* Another attempt at a parked operation.
Resume(i) ==
  /\ txs[i].status = "PENDING_REFERENCE"
  /\ \E o \in Outcomes(txs[i], wallets[txs[i].cmd.wallet]) :
       /\ ~o.error
       /\ txs' = [txs EXCEPT ![i] = Stored(o.tx)]
       /\ Leaves(i, o)
  /\ UNCHANGED inbox

AtomicInit ==
  /\ wallets = [w \in Wallets |-> Null] /\ ledger = [w \in Wallets |-> << >>]
  /\ txs = << >> /\ outbox = << >> /\ inbox = {}

AtomicNext ==
  \/ \E o \in AtomicOpenings : Open(o)
  \/ \E c \in Requests : Execute(c) /\ UNCHANGED inbox
  \/ \E m \in Deliveries : Receive(m)
  \/ \E i \in DOMAIN txs : Resume(i)

AtomicSpec == AtomicInit /\ [][AtomicNext]_atomicVars

=============================================================================
