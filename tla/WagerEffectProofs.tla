------------------------- MODULE WagerEffectProofs --------------------------
(***************************************************************************)
(* What a committed operation of WagerService does, for every value of the *)
(* constants: the entries and events of a row, what a reversal undoes, the *)
(* versions of a wallet, and that the service implements WagerAtomic.      *)
(***************************************************************************)
EXTENDS WagerHistoryProofs, FiniteSetTheorems, WellFoundedInduction

USE DEF Optional

-----------------------------------------------------------------------------
(* The effect of one row *)

EventTypes == {"Processed", "Rejected", "PendingReference", "BalanceChanged"}

Moves(t) == t.status = "PROCESSED" /\ t.cmd.kind # "LOSS"

\* An event of this type is due for row t.
Tells(type, t) ==
  \/ type = "BalanceChanged" /\ Moves(t)
  \/ type = "Processed" /\ t.status = "PROCESSED"
  \/ type = "Rejected" /\ t.status = "REJECTED"
  \/ type = "PendingReference" /\ t.attempts > 0

\* What row i was already told for.
Told(T, i, type) == i \in DOMAIN T /\ Tells(type, T[i])

\* The entries of the ledger are those of the rows that move money.
LedgerOK ==
  /\ \A w \in Wallets : \A k \in DOMAIN ledger[w] :
       LET e == ledger[w][k]
           t == txs[e.tx]
       IN /\ e.tx \in DOMAIN txs /\ Moves(t) /\ t.cmd.wallet = w
          /\ e.amount = t.cmd.amount /\ e.dir = Direction(txs, t)
  /\ \A w \in Wallets : \A k, l \in DOMAIN ledger[w] : ledger[w][k].tx = ledger[w][l].tx => k = l
  /\ \A i \in DOMAIN txs : Moves(txs[i]) =>
       \E k \in DOMAIN ledger[txs[i].cmd.wallet] : ledger[txs[i].cmd.wallet][k].tx = i

\* The events of the outbox are those that are due for the rows.
EventsOK ==
  /\ \A n \in DOMAIN outbox : Told(txs, outbox[n].tx, outbox[n].type)
  /\ \A m, n \in DOMAIN outbox :
       outbox[m].type = outbox[n].type /\ outbox[m].tx = outbox[n].tx => m = n
  /\ \A i \in DOMAIN txs, type \in EventTypes : Tells(type, txs[i]) =>
       \E n \in DOMAIN outbox : outbox[n].type = type /\ outbox[n].tx = i

EffectInv == HistoryInv /\ LedgerOK /\ EventsOK /\ ReversalSound /\ VersionsContiguous

\* The step stores row i as t, with entry e if it moves money, and announces
\* what is new of it.
Stores(i, t, e, evs) ==
  /\ Adds(txs, txs', i, t) /\ i \in Nat /\ t \in Transaction /\ RowOK(txs, t)
  /\ \A w \in Wallets : IF Moves(t) /\ w = t.cmd.wallet
                        THEN /\ ledger'[w] = Append(ledger[w], e)
                             /\ wallets'[w] # Null
                             /\ wallets'[w].version =
                                  IF wallets[w] = Null THEN 1 ELSE wallets[w].version + 1
                        ELSE ledger'[w] = ledger[w] /\ wallets'[w] = wallets[w]
  /\ Moves(t) => /\ e \in LedgerRow /\ e.tx = i
                 /\ e.amount = t.cmd.amount /\ e.dir = Direction(txs, t)
  /\ outbox' = outbox \o evs /\ evs \in Seq(Event)
  /\ \A n \in DOMAIN evs : /\ evs[n].tx = i /\ Tells(evs[n].type, t) /\ ~Told(txs, i, evs[n].type)
                           /\ evs[n].type = "BalanceChanged" =>
                                evs[n].version = wallets'[t.cmd.wallet].version
  /\ \A m, n \in DOMAIN evs : evs[m].type = evs[n].type => m = n
  /\ \A type \in EventTypes : Tells(type, t) /\ ~Told(txs, i, type) =>
       \E n \in DOMAIN evs : evs[n].type = type
  /\ \A type \in EventTypes : Told(txs, i, type) => Tells(type, t)

\* The tables as sequences.
LEMMA TableShapes ==
  ASSUME TypeOK
  PROVE  /\ \A w \in Wallets : /\ ledger[w] \in Seq(LedgerRow) /\ Len(ledger[w]) \in Nat
                               /\ DOMAIN ledger[w] = 1 .. Len(ledger[w])
         /\ outbox \in Seq(Event) /\ Len(outbox) \in Nat /\ DOMAIN outbox = 1 .. Len(outbox)
         /\ \A n \in DOMAIN outbox : outbox[n] \in Event
         /\ \A w \in Wallets : wallets[w] # Null => wallets[w].version \in Nat
<1>1. \A w \in Wallets : /\ ledger[w] \in Seq(LedgerRow) /\ Len(ledger[w]) \in Nat
                         /\ DOMAIN ledger[w] = 1 .. Len(ledger[w])
  BY LenProperties DEF TypeOK, TablesOK
<1>2. /\ outbox \in Seq(Event) /\ Len(outbox) \in Nat /\ DOMAIN outbox = 1 .. Len(outbox)
      /\ \A n \in DOMAIN outbox : outbox[n] \in Event
  BY LenProperties DEF TypeOK, TablesOK
<1>3. \A w \in Wallets : wallets[w] # Null => wallets[w].version \in Nat
  BY DEF TypeOK, TablesOK, WalletRow
<1> QED
  BY <1>1, <1>2, <1>3

\* What is in the outbox after evs were added to it.
LEMMA EventsAdded ==
  ASSUME TypeOK, NEW evs \in Seq(Event), outbox' = outbox \o evs
  PROVE  /\ Len(evs) \in Nat /\ DOMAIN evs = 1 .. Len(evs)
         /\ \A n \in DOMAIN outbox : n \in DOMAIN outbox' /\ outbox'[n] = outbox[n]
         /\ \A n \in DOMAIN outbox' \ DOMAIN outbox :
              /\ n \in Nat /\ n > Len(outbox)
              /\ n - Len(outbox) \in DOMAIN evs /\ outbox'[n] = evs[n - Len(outbox)]
         /\ \A n \in DOMAIN evs : /\ Len(outbox) + n \in DOMAIN outbox' \ DOMAIN outbox
                                  /\ outbox'[Len(outbox) + n] = evs[n]
<1>1. outbox \in Seq(Event) /\ Len(outbox) \in Nat /\ DOMAIN outbox = 1 .. Len(outbox)
  BY TableShapes
<1>2. Len(evs) \in Nat /\ DOMAIN evs = 1 .. Len(evs)
  BY LenProperties
<1>3. /\ Len(outbox') = Len(outbox) + Len(evs) /\ DOMAIN outbox' = 1 .. Len(outbox')
      /\ \A n \in 1 .. Len(outbox) + Len(evs) :
           outbox'[n] = IF n <= Len(outbox) THEN outbox[n] ELSE evs[n - Len(outbox)]
  BY <1>1, ConcatProperties, LenProperties
<1> QED
  BY <1>1, <1>2, <1>3

\* What is in a ledger after one entry was added.
LEMMA EntryAdded ==
  ASSUME TypeOK, NEW w \in Wallets, NEW e \in LedgerRow, ledger'[w] = Append(ledger[w], e)
  PROVE  /\ Len(ledger[w]) \in Nat /\ DOMAIN ledger[w] = 1 .. Len(ledger[w])
         /\ Len(ledger'[w]) = Len(ledger[w]) + 1
         /\ DOMAIN ledger'[w] = DOMAIN ledger[w] \cup {Len(ledger[w]) + 1}
         /\ Len(ledger[w]) + 1 \notin DOMAIN ledger[w]
         /\ \A k \in DOMAIN ledger[w] : ledger'[w][k] = ledger[w][k]
         /\ ledger'[w][Len(ledger[w]) + 1] = e
<1>1. /\ ledger[w] \in Seq(LedgerRow) /\ Len(ledger[w]) \in Nat
      /\ DOMAIN ledger[w] = 1 .. Len(ledger[w])
  BY TableShapes
<1>2. /\ Len(ledger'[w]) = Len(ledger[w]) + 1 /\ DOMAIN ledger'[w] = 1 .. Len(ledger[w]) + 1
      /\ \A k \in 1 .. Len(ledger[w]) : ledger'[w][k] = ledger[w][k]
      /\ ledger'[w][Len(ledger[w]) + 1] = e
  BY <1>1, AppendProperties
<1> QED
  BY <1>1, <1>2

-----------------------------------------------------------------------------
(* A stored row keeps the invariant *)

LEMMA StoresEvents ==
  ASSUME EffectInv, NEW i, NEW t, NEW e, NEW evs, Stores(i, t, e, evs)
  PROVE  EventsOK'
<1>1. TypeOK /\ EventsOK /\ evs \in Seq(Event) /\ outbox' = outbox \o evs
  BY DEF EffectInv, HistoryInv, Inv, Stores
<1>2. /\ \A n \in DOMAIN outbox : n \in DOMAIN outbox' /\ outbox'[n] = outbox[n]
      /\ \A n \in DOMAIN outbox' \ DOMAIN outbox :
           /\ n \in Nat /\ n - Len(outbox) \in DOMAIN evs /\ outbox'[n] = evs[n - Len(outbox)]
      /\ \A n \in DOMAIN evs : /\ Len(outbox) + n \in DOMAIN outbox' \ DOMAIN outbox
                               /\ outbox'[Len(outbox) + n] = evs[n]
      /\ Len(outbox) \in Nat
  BY <1>1, EventsAdded, TableShapes
<1>3. \A n \in DOMAIN outbox' \ DOMAIN outbox :
        /\ outbox'[n].tx = i /\ Tells(outbox'[n].type, t) /\ ~Told(txs, i, outbox'[n].type)
  BY <1>2 DEF Stores
<1>4. \A n \in DOMAIN outbox : outbox[n].type \in EventTypes
  BY <1>1, TableShapes DEF Event, EventTypes
<1>5. /\ \A j : \A type \in EventTypes : Told(txs, j, type) => Told(txs', j, type)
      /\ i \in DOMAIN txs' /\ txs'[i] = t
  BY DEF Stores, Adds, Told
<1>6. ASSUME NEW n \in DOMAIN outbox' PROVE Told(txs', outbox'[n].tx, outbox'[n].type)
  <2>1. CASE n \in DOMAIN outbox
    BY <1>1, <1>2, <1>4, <1>5, <2>1 DEF EventsOK
  <2>2. CASE n \notin DOMAIN outbox
    BY <1>3, <1>5, <2>2 DEF Told
  <2> QED
    BY <2>1, <2>2
<1>7. ASSUME NEW m \in DOMAIN outbox', NEW n \in DOMAIN outbox',
             outbox'[m].type = outbox'[n].type, outbox'[m].tx = outbox'[n].tx
      PROVE  m = n
  <2>1. CASE m \in DOMAIN outbox /\ n \in DOMAIN outbox
    <3>1. outbox'[m] = outbox[m] /\ outbox'[n] = outbox[n]
      BY <1>2, <2>1
    <3>2. outbox[m].type = outbox[n].type /\ outbox[m].tx = outbox[n].tx
      BY <1>7, <3>1
    <3> QED
      BY <1>1, <2>1, <3>2 DEF EventsOK
  <2>2. CASE m \notin DOMAIN outbox /\ n \notin DOMAIN outbox
    <3>1. m - Len(outbox) = n - Len(outbox)
      BY <1>2, <1>7, <2>2 DEF Stores
    <3> QED
      BY <1>2, <2>2, <3>1
  <2>3. CASE (m \in DOMAIN outbox) # (n \in DOMAIN outbox)
    BY <1>1, <1>2, <1>3, <1>7, <2>3 DEF EventsOK
  <2> QED
    BY <2>1, <2>2, <2>3
<1>8. ASSUME NEW j \in DOMAIN txs', NEW type \in EventTypes, Tells(type, txs'[j])
      PROVE  \E n \in DOMAIN outbox' : outbox'[n].type = type /\ outbox'[n].tx = j
  <2>1. CASE Told(txs, j, type)
    BY <1>1, <1>2, <2>1 DEF EventsOK, Told
  <2>2. CASE ~Told(txs, j, type)
    <3>1. j = i /\ Tells(type, t)
      BY <1>8, <2>2 DEF Stores, Adds, Told
    <3>2. PICK n \in DOMAIN evs : evs[n].type = type
      BY <2>2, <3>1 DEF Stores
    <3> QED
      BY <1>2, <1>3, <3>1, <3>2
  <2> QED
    BY <2>1, <2>2
<1> QED
  BY <1>6, <1>7, <1>8 DEF EventsOK

\* The rows before and after the step: the one it stores was not processed.
LEMMA StoresRows ==
  ASSUME EffectInv, NEW i, NEW t, NEW e, NEW evs, Stores(i, t, e, evs)
  PROVE  /\ i \in DOMAIN txs' /\ txs'[i] = t
         /\ \A j \in DOMAIN txs' : j # i => j \in DOMAIN txs /\ txs'[j] = txs[j]
         /\ \A j \in DOMAIN txs : /\ j \in DOMAIN txs' /\ txs'[j].cmd = txs[j].cmd
                                  /\ txs[j].status = "PROCESSED" => j # i /\ txs'[j] = txs[j]
  BY DEF Stores, Adds, GoesOn

\* The direction of a row is settled once it moved money.
LEMMA DirectionKept ==
  ASSUME EffectInv, NEW i, NEW t, NEW e, NEW evs, Stores(i, t, e, evs),
         NEW u, u.status = "PROCESSED", RowOK(txs, u)
  PROVE  Direction(txs', u) = Direction(txs, u)
<1>1. CASE u.cmd.kind = "ROLLBACK"
  <2>1. u.refTx \in DOMAIN txs
    BY <1>1 DEF RowOK, ReversalKinds, Names, Referred
  <2> QED
    BY <1>1, <2>1, StoresRows DEF Direction
<1>2. CASE u.cmd.kind # "ROLLBACK"
  BY <1>2 DEF Direction
<1> QED
  BY <1>1, <1>2

\* The entries of every ledger before and after the step.
LEMMA StoresEntries ==
  ASSUME EffectInv, NEW i, NEW t, NEW e, NEW evs, Stores(i, t, e, evs), NEW w \in Wallets
  PROVE  /\ \A k \in DOMAIN ledger[w] : k \in DOMAIN ledger'[w] /\ ledger'[w][k] = ledger[w][k]
         /\ \A k \in DOMAIN ledger'[w] \ DOMAIN ledger[w] :
              /\ k = Len(ledger[w]) + 1 /\ ledger'[w][k] = e /\ Moves(t) /\ w = t.cmd.wallet
         /\ Moves(t) /\ w = t.cmd.wallet =>
              /\ Len(ledger[w]) + 1 \in DOMAIN ledger'[w] \ DOMAIN ledger[w]
              /\ ledger'[w][Len(ledger[w]) + 1] = e
<1>1. TypeOK
  BY DEF EffectInv, HistoryInv, Inv
<1>2. CASE Moves(t) /\ w = t.cmd.wallet
  <2>1. e \in LedgerRow /\ ledger'[w] = Append(ledger[w], e)
    BY <1>2 DEF Stores
  <2>2. /\ DOMAIN ledger'[w] = DOMAIN ledger[w] \cup {Len(ledger[w]) + 1}
        /\ Len(ledger[w]) + 1 \notin DOMAIN ledger[w]
        /\ \A k \in DOMAIN ledger[w] : ledger'[w][k] = ledger[w][k]
        /\ ledger'[w][Len(ledger[w]) + 1] = e
    BY <1>1, <2>1, EntryAdded
  <2> QED
    BY <1>2, <2>2
<1>3. CASE ~(Moves(t) /\ w = t.cmd.wallet)
  <2>1. ledger'[w] = ledger[w]
    BY <1>3 DEF Stores
  <2> QED
    BY <1>3, <2>1
<1> QED
  BY <1>2, <1>3

LEMMA StoresLedger ==
  ASSUME EffectInv, NEW i, NEW t, NEW e, NEW evs, Stores(i, t, e, evs)
  PROVE  LedgerOK'
<1>1. /\ TypeOK /\ RowsOK(txs) /\ LedgerOK /\ t.cmd.wallet \in Wallets
      /\ \A j \in DOMAIN txs : txs[j].cmd.wallet \in Wallets
  BY RowNumbers DEF EffectInv, HistoryInv, Inv, RowsInv, Stores, Transaction, Command
<1>2. /\ i \in DOMAIN txs' /\ txs'[i] = t
      /\ \A j \in DOMAIN txs' : j # i => j \in DOMAIN txs /\ txs'[j] = txs[j]
      /\ \A j \in DOMAIN txs : /\ j \in DOMAIN txs'
                               /\ Moves(txs[j]) => j # i /\ txs'[j] = txs[j]
  BY StoresRows DEF Moves
<1>3. Moves(t) => /\ e.tx = i /\ e.amount = t.cmd.amount /\ e.dir = Direction(txs, t)
                  /\ RowOK(txs, t)
  BY DEF Stores
<1>4. ASSUME NEW w \in Wallets, NEW k \in DOMAIN ledger'[w]
      PROVE  LET f == ledger'[w][k]
                 u == txs'[f.tx]
             IN /\ f.tx \in DOMAIN txs' /\ Moves(u) /\ u.cmd.wallet = w
                /\ f.amount = u.cmd.amount /\ f.dir = Direction(txs', u)
  <2>1. CASE k \in DOMAIN ledger[w]
    <3> DEFINE f == ledger[w][k]
               u == txs[f.tx]
    <3>1. /\ f.tx \in DOMAIN txs /\ Moves(u) /\ u.cmd.wallet = w
          /\ f.amount = u.cmd.amount /\ f.dir = Direction(txs, u)
      BY <1>1, <2>1 DEF LedgerOK
    <3>2. ledger'[w][k] = f /\ txs'[f.tx] = u /\ f.tx \in DOMAIN txs'
      BY <1>2, <2>1, <3>1, StoresEntries
    <3>3. Direction(txs', u) = Direction(txs, u)
      BY <1>1, <3>1, DirectionKept DEF RowsOK, Moves
    <3> QED
      BY <3>1, <3>2, <3>3
  <2>2. CASE k \notin DOMAIN ledger[w]
    <3>1. ledger'[w][k] = e /\ Moves(t) /\ w = t.cmd.wallet
      BY <2>2, StoresEntries
    <3>2. Direction(txs', t) = Direction(txs, t)
      BY <1>3, <3>1, DirectionKept DEF Moves
    <3> QED
      BY <1>2, <1>3, <3>1, <3>2
  <2> QED
    BY <2>1, <2>2
<1>5. ASSUME NEW w \in Wallets, NEW k \in DOMAIN ledger[w] PROVE ledger[w][k].tx # i
  BY <1>1, <1>2 DEF LedgerOK
<1>6. ASSUME NEW w \in Wallets, NEW k \in DOMAIN ledger'[w], NEW l \in DOMAIN ledger'[w],
             ledger'[w][k].tx = ledger'[w][l].tx
      PROVE  k = l
  <2>1. /\ k \in DOMAIN ledger[w] => ledger'[w][k] = ledger[w][k] /\ ledger[w][k].tx # i
        /\ l \in DOMAIN ledger[w] => ledger'[w][l] = ledger[w][l] /\ ledger[w][l].tx # i
        /\ k \notin DOMAIN ledger[w] => k = Len(ledger[w]) + 1 /\ ledger'[w][k].tx = i
        /\ l \notin DOMAIN ledger[w] => l = Len(ledger[w]) + 1 /\ ledger'[w][l].tx = i
    BY <1>3, <1>5, StoresEntries
  <2> QED
    BY <1>1, <1>6, <2>1 DEF LedgerOK
<1>7. ASSUME NEW j \in DOMAIN txs', Moves(txs'[j])
      PROVE  \E k \in DOMAIN ledger'[txs'[j].cmd.wallet] : ledger'[txs'[j].cmd.wallet][k].tx = j
  <2>1. CASE j = i
    BY <1>1, <1>2, <1>3, <1>7, <2>1, StoresEntries
  <2>2. CASE j # i
    <3>1. j \in DOMAIN txs /\ txs'[j] = txs[j] /\ txs[j].cmd.wallet \in Wallets
      BY <1>1, <1>2, <2>2
    <3>2. PICK k \in DOMAIN ledger[txs[j].cmd.wallet] : ledger[txs[j].cmd.wallet][k].tx = j
      BY <1>1, <1>7, <3>1 DEF LedgerOK
    <3> QED
      BY <3>1, <3>2, StoresEntries
  <2> QED
    BY <2>1, <2>2
<1> QED
  BY <1>4, <1>6, <1>7 DEF LedgerOK

\* A reversal that may be processed moves the same amount as its reference, the
\* other way.
LEMMA ReversalOpposes ==
  ASSUME NEW T, NEW t, NEW r, t.cmd.kind \in ReversalKinds, r = T[t.refTx],
         ReferenceFailure(t, r) = Null
  PROVE  /\ Moves(r) /\ r.status = "PROCESSED" /\ SameContext(t, r)
         /\ r.cmd.amount = t.cmd.amount /\ Direction(T, t) # Direction(T, r)
<1>1. /\ r.status = "PROCESSED" /\ AllowedReference(t.cmd.kind, r.cmd.kind) /\ SameContext(t, r)
      /\ r.cmd.amount = t.cmd.amount
  BY NullAssumption DEF ReferenceFailure, FailureCodes
<1> QED
  BY <1>1 DEF AllowedReference, Moves, Direction, ReversalKinds

\* Two entries that undo each other: first that of x, then that of y.
Mirrored(entries, x, y) ==
  \E k, l \in DOMAIN entries :
    /\ k < l /\ entries[k].tx = x /\ entries[l].tx = y
    /\ entries[k].amount = entries[l].amount
    /\ entries[k].dir # entries[l].dir

LEMMA StoresReversals ==
  ASSUME EffectInv, NEW i, NEW t, NEW e, NEW evs, Stores(i, t, e, evs)
  PROVE  ReversalSound'
<1>1. /\ TypeOK /\ RowsOK(txs) /\ LedgerOK /\ ReversalSound
      /\ RowOK(txs, t) /\ t.cmd.wallet \in Wallets
      /\ \A j \in DOMAIN txs : txs[j].cmd.wallet \in Wallets
  BY RowNumbers DEF EffectInv, HistoryInv, Inv, RowsInv, Stores, Transaction, Command
<1>2. /\ i \in DOMAIN txs' /\ txs'[i] = t
      /\ \A j \in DOMAIN txs' : j # i => j \in DOMAIN txs /\ txs'[j] = txs[j]
      /\ \A j \in DOMAIN txs : txs[j].status = "PROCESSED" => j \in DOMAIN txs' /\ txs'[j] = txs[j]
  BY StoresRows
<1>3. ASSUME NEW j \in DOMAIN txs', txs'[j].status = "PROCESSED", txs'[j].cmd.kind \in ReversalKinds
      PROVE  LET u == txs'[j]
                 r == txs'[u.refTx]
                 w == u.cmd.wallet
             IN /\ u.refTx \in DOMAIN txs'
                /\ r.status = "PROCESSED" /\ r.cmd.ext = u.cmd.ref
                /\ r.cmd.round = u.cmd.round /\ r.cmd.player = u.cmd.player
                /\ \E k, l \in DOMAIN ledger'[w] :
                     /\ k < l /\ ledger'[w][k].tx = u.refTx /\ ledger'[w][l].tx = j
                     /\ ledger'[w][k].amount = ledger'[w][l].amount
                     /\ ledger'[w][k].dir # ledger'[w][l].dir
  <2>1. CASE j = i
    <3> DEFINE r == txs[t.refTx]
               w == t.cmd.wallet
    <3>1. Names(txs, t, t.refTx) /\ Moves(t) /\ t.cmd.kind \in ReversalKinds
      BY <1>1, <1>2, <1>3, <2>1 DEF RowOK, Moves, ReversalKinds
    <3>2. t.refTx \in DOMAIN txs /\ r.cmd.ext = t.cmd.ref /\ ReferenceFailure(t, r) = Null
      BY <3>1 DEF Names, Referred
    <3>3. /\ Moves(r) /\ r.status = "PROCESSED" /\ r.cmd.amount = t.cmd.amount
          /\ r.cmd.wallet = w /\ r.cmd.round = t.cmd.round /\ r.cmd.player = t.cmd.player
          /\ Direction(txs, t) # Direction(txs, r)
      BY <3>1, <3>2, ReversalOpposes DEF SameContext
    <3>4. PICK k \in DOMAIN ledger[w] : ledger[w][k].tx = t.refTx
      BY <1>1, <3>2, <3>3 DEF LedgerOK
    <3>5. ledger[w][k].amount = r.cmd.amount /\ ledger[w][k].dir = Direction(txs, r)
      BY <1>1, <3>4 DEF LedgerOK
    <3>6. /\ k \in DOMAIN ledger'[w] /\ ledger'[w][k] = ledger[w][k]
          /\ Len(ledger[w]) + 1 \in DOMAIN ledger'[w]
          /\ ledger'[w][Len(ledger[w]) + 1] = e
      BY <1>1, <3>1, <3>4, StoresEntries
    <3>7. e.tx = i /\ e.amount = t.cmd.amount /\ e.dir = Direction(txs, t)
      BY <3>1 DEF Stores
    <3>8. k < Len(ledger[w]) + 1
      BY <1>1, <3>4, TableShapes
    <3>9. txs'[t.refTx] = r /\ t.refTx \in DOMAIN txs'
      BY <1>2, <3>2, <3>3
    <3>10. Mirrored(ledger'[w], t.refTx, i)
      <4> DEFINE n == Len(ledger[w]) + 1
      <4>1. k \in DOMAIN ledger'[w] /\ n \in DOMAIN ledger'[w] /\ k < n
        BY <3>6, <3>8
      <4>2. ledger'[w][k].tx = t.refTx /\ ledger'[w][n].tx = i
        BY <3>4, <3>6, <3>7
      <4>3. ledger'[w][k].amount = ledger'[w][n].amount
        BY <3>3, <3>5, <3>6, <3>7
      <4>4. ledger'[w][k].dir # ledger'[w][n].dir
        BY <3>3, <3>5, <3>6, <3>7
      <4> HIDE DEF n, w
      <4> QED
        BY <4>1, <4>2, <4>3, <4>4, Zenon DEF Mirrored
    <3>11. txs'[j] = t /\ j = i /\ w = t.cmd.wallet
      BY <1>2, <2>1
    <3>12. /\ r.status = "PROCESSED" /\ r.cmd.ext = t.cmd.ref
           /\ r.cmd.round = t.cmd.round /\ r.cmd.player = t.cmd.player
      BY <3>2, <3>3
    <3> HIDE DEF r, w
    <3>13. Mirrored(ledger'[txs'[j].cmd.wallet], txs'[j].refTx, j)
      BY <3>10, <3>11
    <3>14. /\ txs'[j].refTx \in DOMAIN txs'
           /\ txs'[txs'[j].refTx].status = "PROCESSED"
           /\ txs'[txs'[j].refTx].cmd.ext = txs'[j].cmd.ref
           /\ txs'[txs'[j].refTx].cmd.round = txs'[j].cmd.round
           /\ txs'[txs'[j].refTx].cmd.player = txs'[j].cmd.player
      BY <3>9, <3>11, <3>12
    <3> QED
      BY <3>13, <3>14, Zenon DEF Mirrored
  <2>2. CASE j # i
    <3> DEFINE u == txs[j]
               r == txs[u.refTx]
               w == u.cmd.wallet
    <3>1. j \in DOMAIN txs /\ txs'[j] = u /\ w \in Wallets
      BY <1>1, <1>2, <2>2
    <3>2. /\ u.refTx \in DOMAIN txs
          /\ r.status = "PROCESSED" /\ r.cmd.ext = u.cmd.ref
          /\ r.cmd.round = u.cmd.round /\ r.cmd.player = u.cmd.player
      BY <1>1, <1>3, <3>1 DEF ReversalSound
    <3>3. PICK k \in DOMAIN ledger[w], l \in DOMAIN ledger[w] :
            /\ k < l /\ ledger[w][k].tx = u.refTx /\ ledger[w][l].tx = j
            /\ ledger[w][k].amount = ledger[w][l].amount
            /\ ledger[w][k].dir # ledger[w][l].dir
      BY <1>1, <1>3, <3>1 DEF ReversalSound
    <3>4. /\ k \in DOMAIN ledger'[w] /\ ledger'[w][k] = ledger[w][k]
          /\ l \in DOMAIN ledger'[w] /\ ledger'[w][l] = ledger[w][l]
      BY <3>1, StoresEntries
    <3>5. txs'[u.refTx] = r /\ u.refTx \in DOMAIN txs'
      BY <1>2, <3>2
    <3>6. \E k1, l1 \in DOMAIN ledger'[w] :
            /\ k1 < l1 /\ ledger'[w][k1].tx = u.refTx /\ ledger'[w][l1].tx = j
            /\ ledger'[w][k1].amount = ledger'[w][l1].amount
            /\ ledger'[w][k1].dir # ledger'[w][l1].dir
      <4> HIDE DEF u, w
      <4> QED
        BY <3>3, <3>4, Zenon
    <3> HIDE DEF u, r, w
    <3> QED
      BY <3>1, <3>2, <3>5, <3>6, Zenon DEF w
  <2> QED
    BY <2>1, <2>2
<1> QED
  BY <1>3 DEF ReversalSound

\* A wallet that does not exist has announced nothing.
LEMMA NoWalletNoChanges ==
  ASSUME EffectInv, NEW w \in Wallets, wallets[w] = Null
  PROVE  Changes(w) = {} /\ ledger[w] = << >>
<1>1. ledger[w] = << >>
  BY DEF EffectInv, HistoryInv, Inv, LedgerChain
<1>2. ASSUME NEW n \in Changes(w) PROVE FALSE
  <2>1. outbox[n].tx \in DOMAIN txs /\ Moves(txs[outbox[n].tx])
    BY <1>2 DEF EffectInv, EventsOK, Told, Tells, Changes
  <2> QED
    BY <1>1, <1>2, <2>1 DEF EffectInv, LedgerOK, Changes
<1> QED
  BY <1>1, <1>2

LEMMA StoresVersions ==
  ASSUME EffectInv, NEW i, NEW t, NEW e, NEW evs, Stores(i, t, e, evs)
  PROVE  VersionsContiguous'
<1>1. /\ TypeOK /\ EventsOK /\ VersionsContiguous /\ evs \in Seq(Event) /\ outbox' = outbox \o evs
  BY DEF EffectInv, HistoryInv, Inv, Stores
<1>2. /\ \A n \in DOMAIN outbox : n \in DOMAIN outbox' /\ outbox'[n] = outbox[n]
      /\ \A n \in DOMAIN outbox' \ DOMAIN outbox :
           /\ n \in Nat /\ n > Len(outbox)
           /\ n - Len(outbox) \in DOMAIN evs /\ outbox'[n] = evs[n - Len(outbox)]
      /\ \A n \in DOMAIN evs : /\ Len(outbox) + n \in DOMAIN outbox' \ DOMAIN outbox
                               /\ outbox'[Len(outbox) + n] = evs[n]
      /\ Len(outbox) \in Nat /\ DOMAIN outbox = 1 .. Len(outbox)
      /\ \A n \in DOMAIN outbox : outbox[n].version \in Nat
  BY <1>1, EventsAdded, TableShapes DEF Event
<1>3. /\ txs'[i] = t /\ \A j \in DOMAIN txs : txs'[j].cmd = txs[j].cmd
      /\ \A n \in DOMAIN outbox : outbox[n].tx \in DOMAIN txs
  BY <1>1, StoresRows DEF EventsOK, Told
<1>4. ASSUME NEW n \in DOMAIN outbox' \ DOMAIN outbox, outbox'[n].type = "BalanceChanged"
      PROVE  /\ outbox'[n].tx = i /\ Moves(t)
             /\ outbox'[n].version = wallets'[t.cmd.wallet].version
             /\ \A m \in DOMAIN outbox' \ DOMAIN outbox :
                  outbox'[m].type = "BalanceChanged" => m = n
  <2>1. /\ n \in Nat /\ n - Len(outbox) \in DOMAIN evs
        /\ outbox'[n] = evs[n - Len(outbox)]
    BY <1>2
  <2>2. /\ outbox'[n].tx = i /\ Tells("BalanceChanged", t)
        /\ outbox'[n].version = wallets'[t.cmd.wallet].version
    BY <1>4, <2>1 DEF Stores
  <2>3. Moves(t)
    BY <2>2 DEF Tells
  <2>4. ASSUME NEW m \in DOMAIN outbox' \ DOMAIN outbox, outbox'[m].type = "BalanceChanged"
        PROVE  m = n
    <3>1. /\ m \in Nat /\ m - Len(outbox) \in DOMAIN evs
          /\ outbox'[m] = evs[m - Len(outbox)]
      BY <1>2
    <3>2. m - Len(outbox) = n - Len(outbox)
      BY <1>4, <2>1, <2>4, <3>1 DEF Stores
    <3> QED
      BY <1>2, <2>1, <3>1, <3>2
  <2> QED
    BY <2>2, <2>3, <2>4
<1>5. ASSUME NEW w \in Wallets, wallets'[w] # Null
      PROVE  /\ \A n \in Changes(w)' : /\ EntryOf(w, n)' \in DOMAIN ledger'[w]
                                       /\ ledger'[w][EntryOf(w, n)'].tx = outbox'[n].tx
             /\ \A k \in DOMAIN ledger'[w] : \E n \in Changes(w)' : EntryOf(w, n)' = k
             /\ \A n, m \in Changes(w)' : n < m => EntryOf(w, n)' < EntryOf(w, m)'
  <2>1. CASE ~(Moves(t) /\ w = t.cmd.wallet)
    <3>1. ledger'[w] = ledger[w] /\ wallets'[w] = wallets[w]
      BY <2>1 DEF Stores
    <3>2. Changes(w)' = Changes(w) /\ \A n \in Changes(w) : outbox'[n] = outbox[n]
      BY <1>2, <1>3, <1>4, <2>1 DEF Changes
    <3>3. \A n \in Changes(w) : EntryOf(w, n)' = EntryOf(w, n)
      BY <3>1, <3>2 DEF EntryOf
    <3>4. /\ \A n \in Changes(w) : /\ EntryOf(w, n) \in DOMAIN ledger[w]
                                   /\ ledger[w][EntryOf(w, n)].tx = outbox[n].tx
          /\ \A k \in DOMAIN ledger[w] : \E n \in Changes(w) : EntryOf(w, n) = k
          /\ \A n, m \in Changes(w) : n < m => EntryOf(w, n) < EntryOf(w, m)
      BY <1>1, <1>5, <3>1 DEF VersionsContiguous
    <3>5. \A n \in Changes(w)' : /\ EntryOf(w, n)' \in DOMAIN ledger'[w]
                                 /\ ledger'[w][EntryOf(w, n)'].tx = outbox'[n].tx
      BY <3>1, <3>2, <3>3, <3>4
    <3>6. \A k \in DOMAIN ledger'[w] : \E n \in Changes(w)' : EntryOf(w, n)' = k
      BY <3>1, <3>2, <3>3, <3>4
    <3>7. \A n, m \in Changes(w)' : n < m => EntryOf(w, n)' < EntryOf(w, m)'
      BY <3>2, <3>3, <3>4
    <3> QED
      BY <3>5, <3>6, <3>7
  <2>2. CASE Moves(t) /\ w = t.cmd.wallet
    <3> DEFINE len == Len(ledger[w])
               v   == wallets'[w].version
    <3>1. PICK p \in DOMAIN evs : evs[p].type = "BalanceChanged"
      <4>1. Tells("BalanceChanged", t) /\ ~Told(txs, i, "BalanceChanged")
        BY <2>2 DEF Tells, Told, Stores, Adds, GoesOn, Moves
      <4> QED
        BY <4>1 DEF Stores, EventTypes
    <3>2. PICK q \in DOMAIN outbox' \ DOMAIN outbox : outbox'[q].type = "BalanceChanged"
      BY <1>2, <3>1
    <3>3. outbox'[q].tx = i /\ outbox'[q].version = v
      BY <1>4, <2>2, <3>2
    <3>4. Changes(w)' = Changes(w) \cup {q}
      BY <1>2, <1>3, <1>4, <2>2, <3>2, <3>3 DEF Changes
    <3>5. /\ len \in Nat /\ Len(ledger'[w]) = len + 1
          /\ DOMAIN ledger[w] = 1 .. len /\ DOMAIN ledger'[w] = 1 .. len + 1
          /\ \A k \in 1 .. len : ledger'[w][k] = ledger[w][k]
          /\ ledger'[w][len + 1].tx = i
      <4>1. e \in LedgerRow /\ e.tx = i /\ ledger'[w] = Append(ledger[w], e)
        BY <2>2 DEF Stores
      <4> QED
        BY <1>1, <4>1, EntryAdded
    <3>6. v = (IF wallets[w] = Null THEN 1 ELSE wallets[w].version + 1) /\ v \in Nat
      <4>1. v = IF wallets[w] = Null THEN 1 ELSE wallets[w].version + 1
        BY <2>2 DEF Stores
      <4>2. wallets[w] # Null => wallets[w].version \in Nat
        BY <1>1, TableShapes
      <4> QED
        BY <4>1, <4>2
    <3>7. EntryOf(w, q)' = len + 1
      BY <3>3, <3>5, <3>6 DEF EntryOf
    <3>8. \A n \in Changes(w) : EntryOf(w, n)' = EntryOf(w, n) /\ EntryOf(w, n) \in 1 .. len
      <4>1. CASE wallets[w] = Null
        BY <4>1, NoWalletNoChanges
      <4>2. CASE wallets[w] # Null
        <5>1. v = wallets[w].version + 1 /\ wallets[w].version \in Nat
          BY <1>1, <3>6, <4>2, TableShapes
        <5>2. \A n \in Changes(w) : outbox'[n] = outbox[n] /\ outbox[n].version \in Nat
          BY <1>2 DEF Changes
        <5>3. ASSUME NEW n \in Changes(w) PROVE EntryOf(w, n)' = EntryOf(w, n)
          <6>1. EntryOf(w, n)' = (len + 1) - ((wallets[w].version + 1) - outbox[n].version)
            BY <3>5, <5>1, <5>2 DEF EntryOf
          <6>2. \A a, b, c \in Nat : (a + 1) - ((b + 1) - c) = a - (b - c)
            OBVIOUS
          <6>3. EntryOf(w, n)' = len - (wallets[w].version - outbox[n].version)
            <7>1. len \in Nat /\ wallets[w].version \in Nat /\ outbox[n].version \in Nat
              BY <3>5, <5>1, <5>2
            <7> HIDE DEF len
            <7> QED
              BY <6>1, <6>2, <7>1, Zenon
          <6> QED
            BY <6>3 DEF EntryOf
        <5> QED
          BY <1>1, <3>5, <4>2, <5>3 DEF VersionsContiguous
      <4> QED
        BY <4>1, <4>2
    <3>9. ASSUME NEW n \in Changes(w)'
          PROVE  /\ EntryOf(w, n)' \in DOMAIN ledger'[w]
                 /\ ledger'[w][EntryOf(w, n)'].tx = outbox'[n].tx
      <4>1. CASE n = q
        BY <3>3, <3>5, <3>7, <4>1
      <4>2. CASE n # q
        <5>1. n \in Changes(w) /\ wallets[w] # Null /\ outbox'[n] = outbox[n]
          BY <1>2, <3>4, <4>2, NoWalletNoChanges DEF Changes
        <5>2. ledger[w][EntryOf(w, n)].tx = outbox[n].tx
          BY <1>1, <5>1 DEF VersionsContiguous
        <5> QED
          BY <3>5, <3>8, <5>1, <5>2
      <4> QED
        BY <4>1, <4>2
    <3>10. ASSUME NEW k \in DOMAIN ledger'[w]
           PROVE  \E n \in Changes(w)' : EntryOf(w, n)' = k
      <4>1. CASE k = len + 1
        BY <3>4, <3>7, <4>1
      <4>2. CASE k # len + 1
        <5>1. k \in DOMAIN ledger[w]
          BY <3>5, <4>2
        <5>2. wallets[w] # Null
          BY <3>5, <5>1, NoWalletNoChanges
        <5>3. PICK n \in Changes(w) : EntryOf(w, n) = k
          BY <1>1, <5>1, <5>2 DEF VersionsContiguous
        <5> QED
          BY <3>4, <3>8, <5>3
      <4> QED
        BY <4>1, <4>2
    <3>11. ASSUME NEW n \in Changes(w)', NEW m \in Changes(w)', n < m
           PROVE  EntryOf(w, n)' < EntryOf(w, m)'
      <4>1. \A c \in Changes(w) : c \in 1 .. Len(outbox)
        BY <1>2 DEF Changes
      <4>2. n # q /\ q \in Nat /\ q > Len(outbox)
        BY <1>2, <3>2, <3>4, <3>11, <4>1
      <4>3. n \in Changes(w) /\ wallets[w] # Null
        BY <3>4, <4>2, NoWalletNoChanges
      <4>4. CASE m = q
        BY <3>5, <3>7, <3>8, <4>3, <4>4
      <4>5. CASE m # q
        <5>1. m \in Changes(w)
          BY <3>4, <4>5
        <5>2. EntryOf(w, n) < EntryOf(w, m)
          BY <1>1, <3>11, <4>3, <5>1 DEF VersionsContiguous
        <5> QED
          BY <3>8, <4>3, <5>1, <5>2
      <4> QED
        BY <4>4, <4>5
    <3> QED
      BY <3>9, <3>10, <3>11
  <2> QED
    BY <2>1, <2>2
<1> QED
  BY <1>5 DEF VersionsContiguous

-----------------------------------------------------------------------------
(* Every step that changes the tables stores a row *)

\* What is known of the row a session commits before its commit.
LEMMA CommitNews ==
  ASSUME HistoryInv, NEW s \in Sessions, pc[s] = "commit", CommitRows(s)
  PROVE  LET t == tx[s]
         IN /\ entry[s] # Null <=> t.status = "PROCESSED" /\ t.cmd.kind # "LOSS"
            /\ t.status \in {"PROCESSED", "REJECTED", "PENDING_REFERENCE"}
            /\ t.attempts \in Nat
            /\ ~Told(txs, IdOf(s), "Processed") /\ ~Told(txs, IdOf(s), "Rejected")
            /\ ~Told(txs, IdOf(s), "BalanceChanged")
            /\ t.status = "PENDING_REFERENCE" => t.attempts > 0
            /\ Told(txs, IdOf(s), "PendingReference") =>
                 t.attempts > 0 /\ (t.status = "PENDING_REFERENCE" => t.attempts # 1)
            /\ t.attempts > 0 /\ ~Told(txs, IdOf(s), "PendingReference") =>
                 t.status = "PENDING_REFERENCE" /\ t.attempts = 1
<1> DEFINE t == tx[s]
           b == Before(s)
<1>1. /\ Undecided(b) /\ b.cmd = Cmd(s) /\ t.cmd = Cmd(s) /\ t \in Transaction
      /\ Sound(txs, b, Result(s)) /\ Result(s).tx = t /\ Result(s).entry = entry[s]
  BY DecidedSound DEF Result
<1>2. TypeOK /\ SessionInv(s) /\ RowsOK(txs)
  BY DEF HistoryInv, Inv, SessionsInv, RowsInv
<1>3. /\ IdOf(s) \in DOMAIN txs <=> claim[s] # 0
      /\ claim[s] # 0 => IdOf(s) = claim[s]
  BY CommitAdds
<1>4. t.attempts \in Nat /\ b.attempts \in Nat
  BY <1>1 DEF Undecided, Transaction
<1>5. claim[s] # 0 => /\ b = txs[claim[s]] /\ b.status = "PENDING_REFERENCE"
                      /\ b.attempts \in 1 .. MaxAttempts
  BY <1>2 DEF SessionInv, Claims, Before, RowsOK, RowOK
<1>6. claim[s] = 0 => b.attempts = 0
  BY DEF Before, NewExternal
<1>7. /\ Told(txs, IdOf(s), "PendingReference") <=> claim[s] # 0
      /\ ~Told(txs, IdOf(s), "Processed") /\ ~Told(txs, IdOf(s), "Rejected")
      /\ ~Told(txs, IdOf(s), "BalanceChanged")
  BY <1>3, <1>4, <1>5, MaxAttemptsAssumption DEF Told, Tells, Moves
<1>8. entry[s] # Null <=> t.status = "PROCESSED" /\ t.cmd.kind # "LOSS"
  BY <1>1 DEF Sound
<1>9. \/ t.status \in {"PROCESSED", "REJECTED"} /\ t.attempts = b.attempts
      \/ t.status = "PENDING_REFERENCE" /\ t.attempts = b.attempts + 1
  BY <1>1 DEF Sound
<1> HIDE DEF t, b
<1>10. /\ t.status \in {"PROCESSED", "REJECTED", "PENDING_REFERENCE"}
       /\ t.status = "PENDING_REFERENCE" => t.attempts > 0
       /\ claim[s] # 0 => t.attempts > 0 /\ (t.status = "PENDING_REFERENCE" => t.attempts # 1)
       /\ t.attempts > 0 /\ claim[s] = 0 => t.status = "PENDING_REFERENCE" /\ t.attempts = 1
  BY <1>4, <1>5, <1>6, <1>9, MaxAttemptsAssumption
<1> QED
  BY <1>4, <1>7, <1>8, <1>10 DEF t

\* The events of a commit are those that are new of its row.
LEMMA CommitEvents ==
  ASSUME HistoryInv, NEW s \in Sessions, pc[s] = "commit", CommitRows(s),
         NEW evs, evs = EventsOf(tx[s], IdOf(s), entry[s], row[s].version),
         NEW t, t = Stored(tx[s])
  PROVE  /\ \A n \in DOMAIN evs :
              /\ evs[n].tx = IdOf(s) /\ Tells(evs[n].type, t) /\ ~Told(txs, IdOf(s), evs[n].type)
              /\ evs[n].type = "BalanceChanged" => evs[n].version = row[s].version
         /\ \A m, n \in DOMAIN evs : evs[m].type = evs[n].type => m = n
         /\ \A type \in EventTypes : Tells(type, t) /\ ~Told(txs, IdOf(s), type) =>
              \E n \in DOMAIN evs : evs[n].type = type
         /\ \A type \in EventTypes : Told(txs, IdOf(s), type) => Tells(type, t)
<1> DEFINE u  == tx[s]
           id == IdOf(s)
<1>1. /\ entry[s] # Null <=> u.status = "PROCESSED" /\ u.cmd.kind # "LOSS"
      /\ u.status \in {"PROCESSED", "REJECTED", "PENDING_REFERENCE"} /\ u.attempts \in Nat
      /\ ~Told(txs, id, "Processed") /\ ~Told(txs, id, "Rejected")
      /\ ~Told(txs, id, "BalanceChanged")
      /\ u.status = "PENDING_REFERENCE" => u.attempts > 0
      /\ Told(txs, id, "PendingReference") =>
           u.attempts > 0 /\ (u.status = "PENDING_REFERENCE" => u.attempts # 1)
      /\ u.attempts > 0 /\ ~Told(txs, id, "PendingReference") =>
           u.status = "PENDING_REFERENCE" /\ u.attempts = 1
  BY CommitNews
<1>2. /\ t.status = u.status /\ t.cmd = u.cmd /\ t.attempts = u.attempts
  BY DecidedSound, StoredKeeps
<1>3. /\ Tells("BalanceChanged", t) <=> entry[s] # Null
      /\ Tells("Processed", t) <=> u.status = "PROCESSED"
      /\ Tells("Rejected", t) <=> u.status = "REJECTED"
      /\ Tells("PendingReference", t) <=> u.attempts > 0
  BY <1>1, <1>2 DEF Tells, Moves
<1> HIDE DEF u, id
<1>4. CASE u.status = "PROCESSED" /\ entry[s] # Null
  <2>1. evs = << BalanceChanged(id, row[s].version), ProcessedEvent(id) >>
    BY <1>4 DEF EventsOf, u, id
  <2> QED
    BY <1>1, <1>3, <1>4, <2>1 DEF BalanceChanged, ProcessedEvent, EventTypes, id
<1>5. CASE u.status = "PROCESSED" /\ entry[s] = Null
  <2>1. evs = << ProcessedEvent(id) >>
    BY <1>5 DEF EventsOf, u, id
  <2> QED
    BY <1>1, <1>3, <1>5, <2>1 DEF ProcessedEvent, EventTypes, id
<1>6. CASE u.status = "REJECTED"
  <2>1. evs = << RejectedEvent(id) >>
    BY <1>6 DEF EventsOf, u, id
  <2> QED
    BY <1>1, <1>3, <1>6, <2>1 DEF RejectedEvent, EventTypes, id
<1>7. CASE u.status = "PENDING_REFERENCE" /\ u.attempts = 1
  <2>1. evs = << PendingReferenceEvent(id) >>
    BY <1>7 DEF EventsOf, u, id
  <2> QED
    BY <1>1, <1>3, <1>7, <2>1 DEF PendingReferenceEvent, EventTypes, id
<1>8. CASE u.status = "PENDING_REFERENCE" /\ u.attempts # 1
  <2>1. evs = << >>
    BY <1>8 DEF EventsOf, u, id
  <2> QED
    BY <1>1, <1>3, <1>8, <2>1 DEF EventTypes, id
<1> QED
  BY <1>1, <1>4, <1>5, <1>6, <1>7, <1>8

LEMMA CommitStores ==
  ASSUME HistoryInv, NEW s \in Sessions, pc[s] = "commit", CommitRows(s)
  PROVE  \E e, evs : Stores(IdOf(s), Stored(tx[s]), e, evs)
<1> DEFINE t   == Stored(tx[s])
           w   == Cmd(s).wallet
           id  == IdOf(s)
           f   == entry[s]
           e   == [tx |-> id, dir |-> f.dir, amount |-> f.amount,
                   before |-> f.before, after |-> f.after]
           evs == EventsOf(tx[s], id, f, row[s].version)
<1>1. /\ TypeOK /\ SessionShape /\ FreshCopy /\ pc[s] \in Locked
      /\ row[s] \in WalletRow /\ f \in Optional(Entry) /\ claim[s] \in Nat
  BY DEF HistoryInv, Inv, WalletLockHolds, SessionShape, TypeOK, SessionsOK, Locked
<1>2. /\ Adds(txs, txs', id, t) /\ t \in Transaction /\ RowOK(txs, t) /\ t.cmd = Cmd(s)
      /\ w \in Wallets /\ tx[s] \in Transaction
  BY CommitAdds, BeforeUndecided
<1>3. id \in Nat
  BY <1>1, RowNumbers DEF IdOf
<1>4. /\ t.status = tx[s].status /\ t.refTx = tx[s].refTx /\ t.cmd = tx[s].cmd
  BY <1>2, StoredKeeps
<1>5. f # Null <=> Moves(t)
  BY <1>4, CommitNews DEF Moves
<1> HIDE DEF t
<1>6. ASSUME f # Null
      PROVE  /\ e \in LedgerRow /\ e.tx = id
             /\ e.amount = t.cmd.amount /\ e.dir = Direction(txs, t)
  <2>1. f \in Entry
    BY <1>1, <1>6
  <2>2. f.amount = t.cmd.amount /\ f.dir = Direction(txs, tx[s])
    <3>1. Sound(txs, Before(s), Result(s)) /\ Before(s).cmd = Cmd(s)
      BY DecidedSound
    <3>2. f.amount = Before(s).cmd.amount /\ f.dir = Direction(txs, tx[s])
      BY <1>6, <3>1 DEF Sound, Result
    <3> QED
      BY <1>2, <3>1, <3>2
  <2>3. Direction(txs, t) = Direction(txs, tx[s])
    BY <1>4 DEF Direction
  <2> QED
    BY <1>3, <2>1, <2>2, <2>3 DEF LedgerRow, Entry
<1>7. /\ f = Null => ledger' = ledger /\ wallets' = wallets
      /\ f # Null => /\ wallets' = [wallets EXCEPT ![w] = row[s]]
                     /\ ledger' = [ledger EXCEPT ![w] = Append(@, e)]
      /\ outbox' = outbox \o evs
  BY DEF CommitRows
<1>8. evs \in Seq(Event)
  <2>1. row[s].version \in Nat
    BY <1>1 DEF WalletRow
  <2> QED
    BY <1>2, <1>3, <2>1, EventsType
<1>9. /\ \A n \in DOMAIN evs :
           /\ evs[n].tx = id /\ Tells(evs[n].type, t) /\ ~Told(txs, id, evs[n].type)
           /\ evs[n].type = "BalanceChanged" => evs[n].version = row[s].version
      /\ \A m, n \in DOMAIN evs : evs[m].type = evs[n].type => m = n
      /\ \A type \in EventTypes : Tells(type, t) /\ ~Told(txs, id, type) =>
           \E n \in DOMAIN evs : evs[n].type = type
      /\ \A type \in EventTypes : Told(txs, id, type) => Tells(type, t)
  BY CommitEvents DEF t
<1> HIDE DEF e, evs, id
<1>10. ASSUME NEW v \in Wallets
       PROVE  IF Moves(t) /\ v = t.cmd.wallet
              THEN /\ ledger'[v] = Append(ledger[v], e) /\ wallets'[v] # Null
                   /\ wallets'[v].version = IF wallets[v] = Null THEN 1 ELSE wallets[v].version + 1
              ELSE ledger'[v] = ledger[v] /\ wallets'[v] = wallets[v]
  <2>1. CASE f = Null
    BY <1>5, <1>7, <2>1
  <2>2. CASE f # Null
    <3>1. wallets[w] # Null /\ row[s].version = wallets[w].version + 1 /\ row[s] # Null
      BY <1>1, <2>2, NullRowsAssumption DEF FreshCopy
    <3>2. /\ wallets'[v] = IF v = w THEN row[s] ELSE wallets[v]
          /\ ledger'[v] = IF v = w THEN Append(ledger[v], e) ELSE ledger[v]
      BY <1>1, <1>7, <2>2 DEF TypeOK, TablesOK
    <3> QED
      BY <1>2, <1>5, <2>2, <3>1, <3>2
  <2> QED
    BY <2>1, <2>2
<1>11. \A n \in DOMAIN evs : evs[n].type = "BalanceChanged" =>
         evs[n].version = wallets'[t.cmd.wallet].version
  <2> SUFFICES ASSUME NEW n \in DOMAIN evs, evs[n].type = "BalanceChanged"
               PROVE  row[s].version = wallets'[t.cmd.wallet].version
    BY <1>9
  <2>1. f # Null
    BY <1>5, <1>9 DEF Tells
  <2> QED
    BY <1>1, <1>2, <1>7, <2>1 DEF TypeOK, TablesOK
<1>12. Stores(id, t, e, evs)
  BY <1>2, <1>3, <1>5, <1>6, <1>7, <1>8, <1>9, <1>10, <1>11 DEF Stores
<1> QED
  BY <1>12 DEF id, t

\* A wallet opened with a balance.
LEMMA OpenStores ==
  ASSUME HistoryInv, NEW o \in Openings, OpenWallet(o), o.amount # 0
  PROVE  \E e, evs : Stores(Len(txs) + 1, Opened(o), e, evs)
<1> DEFINE t   == Opened(o)
           w   == o.wallet
           id  == Len(txs) + 1
           e   == [tx |-> id, dir |-> "CREDIT", amount |-> o.amount,
                   before |-> 0, after |-> o.amount]
           evs == << ProcessedEvent(id), BalanceChanged(id, 1) >>
<1>1. TypeOK /\ w \in Wallets /\ o.amount \in Nat
  BY CommandsAssumption, MaxMinorAssumption DEF HistoryInv, Inv
<1>2. /\ Adds(txs, txs', id, t) /\ t \in Transaction /\ RowOK(txs, t)
      /\ t.cmd.wallet = w /\ t.cmd.amount = o.amount /\ t.cmd.kind = "OPENING"
      /\ t.status = "PROCESSED" /\ t.attempts = 0 /\ id \notin DOMAIN txs
  BY <1>1, OpenAdds, OpenedRow
<1> HIDE DEF t
<1>3. id \in Nat
  BY <1>1, RowNumbers
<1>4. Moves(t) /\ Direction(txs, t) = "CREDIT"
  BY <1>2 DEF Moves, Direction
<1>5. e \in LedgerRow
  BY <1>1, <1>3 DEF LedgerRow
<1>6. /\ wallets[w] = Null
      /\ wallets' = [wallets EXCEPT ![w] = [player |-> o.player, currency |-> o.currency,
                                            balance |-> o.amount, version |-> 1]]
      /\ ledger' = [ledger EXCEPT ![w] = Append(@, e)]
      /\ outbox' = outbox \o evs
  BY DEF OpenWallet
<1>7. evs \in Seq(Event)
  <2>1. ProcessedEvent(id) \in Event /\ BalanceChanged(id, 1) \in Event
    BY <1>3 DEF ProcessedEvent, BalanceChanged, Event
  <2> QED
    BY <2>1
<1>8. /\ \A type : ~Told(txs, id, type)
      /\ \A type \in EventTypes : Tells(type, t) <=> type \in {"Processed", "BalanceChanged"}
  BY <1>2, <1>4 DEF Told, Tells, EventTypes
<1> HIDE DEF id
<1>9. /\ \A n \in DOMAIN evs : evs[n].tx = id /\ Tells(evs[n].type, t)
      /\ \A n \in DOMAIN evs : evs[n].type = "BalanceChanged" => evs[n].version = 1
      /\ \A m, n \in DOMAIN evs : evs[m].type = evs[n].type => m = n
      /\ \A type \in EventTypes : Tells(type, t) => \E n \in DOMAIN evs : evs[n].type = type
  BY <1>8 DEF ProcessedEvent, BalanceChanged, EventTypes
<1>10. wallets'[w].version = 1
  BY <1>1, <1>6 DEF TypeOK, TablesOK
<1>11. wallets'[w] # Null
  <2>1. [player |-> o.player, currency |-> o.currency,
         balance |-> o.amount, version |-> 1] \in WalletRow
    BY CommandsAssumption DEF WalletRow
  <2> QED
    BY <1>1, <1>6, <2>1, NullRowsAssumption DEF TypeOK, TablesOK
<1>12. ASSUME NEW v \in Wallets, v # w PROVE ledger'[v] = ledger[v] /\ wallets'[v] = wallets[v]
  BY <1>1, <1>6, <1>12 DEF TypeOK, TablesOK
<1>13. ledger'[w] = Append(ledger[w], e)
  BY <1>1, <1>6 DEF TypeOK, TablesOK
<1> HIDE DEF e, evs
<1>14. ASSUME NEW v \in Wallets
       PROVE  IF Moves(t) /\ v = t.cmd.wallet
              THEN /\ ledger'[v] = Append(ledger[v], e) /\ wallets'[v] # Null
                   /\ wallets'[v].version = IF wallets[v] = Null THEN 1 ELSE wallets[v].version + 1
              ELSE ledger'[v] = ledger[v] /\ wallets'[v] = wallets[v]
  BY <1>2, <1>4, <1>6, <1>10, <1>11, <1>12, <1>13
<1>15. e.tx = id /\ e.amount = t.cmd.amount /\ e.dir = Direction(txs, t)
  BY <1>2, <1>4 DEF e
<1>16. Stores(id, t, e, evs)
  BY <1>2, <1>3, <1>5, <1>6, <1>7, <1>8, <1>9, <1>10, <1>14, <1>15 DEF Stores
<1> QED
  BY <1>16 DEF id, t

LEMMA StoresStep ==
  ASSUME EffectInv, HistoryInv', NEW i, NEW t, NEW e, NEW evs, Stores(i, t, e, evs)
  PROVE  EffectInv'
  BY StoresEvents, StoresLedger, StoresReversals, StoresVersions DEF EffectInv

\* A wallet opened empty: it has no entries and has announced nothing.
LEMMA OpenEmptyStep ==
  ASSUME EffectInv, HistoryInv', NEW o \in Openings, OpenWallet(o), o.amount = 0
  PROVE  EffectInv'
<1>1. /\ txs' = txs /\ ledger' = ledger /\ outbox' = outbox
      /\ \A w \in Wallets : w # o.wallet => wallets'[w] = wallets[w]
      /\ o.wallet \in Wallets /\ wallets[o.wallet] = Null
  BY CommandsAssumption DEF OpenWallet, EffectInv, HistoryInv, Inv, TypeOK, TablesOK
<1>2. LedgerOK' /\ EventsOK' /\ ReversalSound'
  <2>1. LedgerOK'
    BY <1>1 DEF EffectInv, LedgerOK
  <2>2. EventsOK'
    BY <1>1 DEF EffectInv, EventsOK
  <2>3. ReversalSound'
    BY <1>1 DEF EffectInv, ReversalSound
  <2> QED
    BY <2>1, <2>2, <2>3
<1>3. \A w \in Wallets : Changes(w)' = Changes(w)
  BY <1>1 DEF Changes
<1>4. Changes(o.wallet) = {} /\ DOMAIN ledger[o.wallet] = {}
  BY <1>1, NoWalletNoChanges
<1>5. ASSUME NEW w \in Wallets, w # o.wallet, NEW n PROVE EntryOf(w, n)' = EntryOf(w, n)
  BY <1>1, <1>5 DEF EntryOf
<1>6. ASSUME NEW w \in Wallets, wallets'[w] # Null
      PROVE  /\ \A n \in Changes(w)' : /\ EntryOf(w, n)' \in DOMAIN ledger'[w]
                                       /\ ledger'[w][EntryOf(w, n)'].tx = outbox'[n].tx
             /\ \A k \in DOMAIN ledger'[w] : \E n \in Changes(w)' : EntryOf(w, n)' = k
             /\ \A n, m \in Changes(w)' : n < m => EntryOf(w, n)' < EntryOf(w, m)'
  <2>1. CASE w = o.wallet
    BY <1>1, <1>3, <1>4, <2>1
  <2>2. CASE w # o.wallet
    <3>1. /\ \A n \in Changes(w) : /\ EntryOf(w, n) \in DOMAIN ledger[w]
                                   /\ ledger[w][EntryOf(w, n)].tx = outbox[n].tx
          /\ \A k \in DOMAIN ledger[w] : \E n \in Changes(w) : EntryOf(w, n) = k
          /\ \A n, m \in Changes(w) : n < m => EntryOf(w, n) < EntryOf(w, m)
      BY <1>1, <1>6, <2>2 DEF EffectInv, VersionsContiguous
    <3>2. /\ Changes(w)' = Changes(w) /\ ledger'[w] = ledger[w] /\ outbox' = outbox
          /\ \A n : EntryOf(w, n)' = EntryOf(w, n)
      BY <1>1, <1>3, <1>5, <2>2
    <3> QED
      BY <3>1, <3>2
  <2> QED
    BY <2>1, <2>2
<1> QED
  BY <1>2, <1>6 DEF EffectInv, VersionsContiguous

\* Every step keeps the invariant.
LEMMA EffectStep ==
  ASSUME EffectInv, [Next]_vars
  PROVE  EffectInv'
<1>1. HistoryInv /\ HistoryInv'
  BY HistoryStep DEF EffectInv
<1>2. CASE UNCHANGED << wallets, txs, ledger, outbox >>
  <2>1. wallets' = wallets /\ txs' = txs /\ ledger' = ledger /\ outbox' = outbox
    BY <1>2
  <2>2. LedgerOK' /\ EventsOK' /\ ReversalSound'
    <3>1. LedgerOK'
      BY <2>1 DEF EffectInv, LedgerOK
    <3>2. EventsOK'
      BY <2>1 DEF EffectInv, EventsOK
    <3>3. ReversalSound'
      BY <2>1 DEF EffectInv, ReversalSound
    <3> QED
      BY <3>1, <3>2, <3>3
  <2>3. VersionsContiguous'
    BY <2>1 DEF EffectInv, VersionsContiguous, Changes, EntryOf
  <2> QED
    BY <1>1, <2>2, <2>3 DEF EffectInv
<1>3. ASSUME NEW s \in Sessions, pc[s] = "commit", CommitRows(s) PROVE EffectInv'
  BY <1>1, <1>3, CommitStores, StoresStep
<1>4. ASSUME NEW o \in Openings, OpenWallet(o) PROVE EffectInv'
  BY <1>1, <1>4, OpenStores, StoresStep, OpenEmptyStep
<1> QED
  BY <1>1, <1>2, <1>3, <1>4, OperationsStep

-----------------------------------------------------------------------------
(* The theorems *)

\* EffectInv holds in every reachable state.
THEOREM EffectInvariance == Spec => []EffectInv
<1>1. Init /\ HistoryInv => EffectInv
  <2> SUFFICES ASSUME Init, HistoryInv PROVE EffectInv
    OBVIOUS
  <2>1. /\ DOMAIN txs = {} /\ DOMAIN outbox = {} /\ \A w \in Wallets : DOMAIN ledger[w] = {}
        /\ \A w \in Wallets : wallets[w] = Null
    BY DEF Init
  <2> QED
    BY <2>1 DEF EffectInv, LedgerOK, EventsOK, ReversalSound, VersionsContiguous
<1> QED
  BY <1>1, EffectStep, HistoryInvariance, PTL DEF Spec

\* ReversalSound: a processed reversal undoes exactly what it names.
THEOREM ReversalsUndo == Spec => []ReversalSound
<1>1. EffectInv => ReversalSound
  BY DEF EffectInv
<1> QED
  BY <1>1, EffectInvariance, PTL

\* VersionsContiguous: the events of a wallet number its entries without a gap.
THEOREM VersionsNumberEntries == Spec => []VersionsContiguous
<1>1. EffectInv => VersionsContiguous
  BY DEF EffectInv
<1> QED
  BY <1>1, EffectInvariance, PTL

\* The events of one type for one row.
LEMMA AddedIs ==
  ASSUME EventsOK, NEW i \in DOMAIN txs, NEW type \in EventTypes
  PROVE  Added(type, i) = IF Tells(type, txs[i]) THEN 1 ELSE 0
<1> DEFINE S == {n \in DOMAIN outbox : outbox[n].type = type /\ outbox[n].tx = i}
<1>1. CASE Tells(type, txs[i])
  <2>1. PICK n \in DOMAIN outbox : outbox[n].type = type /\ outbox[n].tx = i
    BY <1>1 DEF EventsOK
  <2>2. S = {n}
    BY <2>1 DEF EventsOK
  <2> QED
    BY <1>1, <2>2, FS_Singleton DEF Added
<1>2. CASE ~Tells(type, txs[i])
  <2>1. S = {}
    BY <1>2 DEF EventsOK, Told
  <2> QED
    BY <1>2, <2>1, FS_EmptySet DEF Added
<1> QED
  BY <1>1, <1>2

\* The entries of one row.
LEMMA EntriesAre ==
  ASSUME LedgerOK, NEW i \in DOMAIN txs, txs[i].cmd.wallet \in Wallets
  PROVE  /\ Cardinality(Entries(i)) = IF Moves(txs[i]) THEN 1 ELSE 0
         /\ \A p \in Entries(i) : p[1] = txs[i].cmd.wallet
<1> DEFINE v == txs[i].cmd.wallet
<1>1. \A p : p \in Entries(i) <=>
        \E w \in Wallets : \E k \in DOMAIN ledger[w] : p = << w, k >> /\ ledger[w][k].tx = i
  BY DEF Entries
<1>2. \A w \in Wallets : \A k \in DOMAIN ledger[w] :
        ledger[w][k].tx = i => w = v /\ Moves(txs[i])
  BY DEF LedgerOK
<1>3. CASE Moves(txs[i])
  <2>1. PICK k \in DOMAIN ledger[v] : ledger[v][k].tx = i
    BY <1>3 DEF LedgerOK
  <2>2. \A l \in DOMAIN ledger[v] : ledger[v][l].tx = i => l = k
    BY <2>1 DEF LedgerOK
  <2>3. Entries(i) = {<< v, k >>}
    BY <1>1, <1>2, <2>1, <2>2
  <2>4. Cardinality(Entries(i)) = 1
    BY <2>3, FS_Singleton
  <2>5. \A p \in Entries(i) : p[1] = v
    BY <2>3
  <2> QED
    BY <1>3, <2>4, <2>5
<1>4. CASE ~Moves(txs[i])
  <2>1. Entries(i) = {}
    BY <1>1, <1>2, <1>4
  <2> QED
    BY <1>4, <2>1, FS_EmptySet
<1> QED
  BY <1>3, <1>4

\* EffectOnce: an operation has one row however often it is submitted, and the
\* row has the one entry and the events its status says.
THEOREM ExactlyOneEffect == Spec => []EffectOnce
<1>1. ASSUME EffectInv PROVE EffectOnce
  <2>1. TypeOK /\ UniqueRows(txs) /\ LedgerOK /\ EventsOK
    BY <1>1 DEF EffectInv, HistoryInv, Inv, RowsInv
  <2>2. ASSUME NEW i \in DOMAIN txs, NEW j \in DOMAIN txs, i # j, txs[i].cmd.provider # Null,
               txs[i].cmd.provider = txs[j].cmd.provider
        PROVE  txs[i].cmd.key # txs[j].cmd.key /\ txs[i].cmd.ext # txs[j].cmd.ext
    BY <2>1, <2>2 DEF UniqueRows, SameUniqueKey
  <2>3. ASSUME NEW i \in DOMAIN txs
        PROVE  LET t == txs[i]
                   moves == IF t.status = "PROCESSED" /\ t.cmd.kind # "LOSS" THEN 1 ELSE 0
               IN /\ Cardinality(Entries(i)) = moves
                  /\ \A e \in Entries(i) : e[1] = t.cmd.wallet
                  /\ Added("BalanceChanged", i) = moves
                  /\ Added("Processed", i) = IF t.status = "PROCESSED" THEN 1 ELSE 0
                  /\ Added("Rejected", i) = IF t.status = "REJECTED" THEN 1 ELSE 0
                  /\ Added("PendingReference", i) = IF t.attempts > 0 THEN 1 ELSE 0
    <3>1. txs[i].cmd.wallet \in Wallets
      BY <2>1, RowNumbers DEF Transaction, Command
    <3>2. /\ Cardinality(Entries(i)) = IF Moves(txs[i]) THEN 1 ELSE 0
          /\ \A e \in Entries(i) : e[1] = txs[i].cmd.wallet
      BY <2>1, <3>1, EntriesAre
    <3>3. \A type \in EventTypes : Added(type, i) = IF Tells(type, txs[i]) THEN 1 ELSE 0
      BY <2>1, AddedIs
    <3>4. /\ Tells("BalanceChanged", txs[i]) <=> Moves(txs[i])
          /\ Tells("Processed", txs[i]) <=> txs[i].status = "PROCESSED"
          /\ Tells("Rejected", txs[i]) <=> txs[i].status = "REJECTED"
          /\ Tells("PendingReference", txs[i]) <=> txs[i].attempts > 0
      BY DEF Tells
    <3> QED
      BY <3>2, <3>3, <3>4 DEF Moves, EventTypes
  <2> QED
    BY <2>2, <2>3 DEF EffectOnce
<1>2. EffectInv => EffectOnce
  BY <1>1
<1> QED
  BY <1>2, EffectInvariance, PTL

-----------------------------------------------------------------------------
(* The service implements WagerAtomic *)

\* The atomic specification computes with the same rules.
LEMMA SameRules ==
  /\ \A c : Atomic!ValidRequest(c) <=> ValidRequest(c)
  /\ \A c : Atomic!NewExternal(c) = NewExternal(c)
  /\ \A t : Atomic!Stored(t) = Stored(t)
  /\ \A t : Atomic!NeedsReference(t) <=> NeedsReference(t)
  /\ \A t, w : Atomic!MatchesWallet(t, w) <=> MatchesWallet(t, w)
  /\ \A t, w : Atomic!ApplyAlone(t, w) = ApplyAlone(t, w)
  /\ \A t, w, at : Atomic!Park(t, w, at) = Park(t, w, at)
  /\ \A t, w, code : Atomic!Rejected(t, w, code) = Rejected(t, w, code)
  /\ \A t, r : Atomic!ReferenceFailure(t, r) = ReferenceFailure(t, r)
  /\ \A t, i : Atomic!IsProcessedReversal(t, i) <=> IsProcessedReversal(t, i)
  /\ \A t, i : Atomic!Resolved(t, i) = Resolved(t, i)
  /\ \A t, w, kind : Atomic!ApplyResolved(t, w, kind) = ApplyResolved(t, w, kind)
  /\ \A t, i, e, v : Atomic!EventsOf(t, i, e, v) = EventsOf(t, i, e, v)
  /\ Atomic!ReversalKinds = ReversalKinds /\ Atomic!Terminal = Terminal
<1>1. /\ Atomic!ReversalKinds = ReversalKinds /\ Atomic!Terminal = Terminal
      /\ Atomic!ExternalKinds = ExternalKinds
  BY DEF ReversalKinds, Atomic!ReversalKinds, Terminal, Atomic!Terminal, ExternalKinds,
     Atomic!ExternalKinds
<1>2. /\ \A c : Atomic!ValidRequest(c) <=> ValidRequest(c)
      /\ \A t : Atomic!NeedsReference(t) <=> NeedsReference(t)
      /\ \A t, w : Atomic!MatchesWallet(t, w) <=> MatchesWallet(t, w)
      /\ \A t, i : Atomic!IsProcessedReversal(t, i) <=> IsProcessedReversal(t, i)
  BY <1>1 DEF ValidRequest, Atomic!ValidRequest, NeedsReference, Atomic!NeedsReference,
     MatchesWallet, Atomic!MatchesWallet, IsProcessedReversal, Atomic!IsProcessedReversal
<1>3. /\ \A c : Atomic!NewExternal(c) = NewExternal(c)
      /\ \A t : Atomic!Stored(t) = Stored(t)
      /\ \A t, i : Atomic!Resolved(t, i) = Resolved(t, i)
  BY DEF NewExternal, Atomic!NewExternal, Stored, Atomic!Stored, Resolved, Atomic!Resolved
<1>4. \A t, w, code : Atomic!Rejected(t, w, code) = Rejected(t, w, code)
  BY DEF Rejected, Atomic!Rejected, Outcome, Atomic!Outcome, MarkRejected,
     Atomic!MarkRejected
<1>5. \A t, w, dir, after : Atomic!Moved(t, w, dir, after) = Moved(t, w, dir, after)
  BY DEF Moved, Atomic!Moved, Outcome, Atomic!Outcome, MarkProcessed, Atomic!MarkProcessed
<1>6. \A t, w : Atomic!Failed(t, w) = Failed(t, w)
  BY DEF Failed, Atomic!Failed, Outcome, Atomic!Outcome
<1>7. \A t, w : Atomic!Credit(t, w) = Credit(t, w)
  BY <1>5, <1>6 DEF Credit, Atomic!Credit, AddOverflows, Atomic!AddOverflows, MinMinor,
     Atomic!MinMinor
<1>8. \A t, w, code : Atomic!Debit(t, w, code) = Debit(t, w, code)
  BY <1>4, <1>5 DEF Debit, Atomic!Debit
<1>9. \A t, w : Atomic!ApplyAlone(t, w) = ApplyAlone(t, w)
  BY DEF ApplyAlone, Atomic!ApplyAlone, Rejected, Atomic!Rejected, Debit, Atomic!Debit,
     Credit, Atomic!Credit, Moved, Atomic!Moved, Failed, Atomic!Failed, Outcome,
     Atomic!Outcome, MarkProcessed, Atomic!MarkProcessed, MarkRejected, Atomic!MarkRejected,
     MatchesWallet, Atomic!MatchesWallet, AddOverflows, Atomic!AddOverflows, MinMinor,
     Atomic!MinMinor
<1>10. \A t, w, at : Atomic!Park(t, w, at) = Park(t, w, at)
  BY DEF Park, Atomic!Park, Rejected, Atomic!Rejected, Outcome, Atomic!Outcome,
     MarkRejected, Atomic!MarkRejected, AwaitReference, Atomic!AwaitReference
<1>11. \A t, r : Atomic!ReferenceFailure(t, r) = ReferenceFailure(t, r)
  BY DEF ReferenceFailure, Atomic!ReferenceFailure, AllowedReference,
     Atomic!AllowedReference, SameContext, Atomic!SameContext, ReversalKinds,
     Atomic!ReversalKinds
<1>12. \A t, w, kind : Atomic!ApplyResolved(t, w, kind) = ApplyResolved(t, w, kind)
  BY <1>7, <1>8 DEF ApplyResolved, Atomic!ApplyResolved
<1>13. \A t, i, e, v : Atomic!EventsOf(t, i, e, v) = EventsOf(t, i, e, v)
  BY DEF EventsOf, Atomic!EventsOf, BalanceChanged, Atomic!BalanceChanged, ProcessedEvent,
     Atomic!ProcessedEvent, RejectedEvent, Atomic!RejectedEvent, PendingReferenceEvent,
     Atomic!PendingReferenceEvent
<1> QED
  BY <1>1, <1>2, <1>3, <1>4, <1>9, <1>10, <1>11, <1>12, <1>13

\* What a session decided is an outcome of executing its operation alone.
LEMMA ChoiceIsOutcome ==
  ASSUME NEW t, NEW w, NEW o, Choice(txs, t, w, o)
  PROVE  o \in Atomic!Outcomes(t, w)
<1>1. Atomic!References(t) = Referred(txs, t)
  BY DEF Atomic!References, Referred
<1>2. CASE Alone(t, w, o)
  BY <1>2, SameRules DEF Alone, NeedsRow, Atomic!Outcomes
<1>3. CASE Parks(txs, t, w, o)
  <2>1. PICK at \in RetryTimes : o = Park(t, w, at)
    BY <1>3 DEF Parks
  <2>2. /\ at \in {a \in RetryTimes : \A i \in Atomic!References(t) :
                    txs[i].status \notin Terminal \/ txs[i].cmd.wallet # t.cmd.wallet}
        /\ MatchesWallet(t, w) /\ NeedsReference(t)
    BY <1>1, <1>3 DEF Parks, Missing, NeedsRow
  <2> QED
    BY <2>1, <2>2, SameRules DEF Atomic!Outcomes
<1>4. CASE Refuses(txs, t, w, o)
  <2>1. PICK i \in Referred(txs, t) :
          /\ txs[i].status \in Terminal /\ ReferenceFailure(t, txs[i]) # Null
          /\ o = Rejected(t, w, ReferenceFailure(t, txs[i]))
    BY <1>4 DEF Refuses
  <2>2. MatchesWallet(t, w) /\ NeedsReference(t)
    BY <1>4 DEF Refuses, NeedsRow
  <2> QED
    BY <1>1, <2>1, <2>2, SameRules DEF Atomic!Outcomes
<1>5. CASE Accepts(txs, t, w, o)
  <2>1. PICK i \in Referred(txs, t) :
          /\ Names(txs, t, i)
          /\ o = IF t.cmd.kind \in ReversalKinds /\ Reversed(txs, i)
                 THEN Rejected(t, w, "REFERENCE_ALREADY_REVERSED")
                 ELSE ApplyResolved(Resolved(t, i), w, txs[i].cmd.kind)
    BY <1>5 DEF Accepts
  <2>2. MatchesWallet(t, w) /\ NeedsReference(t)
    BY <1>5 DEF Accepts, NeedsRow
  <2>3. txs[i].status \in Terminal /\ ReferenceFailure(t, txs[i]) = Null
    BY <2>1 DEF Names
  <2> QED
    BY <1>1, <2>1, <2>2, <2>3, SameRules DEF Atomic!Outcomes, Reversed
<1> QED
  BY <1>2, <1>3, <1>4, <1>5 DEF Choice

\* A commit leaves behind what the atomic operation does.
LEMMA CommitLeaves ==
  ASSUME HistoryInv, NEW s \in Sessions, pc[s] = "commit", CommitRows(s)
  PROVE  Atomic!Leaves(IdOf(s), Result(s))
<1> DEFINE w == Cmd(s).wallet
           o == Result(s)
           i == IdOf(s)
<1>1. TypeOK /\ FreshCopy /\ pc[s] \in Locked /\ w \in Wallets
  BY BeforeUndecided DEF HistoryInv, Inv, WalletLockHolds, SessionsInv, Locked
<1>2. o.tx = tx[s] /\ o.row = row[s] /\ o.entry = entry[s] /\ o.tx.cmd.wallet = w
  BY DEF Result, Cmd
<1>3. wallets' = [wallets EXCEPT ![w] = o.row]
  <2>1. CASE entry[s] = Null
    <3>1. row[s] = wallets[w] /\ wallets' = wallets
      BY <1>1, <2>1 DEF FreshCopy, CommitRows
    <3> QED
      BY <1>1, <1>2, <3>1 DEF TypeOK, TablesOK
  <2>2. CASE entry[s] # Null
    BY <1>2, <2>2 DEF CommitRows
  <2> QED
    BY <2>1, <2>2
<1>4. ledger' = IF o.entry = Null THEN ledger
                ELSE [ledger EXCEPT ![w] = Append(@,
                        [tx |-> i, dir |-> o.entry.dir, amount |-> o.entry.amount,
                         before |-> o.entry.before, after |-> o.entry.after])]
  BY <1>2 DEF CommitRows
<1>5. outbox' = outbox \o Atomic!EventsOf(o.tx, i, o.entry, o.row.version)
  BY <1>2, SameRules DEF CommitRows
<1> HIDE DEF o, i, w
<1>6. Atomic!Leaves(i, o)
  BY <1>2, <1>3, <1>4, <1>5 DEF Atomic!Leaves
<1> QED
  BY <1>6 DEF o, i

\* A commit executes its operation, receives the message that carries it, or
\* resumes the operation it claimed.
LEMMA CommitIsAtomic ==
  ASSUME HistoryInv, NEW s \in Sessions, pc[s] = "commit", CommitRows(s)
  PROVE  Atomic!AtomicNext
<1> DEFINE c == Cmd(s)
           w == c.wallet
           o == Result(s)
<1>1. /\ TypeOK /\ FreshCopy /\ SessionInv(s) /\ pc[s] \in Locked /\ w \in Wallets
      /\ tx[s].cmd = c
  BY BeforeUndecided DEF HistoryInv, Inv, WalletLockHolds, SessionsInv, Locked
<1>2. wallets[w] # Null
  BY <1>1 DEF FreshCopy
<1>3. o \in Atomic!Outcomes(Before(s), wallets[w])
  BY <1>1, ChoiceIsOutcome DEF SessionInv, Decided
<1>4. ~o.error /\ o.tx = tx[s]
  BY DEF Result
<1>5. Atomic!Leaves(IdOf(s), o)
  BY CommitLeaves
<1> HIDE DEF o
<1>6. CASE claim[s] = 0
  <2>1. /\ Before(s) = NewExternal(c) /\ txs' = Append(txs, Stored(o.tx))
        /\ IdOf(s) = Len(txs) + 1
    BY <1>4, <1>6 DEF Before, CommitRows, IdOf
  <2>2. ValidRequest(c) /\ (msg[s] # Null \/ c \in Commands)
    BY <1>1, <1>6 DEF SessionInv, Origin, Locked
  <2>3. \A i \in DOMAIN txs : txs[i].cmd.provider = c.provider =>
          txs[i].cmd.key # c.key /\ txs[i].cmd.ext # c.ext
    BY <1>1, <1>6 DEF SessionInv, ClearToCommit, SameUniqueKey
  <2> HIDE DEF c
  <2>4. Atomic!Execute(c)
    BY <1>2, <1>3, <1>4, <1>5, <2>1, <2>2, <2>3, SameRules DEF Atomic!Execute
  <2>5. CASE msg[s] = Null
    <3>1. c \in Commands /\ inbox' = inbox
      BY <2>2, <2>5 DEF CommitRows, CommitInbox
    <3> QED
      BY <2>4, <3>1 DEF Atomic!AtomicNext
  <2>6. CASE msg[s] # Null
    <3>1. /\ msg[s] \in Messages /\ c = msg[s].cmd /\ inbox' = inbox \cup {msg[s]}
          /\ \A m \in inbox : m.id # msg[s].id
      BY <1>1, <2>6 DEF TypeOK, SessionsOK, Optional, SessionInv, Origin, Unrecorded, Recording,
         RecordsInbox, Locked, CommitRows, CommitInbox, c
    <3>2. Atomic!Receive(msg[s])
      BY <2>4, <3>1 DEF Atomic!Receive
    <3> QED
      BY <3>1, <3>2 DEF Atomic!AtomicNext
  <2> QED
    BY <2>5, <2>6
<1>7. CASE claim[s] # 0
  <2> DEFINE i == claim[s]
  <2>1. /\ i \in DOMAIN txs /\ txs[i].status = "PENDING_REFERENCE" /\ txs[i].cmd = c
        /\ Before(s) = txs[i] /\ IdOf(s) = i
    BY <1>1, <1>7 DEF SessionInv, Claims, Before, IdOf
  <2>2. txs' = [txs EXCEPT ![i] = Stored(o.tx)]
    BY <1>4, <1>7 DEF CommitRows, IdOf
  <2>3. inbox' = inbox
    BY <1>1, <1>7, SessionsAssumption DEF SessionInv, Origin, Claims, CommitRows, CommitInbox
  <2>4. Atomic!Resume(i)
    BY <1>3, <1>4, <1>5, <2>1, <2>2, <2>3, SameRules DEF Atomic!Resume
  <2> QED
    BY <2>1, <2>4 DEF Atomic!AtomicNext
<1> QED
  BY <1>6, <1>7

\* A lookup that finds the operation of its session receives the message that
\* carries it, or changes no table.
LEMMA ReplayIsAtomic ==
  ASSUME HistoryInv, NEW s \in Sessions, pc[s] \notin {"idle", "inbox"},
         NEW i \in DOMAIN txs, txs[i].cmd = Cmd(s), Replay(s, i)
  PROVE  Atomic!AtomicNext \/ UNCHANGED db
<1>1. TypeOK /\ SessionInv(s)
  BY DEF HistoryInv, Inv, SessionsInv
<1>2. CASE msg[s] = Null
  BY <1>2 DEF Replay, CommitInbox, db
<1>3. CASE msg[s] # Null
  <2>1. /\ msg[s] \in Messages /\ txs[i].cmd = msg[s].cmd /\ inbox' = inbox \cup {msg[s]}
        /\ \A m \in inbox : m.id # msg[s].id
    BY <1>1, <1>3 DEF TypeOK, SessionsOK, Optional, SessionInv, Origin, Unrecorded,
       Recording, RecordsInbox, Replay, CommitInbox
  <2>2. Atomic!Receive(msg[s])
    BY <2>1 DEF Atomic!Receive, Replay
  <2> QED
    BY <2>1, <2>2 DEF Atomic!AtomicNext
<1> QED
  BY <1>2, <1>3

\* OpenWallet is one step of the atomic specification already.
LEMMA OpenIsAtomic ==
  ASSUME NEW o \in Openings, OpenWallet(o)
  PROVE  Atomic!AtomicNext
<1>1. /\ Atomic!MarkProcessed(Atomic!NewOpening(o.wallet, o.player, o.currency, o.amount),
                              o.amount, o.currency) = Opened(o)
      /\ \A i : Atomic!ProcessedEvent(i) = ProcessedEvent(i)
      /\ \A i : Atomic!BalanceChanged(i, 1) = BalanceChanged(i, 1)
  BY DEF Opened, MarkProcessed, Atomic!MarkProcessed, NewOpening, Atomic!NewOpening,
         NewExternal, Atomic!NewExternal, ProcessedEvent, Atomic!ProcessedEvent,
         BalanceChanged, Atomic!BalanceChanged
<1>2. /\ o.amount = 0 => UNCHANGED << txs, ledger, outbox >>
      /\ o.amount # 0 =>
           /\ txs' = Append(txs, Opened(o))
           /\ ledger' = [ledger EXCEPT ![o.wallet] = Append(@,
                 [tx |-> Len(txs) + 1, dir |-> "CREDIT", amount |-> o.amount, before |-> 0,
                  after |-> o.amount])]
           /\ outbox' = outbox \o
                << Atomic!ProcessedEvent(Len(txs) + 1), Atomic!BalanceChanged(Len(txs) + 1, 1) >>
  BY <1>1 DEF OpenWallet, Opened
<1>3. Atomic!Open(o)
  BY <1>1, <1>2 DEF Atomic!Open, OpenWallet
<1> QED
  BY <1>3 DEF Atomic!AtomicNext

\* ActsAtomically: every behaviour of the service, whatever its sessions and
\* however their statements interleave, changes its five tables as the
\* operations executed one by one do.
THEOREM Serialisable == Spec => ActsAtomically
<1>1. Init => Atomic!AtomicInit
  BY DEF Init, Atomic!AtomicInit
<1>2. HistoryInv /\ [Next]_vars => [Atomic!AtomicNext]_(Atomic!atomicVars)
  BY TablesStep, CommitIsAtomic, ReplayIsAtomic, OpenIsAtomic DEF Atomic!atomicVars, db
<1> QED
  BY <1>1, <1>2, HistoryInvariance, PTL DEF Spec, ActsAtomically, Atomic!AtomicSpec

-----------------------------------------------------------------------------
(* Reconcile *)

\* What holds at 0 and goes on from k to k + 1 up to n holds at n.
LEMMA Counting ==
  ASSUME NEW n \in Nat, NEW S \in SUBSET (0 .. n), 0 \in S,
         \A k \in S : k < n => k + 1 \in S
  PROVE  n \in S
<1> DEFINE T == (0 .. n) \ S
<1> SUFFICES ASSUME n \notin S PROVE FALSE
  OBVIOUS
<1>1. T \subseteq Nat /\ T # {}
  OBVIOUS
<1>2. PICK x \in T : \A y \in T : ~ (<< y, x >> \in OpToRel(<, Nat))
  <2> HIDE DEF T
  <2> QED
    BY <1>1, NatLessThanWellFounded, WFMin
<1>3. x \in 1 .. n /\ x - 1 \in S
  <2>1. x \in 1 .. n
    OBVIOUS
  <2>2. << x - 1, x >> \in OpToRel(<, Nat)
    BY <2>1 DEF OpToRel
  <2> QED
    <3>1. x - 1 \notin T
      BY <1>2, <2>2
    <3> QED
      BY <2>1, <3>1
<1> QED
  BY <1>3

\* A running total starts at 0 and adds the entries of its direction.
LEMMA RunningTotalDefined ==
  ASSUME NEW l \in Seq(LedgerRow), NEW dir
  PROVE  LET sum == RunningTotal(l, dir)
         IN /\ sum[0] = 0
            /\ \A k \in 1 .. Len(l) : 
                  sum[k] = sum[k - 1] + (IF l[k].dir = dir THEN l[k].amount ELSE 0)
<1> DEFINE a(k) == IF l[k].dir = dir THEN l[k].amount ELSE 0
           n == Len(l)
           Upto(m, f) == f = [k \in 0 .. m |-> IF k = 0 THEN 0 ELSE f[k - 1] + a(k)]
           S == {m \in 0 .. n : \E f : Upto(m, f)}
<1>1. n \in S
  <2>1. n \in Nat
    OBVIOUS
  <2>2. 0 \in S
    <3>1. Upto(0, [k \in {0} |-> 0])
      OBVIOUS
    <3> HIDE DEF Upto
    <3> QED
      BY <2>1, <3>1
  <2>3. ASSUME NEW m \in S, m < n
        PROVE  m + 1 \in S
    <3>1. PICK f : Upto(m, f)
      OBVIOUS
    <3> DEFINE g == [k \in 0 .. m + 1 |-> IF k \in 0 .. m THEN f[k] ELSE f[m] + a(m + 1)]
    <3>2. ASSUME NEW k \in 0 .. m + 1
          PROVE  g[k] = IF k = 0 THEN 0 ELSE g[k - 1] + a(k)
      <4> HIDE DEF a, n
      <4>0. m \in Nat
        OBVIOUS
      <4>1. CASE k \in 0 .. m
        <5>1. g[k] = f[k]
          BY <4>1
        <5>2. f[k] = IF k = 0 THEN 0 ELSE f[k - 1] + a(k)
          BY <4>1, <3>1
        <5>3. k # 0 => g[k - 1] = f[k - 1]
          BY <4>1, <4>0
        <5> QED
          BY <5>1, <5>2, <5>3
      <4>2. CASE k = m + 1
        BY <4>0, <4>2
      <4> QED
        BY <4>0, <4>1, <4>2
    <3>3. Upto(m + 1, g)
      <4> HIDE DEF a, n
      <4> QED
        BY <3>2
    <3> HIDE DEF Upto, g
    <3> QED
      BY <2>1, <2>3, <3>3
  <2> HIDE DEF S, n
  <2> QED
    BY <2>1, <2>2, <2>3, Counting DEF S
<1>2. Upto(n, RunningTotal(l, dir))
  BY <1>1 DEF RunningTotal
<1> QED
  BY <1>2

\* Along a chain, credits less debits are the balance after the entry.
LEMMA ChainSums ==
  ASSUME NEW l \in Seq(LedgerRow),
         \A k \in DOMAIN l : Follows(l[k], IF k = 1 THEN 0 ELSE l[k - 1].after)
  PROVE  LET credits == RunningTotal(l, "CREDIT")[Len(l)]
             debits  == RunningTotal(l, "DEBIT")[Len(l)]
         IN /\ credits \in Nat /\ debits \in Nat
            /\ credits - debits = IF l = << >> THEN 0 ELSE l[Len(l)].after
<1> DEFINE C == RunningTotal(l, "CREDIT")
           D == RunningTotal(l, "DEBIT")
           n == Len(l)
           S == {k \in 0 .. n : /\ C[k] \in Nat /\ D[k] \in Nat
                                /\ C[k] - D[k] = IF k = 0 THEN 0 ELSE l[k].after}
<1>1. n \in Nat /\ DOMAIN l = 1 .. n /\ \A k \in 1 .. n : l[k] \in LedgerRow
  OBVIOUS
<1>2. /\ C[0] = 0
      /\ \A k \in 1 .. n : C[k] = C[k - 1] + (IF l[k].dir = "CREDIT" THEN l[k].amount ELSE 0)
  BY RunningTotalDefined
<1>3. /\ D[0] = 0
      /\ \A k \in 1 .. n : D[k] = D[k - 1] + (IF l[k].dir = "DEBIT" THEN l[k].amount ELSE 0)
  BY RunningTotalDefined
<1> HIDE DEF C, D, n
<1>4. ASSUME NEW k \in S, k < n
      PROVE  k + 1 \in S
  <2> DEFINE before == IF k = 0 THEN 0 ELSE l[k].after
  <2>1. k + 1 \in 1 .. n /\ k \in Nat /\ (k + 1) - 1 = k
    BY <1>1, <1>4
  <2>2. l[k + 1] \in LedgerRow /\ Follows(l[k + 1], before)
    <3>1. Follows(l[k + 1], IF k + 1 = 1 THEN 0 ELSE l[(k + 1) - 1].after)
      <4> HIDE DEF S
      <4> QED
        BY <1>1, <2>1
    <3>2. (IF k + 1 = 1 THEN 0 ELSE l[(k + 1) - 1].after) = before
      BY <2>1
    <3> QED
      BY <1>1, <2>1, <3>1, <3>2, Zenon
  <2>3. /\ C[k + 1] = C[k] + (IF l[k + 1].dir = "CREDIT" THEN l[k + 1].amount ELSE 0)
        /\ D[k + 1] = D[k] + (IF l[k + 1].dir = "DEBIT" THEN l[k + 1].amount ELSE 0)
    BY <1>2, <1>3, <2>1
  <2>4. C[k] \in Nat /\ D[k] \in Nat /\ C[k] - D[k] = before
    OBVIOUS
  <2> HIDE DEF before, S
  <2>5. /\ C[k + 1] \in Nat /\ D[k + 1] \in Nat
        /\ C[k + 1] - D[k + 1] = l[k + 1].after
    <3> DEFINE e == l[k + 1]
    <3>1. /\ e.amount \in Nat /\ e.before \in Nat /\ e.after \in Nat
          /\ e.dir \in {"DEBIT", "CREDIT"}
      BY <2>2 DEF LedgerRow
    <3>2. /\ e.before = before
          /\ e.after = IF e.dir = "CREDIT" THEN e.before + e.amount ELSE e.before - e.amount
      BY <2>2 DEF Follows
    <3>3. /\ C[k + 1] = C[k] + (IF e.dir = "CREDIT" THEN e.amount ELSE 0)
          /\ D[k + 1] = D[k] + (IF e.dir = "DEBIT" THEN e.amount ELSE 0)
      BY <2>3
    <3> HIDE DEF e
    <3>4. CASE e.dir = "CREDIT"
      <4>1. /\ C[k + 1] = C[k] + e.amount /\ D[k + 1] = D[k] + 0
            /\ e.after = before + e.amount
        BY <3>2, <3>3, <3>4
      <4>2. C[k + 1] \in Nat /\ D[k + 1] \in Nat /\ C[k + 1] - D[k + 1] = e.after
        BY <2>4, <3>1, <4>1
      <4> QED
        BY <4>2 DEF e
    <3>5. CASE e.dir = "DEBIT"
      <4>1. /\ C[k + 1] = C[k] + 0 /\ D[k + 1] = D[k] + e.amount
            /\ e.after = before - e.amount
        BY <3>2, <3>3, <3>5
      <4>2. C[k + 1] \in Nat /\ D[k + 1] \in Nat /\ C[k + 1] - D[k + 1] = e.after
        BY <2>4, <3>1, <4>1
      <4> QED
        BY <4>2 DEF e
    <3> QED
      BY <3>1, <3>4, <3>5
  <2>6. k + 1 \in 0 .. n /\ k + 1 # 0
    BY <1>1, <2>1
  <2> QED
    BY <2>5, <2>6 DEF S
<1>5. 0 \in S
  BY <1>1, <1>2, <1>3
<1>6. n \in S
  <2> HIDE DEF S
  <2> QED
    BY <1>1, <1>4, <1>5, Counting DEF S
<1> QED
  BY <1>1, <1>6 DEF C, D, n

\* Reconcile agrees with the balance of every wallet whose totals it can
\* compute.
LEMMA ChainReconciles ==
  ASSUME TypeOK, LedgerChain
  PROVE  ReconcileConsistent
<1> SUFFICES ASSUME NEW w \in Wallets, wallets[w] # Null
             PROVE  Reconcile(w).difference = 0
  BY DEF ReconcileConsistent
<1>1. ledger[w] \in Seq(LedgerRow) /\ wallets[w] \in WalletRow
  BY DEF TypeOK, TablesOK, Optional
<1>2. /\ \A k \in DOMAIN ledger[w] :
           Follows(ledger[w][k], IF k = 1 THEN 0 ELSE ledger[w][k - 1].after)
      /\ wallets[w].balance =
           IF ledger[w] = << >> THEN 0 ELSE ledger[w][Len(ledger[w])].after
  BY DEF LedgerChain
<1>3. Total(w, "CREDIT") - Total(w, "DEBIT") = wallets[w].balance
  BY <1>1, <1>2, ChainSums DEF Total
<1>4. wallets[w].balance \in Int
  BY <1>1 DEF WalletRow
<1> QED
  BY <1>3, <1>4 DEF Reconcile

\* ReconcileConsistent always holds: Reconcile never reports a divergence
\* between the balance of a wallet and its credits less its debits.
THEOREM ReconcileAgrees == Spec => []ReconcileConsistent
<1>1. Inv => ReconcileConsistent
  BY ChainReconciles DEF Inv
<1> QED
  BY <1>1, Invariance, PTL

-----------------------------------------------------------------------------
(* Retries *)

\* A function on 0 .. n can be made step by step.
LEMMA Iterates ==
  ASSUME NEW n \in Nat, NEW a \in Int, NEW f \in [Nat -> [Int -> Int]]
  PROVE  \E g \in [0 .. n -> Int] : g[0] = a /\ \A i \in 1 .. n : g[i] = f[i][g[i - 1]]
<1> DEFINE Upto(m, g) == /\ g \in [0 .. m -> Int] /\ g[0] = a
                         /\ \A i \in 1 .. m : g[i] = f[i][g[i - 1]]
           S == {m \in 0 .. n : \E g : Upto(m, g)}
<1>1. 0 \in S
  <2>1. Upto(0, [i \in 0 .. 0 |-> a])
    OBVIOUS
  <2> HIDE DEF Upto
  <2> QED
    BY <2>1
<1>2. ASSUME NEW m \in S, m < n PROVE m + 1 \in S
  <2>1. PICK g : Upto(m, g)
    OBVIOUS
  <2> DEFINE y == f[m + 1][g[m]]
             h == [i \in 0 .. m + 1 |-> IF i = m + 1 THEN y ELSE g[i]]
  <2>2. m \in Nat /\ m + 1 \in 0 .. n
    BY <1>2
  <2>3. h \in [0 .. m + 1 -> Int] /\ h[0] = a
    <3>1. g \in [0 .. m -> Int] /\ g[0] = a
      BY <2>1
    <3>2. m + 1 \in Nat /\ g[m] \in Int
      BY <2>2, <3>1
    <3>3. f[m + 1] \in [Int -> Int]
      BY <3>2
    <3>4. y \in Int
      BY <3>2, <3>3
    <3> HIDE DEF S, Upto, y
    <3>5. \A i \in 0 .. m + 1 : i # m + 1 => i \in 0 .. m
      BY <2>2
    <3>6. h \in [0 .. m + 1 -> Int]
      BY <3>1, <3>4, <3>5
    <3>7. h[0] = a
      BY <2>2, <3>1
    <3> QED
      BY <3>6, <3>7
  <2>4. ASSUME NEW i \in 1 .. m + 1 PROVE h[i] = f[i][h[i - 1]]
    <3>1. h[i - 1] = g[i - 1]
      BY <2>2
    <3>2. CASE i = m + 1
      BY <2>2, <3>1, <3>2
    <3>3. CASE i \in 1 .. m
      BY <2>1, <2>2, <3>1, <3>3
    <3> QED
      BY <2>2, <3>2, <3>3
  <2>5. Upto(m + 1, h)
    BY <2>3, <2>4
  <2> HIDE DEF Upto, h
  <2> QED
    BY <2>2, <2>5
<1> HIDE DEF Upto
<1>3. n \in S
  <2> HIDE DEF S
  <2> QED
    BY <1>1, <1>2, Counting DEF S
<1> QED
  BY <1>3 DEF Upto

\* Doubling does not overflow up to half of what a duration can hold.
LEMMA TwiceFits ==
  ASSUME NEW d \in Nat, 2 * d <= MaxDuration
  PROVE  Twice(d) = 2 * d
<1>1. MaxDuration \in Nat
  BY DurationAssumption
<1>2. ASSUME NEW x \in Nat, NEW y \in Nat, x < y PROVE x % y = x
  BY <1>2, SMTT(30)
<1>3. (2 * d + MaxDuration + 1) % (2 * (MaxDuration + 1)) = 2 * d + MaxDuration + 1
  BY <1>1, <1>2
<1> QED
  BY <1>1, <1>3 DEF Twice

\* d along the attempts of the loop, r along those of the reference.
Loops(d, base, max, n) ==
  /\ d[0] = base
  /\ \A i \in 1 .. n : d[i] = IF i = 1 THEN base
                           ELSE IF d[i - 1] < max THEN Twice(d[i - 1]) ELSE d[i - 1]

Doubles(r, base, n) ==
  r[0] = base /\ \A i \in 1 .. n : r[i] = IF i = 1 THEN base ELSE 2 * r[i - 1]

LEMMA DelayDefined ==
  ASSUME NEW base \in Nat, NEW max \in Nat, NEW n \in Nat
  PROVE  \E d : Loops(d, base, max, n) /\ Delay(base, max, n) = d[n]
<1> DEFINE D(d) == d = [i \in 0 .. n |-> IF i <= 1 THEN base
                          ELSE IF d[i - 1] < max THEN Twice(d[i - 1]) ELSE d[i - 1]]
           f == [i \in Nat |-> [x \in Int |->
                   IF i <= 1 THEN base ELSE IF x < max THEN Twice(x) ELSE x]]
<1>1. base \in Int /\ f \in [Nat -> [Int -> Int]]
  BY DurationAssumption DEF Twice
<1> HIDE DEF D, f
<1>2. PICK g \in [0 .. n -> Int] : g[0] = base /\ \A i \in 1 .. n : g[i] = f[i][g[i - 1]]
  BY <1>1, Iterates, ZenonT(60)
<1>3. ASSUME NEW i \in 0 .. n
      PROVE  g[i] = IF i <= 1 THEN base
                    ELSE IF g[i - 1] < max THEN Twice(g[i - 1]) ELSE g[i - 1]
  <2>1. CASE i = 0
    BY <1>2, <2>1
  <2>2. CASE i # 0
    <3>1. i \in 1 .. n /\ i \in Nat /\ g[i - 1] \in Int
      BY <2>2
    <3>2. g[i] = f[i][g[i - 1]]
      BY <1>2, <3>1
    <3> QED
      BY <3>1, <3>2 DEF f
  <2> QED
    BY <2>1, <2>2
<1>4. D(g)
  BY <1>3 DEF D
<1>5. PICK d : D(d) /\ Delay(base, max, n) = d[n]
  <2> DEFINE c == CHOOSE d : D(d)
  <2>1. D(c)
    BY <1>4
  <2>2. Delay(base, max, n) = c[n]
    BY DEF Delay, D
  <2> HIDE DEF c
  <2> QED
    BY <2>1, <2>2
<1>6. ASSUME NEW i \in 0 .. n
      PROVE  d[i] = IF i <= 1 THEN base
                    ELSE IF d[i - 1] < max THEN Twice(d[i - 1]) ELSE d[i - 1]
  BY <1>5 DEF D
<1>7. Loops(d, base, max, n)
  BY <1>6 DEF Loops
<1> QED
  BY <1>5, <1>7

LEMMA DoubledDefined ==
  ASSUME NEW base \in Nat, NEW n \in Nat
  PROVE  \E r : Doubles(r, base, n) /\ Doubled(base, n) = r[n]
<1> DEFINE R(r) == r = [i \in 0 .. n |-> IF i <= 1 THEN base ELSE 2 * r[i - 1]]
           f == [i \in Nat |-> [x \in Int |-> IF i <= 1 THEN base ELSE 2 * x]]
<1>1. base \in Int /\ f \in [Nat -> [Int -> Int]]
  OBVIOUS
<1> HIDE DEF R, f
<1>2. PICK g \in [0 .. n -> Int] : g[0] = base /\ \A i \in 1 .. n : g[i] = f[i][g[i - 1]]
  BY <1>1, Iterates, ZenonT(60)
<1>3. ASSUME NEW i \in 0 .. n PROVE g[i] = IF i <= 1 THEN base ELSE 2 * g[i - 1]
  <2>1. CASE i = 0
    BY <1>2, <2>1
  <2>2. CASE i # 0
    <3>1. i \in 1 .. n /\ i \in Nat /\ g[i - 1] \in Int
      BY <2>2
    <3>2. g[i] = f[i][g[i - 1]]
      BY <1>2, <3>1
    <3> QED
      BY <3>1, <3>2 DEF f
  <2> QED
    BY <2>1, <2>2
<1>4. R(g)
  BY <1>3 DEF R
<1>5. PICK r : R(r) /\ Doubled(base, n) = r[n]
  <2> DEFINE c == CHOOSE r : R(r)
  <2>1. R(c)
    BY <1>4
  <2>2. Doubled(base, n) = c[n]
    BY DEF Doubled, R
  <2> HIDE DEF c
  <2> QED
    BY <2>1, <2>2
<1>6. ASSUME NEW i \in 0 .. n PROVE r[i] = IF i <= 1 THEN base ELSE 2 * r[i - 1]
  BY <1>5 DEF R
<1>7. Doubles(r, base, n)
  BY <1>6 DEF Doubles
<1> QED
  BY <1>5, <1>7

\* The loop never leaves the integers it can hold: its d is the base doubled, or
\* both have met the limit.
LEMMA BackoffIsIdeal ==
  ASSUME NEW base \in Nat \ {0}, NEW max \in Nat \ {0}, 2 * max <= MaxDuration + 1,
         NEW n \in Nat
  PROVE  /\ backoff(base, max, n) = Ideal(base, max, n)
         /\ backoff(base, max, n) \in 1 .. max
         /\ Doubled(base, n) \in Nat \ {0}
<1>0. base \in Nat /\ max \in Nat
  OBVIOUS
<1>1. PICK d : Loops(d, base, max, n) /\ Delay(base, max, n) = d[n]
  BY <1>0, DelayDefined
<1>2. PICK r : Doubles(r, base, n) /\ Doubled(base, n) = r[n]
  BY <1>0, DoubledDefined
<1> DEFINE P(k) == /\ d[k] \in Nat \ {0} /\ r[k] \in Nat \ {0}
                   /\ d[k] = r[k] \/ (d[k] >= max /\ r[k] >= max)
           S == {k \in 0 .. n : P(k)}
<1>3. 0 \in S
  BY <1>1, <1>2 DEF Loops, Doubles
<1>4. ASSUME NEW k \in S, k < n PROVE k + 1 \in S
  <2>1. k \in 0 .. n /\ k + 1 \in 1 .. n /\ (k + 1) - 1 = k /\ P(k)
    BY <1>4
  <2>2. d[k + 1] = IF k + 1 = 1 THEN base ELSE IF d[k] < max THEN Twice(d[k]) ELSE d[k]
    BY <1>1, <2>1 DEF Loops
  <2>3. r[k + 1] = IF k + 1 = 1 THEN base ELSE 2 * r[k]
    BY <1>2, <2>1 DEF Doubles
  <2>4. d[k] < max => Twice(d[k]) = 2 * d[k]
    BY <2>1, TwiceFits, DurationAssumption
  <2>5. P(k + 1)
    BY <2>1, <2>2, <2>3, <2>4
  <2> HIDE DEF P
  <2> QED
    BY <2>1, <2>5
<1>5. n \in S
  <2> HIDE DEF P
  <2> QED
    BY <1>3, <1>4, Counting
<1>6. P(n)
  BY <1>5
<1> QED
  BY <1>1, <1>2, <1>6 DEF backoff, Ideal

\* What the reference doubles.
LEMMA DoubledNext ==
  ASSUME NEW base \in Nat, NEW n \in Nat
  PROVE  Doubled(base, n + 1) = IF n = 0 THEN base ELSE 2 * Doubled(base, n)
<1>1. PICK r : Doubles(r, base, n) /\ Doubled(base, n) = r[n]
  BY DoubledDefined
<1>2. PICK q : Doubles(q, base, n + 1) /\ Doubled(base, n + 1) = q[n + 1]
  BY DoubledDefined
<1> DEFINE S == {k \in 0 .. n : q[k] = r[k]}
<1>3. 0 \in S
  BY <1>1, <1>2 DEF Doubles
<1>4. ASSUME NEW k \in S, k < n PROVE k + 1 \in S
  <2>1. /\ k \in 0 .. n /\ k + 1 \in 1 .. n /\ k + 1 \in 1 .. n + 1 /\ (k + 1) - 1 = k
        /\ q[k] = r[k]
    BY <1>4
  <2>2. q[k + 1] = r[k + 1]
    BY <1>1, <1>2, <2>1 DEF Doubles
  <2> QED
    BY <2>1, <2>2
<1>5. n \in S
  <2> HIDE DEF S
  <2> QED
    BY <1>3, <1>4, Counting DEF S
<1>6. q[n] = r[n] /\ n + 1 \in 1 .. n + 1 /\ (n + 1) - 1 = n
  BY <1>5
<1>7. q[n + 1] = IF n + 1 = 1 THEN base ELSE 2 * q[n]
  BY <1>2, <1>6 DEF Doubles
<1> QED
  BY <1>1, <1>2, <1>6, <1>7

\* The attempts' delays, added up.
Sums(t, base, max, n) ==
  t[0] = 0 /\ \A k \in 1 .. n : t[k] = t[k - 1] + backoff(base, max, k)

LEMMA WaitsDefined ==
  ASSUME NEW base \in Nat \ {0}, NEW max \in Nat \ {0}, 2 * max <= MaxDuration + 1,
         NEW n \in Nat
  PROVE  \E t : Sums(t, base, max, n) /\ Waits(base, max, n) = t[n]
<1> DEFINE W(t) == t = [k \in 0 .. n |-> IF k = 0 THEN 0 ELSE t[k - 1] + backoff(base, max, k)]
           f == [k \in Nat |-> [x \in Int |-> x + backoff(base, max, k)]]
<1>1. f \in [Nat -> [Int -> Int]]
  <2>1. \A k \in Nat : backoff(base, max, k) \in Int
    BY BackoffIsIdeal
  <2> QED
    BY <2>1
<1> HIDE DEF W, f
<1>2. PICK g \in [0 .. n -> Int] : g[0] = 0 /\ \A k \in 1 .. n : g[k] = f[k][g[k - 1]]
  <2>1. 0 \in Int
    OBVIOUS
  <2> QED
    BY <1>1, <2>1, Iterates, ZenonT(60)
<1>3. ASSUME NEW k \in 0 .. n
      PROVE  g[k] = IF k = 0 THEN 0 ELSE g[k - 1] + backoff(base, max, k)
  <2>1. CASE k = 0
    BY <1>2, <2>1
  <2>2. CASE k # 0
    <3>1. k \in 1 .. n /\ k \in Nat /\ g[k - 1] \in Int
      BY <2>2
    <3>2. g[k] = f[k][g[k - 1]]
      BY <1>2, <3>1
    <3> QED
      BY <2>2, <3>1, <3>2 DEF f
  <2> QED
    BY <2>1, <2>2
<1>4. W(g)
  BY <1>3 DEF W
<1>5. PICK t : W(t) /\ Waits(base, max, n) = t[n]
  <2> DEFINE c == CHOOSE t : W(t)
  <2>1. W(c)
    BY <1>4
  <2>2. Waits(base, max, n) = c[n]
    BY DEF Waits, W
  <2> HIDE DEF c
  <2> QED
    BY <2>1, <2>2
<1>6. ASSUME NEW k \in 0 .. n
      PROVE  t[k] = IF k = 0 THEN 0 ELSE t[k - 1] + backoff(base, max, k)
  BY <1>5 DEF W
<1>7. Sums(t, base, max, n)
  BY <1>6 DEF Sums
<1> QED
  BY <1>5, <1>7

\* The figures of the documentation.
LEMMA Documented == AsDocumented
<1>1. \A b \in {1, 2}, k \in 1 .. 12 :
        Doubled(b, k) = IF k = 1 THEN b ELSE 2 * Doubled(b, k - 1)
  <2> SUFFICES ASSUME NEW b \in {1, 2}, NEW k \in 1 .. 12
               PROVE  Doubled(b, k) = IF k = 1 THEN b ELSE 2 * Doubled(b, k - 1)
    OBVIOUS
  <2>1. b \in Nat /\ k - 1 \in Nat /\ (k - 1) + 1 = k
    OBVIOUS
  <2> QED
    BY <2>1, DoubledNext
<1>2. Doubled(1, 1) = 1 /\ Doubled(2, 1) = 2
  BY <1>1
<1>3. Doubled(1, 2) = 2 /\ Doubled(2, 2) = 4
  BY <1>1, <1>2
<1>4. Doubled(1, 3) = 4 /\ Doubled(2, 3) = 8
  BY <1>1, <1>3
<1>5. Doubled(1, 4) = 8 /\ Doubled(2, 4) = 16
  BY <1>1, <1>4
<1>6. Doubled(1, 5) = 16 /\ Doubled(2, 5) = 32
  BY <1>1, <1>5
<1>7. Doubled(1, 6) = 32 /\ Doubled(2, 6) = 64
  BY <1>1, <1>6
<1>8. Doubled(1, 7) = 64 /\ Doubled(2, 7) = 128
  BY <1>1, <1>7
<1>9. Doubled(1, 8) = 128 /\ Doubled(2, 8) = 256
  BY <1>1, <1>8
<1>10. Doubled(1, 9) = 256 /\ Doubled(2, 9) = 512
  BY <1>1, <1>9
<1>11. Doubled(1, 10) = 512 /\ Doubled(2, 10) = 1024
  BY <1>1, <1>10
<1>12. Doubled(1, 11) = 1024 /\ Doubled(2, 11) = 2048
  BY <1>1, <1>11
<1>13. Doubled(1, 12) = 2048 /\ Doubled(2, 12) = 4096
  BY <1>1, <1>12
<1>14. 2 * 300 <= MaxDuration + 1 /\ 2 * 60 <= MaxDuration + 1
  BY DurationAssumption
<1>15. backoff(2, 300, 12) = 300
  <2>1. backoff(2, 300, 12) = Ideal(2, 300, 12)
    BY <1>14, BackoffIsIdeal
  <2> QED
    BY <1>13, <2>1 DEF Ideal
<1>16. ASSUME NEW k \in 1 .. 10
       PROVE  backoff(1, 60, k) = IF Doubled(1, k) > 60 THEN 60 ELSE Doubled(1, k)
  <2>1. 1 \in Nat \ {0} /\ 60 \in Nat \ {0} /\ k \in Nat
    OBVIOUS
  <2>2. backoff(1, 60, k) = Ideal(1, 60, k)
    BY <1>14, <2>1, BackoffIsIdeal, Zenon
  <2> QED
    BY <2>2 DEF Ideal
<1>17. PICK t : Sums(t, 1, 60, 10) /\ Waits(1, 60, 10) = t[10]
  BY <1>14, WaitsDefined
<1>18. t[1] = 1
  <2>1. backoff(1, 60, 1) = 1
    BY <1>2, <1>16
  <2>2. t[1] = t[0] + backoff(1, 60, 1)
    BY <1>17 DEF Sums
  <2> QED
    BY <1>17, <2>1, <2>2 DEF Sums
<1>19. t[2] = 3
  <2>1. backoff(1, 60, 2) = 2
    BY <1>3, <1>16
  <2>2. t[2] = t[1] + backoff(1, 60, 2)
    BY <1>17 DEF Sums
  <2> QED
    BY <1>18, <2>1, <2>2
<1>20. t[3] = 7
  <2>1. backoff(1, 60, 3) = 4
    BY <1>4, <1>16
  <2>2. t[3] = t[2] + backoff(1, 60, 3)
    BY <1>17 DEF Sums
  <2> QED
    BY <1>19, <2>1, <2>2
<1>21. t[4] = 15
  <2>1. backoff(1, 60, 4) = 8
    BY <1>5, <1>16
  <2>2. t[4] = t[3] + backoff(1, 60, 4)
    BY <1>17 DEF Sums
  <2> QED
    BY <1>20, <2>1, <2>2
<1>22. t[5] = 31
  <2>1. backoff(1, 60, 5) = 16
    BY <1>6, <1>16
  <2>2. t[5] = t[4] + backoff(1, 60, 5)
    BY <1>17 DEF Sums
  <2> QED
    BY <1>21, <2>1, <2>2
<1>23. t[6] = 63
  <2>1. backoff(1, 60, 6) = 32
    BY <1>7, <1>16
  <2>2. t[6] = t[5] + backoff(1, 60, 6)
    BY <1>17 DEF Sums
  <2> QED
    BY <1>22, <2>1, <2>2
<1>24. t[7] = 123
  <2>1. backoff(1, 60, 7) = 60
    BY <1>8, <1>16
  <2>2. t[7] = t[6] + backoff(1, 60, 7)
    BY <1>17 DEF Sums
  <2> QED
    BY <1>23, <2>1, <2>2
<1>25. t[8] = 183
  <2>1. backoff(1, 60, 8) = 60
    BY <1>9, <1>16
  <2>2. t[8] = t[7] + backoff(1, 60, 8)
    BY <1>17 DEF Sums
  <2> QED
    BY <1>24, <2>1, <2>2
<1>26. t[9] = 243
  <2>1. backoff(1, 60, 9) = 60
    BY <1>10, <1>16
  <2>2. t[9] = t[8] + backoff(1, 60, 9)
    BY <1>17 DEF Sums
  <2> QED
    BY <1>25, <2>1, <2>2
<1>27. t[10] = 303
  <2>1. backoff(1, 60, 10) = 60
    BY <1>11, <1>16
  <2>2. t[10] = t[9] + backoff(1, 60, 10)
    BY <1>17 DEF Sums
  <2> QED
    BY <1>26, <2>1, <2>2
<1> QED
  BY <1>15, <1>17, <1>27 DEF AsDocumented

\* The loop is right at every attempt.
LEMMA AttemptsRight == RightAttempts = 0 .. LastAttempt
<1> SUFFICES ASSUME NEW n \in 0 .. LastAttempt, NEW b \in Durations, NEW m \in Durations
             PROVE  LET base == Effective(b, 1)
                        max  == Effective(m, 60)
                    IN /\ backoff(base, max, n) = Ideal(base, max, n)
                       /\ backoff(base, max, n) \in 1 .. backoff(base, max, n + 1)
  BY DEF RightAttempts
<1> DEFINE base == Effective(b, 1)
           max  == Effective(m, 60)
<1>1. /\ base \in Nat \ {0} /\ max \in Nat \ {0} /\ 2 * max <= MaxDuration + 1
      /\ n \in Nat /\ n + 1 \in Nat
  BY DurationAssumption DEF Effective
<1> HIDE DEF base, max
<1>2. /\ backoff(base, max, n) = Ideal(base, max, n) /\ backoff(base, max, n) \in 1 .. max
      /\ Doubled(base, n) \in Nat \ {0}
  BY <1>1, BackoffIsIdeal
<1>3. backoff(base, max, n + 1) = Ideal(base, max, n + 1)
  BY <1>1, BackoffIsIdeal
<1>4. Doubled(base, n + 1) >= Doubled(base, n)
  <2>1. Doubled(base, n + 1) = IF n = 0 THEN base ELSE 2 * Doubled(base, n)
    BY <1>1, DoubledNext
  <2>2. Doubled(base, 0) = base
    BY <1>1, DoubledDefined DEF Doubles
  <2> QED
    BY <1>1, <1>2, <2>1, <2>2
<1>5. backoff(base, max, n) \in 1 .. backoff(base, max, n + 1)
  <2>1. Doubled(base, n + 1) \in Nat
    BY <1>1, BackoffIsIdeal
  <2> QED
    BY <1>1, <1>2, <1>3, <1>4, <2>1 DEF Ideal
<1> QED
  BY <1>2, <1>5 DEF base, max

\* BackoffSound: in every reachable state, for every width of the machine's
\* integers and every configuration, the delays of a parked operation double up
\* to their limit.
THEOREM DelaysDouble == Spec => []BackoffSound
<1>1. EffectInv => BackoffSound
  <2> SUFFICES ASSUME EffectInv, NEW i \in DOMAIN txs, txs[i].status = "PENDING_REFERENCE"
               PROVE  txs[i].attempts .. LastAttempt \subseteq RightAttempts /\ AsDocumented
    BY DEF BackoffSound
  <2>1. txs[i].attempts \in Nat
    BY RowNumbers DEF EffectInv, HistoryInv, Inv, Transaction
  <2>2. txs[i].attempts .. LastAttempt \subseteq 0 .. LastAttempt
    BY <2>1, DurationAssumption
  <2> QED
    BY <2>2, AttemptsRight, Documented
<1> QED
  BY <1>1, EffectInvariance, PTL

=============================================================================
