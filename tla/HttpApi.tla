------------------------------- MODULE HttpApi ------------------------------
(***************************************************************************)
(* What callers of the HTTP API see: who may call what, the transactions a *)
(* caller can read, and the pages of a wallet's ledger, read while other   *)
(* sessions write.                                                         *)
(*                                                                         *)
(* The writers are the SQL transactions of WagerService, reduced to what a *)
(* reader can tell: a session holds the wallet row, takes a number from    *)
(* the sequence of wallet_ledger_entries (seq, a BIGSERIAL shared by all   *)
(* wallets, never given back), and commits or rolls back.                  *)
(***************************************************************************)
EXTENDS Amounts, FiniteSets, SequencesExt

CONSTANTS
  Providers,
  NoProvider,       \* a token without the claim providerId, a row without provider
  Wallets,
  ExternalIds,
  NoExt,            \* the opening transaction has no external id
  Sessions,         \* requests that write
  Texts,            \* amounts as they are written in requests
  DefaultLimit,     \* 50
  MaxLimit,         \* 200
  MaxSeq            \* bound: ledger entries appended, the rolled back ones included

ASSUME LimitsAssumption == DefaultLimit \in 1 .. MaxLimit /\ MaxLimit \in Nat
ASSUME NoProviderAssumption == NoProvider \notin Providers
ASSUME TextsAssumption == Texts \subseteq AmountText
ASSUME MaxSeqAssumption == MaxSeq \in Nat

VARIABLES
  wallets,    \* the committed wallets
  rows,       \* wager_transactions: [id, provider, ext, wallet, minor]
  ledger,     \* a wallet's committed entries, in commit order: [seq, minor, sent]
  seq,        \* last number taken
  session,    \* [pc, wallet, provider, ext, minor, sent, seq]
  reader      \* a client that pages: [wallet, cursor, seen, page, next]

vars == << wallets, rows, ledger, seq, session, reader >>

-----------------------------------------------------------------------------
(* Callers *)

Roles == {"provider", "internal"}

\* The Authorization header: none, one that does not verify, or a principal.
Tokens ==
  [kind : {"valid"}, roles : SUBSET Roles, provider : Providers \cup {NoProvider}]
    \cup [kind : {"missing", "invalid"}, roles : {{}}, provider : {NoProvider}]

IsInternal(t) == "internal" \in t.roles
IsProvider(t) == "provider" \in t.roles /\ t.provider # NoProvider

HasRole(t, role) == IF role = "provider" THEN IsProvider(t) ELSE IsInternal(t)

\* An answer: its code, and the rows it shows.
Answer(code, shown) == [code |-> code, shown |-> shown]
Refuse(code)        == Answer(code, {})

\* authenticate: "pass" lets the request on to the route.
authenticate(t) ==
  CASE t.kind = "missing" -> "MISSING_TOKEN"
    [] t.kind = "invalid" -> "INVALID_TOKEN"
    [] OTHER              -> "pass"

\* authenticate, then requireRole.
requireRole(t, role) ==
  IF authenticate(t) = "pass" /\ ~HasRole(t, role) THEN "FORBIDDEN" ELSE authenticate(t)

-----------------------------------------------------------------------------
(* Reading transactions *)

\* Mutant of getTransaction: the row is shown to any provider.
getTransactionUnfiltered(t, id, db) ==
  LET found == {r \in db : r.id = id}
  IN IF authenticate(t) # "pass" THEN Refuse(authenticate(t))
     ELSE IF ~IsInternal(t) /\ ~IsProvider(t) THEN Refuse("FORBIDDEN")
     ELSE IF found = {} THEN Refuse("NOT_FOUND")
     ELSE Answer("OK", found)

getTransaction(t, id, db) ==
  LET found == {r \in db : r.id = id}
      mine  == {r \in found : r.provider = t.provider}
  IN IF authenticate(t) # "pass" THEN Refuse(authenticate(t))
     ELSE IF ~IsInternal(t) /\ ~IsProvider(t) THEN Refuse("FORBIDDEN")
     ELSE IF found = {} \/ (~IsInternal(t) /\ mine = {}) THEN Refuse("NOT_FOUND")
     ELSE Answer("OK", found)

getProviderTransaction(t, provider, ext, db) ==
  LET found == {r \in db : r.provider = provider /\ r.ext = ext}
  IN IF authenticate(t) # "pass" THEN Refuse(authenticate(t))
     ELSE IF ~IsInternal(t) /\ ~(IsProvider(t) /\ t.provider = provider) THEN Refuse("FORBIDDEN")
     ELSE IF found = {} THEN Refuse("NOT_FOUND")
     ELSE Answer("OK", found)

-----------------------------------------------------------------------------
(* Writing *)

Idle == [pc |-> "idle"]

\* A session that has the wallet's row and its transaction to write.
Writing(pc, w, provider, ext, text) ==
  [pc |-> pc, wallet |-> w, provider |-> provider, ext |-> ext,
   minor |-> parseMinor(text).minor, sent |-> text, seq |-> 0]

Holds(s, w) == session[s].pc # "idle" /\ session[s].wallet = w

\* Mutant of Lock: a read without FOR UPDATE.
Unlocked(w) == w \in wallets

\* GetForUpdate: the row exists and no other transaction holds it.
Lock(w) == w \in wallets /\ \A s \in Sessions : ~Holds(s, w)

\* wager_transactions_provider_external_unique, and the wait for an insert that
\* is not committed.
Unused(provider, ext) ==
  /\ \A r \in rows : r.provider # provider \/ r.ext # ext
  /\ \A s \in Sessions : session[s].pc # "idle" =>
       session[s].provider # provider \/ session[s].ext # ext

\* postTransaction and ProcessIn up to the ledger, of an operation that moves
\* money: the caller posts for itself, the amount parses, the operation is new.
postTransaction(s, t, provider, w, ext, text) ==
  /\ requireRole(t, "provider") = "pass" /\ provider = t.provider
  /\ parseMinor(text).ok /\ parseMinor(text).minor > 0
  /\ Lock(w)
  /\ Unused(provider, ext)
  /\ session' = [session EXCEPT ![s] = Writing("append", w, provider, ext, text)]
  /\ UNCHANGED << wallets, rows, ledger, seq, reader >>

\* OpenWallet: a wallet opened with nothing has no opening transaction.
AfterInsert(minor) == IF minor = 0 THEN "commit" ELSE "append"

\* openWallet: a wallet nobody else can see yet.
openWallet(s, t, w, text) ==
  /\ requireRole(t, "internal") = "pass"
  /\ parseMinor(text).ok
  /\ w \notin wallets /\ \A o \in Sessions : ~Holds(o, w)
  /\ session' = [session EXCEPT ![s] =
       Writing(AfterInsert(parseMinor(text).minor), w, NoProvider, NoExt, text)]
  /\ UNCHANGED << wallets, rows, ledger, seq, reader >>

\* Ledger().Append: the row takes its number now, whenever it commits.
Append_(s) ==
  /\ session[s].pc = "append" /\ seq < MaxSeq
  /\ seq' = seq + 1
  /\ session' = [session EXCEPT ![s].pc = "commit", ![s].seq = seq + 1]
  /\ UNCHANGED << wallets, rows, ledger, reader >>

\* The entry, if there is one, and the transaction become visible together.
Commit(s) ==
  LET x == session[s]
  IN /\ x.pc = "commit"
     /\ wallets' = wallets \cup {x.wallet}
     /\ IF x.seq = 0 THEN UNCHANGED << rows, ledger >>
        ELSE /\ rows' = rows \cup {[id |-> x.seq, provider |-> x.provider, ext |-> x.ext,
                                    wallet |-> x.wallet, minor |-> x.minor]}
             /\ ledger' = [ledger EXCEPT ![x.wallet] =
                             Append(@, [seq |-> x.seq, minor |-> x.minor, sent |-> x.sent])]
     /\ session' = [session EXCEPT ![s] = Idle]
     /\ UNCHANGED << seq, reader >>

\* Any failure: the number is lost.
Rollback(s) ==
  /\ session[s].pc # "idle"
  /\ session' = [session EXCEPT ![s] = Idle]
  /\ UNCHANGED << wallets, rows, ledger, seq, reader >>

-----------------------------------------------------------------------------
(* Paging *)

\* ListLedger's own limit: anything unusable is the default.
EffectiveLimit(limit) == IF limit \in 1 .. MaxLimit THEN limit ELSE DefaultLimit

\* ledgerRepo.List: WHERE seq > after ORDER BY seq LIMIT n.
List(w, after, n) ==
  LET l       == ledger[w]
      later   == {k \in DOMAIN l : l[k].seq > after}
      Rank(k) == Cardinality({j \in later : l[j].seq <= l[k].seq})
      count  == IF Cardinality(later) < n THEN Cardinality(later) ELSE n
  IN [i \in 1 .. count|-> l[CHOOSE k \in later : Rank(k) = i]]

NoCursor == 0     \* the empty cursor decodes to 0, and no row has that number

\* Mutant of Page: asks for limit rows and takes a full page for the last.
PageShort(w, after, limit) == [entries |-> List(w, after, limit), next |-> NoCursor]

\* One row more than the limit tells whether there is a next page.
Page(w, after, limit) ==
  LET records == List(w, after, limit + 1)
  IN IF Len(records) > limit
     THEN [entries |-> SubSeq(records, 1, limit), next |-> records[limit].seq]
     ELSE [entries |-> records, next |-> NoCursor]

\* getLedger at the client's cursor, for the first time or again.
getLedger(t, limit) ==
  /\ requireRole(t, "internal") = "pass"
  /\ reader.wallet \in wallets
  /\ LET page == Page(reader.wallet, reader.cursor, EffectiveLimit(limit))
     IN reader' = [reader EXCEPT !.page = page.entries, !.next = page.next]
  /\ UNCHANGED << wallets, rows, ledger, seq, session >>

\* The client goes on with nextCursor.
Follow ==
  /\ reader.next # NoCursor
  /\ reader' = [reader EXCEPT !.cursor = reader.next, !.seen = @ \o reader.page,
                              !.page = << >>, !.next = NoCursor]
  /\ UNCHANGED << wallets, rows, ledger, seq, session >>

-----------------------------------------------------------------------------

Init ==
  /\ wallets = {} /\ rows = {} /\ seq = 0
  /\ ledger = [w \in Wallets |-> << >>]
  /\ session = [s \in Sessions |-> Idle]
  /\ reader \in [wallet : Wallets, cursor : {NoCursor}, seen : {<< >>}, page : {<< >>}, next : {NoCursor}]

\* A request arrives with any token and body; a refused one changes nothing.
Request(s) ==
  /\ session[s].pc = "idle"
  /\ \E t \in Tokens, w \in Wallets, text \in Texts :
       \/ openWallet(s, t, w, text)
       \/ \E p \in Providers, x \in ExternalIds : postTransaction(s, t, p, w, x, text)

Write(s) == Request(s) \/ Append_(s) \/ Commit(s) \/ Rollback(s)

Next ==
  \/ \E s \in Sessions : Write(s)
  \/ \E t \in Tokens, limit \in 0 .. MaxLimit + 1 : getLedger(t, limit)
  \/ Follow

Spec == Init /\ [][Next]_vars

-----------------------------------------------------------------------------

\* Tables, sessions and the reader have their shape; numbers are never reused.
TypeOK ==
  /\ wallets \subseteq Wallets
  /\ seq \in 0 .. MaxSeq
  /\ \A r \in rows : r.id \in 1 .. seq /\ r.minor \in 1 .. MaxMinor /\ r.wallet \in wallets
  /\ \A q, r \in rows : q.id = r.id => q = r
  /\ \A s \in Sessions : 
       session[s] # Idle => session[s].pc \in {"append", "commit"} /\ session[s].seq \in 0 .. seq
  /\ reader.cursor \in 0 .. seq /\ reader.next \in 0 .. seq

\* "Stable order": the pages a client collects by following nextCursor are
\* always the beginning of the wallet's ledger, without a gap or a repetition,
\* although other sessions commit and roll back between the pages.
PagesExact == IsPrefix(reader.seen \o reader.page, ledger[reader.wallet])

\* A page without nextCursor is the last: everything committed when it was
\* read has been shown.
LastPageComplete ==
  [][ reader' # reader /\ reader'.next = NoCursor /\ reader'.cursor = reader.cursor =>
        reader'.seen \o reader'.page = ledger[reader.wallet] ]_vars

\* "Providers only see their own transactions; others look non-existent":
\* whatever a caller that is not internal asks, the answer is the one it would
\* get if nobody else had any transaction.
ProvidersIsolated ==
  \A t \in Tokens : ~IsInternal(t) =>
    LET own == {r \in rows : t.provider # NoProvider /\ r.provider = t.provider}
    IN /\ \A id \in 1 .. MaxSeq : getTransaction(t, id, rows) = getTransaction(t, id, own)
       /\ \A p \in Providers, x \in ExternalIds :
            getProviderTransaction(t, p, x, rows) = getProviderTransaction(t, p, x, own)

\* An amount means what it says, at the largest one too.  Whatever a caller
\* writes is accepted exactly when it is a plain decimal that fits, with the
\* value it has in arithmetic.  The ledger shows the very number that was sent;
\* it, its opposite (a difference) and the integer below that are shown as
\* themselves, and read back as themselves unless they are the lowest integer,
\* which only the reader refuses.
AmountsExact ==
  /\ \A w \in Wallets \ wallets, t \in Texts :
       IF MatchesPattern(t) /\ ~t.neg /\ Hundredths(t) <= MaxMinor
       THEN parseMinor(t) = Parsed(Hundredths(t))
       ELSE ~parseMinor(t).ok
  /\ \A k \in DOMAIN reader.page :
       LET entry == reader.page[k]
       IN /\ Hundredths(Amount(entry.minor)) = Hundredths(entry.sent)
          /\ \A v \in {entry.minor, -entry.minor, -entry.minor - 1} :
               /\ Hundredths(Amount(v)) = v
               /\ v # MinMinor => ParseSigned(Amount(v)) = Parsed(v)

=============================================================================
