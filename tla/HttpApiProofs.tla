---------------------------- MODULE HttpApiProofs ---------------------------
(***************************************************************************)
(* What callers of the HTTP API see, proved for every value of the         *)
(* constants: the pages of a ledger, the rows of other providers, and the  *)
(* amounts.                                                                *)
(***************************************************************************)
EXTENDS HttpApi, FiniteSetTheorems, SequenceTheorems, TLAPS

-----------------------------------------------------------------------------
(* Amounts *)

\* An integer that fits is kept as it is.
LEMMA WrapFits ==
  ASSUME NEW n \in Minor
  PROVE  Wrap(n) = n
BY MaxMinorAssumption, SMTT(30) DEF Wrap, Minor, MinMinor

\* Whole and cents of an amount.
LEMMA Hundreds ==
  ASSUME NEW n \in Nat
  PROVE  /\ n \div 100 \in Nat /\ n % 100 \in 0 .. 99
         /\ n = 100 * (n \div 100) + (n % 100)
OBVIOUS

\* The two digits of the cents.
LEMMA Tens ==
  ASSUME NEW n \in 0 .. 99
  PROVE  /\ n \div 10 \in 0 .. 9 /\ n % 10 \in 0 .. 9
         /\ n = 10 * (n \div 10) + (n % 10)
OBVIOUS

\* Convert accepts exactly what fits, and keeps its value.
LEMMA ConvertExact ==
  ASSUME NEW major \in Nat, NEW cents \in 0 .. 99
  PROVE  IF 100 * major + cents <= MaxMinor
         THEN Convert(major, cents) = Parsed(100 * major + cents)
         ELSE Convert(major, cents) = ParseErr("overflow")
<1>1. MaxMinor \in Nat
  BY MaxMinorAssumption
<1>2. major > (MaxMinor - cents) \div 100 <=> 100 * major + cents > MaxMinor
  BY <1>1
<1>3. CASE 100 * major + cents <= MaxMinor
  <2>1. Wrap(100 * major + cents) = 100 * major + cents
    BY <1>1, <1>3, WrapFits DEF Minor, MinMinor
  <2>2. major * 100 + cents = 100 * major + cents
    OBVIOUS
  <2> QED
    BY <1>1, <1>2, <1>3, <2>1, <2>2 DEF Convert, UnitsPerMajor
<1>4. CASE 100 * major + cents > MaxMinor
  BY <1>1, <1>2, <1>4 DEF Convert, UnitsPerMajor
<1> QED
  BY <1>1, <1>3, <1>4

\* The cents of a text that matches the pattern.
LEMMA CentsExact ==
  ASSUME NEW t \in AmountText, MatchesPattern(t)
  PROVE  /\ Cents(t.frac) \in 0 .. 99
         /\ Hundredths(t) = IF t.neg THEN -(100 * t.whole + Cents(t.frac))
                            ELSE 100 * t.whole + Cents(t.frac)
<1> DEFINE f == t.frac
<1>1. f \in Seq(0 .. 9) /\ Len(f) \in 0 .. 2 /\ t.whole \in Nat /\ t.neg \in BOOLEAN
  <2>1. f \in Seq(0 .. 9) /\ t.whole \in Nat /\ t.neg \in BOOLEAN
    BY DEF AmountText
  <2>2. Len(f) \in Nat /\ Len(f) <= 2
    BY <2>1, LenProperties DEF MatchesPattern, Scale
  <2>3. Len(f) \in 0 .. 2
    <3> DEFINE n == Len(f)
    <3> HIDE DEF n
    <3>1. n \in Nat /\ n <= 2
      BY <2>2 DEF n
    <3>2. n \in 0 .. 2
      BY <3>1
    <3> QED
      BY <3>2 DEF n
  <2> QED
    BY <2>1, <2>3
<1>2. 10^0 = 1 /\ 10^1 = 10 /\ 10^2 = 100
  OBVIOUS
<1> HIDE DEF f
<1>3. ASSUME NEW c \in 0 .. 99, Cents(f) = c,
             Hundredths(t) = (IF t.neg THEN -1 ELSE 1) * (100 * t.whole + c)
      PROVE  /\ Cents(f) \in 0 .. 99
             /\ Hundredths(t) = IF t.neg THEN -(100 * t.whole + Cents(f))
                                ELSE 100 * t.whole + Cents(f)
  BY <1>1, <1>3
<1>4. CASE Len(f) = 0
  <2>1. Cents(f) = 0
    BY <1>4 DEF Cents
  <2>2. Hundredths(t) = (IF t.neg THEN -1 ELSE 1) * (100 * t.whole + 0 * 10^2)
    BY <1>4 DEF Hundredths, Scale, f
  <2>3. 0 * 10^2 = 0
    BY <1>2
  <2> QED
    BY <1>3, <2>1, <2>2, <2>3 DEF f
<1>5. CASE Len(f) = 1
  <2>1. f[1] \in 0 .. 9
    <3>1. 1 \in 1 .. Len(f)
      BY <1>5
    <3> QED
      BY <1>1, <3>1, ElementOfSeq
  <2> DEFINE c == 10 * f[1]
  <2>2. Cents(f) = c
    BY <1>5 DEF Cents
  <2>3. Hundredths(t) = (IF t.neg THEN -1 ELSE 1) * (100 * t.whole + f[1] * 10^1)
    BY <1>5 DEF Hundredths, Scale, f
  <2>4. f[1] * 10^1 = c /\ c \in 0 .. 99
    BY <1>2, <2>1
  <2> HIDE DEF c
  <2> QED
    BY <1>3, <2>2, <2>3, <2>4 DEF f
<1>6. CASE Len(f) = 2
  <2>1. f[1] \in 0 .. 9 /\ f[2] \in 0 .. 9
    <3>1. 1 \in 1 .. Len(f) /\ 2 \in 1 .. Len(f)
      BY <1>6
    <3> QED
      BY <1>1, <3>1, ElementOfSeq
  <2> DEFINE c == 10 * f[1] + f[2]
  <2>2. Cents(f) = c
    BY <1>6 DEF Cents
  <2>3. Hundredths(t) = (IF t.neg THEN -1 ELSE 1) * (100 * t.whole + c * 10^0)
    BY <1>6 DEF Hundredths, Scale, f
  <2>4. c * 10^0 = c /\ c \in 0 .. 99
    BY <1>2, <2>1
  <2> HIDE DEF c
  <2> QED
    BY <1>3, <2>2, <2>3, <2>4 DEF f
<1> QED
  BY <1>1, <1>4, <1>5, <1>6

\* The parser accepts exactly the plain decimals that fit, with their value.
LEMMA ParseExact ==
  ASSUME NEW t \in AmountText
  PROVE  IF MatchesPattern(t) /\ ~t.neg /\ Hundredths(t) <= MaxMinor
         THEN parseMinor(t) = Parsed(Hundredths(t))
         ELSE ~parseMinor(t).ok
<1>1. t.neg \in BOOLEAN /\ t.whole \in Nat
  BY DEF AmountText
<1>2. CASE t.neg \/ ~MatchesPattern(t)
  BY <1>1, <1>2 DEF parseMinor, ParseErr
<1>3. CASE ~t.neg /\ MatchesPattern(t)
  <2> DEFINE c == Cents(t.frac)
             P == 10^MaxWholeDigits
  <2>1. c \in 0 .. 99 /\ Hundredths(t) = 100 * t.whole + c
    BY <1>3, CentsExact
  <2>2. P \in Int /\ MaxMinor \div 100 < P /\ MaxMinor \in Nat
    BY AmountsAssumption, MaxMinorAssumption DEF UnitsPerMajor
  <2>3. parseMinor(t) = IF t.whole >= P THEN ParseErr("overflow") ELSE Convert(t.whole, c)
    BY <1>3 DEF parseMinor
  <2> HIDE DEF c, P
  <2>4. t.whole >= P => 100 * t.whole + c > MaxMinor
    BY <1>1, <2>1, <2>2
  <2>5. CASE Hundredths(t) <= MaxMinor
    <3>1. ~(t.whole >= P)
      BY <1>1, <2>1, <2>2, <2>4, <2>5
    <3>2. Convert(t.whole, c) = Parsed(Hundredths(t))
      BY <1>1, <2>1, <2>5, ConvertExact
    <3> QED
      BY <1>3, <2>3, <2>5, <3>1, <3>2
  <2>6. CASE ~(Hundredths(t) <= MaxMinor)
    <3>1. Convert(t.whole, c) = ParseErr("overflow")
      BY <1>1, <2>1, <2>6, ConvertExact
    <3> QED
      BY <2>3, <2>6, <3>1 DEF ParseErr
  <2> QED
    BY <2>5, <2>6
<1> QED
  BY <1>1, <1>2, <1>3

\* An amount is shown as itself, and read back as itself.
LEMMA AmountExact ==
  ASSUME NEW v \in Minor
  PROVE  /\ Hundredths(Amount(v)) = v
         /\ v # MinMinor => ParseSigned(Amount(v)) = Parsed(v)
<1> DEFINE u == IF v < 0 THEN -v ELSE v
           whole == u \div 100
           cents == u % 100
           t == Text(v < 0, 0, whole, << cents \div 10, cents % 10 >>)
           p == Text(FALSE, 0, whole, << cents \div 10, cents % 10 >>)
<1>1. MaxMinor \in Nat /\ v \in Int /\ u \in Nat /\ MinMinor \in Int
  BY MaxMinorAssumption DEF Minor, MinMinor
<1>2. Magnitude(v) = u
  <2>1. v < 0 => -(v + 1) \in Minor
    BY <1>1 DEF Minor, MinMinor
  <2> QED
    BY <1>1, <2>1, WrapFits DEF Magnitude
<1>3. Amount(v) = t
  BY <1>2 DEF Amount, UnitsPerMajor
<1>4. /\ whole \in Nat /\ cents \in 0 .. 99 /\ u = 100 * whole + cents
      /\ cents \div 10 \in 0 .. 9 /\ cents % 10 \in 0 .. 9
      /\ cents = 10 * (cents \div 10) + (cents % 10)
  <2>1. whole \in Nat /\ cents \in 0 .. 99 /\ u = 100 * whole + cents
    <3> HIDE DEF u
    <3> QED
      BY <1>1, Hundreds
  <2> HIDE DEF cents
  <2> QED
    BY <2>1, Tens
<1> HIDE DEF u, whole, cents
<1>5. ASSUME NEW neg \in BOOLEAN
      PROVE  LET x == Text(neg, 0, whole, << cents \div 10, cents % 10 >>)
             IN /\ x \in AmountText /\ MatchesPattern(x) /\ x.neg = neg
                /\ Hundredths(x) = IF neg THEN -u ELSE u
  <2> DEFINE a == cents \div 10
             b == cents % 10
             x == Text(neg, 0, whole, << a, b >>)
  <2>1. a \in 0 .. 9 /\ b \in 0 .. 9 /\ cents = 10 * a + b
    BY <1>4
  <2> HIDE DEF a, b
  <2>2. << a, b >> \in Seq(0 .. 9) /\ Len(<< a, b >>) = 2
    BY <2>1
  <2>3. x \in AmountText /\ MatchesPattern(x) /\ x.neg = neg /\ x.whole = whole
        /\ x.frac = << a, b >>
    BY <1>4, <2>2 DEF Text, AmountText, MatchesPattern, Scale
  <2>4. Cents(x.frac) = cents
    BY <2>1, <2>2, <2>3 DEF Cents
  <2> HIDE DEF x
  <2>5. Hundredths(x) = IF neg THEN -u ELSE u
    BY <1>4, <2>3, <2>4, CentsExact
  <2> QED
    BY <2>3, <2>5 DEF x, a, b
<1>6. Hundredths(t) = v
  <2>1. CASE v < 0
    <3>1. (v < 0) = TRUE
      BY <2>1
    <3>2. Hundredths(t) = -u
      BY <1>5, <3>1
    <3> QED
      BY <1>1, <2>1, <3>2 DEF u
  <2>2. CASE ~(v < 0)
    <3>1. (v < 0) = FALSE
      BY <2>2
    <3>2. Hundredths(t) = u
      BY <1>5, <3>1
    <3> QED
      BY <1>1, <2>2, <3>2 DEF u
  <2> QED
    BY <2>1, <2>2
<1>7. ASSUME v # MinMinor
      PROVE  ParseSigned(t) = Parsed(v)
  <2>1. u <= MaxMinor
    BY <1>1, <1>7 DEF u, Minor, MinMinor
  <2>2. p \in AmountText /\ MatchesPattern(p) /\ p.neg = FALSE /\ Hundredths(p) = u
    BY <1>5
  <2>3. parseMinor(p) = Parsed(u)
    <3> HIDE DEF p
    <3> QED
      BY <2>1, <2>2, ParseExact
  <2>4. CASE v < 0
    <3>1. (v < 0) = TRUE
      BY <2>4
    <3>2. t = Text(TRUE, 0, whole, << cents \div 10, cents % 10 >>)
      BY <3>1, Zenon
    <3>3. t.neg = TRUE /\ [t EXCEPT !.neg = FALSE] = p
      <4> DEFINE fr == << cents \div 10, cents % 10 >>
      <4> HIDE DEF fr
      <4>1. t = Text(TRUE, 0, whole, fr) /\ p = Text(FALSE, 0, whole, fr)
        BY <3>2 DEF fr
      <4> HIDE DEF t, p
      <4>2. [Text(TRUE, 0, whole, fr) EXCEPT !.neg = FALSE] = Text(FALSE, 0, whole, fr)
        <5>1. \A no : [Text(TRUE, 0, whole, fr) EXCEPT !.neg = no] = Text(no, 0, whole, fr)
          BY DEF Text
        <5> QED
          BY <5>1, Zenon
      <4>3. Text(TRUE, 0, whole, fr).neg = TRUE
        <5>1. \A neg : Text(neg, 0, whole, fr).neg = neg
          BY DEF Text
        <5> QED
          BY <5>1, Zenon
      <4> QED
        BY <4>1, <4>2, <4>3, Zenon
    <3> HIDE DEF t, p
    <3>4. u # MinMinor /\ -u = v
      BY <1>1, <2>4 DEF u, MinMinor
    <3>5. ParseSigned(t) = Negate(u)
      <4>1. ParseSigned(t) = IF parseMinor(p).ok THEN Negate(parseMinor(p).minor)
                             ELSE parseMinor(p)
        BY <3>3, Zenon DEF ParseSigned
      <4> QED
        BY <2>3, <4>1 DEF Parsed
    <3> QED
      BY <3>4, <3>5 DEF Negate
  <2>5. CASE ~(v < 0)
    <3>1. (v < 0) = FALSE
      BY <2>5
    <3>2. t = p /\ t.neg = FALSE
      BY <3>1 DEF Text
    <3>3. u = v
      BY <1>1, <2>5 DEF u
    <3> HIDE DEF t, p
    <3> QED
      BY <2>3, <3>2, <3>3 DEF ParseSigned
  <2> QED
    BY <2>4, <2>5
<1> HIDE DEF t
<1> QED
  BY <1>3, <1>6, <1>7

-----------------------------------------------------------------------------
(* Providers *)

\* Whatever the table holds, a caller that is not internal sees its own rows
\* and nothing that depends on the others.
LEMMA IsolatedReads ==
  ASSUME NEW t, ~IsInternal(t), NEW db, \A q, r \in db : q.id = r.id => q = r
  PROVE  LET own == {r \in db : t.provider # NoProvider /\ r.provider = t.provider}
         IN /\ \A id : getTransaction(t, id, db) = getTransaction(t, id, own)
            /\ \A p, x : getProviderTransaction(t, p, x, db) = getProviderTransaction(t, p, x, own)
<1> DEFINE own == {r \in db : t.provider # NoProvider /\ r.provider = t.provider}
           a == authenticate(t)
<1> HIDE DEF a
<1>1. ASSUME NEW id
      PROVE  getTransaction(t, id, db) = getTransaction(t, id, own)
  <2> DEFINE found == {r \in db : r.id = id}
             mine  == {r \in found : r.provider = t.provider}
             OwnFound == {r \in own : r.id = id}
             OwnMine  == {r \in OwnFound : r.provider = t.provider}
  <2>1. CASE a # "pass"
    BY <2>1 DEF getTransaction, a
  <2>2. CASE a = "pass" /\ ~IsProvider(t)
    BY <2>2 DEF getTransaction, a
  <2>3. CASE a = "pass" /\ IsProvider(t)
    <3>1. t.provider # NoProvider
      BY <2>3 DEF IsProvider
    <3>2. OwnFound = mine /\ OwnMine = mine
      BY <3>1
    <3>3. mine # {} => found = mine
      OBVIOUS
    <3>4. /\ getTransaction(t, id, db) =
               IF found = {} \/ mine = {} THEN Refuse("NOT_FOUND") ELSE Answer("OK", found)
          /\ getTransaction(t, id, own) =
               IF OwnFound = {} \/ OwnMine = {} THEN Refuse("NOT_FOUND")
               ELSE Answer("OK", OwnFound)
      <4> HIDE DEF own
      <4> QED
        BY <2>3, Zenon DEF getTransaction, a
    <3> HIDE DEF found, mine, OwnFound, OwnMine
    <3> QED
      BY <3>2, <3>3, <3>4
  <2> QED
    BY <2>1, <2>2, <2>3
<1>2. ASSUME NEW p, NEW x
      PROVE  getProviderTransaction(t, p, x, db) = getProviderTransaction(t, p, x, own)
  <2> DEFINE found    == {r \in db : r.provider = p /\ r.ext = x}
             OwnFound == {r \in own : r.provider = p /\ r.ext = x}
  <2>1. CASE IsProvider(t) /\ t.provider = p
    <3>1. OwnFound = found
      BY <2>1 DEF IsProvider
    <3> QED
      BY <3>1, Zenon DEF getProviderTransaction
  <2>2. CASE ~(IsProvider(t) /\ t.provider = p)
    BY <2>2, Zenon DEF getProviderTransaction
  <2> QED
    BY <2>1, <2>2
<1> QED
  BY <1>1, <1>2

-----------------------------------------------------------------------------
(* The invariant *)

\* A committed entry: its amount is the one that was sent.
Entry == [seq : Nat \ {0}, minor : 1 .. MaxMinor, sent : Texts]

Writers ==
  [pc : {"append", "commit"}, wallet : Wallets, provider : Providers \cup {NoProvider},
   ext : ExternalIds \cup {NoExt}, minor : 0 .. MaxMinor, sent : Texts, seq : Nat]

Shapes ==
  /\ wallets \in SUBSET Wallets
  /\ seq \in 0 .. MaxSeq
  /\ ledger \in [Wallets -> Seq(Entry)]
  /\ session \in [Sessions -> {Idle} \cup Writers]
  /\ reader \in [wallet : Wallets, cursor : 0 .. seq, seen : Seq(Entry), page : Seq(Entry),
                 next : 0 .. seq]

\* The rows of wager_transactions have different numbers.
RowsOK ==
  /\ \A r \in rows : r.id \in 1 .. seq /\ r.minor \in 1 .. MaxMinor /\ r.wallet \in wallets
  /\ \A q, r \in rows : q.id = r.id => q = r

\* The entries of a wallet are committed in the order of their numbers.
Ordered(l) == \A j, k \in DOMAIN l : j < k => l[j].seq < l[k].seq

LedgerOK ==
  \A w \in Wallets :
    /\ Ordered(ledger[w])
    /\ \A k \in DOMAIN ledger[w] :
         /\ ledger[w][k].seq <= seq
         /\ parseMinor(ledger[w][k].sent) = Parsed(ledger[w][k].minor)

\* A number that is taken and not committed is later than the wallet's entries
\* and in no row.
SessionOK(x) ==
  /\ x.seq <= seq
  /\ x.pc = "append" => x.seq = 0
  /\ x.pc = "append" \/ x.seq # 0 => x.minor # 0
  /\ parseMinor(x.sent) = Parsed(x.minor)
  /\ x.seq # 0 => /\ \A r \in rows : r.id # x.seq
                  /\ \A k \in DOMAIN ledger[x.wallet] : ledger[x.wallet][k].seq < x.seq

SessionsOK == \A s \in Sessions : session[s] # Idle => SessionOK(session[s])

\* Two sessions never have the same wallet's row.
Exclusive ==
  \A s, q \in Sessions : s # q /\ session[s] # Idle /\ session[q] # Idle =>
    /\ session[s].wallet # session[q].wallet
    /\ session[s].seq # 0 => session[s].seq # session[q].seq

\* What the client has seen is the beginning of the ledger, the page goes on
\* from there, and both cursors stand at their ends.
ReaderOK ==
  LET l == ledger[reader.wallet]
      n == Len(reader.seen)
      m == Len(reader.page)
  IN /\ n + m <= Len(l)
     /\ \A k \in 1 .. n : reader.seen[k] = l[k]
     /\ \A k \in 1 .. m : reader.page[k] = l[n + k]
     /\ reader.cursor = IF n = 0 THEN NoCursor ELSE l[n].seq
     /\ reader.next # NoCursor => m > 0 /\ reader.next = l[n + m].seq

Inv == Shapes /\ RowsOK /\ LedgerOK /\ SessionsOK /\ Exclusive /\ ReaderOK

LEMMA InitInv == Init => Inv
<1> SUFFICES ASSUME Init PROVE Inv
  OBVIOUS
<1>1. Shapes
  <2>1. << >> \in Seq(Entry) /\ 0 \in 0 .. MaxSeq /\ 0 \in 0 .. 0
    BY MaxSeqAssumption
  <2>2. wallets = {} /\ seq = 0 /\ ledger = [w \in Wallets |-> << >>]
        /\ session = [s \in Sessions |-> Idle]
    BY DEF Init
  <2>3. reader \in [wallet : Wallets, cursor : 0 .. 0, seen : Seq(Entry), page : Seq(Entry),
                    next : 0 .. 0]
    BY <2>1 DEF Init, NoCursor
  <2> QED
    BY <2>1, <2>2, <2>3 DEF Shapes
<1>2. RowsOK /\ SessionsOK /\ Exclusive
  BY DEF Init, RowsOK, SessionsOK, Exclusive
<1>3. LedgerOK
  BY DEF Init, LedgerOK, Ordered
<1>4. ReaderOK
  BY DEF Init, ReaderOK, NoCursor
<1> QED
  BY <1>1, <1>2, <1>3, <1>4 DEF Inv

-----------------------------------------------------------------------------
(* Pages *)

\* The entries of a wallet.
LEMMA Entries ==
  ASSUME Inv, NEW w \in Wallets
  PROVE  /\ ledger[w] \in Seq(Entry) /\ Len(ledger[w]) \in Nat
         /\ DOMAIN ledger[w] = 1 .. Len(ledger[w])
         /\ \A k \in DOMAIN ledger[w] :
              ledger[w][k] \in Entry /\ ledger[w][k].seq \in Nat \ {0} /\ ledger[w][k].seq <= seq
<1>1. /\ ledger[w] \in Seq(Entry)
      /\ \A k \in DOMAIN ledger[w] : ledger[w][k].seq <= seq
  BY DEF Inv, Shapes, LedgerOK
<1>2. \A k \in 1 .. Len(ledger[w]) : ledger[w][k] \in Entry
  BY <1>1, ElementOfSeq
<1> QED
  BY <1>1, <1>2, LenProperties DEF Entry

\* The rows after the c-th are those of List, whatever their numbers.
LEMMA ListExact ==
  ASSUME Inv, NEW w \in Wallets, NEW c \in 0 .. Len(ledger[w]), NEW n \in Nat
  PROVE  LET l     == ledger[w]
             after == IF c = 0 THEN NoCursor ELSE l[c].seq
             count == IF Len(l) - c < n THEN Len(l) - c ELSE n
         IN List(w, after, n) = [i \in 1 .. count |-> l[c + i]]
<1> DEFINE l       == ledger[w]
           after   == IF c = 0 THEN NoCursor ELSE l[c].seq
           later   == {k \in DOMAIN l : l[k].seq > after}
           upto(k) == {j \in later : l[j].seq <= l[k].seq}
           count   == IF Len(l) - c < n THEN Len(l) - c ELSE n
<1>1. /\ l \in Seq(Entry) /\ Len(l) \in Nat /\ DOMAIN l = 1 .. Len(l)
      /\ \A k \in 1 .. Len(l) : l[k].seq \in Nat \ {0}
      /\ \A j, k \in 1 .. Len(l) : j < k => l[j].seq < l[k].seq
  <2>1. l \in Seq(Entry) /\ Ordered(l)
    BY DEF Inv, Shapes, LedgerOK
  <2> HIDE DEF l
  <2>2. \A k \in 1 .. Len(l) : l[k] \in Entry
    BY <2>1, ElementOfSeq
  <2> QED
    BY <2>1, <2>2, LenProperties DEF Ordered, Entry
<1>2. c \in 0 .. Len(l)
  OBVIOUS
<1> HIDE DEF l
<1>3. later = (c + 1) .. Len(l)
  BY <1>1, <1>2 DEF NoCursor
<1>4. ASSUME NEW k \in later
      PROVE  upto(k) = (c + 1) .. k
  <2>1. k \in (c + 1) .. Len(l)
    BY <1>3
  <2> HIDE DEF later
  <2>2. \A j \in (c + 1) .. Len(l) : l[j].seq <= l[k].seq <=> j <= k
    BY <1>1, <1>2, <2>1
  <2> QED
    BY <1>1, <1>2, <1>3, <2>1, <2>2
<1>5. \A k \in later : Cardinality(upto(k)) = k - c
  <2> SUFFICES ASSUME NEW k \in later
               PROVE  Cardinality(upto(k)) = k - c
    OBVIOUS
  <2>1. k \in (c + 1) .. Len(l)
    BY <1>3
  <2>2. Cardinality((c + 1) .. k) = k - c
    <3> HIDE DEF later
    <3>1. c + 1 \in Int /\ k \in Int /\ ~(c + 1 > k)
      BY <1>1, <1>2, <2>1
    <3>2. Cardinality((c + 1) .. k) = k - (c + 1) + 1
      BY <3>1, FS_Interval
    <3> QED
      BY <3>1, <3>2, <1>2
  <2> HIDE DEF later, upto
  <2> QED
    BY <1>4, <2>2
<1>6. Cardinality(later) = Len(l) - c
  <2>1. c + 1 \in Int /\ Len(l) \in Int /\ c \in Int /\ c <= Len(l)
    BY <1>1, <1>2
  <2>2. Cardinality((c + 1) .. Len(l)) =
          IF c + 1 > Len(l) THEN 0 ELSE Len(l) - (c + 1) + 1
    BY <2>1, FS_Interval
  <2> HIDE DEF later
  <2> QED
    BY <1>3, <2>1, <2>2
<1>7. List(w, after, n) =
        [i \in 1 .. count |-> l[CHOOSE k \in later : Cardinality(upto(k)) = i]]
  BY <1>6 DEF List, l
<1> HIDE DEF upto, later, after
<1>8. ASSUME NEW i \in 1 .. count
      PROVE  (CHOOSE k \in later : Cardinality(upto(k)) = i) = c + i
  <2>1. c + i \in later
    BY <1>1, <1>2, <1>3
  <2>2. Cardinality(upto(c + i)) = i
    BY <1>2, <1>5, <2>1
  <2>3. \A k \in later : Cardinality(upto(k)) = i => k = c + i
    BY <1>2, <1>3, <1>5
  <2> QED
    BY <2>1, <2>2, <2>3
<1> QED
  BY <1>7, <1>8 DEF l, after

\* A page goes on from the c-th entry, and says whether it is the last.
LEMMA PageExact ==
  ASSUME Inv, NEW w \in Wallets, NEW c \in 0 .. Len(ledger[w]), NEW limit \in Nat \ {0}
  PROVE  LET l    == ledger[w]
             page == Page(w, IF c = 0 THEN NoCursor ELSE l[c].seq, limit)
             rest == Len(l) - c
         IN /\ page.entries \in Seq(Entry)
            /\ Len(page.entries) = IF rest > limit THEN limit ELSE rest
            /\ \A k \in 1 .. Len(page.entries) : page.entries[k] = l[c + k]
            /\ page.next = IF rest > limit THEN l[c + limit].seq ELSE NoCursor
<1> DEFINE l       == ledger[w]
           after   == IF c = 0 THEN NoCursor ELSE l[c].seq
           rest    == Len(l) - c
           count   == IF rest < limit + 1 THEN rest ELSE limit + 1
           records == List(w, after, limit + 1)
           entries == Page(w, after, limit).entries
<1>1. l \in Seq(Entry) /\ Len(l) \in Nat /\ rest \in Nat /\ count \in Nat
  <2>1. l \in Seq(Entry)
    BY DEF Inv, Shapes
  <2> QED
    BY <2>1, LenProperties
<1>2. records = [i \in 1 .. count |-> l[c + i]]
  <2>1. limit + 1 \in Nat
    OBVIOUS
  <2> QED
    BY <2>1, ListExact, ZenonT(40)
<1> HIDE DEF records
<1>3. \A i \in 1 .. count : records[i] = l[c + i] /\ l[c + i] \in Entry
  <2>1. \A i \in 1 .. count : c + i \in 1 .. Len(l)
    BY <1>1
  <2> HIDE DEF l, count
  <2> QED
    BY <1>1, <1>2, <2>1, ElementOfSeq
<1>4. records \in Seq(Entry) /\ Len(records) = count
  <2> HIDE DEF l, count
  <2> QED
    BY <1>1, <1>2, <1>3
<1>5. CASE rest > limit
  <2>1. count = limit + 1
    BY <1>1, <1>5
  <2>2. /\ entries = SubSeq(records, 1, limit)
        /\ Page(w, after, limit).next = records[limit].seq
    <3>1. Len(records) > limit
      BY <1>4, <2>1
    <3> HIDE DEF after, l
    <3> QED
      BY <3>1 DEF Page, records
  <2> HIDE DEF entries, count, rest, l, after
  <2>3. /\ entries \in Seq(Entry) /\ Len(entries) = limit
        /\ \A i \in 1 .. limit : entries[i] = records[i]
    <3>1. \A i \in 1 .. limit : records[i] \in Entry
      BY <1>3, <2>1
    <3> QED
      BY <2>2, <3>1, SubSeqProperties
  <2>4. records[limit] = l[c + limit] /\ \A i \in 1 .. limit : entries[i] = l[c + i]
    <3>1. limit \in 1 .. count /\ \A i \in 1 .. limit : i \in 1 .. count
      BY <2>1
    <3> QED
      BY <1>3, <2>3, <3>1
  <2> QED
    BY <1>5, <2>2, <2>3, <2>4 DEF entries, rest, l, after
<1>6. CASE ~(rest > limit)
  <2>1. count = rest
    BY <1>1, <1>6
  <2>2. entries = records /\ Page(w, after, limit).next = NoCursor
    <3>1. ~(Len(records) > limit)
      BY <1>4, <1>6, <2>1
    <3> HIDE DEF after, l
    <3> QED
      BY <3>1 DEF Page, records
  <2> HIDE DEF entries, count, rest, l, after
  <2> QED
    BY <1>3, <1>4, <1>6, <2>1, <2>2 DEF entries, rest, l, after
<1> QED
  BY <1>5, <1>6

-----------------------------------------------------------------------------
(* The steps *)

\* What the parser accepts is an amount.
LEMMA Accepted ==
  ASSUME NEW t \in Texts, parseMinor(t).ok
  PROVE  parseMinor(t).minor \in 0 .. MaxMinor /\ parseMinor(t) = Parsed(parseMinor(t).minor)
<1> DEFINE h == Hundredths(t)
<1>1. t \in AmountText /\ t.whole \in Nat
  BY TextsAssumption DEF AmountText
<1>2. MatchesPattern(t) /\ ~t.neg /\ h <= MaxMinor /\ parseMinor(t) = Parsed(h)
  BY <1>1, ParseExact
<1>3. h \in Nat
  BY <1>1, <1>2, CentsExact
<1>4. Parsed(h).minor = h
  BY DEF Parsed
<1> HIDE DEF h
<1> QED
  BY <1>2, <1>3, <1>4, MaxMinorAssumption

\* A session that starts has the wallet for itself.
LEMMA StartStep ==
  ASSUME Inv, NEW s \in Sessions, NEW x \in Writers, x.seq = 0,
         x.pc = "append" => x.minor # 0, parseMinor(x.sent) = Parsed(x.minor),
         \A q \in Sessions : ~Holds(q, x.wallet),
         session' = [session EXCEPT ![s] = x], UNCHANGED << wallets, rows, ledger, seq, reader >>
  PROVE  Inv'
<1>1. session \in [Sessions -> {Idle} \cup Writers] /\ seq \in Nat
  BY MaxSeqAssumption DEF Inv, Shapes
<1>2. Shapes'
  BY <1>1 DEF Inv, Shapes
<1>3. RowsOK' /\ LedgerOK' /\ ReaderOK'
  BY DEF Inv, RowsOK, LedgerOK, ReaderOK
<1>4. SessionsOK'
  <2>1. SessionOK(x)'
    BY <1>1 DEF SessionOK
  <2>2. ASSUME NEW y, SessionOK(y)
        PROVE  SessionOK(y)'
    BY <2>2 DEF SessionOK
  <2> QED
    BY <1>1, <2>1, <2>2 DEF Inv, SessionsOK
<1>5. Exclusive'
  <2>1. ASSUME NEW q \in Sessions, session[q] # Idle
        PROVE  session[q].wallet # x.wallet
    BY <1>1, <2>1 DEF Writers, Holds
  <2> QED
    BY <1>1, <2>1 DEF Inv, Exclusive
<1> QED
  BY <1>2, <1>3, <1>4, <1>5 DEF Inv

\* A session that ends without a trace.
LEMMA RollbackStep ==
  ASSUME Inv, NEW s \in Sessions, Rollback(s)
  PROVE  Inv'
<1>1. session \in [Sessions -> {Idle} \cup Writers]
  BY DEF Inv, Shapes
<1>2. Shapes'
  BY <1>1 DEF Inv, Shapes, Rollback
<1>3. RowsOK' /\ LedgerOK' /\ ReaderOK'
  BY DEF Inv, RowsOK, LedgerOK, ReaderOK, Rollback
<1>4. ASSUME NEW q \in Sessions
      PROVE  session'[q] = Idle \/ session'[q] = session[q]
  BY <1>1 DEF Rollback
<1>5. SessionsOK'
  BY <1>4 DEF Inv, SessionsOK, SessionOK, Rollback
<1>6. Exclusive'
  BY <1>4 DEF Inv, Exclusive
<1> QED
  BY <1>2, <1>3, <1>5, <1>6 DEF Inv

LEMMA RequestStep ==
  ASSUME Inv, NEW s \in Sessions, Request(s)
  PROVE  Inv'
<1>1. PICK t \in Tokens, w \in Wallets, text \in Texts :
        \/ openWallet(s, t, w, text)
        \/ \E p \in Providers, x \in ExternalIds : postTransaction(s, t, p, w, x, text)
  BY DEF Request
<1> DEFINE minor == parseMinor(text).minor
<1>2. ASSUME parseMinor(text).ok
      PROVE  minor \in 0 .. MaxMinor /\ parseMinor(text) = Parsed(minor)
  BY <1>2, Accepted
<1>3. CASE openWallet(s, t, w, text)
  <2> DEFINE x == Writing(AfterInsert(minor), w, NoProvider, NoExt, text)
  <2>1. minor \in 0 .. MaxMinor /\ parseMinor(text) = Parsed(minor)
    BY <1>2, <1>3 DEF openWallet
  <2>2. /\ \A q \in Sessions : ~Holds(q, w)
        /\ session' = [session EXCEPT ![s] = x]
        /\ UNCHANGED << wallets, rows, ledger, seq, reader >>
    BY <1>3 DEF openWallet
  <2>3. /\ x \in Writers /\ x.seq = 0 /\ (x.pc = "append" => x.minor # 0)
        /\ x.sent = text /\ x.minor = minor /\ x.wallet = w
    BY <2>1 DEF Writing, Writers, AfterInsert
  <2> HIDE DEF x, minor
  <2> QED
    BY <2>1, <2>2, <2>3, StartStep
<1>4. ASSUME NEW p \in Providers, NEW e \in ExternalIds, postTransaction(s, t, p, w, e, text)
      PROVE  Inv'
  <2> DEFINE x == Writing("append", w, p, e, text)
  <2>1. minor \in 0 .. MaxMinor /\ minor # 0 /\ parseMinor(text) = Parsed(minor)
    BY <1>2, <1>4 DEF postTransaction
  <2>2. /\ \A q \in Sessions : ~Holds(q, w)
        /\ session' = [session EXCEPT ![s] = x]
        /\ UNCHANGED << wallets, rows, ledger, seq, reader >>
    BY <1>4 DEF postTransaction, Lock
  <2>3. /\ x \in Writers /\ x.seq = 0 /\ (x.pc = "append" => x.minor # 0)
        /\ x.sent = text /\ x.minor = minor /\ x.wallet = w
    BY <2>1 DEF Writing, Writers
  <2> HIDE DEF x, minor
  <2> QED
    BY <2>1, <2>2, <2>3, StartStep
<1> QED
  BY <1>1, <1>3, <1>4

\* The number a session takes is later than every number in use.
LEMMA AppendStep ==
  ASSUME Inv, NEW s \in Sessions, Append_(s)
  PROVE  Inv'
<1>1. /\ session \in [Sessions -> {Idle} \cup Writers] /\ seq \in Nat /\ MaxSeq \in Nat
      /\ seq + 1 \in 0 .. MaxSeq /\ seq' = seq + 1
  BY MaxSeqAssumption DEF Inv, Shapes, Append_
<1> PICK x : x = session[s]
  OBVIOUS
<1>2. x \in Writers /\ x.pc = "append" /\ x # Idle
  BY <1>1 DEF Append_, Idle
<1> PICK y : y = [x EXCEPT !.pc = "commit", !.seq = seq + 1]
  OBVIOUS
<1>3. /\ y \in Writers /\ y.pc = "commit" /\ y.seq = seq + 1
      /\ y.wallet = x.wallet /\ y.minor = x.minor /\ y.sent = x.sent
  <2>1. y.pc = "commit" /\ y.seq = seq + 1
    BY <1>2 DEF Writers
  <2>2. y.wallet = x.wallet /\ y.minor = x.minor /\ y.sent = x.sent
    BY <1>1, <1>2 DEF Writers
  <2>3. y \in Writers
    <3>1. PICK z : z = [x EXCEPT !.pc = "commit"]
      OBVIOUS
    <3>2. z \in Writers
      BY <1>2, <3>1 DEF Writers
    <3>3. y = [z EXCEPT !.seq = seq + 1] /\ seq + 1 \in Nat
      BY <1>1, <3>1
    <3> QED
      BY <3>2, <3>3 DEF Writers
  <2> QED
    BY <2>1, <2>2, <2>3
<1>4. session' = [session EXCEPT ![s] = y] /\ UNCHANGED << wallets, rows, ledger, reader >>
  BY <1>1 DEF Append_
<1>5. SessionOK(x)
  BY <1>2 DEF Inv, SessionsOK
<1>6. Shapes'
  <2>1. reader \in [wallet : Wallets, cursor : 0 .. seq, seen : Seq(Entry), page : Seq(Entry),
                    next : 0 .. seq]
    BY DEF Inv, Shapes
  <2>2. 0 .. seq \subseteq 0 .. seq'
    BY <1>1
  <2>3. reader' \in [wallet : Wallets, cursor : 0 .. seq', seen : Seq(Entry), page : Seq(Entry),
                     next : 0 .. seq']
    BY <1>4, <2>1, <2>2
  <2> QED
    BY <1>1, <1>3, <1>4, <2>3 DEF Inv, Shapes
<1>7. RowsOK' /\ LedgerOK' /\ ReaderOK'
  <2>1. RowsOK'
    BY <1>1, <1>4 DEF Inv, RowsOK
  <2>2. LedgerOK'
    BY <1>1, <1>4, Entries DEF Inv, LedgerOK
  <2> QED
    BY <1>4, <2>1, <2>2 DEF Inv, ReaderOK
<1>8. SessionsOK'
  <2>1. SessionOK(y)'
    <3>1. \A r \in rows : r.id # y.seq
      BY <1>1, <1>3 DEF Inv, RowsOK
    <3>2. \A k \in DOMAIN ledger[y.wallet] : ledger[y.wallet][k].seq < y.seq
      <4>1. y.wallet \in Wallets
        BY <1>3 DEF Writers
      <4> QED
        BY <1>1, <1>3, <4>1, Entries
    <3> QED
      BY <1>1, <1>2, <1>3, <1>4, <1>5, <3>1, <3>2 DEF SessionOK
  <2>2. ASSUME NEW z \in Writers, SessionOK(z)
        PROVE  SessionOK(z)'
    BY <1>1, <1>4, <2>2 DEF SessionOK, Writers
  <2> QED
    <3>1. ASSUME NEW q \in Sessions, session'[q] # Idle
          PROVE  SessionOK(session[q])'
      <4> PICK z : z = session'[q]
        OBVIOUS
      <4>1. z = y \/ (z \in Writers /\ SessionOK(z))
        BY <1>1, <1>4, <3>1 DEF Inv, SessionsOK
      <4> QED
        BY <2>1, <2>2, <4>1
    <3> QED
      BY <3>1 DEF SessionsOK
<1>9. Exclusive'
  <2>1. ASSUME NEW q \in Sessions, q # s, session[q] # Idle
        PROVE  session[q].wallet # y.wallet /\ session[q].seq # y.seq
    <3>1. session[q].wallet # x.wallet
      BY <1>2, <2>1 DEF Inv, Exclusive
    <3>2. session[q].seq <= seq /\ session[q].seq \in Nat
      BY <1>1, <2>1 DEF Inv, SessionsOK, SessionOK, Writers
    <3> QED
      BY <1>1, <1>3, <3>1, <3>2
  <2> QED
    BY <1>1, <1>4, <2>1 DEF Inv, Exclusive
<1> QED
  BY <1>6, <1>7, <1>8, <1>9 DEF Inv

\* A commit adds the entry at the end of the ledger: its number is the latest.
LEMMA CommitStep ==
  ASSUME Inv, NEW s \in Sessions, Commit(s)
  PROVE  Inv'
<1>1. session \in [Sessions -> {Idle} \cup Writers] /\ seq \in Nat /\ seq' = seq
  BY MaxSeqAssumption DEF Inv, Shapes, Commit
<1>2. PICK x : x = session[s]
  OBVIOUS
<1>3. x \in Writers /\ x.pc = "commit" /\ x # Idle /\ SessionOK(x) /\ x.wallet \in Wallets
  <2>1. x \in Writers /\ x.pc = "commit" /\ x # Idle
    BY <1>1, <1>2 DEF Commit, Idle
  <2> QED
    BY <1>2, <2>1 DEF Inv, SessionsOK, Writers
<1>4. /\ session' = [session EXCEPT ![s] = Idle]
      /\ wallets' = wallets \cup {x.wallet} /\ reader' = reader
  BY <1>2 DEF Commit
<1>5. PICK e : e = [seq |-> x.seq, minor |-> x.minor, sent |-> x.sent]
  OBVIOUS
<1>6. PICK r : r = [id |-> x.seq, provider |-> x.provider, ext |-> x.ext,
                    wallet |-> x.wallet, minor |-> x.minor]
  OBVIOUS
<1>7. \/ x.seq = 0 /\ rows' = rows /\ ledger' = ledger
      \/ /\ x.seq # 0 /\ rows' = rows \cup {r}
         /\ ledger' = [ledger EXCEPT ![x.wallet] = Append(@, e)]
  BY <1>2, <1>5, <1>6 DEF Commit
<1>8. x.seq # 0 =>
        /\ e \in Entry /\ e.seq = x.seq /\ e.sent = x.sent /\ e.minor = x.minor
        /\ r.id = x.seq /\ r.minor = x.minor /\ r.wallet = x.wallet
        /\ x.seq \in 1 .. seq /\ x.minor \in 1 .. MaxMinor
  BY <1>1, <1>3, <1>5, <1>6, MaxMinorAssumption DEF Entry, SessionOK, Writers
\* The ledgers after the step.
<1>9. ASSUME NEW w \in Wallets
      PROVE  /\ ledger'[w] \in Seq(Entry) /\ DOMAIN ledger'[w] = 1 .. Len(ledger'[w])
             /\ Len(ledger'[w]) \in Nat /\ Len(ledger'[w]) >= Len(ledger[w])
             /\ \A k \in 1 .. Len(ledger[w]) : ledger'[w][k] = ledger[w][k]
             /\ \/ ledger'[w] = ledger[w]
                \/ /\ x.seq # 0 /\ w = x.wallet /\ Len(ledger'[w]) = Len(ledger[w]) + 1
                   /\ ledger'[w][Len(ledger'[w])] = e
  <2>1. ledger[w] \in Seq(Entry) /\ Len(ledger[w]) \in Nat
        /\ DOMAIN ledger[w] = 1 .. Len(ledger[w])
    BY Entries
  <2>2. CASE ledger'[w] = ledger[w]
    BY <2>1, <2>2
  <2>3. CASE ledger'[w] # ledger[w]
    <3>1. x.seq # 0 /\ w = x.wallet /\ ledger'[w] = Append(ledger[w], e)
      BY <1>7, <2>3 DEF Inv, Shapes
    <3>2. e \in Entry
      BY <1>8, <3>1
    <3>3. /\ ledger'[w] \in Seq(Entry) /\ Len(ledger'[w]) = Len(ledger[w]) + 1
          /\ \A k \in 1 .. Len(ledger[w]) : ledger'[w][k] = ledger[w][k]
          /\ ledger'[w][Len(ledger[w]) + 1] = e
      BY <2>1, <3>1, <3>2, AppendProperties
    <3> QED
      BY <2>1, <3>1, <3>3, LenProperties
  <2> QED
    BY <2>2, <2>3
<1>10. Shapes'
  <2>1. ledger' \in [Wallets -> Seq(Entry)]
    <3>1. DOMAIN ledger' = Wallets /\ ledger' = [w \in Wallets |-> ledger'[w]]
      BY <1>7 DEF Inv, Shapes
    <3> QED
      BY <1>9, <3>1
  <2> QED
    BY <1>1, <1>3, <1>4, <2>1 DEF Inv, Shapes
<1>11. RowsOK'
  <2>1. CASE x.seq = 0
    BY <1>1, <1>4, <1>7, <2>1 DEF Inv, RowsOK
  <2>2. CASE x.seq # 0
    <3>1. rows' = rows \cup {r} /\ \A q \in rows : q.id # x.seq
      BY <1>3, <1>7, <2>2 DEF SessionOK
    <3> QED
      BY <1>1, <1>4, <1>8, <2>2, <3>1 DEF Inv, RowsOK
  <2> QED
    BY <2>1, <2>2
<1>12. LedgerOK'
  <2> SUFFICES ASSUME NEW w \in Wallets
               PROVE  /\ Ordered(ledger[w])'
                      /\ \A k \in DOMAIN ledger'[w] :
                           /\ ledger'[w][k].seq <= seq
                           /\ parseMinor(ledger'[w][k].sent) = Parsed(ledger'[w][k].minor)
    BY <1>1 DEF LedgerOK
  <2>1. /\ Ordered(ledger[w])
        /\ \A k \in DOMAIN ledger[w] :
             /\ ledger[w][k].seq <= seq
             /\ parseMinor(ledger[w][k].sent) = Parsed(ledger[w][k].minor)
    BY DEF Inv, LedgerOK
  <2>2. CASE ledger'[w] = ledger[w]
    BY <2>1, <2>2 DEF Ordered
  <2>3. CASE ledger'[w] # ledger[w]
    <3>1. /\ x.seq # 0 /\ w = x.wallet /\ Len(ledger'[w]) = Len(ledger[w]) + 1
          /\ ledger'[w][Len(ledger[w]) + 1] = e
          /\ \A k \in 1 .. Len(ledger[w]) : ledger'[w][k] = ledger[w][k]
          /\ DOMAIN ledger'[w] = 1 .. (Len(ledger[w]) + 1)
      BY <1>9, <2>3
    <3>2. \A k \in DOMAIN ledger[w] : ledger[w][k].seq < e.seq
      BY <1>3, <1>8, <3>1 DEF SessionOK
    <3>3. e.seq <= seq /\ parseMinor(e.sent) = Parsed(e.minor)
      BY <1>3, <1>8, <3>1 DEF SessionOK
    <3>4. Len(ledger[w]) \in Nat /\ DOMAIN ledger[w] = 1 .. Len(ledger[w])
      BY Entries
    <3>5. \A k \in DOMAIN ledger'[w] :
            k = Len(ledger[w]) + 1 \/ k \in DOMAIN ledger[w]
      BY <3>1, <3>4
    <3>6. \A k \in DOMAIN ledger'[w] :
            /\ ledger'[w][k].seq <= seq
            /\ parseMinor(ledger'[w][k].sent) = Parsed(ledger'[w][k].minor)
      BY <2>1, <3>1, <3>3, <3>4, <3>5
    <3>7. ASSUME NEW j \in DOMAIN ledger'[w], NEW k \in DOMAIN ledger'[w], j < k
          PROVE  ledger'[w][j].seq < ledger'[w][k].seq
      <4>1. j \in DOMAIN ledger[w]
        BY <3>1, <3>4, <3>7
      <4> QED
        BY <2>1, <3>1, <3>2, <3>4, <3>5, <3>7, <4>1 DEF Ordered
    <3> QED
      BY <3>6, <3>7 DEF Ordered
  <2> QED
    BY <2>2, <2>3
<1>13. ASSUME NEW q \in Sessions, session'[q] # Idle
       PROVE  q # s /\ session'[q] = session[q]
  BY <1>1, <1>4, <1>13
<1>14. SessionsOK'
  <2> SUFFICES ASSUME NEW q \in Sessions, session'[q] # Idle
               PROVE  SessionOK(session[q])'
    BY DEF SessionsOK
  <2>1. PICK z : z = session[q]
    OBVIOUS
  <2>2. /\ q # s /\ session'[q] = z /\ z # Idle
        /\ SessionOK(z) /\ z.wallet # x.wallet /\ (z.seq # 0 => z.seq # x.seq)
    BY <1>2, <1>3, <1>13, <2>1 DEF Inv, SessionsOK, Exclusive
  <2>3. z.wallet \in Wallets
    BY <1>1, <2>1, <2>2 DEF Writers
  <2>4. ledger'[z.wallet] = ledger[z.wallet]
    BY <1>9, <2>2, <2>3
  <2>5. z.seq # 0 => \A i \in rows' : i.id # z.seq
    BY <1>7, <1>8, <2>2 DEF SessionOK
  <2>6. SessionOK(z)'
    BY <1>1, <2>2, <2>4, <2>5 DEF SessionOK
  <2> QED
    BY <2>2, <2>6
<1>15. Exclusive'
  BY <1>13 DEF Inv, Exclusive
<1>16. ReaderOK'
  <2> DEFINE l == ledger[reader.wallet]
             n == Len(reader.seen)
             m == Len(reader.page)
  <2>1. reader.wallet \in Wallets /\ n \in Nat /\ m \in Nat
    BY LenProperties DEF Inv, Shapes
  <2>2. /\ Len(l) \in Nat /\ Len(l') \in Nat /\ Len(l') >= Len(l)
        /\ \A k \in 1 .. Len(l) : l'[k] = l[k]
    BY <1>4, <1>9, <2>1, Entries
  <2>3. /\ n + m <= Len(l)
        /\ \A k \in 1 .. n : reader.seen[k] = l[k]
        /\ \A k \in 1 .. m : reader.page[k] = l[n + k]
        /\ reader.cursor = IF n = 0 THEN NoCursor ELSE l[n].seq
        /\ reader.next # NoCursor => m > 0 /\ reader.next = l[n + m].seq
    BY DEF Inv, ReaderOK
  <2>4. n' = n /\ m' = m
    BY <1>4
  <2> HIDE DEF l, n, m
  <2>5. /\ n + m <= Len(l')
        /\ \A k \in 1 .. n : reader.seen[k] = l'[k]
        /\ \A k \in 1 .. m : reader.page[k] = l'[n + k]
        /\ reader.cursor = IF n = 0 THEN NoCursor ELSE l'[n].seq
        /\ reader.next # NoCursor => m > 0 /\ reader.next = l'[n + m].seq
    <3>1. n + m <= Len(l')
      BY <2>1, <2>2, <2>3
    <3>2. \A k \in 1 .. n + m : l'[k] = l[k]
      BY <2>1, <2>2, <2>3
    <3>3. /\ \A k \in 1 .. n : k \in 1 .. n + m
          /\ \A k \in 1 .. m : n + k \in 1 .. n + m
          /\ n # 0 => n \in 1 .. n + m
          /\ m > 0 => n + m \in 1 .. n + m
      BY <2>1
    <3>4. \A k \in 1 .. n : reader.seen[k] = l'[k]
      BY <2>3, <3>2, <3>3
    <3>5. \A k \in 1 .. m : reader.page[k] = l'[n + k]
      BY <2>3, <3>2, <3>3
    <3>6. reader.cursor = IF n = 0 THEN NoCursor ELSE l'[n].seq
      BY <2>3, <3>2, <3>3
    <3>7. reader.next # NoCursor => m > 0 /\ reader.next = l'[n + m].seq
      BY <2>3, <3>2, <3>3
    <3> QED
      BY <3>1, <3>4, <3>5, <3>6, <3>7
  <2> QED
    BY <1>4, <2>4, <2>5 DEF ReaderOK, l, n, m
<1> QED
  BY <1>10, <1>11, <1>12, <1>14, <1>15, <1>16 DEF Inv

\* A page that is read goes on from what the client has seen; without a next
\* cursor it ends where the ledger ends.
LEMMA PageStep ==
  ASSUME Inv, NEW t, NEW limit, getLedger(t, limit)
  PROVE  /\ Inv'
         /\ reader'.wallet = reader.wallet /\ reader'.cursor = reader.cursor
         /\ reader'.next = NoCursor =>
              Len(reader'.seen) + Len(reader'.page) = Len(ledger[reader.wallet])
<1> DEFINE w     == reader.wallet
           l     == ledger[w]
           n     == Len(reader.seen)
           size  == EffectiveLimit(limit)
           after == IF n = 0 THEN NoCursor ELSE l[n].seq
           page  == Page(w, after, size)
           rest  == Len(l) - n
<1>1. /\ reader \in [wallet : Wallets, cursor : 0 .. seq, seen : Seq(Entry), page : Seq(Entry),
                     next : 0 .. seq]
      /\ w \in Wallets /\ n \in Nat /\ Len(reader.page) \in Nat /\ seq \in Nat
  BY MaxSeqAssumption, LenProperties DEF Inv, Shapes
<1>2. /\ Len(l) \in Nat /\ n + Len(reader.page) <= Len(l) /\ reader.cursor = after
      /\ \A k \in 1 .. n : reader.seen[k] = l[k]
  BY <1>1, Entries DEF Inv, ReaderOK
<1>3. size \in Nat \ {0}
  BY LimitsAssumption DEF EffectiveLimit
<1>4. n \in 0 .. Len(l)
  BY <1>1, <1>2
<1>5. /\ page.entries \in Seq(Entry)
      /\ Len(page.entries) = IF rest > size THEN size ELSE rest
      /\ \A k \in 1 .. Len(page.entries) : page.entries[k] = l[n + k]
      /\ page.next = IF rest > size THEN l[n + size].seq ELSE NoCursor
  <2> HIDE DEF n, size, w
  <2> QED
    BY <1>1, <1>3, <1>4, PageExact DEF w
<1>6. /\ reader' = [reader EXCEPT !.page = page.entries, !.next = page.next]
      /\ UNCHANGED << wallets, rows, ledger, seq, session >>
  BY <1>2 DEF getLedger
<1>7. \A k \in 1 .. Len(l) : l[k].seq \in 1 .. seq
  BY <1>1, Entries
<1> PICK es : es = page.entries
  OBVIOUS
<1> PICK nx : nx = page.next
  OBVIOUS
<1>8. /\ reader'.wallet = w /\ reader'.cursor = reader.cursor /\ reader'.seen = reader.seen
      /\ reader'.page = es /\ reader'.next = nx
  BY <1>1, <1>6
<1> HIDE DEF page, l, n, size, after
<1>9. /\ es \in Seq(Entry) /\ Len(es) \in Nat /\ n + Len(es) <= Len(l)
      /\ nx \in 0 .. seq
      /\ nx # NoCursor => Len(es) > 0 /\ nx = l[n + Len(es)].seq
      /\ nx = NoCursor => n + Len(es) = Len(l)
  <2>1. CASE rest > size
    <3>1. n + size \in 1 .. Len(l)
      BY <1>1, <1>2, <1>3, <2>1
    <3> QED
      BY <1>1, <1>2, <1>3, <1>5, <1>7, <2>1, <3>1 DEF NoCursor
  <2>2. CASE ~(rest > size)
    BY <1>1, <1>2, <1>3, <1>4, <1>5, <2>2 DEF NoCursor
  <2> QED
    BY <2>1, <2>2
<1>10. Shapes'
  <2>1. reader' \in [wallet : Wallets, cursor : 0 .. seq, seen : Seq(Entry), page : Seq(Entry),
                     next : 0 .. seq]
    <3> PICK rd : rd = reader
      OBVIOUS
    <3>1. reader' = [rd EXCEPT !.page = es, !.next = nx]
      BY <1>6
    <3> QED
      BY <1>1, <1>9, <3>1
  <2> QED
    BY <1>6, <2>1 DEF Inv, Shapes
<1>11. RowsOK' /\ LedgerOK' /\ SessionsOK' /\ Exclusive'
  BY <1>6 DEF Inv, RowsOK, LedgerOK, SessionsOK, SessionOK, Exclusive
<1>12. ReaderOK'
  <2>1. l' = l /\ ledger' = ledger /\ reader'.wallet = reader.wallet
    BY <1>6, <1>8 DEF l
  <2>2. ledger'[reader'.wallet] = l /\ Len(reader'.seen) = n /\ Len(reader'.page) = Len(es)
    BY <1>8, <2>1 DEF l, n
  <2>3. /\ n + Len(es) <= Len(l)
        /\ \A k \in 1 .. n : reader'.seen[k] = l[k]
        /\ \A k \in 1 .. Len(es) : reader'.page[k] = l[n + k]
        /\ reader'.cursor = IF n = 0 THEN NoCursor ELSE l[n].seq
        /\ reader'.next # NoCursor => Len(es) > 0 /\ reader'.next = l[n + Len(es)].seq
    BY <1>2, <1>5, <1>8, <1>9 DEF after
  <2> HIDE DEF l, n
  <2> QED
    BY <2>2, <2>3 DEF ReaderOK
<1> QED
  BY <1>8, <1>9, <1>10, <1>11, <1>12 DEF Inv, l, n

\* What was seen and what goes on from there, together.
LEMMA Joined ==
  ASSUME NEW l \in Seq(Entry), NEW seen \in Seq(Entry), NEW page \in Seq(Entry),
         Len(seen) + Len(page) <= Len(l),
         \A k \in 1 .. Len(seen) : seen[k] = l[k],
         \A k \in 1 .. Len(page) : page[k] = l[Len(seen) + k]
  PROVE  /\ seen \o page \in Seq(Entry) /\ Len(seen \o page) = Len(seen) + Len(page)
         /\ \A k \in 1 .. Len(seen) + Len(page) : (seen \o page)[k] = l[k]
<1> DEFINE n == Len(seen)
           m == Len(page)
           b == seen \o page
<1>1. n \in Nat /\ m \in Nat
  BY LenProperties
<1>2. /\ b \in Seq(Entry) /\ Len(b) = n + m
      /\ \A k \in 1 .. n + m : b[k] = IF k <= n THEN seen[k] ELSE page[k - n]
  BY ConcatProperties
<1>3. ASSUME NEW k \in 1 .. n + m
      PROVE  b[k] = l[k]
  <2>1. CASE k <= n
    <3>1. k \in 1 .. n
      BY <1>1, <2>1
    <3> HIDE DEF b, n, m
    <3> QED
      BY <1>2, <2>1, <3>1 DEF n
  <2>2. CASE ~(k <= n)
    <3>1. k - n \in 1 .. m /\ n + (k - n) = k
      BY <1>1, <2>2
    <3>2. page[k - n] = l[n + (k - n)]
      BY <3>1
    <3> HIDE DEF b, n, m
    <3> QED
      BY <1>2, <2>2, <3>1, <3>2
  <2> QED
    BY <2>1, <2>2
<1> QED
  BY <1>2, <1>3

\* The client goes on behind what the page showed.
LEMMA FollowStep ==
  ASSUME Inv, Follow
  PROVE  Inv' /\ reader'.cursor # reader.cursor
<1> DEFINE l == ledger[reader.wallet]
           n == Len(reader.seen)
           m == Len(reader.page)
           both == reader.seen \o reader.page
<1>1. /\ reader \in [wallet : Wallets, cursor : 0 .. seq, seen : Seq(Entry), page : Seq(Entry),
                     next : 0 .. seq]
      /\ n \in Nat /\ m \in Nat /\ seq \in Nat
  BY MaxSeqAssumption, LenProperties DEF Inv, Shapes
<1>2. /\ Len(l) \in Nat /\ \A k \in 1 .. Len(l) : l[k].seq \in Nat \ {0}
      /\ \A j, k \in 1 .. Len(l) : j < k => l[j].seq < l[k].seq
  BY <1>1, Entries DEF Inv, LedgerOK, Ordered
<1>3. /\ n + m <= Len(l)
      /\ \A k \in 1 .. n : reader.seen[k] = l[k]
      /\ \A k \in 1 .. m : reader.page[k] = l[n + k]
      /\ reader.cursor = IF n = 0 THEN NoCursor ELSE l[n].seq
      /\ m > 0 /\ reader.next = l[n + m].seq
  BY DEF Inv, ReaderOK, Follow
<1>4. /\ both \in Seq(Entry) /\ Len(both) = n + m
      /\ \A k \in 1 .. n + m : both[k] = l[k]
  <2>1. l \in Seq(Entry) /\ reader.seen \in Seq(Entry) /\ reader.page \in Seq(Entry)
    BY <1>1, Entries
  <2> HIDE DEF l
  <2> QED
    BY <1>3, <2>1, Joined
<1>5. /\ reader' = [reader EXCEPT !.cursor = reader.next, !.seen = both,
                                  !.page = << >>, !.next = NoCursor]
      /\ UNCHANGED << wallets, rows, ledger, seq, session >>
  BY DEF Follow
<1> PICK b : b = both
  OBVIOUS
<1> HIDE DEF both
<1>6. /\ reader'.wallet = reader.wallet /\ reader'.cursor = reader.next
      /\ reader'.seen = b /\ reader'.page = << >> /\ reader'.next = NoCursor
  BY <1>1, <1>5
<1>7. Shapes'
  <2>1. reader' \in [wallet : Wallets, cursor : 0 .. seq, seen : Seq(Entry), page : Seq(Entry),
                     next : 0 .. seq]
    <3>1. b \in Seq(Entry) /\ << >> \in Seq(Entry) /\ NoCursor \in 0 .. seq
      BY <1>1, <1>4 DEF NoCursor
    <3> PICK rd : rd = reader
      OBVIOUS
    <3>2. reader' = [rd EXCEPT !.cursor = rd.next, !.seen = b, !.page = << >>, !.next = NoCursor]
      BY <1>5
    <3> QED
      BY <1>1, <3>1, <3>2
  <2> QED
    BY <1>5, <2>1 DEF Inv, Shapes
<1>8. RowsOK' /\ LedgerOK' /\ SessionsOK' /\ Exclusive'
  BY <1>5 DEF Inv, RowsOK, LedgerOK, SessionsOK, SessionOK, Exclusive
<1>9. ReaderOK'
  <2>1. ledger' = ledger /\ Len(<< >>) = 0
    BY <1>5
  <2>2. Len(b) = n + m /\ n + m # 0 /\ \A k \in 1 .. n + m : b[k] = l[k]
    <3>1. n + m # 0
      BY <1>1, <1>3
    <3>2. Len(b) = n + m /\ \A k \in 1 .. n + m : b[k] = l[k]
      BY <1>4, Zenon
    <3> QED
      BY <3>1, <3>2, Zenon
  <2> HIDE DEF n, m
  <2> QED
    BY <1>1, <1>3, <1>6, <2>1, <2>2 DEF ReaderOK, l
<1>10. reader.next # reader.cursor
  <2>1. n + m \in 1 .. Len(l) /\ (n # 0 => n \in 1 .. Len(l) /\ n < n + m)
    BY <1>1, <1>2, <1>3
  <2> HIDE DEF n, m, l
  <2> QED
    BY <1>2, <1>3, <2>1 DEF NoCursor
<1> QED
  BY <1>6, <1>7, <1>8, <1>9, <1>10 DEF Inv

\* Every step keeps the invariant.
LEMMA InvStep == Inv /\ [Next]_vars => Inv'
<1> SUFFICES ASSUME Inv, [Next]_vars PROVE Inv'
  OBVIOUS
<1>1. ASSUME NEW s \in Sessions, Write(s)
      PROVE  Inv'
  BY <1>1, RequestStep, AppendStep, CommitStep, RollbackStep DEF Write
<1>2. ASSUME NEW t \in Tokens, NEW limit \in 0 .. MaxLimit + 1, getLedger(t, limit)
      PROVE  Inv'
  BY <1>2, PageStep
<1>3. CASE Follow
  BY <1>3, FollowStep
<1>4. CASE UNCHANGED vars
  BY <1>4 DEF vars, Inv, Shapes, RowsOK, LedgerOK, SessionsOK, SessionOK, Exclusive,
     ReaderOK,
              Ordered
<1> QED
  BY <1>1, <1>2, <1>3, <1>4 DEF Next

-----------------------------------------------------------------------------
(* Theorems *)

\* The invariant always holds: numbers are unique, a wallet's row has one
\* holder, its entries are committed in the order of their numbers, and the
\* client stands at an entry of the ledger.
THEOREM Invariance == Spec => []Inv
<1> QED
  BY InitInv, InvStep, PTL DEF Spec

\* TypeOK always holds: tables, sessions and the reader keep their shape, and
\* a number taken from the sequence is never in two rows.
THEOREM ApiTypeCorrect == Spec => []TypeOK
<1>1. Inv => TypeOK
  <2> SUFFICES ASSUME Inv PROVE TypeOK
    OBVIOUS
  <2>1. /\ wallets \subseteq Wallets /\ seq \in 0 .. MaxSeq
        /\ reader.cursor \in 0 .. seq /\ reader.next \in 0 .. seq
    BY DEF Inv, Shapes
  <2>2. ASSUME NEW s \in Sessions, session[s] # Idle
        PROVE  session[s].pc \in {"append", "commit"} /\ session[s].seq \in 0 .. seq
    <3>1. session[s] \in Writers /\ session[s].seq <= seq
      BY <2>2 DEF Inv, Shapes, SessionsOK, SessionOK
    <3> QED
      BY <2>1, <3>1, MaxSeqAssumption DEF Writers
  <2> QED
    BY <2>1, <2>2 DEF TypeOK, Inv, RowsOK
<1> QED
  BY <1>1, Invariance, PTL

\* PagesExact always holds: the pages a client collects are the beginning of
\* the ledger, without a gap or a repetition, whatever commits between them.
THEOREM PagesAreExact == Spec => []PagesExact
<1>1. Inv => PagesExact
  <2> SUFFICES ASSUME Inv PROVE PagesExact
    OBVIOUS
  <2> DEFINE l == ledger[reader.wallet]
             b == reader.seen \o reader.page
             n == Len(b)
  <2>1. /\ l \in Seq(Entry) /\ b \in Seq(Entry) /\ n \in Nat /\ Len(l) \in Nat /\ n <= Len(l)
        /\ \A k \in 1 .. n : b[k] = l[k]
    <3>1. l \in Seq(Entry) /\ reader.seen \in Seq(Entry) /\ reader.page \in Seq(Entry)
      BY DEF Inv, Shapes
    <3>2. /\ Len(reader.seen) + Len(reader.page) <= Len(l)
          /\ \A k \in 1 .. Len(reader.seen) : reader.seen[k] = l[k]
          /\ \A k \in 1 .. Len(reader.page) : reader.page[k] = l[Len(reader.seen) + k]
      BY DEF Inv, ReaderOK
    <3>3. /\ b \in Seq(Entry) /\ n = Len(reader.seen) + Len(reader.page)
          /\ \A k \in 1 .. Len(reader.seen) + Len(reader.page) : b[k] = l[k]
      <4> HIDE DEF l
      <4> QED
        BY <3>1, <3>2, Joined, Zenon
    <3>4. n \in Nat /\ Len(l) \in Nat
      <4> HIDE DEF l, b
      <4> QED
        BY <3>1, <3>3, LenProperties
    <3> HIDE DEF l, b, n
    <3> QED
      BY <3>1, <3>2, <3>3, <3>4
  <2> HIDE DEF b, l
  <2>2. /\ SubSeq(b, 1, n) \in Seq(Entry) /\ Len(SubSeq(b, 1, n)) = n
        /\ \A k \in 1 .. n : SubSeq(b, 1, n)[k] = b[k]
    <3>1. \A k \in 1 .. n : b[k] \in Entry
      BY <2>1, ElementOfSeq
    <3> QED
      BY <2>1, <3>1, SubSeqProperties
  <2>3. /\ SubSeq(l, 1, n) \in Seq(Entry) /\ Len(SubSeq(l, 1, n)) = n
        /\ \A k \in 1 .. n : SubSeq(l, 1, n)[k] = l[k]
    <3>1. \A k \in 1 .. n : l[k] \in Entry
      BY <2>1, ElementOfSeq
    <3> QED
      BY <2>1, <3>1, SubSeqProperties
  <2>4. SubSeq(b, 1, n) = SubSeq(l, 1, n)
    <3> HIDE DEF n
    <3> QED
      BY <2>1, <2>2, <2>3, SeqEqual
  <2> QED
    BY <2>1, <2>4 DEF PagesExact, IsPrefix, b, l
<1> QED
  BY <1>1, Invariance, PTL

\* LastPageComplete holds: when a page comes without a next cursor, the client
\* has seen all that was committed when it was read.
THEOREM LastPageIsComplete == Spec => LastPageComplete
<1> DEFINE Complete ==
      reader' # reader /\ reader'.next = NoCursor /\ reader'.cursor = reader.cursor =>
        reader'.seen \o reader'.page = ledger[reader.wallet]
<1>1. Inv /\ [Next]_vars => [Complete]_vars
  <2> SUFFICES ASSUME Inv, Next, reader' # reader, reader'.next = NoCursor,
                      reader'.cursor = reader.cursor
               PROVE  reader'.seen \o reader'.page = ledger[reader.wallet]
    OBVIOUS
  <2>1. Inv'
    BY InvStep
  <2>2. PICK t \in Tokens, limit \in 0 .. MaxLimit + 1 : getLedger(t, limit)
    <3>1. ASSUME NEW s \in Sessions, Write(s)
          PROVE  FALSE
      BY <3>1 DEF Write, Request, openWallet, postTransaction, Append_, Commit, Rollback
    <3>2. ~Follow
      BY FollowStep
    <3> QED
      BY <3>1, <3>2 DEF Next
  <2>3. /\ reader'.wallet = reader.wallet /\ ledger' = ledger
        /\ Len(reader'.seen) + Len(reader'.page) = Len(ledger[reader.wallet])
    BY <2>2, PageStep DEF getLedger
  <2>4. PICK l, seen, page : l = ledger[reader.wallet] /\ seen = reader'.seen /\ page = reader'.page
    OBVIOUS
  <2>5. l \in Seq(Entry) /\ seen \in Seq(Entry) /\ page \in Seq(Entry)
    BY <2>1, <2>3, <2>4 DEF Inv, Shapes
  <2>6. /\ Len(seen) + Len(page) = Len(l)
        /\ \A k \in 1 .. Len(seen) : seen[k] = l[k]
        /\ \A k \in 1 .. Len(page) : page[k] = l[Len(seen) + k]
    BY <2>1, <2>3, <2>4 DEF Inv, ReaderOK
  <2>7. Len(seen) + Len(page) <= Len(l)
    BY <2>5, <2>6, LenProperties
  <2>8. /\ seen \o page \in Seq(Entry) /\ Len(seen \o page) = Len(seen) + Len(page)
        /\ \A k \in 1 .. Len(seen) + Len(page) : (seen \o page)[k] = l[k]
    BY <2>5, <2>6, <2>7, Joined
  <2>9. seen \o page = l
    BY <2>5, <2>6, <2>8, SeqEqual
  <2> QED
    BY <2>4, <2>9
<1> QED
  BY <1>1, Invariance, PTL DEF Spec, LastPageComplete

\* ProvidersIsolated always holds: no answer to a provider depends on the rows
\* of another one.
THEOREM ProvidersAreIsolated == Spec => []ProvidersIsolated
<1>1. Inv => ProvidersIsolated
  BY IsolatedReads DEF Inv, RowsOK, ProvidersIsolated
<1> QED
  BY <1>1, Invariance, PTL

\* AmountsExact always holds: every text is accepted exactly when it is a
\* plain decimal that fits, and what a page shows is what was sent.
THEOREM AmountsAreExact == Spec => []AmountsExact
<1>1. Inv => AmountsExact
  <2> SUFFICES ASSUME Inv PROVE AmountsExact
    OBVIOUS
  <2>1. ASSUME NEW t \in Texts
        PROVE  IF MatchesPattern(t) /\ ~t.neg /\ Hundredths(t) <= MaxMinor
               THEN parseMinor(t) = Parsed(Hundredths(t))
               ELSE ~parseMinor(t).ok
    BY ParseExact, TextsAssumption
  <2>2. ASSUME NEW k \in DOMAIN reader.page
        PROVE  LET entry == reader.page[k]
               IN /\ Hundredths(Amount(entry.minor)) = Hundredths(entry.sent)
                  /\ \A v \in {entry.minor, -entry.minor, -entry.minor - 1} :
                       /\ Hundredths(Amount(v)) = v
                       /\ v # MinMinor => ParseSigned(Amount(v)) = Parsed(v)
    <3> DEFINE l == ledger[reader.wallet]
               n == Len(reader.seen)
               m == Len(reader.page)
    <3>1. /\ reader.wallet \in Wallets /\ n \in Nat /\ m \in Nat /\ k \in 1 .. m
          /\ n + m <= Len(l) /\ reader.page[k] = l[n + k]
      BY LenProperties DEF Inv, Shapes, ReaderOK
    <3>2. n + k \in DOMAIN l
      <4>1. Len(l) \in Nat /\ DOMAIN l = 1 .. Len(l)
        BY <3>1, Entries
      <4> HIDE DEF l, n, m
      <4> QED
        BY <3>1, <4>1
    <3> PICK e : e = reader.page[k]
      OBVIOUS
    <3>3. e \in Entry /\ parseMinor(e.sent) = Parsed(e.minor)
      BY <3>1, <3>2, Entries DEF Inv, LedgerOK
    <3>4. e.minor \in 1 .. MaxMinor /\ e.sent \in Texts
      BY <3>3 DEF Entry
    <3>5. e.minor \in Minor /\ -e.minor \in Minor /\ -e.minor - 1 \in Minor
      BY <3>4, MaxMinorAssumption DEF Minor, MinMinor
    <3>6. e.minor = Hundredths(e.sent)
      BY <2>1, <3>3, <3>4 DEF Parsed
    <3> QED
      BY <3>5, <3>6, AmountExact
  <2> QED
    BY <2>1, <2>2 DEF AmountsExact
<1> QED
  BY <1>1, Invariance, PTL
=============================================================================
