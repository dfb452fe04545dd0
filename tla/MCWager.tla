------------------------------ MODULE MCWager ------------------------------
(***************************************************************************)
(* Small instances of WagerService.  Every scenario is a set of openings,  *)
(* of commands submitted over HTTP and of messages on the command queue;   *)
(* the sessions are model values of the .cfg files.                        *)
(***************************************************************************)
EXTENDS WagerProperties, TLC

CONSTANTS w1, w2, p1, p2, BRL, USD, prov, k1, k2, k3, k4, e1, e2, e3, e4, r1, r2

MCWallets     == {w1, w2}
MCPlayers     == {p1, p2}
MCCurrencies  == {BRL, USD}
MCProviders   == {prov}
MCKeys        == {k1, k2, k3, k4}
MCExternalIds == {e1, e2, e3, e4}
MCRounds      == {r1, r2}
OneTime       == {1}
TwoTimes      == {1, 2}

\* Unset, nonsensical, small, and the half of the integers, where doubling
\* still fits.
SomeDurations == {-1, 0, 1, 7, (MaxDuration + 1) \div 2}

\* An operation of player p1 in BRL and round r1 on wallet w1.
Op(kind, key, ext, amount, reference) ==
  [ provider |-> prov, key |-> key, ext |-> ext, wallet |-> w1, player |-> p1,
    round |-> r1, kind |-> kind, amount |-> amount, currency |-> BRL, ref |-> reference ]

On(c, w, player)     == [c EXCEPT !.wallet = w, !.player = player]
InRound(c, round)    == [c EXCEPT !.round = round]
InCurrency(c, cur)   == [c EXCEPT !.currency = cur]
Message(id, c)       == [id |-> id, cmd |-> c]
Opening(w, player, cur, amount) ==
  [wallet |-> w, player |-> player, currency |-> cur, amount |-> amount]

OneWallet  == {Opening(w1, p1, BRL, 2)}
TwoWallets == {Opening(w1, p1, BRL, 2), Opening(w2, p2, BRL, 0)}

NoMessages == {}

Symmetry == Permutations(Callers) \cup Permutations(Resolvers)

-----------------------------------------------------------------------------
(* idempotency: HTTP and SQS submit the same bet; k1 comes back with       *)
(* another amount, e1 under another key, a bet is not in the currency of   *)
(* the wallet, and one request is malformed.                               *)

IdempotencyCommands ==
  { Op("BET", k1, e1, 1, Null), Op("BET", k1, e1, 2, Null),
    Op("BET", k2, e1, 1, Null), InCurrency(Op("BET", k4, e4, 1, Null), USD),
    Op("LOSS", k3, e3, 1, Null) }
IdempotencyMessages ==
  { Message(1, Op("BET", k1, e1, 1, Null)), Message(1, Op("BET", k1, e1, 2, Null)) }

(* reversals: a refund and a rollback of one bet, in any order with it.    *)
(* The bet comes in one of two forms: in their round, or in another one.   *)

ReversalCommands ==
  { Op("BET", k1, e1, 1, Null), InRound(Op("BET", k1, e1, 1, Null), r2),
    Op("REFUND", k2, e2, 1, e1), Op("ROLLBACK", k3, e3, 1, e1) }

(* cross: two bets of which the wallet covers one and a win that overflows *)
(* a full wallet; on a second wallet a loss and a refund that reuse an      *)
(* external id, a key and a reference of the first.                         *)

CrossCommands ==
  { Op("BET", k1, e1, 1, Null), Op("BET", k3, e3, 2, Null), Op("WIN", k4, e4, 1, Null),
    On(Op("LOSS", k2, e1, 0, Null), w2, p2) }
CrossMessages == { Message(1, On(Op("REFUND", k1, e2, 1, e1), w2, p2)) }

(* chain: a rollback of a win that refers to a bet; every link may come    *)
(* first, and the win may be spent before it is rolled back.               *)

ChainCommands ==
  { Op("BET", k1, e1, 2, Null), Op("WIN", k2, e2, 1, e1),
    Op("ROLLBACK", k3, e3, 1, e2), Op("BET", k4, e4, 1, Null) }

(* A refund that waits while the wallet fills up. *)

OverflowCommands ==
  { Op("BET", k1, e1, 1, Null), Op("WIN", k2, e2, 1, Null), Op("REFUND", k3, e3, 1, e1) }

=============================================================================
