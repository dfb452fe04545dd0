CONSTANTS
  MaxMinor = 4
  MaxAttempts = 2
  MaxFaults = 1
  MaxDuration = 1023
  Durations <- SomeDurations
  LastAttempt = 12
  RetryTimes <- OneTime
  Callers = {c1, c2}
  Consumers = {}
  Resolvers = {v1, v2}
  Commands <- ReversalCommands
  Messages <- NoMessages
  Openings <- OneWallet
  Wallets <- MCWallets
  Players <- MCPlayers
  Currencies <- MCCurrencies
  Providers <- MCProviders
  Keys <- MCKeys
  ExternalIds <- MCExternalIds
  Rounds <- MCRounds
  Null = Null
  w1 = w1  w2 = w2  p1 = p1  p2 = p2  BRL = BRL  USD = USD  prov = prov  r1 = r1  r2 = r2
  k1 = k1  k2 = k2  k3 = k3  k4 = k4
  e1 = e1  e2 = e2  e3 = e3  e4 = e4
SPECIFICATION Spec
SYMMETRY Symmetry
INVARIANTS ReversedOnce BackstopsIdle WalletLockHolds ReversalSound
PROPERTIES NotFoundIsTrue HistoryFrozen
