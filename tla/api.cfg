CONSTANTS
  MaxMinor = 1023
  MaxWholeDigits = 2
  Providers = {a, b}
  NoProvider = NoProvider
  Wallets = {w1, w2}
  ExternalIds = {x}
  NoExt = NoExt
  Sessions = {s1, s2}
  Texts <- MCTexts
  DefaultLimit = 2
  MaxLimit = 2
  MaxSeq = 4
SYMMETRY Symmetric
SPECIFICATION Spec
INVARIANTS PagesExact ProvidersIsolated AmountsExact
PROPERTIES LastPageComplete
