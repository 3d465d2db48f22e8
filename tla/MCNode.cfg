SPECIFICATION MCSpec
SYMMETRY MCSymmetry
CONSTANTS
  Tasks = {t1, t2}
  Currencies = {CHF, EUR}
  Payments = {p1, p2}
  MaxQuote = 2
  MaxSeconds = 1
  MaxOffers = 3
  Threads = {th1, th2}
  MaxChoices = 4
  NoBackup = NoBackup
INVARIANTS
  RatesPersisted
  PairIsOneAnswer
  PreferenceStored
PROPERTIES
  RatesForward
  RecordedRates
  ChoicesKept
