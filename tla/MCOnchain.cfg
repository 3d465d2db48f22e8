SPECIFICATION MCSpec
CONSTANTS
  Payments = {499000, 1600000, 30000000}
  Deposits = {1100, 27000}
  Rates = {1, 15}
  AddedLiquidity = 50000000
  MinOpeningFee = 500000
  OpeningShare = 200
  MinDeposit = 1000
  MaxDeposit = 26000
  MaxPayments = 2
  MaxSwaps = 2
  RoutingPermyriad = 150
  ExemptFee = 21
  MaxReceive = 1000000
  FeeMultiplier = 2
  CheaperTerms <- Cheaper
  LongerTerms <- Longer
  Width = 1073741824
  MinReverse = 1000
  MaxReverse = 20000
  SwapperFee = 150
  Latest = 2
  MaxOffers = 2
  MaxReceived = 4
  NoOffer = 0
INVARIANTS
  DepositWithinLimits
  OfferedSwapSucceeds
  PromisesKept
  HiddenItemsReturn
PROPERTIES
  ClaimedNotListed
