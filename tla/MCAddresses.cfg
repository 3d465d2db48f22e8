SPECIFICATION MCSpec
SYMMETRY Symmetry
CONSTANTS
  Addresses = {a, p, q}
  Phones = {p, q}
  Threads = {t1, t2}
  MaxLate = 1
  Countries <- MCCountries
  Code <- MCCode
  Numbers <- MCNumbers
  CountryOf <- MCCountryOf
  Allowed = {"US", "CH"}
  LipaDomain <- MCDomain
  Pasted <- MCPasted
  MaxTyped = 3
  Payees <- MCPayees
  Rank <- MCRank
  MaxPayments = 3
  MaxClock = 2
INVARIANTS
  Agreement
  IncompleteCanBecomeValid
  NumbersAgree
PROPERTIES
  OkMeansSet
  ErrorsStay
  CutIsAccepted
  RecentFirst
