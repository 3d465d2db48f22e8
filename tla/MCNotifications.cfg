SPECIFICATION FairNotifications
CONSTANTS
  h1 = h1
  h2 = h2
  s1 = s1
  s2 = s2
  Hashes = {h1, h2}
  Timeout = 4
  Period = 2
  MaxTime = 6
  MaxEvents = 2
  Addresses = {a1}
  Phones = {}
  Threads = {t1}
  MaxLate = 0
  SwapHash <- MCSwapHash
  ReverseAddresses = {r1}
  None = None
INVARIANTS
  TypeOK
  NotificationIsTrue
  MissedOnlyLate
  InvoiceIsSafe
PROPERTIES
  AnswersPayer
  HandlerReturns
