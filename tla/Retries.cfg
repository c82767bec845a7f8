SPECIFICATION WebhookSpec
CONSTANTS
  listing1 = listing1
  listing2 = listing2
  machine1 = machine1
  Rentals = {r1}
  Postings = {listing1}
  MachineOf <- OneListing
  Periods <- EarlyPeriods
  Prices = {1}
  Attempts = {a1, a2}
  Workers = {w1, w2}
  NoRental = NoRental
  NoAttempt = NoAttempt
  HoldTime = 1
  SessionLife = 1
  ReuseLife = 1
  StripeLife = 1
  LeadTime = 1
  Notice = 2
  SignMargin = 1
  CleaningGap = 1
  MaxTime = 2
  Slips = TRUE
  Moderation = {}
CHECK_DEADLOCK FALSE
INVARIANTS ConfirmedPaidOnce ExpiredTakesNoMoney CancelledMoneyIsOwed
PROPERTIES OutcomesAreFinal PaidIsSettled OverdueIsCancelled
