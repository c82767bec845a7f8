SPECIFICATION JobsSpec
CONSTANTS
  listing1 = listing1
  listing2 = listing2
  machine1 = machine1
  Rentals = {r1}
  Postings = {listing1}
  MachineOf <- OneListing
  Periods <- NeighbourPeriods
  Prices = {1, 2}
  Attempts = {a1}
  Workers = {w1}
  NoRental = NoRental
  NoAttempt = NoAttempt
  HoldTime = 1
  SessionLife = 2
  ReuseLife = 2
  StripeLife = 1
  LeadTime = 2
  Notice = 2
  SignMargin = 1
  CleaningGap = 1
  MaxTime = 4
  Slips = TRUE
  Moderation = {"suspend", "ban"}
CHECK_DEADLOCK FALSE
INVARIANTS SignedTermsAreCurrent
PROPERTIES PendingIsReconciled
