SPECIFICATION Spec
CONSTANTS
  listing1 = listing1
  listing2 = listing2
  machine1 = machine1
  Rentals = {r1}
  Postings = {listing1}
  MachineOf <- OneListing
  Periods <- NeighbourPeriods
  Prices = {1}
  Attempts = {a1, a2}
  Workers = {w1}
  NoRental = NoRental
  NoAttempt = NoAttempt
  HoldTime = 1
  SessionLife = 2
  ReuseLife = 2
  StripeLife = 1
  LeadTime = 2
  Notice = 2
  SignMargin = 1
  CleaningGap = 1
  MaxTime = 3
  Slips = TRUE
  Moderation = {"suspend"}
SYMMETRY Symmetry
CHECK_DEADLOCK FALSE
PROPERTIES SuspensionSparesConfirmed
