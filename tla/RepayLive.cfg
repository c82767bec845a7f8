SPECIFICATION JobSpec
CONSTANTS
  RefundIds = {f1, f2}
  NoRefund = NoRefund
  Workers = {w1}
  Window = 1
  CallLife = 1
  KeyLife = 3
  MaxTime = 3
  MaxAttempts = 2
CHECK_DEADLOCK FALSE
PROPERTIES RepaidIsEntered
