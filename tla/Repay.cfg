SPECIFICATION Spec
CONSTANTS
  RefundIds = {f1, f2}
  NoRefund = NoRefund
  Workers = {w1, w2}
  Window = 1
  CallLife = 1
  KeyLife = 3
  MaxTime = 3
  MaxAttempts = 2
SYMMETRY Symmetry
CHECK_DEADLOCK FALSE
INVARIANTS PaidBackOnce RepaidIsTrue ReplacedHasFailed
PROPERTIES TerminalIsFinal ImplementsPromise
