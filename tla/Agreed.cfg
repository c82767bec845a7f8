SPECIFICATION Spec
CONSTANTS
  Movers = {locatario}
  Roles = {locatario, locador}
  Emails = {e1, e2, e3}
  NoRole = NoRole
  NoEmail = NoEmail
  Dates = {2, 3}
  Workers = {w1, w2}
  SignMargin = 1
  LeadTime = 1
  AnswerTime = 1
  Length = 0
  CodeLife = 1
  MaxTries = 1
  MaxTime = 2
  MaxCodes = 2
  MaxProposals = 2
  MaxEvents = 3
SYMMETRY Symmetry
CHECK_DEADLOCK FALSE
INVARIANTS RevisionsAreAgreed EverySignatureIsProven SignedByAll
PROPERTIES EvidenceIsKept ImplementsAgreement
