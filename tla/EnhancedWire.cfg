SPECIFICATION Spec
CONSTANTS
  Telegrams <- FewTelegrams
  NackMax = 1
  MaxOps = 5
INVARIANTS
  TelegramsAdmitted
  ReplyIsOurs
  AttemptEndsOrderly
