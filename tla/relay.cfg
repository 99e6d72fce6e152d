SPECIFICATION FairSpec
CONSTANTS
  r1 = r1  c1 = c1  c2 = c2  c3 = c3
  Requests = {r1}
  Channels = {c1, c2, c3}
  Priority <- TwoTiers
  MaxRetries = 2
  Prices = {0, 1, 2}
  Est = 1
  Reported = {0, 2}
  Budget = 1
  MaxEdits = 1
  MaxStoreErrors = 1
  MaxCrashes = 1
CHECK_DEADLOCK FALSE
INVARIANT TypeOK
INVARIANT FailoverDiscipline
INVARIANT BooksAgree
INVARIANT BilledAtItsPrice
PROPERTY AnswerIsFinal
PROPERTY ImplementsLedger
PROPERTY AdmittedEnd
