CONSTANTS
  Requests = {r1, r2}
  Horizon = 1
  QuoteLookback = 1
  MaxHistoryBars = 2
  Offers <- MCOffers
  None = None

SPECIFICATION FairSpec

INVARIANTS
  TypeOK
  AnswersAgree
  AnswerHasItsBatch

PROPERTIES
  QuoteNeverGoesBack
  EveryBatchEnds
