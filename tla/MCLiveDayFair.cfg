CONSTANTS
  t1 = t1
  t2 = t2
  Trades = {t1}
  Quantity = 1
  MaxStops = 1
  RetriesSameDay = TRUE
  Terms <- MCPlainTerms
SPECIFICATION FairSpec
PROPERTY
  EventuallySettled
CHECK_DEADLOCK FALSE
