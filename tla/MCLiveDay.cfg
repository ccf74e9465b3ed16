CONSTANTS
  t1 = t1
  t2 = t2
  Trades = {t1, t2}
  Quantity = 2
  MaxStops = 1
  RetriesSameDay = FALSE
  Terms <- MCTerms
SPECIFICATION Spec
INVARIANTS
  WriteAhead
  AbsenceConclusive
  SettlementExact
  NoFalseAlarm
  LedgerMatchesJournal
PROPERTY
  TotalsFreeze
CHECK_DEADLOCK FALSE
