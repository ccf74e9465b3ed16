\* Two decisions and two movements of an account; any calls on one decision.
CONSTANTS
  Terms <- MCTerms
  Calls <- MCCalls
  Taken = {"foreign"}
  Quantities = {4}
  Outcomes <- MCOutcomes
  Routes <- AllRoutes
  Amounts = {1}
  Target = 1
  Overlap = 1
  MaxDays = 2
  MaxMoves = 2
  MaxTime = 4
SPECIFICATION Spec
INVARIANTS
  SplitConserved
  RetryHarmless
  HistoryExact
  JudgementExact
  BufferKept
  TransfersSound
CHECK_DEADLOCK FALSE
