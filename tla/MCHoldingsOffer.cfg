\* Is a transfer that the status offered ever taken for missing HYPE?
CONSTANTS
  Terms <- OfferTerms
  Calls <- MCCalls
  Taken = {"foreign"}
  Quantities = {3}
  Outcomes <- WholeOutcomes
  Routes <- RunbookRoutes
  Amounts = {2}
  Target = 1
  Overlap = 1
  MaxDays = 2
  MaxMoves = 4
  MaxTime = 4
SPECIFICATION Spec
INVARIANT OfferedNeverGaps
CHECK_DEADLOCK FALSE
