CONSTANTS
  Deposits = {1, 2}
  Withdrawals = {3}
  Transfer = {3}
  Amount <- MCAmount
  DayLength = 2
  YearLength = 3
  DecisionHour = 0
  Weekdays <- MCWeekdays
  FinalCatchUp = 1
  Cooldown = 1
  AutoCap = 4
  YearCap = 6
  TotalCap = 6
  MinOrder = 1
  MaxDaily = 2
  FixedReserve = 1
  FeeBps = 2000
  Backdated = FALSE
  Overlap = 1
  Fees = {1}
  Worlds <- MCWorlds
  MaxTime = 4
SPECIFICATION Spec
INVARIANTS BooksAgree ReserveIntact NothingMissed BoundaryHonoured NeverAtOdds ScheduledSlotKept
CHECK_DEADLOCK FALSE
