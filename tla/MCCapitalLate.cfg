CONSTANTS
  Deposits = {1}
  Withdrawals = {3, 4}
  Transfer = {3, 4}
  Amount <- MCLateAmount
  DayLength = 2
  YearLength = 3
  DecisionHour = 0
  Weekdays <- MCWeekdays
  FinalCatchUp = 1
  Cooldown = 1
  AutoCap = 4
  YearCap = 6
  TotalCap = 6
  MinOrder = 1
  MaxDaily = 2
  FixedReserve = 1
  FeeBps = 2000
  Backdated = FALSE
  Overlap = 2
  Fees = {1}
  Worlds <- MCLateWorlds
  MaxTime = 4
SPECIFICATION Spec
INVARIANTS CorruptForCause
CHECK_DEADLOCK FALSE
