------------------------------ MODULE Calendar ------------------------------
(***************************************************************************)
(* Time as the capital modules see it: a natural number of ticks, DayLength*)
(* of them to a day, one of which is the day's decision boundary           *)
(* (PacingLimits.utc_hour and utc_minute in src/src/pacing.rs).            *)
(***************************************************************************)
EXTENDS Integers

CONSTANTS
  DayLength,        \* ticks per day
  DecisionHour      \* tick of the day at which a decision is due

ASSUME CalendarConstants ==
  DayLength \in Nat \ {0} /\ DecisionHour \in 0 .. DayLength - 1

DateOf(t) == t \div DayLength
Boundary(date) == date * DayLength + DecisionHour

=============================================================================
