------------------------------ MODULE MCLiveDay ------------------------------
(***************************************************************************)
(* Instances of LiveDay: the terms the day may run under.                  *)
(***************************************************************************)
EXTENDS LiveDay

CONSTANTS t1, t2

\* A two-lot order, one of whose lots the venue may round away, a venue clock
\* one tick off either way, and a day that ends while a prepared order may
\* still be alive.
Skewed ==
  [accepts |-> {1, 2}, lag |-> 1, window |-> 3, dayEnd |-> 1, maxTime |-> 6,
   ends |-> {"canceled", "unrecognised"}, mayCap |-> FALSE, lies |-> {}]

Says(size, filled, status, at) ==
  [size |-> size, filled |-> filled, status |-> status, at |-> at]

\* Answers that end the order early, end it short, overstate its size, and show
\* an order that was not there when the venue was searched for it.
Lying ==
  [accepts |-> {2}, lag |-> 0, window |-> 2, dayEnd |-> 0, maxTime |-> 3,
   ends |-> {"canceled"}, mayCap |-> FALSE,
   lies |-> {[order |-> Says(2, 1, "canceled", 0), fills |-> {t1}],
             [order |-> Says(2, 1, "filled", 0), fills |-> {t1}],
             [order |-> Says(3, 0, "open", 0), fills |-> {}],
             [order |-> Says(2, 0, "open", 3), fills |-> {}]}]

\* A one-lot order at an honest, punctual venue, which may end in a status the
\* code does not know, on an account whose history may fill up.
Plain ==
  [accepts |-> {1}, lag |-> 0, window |-> 2, dayEnd |-> 0, maxTime |-> 3,
   ends |-> {"canceled", "unrecognised"}, mayCap |-> TRUE, lies |-> {}]

MCTerms == {Skewed, Lying}
MCPlainTerms == {Plain}
==============================================================================
