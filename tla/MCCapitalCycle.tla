--------------------------- MODULE MCCapitalCycle ---------------------------
(***************************************************************************)
(* Instances of CapitalCycle: two days of two ticks and the start of a     *)
(* third: the second is scheduled, the third is the final catch-up of a    *)
(* three-day year.                                                         *)
(***************************************************************************)
EXTENDS CapitalCycle

MCAmount == (1 :> 5) @@ (2 :> 3) @@ (3 :> 2)
MCWeekdays == {1}

\* Both deposits on the first day, the withdrawal around the first decision,
\* and a cycle in every tick: caps, reserve and returns under pressure.
Tranches ==
  [modes |-> {"dry", "live"}, scans |-> {"complete"}, ceilings |-> {5, NoLimit},
   punctual |-> TRUE, lag |-> 0, approveBy |-> 1,
   when |-> (1 :> {0}) @@ (2 :> {1}) @@ (3 :> {1, 2})]

\* One deposit and one withdrawal at nearly any time, listed late, and cycles
\* that skip ticks and whose scans fail.
Timing ==
  [modes |-> {"live", "observe"}, scans |-> {"complete", "odd", "failed"},
   ceilings |-> {NoLimit}, punctual |-> FALSE, lag |-> 2, approveBy |-> 3,
   when |-> (1 :> {1, 2}) @@ (2 :> {}) @@ (3 :> {1, 2, 3})]

MCWorlds == {Tranches, Timing}

\* Two transfers out, of which the earlier may be listed after the later.
MCLateAmount == (1 :> 5) @@ (3 :> 2) @@ (4 :> 1)
MCLateWorlds ==
  {[modes |-> {"observe"}, scans |-> {"complete"}, ceilings |-> {NoLimit},
    punctual |-> FALSE, lag |-> 2, approveBy |-> 1,
    when |-> (1 :> {0}) @@ (3 :> {1}) @@ (4 :> {2})]}

=============================================================================
