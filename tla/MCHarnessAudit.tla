--------------------------- MODULE MCHarnessAudit ---------------------------
(* Command lines for the instances of HarnessAudit. *)
EXTENDS HarnessAudit

\* -rt 1 -max 0, -rt -1 -max n, and -max -1
TimedForNothing == [rt |-> 1, max |-> 0, maxSet |-> TRUE]
NegativeTime(n) == [rt |-> -1, max |-> n, maxSet |-> TRUE]
NegativeCount == Counted(TotalModulus - 1)

EndingRuns == {Timed(1), TimedForNothing, Counted(0),
               NegativeTime(ThreadCount + 1), NegativeCount}
=============================================================================
