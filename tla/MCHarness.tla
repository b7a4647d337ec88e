------------------------------ MODULE MCHarness ------------------------------
(* Command lines for the instances of Harness. *)
EXTENDS Harness

\* A timed run, no limit, no calls at all, and a count that does not divide
\* evenly among the threads.
Runs == {Timed(2), Timed(0), Counted(0), Counted(ThreadCount + 1)}

\* Fewer calls than threads.
TooFewCalls == {Counted(1)}
=============================================================================
