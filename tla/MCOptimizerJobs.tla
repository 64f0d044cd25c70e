--------------------------- MODULE MCOptimizerJobs ---------------------------
(* OptimizerJobs for TLC: the sizes at which the heuristic changes its mind.  *)
EXTENDS OptimizerJobs

CONSTANTS a1, a2

Sources == {[mb |-> 50, pages |-> 1], [mb |-> 51, pages |-> 104], [mb |-> 51, pages |-> 105],
            [mb |-> 51, pages |-> 0], [mb |-> 101, pages |-> 1000]}
=============================================================================
