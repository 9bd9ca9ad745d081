--------------------------- MODULE MCBatchScheduler ---------------------------
(* A call for two greedy requests and a stream of a third, sampled or not.  *)
EXTENDS BatchScheduler

CONSTANTS c1, c2, j1, j2, j3

MCCallers == {c1, c2}
MCStreamers == {c2}
MCJobs == {j1, j2, j3}
MCJobsOf == [c \in MCCallers |-> IF c = c1 THEN <<j1, j2>> ELSE <<j3>>]
StreamSampled == {j1, j2}
=============================================================================
