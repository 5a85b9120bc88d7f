---------------------------- MODULE MCPollRuns ----------------------------
(* PollRuns with model values for its sources. *)
EXTENDS PollRuns

CONSTANTS s1, s2
=============================================================================
