-------------------------- MODULE MCAgentValidation --------------------------
(* Small instances of AgentValidation for TLC.                              *)
EXTENDS AgentValidation, TLC

CONSTANTS a1, a2

\* Two microseconds to a second: seconds 0, 1 and 2, two blocks in each.
MCTimestamps == 1 .. 5
\* Zero and one second more than the maximum are refused.
MCTtls == 0 .. MAX_TTL_SECS + 1
\* The largest score that is accepted and the smallest that is not.
MCScores == {100, 101}
MCAddresses == {a1, a2}
=============================================================================
