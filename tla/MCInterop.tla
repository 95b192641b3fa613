----------------------------- MODULE MCInterop -----------------------------
(* Values of the InteropProcess constants for TLC. *)
EXTENDS InteropProcess

CONSTANTS m, n, t1, t2

MCAmounts == {0, 1, 2, 3, 7}
MCPrices == {0, 4, 5, 31}

\* The book shares nothing with the rest, and the loops read one flag, which
\* the miner's accounts do not touch: a run that interleaves the three shows
\* nothing that one moving while the others rest does not.
NoLoopYet == syncVars = <<NoLoop, 0, 0, 0, {}>>
MinerRests == Registered = {} /\ latest = 0

MCNext ==
    \/ BookInit /\ NoLoopYet /\ SignalNext /\ UNCHANGED <<syncVars, bookVars>>
    \/ BookInit /\ MinerRests /\ SyncNext /\ MinerRests' /\ UNCHANGED bookVars
    \/ SyncInit /\ MinerRests /\ BookStep /\ UNCHANGED sessionVars

MCSpec == ProcessInit /\ [][MCNext]_processVars /\ ProcessFairness
=============================================================================
