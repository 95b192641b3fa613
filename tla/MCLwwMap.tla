----------------------------- MODULE MCLwwMap -----------------------------
(* Values of the LwwMap constants for TLC, and both ways of gossiping: a   *)
(* behaviour exchanges single operations, or deltas and merges.            *)
EXTENDS LwwMap

CONSTANTS k1, k2

MCAgents == 1 .. 2

VARIABLE gossip

mcVars == <<vars, gossip>>

MCInit == Init /\ gossip \in {"operations", "deltas"}

MCNext ==
    /\ \/ gossip = "operations" /\ OpNext
       \/ gossip = "deltas" /\ DeltaNext
    /\ UNCHANGED gossip

MCSpec ==
    /\ MCInit
    /\ [][MCNext]_mcVars
    /\ \A r, s \in Agents :
           /\ WF_mcVars(gossip = "deltas" /\ Export(r, s) /\ UNCHANGED gossip)
           /\ WF_mcVars(gossip = "deltas" /\ Apply(r, s) /\ UNCHANGED gossip)

\* With deltas, however stale, the map vector never hides an operation that
\* could still matter, and islands come to hold the same map once the writes
\* stop.
DeltasConverge == gossip = "deltas" => []MapVectorIsComplete /\ EventuallyConverged
=============================================================================
