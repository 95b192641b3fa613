\* Two islands, two operations each, gossiped one at a time in any order, or
\* exchanged as deltas that may be stale, repeated or lost, and as merges.
CONSTANTS
    None = None
    Agents <- MCAgents2
    MaxSeq = 2
SPECIFICATION Spec
INVARIANTS Converged IslandsAgree
PROPERTIES DeltasConverge
