\* Two islands and two keys, operations gossiped one at a time in any order, or
\* deltas, possibly stale or repeated, and merges.
CONSTANTS
    Agents <- MCAgents
    Keys = {k1, k2}
    k1 = k1
    k2 = k2
    Absent = Absent
    MaxWall = 2
SPECIFICATION MCSpec
PROPERTIES LocalWritesStick DeltasConverge
