------------------------------ MODULE BlockPool ------------------------------
(***************************************************************************)
(* The fixed-block allocator of the sandbox (sandbox/src/pool.rs): blocks  *)
(* are handed out first-fit as runs, and a handle is a plain copy of the   *)
(* run, without a generation, so it outlives what it names.  The bytes in  *)
(* the blocks are left out.                                                *)
(***************************************************************************)
EXTENDS Integers, FiniteSetsExt

CONSTANTS
    BlockSize,  \* bytes in a block
    MemLimit,   \* the ceiling of this pool, at most the global MEM_LIMIT
    Sizes       \* sizes in bytes that are asked for

\* with_limit refuses anything else.
ASSUME PoolAssumption ==
    /\ BlockSize \in Nat \ {0}
    /\ MemLimit \in Nat
    /\ MemLimit >= BlockSize
    /\ Sizes \subseteq Nat

VARIABLES
    free,         \* the free blocks
    used_blocks,  \* how many blocks the pool believes to be in use
    issued,       \* handles a caller has ever been given: each may be copied and kept
    live,         \* history: handles returned and not freed or reset since
    misused       \* history: a handle that was not live has been freed

poolVars == <<free, used_blocks, issued, live, misused>>

total_blocks == MemLimit \div BlockSize

Blocks == 0 .. total_blocks - 1

BlockHandle == [start : Blocks, count : 1 .. total_blocks]

BlocksOf(h) == h.start .. h.start + h.count - 1

used_bytes == used_blocks * BlockSize

PoolInit ==
    /\ free = Blocks
    /\ used_blocks = 0
    /\ issued = {} /\ live = {} /\ misused = FALSE

\* blocks_for: whole blocks that cover size bytes; a size of zero is an error.
BlocksFor(size) == (size + BlockSize - 1) \div BlockSize

\* The starts of the runs of free blocks that can hold need blocks.
Fits(need) ==
    {i \in Blocks : i + need <= total_blocks /\ (i .. i + need - 1) \subseteq free}

\* Definitions whose names end in _Bug are mutated forms of the definition that
\* follows them, used only to show that the properties notice such a bug.
Allocate_Bug(size) ==  \* the free count is trusted, the run is not looked for
    LET need == BlocksFor(size)
        run  == [start |-> Min(free), count |-> need]
    IN  /\ size > 0
        /\ need <= total_blocks - used_blocks
        /\ run.start + need <= total_blocks
        /\ free' = free \ BlocksOf(run)
        /\ used_blocks' = used_blocks + need
        /\ live' = live \cup {run}
        /\ UNCHANGED misused

\* allocate: refused when the books say that too little is free, when the limit
\* would be passed, or when no run is long enough.  The caller keeps the handle
\* (PoolNext), unless it is a host (JobSandbox).
Allocate(size) ==
    LET need == BlocksFor(size)
        run  == [start |-> Min(Fits(need)), count |-> need]
    IN  /\ size > 0
        /\ need <= total_blocks - used_blocks
        /\ (used_blocks + need) * BlockSize <= MemLimit
        /\ Fits(need) # {}
        /\ free' = free \ BlocksOf(run)
        /\ used_blocks' = used_blocks + need
        /\ live' = live \cup {run}
        /\ UNCHANGED misused

\* validate: what get and write ask of a handle.
Validate(h) == BlocksOf(h) \subseteq Blocks \ free

\* free releases block after block; at the first block that is free already it
\* fails, and what it has released so far stays released but is still counted.
Free(h) ==
    LET stale  == BlocksOf(h) \cap free
        passed == IF stale = {} THEN BlocksOf(h) ELSE h.start .. Min(stale) - 1
    IN  /\ free' = free \cup passed
        /\ used_blocks' = IF stale = {} THEN used_blocks - h.count ELSE used_blocks
        /\ live' = live \ {h}
        /\ misused' = (misused \/ h \notin live)
        /\ UNCHANGED issued

\* reset ends every allocation at once; the copies of the handles remain.
PoolReset ==
    /\ free' = Blocks
    /\ used_blocks' = 0
    /\ live' = {}
    /\ misused' = FALSE
    /\ UNCHANGED issued

PoolNext ==
    \/ \E size \in Sizes : Allocate(size) /\ issued' = issued \cup live'
    \/ \E h \in issued : Free(h)
    \/ PoolReset

-----------------------------------------------------------------------------
PoolTypeOK ==
    /\ free \subseteq Blocks
    /\ used_blocks \in 0 .. total_blocks
    /\ live \subseteq BlockHandle
    /\ issued \subseteq BlockHandle
    /\ misused \in BOOLEAN

\* However handles are misused, the pool never believes less to be in use than
\* is: a free that fails half-way leaks capacity until the next reset, but it
\* never lets an allocation pass the ceiling, and the count never wraps.
UsageNeverUnderstated ==
    /\ Cardinality(Blocks \ free) <= used_blocks
    /\ used_bytes <= MemLimit

\* As long as only live handles are freed, handles that are live at one time
\* name disjoint runs, each readable and writable, and they account for every
\* block in use.
LiveHandlesAreSafe ==
    ~misused =>
        /\ \A h \in live : Validate(h)
        /\ \A g, h \in live : g # h => BlocksOf(g) \cap BlocksOf(h) = {}
        /\ UNION {BlocksOf(h) : h \in live} = Blocks \ free
        /\ used_blocks = Cardinality(Blocks \ free)

\* The pool's books bound what is in use, and the handles that it gave out and
\* did not take back are sound (allocate, free, reset).
PoolStaysTrue == PoolTypeOK /\ UsageNeverUnderstated /\ LiveHandlesAreSafe
=============================================================================
