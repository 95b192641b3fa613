------------------------------- MODULE MCNode --------------------------------
(* The parts of a node that work for others: the job sandbox, the context       *)
(* window of the model it runs, the chess engine, and what the HTTP surface      *)
(* reaches behind its locks, the gateway with its book and the intake of jobs.   *)
(* They share no state: one moves while the others rest.                         *)
EXTENDS JobSandbox, PagedContext, MCEngine, Gateway, JobIntake, TLC

\* Stand-ins for SHA-256: any functions will do, as long as a challenge is
\* found; the counter walks through all candidates.
MCGroupDigest(input, t) == 17 * input + 5 * t + 3

MCChallengeDigest(x, y, t, c) == 7 * x + 3 * y + t + 2 * c

MCMintDid(y, meta) == <<y, meta>>

ASSUME HonestReceiptsPass ==
    \A s \in Seeds, t \in 0 .. MaxSteps, m \in Metas : HonestReceiptPasses(s, t, m)

CONSTANTS alice, bob, peer1, peer2

MCAmounts == {1, 2, 5, 80}

MCBalances == {0, 4, 90}

Symmetry == Permutations({peer1, peer2})

\* Order payloads of up to five parts: every field under one name or both, a key
\* that is not known and one without a value, numbers up to one too large.
Said == {Part("side", Word("buy")), Part("side", Word("hold")),
         Part("amount", Digits(3)), Part("amount_in", Digits(4)),
         Part("ref_price", Digits(2)), Part("reference_price", Word("low")),
         Part("slices", Digits(0)), Part("slices", Digits(2)),
         Part("slices", Digits(3)), Part("execution_price", Digits(1)),
         Part("memo", Word("buy")), Bare("memo")}
ASSUME OrdersReadBack ==
    \A n \in 0..4 : \A parts \in [1..n -> Said] : LastWordCounts(parts)

-----------------------------------------------------------------------------
Parts == {"sandbox", "pages", "engine", "gateway", "intake"}

VARIABLE part  \* the one that moves

\* Where a part may start in several ways, the parts that rest start in one.
MCInit ==
    /\ part \in Parts
    /\ part = "sandbox" \/ user = "caller"
    /\ part = "pages" \/ (backend = "Memory" /\ holder = "table")
    /\ part = "engine" \/ position = CHOOSE g \in Games : TRUE
    /\ part = "intake" \/ (token = TRUE /\ listening = "lan")
    /\ Init /\ PageInit /\ EngineInit /\ GatewayInit /\ JobInit

\* A call of the HTTP surface.
RestNext ==
    \/ part = "gateway" /\ GatewayNext /\ UNCHANGED jobVars
    \/ part = "intake" /\ JobNext /\ UNCHANGED bridgeVars

MCNext ==
    /\ UNCHANGED part
    /\ \/ part = "sandbox" /\ Next /\ UNCHANGED <<pageVars, engineVars, bridgeVars, jobVars>>
       \/ part = "pages" /\ PageNext /\ UNCHANGED <<vars, engineVars, bridgeVars, jobVars>>
       \/ part = "engine" /\ EngineNext /\ UNCHANGED <<vars, pageVars, bridgeVars, jobVars>>
       \/ RestNext /\ UNCHANGED <<vars, pageVars, engineVars>>

MCSpec == MCInit /\ [][MCNext]_<<vars, pageVars, engineVars, bridgeVars, jobVars, part>>
=============================================================================
