----------------------------- MODULE Quarantine -----------------------------
(* Nodes whose results are checked: strikes, quarantine, the diagnostic and   *)
(* the ban (mesh-transport/src/quarantine.rs). A tensor is a sequence of      *)
(* numbers; time runs in the units of the diagnostic.                         *)
EXTENDS Integers, Sequences, FiniteSets, SequencesExt

CONSTANTS
    Watched,                \* the peers
    STRIKE_THRESHOLD,
    DiagnosticDuration,     \* DIAGNOSTIC_DURATION_SECS
    TEST_DIAGNOSTIC_TICKS,
    TestMode,               \* test_mode
    ANOMALY_BPS_THRESHOLD, BpsScale,
    Tensors, References,    \* submitted results and what they are compared with
    MaxClock                \* bound of the instance

ASSUME QuarantineAssumption ==
    /\ {STRIKE_THRESHOLD, TEST_DIAGNOSTIC_TICKS, BpsScale} \subseteq Nat \ {0}
    /\ DiagnosticDuration \in Nat \ {0} /\ TestMode \in BOOLEAN
    /\ ANOMALY_BPS_THRESHOLD \in Nat /\ Tensors \union References \subseteq Seq(Int)

VARIABLES
    nodes,    \* [Watched -> NodeRecord]
    clock,    \* Instant::now
    reports   \* [Watched -> its wrong results since the last one that was not,
              \* and the steps of its diagnostic] (of the model)

quarantineVars == <<nodes, clock, reports>>

Absent == -1

Magnitude(n) == IF n < 0 THEN -n ELSE n

\* Division rounds towards zero.
mean_i64(samples) ==
    LET total == FoldLeft(+, 0, samples)
        q == Magnitude(total) \div Len(samples)
    IN  IF samples = << >> THEN 0 ELSE IF total < 0 THEN -q ELSE q

\* At the threshold already.
is_statistical_anomaly_Bug(value, mean) ==
    IF mean = 0 THEN value # 0
    ELSE (Magnitude(value - mean) * BpsScale) \div Magnitude(mean) >= ANOMALY_BPS_THRESHOLD

is_statistical_anomaly(value, mean) ==
    IF mean = 0 THEN value # 0
    ELSE (Magnitude(value - mean) * BpsScale) \div Magnitude(mean) > ANOMALY_BPS_THRESHOLD

check_tensor_anomaly(submitted, reference) ==
    \/ Len(submitted) # Len(reference) \/ submitted = << >>
    \/ \E k \in DOMAIN submitted : is_statistical_anomaly(submitted[k], mean_i64(reference))
    \/ is_statistical_anomaly(mean_i64(submitted), mean_i64(reference))

Healthy == [health |-> "Healthy", strikes |-> 0, until |-> Absent, ticks |-> 0]

is_eligible_for_work(n) == nodes[n].health \in {"Healthy", "Warned"}

\* A node in quarantine collects no strikes, and no clean result gets it out.
record_strike(n) ==
    /\ is_eligible_for_work(n)
    /\ LET strikes == nodes[n].strikes + 1
       IN  nodes' = [nodes EXCEPT ![n] =
               IF strikes < STRIKE_THRESHOLD
                 THEN [@ EXCEPT !.health = "Warned", !.strikes = strikes]
                 ELSE [health |-> "Quarantined", strikes |-> strikes,
                       until |-> IF TestMode THEN Absent ELSE clock + DiagnosticDuration,
                       ticks |-> IF TestMode THEN TEST_DIAGNOSTIC_TICKS ELSE 0]]
    /\ UNCHANGED clock

record_clean(n) ==
    /\ is_eligible_for_work(n)
    /\ nodes' = [nodes EXCEPT ![n] = Healthy]
    /\ UNCHANGED clock

finish_diagnostic(n, passed) ==
    /\ nodes' = [nodes EXCEPT ![n] =
                    IF passed THEN Healthy
                    ELSE [@ EXCEPT !.health = "Banned", !.until = Absent, !.ticks = 0]]
    /\ reports' = [reports EXCEPT ![n] = IF passed THEN << >> ELSE Append(@, "failed")]

\* The last tick finishes the diagnostic, or the first call after its time.
tick_diagnostic(n, passed) ==
    /\ nodes[n].health = "Quarantined"
    /\ IF nodes[n].ticks > 1
         THEN /\ nodes' = [nodes EXCEPT ![n].ticks = @ - 1]
              /\ reports' = [reports EXCEPT ![n] = Append(@, "tick")]
         ELSE /\ nodes[n].ticks = 1 \/ (nodes[n].until # Absent /\ clock >= nodes[n].until)
              /\ finish_diagnostic(n, passed)
    /\ UNCHANGED clock

\* How far a diagnostic is, or nothing for a node outside of quarantine.
diagnostic_progress_pct(n) ==
    LET left == IF nodes[n].until > clock THEN nodes[n].until - clock ELSE 0
    IN  IF nodes[n].health # "Quarantined" THEN Absent
        ELSE IF TestMode
          THEN ((TEST_DIAGNOSTIC_TICKS - nodes[n].ticks) * 100) \div TEST_DIAGNOSTIC_TICKS
        ELSE ((DiagnosticDuration - left) * 100) \div DiagnosticDuration

\* A number away from a mean by more than the threshold, to the next basis point.
OffTheMean(value, mean) ==
    IF mean = 0 THEN value # 0
    ELSE Magnitude(value - mean) * BpsScale >= (ANOMALY_BPS_THRESHOLD + 1) * Magnitude(mean)

\* A result of another shape than the reference, or with a number off its mean.
Wrong(tensor, reference) ==
    \/ Len(tensor) # Len(reference) \/ tensor = << >>
    \/ \E k \in DOMAIN tensor : OffTheMean(tensor[k], mean_i64(reference))

\* A result is checked against the reference of its job, and the verdict reported.
Report(n, tensor, reference) ==
    /\ IF check_tensor_anomaly(tensor, reference) THEN record_strike(n) ELSE record_clean(n)
    /\ reports' = [reports EXCEPT ![n] = IF Wrong(tensor, reference) THEN Append(@, "wrong")
                                                                   ELSE << >>]

ClockTicks == clock < MaxClock /\ clock' = clock + 1
              /\ reports' = [n \in Watched |-> IF nodes[n].health = "Quarantined"
                                                 THEN Append(reports[n], "time") ELSE reports[n]]
              /\ UNCHANGED nodes

QuarantineInit == /\ nodes = [n \in Watched |-> Healthy]
                  /\ clock = 0
                  /\ reports = [n \in Watched |-> << >>]

QuarantineNext ==
    \/ \E n \in Watched : \/ \E t \in Tensors, ref \in References : Report(n, t, ref)
                          \/ \E passed \in BOOLEAN : tick_diagnostic(n, passed)
    \/ ClockTicks
-----------------------------------------------------------------------------
\* The progress that is told never falls while a node is in quarantine, and a
\* timed diagnostic is done only when it was at its end.
ProgressIsTrue ==
    \A n \in Watched : LET now == diagnostic_progress_pct(n) IN now # Absent =>
        /\ diagnostic_progress_pct(n)' \in {Absent} \union now..100
        /\ diagnostic_progress_pct(n)' = Absent /\ ~TestMode => now = 100

Times(n, what) == Cardinality({k \in DOMAIN reports[n] : reports[n][k] = what})

FullDiagnostic(n) == IF TestMode THEN Times(n, "tick") >= TEST_DIAGNOSTIC_TICKS - 1
                                 ELSE Times(n, "time") >= DiagnosticDuration

\* A node is out of work exactly when its last results, as many as the threshold,
\* were wrong, and it stays out until a diagnostic of full length has passed; one
\* that fails it never comes back. Wrong is what lies off the mean of the
\* reference (check_tensor_anomaly), which is not the comparison "element-wise"
\* of quarantine.rs:256: where a reference is spread, its copy is wrong.
OutOfWorkForCause ==
    \A n \in Watched :
        /\ is_eligible_for_work(n) <=> Times(n, "wrong") < STRIKE_THRESHOLD
        /\ is_eligible_for_work(n)' /\ ~is_eligible_for_work(n) =>
              FullDiagnostic(n) /\ Times(n, "failed") = 0
-----------------------------------------------------------------------------
(* Jobs whose result is known, given out to see who makes results up, alone   *)
(* or together (mesh-transport/src/honeypot.rs).                              *)
CONSTANTS
    TrapJobs, TrapPeers,
    ResultHashes,
    Expected  \* [TrapJobs -> ResultHashes]: the result of a job that was verified before

VARIABLES
    traps,        \* [some of TrapJobs -> ResultHashes]
    submissions,  \* [TrapJobs -> [some of TrapPeers -> ResultHashes]]
    banned,
    slashes,      \* a set of SlashRecord: [peer_id, reason]
    lies          \* <<job, peer, hash>>: wrong results for a trap (of the model)

honeypotVars == <<traps, submissions, banned, slashes, lies>>

\* The results that came in stay when a trap is crafted again.
craft_trap(job) == /\ traps' = [j \in DOMAIN traps \union {job} |-> Expected[j]]
                   /\ UNCHANGED <<submissions, banned, slashes, lies>>

Agreeing(subs, job, hash) == {p \in DOMAIN subs[job] : subs[job][p] = hash}

\* Only the peers before the last one are looked at.
detect_cartel_Bug(subs, job, hash) ==
    hash # traps[job] /\ Cardinality(Agreeing(submissions, job, hash)) >= 2

\* Two peers or more agree on a wrong result.
detect_cartel(subs, job, hash) ==
    hash # traps[job] /\ Cardinality(Agreeing(subs, job, hash)) >= 2

\* A reason is noted once for a peer.
slash(peers, kind, job) ==
    /\ banned' = banned \union peers
    /\ slashes' = slashes \union {[peer_id |-> p, reason |-> <<kind, job>>] : p \in peers}

\* The last result of a peer for a job replaces the one before. A wrong one
\* costs the peer, and those that gave the same, everything. A banned peer and
\* an unknown job change nothing.
submit_result(job, peer, hash) ==
    LET subs == [submissions EXCEPT ![job] = [p \in DOMAIN @ \union {peer} |->
                                                  IF p = peer THEN hash ELSE @[p]]]
    IN  /\ peer \notin banned /\ job \in DOMAIN traps
        /\ submissions' = subs
        /\ IF hash = traps[job] THEN UNCHANGED <<banned, slashes, lies>>
           ELSE /\ IF detect_cartel(subs, job, hash)
                     THEN slash(Agreeing(subs, job, hash), "cartel", job)
                     ELSE slash({peer}, "fake", job)
                /\ lies' = lies \union {<<job, peer, hash>>}
        /\ UNCHANGED traps

HoneypotInit == /\ traps = [j \in {} |-> 0]
                /\ submissions = [j \in TrapJobs |-> [p \in {} |-> 0]]
                /\ banned = {} /\ slashes = {} /\ lies = {}

HoneypotNext ==
    \E job \in TrapJobs : \/ craft_trap(job)
                          \/ \E p \in TrapPeers, h \in ResultHashes : submit_result(job, p, h)
-----------------------------------------------------------------------------
\* Exactly the peers that gave a wrong result for a trap are banned and slashed,
\* and those of them that agreed on one are slashed as a cartel, the first of
\* them as well.
EveryLiarIsSlashed ==
    /\ banned = {l[2] : l \in lies} /\ banned = {s.peer_id : s \in slashes}
    /\ \A p \in TrapPeers, job \in TrapJobs :
          [peer_id |-> p, reason |-> <<"cartel", job>>] \in slashes
            <=> \E l, m \in lies : l[1] = job /\ m[1] = job /\ l[3] = m[3]
                                   /\ l[2] = p /\ m[2] # p
\* Results are checked against a reference and by traps, side by side.
WorkersNext == \/ QuarantineNext /\ UNCHANGED honeypotVars
               \/ HoneypotNext /\ UNCHANGED quarantineVars

WorkersSpec == /\ QuarantineInit /\ HoneypotInit
               /\ [][WorkersNext]_<<honeypotVars, quarantineVars>>

\* Who lies is out, whether a trap or the reference tells (submit_result,
\* record_strike), and who is out lied and comes back at the end of its diagnostic.
LiarsAreOut ==
    [][EveryLiarIsSlashed' /\ OutOfWorkForCause /\ ProgressIsTrue]_<<honeypotVars, quarantineVars>>
-----------------------------------------------------------------------------
(* The hash chain of a computation, as its node submits it and others verify  *)
(* it (mesh-transport/src/hash_chain.rs). A hash is the tuple it is taken of; *)
(* a step is <<step, exec_digest>>.                                           *)
genesis_hash(peer, job) == <<"genesis", <<peer, job>>>>

hash_link(prev, step, digest) == <<prev, step, digest>>

NewChain(peer, job) ==
    [peer_id |-> peer, job_id |-> job, links |-> << >>, head |-> genesis_hash(peer, job)]

append(chain, step, digest) ==
    LET hash == hash_link(chain.head, step, digest)
    IN  [chain EXCEPT !.head = hash,
            !.links = Append(@, [step |-> step, exec_digest |-> digest, link_hash |-> hash])]

Before(chain, k) == IF k = 1 THEN genesis_hash(chain.peer_id, chain.job_id)
                             ELSE chain.links[k - 1].link_hash

verify_chain(chain) ==
    /\ \A k \in DOMAIN chain.links :
          LET link == chain.links[k]
          IN  link.link_hash = hash_link(Before(chain, k), link.step, link.exec_digest)
    /\ chain.head = Before(chain, Len(chain.links) + 1)

verify_submitted_chain(chain, expected_head) == verify_chain(chain) /\ chain.head = expected_head
-----------------------------------------------------------------------------
ChainOf(peer, job, steps) ==
    FoldLeft(LAMBDA chain, s : append(chain, s[1], s[2]), NewChain(peer, job), steps)

\* The chain of one list of steps that is made to tell another.
Retold(chain, told) ==
    [chain EXCEPT !.links = [k \in DOMAIN @ |-> [@[k] EXCEPT !.step = told[k][1],
                                                             !.exec_digest = told[k][2]]]]

\* A chain verifies against the head of the true computation exactly if it is of
\* that peer and job and tells every step in its order, whether it was hashed for
\* what it tells or altered afterwards.
OnlyTrueChainsVerify(peer, job, trace, others, told) ==
    LET expected == ChainOf(peer, job, trace).head
    IN  /\ \A other \in others :
              verify_submitted_chain(ChainOf(other[1], other[2], told), expected)
                <=> other = <<peer, job>> /\ told = trace
        /\ Len(told) = Len(trace) =>
              verify_submitted_chain(Retold(ChainOf(peer, job, trace), told), expected)
                <=> told = trace
=============================================================================
