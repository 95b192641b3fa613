---------------------------- MODULE VrfAssigner -----------------------------
(* Who works on a job and who stands by: a seed that was committed to is      *)
(* revealed, and the candidates are ranked by load, temperature, battery and, *)
(* among equals, by a hash of the seed (mesh-transport/src/vrf_assigner.rs).  *)
EXTENDS Integers, Sequences, FiniteSets, SequencesExt

CONSTANTS
    Seeds, VrfJobs,
    Metrics,            \* [some workers -> [active_jobs, temperature_c, battery_percent]]
    TieBreak(_, _, _),  \* 64 bits of the hash of seed, job and worker
    PRIMARY_COUNT, STANDBY_COUNT,
    MaxCandidates       \* bound: candidates in a list

ASSUME VrfAssumption ==
    /\ {PRIMARY_COUNT, STANDBY_COUNT, MaxCandidates} \subseteq Nat
    /\ \A w \in DOMAIN Metrics : Metrics[w] \in [active_jobs : Nat, temperature_c : Nat,
                                                  battery_percent : Nat]
    /\ \A seed \in Seeds, job \in VrfJobs, w \in DOMAIN Metrics : TieBreak(seed, job, w) \in Nat

VARIABLES
    commitments,  \* [VrfJobs -> {} or {seed}]: a hash stands for its seed
    assignments   \* <<job, seed, candidates, primaries, standbys>>

vrfVars == <<commitments, assignments>>

commit_seed(job, seed) == /\ commitments[job] = {}
                          /\ commitments' = [commitments EXCEPT ![job] = {seed}]
                          /\ UNCHANGED assignments

thermal_penalty(t) == IF t >= 75 THEN 1000 ELSE (t * 999) \div 75

\* Division rounds towards zero.
battery_capacity_score(percent) ==
    LET diff == percent - 20
        size == IF diff < 0 THEN -diff ELSE diff
        bend == (size * 1000) \div (2 * (1 + size))
    IN  CASE diff <= -10 -> 0
          [] diff >= 10  -> 1000
          [] OTHER       -> IF diff < 0 THEN 500 - bend ELSE 500 + bend

load_penalty(jobs) == IF jobs > 100 THEN 10000 ELSE jobs * 100

score(m) == load_penalty(m.active_jobs) * 1000000 + thermal_penalty(m.temperature_c) * 1000
              + (1000 - battery_capacity_score(m.battery_percent))

\* The order of the rank keys: by the score, then by the hash.
RankedBefore_Bug(seed, job, v, w) ==
    score(Metrics[v]) < score(Metrics[w])

RankedBefore(seed, job, v, w) ==
    \/ score(Metrics[v]) < score(Metrics[w])
    \/ score(Metrics[v]) = score(Metrics[w]) /\ TieBreak(seed, job, v) < TieBreak(seed, job, w)

\* Of equal keys the one that is listed first comes first; a worker that is
\* listed twice is ranked twice.
ListedBefore(seed, job, candidates, i, j) ==
    \/ RankedBefore(seed, job, candidates[i], candidates[j])
    \/ ~RankedBefore(seed, job, candidates[j], candidates[i]) /\ i < j

\* The places of those that come before the one at place i.
Ahead(seed, job, candidates, i) ==
    {j \in DOMAIN candidates : ListedBefore(seed, job, candidates, j, i)}

Ranked(seed, job, candidates) ==
    [k \in DOMAIN candidates |->
        candidates[CHOOSE i \in DOMAIN candidates :
                       Cardinality(Ahead(seed, job, candidates, i)) = k - 1]]

Upto(s, from, to) == SubSeq(s, from, IF Len(s) < to THEN Len(s) ELSE to)

assign_workers(seed, job, candidates) ==
    LET ranked == Ranked(seed, job, candidates)
    IN  [primaries |-> Upto(ranked, 1, PRIMARY_COUNT),
         standbys |-> Upto(ranked, PRIMARY_COUNT + 1, PRIMARY_COUNT + STANDBY_COUNT)]

\* Sortition: a worker is drawn when its hash lies below its share of all hashes,
\* a number of the same width (MaxHash: 2^64 - 1).
is_selected_for_task(hash, weight, total, MaxHash) ==
    total # 0 /\ hash < ((MaxHash * weight) \div total) % (MaxHash + 1)

\* Nothing is assigned by a seed that was not committed to.
assign_from_commit_reveal(job, seed, candidates) ==
    /\ seed \in commitments[job]
    /\ assignments' = assignments \union
          {[job |-> job, seed |-> seed, candidates |-> candidates,
            team |-> assign_workers(seed, job, candidates)]}
    /\ UNCHANGED commitments

VrfInit == commitments = [j \in VrfJobs |-> {}] /\ assignments = {}

VrfNext ==
    \E job \in VrfJobs, seed \in Seeds :
        \/ commit_seed(job, seed)
        \/ \E c \in UNION {[1..n -> DOMAIN Metrics] : n \in 0..MaxCandidates} :
              /\ IsInjective(c) /\ Cardinality(assignments) < 2
              /\ assign_from_commit_reveal(job, seed, c)
-----------------------------------------------------------------------------
\* As many hashes draw a worker as its share of the weight says, down to the next
\* hash: who brings nothing is never drawn, and all shares together, however the
\* weight is split, draw no more than the hashes there are.
SharesAreFair(v, w, MaxHash) ==
    LET Draws(x) == Cardinality({h \in 0..MaxHash : is_selected_for_task(h, x, v + w, MaxHash)})
    IN  /\ v + w > 0 => Draws(v) * (v + w) \in (MaxHash * v - (v + w) + 1)..(MaxHash * v)
        /\ Draws(0) = 0
        /\ Draws(v) + Draws(w) <= MaxHash

Team(a) == ToSet(a.team.primaries \o a.team.standbys)

\* Two nodes that assign a job come to the same team and the same roles, in
\* whatever order each of them has listed the candidates. Nobody who is left out
\* is less loaded than one who is in, or as loaded and cooler and charged as well.
TeamsAgree ==
    \A a, b \in assignments :
        /\ a.job = b.job /\ ToSet(a.candidates) = ToSet(b.candidates) => a.team = b.team
        /\ \A v \in ToSet(a.candidates) \ Team(a), w \in Team(a) :
              LET x == Metrics[v]
                  y == Metrics[w]
              IN  /\ load_penalty(x.active_jobs) >= load_penalty(y.active_jobs)
                  /\ load_penalty(x.active_jobs) = load_penalty(y.active_jobs)
                     /\ battery_capacity_score(x.battery_percent)
                           >= battery_capacity_score(y.battery_percent)
                     => thermal_penalty(x.temperature_c) >= thermal_penalty(y.temperature_c)
=============================================================================
