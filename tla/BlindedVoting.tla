---------------------------- MODULE BlindedVoting ----------------------------
(***************************************************************************)
(* Commit-reveal voting (governance/src/voting.rs).  A commitment is the   *)
(* tuple that is hashed: two are equal exactly if all of it is.  Nothing   *)
(* ties a ballot to who submits it, so any ballot may arrive at any time;  *)
(* the phases are opened and closed by callers, in any order.              *)
(***************************************************************************)
EXTENDS Integers, FiniteSets

CONSTANTS
    Voters,
    Ballots,       \* proposal ids
    StrongSecrets, \* nonces of MIN_NONCE_BYTES with a blinding
    WeakSecrets    \* the others, which an observer can guess

VARIABLES
    eligible,  \* voters that may commit
    open,      \* proposals that were opened, TRUE while open
    commits,   \* <<proposal, voter>> |-> commitment
    reveals,   \* <<proposal, voter>> |-> choice
    reopened   \* history: proposals opened again after they were closed

voteVars == <<eligible, open, commits, reveals, reopened>>

BallotChoice == {"Yes", "No", "Abstain"}

Secrets == StrongSecrets \cup WeakSecrets

VotingInit ==
    /\ eligible = {}
    /\ open = [p \in {} |-> FALSE]
    /\ commits = [k \in {} |-> <<>>]
    /\ reveals = [k \in {} |-> "Abstain"]
    /\ reopened = {}

IsOpen(p) == p \in DOMAIN open /\ open[p]

With(f, k, v) == [x \in DOMAIN f \cup {k} |-> IF x = k THEN v ELSE f[x]]

SetEligible(v, may) ==
    /\ eligible' = IF may THEN eligible \cup {v} ELSE eligible \ {v}
    /\ UNCHANGED <<open, commits, reveals, reopened>>

\* open_proposal: also opens one that was closed.
OpenProposal(p) ==
    /\ open' = With(open, p, TRUE)
    /\ reopened' = IF p \in DOMAIN open /\ ~open[p] THEN reopened \cup {p} ELSE reopened
    /\ UNCHANGED <<eligible, commits, reveals>>

CloseProposal(p) ==
    /\ open' = With(open, p, FALSE)
    /\ UNCHANGED <<eligible, commits, reveals, reopened>>

MakeCommitment(p, v, choice, secret) == <<p, v, choice, secret>>

\* A ballot as prepare_ballot makes it, or put together by hand: the fields are
\* public, and the stub proof can be made by anybody for any commitment.
BlindedBallot(p, v, commitment, proof_voter) ==
    [proposal_id |-> p, voter |-> v, commitment |-> commitment,
     proof |-> <<commitment, proof_voter>>]

\* BlindingProof::verify
ProofVerifies(b) == b.proof = <<b.commitment, b.voter>>

Commit(b) ==
    LET key == <<b.proposal_id, b.voter>>
    IN  /\ IsOpen(b.proposal_id)
        /\ b.voter \in eligible
        /\ ProofVerifies(b)
        /\ key \notin DOMAIN commits
        /\ commits' = With(commits, key, b.commitment)
        /\ UNCHANGED <<eligible, open, reveals, reopened>>

Reveal_Bug(p, v, choice, secret) ==  \* allowed while others still commit
    LET key == <<p, v>>
    IN  /\ key \in DOMAIN commits
        /\ key \notin DOMAIN reveals
        /\ MakeCommitment(p, v, choice, secret) = commits[key]
        /\ secret \in StrongSecrets
        /\ reveals' = With(reveals, key, choice)
        /\ UNCHANGED <<eligible, open, commits, reopened>>

Reveal(p, v, choice, secret) ==
    LET key == <<p, v>>
    IN  /\ ~IsOpen(p)
        /\ key \in DOMAIN commits
        /\ key \notin DOMAIN reveals
        /\ MakeCommitment(p, v, choice, secret) = commits[key]
        /\ secret \in StrongSecrets
        /\ reveals' = With(reveals, key, choice)
        /\ UNCHANGED <<eligible, open, commits, reopened>>

\* tally of one choice; majority_yes ignores abstentions, a tie fails.
Tally(p, choice) == Cardinality({k \in DOMAIN reveals : k[1] = p /\ reveals[k] = choice})

MajorityYes(p) == Tally(p, "Yes") > Tally(p, "No")

VotingNext ==
    \/ \E v \in Voters, may \in BOOLEAN : SetEligible(v, may)
    \/ \E p \in Ballots : OpenProposal(p) \/ CloseProposal(p)
    \/ \E p \in Ballots, v, w, u \in Voters, c \in BallotChoice, s \in Secrets :
           Commit(BlindedBallot(p, v, MakeCommitment(p, w, c, s), u))
    \/ \E p \in Ballots, v \in Voters, c \in BallotChoice, s \in Secrets :
           Reveal(p, v, c, s)

VotingSpec == VotingInit /\ [][VotingNext]_voteVars

-----------------------------------------------------------------------------
\* "Early reveals would leak choices while others still commit": a choice that
\* is known was committed before any choice on the proposal was, unless a caller
\* opened the proposal again.  (Opened again, later voters know earlier votes.)
NoVoteAfterAReveal ==
    [][\A p \in Ballots \ reopened' :
          (\E v \in Voters : <<p, v>> \in DOMAIN reveals) =>
              \A v \in Voters : <<p, v>> \in DOMAIN commits' => <<p, v>> \in DOMAIN commits]_voteVars

\* Nobody votes twice or changes a vote, however often a ballot is repeated,
\* copied from another voter or revealed, and in whatever order the phases come:
\* what is tallied is what was committed first, each voter once; a voter who
\* used a guessable secret or somebody else's commitment is never counted.
VotesAreKept ==
    [][/\ \A k \in DOMAIN commits : k \in DOMAIN commits' /\ commits'[k] = commits[k]
       /\ \A k \in DOMAIN reveals : k \in DOMAIN reveals' /\ reveals'[k] = reveals[k]
       /\ \A k \in DOMAIN reveals' :
              /\ k \in DOMAIN commits'
              /\ \E s \in StrongSecrets : commits'[k] = <<k[1], k[2], reveals'[k], s>>
       /\ \A p \in Ballots : MajorityYes(p)' =>
              \E v \in Voters : <<p, v>> \in DOMAIN commits' /\ commits'[<<p, v>>][3] = "Yes"]_voteVars

\* A vote is secret until it counts, and counts as it was cast (commit, reveal,
\* tally).
VotesAreFair == NoVoteAfterAReveal /\ VotesAreKept
=============================================================================
