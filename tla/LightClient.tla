---------------------------- MODULE LightClient -----------------------------
(* What is verified without the ledger: proofs of constant size for its       *)
(* history (below), and                                                       *)
(* light clients that pin a state root and move the pin to a newer checkpoint *)
(* when a quorum of the validators has signed it                              *)
(* (consensus/src/light_client.rs). Validators are external: the honest ones  *)
(* sign one checkpoint a height, with the time of its issue; the others sign  *)
(* anything, so their signatures are there from the start.                    *)
EXTENDS Integers, Sequences, FiniteSets, SequencesExt

CONSTANTS
    Clients, Validators, Honest,
    Quorums,         \* the quorums that clients are configured with
    Roots, Genesis,
    MaxHeight, MaxNow,               \* bounds of the instance
    FreshnessSecs, MaxClockSkewSecs  \* DEFAULT_FRESHNESS_SECS, MAX_CLOCK_SKEW_SECS

ASSUME ValidatorsAssumption == IsFiniteSet(Validators) /\ Honest \subseteq Validators
ASSUME HeightAssumption == MaxHeight \in Nat

\* Any two quorums share an honest validator, as 2f+1 of 3f+1 do.
ASSUME QuorumAssumption ==
    \A p, q \in Quorums : \A P, Q \in SUBSET Validators :
        Cardinality(P) >= p /\ Cardinality(Q) >= q => \E v \in P \cap Q : v \in Honest

VARIABLES
    pin,     \* [Clients -> [trusted_root, trusted_height, quorum]]: LightClient
    signed,  \* the signatures that exist: <<validator, checkpoint>>
    now

clientVars == <<pin, signed, now>>

Checkpoint == [height : 1..MaxHeight, root : Roots, issued_at_secs : 0..MaxNow]

\* The signature at a place of a list that is there again later counts once:
\* the first of a validator is the one that is verified.
FirstOf(sigs, v) == sigs[CHOOSE k \in DOMAIN sigs :
                            /\ sigs[k].validator_index = v
                            /\ \A l \in 1..(k - 1) : sigs[l].validator_index # v]

Endorsers(checkpoint, sigs) ==
    {v \in Validators : /\ \E k \in DOMAIN sigs : sigs[k].validator_index = v
                        /\ FirstOf(sigs, v).over = checkpoint
                        /\ <<v, checkpoint>> \in signed}

\* Every signature of the list is counted.
verify_quorum_Bug(quorum, checkpoint, sigs) ==
    /\ \A k \in DOMAIN sigs : sigs[k].validator_index \in Validators
    /\ Cardinality({k \in DOMAIN sigs : <<sigs[k].validator_index, checkpoint>> \in signed}) >= quorum

verify_quorum(quorum, checkpoint, sigs) ==
    /\ \A k \in DOMAIN sigs : sigs[k].validator_index \in Validators
    /\ Cardinality(Endorsers(checkpoint, sigs)) >= quorum

retarget(c, checkpoint, sigs) ==
    /\ pin[c].quorum # 0
    /\ checkpoint.height > pin[c].trusted_height
    /\ checkpoint.issued_at_secs + FreshnessSecs >= now
    /\ checkpoint.issued_at_secs <= now + MaxClockSkewSecs
    /\ verify_quorum(pin[c].quorum, checkpoint, sigs)
    /\ pin' = [pin EXCEPT ![c].trusted_root = checkpoint.root,
                          ![c].trusted_height = checkpoint.height]
    /\ UNCHANGED <<signed, now>>

\* A list from a peer: a few signatures of a checkpoint, each of them twice.
Offer(S, checkpoint) ==
    LET entries == [k \in DOMAIN SetToSeq(S) |->
                       [validator_index |-> SetToSeq(S)[k], over |-> checkpoint]]
    IN  entries \o entries

with_validators(c, quorum) ==
    /\ pin' = [pin EXCEPT ![c].quorum = quorum]
    /\ UNCHANGED <<signed, now>>

ClientInit ==
    /\ pin = [c \in Clients |-> [trusted_root |-> Genesis, trusted_height |-> 0, quorum |-> 0]]
    /\ signed = (Validators \ Honest) \X Checkpoint
    /\ now = 0

Sign(v, checkpoint) ==
    /\ \A s \in signed : s[1] = v => s[2].height # checkpoint.height
    /\ checkpoint.issued_at_secs = now
    /\ signed' = signed \union {<<v, checkpoint>>}
    /\ UNCHANGED <<pin, now>>

ClockMoves == now < MaxNow /\ now' = now + 1 /\ UNCHANGED <<pin, signed>>

ClientNext ==
    \/ \E c \in Clients, q \in Quorums : pin[c].quorum = 0 /\ with_validators(c, q)
    \/ \E c \in Clients, k \in Checkpoint, S \in SUBSET Validators : retarget(c, k, Offer(S, k))
    \/ \E v \in Honest, k \in Checkpoint : Sign(v, k)
    \/ ClockMoves

ClientSpec == ClientInit /\ [][ClientNext]_clientVars
-----------------------------------------------------------------------------
\* Two clients that pin the same height pin the same root, whatever lists of
\* signatures each was given and when: no validator set is split.
ClientsAgree ==
    \A c, d \in Clients :
        pin[c].trusted_height = pin[d].trusted_height =>
            pin[c].trusted_root = pin[d].trusted_root
-----------------------------------------------------------------------------
(* Proofs of constant size for the history of the ledger: each step is folded *)
(* into an accumulator (consensus/src/folding.rs, snark.rs, lib.rs).          *)
(* A digest is the tuple of its parts: a hash without collisions.             *)
CONSTANTS Folders, StateRoots, Witnesses,
          MaxFolds, MaxProofs  \* bounds of the instance

VARIABLES
    acc,      \* [Folders -> SnarkProof]
    genesis,  \* [Folders -> StateRoots]
    (* of the model: *)
    history,  \* [Folders -> what the proof was folded of]: the public bytes it began with, then the steps
    told,     \* [Folders -> the root that the folder last took on trust, by whom, after how much history]
    made      \* the public bytes that there ever were in an accumulator, each with its history

foldVars == <<acc, genesis, history, told, made>>

StepInstance == [prev : StateRoots, next : StateRoots, witness : Witnesses]
StepDigest(step) == <<"step", step.prev, step.next, step.witness>>

encode_public(commitment, step_digest, fold_count, flags) ==
    [commitment |-> commitment, step_digest |-> step_digest, fold_count |-> fold_count,
     flags |-> flags]

encode_folded_public(commitment, step_digest, fold_count) ==
    encode_public(commitment, step_digest, fold_count, 1)

GenesisProof(root) ==
    [public |-> encode_public(<<"proof", root, 0>>, <<"step", root>>, 0, 0),
     fold_count |-> 0, claimed |-> root]

from_step(step) ==
    [public |-> encode_public(<<"proof", step.prev, step.next, step.witness, 1>>,
                              StepDigest(step), 1, 0),
     fold_count |-> 1, claimed |-> step.next]

is_well_formed(proof) == proof.public.fold_count = proof.fold_count

CanFold(old, step) == is_well_formed(old) /\ old.claimed = step.prev

\* Of the new step only the root that it leads to is taken in.
fold_proofs_Bug(old, step) ==
    LET n == old.fold_count + 1
    IN  [public |-> encode_folded_public(<<"fold", old.public.commitment, step.next, n>>,
                                         <<"agg", old.public.step_digest, n>>, n),
         fold_count |-> n, claimed |-> step.next]

fold_proofs(old, step) ==
    LET n == old.fold_count + 1
    IN  [public |-> encode_folded_public(
                        <<"fold", old.public.commitment, StepDigest(step), step.next, n>>,
                        <<"agg", old.public.step_digest, StepDigest(step), n>>, n),
         fold_count |-> n, claimed |-> step.next]

\* A proof of one step names the root it leads to only: the root before is
\* taken to be the accumulator's.
StepOfProof(old, proof) ==
    [prev |-> old.claimed, next |-> proof.claimed, witness |-> proof.public.step_digest]

verify_folded_proof(proof, genesis_root, final_root, min_fold_count) ==
    /\ is_well_formed(proof)
    /\ proof.fold_count >= min_fold_count
    /\ proof.claimed = final_root
    /\ proof.fold_count = 0 => proof.claimed = genesis_root

Verify(f, expected_root) == verify_folded_proof(acc[f], genesis[f], expected_root, 0)

\* Bytes of the right form that no folder computed.
Fabricated == {encode_public(<<"none", n>>, <<"none", n>>, n, 1) : n \in 1..MaxFolds}

\* What a caller may hand over: bytes of now or of earlier, with any fold count
\* and any root beside them.
Received == [public : {m[1] : m \in made} \union {from_step(s).public : s \in StepInstance}
                         \union Fabricated,
             fold_count : 0..MaxFolds,
             claimed : StateRoots]

HistoryOf(public) == IF \E m \in made : m[1] = public
                     THEN (CHOOSE m \in made : m[1] = public)[2]
                     ELSE <<public>>
-----------------------------------------------------------------------------
FoldInit ==
    /\ genesis \in [Folders -> StateRoots]
    /\ acc = [f \in Folders |-> GenesisProof(genesis[f])]
    /\ history = [f \in Folders |-> <<acc[f].public>>]
    /\ told = [f \in Folders |-> [by |-> "genesis", root |-> genesis[f], after |-> 1]]
    /\ made = {<<acc[f].public, history[f]>> : f \in Folders}

Folded(f, step) ==
    /\ acc[f].fold_count < MaxFolds
    /\ Cardinality({m \in made : m[1].fold_count > 0}) < MaxProofs
    /\ acc' = [acc EXCEPT ![f] = fold_proofs(@, step)]
    /\ history' = [history EXCEPT ![f] = Append(@, step)]
    /\ made' = made \union {<<acc'[f].public, history'[f]>>}
    /\ UNCHANGED <<genesis, told>>

fold_step(f, step) == CanFold(acc[f], step) /\ Folded(f, step)

FoldSnark(f, proof) ==
    /\ is_well_formed(proof)
    /\ proof.fold_count = 1
    /\ Folded(f, StepOfProof(acc[f], proof))

\* An accumulator that holds nothing yet takes over another one whole. The root
\* it is checked for is the one the proof itself claims.
Adopt(f, proof) ==
    /\ is_well_formed(proof)
    /\ acc[f].fold_count = 0 /\ proof.fold_count > 1
    /\ verify_folded_proof(proof, genesis[f], proof.claimed, 1)
    /\ acc' = [acc EXCEPT ![f] = proof]
    /\ history' = [history EXCEPT ![f] = HistoryOf(proof.public)]
    /\ told' = [told EXCEPT ![f] = [by |-> "caller", root |-> proof.claimed,
                                    after |-> Len(HistoryOf(proof.public))]]
    /\ made' = made \union {<<proof.public, HistoryOf(proof.public)>>}
    /\ UNCHANGED genesis

FoldNext ==
    \/ \E f \in Folders, s \in StepInstance : fold_step(f, s)
    \/ \E f \in Folders, p \in Received : FoldSnark(f, p) \/ Adopt(f, p)

FoldSpec == FoldInit /\ [][FoldNext]_foldVars
-----------------------------------------------------------------------------
\* The public bytes stand for all that was folded into them: whatever is folded,
\* handed on, held back and handed on with another root, equal bytes were folded
\* of the same steps from the same start.
BytesFixHistory == \A m, n \in made : m[1] = n[1] <=> m[2] = n[2]

\* The root that the steps of a history lead to from the one taken on trust.
ReachedRoot(f) == IF Len(history[f]) = told[f].after THEN told[f].root
                  ELSE history[f][Len(history[f])].next

\* A folder verifies for one root: the one that its own steps, each of which
\* begins where the one before it ended, lead to from its genesis or, once it
\* took over a proof, from whatever root the caller named beside it. The bytes
\* of that proof do not bind the root, nor the root at which its history began.
FolderIsLinked(f) ==
    /\ <<acc[f].public, history[f]>> \in made
    /\ told[f].by = "genesis" =>
          history[f][1] = GenesisProof(genesis[f]).public /\ told[f].root = genesis[f]
                                                         /\ told[f].after = 1
    /\ \A k \in (told[f].after + 1)..Len(history[f]) :
          history[f][k].prev = IF k = told[f].after + 1 THEN told[f].root ELSE history[f][k - 1].next
    /\ \A r \in StateRoots : Verify(f, r) <=> r = ReachedRoot(f)

PublicFixesHistory == BytesFixHistory /\ \A f \in Folders : FolderIsLinked(f)
=============================================================================
