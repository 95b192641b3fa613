---------------------------- MODULE AdminMultisig ----------------------------
(***************************************************************************)
(* The administrators' multi-signature (governance/src/multisig.rs), whose *)
(* authority decays to nothing.  A signature is the key that made it over  *)
(* a signer id, a proposal id and a description; any signature may arrive. *)
(* The day is an argument of each execution and may be any day.            *)
(***************************************************************************)
EXTENDS Integers, FiniteSets, Sequences

CONSTANTS
    Admins,        \* ids of the administrators (MULTISIG_SIGNERS of them)
    Others,        \* ids of other nodes
    AdminKeys,     \* signing keys
    Threshold,     \* MULTISIG_THRESHOLD
    Descriptions,  \* valid descriptions
    GenesisDay,
    DecayDays,     \* ADMIN_DECAY_DAYS
    WeightScale,   \* WEIGHT_SCALE
    MaxDay,        \* bound on the day of an execution
    MaxProposals   \* bound on the number of proposals

\* The weight reaches zero at the end of the window and not before.
ASSUME DecayAssumption ==
    /\ DecayDays \in Nat \ {0}
    /\ WeightScale \in Nat
    /\ WeightScale >= DecayDays
    /\ GenesisDay \in Nat
    /\ MaxDay \in Nat

ASSUME SignersAssumption ==
    /\ IsFiniteSet(Admins)
    /\ Threshold \in Nat \ {0}

VARIABLES
    admin_keys,   \* the verifying key registered for each administrator
    proposals,    \* proposals by id, from 1
    signatures,   \* administrators recorded for each proposal
    approvals,    \* history: the signatures accepted
    executed_on   \* history: the day each proposal was executed on, -1 if not

multisigVars == <<admin_keys, proposals, signatures, approvals, executed_on>>

Ids == 1 .. Len(proposals)

\* new: the ids are distinct; nothing asks that the keys be.
MultisigInit ==
    /\ admin_keys \in [Admins -> AdminKeys]
    /\ proposals = <<>>
    /\ signatures = <<>>
    /\ approvals = {}
    /\ executed_on = <<>>

\* authority_weight_at
AuthorityWeight(day) ==
    LET elapsed == IF day > GenesisDay THEN day - GenesisDay ELSE 0
    IN  IF elapsed >= DecayDays THEN 0
        ELSE (WeightScale * (DecayDays - elapsed)) \div DecayDays

Propose(d) ==
    /\ Len(proposals) < MaxProposals
    /\ proposals' = Append(proposals, [description |-> d, executed |-> FALSE])
    /\ signatures' = Append(signatures, {})
    /\ executed_on' = Append(executed_on, -1)
    /\ UNCHANGED <<admin_keys, approvals>>

Signature == [signer : Admins \cup Others, proposal_id : 1 .. MaxProposals,
              description : Descriptions, key : AdminKeys]

\* verify_against: the key registered for the signer, over the id and the
\* stored description.
VerifyAgainst(sig) ==
    /\ sig.key = admin_keys[sig.signer]
    /\ sig.description = proposals[sig.proposal_id].description

Sign_Bug(sig) ==  \* any registered key will do
    /\ sig.signer \in Admins
    /\ sig.proposal_id \in Ids
    /\ ~proposals[sig.proposal_id].executed
    /\ \E a \in Admins : sig.key = admin_keys[a]
    /\ sig.description = proposals[sig.proposal_id].description
    /\ sig.signer \notin signatures[sig.proposal_id]
    /\ signatures' = [signatures EXCEPT ![sig.proposal_id] = @ \cup {sig.signer}]
    /\ approvals' = approvals \cup {sig}
    /\ UNCHANGED <<admin_keys, proposals, executed_on>>

Sign(sig) ==
    /\ sig.signer \in Admins
    /\ sig.proposal_id \in Ids
    /\ ~proposals[sig.proposal_id].executed
    /\ VerifyAgainst(sig)
    /\ sig.signer \notin signatures[sig.proposal_id]
    /\ signatures' = [signatures EXCEPT ![sig.proposal_id] = @ \cup {sig.signer}]
    /\ approvals' = approvals \cup {sig}
    /\ UNCHANGED <<admin_keys, proposals, executed_on>>

ThresholdMet(id) == Cardinality(signatures[id]) >= Threshold

\* execute
Execute(id, day) ==
    /\ AuthorityWeight(day) # 0
    /\ id \in Ids
    /\ ~proposals[id].executed
    /\ ThresholdMet(id)
    /\ proposals' = [proposals EXCEPT ![id].executed = TRUE]
    /\ executed_on' = [executed_on EXCEPT ![id] = day]
    /\ UNCHANGED <<admin_keys, signatures, approvals>>

MultisigNext ==
    \/ \E d \in Descriptions : Propose(d)
    \/ \E sig \in Signature : Sign(sig)
    \/ \E id \in 1 .. MaxProposals, day \in 0 .. MaxDay : Execute(id, day)

MultisigSpec == MultisigInit /\ [][MultisigNext]_multisigVars
-----------------------------------------------------------------------------
\* What an administrator has to sign, and with which key.
Approval(a, id) == [signer |-> a, proposal_id |-> id,
                    description |-> proposals[id].description, key |-> admin_keys[a]]

Approvers(id) == {a \in Admins : Approval(a, id) \in approvals}

KeysOf(A) == {admin_keys[a] : a \in A}

\* An executed proposal was approved, word for word and each time with the key of
\* the administrator who is named, in the names of as many of them as the
\* threshold asks for, and on a day within the window. Names are what is counted:
\* every name without a key of its own spares a key, so that the owner of as many
\* names as the threshold executes alone ("distinct admin keys" are not asked for).
ExecutedByQuorum ==
    \A id \in Ids : proposals[id].executed =>
        /\ executed_on[id] < GenesisDay + DecayDays
        /\ Cardinality(Approvers(id)) >= Threshold
        /\ LET spared == Cardinality(Admins) - Cardinality(KeysOf(Admins))
           IN  Cardinality(KeysOf(Approvers(id))) >= Threshold - spared
=============================================================================
