---------------------------- MODULE MCGovernance ----------------------------
(* The governance crate: the web of trust with its staking, the             *)
(* administrators' multi-signature and the blinded votes, side by side.  They *)
(* share no state, and nothing in the code hands over from one to another:    *)
(* who is eligible to vote is set by the caller.                              *)
EXTENDS WebOfTrust, BlindedVoting, AdminMultisig, TLC

governanceVars == <<vars, voteVars, multisigVars>>

GovernanceInit == Init /\ VotingInit /\ MultisigInit

CONSTANTS a, b, c, n1, n2, n3, k1, k2, v1, v2

\* Node ids, nonces and keys of the web of trust and voters are interchangeable.
MCSymmetry == Permutations({a, b, c}) \cup Permutations({n1, n2, n3})
                 \cup Permutations({k1, k2}) \cup Permutations({v1, v2})

\* The three share no state: a run that interleaves them shows nothing that one
\* moving while the others rest does not.
OneAdminKeys == admin_keys = CHOOSE f \in [Admins -> AdminKeys] : TRUE

MCNext ==
    \/ VotingInit /\ MultisigInit /\ OneAdminKeys /\ Next /\ UNCHANGED <<voteVars, multisigVars>>
    \/ Init /\ MultisigInit /\ OneAdminKeys /\ VotingNext /\ UNCHANGED <<vars, multisigVars>>
    \/ Init /\ VotingInit /\ MultisigNext /\ UNCHANGED <<vars, voteVars>>

MCSpec == GovernanceInit /\ [][MCNext]_governanceVars
=============================================================================
