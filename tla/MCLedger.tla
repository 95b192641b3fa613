------------------------------ MODULE MCLedger ------------------------------
(* The parts of the consensus crate, on a small instance of each. They share  *)
(* no state: one moves while the others rest.                                 *)
EXTENDS LedgerTrie, LightClient, Availability

MCKeys == {<<0, 0>>, <<0, 1>>, <<0, 0, 0, 1>>, <<1, 0>>}
Symmetry == Permutations(Islands) \union Permutations(Honest)
               \union Permutations(Folders) \union Permutations(StateRoots)

\* Payloads shorter and longer than the shards are many, with padding of every
\* length; one and two data shards more than parity.
ASSUME ShardsAreEnough == \A n \in 1..7, l \in {<<1, 1>>, <<2, 1>>, <<3, 2>>} : SurvivesLosses(n, l[1], l[2])

VARIABLE part  \* the one that moves

\* Where folders may start in several ways, they start in one while they rest.
MCInit ==
    /\ LedgerInit /\ ClientInit /\ FoldInit /\ RingInit
    /\ part \in {"trie", "legacy", "clients", "folders", "ring"}
    /\ part # "folders" => genesis = [f \in Folders |-> CHOOSE r \in StateRoots : TRUE]

MCNext ==
    /\ UNCHANGED part
    /\ \/ part = "trie" /\ TrieNext /\ UNCHANGED <<clientVars, foldVars, ringVars>>
       \/ part = "legacy" /\ LegacyNext /\ UNCHANGED <<clientVars, foldVars, ringVars>>
       \/ part = "clients" /\ ClientNext /\ UNCHANGED <<ledgerVars, foldVars, ringVars>>
       \/ part = "folders" /\ FoldNext /\ UNCHANGED <<ledgerVars, clientVars, ringVars>>
       \/ part = "ring" /\ RingNext /\ UNCHANGED <<ledgerVars, clientVars, foldVars>>

MCSpec == MCInit /\ [][MCNext]_<<ledgerVars, clientVars, foldVars, ringVars, part>>
=============================================================================
