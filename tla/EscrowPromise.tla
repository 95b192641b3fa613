--------------------------- MODULE EscrowPromise ---------------------------
(***************************************************************************)
(* What the credit ledger promises its users, without hash locks, heights  *)
(* or delays: credits enter by deposits; opening an escrow takes credits   *)
(* from one balance; releasing it gives all of them, once, to one of the   *)
(* accounts entitled to them.  The one exception is a release that the     *)
(* balance cannot hold: its credits are gone.                              *)
(***************************************************************************)
EXTENDS Integers

CONSTANTS
    Accounts,
    EscrowIds,
    Amounts,    \* credits that one deposit or one escrow may move
    MaxBalance  \* the most credits a balance can hold

VARIABLES
    balance,    \* credits each account may spend
    held,       \* credits each escrow holds
    entitled    \* accounts each escrow may be released to; {} before it opens

vars == <<balance, held, entitled>>

Init ==
    /\ balance = [a \in Accounts |-> 0]
    /\ held = [id \in EscrowIds |-> 0]
    /\ entitled = [id \in EscrowIds |-> {}]

Deposit(a, n) ==
    /\ balance[a] + n <= MaxBalance
    /\ balance' = [balance EXCEPT ![a] = @ + n]
    /\ UNCHANGED <<held, entitled>>

Open(id, a, b, n) ==
    /\ entitled[id] = {}
    /\ 0 < n /\ n <= balance[a]
    /\ balance' = [balance EXCEPT ![a] = @ - n]
    /\ held' = [held EXCEPT ![id] = n]
    /\ entitled' = [entitled EXCEPT ![id] = {a, b}]

Release(id, a) ==
    /\ held[id] > 0
    /\ a \in entitled[id]
    /\ balance' = IF balance[a] + held[id] <= MaxBalance
                  THEN [balance EXCEPT ![a] = @ + held[id]] ELSE balance
    /\ held' = [held EXCEPT ![id] = 0]
    /\ UNCHANGED entitled

Next ==
    \/ \E a \in Accounts, n \in Amounts : Deposit(a, n)
    \/ \E id \in EscrowIds, a, b \in Accounts, n \in Amounts : Open(id, a, b, n)
    \/ \E id \in EscrowIds, a \in Accounts : Release(id, a)

Spec == Init /\ [][Next]_vars
=============================================================================
