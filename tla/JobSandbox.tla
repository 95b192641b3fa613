----------------------------- MODULE JobSandbox ------------------------------
(***************************************************************************)
(* A sandboxed job (sandbox/src/job.rs over host.rs, admit.rs and lib.rs): *)
(* a module runs in a host with its own block pool, and what must not run  *)
(* unpaid is gated by a job id that only a verified delay proof gives.     *)
(*                                                                         *)
(* The delay proof is made by the transport (EvaluateVdf), travels as a    *)
(* receipt in which any one field may be altered, and is checked here.     *)
(* An invocation never nests, so the auxiliary stack is empty between the  *)
(* steps; what an export computes is left out, except its allocations.     *)
(***************************************************************************)
EXTENDS BlockPool

-----------------------------------------------------------------------------
(* The verifiable delay function (mesh-transport/src/vdf_sybil.rs, repeated   *)
(* in sandbox/src/admit.rs): y = x^(2^t) by t squarings, and a proof pi that  *)
(* is checked without repeating them.  Group elements are numbers below a     *)
(* small modulus; SHA-256 is any function of its inputs.                      *)
CONSTANTS
    Modulus,            \* of the one registered group, a product of two primes
    Registered,         \* the id of that group
    GroupDigest(_, _),  \* SHA-256 in counter mode of a seed and a step count
    ChallengeDigest(_, _, _, _),  \* SHA-256 of x, y, t and a counter
    ChallengeBits,      \* bits of the challenge prime, 128 in the code
    SmallPrimes,        \* trial divisors, all below 2^(ChallengeBits - 1)
    MRBases             \* Miller-Rabin bases

\* modpow
ModPow(b, e, n) ==
    LET p[i \in 0 .. e] == IF i = 0 THEN 1 % n ELSE (p[i - 1] * b) % n
    IN  p[e]

\* hash_to_group: an element of 2 .. N-1 that depends on the step count.
HashToGroup(input, t) == (GroupDigest(input, t) % (Modulus - 2)) + 2

\* is_probable_prime: trial division, then for n - 1 = d * 2^s a base passes
\* if the power d is 1 or reaches -1 by fewer than s squarings.
IsProbablePrime(n) ==
    LET s == CHOOSE k \in 0 .. n : /\ (n - 1) % (2 ^ k) = 0
                                   /\ (n - 1) % (2 ^ (k + 1)) # 0
        d == (n - 1) \div 2 ^ s
        Passes(a) == \/ ModPow(a, d, n) = 1
                     \/ \E i \in 0 .. s - 1 : ModPow(a, d * 2 ^ i, n) = n - 1
    IN  /\ \A p \in SmallPrimes : n % p # 0
        /\ \A a \in MRBases : a >= n \/ Passes(a)

\* fiat_shamir_prime: the top and the lowest bit of a digest are set; the first
\* counter that gives a probable prime decides.
Candidate(digest) ==
    LET top == 2 ^ (ChallengeBits - 1)
        low == digest % top
    IN  top + low - (low % 2) + 1

FiatShamirPrime(x, y, t) ==
    LET tried(c) == Candidate(ChallengeDigest(x, y, t, c))
        found == CHOOSE c \in 0 .. 2 ^ ChallengeBits :
                     /\ IsProbablePrime(tried(c))
                     /\ \A b \in 0 .. c - 1 : ~IsProbablePrime(tried(b))
    IN  tried(found)

\* evaluate_wesolowski: y by t squarings, then pi = x^floor(2^t / ell) by long
\* division in the exponent, one squaring and at most one product per step.
Output(x, t) ==
    LET y[i \in 0 .. t] == IF i = 0 THEN x ELSE (y[i - 1] * y[i - 1]) % Modulus
    IN  y[t]

Proof(x, ell, t) ==
    LET p[i \in 0 .. t] ==
            IF i = 0 THEN [pi |-> 1, r |-> 1]
            ELSE LET two_r == 2 * p[i - 1].r
                     sq    == (p[i - 1].pi * p[i - 1].pi) % Modulus
                 IN  [pi |-> IF two_r >= ell THEN (sq * x) % Modulus ELSE sq,
                      r  |-> two_r % ell]
    IN  p[t].pi

\* The proof evaluate_vdf makes of t steps from a seed.
Evaluate(input, t) ==
    LET x   == HashToGroup(input, t)
        y   == Output(x, t)
        ell == FiatShamirPrime(x, y, t)
    IN  [output |-> y, proof |-> Proof(x, ell, t)]

\* The structural checks of verify_vdf_proof_detailed: canonical elements only.
Canonical(z) == 1 <= z /\ z < Modulus

\* Its equation, pi^ell * x^(2^t mod ell) = y, with the challenge recomputed
\* from the output that is claimed.
EquationHolds(input, t, output, proof) ==
    LET x   == HashToGroup(input, t)
        ell == FiatShamirPrime(x, output, t)
        r   == ModPow(2, t, ell)
    IN  (ModPow(proof, ell, Modulus) * ModPow(x, r, Modulus)) % Modulus = output

\* verify_vdf_proof_detailed
Verifies(p) ==
    /\ p.iterations > 0
    /\ p.claimed_iterations > 0
    /\ p.claimed_iterations = p.iterations
    /\ p.modulus_id = Registered
    /\ Canonical(p.output) /\ Canonical(p.proof)
    /\ EquationHolds(p.input, p.iterations, p.output, p.proof)

\* evaluate_vdf_checked, after validate
EvaluateVdf(input, t) ==
    LET e == Evaluate(input, t)
    IN  [modulus_id |-> Registered, iterations |-> t, claimed_iterations |-> t,
         input |-> input, output |-> e.output, proof |-> e.proof]

-----------------------------------------------------------------------------
CONSTANTS
    Seeds,         \* VDF inputs
    MaxSteps,      \* bound on the step count of a receipt
    MinSteps,      \* the verifier's floor
    OtherId,       \* a group id that is not registered
    Metas,         \* job metadata
    MintDid(_, _), \* SHA-256 of the output and the metadata
    NoReceipt,
    NoDid

\* SHA-256 gives numbers, and the search for a challenge ends at an odd one.
ASSUME GateAssumption ==
    /\ Modulus \in Nat /\ Modulus > 2
    /\ MaxSteps \in Nat
    /\ \A s \in Seeds, t \in 1 .. MaxSteps : GroupDigest(s, t) \in Nat
    /\ \A x, y \in 0 .. Modulus - 1, t \in 1 .. MaxSteps : FiatShamirPrime(x, y, t) \in Nat \ {0, 1}

VARIABLES
    user,             \* who holds the pool: a caller of the crate, a Job, or the
                      \* legacy WamrInstance around a Job
    receipt,          \* the receipt at hand
    honest,           \* history: it is as it was minted
    admitted_did,     \* the job's verified id
    allocated_bytes,  \* WamrInstance: its copy of the bytes in use
    paid,             \* history: ids of proofs verified since the last reset
    ran               \* history: ids under which an admitted call was let in
                      \* since the last reset, NoDid without one

gateVars == <<receipt, honest, admitted_did, allocated_bytes, paid, ran>>
vars == <<poolVars, user, gateVars>>

VdfReceipt ==
    [start_x : Seeds, steps : 0 .. MaxSteps, final_x : 0 .. Modulus,
     proof : 0 .. Modulus, modulus_id : {Registered, OtherId}, job_meta : Metas,
     job_did : {MintDid(y, m) : y \in 0 .. Modulus, m \in Metas}]

Init ==
    /\ PoolInit
    /\ user \in {"caller", "job", "wamr"}
    /\ receipt = NoReceipt /\ honest = FALSE
    /\ admitted_did = NoDid
    /\ allocated_bytes = 0
    /\ paid = {} /\ ran = {}

-----------------------------------------------------------------------------
\* The prover and the way to the gate.

\* evaluate_wesolowski: the transport's delay function once more, which has no
\* output for no steps.
EvaluateWesolowski(input, steps) == {Evaluate(input, steps) : s \in {steps} \ {0}}

\* issue_test, or a proof of the transport with the job's id minted from it.
IssueTest(seed, t, meta) ==
    {[start_x |-> seed, steps |-> t, final_x |-> e.output, proof |-> e.proof,
      modulus_id |-> Registered, job_meta |-> meta, job_did |-> MintDid(e.output, meta)] :
        e \in EvaluateWesolowski(seed, t)}

Mint(seed, t, meta) ==
    \E r \in IssueTest(seed, t, meta) :
        /\ user # "caller"
        /\ receipt = NoReceipt
        /\ receipt' = r
        /\ honest' = TRUE
        /\ UNCHANGED <<poolVars, user, admitted_did, allocated_bytes, paid, ran>>

\* Whoever forwards a receipt may alter one field of it; its seed, metadata and
\* id are as easily altered as its numbers.
Alter ==
    /\ receipt # NoReceipt /\ honest
    /\ \/ \E t \in 0 .. MaxSteps : receipt' = [receipt EXCEPT !.steps = t]
       \/ \E y \in {0, 1, Modulus} : receipt' = [receipt EXCEPT !.final_x = y]
       \/ \E pi \in {0, 1, Modulus} : receipt' = [receipt EXCEPT !.proof = pi]
       \/ \E s \in Seeds : receipt' = [receipt EXCEPT !.start_x = s]
       \/ \E m \in Metas : receipt' = [receipt EXCEPT !.job_meta = m]
       \/ receipt' = [receipt EXCEPT !.modulus_id = OtherId]
    /\ honest' = (receipt' = receipt)
    /\ UNCHANGED <<poolVars, user, admitted_did, allocated_bytes, paid, ran>>

Discard ==
    /\ receipt # NoReceipt
    /\ receipt' = NoReceipt /\ honest' = FALSE
    /\ UNCHANGED <<poolVars, user, admitted_did, allocated_bytes, paid, ran>>

-----------------------------------------------------------------------------
\* The gate.

\* verify_receipt: policy first, then canonical elements, then the equation.
VerifyReceipt(r) ==
    /\ r.steps >= MinSteps
    /\ r.modulus_id = Registered
    /\ r.steps # 0
    /\ Canonical(r.final_x) /\ Canonical(r.proof)
    /\ EquationHolds(r.start_x, r.steps, r.final_x, r.proof)

\* admit_job: the id is recomputed from the verified output.
AdmitJob(r) ==
    /\ VerifyReceipt(r)
    /\ MintDid(r.final_x, r.job_meta) = r.job_did

\* HostRuntime::load_with_config: a pool of its own, nothing allocated.
FreshHost ==
    /\ free' = Blocks /\ used_blocks' = 0
    /\ live' = {} /\ issued' = {} /\ misused' = FALSE

\* admit_and_load, admit_and_load_required: a fresh host is loaded only after
\* the gate; without a receipt, or when it is refused, nothing is loaded.
AdmitAndLoad ==
    /\ user # "caller"
    /\ receipt # NoReceipt
    /\ AdmitJob(receipt)
    /\ admitted_did' = receipt.job_did
    /\ paid' = {MintDid(receipt.final_x, receipt.job_meta)}
    /\ ran' = {}
    /\ FreshHost
    /\ allocated_bytes' = 0
    /\ UNCHANGED <<user, receipt, honest>>

\* load: the legacy way in, past the gate.
Load ==
    /\ user # "caller"
    /\ admitted_did' = NoDid
    /\ paid' = {} /\ ran' = {}
    /\ FreshHost
    /\ allocated_bytes' = 0
    /\ UNCHANGED <<user, receipt, honest>>

\* bind_admitted_did has no caller and no action.

-----------------------------------------------------------------------------
\* The job.

\* HostRuntime::allocate returns an offset and drops the handle; WamrInstance
\* copies the bytes in use afterwards.
HostAllocate(size) ==
    /\ user # "caller"
    /\ Allocate(size)
    /\ allocated_bytes' = IF user = "wamr" THEN used_bytes'
                                           ELSE allocated_bytes
    /\ UNCHANGED <<issued, user, receipt, honest, admitted_did, paid, ran>>

\* alloc_probe, the one export that changes the host: n blocks, at least a byte.
\* Nobody tells the WamrInstance.
AllocProbe(n) == Allocate(IF n = 0 THEN 1 ELSE n * BlockSize)

\* invoke: open to any job, admitted or not.
Invoke(n) ==
    /\ user # "caller"
    /\ AllocProbe(n)
    /\ UNCHANGED <<issued, user, gateVars>>

\* invoke_admitted: the allocation of the export, if it asks for one, may fail.
InvokeAdmitted(n) ==
    /\ user # "caller"
    /\ admitted_did # NoDid
    /\ ran' = ran \cup {admitted_did}
    /\ AllocProbe(n) \/ UNCHANGED <<free, used_blocks, live, misused>>
    /\ UNCHANGED <<issued, user, receipt, honest, admitted_did, allocated_bytes, paid>>

Reset_Bug ==  \* admission survives a reset
    /\ user = "job"
    /\ PoolReset
    /\ paid' = {} /\ ran' = {}
    /\ UNCHANGED <<user, receipt, honest, allocated_bytes, admitted_did>>

\* Job::reset; a WamrInstance has none.
Reset ==
    /\ user = "job"
    /\ PoolReset
    /\ admitted_did' = NoDid
    /\ paid' = {} /\ ran' = {}
    /\ UNCHANGED <<user, receipt, honest, allocated_bytes>>

\* A caller that holds the pool itself.
CallPool ==
    /\ user = "caller"
    /\ PoolNext
    /\ UNCHANGED <<user, gateVars>>

Next ==
    \/ CallPool
    \/ \E s \in Seeds, t \in 0 .. MaxSteps, m \in Metas : Mint(s, t, m)
    \/ Alter
    \/ Discard
    \/ AdmitAndLoad
    \/ Load
    \/ \E size \in Sizes : HostAllocate(size)
    \/ \E n \in 0 .. total_blocks : Invoke(n)
    \/ \E n \in 0 .. total_blocks : InvokeAdmitted(n)
    \/ Reset

Spec == Init /\ [][Next]_vars

-----------------------------------------------------------------------------
\* "invoke only if the job was admitted", "admission never survives a reset":
\* an admitted call runs under an id that was recomputed from a verified proof
\* since the last reset or load, whatever receipts, resets and loads preceded.
OnlyPaidJobsRun ==
    /\ ran \subseteq paid
    /\ admitted_did # NoDid => admitted_did \in paid

\* The gate lets in nobody who did not pay, whatever a receipt says (admit_job).
GateIsExact ==
    /\ receipt \in VdfReceipt \cup {NoReceipt}
    /\ OnlyPaidJobsRun

\* The gate is complete: an unaltered receipt with enough steps is admitted,
\* whatever the seed, the step count and the challenge prime, although pi is
\* computed by long division and checked by two powers; its prime is one; and
\* the transport's own verifier takes its own proof.
HonestReceiptPasses(seed, t, meta) ==
    \A r \in IssueTest(seed, t, meta) :
        LET ell == FiatShamirPrime(HashToGroup(seed, t), r.final_x, t)
        IN  /\ r \in VdfReceipt
            /\ t >= MinSteps => AdmitJob(r)
            /\ Verifies(EvaluateVdf(seed, t))
            /\ \A k \in 2 .. ell - 1 : ell % k # 0
=============================================================================
