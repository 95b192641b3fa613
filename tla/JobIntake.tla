----------------------------- MODULE JobIntake -----------------------------
(***************************************************************************)
(* How the HTTP gateway takes in jobs (interop/src/lib.rs): where it may   *)
(* listen, who may ask, how often, and the bounded outbox from which the   *)
(* publisher drains jobs.                                                  *)
(*                                                                         *)
(* Handlers run on several threads.  A handler reads the clock before it   *)
(* takes the lock of the rate table, so its time may be old when it        *)
(* decides; and it queues its job under another lock, later.               *)
(***************************************************************************)
EXTENDS Integers, SequencesExt

CONSTANTS
    Peers,        \* addresses that requests come from
    Bodies,       \* request bodies that are well-formed jobs
    BadBodies,    \* bodies that dispatch_job rejects
    RateLimit,    \* RATE_LIMIT
    RateWindow,   \* RATE_WINDOW
    PeerCap,      \* peers in the table (1024) beyond which newcomers are refused
    OutboxCap,    \* JOB_OUTBOX_CAP
    MaxInstant,   \* bound of the model on the monotonic clock
    MaxRequests   \* bound of the model on the requests ever handled

ASSUME IntakeAssumption ==
    /\ RateLimit \in Nat \ {0} /\ RateWindow \in Nat \ {0}
    /\ PeerCap \in Nat /\ OutboxCap \in Nat \ {0}
    /\ MaxInstant \in Nat /\ MaxRequests \in Nat

VARIABLES
    listening,    \* "loopback", "lan", or "refused" when start-up failed closed
    token,        \* a gateway token is set
    instant,      \* the monotonic clock
    table,        \* for each peer in the table, the requests let in that it holds:
                  \* a number and a time, for two may have come at one time
    handlers,     \* requests being handled
    requests,     \* how many came
    outbox,
    let_in,       \* history: all requests let in, for each peer
    queued,       \* history: jobs accepted since the last drain
    outsider_job  \* history: a job came from the network without the token

jobVars == <<listening, token, instant, table, handlers, requests, outbox, let_in, queued, outsider_job>>

\* validate_gateway_bind
ValidateGatewayBind(loopback, has_token) ==
    CASE loopback -> "loopback"
      [] ~loopback /\ has_token -> "lan"
      [] OTHER -> "refused"

JobInit ==
    /\ token \in BOOLEAN
    /\ \E loopback \in BOOLEAN : listening = ValidateGatewayBind(loopback, token)
    /\ instant = 0
    /\ table = [p \in {} |-> {}]
    /\ handlers = <<>>
    /\ requests = 0
    /\ outbox = <<>>
    /\ let_in = [p \in Peers |-> {}]
    /\ queued = <<>>
    /\ outsider_job = FALSE

JobTick ==
    /\ instant < MaxInstant
    /\ instant' = instant + 1
    /\ UNCHANGED <<listening, token, table, handlers, requests, outbox, let_in, queued, outsider_job>>

\* check_auth; "none" stands for every value but the token.
CheckAuth(presented) == token => presented = "right"

\* submit_job_handler up to the clock reading of check_rate_limit.
Arrive(peer, presented, body) ==
    /\ listening # "refused"
    /\ requests < MaxRequests
    /\ CheckAuth(presented)
    /\ requests' = requests + 1
    /\ handlers' = Append(handlers, [peer |-> peer, presented |-> presented, body |-> body,
                                     came |-> [id |-> requests, at |-> instant],
                                     stage |-> "limit"])
    /\ UNCHANGED <<listening, token, instant, table, outbox, let_in, queued, outsider_job>>

Held(peer) == IF peer \in DOMAIN table THEN table[peer] ELSE {}

Recent(peer, now) == {r \in Held(peer) : now - r.at < RateWindow}

TableFull(peer) == Cardinality(DOMAIN table) > PeerCap /\ peer \notin DOMAIN table

Entry(peer, held) ==
    table' = [p \in DOMAIN table \cup {peer} |-> IF p = peer THEN held ELSE table[p]]

Refuse(i) == handlers' = RemoveAt(handlers, i) /\ UNCHANGED let_in

LetIn(i) ==
    LET h == handlers[i] IN
    /\ handlers' = [handlers EXCEPT ![i].stage = "dispatch"]
    /\ let_in' = [let_in EXCEPT ![h.peer] = @ \cup {h.came}]

\* The definitions whose names end in _Bug are mutated forms of the definition
\* that follows them, used only to show that the properties notice such a bug.
CheckRateLimit_Bug(i) ==  \* the limit is passed by one
    LET h == handlers[i] recent == Recent(h.peer, h.came.at) IN
    /\ h.stage = "limit"
    /\ \/ TableFull(h.peer) /\ Refuse(i) /\ UNCHANGED table
       \/ /\ ~TableFull(h.peer)
          /\ \/ Cardinality(recent) > RateLimit /\ Refuse(i) /\ Entry(h.peer, recent)
             \/ /\ Cardinality(recent) <= RateLimit
                /\ LetIn(i) /\ Entry(h.peer, recent \cup {h.came})
    /\ UNCHANGED <<listening, token, instant, requests, outbox, queued, outsider_job>>

\* check_rate_limit under the lock: a full table refuses newcomers outright;
\* otherwise the peer's entry is created and pruned even if it is refused.
CheckRateLimit(i) ==
    LET h == handlers[i] recent == Recent(h.peer, h.came.at) IN
    /\ h.stage = "limit"
    /\ \/ TableFull(h.peer) /\ Refuse(i) /\ UNCHANGED table
       \/ /\ ~TableFull(h.peer)
          /\ \/ Cardinality(recent) >= RateLimit /\ Refuse(i) /\ Entry(h.peer, recent)
             \/ /\ Cardinality(recent) < RateLimit
                /\ LetIn(i) /\ Entry(h.peer, recent \cup {h.came})
    /\ UNCHANGED <<listening, token, instant, requests, outbox, queued, outsider_job>>

\* A full outbox drops its oldest job.
Push(body) ==
    outbox' = Append(IF Len(outbox) >= OutboxCap THEN Tail(outbox) ELSE outbox, body)

\* dispatch_job of a request let in.
DispatchJob(i) ==
    LET h == handlers[i] IN
    /\ h.stage = "dispatch"
    /\ handlers' = RemoveAt(handlers, i)
    /\ IF h.body \in BadBodies
       THEN UNCHANGED <<outbox, queued, outsider_job>>
       ELSE /\ Push(h.body)
            /\ queued' = Append(queued, h.body)
            /\ outsider_job' = (outsider_job \/ (listening = "lan" /\ h.presented # "right"))
    /\ UNCHANGED <<listening, token, instant, table, requests, let_in>>

\* drain_job_outbox
DrainJobOutbox ==
    /\ outbox # <<>>
    /\ outbox' = <<>>
    /\ queued' = <<>>
    /\ UNCHANGED <<listening, token, instant, table, handlers, requests, let_in, outsider_job>>

JobNext ==
    \/ JobTick
    \/ \E p \in Peers, presented \in {"none", "right"}, b \in Bodies \cup BadBodies :
           Arrive(p, presented, b)
    \/ \E i \in DOMAIN handlers : CheckRateLimit(i) \/ DispatchJob(i)
    \/ DrainJobOutbox

JobSpec == JobInit /\ [][JobNext]_jobVars

-----------------------------------------------------------------------------
\* "60 requests per 60 seconds per IP", with handlers whose clocks are old: at no
\* time have more than RateLimit requests of one peer been let in that came
\* within the window that ends now; and the table never passes its cap by more
\* than the one entry that the comparison with > allows.
RateIsLimited ==
    /\ \A p \in Peers :
           Cardinality({r \in let_in[p] : instant - r.at < RateWindow}) <= RateLimit
    /\ Cardinality(DOMAIN table) <= PeerCap + 1

\* A caller was told "Job Accepted": its job is in the outbox, in the order of
\* acceptance, until it is drained or as many newer ones as the outbox holds
\* were accepted; and with the gateway open to the network, no job got there
\* from a caller without the token.
AcceptedJobsWait ==
    /\ outbox = SubSeq(queued, IF Len(queued) > OutboxCap THEN Len(queued) - OutboxCap + 1 ELSE 1,
                       Len(queued))
    /\ ~outsider_job

\* The intake is neither flooded nor forgetful: the rate holds, and what was
\* accepted waits (check_rate_limit, dispatch_job, drain_job_outbox).
IntakeKeepsItsWord == RateIsLimited /\ AcceptedJobsWait
=============================================================================
