------------------------------- MODULE Leases -------------------------------
(***************************************************************************)
(* Job attempts and their leases: the orchestrator's core.                 *)
(*                                                                         *)
(* A job is placed as a cohort of world_size leases, one per rank, all     *)
(* stamped with one freshly minted epoch.  Agents claim, renew, complete   *)
(* and fail their own lease; the TTL sweep and the failure detector tear   *)
(* down an attempt that lost a member; the scheduler pass places waiting   *)
(* jobs; an operator cancels.  Every one of these is a database            *)
(* transaction.  The ones that lock the rows they decide on are one action *)
(* here.  The two that act on rows they read earlier are split where the   *)
(* other transactions can run in between: the scheduler pass (it locks the *)
(* jobs it places but only reads the nodes) and the cancellation (which    *)
(* locks nothing until it writes).                                         *)
(***************************************************************************)
EXTENDS Integers, FiniteSets

CONSTANTS
  Jobs,           \* job ids; a smaller number is submitted earlier
  Cancellable,    \* jobs an operator may try to cancel
  Adaptive,       \* jobs whose scheduler may wait for a busy, faster node
  Nodes,          \* enrolled nodes
  Fits,           \* job -> nodes with a large enough GPU for it
  Site,           \* node -> the public address it heartbeats from
  WorldSize,      \* job -> ranks in its cohort
  MaxWorldSize,   \* bound on WorldSize
  MaxRetries,     \* max_job_failure_retries
  MaxEpoch,       \* bound: attempts a job may be given in the model
  NoNode,         \* null node reference
  NoSite          \* a node that never reported a public address

ASSUME ConstantsAssumption ==
  /\ IsFiniteSet(Jobs)
  /\ Jobs \subseteq Nat /\ Cancellable \subseteq Jobs /\ Adaptive \subseteq Jobs
  /\ NoNode \notin Nodes
  /\ MaxWorldSize \in Nat \ {0} /\ WorldSize \in [Jobs -> 1 .. MaxWorldSize]
  /\ Fits \in [Jobs -> SUBSET Nodes]
  /\ MaxRetries \in Nat /\ MaxEpoch \in Nat

Ranks == 0 .. MaxWorldSize - 1

(* A lease row is named by its job, the epoch it was minted at and its rank. *)
LeaseId == Jobs \X (1 .. MaxEpoch) \X Ranks

JobState == {"ABSENT", "QUEUED", "SCHEDULED", "LEASED", "RUNNING",
             "REASSIGNED", "COMPLETED", "FAILED", "CANCELLED"}
Terminal == {"COMPLETED", "FAILED", "CANCELLED"}
PlaceableUntilClaimed == {"QUEUED", "REASSIGNED", "SCHEDULED"} \* mutant
Placeable == {"QUEUED", "REASSIGNED"}

Reassignable == {"LEASED", "RUNNING", "SCHEDULED"}

WorkingOnceRunning == {"RUNNING"}                             \* mutant
Working == {"LEASED", "RUNNING"}

LeaseState == {"ABSENT", "PENDING", "ACTIVE", "EXPIRED", "UNCLAIMED",
               "RELEASED", "COMPLETED", "FAILED"}
LiveStates == {"PENDING", "ACTIVE"}

VARIABLES
  jobState,       \* jobs.state
  jobEpoch,       \* jobs.current_lease_epoch
  attempts,       \* jobs.failed_attempt_count
  rendezvous,     \* jobs.rendezvous_node_id
  leaseState,     \* leases.state
  leaseNode,      \* leases.node_id
  overdue,        \* live leases whose expires_at is in the past
  nodeStatus,     \* nodes.status
  backoff,        \* nodes whose scheduling_backoff_until is in the future
  successes,      \* nodes.lease_success_count
  failures,       \* nodes.lease_failure_count
  pass,           \* the scheduler pass in progress: locked jobs, what it read
  cancelStep,     \* how far a cancellation of the job has got
  cancelSeen      \* the live leases that cancellation has read

jobVars  == <<jobState, jobEpoch, attempts, rendezvous>>
leaseVars == <<leaseState, leaseNode, overdue>>
nodeVars == <<nodeStatus, backoff, successes, failures>>
cancelVars == <<cancelStep, cancelSeen>>
vars == <<jobVars, leaseVars, nodeVars, pass, cancelVars>>

NoPass == [step |-> "idle", jobs |-> {}, free |-> {}, busy |-> {}]

TypeOK ==
  /\ jobState \in [Jobs -> JobState]
  /\ jobEpoch \in [Jobs -> 0 .. MaxEpoch]
  /\ attempts \in [Jobs -> Nat]
  /\ rendezvous \in [Jobs -> Nodes \cup {NoNode}]
  /\ leaseState \in [LeaseId -> LeaseState]
  /\ leaseNode \in [LeaseId -> Nodes \cup {NoNode}]
  /\ overdue \subseteq LeaseId
  /\ nodeStatus \in [Nodes -> {"ONLINE", "OFFLINE"}]
  /\ backoff \subseteq Nodes
  /\ successes \in [Nodes -> Nat]
  /\ failures \in [Nodes -> Nat]
  /\ pass \in [step : {"idle", "nodes", "ready"},
               jobs : SUBSET Jobs, free : SUBSET Nodes, busy : SUBSET Nodes]
  /\ cancelStep \in [Jobs -> {"idle", "loaded", "read"}]
  /\ cancelSeen \in [Jobs -> SUBSET LeaseId]

Init ==
  /\ jobState = [j \in Jobs |-> "ABSENT"]
  /\ jobEpoch = [j \in Jobs |-> 0]
  /\ attempts = [j \in Jobs |-> 0]
  /\ rendezvous = [j \in Jobs |-> NoNode]
  /\ leaseState = [l \in LeaseId |-> "ABSENT"]
  /\ leaseNode = [l \in LeaseId |-> NoNode]
  /\ overdue = {}
  /\ nodeStatus = [n \in Nodes |-> "OFFLINE"]
  /\ backoff = {}
  /\ successes = [n \in Nodes |-> 0]
  /\ failures = [n \in Nodes |-> 0]
  /\ pass = NoPass
  /\ cancelStep = [j \in Jobs |-> "idle"]
  /\ cancelSeen = [j \in Jobs |-> {}]

-----------------------------------------------------------------------------
Live(l) == leaseState[l] \in LiveStates

(* The epoch fence: the lease belongs to its job's current attempt. *)
Current(l) == l[2] = jobEpoch[l[1]]

LiveOf(j) == {l \in LeaseId : l[1] = j /\ Live(l)}
HeldBy(n) == {l \in LeaseId : leaseNode[l] = n /\ Live(l)}

(* "One job per node": a node with any PENDING or ACTIVE lease. *)
BusyOnceClaimed == {n \in Nodes : \E l \in HeldBy(n) : leaseState[l] = "ACTIVE"} \* mutant
Busy == {n \in Nodes : HeldBy(n) # {}}

(* _release_cohort_siblings: the live rows of the jobs' current attempts,  *)
(* but for those the caller settles itself.                                *)
UnclaimedSiblings(js, settled) ==                             \* mutant
  {l \in LeaseId : l[1] \in js /\ Current(l) /\ leaseState[l] = "PENDING"} \ settled
Siblings(js, settled) == {l \in LeaseId : l[1] \in js /\ Current(l) /\ Live(l)} \ settled

-----------------------------------------------------------------------------
(* Submission.  Jobs are numbered in the order they are submitted. *)
CreateJob(j) ==
  /\ jobState[j] = "ABSENT"
  /\ \A i \in Jobs : i < j => jobState[i] # "ABSENT"
  /\ jobState' = [jobState EXCEPT ![j] = "QUEUED"]
  /\ UNCHANGED <<jobEpoch, attempts, rendezvous, leaseVars, nodeVars, pass, cancelVars>>

-----------------------------------------------------------------------------
(* The scheduler pass.  Passes are serialised by _scheduler_lock, so there *)
(* is at most one; it holds the row locks of the jobs it is placing.       *)

(* The hard filters that do not depend on the job.  `stale` stands for the *)
(* nodes whose last heartbeat is too old: any set of them, as time passes  *)
(* freely here.                                                            *)
HealthyUnlessEverFailed(stale) ==                             \* mutant
  {n \in Nodes \ stale : nodeStatus[n] = "ONLINE" /\ failures[n] = 0}
Healthy(stale) == {n \in Nodes \ stale : nodeStatus[n] = "ONLINE" /\ n \notin backoff}

Waiting == {j \in Jobs : jobState[j] \in Placeable /\ jobEpoch[j] < MaxEpoch}

(* SKIP LOCKED: a job whose row another transaction holds just now is left *)
(* out, be it a cancellation that is writing or a late report that will be *)
(* refused.  Then the nodes are read, and the busy ones by a query of its  *)
(* own, which sees what committed in between.                              *)
SchedulerPassBegin(stale, skipped) ==
  /\ pass.step = "idle"
  /\ Waiting \ skipped # {}
  /\ pass' = [step |-> "nodes", jobs |-> Waiting \ skipped, free |-> Healthy(stale), busy |-> {}]
  /\ UNCHANGED <<jobVars, leaseVars, nodeVars, cancelVars>>

ReadBusyNodes ==
  /\ pass.step = "nodes"
  /\ pass' = [step |-> "ready", jobs |-> pass.jobs,
              free |-> pass.free \ Busy, busy |-> pass.free \cap Busy]
  /\ UNCHANGED <<jobVars, leaseVars, nodeVars, cancelVars>>

(* Distinct nodes for every rank, behind one router when there are several. *)
SameNetwork(N) == \E s \in {Site[n] : n \in N} \ {NoSite} : \A n \in N : Site[n] = s

Cohorts(j, free) ==
  {c \in [0 .. WorldSize[j] - 1 -> free \cap Fits[j]] :
     /\ \A r, q \in DOMAIN c : c[r] = c[q] => r = q
     /\ WorldSize[j] > 1 => SameNetwork({c[r] : r \in DOMAIN c})}

Members(c) == {c[r] : r \in DOMAIN c}

(* What is left of the snapshot for job j once the older jobs of the plan *)
(* have taken their nodes.                                                *)
Taken(plan, j) == UNION {Members(plan[i]) : i \in {i \in DOMAIN plan : i < j}}

(* An adaptive single-rank job may be left waiting for a busy node that is *)
(* measured to finish it sooner.                                           *)
MayDefer(plan, j) ==
  /\ j \in Adaptive /\ WorldSize[j] = 1
  /\ pass.busy \cup Taken(plan, j) # {}

(* Oldest first, all ranks or none; a job is passed over only when no      *)
(* cohort is left for it, or it waits for a busy node.                     *)
LegalPlan(plan) ==
  \A j \in pass.jobs :
    IF j \in DOMAIN plan
    THEN plan[j] \in Cohorts(j, pass.free \ Taken(plan, j))
    ELSE Cohorts(j, pass.free \ Taken(plan, j)) = {} \/ MayDefer(plan, j)

Plans == UNION {[D -> UNION {Cohorts(j, pass.free) : j \in pass.jobs}] : D \in SUBSET pass.jobs}

(* The attempt's epoch is minted once and stamped on every rank's lease. *)
MintOnlyFirst(j) == IF jobEpoch[j] = 0 THEN 1 ELSE jobEpoch[j] \* mutant
Mint(j) == jobEpoch[j] + 1

Placed(plan) ==
  {l \in LeaseId : l[1] \in DOMAIN plan /\ l[2] = Mint(l[1]) /\ l[3] < WorldSize[l[1]]}

(* The rendezvous host is the member given rank 0. *)
RendezvousHost(c) == c[0]

(* place_job_cohort for every planned job, then the pass's one commit. *)
SchedulerPassCommit ==
  /\ pass.step = "ready"
  /\ \E plan \in Plans :
       /\ LegalPlan(plan)
       /\ jobState' = [j \in Jobs |-> IF j \in DOMAIN plan THEN "SCHEDULED" ELSE jobState[j]]
       /\ jobEpoch' = [j \in Jobs |-> IF j \in DOMAIN plan THEN Mint(j) ELSE jobEpoch[j]]
       /\ rendezvous' = [j \in Jobs |-> IF j \in DOMAIN plan THEN RendezvousHost(plan[j]) ELSE rendezvous[j]]
       /\ leaseState' = [l \in LeaseId |-> IF l \in Placed(plan) THEN "PENDING" ELSE leaseState[l]]
       /\ leaseNode' = [l \in LeaseId |-> IF l \in Placed(plan) THEN plan[l[1]][l[3]] ELSE leaseNode[l]]
  /\ pass' = NoPass
  /\ UNCHANGED <<attempts, overdue, nodeVars, cancelVars>>

(* The pass raised, or the orchestrator stopped, before its commit. *)
SchedulerPassAbort ==
  /\ pass.step # "idle"
  /\ pass' = NoPass
  /\ UNCHANGED <<jobVars, leaseVars, nodeVars, cancelVars>>

-----------------------------------------------------------------------------
(* The agents' calls. *)

(* The node's PENDING slot with the lowest epoch, if it is still current. *)
ClaimJobForNode(n) ==
  \E l \in HeldBy(n) :
    /\ leaseState[l] = "PENDING"
    /\ \A m \in HeldBy(n) : leaseState[m] = "PENDING" => l[2] <= m[2]
    /\ Current(l)
    /\ leaseState' = [leaseState EXCEPT ![l] = "ACTIVE"]
    /\ overdue' = overdue \ {l}
    /\ jobState' = [jobState EXCEPT ![l[1]] = IF @ = "SCHEDULED" THEN "LEASED" ELSE @]
    /\ UNCHANGED <<jobEpoch, attempts, rendezvous, leaseNode, nodeVars, pass, cancelVars>>

(* What _load_fenced lets through: the lease is of the current epoch and is *)
(* still ACTIVE.  Anything else is refused and changes nothing.             *)
FencedByEpochOnly(l) == leaseState[l] # "ABSENT" /\ Current(l) \* mutant
Fenced(l) == leaseState[l] = "ACTIVE" /\ Current(l)

RenewLease(l) ==
  /\ Fenced(l)
  /\ jobState' = [jobState EXCEPT ![l[1]] = IF @ = "LEASED" THEN "RUNNING" ELSE @]
  /\ overdue' = overdue \ {l}
  /\ UNCHANGED <<jobEpoch, attempts, rendezvous, leaseState, leaseNode, nodeVars, pass, cancelVars>>

CompleteLease(l) ==
  /\ Fenced(l)
  /\ leaseState' = [leaseState EXCEPT ![l] = "COMPLETED"]
  /\ overdue' = overdue \ {l}
  /\ successes' = [successes EXCEPT ![leaseNode[l]] = @ + 1]
  /\ jobState' = [jobState EXCEPT ![l[1]] = IF @ \in Working THEN "COMPLETED" ELSE @]
  /\ UNCHANGED <<jobEpoch, attempts, rendezvous, leaseNode, nodeStatus, backoff, failures,
                 pass, cancelVars>>

MayRetryOnceTooOften(j) == attempts[j] <= MaxRetries          \* mutant
MayRetry(j) == attempts[j] + 1 <= MaxRetries

(* The first failure of an attempt ends it: the siblings are released and  *)
(* the job is retried while it has retries left.  A failure reported after *)
(* the job ended only settles the lease.                                   *)
FailLease(l) ==
  LET j == l[1]
      ends == jobState[j] \in Working
  IN /\ Fenced(l)
     /\ leaseState' = [m \in LeaseId |->
          CASE m = l -> "FAILED"
            [] ends /\ m \in Siblings({j}, {l}) -> "RELEASED"
            [] OTHER -> leaseState[m]]
     /\ overdue' = {m \in overdue : leaseState'[m] \in LiveStates}
     /\ failures' = [failures EXCEPT ![leaseNode[l]] = @ + 1]
     /\ IF ends
        THEN /\ attempts' = [attempts EXCEPT ![j] = @ + 1]
             /\ jobState' = [jobState EXCEPT ![j] = IF MayRetry(j) THEN "REASSIGNED" ELSE "FAILED"]
             /\ rendezvous' = [rendezvous EXCEPT ![j] = NoNode]
             /\ backoff' = IF MayRetry(j) THEN backoff \cup {leaseNode[l]} ELSE backoff
        ELSE UNCHANGED <<attempts, jobState, rendezvous, backoff>>
     /\ UNCHANGED <<jobEpoch, leaseNode, nodeStatus, successes, pass, cancelVars>>

-----------------------------------------------------------------------------
(* The leases a tear-down holds against their node. *)
BlamedAlsoForLapsed(expired, lapsed) ==                       \* mutant
  {l \in expired \cup lapsed : Current(l)}
BlamedIfClaimed(expired, lapsed) ==                           \* mutant
  {l \in expired : Current(l) /\ leaseState[l] = "ACTIVE"}
Blamed(expired, lapsed) == {l \in expired : Current(l)}

(* reassign_job_attempt, for every job that one of the given leases of the *)
(* current epoch belongs to.  `expired` leases cost their node a failure,  *)
(* `lapsed` offers cost it a backoff, and the rest of the cohort is        *)
(* released.  A row of a superseded epoch is only closed.                  *)
ReassignJobAttempts(expired, lapsed) ==
  LET hit == {l[1] : l \in {m \in expired \cup lapsed : Current(m)}}
      moved == {j \in hit : jobState[j] \in Reassignable}
  IN /\ leaseState' = [l \in LeaseId |->
          CASE l \in expired -> "EXPIRED"
            [] l \in lapsed \ expired -> "UNCLAIMED"
            [] l \in Siblings(hit, expired \cup lapsed) -> "RELEASED"
            [] OTHER -> leaseState[l]]
     /\ overdue' = {l \in overdue : leaseState'[l] \in LiveStates}
     /\ failures' = [n \in Nodes |->
          failures[n] + Cardinality({l \in Blamed(expired, lapsed) : leaseNode[l] = n})]
     /\ backoff' = backoff \cup {leaseNode[l] : l \in {m \in lapsed : Current(m)}}
     /\ jobState' = [j \in Jobs |-> IF j \in moved THEN "REASSIGNED" ELSE jobState[j]]
     /\ rendezvous' = [j \in Jobs |-> IF j \in moved THEN NoNode ELSE rendezvous[j]]

LapsedClaims == {l \in overdue : leaseState[l] = "ACTIVE"}     \* mutant
Lapsed == {l \in overdue : Live(l)}

(* The TTL sweep: an ACTIVE lease past its TTL expired, a PENDING one was  *)
(* never picked up.  SKIP LOCKED: a row another transaction is holding is  *)
(* left for the next sweep, or released as a sibling of this one's.        *)
SweepExpiredLeases(skipped) ==
  LET due == Lapsed \ skipped
  IN /\ due # {}
     /\ ReassignJobAttempts({l \in due : leaseState[l] = "ACTIVE"},
                            {l \in due : leaseState[l] = "PENDING"})
     /\ UNCHANGED <<jobEpoch, attempts, leaseNode, nodeStatus, successes, pass, cancelVars>>

(* The failure detector declares n dead.  The suspicion itself is the      *)
(* environment's choice.  Every lease of n is at fault, claimed or not.    *)
DeclareNodeFailed(n) ==
  /\ nodeStatus[n] = "ONLINE"
  /\ nodeStatus' = [nodeStatus EXCEPT ![n] = "OFFLINE"]
  /\ ReassignJobAttempts({l \in HeldBy(n) : Current(l)}, {})
  /\ UNCHANGED <<jobEpoch, attempts, leaseNode, successes, pass, cancelVars>>

RecordHeartbeat(n) ==
  /\ nodeStatus' = [nodeStatus EXCEPT ![n] = "ONLINE"]
  /\ UNCHANGED <<jobVars, leaseVars, backoff, successes, failures, pass, cancelVars>>

-----------------------------------------------------------------------------
(* Cancellation: the endpoint loads the job, then cancel_job reads its live *)
(* leases, then both are written by primary key, whatever they have become  *)
(* meanwhile.  Only the write waits for row locks.                          *)
CancelLoad(j) ==
  /\ j \in Cancellable
  /\ cancelStep[j] = "idle"
  /\ jobState[j] \notin Terminal \cup {"ABSENT"}
  /\ cancelStep' = [cancelStep EXCEPT ![j] = "loaded"]
  /\ UNCHANGED <<jobVars, leaseVars, nodeVars, pass, cancelSeen>>

CancelRead(j) ==
  /\ cancelStep[j] = "loaded"
  /\ cancelStep' = [cancelStep EXCEPT ![j] = "read"]
  /\ cancelSeen' = [cancelSeen EXCEPT ![j] = LiveOf(j)]
  /\ UNCHANGED <<jobVars, leaseVars, nodeVars, pass>>

CancelCommit(j) ==
  /\ cancelStep[j] = "read"
  /\ j \notin pass.jobs
  /\ jobState' = [jobState EXCEPT ![j] = "CANCELLED"]
  /\ leaseState' = [l \in LeaseId |-> IF l \in cancelSeen[j] THEN "RELEASED" ELSE leaseState[l]]
  /\ overdue' = overdue \ cancelSeen[j]
  /\ cancelStep' = [cancelStep EXCEPT ![j] = "idle"]
  /\ cancelSeen' = [cancelSeen EXCEPT ![j] = {}]
  /\ UNCHANGED <<jobEpoch, attempts, rendezvous, leaseNode, nodeVars, pass>>

-----------------------------------------------------------------------------
(* Time. *)
TtlPasses(l) ==
  /\ Live(l) /\ l \notin overdue
  /\ overdue' = overdue \cup {l}
  /\ UNCHANGED <<jobVars, leaseState, leaseNode, nodeVars, pass, cancelVars>>

BackoffPasses(n) ==
  /\ n \in backoff
  /\ backoff' = backoff \ {n}
  /\ UNCHANGED <<jobVars, leaseVars, nodeStatus, successes, failures, pass, cancelVars>>

-----------------------------------------------------------------------------
Next ==
  \/ \E j \in Jobs : CreateJob(j) \/ CancelLoad(j) \/ CancelRead(j) \/ CancelCommit(j)
  \/ \E stale \in SUBSET Nodes, skipped \in SUBSET Jobs : SchedulerPassBegin(stale, skipped)
  \/ ReadBusyNodes
  \/ SchedulerPassCommit
  \/ SchedulerPassAbort
  \/ \E n \in Nodes : \/ ClaimJobForNode(n) \/ RecordHeartbeat(n)
                      \/ DeclareNodeFailed(n) \/ BackoffPasses(n)
  \/ \E l \in LeaseId : RenewLease(l) \/ CompleteLease(l) \/ FailLease(l) \/ TtlPasses(l)
  \/ \E skipped \in SUBSET Lapsed : SweepExpiredLeases(skipped)

Spec == Init /\ [][Next]_vars

-----------------------------------------------------------------------------
(* A lease that can still be claimed, renewed or reported on belongs to    *)
(* the job's current attempt: no zombie of a superseded attempt keeps a    *)
(* live row (leases.py, the epoch fence and the tear-down of siblings).    *)
LiveIsCurrent == \A l \in LeaseId : Live(l) => Current(l)

(* A job that waits for placement, or that failed for good, holds no node: *)
(* whatever path ended its last attempt released the whole cohort.         *)
WaitingHoldsNothing ==
  \A j \in Jobs : jobState[j] \in Placeable \cup {"ABSENT", "FAILED"} => LiveOf(j) = {}

\* The members of an attempt, and the node they all dial.
CohortIsLive ==
  \A j \in Jobs : jobState[j] \in Reassignable =>
    \A r \in 0 .. WorldSize[j] - 1 :
      /\ Live(<<j, jobEpoch[j], r>>)
      /\ jobState[j] = "SCHEDULED" => leaseState[<<j, jobEpoch[j], r>>] = "PENDING"

RendezvousIsRankZero ==
  \A j \in Jobs :
    /\ jobState[j] \in Reassignable => rendezvous[j] = leaseNode[<<j, jobEpoch[j], 0>>]
    /\ jobState[j] \in Placeable \cup {"FAILED"} => rendezvous[j] = NoNode

(* A job that is scheduled, leased or running has every rank of its cohort *)
(* still live, and none claimed while it is only scheduled: an attempt     *)
(* never goes on with a member missing.  The node it names as the          *)
(* rendezvous host, which every rank dials, is that of its rank 0 in this  *)
(* attempt and no earlier one; between attempts it names none              *)
(* (place_job_cohort, reassign_job_attempt, fail_lease).                   *)
IntactCohort == CohortIsLive /\ RendezvousIsRankZero

(* No node is promised to two attempts, or to two ranks of one, although   *)
(* the pass decides on a snapshot that other transactions overtake.        *)
OneSlotPerNode ==
  \A l, m \in LeaseId : Live(l) /\ Live(m) /\ leaseNode[l] = leaseNode[m] => l = m

(* Reported failures are counted once per attempt, and the job is given up *)
(* exactly when it has failed max_job_failure_retries + 1 times.           *)
RetryBudget ==
  \A j \in Jobs :
    /\ attempts[j] <= jobEpoch[j]
    /\ jobState[j] = "FAILED" => attempts[j] = MaxRetries + 1
    /\ jobState[j] \notin {"FAILED", "CANCELLED"} => attempts[j] <= MaxRetries

(* The node counters agree with the lease rows the scheduler's reliability *)
(* term is computed from (scheduling.py, _reliability_inputs).             *)
ReliabilityLedger ==
  \A n \in Nodes :
    LET of(states) == Cardinality({l \in LeaseId : leaseNode[l] = n /\ leaseState[l] \in states})
    IN successes[n] = of({"COMPLETED"}) /\ failures[n] = of({"FAILED", "EXPIRED"})

(* "A job here never transitions again" (models/job.py, TERMINAL_STATES). *)
TerminalJobsStayPut ==
  [][\A j \in Jobs : jobState[j] \in Terminal => jobState'[j] = jobState[j]]_vars

(* "The terminal states record what actually happened" (models/lease.py):  *)
(* a settled lease keeps its outcome.                                      *)
SettledLeasesStayPut ==
  [][\A l \in LeaseId : leaseState[l] \notin LiveStates \cup {"ABSENT"}
       => leaseState'[l] = leaseState[l]]_vars

(* A node is charged with at most one failure at a time, and only for work *)
(* it had claimed or because it was itself declared dead: never for an     *)
(* offer that lapsed or for a sibling's fault.                             *)
BlameIsEarned ==
  [][\A n \in Nodes : failures'[n] # failures[n] =>
       /\ failures'[n] = failures[n] + 1
       /\ \/ \E l \in HeldBy(n) : leaseState[l] = "ACTIVE" /\ leaseState'[l] \in {"FAILED", "EXPIRED"}
          \/ nodeStatus[n] = "ONLINE" /\ nodeStatus'[n] = "OFFLINE"]_vars

(* What the rest of the system may rely on: fenced, exclusive attempts. *)
Attempts == INSTANCE FencedAttempts WITH
  token <- jobEpoch,
  holders <- [j \in Jobs |-> {leaseNode[l] : l \in LiveOf(j)}]

(* The lease machinery implements the abstract fenced attempts. *)
ImplementsFencedAttempts == Attempts!Spec

(* Why safety holds, as one inductive invariant.                            *)
(* A live lease is a rank of the cohort on a real node; no row of an epoch  *)
(* not yet minted is live; an attempt has been minted for a job under way.  *)
LiveIsARank ==
  \A l \in LeaseId : Live(l) => leaseNode[l] \in Nodes /\ l[3] < WorldSize[l[1]]

AttemptMinted == \A j \in Jobs : jobState[j] \in Reassignable => jobEpoch[j] >= 1

(* The pass's locks keep its jobs waiting, and nothing but a pass makes a   *)
(* node busy, so its free nodes are still free when it commits.             *)
SnapshotStillFree ==
  /\ pass.step = "ready" => pass.free \cap Busy = {}
  /\ \A j \in pass.jobs : jobState[j] \in Placeable /\ jobEpoch[j] < MaxEpoch

(* What a cancellation has read are rows of its own job.                    *)
CancelReadsOwnRows == \A j \in Jobs : \A l \in cancelSeen[j] : l[1] = j

IInv ==
  /\ LiveIsCurrent /\ WaitingHoldsNothing /\ CohortIsLive /\ OneSlotPerNode
  /\ LiveIsARank /\ AttemptMinted /\ SnapshotStillFree /\ CancelReadsOwnRows

-----------------------------------------------------------------------------
(* Fairness.  The loops of services/loops.py run for the life of the       *)
(* process and survive a failing iteration; a pass over fresh heartbeats   *)
(* that could place a job is not cut short every single time.              *)
ReadAllThereIs == ReadBusyNodes /\ pass.jobs = Waiting /\ pass.free = Healthy({})
PlaceAJob == SchedulerPassCommit /\ jobState' # jobState

OrchestratorFairness ==
  /\ SF_vars(SchedulerPassBegin({}, {})) /\ SF_vars(ReadAllThereIs) /\ SF_vars(PlaceAJob)
  /\ WF_vars(ReadBusyNodes \/ SchedulerPassCommit)
  /\ WF_vars(SweepExpiredLeases({}))
  /\ \A l \in LeaseId : WF_vars(TtlPasses(l))
  /\ \A n \in Nodes : WF_vars(BackoffPasses(n))

(* Live agents poll for their slot and report how their training ended. *)
AgentFairness ==
  /\ \A n \in Nodes : WF_vars(ClaimJobForNode(n))
  /\ \A l \in LeaseId : WF_vars(CompleteLease(l) \/ FailLease(l))

FairSpec == Spec /\ OrchestratorFairness

(* The sweep alone. *)
SweepSpec == Spec /\ WF_vars(SweepExpiredLeases({}))

(* Again and again no live lease is past its TTL: with no help from any    *)
(* agent, an offer nobody picked up, a lease whose agent is silent, and a  *)
(* slot claimed after a sibling completed the job are all resolved         *)
(* (sweep_expired_leases).                                                 *)
LapsedLeasesResolve == []<>(overdue = {})

(* With live agents, once the detector stops suspecting their nodes, every *)
(* submitted job ends or has used up the attempts the model allows: none   *)
(* waits for ever for a placement, a claim or the end of an attempt.       *)
StableFleet == <>[](\A n \in Nodes : nodeStatus[n] = "ONLINE")
JobsEnd ==
  AgentFairness /\ StableFleet =>
    <>[](\A j \in Jobs : jobState[j] \in Terminal \cup {"ABSENT"} \/ jobEpoch[j] = MaxEpoch)
=============================================================================
