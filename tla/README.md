# A verification project for the GPU orchestrator

The system under `src/` trains models on machines that people lend to it.  An
*orchestrator* (FastAPI and PostgreSQL) keeps jobs and nodes, places each job
on a set of nodes, and decides when an attempt has failed.  An *agent* on every
node polls for work, starts the *trainer* in a container or a subprocess, and
reports how it ended.  This directory holds TLA+ modules of the parts whose
correctness depends on the order of events, TLC configurations that check them
on small instances, and proofs checked by TLAPS.

## 1. Inventory

The names in the first column are those of `PROJECT.json` "components".

| Component | State | Operations | What is hard |
|---|---|---|---|
| Job attempts and leases (`services/leases.py`, `scheduling.py`, `jobs.py`, `failure_detection.py`) | `jobs` (state, epoch, retry count, rendezvous host), `leases` (state, epoch, rank, node, expiry), counters and backoff on `nodes` | submit, scheduler pass, claim, renew, complete, fail, TTL sweep, failure detector, cancel | transactions of many actors interleave; two of them act on rows they read earlier; fencing of old attempts; retry accounting |
| Row locks (same files) | PostgreSQL row locks | the lock sequences of those transactions | two transactions that take lease, job and node rows in different orders block each other |
| Node lifecycle and enrollment (`services/nodes.py`, `services/enrollment.py`, `api/nodes.py`, `api/deps.py`) | node row: status, last heartbeat, decommissioned_at; enrollment tokens | issue, redeem and revoke a token, register, heartbeat, decommission, detector's declaration, scheduler snapshot | single use under concurrency; a heartbeat, a call or a placement in flight across a removal |
| Failure detection arithmetic (`evaluate_suspicion`) | recent heartbeat intervals | phi accrual with a hard floor | boundaries of the floor and of the bootstrap rule |
| Scheduler policies (`schedulers/`, `scheduling.py`) | node snapshot | round robin, least loaded, adaptive scoring, reliability (Wilson bound), deferral to a busy node, groups that can reach each other | starvation of a job that defers or needs several nodes |
| Node agent (`agent/main.py`, `agent/leases.py`, `agent/runtime/`) | identity, current lease, running trainer, draining leases, output queues, Docker client | enrol, authenticate, heartbeat, claim, choose a runtime, launch, forward output, renew, report, abandon, self-update | lost responses, a report sent once, an abandoned trainer that still runs, threads that end in any order, ranks that look for each other in different places |
| Node authentication (`services/challenge.py`, `api/auth.py`, `core/security.py`) | nonces, the agent's `state.json` | challenge, answer, refresh, save, start again | single use under concurrency; a crash between enrolling and saving; answers that come late |
| Checkpoints (`services/checkpoint_access.py`, `api/leases.py`, `trainer/checkpoint.py`, `trainer/train.py`) | manifest and blobs in the object store, the trainer's loop and its upload thread | authorise a live lease, write blob, write manifest, resume, finish | the lease is checked before the body is received; trainers of fenced attempts run on |
| Trainer loop (`trainer/train.py`) | the machine's data cache, the ranks' orders of an epoch | download, verify, extract, publish, decode, shuffle, shard | trainers that share a cache are killed anywhere; each rank computes its share by itself |
| Training stream (`api/streaming.py`, `services/training.py`) | metric and log rows | connect, frame, retry, trim, poll, disconnect | the fence is checked at connect only; concurrent trims; ids committed out of order |
| Dataset uploads (`services/upload_sessions.py`, `api/datasets.py`, `services/datasets.py`) | session file, chunk files, dataset row, archive in the bucket | create, chunk, complete, discard, sweep, delete | complete races a late chunk, a sweep or a second complete; failures between the row and the archive |
| Dataset parsing (`services/dataset_archive.py`, `services/dataset_layout.py`) | none | validate, rearrange, count classes | the trainer reads the same archive by rules of its own |
| Users and roles (`services/users.py`, `api/users.py`) | user rows | create, update, disable, register | the last administrator is protected by check then act |
| Google sign-in (`services/google_oidc.py`, `api/auth.py`) | cache of Google's keys, `users.google_sub` | verify, fetch keys, bind, create an account | keys rotate under concurrent verifications; an address moves while it is bound |
| Rate limiting (`services/ratelimit.py`) | fixed windows per key | check | boundary of the window |
| Telemetry and metrics, installer, dashboard, bench, deployment, schema and migrations | - | - | I/O, presentation or pure data, see section 7 |

How they interact: agents call the orchestrator over HTTP; the scheduler pass,
the sweep and the detector are loops in the orchestrator process
(`services/loops.py`); everything shared is a row in PostgreSQL and is changed
in a transaction at READ COMMITTED.  Checkpoint writes and the training stream
trust the lease (`authorize_live_lease`) and the epoch: that trust is what
`FencedAttempts.tla` states.  A dataset reaches the trainer through the
bucket, named by its digest in the job's spec; an account or a node reaches a
handler through a token that was valid when the request arrived.

## 2. Modules

* `Leases.tla`: the core.  One action per transaction of the orchestrator.  A
  lease row is named `<<job, epoch, rank>>`, which is what the row is unique by.
  | State | Code |
  |---|---|
  | `jobState`, `jobEpoch`, `attempts`, `rendezvous` | `jobs.state`, `current_lease_epoch`, `failed_attempt_count`, `rendezvous_node_id` |
  | `leaseState`, `leaseNode` | `leases.state`, `leases.node_id`; `ABSENT` is a row not inserted yet |
  | `overdue` | live leases with `expires_at` in the past |
  | `nodeStatus`, `backoff`, `successes`, `failures` | `nodes.status`, `scheduling_backoff_until` in the future, the two counters |
  | `pass` | what a running `run_scheduler_pass` has locked and read, and how far it is |
  | `cancelStep`, `cancelSeen` | a running `cancel_job`: the job it loaded, the leases it read |

  A transaction that locks the rows it decides on is one action.  Two are
  split, because other transactions fit between their reads and their commit:
  the scheduler pass locks the jobs it places, reads the nodes, and with a
  statement of its own the busy leases (`SchedulerPassBegin`, `ReadBusyNodes`,
  `SchedulerPassCommit`), and the cancellation locks nothing until it writes.
  `SKIP LOCKED` is a choice of the rows that are skipped, whoever holds them.
  The clock is
  abstract: a lease may lapse and a backoff may end at any moment.  Which
  eligible cohort the scheduler prefers is left open (any cohort of distinct
  nodes behind one router is legal), and so is which nodes have stale
  heartbeats; that all ranks are placed or none, oldest job first, is not.
* `FencedAttempts.tla`: what that machinery promises, in two variables.  Each
  job has a fencing token and a set of nodes that hold it; a grant needs
  nobody to hold the job and takes the next token; holders only leave while
  the token lasts; no node holds two jobs.  `Leases!Attempts` maps
  `current_lease_epoch` to the token and the nodes of the live leases to the
  holders.
* `MCLeases.tla`: instances of `Leases` for TLC; `LeasesProofs.tla`: its proofs.
* `Agent.tla`: one peer, seen from the agent.  The orchestrator's side is this
  node's column of the lease table, offered, granted, settled or ended by
  somebody else.
  | State | Code |
  |---|---|
  | `executing`, `draining` | `executing_lease` of `run`, the module's `_draining` |
  | `awaiting`, `answer` | the request `_service_lease` awaits, and its answer |
  | `late` | requests the client gave up on that are still under way |
  | `task` | how far `run_lease_execution` has got for a lease |
  | `trainer` | what the container of a lease is really doing |
  | `serverState` | `leases.state` of this node's leases |

  The lease loop awaits one request at a time; the execution is a task beside
  it, and the launch is a thread beside that, which a cancellation does not
  reach.  A request can be lost, its answer can be lost, it can arrive after
  the agent has given up on it, and an answer can be an error that says
  nothing of the lease.  The agent can be killed or stopped and starts again
  without memory of its leases.  `Faults` names what the environment may do.
* `AgentProofs.tla`: proofs about `Agent`.
* `Fleet.tla`: a machine's life in the fleet.  `tokenState` and
  `enrolledWith` are the enrollment tokens and who used them; `status`,
  `decommissioned` and `silent` the node row and the age of its last heartbeat.
  An enrollment is in the steps of its transaction (`registering`, `presented`):
  it arrives, claims the token's row with a conditional UPDATE, which waits for
  whoever has written that row, creates the node, and commits or fails; a
  revocation holds the row in the same way (`revoking`).
  A request is authenticated when it arrives and takes effect when its
  transaction writes: `heartbeat[n]` is the status a heartbeat has loaded and
  `call` the requests in between.  `snapshot` is what the scheduler pass has
  read.  `lease` is reduced to whether the node holds one.
* `FleetProofs.tla`: proofs about `Fleet`.
* `Checkpoints.tla`: the checkpoints of one job over its attempts.
  | State | Code |
  |---|---|
  | `attempt`, `lease`, `done` | `current_lease_epoch`, the state of the attempt's leases, `COMPLETED` |
  | `phase`, `at` | how far the trainers of an attempt are in `train.py` `main`, and rank 0's epoch, batch and `global_step` |
  | `resumed` | the entry each rank's `latest_entry` returned |
  | `up` | rank 0's `pending_upload` and where `save_checkpoint` is |
  | `puts` | `write_checkpoint_object` requests that are authorised and not stored yet |
  | `blobs`, `manifest` | the objects in the store |

  Four more variables are history, which no action reads: `overdue` (writes
  still under way whose lease has ended or whose thread gave up on them),
  `strays` (what such writes brought into the manifest), `forgot` (ranks whose
  read failed although there was a checkpoint) and `unsaved` (checkpoints whose
  write failed).  The properties name with them the one cause they except.
  Trainers of an attempt run on after it has been fenced; nothing but the
  lease check stands between them and the store.  A write is two steps, the
  check and the storing, with everything else free to happen in between.
  Time is counted in checkpoint intervals.  The ranks of a cohort claim one
  after the other in `Leases`; here they start together, because their
  trainers wait for each other.
* `CheckpointsProofs.tla`: proofs about `Checkpoints`.
* `Output.tla`: what `Agent` takes as "the trainer ends and the task learns of
  it", seen from the threads.  `printed` and `kinds` are what the trainer has
  written, `pump` and `merged` the two reading threads and their common queue,
  `queue` and `exited` what the execution's task awaits, `sent` and `results`
  what it forwarded and parsed.  A pump, the stream and the trainer may break
  at any point.
* `Launch.tla`: what `Agent` takes as "the launch", for a whole cohort.  `client`
  is what an agent found of Docker at its start, `consents` its flag
  `--allow-unsandboxed`, `lan` whose address the orchestrator knows.  A trainer
  in `runs` carries where it will look for the others (`meets`): the network of
  its Docker host under the attempt's rendezvous id, or the address of rank 0.
  Attempts begin and end as they like, which `Leases` allows; trainers of old
  ones run on (`with` is the group one has formed), and `serves` is the attempt
  whose trainer an agent knows of, of which a restarted one knows none.
* `Identity.tla`: a machine's identity, between `state.json`, the agent's
  memory and the orchestrator's rows.  `challenge`, `sent`, `consuming` and
  `granted` follow a nonce from its issue to the tokens it minted, `reply` is an
  answer on its way, `agent` the process with its step, and `accidents` the
  identities the machine lost though they were good, which the properties
  except by name.  The clock is an integer here, because the margin before a
  token's end against the client's timeout is what is at stake.
* `Accounts.tla`: user rows under concurrent requests.  A request of
  `request` carries the row it loaded and, for an edit, the administrators it
  counted; it writes the columns it changed.  `holder` is who owns an address at
  Google, and may change.  A username is never changed, so it names its row.
* `Credentials.tla`: user tokens that are renewed from one another up to the
  longest session (`start` and `since` of a token), the window of attempts at
  signing in, and the cache of Google's keys with verifications that await it.
* `MCAccounts.tla`: the three above, as an instance for TLC.
* `AccessProofs.tla`: proofs about `Accounts`, `Identity` and `Credentials`.
* `Datasets.tla`: uploads.  `sess` and `chunks` are a session's directory, `puts`
  chunk requests past their check, `req` how far a completion or a direct upload
  has got between its awaits, `row`, `stored` and `deleting` the dataset's row,
  its archive, and deletions that have committed.  What stands between two
  awaits is one action.
* `DatasetsProofs.tla`: proofs about `Datasets`.
* `TrainerData.tla`: what becomes of a dataset on a machine.  `cache` and
  `decoded` are directories that trainers of several attempts and jobs share,
  `phase` how far each has got, `tainted` those whose download went wrong.
* `Archives.tla`: an archive as a set of files, with the validator's verdict
  (`Accepts`), the rearrangement (`RewriteArchive`) and the trainer's reading
  (`Loads`) as three separate sets of definitions, as in the code.
* `Sharding.tla`: a rank's part of an epoch, as functions of the shuffled order.
* `Suspicion.tla`: `evaluate_suspicion` over a node's intervals, in integers.
* `Placement.tla`: a scheduler pass over a queue in time: the order of jobs,
  groups of machines that share an address, and the deferral to a busy one.
* `MCPolicies.tla`: the five above and `Launch`, as an instance for TLC, with the
  properties that compare their operators with reference definitions.
* `PoliciesProofs.tla`: proofs about `TrainerData`, `Sharding`, `Suspicion`
  and `Archives`.
* `Transcript.tla`: the log rows of a job.  `tx` is the transaction that stores
  a frame, in the three statements of `record_log_line` (`RecordLogLine`,
  `ReadIdsToKeep`, `TrimLogLines`), with the ids it means to keep and those it
  deletes; `received` what a
  polling client was given.  `raced` and `overtaken` record which commits met
  another one, for the properties to except them and no others.
* `MCTelemetry.tla`: `Output` and `Transcript`, as an instance for TLC.
* `TelemetryProofs.tla`: proofs about both.

How they compose: `Leases` promises `FencedAttempts`.  `Agent` and
`Checkpoints` use of it what one node and one job see: a node has one live
lease (`Offer` of `Agent` requires it, `OneSlotPerNode` provides it), an
attempt has the next epoch and starts when the one before has no live lease
(`StartAttempt` of `Checkpoints`).  `Fleet` refines the node that `Leases`
takes as ONLINE or OFFLINE, `Suspicion` its verdict, `Placement` its choice of
a cohort, `Output` and `Launch` what `Agent` takes as one step, and `Identity`
how a machine gets to be one that `Fleet` knows.  `Datasets` promises
`TrainerData` an archive under a digest that nobody rewrites
(`AvailableIsStored`), and `Archives` one that loads (`StoredIsUsable`).
Modules that share an instance for TLC share no state: a variable `part` says
which one a behaviour is of.

Operators marked `mutant` are deliberate mistakes next to the definition they
replace; each is paired in `PROJECT.json` with a property that must fail when
the mistake is put in.

## 3. Properties

Every property is checked by a run of section 4.

`Leases`.  Safety: `LiveIsCurrent` (no lease of a superseded attempt can still
act), `WaitingHoldsNothing`, `IntactCohort` (an attempt never goes on with a
member missing, and the rendezvous host it is given is the node of its own rank
0, not that of an attempt before), `OneSlotPerNode`, `RetryBudget`, `ReliabilityLedger` (the
counters equal what the lease rows say).  Steps: `SettledLeasesStayPut`,
`BlameIsEarned` (a node is charged only for work it claimed or because it was
declared dead), `ImplementsFencedAttempts`, and `TerminalJobsStayPut`, which
the code does not keep.  Liveness: `LapsedLeasesResolve`, `JobsEnd`.

`Agent`.  `HonestCompletion` (a lease is COMPLETED only if its trainer exited
with 0), `OneExecution` (one execution under way or being stopped, never
both), `SettledIsOver` (a lease the agent has reported on has no trainer
running, unless it was reported FAILED by a task that Docker failed: the
launch's answer was lost, the log stream never opened, or the wait for the exit
code raised), `AbandonsOnlyLost` (an execution is cancelled only when its lease is over or an
answer was an error), `OffersAreTakenUp`, and `OneTrainer`, which the code does
not keep.

`Output`.  `ExecutionSettles`: once the trainer is gone the execution ends,
and one that settles normally has its summary and every line of the streams
that were read to their end.

`Launch`.  `AttemptsTrainOrEnd`: an attempt ends, or its ranks train with each
other and with nobody else.  Ranks that cannot meet, ranks taken into the group
of leftover trainers, and ranks whose agent has forgotten them do not hold a
cohort's machines for ever.

`Fleet`.  `TokenAdmitsOne` (a token is used exactly if it has enrolled a
machine, and then one, whatever enrollments, revocations and failures race for
its row), and in the end, whatever was in flight, `RemovedGoesQuiet` and
`HeartbeatsKeepOnline`.

`Identity`.  `IdentityHolds`, of four parts: a nonce mints once and for its
node, a machine has one place in the fleet, an agent runs as the node it will
start as again, and a heartbeat is refused only for cause.

`Checkpoints`, under every fault.  `EntriesAreStored` (the manifest never lists
a missing blob); `EntriesKept` (only an overdue write drops an entry that no
overdue write has brought); `LatestAdvances` (the latest checkpoint is followed
by one of less progress only by an overdue write, over a stray, or if the
writer's rank 0 could not read it); `CohortResumesTogether` (the ranks of an
attempt start alike, unless the read of one failed or one read a stray);
`CompletedKeepsModel` (a completed job's model can be downloaded, unless the
write of exactly that checkpoint failed or an overdue one came over it);
`TrainingEnds` (failing writes never keep the loop waiting).

`Datasets`, `TrainerData`, `Archives`, `Sharding`.  `AvailableIsStored` (a row
has its archive), `OrphansAreAccidents` (an archive has its row, but for
errors and crashes), `UploadsResolve`; `TrainsOnSubmitted` (a trainer never
trains on a partial or wrong tree); `StoredIsUsable` (what the validator lets
through the trainer can load, and a rearranged archive lost and doubled
nothing); `RanksStayInStep` (equal numbers of batches, no example left out).

`Suspicion`, `Placement`.  `VerdictIsTimely` (a stall of the acceptable pause is
forgiven, and a silence is detected by a stated time); `NobodyWaitsForEver` (a
job that could be placed is not passed over for ever, even if the run it would
defer to never ends).

`Transcript`.  `PollsMissOnlyOvertaken` (a polling client misses a line only if
a later one of another stream was committed first); `RetentionKeepsTail` (a
trim takes one of the newest lines only when another trim was on its way).

`Accounts`, `Credentials`.  `AdminsRemain` (the last administrator goes only by
edits that overlapped, by an edit of an account that became one after it was
read, or by the shell); `CredentialsAreCurrent` (sessions end, attempts are
limited in any window, a published key is found, and a bound account has the
address it was bound by).

## 4. Runs

| Run | Question | Bounds |
|---|---|---|
| `leases_cohort` | every safety property of a cohort; does the sweep alone resolve every lapsed lease, that of a rank that outlived its job too | 1 job, 2 ranks, 3 nodes of which one reports no address, 1 retry, 3 attempts: a failed, a lapsed and a final attempt in any order |
| `leases_contention` | do attempts of two jobs keep apart over time; what survives a cancellation; does a job end | 2 single-rank jobs, the first at home on one node only, the second cancellable and adaptive, 2 nodes, no retry, 2 attempts |
| `leases_terminal` | a statement of the code's comments it does not keep (section 6) | 1 job, 1 node |
| `agent_faults` | honesty, exclusion and liveness under every fault | 2 leases, 1 restart, every fault at once (of the link, launches, streams, waits for the exit code, stops) |
| `agent_second_trainer` | section 6 | 2 leases, no fault |
| `fleet` | enrollments that race for a token, heartbeats and removals in flight | 2 machines, 2 tokens |
| `checkpoints_late` | what is kept, resumed from and delivered with late, failed and abandoned requests | 2 ranks, 1 epoch of 1 interval, 2 attempts, every fault |
| `checkpoints_upload` | does training end although writes fail | 2 ranks, 2 epochs of 1 interval, 1 attempt, every fault |
| `datasets` | is every row backed, what can be orphaned, does an upload end | 1 session of 2 chunks, 2 finishing requests, 1 crash, any failing store or commit |
| `policies` | do the decisions the code takes by itself come out as they should | archives of up to 4 of 16 files, in every layout the code knows; cohorts of up to 4 over up to 4 shuffled indices; 3 trainers on one cache; 3 intervals of up to 7 s; 3 jobs, 3 machines, 9 s of a run; a 2-rank job, 2 agents of one Docker host, 2 attempts |
| `telemetry` | does an execution end with its output; what do retention and polling lose | 2 lines of stdout and 1 of stderr; 2 leases of 2 lines, 2 kept, pages of 1, 2 tries, 1 fault |
| `accounts` | can the last administrator be lost; do credentials end and lead to the right account; does a machine keep its identity | 4 usernames (2 founders), 2 addresses, 2 Google accounts, 2 requests at a time, 3 in all; 6 s of sessions and keys, 2 verifications, 2 rotations; 2 identities, 2 enrollment tokens, 2 nonces, 2 starts, 5 s |

`MaxEpoch`, `MaxLease`, `MaxRestarts`, `MaxAttempt`, `MaxCrashes`, `MaxCalls`,
`MaxNow`, `MaxClock`, `MaxStarts`, `MaxKey`, `MaxSilence`, `MaxIntervals`,
`MaxElapsed`, `LaunchLimit`, `MaxPrinted`, `MaxLines` and `MaxFaults` bound
histories in the models; all other bounds are sizes of constant sets.  Why they
are enough: the properties of `Agent` relate an old lease to the one after it;
a late write of `Checkpoints` meets the successor of its attempt, an interval
and the end of its epoch let a checkpoint wait for another, and two epochs let
one be skipped; the theorems take every size; two
finishing requests of `Datasets` race for one session or one name; two
administrators are the fewest that can demote each other; a third trainer finds
what two left in the cache; four files are a class in each of two splits, or one
class with its neighbours; with two lines kept of four, a trim has something
to take while another is on its way; an interval of 7 s is past the floor, the
bootstrap silence and the pause; 9 s of a run are past every estimate and the
time after which a run that overran is no longer worth waiting for.  Symmetry
is not used: the runs are small, and those with liveness could not.

`CHECK_DEADLOCK FALSE` stands in `fleet` (every token used, every machine
removed), `checkpoints_*` (the job is done or its attempts are used up),
`datasets` (every request answered), `policies` (a verdict has been given, the
jobs placed, the clock at its bound), `telemetry` (the trainer and its
execution have ended, all lines are kept and read) and `accounts` (calls or
clock used up): there the system may really stop.

Fairness.
* `Leases!OrchestratorFairness`.  The loops in `services/loops.py` catch every
  exception and run for the life of the process, so a sweep that stays possible
  happens (`WF SweepExpiredLeases`) and time passes (`WF TtlPasses`,
  `BackoffPasses`).  The scheduler pass is strongly fair for passes over fresh
  heartbeats in which nothing it wants is locked by somebody else
  (`SchedulerPassBegin({}, {})`, `ReadAllThereIs`, `PlaceAJob`): nodes go stale and
  come back, rows are skipped, and an iteration may fail, but not every one.
  `FairSpec` assumes nothing of agents; `JobsEnd` assumes live agents
  (`AgentFairness`) and a fleet that becomes stable, as no job can end on nodes
  that are always declared dead.  `LapsedLeasesResolve` needs `SweepSpec` only,
  the sweep by itself.
* `Agent!AgentRuns`.  asyncio runs every coroutine that can go on, Docker's
  calls and the stream's handshake return (the client has a timeout).  No
  trainer is assumed to exit.  `LinkRecovers`: a request that is repeated for
  ever is answered at last.
* `Fleet!Fairness`.  A request that has arrived is served, the loops run, a
  machine that stops sending falls silent, a lease nobody renews lapses.
* `Checkpoints!TrainersRun`.  The trainer's threads run; a request is
  answered, or the client's timeout of 120 s ends it.
* `Datasets!HandlersRun`.  A handler that is not waiting for its client goes on.
  `Persists` is about the client of an upload: it sends what is missing and
  completes again.  `NothingFailsForEver`: of the link, the insert, the storage
  and the commit, none fails every time it is tried.
* `MCPolicies`.  The clock and the scheduler's loop go on; no job is assumed to
  end.  For `Launch` three things happen (`GivesUp`, `GoneAreNoticed`,
  `SweepEndsAttempt`): a trainer that is alone ends, by the default timeout of
  torch's rendezvous (the code sets none) or by a collective that fails when a
  partner is gone; an agent learns that the trainer it watches has ended, and
  stops it once its lease is lost; the sweep ends an attempt that has a rank
  nobody claims or renews.
* `MCTelemetry`.  Each thread and the execution's task go on; nothing makes a
  trainer write or exit.

## 5. Proofs

`LeasesProofs.tla` proves, for every set of jobs and nodes, every cohort size,
retry limit and bound on attempts, that `TypeOK` and `IInv` hold in every
reachable state.  The safety properties are not inductive by themselves: that
a commit keeps `OneSlotPerNode` needs `SnapshotStillFree` (the free nodes of
the snapshot are still free, because nothing but a pass makes a node busy, and
the locked jobs still wait), that it keeps `LiveIsCurrent` when it mints an
epoch needs `WaitingHoldsNothing`, and this one, for a tear-down, needs
`LiveIsCurrent`, as only leases of the current epoch are released with their
siblings.  `CohortIsLive`, the first half of `IntactCohort`, needs to know that
live leases are ranks of the cohort (`LiveIsARank`) and that an attempt has been
minted (`AttemptMinted`).
The step proof rests on one observation: every step but a commit only takes
live leases away (`Shrinks`), and of those only `ReassignJobAttempts` moves
more than one job.  From the invariant follow the four safety theorems and the
refinement of `FencedAttempts`.  These cover cancellations: what breaks
under the cancellation race is the outcome recorded, never the exclusivity of
nodes or the fence.  On top of it `HostIsRankZero` (the rendezvous host a job
names is the node of its current rank 0), which with `CohortIsLive` makes
`IntactCohort`, and `RetriesAreBudgeted`.  That the two reads of a pass see
different instants does no harm: what the second finds busy is excluded, and
nothing but a pass makes a node busy after that (`PassIsReady`).  The books
are a further argument: every step settles some live leases as failed and some
as completed, and charges or credits exactly those (`StepCharges`,
`StepCredits`).  With `OneSlotPerNode` this is `BlameIsAlwaysEarned`, the
property `BlameIsEarned`.  `LedgerIsTrue` and `OutcomesAreFinal` are the
properties `ReliabilityLedger` and `SettledLeasesStayPut`; they assume that
nothing is cancelled (`Cancellable = {}`), as a cancellation overwrites what it
read, and need that a step leaves what is not live alone (`StepRests`) and that
a pass only opens rows of an epoch not yet minted (`UnmintedIsAbsent`).
`EndedJobsStayEnded` is the property `TerminalJobsStayPut` under the same
assumption, and `OnlyCancelOverwrites` says what remains of it without: the one
way out of a terminal state is a `cancel_job` that had read its rows before,
and it leads to CANCELLED.  So the disagreement of section 6 has no other cause.

`AgentProofs.tla` proves `TypeOK`, `HonestCompletion`, `OneExecution`,
`SettledIsOver` and `AbandonsOnlyLost` for any number of leases and restarts
and every fault.  Honesty needs the reports in flight (`ReportsAreTrue`: a
"complete" that is awaited, or that the agent gave up on, is of a trainer that
exited with 0), and for a report not to be overtaken by a new trainer of the
same lease, that nothing runs for a lease not yet granted (`UngrantedIsIdle`).
`OneExecution` needs that what the loop awaits fits what it is doing
(`LoopConsistent`): a claim is only under way when nothing executes or drains.
`SettledIsOver` needs that a report follows the end of its trainer or of its
task's sight of it (`ReportsAreLast`).

`FleetProofs.tla` proves `TypeOK` and that a token admits one machine
(`TokenAdmitsOne`), for any machines and tokens.  It needs that whoever has
claimed or is revoking a token holds its row alone and found it unused
(`RowsAreHeld`).  `RemovedMachinesWindDown` and
`QuietForGood` are the safety behind `RemovedGoesQuiet`: a removed machine is
authenticated no more, so what it had in flight only runs out; at most one
heartbeat, which had loaded OFFLINE, makes it ONLINE again; and when nothing in
flight knows it and it is OFFLINE and idle, it stays so.

`CheckpointsProofs.tla` proves, for any cohort, length of training and number
of attempts and every fault, `TypeOK` and `EntriesAreStored`.  The invariant
says that whoever is to write the manifest holds entries that are stored
(`WritesAreBacked`), which late writes cannot disturb, as blobs are never
deleted.  The other properties rest on a second invariant, `HistoryInv`, and
assume nothing of the faults either: what a fault did is in the history
variables, and the argument is about the rest.
* `OnlyLateStoresLoseEntries` (`EntriesKept`): of the writes that are not overdue
  there is one at a time, of the current attempt (`OnePutAtATime`), and its
  writer knows every entry of the manifest but strays (`WriterKnowsManifest`),
  although the trainer of an old attempt runs on.  So the lease check alone
  gives the single writer until a store is late; that the old rank 0 is dead,
  which `checkpoint.py` counts on, is not needed.
* `CohortsResumeTogether` (`CohortResumesTogether`): while the ranks of an attempt
  read, only overdue writes change the manifest, and each makes its own entry
  the latest (`RanksAgree`).
* `OnlyFaultsSetLatestBack` (`LatestAdvances`): the loop, the upload and the write
  under way are each past the latest checkpoint, unless it is a stray or rank 0
  forgot it (`WorkAdvances`).
* `CompletedJobsKeepTheirModel` (`CompletedKeepsModel`): the end of the last epoch
  is saved, is being saved, or is in `unsaved` (`FinalIsSaved`).

`DatasetsProofs.tla` proves `AvailableIsStored` and `OrphansAreAccidents` for any
uploads, requests and crashes.  `StagesTell` says what the row and the bucket
hold at each stage of a request (the order insert, store, commit), and
`DeletedFirst` that an object is removed only after its row.

`PoliciesProofs.tla`: `TrainersUseTheArchive` proves `TrainsOnSubmitted` for any trainers that share a machine's cache: by `DataInv`
a tree is absent or whole, because who extracts has verified and who finds a
tree leaves it.  Of the pure algorithms, TLC's inputs are a few; the proofs
take any:

* `EpochsAreShared`: any shuffle, batch size and cohort of up to twice as many
  ranks as examples (beyond, `DeviceBatches` has too few indices to pad with).
  `PaddedIs` and `ShardIs` say which index of the padded order a rank finds at
  each place, `BatchesAre` that cutting a shard loses nothing, and
  `NobodyIsLeftOut` that every example is at some rank's place.  `RanksKeepStep`
  is the property `RanksStayInStep`.
* `VerdictsAreTimely`, the property `VerdictIsTimely`: any intervals, window,
  threshold and floor.  A node is not declared failed for a pause it may take,
  and for certain once its silence exceeds its longest interval by what the
  spread of its intervals allows.  This needs the variance bounded by the range
  of the intervals (`VarianceWithin`: four times the variance is at most the
  square of the range), from the sums of the window and of its squares
  (`TotalWithin`, `SquaresWithin`), both by induction on its length, and the
  comparison of squares that stands for the root (`ForgivenInNumbers`,
  `DetectedInNumbers`).
* `AnyArchiveIsUsable`: any finite set of files, with any directories and
  labels.  Validator and trainer look at an archive through different
  eyes, which see the same of an archive that is stored as it came
  (`WrappedView`) and of one that was rearranged (`FlatView`); every class that
  is kept has images in both splits (`BothSplitsKeep`), and the rearranged files
  are those of the kept classes, each once (`RewrittenIs`, `NothingIsLost`).
  `StoredArchivesAreUsable` is the property `StoredIsUsable`.

`TelemetryProofs.tla` proves `RetentionKeepsTail` (`TrimsKeepTheTail`) and
`PollsMissOnlyOvertaken` (`PollsFollow`) for any leases and lines, retention and
page size, and `SettledTellsAll` (`SettledReportsAreComplete`) for any number of
lines.  Trimming is justified when the ids to keep are read, and must stay so
while the transaction is open: `TrimsAreJustified` counts, from that read on,
the newer ids, which only grow, and excepts those that were committed in between.  A client's
position is sound because a lease draws its ids in the order of its lines
(`LinesInOrder`) and whatever was committed below the position was either sent
or overtaken (`SentInOrder`).  For the output, `ReadIsOnItsWay` says where a line
is between the pump and the result, and `EndIsLast` that nothing follows the
mark at the end.

`AccessProofs.tla` proves, for any accounts, edits and number of requests,
`AdminsRemain` and `BindingFollowsAddress`.  `CountedOthers` says that an edit
about to take an administrator away has counted others unless its account was
none when it was read; `IntroducedByAddress` that a sign-in about to bind an
account had read the address.  It proves `IdentityHolds` for any nodes, nonces,
starts and durations: `UsedBeforeMinted` follows a nonce from its use to its
token, `SavedIsUsed` an identity from memory to disk, and `TokensLast` says that
while an agent rests or beats, its token outlasts the request under way.  This
one needs two client timeouts between the margin and the end of a token: with a
shorter margin a refresh in time may still be too late for a heartbeat.  And
`CredentialsStayCurrent` proves `CredentialsAreCurrent` for any durations and
limits: a renewed token carries the start of its session (`SessionsInv`); any
stretch as long as a window meets two windows of the limiter at most, each of
which lets through its allowance (`OneWindowEach`, `TwoWindowsPass`); and a key
that a verification has yet to find is held, or is older than all that are
published (`KeysInv`).

Assumed: `ConstantsAssumption`, `AgentAssumption`, `FleetAssumption`,
`CheckpointsAssumption`, `DatasetsAssumption`,
`AccountsAssumption`, `IdentityAssumption`, `CredentialsAssumption`,
`TranscriptAssumption`, `OutputAssumption`, `ArchivesAssumption`,
`SuspicionAssumption` (the constants are what their comments say; of the
durations, that they are positive and that `_REFRESH_MARGIN_SECONDS` and
`jwt_access_token_ttl_seconds` exceed two timeouts of the client, as the defaults
do many times; of the stride at which images are held out, that it is not 1,
which would hold out all).

Every invariant and every action property of a passing run is a theorem; the
only restriction is the one said above, that `ReliabilityLedger` and
`SettledLeasesStayPut` are proved, and checked, without cancellations.  Only
checked by TLC: the liveness properties (`LapsedLeasesResolve`, `JobsEnd`,
`OffersAreTakenUp`, `RemovedGoesQuiet`, `HeartbeatsKeepOnline`, `TrainingEnds`,
`UploadsResolve`, `NobodyWaitsForEver`, `AttemptsTrainOrEnd`, `ExecutionSettles`),
as temporal reasoning about fairness is out of the prover's reach.  Induction over a sequence is
done without the library's schemes, which the provers cannot instantiate: what
is shown is that a set of numbers contains all (`FromZeroUp`, from the least
element of its complement).

## 6. Where the code and its comments disagree

With a run:

* `leases_terminal`: `cancel_job` validates a transition on a row loaded
  without a lock and writes it by primary key; a job that completed meanwhile
  goes `COMPLETED -> CANCELLED`.
* `agent_second_trainer`: a lease is lost while its container is being
  launched.  The launch is a thread; cancelling the task ends the task and not
  the thread, `_draining` empties, the agent claims again, and the first
  container starts beside the second.

Met while modelling, without a run of their own.

Jobs and leases:
* `cancel_job` rewrites a lease that expired, failed or completed meanwhile as
  `RELEASED`, and leases inserted after it read stay live on the cancelled job
  until they lapse.  `SettledLeasesStayPut` fails in `leases_terminal`'s
  instance.
* A rank that has not claimed when a sibling completes the job is handed its
  slot afterwards: `claim_job_for_node` checks the epoch, not the job's state.
* A heartbeat that was authenticated before a removal sets the removed machine
  ONLINE, where the scheduler may choose it; the detector takes it out again
  (`RemovedGoesQuiet`).  A scheduler pass that read the nodes before a removal
  commits a lease for the removed machine, which `decommission_node` means to
  exclude.
* `_busy_free_in` counts a busy machine for a job that does not fit on it.  A
  job of several ranks can starve behind single-rank ones, and waits for ever
  if no group of machines shares a public address.
* An outage becomes one long interval of `evaluate_suspicion`'s history and
  delays the next verdict; the floor of 1e-12 under the tail probability caps
  phi at 12, so a higher threshold would never be reached.

Launching:
* Two Docker machines of a cohort that have not consented to processes, on
  different hosts, never meet; nor does a cohort of one that has and one that
  has not (one waits on its host's network, the other dials the LAN address),
  though the comment at `agent/main.py` 597 and `schemas/lease.py` 24-32 mean
  such cohorts to fall back; nor ranks that claim before and after the LAN
  address of rank 0 is known.
* Processes meet at an address that does not name the attempt: a rank of a new
  attempt can join the still running rank 0 of the old one.  Containers are
  safe from that: their rendezvous id names the attempt.  The name of rank 0's
  container is of the job: one left over makes the next attempt's launch fail,
  at the cost of a retry.  Either way the attempt ends (`AttemptsTrainOrEnd`).
* A daemon or an image that appears after the agent's start is not used.

Agent and output:
* If the launch's answer is lost, if the log stream cannot be opened, or if the
  wait for the exit code raises (`_wait_thread` makes exit code 1 of it), the
  lease is failed and the container runs on (the exceptions in
  `SettledIsOver`).
* Every error status of a renewal abandons the run, also a 401 or a 502 (the
  exception in `AbandonsOnlyLost`).
* A character of several bytes that two chunks of a container's log share is
  decoded wrongly.  `stop()` of a subprocess force-kills the tree only if the
  parent outlives the timeout, though its docstring says the whole tree.
* A 401 for an expired nonce counts as a rejection of the identity: with a
  fresh token at hand the machine enrols again, as a duplicate.  A crash or a
  lost answer between registration and `save_state` burns the token and leaves
  a node nobody is; `save_state` is not atomic.

Checkpoints and the trainer:
* A manifest write authorised for an attempt that then ends is stored over the
  manifest its successor has written since, and so is one whose client timed
  out: the exceptions for overdue writes and strays in `EntriesKept`,
  `LatestAdvances`, `CohortResumesTogether` and `CompletedKeepsModel`, which the
  docstring of `checkpoint_access.py` admits for the first.
* One rank whose read of the manifest fails starts at epoch 1 while the others
  resume, and the collectives pair up different epochs (`forgot` in
  `CohortResumesTogether`); if it is rank 0, its checkpoints of less progress
  become the latest (`forgot` in `LatestAdvances`).
* A failed write of the last checkpoint is logged, and the job completes without
  its final model (`unsaved` in `CompletedKeepsModel`).
* An interim checkpoint due during an upload is skipped, so on a slow link
  more than "at most N steps of work" has no checkpoint.
* A piece of a download cut in its body raises an error that is not among
  those retried, though the comment says a piece "is retried on its own".
* `_order` pads less than `DistributedSampler`, "exactly as" which it means to
  be, when there are fewer than half as many examples as ranks.  `HostBatches`
  shuffles on the CPU and `DeviceBatches` on its device: shards of a cohort
  that mixes them overlap.

Datasets:
* A dataset deleted between submission and start leaves the spec without a
  URL, and the trainer is given `DATASET=None`, which the comment at
  `docker_launcher.py` 214 rules out.
* The retry of a completion whose 201 was lost is answered 409 or 404 although
  the upload succeeded; a commit whose answer is lost can leave an orphan.
* The validator lets through what the trainer cannot load: a second root
  beside the wrapping directory (`__MACOSX`, another wrapper, a file), a wrapper
  that is itself named `train`, images nested below a class, an empty class
  directory.  Hence `OneRoot` in `StoredIsUsable`.  `.gif`, allowed by the comment
  at `dataset_archive.py` 59, is not read by `ImageFolder`.

Accounts and sign-in:
* Two administrators who demote each other at once leave none, and so does an
  edit of an account that was promoted after it was read, against the
  docstring of `LastAdminError` (the exceptions in `AdminsRemain`).
  `create_user.py --update` demotes without asking.
* An edit that moves an address while a sign-in binds the account leaves the
  former holder bound to it, which the comment at `users.py` 400 excludes.
  Two tabs at a first sign-in: the second may be refused (`SUBJECT_MISMATCH`),
  and a newcomer whose username is taken meanwhile is told there is no account.
* An older answer of Google's key endpoint can overwrite a newer one; the next
  unknown key mends it.

Transcript:
* `_trim_log_lines` deletes the newest line of a stream that committed after
  the trim had read (the exception in `RetentionKeepsTail`); a polling client's
  cursor skips a line whose transaction committed after one with a higher id
  (the exception in `PollsMissOnlyOvertaken`); a frame whose commit succeeded
  and was answered with an error is stored twice.

## 7. Not modelled

See `PROJECT.json` "components" for the reason of each part.  Inside the parts
that are modelled:

* Row locks: each transaction of `Leases` that locks what it decides on is one
  step, so that deadlocks PostgreSQL resolves by aborting are only possible
  failures of a step, not a subject.
* Scores of the policies and the normal distribution behind phi: real
  arithmetic.  `Placement` takes any ranking, `Suspicion` a number of
  deviations.
* `Agent`: durations, and with them what skewed clocks cost a renewal;
  self-update, which is a stop and restart while idle; `--release-after`, a
  path for tests.
* `Checkpoints`: the direct S3 path, which has no fence at all; a rank reads the
  manifest and its blob in one step, as blobs are never deleted; ranks that
  resumed from different epochs simply stop where their collectives no longer
  pair up.
* `Archives`: unsafe entries, sizes and limits on counts, which both readers
  refuse alike.  `Launch`: which of a container group's members gets which rank
  is torch's choice and changes nothing here.
* `Credentials`, `Identity`: signatures, password hashes and claims are taken as
  given.
* `Accounts`: deletion, which the API does not offer.

## 8. Plan

1. Proofs: what `Placement` promises a cohort as a safety property of its own;
   the refinement of `FencedAttempts` by what `Checkpoints` assumes of attempts.
2. The lock sequences of the transactions of `Leases`, with the aborts of
   PostgreSQL's deadlock detector and what the callers make of them.
3. A composition of `Leases` and `Agent` over the wire, so that `AgentFairness`
   becomes a theorem of the one about the other.
