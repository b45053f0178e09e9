------------------------------- MODULE Launch -------------------------------
(***************************************************************************)
(* How the ranks of a job become trainers that find each other.            *)
(*                                                                         *)
(* An agent decides at its start whether it can use Docker, and at a claim *)
(* whether the trainer is a container or a child process.  Containers meet *)
(* on a network of their Docker host under the attempt's rendezvous id;    *)
(* processes at the address of rank 0's machine.  Trainers of an attempt   *)
(* that is over run on until their agent notices, or for ever if it was    *)
(* restarted.  What attempts do otherwise is in Leases and Agent.          *)
(***************************************************************************)
EXTENDS Naturals, FiniteSets, Functions

CONSTANTS
  Peers,        \* machines' agents
  Host,         \* the Docker host an agent uses
  Cohort,       \* ranks of the job
  LaunchLimit,  \* bound on the attempts
  Unplaced      \* no agent

ASSUME LaunchAssumption ==
  /\ LaunchLimit \in Nat /\ Unplaced \notin Peers
  /\ 0 \in Cohort /\ DOMAIN Host = Peers

VARIABLES
  consents,  \* agents started with --allow-unsandboxed
  docker,    \* Docker hosts whose daemon answers
  image,     \* Docker hosts that have the trainer image
  client,    \* what an agent found at its start
  lan,       \* agents whose LAN address the orchestrator knows
  try,       \* the attempt
  placed,    \* the agent of each rank of it
  unclaimed, \* its ranks that have not been claimed
  over,      \* it has failed, or none has begun
  runs,      \* trainers
  serves     \* the attempt an agent knows to run a trainer of, or 0

hostVars == <<consents, docker, image, client, lan>>
tryVars == <<try, placed, unclaimed, over>>
launchVars == <<hostVars, tryVars, runs, serves>>

Hosts == Range(Host)

LaunchTypeOK ==
  /\ consents \subseteq Peers /\ docker \subseteq Hosts /\ image \subseteq Hosts /\ lan \subseteq Peers
  /\ client \in [Peers -> {"off", "docker", "none"}]
  /\ try \in 0 .. LaunchLimit /\ placed \in [Cohort -> Peers \cup {Unplaced}]
  /\ unclaimed \subseteq Cohort /\ over \in BOOLEAN
  /\ \A t \in runs : /\ t.rank \in Cohort /\ t.peer \in Peers /\ t.of \in 1 .. try
                     /\ t.how \in {"container", "process"} /\ t.with \subseteq (1 .. try) \X Cohort
  /\ serves \in [Peers -> 0 .. LaunchLimit]

LaunchInit ==
  /\ consents \in SUBSET Peers /\ docker \in SUBSET Hosts /\ image \in SUBSET Hosts
  /\ client = [p \in Peers |-> "off"] /\ lan = {}
  /\ try = 0 /\ placed = [r \in Cohort |-> Unplaced] /\ unclaimed = {} /\ over = TRUE
  /\ runs = {} /\ serves = [p \in Peers |-> 0]

-----------------------------------------------------------------------------
(* What an agent can run.  A pull brings the image, or fails and changes   *)
(* nothing.                                                                *)
RefreshTrainerImage(h) == {image, image \cup {h}}

(* "Docker is installed" and "Docker can run our trainer" are different.   *)
TrainerImageAvailable(h, images) == h \in images

\* Whether a child process takes its place is decided by consent, at a claim.
HandleMissingTrainerImage == "none"

(* Decided once: a daemon or an image that comes later is not looked for.  *)
StartAgent(p) ==
  /\ client[p] = "off"
  /\ IF Host[p] \in docker
       THEN \E images \in RefreshTrainerImage(Host[p]) :
              /\ image' = images
              /\ client' = [client EXCEPT ![p] =
                   IF TrainerImageAvailable(Host[p], images) THEN "docker" ELSE HandleMissingTrainerImage]
       ELSE client' = [client EXCEPT ![p] = "none"] /\ UNCHANGED image
  /\ UNCHANGED <<consents, docker, lan, tryVars, runs, serves>>

(* A crash.  The trainer goes on; a child process may die with its parent. *)
StopAgent(p) ==
  /\ client[p] # "off" /\ client' = [client EXCEPT ![p] = "off"]
  /\ serves' = [serves EXCEPT ![p] = 0]
  /\ runs' \in {runs, {t \in runs : t.peer # p \/ t.how # "process"}}
  /\ UNCHANGED <<consents, docker, image, lan, tryVars>>

KeepTrainerImageFresh(p) ==
  /\ client[p] = "docker" /\ Host[p] \in docker
  /\ image' \in RefreshTrainerImage(Host[p])
  /\ UNCHANGED <<consents, docker, client, lan, tryVars, runs, serves>>

(* Somebody stops or starts a daemon, which takes its containers along, or *)
(* removes the image.                                                      *)
HostChanges(h) ==
  /\ \/ h \in docker /\ docker' = docker \ {h} /\ UNCHANGED image
        /\ runs' = {t \in runs : Host[t.peer] # h \/ t.how # "container"}
     \/ h \notin docker /\ docker' = docker \cup {h} /\ UNCHANGED <<image, runs>>
     \/ h \in docker \cap image /\ image' = image \ {h} /\ UNCHANGED <<docker, runs>>
  /\ UNCHANGED <<consents, client, lan, tryVars, serves>>

(* An agent reports its LAN address with its heartbeats. *)
ReportLanAddress(p) ==
  /\ client[p] # "off" /\ p \notin lan /\ lan' = lan \cup {p}
  /\ UNCHANGED <<consents, docker, image, client, tryVars, runs, serves>>

-----------------------------------------------------------------------------
(* As far as launching is concerned, any agents may be chosen, and an      *)
(* attempt may end at any time.                                            *)
BeginAttempt ==
  /\ over /\ try < LaunchLimit
  /\ try' = try + 1 /\ over' = FALSE /\ unclaimed' = Cohort
  /\ placed' \in {f \in [Cohort -> Peers] : IsInjective(f)}
  /\ UNCHANGED <<hostVars, runs, serves>>

EndsAttempt == over' = TRUE /\ unclaimed' = {}

AttemptEnds ==
  /\ ~over /\ EndsAttempt
  /\ UNCHANGED <<hostVars, try, placed, runs, serves>>

-----------------------------------------------------------------------------
Ddp == Cardinality(Cohort) > 1

(* With the claim comes rank 0's address, if it is known by then. *)
HostAddress == IF Ddp /\ placed[0] \in lan THEN placed[0] ELSE Unplaced

RdzvId(a) == a

(* "Containers only reach each other on one host." *)
Unsandboxed(p) ==
  client[p] = "none" \/ (p \in consents /\ Ddp /\ HostAddress # Unplaced)

(* Where a trainer looks for the others: containers on their own host's    *)
(* network, processes at the one address.  The rest of what they are given *)
(* is the same for both.                                                   *)
BuildRunKwargs(p, how) ==
  IF how = "container" THEN [at |-> Host[p], id |-> RdzvId(try)]
                       ELSE [at |-> HostAddress, id |-> 0]

(* Rank 0's container has the job's name, which a container of an attempt  *)
(* before may have still.                                                  *)
NameTaken(p, r) ==
  /\ Ddp /\ r = 0
  /\ \E t \in runs : t.rank = 0 /\ t.how = "container" /\ Host[t.peer] = Host[p]

MayLaunch(p, r, how) ==
  IF how = "process"
    THEN p \in consents /\ (Ddp => HostAddress # Unplaced)
    ELSE Host[p] \in docker /\ ~NameTaken(p, r)

(* The claim and the launch that follows it.  Docker pulls an image that   *)
(* has gone.  A launch may fail for other reasons too (no trainer script,  *)
(* no GPU runtime); it is then reported, which ends the attempt.           *)
ServiceLease(r) ==
  LET p == placed[r]
      how == IF Unsandboxed(p) THEN "process" ELSE "container"
  IN /\ r \in unclaimed /\ client[p] # "off" /\ serves[p] = 0
     /\ \/ /\ MayLaunch(p, r, how)
           /\ unclaimed' = unclaimed \ {r} /\ UNCHANGED over
           /\ image' = IF how = "container" THEN image \cup {Host[p]} ELSE image
           /\ serves' = [serves EXCEPT ![p] = try]
           /\ runs' = runs \cup {[of |-> try, rank |-> r, peer |-> p, how |-> how,
                                  meets |-> BuildRunKwargs(p, how), with |-> {}]}
        \/ EndsAttempt /\ UNCHANGED <<image, serves, runs>>
     /\ UNCHANGED <<consents, docker, client, lan, try, placed>>

(* The first rank 0 on a machine holds the port. *)
Listens(t) ==
  /\ t.meets.at = t.peer
  /\ \A u \in runs : u.how = "process" /\ u.rank = 0 /\ u.peer = t.peer => t.of <= u.of

(* env:// or torchrun: the group is formed once every rank is there,       *)
(* whatever attempt they are of.                                           *)
JoinGroup(group) ==
  /\ \A t \in group : t.with = {} /\ \A u \in group : t.meets = u.meets /\ t.how = u.how
  /\ {t.rank : t \in group} = Cohort /\ Cardinality(group) = Cardinality(Cohort)
  /\ \A t \in group : t.how = "process" /\ t.rank = 0 => Listens(t)
  /\ runs' = (runs \ group) \cup {[t EXCEPT !.with = {<<u.of, u.rank>> : u \in group}] : t \in group}
  /\ UNCHANGED <<hostVars, tryVars, serves>>

(* A trainer ends, or its agent learns that the lease is lost and stops    *)
(* it; one that the agent still knows of is reported, if it is current.    *)
TrainerEnds(t) ==
  /\ runs' = runs \ {t}
  /\ serves' = [serves EXCEPT ![t.peer] = IF @ = t.of THEN 0 ELSE @]
  /\ IF serves[t.peer] = t.of /\ t.of = try /\ ~over
       THEN EndsAttempt
       ELSE UNCHANGED <<over, unclaimed>>
  /\ UNCHANGED <<hostVars, try, placed>>

\* Its container went with the daemon: the wait fails, and so does the lease.
TrainerIsGone(p) ==
  /\ serves[p] # 0 /\ ~\E t \in runs : t.peer = p /\ t.of = serves[p]
  /\ serves' = [serves EXCEPT ![p] = 0]
  /\ IF serves[p] = try /\ ~over THEN EndsAttempt ELSE UNCHANGED <<over, unclaimed>>
  /\ UNCHANGED <<hostVars, try, placed, runs>>

LaunchNext ==
  \/ \E p \in Peers : \/ StartAgent(p) \/ StopAgent(p) \/ KeepTrainerImageFresh(p)
                      \/ ReportLanAddress(p) \/ TrainerIsGone(p)
  \/ \E h \in Hosts : HostChanges(h)
  \/ BeginAttempt \/ AttemptEnds
  \/ \E r \in Cohort : ServiceLease(r)
  \/ \E group \in SUBSET runs : JoinGroup(group)
  \/ \E t \in runs : TrainerEnds(t)

-----------------------------------------------------------------------------
(* What is bound to happen.  A trainer does not wait for its group for     *)
(* ever, torch's and torchrun's default timeouts end it; nor does it go on *)
(* without its partners, a collective fails when one is gone; and an agent *)
(* stops the trainer it knows of when the attempt is over.                 *)
Alone(t) == t.with = {} \/ \E m \in t.with : ~\E u \in runs : m = <<u.of, u.rank>>
Stopped(t) == serves[t.peer] = t.of /\ (over \/ t.of < try)

GivesUp == \E t \in runs : (Alone(t) \/ Stopped(t)) /\ TrainerEnds(t)

OffersOnly == unclaimed # {}                                             \* mutant
Unattended == unclaimed # {} \/ \E r \in Cohort : serves[placed[r]] # try

\* The sweep ends an attempt of which a rank is not claimed or not renewed.
SweepEndsAttempt == AttemptEnds /\ Unattended

GoneAreNoticed == \E p \in Peers : TrainerIsGone(p)

(* An attempt ends, or its ranks train together, and nobody else with      *)
(* them: not for ever half of a cohort in containers and half outside, nor *)
(* its ranks in the groups of leftover trainers, nor a crashed agent's     *)
(* rank that nobody answers for (rendezvous_wiring, multi_machine_         *)
(* environment, sweep_expired_leases).                                     *)
TrainsTogether == \A r \in Cohort : \E t \in runs : t.of = try /\ t.rank = r /\ t.with = {try} \X Cohort

AttemptsTrainOrEnd == ~over ~> over \/ TrainsTogether
=============================================================================
