----------------------------- MODULE MCPolicies -----------------------------
(***************************************************************************)
(* Instances for TLC of the decisions the code takes by itself: what is an *)
(* acceptable archive, how ranks share it, what a machine keeps of it,     *)
(* when a node counts as failed, where a job is placed and how its ranks   *)
(* are launched.  They share no state, so that a behaviour is one of one   *)
(* of them.                                                                *)
(***************************************************************************)
EXTENDS TrainerData, Archives, Sharding, Suspicion, Placement, Launch

VARIABLES
  part,     \* the decision a behaviour is about
  archive,  \* an archive as it was uploaded
  prepared, \* the upload of it is over
  kept,     \* and this was stored
  epoch     \* an epoch of a cohort: the shuffled indices, ranks, batch size

pureVars == <<archive, prepared, kept, epoch>>
vars == <<part, pureVars, dataVars, heartVars, placeVars, launchVars>>

Parts == {"data", "archive", "epoch", "heart", "place", "launch"}

-----------------------------------------------------------------------------
(* Files that between them have every layout the code knows of. *)
File(dirs, number, label, kind) == [dirs |-> dirs, number |-> number, label |-> label, kind |-> kind]

FilePool ==
  {File(<<"train", "a">>, n, NoLabel, "image") : n \in {1, 2}}
  \cup {File(<<"train", "b">>, n, NoLabel, "image") : n \in {3, 4}}
  \cup {File(<<"test", "a">>, 5, NoLabel, "image"), File(<<"test", "b">>, 6, NoLabel, "image"),
        File(<<"w", "train", "a">>, 7, NoLabel, "image"), File(<<"w", "test", "a">>, 8, NoLabel, "image"),
        File(<<"val">>, 9, "a", "image"), File(<<"train", "b">>, 10, NoLabel, "gif"),
        File(<<"train", "a">>, 11, NoLabel, "other"), File(<<"train", "pred", "a">>, 12, NoLabel, "image"),
        File(<<>>, 13, NoLabel, "other"), File(<<"train", "test", "b">>, 14, NoLabel, "image"),
        File(<<"train">>, 15, "a", "image"), File(<<"litter">>, 16, NoLabel, "litter")}

Archived == UNION {kSubset(k, FilePool) : k \in 0 .. 4}

Shuffles == UNION {{o \in [1 .. n -> 1 .. n] : IsInjective(o)} : n \in 1 .. 4}

Epochal == [order : Shuffles, world : 1 .. 4, size : 1 .. 2]

NoEpoch == [order |-> <<1>>, world |-> 1, size |-> 1]

Init ==
  /\ part \in Parts
  /\ archive \in (IF part = "archive" THEN Archived ELSE {{}}) /\ kept = {} /\ prepared = FALSE
  /\ epoch \in (IF part = "epoch" THEN Epochal ELSE {NoEpoch})
  /\ DataInit /\ SuspicionInit /\ PlacementInit
  /\ LaunchInit
  /\ part # "place" => measured = {}
  /\ part # "launch" => consents = {} /\ docker = {} /\ image = {}

(* The upload is prepared for storage (_validate_and_store). *)
Prepare ==
  /\ ~prepared /\ prepared' = TRUE /\ kept' = PrepareArchive(archive)
  /\ UNCHANGED <<archive, epoch>>

Next ==
  /\ UNCHANGED part
  /\ \/ part = "data" /\ DataNext /\ UNCHANGED <<pureVars, heartVars, placeVars, launchVars>>
     \/ part = "archive" /\ Prepare /\ UNCHANGED <<dataVars, heartVars, placeVars, launchVars>>
     \/ part = "heart" /\ SuspicionNext /\ UNCHANGED <<pureVars, dataVars, placeVars, launchVars>>
     \/ part = "place" /\ PlacementNext /\ UNCHANGED <<pureVars, dataVars, heartVars, launchVars>>
     \/ part = "launch" /\ LaunchNext /\ UNCHANGED <<pureVars, dataVars, heartVars, placeVars>>

(* Time passes and passes run; nothing makes a job end. *)
Placing(A) ==
  part = "place" /\ A /\ UNCHANGED <<part, pureVars, dataVars, heartVars, launchVars>>

(* Trainers do not wait for ever, agents notice, and the sweep runs.       *)
Launching(A) ==
  part = "launch" /\ A /\ UNCHANGED <<part, pureVars, dataVars, heartVars, placeVars>>

Fairness ==
  /\ WF_vars(Placing(Tick)) /\ WF_vars(Placing(SchedulerPass))
  /\ WF_vars(Launching(GivesUp)) /\ WF_vars(Launching(GoneAreNoticed))
  /\ WF_vars(Launching(SweepEndsAttempt))

Spec == Init /\ [][Next]_vars /\ Fairness

-----------------------------------------------------------------------------
(* Jobs, machines: a quick one and a slow one, and one somewhere else. *)
CONSTANTS quick, slow, far, here, there

ThreeJobs == <<1, 2, 3>>
EpochsOf == [j \in 1 .. 3 |-> IF j = 3 THEN 2 ELSE 1]
WorldOf == [j \in 1 .. 3 |-> IF j = 2 THEN 2 ELSE 1]
CapableOf == [j \in 1 .. 3 |-> IF j = 1 THEN {slow} ELSE Machines]
RateOf == [n \in Machines |-> IF n = quick THEN 1 ELSE 3]
SiteOf == [n \in Machines |-> IF n = far THEN there ELSE here]

\* Two agents on one Docker host.
CONSTANTS left, right, box

HostOf == [a \in Peers |-> box]

-----------------------------------------------------------------------------
(* An archive both readers understand alike: one root, and nothing in it   *)
(* but images torchvision reads, each in a class of a split.               *)
OneRoot(files) ==
  \E root \in {<<>>} \cup {<<w>> : w \in {"w", "test"}} :
    \A f \in files :
      /\ f.kind = "image" /\ IsPrefix(root, f.dirs) /\ Len(f.dirs) = Len(root) + 2
      /\ f.dirs[Len(root) + 1] \in Splits

Finds(files, split, class) ==
  {f.number : f \in {g \in Below(files, split) : Len(g.dirs) = 2 /\ g.dirs[2] = class}}

Numbers(files) == {f.number : f \in files}

(* What a rearranged archive holds of a class is every labelled image of   *)
(* it, once, and those that came as test images are tested on.             *)
NothingLost(files, rearranged, class) ==
  LET train == Finds(rearranged, "train", class)
      test == Finds(rearranged, "test", class)
  IN /\ train # {} /\ test # {} /\ train \cap test = {}
     /\ train \cup test = Numbers({f \in Classified(files) : LabelOf(f) = class})
     /\ Numbers(Found(files, "test", class)) \subseteq test

(* An archive that is stored is one the trainer can load, with as many     *)
(* classes as its job is told of; one that is stored rearranged has lost   *)
(* and doubled nothing, and one that can be rearranged is not refused.     *)
StoredIsUsable ==
  /\ kept # {} /\ kept = archive /\ OneRoot(archive) => Loads(kept)
  /\ kept # {} /\ kept # archive /\ (\A f \in kept : f.kind = "image") =>
       /\ Loads(kept) /\ Summarized(kept) = KeptClasses(archive)
       /\ \A class \in Summarized(kept) : NothingLost(archive, kept, class)
  /\ /\ prepared /\ KeptClasses(archive) # {}
     /\ Cardinality(KeptClasses(archive)) \in MinClasses .. MaxClasses
     => kept # {}

(* The ranks of a cohort run as many steps as each other, and as many as   *)
(* they count on for their checkpoints, so that none waits for a gradient  *)
(* nobody sends, and between them they leave out no example.               *)
RanksStayInStep ==
  LET n == Len(epoch.order)
      ranks == 0 .. epoch.world - 1
  IN epoch.world <= 2 * n =>
       /\ \A r \in ranks : Len(Batches(Shard(epoch.order, r, epoch.world), epoch.size))
                             = BatchCount(n, epoch.world, epoch.size)
       /\ UNION {Trained(epoch.order, r, epoch.world, epoch.size) : r \in ranks} = 1 .. n

(* Both bounds on a verdict. *)
VerdictIsTimely == PauseIsForgiven /\ SilenceIsDetected
=============================================================================
