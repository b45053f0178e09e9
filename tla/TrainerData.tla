----------------------------- MODULE TrainerData ----------------------------
(***************************************************************************)
(* The data of a job that names an uploaded dataset, on one machine.       *)
(*                                                                         *)
(* The trainers of its attempts, and of other jobs on the same dataset,    *)
(* share the machine's data cache, which is keyed by the digest of the     *)
(* archive.  They are killed at any point and start in any order, while    *)
(* the dataset may be deleted by its owner.                                *)
(***************************************************************************)
EXTENDS Naturals

CONSTANTS Trainers  \* trainer processes that may run at once

VARIABLES
  dataset,  \* the dataset's row
  stored,   \* its archive is in the bucket
  job,      \* a job that names it: looked up, or created
  phase,    \* how far a trainer is
  tainted,  \* trainers that received bytes which are not the archive's
  cache,    \* the extracted dataset in the machine's data cache
  decoded   \* the decoded arrays beside it

jobVars == <<dataset, stored, job>>
dataVars == <<jobVars, phase, tainted, cache, decoded>>

Trees == {"none", "partial", "wrong", "whole"}
Phases == {"idle", "fetch", "extract", "publish", "load", "decode", "train", "failed"}

DataTypeOK ==
  /\ dataset \in {"available", "deleted"} /\ stored \in BOOLEAN
  /\ job \in {"none", "checked", "created"}
  /\ phase \in [Trainers -> Phases] /\ tainted \subseteq Trainers
  /\ cache \in Trees /\ decoded \in Trees

DataInit ==
  /\ dataset = "available" /\ stored = TRUE /\ job = "none"
  /\ phase = [p \in Trainers |-> "idle"] /\ tainted = {}
  /\ cache = "none" /\ decoded = "none"

-----------------------------------------------------------------------------
(* A submission looks the dataset up, and commits the job after an await.  *)
SubmitJob ==
  /\ job = "none" /\ dataset = "available" /\ job' = "checked"
  /\ UNCHANGED <<dataset, stored, phase, tainted, cache, decoded>>

CreateJob ==
  /\ job = "checked" /\ job' = "created"
  /\ UNCHANGED <<dataset, stored, phase, tainted, cache, decoded>>

(* The row first; the archive goes after, if storage answers. *)
RetireDataset ==
  /\ dataset = "available" /\ dataset' = "deleted"
  /\ stored' \in BOOLEAN
  /\ UNCHANGED <<job, phase, tainted, cache, decoded>>

Goes(p, to) == phase' = [phase EXCEPT ![p] = to]

(* The claim attaches the dataset's URL and digest while the row is there. *)
Fetchable == dataset = "available"

(* A trainer without a URL fails; a tree under the digest is trusted.      *)
StartTrainer(p) ==
  /\ job = "created" /\ phase[p] = "idle"
  /\ Goes(p, IF ~Fetchable THEN "failed" ELSE IF cache # "none" THEN "load" ELSE "fetch")
  /\ UNCHANGED <<jobVars, tainted, cache, decoded>>

(* Every piece of a download is a request that looks the row up again.     *)
Readable == dataset = "available" /\ stored

(* A piece may not be what was stored: truncated, or of another archive.   *)
PieceDiffers(p) ==
  /\ phase[p] = "fetch" /\ Readable
  /\ tainted' = tainted \cup {p}
  /\ UNCHANGED <<jobVars, phase, cache, decoded>>

(* The last try of a piece, or a body cut short, ends the trainer. *)
DownloadFails(p) ==
  /\ phase[p] = "fetch" /\ Goes(p, "failed")
  /\ UNCHANGED <<jobVars, tainted, cache, decoded>>

Unverified(p) == TRUE                                                    \* mutant
Verified(p) == p \notin tainted

(* The last piece, and the digest of them all. *)
DownloadAndVerify(p) ==
  /\ phase[p] = "fetch" /\ Readable
  /\ Goes(p, IF Verified(p) THEN "extract" ELSE "failed")
  /\ UNCHANGED <<jobVars, tainted, cache, decoded>>

InPlace(tree) == IF tree = "none" THEN "partial" ELSE tree               \* mutant
Staged(tree) == tree

(* Extraction and decoding fill a staging directory; the rename that puts  *)
(* it in place fails if another trainer's is there, which is used instead. *)
SafeExtract(p) ==
  /\ phase[p] = "extract"
  /\ Goes(p, "publish") /\ cache' = Staged(cache)
  /\ UNCHANGED <<jobVars, tainted, decoded>>

Renamed(tree, new) == IF tree \in {"wrong", "whole"} THEN tree ELSE new

PublishExtracted(p) ==
  /\ phase[p] = "publish"
  /\ Goes(p, "load")
  /\ cache' = Renamed(cache, IF p \in tainted THEN "wrong" ELSE "whole")
  /\ UNCHANGED <<jobVars, tainted, decoded>>

(* Decoded arrays that are there are trusted too. *)
LoadDecoded(p) ==
  /\ phase[p] = "load" /\ decoded # "none"
  /\ Goes(p, "train")
  /\ UNCHANGED <<jobVars, tainted, cache, decoded>>

DecodeSplits(p) ==
  /\ phase[p] = "load" /\ decoded = "none"
  /\ Goes(p, "decode") /\ decoded' = Staged(decoded)
  /\ UNCHANGED <<jobVars, tainted, cache>>

PublishDecoded(p) ==
  /\ phase[p] = "decode"
  /\ Goes(p, "train") /\ decoded' = Renamed(decoded, cache)
  /\ UNCHANGED <<jobVars, tainted, cache>>

(* A trainer ends, killed or done, at any point; another may start later.  *)
TrainerGone(p) ==
  /\ phase[p] # "idle" /\ Goes(p, "idle")
  /\ tainted' = tainted \ {p}
  /\ UNCHANGED <<jobVars, cache, decoded>>

DataNext ==
  \/ SubmitJob \/ CreateJob \/ RetireDataset
  \/ \E p \in Trainers :
       \/ StartTrainer(p) \/ PieceDiffers(p) \/ DownloadFails(p) \/ DownloadAndVerify(p)
       \/ SafeExtract(p) \/ PublishExtracted(p)
       \/ LoadDecoded(p) \/ DecodeSplits(p) \/ PublishDecoded(p) \/ TrainerGone(p)

DataSpec == DataInit /\ [][DataNext]_dataVars

-----------------------------------------------------------------------------
(* "A rank that finds the final directory always finds a complete one" and *)
(* "a crash or a racing rank never leaves a half-written cache that a      *)
(* later run would trust": whoever trains does so on the whole archive     *)
(* that was validated, however many trainers race, die or are cut off.     *)
TrainsOnSubmitted ==
  \A p \in Trainers : phase[p] = "train" => cache = "whole" /\ decoded = "whole"
=============================================================================
