---------------------------- MODULE Checkpoints -----------------------------
(***************************************************************************)
(* The checkpoints of one job: the trainers of its attempts save them      *)
(* through the orchestrator into an object store, and the ranks of a later *)
(* attempt resume from the one the manifest calls latest.                  *)
(*                                                                         *)
(* A write is authorised against the lease when its request arrives and    *)
(* reaches the store later; the store takes whatever it is given.  Steps   *)
(* are counted in checkpoint intervals, so every step is due a checkpoint. *)
(***************************************************************************)
EXTENDS Naturals, FiniteSets

CONSTANTS
  Ranks,       \* the ranks of the cohort; rank 0 writes
  Epochs,      \* EPOCHS of the job
  Intervals,   \* checkpoint intervals in an epoch
  MaxAttempt,  \* bound on the attempts of the job
  Faults       \* what may go wrong besides crashes: "late", "read", "write"

ASSUME CheckpointsAssumption ==
  /\ 0 \in Ranks /\ Epochs \in Nat \ {0} /\ Intervals \in Nat \ {0}
  /\ MaxAttempt \in Nat \ {0}
  /\ Faults \subseteq {"late", "read", "write"}

VARIABLES
  attempt,   \* jobs.current_lease_epoch
  lease,     \* state of the leases of each attempt, which change together
  done,      \* the job is COMPLETED
  phase,     \* how far the trainers of an attempt are
  resumed,   \* the entry each rank of an attempt started from
  at,        \* where the loop of an attempt is
  up,        \* rank 0's upload thread
  puts,      \* writes authorised and not stored yet
  blobs,     \* checkpoint objects in the store
  manifest   \* the manifest object: entries and the latest of them

\* What the program cannot see and the properties speak of.
VARIABLES
  overdue,   \* writes whose lease ended, or which the thread gave up on
  strays,    \* entries that overdue writes put into the manifest
  forgot,    \* ranks whose read failed although there was a checkpoint
  unsaved    \* checkpoints whose write, or the read before it, failed

jobVars == <<attempt, lease, done>>
loopVars == <<phase, resumed, at>>
storeVars == <<puts, blobs, manifest>>
history == <<overdue, strays, forgot, unsaved>>
vars == <<jobVars, loopVars, up, storeVars, history>>

Attempts == 1 .. MaxAttempt

\* A checkpoint, which is also its key: no two saves share all three fields.
Entry == [by : Attempts, step : Nat, epoch : Nat]

\* Nothing to resume from: the first epoch, no steps.
Fresh == [by |-> 0, step |-> 0, epoch |-> 1]
Unread == [Fresh EXCEPT !.epoch = 0]

Idle == [pc |-> "idle", entry |-> Fresh, base |-> {}]

Position == [epoch : Nat, batch : Nat, step : Nat]
Upload == [pc : {"idle", "blob", "read", "manifest"},
           entry : Entry \cup {Fresh}, base : SUBSET Entry]
Request == [by : Attempts, kind : {"blob", "manifest"}, entry : Entry,
            entries : SUBSET Entry]

TypeOK ==
  /\ attempt \in 0 .. MaxAttempt
  /\ lease \in [Attempts -> {"NONE", "ACTIVE", "ENDED"}]
  /\ done \in BOOLEAN
  /\ phase \in [Attempts -> {"absent", "reading", "training", "reported", "dead"}]
  /\ resumed \in [Attempts -> [Ranks -> Entry \cup {Fresh, Unread}]]
  /\ at \in [Attempts -> Position]
  /\ up \in [Attempts -> Upload]
  /\ puts \subseteq Request
  /\ blobs \subseteq Entry
  /\ manifest \in [entries : SUBSET Entry, latest : Entry \cup {Fresh}]
  /\ overdue \subseteq puts
  /\ forgot \subseteq Attempts \X Ranks
  /\ strays \subseteq Entry /\ unsaved \subseteq Entry

Init ==
  /\ attempt = 0 /\ done = FALSE
  /\ lease = [a \in Attempts |-> "NONE"]
  /\ phase = [a \in Attempts |-> "absent"]
  /\ resumed = [a \in Attempts |-> [r \in Ranks |-> Unread]]
  /\ at = [a \in Attempts |-> [epoch |-> 1, batch |-> 0, step |-> 0]]
  /\ up = [a \in Attempts |-> Idle]
  /\ puts = {} /\ blobs = {}
  /\ manifest = [entries |-> {}, latest |-> Fresh]
  /\ overdue = {} /\ strays = {} /\ forgot = {} /\ unsaved = {}

-----------------------------------------------------------------------------
(* What the job does, as far as checkpoints see it; Leases has the rest.   *)

\* mutant: the lease token alone decides
AuthorizedByToken(a) == lease[a] # "NONE"

\* authorize_live_lease: the lease is of the current epoch and ACTIVE.
Authorized(a) == a = attempt /\ lease[a] = "ACTIVE"

\* All ranks of a new attempt have claimed, and their trainers start.
StartAttempt ==
  /\ ~done /\ attempt < MaxAttempt
  /\ attempt > 0 => lease[attempt] = "ENDED"
  /\ attempt' = attempt + 1
  /\ lease' = [lease EXCEPT ![attempt + 1] = "ACTIVE"]
  /\ phase' = [phase EXCEPT ![attempt + 1] = "reading"]
  /\ UNCHANGED <<done, resumed, at, up, storeVars, history>>

\* The attempt fails, lapses or is torn down.  Its trainers may run on.
\* Without "late" the store answers before the lease can end.
EndAttempt ==
  /\ attempt > 0 /\ Authorized(attempt)
  /\ "late" \in Faults \/ puts = {}
  /\ lease' = [lease EXCEPT ![attempt] = "ENDED"]
  /\ overdue' = puts
  /\ UNCHANGED <<attempt, done, loopVars, up, storeVars, strays, forgot, unsaved>>

\* A trainer is stopped by its agent, or crashes with its machine.  Requests
\* the orchestrator has received are not affected.
KillTrainer(a) ==
  /\ phase[a] \in {"reading", "training", "reported"}
  /\ phase' = [phase EXCEPT ![a] = "dead"]
  /\ up' = [up EXCEPT ![a] = Idle]
  /\ UNCHANGED <<jobVars, resumed, at, storeVars, history>>

\* The agent reports what the trainer printed last.
CompleteAttempt(a) ==
  /\ phase[a] = "reported" /\ Authorized(a)
  /\ lease' = [lease EXCEPT ![a] = "ENDED"]
  /\ done' = TRUE
  /\ overdue' = puts
  /\ UNCHANGED <<attempt, loopVars, up, storeVars, strays, forgot, unsaved>>

-----------------------------------------------------------------------------
(* Resuming.  Every rank reads the manifest by itself; a read that fails   *)
(* for whatever reason is "starting fresh".                                *)
\* mutant: the single-writer check applied to reads as well
MayReadAsWriter(a, r) == Authorized(a) /\ r = 0

MayRead(a, r) == Authorized(a)

ReadLatest(a, r) ==
  /\ phase[a] = "reading" /\ resumed[a][r] = Unread
  /\ MayRead(a, r)
  /\ manifest.latest \in blobs \cup {Fresh}
  /\ resumed' = [resumed EXCEPT ![a][r] = manifest.latest]
  /\ UNCHANGED <<jobVars, phase, at, up, storeVars, history>>

ReadLatestFails(a, r) ==
  /\ phase[a] = "reading" /\ resumed[a][r] = Unread
  /\ ~MayRead(a, r) \/ "read" \in Faults
  /\ resumed' = [resumed EXCEPT ![a][r] = Fresh]
  /\ forgot' = IF MayRead(a, r) /\ manifest.latest # Fresh
               THEN forgot \cup {<<a, r>>} ELSE forgot
  /\ UNCHANGED <<jobVars, phase, at, up, storeVars, overdue, strays, unsaved>>

\* The manifest was read and the blob cannot be: the trainer exits.
ReadBlobFails(a, r) ==
  /\ phase[a] = "reading" /\ resumed[a][r] = Unread
  /\ manifest.latest # Fresh
  /\ manifest.latest \notin blobs \/ ~MayRead(a, r) \/ "read" \in Faults
  /\ phase' = [phase EXCEPT ![a] = "dead"]
  /\ UNCHANGED <<jobVars, resumed, at, up, storeVars, history>>

\* mutant: the epoch is not restored
StartFromStep(e) == [epoch |-> 1, batch |-> 0, step |-> e.step]

StartFrom(e) == [epoch |-> e.epoch, batch |-> 0, step |-> e.step]

\* Wrapping the model waits for every rank.
FormCohort(a) ==
  /\ phase[a] = "reading" /\ \A r \in Ranks : resumed[a][r] # Unread
  /\ phase' = [phase EXCEPT ![a] = "training"]
  /\ at' = [at EXCEPT ![a] = StartFrom(resumed[a][0])]
  /\ UNCHANGED <<jobVars, resumed, up, storeVars, history>>

-----------------------------------------------------------------------------
(* Training.  Rank 0's loop; the other ranks join every collective of it.  *)

\* Epochs pair up in the order each rank runs them: no rank has run out.
Paired(a) ==
  \A r \in Ranks :
    at[a].epoch + resumed[a][r].epoch <= Epochs + resumed[a][0].epoch

\* mutant: the manifest first
SaveManifestFirst(a, pos) ==
  [pc |-> "read", base |-> {},
   entry |-> [by |-> a, step |-> pos.step, epoch |-> pos.epoch]]

\* save_checkpoint: the blob goes first.
Save(a, pos) ==
  [pc |-> "blob", base |-> {},
   entry |-> [by |-> a, step |-> pos.step, epoch |-> pos.epoch]]

\* One interval, then a checkpoint unless the last one is still uploading.
TrainInterval(a) ==
  LET pos == [at[a] EXCEPT !.batch = @ + 1, !.step = @ + 1]
  IN  /\ phase[a] = "training" /\ at[a].epoch <= Epochs /\ Paired(a)
      /\ at[a].batch < Intervals
      /\ at' = [at EXCEPT ![a] = pos]
      /\ up' = [up EXCEPT ![a] = IF @.pc = "idle" THEN Save(a, pos) ELSE @]
      /\ UNCHANGED <<jobVars, phase, resumed, storeVars, history>>

\* mutant: the last upload is not waited for
UploadDetached(a) == TRUE

UploadFinished(a) == up[a].pc = "idle"

\* The checkpoint at the end of an epoch waits for the upload before it.
EndEpoch(a) ==
  LET pos == [at[a] EXCEPT !.epoch = @ + 1, !.batch = 0]
  IN  /\ phase[a] = "training" /\ at[a].batch = Intervals
      /\ up[a].pc = "idle"
      /\ at' = [at EXCEPT ![a] = pos]
      /\ up' = [up EXCEPT ![a] = Save(a, pos)]
      /\ UNCHANGED <<jobVars, phase, resumed, storeVars, history>>

\* finish_uploads, the barrier of all ranks, and the final line.
FinishTraining(a) ==
  /\ phase[a] = "training" /\ at[a].epoch > Epochs
  /\ UploadFinished(a)
  /\ \A r \in Ranks : resumed[a][r].epoch = resumed[a][0].epoch
  /\ phase' = [phase EXCEPT ![a] = "reported"]
  /\ UNCHANGED <<jobVars, resumed, at, up, storeVars, history>>

-----------------------------------------------------------------------------
(* The upload thread and the endpoint it writes through.                   *)

\* The request the thread is at.
Put(a) ==
  [by |-> a, kind |-> up[a].pc, entry |-> up[a].entry,
   entries |-> IF up[a].pc = "manifest" THEN up[a].base \cup {up[a].entry} ELSE {}]

Writing(a) == up[a].pc \in {"blob", "manifest"}
Waiting(a) == Writing(a) /\ Put(a) \in puts

PutGranted(a) ==
  /\ Writing(a) /\ ~Waiting(a) /\ Authorized(a)
  /\ puts' = puts \cup {Put(a)}
  /\ UNCHANGED <<jobVars, loopVars, up, blobs, manifest, history>>

PutRefused(a) ==
  /\ Writing(a) /\ ~Waiting(a) /\ ~Authorized(a)
  /\ up' = [up EXCEPT ![a] = Idle]
  /\ UNCHANGED <<jobVars, loopVars, storeVars, history>>

\* The store takes the write and the thread, if it still waits, goes on.
StorePut(p) ==
  /\ puts' = puts \ {p} /\ overdue' = overdue \ {p}
  /\ IF p.kind = "blob"
     THEN blobs' = blobs \cup {p.entry} /\ UNCHANGED <<manifest, strays>>
     ELSE /\ manifest' = [entries |-> p.entries, latest |-> p.entry]
          /\ strays' = IF p \in overdue
                       THEN strays \cup {p.entry} \cup (p.entries \ manifest.entries)
                       ELSE strays
          /\ UNCHANGED blobs
  /\ up' = [up EXCEPT ![p.by] =
              IF Put(p.by) # p THEN @
              ELSE IF p.kind = "blob" THEN [@ EXCEPT !.pc = "read"] ELSE Idle]
  /\ UNCHANGED <<jobVars, loopVars, forgot, unsaved>>

\* mutant: the upload is retried until it succeeds
AfterFailureRetry(a) == [up[a] EXCEPT !.pc = "blob"]

\* "WRITE FAILED; training continues"
AfterFailure(a) == Idle

StoreFails(p) ==
  /\ "write" \in Faults
  /\ puts' = puts \ {p} /\ overdue' = overdue \ {p}
  /\ unsaved' = unsaved \cup {p.entry}
  /\ up' = [up EXCEPT ![p.by] = IF Put(p.by) = p THEN AfterFailure(p.by) ELSE @]
  /\ UNCHANGED <<jobVars, loopVars, blobs, manifest, strays, forgot>>

\* The client's timeout, or a lost answer.
GiveUp(a) ==
  /\ "late" \in Faults
  /\ Waiting(a)
  /\ up' = [up EXCEPT ![a] = AfterFailure(a)]
  /\ overdue' = overdue \cup {Put(a)}
  /\ unsaved' = unsaved \cup {up[a].entry}
  /\ UNCHANGED <<jobVars, loopVars, storeVars, strays, forgot>>

ReadManifest(a) ==
  /\ up[a].pc = "read" /\ Authorized(a)
  /\ up' = [up EXCEPT ![a].pc = "manifest", ![a].base = manifest.entries]
  /\ UNCHANGED <<jobVars, loopVars, storeVars, history>>

ReadManifestFails(a) ==
  /\ up[a].pc = "read"
  /\ ~Authorized(a) \/ "read" \in Faults
  /\ up' = [up EXCEPT ![a] = AfterFailure(a)]
  /\ unsaved' = IF Authorized(a) THEN unsaved \cup {up[a].entry} ELSE unsaved
  /\ UNCHANGED <<jobVars, loopVars, storeVars, overdue, strays, forgot>>

-----------------------------------------------------------------------------
Reading(a) ==
  \/ \E r \in Ranks : ReadLatest(a, r) \/ ReadLatestFails(a, r) \/ ReadBlobFails(a, r)
  \/ FormCohort(a)

Training(a) == TrainInterval(a) \/ EndEpoch(a) \/ FinishTraining(a)

Uploading(a) ==
  \/ PutGranted(a) \/ PutRefused(a) \/ GiveUp(a)
  \/ ReadManifest(a) \/ ReadManifestFails(a)

Storing == \E p \in puts : StorePut(p) \/ StoreFails(p)

Next ==
  \/ StartAttempt \/ EndAttempt
  \/ \E a \in Attempts : KillTrainer(a) \/ CompleteAttempt(a)
  \/ \E a \in Attempts : Reading(a) \/ Training(a) \/ Uploading(a)
  \/ Storing

Spec == Init /\ [][Next]_vars

\* The trainer's threads run, and the store answers every request in time.
TrainersRun ==
  /\ \A a \in Attempts : WF_vars(Reading(a)) /\ WF_vars(Training(a))
                         /\ WF_vars(Uploading(a))
  /\ WF_vars(Storing)

FairSpec == Spec /\ TrainersRun

-----------------------------------------------------------------------------
(* Whatever fails, the manifest lists only checkpoints that are stored, so *)
(* the blob a rank resumes from is there (save_checkpoint's order).        *)
EntriesAreStored ==
  /\ manifest.entries \subseteq blobs
  /\ manifest.latest \in manifest.entries \cup {Fresh}

StoredOverdue == \E p \in overdue : p \notin puts'

(* A manifest write drops an entry only if the write is overdue, or if an  *)
(* overdue write brought the entry: reading, appending and writing back is *)
(* safe while nobody else writes, and the lease check keeps everybody else *)
(* out until a store is late (save_checkpoint, checkpoint_access).         *)
EntriesKept ==
  [][StoredOverdue \/ manifest.entries \subseteq manifest'.entries \cup strays]_vars

\* No more steps and no more epochs of training.
NoLater(e, f) == e.step <= f.step /\ e.epoch <= f.epoch

(* The latest checkpoint is followed by one of less progress only if the   *)
(* write is overdue, or an overdue write made it the latest while the loop *)
(* ran, or the writing attempt's rank 0 failed to read it and started from *)
(* nothing (save_checkpoint and the resume in train.py).                   *)
LatestAdvances ==
  [][ \/ StoredOverdue
      \/ NoLater(manifest.latest, manifest'.latest)
      \/ manifest.latest \in strays
      \/ <<manifest'.latest.by, 0>> \in forgot ]_vars

Started == {"training", "reported"}

Alike(a, r, s) ==
  \/ resumed[a][r] = resumed[a][s]
  \/ <<a, r>> \in forgot \/ <<a, s>> \in forgot
  \/ resumed[a][r] \in strays \/ resumed[a][s] \in strays

(* Two ranks of the current attempt train from one checkpoint, although    *)
(* each reads the manifest by itself, unless the read of one of them       *)
(* failed or one read what an overdue write had just put there (the resume *)
(* in train.py).                                                           *)
CohortResumesTogether ==
  \A a \in Attempts : phase[a] \in Started /\ Authorized(a) =>
    \A r, s \in Ranks : Alike(a, r, s)

(* What a user gets: the latest entry is looked up, and its object sent.   *)
LatestCheckpointFor == {manifest.latest} \ {Fresh}
DownloadJobCheckpoint == LatestCheckpointFor \cap blobs

(* Of a completed job the model can be downloaded, and it is the           *)
(* checkpoint after the last epoch, unless that attempt's write of it      *)
(* failed, which is logged and passed over, or an overdue write came after *)
(* it (finish_uploads, _upload).                                           *)
CompletedKeepsModel ==
  done => \/ \E e \in DownloadJobCheckpoint : e.epoch = Epochs + 1
          \/ manifest.latest \in strays
          \/ \E e \in unsaved : e.by = attempt /\ e.epoch = Epochs + 1

(* A cohort that starts at one epoch gets to its final line unless it dies *)
(* or loses its lease: no write that fails, is late or is given up leaves  *)
(* the loop waiting for the upload thread (save_checkpoint_now,            *)
(* finish_uploads).                                                        *)
TrainingEnds ==
  \A a \in Attempts :
    phase[a] = "training" /\ (\A r \in Ranks : resumed[a][r].epoch = resumed[a][0].epoch)
      ~> phase[a] \in {"reported", "dead"} \/ ~Authorized(a)

-----------------------------------------------------------------------------
(* Why the manifest lists only stored checkpoints, and what keeps them.    *)

\* Whoever is to write the manifest writes entries that are stored.
WritesAreBacked ==
  /\ \A p \in puts : p.kind = "manifest" =>
       p.entry \in p.entries /\ p.entries \subseteq blobs
  /\ \A a \in Attempts :
       /\ up[a].pc \in {"read", "manifest"} => up[a].entry \in blobs
       /\ up[a].pc = "manifest" => up[a].base \subseteq blobs

OnlyTrainersUpload ==
  \A a \in Attempts : up[a].pc # "idle" => phase[a] = "training" /\ up[a].entry \in Entry

\* The trainers of attempts to come have not started.
TrainersStarted == \A a \in Attempts : phase[a] # "absent" => a <= attempt

IInv ==
  /\ TypeOK /\ TrainersStarted /\ EntriesAreStored /\ WritesAreBacked
  /\ OnlyTrainersUpload

\* Of the writes that are not overdue there is at most one, by the current
\* attempt, and what it writes has every entry of the manifest but strays.
Prompt == puts \ overdue

OnePutAtATime ==
  /\ \A p, q \in Prompt : p = q
  /\ \A p \in Prompt : Authorized(p.by) /\ (p = Put(p.by) \/ phase[p.by] = "dead")

WriterKnowsManifest ==
  /\ \A p \in Prompt : p.kind = "manifest" => manifest.entries \subseteq p.entries \cup strays
  /\ \A a \in Attempts : up[a].pc = "manifest" /\ Authorized(a) =>
       manifest.entries \subseteq up[a].base \cup strays

\* A rank that forgot starts afresh.
ForgottenIsFresh ==
  \A a \in Attempts, r \in Ranks : <<a, r>> \in forgot => resumed[a][r] = Fresh

\* While the ranks of the current attempt read the manifest, only overdue
\* writes change it, and each makes its own entry, a stray, the latest.
RanksAgree ==
  \A a \in Attempts :
    /\ phase[a] = "absent" => \A r \in Ranks : resumed[a][r] = Unread
    /\ Authorized(a) /\ phase[a] = "reading" =>
         /\ \/ manifest.latest \in strays
            \/ \A r \in Ranks :
                 resumed[a][r] \in {Unread, manifest.latest} \/ <<a, r>> \in forgot
         /\ \A r, s \in Ranks : Unread \in {resumed[a][r], resumed[a][s]} \/ Alike(a, r, s)
    /\ Authorized(a) /\ phase[a] \in Started => \A r, s \in Ranks : Alike(a, r, s)

\* What is saved is the writer's own, and is not past its loop.
SavesAreOwn ==
  /\ \A p \in puts : p.entry.by = p.by
  /\ \A a \in Attempts : up[a].pc # "idle" =>
       up[a].entry.by = a /\ NoLater(up[a].entry, at[a])

\* An attempt works behind the latest checkpoint only if a stray was made it,
\* or if its writer forgot it.
Astray(a) == manifest.latest \in strays \/ <<a, 0>> \in forgot

WorkAdvances ==
  /\ \A p \in Prompt : p.kind = "manifest" =>
       Astray(p.by) \/ NoLater(manifest.latest, p.entry)
  /\ \A a \in Attempts : Authorized(a) /\ phase[a] \in Started => Astray(a) \/
       /\ NoLater(manifest.latest, at[a])
       /\ up[a].pc # "idle" => NoLater(manifest.latest, up[a].entry)

\* Nothing is saved past the last epoch, and its end is saved, or being
\* saved, or went the way CompletedKeepsModel excepts.
FinalKept(a) ==
  \/ manifest.latest.epoch = Epochs + 1
  \/ manifest.latest \in strays
  \/ \E e \in unsaved : e.by = a /\ e.epoch = Epochs + 1

EpochsAreBounded ==
  /\ \A p \in puts : p.entry.epoch <= Epochs + 1
  /\ manifest.latest.epoch <= Epochs + 1
  /\ \A a \in Attempts :
       /\ at[a].epoch <= Epochs + 1
       /\ at[a].batch > 0 => at[a].epoch <= Epochs
       /\ phase[a] = "reported" => at[a].epoch = Epochs + 1
       /\ \A r \in Ranks : resumed[a][r].epoch <= Epochs + 1

FinalIsSaved ==
  /\ \A a \in Attempts :
       Authorized(a) /\ phase[a] \in Started /\ at[a].epoch = Epochs + 1 =>
         IF up[a].pc = "idle" THEN FinalKept(a) ELSE up[a].entry.epoch = Epochs + 1
  /\ done => FinalKept(attempt) /\ lease[attempt] = "ENDED"

\* All of it, which is inductive.
HistoryInv ==
  /\ OnePutAtATime /\ WriterKnowsManifest
  /\ ForgottenIsFresh /\ RanksAgree
  /\ SavesAreOwn /\ WorkAdvances
  /\ EpochsAreBounded /\ FinalIsSaved
=============================================================================
