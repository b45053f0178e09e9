-------------------------- MODULE CheckpointsProofs --------------------------
(***************************************************************************)
(* What holds of the checkpoints of a job for any cohort, any length of    *)
(* training, any number of attempts and any faults: the manifest lists only *)
(* stored checkpoints, and what it may lose, which ranks may disagree and   *)
(* when the final model may be missing are exactly what the late writes and *)
(* the failures recorded in the history variables account for.              *)
(***************************************************************************)
EXTENDS Checkpoints, TLAPS

(* The idle thread, and one that goes on, are in a state of the thread. *)
LEMMA IdleTyped == Idle \in Upload /\ Idle.pc = "idle"
BY DEF Idle, Upload

(* What the upload thread holds when it goes on with the manifest. *)
LEMMA UploadMoves ==
  ASSUME NEW u \in Upload
  PROVE  /\ u.entry \in Entry \cup {Fresh} /\ u.base \subseteq Entry
         /\ u.pc \in {"idle", "blob", "read", "manifest"}
         /\ [u EXCEPT !.pc = "read"] \in Upload
         /\ \A base \in SUBSET Entry :
              [u EXCEPT !.pc = "manifest", !.base = base] \in Upload
BY DEF Upload

(* Where the loop is after an interval and after an epoch. *)
LEMMA PositionMoves ==
  ASSUME NEW q \in Position
  PROVE  /\ [q EXCEPT !.batch = @ + 1, !.step = @ + 1] \in Position
         /\ [q EXCEPT !.epoch = @ + 1, !.batch = 0] \in Position
         /\ NoLater(q, [q EXCEPT !.batch = @ + 1, !.step = @ + 1])
         /\ NoLater(q, [q EXCEPT !.epoch = @ + 1, !.batch = 0])
<1>1. q.epoch \in Nat /\ q.batch \in Nat /\ q.step \in Nat
  BY DEF Position
<1>2. q.batch + 1 \in Nat /\ q.step + 1 \in Nat /\ q.epoch + 1 \in Nat
  BY <1>1
<1>3. [q EXCEPT !.batch = @ + 1, !.step = @ + 1] \in Position
  BY <1>2 DEF Position
<1>4. [q EXCEPT !.epoch = @ + 1, !.batch = 0] \in Position
  BY <1>2 DEF Position
<1>5. /\ [q EXCEPT !.batch = @ + 1, !.step = @ + 1].step = q.step + 1
      /\ [q EXCEPT !.batch = @ + 1, !.step = @ + 1].epoch = q.epoch
      /\ [q EXCEPT !.epoch = @ + 1, !.batch = 0].step = q.step
      /\ [q EXCEPT !.epoch = @ + 1, !.batch = 0].epoch = q.epoch + 1
  BY DEF Position
<1> QED BY <1>1, <1>3, <1>4, <1>5 DEF NoLater

(* The parts of a request. *)
LEMMA RequestParts ==
  ASSUME NEW p \in Request
  PROVE  /\ p.by \in Attempts /\ p.kind \in {"blob", "manifest"}
         /\ p.entry \in Entry /\ p.entries \subseteq Entry
BY DEF Request

(* Nothing is stored or under way at first. *)
LEMMA InitIInv == Init => IInv
<1> SUFFICES ASSUME Init PROVE IInv
  OBVIOUS
<1>1. TypeOK
  <2>1. at \in [Attempts -> Position]
    BY DEF Init, Position
  <2>2. /\ manifest \in [entries : SUBSET Entry, latest : Entry \cup {Fresh}]
        /\ attempt \in 0 .. MaxAttempt
    BY CheckpointsAssumption DEF Init
  <2>3. resumed \in [Attempts -> [Ranks -> Entry \cup {Fresh, Unread}]]
    BY DEF Init
  <2> QED BY <2>1, <2>2, <2>3, IdleTyped DEF Init, TypeOK
<1>2. TrainersStarted /\ EntriesAreStored /\ WritesAreBacked /\ OnlyTrainersUpload
  BY DEF Init, TrainersStarted, EntriesAreStored, WritesAreBacked, OnlyTrainersUpload,
     Idle
<1> QED BY <1>1, <1>2 DEF IInv

(* A write under way carries the checkpoint its thread is saving. *)
LEMMA PutTyped ==
  ASSUME TypeOK, OnlyTrainersUpload, NEW a \in Attempts, Writing(a)
  PROVE  Put(a) \in Request
<1>1. up[a].entry \in Entry /\ up[a].base \subseteq Entry
  BY UploadMoves DEF TypeOK, OnlyTrainersUpload, Writing
<1> QED BY <1>1 DEF Put, Writing, Request

(* A new upload is of the place the loop is at. *)
LEMMA UploadTyped ==
  ASSUME NEW a \in Attempts, NEW pos \in Position
  PROVE  /\ Save(a, pos) \in Upload
         /\ Save(a, pos).pc = "blob" /\ Save(a, pos).entry \in Entry
BY DEF Save, Upload, Position, Entry

(* Every step keeps the types. *)
LEMMA NextTypeOK ==
  ASSUME TypeOK, OnlyTrainersUpload, [Next]_vars
  PROVE  TypeOK'
<1> USE DEF TypeOK, jobVars, loopVars, storeVars, history
<1>1. CASE StartAttempt
  BY <1>1, CheckpointsAssumption DEF StartAttempt, Attempts
<1>2. CASE EndAttempt
  BY <1>2, CheckpointsAssumption DEF EndAttempt, Attempts
<1>3. ASSUME NEW a \in Attempts, KillTrainer(a) PROVE TypeOK'
  BY <1>3, IdleTyped DEF KillTrainer
<1>4. ASSUME NEW a \in Attempts, CompleteAttempt(a) PROVE TypeOK'
  BY <1>4, IdleTyped DEF CompleteAttempt
<1>5. ASSUME NEW a \in Attempts, NEW r \in Ranks, ReadLatest(a, r) PROVE TypeOK'
  <2>1. manifest.latest \in Entry \cup {Fresh, Unread}
    OBVIOUS
  <2> QED BY <1>5, <2>1 DEF ReadLatest
<1>6. ASSUME NEW a \in Attempts, NEW r \in Ranks, ReadLatestFails(a, r) PROVE TypeOK'
  <2>1. resumed' \in [Attempts -> [Ranks -> Entry \cup {Fresh, Unread}]]
    BY <1>6 DEF ReadLatestFails
  <2>2. forgot' \subseteq Attempts \X Ranks
    BY <1>6 DEF ReadLatestFails
  <2> QED BY <1>6, <2>1, <2>2 DEF ReadLatestFails
<1>7. ASSUME NEW a \in Attempts, NEW r \in Ranks, ReadBlobFails(a, r) PROVE TypeOK'
  <2>1. manifest.latest \in Entry \cup {Fresh, Unread}
    OBVIOUS
  <2> QED BY <1>7, <2>1 DEF ReadBlobFails
<1>8. ASSUME NEW a \in Attempts, FormCohort(a) PROVE TypeOK'
  <2>1. resumed[a][0] \in Entry \cup {Fresh}
    BY <1>8, CheckpointsAssumption DEF FormCohort
  <2>2. StartFrom(resumed[a][0]) \in Position
    BY <2>1 DEF StartFrom, Entry, Fresh, Position
  <2> QED BY <1>8, <2>2 DEF FormCohort
<1>9. ASSUME NEW a \in Attempts, TrainInterval(a) PROVE TypeOK'
  <2> DEFINE pos == [at[a] EXCEPT !.batch = @ + 1, !.step = @ + 1]
  <2>1. pos \in Position
    BY PositionMoves
  <2>2. Save(a, pos) \in Upload
    BY <2>1, UploadTyped
  <2>3. at' = [at EXCEPT ![a] = pos]
    BY <1>9 DEF TrainInterval
  <2>4. up' = [up EXCEPT ![a] = IF up[a].pc = "idle" THEN Save(a, pos) ELSE up[a]]
    BY <1>9 DEF TrainInterval
  <2> HIDE DEF pos
  <2> QED BY <1>9, <2>1, <2>2, <2>3, <2>4 DEF TrainInterval
<1>10. ASSUME NEW a \in Attempts, EndEpoch(a) PROVE TypeOK'
  <2> DEFINE pos == [at[a] EXCEPT !.epoch = @ + 1, !.batch = 0]
  <2>1. pos \in Position
    BY PositionMoves
  <2>2. Save(a, pos) \in Upload
    BY <2>1, UploadTyped
  <2>3. at' = [at EXCEPT ![a] = pos] /\ up' = [up EXCEPT ![a] = Save(a, pos)]
    BY <1>10 DEF EndEpoch
  <2> HIDE DEF pos
  <2> QED BY <1>10, <2>1, <2>2, <2>3 DEF EndEpoch
<1>11. ASSUME NEW a \in Attempts, FinishTraining(a) PROVE TypeOK'
  BY <1>11 DEF FinishTraining
<1>12. ASSUME NEW a \in Attempts, PutGranted(a) PROVE TypeOK'
  BY <1>12, PutTyped DEF PutGranted
<1>13. ASSUME NEW a \in Attempts, PutRefused(a) PROVE TypeOK'
  BY <1>13, IdleTyped DEF PutRefused, AfterFailure
<1>14. ASSUME NEW a \in Attempts, GiveUp(a) PROVE TypeOK'
  <2>1. Put(a) \in puts /\ up[a].entry \in Entry
    BY <1>14 DEF GiveUp, Waiting, Writing, OnlyTrainersUpload
  <2> QED BY <1>14, <2>1, IdleTyped DEF GiveUp, AfterFailure
<1>15. ASSUME NEW a \in Attempts, ReadManifest(a) PROVE TypeOK'
  <2>1. [up[a] EXCEPT !.pc = "manifest", !.base = manifest.entries] \in Upload
    BY UploadMoves
  <2> QED BY <1>15, <2>1, IdleTyped DEF ReadManifest
<1>16. ASSUME NEW a \in Attempts, ReadManifestFails(a) PROVE TypeOK'
  <2>1. up[a].entry \in Entry
    BY <1>16 DEF ReadManifestFails, OnlyTrainersUpload
  <2> QED BY <1>16, <2>1, IdleTyped DEF ReadManifestFails, AfterFailure
<1>17. ASSUME NEW p \in puts, StorePut(p) PROVE TypeOK'
  <2>1. p \in Request /\ p.entry \in Entry /\ p.entries \subseteq Entry /\ p.by \in Attempts
    BY RequestParts
  <2>2. [up[p.by] EXCEPT !.pc = "read"] \in Upload
    BY <2>1, UploadMoves
  <2>3. up' \in [Attempts -> Upload]
    BY <1>17, <2>1, <2>2, IdleTyped DEF StorePut
  <2>4. manifest' \in [entries : SUBSET Entry, latest : Entry \cup {Fresh}]
    BY <1>17, <2>1 DEF StorePut
  <2>5. strays' \subseteq Entry
    BY <1>17, <2>1 DEF StorePut
  <2>6. puts' \subseteq puts /\ overdue' \subseteq puts' /\ blobs' \subseteq Entry
    BY <1>17, <2>1 DEF StorePut
  <2> QED BY <1>17, <2>3, <2>4, <2>5, <2>6 DEF StorePut
<1>18. ASSUME NEW p \in puts, StoreFails(p) PROVE TypeOK'
  <2>1. p.by \in Attempts /\ p.entry \in Entry
    BY RequestParts
  <2> QED BY <1>18, <2>1, IdleTyped DEF StoreFails, AfterFailure
<1>19. CASE UNCHANGED vars
  BY <1>19 DEF vars
<1> QED
  BY <1>1, <1>2, <1>3, <1>4, <1>5, <1>6, <1>7, <1>8, <1>9, <1>10, <1>11, <1>12, <1>13,
     <1>14, <1>15, <1>16, <1>17, <1>18, <1>19 DEF Next, Reading, Training, Uploading,
     Storing

(* Only a backed write changes the manifest, and no object is ever taken   *)
(* away.                                                                   *)
LEMMA NextEntriesAreStored ==
  ASSUME IInv, [Next]_vars
  PROVE  EntriesAreStored'
<1> USE DEF IInv, EntriesAreStored, jobVars, loopVars, storeVars
<1>1. CASE StartAttempt
  BY <1>1 DEF StartAttempt
<1>2. CASE EndAttempt
  BY <1>2 DEF EndAttempt
<1>3. ASSUME NEW a \in Attempts, KillTrainer(a) PROVE EntriesAreStored'
  BY <1>3 DEF KillTrainer
<1>4. ASSUME NEW a \in Attempts, CompleteAttempt(a) PROVE EntriesAreStored'
  BY <1>4 DEF CompleteAttempt
<1>5. ASSUME NEW a \in Attempts, NEW r \in Ranks, ReadLatest(a, r) PROVE EntriesAreStored'
  BY <1>5 DEF ReadLatest
<1>6. ASSUME NEW a \in Attempts, NEW r \in Ranks, ReadLatestFails(a, r)
      PROVE  EntriesAreStored'
  BY <1>6 DEF ReadLatestFails
<1>7. ASSUME NEW a \in Attempts, NEW r \in Ranks, ReadBlobFails(a, r)
      PROVE  EntriesAreStored'
  BY <1>7 DEF ReadBlobFails
<1>8. ASSUME NEW a \in Attempts, FormCohort(a) PROVE EntriesAreStored'
  BY <1>8 DEF FormCohort
<1>9. ASSUME NEW a \in Attempts, TrainInterval(a) PROVE EntriesAreStored'
  BY <1>9 DEF TrainInterval
<1>10. ASSUME NEW a \in Attempts, EndEpoch(a) PROVE EntriesAreStored'
  BY <1>10 DEF EndEpoch
<1>11. ASSUME NEW a \in Attempts, FinishTraining(a) PROVE EntriesAreStored'
  BY <1>11 DEF FinishTraining
<1>12. ASSUME NEW a \in Attempts, PutGranted(a) PROVE EntriesAreStored'
  BY <1>12 DEF PutGranted
<1>13. ASSUME NEW a \in Attempts, PutRefused(a) PROVE EntriesAreStored'
  BY <1>13 DEF PutRefused
<1>14. ASSUME NEW a \in Attempts, GiveUp(a) PROVE EntriesAreStored'
  BY <1>14 DEF GiveUp
<1>15. ASSUME NEW a \in Attempts, ReadManifest(a) PROVE EntriesAreStored'
  BY <1>15 DEF ReadManifest
<1>16. ASSUME NEW a \in Attempts, ReadManifestFails(a) PROVE EntriesAreStored'
  BY <1>16 DEF ReadManifestFails
<1>17. ASSUME NEW p \in puts, StorePut(p) PROVE EntriesAreStored'
  <2>1. CASE p.kind = "blob"
    BY <1>17, <2>1 DEF StorePut
  <2>2. CASE p.kind = "manifest"
    BY <1>17, <2>2 DEF StorePut, WritesAreBacked
  <2> QED BY <2>1, <2>2, RequestParts DEF TypeOK
<1>18. ASSUME NEW p \in puts, StoreFails(p) PROVE EntriesAreStored'
  BY <1>18 DEF StoreFails
<1>19. CASE UNCHANGED vars
  BY <1>19 DEF vars
<1> QED
  BY <1>1, <1>2, <1>3, <1>4, <1>5, <1>6, <1>7, <1>8, <1>9, <1>10, <1>11, <1>12, <1>13,
     <1>14, <1>15, <1>16, <1>17, <1>18, <1>19 DEF Next, Reading, Training, Uploading,
     Storing

(* The blob is stored before its entry is written, and what was read of    *)
(* the manifest was stored when it was read.                               *)
LEMMA NextWritesAreBacked ==
  ASSUME IInv, [Next]_vars
  PROVE  WritesAreBacked'
<1> USE DEF IInv, WritesAreBacked, jobVars, loopVars, storeVars
<1>1. CASE StartAttempt
  BY <1>1 DEF StartAttempt
<1>2. CASE EndAttempt
  BY <1>2 DEF EndAttempt
<1>3. ASSUME NEW a \in Attempts, KillTrainer(a) PROVE WritesAreBacked'
  BY <1>3 DEF KillTrainer, TypeOK, Idle
<1>4. ASSUME NEW a \in Attempts, CompleteAttempt(a) PROVE WritesAreBacked'
  BY <1>4 DEF CompleteAttempt, TypeOK, Idle
<1>5. ASSUME NEW a \in Attempts, NEW r \in Ranks, ReadLatest(a, r) PROVE WritesAreBacked'
  BY <1>5 DEF ReadLatest
<1>6. ASSUME NEW a \in Attempts, NEW r \in Ranks, ReadLatestFails(a, r)
      PROVE  WritesAreBacked'
  BY <1>6 DEF ReadLatestFails
<1>7. ASSUME NEW a \in Attempts, NEW r \in Ranks, ReadBlobFails(a, r)
      PROVE  WritesAreBacked'
  BY <1>7 DEF ReadBlobFails
<1>8. ASSUME NEW a \in Attempts, FormCohort(a) PROVE WritesAreBacked'
  BY <1>8 DEF FormCohort
<1>9. ASSUME NEW a \in Attempts, FinishTraining(a) PROVE WritesAreBacked'
  BY <1>9 DEF FinishTraining
<1>10. ASSUME NEW a \in Attempts, TrainInterval(a) PROVE WritesAreBacked'
  BY <1>10 DEF TrainInterval, Save, TypeOK
<1>11. ASSUME NEW a \in Attempts, EndEpoch(a) PROVE WritesAreBacked'
  BY <1>11 DEF EndEpoch, Save, TypeOK
<1>12. ASSUME NEW a \in Attempts, PutGranted(a) PROVE WritesAreBacked'
  <2>1. up[a].pc = "manifest" => up[a].entry \in blobs /\ up[a].base \subseteq blobs
    OBVIOUS
  <2>2. Put(a).kind = "manifest" => /\ Put(a).entry \in Put(a).entries
                                    /\ Put(a).entries \subseteq blobs
    BY <2>1 DEF Put
  <2> QED BY <1>12, <2>2 DEF PutGranted
<1>13. ASSUME NEW a \in Attempts, PutRefused(a) PROVE WritesAreBacked'
  BY <1>13 DEF PutRefused, AfterFailure, TypeOK, Idle
<1>14. ASSUME NEW a \in Attempts, GiveUp(a) PROVE WritesAreBacked'
  BY <1>14 DEF GiveUp, AfterFailure, TypeOK, Idle
<1>15. ASSUME NEW a \in Attempts, ReadManifest(a) PROVE WritesAreBacked'
  BY <1>15 DEF ReadManifest, TypeOK, Idle, EntriesAreStored
<1>16. ASSUME NEW a \in Attempts, ReadManifestFails(a) PROVE WritesAreBacked'
  BY <1>16 DEF ReadManifestFails, AfterFailure, TypeOK, Idle, EntriesAreStored
<1>17. ASSUME NEW p \in puts, StorePut(p) PROVE WritesAreBacked'
  <2>1. blobs \subseteq blobs' /\ puts' \subseteq puts
    BY <1>17 DEF StorePut
  <2>2. \A q \in puts' : q.kind = "manifest" => q.entry \in q.entries /\ q.entries \subseteq blobs'
    BY <2>1
  <2>3. ASSUME NEW b \in Attempts
        PROVE  /\ up'[b].pc \in {"read", "manifest"} => up'[b].entry \in blobs'
               /\ up'[b].pc = "manifest" => up'[b].base \subseteq blobs'
    <3>1. CASE b = p.by /\ Put(p.by) = p /\ p.kind = "blob"
      <4>1. up'[b].pc = "read" /\ up'[b].entry = p.entry /\ blobs' = blobs \cup {p.entry}
        BY <1>17, <3>1 DEF StorePut, TypeOK, Put
      <4> QED BY <4>1
    <3>2. CASE b = p.by /\ Put(p.by) = p /\ p.kind # "blob"
      BY <1>17, <3>2 DEF StorePut, TypeOK, Idle
    <3>3. CASE b # p.by \/ Put(p.by) # p
      <4>1. up'[b] = up[b]
        BY <1>17, <3>3 DEF StorePut, TypeOK
      <4> QED BY <4>1, <2>1
    <3> QED BY <3>1, <3>2, <3>3
  <2> QED BY <2>2, <2>3
<1>18. ASSUME NEW p \in puts, StoreFails(p) PROVE WritesAreBacked'
  BY <1>18 DEF StoreFails, AfterFailure, TypeOK, Idle
<1>19. CASE UNCHANGED vars
  BY <1>19 DEF vars
<1> QED
  BY <1>1, <1>2, <1>3, <1>4, <1>5, <1>6, <1>7, <1>8, <1>9, <1>10, <1>11, <1>12, <1>13,
     <1>14, <1>15, <1>16, <1>17, <1>18, <1>19 DEF Next, Reading, Training, Uploading,
     Storing

(* An upload starts in the loop, and nothing but the end of the trainer    *)
(* leaves the loop before it is over.                                      *)
LEMMA NextOnlyTrainersUpload ==
  ASSUME IInv, [Next]_vars
  PROVE  OnlyTrainersUpload'
<1> USE DEF IInv, OnlyTrainersUpload, jobVars, loopVars, storeVars
<1>1. CASE StartAttempt
  BY <1>1, CheckpointsAssumption DEF StartAttempt, TypeOK, TrainersStarted, Attempts
<1>2. CASE EndAttempt
  BY <1>2, CheckpointsAssumption DEF EndAttempt, TypeOK, TrainersStarted, Attempts
<1>3. ASSUME NEW a \in Attempts, KillTrainer(a) PROVE OnlyTrainersUpload'
  BY <1>3 DEF KillTrainer, TypeOK, Idle
<1>4. ASSUME NEW a \in Attempts, CompleteAttempt(a) PROVE OnlyTrainersUpload'
  BY <1>4 DEF CompleteAttempt, TypeOK, Idle
<1>5. ASSUME NEW a \in Attempts, NEW r \in Ranks, ReadLatest(a, r)
      PROVE  OnlyTrainersUpload'
  BY <1>5 DEF ReadLatest, TypeOK
<1>6. ASSUME NEW a \in Attempts, NEW r \in Ranks, ReadLatestFails(a, r)
      PROVE  OnlyTrainersUpload'
  BY <1>6 DEF ReadLatestFails, TypeOK
<1>7. ASSUME NEW a \in Attempts, NEW r \in Ranks, ReadBlobFails(a, r)
      PROVE  OnlyTrainersUpload'
  BY <1>7 DEF ReadBlobFails, TypeOK
<1>8. ASSUME NEW a \in Attempts, FormCohort(a) PROVE OnlyTrainersUpload'
  BY <1>8 DEF FormCohort, UploadFinished, TypeOK
<1>9. ASSUME NEW a \in Attempts, FinishTraining(a) PROVE OnlyTrainersUpload'
  BY <1>9 DEF FinishTraining, UploadFinished, TypeOK
<1>10. ASSUME NEW a \in Attempts, TrainInterval(a) PROVE OnlyTrainersUpload'
  <2> DEFINE pos == [at[a] EXCEPT !.batch = @ + 1, !.step = @ + 1]
  <2>1. Save(a, pos).entry \in Entry
    BY PositionMoves, UploadTyped DEF TypeOK
  <2> QED BY <1>10, <2>1 DEF TrainInterval, TypeOK
<1>11. ASSUME NEW a \in Attempts, EndEpoch(a) PROVE OnlyTrainersUpload'
  <2> DEFINE pos == [at[a] EXCEPT !.epoch = @ + 1, !.batch = 0]
  <2>1. Save(a, pos).entry \in Entry
    BY PositionMoves, UploadTyped DEF TypeOK
  <2> QED BY <1>11, <2>1 DEF EndEpoch, TypeOK
<1>12. ASSUME NEW a \in Attempts, PutGranted(a) PROVE OnlyTrainersUpload'
  BY <1>12 DEF PutGranted, TypeOK, Idle
<1>13. ASSUME NEW a \in Attempts, PutRefused(a) PROVE OnlyTrainersUpload'
  BY <1>13 DEF PutRefused, AfterFailure, TypeOK, Idle
<1>14. ASSUME NEW a \in Attempts, GiveUp(a) PROVE OnlyTrainersUpload'
  BY <1>14 DEF GiveUp, AfterFailure, TypeOK, Idle
<1>15. ASSUME NEW a \in Attempts, ReadManifest(a) PROVE OnlyTrainersUpload'
  BY <1>15 DEF ReadManifest, TypeOK, Idle
<1>16. ASSUME NEW a \in Attempts, ReadManifestFails(a) PROVE OnlyTrainersUpload'
  BY <1>16 DEF ReadManifestFails, AfterFailure, TypeOK, Idle
<1>17. ASSUME NEW p \in puts, StorePut(p) PROVE OnlyTrainersUpload'
  BY <1>17 DEF StorePut, TypeOK, Put, Idle
<1>18. ASSUME NEW p \in puts, StoreFails(p) PROVE OnlyTrainersUpload'
  BY <1>18 DEF StoreFails, AfterFailure, TypeOK, Idle
<1>19. CASE UNCHANGED vars
  BY <1>19 DEF vars
<1> QED
  BY <1>1, <1>2, <1>3, <1>4, <1>5, <1>6, <1>7, <1>8, <1>9, <1>10, <1>11, <1>12, <1>13,
     <1>14, <1>15, <1>16, <1>17, <1>18, <1>19 DEF Next, Reading, Training, Uploading,
     Storing

(* The trainers of an attempt start with the attempt. *)
LEMMA NextTrainersStarted ==
  ASSUME TypeOK, TrainersStarted, [Next]_vars
  PROVE  TrainersStarted'
<1> USE DEF TrainersStarted, jobVars, loopVars, storeVars
<1>1. CASE StartAttempt
  BY <1>1 DEF StartAttempt, Attempts, TypeOK
<1>2. CASE EndAttempt
  BY <1>2 DEF EndAttempt
<1>3. ASSUME NEW a \in Attempts, KillTrainer(a) PROVE TrainersStarted'
  BY <1>3 DEF KillTrainer, TypeOK
<1>4. ASSUME NEW a \in Attempts, CompleteAttempt(a) PROVE TrainersStarted'
  BY <1>4 DEF CompleteAttempt
<1>5. ASSUME NEW a \in Attempts, NEW r \in Ranks, ReadLatest(a, r) PROVE TrainersStarted'
  BY <1>5 DEF ReadLatest, TypeOK
<1>6. ASSUME NEW a \in Attempts, NEW r \in Ranks, ReadLatestFails(a, r)
      PROVE  TrainersStarted'
  BY <1>6 DEF ReadLatestFails, TypeOK
<1>7. ASSUME NEW a \in Attempts, NEW r \in Ranks, ReadBlobFails(a, r)
      PROVE  TrainersStarted'
  BY <1>7 DEF ReadBlobFails, TypeOK
<1>8. ASSUME NEW a \in Attempts, FormCohort(a) PROVE TrainersStarted'
  BY <1>8 DEF FormCohort, TypeOK
<1>9. ASSUME NEW a \in Attempts, TrainInterval(a) PROVE TrainersStarted'
  BY <1>9 DEF TrainInterval, TypeOK
<1>10. ASSUME NEW a \in Attempts, EndEpoch(a) PROVE TrainersStarted'
  BY <1>10 DEF EndEpoch, TypeOK
<1>11. ASSUME NEW a \in Attempts, FinishTraining(a) PROVE TrainersStarted'
  BY <1>11 DEF FinishTraining, TypeOK
<1>12. ASSUME NEW a \in Attempts, PutGranted(a) PROVE TrainersStarted'
  BY <1>12 DEF PutGranted
<1>13. ASSUME NEW a \in Attempts, PutRefused(a) PROVE TrainersStarted'
  BY <1>13 DEF PutRefused
<1>14. ASSUME NEW a \in Attempts, GiveUp(a) PROVE TrainersStarted'
  BY <1>14 DEF GiveUp
<1>15. ASSUME NEW a \in Attempts, ReadManifest(a) PROVE TrainersStarted'
  BY <1>15 DEF ReadManifest
<1>16. ASSUME NEW a \in Attempts, ReadManifestFails(a) PROVE TrainersStarted'
  BY <1>16 DEF ReadManifestFails
<1>17. ASSUME NEW p \in puts, StorePut(p) PROVE TrainersStarted'
  BY <1>17 DEF StorePut
<1>18. ASSUME NEW p \in puts, StoreFails(p) PROVE TrainersStarted'
  BY <1>18 DEF StoreFails
<1>19. CASE UNCHANGED vars
  BY <1>19 DEF vars
<1> QED
  BY <1>1, <1>2, <1>3, <1>4, <1>5, <1>6, <1>7, <1>8, <1>9, <1>10, <1>11, <1>12, <1>13,
     <1>14, <1>15, <1>16, <1>17, <1>18, <1>19 DEF Next, Reading, Training, Uploading,
     Storing

(* IInv is an invariant of the checkpoints (save_checkpoint, train.py).      *)
THEOREM CheckpointsInvariance == Spec => []IInv
<1>1. IInv /\ [Next]_vars => IInv'
  BY NextTypeOK, NextTrainersStarted, NextEntriesAreStored, NextWritesAreBacked,
     NextOnlyTrainersUpload
     DEF IInv
<1> QED BY <1>1, InitIInv, PTL DEF Spec

(* Every reachable state is well typed. *)
THEOREM CheckpointsTypeCorrect == Spec => []TypeOK
BY CheckpointsInvariance, PTL DEF IInv

(* Whatever crashes, fails, times out or is stored late, what the manifest  *)
(* lists is in the store: no resume and no download misses its blob.        *)
THEOREM ManifestIsBacked == Spec => []EntriesAreStored
BY CheckpointsInvariance, PTL DEF IInv

-----------------------------------------------------------------------------
(* The writes that are not overdue are of the current attempt's trainers,  *)
(* while they train or after they died.                                    *)
LEMMA PutsOfTrainers ==
  ASSUME IInv, OnePutAtATime, NEW p \in Prompt
  PROVE  /\ p \in Request /\ p.by \in Attempts
         /\ p.by = attempt /\ Authorized(p.by)
         /\ phase[p.by] \in {"training", "dead"}
         /\ phase[p.by] = "training" =>
              p = Put(p.by) /\ up[p.by].pc = p.kind /\ up[p.by].entry = p.entry
<1>1. p \in Request /\ Authorized(p.by) /\ (p = Put(p.by) \/ phase[p.by] = "dead")
  BY DEF IInv, TypeOK, OnePutAtATime, Prompt
<1>2. p.by \in Attempts /\ p.kind \in {"blob", "manifest"}
  BY <1>1, RequestParts
<1>3. CASE phase[p.by] = "dead"
  BY <1>1, <1>2, <1>3 DEF Authorized
<1>4. CASE p = Put(p.by)
  <2>1. up[p.by].pc = p.kind /\ up[p.by].entry = p.entry
    BY <1>4 DEF Put
  <2>2. phase[p.by] = "training"
    BY <1>2, <2>1 DEF IInv, OnlyTrainersUpload
  <2> QED BY <1>1, <1>2, <1>4, <2>1, <2>2 DEF Authorized
<1> QED BY <1>1, <1>3, <1>4

(* A thread that is not idle is of a trainer in its loop, so no write of   *)
(* its attempt is under way unless it is the thread's own.                 *)
LEMMA PutsOfTheThread ==
  ASSUME IInv, OnePutAtATime, NEW p \in Prompt, up[p.by].pc # "idle"
  PROVE  p = Put(p.by) /\ up[p.by].pc = p.kind
<1>1. phase[p.by] = "training"
  BY PutsOfTrainers DEF IInv, OnlyTrainersUpload
<1> QED BY <1>1, PutsOfTrainers

(* The store answers a write: if it was overdue the others remain, and     *)
(* none of their threads moves; if not there is none left.                 *)
LEMMA StoreAnswers ==
  ASSUME IInv, OnePutAtATime, NEW p \in puts, StorePut(p) \/ StoreFails(p)
  PROVE  /\ p \in Request /\ p.by \in Attempts /\ p.kind \in {"blob", "manifest"}
         /\ UNCHANGED <<attempt, lease, done, phase, at, resumed, forgot>>
         /\ strays \subseteq strays' /\ unsaved \subseteq unsaved'
         /\ p \in overdue => /\ Prompt' = Prompt
                             /\ \A q \in Prompt : up'[q.by] = up[q.by]
         /\ p \notin overdue => p \in Prompt /\ Prompt' = {}
         /\ \A b \in Attempts : up'[b] # up[b] => b = p.by /\ p = Put(b)
<1>1. p \in Request /\ p.by \in Attempts /\ p.kind \in {"blob", "manifest"}
  BY RequestParts DEF IInv, TypeOK
<1>2. UNCHANGED <<attempt, lease, done, phase, at, resumed, forgot>>
  BY DEF StorePut, StoreFails, jobVars, loopVars
<1>3. strays \subseteq strays' /\ unsaved \subseteq unsaved'
  BY DEF StorePut, StoreFails
<1>4. \A b \in Attempts : up'[b] # up[b] => b = p.by /\ p = Put(b)
  BY DEF StorePut, StoreFails, IInv, TypeOK
<1>5. puts' = puts \ {p} /\ overdue' = overdue \ {p}
  BY DEF StorePut, StoreFails
<1>6. ASSUME p \in overdue
      PROVE  Prompt' = Prompt /\ \A q \in Prompt : up'[q.by] = up[q.by]
  <2>1. Prompt' = Prompt
    BY <1>5, <1>6 DEF Prompt
  <2>2. ASSUME NEW q \in Prompt, up'[q.by] # up[q.by] PROVE FALSE
    <3>1. q.by = p.by /\ p = Put(q.by)
      BY <1>4, <2>2, PutsOfTrainers
    <3>2. up[q.by].pc = p.kind
      BY <3>1 DEF Put
    <3>3. q = Put(q.by)
      BY <1>1, <3>2, PutsOfTheThread
    <3> QED BY <1>6, <3>1, <3>3 DEF Prompt
  <2> QED BY <2>1, <2>2
<1>7. ASSUME p \notin overdue PROVE p \in Prompt /\ Prompt' = {}
  BY <1>5, <1>7 DEF Prompt, OnePutAtATime
<1> QED BY <1>1, <1>2, <1>3, <1>4, <1>6, <1>7

(* The lease check admits one attempt, whose thread waits for each answer; *)
(* when the lease ends, or the thread gives up, the write is overdue.      *)
LEMMA NextOnePutAtATime ==
  ASSUME IInv, OnePutAtATime, [Next]_vars
  PROVE  OnePutAtATime'
<1> USE DEF IInv, OnePutAtATime, jobVars, loopVars, storeVars, history
<1>1. CASE StartAttempt
  <2>1. ASSUME NEW p \in Prompt PROVE FALSE
    <3>1. p.by = attempt /\ attempt \in Attempts /\ lease[attempt] = "ACTIVE"
      BY PutsOfTrainers DEF Authorized
    <3> QED BY <1>1, <3>1, CheckpointsAssumption DEF StartAttempt, Attempts
  <2>2. Prompt' = {}
    BY <1>1, <2>1 DEF StartAttempt, Prompt
  <2> QED BY <2>2
<1>2. CASE EndAttempt
  <2>1. Prompt' = {}
    BY <1>2 DEF EndAttempt, Prompt
  <2> QED BY <2>1
<1>3. ASSUME NEW a \in Attempts, KillTrainer(a) PROVE OnePutAtATime'
  <2>1. ASSUME NEW p \in Prompt, p.by = a PROVE phase'[p.by] = "dead"
    BY <1>3, <2>1 DEF KillTrainer, TypeOK
  <2>2. ASSUME NEW p \in Prompt, p.by # a
        PROVE  up'[p.by] = up[p.by] /\ phase'[p.by] = phase[p.by]
    BY <1>3, <2>2 DEF KillTrainer, TypeOK
  <2>3. Prompt' = Prompt /\ attempt' = attempt /\ lease' = lease
    BY <1>3 DEF KillTrainer, Prompt
  <2> QED BY <2>1, <2>2, <2>3 DEF Put, Authorized
<1>4. ASSUME NEW a \in Attempts, CompleteAttempt(a) PROVE OnePutAtATime'
  <2>1. Prompt' = {}
    BY <1>4 DEF CompleteAttempt, Prompt
  <2> QED BY <2>1
<1>5. ASSUME NEW a \in Attempts, NEW r \in Ranks,
             ReadLatest(a, r) \/ ReadLatestFails(a, r)
      PROVE  OnePutAtATime'
  <2>1. UNCHANGED <<attempt, lease, phase, up>> /\ Prompt' = Prompt
    BY <1>5 DEF ReadLatest, ReadLatestFails, Prompt
  <2> QED BY <2>1 DEF Put, Authorized
<1>6. ASSUME NEW a \in Attempts,
             FormCohort(a) \/ FinishTraining(a) \/ \E r \in Ranks : ReadBlobFails(a, r)
      PROVE  OnePutAtATime'
  <2>1. UNCHANGED <<attempt, lease, up>> /\ Prompt' = Prompt
    BY <1>6 DEF FormCohort, FinishTraining, ReadBlobFails, Prompt
  <2>2. \A b \in Attempts : phase[b] = "dead" => phase'[b] = "dead"
    BY <1>6 DEF FormCohort, FinishTraining, ReadBlobFails, TypeOK
  <2> QED BY <2>1, <2>2, PutsOfTrainers DEF Put, Authorized
<1>7. ASSUME NEW a \in Attempts, TrainInterval(a) \/ EndEpoch(a) PROVE OnePutAtATime'
  <2>1. /\ UNCHANGED <<attempt, lease, phase>> /\ Prompt' = Prompt /\ phase[a] = "training"
        /\ \A b \in Attempts : b # a \/ up[a].pc # "idle" => up'[b] = up[b]
    BY <1>7 DEF TrainInterval, EndEpoch, Prompt, TypeOK
  <2>2. ASSUME NEW p \in Prompt PROVE up'[p.by] = up[p.by]
    <3>1. p.by = a => up[a].pc # "idle"
      BY <2>1, PutsOfTrainers, RequestParts
    <3> QED BY <2>1, <3>1, PutsOfTrainers
  <2> QED BY <2>1, <2>2 DEF Put, Authorized
<1>8. ASSUME NEW a \in Attempts, PutGranted(a) PROVE OnePutAtATime'
  <2>1. ASSUME NEW p \in Prompt PROVE FALSE
    <3>1. p.by = a /\ up[a].pc # "idle"
      BY <1>8 DEF PutGranted, Authorized, Writing
    <3>2. p = Put(a)
      BY <3>1, PutsOfTheThread
    <3> QED BY <1>8, <3>2 DEF PutGranted, Waiting, Prompt
  <2>2. Prompt' = {Put(a)}
    BY <1>8, <2>1 DEF PutGranted, Prompt, Waiting, TypeOK
  <2>3. UNCHANGED <<up, attempt, lease>> /\ Authorized(a) /\ Put(a).by = a
    BY <1>8 DEF PutGranted, Put
  <2> QED BY <2>2, <2>3 DEF Put, Authorized
<1>9. ASSUME NEW a \in Attempts,
             PutRefused(a) \/ GiveUp(a) \/ ReadManifest(a) \/ ReadManifestFails(a)
      PROVE  OnePutAtATime'
  <2>1. /\ UNCHANGED <<attempt, lease, phase>> /\ up[a].pc # "idle" /\ Prompt' \subseteq Prompt
        /\ \A b \in Attempts : b # a => up'[b] = up[b]
    BY <1>9 DEF PutRefused, GiveUp, ReadManifest, ReadManifestFails, Writing, Waiting,
       Prompt, TypeOK
  <2>2. ASSUME NEW p \in Prompt', p.by = a PROVE FALSE
    <3>1. p = Put(a) /\ up[a].pc = p.kind /\ Authorized(a) /\ p.kind # "read"
      BY <2>1, <2>2, PutsOfTheThread, PutsOfTrainers, RequestParts
    <3>2. GiveUp(a)
      BY <1>9, <3>1 DEF PutRefused, ReadManifest, ReadManifestFails
    <3> QED BY <3>1, <3>2, <2>2 DEF GiveUp, Prompt
  <2>3. \A p \in Prompt' : up'[p.by] = up[p.by]
    BY <2>1, <2>2, PutsOfTrainers
  <2> QED BY <2>1, <2>3 DEF Put, Authorized
<1>10. ASSUME NEW p \in puts, StorePut(p) \/ StoreFails(p) PROVE OnePutAtATime'
  <2>1. CASE p \notin overdue
    BY <1>10, <2>1, StoreAnswers
  <2>2. CASE p \in overdue
    <3>1. /\ UNCHANGED <<attempt, lease, phase>> /\ Prompt' = Prompt
          /\ \A q \in Prompt : up'[q.by] = up[q.by]
      BY <1>10, <2>2, StoreAnswers
    <3> QED BY <3>1 DEF Put, Authorized
  <2> QED BY <2>1, <2>2
<1>11. CASE UNCHANGED vars
  BY <1>11 DEF vars, Authorized, Put, Prompt
<1> QED
  BY <1>1, <1>2, <1>3, <1>4, <1>5, <1>6, <1>7, <1>8, <1>9, <1>10, <1>11
     DEF Next, Reading, Training, Uploading, Storing

(* The current attempt alone writes the manifest, one write at a time, so  *)
(* what its thread has read is what is there when it writes, but for what  *)
(* an overdue write has brought.                                           *)
LEMMA NextWriterKnowsManifest ==
  ASSUME IInv, OnePutAtATime, WriterKnowsManifest, [Next]_vars
  PROVE  WriterKnowsManifest'
<1> USE DEF IInv, WriterKnowsManifest, jobVars, loopVars, storeVars, history
<1>1. CASE StartAttempt
  <2>1. /\ UNCHANGED <<up, manifest, strays>> /\ Prompt' = Prompt
        /\ \A a \in Attempts : Authorized(a)' => phase'[a] = "reading"
    BY <1>1 DEF StartAttempt, Authorized, TypeOK, Prompt
  <2>2. \A a \in Attempts : up'[a].pc = "manifest" => phase'[a] = "training"
    BY <1>1, NextOnlyTrainersUpload DEF OnlyTrainersUpload
  <2> QED BY <2>1, <2>2
<1>2. CASE EndAttempt
  <2>1. /\ UNCHANGED <<up, manifest, strays>> /\ Prompt' = {}
        /\ \A a \in Attempts : Authorized(a)' => Authorized(a)
    BY <1>2 DEF EndAttempt, Authorized, TypeOK, Prompt
  <2> QED BY <2>1
<1>3. ASSUME NEW a \in Attempts, CompleteAttempt(a) PROVE WriterKnowsManifest'
  <2>1. /\ UNCHANGED <<up, manifest, strays>> /\ Prompt' = {}
        /\ \A b \in Attempts : Authorized(b)' => Authorized(b)
    BY <1>3 DEF CompleteAttempt, Authorized, TypeOK, Prompt
  <2> QED BY <2>1
<1>4. ASSUME NEW a \in Attempts,
             \/ KillTrainer(a) \/ FormCohort(a) \/ FinishTraining(a)
             \/ \E r \in Ranks : ReadLatest(a, r) \/ ReadLatestFails(a, r) \/ ReadBlobFails(a, r)
      PROVE  WriterKnowsManifest'
  <2>1. UNCHANGED <<attempt, lease, manifest, strays>> /\ Prompt' = Prompt
    BY <1>4 DEF KillTrainer, FormCohort, FinishTraining, ReadLatest, ReadLatestFails,
       ReadBlobFails, Prompt
  <2>2. \A b \in Attempts : up'[b] = up[b] \/ up'[b].pc = "idle"
    BY <1>4 DEF KillTrainer, FormCohort, FinishTraining, ReadLatest, ReadLatestFails,
       ReadBlobFails, Idle, TypeOK
  <2> QED BY <2>1, <2>2 DEF Authorized
<1>5. ASSUME NEW a \in Attempts, TrainInterval(a) \/ EndEpoch(a) PROVE WriterKnowsManifest'
  <2>1. UNCHANGED <<attempt, lease, manifest, strays>> /\ Prompt' = Prompt
    BY <1>5 DEF TrainInterval, EndEpoch, Prompt
  <2>2. \A b \in Attempts : up'[b] = up[b] \/ up'[b].pc = "blob"
    BY <1>5 DEF TrainInterval, EndEpoch, Save, TypeOK
  <2> QED BY <2>1, <2>2 DEF Authorized
<1>6. ASSUME NEW a \in Attempts, PutGranted(a) PROVE WriterKnowsManifest'
  <2>1. /\ UNCHANGED <<attempt, lease, up, manifest, strays>> /\ Authorized(a)
        /\ Prompt' \subseteq Prompt \cup {Put(a)}
    BY <1>6 DEF PutGranted, Prompt
  <2>2. Put(a).kind = "manifest" => manifest.entries \subseteq Put(a).entries \cup strays
    BY <2>1 DEF Put
  <2> QED BY <2>1, <2>2 DEF Authorized
<1>7. ASSUME NEW a \in Attempts, PutRefused(a) \/ GiveUp(a) \/ ReadManifestFails(a)
      PROVE  WriterKnowsManifest'
  <2>1. UNCHANGED <<attempt, lease, manifest, strays>> /\ Prompt' \subseteq Prompt
    BY <1>7 DEF PutRefused, GiveUp, ReadManifestFails, Prompt
  <2>2. \A b \in Attempts : up'[b] = up[b] \/ up'[b].pc = "idle"
    BY <1>7 DEF PutRefused, GiveUp, ReadManifestFails, AfterFailure, Idle, TypeOK
  <2> QED BY <2>1, <2>2 DEF Authorized
<1>8. ASSUME NEW a \in Attempts, ReadManifest(a) PROVE WriterKnowsManifest'
  <2>1. UNCHANGED <<attempt, lease, manifest, strays>> /\ Prompt' = Prompt
    BY <1>8 DEF ReadManifest, Prompt
  <2>2. \A b \in Attempts : b # a => up'[b] = up[b]
    BY <1>8 DEF ReadManifest, TypeOK
  <2>3. up'[a].base = manifest.entries
    BY <1>8 DEF ReadManifest, TypeOK, Upload
  <2> QED BY <2>1, <2>2, <2>3 DEF Authorized
<1>9. ASSUME NEW p \in puts, StorePut(p) PROVE WriterKnowsManifest'
  <2>1. \A b \in Attempts : up'[b].pc = "manifest" => up'[b] = up[b]
    <3>1. \A b \in Attempts : up'[b] = up[b] \/ up'[b].pc \in {"read", "idle"}
      BY <1>9 DEF StorePut, Idle, TypeOK
    <3> QED BY <3>1
  <2>2. CASE p.kind = "blob"
    <3>1. UNCHANGED <<manifest, strays>> /\ Prompt' \subseteq Prompt
      BY <1>9, <2>2, StoreAnswers DEF StorePut
    <3> QED BY <1>9, <2>1, <3>1, StoreAnswers DEF Authorized
  <2>3. CASE p.kind = "manifest" /\ p \in overdue
    <3>1. manifest'.entries \subseteq manifest.entries \cup strays'
      BY <1>9, <2>3 DEF StorePut
    <3> QED BY <1>9, <2>1, <2>3, <3>1, StoreAnswers DEF Authorized
  <2>4. CASE p.kind = "manifest" /\ p \notin overdue
    <3>1. p \in Prompt /\ Prompt' = {} /\ UNCHANGED <<attempt, lease>>
      BY <1>9, <2>4, StoreAnswers
    <3>2. \A b \in Attempts : Authorized(b)' => b = p.by
      BY <3>1, PutsOfTrainers DEF Authorized
    <3>3. up'[p.by].pc # "manifest"
      <4>1. CASE p = Put(p.by)
        BY <1>9, <2>4, <4>1, PutsOfTrainers, <3>1 DEF StorePut, TypeOK, Idle
      <4>2. CASE up[p.by].pc = "idle"
        BY <2>1, <4>2, <3>1, PutsOfTrainers
      <4> QED BY <3>1, <4>1, <4>2, PutsOfTheThread
    <3> QED BY <3>1, <3>2, <3>3
  <2> QED BY <1>9, <2>2, <2>3, <2>4, StoreAnswers
<1>10. ASSUME NEW p \in puts, StoreFails(p) PROVE WriterKnowsManifest'
  <2>1. UNCHANGED <<attempt, lease, manifest, strays>> /\ Prompt' \subseteq Prompt
    BY <1>10, StoreAnswers DEF StoreFails
  <2>2. \A b \in Attempts : up'[b] = up[b] \/ up'[b].pc = "idle"
    BY <1>10 DEF StoreFails, AfterFailure, Idle, TypeOK
  <2> QED BY <2>1, <2>2 DEF Authorized
<1>11. CASE UNCHANGED vars
  BY <1>11 DEF vars, Authorized, Prompt
<1> QED
  BY <1>1, <1>2, <1>3, <1>4, <1>5, <1>6, <1>7, <1>8, <1>9, <1>10, <1>11
     DEF Next, Reading, Training, Uploading, Storing

(* The attempt that starts has nothing of its own yet. *)
LEMMA FreshAttempt ==
  ASSUME IInv, StartAttempt
  PROVE  /\ attempt + 1 \in Attempts /\ phase[attempt + 1] = "absent"
         /\ attempt' = attempt + 1 /\ phase'[attempt + 1] = "reading"
         /\ \A b \in Attempts : Authorized(b)' => b = attempt + 1
         /\ \A b \in Attempts : b # attempt + 1 => phase'[b] = phase[b]
<1>1. attempt + 1 \in Attempts /\ attempt' = attempt + 1
  BY CheckpointsAssumption DEF StartAttempt, IInv, TypeOK, Attempts
<1>2. phase[attempt + 1] = "absent"
  BY <1>1 DEF IInv, TrainersStarted, Attempts, TypeOK
<1>3. /\ phase'[attempt + 1] = "reading"
      /\ \A b \in Attempts : b # attempt + 1 => phase'[b] = phase[b]
  BY <1>1 DEF StartAttempt, IInv, TypeOK
<1>4. \A b \in Attempts : Authorized(b)' => b = attempt + 1
  BY <1>1 DEF Authorized
<1> QED BY <1>1, <1>2, <1>3, <1>4

(* A rank forgets when it starts afresh, and it starts once. *)
LEMMA NextForgottenIsFresh ==
  ASSUME IInv, ForgottenIsFresh, [Next]_vars
  PROVE  ForgottenIsFresh'
<1> USE DEF ForgottenIsFresh, jobVars, loopVars, storeVars, history
<1>0. /\ resumed \in [Attempts -> [Ranks -> Entry \cup {Fresh, Unread}]]
      /\ Fresh # Unread
  BY DEF IInv, TypeOK, Fresh, Unread
<1>1. ASSUME NEW a \in Attempts, NEW r \in Ranks, ReadLatest(a, r) PROVE ForgottenIsFresh'
  <2>1. <<a, r>> \notin forgot /\ forgot' = forgot
    BY <1>0, <1>1 DEF ReadLatest
  <2>2. \A b \in Attempts, q \in Ranks : <<b, q>> # <<a, r>> => resumed'[b][q] = resumed[b][q]
    BY <1>0, <1>1 DEF ReadLatest
  <2> QED BY <2>1, <2>2
<1>2. ASSUME NEW a \in Attempts, NEW r \in Ranks, ReadLatestFails(a, r)
      PROVE  ForgottenIsFresh'
  <2>1. resumed'[a][r] = Fresh /\ forgot' \subseteq forgot \cup {<<a, r>>}
    BY <1>0, <1>2 DEF ReadLatestFails
  <2>2. \A b \in Attempts, q \in Ranks : <<b, q>> # <<a, r>> => resumed'[b][q] = resumed[b][q]
    BY <1>0, <1>2 DEF ReadLatestFails
  <2> QED BY <2>1, <2>2
<1>3. CASE UNCHANGED <<resumed, forgot>>
  BY <1>3
<1> QED
  BY <1>1, <1>2, <1>3
     DEF Next, Reading, Training, Uploading, Storing, vars, StartAttempt, EndAttempt,
         KillTrainer, CompleteAttempt, ReadBlobFails, FormCohort, TrainInterval, EndEpoch,
         FinishTraining, PutGranted, PutRefused, GiveUp, ReadManifest, ReadManifestFails,
         StorePut, StoreFails

(* A rank that has read the latest agrees with every rank that has read,   *)
(* if these hold the latest too or the latest is a stray.                  *)
LEMMA ReadersAgree ==
  ASSUME IInv, RanksAgree, NEW a \in Attempts, NEW r \in Ranks, NEW f,
         Authorized(a), phase[a] = "reading",
         resumed' = [resumed EXCEPT ![a][r] = f], forgot \subseteq forgot',
         UNCHANGED <<attempt, lease, phase, manifest, strays>>,
         f = manifest.latest \/ <<a, r>> \in forgot'
  PROVE  RanksAgree'
<1>0. resumed \in [Attempts -> [Ranks -> Entry \cup {Fresh, Unread}]]
  BY DEF IInv, TypeOK
<1>1. /\ resumed'[a][r] = f
      /\ \A q \in Ranks : q # r => resumed'[a][q] = resumed[a][q]
      /\ \A b \in Attempts : b # a => resumed'[b] = resumed[b]
  BY <1>0
<1>2. \/ manifest.latest \in strays
      \/ \A q \in Ranks :
           resumed'[a][q] \in {Unread, manifest.latest} \/ <<a, q>> \in forgot'
  BY <1>1 DEF RanksAgree
<1>3. ASSUME NEW q \in Ranks, resumed'[a][q] # Unread
      PROVE  Alike(a, q, r)' /\ Alike(a, r, q)'
  <2>1. CASE q = r
    BY <2>1 DEF Alike
  <2>2. CASE manifest.latest \in strays
    BY <1>1, <2>2 DEF Alike
  <2>3. CASE manifest.latest \notin strays
    BY <1>1, <1>2, <1>3, <2>3 DEF Alike
  <2> QED BY <2>2, <2>3
<1>4. ASSUME NEW q \in Ranks, NEW s \in Ranks,
             Unread \notin {resumed'[a][q], resumed'[a][s]}
      PROVE  Alike(a, q, s)'
  <2>1. CASE q = r \/ s = r
    BY <1>3, <1>4, <2>1
  <2>2. CASE q # r /\ s # r
    BY <1>1, <1>4, <2>2 DEF RanksAgree, Alike
  <2> QED BY <2>1, <2>2
<1>5. ASSUME NEW b \in Attempts, NEW q \in Ranks, NEW s \in Ranks, b # a, Alike(b, q, s)
      PROVE  Alike(b, q, s)'
  BY <1>1, <1>5 DEF Alike
<1> QED BY <1>1, <1>2, <1>4, <1>5 DEF RanksAgree, Authorized, Started

(* A step that touches neither what ranks have read nor the manifest, and  *)
(* starts nobody's reading or training, keeps the ranks agreed.            *)
LEMMA AgreementKept ==
  ASSUME RanksAgree, UNCHANGED <<resumed, forgot, manifest, strays>>,
         \A b \in Attempts : Authorized(b)' => Authorized(b),
         \A b \in Attempts :
           \/ phase'[b] = phase[b] \/ phase'[b] = "dead"
           \/ phase[b] \in Started /\ phase'[b] \in Started
  PROVE  RanksAgree'
BY DEF RanksAgree, Alike, Started

(* Between the start of an attempt and its last read only overdue writes   *)
(* are stored.                                                             *)
LEMMA NextRanksAgree ==
  ASSUME IInv, OnePutAtATime, RanksAgree, [Next]_vars
  PROVE  RanksAgree'
<1> USE DEF jobVars, loopVars, storeVars, history
<1>0. /\ phase \in [Attempts -> {"absent", "reading", "training", "reported", "dead"}]
      /\ lease \in [Attempts -> {"NONE", "ACTIVE", "ENDED"}]
      /\ resumed \in [Attempts -> [Ranks -> Entry \cup {Fresh, Unread}]]
  BY DEF IInv, TypeOK
<1>1. CASE StartAttempt
  <2>1. UNCHANGED <<resumed, forgot, manifest, strays>>
    BY <1>1 DEF StartAttempt
  <2>2. \A r \in Ranks : resumed'[attempt + 1][r] = Unread
    BY <1>1, <2>1, FreshAttempt DEF RanksAgree
  <2> QED BY <1>1, <2>1, <2>2, FreshAttempt DEF RanksAgree, Started, Alike
<1>2. CASE EndAttempt \/ \E a \in Attempts : CompleteAttempt(a)
  <2>1. \A b \in Attempts : Authorized(b)' => Authorized(b)
    BY <1>0, <1>2 DEF EndAttempt, CompleteAttempt, Authorized
  <2>2. UNCHANGED <<phase, resumed, forgot, manifest, strays>>
    BY <1>2 DEF EndAttempt, CompleteAttempt
  <2> QED BY <2>1, <2>2, AgreementKept
<1>3. ASSUME NEW a \in Attempts, NEW r \in Ranks, ReadLatest(a, r) PROVE RanksAgree'
  BY <1>3, ReadersAgree DEF ReadLatest, MayRead
<1>4. ASSUME NEW a \in Attempts, NEW r \in Ranks, ReadLatestFails(a, r) PROVE RanksAgree'
  <2>1. CASE Authorized(a)
    BY <1>4, <2>1, ReadersAgree DEF ReadLatestFails, MayRead
  <2>2. CASE ~Authorized(a)
    <3>1. UNCHANGED <<attempt, lease, phase, manifest, strays, forgot>> /\ phase[a] = "reading"
      BY <1>4, <2>2 DEF ReadLatestFails, MayRead
    <3>2. \A b \in Attempts : b # a => resumed'[b] = resumed[b]
      BY <1>0, <1>4 DEF ReadLatestFails
    <3>3. \A b \in Attempts, q, s \in Ranks : b # a /\ Alike(b, q, s) => Alike(b, q, s)'
      BY <3>1, <3>2 DEF Alike
    <3> QED BY <2>2, <3>1, <3>2, <3>3 DEF RanksAgree, Authorized, Started
  <2> QED BY <2>1, <2>2
<1>5. ASSUME NEW a \in Attempts, FormCohort(a) PROVE RanksAgree'
  <2>1. /\ UNCHANGED <<attempt, lease, resumed, manifest, strays, forgot>>
        /\ phase[a] = "reading" /\ \A r \in Ranks : resumed[a][r] # Unread
    BY <1>5 DEF FormCohort
  <2>2. phase'[a] = "training" /\ \A b \in Attempts : b # a => phase'[b] = phase[b]
    BY <1>0, <1>5 DEF FormCohort
  <2>3. Authorized(a) => \A r, s \in Ranks : Alike(a, r, s)
    BY <2>1 DEF RanksAgree
  <2>4. \A b \in Attempts, q, s \in Ranks : Alike(b, q, s) => Alike(b, q, s)'
    BY <2>1 DEF Alike
  <2> QED BY <2>1, <2>2, <2>3, <2>4 DEF RanksAgree, Authorized, Started
<1>6. ASSUME NEW a \in Attempts,
             KillTrainer(a) \/ FinishTraining(a) \/ \E r \in Ranks : ReadBlobFails(a, r)
      PROVE  RanksAgree'
  <2>1. UNCHANGED <<attempt, lease, resumed, manifest, strays, forgot>>
    BY <1>6 DEF KillTrainer, FinishTraining, ReadBlobFails
  <2>2. \A b \in Attempts :
          \/ phase'[b] = phase[b] \/ phase'[b] = "dead"
          \/ phase[b] \in Started /\ phase'[b] \in Started
    BY <1>0, <1>6 DEF KillTrainer, FinishTraining, ReadBlobFails, Started
  <2> QED BY <2>1, <2>2, AgreementKept DEF Authorized
<1>7. ASSUME NEW p \in puts, StorePut(p) PROVE RanksAgree'
  <2>1. UNCHANGED <<attempt, lease, phase, resumed, forgot>> /\ strays \subseteq strays'
    BY <1>7, StoreAnswers
  <2>2. \A b \in Attempts, q, s \in Ranks : Alike(b, q, s) => Alike(b, q, s)'
    BY <2>1 DEF Alike
  <2>3. CASE p.kind = "blob"
    <3>1. UNCHANGED <<manifest, strays>>
      BY <1>7, <2>3 DEF StorePut
    <3> QED BY <2>1, <3>1, AgreementKept DEF Authorized
  <2>4. CASE p.kind = "manifest" /\ p \in overdue
    <3>1. manifest'.latest \in strays'
      BY <1>7, <2>4 DEF StorePut
    <3> QED BY <2>1, <2>2, <3>1 DEF RanksAgree, Authorized, Started
  <2>5. CASE p \notin overdue
    <3>1. \A b \in Attempts : Authorized(b) => b = p.by /\ phase[b] # "reading"
      BY <1>7, <2>5, StoreAnswers, PutsOfTrainers DEF Authorized
    <3> QED BY <2>1, <2>2, <3>1 DEF RanksAgree, Authorized, Started
  <2> QED BY <1>7, <2>3, <2>4, <2>5, StoreAnswers
<1>8. CASE UNCHANGED <<attempt, lease, phase, resumed, forgot, manifest, strays>>
  BY <1>8, AgreementKept DEF Authorized
<1> QED
  BY <1>1, <1>2, <1>3, <1>4, <1>5, <1>6, <1>7, <1>8
     DEF Next, Reading, Training, Uploading, Storing, vars, TrainInterval, EndEpoch,
         PutGranted, PutRefused, GiveUp, ReadManifest, ReadManifestFails, StoreFails

(* What a save begins with is where the loop is. *)
LEMMA SaveIsOf ==
  ASSUME NEW a \in Attempts, NEW pos \in Position
  PROVE  /\ Save(a, pos).pc = "blob" /\ Save(a, pos).entry.step = pos.step
         /\ Save(a, pos).entry.epoch = pos.epoch /\ Save(a, pos).entry.by = a
BY DEF Save

(* Going further is transitive. *)
LEMMA NoLaterTransitive ==
  ASSUME NEW e \in Entry \cup {Fresh} \cup Position, NEW f \in Entry \cup {Fresh} \cup Position,
         NEW g \in Entry \cup {Fresh} \cup Position, NoLater(e, f), NoLater(f, g)
  PROVE  NoLater(e, g)
<1>1. \A x \in Entry \cup {Fresh} \cup Position : x.step \in Nat /\ x.epoch \in Nat
  BY DEF Entry, Fresh, Position
<1>2. /\ e.step \in Nat /\ e.epoch \in Nat /\ f.step \in Nat /\ f.epoch \in Nat
      /\ g.step \in Nat /\ g.epoch \in Nat
  BY <1>1
<1> QED BY <1>2 DEF NoLater

(* The loop goes on to a further position, and an idle thread saves it.    *)
LEMMA LoopMoves ==
  ASSUME IInv, NEW a \in Attempts, TrainInterval(a) \/ EndEpoch(a)
  PROVE  /\ UNCHANGED <<jobVars, phase, resumed, storeVars, history>> /\ phase[a] = "training"
         /\ \E pos \in Position :
              /\ NoLater(at[a], pos) /\ at'[a] = pos
              /\ up'[a] = IF up[a].pc = "idle" THEN Save(a, pos) ELSE up[a]
         /\ \A b \in Attempts : b # a => at'[b] = at[b] /\ up'[b] = up[b]
<1>0. up \in [Attempts -> Upload] /\ at \in [Attempts -> Position]
  BY DEF IInv, TypeOK
<1>1. CASE TrainInterval(a)
  <2> DEFINE pos == [at[a] EXCEPT !.batch = @ + 1, !.step = @ + 1]
  <2>1. pos \in Position /\ NoLater(at[a], pos)
    BY <1>0, PositionMoves
  <2> QED BY <1>0, <1>1, <2>1 DEF TrainInterval
<1>2. CASE EndEpoch(a)
  <2> DEFINE pos == [at[a] EXCEPT !.epoch = @ + 1, !.batch = 0]
  <2>1. pos \in Position /\ NoLater(at[a], pos)
    BY <1>0, PositionMoves
  <2> QED BY <1>0, <1>2, <2>1 DEF EndEpoch
<1> QED BY <1>1, <1>2

(* Unless a trainer saves, a thread that is not idle goes on with what it   *)
(* was saving.                                                             *)
LEMMA UploadsGoOn ==
  ASSUME IInv, OnePutAtATime,
         \/ UNCHANGED up
         \/ \E a \in Attempts : \/ KillTrainer(a) \/ PutRefused(a) \/ GiveUp(a)
                                \/ ReadManifest(a) \/ ReadManifestFails(a)
         \/ \E p \in puts : StorePut(p) \/ StoreFails(p)
  PROVE  \A b \in Attempts :
           up'[b].pc # "idle" => up[b].pc # "idle" /\ up'[b].entry = up[b].entry
<1>0. up \in [Attempts -> Upload]
  BY DEF IInv, TypeOK
<1>1. CASE UNCHANGED up
  BY <1>1
<1>2. ASSUME NEW a \in Attempts,
             KillTrainer(a) \/ PutRefused(a) \/ GiveUp(a) \/ ReadManifestFails(a)
      PROVE  \A b \in Attempts : up'[b] = up[b] \/ up'[b].pc = "idle"
  BY <1>0, <1>2
     DEF KillTrainer, PutRefused, GiveUp, ReadManifestFails, AfterFailure, Idle
<1>3. ASSUME NEW a \in Attempts, ReadManifest(a)
      PROVE  /\ up[a].pc # "idle" /\ up'[a].entry = up[a].entry
             /\ \A b \in Attempts : b # a => up'[b] = up[b]
  BY <1>0, <1>3 DEF ReadManifest, Upload
<1>4. ASSUME NEW p \in puts, StorePut(p)
      PROVE  /\ up'[p.by].pc # "idle" =>
                  up[p.by].pc # "idle" /\ up'[p.by].entry = up[p.by].entry
             /\ \A b \in Attempts : b # p.by => up'[b] = up[b]
  <2>1. p.by \in Attempts /\ p.kind \in {"blob", "manifest"}
    BY <1>4, StoreAnswers
  <2>2. Put(p.by) = p => up[p.by].pc = p.kind
    BY DEF Put
  <2> QED BY <1>0, <1>4, <2>1, <2>2 DEF StorePut, Idle, Upload
<1>5. ASSUME NEW p \in puts, StoreFails(p)
      PROVE  \A b \in Attempts : up'[b] = up[b] \/ up'[b].pc = "idle"
  BY <1>0, <1>5 DEF StoreFails, AfterFailure, Idle
<1>6. ASSUME NEW a \in Attempts,
             \/ KillTrainer(a) \/ PutRefused(a) \/ GiveUp(a)
             \/ ReadManifest(a) \/ ReadManifestFails(a)
      PROVE  \A b \in Attempts :
               up'[b].pc # "idle" => up[b].pc # "idle" /\ up'[b].entry = up[b].entry
  BY <1>2, <1>3, <1>6
<1>7. ASSUME NEW p \in puts, StorePut(p) \/ StoreFails(p)
      PROVE  \A b \in Attempts :
               up'[b].pc # "idle" => up[b].pc # "idle" /\ up'[b].entry = up[b].entry
  BY <1>4, <1>5, <1>7
<1> QED BY <1>1, <1>6, <1>7

(* A thread saves a place of its own loop, which only goes on.             *)
LEMMA NextSavesAreOwn ==
  ASSUME IInv, OnePutAtATime, SavesAreOwn, [Next]_vars
  PROVE  SavesAreOwn'
<1> USE DEF jobVars, loopVars, storeVars, SavesAreOwn
<1>0. up \in [Attempts -> Upload] /\ at \in [Attempts -> Position]
  BY DEF IInv, TypeOK
<1>1. ASSUME NEW a \in Attempts, FormCohort(a) PROVE SavesAreOwn'
  <2>1. UNCHANGED <<up, puts>> /\ phase[a] = "reading"
    BY <1>1 DEF FormCohort
  <2>2. up[a].pc = "idle" /\ \A b \in Attempts : b # a => at'[b] = at[b]
    BY <1>0, <1>1, <2>1 DEF FormCohort, IInv, OnlyTrainersUpload
  <2> QED BY <2>1, <2>2
<1>2. ASSUME NEW a \in Attempts, TrainInterval(a) \/ EndEpoch(a) PROVE SavesAreOwn'
  <2>1. PICK pos \in Position :
          /\ NoLater(at[a], pos) /\ at'[a] = pos
          /\ up'[a] = IF up[a].pc = "idle" THEN Save(a, pos) ELSE up[a]
    BY <1>2, LoopMoves
  <2>2. puts' = puts /\ \A b \in Attempts : b # a => at'[b] = at[b] /\ up'[b] = up[b]
    BY <1>2, LoopMoves
  <2>3. CASE up[a].pc = "idle"
    <3>1. NoLater(Save(a, pos).entry, pos)
      BY SaveIsOf DEF NoLater, Position
    <3> QED BY <2>1, <2>2, <2>3, <3>1, SaveIsOf
  <2>4. CASE up[a].pc # "idle"
    <3>1. up[a].entry \in Entry /\ at[a] \in Position
      BY <1>0, <2>4 DEF IInv, OnlyTrainersUpload
    <3>2. NoLater(up[a].entry, pos)
      BY <2>1, <2>4, <3>1, NoLaterTransitive
    <3> QED BY <2>1, <2>2, <2>4, <3>2
  <2> QED BY <2>3, <2>4
<1>3. ASSUME NEW a \in Attempts, PutGranted(a) PROVE SavesAreOwn'
  <2>1. UNCHANGED <<up, at>> /\ puts' = puts \cup {Put(a)} /\ up[a].pc # "idle"
    BY <1>3 DEF PutGranted, Writing
  <2>2. Put(a).by = a /\ Put(a).entry = up[a].entry
    BY DEF Put
  <2> QED BY <2>1, <2>2
<1>4. CASE \/ UNCHANGED <<up, at>> /\ puts' \subseteq puts
           \/ \E a \in Attempts : \/ KillTrainer(a) \/ PutRefused(a) \/ GiveUp(a)
                                  \/ ReadManifest(a) \/ ReadManifestFails(a)
           \/ \E p \in puts : StorePut(p) \/ StoreFails(p)
  <2>1. at' = at /\ puts' \subseteq puts
    BY <1>4 DEF KillTrainer, PutRefused, GiveUp, ReadManifest, ReadManifestFails, StorePut,
       StoreFails
  <2>2. \A b \in Attempts :
          up'[b].pc # "idle" => up[b].pc # "idle" /\ up'[b].entry = up[b].entry
    BY <1>4, UploadsGoOn
  <2> QED BY <2>1, <2>2
<1> QED
  BY <1>1, <1>2, <1>3, <1>4
     DEF Next, Reading, Training, Uploading, Storing, vars, StartAttempt, EndAttempt,
         CompleteAttempt, ReadLatest, ReadLatestFails, ReadBlobFails, FinishTraining

(* The latest checkpoint is what the cohort started from, or what it saved *)
(* since; its loop has gone on from there, unless the attempt is astray.   *)
LEMMA NextWorkAdvances ==
  ASSUME IInv, OnePutAtATime, RanksAgree, SavesAreOwn, WorkAdvances, [Next]_vars
  PROVE  WorkAdvances'
<1> USE DEF jobVars, loopVars, storeVars, history
<1>0. /\ phase \in [Attempts -> {"absent", "reading", "training", "reported", "dead"}]
      /\ lease \in [Attempts -> {"NONE", "ACTIVE", "ENDED"}]
      /\ up \in [Attempts -> Upload] /\ at \in [Attempts -> Position]
      /\ manifest.latest \in Entry \cup {Fresh} /\ 0 \in Ranks
  BY CheckpointsAssumption DEF IInv, TypeOK
<1>1. CASE StartAttempt
  <2>1. /\ UNCHANGED <<manifest, strays, forgot>> /\ Prompt' = Prompt
        /\ \A b \in Attempts : Authorized(b)' => phase'[b] = "reading"
    BY <1>1, FreshAttempt DEF StartAttempt, Prompt
  <2> QED BY <2>1 DEF WorkAdvances, Astray, Started
<1>2. CASE EndAttempt \/ \E a \in Attempts : CompleteAttempt(a)
  <2>1. \A b \in Attempts : Authorized(b)' => Authorized(b)
    BY <1>0, <1>2 DEF EndAttempt, CompleteAttempt, Authorized
  <2>2. UNCHANGED <<phase, at, up, manifest, strays, forgot>> /\ Prompt' = {}
    BY <1>2 DEF EndAttempt, CompleteAttempt, Prompt
  <2> QED BY <2>1, <2>2 DEF WorkAdvances, Astray
<1>3. ASSUME NEW a \in Attempts,
             \/ KillTrainer(a) \/ FinishTraining(a)
             \/ \E r \in Ranks : ReadLatest(a, r) \/ ReadLatestFails(a, r) \/ ReadBlobFails(a, r)
      PROVE  WorkAdvances'
  <2>1. /\ UNCHANGED <<attempt, lease, at, manifest, strays>> /\ forgot \subseteq forgot'
        /\ Prompt' = Prompt
    BY <1>3 DEF KillTrainer, FinishTraining, ReadLatest, ReadLatestFails, ReadBlobFails, Prompt
  <2>2. \A b \in Attempts : phase'[b] \in Started => phase[b] \in Started /\ up'[b] = up[b]
    BY <1>0, <1>3 DEF KillTrainer, FinishTraining, ReadLatest, ReadLatestFails, ReadBlobFails,
       Started
  <2> QED BY <2>1, <2>2 DEF WorkAdvances, Authorized, Astray
<1>4. ASSUME NEW a \in Attempts, FormCohort(a) PROVE WorkAdvances'
  <2>1. /\ UNCHANGED <<attempt, lease, up, manifest, strays, forgot>> /\ Prompt' = Prompt
        /\ phase[a] = "reading" /\ resumed[a][0] # Unread
    BY <1>0, <1>4 DEF FormCohort, Prompt
  <2>2. /\ at'[a] = StartFrom(resumed[a][0])
        /\ \A b \in Attempts : b # a => phase'[b] = phase[b] /\ at'[b] = at[b]
    BY <1>0, <1>4 DEF FormCohort
  <2>3. up[a].pc = "idle"
    BY <2>1 DEF IInv, OnlyTrainersUpload
  <2>4. ASSUME Authorized(a), ~Astray(a) PROVE NoLater(manifest.latest, at'[a])
    <3>1. resumed[a][0] = manifest.latest
      BY <1>0, <2>1, <2>4 DEF RanksAgree, Astray
    <3>2. manifest.latest.step \in Nat /\ manifest.latest.epoch \in Nat
      BY <1>0 DEF Entry, Fresh
    <3> QED BY <2>2, <3>1, <3>2 DEF NoLater, StartFrom
  <2> QED BY <2>1, <2>2, <2>3, <2>4 DEF WorkAdvances, Authorized, Astray
<1>5. ASSUME NEW a \in Attempts, TrainInterval(a) \/ EndEpoch(a) PROVE WorkAdvances'
  <2>1. PICK pos \in Position :
          /\ NoLater(at[a], pos) /\ at'[a] = pos
          /\ up'[a] = IF up[a].pc = "idle" THEN Save(a, pos) ELSE up[a]
    BY <1>5, LoopMoves
  <2>2. /\ UNCHANGED <<attempt, lease, phase, manifest, strays, forgot>> /\ Prompt' = Prompt
        /\ phase[a] \in Started
        /\ \A b \in Attempts : b # a => at'[b] = at[b] /\ up'[b] = up[b]
    BY <1>5, LoopMoves DEF Prompt, Started
  <2>3. ASSUME Authorized(a), ~Astray(a)
        PROVE  /\ NoLater(manifest.latest, pos)
               /\ up'[a].pc # "idle" => NoLater(manifest.latest, up'[a].entry)
    <3>1. NoLater(manifest.latest, at[a])
      BY <2>2, <2>3 DEF WorkAdvances
    <3>2. NoLater(manifest.latest, pos)
      BY <1>0, <2>1, <3>1, NoLaterTransitive
    <3>3. CASE up[a].pc = "idle"
      BY <2>1, <3>2, <3>3, SaveIsOf DEF NoLater
    <3>4. CASE up[a].pc # "idle"
      BY <2>1, <2>2, <2>3, <3>2, <3>4 DEF WorkAdvances
    <3> QED BY <3>2, <3>3, <3>4
  <2> QED BY <2>1, <2>2, <2>3 DEF WorkAdvances, Authorized, Astray
<1>6. ASSUME NEW a \in Attempts, PutGranted(a) PROVE WorkAdvances'
  <2>1. /\ UNCHANGED <<attempt, lease, phase, at, up, manifest, strays, forgot>>
        /\ Prompt' \subseteq Prompt \cup {Put(a)} /\ Authorized(a) /\ up[a].pc # "idle"
    BY <1>6 DEF PutGranted, Writing, Prompt
  <2>2. phase[a] \in Started /\ Put(a).entry = up[a].entry /\ Put(a).by = a
    BY <2>1 DEF IInv, OnlyTrainersUpload, Put, Started
  <2>3. Astray(a) \/ NoLater(manifest.latest, Put(a).entry)
    BY <2>1, <2>2 DEF WorkAdvances
  <2> QED BY <2>1, <2>2, <2>3 DEF WorkAdvances, Authorized, Astray
<1>7. ASSUME NEW a \in Attempts,
             PutRefused(a) \/ GiveUp(a) \/ ReadManifest(a) \/ ReadManifestFails(a)
      PROVE  WorkAdvances'
  <2>1. /\ UNCHANGED <<attempt, lease, phase, at, manifest, strays, forgot>>
        /\ Prompt' \subseteq Prompt
    BY <1>7 DEF PutRefused, GiveUp, ReadManifest, ReadManifestFails, Prompt
  <2>2. \A b \in Attempts :
          up'[b].pc # "idle" => up[b].pc # "idle" /\ up'[b].entry = up[b].entry
    BY <1>7, UploadsGoOn
  <2> QED BY <2>1, <2>2 DEF WorkAdvances, Authorized, Astray
<1>8. ASSUME NEW p \in puts, StorePut(p) \/ StoreFails(p) PROVE WorkAdvances'
  <2>1. /\ UNCHANGED <<attempt, lease, phase, at, forgot>> /\ strays \subseteq strays'
        /\ Prompt' \subseteq Prompt
    BY <1>8, StoreAnswers
  <2>2. \A b \in Attempts :
          up'[b].pc # "idle" => up[b].pc # "idle" /\ up'[b].entry = up[b].entry
    BY <1>8, UploadsGoOn
  <2>3. CASE manifest' = manifest
    BY <2>1, <2>2, <2>3 DEF WorkAdvances, Authorized, Astray
  <2>4. CASE StorePut(p) /\ p.kind = "manifest" /\ p \in overdue
    <3>1. manifest'.latest \in strays'
      BY <2>4 DEF StorePut
    <3> QED BY <3>1 DEF WorkAdvances, Astray
  <2>5. CASE StorePut(p) /\ p.kind = "manifest" /\ p \notin overdue
    <3>1. p \in Prompt /\ Prompt' = {} /\ manifest'.latest = p.entry
      <4>1. p \in Prompt /\ Prompt' = {}
        BY <2>5, StoreAnswers
      <4> QED BY <2>5, <4>1 DEF StorePut
    <3>2. \A b \in Attempts : Authorized(b)' => b = p.by
      BY <2>1, <3>1, PutsOfTrainers DEF Authorized
    <3>3. CASE phase[p.by] = "dead"
      BY <2>1, <3>1, <3>2, <3>3 DEF WorkAdvances, Started
    <3>4. CASE phase[p.by] = "training"
      <4>1. /\ p.by \in Attempts /\ p = Put(p.by) /\ up[p.by].entry = p.entry
            /\ up[p.by].pc # "idle"
        BY <3>1, <3>4, PutsOfTrainers, RequestParts
      <4>2. up'[p.by].pc = "idle" /\ NoLater(p.entry, at[p.by])
        BY <1>0, <2>5, <4>1 DEF StorePut, Idle, SavesAreOwn
      <4> QED BY <2>1, <3>1, <3>2, <4>2 DEF WorkAdvances
    <3> QED BY <3>1, <3>3, <3>4, PutsOfTrainers
  <2>6. manifest' = manifest \/ (StorePut(p) /\ p.kind = "manifest")
    <3>1. p.kind \in {"blob", "manifest"}
      BY <1>8, StoreAnswers
    <3> QED BY <1>8, <3>1 DEF StorePut, StoreFails
  <2> QED BY <2>3, <2>4, <2>5, <2>6
<1>9. CASE UNCHANGED vars
  BY <1>9 DEF vars, WorkAdvances, Authorized, Astray, Prompt
<1> QED
  BY <1>1, <1>2, <1>3, <1>4, <1>5, <1>6, <1>7, <1>8, <1>9
     DEF Next, Reading, Training, Uploading, Storing

(* No rank starts, and no save is, past the end of the last epoch.         *)
LEMMA NextEpochsAreBounded ==
  ASSUME IInv, OnePutAtATime, SavesAreOwn, EpochsAreBounded, [Next]_vars
  PROVE  EpochsAreBounded'
<1> USE DEF jobVars, loopVars, storeVars, history
<1>0. /\ phase \in [Attempts -> {"absent", "reading", "training", "reported", "dead"}]
      /\ resumed \in [Attempts -> [Ranks -> Entry \cup {Fresh, Unread}]]
      /\ up \in [Attempts -> Upload] /\ at \in [Attempts -> Position]
      /\ 0 \in Ranks /\ Epochs \in Nat \ {0} /\ Intervals \in Nat \ {0}
  BY CheckpointsAssumption DEF IInv, TypeOK
<1>1. CASE StartAttempt
  <2>1. UNCHANGED <<puts, manifest, at, resumed>>
    BY <1>1 DEF StartAttempt
  <2>2. \A b \in Attempts : phase'[b] = "reported" => phase[b] = "reported"
    BY <1>0, <1>1 DEF StartAttempt
  <2> QED BY <2>1, <2>2 DEF EpochsAreBounded
<1>2. ASSUME NEW a \in Attempts, NEW r \in Ranks, ReadLatest(a, r) \/ ReadLatestFails(a, r)
      PROVE  EpochsAreBounded'
  <2>1. UNCHANGED <<puts, manifest, at, phase>>
    BY <1>2 DEF ReadLatest, ReadLatestFails
  <2>2. \A b \in Attempts, q \in Ranks :
          resumed'[b][q] \in {resumed[b][q], manifest.latest, Fresh}
    BY <1>0, <1>2 DEF ReadLatest, ReadLatestFails
  <2>3. Fresh.epoch <= Epochs + 1
    BY <1>0 DEF Fresh
  <2> QED BY <2>1, <2>2, <2>3 DEF EpochsAreBounded
<1>3. ASSUME NEW a \in Attempts, FormCohort(a) PROVE EpochsAreBounded'
  <2>1. UNCHANGED <<puts, manifest, resumed>>
    BY <1>3 DEF FormCohort
  <2>2. at'[a].epoch = resumed[a][0].epoch /\ at'[a].batch = 0 /\ phase'[a] = "training"
    BY <1>0, <1>3 DEF FormCohort, StartFrom
  <2>3. \A b \in Attempts : b # a => at'[b] = at[b] /\ phase'[b] = phase[b]
    BY <1>0, <1>3 DEF FormCohort
  <2> QED BY <1>0, <2>1, <2>2, <2>3 DEF EpochsAreBounded
<1>4. ASSUME NEW a \in Attempts, TrainInterval(a) \/ EndEpoch(a) PROVE EpochsAreBounded'
  <2>1. UNCHANGED <<puts, manifest, resumed, phase>> /\ phase[a] = "training"
    BY <1>4 DEF TrainInterval, EndEpoch
  <2>2. \A b \in Attempts : b # a => at'[b] = at[b]
    BY <1>0, <1>4 DEF TrainInterval, EndEpoch
  <2>3. at[a].epoch \in Nat /\ at[a].batch \in Nat
    BY <1>0 DEF Position
  <2>4. at'[a].epoch <= Epochs + 1 /\ (at'[a].batch > 0 => at'[a].epoch <= Epochs)
    <3>1. CASE TrainInterval(a)
      <4>1. at'[a].epoch = at[a].epoch /\ at[a].epoch <= Epochs
        BY <1>0, <3>1 DEF TrainInterval, Position
      <4> QED BY <1>0, <2>3, <4>1
    <3>2. CASE EndEpoch(a)
      <4>1. at'[a].epoch = at[a].epoch + 1 /\ at'[a].batch = 0 /\ at[a].batch = Intervals
        BY <1>0, <3>2 DEF EndEpoch, Position
      <4>2. at[a].epoch <= Epochs
        BY <1>0, <4>1 DEF EpochsAreBounded
      <4> QED BY <1>0, <2>3, <4>1, <4>2
    <3> QED BY <1>4, <3>1, <3>2
  <2> QED BY <2>1, <2>2, <2>4 DEF EpochsAreBounded
<1>5. ASSUME NEW a \in Attempts, FinishTraining(a) PROVE EpochsAreBounded'
  <2>1. UNCHANGED <<puts, manifest, resumed, at>> /\ at[a].epoch > Epochs
    BY <1>5 DEF FinishTraining
  <2>2. at[a].epoch = Epochs + 1
    <3>1. at[a].epoch \in Nat /\ at[a].epoch <= Epochs + 1
      BY <1>0 DEF Position, EpochsAreBounded
    <3> QED BY <1>0, <2>1, <3>1
  <2>3. \A b \in Attempts : b # a => phase'[b] = phase[b]
    BY <1>0, <1>5 DEF FinishTraining
  <2> QED BY <2>1, <2>2, <2>3 DEF EpochsAreBounded
<1>6. ASSUME NEW a \in Attempts, PutGranted(a) PROVE EpochsAreBounded'
  <2>1. /\ UNCHANGED <<at, up, manifest, resumed, phase>> /\ puts' = puts \cup {Put(a)}
        /\ up[a].pc # "idle"
    BY <1>6 DEF PutGranted, Writing
  <2>2. up[a].entry \in Entry /\ NoLater(up[a].entry, at[a]) /\ Put(a).entry = up[a].entry
    BY <2>1 DEF IInv, OnlyTrainersUpload, SavesAreOwn, Put
  <2>3. up[a].entry.epoch \in Nat /\ at[a].epoch \in Nat
    BY <1>0, <2>2 DEF Entry, Position
  <2>4. up[a].entry.epoch <= at[a].epoch /\ at[a].epoch <= Epochs + 1
    BY <2>2 DEF NoLater, EpochsAreBounded
  <2>5. Put(a).entry.epoch <= Epochs + 1
    BY <1>0, <2>2, <2>3, <2>4
  <2> QED BY <2>1, <2>5 DEF EpochsAreBounded
<1>7. ASSUME NEW p \in puts, StorePut(p) PROVE EpochsAreBounded'
  <2>1. UNCHANGED <<at, resumed, phase>> /\ puts' \subseteq puts
    BY <1>7 DEF StorePut
  <2>2. manifest'.latest \in {manifest.latest, p.entry}
    BY <1>7 DEF StorePut
  <2> QED BY <2>1, <2>2 DEF EpochsAreBounded
<1>8. CASE /\ UNCHANGED <<at, manifest, resumed>> /\ puts' \subseteq puts
           /\ phase' = phase \/ \E a \in Attempts : phase' = [phase EXCEPT ![a] = "dead"]
  <2>1. \A b \in Attempts : phase'[b] = "reported" => phase[b] = "reported"
    BY <1>0, <1>8
  <2> QED BY <1>8, <2>1 DEF EpochsAreBounded
<1> QED
  BY <1>1, <1>2, <1>3, <1>4, <1>5, <1>6, <1>7, <1>8
     DEF Next, Reading, Training, Uploading, Storing, vars, EndAttempt, CompleteAttempt,
         KillTrainer, ReadBlobFails, PutRefused, GiveUp, ReadManifest, ReadManifestFails,
         StoreFails

(* What keeps the final checkpoint of an attempt. *)
LEMMA FinalStaysKept ==
  ASSUME strays \subseteq strays', unsaved \subseteq unsaved',
         manifest' = manifest \/ manifest'.latest \in strays'
  PROVE  \A a : FinalKept(a) => FinalKept(a)'
BY DEF FinalKept

(* The end of the last epoch is being saved when the loop is there, and    *)
(* when its thread is idle it has been, or the thread has given it up, or  *)
(* an overdue write has come over it.                                      *)
LEMMA NextFinalIsSaved ==
  ASSUME IInv, OnePutAtATime, ForgottenIsFresh, RanksAgree, SavesAreOwn, EpochsAreBounded,
         FinalIsSaved, [Next]_vars
  PROVE  FinalIsSaved'
<1> USE DEF jobVars, loopVars, storeVars, history, Started
<1>0. /\ phase \in [Attempts -> {"absent", "reading", "training", "reported", "dead"}]
      /\ lease \in [Attempts -> {"NONE", "ACTIVE", "ENDED"}]
      /\ up \in [Attempts -> Upload] /\ at \in [Attempts -> Position]
      /\ 0 \in Ranks /\ Epochs \in Nat \ {0} /\ attempt \in 0 .. MaxAttempt
  BY CheckpointsAssumption DEF IInv, TypeOK
<1>1. CASE StartAttempt
  <2>1. ~done' /\ \A b \in Attempts : Authorized(b)' => phase'[b] = "reading"
    BY <1>1, FreshAttempt DEF StartAttempt
  <2> QED BY <2>1 DEF FinalIsSaved
<1>2. CASE EndAttempt
  <2>1. /\ \A b \in Attempts : Authorized(b)' => Authorized(b)
        /\ ~done /\ done' = done
    BY <1>0, <1>2 DEF EndAttempt, Authorized, FinalIsSaved
  <2>2. UNCHANGED <<attempt, phase, at, up, manifest, strays, unsaved>>
    BY <1>2 DEF EndAttempt
  <2> QED BY <2>1, <2>2 DEF FinalIsSaved, FinalKept
<1>3. ASSUME NEW a \in Attempts, CompleteAttempt(a) PROVE FinalIsSaved'
  <2>1. /\ \A b \in Attempts : Authorized(b)' => Authorized(b)
        /\ a = attempt /\ lease'[attempt'] = "ENDED" /\ phase[a] = "reported" /\ Authorized(a)
    BY <1>0, <1>3 DEF CompleteAttempt, Authorized
  <2>2. UNCHANGED <<attempt, phase, at, up, manifest, strays, unsaved>>
    BY <1>3 DEF CompleteAttempt
  <2>3. up[a].pc = "idle" /\ at[a].epoch = Epochs + 1
    BY <2>1 DEF IInv, OnlyTrainersUpload, EpochsAreBounded
  <2>4. FinalKept(attempt)
    BY <2>1, <2>3 DEF FinalIsSaved
  <2> QED BY <2>1, <2>2, <2>4 DEF FinalIsSaved, FinalKept
<1>4. ASSUME NEW a \in Attempts, FormCohort(a) PROVE FinalIsSaved'
  <2>1. /\ UNCHANGED <<attempt, lease, done, up, manifest, strays, unsaved>>
        /\ phase[a] = "reading" /\ resumed[a][0] # Unread
    BY <1>0, <1>4 DEF FormCohort
  <2>2. /\ at'[a].epoch = resumed[a][0].epoch
        /\ \A b \in Attempts : b # a => phase'[b] = phase[b] /\ at'[b] = at[b]
    BY <1>0, <1>4 DEF FormCohort, StartFrom
  <2>3. up[a].pc = "idle"
    BY <2>1 DEF IInv, OnlyTrainersUpload
  <2>4. ASSUME Authorized(a), at'[a].epoch = Epochs + 1 PROVE FinalKept(a)
    <3>1. CASE <<a, 0>> \in forgot
      <4>1. resumed[a][0].epoch = 1
        BY <1>0, <3>1 DEF ForgottenIsFresh, Fresh
      <4>2. Epochs + 1 # 1
        BY <1>0
      <4> QED BY <2>2, <2>4, <4>1, <4>2
    <3>2. CASE manifest.latest \in strays \/ resumed[a][0] = manifest.latest
      BY <2>2, <2>4, <3>2 DEF FinalKept
    <3> QED BY <1>0, <2>1, <2>4, <3>1, <3>2 DEF RanksAgree
  <2> QED BY <2>1, <2>2, <2>3, <2>4 DEF FinalIsSaved, FinalKept, Authorized
<1>5. ASSUME NEW a \in Attempts,
             \/ KillTrainer(a) \/ FinishTraining(a)
             \/ \E r \in Ranks : ReadLatest(a, r) \/ ReadLatestFails(a, r) \/ ReadBlobFails(a, r)
      PROVE  FinalIsSaved'
  <2>1. UNCHANGED <<attempt, lease, done, at, manifest, strays, unsaved>>
    BY <1>5 DEF KillTrainer, FinishTraining, ReadLatest, ReadLatestFails, ReadBlobFails
  <2>2. \A b \in Attempts : phase'[b] \in Started => phase[b] \in Started /\ up'[b] = up[b]
    BY <1>0, <1>5 DEF KillTrainer, FinishTraining, ReadLatest, ReadLatestFails, ReadBlobFails
  <2> QED BY <2>1, <2>2 DEF FinalIsSaved, FinalKept, Authorized
<1>6. ASSUME NEW a \in Attempts, TrainInterval(a) \/ EndEpoch(a) PROVE FinalIsSaved'
  <2>1. /\ UNCHANGED <<attempt, lease, done, phase, manifest, strays, unsaved>>
        /\ \A b \in Attempts : b # a => at'[b] = at[b] /\ up'[b] = up[b]
    BY <1>6, LoopMoves
  <2>2. ASSUME at'[a].epoch = Epochs + 1
        PROVE  up'[a].pc # "idle" /\ up'[a].entry.epoch = Epochs + 1
    <3>1. CASE TrainInterval(a)
      <4>1. at'[a].epoch = at[a].epoch /\ at[a].epoch <= Epochs
        BY <1>0, <3>1 DEF TrainInterval, Position
      <4> QED BY <1>0, <2>2, <4>1
    <3>2. CASE EndEpoch(a)
      <4> DEFINE pos == [at[a] EXCEPT !.epoch = @ + 1, !.batch = 0]
      <4>1. pos \in Position
        BY <1>0, PositionMoves
      <4>2. at'[a] = pos /\ up'[a] = Save(a, pos)
        BY <1>0, <3>2 DEF EndEpoch
      <4> HIDE DEF pos
      <4> QED BY <2>2, <4>1, <4>2, SaveIsOf
    <3> QED BY <1>6, <3>1, <3>2
  <2> QED BY <2>1, <2>2 DEF FinalIsSaved, FinalKept, Authorized
<1>7. ASSUME NEW a \in Attempts, PutGranted(a) \/ PutRefused(a) \/ ReadManifest(a)
      PROVE  FinalIsSaved'
  <2>1. UNCHANGED <<attempt, lease, done, phase, at, manifest, strays, unsaved>>
    BY <1>7 DEF PutGranted, PutRefused, ReadManifest
  <2>2. /\ \A b \in Attempts : b # a => up'[b] = up[b]
        /\ Authorized(a) => up'[a].entry = up[a].entry
                            /\ (up'[a].pc = "idle" <=> up[a].pc = "idle")
    BY <1>0, <1>7 DEF PutGranted, PutRefused, ReadManifest, Upload
  <2> QED BY <2>1, <2>2 DEF FinalIsSaved, FinalKept, Authorized
<1>8. ASSUME NEW a \in Attempts, GiveUp(a) \/ ReadManifestFails(a) PROVE FinalIsSaved'
  <2>1. /\ UNCHANGED <<attempt, lease, done, phase, at, manifest, strays>>
        /\ up[a].pc # "idle" /\ up'[a].pc = "idle"
        /\ Authorized(a) => unsaved' = unsaved \cup {up[a].entry}
        /\ unsaved \subseteq unsaved'
        /\ \A b \in Attempts : b # a => up'[b] = up[b]
    BY <1>0, <1>8 DEF GiveUp, ReadManifestFails, Waiting, Writing, AfterFailure, Idle
  <2>2. \A b : FinalKept(b) => FinalKept(b)'
    BY <2>1, FinalStaysKept
  <2>3. up[a].entry.by = a
    BY <2>1 DEF SavesAreOwn
  <2>4. Authorized(a) /\ up[a].entry.epoch = Epochs + 1 => FinalKept(a)'
    BY <2>1, <2>3 DEF FinalKept
  <2> QED BY <1>0, <2>1, <2>2, <2>4 DEF FinalIsSaved, Authorized
<1>9. ASSUME NEW p \in puts, StorePut(p) \/ StoreFails(p) PROVE FinalIsSaved'
  <2>1. /\ UNCHANGED <<attempt, lease, done, phase, at>>
        /\ strays \subseteq strays' /\ unsaved \subseteq unsaved'
        /\ p.by \in Attempts /\ p.kind \in {"blob", "manifest"}
        /\ \A b \in Attempts : up'[b] # up[b] => b = p.by /\ p = Put(b)
    BY <1>9, StoreAnswers
  <2>2. p = Put(p.by) => up[p.by].pc = p.kind /\ up[p.by].entry = p.entry /\ p.entry.by = p.by
    BY DEF Put, SavesAreOwn
  <2>3. CASE StoreFails(p)
    <3>1. UNCHANGED manifest /\ p.entry \in unsaved'
      BY <2>3 DEF StoreFails
    <3>2. \A b : FinalKept(b) => FinalKept(b)'
      BY <2>1, <3>1, FinalStaysKept
    <3>3. p = Put(p.by) /\ up[p.by].entry.epoch = Epochs + 1 => FinalKept(p.by)'
      BY <2>2, <3>1 DEF FinalKept
    <3>4. p = Put(p.by) => up'[p.by].pc = "idle" /\ up[p.by].pc # "idle"
      BY <1>0, <2>1, <2>2, <2>3 DEF StoreFails, AfterFailure, Idle
    <3> QED BY <1>0, <2>1, <3>2, <3>3, <3>4 DEF FinalIsSaved, Authorized
  <2>4. CASE StorePut(p) /\ p.kind = "blob"
    <3>1. UNCHANGED manifest
      BY <2>4 DEF StorePut
    <3>2. \A b : FinalKept(b) => FinalKept(b)'
      BY <2>1, <3>1, FinalStaysKept
    <3>3. \A b \in Attempts : /\ up'[b].entry = up[b].entry
                              /\ up'[b].pc = "idle" <=> up[b].pc = "idle"
      BY <1>0, <2>1, <2>2, <2>4 DEF StorePut, Upload
    <3> QED BY <1>0, <2>1, <3>2, <3>3 DEF FinalIsSaved, Authorized
  <2>5. CASE StorePut(p) /\ p.kind = "manifest" /\ p \in overdue
    <3>1. manifest'.latest \in strays'
      BY <2>5 DEF StorePut
    <3>2. \A b \in Attempts : FinalKept(b)'
      BY <3>1 DEF FinalKept
    <3>3. \A b \in Attempts : up'[b] = up[b] \/ up'[b].pc = "idle"
      BY <1>0, <2>5 DEF StorePut, Idle
    <3>4. done => FinalKept(attempt)'
      BY <3>1 DEF FinalKept
    <3> QED BY <2>1, <3>2, <3>3, <3>4 DEF FinalIsSaved, Authorized
  <2>6. CASE StorePut(p) /\ p.kind = "manifest" /\ p \notin overdue
    <3>1. p \in Prompt
      BY <2>6 DEF Prompt
    <3>2. Authorized(p.by) /\ ~done /\ \A b \in Attempts : Authorized(b) => b = p.by
      BY <1>0, <3>1, PutsOfTrainers DEF Authorized, FinalIsSaved
    <3>3. CASE phase[p.by] = "dead"
      BY <2>1, <3>2, <3>3 DEF FinalIsSaved, Authorized
    <3>4. CASE phase[p.by] = "training"
      <4>1. p = Put(p.by) /\ up[p.by].pc # "idle"
        BY <2>1, <2>2, <3>1, <3>4, PutsOfTrainers
      <4>2. manifest'.latest = p.entry /\ up'[p.by].pc = "idle"
        BY <1>0, <2>1, <2>6, <4>1 DEF StorePut, Idle
      <4>3. at[p.by].epoch = Epochs + 1 => FinalKept(p.by)'
        BY <2>1, <2>2, <3>2, <3>4, <4>1, <4>2 DEF FinalIsSaved, FinalKept
      <4> QED BY <2>1, <3>2, <4>2, <4>3 DEF FinalIsSaved, Authorized
    <3> QED BY <3>1, <3>3, <3>4, PutsOfTrainers
  <2> QED BY <1>9, <2>1, <2>3, <2>4, <2>5, <2>6
<1>10. CASE UNCHANGED vars
  BY <1>10 DEF vars, FinalIsSaved, FinalKept, Authorized
<1> QED
  BY <1>1, <1>2, <1>3, <1>4, <1>5, <1>6, <1>7, <1>8, <1>9, <1>10
     DEF Next, Reading, Training, Uploading, Storing

-----------------------------------------------------------------------------
(* What the fence at the endpoint keeps, whatever is late or fails.        *)
LEMMA HistoryInvariance == Spec => [](IInv /\ HistoryInv)
<1>1. Init => HistoryInv
  <2> SUFFICES ASSUME Init PROVE HistoryInv
    OBVIOUS
  <2>1. OnePutAtATime /\ WriterKnowsManifest /\ ForgottenIsFresh /\ SavesAreOwn
    BY DEF Init, OnePutAtATime, WriterKnowsManifest, ForgottenIsFresh, SavesAreOwn, Prompt, Idle
  <2>2. RanksAgree /\ WorkAdvances
    BY DEF Init, RanksAgree, WorkAdvances, Started, Prompt
  <2>3. EpochsAreBounded
    BY CheckpointsAssumption DEF Init, EpochsAreBounded, Fresh, Unread
  <2>4. FinalIsSaved
    BY DEF Init, FinalIsSaved, Started
  <2> QED BY <2>1, <2>2, <2>3, <2>4 DEF HistoryInv
<1>2. IInv /\ HistoryInv /\ [Next]_vars => HistoryInv'
  BY NextOnePutAtATime, NextWriterKnowsManifest, NextForgottenIsFresh, NextRanksAgree,
     NextSavesAreOwn, NextWorkAdvances, NextEpochsAreBounded, NextFinalIsSaved
     DEF HistoryInv
<1> QED BY <1>1, <1>2, CheckpointsInvariance, PTL DEF Spec

(* The manifest changes only when a write of it is stored. *)
LEMMA ManifestChanges ==
  ASSUME IInv, Next
  PROVE  UNCHANGED manifest \/ \E p \in puts : StorePut(p) /\ p.kind = "manifest"
BY DEF Next, Reading, Training, Uploading, Storing, storeVars, StartAttempt, EndAttempt,
   KillTrainer, CompleteAttempt, ReadLatest, ReadLatestFails, ReadBlobFails, FormCohort,
   TrainInterval, EndEpoch, FinishTraining, PutGranted, PutRefused, GiveUp, ReadManifest,
   ReadManifestFails, StorePut, StoreFails, IInv, TypeOK, Request

(* The write that is stored when the manifest changes is overdue, or none   *)
(* of the others can have touched what its thread knows.                    *)
LEMMA ManifestStep ==
  ASSUME IInv, HistoryInv, [Next]_vars
  PROVE  \/ UNCHANGED manifest
         \/ StoredOverdue
         \/ \E p \in Prompt : p.kind = "manifest"
                              /\ manifest'.entries = p.entries /\ manifest'.latest = p.entry
<1>1. CASE UNCHANGED vars
  BY <1>1 DEF vars, storeVars
<1>2. ASSUME NEW p \in puts, StorePut(p), p.kind = "manifest", p \in overdue
      PROVE  StoredOverdue
  BY <1>2 DEF StorePut, StoredOverdue
<1>3. ASSUME NEW p \in puts, StorePut(p), p.kind = "manifest", p \notin overdue
      PROVE  p \in Prompt /\ manifest'.entries = p.entries /\ manifest'.latest = p.entry
  BY <1>3 DEF StorePut, Prompt
<1> QED BY <1>1, <1>2, <1>3, ManifestChanges

(* An overdue write aside, no write drops an entry from the manifest that   *)
(* an overdue write has not brought: the lease check at the endpoint keeps  *)
(* one writer, although trainers of old attempts run on (save_checkpoint,   *)
(* authorize_live_lease, write_checkpoint_object).                          *)
THEOREM OnlyLateStoresLoseEntries == Spec => EntriesKept
<1>1. IInv /\ HistoryInv /\ [Next]_vars
        => [StoredOverdue \/ manifest.entries \subseteq manifest'.entries \cup strays]_vars
  BY ManifestStep DEF HistoryInv, WriterKnowsManifest
<1> QED BY <1>1, HistoryInvariance, PTL DEF Spec, EntriesKept

(* Two ranks start from different checkpoints only if the read of one of    *)
(* them failed or a late write came between their reads (the resume in      *)
(* train.py, authorize_live_lease).                                         *)
THEOREM CohortsResumeTogether == Spec => []CohortResumesTogether
<1>1. HistoryInv => CohortResumesTogether
  BY DEF HistoryInv, RanksAgree, CohortResumesTogether
<1> QED BY <1>1, HistoryInvariance, PTL

(* The latest checkpoint goes back only by a late write, over one, or       *)
(* because rank 0 failed to read it, from one attempt to the next either    *)
(* (save_checkpoint, the resume in train.py).                               *)
THEOREM OnlyFaultsSetLatestBack == Spec => LatestAdvances
<1>1. ASSUME IInv, HistoryInv, [Next]_vars
      PROVE  \/ StoredOverdue
             \/ NoLater(manifest.latest, manifest'.latest)
             \/ manifest.latest \in strays
             \/ <<manifest'.latest.by, 0>> \in forgot
  <2>1. CASE UNCHANGED manifest
    <3>1. manifest.latest.step \in Nat /\ manifest.latest.epoch \in Nat
      BY <1>1 DEF IInv, TypeOK, Entry, Fresh
    <3> QED BY <2>1, <3>1 DEF NoLater
  <2>2. ASSUME NEW p \in Prompt, p.kind = "manifest", manifest'.latest = p.entry
        PROVE  \/ NoLater(manifest.latest, manifest'.latest)
               \/ manifest.latest \in strays
               \/ <<manifest'.latest.by, 0>> \in forgot
    BY <1>1, <2>2 DEF HistoryInv, WorkAdvances, SavesAreOwn, Astray, Prompt
  <2> QED BY <1>1, <2>1, <2>2, ManifestStep
<1>2. IInv /\ HistoryInv /\ [Next]_vars
        => [ \/ StoredOverdue
             \/ NoLater(manifest.latest, manifest'.latest)
             \/ manifest.latest \in strays
             \/ <<manifest'.latest.by, 0>> \in forgot ]_vars
  BY <1>1
<1> QED BY <1>2, HistoryInvariance, PTL DEF Spec, LatestAdvances

(* A completed job has its final model, which can be downloaded, unless the *)
(* upload of exactly that checkpoint was given up or a late write came over *)
(* it: the upload is joined before the last line (finish_uploads,           *)
(* download_job_checkpoint).                                                *)
THEOREM CompletedJobsKeepTheirModel == Spec => []CompletedKeepsModel
<1>1. ASSUME IInv, HistoryInv, done, manifest.latest.epoch = Epochs + 1
      PROVE  \E e \in DownloadJobCheckpoint : e.epoch = Epochs + 1
  <2>1. manifest.latest # Fresh
    BY <1>1, CheckpointsAssumption DEF Fresh
  <2>2. manifest.latest \in blobs
    BY <2>1, <1>1 DEF IInv, EntriesAreStored
  <2> QED BY <1>1, <2>1, <2>2 DEF DownloadJobCheckpoint, LatestCheckpointFor
<1>2. IInv /\ HistoryInv => CompletedKeepsModel
  BY <1>1 DEF HistoryInv, FinalIsSaved, FinalKept, CompletedKeepsModel
<1> QED BY <1>2, HistoryInvariance, PTL
=============================================================================
