--------------------------- MODULE DatasetsProofs ---------------------------
(***************************************************************************)
(* What holds of dataset rows and archives for any uploads, requests and   *)
(* crashes.  Both theorems follow from what the stage of a request says of *)
(* its row and its archive.                                                *)
(***************************************************************************)
EXTENDS Datasets, TLAPS

Fresh(c) == row[c] = "none" /\ c \notin stored

(* A request inserts, stores and commits in this order, and what it heard  *)
(* tells what it left.                                                     *)
StagesTell ==
  \A c \in Requests :
    /\ req[c] \in {"idle", "insert", "refused"} => Fresh(c)
    /\ req[c] = "upload" => row[c] = "pending"
    /\ req[c] = "commit" => row[c] = "pending" /\ c \in stored
    /\ req[c] = "discard" => row[c] \in {"available", "deleted"}
    /\ req[c] = "done" => /\ row[c] # "pending"
                          /\ answer[c] = "4xx" => Fresh(c)
                          /\ answer[c] = "ok" => row[c] \in {"available", "deleted"}
                          /\ answer[c] # "none"

DeletedFirst == \A c \in deleting : row[c] = "deleted"

DatasetsInv == TypeOK /\ StagesTell /\ DeletedFirst /\ AvailableIsStored

(* Nothing is uploaded yet. *)
LEMMA InitDatasetsInv == Init => DatasetsInv
  BY DatasetsAssumption
  DEF Init, DatasetsInv, TypeOK, StagesTell, Fresh, DeletedFirst, AvailableIsStored

-----------------------------------------------------------------------------
(* What only sessions do leaves requests, rows and archives alone.         *)
LEMMA SessionStep ==
  ASSUME DatasetsInv, NEW u \in Uploads,
         \/ OpenUploadSession(u) \/ CreateSession(u) \/ RefuseSession(u) \/ SessionExpires(u)
         \/ AbandonUploadSession(u)
         \/ \E i \in Chunks : PutUploadChunk(u, i) \/ StoreChunk(u, i) \/ ChunkCutOff(u, i)
  PROVE  DatasetsInv'
<1>1. UNCHANGED <<reqVars, rowVars, crashes>>
  BY DEF OpenUploadSession, CreateSession, RefuseSession, SessionExpires, AbandonUploadSession,
         PutUploadChunk, StoreChunk, ChunkCutOff
<1>2. TypeOK'
  <2> USE DEF DatasetsInv, TypeOK, Swept, Discarded, OwnedSession, reqVars, rowVars
  <2>1. CASE OpenUploadSession(u) \/ CreateSession(u) \/ RefuseSession(u)
    BY <2>1, <1>1 DEF OpenUploadSession, CreateSession, RefuseSession
  <2>2. CASE SessionExpires(u) \/ AbandonUploadSession(u)
    BY <2>2, <1>1 DEF SessionExpires, AbandonUploadSession
  <2>3. ASSUME NEW i \in Chunks, PutUploadChunk(u, i) \/ StoreChunk(u, i) \/ ChunkCutOff(u, i)
        PROVE  TypeOK'
    BY <2>3, <1>1 DEF PutUploadChunk, StoreChunk, ChunkCutOff
  <2> QED BY <2>1, <2>2, <2>3
<1> QED
  BY <1>1, <1>2 DEF DatasetsInv, StagesTell, Fresh, DeletedFirst, AvailableIsStored, reqVars, rowVars

(* Each step of a request leaves what the stage it goes to says.           *)
LEMMA RequestStep ==
  ASSUME DatasetsInv, NEW c \in Requests,
         \/ \E u \in Uploads : CompleteUploadSession(c, u)
         \/ UploadDataset(c) \/ CreateDataset(c) \/ StoreArchive(c) \/ CommitDataset(c)
         \/ DiscardSession(c) \/ Again(c)
  PROVE  DatasetsInv'
<1> USE DEF DatasetsInv, TypeOK, StagesTell, Fresh, DeletedFirst, AvailableIsStored, Ends, GoesOn, After,
            sessVars, rowVars, reqVars
<1>1. ASSUME NEW u \in Uploads, CompleteUploadSession(c, u) PROVE DatasetsInv'
  BY <1>1 DEF CompleteUploadSession, Discarded, OwnedSession
<1>2. CASE UploadDataset(c)
  BY <1>2 DEF UploadDataset, TooLargeOrInvalid
<1>3. CASE CreateDataset(c)
  BY <1>3 DEF CreateDataset
<1>4. CASE StoreArchive(c)
  BY <1>4 DEF StoreArchive, RolledBack
<1>5. CASE CommitDataset(c)
  BY <1>5 DEF CommitDataset, RolledBack
<1>6. CASE DiscardSession(c)
  BY <1>6 DEF DiscardSession, Discarded, OwnedSession
<1>7. CASE Again(c)
  BY <1>7 DEF Again
<1> QED BY <1>1, <1>2, <1>3, <1>4, <1>5, <1>6, <1>7

(* The archive goes only after the row. *)
LEMMA DeletionStep ==
  ASSUME DatasetsInv, NEW c \in Requests, DeleteDataset(c) \/ DeleteObject(c) PROVE DatasetsInv'
<1> USE DEF DatasetsInv, TypeOK, StagesTell, Fresh, DeletedFirst, AvailableIsStored, sessVars, reqVars
<1>1. CASE DeleteDataset(c)
  BY <1>1 DEF DeleteDataset, SoftDeleted
<1>2. CASE DeleteObject(c)
  BY <1>2 DEF DeleteObject
<1> QED BY <1>1, <1>2

(* A crash rolls back the rows that are not committed. *)
LEMMA CrashStep == ASSUME DatasetsInv, Crash PROVE DatasetsInv'
  BY DatasetsAssumption
  DEF Crash, InFlight, DatasetsInv, TypeOK, StagesTell, Fresh, DeletedFirst, AvailableIsStored

(* The invariant is inductive. *)
LEMMA DatasetsInvHolds == Spec => []DatasetsInv
<1>1. DatasetsInv /\ [Next]_vars => DatasetsInv'
  <2> SUFFICES ASSUME DatasetsInv, [Next]_vars PROVE DatasetsInv'
    OBVIOUS
  <2>1. CASE UNCHANGED vars
    BY <2>1 DEF vars, sessVars, reqVars, rowVars, DatasetsInv, TypeOK, StagesTell, Fresh, DeletedFirst,
                AvailableIsStored
  <2>2. CASE SweepExpired
    <3>1. UNCHANGED <<reqVars, rowVars, crashes, chunks, bad, expired, puts>> /\ sess' = Swept
      BY <2>2 DEF SweepExpired
    <3> QED
      BY <3>1 DEF Swept, OwnedSession, reqVars, rowVars, DatasetsInv, TypeOK, StagesTell, Fresh,
                  DeletedFirst, AvailableIsStored
  <2> QED BY <2>1, <2>2, SessionStep, RequestStep, DeletionStep, CrashStep DEF Next
<1> QED BY <1>1, InitDatasetsInv, PTL DEF Spec

(* A dataset a job can name has its archive in the bucket, whatever races, *)
(* fails, is retried or dies.                                              *)
THEOREM AvailableDatasetsAreStored == Spec => []AvailableIsStored
<1>1. DatasetsInv => AvailableIsStored
  BY DEF DatasetsInv
<1> QED BY <1>1, DatasetsInvHolds, PTL

(* An archive no row tells of is under way, or of a request that failed.   *)
THEOREM OrphansAreOnlyAccidents == Spec => []OrphansAreAccidents
<1>1. DatasetsInv => OrphansAreAccidents
  BY DEF DatasetsInv, TypeOK, StagesTell, Fresh, OrphansAreAccidents, InFlight
<1> QED BY <1>1, DatasetsInvHolds, PTL
=============================================================================
