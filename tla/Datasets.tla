------------------------------ MODULE Datasets ------------------------------
(***************************************************************************)
(* Uploaded datasets: sessions, chunks, rows and archives.                 *)
(*                                                                         *)
(* An archive arrives in one request or as the chunks of an upload         *)
(* session, is validated, and becomes a row and an object.  The handlers   *)
(* are coroutines of one process: what stands between two awaits is one    *)
(* step, files and the blocking calls to the object store included, and    *)
(* other requests run at every await.  A crash ends every request; files,  *)
(* objects and committed rows stay.                                        *)
(*                                                                         *)
(* All archives here have one owner and one name, because others never     *)
(* meet: names are unique per owner, and a session answers 404 to anyone   *)
(* but its owner.  A request is named like the dataset id it draws.        *)
(***************************************************************************)
EXTENDS Naturals, FiniteSets

CONSTANTS
  Uploads,    \* upload sessions
  Requests,   \* requests that finish an upload
  Chunks,     \* chunks of an upload
  MaxCrashes, \* crashes of the orchestrator
  Direct      \* the source of a single-request upload

ASSUME DatasetsAssumption ==
  Direct \notin Uploads /\ MaxCrashes \in Nat

VARIABLES
  sess,      \* the directory of a session
  chunks,    \* the chunks stored in it
  bad,       \* sessions whose archive the validator refuses
  expired,   \* sessions older than the TTL
  puts,      \* chunk requests that have loaded their session and read on
  req,       \* where a request that finishes an upload is
  from,      \* the session it assembles, or Direct
  answer,    \* what its client has heard
  row,       \* the dataset's row
  stored,    \* datasets whose archive is in the bucket
  deleting,  \* deletions committed, the object still to be removed
  crashes

sessVars == <<sess, chunks, bad, expired, puts>>
reqVars == <<req, from, answer>>
rowVars == <<row, stored, deleting>>
vars == <<sessVars, reqVars, rowVars, crashes>>

TypeOK ==
  /\ sess \in [Uploads -> {"none", "opening", "open", "refused", "gone"}]
  /\ chunks \in [Uploads -> SUBSET Chunks]
  /\ bad \subseteq Uploads /\ expired \subseteq Uploads /\ puts \subseteq Uploads \X Chunks
  /\ req \in [Requests -> {"idle", "insert", "upload", "commit", "discard", "refused", "done"}]
  /\ from \in [Requests -> Uploads \cup {Direct}]
  /\ answer \in [Requests -> {"none", "ok", "4xx", "5xx", "lost"}]
  /\ row \in [Requests -> {"none", "pending", "available", "deleted"}]
  /\ stored \subseteq Requests /\ deleting \subseteq Requests
  /\ crashes \in 0 .. MaxCrashes

Init ==
  /\ sess = [u \in Uploads |-> "none"] /\ chunks = [u \in Uploads |-> {}]
  /\ bad = {} /\ expired = {} /\ puts = {}
  /\ req = [c \in Requests |-> "idle"] /\ from = [c \in Requests |-> Direct]
  /\ answer = [c \in Requests |-> "none"]
  /\ row = [c \in Requests |-> "none"] /\ stored = {} /\ deleting = {}
  /\ crashes = 0

-----------------------------------------------------------------------------
(* Upload sessions.  A directory that still has its manifest is a session. *)
OwnedSession(u) == sess[u] = "open"

Discarded(u) == [sess EXCEPT ![u] = IF OwnedSession(u) THEN "gone" ELSE sess[u]]

Swept == [u \in Uploads |-> IF OwnedSession(u) /\ u \in expired THEN "gone" ELSE sess[u]]

(* The unique index counts deleted rows too. *)
NameTaken == \E c \in Requests : row[c] \in {"available", "deleted"}

(* Opening a session sweeps, looks the name up, and only then creates it. *)
OpenUploadSession(u) ==
  /\ sess[u] = "none"
  /\ sess' = [Swept EXCEPT ![u] = "opening"]
  /\ UNCHANGED <<chunks, bad, expired, puts, reqVars, rowVars, crashes>>

CreateSession(u) ==
  /\ sess[u] = "opening" /\ ~NameTaken
  /\ sess' = [sess EXCEPT ![u] = "open"]
  /\ bad' \in {bad, bad \cup {u}}
  /\ UNCHANGED <<chunks, expired, puts, reqVars, rowVars, crashes>>

RefuseSession(u) ==
  /\ sess[u] = "opening" /\ NameTaken
  /\ sess' = [sess EXCEPT ![u] = "refused"]
  /\ UNCHANGED <<chunks, bad, expired, puts, reqVars, rowVars, crashes>>

(* An open request for another name, or for too large an archive, sweeps. *)
SweepExpired ==
  /\ sess' = Swept /\ sess' # sess
  /\ UNCHANGED <<chunks, bad, expired, puts, reqVars, rowVars, crashes>>

SessionExpires(u) ==
  /\ OwnedSession(u) /\ u \notin expired
  /\ expired' = expired \cup {u}
  /\ UNCHANGED <<sess, chunks, bad, puts, reqVars, rowVars, crashes>>

AbandonUploadSession(u) ==
  /\ OwnedSession(u) /\ sess' = Discarded(u)
  /\ UNCHANGED <<chunks, bad, expired, puts, reqVars, rowVars, crashes>>

(* A chunk's handler loads the session, awaits the body and then stores it *)
(* beside its place and renames it, into a directory that may be gone.     *)
(* One that is sent again has the same bytes and changes nothing.          *)
PutUploadChunk(u, i) ==
  /\ OwnedSession(u) /\ i \notin chunks[u] /\ <<u, i>> \notin puts
  /\ puts' = puts \cup {<<u, i>>}
  /\ UNCHANGED <<sess, chunks, bad, expired, reqVars, rowVars, crashes>>

StoreChunk(u, i) ==
  /\ <<u, i>> \in puts
  /\ puts' = puts \ {<<u, i>>}
  /\ chunks' = [chunks EXCEPT ![u] = IF OwnedSession(u) THEN @ \cup {i} ELSE @]
  /\ UNCHANGED <<sess, bad, expired, reqVars, rowVars, crashes>>

ChunkCutOff(u, i) ==
  /\ <<u, i>> \in puts /\ puts' = puts \ {<<u, i>>}
  /\ UNCHANGED <<sess, chunks, bad, expired, reqVars, rowVars, crashes>>

-----------------------------------------------------------------------------
(* Finishing: insert, store, commit, in this order (_validate_and_store). *)
StoreFirst == [insert |-> "commit", upload |-> "insert", commit |-> "discard", start |-> "upload"] \* mutant
CommitFirst == [insert |-> "commit", commit |-> "upload", upload |-> "discard", start |-> "insert"] \* mutant
After == [start |-> "insert", insert |-> "upload", upload |-> "commit", commit |-> "discard"]

Ends(c, heard) == req' = [req EXCEPT ![c] = "done"] /\ answer' = [answer EXCEPT ![c] = heard]
GoesOn(c, stage) == req' = [req EXCEPT ![c] = After[stage]] /\ UNCHANGED answer

NoRollback(c) == row                                                     \* mutant
RolledBack(c) == [row EXCEPT ![c] = IF @ = "pending" THEN "none" ELSE @]

Assembled(u) == chunks[u] = Chunks

(* Assembling and validating do not await: a bad archive loses its chunks  *)
(* at once, an incomplete one (409) keeps them.                            *)
CompleteUploadSession(c, u) ==
  /\ req[c] = "idle" /\ OwnedSession(u) /\ Assembled(u)
  /\ from' = [from EXCEPT ![c] = u]
  /\ \/ u \in bad /\ sess' = Discarded(u) /\ Ends(c, "4xx")
     \/ u \notin bad /\ UNCHANGED sess /\ GoesOn(c, "start")
  /\ UNCHANGED <<chunks, bad, expired, puts, rowVars, crashes>>

(* What is received is refused past the ceiling, or by the validator. *)
TooLargeOrInvalid(c) == Ends(c, "4xx")

UploadDataset(c) ==
  /\ req[c] = "idle"
  /\ from' = [from EXCEPT ![c] = Direct]
  /\ GoesOn(c, "start") \/ TooLargeOrInvalid(c)
  /\ UNCHANGED <<sessVars, rowVars, crashes>>

(* The insert waits for a row of the same name that is not yet committed,  *)
(* and fails with the database.                                            *)
CreateDataset(c) ==
  /\ req[c] = "insert"
  /\ \/ /\ \A d \in Requests : row[d] # "pending"
        /\ IF NameTaken
             THEN req' = [req EXCEPT ![c] = "refused"] /\ UNCHANGED <<row, answer>>
             ELSE row' = [row EXCEPT ![c] = "pending"] /\ GoesOn(c, "insert")
     \/ Ends(c, "5xx") /\ UNCHANGED row
  /\ UNCHANGED <<sessVars, from, stored, deleting, crashes>>

(* A store that fails may have stored the archive all the same. *)
StoreArchive(c) ==
  /\ req[c] = "upload"
  /\ \/ stored' = stored \cup {c} /\ UNCHANGED row /\ GoesOn(c, "upload")
     \/ stored' \in {stored, stored \cup {c}} /\ row' = RolledBack(c) /\ Ends(c, "5xx")
  /\ UNCHANGED <<sessVars, from, deleting, crashes>>

(* A commit that fails may have been made all the same. *)
CommitDataset(c) ==
  /\ req[c] = "commit"
  /\ \/ row' = [row EXCEPT ![c] = "available"] /\ (GoesOn(c, "commit") \/ Ends(c, "5xx"))
     \/ row' = RolledBack(c) /\ Ends(c, "5xx")
  /\ UNCHANGED <<sessVars, from, stored, deleting, crashes>>

(* A verdict, 201 or 4xx, takes the chunks with it; a 5xx leaves them. *)
DiscardSession(c) ==
  /\ req[c] \in {"discard", "refused"}
  /\ sess' = IF from[c] = Direct THEN sess ELSE Discarded(from[c])
  /\ Ends(c, IF req[c] = "discard" THEN "ok" ELSE "4xx")
  /\ UNCHANGED <<chunks, bad, expired, puts, from, rowVars, crashes>>

(* After a 5xx the client completes again: a request that left nothing     *)
(* behind is a new one.                                                    *)
Again(c) ==
  /\ req[c] = "done" /\ answer[c] \in {"5xx", "lost"} /\ row[c] = "none" /\ c \notin stored
  /\ req' = [req EXCEPT ![c] = "idle"] /\ answer' = [answer EXCEPT ![c] = "none"]
  /\ UNCHANGED <<sessVars, from, rowVars, crashes>>

SoftDeleted(c) == [row EXCEPT ![c] = "deleted"]

DeleteDataset(c) ==
  /\ row[c] = "available"
  /\ row' = SoftDeleted(c)
  /\ deleting' = deleting \cup {c}
  /\ UNCHANGED <<sessVars, reqVars, stored, crashes>>

(* Best effort, after the commit. *)
DeleteObject(c) ==
  /\ c \in deleting
  /\ deleting' = deleting \ {c}
  /\ stored' \in {stored, stored \ {c}}
  /\ UNCHANGED <<sessVars, reqVars, row, crashes>>

InFlight(c) == req[c] \notin {"idle", "done"}

(* The orchestrator dies.  A directory without its manifest is no session. *)
Crash ==
  /\ crashes < MaxCrashes /\ crashes' = crashes + 1
  /\ sess' = [u \in Uploads |-> IF sess[u] = "opening" THEN "refused" ELSE sess[u]]
  /\ req' = [c \in Requests |-> IF InFlight(c) THEN "done" ELSE req[c]]
  /\ answer' = [c \in Requests |-> IF InFlight(c) THEN "lost" ELSE answer[c]]
  /\ row' = [c \in Requests |-> IF row[c] = "pending" THEN "none" ELSE row[c]]
  /\ puts' = {} /\ deleting' = {}
  /\ UNCHANGED <<chunks, bad, expired, from, stored>>

Next ==
  \/ \E u \in Uploads :
       \/ OpenUploadSession(u) \/ CreateSession(u) \/ RefuseSession(u)
       \/ SessionExpires(u) \/ AbandonUploadSession(u)
       \/ \E i \in Chunks : PutUploadChunk(u, i) \/ StoreChunk(u, i) \/ ChunkCutOff(u, i)
       \/ \E c \in Requests : CompleteUploadSession(c, u)
  \/ SweepExpired \/ Crash
  \/ \E c \in Requests :
       \/ UploadDataset(c) \/ CreateDataset(c) \/ StoreArchive(c) \/ CommitDataset(c)
       \/ DiscardSession(c) \/ Again(c) \/ DeleteDataset(c) \/ DeleteObject(c)

Spec == Init /\ [][Next]_vars

-----------------------------------------------------------------------------
(* A dataset that can be chosen for a job has its archive in the bucket:   *)
(* no crash, failure or race leaves a row without one, before it is        *)
(* deleted (datasets.py, insert, store and only then commit).              *)
AvailableIsStored == \A c \in Requests : row[c] = "available" => c \in stored

(* "Losing that race after pushing gigabytes into the bucket would leave   *)
(* an orphaned object behind": an archive without a row is one in flight,  *)
(* or what a crash or a failing store or commit left.                      *)
OrphansAreAccidents ==
  \A c \in stored : row[c] = "none" => InFlight(c) \/ answer[c] \in {"5xx", "lost"}

-----------------------------------------------------------------------------
(* Handlers run on; a client sends what is missing and completes until it  *)
(* hears a verdict, and no link, database or storage fails every time.     *)
HandlersRun ==
  \A c \in Requests :
    WF_vars(CreateDataset(c)) /\ WF_vars(StoreArchive(c)) /\ WF_vars(CommitDataset(c))
    /\ WF_vars(DiscardSession(c))

Persists(u) ==
  /\ \A i \in Chunks : WF_vars(PutUploadChunk(u, i))
  /\ SF_vars(\E i \in Chunks : StoreChunk(u, i))
  /\ SF_vars(\E c \in Requests : CompleteUploadSession(c, u))
  /\ \A c \in Requests : WF_vars(Again(c))

Succeeds(A(_)) == \E c \in Requests : A(c) /\ req'[c] # "done"

NothingFailsForEver ==
  SF_vars(Succeeds(CreateDataset)) /\ SF_vars(Succeeds(StoreArchive)) /\ SF_vars(Succeeds(CommitDataset))

FairSpec == Spec /\ HandlersRun /\ NothingFailsForEver /\ \A u \in Uploads : Persists(u)

(* The upload of a client that keeps at it comes to an end, whatever is    *)
(* retried beside it: only the requests the model has may run out.         *)
UsedUp(c) ==
  req[c] = "done" /\ (answer[c] \in {"ok", "4xx"} \/ row[c] # "none" \/ c \in stored)

UploadsResolve ==
  \A u \in Uploads :
    sess[u] = "open" ~> sess[u] # "open" \/ \A c \in Requests : UsedUp(c)
=============================================================================
