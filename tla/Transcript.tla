----------------------------- MODULE Transcript -----------------------------
(***************************************************************************)
(* The transcript of a job: the log lines its leases stream, the rows kept *)
(* of them, and a client that polls for new ones.                          *)
(*                                                                         *)
(* A lease has one stream, whose handler stores one frame after another;   *)
(* the leases of a cohort, and a fenced attempt whose stream is still      *)
(* open, store theirs at the same time.  Ids are drawn when a row is       *)
(* inserted, and seen when it is committed.  Metrics and resume events     *)
(* travel as log lines do, into tables that are not trimmed.               *)
(***************************************************************************)
EXTENDS Integers, Sequences, FiniteSets, FiniteSetsExt, SequencesExt

CONSTANTS
  Leases,         \* leases of the job, of one attempt or of several
  MaxLines,       \* bound on the lines a lease sends
  Retention,      \* LOG_LINE_RETENTION_PER_JOB
  PageLimit,      \* rows in an answer to a poll
  FrameAttempts,  \* tries to store a frame
  MaxFaults       \* bound on the database's errors

ASSUME TranscriptAssumption ==
  /\ {Retention, PageLimit, FrameAttempts} \subseteq Nat \ {0}
  /\ MaxLines \in Nat /\ MaxFaults \in Nat

VARIABLES
  live,       \* leases that are ACTIVE in their job's current epoch
  conn,       \* the stream of a lease
  frame,      \* the line the handler of a stream is to store
  attempt,    \* and how often it has tried
  tx,         \* its transaction: the id drawn, the ids to keep, those deleted,
              \* and how far it is
  nextId,
  rows,       \* committed lines
  removed,    \* ids of lines that were trimmed
  raced,      \* ids committed while another trim was on its way
  overtaken,  \* ids committed when a higher one was there already
  received,   \* what the client was sent
  faults

streamVars == <<live, conn, frame, attempt>>
rowVars == <<tx, nextId, rows, removed, raced, overtaken>>
transcriptVars == <<streamVars, rowVars, received, faults>>

NoTx == [id |-> 0, keep |-> {}, doomed |-> {}, stage |-> "none"]
Stages == {"none", "inserted", "kept", "trimmed"}
Ids == 1 .. Cardinality(Leases) * MaxLines + MaxFaults
Lines == [id : Ids, lease : Leases, line : 1 .. MaxLines]

TranscriptTypeOK ==
  /\ live \subseteq Leases
  /\ conn \in [Leases -> {"none", "open", "refused", "closed"}]
  /\ frame \in [Leases -> 1 .. MaxLines + 1] /\ attempt \in [Leases -> 1 .. FrameAttempts]
  /\ tx \in [Leases -> [id : Ids \cup {0}, keep : SUBSET Ids, doomed : SUBSET Ids, stage : Stages]]
  /\ nextId \in 1 .. Max(Ids) + 1
  /\ rows \subseteq Lines /\ {removed, raced, overtaken} \subseteq SUBSET Ids
  /\ Range(received) \subseteq Lines /\ faults \in 0 .. MaxFaults

TranscriptInit ==
  /\ live = Leases /\ conn = [l \in Leases |-> "none"]
  /\ frame = [l \in Leases |-> 1] /\ attempt = [l \in Leases |-> 1]
  /\ tx = [l \in Leases |-> NoTx] /\ nextId = 1
  /\ rows = {} /\ removed = {} /\ raced = {} /\ overtaken = {}
  /\ received = <<>> /\ faults = 0

-----------------------------------------------------------------------------
Fence(l) ==
  /\ l \in live /\ live' = live \ {l}
  /\ UNCHANGED <<conn, frame, attempt, rowVars, received, faults>>

(* The lease is looked at when the stream opens, and not again.            *)
AuthorizeStream(l) ==
  /\ conn[l] = "none"
  /\ conn' = [conn EXCEPT ![l] = IF l \in live THEN "open" ELSE "refused"]
  /\ UNCHANGED <<live, frame, attempt, rowVars, received, faults>>

(* Noticed when the next frame is awaited.  The agent sends no frame twice *)
(* and opens no second stream.                                             *)
Disconnect(l) ==
  /\ conn[l] = "open" /\ tx[l] = NoTx /\ attempt[l] = 1
  /\ conn' = [conn EXCEPT ![l] = "closed"]
  /\ UNCHANGED <<live, frame, attempt, rowVars, received, faults>>

IdsOf(lines) == {row.id : row \in lines}

OldestFirst(ids) ==                                                      \* mutant
  {i \in ids : Cardinality({j \in ids : j < i}) < Retention}
Newest(ids) == {i \in ids : Cardinality({j \in ids : j > i}) < Retention}

(* The row is inserted. *)
RecordLogLine(l) ==
  /\ conn[l] = "open" /\ frame[l] <= MaxLines /\ tx[l] = NoTx
  /\ tx' = [tx EXCEPT ![l] = [id |-> nextId, keep |-> {}, doomed |-> {}, stage |-> "inserted"]]
  /\ nextId' = nextId + 1
  /\ UNCHANGED <<streamVars, rows, removed, raced, overtaken, received, faults>>

(* The newest ids of what is committed by then, and its own, are to be     *)
(* kept; there is nothing to trim below the cap.                           *)
ReadIdsToKeep(l) ==
  /\ tx[l].stage = "inserted"
  /\ LET keep == Newest(IdsOf(rows) \cup {tx[l].id})
     IN tx' = [tx EXCEPT ![l] =
          [id |-> tx[l].id, keep |-> keep, doomed |-> {},
           stage |-> IF Cardinality(keep) < Retention THEN "trimmed" ELSE "kept"]]
  /\ UNCHANGED <<streamVars, nextId, rows, removed, raced, overtaken, received, faults>>

(* What is committed by now is deleted unless it was to be kept. *)
TrimLogLines(l) ==
  /\ tx[l].stage = "kept"
  /\ tx' = [tx EXCEPT ![l].doomed = IdsOf(rows) \ tx[l].keep, ![l].stage = "trimmed"]
  /\ UNCHANGED <<streamVars, nextId, rows, removed, raced, overtaken, received, faults>>

Committed(l) ==
  LET line == [id |-> tx[l].id, lease |-> l, line |-> frame[l]]
      seen == IdsOf(rows) \cup removed
  IN /\ rows' = {row \in rows \cup {line} : row.id \notin tx[l].doomed}
     /\ removed' = removed \cup (tx[l].doomed \cap IdsOf(rows))
     /\ raced' = raced \cup {i \in {line.id} : \E o \in Leases \ {l} : tx[o] # NoTx}
     /\ overtaken' = overtaken \cup {i \in {line.id} : \E j \in seen : j > i}

NextFrame(l) ==
  /\ frame' = [frame EXCEPT ![l] = @ + 1] /\ attempt' = [attempt EXCEPT ![l] = 1]

PersistFrame(l) ==
  /\ tx[l].stage = "trimmed" /\ Committed(l) /\ NextFrame(l)
  /\ tx' = [tx EXCEPT ![l] = NoTx]
  /\ UNCHANGED <<live, conn, nextId, received, faults>>

(* A frame that could not be stored is tried again, and dropped in the end.*)
(* It may have been stored all the same, if it is the answer to the commit *)
(* that was lost.                                                          *)
PersistFrameFails(l) ==
  /\ tx[l] # NoTx /\ faults < MaxFaults /\ faults' = faults + 1
  /\ \/ UNCHANGED <<rows, removed, raced, overtaken>>
     \/ tx[l].stage = "trimmed" /\ Committed(l)
  /\ tx' = [tx EXCEPT ![l] = NoTx]
  /\ \/ attempt[l] < FrameAttempts /\ attempt' = [attempt EXCEPT ![l] = @ + 1] /\ UNCHANGED frame
     \/ attempt[l] = FrameAttempts /\ NextFrame(l)
  /\ UNCHANGED <<live, conn, nextId, received>>

-----------------------------------------------------------------------------
Before(row, lines) == {o \in lines : o.id < row.id}

ById(lines) ==
  [n \in 1 .. Cardinality(lines) |-> CHOOSE row \in lines : Cardinality(Before(row, lines)) = n - 1]

(* The last id the client was sent. *)
Cursor == IF received = <<>> THEN 0 ELSE Last(received).id

LatestPage(lines) ==                                                     \* mutant
  {row \in lines : Cardinality({o \in lines : o.id > row.id}) < PageLimit}
Page(lines) == {row \in lines : Cardinality(Before(row, lines)) < PageLimit}

ListLogLines ==
  LET new == {row \in rows : row.id > Cursor} IN
  /\ new # {} /\ received' = received \o ById(Page(new))
  /\ UNCHANGED <<streamVars, rowVars, faults>>

TranscriptNext ==
  \/ ListLogLines
  \/ \E l \in Leases :
       \/ Fence(l) \/ AuthorizeStream(l) \/ Disconnect(l)
       \/ RecordLogLine(l) \/ ReadIdsToKeep(l) \/ TrimLogLines(l)
       \/ PersistFrame(l) \/ PersistFrameFails(l)

-----------------------------------------------------------------------------
(* A client that passes back the last id it saw is sent every line that is *)
(* kept, those of a lease in the order they were printed.  It misses one   *)
(* only if a line of another stream, inserted later, was committed first.  *)
PollsMissOnlyOvertaken ==
  /\ \A row \in rows : row.id <= Cursor => row \in Range(received) \/ row.id \in overtaken
  /\ \A i, j \in DOMAIN received :
       i < j /\ received[i].lease = received[j].lease => received[i].line <= received[j].line

(* What is trimmed is what is older than the newest lines there are, or    *)
(* was committed while another stream, which had not seen it, was at its   *)
(* own trim.  A lease that streams by itself always has its latest lines.  *)
RetentionKeepsTail ==
  \A i \in removed :
    i \in raced \/ Cardinality({j \in IdsOf(rows) \cup removed : j > i}) >= Retention
=============================================================================
