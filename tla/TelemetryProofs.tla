-------------------------- MODULE TelemetryProofs --------------------------
(***************************************************************************)
(* What holds of a job's transcript for any number of leases and lines,    *)
(* any retention and page, and any errors of the database: what a client   *)
(* that polls can miss, and what trimming can take.                        *)
(***************************************************************************)
EXTENDS MCTelemetry, FiniteSetTheorems, TLAPS

-----------------------------------------------------------------------------
(* Rows in the order of their ids.                                         *)
Distinct(lines) ==
  /\ IsFiniteSet(lines) /\ \A row \in lines : row.id \in Nat
  /\ \A row, o \in lines : row.id = o.id => row = o

LEMMA RankIsCounted ==
  ASSUME NEW lines, Distinct(lines), NEW row \in lines
  PROVE  Cardinality(Before(row, lines)) \in Nat /\ Cardinality(Before(row, lines)) < Cardinality(lines)
<1>1. Before(row, lines) \in SUBSET lines /\ row \notin Before(row, lines)
  BY DEF Before, Distinct
<1>2. IsFiniteSet(lines) /\ IsFiniteSet(Before(row, lines))
  BY <1>1, FS_Subset DEF Distinct
<1>3. Cardinality(lines) \in Nat /\ Cardinality(Before(row, lines)) \in Nat
  BY <1>2, FS_CardinalityType
<1>4. Cardinality(Before(row, lines)) <= Cardinality(lines)
  BY <1>1, <1>2, FS_Subset
<1>5. Cardinality(Before(row, lines)) # Cardinality(lines)
  BY <1>1, <1>2, FS_Subset
<1> QED BY <1>3, <1>4, <1>5

LEMMA RankGrows ==
  ASSUME NEW lines, Distinct(lines), NEW row \in lines, NEW o \in lines, row.id < o.id
  PROVE  Cardinality(Before(row, lines)) < Cardinality(Before(o, lines))
<1>1. Before(row, lines) \in SUBSET Before(o, lines) /\ row \in Before(o, lines) /\ row \notin Before(row, lines)
  BY DEF Before, Distinct
<1>2. IsFiniteSet(Before(o, lines))
  BY FS_Subset DEF Distinct, Before
<1>3. Cardinality(Before(row, lines)) <= Cardinality(Before(o, lines))
      /\ Cardinality(Before(row, lines)) # Cardinality(Before(o, lines))
  BY <1>1, <1>2, FS_Subset
<1> QED BY <1>3, RankIsCounted

(* Every row has its place, and only one row has it. *)
LEMMA ByIdSorts ==
  ASSUME NEW lines, Distinct(lines)
  PROVE  /\ ById(lines) \in Seq(lines) /\ Len(ById(lines)) = Cardinality(lines)
         /\ Range(ById(lines)) = lines
         /\ \A i, j \in DOMAIN ById(lines) : i < j => ById(lines)[i].id < ById(lines)[j].id
<1> DEFINE n == Cardinality(lines)
           rank(row) == Cardinality(Before(row, lines))
           place == [row \in lines |-> rank(row) + 1]
<1>1. n \in Nat /\ IsFiniteSet(1 .. n) /\ Cardinality(1 .. n) = n /\ IsFiniteSet(lines)
  <2>1. IsFiniteSet(lines) /\ n \in Nat
    BY FS_CardinalityType DEF Distinct
  <2>2. IsFiniteSet(1 .. n) /\ Cardinality(1 .. n) = IF 1 > n THEN 0 ELSE n - 1 + 1
    BY <2>1, FS_Interval
  <2> HIDE DEF n
  <2>3. (IF 1 > n THEN 0 ELSE n - 1 + 1) = n
    BY <2>1
  <2> QED BY <2>1, <2>2, <2>3
<1>2. \A row \in lines : rank(row) \in Nat /\ rank(row) < n
  BY RankIsCounted
<1>3. \A row, o \in lines : row.id < o.id => rank(row) < rank(o)
  BY RankGrows
<1>4. \A row, o \in lines : rank(row) = rank(o) => row = o
  <2> SUFFICES ASSUME NEW row \in lines, NEW o \in lines, rank(row) = rank(o) PROVE row.id = o.id
    BY DEF Distinct
  <2>1. rank(row) \in Nat /\ rank(o) \in Nat /\ row.id \in Nat /\ o.id \in Nat
    BY <1>2 DEF Distinct
  <2>2. ~(row.id < o.id)
    <3>1. row.id < o.id => rank(row) < rank(o)
      BY <1>3
    <3> HIDE DEF rank
    <3> QED BY <2>1, <3>1
  <2>3. ~(o.id < row.id)
    <3>1. o.id < row.id => rank(o) < rank(row)
      BY <1>3
    <3> HIDE DEF rank
    <3> QED BY <2>1, <3>1
  <2> QED BY <2>1, <2>2, <2>3
<1>5. \A k \in 1 .. n : \E row \in lines : rank(row) = k - 1
  <2>1. place \in [lines -> 1 .. n]
    <3> HIDE DEF rank, n
    <3> QED BY <1>1, <1>2
  <2>2. IsInjective(place)
    <3> SUFFICES ASSUME NEW row \in lines, NEW o \in lines, place[row] = place[o] PROVE row = o
      BY DEF IsInjective
    <3>1. rank(row) + 1 = rank(o) + 1 /\ rank(row) \in Nat /\ rank(o) \in Nat
      BY <1>2
    <3>2. rank(row) = rank(o)
      <4> HIDE DEF rank
      <4> QED BY <3>1
    <3> QED BY <1>4, <3>2
  <2>3. place \in Injection(lines, 1 .. n)
    BY <2>1, <2>2 DEF Injection
  <2>4. place \in Surjection(lines, 1 .. n)
    BY <1>1, <2>3, FS_Injection
  <2> SUFFICES ASSUME NEW k \in 1 .. n PROVE \E row \in lines : rank(row) = k - 1
    OBVIOUS
  <2>5. PICK row \in lines : place[row] = k
    BY <2>4 DEF Surjection
  <2>6. rank(row) + 1 = k /\ rank(row) \in Nat
    BY <1>2, <2>5
  <2>7. rank(row) = k - 1
    <3> HIDE DEF rank
    <3> QED BY <2>6
  <2> QED BY <2>7
<1>6. \A k \in 1 .. n : ById(lines)[k] \in lines /\ rank(ById(lines)[k]) = k - 1
  BY <1>5 DEF ById
<1>7. ById(lines) = [k \in 1 .. n |-> ById(lines)[k]] /\ DOMAIN ById(lines) = 1 .. n
  BY DEF ById
<1>8. ById(lines) \in Seq(lines) /\ Len(ById(lines)) = n
  <2> HIDE DEF n
  <2>1. ById(lines) \in [1 .. n -> lines]
    BY <1>6, <1>7
  <2> QED BY <1>1, <2>1
<1>9. \A row \in lines : \E k \in 1 .. n : ById(lines)[k] = row
  <2> SUFFICES ASSUME NEW row \in lines PROVE \E k \in 1 .. n : ById(lines)[k] = row
    OBVIOUS
  <2>1. rank(row) + 1 \in 1 .. n /\ (rank(row) + 1) - 1 = rank(row)
    <3>1. rank(row) \in Nat /\ rank(row) < n
      BY <1>2
    <3> HIDE DEF rank, n
    <3> QED BY <1>1, <3>1
  <2>2. rank(ById(lines)[rank(row) + 1]) = rank(row) /\ ById(lines)[rank(row) + 1] \in lines
    BY <1>6, <2>1
  <2> QED BY <1>4, <2>1, <2>2
<1>10. ASSUME NEW i \in 1 .. n, NEW j \in 1 .. n, i < j PROVE ById(lines)[i].id < ById(lines)[j].id
  <2> DEFINE a == ById(lines)[i]
             b == ById(lines)[j]
  <2>1. a \in lines /\ b \in lines /\ rank(a) = i - 1 /\ rank(b) = j - 1
    BY <1>6
  <2>2. a.id \in Nat /\ b.id \in Nat
    BY <2>1 DEF Distinct
  <2>3. a # b /\ a.id # b.id
    BY <1>1, <1>10, <2>1 DEF Distinct
  <2>4. ~(b.id < a.id)
    <3>1. b.id < a.id => rank(b) < rank(a)
      BY <1>3, <2>1
    <3> QED BY <1>1, <1>10, <2>1, <3>1
  <2> HIDE DEF a, b
  <2>5. a.id < b.id
    BY <2>2, <2>3, <2>4
  <2> QED BY <2>5 DEF a, b
<1> QED BY <1>6, <1>7, <1>8, <1>9, <1>10 DEF Range

(* A page is the beginning of what is asked for. *)
LEMMA PageIsBeginning ==
  ASSUME NEW lines, Distinct(lines), NEW row \in Page(lines), NEW o \in lines, o.id <= row.id
  PROVE  o \in Page(lines)
<1>1. row \in lines /\ Cardinality(Before(row, lines)) < PageLimit
  BY DEF Page
<1>2. row.id \in Nat /\ o.id \in Nat
  BY <1>1 DEF Distinct
<1>3. CASE o.id = row.id
  BY <1>1, <1>3 DEF Distinct
<1>4. CASE o.id < row.id
  <2>1. Cardinality(Before(o, lines)) < Cardinality(Before(row, lines))
    BY <1>1, <1>4, RankGrows
  <2>2. Cardinality(Before(o, lines)) \in Nat /\ Cardinality(Before(row, lines)) \in Nat
    BY <1>1, RankIsCounted
  <2>3. PageLimit \in Nat
    BY TranscriptAssumption
  <2>4. Cardinality(Before(o, lines)) < PageLimit
    BY <1>1, <2>1, <2>2, <2>3
  <2> QED BY <2>4 DEF Page
<1> QED BY <1>2, <1>3, <1>4

LEMMA PageIsDistinct ==
  ASSUME NEW lines, Distinct(lines)
  PROVE  Distinct(Page(lines)) /\ Page(lines) \subseteq lines /\ (lines # {} => Page(lines) # {})
<1>1. Page(lines) \in SUBSET lines
  BY DEF Page
<1>2. IsFiniteSet(Page(lines))
  BY <1>1, FS_Subset DEF Distinct
<1>3. ASSUME lines # {} PROVE Page(lines) # {}
  <2>1. IsFiniteSet(lines) /\ Cardinality(lines) \in Nat /\ Cardinality(lines) # 0
    BY <1>3, FS_EmptySet, FS_CardinalityType DEF Distinct
  <2>2. 1 \in DOMAIN ById(lines) /\ ById(lines)[1] \in lines
    BY <2>1, ByIdSorts
  <2>3. PICK row \in lines : Cardinality(Before(row, lines)) = 0
    <3> DEFINE row == ById(lines)[1]
    <3>1. Before(row, lines) = {}
      <4> SUFFICES ASSUME NEW o \in lines, o.id < row.id PROVE FALSE
        BY DEF Before
      <4>1. PICK k \in DOMAIN ById(lines) : ById(lines)[k] = o
        BY ByIdSorts DEF Range
      <4>2. DOMAIN ById(lines) = 1 .. Cardinality(lines)
        BY ByIdSorts
      <4>3. k = 1 \/ 1 < k
        BY <2>1, <4>2
      <4>4. row.id \in Nat /\ o.id \in Nat
        BY <2>2 DEF Distinct
      <4>5. 1 < k => row.id < o.id
        BY <2>2, <4>1, ByIdSorts
      <4> HIDE DEF row
      <4>6. k = 1 => o.id = row.id
        BY <4>1 DEF row
      <4> QED BY <4>3, <4>4, <4>5, <4>6
    <3> QED BY <2>2, <3>1, FS_EmptySet
  <2> QED BY <2>3, TranscriptAssumption DEF Page
<1> QED BY <1>1, <1>2, <1>3 DEF Distinct

-----------------------------------------------------------------------------
(* What has been committed, whether or not it is still there.              *)
Seen == IdsOf(rows) \cup removed
LineType == [id : Nat, lease : Leases, line : Nat]
TxType == [id : Nat, keep : SUBSET Nat, doomed : SUBSET Nat, stage : Stages]

RowTypes ==
  /\ nextId \in Nat \ {0} /\ tx \in [Leases -> TxType] /\ frame \in [Leases -> Nat]
  /\ rows \subseteq LineType /\ received \in Seq(LineType)
  /\ Seen \subseteq 1 .. nextId - 1

(* An id is drawn once, and committed once at most. *)
IdsAreDistinct ==
  /\ \A row, o \in rows : row.id = o.id => row = o
  /\ \A l \in Leases : tx[l] # NoTx => tx[l].id \in 1 .. nextId - 1 /\ tx[l].id \notin Seen
                                       /\ tx[l].doomed \subseteq Seen
  /\ \A l, o \in Leases : l # o /\ tx[l] # NoTx /\ tx[o] # NoTx => tx[l].id # tx[o].id

Newer(i, ids) == {j \in ids : j > i}
HasTail(i, ids) == i \in raced \/ Cardinality(Newer(i, ids)) >= Retention

(* What a transaction does not keep, it may trim: enough newer lines are   *)
(* there or come with it, or it was committed after the ids were read.     *)
TrimsAreJustified ==
  /\ \A i \in removed : HasTail(i, Seen)
  /\ \A l \in Leases : tx[l] # NoTx =>
       /\ tx[l].stage # "inserted" =>
            \A i \in Seen : i \in tx[l].keep \/ HasTail(i, Seen \cup {tx[l].id})
       /\ \A i \in tx[l].doomed : HasTail(i, Seen \cup {tx[l].id})

(* A lease's ids grow as its lines do, and the client's grow.              *)
LinesInOrder ==
  /\ \A row \in rows \cup Range(received) :
       row.line <= frame[row.lease] /\ (tx[row.lease] # NoTx => row.id < tx[row.lease].id)
  /\ \A row, o \in rows \cup Range(received) : row.lease = o.lease /\ row.id < o.id => row.line <= o.line

SentInOrder ==
  /\ \A i \in DOMAIN received : received[i].id \in Seen
  /\ \A i, j \in DOMAIN received : i < j => received[i].id < received[j].id
  /\ \A row \in rows : row.id <= Cursor => row \in Range(received) \/ row.id \in overtaken

TranscriptInv == RowTypes /\ IdsAreDistinct /\ TrimsAreJustified /\ LinesInOrder /\ SentInOrder

-----------------------------------------------------------------------------
LEMMA NewerIsFinite ==
  ASSUME NEW ids \in SUBSET Nat, NEW n \in Nat, ids \subseteq 1 .. n, NEW i
  PROVE  IsFiniteSet(ids) /\ IsFiniteSet(Newer(i, ids)) /\ Cardinality(Newer(i, ids)) \in Nat
<1>1. IsFiniteSet(1 .. n)
  BY FS_Interval
<1>2. IsFiniteSet(ids) /\ IsFiniteSet(Newer(i, ids))
  BY <1>1, FS_Subset DEF Newer
<1> QED BY <1>2, FS_CardinalityType

(* More committed lines leave a longer tail. *)
LEMMA TailGrows ==
  ASSUME NEW n \in Nat, NEW ids, NEW more, ids \subseteq more, more \subseteq 1 .. n, NEW i,
         HasTail(i, ids), raced \subseteq raced'
  PROVE  i \in raced' \/ Cardinality(Newer(i, more)) >= Retention
<1>0. ids \in SUBSET Nat /\ more \in SUBSET Nat /\ ids \subseteq 1 .. n
  OBVIOUS
<1>1. Newer(i, ids) \in SUBSET Newer(i, more)
  BY DEF Newer
<1>2. Cardinality(Newer(i, ids)) <= Cardinality(Newer(i, more))
  BY <1>0, <1>1, NewerIsFinite, FS_Subset
<1>3. Cardinality(Newer(i, ids)) \in Nat /\ Cardinality(Newer(i, more)) \in Nat
  BY <1>0, NewerIsFinite
<1> QED BY <1>2, <1>3, TranscriptAssumption DEF HasTail

LEMMA LinesAreTyped == ASSUME RowTypes PROVE rows \cup Range(received) \subseteq LineType
<1>1. \A i \in DOMAIN received : received[i] \in LineType
  BY DEF RowTypes
<1> QED BY <1>1 DEF RowTypes, Range

LEMMA InitTranscriptInv == TranscriptInit => TranscriptInv
<1> SUFFICES ASSUME TranscriptInit PROVE TranscriptInv
  OBVIOUS
<1>1. Seen = {} /\ Range(received) = {} /\ \A l \in Leases : tx[l] = NoTx
  BY DEF TranscriptInit, Seen, IdsOf, Range
<1>2. RowTypes
  BY <1>1 DEF TranscriptInit, RowTypes, TxType, NoTx, Stages
<1> QED BY <1>1, <1>2
  DEF TranscriptInit, TranscriptInv, IdsAreDistinct, TrimsAreJustified, LinesInOrder, SentInOrder

(* What a step is to the rows.                                             *)
Ends(l) == /\ tx[l] # NoTx /\ tx' = [tx EXCEPT ![l] = NoTx]
           /\ frame' \in {frame, [frame EXCEPT ![l] = @ + 1]}
           /\ UNCHANGED <<nextId, received>>
Commits(l) == Ends(l) /\ tx[l].stage = "trimmed" /\ Committed(l)
GivesUp(l) == Ends(l) /\ UNCHANGED <<rows, removed, raced, overtaken>>
Idles == UNCHANGED <<frame, rowVars, received>>

LEMMA StepsOfRows ==
  ASSUME [TranscriptNext]_transcriptVars
  PROVE  \/ Idles \/ ListLogLines
         \/ \E l \in Leases : \/ RecordLogLine(l) \/ ReadIdsToKeep(l) \/ TrimLogLines(l)
                              \/ Commits(l) \/ GivesUp(l)
<1>1. CASE UNCHANGED transcriptVars
  BY <1>1 DEF transcriptVars, streamVars, Idles
<1>2. ASSUME NEW l \in Leases, Fence(l) \/ AuthorizeStream(l) \/ Disconnect(l)
      PROVE  Idles
  BY <1>2 DEF Fence, AuthorizeStream, Disconnect, Idles
<1>3. ASSUME NEW l \in Leases, PersistFrame(l) PROVE Commits(l) \/ GivesUp(l) \/ tx[l] = NoTx
  BY <1>3 DEF PersistFrame, NextFrame, Commits, Ends
<1>4. ASSUME NEW l \in Leases, PersistFrameFails(l) PROVE Commits(l) \/ GivesUp(l)
  BY <1>4 DEF PersistFrameFails, NextFrame, Commits, GivesUp, Ends
<1>5. ASSUME NEW l \in Leases, PersistFrame(l) PROVE tx[l] # NoTx
  BY <1>5 DEF PersistFrame, NoTx
<1> QED BY <1>1, <1>2, <1>3, <1>4, <1>5 DEF TranscriptNext

LEMMA DrawStep ==
  ASSUME TranscriptInv, NEW l \in Leases, RecordLogLine(l) PROVE TranscriptInv'
<1> DEFINE new == [id |-> nextId, keep |-> {}, doomed |-> {}, stage |-> "inserted"]
<1>1. /\ tx[l] = NoTx /\ nextId' = nextId + 1 /\ UNCHANGED <<frame, rows, removed, raced, overtaken, received>>
      /\ tx' = [tx EXCEPT ![l] = new]
  BY DEF RecordLogLine, streamVars
<1>2. Seen' = Seen /\ Cursor' = Cursor /\ Seen \subseteq 1 .. nextId - 1 /\ nextId \in Nat \ {0}
  BY <1>1 DEF Seen, Cursor, TranscriptInv, RowTypes
<1>3. IdsOf(rows) \subseteq Seen /\ removed \subseteq Seen /\ Seen \subseteq Nat
  BY <1>2 DEF Seen
<1>4. RowTypes'
  <2>2. new \in TxType
    BY <1>2 DEF TxType, Stages
  <2>3. tx' \in [Leases -> TxType]
    BY <1>1, <2>2 DEF TranscriptInv, RowTypes
  <2>4. Seen \subseteq 1 .. nextId' - 1 /\ nextId' \in Nat \ {0}
    BY <1>1, <1>2
  <2> QED BY <1>1, <1>2, <2>3, <2>4 DEF TranscriptInv, RowTypes
<1>5. /\ new.id = nextId /\ new.doomed = {} /\ nextId \in 1 .. nextId' - 1 /\ nextId \notin Seen
      /\ \A o \in Leases \ {l} : tx'[o] = tx[o]
      /\ tx'[l] = new
  BY <1>1, <1>2 DEF TranscriptInv, RowTypes
<1> HIDE DEF new
<1>6. IdsAreDistinct'
  <2>1. \A o \in Leases \ {l} : tx[o] # NoTx => tx[o].id # nextId /\ tx[o].id \in 1 .. nextId' - 1
    BY <1>1, <1>2 DEF TranscriptInv, IdsAreDistinct
  <2> QED BY <1>1, <1>2, <1>5, <2>1 DEF TranscriptInv, IdsAreDistinct
<1>11. new.stage = "inserted"
  BY DEF new
<1>8. TrimsAreJustified'
  BY <1>1, <1>2, <1>5, <1>11 DEF TranscriptInv, TrimsAreJustified, HasTail
<1>9. LinesInOrder'
  <2>1. \A row \in rows \cup Range(received) : row.id < nextId
    <3>1. \A row \in rows : row.id \in Seen
      BY DEF Seen, IdsOf
    <3>2. \A row \in Range(received) : row.id \in Seen
      BY DEF TranscriptInv, SentInOrder, Range
    <3>3. \A i \in Seen : i < nextId
      BY <1>2
    <3> QED BY <3>1, <3>2, <3>3
  <2>2. \A row \in rows \cup Range(received) : row.lease \in Leases
    BY LinesAreTyped DEF TranscriptInv, LineType
  <2>3. \A row \in rows \cup Range(received) : tx'[row.lease] # NoTx => row.id < tx'[row.lease].id
    BY <1>5, <2>1, <2>2 DEF TranscriptInv, LinesInOrder
  <2> QED BY <1>1, <2>3 DEF TranscriptInv, LinesInOrder
<1>10. SentInOrder'
  BY <1>1, <1>2 DEF TranscriptInv, SentInOrder
<1> QED BY <1>4, <1>6, <1>8, <1>9, <1>10 DEF TranscriptInv

LEMMA KeepStep ==
  ASSUME TranscriptInv, NEW l \in Leases, ReadIdsToKeep(l) PROVE TranscriptInv'
<1> DEFINE id == tx[l].id
           keep == Newest(IdsOf(rows) \cup {id})
           next == IF Cardinality(keep) < Retention THEN "trimmed" ELSE "kept"
           new == [id |-> id, keep |-> keep, doomed |-> {}, stage |-> next]
<1>1. /\ tx[l] # NoTx /\ UNCHANGED <<nextId, frame, rows, removed, raced, overtaken, received>>
      /\ tx' = [tx EXCEPT ![l] = new] /\ tx[l] \in TxType
  BY DEF ReadIdsToKeep, streamVars, NoTx, TranscriptInv, RowTypes
<1>2. /\ Seen' = Seen /\ Cursor' = Cursor /\ Seen \subseteq 1 .. nextId - 1 /\ nextId \in Nat \ {0}
      /\ id \in 1 .. nextId - 1
  BY <1>1 DEF Seen, Cursor, TranscriptInv, RowTypes, IdsAreDistinct
<1> HIDE DEF id
<1>15. id \in Nat /\ id \in 1 .. nextId - 1 /\ id \in 1 .. nextId
  BY <1>2
<1>3. IdsOf(rows) \subseteq Seen /\ removed \subseteq Seen /\ Seen \subseteq Nat
  BY <1>2 DEF Seen
<1>4. keep \in SUBSET Nat /\ next \in Stages
  <2>1. IdsOf(rows) \cup {id} \subseteq Nat
    BY <1>3, <1>15
  <2> QED BY <2>1 DEF Newest, Stages
<1> HIDE DEF next, keep
<1>5. new \in TxType
  BY <1>2, <1>4 DEF TxType
<1>6. /\ new.id = tx[l].id /\ new.doomed = {} /\ tx'[l] = new
      /\ \A o \in Leases \ {l} : tx'[o] = tx[o]
  BY <1>1 DEF TranscriptInv, RowTypes, id
<1>11. new.keep = keep
  OBVIOUS
<1> HIDE DEF new
<1>8. RowTypes'
  BY <1>1, <1>2, <1>5 DEF TranscriptInv, RowTypes
<1>9. \A o \in Leases : tx'[o] # NoTx => tx[o] # NoTx /\ tx'[o].id = tx[o].id
  BY <1>1, <1>6
<1>10. IdsAreDistinct'
  <2>1. \A o \in Leases : tx'[o] # NoTx => tx'[o].doomed \subseteq Seen
    BY <1>1, <1>6 DEF TranscriptInv, IdsAreDistinct
  <2> QED BY <1>1, <1>2, <1>9, <2>1 DEF TranscriptInv, IdsAreDistinct
<1>7. ASSUME NEW i \in Seen PROVE i \in new.keep \/ HasTail(i, Seen \cup {id})
  <2>1. CASE i \in removed
    <3>1. HasTail(i, Seen)
      BY <2>1 DEF TranscriptInv, TrimsAreJustified
    <3>2. Newer(i, Seen) \in SUBSET Newer(i, Seen \cup {id})
      BY DEF Newer
    <3>3. Seen \cup {id} \subseteq 1 .. nextId /\ Seen \subseteq 1 .. nextId
      BY <1>2
    <3>4. Cardinality(Newer(i, Seen)) <= Cardinality(Newer(i, Seen \cup {id}))
      BY <1>2, <1>3, <1>15, <3>2, <3>3, NewerIsFinite, FS_Subset
    <3>5. Cardinality(Newer(i, Seen)) \in Nat /\ Cardinality(Newer(i, Seen \cup {id})) \in Nat
      BY <1>2, <1>3, <1>15, <3>3, NewerIsFinite
    <3> QED BY <3>1, <3>4, <3>5, TranscriptAssumption DEF HasTail
  <2>2. CASE i \in IdsOf(rows) /\ i \notin new.keep
    <3> DEFINE ids == IdsOf(rows) \cup {id}
    <3>1. ~(Cardinality(Newer(i, ids)) < Retention)
      BY <1>11, <2>2 DEF Newest, Newer, keep
    <3>2. Newer(i, ids) \in SUBSET Newer(i, Seen \cup {id})
      BY <1>3 DEF Newer
    <3>3. Seen \cup {id} \subseteq 1 .. nextId /\ ids \subseteq 1 .. nextId
      <4>1. Seen \cup {id} \subseteq 1 .. nextId
        BY <1>2
      <4> QED BY <1>3, <4>1
    <3>6. nextId \in Nat /\ ids \in SUBSET Nat /\ Seen \cup {id} \in SUBSET Nat
      BY <1>2, <1>3, <1>15
    <3> HIDE DEF ids
    <3>7. IsFiniteSet(Newer(i, Seen \cup {id}))
      BY <3>3, <3>6, NewerIsFinite
    <3>4. Cardinality(Newer(i, ids)) <= Cardinality(Newer(i, Seen \cup {id}))
      BY <3>2, <3>7, FS_Subset
    <3>5. Cardinality(Newer(i, ids)) \in Nat /\ Cardinality(Newer(i, Seen \cup {id})) \in Nat
      BY <3>3, <3>6, NewerIsFinite
    <3> QED BY <3>1, <3>4, <3>5, TranscriptAssumption DEF HasTail
  <2> QED BY <2>1, <2>2 DEF Seen
<1>12. TrimsAreJustified'
  BY <1>1, <1>2, <1>6, <1>7 DEF TranscriptInv, TrimsAreJustified, HasTail, id
<1>13. LinesInOrder'
  <2>1. \A row \in rows \cup Range(received) : row.lease \in Leases
    BY LinesAreTyped DEF TranscriptInv, LineType
  <2> QED BY <1>1, <1>9, <2>1 DEF TranscriptInv, LinesInOrder
<1>14. SentInOrder'
  BY <1>1, <1>2 DEF TranscriptInv, SentInOrder
<1> QED BY <1>8, <1>10, <1>12, <1>13, <1>14 DEF TranscriptInv

LEMMA TrimStep ==
  ASSUME TranscriptInv, NEW l \in Leases, TrimLogLines(l) PROVE TranscriptInv'
<1> DEFINE new == tx'[l]
<1>1. /\ tx[l] # NoTx /\ UNCHANGED <<nextId, frame, rows, removed, raced, overtaken, received>>
      /\ tx' = [tx EXCEPT ![l] = new] /\ tx[l] \in TxType
      /\ new = [tx[l] EXCEPT !.doomed = IdsOf(rows) \ tx[l].keep, !.stage = "trimmed"]
      /\ tx[l].stage = "kept"
  <2>1. tx \in [Leases -> TxType]
    BY DEF TranscriptInv, RowTypes
  <2>2. tx[l].stage = "kept" /\ NoTx.stage = "none"
    BY DEF TrimLogLines, NoTx
  <2> QED BY <2>1, <2>2 DEF TrimLogLines, streamVars
<1>2. Seen' = Seen /\ Cursor' = Cursor /\ Seen \subseteq Nat /\ IdsOf(rows) \subseteq Seen
  BY <1>1 DEF Seen, Cursor, TranscriptInv, RowTypes
<1>3. /\ new.id = tx[l].id /\ new.keep = tx[l].keep /\ new.doomed = IdsOf(rows) \ tx[l].keep
      /\ new \in TxType /\ \A o \in Leases \ {l} : tx'[o] = tx[o]
      /\ tx'[l].id = tx[l].id
  BY <1>1, <1>2 DEF TxType, Stages, TranscriptInv, RowTypes
<1>4. RowTypes'
  BY <1>1, <1>2, <1>3 DEF TranscriptInv, RowTypes
<1>5. IdsAreDistinct'
  <2>1. \A o \in Leases : tx'[o] # NoTx => tx[o] # NoTx /\ tx'[o].id = tx[o].id
    BY <1>1, <1>3
  <2>2. \A o \in Leases : tx'[o] # NoTx => tx'[o].doomed \subseteq Seen
    BY <1>1, <1>2, <1>3 DEF TranscriptInv, IdsAreDistinct
  <2> HIDE DEF new
  <2> QED BY <1>1, <1>2, <2>1, <2>2 DEF TranscriptInv, IdsAreDistinct
<1>6. TrimsAreJustified'
  <2>1. \A i \in new.doomed : HasTail(i, Seen \cup {tx[l].id})
    BY <1>1, <1>2, <1>3 DEF TranscriptInv, TrimsAreJustified
  <2> QED BY <1>1, <1>2, <1>3, <2>1 DEF TranscriptInv, TrimsAreJustified, HasTail
<1>7. LinesInOrder'
  <2>1. \A o \in Leases : tx'[o] # NoTx => tx[o] # NoTx /\ tx'[o].id = tx[o].id
    BY <1>1, <1>3
  <2>2. \A row \in rows \cup Range(received) : row.lease \in Leases
    BY LinesAreTyped DEF TranscriptInv, LineType
  <2> QED BY <1>1, <2>1, <2>2 DEF TranscriptInv, LinesInOrder
<1>8. SentInOrder'
  BY <1>1, <1>2 DEF TranscriptInv, SentInOrder
<1> QED BY <1>4, <1>5, <1>6, <1>7, <1>8 DEF TranscriptInv

(* What the end of a transaction is, committed or not, to the frames.      *)
LEMMA EndsTypes ==
  ASSUME TranscriptInv, NEW l \in Leases, Ends(l)
  PROVE  /\ tx' \in [Leases -> TxType] /\ frame' \in [Leases -> Nat]
         /\ tx'[l] = NoTx /\ \A o \in Leases \ {l} : tx'[o] = tx[o]
         /\ \A o \in Leases : frame[o] <= frame'[o]
         /\ nextId' = nextId /\ received' = received /\ Cursor' = Cursor
<1>1. NoTx \in TxType
  BY DEF NoTx, TxType, Stages
<1>2. tx \in [Leases -> TxType] /\ frame \in [Leases -> Nat]
  BY DEF TranscriptInv, RowTypes
<1>3. tx' \in [Leases -> TxType] /\ tx'[l] = NoTx /\ \A o \in Leases \ {l} : tx'[o] = tx[o]
  BY <1>1, <1>2 DEF Ends
<1>4. frame' \in [Leases -> Nat] /\ \A o \in Leases : frame[o] <= frame'[o]
  <2>1. CASE frame' = frame
    BY <1>2, <2>1
  <2>2. CASE frame' = [frame EXCEPT ![l] = @ + 1]
    BY <1>2, <2>2
  <2> QED BY <2>1, <2>2 DEF Ends
<1>5. nextId' = nextId /\ received' = received /\ Cursor' = Cursor
  BY DEF Ends, Cursor
<1> QED BY <1>3, <1>4, <1>5

LEMMA GiveUpStep ==
  ASSUME TranscriptInv, NEW l \in Leases, GivesUp(l) PROVE TranscriptInv'
<1>1. UNCHANGED <<rows, removed, raced, overtaken>> /\ Ends(l)
  BY DEF GivesUp
<1>2. Seen' = Seen
  BY <1>1 DEF Seen
<1>3. \A o \in Leases : tx'[o] # NoTx => o # l /\ tx'[o] = tx[o]
  BY <1>1, EndsTypes
<1>4. RowTypes' /\ IdsAreDistinct' /\ SentInOrder'
  BY <1>1, <1>2, <1>3, EndsTypes DEF TranscriptInv, RowTypes, IdsAreDistinct, SentInOrder
<1>5. TrimsAreJustified'
  BY <1>1, <1>2, <1>3 DEF TranscriptInv, TrimsAreJustified, HasTail
<1>6. LinesInOrder'
  <2>1. \A row \in rows \cup Range(received) : row.lease \in Leases /\ row.line \in Nat
    BY LinesAreTyped DEF TranscriptInv, LineType
  <2>2. \A row \in rows \cup Range(received) : row.line <= frame'[row.lease]
    BY <1>1, <2>1, EndsTypes DEF TranscriptInv, LinesInOrder, RowTypes
  <2> QED BY <1>1, <1>3, <2>1, <2>2, EndsTypes DEF TranscriptInv, LinesInOrder
<1> QED BY <1>4, <1>5, <1>6 DEF TranscriptInv

(* A commit: its row is new, and what it trims is there.                   *)
LEMMA CommitStep ==
  ASSUME TranscriptInv, NEW l \in Leases, Commits(l) PROVE TranscriptInv'
<1> DEFINE id == tx[l].id
           line == [id |-> id, lease |-> l, line |-> frame[l]]
<1>1. /\ tx[l] # NoTx /\ tx[l] \in TxType /\ Ends(l)
      /\ id \in Nat /\ id \in 1 .. nextId - 1 /\ id \notin Seen /\ tx[l].doomed \subseteq Seen
      /\ frame[l] \in Nat
  BY DEF Commits, Ends, TranscriptInv, RowTypes, TxType, IdsAreDistinct
<1>2. /\ rows' = {row \in rows \cup {line} : row.id \notin tx[l].doomed}
      /\ removed' = removed \cup (tx[l].doomed \cap IdsOf(rows))
      /\ raced' = raced \cup {i \in {id} : \E o \in Leases \ {l} : tx[o] # NoTx}
      /\ overtaken' = overtaken \cup {i \in {id} : \E j \in Seen : j > i}
  BY DEF Commits, Committed, Seen
<1>3. Seen' = Seen \cup {id}
  <2>1. \A i \in Seen' : i \in Seen \cup {id}
    BY <1>2 DEF Seen, IdsOf
  <2>2. id \in IdsOf(rows')
    <3>1. line \in rows'
      BY <1>1, <1>2
    <3>2. line.id = id
      OBVIOUS
    <3> HIDE DEF line
    <3> QED BY <3>1, <3>2 DEF IdsOf
  <2>3. \A i \in IdsOf(rows) : i \in IdsOf(rows') \/ i \in removed'
    BY <1>2 DEF IdsOf
  <2> QED BY <1>2, <2>1, <2>2, <2>3 DEF Seen
<1>4. rows' \subseteq rows \cup {line} /\ line \in LineType
  BY <1>1, <1>2 DEF LineType
<1>5. /\ tx' \in [Leases -> TxType] /\ frame' \in [Leases -> Nat]
      /\ nextId' = nextId /\ received' = received /\ Cursor' = Cursor
      /\ \A o \in Leases : frame[o] <= frame'[o]
      /\ \A o \in Leases : tx'[o] # NoTx => o # l /\ tx'[o] = tx[o]
  BY <1>1, EndsTypes
<1>6. RowTypes'
  BY <1>1, <1>3, <1>4, <1>5 DEF TranscriptInv, RowTypes
<1>7. IdsAreDistinct'
  <2>1. \A row \in rows : row.id # id
    BY <1>1 DEF Seen, IdsOf
  <2>2. \A row, o \in rows' : row.id = o.id => row = o
    BY <1>4, <2>1 DEF TranscriptInv, IdsAreDistinct
  <2>3. \A o \in Leases : tx'[o] # NoTx => tx[o] # NoTx /\ tx[o].id # id
    BY <1>1, <1>5 DEF TranscriptInv, IdsAreDistinct
  <2> QED BY <1>3, <1>5, <2>2, <2>3 DEF TranscriptInv, IdsAreDistinct
<1>8. TrimsAreJustified'
  <2> DEFINE n == nextId - 1
  <2>1. n \in Nat /\ Seen \cup {id} \subseteq 1 .. n /\ Seen \subseteq 1 .. n /\ raced \subseteq raced'
    <3>1. n \in Nat /\ Seen \subseteq 1 .. n /\ id \in 1 .. n
      BY <1>1 DEF TranscriptInv, RowTypes
    <3>2. raced \subseteq raced'
      BY <1>2
    <3> HIDE DEF n
    <3> QED BY <3>1, <3>2
  <2>2. \A i \in removed' : HasTail(i, Seen \cup {id})
    <3>2. ASSUME NEW i \in removed PROVE HasTail(i, Seen \cup {id})
      <4>1. HasTail(i, Seen)
        BY DEF TranscriptInv, TrimsAreJustified
      <4> HIDE DEF id, n
      <4>5. Seen \in SUBSET Nat /\ Seen \cup {id} \in SUBSET Nat
        BY <2>1
      <4>2. Newer(i, Seen) \in SUBSET Newer(i, Seen \cup {id})
        BY DEF Newer
      <4>3. Cardinality(Newer(i, Seen)) <= Cardinality(Newer(i, Seen \cup {id}))
        BY <2>1, <4>2, <4>5, NewerIsFinite, FS_Subset
      <4>4. Cardinality(Newer(i, Seen)) \in Nat /\ Cardinality(Newer(i, Seen \cup {id})) \in Nat
        BY <2>1, <4>5, NewerIsFinite
      <4> QED BY <4>1, <4>3, <4>4, TranscriptAssumption DEF HasTail
    <3>3. \A i \in tx[l].doomed : HasTail(i, Seen \cup {id})
      BY <1>1 DEF TranscriptInv, TrimsAreJustified
    <3> QED BY <1>2, <3>2, <3>3
  <2>3. \A i \in removed' : HasTail(i, Seen)'
    BY <1>2, <1>3, <2>2 DEF HasTail
  <2>4. ASSUME NEW o \in Leases, tx'[o] # NoTx, NEW i, HasTail(i, Seen \cup {tx[o].id})
        PROVE  HasTail(i, Seen \cup {tx[o].id})'
    <3> DEFINE mine == tx[o].id
    <3>1. o # l /\ tx'[o] = tx[o] /\ tx[o] # NoTx
      BY <1>5, <2>4
    <3>2. mine \in 1 .. n
      BY <3>1 DEF TranscriptInv, IdsAreDistinct
    <3>3. Seen \cup {mine} \subseteq Seen' \cup {mine} /\ Seen' \cup {mine} \subseteq 1 .. n
      BY <1>3, <2>1, <3>2
    <3>4. i \in raced' \/ Cardinality(Newer(i, Seen' \cup {mine})) >= Retention
      <4> HIDE DEF mine, n
      <4>1. HasTail(i, Seen \cup {mine})
        BY <2>4 DEF mine
      <4> QED BY <2>1, <3>3, <4>1, TailGrows
    <3> QED BY <3>1, <3>4 DEF HasTail
  <2>5. ASSUME NEW o \in Leases, tx'[o] # NoTx PROVE id \in raced'
    BY <1>2, <1>5, <2>5
  <2>6. ASSUME NEW o \in Leases, tx'[o] # NoTx
        PROVE  /\ tx'[o].stage # "inserted" =>
                    \A i \in Seen' : i \in tx'[o].keep \/ HasTail(i, Seen \cup {tx[o].id})'
               /\ \A i \in tx'[o].doomed : HasTail(i, Seen \cup {tx[o].id})'
    <3>1. tx'[o] = tx[o] /\ tx[o] # NoTx
      BY <1>5, <2>6
    <3>2. tx[o].stage # "inserted" =>
            \A i \in Seen : i \in tx[o].keep \/ HasTail(i, Seen \cup {tx[o].id})
      BY <3>1 DEF TranscriptInv, TrimsAreJustified
    <3>3. \A i \in tx[o].doomed : HasTail(i, Seen \cup {tx[o].id})
      BY <3>1 DEF TranscriptInv, TrimsAreJustified
    <3>4. \A i \in {id} : HasTail(i, Seen \cup {tx[o].id})'
      BY <2>5, <2>6 DEF HasTail
    <3>5. \A i : HasTail(i, Seen \cup {tx[o].id}) => HasTail(i, Seen \cup {tx[o].id})'
      BY <2>4, <2>6
    <3>6. \A i \in Seen' : i \in Seen \/ i \in {id}
      BY <1>3
    <3> QED BY <3>1, <3>2, <3>3, <3>4, <3>5, <3>6
  <2> QED BY <2>3, <2>6 DEF TrimsAreJustified
<1>9. LinesInOrder'
  <2>1. \A row \in rows \cup Range(received) : row.lease \in Leases /\ row.line \in Nat /\ row.id \in Nat
    BY LinesAreTyped DEF TranscriptInv, LineType
  <2>2. \A row \in rows \cup Range(received) : row.lease = l => row.id < id /\ row.line <= frame[l]
    BY <1>1 DEF TranscriptInv, LinesInOrder
  <2>3. \A row \in rows' \cup Range(received) : row \in rows \cup Range(received) \/ row = line
    BY <1>4
  <2>4. line.id = id /\ line.lease = l /\ line.line = frame[l]
    OBVIOUS
  <2> HIDE DEF id, line
  <2>5. \A row \in rows \cup Range(received) :
          row.line <= frame'[row.lease] /\ (tx'[row.lease] # NoTx => row.id < tx'[row.lease].id)
    <3>1. \A row \in rows \cup Range(received) : row.line <= frame'[row.lease]
      BY <1>5, <2>1 DEF TranscriptInv, LinesInOrder, RowTypes
    <3> QED BY <1>5, <2>1, <3>1 DEF TranscriptInv, LinesInOrder
  <2>6. line.line <= frame'[line.lease] /\ tx'[line.lease] = NoTx
    BY <1>5, <2>4
  <2>7. \A row, o \in rows' \cup Range(received) : row.lease = o.lease /\ row.id < o.id => row.line <= o.line
    <3> SUFFICES ASSUME NEW row \in rows' \cup Range(received), NEW o \in rows' \cup Range(received),
                        row.lease = o.lease, row.id < o.id
                 PROVE  row.line <= o.line
      OBVIOUS
    <3>1. CASE row \in rows \cup Range(received) /\ o \in rows \cup Range(received)
      BY <3>1 DEF TranscriptInv, LinesInOrder
    <3>2. CASE row \in rows \cup Range(received) /\ o = line
      BY <2>2, <2>4, <3>2
    <3>3. CASE row = line /\ o \in rows \cup Range(received)
      BY <1>1, <2>1, <2>2, <2>4, <3>3
    <3>4. CASE row = line /\ o = line
      BY <1>1, <2>4, <3>4
    <3> QED BY <2>3, <3>1, <3>2, <3>3, <3>4
  <2>8. \A row \in rows' \cup Range(received) :
          row.line <= frame'[row.lease] /\ (tx'[row.lease] # NoTx => row.id < tx'[row.lease].id)
    BY <2>3, <2>5, <2>6
  <2> QED BY <1>5, <2>7, <2>8 DEF LinesInOrder
<1>10. SentInOrder'
  <2>1. ASSUME NEW row \in rows', row.id <= Cursor PROVE row \in Range(received) \/ row.id \in overtaken'
    <3>1. CASE row \in rows
      BY <1>2, <2>1, <3>1 DEF TranscriptInv, SentInOrder
    <3>2. CASE row = line
      <4>1. row.id = id /\ id # 0
        BY <1>1, <3>2
      <4>2. received # <<>>
        BY <1>1, <2>1, <4>1 DEF Cursor
      <4>3. Len(received) \in DOMAIN received /\ Cursor = received[Len(received)].id
        BY <4>2 DEF Cursor, Last, TranscriptInv, RowTypes
      <4>4. Cursor \in Seen
        BY <4>3 DEF TranscriptInv, SentInOrder
      <4>5. Cursor \in Nat /\ Cursor # id
        BY <1>1, <4>4 DEF TranscriptInv, RowTypes
      <4>6. Cursor > id
        BY <1>1, <2>1, <4>1, <4>5
      <4> QED BY <1>2, <4>1, <4>4, <4>6
    <3> QED BY <1>4, <3>1, <3>2
  <2> QED BY <1>3, <1>5, <2>1 DEF TranscriptInv, SentInOrder
<1> QED BY <1>6, <1>7, <1>8, <1>9, <1>10 DEF TranscriptInv

(* A poll: what is new follows what was sent, as far as the page goes.     *)
LEMMA PollStep ==
  ASSUME TranscriptInv, ListLogLines PROVE TranscriptInv'
<1> DEFINE new == {row \in rows : row.id > Cursor}
           page == ById(Page(new))
           n == Len(received)
<1>1. /\ received' = received \o page /\ new # {}
      /\ UNCHANGED <<frame, tx, nextId, rows, removed, raced, overtaken>>
  BY DEF ListLogLines, streamVars, rowVars
<1>2. Seen' = Seen /\ Seen \subseteq Nat /\ received \in Seq(LineType) /\ n \in Nat /\ IdsOf(rows) \subseteq Seen
      /\ DOMAIN received = 1 .. n
  BY <1>1 DEF Seen, TranscriptInv, RowTypes
<1>3. Distinct(rows)
  <2>1. \A row \in rows : row.id \in 1 .. nextId - 1
    BY DEF TranscriptInv, RowTypes, Seen, IdsOf
  <2>2. IsFiniteSet(rows)
    <3> DEFINE f == [row \in rows |-> row.id]
    <3>1. f \in [rows -> 1 .. nextId - 1] /\ IsInjective(f)
      BY <2>1 DEF IsInjective, TranscriptInv, IdsAreDistinct
    <3>2. IsFiniteSet(1 .. nextId - 1)
      BY FS_Interval DEF TranscriptInv, RowTypes
    <3> QED BY <3>1, <3>2, FS_Injection DEF Injection
  <2> QED BY <2>1, <2>2 DEF Distinct, TranscriptInv, IdsAreDistinct
<1>4. Distinct(new)
  <2>1. new \in SUBSET rows
    OBVIOUS
  <2>2. IsFiniteSet(new)
    BY <1>3, <2>1, FS_Subset DEF Distinct
  <2> QED BY <1>3, <2>2 DEF Distinct
<1>5. Distinct(Page(new)) /\ Page(new) \subseteq new /\ Page(new) # {}
  BY <1>1, <1>4, PageIsDistinct
<1>6. /\ page \in Seq(Page(new)) /\ Range(page) = Page(new)
      /\ \A i, j \in DOMAIN page : i < j => page[i].id < page[j].id
      /\ Len(page) = Cardinality(Page(new))
  BY <1>5, ByIdSorts
<1> DEFINE m == Len(page)
<1>7. m \in Nat \ {0} /\ DOMAIN page = 1 .. m
  <2>1. page # <<>>
    BY <1>5, <1>6 DEF Range
  <2> HIDE DEF page
  <2> QED BY <1>6, <2>1
<1>8. \A i \in 1 .. m : page[i] \in rows /\ page[i].id > Cursor /\ page[i] \in LineType /\ page[i].id \in Seen
  <2>1. \A i \in 1 .. m : page[i] \in Page(new)
    BY <1>6, <1>7 DEF Range
  <2>2. \A i \in 1 .. m : page[i] \in rows /\ page[i].id > Cursor
    BY <1>5, <2>1
  <2> HIDE DEF page
  <2> QED BY <1>2, <2>2 DEF TranscriptInv, RowTypes, IdsOf
<1> HIDE DEF page, new
<1>9. /\ received' \in Seq(LineType) /\ Len(received') = n + m /\ DOMAIN received' = 1 .. n + m
      /\ \A i \in 1 .. n : received'[i] = received[i]
      /\ \A i \in n + 1 .. n + m : received'[i] = page[i - n]
  <2>1. page \in Seq(LineType)
    BY <1>6, <1>7, <1>8
  <2> QED BY <1>1, <1>2, <1>7, <2>1
<1>10. \A i \in n + 1 .. n + m : i - n \in 1 .. m
  BY <1>2, <1>7
<1>11. RowTypes'
  BY <1>1, <1>2, <1>9 DEF TranscriptInv, RowTypes
<1>12. IdsAreDistinct' /\ TrimsAreJustified'
  BY <1>1, <1>2 DEF TranscriptInv, IdsAreDistinct, TrimsAreJustified, HasTail
<1>13. Range(received') \subseteq Range(received) \cup rows /\ Range(received') = Range(received) \cup Page(new)
  <2>1. \A i \in DOMAIN received' : received'[i] \in Range(received) \cup Range(page)
    BY <1>2, <1>7, <1>9, <1>10 DEF Range
  <2>2. Range(received) \subseteq Range(received')
    BY <1>2, <1>7, <1>9 DEF Range
  <2>3. Range(page) \subseteq Range(received')
    <3> SUFFICES ASSUME NEW i \in 1 .. m PROVE page[i] \in Range(received')
      BY <1>7 DEF Range
    <3>1. i + n \in n + 1 .. n + m /\ i + n \in 1 .. n + m /\ (i + n) - n = i
      BY <1>2, <1>7
    <3> QED BY <1>9, <3>1 DEF Range
  <2> QED BY <1>5, <1>6, <2>1, <2>2, <2>3 DEF Range, new
<1>14. LinesInOrder'
  BY <1>1, <1>13 DEF TranscriptInv, LinesInOrder
<1>15. Cursor' = page[m].id
  <2>1. received' # <<>> /\ n + m \in n + 1 .. n + m /\ (n + m) - n = m
    BY <1>2, <1>7, <1>9
  <2> QED BY <1>9, <2>1 DEF Cursor, Last
<1>16. \A i \in 1 .. n : received[i].id \in Nat /\ received[i].id <= Cursor
  <2> SUFFICES ASSUME NEW i \in 1 .. n PROVE received[i].id \in Nat /\ received[i].id <= Cursor
    OBVIOUS
  <2>1. n \in 1 .. n /\ received # <<>> /\ Cursor = received[n].id
    <3>1. n \in 1 .. n /\ n # 0
      <4> HIDE DEF n
      <4> QED BY <1>2
    <3>2. received # <<>>
      BY <3>1
    <3> QED BY <3>1, <3>2 DEF Cursor, Last
  <2>2. received[i].id \in Seen /\ received[n].id \in Seen /\ (i < n => received[i].id < received[n].id)
    BY <1>2, <2>1 DEF TranscriptInv, SentInOrder
  <2>3. i = n \/ i < n
    <3> HIDE DEF n
    <3> QED BY <1>2
  <2>4. i = n => received[i].id = received[n].id
    OBVIOUS
  <2>5. received[i].id \in Nat /\ received[n].id \in Nat
    BY <1>2, <2>2
  <2> QED BY <2>1, <2>2, <2>3, <2>4, <2>5
<1>17. Cursor \in Nat
  <2>1. CASE received = <<>>
    BY <2>1 DEF Cursor
  <2>2. CASE received # <<>>
    <3>1. n \in 1 .. n /\ Cursor = received[n].id
      BY <1>2, <2>2 DEF Cursor, Last
    <3> QED BY <1>16, <3>1
  <2> QED BY <2>1, <2>2
<1>18. SentInOrder'
  <2>1. \A i \in DOMAIN received' : received'[i].id \in Seen
    <3>1. \A i \in 1 .. n : received'[i].id \in Seen
      BY <1>2, <1>9 DEF TranscriptInv, SentInOrder
    <3>2. \A i \in n + 1 .. n + m : received'[i].id \in Seen
      BY <1>8, <1>9, <1>10
    <3>3. \A i \in 1 .. n + m : i \in 1 .. n \/ i \in n + 1 .. n + m
      BY <1>2, <1>7
    <3> QED BY <1>9, <3>1, <3>2, <3>3
  <2>2. ASSUME NEW i \in 1 .. n + m, NEW j \in 1 .. n + m, i < j PROVE received'[i].id < received'[j].id
    <3>1. CASE j <= n
      <4>1. i \in 1 .. n /\ j \in 1 .. n
        BY <1>2, <2>2, <3>1
      <4> QED BY <1>2, <1>9, <2>2, <4>1 DEF TranscriptInv, SentInOrder
    <3>2. CASE i <= n /\ j > n
      <4>1. i \in 1 .. n /\ j \in n + 1 .. n + m /\ j - n \in 1 .. m
        BY <1>2, <1>7, <3>2
      <4>2. received'[i].id \in Nat /\ received'[i].id <= Cursor
        BY <1>9, <1>16, <4>1
      <4>3. received'[j].id \in Nat /\ received'[j].id > Cursor
        BY <1>2, <1>8, <1>9, <4>1
      <4> QED BY <1>17, <4>2, <4>3
    <3>3. CASE i > n
      <4>1. i \in n + 1 .. n + m /\ j \in n + 1 .. n + m /\ i - n \in 1 .. m /\ j - n \in 1 .. m /\ i - n < j - n
        BY <1>2, <1>7, <2>2, <3>3
      <4>2. received'[i] = page[i - n] /\ received'[j] = page[j - n]
        BY <1>9, <4>1
      <4>3. page[i - n].id < page[j - n].id
        BY <1>6, <1>7, <4>1
      <4> QED BY <4>2, <4>3
    <3> QED BY <1>2, <1>7, <3>1, <3>2, <3>3
  <2>3. ASSUME NEW row \in rows, row.id <= Cursor' PROVE row \in Range(received') \/ row.id \in overtaken
    <3>1. CASE row.id <= Cursor
      BY <1>13, <3>1 DEF TranscriptInv, SentInOrder
    <3>2. CASE row.id > Cursor
      <4>1. row \in new
        BY <3>2 DEF new
      <4>2. page[m] \in Page(new)
        BY <1>6, <1>7 DEF Range
      <4>3. row \in Page(new)
        BY <1>4, <1>15, <2>3, <4>1, <4>2, PageIsBeginning
      <4> QED BY <1>13, <4>3
    <3>3. row.id \in Nat
      BY <1>3 DEF Distinct
    <3> QED BY <1>17, <3>1, <3>2, <3>3
  <2> QED BY <1>1, <1>2, <1>9, <2>1, <2>2, <2>3 DEF SentInOrder
<1> QED BY <1>11, <1>12, <1>14, <1>18 DEF TranscriptInv

LEMMA NextTranscriptInv ==
  ASSUME TranscriptInv, [TranscriptNext]_transcriptVars PROVE TranscriptInv'
<1>1. CASE Idles
  BY <1>1
  DEF Idles, rowVars, TranscriptInv, RowTypes, IdsAreDistinct, TrimsAreJustified, LinesInOrder,
      SentInOrder, Seen, HasTail, Cursor
<1> QED BY <1>1, StepsOfRows, DrawStep, KeepStep, TrimStep, CommitStep, GiveUpStep,
         PollStep

LEMMA TranscriptInvHolds == Spec => []TranscriptInv
<1>1. Init => TranscriptInv
  BY InitTranscriptInv DEF Init
<1>2. TranscriptInv /\ [Next]_vars => TranscriptInv'
  <2> SUFFICES ASSUME TranscriptInv, [Next]_vars PROVE TranscriptInv'
    OBVIOUS
  <2>1. [TranscriptNext]_transcriptVars
    BY DEF Next, vars
  <2> QED BY <2>1, NextTranscriptInv
<1> QED BY <1>1, <1>2, PTL DEF Spec

(* Whatever streams overlap, fail and retry: a line is trimmed only when   *)
(* as many newer ones as are to be kept have been stored, or another       *)
(* stream's transaction was open when it was committed.                    *)
THEOREM TrimsKeepTheTail == Spec => []RetentionKeepsTail
<1>1. TranscriptInv => RetentionKeepsTail
  BY DEF TranscriptInv, TrimsAreJustified, HasTail, RetentionKeepsTail, Seen, Newer
<1> QED BY <1>1, TranscriptInvHolds, PTL

(* A client that passes back the last id it saw is sent a lease's lines in *)
(* the order they were printed, and misses a line that is kept only if it  *)
(* was committed behind one with a higher id.                              *)
THEOREM PollsFollow == Spec => []PollsMissOnlyOvertaken
<1>1. TranscriptInv => PollsMissOnlyOvertaken
  <2> SUFFICES ASSUME TranscriptInv PROVE PollsMissOnlyOvertaken
    OBVIOUS
  <2>1. \A i, j \in DOMAIN received :
          i < j /\ received[i].lease = received[j].lease => received[i].line <= received[j].line
    BY DEF TranscriptInv, SentInOrder, LinesInOrder, Range
  <2> QED BY <2>1 DEF TranscriptInv, SentInOrder, PollsMissOnlyOvertaken
<1> QED BY <1>1, TranscriptInvHolds, PTL

-----------------------------------------------------------------------------
(* A trainer's output, for any number of lines: where a line is that was   *)
(* read, until it was forwarded.                                           *)
Items == {"stdout", "stderr", "done", "end"} \X Nat

OutputTypes ==
  /\ merged \in Seq(Items) /\ queue \in Seq(Items) /\ kinds \in Seq(Kinds)
  /\ printed \in [Streams -> Nat] /\ read \in [Streams -> Nat]
  /\ pump \in [Streams -> {"reading", "ended", "broken"}]
  /\ Len(kinds) = printed["stdout"] /\ \A s \in Streams : read[s] <= printed[s]
  /\ task = "connecting" => link = "none"
  /\ task = "pumping" => link \in {"open", "lost"}
  /\ LogDone \notin ToSet(merged)

EndedHaveRead == \A s \in Streams : pump[s] = "ended" => process # "running" /\ read[s] = printed[s]

(* The mark at the end is the last there is: nothing is read after it.     *)
EndIsLast ==
  /\ LogDone \in ToSet(queue) \/ task \in {"waiting", "settled"} =>
       merged = <<>> /\ \A s \in Streams : pump[s] # "reading"
  /\ \A i \in DOMAIN queue : queue[i] = LogDone => i = Len(queue)
  /\ task \in {"waiting", "settled"} => queue = <<>>

Told(s, i) ==
  /\ link # "lost" => <<s, i>> \in sent
  /\ s = "stdout" /\ kinds[i] # "plain" => kinds[i] \in results

ReadIsOnItsWay ==
  \A s \in Streams : \A i \in 1 .. read[s] :
    <<s, i>> \in ToSet(merged) \/ <<s, i>> \in ToSet(queue) \/ Told(s, i)

OutputInv == OutputTypes /\ EndedHaveRead /\ EndIsLast /\ ReadIsOnItsWay

LEMMA AppendAdds ==
  ASSUME NEW q \in Seq(Items), NEW x \in Items
  PROVE  Append(q, x) \in Seq(Items) /\ ToSet(Append(q, x)) = ToSet(q) \cup {x}
<1> DEFINE a == Append(q, x)
<1>1. /\ a \in Seq(Items) /\ DOMAIN q = 1 .. Len(q) /\ DOMAIN a = 1 .. Len(q) + 1 /\ Len(q) \in Nat
      /\ \A i \in 1 .. Len(q) : a[i] = q[i] /\ i \in DOMAIN a
      /\ a[Len(q) + 1] = x /\ Len(q) + 1 \in DOMAIN a
  OBVIOUS
<1> HIDE DEF a
<1>2. \A i \in DOMAIN a : i \in 1 .. Len(q) \/ i = Len(q) + 1
  BY <1>1
<1>3. ToSet(a) \subseteq ToSet(q) \cup {x}
  BY <1>1, <1>2 DEF ToSet
<1>4. ToSet(q) \cup {x} \subseteq ToSet(a)
  BY <1>1 DEF ToSet
<1> QED BY <1>1, <1>3, <1>4 DEF a

LEMMA TailDrops ==
  ASSUME NEW q \in Seq(Items), q # <<>>
  PROVE  /\ Tail(q) \in Seq(Items) /\ Head(q) \in Items
         /\ ToSet(q) = ToSet(Tail(q)) \cup {Head(q)}
         /\ Len(Tail(q)) = Len(q) - 1 /\ \A i \in 1 .. Len(q) - 1 : Tail(q)[i] = q[i + 1]
<1>1. Len(q) \in Nat \ {0} /\ Tail(q) \in Seq(Items) /\ Head(q) = q[1] /\ Len(Tail(q)) = Len(q) - 1
      /\ \A i \in 1 .. Len(q) - 1 : Tail(q)[i] = q[i + 1]
  OBVIOUS
<1>2. \A i \in 1 .. Len(q) : i = 1 \/ (i - 1 \in 1 .. Len(q) - 1 /\ Tail(q)[i - 1] = q[i])
  BY <1>1
<1>3. \A i \in 1 .. Len(q) - 1 : i + 1 \in 1 .. Len(q)
  BY <1>1
<1>4. DOMAIN q = 1 .. Len(q) /\ DOMAIN Tail(q) = 1 .. Len(q) - 1 /\ 1 \in 1 .. Len(q)
  BY <1>1
<1>5. ToSet(q) = ToSet(Tail(q)) \cup {Head(q)}
  <2> DEFINE b == Tail(q)
  <2>1. \A i \in DOMAIN q : q[i] = Head(q) \/ (i - 1 \in DOMAIN b /\ b[i - 1] = q[i])
    BY <1>1, <1>2, <1>4
  <2>2. \A i \in DOMAIN b : i + 1 \in DOMAIN q /\ b[i] = q[i + 1]
    BY <1>1, <1>3, <1>4
  <2>3. q[1] = Head(q) /\ 1 \in DOMAIN q
    BY <1>1, <1>4
  <2> HIDE DEF b
  <2>4. ToSet(q) \subseteq ToSet(b) \cup {Head(q)}
    BY <2>1 DEF ToSet
  <2>5. ToSet(b) \cup {Head(q)} \subseteq ToSet(q)
    BY <2>2, <2>3 DEF ToSet
  <2> QED BY <2>4, <2>5 DEF b
<1> QED BY <1>1, <1>5

LEMMA InitOutputInv == OutputInit => OutputInv
BY DEF OutputInit, OutputInv, OutputTypes, EndedHaveRead, EndIsLast, ReadIsOnItsWay, ToSet, Streams, Items, Kinds

LEMMA WriteStep == ASSUME OutputInv, NEW s \in Streams, WritesLine(s) PROVE OutputInv'
<1>1. /\ process = "running" /\ printed' = [printed EXCEPT ![s] = @ + 1]
      /\ UNCHANGED <<process, merged, queue, read, pump, exited, task, link, sent, results>>
      /\ s # "stdout" => kinds' = kinds
      /\ s = "stdout" => \E kind \in Kinds : kinds' = Append(kinds, kind)
  BY DEF WritesLine, threadVars, taskVars
<1>2. /\ kinds' \in Seq(Kinds) /\ Len(kinds') = printed'["stdout"]
      /\ \A i \in 1 .. Len(kinds) : kinds'[i] = kinds[i]
  <2>1. kinds \in Seq(Kinds) /\ Len(kinds) = printed["stdout"] /\ "stdout" \in Streams
    BY DEF OutputInv, OutputTypes, Streams
  <2>2. CASE s = "stdout"
    <3>1. PICK kind \in Kinds : kinds' = Append(kinds, kind)
      BY <1>1, <2>2
    <3>2. printed'["stdout"] = printed["stdout"] + 1
      BY <1>1, <2>1, <2>2 DEF OutputInv, OutputTypes
    <3> QED BY <2>1, <3>1, <3>2
  <2>3. CASE s # "stdout"
    BY <1>1, <2>1, <2>3 DEF OutputInv, OutputTypes
  <2> QED BY <2>2, <2>3
<1>3. OutputTypes'
  BY <1>1, <1>2 DEF OutputInv, OutputTypes
<1>4. EndedHaveRead' /\ EndIsLast'
  BY <1>1 DEF OutputInv, OutputTypes, EndedHaveRead, EndIsLast
<1>5. ReadIsOnItsWay'
  <2>1. \A i \in 1 .. read["stdout"] : kinds'[i] = kinds[i]
    BY <1>2 DEF OutputInv, OutputTypes, Streams
  <2> QED BY <1>1, <2>1 DEF OutputInv, ReadIsOnItsWay, Told
<1> QED BY <1>3, <1>4, <1>5 DEF OutputInv

LEMMA ThreadStep ==
  ASSUME OutputInv, NEW s \in Streams, Pump(s) \/ PumpEnds(s) \/ PumpBreaks(s) PROVE OutputInv'
<1> DEFINE x == IF read'[s] = read[s] THEN StreamDone ELSE <<s, read[s] + 1>>
<1>1. /\ pump[s] = "reading" /\ merged' = Append(merged, x) /\ x \in Items
      /\ UNCHANGED <<process, printed, kinds, queue, exited, task, link, sent, results>>
      /\ \A o \in Streams \ {s} : pump'[o] = pump[o] /\ read'[o] = read[o]
      /\ read' \in [Streams -> Nat] /\ pump' \in [Streams -> {"reading", "ended", "broken"}]
      /\ read'[s] <= printed[s]
  <2>1. read[s] \in Nat /\ printed[s] \in Nat /\ read \in [Streams -> Nat] /\ read[s] <= printed[s]
        /\ pump \in [Streams -> {"reading", "ended", "broken"}] /\ s \in {"stdout", "stderr"}
    BY DEF OutputInv, OutputTypes, Streams
  <2>2. StreamDone \in Items /\ <<s, read[s] + 1>> \in Items
    BY <2>1 DEF StreamDone, Items
  <2>3. CASE Pump(s)
    <3>1. read' = [read EXCEPT ![s] = @ + 1] /\ read'[s] # read[s]
      BY <2>1, <2>3 DEF Pump
    <3> QED BY <2>1, <2>2, <2>3, <3>1 DEF Pump, trainerVars, taskVars
  <2>4. CASE PumpEnds(s) \/ PumpBreaks(s)
    BY <2>1, <2>2, <2>4 DEF PumpEnds, PumpBreaks, MarkDone, trainerVars, taskVars
  <2> QED BY <2>3, <2>4
<1>2. pump'[s] = "ended" => process # "running" /\ read'[s] = printed[s]
  BY <1>1 DEF Pump, PumpEnds, PumpBreaks, OutputInv, OutputTypes
<1>3. \A i \in 1 .. read'[s] : i \in 1 .. read[s] \/ x = <<s, i>>
  BY <1>1 DEF Pump, PumpEnds, PumpBreaks, OutputInv, OutputTypes
<1> HIDE DEF x
<1>4. merged' \in Seq(Items) /\ ToSet(merged') = ToSet(merged) \cup {x}
  BY <1>1, AppendAdds DEF OutputInv, OutputTypes
<1>5. OutputTypes'
  <2>1. x # LogDone
    BY <1>1 DEF x, StreamDone, LogDone, Streams
  <2> QED BY <1>1, <1>4, <2>1 DEF OutputInv, OutputTypes
<1>6. EndedHaveRead'
  BY <1>1, <1>2 DEF OutputInv, EndedHaveRead
<1>7. EndIsLast'
  BY <1>1 DEF OutputInv, EndIsLast
<1>8. ReadIsOnItsWay'
  BY <1>1, <1>3, <1>4 DEF OutputInv, ReadIsOnItsWay, Told
<1> QED BY <1>5, <1>6, <1>7, <1>8 DEF OutputInv

LEMMA TailStep == ASSUME OutputInv, TailLogs PROVE OutputInv'
<1> DEFINE x == Head(merged)
<1>1. /\ merged # <<>> /\ LogDone \notin ToSet(queue) /\ merged' = Tail(merged)
      /\ UNCHANGED <<process, printed, kinds, read, pump, exited, task, link, sent, results>>
  BY DEF TailLogs, trainerVars, taskVars
<1>2. /\ merged' \in Seq(Items) /\ x \in Items /\ ToSet(merged) = ToSet(merged') \cup {x}
      /\ queue \in Seq(Items) /\ LogDone \in Items
  BY <1>1, TailDrops DEF OutputInv, OutputTypes, LogDone, Items
<1>3. task \notin {"waiting", "settled"}
  BY <1>1 DEF OutputInv, EndIsLast
<1> HIDE DEF x
<1>4. \A i \in DOMAIN queue : queue[i] # LogDone
  BY <1>1 DEF ToSet
<1>5. CASE x # StreamDone /\ queue' = Append(queue, x)
  <2>1. queue' \in Seq(Items) /\ ToSet(queue') = ToSet(queue) \cup {x}
    BY <1>2, <1>5, AppendAdds
  <2>2. x # LogDone
    BY <1>2 DEF OutputInv, OutputTypes
  <2>3. LogDone \notin ToSet(queue') /\ LogDone \notin ToSet(merged')
    BY <1>1, <1>2, <2>1, <2>2 DEF OutputInv, OutputTypes
  <2>4. \A i \in DOMAIN queue' : queue'[i] # LogDone
    BY <2>3 DEF ToSet
  <2>5. EndIsLast'
    BY <1>1, <1>3, <2>3, <2>4 DEF EndIsLast
  <2>6. ReadIsOnItsWay'
    BY <1>1, <1>2, <2>1 DEF OutputInv, ReadIsOnItsWay, Told
  <2> QED BY <1>1, <1>2, <2>1, <2>3, <2>5, <2>6 DEF OutputInv, OutputTypes, EndedHaveRead
<1>6. CASE x = StreamDone /\ AllDone /\ queue' = Append(queue, LogDone)
  <2>1. queue' \in Seq(Items) /\ ToSet(queue') = ToSet(queue) \cup {LogDone}
    BY <1>2, <1>6, AppendAdds
  <2>2. merged' = <<>> /\ \A s \in Streams : pump[s] # "reading"
    BY <1>1, <1>6 DEF AllDone
  <2>3. \A i \in DOMAIN queue' : queue'[i] = LogDone => i = Len(queue')
    BY <1>2, <1>4, <1>6
  <2>4. \A s \in Streams : \A i : <<s, i>> # x
    BY <1>6 DEF StreamDone, Streams
  <2>5. ReadIsOnItsWay'
    BY <1>1, <1>2, <2>1, <2>4 DEF OutputInv, ReadIsOnItsWay, Told
  <2> QED BY <1>1, <1>2, <1>3, <2>1, <2>2, <2>3, <2>5
      DEF OutputInv, OutputTypes, EndedHaveRead, EndIsLast
<1>7. CASE x = StreamDone /\ queue' = queue
  <2>1. \A s \in Streams : \A i : <<s, i>> # x
    BY <1>7 DEF StreamDone, Streams
  <2>2. ReadIsOnItsWay'
    BY <1>1, <1>2, <1>7, <2>1 DEF OutputInv, ReadIsOnItsWay, Told
  <2> QED BY <1>1, <1>2, <1>3, <1>7, <2>2 DEF OutputInv, OutputTypes, EndedHaveRead, EndIsLast
<1> QED BY <1>5, <1>6, <1>7 DEF TailLogs, x

LEMMA ForwardStep == ASSUME OutputInv, ForwardLine PROVE OutputInv'
<1> DEFINE x == Head(queue)
<1>1. /\ task = "pumping" /\ queue # <<>> /\ queue' = Tail(queue)
      /\ UNCHANGED <<process, printed, kinds, read, pump, merged, exited>>
      /\ link \in {"open", "lost"}
  BY DEF ForwardLine, trainerVars, OutputInv, OutputTypes
<1>2. /\ queue' \in Seq(Items) /\ x \in Items /\ ToSet(queue) = ToSet(queue') \cup {x}
      /\ Len(queue') = Len(queue) - 1 /\ \A i \in 1 .. Len(queue) - 1 : queue'[i] = queue[i + 1]
      /\ queue \in Seq(Items) /\ queue[1] = x /\ 1 \in DOMAIN queue
  BY <1>1, TailDrops DEF OutputInv, OutputTypes
<1>3. \A i \in DOMAIN queue' : queue'[i] = LogDone => i = Len(queue')
  <2> SUFFICES ASSUME NEW i \in DOMAIN queue', queue'[i] = LogDone PROVE i = Len(queue')
    OBVIOUS
  <2>1. i \in 1 .. Len(queue) - 1 /\ i + 1 \in DOMAIN queue /\ queue[i + 1] = LogDone
    BY <1>2
  <2>2. i + 1 = Len(queue)
    BY <2>1 DEF OutputInv, EndIsLast
  <2> QED BY <1>2, <2>1, <2>2
<1>4. LogDone \in ToSet(queue') => LogDone \in ToSet(queue)
  BY <1>2
<1>5. CASE x = LogDone
  <2>1. task' = "waiting" /\ UNCHANGED <<sent, results>> /\ link' = IF link = "open" THEN "closed" ELSE link
    BY <1>5 DEF ForwardLine, Closes
  <2>2. Len(queue) = 1 /\ queue' = <<>>
    <3>1. Len(queue) = 1
      BY <1>2, <1>5 DEF OutputInv, EndIsLast
    <3> QED BY <1>2, <3>1
  <2>3. LogDone \in ToSet(queue)
    BY <1>2, <1>5
  <2>4. \A s \in Streams : \A i : <<s, i>> # x
    BY <1>5 DEF LogDone, Streams
  <2>5. ReadIsOnItsWay'
    BY <1>1, <1>2, <2>1, <2>4 DEF OutputInv, ReadIsOnItsWay, Told
  <2> QED BY <1>1, <1>2, <1>3, <1>5, <2>1, <2>2, <2>3, <2>5
      DEF OutputInv, OutputTypes, EndedHaveRead, EndIsLast
<1>6. CASE x # LogDone
  <2>1. /\ sent' = IF link = "open" THEN sent \cup {x} ELSE sent
        /\ results' = Parsed(x) /\ UNCHANGED <<task, link>>
    BY <1>6 DEF ForwardLine
  <2>2. results \subseteq results'
    BY <2>1 DEF Parsed
  <2>3. ASSUME NEW s \in Streams, NEW i \in 1 .. read[s], <<s, i>> = x PROVE Told(s, i)'
    <3>1. x[1] = s /\ x[2] = i
      <4> HIDE DEF x
      <4> QED BY <2>3
    <3> QED BY <1>1, <2>1, <2>3, <3>1 DEF Told, Parsed
  <2>4. \A s \in Streams : \A i \in 1 .. read[s] : Told(s, i) => Told(s, i)'
    BY <1>1, <2>1, <2>2 DEF Told
  <2>5. ReadIsOnItsWay'
    BY <1>1, <1>2, <2>3, <2>4 DEF OutputInv, ReadIsOnItsWay
  <2> QED BY <1>1, <1>2, <1>3, <1>4, <2>1, <2>5
      DEF OutputInv, OutputTypes, EndedHaveRead, EndIsLast
<1> QED BY <1>5, <1>6

LEMMA OtherOutputStep ==
  ASSUME OutputInv,
         Exit \/ WaitForExit \/ OpenStream \/ ConnectionIsLost \/ Settle \/ Cancelled \/ StopContainer
           \/ UNCHANGED outputVars
  PROVE  OutputInv'
<1>1. /\ UNCHANGED <<printed, kinds, read, pump, merged, queue, sent, results>>
      /\ process # "running" => process' # "running"
      /\ link = "lost" => link' = "lost"
      /\ task' \in {"waiting", "settled"} => task \in {"waiting", "settled"}
      /\ task' = "connecting" => link' = "none"
      /\ task' = "pumping" => link' \in {"open", "lost"}
  <2>1. CASE Exit \/ WaitForExit \/ UNCHANGED outputVars
    BY <2>1 DEF Exit, WaitForExit, outputVars, trainerVars, threadVars, taskVars, OutputInv, OutputTypes
  <2>2. CASE OpenStream
    BY <2>2 DEF OpenStream, trainerVars, threadVars, OutputInv, OutputTypes
  <2>4. CASE ConnectionIsLost
    BY <2>4 DEF ConnectionIsLost, trainerVars, threadVars, OutputInv, OutputTypes
  <2>3. CASE Settle \/ Cancelled \/ StopContainer
    BY <2>3 DEF Settle, Cancelled, StopContainer, Closes, trainerVars, threadVars
  <2> QED BY <2>1, <2>2, <2>3, <2>4
<1>2. OutputTypes' /\ EndedHaveRead' /\ EndIsLast'
  BY <1>1 DEF OutputInv, OutputTypes, EndedHaveRead, EndIsLast
<1>3. ReadIsOnItsWay'
  BY <1>1 DEF OutputInv, ReadIsOnItsWay, Told
<1> QED BY <1>2, <1>3 DEF OutputInv

(* What a settled execution reports is complete, for any output and        *)
(* whichever thread or stream breaks: the safety half of ExecutionSettles. *)
THEOREM SettledReportsAreComplete == Spec => []SettledTellsAll
<1>1. Init => OutputInv
  BY InitOutputInv DEF Init
<1>2. OutputInv /\ [Next]_vars => OutputInv'
  <2>1. [Next]_vars => OutputNext \/ UNCHANGED outputVars
    BY DEF Next, vars
  <2> QED BY <2>1, WriteStep, ThreadStep, TailStep, ForwardStep, OtherOutputStep DEF OutputNext
<1>3. OutputInv => SettledTellsAll
  <2> SUFFICES ASSUME OutputInv, task = "settled"
               PROVE  /\ pump["stdout"] = "ended" /\ "final" \in ToSet(kinds) => Summary = "final"
                      /\ \A s \in Streams : pump[s] = "ended" /\ link = "closed" =>
                             {s} \X (1 .. printed[s]) \subseteq sent
    BY DEF SettledTellsAll
  <2>1. ToSet(merged) = {} /\ ToSet(queue) = {}
    BY DEF OutputInv, EndIsLast, ToSet
  <2>2. \A s \in Streams : pump[s] = "ended" => \A i \in 1 .. printed[s] : Told(s, i)
    BY <2>1 DEF OutputInv, EndedHaveRead, ReadIsOnItsWay
  <2>3. \A s \in Streams : pump[s] = "ended" /\ link = "closed" => {s} \X (1 .. printed[s]) \subseteq sent
    BY <2>2 DEF Told
  <2>4. ASSUME pump["stdout"] = "ended", "final" \in ToSet(kinds) PROVE Summary = "final"
    <3>1. PICK i \in DOMAIN kinds : kinds[i] = "final"
      BY <2>4 DEF ToSet
    <3>2. i \in 1 .. printed["stdout"] /\ "stdout" \in Streams
      BY DEF OutputInv, OutputTypes, Streams
    <3>3. "final" \in results
      BY <2>2, <2>4, <3>1, <3>2 DEF Told
    <3> QED BY <3>3 DEF Summary
  <2> QED BY <2>3, <2>4
<1> QED BY <1>1, <1>2, <1>3, PTL DEF Spec
=============================================================================
