--------------------------- MODULE PoliciesProofs ---------------------------
(***************************************************************************)
(* The decisions the code takes by itself, for any inputs: on what a       *)
(* trainer trains, how ranks share an epoch, when a node counts as failed, *)
(* and what is stored of an archive.                                       *)
(*                                                                         *)
(* Sums over a sequence and the bounds of one are shown by induction on    *)
(* its length: the lengths for which the claim holds are a set, and every  *)
(* set of numbers that has 0, and n + 1 with n, has all (FromZeroUp).      *)
(***************************************************************************)
EXTENDS MCPolicies, FiniteSetTheorems, SequenceTheorems, WellFoundedInduction, TLAPS

(* Induction over the numbers, for a set of them.                          *)
LEMMA FromZeroUp ==
  ASSUME NEW P \in SUBSET Nat, 0 \in P, \A k \in P : k + 1 \in P
  PROVE  \A k \in Nat : k \in P
<1> DEFINE R == OpToRel(<, Nat)
           T == Nat \ P
<1>1. IsWellFoundedOn(R, Nat)
  BY NatLessThanWellFounded
<1>2. ASSUME T # {} PROVE FALSE
  <2>1. PICK x \in T : \A y \in T : ~(<<y, x>> \in R)
    <3> HIDE DEF R
    <3>1. T \subseteq Nat
      OBVIOUS
    <3> HIDE DEF T
    <3> QED BY <1>1, <1>2, <3>1, WFMin
  <2>2. x \in Nat \ {0}
    OBVIOUS
  <2>3. x - 1 \in T
    BY <2>2
  <2>4. <<x - 1, x>> \in R
    BY <2>2 DEF OpToRel
  <2> QED BY <2>1, <2>3, <2>4
<1> QED BY <1>2

(* Products with one positive factor are ordered as the other.             *)
LEMMA LessByFactor ==
  ASSUME NEW x \in Int, NEW y \in Int, NEW b \in Nat \ {0}, x * b < y * b PROVE x < y
<1>1. ASSUME x >= y PROVE FALSE
  <2>1. x = y + (x - y) /\ x - y \in Nat
    BY <1>1
  <2>2. (x - y) * b >= 0
    BY <2>1
  <2>3. x * b = y * b + (x - y) * b
    OBVIOUS
  <2> QED BY <2>2, <2>3
<1> QED BY <1>1

LEMMA MoreByFactor ==
  ASSUME NEW x \in Int, NEW y \in Int, NEW b \in Nat, x <= y PROVE x * b <= y * b
<1>1. y - x \in Nat
  OBVIOUS
<1>2. (y - x) * b >= 0
  BY <1>1
<1>3. y * b = x * b + (y - x) * b
  OBVIOUS
<1>4. x * b \in Int /\ y * b \in Int /\ (y - x) * b \in Int
  OBVIOUS
<1> QED BY <1>2, <1>3, <1>4

LEMMA NotMoreByFactor ==
  ASSUME NEW x \in Int, NEW y \in Int, NEW b \in Nat \ {0}, x * b <= y * b PROVE x <= y
<1>1. ASSUME y < x PROVE FALSE
  <2>1. (y + 1) * b <= x * b
    BY <1>1, MoreByFactor
  <2>2. (y + 1) * b = y * b + b /\ y * b \in Int /\ x * b \in Int
    OBVIOUS
  <2> QED BY <2>1, <2>2
<1> QED BY <1>1

(* Squares are ordered as what is squared.                                 *)
LEMMA SquareGrows ==
  ASSUME NEW x \in Nat, NEW y \in Nat, x <= y PROVE x * x <= y * y
<1>1. x * x <= y * x /\ x * y <= y * y
  BY MoreByFactor
<1>2. x * x \in Int /\ y * x \in Int /\ x * y \in Int /\ y * y \in Int /\ x * y = y * x
  OBVIOUS
<1> QED BY <1>1, <1>2

LEMMA SquareShrinks ==
  ASSUME NEW x \in Nat, NEW y \in Nat, x * x <= y * y PROVE x <= y
<1>1. ASSUME y < x PROVE FALSE
  <2>1. y * y <= x * y
    BY <1>1, MoreByFactor
  <2>2. x \in Nat \ {0}
    BY <1>1
  <2>3. y * x \in Int /\ x * x \in Int /\ y * y \in Int /\ x * y = y * x
    OBVIOUS
  <2>4. y * x < x * x
    <3>1. x - y \in Nat \ {0}
      BY <1>1
    <3>2. (x - y) * x > 0
      BY <2>2, <3>1
    <3>3. x * x = y * x + (x - y) * x /\ (x - y) * x \in Int
      OBVIOUS
    <3> QED BY <2>3, <3>2, <3>3
  <2> QED BY <2>1, <2>3, <2>4
<1> QED BY <1>1

-----------------------------------------------------------------------------
(* A tree is nowhere or whole; who extracts has verified; who is past the   *)
(* extraction or the decoding finds its result, which nobody takes away.    *)
DataInv ==
  /\ DataTypeOK
  /\ cache \in {"none", "whole"} /\ decoded \in {"none", "whole"}
  /\ \A p \in Trainers :
       /\ phase[p] \in {"extract", "publish"} => p \notin tainted
       /\ phase[p] \in {"load", "decode", "train"} => cache = "whole"
       /\ phase[p] = "train" => decoded = "whole"

LEMMA StepKeepsData ==
  ASSUME DataInv, [DataNext]_dataVars PROVE DataInv'
<1> USE DEF DataInv, DataTypeOK, Trees, Phases, jobVars
<1>1. CASE SubmitJob \/ CreateJob \/ RetireDataset
  BY <1>1 DEF SubmitJob, CreateJob, RetireDataset
<1>2. ASSUME NEW p \in Trainers, StartTrainer(p) PROVE DataInv'
  BY <1>2 DEF StartTrainer, Goes
<1>3. ASSUME NEW p \in Trainers, PieceDiffers(p) PROVE DataInv'
  BY <1>3 DEF PieceDiffers
<1>4. ASSUME NEW p \in Trainers, DownloadFails(p) \/ TrainerGone(p) PROVE DataInv'
  BY <1>4 DEF DownloadFails, TrainerGone, Goes
<1>5. ASSUME NEW p \in Trainers, DownloadAndVerify(p) PROVE DataInv'
  BY <1>5 DEF DownloadAndVerify, Verified, Goes
<1>6. ASSUME NEW p \in Trainers, SafeExtract(p) PROVE DataInv'
  BY <1>6 DEF SafeExtract, Staged, Goes
<1>7. ASSUME NEW p \in Trainers, PublishExtracted(p) PROVE DataInv'
  BY <1>7 DEF PublishExtracted, Renamed, Goes
<1>8. ASSUME NEW p \in Trainers, LoadDecoded(p) PROVE DataInv'
  BY <1>8 DEF LoadDecoded, Goes
<1>9. ASSUME NEW p \in Trainers, DecodeSplits(p) PROVE DataInv'
  BY <1>9 DEF DecodeSplits, Staged, Goes
<1>10. ASSUME NEW p \in Trainers, PublishDecoded(p) PROVE DataInv'
  BY <1>10 DEF PublishDecoded, Renamed, Goes
<1>11. CASE UNCHANGED dataVars
  BY <1>11 DEF dataVars
<1> QED BY <1>1, <1>2, <1>3, <1>4, <1>5, <1>6, <1>7, <1>8, <1>9, <1>10, <1>11 DEF DataNext

(* Whoever trains does so on the whole archive that was validated, however  *)
(* many trainers share the cache, race, die or are cut off                  *)
(* (_prepare_custom_dataset, _decoded_custom_dataset).                      *)
THEOREM TrainersUseTheArchive == DataSpec => []TrainsOnSubmitted
<1>1. DataInit => DataInv
  BY DEF DataInit, DataInv, DataTypeOK, Trees, Phases
<1>2. DataInv /\ [DataNext]_dataVars => DataInv'
  BY StepKeepsData
<1>3. DataInv => TrainsOnSubmitted
  BY DEF DataInv, TrainsOnSubmitted
<1> QED BY <1>1, <1>2, <1>3, PTL DEF DataSpec

-----------------------------------------------------------------------------
(* How ranks share an epoch: the order is padded to a multiple of the      *)
(* cohort, so that every rank has as many indices as every other.          *)
LEMMA DivMod ==
  ASSUME NEW a \in Nat, NEW b \in Nat \ {0}
  PROVE  /\ a \div b \in Nat /\ (a % b) \in 0 .. b - 1
         /\ a = (a \div b) * b + (a % b)
OBVIOUS

LEMMA CeilDivBounds ==
  ASSUME NEW a \in Nat, NEW b \in Nat \ {0}
  PROVE  /\ CeilDiv(a, b) \in Nat
         /\ (CeilDiv(a, b) - 1) * b < a /\ a <= CeilDiv(a, b) * b
<1> DEFINE q == CeilDiv(a, b)
           t == (a + b - 1) % b
<1>1. a + b - 1 \in Nat
  OBVIOUS
<1>2. q \in Nat /\ t \in 0 .. b - 1 /\ a + b - 1 = q * b + t
  BY <1>1, DivMod DEF CeilDiv
<1> HIDE DEF q, t
<1>3. q * b \in Int
  BY <1>2
<1>4. (q - 1) * b = q * b - b
  BY <1>2
<1> QED BY <1>2, <1>3, <1>4 DEF q

(* The number of steps of b that reach a.                                  *)
LEMMA CeilDivIs ==
  ASSUME NEW a \in Nat, NEW b \in Nat \ {0}, NEW q \in Int, (q - 1) * b < a, a <= q * b
  PROVE  CeilDiv(a, b) = q
<1> DEFINE c == CeilDiv(a, b)
<1>1. c \in Nat /\ (c - 1) * b < a /\ a <= c * b
  BY CeilDivBounds
<1> HIDE DEF c
<1>2. c * b \in Int /\ q * b \in Int /\ (c - 1) * b \in Int /\ (q - 1) * b \in Int
  BY <1>1
<1>3. (c - 1) * b < q * b /\ (q - 1) * b < c * b
  BY <1>1, <1>2
<1>4. c - 1 < q /\ q - 1 < c
  BY <1>1, <1>3, LessByFactor
<1> QED BY <1>1, <1>4 DEF c

(* An epoch as the trainers run it: the indices of n examples in some      *)
(* order, a cohort of at most twice as many ranks, and a batch size.       *)
IsShuffle(order, n) ==
  /\ n \in Nat \ {0}
  /\ order \in [1 .. n -> 1 .. n] /\ IsInjective(order)

LEMMA ShuffleIsSeq ==
  ASSUME NEW n, NEW order, IsShuffle(order, n)
  PROVE  order \in Seq(1 .. n) /\ Len(order) = n
BY DEF IsShuffle

LEMMA ShuffleHasAll ==
  ASSUME NEW n, NEW order, IsShuffle(order, n)
  PROVE  \A v \in 1 .. n : \E i \in 1 .. n : order[i] = v
<1> DEFINE S == 1 .. n
<1>1. IsFiniteSet(S)
  BY FS_Interval DEF IsShuffle
<1>2. order \in Injection(S, S)
  BY DEF IsShuffle, Injection
<1>3. order \in Surjection(S, S)
  BY <1>1, <1>2, FS_Injection
<1> QED BY <1>3 DEF Surjection

LEMMA PaddedIs ==
  ASSUME NEW n, NEW order, IsShuffle(order, n), NEW world \in Nat \ {0}, world <= 2 * n
  PROVE  /\ Padded(order, world) \in Seq(1 .. n)
         /\ Len(Padded(order, world)) = CeilDiv(n, world) * world
         /\ \A i \in 1 .. n : Padded(order, world)[i] = order[i]
<1> DEFINE q == CeilDiv(n, world)
           all == q * world
           pad == all - n
<1>1. n \in Nat \ {0}
  BY DEF IsShuffle
<1>2. order \in Seq(1 .. n) /\ Len(order) = n
  BY ShuffleIsSeq
<1>3. q \in Nat /\ (q - 1) * world < n /\ n <= all
  BY <1>1, CeilDivBounds
<1>4. all \in Nat /\ (q - 1) * world = all - world
  BY <1>3
<1>5. pad \in 0 .. n
  <2> HIDE DEF q, all
  <2>1. pad \in Nat /\ pad < world
    BY <1>1, <1>3, <1>4
  <2>2. CASE world <= n
    BY <1>1, <2>1, <2>2
  <2>3. CASE n < world
    <3>1. (q - 1) * world < 1 * world
      BY <1>1, <1>3, <1>4, <2>3
    <3>2. q - 1 < 1
      BY <1>3, <3>1, LessByFactor
    <3>3. q = 1
      <4>1. CASE q = 0
        BY <1>1, <1>3, <4>1 DEF all
      <4> QED BY <1>3, <3>2, <4>1
    <3>4. all = world
      BY <3>3 DEF all
    <3> QED BY <1>1, <2>1, <3>4
  <2> QED BY <1>1, <2>2, <2>3
<1> HIDE DEF q, all
<1>6. UpTo(order, pad) = SubSeq(order, 1, pad)
  BY <1>1, <1>2, <1>5 DEF UpTo
<1>7. SubSeq(order, 1, pad) \in Seq(1 .. n) /\ Len(SubSeq(order, 1, pad)) = pad
  BY <1>1, <1>2, <1>5
<1> DEFINE tail == SubSeq(order, 1, pad)
<1>8. Padded(order, world) = order \o tail
  BY <1>2, <1>6 DEF Padded, q, all
<1> HIDE DEF tail
<1>9. tail \in Seq(1 .. n) /\ Len(tail) = pad
  BY <1>7 DEF tail
<1> HIDE DEF pad
<1>10. /\ order \o tail \in Seq(1 .. n) /\ Len(order \o tail) = n + pad
       /\ \A i \in 1 .. n : (order \o tail)[i] = order[i]
  <2>1. Len(order) \in Nat /\ Len(tail) \in Nat
    BY <1>2, <1>9
  <2> DEFINE S == 1 .. n
  <2>2. order \in Seq(S) /\ tail \in Seq(S)
    BY <1>2, <1>9
  <2> HIDE DEF S
  <2>3. /\ order \o tail \in Seq(S) /\ Len(order \o tail) = Len(order) + Len(tail)
        /\ \A i \in 1 .. Len(order) + Len(tail) :
             (order \o tail)[i] = IF i <= Len(order) THEN order[i] ELSE tail[i - Len(order)]
    BY <2>2, ConcatProperties
  <2>4. /\ order \o tail \in Seq(1 .. n) /\ Len(order \o tail) = Len(order) + Len(tail)
        /\ \A i \in 1 .. Len(order) + Len(tail) :
             (order \o tail)[i] = IF i <= Len(order) THEN order[i] ELSE tail[i - Len(order)]
    BY <2>3 DEF S
  <2> QED BY <1>1, <1>2, <1>9, <2>1, <2>4
<1>11. n + pad = all
  BY <1>1, <1>4 DEF pad
<1> QED BY <1>8, <1>10, <1>11 DEF q, all

(* Each rank has the same number of indices. *)
LEMMA ShardIs ==
  ASSUME NEW n, NEW order, IsShuffle(order, n), NEW world \in Nat \ {0}, world <= 2 * n,
         NEW rank \in 0 .. world - 1
  PROVE  /\ Shard(order, rank, world) \in Seq(1 .. n)
         /\ Len(Shard(order, rank, world)) = CeilDiv(n, world)
         /\ \A i \in 1 .. CeilDiv(n, world) :
              Shard(order, rank, world)[i] = Padded(order, world)[rank + (i - 1) * world + 1]
<1> DEFINE q == CeilDiv(n, world)
           all == q * world
           padded == Padded(order, world)
           shard == [i \in 1 .. q |-> padded[rank + (i - 1) * world + 1]]
<1>1. n \in Nat \ {0}
  BY DEF IsShuffle
<1>2. q \in Nat /\ (q - 1) * world < n /\ n <= all
  BY <1>1, CeilDivBounds
<1>3. padded \in Seq(1 .. n) /\ Len(padded) = all
  BY PaddedIs
<1> HIDE DEF q, padded
<1>4. all \in Nat /\ (q - 1) * world = all - world
  BY <1>2
<1>5. CeilDiv(Len(padded) - rank, world) = q
  <2> HIDE DEF all
  <2>1. all - rank \in Nat /\ (q - 1) * world < all - rank /\ all - rank <= all
    <3>1. world <= all
      <4>1. q # 0
        BY <1>1, <1>2 DEF all
      <4>2. 1 * world <= q * world
        BY <1>2, <4>1, MoreByFactor
      <4> QED BY <4>2 DEF all
    <3> QED BY <1>4, <3>1
  <2>2. CeilDiv(all - rank, world) = q
    BY <1>2, <2>1, CeilDivIs DEF all
  <2> QED BY <1>3, <2>2
<1>6. Shard(order, rank, world) = shard
  BY <1>5 DEF Shard, padded
<1>7. ASSUME NEW i \in 1 .. q PROVE padded[rank + (i - 1) * world + 1] \in 1 .. n
  <2> DEFINE at == rank + (i - 1) * world + 1
  <2>1. 0 <= (i - 1) * world /\ (i - 1) * world \in Int
    OBVIOUS
  <2>2. (i - 1) * world <= (q - 1) * world
    BY <1>2, MoreByFactor
  <2> HIDE DEF all
  <2>3. at \in 1 .. all
    BY <1>4, <2>1, <2>2
  <2> HIDE DEF at
  <2>4. padded[at] \in 1 .. n
    BY <1>3, <2>3, ElementOfSeq
  <2> QED BY <2>4 DEF at
<1>8. shard \in [1 .. q -> 1 .. n]
  BY <1>7
<1>9. shard \in Seq(1 .. n) /\ Len(shard) = q
  <2>1. q \in Nat
    BY <1>2
  <2>2. Len(shard) = q
    BY <2>1
  <2>3. \A i \in 1 .. q : shard[i] \in 1 .. n
    BY <1>7
  <2>4. DOMAIN shard = 1 .. q
    OBVIOUS
  <2>5. shard \in Seq(1 .. n)
    BY <2>1, <1>7
  <2> QED BY <2>2, <2>5
<1>10. \A i \in 1 .. q : shard[i] = padded[rank + (i - 1) * world + 1]
  OBVIOUS
<1> HIDE DEF shard
<1> QED BY <1>6, <1>9, <1>10 DEF q, padded

(* The batches of a shard are as many as counted, and hold all of it.      *)
LEMMA BatchesAre ==
  ASSUME NEW T, NEW shard \in Seq(T), NEW size \in Nat \ {0}
  PROVE  /\ Len(Batches(shard, size)) = CeilDiv(Len(shard), size)
         /\ DOMAIN Batches(shard, size) = 1 .. CeilDiv(Len(shard), size)
         /\ UNION {ToSet(Batches(shard, size)[b]) : b \in DOMAIN Batches(shard, size)} = ToSet(shard)
<1> DEFINE k == Len(shard)
           c == CeilDiv(k, size)
           end(b) == IF b * size < k THEN b * size ELSE k
           batch(b) == SubSeq(shard, (b - 1) * size + 1, end(b))
           batches == [b \in 1 .. c |-> batch(b)]
<1>1. k \in Nat /\ DOMAIN shard = 1 .. k
  OBVIOUS
<1> HIDE DEF k
<1>2. c \in Nat /\ (c - 1) * size < k /\ k <= c * size
  BY <1>1, CeilDivBounds
<1> HIDE DEF c
<1>3. Batches(shard, size) = batches
  BY DEF Batches, c, k
<1>4. DOMAIN batches = 1 .. c
  OBVIOUS
<1>5. Len(batches) = c
  BY <1>2
<1>6. ASSUME NEW b \in 1 .. c
      PROVE  /\ DOMAIN batch(b) = 1 .. end(b) - (b - 1) * size
             /\ end(b) \in 1 .. k /\ (b - 1) * size \in Nat
             /\ \A i \in 1 .. end(b) - (b - 1) * size : batch(b)[i] = shard[(b - 1) * size + i]
  <2> DEFINE from == (b - 1) * size
             to == end(b)
  <2>1. from \in Nat /\ b * size = from + size
    OBVIOUS
  <2>2. from <= (c - 1) * size
    BY <1>2, MoreByFactor
  <2>3. from < k
    <3>1. (c - 1) * size \in Int
      BY <1>2
    <3> HIDE DEF from
    <3> QED BY <1>1, <1>2, <2>1, <2>2, <3>1
  <2>4. to \in 1 .. k /\ from < to
    <3> HIDE DEF from
    <3> QED BY <1>1, <2>1, <2>3
  <2> HIDE DEF from, end, to
  <2> DEFINE cut == SubSeq(shard, from + 1, to)
  <2>5. /\ Len(cut) = to - from /\ DOMAIN cut = 1 .. to - from
        /\ \A i \in 1 .. to - from : cut[i] = shard[from + i]
    BY <1>1, <2>1, <2>4 DEF k
  <2>6. batch(b) = cut
    BY DEF from, to
  <2> HIDE DEF cut, batch
  <2> QED BY <2>1, <2>4, <2>5, <2>6 DEF from, to
<1> DEFINE all == UNION {ToSet(batches[b]) : b \in DOMAIN batches}
<1>7. \A b \in 1 .. c : batches[b] = batch(b)
  OBVIOUS
<1>8. ASSUME NEW x \in all PROVE x \in ToSet(shard)
  <2>1. PICK b \in 1 .. c : x \in ToSet(batch(b))
    BY <1>7, <1>8
  <2> HIDE DEF batch, end
  <2>2. PICK i \in 1 .. end(b) - (b - 1) * size : x = shard[(b - 1) * size + i]
    <3>1. PICK i \in DOMAIN batch(b) : x = batch(b)[i]
      BY <2>1 DEF ToSet
    <3>2. i \in 1 .. end(b) - (b - 1) * size /\ batch(b)[i] = shard[(b - 1) * size + i]
      BY <2>1, <3>1, <1>6
    <3> QED BY <3>1, <3>2
  <2> DEFINE at == (b - 1) * size + i
  <2>3. at \in 1 .. k
    <3> DEFINE from == (b - 1) * size
    <3>1. from \in Nat /\ end(b) \in 1 .. k
      BY <1>6
    <3>2. i \in 1 .. end(b) - from
      BY <2>2
    <3> HIDE DEF from
    <3>3. from + i \in 1 .. k
      BY <3>1, <3>2, <1>1
    <3> QED BY <3>3 DEF from
  <2> HIDE DEF at
  <2>4. x = shard[at]
    BY <2>2 DEF at
  <2> QED BY <1>1, <2>3, <2>4 DEF ToSet
<1>9. ASSUME NEW x \in ToSet(shard) PROVE x \in all
  <2>1. PICK at \in 1 .. k : x = shard[at]
    BY <1>1, <1>9 DEF ToSet
  <2> DEFINE b == ((at - 1) \div size) + 1
             i == ((at - 1) % size) + 1
             from == (b - 1) * size
  <2>2. at - 1 \in Nat
    BY <1>1
  <2>3. /\ (at - 1) \div size \in Nat /\ ((at - 1) % size) \in 0 .. size - 1
        /\ at - 1 = ((at - 1) \div size) * size + ((at - 1) % size)
    BY <2>2, DivMod
  <2>4. b \in Nat \ {0} /\ i \in 1 .. size /\ from \in Nat /\ at = from + i /\ b * size = from + size
    <3> DEFINE d == (at - 1) \div size
               r == (at - 1) % size
    <3>1. b = d + 1 /\ i = r + 1 /\ from = d * size
      BY <2>3
    <3>2. d \in Nat /\ r \in 0 .. size - 1 /\ at - 1 = d * size + r
      BY <2>3
    <3> HIDE DEF d, r, b, i, from
    <3>3. d * size \in Nat /\ (d + 1) * size = d * size + size
      BY <3>2
    <3> QED BY <3>1, <3>2, <3>3, <1>1
  <2> HIDE DEF b, i
  <2>5. b \in 1 .. c
    <3>1. (b - 1) * size < c * size
      <4>1. c * size \in Int
        BY <1>2
      <4> HIDE DEF from
      <4>2. from < c * size
        BY <1>1, <1>2, <2>4, <4>1
      <4> QED BY <4>2 DEF from
    <3>2. b - 1 < c
      BY <1>2, <2>4, <3>1, LessByFactor
    <3> QED BY <1>2, <2>4, <3>2
  <2>6. i \in 1 .. end(b) - from
    <3>1. b * size \in Nat
      BY <2>4
    <3> HIDE DEF from
    <3>2. CASE b * size < k
      BY <2>4, <3>1, <3>2, <1>1
    <3>3. CASE ~ (b * size < k)
      BY <2>4, <3>1, <3>3, <1>1
    <3> QED BY <3>2, <3>3
  <2>7. DOMAIN batch(b) = 1 .. end(b) - from /\ batch(b)[i] = shard[from + i]
    <3> HIDE DEF batch, end
    <3> QED BY <1>6, <2>5, <2>6
  <2> HIDE DEF batch, end, from
  <2>8. x \in ToSet(batch(b))
    BY <2>1, <2>4, <2>6, <2>7 DEF ToSet
  <2> QED BY <1>4, <1>7, <2>5, <2>8
<1>10. all = ToSet(shard)
  <2> HIDE DEF all
  <2> QED BY <1>8, <1>9
<1> HIDE DEF batches
<1> QED BY <1>3, <1>4, <1>5, <1>10 DEF c, k, all

(* Position p of the order is trained on by rank (p - 1) % world.          *)
LEMMA NobodyIsLeftOut ==
  ASSUME NEW n, NEW order, IsShuffle(order, n), NEW world \in Nat \ {0}, world <= 2 * n
  PROVE  UNION {ToSet(Shard(order, r, world)) : r \in 0 .. world - 1} = 1 .. n
<1> DEFINE q == CeilDiv(n, world)
           shard(r) == Shard(order, r, world)
           all == UNION {ToSet(shard(r)) : r \in 0 .. world - 1}
<1>1. n \in Nat \ {0}
  BY DEF IsShuffle
<1>2. q \in Nat /\ (q - 1) * world < n /\ n <= q * world
  BY <1>1, CeilDivBounds
<1>3. ASSUME NEW r \in 0 .. world - 1
      PROVE  /\ shard(r) \in Seq(1 .. n) /\ Len(shard(r)) = q /\ DOMAIN shard(r) = 1 .. q
             /\ \A i \in 1 .. q : shard(r)[i] = Padded(order, world)[r + (i - 1) * world + 1]
  <2>1. /\ shard(r) \in Seq(1 .. n) /\ Len(shard(r)) = q
        /\ \A i \in 1 .. q : shard(r)[i] = Padded(order, world)[r + (i - 1) * world + 1]
    BY ShardIs
  <2> HIDE DEF shard, q
  <2>2. DOMAIN shard(r) = 1 .. q
    BY <2>1
  <2> QED BY <2>1, <2>2
<1> HIDE DEF shard, q
<1>4. ASSUME NEW v \in all PROVE v \in 1 .. n
  <2>1. PICK r \in 0 .. world - 1 : v \in ToSet(shard(r))
    BY <1>4
  <2>2. PICK i \in 1 .. q : v = shard(r)[i]
    BY <2>1, <1>3 DEF ToSet
  <2> QED BY <1>3, <2>2, ElementOfSeq
<1>5. ASSUME NEW v \in 1 .. n PROVE v \in all
  <2>1. PICK p \in 1 .. n : order[p] = v
    BY ShuffleHasAll
  <2> DEFINE d == (p - 1) \div world
             r == (p - 1) % world
             i == d + 1
  <2>2. p - 1 \in Nat
    BY <1>1
  <2>3. d \in Nat /\ r \in 0 .. world - 1 /\ p - 1 = d * world + r
    BY <2>2, DivMod
  <2> HIDE DEF d, r
  <2>4. d * world \in Nat
    BY <2>3
  <2>5. i \in 1 .. q
    <3>1. q * world \in Int
      BY <1>2
    <3>2. d * world < q * world
      BY <1>1, <1>2, <2>3, <2>4, <3>1
    <3>3. d < q
      BY <1>2, <2>3, <3>2, LessByFactor
    <3> QED BY <1>2, <2>3, <3>3
  <2>6. r + (i - 1) * world + 1 = p
    <3>1. i - 1 = d
      BY <2>3
    <3> HIDE DEF i
    <3>2. r + d * world + 1 = p
      BY <2>3, <2>4, <1>1
    <3> QED BY <3>1, <3>2
  <2> HIDE DEF i
  <2>7. shard(r)[i] = v
    <3>1. Padded(order, world)[p] = v
      BY PaddedIs, <2>1
    <3> QED BY <1>3, <2>3, <2>5, <2>6, <3>1
  <2>8. v \in ToSet(shard(r))
    BY <1>3, <2>3, <2>5, <2>7 DEF ToSet
  <2> QED BY <2>3, <2>8
<1>6. all = 1 .. n
  <2> HIDE DEF all
  <2> QED BY <1>4, <1>5
<1> QED BY <1>6 DEF shard

(* Any shuffle of any number of examples, for any batch size and a cohort  *)
(* of up to twice as many ranks as examples: the ranks run as many batches *)
(* as they count on, and leave out no example (DeviceBatches).             *)
THEOREM EpochsAreShared ==
  ASSUME NEW n, NEW order, IsShuffle(order, n), NEW world \in Nat \ {0}, world <= 2 * n,
         NEW size \in Nat \ {0}
  PROVE  /\ \A r \in 0 .. world - 1 :
              Len(Batches(Shard(order, r, world), size)) = BatchCount(n, world, size)
         /\ UNION {Trained(order, r, world, size) : r \in 0 .. world - 1} = 1 .. n
<1>1. ASSUME NEW r \in 0 .. world - 1
      PROVE  /\ Len(Batches(Shard(order, r, world), size)) = BatchCount(n, world, size)
             /\ Trained(order, r, world, size) = ToSet(Shard(order, r, world))
  <2> DEFINE shard == Shard(order, r, world)
  <2>1. shard \in Seq(1 .. n) /\ Len(shard) = CeilDiv(n, world)
    BY ShardIs
  <2> HIDE DEF shard
  <2>2. /\ Len(Batches(shard, size)) = CeilDiv(Len(shard), size)
        /\ UNION {ToSet(Batches(shard, size)[b]) : b \in DOMAIN Batches(shard, size)} = ToSet(shard)
    BY <2>1, BatchesAre
  <2> QED BY <2>1, <2>2 DEF shard, BatchCount, Trained
<1>2. {Trained(order, r, world, size) : r \in 0 .. world - 1}
        = {ToSet(Shard(order, r, world)) : r \in 0 .. world - 1}
  BY <1>1
<1> QED BY <1>1, <1>2, NobodyIsLeftOut

-----------------------------------------------------------------------------
(* When a node counts as failed.  The total of a window lies between its   *)
(* length times the shortest and times the longest interval, and its       *)
(* variance is at most a quarter of the square of their distance.          *)
IsSums(s, window) ==
  /\ s \in [0 .. Len(window) -> Int] /\ s[0] = 0
  /\ \A i \in 1 .. Len(window) : s[i] = s[i - 1] + window[i]

LEMMA SumsExist ==
  ASSUME NEW window \in Seq(Int) PROVE \E s : IsSums(s, window)
<1> DEFINE n == Len(window)
           Upto(s, k) == /\ s \in [0 .. k -> Int] /\ s[0] = 0
                         /\ \A i \in 1 .. k : s[i] = s[i - 1] + window[i]
           P == {k \in Nat : k <= n => \E s : Upto(s, k)}
<1>1. n \in Nat
  OBVIOUS
<1> HIDE DEF n
<1>2. 0 \in P
  <2>1. Upto([i \in 0 .. 0 |-> 0], 0)
    OBVIOUS
  <2> QED BY <2>1
<1>3. ASSUME NEW k \in P PROVE k + 1 \in P
  <2>1. CASE k + 1 > n
    BY <2>1, <1>1
  <2>2. CASE k + 1 <= n
    <3>1. PICK s : Upto(s, k)
      BY <2>2, <1>1, SMTT(30)
    <3> DEFINE t == [i \in 0 .. k + 1 |-> IF i <= k THEN s[i] ELSE s[k] + window[k + 1]]
    <3>2. window[k + 1] \in Int
      BY <2>2, <1>1 DEF n
    <3>3. t \in [0 .. k + 1 -> Int]
      BY <3>1, <3>2
    <3>4. t[0] = 0
      BY <3>1
    <3>5. \A i \in 1 .. k + 1 : t[i] = t[i - 1] + window[i]
      <4> SUFFICES ASSUME NEW i \in 1 .. k + 1 PROVE t[i] = t[i - 1] + window[i]
        OBVIOUS
      <4>1. CASE i = k + 1
        BY <4>1
      <4>2. CASE i <= k
        BY <4>2, <3>1
      <4> QED BY <4>1, <4>2
    <3>6. Upto(t, k + 1)
      <4> HIDE DEF t
      <4> QED BY <3>3, <3>4, <3>5
    <3> HIDE DEF Upto, t
    <3> QED BY <3>6
  <2> HIDE DEF Upto
  <2> QED BY <2>1, <2>2, <1>1
<1>4. n \in P
  <2>1. P \in SUBSET Nat
    OBVIOUS
  <2> HIDE DEF P
  <2> QED BY <1>1, <1>2, <1>3, <2>1, FromZeroUp
<1> QED BY <1>1, <1>4 DEF IsSums, n

LEMMA SumsAre ==
  ASSUME NEW window \in Seq(Int) PROVE IsSums(Sums(window), window)
<1> DEFINE n == Len(window)
           F(s) == [i \in 0 .. n |-> IF i = 0 THEN 0 ELSE s[i - 1] + window[i]]
           sum == CHOOSE s : s = F(s)
<1>1. Sums(window) = sum
  BY DEF Sums
<1>2. PICK s : IsSums(s, window)
  BY SumsExist
<1>3. s = F(s)
  BY <1>2 DEF IsSums
<1>4. sum = F(sum)
  <2> HIDE DEF F
  <2> QED BY <1>3
<1> DEFINE P == {k \in Nat : k <= n => sum[k] \in Int}
<1>5. n \in Nat
  OBVIOUS
<1> HIDE DEF sum
<1>6. \A i \in 0 .. n : sum[i] = IF i = 0 THEN 0 ELSE sum[i - 1] + window[i]
  BY <1>4
<1>7. DOMAIN sum = 0 .. n /\ sum = [i \in 0 .. n |-> sum[i]]
  BY <1>4
<1> HIDE DEF F
<1>8. 0 \in P
  BY <1>5, <1>6
<1>9. ASSUME NEW k \in P PROVE k + 1 \in P
  <2>1. CASE k + 1 <= n
    <3>1. sum[k] \in Int /\ window[k + 1] \in Int
      BY <2>1, <1>5
    <3>2. sum[k + 1] = sum[k] + window[k + 1]
      BY <2>1, <1>5, <1>6
    <3> QED BY <3>1, <3>2
  <2> QED BY <2>1, <1>5
<1>10. \A k \in Nat : k \in P
  <2>1. P \in SUBSET Nat
    OBVIOUS
  <2> HIDE DEF P
  <2> QED BY <1>8, <1>9, <2>1, FromZeroUp
<1>11. sum \in [0 .. n -> Int]
  BY <1>5, <1>7, <1>10
<1> QED BY <1>1, <1>5, <1>6, <1>11 DEF IsSums

-----------------------------------------------------------------------------
(* The intervals of a window lie between lo and hi.                        *)
Within(window, lo, hi) == \A i \in 1 .. Len(window) : lo <= window[i] /\ window[i] <= hi

LEMMA TotalWithin ==
  ASSUME NEW window \in Seq(Int), NEW lo \in Int, NEW hi \in Int, Within(window, lo, hi)
  PROVE  /\ Total(window) \in Int
         /\ Len(window) * lo <= Total(window) /\ Total(window) <= Len(window) * hi
<1> DEFINE n == Len(window)
           s == Sums(window)
           P == {k \in Nat : k <= n => k * lo <= s[k] /\ s[k] <= k * hi}
<1>1. n \in Nat
  OBVIOUS
<1>2. s \in [0 .. n -> Int] /\ s[0] = 0 /\ \A i \in 1 .. n : s[i] = s[i - 1] + window[i]
  BY SumsAre DEF IsSums
<1> HIDE DEF n, s
<1>3. 0 \in P
  BY <1>2
<1>4. ASSUME NEW k \in P PROVE k + 1 \in P
  <2>1. ASSUME k + 1 <= n PROVE (k + 1) * lo <= s[k + 1] /\ s[k + 1] <= (k + 1) * hi
    <3>1. k + 1 \in 1 .. n /\ k \in 0 .. n
      BY <1>1, <2>1
    <3> DEFINE x == window[k + 1]
               a == s[k]
               b == s[k + 1]
    <3>2. x \in Int /\ lo <= x /\ x <= hi
      BY <3>1 DEF Within, n
    <3>3. a \in Int /\ b \in Int /\ b = a + x
      <4>1. (k + 1) - 1 = k
        OBVIOUS
      <4> QED BY <1>2, <3>1, <4>1
    <3>4. k * lo <= a /\ a <= k * hi
      BY <3>1
    <3>5. k * lo \in Int /\ k * hi \in Int /\ (k + 1) * lo = k * lo + lo /\ (k + 1) * hi = k * hi + hi
      OBVIOUS
    <3> HIDE DEF x, a, b
    <3>6. (k + 1) * lo <= b /\ b <= (k + 1) * hi
      BY <3>2, <3>3, <3>4, <3>5
    <3> QED BY <3>6 DEF b
  <2> QED BY <2>1
<1>5. n \in P
  <2>1. P \in SUBSET Nat
    OBVIOUS
  <2> HIDE DEF P
  <2> QED BY <1>1, <1>3, <1>4, <2>1, FromZeroUp
<1>6. s[n] \in Int
  BY <1>1, <1>2
<1> QED BY <1>1, <1>5, <1>6 DEF Total, n, s

Squared(window) == [i \in DOMAIN window |-> window[i] * window[i]]

LEMMA SquaredIs ==
  ASSUME NEW window \in Seq(Int)
  PROVE  /\ Squared(window) \in Seq(Int) /\ Len(Squared(window)) = Len(window)
         /\ \A i \in 1 .. Len(window) : Squared(window)[i] = window[i] * window[i]
<1> DEFINE n == Len(window)
           q == [i \in 1 .. n |-> window[i] * window[i]]
<1>1. n \in Nat /\ DOMAIN window = 1 .. n
  OBVIOUS
<1>2. Squared(window) = q
  BY <1>1 DEF Squared
<1>3. \A i \in 1 .. n : window[i] \in Int
  OBVIOUS
<1>4. \A i \in 1 .. n : window[i] * window[i] \in Int
  BY <1>3
<1> HIDE DEF n
<1>5. q \in Seq(Int)
  BY <1>1, <1>4
<1>6. Len(q) = n
  BY <1>1
<1>7. \A i \in 1 .. n : q[i] = window[i] * window[i]
  OBVIOUS
<1> HIDE DEF q
<1> QED BY <1>2, <1>5, <1>6, <1>7 DEF n

(* A number between lo and hi is at most as far from both as their middle. *)
LEMMA SquareWithin ==
  ASSUME NEW x \in Int, NEW lo \in Int, NEW hi \in Int, lo <= x, x <= hi
  PROVE  x * x <= (lo + hi) * x - lo * hi
<1>1. x - lo \in Nat /\ hi - x \in Nat
  OBVIOUS
<1>2. (x - lo) * (hi - x) >= 0
  BY <1>1
<1>3. (x - lo) * (hi - x) = (lo + hi) * x - lo * hi - x * x
  OBVIOUS
<1>4. x * x \in Int /\ (lo + hi) * x - lo * hi \in Int
  OBVIOUS
<1> QED BY <1>2, <1>3, <1>4

LEMMA SquaresWithin ==
  ASSUME NEW window \in Seq(Int), NEW lo \in Int, NEW hi \in Int, Within(window, lo, hi)
  PROVE  /\ Squares(window) \in Int
         /\ Squares(window) <= (lo + hi) * Total(window) - Len(window) * (lo * hi)
<1> DEFINE n == Len(window)
           s == Sums(window)
           q == Squared(window)
           z == Sums(q)
           c == lo * hi
           m == lo + hi
           P == {k \in Nat : k <= n => z[k] <= m * s[k] - k * c}
<1>1. n \in Nat /\ c \in Int /\ m \in Int
  OBVIOUS
<1>2. s \in [0 .. n -> Int] /\ s[0] = 0 /\ \A i \in 1 .. n : s[i] = s[i - 1] + window[i]
  BY SumsAre DEF IsSums
<1>3. q \in Seq(Int) /\ Len(q) = n /\ \A i \in 1 .. n : q[i] = window[i] * window[i]
  BY SquaredIs
<1> HIDE DEF q
<1>4. z \in [0 .. n -> Int] /\ z[0] = 0 /\ \A i \in 1 .. n : z[i] = z[i - 1] + q[i]
  <2>1. IsSums(z, q)
    BY <1>3, SumsAre
  <2> HIDE DEF n, z
  <2> QED BY <1>3, <2>1 DEF IsSums
<1> HIDE DEF n, s, z
<1>5. 0 \in P
  BY <1>1, <1>2, <1>4
<1>6. ASSUME NEW k \in P PROVE k + 1 \in P
  <2>1. ASSUME k + 1 <= n PROVE z[k + 1] <= m * s[k + 1] - (k + 1) * c
    <3>1. k + 1 \in 1 .. n /\ k \in 0 .. n /\ (k + 1) - 1 = k
      BY <1>1, <2>1
    <3> DEFINE x == window[k + 1]
               a == s[k]
               b == s[k + 1]
               u == z[k]
               v == z[k + 1]
    <3>2. x \in Int /\ lo <= x /\ x <= hi
      BY <3>1 DEF Within, n
    <3>3. a \in Int /\ b \in Int /\ b = a + x
      <4>1. s[k + 1] = s[(k + 1) - 1] + window[k + 1] /\ s[k] \in Int /\ s[k + 1] \in Int
        BY <1>2, <3>1, SMTT(30)
      <4> QED BY <3>1, <4>1
    <3>4. u \in Int /\ v \in Int /\ v = u + x * x
      <4>1. z[k + 1] = z[(k + 1) - 1] + q[k + 1]
        BY <1>4, <3>1
      <4>3. z[k] \in Int
        BY <1>4, <3>1
      <4>4. z[k + 1] \in Int
        BY <1>4, <3>1
      <4>2. q[k + 1] = window[k + 1] * window[k + 1]
        BY <1>3, <3>1
      <4> QED BY <3>1, <4>1, <4>2, <4>3, <4>4
    <3>5. u <= m * a - k * c
      BY <3>1
    <3>6. x * x <= m * x - c
      BY <3>2, SquareWithin
    <3> HIDE DEF x, a, b, u, v, c, m
    <3>7. /\ m * a \in Int /\ m * x \in Int /\ x * x \in Int /\ k * c \in Int
          /\ m * (a + x) = m * a + m * x /\ (k + 1) * c = k * c + c
      BY <1>1, <3>2, <3>3
    <3>8. v <= m * b - (k + 1) * c
      <4>1. m * b = m * a + m * x
        BY <3>3, <3>7
      <4>2. u + x * x <= m * a - k * c + (m * x - c)
        BY <1>1, <3>4, <3>5, <3>6, <3>7
      <4> QED BY <1>1, <3>4, <3>7, <4>1, <4>2
    <3> QED BY <3>8 DEF b, v
  <2> QED BY <2>1
<1>7. n \in P
  <2>1. P \in SUBSET Nat
    OBVIOUS
  <2> HIDE DEF P
  <2> QED BY <1>1, <1>5, <1>6, <2>1, FromZeroUp
<1>8. z[n] \in Int
  BY <1>1, <1>4
<1>9. Squares(window) = z[n]
  BY <1>3 DEF Squares, Total, Squared, q, z
<1>10. z[n] <= m * s[n] - n * c
  BY <1>1, <1>7
<1> QED BY <1>8, <1>9, <1>10 DEF Total, n, s

LEMMA MaxOfTwo ==
  ASSUME NEW a \in Int, NEW b \in Int
  PROVE  Max({a, b}) \in {a, b} /\ a <= Max({a, b}) /\ b <= Max({a, b})
<1>1. \E x \in {a, b} : \A y \in {a, b} : x >= y
  <2>1. CASE a >= b
    BY <2>1
  <2>2. CASE b >= a
    BY <2>2
  <2> QED BY <2>1, <2>2
<1> QED BY <1>1 DEF Max

(* The variance of numbers between lo and hi: n times their squares less   *)
(* the square of their total is at most a quarter of (n * (hi - lo)) ^ 2.  *)
LEMMA VarianceWithin ==
  ASSUME NEW n \in Nat, NEW T \in Int, NEW Q \in Int, NEW lo \in Int, NEW hi \in Int,
         Q <= (lo + hi) * T - n * (lo * hi)
  PROVE  4 * (n * Q - T * T) <= (n * (hi - lo)) * (n * (hi - lo))
<1> DEFINE u == T - n * lo
           v == n * hi - T
           R == (lo + hi) * T - n * (lo * hi)
<1>1. n * lo \in Int /\ n * hi \in Int /\ T * T \in Int /\ n * Q \in Int /\ R \in Int
  OBVIOUS
<1>2. u \in Int /\ v \in Int
  BY <1>1
<1>3. n * Q <= n * R
  <2>1. Q * n <= R * n
    BY <1>1, MoreByFactor
  <2>2. Q * n = n * Q /\ R * n = n * R
    OBVIOUS
  <2> QED BY <2>1, <2>2
<1>4. n * R - T * T = u * v
  <2>1. n * R = (n * lo + n * hi) * T - (n * lo) * (n * hi)
    OBVIOUS
  <2>2. ASSUME NEW a \in Int, NEW b \in Int PROVE (a + b) * T - a * b - T * T = (T - a) * (b - T)
    OBVIOUS
  <2>3. (n * lo + n * hi) * T - (n * lo) * (n * hi) - T * T = (T - n * lo) * (n * hi - T)
    BY <1>1, <2>2
  <2> QED BY <2>1, <2>3
<1>5. 4 * (u * v) <= (u + v) * (u + v)
  <2> HIDE DEF u, v
  <2>1. (u + v) * (u + v) - 4 * (u * v) = (u - v) * (u - v)
    BY <1>2
  <2>2. (u - v) * (u - v) >= 0
    <3>1. ASSUME NEW w \in Nat PROVE w * w >= 0
      OBVIOUS
    <3>2. CASE u - v >= 0
      BY <1>2, <3>1, <3>2
    <3>3. CASE v - u >= 0
      <4>1. (v - u) * (v - u) >= 0
        BY <1>2, <3>1, <3>3
      <4>2. (v - u) * (v - u) = (u - v) * (u - v)
        BY <1>2
      <4> QED BY <4>1, <4>2
    <3> QED BY <1>2, <3>2, <3>3
  <2>3. u * v \in Int /\ (u + v) * (u + v) \in Int
    BY <1>2
  <2> QED BY <2>1, <2>2, <2>3
<1>6. u + v = n * (hi - lo)
  OBVIOUS
<1>7. n * R \in Int /\ u * v \in Int
  BY <1>1, <1>2
<1> HIDE DEF u, v, R
<1>8. n * Q - T * T <= u * v
  BY <1>1, <1>3, <1>4, <1>7
<1>9. (u + v) * (u + v) \in Int
  BY <1>2
<1>10. 4 * (n * Q - T * T) <= (u + v) * (u + v)
  BY <1>1, <1>5, <1>7, <1>8, <1>9
<1> QED BY <1>6, <1>10

(* How late a node is when the threshold is reached, in numbers: n         *)
(* intervals that add up to T, none shorter than lo.                       *)
LEMMA ForgivenInNumbers ==
  ASSUME NEW n \in Nat \ {0}, NEW T \in Int, NEW lo \in Int, NEW e \in Int, NEW pause \in Int,
         NEW D \in Nat, NEW std \in Nat, NEW spread \in Int, NEW late \in Int,
         late = n * e - (T + n * pause), n * lo <= T,
         (n * std) * (n * std) <= spread, 0 <= late, D * D * spread <= late * late
  PROVE  lo + pause + D * std <= e
<1> DEFINE h == D * (n * std)
<1>1. n * std \in Nat /\ h \in Nat /\ late \in Nat /\ D * D \in Nat
  OBVIOUS
<1>2. h * h <= D * D * spread
  <2> DEFINE b == (n * std) * (n * std)
  <2>1. b \in Int /\ b <= spread
    BY <1>1
  <2>2. b * (D * D) <= spread * (D * D)
    <3> HIDE DEF b
    <3> QED BY <1>1, <2>1, MoreByFactor
  <2>3. b * (D * D) = h * h
    BY <1>1
  <2>4. spread * (D * D) = D * D * spread
    OBVIOUS
  <2> QED BY <2>2, <2>3, <2>4
<1>3. h <= late
  <2> HIDE DEF h
  <2>1. h * h \in Int /\ D * D * spread \in Int /\ late * late \in Int
    BY <1>1
  <2>2. h * h <= late * late
    BY <1>2, <2>1
  <2> QED BY <1>1, <2>2, SquareShrinks
<1> DEFINE x == D * std
           y == e - lo - pause
<1>4. x * n = h
  OBVIOUS
<1>5. y * n = n * e - n * lo - n * pause
  OBVIOUS
<1>6. n * e \in Int /\ n * lo \in Int /\ n * pause \in Int /\ x \in Int /\ y \in Int
  OBVIOUS
<1> HIDE DEF h
<1>7. x * n <= y * n
  <2> HIDE DEF x, y
  <2>1. late <= n * e - n * lo - n * pause
    BY <1>6
  <2>2. x * n \in Int /\ y * n \in Int
    BY <1>6
  <2> QED BY <1>1, <1>3, <1>4, <1>5, <1>6, <2>1, <2>2
<1>8. x <= y
  <2> HIDE DEF x, y
  <2> QED BY <1>6, <1>7, NotMoreByFactor
<1> QED BY <1>6, <1>8

(* And when it is reached for certain: intervals between lo and hi.        *)
LEMMA DetectedInNumbers ==
  ASSUME NEW n \in Nat \ {0}, NEW T \in Int, NEW Q \in Int, NEW lo \in Int, NEW hi \in Int,
         lo <= hi, T <= n * hi, Q <= (lo + hi) * T - n * (lo * hi),
         NEW e \in Int, NEW pause \in Int, NEW D \in Nat, NEW std \in Nat,
         NEW gap \in Nat, 2 * std <= gap, hi - lo <= gap, D * gap <= 2 * (e - hi - pause),
         NEW late \in Int, late = n * e - (T + n * pause),
         NEW spread \in {n * Q - T * T, (n * std) * (n * std)}
  PROVE  0 <= late /\ D * D * spread <= late * late
<1> DEFINE d == e - hi - pause
           g == D * gap
           h == n * g
<1>1. d \in Int /\ g \in Nat /\ h \in Nat /\ g <= 2 * d
  OBVIOUS
<1>2. d * n = n * e - n * hi - n * pause
  OBVIOUS
<1>3. n * e \in Int /\ n * hi \in Int /\ n * pause \in Int /\ d * n \in Int
  OBVIOUS
<1>4. d * n <= late
  <2> HIDE DEF d
  <2> QED BY <1>2, <1>3
<1>5. h <= 2 * (d * n)
  <2>1. g * n <= (2 * d) * n
    <3> HIDE DEF d, g
    <3> QED BY <1>1, MoreByFactor
  <2>2. g * n = h /\ (2 * d) * n = 2 * (d * n)
    OBVIOUS
  <2> QED BY <2>1, <2>2
<1> HIDE DEF d
<1>6. h <= 2 * late /\ 0 <= late
  <2> HIDE DEF h
  <2> QED BY <1>1, <1>3, <1>4, <1>5
<1>7. h * h <= (2 * late) * (2 * late)
  <2> HIDE DEF h
  <2> QED BY <1>1, <1>6, SquareGrows
<1>8. (2 * late) * (2 * late) = 4 * (late * late) /\ late * late \in Int
  OBVIOUS
(* What lies under a quarter of (n * gap) ^ 2 is small enough.             *)
<1>9. ASSUME NEW w \in Int, NEW r \in Nat, r <= gap, 4 * w <= (n * r) * (n * r)
      PROVE  D * D * w <= late * late
  <2> DEFINE k == n * (D * r)
  <2>1. k \in Nat
    OBVIOUS
  <2>2. k <= h
    <3>1. r * (n * D) <= gap * (n * D)
      <4>1. n * D \in Nat
        OBVIOUS
      <4> QED BY <1>9, <4>1, MoreByFactor
    <3>2. r * (n * D) = k /\ gap * (n * D) = h
      OBVIOUS
    <3> QED BY <3>1, <3>2
  <2>3. k * k <= h * h
    <3> HIDE DEF k, h
    <3> QED BY <1>1, <2>1, <2>2, SquareGrows
  <2>4. 4 * (D * D * w) <= k * k
    <3> DEFINE s == (n * r) * (n * r)
    <3>1. 4 * w \in Int /\ s \in Int /\ D * D \in Nat /\ 4 * w <= s
      BY <1>9
    <3>2. (4 * w) * (D * D) <= s * (D * D)
      <4> HIDE DEF s
      <4> QED BY <3>1, MoreByFactor
    <3>3. (4 * w) * (D * D) = 4 * (D * D * w)
      OBVIOUS
    <3>4. s * (D * D) = k * k
      OBVIOUS
    <3> QED BY <3>2, <3>3, <3>4
  <2>5. k * k \in Int /\ h * h \in Int /\ D * D * w \in Int
    OBVIOUS
  <2> HIDE DEF k, h
  <2> QED BY <1>7, <1>8, <2>3, <2>4, <2>5
<1>10. CASE spread = n * Q - T * T
  <2>1. 4 * spread <= (n * (hi - lo)) * (n * (hi - lo))
    BY <1>10, VarianceWithin
  <2>2. hi - lo \in Nat /\ spread \in Int
    BY <1>10
  <2> QED BY <1>6, <1>9, <2>1, <2>2
<1>11. CASE spread = (n * std) * (n * std)
  <2> DEFINE r == 2 * std
  <2>1. r \in Nat /\ r <= gap /\ spread \in Int
    BY <1>11
  <2>2. 4 * spread = (n * r) * (n * r)
    BY <1>11
  <2>3. (n * r) * (n * r) \in Int
    OBVIOUS
  <2> HIDE DEF r
  <2>4. 4 * spread <= (n * r) * (n * r)
    BY <2>1, <2>2, <2>3
  <2> QED BY <1>6, <1>9, <2>1, <2>4
<1> QED BY <1>10, <1>11

LEMMA WindowIs ==
  ASSUME NEW all \in Seq(Nat)
  PROVE  LET window == RecentIntervals(all)
             n == Len(window)
         IN /\ window \in Seq(Nat)
            /\ n = (IF Len(all) > WindowSamples THEN WindowSamples ELSE Len(all))
            /\ \A i \in 1 .. n : window[i] = all[Len(all) - n + i]
<1> DEFINE k == Len(all)
           W == WindowSamples
           cut == SubSeq(all, k - W + 1, k)
<1>1. k \in Nat /\ W \in Nat \ {0}
  BY SuspicionAssumption
<1> HIDE DEF W
<1>2. CASE k > W
  <2>1. RecentIntervals(all) = cut
    BY <1>2 DEF RecentIntervals, W
  <2>2. \A i \in k - W + 1 .. k : all[i] \in Nat
    BY <1>1, <1>2
  <2>3. /\ cut \in Seq(Nat) /\ Len(cut) = W
        /\ \A i \in 1 .. W : cut[i] = all[k - W + i]
    <3> HIDE DEF k, cut
    <3>1. k - W + 1 \in Int /\ k \in Int /\ k - W + 1 <= k /\ k - (k - W + 1) + 1 = W
      BY <1>1, <1>2
    <3>2. /\ SubSeq(all, k - W + 1, k) \in Seq(Nat)
          /\ Len(SubSeq(all, k - W + 1, k)) = IF k - W + 1 <= k THEN k - (k - W + 1) + 1 ELSE 0
          /\ \A i \in 1 .. k - (k - W + 1) + 1 :
               SubSeq(all, k - W + 1, k)[i] = all[(k - W + 1) + i - 1]
      BY <2>2, <3>1, SubSeqProperties
    <3>3. \A i \in 1 .. W : (k - W + 1) + i - 1 = k - W + i
      BY <1>1
    <3> QED BY <3>1, <3>2, <3>3 DEF cut
  <2> HIDE DEF cut
  <2> QED BY <1>2, <2>1, <2>3 DEF W
<1>3. CASE ~ (k > W)
  <2>1. RecentIntervals(all) = all
    BY <1>3 DEF RecentIntervals, W
  <2>2. \A i \in 1 .. k : k - k + i = i
    BY <1>1
  <2> QED BY <1>3, <2>1, <2>2 DEF W
<1> QED BY <1>2, <1>3

(* Some interval of a window is the shortest, some is the longest.         *)
LEMMA WindowHasBounds ==
  ASSUME NEW window \in Seq(Nat), window # <<>>
  PROVE  \E lo, hi \in 1 .. Len(window) : Within(window, window[lo], window[hi])
<1> DEFINE n == Len(window)
           Bounds(k, lo, hi) == \A i \in 1 .. k : window[lo] <= window[i] /\ window[i] <= window[hi]
           P == {k \in Nat : k + 1 <= n => \E lo, hi \in 1 .. k + 1 : Bounds(k + 1, lo, hi)}
<1>1. n \in Nat \ {0} /\ \A i \in 1 .. n : window[i] \in Nat
  OBVIOUS
<1> HIDE DEF n
<1>2. 0 \in P
  <2>1. 1 <= n => Bounds(0 + 1, 1, 1)
    BY <1>1
  <2> HIDE DEF Bounds
  <2> QED BY <2>1
<1>3. ASSUME NEW k \in P PROVE k + 1 \in P
  <2>1. ASSUME (k + 1) + 1 <= n
        PROVE  \E lo, hi \in 1 .. (k + 1) + 1 : Bounds((k + 1) + 1, lo, hi)
    <3> DEFINE j == (k + 1) + 1
    <3>1. PICK lo, hi \in 1 .. k + 1 : Bounds(k + 1, lo, hi)
      BY <1>1, <2>1
    <3>2. j \in 1 .. n /\ lo \in 1 .. n /\ hi \in 1 .. n /\ 1 .. j = (1 .. k + 1) \cup {j}
      BY <1>1, <2>1
    <3>3. window[j] \in Nat /\ window[lo] \in Nat /\ window[hi] \in Nat
      BY <1>1, <3>2
    <3>4. window[lo] <= window[hi]
      BY <3>1
    <3>5. lo \in 1 .. j /\ hi \in 1 .. j /\ j \in 1 .. j
      BY <3>2
    <3> HIDE DEF j
    <3>6. CASE window[j] < window[lo]
      <4>1. Bounds(j, j, hi)
        <5> SUFFICES ASSUME NEW i \in 1 .. j PROVE window[j] <= window[i] /\ window[i] <= window[hi]
          OBVIOUS
        <5>1. CASE i = j
          BY <3>3, <3>4, <3>6, <5>1
        <5>2. CASE i \in 1 .. k + 1
          <6>1. window[lo] <= window[i] /\ window[i] <= window[hi] /\ window[i] \in Nat
            BY <1>1, <2>1, <3>1, <5>2
          <6> QED BY <3>3, <3>6, <6>1
        <5> QED BY <3>2, <5>1, <5>2
      <4> HIDE DEF Bounds
      <4> QED BY <3>5, <4>1 DEF j
    <3>7. CASE window[hi] < window[j]
      <4>1. Bounds(j, lo, j)
        <5> SUFFICES ASSUME NEW i \in 1 .. j PROVE window[lo] <= window[i] /\ window[i] <= window[j]
          OBVIOUS
        <5>1. CASE i = j
          BY <3>3, <3>4, <3>7, <5>1
        <5>2. CASE i \in 1 .. k + 1
          <6>1. window[lo] <= window[i] /\ window[i] <= window[hi] /\ window[i] \in Nat
            BY <1>1, <2>1, <3>1, <5>2
          <6> QED BY <3>3, <3>7, <6>1, SMTT(30)
        <5> QED BY <3>2, <5>1, <5>2
      <4> HIDE DEF Bounds
      <4> QED BY <3>5, <4>1 DEF j
    <3>8. CASE window[lo] <= window[j] /\ window[j] <= window[hi]
      <4>1. Bounds(j, lo, hi)
        BY <3>1, <3>2, <3>8
      <4> HIDE DEF Bounds
      <4> QED BY <3>5, <4>1 DEF j
    <3> QED BY <3>3, <3>6, <3>7, <3>8
  <2> HIDE DEF Bounds
  <2> QED BY <2>1
<1>4. n - 1 \in P
  <2>1. P \in SUBSET Nat
    OBVIOUS
  <2>2. n - 1 \in Nat
    BY <1>1
  <2> HIDE DEF P
  <2> QED BY <1>2, <1>3, <2>1, <2>2, FromZeroUp
<1>5. \E lo, hi \in 1 .. n : Bounds(n, lo, hi)
  <2>1. (n - 1) + 1 = n
    BY <1>1
  <2> HIDE DEF Bounds
  <2> QED BY <1>1, <1>4, <2>1
<1> QED BY <1>5 DEF Within, n

(* The longest and the shortest of the latest intervals bound the window.  *)
LEMMA LatestBoundWindow ==
  ASSUME intervals \in Seq(Nat), intervals # <<>>
  PROVE  /\ Shortest \in Nat /\ Longest \in Nat /\ Shortest <= Longest
         /\ Within(RecentIntervals(intervals), Shortest, Longest)
<1> DEFINE window == RecentIntervals(intervals)
           n == Len(window)
           k == Len(intervals)
<1>1. k \in Nat \ {0} /\ WindowSamples \in Nat \ {0} /\ DOMAIN intervals = 1 .. k
  BY SuspicionAssumption
<1>2. /\ window \in Seq(Nat)
      /\ n = (IF k > WindowSamples THEN WindowSamples ELSE k)
      /\ \A i \in 1 .. n : window[i] = intervals[k - n + i]
  BY WindowIs
<1> HIDE DEF window, k
<1>3. n \in 1 .. k /\ window # <<>>
  <2>1. n \in 1 .. k
    BY <1>1, <1>2
  <2> QED BY <2>1, <1>1
<1>4. Latest = {window[i] : i \in 1 .. n}
  <2>1. ASSUME NEW x \in Latest PROVE \E i \in 1 .. n : x = window[i]
    <3>1. PICK i \in 1 .. k : i + WindowSamples > k /\ x = intervals[i]
      BY <1>1 DEF Latest, k
    <3> DEFINE j == i - (k - n)
    <3>2. j \in 1 .. n /\ k - n + j = i
      BY <1>1, <1>2, <1>3, <3>1
    <3> HIDE DEF j
    <3> QED BY <1>2, <3>1, <3>2
  <2>2. ASSUME NEW i \in 1 .. n PROVE window[i] \in Latest
    <3> DEFINE j == k - n + i
    <3>1. j \in 1 .. k /\ j + WindowSamples > k
      BY <1>1, <1>2, <1>3
    <3>2. window[i] = intervals[j]
      BY <1>2
    <3> HIDE DEF j
    <3> QED BY <1>1, <3>1, <3>2 DEF Latest, k
  <2> QED BY <2>1, <2>2
<1>5. PICK lo, hi \in 1 .. n : Within(window, window[lo], window[hi])
  BY <1>2, <1>3, WindowHasBounds
<1>6. \A x \in Latest : window[lo] <= x /\ x <= window[hi]
  BY <1>4, <1>5 DEF Within
<1>7. window[lo] \in Latest /\ window[hi] \in Latest
  BY <1>4
<1>8. Latest \subseteq Nat
  <2>1. \A i \in 1 .. n : window[i] \in Nat
    BY <1>2, SMTT(30)
  <2> QED BY <1>4, <2>1
<1>9. Shortest \in Latest /\ \A x \in Latest : Shortest <= x
  BY <1>6, <1>7 DEF Shortest, Min
<1>10. Longest \in Latest /\ \A x \in Latest : Longest >= x
  <2>1. \A x \in Latest : window[hi] >= x
    BY <1>6, <1>7, <1>8
  <2> QED BY <1>7, <2>1 DEF Longest, Max
<1>11. \A i \in 1 .. n : window[i] \in Latest
  BY <1>4
<1> QED BY <1>8, <1>9, <1>10, <1>11 DEF Within, window

(* The intervals and the silence of a node.                                *)
HeartInv == intervals \in Seq(Nat) /\ silence \in Nat

(* A verdict on a node whose rhythm is known, whatever that rhythm is.     *)
LEMMA KnownRhythm ==
  ASSUME HeartInv, Len(intervals) >= MinIntervals
  PROVE  LET window == RecentIntervals(intervals) IN
         /\ Len(window) >= MinIntervals
         /\ PhiReached(window, silence) => silence >= Shortest + AcceptablePause + Deviations * MinStd
         /\ 2 * (silence - Longest - AcceptablePause)
              >= Deviations * Max({2 * MinStd, Longest - Shortest})
            => PhiReached(window, silence)
<1> DEFINE window == RecentIntervals(intervals)
           n == Len(window)
           T == Total(window)
           Q == Squares(window)
           lo == Shortest
           hi == Longest
           A == AcceptablePause
           D == Deviations
           std == MinStd
           late == n * silence - (T + n * A)
           spread == Spread(window)
           gap == Max({2 * std, hi - lo})
<1>1. /\ A \in Nat /\ D \in Nat /\ std \in Nat /\ silence \in Nat
      /\ MinIntervals \in Nat \ {0} /\ WindowSamples \in Nat \ {0} /\ MinIntervals <= WindowSamples
  BY SuspicionAssumption DEF HeartInv
<1>2. intervals \in Seq(Nat) /\ intervals # <<>> /\ Len(intervals) \in Nat
  BY <1>1 DEF HeartInv
<1>3. window \in Seq(Nat) /\ n = (IF Len(intervals) > WindowSamples THEN WindowSamples ELSE Len(intervals))
  BY <1>2, WindowIs
<1>4. lo \in Nat /\ hi \in Nat /\ lo <= hi /\ Within(window, lo, hi)
  BY <1>2, LatestBoundWindow
<1> HIDE DEF window, lo, hi, A, D, std
<1>5. n >= MinIntervals /\ n \in Nat \ {0}
  BY <1>1, <1>2, <1>3
<1>6. window \in Seq(Int)
  BY <1>3, SeqMonotonic
<1>7. T \in Int /\ n * lo <= T /\ T <= n * hi
  BY <1>4, <1>6, TotalWithin
<1>8. Q \in Int /\ Q <= (lo + hi) * T - n * (lo * hi)
  BY <1>4, <1>6, SquaresWithin
<1> HIDE DEF n, T, Q
<1>9. spread = Max({n * Q - T * T, (n * std) * (n * std)})
  BY DEF Spread, n, T, Q, std
<1>10. /\ spread \in {n * Q - T * T, (n * std) * (n * std)}
       /\ (n * std) * (n * std) <= spread /\ spread \in Int
  <2>1. n * Q - T * T \in Int /\ (n * std) * (n * std) \in Int
    BY <1>1, <1>5, <1>7, <1>8
  <2> HIDE DEF spread
  <2> QED BY <1>9, <2>1, MaxOfTwo
<1> HIDE DEF spread
<1>11. late \in Int
  BY <1>1, <1>5, <1>7
<1>12. PhiReached(window, silence) <=> late >= 0 /\ late * late >= D * D * spread
  BY DEF PhiReached, Expected, n, T, A, D, spread
<1>13. late = n * silence - (T + n * A)
  OBVIOUS
<1> HIDE DEF late
<1>14. late * late \in Int /\ D * D * spread \in Int
  BY <1>1, <1>10, <1>11
<1>15. ASSUME PhiReached(window, silence) PROVE silence >= lo + A + D * std
  <2>1. 0 <= late /\ D * D * spread <= late * late
    BY <1>11, <1>12, <1>14, <1>15
  <2>2. lo + A + D * std <= silence
    BY <1>1, <1>4, <1>5, <1>7, <1>10, <1>11, <1>13, <2>1, ForgivenInNumbers
  <2>3. lo + A + D * std \in Int
    BY <1>1, <1>4
  <2> QED BY <1>1, <2>2, <2>3
<1>16. ASSUME 2 * (silence - hi - A) >= D * gap PROVE PhiReached(window, silence)
  <2>1. gap \in Nat /\ 2 * std <= gap /\ hi - lo <= gap
    <3>1. 2 * std \in Int /\ hi - lo \in Int
      BY <1>1, <1>4
    <3>2. gap = Max({2 * std, hi - lo})
      OBVIOUS
    <3> HIDE DEF gap
    <3>3. gap \in {2 * std, hi - lo} /\ 2 * std <= gap /\ hi - lo <= gap
      BY <3>1, <3>2, MaxOfTwo
    <3>4. 2 * std \in Nat /\ hi - lo \in Nat
      BY <1>1, <1>4
    <3> QED BY <3>3, <3>4
  <2> HIDE DEF gap
  <2>2. D * gap <= 2 * (silence - hi - A)
    <3>1. D * gap \in Int /\ 2 * (silence - hi - A) \in Int
      BY <1>1, <1>4, <2>1
    <3> QED BY <1>16, <3>1
  <2>3. 0 <= late /\ D * D * spread <= late * late
    BY <1>1, <1>4, <1>5, <1>7, <1>8, <1>10, <1>11, <1>13, <2>1, <2>2, DetectedInNumbers
  <2> QED BY <1>11, <1>12, <1>14, <2>3
<1> QED BY <1>5, <1>15, <1>16 DEF window, n, lo, hi, A, D, std

(* Any history of heartbeats and any silence.                              *)
LEMMA HeartVerdict == HeartInv => PauseIsForgiven /\ SilenceIsDetected
<1> SUFFICES ASSUME HeartInv PROVE PauseIsForgiven /\ SilenceIsDetected
  OBVIOUS
<1> DEFINE window == RecentIntervals(intervals)
           k == Len(intervals)
<1>1. /\ k \in Nat /\ silence \in Nat /\ FloorSeconds \in Nat /\ BootstrapSilence \in Nat
      /\ MinIntervals \in Nat /\ WindowSamples \in Nat /\ MinIntervals <= WindowSamples
  BY SuspicionAssumption DEF HeartInv
<1>2. Failed <=> /\ silence >= FloorSeconds
                 /\ IF Len(window) < MinIntervals THEN silence >= BootstrapSilence
                    ELSE PhiReached(window, silence)
  BY DEF Failed, EvaluateSuspicion
<1>3. CASE k < MinIntervals
  <2>1. Len(window) < MinIntervals
    BY <1>1, <1>3 DEF RecentIntervals
  <2> HIDE DEF window
  <2> QED BY <1>1, <1>2, <1>3, <2>1 DEF PauseIsForgiven, SilenceIsDetected
<1>4. CASE k >= MinIntervals
  <2>1. /\ Len(window) >= MinIntervals
        /\ PhiReached(window, silence) => silence >= Shortest + AcceptablePause + Deviations * MinStd
        /\ 2 * (silence - Longest - AcceptablePause)
              >= Deviations * Max({2 * MinStd, Longest - Shortest})
           => PhiReached(window, silence)
    BY <1>4, KnownRhythm
  <2>2. Len(window) \in Nat
    <3>1. window \in Seq(Nat)
      BY WindowIs DEF HeartInv
    <3> HIDE DEF window
    <3> QED BY <3>1
  <2> HIDE DEF window
  <2>3. Failed <=> silence >= FloorSeconds /\ PhiReached(window, silence)
    BY <1>1, <1>2, <2>1, <2>2
  <2>4. PauseIsForgiven
    BY <2>1, <2>3 DEF PauseIsForgiven
  <2>5. SilenceIsDetected
    BY <1>1, <1>4, <2>1, <2>3 DEF SilenceIsDetected
  <2> QED BY <2>4, <2>5
<1> QED BY <1>1, <1>3, <1>4

LEMMA StepKeepsHeart ==
  ASSUME HeartInv, SuspicionNext \/ UNCHANGED heartVars PROVE HeartInv'
<1>1. CASE SecondPasses
  BY <1>1 DEF HeartInv, SecondPasses
<1>2. CASE Heartbeat
  BY <1>2 DEF HeartInv, Heartbeat
<1>3. CASE UNCHANGED heartVars
  BY <1>3 DEF HeartInv, heartVars
<1> QED BY <1>1, <1>2, <1>3 DEF SuspicionNext

-----------------------------------------------------------------------------
(* What is stored of an archive.  A rearranged one has every entry in a    *)
(* class of a split, which the validator and torchvision read alike; and a *)
(* class gives up its first image for testing, but not its second.         *)

(* Strings: the provers take no literal for an element of STRING.          *)
Words == STRING \cup Splits \cup {NoLabel, "a", "b", "w", "val", "pred", "litter"}

Kinds == {"image", "gif", "other", "litter"}

Files == [dirs : Seq(Words), number : Nat, label : Words, kind : Kinds]

IsArchive(files) ==
  /\ IsFiniteSet(files) /\ files \subseteq Files
  /\ \A f, g \in files : f.number = g.number => f = g

(* Two directories, or one around them. *)
LEMMA RootedPaths ==
  ASSUME NEW files, files \subseteq Files, OneRoot(files)
  PROVE  /\ \A f \in files : f.kind = "image" /\ f.dirs \in Seq(Words)
         /\ \/ \A f \in files : Len(f.dirs) = 2 /\ f.dirs[1] \in Splits
            \/ \E w \in {"w", "test"} : \A f \in files :
                 Len(f.dirs) = 3 /\ f.dirs[1] = w /\ f.dirs[2] \in Splits
<1>1. PICK root \in {<<>>} \cup {<<w>> : w \in {"w", "test"}} :
        \A f \in files : /\ f.kind = "image" /\ IsPrefix(root, f.dirs)
                         /\ Len(f.dirs) = Len(root) + 2 /\ f.dirs[Len(root) + 1] \in Splits
  BY DEF OneRoot
<1>2. \A f \in files : f.dirs \in Seq(Words)
  BY DEF Files
<1>3. CASE root = <<>>
  <2>1. Len(root) = 0
    BY <1>3
  <2> QED BY <1>1, <1>2, <2>1
<1>4. CASE root \in {<<w>> : w \in {"w", "test"}}
  <2>1. PICK w \in {"w", "test"} : root = <<w>>
    BY <1>4
  <2>2. Len(root) = 1 /\ root[1] = w
    BY <2>1
  <2>3. ASSUME NEW f \in files PROVE Len(f.dirs) = 3 /\ f.dirs[1] = w /\ f.dirs[2] \in Splits
    <3>1. Len(f.dirs) = 3 /\ f.dirs[2] \in Splits /\ f.dirs \in Seq(Words)
      BY <1>1, <1>2, <2>2
    <3>2. SubSeq(root, 1, 1) = SubSeq(f.dirs, 1, 1)
      BY <1>1, <2>2 DEF IsPrefix
    <3>3. SubSeq(root, 1, 1)[1] = root[1]
      <4>1. root = <<w>>
        BY <2>1
      <4> QED BY <4>1
    <3>4. SubSeq(f.dirs, 1, 1)[1] = f.dirs[1]
      BY <3>1
    <3> QED BY <2>2, <3>1, <3>2, <3>3, <3>4
  <2> QED BY <1>1, <1>2, <2>3
<1> QED BY <1>1, <1>3, <1>4

(* Where the validator and torchvision see the same files below the same   *)
(* directories, what is accepted loads.                                    *)
LEMMA SameViewLoads ==
  ASSUME NEW files, Accepts(files),
         \A split \in Splits : /\ FolderClasses(files, split) = ClassesIn(files, split)
                               /\ ReadableClasses(files, split) = ClassesIn(files, split)
  PROVE  Loads(files)
BY DEF Loads, Accepts, Summarized, Splits

LEMMA FlatView ==
  ASSUME NEW files, files \subseteq Files, ClassesIn(files, "train") # {},
         \A f \in files : /\ f.kind = "image" /\ f.dirs \in Seq(Words)
                          /\ Len(f.dirs) = 2 /\ f.dirs[1] \in Splits
  PROVE  /\ Resolved(files) = files
         /\ \A split \in Splits : /\ FolderClasses(files, split) = ClassesIn(files, split)
                                  /\ ReadableClasses(files, split) = ClassesIn(files, split)
<1>1. \A f \in files : Unwrapped(f) = f.dirs /\ f.dirs # <<>> /\ ~IsIgnorable(f)
  <2> SUFFICES ASSUME NEW f \in files
               PROVE  Unwrapped(f) = f.dirs /\ f.dirs # <<>> /\ ~IsIgnorable(f)
    OBVIOUS
  <2>1. f.kind = "image" /\ f.dirs \in Seq(Words) /\ Len(f.dirs) = 2
    OBVIOUS
  <2>2. Unwrapped(f) = f.dirs
    BY <2>1 DEF Unwrapped
  <2>3. ~IsIgnorable(f)
    BY <2>1 DEF IsIgnorable
  <2> QED BY <2>1, <2>2, <2>3
<1>2. Counted(files) = files
  BY <1>1 DEF Counted
<1>3. "train" \in TopLevel(files)
  <2>1. PICK f \in files : f.dirs[1] = "train"
    BY <1>1, <1>2 DEF ClassesIn
  <2> QED BY <1>1, <2>1 DEF TopLevel
<1>4. Resolved(files) = files
  BY <1>3 DEF Resolved
<1>5. \A split \in Splits : Below(files, split) = {f \in files : f.dirs[1] = split}
  BY <1>1, <1>4 DEF Below
<1>6. \A split \in Splits : ClassesIn(files, split) = {f.dirs[2] : f \in {g \in files : g.dirs[1] = split}}
  BY <1>1, <1>2 DEF ClassesIn
<1>7. \A split \in Splits :
        /\ {g \in Below(files, split) : Len(g.dirs) >= 2} = {g \in files : g.dirs[1] = split}
        /\ {g \in Below(files, split) : Len(g.dirs) >= 2 /\ g.kind = "image"}
             = {g \in files : g.dirs[1] = split}
  <2>1. \A f \in files : Len(f.dirs) >= 2 /\ f.kind = "image"
    OBVIOUS
  <2> QED BY <1>5, <2>1
<1> QED BY <1>4, <1>6, <1>7 DEF FolderClasses, ReadableClasses

LEMMA TailOfThree ==
  ASSUME NEW S, NEW d \in Seq(S), Len(d) = 3
  PROVE  Tail(d) \in Seq(S) /\ Len(Tail(d)) = 2 /\ Tail(d)[1] = d[2]
<1>1. d # <<>>
  <2>1. Len(<<>>) = 0
    OBVIOUS
  <2> QED BY <2>1
<1>2. /\ Tail(d) \in Seq(S) /\ Len(Tail(d)) = Len(d) - 1
      /\ \A i \in 1 .. Len(Tail(d)) : Tail(d)[i] = d[i + 1]
  BY <1>1, HeadTailProperties
<1>3. Len(Tail(d)) = 2 /\ 1 \in 1 .. Len(Tail(d)) /\ 1 + 1 = 2
  BY <1>2
<1> QED BY <1>2, <1>3

LEMMA WrappedView ==
  ASSUME NEW files, files \subseteq Files, ClassesIn(files, "train") # {},
         NEW w \in {"w", "test"},
         \A f \in files : /\ f.kind = "image" /\ f.dirs \in Seq(Words)
                          /\ Len(f.dirs) = 3 /\ f.dirs[1] = w /\ f.dirs[2] \in Splits
  PROVE  \A split \in Splits : /\ FolderClasses(files, split) = ClassesIn(files, split)
                               /\ ReadableClasses(files, split) = ClassesIn(files, split)
<1> DEFINE inner(f) == [f EXCEPT !.dirs = Tail(f.dirs)]
<1>1. \A f \in files : /\ Unwrapped(f) = Tail(f.dirs) /\ f.dirs # <<>> /\ ~IsIgnorable(f)
                       /\ Tail(f.dirs) \in Seq(Words) /\ Len(Tail(f.dirs)) = 2
                       /\ Tail(f.dirs)[1] = f.dirs[2]
  <2> SUFFICES ASSUME NEW f \in files
               PROVE  /\ Unwrapped(f) = Tail(f.dirs) /\ f.dirs # <<>> /\ ~IsIgnorable(f)
                      /\ Tail(f.dirs) \in Seq(Words) /\ Len(Tail(f.dirs)) = 2
                      /\ Tail(f.dirs)[1] = f.dirs[2]
    OBVIOUS
  <2>1. f.kind = "image" /\ f.dirs \in Seq(Words) /\ Len(f.dirs) = 3 /\ f.dirs[2] \in Splits
    OBVIOUS
  <2>2. Unwrapped(f) = Tail(f.dirs)
    BY <2>1 DEF Unwrapped
  <2>3. ~IsIgnorable(f)
    BY <2>1 DEF IsIgnorable
  <2>4. f.dirs # <<>>
    BY <2>1
  <2>5. /\ Tail(f.dirs) \in Seq(Words) /\ Len(Tail(f.dirs)) = 2
        /\ Tail(f.dirs)[1] = f.dirs[2]
    BY <2>1, TailOfThree
  <2> QED BY <2>2, <2>3, <2>4, <2>5
<1>2. Counted(files) = files
  BY <1>1 DEF Counted
<1>3. PICK one \in files : one.dirs[2] = "train"
  BY <1>1, <1>2 DEF ClassesIn
<1>4. TopLevel(files) = {w}
  BY <1>1, <1>3 DEF TopLevel
<1>5. Cardinality(TopLevel(files)) = 1 /\ "train" \notin TopLevel(files)
  BY <1>4, FS_Singleton
<1>6. Resolved(files) = {inner(f) : f \in files}
  BY <1>1, <1>3, <1>5 DEF Resolved
<1>7. \A f \in files : inner(f).dirs = Tail(f.dirs) /\ inner(f).kind = "image"
  BY DEF Files
<1> HIDE DEF inner
<1>8. ASSUME NEW split \in Splits
      PROVE  /\ Below(files, split) = {inner(f) : f \in {g \in files : g.dirs[2] = split}}
             /\ ClassesIn(files, split) = {Tail(f.dirs)[2] : f \in {g \in files : g.dirs[2] = split}}
  <2>1. \A f \in files : inner(f).dirs # <<>> /\ inner(f).dirs[1] = f.dirs[2]
    <3> SUFFICES ASSUME NEW f \in files PROVE inner(f).dirs # <<>> /\ inner(f).dirs[1] = f.dirs[2]
      OBVIOUS
    <3>1. inner(f).dirs = Tail(f.dirs) /\ Len(Tail(f.dirs)) = 2 /\ Tail(f.dirs)[1] = f.dirs[2]
      BY <1>1, <1>7
    <3>2. Len(inner(f).dirs) = 2 /\ inner(f).dirs[1] = f.dirs[2]
      BY <3>1
    <3>3. Len(<<>>) = 0
      OBVIOUS
    <3> QED BY <3>2, <3>3
  <2>2. Below(files, split) = {inner(f) : f \in {g \in files : g.dirs[2] = split}}
    BY <1>6, <2>1 DEF Below
  <2>3. {g \in Counted(files) : Unwrapped(g)[1] = split} = {g \in files : g.dirs[2] = split}
    BY <1>1, <1>2
  <2>4. ClassesIn(files, split) = {Tail(f.dirs)[2] : f \in {g \in files : g.dirs[2] = split}}
    <3>1. ClassesIn(files, split) = {Unwrapped(f)[2] : f \in {g \in files : g.dirs[2] = split}}
      BY <2>3 DEF ClassesIn
    <3>2. \A f \in {g \in files : g.dirs[2] = split} : Unwrapped(f)[2] = Tail(f.dirs)[2]
      BY <1>1
    <3> QED BY <3>1, <3>2
  <2> QED BY <2>2, <2>4
<1>9. ASSUME NEW split \in Splits
      PROVE  /\ FolderClasses(files, split) = ClassesIn(files, split)
             /\ ReadableClasses(files, split) = ClassesIn(files, split)
  <2>1. \A h \in Below(files, split) : Len(h.dirs) >= 2 /\ h.kind = "image"
    <3> SUFFICES ASSUME NEW f \in files
                 PROVE  Len(inner(f).dirs) >= 2 /\ inner(f).kind = "image"
      BY <1>8
    <3>1. inner(f).dirs = Tail(f.dirs) /\ Len(Tail(f.dirs)) = 2 /\ inner(f).kind = "image"
      BY <1>1, <1>7
    <3>2. Len(inner(f).dirs) = 2 /\ inner(f).kind = "image"
      BY <3>1
    <3> QED BY <3>2
  <2>2. /\ {g \in Below(files, split) : Len(g.dirs) >= 2} = Below(files, split)
        /\ {g \in Below(files, split) : Len(g.dirs) >= 2 /\ g.kind = "image"} = Below(files, split)
    BY <2>1
  <2>3. {h.dirs[2] : h \in Below(files, split)} = ClassesIn(files, split)
    <3>1. \A f \in files : inner(f).dirs[2] = Tail(f.dirs)[2]
      BY <1>7
    <3> DEFINE G == {g \in files : g.dirs[2] = split}
    <3>2. Below(files, split) = {inner(f) : f \in G} /\ ClassesIn(files, split) = {Tail(f.dirs)[2] : f \in G}
      BY <1>8
    <3>3. \A f \in G : inner(f).dirs[2] = Tail(f.dirs)[2]
      BY <3>1
    <3> HIDE DEF G
    <3>4. {h.dirs[2] : h \in {inner(f) : f \in G}} = {inner(f).dirs[2] : f \in G}
      OBVIOUS
    <3>5. {inner(f).dirs[2] : f \in G} = {Tail(f.dirs)[2] : f \in G}
      BY <3>3
    <3> QED BY <3>2, <3>4, <3>5
  <2> QED BY <2>2, <2>3 DEF FolderClasses, ReadableClasses
<1> QED BY <1>9

LEMMA StoredAsItCame ==
  ASSUME NEW files, files \subseteq Files, Accepts(files), OneRoot(files) PROVE Loads(files)
<1>1. ClassesIn(files, "train") # {}
  BY DEF Accepts
<1>2. /\ \A f \in files : f.kind = "image" /\ f.dirs \in Seq(Words)
      /\ \/ \A f \in files : Len(f.dirs) = 2 /\ f.dirs[1] \in Splits
         \/ \E w \in {"w", "test"} : \A f \in files :
              Len(f.dirs) = 3 /\ f.dirs[1] = w /\ f.dirs[2] \in Splits
  BY RootedPaths
<1>3. CASE \A f \in files : Len(f.dirs) = 2 /\ f.dirs[1] \in Splits
  BY <1>1, <1>2, <1>3, FlatView, SameViewLoads
<1>4. CASE \E w \in {"w", "test"} : \A f \in files :
              Len(f.dirs) = 3 /\ f.dirs[1] = w /\ f.dirs[2] \in Splits
  BY <1>1, <1>2, <1>4, WrappedView, SameViewLoads
<1> QED BY <1>2, <1>3, <1>4

-----------------------------------------------------------------------------
Placed(f, split, class) == [f EXCEPT !.dirs = <<split, class>>, !.label = NoLabel]

LEMMA PlacedIs ==
  ASSUME NEW f \in Files, NEW split \in Splits, NEW class \in Words
  PROVE  /\ Placed(f, split, class) \in Files
         /\ Placed(f, split, class).dirs = <<split, class>>
         /\ Placed(f, split, class).kind = f.kind
         /\ Placed(f, split, class).number = f.number
<1>1. split \in Words
  BY DEF Words
<1>2. <<split, class>> \in Seq(Words)
  BY <1>1
<1>3. NoLabel \in Words
  BY DEF Words
<1> QED BY <1>2, <1>3 DEF Placed, Files

LEMMA ClassifiedAre ==
  ASSUME NEW files, files \subseteq Files
  PROVE  /\ Classified(files) \subseteq files
         /\ \A f \in Classified(files) :
              /\ f.kind \in {"image", "gif"} /\ LabelOf(f) \in Words /\ SplitOf(f) \in Splits
<1>1. Classified(files) \subseteq files
  BY DEF Classified, Usable, Images
<1>2. ASSUME NEW f \in Classified(files)
      PROVE  f.kind \in {"image", "gif"} /\ LabelOf(f) \in Words /\ SplitOf(f) \in Splits
  <2>1. f \in Files /\ f.kind \in {"image", "gif"} /\ SplitAt(f) # {}
    BY <1>1, <1>2 DEF Classified, Usable, Images
  <2>2. SplitOf(f) \in Splits
    BY DEF SplitOf, Splits
  <2>3. f.dirs \in Seq(Words) /\ f.label \in Words
    BY <2>1 DEF Files
  <2>4. Len(f.dirs) \in 1 .. Len(f.dirs)
    <3>1. PICK i \in DOMAIN f.dirs : TRUE
      BY <2>1 DEF SplitAt
    <3> QED BY <2>3, <3>1
  <2>5. Last(f.dirs) \in Words
    BY <2>3, <2>4, ElementOfSeq DEF Last
  <2> QED BY <2>1, <2>2, <2>3, <2>5 DEF LabelOf
<1> QED BY <1>1, <1>2

LEMMA KeptAre ==
  ASSUME NEW files, files \subseteq Files, NEW class \in KeptClasses(files)
  PROVE  /\ class \in Words
         /\ Found(files, "train", class) # {} /\ HeldOut(files, class) # {}
         /\ \A split \in Splits : Kept(files, split, class) \subseteq Classified(files)
         /\ Kept(files, "train", class) \cap Kept(files, "test", class) = {}
         /\ Kept(files, "train", class) \cup Kept(files, "test", class)
              = {f \in Classified(files) : LabelOf(f) = class}
         /\ Found(files, "test", class) \subseteq Kept(files, "test", class)
<1>1. PICK g \in Classified(files) : /\ class = LabelOf(g) /\ Found(files, "train", class) # {}
                                     /\ HeldOut(files, class) # {}
  BY DEF KeptClasses
<1>2. class \in Words
  BY <1>1, ClassifiedAre
<1>3. \A split \in Splits : Found(files, split, class) \subseteq {f \in Classified(files) : LabelOf(f) = class}
  BY DEF Found
<1>4. Found(files, "train", class) \cap Found(files, "test", class) = {}
  BY DEF Found
<1>5. Found(files, "train", class) \cup Found(files, "test", class)
        = {f \in Classified(files) : LabelOf(f) = class}
  BY ClassifiedAre DEF Found, Splits
<1>6. \/ HeldOut(files, class) = Found(files, "test", class)
      \/ Found(files, "test", class) = {} /\ HeldOut(files, class) \subseteq Found(files, "train", class)
  BY DEF HeldOut
<1> QED BY <1>1, <1>2, <1>3, <1>4, <1>5, <1>6 DEF Kept, Splits

LEMMA LowestNumber ==
  ASSUME NEW S \in SUBSET Files, S # {} PROVE \E f \in S : \A g \in S : f.number <= g.number
<1> DEFINE T == {f.number : f \in S}
           R == OpToRel(<, Nat)
<1>1. T \subseteq Nat /\ T # {}
  BY DEF Files
<1>2. IsWellFoundedOn(R, Nat)
  BY NatLessThanWellFounded
<1>3. PICK n \in T : \A m \in T : ~(<<m, n>> \in R)
  <2> HIDE DEF T, R
  <2> QED BY <1>1, <1>2, WFMin
<1>4. \A m \in T : n <= m
  <2> SUFFICES ASSUME NEW m \in T PROVE n <= m
    OBVIOUS
  <2>1. m \in Nat /\ n \in Nat
    BY <1>1
  <2> HIDE DEF T
  <2>2. ~(m < n)
    BY <1>3, <2>1 DEF OpToRel
  <2> QED BY <2>1, <2>2
<1> QED BY <1>3, <1>4

(* A class whose test images are carved out keeps some to train on: the    *)
(* first image is held out, and the second is not.                         *)
LEMMA BothSplitsKeep ==
  ASSUME NEW files, IsArchive(files), NEW class \in KeptClasses(files)
  PROVE  Kept(files, "train", class) # {} /\ Kept(files, "test", class) # {}
<1> DEFINE members == Found(files, "train", class)
<1>1. files \subseteq Files
  BY DEF IsArchive
<1>2. members # {} /\ HeldOut(files, class) # {}
  BY <1>1, KeptAre
<1>3. Kept(files, "test", class) # {}
  BY <1>2 DEF Kept
<1>4. CASE HeldOut(files, class) = Found(files, "test", class)
  <2>1. members \cap Found(files, "test", class) = {}
    BY DEF Found
  <2>2. Kept(files, "train", class) = members
    BY <1>4, <2>1 DEF Kept
  <2> QED BY <1>2, <1>3, <2>2
<1>5. CASE /\ Stride # 0 /\ ~FewerThanStride(members)
           /\ HeldOut(files, class) = {f \in members : IndexOf(f, members) % Stride = 0}
  <2>1. Stride \in Nat /\ Stride >= 2
    BY <1>5, ArchivesAssumption
  <2>2. members \subseteq files /\ members \subseteq Files
    BY <1>1, ClassifiedAre DEF Found
  <2>3. IsFiniteSet(members)
    BY <2>2, FS_Subset DEF IsArchive
  <2>4. Cardinality(members) \in Nat /\ Cardinality(members) >= 2
    <3>1. Cardinality(members) \in Nat
      BY <2>3, FS_CardinalityType
    <3> QED BY <1>5, <2>1, <3>1 DEF FewerThanStride
  <2> HIDE DEF members
  <2>5. PICK first \in members : \A g \in members : first.number <= g.number
    BY <1>2, <2>2, LowestNumber
  <2>6. members \ {first} # {}
    <3>1. ASSUME members = {first} PROVE FALSE
      <4>1. Cardinality({first}) = 1
        BY FS_Singleton
      <4>2. Cardinality(members) = 1
        BY <3>1, <4>1
      <4> QED BY <2>4, <4>2
    <3> QED BY <2>5, <3>1
  <2>7. PICK second \in members \ {first} : \A g \in members \ {first} : second.number <= g.number
    <3> DEFINE rest == members \ {first}
    <3>1. rest \in SUBSET Files /\ rest # {}
      BY <2>2, <2>6
    <3> HIDE DEF rest
    <3>2. \E f \in rest : \A g \in rest : f.number <= g.number
      BY <3>1, LowestNumber
    <3> QED BY <3>2 DEF rest
  <2>8. \A f \in members : f.number \in Nat
    BY <2>2 DEF Files
  <2>9. first.number < second.number
    <3>1. first.number # second.number
      BY <2>2, <2>5, <2>7 DEF IsArchive
    <3> QED BY <2>5, <2>7, <2>8, <3>1
  <2>10. {g \in members : g.number < second.number} = {first}
    <3>1. \A g \in members \ {first} : ~(g.number < second.number)
      BY <2>7, <2>8
    <3> QED BY <2>5, <2>9, <3>1
  <2>11. IndexOf(second, members) = 1
    BY <2>10, FS_Singleton DEF IndexOf
  <2>12. 1 % Stride = 1
    BY <2>1
  <2>13. second \notin HeldOut(files, class)
    BY <1>5, <2>11, <2>12
  <2> QED BY <1>3, <2>7, <2>13 DEF Kept, members
<1> QED BY <1>4, <1>5 DEF HeldOut

-----------------------------------------------------------------------------
Rewritten(files) == RewriteArchive(PlanNormalization(files))

LEMMA RewrittenIs ==
  ASSUME NEW files, files \subseteq Files
  PROVE  \A h : h \in Rewritten(files) <=>
           \E split \in Splits, class \in KeptClasses(files) :
             \E f \in Kept(files, split, class) : h = Placed(f, split, class)
<1>1. ASSUME NEW h \in Rewritten(files)
      PROVE  \E split \in Splits, class \in KeptClasses(files) :
               \E f \in Kept(files, split, class) : h = Placed(f, split, class)
  <2>1. PICK t \in PlanNormalization(files) : h = [t[3] EXCEPT !.dirs = <<t[1], t[2]>>, !.label = NoLabel]
    BY <1>1 DEF Rewritten, RewriteArchive
  <2>2. PICK split \in Splits, class \in KeptClasses(files), f \in Classified(files) :
          t = <<split, class, f>>
    BY <2>1 DEF PlanNormalization, Targets
  <2>3. t[1] = split /\ t[2] = class /\ t[3] = f
    BY <2>2
  <2>4. f \in Kept(files, split, class)
    BY <2>1, <2>3 DEF PlanNormalization
  <2> QED BY <2>1, <2>3, <2>4 DEF Placed
<1>2. ASSUME NEW split \in Splits, NEW class \in KeptClasses(files), NEW f \in Kept(files, split, class)
      PROVE  Placed(f, split, class) \in Rewritten(files)
  <2> DEFINE t == <<split, class, f>>
  <2>1. f \in Classified(files)
    BY <1>2, KeptAre
  <2>2. t[1] = split /\ t[2] = class /\ t[3] = f
    OBVIOUS
  <2>3. t \in Targets(files)
    BY <2>1 DEF Targets
  <2> HIDE DEF t
  <2>4. t \in PlanNormalization(files)
    BY <2>2, <2>3 DEF PlanNormalization
  <2> QED BY <2>2, <2>4 DEF Rewritten, RewriteArchive, Placed
<1> QED BY <1>1, <1>2

LEMMA RewrittenFiles ==
  ASSUME NEW files, files \subseteq Files, NEW h \in Rewritten(files)
  PROVE  /\ h \in Files /\ h.dirs \in Seq(Words) /\ Len(h.dirs) = 2 /\ h.dirs[1] \in Splits
         /\ h.dirs[2] \in KeptClasses(files)
         /\ h.kind \in {"image", "gif"}
         /\ Unwrapped(h) = h.dirs /\ ~IsIgnorable(h)
<1>1. PICK split \in Splits, class \in KeptClasses(files) :
        \E g \in Kept(files, split, class) : h = Placed(g, split, class)
  BY RewrittenIs
<1>2. PICK f \in Kept(files, split, class) : h = Placed(f, split, class)
  BY <1>1
<1>3. class \in Words /\ f \in Classified(files)
  BY KeptAre
<1>4. f \in Files /\ f.kind \in {"image", "gif"}
  BY <1>3, ClassifiedAre
<1>5. h \in Files /\ h.dirs = <<split, class>> /\ h.kind = f.kind
  BY <1>2, <1>3, <1>4, PlacedIs
<1>6. h.dirs \in Seq(Words)
  BY <1>5 DEF Files
<1>7. Len(h.dirs) = 2 /\ h.dirs[1] = split /\ h.dirs[2] = class
  BY <1>5
<1>8. Unwrapped(h) = h.dirs
  BY <1>7 DEF Unwrapped
<1>9. h.kind \in {"image", "gif"} /\ ~IsIgnorable(h)
  BY <1>4, <1>5 DEF IsIgnorable
<1> QED BY <1>5, <1>6, <1>7, <1>8, <1>9

LEMMA RewrittenClasses ==
  ASSUME NEW files, IsArchive(files)
  PROVE  \A split \in Splits : ClassesIn(Rewritten(files), split) = KeptClasses(files)
<1> DEFINE R == Rewritten(files)
<1>1. files \subseteq Files
  BY DEF IsArchive
<1>2. \A h \in R : /\ Len(h.dirs) = 2 /\ h.dirs[1] \in Splits /\ h.dirs[2] \in KeptClasses(files)
                   /\ Unwrapped(h) = h.dirs /\ ~IsIgnorable(h)
  BY <1>1, RewrittenFiles
<1>3. \A split \in Splits, class \in KeptClasses(files) : \E h \in R : h.dirs = <<split, class>>
  <2> SUFFICES ASSUME NEW split \in Splits, NEW class \in KeptClasses(files)
               PROVE  \E h \in R : h.dirs = <<split, class>>
    OBVIOUS
  <2>1. PICK f \in Kept(files, split, class) : TRUE
    BY BothSplitsKeep DEF Splits
  <2>2. f \in Files /\ class \in Words
    BY <1>1, KeptAre, ClassifiedAre
  <2>3. Placed(f, split, class) \in R
    BY <1>1, RewrittenIs
  <2> QED BY <2>2, <2>3, PlacedIs
<1> HIDE DEF R
<1>4. Counted(R) = R
  BY <1>2 DEF Counted
<1>5. ASSUME NEW split \in Splits PROVE ClassesIn(R, split) = KeptClasses(files)
  <2>1. ClassesIn(R, split) = {h.dirs[2] : h \in {g \in R : g.dirs[1] = split}}
    BY <1>2, <1>4 DEF ClassesIn
  <2>2. ClassesIn(R, split) \subseteq KeptClasses(files)
    BY <1>2, <2>1
  <2>3. ASSUME NEW class \in KeptClasses(files) PROVE class \in ClassesIn(R, split)
    <3>1. PICK h \in R : h.dirs = <<split, class>>
      BY <1>3
    <3>2. h.dirs[1] = split /\ h.dirs[2] = class
      BY <3>1
    <3> QED BY <2>1, <3>2
  <2> QED BY <2>2, <2>3
<1> QED BY <1>5 DEF R

LEMMA RewrittenAccepted ==
  ASSUME NEW files, IsArchive(files)
  PROVE  Accepts(Rewritten(files)) <=>
           KeptClasses(files) # {} /\ Cardinality(KeptClasses(files)) \in MinClasses .. MaxClasses
<1> DEFINE R == Rewritten(files)
<1>1. files \subseteq Files
  BY DEF IsArchive
<1>2. \A h \in R : /\ Len(h.dirs) = 2 /\ h.dirs[1] \in Splits /\ h.kind \in {"image", "gif"}
                   /\ Unwrapped(h) = h.dirs /\ ~IsIgnorable(h)
  BY <1>1, RewrittenFiles
<1>3. ClassesIn(R, "train") = KeptClasses(files) /\ ClassesIn(R, "test") = KeptClasses(files)
  BY RewrittenClasses DEF Splits
<1> HIDE DEF R
<1>4. Counted(R) = R /\ Images(R) = R
  BY <1>2 DEF Counted, Images
<1> QED BY <1>3, <1>4 DEF Accepts, Summarized, R

LEMMA NothingIsLost ==
  ASSUME NEW files, IsArchive(files), NEW class \in KeptClasses(files),
         Resolved(Rewritten(files)) = Rewritten(files)
  PROVE  NothingLost(files, Rewritten(files), class)
<1> DEFINE R == Rewritten(files)
           N(split) == Numbers(Kept(files, split, class))
<1>1. files \subseteq Files
  BY DEF IsArchive
<1>2. \A h \in R : /\ Len(h.dirs) = 2 /\ h.dirs # <<>>
  <2>1. Len(<<>>) = 0
    OBVIOUS
  <2> QED BY <1>1, <2>1, RewrittenFiles
<1>3. ASSUME NEW split \in Splits PROVE Finds(R, split, class) = N(split)
  <2>1. {g \in Below(R, split) : Len(g.dirs) = 2 /\ g.dirs[2] = class}
          = {g \in R : g.dirs[1] = split /\ g.dirs[2] = class}
    BY <1>2 DEF Below
  <2>2. ASSUME NEW h \in R, h.dirs[1] = split, h.dirs[2] = class PROVE h.number \in N(split)
    <3>1. PICK s \in Splits, c \in KeptClasses(files) : \E g \in Kept(files, s, c) : h = Placed(g, s, c)
      BY <1>1, RewrittenIs
    <3>2. PICK f \in Kept(files, s, c) : h = Placed(f, s, c)
      BY <3>1
    <3>3. c \in Words /\ f \in Files
      BY <1>1, KeptAre, ClassifiedAre
    <3>4. h.dirs = <<s, c>> /\ h.number = f.number
      BY <3>2, <3>3, PlacedIs
    <3>5. s = split /\ c = class
      BY <2>2, <3>4
    <3> QED BY <3>4, <3>5 DEF Numbers
  <2>3. ASSUME NEW f \in Kept(files, split, class)
        PROVE  \E h \in R : h.dirs[1] = split /\ h.dirs[2] = class /\ h.number = f.number
    <3>1. class \in Words /\ f \in Files
      BY <1>1, KeptAre, ClassifiedAre
    <3>2. Placed(f, split, class) \in R
      BY <1>1, RewrittenIs
    <3>3. Placed(f, split, class).dirs = <<split, class>> /\ Placed(f, split, class).number = f.number
      BY <3>1, PlacedIs
    <3> QED BY <3>2, <3>3
  <2>4. Finds(R, split, class) = {h.number : h \in {g \in R : g.dirs[1] = split /\ g.dirs[2] = class}}
    BY <2>1 DEF Finds
  <2> HIDE DEF R
  <2> QED BY <2>2, <2>3, <2>4 DEF Numbers
<1> HIDE DEF R
<1>4. /\ Kept(files, "train", class) \cap Kept(files, "test", class) = {}
      /\ Kept(files, "train", class) \cup Kept(files, "test", class)
           = {f \in Classified(files) : LabelOf(f) = class}
      /\ Found(files, "test", class) \subseteq Kept(files, "test", class)
      /\ Kept(files, "train", class) \subseteq files /\ Kept(files, "test", class) \subseteq files
  BY <1>1, KeptAre, ClassifiedAre DEF Splits
<1>5. N("train") # {} /\ N("test") # {}
  BY BothSplitsKeep DEF Numbers
<1>6. N("train") \cap N("test") = {}
  BY <1>4 DEF Numbers, IsArchive
<1>7. N("train") \cup N("test") = Numbers({f \in Classified(files) : LabelOf(f) = class})
  BY <1>4 DEF Numbers
<1>8. Numbers(Found(files, "test", class)) \subseteq N("test")
  BY <1>4 DEF Numbers
<1>9. Finds(R, "train", class) = N("train") /\ Finds(R, "test", class) = N("test")
  BY <1>3 DEF Splits
<1> HIDE DEF N
<1> QED BY <1>5, <1>6, <1>7, <1>8, <1>9 DEF NothingLost, R

(* What is stored of any archive with finitely many files, whatever their  *)
(* directories, labels and kinds (_prepare_archive).                       *)
THEOREM AnyArchiveIsUsable ==
  ASSUME IsArchive(archive), kept = PrepareArchive(archive) PROVE StoredIsUsable
<1> DEFINE R == Rewritten(archive)
           K == KeptClasses(archive)
<1>1. archive \subseteq Files
  BY DEF IsArchive
<1>2. kept = IF Accepts(archive) THEN archive ELSE IF Accepts(R) THEN R ELSE {}
  BY DEF PrepareArchive, Rewritten
<1>3. ASSUME kept # {}, kept = archive, OneRoot(archive) PROVE Loads(kept)
  <2>1. Accepts(archive)
    BY <1>2, <1>3
  <2> QED BY <1>1, <1>3, <2>1, StoredAsItCame
<1>4. ASSUME kept # {}, kept # archive, \A f \in kept : f.kind = "image"
      PROVE  /\ Loads(kept) /\ Summarized(kept) = K
             /\ \A class \in Summarized(kept) : NothingLost(archive, kept, class)
  <2>1. kept = R /\ Accepts(R)
    BY <1>2, <1>4
  <2>2. R \subseteq Files /\ \A h \in R : /\ h.dirs \in Seq(Words) /\ Len(h.dirs) = 2
                                          /\ h.dirs[1] \in Splits
    BY <1>1, RewrittenFiles
  <2>3. ClassesIn(R, "train") # {}
    BY <2>1 DEF Accepts
  <2>4. /\ Resolved(R) = R
        /\ \A split \in Splits : /\ FolderClasses(R, split) = ClassesIn(R, split)
                                 /\ ReadableClasses(R, split) = ClassesIn(R, split)
    <3> HIDE DEF R
    <3> QED BY <1>4, <2>1, <2>2, <2>3, FlatView
  <2>5. Loads(R)
    BY <2>1, <2>4, SameViewLoads
  <2>6. Summarized(R) = K
    BY RewrittenClasses DEF Summarized, Splits
  <2>7. \A class \in K : NothingLost(archive, R, class)
    BY <2>4, NothingIsLost
  <2> QED BY <2>1, <2>5, <2>6, <2>7
<1>5. ASSUME K # {}, Cardinality(K) \in MinClasses .. MaxClasses PROVE kept # {}
  <2>1. Accepts(R)
    BY <1>5, RewrittenAccepted
  <2>2. \A files : Accepts(files) => files # {}
    BY DEF Accepts, ClassesIn, Counted
  <2> QED BY <1>2, <2>1, <2>2
<1> HIDE DEF R
<1> QED BY <1>3, <1>4, <1>5 DEF StoredIsUsable

-----------------------------------------------------------------------------
(* The instance TLC checks.  A step of another part leaves this one alone. *)
LEMMA PoolIsArchive ==
  ASSUME NEW files \in Archived PROVE IsArchive(files)
<1>1. FilePool \subseteq Files
  <2>1. {"train", "test", "a", "b", "w", "val", "pred", "litter", NoLabel} \subseteq Words
    BY DEF Words, Splits
  <2>2. /\ <<>> \in Seq(Words) /\ <<"train">> \in Seq(Words) /\ <<"val">> \in Seq(Words)
        /\ <<"litter">> \in Seq(Words) /\ <<"train", "a">> \in Seq(Words)
        /\ <<"train", "b">> \in Seq(Words) /\ <<"test", "a">> \in Seq(Words)
        /\ <<"test", "b">> \in Seq(Words) /\ <<"w", "train", "a">> \in Seq(Words)
        /\ <<"w", "test", "a">> \in Seq(Words) /\ <<"train", "pred", "a">> \in Seq(Words)
        /\ <<"train", "test", "b">> \in Seq(Words)
    BY <2>1
  <2>3. \A dirs \in Seq(Words), n \in Nat, label \in Words, kind \in Kinds :
          File(dirs, n, label, kind) \in Files
    BY DEF File, Files
  <2>4. {NoLabel, "a"} \subseteq Words /\ {"image", "gif", "other", "litter"} = Kinds
    BY <2>1 DEF Kinds
  <2>5. \A n \in Nat :
          /\ File(<<"train", "a">>, n, NoLabel, "image") \in Files
          /\ File(<<"train", "b">>, n, NoLabel, "image") \in Files
    BY <2>2, <2>3, <2>4
  <2>6. /\ File(<<"test", "a">>, 5, NoLabel, "image") \in Files
        /\ File(<<"test", "b">>, 6, NoLabel, "image") \in Files
        /\ File(<<"w", "train", "a">>, 7, NoLabel, "image") \in Files
        /\ File(<<"w", "test", "a">>, 8, NoLabel, "image") \in Files
        /\ File(<<"val">>, 9, "a", "image") \in Files
        /\ File(<<"train", "b">>, 10, NoLabel, "gif") \in Files
    BY <2>2, <2>3, <2>4
  <2>7. /\ File(<<"train", "a">>, 11, NoLabel, "other") \in Files
        /\ File(<<"train", "pred", "a">>, 12, NoLabel, "image") \in Files
        /\ File(<<>>, 13, NoLabel, "other") \in Files
        /\ File(<<"train", "test", "b">>, 14, NoLabel, "image") \in Files
        /\ File(<<"train">>, 15, "a", "image") \in Files
        /\ File(<<"litter">>, 16, NoLabel, "litter") \in Files
    BY <2>2, <2>3, <2>4
  <2>8. \A f \in FilePool : f \in Files
    BY <2>5, <2>6, <2>7, ZenonT(30) DEF FilePool
  <2> QED BY <2>8
<1>2. \A f, g \in FilePool : f.number = g.number => f = g
  BY DEF FilePool, File
<1>3. \A f \in FilePool : f.number \in 1 .. 16
  BY DEF FilePool, File
<1>4. IsFiniteSet(FilePool)
  <2> DEFINE N == {f.number : f \in FilePool}
             at == [n \in N |-> CHOOSE f \in FilePool : f.number = n]
  <2>1. IsFiniteSet(N)
    <3>1. N \subseteq 1 .. 16
      BY <1>3
    <3>2. IsFiniteSet(1 .. 16)
      <4>1. ASSUME NEW n \in Nat PROVE IsFiniteSet(1 .. n)
        BY FS_Interval
      <4> QED BY <4>1
    <3> HIDE DEF N
    <3> QED BY <3>1, <3>2, FS_Subset
  <2>2. \A f \in FilePool : f.number \in N /\ at[f.number] = f
    BY <1>2
  <2>3. \A n \in N : at[n] \in FilePool
    BY <2>2
  <2>4. at \in Surjection(N, FilePool)
    <3> HIDE DEF N
    <3> QED BY <2>2, <2>3 DEF Surjection
  <2> HIDE DEF N, at
  <2> QED BY <2>1, <2>4, FS_Surjection
<1>5. files \subseteq FilePool
  BY DEF Archived, kSubset
<1> QED BY <1>1, <1>2, <1>4, <1>5, FS_Subset DEF IsArchive

ArchiveInv ==
  /\ IsArchive(archive)
  /\ kept = IF prepared THEN PrepareArchive(archive) ELSE {}

(* An archive that is stored is one the trainer can load, rearranged ones  *)
(* lose and double nothing, and none that can be rearranged is refused     *)
(* (_validate_and_store, plan_normalization, _build_custom_datasets).      *)
THEOREM StoredArchivesAreUsable == Spec => []StoredIsUsable
<1>1. Init => ArchiveInv
  <2> SUFFICES ASSUME Init PROVE ArchiveInv
    OBVIOUS
  <2>1. archive \in Archived \/ archive = {}
    BY DEF Init
  <2>2. IsArchive({})
    BY FS_EmptySet DEF IsArchive
  <2> QED BY <2>1, <2>2, PoolIsArchive DEF Init, ArchiveInv
<1>2. ArchiveInv /\ [Next]_vars => ArchiveInv'
  <2> SUFFICES ASSUME ArchiveInv, [Next]_vars PROVE ArchiveInv'
    OBVIOUS
  <2>1. CASE Prepare
    BY <2>1 DEF Prepare, ArchiveInv
  <2>2. CASE UNCHANGED pureVars
    BY <2>2 DEF pureVars, ArchiveInv
  <2> QED BY <2>1, <2>2 DEF Next, vars
<1>3. ArchiveInv => StoredIsUsable
  <2>1. CASE prepared
    BY <2>1, AnyArchiveIsUsable DEF ArchiveInv
  <2>2. ASSUME ArchiveInv, ~prepared PROVE StoredIsUsable
    BY <2>2 DEF ArchiveInv, StoredIsUsable
  <2> QED BY <2>1, <2>2
<1> QED BY <1>1, <1>2, <1>3, PTL DEF Spec

(* The ranks of a cohort run as many steps as each other and as they count *)
(* on, and leave out no example (DeviceBatches).                           *)
THEOREM RanksKeepStep == Spec => []RanksStayInStep
<1> DEFINE EpochInv == epoch \in Epochal
<1>1. Init => EpochInv
  <2>1. NoEpoch \in Epochal
    <3>1. <<1>> \in [1 .. 1 -> 1 .. 1] /\ IsInjective(<<1>>)
      BY DEF IsInjective
    <3>2. <<1>> \in Shuffles
      BY <3>1 DEF Shuffles
    <3> QED BY <3>2 DEF NoEpoch, Epochal
  <2> QED BY <2>1 DEF Init
<1>2. EpochInv /\ [Next]_vars => EpochInv'
  BY DEF Next, vars, pureVars, Prepare
<1>3. EpochInv => RanksStayInStep
  <2> SUFFICES ASSUME epoch \in Epochal PROVE RanksStayInStep
    OBVIOUS
  <2> DEFINE order == epoch.order
             world == epoch.world
             size == epoch.size
             n == Len(order)
  <2>1. order \in Shuffles /\ world \in Nat \ {0} /\ size \in Nat \ {0}
    BY DEF Epochal
  <2> HIDE DEF order, world, size
  <2>2. IsShuffle(order, n)
    <3>1. PICK k \in 1 .. 4 : order \in [1 .. k -> 1 .. k] /\ IsInjective(order)
      BY <2>1 DEF Shuffles
    <3>2. n = k
      BY <3>1
    <3> QED BY <3>1, <3>2 DEF IsShuffle
  <2>3. world <= 2 * n =>
          /\ \A r \in 0 .. world - 1 :
               Len(Batches(Shard(order, r, world), size)) = BatchCount(n, world, size)
          /\ UNION {Trained(order, r, world, size) : r \in 0 .. world - 1} = 1 .. n
    <3> HIDE DEF n
    <3> QED BY <2>1, <2>2, EpochsAreShared
  <2> QED BY <2>3 DEF RanksStayInStep, order, world, size
<1> QED BY <1>1, <1>2, <1>3, PTL DEF Spec

(* A node is declared failed neither before the floor nor for a pause it   *)
(* may take, and in the end it is (evaluate_suspicion).                    *)
THEOREM VerdictsAreTimely == Spec => []VerdictIsTimely
<1>1. Init => HeartInv
  <2>1. <<>> \in Seq(Nat)
    OBVIOUS
  <2> QED BY <2>1 DEF Init, SuspicionInit, HeartInv
<1>2. HeartInv /\ [Next]_vars => HeartInv'
  <2> SUFFICES ASSUME HeartInv, [Next]_vars PROVE HeartInv'
    OBVIOUS
  <2>1. SuspicionNext \/ UNCHANGED heartVars
    BY DEF Next, vars
  <2> QED BY <2>1, StepKeepsHeart
<1>3. HeartInv => VerdictIsTimely
  BY HeartVerdict DEF VerdictIsTimely
<1> QED BY <1>1, <1>2, <1>3, PTL DEF Spec
=============================================================================
