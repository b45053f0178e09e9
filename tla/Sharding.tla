------------------------------ MODULE Sharding ------------------------------
(***************************************************************************)
(* How the ranks of a cohort share the training set: DeviceBatches and     *)
(* HostBatches of the trainer.  Every rank shuffles for itself, seeded     *)
(* alike, and takes every world_size-th index.                             *)
(***************************************************************************)
EXTENDS Naturals, Sequences, SequencesExt

CeilDiv(a, b) == (a + b - 1) \div b

(* A slice that reaches past the end stops there. *)
UpTo(order, count) == SubSeq(order, 1, IF count < Len(order) THEN count ELSE Len(order))

Unpadded(order, world) == order                                          \* mutant
Padded(order, world) ==
  order \o UpTo(order, CeilDiv(Len(order), world) * world - Len(order))

(* order[rank :: world_size] *)
Shard(order, rank, world) ==
  LET padded == Padded(order, world)
  IN [i \in 1 .. CeilDiv(Len(padded) - rank, world) |-> padded[rank + (i - 1) * world + 1]]

(* The batches an epoch runs: order[start : start + batch_size]. *)
Batches(shard, size) ==
  [b \in 1 .. CeilDiv(Len(shard), size) |->
     SubSeq(shard, (b - 1) * size + 1, IF b * size < Len(shard) THEN b * size ELSE Len(shard))]

(* __len__, which says when a checkpoint or a synchronisation is due. *)
BatchCount(n, world, size) == CeilDiv(CeilDiv(n, world), size)

(* The indices a rank trains on in an epoch. *)
Trained(order, rank, world, size) ==
  UNION {ToSet(Batches(Shard(order, rank, world), size)[b]) :
           b \in DOMAIN Batches(Shard(order, rank, world), size)}
=============================================================================
