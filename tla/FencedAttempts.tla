--------------------------- MODULE FencedAttempts ---------------------------
(***************************************************************************)
(* What the lease machinery promises to everything that trusts a lease:    *)
(* checkpoint writes, the training stream and the agents.  Each job has a  *)
(* fencing token and a set of nodes that hold it.  A job is granted to     *)
(* nodes only when nobody holds it any more, under the next token, and     *)
(* while a token lasts its holders only leave.  No node holds two jobs.    *)
(***************************************************************************)
EXTENDS Integers

CONSTANTS Jobs, Nodes

VARIABLES token, holders

Init ==
  /\ token = [j \in Jobs |-> 0]
  /\ holders = [j \in Jobs |-> {}]

Leave(j) == token'[j] = token[j] /\ holders'[j] \subseteq holders[j]

Grant(j) == holders[j] = {} /\ token'[j] = token[j] + 1 /\ holders'[j] \subseteq Nodes

Exclusive == \A i, j \in Jobs : i # j => holders[i] \cap holders[j] = {}

(* One transaction may grant or take back several jobs. *)
Next == Exclusive' /\ \A j \in Jobs : Leave(j) \/ Grant(j)

Spec == Init /\ [][Next]_<<token, holders>>
=============================================================================
