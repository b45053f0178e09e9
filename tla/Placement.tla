------------------------------ MODULE Placement -----------------------------
(***************************************************************************)
(* How long an adaptive job waits for a faster machine that is busy.       *)
(*                                                                         *)
(* Leases takes every choice of a pass as possible.  Here a pass chooses   *)
(* as the code does, from run times it has measured, while jobs run on for *)
(* longer than they did before, or for ever.                               *)
(***************************************************************************)
EXTENDS Integers, Sequences, FiniteSets, FiniteSetsExt, SequencesExt

CONSTANTS
  Machines,    \* machines, all healthy
  Queue,       \* jobs in the order they were submitted
  Epochs,      \* epochs of a job
  World,       \* machines a job needs
  Capable,     \* machines with the GPU memory a job asks for
  Defers,      \* jobs of a scheduler that plans completion times
  Rate,        \* seconds an epoch takes on a machine, once measured
  Site,        \* the public address a machine is seen at, or Nowhere
  Nowhere,
  MaxElapsed,  \* bound on the seconds a run is followed for
  Nobody       \* no job

ASSUME PlacementAssumption ==
  /\ IsInjective(Queue) /\ MaxElapsed \in Nat
  /\ Epochs \in [ToSet(Queue) -> Nat \ {0}] /\ World \in [ToSet(Queue) -> Nat \ {0}]
  /\ Capable \in [ToSet(Queue) -> SUBSET Machines] /\ Defers \subseteq ToSet(Queue)
  /\ Rate \in [Machines -> Nat \ {0}] /\ Nobody \notin ToSet(Queue)

VARIABLES
  waiting,   \* jobs submitted and not placed
  served,    \* jobs that have been placed
  running,   \* the job a machine runs
  elapsed,   \* seconds since its lease was granted
  measured   \* machines that have completed a run of one machine

placeVars == <<waiting, served, running, elapsed, measured>>

PlacementTypeOK ==
  /\ waiting \subseteq ToSet(Queue) /\ served \subseteq ToSet(Queue)
  /\ running \in [Machines -> ToSet(Queue) \cup {Nobody}]
  /\ elapsed \in [Machines -> 0 .. MaxElapsed] /\ measured \subseteq Machines

PlacementInit ==
  /\ waiting = {} /\ served = {} /\ measured \in {{}, Machines}
  /\ running = [n \in Machines |-> Nobody] /\ elapsed = [n \in Machines |-> 0]

Submit(j) ==
  /\ j \notin waiting \cup served
  /\ waiting' = waiting \cup {j}
  /\ UNCHANGED <<served, running, elapsed, measured>>

Idle == {n \in Machines : running[n] = Nobody}

Tick ==
  /\ \E n \in Machines \ Idle : elapsed[n] < MaxElapsed
  /\ elapsed' = [n \in Machines |->
       IF n \in Idle \/ elapsed[n] = MaxElapsed THEN elapsed[n] ELSE elapsed[n] + 1]
  /\ UNCHANGED <<waiting, served, running, measured>>

(* A job ends on all its machines.  Runs of several are not measured. *)
Completes(j) ==
  /\ \E n \in Machines : running[n] = j
  /\ running' = [n \in Machines |-> IF running[n] = j THEN Nobody ELSE running[n]]
  /\ elapsed' = [n \in Machines |-> IF running[n] = j THEN 0 ELSE elapsed[n]]
  /\ measured' = measured \cup {n \in Machines : running[n] = j /\ World[j] = 1}
  /\ UNCHANGED <<waiting, served>>

-----------------------------------------------------------------------------
RunTime(j, n) == Rate[n] * Epochs[j]

DueNow(total, spent) == IF spent <= total THEN total - spent ELSE 0      \* mutant

(* Overrun by X, assume X more. *)
Remaining(total, spent) == IF spent <= total THEN total - spent ELSE spent - total

(* A busy machine counts whether or not the waiting job fits on it. *)
BusyFreeIn ==
  [n \in {b \in Machines \ Idle : b \in measured /\ World[running[b]] = 1} |->
     Remaining(RunTime(running[n], n), elapsed[n])]

Eligible(j, taken) == (Idle \cap Capable[j]) \ taken

(* The machines on which a wait ends sooner than the best run at once.     *)
(* Only where every idle machine is measured: others are to be tried.      *)
DeferTo(j, idle, freeIn) ==
  IF j \notin Defers \/ World[j] # 1 \/ idle = {} \/ ~(idle \subseteq measured) THEN {}
  ELSE LET finish(n) == freeIn[n] + RunTime(j, n)
           waits == DOMAIN freeIn \cap measured
       IN {n \in waits : /\ \A o \in waits : finish(n) <= finish(o)
                         /\ \A o \in idle : finish(n) < RunTime(j, o)}

(* Machines can reach each other behind one address.  Of several groups    *)
(* that one is taken which is complete first in the scheduler's order.     *)
SameNetwork(ordered, size) ==
  LET group(i) == SelectSeq(SubSeq(ordered, 1, i), LAMBDA n : size = 1 \/ Site[n] = Site[ordered[i]])
      complete == {i \in DOMAIN ordered :
                     Len(group(i)) = size /\ (size = 1 \/ Site[ordered[i]] # Nowhere)}
  IN IF complete = {} THEN {} ELSE ToSet(group(Min(complete)))

Chosen(j, idle, ranking) ==
  IF Cardinality(idle) < World[j] THEN {}
  ELSE SameNetwork(SelectSeq(ranking, LAMBDA n : n \in idle), World[j])

Assigned(freeIn, j, chosen) ==
  [n \in DOMAIN freeIn \cup (IF World[j] = 1 THEN chosen \cap measured ELSE {}) |->
     IF n \in chosen THEN RunTime(j, n) ELSE freeIn[n]]

(* One job of the pass.  A job that defers makes its machine busier for    *)
(* the younger ones.                                                       *)
Considered(pass, j, ranking) ==
  LET taken == DOMAIN pass.placed
      idle == Eligible(j, taken)
      defer == DeferTo(j, idle, pass.freeIn)
      chosen == Chosen(j, idle, ranking)
  IN IF defer # {}
       THEN LET n == CHOOSE n \in defer : TRUE
            IN [pass EXCEPT !.freeIn[n] = @ + RunTime(j, n)]
       ELSE [placed |-> [n \in taken \cup chosen |-> IF n \in chosen THEN j ELSE pass.placed[n]],
             freeIn |-> Assigned(pass.freeIn, j, chosen)]

(* Oldest first.  The ranking of the candidates stands for the policies.   *)
RunSchedulerPass(ranking) ==
  LET jobs == SelectSeq(Queue, LAMBDA j : j \in waiting)
      pass == FoldLeft(LAMBDA acc, j : Considered(acc, j, ranking),
                       [placed |-> [n \in {} |-> Nobody], freeIn |-> BusyFreeIn], jobs)
      gone == {pass.placed[n] : n \in DOMAIN pass.placed}
  IN /\ gone # {}
     /\ running' = [n \in Machines |-> IF n \in DOMAIN pass.placed THEN pass.placed[n] ELSE running[n]]
     /\ waiting' = waiting \ gone /\ served' = served \cup gone
     /\ UNCHANGED <<elapsed, measured>>

Rankings == {r \in [1 .. Cardinality(Machines) -> Machines] : IsInjective(r)}

SchedulerPass == \E ranking \in Rankings : RunSchedulerPass(ranking)

PlacementNext ==
  \/ Tick \/ SchedulerPass
  \/ \E j \in ToSet(Queue) : Submit(j) \/ Completes(j)

-----------------------------------------------------------------------------
Placeable(j) ==
  LET idle == Eligible(j, {}) IN
  IF World[j] = 1 THEN idle # {}
  ELSE \E n \in idle : Site[n] # Nowhere /\ Cardinality({o \in idle : Site[o] = Site[n]}) >= World[j]

(* "A job past its estimate is not about to finish": no job waits for ever *)
(* for a better machine while enough that could run it stand idle and      *)
(* reach each other, even if the job over there never ends.                *)
NobodyWaitsForEver ==
  \A j \in ToSet(Queue) :
    ~<>[](j \in waiting /\ Placeable(j))
=============================================================================
