------------------------------ MODULE MCRomeTx ------------------------------
EXTENDS RomeTx, TLC

CONSTANTS c1, c2, c3

Job(api, chains, is_atomic, use_alt, use_holder, chunks) ==
  [api |-> api, chains |-> chains, is_atomic |-> is_atomic, use_alt |-> use_alt,
   use_holder |-> use_holder, chunks |-> chunks, iterations |-> 2]

(* Every shape with and without holder and table, with a transmission of   *)
(* one and two batches, and a composite that is not atomic.                *)
AllShapes ==
  {Job("rollup", <<c1>>, a, a, FALSE, 1) : a \in BOOLEAN}
    \cup {Job("rollup", <<c1>>, TRUE, l, TRUE, 3) : l \in BOOLEAN}
    \cup {Job("rollup", <<c1>>, FALSE, l, TRUE, 1) : l \in BOOLEAN}
    \cup {Job("svm", <<c1>>, FALSE, FALSE, FALSE, 1)}

(* Cross transactions of two rollups in both orders, of one rollup several *)
(* times, of an unknown rollup and one that is not atomic.                 *)
CrossJobs ==
  {Job("cross_rollup", s, TRUE, FALSE, FALSE, 1) :
     s \in {<<c1, c2>>, <<c2, c1>>, <<c1, c1, c1>>, <<c1, c3>>}}
    \cup {Job("cross_chain", <<c1, c1>>, a, FALSE, FALSE, 1) : a \in BOOLEAN}
    \cup {Job("rollup", <<c1>>, TRUE, FALSE, FALSE, 1)}

TaskSymmetry == Permutations(Tasks)
=============================================================================
