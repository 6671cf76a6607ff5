------------------------------- MODULE Holder -------------------------------
(***************************************************************************)
(* Holder and HolderFactory: indices handed out from one shared AtomicU64. *)
(* A task loads the word, looks for a zero bit and sets it with a          *)
(* compare-exchange; dropping the holder clears the bit with a weak        *)
(* compare-exchange in a loop.  The word is modelled by the set of the     *)
(* positions of its one bits.                                              *)
(*                                                                         *)
(* Every access to the word is a step.  The orderings the code asks for    *)
(* (Acquire, Release, Relaxed) do not matter: there is one location only,  *)
(* and its modifications are totally ordered.                              *)
(***************************************************************************)
EXTENDS Naturals, FiniteSets

CONSTANTS
  Tasks,     \* the tasks that lock a holder
  N,         \* number of indices (64 in Holder::try_new)
  MaxUses    \* bound on the holders one task locks

ASSUME HolderAssumption ==
  /\ N \in Nat \ {0}
  /\ MaxUses \in Nat

VARIABLES
  bits,     \* atomic_bitset
  pc,
  bitset,   \* bitset of try_new, current of drop: the word the task last read
  index,    \* index of the loop of try_new, then of the holder
  uses

vars == <<bits, pc, bitset, index, uses>>

Indices == 0 .. (N - 1)

PCs == {"idle", "load", "scan", "yield", "held", "drop", "drop_cas"}
Owning == {"held", "drop", "drop_cas"}

TypeOK ==
  /\ bits \subseteq Indices
  /\ pc \in [Tasks -> PCs]
  /\ bitset \in [Tasks -> SUBSET Indices]
  /\ index \in [Tasks -> 0 .. N]
  /\ uses \in [Tasks -> 0 .. MaxUses]

Init ==
  /\ bits = {}
  /\ pc = [t \in Tasks |-> "idle"]
  /\ bitset = [t \in Tasks |-> {}]
  /\ index = [t \in Tasks |-> 0]
  /\ uses = [t \in Tasks |-> 0]

Goto(t, label) == pc' = [pc EXCEPT ![t] = label]

(* lock_holder is called.                                                  *)
LockHolder(t) ==
  /\ pc[t] = "idle" /\ uses[t] < MaxUses
  /\ uses' = [uses EXCEPT ![t] = @ + 1]
  /\ Goto(t, "load")
  /\ UNCHANGED <<bits, bitset, index>>

(* The load at the start of try_new.                                       *)
Load(t) ==
  /\ pc[t] = "load"
  /\ bitset' = [bitset EXCEPT ![t] = bits]
  /\ index' = [index EXCEPT ![t] = 0]
  /\ Goto(t, "scan")
  /\ UNCHANGED <<bits, uses>>

SkipTaken(t) ==
  /\ pc[t] = "scan" /\ index[t] < N /\ index[t] \in bitset[t]
  /\ index' = [index EXCEPT ![t] = @ + 1]
  /\ UNCHANGED <<bits, pc, bitset, uses>>

(* Mutant of TakeIndex: the bit is set by a store.                         *)
TakeIndexByStore(t) ==
  /\ pc[t] = "scan" /\ index[t] < N /\ index[t] \notin bitset[t]
  /\ bits' = bitset[t] \cup {index[t]}
  /\ Goto(t, "held")
  /\ UNCHANGED <<bitset, index, uses>>

(* compare_exchange succeeds ...                                           *)
TakeIndex(t) ==
  /\ pc[t] = "scan" /\ index[t] < N /\ index[t] \notin bitset[t]
  /\ bits = bitset[t]
  /\ bits' = bitset[t] \cup {index[t]}
  /\ Goto(t, "held")
  /\ UNCHANGED <<bitset, index, uses>>

(* ... or fails: the word is read again and the loop goes on with the next *)
(* index, never with the ones it has passed.                               *)
LoseRace(t) ==
  /\ pc[t] = "scan" /\ index[t] < N /\ index[t] \notin bitset[t]
  /\ bits # bitset[t]
  /\ bitset' = [bitset EXCEPT ![t] = bits]
  /\ index' = [index EXCEPT ![t] = @ + 1]
  /\ UNCHANGED <<bits, pc, uses>>

(* Mutant of Exhausted: the loop runs one index too far.                   *)
ExhaustedLate(t) ==
  /\ pc[t] = "scan" /\ index[t] = N
  /\ index' = [index EXCEPT ![t] = @ + 1]
  /\ Goto(t, "yield")
  /\ UNCHANGED <<bits, bitset, uses>>

(* try_new returns None and new yields.                                    *)
Exhausted(t) ==
  /\ pc[t] = "scan" /\ index[t] = N
  /\ Goto(t, "yield")
  /\ UNCHANGED <<bits, bitset, index, uses>>

(* Mutant of Resume: the word is not loaded again.                         *)
ResumeStale(t) ==
  /\ pc[t] = "yield"
  /\ index' = [index EXCEPT ![t] = 0]
  /\ Goto(t, "scan")
  /\ UNCHANGED <<bits, bitset, uses>>

Resume(t) ==
  /\ pc[t] = "yield"
  /\ Goto(t, "load")
  /\ UNCHANGED <<bits, bitset, index, uses>>

(* The future is dropped at its only await, for example by a timeout.      *)
Cancel(t) ==
  /\ pc[t] = "yield"
  /\ Goto(t, "idle")
  /\ UNCHANGED <<bits, bitset, index, uses>>

BeginDrop(t) ==
  /\ pc[t] = "held"
  /\ Goto(t, "drop")
  /\ UNCHANGED <<bits, bitset, index, uses>>

(* The load of drop, which returns when the bit is clear already.          *)
DropLoad(t) ==
  /\ pc[t] = "drop"
  /\ bitset' = [bitset EXCEPT ![t] = bits]
  /\ Goto(t, IF index[t] \in bits THEN "drop_cas" ELSE "idle")
  /\ UNCHANGED <<bits, index, uses>>

(* Mutant of FreeIndexFails: drop gives up.                                *)
FreeIndexGivesUp(t) ==
  /\ pc[t] = "drop_cas"
  /\ Goto(t, "idle")
  /\ UNCHANGED <<bits, bitset, index, uses>>

FreeIndex(t) ==
  /\ pc[t] = "drop_cas"
  /\ bits = bitset[t]
  /\ bits' = bitset[t] \ {index[t]}
  /\ Goto(t, "idle")
  /\ UNCHANGED <<bitset, index, uses>>

(* compare_exchange_weak may fail although the word has not changed.       *)
FreeIndexFails(t) ==
  /\ pc[t] = "drop_cas"
  /\ Goto(t, "drop")
  /\ UNCHANGED <<bits, bitset, index, uses>>

Step(t) ==
  \/ Load(t) \/ SkipTaken(t) \/ TakeIndex(t) \/ LoseRace(t)
  \/ Exhausted(t) \/ Resume(t)
  \/ BeginDrop(t) \/ DropLoad(t) \/ FreeIndex(t) \/ FreeIndexFails(t)

Next == \E t \in Tasks : Step(t) \/ LockHolder(t) \/ Cancel(t)

Spec == Init /\ [][Next]_vars

(* A task is polled until it is done, its owner drops a holder in the end, *)
(* and a weak compare-exchange does not fail spuriously for ever.          *)
FairSpec ==
  /\ Spec
  /\ \A t \in Tasks : WF_vars(Step(t)) /\ SF_vars(FreeIndex(t))

-----------------------------------------------------------------------------

(* The word has a one bit exactly for the indices that have an owner: no   *)
(* index is leaked by a race of drops and locks, and none is free while it *)
(* is in use.                                                              *)
BitsAreOwned == bits = {index[t] : t \in {u \in Tasks : pc[u] \in Owning}}

(* The lock-free word implements the pool: taking the bit is the           *)
(* acquisition, clearing it the release, and everything else a stutter.    *)
owner == [t \in Tasks |-> IF pc[t] \in Owning THEN index[t] ELSE N]
Pool == INSTANCE IndexPool
          WITH Tasks <- Tasks, Indices <- Indices, NoIndex <- N, owner <- owner
ImplementsPool == Pool!Spec

(* A task that waits for a holder gets one (or is cancelled): a None that  *)
(* try_new returns because of a lost race is never the last word.          *)
EveryRequestServed ==
  \A t \in Tasks : pc[t] \in {"load", "scan", "yield"} ~> pc[t] \in {"held", "idle"}

-----------------------------------------------------------------------------
(* The inductive invariant behind ImplementsPool; HolderProofs shows that  *)
(* it is inductive.                                                        *)

(* No index has two owners.                                                *)
Exclusive ==
  \A t, u \in Tasks :
    pc[t] \in Owning /\ pc[u] \in Owning /\ index[t] = index[u] => t = u

HolderInv ==
  /\ TypeOK
  /\ BitsAreOwned
  /\ Exclusive
  /\ \A t \in Tasks : pc[t] \in Owning => index[t] \in Indices
=============================================================================
