----------------------------- MODULE IndexPool -----------------------------
(***************************************************************************)
(* What a pool promises its users: an item has at most one owner at a      *)
(* time, any free item may be given to a user that owns none, and only its *)
(* owner gives it back.  Holder implements it on one atomic word, RomeTx   *)
(* with a stack of payers and holders under a mutex.                       *)
(***************************************************************************)

CONSTANTS
  Tasks,     \* the users of the pool
  Indices,   \* the items
  NoIndex    \* what a user owns that owns no item

VARIABLE owner   \* owner[t]: the item user t owns, NoIndex for none

Init == owner = [t \in Tasks |-> NoIndex]

Acquire(t, i) ==
  /\ owner[t] = NoIndex
  /\ \A u \in Tasks : owner[u] # i
  /\ owner' = [owner EXCEPT ![t] = i]

Release(t) ==
  /\ owner[t] # NoIndex
  /\ owner' = [owner EXCEPT ![t] = NoIndex]

Next == \E t \in Tasks : Release(t) \/ \E i \in Indices : Acquire(t, i)

Spec == Init /\ [][Next]_owner
=============================================================================
