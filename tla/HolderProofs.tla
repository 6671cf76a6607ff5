---------------------------- MODULE HolderProofs ----------------------------
(***************************************************************************)
(* Holder implements IndexPool, for any number of tasks and indices.       *)
(*                                                                         *)
(* The invariant HolderInv ties the word to the owners.  A successful      *)
(* compare-exchange sees the word it has looked at, in which its bit is    *)
(* zero; by the invariant nobody owns the index.  That the word may have   *)
(* changed and changed back in between does not matter.                    *)
(***************************************************************************)
EXTENDS Holder, TLAPS

(* The initial state: no bit is set and no task owns an index.             *)
LEMMA InitHolderInv == Init => HolderInv
  BY HolderAssumption DEF Init, HolderInv, TypeOK, BitsAreOwned, Exclusive,
     Owning, PCs, Indices

(* The steps of a task that neither set nor clear a bit, and that leave    *)
(* its being an owner and its index as an owner alone.                     *)
LEMMA QuietStep ==
  ASSUME HolderInv, TypeOK', UNCHANGED bits,
         \A u \in Tasks : (pc[u] \in Owning) <=> (pc'[u] \in Owning),
         \A u \in Tasks : pc[u] \in Owning => index'[u] = index[u]
  PROVE  HolderInv'
<1>1. BitsAreOwned'
  BY DEF HolderInv, BitsAreOwned
<1>2. Exclusive'
  BY DEF HolderInv, Exclusive
<1> QED
  BY <1>1, <1>2 DEF HolderInv

(* Every step preserves the types.                                         *)
LEMMA TypeStep ==
  ASSUME TypeOK, Next
  PROVE  TypeOK'
<1> USE HolderAssumption DEF TypeOK, Goto, PCs, Indices
<1>1. PICK t \in Tasks : Step(t) \/ LockHolder(t) \/ Cancel(t)
  BY DEF Next
<1>2. CASE LockHolder(t)
  BY <1>2 DEF LockHolder
<1>3. CASE Cancel(t)
  BY <1>3 DEF Cancel
<1>4. CASE Load(t)
  BY <1>4 DEF Load
<1>5. CASE SkipTaken(t)
  BY <1>5 DEF SkipTaken
<1>6. CASE TakeIndex(t)
  BY <1>6 DEF TakeIndex
<1>7. CASE LoseRace(t)
  BY <1>7 DEF LoseRace
<1>8. CASE Exhausted(t)
  BY <1>8 DEF Exhausted
<1>9. CASE Resume(t)
  BY <1>9 DEF Resume
<1>10. CASE BeginDrop(t)
  BY <1>10 DEF BeginDrop
<1>11. CASE DropLoad(t)
  BY <1>11 DEF DropLoad
<1>12. CASE FreeIndex(t)
  BY <1>12 DEF FreeIndex
<1>13. CASE FreeIndexFails(t)
  BY <1>13 DEF FreeIndexFails
<1> QED
  BY <1>1, <1>2, <1>3, <1>4, <1>5, <1>6, <1>7, <1>8, <1>9, <1>10, <1>11,
     <1>12, <1>13 DEF Step

(* Every step preserves the invariant, and is a step of the pool or leaves *)
(* the owners alone.                                                       *)
LEMMA HolderStep ==
  ASSUME HolderInv, Next
  PROVE  HolderInv' /\ (Pool!Next \/ UNCHANGED owner)
<1>t. TypeOK /\ TypeOK'
  BY TypeStep DEF HolderInv
<1>1. PICK t \in Tasks : Step(t) \/ LockHolder(t) \/ Cancel(t)
  BY DEF Next
<1>2. CASE \/ LockHolder(t) \/ Cancel(t) \/ Load(t) \/ SkipTaken(t) \/ LoseRace(t)
           \/ Exhausted(t) \/ Resume(t) \/ BeginDrop(t) \/ FreeIndexFails(t)
  <2>1. /\ UNCHANGED bits
        /\ \A u \in Tasks : (pc[u] \in Owning) <=> (pc'[u] \in Owning)
        /\ \A u \in Tasks : pc[u] \in Owning => index'[u] = index[u]
    BY <1>2, <1>t DEF LockHolder, Cancel, Load, SkipTaken, LoseRace, Exhausted,
       Resume, BeginDrop, FreeIndexFails, Goto, Owning, TypeOK
  <2>2. UNCHANGED owner
    BY <2>1 DEF owner
  <2> QED
    BY <2>1, <2>2, <1>t, QuietStep
<1>3. CASE DropLoad(t)
  <2>1. index[t] \in bits
    BY <1>3 DEF DropLoad, HolderInv, BitsAreOwned, Owning
  <2>2. /\ UNCHANGED bits
        /\ \A u \in Tasks : (pc[u] \in Owning) <=> (pc'[u] \in Owning)
        /\ \A u \in Tasks : pc[u] \in Owning => index'[u] = index[u]
    BY <1>3, <1>t, <2>1 DEF DropLoad, Goto, Owning, TypeOK
  <2>3. UNCHANGED owner
    BY <2>2 DEF owner
  <2> QED
    BY <2>2, <2>3, <1>t, QuietStep
<1>4. CASE TakeIndex(t)
  <2>1. index[t] \in Indices /\ pc[t] \notin Owning /\ index' = index
    BY <1>4, <1>t, HolderAssumption DEF TakeIndex, Owning, TypeOK, Indices
  <2>2. \A u \in Tasks : pc[u] \in Owning => index[u] # index[t]
    BY <1>4 DEF TakeIndex, HolderInv, BitsAreOwned
  <2>3. \A u \in Tasks : (pc'[u] \in Owning) <=> (pc[u] \in Owning \/ u = t)
    BY <1>4, <1>t DEF TakeIndex, Goto, Owning, TypeOK
  <2>4. bits' = bits \cup {index[t]}
    BY <1>4 DEF TakeIndex
  <2>5. BitsAreOwned'
    BY <2>1, <2>3, <2>4 DEF HolderInv, BitsAreOwned
  <2>6. Exclusive'
    BY <2>1, <2>2, <2>3 DEF HolderInv, Exclusive
  <2>7. HolderInv'
    BY <1>t, <2>1, <2>3, <2>5, <2>6 DEF HolderInv
  <2>8. \A u \in Tasks : owner[u] # index[t]
    BY <2>1, <2>2, HolderAssumption DEF owner, Indices
  <2>9. owner[t] = N /\ owner' = [owner EXCEPT ![t] = index[t]]
    BY <2>1, <2>3 DEF owner
  <2> QED
    BY <2>1, <2>7, <2>8, <2>9 DEF Pool!Next, Pool!Acquire, Indices
<1>5. CASE FreeIndex(t)
  <2>1. index[t] \in Indices /\ pc[t] \in Owning /\ index' = index
    BY <1>5 DEF FreeIndex, Owning, HolderInv
  <2>2. \A u \in Tasks : (pc'[u] \in Owning) <=> (pc[u] \in Owning /\ u # t)
    BY <1>5, <1>t DEF FreeIndex, Goto, Owning, TypeOK
  <2>3. bits' = bits \ {index[t]}
    BY <1>5 DEF FreeIndex
  <2>4. \A u \in Tasks : pc[u] \in Owning /\ u # t => index[u] # index[t]
    BY <2>1 DEF HolderInv, Exclusive
  <2>5. BitsAreOwned'
    BY <2>1, <2>2, <2>3, <2>4 DEF HolderInv, BitsAreOwned
  <2>6. Exclusive'
    BY <2>1, <2>2 DEF HolderInv, Exclusive
  <2>7. HolderInv'
    BY <1>t, <2>1, <2>2, <2>5, <2>6 DEF HolderInv
  <2>8. owner[t] # N
    BY <2>1, HolderAssumption DEF owner, Indices
  <2>9. owner' = [owner EXCEPT ![t] = N]
    BY <2>1, <2>2 DEF owner
  <2> QED
    BY <2>7, <2>8, <2>9 DEF Pool!Next, Pool!Release
<1> QED
  BY <1>1, <1>2, <1>3, <1>4, <1>5 DEF Step

(* A stuttering step preserves the invariant and leaves the owners alone.  *)
LEMMA HolderStutter ==
  ASSUME HolderInv, UNCHANGED vars
  PROVE  HolderInv' /\ UNCHANGED owner
  BY DEF HolderInv, vars, TypeOK, BitsAreOwned, Exclusive, owner

(* In every reachable state the word has a one bit exactly for the indices *)
(* in use, and no two tasks use the same one.                              *)
THEOREM HolderInvariant == Spec => []HolderInv
<1>1. HolderInv /\ [Next]_vars => HolderInv'
  BY HolderStep, HolderStutter
<1> QED
  BY InitHolderInv, <1>1, PTL DEF Spec

(* Types of Holder, for any number of tasks and indices.                   *)
THEOREM HolderTypeCorrect == Spec => []TypeOK
<1>1. HolderInv => TypeOK
  BY DEF HolderInv
<1> QED
  BY HolderInvariant, <1>1, PTL

(* drop and try_new together never leak an index nor free one in use.      *)
THEOREM BitsAreOwnedCorrect == Spec => []BitsAreOwned
<1>1. HolderInv => BitsAreOwned
  BY DEF HolderInv
<1> QED
  BY HolderInvariant, <1>1, PTL

(* The lock-free holder implements the pool of indices.                    *)
THEOREM HolderImplementsPool == Spec => ImplementsPool
<1>1. Init => Pool!Init
  BY DEF Init, owner, Owning, Pool!Init
<1>2. HolderInv /\ [Next]_vars => [Pool!Next]_owner
  BY HolderStep, HolderStutter
<1> QED
  BY HolderInvariant, <1>1, <1>2, PTL DEF Spec, ImplementsPool, Pool!Spec
=============================================================================
