---------------------------- MODULE RomeTxProofs ----------------------------
(***************************************************************************)
(* The factories of RomeTx implement IndexPool, no resource is ever lost,  *)
(* a holder is whole when it is executed from, a lookup table is ready     *)
(* when it is used, a signature is returned only for an executed           *)
(* transaction, and the unwrap of send_and_confirm fails in the first call *)
(* only for one: for any number of tasks, rollups, resources and calls and *)
(* for any jobs.                                                           *)
(*                                                                         *)
(* The invariant has two parts.  PoolInv: the stacks have no duplicates,   *)
(* an item is in the stack of its rollup exactly when no task has it, and  *)
(* no two hands have the same one.  ControlInv: which of its two hands a   *)
(* task uses at each point, so that a task never overwrites a resource it  *)
(* still has, and has none when it is done.  TransactionInv, OkTask,       *)
(* TableTask and FirstTask add what the transaction of a task is at each   *)
(* point, and TableSeen what is true of its lookup table until a late      *)
(* transaction of another task arrives in the account.                     *)
(***************************************************************************)
EXTENDS RomeTx, SequenceTheorems, FiniteSetTheorems, TLAPS

Elems(s) == {s[k] : k \in 1 .. Len(s)}
Distinct(s) == \A j, k \in 1 .. Len(s) : s[j] = s[k] => j = k

PoolTypeOK ==
  /\ factory \in [Rollups -> Seq(Items)]
  /\ pc \in [Tasks -> PCs]
  /\ job \in [Tasks -> Jobs \cup {NoJob}]
  /\ resource \in [Tasks -> Resources \cup {NoResource}]
  /\ current \in [Tasks -> Resources \cup {NoResource}]

Held(r) == \E t \in Tasks : resource[t] = r \/ current[t] = r

(* An item is in one hand, or once in its stack.                           *)
PoolInv ==
  /\ \A c \in Rollups : Distinct(factory[c])
  /\ \A c \in Rollups, i \in Items : i \in Elems(factory[c]) <=> ~Held(<<c, i>>)
  /\ \A t, u \in Tasks, r \in Resources :
       /\ resource[t] = r /\ resource[u] = r => t = u
       /\ current[t] = r /\ current[u] = r => t = u
       /\ ~(resource[t] = r /\ current[u] = r)

Single(t) == job[t].api \in {"rollup", "svm"}

ControlInv ==
  \A t \in Tasks :
    /\ pc[t] \notin {"build", "unwind"} => current[t] = NoResource
    /\ pc[t] \in {"build", "return", "unwind"} => resource[t] # NoResource
    /\ pc[t] \in {"idle", "done"} => resource[t] = NoResource
    /\ Single(t) => current[t] = NoResource
    /\ Single(t) /\ pc[t] = "lock" => resource[t] = NoResource

RomeInv == PoolTypeOK /\ PoolInv /\ ControlInv

-----------------------------------------------------------------------------
(* Stacks.                                                                 *)

(* The pop of get takes the last item and no other from the stack.         *)
LEMMA PopStack ==
  ASSUME NEW S, NEW s \in Seq(S), s # <<>>, Distinct(s)
  PROVE  LET rest == SubSeq(s, 1, Len(s) - 1)
         IN  /\ rest \in Seq(S) /\ Distinct(rest)
             /\ s[Len(s)] \in S /\ s[Len(s)] \in Elems(s)
             /\ Elems(rest) = Elems(s) \ {s[Len(s)]}
<1> DEFINE rest == SubSeq(s, 1, Len(s) - 1)
<1>1. Len(s) \in Nat /\ Len(s) >= 1
  OBVIOUS
<1>2. rest \in Seq(S) /\ Len(rest) = Len(s) - 1 /\ \A k \in 1 .. Len(rest) : rest[k] = s[k]
  <2>1. \A i \in 1 .. (Len(s) - 1) : s[i] \in S
    BY <1>1
  <2> DEFINE n == Len(s) - 1
  <2>2. n \in Int /\ n >= 0
    BY <1>1
  <2> HIDE DEF n
  <2>3. /\ SubSeq(s, 1, n) \in Seq(S)
        /\ Len(SubSeq(s, 1, n)) = IF 1 <= n THEN n - 1 + 1 ELSE 0
        /\ \A i \in 1 .. (n - 1 + 1) : SubSeq(s, 1, n)[i] = s[1 + i - 1]
    BY <2>1, <2>2, SubSeqProperties DEF n
  <2>4. Len(SubSeq(s, 1, n)) = n
    BY <2>2, <2>3
  <2>5. \A k \in 1 .. n : SubSeq(s, 1, n)[k] = s[k]
    BY <2>2, <2>3
  <2> QED
    BY <2>3, <2>4, <2>5 DEF n
<1> HIDE DEF rest
<1>3. s[Len(s)] \in S /\ s[Len(s)] \in Elems(s)
  BY <1>1 DEF Elems
<1>4. Distinct(rest)
  BY <1>1, <1>2 DEF Distinct
<1>5. Elems(rest) = Elems(s) \ {s[Len(s)]}
  BY <1>1, <1>2 DEF Elems, Distinct
<1> QED
  BY <1>2, <1>3, <1>4, <1>5 DEF rest

(* The push of drop adds its item, which was not in the stack.             *)
LEMMA PushStack ==
  ASSUME NEW S, NEW s \in Seq(S), NEW e \in S, Distinct(s), e \notin Elems(s)
  PROVE  /\ Append(s, e) \in Seq(S) /\ Distinct(Append(s, e))
         /\ Elems(Append(s, e)) = Elems(s) \cup {e}
<1> DEFINE a == Append(s, e)
<1>1. Len(s) \in Nat
  OBVIOUS
<1>2. /\ a \in Seq(S) /\ Len(a) = Len(s) + 1 /\ a[Len(s) + 1] = e
      /\ \A k \in 1 .. Len(s) : a[k] = s[k]
  BY <1>1
<1> HIDE DEF a
<1>3. Distinct(a)
  BY <1>1, <1>2 DEF Distinct, Elems
<1>4. Elems(a) = Elems(s) \cup {e}
  BY <1>1, <1>2 DEF Elems
<1> QED
  BY <1>2, <1>3, <1>4 DEF a

(* A resource is not the mark for none.                                    *)
LEMMA ResourceIsOne == \A r \in Resources : r # NoResource
  BY DEF Resources, NoResource

-----------------------------------------------------------------------------
(* The steps that move a resource keep every item in one place.            *)

(* lock_resource for the first transaction of a composition.                 *)
LEMMA TakeFirst ==
  ASSUME PoolTypeOK, PoolInv, NEW t \in Tasks, NEW c \in Rollups, NEW r,
         Get(c, r), resource[t] = NoResource,
         resource' = [resource EXCEPT ![t] = r], UNCHANGED current
  PROVE  /\ r \in Resources /\ ~Held(r)
         /\ factory' \in [Rollups -> Seq(Items)]
         /\ PoolInv'
<1> DEFINE i == factory[c][Len(factory[c])]
<1>1. /\ factory[c] # <<>> /\ r = <<c, i>>
      /\ factory' = [factory EXCEPT ![c] = SubSeq(factory[c], 1, Len(factory[c]) - 1)]
  BY DEF Get
<1>2. factory[c] \in Seq(Items) /\ Distinct(factory[c])
  BY DEF PoolTypeOK, PoolInv
<1>3. /\ factory'[c] \in Seq(Items) /\ Distinct(factory'[c])
      /\ i \in Items /\ i \in Elems(factory[c])
      /\ Elems(factory'[c]) = Elems(factory[c]) \ {i}
  BY <1>1, <1>2, PopStack DEF PoolTypeOK
<1>4. \A d \in Rollups : d # c => factory'[d] = factory[d]
  BY <1>1 DEF PoolTypeOK
<1>5. factory' \in [Rollups -> Seq(Items)]
  BY <1>1, <1>3, <1>4 DEF PoolTypeOK
<1>6. r \in Resources /\ ~Held(r)
  BY <1>1, <1>3 DEF Resources, PoolInv
<1>7. \A q \in Resources : Held(q)' <=> Held(q) \/ q = r
  BY <1>6, ResourceIsOne DEF PoolTypeOK, Held
<1>8. ASSUME NEW d \in Rollups, NEW j \in Items
      PROVE  j \in Elems(factory'[d]) <=> ~Held(<<d, j>>)'
  <2>1. <<d, j>> \in Resources /\ (<<d, j>> = r <=> d = c /\ j = i)
    BY <1>1 DEF Resources
  <2>2. j \in Elems(factory[d]) <=> ~Held(<<d, j>>)
    BY DEF PoolInv
  <2> HIDE DEF i
  <2> QED
    BY <1>3, <1>4, <1>7, <2>1, <2>2
<1>9. ASSUME NEW u \in Tasks, NEW v \in Tasks, NEW q \in Resources
      PROVE  /\ resource'[u] = q /\ resource'[v] = q => u = v
             /\ current'[u] = q /\ current'[v] = q => u = v
             /\ ~(resource'[u] = q /\ current'[v] = q)
  BY <1>6 DEF PoolTypeOK, PoolInv, Held
<1>10. \A d \in Rollups : Distinct(factory'[d])
  BY <1>3, <1>4 DEF PoolInv
<1> QED
  BY <1>5, <1>6, <1>8, <1>9, <1>10 DEF PoolInv

(* lock_resource for a further transaction of a cross composition.          *)
LEMMA TakeCurrent ==
  ASSUME PoolTypeOK, PoolInv, NEW t \in Tasks, NEW c \in Rollups, NEW r,
         Get(c, r), current[t] = NoResource,
         current' = [current EXCEPT ![t] = r], UNCHANGED resource
  PROVE  /\ r \in Resources /\ ~Held(r)
         /\ factory' \in [Rollups -> Seq(Items)]
         /\ PoolInv'
<1> DEFINE i == factory[c][Len(factory[c])]
<1>1. /\ factory[c] # <<>> /\ r = <<c, i>>
      /\ factory' = [factory EXCEPT ![c] = SubSeq(factory[c], 1, Len(factory[c]) - 1)]
  BY DEF Get
<1>2. factory[c] \in Seq(Items) /\ Distinct(factory[c])
  BY DEF PoolTypeOK, PoolInv
<1>3. /\ factory'[c] \in Seq(Items) /\ Distinct(factory'[c])
      /\ i \in Items /\ i \in Elems(factory[c])
      /\ Elems(factory'[c]) = Elems(factory[c]) \ {i}
  BY <1>1, <1>2, PopStack DEF PoolTypeOK
<1>4. \A d \in Rollups : d # c => factory'[d] = factory[d]
  BY <1>1 DEF PoolTypeOK
<1>5. factory' \in [Rollups -> Seq(Items)]
  BY <1>1, <1>3, <1>4 DEF PoolTypeOK
<1>6. r \in Resources /\ ~Held(r)
  BY <1>1, <1>3 DEF Resources, PoolInv
<1>7. \A q \in Resources : Held(q)' <=> Held(q) \/ q = r
  BY <1>6, ResourceIsOne DEF PoolTypeOK, Held
<1>8. ASSUME NEW d \in Rollups, NEW j \in Items
      PROVE  j \in Elems(factory'[d]) <=> ~Held(<<d, j>>)'
  <2>1. <<d, j>> \in Resources /\ (<<d, j>> = r <=> d = c /\ j = i)
    BY <1>1 DEF Resources
  <2>2. j \in Elems(factory[d]) <=> ~Held(<<d, j>>)
    BY DEF PoolInv
  <2> HIDE DEF i
  <2> QED
    BY <1>3, <1>4, <1>7, <2>1, <2>2
<1>9. ASSUME NEW u \in Tasks, NEW v \in Tasks, NEW q \in Resources
      PROVE  /\ resource'[u] = q /\ resource'[v] = q => u = v
             /\ current'[u] = q /\ current'[v] = q => u = v
             /\ ~(resource'[u] = q /\ current'[v] = q)
  BY <1>6 DEF PoolTypeOK, PoolInv, Held
<1>10. \A d \in Rollups : Distinct(factory'[d])
  BY <1>3, <1>4 DEF PoolInv
<1> QED
  BY <1>5, <1>6, <1>8, <1>9, <1>10 DEF PoolInv

(* The drop of the resource of the composition or of the transaction.       *)
LEMMA GiveFirst ==
  ASSUME PoolTypeOK, PoolInv, NEW t \in Tasks, resource[t] # NoResource,
         GiveBack(resource[t]),
         resource' = [resource EXCEPT ![t] = NoResource], UNCHANGED current
  PROVE  factory' \in [Rollups -> Seq(Items)] /\ PoolInv'
<1> DEFINE r == resource[t]
<1>1. r \in Resources
  BY DEF PoolTypeOK
<1>2. PICK c \in Rollups, i \in Items : r = <<c, i>>
  BY <1>1 DEF Resources
<1>3. factory' = [factory EXCEPT ![c] = Append(factory[c], i)]
  BY <1>2 DEF GiveBack
<1>4. i \notin Elems(factory[c])
  BY <1>1, <1>2 DEF PoolInv, Held
<1>5. factory[c] \in Seq(Items) /\ Distinct(factory[c])
  BY DEF PoolTypeOK, PoolInv
<1>6. /\ factory'[c] \in Seq(Items) /\ Distinct(factory'[c])
      /\ Elems(factory'[c]) = Elems(factory[c]) \cup {i}
  BY <1>3, <1>4, <1>5, PushStack DEF PoolTypeOK
<1>7. \A d \in Rollups : d # c => factory'[d] = factory[d]
  BY <1>3 DEF PoolTypeOK
<1>8. factory' \in [Rollups -> Seq(Items)]
  BY <1>3, <1>6, <1>7 DEF PoolTypeOK
<1>9. \A q \in Resources : Held(q)' <=> Held(q) /\ q # r
  BY <1>1, ResourceIsOne DEF PoolTypeOK, PoolInv, Held
<1>10. ASSUME NEW d \in Rollups, NEW j \in Items
       PROVE  j \in Elems(factory'[d]) <=> ~Held(<<d, j>>)'
  <2>1. <<d, j>> \in Resources /\ (<<d, j>> = r <=> d = c /\ j = i)
    BY <1>2 DEF Resources
  <2>2. j \in Elems(factory[d]) <=> ~Held(<<d, j>>)
    BY DEF PoolInv
  <2> HIDE DEF r
  <2> QED
    BY <1>6, <1>7, <1>9, <2>1, <2>2
<1>11. ASSUME NEW u \in Tasks, NEW v \in Tasks, NEW q \in Resources
       PROVE  /\ resource'[u] = q /\ resource'[v] = q => u = v
              /\ current'[u] = q /\ current'[v] = q => u = v
              /\ ~(resource'[u] = q /\ current'[v] = q)
  BY ResourceIsOne DEF PoolTypeOK, PoolInv
<1>12. \A d \in Rollups : Distinct(factory'[d])
  BY <1>6, <1>7 DEF PoolInv
<1> QED
  BY <1>8, <1>10, <1>11, <1>12 DEF PoolInv

(* The drop of current_resource.                                            *)
LEMMA GiveCurrent ==
  ASSUME PoolTypeOK, PoolInv, NEW t \in Tasks, current[t] # NoResource,
         GiveBack(current[t]),
         current' = [current EXCEPT ![t] = NoResource], UNCHANGED resource
  PROVE  factory' \in [Rollups -> Seq(Items)] /\ PoolInv'
<1> DEFINE r == current[t]
<1>1. r \in Resources
  BY DEF PoolTypeOK
<1>2. PICK c \in Rollups, i \in Items : r = <<c, i>>
  BY <1>1 DEF Resources
<1>3. factory' = [factory EXCEPT ![c] = Append(factory[c], i)]
  BY <1>2 DEF GiveBack
<1>4. i \notin Elems(factory[c])
  BY <1>1, <1>2 DEF PoolInv, Held
<1>5. factory[c] \in Seq(Items) /\ Distinct(factory[c])
  BY DEF PoolTypeOK, PoolInv
<1>6. /\ factory'[c] \in Seq(Items) /\ Distinct(factory'[c])
      /\ Elems(factory'[c]) = Elems(factory[c]) \cup {i}
  BY <1>3, <1>4, <1>5, PushStack DEF PoolTypeOK
<1>7. \A d \in Rollups : d # c => factory'[d] = factory[d]
  BY <1>3 DEF PoolTypeOK
<1>8. factory' \in [Rollups -> Seq(Items)]
  BY <1>3, <1>6, <1>7 DEF PoolTypeOK
<1>9. \A q \in Resources : Held(q)' <=> Held(q) /\ q # r
  BY <1>1, ResourceIsOne DEF PoolTypeOK, PoolInv, Held
<1>10. ASSUME NEW d \in Rollups, NEW j \in Items
       PROVE  j \in Elems(factory'[d]) <=> ~Held(<<d, j>>)'
  <2>1. <<d, j>> \in Resources /\ (<<d, j>> = r <=> d = c /\ j = i)
    BY <1>2 DEF Resources
  <2>2. j \in Elems(factory[d]) <=> ~Held(<<d, j>>)
    BY DEF PoolInv
  <2> HIDE DEF r
  <2> QED
    BY <1>6, <1>7, <1>9, <2>1, <2>2
<1>11. ASSUME NEW u \in Tasks, NEW v \in Tasks, NEW q \in Resources
       PROVE  /\ resource'[u] = q /\ resource'[v] = q => u = v
              /\ current'[u] = q /\ current'[v] = q => u = v
              /\ ~(resource'[u] = q /\ current'[v] = q)
  BY ResourceIsOne DEF PoolTypeOK, PoolInv
<1>12. \A d \in Rollups : Distinct(factory'[d])
  BY <1>6, <1>7 DEF PoolInv
<1> QED
  BY <1>8, <1>10, <1>11, <1>12 DEF PoolInv

-----------------------------------------------------------------------------
(* The same steps as steps of the pool.                                    *)

(* lock_resource of the first resource is an acquisition of the pool by    *)
(* the first hand.                                                         *)
LEMMA AcquireFirst ==
  ASSUME PoolTypeOK, NEW t \in Tasks, NEW r \in Resources, ~Held(r),
         resource[t] = NoResource,
         resource' = [resource EXCEPT ![t] = r], UNCHANGED current
  PROVE  Pool!Next
<1> DEFINE h == <<t, "resource">>
<1>1. h \in Hands /\ owner[h] = NoResource
  BY DEF Hands, owner
<1>2. \A g \in Hands : owner[g] # r
  BY DEF Hands, owner, Held
<1>3. owner' = [owner EXCEPT ![h] = r]
  <2>1. ASSUME NEW g \in Hands PROVE owner'[g] = IF g = h THEN r ELSE owner[g]
    <3>1. PICK u \in Tasks, w \in {"resource", "current"} : g = <<u, w>>
      BY DEF Hands
    <3> QED
      BY <3>1 DEF owner, PoolTypeOK
  <2>2. owner = [g \in Hands |-> owner[g]] /\ owner' = [g \in Hands |-> owner'[g]]
    BY DEF owner
  <2> HIDE DEF h
  <2> QED
    BY <1>1, <2>1, <2>2
<1>4. Pool!Acquire(h, r)
  BY <1>1, <1>2, <1>3 DEF Pool!Acquire
<1> QED
  BY <1>1, <1>4 DEF Pool!Next

(* The drop of the first resource is a release of the pool.                *)
LEMMA ReleaseFirst ==
  ASSUME PoolTypeOK, NEW t \in Tasks, resource[t] # NoResource,
         resource' = [resource EXCEPT ![t] = NoResource], UNCHANGED current
  PROVE  Pool!Next
<1> DEFINE h == <<t, "resource">>
<1>1. h \in Hands /\ owner[h] # NoResource
  BY DEF Hands, owner
<1>2. owner' = [owner EXCEPT ![h] = NoResource]
  <2>1. ASSUME NEW g \in Hands PROVE owner'[g] = IF g = h THEN NoResource ELSE owner[g]
    <3>1. PICK u \in Tasks, w \in {"resource", "current"} : g = <<u, w>>
      BY DEF Hands
    <3> QED
      BY <3>1 DEF owner, PoolTypeOK
  <2>2. owner = [g \in Hands |-> owner[g]] /\ owner' = [g \in Hands |-> owner'[g]]
    BY DEF owner
  <2> HIDE DEF h
  <2> QED
    BY <1>1, <2>1, <2>2
<1>3. Pool!Release(h)
  BY <1>1, <1>2 DEF Pool!Release
<1> QED
  BY <1>1, <1>3 DEF Pool!Next

(* lock_resource of current_resource is an acquisition by the second hand. *)
LEMMA AcquireCurrent ==
  ASSUME PoolTypeOK, NEW t \in Tasks, NEW r \in Resources, ~Held(r),
         current[t] = NoResource,
         current' = [current EXCEPT ![t] = r], UNCHANGED resource
  PROVE  Pool!Next
<1> DEFINE h == <<t, "current">>
<1>1. h \in Hands /\ owner[h] = NoResource
  BY DEF Hands, owner
<1>2. \A g \in Hands : owner[g] # r
  BY DEF Hands, owner, Held
<1>3. owner' = [owner EXCEPT ![h] = r]
  <2>1. ASSUME NEW g \in Hands PROVE owner'[g] = IF g = h THEN r ELSE owner[g]
    <3>1. PICK u \in Tasks, w \in {"resource", "current"} : g = <<u, w>>
      BY DEF Hands
    <3> QED
      BY <3>1 DEF owner, PoolTypeOK
  <2>2. owner = [g \in Hands |-> owner[g]] /\ owner' = [g \in Hands |-> owner'[g]]
    BY DEF owner
  <2> HIDE DEF h
  <2> QED
    BY <1>1, <2>1, <2>2
<1>4. Pool!Acquire(h, r)
  BY <1>1, <1>2, <1>3 DEF Pool!Acquire
<1> QED
  BY <1>1, <1>4 DEF Pool!Next

(* The drop of current_resource is a release of the pool.                  *)
LEMMA ReleaseCurrent ==
  ASSUME PoolTypeOK, NEW t \in Tasks, current[t] # NoResource,
         current' = [current EXCEPT ![t] = NoResource], UNCHANGED resource
  PROVE  Pool!Next
<1> DEFINE h == <<t, "current">>
<1>1. h \in Hands /\ owner[h] # NoResource
  BY DEF Hands, owner
<1>2. owner' = [owner EXCEPT ![h] = NoResource]
  <2>1. ASSUME NEW g \in Hands PROVE owner'[g] = IF g = h THEN NoResource ELSE owner[g]
    <3>1. PICK u \in Tasks, w \in {"resource", "current"} : g = <<u, w>>
      BY DEF Hands
    <3> QED
      BY <3>1 DEF owner, PoolTypeOK
  <2>2. owner = [g \in Hands |-> owner[g]] /\ owner' = [g \in Hands |-> owner'[g]]
    BY DEF owner
  <2> HIDE DEF h
  <2> QED
    BY <1>1, <2>1, <2>2
<1>3. Pool!Release(h)
  BY <1>1, <1>2 DEF Pool!Release
<1> QED
  BY <1>1, <1>3 DEF Pool!Next

-----------------------------------------------------------------------------
(* Steps that move no resource.                                            *)

(* What the task's hands must be at a label it moves to.                   *)
MayBeAt(t, label) ==
  /\ label \in PCs
  /\ label \notin {"build", "unwind"} => current[t] = NoResource
  /\ label \in {"build", "return", "unwind"} => resource[t] # NoResource
  /\ label \in {"idle", "done"} => resource[t] = NoResource
  /\ Single(t) /\ label = "lock" => resource[t] = NoResource

(* A step that moves the control of a task and no resource keeps the       *)
(* invariant and is a stutter of the pool.                                 *)
LEMMA QuietStep ==
  ASSUME RomeInv, NEW t \in Tasks, NEW label, MayBeAt(t, label),
         UNCHANGED <<factory, job, resource, current>>,
         pc' = [pc EXCEPT ![t] = label]
  PROVE  RomeInv' /\ UNCHANGED owner
<1>1. PoolTypeOK'
  BY DEF RomeInv, PoolTypeOK, MayBeAt
<1>2. PoolInv'
  BY DEF RomeInv, PoolInv, Held
<1>3. ControlInv'
  BY DEF RomeInv, PoolTypeOK, ControlInv, MayBeAt, Single
<1>4. UNCHANGED owner
  BY DEF owner
<1> QED
  BY <1>1, <1>2, <1>3, <1>4 DEF RomeInv

(* So is a step that touches neither the control nor a resource.           *)
LEMMA StutterStep ==
  ASSUME RomeInv, UNCHANGED <<factory, pc, job, resource, current>>
  PROVE  RomeInv' /\ UNCHANGED owner
<1>1. PoolTypeOK'
  BY DEF RomeInv, PoolTypeOK
<1>2. PoolInv'
  BY DEF RomeInv, PoolInv, Held
<1>3. ControlInv'
  BY DEF RomeInv, ControlInv, Single
<1>4. UNCHANGED owner
  BY DEF owner
<1> QED
  BY <1>1, <1>2, <1>3, <1>4 DEF RomeInv

(* The steps of the tower, and the resubmission by the caller.             *)
LEMMA TowerStep ==
  ASSUME RomeInv, NEW t \in Tasks, AdvanceStep(t) \/ Send(t) \/ Resubmit(t)
  PROVE  RomeInv' /\ UNCHANGED owner
<1>1. /\ UNCHANGED <<factory, job, resource, current>>
      /\ pc[t] \in {"advance", "sending", "returned"}
      /\ \/ UNCHANGED pc
         \/ \E label \in {"advance", "sending", "returned"} : pc' = [pc EXCEPT ![t] = label]
  <2>1. CASE AdvanceStep(t)
    BY <2>1 DEF AdvanceStep, Return, Goto, composeVars
  <2>2. CASE SendSingle(t) \/ SendWithSigners(t)
    BY <2>2 DEF SendSingle, SendWithSigners, Answered, Sent, SendFails, Return, Goto, composeVars
  <2>3. CASE SendParallel(t)
    BY <2>3 DEF SendParallel, Answered, Sent, SendFails, Return, Goto, composeVars
  <2>4. CASE SendUnchecked(t) \/ WaitNextSlot(t)
    BY <2>4 DEF SendUnchecked, WaitNextSlot, Sent, SendFails, Return, Goto, composeVars
  <2>5. CASE Resubmit(t)
    BY <2>5 DEF Resubmit, Goto, composeVars
  <2> QED
    BY <2>1, <2>2, <2>3, <2>4, <2>5 DEF Send
<1>2. CASE UNCHANGED pc
  BY <1>1, <1>2, StutterStep
<1>3. ASSUME NEW label \in {"advance", "sending", "returned"}, pc' = [pc EXCEPT ![t] = label]
      PROVE  RomeInv' /\ UNCHANGED owner
  <2>1. MayBeAt(t, label)
    BY <1>1, <1>3 DEF MayBeAt, RomeInv, ControlInv, PCs
  <2> QED
    BY <1>1, <1>3, <2>1, QuietStep
<1> QED
  BY <1>1, <1>2, <1>3

(* A job is given to an idle task.                                         *)
LEMMA StartStep ==
  ASSUME RomeInv, NEW t \in Tasks, NEW j \in Jobs, Start(t, j)
  PROVE  RomeInv' /\ UNCHANGED owner
<1> USE DEF Start, Goto
<1>1. PoolTypeOK'
  BY DEF RomeInv, PoolTypeOK, PCs
<1>2. PoolInv'
  BY DEF RomeInv, PoolInv, Held
<1>3. ControlInv'
  BY DEF RomeInv, PoolTypeOK, ControlInv, Single
<1>4. UNCHANGED owner
  BY DEF owner
<1> QED
  BY <1>1, <1>2, <1>3, <1>4 DEF RomeInv

(* The steps of the composition that move no resource.                     *)
LEMMA QuietCompose ==
  ASSUME RomeInv, NEW t \in Tasks,
         NoBuilder(t) \/ BuildTx(t) \/ BuildSvmTx(t) \/ ComposeFails(t)
  PROVE  RomeInv' /\ UNCHANGED owner
<1> DEFINE Goes(label) == /\ UNCHANGED <<factory, job, resource, current>>
                          /\ pc' = [pc EXCEPT ![t] = label]
                          /\ MayBeAt(t, label)
<1> USE DEF Goto, composeVars, MayBeAt, PCs, RomeInv, ControlInv, Single
<1>1. CASE NoBuilder(t)
  <2>1. Goes(IF resource[t] = NoResource THEN "done" ELSE "unwind")
    BY <1>1 DEF NoBuilder
  <2> QED
    BY <2>1, QuietStep
<1>2. CASE BuildTx(t) \/ BuildSvmTx(t)
  <2>1. Goes("advance")
    BY <1>2 DEF BuildTx, BuildSvmTx
  <2> QED
    BY <2>1, QuietStep
<1>3. CASE ComposeFails(t)
  <2>1. Goes("unwind")
    BY <1>3 DEF ComposeFails
  <2> QED
    BY <2>1, QuietStep
<1> QED
  BY <1>1, <1>2, <1>3

-----------------------------------------------------------------------------
(* Steps that move a resource.                                             *)

(* Types and control after a step of one task.                             *)
LEMMA MoveStep ==
  ASSUME RomeInv, NEW t \in Tasks, NEW label,
         pc' = [pc EXCEPT ![t] = label], UNCHANGED job,
         factory' \in [Rollups -> Seq(Items)],
         resource' \in [Tasks -> Resources \cup {NoResource}],
         current' \in [Tasks -> Resources \cup {NoResource}],
         \A u \in Tasks : u # t => resource'[u] = resource[u] /\ current'[u] = current[u],
         MayBeAt(t, label)', Single(t) => current'[t] = NoResource,
         PoolInv'
  PROVE  RomeInv'
<1>1. PoolTypeOK'
  BY DEF RomeInv, PoolTypeOK, MayBeAt
<1>2. ControlInv'
  BY DEF RomeInv, PoolTypeOK, ControlInv, MayBeAt, Single
<1> QED
  BY <1>1, <1>2 DEF RomeInv

(* lock_resource, into the hand that is free.                              *)
LEMMA LockStep ==
  ASSUME RomeInv, NEW t \in Tasks, LockResource(t)
  PROVE  RomeInv' /\ Pool!Next
<1> DEFINE c == job[t].chains[next[t]]
<1>1. PICK r \in Resources :
        /\ pc[t] = "lock" /\ c \in Rollups /\ Get(c, r)
        /\ IF resource[t] = NoResource
             THEN resource' = [resource EXCEPT ![t] = r] /\ UNCHANGED current
             ELSE current' = [current EXCEPT ![t] = r] /\ UNCHANGED resource
  BY DEF LockResource
<1>2. pc' = [pc EXCEPT ![t] = "build"] /\ UNCHANGED job
  BY DEF LockResource, Goto
<1>3. current[t] = NoResource /\ (Single(t) => resource[t] = NoResource)
  BY <1>1 DEF RomeInv, ControlInv
<1>4. PoolTypeOK /\ PoolInv
  BY DEF RomeInv
<1> HIDE DEF c
<1>5. CASE resource[t] = NoResource
  <2>1. ~Held(r) /\ factory' \in [Rollups -> Seq(Items)] /\ PoolInv'
    BY <1>1, <1>4, <1>5, TakeFirst
  <2>2. Pool!Next
    BY <1>1, <1>4, <1>5, <2>1, AcquireFirst
  <2>3. MayBeAt(t, "build")' /\ (Single(t) => current'[t] = NoResource)
    BY <1>1, <1>3, <1>4, <1>5, ResourceIsOne DEF MayBeAt, PCs, PoolTypeOK
  <2> QED
    BY <1>1, <1>2, <1>4, <1>5, <2>1, <2>2, <2>3, MoveStep DEF PoolTypeOK
<1>6. CASE resource[t] # NoResource
  <2>1. ~Held(r) /\ factory' \in [Rollups -> Seq(Items)] /\ PoolInv'
    BY <1>1, <1>3, <1>4, <1>6, TakeCurrent
  <2>2. Pool!Next
    BY <1>1, <1>3, <1>4, <1>6, <2>1, AcquireCurrent
  <2>3. MayBeAt(t, "build")' /\ ~Single(t)
    BY <1>1, <1>3, <1>4, <1>6 DEF MayBeAt, PCs
  <2> QED
    BY <1>1, <1>2, <1>4, <1>6, <2>1, <2>2, <2>3, MoveStep DEF PoolTypeOK
<1> QED
  BY <1>5, <1>6

(* current_resource is dropped, or was not used, and the task goes on.     *)
LEMMA DropCurrentStep ==
  ASSUME RomeInv, NEW t \in Tasks, NEW label \in {"lock", "return", "unwind"},
         ~Single(t) \/ label = "unwind", resource[t] # NoResource,
         DropCurrent(t), pc' = [pc EXCEPT ![t] = label], UNCHANGED <<job, resource>>
  PROVE  RomeInv' /\ (Pool!Next \/ UNCHANGED owner)
<1>1. PoolTypeOK /\ PoolInv
  BY DEF RomeInv
<1>2. current' = [current EXCEPT ![t] = NoResource]
  BY DEF DropCurrent
<1>3. MayBeAt(t, label)' /\ current'[t] = NoResource
  BY <1>1, <1>2 DEF MayBeAt, PCs, PoolTypeOK, Single
<1>4. CASE current[t] = NoResource
  <2>1. UNCHANGED <<factory, current>>
    BY <1>1, <1>2, <1>4 DEF DropCurrent, PoolTypeOK
  <2>2. MayBeAt(t, label)
    BY <1>3, <2>1 DEF MayBeAt, Single
  <2> QED
    BY <2>1, <2>2, QuietStep
<1>5. CASE current[t] # NoResource
  <2>1. GiveBack(current[t])
    BY <1>5 DEF DropCurrent
  <2>2. factory' \in [Rollups -> Seq(Items)] /\ PoolInv'
    BY <1>1, <1>2, <1>5, <2>1, GiveCurrent
  <2>3. Pool!Next
    BY <1>1, <1>2, <1>5, ReleaseCurrent
  <2> QED
    BY <1>1, <1>2, <1>3, <2>2, <2>3, MoveStep DEF PoolTypeOK
<1> QED
  BY <1>4, <1>5

(* The resource is dropped and the task goes on with the transaction, or   *)
(* is done.                                                                *)
LEMMA DropFirstStep ==
  ASSUME RomeInv, NEW t \in Tasks, NEW label \in {"advance", "done"},
         current[t] = NoResource, resource[t] # NoResource, GiveBack(resource[t]),
         resource' = [resource EXCEPT ![t] = NoResource],
         pc' = [pc EXCEPT ![t] = label], UNCHANGED <<job, current>>
  PROVE  RomeInv' /\ Pool!Next
<1>1. PoolTypeOK /\ PoolInv
  BY DEF RomeInv
<1>2. factory' \in [Rollups -> Seq(Items)] /\ PoolInv'
  BY <1>1, GiveFirst
<1>3. Pool!Next
  BY <1>1, ReleaseFirst
<1>4. MayBeAt(t, label)' /\ current'[t] = NoResource
  BY <1>1 DEF MayBeAt, PCs, PoolTypeOK
<1> QED
  BY <1>1, <1>2, <1>3, <1>4, MoveStep DEF PoolTypeOK

(* An iteration of compose_cross_rollup_tx or compose_cross_chain_tx.      *)
LEMMA CrossStep ==
  ASSUME RomeInv, NEW t \in Tasks, ComposeCrossRollup(t) \/ ComposeCrossChain(t)
  PROVE  RomeInv' /\ (Pool!Next \/ UNCHANGED owner)
<1>1. /\ pc[t] = "build" /\ ~Single(t) /\ DropCurrent(t) /\ UNCHANGED <<job, resource>>
      /\ \E label \in {"lock", "return"} : pc' = [pc EXCEPT ![t] = label]
  BY DEF ComposeCrossRollup, ComposeCrossChain, NextTransaction, Goto, Single
<1>2. resource[t] # NoResource
  BY <1>1 DEF RomeInv, ControlInv
<1> QED
  BY <1>1, <1>2, DropCurrentStep

(* The return of a cross composition drops the first resource.             *)
LEMMA ReturnCrossStep ==
  ASSUME RomeInv, NEW t \in Tasks, ReturnCross(t)
  PROVE  RomeInv' /\ Pool!Next
<1>1. current[t] = NoResource /\ resource[t] # NoResource
  BY DEF ReturnCross, RomeInv, ControlInv
<1> QED
  BY <1>1, DropFirstStep DEF ReturnCross, Goto

(* The error path of a composition drops what the task has.                *)
LEMMA UnwindStep ==
  ASSUME RomeInv, NEW t \in Tasks, Unwind(t)
  PROVE  RomeInv' /\ (Pool!Next \/ UNCHANGED owner)
<1>1. pc[t] = "unwind" /\ resource[t] # NoResource /\ UNCHANGED job
  BY DEF Unwind, RomeInv, ControlInv
<1>2. CASE current[t] # NoResource
  <2>1. DropCurrent(t) /\ UNCHANGED <<pc, resource>>
    BY <1>2 DEF Unwind, DropCurrent
  <2>2. pc' = [pc EXCEPT ![t] = "unwind"]
    BY <1>1, <2>1 DEF RomeInv, PoolTypeOK
  <2> QED
    BY <1>1, <2>1, <2>2, DropCurrentStep
<1>3. CASE current[t] = NoResource
  BY <1>1, <1>3, DropFirstStep DEF Unwind, Goto
<1> QED
  BY <1>2, <1>3

(* The caller drops the transaction, with the resource if it has one.      *)
LEMMA DropTxStep ==
  ASSUME RomeInv, NEW t \in Tasks, DropTx(t)
  PROVE  RomeInv' /\ (Pool!Next \/ UNCHANGED owner)
<1>1. current[t] = NoResource
  BY DEF DropTx, RomeInv, ControlInv
<1>2. CASE resource[t] # NoResource
  BY <1>1, <1>2, DropFirstStep DEF DropTx, Goto
<1>3. CASE resource[t] = NoResource
  <2>1. UNCHANGED <<factory, job, resource, current>> /\ pc' = [pc EXCEPT ![t] = "done"]
    BY <1>3 DEF DropTx, Goto, RomeInv, PoolTypeOK
  <2>2. MayBeAt(t, "done")
    BY <1>1, <1>3 DEF MayBeAt, PCs
  <2> QED
    BY <2>1, <2>2, QuietStep
<1> QED
  BY <1>2, <1>3

-----------------------------------------------------------------------------

(* from_payers: every item is in the stack of its rollup once.             *)
LEMMA InitRomeInv == Init => RomeInv /\ Pool!Init
<1> SUFFICES ASSUME Init PROVE RomeInv /\ Pool!Init
  OBVIOUS
<1>1. /\ FromPayers \in Seq(Items) /\ Distinct(FromPayers) /\ Elems(FromPayers) = Items
  <2>1. NumItems \in Nat
    BY RomeTxAssumption
  <2>2. FromPayers \in [1 .. NumItems -> Items]
    BY <2>1 DEF FromPayers, Items
  <2>3. FromPayers \in Seq(Items) /\ Len(FromPayers) = NumItems
    BY <2>1, <2>2
  <2>4. Distinct(FromPayers)
    BY <2>1, <2>3 DEF FromPayers, Distinct
  <2>5. ASSUME NEW i \in Items PROVE i \in Elems(FromPayers)
    <3>1. NumItems - i \in 1 .. NumItems /\ FromPayers[NumItems - i] = i
      BY <2>1 DEF Items, FromPayers
    <3> QED
      BY <2>3, <3>1 DEF Elems
  <2>6. Elems(FromPayers) \subseteq Items
    BY <2>2, <2>3 DEF Elems
  <2> QED
    BY <2>3, <2>4, <2>5, <2>6
<1>2. PoolTypeOK
  BY <1>1 DEF Init, PoolTypeOK, PCs
<1>3. PoolInv
  BY <1>1, ResourceIsOne DEF Init, PoolInv, Held, Resources
<1>4. ControlInv
  BY DEF Init, ControlInv, Single
<1>5. Pool!Init
  BY DEF Init, Pool!Init, owner, Hands
<1> QED
  BY <1>2, <1>3, <1>4, <1>5 DEF RomeInv

(* Every step keeps every resource in one place, and takes or gives back   *)
(* one at most.                                                            *)
LEMMA RomeStep ==
  ASSUME RomeInv, [Next]_vars
  PROVE  RomeInv' /\ (Pool!Next \/ UNCHANGED owner)
<1>1. CASE UNCHANGED vars
  BY <1>1, StutterStep DEF vars, composeVars
<1>2. CASE NextSlot
  BY <1>2, StutterStep DEF NextSlot, composeVars
<1>3. ASSUME NEW t \in Tasks, NEW j \in Jobs, Start(t, j)
      PROVE  RomeInv' /\ (Pool!Next \/ UNCHANGED owner)
  BY <1>3, StartStep
<1>4. ASSUME NEW t \in Tasks, Compose(t)
      PROVE  RomeInv' /\ (Pool!Next \/ UNCHANGED owner)
  BY <1>4, LockStep, QuietCompose, CrossStep, ReturnCrossStep, UnwindStep DEF Compose
<1>5. ASSUME NEW t \in Tasks, AdvanceStep(t) \/ Send(t) \/ Resubmit(t)
      PROVE  RomeInv' /\ (Pool!Next \/ UNCHANGED owner)
  BY <1>5, TowerStep
<1>6. ASSUME NEW t \in Tasks, DropTx(t)
      PROVE  RomeInv' /\ (Pool!Next \/ UNCHANGED owner)
  BY <1>6, DropTxStep
<1>7. CASE \/ \E t \in Tasks : \E x \in wire[t] : Lands(t, x)
           \/ \E x \in late : LandsLate(x)
  BY <1>7, StutterStep DEF Lands, LandsLate, composeVars
<1> QED
  BY <1>1, <1>2, <1>3, <1>4, <1>5, <1>6, <1>7 DEF Next

(* The stacks and the hands of the tasks always partition the resources.   *)
THEOREM RomeInvariant == Spec => []RomeInv
<1>1. Init => RomeInv
  BY InitRomeInv
<1>2. RomeInv /\ [Next]_vars => RomeInv'
  BY RomeStep
<1> QED
  BY <1>1, <1>2, PTL DEF Spec

(* ResourceFactory with every composition, error path and drop implements  *)
(* the pool: no payer and holder of a rollup is in two hands.              *)
THEOREM FactoriesImplementPool == Spec => ImplementsPool
<1>1. Init => Pool!Init
  BY InitRomeInv
<1>2. RomeInv /\ [Next]_vars => [Pool!Next]_owner
  BY RomeStep
<1> QED
  BY <1>1, <1>2, RomeInvariant, PTL DEF Spec, ImplementsPool, Pool!Spec

(* When every task is done, on whatever path, every resource is back in    *)
(* its factory.                                                            *)
NothingLeaked ==
  (\A t \in Tasks : pc[t] = "done") => \A c \in Rollups : Elems(factory[c]) = Items

(* NothingLeaked holds on every path of a composition and of the tower,    *)
(* the error paths included: the factories never run dry by errors.        *)
THEOREM NothingLeakedCorrect == Spec => []NothingLeaked
<1>1. RomeInv => NothingLeaked
  <2> SUFFICES ASSUME RomeInv, \A t \in Tasks : pc[t] = "done", NEW c \in Rollups
               PROVE  Elems(factory[c]) = Items
    BY DEF NothingLeaked
  <2>1. \A t \in Tasks : resource[t] = NoResource /\ current[t] = NoResource
    BY DEF RomeInv, ControlInv
  <2>2. \A i \in Items : <<c, i>> \in Resources
    BY DEF Resources
  <2>3. Items \subseteq Elems(factory[c])
    BY <2>1, <2>2, ResourceIsOne DEF RomeInv, PoolInv, Held
  <2>4. Elems(factory[c]) \subseteq Items
    BY DEF RomeInv, PoolTypeOK, Elems
  <2> QED
    BY <2>3, <2>4
<1> QED
  BY <1>1, RomeInvariant, PTL

-----------------------------------------------------------------------------
(* The step machines: none changes what transaction it is, every chunk it  *)
(* hands out is one of its own, and the holder transactions hand out an    *)
(* executing step only when the holder is whole.                           *)

(* The batches left of a transaction of n chunks.                          *)
CutInto(transmit, batches, n) ==
  n \in Nat /\ (transmit # "Init" => batches \in Seq(SUBSET (1 .. n)))

IsTx(x) == /\ {"shape", "chunks", "step", "outer", "transmit", "batches"} \subseteq DOMAIN x
           /\ CutInto(x.transmit, x.batches, x.chunks)
SameTx(x, y) == IsTx(y) /\ y.shape = x.shape /\ y.chunks = x.chunks
SameStep(x, y) == y.step = x.step /\ y.outer = x.outer
Executing(s) == s.kind \in {"Single", "ParallelUnchecked"}

(* A step of a transaction with x.chunks chunks.                           *)
StepOf(x, s) ==
  {"kind", "chunks", "alt", "ver"} \subseteq DOMAIN s /\ s.chunks \subseteq 1 .. x.chunks

(* The batches of a transaction of n chunks are sets of its chunks.        *)
LEMMA IntoBatches ==
  ASSUME NEW n \in Nat
  PROVE  into_chunks(n, BatchLimit) \in Seq(SUBSET (1 .. n))
<1> DEFINE len == (n + BatchLimit - 1) \div BatchLimit
<1>1. BatchLimit \in Nat \ {0}
  BY AdvanceTxAssumption
<1>2. len \in Nat
  <2>1. n + BatchLimit - 1 \in Nat
    BY <1>1
  <2> QED
    BY <1>1, <2>1
<1> HIDE DEF len
<1>3. \A k \in 1 .. len : {j \in 1 .. n : (j - 1) \div BatchLimit = k - 1} \in SUBSET (1 .. n)
  OBVIOUS
<1>4. into_chunks(n, BatchLimit)
        = [k \in 1 .. len |-> {j \in 1 .. n : (j - 1) \div BatchLimit = k - 1}]
  BY DEF into_chunks, len
<1> QED
  BY <1>2, <1>3, <1>4

(* A transmission only ever writes chunks.                                 *)
LEMMA TransmitOutcomes ==
  ASSUME NEW x, IsTx(x), NEW o \in TransmitAdvance(x)
  PROVE  /\ SameTx(x, o.tx) /\ SameStep(x, o.tx) /\ StepOf(x, o.step)
         /\ o.step.kind \in {"Parallel", "End", "Err"}
<1> DEFINE batches == IF x.transmit = "Init" THEN into_chunks(x.chunks, BatchLimit) ELSE x.batches
           y == [x EXCEPT !.transmit = "Complete", !.batches = <<>>]
           z == [x EXCEPT !.transmit = "Execute", !.batches = Tail(batches)]
<1>1. \/ o = Outcome(Simple("End"), y)
      \/ batches # <<>> /\ o = Outcome(Step("Parallel", Head(batches), FALSE, "Legacy"), z)
      \/ o = Outcome(Simple("Err"), x)
  <2> HIDE DEF y, z, batches
  <2> QED
    BY DEF TransmitAdvance, y, z, batches
<1>2. x.chunks \in Nat /\ batches \in Seq(SUBSET (1 .. x.chunks))
  BY IntoBatches DEF IsTx, CutInto
<1> HIDE DEF batches
<1>3. batches # <<>> => Head(batches) \in SUBSET (1 .. x.chunks)
                        /\ Tail(batches) \in Seq(SUBSET (1 .. x.chunks))
  <2> DEFINE S == SUBSET (1 .. x.chunks)
  <2>1. batches \in Seq(S)
    BY <1>2
  <2> HIDE DEF S
  <2>2. batches # <<>> => Head(batches) \in S /\ Tail(batches) \in Seq(S)
    BY <2>1
  <2> QED
    BY <2>2 DEF S
<1>4. <<>> \in Seq(SUBSET (1 .. x.chunks))
  OBVIOUS
<1>5. SameTx(x, x) /\ SameStep(x, x)
  BY DEF IsTx, SameTx, SameStep
<1>6. SameTx(x, y) /\ SameStep(x, y)
  <2>1. CutInto("Complete", <<>>, x.chunks)
    BY <1>2, <1>4 DEF CutInto
  <2> QED
    BY <2>1 DEF IsTx, SameTx, SameStep
<1>7. batches # <<>> => SameTx(x, z) /\ SameStep(x, z)
  <2>1. batches # <<>> => CutInto("Execute", Tail(batches), x.chunks)
    BY <1>2, <1>3 DEF CutInto
  <2> QED
    BY <2>1 DEF IsTx, SameTx, SameStep
<1> HIDE DEF y, z
<1>8. o.tx = x \/ o.tx = y \/ (o.tx = z /\ batches # <<>>)
  <2>1. \A s, e : Outcome(s, e).tx = e
    BY DEF Outcome
  <2> QED
    BY <1>1, <2>1
<1>9. StepOf(x, o.step) /\ o.step.kind \in {"Parallel", "End", "Err"}
  BY <1>1, <1>3 DEF Outcome, Simple, Step, StepOf
<1> QED
  BY <1>5, <1>6, <1>7, <1>8, <1>9

(* The steps of the lookup table.                                          *)
LEMMA AltOutcomes ==
  ASSUME NEW x, IsTx(x), NEW found, NEW o \in AltAdvance(x, found)
  PROVE  /\ SameTx(x, o.tx) /\ SameStep(x, o.tx) /\ StepOf(x, o.step)
         /\ o.step.kind \in {"Parallel", "WaitNextSlot", "End", "Err", "Panic"}
<1> DEFINE y == [x EXCEPT !.keys = FALSE]
           z == [x EXCEPT !.keys = FALSE, !.alt_step = "WaitNextSlot"]
           v == [x EXCEPT !.alt_step = "End"]
           w == [x EXCEPT !.alt_step = "End", !.alt_raw_account = TRUE]
<1>1. \/ \E e \in {x, y, v} : o = Outcome(Simple("Err"), e)
      \/ o = Outcome(Step("Parallel", {}, TRUE, "Legacy"), z)
      \/ o = Outcome(Simple("Panic"), x)
      \/ o = Outcome(Simple("WaitNextSlot"), w)
      \/ o = Outcome(Simple("End"), x)
  BY DEF AltAdvance
<1>2. \A e \in {x, y, z, v, w} : SameTx(x, e) /\ SameStep(x, e)
  BY DEF IsTx, SameTx, SameStep
<1> HIDE DEF y, z, v, w
<1> QED
  BY <1>1, <1>2 DEF Outcome, Simple, Step, StepOf

(* The machines that execute.                                              *)
LEMMA IterableOutcomes ==
  ASSUME NEW x, IsTx(x), x.shape \in Shapes, NEW whole \in BOOLEAN, NEW confirmed \in BOOLEAN,
         NEW o \in IterableAdvance(x, whole, confirmed)
  PROVE  /\ SameTx(x, o.tx) /\ StepOf(x, o.step)
         /\ Executing(o.step) /\ x.shape \in HolderShapes => whole
<1> USE DEF Outcome, Simple, Step, IsTx, SameTx, Executing, StepOf
<1>1. ASSUME NEW y, IsTx(y), NEW q \in AtomicHolderExecute(y, whole)
      PROVE  SameTx(y, q.tx) /\ StepOf(y, q.step) /\ (Executing(q.step) => whole)
  BY <1>1 DEF AtomicHolderExecute
<1>2. ASSUME NEW y, IsTx(y), NEW q \in IterativeHolderExecute(y, whole)
      PROVE  SameTx(y, q.tx) /\ StepOf(y, q.step) /\ (Executing(q.step) => whole)
  BY <1>2 DEF IterativeHolderExecute
<1>3. ASSUME NEW q \in TransmitAdvance(x)
      PROVE  SameTx(x, q.tx) /\ StepOf(x, q.step) /\ ~Executing(q.step)
  BY <1>3, TransmitOutcomes
<1>4. CASE x.shape \in {"atomic", "atomic_svm", "cross_rollup", "cross_chain", "iterative"}
  BY <1>4 DEF IterableAdvance, AtomicAdvance, AtomicSvmAdvance, CrossRollupAdvance,
     CrossChainAdvance, ExecuteOnce, IterativeAdvance, HolderShapes
<1>5. CASE x.shape = "atomic_holder"
  <2>1. o \in AtomicHolderAdvance(x, whole)
    BY <1>5 DEF IterableAdvance
  <2>2. CASE x.step = "Transmit"
    <3>1. \/ o \in TransmitAdvance(x)
          \/ \E p \in TransmitAdvance(x) : o \in AtomicHolderExecute(p.tx, whole)
      BY <2>1, <2>2 DEF AtomicHolderAdvance, ThenExecute
    <3> QED
      BY <1>1, <1>3, <3>1
  <2>3. CASE x.step # "Transmit"
    BY <1>1, <2>1, <2>3 DEF AtomicHolderAdvance
  <2> QED
    BY <2>2, <2>3
<1>6. CASE x.shape = "iterative_holder"
  <2>1. o \in IterativeHolderAdvance(x, whole, confirmed)
    BY <1>6 DEF IterableAdvance
  <2>2. CASE x.step = "Transmit"
    <3>1. \/ o \in TransmitAdvance(x)
          \/ \E p \in TransmitAdvance(x) : o \in IterativeHolderExecute(p.tx, whole)
      BY <2>1, <2>2 DEF IterativeHolderAdvance, ThenExecute
    <3> QED
      BY <1>2, <1>3, <3>1
  <2>3. CASE x.step # "Transmit"
    BY <1>2, <2>1, <2>3 DEF IterativeHolderAdvance
  <2> QED
    BY <2>2, <2>3
<1> QED
  BY <1>4, <1>5, <1>6 DEF Shapes, HolderShapes, IterativeShapes

(* The same for every machine, wrapped or not.                             *)
LEMMA AdvanceOutcomes ==
  ASSUME NEW x, IsTx(x), x.shape \in Shapes, NEW found, NEW whole \in BOOLEAN,
         NEW confirmed \in BOOLEAN, NEW o \in Advance(x, found, whole, confirmed)
  PROVE  /\ SameTx(x, o.tx) /\ StepOf(x, o.step)
         /\ Executing(o.step) /\ x.shape \in HolderShapes => whole
<1> DEFINE Good(y, q) == /\ SameTx(y, q.tx) /\ StepOf(y, q.step)
                         /\ Executing(q.step) /\ y.shape \in HolderShapes => whole
<1>1. ASSUME NEW y, IsTx(y), y.shape \in Shapes,
             NEW q \in AdvanceWithVersion(y, whole, confirmed)
      PROVE  Good(y, q)
  <2>1. PICK p \in IterableAdvance(y, whole, confirmed) :
          q = IF p.step.kind \in {"Single", "ParallelUnchecked"}
                THEN Outcome([p.step EXCEPT !.ver = "V0"], p.tx) ELSE p
    BY <1>1 DEF AdvanceWithVersion
  <2>2. Good(y, p)
    BY <1>1, IterableOutcomes
  <2>3. q.tx = p.tx /\ (Executing(q.step) => Executing(p.step)) /\ StepOf(y, q.step)
    BY <2>1, <2>2 DEF Outcome, Executing, StepOf
  <2> QED
    BY <2>2, <2>3
<1>2. ASSUME NEW y, IsTx(y), y.shape \in Shapes, NEW q \in EnterExecute(y, whole, confirmed)
      PROVE  Good(y, q)
  <2> DEFINE z == [y EXCEPT !.outer = "Execute"]
  <2>1. IsTx(z) /\ SameTx(y, z)
    BY <1>2 DEF IsTx, SameTx
  <2>2. \/ q = Outcome(Simple("Err"), y) \/ q = Outcome(Simple("Panic"), y)
        \/ q \in AdvanceWithVersion(z, whole, confirmed)
    BY <1>2 DEF EnterExecute
  <2> HIDE DEF z
  <2>3. CASE q \in AdvanceWithVersion(z, whole, confirmed)
    <3>1. Good(z, q)
      BY <1>1, <1>2, <2>1, <2>3 DEF SameTx
    <3> QED
      BY <2>1, <3>1 DEF SameTx, StepOf
  <2> QED
    BY <1>2, <2>2, <2>3 DEF Outcome, Simple, Step, SameTx, IsTx, Executing, StepOf
<1>3. CASE o \in IterableAdvance(x, whole, confirmed)
  BY <1>3, IterableOutcomes
<1>4. CASE o \in AdvanceWithVersion(x, whole, confirmed)
  BY <1>1, <1>4
<1>5. CASE o \in AltComposedAdvance(x, found, whole, confirmed)
  <2>1. \/ o \in AltAdvance(x, found)
        \/ \E p \in AltAdvance(x, found) : o \in EnterExecute(p.tx, whole, confirmed)
    BY <1>5 DEF AltComposedAdvance, ThenExecute
  <2>2. \A p \in AltAdvance(x, found) :
          SameTx(x, p.tx) /\ StepOf(x, p.step) /\ ~Executing(p.step)
    BY AltOutcomes DEF Executing
  <2>3. ASSUME NEW p \in AltAdvance(x, found), o \in EnterExecute(p.tx, whole, confirmed)
        PROVE  Good(x, o)
    BY <1>2, <2>2, <2>3 DEF SameTx, StepOf
  <2> QED
    BY <2>1, <2>2, <2>3
<1>6. CASE o \in AltComposedHolderAdvance(x, found, whole, confirmed)
  <2> DEFINE failed(q) == q.step.kind \in {"Err", "Panic"}
             alts == AltAdvance(x, found)
             joined == UNION {{IF failed(b) THEN b
                                ELSE Outcome(join_parallel(a.step, b.step), b.tx) :
                                b \in TransmitAdvance(a.tx)} : a \in {q \in alts : ~failed(q)}}
  <2>1. \/ o \in alts \/ o \in joined
        \/ \E p \in joined : o \in EnterExecute(p.tx, whole, confirmed)
    BY <1>6 DEF AltComposedHolderAdvance, ThenExecute
  <2>2. \A p \in alts : SameTx(x, p.tx) /\ StepOf(x, p.step) /\ ~Executing(p.step)
    BY AltOutcomes DEF Executing
  <2>3. ASSUME NEW p \in joined
        PROVE  SameTx(x, p.tx) /\ StepOf(x, p.step) /\ ~Executing(p.step)
    <3>0. PICK a \in alts : \E b \in TransmitAdvance(a.tx) :
            p = IF failed(b) THEN b ELSE Outcome(join_parallel(a.step, b.step), b.tx)
      BY <2>3
    <3>1. PICK b \in TransmitAdvance(a.tx) :
            p = IF failed(b) THEN b ELSE Outcome(join_parallel(a.step, b.step), b.tx)
      BY <3>0
    <3>2. SameTx(x, a.tx) /\ StepOf(x, a.step) /\ ~Executing(a.step)
      BY <2>2
    <3>3. /\ SameTx(x, b.tx) /\ StepOf(x, b.step)
          /\ b.step.kind \in {"Parallel", "End", "Err"}
      BY <3>2, TransmitOutcomes DEF SameTx, StepOf
    <3>4. p.tx = b.tx
      BY <3>1 DEF Outcome
    <3>5. StepOf(x, p.step) /\ ~Executing(p.step)
      <4>1. p.step \in {b.step, [b.step EXCEPT !.alt = TRUE], a.step}
        BY <3>1 DEF Outcome, join_parallel
      <4>2. StepOf(x, [b.step EXCEPT !.alt = TRUE]) /\ ~Executing([b.step EXCEPT !.alt = TRUE])
        BY <3>3 DEF Executing, StepOf
      <4> QED
        BY <3>2, <3>3, <4>1, <4>2 DEF Executing
    <3> QED
      BY <3>3, <3>4, <3>5
  <2> HIDE DEF joined, alts
  <2>4. ASSUME NEW p \in joined, o \in EnterExecute(p.tx, whole, confirmed)
        PROVE  Good(x, o)
    BY <1>2, <2>3, <2>4 DEF SameTx, StepOf
  <2> QED
    BY <2>1, <2>2, <2>3, <2>4
<1> QED
  BY <1>3, <1>4, <1>5, <1>6 DEF Advance

-----------------------------------------------------------------------------
(* The holder is whole when it is used.  The machine has seen it whole     *)
(* when it handed out the step; since then only a transaction of another   *)
(* task could have started it anew.  The transactions of a step go to the  *)
(* resource the task still has, which is no other task's; a late one       *)
(* leaves its mark in disturbed.                                           *)

Active == {"advance", "sending", "returned"}

TaskInv(t) ==
  /\ pc[t] # "idle" => job[t] \in Jobs
  /\ pc[t] = "return" => job[t].api \in {"cross_rollup", "cross_chain"}
  /\ pc[t] \in Active =>
       /\ IsTx(tx[t]) /\ tx[t].shape \in Shapes /\ tx[t].chunks = job[t].chunks
       /\ tx[t].shape \in HolderShapes => resource[t] # NoResource
  /\ pc[t] = "sending" => StepOf(tx[t], step[t]) /\ wire[t] \subseteq Sends(t, step[t])
  /\ pc[t] # "sending" => wire[t] = {}
  /\ pc[t] = "sending" /\ Executing(step[t]) /\ <<t, "holder">> \notin disturbed => Whole(t)

(* The chunks in flight are some of their transaction.                     *)
LateTx(x) ==
  /\ x.task \in Tasks /\ pc[x.task] \in Active \cup {"done"}
  /\ x.kind = "transmit" => x.n \in 1 .. job[x.task].chunks

TransactionInv ==
  /\ DOMAIN tx = Tasks /\ DOMAIN step = Tasks /\ DOMAIN sigs = Tasks
  /\ DOMAIN result = Tasks /\ DOMAIN wire = Tasks /\ DOMAIN holder = Resources
  /\ \A t \in Tasks : TaskInv(t)
  /\ \A x \in late : LateTx(x)

(* What the transactions of a step are.                                    *)
LEMMA SentBy ==
  ASSUME NEW t, NEW s, NEW x \in Sends(t, s)
  PROVE  /\ x.task = t /\ x.res = resource[t]
         /\ x.kind \in {"transmit", "dealloc", "alloc"} => s.kind = "Parallel"
         /\ x.kind \in {"dealloc", "alloc"} => s.alt
         /\ x.kind = "transmit" => x.n \in s.chunks
         /\ x.kind = "alloc" => x.n \in Parts
         /\ s.kind \in {"Single", "SingleWithSigners"} => x.kind = "execute"
<1> DEFINE send(kind, n) == [task |-> t, res |-> resource[t], kind |-> kind, n |-> n]
<1>1. \/ /\ s.kind = "Parallel"
         /\ \/ \E n \in s.chunks : x = send("transmit", n)
            \/ s.alt /\ x = send("dealloc", 0)
            \/ s.alt /\ \E n \in Parts : x = send("alloc", n)
      \/ s.kind = "ParallelUnchecked" /\ \E n : x = send("iterate", n)
      \/ s.kind \in {"Single", "SingleWithSigners"} /\ x = send("execute", 0)
  <2>1. CASE s.kind = "Parallel"
    BY <2>1 DEF Sends
  <2>2. CASE s.kind = "ParallelUnchecked"
    BY <2>2 DEF Sends
  <2>3. CASE s.kind \in {"Single", "SingleWithSigners"}
    BY <2>3 DEF Sends
  <2>4. CASE s.kind \notin {"Parallel", "ParallelUnchecked", "Single", "SingleWithSigners"}
    BY <2>4 DEF Sends
  <2> QED
    BY <2>1, <2>2, <2>3, <2>4
<1> QED
  BY <1>1

(* What a transaction that lands changes.                                  *)
LEMMA EffectOnHolder ==
  ASSUME DOMAIN holder = Resources, NEW x, Effect(x)
  PROVE  /\ DOMAIN holder' = Resources /\ executed \subseteq executed'
         /\ \A r \in Resources :
              holder'[r] = IF x.kind = "transmit" /\ r = x.res
                             THEN Received(holder[r], x.task, x.n) ELSE holder[r]
BY DEF Effect

(* A chunk of a whole transaction leaves it whole.                         *)
LEMMA ReceivedAgain ==
  ASSUME NEW t, NEW c, NEW n \in 1 .. c
  PROVE  Received([hash |-> t, chunks |-> 1 .. c], t, n) = [hash |-> t, chunks |-> 1 .. c]
BY DEF Received

(* A task whose own state a step leaves alone, and its holder when it is   *)
(* whole and executed from.                                                *)
LEMMA OtherTask ==
  ASSUME NEW u \in Tasks, TaskInv(u), pc'[u] = pc[u], job'[u] = job[u], tx'[u] = tx[u],
         step'[u] = step[u], resource'[u] = resource[u],
         wire'[u] \subseteq wire[u], disturbed \subseteq disturbed',
         /\ pc[u] = "sending" /\ Executing(step[u]) /\ resource[u] # NoResource
         /\ <<u, "holder">> \notin disturbed' /\ Whole(u)
         => (tx[u].shape \in HolderShapes => holder'[resource[u]] = holder[resource[u]])
  PROVE  TaskInv(u)'
<1>1. Sends(u, step[u])' = Sends(u, step[u])
  BY DEF Sends, IterationsSent
<1>2. pc'[u] = "sending" => StepOf(tx[u], step[u])' /\ wire'[u] \subseteq Sends(u, step[u])'
  BY <1>1 DEF TaskInv, StepOf
<1>3. pc'[u] # "sending" => wire'[u] = {}
  BY DEF TaskInv
<1>4. ASSUME pc'[u] = "sending", Executing(step[u])', <<u, "holder">> \notin disturbed'
      PROVE  Whole(u)'
  <2>1. pc[u] = "sending" /\ Executing(step[u]) /\ <<u, "holder">> \notin disturbed
    BY <1>4 DEF Executing
  <2>2. Whole(u) /\ (tx[u].shape \in HolderShapes => resource[u] # NoResource)
    BY <2>1 DEF TaskInv, Active
  <2> QED
    BY <1>4, <2>1, <2>2 DEF Whole
<1>5. pc'[u] \in Active =>
        /\ IsTx(tx[u])' /\ tx'[u].shape \in Shapes /\ tx'[u].chunks = job'[u].chunks
        /\ tx'[u].shape \in HolderShapes => resource'[u] # NoResource
  BY DEF TaskInv, Active, IsTx, CutInto
<1>6. /\ pc'[u] # "idle" => job'[u] \in Jobs
      /\ pc'[u] = "return" => job'[u].api \in {"cross_rollup", "cross_chain"}
  BY DEF TaskInv
<1> QED
  BY <1>2, <1>3, <1>4, <1>5, <1>6 DEF TaskInv

(* What a step of a task leaves alone in the others, and on Solana.        *)
LEMMA OthersUntouched ==
  ASSUME RomeInv, TransactionInv, NEW t \in Tasks, NEW u \in Tasks, u # t,
         \/ \E j \in Jobs : Start(t, j)
         \/ Compose(t) \/ AdvanceStep(t) \/ Send(t) \/ Resubmit(t) \/ DropTx(t)
  PROVE  /\ pc'[u] = pc[u] /\ job'[u] = job[u] /\ resource'[u] = resource[u]
         /\ tx'[u] = tx[u] /\ step'[u] = step[u] /\ sigs'[u] = sigs[u] /\ result'[u] = result[u]
         /\ wire'[u] = wire[u]
<1>1. pc'[u] = pc[u] /\ job'[u] = job[u] /\ resource'[u] = resource[u]
  <2> USE DEF RomeInv, PoolTypeOK, Goto, composeVars
  <2>1. CASE \E j \in Jobs : Start(t, j)
    BY <2>1 DEF Start
  <2>2. CASE Compose(t)
    BY <2>2 DEF Compose, LockResource, NoBuilder, BuildTx, BuildSvmTx, ComposeCrossRollup,
       ComposeCrossChain, NextTransaction, ReturnCross, ComposeFails, Unwind
  <2>3. CASE AdvanceStep(t)
    BY <2>3 DEF AdvanceStep, Return
  <2>4. CASE Send(t)
    BY <2>4 DEF Send, SendSingle, SendWithSigners, SendParallel, SendUnchecked, WaitNextSlot,
       Answered, Sent, SendFails, Return
  <2>5. CASE Resubmit(t) \/ DropTx(t)
    BY <2>5 DEF Resubmit, DropTx
  <2> QED
    BY <2>1, <2>2, <2>3, <2>4, <2>5
<1>2. /\ tx'[u] = tx[u] /\ step'[u] = step[u] /\ sigs'[u] = sigs[u] /\ result'[u] = result[u]
      /\ wire'[u] = wire[u]
  <2> USE DEF TransactionInv, towerVars, netVars
  <2>1. CASE \E j \in Jobs : Start(t, j)
    BY <2>1 DEF Start
  <2>2. CASE Compose(t)
    BY <2>2 DEF Compose, LockResource, NoBuilder, BuildTx, BuildSvmTx, ComposeCrossRollup,
       ComposeCrossChain, ReturnCross, ComposeFails, Unwind, Composed
  <2>3. CASE AdvanceStep(t)
    BY <2>3 DEF AdvanceStep, Return
  <2>4. CASE Send(t)
    BY <2>4 DEF Send, SendSingle, SendWithSigners, SendParallel, SendUnchecked, WaitNextSlot,
       Answered, Sent, SendFails, LeavesBehind, Return
  <2>5. CASE Resubmit(t) \/ DropTx(t)
    BY <2>5 DEF Resubmit, DropTx
  <2> QED
    BY <2>1, <2>2, <2>3, <2>4, <2>5
<1> QED
  BY <1>1, <1>2

(* No step of a task changes Solana: that takes a transaction that lands.  *)
LEMMA SolanaUntouched ==
  ASSUME NEW t \in Tasks,
         \/ \E j \in Jobs : Start(t, j)
         \/ Compose(t) \/ AdvanceStep(t) \/ Send(t) \/ Resubmit(t) \/ DropTx(t)
  PROVE  UNCHANGED solanaVars
<1>1. CASE \E j \in Jobs : Start(t, j)
  BY <1>1 DEF Start
<1>2. CASE Compose(t)
  BY <1>2 DEF Compose, LockResource, NoBuilder, BuildTx, BuildSvmTx, ComposeCrossRollup,
     ComposeCrossChain, ReturnCross, ComposeFails, Unwind
<1>3. CASE AdvanceStep(t)
  BY <1>3 DEF AdvanceStep
<1>4. CASE Send(t)
  BY <1>4 DEF Send, SendSingle, SendWithSigners, SendParallel, SendUnchecked, WaitNextSlot
<1>5. CASE Resubmit(t) \/ DropTx(t)
  BY <1>5 DEF Resubmit, DropTx
<1> QED
  BY <1>1, <1>2, <1>3, <1>4, <1>5

(* The other tasks keep their part of the invariant.                       *)
LEMMA OtherTasks ==
  ASSUME RomeInv, TransactionInv, NEW t \in Tasks, NEW u \in Tasks, u # t,
         \/ \E j \in Jobs : Start(t, j)
         \/ Compose(t) \/ AdvanceStep(t) \/ Send(t) \/ Resubmit(t) \/ DropTx(t)
  PROVE  TaskInv(u)'
<1>1. /\ pc'[u] = pc[u] /\ job'[u] = job[u] /\ resource'[u] = resource[u]
      /\ tx'[u] = tx[u] /\ step'[u] = step[u] /\ wire'[u] = wire[u]
  BY OthersUntouched
<1>2. UNCHANGED <<holder, disturbed>>
  BY SolanaUntouched DEF solanaVars
<1>3. TaskInv(u)
  BY DEF TransactionInv
<1> QED
  BY <1>1, <1>2, <1>3, OtherTask

(* The composition of a transaction.                                       *)
LEMMA OwnCompose ==
  ASSUME RomeInv, TransactionInv, NEW t \in Tasks,
         (\E j \in Jobs : Start(t, j)) \/ Compose(t)
  PROVE  TaskInv(t)' /\ UNCHANGED late
<1>1. pc[t] # "sending" /\ UNCHANGED netVars
  <2>1. CASE \E j \in Jobs : Start(t, j)
    BY <2>1 DEF Start
  <2>2. CASE Compose(t)
    BY <2>2 DEF Compose, LockResource, NoBuilder, BuildTx, BuildSvmTx, ComposeCrossRollup,
       ComposeCrossChain, ReturnCross, ComposeFails, Unwind
  <2> QED
    BY <2>1, <2>2
<1>2. wire'[t] = {} /\ UNCHANGED late
  BY <1>1 DEF TransactionInv, TaskInv, netVars
<1>3. job'[t] \in Jobs
  <2>1. CASE \E j \in Jobs : Start(t, j)
    BY <2>1 DEF Start, RomeInv, PoolTypeOK
  <2>2. CASE Compose(t)
    <3>1. pc[t] # "idle" /\ job' = job
      BY <2>2 DEF Compose, LockResource, NoBuilder, BuildTx, BuildSvmTx, ComposeCrossRollup,
         ComposeCrossChain, ReturnCross, ComposeFails, Unwind, composeVars
    <3> QED
      BY <3>1 DEF TransactionInv, TaskInv
  <2> QED
    BY <2>1, <2>2
<1>4. CASE \/ \E j \in Jobs : Start(t, j)
           \/ LockResource(t) \/ NoBuilder(t) \/ ComposeFails(t) \/ Unwind(t)
  <2>1. pc'[t] \in {"lock", "build", "done", "unwind"}
    BY <1>4 DEF Start, LockResource, NoBuilder, ComposeFails, Unwind, Goto, RomeInv, PoolTypeOK
  <2> QED
    BY <1>2, <1>3, <2>1 DEF TaskInv, Active
<1>5. CASE ComposeCrossRollup(t) \/ ComposeCrossChain(t)
  <2>1. /\ pc'[t] \in {"lock", "return"}
        /\ job'[t].api \in {"cross_rollup", "cross_chain"}
    BY <1>5 DEF ComposeCrossRollup, ComposeCrossChain, NextTransaction, Goto, RomeInv, PoolTypeOK
  <2> QED
    BY <1>2, <1>3, <2>1 DEF TaskInv, Active
<1>6. pc[t] # "idle" => job[t].chunks \in Nat
  <2>1. pc[t] # "idle" => job[t] \in JobType
    BY RomeTxAssumption DEF TransactionInv, TaskInv
  <2>2. \A j \in JobType : j.chunks \in 0 .. MaxChunks
    BY DEF JobType
  <2> QED
    BY <2>1, <2>2, AdvanceTxAssumption
<1>7. CASE BuildTx(t) \/ BuildSvmTx(t)
  <2>1. pc'[t] = "advance" /\ resource'[t] # NoResource /\ job' = job
    BY <1>7 DEF BuildTx, BuildSvmTx, Goto, composeVars, RomeInv, PoolTypeOK, ControlInv
  <2>2. IsTx(tx'[t]) /\ tx'[t].shape \in Shapes /\ tx'[t].chunks = job[t].chunks
    BY <1>6, <1>7 DEF BuildTx, BuildSvmTx, Composed, compose_iterable, NewTx, IsTx, CutInto,
       TransactionInv, Shapes, HolderShapes, IterativeShapes
  <2> QED
    BY <1>2, <1>3, <2>1, <2>2 DEF TaskInv, Active
<1>8. CASE ReturnCross(t)
  <2>1. pc'[t] = "advance" /\ job' = job
    BY <1>8 DEF ReturnCross, Goto, RomeInv, PoolTypeOK
  <2>2. job[t].api \in {"cross_rollup", "cross_chain"}
    BY <1>8 DEF ReturnCross, TransactionInv, TaskInv
  <2>3. /\ IsTx(tx'[t]) /\ tx'[t].shape \in Shapes /\ tx'[t].shape \notin HolderShapes
        /\ tx'[t].chunks = job[t].chunks
    BY <1>6, <1>8, <2>2 DEF ReturnCross, Composed, NewTx, IsTx, CutInto, TransactionInv, Shapes,
       HolderShapes
  <2> QED
    BY <1>2, <1>3, <2>1, <2>3 DEF TaskInv, Active
<1> QED
  BY <1>2, <1>4, <1>5, <1>7, <1>8 DEF Compose

(* advance: an executing step is handed out for a whole holder, and the    *)
(* transactions of a step are its own.                                     *)
LEMMA OwnAdvance ==
  ASSUME RomeInv, TransactionInv, NEW t \in Tasks, AdvanceStep(t)
  PROVE  TaskInv(t)' /\ UNCHANGED late
<1>1. PICK o \in Advance(tx[t], TableFound(t), Whole(t), t \in executed) :
        /\ tx' = [tx EXCEPT ![t] = o.tx]
        /\ \/ pc' = [pc EXCEPT ![t] = "returned"] /\ UNCHANGED wire
           \/ UNCHANGED <<pc, wire>>
           \/ /\ pc' = [pc EXCEPT ![t] = "sending"] /\ step' = [step EXCEPT ![t] = o.step]
              /\ wire' = [wire EXCEPT ![t] = Sends(t, o.step)]
  BY DEF AdvanceStep, Return, Goto
<1>2. pc[t] = "advance" /\ UNCHANGED <<job, resource, holder, late, disturbed>>
  BY DEF AdvanceStep, composeVars, solanaVars
<1>3. /\ IsTx(tx[t]) /\ tx[t].shape \in Shapes /\ tx[t].chunks = job[t].chunks
      /\ tx[t].shape \in HolderShapes => resource[t] # NoResource
      /\ wire[t] = {} /\ job[t] \in Jobs
  BY <1>2 DEF TransactionInv, TaskInv, Active
<1>4. Whole(t) \in BOOLEAN /\ (t \in executed) \in BOOLEAN
  BY DEF Whole
<1>5. /\ SameTx(tx[t], o.tx) /\ StepOf(tx[t], o.step)
      /\ Executing(o.step) /\ tx[t].shape \in HolderShapes => Whole(t)
  BY <1>3, <1>4, AdvanceOutcomes
<1>6. tx'[t] = o.tx
  BY <1>1 DEF TransactionInv
<1>7. /\ pc'[t] \in Active
      /\ pc'[t] = "sending" => step'[t] = o.step /\ wire'[t] = Sends(t, o.step)
      /\ pc'[t] # "sending" => wire'[t] = {}
  BY <1>1, <1>2, <1>3 DEF RomeInv, PoolTypeOK, TransactionInv, Active
<1>8. /\ IsTx(tx'[t]) /\ tx'[t].shape \in Shapes /\ tx'[t].chunks = job'[t].chunks
      /\ tx'[t].shape \in HolderShapes => resource'[t] # NoResource
  BY <1>2, <1>3, <1>5, <1>6 DEF SameTx
<1>9. pc'[t] = "sending" => StepOf(tx[t], step[t])' /\ wire'[t] \subseteq Sends(t, step[t])'
  <2>1. Sends(t, o.step)' = Sends(t, o.step') /\ (step'[t] = o.step => Sends(t, step[t])' = Sends(t, o.step))
    BY <1>2 DEF Sends, IterationsSent
  <2> QED
    BY <1>5, <1>6, <1>7, <2>1 DEF SameTx, StepOf
<1>10. pc'[t] = "sending" /\ Executing(step'[t]) => Whole(t)'
  BY <1>2, <1>5, <1>6, <1>7 DEF SameTx, Whole
<1> QED
  BY <1>2, <1>3, <1>7, <1>8, <1>9, <1>10 DEF TaskInv, Active, Executing

(* The tower sends, the caller resubmits or drops: no execution is under   *)
(* way afterwards, and what is in flight are chunks of the transaction.    *)
LEMMA OwnSend ==
  ASSUME RomeInv, TransactionInv, NEW t \in Tasks, Send(t) \/ Resubmit(t) \/ DropTx(t)
  PROVE  TaskInv(t)' /\ \A x \in late' : LateTx(x)'
<1> USE DEF RomeInv, PoolTypeOK, TransactionInv, Goto
<1>1. /\ pc[t] \in Active /\ pc'[t] \in {"advance", "returned", "done"} /\ job' = job
      /\ pc'[t] # "done" => UNCHANGED <<tx, resource>>
      /\ \A u \in Tasks : u # t => pc'[u] = pc[u]
  <2>1. CASE Send(t)
    BY <2>1 DEF Send, SendSingle, SendWithSigners, SendParallel, SendUnchecked, WaitNextSlot,
       Answered, Sent, SendFails, Return, Active, composeVars
  <2>2. CASE Resubmit(t) \/ DropTx(t)
    BY <2>2 DEF Resubmit, DropTx, Active, composeVars
  <2> QED
    BY <2>1, <2>2
<1>2. wire'[t] = {} /\ late' \subseteq late \cup wire[t]
  <2>1. CASE Send(t)
    <3>1. pc[t] = "sending"
      BY <2>1 DEF Send, SendSingle, SendWithSigners, SendParallel, SendUnchecked, WaitNextSlot
    <3>2. \/ LeavesBehind(t)
          \/ wire[t] = {} /\ UNCHANGED netVars
          \/ step[t].kind = "WaitNextSlot" /\ UNCHANGED netVars
      BY <2>1 DEF Send, SendSingle, SendWithSigners, SendParallel, SendUnchecked, WaitNextSlot,
         Answered, SendFails
    <3>3. step[t].kind = "WaitNextSlot" => wire[t] = {}
      BY <3>1 DEF TaskInv, Sends
    <3> QED
      BY <3>2, <3>3 DEF LeavesBehind, netVars
  <2>2. CASE Resubmit(t) \/ DropTx(t)
    BY <2>2 DEF Resubmit, DropTx, TaskInv, netVars
  <2> QED
    BY <2>1, <2>2
<1>3. TaskInv(t)'
  <2>1. CASE pc'[t] = "done"
    BY <1>1, <1>2, <2>1 DEF TaskInv, Active
  <2>2. CASE pc'[t] # "done"
    BY <1>1, <1>2, <2>2 DEF TaskInv, Active, IsTx, CutInto
  <2> QED
    BY <2>1, <2>2
<1>4. ASSUME NEW x \in late' PROVE LateTx(x)'
  <2>1. CASE x \in late
    BY <1>1, <2>1 DEF LateTx, Active
  <2>2. CASE x \in wire[t]
    <3>1. pc[t] = "sending" /\ x \in Sends(t, step[t]) /\ StepOf(tx[t], step[t])
      BY <2>2 DEF TaskInv
    <3>2. x.task = t /\ (x.kind = "transmit" => x.n \in step[t].chunks)
      BY <3>1, SentBy
    <3>3. tx[t].chunks = job[t].chunks
      BY <3>1 DEF TaskInv, Active
    <3> QED
      BY <1>1, <3>1, <3>2, <3>3 DEF LateTx, Active, StepOf
  <2> QED
    BY <1>2, <2>1, <2>2
<1> QED
  BY <1>3, <1>4

(* The functions keep their domains.                                       *)
LEMMA DomainsKept ==
  ASSUME TransactionInv, NEW t \in Tasks,
         \/ \E j \in Jobs : Start(t, j)
         \/ Compose(t) \/ AdvanceStep(t) \/ Send(t) \/ Resubmit(t) \/ DropTx(t)
  PROVE  /\ DOMAIN tx' = Tasks /\ DOMAIN step' = Tasks /\ DOMAIN sigs' = Tasks
         /\ DOMAIN result' = Tasks /\ DOMAIN wire' = Tasks /\ DOMAIN holder' = Resources
<1>1. DOMAIN holder' = Resources
  BY SolanaUntouched DEF solanaVars, TransactionInv
<1> USE DEF TransactionInv, towerVars, netVars
<1>2. CASE \E j \in Jobs : Start(t, j)
  BY <1>1, <1>2 DEF Start
<1>3. CASE Compose(t)
  BY <1>1, <1>3 DEF Compose, LockResource, NoBuilder, BuildTx, BuildSvmTx, ComposeCrossRollup,
     ComposeCrossChain, ReturnCross, ComposeFails, Unwind, Composed
<1>4. CASE AdvanceStep(t)
  BY <1>1, <1>4 DEF AdvanceStep, Return
<1>5. CASE Send(t)
  BY <1>1, <1>5 DEF Send, SendSingle, SendWithSigners, SendParallel, SendUnchecked, WaitNextSlot,
     Answered, Sent, SendFails, LeavesBehind, Return
<1>6. CASE Resubmit(t) \/ DropTx(t)
  BY <1>1, <1>6 DEF Resubmit, DropTx
<1> QED
  BY <1>2, <1>3, <1>4, <1>5, <1>6

(* The transactions of other tasks go to other resources.                  *)
LEMMA LandsStep ==
  ASSUME RomeInv, TransactionInv, NEW t \in Tasks, NEW x \in wire[t], Lands(t, x)
  PROVE  TransactionInv'
<1>1. UNCHANGED <<pc, job, resource, tx, step, sigs, result, late, disturbed>>
  BY DEF Lands, composeVars, towerVars
<1>2. pc[t] = "sending" /\ x \in Sends(t, step[t])
  BY DEF TransactionInv, TaskInv
<1>3. x.res = resource[t] /\ (x.kind = "transmit" => ~Executing(step[t]))
  BY <1>2, SentBy DEF Executing
<1>4. /\ DOMAIN holder' = Resources
      /\ \A r \in Resources : x.kind # "transmit" \/ r # x.res => holder'[r] = holder[r]
  BY EffectOnHolder DEF Lands, TransactionInv
<1>5. DOMAIN wire' = Tasks /\ \A u \in Tasks : wire'[u] \subseteq wire[u]
  BY DEF Lands, TransactionInv
<1>6. ASSUME NEW u \in Tasks PROVE TaskInv(u)'
  <2>1. ASSUME Executing(step[u]), resource[u] # NoResource
        PROVE  holder'[resource[u]] = holder[resource[u]]
    <3>1. resource[u] \in Resources
      BY <2>1 DEF RomeInv, PoolTypeOK
    <3>2. x.kind # "transmit" \/ resource[u] # x.res
      BY <1>3, <2>1, <3>1 DEF RomeInv, PoolInv
    <3> QED
      BY <1>4, <3>1, <3>2
  <2>2. TaskInv(u)
    BY DEF TransactionInv
  <2> QED
    BY <1>1, <1>5, <2>1, <2>2, OtherTask
<1>7. ASSUME NEW y \in late' PROVE LateTx(y)'
  BY <1>1, <1>7 DEF TransactionInv, LateTx
<1> QED
  BY <1>1, <1>4, <1>5, <1>6, <1>7 DEF TransactionInv

(* A late transaction of another task leaves its mark, and one of the task *)
(* itself brings a chunk the whole holder has.                             *)
LEMMA LandsLateStep ==
  ASSUME RomeInv, TransactionInv, NEW x \in late, LandsLate(x)
  PROVE  TransactionInv'
<1>1. UNCHANGED <<pc, job, resource, tx, step, sigs, result, wire>> /\ late' \subseteq late
  BY DEF LandsLate, composeVars, towerVars
<1>2. /\ disturbed \subseteq disturbed'
      /\ \A u \in Tasks \ {x.task} :
           resource[u] = x.res /\ x.kind = "transmit" => <<u, "holder">> \in disturbed'
  BY DEF LandsLate, Account
<1>3. /\ DOMAIN holder' = Resources
      /\ \A r \in Resources :
           holder'[r] = IF x.kind = "transmit" /\ r = x.res
                          THEN Received(holder[r], x.task, x.n) ELSE holder[r]
  BY EffectOnHolder DEF LandsLate, TransactionInv
<1>4. LateTx(x)
  BY DEF TransactionInv
<1>5. ASSUME NEW u \in Tasks PROVE TaskInv(u)'
  <2>1. TaskInv(u)
    BY DEF TransactionInv
  <2>2. ASSUME pc[u] = "sending", resource[u] # NoResource, <<u, "holder">> \notin disturbed',
               Whole(u), tx[u].shape \in HolderShapes
        PROVE  holder'[resource[u]] = holder[resource[u]]
    <3>1. resource[u] \in Resources
      BY <2>2 DEF RomeInv, PoolTypeOK
    <3>2. CASE x.kind # "transmit" \/ resource[u] # x.res
      BY <1>3, <3>1, <3>2
    <3>3. CASE x.kind = "transmit" /\ resource[u] = x.res
      <4>1. u = x.task
        BY <1>2, <2>2, <3>3
      <4>2. x.n \in 1 .. tx[u].chunks
        BY <1>4, <2>1, <2>2, <3>3, <4>1 DEF LateTx, TaskInv, Active
      <4>3. holder[resource[u]] = [hash |-> u, chunks |-> 1 .. tx[u].chunks]
        BY <2>2 DEF Whole
      <4>4. holder'[resource[u]] = Received(holder[resource[u]], u, x.n)
        BY <1>3, <3>1, <3>3, <4>1
      <4> QED
        BY <4>2, <4>3, <4>4, ReceivedAgain
    <3> QED
      BY <3>2, <3>3
  <2> QED
    BY <1>1, <1>2, <2>1, <2>2, OtherTask
<1>6. ASSUME NEW y \in late' PROVE LateTx(y)'
  BY <1>1, <1>6 DEF TransactionInv, LateTx
<1> QED
  BY <1>1, <1>3, <1>5, <1>6 DEF TransactionInv

(* Every step keeps TransactionInv.                                        *)
LEMMA TransactionStep ==
  ASSUME RomeInv, TransactionInv, [Next]_vars
  PROVE  TransactionInv'
<1>1. CASE UNCHANGED vars \/ NextSlot
  <2>1. UNCHANGED <<pc, job, resource, tx, step, sigs, result, wire, late, holder, disturbed>>
    BY <1>1 DEF vars, composeVars, towerVars, netVars, solanaVars, NextSlot
  <2>2. ASSUME NEW u \in Tasks PROVE TaskInv(u)'
    BY <2>1, OtherTask DEF TransactionInv
  <2>3. \A x \in late : LateTx(x)'
    BY <2>1 DEF TransactionInv, LateTx
  <2> QED
    BY <2>1, <2>2, <2>3 DEF TransactionInv
<1>2. ASSUME NEW t \in Tasks,
             \/ \E j \in Jobs : Start(t, j)
             \/ Compose(t) \/ AdvanceStep(t) \/ Send(t) \/ Resubmit(t) \/ DropTx(t)
      PROVE  TransactionInv'
  <2>1. TaskInv(t)'
    BY <1>2, OwnCompose, OwnAdvance, OwnSend
  <2>2. ASSUME NEW u \in Tasks, u # t PROVE TaskInv(u)'
    BY <1>2, <2>2, OtherTasks
  <2>3. /\ DOMAIN tx' = Tasks /\ DOMAIN step' = Tasks /\ DOMAIN sigs' = Tasks
        /\ DOMAIN result' = Tasks /\ DOMAIN wire' = Tasks /\ DOMAIN holder' = Resources
    BY <1>2, DomainsKept
  <2>4. \A x \in late' : LateTx(x)'
    <3>1. CASE (\E j \in Jobs : Start(t, j)) \/ Compose(t) \/ AdvanceStep(t)
      <4>1. UNCHANGED late
        BY <3>1, OwnCompose, OwnAdvance
      <4>2. ASSUME NEW x \in late PROVE LateTx(x)'
        <5>1. LateTx(x)
          BY DEF TransactionInv
        <5>2. CASE x.task # t
          BY <1>2, <5>1, <5>2, OthersUntouched DEF LateTx
        <5>3. CASE x.task = t
          <6>1. AdvanceStep(t)
            BY <3>1, <5>1, <5>3 DEF LateTx, Active, Start, Compose, LockResource, NoBuilder,
               BuildTx, BuildSvmTx, ComposeCrossRollup, ComposeCrossChain, ReturnCross,
               ComposeFails, Unwind
          <6>2. pc'[t] \in Active /\ job' = job
            BY <6>1 DEF AdvanceStep, Return, Goto, Active, RomeInv, PoolTypeOK, composeVars
          <6> QED
            BY <5>1, <5>3, <6>2 DEF LateTx
        <5> QED
          BY <5>2, <5>3
      <4> QED
        BY <4>1, <4>2
    <3>2. CASE Send(t) \/ Resubmit(t) \/ DropTx(t)
      BY <3>2, OwnSend
    <3> QED
      BY <1>2, <3>1, <3>2
  <2> QED
    BY <2>1, <2>2, <2>3, <2>4 DEF TransactionInv
<1>3. ASSUME NEW t \in Tasks, NEW x \in wire[t], Lands(t, x) PROVE TransactionInv'
  BY <1>3, LandsStep
<1>4. ASSUME NEW x \in late, LandsLate(x) PROVE TransactionInv'
  BY <1>4, LandsLateStep
<1> QED
  BY <1>1, <1>2, <1>3, <1>4 DEF Next

(* An instruction that executes from a holder account is under way only    *)
(* while the account holds this transaction, whole, on any number of calls *)
(* and whatever was lost, arrives late or is sent by other tasks, unless a *)
(* late transaction of another task arrived in the account.                *)
THEOREM HolderWholeCorrect == Spec => []HolderWholeWhenExecuted
<1>1. Init => TransactionInv
  BY DEF Init, TransactionInv, TaskInv, Active
<1>2. RomeInv /\ TransactionInv /\ [Next]_vars => TransactionInv'
  BY TransactionStep
<1>3. TransactionInv => HolderWholeWhenExecuted
  BY DEF TransactionInv, TaskInv, HolderWholeWhenExecuted, Executing
<1> QED
  BY <1>1, <1>2, <1>3, RomeInvariant, PTL DEF Spec

-----------------------------------------------------------------------------
(* A signature is returned only for an executed transaction.  The tower    *)
(* returns at the step End.  A machine gets there with its last execution  *)
(* or with its confirmation, or with an error; after an error the list of  *)
(* signatures is empty when the machine is asked again.                    *)

(* The steps a machine can be in.                                          *)
WellFormed(x) ==
  /\ IsTx(x) /\ x.shape \in Shapes /\ x.outer \in {"Plain", "Alt", "Execute"}
  /\ \/ x.step \in {"Execute", "End"}
     \/ x.step = "Confirm" /\ x.shape \in IterativeShapes
     \/ x.step = "Transmit" /\ x.shape \in HolderShapes
  /\ x.outer = "Alt" => x.step = "Execute"

LastKinds == {"Single", "SingleWithSigners", "Confirmed", "NotConfirmed", "Err", "Panic"}

(* How a machine gets to its end and what it hands out there.              *)
EndsWell(x, o, confirmed) ==
  /\ WellFormed(o.tx) /\ "kind" \in DOMAIN o.step
  /\ x.step = "End" => o.step.kind = "End" /\ o.tx.step = "End"
  /\ x.step # "End" => o.step.kind # "End"
  /\ x.step # "End" /\ o.tx.step = "End" => o.step.kind \in LastKinds
  /\ o.step.kind = "Confirmed" => confirmed

(* The machines that execute get to their end with their last transaction, *)
(* their confirmation or an error, and hand out End there alone.           *)
LEMMA IterableEnds ==
  ASSUME NEW x, WellFormed(x), x.outer # "Alt", NEW whole \in BOOLEAN,
         NEW confirmed \in BOOLEAN, NEW o \in IterableAdvance(x, whole, confirmed)
  PROVE  EndsWell(x, o, confirmed)
<1> USE DEF Outcome, Simple, Step, IsTx, WellFormed, EndsWell, LastKinds, HolderShapes,
            IterativeShapes
<1>1. ASSUME NEW y, WellFormed(y), y.outer # "Alt", y.step # "End", y.shape \in HolderShapes,
             NEW q \in AtomicHolderExecute(y, whole)
      PROVE  EndsWell(y, q, confirmed)
  BY <1>1 DEF AtomicHolderExecute
<1>2. ASSUME NEW y, WellFormed(y), y.outer # "Alt", y.step # "End", y.shape = "iterative_holder",
             NEW q \in IterativeHolderExecute(y, whole)
      PROVE  EndsWell(y, q, confirmed)
  BY <1>2 DEF IterativeHolderExecute
<1>3. ASSUME NEW q \in TransmitAdvance(x)
      PROVE  /\ WellFormed(q.tx) /\ SameTx(x, q.tx) /\ SameStep(x, q.tx)
             /\ q.step.kind \in {"Parallel", "End", "Err"} /\ "kind" \in DOMAIN q.step
  BY <1>3, TransmitOutcomes DEF SameTx, SameStep, StepOf
<1>4. CASE x.shape \in {"atomic", "atomic_svm", "cross_rollup", "cross_chain"}
  BY <1>4 DEF IterableAdvance, AtomicAdvance, AtomicSvmAdvance, CrossRollupAdvance,
     CrossChainAdvance, ExecuteOnce
<1>5. CASE x.shape = "iterative"
  <2>1. o \in IterativeAdvance(x, confirmed)
    BY <1>5 DEF IterableAdvance
  <2> QED
    BY <1>5, <2>1 DEF IterativeAdvance
<1>6. CASE x.shape = "atomic_holder"
  <2>1. o \in AtomicHolderAdvance(x, whole)
    BY <1>6 DEF IterableAdvance
  <2>2. CASE x.step = "Transmit"
    <3>1. \/ o \in TransmitAdvance(x) /\ o.step.kind # "End"
          \/ \E p \in TransmitAdvance(x) : o \in AtomicHolderExecute(p.tx, whole)
      BY <2>1, <2>2 DEF AtomicHolderAdvance, ThenExecute
    <3>2. CASE o \in TransmitAdvance(x) /\ o.step.kind # "End"
      BY <1>3, <2>2, <3>2 DEF SameStep
    <3>3. ASSUME NEW p \in TransmitAdvance(x), o \in AtomicHolderExecute(p.tx, whole)
          PROVE  EndsWell(x, o, confirmed)
      <4>1. EndsWell(p.tx, o, confirmed)
        BY <1>1, <1>3, <1>6, <2>2, <3>3 DEF SameTx, SameStep
      <4> QED
        BY <1>3, <2>2, <4>1 DEF SameStep
    <3> QED
      BY <3>1, <3>2, <3>3
  <2>3. CASE x.step = "Execute"
    BY <1>1, <1>6, <2>1, <2>3 DEF AtomicHolderAdvance
  <2>4. CASE x.step = "End"
    BY <2>1, <2>4 DEF AtomicHolderAdvance
  <2> QED
    BY <1>6, <2>2, <2>3, <2>4
<1>7. CASE x.shape = "iterative_holder"
  <2>1. o \in IterativeHolderAdvance(x, whole, confirmed)
    BY <1>7 DEF IterableAdvance
  <2>2. CASE x.step = "Transmit"
    <3>1. \/ o \in TransmitAdvance(x) /\ o.step.kind # "End"
          \/ \E p \in TransmitAdvance(x) : o \in IterativeHolderExecute(p.tx, whole)
      BY <2>1, <2>2 DEF IterativeHolderAdvance, ThenExecute
    <3>2. CASE o \in TransmitAdvance(x) /\ o.step.kind # "End"
      BY <1>3, <2>2, <3>2 DEF SameStep
    <3>3. ASSUME NEW p \in TransmitAdvance(x), o \in IterativeHolderExecute(p.tx, whole)
          PROVE  EndsWell(x, o, confirmed)
      <4>1. EndsWell(p.tx, o, confirmed)
        BY <1>2, <1>3, <1>7, <2>2, <3>3 DEF SameTx, SameStep
      <4> QED
        BY <1>3, <2>2, <4>1 DEF SameStep
    <3> QED
      BY <3>1, <3>2, <3>3
  <2>3. CASE x.step = "Execute"
    BY <1>2, <1>7, <2>1, <2>3 DEF IterativeHolderAdvance
  <2>4. CASE x.step = "Confirm"
    BY <1>7, <2>1, <2>4 DEF IterativeHolderAdvance
  <2>5. CASE x.step = "End"
    BY <2>1, <2>5 DEF IterativeHolderAdvance
  <2> QED
    BY <2>2, <2>3, <2>4, <2>5
<1> QED
  BY <1>4, <1>5, <1>6, <1>7 DEF Shapes

(* The same for the transactions wrapped with a lookup table: the parts    *)
(* AltTx and TransmitTx never are the end.                                 *)
LEMMA AdvanceEnds ==
  ASSUME NEW x, WellFormed(x), NEW found, NEW whole \in BOOLEAN,
         NEW confirmed \in BOOLEAN, NEW o \in Advance(x, found, whole, confirmed)
  PROVE  EndsWell(x, o, confirmed)
<1> DEFINE Passed(p) == /\ WellFormed(p.tx) /\ p.tx.step = x.step /\ p.tx.outer = x.outer
                        /\ "kind" \in DOMAIN p.step /\ p.step.kind # "Confirmed"
<1>1. ASSUME NEW y, WellFormed(y), y.outer # "Alt",
             NEW q \in AdvanceWithVersion(y, whole, confirmed)
      PROVE  EndsWell(y, q, confirmed)
  <2>1. PICK p \in IterableAdvance(y, whole, confirmed) :
          q = IF p.step.kind \in {"Single", "ParallelUnchecked"}
                THEN Outcome([p.step EXCEPT !.ver = "V0"], p.tx) ELSE p
    BY <1>1 DEF AdvanceWithVersion
  <2>2. EndsWell(y, p, confirmed)
    BY <1>1, IterableEnds
  <2>3. /\ q.tx = p.tx /\ q.step.kind = p.step.kind
        /\ "kind" \in DOMAIN p.step => "kind" \in DOMAIN q.step
    BY <2>1, <2>2 DEF Outcome, EndsWell
  <2> QED
    BY <2>2, <2>3 DEF EndsWell
<1>2. ASSUME NEW p, Passed(p), x.outer = "Alt", NEW q \in EnterExecute(p.tx, whole, confirmed)
      PROVE  EndsWell(x, q, confirmed)
  <2> DEFINE z == [p.tx EXCEPT !.outer = "Execute"]
  <2>1. WellFormed(z) /\ z.outer # "Alt" /\ z.step = x.step
    BY <1>2 DEF WellFormed, IsTx
  <2>2. \/ q = Outcome(Simple("Err"), p.tx) \/ q = Outcome(Simple("Panic"), p.tx)
        \/ q \in AdvanceWithVersion(z, whole, confirmed)
    BY <1>2 DEF EnterExecute
  <2> HIDE DEF z
  <2>3. CASE q \in AdvanceWithVersion(z, whole, confirmed)
    BY <1>1, <2>1, <2>3 DEF EndsWell
  <2>4. x.step = "Execute"
    BY <1>2 DEF WellFormed
  <2> QED
    BY <1>2, <2>2, <2>3, <2>4 DEF Outcome, Simple, Step, EndsWell
<1>3. ASSUME NEW p, Passed(p), x.outer = "Alt", p.step.kind # "End"
      PROVE  EndsWell(x, p, confirmed)
  BY <1>3 DEF EndsWell, WellFormed
<1>4. ASSUME NEW p \in AltAdvance(x, found) PROVE Passed(p)
  <2>1. /\ SameTx(x, p.tx) /\ SameStep(x, p.tx) /\ "kind" \in DOMAIN p.step
        /\ p.step.kind \in {"Parallel", "WaitNextSlot", "End", "Err", "Panic"}
    BY <1>4, AltOutcomes DEF WellFormed, StepOf
  <2> QED
    BY <2>1 DEF SameTx, SameStep, WellFormed
<1>5. ASSUME NEW a, Passed(a), NEW p \in TransmitAdvance(a.tx)
      PROVE  Passed(p) /\ p.step.kind \in {"Parallel", "End", "Err"}
  <2>1. /\ SameTx(a.tx, p.tx) /\ SameStep(a.tx, p.tx)
        /\ p.step.kind \in {"Parallel", "End", "Err"} /\ "kind" \in DOMAIN p.step
    BY <1>5, TransmitOutcomes DEF WellFormed, StepOf
  <2> QED
    BY <1>5, <2>1 DEF SameTx, SameStep, WellFormed
<1>6. CASE x.outer = "Plain"
  <2>1. o \in IterableAdvance(x, whole, confirmed)
    BY <1>6 DEF Advance
  <2> QED
    BY <1>6, <2>1, IterableEnds
<1>7. CASE x.outer = "Execute"
  <2>1. o \in AdvanceWithVersion(x, whole, confirmed)
    BY <1>7 DEF Advance
  <2> QED
    BY <1>1, <1>7, <2>1
<1>8. CASE x.outer = "Alt" /\ x.shape \notin HolderShapes
  <2>1. \/ o \in AltAdvance(x, found) /\ o.step.kind # "End"
        \/ \E p \in AltAdvance(x, found) : o \in EnterExecute(p.tx, whole, confirmed)
    BY <1>8 DEF Advance, AltComposedAdvance, ThenExecute
  <2> HIDE DEF Passed
  <2> QED
    BY <1>2, <1>3, <1>4, <1>8, <2>1
<1>9. CASE x.outer = "Alt" /\ x.shape \in HolderShapes
  <2> DEFINE failed(q) == q.step.kind \in {"Err", "Panic"}
             alts == AltAdvance(x, found)
             joined == UNION {{IF failed(b) THEN b
                                ELSE Outcome(join_parallel(a.step, b.step), b.tx) :
                                b \in TransmitAdvance(a.tx)} : a \in {q \in alts : ~failed(q)}}
  <2>1. \/ o \in alts /\ failed(o)
        \/ o \in joined /\ o.step.kind # "End"
        \/ \E p \in joined : o \in EnterExecute(p.tx, whole, confirmed)
    BY <1>9 DEF Advance, AltComposedHolderAdvance, ThenExecute
  <2>2. ASSUME NEW p \in joined PROVE Passed(p)
    <3>1. PICK a \in alts : \E b \in TransmitAdvance(a.tx) :
            p = IF failed(b) THEN b ELSE Outcome(join_parallel(a.step, b.step), b.tx)
      BY <2>2
    <3>2. PICK b \in TransmitAdvance(a.tx) :
            p = IF failed(b) THEN b ELSE Outcome(join_parallel(a.step, b.step), b.tx)
      BY <3>1
    <3>3. Passed(a)
      BY <1>4
    <3>4. Passed(b)
      BY <1>5, <3>3
    <3>5. p.tx = b.tx /\ p.step \in {b.step, [b.step EXCEPT !.alt = TRUE], a.step}
      BY <3>2 DEF Outcome, join_parallel
    <3>6. /\ [b.step EXCEPT !.alt = TRUE].kind = b.step.kind
          /\ "kind" \in DOMAIN [b.step EXCEPT !.alt = TRUE]
      BY <3>4
    <3> QED
      BY <3>3, <3>4, <3>5, <3>6
  <2> HIDE DEF joined, Passed
  <2> QED
    BY <1>2, <1>3, <1>4, <1>9, <2>1, <2>2
<1> QED
  BY <1>6, <1>7, <1>8, <1>9 DEF WellFormed

(* A machine at its end has nothing collected or is executed, or its last  *)
(* transaction is under way.                                               *)
LastSent(t) == step[t].kind \in {"Single", "SingleWithSigners"}

OkTask(t) ==
  /\ pc[t] \in Active => WellFormed(tx[t])
  /\ pc[t] = "advance" /\ tx[t].step = "End" => sigs[t] = 0 \/ t \in executed
  /\ pc[t] = "sending" /\ tx[t].step = "End" => LastSent(t)
  /\ pc[t] = "sending" /\ LastSent(t) => wire[t] # {} \/ t \in executed
  /\ result[t] = "ok" => t \in executed

(* A new machine is not at its end.                                        *)
LEMMA OkCompose ==
  ASSUME RomeInv, TransactionInv, NEW t \in Tasks, OkTask(t),
         (\E j \in Jobs : Start(t, j)) \/ Compose(t)
  PROVE  OkTask(t)'
<1> USE DEF RomeInv, PoolTypeOK, TransactionInv, Goto
<1>0. executed \subseteq executed'
  BY SolanaUntouched DEF solanaVars
<1>1. result'[t] \in {result[t], "err"}
  <2>1. CASE \E j \in Jobs : Start(t, j)
    BY <2>1 DEF Start, towerVars
  <2>2. CASE Compose(t)
    BY <2>2 DEF Compose, LockResource, NoBuilder, BuildTx, BuildSvmTx, ComposeCrossRollup,
       ComposeCrossChain, ReturnCross, ComposeFails, Unwind, Composed, towerVars
  <2> QED
    BY <2>1, <2>2
<1>2. CASE \/ \E j \in Jobs : Start(t, j)
           \/ LockResource(t) \/ NoBuilder(t) \/ ComposeFails(t) \/ Unwind(t)
           \/ ComposeCrossRollup(t) \/ ComposeCrossChain(t)
  <2>1. pc'[t] \in {"lock", "build", "done", "unwind", "return"}
    BY <1>2 DEF Start, LockResource, NoBuilder, ComposeFails, Unwind, ComposeCrossRollup,
       ComposeCrossChain, NextTransaction
  <2> QED
    BY <1>0, <1>1, <2>1 DEF OkTask, Active
<1>3. CASE BuildTx(t) \/ BuildSvmTx(t) \/ ReturnCross(t)
  <2>1. pc'[t] = "advance"
    BY <1>3 DEF BuildTx, BuildSvmTx, ReturnCross
  <2>2. IsTx(tx'[t])
    <3>1. TaskInv(t)'
      BY OwnCompose
    <3> QED
      BY <2>1, <3>1 DEF TaskInv, Active, IsTx, CutInto
  <2>3. WellFormed(tx'[t]) /\ tx'[t].step # "End"
    <3>1. CASE BuildTx(t)
      BY <2>2, <3>1 DEF BuildTx, Composed, compose_iterable, NewTx, WellFormed, Shapes,
         HolderShapes, IterativeShapes
    <3>2. CASE BuildSvmTx(t)
      BY <2>2, <3>2 DEF BuildSvmTx, Composed, NewTx, WellFormed, Shapes, HolderShapes
    <3>3. CASE ReturnCross(t)
      <4>1. job[t].api \in {"cross_rollup", "cross_chain"}
        BY <3>3 DEF ReturnCross, TaskInv
      <4> QED
        BY <2>2, <3>3, <4>1 DEF ReturnCross, Composed, NewTx, WellFormed, Shapes, HolderShapes
    <3> QED
      BY <1>3, <3>1, <3>2, <3>3
  <2> QED
    BY <1>0, <1>1, <2>1, <2>3 DEF OkTask, Active
<1> QED
  BY <1>2, <1>3 DEF Compose

(* The tower returns a signature at the step End alone.                    *)
LEMMA OkAdvance ==
  ASSUME RomeInv, TransactionInv, NEW t \in Tasks, OkTask(t), AdvanceStep(t)
  PROVE  OkTask(t)'
<1> DEFINE Silent == {"Err", "NotConfirmed", "Panic"}
<1>1. PICK o \in Advance(tx[t], TableFound(t), Whole(t), t \in executed) :
        /\ tx' = [tx EXCEPT ![t] = o.tx]
        /\ \/ /\ o.step.kind \in Silent
              /\ \E res \in {"err", "panic"} : Return(t, res)
           \/ o.step.kind = "End" /\ Return(t, IF sigs[t] = 0 THEN "panic" ELSE "ok")
           \/ o.step.kind = "Confirmed" /\ UNCHANGED <<pc, result>>
           \/ /\ o.step.kind \notin Silent \cup {"End", "Confirmed"}
              /\ step' = [step EXCEPT ![t] = o.step]
              /\ wire' = [wire EXCEPT ![t] = Sends(t, o.step)]
              /\ Goto(t, "sending") /\ UNCHANGED result
  BY DEF AdvanceStep
<1>2. pc[t] = "advance" /\ UNCHANGED executed
  BY DEF AdvanceStep, solanaVars
<1>3. WellFormed(tx[t])
  BY <1>2 DEF OkTask, Active
<1>4. EndsWell(tx[t], o, t \in executed)
  <2>1. Whole(t) \in BOOLEAN /\ (t \in executed) \in BOOLEAN
    BY DEF Whole
  <2> QED
    BY <1>3, <2>1, AdvanceEnds
<1>5. tx'[t] = o.tx /\ WellFormed(tx'[t])
  BY <1>1, <1>4 DEF TransactionInv, EndsWell
<1> USE DEF RomeInv, PoolTypeOK, TransactionInv, Goto, Return, Active
<1>6. CASE o.step.kind \in Silent
  <2>1. pc'[t] = "returned" /\ result'[t] # "ok"
    BY <1>1, <1>6
  <2> QED
    BY <1>5, <2>1 DEF OkTask
<1>7. CASE o.step.kind = "End"
  <2>1. pc'[t] = "returned" /\ (result'[t] = "ok" => sigs[t] # 0)
    BY <1>1, <1>7
  <2>2. tx[t].step = "End"
    BY <1>4, <1>7 DEF EndsWell
  <2> QED
    BY <1>2, <1>5, <2>1, <2>2 DEF OkTask
<1>8. CASE o.step.kind = "Confirmed"
  <2>1. pc'[t] = "advance" /\ result'[t] = result[t] /\ t \in executed
    BY <1>1, <1>2, <1>4, <1>8 DEF EndsWell
  <2> QED
    BY <1>2, <1>5, <2>1 DEF OkTask
<1>9. CASE o.step.kind \notin Silent \cup {"End", "Confirmed"}
  <2>1. /\ pc'[t] = "sending" /\ result'[t] = result[t] /\ step'[t] = o.step
        /\ wire'[t] = Sends(t, o.step)
    BY <1>1, <1>9
  <2>3. o.step.kind \in {"Single", "SingleWithSigners"} => Sends(t, o.step) # {}
    BY DEF Sends
  <2>2. o.tx.step = "End" => o.step.kind \in {"Single", "SingleWithSigners"}
    BY <1>4, <1>9 DEF EndsWell, LastKinds
  <2> QED
    BY <1>2, <1>5, <2>1, <2>2, <2>3 DEF OkTask, LastSent
<1> QED
  BY <1>6, <1>7, <1>8, <1>9

(* An answer Ok to the last transaction of a machine means that it landed; *)
(* a call that starts over has collected nothing.                          *)
LEMMA OkSend ==
  ASSUME RomeInv, TransactionInv, NEW t \in Tasks, OkTask(t),
         Send(t) \/ Resubmit(t) \/ DropTx(t)
  PROVE  OkTask(t)'
<1> USE DEF RomeInv, PoolTypeOK, TransactionInv, Goto, Return, Active
<1>1. executed' = executed
  BY SolanaUntouched DEF solanaVars
<1>2. CASE Send(t)
  <2>1. pc[t] = "sending" /\ tx' = tx
    BY <1>2 DEF Send, SendSingle, SendWithSigners, SendParallel, SendUnchecked, WaitNextSlot
  <2>2. \/ pc'[t] = "returned" /\ result'[t] = "err"
        \/ /\ pc'[t] = "advance" /\ result'[t] = result[t]
           /\ LastSent(t) => wire[t] = {}
    BY <1>2 DEF Send, SendSingle, SendWithSigners, SendParallel, SendUnchecked, WaitNextSlot,
       Answered, Sent, SendFails, LastSent
  <2> QED
    BY <1>1, <2>1, <2>2 DEF OkTask
<1>3. CASE Resubmit(t)
  <2>1. /\ pc[t] = "returned" /\ pc'[t] = "advance" /\ tx' = tx /\ sigs'[t] = 0
        /\ result'[t] = "none"
    BY <1>3 DEF Resubmit
  <2> QED
    BY <2>1 DEF OkTask
<1>4. CASE DropTx(t)
  <2>1. pc'[t] = "done" /\ result'[t] = result[t]
    BY <1>4 DEF DropTx
  <2> QED
    BY <1>1, <2>1 DEF OkTask
<1> QED
  BY <1>2, <1>3, <1>4

(* The transaction of the last step is executed when it lands.             *)
LEMMA OkLands ==
  ASSUME TransactionInv, NEW t \in Tasks, OkTask(t), NEW x \in wire[t], Lands(t, x)
  PROVE  OkTask(t)'
<1>1. UNCHANGED <<pc, tx, step, sigs, result>>
  BY DEF Lands, towerVars
<1>2. executed \subseteq executed'
  BY EffectOnHolder DEF Lands, TransactionInv
<1>3. ASSUME pc[t] = "sending", LastSent(t) PROVE t \in executed'
  <2>1. x \in Sends(t, step[t])
    BY <1>3 DEF TransactionInv, TaskInv
  <2>2. x.kind = "execute" /\ x.task = t
    BY <1>3, <2>1, SentBy DEF LastSent
  <2> QED
    BY <2>2 DEF Lands, Effect
<1> QED
  BY <1>1, <1>2, <1>3 DEF OkTask, LastSent, WellFormed, IsTx, CutInto

(* A step that leaves a task alone leaves the claim about it alone.        *)
LEMMA OkOther ==
  ASSUME NEW u \in Tasks, OkTask(u), pc'[u] = pc[u], tx'[u] = tx[u], step'[u] = step[u],
         sigs'[u] = sigs[u], result'[u] = result[u], wire'[u] = wire[u],
         executed \subseteq executed'
  PROVE  OkTask(u)'
BY DEF OkTask, LastSent, WellFormed, IsTx, CutInto

(* Every step keeps the claim about every task.                            *)
LEMMA OkStep ==
  ASSUME RomeInv, TransactionInv, \A t \in Tasks : OkTask(t), [Next]_vars
  PROVE  \A t \in Tasks : OkTask(t)'
<1>1. CASE UNCHANGED vars \/ NextSlot
  <2>1. UNCHANGED <<pc, tx, step, sigs, result, wire, executed>>
    BY <1>1 DEF vars, composeVars, towerVars, netVars, solanaVars, NextSlot
  <2> QED
    BY <2>1, OkOther
<1>2. ASSUME NEW t \in Tasks,
             \/ \E j \in Jobs : Start(t, j)
             \/ Compose(t) \/ AdvanceStep(t) \/ Send(t) \/ Resubmit(t) \/ DropTx(t),
             NEW u \in Tasks
      PROVE  OkTask(u)'
  <2>1. CASE u = t
    BY <1>2, <2>1, OkCompose, OkAdvance, OkSend
  <2>2. CASE u # t
    <3>1. /\ pc'[u] = pc[u] /\ tx'[u] = tx[u] /\ step'[u] = step[u] /\ sigs'[u] = sigs[u]
          /\ result'[u] = result[u] /\ wire'[u] = wire[u]
      BY <1>2, <2>2, OthersUntouched
    <3>2. executed' = executed
      BY <1>2, SolanaUntouched DEF solanaVars
    <3> QED
      BY <3>1, <3>2, OkOther
  <2> QED
    BY <2>1, <2>2
<1>3. ASSUME NEW t \in Tasks, NEW x \in wire[t], Lands(t, x), NEW u \in Tasks
      PROVE  OkTask(u)'
  <2>1. CASE u = t
    BY <1>3, <2>1, OkLands
  <2>2. CASE u # t
    <3>1. UNCHANGED <<pc, tx, step, sigs, result>> /\ wire'[u] = wire[u]
      BY <1>3, <2>2 DEF Lands, towerVars, TransactionInv
    <3>2. executed \subseteq executed'
      BY <1>3, EffectOnHolder DEF Lands, TransactionInv
    <3> QED
      BY <3>1, <3>2, OkOther
  <2> QED
    BY <2>1, <2>2
<1>4. ASSUME NEW x \in late, LandsLate(x), NEW u \in Tasks PROVE OkTask(u)'
  <2>1. UNCHANGED <<pc, tx, step, sigs, result, wire>>
    BY <1>4 DEF LandsLate, towerVars
  <2>2. executed \subseteq executed'
    BY <1>4, EffectOnHolder DEF LandsLate, TransactionInv
  <2> QED
    BY <2>1, <2>2, OkOther
<1> QED
  BY <1>1, <1>2, <1>3, <1>4 DEF Next

(* Rome::send_and_confirm returns a signature only for a transaction that  *)
(* was executed, for every type of transaction, with or without a lookup   *)
(* table, and after any number of failed calls.                            *)
THEOREM OkMeansExecutedCorrect == Spec => []OkMeansExecuted
<1> DEFINE OkInv == \A t \in Tasks : OkTask(t)
<1>1. Init => OkInv /\ TransactionInv
  BY DEF Init, OkTask, TransactionInv, TaskInv, Active
<1>2. RomeInv /\ TransactionInv /\ OkInv /\ [Next]_vars => OkInv' /\ TransactionInv'
  BY OkStep, TransactionStep
<1>3. OkInv => OkMeansExecuted
  BY DEF OkTask, OkMeansExecuted
<1> QED
  BY <1>1, <1>2, <1>3, RomeInvariant, PTL DEF Spec

-----------------------------------------------------------------------------
(* Type correctness.  What is not obvious of it is that the machines keep  *)
(* their types, the batches of chunks among them, and that a task has a    *)
(* job when its transaction is built.                                      *)

(* The items are cut into sequences of subsets of them.                    *)
LEMMA IntoChunksType ==
  ASSUME NEW n \in 0 .. MaxChunks
  PROVE  into_chunks(n, BatchLimit) \in Seq(SUBSET Chunks)
<1> DEFINE len == (n + BatchLimit - 1) \div BatchLimit
<1>1. n \in Nat /\ BatchLimit \in Nat \ {0} /\ MaxChunks \in Nat /\ n <= MaxChunks
  BY AdvanceTxAssumption
<1>2. len \in Nat
  <2>1. n + BatchLimit - 1 \in Nat
    BY <1>1
  <2> QED
    BY <1>1, <2>1
<1> HIDE DEF len
<1>3. \A k \in 1 .. len : {j \in 1 .. n : (j - 1) \div BatchLimit = k - 1} \in SUBSET Chunks
  BY <1>1 DEF Chunks
<1>4. into_chunks(n, BatchLimit)
        = [k \in 1 .. len |-> {j \in 1 .. n : (j - 1) \div BatchLimit = k - 1}]
  BY DEF into_chunks, len
<1> QED
  BY <1>2, <1>3, <1>4

(* The fields that the machines assign.                                    *)
LEMMA TxUpdates ==
  ASSUME NEW x \in Txs
  PROVE  /\ \A s \in {"Transmit", "Execute", "Confirm", "End"} : [x EXCEPT !.step = s] \in Txs
         /\ \A s \in {"Plain", "Alt", "Execute"} : [x EXCEPT !.outer = s] \in Txs
         /\ \A s \in {"Init", "Execute", "Complete"}, b \in Seq(SUBSET Chunks) :
              [x EXCEPT !.transmit = s, !.batches = b] \in Txs
         /\ \A s \in {"Execute", "WaitNextSlot", "End"} : [x EXCEPT !.alt_step = s] \in Txs
         /\ [x EXCEPT !.keys = FALSE] \in Txs
         /\ [x EXCEPT !.keys = FALSE, !.alt_step = "WaitNextSlot"] \in Txs
         /\ [x EXCEPT !.alt_step = "End", !.alt_raw_account = TRUE] \in Txs
BY DEF Txs

(* The steps of the machines.                                              *)
LEMMA SimpleSteps ==
  /\ \A k \in Kinds : Simple(k) \in Steps
  /\ \A c \in SUBSET Chunks, b \in BOOLEAN : Step("Parallel", c, b, "Legacy") \in Steps
BY DEF Simple, Step, Steps, Kinds

TypedOutcome(o) == o.tx \in Txs /\ o.step \in Steps

(* Transmission keeps the types.                                           *)
LEMMA TransmitType ==
  ASSUME NEW x \in Txs, NEW o \in TransmitAdvance(x)
  PROVE  TypedOutcome(o)
<1> DEFINE batches == IF x.transmit = "Init" THEN into_chunks(x.chunks, BatchLimit) ELSE x.batches
           y == [x EXCEPT !.transmit = "Complete", !.batches = <<>>]
           z == [x EXCEPT !.transmit = "Execute", !.batches = Tail(batches)]
<1>1. batches \in Seq(SUBSET Chunks)
  BY IntoChunksType DEF Txs
<1>2. \/ o = Outcome(Simple("End"), y)
      \/ batches # <<>> /\ o = Outcome(Step("Parallel", Head(batches), FALSE, "Legacy"), z)
      \/ o = Outcome(Simple("Err"), x)
  <2> HIDE DEF y, z, batches
  <2> QED
    BY DEF TransmitAdvance, y, z, batches
<1> HIDE DEF batches
<1>3. y \in Txs /\ (batches # <<>> => Head(batches) \in SUBSET Chunks /\ z \in Txs)
  <2>1. <<>> \in Seq(SUBSET Chunks)
    OBVIOUS
  <2>2. batches # <<>> => Head(batches) \in SUBSET Chunks /\ Tail(batches) \in Seq(SUBSET Chunks)
    BY <1>1
  <2> QED
    BY <2>1, <2>2, TxUpdates
<1> HIDE DEF y, z
<1>4. CASE o = Outcome(Simple("End"), y)
  BY <1>3, <1>4, SimpleSteps DEF TypedOutcome, Outcome, Kinds
<1>5. CASE batches # <<>> /\ o = Outcome(Step("Parallel", Head(batches), FALSE, "Legacy"), z)
  BY <1>3, <1>5, SimpleSteps DEF TypedOutcome, Outcome
<1>6. CASE o = Outcome(Simple("Err"), x)
  BY <1>6, SimpleSteps DEF TypedOutcome, Outcome, Kinds
<1> QED
  BY <1>2, <1>4, <1>5, <1>6

(* So do the steps of the lookup table.                                    *)
LEMMA AltType ==
  ASSUME NEW x \in Txs, NEW found, NEW o \in AltAdvance(x, found)
  PROVE  TypedOutcome(o)
<1> DEFINE y == [x EXCEPT !.keys = FALSE]
           z == [x EXCEPT !.keys = FALSE, !.alt_step = "WaitNextSlot"]
           v == [x EXCEPT !.alt_step = "End"]
           w == [x EXCEPT !.alt_step = "End", !.alt_raw_account = TRUE]
<1>1. \/ \E e \in {x, y, v} : o = Outcome(Simple("Err"), e)
      \/ o = Outcome(Step("Parallel", {}, TRUE, "Legacy"), z)
      \/ o = Outcome(Simple("Panic"), x)
      \/ o = Outcome(Simple("WaitNextSlot"), w)
      \/ o = Outcome(Simple("End"), x)
  BY DEF AltAdvance
<1>2. \A e \in {x, y, z, v, w} : e \in Txs
  BY TxUpdates
<1> HIDE DEF y, z, v, w
<1>3. /\ Step("Parallel", {}, TRUE, "Legacy") \in Steps
      /\ \A k \in {"Err", "Panic", "WaitNextSlot", "End"} : Simple(k) \in Steps
  BY SimpleSteps DEF Kinds
<1> QED
  <2>1. \A s \in Steps, e \in Txs : TypedOutcome(Outcome(s, e))
    BY DEF TypedOutcome, Outcome
  <2> QED
    BY <1>1, <1>2, <1>3, <2>1

(* And the machines that execute.                                          *)
LEMMA IterableType ==
  ASSUME NEW x \in Txs, NEW whole \in BOOLEAN, NEW confirmed \in BOOLEAN,
         NEW o \in IterableAdvance(x, whole, confirmed)
  PROVE  TypedOutcome(o)
<1> DEFINE Good(y, q) == \/ q \in TransmitAdvance(x)
                         \/ \E k \in Kinds, s \in {"Execute", "Confirm", "End"} :
                              q = Outcome(Simple(k), [y EXCEPT !.step = s])
                         \/ \E k \in Kinds : q = Outcome(Simple(k), y)
<1>1. ASSUME NEW y,
             NEW q \in AtomicHolderExecute(y, whole) \cup IterativeHolderExecute(y, whole)
      PROVE  Good(y, q)
  BY <1>1 DEF AtomicHolderExecute, IterativeHolderExecute, Kinds
<1>2. Good(x, o) \/ \E p \in TransmitAdvance(x) : Good(p.tx, o)
  <2>1. CASE x.shape \in {"atomic", "atomic_svm", "cross_rollup", "cross_chain"}
    BY <2>1 DEF IterableAdvance, AtomicAdvance, AtomicSvmAdvance, CrossRollupAdvance,
       CrossChainAdvance, ExecuteOnce, Kinds
  <2>2. CASE x.shape = "iterative"
    <3>1. o \in IterativeAdvance(x, confirmed)
      BY <2>2 DEF IterableAdvance
    <3> QED
      BY <3>1 DEF IterativeAdvance, Kinds
  <2>3. CASE x.shape = "atomic_holder"
    <3>1. o \in AtomicHolderAdvance(x, whole)
      BY <2>3 DEF IterableAdvance
    <3>2. \/ o \in TransmitAdvance(x)
          \/ \E p \in TransmitAdvance(x) : o \in AtomicHolderExecute(p.tx, whole)
          \/ o \in AtomicHolderExecute(x, whole)
          \/ o = Outcome(Simple("End"), x)
      BY <3>1 DEF AtomicHolderAdvance, ThenExecute
    <3>3. o \in TransmitAdvance(x) \/ o = Outcome(Simple("End"), x) => Good(x, o)
      BY DEF Kinds
    <3>4. ASSUME NEW y, o \in AtomicHolderExecute(y, whole) PROVE Good(y, o)
      BY <1>1, <3>4
    <3> HIDE DEF Good
    <3> QED
      BY <3>2, <3>3, <3>4
  <2>4. CASE x.shape = "iterative_holder"
    <3>1. o \in IterativeHolderAdvance(x, whole, confirmed)
      BY <2>4 DEF IterableAdvance
    <3>2. \/ o \in TransmitAdvance(x)
          \/ \E p \in TransmitAdvance(x) : o \in IterativeHolderExecute(p.tx, whole)
          \/ o \in IterativeHolderExecute(x, whole)
          \/ \E k \in {"NotConfirmed", "Confirmed"} :
               o = Outcome(Simple(k), [x EXCEPT !.step = "End"])
          \/ o = Outcome(Simple("End"), x)
      BY <3>1 DEF IterativeHolderAdvance, ThenExecute
    <3>3. \/ o \in TransmitAdvance(x)
          \/ \E k \in {"NotConfirmed", "Confirmed"} :
               o = Outcome(Simple(k), [x EXCEPT !.step = "End"])
          \/ o = Outcome(Simple("End"), x)
          => Good(x, o)
      BY DEF Kinds
    <3>4. ASSUME NEW y, o \in IterativeHolderExecute(y, whole) PROVE Good(y, o)
      BY <1>1, <3>4
    <3> HIDE DEF Good
    <3> QED
      BY <3>2, <3>3, <3>4
  <2> QED
    BY <2>1, <2>2, <2>3, <2>4 DEF Txs, Shapes, HolderShapes, IterativeShapes
<1>3. ASSUME NEW y \in Txs, Good(y, o) PROVE TypedOutcome(o)
  <2>1. CASE o \in TransmitAdvance(x)
    BY <2>1, TransmitType
  <2>2. \A k \in Kinds : Simple(k) \in Steps
    BY SimpleSteps
  <2>3. \A s \in {"Execute", "Confirm", "End"} : [y EXCEPT !.step = s] \in Txs
    BY TxUpdates
  <2>4. \A k \in Kinds, e \in Txs : TypedOutcome(Outcome(Simple(k), e))
    BY <2>2 DEF TypedOutcome, Outcome
  <2> QED
    BY <1>3, <2>1, <2>3, <2>4
<1>4. \A p \in TransmitAdvance(x) : p.tx \in Txs
  BY TransmitType DEF TypedOutcome
<1> HIDE DEF Good
<1> QED
  BY <1>2, <1>3, <1>4

(* The outcomes of AltTx and TransmitTx of an AltComposedHolder, joined.   *)
JoinedAdvance(x, found) ==
  UNION {{IF b.step.kind \in {"Err", "Panic"} THEN b
            ELSE Outcome(join_parallel(a.step, b.step), b.tx) :
            b \in TransmitAdvance(a.tx)} :
            a \in {q \in AltAdvance(x, found) : q.step.kind \notin {"Err", "Panic"}}}

(* An AltComposedHolder fails with AltTx, hands out a joined step, or goes *)
(* on to its execution when both parts have ended.                         *)
LEMMA HolderAdvanceParts ==
  ASSUME NEW x, NEW found, NEW whole, NEW confirmed,
         NEW o \in AltComposedHolderAdvance(x, found, whole, confirmed)
  PROVE  \/ o \in AltAdvance(x, found) /\ o.step.kind \in {"Err", "Panic"}
         \/ o \in JoinedAdvance(x, found) /\ o.step.kind # "End"
         \/ \E p \in JoinedAdvance(x, found) :
              p.step.kind = "End" /\ o \in EnterExecute(p.tx, whole, confirmed)
BY DEF AltComposedHolderAdvance, ThenExecute, JoinedAdvance

(* The transaction of a joined outcome is the one TransmitTx leaves, its   *)
(* step is the one of either part.                                         *)
LEMMA JoinedParts ==
  ASSUME NEW x, NEW found, NEW p \in JoinedAdvance(x, found)
  PROVE  \E a \in AltAdvance(x, found) : \E b \in TransmitAdvance(a.tx) :
           /\ a.step.kind \notin {"Err", "Panic"} /\ p.tx = b.tx
           /\ p.step = IF b.step.kind \in {"Err", "Panic"} THEN b.step
                       ELSE join_parallel(a.step, b.step)
           /\ p.step \in {a.step, b.step, [b.step EXCEPT !.alt = TRUE]}
<1>1. PICK a \in AltAdvance(x, found) :
        /\ a.step.kind \notin {"Err", "Panic"}
        /\ \E b \in TransmitAdvance(a.tx) :
             p = IF b.step.kind \in {"Err", "Panic"} THEN b
                 ELSE Outcome(join_parallel(a.step, b.step), b.tx)
  BY DEF JoinedAdvance
<1>2. PICK b \in TransmitAdvance(a.tx) :
        p = IF b.step.kind \in {"Err", "Panic"} THEN b
            ELSE Outcome(join_parallel(a.step, b.step), b.tx)
  BY <1>1
<1>3. /\ p.tx = b.tx
      /\ p.step = IF b.step.kind \in {"Err", "Panic"} THEN b.step
                  ELSE join_parallel(a.step, b.step)
  BY <1>2 DEF Outcome
<1>4. p.step \in {a.step, b.step, [b.step EXCEPT !.alt = TRUE]}
  BY <1>3 DEF join_parallel
<1> QED
  BY <1>1, <1>3, <1>4

(* The same for every machine, wrapped or not.                             *)
LEMMA AdvanceType ==
  ASSUME NEW x \in Txs, NEW found, NEW whole \in BOOLEAN, NEW confirmed \in BOOLEAN,
         NEW o \in Advance(x, found, whole, confirmed)
  PROVE  TypedOutcome(o)
<1>1. ASSUME NEW y \in Txs, NEW q \in AdvanceWithVersion(y, whole, confirmed)
      PROVE  TypedOutcome(q)
  <2>1. PICK p \in IterableAdvance(y, whole, confirmed) :
          q = IF p.step.kind \in {"Single", "ParallelUnchecked"}
                THEN Outcome([p.step EXCEPT !.ver = "V0"], p.tx) ELSE p
    BY <1>1 DEF AdvanceWithVersion
  <2>2. TypedOutcome(p)
    BY <1>1, IterableType
  <2>3. [p.step EXCEPT !.ver = "V0"] \in Steps
    BY <2>2 DEF TypedOutcome, Steps
  <2> QED
    BY <2>1, <2>2, <2>3 DEF TypedOutcome, Outcome
<1>2. ASSUME NEW y \in Txs, NEW q \in EnterExecute(y, whole, confirmed)
      PROVE  TypedOutcome(q)
  <2> DEFINE z == [y EXCEPT !.outer = "Execute"]
  <2>1. z \in Txs
    BY TxUpdates
  <2>2. \/ q = Outcome(Simple("Err"), y) \/ q = Outcome(Simple("Panic"), y)
        \/ q \in AdvanceWithVersion(z, whole, confirmed)
    BY <1>2 DEF EnterExecute
  <2> HIDE DEF z
  <2>3. Simple("Err") \in Steps /\ Simple("Panic") \in Steps
    BY SimpleSteps DEF Kinds
  <2>4. CASE q \in AdvanceWithVersion(z, whole, confirmed)
    BY <1>1, <2>1, <2>4
  <2> QED
    BY <2>2, <2>3, <2>4 DEF TypedOutcome, Outcome
<1>3. ASSUME NEW p \in AltAdvance(x, found) PROVE TypedOutcome(p)
  BY <1>3, AltType
<1>4. CASE o \in IterableAdvance(x, whole, confirmed)
  BY <1>4, IterableType
<1>5. CASE o \in AdvanceWithVersion(x, whole, confirmed)
  BY <1>1, <1>5
<1>6. CASE o \in AltComposedAdvance(x, found, whole, confirmed)
  <2>1. \/ o \in AltAdvance(x, found)
        \/ \E p \in AltAdvance(x, found) : o \in EnterExecute(p.tx, whole, confirmed)
    BY <1>6 DEF AltComposedAdvance, ThenExecute
  <2> QED
    BY <1>2, <1>3, <2>1 DEF TypedOutcome
<1>7. CASE o \in AltComposedHolderAdvance(x, found, whole, confirmed)
  <2>1. o \in JoinedAdvance(x, found) \/ o \in AltAdvance(x, found)
        \/ \E p \in JoinedAdvance(x, found) : o \in EnterExecute(p.tx, whole, confirmed)
    BY <1>7, HolderAdvanceParts
  <2>2. ASSUME NEW p \in JoinedAdvance(x, found) PROVE TypedOutcome(p)
    <3>0. PICK a \in AltAdvance(x, found) : \E b \in TransmitAdvance(a.tx) :
            p.tx = b.tx /\ p.step \in {a.step, b.step, [b.step EXCEPT !.alt = TRUE]}
      BY <2>2, JoinedParts
    <3>1. PICK b \in TransmitAdvance(a.tx) :
            p.tx = b.tx /\ p.step \in {a.step, b.step, [b.step EXCEPT !.alt = TRUE]}
      BY <3>0
    <3>2. TypedOutcome(a)
      BY <1>3
    <3>3. TypedOutcome(b)
      BY <3>2, TransmitType DEF TypedOutcome
    <3>4. [b.step EXCEPT !.alt = TRUE] \in Steps
      BY <3>3 DEF TypedOutcome, Steps
    <3> QED
      BY <3>1, <3>2, <3>3, <3>4 DEF TypedOutcome
  <2> QED
    BY <1>2, <1>3, <2>1, <2>2 DEF TypedOutcome
<1> QED
  BY <1>4, <1>5, <1>6, <1>7 DEF Advance

-----------------------------------------------------------------------------
(* The lookup table.  A machine that executes with a table has read it     *)
(* from the chain after it had been allocated, and does not allocate it    *)
(* again.                                                                  *)

TableTx(x) ==
  /\ x \in Txs
  /\ x.outer = "Execute" => x.alt_raw_account
  /\ x.alt_raw_account => x.alt_step = "End"

(* In the first call the table is not only allocated but also read, so     *)
(* that no expect of AltTx fails; a transmission of one batch is over when *)
(* the allocation is, and the wait for the next slot is not lost.          *)
FirstTx(x) ==
  x.outer # "Plain" => /\ x.keys <=> x.alt_step = "Execute"
                       /\ x.alt_step = "End" => x.alt_raw_account
OneBatch(x) == x.shape \in HolderShapes => x.chunks <= BatchLimit
BatchSent(x) ==
  x.shape \in HolderShapes /\ x.outer = "Alt" =>
    /\ x.alt_step = "Execute" => x.transmit = "Init"
    /\ x.alt_step # "Execute" => x.transmit # "Init" /\ x.batches = <<>>

SameTable(x, y) ==
  /\ y.alt_step = x.alt_step /\ y.keys = x.keys /\ y.alt_raw_account = x.alt_raw_account
  /\ y.outer = x.outer /\ y.shape = x.shape /\ y.chunks = x.chunks
PlainStep(s) == s.alt = FALSE /\ s.kind \notin {"Panic", "WaitNextSlot"}

(* A transmission leaves the table alone, and one batch is sent at once.   *)
LEMMA TransmitTable ==
  ASSUME NEW x \in Txs, NEW o \in TransmitAdvance(x)
  PROVE  /\ SameTable(x, o.tx) /\ PlainStep(o.step) /\ o.step.ver = "Legacy"
         /\ o.step.kind \in {"Parallel", "End", "Err"}
         /\ x.transmit # "Init" /\ x.batches = <<>> => o.step.kind = "End"
         /\ OneBatch(x) /\ x.shape \in HolderShapes /\ (x.transmit = "Init" \/ x.batches = <<>>)
              /\ o.step.kind # "Err" => o.tx.transmit # "Init" /\ o.tx.batches = <<>>
<1> DEFINE batches == IF x.transmit = "Init" THEN into_chunks(x.chunks, BatchLimit) ELSE x.batches
           y == [x EXCEPT !.transmit = "Complete", !.batches = <<>>]
           z == [x EXCEPT !.transmit = "Execute", !.batches = Tail(batches)]
<1>1. \/ o = Outcome(Simple("End"), y)
      \/ batches # <<>> /\ o = Outcome(Step("Parallel", Head(batches), FALSE, "Legacy"), z)
      \/ x.transmit = "Init" /\ o = Outcome(Simple("Err"), x)
  <2> HIDE DEF y, z, batches
  <2> QED
    BY DEF TransmitAdvance, y, z, batches
<1>2. OneBatch(x) /\ x.shape \in HolderShapes /\ (x.transmit = "Init" \/ x.batches = <<>>)
        => batches = <<>> \/ Tail(batches) = <<>>
  <2>1. SUFFICES ASSUME OneBatch(x), x.shape \in HolderShapes, x.transmit = "Init"
                 PROVE  batches = <<>> \/ Tail(batches) = <<>>
    BY DEF batches
  <2>2. x.chunks \in Nat /\ x.chunks <= BatchLimit /\ BatchLimit \in Nat \ {0}
    BY <2>1, AdvanceTxAssumption DEF OneBatch, Txs
  <2>3. batches \in Seq(SUBSET Chunks)
    BY IntoChunksType DEF Txs
  <2>4. Len(batches) = (x.chunks + BatchLimit - 1) \div BatchLimit
    <3>1. (x.chunks + BatchLimit - 1) \div BatchLimit \in Nat
      <4>1. x.chunks + BatchLimit - 1 \in Nat
        BY <2>2
      <4> QED
        BY <2>2, <4>1
    <3> QED
      BY <2>1, <3>1 DEF into_chunks
  <2>5. (x.chunks + BatchLimit - 1) \div BatchLimit <= 1
    <3>1. \A n \in Nat, d \in Nat \ {0} : n < 2 * d => n \div d <= 1
      OBVIOUS
    <3>2. x.chunks + BatchLimit - 1 \in Nat /\ x.chunks + BatchLimit - 1 < 2 * BatchLimit
      BY <2>2
    <3> QED
      BY <2>2, <3>1, <3>2
  <2> HIDE DEF batches
  <2> QED
    BY <2>3, <2>4, <2>5
<1>3. x.transmit # "Init" /\ x.batches = <<>> => batches = <<>>
  OBVIOUS
<1> HIDE DEF batches
<1>4. \A e \in {x, y, z} : SameTable(x, e)
  BY DEF SameTable, Txs
<1>5. /\ y.transmit # "Init" /\ y.batches = <<>>
      /\ z.transmit # "Init" /\ z.batches = Tail(batches)
  BY DEF Txs
<1> HIDE DEF y, z
<1> USE DEF Outcome, Simple, Step, PlainStep
<1>6. CASE o = Outcome(Simple("End"), y)
  BY <1>4, <1>5, <1>6
<1>7. CASE batches # <<>> /\ o = Outcome(Step("Parallel", Head(batches), FALSE, "Legacy"), z)
  BY <1>2, <1>3, <1>4, <1>5, <1>7
<1>8. CASE x.transmit = "Init" /\ o = Outcome(Simple("Err"), x)
  BY <1>4, <1>8
<1> QED
  BY <1>1, <1>6, <1>7, <1>8

(* Neither do the machines that execute touch the table.                   *)
LEMMA IterableTable ==
  ASSUME NEW x \in Txs, NEW whole \in BOOLEAN, NEW confirmed \in BOOLEAN,
         NEW o \in IterableAdvance(x, whole, confirmed)
  PROVE  SameTable(x, o.tx) /\ PlainStep(o.step) /\ o.step.ver = "Legacy"
<1> DEFINE Good(y, q) == SameTable(y, q.tx) /\ PlainStep(q.step) /\ q.step.ver = "Legacy"
           Plain == Kinds \ {"Panic", "WaitNextSlot"}
<1>1. \A y \in Txs, s \in {"Transmit", "Execute", "Confirm", "End"} :
        SameTable(y, [y EXCEPT !.step = s])
  BY DEF SameTable, Txs
<1>2. ASSUME NEW y \in Txs, NEW e, SameTable(y, e), NEW k \in Plain
      PROVE  Good(y, Outcome(Simple(k), e))
  BY <1>2 DEF Outcome, Simple, Step, PlainStep
<1> HIDE DEF Good, Plain
<1>3. /\ \A y \in Txs, k \in Plain : Good(y, Outcome(Simple(k), y))
      /\ \A y \in Txs, k \in Plain, s \in {"Transmit", "Execute", "Confirm", "End"} :
           Good(y, Outcome(Simple(k), [y EXCEPT !.step = s]))
  <2>1. \A y : SameTable(y, y)
    BY DEF SameTable
  <2> QED
    BY <1>1, <1>2, <2>1
<1>4. {"Single", "SingleWithSigners", "ParallelUnchecked", "Confirmed", "NotConfirmed", "Err",
       "End"} \subseteq Plain
  BY DEF Kinds, Plain
<1>5. ASSUME NEW y \in Txs, NEW q \in AtomicHolderExecute(y, whole) PROVE Good(y, q)
  BY <1>3, <1>4, <1>5 DEF AtomicHolderExecute
<1>6. ASSUME NEW y \in Txs, NEW q \in IterativeHolderExecute(y, whole) PROVE Good(y, q)
  BY <1>3, <1>4, <1>6 DEF IterativeHolderExecute
<1>7. ASSUME NEW p \in TransmitAdvance(x) PROVE p.tx \in Txs /\ SameTable(x, p.tx) /\ Good(x, p)
  BY <1>7, TransmitTable, TransmitType DEF TypedOutcome, Good
<1>8. ASSUME NEW p \in TransmitAdvance(x), Good(p.tx, o) PROVE Good(x, o)
  BY <1>7, <1>8 DEF Good, SameTable
<1>9. Good(x, o)
  <2>1. CASE x.shape \in {"atomic", "atomic_svm", "cross_rollup", "cross_chain"}
    <3>1. \E k \in {"Single", "SingleWithSigners", "End"} :
            o = Outcome(Simple(k), [x EXCEPT !.step = "End"]) \/ o = Outcome(Simple(k), x)
      BY <2>1 DEF IterableAdvance, AtomicAdvance, AtomicSvmAdvance, CrossRollupAdvance,
         CrossChainAdvance, ExecuteOnce
    <3> QED
      BY <1>3, <1>4, <3>1
  <2>2. CASE x.shape = "iterative"
    <3>1. o \in IterativeAdvance(x, confirmed)
      BY <2>2 DEF IterableAdvance
    <3>2. \E k \in {"ParallelUnchecked", "Err", "NotConfirmed", "Confirmed", "End"} :
            \/ \E s \in {"Confirm", "End"} : o = Outcome(Simple(k), [x EXCEPT !.step = s])
            \/ o = Outcome(Simple(k), x)
      BY <3>1 DEF IterativeAdvance
    <3> QED
      BY <1>3, <1>4, <3>2
  <2>3. CASE x.shape = "atomic_holder"
    <3>1. o \in AtomicHolderAdvance(x, whole)
      BY <2>3 DEF IterableAdvance
    <3>2. \/ o \in TransmitAdvance(x)
          \/ \E p \in TransmitAdvance(x) : o \in AtomicHolderExecute(p.tx, whole)
          \/ o \in AtomicHolderExecute(x, whole)
          \/ o = Outcome(Simple("End"), x)
      BY <3>1 DEF AtomicHolderAdvance, ThenExecute
    <3>3. o = Outcome(Simple("End"), x) => Good(x, o)
      BY <1>3, <1>4
    <3> QED
      BY <1>5, <1>7, <1>8, <3>2, <3>3
  <2>4. CASE x.shape = "iterative_holder"
    <3>1. o \in IterativeHolderAdvance(x, whole, confirmed)
      BY <2>4 DEF IterableAdvance
    <3>2. \/ o \in TransmitAdvance(x)
          \/ \E p \in TransmitAdvance(x) : o \in IterativeHolderExecute(p.tx, whole)
          \/ o \in IterativeHolderExecute(x, whole)
          \/ \E k \in {"NotConfirmed", "Confirmed"} :
               o = Outcome(Simple(k), [x EXCEPT !.step = "End"])
          \/ o = Outcome(Simple("End"), x)
      BY <3>1 DEF IterativeHolderAdvance, ThenExecute
    <3>3. \/ \E k \in {"NotConfirmed", "Confirmed"} :
               o = Outcome(Simple(k), [x EXCEPT !.step = "End"])
          \/ o = Outcome(Simple("End"), x)
          => Good(x, o)
      BY <1>3, <1>4
    <3> QED
      BY <1>6, <1>7, <1>8, <3>2, <3>3
  <2> QED
    BY <2>1, <2>2, <2>3, <2>4 DEF Txs, Shapes, HolderShapes, IterativeShapes
<1> QED
  BY <1>9 DEF Good

(* What a step of a machine may do to its table.                           *)
TableStep(x, o, found) ==
  /\ TableTx(o.tx) /\ (o.tx.outer = "Plain" <=> x.outer = "Plain")
  /\ o.tx.alt_raw_account => x.alt_raw_account \/ (found /\ x.outer = "Alt")
  /\ o.step.alt =>
       o.step.kind = "Parallel" /\ o.tx.outer = "Alt" /\ o.tx.alt_step = "WaitNextSlot"
  /\ o.step.ver = "V0" => o.tx.outer = "Execute"
  /\ o.step.kind = "WaitNextSlot" => o.tx.outer = "Alt"

(* What it does in the first call, unless it fails.                        *)
FirstStep(x, o) ==
  /\ o.step.kind # "Panic"
  /\ o.step.kind # "Err" =>
       /\ FirstTx(o.tx)
       /\ x.outer = "Alt" /\ x.alt_step = "Execute" => o.step.alt
       /\ OneBatch(x) /\ BatchSent(x) =>
            /\ BatchSent(o.tx)
            /\ x.outer # "Plain" /\ o.tx.alt_step = "End" =>
                 x.alt_step = "End" \/ o.step.kind = "WaitNextSlot"

(* A step of AltTx.                                                        *)
AltStep(x, o, found) ==
  /\ TableTx(o.tx) /\ o.tx.outer = "Alt" /\ o.step.ver = "Legacy"
  /\ o.tx.shape = x.shape /\ o.tx.chunks = x.chunks
  /\ o.tx.transmit = x.transmit /\ o.tx.batches = x.batches
  /\ o.tx.alt_raw_account => x.alt_raw_account \/ found
  /\ o.step.alt => o.step.kind = "Parallel" /\ o.tx.alt_step = "WaitNextSlot"
  /\ o.step.kind = "End" => o.tx = x /\ x.alt_step = "End"
  /\ o.step.kind = "Parallel" =>
       /\ o.step.alt
       /\ x.alt_step = "Execute" /\ o.tx.alt_step = "WaitNextSlot" /\ o.tx.keys = FALSE
  /\ o.step.kind = "WaitNextSlot" =>
       /\ x.alt_step = "WaitNextSlot" /\ o.tx.alt_step = "End" /\ o.tx.keys = x.keys
       /\ o.tx.alt_raw_account
  /\ o.step.kind = "Panic" => x.alt_step = "Execute" /\ x.keys = FALSE
  /\ o.step.kind \in {"End", "Parallel", "WaitNextSlot", "Panic", "Err"}

(* AltTx takes such steps alone.                                           *)
LEMMA AltTable ==
  ASSUME NEW x \in Txs, TableTx(x), x.outer = "Alt", NEW found \in BOOLEAN,
         NEW o \in AltAdvance(x, found)
  PROVE  AltStep(x, o, found)
<1> USE DEF Outcome, Simple, Step, TableTx, AltStep
<1>0. o.tx \in Txs /\ x.keys \in BOOLEAN /\ x.alt_raw_account \in BOOLEAN
  BY AltType DEF TypedOutcome, Txs
<1>1. CASE x.alt_step = "Execute"
  <2> DEFINE y == [x EXCEPT !.keys = FALSE]
             z == [x EXCEPT !.keys = FALSE, !.alt_step = "WaitNextSlot"]
  <2>1. \/ o = Outcome(Simple("Err"), x)
        \/ o = Outcome(Simple("Err"), y)
        \/ o = Outcome(Step("Parallel", {}, TRUE, "Legacy"), z)
        \/ x.keys = FALSE /\ o = Outcome(Simple("Panic"), x)
    BY <1>0, <1>1 DEF AltAdvance
  <2>2. \A e \in {y, z} : /\ e.outer = x.outer /\ e.shape = x.shape /\ e.chunks = x.chunks
                          /\ e.transmit = x.transmit /\ e.batches = x.batches
                          /\ e.alt_raw_account = x.alt_raw_account /\ e.keys = FALSE
    BY DEF Txs
  <2>3. y.alt_step = x.alt_step /\ z.alt_step = "WaitNextSlot"
    BY DEF Txs
  <2>4. x.alt_raw_account = FALSE
    BY <1>0, <1>1
  <2> HIDE DEF y, z
  <2> QED
    BY <1>0, <1>1, <2>1, <2>2, <2>3, <2>4
<1>2. CASE x.alt_step = "WaitNextSlot"
  <2> DEFINE v == [x EXCEPT !.alt_step = "End"]
             w == [x EXCEPT !.alt_step = "End", !.alt_raw_account = TRUE]
  <2>1. \/ o = Outcome(Simple("Err"), v)
        \/ found /\ o = Outcome(Simple("WaitNextSlot"), w)
    BY <1>2 DEF AltAdvance
  <2>2. \A e \in {v, w} : /\ e.outer = x.outer /\ e.shape = x.shape /\ e.chunks = x.chunks
                          /\ e.transmit = x.transmit /\ e.batches = x.batches
                          /\ e.alt_step = "End" /\ e.keys = x.keys
    BY DEF Txs
  <2>3. v.alt_raw_account = x.alt_raw_account /\ w.alt_raw_account = TRUE
    BY DEF Txs
  <2> HIDE DEF v, w
  <2> QED
    BY <1>0, <1>2, <2>1, <2>2, <2>3
<1>3. CASE x.alt_step = "End"
  <2>1. o = Outcome(Simple("End"), x)
    BY <1>3 DEF AltAdvance
  <2> QED
    BY <1>0, <1>3, <2>1
<1> QED
  BY <1>1, <1>2, <1>3 DEF Txs

(* The steps of the executing part of a wrapped transaction.               *)
LEMMA VersionTable ==
  ASSUME NEW x \in Txs, TableTx(x), x.outer = "Execute", NEW whole \in BOOLEAN,
         NEW confirmed \in BOOLEAN, NEW o \in AdvanceWithVersion(x, whole, confirmed)
  PROVE  SameTable(x, o.tx) /\ TableTx(o.tx) /\ PlainStep(o.step)
<1>1. PICK p \in IterableAdvance(x, whole, confirmed) :
        o = IF p.step.kind \in {"Single", "ParallelUnchecked"}
              THEN Outcome([p.step EXCEPT !.ver = "V0"], p.tx) ELSE p
  BY DEF AdvanceWithVersion
<1>2. SameTable(x, p.tx) /\ PlainStep(p.step) /\ TypedOutcome(p)
  BY IterableTable, IterableType
<1>3. o.tx = p.tx /\ PlainStep(o.step)
  BY <1>1, <1>2 DEF Outcome, PlainStep, TypedOutcome, Steps
<1>4. TableTx(p.tx)
  BY <1>2 DEF TableTx, SameTable, TypedOutcome
<1> QED
  BY <1>2, <1>3, <1>4

(* From the parts to the execution: alt_account_ finds the table.          *)
LEMMA EnterTable ==
  ASSUME NEW y \in Txs, TableTx(y), y.outer = "Alt", y.alt_step = "End", NEW whole \in BOOLEAN,
         NEW confirmed \in BOOLEAN, NEW o \in EnterExecute(y, whole, confirmed)
  PROVE  /\ TableTx(o.tx) /\ o.tx.outer \in {"Alt", "Execute"}
         /\ o.tx.alt_raw_account = y.alt_raw_account /\ o.step.alt = FALSE
         /\ o.step.ver = "V0" => o.tx.outer = "Execute"
         /\ y.alt_raw_account => o.step.kind # "Panic"
         /\ o.step.kind # "WaitNextSlot"
         /\ o.step.kind \notin {"Err", "Panic"} =>
              o.tx.outer = "Execute" /\ SameTable([y EXCEPT !.outer = "Execute"], o.tx)
<1> DEFINE z == [y EXCEPT !.outer = "Execute"]
<1>1. \/ o = Outcome(Simple("Err"), y) 
      \/ o = Outcome(Simple("Panic"), y) /\ ~y.alt_raw_account
      \/ y.alt_raw_account /\ o \in AdvanceWithVersion(z, whole, confirmed)
  BY DEF EnterExecute
<1>2. CASE y.alt_raw_account /\ o \in AdvanceWithVersion(z, whole, confirmed)
  <2>1. z \in Txs
    BY TxUpdates
  <2>2. /\ z.outer = "Execute" /\ z.alt_raw_account = y.alt_raw_account
        /\ z.alt_step = y.alt_step
    BY DEF Txs
  <2> HIDE DEF z
  <2>3. TableTx(z)
    BY <1>2, <2>1, <2>2 DEF TableTx
  <2>4. SameTable(z, o.tx) /\ TableTx(o.tx) /\ PlainStep(o.step)
    BY <1>2, <2>1, <2>2, <2>3, VersionTable
  <2>5. o.tx.outer = "Execute" /\ o.tx.alt_raw_account = y.alt_raw_account
    BY <2>2, <2>4 DEF SameTable
  <2> QED
    BY <2>4, <2>5 DEF PlainStep, z
<1>3. CASE \/ o = Outcome(Simple("Err"), y)
           \/ o = Outcome(Simple("Panic"), y) /\ ~y.alt_raw_account
  BY <1>3 DEF Outcome, Simple, Step
<1> QED
  BY <1>1, <1>2, <1>3

(* The joined steps of AltTx and TransmitTx.                               *)
LEMMA JoinedTable ==
  ASSUME NEW x \in Txs, TableTx(x), x.outer = "Alt", x.shape \in HolderShapes,
         NEW found \in BOOLEAN, NEW p \in JoinedAdvance(x, found)
  PROVE  /\ TableStep(x, p, found) /\ p.tx.outer = "Alt" /\ p.step.kind # "Panic"
         /\ p.step.kind = "End" => x.alt_step = "End" /\ SameTable(x, p.tx)
         /\ FirstTx(x) => FirstStep(x, p)
<1>1. PICK a \in AltAdvance(x, found) : \E b \in TransmitAdvance(a.tx) :
        /\ a.step.kind \notin {"Err", "Panic"} /\ p.tx = b.tx
        /\ p.step = IF b.step.kind \in {"Err", "Panic"} THEN b.step
                    ELSE join_parallel(a.step, b.step)
  BY JoinedParts
<1>2. PICK b \in TransmitAdvance(a.tx) :
        /\ a.step.kind \notin {"Err", "Panic"} /\ p.tx = b.tx
        /\ p.step = IF b.step.kind \in {"Err", "Panic"} THEN b.step
                    ELSE join_parallel(a.step, b.step)
  BY <1>1
<1>3. /\ TableTx(a.tx) /\ a.tx.outer = "Alt" /\ a.step.ver = "Legacy"
      /\ a.tx.shape = x.shape /\ a.tx.chunks = x.chunks
      /\ a.tx.transmit = x.transmit /\ a.tx.batches = x.batches
      /\ a.tx.alt_raw_account => x.alt_raw_account \/ found
      /\ a.step.alt => a.step.kind = "Parallel" /\ a.tx.alt_step = "WaitNextSlot"
      /\ a.step.kind = "End" => a.tx = x /\ x.alt_step = "End"
      /\ a.step.kind = "Parallel" =>
           /\ a.step.alt
           /\ x.alt_step = "Execute" /\ a.tx.alt_step = "WaitNextSlot" /\ a.tx.keys = FALSE
      /\ a.step.kind = "WaitNextSlot" =>
           /\ x.alt_step = "WaitNextSlot" /\ a.tx.alt_step = "End" /\ a.tx.keys = x.keys
           /\ a.tx.alt_raw_account
      /\ a.step.kind \in {"End", "Parallel", "WaitNextSlot"}
  <2>1. AltStep(x, a, found)
    BY AltTable
  <2> QED
    BY <1>2, <2>1 DEF AltStep
<1>4. a.tx \in Txs /\ TypedOutcome(a)
  BY AltType DEF TypedOutcome
<1>5. /\ SameTable(a.tx, b.tx) /\ PlainStep(b.step) /\ b.step.ver = "Legacy"
      /\ b.step.kind \in {"Parallel", "End", "Err"}
      /\ a.tx.transmit # "Init" /\ a.tx.batches = <<>> => b.step.kind = "End"
      /\ OneBatch(a.tx) /\ a.tx.shape \in HolderShapes
           /\ (a.tx.transmit = "Init" \/ a.tx.batches = <<>>)
           /\ b.step.kind # "Err" => b.tx.transmit # "Init" /\ b.tx.batches = <<>>
  BY <1>4, TransmitTable
<1>6. TypedOutcome(b)
  BY <1>4, TransmitType
<1>7. \/ b.step.kind = "Err" /\ p.step = b.step
      \/ b.step.kind = "End" /\ p.step = a.step
      \/ b.step.kind = "Parallel" /\ a.step.kind # "Parallel" /\ p.step = b.step
      \/ /\ b.step.kind = "Parallel" /\ a.step.kind = "Parallel"
         /\ p.step = [b.step EXCEPT !.alt = TRUE]
  BY <1>2, <1>5 DEF join_parallel
<1>8. /\ [b.step EXCEPT !.alt = TRUE].kind = b.step.kind
      /\ [b.step EXCEPT !.alt = TRUE].ver = b.step.ver
      /\ [b.step EXCEPT !.alt = TRUE].alt = TRUE
  BY <1>6 DEF TypedOutcome, Steps
<1>9. /\ p.tx.alt_step = a.tx.alt_step /\ p.tx.keys = a.tx.keys
      /\ p.tx.alt_raw_account = a.tx.alt_raw_account /\ p.tx.outer = "Alt"
      /\ p.tx.shape = x.shape /\ p.tx.chunks = x.chunks /\ p.tx \in Txs
  BY <1>2, <1>3, <1>5, <1>6 DEF SameTable, TypedOutcome
<1>10. TableTx(p.tx)
  BY <1>3, <1>9 DEF TableTx
<1>11. /\ p.step.alt => p.tx.alt_step = "WaitNextSlot" /\ p.step.kind = "Parallel"
       /\ p.step.ver = "Legacy" /\ p.step.kind # "Panic"
  BY <1>3, <1>5, <1>7, <1>8, <1>9 DEF PlainStep
<1>12. TableStep(x, p, found)
  BY <1>3, <1>9, <1>10, <1>11 DEF TableStep
<1>13. p.step.kind = "End" => x.alt_step = "End" /\ SameTable(x, p.tx)
  <2>1. p.step.kind = "End" => a.step.kind = "End"
    BY <1>5, <1>7, <1>8
  <2> QED
    BY <1>2, <1>3, <1>5, <2>1
<1>14. ASSUME FirstTx(x) PROVE FirstStep(x, p)
  <2>1. SUFFICES ASSUME p.step.kind # "Err"
                 PROVE  /\ FirstTx(p.tx)
                        /\ x.alt_step = "Execute" => p.step.alt
                        /\ OneBatch(x) /\ BatchSent(x) =>
                             /\ BatchSent(p.tx)
                             /\ p.tx.alt_step = "End" =>
                                  x.alt_step = "End" \/ p.step.kind = "WaitNextSlot"
    BY <1>11 DEF FirstStep
  <2>2. b.step.kind # "Err"
    BY <1>7, <2>1
  <2>3. x.keys \in BOOLEAN /\ a.tx.keys \in BOOLEAN /\ a.tx.alt_raw_account \in BOOLEAN
    BY <1>4 DEF Txs
  <2>4. FirstTx(a.tx)
    BY <1>3, <1>14, <2>3 DEF FirstTx
  <2>5. FirstTx(p.tx)
    BY <1>3, <1>9, <2>4 DEF FirstTx
  <2>6. x.alt_step = "Execute" => p.step.alt
    BY <1>3, <1>5, <1>7, <1>8, <2>2
  <2>7. ASSUME OneBatch(x), BatchSent(x)
        PROVE  /\ BatchSent(p.tx)
               /\ p.tx.alt_step = "End" => x.alt_step = "End" \/ p.step.kind = "WaitNextSlot"
    <3>1. OneBatch(a.tx) /\ (a.tx.transmit = "Init" \/ a.tx.batches = <<>>)
      BY <1>3, <2>7 DEF OneBatch, BatchSent
    <3>2. b.tx.transmit # "Init" /\ b.tx.batches = <<>>
      BY <1>3, <1>5, <2>2, <3>1
    <3>3. p.tx.alt_step # "Execute"
      BY <1>3, <1>9
    <3>4. BatchSent(p.tx)
      BY <1>2, <3>2, <3>3 DEF BatchSent
    <3>5. ASSUME p.tx.alt_step = "End", x.alt_step # "End" PROVE p.step.kind = "WaitNextSlot"
      <4>1. a.step.kind = "WaitNextSlot" /\ x.alt_step = "WaitNextSlot"
        BY <1>3, <1>9, <3>5
      <4>2. a.tx.transmit # "Init" /\ a.tx.batches = <<>>
        BY <1>3, <2>7, <4>1 DEF BatchSent
      <4> QED
        BY <1>5, <1>7, <4>1, <4>2
    <3> QED
      BY <3>4, <3>5
  <2> QED
    BY <2>5, <2>6, <2>7
<1> QED
  BY <1>9, <1>11, <1>12, <1>13, <1>14

(* Every machine, wrapped or not, keeps to these rules.                    *)
LEMMA AdvanceTable ==
  ASSUME NEW x \in Txs, TableTx(x), NEW found \in BOOLEAN, NEW whole \in BOOLEAN,
         NEW confirmed \in BOOLEAN, NEW o \in Advance(x, found, whole, confirmed)
  PROVE  TableStep(x, o, found) /\ (FirstTx(x) => FirstStep(x, o))
<1>0. TypedOutcome(o) /\ x.outer \in {"Plain", "Alt", "Execute"}
  BY AdvanceType DEF Txs
<1>1. ASSUME SameTable(x, o.tx), PlainStep(o.step), x.outer # "Alt",
             o.step.ver = "V0" => x.outer = "Execute"
      PROVE  TableStep(x, o, found) /\ (FirstTx(x) => FirstStep(x, o))
  <2>1. TableStep(x, o, found)
    BY <1>0, <1>1 DEF TableStep, TableTx, SameTable, PlainStep, TypedOutcome
  <2>2. ASSUME FirstTx(x) PROVE FirstTx(o.tx)
    BY <1>1, <2>2 DEF FirstTx, SameTable
  <2>3. BatchSent(o.tx)
    BY <1>1 DEF BatchSent, SameTable
  <2>4. FirstTx(x) => FirstStep(x, o)
    BY <1>1, <2>2, <2>3 DEF FirstStep, PlainStep, SameTable
  <2> QED
    BY <2>1, <2>4
<1>2. CASE x.outer = "Plain"
  <2>1. o \in IterableAdvance(x, whole, confirmed)
    BY <1>2 DEF Advance
  <2>2. SameTable(x, o.tx) /\ PlainStep(o.step) /\ o.step.ver = "Legacy"
    BY <2>1, IterableTable
  <2> QED
    BY <1>1, <1>2, <2>2
<1>3. CASE x.outer = "Execute"
  <2>1. o \in AdvanceWithVersion(x, whole, confirmed)
    BY <1>3 DEF Advance
  <2>2. SameTable(x, o.tx) /\ PlainStep(o.step)
    BY <1>3, <2>1, VersionTable
  <2> QED
    BY <1>1, <1>3, <2>2
<1>4. ASSUME x.outer = "Alt", NEW y \in Txs, TableTx(y), SameTable(x, y), x.alt_step = "End",
             o \in EnterExecute(y, whole, confirmed)
      PROVE  TableStep(x, o, found) /\ (FirstTx(x) => FirstStep(x, o))
  <2>0. y.outer = "Alt" /\ y.alt_step = "End"
    BY <1>4 DEF SameTable
  <2>1. /\ TableTx(o.tx) /\ o.tx.outer \in {"Alt", "Execute"}
        /\ o.tx.alt_raw_account = y.alt_raw_account /\ o.step.alt = FALSE
        /\ o.step.ver = "V0" => o.tx.outer = "Execute"
        /\ y.alt_raw_account => o.step.kind # "Panic"
        /\ o.step.kind # "WaitNextSlot"
        /\ o.step.kind \notin {"Err", "Panic"} =>
             o.tx.outer = "Execute" /\ SameTable([y EXCEPT !.outer = "Execute"], o.tx)
    BY <1>4, <2>0, EnterTable
  <2>2. TableStep(x, o, found)
    BY <1>4, <2>1 DEF TableStep, SameTable
  <2>3. ASSUME FirstTx(x) PROVE FirstStep(x, o)
    <3>1. x.alt_raw_account /\ o.step.kind # "Panic"
      BY <1>4, <2>1, <2>3 DEF FirstTx, SameTable
    <3>2. SUFFICES ASSUME o.step.kind # "Err"
                   PROVE  FirstTx(o.tx) /\ BatchSent(o.tx)
      BY <1>4, <3>1 DEF FirstStep
    <3>3. o.tx.outer = "Execute" /\ SameTable([y EXCEPT !.outer = "Execute"], o.tx)
      BY <2>1, <3>1, <3>2
    <3>4. /\ o.tx.keys = y.keys /\ o.tx.alt_step = y.alt_step
          /\ o.tx.alt_raw_account = y.alt_raw_account
      BY <3>3 DEF SameTable, Txs
    <3> QED
      BY <1>4, <2>3, <3>3, <3>4 DEF FirstTx, BatchSent, SameTable
  <2> QED
    BY <2>2, <2>3
<1>5. ASSUME x.outer = "Alt", o \in AltAdvance(x, found),
             x.shape \in HolderShapes => o.step.kind \in {"Err", "Panic"}, o.step.kind # "End"
      PROVE  TableStep(x, o, found) /\ (FirstTx(x) => FirstStep(x, o))
  <2>1. AltStep(x, o, found)
    BY <1>5, AltTable
  <2>2. TableStep(x, o, found)
    BY <1>5, <2>1 DEF AltStep, TableStep
  <2>3. /\ x.keys \in BOOLEAN /\ x.alt_raw_account \in BOOLEAN
        /\ o.tx.keys \in BOOLEAN /\ o.tx.alt_raw_account \in BOOLEAN
    BY <1>0 DEF TypedOutcome, Txs
  <2>4. ASSUME FirstTx(x) PROVE FirstStep(x, o)
    <3>1. o.step.kind # "Panic"
      BY <1>5, <2>1, <2>3, <2>4 DEF FirstTx, AltStep
    <3>2. SUFFICES ASSUME o.step.kind # "Err"
                   PROVE  /\ FirstTx(o.tx) /\ BatchSent(o.tx)
                          /\ x.alt_step = "Execute" => o.step.alt
                          /\ o.tx.alt_step = "End" => o.step.kind = "WaitNextSlot"
      BY <3>1 DEF FirstStep
    <3>3. CASE o.step.kind = "Parallel"
      BY <1>5, <2>1, <3>1, <3>2, <3>3 DEF AltStep, FirstTx, BatchSent
    <3>4. CASE o.step.kind = "WaitNextSlot"
      BY <1>5, <2>1, <2>3, <2>4, <3>1, <3>2, <3>4 DEF AltStep, FirstTx, BatchSent
    <3> QED
      BY <1>5, <2>1, <3>1, <3>2, <3>3, <3>4 DEF AltStep
  <2> QED
    BY <2>2, <2>4
<1>6. CASE x.outer = "Alt" /\ x.shape \notin HolderShapes
  <2>1. \/ o \in AltAdvance(x, found) /\ o.step.kind # "End"
        \/ \E p \in AltAdvance(x, found) :
             p.step.kind = "End" /\ o \in EnterExecute(p.tx, whole, confirmed)
    BY <1>6 DEF Advance, AltComposedAdvance, ThenExecute
  <2>2. ASSUME NEW p \in AltAdvance(x, found), p.step.kind = "End" PROVE p.tx = x /\ x.alt_step = "End"
    <3>1. AltStep(x, p, found)
      BY <1>6, AltTable
    <3> QED
      BY <2>2, <3>1 DEF AltStep
  <2>3. SameTable(x, x)
    BY DEF SameTable
  <2> QED
    BY <1>4, <1>5, <1>6, <2>1, <2>2, <2>3
<1>7. CASE x.outer = "Alt" /\ x.shape \in HolderShapes
  <2>1. \/ o \in AltAdvance(x, found) /\ o.step.kind \in {"Err", "Panic"}
        \/ o \in JoinedAdvance(x, found) /\ o.step.kind # "End"
        \/ \E p \in JoinedAdvance(x, found) :
             p.step.kind = "End" /\ o \in EnterExecute(p.tx, whole, confirmed)
    <3>1. o \in AltComposedHolderAdvance(x, found, whole, confirmed)
      BY <1>7 DEF Advance
    <3> QED
      BY <3>1, HolderAdvanceParts
  <2>2. CASE o \in AltAdvance(x, found) /\ o.step.kind \in {"Err", "Panic"}
    BY <1>5, <1>7, <2>2
  <2>3. CASE o \in JoinedAdvance(x, found)
    BY <1>7, <2>3, JoinedTable
  <2>4. ASSUME NEW p \in JoinedAdvance(x, found), p.step.kind = "End",
               o \in EnterExecute(p.tx, whole, confirmed)
        PROVE  TableStep(x, o, found) /\ (FirstTx(x) => FirstStep(x, o))
    <3>1. TableStep(x, p, found) /\ x.alt_step = "End" /\ SameTable(x, p.tx)
      BY <1>7, <2>4, JoinedTable
    <3>2. TableTx(p.tx) /\ p.tx \in Txs
      BY <3>1 DEF TableStep, TableTx
    <3> QED
      BY <1>4, <1>7, <2>4, <3>1, <3>2
  <2> QED
    BY <2>1, <2>2, <2>3, <2>4
<1> QED
  BY <1>0, <1>2, <1>3, <1>6, <1>7

(* What the wrapping of a transaction says of its task.                    *)
TableTask(t) ==
  /\ pc[t] \in Active =>
       /\ TableTx(tx[t]) /\ calls[t] >= 1
       /\ tx[t].outer # "Plain" => resource[t] # NoResource
       /\ tx[t].alt_raw_account => tx[t].outer # "Plain"
  /\ pc[t] = "sending" =>
       /\ step[t] \in Steps
       /\ step[t].alt =>
            step[t].kind = "Parallel" /\ tx[t].outer = "Alt" /\ tx[t].alt_step = "WaitNextSlot"
       /\ step[t].ver = "V0" => tx[t].outer = "Execute"
       /\ step[t].kind = "WaitNextSlot" => tx[t].outer = "Alt"

(* The transactions that are really sent.                                  *)
Sendable ==
  {x \in Transactions : /\ x.kind = "transmit" => x.n \in Chunks
                        /\ x.kind = "alloc" => x.n \in Parts}

(* The part of TypeOK that is not in PoolTypeOK.                           *)
Holders == [hash : Tasks \cup {NoTask}, chunks : SUBSET Chunks]
SolanaTypeOK ==
  /\ holder \in [Resources -> Holders]
  /\ table \in [Resources -> Tables]
  /\ iterated \in [Tasks -> Nat]
  /\ executed \subseteq Tasks
  /\ disturbed \subseteq Tasks \X {"holder", "table"}

NetTypeOK == wire \in [Tasks -> SUBSET Sendable] /\ late \subseteq Sendable

TowerTypeOK ==
  /\ next \in [Tasks -> Nat]
  /\ tx \in [Tasks -> Txs \cup {NoTx}]
  /\ step \in [Tasks -> Steps \cup {NoStep}]
  /\ sigs \in [Tasks -> Nat] /\ unchecked \in [Tasks -> Nat]
  /\ calls \in [Tasks -> 0 .. MaxCalls]
  /\ result \in [Tasks -> {"none", "ok", "err", "panic"}]
  /\ read \in [Tasks -> Tables]
  /\ NetTypeOK /\ SolanaTypeOK

TableInv == TowerTypeOK /\ \A t \in Tasks : TableTask(t)

(* A transaction nothing was done for yet.                                 *)
NewTable(x) ==
  /\ x \in Txs /\ TableTx(x) /\ x.alt_raw_account = FALSE
  /\ FirstTx(x) /\ BatchSent(x) /\ x.alt_step = "Execute" /\ x.step # "End"

(* The constructors make such transactions.                                *)
LEMMA NewTxTable ==
  ASSUME NEW shape \in Shapes, NEW useAlt \in BOOLEAN, NEW chunks \in 0 .. MaxChunks,
         NEW iterations \in 0 .. MaxIterations
  PROVE  NewTable(NewTx(shape, useAlt, chunks, iterations))
<1> DEFINE x == NewTx(shape, useAlt, chunks, iterations)
<1>1. x \in Txs
  <2>1. <<>> \in Seq(SUBSET Chunks)
    OBVIOUS
  <2> QED
    BY <2>1 DEF NewTx, Txs
<1>2. /\ x.alt_raw_account = FALSE /\ x.alt_step = "Execute" /\ x.step # "End"
      /\ x.outer = (IF useAlt THEN "Alt" ELSE "Plain") /\ x.keys = useAlt /\ x.transmit = "Init"
  BY DEF NewTx
<1> HIDE DEF x
<1>3. TableTx(x) /\ FirstTx(x) /\ BatchSent(x)
  BY <1>1, <1>2 DEF TableTx, FirstTx, BatchSent
<1> QED
  BY <1>1, <1>2, <1>3 DEF x, NewTable

(* The same for those that never use a table.                              *)
LEMMA PlainTxTable ==
  ASSUME NEW shape \in Shapes, NEW chunks \in 0 .. MaxChunks,
         NEW iterations \in 0 .. MaxIterations
  PROVE  /\ NewTable(NewTx(shape, FALSE, chunks, iterations))
         /\ NewTx(shape, FALSE, chunks, iterations).outer = "Plain"
<1> DEFINE x == NewTx(shape, FALSE, chunks, iterations)
<1>1. x \in Txs
  <2>1. <<>> \in Seq(SUBSET Chunks)
    OBVIOUS
  <2> QED
    BY <2>1 DEF NewTx, Txs
<1>2. /\ x.alt_raw_account = FALSE /\ x.alt_step = "Execute" /\ x.step # "End"
      /\ x.outer = "Plain" /\ x.transmit = "Init"
  BY DEF NewTx
<1> HIDE DEF x
<1>3. TableTx(x) /\ FirstTx(x) /\ BatchSent(x)
  BY <1>1, <1>2 DEF TableTx, FirstTx, BatchSent
<1> QED
  BY <1>1, <1>2, <1>3 DEF x, NewTable

(* The transaction of a job, and the resource a wrapped one has.           *)
LEMMA BuiltTable ==
  ASSUME RomeInv, TransactionInv, TableInv, NEW t \in Tasks,
         BuildTx(t) \/ BuildSvmTx(t) \/ ReturnCross(t)
  PROVE  /\ pc'[t] = "advance" /\ NewTable(tx'[t]) /\ calls'[t] = 1
         /\ tx' = [tx EXCEPT ![t] = tx'[t]] /\ calls' = [calls EXCEPT ![t] = 1]
         /\ UNCHANGED <<step, sigs, unchecked, result, read, next, job, netVars, solanaVars>>
         /\ tx'[t].outer # "Plain" => resource'[t] # NoResource
<1> USE DEF RomeInv, PoolTypeOK, TransactionInv, TableInv, TowerTypeOK, Goto, Composed, composeVars
<1>0. pc[t] \in {"build", "return"} /\ job[t] \in Jobs
  BY DEF BuildTx, BuildSvmTx, ReturnCross, TaskInv
<1>1. /\ job[t].use_alt \in BOOLEAN /\ job[t].chunks \in 0 .. MaxChunks
      /\ job[t].iterations \in 0 .. MaxIterations
  BY <1>0, RomeTxAssumption DEF JobType
<1>2. CASE BuildTx(t)
  <2>1. PICK shape \in {"atomic", "atomic_holder", "iterative", "iterative_holder"} :
          tx' = [tx EXCEPT ![t] = NewTx(shape, job[t].use_alt, job[t].chunks, job[t].iterations)]
    BY <1>2 DEF BuildTx, compose_iterable
  <2>2. resource'[t] # NoResource
    BY <1>2 DEF BuildTx, ControlInv
  <2>3. shape \in Shapes
    BY DEF Shapes, HolderShapes, IterativeShapes
  <2>4. /\ pc'[t] = "advance" /\ calls' = [calls EXCEPT ![t] = 1]
        /\ UNCHANGED <<step, sigs, unchecked, result, read, next, job, netVars, solanaVars>>
    BY <1>2 DEF BuildTx
  <2>5. NewTable(NewTx(shape, job[t].use_alt, job[t].chunks, job[t].iterations))
    BY <1>1, <2>3, NewTxTable
  <2> QED
    BY <2>1, <2>2, <2>4, <2>5
<1>3. CASE BuildSvmTx(t)
  <2>1. /\ tx' = [tx EXCEPT ![t] = NewTx("atomic_svm", FALSE, job[t].chunks, job[t].iterations)]
        /\ pc'[t] = "advance" /\ calls' = [calls EXCEPT ![t] = 1]
        /\ UNCHANGED <<step, sigs, unchecked, result, read, next, job, netVars, solanaVars>>
    BY <1>3 DEF BuildSvmTx
  <2>2. "atomic_svm" \in Shapes
    BY DEF Shapes
  <2>3. /\ NewTable(NewTx("atomic_svm", FALSE, job[t].chunks, job[t].iterations))
        /\ NewTx("atomic_svm", FALSE, job[t].chunks, job[t].iterations).outer = "Plain"
    BY <1>1, <2>2, PlainTxTable
  <2> QED
    BY <2>1, <2>3
<1>4. CASE ReturnCross(t)
  <2>1. /\ tx' = [tx EXCEPT ![t] = NewTx(job[t].api, FALSE, job[t].chunks, job[t].iterations)]
        /\ pc'[t] = "advance" /\ calls' = [calls EXCEPT ![t] = 1]
        /\ UNCHANGED <<step, sigs, unchecked, result, read, next, job, netVars, solanaVars>>
    BY <1>4 DEF ReturnCross
  <2>2. job[t].api \in Shapes
    BY <1>4 DEF ReturnCross, TaskInv, Shapes
  <2>3. /\ NewTable(NewTx(job[t].api, FALSE, job[t].chunks, job[t].iterations))
        /\ NewTx(job[t].api, FALSE, job[t].chunks, job[t].iterations).outer = "Plain"
    BY <1>1, <2>2, PlainTxTable
  <2> QED
    BY <2>1, <2>3
<1> QED
  BY <1>2, <1>3, <1>4

(* The outcome of a step of a machine, as the tower takes it.              *)
Taken(t, o) ==
  \/ /\ o.step.kind \in {"Err", "NotConfirmed"}
     /\ Return(t, "err") /\ UNCHANGED <<step, sigs, wire>>
  \/ o.step.kind = "Panic" /\ Return(t, "panic") /\ UNCHANGED <<step, sigs, wire>>
  \/ /\ o.step.kind = "End" /\ UNCHANGED <<step, sigs, wire>>
     /\ Return(t, IF sigs[t] = 0 THEN "panic" ELSE "ok")
  \/ /\ o.step.kind = "Confirmed" /\ UNCHANGED <<pc, result, step, wire>>
     /\ sigs' = [sigs EXCEPT ![t] = @ + unchecked[t]]
  \/ /\ o.step.kind \notin {"Err", "NotConfirmed", "Panic", "End", "Confirmed"}
     /\ step' = [step EXCEPT ![t] = o.step]
     /\ wire' = [wire EXCEPT ![t] = Sends(t, o.step)]
     /\ Goto(t, "sending") /\ UNCHANGED <<sigs, result>>

(* A step of a machine.                                                    *)
LEMMA MachineStep ==
  ASSUME RomeInv, TransactionInv, TableInv, NEW t \in Tasks, AdvanceStep(t)
  PROVE  \E o \in Advance(tx[t], TableFound(t), Whole(t), t \in executed) :
           /\ pc[t] = "advance" /\ tx[t] \in Txs /\ TableTx(tx[t])
           /\ tx' = [tx EXCEPT ![t] = o.tx] /\ TypedOutcome(o)
           /\ read' = IF o.tx.alt_raw_account /\ ~tx[t].alt_raw_account
                      THEN [read EXCEPT ![t] = table[resource[t]]] ELSE read
           /\ TableStep(tx[t], o, TableFound(t)) /\ (FirstTx(tx[t]) => FirstStep(tx[t], o))
           /\ Taken(t, o)
           /\ UNCHANGED <<factory, job, resource, current, next, unchecked, calls, late, solanaVars>>
<1>1. PICK o \in Advance(tx[t], TableFound(t), Whole(t), t \in executed) :
        /\ tx' = [tx EXCEPT ![t] = o.tx]
        /\ read' = IF o.tx.alt_raw_account /\ ~tx[t].alt_raw_account
                   THEN [read EXCEPT ![t] = table[resource[t]]] ELSE read
        /\ Taken(t, o)
  BY DEF AdvanceStep, Taken
<1>2. /\ pc[t] = "advance"
      /\ UNCHANGED <<factory, job, resource, current, next, unchecked, calls, late, solanaVars>>
  BY DEF AdvanceStep, composeVars
<1>3. TableTx(tx[t]) /\ tx[t] \in Txs
  BY <1>2 DEF TableInv, TableTask, Active, TableTx
<1>4. Whole(t) \in BOOLEAN /\ TableFound(t) \in BOOLEAN /\ (t \in executed) \in BOOLEAN
  BY DEF Whole, TableFound
<1>5. TypedOutcome(o)
  BY <1>3, <1>4, AdvanceType
<1>6. TableStep(tx[t], o, TableFound(t)) /\ (FirstTx(tx[t]) => FirstStep(tx[t], o))
  BY <1>3, <1>4, AdvanceTable
<1> QED
  BY <1>1, <1>2, <1>3, <1>5, <1>6

(* The transactions of a step are as the tower sends them.                 *)
LEMMA SendsTyped ==
  ASSUME RomeInv, TransactionInv, NEW t \in Tasks, pc[t] # "idle", NEW s \in Steps
  PROVE  Sends(t, s) \subseteq Sendable
<1> DEFINE send(kind, n) == [task |-> t, res |-> resource[t], kind |-> kind, n |-> n]
<1>1. resource[t] \in Resources \cup {NoResource} /\ job[t] \in Jobs
  BY DEF RomeInv, PoolTypeOK, TransactionInv, TaskInv
<1>2. \A kind \in {"transmit", "dealloc", "alloc", "execute", "iterate"}, n \in Nat :
        send(kind, n) \in Transactions
  BY <1>1 DEF Transactions
<1>3. Chunks \subseteq Nat /\ Parts \subseteq Nat /\ s.chunks \subseteq Chunks
  BY DEF Chunks, Parts, Steps
<1>4. job[t] \in JobType
  BY <1>1, RomeTxAssumption
<1>5. job[t].iterations \in Nat
  BY <1>4, AdvanceTxAssumption DEF JobType
<1>6. IterationsSent(job[t].iterations) \in Nat
  BY <1>5 DEF IterationsSent
<1>7. \A n \in 1 .. IterationsSent(job[t].iterations) : n \in Nat
  BY <1>6
<1>8. ASSUME NEW x \in Sends(t, s) PROVE x \in Sendable
  <2>1. CASE s.kind = "Parallel"
    <3>1. CASE \E n \in s.chunks : x = send("transmit", n)
      <4>1. PICK n \in s.chunks : x = send("transmit", n)
        BY <3>1
      <4>2. n \in Chunks /\ n \in Nat
        BY <1>3
      <4>3. x \in Transactions
        BY <1>2, <4>1, <4>2
      <4>4. x.kind = "transmit" /\ x.n = n
        BY <4>1
      <4> QED
        BY <4>2, <4>3, <4>4 DEF Sendable
    <3>2. CASE x = send("dealloc", 0)
      BY <1>2, <3>2 DEF Sendable
    <3>3. CASE \E n \in Parts : x = send("alloc", n)
      BY <1>2, <1>3, <3>3 DEF Sendable
    <3> QED
      BY <1>8, <2>1, <3>1, <3>2, <3>3 DEF Sends
  <2>2. CASE s.kind = "ParallelUnchecked"
    <3>1. PICK n \in 1 .. IterationsSent(job[t].iterations) : x = send("iterate", n)
      BY <1>8, <2>2 DEF Sends
    <3> QED
      BY <1>2, <1>7, <3>1 DEF Sendable
  <2>3. CASE s.kind \in {"Single", "SingleWithSigners"}
    <3>1. x = send("execute", 0)
      BY <1>8, <2>3 DEF Sends
    <3> QED
      BY <1>2, <3>1 DEF Sendable
  <2>4. CASE s.kind \notin {"Parallel", "ParallelUnchecked", "Single", "SingleWithSigners"}
    BY <1>8, <2>4 DEF Sends
  <2> QED
    BY <2>1, <2>2, <2>3, <2>4
<1> QED
  BY <1>8

(* The types when a transaction lands.                                     *)
LEMMA EffectTypes ==
  ASSUME SolanaTypeOK, NEW x \in Sendable, Effect(x)
  PROVE  /\ holder' \in [Resources -> Holders] /\ table' \in [Resources -> Tables]
         /\ iterated' \in [Tasks -> Nat] /\ executed' \subseteq Tasks
<1>0. x.task \in Tasks /\ x \in Transactions
  BY DEF Sendable, Transactions
<1>1. CASE x.kind = "transmit"
  <2>1. x.n \in Chunks
    BY <1>1 DEF Sendable
  <2>2. \A h \in Holders : Received(h, x.task, x.n) \in Holders
    BY <1>0, <2>1 DEF Received, Holders
  <2>3. holder' = [holder EXCEPT ![x.res] = Received(@, x.task, x.n)]
        /\ UNCHANGED <<table, iterated, executed>>
    BY <1>1 DEF Effect
  <2> QED
    BY <2>2, <2>3 DEF SolanaTypeOK
<1>2. CASE x.kind \in {"alloc", "dealloc"}
  <2>1. NoTable \in Tables
    BY DEF NoTable, Tables
  <2>2. \A a \in Tables : Freed(a, x.task) \in Tables
    BY <2>1 DEF Freed
  <2>3. ASSUME x.kind = "alloc", NEW a \in Tables PROVE Extended(a, x.task, x.n) \in Tables
    <3>1. x.n \in Parts
      BY <2>3 DEF Sendable
    <3>2. (IF a.owner = x.task THEN a ELSE NoTable) \in Tables
      BY <2>1
    <3> QED
      BY <1>0, <3>1, <3>2 DEF Extended, Tables
  <2>4. /\ \/ x.kind = "alloc" /\ table' = [table EXCEPT ![x.res] = Extended(@, x.task, x.n)]
           \/ table' = [table EXCEPT ![x.res] = Freed(@, x.task)]
        /\ UNCHANGED <<holder, iterated, executed>>
    BY <1>2 DEF Effect
  <2>5. table' \in [Resources -> Tables]
    BY <2>2, <2>3, <2>4 DEF SolanaTypeOK
  <2> QED
    BY <2>4, <2>5 DEF SolanaTypeOK
<1>3. CASE x.kind \in {"execute", "iterate"}
  BY <1>0, <1>3 DEF Effect, SolanaTypeOK
<1>4. x.kind \in {"transmit", "alloc", "dealloc", "execute", "iterate"}
  BY DEF Effect
<1> QED
  BY <1>1, <1>2, <1>3, <1>4

(* The types of the tower and of Solana: the network and the slots.        *)
LEMMA NetworkTypes ==
  ASSUME TowerTypeOK,
         \/ \E t \in Tasks : \E x \in wire[t] : Lands(t, x)
         \/ \E x \in late : LandsLate(x)
         \/ NextSlot
  PROVE  TowerTypeOK'
<1>1. ASSUME NEW t \in Tasks, NEW x \in wire[t], Lands(t, x) PROVE TowerTypeOK'
  <2>1. UNCHANGED <<next, towerVars, late, disturbed>> /\ wire' = [wire EXCEPT ![t] = @ \ {x}]
    BY <1>1 DEF Lands, composeVars
  <2>2. x \in Sendable /\ SolanaTypeOK
    BY DEF TowerTypeOK, NetTypeOK
  <2>3. SolanaTypeOK'
    BY <1>1, <2>1, <2>2, EffectTypes DEF Lands, SolanaTypeOK
  <2>4. NetTypeOK'
    BY <2>1 DEF TowerTypeOK, NetTypeOK
  <2> QED
    BY <2>1, <2>3, <2>4 DEF TowerTypeOK, towerVars
<1>2. ASSUME NEW x \in late, LandsLate(x) PROVE TowerTypeOK'
  <2>1. UNCHANGED <<next, towerVars, wire>> /\ late' \subseteq late
    BY <1>2 DEF LandsLate, composeVars
  <2>2. x \in Sendable /\ SolanaTypeOK
    BY DEF TowerTypeOK, NetTypeOK
  <2>3. disturbed' \subseteq Tasks \X {"holder", "table"}
    <3>1. Account(x) \subseteq {"holder", "table"}
      BY DEF Account
    <3> QED
      BY <1>2, <2>2, <3>1 DEF LandsLate, SolanaTypeOK
  <2>4. SolanaTypeOK'
    BY <1>2, <2>2, <2>3, EffectTypes DEF LandsLate, SolanaTypeOK
  <2>5. NetTypeOK'
    BY <2>1 DEF TowerTypeOK, NetTypeOK
  <2> QED
    BY <2>1, <2>4, <2>5 DEF TowerTypeOK, towerVars
<1>3. CASE NextSlot
  <2>1. /\ UNCHANGED <<next, tx, step, sigs, unchecked, calls, result, netVars>>
        /\ UNCHANGED <<holder, iterated, executed, disturbed>>
        /\ table' = [r \in Resources |-> [table[r] EXCEPT !.new = {}]]
        /\ read' = [t \in Tasks |-> [read[t] EXCEPT !.new = {}]]
    BY <1>3 DEF NextSlot, composeVars
  <2>2. \A a \in Tables : [a EXCEPT !.new = {}] \in Tables
    BY DEF Tables
  <2>3. read' \in [Tasks -> Tables] /\ table' \in [Resources -> Tables]
    BY <2>1, <2>2 DEF TowerTypeOK, SolanaTypeOK
  <2>4. SolanaTypeOK' /\ NetTypeOK'
    BY <2>1, <2>3 DEF TowerTypeOK, SolanaTypeOK, NetTypeOK, netVars
  <2> QED
    BY <2>1, <2>3, <2>4 DEF TowerTypeOK
<1> QED
  BY <1>1, <1>2, <1>3

(* The same of the composition.                                            *)
LEMMA ComposeTypes ==
  ASSUME RomeInv, TransactionInv, TableInv, NEW t \in Tasks,
         (\E j \in Jobs : Start(t, j)) \/ Compose(t)
  PROVE  TowerTypeOK'
<1> USE DEF towerVars, netVars, solanaVars, composeVars, Goto, NetTypeOK, SolanaTypeOK
<1>0. TowerTypeOK
  BY DEF TableInv
<1>1. CASE (\E j \in Jobs : Start(t, j)) \/ LockResource(t) \/ Unwind(t)
  <2>1. UNCHANGED <<next, towerVars, netVars, solanaVars>>
    BY <1>1 DEF Start, LockResource, Unwind
  <2> QED
    BY <1>0, <2>1 DEF TowerTypeOK
<1>2. CASE NoBuilder(t) \/ ComposeFails(t)
  <2>1. /\ result' = [result EXCEPT ![t] = "err"]
        /\ UNCHANGED <<next, tx, step, sigs, unchecked, calls, read, netVars, solanaVars>>
    BY <1>2 DEF NoBuilder, ComposeFails
  <2> QED
    BY <1>0, <2>1 DEF TowerTypeOK
<1>3. CASE ComposeCrossRollup(t) \/ ComposeCrossChain(t)
  <2>1. /\ next' = [next EXCEPT ![t] = @ + 1] \/ next' = next
        /\ UNCHANGED <<towerVars, netVars, solanaVars>>
    BY <1>3 DEF ComposeCrossRollup, ComposeCrossChain, NextTransaction
  <2> QED
    BY <1>0, <2>1 DEF TowerTypeOK
<1>4. CASE BuildTx(t) \/ BuildSvmTx(t) \/ ReturnCross(t)
  <2>1. /\ tx' = [tx EXCEPT ![t] = tx'[t]] /\ tx'[t] \in Txs /\ calls' = [calls EXCEPT ![t] = 1]
        /\ UNCHANGED <<step, sigs, unchecked, result, read, next, netVars, solanaVars>>
    BY <1>4, BuiltTable DEF NewTable
  <2>2. 1 \in 0 .. MaxCalls
    BY RomeTxAssumption
  <2> QED
    BY <1>0, <2>1, <2>2 DEF TowerTypeOK
<1> QED
  BY <1>1, <1>2, <1>3, <1>4 DEF Compose

(* The types when a machine advances.                                      *)
LEMMA AdvanceTypes ==
  ASSUME RomeInv, TransactionInv, TableInv, NEW t \in Tasks, AdvanceStep(t)
  PROVE  TowerTypeOK'
<1>0. TowerTypeOK /\ TableTask(t)
  BY DEF TableInv
<1>1. PICK o : /\ pc[t] = "advance" /\ TypedOutcome(o) /\ TableStep(tx[t], o, TableFound(t))
               /\ tx' = [tx EXCEPT ![t] = o.tx]
               /\ read' = IF o.tx.alt_raw_account /\ ~tx[t].alt_raw_account
                          THEN [read EXCEPT ![t] = table[resource[t]]] ELSE read
               /\ Taken(t, o)
               /\ UNCHANGED <<next, unchecked, calls, late, solanaVars>>
  BY MachineStep
<1>2. tx' \in [Tasks -> Txs \cup {NoTx}]
  BY <1>0, <1>1 DEF TowerTypeOK, TypedOutcome
<1>3. /\ step' \in [Tasks -> Steps \cup {NoStep}] /\ sigs' \in [Tasks -> Nat]
      /\ result' \in [Tasks -> {"none", "ok", "err", "panic"}]
  <2>1. o.step \in Steps
    BY <1>1 DEF TypedOutcome
  <2>2. \/ (\E res \in {"err", "panic", "ok"} : Return(t, res)) /\ UNCHANGED <<step, sigs>>
        \/ UNCHANGED <<result, step>> /\ sigs' = [sigs EXCEPT ![t] = @ + unchecked[t]]
        \/ step' = [step EXCEPT ![t] = o.step] /\ UNCHANGED <<sigs, result>>
    BY <1>1 DEF Taken
  <2> QED
    BY <1>0, <2>1, <2>2 DEF TowerTypeOK, Return
<1>4. read' \in [Tasks -> Tables]
  <2>1. CASE read' = read
    BY <1>0, <2>1 DEF TowerTypeOK
  <2>2. CASE o.tx.alt_raw_account /\ ~tx[t].alt_raw_account
    <3>1. tx[t].outer = "Alt"
      BY <1>1, <2>2 DEF TableStep
    <3>2. resource[t] \in Resources
      BY <1>0, <1>1, <3>1 DEF TableTask, Active, RomeInv, PoolTypeOK
    <3>3. table[resource[t]] \in Tables
      BY <1>0, <3>2 DEF TowerTypeOK, SolanaTypeOK
    <3> QED
      BY <1>0, <1>1, <2>2, <3>3 DEF TowerTypeOK
  <2> QED
    BY <1>1, <2>1, <2>2
<1>5. NetTypeOK'
  <2>1. Sends(t, o.step) \subseteq Sendable
    BY <1>1, SendsTyped DEF TypedOutcome
  <2>2. UNCHANGED wire \/ wire' = [wire EXCEPT ![t] = Sends(t, o.step)]
    BY <1>1 DEF Taken
  <2> QED
    BY <1>0, <1>1, <2>1, <2>2 DEF TowerTypeOK, NetTypeOK
<1>6. SolanaTypeOK'
  BY <1>0, <1>1 DEF TowerTypeOK, SolanaTypeOK, solanaVars
<1> QED
  BY <1>0, <1>1, <1>2, <1>3, <1>4, <1>5, <1>6 DEF TowerTypeOK

(* The transactions of a step are finitely many.                           *)
LEMMA FiniteBatch ==
  ASSUME NEW t, NEW kind, NEW S, IsFiniteSet(S)
  PROVE  IsFiniteSet({[task |-> t, res |-> resource[t], kind |-> kind, n |-> n] : n \in S})
<1> DEFINE send(n) == [task |-> t, res |-> resource[t], kind |-> kind, n |-> n]
           T == {send(n) : n \in S}
           f == [n \in S |-> send(n)]
<1>1. f \in Surjection(S, T)
  BY DEF Surjection
<1> QED
  BY <1>1, FS_Surjection

(* The same of all of a step.                                              *)
LEMMA FiniteSends ==
  ASSUME RomeInv, TransactionInv, NEW t \in Tasks, pc[t] # "idle", NEW s \in Steps
  PROVE  IsFiniteSet(Sends(t, s))
<1> DEFINE send(kind, n) == [task |-> t, res |-> resource[t], kind |-> kind, n |-> n]
<1>1. MaxChunks \in Int /\ TableParts \in Int
  BY AdvanceTxAssumption, RomeTxAssumption
<1>2. IsFiniteSet(s.chunks) /\ IsFiniteSet(Parts)
  <2>1. IsFiniteSet(1 .. MaxChunks) /\ IsFiniteSet(1 .. TableParts)
    BY <1>1, FS_Interval
  <2>2. s.chunks \subseteq 1 .. MaxChunks
    BY DEF Steps, Chunks
  <2> QED
    BY <2>1, <2>2, FS_Subset DEF Parts
<1>3. IsFiniteSet({send("transmit", n) : n \in s.chunks})
  BY <1>2, FiniteBatch
<1>4. IsFiniteSet({send("alloc", n) : n \in Parts})
  BY <1>2, FiniteBatch
<1>5. IsFiniteSet({send("iterate", n) : n \in 1 .. IterationsSent(job[t].iterations)})
  <2>1. job[t].iterations \in Nat
    <3>1. job[t] \in JobType
      BY RomeTxAssumption DEF TransactionInv, TaskInv
    <3> QED
      BY <3>1, AdvanceTxAssumption DEF JobType
  <2>2. IterationsSent(job[t].iterations) \in Int
    BY <2>1 DEF IterationsSent
  <2>3. IsFiniteSet(1 .. IterationsSent(job[t].iterations))
    BY <2>2, FS_Interval
  <2> QED
    BY <2>3, FiniteBatch
<1>6. IsFiniteSet({send("dealloc", 0)}) /\ IsFiniteSet({send("execute", 0)}) /\ IsFiniteSet({})
  BY FS_Singleton, FS_EmptySet
<1>7. CASE s.kind = "Parallel"
  <2>1. IsFiniteSet({send("dealloc", 0)} \cup {send("alloc", n) : n \in Parts})
    BY <1>4, <1>6, FS_Union
  <2>2. Sends(t, s) = {send("transmit", n) : n \in s.chunks}
                        \cup IF s.alt THEN {send("dealloc", 0)} \cup {send("alloc", n) : n \in Parts} ELSE {}
    BY <1>7 DEF Sends
  <2> QED
    BY <1>3, <1>6, <2>1, <2>2, FS_Union
<1>8. CASE s.kind = "ParallelUnchecked"
  <2>1. Sends(t, s) = {send("iterate", n) : n \in 1 .. IterationsSent(job[t].iterations)}
    BY <1>8 DEF Sends
  <2> QED
    BY <1>5, <2>1
<1>9. CASE s.kind \notin {"Parallel", "ParallelUnchecked"}
  <2>1. Sends(t, s) = {send("execute", 0)} \/ Sends(t, s) = {}
    BY <1>9 DEF Sends
  <2> QED
    BY <1>6, <2>1
<1> QED
  BY <1>7, <1>8, <1>9

(* The types when the tower sends.                                         *)
LEMMA SendTypes ==
  ASSUME RomeInv, TransactionInv, TableInv, NEW t \in Tasks,
         Send(t) \/ Resubmit(t) \/ DropTx(t)
  PROVE  TowerTypeOK'
<1>0. TowerTypeOK /\ TableTask(t)
  BY DEF TableInv
<1>1. SolanaTypeOK'
  <2>1. UNCHANGED solanaVars
    BY SolanaUntouched
  <2> QED
    BY <1>0, <2>1 DEF TowerTypeOK, SolanaTypeOK, solanaVars
<1> USE DEF towerVars, netVars, composeVars
<1>2. CASE Send(t)
  <2>1. /\ pc[t] = "sending"
        /\ \/ step[t].kind \in {"Single", "SingleWithSigners"} /\ Answered(t, 1)
           \/ step[t].kind = "Parallel" /\ Answered(t, Cardinality(Sends(t, step[t])))
           \/ Sent(t, 0) /\ UNCHANGED netVars
           \/ Sent(t, 0) /\ LeavesBehind(t)
           \/ SendFails(t)
        /\ UNCHANGED <<next, tx, calls, read>>
    BY <1>2 DEF Send, SendSingle, SendWithSigners, SendParallel, SendUnchecked, WaitNextSlot
  <2>2. IsFiniteSet(Sends(t, step[t]))
    BY <1>0, <2>1, FiniteSends DEF TableTask
  <2>3. Cardinality(Sends(t, step[t])) \in Nat
    BY <2>2, FS_CardinalityType
  <2>4. (\E n \in Nat : Sent(t, n)) \/ SendFails(t)
    BY <2>1, <2>3 DEF Answered
  <2>5. UNCHANGED netVars \/ LeavesBehind(t)
    BY <2>1 DEF Answered, SendFails
  <2>6. /\ step' \in [Tasks -> Steps \cup {NoStep}] /\ sigs' \in [Tasks -> Nat]
        /\ result' \in [Tasks -> {"none", "ok", "err", "panic"}]
    BY <1>0, <2>4 DEF TowerTypeOK, Sent, SendFails, Return
  <2>7. NetTypeOK'
    BY <1>0, <2>5 DEF TowerTypeOK, NetTypeOK, LeavesBehind
  <2>8. unchecked' \in [Tasks -> Nat]
    <3>1. CASE SendUnchecked(t)
      <4>1. IsFiniteSet(Sends(t, step[t]) \ wire[t])
        BY <2>2, FS_Difference
      <4>2. Cardinality(Sends(t, step[t]) \ wire[t]) \in Nat
        BY <4>1, FS_CardinalityType
      <4>3. PICK ok \in 0 .. Cardinality(Sends(t, step[t]) \ wire[t]) :
              unchecked' = [unchecked EXCEPT ![t] = ok]
        BY <3>1 DEF SendUnchecked
      <4>4. ok \in Nat
        BY <4>2
      <4> QED
        BY <1>0, <4>3, <4>4 DEF TowerTypeOK
    <3>2. CASE ~SendUnchecked(t)
      <4>1. UNCHANGED unchecked
        BY <1>2, <3>2 DEF Send, SendSingle, SendWithSigners, SendParallel, WaitNextSlot
      <4> QED
        BY <1>0, <4>1 DEF TowerTypeOK
    <3> QED
      BY <3>1, <3>2
  <2> QED
    BY <1>0, <1>1, <2>1, <2>6, <2>7, <2>8 DEF TowerTypeOK
<1>3. CASE Resubmit(t)
  <2>1. calls[t] \in 0 .. MaxCalls /\ calls[t] < MaxCalls /\ MaxCalls \in Nat
    BY <1>0, <1>3, RomeTxAssumption DEF TowerTypeOK, Resubmit
  <2>2. calls[t] + 1 \in 0 .. MaxCalls
    BY <2>1
  <2> QED
    BY <1>0, <1>1, <1>3, <2>2 DEF TowerTypeOK, Resubmit, NetTypeOK
<1>4. CASE DropTx(t)
  BY <1>0, <1>1, <1>4 DEF TowerTypeOK, DropTx, NetTypeOK
<1> QED
  BY <1>2, <1>3, <1>4

(* What a step of a task leaves alone in the others besides.               *)
LEMMA OtherCalls ==
  ASSUME TableInv, NEW t \in Tasks, NEW u \in Tasks, u # t,
         \/ \E j \in Jobs : Start(t, j)
         \/ Compose(t) \/ AdvanceStep(t) \/ Send(t) \/ Resubmit(t) \/ DropTx(t)
  PROVE  calls'[u] = calls[u] /\ read'[u] = read[u]
<1>0. TowerTypeOK
  BY DEF TableInv
<1> USE DEF TowerTypeOK, towerVars
<1>1. CASE \E j \in Jobs : Start(t, j)
  BY <1>0, <1>1 DEF Start
<1>2. CASE Compose(t)
  BY <1>0, <1>2 DEF Compose, LockResource, NoBuilder, BuildTx, BuildSvmTx, ComposeCrossRollup,
     ComposeCrossChain, ReturnCross, ComposeFails, Unwind, Composed
<1>3. CASE AdvanceStep(t)
  BY <1>0, <1>3 DEF AdvanceStep
<1>4. CASE Send(t)
  BY <1>0, <1>4 DEF Send, SendSingle, SendWithSigners, SendParallel, SendUnchecked, WaitNextSlot
<1>5. CASE Resubmit(t) \/ DropTx(t)
  BY <1>0, <1>5 DEF Resubmit, DropTx
<1> QED
  BY <1>1, <1>2, <1>3, <1>4, <1>5

(* The first call: the parts of the machine that are over, and that a      *)
(* machine at its end is executed.                                         *)
FirstTask(t) ==
  /\ pc[t] \in {"advance", "sending"} /\ calls[t] = 1 =>
       /\ FirstTx(tx[t])
       /\ pc[t] = "advance" /\ tx[t].step = "End" => t \in executed
       /\ OneBatch(tx[t]) => BatchSent(tx[t])
  /\ result[t] = "panic" =>
       pc[t] \in {"returned", "done"} /\ (calls[t] = 1 => t \in executed)

(* The lookup table of a task in its first call, before another task's     *)
(* late transaction changes it: what has not landed of it is under way,    *)
(* it is filled when the allocation was answered, read as it is, and not   *)
(* extended in the current slot once the wait for the next one is over.    *)
AltSent(t) == pc[t] = "sending" /\ step[t].alt
Alloc(t, n) == [task |-> t, res |-> resource[t], kind |-> "alloc", n |-> n]
Filled(a, t) == a.owner = t /\ a.parts = Parts

SeenAs(t, a) ==
  /\ AltSent(t) => \A n \in Parts : Alloc(t, n) \in wire[t] \/ (a.owner = t /\ n \in a.parts)
  /\ tx[t].alt_step # "Execute" /\ ~AltSent(t) => Filled(a, t)
  /\ tx[t].alt_raw_account => Filled(read[t], t) /\ a.new \subseteq read[t].new
  /\ OneBatch(tx[t]) /\ tx[t].alt_step = "End" =>
       a.new = {} \/ (pc[t] = "sending" /\ step[t].kind = "WaitNextSlot")

Undisturbed(t) ==
  /\ pc[t] \in {"advance", "sending"} /\ calls[t] = 1 /\ <<t, "table">> \notin disturbed
  /\ tx[t].outer # "Plain"

TableSeen(t) == Undisturbed(t) => SeenAs(t, table[resource[t]])

(* A task whose table can still be changed by its own late transactions is *)
(* past its first call.                                                    *)
LateAfterFirst(x) ==
  x.kind \in {"dealloc", "alloc"} => calls[x.task] > 1 \/ pc[x.task] \in {"returned", "done"}

FirstInv ==
  /\ \A t \in Tasks : FirstTask(t) /\ TableSeen(t)
  /\ \A x \in late : LateAfterFirst(x)

(* A composition.                                                          *)
LEMMA TableCompose ==
  ASSUME RomeInv, TransactionInv, TableInv, NEW t \in Tasks, FirstTask(t),
         (\E j \in Jobs : Start(t, j)) \/ Compose(t)
  PROVE  /\ TableTask(t)' /\ FirstTask(t)' /\ TableSeen(t)'
         /\ pc[t] \notin Active \cup {"done"}
<1>0. TowerTypeOK /\ TableTask(t)
  BY DEF TableInv
<1> USE DEF RomeInv, PoolTypeOK, Goto, composeVars
<1>1. CASE \/ \E j \in Jobs : Start(t, j)
           \/ LockResource(t) \/ NoBuilder(t) \/ ComposeFails(t) \/ Unwind(t)
           \/ ComposeCrossRollup(t) \/ ComposeCrossChain(t)
  <2>1. /\ pc'[t] \in {"lock", "build", "done", "unwind", "return"}
        /\ pc[t] \in {"idle", "lock", "build", "unwind"}
    BY <1>1 DEF Start, LockResource, NoBuilder, ComposeFails, Unwind, ComposeCrossRollup,
       ComposeCrossChain, NextTransaction
  <2>2. result'[t] # "panic"
    <3>1. result'[t] \in {result[t], "err"}
      BY <1>0, <1>1 DEF Start, LockResource, NoBuilder, ComposeFails, Unwind, ComposeCrossRollup,
         ComposeCrossChain, towerVars, TowerTypeOK
    <3> QED
      BY <2>1, <3>1 DEF FirstTask
  <2>3. pc'[t] \notin Active /\ pc[t] \notin Active \cup {"done"}
    BY <2>1 DEF Active
  <2>4. ~Undisturbed(t)'
    BY <2>1 DEF Undisturbed
  <2> QED
    BY <2>1, <2>2, <2>3, <2>4 DEF TableTask, FirstTask, TableSeen
<1>2. CASE BuildTx(t) \/ BuildSvmTx(t) \/ ReturnCross(t)
  <2>1. /\ pc'[t] = "advance" /\ NewTable(tx'[t]) /\ calls'[t] = 1
        /\ UNCHANGED <<result, job>>
        /\ tx'[t].outer # "Plain" => resource'[t] # NoResource
    BY <1>2, BuiltTable
  <2>2. pc[t] \in {"build", "return"}
    BY <1>2 DEF BuildTx, BuildSvmTx, ReturnCross
  <2>3. TableTask(t)'
    BY <2>1, <2>2 DEF TableTask, NewTable, Active
  <2>4. FirstTask(t)'
    BY <2>1, <2>2 DEF FirstTask, NewTable
  <2>5. TableSeen(t)'
    <3>1. ~AltSent(t)' /\ tx'[t].alt_step = "Execute" /\ ~tx'[t].alt_raw_account
      BY <2>1 DEF AltSent, NewTable
    <3> QED
      BY <3>1 DEF TableSeen, SeenAs
  <2> QED
    BY <2>2, <2>3, <2>4, <2>5 DEF Active
<1> QED
  BY <1>1, <1>2 DEF Compose

(* A step of the machine: its own claims.                                  *)
LEMMA TableAdvance ==
  ASSUME RomeInv, TransactionInv, TableInv, NEW t \in Tasks, OkTask(t), FirstTask(t),
         TableSeen(t), AdvanceStep(t)
  PROVE  TableTask(t)' /\ FirstTask(t)' /\ TableSeen(t)'
<1>0. TowerTypeOK /\ TableTask(t)
  BY DEF TableInv
<1>1. PICK o \in Advance(tx[t], TableFound(t), Whole(t), t \in executed) :
        /\ pc[t] = "advance" /\ tx[t] \in Txs /\ TableTx(tx[t])
        /\ tx' = [tx EXCEPT ![t] = o.tx] /\ TypedOutcome(o)
        /\ read' = IF o.tx.alt_raw_account /\ ~tx[t].alt_raw_account
                   THEN [read EXCEPT ![t] = table[resource[t]]] ELSE read
        /\ TableStep(tx[t], o, TableFound(t)) /\ (FirstTx(tx[t]) => FirstStep(tx[t], o))
        /\ Taken(t, o)
        /\ UNCHANGED <<factory, job, resource, current, next, unchecked, calls, late, solanaVars>>
  BY MachineStep
<1>2. EndsWell(tx[t], o, t \in executed)
  <2>1. Whole(t) \in BOOLEAN /\ (t \in executed) \in BOOLEAN
    BY DEF Whole
  <2>2. WellFormed(tx[t])
    BY <1>1 DEF OkTask, Active
  <2> QED
    BY <2>1, <2>2, AdvanceEnds
<1>3. tx'[t] = o.tx
  BY <1>0, <1>1 DEF TowerTypeOK
<1>4. SameTx(tx[t], o.tx)
  <2>1. Whole(t) \in BOOLEAN /\ (t \in executed) \in BOOLEAN
    BY DEF Whole
  <2>2. IsTx(tx[t]) /\ tx[t].shape \in Shapes
    BY <1>1 DEF TransactionInv, TaskInv, Active
  <2> QED
    BY <2>1, <2>2, AdvanceOutcomes
<1>5. \/ pc'[t] = "returned" /\ o.step.kind \in {"Err", "NotConfirmed", "Panic", "End"}
         /\ result'[t] = (IF o.step.kind = "Panic" \/ (o.step.kind = "End" /\ sigs[t] = 0) THEN "panic"
                          ELSE IF o.step.kind = "End" THEN "ok" ELSE "err")
      \/ pc'[t] = "advance" /\ o.step.kind = "Confirmed" /\ result'[t] = result[t]
      \/ /\ pc'[t] = "sending" /\ step'[t] = o.step /\ result'[t] = result[t]
         /\ wire'[t] = Sends(t, o.step)
         /\ o.step.kind \notin {"Err", "NotConfirmed", "Panic", "End", "Confirmed"}
  BY <1>0, <1>1 DEF Taken, TowerTypeOK, NetTypeOK, Return, Goto, RomeInv, PoolTypeOK
<1>6. TableTask(t)'
  <2>1. TableTx(tx'[t]) /\ calls'[t] >= 1
    BY <1>0, <1>1, <1>3 DEF TableTask, TableStep, Active
  <2>2. /\ tx[t].outer # "Plain" => resource[t] # NoResource
        /\ tx[t].alt_raw_account => tx[t].outer # "Plain"
    BY <1>0, <1>1 DEF TableTask, Active
  <2>3. tx'[t].outer # "Plain" => resource'[t] # NoResource
    BY <1>1, <1>3, <2>2 DEF TableStep
  <2>4. tx'[t].alt_raw_account => tx'[t].outer # "Plain"
    BY <1>1, <1>3, <2>2 DEF TableStep
  <2>5. pc'[t] = "sending" =>
          /\ step'[t] \in Steps
          /\ step'[t].alt =>
               step'[t].kind = "Parallel" /\ tx'[t].outer = "Alt" /\ tx'[t].alt_step = "WaitNextSlot"
          /\ step'[t].ver = "V0" => tx'[t].outer = "Execute"
          /\ step'[t].kind = "WaitNextSlot" => tx'[t].outer = "Alt"
    BY <1>1, <1>3, <1>5 DEF TableStep, TypedOutcome
  <2> QED
    BY <2>1, <2>3, <2>4, <2>5 DEF TableTask
<1>7. ASSUME calls[t] = 1 PROVE FirstTx(tx[t]) /\ FirstStep(tx[t], o)
  BY <1>1, <1>7 DEF FirstTask
<1>8. UNCHANGED <<calls, executed, resource, table, disturbed>>
  BY <1>1 DEF solanaVars
<1>9. FirstTask(t)'
  <2>1. result[t] # "panic"
    BY <1>1 DEF FirstTask
  <2>2. SUFFICES ASSUME calls[t] = 1
                 PROVE  /\ pc'[t] \in {"advance", "sending"} =>
                             /\ FirstTx(tx'[t])
                             /\ pc'[t] = "advance" /\ tx'[t].step = "End" => t \in executed'
                             /\ OneBatch(tx'[t]) => BatchSent(tx'[t])
                        /\ result'[t] = "panic" => t \in executed'
    <3>1. calls'[t] = calls[t]
      BY <1>8
    <3>2. result'[t] = "panic" => pc'[t] = "returned"
      BY <1>5, <2>1
    <3> QED
      BY <2>2, <3>1, <3>2 DEF FirstTask
  <2>3. tx[t].step = "End" => t \in executed
    BY <1>1, <2>2 DEF FirstTask
  <2>4. result'[t] = "panic" => t \in executed'
    <3>1. result'[t] = "panic" => o.step.kind = "End"
      BY <1>5, <1>7, <2>1, <2>2 DEF FirstStep
    <3>2. o.step.kind = "End" => tx[t].step = "End"
      BY <1>2 DEF EndsWell
    <3> QED
      BY <1>8, <2>3, <3>1, <3>2
  <2>5. ASSUME pc'[t] \in {"advance", "sending"}
        PROVE  /\ FirstTx(tx'[t])
               /\ pc'[t] = "advance" /\ tx'[t].step = "End" => t \in executed'
               /\ OneBatch(tx'[t]) => BatchSent(tx'[t])
    <3>1. o.step.kind # "Err" /\ (pc'[t] = "advance" => o.step.kind = "Confirmed")
      BY <1>5, <2>5
    <3>2. FirstTx(tx'[t])
      BY <1>3, <1>7, <2>2, <3>1 DEF FirstStep
    <3>3. pc'[t] = "advance" => t \in executed'
      BY <1>2, <1>8, <3>1 DEF EndsWell
    <3>4. ASSUME OneBatch(tx'[t]) PROVE BatchSent(tx'[t])
      <4>1. OneBatch(tx[t])
        BY <1>3, <1>4, <3>4 DEF SameTx, OneBatch
      <4>2. BatchSent(tx[t])
        BY <1>1, <2>2, <4>1 DEF FirstTask
      <4> QED
        BY <1>3, <1>7, <2>2, <3>1, <4>1, <4>2 DEF FirstStep
    <3> QED
      BY <3>2, <3>3, <3>4
  <2> QED
    BY <2>4, <2>5
<1>10. TableSeen(t)'
  <2> DEFINE x == tx[t]
             a == table[resource[t]]
  <2>1. SUFFICES ASSUME Undisturbed(t)' PROVE SeenAs(t, a)'
    BY DEF TableSeen
  <2>2. calls[t] = 1 /\ pc'[t] \in {"advance", "sending"} /\ o.tx.outer # "Plain"
        /\ <<t, "table">> \notin disturbed
    BY <1>3, <1>8, <2>1 DEF Undisturbed
  <2>3. x.outer # "Plain"
    BY <1>1, <2>2 DEF TableStep
  <2>4. SeenAs(t, a) /\ ~AltSent(t)
    BY <1>1, <2>2, <2>3 DEF TableSeen, Undisturbed, AltSent
  <2>5. o.step.kind # "Err" /\ FirstTx(x) /\ FirstStep(x, o)
    BY <1>5, <1>7, <2>2
  <2>6. x.alt_step = "Execute" => x.outer = "Alt"
    <3>1. x.outer \in {"Plain", "Alt", "Execute"}
      BY <1>1 DEF Txs
    <3> QED
      BY <1>1, <2>3, <3>1 DEF TableTx
  <2>7. ASSUME x.alt_step = "Execute"
        PROVE  AltSent(t)' /\ o.tx.alt_step = "WaitNextSlot" /\ ~o.tx.alt_raw_account
    <3>1. o.step.alt
      BY <2>5, <2>6, <2>7 DEF FirstStep
    <3>2. o.step.kind = "Parallel" /\ o.tx.alt_step = "WaitNextSlot" /\ TableTx(o.tx)
      BY <1>1, <3>1 DEF TableStep
    <3>3. pc'[t] = "sending" /\ step'[t] = o.step
      BY <1>5, <3>2
    <3> QED
      BY <3>1, <3>2, <3>3 DEF AltSent, TableTx
  <2>8. ASSUME AltSent(t)', NEW n \in Parts PROVE Alloc(t, n)' \in wire'[t]
    <3>1. o.step.alt /\ wire'[t] = Sends(t, o.step)
      BY <1>5, <2>8 DEF AltSent
    <3>2. o.step.kind = "Parallel"
      BY <1>1, <3>1 DEF TableStep
    <3>3. Alloc(t, n) \in Sends(t, o.step)
      BY <3>1, <3>2 DEF Alloc, Sends
    <3> QED
      BY <1>8, <3>1, <3>3 DEF Alloc
  <2>9. x.alt_step # "Execute" => Filled(a, t)
    BY <2>4 DEF SeenAs
  <2>10. o.tx.alt_step # "Execute" /\ ~AltSent(t)' => Filled(a, t)
    BY <2>7, <2>9
  <2>11. ASSUME o.tx.alt_raw_account PROVE Filled(read'[t], t) /\ a.new \subseteq read'[t].new
    <3>1. CASE x.alt_raw_account
      <4>1. read' = read
        BY <1>1, <3>1
      <4> QED
        BY <2>4, <3>1, <4>1 DEF SeenAs
    <3>2. CASE ~x.alt_raw_account
      <4>1. read'[t] = a
        BY <1>0, <1>1, <2>11, <3>2 DEF TowerTypeOK
      <4> QED
        BY <2>7, <2>9, <2>11, <4>1
    <3> QED
      BY <3>1, <3>2
  <2>12. ASSUME OneBatch(o.tx), o.tx.alt_step = "End"
         PROVE  a.new = {} \/ (pc'[t] = "sending" /\ step'[t].kind = "WaitNextSlot")
    <3>1. OneBatch(x)
      BY <1>4, <2>12 DEF SameTx, OneBatch
    <3>2. BatchSent(x)
      BY <1>1, <2>2, <3>1 DEF FirstTask
    <3>3. x.alt_step = "End" \/ o.step.kind = "WaitNextSlot"
      BY <2>3, <2>5, <2>12, <3>1, <3>2 DEF FirstStep
    <3>4. CASE x.alt_step = "End"
      BY <1>1, <2>4, <3>1, <3>4 DEF SeenAs
    <3>5. CASE o.step.kind = "WaitNextSlot"
      BY <1>5, <3>5
    <3> QED
      BY <3>3, <3>4, <3>5
  <2>13. a' = a
    BY <1>8
  <2> QED
    BY <1>3, <2>8, <2>10, <2>11, <2>12, <2>13 DEF SeenAs
<1> QED
  BY <1>6, <1>9, <1>10

(* The tower sends, the caller resubmits or drops: the task's own claims.  *)
LEMMA TableSend ==
  ASSUME RomeInv, TransactionInv, TableInv, NEW t \in Tasks, OkTask(t), FirstTask(t),
         TableSeen(t), Send(t) \/ Resubmit(t) \/ DropTx(t)
  PROVE  TableTask(t)' /\ FirstTask(t)' /\ TableSeen(t)'
<1>0. TowerTypeOK /\ TableTask(t)
  BY DEF TableInv
<1>1. UNCHANGED <<table, executed, disturbed>>
  BY SolanaUntouched DEF solanaVars
<1> USE DEF RomeInv, PoolTypeOK, Goto, Return, composeVars
<1>2. CASE Send(t)
  <2>1. pc[t] = "sending" /\ UNCHANGED <<tx, calls, job, resource, read>>
    BY <1>2 DEF Send, SendSingle, SendWithSigners, SendParallel, SendUnchecked, WaitNextSlot
  <2>2. \/ pc'[t] = "returned" /\ result'[t] = "err"
        \/ /\ pc'[t] = "advance" /\ result'[t] = result[t]
           /\ step[t].kind \in {"Single", "SingleWithSigners", "Parallel"} => wire[t] = {}
           /\ step[t].kind = "WaitNextSlot" => read[t].new = {}
    BY <1>0, <1>2 DEF Send, SendSingle, SendWithSigners, SendParallel, SendUnchecked, WaitNextSlot,
       Answered, Sent, SendFails, TowerTypeOK
  <2>3. TableTask(t)'
    BY <1>0, <2>1, <2>2 DEF TableTask, Active
  <2>4. result[t] # "panic"
    BY <2>1 DEF FirstTask
  <2>5. ASSUME pc'[t] = "advance", tx[t].step = "End" PROVE t \in executed
    <3>1. LastSent(t) /\ (wire[t] # {} \/ t \in executed)
      BY <2>1, <2>5 DEF OkTask
    <3> QED
      BY <2>2, <2>5, <3>1 DEF LastSent
  <2>6. calls[t] = 1 => FirstTx(tx[t]) /\ (OneBatch(tx[t]) => BatchSent(tx[t]))
    BY <2>1 DEF FirstTask
  <2>7. FirstTask(t)'
    BY <1>1, <2>1, <2>2, <2>4, <2>5, <2>6 DEF FirstTask
  <2>8. TableSeen(t)'
    <3> DEFINE a == table[resource[t]]
    <3>1. SUFFICES ASSUME Undisturbed(t)' PROVE SeenAs(t, a)'
      BY DEF TableSeen
    <3>2. /\ pc'[t] = "advance" /\ calls[t] = 1 /\ tx[t].outer # "Plain"
          /\ <<t, "table">> \notin disturbed
      BY <1>1, <2>1, <2>2, <3>1 DEF Undisturbed
    <3>3. SeenAs(t, a)
      BY <2>1, <3>2 DEF TableSeen, Undisturbed
    <3>4. ASSUME AltSent(t) PROVE Filled(a, t)
      <4>1. step[t].kind = "Parallel"
        BY <1>0, <2>1, <3>4 DEF TableTask, AltSent
      <4>2. \A n \in Parts : a.owner = t /\ n \in a.parts
        BY <2>2, <3>2, <3>3, <3>4, <4>1 DEF SeenAs
      <4>3. 1 \in Parts
        BY RomeTxAssumption DEF Parts
      <4>4. resource[t] \in Resources
        BY <1>0, <2>1, <3>2 DEF TableTask, Active
      <4>5. a.parts \subseteq Parts
        BY <1>0, <4>4 DEF TowerTypeOK, SolanaTypeOK, Tables
      <4> QED
        BY <4>2, <4>3, <4>5 DEF Filled
    <3>5. tx[t].alt_step # "Execute" => Filled(a, t)
      BY <3>3, <3>4 DEF SeenAs
    <3>6. ASSUME OneBatch(tx[t]), tx[t].alt_step = "End" PROVE a.new = {}
      <4>1. tx[t].alt_raw_account
        BY <2>6, <3>2, <3>6 DEF FirstTx
      <4>2. a.new \subseteq read[t].new
        BY <3>3, <4>1 DEF SeenAs
      <4>3. a.new = {} \/ step[t].kind = "WaitNextSlot"
        BY <3>3, <3>6 DEF SeenAs
      <4> QED
        BY <2>2, <3>2, <4>2, <4>3
    <3>7. tx[t].alt_raw_account => Filled(read[t], t) /\ a.new \subseteq read[t].new
      BY <3>3 DEF SeenAs
    <3>8. ~AltSent(t)' /\ a' = a
      BY <1>1, <2>1, <3>2 DEF AltSent
    <3> QED
      BY <2>1, <3>5, <3>6, <3>7, <3>8 DEF SeenAs
  <2> QED
    BY <2>3, <2>7, <2>8
<1>3. CASE Resubmit(t)
  <2>1. /\ pc[t] = "returned" /\ pc'[t] = "advance" /\ calls'[t] = calls[t] + 1
        /\ result'[t] = "none" /\ UNCHANGED <<tx, job, resource>>
    BY <1>0, <1>3 DEF Resubmit, TowerTypeOK
  <2>2. calls[t] \in Nat /\ calls[t] >= 1
    BY <1>0, <2>1 DEF TableTask, TowerTypeOK, Active
  <2>3. TableTask(t)'
    BY <1>0, <2>1, <2>2 DEF TableTask, Active
  <2>4. calls'[t] # 1
    BY <2>1, <2>2
  <2> QED
    BY <2>1, <2>3, <2>4 DEF FirstTask, TableSeen, Undisturbed
<1>4. CASE DropTx(t)
  <2>1. pc[t] = "returned" /\ pc'[t] = "done" /\ UNCHANGED <<job, calls, result, executed>>
    BY <1>1, <1>4 DEF DropTx
  <2> QED
    BY <1>0, <2>1 DEF TableTask, FirstTask, Active, TableSeen, Undisturbed
<1> QED
  BY <1>2, <1>3, <1>4

(* What is in flight after an error of a task: of the allocation of its    *)
(* table only when it has returned.                                        *)
LEMMA LateOwn ==
  ASSUME RomeInv, TransactionInv, TableInv, NEW t \in Tasks,
         Send(t) \/ Resubmit(t) \/ DropTx(t),
         NEW x \in late', x \in late => LateAfterFirst(x)
  PROVE  LateAfterFirst(x)'
<1>0. TowerTypeOK /\ TableTask(t)
  BY DEF TableInv
<1>1. SUFFICES ASSUME x.kind \in {"dealloc", "alloc"}
               PROVE  calls'[x.task] > 1 \/ pc'[x.task] \in {"returned", "done"}
  BY DEF LateAfterFirst
<1> USE DEF RomeInv, PoolTypeOK, Goto, Return, composeVars, netVars
<1>2. CASE Send(t)
  <2>1. pc[t] = "sending" /\ UNCHANGED calls /\ \A u \in Tasks : u # t => pc'[u] = pc[u]
    BY <1>2 DEF Send, SendSingle, SendWithSigners, SendParallel, SendUnchecked, WaitNextSlot,
       Answered, Sent, SendFails
  <2>2. CASE x \in late
    <3>1. x.task \in Tasks
      BY <2>2 DEF TransactionInv, LateTx
    <3>2. calls[x.task] > 1 \/ pc[x.task] \in {"returned", "done"}
      BY <1>1, <2>2 DEF LateAfterFirst
    <3> QED
      BY <2>1, <3>1, <3>2
  <2>3. CASE x \notin late
    <3>1. LeavesBehind(t) /\ (SendFails(t) \/ SendUnchecked(t))
      BY <1>2, <2>3 DEF Send, SendSingle, SendWithSigners, SendParallel, SendUnchecked,
         WaitNextSlot, Answered, SendFails
    <3>2. x \in wire[t]
      BY <2>3, <3>1 DEF LeavesBehind
    <3>3. x \in Sends(t, step[t])
      BY <2>1, <3>2 DEF TransactionInv, TaskInv
    <3>4. x.task = t /\ step[t].kind = "Parallel"
      BY <1>1, <3>3, SentBy
    <3>5. SendFails(t)
      BY <3>1, <3>4 DEF SendUnchecked
    <3> QED
      BY <3>4, <3>5 DEF SendFails
  <2> QED
    BY <2>2, <2>3
<1>3. CASE Resubmit(t) \/ DropTx(t)
  <2>1. x \in late
    BY <1>3 DEF Resubmit, DropTx
  <2>2. x.task \in Tasks /\ (calls[x.task] > 1 \/ pc[x.task] \in {"returned", "done"})
    BY <1>1, <2>1 DEF TransactionInv, LateTx, LateAfterFirst
  <2>3. CASE Resubmit(t)
    <3>1. /\ pc[t] = "returned" /\ calls' = [calls EXCEPT ![t] = @ + 1]
          /\ pc' = [pc EXCEPT ![t] = "advance"]
      BY <2>3 DEF Resubmit
    <3>2. calls[t] \in Nat /\ calls[t] >= 1
      BY <1>0, <3>1 DEF TableTask, TowerTypeOK, Active
    <3>3. calls'[t] > 1
      BY <1>0, <3>1, <3>2 DEF TowerTypeOK
    <3>4. x.task # t => calls'[x.task] = calls[x.task] /\ pc'[x.task] = pc[x.task]
      BY <1>0, <2>2, <3>1 DEF TowerTypeOK
    <3> QED
      BY <2>2, <3>3, <3>4
  <2>4. CASE DropTx(t)
    <3>1. UNCHANGED calls /\ pc' = [pc EXCEPT ![t] = "done"]
      BY <2>4 DEF DropTx
    <3> QED
      BY <2>2, <3>1
  <2> QED
    BY <1>3, <2>3, <2>4
<1> QED
  BY <1>2, <1>3

(* A step of a task keeps the claims about the others.                     *)
LEMMA FirstTaskSteps ==
  ASSUME RomeInv, TransactionInv, \A t \in Tasks : OkTask(t), TableInv, FirstInv,
         NEW t \in Tasks,
         \/ \E j \in Jobs : Start(t, j)
         \/ Compose(t) \/ AdvanceStep(t) \/ Send(t) \/ Resubmit(t) \/ DropTx(t)
  PROVE  TableInv' /\ FirstInv'
<1>1. TowerTypeOK'
  BY ComposeTypes, AdvanceTypes, SendTypes
<1>2. OkTask(t) /\ FirstTask(t) /\ TableSeen(t)
  BY DEF FirstInv
<1>3. TableTask(t)' /\ FirstTask(t)' /\ TableSeen(t)'
  BY <1>2, TableCompose, TableAdvance, TableSend
<1>4. ASSUME NEW u \in Tasks, u # t PROVE TableTask(u)' /\ FirstTask(u)' /\ TableSeen(u)'
  <2>1. /\ pc'[u] = pc[u] /\ resource'[u] = resource[u] /\ wire'[u] = wire[u]
        /\ tx'[u] = tx[u] /\ step'[u] = step[u] /\ result'[u] = result[u]
    BY <1>4, OthersUntouched
  <2>2. calls'[u] = calls[u] /\ read'[u] = read[u]
    BY <1>4, OtherCalls
  <2>3. UNCHANGED <<table, executed, disturbed>>
    BY SolanaUntouched DEF solanaVars
  <2>4. TableTask(u) /\ FirstTask(u) /\ TableSeen(u)
    BY DEF TableInv, FirstInv
  <2>5. TableTask(u)'
    BY <2>1, <2>2, <2>4 DEF TableTask
  <2>6. FirstTask(u)'
    BY <2>1, <2>2, <2>3, <2>4 DEF FirstTask
  <2>7. TableSeen(u)'
    BY <2>1, <2>2, <2>3, <2>4 DEF TableSeen, Undisturbed, SeenAs, AltSent, Alloc
  <2> QED
    BY <2>5, <2>6, <2>7
<1>5. ASSUME NEW x \in late' PROVE LateAfterFirst(x)'
  <2>1. x \in late => LateAfterFirst(x)
    BY DEF FirstInv
  <2>2. CASE Send(t) \/ Resubmit(t) \/ DropTx(t)
    BY <2>1, <2>2, LateOwn
  <2>3. CASE (\E j \in Jobs : Start(t, j)) \/ Compose(t)
    <3>1. x \in late
      BY <2>3, OwnCompose
    <3>2. x.task \in Tasks /\ pc[x.task] \in Active \cup {"done"}
      BY <3>1 DEF TransactionInv, LateTx
    <3>3. x.task # t
      BY <1>2, <2>3, <3>2, TableCompose
    <3>4. pc'[x.task] = pc[x.task] /\ calls'[x.task] = calls[x.task]
      BY <3>2, <3>3, OthersUntouched, OtherCalls
    <3> QED
      BY <2>1, <3>1, <3>4 DEF LateAfterFirst
  <2>4. CASE AdvanceStep(t)
    <3>1. x \in late
      BY <2>4, OwnAdvance
    <3>2. x.task \in Tasks
      BY <3>1 DEF TransactionInv, LateTx
    <3>3. CASE x.task = t
      <4>1. pc[t] = "advance" /\ UNCHANGED calls
        BY <2>4 DEF AdvanceStep
      <4> QED
        BY <2>1, <3>1, <3>3, <4>1 DEF LateAfterFirst
    <3>4. CASE x.task # t
      <4>1. pc'[x.task] = pc[x.task] /\ calls'[x.task] = calls[x.task]
        BY <3>2, <3>4, OthersUntouched, OtherCalls
      <4> QED
        BY <2>1, <3>1, <4>1 DEF LateAfterFirst
    <3> QED
      BY <3>3, <3>4
  <2> QED
    BY <2>2, <2>3, <2>4
<1> QED
  BY <1>1, <1>3, <1>4, <1>5 DEF TableInv, FirstInv

(* What a transaction that lands changes of a table.                       *)
LEMMA EffectOnTable ==
  ASSUME SolanaTypeOK, NEW x, Effect(x)
  PROVE  \A r \in Resources :
           /\ r # x.res \/ x.kind \notin {"dealloc", "alloc"} => table'[r] = table[r]
           /\ r = x.res /\ x.kind = "dealloc" => table'[r] = Freed(table[r], x.task)
           /\ r = x.res /\ x.kind = "alloc" => table'[r] = Extended(table[r], x.task, x.n)
BY DEF Effect, SolanaTypeOK

(* A step of the network or of the slots that leaves a task's table alone  *)
(* leaves the claims about it alone.                                       *)
LEMMA FirstKept ==
  ASSUME NEW u \in Tasks, FirstTask(u), TableSeen(u),
         UNCHANGED <<pc, resource, tx, step, calls, result, read>>, wire'[u] = wire[u],
         executed \subseteq executed', disturbed \subseteq disturbed',
         Undisturbed(u) /\ <<u, "table">> \notin disturbed' => table'[resource[u]] = table[resource[u]]
  PROVE  FirstTask(u)' /\ TableSeen(u)'
<1>1. FirstTask(u)'
  BY DEF FirstTask
<1>2. ASSUME Undisturbed(u)' PROVE SeenAs(u, table[resource[u]])'
  <2>1. Undisturbed(u) /\ <<u, "table">> \notin disturbed'
    BY <1>2 DEF Undisturbed
  <2>2. SeenAs(u, table[resource[u]])
    BY <2>1 DEF TableSeen
  <2> QED
    BY <2>1, <2>2 DEF SeenAs, AltSent, Alloc
<1> QED
  BY <1>1, <1>2 DEF TableSeen

(* A transaction of the task's step lands.  That of its allocation fills   *)
(* the table, and frees it only when it is another session's.              *)
LEMMA FirstLands ==
  ASSUME RomeInv, TransactionInv, TableInv, FirstInv,
         NEW t \in Tasks, NEW x \in wire[t], Lands(t, x)
  PROVE  FirstInv'
<1>0. TowerTypeOK /\ SolanaTypeOK
  BY DEF TableInv, TowerTypeOK
<1>1. /\ UNCHANGED <<pc, job, resource, tx, step, calls, result, read, late, disturbed>>
      /\ wire' = [wire EXCEPT ![t] = @ \ {x}] /\ Effect(x)
  BY DEF Lands, composeVars, towerVars
<1>2. x \in Sends(t, step[t]) /\ pc[t] = "sending"
  BY DEF TransactionInv, TaskInv
<1>3. x.task = t /\ x.res = resource[t] /\ (x.kind \in {"dealloc", "alloc"} => step[t].alt)
  BY <1>2, SentBy
<1>4. executed \subseteq executed'
  BY <1>1, EffectOnHolder DEF TransactionInv
<1>5. ASSUME NEW u \in Tasks PROVE FirstTask(u)' /\ TableSeen(u)'
  <2>0. FirstTask(u) /\ TableSeen(u)
    BY DEF FirstInv
  <2>1. Undisturbed(u) => resource[u] \in Resources /\ resource[u] # NoResource
    BY DEF Undisturbed, TableInv, TableTask, Active, RomeInv, PoolTypeOK
  <2>2. CASE u # t
    <3>1. wire'[u] = wire[u]
      BY <1>0, <1>1, <2>2 DEF TowerTypeOK, NetTypeOK
    <3>2. Undisturbed(u) => table'[resource[u]] = table[resource[u]]
      <4>1. SUFFICES ASSUME Undisturbed(u) PROVE resource[u] # x.res
        BY <1>0, <1>1, <2>1, EffectOnTable
      <4> QED
        BY <1>3, <2>1, <2>2, <4>1 DEF RomeInv, PoolInv
    <3> QED
      BY <1>1, <1>4, <2>0, <3>1, <3>2, FirstKept
  <2>3. CASE u = t /\ x.kind \notin {"dealloc", "alloc"}
    <3>1. FirstTask(t)'
      BY <1>1, <1>4, <2>0, <2>3 DEF FirstTask
    <3>2. ASSUME Undisturbed(t)' PROVE SeenAs(t, table[resource[t]])'
      <4>1. Undisturbed(t)
        BY <1>1, <3>2 DEF Undisturbed
      <4>2. table'[resource[t]] = table[resource[t]]
        BY <1>0, <1>1, <2>1, <2>3, <4>1, EffectOnTable
      <4>3. SeenAs(t, table[resource[t]])
        BY <2>0, <2>3, <4>1 DEF TableSeen
      <4>4. \A n \in Parts : Alloc(t, n) # x
        BY <2>3 DEF Alloc
      <4>5. \A n \in Parts : Alloc(t, n) \in wire[t] => Alloc(t, n)' \in wire'[t]
        BY <1>0, <1>1, <4>4 DEF Alloc, TowerTypeOK, NetTypeOK
      <4> QED
        BY <1>1, <4>2, <4>3, <4>5 DEF SeenAs, AltSent
    <3> QED
      BY <2>3, <3>1, <3>2 DEF TableSeen
  <2>4. CASE u = t /\ x.kind \in {"dealloc", "alloc"}
    <3>1. FirstTask(t)'
      BY <1>1, <1>4, <2>0, <2>4 DEF FirstTask
    <3>2. ASSUME Undisturbed(t)' PROVE SeenAs(t, table[resource[t]])'
      <4> DEFINE a == table[resource[t]]
                 b == table'[resource[t]]
      <4>1. Undisturbed(t) /\ AltSent(t)
        BY <1>1, <1>2, <1>3, <2>4, <3>2 DEF Undisturbed, AltSent
      <4>2. SeenAs(t, a)
        BY <2>0, <2>4, <4>1 DEF TableSeen
      <4>3. /\ x.kind = "dealloc" => b = Freed(a, t)
            /\ x.kind = "alloc" => b = Extended(a, t, x.n)
        BY <1>0, <1>1, <1>3, <2>1, <2>4, <4>1, EffectOnTable
      <4>4. tx[t].alt_step = "WaitNextSlot" /\ ~tx[t].alt_raw_account
        BY <1>2, <1>3, <2>4 DEF TableInv, TableTask, TableTx, Active
      <4>5. ASSUME NEW n \in Parts
            PROVE  Alloc(t, n) \in wire'[t] \/ (b.owner = t /\ n \in b.parts)
        <5>1. Alloc(t, n) \in wire[t] \/ (a.owner = t /\ n \in a.parts)
          BY <4>1, <4>2 DEF SeenAs
        <5>2. wire'[t] = wire[t] \ {x}
          BY <1>0, <1>1 DEF TowerTypeOK, NetTypeOK
        <5>3. CASE x.kind = "dealloc"
          <6>1. Alloc(t, n) # x
            BY <5>3 DEF Alloc
          <6> QED
            BY <4>3, <5>1, <5>2, <5>3, <6>1 DEF Freed
        <5>4. CASE x.kind = "alloc"
          <6>1. b.owner = t /\ x.n \in b.parts /\ (a.owner = t /\ n \in a.parts => n \in b.parts)
            BY <4>3, <5>4 DEF Extended
          <6>2. Alloc(t, n) = x => x.n = n
            BY DEF Alloc
          <6> QED
            BY <5>1, <5>2, <6>1, <6>2
        <5> QED
          BY <2>4, <5>3, <5>4
      <4>6. \A n : Alloc(t, n)' = Alloc(t, n)
        BY <1>1 DEF Alloc
      <4>7. AltSent(t)' /\ tx' = tx /\ resource' = resource
        BY <1>1, <4>1 DEF AltSent
      <4> QED
        BY <4>4, <4>5, <4>6, <4>7 DEF SeenAs
    <3> QED
      BY <2>4, <3>1, <3>2 DEF TableSeen
  <2> QED
    BY <2>2, <2>3, <2>4
<1>6. ASSUME NEW y \in late' PROVE LateAfterFirst(y)'
  BY <1>1, <1>6 DEF FirstInv, LateAfterFirst
<1> QED
  BY <1>5, <1>6 DEF FirstInv

(* A late transaction of another task leaves its mark; one of its own is   *)
(* not of the table while the task is in its first call.                   *)
LEMMA FirstLandsLate ==
  ASSUME RomeInv, TransactionInv, TableInv, FirstInv, NEW x \in late, LandsLate(x)
  PROVE  FirstInv'
<1>0. SolanaTypeOK
  BY DEF TableInv, TowerTypeOK
<1>1. /\ UNCHANGED <<pc, resource, tx, step, calls, result, read, wire>>
      /\ late' \subseteq late /\ Effect(x) /\ disturbed \subseteq disturbed'
  BY DEF LandsLate, composeVars, towerVars
<1>2. executed \subseteq executed'
  BY <1>1, EffectOnHolder DEF TransactionInv
<1>3. ASSUME NEW u \in Tasks PROVE FirstTask(u)' /\ TableSeen(u)'
  <2>1. FirstTask(u) /\ TableSeen(u)
    BY DEF FirstInv
  <2>2. ASSUME Undisturbed(u), <<u, "table">> \notin disturbed'
        PROVE  table'[resource[u]] = table[resource[u]]
    <3>1. resource[u] \in Resources
      BY <2>2 DEF Undisturbed, TableInv, TableTask, Active, RomeInv, PoolTypeOK
    <3>2. SUFFICES ASSUME resource[u] = x.res, x.kind \in {"dealloc", "alloc"} PROVE FALSE
      BY <1>0, <1>1, <3>1, EffectOnTable
    <3>3. CASE u = x.task
      <4>1. calls[u] > 1 \/ pc[u] \in {"returned", "done"}
        BY <3>2, <3>3 DEF FirstInv, LateAfterFirst
      <4> QED
        BY <2>2, <4>1 DEF Undisturbed
    <3>4. CASE u # x.task
      <4>1. Account(x) = {"table"}
        BY <3>2 DEF Account
      <4>2. <<u, "table">> \in disturbed'
        BY <3>2, <3>4, <4>1 DEF LandsLate
      <4> QED
        BY <2>2, <4>2
    <3> QED
      BY <3>3, <3>4
  <2> QED
    BY <1>1, <1>2, <2>1, <2>2, FirstKept
<1>4. ASSUME NEW y \in late' PROVE LateAfterFirst(y)'
  BY <1>1, <1>4 DEF FirstInv, LateAfterFirst
<1> QED
  BY <1>3, <1>4 DEF FirstInv

(* The next slot is one for the tables and for what was read of them.      *)
LEMMA FirstSlot ==
  ASSUME RomeInv, TableInv, FirstInv, NextSlot
  PROVE  FirstInv'
<1>0. TowerTypeOK /\ SolanaTypeOK
  BY DEF TableInv, TowerTypeOK
<1>1. /\ UNCHANGED <<pc, resource, tx, step, calls, result, wire, late, executed, disturbed>>
      /\ table' = [r \in Resources |-> [table[r] EXCEPT !.new = {}]]
      /\ read' = [t \in Tasks |-> [read[t] EXCEPT !.new = {}]]
  BY DEF NextSlot, composeVars, netVars
<1>2. ASSUME NEW u \in Tasks PROVE FirstTask(u)' /\ TableSeen(u)'
  <2>1. FirstTask(u) /\ TableSeen(u)
    BY DEF FirstInv
  <2>2. FirstTask(u)'
    BY <1>1, <2>1 DEF FirstTask
  <2>3. ASSUME Undisturbed(u)' PROVE SeenAs(u, table[resource[u]])'
    <3> DEFINE a == table[resource[u]]
               b == table'[resource[u]]
    <3>1. Undisturbed(u)
      BY <1>1, <2>3 DEF Undisturbed
    <3>2. SeenAs(u, a)
      BY <2>1, <3>1 DEF TableSeen
    <3>3. resource[u] \in Resources
      BY <3>1 DEF Undisturbed, TableInv, TableTask, Active, RomeInv, PoolTypeOK
    <3>4. a \in Tables /\ read[u] \in Tables
      BY <1>0, <3>3 DEF TowerTypeOK, SolanaTypeOK
    <3>5. b = [a EXCEPT !.new = {}] /\ read'[u] = [read[u] EXCEPT !.new = {}]
      BY <1>1, <3>3
    <3>6. b.owner = a.owner /\ b.parts = a.parts /\ b.new = {}
      BY <3>4, <3>5 DEF Tables
    <3>7. read'[u].owner = read[u].owner /\ read'[u].parts = read[u].parts
      BY <3>4, <3>5 DEF Tables
    <3>8. UNCHANGED <<tx, wire, step, pc>> /\ AltSent(u)' = AltSent(u)
          /\ \A n : Alloc(u, n)' = Alloc(u, n)
      BY <1>1 DEF AltSent, Alloc
    <3>9. table[resource[u]]' = b
      BY <1>1
    <3>10. AltSent(u) => \A n \in Parts : Alloc(u, n) \in wire[u] \/ (b.owner = u /\ n \in b.parts)
      BY <3>2, <3>6 DEF SeenAs
    <3>11. tx[u].alt_step # "Execute" /\ ~AltSent(u) => Filled(b, u)
      BY <3>2, <3>6 DEF SeenAs, Filled
    <3>12. tx[u].alt_raw_account => Filled(read'[u], u)
      BY <3>2, <3>7 DEF SeenAs, Filled
    <3> QED
      BY <3>6, <3>8, <3>9, <3>10, <3>11, <3>12 DEF SeenAs
  <2> QED
    BY <2>2, <2>3 DEF TableSeen
<1>3. ASSUME NEW y \in late' PROVE LateAfterFirst(y)'
  BY <1>1, <1>3 DEF FirstInv, LateAfterFirst
<1> QED
  BY <1>2, <1>3 DEF FirstInv

(* Every step keeps what is said of the tables and of the first call.      *)
LEMMA TableInvStep ==
  ASSUME RomeInv, TransactionInv, \A t \in Tasks : OkTask(t), TableInv, FirstInv, [Next]_vars
  PROVE  TableInv' /\ FirstInv'
<1>0. TowerTypeOK
  BY DEF TableInv
<1>1. CASE UNCHANGED vars
  <2>1. UNCHANGED <<pc, job, resource, next, towerVars, netVars, solanaVars>>
    BY <1>1 DEF vars, composeVars
  <2>2. TowerTypeOK'
    BY <1>0, <2>1 DEF TowerTypeOK, NetTypeOK, SolanaTypeOK, towerVars, netVars, solanaVars
  <2>3. \A t \in Tasks : TableTask(t)'
    BY <2>1 DEF TableInv, TableTask, towerVars
  <2>4. \A t \in Tasks : FirstTask(t)' /\ TableSeen(t)'
    BY <2>1, FirstKept DEF FirstInv, towerVars, netVars, solanaVars
  <2>5. \A x \in late : LateAfterFirst(x)'
    BY <2>1 DEF FirstInv, LateAfterFirst, towerVars
  <2> QED
    BY <2>1, <2>2, <2>3, <2>4, <2>5 DEF TableInv, FirstInv, netVars
<1>2. ASSUME NEW t \in Tasks,
             \/ \E j \in Jobs : Start(t, j)
             \/ Compose(t) \/ AdvanceStep(t) \/ Send(t) \/ Resubmit(t) \/ DropTx(t)
      PROVE  TableInv' /\ FirstInv'
  BY <1>2, FirstTaskSteps
<1>3. CASE \/ \E t \in Tasks : \E x \in wire[t] : Lands(t, x)
           \/ \E x \in late : LandsLate(x)
           \/ NextSlot
  <2>1. TowerTypeOK'
    BY <1>0, <1>3, NetworkTypes
  <2>2. UNCHANGED <<pc, tx, step, calls, resource>>
    BY <1>3 DEF Lands, LandsLate, NextSlot, composeVars, towerVars
  <2>3. \A t \in Tasks : TableTask(t)'
    BY <2>2 DEF TableInv, TableTask
  <2>4. FirstInv'
    BY <1>3, FirstLands, FirstLandsLate, FirstSlot
  <2> QED
    BY <2>1, <2>3, <2>4 DEF TableInv
<1> QED
  BY <1>1, <1>2, <1>3 DEF Next

(* The invariant of the transactions of all tasks, with the claims it      *)
(* rests on.                                                               *)
TowerInv ==
  /\ RomeInv /\ TransactionInv /\ TableInv /\ FirstInv
  /\ \A t \in Tasks : OkTask(t)

(* It holds in every reachable state.                                      *)
THEOREM TowerInvariant == Spec => []TowerInv
<1>1. Init => TransactionInv /\ TableInv /\ FirstInv /\ \A t \in Tasks : OkTask(t)
  <2> SUFFICES ASSUME Init
               PROVE  TransactionInv /\ TableInv /\ FirstInv /\ \A t \in Tasks : OkTask(t)
    OBVIOUS
  <2>1. TransactionInv /\ \A t \in Tasks : OkTask(t)
    BY DEF Init, OkTask, TransactionInv, TaskInv, Active
  <2>2. NoTable \in Tables
    BY DEF NoTable, Tables
  <2>3. SolanaTypeOK /\ NetTypeOK
    BY <2>2 DEF Init, SolanaTypeOK, NetTypeOK, Holders
  <2>4. TowerTypeOK
    <3>1. 0 \in 0 .. MaxCalls
      BY RomeTxAssumption
    <3> QED
      BY <2>2, <2>3, <3>1 DEF Init, TowerTypeOK
  <2>5. \A t \in Tasks : TableTask(t) /\ FirstTask(t) /\ TableSeen(t)
    BY DEF Init, TableTask, FirstTask, TableSeen, Undisturbed, Active
  <2>6. late = {}
    BY DEF Init
  <2> QED
    BY <2>1, <2>4, <2>5, <2>6 DEF TableInv, FirstInv
<1>2. RomeInv /\ TransactionInv /\ TableInv /\ FirstInv /\ (\A t \in Tasks : OkTask(t)) /\ [Next]_vars
        => TransactionInv' /\ TableInv' /\ FirstInv' /\ (\A t \in Tasks : OkTask(t))'
  BY OkStep, TransactionStep, TableInvStep
<1>3. TowerInv <=> /\ RomeInv /\ TransactionInv /\ TableInv /\ FirstInv
                   /\ \A t \in Tasks : OkTask(t)
  BY DEF TowerInv
<1> QED
  BY <1>1, <1>2, <1>3, RomeInvariant, PTL DEF Spec

(* Type correctness, for any tasks, rollups, payers and jobs: the batches  *)
(* are batches of chunks, and only chunks and parts are sent.              *)
THEOREM RomeTypeCorrect == Spec => []TypeOK
<1>1. ASSUME TowerInv PROVE TypeOK
  <2>1. Sendable \subseteq Transactions
    BY DEF Sendable
  <2>2. TowerTypeOK /\ SolanaTypeOK /\ NetTypeOK /\ PoolTypeOK
    BY <1>1 DEF TowerInv, RomeInv, TableInv, TowerTypeOK
  <2>3. wire \in [Tasks -> SUBSET Transactions] /\ late \subseteq Transactions
    BY <2>1, <2>2 DEF NetTypeOK
  <2> QED
    BY <2>2, <2>3 DEF PoolTypeOK, TowerTypeOK, SolanaTypeOK, Holders, TypeOK
<1> QED
  BY <1>1, TowerInvariant, PTL

(* In the first call a lookup table is used only when it is the one the    *)
(* task allocated, with all of its parts, as it was read, and, unless a    *)
(* second batch of chunks is transmitted with it, in a later slot than the *)
(* one of its last extension: whatever the find by holder and chain id     *)
(* returned before, however the dealloc and the parts landed, as long as   *)
(* no late transaction of another task arrived in the account.             *)
THEOREM TableReadyCorrect == Spec => []TableReadyWhenUsed
<1>1. ASSUME TowerInv PROVE TableReadyWhenUsed
  <2>1. SUFFICES ASSUME NEW t \in Tasks, pc[t] = "sending", step[t].ver = "V0",
                        calls[t] = 1, <<t, "table">> \notin disturbed
                 PROVE  /\ table[resource[t]].owner = t /\ table[resource[t]].parts = Parts
                        /\ read[t].owner = t /\ read[t].parts = Parts
                        /\ OneBatch(tx[t]) => table[resource[t]].new = {}
    BY DEF TableReadyWhenUsed, OneBatch
  <2>2. /\ tx[t].outer = "Execute" /\ TableTx(tx[t])
        /\ step[t].alt => tx[t].outer = "Alt"
        /\ step[t].kind = "WaitNextSlot" => tx[t].outer = "Alt"
    BY <1>1, <2>1 DEF TowerInv, TableInv, TableTask, Active
  <2>3. tx[t].alt_raw_account /\ tx[t].alt_step = "End"
    BY <2>2 DEF TableTx
  <2>4. step[t].kind # "WaitNextSlot" /\ ~AltSent(t)
    BY <2>2 DEF AltSent
  <2>5. SeenAs(t, table[resource[t]])
    BY <1>1, <2>1, <2>2 DEF TowerInv, FirstInv, TableSeen, Undisturbed
  <2> QED
    BY <2>3, <2>4, <2>5 DEF SeenAs, Filled
<1> QED
  BY <1>1, TowerInvariant, PTL

(* The unwrap of Rome::send_and_confirm fails in the first call only for a *)
(* transaction that is executed: no expect of a step machine fails, and    *)
(* the list of signatures is empty only after a confirmation.              *)
THEOREM PanicMeansExecutedCorrect == Spec => []PanicMeansExecuted
<1>1. TowerInv => PanicMeansExecuted
  BY DEF TowerInv, FirstInv, FirstTask, PanicMeansExecuted
<1> QED
  BY <1>1, TowerInvariant, PTL
=============================================================================
