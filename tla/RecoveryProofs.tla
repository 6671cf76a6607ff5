--------------------------- MODULE RecoveryProofs ---------------------------
(***************************************************************************)
(* Proofs about start_recovery for every chain, batch size, number of      *)
(* providers and retries, and for any number of faults and runs.           *)
(***************************************************************************)
EXTENDS Recovery, NatLemmas

-----------------------------------------------------------------------------
(* The blocks of the chain, the last stored slot and the steps of the      *)
(* chain.                                                                  *)

(* The parent of a block is a lower slot.                                  *)
LEMMA ParentOfBelow ==
  ASSUME ChainTypeOK, NEW s \in Slots
  PROVE  ParentOf(s) \in 0 .. (s - 1)
<1> USE ChainAssumption DEF ChainTypeOK, Slots
<1>1. CASE ~ \E t \in 1 .. (s - 1) : chain[t] # Skipped
  BY <1>1 DEF ParentOf
<1>2. CASE \E t \in 1 .. (s - 1) : chain[t] # Skipped
  <2> DEFINE Earlier == {t \in 1 .. (s - 1) : chain[t] # Skipped}
  <2>1. Earlier \subseteq 0 .. (s - 1) /\ Earlier # {} /\ s - 1 \in Nat
    BY <1>2
  <2>2. PICK t \in Earlier : \A u \in Earlier : u <= t
    <3> HIDE DEF Earlier
    <3>1. QED
      BY <2>1, GreatestElement
  <2>3. chain[t] # Skipped /\ \A u \in (t + 1) .. (s - 1) : chain[u] = Skipped
    BY <2>2
  <2>4. \E u \in 1 .. (s - 1) :
          chain[u] # Skipped /\ \A v \in (u + 1) .. (s - 1) : chain[v] = Skipped
    BY <2>2, <2>3
  <2>5. ParentOf(s) \in 1 .. (s - 1)
    BY <1>2, <2>4, Zenon DEF ParentOf
  <2>6. QED
    BY <2>5
<1>3. QED
  BY <1>1, <1>2

(* What the client returns for a slot.                                     *)
LEMMA BlockAtFacts ==
  ASSUME ChainTypeOK, NEW s \in Slots
  PROVE  /\ BlockAt(s) \in Blocks
         /\ BlockAt(s).ver = chain[s]
         /\ BlockAt(s).parent < s
         /\ BlockAt(s) = NoBlock <=> chain[s] = Skipped
<1>1. ParentOf(s) \in 0 .. (s - 1)
  BY ParentOfBelow
<1>2. QED
  BY <1>1, ChainAssumption
     DEF BlockAt, NoBlock, Blocks, Slots, Versions, Skipped, ChainTypeOK

(* get_last_slot returns a slot that has a row, or 0.                      *)
LEMMA LastSlotFacts ==
  ASSUME NEW r \in [Slots -> Rows]
  PROVE  /\ get_last_slot(r) \in 0 .. MaxSlot
         /\ get_last_slot(r) # 0 => get_last_slot(r) \in Slots /\ Has(r, get_last_slot(r))
<1> USE ChainAssumption DEF Slots
<1> DEFINE Present == {s \in Slots : Has(r, s)}
<1>1. CASE Present = {}
  BY <1>1 DEF get_last_slot
<1>2. CASE Present # {}
  <2>1. Present \subseteq 0 .. MaxSlot /\ MaxSlot \in Nat
    OBVIOUS
  <2>2. PICK s \in Present : \A t \in Present : t <= s
    <3> HIDE DEF Present
    <3>1. QED
      BY <1>2, <2>1, GreatestElement
  <2>3. \E t \in Slots : Has(r, t) /\ \A u \in Slots : Has(r, u) => u <= t
    BY <2>2
  <2>4. get_last_slot(r) \in Slots /\ Has(r, get_last_slot(r))
    BY <1>2, <2>3, Zenon DEF get_last_slot
  <2>5. QED
    BY <2>4
<1>3. QED
  BY <1>1, <1>2

(* A chain keeps its finalized slot at or below the confirmed one, and a   *)
(* step changes nothing at or below the finalized slot.                    *)
LEMMA FinalPartStays ==
  ASSUME ChainTypeOK, finalized <= confirmed, ChainNext
  PROVE  /\ ChainTypeOK' /\ finalized' <= confirmed' /\ finalized <= finalized'
         /\ \A s \in Slots : s <= finalized => chain'[s] = chain[s]
<1> USE ChainAssumption DEF ChainTypeOK, Slots, Versions, Skipped
<1> DEFINE Goal == /\ ChainTypeOK' /\ finalized' <= confirmed' /\ finalized <= finalized'
                   /\ \A s \in Slots : s <= finalized => chain'[s] = chain[s]
<1>1. ASSUME NEW n \in Slots, Confirm(n) PROVE Goal
  BY <1>1 DEF Confirm
<1>2. ASSUME NEW n \in Slots, Finalize(n) PROVE Goal
  BY <1>2 DEF Finalize
<1>3. ASSUME NEW s \in Slots, NEW present \in SUBSET Slots, SwitchFork(s, present) PROVE Goal
  BY <1>3 DEF SwitchFork
<1>4. QED
  BY <1>1, <1>2, <1>3 DEF ChainNext

-----------------------------------------------------------------------------
(* The client.                                                             *)

(* One attempt ends with the answer of one of its providers.               *)
LEMMA AttemptOutcomes ==
  ASSUME NEW P, NEW n \in Nat \ {0}, NEW o \in Attempt(n, P)
  PROVE  \E r \in P : o = process_plex_result(r)
<1>1. PICK answers \in [1 .. n -> P] : \E r \in plex(answers) : o = process_plex_result(r)
  BY DEF Attempt
<1>2. plex(answers) \subseteq P
  <2>1. Last(answers) = answers[n]
    BY <1>1 DEF Last
  <2> QED
    BY <1>1, <2>1 DEF plex
<1> QED
  BY <1>1, <1>2

(* So does the whole call, after any number of retries: no outcome is made *)
(* up on the way.  The recursive definition of the outcomes is unfolded    *)
(* with a function that satisfies its equation.                            *)
LEMMA PlexOutcomes ==
  ASSUME NEW P, NEW o \in plex_with_retries(P)
  PROVE  \E r \in P : o = process_plex_result(r)
<1> DEFINE first == Attempt(NumProviders, P)
           errs == {p \in first : IsErr(p)}
           ok == {p \in first : ~IsErr(p)}
           emergency == IF NumEmergency = 0 THEN errs ELSE Attempt(NumEmergency, P)
           outcomes[k \in 0 .. NumRetries] ==
             IF k = 0 THEN emergency
             ELSE ok \cup IF errs = {} THEN {} ELSE outcomes[k - 1]
           Eq(g) == g = [k \in 0 .. NumRetries |->
                           IF k = 0 THEN emergency
                           ELSE ok \cup IF errs = {} THEN {} ELSE g[k - 1]]
           closed == [k \in 0 .. NumRetries |->
                        IF k = 0 THEN emergency ELSE IF errs = {} THEN ok ELSE ok \cup emergency]
<1>1. o \in outcomes[NumRetries]
  BY DEF plex_with_retries
<1> HIDE DEF first, errs, ok, emergency
<1>2. Eq(closed)
  <2> DEFINE e(k) == IF k = 0 THEN emergency
                     ELSE ok \cup IF errs = {} THEN {} ELSE closed[k - 1]
  <2>1. ASSUME NEW k \in 0 .. NumRetries PROVE closed[k] = e(k)
    <3>1. CASE k = 0
      BY <3>1
    <3>2. CASE k # 0
      <4>1. k - 1 \in 0 .. NumRetries
        BY <3>2, ClientAssumption
      <4>2. closed[k - 1] = IF k - 1 = 0 THEN emergency
                            ELSE IF errs = {} THEN ok ELSE ok \cup emergency
        BY <4>1
      <4> QED
        BY <3>2, <4>2
    <3> QED
      BY <3>1, <3>2
  <2> HIDE DEF e
  <2>2. closed = [k \in 0 .. NumRetries |-> e(k)]
    BY <2>1
  <2> QED
    BY <2>2 DEF e
<1>3. Eq(CHOOSE g : Eq(g))
  BY <1>2, Zenon
<1>4. Eq(outcomes)
  BY <1>3, Zenon
<1> HIDE DEF outcomes
<1> DEFINE Done == {k \in 0 .. NumRetries : outcomes[k] \subseteq first \cup emergency}
<1>5. 0 \in Done /\ \A k \in 1 .. NumRetries : k - 1 \in Done => k \in Done
  <2>1. 0 \in 0 .. NumRetries /\ \A k \in 1 .. NumRetries : k \in 0 .. NumRetries
    BY ClientAssumption
  <2>2. ok \subseteq first
    BY DEF ok
  <2> QED
    BY <1>4, <2>1, <2>2
<1>6. NumRetries \in Done
  <2> HIDE DEF Done
  <2>1. 0 .. NumRetries \subseteq Done
    BY <1>5, ClientAssumption, IntervalInduction
  <2> QED
    BY <2>1, ClientAssumption
<1>7. o \in first \cup emergency
  BY <1>1, <1>6
<1>8. o \in Attempt(NumProviders, P)
        \/ (NumEmergency \in Nat \ {0} /\ o \in Attempt(NumEmergency, P))
  BY <1>7, ClientAssumption DEF first, emergency, errs
<1> QED
  BY <1>8, ClientAssumption, AttemptOutcomes

(* A block is only returned for a slot at or below the tip of a provider,  *)
(* and is then the one of the chain.                                       *)
LEMMA BlockOutcomes ==
  ASSUME ChainTypeOK, NEW s \in Slots, NEW tip \in 0 .. MaxSlot,
         NEW o \in get_block_with_config(s, tip)
  PROVE  /\ o.tag \in {"Some", "None", "Err", "Panic"}
         /\ o.tag = "Some" => s <= tip /\ chain[s] # Skipped /\ o.val = BlockAt(s)
<1>1. PICK r \in BlockAnswers(s, tip) : o = process_plex_result(r)
  BY PlexOutcomes DEF get_block_with_config
<1>2. s \in Nat /\ tip \in Nat
  BY ChainAssumption DEF Slots
<1>3. \/ r \in {RpcResponseError(code, NoBlock) :
                  code \in {-32004, -32005, -32011, -32007, -32009}}
      \/ r \in {ClientError(kind, NoBlock) : kind \in {"Reqwest", "RpcError", "SerdeJson"}}
      \/ s <= tip /\ chain[s] # Skipped /\ r = Ok(BlockAt(s))
  BY <1>1, <1>2 DEF BlockAnswers
<1> QED
  BY <1>1, <1>3 DEF process_plex_result, Outcome, RpcResponseError, ClientError, Ok, Answer

-----------------------------------------------------------------------------
(* Init.                                                                   *)

(* The highest member below a slot.                                        *)
LEMMA BelowFacts ==
  ASSUME NEW S, S \subseteq Slots, NEW s \in Nat
  PROVE  /\ Below(S, s) \in 0 .. MaxSlot
         /\ \A u \in S : u < s => u <= Below(S, s)
<1> DEFINE T == {t \in S : t < s}
<1> USE ChainAssumption DEF Slots
<1>1. CASE T = {}
  BY <1>1 DEF Below
<1>2. CASE T # {}
  <2>1. T \subseteq 0 .. MaxSlot /\ MaxSlot \in Nat
    <3>1. ASSUME NEW t \in T PROVE t \in 0 .. MaxSlot
      BY <3>1
    <3> QED
      BY <3>1
  <2>2. PICK t \in T : \A u \in T : u <= t
    <3> HIDE DEF T
    <3> QED
      BY <1>2, <2>1, GreatestElement
  <2>3. \E x \in S : x < s /\ \A u \in S : u < s => u <= x
    BY <2>2
  <2> DEFINE b == CHOOSE x \in S : x < s /\ \A u \in S : u < s => u <= x
  <2>4. b \in S /\ b < s /\ \A u \in S : u < s => u <= b
    BY <2>3, Zenon
  <2>5. Below(S, s) = b
    BY <1>2 DEF Below
  <2> HIDE DEF b
  <2> QED
    BY <2>4, <2>5
<1> QED
  BY <1>1, <1>2

(* The state of the checking task at each of its points.                   *)
ControlInv ==
  /\ pc \in {"start", "walk", "send"} => waiting = {} /\ ~failed
  /\ pc \in {"start", "walk"} => updated = {}
  /\ pc = "start" => blocks = NoBlocks /\ walked = {}
  /\ pc = "send" => updated # {}

(* A slot whose row is the final block, or whose recheck was answered      *)
(* Ok(None).                                                               *)
Checked(s) == \/ s \in unanswered
              \/ s <= finalized /\ (Has(rows, s) => chain[s] = rows[s].ver)

(* A batch in hand has the versions of the storage.  A slot that was       *)
(* answered with a block is final, and equal to the chain or among the     *)
(* updated ones, unless one of the answers was an error.                   *)
FreshInv ==
  /\ finalized <= confirmed
  /\ \A s \in Slots : Has(rows, s) => rows[s].ver # Skipped
  /\ pc \in {"walk", "recheck"} =>
       /\ \A s \in walked : Checked(s) \/ blocks[s] # 0
       /\ \A s \in Slots : blocks[s] # 0 /\ Has(rows, s) => blocks[s] = rows[s].ver
  /\ pc = "recheck" =>
       /\ \A s \in updated : s <= finalized /\ chain[s] # Skipped
       /\ ~failed => \A s \in Slots : blocks[s] # 0 /\ s \notin waiting =>
                       \/ s \in unanswered
                       \/ s <= finalized /\ (chain[s] = blocks[s] \/ s \in updated)
  /\ pc \in {"send", "completed"} => \A s \in walked : Checked(s)

RecoveryInv == TypeOK /\ DOMAIN eth = Slots /\ ControlInv /\ FreshInv /\ StaleOnlyIfLost

(* What a loader leaves behind satisfies the invariant.                    *)
LEMMA InitRecoveryInv == Init => RecoveryInv
<1> SUFFICES ASSUME Init PROVE RecoveryInv
  OBVIOUS
<1> USE ChainAssumption, RecoveryAssumption
<1>1. PICK old \in SUBSET Slots, new \in SUBSET Slots, f \in Slots,
           kept \in [Slots -> {"none", "old", "new"}] :
        /\ fork = 1 => old = new
        /\ MaxSlot \in new
        /\ chain = [s \in Slots |-> IF s \in (IF s < f THEN old ELSE new)
                                    THEN IF s < f THEN 1 ELSE fork ELSE Skipped]
        /\ finalized \in {s \in Slots : chain[s] # Skipped} \cup {0}
        /\ \A s \in Slots : /\ kept[s] = "old" => s \in old /\ s >= f /\ fork # 1
                            /\ kept[s] = "new" => chain[s] # Skipped
        /\ rows = [s \in Slots |->
                     IF kept[s] = "none" THEN NoRow
                     ELSE [status |-> IF s <= finalized THEN "Finalized" ELSE "Confirmed",
                           ver    |-> IF kept[s] = "old" THEN 1 ELSE chain[s],
                           parent |-> IF kept[s] = "old" THEN Below(old, s) ELSE ParentOf(s)]]
  BY DEF Init
<1>2. /\ fork \in 1 .. (MaxForks + 1)
      /\ confirmed = Below({s \in Slots : chain[s] # Skipped}, MaxSlot + 1)
      /\ eth = [s \in Slots |->
                  IF Has(rows, s)
                  THEN <<[ver |-> rows[s].ver, hash |-> Eth!Genesis, receipt |-> FALSE]>>
                  ELSE <<>>]
      /\ pc = "start" /\ current = 0 /\ blocks = NoBlocks /\ waiting = {} /\ failed = FALSE
      /\ updated = {} /\ walked = {} /\ unanswered = {}
      /\ events = <<>> /\ processor = "running" /\ result = "none"
      /\ lost = {} /\ faults = 0 /\ runs = 1
  BY DEF Init
<1>3. chain \in [Slots -> Versions]
  BY <1>1, <1>2 DEF Versions, Skipped
<1>4. confirmed \in 0 .. MaxSlot /\ finalized \in 0 .. MaxSlot /\ finalized <= confirmed
  <2> DEFINE present == {s \in Slots : chain[s] # Skipped}
  <2>1. present \subseteq Slots /\ finalized \in present \cup {0} /\ confirmed = Below(present, MaxSlot + 1)
    BY <1>1, <1>2
  <2> HIDE DEF present
  <2>2. /\ confirmed \in 0 .. MaxSlot
        /\ \A u \in present : u < MaxSlot + 1 => u <= confirmed
    BY <2>1, BelowFacts
  <2> QED
    BY <2>1, <2>2 DEF Slots
<1>5. ChainTypeOK
  BY <1>2, <1>3, <1>4 DEF ChainTypeOK
<1>6. rows \in [Slots -> Rows] /\ \A s \in Slots : Has(rows, s) => rows[s].ver # Skipped
  <2> SUFFICES ASSUME NEW s \in Slots
               PROVE  rows[s] \in Rows /\ (Has(rows, s) => rows[s].ver # Skipped)
    BY <1>1
  <2>1. CASE kept[s] = "none"
    BY <1>1, <2>1 DEF NoRow, Rows, Statuses, Has, Versions
  <2>2. CASE kept[s] = "old"
    <3>1. Below(old, s) \in 0 .. MaxSlot
      <4>1. old \subseteq Slots /\ s \in Nat
        BY <1>1 DEF Slots
      <4> QED
        BY <4>1, BelowFacts
    <3> QED
      BY <1>1, <2>2, <3>1 DEF Rows, Statuses, Versions, Skipped
  <2>3. CASE kept[s] = "new"
    <3>1. ParentOf(s) \in 0 .. MaxSlot
      BY <1>5, ParentOfBelow DEF Slots
    <3> QED
      BY <1>1, <1>3, <2>3, <3>1 DEF Rows, Statuses
  <2> QED
    BY <2>1, <2>2, <2>3
<1>7. DOMAIN eth = Slots /\ \A s \in Slots : Len(eth[s]) <= 1
  BY <1>2
<1>8. /\ blocks \in [Slots -> Versions] /\ {s \in Slots : blocks[s] # 0} = {}
  BY <1>2 DEF NoBlocks, Versions
<1>9. TypeOK
  <2>1. Cardinality({s \in Slots : blocks[s] # 0}) = 0
    BY <1>8, FS_EmptySet
  <2> QED
    <3>1. failed \in BOOLEAN
      BY <1>2, Zenon
    <3>3. events \in Seq(Slots)
      BY <1>2
    <3>2. 0 <= BatchSize /\ 0 \in 0 .. MaxFaults /\ 1 \in 1 .. MaxRuns /\ 0 \in 0 .. MaxSlot
      OBVIOUS
    <3> QED
      BY <1>2, <1>5, <1>6, <1>7, <1>8, <2>1, <3>1, <3>2, <3>3 DEF TypeOK
<1>10. ControlInv
  BY <1>2 DEF ControlInv
<1>11. FreshInv
  BY <1>2, <1>4, <1>6 DEF FreshInv
<1>12. StaleOnlyIfLost
  BY <1>2 DEF StaleOnlyIfLost
<1> QED
  BY <1>7, <1>9, <1>10, <1>11, <1>12 DEF RecoveryInv

-----------------------------------------------------------------------------
(* The checking task.                                                      *)

(* A task that has ended holds nothing.                                    *)
LEMMA EndCheckInv ==
  ASSUME RecoveryInv, pc # "send", EndCheck("failed"), faults' \in 0 .. MaxFaults,
         UNCHANGED <<chainVars, rows, eth, current, walked, unanswered, events, processor, result, lost, runs>>
  PROVE  RecoveryInv'
<1> USE DEF RecoveryInv, EndCheck
<1>1. /\ blocks' \in [Slots -> Versions] /\ {s \in Slots : blocks'[s] # 0} = {}
  BY ChainAssumption DEF NoBlocks, Versions
<1>2. Cardinality({s \in Slots : blocks'[s] # 0}) = 0
  BY <1>1, FS_EmptySet
<1>3. failed' \in BOOLEAN
  BY Zenon
<1>4. TypeOK'
  BY <1>1, <1>2, <1>3, RecoveryAssumption DEF TypeOK, ChainTypeOK, chainVars
<1>5. ControlInv' /\ FreshInv' /\ (DOMAIN eth = Slots)'
  BY DEF ControlInv, FreshInv, chainVars
<1>6. StaleOnlyIfLost'
  BY DEF StaleOnlyIfLost
<1> QED
  BY <1>4, <1>5, <1>6

(* One step further down the walk.                                         *)
LEMMA TakeInv ==
  ASSUME RecoveryInv, pc = "walk", MoreToCheck, current \in Slots,
         NEW ver \in Versions \ {Skipped}, NEW parent \in 0 .. MaxSlot,
         Has(rows, current) => ver = rows[current].ver, Take(ver, parent),
         UNCHANGED <<chainVars, rows, eth, events, processor, result, lost, faults, runs>>
  PROVE  RecoveryInv'
<1> USE DEF RecoveryInv
<1> DEFINE before == {s \in Slots : blocks[s] # 0}
           after == {s \in Slots : blocks'[s] # 0}
<1>1. blocks' \in [Slots -> Versions] /\ blocks' = [blocks EXCEPT ![current] = ver]
  BY DEF TypeOK, Take
<1>2. after = before \cup {current}
  BY <1>1 DEF TypeOK, Skipped
<1>3. Cardinality(after) <= BatchSize
  <2>1. IsFiniteSet(before)
    <3>1. IsFiniteSet(Slots)
      BY ChainAssumption, FS_Interval DEF Slots
    <3> QED
      BY <3>1, FS_Subset
  <2>2. Cardinality(before) \in Nat /\ Cardinality(before) < BatchSize
    BY <2>1, FS_CardinalityType DEF MoreToCheck, NumChecked
  <2> HIDE DEF before, after
  <2>3. Cardinality(after) \in {Cardinality(before), Cardinality(before) + 1}
    BY <1>2, <2>1, FS_AddElement
  <2> QED
    BY <2>2, <2>3, RecoveryAssumption
<1>4. UNCHANGED <<pc, waiting, failed, updated, unanswered>> /\ walked' = walked \cup {current} /\ current' = parent
  BY DEF Take
<1>5. TypeOK'
  <2>1. waiting' \subseteq after
    BY <1>4 DEF ControlInv
  <2> QED
    BY <1>1, <1>3, <1>4, <2>1 DEF TypeOK, ChainTypeOK, chainVars
<1>6. ControlInv' /\ (DOMAIN eth = Slots)'
  BY <1>4 DEF ControlInv
<1>7. FreshInv'
  <2>1. \A s \in walked' : Checked(s)' \/ blocks'[s] # 0
    BY <1>1, <1>4 DEF FreshInv, Checked, TypeOK, chainVars, Skipped
  <2>2. \A s \in Slots : blocks'[s] # 0 /\ Has(rows, s) => blocks'[s] = rows[s].ver
    BY <1>1 DEF FreshInv, TypeOK
  <2> QED
    BY <1>4, <2>1, <2>2 DEF FreshInv, chainVars
<1>8. StaleOnlyIfLost'
  BY <1>4 DEF StaleOnlyIfLost
<1> QED
  BY <1>5, <1>6, <1>7, <1>8

(* The walk: its start, the two ways to take a block, and its end.         *)
LEMMA WalkInv ==
  ASSUME RecoveryInv, StartChecking \/ TakeStored \/ LoadMissing \/ BeginRecheck
  PROVE  RecoveryInv'
<1> USE DEF RecoveryInv
<1>0. pc = "walk" /\ MoreToCheck => current \in Slots
  BY ChainAssumption, RecoveryAssumption DEF MoreToCheck, TypeOK, Slots
<1>1. CASE StartChecking
  <2>1. /\ pc = "start" /\ pc' \in {"completed", "walk"} /\ current' \in 0 .. MaxSlot
        /\ UNCHANGED <<chainVars, rows, eth, blocks, waiting, failed, updated, walked, unanswered,
                       events, processor, result, lost, faults, runs>>
    <3>1. get_last_slot(rows) \in 0 .. MaxSlot
      BY LastSlotFacts DEF TypeOK
    <3>2. Slots \subseteq 0 .. MaxSlot
      BY ChainAssumption DEF Slots
    <3> QED
      BY <1>1, <3>1, <3>2 DEF StartChecking, TypeOK
  <2>2. TypeOK'
    BY <2>1 DEF TypeOK, ChainTypeOK, chainVars
  <2>3. ControlInv' /\ (DOMAIN eth = Slots)'
    BY <2>1 DEF ControlInv
  <2>4. FreshInv'
    BY <2>1 DEF FreshInv, ControlInv, NoBlocks, chainVars
  <2>5. StaleOnlyIfLost'
    BY <2>1 DEF StaleOnlyIfLost
  <2> QED
    BY <2>2, <2>3, <2>4, <2>5
<1>2. CASE TakeStored
  <2>1. /\ pc = "walk" /\ MoreToCheck /\ Has(rows, current) /\ current \in Slots
        /\ Take(rows[current].ver, rows[current].parent)
        /\ UNCHANGED <<chainVars, rows, eth, events, processor, result, lost, faults, runs>>
    BY <1>0, <1>2 DEF TakeStored
  <2>2. rows[current].ver \in Versions \ {Skipped} /\ rows[current].parent \in 0 .. MaxSlot
    BY <2>1 DEF TypeOK, FreshInv, Rows
  <2> QED
    BY <2>1, <2>2, TakeInv
<1>3. CASE LoadMissing
  <2>1. PICK o \in get_block_with_config(current, confirmed) :
          \/ o.tag = "Some" /\ Take(o.val.ver, o.val.parent)
          \/ o.tag # "Some" /\ EndCheck("failed") /\ UNCHANGED <<current, walked, unanswered>>
    BY <1>3 DEF LoadMissing
  <2>2. /\ pc = "walk" /\ MoreToCheck /\ ~Has(rows, current) /\ current \in Slots
        /\ UNCHANGED <<chainVars, rows, eth, events, processor, result, lost, faults, runs>>
    BY <1>0, <1>3 DEF LoadMissing
  <2>3. ChainTypeOK /\ confirmed \in 0 .. MaxSlot /\ faults' \in 0 .. MaxFaults
    BY <2>2 DEF TypeOK, ChainTypeOK
  <2>4. CASE o.tag = "Some" /\ Take(o.val.ver, o.val.parent)
    <3>1. o.val = BlockAt(current) /\ chain[current] # Skipped
      BY <2>2, <2>3, <2>4, BlockOutcomes
    <3>2. o.val \in Blocks /\ o.val.ver # Skipped
      BY <2>2, <2>3, <3>1, BlockAtFacts
    <3>3. o.val.ver \in Versions \ {Skipped} /\ o.val.parent \in 0 .. MaxSlot
      BY <3>2 DEF Blocks
    <3> QED
      BY <2>2, <2>4, <3>3, TakeInv
  <2>5. CASE EndCheck("failed") /\ UNCHANGED <<current, walked, unanswered>>
    BY <2>2, <2>3, <2>5, EndCheckInv
  <2> QED
    BY <2>1, <2>4, <2>5
<1>4. CASE BeginRecheck
  <2>1. /\ pc = "walk" /\ pc' = "recheck" /\ waiting' = {s \in Slots : blocks[s] # 0}
        /\ UNCHANGED <<chainVars, rows, eth, current, blocks, failed, updated, walked, unanswered,
                       events, processor, result, lost, faults, runs>>
    BY <1>4 DEF BeginRecheck
  <2>2. TypeOK'
    BY <2>1 DEF TypeOK, ChainTypeOK, chainVars
  <2>3. ControlInv' /\ (DOMAIN eth = Slots)'
    BY <2>1 DEF ControlInv
  <2>4. FreshInv'
    BY <2>1 DEF FreshInv, ControlInv, Checked, chainVars
  <2>5. StaleOnlyIfLost'
    BY <2>1 DEF StaleOnlyIfLost
  <2> QED
    BY <2>2, <2>3, <2>4, <2>5
<1> QED
  BY <1>1, <1>2, <1>3, <1>4

(* A batch whose slots are all checked is left for the next one.           *)
LEMMA EndBatchInv ==
  ASSUME RecoveryInv, EndBatch, waiting = {}, ~failed, \A s \in walked : Checked(s),
         UNCHANGED <<chainVars, rows, eth, current, walked, unanswered, processor, result, faults, runs>>,
         events' \in Seq(Slots), lost' \subseteq Slots, StaleOnlyIfLost'
  PROVE  RecoveryInv'
<1> USE DEF RecoveryInv, EndBatch
<1>1. /\ blocks' \in [Slots -> Versions] /\ {s \in Slots : blocks'[s] # 0} = {}
  BY ChainAssumption DEF NoBlocks, Versions
<1>2. Cardinality({s \in Slots : blocks'[s] # 0}) = 0
  BY <1>1, FS_EmptySet
<1>3. pc' \in {"walk", "completed"}
  OBVIOUS
<1>4. TypeOK'
  BY <1>1, <1>2, <1>3, RecoveryAssumption DEF TypeOK, ChainTypeOK, chainVars
<1>5. ControlInv' /\ (DOMAIN eth = Slots)'
  BY <1>3 DEF ControlInv
<1>6. FreshInv'
  BY <1>1, <1>3 DEF FreshInv, Checked, chainVars
<1> QED
  BY <1>4, <1>5, <1>6

(* One answer to a recheck.                                                *)
LEMMA RecheckInv ==
  ASSUME RecoveryInv, NEW s \in Slots, RecheckBlock(s)
  PROVE  RecoveryInv'
<1> USE DEF RecoveryInv
<1> DEFINE changed(header) == header.tag = "Some" /\ header.val.ver # blocks[s]
           done(o, c) == \/ o.tag = "Panic" /\ EndCheck("failed") /\ UNCHANGED unanswered
                         \/ o.tag # "Panic" /\ Recheck(s, o, c)
<1>1. /\ pc = "recheck" /\ s \in waiting
      /\ UNCHANGED <<chainVars, rows, eth, current, walked, events, processor, result, lost, faults, runs>>
  BY DEF RecheckBlock
<1>2. PICK header \in get_block_with_config(s, finalized) :
        \E o \in IF changed(header) THEN get_block_with_config(s, finalized) ELSE {header} :
          done(o, changed(header))
  BY DEF RecheckBlock
<1>3. PICK o \in IF changed(header) THEN get_block_with_config(s, finalized) ELSE {header} :
        done(o, changed(header))
  BY <1>2
<1>4. /\ o \in get_block_with_config(s, finalized)
      /\ changed(header) \/ o = header
  BY <1>2, <1>3
<1>5. ChainTypeOK /\ finalized \in 0 .. MaxSlot /\ faults' \in 0 .. MaxFaults /\ blocks[s] # 0
  BY <1>1 DEF TypeOK, ChainTypeOK
<1>6. CASE o.tag = "Panic"
  <2>1. EndCheck("failed") /\ UNCHANGED unanswered
    BY <1>3, <1>6
  <2> QED
    BY <1>1, <1>5, <2>1, EndCheckInv
<1>7. CASE o.tag # "Panic"
  <2>1. /\ o.tag \in {"Some", "None", "Err"}
        /\ o.tag = "Some" => s <= finalized /\ chain[s] # Skipped /\ o.val.ver = chain[s]
    BY <1>4, <1>5, <1>7, BlockOutcomes, BlockAtFacts
  <2>2. Recheck(s, o, changed(header))
    BY <1>3, <1>7
  <2>3. o.tag = "Some" /\ ~changed(header) => chain[s] = blocks[s]
    BY <1>4, <2>1
  <2>4. /\ waiting' = waiting \ {s}
        /\ updated' \subseteq updated \cup {s} /\ updated \subseteq updated'
        /\ s \in updated' => s \in updated \/ o.tag = "Some"
        /\ o.tag = "Some" => s \in updated' \/ chain[s] = blocks[s]
        /\ unanswered' = IF o.tag = "None" THEN unanswered \cup {s} ELSE unanswered
        /\ UNCHANGED <<pc, blocks>>
    BY <2>2, <2>3 DEF Recheck
  <2>5. failed' = (failed \/ o.tag = "Err") /\ failed' \in BOOLEAN
    BY <2>2, Zenon DEF Recheck
  <2> HIDE DEF changed, done
  <2>6. TypeOK'
    BY <1>1, <2>4, <2>5 DEF TypeOK, ChainTypeOK, chainVars
  <2>7. ControlInv' /\ (DOMAIN eth = Slots)'
    BY <1>1, <2>4 DEF ControlInv
  <2>8. \A t \in updated' : t <= finalized /\ chain[t] # Skipped
    BY <1>1, <2>1, <2>4 DEF FreshInv
  <2>9. ASSUME ~failed', NEW t \in Slots, blocks[t] # 0, t \notin waiting'
        PROVE  t \in unanswered' \/ (t <= finalized /\ (chain[t] = blocks[t] \/ t \in updated'))
    <3>1. ~failed /\ o.tag # "Err"
      BY <2>5, <2>9
    <3>2. CASE t = s
      BY <2>1, <2>4, <3>1, <3>2
    <3>3. CASE t # s
      BY <1>1, <2>4, <2>9, <3>1, <3>3 DEF FreshInv
    <3> QED
      BY <3>2, <3>3
  <2>10. \A t \in walked : Checked(t)' \/ blocks[t] # 0
    BY <1>1, <2>4 DEF FreshInv, Checked, chainVars
  <2>11. FreshInv'
    BY <1>1, <2>4, <2>8, <2>9, <2>10 DEF FreshInv, chainVars
  <2>12. StaleOnlyIfLost'
    BY <1>1, <2>4 DEF StaleOnlyIfLost
  <2> QED
    BY <2>6, <2>7, <2>11, <2>12
<1> QED
  BY <1>6, <1>7

(* All answers are in: the batch fails, or what differs is replaced, or    *)
(* nothing differs.                                                        *)
LEMMA EndRecheckInv ==
  ASSUME RecoveryInv, EndRecheck
  PROVE  RecoveryInv'
<1> USE DEF RecoveryInv
<1>1. /\ pc = "recheck" /\ waiting = {}
      /\ UNCHANGED <<chainVars, eth, current, walked, unanswered, events, processor, result, lost, faults, runs>>
  BY DEF EndRecheck
<1>2. CASE EndCheck("failed") /\ UNCHANGED rows
  <2>1. faults' \in 0 .. MaxFaults
    BY <1>1 DEF TypeOK
  <2> QED
    BY <1>1, <1>2, <2>1, EndCheckInv
<1>3. CASE /\ ~failed /\ updated # {}
           /\ rows' = update_finalized_blocks(rows, updated, [s \in Slots |-> BlockAt(s)])
           /\ pc' = "send" /\ UNCHANGED <<blocks, waiting, failed, updated>>
  <2>1. ASSUME NEW s \in updated
        PROVE  /\ s \in Slots /\ s <= finalized /\ chain[s] # Skipped
               /\ rows'[s] = [status |-> "Finalized", ver |-> chain[s], parent |-> BlockAt(s).parent]
               /\ rows'[s].ver = chain[s]
               /\ rows'[s] \in Rows
    <3>1. s \in Slots /\ s <= finalized /\ chain[s] # Skipped /\ ChainTypeOK
      BY <1>1 DEF TypeOK, FreshInv
    <3>2. rows'[s] = [status |-> "Finalized", ver |-> BlockAt(s).ver, parent |-> BlockAt(s).parent]
      BY <1>3, <3>1 DEF update_finalized_blocks
    <3>3. BlockAt(s) \in Blocks /\ BlockAt(s).ver = chain[s]
      BY <3>1, BlockAtFacts
    <3> QED
      BY <3>1, <3>2, <3>3 DEF Rows, Blocks, Statuses
  <2>2. ASSUME NEW s \in Slots, s \notin updated PROVE rows'[s] = rows[s]
    BY <1>3, <2>2 DEF update_finalized_blocks
  <2>3. rows' \in [Slots -> Rows]
    <3>1. rows' = [s \in Slots |-> rows'[s]]
      BY <1>3 DEF update_finalized_blocks
    <3>2. \A s \in Slots : rows'[s] \in Rows
      BY <2>1, <2>2 DEF TypeOK
    <3> QED
      BY <3>1, <3>2
  <2>4. TypeOK'
    BY <1>1, <1>3, <2>3 DEF TypeOK, ChainTypeOK, chainVars
  <2>5. ControlInv' /\ (DOMAIN eth = Slots)'
    BY <1>1, <1>3 DEF ControlInv
  <2>6. \A s \in Slots : Has(rows', s) => rows'[s].ver # Skipped
    <3> SUFFICES ASSUME NEW s \in Slots, Has(rows', s) PROVE rows'[s].ver # Skipped
      OBVIOUS
    <3>1. CASE s \in updated
      BY <2>1, <3>1
    <3>2. CASE s \notin updated
      BY <2>2, <3>2 DEF Has, FreshInv
    <3> QED
      BY <3>1, <3>2
  <2>7. ASSUME NEW s \in walked PROVE Checked(s)'
    <3>1. s \in Slots
      BY DEF TypeOK
    <3>2. CASE s \in updated
      BY <1>1, <2>1, <3>2 DEF Checked, chainVars
    <3>3. CASE s \notin updated
      <4>1. Checked(s)
        BY <1>1, <1>3, <3>1, <3>3 DEF FreshInv, Checked
      <4> QED
        BY <1>1, <2>2, <3>1, <3>3, <4>1 DEF Checked, Has, chainVars
    <3> QED
      BY <3>2, <3>3
  <2>8. FreshInv'
    BY <1>1, <1>3, <2>6, <2>7 DEF FreshInv, chainVars
  <2>9. StaleOnlyIfLost'
    <3> SUFFICES ASSUME NEW s \in Slots, eth[s] # <<>>, eth[s][1].ver # rows'[s].ver
                 PROVE  \E t \in lost \cup ToSet(events) \cup updated : t <= s
      BY <1>1, <1>3 DEF StaleOnlyIfLost
    <3>1. CASE s \in updated
      <4>1. s <= s
        BY ChainAssumption DEF Slots
      <4> QED
        BY <3>1, <4>1
    <3>2. CASE s \notin updated
      BY <1>1, <2>2, <3>2 DEF StaleOnlyIfLost
    <3> QED
      BY <3>1, <3>2
  <2> QED
    BY <2>4, <2>5, <2>8, <2>9
<1>4. CASE ~failed /\ updated = {} /\ EndBatch /\ UNCHANGED rows
  <2>1. \A s \in walked : Checked(s)
    BY <1>1, <1>4 DEF FreshInv, Checked, TypeOK
  <2>2. StaleOnlyIfLost'
    BY <1>1, <1>4 DEF StaleOnlyIfLost, EndBatch
  <2>3. events' \in Seq(Slots) /\ lost' \subseteq Slots
    BY <1>1 DEF TypeOK
  <2> QED
    BY <1>1, <1>4, <2>1, <2>2, <2>3, EndBatchInv
<1> QED
  BY <1>2, <1>3, <1>4 DEF EndRecheck

(* The event names the lowest updated slot, so it stands for all of them;  *)
(* without a receiver all of them are lost.                                *)
LEMMA SendInv ==
  ASSUME RecoveryInv, SendReorgEvent
  PROVE  RecoveryInv'
<1> USE DEF RecoveryInv
<1>1. /\ pc = "send" /\ EndBatch /\ waiting = {} /\ ~failed /\ updated # {} /\ updated \subseteq Slots
      /\ UNCHANGED <<chainVars, rows, eth, current, walked, unanswered, processor, result, faults, runs>>
      /\ pc' # "send" /\ \A s \in walked : Checked(s)
  BY DEF SendReorgEvent, ControlInv, FreshInv, TypeOK, EndBatch
<1>2. LowestUpdated \in updated /\ \A t \in updated : LowestUpdated <= t
  <2>1. updated \subseteq Nat
    BY <1>1, ChainAssumption DEF Slots
  <2>2. \E s \in updated : \A t \in updated : s <= t
    BY <1>1, <2>1, LeastElement
  <2> QED
    BY <2>2, Zenon DEF LowestUpdated
<1>3. ASSUME NEW e \in Seq(Slots), NEW x \in Slots
      PROVE  Append(e, x) \in Seq(Slots) /\ x \in ToSet(Append(e, x)) /\ ToSet(e) \subseteq ToSet(Append(e, x))
  <2>1. Append(e, x) \in Seq(Slots) /\ DOMAIN Append(e, x) = 1 .. (Len(e) + 1) /\ Len(e) \in Nat
    OBVIOUS
  <2>2. Append(e, x)[Len(e) + 1] = x /\ DOMAIN e = 1 .. Len(e) /\ \A i \in 1 .. Len(e) : Append(e, x)[i] = e[i]
    OBVIOUS
  <2> QED
    BY <2>1, <2>2 DEF ToSet
<1>4. CASE events' = Append(events, LowestUpdated) /\ UNCHANGED lost
  <2>1. /\ events' \in Seq(Slots) /\ lost' \subseteq Slots
        /\ LowestUpdated \in ToSet(events') /\ ToSet(events) \subseteq ToSet(events')
    BY <1>1, <1>2, <1>3, <1>4 DEF TypeOK
  <2>2. StaleOnlyIfLost'
    <3> SUFFICES ASSUME NEW s \in Slots, eth[s] # <<>>, eth[s][1].ver # rows[s].ver
                 PROVE  \E t \in lost' \cup ToSet(events') : t <= s
      BY <1>1 DEF StaleOnlyIfLost
    <3>1. PICK t \in lost \cup ToSet(events) \cup updated : t <= s
      BY <1>1 DEF StaleOnlyIfLost
    <3>2. CASE t \in updated
      <4>1. LowestUpdated <= s
        BY <1>1, <1>2, <3>1, <3>2, ChainAssumption DEF Slots
      <4> QED
        BY <2>1, <4>1
    <3> QED
      BY <1>4, <2>1, <3>1, <3>2
  <2> QED
    BY <1>1, <2>1, <2>2, EndBatchInv
<1>5. CASE lost' = lost \cup updated /\ UNCHANGED events
  <2>1. events' \in Seq(Slots) /\ lost' \subseteq Slots
    BY <1>1, <1>5 DEF TypeOK
  <2>2. StaleOnlyIfLost'
    BY <1>1, <1>5 DEF StaleOnlyIfLost
  <2> QED
    BY <1>1, <2>1, <2>2, EndBatchInv
<1> QED
  BY <1>4, <1>5 DEF SendReorgEvent

-----------------------------------------------------------------------------
(* The reorg processor and the caller.                                     *)

(* The Ethereum blocks from the slot of the event on are removed.          *)
LEMMA CleanInv ==
  ASSUME RecoveryInv, CleanFromSlot
  PROVE  RecoveryInv'
<1> USE DEF RecoveryInv
<1>1. /\ events # <<>> /\ eth' = Eth!clean_from_slot(eth, Head(events)) /\ events' = Tail(events)
      /\ UNCHANGED <<chainVars, rows, pc, taskVars, processor, result, lost, faults, runs>>
  BY DEF CleanFromSlot
<1>2. events \in Seq(Slots) /\ Head(events) \in Slots /\ Tail(events) \in Seq(Slots)
  BY <1>1 DEF TypeOK
<1>3. eth' = [s \in Slots |-> IF s >= Head(events) THEN <<>> ELSE eth[s]]
  BY <1>1 DEF Eth!clean_from_slot, Eth!Slots, Slots
<1>4. TypeOK' /\ (DOMAIN eth = Slots)'
  <2>1. \A s \in Slots : Len(eth'[s]) <= 1
    BY <1>3 DEF TypeOK
  <2> QED
    BY <1>1, <1>2, <1>3, <2>1 DEF TypeOK, ChainTypeOK, chainVars, taskVars
<1>5. ControlInv' /\ FreshInv'
  BY <1>1 DEF ControlInv, FreshInv, Checked, chainVars, taskVars
<1>6. StaleOnlyIfLost'
  <2> SUFFICES ASSUME NEW s \in Slots, eth'[s] # <<>>, eth'[s][1].ver # rows[s].ver
               PROVE  \E t \in lost \cup ToSet(Tail(events)) \cup (IF pc = "send" THEN updated ELSE {}) : t <= s
    BY <1>1 DEF StaleOnlyIfLost, taskVars
  <2>1. ~(s >= Head(events)) /\ eth'[s] = eth[s]
    BY <1>3
  <2>2. PICK t \in lost \cup ToSet(events) \cup (IF pc = "send" THEN updated ELSE {}) : t <= s
    BY <2>1 DEF StaleOnlyIfLost
  <2>3. t # Head(events)
    BY <1>2, <2>1, <2>2, ChainAssumption DEF Slots
  <2>4. ASSUME t \in ToSet(events) PROVE t \in ToSet(Tail(events))
    <3>1. PICK i \in 1 .. Len(events) : t = events[i]
      BY <1>2, <2>4 DEF ToSet
    <3>2. i # 1 /\ Len(events) \in Nat
      BY <1>1, <1>2, <2>3, <3>1
    <3>3. Len(Tail(events)) = Len(events) - 1 /\ DOMAIN Tail(events) = 1 .. (Len(events) - 1)
      BY <1>1, <1>2
    <3>4. i - 1 \in DOMAIN Tail(events) /\ Tail(events)[i - 1] = events[i]
      BY <1>1, <1>2, <3>1, <3>2, <3>3
    <3> QED
      BY <3>1, <3>4 DEF ToSet
  <2> QED
    BY <2>2, <2>4
<1> QED
  BY <1>4, <1>5, <1>6

(* The other steps: they leave the batch alone, or drop it and keep a      *)
(* record of the events they lose.                                         *)
LEMMA OtherInv ==
  ASSUME RecoveryInv,
         ProcessorEnds \/ CleanFails \/ Return \/ CheckFails \/ NewRun \/ ChainStep \/ UNCHANGED vars
  PROVE  RecoveryInv'
<1> USE DEF RecoveryInv
<1>0. events \in Seq(Slots) /\ ToSet(events) \subseteq Slots /\ <<>> \in Seq(Slots)
  BY DEF TypeOK, ToSet
<1>1. CASE ProcessorEnds
  <2>1. /\ processor' = "ended"
        /\ UNCHANGED <<chainVars, rows, eth, pc, taskVars, events, result, lost, faults, runs>>
    BY <1>1 DEF ProcessorEnds
  <2> QED
    BY <2>1 DEF TypeOK, ChainTypeOK, ControlInv, FreshInv, Checked, StaleOnlyIfLost, chainVars, taskVars
<1>2. CASE CleanFails
  <2>1. /\ processor' = "failed" /\ lost' = lost \cup ToSet(events) /\ events' = <<>>
        /\ faults < MaxFaults /\ faults' = faults + 1
        /\ UNCHANGED <<chainVars, rows, eth, pc, taskVars, result, runs>>
    BY <1>2 DEF CleanFails
  <2>2. faults' \in 0 .. MaxFaults
    BY <2>1, RecoveryAssumption DEF TypeOK
  <2>3. TypeOK' /\ (DOMAIN eth = Slots)'
    BY <1>0, <2>1, <2>2 DEF TypeOK, ChainTypeOK, chainVars, taskVars
  <2>4. ControlInv' /\ FreshInv'
    BY <2>1 DEF ControlInv, FreshInv, Checked, chainVars, taskVars
  <2>5. StaleOnlyIfLost'
    BY <2>1 DEF StaleOnlyIfLost, taskVars
  <2> QED
    BY <2>3, <2>4, <2>5
<1>3. CASE Return
  <2>1. /\ result' \in {"ok", "err"}
        /\ UNCHANGED <<chainVars, rows, eth, pc, taskVars, events, processor, lost, faults, runs>>
    BY <1>3 DEF Return
  <2> QED
    BY <2>1 DEF TypeOK, ChainTypeOK, ControlInv, FreshInv, Checked, StaleOnlyIfLost, chainVars, taskVars
<1>4. CASE CheckFails
  <2>1. /\ pc # "send" /\ EndCheck("failed") /\ faults < MaxFaults /\ faults' = faults + 1
        /\ UNCHANGED <<chainVars, rows, eth, current, walked, unanswered, events, processor, result, lost, runs>>
    BY <1>4 DEF CheckFails
  <2>2. faults' \in 0 .. MaxFaults
    BY <2>1, RecoveryAssumption DEF TypeOK
  <2> QED
    BY <2>1, <2>2, EndCheckInv
<1>5. CASE NewRun
  <2>1. /\ runs < MaxRuns /\ runs' = runs + 1
        /\ lost' = lost \cup ToSet(events) \cup (IF pc = "send" THEN updated ELSE {})
        /\ pc' = "start" /\ current' = 0 /\ blocks' = NoBlocks /\ waiting' = {} /\ failed' = FALSE
        /\ updated' = {} /\ walked' = {} /\ unanswered' = {}
        /\ events' = <<>> /\ processor' = "running" /\ result' = "none"
        /\ UNCHANGED <<chainVars, rows, eth>>
    BY <1>5 DEF NewRun
  <2>2. faults' \in 0 .. MaxFaults /\ runs' \in 1 .. MaxRuns /\ current' \in 0 .. MaxSlot
    BY <1>5, <2>1, RecoveryAssumption, ChainAssumption DEF NewRun, TypeOK
  <2>3. /\ blocks' \in [Slots -> Versions] /\ {s \in Slots : blocks'[s] # 0} = {}
    BY <2>1, ChainAssumption DEF NoBlocks, Versions
  <2>4. Cardinality({s \in Slots : blocks'[s] # 0}) = 0
    BY <2>3, FS_EmptySet
  <2>5. failed' \in BOOLEAN
    BY <2>1, Zenon
  <2>6. TypeOK' /\ (DOMAIN eth = Slots)'
    BY <1>0, <2>1, <2>2, <2>3, <2>4, <2>5, RecoveryAssumption DEF TypeOK, ChainTypeOK, chainVars
  <2>7. ControlInv' /\ FreshInv'
    BY <2>1 DEF ControlInv, FreshInv, chainVars
  <2>8. StaleOnlyIfLost'
    BY <2>1 DEF StaleOnlyIfLost
  <2> QED
    BY <2>6, <2>7, <2>8
<1>6. CASE ChainStep
  <2>1. /\ ChainNext
        /\ UNCHANGED <<rows, eth, pc, taskVars, events, processor, result, lost, faults, runs>>
    BY <1>6 DEF ChainStep
  <2>2. /\ ChainTypeOK' /\ finalized' <= confirmed' /\ finalized <= finalized'
        /\ \A s \in Slots : s <= finalized => chain'[s] = chain[s]
    BY <2>1, FinalPartStays DEF TypeOK, FreshInv
  <2>3. finalized \in Nat /\ finalized' \in Nat /\ Slots \subseteq Nat
    BY <2>2, ChainAssumption DEF TypeOK, ChainTypeOK, Slots
  <2>4. TypeOK' /\ (DOMAIN eth = Slots)'
    BY <2>1, <2>2 DEF TypeOK, taskVars
  <2>5. ControlInv' /\ StaleOnlyIfLost'
    BY <2>1 DEF ControlInv, StaleOnlyIfLost, taskVars
  <2>6. ASSUME NEW s \in Slots, Checked(s) PROVE Checked(s)'
    <3>1. s \notin unanswered => s <= finalized' /\ chain'[s] = chain[s]
      BY <2>2, <2>3, <2>6 DEF Checked
    <3>2. rows' = rows /\ unanswered' = unanswered
      BY <2>1 DEF taskVars
    <3> QED
      BY <2>6, <3>1, <3>2 DEF Checked, Has
  <2>7. \A s \in Slots : s <= finalized => s <= finalized' /\ chain'[s] = chain[s]
    BY <2>2, <2>3
  <2>8. walked \subseteq Slots /\ updated \subseteq Slots
    BY DEF TypeOK
  <2>9. FreshInv'
    BY <2>1, <2>2, <2>6, <2>7, <2>8 DEF FreshInv, taskVars
  <2> QED
    BY <2>4, <2>5, <2>9
<1>7. CASE UNCHANGED vars
  BY <1>7 DEF vars, TypeOK, ChainTypeOK, ControlInv, FreshInv, Checked, StaleOnlyIfLost, chainVars, taskVars
<1> QED
  BY <1>1, <1>2, <1>3, <1>4, <1>5, <1>6, <1>7

-----------------------------------------------------------------------------

(* Every step preserves the invariant.                                     *)
LEMMA RecoveryStep == RecoveryInv /\ [Next]_vars => RecoveryInv'
<1> SUFFICES ASSUME RecoveryInv, [Next]_vars PROVE RecoveryInv'
  OBVIOUS
<1>1. CASE Check
  BY <1>1, WalkInv, RecheckInv, EndRecheckInv, SendInv DEF Check
<1>2. CASE Process
  BY <1>2, CleanInv, OtherInv DEF Process
<1>3. CASE Return \/ CleanFails \/ CheckFails \/ NewRun \/ ChainStep \/ UNCHANGED vars
  BY <1>3, OtherInv
<1> QED
  BY <1>1, <1>2, <1>3 DEF Next

(* The invariant holds in every state of start_recovery.                   *)
THEOREM RecoveryInvariant == Spec => []RecoveryInv
<1> QED
  BY InitRecoveryInv, RecoveryStep, PTL DEF Spec

(* start_recovery keeps its types; a batch never holds more than           *)
(* batch_size blocks.                                                      *)
THEOREM RecoveryTypeCorrect == Spec => []TypeOK
<1>1. RecoveryInv => TypeOK
  BY DEF RecoveryInv
<1> QED
  BY <1>1, RecoveryInvariant, PTL

(* A completed check leaves every block it has walked over as the chain    *)
(* has finalized it, but for the slots whose recheck was answered Ok(None),*)
(* however often calls failed, and while the chain moved on.               *)
THEOREM CheckedBlocksFreshCorrect == Spec => []CheckedBlocksFresh
<1>1. RecoveryInv => CheckedBlocksFresh
  BY DEF RecoveryInv, FreshInv, Checked, CheckedBlocksFresh
<1> QED
  BY <1>1, RecoveryInvariant, PTL

(* An Ethereum block whose Solana block was replaced has an event at or    *)
(* below it under way, or one that was lost.                               *)
THEOREM StaleOnlyIfLostCorrect == Spec => []StaleOnlyIfLost
<1>1. RecoveryInv => StaleOnlyIfLost
  BY DEF RecoveryInv
<1> QED
  BY <1>1, RecoveryInvariant, PTL
=============================================================================
