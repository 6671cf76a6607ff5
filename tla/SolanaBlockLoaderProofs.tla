---------------------- MODULE SolanaBlockLoaderProofs ----------------------
(***************************************************************************)
(* Proofs about SolanaBlockLoader for every chain length, batch size,      *)
(* provider lag and number of failures.                                    *)
(***************************************************************************)
EXTENDS SolanaBlockLoader, NatLemmas

-----------------------------------------------------------------------------
(* The blocks of the chain and the last stored slot.                       *)

(* The parent of a block is a lower slot.                                  *)
LEMMA ParentOfBelow ==
  ASSUME ChainTypeOK, NEW s \in Slots
  PROVE  ParentOf(s) \in 0 .. (s - 1)
<1> USE ChainAssumption DEF ChainTypeOK, Slots
<1>1. CASE ~ \E t \in 1 .. (s - 1) : chain[t] # Skipped
  BY <1>1 DEF ParentOf
<1>2. CASE \E t \in 1 .. (s - 1) : chain[t] # Skipped
  <2> DEFINE Earlier == {t \in 1 .. (s - 1) : chain[t] # Skipped}
  <2>1. Earlier \subseteq 0 .. (s - 1) /\ Earlier # {} /\ s - 1 \in Nat
    BY <1>2
  <2>2. PICK t \in Earlier : \A u \in Earlier : u <= t
    <3> HIDE DEF Earlier
    <3>1. QED
      BY <2>1, GreatestElement
  <2>3. chain[t] # Skipped /\ \A u \in (t + 1) .. (s - 1) : chain[u] = Skipped
    BY <2>2
  <2>4. \E u \in 1 .. (s - 1) :
          chain[u] # Skipped /\ \A v \in (u + 1) .. (s - 1) : chain[v] = Skipped
    BY <2>2, <2>3
  <2>5. ParentOf(s) \in 1 .. (s - 1)
    BY <1>2, <2>4, Zenon DEF ParentOf
  <2>6. QED
    BY <2>5
<1>3. QED
  BY <1>1, <1>2

(* What the client returns for a slot.                                     *)
LEMMA BlockAtFacts ==
  ASSUME ChainTypeOK, NEW s \in Slots
  PROVE  /\ BlockAt(s) \in Blocks
         /\ BlockAt(s).ver = chain[s]
         /\ BlockAt(s).parent < s
         /\ BlockAt(s) = NoBlock <=> chain[s] = Skipped
<1>1. ParentOf(s) \in 0 .. (s - 1)
  BY ParentOfBelow
<1>2. QED
  BY <1>1, ChainAssumption
     DEF BlockAt, NoBlock, Blocks, Slots, Versions, Skipped, ChainTypeOK

(* get_last_slot returns a slot that has a row, or 0.                      *)
LEMMA LastSlotFacts ==
  ASSUME NEW r \in [Slots -> Rows]
  PROVE  /\ get_last_slot(r) \in 0 .. MaxSlot
         /\ get_last_slot(r) # 0 => get_last_slot(r) \in Slots /\ Has(r, get_last_slot(r))
<1> USE ChainAssumption DEF Slots
<1> DEFINE Present == {s \in Slots : Has(r, s)}
<1>1. CASE Present = {}
  BY <1>1 DEF get_last_slot
<1>2. CASE Present # {}
  <2>1. Present \subseteq 0 .. MaxSlot /\ MaxSlot \in Nat
    OBVIOUS
  <2>2. PICK s \in Present : \A t \in Present : t <= s
    <3> HIDE DEF Present
    <3>1. QED
      BY <1>2, <2>1, GreatestElement
  <2>3. \E t \in Slots : Has(r, t) /\ \A u \in Slots : Has(r, u) => u <= t
    BY <2>2
  <2>4. get_last_slot(r) \in Slots /\ Has(r, get_last_slot(r))
    BY <1>2, <2>3, Zenon DEF get_last_slot
  <2>5. QED
    BY <2>4
<1>3. QED
  BY <1>1, <1>2

-----------------------------------------------------------------------------
(* The operators the steps are made of.                                    *)

(* set_finalized_slot reaches only Confirmed rows at or below its slot.    *)
LEMMA ForkBelow ==
  ASSUME NEW r \in [Slots -> Rows], NEW slot \in 0 .. MaxSlot,
         \A s \in Slots : Has(r, s) => r[s].parent < s
  PROVE  \A s \in FinalizedFork(r, slot) :
           s \in Slots /\ s <= slot /\ r[s].status = "Confirmed"
<1> SUFFICES ASSUME NEW s \in FinalizedFork(r, slot)
             PROVE  s \in Slots /\ s <= slot /\ r[s].status = "Confirmed"
  OBVIOUS
<1> DEFINE S == {t \in Slots : t <= slot /\ Unfinalized(r, t)}
<1>1. slot \in S
  BY ChainAssumption DEF FinalizedFork, Unfinalized, Slots
<1>2. ClosedUnderParent(r, S)
  <2> SUFFICES ASSUME NEW t \in S, Unfinalized(r, r[t].parent)
               PROVE  r[t].parent \in S
    BY DEF ClosedUnderParent
  <2>1. r[t].parent < t
    BY DEF Unfinalized, Has
  <2>2. QED
    BY <2>1, ChainAssumption DEF Unfinalized, Slots
<1>3. S \in SUBSET Slots
  OBVIOUS
<1>4. s \in S
  BY <1>1, <1>2, <1>3 DEF FinalizedFork
<1>5. QED
  BY <1>4 DEF Unfinalized

(* The first updated slot exists.                                          *)
LEMMA LowestIn ==
  ASSUME NEW S \in SUBSET Slots, S # {}
  PROVE  Lowest(S) \in S
<1>1. S \subseteq Nat
  BY ChainAssumption DEF Slots
<1>2. \E s \in S : \A t \in S : s <= t
  BY <1>1, LeastElement
<1>3. QED
  BY <1>2 DEF Lowest

(* A batch is not empty and ends within the range to be loaded.            *)
LEMMA BatchEndFacts ==
  ASSUME NEW from \in Nat, NEW max \in Nat, from < max
  PROVE  BatchEnd(from, max) \in (from + 1) .. max
BY LoaderAssumption DEF BatchEnd

-----------------------------------------------------------------------------
(* The chain.                                                              *)

(* A step of the chain keeps its invariant and changes nothing at or below *)
(* the finalized slot.                                                     *)
LEMMA ChainStepFacts ==
  ASSUME ChainTypeOK, ChainInv, ChainNext
  PROVE  /\ ChainTypeOK' /\ ChainInv'
         /\ confirmed <= confirmed' /\ finalized <= finalized'
         /\ \A s \in Slots : s <= finalized => chain'[s] = chain[s]
<1> USE ChainAssumption DEF ChainTypeOK, ChainInv, Slots, Versions, Skipped
<1>1. ASSUME NEW n \in Slots, Confirm(n)
      PROVE  /\ ChainTypeOK' /\ ChainInv'
             /\ confirmed <= confirmed' /\ finalized <= finalized'
             /\ \A s \in Slots : s <= finalized => chain'[s] = chain[s]
  BY <1>1 DEF Confirm
<1>2. ASSUME NEW n \in Slots, Finalize(n)
      PROVE  /\ ChainTypeOK' /\ ChainInv'
             /\ confirmed <= confirmed' /\ finalized <= finalized'
             /\ \A s \in Slots : s <= finalized => chain'[s] = chain[s]
  BY <1>2 DEF Finalize
<1>3. ASSUME NEW s \in Slots, NEW present \in SUBSET Slots, SwitchFork(s, present)
      PROVE  /\ ChainTypeOK' /\ ChainInv'
             /\ confirmed <= confirmed' /\ finalized <= finalized'
             /\ \A t \in Slots : t <= finalized => chain'[t] = chain[t]
  BY <1>3 DEF SwitchFork
<1>4. QED
  BY <1>1, <1>2, <1>3 DEF ChainNext

-----------------------------------------------------------------------------
(* The loader.                                                             *)

(* Slots that are covered stay covered while rows and slots answered       *)
(* Ok(None) only accumulate.                                               *)
LEMMA CoveredStays ==
  ASSUME NEW n \in 0 .. (MaxSlot + 1), CoveredBelow(n),
         \A s \in Slots : Has(rows, s) => Has(rows', s),
         none \subseteq none'
  PROVE  \A t \in StartSlot .. (n - 1) : Has(rows', t) \/ t \in none'
<1>1. \A t \in StartSlot .. (n - 1) : t \in Slots
  BY ChainAssumption, LoaderAssumption DEF Slots
<1>2. QED
  BY <1>1 DEF CoveredBelow, Covered

(* The initial states satisfy the inductive invariant.                     *)
THEOREM InitLoaderInv == Init => LoaderInv
<1> SUFFICES ASSUME Init PROVE LoaderInv
  OBVIOUS
<1> USE ChainAssumption, LoaderAssumption DEF Init, ChainInit, Slots
<1>1. TypeOK
  <2>1. ChainTypeOK
    BY DEF ChainTypeOK, Versions, Skipped
  <2>2. rows \in [Slots -> Rows] /\ loaded \in [Slots -> Blocks]
    BY DEF EmptyTable, NoRow, Rows, Statuses, NoBlock, Blocks, Versions, Skipped
  <2>3. pc \in PCs /\ reorgs \in Seq(Slots)
    BY DEF PCs
  <2>4. failed \in BOOLEAN /\ inSync \in BOOLEAN
    OBVIOUS
  <2>5. QED
    BY <2>1, <2>2, <2>3, <2>4 DEF TypeOK
<1>2. ChainInv /\ CursorInv /\ BatchInv /\ RowsInv /\ RecheckInv
  BY DEF ChainInv, CursorInv, BatchInv, RowsInv, RecheckInv, CoveredBelow, Has,
         EmptyTable, NoRow
<1>3. QED
  BY <1>1, <1>2 DEF LoaderInv

(* The slots under recheck are slots.                                      *)
LEMMA UnderRecheckType ==
  ASSUME recheck \subseteq Slots, updated \subseteq Slots
  PROVE  UnderRecheck \subseteq Slots
BY DEF UnderRecheck

(* An Err that is returned keeps the invariant: the cursor it falls back   *)
(* to has only covered slots below it.                                     *)
LEMMA ReturnErrInv ==
  ASSUME LoaderInv, ReturnErr, UNCHANGED <<chainVars, rows, reorgs>>,
         faults' \in 0 .. MaxFaults
  PROVE  LoaderInv'
<1> USE ChainAssumption, LoaderAssumption DEF LoaderInv, ReturnErr, chainVars
<1>1. TypeOK'
  <2>1. \A s \in Slots : NoBlock \in Blocks
    BY DEF NoBlock, Blocks, Versions, Skipped
  <2>2. pc' \in PCs /\ loaded' \in [Slots -> Blocks]
    BY <2>1 DEF PCs
  <2>3. failed' \in BOOLEAN /\ inSync' \in BOOLEAN
    BY DEF TypeOK
  <2>4. unrepaired' \subseteq Slots /\ none' \subseteq Slots
    BY UnderRecheckType DEF TypeOK
  <2>5. QED
    BY <2>2, <2>3, <2>4 DEF TypeOK, ChainTypeOK
<1>2. ChainInv'
  BY DEF ChainInv
<1>3. CursorInv'
  BY DEF CursorInv, CoveredBelow, Covered
<1>4. BatchInv' /\ RecheckInv'
  BY DEF BatchInv, RecheckInv
<1>5. RowsInv'
  BY DEF RowsInv, CoveredBelow, Covered
<1>6. QED
  BY <1>1, <1>2, <1>3, <1>4, <1>5

(* So does the start of a new process, or the end of the task.             *)
LEMMA IdleInv ==
  ASSUME LoaderInv, NEW point \in {"start", "dead"}, Idle(point),
         UNCHANGED <<chainVars, rows, none>>, reorgs' \in Seq(Slots),
         faults' \in 0 .. MaxFaults, unrepaired' \subseteq Slots
  PROVE  LoaderInv'
<1> USE ChainAssumption, LoaderAssumption DEF LoaderInv, Idle, chainVars
<1>1. TypeOK'
  <2>1. \A s \in Slots : NoBlock \in Blocks
    BY DEF NoBlock, Blocks, Versions, Skipped
  <2>2. pc' \in PCs /\ loaded' \in [Slots -> Blocks]
    BY <2>1 DEF PCs
  <2>3. failed' \in BOOLEAN /\ inSync' \in BOOLEAN
    OBVIOUS
  <2>4. QED
    BY <2>2, <2>3 DEF TypeOK, ChainTypeOK
<1>2. ChainInv'
  BY DEF ChainInv
<1>3. CursorInv'
  BY DEF CursorInv, CoveredBelow, Covered, TypeOK, ChainTypeOK, Slots
<1>4. BatchInv' /\ RecheckInv'
  BY DEF BatchInv, RecheckInv
<1>5. RowsInv'
  BY DEF RowsInv, CoveredBelow, Covered
<1>6. QED
  BY <1>1, <1>2, <1>3, <1>4, <1>5

(* And the end of a cycle: what was to be loaded is covered.               *)
LEMMA EndCycleInv ==
  ASSUME LoaderInv, pc \in {"update", "send_event"}, EndCycle,
         UNCHANGED <<chainVars, rows, faults>>, reorgs' \in Seq(Slots)
  PROVE  LoaderInv'
<1> USE ChainAssumption, LoaderAssumption DEF LoaderInv, EndCycle, chainVars, batchVars,
        historyVars
<1>1. TypeOK'
  <2>1. pc' \in PCs
    BY DEF PCs
  <2>2. failed' \in BOOLEAN /\ inSync' \in BOOLEAN
    BY DEF TypeOK
  <2>3. QED
    BY <2>1, <2>2 DEF TypeOK, ChainTypeOK
<1>2. ChainInv'
  BY DEF ChainInv
<1>3. CursorInv'
  BY DEF CursorInv, CoveredBelow, Covered, TypeOK, Slots
<1>4. BatchInv' /\ RecheckInv'
  BY DEF BatchInv, RecheckInv
<1>5. RowsInv'
  BY DEF RowsInv, CoveredBelow, Covered
<1>6. QED
  BY <1>1, <1>2, <1>3, <1>4, <1>5

(* start_loading begins at the highest stored slot or at start_slot: all   *)
(* slots below either are covered.                                         *)
LEMMA StartLoadingInv == LoaderInv /\ StartLoading => LoaderInv'
<1> SUFFICES ASSUME LoaderInv, StartLoading PROVE LoaderInv'
  OBVIOUS
<1> USE ChainAssumption, LoaderAssumption
    DEF LoaderInv, StartLoading, chainVars, batchVars, historyVars
<1>1. /\ get_last_slot(rows) \in 0 .. MaxSlot
      /\ get_last_slot(rows) # 0 =>
           get_last_slot(rows) \in Slots /\ Has(rows, get_last_slot(rows))
  BY LastSlotFacts DEF TypeOK
<1>2. startedFrom' \in Slots /\ fromSlot' = startedFrom'
  BY <1>1
<1>3. CoveredBelow(startedFrom')
  <2>1. CASE get_last_slot(rows) = 0
    BY <2>1 DEF CoveredBelow, Slots
  <2>2. CASE get_last_slot(rows) # 0
    BY <1>1, <2>2 DEF CoveredBelow, RowsInv, Slots
  <2>3. QED
    BY <2>1, <2>2
<1>4. TypeOK'
  BY <1>2 DEF TypeOK, ChainTypeOK, PCs, Slots
<1>5. ChainInv'
  BY DEF ChainInv
<1>6. CursorInv'
  BY <1>2, <1>3 DEF CursorInv, CoveredBelow, Covered
<1>7. BatchInv' /\ RecheckInv'
  BY DEF BatchInv, RecheckInv
<1>8. RowsInv'
  BY DEF RowsInv, CoveredBelow, Covered
<1>9. QED
  BY <1>4, <1>5, <1>6, <1>7, <1>8

(* Reading the confirmed slot keeps the invariant.                         *)
LEMMA GetConfirmedInv == LoaderInv /\ GetConfirmed => LoaderInv'
<1> SUFFICES ASSUME LoaderInv, GetConfirmed PROVE LoaderInv'
  OBVIOUS
<1> USE ChainAssumption, LoaderAssumption
    DEF LoaderInv, GetConfirmed, chainVars, batchVars, historyVars
<1>1. TypeOK'
  BY DEF TypeOK, ChainTypeOK, PCs
<1>2. ChainInv'
  BY DEF ChainInv
<1>3. CursorInv'
  BY DEF CursorInv, CoveredBelow, Covered, TypeOK, ChainTypeOK
<1>4. BatchInv' /\ RecheckInv'
  BY DEF BatchInv, RecheckInv
<1>5. RowsInv'
  BY DEF RowsInv, CoveredBelow, Covered
<1>6. QED
  BY <1>1, <1>2, <1>3, <1>4, <1>5

(* A batch that begins waits for all of its slots.                         *)
LEMMA BeginBatchFacts ==
  ASSUME NEW from \in Slots, NEW max \in 0 .. MaxSlot, from < max, BeginBatch(from, max)
  PROVE  /\ BatchEnd(from, max) \in (from + 1) .. max
         /\ waiting' = from .. (BatchEnd(from, max) - 1)
         /\ waiting' \subseteq Slots
         /\ loaded' \in [Slots -> Blocks]
         /\ \A s \in Slots : loaded'[s] = NoBlock
         /\ failed' = FALSE
<1> USE ChainAssumption DEF Slots
<1>1. BatchEnd(from, max) \in (from + 1) .. max
  BY BatchEndFacts
<1>2. NoBlock \in Blocks
  BY DEF NoBlock, Blocks, Versions, Skipped
<1>3. QED
  BY <1>1, <1>2 DEF BeginBatch

(* Reading the finalized slot keeps the invariant, whether or not a batch  *)
(* begins.                                                                 *)
LEMMA GetFinalizedInv == LoaderInv /\ GetFinalized => LoaderInv'
<1> SUFFICES ASSUME LoaderInv, GetFinalized PROVE LoaderInv'
  OBVIOUS
<1> USE ChainAssumption, LoaderAssumption DEF LoaderInv, GetFinalized, chainVars,
        historyVars
<1>1. fromSlot \in Slots /\ toSlot \in 0 .. MaxSlot
  BY DEF CursorInv, TypeOK
<1>2. finSlot' \in 0 .. finalized
  OBVIOUS
<1>3. ChainInv'
  BY DEF ChainInv
<1>4. RowsInv'
  BY DEF RowsInv, CoveredBelow, Covered
<1>5. RecheckInv'
  BY DEF RecheckInv
<1>6. CASE fromSlot < toSlot
  <2>1. /\ BatchEnd(fromSlot, toSlot) \in (fromSlot + 1) .. toSlot
        /\ waiting' = fromSlot .. (BatchEnd(fromSlot, toSlot) - 1)
        /\ waiting' \subseteq Slots
        /\ loaded' \in [Slots -> Blocks]
        /\ \A s \in Slots : loaded'[s] = NoBlock
        /\ failed' = FALSE
    BY <1>1, <1>6, BeginBatchFacts
  <2>2. pc' = "load" /\ current' = fromSlot
    BY <1>6
  <2>3. TypeOK'
    <3>1. failed' \in BOOLEAN /\ inSync' \in BOOLEAN
      BY <2>1 DEF TypeOK
    <3>2. pc' \in PCs /\ current' \in 0 .. MaxSlot /\ finSlot' \in 0 .. MaxSlot
      BY <1>1, <1>2, <2>2 DEF TypeOK, ChainTypeOK, PCs, Slots
    <3>3. QED
      BY <2>1, <3>1, <3>2 DEF TypeOK, ChainTypeOK
  <2>4. CursorInv'
    BY <1>2, <2>2 DEF CursorInv, CoveredBelow, Covered, TypeOK, ChainTypeOK
  <2>5. BatchInv'
    BY <1>1, <1>6, <2>1, <2>2 DEF BatchInv, Batch, BatchEnd
  <2>6. QED
    BY <1>3, <1>4, <1>5, <2>3, <2>4, <2>5
<1>7. CASE ~ (fromSlot < toSlot)
  <2>1. pc' = "set_finalized" /\ UNCHANGED <<current, batchVars>>
    BY <1>7
  <2>2. TypeOK'
    BY <1>2, <2>1 DEF TypeOK, ChainTypeOK, PCs, batchVars
  <2>3. CursorInv'
    BY <1>2, <1>7, <2>1 DEF CursorInv, CoveredBelow, Covered, TypeOK, ChainTypeOK
  <2>4. BatchInv'
    BY <2>1 DEF BatchInv
  <2>5. QED
    BY <1>3, <1>4, <1>5, <2>2, <2>3, <2>4
<1>8. QED
  BY <1>6, <1>7

(* An answer leaves the slot with a block of its own or among those        *)
(* answered Ok(None) for.                                                  *)
LEMMA AnswerInv ==
  ASSUME LoaderInv, NEW s \in Slots, NEW block \in {BlockAt(s), NoBlock},
         Answer(s, block), faults' \in 0 .. MaxFaults
  PROVE  LoaderInv'
<1> USE ChainAssumption, LoaderAssumption DEF LoaderInv, Answer, chainVars, cursorVars
<1>1. /\ block \in Blocks
      /\ block # NoBlock => block.parent < s
      /\ none' = IF block = NoBlock THEN none \cup {s} ELSE none
  <2>1. NoBlock \in Blocks
    BY DEF NoBlock, Blocks, Versions, Skipped
  <2>2. BlockAt(s) \in Blocks /\ BlockAt(s).parent < s
    BY BlockAtFacts DEF TypeOK
  <2>3. QED
    BY <2>1, <2>2
<1>2. TypeOK'
  BY <1>1 DEF TypeOK, ChainTypeOK
<1>3. ChainInv' /\ RecheckInv'
  BY DEF ChainInv, RecheckInv
<1>4. CursorInv'
  BY <1>1 DEF CursorInv, CoveredBelow, Covered
<1>5. RowsInv'
  BY <1>1 DEF RowsInv, CoveredBelow, Covered
<1>6. BatchInv'
  <2>1. BatchEnd(current, toSlot) \in (current + 1) .. toSlot
    BY BatchEndFacts DEF BatchInv, TypeOK, Slots
  <2>2. Batch' = Batch
    BY DEF Batch, BatchEnd
  <2>3. s \in Batch
    BY DEF BatchInv
  <2>5. loaded'[s] # NoBlock \/ s \in none'
    BY <1>1 DEF TypeOK
  <2>6. \A t \in Slots : t # s => loaded'[t] = loaded[t]
    BY DEF TypeOK
  <2>7. \A t \in Slots : loaded'[t] # NoBlock => t \in Batch /\ loaded'[t].parent < t
    <3>1. loaded'[s] # NoBlock => loaded'[s].parent < s
      BY <1>1 DEF TypeOK
    <3>2. QED
      BY <2>3, <2>6, <3>1 DEF BatchInv
  <2>8. ~failed => \A t \in Batch : t \in waiting' \/ loaded'[t] # NoBlock \/ t \in none'
    <3>1. Batch \subseteq Slots
      BY <2>1 DEF Batch, BatchInv, TypeOK, Slots
    <3>2. QED
      BY <1>1, <2>5, <2>6, <3>1 DEF BatchInv
  <2>9. QED
    BY <2>2, <2>7, <2>8 DEF BatchInv
<1>7. QED
  BY <1>2, <1>3, <1>4, <1>5, <1>6

(* A failed slot leaves the batch, which is then marked as failed.         *)
LEMMA LoadBlockErrInv ==
  ASSUME LoaderInv, NEW s \in Slots, LoadBlockErr(s)
  PROVE  LoaderInv'
<1> USE ChainAssumption, LoaderAssumption
    DEF LoaderInv, LoadBlockErr, FaultAt, chainVars, cursorVars, historyVars
<1>1. TypeOK'
  <2>1. failed' \in BOOLEAN /\ inSync' \in BOOLEAN
    BY DEF TypeOK
  <2>2. QED
    BY <2>1 DEF TypeOK, ChainTypeOK
<1>2. ChainInv' /\ RecheckInv'
  BY DEF ChainInv, RecheckInv
<1>3. CursorInv'
  BY DEF CursorInv, CoveredBelow, Covered
<1>4. RowsInv'
  BY DEF RowsInv, CoveredBelow, Covered
<1>5. BatchInv'
  <2>1. Batch' = Batch
    BY DEF Batch, BatchEnd
  <2>2. QED
    BY <2>1 DEF BatchInv
<1>6. QED
  BY <1>1, <1>2, <1>3, <1>4, <1>5

(* store_blocks keeps every row and adds one for every loaded block.       *)
LEMMA StoreBlocksFacts ==
  ASSUME NEW r \in [Slots -> Rows], NEW blocks \in [Slots -> Blocks], NEW slot \in Nat
  PROVE  /\ store_blocks(r, blocks, slot) \in [Slots -> Rows]
         /\ \A s \in Slots : Has(r, s) => store_blocks(r, blocks, slot)[s] = r[s]
         /\ \A s \in Slots : blocks[s] # NoBlock => Has(store_blocks(r, blocks, slot), s)
         /\ \A s \in Slots : ~Has(r, s) /\ Has(store_blocks(r, blocks, slot), s) =>
              /\ blocks[s] # NoBlock
              /\ store_blocks(r, blocks, slot)[s].ver = blocks[s].ver
              /\ store_blocks(r, blocks, slot)[s].parent = blocks[s].parent
              /\ store_blocks(r, blocks, slot)[s].status = "Finalized" => s <= slot
BY DEF store_blocks, Has, Rows, Blocks, Statuses

(* Storing a complete batch moves the cursor over slots that are all       *)
(* covered.                                                                *)
LEMMA StoreBatchInv == LoaderInv /\ StoreBatch => LoaderInv'
<1> SUFFICES ASSUME LoaderInv, StoreBatch PROVE LoaderInv'
  OBVIOUS
<1> USE ChainAssumption, LoaderAssumption DEF LoaderInv
<1> DEFINE end == BatchEnd(current, toSlot)
<1>1. /\ rows' = store_blocks(rows, loaded, finSlot) /\ current' = end
      /\ pc = "load" /\ waiting = {} /\ ~failed
      /\ UNCHANGED <<chainVars, startedFrom, fromSlot, toSlot, finSlot, recheck,
                     updated, inSync, reorgs, faults, historyVars>>
  BY DEF StoreBatch
<1>2. /\ rows' \in [Slots -> Rows]
      /\ \A s \in Slots : Has(rows, s) => rows'[s] = rows[s]
      /\ \A s \in Slots : loaded[s] # NoBlock => Has(rows', s)
      /\ \A s \in Slots : ~Has(rows, s) /\ Has(rows', s) =>
           loaded[s] # NoBlock /\ rows'[s].parent = loaded[s].parent
  <2>1. finSlot \in Nat /\ rows \in [Slots -> Rows] /\ loaded \in [Slots -> Blocks]
    BY DEF TypeOK
  <2>2. QED
    BY <1>1, <2>1, StoreBlocksFacts
<1>3. end \in (current + 1) .. toSlot /\ end \in Slots /\ current \in Slots
  <2>1. current \in Slots /\ current \in Nat /\ toSlot \in 0 .. MaxSlot /\ current < toSlot
    BY <1>1 DEF BatchInv, TypeOK, Slots
  <2>2. end \in (current + 1) .. toSlot
    BY <2>1, BatchEndFacts
  <2>3. QED
    BY <2>1, <2>2 DEF Slots
<1>4. \A n \in 0 .. (MaxSlot + 1) : CoveredBelow(n) =>
        \A t \in StartSlot .. (n - 1) : Has(rows', t) \/ t \in none'
  <2>1. \A s \in Slots : Has(rows, s) => Has(rows', s)
    BY <1>2 DEF Has
  <2>2. none' = none
    BY <1>1 DEF historyVars
  <2>3. QED
    BY <2>1, <2>2, CoveredStays
<1>5. \A t \in StartSlot .. (end - 1) : Has(rows', t) \/ t \in none'
  <2> SUFFICES ASSUME NEW t \in StartSlot .. (end - 1)
               PROVE  Has(rows', t) \/ t \in none'
    OBVIOUS
  <2>1. t \in Slots
    BY <1>3 DEF Slots
  <2>2. CASE t < current
    BY <1>3, <1>4, <2>1, <2>2 DEF CursorInv, Slots
  <2>3. CASE t >= current
    <3>1. t \in Batch
      BY <1>3, <2>1, <2>3 DEF Batch, Slots
    <3>2. loaded[t] # NoBlock \/ t \in none
      BY <1>1, <3>1 DEF BatchInv
    <3>3. QED
      BY <1>1, <1>2, <2>1, <3>2 DEF historyVars
  <2>4. QED
    BY <1>3, <2>1, <2>2, <2>3 DEF Slots
<1>6. RowsInv'
  <2> SUFFICES ASSUME NEW s \in Slots, Has(rows', s)
               PROVE  /\ \A t \in StartSlot .. ((s + 1) - 1) :
                           Has(rows', t) \/ t \in none'
                      /\ rows'[s].parent < s
    BY DEF RowsInv, CoveredBelow, Covered
  <2>1. CASE Has(rows, s)
    BY <1>2, <1>4, <2>1 DEF RowsInv, Slots
  <2>2. CASE ~Has(rows, s)
    <3>1. s \in Batch /\ rows'[s].parent < s
      BY <1>1, <1>2, <2>2 DEF BatchInv
    <3>2. s <= end - 1
      BY <1>3, <3>1 DEF Batch, Slots
    <3>3. \A t \in StartSlot .. ((s + 1) - 1) : t \in StartSlot .. (end - 1)
      BY <1>3, <3>2 DEF Slots
    <3>4. QED
      BY <1>5, <3>1, <3>3
  <2>3. QED
    BY <2>1, <2>2
<1>7. ChainInv'
  BY <1>1 DEF ChainInv, chainVars
<1>8. RecheckInv'
  <2>1. recheck = {}
    BY <1>1 DEF RecheckInv
  <2>2. pc' # "send_event"
    BY <1>1 DEF StoreBatch
  <2>3. QED
    BY <1>1, <2>1, <2>2 DEF RecheckInv
<1>9. pc' \in {"load", "set_finalized"} /\ (pc' = "set_finalized" => end = toSlot)
  BY <1>1, <1>3 DEF StoreBatch, Slots, TypeOK
<1>10. CursorInv'
  <2>1. /\ \A t \in StartSlot .. (startedFrom - 1) : Has(rows', t) \/ t \in none'
        /\ \A t \in StartSlot .. (fromSlot - 1) : Has(rows', t) \/ t \in none'
    BY <1>4 DEF CursorInv, TypeOK
  <2>2. QED
    BY <1>1, <1>5, <1>9, <2>1 DEF CursorInv, CoveredBelow, Covered, chainVars, historyVars
<1>11. CASE end < toSlot
  <2>1. BeginBatch(end, toSlot) /\ pc' = "load"
    BY <1>1, <1>11 DEF StoreBatch
  <2>2. /\ BatchEnd(end, toSlot) \in (end + 1) .. toSlot
        /\ waiting' = end .. (BatchEnd(end, toSlot) - 1)
        /\ waiting' \subseteq Slots
        /\ loaded' \in [Slots -> Blocks]
        /\ \A s \in Slots : loaded'[s] = NoBlock
        /\ failed' = FALSE
    <3> HIDE DEF end
    <3>1. end \in Slots /\ toSlot \in 0 .. MaxSlot
      BY <1>3 DEF TypeOK
    <3>2. QED
      BY <1>11, <2>1, <3>1, BeginBatchFacts
  <2>3. TypeOK'
    <3>1. failed' \in BOOLEAN /\ inSync' \in BOOLEAN
      BY <1>1, <2>2 DEF TypeOK
    <3>2. pc' \in PCs /\ current' \in 0 .. MaxSlot
      BY <1>1, <1>3, <2>1 DEF PCs, Slots
    <3>3. QED
      BY <1>1, <1>2, <2>2, <3>1, <3>2 DEF TypeOK, ChainTypeOK, chainVars, historyVars
  <2>4. BatchInv'
    <3>1. Batch' = waiting'
      BY <1>1, <2>2 DEF Batch, BatchEnd
    <3>2. QED
      BY <1>1, <1>3, <1>11, <2>1, <2>2, <3>1 DEF BatchInv
  <2>5. QED
    BY <1>6, <1>7, <1>8, <1>10, <2>3, <2>4
<1>12. CASE ~ (end < toSlot)
  <2>1. /\ pc' = "set_finalized" /\ UNCHANGED <<waiting, failed>>
        /\ loaded' = [s \in Slots |-> NoBlock]
    BY <1>1, <1>12 DEF StoreBatch
  <2>2. TypeOK'
    <3>1. NoBlock \in Blocks
      BY DEF NoBlock, Blocks, Versions, Skipped
    <3>2. failed' \in BOOLEAN /\ inSync' \in BOOLEAN /\ loaded' \in [Slots -> Blocks]
      BY <1>1, <2>1, <3>1 DEF TypeOK
    <3>3. pc' \in PCs /\ current' \in 0 .. MaxSlot
      BY <1>1, <1>3, <2>1 DEF PCs, Slots
    <3>4. QED
      BY <1>1, <1>2, <2>1, <3>2, <3>3 DEF TypeOK, ChainTypeOK, chainVars, historyVars
  <2>3. BatchInv'
    BY <2>1 DEF BatchInv
  <2>4. QED
    BY <1>6, <1>7, <1>8, <1>10, <2>2, <2>3
<1>13. QED
  BY <1>11, <1>12

(* set_finalized_slot: only the status of Confirmed rows changes.          *)
LEMMA SetFinalizedSlotInv == LoaderInv /\ SetFinalizedSlot => LoaderInv'
<1> SUFFICES ASSUME LoaderInv, SetFinalizedSlot PROVE LoaderInv'
  OBVIOUS
<1> USE ChainAssumption, LoaderAssumption DEF LoaderInv, SetFinalizedSlot, chainVars,
        cursorVars, batchVars, historyVars
<1> DEFINE F == FinalizedFork(rows, finSlot)
<1>1. \A s \in F : s \in Slots /\ s <= finSlot /\ rows[s].status = "Confirmed"
  <2>1. /\ rows \in [Slots -> Rows] /\ finSlot \in 0 .. MaxSlot
        /\ \A s \in Slots : Has(rows, s) => rows[s].parent < s
    BY DEF TypeOK, RowsInv
  <2>2. QED
    BY <2>1, ForkBelow
<1> HIDE DEF F
<1>2. /\ rows' = [s \in Slots |-> IF s \in F
                                  THEN [rows[s] EXCEPT !.status = "Finalized"]
                                  ELSE rows[s]]
      /\ recheck' = F
  BY DEF set_finalized_slot, F
<1>3. /\ rows' \in [Slots -> Rows]
      /\ \A s \in Slots : (Has(rows', s) <=> Has(rows, s)) /\ rows'[s].parent = rows[s].parent
      /\ \A s \in F : rows'[s].status = "Finalized"
  <2>1. \A s \in Slots : rows[s] \in Rows
    BY DEF TypeOK
  <2>2. ASSUME NEW s \in Slots
        PROVE  /\ rows'[s] \in Rows /\ (Has(rows', s) <=> Has(rows, s))
               /\ rows'[s].parent = rows[s].parent
               /\ s \in F => rows'[s].status = "Finalized"
    <3>1. CASE s \in F
      BY <1>1, <1>2, <2>1, <3>1 DEF Rows, Statuses, Has
    <3>2. CASE s \notin F
      BY <1>2, <2>1, <3>2 DEF Has
    <3>3. QED
      BY <3>1, <3>2
  <2>3. rows' = [s \in Slots |-> rows'[s]]
    BY <1>2
  <2>4. QED
    BY <1>1, <2>2, <2>3
<1>4. TypeOK'
  <2>1. pc' \in PCs /\ recheck' \subseteq Slots
    BY <1>1, <1>2 DEF PCs
  <2>2. QED
    BY <1>3, <2>1 DEF TypeOK, ChainTypeOK
<1>5. ChainInv'
  BY DEF ChainInv
<1>6. \A t \in StartSlot .. MaxSlot : Covered(t)' <=> Covered(t)
  BY <1>3 DEF Covered, Slots
<1>7. CursorInv'
  BY <1>6 DEF CursorInv, CoveredBelow, TypeOK
<1>8. BatchInv'
  BY DEF BatchInv
<1>9. RowsInv'
  BY <1>3, <1>6 DEF RowsInv, CoveredBelow, Slots
<1>10. RecheckInv'
  BY <1>1, <1>2, <1>3 DEF RecheckInv
<1>11. QED
  BY <1>4, <1>5, <1>7, <1>8, <1>9, <1>10

(* The blocks found to have changed are among the rechecked ones.          *)
LEMMA RecheckAnswersInv ==
  ASSUME LoaderInv, NEW missed \in SUBSET Changed, RecheckAnswers(missed),
         faults' \in 0 .. MaxFaults
  PROVE  LoaderInv'
<1> USE ChainAssumption, LoaderAssumption DEF LoaderInv, RecheckAnswers, chainVars,
        cursorVars, batchVars
<1>1. updated' \subseteq recheck /\ missed \subseteq recheck
  BY DEF Changed
<1>2. TypeOK'
  BY <1>1 DEF TypeOK, ChainTypeOK, PCs
<1>3. ChainInv' /\ BatchInv'
  BY DEF ChainInv, BatchInv
<1>4. CursorInv'
  BY DEF CursorInv, CoveredBelow, Covered
<1>5. RowsInv'
  BY DEF RowsInv, CoveredBelow, Covered
<1>6. RecheckInv'
  BY <1>1 DEF RecheckInv
<1>7. QED
  BY <1>2, <1>3, <1>4, <1>5, <1>6

(* update_finalized_blocks overwrites only rows being rechecked, so that   *)
(* no slot loses its row; its failure falls back to a covered cursor.      *)
LEMMA UpdateFinalizedBlocksInv == LoaderInv /\ UpdateFinalizedBlocks => LoaderInv'
<1> SUFFICES ASSUME LoaderInv, UpdateFinalizedBlocks PROVE LoaderInv'
  OBVIOUS
<1> USE ChainAssumption, LoaderAssumption DEF LoaderInv
<1>1. pc = "update" /\ UNCHANGED <<chainVars, reorgs, faults>>
  BY DEF UpdateFinalizedBlocks
<1>2. reorgs' \in Seq(Slots) /\ faults' \in 0 .. MaxFaults
  BY <1>1 DEF TypeOK
<1>3. CASE EndCycle /\ UNCHANGED rows
  BY <1>1, <1>2, <1>3, EndCycleInv
<1>4. CASE ReturnErr /\ UNCHANGED rows
  BY <1>1, <1>2, <1>4, ReturnErrInv
<1>5. CASE /\ updated # {}
           /\ rows' = update_finalized_blocks(rows, updated, [s \in Slots |-> BlockAt(s)])
           /\ pc' = "send_event"
           /\ UNCHANGED <<cursorVars, batchVars, recheck, updated, inSync, historyVars>>
  <2>1. \A s \in updated : s \in Slots /\ rows[s].status = "Finalized"
    BY DEF RecheckInv, TypeOK
  <2>2. \A s \in updated : BlockAt(s) \in Blocks /\ BlockAt(s).parent < s
    BY <2>1, BlockAtFacts DEF TypeOK
  <2>3. \A s \in Slots :
          rows'[s] = IF s \in updated
                     THEN [status |-> "Finalized", ver |-> BlockAt(s).ver,
                           parent |-> BlockAt(s).parent]
                     ELSE rows[s]
    BY <1>5 DEF update_finalized_blocks
  <2>4. rows' \in [Slots -> Rows]
    <3>1. \A s \in Slots : rows'[s] \in Rows
      <4> SUFFICES ASSUME NEW s \in Slots PROVE rows'[s] \in Rows
        OBVIOUS
      <4>1. CASE s \in updated
        <5>1. BlockAt(s).ver \in Versions /\ BlockAt(s).parent \in 0 .. MaxSlot
          BY <2>2, <4>1 DEF Blocks
        <5>2. rows'[s] = [status |-> "Finalized", ver |-> BlockAt(s).ver,
                          parent |-> BlockAt(s).parent]
          BY <2>3, <4>1
        <5>3. QED
          BY <5>1, <5>2 DEF Rows, Statuses
      <4>2. CASE s \notin updated
        BY <2>3, <4>2 DEF TypeOK
      <4>3. QED
        BY <4>1, <4>2
    <3>2. rows' = [s \in Slots |-> rows'[s]]
      BY <1>5 DEF update_finalized_blocks
    <3>3. QED
      BY <3>1, <3>2
  <2>5. /\ \A s \in Slots : (Has(rows', s) <=> Has(rows, s))
        /\ \A s \in Slots : rows[s].status = "Finalized" => rows'[s].status = "Finalized"
        /\ \A s \in Slots : Has(rows, s) => rows'[s].parent < s
    <3>1. ASSUME NEW s \in Slots
          PROVE  /\ Has(rows', s) <=> Has(rows, s)
                 /\ rows[s].status = "Finalized" => rows'[s].status = "Finalized"
                 /\ Has(rows, s) => rows'[s].parent < s
      <4>1. CASE s \in updated
        <5>1. rows'[s] = [status |-> "Finalized", ver |-> BlockAt(s).ver,
                          parent |-> BlockAt(s).parent]
          BY <2>3, <4>1
        <5>2. rows'[s].status = "Finalized" /\ rows'[s].parent = BlockAt(s).parent
          BY <5>1
        <5>3. QED
          BY <2>1, <2>2, <4>1, <5>2 DEF Has
      <4>2. CASE s \notin updated
        BY <2>3, <4>2 DEF Has, RowsInv
      <4>3. QED
        BY <4>1, <4>2
    <3>2. QED
      BY <3>1
  <2>6. TypeOK'
    <3>1. pc' \in PCs
      BY <1>5 DEF PCs
    <3>2. QED
      BY <1>1, <1>5, <2>4, <3>1 DEF TypeOK, ChainTypeOK, chainVars, cursorVars, batchVars,
                                    historyVars
  <2>7. ChainInv'
    BY <1>1 DEF ChainInv, chainVars
  <2>8. \A t \in StartSlot .. MaxSlot : Covered(t)' <=> Covered(t)
    BY <1>5, <2>5 DEF Covered, Slots, historyVars
  <2>9. CursorInv'
    BY <1>1, <1>5, <2>8 DEF CursorInv, CoveredBelow, TypeOK, cursorVars, chainVars
  <2>10. BatchInv'
    BY <1>5 DEF BatchInv
  <2>11. RowsInv'
    BY <2>5, <2>8 DEF RowsInv, CoveredBelow, Slots
  <2>12. RecheckInv'
    BY <1>1, <1>5, <2>5 DEF RecheckInv, TypeOK, cursorVars
  <2>13. QED
    BY <2>6, <2>7, <2>9, <2>10, <2>11, <2>12
<1>6. QED
  BY <1>3, <1>4, <1>5 DEF UpdateFinalizedBlocks

(* The reorg event is a slot, and the cycle ends with the invariant.       *)
LEMMA SendReorgEventInv == LoaderInv /\ SendReorgEvent => LoaderInv'
<1> SUFFICES ASSUME LoaderInv, SendReorgEvent PROVE LoaderInv'
  OBVIOUS
<1>1. updated \in SUBSET Slots /\ updated # {} /\ reorgs \in Seq(Slots)
  BY DEF LoaderInv, TypeOK, RecheckInv, SendReorgEvent
<1>2. Lowest(updated) \in Slots
  BY <1>1, LowestIn
<1>3. reorgs' \in Seq(Slots)
  BY <1>1, <1>2 DEF SendReorgEvent
<1>4. QED
  BY <1>3, EndCycleInv DEF SendReorgEvent

(* A failed call, a failed slot, a crash and a restart keep the invariant. *)
LEMMA FaultStepInv == LoaderInv /\ FaultStep => LoaderInv'
<1> SUFFICES ASSUME LoaderInv, FaultStep PROVE LoaderInv'
  OBVIOUS
<1> USE ChainAssumption, LoaderAssumption
<1>1. faults \in 0 .. MaxFaults
  BY DEF LoaderInv, TypeOK
<1>2. ASSUME NEW s \in Slots, LoadBlockErr(s) \/ LoadBlockNone(s)
      PROVE  LoaderInv'
  <2>1. CASE LoadBlockErr(s)
    BY <2>1, LoadBlockErrInv
  <2>2. CASE LoadBlockNone(s)
    <3>1. Answer(s, NoBlock) /\ faults' \in 0 .. MaxFaults
      BY <1>1, <2>2 DEF LoadBlockNone, FaultAt
    <3>2. QED
      BY <3>1, AnswerInv
  <2>3. QED
    BY <1>2, <2>1, <2>2
<1>3. CASE CallFails
  <2>1. faults' \in 0 .. MaxFaults /\ UNCHANGED <<chainVars, rows, reorgs>>
    BY <1>1, <1>3 DEF CallFails, FaultAt
  <2>2. CASE /\ pc \in {"get_confirmed", "get_finalized"} /\ pc' = "get_confirmed"
             /\ UNCHANGED <<cursorVars, batchVars, recheck, updated, inSync, historyVars>>
    <3> USE DEF LoaderInv, chainVars, cursorVars, batchVars, historyVars
    <3>1. TypeOK'
      BY <2>1, <2>2 DEF TypeOK, ChainTypeOK, PCs
    <3>2. ChainInv' /\ BatchInv' /\ RecheckInv'
      BY <2>1, <2>2 DEF ChainInv, BatchInv, RecheckInv
    <3>3. CursorInv'
      BY <2>1, <2>2 DEF CursorInv, CoveredBelow, Covered
    <3>4. RowsInv'
      BY <2>1, <2>2 DEF RowsInv, CoveredBelow, Covered
    <3>5. QED
      BY <3>1, <3>2, <3>3, <3>4
  <2>3. CASE ReturnErr
    BY <2>1, <2>3, ReturnErrInv
  <2>4. QED
    BY <1>3, <2>2, <2>3 DEF CallFails
<1>4. CASE StoreFails
  <2>1. faults' \in 0 .. MaxFaults
    BY <1>1, <1>4 DEF StoreFails, FaultAt
  <2>2. QED
    BY <1>4, <2>1, ReturnErrInv DEF StoreFails
<1>5. CASE RecheckNone
  <2>1. faults' \in 0 .. MaxFaults
    BY <1>1, <1>5 DEF RecheckNone, FaultAt
  <2>2. QED
    BY <1>5, <2>1, RecheckAnswersInv DEF RecheckNone
<1>6. CASE Crash \/ ProviderPanics
  <2>1. /\ faults' \in 0 .. MaxFaults
        /\ UNCHANGED <<chainVars, rows, none>>
        /\ unrepaired' = unrepaired \cup UnderRecheck
        /\ reorgs' = << >> \/ reorgs' = reorgs
    BY <1>1, <1>6 DEF Crash, ProviderPanics, FaultAt
  <2>2. unrepaired' \subseteq Slots /\ reorgs' \in Seq(Slots)
    <3>1. /\ recheck \subseteq Slots /\ updated \subseteq Slots /\ unrepaired \subseteq Slots
          /\ reorgs \in Seq(Slots)
      BY DEF LoaderInv, TypeOK
    <3>2. << >> \in Seq(Slots)
      OBVIOUS
    <3>3. reorgs' \in Seq(Slots)
      BY <2>1, <3>1, <3>2
    <3>4. QED
      BY <2>1, <3>1, <3>3, UnderRecheckType
  <2>3. Idle("start") \/ Idle("dead")
    BY <1>6 DEF Crash, ProviderPanics
  <2>4. QED
    BY <2>1, <2>2, <2>3, IdleInv
<1>7. CASE Restart
  <2>1. /\ UNCHANGED <<chainVars, rows, none>> /\ Idle("start")
        /\ faults' \in 0 .. MaxFaults /\ reorgs' = << >>
        /\ unrepaired' \subseteq Slots
    BY <1>1, <1>7 DEF Restart, historyVars, LoaderInv, TypeOK
  <2>2. reorgs' \in Seq(Slots)
    BY <2>1
  <2>3. QED
    BY <2>1, <2>2, IdleInv
<1>8. QED
  BY <1>2, <1>3, <1>4, <1>5, <1>6, <1>7 DEF FaultStep

(* So does the chain when it moves under the loader.                       *)
LEMMA ChainStepInv == LoaderInv /\ ChainStep => LoaderInv'
<1> SUFFICES ASSUME LoaderInv, ChainStep PROVE LoaderInv'
  OBVIOUS
<1> USE ChainAssumption, LoaderAssumption
    DEF LoaderInv, ChainStep, loaderVars, cursorVars, batchVars,
        historyVars
<1>1. /\ ChainTypeOK' /\ ChainInv'
      /\ confirmed <= confirmed' /\ finalized <= finalized'
  BY ChainStepFacts DEF TypeOK
<1>2. TypeOK'
  BY <1>1 DEF TypeOK
<1>3. \A t \in StartSlot .. MaxSlot : Covered(t) => Covered(t)'
  BY DEF Covered, Has
<1>4. CursorInv'
  BY <1>1, <1>3 DEF CursorInv, CoveredBelow, TypeOK, ChainTypeOK
<1>5. RowsInv'
  <2>1. \A s \in Slots : CoveredBelow(s + 1) => CoveredBelow(s + 1)'
    BY <1>3 DEF CoveredBelow, Slots
  <2>2. QED
    BY <2>1 DEF RowsInv, Has
<1>6. BatchInv'
  <2>1. Batch' = Batch
    BY DEF Batch, BatchEnd
  <2>2. QED
    BY <1>1, <2>1 DEF BatchInv
<1>7. RecheckInv'
  BY DEF RecheckInv
<1>8. QED
  BY <1>1, <1>2, <1>4, <1>5, <1>6, <1>7

(* A step that changes nothing keeps the invariant.                        *)
LEMMA StutterInv == LoaderInv /\ UNCHANGED vars => LoaderInv'
BY DEF LoaderInv, vars, chainVars, loaderVars, cursorVars, batchVars, historyVars, TypeOK, ChainTypeOK,
       ChainInv, CursorInv, BatchInv, Batch, BatchEnd, RowsInv, RecheckInv, CoveredBelow,
       Covered, Has

(* LoaderInv is inductive: every step of Next keeps it.                    *)
LEMMA NextLoaderInv == LoaderInv /\ [Next]_vars => LoaderInv'
<1> SUFFICES ASSUME LoaderInv, [Next]_vars PROVE LoaderInv'
  OBVIOUS
<1>1. CASE LoaderStep
  <2>1. ASSUME NEW s \in Slots, LoadBlock(s)
        PROVE  LoaderInv'
    <3>1. Answer(s, BlockAt(s)) /\ faults' \in 0 .. MaxFaults
      BY <2>1 DEF LoadBlock, LoaderInv, TypeOK
    <3>2. QED
      BY <3>1, AnswerInv
  <2>2. CASE BatchFailed
    <3>1. faults' \in 0 .. MaxFaults
      BY <2>2 DEF BatchFailed, LoaderInv, TypeOK
    <3>2. QED
      BY <2>2, <3>1, ReturnErrInv DEF BatchFailed
  <2>3. CASE RecheckFinalizedBlocks
    <3>1. RecheckAnswers({}) /\ faults' \in 0 .. MaxFaults
      BY <2>3 DEF RecheckFinalizedBlocks, LoaderInv, TypeOK
    <3>2. QED
      BY <3>1, RecheckAnswersInv
  <2>4. QED
    BY <1>1, <2>1, <2>2, <2>3, StartLoadingInv, GetConfirmedInv, GetFinalizedInv,
       StoreBatchInv, SetFinalizedSlotInv, UpdateFinalizedBlocksInv, SendReorgEventInv
       DEF LoaderStep
<1>2. CASE FaultStep
  BY <1>2, FaultStepInv
<1>3. CASE ChainStep
  BY <1>3, ChainStepInv
<1>4. CASE UNCHANGED vars
  BY <1>4, StutterInv
<1>5. QED
  BY <1>1, <1>2, <1>3, <1>4 DEF Next

(* The inductive invariant holds in every reachable state.                 *)
THEOREM LoaderInvariant == Spec => []LoaderInv
<1>1. QED
  BY InitLoaderInv, NextLoaderInv, PTL DEF Spec

(* Every variable of the loader keeps its type.                            *)
THEOREM TypeCorrect == Spec => []TypeOK
<1>1. LoaderInv => TypeOK
  BY DEF LoaderInv
<1>2. QED
  BY <1>1, LoaderInvariant, PTL

(* start_loading, with failed calls, failed batches, panics, crashes and   *)
(* forks at any point, leaves a hole below its cursor or below the highest *)
(* stored slot only where the client answered Ok(None).                    *)
THEOREM NoGapsCorrect == Spec => []NoGaps
<1>1. LoaderInv => NoGaps
  <2> SUFFICES ASSUME LoaderInv PROVE NoGaps
    OBVIOUS
  <2>1. \A s \in Slots : (s + 1) - 1 = s
    BY ChainAssumption DEF Slots
  <2>2. QED
    BY <2>1 DEF LoaderInv, RowsInv, CursorInv, CoveredBelow, NoGaps
<1>2. QED
  BY <1>1, LoaderInvariant, PTL

-----------------------------------------------------------------------------
(* What a step may do to the stored rows.                                  *)

(* A step keeps every row and every Finalized mark, and changes a version  *)
(* only of a final slot, to the block of the chain.                        *)
LEMMA RowsStep ==
  ASSUME LoaderInv, Next
  PROVE  \A s \in Slots :
           /\ Has(rows, s) => Has(rows, s)'
           /\ rows[s].status = "Finalized" => rows'[s].status = "Finalized"
           /\ Has(rows, s) /\ rows'[s].ver # rows[s].ver =>
                s <= finalized /\ rows'[s].ver = chain[s]
<1> SUFFICES ASSUME NEW s \in Slots
             PROVE  /\ Has(rows, s) => Has(rows', s)
                    /\ rows[s].status = "Finalized" => rows'[s].status = "Finalized"
                    /\ Has(rows, s) /\ rows'[s].ver # rows[s].ver =>
                         s <= finalized /\ rows'[s].ver = chain[s]
  BY DEF Has
<1> USE ChainAssumption, LoaderAssumption
<1>1. CASE UNCHANGED rows
  BY <1>1
<1>2. CASE StoreBatch
  <2>1. finSlot \in Nat /\ rows \in [Slots -> Rows] /\ loaded \in [Slots -> Blocks]
    BY DEF LoaderInv, TypeOK
  <2>2. Has(rows, s) => rows'[s] = rows[s]
    BY <1>2, <2>1, StoreBlocksFacts DEF StoreBatch
  <2>3. QED
    BY <2>2 DEF Has
<1>3. CASE SetFinalizedSlot
  <2>1. rows'[s] = IF s \in FinalizedFork(rows, finSlot)
                   THEN [rows[s] EXCEPT !.status = "Finalized"] ELSE rows[s]
    BY <1>3 DEF SetFinalizedSlot, set_finalized_slot
  <2>2. rows[s] \in Rows
    BY DEF LoaderInv, TypeOK
  <2>3. CASE s \in FinalizedFork(rows, finSlot)
    BY <2>1, <2>2, <2>3 DEF Has, Rows
  <2>4. CASE s \notin FinalizedFork(rows, finSlot)
    BY <2>1, <2>4 DEF Has
  <2>5. QED
    BY <2>3, <2>4
<1>4. CASE UpdateFinalizedBlocks /\ rows' # rows
  <2>1. rows' = update_finalized_blocks(rows, updated, [t \in Slots |-> BlockAt(t)])
    BY <1>4 DEF UpdateFinalizedBlocks
  <2>2. CASE s \in updated
    <3>1. rows'[s] = [status |-> "Finalized", ver |-> BlockAt(s).ver,
                      parent |-> BlockAt(s).parent]
      BY <2>1, <2>2 DEF update_finalized_blocks
    <3>2. rows'[s].status = "Finalized" /\ rows'[s].ver = chain[s]
      BY <3>1, BlockAtFacts DEF LoaderInv, TypeOK
    <3>3. s <= finalized
      BY <2>2 DEF LoaderInv, RecheckInv, CursorInv, TypeOK, ChainTypeOK, Slots
    <3>4. QED
      BY <3>2, <3>3 DEF Has
  <2>3. CASE s \notin updated
    <3>1. rows'[s] = rows[s]
      BY <2>1, <2>3 DEF update_finalized_blocks
    <3>2. QED
      BY <3>1 DEF Has
  <2>4. QED
    BY <2>2, <2>3
<1>5. QED
  <2>1. CASE LoaderStep
    BY <1>1, <1>2, <1>3, <1>4, <2>1
       DEF LoaderStep, StartLoading, GetConfirmed, GetFinalized, LoadBlock, Answer,
           BatchFailed, RecheckFinalizedBlocks, RecheckAnswers, SendReorgEvent
  <2>2. CASE FaultStep
    BY <1>1, <2>2 DEF FaultStep, LoadBlockErr, LoadBlockNone, Answer, CallFails, StoreFails,
                      RecheckNone, RecheckAnswers, ProviderPanics, Crash, Restart
  <2>3. CASE ChainStep
    BY <1>1, <2>3 DEF ChainStep, loaderVars
  <2>4. QED
    BY <2>1, <2>2, <2>3 DEF Next

(* No step of the loader loses a row or a Finalized mark, and a stored     *)
(* block is replaced only by the block the chain has finalized there.      *)
THEOREM RowsOnlyGrowCorrect == Spec => RowsOnlyGrow
<1> DEFINE Grows == \A s \in Slots :
       /\ Has(rows, s) => Has(rows, s)'
       /\ rows[s].status = "Finalized" => rows'[s].status = "Finalized"
       /\ Has(rows, s) /\ rows'[s].ver # rows[s].ver =>
            s <= finalized /\ rows'[s].ver = chain[s]
<1>1. LoaderInv /\ [Next]_vars => [Grows]_rows
  BY RowsStep DEF vars, loaderVars
<1>2. QED
  BY <1>1, LoaderInvariant, PTL DEF Spec, RowsOnlyGrow
-----------------------------------------------------------------------------
(* Freshness of the Finalized rows.                                        *)

(* A step that leaves chain and rows alone and does not leave a recheck    *)
(* without recording its slots keeps FreshInv, when it starts or keeps no  *)
(* loaded block.                                                           *)
LEMMA FreshKept ==
  ASSUME FreshInv, UNCHANGED <<chainVars, rows>>,
         \A s \in UnderRecheck : s \in unrepaired',
         unrepaired \subseteq unrepaired',
         pc' = "load" => \A s \in Slots : loaded'[s] # NoBlock /\ s <= finSlot' =>
                                            loaded'[s].ver = chain[s]
  PROVE  FreshInv'
BY DEF FreshInv, FinalizedRowsFresh, Fresh, chainVars

(* FreshInv is inductive next to LoaderInv.                                *)
LEMMA NextFreshInv ==
  ASSUME LoaderInv, FreshInv, Next
  PROVE  FreshInv'
<1> USE ChainAssumption, LoaderAssumption
<1>1. CASE StartLoading \/ GetConfirmed \/ GetFinalized
  <2>1. /\ UNCHANGED <<chainVars, rows>>
        /\ UnderRecheck = {} /\ unrepaired' = unrepaired
    BY <1>1 DEF StartLoading, GetConfirmed, GetFinalized, UnderRecheck, historyVars
  <2>2. pc' = "load" => \A s \in Slots : loaded'[s] = NoBlock
    BY <1>1 DEF StartLoading, GetConfirmed, GetFinalized, BeginBatch
  <2>3. QED
    BY <2>1, <2>2, FreshKept
<1>2. ASSUME NEW s \in Slots, NEW block \in {BlockAt(s), NoBlock}, Answer(s, block)
      PROVE  FreshInv'
  <2>1. /\ UNCHANGED <<chainVars, rows, pc, finSlot, unrepaired>> /\ pc = "load"
        /\ loaded' = [loaded EXCEPT ![s] = block]
    BY <1>2 DEF Answer, cursorVars
  <2>2. block # NoBlock => block.ver = chain[s]
    BY BlockAtFacts DEF LoaderInv, TypeOK
  <2>3. \A t \in Slots : loaded'[t] # NoBlock /\ t <= finSlot => loaded'[t].ver = chain[t]
    BY <2>1, <2>2 DEF FreshInv, LoaderInv, TypeOK
  <2>4. UnderRecheck = {}
    BY <2>1 DEF UnderRecheck
  <2>5. QED
    BY <2>1, <2>3, <2>4, FreshKept
<1>3. ASSUME NEW s \in Slots, LoadBlockErr(s) PROVE FreshInv'
  <2>1. UNCHANGED <<chainVars, rows, pc, finSlot, loaded, unrepaired>> /\ pc = "load"
    BY <1>3 DEF LoadBlockErr, cursorVars, historyVars
  <2>2. UnderRecheck = {}
    BY <2>1 DEF UnderRecheck
  <2>3. QED
    BY <2>1, <2>2, FreshKept DEF FreshInv
<1>4. CASE BatchFailed \/ StoreFails
  <2>1. /\ UNCHANGED <<chainVars, rows>> /\ pc' # "load"
        /\ unrepaired' = unrepaired \cup UnderRecheck
    BY <1>4 DEF BatchFailed, StoreFails, ReturnErr
  <2>2. QED
    BY <2>1, FreshKept
<1>5. CASE StoreBatch
  <2>1. /\ rows' = store_blocks(rows, loaded, finSlot)
        /\ UNCHANGED <<chainVars, finSlot, unrepaired>> /\ pc = "load"
        /\ pc' \in {"load", "set_finalized"}
        /\ \A s \in Slots : loaded'[s] = NoBlock
    BY <1>5 DEF StoreBatch, BeginBatch, historyVars
  <2>2. finSlot \in Nat /\ rows \in [Slots -> Rows] /\ loaded \in [Slots -> Blocks]
    BY DEF LoaderInv, TypeOK
  <2>3. /\ rows' \in [Slots -> Rows]
        /\ \A s \in Slots : Has(rows, s) => rows'[s] = rows[s]
        /\ \A s \in Slots : ~Has(rows, s) /\ Has(rows', s) =>
             /\ loaded[s] # NoBlock
             /\ rows'[s].ver = loaded[s].ver
             /\ rows'[s].status = "Finalized" => s <= finSlot
    BY <2>1, <2>2, StoreBlocksFacts
  <2>4. ASSUME NEW s \in Slots, rows'[s].status = "Finalized"
        PROVE  s <= finalized /\ (chain[s] \in {Skipped, rows'[s].ver} \/ s \in unrepaired)
    <3>1. CASE Has(rows, s)
      BY <2>1, <2>3, <2>4, <3>1 DEF FreshInv, FinalizedRowsFresh, Fresh, UnderRecheck
    <3>2. CASE ~Has(rows, s)
      <4>1. loaded[s] # NoBlock /\ rows'[s].ver = loaded[s].ver /\ s <= finSlot
        BY <2>3, <2>4, <3>2 DEF Has
      <4>2. loaded[s].ver = chain[s]
        BY <2>1, <4>1 DEF FreshInv
      <4>3. s <= finalized
        BY <4>1 DEF LoaderInv, CursorInv, TypeOK, ChainTypeOK, Slots
      <4>4. QED
        BY <4>1, <4>2, <4>3
    <3>3. QED
      BY <3>1, <3>2
  <2>5. QED
    BY <2>1, <2>4 DEF FreshInv, FinalizedRowsFresh, Fresh, chainVars
<1>6. CASE SetFinalizedSlot
  <2>1. /\ rows' = set_finalized_slot(rows, finSlot) /\ recheck' = FinalizedFork(rows, finSlot)
        /\ pc = "set_finalized" /\ pc' = "recheck" /\ UNCHANGED <<chainVars, unrepaired>>
    BY <1>6 DEF SetFinalizedSlot, historyVars
  <2>2. \A s \in FinalizedFork(rows, finSlot) : s <= finalized
    <3>1. /\ rows \in [Slots -> Rows] /\ finSlot \in 0 .. MaxSlot
          /\ \A s \in Slots : Has(rows, s) => rows[s].parent < s
      BY DEF LoaderInv, TypeOK, RowsInv
    <3>2. \A s \in FinalizedFork(rows, finSlot) : s \in Slots /\ s <= finSlot
      BY <3>1, ForkBelow
    <3>3. QED
      BY <3>2 DEF LoaderInv, CursorInv, TypeOK, ChainTypeOK, Slots
  <2>3. \A s \in Slots : s \notin FinalizedFork(rows, finSlot) => rows'[s] = rows[s]
    BY <2>1 DEF set_finalized_slot
  <2>4. UnderRecheck = {} /\ UnderRecheck' = FinalizedFork(rows, finSlot)
    BY <2>1 DEF UnderRecheck
  <2>5. QED
    BY <2>1, <2>2, <2>3, <2>4 DEF FreshInv, FinalizedRowsFresh, Fresh, chainVars
<1>7. ASSUME NEW missed \in SUBSET Changed, RecheckAnswers(missed)
      PROVE  FreshInv'
  <2>1. /\ updated' = Changed \ missed /\ unrepaired' = unrepaired \cup missed
        /\ pc = "recheck" /\ pc' = "update" /\ UNCHANGED <<chainVars, rows>>
    BY <1>7 DEF RecheckAnswers
  <2>2. UnderRecheck = recheck /\ UnderRecheck' = updated'
    BY <2>1 DEF UnderRecheck
  <2>3. \A s \in Slots : s \in recheck => Fresh(s) \/ s \in updated' \/ s \in unrepaired'
    <3> SUFFICES ASSUME NEW s \in Slots, s \in recheck, s \notin Changed PROVE Fresh(s)
      BY <2>1
    <3>1. BlockAt(s).ver = chain[s] /\ (BlockAt(s) = NoBlock <=> chain[s] = Skipped)
      BY BlockAtFacts DEF LoaderInv, TypeOK
    <3>2. QED
      BY <3>1 DEF Fresh, Changed
  <2>4. QED
    BY <2>1, <2>2, <2>3 DEF FreshInv, FinalizedRowsFresh, Fresh, chainVars
<1>8. CASE UpdateFinalizedBlocks
  <2>1. pc = "update" /\ UNCHANGED chainVars /\ UnderRecheck = updated
    BY <1>8 DEF UpdateFinalizedBlocks, UnderRecheck
  <2>2. CASE updated = {}
    <3>1. UNCHANGED <<rows, unrepaired>> /\ pc' = "get_confirmed"
      BY <1>8, <2>2 DEF UpdateFinalizedBlocks, EndCycle, historyVars
    <3>2. QED
      BY <2>1, <2>2, <3>1, FreshKept
  <2>3. CASE updated # {} /\ ~UpsertWorks
    <3>1. UNCHANGED rows /\ pc' # "load" /\ unrepaired' = unrepaired \cup UnderRecheck
      BY <1>8, <2>3 DEF UpdateFinalizedBlocks, ReturnErr
    <3>2. QED
      BY <2>1, <3>1, FreshKept
  <2>4. CASE updated # {} /\ UpsertWorks
    <3>1. /\ rows' = update_finalized_blocks(rows, updated, [s \in Slots |-> BlockAt(s)])
          /\ pc' = "send_event" /\ unrepaired' = unrepaired
      BY <1>8, <2>4 DEF UpdateFinalizedBlocks, historyVars
    <3>2. ASSUME NEW s \in Slots, rows'[s].status = "Finalized"
          PROVE  s <= finalized /\ (chain[s] \in {Skipped, rows'[s].ver} \/ s \in unrepaired)
      <4>1. CASE s \in updated
        <5>1. rows'[s] = [status |-> "Finalized", ver |-> BlockAt(s).ver,
                          parent |-> BlockAt(s).parent]
          BY <3>1, <4>1 DEF update_finalized_blocks
        <5>2. rows'[s].ver = chain[s]
          BY <5>1, BlockAtFacts DEF LoaderInv, TypeOK
        <5>3. s <= finalized
          BY <4>1 DEF LoaderInv, RecheckInv, CursorInv, TypeOK, ChainTypeOK, Slots
        <5>4. QED
          BY <5>2, <5>3
      <4>2. CASE s \notin updated
        <5>1. rows'[s] = rows[s]
          BY <3>1, <4>2 DEF update_finalized_blocks
        <5>2. QED
          BY <2>1, <3>2, <4>2, <5>1 DEF FreshInv, FinalizedRowsFresh, Fresh
      <4>3. QED
        BY <4>1, <4>2
    <3>3. QED
      BY <2>1, <3>1, <3>2 DEF FreshInv, FinalizedRowsFresh, Fresh, chainVars
  <2>5. QED
    BY <2>2, <2>3, <2>4 DEF LoaderAssumption
<1>9. CASE SendReorgEvent
  <2>1. /\ UNCHANGED <<chainVars, rows, unrepaired>> /\ pc' = "get_confirmed"
        /\ UnderRecheck = {}
    BY <1>9 DEF SendReorgEvent, EndCycle, historyVars, UnderRecheck
  <2>2. QED
    BY <2>1, FreshKept
<1>10. CASE CallFails \/ Crash \/ ProviderPanics \/ Restart
  <2>1. UNCHANGED <<chainVars, rows>> /\ pc' # "load"
    BY <1>10 DEF CallFails, Crash, ProviderPanics, Restart, Idle, ReturnErr
  <2>2. unrepaired \subseteq unrepaired' /\ \A s \in UnderRecheck : s \in unrepaired'
    <3>1. CASE unrepaired' = unrepaired \cup UnderRecheck
      BY <3>1
    <3>2. CASE unrepaired' = unrepaired /\ pc \notin {"recheck", "update"}
      BY <3>2 DEF UnderRecheck
    <3>3. QED
      BY <1>10, <3>1, <3>2
         DEF CallFails, Crash, ProviderPanics, Restart, ReturnErr, historyVars
  <2>3. QED
    BY <2>1, <2>2, FreshKept
<1>11. CASE ChainStep
  <2>1. /\ finalized <= finalized' /\ finalized \in Nat /\ finalized' \in Nat
        /\ \A s \in Slots : s <= finalized => chain'[s] = chain[s]
    BY <1>11, ChainStepFacts DEF ChainStep, LoaderInv, TypeOK, ChainTypeOK
  <2>2. finSlot <= finalized /\ finSlot \in Nat
    BY DEF LoaderInv, CursorInv, TypeOK
  <2>3. UNCHANGED <<rows, pc, recheck, updated, loaded, finSlot, unrepaired>>
    BY <1>11 DEF ChainStep, loaderVars, cursorVars, batchVars, historyVars
  <2>4. UnderRecheck' = UnderRecheck
    BY <2>3 DEF UnderRecheck
  <2>5. \A s \in Slots : s \in Nat
    BY DEF Slots
  <2>6. QED
    BY <2>1, <2>2, <2>3, <2>4, <2>5 DEF FreshInv, FinalizedRowsFresh, Fresh
<1>12. CASE LoaderStep
  BY <1>1, <1>2, <1>4, <1>5, <1>6, <1>7, <1>8, <1>9, <1>12
     DEF LoaderStep, LoadBlock, RecheckFinalizedBlocks
<1>13. CASE FaultStep
  BY <1>2, <1>3, <1>4, <1>7, <1>10, <1>13 DEF FaultStep, LoadBlockNone, RecheckNone
<1>14. QED
  BY <1>11, <1>12, <1>13 DEF Next

(* Whatever fails, whatever the client answers Ok(None) to and whether or  *)
(* not update_finalized_blocks works: a row marked Finalized holds the     *)
(* block the chain has finalized, unless its recheck is under way or was   *)
(* cut off.  Storing a block as Finalized at once, marking it, and a       *)
(* recheck that comes to its end leave no stale row behind.                *)
THEOREM FinalizedRowsFreshCorrect == Spec => []FinalizedRowsFresh
<1>1. Init => FreshInv
  BY DEF Init, FreshInv, FinalizedRowsFresh, EmptyTable, NoRow
<1>2. LoaderInv /\ FreshInv /\ [Next]_vars => FreshInv'
  <2>1. LoaderInv /\ FreshInv /\ Next => FreshInv'
    BY NextFreshInv
  <2>2. FreshInv /\ UNCHANGED vars => FreshInv'
    BY DEF FreshInv, FinalizedRowsFresh, UnderRecheck, Fresh, vars, chainVars, loaderVars,
           cursorVars, batchVars, historyVars
  <2>3. QED
    BY <2>1, <2>2
<1>3. FreshInv => FinalizedRowsFresh
  BY DEF FreshInv
<1>4. QED
  BY <1>1, <1>2, <1>3, LoaderInvariant, PTL DEF Spec
=============================================================================
