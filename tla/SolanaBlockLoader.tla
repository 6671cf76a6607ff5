-------------------------- MODULE SolanaBlockLoader --------------------------
(***************************************************************************)
(* SolanaBlockLoader::start_loading: the task that copies confirmed Solana *)
(* blocks into the block storage, marks them Finalized, rechecks the newly *)
(* finalized ones against the chain and announces the changed ones on the  *)
(* reorg channel.                                                          *)
(*                                                                         *)
(* Every await of the task is a step of its own, so that the chain can     *)
(* move, an RPC or database call can fail and the process can be killed    *)
(* between any two of them.  The storage survives a crash; the cursor, the *)
(* batch in flight and the channel do not.                                 *)
(*                                                                         *)
(* The client (SolanaClient!process_plex_result) makes Ok(None) of an      *)
(* unreadable response, of code -32007 and of every RPC error that is not  *)
(* a response error, whether or not the slot has a block, and panics on    *)
(* -32011.  An Ok(None) for a slot with a block and a panic are faults     *)
(* here, as a failed call is.                                              *)
(*                                                                         *)
(* UpsertWorks chooses what update_finalized_blocks does with a non-empty  *)
(* map: TRUE is the contract of the SolanaBlockStorage trait; FALSE is the *)
(* PostgreSQL implementation, whose CALL binds the previous blockhash as   *)
(* text where update_finalized_block2 takes a BIGINT timestamp (and whose  *)
(* ON CONFLICT DO UPDATE names no conflict target), so it returns Err.     *)
(***************************************************************************)
EXTENDS SolanaBlockStorage, Sequences

CONSTANTS
  StartSlot,    \* start_slot of the configuration
  BatchSize,    \* batch_size
  MaxLag,       \* how far behind the chain the answering provider may be
  MaxFaults,    \* bound on failed calls and crashes
  FaultPoints,  \* the program points at which calls fail and crashes happen
  UpsertWorks

PCs == {"start", "get_confirmed", "get_finalized", "load", "set_finalized",
        "recheck", "update", "send_event", "dead"}

ASSUME LoaderAssumption ==
  /\ StartSlot \in Slots
  /\ BatchSize \in Nat \ {0}
  /\ MaxLag \in Nat
  /\ MaxFaults \in Nat
  /\ FaultPoints \subseteq PCs
  /\ UpsertWorks \in BOOLEAN

VARIABLES
  rows,         \* the storage (durable)
  pc,
  startedFrom,  \* from_slot of start_loading
  fromSlot,     \* from_slot of preload_blocks_until_in_sync
  current,      \* current_slot
  toSlot,       \* confirmed slot read by get_latest_slots
  finSlot,      \* finalized slot read by get_latest_slots
  waiting,      \* slots of the batch whose load_block has not answered
  loaded,       \* the answers of the batch
  failed,       \* some load_block of the batch answered Err
  recheck,      \* blocks returned by set_finalized_slot
  updated,      \* updated_blocks of recheck_finalized_blocks
  inSync,       \* the first synchronisation has completed
  reorgs,       \* reorg_event channel
  faults,       \* failures so far
  none,         \* history: slots a load_block answered Ok(None) for
  unrepaired    \* history: slots marked Finalized whose recheck was not
                \* brought to its end

batchVars == <<waiting, loaded, failed>>
cursorVars == <<startedFrom, fromSlot, current, toSlot, finSlot>>
historyVars == <<none, unrepaired>>
loaderVars == <<rows, pc, cursorVars, batchVars, recheck, updated, inSync,
                reorgs, faults, historyVars>>
vars == <<chainVars, loaderVars>>

TypeOK ==
  /\ ChainTypeOK
  /\ rows \in [Slots -> Rows]
  /\ pc \in PCs
  /\ startedFrom \in 0 .. MaxSlot
  /\ fromSlot \in 0 .. MaxSlot
  /\ current \in 0 .. MaxSlot
  /\ toSlot \in 0 .. MaxSlot
  /\ finSlot \in 0 .. MaxSlot
  /\ waiting \subseteq Slots
  /\ loaded \in [Slots -> Blocks]
  /\ failed \in BOOLEAN
  /\ recheck \subseteq Slots
  /\ updated \subseteq Slots
  /\ inSync \in BOOLEAN
  /\ reorgs \in Seq(Slots)
  /\ faults \in 0 .. MaxFaults
  /\ none \subseteq Slots
  /\ unrepaired \subseteq Slots

-----------------------------------------------------------------------------

(* The locals of the task are gone.                                        *)
Idle(point) ==
  /\ pc' = point
  /\ startedFrom' = 0 /\ fromSlot' = 0 /\ current' = 0
  /\ toSlot' = 0 /\ finSlot' = 0
  /\ waiting' = {} /\ loaded' = [s \in Slots |-> NoBlock] /\ failed' = FALSE
  /\ recheck' = {} /\ updated' = {}
  /\ inSync' = FALSE

Init ==
  /\ ChainInit
  /\ rows = EmptyTable
  /\ pc = "start"
  /\ startedFrom = 0 /\ fromSlot = 0 /\ current = 0 /\ toSlot = 0 /\ finSlot = 0
  /\ waiting = {} /\ loaded = [s \in Slots |-> NoBlock] /\ failed = FALSE
  /\ recheck = {} /\ updated = {}
  /\ inSync = FALSE
  /\ reorgs = << >>
  /\ faults = 0
  /\ none = {} /\ unrepaired = {}

(* A call fails, or a provider answers what it should not, where faults    *)
(* are allowed.                                                            *)
FaultAt(point) ==
  /\ point \in FaultPoints
  /\ faults < MaxFaults /\ faults' = faults + 1

(* The slots marked Finalized whose comparison or reload is under way.     *)
UnderRecheck ==
  CASE pc = "recheck" -> recheck
    [] pc = "update"  -> updated
    [] OTHER          -> {}

(* An Err returned by preload_blocks_until_in_sync.  During the first      *)
(* synchronisation it ends the task; later the loop starts over from the   *)
(* slot of the last successful synchronisation.                            *)
ReturnErr ==
  /\ IF inSync
     THEN pc' = "get_confirmed" /\ fromSlot' = startedFrom
     ELSE pc' = "dead" /\ UNCHANGED fromSlot
  /\ waiting' = {} /\ failed' = FALSE
  /\ loaded' = [s \in Slots |-> NoBlock]
  /\ recheck' = {} /\ updated' = {}
  /\ unrepaired' = unrepaired \cup UnderRecheck
  /\ UNCHANGED <<startedFrom, current, toSlot, finSlot, inSync, none>>

(* Mutant of EndCycle: the next cycle starts after the slot it has to load *)
(* first.                                                                  *)
EndCycleSkipsTip ==
  /\ pc' = "get_confirmed"
  /\ recheck' = {} /\ updated' = {}
  /\ IF fromSlot < toSlot
     THEN fromSlot' = toSlot + 1 /\ UNCHANGED <<startedFrom, inSync>>
     ELSE startedFrom' = fromSlot /\ inSync' = TRUE /\ UNCHANGED fromSlot
  /\ UNCHANGED <<current, toSlot, finSlot, batchVars, historyVars>>

(* The end of update_finalized_slot: the next iteration of the loop, or    *)
(* the return to start_loading when nothing was left to load.              *)
EndCycle ==
  /\ pc' = "get_confirmed"
  /\ recheck' = {} /\ updated' = {}
  /\ IF fromSlot < toSlot
     THEN fromSlot' = toSlot /\ UNCHANGED <<startedFrom, inSync>>
     ELSE startedFrom' = fromSlot /\ inSync' = TRUE /\ UNCHANGED fromSlot
  /\ UNCHANGED <<current, toSlot, finSlot, batchVars, historyVars>>

(* Mutant of BatchEnd: the last batch is not cut to the range.             *)
BatchEndUncut(from, max) == from + BatchSize

BatchEnd(from, max) ==
  IF max - from < BatchSize THEN max ELSE from + BatchSize

BeginBatch(from, max) ==
  /\ waiting' = from .. (BatchEnd(from, max) - 1)
  /\ loaded' = [s \in Slots |-> NoBlock]
  /\ failed' = FALSE

-----------------------------------------------------------------------------

StartLoading ==
  /\ pc = "start"
  /\ LET first == IF get_last_slot(rows) # 0 THEN get_last_slot(rows) ELSE StartSlot
     IN  startedFrom' = first /\ fromSlot' = first
  /\ pc' = "get_confirmed"
  /\ UNCHANGED <<chainVars, rows, current, toSlot, finSlot, batchVars, recheck,
                 updated, inSync, reorgs, faults, historyVars>>

(* get_latest_slots asks for the two slots one after the other, and each   *)
(* answer comes from the provider that responds first.                     *)
GetConfirmed ==
  /\ pc = "get_confirmed"
  /\ \E slot \in 0 .. confirmed :
       /\ Reported(slot) /\ slot + MaxLag >= confirmed
       /\ toSlot' = slot
  /\ pc' = "get_finalized"
  /\ UNCHANGED <<chainVars, rows, startedFrom, fromSlot, current, finSlot,
                 batchVars, recheck, updated, inSync, reorgs, faults, historyVars>>

GetFinalized ==
  /\ pc = "get_finalized"
  /\ \E slot \in 0 .. finalized :
       /\ Reported(slot) /\ slot + MaxLag >= finalized
       /\ finSlot' = slot
  /\ IF fromSlot < toSlot
     THEN /\ pc' = "load"
          /\ current' = fromSlot
          /\ BeginBatch(fromSlot, toSlot)
     ELSE pc' = "set_finalized" /\ UNCHANGED <<current, batchVars>>
  /\ UNCHANGED <<chainVars, rows, startedFrom, fromSlot, toSlot, recheck,
                 updated, inSync, reorgs, faults, historyVars>>

(* One load_block of the batch answers.                                    *)
Answer(s, block) ==
  /\ pc = "load"
  /\ s \in waiting
  /\ waiting' = waiting \ {s}
  /\ loaded' = [loaded EXCEPT ![s] = block]
  /\ none' = IF block = NoBlock THEN none \cup {s} ELSE none
  /\ UNCHANGED <<chainVars, rows, pc, cursorVars, failed, recheck, updated,
                 inSync, reorgs, unrepaired>>

LoadBlock(s) == Answer(s, BlockAt(s)) /\ UNCHANGED faults

(* The slot has a block, and the client answers Ok(None).                  *)
LoadBlockNone(s) ==
  /\ BlockAt(s) # NoBlock
  /\ Answer(s, NoBlock)
  /\ FaultAt("load")

LoadBlockErr(s) ==
  /\ pc = "load" /\ FaultAt("load")
  /\ s \in waiting
  /\ waiting' = waiting \ {s}
  /\ failed' = TRUE
  /\ UNCHANGED <<chainVars, rows, pc, cursorVars, loaded, recheck, updated,
                 inSync, reorgs, historyVars>>

(* load_blocks: one failed slot fails the whole batch.                     *)
BatchFailed ==
  /\ pc = "load" /\ waiting = {} /\ failed
  /\ ReturnErr
  /\ UNCHANGED <<chainVars, rows, reorgs, faults>>

(* Mutant of StoreBatch: a failed slot is dropped from the batch.          *)
StoreBatchPartial ==
  /\ pc = "load" /\ waiting = {}
  /\ rows' = store_blocks(rows, loaded, finSlot)
  /\ current' = BatchEnd(current, toSlot)
  /\ IF BatchEnd(current, toSlot) < toSlot
     THEN BeginBatch(BatchEnd(current, toSlot), toSlot) /\ UNCHANGED pc
     ELSE /\ pc' = "set_finalized"
          /\ loaded' = [s \in Slots |-> NoBlock]
          /\ UNCHANGED <<waiting, failed>>
  /\ UNCHANGED <<chainVars, startedFrom, fromSlot, toSlot, finSlot, recheck,
                 updated, inSync, reorgs, faults, historyVars>>

StoreBatch ==
  /\ pc = "load" /\ waiting = {} /\ ~failed
  /\ rows' = store_blocks(rows, loaded, finSlot)
  /\ current' = BatchEnd(current, toSlot)
  /\ IF BatchEnd(current, toSlot) < toSlot
     THEN BeginBatch(BatchEnd(current, toSlot), toSlot) /\ UNCHANGED pc
     ELSE /\ pc' = "set_finalized"
          /\ loaded' = [s \in Slots |-> NoBlock]
          /\ UNCHANGED <<waiting, failed>>
  /\ UNCHANGED <<chainVars, startedFrom, fromSlot, toSlot, finSlot, recheck,
                 updated, inSync, reorgs, faults, historyVars>>

SetFinalizedSlot ==
  /\ pc = "set_finalized"
  /\ rows' = set_finalized_slot(rows, finSlot)
  /\ recheck' = FinalizedFork(rows, finSlot)
  /\ pc' = "recheck"
  /\ UNCHANGED <<chainVars, cursorVars, batchVars, updated, inSync, reorgs, faults,
                 historyVars>>

(* Mutant of Changed: the parent is compared, not the hash.                *)
ChangedByParent ==
  {s \in recheck : BlockAt(s) # NoBlock /\ BlockAt(s).parent # rows[s].parent}

(* The blocks whose stored hash is not the one on the chain.               *)
Changed == {s \in recheck : BlockAt(s) # NoBlock /\ BlockAt(s).ver # rows[s].ver}

(* recheck_finalized_block for every newly finalized block, at commitment  *)
(* Finalized.  The slots are final, so the answers do not depend on when   *)
(* each of them arrives.  A block counts as unchanged when the first or    *)
(* the second call (load_block) answers Ok(None).                          *)
RecheckAnswers(missed) ==
  /\ pc = "recheck"
  /\ updated' = Changed \ missed
  /\ unrepaired' = unrepaired \cup missed
  /\ pc' = "update"
  /\ UNCHANGED <<chainVars, rows, cursorVars, batchVars, recheck, inSync, reorgs, none>>

RecheckFinalizedBlocks == RecheckAnswers({}) /\ UNCHANGED faults

RecheckNone ==
  /\ \E missed \in SUBSET Changed : missed # {} /\ RecheckAnswers(missed)
  /\ FaultAt("recheck")

UpdateFinalizedBlocks ==
  /\ pc = "update"
  /\ \/ /\ updated = {}
        /\ EndCycle
        /\ UNCHANGED rows
     \/ /\ updated # {} /\ UpsertWorks
        /\ rows' = update_finalized_blocks(rows, updated, [s \in Slots |-> BlockAt(s)])
        /\ pc' = "send_event"
        /\ UNCHANGED <<cursorVars, batchVars, recheck, updated, inSync, historyVars>>
     \/ /\ updated # {} /\ ~UpsertWorks
        /\ ReturnErr
        /\ UNCHANGED rows
  /\ UNCHANGED <<chainVars, reorgs, faults>>

Lowest(S) == CHOOSE s \in S : \A t \in S : s <= t

SendReorgEvent ==
  /\ pc = "send_event"
  /\ reorgs' = Append(reorgs, Lowest(updated))
  /\ EndCycle
  /\ UNCHANGED <<chainVars, rows, faults>>

(* A failed call other than load_block: a failure of get_latest_slots is   *)
(* retried after a pause, a failure of get_last_slot ends the task, every  *)
(* other one is returned.                                                  *)
CallFails ==
  /\ pc \notin {"load", "send_event", "dead"} /\ FaultAt(pc)
  /\ \/ /\ pc \in {"get_confirmed", "get_finalized"}
        /\ pc' = "get_confirmed"
        /\ UNCHANGED <<cursorVars, batchVars, recheck, updated, inSync, historyVars>>
     \/ /\ pc \notin {"get_confirmed", "get_finalized"}
        /\ ReturnErr
  /\ UNCHANGED <<chainVars, rows, reorgs>>

StoreFails ==
  /\ pc = "load" /\ waiting = {} /\ ~failed /\ FaultAt("load")
  /\ ReturnErr
  /\ UNCHANGED <<chainVars, rows, reorgs>>

(* A provider answers -32011: process_plex_result panics, which ends the   *)
(* task in any of its loops.                                               *)
ProviderPanics ==
  /\ pc \in {"load", "recheck"} /\ FaultAt(pc)
  /\ pc = "load" => waiting # {}
  /\ Idle("dead")
  /\ unrepaired' = unrepaired \cup UnderRecheck
  /\ UNCHANGED <<chainVars, rows, reorgs, none>>

(* The process is killed; the same step restarts it.                       *)
Crash ==
  /\ pc \notin {"start", "dead"} /\ FaultAt(pc)
  /\ Idle("start") /\ reorgs' = << >>
  /\ unrepaired' = unrepaired \cup UnderRecheck
  /\ UNCHANGED <<chainVars, rows, none>>

(* A supervisor restarts the process after the task has ended.             *)
Restart ==
  /\ pc = "dead"
  /\ Idle("start") /\ reorgs' = << >>
  /\ UNCHANGED <<chainVars, rows, faults, historyVars>>

LoaderStep ==
  \/ StartLoading \/ GetConfirmed \/ GetFinalized
  \/ \E s \in Slots : LoadBlock(s)
  \/ BatchFailed \/ StoreBatch \/ SetFinalizedSlot
  \/ RecheckFinalizedBlocks \/ UpdateFinalizedBlocks \/ SendReorgEvent

FaultStep ==
  \/ \E s \in Slots : LoadBlockErr(s) \/ LoadBlockNone(s)
  \/ CallFails \/ StoreFails \/ RecheckNone \/ ProviderPanics \/ Crash \/ Restart

ChainStep == ChainNext /\ UNCHANGED loaderVars

Next == LoaderStep \/ FaultStep \/ ChainStep

Spec == Init /\ [][Next]_vars

(* The task is polled by the runtime, so its own steps do not wait forever.*)
FairSpec == Spec /\ WF_vars(LoaderStep)

-----------------------------------------------------------------------------

(* Below the storage's highest block and below the loader's cursor no slot *)
(* is left out by the loader: each one is stored, or the client answered   *)
(* Ok(None) for it, which the code takes for a skipped slot.  A restart    *)
(* continues from the highest stored block, so a hole left below it would  *)
(* never be filled: a slot whose load failed, or that a failed batch or a  *)
(* crash left behind, has to be asked for again first.                     *)
Covered(s) == Has(rows, s) \/ s \in none

NoGaps ==
  /\ \A s \in Slots : Has(rows, s) => \A t \in StartSlot .. s : Covered(t)
  /\ pc \in {"load", "set_finalized"} => \A t \in StartSlot .. (current - 1) : Covered(t)

(* A stored block that is marked Finalized is the block the chain          *)
(* finalized on that slot (or the chain finalized none there), unless its  *)
(* recheck is under way, or was not brought to its end: a call of it       *)
(* failed or was answered Ok(None), update_finalized_blocks failed, or the *)
(* process ended before it.  Such a block is never rechecked again.        *)
Fresh(s) == chain[s] \in {Skipped, rows[s].ver}

FinalizedRowsFresh ==
  \A s \in Slots :
    rows[s].status = "Finalized" => Fresh(s) \/ s \in UnderRecheck \/ s \in unrepaired

(* "Reloads any Solana blocks whose block hashes have changed since their  *)
(* initial loading" (update_finalized_slot): outside of a recheck, a block *)
(* marked Finalized is the chain's.                                        *)
ChangedBlocksReloaded ==
  \A s \in Slots : rows[s].status = "Finalized" => Fresh(s) \/ s \in UnderRecheck

(* The same for all stored blocks at or below the finalized slot that the  *)
(* loader has processed, also for those it has not marked.                 *)
BlocksBelowFinalFresh ==
  inSync /\ pc = "get_confirmed" /\ finSlot \in Slots /\ Has(rows, finSlot) =>
    \A s \in Slots : Has(rows, s) /\ s <= finSlot => Fresh(s)

(* A block that is stored and not Finalized is never replaced, a Finalized *)
(* one is replaced only by update_finalized_blocks, and neither goes back. *)
RowsOnlyGrow ==
  [][\A s \in Slots :
       /\ Has(rows, s) => Has(rows, s)'
       /\ rows[s].status = "Finalized" => rows'[s].status = "Finalized"
       /\ Has(rows, s) /\ rows'[s].ver # rows[s].ver =>
            s <= finalized /\ rows'[s].ver = chain[s]]_rows

(* Every slot left behind by the confirmed tip is loaded, or answered      *)
(* Ok(None) for, unless the task has ended: in its first synchronisation,  *)
(* or by a panic of the client.                                            *)
EverySlotLoaded ==
  \A s \in StartSlot .. MaxSlot :
    s + MaxLag < confirmed ~> Covered(s) \/ pc = "dead"

-----------------------------------------------------------------------------
(* The inductive invariants behind NoGaps, RowsOnlyGrow and                *)
(* FinalizedRowsFresh; SolanaBlockLoaderProofs shows that they are         *)
(* inductive.                                                              *)

CoveredBelow(n) == \A t \in StartSlot .. (n - 1) : Covered(t)

Batch == current .. (BatchEnd(current, toSlot) - 1)

ChainInv == finalized <= confirmed

(* Every cursor, the one a failed synchronisation falls back to included,  *)
(* has only covered slots below it.                                        *)
CursorInv ==
  /\ toSlot <= confirmed /\ finSlot <= finalized
  /\ pc \in {"start", "dead"} => ~inSync
  /\ pc \notin {"start", "dead"} => startedFrom \in Slots /\ fromSlot \in Slots
  /\ CoveredBelow(startedFrom) /\ CoveredBelow(fromSlot) /\ CoveredBelow(current)
  /\ pc \in {"set_finalized", "recheck", "update", "send_event"} /\ fromSlot < toSlot =>
       CoveredBelow(toSlot)

(* The slots of a batch wait for an answer, have a block or none.          *)
BatchInv ==
  pc = "load" =>
    /\ current \in Slots /\ current < toSlot
    /\ waiting \subseteq Batch
    /\ \A s \in Slots : loaded[s] # NoBlock => s \in Batch /\ loaded[s].parent < s
    /\ ~failed => \A s \in Batch : s \in waiting \/ loaded[s] # NoBlock \/ s \in none

RowsInv ==
  \A s \in Slots : Has(rows, s) => CoveredBelow(s + 1) /\ rows[s].parent < s

(* The blocks being rechecked are stored, Finalized and final.             *)
RecheckInv ==
  /\ updated \subseteq recheck
  /\ \A s \in recheck : rows[s].status = "Finalized" /\ s <= finSlot
  /\ pc \notin {"recheck", "update", "send_event"} => recheck = {}
  /\ pc = "send_event" => updated # {}

LoaderInv ==
  TypeOK /\ ChainInv /\ CursorInv /\ BatchInv /\ RowsInv /\ RecheckInv

(* Where the stale Finalized rows can be, and that a loaded block of a     *)
(* final slot is the chain's.                                              *)
FreshInv ==
  /\ FinalizedRowsFresh
  /\ \A s \in Slots : rows[s].status = "Finalized" => s <= finalized
  /\ pc = "load" => \A s \in Slots :
       loaded[s] # NoBlock /\ s <= finSlot => loaded[s].ver = chain[s]
=============================================================================
