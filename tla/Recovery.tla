------------------------------ MODULE Recovery ------------------------------
(***************************************************************************)
(* StandaloneIndexer::start_recovery: SolanaBlockLoader::start_checking    *)
(* walks over the stored Solana blocks from the highest to the lowest and  *)
(* replaces those that differ from the chain, a second task removes the    *)
(* Ethereum blocks made from them, and recovery returns with whichever     *)
(* task ends first.  The indexer itself does not run.                      *)
(*                                                                         *)
(* Recovery begins in a storage that a loader has left behind: some blocks *)
(* are of a fork that was abandoned, some are missing.  The chain may      *)
(* still move.  An Ethereum block is a row whose version is that of the    *)
(* Solana block it was made from.                                          *)
(***************************************************************************)
EXTENDS SolanaBlockStorage, SolanaClient

CONSTANTS
  StartSlot,      \* start_slot
  BatchSize,      \* batch_size
  UpsertWorks,    \* as in SolanaBlockLoader
  MaxFaults,      \* bound on failed database calls and crashes
  MaxRuns         \* bound on the runs of start_recovery

ASSUME RecoveryAssumption ==
  /\ StartSlot \in Slots /\ BatchSize \in Nat \ {0} /\ UpsertWorks \in BOOLEAN
  /\ MaxFaults \in Nat /\ MaxRuns \in Nat \ {0}

VARIABLES
  rows,        \* the Solana block storage
  eth,         \* the Ethereum block storage
  pc,          \* of the checking task
  current,     \* current_slot of check_batch
  blocks,      \* blocks of check_batch: the version of each, 0 if not in it
  waiting,     \* rechecks not yet answered
  failed,      \* one of them answered Err
  updated,     \* updated_blocks
  events,      \* reorg_event channel
  processor,   \* the task that cleans the Ethereum block storage
  result,      \* of start_recovery
  walked,      \* history: slots checked in this run
  unanswered,  \* history: slots whose recheck was answered Ok(None)
  lost,        \* history: changed slots whose event was never processed
  faults, runs

taskVars == <<current, blocks, waiting, failed, updated, walked, unanswered>>
vars == <<chainVars, rows, eth, pc, taskVars, events, processor, result, lost, faults, runs>>

OneBlockPerSlot == [s \in Slots |-> [v \in {1, 2} |-> 1]]
Eth == INSTANCE EthereumBlockStorage WITH Count <- OneBlockPerSlot

TypeOK ==
  /\ ChainTypeOK
  /\ rows \in [Slots -> Rows]
  /\ \A s \in Slots : Len(eth[s]) <= 1
  /\ pc \in {"start", "walk", "recheck", "send", "completed", "failed"}
  /\ current \in 0 .. MaxSlot
  /\ blocks \in [Slots -> Versions]
  /\ waiting \subseteq {s \in Slots : blocks[s] # 0}
  /\ Cardinality({s \in Slots : blocks[s] # 0}) <= BatchSize
  /\ failed \in BOOLEAN /\ updated \subseteq Slots
  /\ events \in Seq(Slots)
  /\ processor \in {"running", "ended", "failed", "none"}
  /\ result \in {"none", "ok", "err"}
  /\ walked \subseteq Slots /\ unanswered \subseteq Slots /\ lost \subseteq Slots
  /\ faults \in 0 .. MaxFaults /\ runs \in 1 .. MaxRuns

NoBlocks == [s \in Slots |-> 0]

-----------------------------------------------------------------------------
(* What a loader leaves behind.                                            *)

Below(S, s) == IF \E t \in S : t < s
               THEN CHOOSE t \in S : t < s /\ \A u \in S : u < s => u <= t ELSE 0

(* old and new are the slots with a block before and after a switch of the *)
(* fork at slot f; kept tells what was stored of a slot and not replaced.  *)
(* The tip of the chain is the last slot.                                  *)
Init ==
  /\ fork \in 1 .. (MaxForks + 1)
  /\ \E old, new \in SUBSET Slots, f \in Slots, kept \in [Slots -> {"none", "old", "new"}] :
       /\ fork = 1 => old = new
       /\ MaxSlot \in new
       /\ chain = [s \in Slots |-> IF s \in (IF s < f THEN old ELSE new)
                                   THEN IF s < f THEN 1 ELSE fork ELSE Skipped]
       /\ finalized \in {s \in Slots : chain[s] # Skipped} \cup {0}
       /\ \A s \in Slots : /\ kept[s] = "old" => s \in old /\ s >= f /\ fork # 1
                           /\ kept[s] = "new" => chain[s] # Skipped
       /\ rows = [s \in Slots |->
                    IF kept[s] = "none" THEN NoRow
                    ELSE [status |-> IF s <= finalized THEN "Finalized" ELSE "Confirmed",
                          ver    |-> IF kept[s] = "old" THEN 1 ELSE chain[s],
                          parent |-> IF kept[s] = "old" THEN Below(old, s) ELSE ParentOf(s)]]
  /\ confirmed = Below({s \in Slots : chain[s] # Skipped}, MaxSlot + 1)
  /\ eth = [s \in Slots |->
              IF Has(rows, s)
              THEN <<[ver |-> rows[s].ver, hash |-> Eth!Genesis, receipt |-> FALSE]>>
              ELSE <<>>]
  /\ pc = "start" /\ current = 0 /\ blocks = NoBlocks /\ waiting = {} /\ failed = FALSE
  /\ updated = {} /\ walked = {} /\ unanswered = {}
  /\ events = <<>> /\ processor = "running" /\ result = "none"
  /\ lost = {} /\ faults = 0 /\ runs = 1

(* get_block_with_config: what a provider answers for a slot when its bank *)
(* of the commitment is at tip or behind it.  A response may be unreadable *)
(* and a request may fail at any time; -32007 and -32009 also stand for a  *)
(* slot that is missing after a jump to a snapshot, or from long-term      *)
(* storage.                                                                *)
BlockAnswers(s, tip) ==
  {RpcResponseError(-32004, NoBlock), RpcResponseError(-32005, NoBlock),
   RpcResponseError(-32011, NoBlock)}
    \cup {ClientError(kind, NoBlock) : kind \in {"Reqwest", "RpcError", "SerdeJson"}}
    \cup IF s > tip THEN {}
         ELSE {RpcResponseError(-32007, NoBlock), RpcResponseError(-32009, NoBlock)}
    \cup IF s > tip \/ chain[s] = Skipped THEN {} ELSE {Ok(BlockAt(s))}

get_block_with_config(s, tip) == plex_with_retries(BlockAnswers(s, tip))

-----------------------------------------------------------------------------
(* start_checking *)

(* The task ends; a batch in hand is dropped.                              *)
EndCheck(how) ==
  /\ pc' = how
  /\ blocks' = NoBlocks /\ waiting' = {} /\ failed' = FALSE /\ updated' = {}

(* The highest slot to check is given, or the last one of the storage.     *)
StartChecking ==
  /\ pc = "start"
  /\ \E end \in Slots \cup {get_last_slot(rows)} :
       IF end < StartSlot \/ ~Has(rows, StartSlot)
       THEN pc' = "completed" /\ UNCHANGED current
       ELSE pc' = "walk" /\ current' = end
  /\ UNCHANGED <<chainVars, rows, eth, blocks, waiting, failed, updated, walked, unanswered,
                 events, processor, result, lost, faults, runs>>

(* check_batch *)

NumChecked == Cardinality({s \in Slots : blocks[s] # 0})

(* Mutant of MoreToCheck: one block too many.                              *)
MoreToCheckOver == NumChecked <= BatchSize /\ current >= StartSlot

MoreToCheck == NumChecked < BatchSize /\ current >= StartSlot

(* Mutant of Take: the walk does not leave the lowest slot.                *)
TakeStuck(ver, parent) ==
  /\ blocks' = [blocks EXCEPT ![current] = ver]
  /\ walked' = walked \cup {current}
  /\ current' = IF parent < StartSlot THEN current ELSE parent
  /\ UNCHANGED <<pc, waiting, failed, updated, unanswered>>

Take(ver, parent) ==
  /\ blocks' = [blocks EXCEPT ![current] = ver]
  /\ walked' = walked \cup {current}
  /\ current' = parent
  /\ UNCHANGED <<pc, waiting, failed, updated, unanswered>>

TakeStored ==
  /\ pc = "walk" /\ MoreToCheck /\ Has(rows, current)
  /\ Take(rows[current].ver, rows[current].parent)
  /\ UNCHANGED <<chainVars, rows, eth, events, processor, result, lost, faults, runs>>

(* load_block of a block that is not stored, at the commitment of the      *)
(* loader.  Here the slot must not be empty.                               *)
LoadMissing ==
  /\ pc = "walk" /\ MoreToCheck /\ ~Has(rows, current)
  /\ \E o \in get_block_with_config(current, confirmed) :
       \/ o.tag = "Some" /\ Take(o.val.ver, o.val.parent)
       \/ o.tag # "Some" /\ EndCheck("failed") /\ UNCHANGED <<current, walked, unanswered>>
  /\ UNCHANGED <<chainVars, rows, eth, events, processor, result, lost, faults, runs>>

BeginRecheck ==
  /\ pc = "walk" /\ ~MoreToCheck
  /\ waiting' = {s \in Slots : blocks[s] # 0}
  /\ pc' = "recheck"
  /\ UNCHANGED <<chainVars, rows, eth, current, blocks, failed, updated, walked, unanswered,
                 events, processor, result, lost, faults, runs>>

(* Mutant of Recheck: an error is taken for an unchanged block.            *)
RecheckIgnoresErr(s, o, changed) ==
  /\ waiting' = waiting \ {s}
  /\ updated' = IF changed /\ o.tag = "Some" THEN updated \cup {s} ELSE updated
  /\ unanswered' = IF o.tag = "None" THEN unanswered \cup {s} ELSE unanswered
  /\ UNCHANGED <<pc, blocks, failed>>

(* What an answer does to the batch: a block that differs is to be         *)
(* replaced, Ok(None) counts as unchanged, an error fails the batch.       *)
Recheck(s, o, changed) ==
  /\ waiting' = waiting \ {s}
  /\ updated' = IF changed /\ o.tag = "Some" THEN updated \cup {s} ELSE updated
  /\ unanswered' = IF o.tag = "None" THEN unanswered \cup {s} ELSE unanswered
  /\ failed' = (failed \/ o.tag = "Err")
  /\ UNCHANGED <<pc, blocks>>

(* recheck_finalized_block, at commitment Finalized.  A block whose hash   *)
(* differs is asked for a second time, with its transactions (load_block). *)
RecheckBlock(s) ==
  /\ pc = "recheck" /\ s \in waiting
  /\ \E header \in get_block_with_config(s, finalized) :
       LET changed == header.tag = "Some" /\ header.val.ver # blocks[s]
       IN  \E o \in IF changed THEN get_block_with_config(s, finalized) ELSE {header} :
             \/ o.tag = "Panic" /\ EndCheck("failed") /\ UNCHANGED unanswered
             \/ o.tag # "Panic" /\ Recheck(s, o, changed)
  /\ UNCHANGED <<chainVars, rows, eth, current, walked, events, processor, result, lost, faults, runs>>

(* The next batch starts with the parent of the last block checked.        *)
EndBatch ==
  /\ pc' = IF current >= StartSlot THEN "walk" ELSE "completed"
  /\ blocks' = NoBlocks /\ updated' = {}
  /\ UNCHANGED <<waiting, failed>>

(* update_finalized_blocks.                                                *)
EndRecheck ==
  /\ pc = "recheck" /\ waiting = {}
  /\ \/ /\ failed \/ (updated # {} /\ ~UpsertWorks)
        /\ EndCheck("failed") /\ UNCHANGED rows
     \/ /\ ~failed /\ updated # {} /\ UpsertWorks
        /\ rows' = update_finalized_blocks(rows, updated, [s \in Slots |-> BlockAt(s)])
        /\ pc' = "send" /\ UNCHANGED <<blocks, waiting, failed, updated>>
     \/ /\ ~failed /\ updated = {}
        /\ EndBatch /\ UNCHANGED rows
  /\ UNCHANGED <<chainVars, eth, current, walked, unanswered, events, processor, result, lost, faults, runs>>

(* Mutant of LowestUpdated: the last key.                                  *)
HighestUpdated == CHOOSE s \in updated : \A t \in updated : t <= s

LowestUpdated == CHOOSE s \in updated : \A t \in updated : s <= t

(* The event is lost, with a warning, when the receiver is gone.           *)
SendReorgEvent ==
  /\ pc = "send"
  /\ IF processor = "running"
     THEN events' = Append(events, LowestUpdated) /\ UNCHANGED lost
     ELSE lost' = lost \cup updated /\ UNCHANGED events
  /\ EndBatch
  /\ UNCHANGED <<chainVars, rows, eth, current, walked, unanswered, processor, result, faults, runs>>

-----------------------------------------------------------------------------
(* The reorg processor.                                                    *)

CleanFromSlot ==
  /\ processor = "running" /\ events # <<>>
  /\ eth' = Eth!clean_from_slot(eth, Head(events))
  /\ events' = Tail(events)
  /\ UNCHANGED <<chainVars, rows, pc, taskVars, processor, result, lost, faults, runs>>

(* recv returns None: all is received and the sender is dropped.           *)
ProcessorEnds ==
  /\ processor = "running" /\ events = <<>> /\ pc \in {"completed", "failed"}
  /\ processor' = "ended"
  /\ UNCHANGED <<chainVars, rows, eth, pc, taskVars, events, result, lost, faults, runs>>

CleanFails ==
  /\ processor = "running" /\ events # <<>>
  /\ faults < MaxFaults /\ faults' = faults + 1
  /\ processor' = "failed"
  /\ lost' = lost \cup ToSet(events) /\ events' = <<>>
  /\ UNCHANGED <<chainVars, rows, eth, pc, taskVars, result, runs>>

-----------------------------------------------------------------------------
(* select! takes any branch that is ready.  The other task goes on.        *)
Return ==
  /\ result = "none"
  /\ \/ pc = "completed" /\ result' = "ok"
     \/ pc = "failed" /\ result' = "err"
     \/ processor = "ended" /\ result' = "ok"
     \/ processor = "failed" /\ result' = "err"
  /\ UNCHANGED <<chainVars, rows, eth, pc, taskVars, events, processor, lost, faults, runs>>

(* A database call of the checking task fails.                             *)
CheckFails ==
  /\ pc \in {"start", "walk", "recheck"}
  /\ faults < MaxFaults /\ faults' = faults + 1
  /\ EndCheck("failed")
  /\ UNCHANGED <<chainVars, rows, eth, current, walked, unanswered, events, processor, result, lost, runs>>

(* The process ends, at once after the return or by a crash, and recovery  *)
(* is started again.                                                       *)
NewRun ==
  /\ runs < MaxRuns /\ runs' = runs + 1
  /\ IF result # "none" THEN UNCHANGED faults ELSE faults < MaxFaults /\ faults' = faults + 1
  /\ lost' = lost \cup ToSet(events) \cup (IF pc = "send" THEN updated ELSE {})
  /\ pc' = "start" /\ current' = 0 /\ blocks' = NoBlocks /\ waiting' = {} /\ failed' = FALSE
  /\ updated' = {} /\ walked' = {} /\ unanswered' = {}
  /\ events' = <<>> /\ processor' = "running" /\ result' = "none"
  /\ UNCHANGED <<chainVars, rows, eth>>

ChainStep ==
  /\ ChainNext
  /\ UNCHANGED <<rows, eth, pc, taskVars, events, processor, result, lost, faults, runs>>

Check ==
  \/ StartChecking \/ TakeStored \/ LoadMissing \/ BeginRecheck
  \/ \E s \in Slots : RecheckBlock(s)
  \/ EndRecheck \/ SendReorgEvent

Process == CleanFromSlot \/ ProcessorEnds

Next == Check \/ Process \/ Return \/ CleanFails \/ CheckFails \/ NewRun \/ ChainStep

Spec == Init /\ [][Next]_vars

(* The runtime polls both tasks and the caller.                            *)
FairSpec == Spec /\ WF_vars(Check) /\ WF_vars(Process) /\ WF_vars(Return)

-----------------------------------------------------------------------------

(***************************************************************************)
(* A completed check leaves every block it has walked over as the chain    *)
(* has finalized it, except where a recheck was answered Ok(None), which   *)
(* the code takes for "nothing changed" (an unreadable response, -32007,   *)
(* or a failed request of the last provider).  No error of a call is       *)
(* passed over, also not of the second call for a changed block, none of   *)
(* the batch is left out, and a slot that is not final fails the check.    *)
(***************************************************************************)
CheckedBlocksFresh ==
  pc = "completed" =>
    \A s \in walked \ unanswered :
      s <= finalized /\ (Has(rows, s) => chain[s] = rows[s].ver)

(* The check "reloads blocks which were missed in DB" (comment of          *)
(* start_checking).                                                        *)
MissedBlocksReloaded ==
  pc = "completed" => \A s \in walked : chain[s] # Skipped => Has(rows, s)

(***************************************************************************)
(* An Ethereum block made from a Solana block that was replaced, or        *)
(* standing above one, survives only as long as an event for it is under   *)
(* way, or because the event was lost: the process ended before the second *)
(* task had received it (select! in start_recovery), or that task failed.  *)
(***************************************************************************)
StaleOnlyIfLost ==
  \A s \in Slots :
    eth[s] # <<>> /\ eth[s][1].ver # rows[s].ver =>
      \E t \in lost \cup ToSet(events) \cup (IF pc = "send" THEN updated ELSE {}) : t <= s

(***************************************************************************)
(* start_recovery returns: the walk goes down to start_slot whatever the   *)
(* stored parents are, every call ends after its retries, and neither task *)
(* waits for the other for ever.                                           *)
(***************************************************************************)
RecoveryReturns == result = "none" ~> result # "none"
=============================================================================
