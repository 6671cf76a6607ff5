---------------------------- MODULE RollupIndexer ----------------------------
(***************************************************************************)
(* RollupIndexer: parses stored Solana blocks into Ethereum blocks, has    *)
(* the block producer (op-geth behind EngineAPIBlockProducer) build them   *)
(* and registers the results; on a reorg event it removes what was derived *)
(* from the changed slots and starts over; after a crash it restores what  *)
(* the producer has and the storage has not, or makes the producer build   *)
(* again what it has lost.                                                 *)
(*                                                                         *)
(* The Solana block loader is the environment: it stores slots, marks them *)
(* Finalized, replaces changed blocks and sends the reorg event, in that   *)
(* order and as separate steps (module SolanaBlockLoader is its model).    *)
(* op-geth is external: head is its canonical head, known the blocks it    *)
(* can be asked for, gethFinal its finalized block.                        *)
(*                                                                         *)
(* The task is one sequence of awaits; each one that changes durable state *)
(* is a step, and the process can be killed between any two.               *)
(***************************************************************************)
EXTENDS EthereumBlockStorage

CONSTANTS
  StartSlot,    \* start_slot of the configuration
  BatchSize,    \* BATCH_SIZE: slots per parsed batch and production limit
  MaxReorgs,    \* bound on finalized blocks replaced by the loader
  MaxQueued,    \* bound on undelivered reorg events
  MaxFaults,    \* bound on crashes, failed calls and geth data losses
  Faults,       \* which of them may happen
  Orphans,      \* whether a stored slot may stand on another fork than the last one
  Gaps,         \* whether a slot may be passed over, and stored later
  UpsertWorks   \* as in SolanaBlockLoader

FaultKinds == {"crash", "call", "geth_loss", "loader_exit"}

ASSUME IndexerAssumption ==
  /\ StartSlot \in Slots
  /\ BatchSize \in Nat \ {0}
  /\ MaxReorgs \in Nat /\ MaxQueued \in Nat /\ MaxFaults \in Nat
  /\ Faults \subseteq FaultKinds
  /\ Orphans \in BOOLEAN /\ Gaps \in BOOLEAN /\ UpsertWorks \in BOOLEAN

VARIABLES
  sol,        \* sol_slot table                                     (durable)
  eth,        \* eth_block table                                    (durable)
  head,       \* hash of op-geth's head block                       (durable)
  known,      \* hashes of the blocks op-geth holds                 (durable)
  gethFinal,  \* hash of op-geth's finalized block                  (durable)
  loader,     \* the loader: "run", "marked", "updated" or "gone"
  changed,    \* the finalized blocks it is about to announce
  reorgs,     \* reorg event channel
  pc,
  fromSlot,   \* from_slot of run and of reproduce_blocks_until_in_sync
  toSlot,     \* to_slot
  current,    \* current_slot
  next,       \* next slot of the batch to parse
  parsed,     \* parse results of the batch: version, 0 for no block
  pending,    \* ids of producer_params.pending_blocks still to produce
  parent,     \* hash the next block is built on
  finalBlock, \* producer_params.finalized_block
  produced,   \* produced_blocks of the call: block id -> hash
  late,       \* history: slots stored below the last one
  missed,     \* history: changed slots whose reorg event nobody received
  cut,        \* history: blocks whose registration was cut short
  faults

solVars == <<sol, loader, changed, late>>
gethVars == <<head, known, gethFinal>>
parseVars == <<fromSlot, toSlot, current, next, parsed>>
produceVars == <<pending, parent, finalBlock, produced>>
vars == <<solVars, eth, gethVars, reorgs, pc, parseVars, produceVars, missed, cut, faults>>

PCs == {"start", "reproduce", "rebuild", "run", "parse", "pending", "build",
        "switched", "register", "receipts", "dead", "exited"}

NoParse == [s \in Slots |-> 0]
NoBlocks == [id \in {} |-> Genesis]
Contents == Slots \X (1 .. 2) \X ContentVersions
IdSet == Slots \X (1 .. 2)

(* FinalizedBlock: Produced(hash), Pending(id) or None.                    *)
NoFinal == [kind |-> "None", hash |-> Genesis, id |-> <<0, 0>>]

TypeOK ==
  /\ sol \in [Slots -> SolRow]
  /\ \A s \in Slots : /\ Len(eth[s]) <= 2
                      /\ \A i \in DOMAIN eth[s] :
                           /\ eth[s][i].ver \in ContentVersions
                           /\ eth[s][i].hash \in known \cup {Genesis} \cup Seq(Contents)
                           /\ eth[s][i].receipt \in BOOLEAN
  /\ head \in Seq(Contents) /\ gethFinal \in Seq(Contents)
  /\ \A h \in known : h \in Seq(Contents)
  /\ loader \in {"run", "marked", "updated", "gone"}
  /\ changed \subseteq Slots
  /\ reorgs \in Seq(Slots)
  /\ pc \in PCs
  /\ {fromSlot, toSlot, current, next} \subseteq 0 .. MaxSlot
  /\ parsed \in [Slots -> {0} \cup ContentVersions]
  /\ pending \subseteq IdSet
  /\ finalBlock.kind \in {"None", "Pending", "Produced"}
  /\ finalBlock.hash \in Seq(Contents) /\ finalBlock.id \in IdSet \cup {<<0, 0>>}
  /\ parent \in Seq(Contents)
  /\ DOMAIN produced \subseteq IdSet
  /\ late \subseteq Slots /\ missed \subseteq Slots /\ cut \subseteq IdSet
  /\ faults \in 0 .. MaxFaults

Init ==
  /\ sol = [s \in Slots |-> NoSlot]
  /\ eth = [s \in Slots |-> << >>]
  /\ head = Genesis /\ known = {Genesis} /\ gethFinal = Genesis
  /\ loader = "run" /\ changed = {} /\ reorgs = << >>
  /\ pc = "start"
  /\ fromSlot = 0 /\ toSlot = 0 /\ current = 0 /\ next = 0 /\ parsed = NoParse
  /\ pending = {} /\ parent = Genesis /\ finalBlock = NoFinal /\ produced = NoBlocks
  /\ late = {} /\ missed = {} /\ cut = {} /\ faults = 0

-----------------------------------------------------------------------------
(* The Solana block loader, as the indexer sees it.                        *)

FinalSlots == {s \in Slots : sol[s].status = "Finalized"}

(* A slot is stored with the parent its block names: the highest stored    *)
(* one below it; with Orphans, any stored one (the fork the chain has      *)
(* left); with Gaps, also a slot the loader has passed over because the    *)
(* client answered None.  A repeated synchronisation may so insert a slot  *)
(* below the last one.  The chain does not go back behind a final slot,    *)
(* but a slot is stored as Finalized whatever the status of its parent is: *)
(* that depends only on the finalized slot at the time it is stored.       *)
LoaderStores(s, p, status) ==
  /\ loader = "run"
  /\ ~Stored(sol, s)
  /\ s > LastSlot(sol) \/ Gaps
  /\ p < s
  /\ \/ \A t \in (p + 1) .. (s - 1) : ~Stored(sol, t)
     \/ Orphans
  /\ p = 0 \/ Stored(sol, p) \/ Gaps
  /\ \A f \in FinalSlots : f < s => f <= p
  /\ sol' = [sol EXCEPT ![s] = [status |-> status, ver |-> 1, parent |-> p]]
  /\ late' = IF s < LastSlot(sol) THEN late \cup {s} ELSE late
  /\ UNCHANGED <<eth, gethVars, loader, changed, reorgs, pc, parseVars, produceVars, missed, cut, faults>>

(* The slots set_finalized_slot marks: up the parents, until a Finalized   *)
(* one stops the walk.                                                     *)
ForkOf(s) ==
  LET up == Branch(sol, s)
  IN  {t \in up : \A u \in up : u >= t => sol[u].status = "Confirmed"}

LoaderMarksFinalized(s, S) ==
  /\ loader = "run"
  /\ Stored(sol, s) /\ sol[s].status = "Confirmed"
  /\ Cardinality(S) + Cardinality({t \in Slots : sol[t].ver = 2}) <= MaxReorgs
  /\ sol' = [t \in Slots |-> IF t \in ForkOf(s) THEN [sol[t] EXCEPT !.status = "Finalized"]
                             ELSE sol[t]]
  /\ changed' = S
  /\ loader' = IF S = {} THEN "run" ELSE "marked"
  /\ UNCHANGED <<eth, gethVars, late, reorgs, pc, parseVars, produceVars, missed, cut, faults>>

(* update_finalized_blocks; the error of its upsert ends the call of       *)
(* update_finalized_slot before the event is sent, and the loader goes on. *)
LoaderUpdatesBlocks ==
  /\ loader = "marked"
  /\ \/ /\ UpsertWorks
        /\ sol' = [t \in Slots |-> IF t \in changed THEN [sol[t] EXCEPT !.ver = 2] ELSE sol[t]]
        /\ loader' = "updated" /\ UNCHANGED changed
     \/ /\ loader' = "run" /\ changed' = {}
        /\ UNCHANGED sol
  /\ UNCHANGED <<eth, gethVars, late, reorgs, pc, parseVars, produceVars, missed, cut, faults>>

LoaderSendsReorg ==
  /\ loader = "updated"
  /\ \/ /\ pc \notin {"dead", "exited"} /\ Len(reorgs) < MaxQueued
        /\ reorgs' = Append(reorgs, CHOOSE s \in changed : \A t \in changed : s <= t)
        /\ UNCHANGED missed
     \/ /\ pc \in {"dead", "exited"}      \* the receiver is gone: only logged
        /\ missed' = missed \cup changed
        /\ UNCHANGED reorgs
  /\ changed' = {} /\ loader' = "run"
  /\ UNCHANGED <<sol, eth, gethVars, late, pc, parseVars, produceVars, cut, faults>>

(* The loader task ends and drops its end of the channel.                  *)
LoaderExits ==
  /\ "loader_exit" \in Faults /\ faults < MaxFaults /\ faults' = faults + 1
  /\ loader # "gone"
  /\ loader' = "gone" /\ changed' = {} /\ missed' = missed \cup changed
  /\ UNCHANGED <<sol, eth, gethVars, late, reorgs, pc, parseVars, produceVars, cut>>

-----------------------------------------------------------------------------
(* Start sequence.                                                         *)

NoProduction ==
  pending' = {} /\ parent' = Genesis /\ finalBlock' = NoFinal /\ produced' = NoBlocks

(* Mutant of PreRun: blocks the producer has lost are not produced again.  *)
PreRunNoReproduction ==
  /\ pc = "start"
  /\ IF latest_block(eth) # 0
     THEN fromSlot' \in SlotsForEthBlock(eth, latest_block(eth))
     ELSE fromSlot' = StartSlot
  /\ pc' = "run"
  /\ UNCHANGED <<solVars, eth, gethVars, reorgs, toSlot, current, next, parsed,
                 produceVars, missed, cut, faults>>

(* pre_run *)
PreRun ==
  /\ pc = "start"
  /\ LET inStorage  == latest_block(eth)
         inProducer == Len(head)
     IN  \/ /\ inStorage > inProducer
            /\ SlotsForEthBlock(eth, inProducer + 1) # {}
            /\ fromSlot' \in SlotsForEthBlock(eth, inProducer + 1)
            /\ pc' = "reproduce"
         \/ /\ inStorage > inProducer
            /\ SlotsForEthBlock(eth, inProducer + 1) = {}
            /\ pc' = "dead" /\ UNCHANGED fromSlot
         \/ /\ inStorage <= inProducer /\ inStorage # 0
            /\ fromSlot' \in SlotsForEthBlock(eth, inStorage)
            /\ pc' = "run"
         \/ /\ inStorage = 0
            /\ fromSlot' = StartSlot
            /\ pc' = "run"
  /\ UNCHANGED <<solVars, eth, gethVars, reorgs, toSlot, current, next, parsed,
                 produceVars, missed, cut, faults>>

(* Mutant of BatchEnd: the last batch is not cut to the range.             *)
BatchEndUncut(from, max) == from + BatchSize

BatchEnd(from, max) == IF max - from < BatchSize THEN max ELSE from + BatchSize

(* The produced blocks of a range of slots that reproduce_blocks2 returns. *)
Expected(from, to) == {id \in ProducedIds(eth) : id[1] >= from /\ id[1] < to}

(* reproduce_blocks_until_in_sync and the start of reproduce_blocks.       *)
StartReproducing ==
  /\ pc = "reproduce"
  /\ toSlot' = get_max_slot_produced(eth) + 1
  /\ IF fromSlot < get_max_slot_produced(eth) + 1
     THEN LET end == BatchEnd(fromSlot, get_max_slot_produced(eth) + 1)
              ids == Expected(fromSlot, end)
          IN  /\ current' = end
              /\ IF ids = {}
                 THEN /\ fromSlot' = end /\ UNCHANGED pc
                      /\ NoProduction
                 ELSE /\ UNCHANGED fromSlot
                      /\ pending' = ids
                      /\ parent' = LET first == Row(eth, FirstId(ids)).hash
                                   IN  SubSeq(first, 1, Len(first) - 1)
                      /\ finalBlock' = NoFinal /\ produced' = NoBlocks
                      /\ pc' = IF parent' \in known THEN "rebuild" ELSE "dead"
     ELSE pc' = "run" /\ UNCHANGED <<fromSlot, current, produceVars>>
  /\ UNCHANGED <<solVars, eth, gethVars, reorgs, next, parsed, missed, cut, faults>>

SlotCount(ids) == Cardinality({id[1] : id \in ids})
ProducedEnough == pending = {} \/ SlotCount(DOMAIN produced) >= BatchSize

(* advance_rollup_state builds one block again: deterministic, so with the *)
(* same parent and content the block gets the same hash.                   *)
RebuildBlock ==
  /\ pc = "rebuild" /\ ~ProducedEnough
  /\ LET id == FirstId(pending)
         hash == Append(parent, Content(id, Row(eth, id).ver))
     IN  /\ head' = hash /\ known' = known \cup {hash}
         /\ parent' = hash
         /\ pending' = pending \ {id}
         /\ produced' = [x \in DOMAIN produced \cup {id} |->
                           IF x = id THEN hash ELSE produced[x]]
  /\ UNCHANGED <<solVars, eth, gethFinal, reorgs, pc, parseVars, finalBlock, missed, cut, faults>>

(* The comparison with expected_results, whose keys are slot number and    *)
(* block number (a block with number n is looked up at slot_block_idx n,   *)
(* which is position n + 1).                                               *)
Reproduced(id) ==
  LET hash == Row(eth, id).hash
      key  == <<id[1], Len(hash) + 1>>
  IN  key \in DOMAIN produced /\ produced[key] = hash

CheckReproduced ==
  /\ pc = "rebuild" /\ ProducedEnough
  /\ IF \A id \in Expected(fromSlot, current) : Reproduced(id)
     THEN pc' = "reproduce" /\ fromSlot' = current
     ELSE pc' = "dead" /\ UNCHANGED fromSlot
  /\ NoProduction
  /\ UNCHANGED <<solVars, eth, gethVars, reorgs, toSlot, current, next, parsed, missed, cut, faults>>

-----------------------------------------------------------------------------
(* The main loop.                                                          *)

(* A reorg event: clean_from_slot, and the cursor moves to its slot.       *)
HandleReorg ==
  /\ pc = "run" /\ reorgs # << >>
  /\ eth' = clean_from_slot(eth, Head(reorgs))
  /\ fromSlot' = Head(reorgs)
  /\ reorgs' = Tail(reorgs)
  /\ cut' = {id \in cut : id[1] < Head(reorgs)}
  /\ UNCHANGED <<solVars, gethVars, pc, toSlot, current, next, parsed, produceVars, missed, faults>>

ChannelClosed ==
  /\ pc = "run" /\ reorgs = << >> /\ loader = "gone"
  /\ pc' = "exited"
  /\ UNCHANGED <<solVars, eth, gethVars, reorgs, parseVars, produceVars, missed, cut, faults>>

(* restore_or_produce_until_in_sync with something to do.                  *)
BeginSync ==
  /\ pc = "run" /\ reorgs = << >> /\ loader # "gone"
  /\ fromSlot < LastSlot(sol)
  /\ toSlot' = LastSlot(sol) /\ current' = fromSlot /\ next' = fromSlot
  /\ parsed' = NoParse
  /\ pc' = "parse"
  /\ UNCHANGED <<solVars, eth, gethVars, reorgs, fromSlot, produceVars, missed, cut, faults>>

(* ... and with nothing to do: it sleeps.                                  *)
Sleep ==
  /\ pc = "run" /\ reorgs = << >> /\ loader # "gone"
  /\ fromSlot >= LastSlot(sol)
  /\ UNCHANGED vars

(* parse_blocks_batch reads one slot after the other.                      *)
ParseSlot ==
  /\ pc = "parse" /\ next < BatchEnd(current, toSlot)
  /\ parsed' = [parsed EXCEPT ![next] = sol[next].ver]
  /\ next' = next + 1
  /\ UNCHANGED <<solVars, eth, gethVars, reorgs, pc, fromSlot, toSlot, current,
                 produceVars, missed, cut, faults>>

RegisterParseResults ==
  /\ pc = "parse" /\ next = BatchEnd(current, toSlot)
  /\ eth' = register_parse_results(eth, parsed)
  /\ parsed' = NoParse
  /\ pc' = "pending"
  /\ UNCHANGED <<solVars, gethVars, reorgs, fromSlot, toSlot, current, next,
                 produceVars, missed, cut, faults>>

(* Mutant of NextBatch: the cursor moves past the slot not parsed yet.     *)
NextBatchSkipsTip ==
  /\ NoProduction
  /\ current' = BatchEnd(current, toSlot)
  /\ next' = BatchEnd(current, toSlot)
  /\ IF BatchEnd(current, toSlot) < toSlot
     THEN pc' = "parse" /\ UNCHANGED fromSlot
     ELSE pc' = "run" /\ fromSlot' = toSlot + 1
  /\ UNCHANGED <<toSlot, parsed>>

(* The end of restore_or_produce_blocks: the next batch, or the return to  *)
(* run.                                                                    *)
NextBatch ==
  /\ NoProduction
  /\ current' = BatchEnd(current, toSlot)
  /\ next' = BatchEnd(current, toSlot)
  /\ IF BatchEnd(current, toSlot) < toSlot
     THEN pc' = "parse" /\ UNCHANGED fromSlot
     ELSE pc' = "run" /\ fromSlot' = toSlot
  /\ UNCHANGED <<toSlot, parsed>>

NothingPending ==
  /\ pc = "pending" /\ PendingIds(sol, eth) = {}
  /\ NextBatch
  /\ UNCHANGED <<solVars, eth, gethVars, reorgs, missed, cut, faults>>

MustRestore == latest_block(eth) + 1 < Len(head)

(* Mutants of Restored: from the last block in storage on; the first block *)
(* for all of them.                                                        *)
RestoredFromLast(ids) ==
  LET rank(id) == Cardinality({x \in ids : Before(x, id)})
      number(id) == latest_block(eth) + rank(id)
  IN  [id \in {x \in ids : number(x) <= Len(head)} |-> SubSeq(head, 1, number(id))]
RestoredFirst(ids) == [id \in ids |-> SubSeq(head, 1, latest_block(eth) + 1)]

(* The blocks of the producer that restore_blocks assigns to the pending   *)
(* ones, in order.                                                         *)
Restored(ids) ==
  LET rank(id) == Cardinality({x \in ids : Before(x, id)})
      number(id) == latest_block(eth) + 1 + rank(id)
  IN  [id \in {x \in ids : number(x) <= Len(head)} |-> SubSeq(head, 1, number(id))]

(* restore_blocks: the first restored block must follow the last one in    *)
(* storage; the others follow each other in the producer.                  *)
RestoreBlocks ==
  /\ pc = "pending" /\ PendingIds(sol, eth) # {} /\ MustRestore
  /\ IF ParentHash(sol, eth) = {SubSeq(head, 1, latest_block(eth))}
     THEN /\ produced' = Restored(PendingIds(sol, eth))
          /\ pc' = "register"
          /\ pending' = {} /\ UNCHANGED <<parent, finalBlock>>
     ELSE pc' = "dead" /\ UNCHANGED produceVars
  /\ UNCHANGED <<solVars, eth, gethVars, reorgs, parseVars, missed, cut, faults>>

(* finalized_block of get_pending_blocks.                                  *)
FinalizedBlock ==
  LET ids == FinalizedIds(sol, eth)
      id  == CHOOSE x \in ids : TRUE
  IN  IF ids = {} THEN NoFinal
      ELSE IF IsProduced(eth, id)
      THEN [kind |-> "Produced", hash |-> Row(eth, id).hash, id |-> id]
      ELSE [kind |-> "Pending", hash |-> Genesis, id |-> id]

(* produce_blocks up to its loop: without a parent in storage it panics    *)
(* unless the producer is at genesis, and a parent unknown to the producer *)
(* is a panic too.                                                         *)
StartProducing ==
  /\ pc = "pending" /\ PendingIds(sol, eth) # {} /\ ~MustRestore
  /\ LET on == ParentHash(sol, eth)
     IN  IF IF on = {} THEN head = Genesis ELSE on \subseteq known
         THEN /\ parent' = IF on = {} THEN Genesis ELSE CHOOSE h \in on : TRUE
              /\ pending' = PendingIds(sol, eth)
              /\ finalBlock' = FinalizedBlock
              /\ produced' = NoBlocks
              /\ pc' = "build"
         ELSE pc' = "dead" /\ UNCHANGED produceVars
  /\ UNCHANGED <<solVars, eth, gethVars, reorgs, parseVars, missed, cut, faults>>

(* Mutant of CurrentFinalized: op-geth's finalized block is not asked for. *)
GenesisIfPending ==
  IF finalBlock.kind = "Produced" THEN finalBlock.hash ELSE Genesis

(* current_finalized: the storage's finalized block when it is produced,   *)
(* otherwise the one op-geth has (genesis below the first block).          *)
CurrentFinalized ==
  IF finalBlock.kind = "Produced" THEN finalBlock.hash
  ELSE IF parent = Genesis THEN Genesis ELSE gethFinal

(* advance_rollup_state, first forkchoice update: the parent becomes head. *)
ForkchoiceParent ==
  /\ pc = "build" /\ ~ProducedEnough
  /\ head' = parent
  /\ gethFinal' = CurrentFinalized
  /\ pc' = "switched"
  /\ UNCHANGED <<solVars, eth, known, reorgs, parseVars, produceVars, missed, cut, faults>>

(* Mutant of ForkchoiceNew: the second forkchoice update is left out.      *)
ForkchoiceNewForgotten ==
  /\ pc = "switched"
  /\ LET id == FirstId(pending)
         hash == Append(parent, Content(id, Row(eth, id).ver))
     IN  /\ known' = known \cup {hash}
         /\ parent' = hash
         /\ pending' = pending \ {id}
         /\ produced' = [x \in DOMAIN produced \cup {id} |->
                           IF x = id THEN hash ELSE produced[x]]
  /\ pc' = "build"
  /\ UNCHANGED <<solVars, eth, head, gethFinal, reorgs, parseVars, finalBlock, missed, cut, faults>>

(* getPayload, newPayload and the second forkchoice update: the new block  *)
(* becomes head, and final when the params say so.                         *)
ForkchoiceNew ==
  /\ pc = "switched"
  /\ LET id == FirstId(pending)
         hash == Append(parent, Content(id, Row(eth, id).ver))
     IN  /\ head' = hash /\ known' = known \cup {hash}
         /\ parent' = hash
         /\ pending' = pending \ {id}
         /\ produced' = [x \in DOMAIN produced \cup {id} |->
                           IF x = id THEN hash ELSE produced[x]]
         /\ gethFinal' = IF finalBlock.kind = "Pending" /\ ~Before(finalBlock.id, id)
                         THEN hash ELSE CurrentFinalized
  /\ pc' = "build"
  /\ UNCHANGED <<solVars, eth, reorgs, parseVars, finalBlock, missed, cut, faults>>

EndProducing ==
  /\ pc = "build" /\ ProducedEnough
  /\ IF DOMAIN produced = {}
     THEN NextBatch
     ELSE pc' = "register" /\ UNCHANGED <<parseVars, produceVars>>
  /\ UNCHANGED <<solVars, eth, gethVars, reorgs, missed, cut, faults>>

(* blocks_produced: the first of its two transactions ...                  *)
RegisterProduced ==
  /\ pc = "register"
  /\ eth' = block_produced(eth, produced)
  /\ pc' = "receipts"
  /\ UNCHANGED <<solVars, gethVars, reorgs, parseVars, produceVars, missed, cut, faults>>

(* ... and the second.  The production loop goes on with what is left.     *)
RegisterReceipts ==
  /\ pc = "receipts"
  /\ eth' = store_receipts(eth, DOMAIN produced)
  /\ IF pending = {}
     THEN NextBatch
     ELSE /\ pc' = "build" /\ produced' = NoBlocks
          /\ UNCHANGED <<parseVars, pending, parent, finalBlock>>
  /\ UNCHANGED <<solVars, gethVars, reorgs, missed, cut, faults>>

-----------------------------------------------------------------------------
(* Failures.                                                               *)

(* The blocks whose first transaction is done, and not the second.         *)
HalfRegistered == IF pc = "receipts" THEN DOMAIN produced ELSE {}

(* A call of the Engine API or of the storage fails: the error ends the    *)
(* task.  (While nothing is to be done, only get_last_slot is called: its  *)
(* failure is retried.)                                                    *)
CallFails ==
  /\ "call" \in Faults /\ faults < MaxFaults /\ faults' = faults + 1
  /\ pc \notin {"dead", "exited"}
  /\ pc = "run" => reorgs # << >>
  /\ pc' = "dead" /\ NoProduction
  /\ cut' = cut \cup HalfRegistered
  /\ UNCHANGED <<solVars, eth, gethVars, reorgs, parseVars, missed>>

(* A new process: only the storage and op-geth keep what they had.         *)
StartProcess ==
  /\ pc' = "start"
  /\ loader' = "run" /\ changed' = {} /\ reorgs' = << >>
  /\ missed' = missed \cup changed \cup {reorgs[i] : i \in DOMAIN reorgs}
  /\ fromSlot' = 0 /\ toSlot' = 0 /\ current' = 0 /\ next' = 0 /\ parsed' = NoParse
  /\ NoProduction

(* The process is killed, the loader and the channel with it, and started  *)
(* again.                                                                  *)
Crash ==
  /\ "crash" \in Faults /\ faults < MaxFaults /\ faults' = faults + 1
  /\ pc \notin {"start", "dead", "exited"}
  /\ cut' = cut \cup HalfRegistered
  /\ StartProcess
  /\ UNCHANGED <<sol, late, eth, gethVars>>

Restart ==
  /\ pc \in {"dead", "exited"}
  /\ StartProcess
  /\ UNCHANGED <<sol, late, eth, gethVars, cut, faults>>

(* op-geth comes back without its latest blocks (before it is asked).      *)
GethLosesBlocks(n) ==
  /\ "geth_loss" \in Faults /\ faults < MaxFaults /\ faults' = faults + 1
  /\ pc = "start" /\ n \in Len(gethFinal) .. (Len(head) - 1)
  /\ head' = SubSeq(head, 1, n)
  /\ known' = {SubSeq(head, 1, i) : i \in 0 .. n}
  /\ UNCHANGED <<solVars, eth, gethFinal, reorgs, pc, parseVars, produceVars, missed, cut>>

-----------------------------------------------------------------------------

LoaderStep ==
  \/ \E s \in Slots, p \in 0 .. MaxSlot, status \in {"Confirmed", "Finalized"} :
       LoaderStores(s, p, status)
  \/ \E s \in Slots : \E S \in SUBSET ForkOf(s) : LoaderMarksFinalized(s, S)
  \/ LoaderUpdatesBlocks \/ LoaderSendsReorg

IndexerStep ==
  \/ PreRun \/ StartReproducing \/ RebuildBlock \/ CheckReproduced
  \/ HandleReorg \/ ChannelClosed \/ BeginSync \/ Sleep
  \/ ParseSlot \/ RegisterParseResults \/ NothingPending \/ RestoreBlocks
  \/ StartProducing \/ ForkchoiceParent \/ ForkchoiceNew \/ EndProducing
  \/ RegisterProduced \/ RegisterReceipts

FaultStep ==
  \/ LoaderExits \/ CallFails \/ Crash \/ Restart
  \/ \E n \in 0 .. Len(head) : GethLosesBlocks(n)

Next == LoaderStep \/ IndexerStep \/ FaultStep

Spec == Init /\ [][Next]_vars

(* The task is polled by the runtime.                                      *)
FairSpec == Spec /\ WF_vars(IndexerStep)

-----------------------------------------------------------------------------

IsPrefixOf(a, b) == Len(a) <= Len(b) /\ SubSeq(b, 1, Len(a)) = a

(* The hash registered for a block is the hash of a block the producer     *)
(* built from that block's own transactions, whichever way it came into    *)
(* the storage: produced, built again after a crash, or restored.          *)
RegisteredAsBuilt ==
  \A id \in ProducedIds(eth) :
    LET row == Row(eth, id) IN row.hash[Len(row.hash)] = Content(id, row.ver)

(* The produced blocks of the current Solana fork form one chain in the    *)
(* order of their slots: each one is built directly on the one before it.  *)
(* A slot inserted below the last one that is parsed after its descendants *)
(* breaks this: its blocks are built on theirs.                            *)
Current == {id \in ProducedIds(eth) : id[1] \in Branch(sol, TopSlot(eth))}

ProducedFormOneChain ==
  \A b \in Current :
    LET below == {a \in Current : Before(a, b)}
        hash  == Row(eth, b).hash
    IN  late \cap Branch(sol, TopSlot(eth)) = {} =>
          SubSeq(hash, 1, Len(hash) - 1) =
            IF below = {} THEN Genesis ELSE Row(eth, LastId(below)).hash

(* A block number names one block: what get_block_by_number relies on.     *)
OneBlockPerNumber ==
  \A a, b \in ProducedIds(eth) :
    Len(Row(eth, a).hash) = Len(Row(eth, b).hash) => a = b

(* Outside of a switch of the head, the storage registers only blocks      *)
(* that the producer holds on the chain of its head; after the loss of     *)
(* blocks in the producer this holds again once the main loop runs.        *)
StorageFollowsProducer ==
  pc \in {"run", "parse", "pending", "build", "register", "receipts"} =>
    \A id \in Current :
      Row(eth, id).hash \in known /\ IsPrefixOf(Row(eth, id).hash, head)

InSync == pc = "run" /\ reorgs = << >> /\ loader = "run"

(* When the indexer waits for new slots, every slot it has passed has its  *)
(* Ethereum blocks registered; only a slot inserted below the last one is  *)
(* not parsed when the cursor is already past it.                          *)
NoSlotLost ==
  InSync =>
    \A s \in StartSlot .. (fromSlot - 1) :
      Stored(sol, s) /\ s \notin late => Len(eth[s]) >= Count[s][sol[s].ver]

(* A block is stale only when no reorg event was received for a slot at or *)
(* below its own: as long as events arrive, all that was derived from a    *)
(* changed slot is removed and derived again, whatever the indexer was     *)
(* doing when the slot changed.                                            *)
StaleOnlyIfMissed ==
  InSync =>
    \A id \in Ids(eth) :
      Stored(sol, id[1]) /\ Row(eth, id).ver # sol[id[1]].ver =>
        \E m \in missed : m <= id[1]

(* Every replaced Solana block the indexer has passed, and whose event was *)
(* received, has its Ethereum blocks again: the comment on                 *)
(* update_finalized_slot says that the rollup regenerates them.            *)
UpdatedSlotsRegenerated ==
  InSync /\ missed = {} =>
    \A s \in StartSlot .. (fromSlot - 1) :
      sol[s].ver = 2 => Len(eth[s]) >= Count[s][2]

(* What op-geth has been told is final stays final: the finalized block    *)
(* only ever moves to one of its descendants.                              *)
FinalityNeverReverted == [][IsPrefixOf(gethFinal, gethFinal')]_gethFinal

(* A produced block has its receipts, except while they are being written  *)
(* and where a crash or a failed call came between the two transactions of *)
(* blocks_produced: such a block is without them until a reorg event       *)
(* removes it, and no later run of the indexer makes up for it.            *)
ReceiptsStored ==
  \A id \in ProducedIds(eth) \ (cut \cup HalfRegistered) : Row(eth, id).receipt

(* Every block op-geth was told to finalize was built from the stored      *)
(* content of a slot that a Finalized slot follows on its fork.            *)
FinalizedOnFinalBranch ==
  \A i \in 1 .. Len(gethFinal) :
    LET c == gethFinal[i]
    IN  sol[c[1]].ver = c[3] /\ \E f \in FinalSlots : c[1] \in Branch(sol, f)

(* A block that was built again with the hash it had passes the check of   *)
(* reproduce_blocks.                                                       *)
ReproductionRecognised ==
  pc = "rebuild" /\ ProducedEnough =>
    \A id \in Expected(fromSlot, current) \cap DOMAIN produced :
      produced[id] = Row(eth, id).hash => Reproduced(id)

(* produce_blocks is not reached with an unknown parent while op-geth has  *)
(* blocks: the panic of EngineAPIBlockProducer.                            *)
ParentKnown ==
  pc = "pending" /\ PendingIds(sol, eth) # {} /\ ParentHash(sol, eth) = {} /\ ~MustRestore =>
    head = Genesis

(* Every parsed slot below the last one gets all of its blocks produced,   *)
(* unless the task has ended.                                              *)
AllProduced(s) ==
  Stored(sol, s) /\ \A i \in 1 .. Count[s][sol[s].ver] : <<s, i>> \in ProducedIds(eth)

EverySlotProduced ==
  \A s \in StartSlot .. MaxSlot :
    (Stored(sol, s) /\ s < LastSlot(sol) /\ s \notin late) ~> (AllProduced(s) \/ pc \in {"dead", "exited"})
=============================================================================
