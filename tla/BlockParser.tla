----------------------------- MODULE BlockParser -----------------------------
(***************************************************************************)
(* BlockParser driven by RollupIndexer: from the stored Solana blocks to   *)
(* the rollup transactions of every slot with their results.               *)
(*                                                                         *)
(* A Solana transaction is [err, meta, instrs]: whether it failed, what    *)
(* LogParser makes of its log (a result, none, or an error) and its        *)
(* instructions for the program.  A block is [parent, txs].  The loader is *)
(* the environment: it stores blocks in the order of slots, replaces one   *)
(* that changed and sends a reorg event (module SolanaBlockLoader).  What  *)
(* becomes of the parse results is the subject of RollupIndexer; here they *)
(* are kept by slot in out.                                                *)
(***************************************************************************)
EXTENDS TxParser

CONSTANTS
  Chain, OtherChain,   \* chain id of this rollup and of another one
  Contents,            \* the sequences of Solana transactions of a block
  MaxSlot,
  Prior,               \* Solana transactions before the first stored block
  SkippedSlots,        \* slots for which Solana has no block
  StartSlot,           \* first slot to index
  MaxParseBehind,      \* MAX_PARSE_BEHIND
  MaxSlotHistory,      \* max_slot_history of the configuration
  BatchSize,           \* BATCH_SIZE
  MaxUpdates,          \* bound on replaced blocks
  MaxQueued,           \* bound on undelivered reorg events
  MaxRestarts          \* bound on restarts of the indexer

BadLog == "bad_log"
Slots == 1 .. MaxSlot
Chunks == 1 .. NumChunks
Ops == {"DoTx", "DoTxIterative", "TransmitTx", "DoTxHolder", "DoTxHolderIterative",
        "Deposit", "Other"}
Instrs == [op : Ops, chain : {Chain, OtherChain}, hash : Hashes, chunk : Chunks]

ASSUME BlockParserAssumption ==
  /\ BadLog \notin TxResults
  /\ MaxSlot \in Nat /\ StartSlot \in Slots /\ SkippedSlots \subseteq Slots
  /\ {MaxParseBehind, BatchSize} \subseteq Nat \ {0}
  /\ {MaxSlotHistory, MaxUpdates, MaxQueued, MaxRestarts} \subseteq Nat
  /\ Contents \cup {Prior} \subseteq
       Seq([err : BOOLEAN, meta : TxResults \cup {BadLog}, instrs : Seq(Instrs)])

VARIABLES
  store,      \* SolanaBlockStorage: block of a slot
  events,     \* reorg event channel
  parser,     \* DefaultTxParser
  pc,         \* "idle", "slot", "parent", "stopped", "panicked"
  goal,       \* to_slot of restore_or_produce_until_in_sync
  from, to,   \* current_slot and to_slot of the batch
  next,       \* slot_number of parse_blocks_batch, final_slot of parse
  walk,       \* current_slot of parse
  count,      \* blocks_parsed
  out,        \* parse results of the slots parsed
  warned,     \* history: slots whose transactions were not all registered
  skipped,    \* history: changed slots whose reorg event was lost, and slots
              \* the cursor jumped over on a later event
  forgot,     \* history: transactions were dropped from the parser
  updates, restarts

loaderVars == <<store, events, updates>>
cursorVars == <<goal, from, to, next>>
historyVars == <<warned, skipped, forgot>>
vars == <<loaderVars, parser, pc, cursorVars, walk, count, out, historyVars, restarts>>

NoBlock == [parent |-> 0, txs |-> <<>>, stored |-> FALSE]
Block(p, txs) == [parent |-> p, txs |-> txs, stored |-> TRUE]
Stored(s) == s \in Slots /\ store[s].stored
LastSlot == CHOOSE s \in 0 .. MaxSlot : /\ s = 0 \/ store[s].stored
                                    /\ \A t \in (s + 1) .. MaxSlot : ~store[t].stored

NotParsed == <<[hash |-> "not parsed", result |-> NoResult]>>

TypeOK ==
  /\ \A s \in Slots : /\ store[s].parent \in 0 .. (s - 1)
                      /\ store[s].txs \in Contents \cup {<<>>}
  /\ events \in Seq(Slots)
  /\ \A h \in DOMAIN parser.txs :
       h \in Hashes /\ parser.txs[h] \in EvmTxs
  /\ \A s \in DOMAIN parser.results :
       /\ s \in Slots /\ DOMAIN parser.results[s] \subseteq Hashes
       /\ \A h \in DOMAIN parser.results[s] : \A i \in DOMAIN parser.results[s][h] :
            i \in Nat /\ parser.results[s][h][i] \in TxResults
  /\ pc \in {"idle", "slot", "parent", "stopped", "panicked"}
  /\ {goal, from, to, next, walk} \subseteq 0 .. MaxSlot
  /\ count \in 0 .. MaxParseBehind
  /\ \A s \in Slots : out[s] = NotParsed \/ out[s] \in Seq([hash : Hashes, result : Results])
  /\ warned \subseteq Slots /\ skipped \subseteq Slots /\ forgot \in BOOLEAN
  /\ updates \in 0 .. MaxUpdates /\ restarts \in 0 .. MaxRestarts

Init ==
  /\ store = [s \in Slots |-> NoBlock]
  /\ events = <<>> /\ updates = 0 /\ restarts = 0
  /\ parser = NewParser
  /\ pc = "idle"
  /\ goal = StartSlot /\ from = StartSlot /\ to = StartSlot /\ next = StartSlot
  /\ walk = 0 /\ count = 0
  /\ out = [s \in Slots |-> NotParsed]
  /\ warned = {} /\ skipped = {} /\ forgot = FALSE

-----------------------------------------------------------------------------
(* Solana and the loader.                                                  *)

(* Instructions of the rollup's transactions that succeeded, in the order  *)
(* of execution along the ancestors of a block.                            *)
Done(txs) ==
  FlattenSeq([i \in DOMAIN txs |-> IF txs[i].err THEN <<>>
                                   ELSE [k \in DOMAIN txs[i].instrs |->
                                           [in |-> txs[i].instrs[k], meta |-> txs[i].meta]]])
Path[s \in 0 .. MaxSlot] ==
  IF s = 0 THEN Done(Prior) ELSE Path[store[s].parent] \o Done(store[s].txs)

Holders == {"DoTxHolder", "DoTxHolderIterative"}

(* The program executes from a holder only what is whole in it, and a      *)
(* transaction other than a deposit only once.                             *)
Executable(hist) ==
  \A k \in DOMAIN hist :
    LET e == hist[k].in
        earlier(P(_)) == \E j \in 1 .. (k - 1) : hist[j].in.hash = e.hash /\ P(hist[j])
    IN  /\ e.op \in Holders =>
             \A c \in Chunks : earlier(LAMBDA x : x.in.op = "TransmitTx" /\ x.in.chunk = c)
        /\ hist[k].meta \in Results /\ e.op \notin {"TransmitTx", "Deposit", "Other"} =>
             ~earlier(LAMBDA x : x.meta \in Results /\ x.in.op # "TransmitTx")

(* What a block on top of block p may hold.                                *)
Possible(p) == {txs \in Contents : Executable(Path[p] \o Done(txs))}

(* The next block is stored.  Only BeginSync looks for the last block, so  *)
(* nothing is lost by storing between two batches.                         *)
StoreBlock(s) ==
  /\ pc = "idle"
  /\ s \in Slots \ SkippedSlots
  /\ LastSlot < s /\ (LastSlot + 1) .. (s - 1) \subseteq SkippedSlots
  /\ \E txs \in Possible(LastSlot) : store' = [store EXCEPT ![s] = Block(LastSlot, txs)]
  /\ UNCHANGED <<events, updates, parser, pc, cursorVars, walk, count, out, historyVars, restarts>>

(* A stored block is replaced and announced, between two batches or while  *)
(* the parser waits for a parent.                                          *)
UpdateBlock(s) ==
  /\ pc \in {"idle", "parent"}
  /\ updates < MaxUpdates /\ Len(events) < MaxQueued
  /\ Stored(s)
  /\ \E txs \in Possible(store[s].parent) \ {store[s].txs} :
       store' = [store EXCEPT ![s].txs = txs]
  /\ events' = Append(events, s)
  /\ updates' = updates + 1
  /\ UNCHANGED <<parser, pc, cursorVars, walk, count, out, historyVars, restarts>>

-----------------------------------------------------------------------------
(* register_block *)

(* process_do_tx, process_do_tx_iterative, process_do_tx_holder,           *)
(* process_do_tx_holder_iterative, process_deposit_tx, process_transmit_tx *)
ParsedStep(op, chunk, meta) ==
  CASE op \in {"DoTx", "DoTxIterative"} -> SmallTx(meta)
    [] op \in Holders -> BigTx(meta)
    [] op = "Deposit" -> SmallTx(CHOOSE r \in Results : TRUE)  \* TxResult::default()
    [] op = "TransmitTx" -> TransmitTx(chunk)

(* An instruction is left out, with a warning at most, when it is not of   *)
(* this rollup or the log of its transaction cannot be parsed.             *)
Accepted(instr, meta) ==
  /\ instr.op # "Other" /\ instr.chain = Chain
  /\ meta = BadLog => instr.op \in {"TransmitTx", "Deposit"}

(* The accepted instructions of transaction i for hash h; or_insert keeps  *)
(* the first one.                                                          *)
Of(txs, i, h) ==
  {k \in DOMAIN txs[i].instrs : /\ ~txs[i].err
                                /\ Accepted(txs[i].instrs[k], txs[i].meta)
                                /\ txs[i].instrs[k].hash = h}

(* parse_solana_block with the instruction parser of register_block.  The  *)
(* code also makes an empty entry for a hash all of whose steps have bad   *)
(* logs; it is left out, and only a replaced slot can show it: the first   *)
(* pass keeps the emptied results of that hash instead of dropping them.   *)
ParsedTxs(txs) ==
  LET hashes == {h \in Hashes : \E i \in DOMAIN txs : Of(txs, i, h) # {}}
  IN  [h \in hashes |->
         [i \in {j \in DOMAIN txs : Of(txs, j, h) # {}} |->
            LET instr == txs[i].instrs[Lowest(Of(txs, i, h))]
            IN  ParsedStep(instr.op, instr.chunk, txs[i].meta)]]

-----------------------------------------------------------------------------
(* parse_blocks_batch and the loops around it.                             *)

(* try_recv of run: an event sets the cursor, wherever it was.             *)
ReceiveReorg ==
  /\ pc = "idle" /\ from = goal /\ events # <<>>
  /\ LET e == Head(events)
     IN  /\ from' = e /\ to' = e /\ next' = e /\ goal' = e
         /\ out' = [s \in Slots |-> IF s >= e THEN NotParsed ELSE out[s]]
         /\ skipped' = (skipped \cup from .. (e - 1)) \ (e .. MaxSlot)
  /\ events' = Tail(events)
  /\ UNCHANGED <<store, updates, parser, pc, walk, count, warned, forgot, restarts>>

Batch(g) ==
  /\ goal' = g
  /\ to' = IF g - from < BatchSize THEN g ELSE from + BatchSize
  /\ pc' = "slot"
  /\ UNCHANGED <<loaderVars, parser, from, next, walk, count, out, historyVars, restarts>>

(* restore_or_produce_until_in_sync reads the last slot and begins with    *)
(* the first batch.                                                        *)
BeginSync ==
  /\ pc = "idle" /\ from = goal /\ events = <<>> /\ from < LastSlot
  /\ Batch(LastSlot)

(* Its next batch.                                                         *)
BeginBatch ==
  /\ pc = "idle" /\ from < goal
  /\ Batch(goal)

(* Mutant of MaxBlocks: the walk goes back to the first slot.              *)
MaxBlocksAll == next

(* Mutant of MaxBlocks: one block less.                                    *)
MaxBlocksShort == (IF next < MaxParseBehind THEN next ELSE MaxParseBehind) - 1

MaxBlocks == IF next < MaxParseBehind THEN next ELSE MaxParseBehind

(* One round of the loop of parse: a block is registered, then the final   *)
(* slot is finished, given up or continued with the parent.                *)
Round(slot, n) ==
  \E r \in register_slot_transactions(parser, slot, ParsedTxs(store[slot].txs)) :
    /\ parser' = r.parser
    /\ warned' = IF r.ok THEN warned ELSE warned \cup {slot}
    /\ \E status \in is_slot_complete(r.parser, next) :
         \/ /\ status = "panic"
            /\ pc' = "panicked" /\ UNCHANGED <<out, next, walk, count>>
         \/ /\ status = "complete"
            /\ IF \A h \in Finished(r.parser, next) : builds(r.parser.txs[h])
               THEN \E txs \in finalize_slot(r.parser, next) :
                      /\ out' = [out EXCEPT ![next] = txs]
                      /\ next' = next + 1 /\ pc' = "slot" /\ walk' = 0 /\ count' = 0
               ELSE pc' = "stopped" /\ UNCHANGED <<out, next, walk, count>>
         \/ /\ status = "incomplete"
            /\ walk' = slot /\ count' = n
            /\ pc' = IF n >= MaxBlocks THEN "stopped" ELSE "parent"
            /\ UNCHANGED <<out, next>>

ParseFinal ==
  /\ pc = "slot" /\ next < to /\ Stored(next)
  /\ Round(next, 1)
  /\ UNCHANGED <<loaderVars, goal, from, to, skipped, forgot, restarts>>

(* A slot without a block.                                                 *)
ParseNone ==
  /\ pc = "slot" /\ next < to /\ ~Stored(next)
  /\ out' = [out EXCEPT ![next] = <<>>]
  /\ next' = next + 1
  /\ UNCHANGED <<loaderVars, parser, pc, goal, from, to, walk, count, historyVars, restarts>>

(* get_block_with_retries of the parent of the block just registered.      *)
ParseParent ==
  /\ pc = "parent"
  /\ LET p == store[walk].parent
     IN  \/ /\ Stored(p) /\ Round(p, count + 1)
         \/ /\ ~Stored(p)
            /\ pc' = "stopped"
            /\ UNCHANGED <<parser, warned, walk, count, out, next>>
  /\ UNCHANGED <<loaderVars, goal, from, to, skipped, forgot, restarts>>

KeepSlots == IF MaxParseBehind > MaxSlotHistory THEN MaxParseBehind ELSE MaxSlotHistory

(* The end of a batch, with retain_storages of its first slot.  The block  *)
(* storages keep all blocks: their retain_from_slot does nothing.          *)
EndBatch ==
  /\ pc = "slot" /\ next = to
  /\ parser' = IF from > KeepSlots THEN retain_from_slot(parser, from - KeepSlots) ELSE parser
  /\ forgot' = (forgot \/ parser'.txs # parser.txs)
  /\ from' = to /\ pc' = "idle"
  /\ UNCHANGED <<loaderVars, goal, to, next, walk, count, out, warned, skipped, restarts>>

(* The indexer ends, on an error or not, and starts with an empty parser   *)
(* from the configured slot or one whose blocks were registered; reorg     *)
(* events not yet received are lost.                                       *)
Restart ==
  /\ restarts < MaxRestarts
  /\ \E s \in {StartSlot} \cup {t \in Slots : t < from /\ out[t] \notin {NotParsed, <<>>}} :
       /\ from' = s /\ to' = s /\ next' = s /\ goal' = s
       /\ out' = [t \in Slots |-> IF t >= s THEN NotParsed ELSE out[t]]
       /\ skipped' = (skipped \cup ToSet(events)) \ (s .. MaxSlot)
       /\ warned' = warned \ (s .. MaxSlot)
  /\ parser' = NewParser /\ pc' = "idle" /\ forgot' = TRUE
  /\ walk' = 0 /\ count' = 0
  /\ events' = <<>> /\ restarts' = restarts + 1
  /\ UNCHANGED <<store, updates>>

Next ==
  \/ \E s \in Slots : StoreBlock(s) \/ UpdateBlock(s)
  \/ ReceiveReorg \/ BeginSync \/ BeginBatch
  \/ ParseFinal \/ ParseNone \/ ParseParent
  \/ EndBatch \/ Restart

Spec == Init /\ [][Next]_vars

-----------------------------------------------------------------------------
(* What the blocks say.                                                    *)

(* Solana transaction i of a slot finished h of this rollup by one of ops. *)
FinishesBy(txs, i, h, ops) ==
  \E k \in DOMAIN txs[i].instrs :
    LET e == txs[i].instrs[k]
    IN  /\ ~txs[i].err /\ e.chain = Chain /\ e.hash = h /\ e.op \in ops
        /\ e.op = "Deposit" \/ txs[i].meta \in Results

Finishes(txs, i, h) == FinishesBy(txs, i, h, Ops \ {"TransmitTx", "Other"})
FinishedFromHolder(txs) == {h \in Hashes : \E i \in DOMAIN txs : FinishesBy(txs, i, h, Holders)}
FinishedIn(txs) == {h \in Hashes : \E i \in DOMAIN txs : Finishes(txs, i, h)}
FirstFinish(txs, h) == Lowest({i \in DOMAIN txs : Finishes(txs, i, h)})

(* The last n blocks up to slot s, and the chunks of h in them.            *)
Window(s, n) ==
  LET back[k \in 0 .. n] ==
        IF k = 0 THEN s ELSE IF Stored(back[k - 1]) THEN store[back[k - 1]].parent ELSE 0
  IN  {t \in {back[k] : k \in 0 .. (n - 1)} : Stored(t)}
ChunksIn(S, h) ==
  {c \in Chunks : \E s \in S : \E i \in DOMAIN store[s].txs :
     /\ ~store[s].txs[i].err
     /\ \E k \in DOMAIN store[s].txs[i].instrs :
          LET e == store[s].txs[i].instrs[k]
          IN  e.op = "TransmitTx" /\ e.chain = Chain /\ e.hash = h /\ e.chunk = c}

(* out[s] lists, in the order of the Solana transactions, one entry for    *)
(* each that was the first of the slot to finish some transaction.         *)
AsStored(s) ==
  LET txs   == store[s].txs
      order == InOrder({FirstFinish(txs, h) : h \in FinishedIn(txs)})
  IN  /\ Len(out[s]) = Len(order)
      /\ \A k \in DOMAIN order :
           /\ out[s][k].hash \in {h \in FinishedIn(txs) : FirstFinish(txs, h) = order[k]}
           /\ txs[order[k]].meta \in Results => out[s][k].result = txs[order[k]].meta

(***************************************************************************)
(* The parse results of every slot behind the cursor are what the stored   *)
(* block says, whatever the order in which its chunks landed, however      *)
(* often the slot was walked over on behalf of others, was replaced or was *)
(* pruned from the parser, and whatever forks left behind in it.  Excepted *)
(* are slots that a pending reorg event announces, those whose event was   *)
(* lost or overtaken by one for a later slot (rollup_indexer.rs:220), and  *)
(* those whose registration failed with a warning because a transaction    *)
(* sent whole was also sent through a holder (default_tx_parser.rs:67).    *)
(***************************************************************************)
ParsedAsStored ==
  \A s \in StartSlot .. (next - 1) :
    s \notin warned \cup skipped \cup ToSet(events) => AsStored(s)

(***************************************************************************)
(* parse ends the indexer only for want of data: some transaction that was *)
(* finished from a holder in the slot has a chunk that is not in the last  *)
(* MAX_PARSE_BEHIND blocks.  The exceptions: the parser has forgotten      *)
(* transactions (a restart, or max_slot_history) or has not read all slots *)
(* (skipped), and then the first chunks, found before the others on the    *)
(* way back, pass for the whole (is_data_complete); a reorg event still    *)
(* waits, so that blocks behind the cursor are not those registered; or a  *)
(* registration failed with a warning.  Only in the last case may it panic *)
(* (default_tx_parser.rs:222).                                             *)
(***************************************************************************)
StopsOnlyWithoutData ==
  /\ pc = "panicked" => warned # {}
  /\ pc = "stopped" /\ warned = {} /\ events = <<>> =>
       \E h \in FinishedFromHolder(store[next].txs) :
         \/ ChunksIn(Window(next, MaxParseBehind), h) # Chunks
         \/ /\ forgot \/ skipped # {}
            /\ \E n \in 1 .. (NumChunks - 1) : parser.txs[h].pieces = 1 .. n

-----------------------------------------------------------------------------
(* What is said of blocks and their contents in the theorems.              *)

(* The conditions on the contents of a block under which a slot's report   *)
(* is decided by its block alone: the instructions of a Solana transaction *)
(* for one hash are of one kind (the parser keeps only the first one), and *)
(* a deposit has no result of its own in the log (it is given the default  *)
(* result).                                                                *)
Plain(txs) ==
  \A i \in DOMAIN txs : \A k \in DOMAIN txs[i].instrs :
    ~txs[i].err /\ Accepted(txs[i].instrs[k], txs[i].meta) =>
      /\ txs[i].instrs[k].op = "Deposit" => txs[i].meta \notin Results
      /\ \A l \in DOMAIN txs[i].instrs :
           Accepted(txs[i].instrs[l], txs[i].meta) /\ txs[i].instrs[l].hash = txs[i].instrs[k].hash =>
             txs[i].instrs[l].op = txs[i].instrs[k].op

PlainBlocks == \A txs \in Contents : Plain(txs)

(* A hash finished by an instruction that has the whole transaction, and a *)
(* hash of which some instruction says that it is in a holder.             *)
Small == {"DoTx", "DoTxIterative", "Deposit"}
FinishedWhole(txs, h) == \E i \in DOMAIN txs : FinishesBy(txs, i, h, Small)
ThroughHolder(txs, h) ==
  \E i \in DOMAIN txs : \E k \in Of(txs, i, h) : txs[i].instrs[k].op \in Holders \cup {"TransmitTx"}

(* The conditions under which a slot is given up only for want of data: a  *)
(* hash that is finished whole is not sent through a holder as well, a     *)
(* Solana transaction with a chunk of a hash has no other instruction for  *)
(* it, and no block is stored below the first slot to index.               *)
OneWay ==
  /\ \A a, b \in Contents : \A h \in Hashes : FinishedWhole(a, h) => ~ThroughHolder(b, h)
  /\ \A txs \in Contents : \A i \in DOMAIN txs : \A h \in Hashes : \A k, l \in Of(txs, i, h) :
       txs[i].instrs[k].op = "TransmitTx" => k = l
FromFirstBlock == 1 .. (StartSlot - 1) \subseteq SkippedSlots
=============================================================================
