----------------------------- MODULE SlotBlocks -----------------------------
(***************************************************************************)
(* From the executed transactions of a slot to its Ethereum blocks:        *)
(* parse_transaction_meta for each Solana transaction, the L1 attributes   *)
(* transaction in front, and create_eth_blocks, one step per transaction.  *)
(* The walk that collects transactions is the subject of BlockParser.      *)
(*                                                                         *)
(* Every slot has the number of its Solana block for a blockhash.  A hash  *)
(* is the record of what is hashed.  Solana is the environment: it         *)
(* executes transactions with one of several outcomes, whose lines         *)
(* of log the program writes in an order of its own among those of other   *)
(* programs, and may cut the log short.                                    *)
(***************************************************************************)
EXTENDS LogParser, Ordered

CONSTANTS
  MaxSlot,
  Deposits,     \* contents of deposit transactions
  Outcomes,     \* results of executions, TxResult values
  Orders,       \* orders of the lines after the events
  Cuts,         \* numbers of lines a cut log may have
  MaxTxs        \* bound on Solana transactions

NoSlot == 0

(* What the program reports.  The reason is there when there is a return   *)
(* value.                                                                  *)
ItemsOf(len) == {item \in Items : Length(item) = len}
Logs == [address : ItemsOf(20), topics : Seq(ItemsOf(32)), data : Items]
Reasons == {r \in [code : ItemsOf(1), reason : Items, return_value : Items] :
              r.reason = NoItem => r.return_value = NoItem}

Results == [exit_reason : Reasons, logs : Seq(Logs), gas_value : Nat, gas_price : Nat,
            gas_recipient : Nat]

(* The kinds of lines after the events: those of the report, each of which *)
(* is written, a line of another program, and one that is not data.        *)
Report == {"exit", "value", "price", "recipient"}

ASSUME SlotBlocksAssumption ==
  /\ MaxSlot \in Nat \ {0} /\ MaxTxs \in Nat /\ Cuts \subseteq Nat
  /\ Outcomes \subseteq Results
  /\ Orders \subseteq Seq(Report \cup {"other", "text"})
  /\ \A order \in Orders : \A kind \in Report : \E i \in DOMAIN order : order[i] = kind

VARIABLES
  parse_mode,             \* configuration
  enable_deposits_slot,   \* configuration, NoSlot for none
  slot,
  executed,     \* Solana transactions of the slot: [id, outcome, lines]
  stage,        \* "execute", "blocks", "done"
  transactions, \* Vec<(Transaction, TxResult)> of the slot
  pos,          \* next of them in create_eth_blocks
  block_txs, block_gas_used, gas_recipient, block_log_index, eth_blocks,
  turn,         \* number of Solana transactions so far
  history       \* all slots finished: executed, transactions and eth_blocks

config == <<parse_mode, enable_deposits_slot>>
blockVars == <<pos, block_txs, block_gas_used, gas_recipient, block_log_index, eth_blocks>>
vars == <<config, slot, executed, stage, transactions, blockVars, turn, history>>

-----------------------------------------------------------------------------
(* Hashes of transactions.                                                 *)

(* source_hash is zero before it is set.                                   *)
NoSource == [kind |-> "zero", blockhash |-> 0, n |-> 0]
create_l1_attributes_source_hash(s, blockhash) ==
  [kind |-> "attributes", blockhash |-> blockhash, n |-> s]
create_user_deposit_source_hash(blockhash, log_index) ==
  [kind |-> "user", blockhash |-> blockhash, n |-> log_index]

RollupTx(id) == [type |-> "rollup", id |-> id, source |-> NoSource]
DepositTx(d) == [type |-> "deposit", id |-> d, source |-> NoSource]
create_l1_attributes_tx(s, blockhash) ==
  [type |-> "system", id |-> 0, source |-> create_l1_attributes_source_hash(s, blockhash)]

(* Mutant of update_if_user_deposited_tx: the blockhash is left out.       *)
update_without_blockhash(tx, blockhash, log_index) ==
  IF tx.type # "deposit" THEN tx
  ELSE [tx EXCEPT !.source = create_user_deposit_source_hash(0, log_index)]

update_if_user_deposited_tx(tx, blockhash, log_index) ==
  IF tx.type # "deposit" THEN tx
  ELSE [tx EXCEPT !.source = create_user_deposit_source_hash(blockhash, log_index)]

-----------------------------------------------------------------------------
(* Solana and the program.                                                 *)

(* Data or a value that is not there is no item of the line.              *)
Present(item) == IF item = NoItem THEN <<>> ELSE <<item>>

EventLine(e) ==
  [data |-> TRUE,
   items |-> <<Tag("EVENT_LOG"), e.address, Item(1, Len(e.topics))>> \o e.topics \o Present(e.data)]
ResultLine(kind, o) ==
  [data |-> TRUE,
   items |-> CASE kind = "exit" ->
                    <<Tag("EXIT_REASON"), o.exit_reason.code, Item(8, 1)>>
                      \o Present(o.exit_reason.reason) \o Present(o.exit_reason.return_value)
               [] kind = "value" -> <<Tag("GAS_VALUE"), Item(32, o.gas_value)>>
               [] kind = "price" -> <<Tag("GAS_PRICE"), Item(32, o.gas_price)>>
               [] kind = "recipient" ->
                    IF o.gas_recipient = NoRecipient THEN <<>>
                    ELSE <<Tag("GAS_RECIPIENT"), Item(20, o.gas_recipient)>>]

(* A line of another program, and one that is not data.                    *)
OtherLine == [data |-> TRUE, items |-> <<Item(20, 9), Item(32, 9)>>]
TextLine == [data |-> FALSE, items |-> <<Tag("EXIT_REASON")>>]

LineOf(kind, o) ==
  CASE kind = "other" -> OtherLine [] kind = "text" -> TextLine [] OTHER -> ResultLine(kind, o)

Lines(o, order) ==
  <<OtherLine>> \o [i \in DOMAIN o.logs |-> EventLine(o.logs[i])]
    \o [i \in DOMAIN order |-> LineOf(order[i], o)]

Run(tx, o, lines, whole) ==
  /\ stage = "execute" /\ turn < MaxTxs
  /\ turn' = turn + 1
  /\ executed' = Append(executed, [tx |-> tx, outcome |-> o, lines |-> lines, whole |-> whole])
  /\ UNCHANGED <<config, slot, stage, transactions, blockVars, history>>

(* A rollup transaction is executed once and named by its turn.            *)
ExecuteTx(o, order) ==
  LET tx == RollupTx(turn + 1)
      lines == Lines(o, order)
  IN  \/ Run(tx, o, lines, TRUE)
      \/ \E k \in Cuts : k < Len(lines) /\ Run(tx, o, SubSeq(lines, 1, k), FALSE)

ExecuteDeposit(d) == Run(DepositTx(d), DefaultResult, <<>>, TRUE)

-----------------------------------------------------------------------------
(* BlockParseResult::new *)

ResultOf(e) == IF e.tx.type = "deposit" THEN {DefaultResult} ELSE parse_transaction_meta(e.lines)

(* finalize_slot: the first result of every hash, in order.                *)
Counts(i) == /\ ResultOf(executed[i]) # {}
             /\ \A j \in 1 .. (i - 1) : executed[j].tx = executed[i].tx => ResultOf(executed[j]) = {}
Finalized ==
  LET found == {i \in DOMAIN executed : Counts(i)}
  IN  [k \in 1 .. Cardinality(found) |->
         LET e == executed[InOrder(found)[k]]
         IN  [tx |-> e.tx, result |-> CHOOSE r \in ResultOf(e) : TRUE]]

parse_transactions ==
  IF enable_deposits_slot # NoSlot /\ slot >= enable_deposits_slot
  THEN <<[tx |-> create_l1_attributes_tx(slot, slot), result |-> DefaultResult]>> \o Finalized
  ELSE Finalized

Seal ==
  /\ stage = "execute"
  /\ transactions' = parse_transactions
  /\ stage' = "blocks"
  /\ pos' = 1 /\ block_txs' = <<>> /\ block_gas_used' = 0 /\ gas_recipient' = NoRecipient
  /\ block_log_index' = 0 /\ eth_blocks' = <<>>
  /\ UNCHANGED <<config, slot, executed, turn, history>>

-----------------------------------------------------------------------------
(* create_eth_blocks *)

EthBlock(txs, gas, recipient) == [transactions |-> txs, gas_used |-> gas, gas_recipient |-> recipient]

Current == transactions[pos]
Updated == update_if_user_deposited_tx(Current.tx, slot, block_log_index)

(* Every round of the loop begins with the hash of a deposit, written back *)
(* into transactions.                                                      *)
Round ==
  /\ stage = "blocks" /\ pos \in DOMAIN transactions
  /\ transactions' = [transactions EXCEPT ![pos].tx = Updated]
  /\ pos' = pos + 1
  /\ UNCHANGED <<config, slot, executed, stage, turn, history>>

NextLogIndex == block_log_index + Len(Current.result.logs)

(* The transaction joins the block at hand.                                *)
Join ==
  /\ block_txs' = Append(block_txs, Updated)
  /\ block_gas_used' = block_gas_used + Current.result.gas_value
  /\ block_log_index' = NextLogIndex
  /\ UNCHANGED <<gas_recipient, eth_blocks>>

SameRecipient ==
  /\ Round /\ parse_mode = "EngineApi"
  /\ Current.result.gas_recipient = gas_recipient
  /\ Join

(* First transaction with a gas recipient other than the default.          *)
FirstRecipient ==
  /\ Round /\ parse_mode = "EngineApi"
  /\ Current.result.gas_recipient # gas_recipient /\ block_txs = <<>>
  /\ block_txs' = <<Updated>>
  /\ block_gas_used' = Current.result.gas_value
  /\ gas_recipient' = Current.result.gas_recipient
  /\ block_log_index' = NextLogIndex
  /\ UNCHANGED eth_blocks

(* Mutant of NewRecipient: the gas of the block before is carried over.    *)
NewRecipientKeepsGas ==
  /\ Round /\ parse_mode = "EngineApi"
  /\ Current.result.gas_recipient # gas_recipient /\ block_txs # <<>>
  /\ eth_blocks' = Append(eth_blocks, EthBlock(block_txs, block_gas_used, gas_recipient))
  /\ block_txs' = <<Updated>>
  /\ block_gas_used' = block_gas_used + Current.result.gas_value
  /\ gas_recipient' = Current.result.gas_recipient
  /\ block_log_index' = 0

(* Another recipient: the block at hand is closed.  The log index starts   *)
(* at zero and so leaves out the logs of this transaction.                 *)
NewRecipient ==
  /\ Round /\ parse_mode = "EngineApi"
  /\ Current.result.gas_recipient # gas_recipient /\ block_txs # <<>>
  /\ eth_blocks' = Append(eth_blocks, EthBlock(block_txs, block_gas_used, gas_recipient))
  /\ block_txs' = <<Updated>>
  /\ block_gas_used' = Current.result.gas_value
  /\ gas_recipient' = Current.result.gas_recipient
  /\ block_log_index' = 0

SingleBlock ==
  /\ Round /\ parse_mode = "SingleState"
  /\ Join

(* The last block, and the next slot.                                      *)
Close ==
  /\ stage = "blocks" /\ pos = Len(transactions) + 1
  /\ LET blocks == IF block_txs = <<>> THEN eth_blocks
                   ELSE Append(eth_blocks, EthBlock(block_txs, block_gas_used, gas_recipient))
     IN  history' = [s \in 1 .. slot |->
                       IF s < slot THEN history[s]
                       ELSE [executed |-> executed, transactions |-> transactions,
                             eth_blocks |-> blocks]]
  /\ executed' = <<>> /\ transactions' = <<>>
  /\ pos' = 1 /\ block_txs' = <<>> /\ block_gas_used' = 0 /\ gas_recipient' = NoRecipient
  /\ block_log_index' = 0 /\ eth_blocks' = <<>>
  /\ IF slot < MaxSlot THEN slot' = slot + 1 /\ stage' = "execute"
     ELSE stage' = "done" /\ UNCHANGED slot
  /\ UNCHANGED <<config, turn>>

-----------------------------------------------------------------------------
Init ==
  /\ parse_mode \in {"EngineApi", "SingleState"}
  /\ enable_deposits_slot \in 0 .. MaxSlot
  /\ slot = 1 /\ executed = <<>> /\ stage = "execute" /\ transactions = <<>>
  /\ pos = 1 /\ block_txs = <<>> /\ block_gas_used = 0 /\ gas_recipient = NoRecipient
  /\ block_log_index = 0 /\ eth_blocks = <<>>
  /\ turn = 0 /\ history = <<>>

Next ==
  \/ \E o \in Outcomes, order \in Orders : ExecuteTx(o, order)
  \/ \E d \in Deposits : ExecuteDeposit(d)
  \/ Seal \/ SameRecipient \/ FirstRecipient \/ NewRecipient \/ SingleBlock \/ Close

Spec == Init /\ [][Next]_vars

-----------------------------------------------------------------------------
(* Executions exe reported as txs.                                         *)
Reported(exe, txs) ==
  /\ \A i \in DOMAIN exe : exe[i].tx.type = "rollup" /\ exe[i].whole =>
       \E k \in DOMAIN txs : txs[k] = [tx |-> exe[i].tx, result |-> exe[i].outcome]
  /\ \A k \in DOMAIN txs : txs[k].tx.type = "rollup" =>
       \E i \in DOMAIN exe : /\ exe[i].tx = txs[k].tx
                             /\ exe[i].outcome.exit_reason = txs[k].result.exit_reason
  /\ \A i, j \in DOMAIN exe : \A k, l \in DOMAIN txs :
       txs[k].tx.type = "rollup" /\ exe[i].tx = txs[k].tx /\ exe[j].tx = txs[l].tx /\ k < l => i < j

(***************************************************************************)
(* A transaction whose log is whole is reported with exactly the result it *)
(* was executed with (events, exit reason, gas), in whatever order the     *)
(* lines come and whatever other programs write; with a cut log it is left *)
(* out or has at least the exit reason it really had.  Nothing else is     *)
(* reported but deposits and the L1 attributes, and the order is that of   *)
(* the executions (parse_transaction_meta, finalize_slot).                 *)
(***************************************************************************)
ReportedAsExecuted ==
  \A s \in DOMAIN history : Reported(history[s].executed, history[s].transactions)

(* The transactions txs cut into blocks: the blocks up to b have those up  *)
(* to cut[b].                                                              *)
GasUpTo(txs) ==
  LET gas[k \in 0 .. Len(txs)] == IF k = 0 THEN 0 ELSE gas[k - 1] + txs[k].result.gas_value
  IN  gas

IsBlock(mode, block, txs, first, last) ==
  /\ first < last
  /\ block.transactions = [k \in 1 .. (last - first) |-> txs[first + k].tx]
  /\ block.gas_used = GasUpTo(txs)[last] - GasUpTo(txs)[first]
  /\ mode = "EngineApi" =>
       \A k \in (first + 1) .. last : txs[k].result.gas_recipient = block.gas_recipient

CutInto(mode, txs, blocks, cut) ==
  /\ cut[0] = 0
  /\ \A b \in DOMAIN blocks : IsBlock(mode, blocks[b], txs, cut[b - 1], cut[b])

Partitioned(mode, txs, blocks) ==
  /\ \E cut \in [0 .. Len(blocks) -> 0 .. Len(txs)] :
       CutInto(mode, txs, blocks, cut) /\ cut[Len(blocks)] = Len(txs)
  /\ mode = "EngineApi" =>
       \A b \in 2 .. Len(blocks) : blocks[b].gas_recipient # blocks[b - 1].gas_recipient
  /\ mode = "SingleState" => Len(blocks) <= 1

(***************************************************************************)
(* The blocks of a slot are its transactions cut into pieces: every        *)
(* transaction in exactly one block, in the order of execution, in         *)
(* EngineApi mode a new block exactly where the gas recipient changes, in  *)
(* SingleState mode one block at most; the gas used is the sum of the      *)
(* block's transactions (create_eth_blocks).                               *)
(***************************************************************************)
BlocksPartitionSlot ==
  \A s \in DOMAIN history :
    Partitioned(parse_mode, history[s].transactions, history[s].eth_blocks)

(***************************************************************************)
(* No transaction hash occurs twice in the blocks of the rollup, although  *)
(* a deposit may be repeated with the same content from slot to slot: its  *)
(* hash is made from the Solana blockhash (update_if_user_deposited_tx).   *)
(***************************************************************************)
HashesUnique ==
  \A s, t \in DOMAIN history :
    \A b \in DOMAIN history[s].eth_blocks, c \in DOMAIN history[t].eth_blocks :
      LET these == history[s].eth_blocks[b].transactions
          those == history[t].eth_blocks[c].transactions
      IN  \A i \in DOMAIN these, j \in DOMAIN those :
            these[i] = those[j] => s = t /\ b = c /\ i = j
=============================================================================
