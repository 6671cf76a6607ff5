------------------------ MODULE EthereumBlockStorage ------------------------
(***************************************************************************)
(* The tables of the PostgreSQL EthereumBlockStorage and the procedures    *)
(* and views on them, as operators.                                        *)
(*                                                                         *)
(*   sol  the sol_slot table: what the Solana block loader has stored      *)
(*   eth  the eth_block table: for every slot the sequence of the Ethereum *)
(*        blocks parsed from it; block i of the sequence has               *)
(*        slot_block_idx i - 1                                             *)
(*                                                                         *)
(* A Solana block is abstracted to the version of its content, an Ethereum *)
(* block's transactions to the slot, index and version they were parsed    *)
(* from (its content).  A blockhash is the sequence of the contents from   *)
(* the first block up to the hashed one: it determines number, parent and  *)
(* content and nothing else does.  << >> is the genesis hash; in a row it  *)
(* stands for params IS NULL.                                              *)
(***************************************************************************)
EXTENDS Naturals, Sequences, FiniteSets

CONSTANTS
  MaxSlot,   \* the highest Solana slot
  Count      \* Count[s][v]: number of Ethereum blocks in version v of slot s

Slots == 1 .. MaxSlot
ContentVersions == {1, 2}

ASSUME StorageAssumption ==
  /\ MaxSlot \in Nat \ {0}
  /\ Count \in [Slots -> [ContentVersions -> 0 .. 2]]

Genesis == << >>

SolRow == [status : {"Absent", "Confirmed", "Finalized"},
           ver : {0} \cup ContentVersions, parent : 0 .. MaxSlot]
NoSlot == [status |-> "Absent", ver |-> 0, parent |-> 0]
Stored(sol, s) == s \in Slots /\ sol[s].status # "Absent"

(* get_last_slot, 0 for NULL *)
LastSlot(sol) ==
  IF \E s \in Slots : Stored(sol, s)
  THEN CHOOSE s \in Slots : Stored(sol, s) /\ \A t \in Slots : Stored(sol, t) => t <= s
  ELSE 0

(* The stored slots on the fork that ends with slot s.                     *)
Branch(sol, s) ==
  LET up[t \in Slots] ==
        {t} \cup IF Stored(sol, sol[t].parent) THEN up[sol[t].parent] ELSE {}
  IN  IF Stored(sol, s) THEN up[s] ELSE {}

(* An Ethereum block is identified by slot and position in the slot.       *)
Content(id, ver) == <<id[1], id[2], ver>>
Before(a, b) == a[1] < b[1] \/ (a[1] = b[1] /\ a[2] < b[2])
FirstId(ids) == CHOOSE a \in ids : \A b \in ids : a = b \/ Before(a, b)
LastId(ids) == CHOOSE a \in ids : \A b \in ids : a = b \/ Before(b, a)

Ids(eth) == UNION {{s} \X DOMAIN eth[s] : s \in Slots}
Row(eth, id) == eth[id[1]][id[2]]
IsProduced(eth, id) == Row(eth, id).hash # Genesis
ProducedIds(eth) == {id \in Ids(eth) : IsProduced(eth, id)}

(* latest_eth_block, the highest produced number; 0 for NULL.              *)
latest_block(eth) ==
  IF ProducedIds(eth) = {} THEN 0
  ELSE CHOOSE n \in {Len(Row(eth, id).hash) : id \in ProducedIds(eth)} :
         \A id \in ProducedIds(eth) : Len(Row(eth, id).hash) <= n

(* get_slot_for_eth_block: the slots whose produced block has this number. *)
SlotsForEthBlock(eth, n) == {id[1] : id \in {x \in ProducedIds(eth) : Len(Row(eth, x).hash) = n}}

get_max_slot_produced(eth) == LastId(ProducedIds(eth))[1]

(* Mutant of register_parse_results: only the first block of a slot.       *)
register_first_block(eth, parsed) ==
  [s \in Slots |->
     IF parsed[s] = 0 \/ Count[s][parsed[s]] = 0 \/ eth[s] # << >> THEN eth[s]
     ELSE <<[ver |-> parsed[s], hash |-> Genesis, receipt |-> FALSE]>>]

(* The header rows of register_parse_results: INSERT ... ON CONFLICT DO    *)
(* NOTHING for each block of each parsed slot.  The rows of eth_block_txs  *)
(* are inserted in the same way and are left out: a version of a slot      *)
(* parsed over the rows of another one adds transactions there, under the  *)
(* header that stays.                                                      *)
register_parse_results(eth, parsed) ==
  [s \in Slots |->
     IF parsed[s] = 0 THEN eth[s]
     ELSE [i \in 1 .. (IF Len(eth[s]) > Count[s][parsed[s]] THEN Len(eth[s])
                       ELSE Count[s][parsed[s]]) |->
             IF i \in DOMAIN eth[s] THEN eth[s][i]
             ELSE [ver |-> parsed[s], hash |-> Genesis, receipt |-> FALSE]]]

(* Mutants of clean_from_slot: the slot itself stays; the slots above stay.*)
clean_after_slot(eth, slot) ==
  [s \in Slots |-> IF s > slot THEN << >> ELSE eth[s]]
clean_slot_only(eth, slot) ==
  [s \in Slots |-> IF s = slot THEN << >> ELSE eth[s]]

clean_from_slot(eth, slot) ==
  [s \in Slots |-> IF s >= slot THEN << >> ELSE eth[s]]

(* block_produced: UPDATE ... WHERE params IS NULL.  hashes is a function  *)
(* from block ids to hashes.                                               *)
block_produced(eth, hashes) ==
  [s \in Slots |-> [i \in DOMAIN eth[s] |->
     IF <<s, i>> \in DOMAIN hashes /\ eth[s][i].hash = Genesis
     THEN [eth[s][i] EXCEPT !.hash = hashes[<<s, i>>]]
     ELSE eth[s][i]]]

(* Mutant of store_receipts: only the first block of the call.             *)
store_first_receipts(eth, ids) ==
  [s \in Slots |-> [i \in DOMAIN eth[s] |->
     IF <<s, i>> \in ids /\ <<s, i>> = FirstId(ids) THEN [eth[s][i] EXCEPT !.receipt = TRUE] ELSE eth[s][i]]]

(* TransactionStorage::blocks_produced: the receipt parameters.            *)
store_receipts(eth, ids) ==
  [s \in Slots |-> [i \in DOMAIN eth[s] |->
     IF <<s, i>> \in ids THEN [eth[s][i] EXCEPT !.receipt = TRUE] ELSE eth[s][i]]]

(***************************************************************************)
(* pending_blocks_with_slot_statuses2: from the highest slot with Ethereum *)
(* blocks down the parent slots, until a Finalized slot with a produced    *)
(* block (which is included).  Of the first slot only the blocks that are  *)
(* not produced are selected.                                              *)
(***************************************************************************)
TopSlot(eth) == LastId(Ids(eth))[1]

Descends(sol, eth, s) ==
  /\ Stored(sol, sol[s].parent)
  /\ \/ sol[s].status # "Finalized"
     \/ ~ \E id \in ProducedIds(eth) : id[1] = s

WalkedSlots(sol, eth) ==
  LET walk[s \in Slots] ==
        {s} \cup IF Descends(sol, eth, s) THEN walk[sol[s].parent] ELSE {}
  IN  IF Ids(eth) = {} THEN {} ELSE walk[TopSlot(eth)]

ViewIds(sol, eth) ==
  {id \in Ids(eth) : /\ id[1] \in WalkedSlots(sol, eth)
                     /\ id[1] = TopSlot(eth) => ~IsProduced(eth, id)}

(* get_pending_blocks *)
PendingIds(sol, eth) == {id \in ViewIds(sol, eth) : ~IsProduced(eth, id)}

(* Mutant of ParentHash: the highest produced block whatever its fork.     *)
AnyForkParentHash(sol, eth) ==
  LET produced == ProducedIds(eth)
  IN  IF produced = {} THEN {} ELSE {Row(eth, LastId(produced)).hash}

(* parent_hash: the set with the hash, {} for None.                        *)
ParentHash(sol, eth) ==
  LET produced == {id \in ViewIds(sol, eth) : IsProduced(eth, id)}
  IN  IF produced = {} THEN {} ELSE {Row(eth, LastId(produced)).hash}

(* Mutant of FinalizedIds: the slot status is ignored.                     *)
LastViewId(sol, eth) ==
  IF ViewIds(sol, eth) = {} THEN {} ELSE {LastId(ViewIds(sol, eth))}

(* finalized_block: the set with the id of the highest block of a          *)
(* Finalized slot, {} for None.                                            *)
FinalizedIds(sol, eth) ==
  LET final == {id \in ViewIds(sol, eth) : sol[id[1]].status = "Finalized"}
  IN  IF final = {} THEN {} ELSE {LastId(final)}
=============================================================================
