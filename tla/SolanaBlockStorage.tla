------------------------- MODULE SolanaBlockStorage -------------------------
(***************************************************************************)
(* The tables sol_slot and sol_block of the PostgreSQL SolanaBlockStorage  *)
(* as one value, and the stored procedures as operators on it.  The two    *)
(* tables always gain their rows together (set_block_with_status2), so     *)
(* one row per slot stands for both.  A call is one database transaction:  *)
(* it applies to all of its blocks or to none.                             *)
(***************************************************************************)
EXTENDS SolanaChain

Statuses == {"Absent", "Confirmed", "Finalized"}
Rows == [status : Statuses, ver : Versions, parent : 0 .. MaxSlot]
NoRow == [status |-> "Absent", ver |-> 0, parent |-> 0]

EmptyTable == [s \in Slots |-> NoRow]
Has(rows, s) == rows[s].status # "Absent"

(* get_last_slot(): MAX(slot_number), NULL on an empty table (here 0).     *)
get_last_slot(rows) ==
  IF \E s \in Slots : Has(rows, s)
  THEN CHOOSE s \in Slots : Has(rows, s) /\ \A t \in Slots : Has(rows, t) => t <= s
  ELSE 0

(* Mutant of store_blocks: ON CONFLICT DO UPDATE.                          *)
store_blocks_upsert(rows, blocks, finalizedSlot) ==
  [s \in Slots |->
     IF blocks[s] # NoBlock
     THEN [status |-> IF s <= finalizedSlot THEN "Finalized" ELSE "Confirmed",
           ver    |-> blocks[s].ver,
           parent |-> blocks[s].parent]
     ELSE rows[s]]

(* store_blocks: INSERT ... ON CONFLICT DO NOTHING for every loaded block, *)
(* with the status decided by the finalized slot the loader has read.      *)
store_blocks(rows, blocks, finalizedSlot) ==
  [s \in Slots |->
     IF blocks[s] # NoBlock /\ ~Has(rows, s)
     THEN [status |-> IF s <= finalizedSlot THEN "Finalized" ELSE "Confirmed",
           ver    |-> blocks[s].ver,
           parent |-> blocks[s].parent]
     ELSE rows[s]]

Unfinalized(rows, s) == s \in Slots /\ rows[s].status = "Confirmed"

(* A set closed under the recursive term of set_finalized_slot: with a     *)
(* slot it holds the slot's parent, when that is stored and not Finalized. *)
ClosedUnderParent(rows, S) ==
  \A s \in S : Unfinalized(rows, rows[s].parent) => rows[s].parent \in S

(* WITH RECURSIVE fork: the least set that holds the given slot (when it   *)
(* is stored and not Finalized) and is closed under the recursive term.    *)
FinalizedFork(rows, slot) ==
  {s \in Slots :
     /\ Unfinalized(rows, slot)
     /\ Unfinalized(rows, s)
     /\ \A S \in SUBSET Slots :
          slot \in S /\ ClosedUnderParent(rows, S) => s \in S}

(* set_finalized_slot: the UPDATE of the slots on the fork.                *)
set_finalized_slot(rows, slot) ==
  [s \in Slots |-> IF s \in FinalizedFork(rows, slot)
                   THEN [rows[s] EXCEPT !.status = "Finalized"]
                   ELSE rows[s]]

(* update_finalized_block2, as its text intends: insert or overwrite.      *)
update_finalized_blocks(rows, slots, blocks) ==
  [s \in Slots |-> IF s \in slots
                   THEN [status |-> "Finalized", ver |-> blocks[s].ver,
                         parent |-> blocks[s].parent]
                   ELSE rows[s]]
=============================================================================
