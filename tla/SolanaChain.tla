---------------------------- MODULE SolanaChain ----------------------------
(***************************************************************************)
(* The Solana network as the RPC providers show it to the indexer: the     *)
(* environment of SolanaBlockLoader.  It is not part of the repository;    *)
(* it is modelled from the calls of the SolanaClient trait                 *)
(* (get_slot_with_commitment, get_block_with_config).                      *)
(*                                                                         *)
(* A block is abstracted to the version of the fork it was produced on     *)
(* (two blocks on a slot have equal blockhashes iff their versions are     *)
(* equal) and to its parent slot.  Version 0 stands for a skipped slot.    *)
(***************************************************************************)
EXTENDS Naturals, FiniteSets

CONSTANTS
  MaxSlot,    \* the highest slot of the bounded chain
  MaxForks    \* how many times the confirmed part of the chain may switch

ASSUME ChainAssumption ==
  /\ MaxSlot \in Nat \ {0}
  /\ MaxForks \in Nat

VARIABLES
  chain,        \* chain[s]: version of the block on slot s, 0 if there is none
  fork,         \* version given to new blocks
  confirmed,    \* highest confirmed slot (0: genesis only)
  finalized     \* highest finalized slot

chainVars == <<chain, fork, confirmed, finalized>>

Slots == 1 .. MaxSlot
Versions == 0 .. (MaxForks + 1)
Skipped == 0

(* A block as the client returns it; NoBlock is the answer Ok(None).       *)
Blocks == [ver : Versions, parent : 0 .. MaxSlot]
NoBlock == [ver |-> Skipped, parent |-> 0]

ChainTypeOK ==
  /\ chain \in [Slots -> Versions]
  /\ fork \in 1 .. (MaxForks + 1)
  /\ confirmed \in 0 .. MaxSlot
  /\ finalized \in 0 .. MaxSlot

(* The parent of a block is the nearest lower slot that holds a block.     *)
ParentOf(s) ==
  IF \E t \in 1 .. (s - 1) : chain[t] # Skipped
  THEN CHOOSE t \in 1 .. (s - 1) :
         chain[t] # Skipped /\ \A u \in (t + 1) .. (s - 1) : chain[u] = Skipped
  ELSE 0

(* get_block_with_config for a slot the provider knows, when it answers    *)
(* with what it knows.                                                     *)
BlockAt(s) ==
  IF chain[s] = Skipped THEN NoBlock
  ELSE [ver |-> chain[s], parent |-> ParentOf(s)]

(* A slot that get_slot_with_commitment may report: the tip of a bank.     *)
Reported(s) == s = 0 \/ (s \in Slots /\ chain[s] # Skipped)

ChainInit ==
  /\ chain = [s \in Slots |-> Skipped]
  /\ fork = 1
  /\ confirmed = 0
  /\ finalized = 0

(* Slot n is confirmed; the slots in between had no block.                 *)
Confirm(n) ==
  /\ n \in (confirmed + 1) .. MaxSlot
  /\ chain' = [chain EXCEPT ![n] = fork]
  /\ confirmed' = n
  /\ UNCHANGED <<fork, finalized>>

(* A confirmed slot becomes final.                                         *)
Finalize(n) ==
  /\ n \in (finalized + 1) .. confirmed
  /\ chain[n] # Skipped
  /\ finalized' = n
  /\ UNCHANGED <<chain, fork, confirmed>>

(* The slots from s to the tip switch to another fork: every block there   *)
(* gets a new hash, and slots may gain or lose their block.                *)
SwitchFork(s, present) ==
  /\ fork <= MaxForks
  /\ s \in (finalized + 1) .. confirmed
  /\ present \subseteq s .. confirmed
  /\ s \in present /\ confirmed \in present
  /\ fork' = fork + 1
  /\ chain' = [t \in Slots |->
                 IF t \in s .. confirmed
                 THEN IF t \in present THEN fork + 1 ELSE Skipped
                 ELSE chain[t]]
  /\ UNCHANGED <<confirmed, finalized>>

ChainNext ==
  \/ \E n \in Slots : Confirm(n)
  \/ \E n \in Slots : Finalize(n)
  \/ \E s \in Slots : \E present \in SUBSET Slots : SwitchFork(s, present)
=============================================================================
