-------------------------- MODULE MCRollupIndexer --------------------------
(* RollupIndexer on a few slots.                                           *)
EXTENDS RollupIndexer

(* One Ethereum block per slot.                                            *)
OneBlock == [s \in Slots |-> [v \in ContentVersions |-> 1]]

(* Two gas recipients, hence two blocks, on every slot.                    *)
TwoBlocks == [s \in Slots |-> [v \in ContentVersions |-> 2]]

(* An empty slot, slots of two blocks and one of a single block at the end. *)
MixedBlocks ==
  [s \in Slots |-> [v \in ContentVersions |->
                      IF s = 2 THEN 0 ELSE IF s = MaxSlot THEN 1 ELSE 2]]

NoFaults == {}
Crashes == {"crash", "call"}
AllFaults == FaultKinds
=============================================================================
