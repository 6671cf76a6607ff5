---------------------------- MODULE MCSlotBlocks ----------------------------
(* SlotBlocks with outcomes that differ in recipient, gas and events.      *)
EXTENDS SlotBlocks

Reason(code, reason, val) ==
  [code |-> Item(1, code), reason |-> reason, return_value |-> val]
Log(topics, data) ==
  [address |-> Item(20, 5), topics |-> [k \in 1 .. topics |-> Item(32, k)], data |-> data]

SomeOutcomes ==
  {TxResult(Reason(0, Item(4, 1), NoItem), <<Log(0, NoItem)>>, 1, 1, 1),
   TxResult(Reason(1, Item(6, 2), Item(36, 3)), <<>>, 2, 1, 2),
   TxResult(Reason(0, NoItem, NoItem),
            <<Log(2, Item(1, 4)), Log(1, Item(32, 4))>>, 3, 2, NoRecipient)}

SomeOrders == {<<"exit", "value", "price", "recipient">>,
               <<"recipient", "other", "price", "value", "text", "exit">>}
=============================================================================
