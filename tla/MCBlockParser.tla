---------------------------- MODULE MCBlockParser ----------------------------
(* BlockParser on a few slots: a transaction hb of two chunks sent through *)
(* a holder, a small one hs, a deposit hd.                                 *)
EXTENDS BlockParser

CONSTANTS hb, hs, hd, r1, r2

Tx(instrs, meta) == [err |-> FALSE, meta |-> meta, instrs |-> instrs]
In(op, h, c) == [op |-> op, chain |-> Chain, hash |-> h, chunk |-> c]
Foreign(op, h) == [op |-> op, chain |-> OtherChain, hash |-> h, chunk |-> 1]

T(c) == Tx(<<In("TransmitTx", hb, c)>>, NoResult)
Step == Tx(<<In("DoTxHolderIterative", hb, 1)>>, NoResult)
X(r) == Tx(<<In("DoTxHolder", hb, 1)>>, r)
S(r) == Tx(<<In("DoTx", hs, 1)>>, r)
Mixed == Tx(<<In("DoTxIterative", hb, 1)>>, NoResult)
D == Tx(<<In("Deposit", hd, 1)>>, NoResult)
(* A cross-rollup transaction with an instruction of another rollup.       *)
Cross(r) == Tx(<<Foreign("DoTx", hb), In("DoTx", hs, 1), In("Other", hs, 1)>>, r)

(* A failed transaction, and one whose log cannot be parsed.               *)
Ignored == <<[err |-> TRUE, meta |-> r1, instrs |-> <<In("DoTx", hs, 1)>>],
             Tx(<<In("DoTx", hs, 1)>>, BadLog)>>

ChunksBefore == <<T(1), T(2)>>

(* A step of hs that does not finish it.                                   *)
Iter == Tx(<<In("DoTxIterative", hs, 1)>>, NoResult)

BlockContents ==
  {<<T(1), T(2), Step>>, <<T(1), X(r1)>>, <<S(r1), X(r2)>>, Ignored \o <<D, D, Iter>>,
   <<T(2)>>, <<Mixed, T(2), Cross(r2)>>}

(* They meet the conditions of the theorems.                               *)
ASSUME BlockContentsAssumption == PlainBlocks /\ OneWay /\ FromFirstBlock
=============================================================================
