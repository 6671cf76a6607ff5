------------------------------ MODULE TxParser ------------------------------
(***************************************************************************)
(* DefaultTxParser: the rollup transactions found so far in Solana blocks. *)
(*                                                                         *)
(* A parser is a record                                                    *)
(*   txs      transactions_by_hash: EvmTx of every hash met,               *)
(*   results  results_by_slot: slot -> hash -> index of the Solana         *)
(*            transaction in its block -> result.                          *)
(* The bytes of a transaction are abstracted to the numbers of its chunks: *)
(* all of the bytes at one offset belong to the hash, so that a chunk is   *)
(* the same wherever it is found, and the transaction is decoded exactly   *)
(* from all of its chunks.                                                 *)
(***************************************************************************)
EXTENDS Ordered, Sequences, SequencesExt

CONSTANTS
  Hashes,
  NumChunks,    \* chunks of a transaction sent through a holder
  Results       \* TxResult values

NoResult == "none"
TxResults == Results \cup {NoResult}

Put(f, k, v) == [x \in DOMAIN f \cup {k} |-> IF x = k THEN v ELSE f[x]]
Get(f, k, default) == IF k \in DOMAIN f THEN f[k] ELSE default
Empty == [x \in {} |-> x]

-----------------------------------------------------------------------------
(* ParsedTxStep.                                                           *)

SmallTx(result) == [kind |-> "SmallTx", chunk |-> 0, result |-> result]
BigTx(result) == [kind |-> "BigTx", chunk |-> 0, result |-> result]
TransmitTx(chunk) == [kind |-> "TransmitTx", chunk |-> chunk, result |-> NoResult]

-----------------------------------------------------------------------------
(* EvmTx.                                                                  *)

NewSmallTx == [kind |-> "SmallEvmTx", pieces |-> {}]
NewBigTx == [kind |-> "BigEvmTx", pieces |-> {}]

EvmTxs == [kind : {"SmallEvmTx", "BigEvmTx"}, pieces : SUBSET (1 .. NumChunks)]

ASSUME TxParserAssumption ==
  /\ NumChunks \in Nat \ {0} /\ NoResult \notin Results /\ Results # {}
  /\ IsFiniteSet(Hashes)
  /\ {NewSmallTx, NewBigTx} \subseteq EvmTxs

(* The found pieces form an uninterrupted buffer from offset zero.         *)
is_data_complete(tx) ==
  tx.kind = "SmallEvmTx" \/ (tx.pieces # {} /\ tx.pieces = 1 .. Cardinality(tx.pieces))

(* build succeeds: RLP decoding fails on a buffer cut short.               *)
builds(tx) == tx.kind = "SmallEvmTx" \/ tx.pieces = 1 .. NumChunks

-----------------------------------------------------------------------------
(* register_slot_transactions *)

NewParser == [txs |-> Empty, results |-> Empty]

SlotResults(p, slot) == Get(p.results, slot, Empty)

(* Mutant of RetainResults: known results are kept as they are.            *)
RetainResultsOld(old, slot_txs) == old

(* First pass: what the new version of the slot no longer has is removed,  *)
(* changed results are replaced.                                           *)
RetainResults(old, slot_txs) ==
  [h \in DOMAIN old \cap DOMAIN slot_txs |->
     [i \in DOMAIN old[h] \cap DOMAIN slot_txs[h] |-> slot_txs[h][i].result]]

Lowest(S) == CHOOSE i \in S : \A j \in S : i <= j

(* The entry of a hash is made by the first step found for it and never    *)
(* changes its kind.                                                       *)
EntryFor(txs, h, steps) ==
  Get(txs, h, IF steps[Lowest(DOMAIN steps)].kind = "SmallTx" THEN NewSmallTx ELSE NewBigTx)

(* Holder data of a small transaction is an error: the steps before it are *)
(* applied, the others are not.                                            *)
Transmits(steps) == {i \in DOMAIN steps : steps[i].kind = "TransmitTx"}
Fails(txs, h, steps) ==
  EntryFor(txs, h, steps).kind = "SmallEvmTx" /\ Transmits(steps) # {}
Applied(txs, h, steps) ==
  IF Fails(txs, h, steps)
  THEN {i \in DOMAIN steps : i < Lowest(Transmits(steps))}
  ELSE DOMAIN steps

(* The entry of a hash after its steps, made even if they fail.            *)
Absorb(txs, h, steps) ==
  LET e == EntryFor(txs, h, steps)
  IN  IF e.kind = "SmallEvmTx" THEN e
      ELSE [e EXCEPT !.pieces = @ \cup {steps[i].chunk : i \in Transmits(steps)}]

(* or_insert of the results of the applied steps.                          *)
AddResults(old, steps, idxs) ==
  [i \in DOMAIN old \cup idxs |-> IF i \in DOMAIN old THEN old[i] ELSE steps[i].result]

(* Second pass over the hashes in visited.                                 *)
Register(p, slot, slot_txs, visited) ==
  LET kept   == RetainResults(SlotResults(p, slot), slot_txs)
      idxs(h) == Applied(p.txs, h, slot_txs[h])
      filled == {h \in visited : idxs(h) # {}}
      found  == [h \in DOMAIN kept \cup filled |->
                   IF h \in filled
                   THEN AddResults(Get(kept, h, Empty), slot_txs[h], idxs(h))
                   ELSE kept[h]]
  IN  [txs |-> [h \in DOMAIN p.txs \cup visited |->
                  IF h \in visited THEN Absorb(p.txs, h, slot_txs[h]) ELSE p.txs[h]],
       results |-> IF slot \in DOMAIN p.results \/ filled # {}
                   THEN Put(p.results, slot, found) ELSE p.results]

(* The outcomes: slot_txs is a HashMap, so that a hash that fails keeps    *)
(* any of the other hashes from being registered.                          *)
register_slot_transactions(p, slot, slot_txs) ==
  LET failing == {h \in DOMAIN slot_txs : Fails(p.txs, h, slot_txs[h])}
  IN  IF failing = {}
      THEN {[parser |-> Register(p, slot, slot_txs, DOMAIN slot_txs), ok |-> TRUE]}
      ELSE UNION {{[parser |-> Register(p, slot, slot_txs, S \cup {f}), ok |-> FALSE] :
                     S \in SUBSET (DOMAIN slot_txs \ failing)} : f \in failing}

-----------------------------------------------------------------------------
(* The hashes with a result in the slot.                                   *)
Finished(p, slot) ==
  LET res == SlotResults(p, slot)
  IN  {h \in DOMAIN res : \E i \in DOMAIN res[h] : res[h][i] # NoResult}

(* is_slot_complete: "panic" when a transaction is not found by its hash.  *)
is_slot_complete(p, slot) ==
  IF Finished(p, slot) \ DOMAIN p.txs # {} THEN {"panic"} \cup
     (IF \E h \in Finished(p, slot) \cap DOMAIN p.txs : ~is_data_complete(p.txs[h])
      THEN {"incomplete"} ELSE {})
  ELSE IF \A h \in Finished(p, slot) : is_data_complete(p.txs[h])
  THEN {"complete"} ELSE {"incomplete"}

(* finalize_slot of a complete slot: the first result of every hash, in    *)
(* the order of the Solana transactions.  Two hashes of one Solana         *)
(* transaction have the same index, and the last one inserted wins.        *)
FirstIdx(res, h) == Lowest({i \in DOMAIN res[h] : res[h][i] # NoResult})
finalize_slot(p, slot) ==
  LET res  == SlotResults(p, slot)
      done == Finished(p, slot)
      idxs == {FirstIdx(res, h) : h \in done}
      at(i) == {h \in done : FirstIdx(res, h) = i}
  IN  {[k \in 1 .. Cardinality(idxs) |->
          LET i == InOrder(idxs)[k]
          IN  [hash |-> pick[i], result |-> res[pick[i]][i]]] :
         pick \in {f \in [idxs -> done] : \A i \in idxs : f[i] \in at(i)}}

(* retain_from_slot: a hash met in a dropped slot is forgotten, also when  *)
(* a slot that is kept refers to it.                                       *)
retain_from_slot(p, from) ==
  LET dropped == {s \in DOMAIN p.results : s < from}
      gone    == UNION {DOMAIN p.results[s] : s \in dropped}
  IN  [txs |-> [h \in DOMAIN p.txs \ gone |-> p.txs[h]],
       results |-> [s \in DOMAIN p.results \ dropped |-> p.results[s]]]
=============================================================================
