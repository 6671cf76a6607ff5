------------------------- MODULE BlockParserProofs -------------------------
(***************************************************************************)
(* What BlockParser::parse reports for a slot, and why it stops, for every *)
(* set of block contents, walk length, batch size and history, and for any *)
(* number of replaced blocks, queued events and restarts.                  *)
(***************************************************************************)
EXTENDS BlockParser, NatLemmas

-----------------------------------------------------------------------------
(* The invariant.                                                          *)

Bodies == Contents \cup {<<>>}
StoredBlocks == [parent : 0 .. MaxSlot, txs : Bodies, stored : BOOLEAN]

(* The table of blocks, and the announced slots among them.                *)
StoreInv ==
  /\ store \in [Slots -> StoredBlocks]
  /\ \A s \in Slots : store[s].parent < s /\ (~store[s].stored => store[s].txs = <<>>)
  /\ events \in Seq(Slots) /\ \A i \in DOMAIN events : store[events[i]].stored
  /\ updates \in 0 .. MaxUpdates /\ restarts \in 0 .. MaxRestarts

(* A parser in good order.                                                 *)
ResultsTyped(res) ==
  /\ DOMAIN res \subseteq Hashes
  /\ \A h \in DOMAIN res : \A i \in DOMAIN res[h] : i \in Nat /\ res[h][i] \in TxResults

ParserTyped(p) ==
  /\ \A h \in DOMAIN p.txs : h \in Hashes /\ p.txs[h] \in EvmTxs
  /\ \A s \in DOMAIN p.results : s \in Slots /\ ResultsTyped(p.results[s])

(* The cursors, and how far they may be.                                   *)
CursorInv ==
  /\ pc \in {"idle", "slot", "parent", "stopped", "panicked"}
  /\ {from, next, to, goal} \subseteq Slots /\ walk \in 0 .. MaxSlot /\ count \in 0 .. MaxParseBehind
  /\ from <= next /\ next <= to /\ to <= goal
  /\ goal <= LastSlot \/ goal <= StartSlot
  /\ pc = "idle" => from = next /\ next = to
  /\ pc = "parent" => next < to /\ Stored(next) /\ Stored(walk) /\ walk <= next /\ count < MaxBlocks

Reports == Seq([hash : Hashes, result : Results])

OutInv ==
  /\ out \in [Slots -> {NotParsed} \cup Reports]
  /\ warned \subseteq Slots /\ skipped \subseteq Slots /\ forgot \in BOOLEAN

ParseTypeInv == StoreInv /\ ParserTyped(parser) /\ CursorInv /\ OutInv

(* The results of the steps of a slot, as they are.                        *)
ResultsOf(steps) == [h \in DOMAIN steps |-> [i \in DOMAIN steps[h] |-> steps[h][i].result]]

(* The slot being parsed has been registered: its hashes are known, and    *)
(* its results are those of its block, until the block is replaced.        *)
RegisteredInv ==
  /\ pc = "panicked" => warned # {}
  /\ pc = "parent" /\ warned = {} => DOMAIN SlotResults(parser, next) \subseteq DOMAIN parser.txs
  /\ pc = "parent" /\ next \notin warned \cup ToSet(events) =>
       SlotResults(parser, next) = ResultsOf(ParsedTxs(store[next].txs))

-----------------------------------------------------------------------------
(* The least of a set of numbers.                                          *)
LEMMA LowestFacts ==
  ASSUME NEW S, S \subseteq Nat, S # {}
  PROVE  Lowest(S) \in S /\ \A x \in S : Lowest(S) <= x
<1>1. \E x \in S : \A y \in S : x <= y
  BY LeastElement
<1> QED
  BY <1>1, Zenon DEF Lowest

-----------------------------------------------------------------------------
(* parse_solana_block.                                                     *)

SolanaTxs == [err : BOOLEAN, meta : TxResults \cup {BadLog}, instrs : Seq(Instrs)]

(* The transactions and the instructions of a block.                       *)
LEMMA BodyTyped ==
  ASSUME NEW txs \in Bodies
  PROVE  /\ DOMAIN txs \subseteq Nat
         /\ \A i \in DOMAIN txs :
              /\ txs[i] \in SolanaTxs /\ txs[i].err \in BOOLEAN /\ txs[i].meta \in TxResults \cup {BadLog}
              /\ DOMAIN txs[i].instrs \subseteq Nat
              /\ \A k \in DOMAIN txs[i].instrs :
                   /\ txs[i].instrs[k].op \in Ops /\ txs[i].instrs[k].hash \in Hashes
                   /\ txs[i].instrs[k].chunk \in 1 .. NumChunks
<1>1. txs \in Seq(SolanaTxs)
  <2>1. Contents \subseteq Seq(SolanaTxs)
    BY BlockParserAssumption DEF SolanaTxs
  <2>2. <<>> \in Seq(SolanaTxs)
    OBVIOUS
  <2> QED
    BY <2>1, <2>2 DEF Bodies
<1>2. DOMAIN txs \subseteq Nat
  BY <1>1
<1>3. ASSUME NEW i \in DOMAIN txs
      PROVE  /\ txs[i] \in SolanaTxs /\ txs[i].err \in BOOLEAN /\ txs[i].meta \in TxResults \cup {BadLog}
             /\ DOMAIN txs[i].instrs \subseteq Nat
             /\ \A k \in DOMAIN txs[i].instrs :
                  /\ txs[i].instrs[k].op \in Ops /\ txs[i].instrs[k].hash \in Hashes
                  /\ txs[i].instrs[k].chunk \in 1 .. NumChunks
  <2>1. txs[i] \in SolanaTxs
    BY <1>1
  <2>2. txs[i].err \in BOOLEAN /\ txs[i].meta \in TxResults \cup {BadLog} /\ txs[i].instrs \in Seq(Instrs)
    BY <2>1 DEF SolanaTxs
  <2>3. DOMAIN txs[i].instrs \subseteq Nat
    BY <2>2
  <2>4. ASSUME NEW k \in DOMAIN txs[i].instrs
        PROVE  /\ txs[i].instrs[k].op \in Ops /\ txs[i].instrs[k].hash \in Hashes
               /\ txs[i].instrs[k].chunk \in 1 .. NumChunks
    <3>1. txs[i].instrs[k] \in Instrs
      BY <2>2
    <3> QED
      BY <3>1 DEF Instrs, Chunks
  <2> QED
    BY <2>1, <2>2, <2>3, <2>4
<1> QED
  BY <1>2, <1>3

(* The instruction of transaction i that stands for h.                     *)
FirstFor(txs, i, h) == txs[i].instrs[Lowest(Of(txs, i, h))]
StepFor(txs, i, h) == ParsedStep(FirstFor(txs, i, h).op, FirstFor(txs, i, h).chunk, txs[i].meta)

(* It is one of those accepted for h.                                      *)
LEMMA FirstForFacts ==
  ASSUME NEW txs \in Bodies, NEW i \in DOMAIN txs, NEW h, Of(txs, i, h) # {}
  PROVE  /\ ~txs[i].err /\ Accepted(FirstFor(txs, i, h), txs[i].meta) /\ FirstFor(txs, i, h).hash = h
         /\ Lowest(Of(txs, i, h)) \in DOMAIN txs[i].instrs
<1>1. Of(txs, i, h) \subseteq Nat
  BY BodyTyped DEF Of
<1>2. Lowest(Of(txs, i, h)) \in Of(txs, i, h)
  BY <1>1, LowestFacts
<1> QED
  BY <1>2 DEF Of, FirstFor

(* The kinds of steps.                                                     *)
LEMMA StepTyped ==
  ASSUME NEW op \in Ops \ {"Other"}, NEW chunk \in 1 .. NumChunks, NEW meta \in TxResults \cup {BadLog},
         meta = BadLog => op \in {"TransmitTx", "Deposit"}
  PROVE  /\ ParsedStep(op, chunk, meta).result \in TxResults
         /\ ParsedStep(op, chunk, meta).kind = "TransmitTx" => ParsedStep(op, chunk, meta).chunk \in 1 .. NumChunks
         /\ ParsedStep(op, chunk, meta).result =
              IF op = "TransmitTx" THEN NoResult ELSE IF op = "Deposit" THEN CHOOSE r \in Results : TRUE ELSE meta
<1>1. (CHOOSE r \in Results : TRUE) \in Results
  <2>1. \E r \in Results : TRUE
    BY TxParserAssumption
  <2> QED
    BY <2>1, Zenon
<1>2. CASE op \in {"DoTx", "DoTxIterative"}
  <2>1. ParsedStep(op, chunk, meta) = SmallTx(meta) /\ meta \in TxResults
    BY <1>2 DEF ParsedStep, Holders
  <2>2. op # "TransmitTx" /\ op # "Deposit"
    BY <1>2
  <2> QED
    BY <2>1, <2>2 DEF SmallTx
<1>3. CASE op \in Holders
  BY <1>3, BlockParserAssumption DEF ParsedStep, BigTx, TxResults, Holders
<1>4. CASE op = "Deposit"
  <2> DEFINE r == CHOOSE r \in Results : TRUE
  <2>1. ParsedStep(op, chunk, meta) = SmallTx(r)
    BY <1>4 DEF ParsedStep, Holders
  <2> HIDE DEF r
  <2>2. ParsedStep(op, chunk, meta).result = r /\ ParsedStep(op, chunk, meta).kind = "SmallTx"
    BY <2>1 DEF SmallTx
  <2>3. ParsedStep(op, chunk, meta).result \in TxResults
    BY <1>1, <2>2 DEF r, TxResults
  <2> QED
    BY <1>4, <2>2, <2>3 DEF r
<1>5. CASE op = "TransmitTx"
  BY <1>5 DEF ParsedStep, TransmitTx, TxResults, Holders
<1> QED
  BY <1>2, <1>3, <1>4, <1>5 DEF Ops, Holders

StepsTyped(st) ==
  /\ DOMAIN st \subseteq Hashes
  /\ \A h \in DOMAIN st :
       /\ DOMAIN st[h] \subseteq Nat /\ DOMAIN st[h] # {}
       /\ \A i \in DOMAIN st[h] :
            st[h][i].result \in TxResults /\ (st[h][i].kind = "TransmitTx" => st[h][i].chunk \in 1 .. NumChunks)

(* The steps found in a block.                                             *)
LEMMA ParsedTyped ==
  ASSUME NEW txs \in Bodies
  PROVE  /\ DOMAIN ParsedTxs(txs) = {h \in Hashes : \E i \in DOMAIN txs : Of(txs, i, h) # {}}
         /\ \A h \in DOMAIN ParsedTxs(txs) :
              /\ DOMAIN ParsedTxs(txs)[h] = {i \in DOMAIN txs : Of(txs, i, h) # {}}
              /\ \A i \in DOMAIN ParsedTxs(txs)[h] : ParsedTxs(txs)[h][i] = StepFor(txs, i, h)
         /\ StepsTyped(ParsedTxs(txs))
<1> DEFINE st == ParsedTxs(txs)
<1>1. /\ DOMAIN st = {h \in Hashes : \E i \in DOMAIN txs : Of(txs, i, h) # {}}
      /\ \A h \in DOMAIN st :
           /\ DOMAIN st[h] = {i \in DOMAIN txs : Of(txs, i, h) # {}}
           /\ \A i \in DOMAIN st[h] : st[h][i] = StepFor(txs, i, h)
  BY DEF ParsedTxs, StepFor, FirstFor
<1> HIDE DEF st
<1>2. ASSUME NEW h \in DOMAIN st, NEW i \in DOMAIN st[h]
      PROVE  st[h][i].result \in TxResults /\ (st[h][i].kind = "TransmitTx" => st[h][i].chunk \in 1 .. NumChunks)
  <2>1. i \in DOMAIN txs /\ Of(txs, i, h) # {} /\ st[h][i] = StepFor(txs, i, h)
    BY <1>1
  <2>2. /\ Accepted(FirstFor(txs, i, h), txs[i].meta) /\ Lowest(Of(txs, i, h)) \in DOMAIN txs[i].instrs
    BY <2>1, FirstForFacts
  <2>3. /\ txs[i].meta \in TxResults \cup {BadLog} /\ FirstFor(txs, i, h).op \in Ops
        /\ FirstFor(txs, i, h).chunk \in 1 .. NumChunks
    BY <2>1, <2>2, BodyTyped DEF FirstFor
  <2>4. /\ FirstFor(txs, i, h).op \in Ops \ {"Other"}
        /\ txs[i].meta = BadLog => FirstFor(txs, i, h).op \in {"TransmitTx", "Deposit"}
    BY <2>2, <2>3 DEF Accepted
  <2> QED
    BY <2>1, <2>3, <2>4, StepTyped DEF StepFor
<1>3. StepsTyped(st)
  <2>1. ASSUME NEW h \in DOMAIN st PROVE DOMAIN st[h] \subseteq Nat /\ DOMAIN st[h] # {}
    BY <1>1, BodyTyped
  <2> QED
    BY <1>1, <1>2, <2>1 DEF StepsTyped
<1> QED
  BY <1>1, <1>3 DEF st

(* With plain contents a step has a result exactly when its transaction    *)
(* finished the hash, and it is the one in the log.                        *)
LEMMA PlainStep ==
  ASSUME NEW txs \in Bodies, Plain(txs), NEW i \in DOMAIN txs, NEW h \in Hashes
  PROVE  /\ Finishes(txs, i, h) <=> Of(txs, i, h) # {} /\ StepFor(txs, i, h).result # NoResult
         /\ Finishes(txs, i, h) /\ txs[i].meta \in Results => StepFor(txs, i, h).result = txs[i].meta
<1> DEFINE e == FirstFor(txs, i, h)
           meta == txs[i].meta
<1>0. NoResult \notin Results /\ BadLog \notin TxResults /\ meta \in TxResults \cup {BadLog}
  BY TxParserAssumption, BlockParserAssumption, BodyTyped
<1>1. ASSUME Of(txs, i, h) # {}
      PROVE  /\ ~txs[i].err /\ e.op \in Ops \ {"Other"} /\ e.chain = Chain /\ e.hash = h
             /\ e.op = "Deposit" => meta \notin Results
             /\ meta = BadLog => e.op \in {"TransmitTx", "Deposit"}
             /\ \A k \in Of(txs, i, h) : txs[i].instrs[k].op = e.op
             /\ StepFor(txs, i, h).result =
                  IF e.op = "TransmitTx" THEN NoResult ELSE IF e.op = "Deposit" THEN CHOOSE r \in Results : TRUE ELSE meta
  <2>1. /\ ~txs[i].err /\ Accepted(e, meta) /\ e.hash = h /\ Lowest(Of(txs, i, h)) \in DOMAIN txs[i].instrs
    BY <1>1, FirstForFacts
  <2>2. e.op \in Ops /\ e.chunk \in 1 .. NumChunks
    BY <2>1, BodyTyped DEF FirstFor
  <2>3. /\ e.op \in Ops \ {"Other"} /\ e.chain = Chain
        /\ meta = BadLog => e.op \in {"TransmitTx", "Deposit"}
    BY <2>1, <2>2 DEF Accepted
  <2>4. /\ e.op = "Deposit" => meta \notin Results
        /\ \A l \in DOMAIN txs[i].instrs :
             Accepted(txs[i].instrs[l], meta) /\ txs[i].instrs[l].hash = e.hash => txs[i].instrs[l].op = e.op
    BY <2>1 DEF Plain, FirstFor
  <2>5. \A k \in Of(txs, i, h) : txs[i].instrs[k].op = e.op
    BY <2>1, <2>4 DEF Of
  <2>6. StepFor(txs, i, h) = ParsedStep(e.op, e.chunk, meta)
    BY DEF StepFor
  <2> HIDE DEF e, meta
  <2>7. StepFor(txs, i, h).result =
          IF e.op = "TransmitTx" THEN NoResult ELSE IF e.op = "Deposit" THEN CHOOSE r \in Results : TRUE ELSE meta
    BY <1>0, <2>2, <2>3, <2>6, StepTyped
  <2> QED
    BY <2>1, <2>3, <2>4, <2>5, <2>7
<1>2. (CHOOSE r \in Results : TRUE) \in Results
  <2>1. \E r \in Results : TRUE
    BY TxParserAssumption
  <2> QED
    BY <2>1, Zenon
<1>3. ASSUME Finishes(txs, i, h)
      PROVE  /\ Of(txs, i, h) # {} /\ StepFor(txs, i, h).result # NoResult
             /\ meta \in Results => StepFor(txs, i, h).result = meta
  <2>1. PICK k \in DOMAIN txs[i].instrs :
          /\ ~txs[i].err /\ txs[i].instrs[k].chain = Chain /\ txs[i].instrs[k].hash = h
          /\ txs[i].instrs[k].op \in Ops \ {"TransmitTx", "Other"}
          /\ txs[i].instrs[k].op = "Deposit" \/ meta \in Results
    BY <1>3 DEF Finishes, FinishesBy
  <2>2. k \in Of(txs, i, h)
    BY <1>0, <2>1 DEF Of, Accepted, TxResults
  <2>3. Of(txs, i, h) # {} /\ txs[i].instrs[k].op = e.op
    BY <1>1, <2>2
  <2>4. PICK r \in Results : r = CHOOSE x \in Results : TRUE
    BY <1>2
  <2>5. StepFor(txs, i, h).result =
          IF e.op = "TransmitTx" THEN NoResult ELSE IF e.op = "Deposit" THEN r ELSE meta
    BY <1>1, <2>3, <2>4
  <2>6. e.op = "Deposit" => meta \notin Results
    BY <1>1, <2>3
  <2> HIDE DEF e, meta
  <2>7. StepFor(txs, i, h).result # NoResult /\ (meta \in Results => StepFor(txs, i, h).result = meta)
    BY <1>0, <2>1, <2>3, <2>5, <2>6
  <2> QED
    BY <2>3, <2>7
<1>4. ASSUME Of(txs, i, h) # {}, StepFor(txs, i, h).result # NoResult PROVE Finishes(txs, i, h)
  <2>1. Lowest(Of(txs, i, h)) \in DOMAIN txs[i].instrs
    BY <1>4, FirstForFacts
  <2>2. e.op # "TransmitTx"
    BY <1>1, <1>4
  <2>3. e.op = "Deposit" \/ meta # NoResult
    BY <1>1, <1>4, <2>2
  <2>4. e.op = "Deposit" \/ meta \in Results
    BY <1>0, <1>1, <1>4, <2>2, <2>3 DEF TxResults
  <2>5. /\ ~txs[i].err /\ e.chain = Chain /\ e.hash = h /\ e.op \in Ops \ {"TransmitTx", "Other"}
    BY <1>1, <1>4, <2>2
  <2> QED
    BY <2>1, <2>4, <2>5 DEF Finishes, FinishesBy, FirstFor
<1> QED
  BY <1>3, <1>4

-----------------------------------------------------------------------------
(* register_slot_transactions.                                             *)

(* What is known of a slot stays as it is while other slots are            *)
(* registered.                                                             *)
LEMMA RegisterOthers ==
  ASSUME NEW p, NEW slot, NEW st, NEW V, NEW s, s # slot
  PROVE  SlotResults(Register(p, slot, st, V), s) = SlotResults(p, s)
  BY DEF Register, SlotResults, Get, Put

(* The hashes visited are known afterwards.                                *)
LEMMA RegisterKnows ==
  ASSUME NEW p, NEW slot, NEW st, NEW V
  PROVE  DOMAIN Register(p, slot, st, V).txs = DOMAIN p.txs \cup V
  BY DEF Register

(* Registering keeps a parser in good order.                               *)
LEMMA RegisterTyped ==
  ASSUME NEW p, ParserTyped(p), NEW slot \in Slots, NEW st, StepsTyped(st), NEW V \in SUBSET DOMAIN st
  PROVE  ParserTyped(Register(p, slot, st, V))
<1> DEFINE R == Register(p, slot, st, V)
           old == SlotResults(p, slot)
           kept == RetainResults(old, st)
           idxs(h) == Applied(p.txs, h, st[h])
           filled == {h \in V : idxs(h) # {}}
           found  == [h \in DOMAIN kept \cup filled |->
                        IF h \in filled THEN AddResults(Get(kept, h, Empty), st[h], idxs(h)) ELSE kept[h]]
<1>1. ASSUME NEW h \in V PROVE Absorb(p.txs, h, st[h]) \in EvmTxs
  <2> DEFINE e == EntryFor(p.txs, h, st[h])
             add == {st[h][i].chunk : i \in Transmits(st[h])}
  <2>1. e \in EvmTxs
    BY TxParserAssumption DEF EntryFor, Get, ParserTyped
  <2>2. add \subseteq 1 .. NumChunks
    BY DEF Transmits, StepsTyped
  <2>3. Absorb(p.txs, h, st[h]) = IF e.kind = "SmallEvmTx" THEN e ELSE [e EXCEPT !.pieces = @ \cup add]
    BY DEF Absorb
  <2> HIDE DEF e, add
  <2> QED
    BY <2>1, <2>2, <2>3 DEF EvmTxs
<1>2. \A h \in DOMAIN R.txs : h \in Hashes /\ R.txs[h] \in EvmTxs
  <2>1. /\ DOMAIN R.txs = DOMAIN p.txs \cup V
        /\ \A h \in DOMAIN R.txs : R.txs[h] = IF h \in V THEN Absorb(p.txs, h, st[h]) ELSE p.txs[h]
    BY DEF Register
  <2> HIDE DEF R
  <2> QED
    BY <1>1, <2>1 DEF ParserTyped, StepsTyped
<1>3. ASSUME NEW h \in V PROVE idxs(h) \subseteq DOMAIN st[h]
  BY DEF Applied
<1>4. ResultsTyped(kept)
  <2>1. DOMAIN kept = DOMAIN old \cap DOMAIN st
    BY DEF RetainResults
  <2>2. ASSUME NEW h \in DOMAIN kept, NEW i \in DOMAIN kept[h] PROVE i \in Nat /\ kept[h][i] \in TxResults
    <3>1. h \in DOMAIN st /\ i \in DOMAIN st[h] /\ kept[h][i] = st[h][i].result
      BY <2>1 DEF RetainResults
    <3> QED
      BY <3>1 DEF StepsTyped
  <2> QED
    BY <2>1, <2>2 DEF ResultsTyped, StepsTyped
<1> HIDE DEF kept, idxs
<1>5. ResultsTyped(found)
  <2>1. DOMAIN found \subseteq Hashes
    BY <1>4 DEF ResultsTyped, StepsTyped
  <2>2. ASSUME NEW h \in DOMAIN found, NEW i \in DOMAIN found[h] PROVE i \in Nat /\ found[h][i] \in TxResults
    <3>1. CASE h \notin filled
      <4>1. h \in DOMAIN kept /\ found[h] = kept[h]
        BY <3>1
      <4> QED
        BY <1>4, <2>2, <4>1 DEF ResultsTyped
    <3>2. CASE h \in filled
      <4> DEFINE g == Get(kept, h, Empty)
      <4>0. h \in V /\ h \in DOMAIN st /\ found[h] = AddResults(g, st[h], idxs(h))
        BY <3>2
      <4>1. \A j \in DOMAIN g : j \in Nat /\ g[j] \in TxResults
        BY <1>4 DEF Get, Empty, ResultsTyped
      <4> HIDE DEF g
      <4>2. /\ DOMAIN found[h] = DOMAIN g \cup idxs(h)
            /\ \A j \in DOMAIN found[h] : found[h][j] = IF j \in DOMAIN g THEN g[j] ELSE st[h][j].result
        BY <4>0 DEF AddResults
      <4>3. \A j \in idxs(h) : j \in Nat /\ st[h][j].result \in TxResults
        BY <1>3, <4>0 DEF StepsTyped
      <4> HIDE DEF found
      <4> QED
        BY <4>1, <4>2, <4>3
    <3> QED
      BY <3>1, <3>2
  <2> HIDE DEF found
  <2> QED
    BY <2>1, <2>2 DEF ResultsTyped
<1>6. \A s \in DOMAIN R.results : s \in Slots /\ ResultsTyped(R.results[s])
  <2>1. R.results = IF slot \in DOMAIN p.results \/ filled # {} THEN Put(p.results, slot, found) ELSE p.results
    BY DEF Register, kept, idxs
  <2> HIDE DEF R, found, filled
  <2>2. ASSUME NEW s \in DOMAIN R.results
        PROVE  (s = slot /\ R.results[s] = found) \/ (s \in DOMAIN p.results /\ R.results[s] = p.results[s])
    <3>1. CASE R.results = p.results
      BY <3>1
    <3>2. CASE R.results = Put(p.results, slot, found)
      <4>1. s \in DOMAIN p.results \cup {slot} /\ R.results[s] = IF s = slot THEN found ELSE p.results[s]
        BY <3>2 DEF Put
      <4> QED
        BY <4>1
    <3> QED
      BY <2>1, <3>1, <3>2
  <2> QED
    BY <1>5, <2>2 DEF ParserTyped
<1> HIDE DEF R
<1>7. ParserTyped(R)
  BY <1>2, <1>6 DEF ParserTyped
<1> QED
  BY <1>7 DEF R

(* A registration without an error leaves exactly the results of the       *)
(* block, whatever an earlier version of it had left.                      *)
LEMMA RegisterExact ==
  ASSUME NEW p, NEW slot, NEW st, StepsTyped(st), \A h \in DOMAIN st : ~Fails(p.txs, h, st[h])
  PROVE  SlotResults(Register(p, slot, st, DOMAIN st), slot) = ResultsOf(st)
<1> DEFINE R == Register(p, slot, st, DOMAIN st)
           old == SlotResults(p, slot)
           kept == RetainResults(old, st)
           idxs(h) == Applied(p.txs, h, st[h])
           filled == {h \in DOMAIN st : idxs(h) # {}}
           found  == [h \in DOMAIN kept \cup filled |->
                        IF h \in filled THEN AddResults(Get(kept, h, Empty), st[h], idxs(h)) ELSE kept[h]]
<1>1. \A h \in DOMAIN st : idxs(h) = DOMAIN st[h]
  BY DEF Applied
<1>2. filled = DOMAIN st
  BY <1>1 DEF StepsTyped
<1>3. /\ DOMAIN kept \subseteq DOMAIN st
      /\ \A h \in DOMAIN kept : DOMAIN kept[h] \subseteq DOMAIN st[h] /\ \A i \in DOMAIN kept[h] : kept[h][i] = st[h][i].result
  BY DEF RetainResults
<1>4. R.results = IF slot \in DOMAIN p.results \/ filled # {} THEN Put(p.results, slot, found) ELSE p.results
  BY DEF Register
<1> HIDE DEF R, kept, filled, idxs
<1>5. DOMAIN found = DOMAIN st
  BY <1>2, <1>3
<1>6. ASSUME NEW h \in DOMAIN st PROVE found[h] = [i \in DOMAIN st[h] |-> st[h][i].result]
  <2> DEFINE g == Get(kept, h, Empty)
  <2>1. found[h] = AddResults(g, st[h], DOMAIN st[h])
    BY <1>1, <1>2, <1>5
  <2>2. DOMAIN g \subseteq DOMAIN st[h] /\ \A i \in DOMAIN g : g[i] = st[h][i].result
    BY <1>3 DEF Get, Empty
  <2> HIDE DEF g, found
  <2>3. DOMAIN g \cup DOMAIN st[h] = DOMAIN st[h]
    BY <2>2
  <2> QED
    BY <2>1, <2>2, <2>3 DEF AddResults
<1>7. found = ResultsOf(st)
  BY <1>5, <1>6 DEF ResultsOf
<1> HIDE DEF found
<1>8. CASE slot \in DOMAIN p.results \/ filled # {}
  BY <1>4, <1>7, <1>8 DEF SlotResults, Get, Put, R
<1>9. CASE slot \notin DOMAIN p.results /\ filled = {}
  <2>1. SlotResults(R, slot) = Empty
    BY <1>4, <1>9 DEF SlotResults, Get
  <2>2. ResultsOf(st) = Empty
    BY <1>2, <1>9 DEF ResultsOf, Empty
  <2> QED
    BY <2>1, <2>2 DEF R
<1> QED
  BY <1>8, <1>9

-----------------------------------------------------------------------------
(* register_slot_transactions as a whole.                                  *)

(* Every outcome of it; warn tells whether it failed with a warning.       *)
LEMMA RegisterOutcome ==
  ASSUME NEW p, ParserTyped(p), NEW slot \in Slots, NEW txs \in Bodies,
         NEW r \in register_slot_transactions(p, slot, ParsedTxs(txs))
  PROVE  /\ r.ok \in BOOLEAN /\ ParserTyped(r.parser)
         /\ DOMAIN p.txs \subseteq DOMAIN r.parser.txs
         /\ \A s : s # slot => SlotResults(r.parser, s) = SlotResults(p, s)
         /\ r.ok => /\ SlotResults(r.parser, slot) = ResultsOf(ParsedTxs(txs))
                    /\ DOMAIN SlotResults(r.parser, slot) \subseteq DOMAIN r.parser.txs
<1> DEFINE st == ParsedTxs(txs)
           failing == {h \in DOMAIN st : Fails(p.txs, h, st[h])}
<1>0. StepsTyped(st)
  BY ParsedTyped
<1> HIDE DEF st
<1>1. CASE failing = {}
  <2>1. r = [parser |-> Register(p, slot, st, DOMAIN st), ok |-> TRUE]
    BY <1>1 DEF register_slot_transactions, st
  <2>2. r.parser = Register(p, slot, st, DOMAIN st) /\ r.ok = TRUE
    BY <2>1
  <2>3. \A h \in DOMAIN st : ~Fails(p.txs, h, st[h])
    BY <1>1
  <2>4. SlotResults(r.parser, slot) = ResultsOf(st)
    BY <1>0, <2>2, <2>3, RegisterExact
  <2>5. DOMAIN SlotResults(r.parser, slot) = DOMAIN st
    BY <2>4 DEF ResultsOf
  <2>6. DOMAIN r.parser.txs = DOMAIN p.txs \cup DOMAIN st
    BY <2>2, RegisterKnows
  <2>7. ParserTyped(r.parser)
    BY <1>0, <2>2, RegisterTyped
  <2>8. \A s : s # slot => SlotResults(r.parser, s) = SlotResults(p, s)
    BY <2>2, RegisterOthers
  <2>9. r.ok \in BOOLEAN
    BY <2>2
  <2>10. DOMAIN p.txs \subseteq DOMAIN r.parser.txs /\ DOMAIN SlotResults(r.parser, slot) \subseteq DOMAIN r.parser.txs
    BY <2>5, <2>6
  <2> QED
    BY <2>4, <2>7, <2>8, <2>9, <2>10 DEF st
<1>2. CASE failing # {}
  <2>1. PICK S \in SUBSET (DOMAIN st \ failing), f \in failing :
          r = [parser |-> Register(p, slot, st, S \cup {f}), ok |-> FALSE]
    <3>1. r \in UNION {{[parser |-> Register(p, slot, st, S \cup {f}), ok |-> FALSE] :
                          S \in SUBSET (DOMAIN st \ failing)} : f \in failing}
      BY <1>2 DEF register_slot_transactions, st
    <3> HIDE DEF failing
    <3>2. PICK f \in failing : r \in {[parser |-> Register(p, slot, st, S \cup {f}), ok |-> FALSE] :
                                      S \in SUBSET (DOMAIN st \ failing)}
      BY <3>1
    <3> QED
      BY <3>2
  <2>2. PICK V \in SUBSET DOMAIN st : V = S \cup {f}
    OBVIOUS
  <2>3. r.parser = Register(p, slot, st, V) /\ r.ok = FALSE
    BY <2>1, <2>2
  <2>4. DOMAIN p.txs \subseteq DOMAIN r.parser.txs
    BY <2>3, RegisterKnows
  <2>5. ParserTyped(r.parser)
    BY <1>0, <2>3, RegisterTyped
  <2>6. \A s : s # slot => SlotResults(r.parser, s) = SlotResults(p, s)
    BY <2>3, RegisterOthers
  <2>7. r.ok \in BOOLEAN /\ ~r.ok
    BY <2>3
  <2> QED
    BY <2>4, <2>5, <2>6, <2>7
<1> QED
  BY <1>1, <1>2

-----------------------------------------------------------------------------
(* finalize_slot and retain_from_slot.                                     *)

(* The indices in a report of finalize_slot.                               *)
IdxsOf(p, slot) == {FirstIdx(SlotResults(p, slot), h) : h \in Finished(p, slot)}

(* A slot's results are in good order.                                     *)
LEMMA SlotResultsTyped ==
  ASSUME NEW p, ParserTyped(p), NEW slot
  PROVE  ResultsTyped(SlotResults(p, slot))
<1>1. ResultsTyped(Empty)
  BY DEF ResultsTyped, Empty
<1> QED
  BY <1>1 DEF SlotResults, Get, ParserTyped

(* The first result of a finished hash.                                    *)
LEMMA FirstIdxFacts ==
  ASSUME NEW p, ParserTyped(p), NEW slot, NEW h \in Finished(p, slot)
  PROVE  LET res == SlotResults(p, slot)
         IN  /\ h \in Hashes /\ h \in DOMAIN res /\ FirstIdx(res, h) \in Nat /\ FirstIdx(res, h) \in DOMAIN res[h]
             /\ res[h][FirstIdx(res, h)] \in Results
<1> DEFINE res == SlotResults(p, slot)
           S == {i \in DOMAIN res[h] : res[h][i] # NoResult}
<1>1. ResultsTyped(res)
  BY SlotResultsTyped
<1>2. h \in DOMAIN res /\ S # {}
  BY DEF Finished
<1>3. h \in Hashes /\ S \subseteq Nat /\ \A i \in S : i \in DOMAIN res[h] /\ res[h][i] \in Results
  BY <1>1, <1>2 DEF ResultsTyped, TxResults
<1>4. FirstIdx(res, h) = Lowest(S)
  BY DEF FirstIdx
<1> HIDE DEF res, S
<1>5. Lowest(S) \in S
  BY <1>2, <1>3, LowestFacts
<1>6. /\ h \in Hashes /\ h \in DOMAIN res /\ FirstIdx(res, h) \in Nat /\ FirstIdx(res, h) \in DOMAIN res[h]
      /\ res[h][FirstIdx(res, h)] \in Results
  BY <1>2, <1>3, <1>4, <1>5
<1> QED
  BY <1>6 DEF res

(* A report: its length, and what each entry is.                           *)
LEMMA FinalizeFacts ==
  ASSUME NEW p, ParserTyped(p), NEW slot, NEW o \in finalize_slot(p, slot)
  PROVE  LET res == SlotResults(p, slot)
             idxs == IdxsOf(p, slot)
         IN  /\ Cardinality(idxs) \in Nat /\ DOMAIN o = 1 .. Cardinality(idxs)
             /\ InOrder(idxs) \in [1 .. Cardinality(idxs) -> idxs]
             /\ \A k \in DOMAIN o :
                  /\ o[k].hash \in Finished(p, slot) /\ FirstIdx(res, o[k].hash) = InOrder(idxs)[k]
                  /\ o[k].result = res[o[k].hash][InOrder(idxs)[k]]
                  /\ o[k] \in [hash : Hashes, result : Results]
<1> DEFINE res == SlotResults(p, slot)
           done == Finished(p, slot)
           idxs == IdxsOf(p, slot)
           at(i) == {h \in done : FirstIdx(res, h) = i}
           ord == InOrder(idxs)
<1>1. done \subseteq Hashes /\ idxs \subseteq Nat
  BY FirstIdxFacts DEF IdxsOf
<1>2. IsFiniteSet(idxs)
  <2>1. IsFiniteSet(done)
    BY <1>1, TxParserAssumption, FS_Subset
  <2> DEFINE F == [h \in done |-> FirstIdx(res, h)]
  <2>2. F \in Surjection(done, idxs)
    BY DEF Surjection, IdxsOf
  <2> HIDE DEF F, done, idxs
  <2> QED
    BY <2>1, <2>2, FS_Surjection
<1>3. Cardinality(idxs) \in Nat /\ ord \in [1 .. Cardinality(idxs) -> idxs]
  BY <1>1, <1>2, InOrderFacts
<1>4. PICK pick \in {f \in [idxs -> done] : \A i \in idxs : f[i] \in at(i)} :
        o = [k \in 1 .. Cardinality(idxs) |-> [hash |-> pick[ord[k]], result |-> res[pick[ord[k]]][ord[k]]]]
  BY DEF finalize_slot, IdxsOf
<1>5. pick \in [idxs -> done] /\ \A i \in idxs : pick[i] \in done /\ FirstIdx(res, pick[i]) = i
  BY <1>4
<1>6. DOMAIN o = 1 .. Cardinality(idxs)
  BY <1>4
<1>7. ASSUME NEW k \in DOMAIN o
      PROVE  /\ o[k].hash \in done /\ FirstIdx(res, o[k].hash) = ord[k] /\ o[k].result = res[o[k].hash][ord[k]]
             /\ o[k] \in [hash : Hashes, result : Results]
  <2>1. ord[k] \in idxs
    BY <1>3, <1>6
  <2>2. o[k] = [hash |-> pick[ord[k]], result |-> res[pick[ord[k]]][ord[k]]]
    BY <1>4, <1>6
  <2>3. pick[ord[k]] \in done /\ FirstIdx(res, pick[ord[k]]) = ord[k]
    BY <1>5, <2>1
  <2>4. pick[ord[k]] \in Hashes /\ res[pick[ord[k]]][ord[k]] \in Results
    BY <2>3, FirstIdxFacts
  <2> HIDE DEF ord, res, done, idxs
  <2> QED
    BY <2>2, <2>3, <2>4
<1> QED
  BY <1>3, <1>6, <1>7

(* A report is a sequence of results.                                      *)
LEMMA FinalizeTyped ==
  ASSUME NEW p, ParserTyped(p), NEW slot, NEW o \in finalize_slot(p, slot)
  PROVE  o \in Reports
<1>1. PICK n \in Nat : DOMAIN o = 1 .. n
  BY FinalizeFacts
<1>2. \A k \in DOMAIN o : o[k] \in [hash : Hashes, result : Results]
  BY FinalizeFacts
<1>3. o = [k \in 1 .. n |-> o[k]]
  <2>1. o = [k \in DOMAIN o |-> o[k]]
    BY DEF finalize_slot
  <2> QED
    BY <1>1, <2>1
<1> DEFINE Entries == [hash : Hashes, result : Results]
<1>4. \A k \in 1 .. n : o[k] \in Entries
  BY <1>1, <1>2
<1> HIDE DEF Entries
<1>5. o \in [1 .. n -> Entries]
  BY <1>3, <1>4
<1>6. o \in Seq(Entries)
  BY <1>5
<1> QED
  BY <1>6 DEF Reports, Entries

(* Pruning keeps a parser in good order.                                   *)
LEMMA RetainTyped ==
  ASSUME NEW p, ParserTyped(p), NEW slot
  PROVE  ParserTyped(retain_from_slot(p, slot))
  BY DEF retain_from_slot, ParserTyped

(* AsStored for given contents and a given report.                         *)
ReportsAs(txs, o) ==
  LET order == InOrder({FirstFinish(txs, h) : h \in FinishedIn(txs)})
  IN  /\ Len(o) = Len(order)
      /\ \A k \in DOMAIN order :
           /\ o[k].hash \in {h \in FinishedIn(txs) : FirstFinish(txs, h) = order[k]}
           /\ txs[order[k]].meta \in Results => o[k].result = txs[order[k]].meta

(* A slot whose block is registered is reported as its block says.         *)
LEMMA FinalizeExact ==
  ASSUME NEW p, ParserTyped(p), NEW slot, NEW txs \in Bodies, Plain(txs),
         SlotResults(p, slot) = ResultsOf(ParsedTxs(txs)), NEW o \in finalize_slot(p, slot)
  PROVE  ReportsAs(txs, o)
<1> DEFINE res == SlotResults(p, slot)
           done == Finished(p, slot)
           idxs == IdxsOf(p, slot)
           order == InOrder({FirstFinish(txs, h) : h \in FinishedIn(txs)})
<1>1. /\ DOMAIN res = {h \in Hashes : \E i \in DOMAIN txs : Of(txs, i, h) # {}}
      /\ \A h \in DOMAIN res :
           /\ DOMAIN res[h] = {i \in DOMAIN txs : Of(txs, i, h) # {}}
           /\ \A i \in DOMAIN res[h] : res[h][i] = StepFor(txs, i, h).result
  <2> DEFINE st == ParsedTxs(txs)
  <2>1. /\ DOMAIN st = {h \in Hashes : \E i \in DOMAIN txs : Of(txs, i, h) # {}}
        /\ \A h \in DOMAIN st : /\ DOMAIN st[h] = {i \in DOMAIN txs : Of(txs, i, h) # {}}
                                /\ \A i \in DOMAIN st[h] : st[h][i] = StepFor(txs, i, h)
    BY ParsedTyped
  <2> HIDE DEF st
  <2>2. /\ DOMAIN res = DOMAIN st
        /\ \A h \in DOMAIN st : DOMAIN res[h] = DOMAIN st[h] /\ \A i \in DOMAIN st[h] : res[h][i] = st[h][i].result
    BY DEF ResultsOf, st
  <2> HIDE DEF res
  <2> QED
    BY <2>1, <2>2
<1> HIDE DEF res
<1>2. ASSUME NEW h \in DOMAIN res, NEW i \in DOMAIN txs
      PROVE  /\ Finishes(txs, i, h) <=> i \in DOMAIN res[h] /\ res[h][i] # NoResult
             /\ Finishes(txs, i, h) /\ txs[i].meta \in Results => res[h][i] = txs[i].meta
  <2>1. h \in Hashes
    BY <1>1
  <2>2. /\ Finishes(txs, i, h) <=> Of(txs, i, h) # {} /\ StepFor(txs, i, h).result # NoResult
        /\ Finishes(txs, i, h) /\ txs[i].meta \in Results => StepFor(txs, i, h).result = txs[i].meta
    BY <2>1, PlainStep
  <2> QED
    BY <1>1, <2>2
<1>3. done = FinishedIn(txs)
  <2>1. ASSUME NEW h \in done PROVE h \in FinishedIn(txs)
    <3>1. h \in DOMAIN res /\ \E i \in DOMAIN res[h] : res[h][i] # NoResult
      BY DEF Finished, res
    <3>2. PICK i \in DOMAIN txs : i \in DOMAIN res[h] /\ res[h][i] # NoResult
      BY <1>1, <3>1
    <3> QED
      BY <1>1, <1>2, <3>1, <3>2 DEF FinishedIn
  <2>2. ASSUME NEW h \in FinishedIn(txs) PROVE h \in done
    <3>1. h \in Hashes /\ \E i \in DOMAIN txs : Finishes(txs, i, h)
      BY DEF FinishedIn
    <3>2. PICK i \in DOMAIN txs : Finishes(txs, i, h)
      BY <3>1
    <3>3. Of(txs, i, h) # {}
      BY <3>1, <3>2, PlainStep
    <3>4. h \in DOMAIN res
      BY <1>1, <3>1, <3>3
    <3>5. i \in DOMAIN res[h] /\ res[h][i] # NoResult
      BY <1>2, <3>2, <3>4
    <3> QED
      BY <3>4, <3>5 DEF Finished, res
  <2> QED
    BY <2>1, <2>2
<1>4. ASSUME NEW h \in done PROVE FirstIdx(res, h) = FirstFinish(txs, h) /\ FirstIdx(res, h) \in DOMAIN txs
  <2>1. h \in DOMAIN res
    BY DEF Finished, res
  <2>2. {i \in DOMAIN res[h] : res[h][i] # NoResult} = {i \in DOMAIN txs : Finishes(txs, i, h)}
    BY <1>1, <1>2, <2>1
  <2>3. FirstIdx(res, h) = FirstFinish(txs, h)
    BY <2>2 DEF FirstIdx, FirstFinish
  <2>4. FirstIdx(res, h) \in DOMAIN res[h]
    BY FirstIdxFacts DEF res
  <2> QED
    BY <1>1, <2>1, <2>3, <2>4
<1>5. idxs = {FirstFinish(txs, h) : h \in FinishedIn(txs)}
  BY <1>3, <1>4 DEF IdxsOf, res
<1>6. order = InOrder(idxs)
  BY <1>5
<1>7. /\ Cardinality(idxs) \in Nat /\ DOMAIN o = 1 .. Cardinality(idxs)
      /\ order \in [1 .. Cardinality(idxs) -> idxs]
      /\ \A k \in DOMAIN o : /\ o[k].hash \in done /\ FirstIdx(res, o[k].hash) = order[k]
                             /\ o[k].result = res[o[k].hash][order[k]]
  <2>1. /\ Cardinality(idxs) \in Nat /\ DOMAIN o = 1 .. Cardinality(idxs)
        /\ InOrder(idxs) \in [1 .. Cardinality(idxs) -> idxs]
        /\ \A k \in DOMAIN o :
             /\ o[k].hash \in done /\ FirstIdx(res, o[k].hash) = InOrder(idxs)[k]
             /\ o[k].result = res[o[k].hash][InOrder(idxs)[k]]
    BY FinalizeFacts DEF res
  <2> HIDE DEF idxs, done, order
  <2> QED
    BY <1>6, <2>1
<1> HIDE DEF idxs, done, order
<1>8. Len(o) = Len(order) /\ DOMAIN order = DOMAIN o
  <2>1. o \in Reports
    BY FinalizeTyped
  <2>2. order \in Seq(idxs)
    BY <1>7
  <2> QED
    BY <1>7, <2>1, <2>2 DEF Reports
<1>9. ASSUME NEW k \in DOMAIN order
      PROVE  /\ o[k].hash \in {h \in FinishedIn(txs) : FirstFinish(txs, h) = order[k]}
             /\ txs[order[k]].meta \in Results => o[k].result = txs[order[k]].meta
  <2>1. /\ o[k].hash \in done /\ FirstIdx(res, o[k].hash) = order[k] /\ o[k].result = res[o[k].hash][order[k]]
    BY <1>7, <1>8
  <2>2. FirstFinish(txs, o[k].hash) = order[k] /\ order[k] \in DOMAIN txs /\ o[k].hash \in FinishedIn(txs)
    BY <1>3, <1>4, <2>1
  <2>3. o[k].hash \in DOMAIN res /\ order[k] \in DOMAIN res[o[k].hash] /\ res[o[k].hash][order[k]] # NoResult
    <3>1. /\ o[k].hash \in DOMAIN res /\ FirstIdx(res, o[k].hash) \in DOMAIN res[o[k].hash]
          /\ res[o[k].hash][FirstIdx(res, o[k].hash)] \in Results
      BY <2>1, FirstIdxFacts DEF res, done
    <3> QED
      BY <2>1, <3>1, TxParserAssumption
  <2>4. Finishes(txs, order[k], o[k].hash)
    BY <1>2, <2>2, <2>3
  <2> QED
    BY <1>2, <2>1, <2>2, <2>3, <2>4
<1> QED
  BY <1>8, <1>9 DEF ReportsAs, order

-----------------------------------------------------------------------------
(* The last stored slot.                                                   *)

LastOf(table) ==
  CHOOSE s \in 0 .. MaxSlot : /\ s = 0 \/ table[s].stored
                              /\ \A t \in (s + 1) .. MaxSlot : ~table[t].stored

(* It is stored, or zero, and no slot above it is stored.                  *)
LEMMA LastOfFacts ==
  ASSUME NEW table
  PROVE  /\ LastOf(table) \in 0 .. MaxSlot
         /\ LastOf(table) = 0 \/ table[LastOf(table)].stored
         /\ \A t \in Slots : table[t].stored => t <= LastOf(table)
<1> DEFINE T == {s \in 0 .. MaxSlot : s = 0 \/ table[s].stored}
<1>0. MaxSlot \in Nat
  BY BlockParserAssumption
<1>1. T \subseteq 0 .. MaxSlot /\ T # {}
  <2>1. 0 \in T
    BY <1>0
  <2> QED
    BY <2>1
<1>2. PICK m \in T : \A x \in T : x <= m
  <2> HIDE DEF T
  <2> QED
    BY <1>0, <1>1, GreatestElement
<1>3. m \in 0 .. MaxSlot /\ (m = 0 \/ table[m].stored)
  OBVIOUS
<1>4. ASSUME NEW t \in (m + 1) .. MaxSlot, table[t].stored PROVE FALSE
  <2>1. t \in 0 .. MaxSlot /\ ~(t <= m)
    BY <1>0, <1>3
  <2>2. t \in T
    BY <1>4, <2>1
  <2> QED
    BY <1>2, <2>1, <2>2
<1>5. \E s \in 0 .. MaxSlot : (s = 0 \/ table[s].stored) /\ \A t \in (s + 1) .. MaxSlot : ~table[t].stored
  BY <1>3, <1>4
<1>6. /\ LastOf(table) \in 0 .. MaxSlot
      /\ LastOf(table) = 0 \/ table[LastOf(table)].stored
      /\ \A t \in (LastOf(table) + 1) .. MaxSlot : ~table[t].stored
  BY <1>5, Zenon DEF LastOf
<1>7. PICK L \in 0 .. MaxSlot : L = LastOf(table)
  BY <1>6
<1>8. ASSUME NEW t \in Slots, table[t].stored PROVE t <= L
  <2>1. t \in 1 .. MaxSlot
    BY DEF Slots
  <2>2. t \notin (L + 1) .. MaxSlot
    BY <1>6, <1>7, <1>8
  <2> QED
    BY <1>0, <2>1, <2>2
<1> QED
  BY <1>6, <1>7, <1>8

(* It never goes down.                                                     *)
LEMMA LastOfGrows ==
  ASSUME NEW table, NEW other, \A t \in Slots : table[t].stored => other[t].stored
  PROVE  LastOf(table) <= LastOf(other)
<1>0. MaxSlot \in Nat
  BY BlockParserAssumption
<1>1. PICK L \in 0 .. MaxSlot : L = LastOf(table) /\ (L = 0 \/ table[L].stored)
  BY LastOfFacts
<1>2. PICK M \in 0 .. MaxSlot : M = LastOf(other) /\ \A t \in Slots : other[t].stored => t <= M
  BY LastOfFacts
<1>3. CASE L = 0
  BY <1>0, <1>1, <1>2, <1>3
<1>4. CASE L # 0
  <2>1. L \in Slots /\ other[L].stored
    BY <1>0, <1>1, <1>4 DEF Slots
  <2> QED
    BY <1>1, <1>2, <2>1
<1> QED
  BY <1>3, <1>4

-----------------------------------------------------------------------------
(* One round of parse.                                                     *)

(* Where a round may begin.                                                *)
RoundBegins(slot, n) ==
  /\ Stored(slot) /\ Stored(next) /\ slot <= next /\ next < to /\ n \in 1 .. MaxParseBehind
  /\ slot = next \/ pc = "parent"

(* What it does.                                                           *)
RoundEffect(slot, n) ==
  /\ ParserTyped(parser') /\ warned \subseteq warned' /\ warned' \subseteq Slots
  /\ warned' = {} => DOMAIN SlotResults(parser', next) \subseteq DOMAIN parser'.txs
  /\ next \notin warned' \cup ToSet(events) =>
       SlotResults(parser', next) = ResultsOf(ParsedTxs(store[next].txs))
  /\ \/ pc' = "panicked" /\ warned' # {} /\ UNCHANGED <<out, next, walk, count>>
     \/ pc' = "stopped" /\ UNCHANGED <<out, next, walk, count>>
     \/ pc' = "stopped" /\ walk' = slot /\ count' = n /\ UNCHANGED <<out, next>>
     \/ pc' = "parent" /\ walk' = slot /\ count' = n /\ n < MaxBlocks /\ UNCHANGED <<out, next>>
     \/ /\ pc' = "slot" /\ next' = next + 1 /\ walk' = 0 /\ count' = 0
        /\ \E o \in finalize_slot(parser', next) : out' = [out EXCEPT ![next] = o]

(* The effect of Round, given the invariant.                               *)
LEMMA RoundFacts ==
  ASSUME ParseTypeInv, RegisteredInv, NEW slot \in Slots, NEW n, RoundBegins(slot, n), Round(slot, n)
  PROVE  RoundEffect(slot, n)
<1>1. PICK r \in register_slot_transactions(parser, slot, ParsedTxs(store[slot].txs)) :
        /\ parser' = r.parser
        /\ warned' = IF r.ok THEN warned ELSE warned \cup {slot}
        /\ \E status \in is_slot_complete(r.parser, next) :
             \/ /\ status = "panic"
                /\ pc' = "panicked" /\ UNCHANGED <<out, next, walk, count>>
             \/ /\ status = "complete"
                /\ IF \A h \in Finished(r.parser, next) : builds(r.parser.txs[h])
                   THEN \E txs \in finalize_slot(r.parser, next) :
                          /\ out' = [out EXCEPT ![next] = txs]
                          /\ next' = next + 1 /\ pc' = "slot" /\ walk' = 0 /\ count' = 0
                   ELSE pc' = "stopped" /\ UNCHANGED <<out, next, walk, count>>
             \/ /\ status = "incomplete"
                /\ walk' = slot /\ count' = n
                /\ pc' = IF n >= MaxBlocks THEN "stopped" ELSE "parent"
                /\ UNCHANGED <<out, next>>
  BY DEF Round
<1>2. store[slot].txs \in Bodies /\ ParserTyped(parser)
  BY DEF ParseTypeInv, StoreInv, StoredBlocks
<1>3. /\ r.ok \in BOOLEAN /\ ParserTyped(r.parser) /\ DOMAIN parser.txs \subseteq DOMAIN r.parser.txs
      /\ \A s : s # slot => SlotResults(r.parser, s) = SlotResults(parser, s)
      /\ r.ok => /\ SlotResults(r.parser, slot) = ResultsOf(ParsedTxs(store[slot].txs))
                 /\ DOMAIN SlotResults(r.parser, slot) \subseteq DOMAIN r.parser.txs
  BY <1>2, RegisterOutcome
<1>4. warned \subseteq warned' /\ warned' \subseteq Slots
  BY <1>1 DEF ParseTypeInv, OutInv
<1>5. ASSUME warned' = {} PROVE DOMAIN SlotResults(parser', next) \subseteq DOMAIN parser'.txs
  <2>1. warned = {} /\ r.ok
    BY <1>1, <1>5
  <2>2. CASE slot = next
    BY <1>1, <1>3, <2>1, <2>2
  <2>3. CASE slot # next
    <3>1. SlotResults(parser', next) = SlotResults(parser, next)
      BY <1>1, <1>3, <2>3
    <3>2. DOMAIN SlotResults(parser, next) \subseteq DOMAIN parser.txs
      BY <2>1, <2>3 DEF RegisteredInv, RoundBegins
    <3> QED
      BY <1>1, <1>3, <3>1, <3>2
  <2> QED
    BY <2>2, <2>3
<1>6. ASSUME next \notin warned' \cup ToSet(events)
      PROVE  SlotResults(parser', next) = ResultsOf(ParsedTxs(store[next].txs))
  <2>1. CASE slot = next
    <3>1. r.ok
      BY <1>1, <1>6, <2>1
    <3> QED
      BY <1>1, <1>3, <2>1, <3>1
  <2>2. CASE slot # next
    <3>1. pc = "parent" /\ next \notin warned \cup ToSet(events)
      BY <1>4, <1>6, <2>2 DEF RoundBegins
    <3> QED
      BY <1>1, <1>3, <2>2, <3>1 DEF RegisteredInv
  <2> QED
    BY <2>1, <2>2
<1>7. PICK status \in is_slot_complete(parser', next) :
        \/ /\ status = "panic"
           /\ pc' = "panicked" /\ UNCHANGED <<out, next, walk, count>>
        \/ /\ status = "complete"
           /\ IF \A h \in Finished(r.parser, next) : builds(r.parser.txs[h])
              THEN \E txs \in finalize_slot(parser', next) :
                     /\ out' = [out EXCEPT ![next] = txs]
                     /\ next' = next + 1 /\ pc' = "slot" /\ walk' = 0 /\ count' = 0
              ELSE pc' = "stopped" /\ UNCHANGED <<out, next, walk, count>>
        \/ /\ status = "incomplete"
           /\ walk' = slot /\ count' = n
           /\ pc' = IF n >= MaxBlocks THEN "stopped" ELSE "parent"
           /\ UNCHANGED <<out, next>>
  BY <1>1
<1>8. ASSUME status = "panic" PROVE warned' # {}
  <2>1. Finished(parser', next) \ DOMAIN parser'.txs # {}
    BY <1>7, <1>8 DEF is_slot_complete
  <2>2. Finished(parser', next) \subseteq DOMAIN SlotResults(parser', next)
    BY DEF Finished
  <2> QED
    BY <1>5, <2>1, <2>2
<1>9. n \in Nat /\ MaxBlocks \in Nat
  <2>1. MaxSlot \in Nat /\ MaxParseBehind \in Nat
    BY BlockParserAssumption
  <2>2. next \in Slots /\ n \in 1 .. MaxParseBehind
    BY DEF ParseTypeInv, CursorInv, RoundBegins
  <2>3. next \in Nat /\ n \in Nat
    BY <2>1, <2>2 DEF Slots
  <2> QED
    BY <2>1, <2>3 DEF MaxBlocks
<1>10. \/ pc' = "panicked" /\ warned' # {} /\ UNCHANGED <<out, next, walk, count>>
       \/ pc' = "stopped" /\ UNCHANGED <<out, next, walk, count>>
       \/ pc' = "stopped" /\ walk' = slot /\ count' = n /\ UNCHANGED <<out, next>>
       \/ pc' = "parent" /\ walk' = slot /\ count' = n /\ n < MaxBlocks /\ UNCHANGED <<out, next>>
       \/ /\ pc' = "slot" /\ next' = next + 1 /\ walk' = 0 /\ count' = 0
          /\ \E o \in finalize_slot(parser', next) : out' = [out EXCEPT ![next] = o]
  <2>1. CASE status = "panic"
    BY <1>7, <1>8, <2>1
  <2>2. CASE status = "complete"
    <3>1. CASE \A h \in Finished(r.parser, next) : builds(r.parser.txs[h])
      BY <1>7, <2>2, <3>1
    <3>2. CASE ~ \A h \in Finished(r.parser, next) : builds(r.parser.txs[h])
      BY <1>7, <2>2, <3>2
    <3> QED
      BY <3>1, <3>2
  <2>3. CASE status = "incomplete"
    <3>1. CASE n >= MaxBlocks
      BY <1>7, <2>3, <3>1
    <3>2. CASE ~(n >= MaxBlocks)
      BY <1>7, <1>9, <2>3, <3>2
    <3> QED
      BY <3>1, <3>2
  <2> QED
    BY <1>7, <2>1, <2>2, <2>3
<1>11. ParserTyped(parser')
  BY <1>1, <1>3
<1> QED
  BY <1>4, <1>5, <1>6, <1>10, <1>11 DEF RoundEffect

-----------------------------------------------------------------------------
(* The steps.                                                              *)

(* AsStored speaks of the block and of the report of a slot.               *)
LEMMA AsStoredIs == \A s : AsStored(s) <=> ReportsAs(store[s].txs, out[s])
  BY DEF AsStored, ReportsAs

(* The slots behind the cursor whose report must be that of their block.   *)
Reported == {s \in StartSlot .. (next - 1) : s \notin warned \cup skipped \cup ToSet(events)}

ReportedInv == \A s \in Reported : ReportsAs(store[s].txs, out[s])

(* It is the property of the run.                                          *)
LEMMA ReportedIs == ReportedInv <=> ParsedAsStored
  BY AsStoredIs DEF ReportedInv, Reported, ParsedAsStored

(* The numbers in the invariant.                                           *)
LEMMA Numbers ==
  ASSUME ParseTypeInv
  PROVE  /\ MaxSlot \in Nat /\ Slots = 1 .. MaxSlot /\ Slots \subseteq Nat /\ StartSlot \in Slots
         /\ from \in Slots /\ next \in Slots /\ to \in Slots /\ goal \in Slots /\ LastSlot \in 0 .. MaxSlot
         /\ LastSlot = LastOf(store)
         /\ \A t \in Slots : store[t].stored => t <= LastSlot
         /\ \A s \in Reported : s \in Slots /\ s < next /\ s < LastSlot
<1>1. MaxSlot \in Nat /\ Slots = 1 .. MaxSlot /\ Slots \subseteq Nat /\ StartSlot \in Slots
  BY BlockParserAssumption DEF Slots
<1>2. from \in Slots /\ next \in Slots /\ to \in Slots /\ goal \in Slots
  BY DEF ParseTypeInv, CursorInv
<1>3. LastSlot = LastOf(store)
  BY DEF LastSlot, LastOf
<1>4. LastSlot \in 0 .. MaxSlot /\ \A t \in Slots : store[t].stored => t <= LastSlot
  BY <1>3, LastOfFacts
<1>5. ASSUME NEW s \in Reported PROVE s \in Slots /\ s < next /\ s < LastSlot
  <2>1. s \in StartSlot .. (next - 1)
    BY DEF Reported
  <2>2. s \in Slots /\ s < next /\ StartSlot <= s
    BY <1>1, <1>2, <2>1
  <2>3. next <= goal /\ (goal <= LastSlot \/ goal <= StartSlot)
    BY <1>1, <1>2 DEF ParseTypeInv, CursorInv
  <2> QED
    BY <1>1, <1>2, <1>4, <2>2, <2>3
<1> QED
  BY <1>1, <1>2, <1>3, <1>4, <1>5

(* The first state.                                                        *)
LEMMA ParseInit == Init => ParseTypeInv /\ RegisteredInv /\ ReportedInv
<1> SUFFICES ASSUME Init PROVE ParseTypeInv /\ RegisteredInv /\ ReportedInv
  OBVIOUS
<1>0. MaxSlot \in Nat /\ Slots = 1 .. MaxSlot /\ StartSlot \in Slots /\ MaxUpdates \in Nat /\ MaxRestarts \in Nat
      /\ MaxParseBehind \in Nat
  BY BlockParserAssumption DEF Slots
<1>1. StoreInv
  <2>1. NoBlock \in StoredBlocks /\ NoBlock.parent = 0 /\ NoBlock.txs = <<>>
    BY <1>0 DEF NoBlock, StoredBlocks, Bodies
  <2>2. store \in [Slots -> StoredBlocks] /\ \A s \in Slots : store[s].parent < s /\ store[s].txs = <<>>
    BY <1>0, <2>1 DEF Init
  <2> QED
    BY <1>0, <2>2 DEF Init, StoreInv
<1>2. ParserTyped(parser)
  BY DEF Init, NewParser, ParserTyped, Empty
<1>3. CursorInv
  BY <1>0 DEF Init, CursorInv
<1>4. OutInv
  BY DEF Init, OutInv
<1>5. RegisteredInv
  BY DEF Init, RegisteredInv
<1>6. ReportedInv
  BY <1>0 DEF Init, ReportedInv, Reported
<1> QED
  BY <1>1, <1>2, <1>3, <1>4, <1>5, <1>6 DEF ParseTypeInv

(* A block is stored.                                                      *)
LEMMA StoreBlockStep ==
  ASSUME ParseTypeInv, RegisteredInv, NEW s \in Slots, StoreBlock(s)
  PROVE  ParseTypeInv' /\ RegisteredInv' /\ (ReportedInv => ReportedInv')
<1>0. /\ pc = "idle" /\ LastSlot < s
      /\ UNCHANGED <<events, updates, parser, pc, goal, from, to, next, walk, count, out, warned, skipped, forgot, restarts>>
  BY DEF StoreBlock, cursorVars, historyVars
<1>1. PICK txs \in Contents : store' = [store EXCEPT ![s] = Block(LastSlot, txs)]
  BY DEF StoreBlock, Possible
<1>2. MaxSlot \in Nat /\ Slots = 1 .. MaxSlot /\ LastSlot \in 0 .. MaxSlot
  BY Numbers
<1> DEFINE b == Block(LastSlot, txs)
<1>3. b \in StoredBlocks /\ b.stored = TRUE /\ b.parent < s
  BY <1>0, <1>2 DEF Block, StoredBlocks, Bodies
<1> HIDE DEF b
<1>4. store' = [store EXCEPT ![s] = b] /\ store \in [Slots -> StoredBlocks]
  BY <1>1 DEF b, ParseTypeInv, StoreInv
<1>5. store'[s] = b /\ \A t \in Slots : t # s => store'[t] = store[t]
  BY <1>4
<1>6. \A t \in Slots : store[t].stored => store'[t].stored
  <2>1. ASSUME NEW t \in Slots, store[t].stored PROVE store'[t].stored
    <3>1. CASE t = s
      BY <1>3, <1>5, <3>1
    <3>2. CASE t # s
      BY <1>5, <2>1, <3>2
    <3> QED
      BY <3>1, <3>2
  <2> QED
    BY <2>1
<1>7. StoreInv'
  <2>1. store' \in [Slots -> StoredBlocks]
    BY <1>3, <1>4
  <2>2. ASSUME NEW t \in Slots PROVE store'[t].parent < t /\ (~store'[t].stored => store'[t].txs = <<>>)
    <3>1. CASE t = s
      BY <1>3, <1>5, <3>1
    <3>2. CASE t # s
      BY <1>5, <3>2 DEF ParseTypeInv, StoreInv
    <3> QED
      BY <3>1, <3>2
  <2>3. events' \in Seq(Slots) /\ \A i \in DOMAIN events' : store'[events'[i]].stored
    <3>1. events \in Seq(Slots) /\ \A i \in DOMAIN events : store[events[i]].stored
      BY DEF ParseTypeInv, StoreInv
    <3>2. \A i \in DOMAIN events : events[i] \in Slots
      BY <3>1
    <3> QED
      BY <1>0, <1>6, <3>1, <3>2
  <2> QED
    BY <1>0, <2>1, <2>2, <2>3 DEF ParseTypeInv, StoreInv
<1>8. CursorInv'
  <2>1. LastSlot = LastOf(store) /\ LastSlot' = LastOf(store')
    BY DEF LastSlot, LastOf
  <2>2. LastSlot <= LastSlot' /\ LastSlot' \in 0 .. MaxSlot
    BY <1>6, <2>1, LastOfGrows, LastOfFacts
  <2>3. goal <= LastSlot' \/ goal <= StartSlot
    BY <1>2, <2>2, Numbers DEF ParseTypeInv, CursorInv
  <2> QED
    BY <1>0, <2>3 DEF ParseTypeInv, CursorInv
<1>9. OutInv' /\ ParserTyped(parser')
  BY <1>0 DEF ParseTypeInv, OutInv
<1>10. RegisteredInv'
  BY <1>0 DEF RegisteredInv
<1>11. ASSUME ReportedInv PROVE ReportedInv'
  <2>1. Reported' = Reported
    BY <1>0 DEF Reported
  <2>2. ASSUME NEW t \in Reported PROVE store'[t] = store[t]
    <3>1. t \in Slots /\ t < LastSlot
      BY Numbers
    <3>2. t # s
      BY <1>0, <1>2, <3>1
    <3> QED
      BY <1>5, <3>1, <3>2
  <2> QED
    BY <1>0, <1>11, <2>1, <2>2 DEF ReportedInv
<1> QED
  BY <1>7, <1>8, <1>9, <1>10, <1>11 DEF ParseTypeInv

(* A block is replaced.                                                    *)
LEMMA UpdateBlockStep ==
  ASSUME ParseTypeInv, RegisteredInv, NEW s \in Slots, UpdateBlock(s)
  PROVE  ParseTypeInv' /\ RegisteredInv' /\ (ReportedInv => ReportedInv')
<1>0. /\ updates < MaxUpdates /\ Stored(s) /\ events' = Append(events, s) /\ updates' = updates + 1
      /\ UNCHANGED <<parser, pc, goal, from, to, next, walk, count, out, warned, skipped, forgot, restarts>>
  BY DEF UpdateBlock, cursorVars, historyVars
<1>1. PICK txs \in Contents : store' = [store EXCEPT ![s].txs = txs]
  BY DEF UpdateBlock, Possible
<1>2. MaxSlot \in Nat /\ Slots = 1 .. MaxSlot /\ Slots \subseteq Nat /\ MaxUpdates \in Nat
  BY BlockParserAssumption, Numbers
<1>3. store \in [Slots -> StoredBlocks]
  BY DEF ParseTypeInv, StoreInv
<1>4. /\ store' \in [Slots -> StoredBlocks]
      /\ \A t \in Slots : store'[t].parent = store[t].parent /\ store'[t].stored = store[t].stored
      /\ \A t \in Slots : t # s => store'[t] = store[t]
  BY <1>1, <1>3 DEF StoredBlocks, Bodies
<1>5. events \in Seq(Slots) /\ ToSet(events') = ToSet(events) \cup {s} /\ events' \in Seq(Slots)
      /\ \A i \in DOMAIN events' : events'[i] \in ToSet(events) \cup {s}
  <2>1. events \in Seq(Slots)
    BY DEF ParseTypeInv, StoreInv
  <2>2. /\ DOMAIN events' = DOMAIN events \cup {Len(events) + 1} /\ events'[Len(events) + 1] = s
        /\ events' \in Seq(Slots) /\ \A i \in DOMAIN events : events'[i] = events[i]
    BY <1>0, <2>1
  <2>3. ASSUME NEW i \in DOMAIN events' PROVE events'[i] \in ToSet(events) \cup {s}
    <3>1. CASE i \in DOMAIN events
      BY <2>2, <3>1 DEF ToSet
    <3>2. CASE i = Len(events) + 1
      BY <2>2, <3>2
    <3> QED
      BY <2>2, <3>1, <3>2
  <2>4. ToSet(events) \subseteq ToSet(events') /\ s \in ToSet(events')
    BY <2>2 DEF ToSet
  <2>5. ToSet(events') \subseteq ToSet(events) \cup {s}
    BY <2>3 DEF ToSet
  <2> QED
    BY <2>1, <2>2, <2>3, <2>4, <2>5
<1>6. StoreInv'
  <2>1. ASSUME NEW t \in Slots PROVE store'[t].parent < t /\ (~store'[t].stored => store'[t].txs = <<>>)
    <3>1. CASE t = s
      BY <1>0, <1>4, <3>1 DEF Stored, ParseTypeInv, StoreInv
    <3>2. CASE t # s
      BY <1>4, <3>2 DEF ParseTypeInv, StoreInv
    <3> QED
      BY <3>1, <3>2
  <2>2. ASSUME NEW t \in ToSet(events) \cup {s} PROVE store'[t].stored
    <3>1. t \in Slots /\ store[t].stored
      BY <1>0, <1>5 DEF ToSet, ParseTypeInv, StoreInv, Stored
    <3> QED
      BY <1>4, <3>1
  <2>3. updates' \in 0 .. MaxUpdates /\ restarts' \in 0 .. MaxRestarts
    BY <1>0, <1>2 DEF ParseTypeInv, StoreInv
  <2>4. \A i \in DOMAIN events' : store'[events'[i]].stored
    BY <1>5, <2>2
  <2> QED
    BY <1>4, <1>5, <2>1, <2>3, <2>4 DEF StoreInv
<1>7. CursorInv'
  <2>1. LastSlot = LastOf(store) /\ LastSlot' = LastOf(store')
    BY DEF LastSlot, LastOf
  <2>2. LastSlot <= LastSlot' /\ LastSlot' \in 0 .. MaxSlot
    BY <1>4, <2>1, LastOfGrows, LastOfFacts
  <2>3. goal <= LastSlot' \/ goal <= StartSlot
    BY <1>2, <2>2, Numbers DEF ParseTypeInv, CursorInv
  <2>4. pc = "parent" => Stored(next)' /\ Stored(walk)'
    BY <1>0, <1>4 DEF ParseTypeInv, CursorInv, Stored
  <2>5. MaxBlocks' = MaxBlocks
    BY <1>0 DEF MaxBlocks
  <2> QED
    BY <1>0, <2>3, <2>4, <2>5 DEF ParseTypeInv, CursorInv
<1>8. OutInv' /\ ParserTyped(parser')
  BY <1>0 DEF ParseTypeInv, OutInv
<1>9. RegisteredInv'
  <2>1. ASSUME pc = "parent", next \notin warned \cup ToSet(events')
        PROVE  SlotResults(parser, next) = ResultsOf(ParsedTxs(store'[next].txs))
    <3>1. next \notin warned \cup ToSet(events) /\ next # s /\ next \in Slots
      BY <1>5, <2>1, Numbers
    <3>2. store'[next] = store[next]
      BY <1>4, <3>1
    <3> QED
      BY <2>1, <3>1, <3>2 DEF RegisteredInv
  <2> QED
    BY <1>0, <2>1 DEF RegisteredInv
<1>10. ASSUME ReportedInv PROVE ReportedInv'
  <2>1. ASSUME NEW t \in Reported' PROVE t \in Reported /\ store'[t] = store[t]
    <3>1. t \in Reported /\ t # s
      BY <1>0, <1>5 DEF Reported
    <3>2. t \in Slots
      BY <3>1, Numbers
    <3> QED
      BY <1>4, <3>1, <3>2
  <2> QED
    BY <1>0, <1>10, <2>1 DEF ReportedInv
<1> QED
  BY <1>6, <1>7, <1>8, <1>9, <1>10 DEF ParseTypeInv

(* A reorg event is received.                                              *)
LEMMA ReceiveReorgStep ==
  ASSUME ParseTypeInv, ReceiveReorg
  PROVE  ParseTypeInv' /\ RegisteredInv' /\ (ReportedInv => ReportedInv')
<1> DEFINE e == Head(events)
<1>0. /\ pc = "idle" /\ events # <<>> /\ events' = Tail(events)
      /\ from' = e /\ to' = e /\ next' = e /\ goal' = e
      /\ out' = [s \in Slots |-> IF s >= e THEN NotParsed ELSE out[s]]
      /\ skipped' = (skipped \cup from .. (e - 1)) \ (e .. MaxSlot)
      /\ UNCHANGED <<store, updates, parser, pc, walk, count, warned, forgot, restarts>>
  BY DEF ReceiveReorg
<1>1. /\ MaxSlot \in Nat /\ Slots = 1 .. MaxSlot /\ Slots \subseteq Nat /\ StartSlot \in Slots
      /\ from \in Slots /\ next \in Slots /\ LastSlot \in 0 .. MaxSlot
      /\ \A t \in Slots : store[t].stored => t <= LastSlot
  BY Numbers
<1>2. from = next
  BY <1>0 DEF ParseTypeInv, CursorInv
<1>3. /\ events \in Seq(Slots) /\ e \in Slots /\ store[e].stored /\ events' \in Seq(Slots)
      /\ \A i \in DOMAIN events' : events'[i] \in ToSet(events) /\ store[events'[i]].stored
      /\ ToSet(events) = ToSet(events') \cup {e}
  <2>1. events \in Seq(Slots) /\ \A i \in DOMAIN events : store[events[i]].stored
    BY DEF ParseTypeInv, StoreInv
  <2>2. 1 \in DOMAIN events /\ e = events[1]
    BY <1>0, <2>1
  <2>3. /\ events' \in Seq(Slots) /\ DOMAIN events' = 1 .. (Len(events) - 1) /\ DOMAIN events = 1 .. Len(events)
        /\ Len(events) \in Nat /\ \A i \in DOMAIN events' : events'[i] = events[i + 1]
    BY <1>0, <2>1
  <2>4. ASSUME NEW i \in DOMAIN events' PROVE i + 1 \in DOMAIN events /\ events'[i] = events[i + 1]
    BY <2>3
  <2>5. ASSUME NEW i \in DOMAIN events PROVE events[i] = e \/ events[i] \in ToSet(events')
    <3>1. CASE i = 1
      BY <2>2, <3>1
    <3>2. CASE i # 1
      <4>1. i - 1 \in DOMAIN events' /\ events'[i - 1] = events[i]
        BY <2>3, <3>2
      <4> QED
        BY <4>1 DEF ToSet
    <3> QED
      BY <3>1, <3>2
  <2> HIDE DEF e
  <2>6. \A i \in DOMAIN events' : events'[i] \in ToSet(events) /\ store[events'[i]].stored
    BY <2>1, <2>4 DEF ToSet
  <2>7. ToSet(events) \subseteq ToSet(events') \cup {e}
    BY <2>5 DEF ToSet
  <2>8. ToSet(events') \cup {e} \subseteq ToSet(events)
    BY <2>2, <2>6 DEF ToSet
  <2>9. e \in Slots /\ store[e].stored
    BY <2>1, <2>2
  <2> QED
    BY <2>1, <2>3, <2>6, <2>7, <2>8, <2>9
<1> HIDE DEF e
<1>4. StoreInv'
  <2>1. \A i \in DOMAIN events' : store'[events'[i]].stored
    BY <1>0, <1>3
  <2> QED
    BY <1>0, <1>3, <2>1 DEF ParseTypeInv, StoreInv
<1>5. CursorInv'
  <2>1. LastSlot' = LastSlot
    BY <1>0 DEF LastSlot
  <2>2. e <= LastSlot
    BY <1>1, <1>3
  <2>3. walk' \in 0 .. MaxSlot /\ count' \in 0 .. MaxParseBehind /\ pc' = "idle"
    BY <1>0 DEF ParseTypeInv, CursorInv
  <2>4. e <= e
    BY <1>1, <1>3
  <2> QED
    BY <1>0, <1>3, <2>1, <2>2, <2>3, <2>4 DEF CursorInv
<1>6. OutInv'
  <2>1. out' \in [Slots -> {NotParsed} \cup Reports]
    BY <1>0 DEF ParseTypeInv, OutInv
  <2>2. from .. (e - 1) \subseteq Slots
    BY <1>1, <1>3
  <2>3. skipped' \subseteq Slots
    BY <1>0, <2>2 DEF ParseTypeInv, OutInv
  <2> QED
    BY <1>0, <2>1, <2>3 DEF ParseTypeInv, OutInv
<1>7. ParserTyped(parser') /\ RegisteredInv'
  BY <1>0 DEF ParseTypeInv, RegisteredInv
<1>8. ASSUME ReportedInv PROVE ReportedInv'
  <2>1. ASSUME NEW t \in Reported' PROVE t \in Reported /\ out'[t] = out[t]
    <3>1. t \in StartSlot .. (e - 1) /\ t \notin warned \cup skipped' \cup ToSet(events')
      BY <1>0 DEF Reported
    <3>2. t \in Nat /\ StartSlot <= t /\ t < e /\ t \in Slots
      BY <1>1, <1>3, <3>1
    <3>3. t \notin e .. MaxSlot
      BY <1>1, <1>3, <3>2
    <3>4. t \notin skipped /\ t \notin from .. (e - 1)
      BY <1>0, <3>1, <3>3
    <3>5. t < next
      BY <1>1, <1>2, <1>3, <3>2, <3>4
    <3>6. t \in StartSlot .. (next - 1)
      BY <1>1, <3>2, <3>5
    <3>7. t # e
      BY <1>1, <1>3, <3>2
    <3>8. t \in Reported
      BY <1>3, <3>1, <3>4, <3>6, <3>7 DEF Reported
    <3>9. out'[t] = out[t]
      BY <1>0, <1>1, <1>3, <3>2
    <3> QED
      BY <3>8, <3>9
  <2> QED
    BY <1>0, <1>8, <2>1 DEF ReportedInv
<1> QED
  BY <1>4, <1>5, <1>6, <1>7, <1>8 DEF ParseTypeInv

(* A batch begins.                                                         *)
LEMMA BatchStep ==
  ASSUME ParseTypeInv, NEW g, pc = "idle", Batch(g),
         (g = LastSlot /\ from < LastSlot) \/ (g = goal /\ from < goal)
  PROVE  ParseTypeInv' /\ RegisteredInv' /\ (ReportedInv => ReportedInv')
<1>0. /\ goal' = g /\ to' = (IF g - from < BatchSize THEN g ELSE from + BatchSize) /\ pc' = "slot"
      /\ UNCHANGED <<store, events, updates, parser, from, next, walk, count, out, warned, skipped, forgot, restarts>>
  BY DEF Batch, loaderVars, historyVars
<1>1. /\ MaxSlot \in Nat /\ Slots = 1 .. MaxSlot /\ Slots \subseteq Nat /\ StartSlot \in Slots
      /\ from \in Slots /\ next \in Slots /\ goal \in Slots /\ LastSlot \in 0 .. MaxSlot
      /\ BatchSize \in Nat \ {0}
  BY Numbers, BlockParserAssumption
<1>2. from = next /\ (goal <= LastSlot \/ goal <= StartSlot)
  BY DEF ParseTypeInv, CursorInv
<1>3. g \in Slots /\ from < g /\ (g <= LastSlot \/ g <= StartSlot)
  BY <1>1, <1>2
<1>4. to' \in Slots /\ next <= to' /\ to' <= g
  <2>1. CASE g - from < BatchSize
    BY <1>0, <1>1, <1>2, <1>3, <2>1
  <2>2. CASE ~(g - from < BatchSize)
    BY <1>0, <1>1, <1>2, <1>3, <2>2
  <2> QED
    BY <2>1, <2>2
<1>5. LastSlot' = LastSlot
  BY <1>0 DEF LastSlot
<1>6. CursorInv'
  <2>1. walk' \in 0 .. MaxSlot /\ count' \in 0 .. MaxParseBehind
    BY <1>0 DEF ParseTypeInv, CursorInv
  <2>2. from' <= next'
    BY <1>0, <1>1, <1>2
  <2> QED
    BY <1>0, <1>1, <1>3, <1>4, <1>5, <2>1, <2>2 DEF CursorInv
<1>7. StoreInv' /\ ParserTyped(parser') /\ OutInv'
  BY <1>0 DEF ParseTypeInv, StoreInv, OutInv
<1>8. RegisteredInv'
  BY <1>0 DEF RegisteredInv
<1>9. ReportedInv => ReportedInv'
  <2>1. Reported' = Reported
    BY <1>0 DEF Reported
  <2> QED
    BY <1>0, <2>1 DEF ReportedInv
<1> QED
  BY <1>6, <1>7, <1>8, <1>9 DEF ParseTypeInv

(* A block is registered on behalf of the slot at hand.                    *)
LEMMA RoundStep ==
  ASSUME ParseTypeInv, RegisteredInv, NEW slot \in Slots, NEW n, RoundBegins(slot, n), Round(slot, n),
         UNCHANGED <<loaderVars, goal, from, to, skipped, forgot, restarts>>
  PROVE  ParseTypeInv' /\ RegisteredInv' /\ (PlainBlocks /\ ReportedInv => ReportedInv')
<1>0. UNCHANGED <<store, events, updates, goal, from, to, skipped, forgot, restarts>>
  BY DEF loaderVars
<1>1. RoundEffect(slot, n)
  BY RoundFacts
<1>2. /\ MaxSlot \in Nat /\ Slots = 1 .. MaxSlot /\ Slots \subseteq Nat /\ StartSlot \in Slots
      /\ from \in Slots /\ next \in Slots /\ to \in Slots /\ goal \in Slots /\ LastSlot \in 0 .. MaxSlot
  BY Numbers
<1>3. Stored(slot) /\ Stored(next) /\ slot <= next /\ next < to /\ n \in 1 .. MaxParseBehind
  BY DEF RoundBegins
<1>4. LastSlot' = LastSlot
  BY <1>0 DEF LastSlot
<1>5. /\ ParserTyped(parser') /\ warned \subseteq warned' /\ warned' \subseteq Slots
  BY <1>1 DEF RoundEffect
<1>6. StoreInv'
  BY <1>0 DEF ParseTypeInv, StoreInv
<1>7. /\ MaxParseBehind \in Nat /\ from <= next /\ next <= to /\ to <= goal /\ (goal <= LastSlot \/ goal <= StartSlot)
      /\ walk \in 0 .. MaxSlot /\ count \in 0 .. MaxParseBehind
  BY BlockParserAssumption DEF ParseTypeInv, CursorInv
<1>8. slot \in 0 .. MaxSlot /\ n \in 0 .. MaxParseBehind
  BY <1>2, <1>3, <1>7
<1>9. CASE pc' \in {"panicked", "stopped"} /\ next' = next /\ out' = out /\ walk' \in 0 .. MaxSlot
           /\ count' \in 0 .. MaxParseBehind /\ (pc' = "panicked" => warned' # {})
  <2>1. CursorInv'
    BY <1>0, <1>2, <1>4, <1>7, <1>9 DEF CursorInv
  <2>2. OutInv' /\ RegisteredInv'
    BY <1>0, <1>5, <1>9 DEF ParseTypeInv, OutInv, RegisteredInv
  <2>3. Reported' \subseteq Reported
    BY <1>0, <1>5, <1>9 DEF Reported
  <2>4. ReportedInv => ReportedInv'
    BY <1>0, <1>9, <2>3 DEF ReportedInv
  <2> QED
    BY <1>5, <1>6, <2>1, <2>2, <2>4 DEF ParseTypeInv
<1>10. CASE pc' = "parent" /\ walk' = slot /\ count' = n /\ n < MaxBlocks /\ UNCHANGED <<out, next>>
  <2>1. MaxBlocks' = MaxBlocks /\ Stored(next)' /\ Stored(walk)'
    BY <1>0, <1>3, <1>10 DEF MaxBlocks, Stored
  <2>2. CursorInv'
    BY <1>0, <1>2, <1>3, <1>4, <1>7, <1>8, <1>10, <2>1 DEF CursorInv
  <2>3. OutInv'
    BY <1>0, <1>5, <1>10 DEF ParseTypeInv, OutInv
  <2>4. RegisteredInv'
    BY <1>0, <1>1, <1>10 DEF RoundEffect, RegisteredInv
  <2>5. Reported' \subseteq Reported
    BY <1>0, <1>5, <1>10 DEF Reported
  <2>6. ReportedInv => ReportedInv'
    BY <1>0, <1>10, <2>5 DEF ReportedInv
  <2> QED
    BY <1>5, <1>6, <2>2, <2>3, <2>4, <2>6 DEF ParseTypeInv
<1>11. CASE /\ pc' = "slot" /\ next' = next + 1 /\ walk' = 0 /\ count' = 0
            /\ \E o \in finalize_slot(parser', next) : out' = [out EXCEPT ![next] = o]
  <2>1. PICK o \in finalize_slot(parser', next) : out' = [out EXCEPT ![next] = o]
    BY <1>11
  <2>2. next + 1 \in Slots /\ from <= next + 1 /\ next + 1 <= to
    BY <1>2, <1>3, <1>7
  <2>3. CursorInv'
    BY <1>0, <1>2, <1>4, <1>7, <1>11, <2>2 DEF CursorInv
  <2>4. o \in Reports
    BY <1>5, FinalizeTyped
  <2>5. OutInv'
    BY <1>0, <1>2, <1>5, <2>1, <2>4 DEF ParseTypeInv, OutInv
  <2>6. RegisteredInv'
    BY <1>11 DEF RegisteredInv
  <2>7. ASSUME PlainBlocks, ReportedInv PROVE ReportedInv'
    <3> SUFFICES ASSUME NEW t \in Reported' PROVE ReportsAs(store[t].txs, out'[t])
      BY <1>0 DEF ReportedInv
    <3>1. t \in StartSlot .. next /\ t \notin warned' \cup skipped \cup ToSet(events)
      <4>1. next' - 1 = next
        BY <1>2, <1>11
      <4> QED
        BY <1>0, <4>1 DEF Reported
    <3>2. out \in [Slots -> {NotParsed} \cup Reports]
      BY DEF ParseTypeInv, OutInv
    <3>3. CASE t = next
      <4>1. out'[t] = o
        BY <1>2, <2>1, <3>2, <3>3
      <4>2. SlotResults(parser', next) = ResultsOf(ParsedTxs(store[next].txs))
        BY <1>1, <3>1, <3>3 DEF RoundEffect
      <4>3. store[next].txs \in Bodies
        BY <1>2 DEF ParseTypeInv, StoreInv, StoredBlocks
      <4>4. Plain(store[next].txs)
        <5>1. Plain(<<>>)
          BY DEF Plain
        <5> QED
          BY <2>7, <4>3, <5>1 DEF PlainBlocks, Bodies
      <4>5. ReportsAs(store[next].txs, o)
        BY <1>5, <4>2, <4>3, <4>4, FinalizeExact
      <4> QED
        BY <3>3, <4>1, <4>5
    <3>4. CASE t # next
      <4>1. t \in StartSlot .. (next - 1) /\ t \in Slots
        BY <1>2, <3>1, <3>4
      <4>2. t \in Reported
        BY <1>5, <3>1, <4>1 DEF Reported
      <4>3. out'[t] = out[t]
        BY <2>1, <3>2, <3>4, <4>1
      <4> QED
        BY <2>7, <4>2, <4>3 DEF ReportedInv
    <3> QED
      BY <3>3, <3>4
  <2> QED
    BY <1>5, <1>6, <2>3, <2>5, <2>6, <2>7 DEF ParseTypeInv
<1>12. \/ /\ pc' \in {"panicked", "stopped"} /\ next' = next /\ out' = out /\ walk' \in 0 .. MaxSlot
          /\ count' \in 0 .. MaxParseBehind /\ (pc' = "panicked" => warned' # {})
       \/ pc' = "parent" /\ walk' = slot /\ count' = n /\ n < MaxBlocks /\ UNCHANGED <<out, next>>
       \/ /\ pc' = "slot" /\ next' = next + 1 /\ walk' = 0 /\ count' = 0
          /\ \E o \in finalize_slot(parser', next) : out' = [out EXCEPT ![next] = o]
  BY <1>1, <1>7, <1>8 DEF RoundEffect
<1> QED
  BY <1>9, <1>10, <1>11, <1>12

(* The slot at hand and its parents.                                       *)
LEMMA ParseRoundStep ==
  ASSUME ParseTypeInv, RegisteredInv, ParseFinal \/ ParseParent
  PROVE  ParseTypeInv' /\ RegisteredInv' /\ (PlainBlocks /\ ReportedInv => ReportedInv')
<1>0. /\ MaxSlot \in Nat /\ Slots = 1 .. MaxSlot /\ Slots \subseteq Nat /\ next \in Slots /\ MaxParseBehind \in Nat \ {0}
  BY Numbers, BlockParserAssumption
<1>1. CASE ParseFinal
  <2>1. /\ Stored(next) /\ next < to /\ Round(next, 1)
        /\ UNCHANGED <<loaderVars, goal, from, to, skipped, forgot, restarts>>
    BY <1>1 DEF ParseFinal
  <2>2. next <= next /\ 1 \in 1 .. MaxParseBehind
    BY <1>0
  <2>3. RoundBegins(next, 1)
    BY <2>1, <2>2 DEF RoundBegins
  <2> QED
    BY <1>0, <2>1, <2>3, RoundStep
<1>2. CASE ParseParent
  <2> DEFINE p == store[walk].parent
  <2>1. /\ pc = "parent" /\ UNCHANGED <<loaderVars, goal, from, to, skipped, forgot, restarts>>
        /\ \/ Stored(p) /\ Round(p, count + 1)
           \/ ~Stored(p) /\ pc' = "stopped" /\ UNCHANGED <<parser, warned, walk, count, out, next>>
    BY <1>2 DEF ParseParent
  <2>2. next < to /\ Stored(next) /\ walk \in Slots /\ walk <= next /\ count < MaxBlocks /\ count \in 0 .. MaxParseBehind
    BY <2>1 DEF ParseTypeInv, CursorInv, Stored
  <2>3. store[walk].parent < walk /\ store[walk].parent \in 0 .. MaxSlot
    BY <2>2 DEF ParseTypeInv, StoreInv, StoredBlocks
  <2>4. p <= next
    BY <1>0, <2>2, <2>3
  <2>5. count + 1 \in 1 .. MaxParseBehind
    BY <1>0, <2>2 DEF MaxBlocks
  <2>6. CASE Stored(p) /\ Round(p, count + 1)
    <3>1. p \in Slots
      BY <2>6 DEF Stored
    <3>2. RoundBegins(p, count + 1)
      BY <2>1, <2>2, <2>4, <2>5, <2>6 DEF RoundBegins
    <3> HIDE DEF p
    <3> QED
      BY <2>1, <2>6, <3>1, <3>2, RoundStep
  <2>7. CASE pc' = "stopped" /\ UNCHANGED <<parser, warned, walk, count, out, next>>
    <3>1. UNCHANGED <<store, events, updates, goal, from, to, skipped, forgot, restarts, parser, warned, walk, count, out, next>>
      BY <2>1, <2>7 DEF loaderVars
    <3>2. LastSlot' = LastSlot /\ Reported' = Reported
      BY <3>1 DEF LastSlot, Reported
    <3>3. StoreInv' /\ ParserTyped(parser') /\ OutInv'
      BY <3>1 DEF ParseTypeInv, StoreInv, OutInv
    <3>4. CursorInv'
      BY <2>7, <3>1, <3>2 DEF ParseTypeInv, CursorInv
    <3>5. RegisteredInv'
      BY <2>7 DEF RegisteredInv
    <3>6. ReportedInv => ReportedInv'
      BY <3>1, <3>2 DEF ReportedInv
    <3> QED
      BY <3>3, <3>4, <3>5, <3>6 DEF ParseTypeInv
  <2> QED
    BY <2>1, <2>6, <2>7
<1> QED
  BY <1>1, <1>2

(* Nothing is reported for a slot without a block.                         *)
LEMMA NothingReported == ReportsAs(<<>>, <<>>)
<1>1. FinishedIn(<<>>) = {}
  BY DEF FinishedIn
<1> DEFINE S == {FirstFinish(<<>>, h) : h \in FinishedIn(<<>>)}
<1>2. S = {}
  BY <1>1
<1>3. IsFiniteSet(S) /\ Cardinality(S) = 0 /\ S \subseteq Nat
  BY <1>2, FS_EmptySet
<1> HIDE DEF S
<1>4. InOrder(S) \in [1 .. 0 -> S]
  BY <1>3, InOrderFacts
<1>5. InOrder(S) = <<>>
  BY <1>4
<1>6. InOrder({FirstFinish(<<>>, h) : h \in FinishedIn(<<>>)}) = <<>>
  BY <1>5 DEF S
<1>7. Len(<<>>) = 0 /\ DOMAIN <<>> = {}
  OBVIOUS
<1> QED
  BY <1>6, <1>7 DEF ReportsAs

(* A slot without a block.                                                 *)
LEMMA ParseNoneStep ==
  ASSUME ParseTypeInv, ParseNone
  PROVE  ParseTypeInv' /\ RegisteredInv' /\ (ReportedInv => ReportedInv')
<1>0. /\ pc = "slot" /\ next < to /\ ~Stored(next) /\ out' = [out EXCEPT ![next] = <<>>] /\ next' = next + 1
      /\ UNCHANGED <<store, events, updates, parser, pc, goal, from, to, walk, count, warned, skipped, forgot, restarts>>
  BY DEF ParseNone, loaderVars, historyVars
<1>1. /\ MaxSlot \in Nat /\ Slots = 1 .. MaxSlot /\ Slots \subseteq Nat /\ StartSlot \in Slots
      /\ from \in Slots /\ next \in Slots /\ to \in Slots /\ goal \in Slots
  BY Numbers
<1>2. LastSlot' = LastSlot
  BY <1>0 DEF LastSlot
<1>3. CursorInv'
  <2>1. next + 1 \in Slots /\ from <= next + 1 /\ next + 1 <= to
    BY <1>0, <1>1 DEF ParseTypeInv, CursorInv
  <2> QED
    BY <1>0, <1>2, <2>1 DEF ParseTypeInv, CursorInv
<1>4. OutInv'
  <2>1. <<>> \in Reports
    BY DEF Reports
  <2>2. out' \in [Slots -> {NotParsed} \cup Reports]
    BY <1>0, <1>1, <2>1 DEF ParseTypeInv, OutInv
  <2> QED
    BY <1>0, <2>2 DEF ParseTypeInv, OutInv
<1>5. StoreInv' /\ ParserTyped(parser')
  BY <1>0 DEF ParseTypeInv, StoreInv
<1>6. RegisteredInv'
  BY <1>0 DEF RegisteredInv
<1>7. ASSUME ReportedInv PROVE ReportedInv'
  <2> SUFFICES ASSUME NEW t \in Reported' PROVE ReportsAs(store[t].txs, out'[t])
    BY <1>0 DEF ReportedInv
  <2>1. t \in StartSlot .. next /\ t \notin warned \cup skipped \cup ToSet(events)
    <3>1. next' - 1 = next
      BY <1>0, <1>1
    <3> QED
      BY <1>0, <3>1 DEF Reported
  <2>2. out \in [Slots -> {NotParsed} \cup Reports]
    BY DEF ParseTypeInv, OutInv
  <2>3. CASE t = next
    <3>1. out'[t] = <<>>
      BY <1>0, <1>1, <2>2, <2>3
    <3>2. store[t].txs = <<>>
      BY <1>0, <1>1, <2>3 DEF Stored, ParseTypeInv, StoreInv
    <3> QED
      BY <3>1, <3>2, NothingReported
  <2>4. CASE t # next
    <3>1. t \in StartSlot .. (next - 1) /\ t \in Slots
      BY <1>1, <2>1, <2>4
    <3>2. t \in Reported
      BY <2>1, <3>1 DEF Reported
    <3>3. out'[t] = out[t]
      BY <1>0, <2>2, <2>4, <3>1
    <3> QED
      BY <1>7, <3>2, <3>3 DEF ReportedInv
  <2> QED
    BY <2>3, <2>4
<1> QED
  BY <1>3, <1>4, <1>5, <1>6, <1>7 DEF ParseTypeInv

(* The end of a batch.                                                     *)
LEMMA EndBatchStep ==
  ASSUME ParseTypeInv, EndBatch
  PROVE  ParseTypeInv' /\ RegisteredInv' /\ (ReportedInv => ReportedInv')
<1>0. /\ pc = "slot" /\ next = to /\ from' = to /\ pc' = "idle"
      /\ parser' = (IF from > KeepSlots THEN retain_from_slot(parser, from - KeepSlots) ELSE parser)
      /\ forgot' = (forgot \/ parser'.txs # parser.txs)
      /\ UNCHANGED <<store, events, updates, goal, to, next, walk, count, out, warned, skipped, restarts>>
  BY DEF EndBatch, loaderVars
<1>1. Slots \subseteq Nat /\ to \in Slots
  BY Numbers
<1>2. LastSlot' = LastSlot /\ Reported' = Reported
  BY <1>0 DEF LastSlot, Reported
<1>3. ParserTyped(parser')
  BY <1>0, RetainTyped DEF ParseTypeInv
<1>4. forgot' \in BOOLEAN
  BY <1>0, Zenon
<1>5. StoreInv' /\ OutInv'
  BY <1>0, <1>4 DEF ParseTypeInv, StoreInv, OutInv
<1>6. CursorInv'
  <2>1. to <= to
    BY <1>1
  <2> QED
    BY <1>0, <1>1, <1>2, <2>1 DEF ParseTypeInv, CursorInv
<1>7. RegisteredInv'
  BY <1>0 DEF RegisteredInv
<1>8. ReportedInv => ReportedInv'
  BY <1>0, <1>2 DEF ReportedInv
<1> QED
  BY <1>3, <1>5, <1>6, <1>7, <1>8 DEF ParseTypeInv

(* A restart.                                                              *)
LEMMA RestartStep ==
  ASSUME ParseTypeInv, Restart
  PROVE  ParseTypeInv' /\ RegisteredInv' /\ (ReportedInv => ReportedInv')
<1>0. /\ restarts < MaxRestarts /\ parser' = NewParser /\ pc' = "idle" /\ forgot' = TRUE /\ walk' = 0 /\ count' = 0
      /\ events' = <<>> /\ restarts' = restarts + 1 /\ UNCHANGED <<store, updates>>
  BY DEF Restart
<1>1. PICK s \in {StartSlot} \cup {t \in Slots : t < from /\ out[t] \notin {NotParsed, <<>>}} :
        /\ from' = s /\ to' = s /\ next' = s /\ goal' = s
        /\ out' = [t \in Slots |-> IF t >= s THEN NotParsed ELSE out[t]]
        /\ skipped' = (skipped \cup ToSet(events)) \ (s .. MaxSlot)
        /\ warned' = warned \ (s .. MaxSlot)
  BY DEF Restart
<1>2. /\ MaxSlot \in Nat /\ Slots = 1 .. MaxSlot /\ Slots \subseteq Nat /\ StartSlot \in Slots
      /\ from \in Slots /\ next \in Slots /\ to \in Slots /\ goal \in Slots /\ LastSlot \in 0 .. MaxSlot
      /\ MaxParseBehind \in Nat /\ MaxRestarts \in Nat
  BY Numbers, BlockParserAssumption
<1>3. s \in Slots /\ (s = StartSlot \/ s < from)
  BY <1>1, <1>2
<1>4. from <= next /\ next <= to /\ to <= goal /\ (goal <= LastSlot \/ goal <= StartSlot)
  BY DEF ParseTypeInv, CursorInv
<1>5. StoreInv'
  <2>1. restarts' \in 0 .. MaxRestarts
    BY <1>0, <1>2 DEF ParseTypeInv, StoreInv
  <2> QED
    BY <1>0, <2>1 DEF ParseTypeInv, StoreInv
<1>6. CursorInv'
  <2>1. LastSlot' = LastSlot
    BY <1>0 DEF LastSlot
  <2>2. s <= s /\ (s <= LastSlot \/ s <= StartSlot)
    BY <1>2, <1>3, <1>4
  <2>3. 0 \in 0 .. MaxSlot /\ 0 \in 0 .. MaxParseBehind
    BY <1>2
  <2> QED
    BY <1>0, <1>1, <1>3, <2>1, <2>2, <2>3 DEF CursorInv
<1>7. OutInv'
  <2>1. ToSet(events) \subseteq Slots
    BY DEF ToSet, ParseTypeInv, StoreInv
  <2>2. out' \in [Slots -> {NotParsed} \cup Reports]
    BY <1>1 DEF ParseTypeInv, OutInv
  <2>3. skipped' \subseteq Slots /\ warned' \subseteq Slots
    BY <1>1, <2>1 DEF ParseTypeInv, OutInv
  <2> QED
    BY <1>0, <2>2, <2>3 DEF OutInv
<1>8. ParserTyped(parser')
  BY <1>0 DEF NewParser, ParserTyped, Empty
<1>9. RegisteredInv'
  BY <1>0 DEF RegisteredInv
<1>10. ASSUME ReportedInv PROVE ReportedInv'
  <2>1. ASSUME NEW t \in Reported' PROVE t \in Reported /\ out'[t] = out[t]
    <3>1. t \in StartSlot .. (s - 1) /\ t \notin warned' \cup skipped'
      BY <1>1 DEF Reported
    <3>2. t \in Slots /\ StartSlot <= t /\ t < s
      BY <1>2, <1>3, <3>1
    <3>3. t \notin s .. MaxSlot
      BY <1>2, <1>3, <3>2
    <3>4. t \notin warned \cup skipped \cup ToSet(events)
      BY <1>1, <3>1, <3>3
    <3>5. t \in StartSlot .. (next - 1)
      BY <1>2, <1>3, <1>4, <3>2
    <3>6. out'[t] = out[t]
      BY <1>1, <1>2, <1>3, <3>2
    <3> QED
      BY <3>4, <3>5, <3>6 DEF Reported
  <2> QED
    BY <1>0, <1>10, <2>1 DEF ReportedInv
<1> QED
  BY <1>5, <1>6, <1>7, <1>8, <1>9, <1>10 DEF ParseTypeInv

-----------------------------------------------------------------------------
(* The theorems.                                                           *)

(* Every step keeps the invariant.                                         *)
LEMMA ParseStep ==
  ASSUME ParseTypeInv, RegisteredInv, [Next]_vars
  PROVE  ParseTypeInv' /\ RegisteredInv' /\ (PlainBlocks /\ ReportedInv => ReportedInv')
<1>1. ASSUME NEW s \in Slots, StoreBlock(s) \/ UpdateBlock(s)
      PROVE  ParseTypeInv' /\ RegisteredInv' /\ (ReportedInv => ReportedInv')
  BY <1>1, StoreBlockStep, UpdateBlockStep
<1>2. CASE ReceiveReorg
  BY <1>2, ReceiveReorgStep
<1>3. CASE BeginSync
  <2>1. pc = "idle" /\ from < LastSlot /\ Batch(LastSlot)
    BY <1>3 DEF BeginSync
  <2>2. PICK g : g = LastSlot
    OBVIOUS
  <2> QED
    BY <2>1, <2>2, BatchStep
<1>4. CASE BeginBatch
  <2>1. pc = "idle" /\ from < goal /\ Batch(goal)
    BY <1>4 DEF BeginBatch
  <2> QED
    BY <2>1, BatchStep
<1>5. CASE ParseFinal \/ ParseParent
  BY <1>5, ParseRoundStep
<1>6. CASE ParseNone
  BY <1>6, ParseNoneStep
<1>7. CASE EndBatch
  BY <1>7, EndBatchStep
<1>8. CASE Restart
  BY <1>8, RestartStep
<1>9. CASE UNCHANGED vars
  <2>1. UNCHANGED <<store, events, updates, parser, pc, goal, from, to, next, walk, count, out, warned, skipped, forgot, restarts>>
    BY <1>9 DEF vars, loaderVars, cursorVars, historyVars
  <2>2. LastSlot' = LastSlot /\ Reported' = Reported /\ MaxBlocks' = MaxBlocks
    BY <2>1 DEF LastSlot, Reported, MaxBlocks
  <2>3. StoreInv' /\ OutInv' /\ ParserTyped(parser')
    BY <2>1 DEF ParseTypeInv, StoreInv, OutInv
  <2>4. CursorInv'
    BY <2>1, <2>2 DEF ParseTypeInv, CursorInv, Stored
  <2>5. RegisteredInv'
    BY <2>1 DEF RegisteredInv
  <2>6. ReportedInv => ReportedInv'
    BY <2>1, <2>2 DEF ReportedInv
  <2> QED
    BY <2>3, <2>4, <2>5, <2>6 DEF ParseTypeInv
<1> QED
  BY <1>1, <1>2, <1>3, <1>4, <1>5, <1>6, <1>7, <1>8, <1>9 DEF Next

(* The invariant holds in every state.                                     *)
THEOREM ParseInvariant == Spec => [](ParseTypeInv /\ RegisteredInv)
<1>1. Init => ParseTypeInv /\ RegisteredInv
  BY ParseInit
<1>2. (ParseTypeInv /\ RegisteredInv) /\ [Next]_vars => (ParseTypeInv /\ RegisteredInv)'
  BY ParseStep
<1> QED
  BY <1>1, <1>2, PTL DEF Spec

(* The types: among others, the cursors stay within the stored slots and   *)
(* the walk back never takes more than MAX_PARSE_BEHIND blocks.            *)
THEOREM ParserTypeCorrect == Spec => []TypeOK
<1>1. ParseTypeInv => TypeOK
  <2> SUFFICES ASSUME ParseTypeInv PROVE TypeOK
    OBVIOUS
  <2>0. /\ MaxSlot \in Nat /\ Slots = 1 .. MaxSlot
    BY Numbers
  <2>1. ASSUME NEW s \in Slots PROVE store[s].parent \in 0 .. (s - 1) /\ store[s].txs \in Contents \cup {<<>>}
    <3>1. store[s].parent \in 0 .. MaxSlot /\ store[s].txs \in Bodies /\ store[s].parent < s
      BY DEF ParseTypeInv, StoreInv, StoredBlocks
    <3> QED
      BY <2>0, <3>1 DEF Bodies
  <2>2. ASSUME NEW s \in DOMAIN parser.results
        PROVE  /\ s \in Slots /\ DOMAIN parser.results[s] \subseteq Hashes
               /\ \A h \in DOMAIN parser.results[s] : \A i \in DOMAIN parser.results[s][h] :
                    i \in Nat /\ parser.results[s][h][i] \in TxResults
    BY DEF ParseTypeInv, ParserTyped, ResultsTyped
  <2>3. \A h \in DOMAIN parser.txs : h \in Hashes /\ parser.txs[h] \in EvmTxs
    BY DEF ParseTypeInv, ParserTyped
  <2>4. /\ events \in Seq(Slots) /\ updates \in 0 .. MaxUpdates /\ restarts \in 0 .. MaxRestarts
    BY DEF ParseTypeInv, StoreInv
  <2>5. {goal, from, to, next, walk} \subseteq 0 .. MaxSlot
    BY <2>0 DEF ParseTypeInv, CursorInv
  <2>6. pc \in {"idle", "slot", "parent", "stopped", "panicked"} /\ count \in 0 .. MaxParseBehind
    BY DEF ParseTypeInv, CursorInv
  <2>7. ASSUME NEW s \in Slots PROVE out[s] = NotParsed \/ out[s] \in Seq([hash : Hashes, result : Results])
    <3>1. out[s] \in {NotParsed} \cup Reports
      BY DEF ParseTypeInv, OutInv
    <3> QED
      BY <3>1 DEF Reports
  <2>8. warned \subseteq Slots /\ skipped \subseteq Slots /\ forgot \in BOOLEAN
    BY DEF ParseTypeInv, OutInv
  <2> QED
    BY <2>1, <2>2, <2>3, <2>4, <2>5, <2>6, <2>7, <2>8 DEF TypeOK
<1> QED
  BY <1>1, ParseInvariant, PTL

(* The parser panics on a hash it does not know (is_slot_complete) only    *)
(* after a registration failed with a warning: pruning, restarts, replaced *)
(* blocks and walks over other slots never lead to it.                     *)
THEOREM PanicsOnlyAfterWarning == Spec => [](pc = "panicked" => warned # {})
<1>1. RegisteredInv => (pc = "panicked" => warned # {})
  BY DEF RegisteredInv
<1> QED
  BY <1>1, ParseInvariant, PTL

(* With plain contents, the results reported for a slot are what its block *)
(* says, whatever was walked over, pruned, replaced or restarted since.    *)
THEOREM ParsedAsStoredCorrect ==
  ASSUME PlainBlocks
  PROVE  Spec => []ParsedAsStored
<1>1. Init => ReportedInv
  BY ParseInit
<1>2. ParseTypeInv /\ RegisteredInv /\ ReportedInv /\ [Next]_vars => ReportedInv'
  BY ParseStep
<1>3. ReportedInv => ParsedAsStored
  BY ReportedIs
<1> QED
  BY <1>1, <1>2, <1>3, ParseInvariant, PTL DEF Spec

-----------------------------------------------------------------------------
(* Why parse stops.                                                        *)

(* The parser has all chunks in a block.                                   *)
Known(p, txs) ==
  \A i \in DOMAIN txs : \A h \in Hashes : \A k \in Of(txs, i, h) :
    txs[i].instrs[k].op = "TransmitTx" =>
      h \in DOMAIN p.txs /\ txs[i].instrs[k].chunk \in p.txs[h].pieces

(* A transaction is put together from chunks only if some block has it     *)
(* sent through a holder.                                                  *)
KindsOf(p) ==
  \A h \in DOMAIN p.txs : p.txs[h].kind = "BigEvmTx" => \E txs \in Contents : ThroughHolder(txs, h)

(* The last n blocks up to the slot at hand, f[0] being its own.           *)
Walked(f, n) ==
  /\ f \in [0 .. (n - 1) -> Slots] /\ f[0] = next
  /\ \A k \in 0 .. (n - 1) : store[f[k]].stored
  /\ \A k \in 1 .. (n - 1) : f[k] = store[f[k - 1]].parent

(* A hash of the slot whose chunks have not all been found.                *)
Unfinished(p, slot) ==
  \E h \in Finished(p, slot) :
    h \in DOMAIN p.txs /\ p.txs[h].kind = "BigEvmTx" /\ p.txs[h].pieces # 1 .. NumChunks

(* The blocks behind the cursor, and those walked over for the slot at     *)
(* hand, are known as long as nothing was forgotten or left out.           *)
BehindInv ==
  warned = {} /\ ~forgot =>
    \A t \in StartSlot .. (next - 1) :
      t \notin skipped \cup ToSet(events) /\ Stored(t) => Known(parser, store[t].txs)
WalkInv ==
  pc = "parent" /\ warned = {} =>
    /\ count >= 1 /\ Unfinished(parser, next)
    /\ \E f : /\ Walked(f, count) /\ f[count - 1] = walk
              /\ \A k \in 0 .. (count - 1) : f[k] \notin ToSet(events) => Known(parser, store[f[k]].txs)

(* The second part of StopsOnlyWithoutData.                                *)
Wanting(h) ==
  \/ ChunksIn(Window(next, MaxParseBehind), h) # Chunks
  \/ /\ forgot \/ skipped # {}
     /\ \E n \in 1 .. (NumChunks - 1) : parser.txs[h].pieces = 1 .. n
StopInv ==
  pc = "stopped" /\ warned = {} /\ events = <<>> =>
    \E h \in FinishedFromHolder(store[next].txs) : Wanting(h)

KnownInv ==
  /\ \A s \in Slots : store[s].stored => s \notin SkippedSlots
  /\ KindsOf(parser)
  /\ BehindInv /\ WalkInv /\ StopInv

-----------------------------------------------------------------------------
(* The kinds of steps by their instruction.                                *)
LEMMA StepKind ==
  ASSUME NEW op \in Ops \ {"Other"}, NEW chunk, NEW meta
  PROVE  /\ ParsedStep(op, chunk, meta).kind =
              IF op \in Small THEN "SmallTx" ELSE IF op \in Holders THEN "BigTx" ELSE "TransmitTx"
         /\ op = "TransmitTx" => ParsedStep(op, chunk, meta).chunk = chunk
<1> DEFINE r == CHOOSE r \in Results : TRUE
<1>1. CASE op \in {"DoTx", "DoTxIterative"}
  BY <1>1 DEF ParsedStep, SmallTx, Small, Holders
<1>2. CASE op \in Holders
  BY <1>2 DEF ParsedStep, BigTx, Small, Holders
<1>3. CASE op = "Deposit"
  <2>1. ParsedStep(op, chunk, meta) = SmallTx(r)
    BY <1>3 DEF ParsedStep, Holders
  <2> HIDE DEF r
  <2> QED
    BY <1>3, <2>1 DEF SmallTx, Small
<1>4. CASE op = "TransmitTx"
  BY <1>4 DEF ParsedStep, TransmitTx, Small, Holders
<1> QED
  BY <1>1, <1>2, <1>3, <1>4 DEF Ops, Holders

(* The first instruction for a hash.                                       *)
LEMMA FirstInstr ==
  ASSUME NEW txs \in Bodies, NEW i \in DOMAIN txs, NEW h, Of(txs, i, h) # {}
  PROVE  /\ Lowest(Of(txs, i, h)) \in Of(txs, i, h)
         /\ FirstFor(txs, i, h).op \in Ops \ {"Other"}
         /\ StepFor(txs, i, h).kind =
              IF FirstFor(txs, i, h).op \in Small THEN "SmallTx"
              ELSE IF FirstFor(txs, i, h).op \in Holders THEN "BigTx" ELSE "TransmitTx"
         /\ FirstFor(txs, i, h).op = "TransmitTx" => StepFor(txs, i, h).chunk = FirstFor(txs, i, h).chunk
<1>1. Of(txs, i, h) \subseteq Nat
  BY BodyTyped DEF Of
<1>2. Lowest(Of(txs, i, h)) \in Of(txs, i, h)
  BY <1>1, LowestFacts
<1>3. Lowest(Of(txs, i, h)) \in DOMAIN txs[i].instrs /\ Accepted(FirstFor(txs, i, h), txs[i].meta)
  BY FirstForFacts
<1>4. FirstFor(txs, i, h).op \in Ops
  BY <1>3, BodyTyped DEF FirstFor
<1>5. FirstFor(txs, i, h).op # "Other"
  BY <1>3 DEF Accepted
<1> QED
  BY <1>2, <1>4, <1>5, StepKind DEF StepFor

(* A chunk in a block is a step of its hash.                               *)
LEMMA ChunkStep ==
  ASSUME OneWay, NEW txs \in Bodies, NEW i \in DOMAIN txs, NEW h \in Hashes, NEW k \in Of(txs, i, h),
         txs[i].instrs[k].op = "TransmitTx"
  PROVE  /\ h \in DOMAIN ParsedTxs(txs) /\ i \in Transmits(ParsedTxs(txs)[h])
         /\ ParsedTxs(txs)[h][i].chunk = txs[i].instrs[k].chunk
<1>1. txs \in Contents
  BY DEF Bodies
<1>2. Lowest(Of(txs, i, h)) \in Of(txs, i, h)
  BY FirstInstr
<1>3. k = Lowest(Of(txs, i, h))
  BY <1>1, <1>2 DEF OneWay
<1>4. FirstFor(txs, i, h) = txs[i].instrs[k]
  BY <1>3 DEF FirstFor
<1>5. StepFor(txs, i, h).kind = "TransmitTx" /\ StepFor(txs, i, h).chunk = txs[i].instrs[k].chunk
  BY <1>4, FirstInstr DEF Small, Holders
<1>6. h \in DOMAIN ParsedTxs(txs) /\ i \in DOMAIN ParsedTxs(txs)[h] /\ ParsedTxs(txs)[h][i] = StepFor(txs, i, h)
  BY ParsedTyped
<1> QED
  BY <1>5, <1>6 DEF Transmits

(* What a registration does to the entries.                                *)
LEMMA RegisterEntries ==
  ASSUME NEW p, NEW slot, NEW st, NEW V
  PROVE  /\ DOMAIN Register(p, slot, st, V).txs = DOMAIN p.txs \cup V
         /\ \A h \in DOMAIN p.txs \cup V : Register(p, slot, st, V).txs[h] =
              IF h \in V THEN Absorb(p.txs, h, st[h]) ELSE p.txs[h]
  BY DEF Register

(* The entry of a hash after its steps.                                    *)
LEMMA AbsorbFacts ==
  ASSUME NEW p, ParserTyped(p), NEW st, StepsTyped(st), NEW h \in DOMAIN st
  PROVE  /\ Absorb(p.txs, h, st[h]).kind = EntryFor(p.txs, h, st[h]).kind
         /\ EntryFor(p.txs, h, st[h]).pieces \subseteq Absorb(p.txs, h, st[h]).pieces
         /\ ~Fails(p.txs, h, st[h]) =>
              \A i \in Transmits(st[h]) : st[h][i].chunk \in Absorb(p.txs, h, st[h]).pieces
<1> DEFINE e == EntryFor(p.txs, h, st[h])
           add == {st[h][i].chunk : i \in Transmits(st[h])}
<1>1. e \in EvmTxs
  BY TxParserAssumption DEF EntryFor, Get, ParserTyped
<1>2. Absorb(p.txs, h, st[h]) = IF e.kind = "SmallEvmTx" THEN e ELSE [e EXCEPT !.pieces = @ \cup add]
  BY DEF Absorb
<1>3. Fails(p.txs, h, st[h]) <=> e.kind = "SmallEvmTx" /\ Transmits(st[h]) # {}
  BY DEF Fails
<1>4. \A i \in Transmits(st[h]) : st[h][i].chunk \in add
  OBVIOUS
<1> HIDE DEF e, add
<1>5. Absorb(p.txs, h, st[h]).kind = e.kind /\ e.pieces \subseteq Absorb(p.txs, h, st[h]).pieces
  BY <1>1, <1>2 DEF EvmTxs
<1>6. ASSUME ~Fails(p.txs, h, st[h]), NEW i \in Transmits(st[h])
      PROVE  st[h][i].chunk \in Absorb(p.txs, h, st[h]).pieces
  BY <1>1, <1>2, <1>3, <1>4, <1>6 DEF EvmTxs
<1> QED
  BY <1>5, <1>6 DEF e

(* Every outcome of register_slot_transactions: the hashes it went over.   *)
LEMMA RegisterVisits ==
  ASSUME NEW p, NEW slot, NEW st, NEW r \in register_slot_transactions(p, slot, st)
  PROVE  /\ r.ok \in BOOLEAN
         /\ \E V \in SUBSET DOMAIN st :
              /\ r.parser = Register(p, slot, st, V)
              /\ r.ok => V = DOMAIN st /\ \A h \in DOMAIN st : ~Fails(p.txs, h, st[h])
<1> DEFINE failing == {h \in DOMAIN st : Fails(p.txs, h, st[h])}
<1>1. CASE failing = {}
  <2>1. r = [parser |-> Register(p, slot, st, DOMAIN st), ok |-> TRUE]
    BY <1>1 DEF register_slot_transactions
  <2>2. r.parser = Register(p, slot, st, DOMAIN st) /\ r.ok = TRUE
    BY <2>1
  <2>3. \A h \in DOMAIN st : ~Fails(p.txs, h, st[h])
    BY <1>1
  <2> QED
    BY <2>2, <2>3
<1>2. CASE failing # {}
  <2>1. PICK S \in SUBSET (DOMAIN st \ failing), f \in failing :
          r = [parser |-> Register(p, slot, st, S \cup {f}), ok |-> FALSE]
    <3>1. r \in UNION {{[parser |-> Register(p, slot, st, S \cup {f}), ok |-> FALSE] :
                          S \in SUBSET (DOMAIN st \ failing)} : f \in failing}
      BY <1>2 DEF register_slot_transactions
    <3> HIDE DEF failing
    <3>2. PICK f \in failing : r \in {[parser |-> Register(p, slot, st, S \cup {f}), ok |-> FALSE] :
                                      S \in SUBSET (DOMAIN st \ failing)}
      BY <3>1
    <3> QED
      BY <3>2
  <2>2. PICK V \in SUBSET DOMAIN st : V = S \cup {f}
    OBVIOUS
  <2>3. r.parser = Register(p, slot, st, V) /\ r.ok = FALSE
    BY <2>1, <2>2
  <2> QED
    BY <2>3
<1> QED
  BY <1>1, <1>2

(* A registration forgets nothing, and without an error it takes in every  *)
(* chunk of the block.                                                     *)
LEMMA RegisterKnown ==
  ASSUME OneWay, NEW p, ParserTyped(p), NEW slot, NEW txs \in Bodies,
         NEW r \in register_slot_transactions(p, slot, ParsedTxs(txs))
  PROVE  /\ r.ok => Known(r.parser, txs)
         /\ \A b : Known(p, b) => Known(r.parser, b)
         /\ KindsOf(p) => KindsOf(r.parser)
<1> DEFINE st == ParsedTxs(txs)
<1>0. StepsTyped(st)
  BY ParsedTyped
<1>1. PICK V \in SUBSET DOMAIN st :
        /\ r.parser = Register(p, slot, st, V)
        /\ r.ok => V = DOMAIN st /\ \A h \in DOMAIN st : ~Fails(p.txs, h, st[h])
  BY RegisterVisits
<1>2. /\ DOMAIN r.parser.txs = DOMAIN p.txs \cup V
      /\ \A h \in DOMAIN p.txs \cup V : r.parser.txs[h] = IF h \in V THEN Absorb(p.txs, h, st[h]) ELSE p.txs[h]
  BY <1>1, RegisterEntries
<1>3. ASSUME NEW h \in V
      PROVE  /\ r.parser.txs[h].kind = EntryFor(p.txs, h, st[h]).kind
             /\ EntryFor(p.txs, h, st[h]).pieces \subseteq r.parser.txs[h].pieces
             /\ ~Fails(p.txs, h, st[h]) => \A i \in Transmits(st[h]) : st[h][i].chunk \in r.parser.txs[h].pieces
  <2>1. h \in DOMAIN st /\ r.parser.txs[h] = Absorb(p.txs, h, st[h])
    BY <1>2
  <2> HIDE DEF st
  <2> QED
    BY <1>0, <2>1, AbsorbFacts
<1>4. ASSUME r.ok PROVE Known(r.parser, txs)
  <2> SUFFICES ASSUME NEW i \in DOMAIN txs, NEW h \in Hashes, NEW k \in Of(txs, i, h),
                      txs[i].instrs[k].op = "TransmitTx"
               PROVE  h \in DOMAIN r.parser.txs /\ txs[i].instrs[k].chunk \in r.parser.txs[h].pieces
    BY DEF Known
  <2>1. h \in DOMAIN st /\ i \in Transmits(st[h]) /\ st[h][i].chunk = txs[i].instrs[k].chunk
    BY ChunkStep
  <2> HIDE DEF st
  <2> QED
    BY <1>1, <1>2, <1>3, <1>4, <2>1
<1>5. ASSUME NEW b, Known(p, b) PROVE Known(r.parser, b)
  <2> SUFFICES ASSUME NEW i \in DOMAIN b, NEW h \in Hashes, NEW k \in Of(b, i, h), b[i].instrs[k].op = "TransmitTx"
               PROVE  h \in DOMAIN r.parser.txs /\ b[i].instrs[k].chunk \in r.parser.txs[h].pieces
    BY DEF Known
  <2>1. h \in DOMAIN p.txs /\ b[i].instrs[k].chunk \in p.txs[h].pieces
    BY <1>5 DEF Known
  <2> HIDE DEF st
  <2>2. CASE h \in V
    <3>1. EntryFor(p.txs, h, st[h]) = p.txs[h]
      BY <2>1 DEF EntryFor, Get
    <3> QED
      BY <1>2, <1>3, <2>1, <2>2, <3>1
  <2>3. CASE h \notin V
    BY <1>2, <2>1, <2>3
  <2> QED
    BY <2>2, <2>3
<1>6. ASSUME KindsOf(p), NEW h \in DOMAIN r.parser.txs, r.parser.txs[h].kind = "BigEvmTx"
      PROVE  \E b \in Contents : ThroughHolder(b, h)
  <2>1. CASE h \notin V
    BY <1>2, <1>6, <2>1 DEF KindsOf
  <2>2. CASE h \in V /\ h \in DOMAIN p.txs
    <3>1. EntryFor(p.txs, h, st[h]) = p.txs[h]
      BY <2>2 DEF EntryFor, Get
    <3> HIDE DEF st
    <3> QED
      BY <1>3, <1>6, <2>2, <3>1 DEF KindsOf
  <2>3. CASE h \in V /\ h \notin DOMAIN p.txs
    <3> DEFINE i == Lowest(DOMAIN st[h])
    <3>1. EntryFor(p.txs, h, st[h]) = IF st[h][i].kind = "SmallTx" THEN NewSmallTx ELSE NewBigTx
      BY <2>3 DEF EntryFor, Get
    <3>2. st[h][i].kind # "SmallTx"
      BY <1>3, <1>6, <2>3, <3>1 DEF NewSmallTx
    <3>3. DOMAIN st[h] \subseteq Nat /\ DOMAIN st[h] # {}
      BY <1>0, <2>3 DEF StepsTyped
    <3>4. i \in DOMAIN st[h]
      BY <3>3, LowestFacts
    <3>5. h \in Hashes /\ i \in DOMAIN txs /\ Of(txs, i, h) # {} /\ st[h][i] = StepFor(txs, i, h)
      <4>1. h \in DOMAIN st
        BY <2>3
      <4> HIDE DEF i
      <4> QED
        BY <3>4, <4>1, ParsedTyped
    <3> HIDE DEF i, st
    <3>6. Lowest(Of(txs, i, h)) \in Of(txs, i, h) /\ FirstFor(txs, i, h).op \in Ops \ {"Other"}
          /\ FirstFor(txs, i, h).op \notin Small
      BY <3>2, <3>5, FirstInstr
    <3>7. FirstFor(txs, i, h).op \in Holders \cup {"TransmitTx"}
      BY <3>6 DEF Ops, Small, Holders
    <3>8. ThroughHolder(txs, h)
      BY <3>5, <3>6, <3>7 DEF ThroughHolder, FirstFor
    <3>9. txs \in Contents
      BY <3>5 DEF Bodies
    <3> QED
      BY <3>8, <3>9
  <2> QED
    BY <2>1, <2>2, <2>3
<1> QED
  BY <1>4, <1>5, <1>6 DEF KindsOf

(* A slot that is not complete, or complete and does not build, has a      *)
(* transaction whose chunks were not all found.                            *)
LEMMA StatusFacts ==
  ASSUME NEW p, ParserTyped(p), NEW slot, Finished(p, slot) \subseteq DOMAIN p.txs,
         NEW status \in is_slot_complete(p, slot)
  PROVE  /\ status # "panic"
         /\ status = "incomplete" =>
              \E h \in Finished(p, slot) : p.txs[h].kind = "BigEvmTx" /\ p.txs[h].pieces # 1 .. NumChunks
         /\ status = "complete" /\ ~(\A h \in Finished(p, slot) : builds(p.txs[h])) =>
              \E h \in Finished(p, slot) : /\ p.txs[h].kind = "BigEvmTx"
                                           /\ \E n \in 1 .. (NumChunks - 1) : p.txs[h].pieces = 1 .. n
<1>0. NumChunks \in Nat \ {0} /\ \A h \in Finished(p, slot) : p.txs[h] \in EvmTxs
  BY TxParserAssumption DEF ParserTyped
<1>1. is_slot_complete(p, slot) =
        IF \A h \in Finished(p, slot) : is_data_complete(p.txs[h]) THEN {"complete"} ELSE {"incomplete"}
  BY DEF is_slot_complete
<1>2. status # "panic"
  BY <1>1
<1>3. ASSUME NEW h \in Finished(p, slot), ~is_data_complete(p.txs[h])
      PROVE  p.txs[h].kind = "BigEvmTx" /\ p.txs[h].pieces # 1 .. NumChunks
  <2>1. p.txs[h].kind \in {"SmallEvmTx", "BigEvmTx"}
    BY <1>0 DEF EvmTxs
  <2>2. p.txs[h].kind = "BigEvmTx"
    BY <1>3, <2>1 DEF is_data_complete
  <2>3. ASSUME p.txs[h].pieces = 1 .. NumChunks PROVE FALSE
    <3>1. 1 .. NumChunks # {} /\ Cardinality(1 .. NumChunks) = NumChunks
      <4>1. Cardinality(1 .. NumChunks) = IF 1 > NumChunks THEN 0 ELSE NumChunks - 1 + 1
        BY <1>0, FS_Interval
      <4>2. ~(1 > NumChunks) /\ NumChunks - 1 + 1 = NumChunks /\ 1 \in 1 .. NumChunks
        BY <1>0
      <4> QED
        BY <4>1, <4>2
    <3> QED
      BY <1>3, <2>3, <3>1 DEF is_data_complete
  <2> QED
    BY <2>2, <2>3
<1>4. ASSUME NEW h \in Finished(p, slot), is_data_complete(p.txs[h]), ~builds(p.txs[h])
      PROVE  p.txs[h].kind = "BigEvmTx" /\ \E n \in 1 .. (NumChunks - 1) : p.txs[h].pieces = 1 .. n
  <2>1. p.txs[h].kind \in {"SmallEvmTx", "BigEvmTx"} /\ p.txs[h].pieces \subseteq 1 .. NumChunks
    BY <1>0 DEF EvmTxs
  <2>2. p.txs[h].kind # "SmallEvmTx" /\ p.txs[h].pieces # 1 .. NumChunks
    BY <1>4 DEF builds
  <2> DEFINE S == p.txs[h].pieces
             c == Cardinality(S)
  <2>3. S # {} /\ S = 1 .. c
    BY <1>4, <2>2 DEF is_data_complete
  <2>4. c \in Nat
    <3>1. IsFiniteSet(1 .. NumChunks)
      BY <1>0, FS_Interval
    <3>2. IsFiniteSet(S)
      BY <2>1, <3>1, FS_Subset
    <3> QED
      BY <3>2, FS_CardinalityType
  <2> HIDE DEF c, S
  <2>5. S \subseteq 1 .. NumChunks /\ S # 1 .. NumChunks
    BY <2>1, <2>2 DEF S
  <2>6. c \in 1 .. (NumChunks - 1)
    <3>1. c \in 1 .. c
      BY <2>3, <2>4
    <3>2. c \in 1 .. NumChunks
      BY <2>3, <2>5, <3>1
    <3>3. c # NumChunks
      BY <2>3, <2>5
    <3> QED
      BY <1>0, <3>2, <3>3
  <2>7. \E n \in 1 .. (NumChunks - 1) : p.txs[h].pieces = 1 .. n
    BY <2>3, <2>6 DEF S
  <2> QED
    BY <2>1, <2>2, <2>7
<1>5. ASSUME status = "incomplete"
      PROVE  \E h \in Finished(p, slot) : p.txs[h].kind = "BigEvmTx" /\ p.txs[h].pieces # 1 .. NumChunks
  <2>1. PICK h \in Finished(p, slot) : ~is_data_complete(p.txs[h])
    BY <1>1, <1>5
  <2> QED
    BY <1>3, <2>1
<1>6. ASSUME status = "complete", ~(\A h \in Finished(p, slot) : builds(p.txs[h]))
      PROVE  \E h \in Finished(p, slot) : /\ p.txs[h].kind = "BigEvmTx"
                                          /\ \E n \in 1 .. (NumChunks - 1) : p.txs[h].pieces = 1 .. n
  <2>1. \A h \in Finished(p, slot) : is_data_complete(p.txs[h])
    BY <1>1, <1>6
  <2>2. PICK h \in Finished(p, slot) : ~builds(p.txs[h])
    BY <1>6
  <2> QED
    BY <1>4, <2>1, <2>2
<1> QED
  BY <1>2, <1>5, <1>6

(* A hash of the slot that is put together from chunks was finished from a *)
(* holder there.                                                           *)
LEMMA FinishedThroughHolder ==
  ASSUME OneWay, NEW p, KindsOf(p), NEW slot, NEW txs \in Bodies,
         SlotResults(p, slot) = ResultsOf(ParsedTxs(txs)),
         NEW h \in Finished(p, slot), h \in DOMAIN p.txs, p.txs[h].kind = "BigEvmTx"
  PROVE  h \in FinishedFromHolder(txs)
<1> DEFINE st == ParsedTxs(txs)
<1>1. PICK i \in DOMAIN SlotResults(p, slot)[h] :
        h \in DOMAIN SlotResults(p, slot) /\ SlotResults(p, slot)[h][i] # NoResult
  BY DEF Finished
<1>2. h \in DOMAIN st /\ i \in DOMAIN st[h] /\ st[h][i].result # NoResult
  <2> HIDE DEF st
  <2> QED
    BY <1>1 DEF ResultsOf, st
<1>3. h \in Hashes /\ i \in DOMAIN txs /\ Of(txs, i, h) # {} /\ st[h][i] = StepFor(txs, i, h)
  BY <1>2, ParsedTyped
<1> HIDE DEF st
<1> DEFINE e == FirstFor(txs, i, h)
           meta == txs[i].meta
<1>4. /\ ~txs[i].err /\ Accepted(e, meta) /\ e.hash = h /\ Lowest(Of(txs, i, h)) \in DOMAIN txs[i].instrs
  BY <1>3, FirstForFacts
<1>5. /\ e.op \in Ops \ {"Other"} /\ e.chunk \in 1 .. NumChunks /\ meta \in TxResults \cup {BadLog}
      /\ meta = BadLog => e.op \in {"TransmitTx", "Deposit"}
      /\ e.chain = Chain
  BY <1>3, <1>4, BodyTyped DEF FirstFor, Accepted
<1>6. StepFor(txs, i, h) = ParsedStep(e.op, e.chunk, meta)
  BY DEF StepFor
<1>7. e = txs[i].instrs[Lowest(Of(txs, i, h))]
  BY DEF FirstFor
<1> HIDE DEF e, meta
<1>8. StepFor(txs, i, h).result =
        IF e.op = "TransmitTx" THEN NoResult ELSE IF e.op = "Deposit" THEN CHOOSE r \in Results : TRUE ELSE meta
  BY <1>5, <1>6, StepTyped
<1>9. StepFor(txs, i, h).result # NoResult
  BY <1>2, <1>3
<1>10. e.op # "TransmitTx" /\ (e.op = "Deposit" \/ meta \in Results)
  <2>1. e.op # "TransmitTx"
    BY <1>8, <1>9
  <2>2. ASSUME e.op # "Deposit" PROVE meta \in Results
    <3>1. meta # NoResult /\ meta # BadLog
      BY <1>5, <1>8, <1>9, <2>1, <2>2
    <3> QED
      BY <1>5, <3>1 DEF TxResults
  <2> QED
    BY <2>1, <2>2
<1>11. ASSUME NEW ops, e.op \in ops PROVE FinishesBy(txs, i, h, ops)
  BY <1>4, <1>5, <1>7, <1>10, <1>11 DEF FinishesBy, meta
<1>12. CASE e.op \in Holders
  BY <1>3, <1>11, <1>12 DEF FinishedFromHolder
<1>13. CASE e.op \notin Holders
  <2>1. e.op \in Small
    BY <1>5, <1>10, <1>13 DEF Ops, Small, Holders
  <2>2. FinishedWhole(txs, h)
    BY <1>3, <1>11, <2>1 DEF FinishedWhole
  <2>3. PICK b \in Contents : ThroughHolder(b, h)
    BY DEF KindsOf
  <2>4. txs \in Contents
    BY <1>3 DEF Bodies
  <2> QED
    BY <1>3, <2>2, <2>3, <2>4 DEF OneWay
<1> QED
  BY <1>12, <1>13

(* If the parser knows the blocks in S and not all of a transaction, S     *)
(* does not have all of it.                                                *)
LEMMA ChunkMissing ==
  ASSUME NEW S, NEW p, NEW h \in Hashes, h \in DOMAIN p.txs, p.txs[h].pieces \subseteq Chunks,
         p.txs[h].pieces # Chunks, \A t \in S : Known(p, store[t].txs)
  PROVE  ChunksIn(S, h) # Chunks
<1>1. ASSUME NEW c \in ChunksIn(S, h) PROVE c \in p.txs[h].pieces
  <2>1. PICK s \in S : \E i \in DOMAIN store[s].txs :
          /\ ~store[s].txs[i].err
          /\ \E k \in DOMAIN store[s].txs[i].instrs :
               LET e == store[s].txs[i].instrs[k]
               IN  e.op = "TransmitTx" /\ e.chain = Chain /\ e.hash = h /\ e.chunk = c
    BY DEF ChunksIn
  <2> DEFINE txs == store[s].txs
  <2>2. PICK i \in DOMAIN txs :
          /\ ~txs[i].err
          /\ \E k \in DOMAIN txs[i].instrs :
               /\ txs[i].instrs[k].op = "TransmitTx" /\ txs[i].instrs[k].chain = Chain
               /\ txs[i].instrs[k].hash = h /\ txs[i].instrs[k].chunk = c
    BY <2>1
  <2>3. Known(p, txs)
    OBVIOUS
  <2> HIDE DEF txs
  <2>4. PICK k \in DOMAIN txs[i].instrs :
          /\ txs[i].instrs[k].op = "TransmitTx" /\ txs[i].instrs[k].chain = Chain
          /\ txs[i].instrs[k].hash = h /\ txs[i].instrs[k].chunk = c
    BY <2>2
  <2>5. k \in Of(txs, i, h)
    BY <2>2, <2>4 DEF Of, Accepted
  <2> QED
    BY <2>3, <2>4, <2>5 DEF Known
<1> QED
  BY <1>1

(* f follows the parents of slot s back n times.                           *)
Back(f, s, n) ==
  /\ f[0] = s
  /\ \A k \in 1 .. n : f[k] = IF Stored(f[k - 1]) THEN store[f[k - 1]].parent ELSE 0

(* The window of a slot is what following the parents gives.               *)
LEMMA WindowIs ==
  ASSUME StoreInv, NEW s \in Slots, NEW n \in Nat
  PROVE  \E f : Back(f, s, n) /\ Window(s, n) = {t \in {f[k] : k \in 0 .. (n - 1)} : Stored(t)}
<1> DEFINE e(f, k) == IF k = 0 THEN s ELSE IF Stored(f[k - 1]) THEN store[f[k - 1]].parent ELSE 0
           Eq(f) == f = [k \in 0 .. n |-> IF k = 0 THEN s ELSE IF Stored(f[k - 1]) THEN store[f[k - 1]].parent ELSE 0]
           back[k \in 0 .. n] == IF k = 0 THEN s ELSE IF Stored(back[k - 1]) THEN store[back[k - 1]].parent ELSE 0
           step == [x \in 0 .. MaxSlot |-> IF Stored(x) THEN store[x].parent ELSE 0]
<1>0. MaxSlot \in Nat /\ Slots = 1 .. MaxSlot /\ s \in 0 .. MaxSlot /\ store \in [Slots -> StoredBlocks]
  BY BlockParserAssumption DEF Slots, StoreInv
<1>1. step \in [0 .. MaxSlot -> 0 .. MaxSlot]
  BY <1>0 DEF Stored, StoredBlocks
<1>2. \A x \in 0 .. MaxSlot : step[x] = IF Stored(x) THEN store[x].parent ELSE 0
  OBVIOUS
<1> HIDE DEF step
<1>3. PICK g : Iterates(g, step, s, 0 .. MaxSlot, n)
  BY <1>0, <1>1, IterationExists
<1>4. g \in [0 .. n -> 0 .. MaxSlot] /\ g[0] = s /\ \A k \in 1 .. n : g[k] = step[g[k - 1]]
  BY <1>3 DEF Iterates
<1>5. Eq(g)
  <2>1. ASSUME NEW k \in 0 .. n PROVE g[k] = e(g, k)
    <3>1. CASE k = 0
      BY <1>4, <3>1
    <3>2. CASE k # 0
      <4>1. k \in 1 .. n /\ k - 1 \in 0 .. n
        BY <3>2
      <4>2. g[k - 1] \in 0 .. MaxSlot /\ g[k] = step[g[k - 1]]
        BY <1>4, <4>1
      <4> QED
        BY <1>2, <3>2, <4>2
    <3> QED
      BY <3>1, <3>2
  <2> HIDE DEF e
  <2>2. g = [k \in 0 .. n |-> e(g, k)]
    BY <1>4, <2>1
  <2> QED
    BY <2>2 DEF e
<1>6. Eq(CHOOSE f : Eq(f))
  BY <1>5, Zenon
<1>7. Eq(back)
  BY <1>6, Zenon
<1>8. Window(s, n) = {t \in {back[k] : k \in 0 .. (n - 1)} : Stored(t)}
  BY DEF Window
<1> HIDE DEF back
<1>9. Back(back, s, n)
  <2>1. 0 \in 0 .. n /\ \A k \in 1 .. n : k \in 0 .. n /\ k # 0
    OBVIOUS
  <2> QED
    BY <1>7, <2>1 DEF Back
<1> QED
  BY <1>8, <1>9

(* The window is at or below its slot.                                     *)
LEMMA WindowBelow ==
  ASSUME StoreInv, NEW s \in Slots, NEW n \in Nat
  PROVE  \A t \in Window(s, n) : t \in Slots /\ store[t].stored /\ t <= s
<1>0. MaxSlot \in Nat /\ Slots = 1 .. MaxSlot /\ store \in [Slots -> StoredBlocks]
  BY BlockParserAssumption DEF Slots, StoreInv
<1>1. PICK f : Back(f, s, n) /\ Window(s, n) = {t \in {f[k] : k \in 0 .. (n - 1)} : Stored(t)}
  BY WindowIs
<1>2. f[0] = s /\ \A k \in 1 .. n : f[k] = IF Stored(f[k - 1]) THEN store[f[k - 1]].parent ELSE 0
  BY <1>1 DEF Back
<1> DEFINE Reached == {k \in 0 .. n : f[k] \in 0 .. s}
<1>3. 0 \in Reached
  BY <1>0, <1>2
<1>4. ASSUME NEW k \in 1 .. n, k - 1 \in Reached PROVE k \in Reached
  <2>1. CASE Stored(f[k - 1])
    <3>1. f[k] = store[f[k - 1]].parent /\ f[k - 1] \in Slots
      BY <1>2, <2>1 DEF Stored
    <3>2. f[k] \in 0 .. MaxSlot /\ f[k] < f[k - 1]
      BY <1>0, <3>1 DEF StoreInv, StoredBlocks
    <3> QED
      BY <1>0, <1>4, <3>1, <3>2
  <2>2. CASE ~Stored(f[k - 1])
    BY <1>0, <1>2, <2>2
  <2> QED
    BY <2>1, <2>2
<1> HIDE DEF Reached
<1>5. 0 .. n \subseteq Reached
  BY <1>3, <1>4, IntervalInduction
<1>6. ASSUME NEW k \in 0 .. (n - 1) PROVE f[k] \in 0 .. s
  <2>1. k \in 0 .. n
    OBVIOUS
  <2> QED
    BY <1>5, <2>1 DEF Reached
<1> QED
  BY <1>0, <1>1, <1>6 DEF Stored

(* When the walk has gone back n blocks, or to a block whose parent is not *)
(* stored, it has been over the window.                                    *)
LEMMA WindowWalked ==
  ASSUME StoreInv, next \in Slots, NEW n \in Nat, NEW c \in 1 .. n, NEW f, Walked(f, c),
         c = n \/ ~Stored(store[f[c - 1]].parent)
  PROVE  \A t \in Window(next, n) : \E k \in 0 .. (c - 1) : t = f[k]
<1>0. MaxSlot \in Nat /\ Slots = 1 .. MaxSlot /\ store \in [Slots -> StoredBlocks]
  BY BlockParserAssumption DEF Slots, StoreInv
<1>1. PICK g : Back(g, next, n) /\ Window(next, n) = {t \in {g[k] : k \in 0 .. (n - 1)} : Stored(t)}
  BY WindowIs
<1>2. g[0] = next /\ \A k \in 1 .. n : g[k] = IF Stored(g[k - 1]) THEN store[g[k - 1]].parent ELSE 0
  BY <1>1 DEF Back
<1>3. /\ f \in [0 .. (c - 1) -> Slots] /\ f[0] = next
      /\ \A k \in 0 .. (c - 1) : store[f[k]].stored
      /\ \A k \in 1 .. (c - 1) : f[k] = store[f[k - 1]].parent
  BY DEF Walked
<1> DEFINE Good(k) == IF k < c THEN g[k] = f[k] ELSE c # n => ~Stored(g[k])
           Reached == {k \in 0 .. n : Good(k)}
<1>4. 0 \in Reached
  BY <1>2, <1>3
<1>5. ASSUME NEW k \in 1 .. n, k - 1 \in Reached PROVE k \in Reached
  <2>1. k \in 0 .. n /\ k - 1 \in 0 .. n /\ Good(k - 1)
    BY <1>5
  <2>2. CASE k < c
    <3>1. k - 1 < c /\ k \in 1 .. (c - 1) /\ k - 1 \in 0 .. (c - 1)
      BY <2>2
    <3>2. g[k - 1] = f[k - 1] /\ Stored(f[k - 1]) /\ f[k] = store[f[k - 1]].parent
      BY <1>3, <2>1, <3>1 DEF Stored
    <3>3. g[k] = f[k]
      BY <1>2, <3>2
    <3> QED
      BY <2>1, <2>2, <3>3
  <2>3. CASE k = c
    <3>1. k - 1 < c /\ k - 1 = c - 1 /\ c - 1 \in 0 .. (c - 1)
      BY <2>3
    <3>2. g[k - 1] = f[c - 1] /\ Stored(f[c - 1])
      BY <1>3, <2>1, <3>1 DEF Stored
    <3>3. g[k] = store[f[c - 1]].parent
      BY <1>2, <3>2
    <3> QED
      BY <2>1, <2>3, <3>3
  <2>4. CASE k > c
    <3>1. ~(k - 1 < c) /\ ~(k < c)
      BY <2>4
    <3>2. ASSUME c # n PROVE ~Stored(g[k])
      <4>1. ~Stored(g[k - 1])
        BY <2>1, <3>1, <3>2
      <4>2. g[k] = 0
        BY <1>2, <4>1
      <4> QED
        BY <1>0, <4>2 DEF Stored
    <3> QED
      BY <2>1, <3>1, <3>2
  <2> QED
    BY <2>2, <2>3, <2>4
<1> HIDE DEF Reached
<1>6. 0 .. n \subseteq Reached
  BY <1>4, <1>5, IntervalInduction
<1>7. ASSUME NEW t \in Window(next, n) PROVE \E k \in 0 .. (c - 1) : t = f[k]
  <2>1. PICK k \in 0 .. (n - 1) : t = g[k] /\ Stored(g[k])
    BY <1>1
  <2>2. k \in 0 .. n
    OBVIOUS
  <2>3. Good(k)
    BY <1>6, <2>2 DEF Reached
  <2>4. k < c
    <3>1. CASE c = n
      BY <3>1
    <3>2. CASE c # n
      BY <2>1, <2>3, <3>2
    <3> QED
      BY <3>1, <3>2
  <2>5. k \in 0 .. (c - 1) /\ t = f[k]
    BY <2>1, <2>3, <2>4
  <2> QED
    BY <2>5
<1> QED
  BY <1>7

(* A walk goes down a slot at least with every block.                      *)
LEMMA WalkedDown ==
  ASSUME StoreInv, next \in Slots, NEW c \in Nat \ {0}, NEW f, Walked(f, c)
  PROVE  f[c - 1] <= next - (c - 1)
<1>0. MaxSlot \in Nat /\ Slots = 1 .. MaxSlot /\ store \in [Slots -> StoredBlocks]
  BY BlockParserAssumption DEF Slots, StoreInv
<1>1. /\ f \in [0 .. (c - 1) -> Slots] /\ f[0] = next
      /\ \A k \in 1 .. (c - 1) : f[k] = store[f[k - 1]].parent
  BY DEF Walked
<1> DEFINE Reached == {k \in 0 .. (c - 1) : f[k] <= next - k}
<1>2. 0 \in Reached
  BY <1>0, <1>1
<1>3. ASSUME NEW k \in 1 .. (c - 1), k - 1 \in Reached PROVE k \in Reached
  <2>1. f[k - 1] \in Slots /\ f[k] \in Slots /\ f[k - 1] <= next - (k - 1) /\ f[k] = store[f[k - 1]].parent
    BY <1>1, <1>3
  <2>2. f[k] < f[k - 1]
    BY <2>1 DEF StoreInv
  <2> QED
    BY <1>0, <2>1, <2>2
<1> HIDE DEF Reached
<1>4. 0 .. (c - 1) \subseteq Reached
  BY <1>2, <1>3, IntervalInduction
<1>5. c - 1 \in Reached
  BY <1>4
<1> QED
  BY <1>5 DEF Reached

-----------------------------------------------------------------------------
(* Rounds.                                                                 *)

(* What a round learns, and why it stops.                                  *)
RoundLearns(slot, n) ==
  /\ KindsOf(parser')
  /\ warned' = {} => /\ warned = {} /\ Known(parser', store[slot].txs)
                     /\ \A b : Known(parser, b) => Known(parser', b)
  /\ pc' = "parent" /\ warned' = {} => Unfinished(parser', next)
  /\ pc' = "stopped" /\ warned' = {} =>
       \E h \in Finished(parser', next) :
         /\ h \in DOMAIN parser'.txs /\ parser'.txs[h].kind = "BigEvmTx"
         /\ \/ \E m \in 1 .. (NumChunks - 1) : parser'.txs[h].pieces = 1 .. m
            \/ n >= MaxBlocks /\ parser'.txs[h].pieces # 1 .. NumChunks

(* A round registers its block, or fails with a warning, and goes on or    *)
(* stops only for a transaction whose chunks were not all found.           *)
LEMMA RoundKnown ==
  ASSUME OneWay, ParseTypeInv, RegisteredInv, KindsOf(parser), NEW slot \in Slots, NEW n,
         RoundBegins(slot, n), Round(slot, n)
  PROVE  RoundLearns(slot, n)
<1>1. PICK r \in register_slot_transactions(parser, slot, ParsedTxs(store[slot].txs)) :
        /\ parser' = r.parser
        /\ warned' = IF r.ok THEN warned ELSE warned \cup {slot}
        /\ \E status \in is_slot_complete(r.parser, next) :
             \/ /\ status = "panic"
                /\ pc' = "panicked" /\ UNCHANGED <<out, next, walk, count>>
             \/ /\ status = "complete"
                /\ IF \A h \in Finished(r.parser, next) : builds(r.parser.txs[h])
                   THEN \E txs \in finalize_slot(r.parser, next) :
                          /\ out' = [out EXCEPT ![next] = txs]
                          /\ next' = next + 1 /\ pc' = "slot" /\ walk' = 0 /\ count' = 0
                   ELSE pc' = "stopped" /\ UNCHANGED <<out, next, walk, count>>
             \/ /\ status = "incomplete"
                /\ walk' = slot /\ count' = n
                /\ pc' = IF n >= MaxBlocks THEN "stopped" ELSE "parent"
                /\ UNCHANGED <<out, next>>
  BY DEF Round
<1>2. store[slot].txs \in Bodies /\ ParserTyped(parser)
  BY DEF ParseTypeInv, StoreInv, StoredBlocks
<1>3. /\ r.ok => Known(r.parser, store[slot].txs)
      /\ \A b : Known(parser, b) => Known(r.parser, b)
      /\ KindsOf(r.parser)
  BY <1>2, RegisterKnown
<1>4. ASSUME warned' = {} PROVE warned = {} /\ r.ok
  BY <1>1, <1>4
<1>5. RoundEffect(slot, n)
  BY RoundFacts
<1>6. ASSUME pc' = "stopped", warned' = {}
      PROVE  \E h \in Finished(parser', next) :
               /\ h \in DOMAIN parser'.txs /\ parser'.txs[h].kind = "BigEvmTx"
               /\ \/ \E m \in 1 .. (NumChunks - 1) : parser'.txs[h].pieces = 1 .. m
                  \/ n >= MaxBlocks /\ parser'.txs[h].pieces # 1 .. NumChunks
  <2> DEFINE p == r.parser
  <2>0. parser' = p
    BY <1>1
  <2>1. ParserTyped(p) /\ Finished(p, next) \subseteq DOMAIN p.txs
    <3>1. Finished(p, next) \subseteq DOMAIN SlotResults(p, next)
      BY DEF Finished
    <3>2. ParserTyped(parser') /\ DOMAIN SlotResults(parser', next) \subseteq DOMAIN parser'.txs
      BY <1>5, <1>6 DEF RoundEffect
    <3> QED
      BY <2>0, <3>1, <3>2
  <2>2. PICK status \in is_slot_complete(p, next) :
          \/ status = "panic"
          \/ status = "complete" /\ ~(\A h \in Finished(p, next) : builds(p.txs[h]))
          \/ status = "incomplete" /\ n >= MaxBlocks
    <3>1. PICK status \in is_slot_complete(p, next) :
            \/ status = "panic"
            \/ /\ status = "complete"
               /\ (\A h \in Finished(p, next) : builds(p.txs[h])) => pc' = "slot"
            \/ status = "incomplete" /\ pc' = IF n >= MaxBlocks THEN "stopped" ELSE "parent"
      BY <1>1
    <3> QED
      BY <1>6, <3>1
  <2> HIDE DEF p
  <2>3. status # "panic"
    BY <2>1, StatusFacts
  <2>4. CASE status = "complete" /\ ~(\A h \in Finished(p, next) : builds(p.txs[h]))
    <3>1. \E h \in Finished(p, next) : /\ p.txs[h].kind = "BigEvmTx"
                                       /\ \E m \in 1 .. (NumChunks - 1) : p.txs[h].pieces = 1 .. m
      BY <2>1, <2>4, StatusFacts
    <3> QED
      BY <2>0, <2>1, <3>1
  <2>5. CASE status = "incomplete" /\ n >= MaxBlocks
    <3>1. \E h \in Finished(p, next) : p.txs[h].kind = "BigEvmTx" /\ p.txs[h].pieces # 1 .. NumChunks
      BY <2>1, <2>5, StatusFacts
    <3> QED
      BY <2>0, <2>1, <2>5, <3>1
  <2> QED
    BY <2>2, <2>3, <2>4, <2>5
<1>7. ASSUME pc' = "parent", warned' = {} PROVE Unfinished(parser', next)
  <2> DEFINE p == r.parser
  <2>0. parser' = p
    BY <1>1
  <2>1. ParserTyped(p) /\ Finished(p, next) \subseteq DOMAIN p.txs
    <3>1. Finished(p, next) \subseteq DOMAIN SlotResults(p, next)
      BY DEF Finished
    <3>2. ParserTyped(parser') /\ DOMAIN SlotResults(parser', next) \subseteq DOMAIN parser'.txs
      BY <1>5, <1>7 DEF RoundEffect
    <3> QED
      BY <2>0, <3>1, <3>2
  <2>2. "incomplete" \in is_slot_complete(p, next)
    BY <1>1, <1>7
  <2> HIDE DEF p
  <2>3. \E h \in Finished(p, next) : p.txs[h].kind = "BigEvmTx" /\ p.txs[h].pieces # 1 .. NumChunks
    BY <2>1, <2>2, StatusFacts
  <2> QED
    BY <2>0, <2>1, <2>3 DEF Unfinished
<1> QED
  BY <1>1, <1>3, <1>4, <1>6, <1>7 DEF RoundLearns

(* The blocks in the last MaxParseBehind and their chunks depend on the    *)
(* table only.                                                             *)
LEMMA SameChunks ==
  ASSUME UNCHANGED <<store, next>>, NEW h
  PROVE  (ChunksIn(Window(next, MaxParseBehind), h))' = ChunksIn(Window(next, MaxParseBehind), h)
  BY DEF ChunksIn, Window, Stored

(* The blocks walked over are known, but for replaced ones.                *)
WalkedOver(p, f, n) ==
  Walked(f, n) /\ \A k \in 0 .. (n - 1) : f[k] \notin ToSet(events) => Known(p, store[f[k]].txs)

(* The walk can go no further.                                             *)
Exhausted(f, n) == n = MaxParseBehind \/ ~Stored(store[f[n - 1]].parent)

(* After max_blocks blocks the walk is at its end: below MAX_PARSE_BEHIND  *)
(* slots there cannot be more blocks than slots.                           *)
LEMMA MaxBlocksExhausts ==
  ASSUME ParseTypeInv, NEW n \in 1 .. MaxParseBehind, NEW f, Walked(f, n), n >= MaxBlocks
  PROVE  Exhausted(f, n)
<1>0. /\ MaxSlot \in Nat /\ Slots = 1 .. MaxSlot /\ next \in Slots /\ MaxParseBehind \in Nat /\ StoreInv
  BY Numbers, BlockParserAssumption DEF ParseTypeInv
<1>1. CASE next < MaxParseBehind
  <2>1. n >= next
    BY <1>0, <1>1 DEF MaxBlocks
  <2>2. f[n - 1] <= next - (n - 1)
    BY <1>0, WalkedDown
  <2>3. f[n - 1] \in Slots
    BY DEF Walked
  <2>4. store[f[n - 1]].parent \in 0 .. MaxSlot /\ store[f[n - 1]].parent < f[n - 1]
    BY <1>0, <2>3 DEF StoreInv, StoredBlocks
  <2>5. f[n - 1] <= 1
    BY <1>0, <2>1, <2>2, <2>3
  <2>6. store[f[n - 1]].parent = 0
    BY <1>0, <2>3, <2>4, <2>5
  <2> QED
    BY <1>0, <2>6 DEF Exhausted, Stored
<1>2. CASE ~(next < MaxParseBehind)
  BY <1>0, <1>2 DEF MaxBlocks, Exhausted
<1> QED
  BY <1>1, <1>2

(* When parse stops with everything known that it has walked over, it      *)
(* stops for want of data.                                                 *)
LEMMA StopsWanting ==
  ASSUME OneWay, FromFirstBlock, ParseTypeInv,
         \A s \in Slots : store[s].stored => s \notin SkippedSlots,
         NEW p, ParserTyped(p), KindsOf(p),
         SlotResults(p, next) = ResultsOf(ParsedTxs(store[next].txs)),
         events = <<>>, Stored(next), NEW n \in 1 .. MaxParseBehind, NEW f, WalkedOver(p, f, n),
         ~forgot /\ skipped = {} => \A t \in StartSlot .. (next - 1) : Stored(t) => Known(p, store[t].txs),
         NEW h \in Finished(p, next), h \in DOMAIN p.txs, p.txs[h].kind = "BigEvmTx",
         \/ \E m \in 1 .. (NumChunks - 1) : p.txs[h].pieces = 1 .. m
         \/ Exhausted(f, n) /\ p.txs[h].pieces # 1 .. NumChunks
  PROVE  /\ h \in FinishedFromHolder(store[next].txs)
         /\ \/ ChunksIn(Window(next, MaxParseBehind), h) # Chunks
            \/ /\ forgot \/ skipped # {}
               /\ \E m \in 1 .. (NumChunks - 1) : p.txs[h].pieces = 1 .. m
<1>0. /\ MaxSlot \in Nat /\ Slots = 1 .. MaxSlot /\ StartSlot \in Slots /\ next \in Slots /\ StoreInv
      /\ MaxParseBehind \in Nat /\ NumChunks \in Nat \ {0}
  BY Numbers, BlockParserAssumption, TxParserAssumption DEF ParseTypeInv
<1>1. store[next].txs \in Bodies
  BY <1>0 DEF StoreInv, StoredBlocks
<1>2. h \in FinishedFromHolder(store[next].txs)
  BY <1>1, FinishedThroughHolder
<1>3. h \in Hashes /\ p.txs[h].pieces \subseteq Chunks
  BY DEF ParserTyped, EvmTxs, Chunks
<1>4. p.txs[h].pieces # Chunks
  <2>1. ASSUME NEW m \in 1 .. (NumChunks - 1), p.txs[h].pieces = 1 .. m PROVE p.txs[h].pieces # 1 .. NumChunks
    <3>1. NumChunks \in 1 .. NumChunks /\ NumChunks \notin 1 .. m
      BY <1>0
    <3> QED
      BY <2>1, <3>1
  <2> QED
    BY <2>1 DEF Chunks
<1>5. ToSet(events) = {}
  BY DEF ToSet
<1>6. /\ f[0] = next /\ Walked(f, n)
      /\ \A k \in 0 .. (n - 1) : Known(p, store[f[k]].txs)
  BY <1>5 DEF WalkedOver, Walked
<1>7. ASSUME \A t \in Window(next, MaxParseBehind) : Known(p, store[t].txs)
      PROVE  ChunksIn(Window(next, MaxParseBehind), h) # Chunks
  BY <1>3, <1>4, <1>7, ChunkMissing
<1>8. CASE Exhausted(f, n)
  <2>1. \A t \in Window(next, MaxParseBehind) : \E k \in 0 .. (n - 1) : t = f[k]
    BY <1>0, <1>6, <1>8, WindowWalked DEF Exhausted
  <2>2. \A t \in Window(next, MaxParseBehind) : Known(p, store[t].txs)
    BY <1>6, <2>1
  <2> QED
    BY <1>2, <1>7, <2>2
<1>9. CASE ~forgot /\ skipped = {}
  <2>1. ASSUME NEW t \in Window(next, MaxParseBehind) PROVE Known(p, store[t].txs)
    <3>1. t \in Slots /\ store[t].stored /\ t <= next
      BY <1>0, WindowBelow
    <3>2. t \notin 1 .. (StartSlot - 1)
      BY <3>1 DEF FromFirstBlock
    <3>3. StartSlot <= t
      BY <1>0, <3>1, <3>2
    <3>4. CASE t = next
      <4>1. 0 \in 0 .. (n - 1)
        OBVIOUS
      <4> QED
        BY <1>6, <3>4, <4>1
    <3>5. CASE t # next
      <4>1. t \in StartSlot .. (next - 1)
        BY <1>0, <3>1, <3>3, <3>5
      <4> QED
        BY <1>9, <3>1, <4>1 DEF Stored
    <3> QED
      BY <3>4, <3>5
  <2> QED
    BY <1>2, <1>7, <2>1
<1>10. CASE (forgot \/ skipped # {}) /\ \E m \in 1 .. (NumChunks - 1) : p.txs[h].pieces = 1 .. m
  BY <1>2, <1>10
<1> QED
  BY <1>8, <1>9, <1>10

(* A round keeps the invariant, given the blocks walked over before it.    *)
LEMMA RoundKeepsKnown ==
  ASSUME OneWay, FromFirstBlock, ParseTypeInv, RegisteredInv, KnownInv,
         NEW slot \in Slots, NEW n, RoundBegins(slot, n), Round(slot, n),
         UNCHANGED <<loaderVars, goal, from, to, skipped, forgot, restarts>>,
         warned = {} =>
           \E f : /\ Walked(f, n) /\ f[n - 1] = slot
                  /\ \A k \in 0 .. (n - 2) : f[k] \notin ToSet(events) => Known(parser, store[f[k]].txs)
  PROVE  KnownInv'
<1>0. UNCHANGED <<store, events, goal, from, to, skipped, forgot>>
  BY DEF loaderVars
<1>1. RoundEffect(slot, n)
  BY RoundFacts
<1>2. RoundLearns(slot, n)
  BY RoundKnown DEF KnownInv
<1>3. KindsOf(parser') /\ \A s \in Slots : store[s].stored => s \notin SkippedSlots
  BY <1>2 DEF RoundLearns, KnownInv
<1>4. /\ MaxSlot \in Nat /\ Slots = 1 .. MaxSlot /\ StartSlot \in Slots /\ next \in Slots
      /\ MaxParseBehind \in Nat /\ n \in 1 .. MaxParseBehind /\ Stored(next)
  BY Numbers, BlockParserAssumption DEF RoundBegins
<1>5. CASE warned' # {}
  <2>1. BehindInv' /\ WalkInv' /\ StopInv'
    BY <1>5 DEF BehindInv, WalkInv, StopInv
  <2> QED
    BY <1>0, <1>3, <2>1 DEF KnownInv
<1>6. CASE warned' = {}
  <2>1. /\ warned = {} /\ Known(parser', store[slot].txs)
        /\ \A b : Known(parser, b) => Known(parser', b)
    BY <1>2, <1>6 DEF RoundLearns
  <2>2. PICK f : /\ Walked(f, n) /\ f[n - 1] = slot
                 /\ \A k \in 0 .. (n - 2) : f[k] \notin ToSet(events) => Known(parser, store[f[k]].txs)
    BY <2>1
  <2>3. ASSUME NEW k \in 0 .. (n - 1), f[k] \notin ToSet(events) PROVE Known(parser', store[f[k]].txs)
    <3>1. CASE k = n - 1
      BY <2>1, <2>2, <3>1
    <3>2. CASE k # n - 1
      <4>1. k \in 0 .. (n - 2)
        BY <1>4, <3>2
      <4> QED
        BY <2>1, <2>2, <2>3, <4>1
    <3> QED
      BY <3>1, <3>2
  <2>4. WalkedOver(parser', f, n)
    BY <2>2, <2>3 DEF WalkedOver
  <2>5. ASSUME ~forgot, NEW t \in StartSlot .. (next - 1), t \notin skipped \cup ToSet(events), Stored(t)
        PROVE  Known(parser', store[t].txs)
    BY <2>1, <2>5 DEF KnownInv, BehindInv
  <2>6. ASSUME next' = next PROVE BehindInv'
    <3>1. \A t : Stored(t)' <=> Stored(t)
      BY <1>0 DEF Stored
    <3> QED
      BY <1>0, <2>5, <2>6, <3>1 DEF BehindInv
  <2>7. CASE pc' = "panicked" /\ next' = next
    <3>1. WalkInv' /\ StopInv'
      BY <2>7 DEF WalkInv, StopInv
    <3> QED
      BY <1>0, <1>3, <2>6, <2>7, <3>1 DEF KnownInv
  <2>8. CASE pc' = "stopped" /\ next' = next
    <3>1. WalkInv'
      BY <2>8 DEF WalkInv
    <3>2. ASSUME events = <<>>
          PROVE  \E h \in FinishedFromHolder(store[next].txs) : Wanting(h)'
      <4>1. PICK h \in Finished(parser', next) :
              /\ h \in DOMAIN parser'.txs /\ parser'.txs[h].kind = "BigEvmTx"
              /\ \/ \E m \in 1 .. (NumChunks - 1) : parser'.txs[h].pieces = 1 .. m
                 \/ n >= MaxBlocks /\ parser'.txs[h].pieces # 1 .. NumChunks
        BY <1>2, <1>6, <2>8 DEF RoundLearns
      <4>2. \/ \E m \in 1 .. (NumChunks - 1) : parser'.txs[h].pieces = 1 .. m
            \/ Exhausted(f, n) /\ parser'.txs[h].pieces # 1 .. NumChunks
        BY <1>4, <2>2, <4>1, MaxBlocksExhausts
      <4>3. ToSet(events) = {}
        BY <3>2 DEF ToSet
      <4>4. ParserTyped(parser') /\ SlotResults(parser', next) = ResultsOf(ParsedTxs(store[next].txs))
        BY <1>1, <1>6, <4>3 DEF RoundEffect
      <4>5. ~forgot /\ skipped = {} =>
              \A t \in StartSlot .. (next - 1) : Stored(t) => Known(parser', store[t].txs)
        BY <2>5, <4>3
      <4>6. /\ h \in FinishedFromHolder(store[next].txs)
            /\ \/ ChunksIn(Window(next, MaxParseBehind), h) # Chunks
               \/ /\ forgot \/ skipped # {}
                  /\ \E m \in 1 .. (NumChunks - 1) : parser'.txs[h].pieces = 1 .. m
        BY <1>3, <1>4, <2>4, <3>2, <4>1, <4>2, <4>4, <4>5, StopsWanting
      <4>7. (ChunksIn(Window(next, MaxParseBehind), h))' = ChunksIn(Window(next, MaxParseBehind), h)
        BY <1>0, <2>8, SameChunks
      <4> QED
        BY <1>0, <4>6, <4>7 DEF Wanting
    <3>3. StopInv'
      BY <1>0, <2>8, <3>2 DEF StopInv
    <3> QED
      BY <1>0, <1>3, <2>6, <2>8, <3>1, <3>3 DEF KnownInv
  <2>9. CASE pc' = "parent" /\ walk' = slot /\ count' = n /\ next' = next
    <3>1. Walked(f, n)'
      BY <1>0, <2>2, <2>9 DEF Walked
    <3>2. Unfinished(parser', next)
      BY <1>2, <1>6, <2>9 DEF RoundLearns
    <3>3. WalkInv'
      <4>1. /\ Walked(f, n)' /\ f[n - 1] = slot
            /\ \A k \in 0 .. (n - 1) : f[k] \notin ToSet(events') => Known(parser', store'[f[k]].txs)
        BY <1>0, <2>2, <2>3, <3>1
      <4>2. n >= 1 /\ Unfinished(parser', next')
        BY <1>4, <2>9, <3>2
      <4> QED
        BY <2>9, <4>1, <4>2 DEF WalkInv
    <3>4. StopInv'
      BY <2>9 DEF StopInv
    <3> QED
      BY <1>0, <1>3, <2>6, <2>9, <3>3, <3>4 DEF KnownInv
  <2>10. CASE pc' = "slot" /\ next' = next + 1
    <3>1. WalkInv' /\ StopInv'
      BY <2>10 DEF WalkInv, StopInv
    <3>2. ASSUME ~forgot, NEW t \in StartSlot .. next, t \notin skipped \cup ToSet(events), Stored(t)
          PROVE  Known(parser', store[t].txs)
      <4>1. CASE t = next
        <5>1. f[0] = next /\ 0 \in 0 .. (n - 1)
          BY <1>4, <2>2 DEF Walked
        <5> QED
          BY <2>3, <3>2, <4>1, <5>1
      <4>2. CASE t # next
        <5>1. t \in StartSlot .. (next - 1)
          BY <1>4, <4>2
        <5> QED
          BY <2>5, <3>2, <5>1
      <4> QED
        BY <4>1, <4>2
    <3>3. BehindInv'
      <4>1. next' - 1 = next
        BY <1>4, <2>10
      <4>2. \A t : Stored(t)' <=> Stored(t)
        BY <1>0 DEF Stored
      <4> QED
        BY <1>0, <3>2, <4>1, <4>2 DEF BehindInv
    <3> QED
      BY <1>0, <1>3, <3>1, <3>3 DEF KnownInv
  <2> QED
    BY <1>1, <2>7, <2>8, <2>9, <2>10 DEF RoundEffect
<1> QED
  BY <1>5, <1>6

(* The slot at hand and its parents.                                       *)
LEMMA ParseKeepsKnown ==
  ASSUME OneWay, FromFirstBlock, ParseTypeInv, RegisteredInv, KnownInv, ParseFinal \/ ParseParent
  PROVE  KnownInv'
<1>0. /\ MaxSlot \in Nat /\ Slots = 1 .. MaxSlot /\ Slots \subseteq Nat /\ next \in Slots
      /\ MaxParseBehind \in Nat \ {0}
  BY Numbers, BlockParserAssumption
<1>1. CASE ParseFinal
  <2>1. /\ Stored(next) /\ next < to /\ Round(next, 1)
        /\ UNCHANGED <<loaderVars, goal, from, to, skipped, forgot, restarts>>
    BY <1>1 DEF ParseFinal
  <2>2. next <= next /\ 1 \in 1 .. MaxParseBehind
    BY <1>0
  <2>3. RoundBegins(next, 1)
    BY <2>1, <2>2 DEF RoundBegins
  <2> DEFINE f == [k \in 0 .. 0 |-> next]
  <2>4. Walked(f, 1) /\ f[1 - 1] = next
    <3>1. f \in [0 .. (1 - 1) -> Slots] /\ f[0] = next /\ store[next].stored
      BY <1>0, <2>1 DEF Stored
    <3>2. \A k \in 0 .. (1 - 1) : k = 0
      OBVIOUS
    <3>3. 1 .. (1 - 1) = {}
      OBVIOUS
    <3> QED
      BY <3>1, <3>2, <3>3 DEF Walked
  <2>5. 0 .. (1 - 2) = {}
    OBVIOUS
  <2> HIDE DEF f
  <2>6. \E g : /\ Walked(g, 1) /\ g[1 - 1] = next
               /\ \A k \in 0 .. (1 - 2) : g[k] \notin ToSet(events) => Known(parser, store[g[k]].txs)
    BY <2>4, <2>5
  <2> QED
    BY <1>0, <2>1, <2>3, <2>6, RoundKeepsKnown
<1>2. CASE ParseParent
  <2> DEFINE p == store[walk].parent
  <2>1. /\ pc = "parent" /\ UNCHANGED <<loaderVars, goal, from, to, skipped, forgot, restarts>>
        /\ \/ Stored(p) /\ Round(p, count + 1)
           \/ ~Stored(p) /\ pc' = "stopped" /\ UNCHANGED <<parser, warned, walk, count, out, next>>
    BY <1>2 DEF ParseParent
  <2>2. next < to /\ Stored(next) /\ walk \in Slots /\ walk <= next /\ count < MaxBlocks /\ count \in 0 .. MaxParseBehind
    BY <2>1 DEF ParseTypeInv, CursorInv, Stored
  <2>3. store[walk].parent < walk /\ store[walk].parent \in 0 .. MaxSlot
    BY <2>2 DEF ParseTypeInv, StoreInv, StoredBlocks
  <2>4. p <= next
    BY <1>0, <2>2, <2>3
  <2>5. count + 1 \in 1 .. MaxParseBehind
    BY <1>0, <2>2 DEF MaxBlocks
  <2>6. warned = {} =>
          /\ count >= 1 /\ Unfinished(parser, next)
          /\ \E f : /\ Walked(f, count) /\ f[count - 1] = walk
                    /\ \A k \in 0 .. (count - 1) : f[k] \notin ToSet(events) => Known(parser, store[f[k]].txs)
    BY <2>1 DEF KnownInv, WalkInv
  <2>7. CASE Stored(p) /\ Round(p, count + 1)
    <3>1. p \in Slots /\ store[p].stored
      BY <2>7 DEF Stored
    <3>2. RoundBegins(p, count + 1)
      BY <2>1, <2>2, <2>4, <2>5, <2>7 DEF RoundBegins
    <3>3. ASSUME warned = {}
          PROVE  \E f : /\ Walked(f, count + 1) /\ f[(count + 1) - 1] = p
                        /\ \A k \in 0 .. ((count + 1) - 2) :
                             f[k] \notin ToSet(events) => Known(parser, store[f[k]].txs)
      <4>1. PICK g : /\ Walked(g, count) /\ g[count - 1] = walk
                     /\ \A k \in 0 .. (count - 1) : g[k] \notin ToSet(events) => Known(parser, store[g[k]].txs)
        BY <2>6, <3>3
      <4>2. count \in Nat /\ count >= 1 /\ (count + 1) - 1 = count /\ (count + 1) - 2 = count - 1
        BY <2>2, <2>6, <3>3
      <4> DEFINE f == [k \in 0 .. count |-> IF k = count THEN p ELSE g[k]]
      <4>3. f[count] = p /\ \A k \in 0 .. (count - 1) : f[k] = g[k]
        BY <4>2
      <4>4. /\ g \in [0 .. (count - 1) -> Slots] /\ g[0] = next
            /\ \A k \in 0 .. (count - 1) : store[g[k]].stored
            /\ \A k \in 1 .. (count - 1) : g[k] = store[g[k - 1]].parent
        BY <4>1 DEF Walked
      <4>5. f \in [0 .. count -> Slots]
        BY <3>1, <4>2, <4>4
      <4> HIDE DEF f
      <4>6. f[0] = next
        BY <4>2, <4>3, <4>4
      <4>7. ASSUME NEW k \in 0 .. count PROVE store[f[k]].stored
        <5>1. CASE k = count
          BY <3>1, <4>3, <5>1
        <5>2. CASE k # count
          <6>1. k \in 0 .. (count - 1)
            BY <4>2, <5>2
          <6> QED
            BY <4>3, <4>4, <6>1
        <5> QED
          BY <5>1, <5>2
      <4>8. ASSUME NEW k \in 1 .. count PROVE f[k] = store[f[k - 1]].parent
        <5>1. CASE k = count
          <6>1. count - 1 \in 0 .. (count - 1)
            BY <4>2
          <6> QED
            BY <4>1, <4>3, <5>1, <6>1
        <5>2. CASE k # count
          <6>1. k \in 1 .. (count - 1) /\ k \in 0 .. (count - 1) /\ k - 1 \in 0 .. (count - 1)
            BY <4>2, <5>2
          <6> QED
            BY <4>3, <4>4, <6>1
        <5> QED
          BY <5>1, <5>2
      <4>9. Walked(f, count + 1)
        BY <4>2, <4>5, <4>6, <4>7, <4>8 DEF Walked
      <4>10. \A k \in 0 .. (count - 1) : f[k] \notin ToSet(events) => Known(parser, store[f[k]].txs)
        BY <4>1, <4>3
      <4> QED
        BY <4>2, <4>3, <4>9, <4>10
    <3> HIDE DEF p
    <3> DEFINE n == count + 1
    <3>4. warned = {} =>
            \E f : /\ Walked(f, n) /\ f[n - 1] = p
                   /\ \A k \in 0 .. (n - 2) : f[k] \notin ToSet(events) => Known(parser, store[f[k]].txs)
      BY <3>3
    <3>5. RoundBegins(p, n) /\ Round(p, n)
      BY <2>7, <3>2
    <3> HIDE DEF n
    <3> QED
      BY <2>1, <3>1, <3>4, <3>5, RoundKeepsKnown
  <2>8. CASE ~Stored(p) /\ pc' = "stopped" /\ UNCHANGED <<parser, warned, walk, count, out, next>>
    <3>1. UNCHANGED <<store, events, skipped, forgot, parser, warned, next>>
      BY <2>1, <2>8 DEF loaderVars
    <3>2. BehindInv'
      BY <3>1 DEF KnownInv, BehindInv, Stored
    <3>3. WalkInv'
      BY <2>8 DEF WalkInv
    <3>4. ASSUME warned = {}, events = <<>>
          PROVE  \E h \in FinishedFromHolder(store[next].txs) : Wanting(h)'
      <4>1. PICK f : /\ Walked(f, count) /\ f[count - 1] = walk
                     /\ \A k \in 0 .. (count - 1) : f[k] \notin ToSet(events) => Known(parser, store[f[k]].txs)
        BY <2>6, <3>4
      <4>2. PICK h \in Finished(parser, next) :
              h \in DOMAIN parser.txs /\ parser.txs[h].kind = "BigEvmTx" /\ parser.txs[h].pieces # 1 .. NumChunks
        BY <2>6, <3>4 DEF Unfinished
      <4>3. ToSet(events) = {}
        BY <3>4 DEF ToSet
      <4>4. count \in 1 .. MaxParseBehind
        BY <1>0, <2>2, <2>6, <3>4
      <4>5. WalkedOver(parser, f, count) /\ Exhausted(f, count)
        BY <2>8, <4>1 DEF WalkedOver, Exhausted
      <4>6. SlotResults(parser, next) = ResultsOf(ParsedTxs(store[next].txs))
        BY <2>1, <3>4, <4>3 DEF RegisteredInv
      <4>7. ParserTyped(parser) /\ KindsOf(parser) /\ \A s \in Slots : store[s].stored => s \notin SkippedSlots
        BY DEF ParseTypeInv, KnownInv
      <4>8. ~forgot /\ skipped = {} =>
              \A t \in StartSlot .. (next - 1) : Stored(t) => Known(parser, store[t].txs)
        BY <3>4, <4>3 DEF KnownInv, BehindInv
      <4>9. /\ h \in FinishedFromHolder(store[next].txs)
            /\ \/ ChunksIn(Window(next, MaxParseBehind), h) # Chunks
               \/ /\ forgot \/ skipped # {}
                  /\ \E m \in 1 .. (NumChunks - 1) : parser.txs[h].pieces = 1 .. m
        BY <2>2, <3>4, <4>2, <4>4, <4>5, <4>6, <4>7, <4>8, StopsWanting
      <4>10. (ChunksIn(Window(next, MaxParseBehind), h))' = ChunksIn(Window(next, MaxParseBehind), h)
        BY <3>1, SameChunks
      <4> QED
        BY <3>1, <4>9, <4>10 DEF Wanting
    <3>5. StopInv'
      BY <3>1, <3>4 DEF StopInv
    <3> QED
      BY <3>1, <3>2, <3>3, <3>5 DEF KnownInv
  <2> QED
    BY <2>1, <2>7, <2>8
<1> QED
  BY <1>1, <1>2

(* The loader: a block is stored.                                          *)
LEMMA StoreKeepsKnown ==
  ASSUME ParseTypeInv, KnownInv, NEW s \in Slots, StoreBlock(s)
  PROVE  KnownInv'
<1>0. /\ pc = "idle" /\ LastSlot < s /\ s \notin SkippedSlots
      /\ UNCHANGED <<events, parser, pc, from, to, goal, next, warned, skipped, forgot>>
  BY DEF StoreBlock, cursorVars, historyVars
<1>1. store \in [Slots -> StoredBlocks] /\ \E b : store' = [store EXCEPT ![s] = b]
  BY DEF StoreBlock, ParseTypeInv, StoreInv
<1>2. \A t \in Slots : t # s => store'[t] = store[t]
  BY <1>1
<1>3. /\ MaxSlot \in Nat /\ Slots = 1 .. MaxSlot /\ StartSlot \in Slots /\ next \in Slots /\ LastSlot \in 0 .. MaxSlot
      /\ goal \in Slots
  BY Numbers
<1>4. \A t \in Slots : store'[t].stored => t \notin SkippedSlots
  BY <1>0, <1>2 DEF KnownInv
<1>5. WalkInv' /\ StopInv' /\ KindsOf(parser')
  BY <1>0 DEF WalkInv, StopInv, KnownInv
<1>6. ASSUME NEW t \in StartSlot .. (next - 1) PROVE t \in Slots /\ t # s
  <2>1. t \in Slots /\ t < next /\ StartSlot <= t
    BY <1>3
  <2>2. next <= goal /\ (goal <= LastSlot \/ goal <= StartSlot)
    BY <1>3 DEF ParseTypeInv, CursorInv
  <2> QED
    BY <1>0, <1>3, <2>1, <2>2
<1>7. BehindInv'
  <2>1. \A t \in StartSlot .. (next - 1) : store'[t] = store[t] /\ (Stored(t)' <=> Stored(t))
    BY <1>2, <1>6 DEF Stored
  <2> QED
    BY <1>0, <2>1 DEF KnownInv, BehindInv
<1> QED
  BY <1>4, <1>5, <1>7 DEF KnownInv

(* A block is replaced and announced.                                      *)
LEMMA UpdateKeepsKnown ==
  ASSUME ParseTypeInv, KnownInv, NEW s \in Slots, UpdateBlock(s)
  PROVE  KnownInv'
<1>0. /\ pc \in {"idle", "parent"} /\ events' = Append(events, s)
      /\ UNCHANGED <<parser, pc, next, walk, count, warned, skipped, forgot>>
  BY DEF UpdateBlock, cursorVars, historyVars
<1>1. store \in [Slots -> StoredBlocks] /\ events \in Seq(Slots) /\ next \in Slots
      /\ MaxSlot \in Nat /\ Slots = 1 .. MaxSlot /\ StartSlot \in Slots
  BY Numbers DEF ParseTypeInv, StoreInv
<1>2. /\ \A t \in Slots : store'[t].parent = store[t].parent /\ store'[t].stored = store[t].stored
      /\ \A t \in Slots : t # s => store'[t] = store[t]
  <2>1. PICK txs \in Contents : store' = [store EXCEPT ![s].txs = txs]
    BY DEF UpdateBlock, Possible
  <2> QED
    BY <1>1, <2>1 DEF StoredBlocks, Bodies
<1>3. ToSet(events) \subseteq ToSet(events') /\ s \in ToSet(events')
  <2>1. /\ DOMAIN events' = DOMAIN events \cup {Len(events) + 1} /\ events'[Len(events) + 1] = s
        /\ \A i \in DOMAIN events : events'[i] = events[i]
    BY <1>0, <1>1
  <2> QED
    BY <2>1 DEF ToSet
<1>4. \A t \in Slots : store'[t].stored => t \notin SkippedSlots
  BY <1>2 DEF KnownInv
<1>5. StopInv' /\ KindsOf(parser')
  BY <1>0 DEF StopInv, KnownInv
<1>6. ASSUME NEW t \in Slots, t \notin ToSet(events') PROVE t \notin ToSet(events) /\ store'[t] = store[t]
  BY <1>2, <1>3, <1>6
<1>7. BehindInv'
  <2>1. StartSlot .. (next - 1) \subseteq Slots
    BY <1>1
  <2>2. \A t \in Slots : Stored(t)' <=> Stored(t)
    BY <1>2 DEF Stored
  <2> QED
    BY <1>0, <1>6, <2>1, <2>2 DEF KnownInv, BehindInv
<1>8. WalkInv'
  <2> SUFFICES ASSUME pc = "parent", warned = {}
               PROVE  /\ count >= 1 /\ Unfinished(parser, next)
                      /\ \E f : /\ Walked(f, count)' /\ f[count - 1] = walk
                                /\ \A k \in 0 .. (count - 1) :
                                     f[k] \notin ToSet(events') => Known(parser, store'[f[k]].txs)
    BY <1>0 DEF WalkInv
  <2>1. /\ count >= 1 /\ Unfinished(parser, next)
        /\ \E f : /\ Walked(f, count) /\ f[count - 1] = walk
                  /\ \A k \in 0 .. (count - 1) : f[k] \notin ToSet(events) => Known(parser, store[f[k]].txs)
    BY DEF KnownInv, WalkInv
  <2>2. PICK f : /\ Walked(f, count) /\ f[count - 1] = walk
                 /\ \A k \in 0 .. (count - 1) : f[k] \notin ToSet(events) => Known(parser, store[f[k]].txs)
    BY <2>1
  <2>3. count \in Nat
    BY BlockParserAssumption DEF ParseTypeInv, CursorInv
  <2>4. \A k \in 0 .. (count - 1) : f[k] \in Slots
    BY <2>2 DEF Walked
  <2>5. ASSUME NEW k \in 1 .. (count - 1) PROVE f[k] = store'[f[k - 1]].parent
    <3>1. k - 1 \in 0 .. (count - 1) /\ f[k] = store[f[k - 1]].parent
      BY <2>2, <2>3 DEF Walked
    <3> QED
      BY <1>2, <2>4, <3>1
  <2>6. Walked(f, count)'
    BY <1>0, <1>2, <2>2, <2>4, <2>5 DEF Walked
  <2>7. \A k \in 0 .. (count - 1) : f[k] \notin ToSet(events') => Known(parser, store'[f[k]].txs)
    BY <1>6, <2>2, <2>4
  <2> QED
    BY <2>1, <2>2, <2>6, <2>7
<1> QED
  BY <1>4, <1>5, <1>7, <1>8 DEF KnownInv

(* A reorg event is received.                                              *)
LEMMA ReorgKeepsKnown ==
  ASSUME ParseTypeInv, KnownInv, ReceiveReorg
  PROVE  KnownInv'
<1> DEFINE e == Head(events)
<1>0. /\ pc = "idle" /\ events # <<>> /\ events' = Tail(events) /\ next' = e
      /\ skipped' = (skipped \cup from .. (e - 1)) \ (e .. MaxSlot)
      /\ UNCHANGED <<store, parser, pc, warned, forgot>>
  BY DEF ReceiveReorg
<1>1. /\ MaxSlot \in Nat /\ Slots = 1 .. MaxSlot /\ Slots \subseteq Nat /\ StartSlot \in Slots
      /\ from \in Slots /\ next \in Slots /\ events \in Seq(Slots)
  BY Numbers DEF ParseTypeInv, StoreInv
<1>2. from = next
  BY <1>0 DEF ParseTypeInv, CursorInv
<1>3. e \in Slots /\ ToSet(events) \subseteq ToSet(events') \cup {e}
  <2>1. 1 \in DOMAIN events /\ e = events[1] /\ e \in Slots
    BY <1>0, <1>1
  <2>2. /\ DOMAIN events' = 1 .. (Len(events) - 1) /\ DOMAIN events = 1 .. Len(events)
        /\ Len(events) \in Nat /\ \A i \in DOMAIN events' : events'[i] = events[i + 1]
    BY <1>0, <1>1
  <2>3. ASSUME NEW i \in DOMAIN events PROVE events[i] = e \/ events[i] \in ToSet(events')
    <3>1. CASE i = 1
      BY <2>1, <3>1
    <3>2. CASE i # 1
      <4>1. i - 1 \in DOMAIN events' /\ events'[i - 1] = events[i]
        BY <2>2, <3>2
      <4> QED
        BY <4>1 DEF ToSet
    <3> QED
      BY <3>1, <3>2
  <2> HIDE DEF e
  <2> QED
    BY <2>1, <2>3 DEF ToSet
<1> HIDE DEF e
<1>4. WalkInv' /\ StopInv' /\ KindsOf(parser')
  BY <1>0 DEF WalkInv, StopInv, KnownInv
<1>5. ASSUME NEW t \in StartSlot .. (e - 1), t \notin skipped' \cup ToSet(events')
      PROVE  t \in StartSlot .. (next - 1) /\ t \notin skipped \cup ToSet(events)
  <2>1. t \in Nat /\ StartSlot <= t /\ t < e /\ t \in Slots
    BY <1>1, <1>3
  <2>2. t \notin e .. MaxSlot /\ t # e
    BY <1>1, <1>3, <2>1
  <2>3. t \notin skipped /\ t \notin from .. (e - 1)
    BY <1>0, <1>5, <2>2
  <2>4. t < next
    BY <1>1, <1>2, <1>3, <2>1, <2>3
  <2>5. t \in StartSlot .. (next - 1)
    BY <1>1, <2>1, <2>4
  <2> QED
    BY <1>3, <1>5, <2>2, <2>3, <2>5
<1>6. BehindInv'
  <2>1. \A t : Stored(t)' <=> Stored(t)
    BY <1>0 DEF Stored
  <2> QED
    BY <1>0, <1>5, <2>1 DEF KnownInv, BehindInv
<1> QED
  BY <1>0, <1>4, <1>6 DEF KnownInv

(* A slot without a block.                                                 *)
LEMMA NoneKeepsKnown ==
  ASSUME ParseTypeInv, KnownInv, ParseNone
  PROVE  KnownInv'
<1>0. /\ pc = "slot" /\ ~Stored(next) /\ next' = next + 1
      /\ UNCHANGED <<store, events, parser, pc, warned, skipped, forgot>>
  BY DEF ParseNone, loaderVars, historyVars
<1>1. /\ MaxSlot \in Nat /\ Slots = 1 .. MaxSlot /\ StartSlot \in Slots /\ next \in Slots
  BY Numbers
<1>2. WalkInv' /\ StopInv' /\ KindsOf(parser')
  BY <1>0 DEF WalkInv, StopInv, KnownInv
<1>3. \A t : Stored(t)' <=> Stored(t)
  BY <1>0 DEF Stored
<1>4. ASSUME NEW t \in StartSlot .. (next' - 1), Stored(t) PROVE t \in StartSlot .. (next - 1)
  <2>1. t # next
    BY <1>0, <1>4
  <2> QED
    BY <1>0, <1>1, <2>1
<1>5. BehindInv'
  BY <1>0, <1>3, <1>4 DEF KnownInv, BehindInv
<1> QED
  BY <1>0, <1>2, <1>5 DEF KnownInv

(* The end of a batch: what is dropped from the parser is noted.           *)
LEMMA EndBatchKeepsKnown ==
  ASSUME ParseTypeInv, KnownInv, EndBatch
  PROVE  KnownInv'
<1>0. /\ pc' = "idle" /\ UNCHANGED <<store, events, next, warned, skipped>>
      /\ parser' = (IF from > KeepSlots THEN retain_from_slot(parser, from - KeepSlots) ELSE parser)
      /\ forgot' = (forgot \/ parser'.txs # parser.txs)
  BY DEF EndBatch, loaderVars
<1>1. DOMAIN parser'.txs \subseteq DOMAIN parser.txs /\ \A h \in DOMAIN parser'.txs : parser'.txs[h] = parser.txs[h]
  <2>1. CASE from > KeepSlots
    BY <1>0, <2>1 DEF retain_from_slot
  <2>2. CASE ~(from > KeepSlots)
    BY <1>0, <2>2
  <2> QED
    BY <2>1, <2>2
<1>2. KindsOf(parser')
  BY <1>1 DEF KnownInv, KindsOf
<1>3. WalkInv' /\ StopInv'
  BY <1>0 DEF WalkInv, StopInv
<1>4. ASSUME ~forgot' PROVE ~forgot /\ parser'.txs = parser.txs
  BY <1>0, <1>4, Zenon
<1>5. BehindInv'
  <2>1. ASSUME ~forgot', NEW b, Known(parser, b) PROVE Known(parser', b)
    BY <1>4, <2>1 DEF Known
  <2>2. \A t : Stored(t)' <=> Stored(t)
    BY <1>0 DEF Stored
  <2> QED
    BY <1>0, <1>4, <2>1, <2>2 DEF KnownInv, BehindInv
<1> QED
  BY <1>0, <1>2, <1>3, <1>5 DEF KnownInv

(* The steps that leave the blocks and the parser alone, and a restart.    *)
LEMMA OthersKeepKnown ==
  ASSUME KnownInv, BeginSync \/ BeginBatch \/ Restart \/ UNCHANGED vars
  PROVE  KnownInv'
<1>1. ASSUME NEW g, Batch(g) PROVE KnownInv'
  <2>0. /\ pc' = "slot" /\ UNCHANGED <<store, events, parser, next, warned, skipped, forgot>>
    BY <1>1 DEF Batch, loaderVars, historyVars
  <2>1. WalkInv' /\ StopInv' /\ KindsOf(parser')
    BY <2>0 DEF WalkInv, StopInv, KnownInv
  <2>2. BehindInv'
    BY <2>0 DEF KnownInv, BehindInv, Stored
  <2> QED
    BY <2>0, <2>1, <2>2 DEF KnownInv
<1>2. CASE BeginSync \/ BeginBatch
  <2>1. \E g : Batch(g)
    BY <1>2 DEF BeginSync, BeginBatch
  <2> QED
    BY <1>1, <2>1
<1>3. CASE Restart
  <2>0. parser' = NewParser /\ pc' = "idle" /\ forgot' = TRUE /\ store' = store
    BY <1>3 DEF Restart
  <2>1. KindsOf(parser')
    BY <2>0 DEF NewParser, KindsOf, Empty
  <2>2. BehindInv' /\ WalkInv' /\ StopInv'
    BY <2>0 DEF BehindInv, WalkInv, StopInv
  <2> QED
    BY <2>0, <2>1, <2>2 DEF KnownInv
<1>4. CASE UNCHANGED vars
  <2>0. UNCHANGED <<store, events, parser, pc, next, walk, count, warned, skipped, forgot>>
    BY <1>4 DEF vars, loaderVars, cursorVars, historyVars
  <2>1. BehindInv' /\ KindsOf(parser')
    BY <2>0 DEF KnownInv, BehindInv, Stored
  <2>2. \A f : Walked(f, count)' <=> Walked(f, count)
    BY <2>0 DEF Walked
  <2>3. WalkInv'
    BY <2>0, <2>2 DEF KnownInv, WalkInv
  <2>4. \A h : Wanting(h)' <=> Wanting(h)
    <3>1. ASSUME NEW h
          PROVE  (ChunksIn(Window(next, MaxParseBehind), h))' = ChunksIn(Window(next, MaxParseBehind), h)
      BY <2>0, SameChunks
    <3> QED
      BY <2>0, <3>1 DEF Wanting
  <2>5. StopInv'
    BY <2>0, <2>4 DEF KnownInv, StopInv
  <2> QED
    BY <2>0, <2>1, <2>3, <2>5 DEF KnownInv
<1> QED
  BY <1>2, <1>3, <1>4

(* Under the conditions, parse ends the indexer only for want of data,     *)
(* however slots were walked over, replaced, pruned or read again before.  *)
THEOREM StopsOnlyWithoutDataCorrect ==
  ASSUME OneWay, FromFirstBlock
  PROVE  Spec => []StopsOnlyWithoutData
<1>1. Init => KnownInv
  <2> SUFFICES ASSUME Init PROVE KnownInv
    OBVIOUS
  <2>0. \A s \in Slots : ~store[s].stored
    BY DEF Init, NoBlock
  <2>1. KindsOf(parser)
    BY DEF Init, NewParser, KindsOf, Empty
  <2>2. BehindInv
    BY <2>0 DEF BehindInv, Stored
  <2>3. WalkInv /\ StopInv
    BY DEF Init, WalkInv, StopInv
  <2> QED
    BY <2>0, <2>1, <2>2, <2>3 DEF KnownInv
<1>2. ParseTypeInv /\ RegisteredInv /\ KnownInv /\ [Next]_vars => KnownInv'
  <2> SUFFICES ASSUME ParseTypeInv, RegisteredInv, KnownInv, [Next]_vars PROVE KnownInv'
    OBVIOUS
  <2>1. ASSUME NEW s \in Slots, StoreBlock(s) \/ UpdateBlock(s) PROVE KnownInv'
    BY <2>1, StoreKeepsKnown, UpdateKeepsKnown
  <2>2. CASE ReceiveReorg
    BY <2>2, ReorgKeepsKnown
  <2>3. CASE ParseFinal \/ ParseParent
    BY <2>3, ParseKeepsKnown
  <2>4. CASE ParseNone
    BY <2>4, NoneKeepsKnown
  <2>5. CASE EndBatch
    BY <2>5, EndBatchKeepsKnown
  <2>6. CASE BeginSync \/ BeginBatch \/ Restart \/ UNCHANGED vars
    BY <2>6, OthersKeepKnown
  <2> QED
    BY <2>1, <2>2, <2>3, <2>4, <2>5, <2>6 DEF Next
<1>3. RegisteredInv /\ KnownInv => StopsOnlyWithoutData
  BY DEF RegisteredInv, KnownInv, StopInv, Wanting, StopsOnlyWithoutData
<1> QED
  BY <1>1, <1>2, <1>3, ParseInvariant, PTL DEF Spec
=============================================================================
