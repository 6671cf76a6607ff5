----------------------------- MODULE AdvanceTx -----------------------------
(***************************************************************************)
(* The implementations of the trait AdvanceTx: the state machines that cut *)
(* a rollup transaction into the steps SolanaTower executes.               *)
(*                                                                         *)
(* A transaction is a record.  Its shape is the type that executes it,     *)
(* outer tells how it is wrapped ("Plain", or AltComposed and              *)
(* AltComposedHolder in their two steps), and the other fields are the     *)
(* steps of the parts: the iterable itself, AltTx and TransmitTx.  A step  *)
(* of a machine is the set of its possible outcomes, a pair of the step    *)
(* handed to the tower and the transaction after it: an emulation may      *)
(* always fail, and `?` then leaves the machine as it is at that point.    *)
(***************************************************************************)
EXTENDS Naturals, Sequences

CONSTANTS
  BatchLimit,      \* transmissions sent in parallel
                   \* (MAX_PERMITTED_DATA_INCREASE / TRANSMIT_TX_SIZE)
  MaxChunks,       \* bound on the chunks of a transaction
  MaxIterations    \* bound on the iterations of a transaction

ASSUME AdvanceTxAssumption ==
  /\ BatchLimit \in Nat \ {0}
  /\ MaxChunks \in Nat
  /\ MaxIterations \in Nat

HolderShapes == {"atomic_holder", "iterative_holder"}
IterativeShapes == {"iterative", "iterative_holder"}
Shapes == {"atomic", "atomic_svm", "cross_rollup", "cross_chain"}
            \cup HolderShapes \cup IterativeShapes

(* Chunk numbers are all that is left of the bytes.                        *)
Chunks == 1 .. MaxChunks

Txs == [shape : Shapes, outer : {"Plain", "Alt", "Execute"},
        step : {"Transmit", "Execute", "Confirm", "End"},
        transmit : {"Init", "Execute", "Complete"}, batches : Seq(SUBSET Chunks),
        alt_step : {"Execute", "WaitNextSlot", "End"},
        keys : BOOLEAN, alt_raw_account : BOOLEAN,
        chunks : 0 .. MaxChunks, iterations : 0 .. MaxIterations]

(* alt tells that a Parallel step rebuilds the address lookup table, ver   *)
(* is the version of a transaction of the step.  Err is the error advance  *)
(* returns, Panic a failed expect.                                         *)
Step(kind, chunks, alt, ver) == [kind |-> kind, chunks |-> chunks, alt |-> alt, ver |-> ver]
Simple(kind) == Step(kind, {}, FALSE, "Legacy")

Kinds == {"Single", "SingleWithSigners", "Parallel", "ParallelUnchecked", "Confirmed",
          "NotConfirmed", "WaitNextSlot", "End", "Err", "Panic"}
Steps == [kind : Kinds, chunks : SUBSET Chunks, alt : BOOLEAN, ver : {"Legacy", "V0"}]

Outcome(step, x) == [step |-> step, tx |-> x]

(* Mutant of into_chunks: one item too many.                               *)
into_chunks_over(items, size) ==
  [k \in 1 .. (items + size) \div size |->
     {j \in 1 .. items + 1 : (j - 1) \div size = k - 1}]

(* The items first .. last cut into chunks of the given size.              *)
into_chunks(items, size) ==
  [k \in 1 .. (items + size - 1) \div size |->
     {j \in 1 .. items : (j - 1) \div size = k - 1}]

(* TransmitTx: the chunks of the transaction are written into the holder,  *)
(* batch by batch.                                                         *)
TransmitAdvance(x) ==
  LET batches == IF x.transmit = "Init" THEN into_chunks(x.chunks, BatchLimit) ELSE x.batches
  IN  {IF batches = <<>>
         THEN Outcome(Simple("End"), [x EXCEPT !.transmit = "Complete", !.batches = <<>>])
         ELSE Outcome(Step("Parallel", Head(batches), FALSE, "Legacy"),
                      [x EXCEPT !.transmit = "Execute", !.batches = Tail(batches)])}
        \cup (IF x.transmit = "Init" THEN {Outcome(Simple("Err"), x)} ELSE {})

(* Mutant of AltAdvance: the table is not read after its allocation.       *)
AltAdvanceUnread(x, tableFound) ==
  CASE x.alt_step = "Execute" ->
         {Outcome(Step("Parallel", {}, TRUE, "Legacy"), [x EXCEPT !.alt_step = "WaitNextSlot"])}
    [] x.alt_step = "WaitNextSlot" ->
         {Outcome(Simple("WaitNextSlot"), [x EXCEPT !.alt_step = "End"])}
    [] OTHER -> {Outcome(Simple("End"), x)}

(* AltTx: the lookup table of the holder is freed and allocated again, and *)
(* then the slot of its last extension has to pass.  tx_data_alloc takes   *)
(* the keys, also when the emulation after it fails.                       *)
AltAdvance(x, tableFound) ==
  CASE x.alt_step = "Execute" ->
         {Outcome(Simple("Err"), x)} \cup
         (IF x.keys
            THEN {Outcome(Simple("Err"), [x EXCEPT !.keys = FALSE]),
                  Outcome(Step("Parallel", {}, TRUE, "Legacy"),
                          [x EXCEPT !.keys = FALSE, !.alt_step = "WaitNextSlot"])}
            ELSE {Outcome(Simple("Panic"), x)})
    [] x.alt_step = "WaitNextSlot" ->
         {Outcome(Simple("Err"), [x EXCEPT !.alt_step = "End"])} \cup
         (IF tableFound
            THEN {Outcome(Simple("WaitNextSlot"),
                          [x EXCEPT !.alt_step = "End", !.alt_raw_account = TRUE])}
            ELSE {})
    [] OTHER -> {Outcome(Simple("End"), x)}

ExecuteOnce(x, kind) ==
  {IF x.step = "Execute" THEN Outcome(Simple(kind), [x EXCEPT !.step = "End"])
                         ELSE Outcome(Simple("End"), x)}

(* AtomicTx has its instruction since build_tx, as has AtomicSvm; the      *)
(* tables AtomicSvm uses are its caller's.                                 *)
AtomicAdvance(x) == ExecuteOnce(x, "Single")
AtomicSvmAdvance(x) == ExecuteOnce(x, "Single")
CrossRollupAdvance(x) == ExecuteOnce(x, "Single")
CrossChainAdvance(x) == ExecuteOnce(x, "SingleWithSigners")

(* IterativeTx: all iterations at once, unchecked, then one look at the    *)
(* state of the transaction.  confirmed tells what the chain may answer.   *)
IterativeAdvance(x, confirmed) ==
  CASE x.step = "Execute" ->
         {Outcome(Simple("ParallelUnchecked"), [x EXCEPT !.step = "Confirm"])}
    [] x.step = "Confirm" ->
         {Outcome(Simple(k), [x EXCEPT !.step = "End"]) :
            k \in {"Err", "NotConfirmed"} \cup IF confirmed THEN {"Confirmed"} ELSE {}}
    [] OTHER -> {Outcome(Simple("End"), x)}

(* The step Transmit of the two holder transactions: the end of the        *)
(* transmission is the beginning of the execution.                         *)
ThenExecute(outcomes, Execute(_)) ==
  {o \in outcomes : o.step.kind # "End"}
    \cup UNION {Execute(o.tx) : o \in {p \in outcomes : p.step.kind = "End"}}

(* Mutant of AtomicHolderExecute: the holder is not looked at.             *)
AtomicHolderExecuteBlind(x, whole) == {Outcome(Simple("Single"), [x EXCEPT !.step = "End"])}

(* Their step Execute emulates the instruction against the holder, which   *)
(* must hold the whole transaction; the machine has moved on before that.  *)
AtomicHolderExecute(x, whole) ==
  LET y == [x EXCEPT !.step = "End"]
  IN  {Outcome(Simple(k), y) : k \in {"Err"} \cup IF whole THEN {"Single"} ELSE {}}

AtomicHolderAdvance(x, whole) ==
  CASE x.step = "Transmit" ->
         ThenExecute(TransmitAdvance(x), LAMBDA y : AtomicHolderExecute(y, whole))
    [] x.step = "Execute" -> AtomicHolderExecute(x, whole)
    [] OTHER -> {Outcome(Simple("End"), x)}

IterativeHolderExecute(x, whole) ==
  LET y == [x EXCEPT !.step = "Confirm"]
  IN  {Outcome(Simple(k), y) : k \in {"Err"} \cup IF whole THEN {"ParallelUnchecked"} ELSE {}}

(* Mutant of IterativeHolderAdvance: an error counts as confirmed.         *)
IterativeHolderAdvanceTrusting(x, whole, confirmed) ==
  CASE x.step = "Transmit" ->
         ThenExecute(TransmitAdvance(x), LAMBDA y : IterativeHolderExecute(y, whole))
    [] x.step = "Execute" -> IterativeHolderExecute(x, whole)
    [] x.step = "Confirm" -> {Outcome(Simple("Confirmed"), [x EXCEPT !.step = "End"])}
    [] OTHER -> {Outcome(Simple("End"), x)}

(* An error of confirm_tx_iterative counts as not confirmed here.          *)
IterativeHolderAdvance(x, whole, confirmed) ==
  CASE x.step = "Transmit" ->
         ThenExecute(TransmitAdvance(x), LAMBDA y : IterativeHolderExecute(y, whole))
    [] x.step = "Execute" -> IterativeHolderExecute(x, whole)
    [] x.step = "Confirm" ->
         {Outcome(Simple(k), [x EXCEPT !.step = "End"]) :
            k \in {"NotConfirmed"} \cup IF confirmed THEN {"Confirmed"} ELSE {}}
    [] OTHER -> {Outcome(Simple("End"), x)}

IterableAdvance(x, whole, confirmed) ==
  CASE x.shape = "atomic" -> AtomicAdvance(x)
    [] x.shape = "atomic_svm" -> AtomicSvmAdvance(x)
    [] x.shape = "cross_rollup" -> CrossRollupAdvance(x)
    [] x.shape = "cross_chain" -> CrossChainAdvance(x)
    [] x.shape = "iterative" -> IterativeAdvance(x, confirmed)
    [] x.shape = "atomic_holder" -> AtomicHolderAdvance(x, whole)
    [] x.shape = "iterative_holder" -> IterativeHolderAdvance(x, whole, confirmed)

(* advance_with_version: the executing transactions use the lookup table.  *)
AdvanceWithVersion(x, whole, confirmed) ==
  {IF o.step.kind \in {"Single", "ParallelUnchecked"}
     THEN Outcome([o.step EXCEPT !.ver = "V0"], o.tx) ELSE o :
     o \in IterableAdvance(x, whole, confirmed)}

(* The end of the first step of the two compositions: alt_account_ expects *)
(* that the table has been read.                                           *)
EnterExecute(x, whole, confirmed) ==
  IF x.alt_raw_account
    THEN {Outcome(Simple("Err"), x)}
           \cup AdvanceWithVersion([x EXCEPT !.outer = "Execute"], whole, confirmed)
    ELSE {Outcome(Simple("Panic"), x)}

AltComposedAdvance(x, tableFound, whole, confirmed) ==
  ThenExecute(AltAdvance(x, tableFound), LAMBDA y : EnterExecute(y, whole, confirmed))

(* join_parallel: what is left of the steps of AltTx and TransmitTx.  A    *)
(* wait for the next slot is lost when there is something to transmit.     *)
join_parallel(alt, transmit) ==
  IF transmit.kind # "Parallel" THEN alt
  ELSE IF alt.kind = "Parallel" THEN [transmit EXCEPT !.alt = TRUE] ELSE transmit

(* AltTx advances first; when TransmitTx fails after it, its step is lost. *)
AltComposedHolderAdvance(x, tableFound, whole, confirmed) ==
  LET failed(o) == o.step.kind \in {"Err", "Panic"}
      alts == AltAdvance(x, tableFound)
      joined == UNION {{IF failed(b) THEN b
                          ELSE Outcome(join_parallel(a.step, b.step), b.tx) :
                          b \in TransmitAdvance(a.tx)} : a \in {o \in alts : ~failed(o)}}
  IN  {a \in alts : failed(a)}
        \cup ThenExecute(joined, LAMBDA y : EnterExecute(y, whole, confirmed))

Advance(x, tableFound, whole, confirmed) ==
  CASE x.outer = "Plain" -> IterableAdvance(x, whole, confirmed)
    [] x.outer = "Execute" -> AdvanceWithVersion(x, whole, confirmed)
    [] OTHER ->
         IF x.shape \in HolderShapes
           THEN AltComposedHolderAdvance(x, tableFound, whole, confirmed)
           ELSE AltComposedAdvance(x, tableFound, whole, confirmed)

(* The transactions as their constructors leave them.  A holder            *)
(* transaction under a lookup table leaves the transmission to             *)
(* AltComposedHolder.                                                      *)
NewTx(shape, useAlt, chunks, iterations) ==
  [shape |-> shape, outer |-> IF useAlt THEN "Alt" ELSE "Plain",
   step |-> IF shape \in HolderShapes /\ ~useAlt THEN "Transmit" ELSE "Execute",
   transmit |-> "Init", batches |-> <<>>,
   alt_step |-> "Execute", keys |-> useAlt, alt_raw_account |-> FALSE,
   chunks |-> chunks, iterations |-> iterations]
=============================================================================
