------------------------------- MODULE RomeTx -------------------------------
(***************************************************************************)
(* Tasks that compose rollup transactions (Rome and TxBuilder) with        *)
(* resources locked from the factories of their rollups, and hand them to  *)
(* SolanaTower.                                                            *)
(*                                                                         *)
(* A resource is a payer with a holder index.  Every rollup has a factory  *)
(* of its own over the same list of payers.  On Solana a resource stands   *)
(* for two accounts of each rollup, the holder with the chunks transmitted *)
(* to it and its address lookup table.  What the programs on Solana do     *)
(* with them is external: it is modelled from the order of instructions    *)
(* the code relies on.                                                     *)
(*                                                                         *)
(* The Solana transactions of a step land one by one, in any order.  The   *)
(* tower answers Ok for one that has landed; it may give up with an error  *)
(* at any time, and those that have not landed then are lost, except for   *)
(* at most MaxLate that land later, whoever has the resource by then.      *)
(*                                                                         *)
(* A slot is abstracted to what WaitNextSlot compares: the part of a table *)
(* that was added in the current slot.  A task submits one transaction;    *)
(* the caller may call send_and_confirm with the same transaction again    *)
(* after an error, at most MaxCalls times in all.                          *)
(***************************************************************************)
EXTENDS AdvanceTx, FiniteSets

CONSTANTS
  Tasks,
  ChainIds,    \* the chain ids of transactions
  Rollups,     \* those a TxBuilder is configured for
  NumItems,    \* resources of the payer list
  Jobs,        \* the transactions to compose, see JobType
  TableParts,  \* transactions that fill a lookup table (ALT_CHUNK_SIZE keys each)
  MaxLate,     \* bound on the transactions in flight after an error
  MaxCalls     \* bound on the calls of send_and_confirm per transaction

JobType == [api : {"rollup", "svm", "cross_rollup", "cross_chain"},
            chains : Seq(ChainIds),
            is_atomic : BOOLEAN, use_alt : BOOLEAN, use_holder : BOOLEAN,
            chunks : 0 .. MaxChunks, iterations : 1 .. MaxIterations]

ASSUME RomeTxAssumption ==
  /\ Rollups \subseteq ChainIds
  /\ NumItems \in Nat /\ MaxCalls \in Nat \ {0}
  /\ TableParts \in Nat \ {0} /\ MaxLate \in Nat
  /\ \A j \in Jobs : j \in JobType /\ Len(j.chains) > 0
                       /\ (j.api \in {"rollup", "svm"} => Len(j.chains) = 1)

Items == 0 .. (NumItems - 1)
Resources == Rollups \X Items
NoResource == <<>>
NoTask == "none"

VARIABLES
  factory,     \* ResourceFactory of each rollup: the stack of its free items
  pc, job,
  resource,    \* the resource a task keeps: the Arc of its transaction
  current,     \* current_resource of the composition of cross transactions
  next,        \* index of the next transaction of a cross transaction
  tx,          \* the AdvanceTx, and the step of it the tower executes
  step,
  sigs,        \* number of signatures collected in this call
  unchecked,   \* number of Ok results of the last ParallelUnchecked
  calls, result,
  read,        \* alt_raw_account: the lookup table as it was read
  wire,        \* transactions of the step of a task that have not landed
  late,        \* those of earlier steps that still land
  holder,      \* Solana: holder[r] = [hash, chunks] of the account of resource r
  table,       \* Solana: the lookup table of r
  iterated,    \* Solana: number of iterations of a task's rollup transaction
  executed,    \* Solana: tasks whose rollup transaction is executed
  disturbed    \* history: accounts of a task a late transaction has changed

composeVars == <<job, resource, current, next>>
towerVars == <<tx, step, sigs, unchecked, calls, result, read>>
netVars == <<wire, late>>
solanaVars == <<holder, table, iterated, executed, disturbed>>
vars == <<factory, pc, composeVars, towerVars, netVars, solanaVars>>

(* A lookup table: the task that allocated it (its session), the parts of  *)
(* its keys, and those added in the current slot.                          *)
Parts == 1 .. TableParts
Tables == [owner : Tasks \cup {NoTask}, parts : SUBSET Parts, new : SUBSET Parts]
NoTable == [owner |-> NoTask, parts |-> {}, new |-> {}]

(* A Solana transaction, of the n-th chunk, part or iteration.             *)
Transactions ==
  [task : Tasks, res : Resources \cup {NoResource},
   kind : {"transmit", "dealloc", "alloc", "execute", "iterate"}, n : Nat]

NoJob == [api |-> "none"]
NoTx == [shape |-> "none"]
NoStep == [kind |-> "none"]

PCs == {"idle", "lock", "build", "return", "unwind", "advance", "sending", "returned", "done"}

TypeOK ==
  /\ factory \in [Rollups -> Seq(Items)]
  /\ pc \in [Tasks -> PCs]
  /\ job \in [Tasks -> Jobs \cup {NoJob}]
  /\ resource \in [Tasks -> Resources \cup {NoResource}]
  /\ current \in [Tasks -> Resources \cup {NoResource}]
  /\ next \in [Tasks -> Nat]
  /\ tx \in [Tasks -> Txs \cup {NoTx}]
  /\ step \in [Tasks -> Steps \cup {NoStep}]
  /\ sigs \in [Tasks -> Nat] /\ unchecked \in [Tasks -> Nat]
  /\ calls \in [Tasks -> 0 .. MaxCalls]
  /\ result \in [Tasks -> {"none", "ok", "err", "panic"}]
  /\ read \in [Tasks -> Tables]
  /\ wire \in [Tasks -> SUBSET Transactions] /\ late \subseteq Transactions
  /\ holder \in [Resources -> [hash : Tasks \cup {NoTask}, chunks : SUBSET Chunks]]
  /\ table \in [Resources -> Tables]
  /\ iterated \in [Tasks -> Nat]
  /\ executed \subseteq Tasks
  /\ disturbed \subseteq Tasks \X {"holder", "table"}

(* from_payers: the items in reverse, so that the first one is popped      *)
(* first.                                                                  *)
FromPayers == [k \in 1 .. NumItems |-> NumItems - k]

Init ==
  /\ factory = [c \in Rollups |-> FromPayers]
  /\ pc = [t \in Tasks |-> "idle"]
  /\ job = [t \in Tasks |-> NoJob]
  /\ resource = [t \in Tasks |-> NoResource]
  /\ current = [t \in Tasks |-> NoResource]
  /\ next = [t \in Tasks |-> 1]
  /\ tx = [t \in Tasks |-> NoTx]
  /\ step = [t \in Tasks |-> NoStep]
  /\ sigs = [t \in Tasks |-> 0]
  /\ unchecked = [t \in Tasks |-> 0]
  /\ calls = [t \in Tasks |-> 0]
  /\ result = [t \in Tasks |-> "none"]
  /\ read = [t \in Tasks |-> NoTable]
  /\ wire = [t \in Tasks |-> {}] /\ late = {}
  /\ holder = [r \in Resources |-> [hash |-> NoTask, chunks |-> {}]]
  /\ table = [r \in Resources |-> NoTable]
  /\ iterated = [t \in Tasks |-> 0]
  /\ executed = {} /\ disturbed = {}

Goto(t, label) == pc' = [pc EXCEPT ![t] = label]

-----------------------------------------------------------------------------
(* ResourceFactory.                                                        *)

(* Mutant of Get: the item stays in the stack.                             *)
GetPeek(c, r) ==
  /\ factory[c] # <<>>
  /\ r = <<c, factory[c][Len(factory[c])]>>
  /\ UNCHANGED factory

(* The pop of get, under the mutex.  While the stack is empty get yields   *)
(* and tries again.                                                        *)
Get(c, r) ==
  /\ factory[c] # <<>>
  /\ r = <<c, factory[c][Len(factory[c])]>>
  /\ factory' = [factory EXCEPT ![c] = SubSeq(@, 1, Len(@) - 1)]

(* Drop for Resource.                                                      *)
GiveBack(r) == factory' = [factory EXCEPT ![r[1]] = Append(@, r[2])]

-----------------------------------------------------------------------------
(* Composition.                                                            *)

Start(t, j) ==
  /\ pc[t] = "idle"
  /\ job' = [job EXCEPT ![t] = j]
  /\ Goto(t, "lock")
  /\ UNCHANGED <<factory, resource, current, next, towerVars, netVars, solanaVars>>

(* lock_resource of the rollup of the next transaction.  The first one is  *)
(* kept to the end of the composition.                                     *)
LockResource(t) ==
  /\ pc[t] = "lock" /\ job[t].chains[next[t]] \in Rollups
  /\ \E r \in Resources :
       /\ Get(job[t].chains[next[t]], r)
       /\ IF resource[t] = NoResource
            THEN resource' = [resource EXCEPT ![t] = r] /\ UNCHANGED current
            ELSE current' = [current EXCEPT ![t] = r] /\ UNCHANGED resource
  /\ Goto(t, "build")
  /\ UNCHANGED <<job, next, towerVars, netVars, solanaVars>>

(* get_transaction_builder_for_tx: there is no builder for the chain id.   *)
NoBuilder(t) ==
  /\ pc[t] = "lock" /\ job[t].chains[next[t]] \notin Rollups
  /\ result' = [result EXCEPT ![t] = "err"]
  /\ Goto(t, IF resource[t] = NoResource THEN "done" ELSE "unwind")
  /\ UNCHANGED <<factory, composeVars, tx, step, sigs, unchecked, calls, read, netVars, solanaVars>>

(* compose_iterable: the type of the transaction follows from the          *)
(* emulation (is_atomic) and from the size of the transaction.             *)
compose_iterable(j) ==
  NewTx(IF j.is_atomic THEN (IF j.use_holder THEN "atomic_holder" ELSE "atomic")
                       ELSE (IF j.use_holder THEN "iterative_holder" ELSE "iterative"),
        j.use_alt, j.chunks, j.iterations)

Composed(t, x) ==
  /\ tx' = [tx EXCEPT ![t] = x]
  /\ calls' = [calls EXCEPT ![t] = 1]
  /\ UNCHANGED <<step, sigs, unchecked, result, read>>

(* build_tx; the resource goes into the transaction.                       *)
BuildTx(t) ==
  /\ pc[t] = "build" /\ job[t].api = "rollup"
  /\ Composed(t, compose_iterable(job[t]))
  /\ Goto(t, "advance")
  /\ UNCHANGED <<factory, composeVars, netVars, solanaVars>>

(* build_svm_tx.  The errors it makes of a transaction that is not atomic  *)
(* or needs a holder are not returned.                                     *)
BuildSvmTx(t) ==
  /\ pc[t] = "build" /\ job[t].api = "svm"
  /\ Composed(t, NewTx("atomic_svm", FALSE, job[t].chunks, job[t].iterations))
  /\ Goto(t, "advance")
  /\ UNCHANGED <<factory, composeVars, netVars, solanaVars>>

(* Mutant of DropCurrent: the resource of the iteration is leaked.         *)
LeakCurrent(t) ==
  /\ UNCHANGED factory
  /\ current' = [current EXCEPT ![t] = NoResource]

(* The end of the scope of current_resource: it is dropped unless it is    *)
(* the first one, which has moved to resource.                             *)
DropCurrent(t) ==
  /\ IF current[t] = NoResource THEN UNCHANGED factory ELSE GiveBack(current[t])
  /\ current' = [current EXCEPT ![t] = NoResource]

NextTransaction(t) ==
  IF next[t] < Len(job[t].chains)
    THEN next' = [next EXCEPT ![t] = @ + 1] /\ Goto(t, "lock")
    ELSE Goto(t, "return") /\ UNCHANGED next

(* One iteration of compose_cross_rollup_tx: the transaction is emulated   *)
(* with the first resource.                                                *)
ComposeCrossRollup(t) ==
  /\ pc[t] = "build" /\ job[t].api = "cross_rollup" /\ job[t].is_atomic
  /\ DropCurrent(t)
  /\ NextTransaction(t)
  /\ UNCHANGED <<job, resource, towerVars, netVars, solanaVars>>

(* The same for the rollup transactions of compose_cross_chain_tx.         *)
ComposeCrossChain(t) ==
  /\ pc[t] = "build" /\ job[t].api = "cross_chain" /\ job[t].is_atomic
  /\ DropCurrent(t)
  /\ NextTransaction(t)
  /\ UNCHANGED <<job, resource, towerVars, netVars, solanaVars>>

(* The transaction of a cross composition takes the payer; the resource is *)
(* dropped on return.                                                      *)
ReturnCross(t) ==
  /\ pc[t] = "return"
  /\ GiveBack(resource[t])
  /\ resource' = [resource EXCEPT ![t] = NoResource]
  /\ Composed(t, NewTx(job[t].api, FALSE, job[t].chunks, job[t].iterations))
  /\ Goto(t, "advance")
  /\ UNCHANGED <<job, current, next, netVars, solanaVars>>

(* An emulation fails, or a transaction of a cross composition is not      *)
(* atomic.                                                                 *)
ComposeFails(t) ==
  /\ pc[t] = "build"
  /\ result' = [result EXCEPT ![t] = "err"]
  /\ Goto(t, "unwind")
  /\ UNCHANGED <<factory, composeVars, tx, step, sigs, unchecked, calls, read, netVars, solanaVars>>

(* The locals are dropped, the last one first.                             *)
Unwind(t) ==
  /\ pc[t] = "unwind"
  /\ IF current[t] # NoResource
       THEN /\ GiveBack(current[t])
            /\ current' = [current EXCEPT ![t] = NoResource]
            /\ UNCHANGED <<resource, pc>>
       ELSE /\ GiveBack(resource[t])
            /\ resource' = [resource EXCEPT ![t] = NoResource]
            /\ Goto(t, "done")
            /\ UNCHANGED current
  /\ UNCHANGED <<job, next, towerVars, netVars, solanaVars>>

-----------------------------------------------------------------------------
(* SolanaTower::send_and_confirm_tx_iterable, and the call of it in        *)
(* Rome::send_and_confirm, which takes the last signature.                 *)

(* The holder of the transaction holds all of its chunks.                  *)
Whole(t) ==
  tx[t].shape \in HolderShapes =>
    holder[resource[t]] = [hash |-> t, chunks |-> 1 .. tx[t].chunks]

(* get_alt looks the table up by holder and chain id: it finds whatever    *)
(* table there is, of an earlier transaction or half filled too.           *)
TableFound(t) == tx[t].outer # "Plain" => table[resource[t]].owner # NoTask

Return(t, res) ==
  /\ result' = [result EXCEPT ![t] = res]
  /\ Goto(t, "returned")

(* The iterations sent: the estimate and a fifth of it.                    *)
IterationsSent(n) == (n * 12) \div 10

(* The Solana transactions of a step.                                      *)
Sends(t, s) ==
  LET send(kind, n) == [task |-> t, res |-> resource[t], kind |-> kind, n |-> n]
  IN  CASE s.kind = "Parallel" ->
             {send("transmit", n) : n \in s.chunks}
               \cup IF s.alt THEN {send("dealloc", 0)} \cup {send("alloc", n) : n \in Parts} ELSE {}
        [] s.kind = "ParallelUnchecked" ->
             {send("iterate", n) : n \in 1 .. IterationsSent(job[t].iterations)}
        [] s.kind \in {"Single", "SingleWithSigners"} -> {send("execute", 0)}
        [] OTHER -> {}

(* tx.advance(), and the steps of the tower that need no await.            *)
AdvanceStep(t) ==
  /\ pc[t] = "advance"
  /\ \E o \in Advance(tx[t], TableFound(t), Whole(t), t \in executed) :
       /\ tx' = [tx EXCEPT ![t] = o.tx]
       /\ read' = IF o.tx.alt_raw_account /\ ~tx[t].alt_raw_account
                  THEN [read EXCEPT ![t] = table[resource[t]]] ELSE read
       /\ CASE o.step.kind \in {"Err", "NotConfirmed"} -> Return(t, "err") /\ UNCHANGED <<step, sigs, wire>>
            [] o.step.kind = "Panic" -> Return(t, "panic") /\ UNCHANGED <<step, sigs, wire>>
            [] o.step.kind = "End" ->
                 /\ Return(t, IF sigs[t] = 0 THEN "panic" ELSE "ok")
                 /\ UNCHANGED <<step, sigs, wire>>
            [] o.step.kind = "Confirmed" ->
                 /\ sigs' = [sigs EXCEPT ![t] = @ + unchecked[t]]
                 /\ UNCHANGED <<pc, result, step, wire>>
            [] OTHER ->
                 /\ step' = [step EXCEPT ![t] = o.step]
                 /\ wire' = [wire EXCEPT ![t] = Sends(t, o.step)]
                 /\ Goto(t, "sending")
                 /\ UNCHANGED <<sigs, result>>
  /\ UNCHANGED <<factory, composeVars, unchecked, calls, late, solanaVars>>

-----------------------------------------------------------------------------
(* Solana.                                                                 *)

(* An executing transaction succeeds when its holder is whole and the      *)
(* table it was compiled with is there as it was read, and usable in this  *)
(* slot.  A composite that is not atomic, or does not fit, fails.          *)
Executable(t, r) ==
  /\ job[t].api = "rollup" /\ job[t].use_holder =>
       holder[r] = [hash |-> t, chunks |-> 1 .. job[t].chunks]
  /\ job[t].api = "rollup" /\ job[t].use_alt =>
       read[t].owner = table[r].owner /\ read[t].parts \subseteq table[r].parts \ table[r].new
  /\ job[t].api = "svm" => job[t].is_atomic /\ ~job[t].use_holder

(* A chunk of another transaction starts the holder anew.                  *)
Received(h, t, n) == [hash |-> t, chunks |-> {n} \cup IF h.hash = t THEN h.chunks ELSE {}]

(* A part of another session starts the table anew, and only the tables of *)
(* other sessions are freed: dealloc and alloc are sent in parallel.       *)
Extended(a, t, n) ==
  LET old == IF a.owner = t THEN a ELSE NoTable
  IN  [owner |-> t, parts |-> old.parts \cup {n}, new |-> old.new \cup {n}]

Freed(a, t) == IF a.owner = t THEN a ELSE NoTable

(* The transaction x lands.                                                *)
Effect(x) ==
  \/ /\ x.kind = "transmit"
     /\ holder' = [holder EXCEPT ![x.res] = Received(@, x.task, x.n)]
     /\ UNCHANGED <<table, iterated, executed>>
  \/ /\ x.kind = "alloc"
     /\ table' = [table EXCEPT ![x.res] = Extended(@, x.task, x.n)]
     /\ UNCHANGED <<holder, iterated, executed>>
  \/ /\ x.kind = "dealloc"
     /\ table' = [table EXCEPT ![x.res] = Freed(@, x.task)]
     /\ UNCHANGED <<holder, iterated, executed>>
  \/ /\ x.kind = "execute" /\ Executable(x.task, x.res)
     /\ executed' = executed \cup {x.task}
     /\ UNCHANGED <<holder, table, iterated>>
  \/ /\ x.kind = "iterate" /\ Executable(x.task, x.res)
     /\ iterated' = [iterated EXCEPT ![x.task] = @ + 1]
     /\ executed' = IF iterated[x.task] + 1 >= job[x.task].iterations
                    THEN executed \cup {x.task} ELSE executed
     /\ UNCHANGED <<holder, table>>

Lands(t, x) ==
  /\ Effect(x)
  /\ wire' = [wire EXCEPT ![t] = @ \ {x}]
  /\ UNCHANGED <<factory, pc, composeVars, towerVars, late, disturbed>>

(* The account of a resource a transaction changes.                        *)
Account(x) == CASE x.kind = "transmit" -> {"holder"}
                [] x.kind \in {"dealloc", "alloc"} -> {"table"}
                [] OTHER -> {}

(* A transaction whose task was told of an error lands after all; another  *)
(* task may have the resource now.                                         *)
LandsLate(x) ==
  /\ Effect(x)
  /\ late' = late \ {x}
  /\ disturbed' = disturbed \cup {u \in Tasks \ {x.task} : resource[u] = x.res} \X Account(x)
  /\ UNCHANGED <<factory, pc, composeVars, towerVars, wire>>

NextSlot ==
  /\ (\E r \in Resources : table[r].new # {}) \/ (\E t \in Tasks : read[t].new # {})
  /\ table' = [r \in Resources |-> [table[r] EXCEPT !.new = {}]]
  /\ read' = [t \in Tasks |-> [read[t] EXCEPT !.new = {}]]
  /\ UNCHANGED <<factory, pc, composeVars, tx, step, sigs, unchecked, calls, result, netVars,
                 holder, iterated, executed, disturbed>>

-----------------------------------------------------------------------------
(* The answers of the tower to a step.                                     *)

Sent(t, n) ==
  /\ sigs' = [sigs EXCEPT ![t] = @ + n]
  /\ step' = [step EXCEPT ![t] = NoStep]
  /\ Goto(t, "advance")
  /\ UNCHANGED result

(* What has not landed is lost, or in flight.                              *)
LeavesBehind(t) ==
  /\ wire' = [wire EXCEPT ![t] = {}]
  /\ \E flying \in SUBSET wire[t] :
       /\ late' = late \cup flying
       /\ flying = {} \/ Cardinality(late \cup flying) <= MaxLate

SendFails(t) ==
  /\ step' = [step EXCEPT ![t] = NoStep]
  /\ Return(t, "err")
  /\ LeavesBehind(t)
  /\ UNCHANGED sigs

(* The answer is Ok only when everything has landed.                       *)
Answered(t, n) ==
  \/ wire[t] = {} /\ Sent(t, n) /\ UNCHANGED netVars
  \/ SendFails(t)

SendSingle(t) ==
  /\ pc[t] = "sending" /\ step[t].kind = "Single"
  /\ Answered(t, 1)
  /\ UNCHANGED <<factory, composeVars, tx, unchecked, calls, read, solanaVars>>

SendWithSigners(t) ==
  /\ pc[t] = "sending" /\ step[t].kind = "SingleWithSigners"
  /\ Answered(t, 1)
  /\ UNCHANGED <<factory, composeVars, tx, unchecked, calls, read, solanaVars>>

(* send_and_confirm_parallel: all of them, or an error with some landed.   *)
SendParallel(t) ==
  /\ pc[t] = "sending" /\ step[t].kind = "Parallel"
  /\ Answered(t, Cardinality(Sends(t, step[t])))
  /\ UNCHANGED <<factory, composeVars, tx, unchecked, calls, read, solanaVars>>

(* send_and_confirm_parallel_unchecked: any number of the iterations that  *)
(* have landed answer Ok.                                                  *)
SendUnchecked(t) ==
  /\ pc[t] = "sending" /\ step[t].kind = "ParallelUnchecked"
  /\ \E ok \in 0 .. Cardinality(Sends(t, step[t]) \ wire[t]) : unchecked' = [unchecked EXCEPT ![t] = ok]
  /\ Sent(t, 0) /\ LeavesBehind(t)
  /\ UNCHANGED <<factory, composeVars, tx, calls, read, solanaVars>>

(* Mutant of WaitNextSlot: the slot itself is enough.                      *)
WaitThisSlot(t) ==
  /\ pc[t] = "sending" /\ step[t].kind = "WaitNextSlot"
  /\ Answered(t, 0)
  /\ UNCHANGED <<factory, composeVars, tx, unchecked, calls, read, solanaVars>>

(* The loop of WaitNextSlot ends when the slot of the last extension, as   *)
(* it was read, has passed, or get_slot fails.                             *)
WaitNextSlot(t) ==
  /\ pc[t] = "sending" /\ step[t].kind = "WaitNextSlot"
  /\ \/ read[t].new = {} /\ Sent(t, 0) /\ UNCHANGED netVars
     \/ SendFails(t)
  /\ UNCHANGED <<factory, composeVars, tx, unchecked, calls, read, solanaVars>>

(* The caller tries the same transaction again: the machine goes on where  *)
(* it stopped, with an empty list of signatures.                           *)
Resubmit(t) ==
  /\ pc[t] = "returned" /\ result[t] = "err" /\ calls[t] < MaxCalls
  /\ calls' = [calls EXCEPT ![t] = @ + 1]
  /\ sigs' = [sigs EXCEPT ![t] = 0]
  /\ unchecked' = [unchecked EXCEPT ![t] = 0]
  /\ result' = [result EXCEPT ![t] = "none"]
  /\ Goto(t, "advance")
  /\ UNCHANGED <<factory, composeVars, tx, step, read, netVars, solanaVars>>

(* The caller drops the transaction, and with it the resource.             *)
DropTx(t) ==
  /\ pc[t] = "returned"
  /\ IF resource[t] = NoResource THEN UNCHANGED factory ELSE GiveBack(resource[t])
  /\ resource' = [resource EXCEPT ![t] = NoResource]
  /\ tx' = [tx EXCEPT ![t] = NoTx]
  /\ Goto(t, "done")
  /\ UNCHANGED <<job, current, next, step, sigs, unchecked, calls, result, read, netVars, solanaVars>>

Send(t) ==
  \/ SendSingle(t) \/ SendWithSigners(t) \/ SendParallel(t) \/ SendUnchecked(t)
  \/ WaitNextSlot(t)

Compose(t) ==
  \/ LockResource(t) \/ NoBuilder(t) \/ BuildTx(t) \/ BuildSvmTx(t)
  \/ ComposeCrossRollup(t) \/ ComposeCrossChain(t) \/ ReturnCross(t) \/ ComposeFails(t) \/ Unwind(t)

Next ==
  \/ \E t \in Tasks : \/ \E j \in Jobs : Start(t, j)
                      \/ Compose(t) \/ AdvanceStep(t) \/ Send(t) \/ Resubmit(t) \/ DropTx(t)
                      \/ \E x \in wire[t] : Lands(t, x)
  \/ \E x \in late : LandsLate(x)
  \/ NextSlot

Spec == Init /\ [][Next]_vars

(* A task is polled until it is done; its caller drops the transaction in  *)
(* the end; slots go on.                                                   *)
FairSpec ==
  /\ Spec
  /\ \A t \in Tasks : WF_vars(Compose(t) \/ AdvanceStep(t) \/ Send(t) \/ DropTx(t))
  /\ WF_vars(NextSlot)

-----------------------------------------------------------------------------

(* send_and_confirm returns a signature only for a rollup transaction that *)
(* is executed: no Ok for chunks or a table alone, and none after a retry  *)
(* of a transaction that lost a step.                                      *)
OkMeansExecuted == \A t \in Tasks : result[t] = "ok" => t \in executed

(* The unwrap of Rome::send_and_confirm.  In the first call it panics only *)
(* when the transaction is executed although none of its iterations was    *)
(* reported as confirmed.                                                  *)
PanicMeansExecuted ==
  \A t \in Tasks : result[t] = "panic" /\ calls[t] = 1 => t \in executed

(* While an instruction that executes from the holder is under way, the    *)
(* holder holds this transaction, whole, whatever was lost and sent again  *)
(* before; only a late chunk of the resource's previous task, which was    *)
(* told of an error and has given it back, can start it anew.              *)
HolderWholeWhenExecuted ==
  \A t \in Tasks :
    pc[t] = "sending" /\ step[t].kind \in {"Single", "ParallelUnchecked"}
      /\ <<t, "holder">> \notin disturbed => Whole(t)

(* In the first call a lookup table is used by the transaction it was      *)
(* allocated for, whole and as it was read, and in a later slot than its   *)
(* last extension, unless a second batch was transmitted at the same time. *)
(* After an error the machine goes on with whatever table get_alt finds,   *)
(* and a late transaction of the resource's previous task can change or    *)
(* free the table at any time.                                             *)
TableReadyWhenUsed ==
  \A t \in Tasks :
    pc[t] = "sending" /\ step[t].ver = "V0" /\ calls[t] = 1 /\ <<t, "table">> \notin disturbed =>
      /\ table[resource[t]].owner = t /\ table[resource[t]].parts = Parts
      /\ read[t].owner = t /\ read[t].parts = Parts
      /\ (tx[t].shape \in HolderShapes => tx[t].chunks <= BatchLimit) => table[resource[t]].new = {}

(* Every use of a lookup table waits for the slot after its extension, as  *)
(* the step WaitNextSlot is described.                                     *)
TableWaitsForNextSlot ==
  \A t \in Tasks :
    pc[t] = "sending" /\ step[t].ver = "V0" /\ calls[t] = 1 /\ <<t, "table">> \notin disturbed =>
      table[resource[t]].new = {}

(* The factories implement the pool: no payer and holder of a rollup is in *)
(* two hands.  A task has two hands while it composes.                     *)
Hands == Tasks \X {"resource", "current"}
owner == [h \in Hands |-> IF h[2] = "resource" THEN resource[h[1]] ELSE current[h[1]]]
Pool == INSTANCE IndexPool
          WITH Tasks <- Hands, Indices <- Resources, NoIndex <- NoResource, owner <- owner
ImplementsPool == Pool!Spec

(* A task that composes a transaction is done in the end: with more        *)
(* resources than tasks, the cross compositions that keep one resource and *)
(* wait for another do not wait for each other for ever, and no resource   *)
(* is lost on an error path.                                               *)
EveryTaskEnds == \A t \in Tasks : pc[t] = "lock" ~> pc[t] = "done"
=============================================================================
