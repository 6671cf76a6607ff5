------------------------- MODULE RollupIndexerProofs -------------------------
(***************************************************************************)
(* Proofs about the rollup indexer for every number of slots, Ethereum     *)
(* blocks per slot, batch size and number of faults, reorgs and queued     *)
(* events: its types, and what becomes of the blocks of a changed slot;    *)
(* without reorgs, that no slot is passed over; without a fault between    *)
(* the two transactions of blocks_produced, that receipts are stored; when *)
(* only one chain is possible, that it is the one produced and registered. *)
(***************************************************************************)
EXTENDS RollupIndexer, NatLemmas

-----------------------------------------------------------------------------
(* The operators of the storage.                                           *)

(* A function on 1 .. n is a sequence of length n.                         *)
LEMMA FunctionIsSeq ==
  ASSUME NEW S, NEW n \in Nat, NEW f \in [1 .. n -> S]
  PROVE  f \in Seq(S) /\ Len(f) = n /\ DOMAIN f = 1 .. n
  OBVIOUS

(* A non-empty set of block ids has a first and a last one.                *)
LEMMA IdExtremes ==
  ASSUME NEW ids, ids \subseteq IdSet, ids # {}
  PROVE  /\ FirstId(ids) \in ids /\ \A b \in ids : FirstId(ids) = b \/ Before(FirstId(ids), b)
         /\ LastId(ids) \in ids /\ \A b \in ids : LastId(ids) = b \/ Before(b, LastId(ids))
<1> DEFINE code(a) == 2 * a[1] + a[2]
           Codes == {code(a) : a \in ids}
<1>0. MaxSlot \in Nat
  BY StorageAssumption
<1>1. ASSUME NEW a \in ids
      PROVE  /\ a[1] \in 1 .. MaxSlot /\ a[2] \in 1 .. 2 /\ a = <<a[1], a[2]>>
             /\ code(a) \in 0 .. (2 * MaxSlot + 2)
  BY <1>0 DEF IdSet, Slots
<1>2. ASSUME NEW a \in ids, NEW b \in ids
      PROVE  code(a) <= code(b) => a = b \/ Before(a, b)
  BY <1>1 DEF Before
<1>3. Codes \subseteq 0 .. (2 * MaxSlot + 2) /\ Codes \subseteq Nat /\ 2 * MaxSlot + 2 \in Nat
  BY <1>0, <1>1
<1>4. Codes # {}
  OBVIOUS
<1>5. \E a \in ids : \A b \in ids : code(a) <= code(b)
  <2>1. PICK c \in Codes : \A d \in Codes : c <= d
    <3> HIDE DEF Codes
    <3> QED
      BY <1>3, <1>4, LeastElement
  <2> QED
    BY <2>1
<1>6. \E a \in ids : \A b \in ids : code(b) <= code(a)
  <2>1. PICK c \in Codes : \A d \in Codes : d <= c
    <3> HIDE DEF Codes
    <3> QED
      BY <1>3, <1>4, GreatestElement
  <2> QED
    BY <2>1
<1> HIDE DEF code, Codes
<1>7. \E a \in ids : \A b \in ids : a = b \/ Before(a, b)
  BY <1>2, <1>5
<1>8. \E a \in ids : \A b \in ids : a = b \/ Before(b, a)
  BY <1>2, <1>6
<1>9. FirstId(ids) \in ids /\ \A b \in ids : FirstId(ids) = b \/ Before(FirstId(ids), b)
  BY <1>7, Zenon DEF FirstId
<1>10. LastId(ids) \in ids /\ \A b \in ids : LastId(ids) = b \/ Before(b, LastId(ids))
  BY <1>8, Zenon DEF LastId
<1> QED
  BY <1>9, <1>10

(* get_last_slot bounds the stored slots.                                  *)
LEMMA LastSlotBounds ==
  ASSUME NEW table
  PROVE  /\ LastSlot(table) \in 0 .. MaxSlot
         /\ LastSlot(table) # 0 => Stored(table, LastSlot(table))
         /\ \A s \in Slots : Stored(table, s) => s <= LastSlot(table)
<1> DEFINE Present == {s \in Slots : Stored(table, s)}
<1> USE StorageAssumption DEF Slots
<1>1. CASE Present = {}
  BY <1>1 DEF LastSlot
<1>2. CASE Present # {}
  <2>1. Present \subseteq 0 .. MaxSlot /\ MaxSlot \in Nat
    OBVIOUS
  <2>2. PICK s \in Present : \A t \in Present : t <= s
    <3> HIDE DEF Present
    <3> QED
      BY <1>2, <2>1, GreatestElement
  <2>3. \E x \in Slots : Stored(table, x) /\ \A t \in Slots : Stored(table, t) => t <= x
    BY <2>2
  <2> DEFINE last == CHOOSE x \in Slots : Stored(table, x) /\ \A t \in Slots : Stored(table, t) => t <= x
  <2>4. last \in Slots /\ Stored(table, last) /\ \A t \in Slots : Stored(table, t) => t <= last
    BY <2>3, Zenon
  <2>5. LastSlot(table) = last
    BY <1>2 DEF LastSlot
  <2> HIDE DEF last
  <2> QED
    BY <2>4, <2>5
<1> QED
  BY <1>1, <1>2

-----------------------------------------------------------------------------
(* The recursive queries.                                                  *)

Upward(Down, par, g) ==
  [t \in Slots |-> {t} \cup IF t \in Down THEN g[par[t]] ELSE {}]

(* A walk along the parents is well defined when parents are lower slots.  *)
LEMMA WalkExists ==
  ASSUME NEW Down, NEW par, \A t \in Slots : t \in Down => par[t] \in 1 .. (t - 1)
  PROVE  \E g : g = Upward(Down, par, g)
<1> DEFINE Solves(k, g) == g = [t \in 1 .. k |-> {t} \cup IF t \in Down THEN g[par[t]] ELSE {}]
           Done == {k \in 0 .. MaxSlot : \E g : Solves(k, g)}
<1>0. MaxSlot \in Nat
  BY StorageAssumption
<1>1. 0 \in Done
  <2> DEFINE z == [t \in 1 .. 0 |-> {}]
  <2>1. Solves(0, z)
    OBVIOUS
  <2>2. 0 \in 0 .. MaxSlot
    BY <1>0
  <2> HIDE DEF Solves
  <2> QED
    BY <2>1, <2>2
<1>2. ASSUME NEW k \in 1 .. MaxSlot, k - 1 \in Done PROVE k \in Done
  <2>1. PICK g : Solves(k - 1, g)
    BY <1>2
  <2> DEFINE e(t) == {t} \cup IF t \in Down THEN g[par[t]] ELSE {}
             h == [t \in 1 .. k |-> e(t)]
             f(t) == {t} \cup IF t \in Down THEN h[par[t]] ELSE {}
  <2>2. \A t \in 1 .. (k - 1) : g[t] = e(t)
    BY <2>1
  <2>3. ASSUME NEW t \in 1 .. k PROVE e(t) = f(t)
    <3>1. CASE t \in Down
      <4>1. par[t] \in 1 .. (t - 1)
        BY <1>0, <1>2, <3>1 DEF Slots
      <4>2. par[t] \in 1 .. (k - 1) /\ par[t] \in 1 .. k
        BY <1>0, <1>2, <4>1
      <4>3. g[par[t]] = e(par[t]) /\ h[par[t]] = e(par[t])
        BY <2>2, <4>2
      <4> QED
        BY <4>3
    <3>2. CASE t \notin Down
      BY <3>2
    <3> QED
      BY <3>1, <3>2
  <2> HIDE DEF e
  <2>4. h = [t \in 1 .. k |-> f(t)]
    <3> HIDE DEF f
    <3> QED
      BY <2>3
  <2>5. Solves(k, h)
    BY <2>4
  <2>6. k \in 0 .. MaxSlot
    BY <1>0, <1>2
  <2> HIDE DEF Solves, h
  <2> QED
    BY <2>5, <2>6
<1>3. MaxSlot \in Done
  <2> HIDE DEF Done
  <2>1. 0 .. MaxSlot \subseteq Done
    BY <1>0, <1>1, <1>2, IntervalInduction
  <2> QED
    BY <1>0, <2>1
<1> QED
  BY <1>3 DEF Upward, Slots

(* What a walk collects: stored slots at or below its start.               *)
LEMMA WalkBelow ==
  ASSUME NEW Down, NEW par, \A t \in Slots : t \in Down => par[t] \in 1 .. (t - 1),
         NEW Good, \A t \in Slots : t \in Down => par[t] \in Good,
         NEW g, g = Upward(Down, par, g),
         NEW s \in Slots, s \in Good
  PROVE  s \in g[s] /\ g[s] \subseteq {t \in Slots : t \in Good /\ t <= s}
<1> DEFINE Done == {k \in 0 .. MaxSlot :
                      \A u \in Slots : u <= k /\ u \in Good =>
                         g[u] \subseteq {t \in Slots : t \in Good /\ t <= u}}
<1>0. MaxSlot \in Nat /\ Slots = 1 .. MaxSlot
  BY StorageAssumption DEF Slots
<1>1. \A u \in Slots : g[u] = {u} \cup IF u \in Down THEN g[par[u]] ELSE {}
  BY DEF Upward
<1>2. 0 \in Done
  BY <1>0
<1>3. ASSUME NEW k \in 1 .. MaxSlot, k - 1 \in Done PROVE k \in Done
  <2> SUFFICES ASSUME NEW u \in Slots, u <= k, u \in Good
               PROVE  g[u] \subseteq {t \in Slots : t \in Good /\ t <= u}
    BY <1>0, <1>3
  <2>1. CASE u \in Down
    <3>1. par[u] \in 1 .. (u - 1) /\ par[u] \in Good /\ par[u] \in Slots /\ par[u] <= k - 1
      BY <1>0, <2>1
    <3>2. g[par[u]] \subseteq {t \in Slots : t \in Good /\ t <= par[u]}
      BY <1>3, <3>1
    <3>3. g[u] = {u} \cup g[par[u]]
      BY <1>1, <2>1
    <3> QED
      BY <1>0, <3>1, <3>2, <3>3
  <2>2. CASE u \notin Down
    BY <1>0, <1>1, <2>2
  <2> QED
    BY <2>1, <2>2
<1>4. MaxSlot \in Done
  <2> HIDE DEF Done
  <2>1. 0 .. MaxSlot \subseteq Done
    BY <1>0, <1>2, <1>3, IntervalInduction
  <2> QED
    BY <1>0, <2>1
<1> QED
  BY <1>0, <1>1, <1>4

(* Tables whose parents are lower slots.                                   *)
LowerParents(table) == \A t \in Slots : table[t].parent \in 0 .. (t - 1)

(* The fork that ends with a slot consists of stored slots.                *)
LEMMA BranchStored ==
  ASSUME NEW table, LowerParents(table), NEW s
  PROVE  Branch(table, s) \subseteq {t \in Slots : Stored(table, t) /\ t <= s}
<1> SUFFICES ASSUME Stored(table, s) PROVE Branch(table, s) \subseteq {t \in Slots : Stored(table, t) /\ t <= s}
  BY DEF Branch
<1> DEFINE up[t \in Slots] ==
             {t} \cup IF Stored(table, table[t].parent) THEN up[table[t].parent] ELSE {}
           Eq(g) == g = [t \in Slots |->
             {t} \cup IF Stored(table, table[t].parent) THEN g[table[t].parent] ELSE {}]
           Down == {t \in Slots : Stored(table, table[t].parent)}
           par == [t \in Slots |-> table[t].parent]
           Good == {t \in Slots : Stored(table, t)}
<1>1. \A t \in Slots : t \in Down => par[t] \in 1 .. (t - 1) /\ par[t] \in Good
  BY StorageAssumption DEF LowerParents, Stored, Slots
<1>2. \A g : Upward(Down, par, g) = [t \in Slots |->
             {t} \cup IF Stored(table, table[t].parent) THEN g[table[t].parent] ELSE {}]
  BY DEF Upward
<1>3. \E g : Eq(g)
  <2>1. PICK g : g = Upward(Down, par, g)
    <3> HIDE DEF Down, par, Good
    <3> QED
      BY <1>1, WalkExists
  <2>2. Eq(g)
    BY <1>2, <2>1
  <2> QED
    BY <2>2
<1>4. Eq(CHOOSE g : Eq(g))
  BY <1>3, Zenon
<1>5. Eq(up)
  BY <1>4, Zenon
<1>6. Branch(table, s) = up[s]
  BY DEF Branch
<1> HIDE DEF up
<1>7. up = Upward(Down, par, up)
  BY <1>2, <1>5
<1>8. s \in Slots /\ s \in Good
  BY DEF Stored
<1>9. up[s] \subseteq {t \in Slots : t \in Good /\ t <= s}
  <2> HIDE DEF Down, par, Good
  <2> QED
    BY <1>1, <1>7, <1>8, WalkBelow
<1> QED
  BY <1>6, <1>9

-----------------------------------------------------------------------------
(* The eth_block table.                                                    *)

EthRow == [ver : ContentVersions, hash : Seq(Contents), receipt : BOOLEAN]
EthTables == {e \in [Slots -> Seq(EthRow)] : \A s \in Slots : Len(e[s]) <= 2}

(* The rows of a slot.                                                     *)
LEMMA SlotRows ==
  ASSUME NEW e \in EthTables, NEW s \in Slots
  PROVE  /\ e[s] \in Seq(EthRow) /\ Len(e[s]) \in 0 .. 2 /\ DOMAIN e[s] = 1 .. Len(e[s])
         /\ \A i \in DOMAIN e[s] : e[s][i] \in EthRow
<1>1. e \in [Slots -> Seq(EthRow)] /\ Len(e[s]) <= 2
  BY DEF EthTables
<1> HIDE DEF EthTables
<1>2. e[s] \in Seq(EthRow)
  BY <1>1
<1>3. Len(e[s]) \in Nat /\ DOMAIN e[s] = 1 .. Len(e[s]) /\ \A i \in DOMAIN e[s] : e[s][i] \in EthRow
  BY <1>2
<1> QED
  BY <1>1, <1>2, <1>3

(* The ids of a table and the rows they name.                              *)
LEMMA IdsTyped ==
  ASSUME NEW e \in EthTables
  PROVE  /\ Ids(e) \subseteq IdSet
         /\ \A id \in Ids(e) : /\ id[1] \in Slots /\ id[2] \in DOMAIN e[id[1]] /\ id = <<id[1], id[2]>>
                               /\ e[id[1]] # << >> /\ Row(e, id) = e[id[1]][id[2]] /\ Row(e, id) \in EthRow
         /\ \A s \in Slots : \A i \in DOMAIN e[s] : <<s, i>> \in Ids(e) /\ Row(e, <<s, i>>) = e[s][i]
<1>1. \A s \in Slots : e[s] \in Seq(EthRow) /\ Len(e[s]) \in 0 .. 2 /\ DOMAIN e[s] = 1 .. Len(e[s])
  BY SlotRows
<1>2. ASSUME NEW id \in Ids(e)
      PROVE  /\ id \in IdSet /\ id[1] \in Slots /\ id[2] \in DOMAIN e[id[1]] /\ id = <<id[1], id[2]>>
             /\ e[id[1]] # << >> /\ Row(e, id) = e[id[1]][id[2]] /\ Row(e, id) \in EthRow
  <2>1. PICK s \in Slots : id \in {s} \X DOMAIN e[s]
    BY DEF Ids
  <2>2. id[1] = s /\ id[2] \in DOMAIN e[s] /\ id = <<id[1], id[2]>>
    BY <2>1
  <2>3. id[2] \in 1 .. 2 /\ e[s] # << >> /\ e[s][id[2]] \in EthRow
    BY <1>1, <2>2
  <2> QED
    BY <2>2, <2>3 DEF IdSet, Row
<1>3. ASSUME NEW s \in Slots, NEW i \in DOMAIN e[s]
      PROVE  <<s, i>> \in Ids(e) /\ Row(e, <<s, i>>) = e[s][i]
  BY DEF Ids, Row
<1> QED
  BY <1>2, <1>3

(* The highest produced number exists and is that of a produced block.     *)
LEMMA LatestBlockFacts ==
  ASSUME NEW e \in EthTables
  PROVE  /\ latest_block(e) \in Nat
         /\ \A id \in ProducedIds(e) : Len(Row(e, id).hash) <= latest_block(e)
         /\ latest_block(e) # 0 <=> ProducedIds(e) # {}
         /\ ProducedIds(e) # {} => \E id \in ProducedIds(e) : latest_block(e) = Len(Row(e, id).hash)
<1> DEFINE num(id) == Len(Row(e, id).hash)
           Nums == {num(id) : id \in ProducedIds(e)}
<1>1. ASSUME NEW id \in ProducedIds(e) PROVE num(id) \in Nat \ {0}
  <2>1. Row(e, id).hash \in Seq(Contents) /\ Row(e, id).hash # << >>
    BY IdsTyped DEF ProducedIds, IsProduced, Genesis, EthRow
  <2> QED
    BY <2>1
<1>2. MaxSlot \in Nat /\ Slots = 1 .. MaxSlot
  BY StorageAssumption DEF Slots
<1> DEFINE Done == {k \in 0 .. MaxSlot : \E b \in Nat : \A id \in ProducedIds(e) : id[1] <= k => num(id) <= b}
<1>3. ASSUME NEW id \in ProducedIds(e) PROVE id[1] \in 1 .. MaxSlot /\ id[2] \in 1 .. 2 /\ id = <<id[1], id[2]>>
  BY <1>2, IdsTyped DEF ProducedIds, IdSet
<1> HIDE DEF num
<1>4. 0 \in Done
  BY <1>2, <1>3
<1>5. ASSUME NEW k \in 1 .. MaxSlot, k - 1 \in Done PROVE k \in Done
  <2>1. PICK b \in Nat : \A id \in ProducedIds(e) : id[1] <= k - 1 => num(id) <= b
    BY <1>5
  <2> DEFINE more(i) == IF <<k, i>> \in ProducedIds(e) THEN num(<<k, i>>) ELSE 0
  <2>2. more(1) \in Nat /\ more(2) \in Nat
    BY <1>1
  <2>3. ASSUME NEW id \in ProducedIds(e), id[1] <= k PROVE num(id) <= b + more(1) + more(2)
    <3>1. CASE id[1] <= k - 1
      BY <1>1, <2>1, <2>2, <3>1
    <3>2. CASE id[1] = k
      <4>1. id = <<k, 1>> \/ id = <<k, 2>>
        BY <1>3, <3>2
      <4> QED
        BY <1>1, <2>2, <4>1
    <3> QED
      BY <1>3, <2>3, <3>1, <3>2
  <2>4. b + more(1) + more(2) \in Nat /\ k \in 0 .. MaxSlot
    BY <1>2, <2>2
  <2> HIDE DEF more
  <2> QED
    BY <2>3, <2>4
<1>6. PICK b \in Nat : \A id \in ProducedIds(e) : num(id) <= b
  <2>1. MaxSlot \in Done
    <3> HIDE DEF Done
    <3>1. 0 .. MaxSlot \subseteq Done
      BY <1>2, <1>4, <1>5, IntervalInduction
    <3> QED
      BY <1>2, <3>1
  <2> QED
    BY <1>3, <2>1
<1>7. CASE ProducedIds(e) = {}
  BY <1>7 DEF latest_block
<1>8. CASE ProducedIds(e) # {}
  <2>1. Nums \subseteq 0 .. b /\ Nums # {}
    BY <1>1, <1>6, <1>8
  <2>2. PICK n \in Nums : \A m \in Nums : m <= n
    <3> HIDE DEF Nums
    <3> QED
      BY <2>1, GreatestElement
  <2>3. \E x \in Nums : \A id \in ProducedIds(e) : num(id) <= x
    BY <2>2
  <2> DEFINE top == CHOOSE x \in Nums : \A id \in ProducedIds(e) : num(id) <= x
  <2>4. top \in Nums /\ \A id \in ProducedIds(e) : num(id) <= top
    <3> HIDE DEF Nums
    <3> QED
      BY <2>3, Zenon
  <2>5. latest_block(e) = top
    BY <1>8 DEF latest_block, num
  <2> HIDE DEF top
  <2> QED
    BY <1>1, <1>8, <2>4, <2>5 DEF num
<1> QED
  BY <1>7, <1>8

(* register_parse_results keeps the rows of a slot and adds the missing    *)
(* ones of the parsed version.                                             *)
LEMMA RegisterFacts ==
  ASSUME NEW e \in EthTables, NEW p \in [Slots -> {0} \cup ContentVersions]
  PROVE  LET f == register_parse_results(e, p)
         IN  /\ f \in EthTables
             /\ \A s \in Slots :
                  /\ p[s] = 0 => f[s] = e[s]
                  /\ p[s] # 0 => Len(f[s]) >= Count[s][p[s]] /\ (Count[s][p[s]] <= 1 /\ Len(e[s]) <= 1 => Len(f[s]) <= 1)
                  /\ Len(e[s]) <= Len(f[s])
                  /\ f[s] # << >> /\ e[s] = << >> => p[s] # 0 /\ Count[s][p[s]] # 0
                  /\ \A i \in DOMAIN f[s] :
                       IF i \in DOMAIN e[s] THEN f[s][i] = e[s][i]
                       ELSE p[s] # 0 /\ f[s][i] = [ver |-> p[s], hash |-> Genesis, receipt |-> FALSE]
<1> DEFINE f == register_parse_results(e, p)
           len(s) == IF Len(e[s]) > Count[s][p[s]] THEN Len(e[s]) ELSE Count[s][p[s]]
           row(s, i) == IF i \in DOMAIN e[s] THEN e[s][i]
                        ELSE [ver |-> p[s], hash |-> Genesis, receipt |-> FALSE]
<1>1. ASSUME NEW s \in Slots
      PROVE  /\ e[s] \in Seq(EthRow) /\ Len(e[s]) \in 0 .. 2 /\ DOMAIN e[s] = 1 .. Len(e[s])
             /\ \A i \in DOMAIN e[s] : e[s][i] \in EthRow
  BY SlotRows
<1>6. ASSUME NEW s \in Slots
      PROVE  f[s] = IF p[s] = 0 THEN e[s] ELSE [i \in 1 .. len(s) |-> row(s, i)]
  BY DEF register_parse_results
<1>2. DOMAIN f = Slots /\ f = [s \in Slots |-> f[s]]
  BY DEF register_parse_results
<1> HIDE DEF f
<1>3. ASSUME NEW s \in Slots, p[s] # 0
      PROVE  /\ f[s] \in Seq(EthRow) /\ Len(f[s]) = len(s) /\ DOMAIN f[s] = 1 .. len(s)
             /\ len(s) \in 0 .. 2 /\ len(s) >= Len(e[s]) /\ len(s) >= Count[s][p[s]]
             /\ Count[s][p[s]] \in 0 .. 2
             /\ \A i \in 1 .. len(s) : f[s][i] = row(s, i)
  <2>1. p[s] \in ContentVersions /\ Count[s][p[s]] \in 0 .. 2
    BY <1>3, StorageAssumption
  <2>2. len(s) \in 0 .. 2 /\ len(s) >= Len(e[s]) /\ len(s) >= Count[s][p[s]]
    BY <1>1, <2>1
  <2>3. ASSUME NEW i \in 1 .. len(s) PROVE row(s, i) \in EthRow
    <3>1. CASE i \in DOMAIN e[s]
      BY <1>1, <3>1
    <3>2. CASE i \notin DOMAIN e[s]
      <4>1. << >> \in Seq(Contents) /\ FALSE \in BOOLEAN
        OBVIOUS
      <4> QED
        BY <2>1, <3>2, <4>1 DEF EthRow, Genesis
    <3> QED
      BY <3>1, <3>2
  <2>4. f[s] = [i \in 1 .. len(s) |-> row(s, i)] /\ f[s] \in [1 .. len(s) -> EthRow]
    <3>1. f[s] = [i \in 1 .. len(s) |-> row(s, i)]
      BY <1>3, <1>6
    <3> HIDE DEF row, len
    <3> QED
      BY <2>3, <3>1
  <2> HIDE DEF len, row
  <2>5. f[s] \in Seq(EthRow) /\ Len(f[s]) = len(s) /\ DOMAIN f[s] = 1 .. len(s)
    BY <2>2, <2>4, FunctionIsSeq
  <2> QED
    BY <2>1, <2>2, <2>4, <2>5
<1>4. f \in EthTables
  <2>1. \A s \in Slots : f[s] \in Seq(EthRow) /\ Len(f[s]) <= 2
    <3> SUFFICES ASSUME NEW s \in Slots PROVE f[s] \in Seq(EthRow) /\ Len(f[s]) <= 2
      OBVIOUS
    <3>1. CASE p[s] = 0
      <4>1. f[s] = e[s]
        BY <1>6, <3>1
      <4> QED
        BY <1>1, <4>1
    <3>2. CASE p[s] # 0
      <4> HIDE DEF len, row
      <4> QED
        BY <1>3, <3>2
    <3> QED
      BY <3>1, <3>2
  <2> QED
    BY <1>2, <2>1 DEF EthTables
<1>5. ASSUME NEW s \in Slots
      PROVE  /\ p[s] = 0 => f[s] = e[s]
             /\ p[s] # 0 => Len(f[s]) >= Count[s][p[s]] /\ (Count[s][p[s]] <= 1 /\ Len(e[s]) <= 1 => Len(f[s]) <= 1)
             /\ Len(e[s]) <= Len(f[s])
             /\ f[s] # << >> /\ e[s] = << >> => p[s] # 0 /\ Count[s][p[s]] # 0
             /\ \A i \in DOMAIN f[s] :
                  IF i \in DOMAIN e[s] THEN f[s][i] = e[s][i]
                  ELSE p[s] # 0 /\ f[s][i] = [ver |-> p[s], hash |-> Genesis, receipt |-> FALSE]
  <2>1. CASE p[s] = 0
    <3>1. f[s] = e[s]
      BY <1>6, <2>1
    <3> QED
      BY <1>1, <2>1, <3>1
  <2>2. CASE p[s] # 0
    <3>1. f[s] # << >> /\ e[s] = << >> => Count[s][p[s]] # 0
      <4>1. f[s] # << >> => Len(f[s]) # 0
        <5> HIDE DEF len, row
        <5> QED
          BY <1>3, <2>2
      <4>2. e[s] = << >> => Len(e[s]) = 0
        OBVIOUS
      <4> QED
        BY <1>1, <1>3, <2>2, <4>1, <4>2
    <3> QED
      BY <1>1, <1>3, <2>2, <3>1
  <2> QED
    BY <2>1, <2>2
<1> QED
  BY <1>4, <1>5 DEF f

(* What an update of rows in place leaves alone.                           *)
SameBlocks(e, f) ==
  \A s \in Slots : /\ DOMAIN f[s] = DOMAIN e[s] /\ (f[s] = << >> <=> e[s] = << >>) /\ Len(f[s]) = Len(e[s])
                   /\ \A i \in DOMAIN e[s] : f[s][i].ver = e[s][i].ver

(* A table whose rows are rewritten in place.                              *)
LEMMA InPlaceFacts ==
  ASSUME NEW e \in EthTables, NEW f, f = [s \in Slots |-> [i \in DOMAIN e[s] |-> f[s][i]]],
         \A s \in Slots : \A i \in DOMAIN e[s] : f[s][i] \in EthRow /\ f[s][i].ver = e[s][i].ver
  PROVE  f \in EthTables /\ SameBlocks(e, f)
<1>1. ASSUME NEW s \in Slots
      PROVE  /\ f[s] \in Seq(EthRow) /\ Len(f[s]) = Len(e[s]) /\ DOMAIN f[s] = DOMAIN e[s]
             /\ Len(e[s]) <= 2 /\ (f[s] = << >> <=> e[s] = << >>)
  <2>1. e[s] \in Seq(EthRow) /\ Len(e[s]) \in 0 .. 2 /\ DOMAIN e[s] = 1 .. Len(e[s])
    BY SlotRows
  <2>2. f[s] = [i \in 1 .. Len(e[s]) |-> f[s][i]] /\ f[s] \in [1 .. Len(e[s]) -> EthRow]
    <3>1. f[s] = [i \in 1 .. Len(e[s]) |-> f[s][i]]
      BY <2>1
    <3>2. \A i \in 1 .. Len(e[s]) : f[s][i] \in EthRow
      BY <2>1
    <3> QED
      BY <3>1, <3>2
  <2>3. f[s] \in Seq(EthRow) /\ Len(f[s]) = Len(e[s]) /\ DOMAIN f[s] = 1 .. Len(e[s])
    BY <2>1, <2>2, FunctionIsSeq
  <2> QED
    BY <2>1, <2>3
<1>2. f \in [Slots -> Seq(EthRow)]
  BY <1>1
<1> QED
  BY <1>1, <1>2 DEF EthTables, SameBlocks

(* block_produced sets the hashes of blocks that had none.                 *)
LEMMA BlockProducedFacts ==
  ASSUME NEW e \in EthTables, NEW h, \A id \in DOMAIN h : h[id] \in Seq(Contents)
  PROVE  LET f == block_produced(e, h)
         IN  /\ f \in EthTables /\ SameBlocks(e, f)
             /\ \A s \in Slots : \A i \in DOMAIN e[s] :
                  IF <<s, i>> \in DOMAIN h /\ e[s][i].hash = Genesis
                  THEN f[s][i].hash = h[<<s, i>>] /\ f[s][i].receipt = e[s][i].receipt
                  ELSE f[s][i] = e[s][i]
<1> DEFINE f == block_produced(e, h)
           row(s, i) == IF <<s, i>> \in DOMAIN h /\ e[s][i].hash = Genesis
                        THEN [e[s][i] EXCEPT !.hash = h[<<s, i>>]] ELSE e[s][i]
<1>1. f = [s \in Slots |-> [i \in DOMAIN e[s] |-> row(s, i)]]
  BY DEF block_produced
<1>2. ASSUME NEW s \in Slots, NEW i \in DOMAIN e[s]
      PROVE  /\ f[s][i] = row(s, i) /\ f[s][i] \in EthRow /\ f[s][i].ver = e[s][i].ver
             /\ IF <<s, i>> \in DOMAIN h /\ e[s][i].hash = Genesis
                THEN f[s][i].hash = h[<<s, i>>] /\ f[s][i].receipt = e[s][i].receipt
                ELSE f[s][i] = e[s][i]
  <2>1. f[s][i] = row(s, i)
    BY <1>1
  <2>2. e[s][i] \in EthRow
    BY SlotRows
  <2> HIDE DEF f
  <2>3. CASE <<s, i>> \in DOMAIN h /\ e[s][i].hash = Genesis
    <3>1. h[<<s, i>>] \in Seq(Contents)
      BY <2>3
    <3> QED
      BY <2>1, <2>2, <2>3, <3>1 DEF EthRow
  <2>4. CASE ~(<<s, i>> \in DOMAIN h /\ e[s][i].hash = Genesis)
    BY <2>1, <2>2, <2>4
  <2> QED
    BY <2>3, <2>4
<1> HIDE DEF row, f
<1>3. f = [s \in Slots |-> [i \in DOMAIN e[s] |-> f[s][i]]]
  BY <1>1, <1>2
<1>4. f \in EthTables /\ SameBlocks(e, f)
  BY <1>2, <1>3, InPlaceFacts
<1> QED
  BY <1>2, <1>4 DEF f

(* The second transaction stores the receipts of the given blocks.         *)
LEMMA StoreReceiptsFacts ==
  ASSUME NEW e \in EthTables, NEW ids
  PROVE  LET f == store_receipts(e, ids)
         IN  /\ f \in EthTables /\ SameBlocks(e, f)
             /\ \A s \in Slots : \A i \in DOMAIN e[s] :
                  /\ f[s][i].hash = e[s][i].hash
                  /\ f[s][i].receipt = (<<s, i>> \in ids \/ e[s][i].receipt)
<1> DEFINE f == store_receipts(e, ids)
           row(s, i) == IF <<s, i>> \in ids THEN [e[s][i] EXCEPT !.receipt = TRUE] ELSE e[s][i]
<1>1. f = [s \in Slots |-> [i \in DOMAIN e[s] |-> row(s, i)]]
  BY DEF store_receipts
<1>2. ASSUME NEW s \in Slots, NEW i \in DOMAIN e[s]
      PROVE  /\ f[s][i] = row(s, i) /\ f[s][i] \in EthRow /\ f[s][i].ver = e[s][i].ver
             /\ f[s][i].hash = e[s][i].hash
             /\ f[s][i].receipt = (<<s, i>> \in ids \/ e[s][i].receipt)
  <2>1. f[s][i] = row(s, i)
    BY <1>1
  <2>2. e[s][i] \in EthRow /\ e[s][i].receipt \in BOOLEAN
    BY SlotRows DEF EthRow
  <2> HIDE DEF f
  <2>3. CASE <<s, i>> \in ids
    <3>1. f[s][i] = [e[s][i] EXCEPT !.receipt = TRUE]
      BY <2>1, <2>3
    <3>2. f[s][i].receipt = TRUE /\ f[s][i].ver = e[s][i].ver /\ f[s][i].hash = e[s][i].hash /\ f[s][i] \in EthRow
      BY <2>2, <3>1 DEF EthRow
    <3>3. (<<s, i>> \in ids \/ e[s][i].receipt) = TRUE
      BY <2>3
    <3> QED
      BY <2>1, <3>2, <3>3
  <2>4. CASE <<s, i>> \notin ids
    <3>1. f[s][i] = e[s][i]
      BY <2>1, <2>4
    <3>2. (<<s, i>> \in ids \/ e[s][i].receipt) = e[s][i].receipt
      BY <2>2, <2>4
    <3> QED
      BY <2>1, <2>2, <3>1, <3>2
  <2> QED
    BY <2>3, <2>4
<1> HIDE DEF row, f
<1>3. f = [s \in Slots |-> [i \in DOMAIN e[s] |-> f[s][i]]]
  BY <1>1, <1>2
<1>4. f \in EthTables /\ SameBlocks(e, f)
  BY <1>2, <1>3, InPlaceFacts
<1> QED
  BY <1>2, <1>4 DEF f

-----------------------------------------------------------------------------
(* The invariant.                                                          *)

Producing == {"rebuild", "build", "switched", "register", "receipts"}
Working == {"parse", "pending", "build", "switched", "register", "receipts"}

(* The loader announces what it has replaced, and nothing else.            *)
SolInv ==
  /\ sol \in [Slots -> SolRow] /\ LowerParents(sol)
  /\ \A s \in Slots : sol[s].ver = 0 <=> ~Stored(sol, s)
  /\ loader \in {"run", "marked", "updated", "gone"}
  /\ changed \subseteq {s \in Slots : Stored(sol, s)}
  /\ loader \in {"run", "gone"} <=> changed = {}

GethInv == head \in Seq(Contents) /\ gethFinal \in Seq(Contents) /\ known \subseteq Seq(Contents)

QueueInv == reorgs \in Seq(Slots) /\ missed \subseteq Slots /\ faults \in 0 .. MaxFaults

(* Parse results exist only while a batch is parsed, and a batch ends at   *)
(* or below the last stored slot.                                          *)
ParseInv ==
  /\ pc \in PCs
  /\ fromSlot \in 0 .. MaxSlot /\ toSlot \in 0 .. MaxSlot
  /\ current \in 0 .. MaxSlot /\ next \in 0 .. MaxSlot
  /\ parsed \in [Slots -> {0} \cup ContentVersions]
  /\ pc \notin {"parse", "dead"} => parsed = NoParse
  /\ pc \in Working => toSlot <= LastSlot(sol)
  /\ pc \in {"reproduce", "rebuild"} => ProducedIds(eth) # {}

(* Blocks are built of rows that exist.                                    *)
ProduceInv ==
  /\ pending \subseteq IdSet /\ parent \in Seq(Contents)
  /\ finalBlock.kind \in {"None", "Pending", "Produced"}
  /\ finalBlock.hash \in Seq(Contents) /\ finalBlock.id \in IdSet \cup {<<0, 0>>}
  /\ DOMAIN produced \subseteq IdSet /\ \A id \in DOMAIN produced : produced[id] \in Seq(Contents)
  /\ pc \in Producing => pending \subseteq Ids(eth)
  /\ pc = "switched" => pending # {}

(* Ethereum blocks and parse results come from stored slots below the last *)
(* one.                                                                    *)
RowsInv ==
  /\ eth \in EthTables
  /\ \A s \in Slots : eth[s] # << >> \/ parsed[s] # 0 => Stored(sol, s) /\ s < LastSlot(sol)

(* The changed slots that were announced, are about to be, or whose        *)
(* announcement nobody received.                                           *)
Noticed == missed \cup {reorgs[i] : i \in DOMAIN reorgs} \cup (IF loader = "updated" THEN changed ELSE {})

NoticedBelow(s) == \E m \in Noticed : m <= s

(* An Ethereum block or a parse result that differs from the stored Solana *)
(* block has a noticed slot at or below its own.                           *)
StaleInv ==
  \A s \in Slots : /\ \A i \in DOMAIN eth[s] : eth[s][i].ver # sol[s].ver => NoticedBelow(s)
                   /\ parsed[s] \notin {0, sol[s].ver} => NoticedBelow(s)

IndexerInv == SolInv /\ GethInv /\ QueueInv /\ ParseInv /\ ProduceInv /\ RowsInv /\ StaleInv

(* What the history variables hold.                                        *)
HistoryInv == late \subseteq Slots /\ cut \subseteq IdSet

(* The invariant contains the types.                                       *)
LEMMA IndexerInvTyped == IndexerInv /\ HistoryInv => TypeOK
<1> SUFFICES ASSUME IndexerInv, HistoryInv PROVE TypeOK
  OBVIOUS
<1>1. ASSUME NEW s \in Slots
      PROVE  /\ Len(eth[s]) <= 2
             /\ \A i \in DOMAIN eth[s] : /\ eth[s][i].ver \in ContentVersions
                                         /\ eth[s][i].hash \in Seq(Contents)
                                         /\ eth[s][i].receipt \in BOOLEAN
  <2>1. \A i \in DOMAIN eth[s] : eth[s][i] \in EthRow
    BY SlotRows DEF IndexerInv, RowsInv
  <2>2. ASSUME NEW i \in DOMAIN eth[s]
        PROVE  /\ eth[s][i].ver \in ContentVersions /\ eth[s][i].hash \in Seq(Contents)
               /\ eth[s][i].receipt \in BOOLEAN
    <3>1. eth[s][i] \in EthRow
      BY <2>1
    <3> QED
      BY <3>1, Zenon DEF EthRow
  <2>3. Len(eth[s]) <= 2
    BY DEF IndexerInv, RowsInv, EthTables
  <2> QED
    BY <2>2, <2>3, Zenon
<1> QED
  BY <1>1 DEF TypeOK, IndexerInv, SolInv, GethInv, QueueInv, ParseInv, ProduceInv, HistoryInv

(* The first state.                                                        *)
LEMMA InitIndexerInv == Init => IndexerInv
<1> SUFFICES ASSUME Init PROVE IndexerInv
  OBVIOUS
<1> USE StorageAssumption, IndexerAssumption DEF Init
<1>1. SolInv
  BY DEF SolInv, SolRow, NoSlot, LowerParents, Stored, Slots
<1>2. GethInv /\ QueueInv
  BY DEF GethInv, QueueInv, Genesis
<1>3. ParseInv
  BY DEF ParseInv, PCs, NoParse, Working
<1>4. ProduceInv
  BY DEF ProduceInv, NoFinal, NoBlocks, Genesis, Producing
<1>5. eth \in EthTables
  BY DEF EthTables
<1>6. RowsInv /\ StaleInv
  BY <1>5 DEF RowsInv, StaleInv, NoParse
<1> QED
  BY <1>1, <1>2, <1>3, <1>4, <1>6 DEF IndexerInv

-----------------------------------------------------------------------------
(* The loader.                                                             *)

(* Slots are stored for good, so the last slot only grows.                 *)
LEMMA LastSlotGrows ==
  ASSUME NEW a, NEW b, \A s \in Slots : Stored(a, s) => Stored(b, s)
  PROVE  LastSlot(a) <= LastSlot(b)
<1>1. LastSlot(a) \in 0 .. MaxSlot /\ LastSlot(b) \in 0 .. MaxSlot
  BY LastSlotBounds
<1>2. CASE LastSlot(a) = 0
  BY <1>1, <1>2, StorageAssumption
<1>3. CASE LastSlot(a) # 0
  <2>1. Stored(a, LastSlot(a)) /\ LastSlot(a) \in Slots
    BY <1>3, LastSlotBounds DEF Stored
  <2> QED
    BY <2>1, LastSlotBounds
<1> QED
  BY <1>2, <1>3

(* A step of the loader leaves the indexer alone.                          *)
LEMMA LoaderKeeps ==
  ASSUME IndexerInv, SolInv', QueueInv', StaleInv',
         \A s \in Slots : Stored(sol, s) => Stored(sol', s),
         UNCHANGED <<eth, gethVars, pc, parseVars, produceVars>>
  PROVE  IndexerInv'
<1> USE DEF IndexerInv, gethVars, parseVars, produceVars
<1>1. LastSlot(sol) <= LastSlot(sol')
  BY LastSlotGrows
<1>2. LastSlot(sol) \in Nat /\ LastSlot(sol') \in Nat
  BY LastSlotBounds, StorageAssumption
<1>3. ParseInv'
  BY <1>1, <1>2, StorageAssumption DEF ParseInv
<1>4. ProduceInv' /\ GethInv'
  BY DEF ProduceInv, GethInv
<1>5. RowsInv'
  BY <1>1, <1>2, StorageAssumption DEF RowsInv, Slots
<1> QED
  BY <1>3, <1>4, <1>5

(* Nothing was derived from a slot before it is stored.                    *)
LEMMA LoaderStoresInv ==
  ASSUME IndexerInv, NEW s \in Slots, NEW p \in 0 .. MaxSlot, NEW status \in {"Confirmed", "Finalized"},
         LoaderStores(s, p, status)
  PROVE  IndexerInv'
<1> USE DEF IndexerInv
<1>1. /\ loader = "run"
      /\ sol' = [sol EXCEPT ![s] = [status |-> status, ver |-> 1, parent |-> p]]
      /\ UNCHANGED <<eth, gethVars, loader, changed, reorgs, pc, parseVars, produceVars, missed, faults>>
  BY DEF LoaderStores
<1>2. ~Stored(sol, s) /\ p < s
  BY DEF LoaderStores
<1>3. p \in 0 .. (s - 1)
  BY <1>2, StorageAssumption DEF Slots
<1>4. /\ sol'[s] = [status |-> status, ver |-> 1, parent |-> p]
      /\ \A t \in Slots : t # s => sol'[t] = sol[t]
  BY <1>1 DEF SolInv
<1>5. \A t \in Slots : Stored(sol', t) <=> t = s \/ Stored(sol, t)
  BY <1>4 DEF Stored
<1>6. SolInv'
  <2>1. sol' \in [Slots -> SolRow]
    BY <1>1, StorageAssumption DEF SolInv, SolRow, ContentVersions
  <2>2. LowerParents(sol)'
    BY <1>3, <1>4 DEF SolInv, LowerParents
  <2>3. \A t \in Slots : sol'[t].ver = 0 <=> ~Stored(sol', t)
    BY <1>4, <1>5 DEF SolInv
  <2> QED
    BY <1>1, <1>5, <2>1, <2>2, <2>3 DEF SolInv
<1>7. eth[s] = << >> /\ parsed[s] = 0
  BY <1>2 DEF RowsInv
<1>8. Noticed' = Noticed
  BY <1>1 DEF Noticed
<1>9. StaleInv'
  <2> SUFFICES ASSUME NEW t \in Slots
               PROVE  /\ \A i \in DOMAIN eth[t] : eth[t][i].ver # sol'[t].ver => NoticedBelow(t)
                      /\ parsed[t] \notin {0, sol'[t].ver} => NoticedBelow(t)
    BY <1>1, <1>8 DEF StaleInv, NoticedBelow, parseVars
  <2>1. CASE t = s
    BY <1>7, <2>1
  <2>2. CASE t # s
    BY <1>4, <2>2 DEF StaleInv
  <2> QED
    BY <2>1, <2>2
<1>10. QueueInv'
  BY <1>1 DEF QueueInv
<1> QED
  BY <1>1, <1>5, <1>6, <1>9, <1>10, LoaderKeeps

(* Marking slots Finalized changes no version.                             *)
LEMMA LoaderMarksInv ==
  ASSUME IndexerInv, NEW s \in Slots, NEW S \in SUBSET ForkOf(s), LoaderMarksFinalized(s, S)
  PROVE  IndexerInv'
<1> USE DEF IndexerInv
<1>1. /\ loader = "run" /\ changed' = S /\ loader' = IF S = {} THEN "run" ELSE "marked"
      /\ sol' = [t \in Slots |-> IF t \in ForkOf(s) THEN [sol[t] EXCEPT !.status = "Finalized"]
                                 ELSE sol[t]]
      /\ UNCHANGED <<eth, gethVars, reorgs, pc, parseVars, produceVars, missed, faults>>
  BY DEF LoaderMarksFinalized
<1>2. ForkOf(s) \subseteq {t \in Slots : Stored(sol, t)}
  <2>1. Branch(sol, s) \subseteq {t \in Slots : Stored(sol, t)}
    BY BranchStored DEF SolInv
  <2> QED
    BY <2>1 DEF ForkOf
<1>3. ASSUME NEW t \in Slots
      PROVE  /\ sol'[t] \in SolRow /\ sol'[t].ver = sol[t].ver /\ sol'[t].parent = sol[t].parent
             /\ Stored(sol', t) <=> Stored(sol, t)
  <2>1. sol[t] \in SolRow
    BY DEF SolInv
  <2>2. CASE t \in ForkOf(s)
    <3>1. sol'[t] = [sol[t] EXCEPT !.status = "Finalized"]
      BY <1>1, <2>2
    <3> QED
      BY <1>2, <2>1, <2>2, <3>1 DEF SolRow, Stored
  <2>3. CASE t \notin ForkOf(s)
    BY <1>1, <2>1, <2>3 DEF Stored
  <2> QED
    BY <2>2, <2>3
<1>4. SolInv'
  <2>1. sol' \in [Slots -> SolRow]
    BY <1>1, <1>3
  <2>2. LowerParents(sol)' /\ \A t \in Slots : sol'[t].ver = 0 <=> ~Stored(sol', t)
    BY <1>3 DEF SolInv, LowerParents
  <2> QED
    BY <1>1, <1>2, <1>3, <2>1, <2>2 DEF SolInv
<1>5. Noticed' = Noticed
  BY <1>1 DEF Noticed
<1>6. StaleInv' /\ QueueInv'
  BY <1>1, <1>3, <1>5 DEF StaleInv, NoticedBelow, QueueInv, parseVars
<1> QED
  BY <1>1, <1>3, <1>4, <1>6, LoaderKeeps

(* The replaced slots are noticed from the moment they are replaced.       *)
LEMMA LoaderUpdatesInv ==
  ASSUME IndexerInv, LoaderUpdatesBlocks
  PROVE  IndexerInv'
<1> USE DEF IndexerInv
<1>0. CASE loader' = "run" /\ changed' = {} /\ UNCHANGED sol
  <2>1. /\ loader = "marked" /\ UNCHANGED <<eth, gethVars, reorgs, pc, parseVars, produceVars, missed, faults>>
    BY DEF LoaderUpdatesBlocks
  <2>2. SolInv' /\ QueueInv'
    BY <1>0, <2>1 DEF SolInv, QueueInv
  <2>3. Noticed' = Noticed
    BY <1>0, <2>1 DEF Noticed
  <2>4. StaleInv'
    BY <1>0, <2>1, <2>3 DEF StaleInv, NoticedBelow, parseVars
  <2> QED
    BY <1>0, <2>1, <2>2, <2>4, LoaderKeeps
<1> SUFFICES ASSUME ~(loader' = "run" /\ changed' = {} /\ UNCHANGED sol) PROVE IndexerInv'
  BY <1>0
<1>1. /\ loader = "marked" /\ loader' = "updated"
      /\ sol' = [t \in Slots |-> IF t \in changed THEN [sol[t] EXCEPT !.ver = 2] ELSE sol[t]]
      /\ UNCHANGED <<eth, gethVars, changed, reorgs, pc, parseVars, produceVars, missed, faults>>
  BY DEF LoaderUpdatesBlocks
<1>2. ASSUME NEW t \in Slots
      PROVE  /\ sol'[t] \in SolRow /\ sol'[t].parent = sol[t].parent
             /\ Stored(sol', t) <=> Stored(sol, t)
             /\ sol'[t].ver = 0 <=> sol[t].ver = 0
             /\ t \notin changed => sol'[t].ver = sol[t].ver
  <2>1. sol[t] \in SolRow
    BY DEF SolInv
  <2>2. CASE t \in changed
    <3>1. sol'[t] = [sol[t] EXCEPT !.ver = 2]
      BY <1>1, <2>2
    <3>2. sol'[t].ver = 2 /\ sol[t].ver # 0 /\ sol'[t].status = sol[t].status
      BY <2>1, <2>2, <3>1 DEF SolRow, SolInv
    <3>3. sol'[t] \in SolRow /\ sol'[t].parent = sol[t].parent
      BY <2>1, <3>1 DEF SolRow, ContentVersions
    <3> QED
      BY <2>2, <3>2, <3>3 DEF Stored
  <2>3. CASE t \notin changed
    BY <1>1, <2>1, <2>3 DEF Stored
  <2> QED
    BY <2>2, <2>3
<1>3. SolInv'
  <2>1. sol' \in [Slots -> SolRow]
    BY <1>1, <1>2
  <2>2. LowerParents(sol)' /\ \A t \in Slots : sol'[t].ver = 0 <=> ~Stored(sol', t)
    BY <1>2 DEF SolInv, LowerParents
  <2> QED
    BY <1>1, <1>2, <2>1, <2>2 DEF SolInv
<1>4. Noticed \subseteq Noticed' /\ changed \subseteq Noticed'
  BY <1>1 DEF Noticed
<1>5. StaleInv'
  <2> SUFFICES ASSUME NEW t \in Slots
               PROVE  /\ \A i \in DOMAIN eth[t] : eth[t][i].ver # sol'[t].ver => NoticedBelow(t)'
                      /\ parsed[t] \notin {0, sol'[t].ver} => NoticedBelow(t)'
    BY <1>1 DEF StaleInv, parseVars
  <2>1. CASE t \in changed
    <3>1. t <= t
      BY StorageAssumption DEF Slots
    <3> QED
      BY <1>4, <2>1, <3>1 DEF NoticedBelow
  <2>2. CASE t \notin changed
    BY <1>2, <1>4, <2>2 DEF StaleInv, NoticedBelow
  <2> QED
    BY <2>1, <2>2
<1>6. QueueInv'
  BY <1>1 DEF QueueInv
<1> QED
  BY <1>1, <1>2, <1>3, <1>5, <1>6, LoaderKeeps

(* The event names the lowest replaced slot; without a receiver all are    *)
(* missed.                                                                 *)
LEMMA LoaderSendsInv ==
  ASSUME IndexerInv, LoaderSendsReorg \/ LoaderExits
  PROVE  IndexerInv'
<1> USE DEF IndexerInv
<1> DEFINE lowest == CHOOSE s \in changed : \A t \in changed : s <= t
<1>1. changed \subseteq Slots /\ Slots \subseteq Nat
  BY StorageAssumption DEF SolInv, Slots
<1>2. changed # {} => lowest \in changed /\ \A t \in changed : lowest <= t
  <2> SUFFICES ASSUME changed # {} PROVE lowest \in changed /\ \A t \in changed : lowest <= t
    OBVIOUS
  <2>1. changed \subseteq Nat
    BY <1>1
  <2>2. \E s \in changed : \A t \in changed : s <= t
    BY <2>1, LeastElement
  <2> QED
    BY <2>2, Zenon
<1>3. /\ UNCHANGED <<sol, eth, gethVars, pc, parseVars, produceVars>>
      /\ changed' = {} /\ loader' \in {"run", "gone"} /\ faults' \in 0 .. MaxFaults
      /\ \/ /\ changed # {} /\ loader = "updated" /\ reorgs' = Append(reorgs, lowest) /\ missed' = missed
         \/ /\ missed' = missed \cup changed /\ reorgs' = reorgs
  <2>1. CASE LoaderSendsReorg
    BY <2>1 DEF LoaderSendsReorg, SolInv, QueueInv
  <2>2. CASE LoaderExits
    BY <2>2, IndexerAssumption DEF LoaderExits, QueueInv
  <2> QED
    BY <2>1, <2>2
<1>4. SolInv'
  BY <1>3 DEF SolInv
<1>5. QueueInv' /\ \A s \in Slots : NoticedBelow(s) => NoticedBelow(s)'
  <2>1. CASE changed # {} /\ loader = "updated" /\ reorgs' = Append(reorgs, lowest) /\ missed' = missed
    <3>1. lowest \in Slots /\ \A t \in changed : lowest <= t
      BY <1>1, <1>2, <2>1
    <3> HIDE DEF lowest
    <3>2. /\ reorgs \in Seq(Slots) /\ reorgs' \in Seq(Slots) /\ Len(reorgs) \in Nat
          /\ DOMAIN reorgs = 1 .. Len(reorgs) /\ DOMAIN reorgs' = 1 .. (Len(reorgs) + 1)
          /\ reorgs'[Len(reorgs) + 1] = lowest /\ \A i \in DOMAIN reorgs : reorgs'[i] = reorgs[i]
      BY <2>1, <3>1 DEF QueueInv
    <3>3. lowest \in Noticed'
      BY <3>2 DEF Noticed
    <3>4. \A m \in Noticed : m \in Noticed' \/ m \in changed
      BY <2>1, <3>2 DEF Noticed
    <3>5. ASSUME NEW s \in Slots, NoticedBelow(s) PROVE NoticedBelow(s)'
      <4>1. PICK m \in Noticed : m <= s
        BY <3>5 DEF NoticedBelow
      <4>2. CASE m \in Noticed'
        BY <4>1, <4>2 DEF NoticedBelow
      <4>3. CASE m \in changed
        <5>1. lowest <= s
          BY <1>1, <3>1, <4>1, <4>3
        <5> QED
          BY <3>3, <5>1 DEF NoticedBelow
      <4> QED
        BY <3>4, <4>2, <4>3
    <3> QED
      BY <1>3, <2>1, <3>2, <3>5 DEF QueueInv
  <2>2. CASE missed' = missed \cup changed /\ reorgs' = reorgs
    <3>1. Noticed \subseteq Noticed'
      BY <2>2 DEF Noticed
    <3> QED
      BY <1>1, <1>3, <2>2, <3>1 DEF NoticedBelow, QueueInv
  <2> QED
    BY <1>3, <2>1, <2>2
<1>6. StaleInv'
  BY <1>3, <1>5 DEF StaleInv, parseVars
<1> QED
  BY <1>3, <1>4, <1>5, <1>6, LoaderKeeps

-----------------------------------------------------------------------------
(* The start of the task.                                                  *)

(* A step of the indexer that leaves the storages alone.                   *)
LEMMA IndexerKeeps ==
  ASSUME IndexerInv, GethInv', ParseInv', ProduceInv', faults' \in 0 .. MaxFaults,
         parsed' \in {parsed, NoParse}, UNCHANGED <<solVars, eth, reorgs, missed>>
  PROVE  IndexerInv'
<1> USE DEF IndexerInv, solVars
<1>1. SolInv' /\ QueueInv'
  BY DEF SolInv, QueueInv
<1>2. \A s \in Slots : parsed'[s] \in {0, parsed[s]}
  BY DEF NoParse
<1>3. RowsInv'
  BY <1>2 DEF RowsInv
<1>4. StaleInv'
  BY <1>2 DEF StaleInv, NoticedBelow, Noticed
<1> QED
  BY <1>1, <1>3, <1>4

(* A batch ends at or below the end of the range, and is not empty.        *)
LEMMA BatchEndFacts ==
  ASSUME NEW from \in Nat, NEW max \in Nat
  PROVE  /\ BatchEnd(from, max) \in 0 .. max
         /\ from < max => from < BatchEnd(from, max)
         /\ from = max => BatchEnd(from, max) = max
  BY IndexerAssumption DEF BatchEnd

(* The ids that produced blocks have.                                      *)
LEMMA ProducedTyped ==
  ASSUME NEW e \in EthTables
  PROVE  /\ ProducedIds(e) \subseteq Ids(e) /\ ProducedIds(e) \subseteq IdSet
         /\ \A id \in ProducedIds(e) : Row(e, id).hash \in Seq(Contents) /\ Row(e, id).hash # << >>
<1>1. ProducedIds(e) \subseteq Ids(e) /\ \A id \in ProducedIds(e) : Row(e, id).hash # << >>
  BY DEF ProducedIds, IsProduced, Genesis
<1>2. \A id \in Ids(e) : Row(e, id).hash \in Seq(Contents)
  BY IdsTyped DEF EthRow
<1> QED
  BY <1>1, <1>2, IdsTyped

(* The slots that hold a produced block of a number.                       *)
LEMMA SlotsForTyped ==
  ASSUME NEW e \in EthTables, NEW n
  PROVE  /\ SlotsForEthBlock(e, n) \subseteq Slots
         /\ \A s \in SlotsForEthBlock(e, n) : \E id \in ProducedIds(e) : id[1] = s
  BY IdsTyped DEF SlotsForEthBlock, ProducedIds

(* pre_run: the cursor is put on a slot of the storage.                    *)
LEMMA PreRunInv ==
  ASSUME IndexerInv, PreRun
  PROVE  IndexerInv'
<1> USE DEF IndexerInv
<1>1. /\ pc = "start"
      /\ UNCHANGED <<solVars, eth, gethVars, reorgs, toSlot, current, next, parsed, produceVars, missed, faults>>
  BY DEF PreRun
<1>2. /\ pc' \in {"reproduce", "run", "dead"} /\ fromSlot' \in 0 .. MaxSlot
      /\ pc' = "reproduce" => ProducedIds(eth) # {}
  <2>1. \A n : /\ SlotsForEthBlock(eth, n) \subseteq 0 .. MaxSlot
               /\ SlotsForEthBlock(eth, n) # {} => ProducedIds(eth) # {}
    BY SlotsForTyped, StorageAssumption DEF RowsInv, Slots
  <2>2. StartSlot \in 0 .. MaxSlot
    BY IndexerAssumption, StorageAssumption DEF Slots
  <2> QED
    BY <2>1, <2>2 DEF PreRun, ParseInv
<1>3. ParseInv'
  BY <1>1, <1>2 DEF ParseInv, PCs, Working
<1>4. ProduceInv' /\ GethInv'
  BY <1>1, <1>2 DEF ProduceInv, GethInv, Producing, produceVars, gethVars
<1>5. faults' \in 0 .. MaxFaults
  BY <1>1 DEF QueueInv
<1> QED
  BY <1>1, <1>3, <1>4, <1>5, IndexerKeeps

(* Nothing in hand: what NoProduction leaves.                              *)
LEMMA NoProductionTyped ==
  ASSUME NoProduction, pc' # "switched"
  PROVE  ProduceInv'
  BY DEF NoProduction, ProduceInv, NoFinal, NoBlocks, Genesis

(* The block that was produced last is in a slot below the last one.       *)
LEMMA MaxProducedFacts ==
  ASSUME RowsInv, ProducedIds(eth) # {}
  PROVE  /\ get_max_slot_produced(eth) \in Slots
         /\ get_max_slot_produced(eth) + 1 \in 0 .. MaxSlot
         /\ get_max_slot_produced(eth) < LastSlot(sol)
         /\ \A id \in ProducedIds(eth) : id[1] <= get_max_slot_produced(eth)
<1> USE DEF RowsInv
<1>1. ProducedIds(eth) \subseteq IdSet /\ ProducedIds(eth) \subseteq Ids(eth)
  BY ProducedTyped
<1>2. /\ LastId(ProducedIds(eth)) \in ProducedIds(eth)
      /\ \A b \in ProducedIds(eth) : LastId(ProducedIds(eth)) = b \/ Before(b, LastId(ProducedIds(eth)))
  BY <1>1, IdExtremes
<1>3. \A id \in Ids(eth) : id[1] \in Slots /\ eth[id[1]] # << >>
  BY IdsTyped
<1>4. get_max_slot_produced(eth) \in Slots /\ get_max_slot_produced(eth) < LastSlot(sol)
  BY <1>1, <1>2, <1>3 DEF get_max_slot_produced
<1>5. LastSlot(sol) \in 0 .. MaxSlot
  BY LastSlotBounds
<1>6. get_max_slot_produced(eth) + 1 \in 0 .. MaxSlot
  BY <1>4, <1>5, StorageAssumption DEF Slots
<1>7. \A id \in ProducedIds(eth) : id[1] <= get_max_slot_produced(eth)
  BY <1>1, <1>2, <1>3, StorageAssumption DEF get_max_slot_produced, Before, Slots
<1> QED
  BY <1>4, <1>6, <1>7

(* reproduce_blocks_until_in_sync.                                         *)
LEMMA StartReproducingInv ==
  ASSUME IndexerInv, StartReproducing
  PROVE  IndexerInv'
<1> USE DEF IndexerInv
<1> DEFINE max == get_max_slot_produced(eth)
           end == BatchEnd(fromSlot, max + 1)
           ids == Expected(fromSlot, end)
           first == Row(eth, FirstId(ids)).hash
<1>1. /\ pc = "reproduce" /\ toSlot' = max + 1
      /\ UNCHANGED <<solVars, eth, gethVars, reorgs, next, parsed, missed, faults>>
  BY DEF StartReproducing
<1>2. ProducedIds(eth) # {} /\ max \in Slots /\ max + 1 \in 0 .. MaxSlot
  BY <1>1, MaxProducedFacts DEF ParseInv
<1>3. end \in 0 .. MaxSlot
  <2>1. fromSlot \in Nat /\ max + 1 \in Nat /\ MaxSlot \in Nat
    BY <1>2, StorageAssumption DEF ParseInv
  <2>2. end \in 0 .. (max + 1)
    BY <2>1, BatchEndFacts
  <2> HIDE DEF max, end
  <2> QED
    BY <1>2, <2>1, <2>2
<1>4. ids \subseteq Ids(eth) /\ ids \subseteq ProducedIds(eth) /\ Ids(eth) \subseteq IdSet
  BY IdsTyped DEF Expected, ProducedIds, RowsInv
<1>5. faults' \in 0 .. MaxFaults /\ GethInv'
  BY <1>1 DEF QueueInv, GethInv, gethVars
<1>6. CASE fromSlot < max + 1 /\ ids = {}
  <2>1. current' = end /\ fromSlot' = end /\ UNCHANGED pc /\ NoProduction
    BY <1>6 DEF StartReproducing
  <2>2. ProduceInv'
    BY <1>1, <2>1, NoProductionTyped
  <2> HIDE DEF end, ids, max
  <2>3. ParseInv'
    BY <1>1, <1>2, <1>3, <2>1 DEF ParseInv, Working
  <2> QED
    BY <1>1, <1>5, <2>2, <2>3, IndexerKeeps
<1>7. CASE fromSlot < max + 1 /\ ids # {}
  <2>1. /\ current' = end /\ UNCHANGED fromSlot /\ pending' = ids
        /\ parent' = SubSeq(first, 1, Len(first) - 1)
        /\ finalBlock' = NoFinal /\ produced' = NoBlocks
        /\ pc' = IF parent' \in known THEN "rebuild" ELSE "dead"
    BY <1>7 DEF StartReproducing
  <2>2. first \in Seq(Contents) /\ first # << >>
    <3>1. FirstId(ids) \in ids
      <4> HIDE DEF ids
      <4>1. ids \subseteq IdSet
        BY <1>4
      <4> QED
        BY <1>7, <4>1, IdExtremes
    <3>2. FirstId(ids) \in ProducedIds(eth)
      BY <1>4, <3>1
    <3> QED
      BY <3>2, ProducedTyped DEF RowsInv
  <2> HIDE DEF end, ids, max, first
  <2>3. parent' \in Seq(Contents)
    BY <2>1, <2>2
  <2>4. ParseInv'
    BY <1>1, <1>2, <1>3, <2>1 DEF ParseInv, Working, PCs
  <2>5. ProduceInv'
    BY <1>1, <1>4, <2>1, <2>3 DEF ProduceInv, NoFinal, NoBlocks, Genesis
  <2> QED
    BY <1>1, <1>5, <2>4, <2>5, IndexerKeeps
<1>8. CASE ~(fromSlot < max + 1)
  <2>1. pc' = "run" /\ UNCHANGED <<fromSlot, current, produceVars>>
    BY <1>8 DEF StartReproducing
  <2> HIDE DEF end, ids, max
  <2>2. ParseInv'
    BY <1>1, <1>2, <2>1 DEF ParseInv, Working, PCs
  <2>3. ProduceInv'
    BY <1>1, <2>1 DEF ProduceInv, Producing, produceVars
  <2> QED
    BY <1>1, <1>5, <2>2, <2>3, IndexerKeeps
<1> QED
  BY <1>6, <1>7, <1>8

(* A block is built of a pending row.                                      *)
LEMMA BuiltTyped ==
  ASSUME eth \in EthTables, pending \subseteq Ids(eth), pending # {}, parent \in Seq(Contents)
  PROVE  /\ FirstId(pending) \in pending
         /\ \A b \in pending : FirstId(pending) = b \/ Before(FirstId(pending), b)
         /\ Content(FirstId(pending), Row(eth, FirstId(pending)).ver) \in Contents
         /\ Append(parent, Content(FirstId(pending), Row(eth, FirstId(pending)).ver)) \in Seq(Contents)
<1> DEFINE id == FirstId(pending)
<1>1. pending \subseteq IdSet
  BY IdsTyped
<1>2. id \in pending /\ \A b \in pending : id = b \/ Before(id, b)
  BY <1>1, IdExtremes
<1>3. id[1] \in Slots /\ id[2] \in 1 .. 2 /\ Row(eth, id).ver \in ContentVersions
  BY <1>1, <1>2, IdsTyped DEF EthRow, IdSet
<1> HIDE DEF id
<1>4. Content(id, Row(eth, id).ver) \in Contents
  BY <1>3 DEF Content, Contents
<1>5. Append(parent, Content(id, Row(eth, id).ver)) \in Seq(Contents)
  BY <1>4
<1> QED
  BY <1>2, <1>4, <1>5 DEF id

(* advance_rollup_state, in both of its uses.                              *)
LEMMA BuildStepInv ==
  ASSUME IndexerInv, pc \in {"rebuild", "switched"}, pending # {}, pc' \in {"rebuild", "build"},
         pc' = "rebuild" => pc = "rebuild", pc' = "build" => pc = "switched",
         NEW id, id = FirstId(pending), NEW hash, hash = Append(parent, Content(id, Row(eth, id).ver)),
         head' = hash, known' = known \cup {hash}, parent' = hash, pending' = pending \ {id},
         produced' = [x \in DOMAIN produced \cup {id} |-> IF x = id THEN hash ELSE produced[x]],
         gethFinal' \in Seq(Contents),
         UNCHANGED <<solVars, eth, reorgs, parseVars, finalBlock, missed, faults>>
  PROVE  IndexerInv'
<1> USE DEF IndexerInv
<1>1. id \in pending /\ id \in IdSet /\ hash \in Seq(Contents) /\ pending \subseteq Ids(eth)
  <2>1. pending \subseteq Ids(eth) /\ pending \subseteq IdSet
    BY DEF ProduceInv, Producing
  <2> QED
    BY <2>1, BuiltTyped DEF ProduceInv, RowsInv
<1>2. GethInv'
  BY <1>1 DEF GethInv
<1>3. ParseInv'
  BY DEF ParseInv, parseVars, PCs, Working, solVars
<1>4. DOMAIN produced' \subseteq IdSet /\ \A x \in DOMAIN produced' : produced'[x] \in Seq(Contents)
  BY <1>1 DEF ProduceInv
<1>5. ProduceInv'
  BY <1>1, <1>4 DEF ProduceInv, Producing
<1>6. faults' \in 0 .. MaxFaults /\ parsed' = parsed
  BY DEF QueueInv, parseVars
<1> QED
  BY <1>2, <1>3, <1>5, <1>6, IndexerKeeps

(* reproduce_blocks: the loop and the comparison.                          *)
LEMMA RebuildInv ==
  ASSUME IndexerInv, RebuildBlock \/ CheckReproduced
  PROVE  IndexerInv'
<1> USE DEF IndexerInv
<1>1. CASE RebuildBlock
  <2>1. /\ pc = "rebuild" /\ pending # {} /\ gethFinal' \in Seq(Contents) /\ pc' = pc
        /\ UNCHANGED <<solVars, eth, reorgs, parseVars, finalBlock, missed, faults>>
    BY <1>1 DEF RebuildBlock, ProducedEnough, GethInv
  <2> DEFINE id == FirstId(pending)
             hash == Append(parent, Content(id, Row(eth, id).ver))
  <2>2. /\ head' = hash /\ known' = known \cup {hash} /\ parent' = hash /\ pending' = pending \ {id}
        /\ produced' = [x \in DOMAIN produced \cup {id} |-> IF x = id THEN hash ELSE produced[x]]
    BY <1>1 DEF RebuildBlock
  <2> QED
    BY <2>1, <2>2, BuildStepInv
<1>2. CASE CheckReproduced
  <2>1. /\ pc = "rebuild" /\ pc' \in {"reproduce", "dead"} /\ fromSlot' \in {current, fromSlot} /\ NoProduction
        /\ UNCHANGED <<solVars, eth, gethVars, reorgs, toSlot, current, next, parsed, missed, faults>>
    BY <1>2 DEF CheckReproduced
  <2>2. ProduceInv' /\ GethInv' /\ faults' \in 0 .. MaxFaults
    BY <2>1, NoProductionTyped DEF GethInv, gethVars, QueueInv
  <2>3. ParseInv'
    BY <2>1 DEF ParseInv, PCs, Working
  <2> QED
    BY <2>1, <2>2, <2>3, IndexerKeeps
<1> QED
  BY <1>1, <1>2

-----------------------------------------------------------------------------
(* The main loop.                                                          *)

(* The blocks from the slot of the event on are removed, and the event is  *)
(* needed for no other.                                                    *)
LEMMA HandleReorgInv ==
  ASSUME IndexerInv, HandleReorg
  PROVE  IndexerInv'
<1> USE DEF IndexerInv
<1>1. /\ pc = "run" /\ reorgs # << >> /\ eth' = clean_from_slot(eth, Head(reorgs))
      /\ fromSlot' = Head(reorgs) /\ reorgs' = Tail(reorgs)
      /\ UNCHANGED <<solVars, gethVars, pc, toSlot, current, next, parsed, produceVars, missed, faults>>
  BY DEF HandleReorg
<1>2. /\ reorgs \in Seq(Slots) /\ Head(reorgs) \in Slots /\ reorgs' \in Seq(Slots) /\ Slots \subseteq Nat
  BY <1>1, StorageAssumption DEF QueueInv, Slots
<1>3. eth' = [s \in Slots |-> IF s >= Head(reorgs) THEN << >> ELSE eth[s]]
  BY <1>1 DEF clean_from_slot
<1>4. eth' \in EthTables /\ \A s \in Slots : eth'[s] \in {<< >>, eth[s]}
  <2>1. \A s \in Slots : eth[s] \in Seq(EthRow) /\ Len(eth[s]) <= 2 /\ << >> \in Seq(EthRow) /\ Len(<< >>) = 0
    BY DEF RowsInv, EthTables
  <2> QED
    BY <1>3, <2>1 DEF EthTables
<1>5. parsed = NoParse
  BY <1>1 DEF ParseInv
<1>6. ParseInv'
  <2>1. fromSlot' \in 0 .. MaxSlot
    BY <1>1, <1>2, StorageAssumption DEF Slots
  <2> QED
    BY <1>1, <2>1 DEF ParseInv, Working, solVars
<1>7. ProduceInv' /\ GethInv'
  BY <1>1 DEF ProduceInv, GethInv, Producing, produceVars, gethVars
<1>8. SolInv' /\ QueueInv'
  BY <1>1, <1>2 DEF SolInv, QueueInv, solVars
<1>9. RowsInv'
  BY <1>1, <1>4 DEF RowsInv, solVars
<1>10. StaleInv'
  <2> SUFFICES ASSUME NEW s \in Slots, NEW i \in DOMAIN eth'[s], eth'[s][i].ver # sol[s].ver
               PROVE  NoticedBelow(s)'
    BY <1>1, <1>5 DEF StaleInv, NoParse, solVars
  <2>1. ~(s >= Head(reorgs)) /\ eth'[s] = eth[s]
    BY <1>3
  <2>2. PICK m \in Noticed : m <= s
    BY <2>1 DEF StaleInv, NoticedBelow
  <2>3. m # Head(reorgs)
    BY <1>2, <2>1, <2>2
  <2>4. ASSUME NEW j \in DOMAIN reorgs, m = reorgs[j] PROVE m \in Noticed'
    <3>1. DOMAIN reorgs = 1 .. Len(reorgs) /\ Len(reorgs) \in Nat /\ j # 1
      BY <1>1, <1>2, <2>3, <2>4
    <3>2. DOMAIN reorgs' = 1 .. (Len(reorgs) - 1)
      BY <1>1, <1>2
    <3>3. j - 1 \in DOMAIN reorgs' /\ reorgs'[j - 1] = reorgs[j]
      BY <1>1, <1>2, <2>4, <3>1, <3>2
    <3> QED
      BY <2>4, <3>3 DEF Noticed
  <2>5. m \in Noticed'
    BY <1>1, <2>2, <2>4 DEF Noticed, solVars
  <2> QED
    BY <2>2, <2>5 DEF NoticedBelow
<1> QED
  BY <1>6, <1>7, <1>8, <1>9, <1>10

(* The ends of the loop of run.                                            *)
LEMMA RunInv ==
  ASSUME IndexerInv, ChannelClosed \/ BeginSync
  PROVE  IndexerInv'
<1> USE DEF IndexerInv
<1>1. CASE ChannelClosed
  <2>1. /\ pc = "run" /\ pc' = "exited"
        /\ UNCHANGED <<solVars, eth, gethVars, reorgs, parseVars, produceVars, missed, faults>>
    BY <1>1 DEF ChannelClosed
  <2>2. ParseInv' /\ ProduceInv' /\ GethInv' /\ faults' \in 0 .. MaxFaults /\ parsed' = parsed
    BY <2>1 DEF ParseInv, PCs, Working, ProduceInv, Producing, GethInv, QueueInv,
                solVars, gethVars, parseVars, produceVars
  <2> QED
    BY <2>1, <2>2, IndexerKeeps
<1>2. CASE BeginSync
  <2>1. /\ pc = "run" /\ pc' = "parse" /\ toSlot' = LastSlot(sol) /\ current' = fromSlot /\ next' = fromSlot
        /\ parsed' = NoParse
        /\ UNCHANGED <<solVars, eth, gethVars, reorgs, fromSlot, produceVars, missed, faults>>
    BY <1>2 DEF BeginSync
  <2>2. LastSlot(sol) \in 0 .. MaxSlot /\ LastSlot(sol) <= LastSlot(sol)
    BY LastSlotBounds, StorageAssumption
  <2>3. ParseInv'
    BY <2>1, <2>2 DEF ParseInv, PCs, Working, solVars, NoParse
  <2>4. ProduceInv' /\ GethInv' /\ faults' \in 0 .. MaxFaults
    BY <2>1 DEF ProduceInv, Producing, GethInv, QueueInv, gethVars, produceVars
  <2> QED
    BY <2>1, <2>3, <2>4, IndexerKeeps
<1> QED
  BY <1>1, <1>2

(* A slot is parsed as it is stored at that moment.                        *)
LEMMA ParseSlotInv ==
  ASSUME IndexerInv, ParseSlot
  PROVE  IndexerInv'
<1> USE DEF IndexerInv
<1>1. /\ pc = "parse" /\ next < BatchEnd(current, toSlot) /\ next' = next + 1
      /\ parsed' = [parsed EXCEPT ![next] = sol[next].ver]
      /\ UNCHANGED <<solVars, eth, gethVars, reorgs, pc, fromSlot, toSlot, current, produceVars, missed, faults>>
  BY DEF ParseSlot
<1>2. BatchEnd(current, toSlot) \in 0 .. toSlot
  <2>1. current \in Nat /\ toSlot \in Nat
    BY StorageAssumption DEF ParseInv
  <2> QED
    BY <2>1, BatchEndFacts
<1>3. next \in 0 .. MaxSlot /\ next < toSlot /\ next + 1 \in 0 .. MaxSlot /\ toSlot <= LastSlot(sol)
  BY <1>1, <1>2, StorageAssumption DEF ParseInv, Working
<1>4. \A s \in Slots : parsed'[s] = IF s = next THEN sol[s].ver ELSE parsed[s]
  BY <1>1 DEF ParseInv
<1>5. \A s \in Slots : sol[s].ver \in {0} \cup ContentVersions
  BY DEF SolInv, SolRow
<1>6. ParseInv'
  <2>1. parsed' \in [Slots -> {0} \cup ContentVersions]
    BY <1>1, <1>4, <1>5 DEF ParseInv
  <2> QED
    BY <1>1, <1>3, <2>1 DEF ParseInv, solVars
<1>7. ProduceInv' /\ GethInv' /\ SolInv' /\ QueueInv'
  BY <1>1 DEF ProduceInv, GethInv, SolInv, QueueInv, solVars, gethVars, produceVars
<1>8. RowsInv'
  <2> SUFFICES ASSUME NEW s \in Slots, eth[s] # << >> \/ parsed'[s] # 0
               PROVE  Stored(sol, s) /\ s < LastSlot(sol)
    BY <1>1 DEF RowsInv, solVars
  <2>1. CASE eth[s] # << >> \/ parsed[s] # 0
    BY <2>1 DEF RowsInv
  <2>2. CASE s = next /\ sol[s].ver # 0
    <3>1. Stored(sol, s)
      BY <2>2 DEF SolInv
    <3>2. s < LastSlot(sol)
      BY <1>3, <2>2, LastSlotBounds, StorageAssumption DEF ParseInv
    <3> QED
      BY <3>1, <3>2
  <2> QED
    BY <1>4, <2>1, <2>2
<1>9. StaleInv'
  BY <1>1, <1>4 DEF StaleInv, NoticedBelow, Noticed, solVars
<1> QED
  BY <1>6, <1>7, <1>8, <1>9

(* New rows have the versions that were parsed.                            *)
LEMMA RegisterParseInv ==
  ASSUME IndexerInv, RegisterParseResults
  PROVE  IndexerInv'
<1> USE DEF IndexerInv
<1>1. /\ pc = "parse" /\ pc' = "pending" /\ eth' = register_parse_results(eth, parsed) /\ parsed' = NoParse
      /\ UNCHANGED <<solVars, gethVars, reorgs, fromSlot, toSlot, current, next, produceVars, missed, faults>>
  BY DEF RegisterParseResults
<1>2. /\ eth' \in EthTables
      /\ \A s \in Slots :
           /\ eth'[s] # << >> => eth[s] # << >> \/ parsed[s] # 0
           /\ \A i \in DOMAIN eth'[s] : IF i \in DOMAIN eth[s] THEN eth'[s][i] = eth[s][i]
                                        ELSE parsed[s] # 0 /\ eth'[s][i].ver = parsed[s]
  <2>1. eth \in EthTables /\ parsed \in [Slots -> {0} \cup ContentVersions]
    BY DEF RowsInv, ParseInv
  <2> QED
    <3> DEFINE f == register_parse_results(eth, parsed)
    <3>1. /\ f \in EthTables
          /\ \A s \in Slots :
               /\ f[s] # << >> /\ eth[s] = << >> => parsed[s] # 0
               /\ \A i \in DOMAIN f[s] :
                    IF i \in DOMAIN eth[s] THEN f[s][i] = eth[s][i]
                    ELSE parsed[s] # 0 /\ f[s][i] = [ver |-> parsed[s], hash |-> Genesis, receipt |-> FALSE]
      BY <2>1, RegisterFacts
    <3>2. eth' = f
      BY <1>1
    <3> HIDE DEF f
    <3>3. ASSUME NEW s \in Slots, NEW i \in DOMAIN f[s]
          PROVE  IF i \in DOMAIN eth[s] THEN f[s][i] = eth[s][i]
                 ELSE parsed[s] # 0 /\ f[s][i].ver = parsed[s]
      <4>1. CASE i \in DOMAIN eth[s]
        BY <3>1, <4>1
      <4>2. CASE i \notin DOMAIN eth[s]
        <5>1. parsed[s] # 0 /\ f[s][i] = [ver |-> parsed[s], hash |-> Genesis, receipt |-> FALSE]
          BY <3>1, <4>2
        <5> QED
          BY <4>2, <5>1
      <4> QED
        BY <4>1, <4>2
    <3>4. \A s \in Slots : f[s] # << >> => eth[s] # << >> \/ parsed[s] # 0
      BY <3>1
    <3> QED
      BY <3>1, <3>2, <3>3, <3>4
<1>3. ParseInv'
  BY <1>1 DEF ParseInv, PCs, Working, solVars, NoParse
<1>4. ProduceInv' /\ GethInv' /\ SolInv' /\ QueueInv'
  BY <1>1 DEF ProduceInv, Producing, GethInv, SolInv, QueueInv, solVars, gethVars, produceVars
<1>5. RowsInv'
  BY <1>1, <1>2 DEF RowsInv, solVars, NoParse
<1>6. StaleInv'
  <2> SUFFICES ASSUME NEW s \in Slots, NEW i \in DOMAIN eth'[s], eth'[s][i].ver # sol[s].ver
               PROVE  NoticedBelow(s)
    BY <1>1 DEF StaleInv, NoParse, solVars, NoticedBelow, Noticed
  <2> QED
    BY <1>2 DEF StaleInv
<1> QED
  BY <1>3, <1>4, <1>5, <1>6

(* The end of a batch.                                                     *)
LEMMA NextBatchTyped ==
  ASSUME ParseInv, pc \in Working \ {"parse"}, NextBatch, UNCHANGED sol
  PROVE  ParseInv' /\ ProduceInv' /\ parsed' = parsed /\ pc' \in {"parse", "run"}
<1>1. /\ NoProduction /\ current' = BatchEnd(current, toSlot) /\ next' = BatchEnd(current, toSlot)
      /\ UNCHANGED <<toSlot, parsed>> /\ pc' \in {"parse", "run"} /\ fromSlot' \in {fromSlot, toSlot}
  BY DEF NextBatch
<1>2. BatchEnd(current, toSlot) \in 0 .. toSlot /\ toSlot \in 0 .. MaxSlot
  <2>1. current \in Nat /\ toSlot \in Nat
    BY StorageAssumption DEF ParseInv
  <2> QED
    BY <2>1, BatchEndFacts DEF ParseInv
<1>3. BatchEnd(current, toSlot) \in 0 .. MaxSlot
  BY <1>2, StorageAssumption
<1>4. ParseInv'
  BY <1>1, <1>2, <1>3 DEF ParseInv, PCs, Working
<1>5. ProduceInv'
  BY <1>1, NoProductionTyped
<1> QED
  BY <1>1, <1>4, <1>5

(* The blocks of the view, and those of it that are pending.               *)
LEMMA ViewTyped ==
  ASSUME NEW table, NEW e \in EthTables
  PROVE  /\ ViewIds(table, e) \subseteq Ids(e) /\ ViewIds(table, e) \subseteq IdSet
         /\ PendingIds(table, e) \subseteq ViewIds(table, e)
         /\ \A id \in PendingIds(table, e) : ~IsProduced(e, id)
<1>1. ViewIds(table, e) \subseteq Ids(e)
  BY DEF ViewIds
<1> QED
  BY <1>1, IdsTyped DEF PendingIds

(* The numbers that restore_blocks gives to pending blocks.                *)
LEMMA RankTyped ==
  ASSUME NEW ids, ids \subseteq IdSet, NEW id
  PROVE  IsFiniteSet({x \in ids : Before(x, id)}) /\ Cardinality({x \in ids : Before(x, id)}) \in Nat
<1>1. IsFiniteSet(IdSet)
  <2>1. IsFiniteSet(Slots) /\ IsFiniteSet(1 .. 2)
    <3>1. MaxSlot \in Int /\ 1 \in Int /\ 2 \in Int
      BY StorageAssumption
    <3> QED
      BY <3>1, FS_Interval DEF Slots
  <2> QED
    BY <2>1, FS_Product DEF IdSet
<1>2. {x \in ids : Before(x, id)} \subseteq IdSet
  OBVIOUS
<1>3. IsFiniteSet({x \in ids : Before(x, id)})
  BY <1>1, <1>2, FS_Subset
<1> QED
  BY <1>3, FS_CardinalityType

(* What restore_blocks takes from the producer.                            *)
LEMMA RestoredTyped ==
  ASSUME eth \in EthTables, head \in Seq(Contents), NEW ids, ids \subseteq IdSet
  PROVE  /\ DOMAIN Restored(ids) \subseteq ids
         /\ \A id \in DOMAIN Restored(ids) :
              LET number == latest_block(eth) + 1 + Cardinality({x \in ids : Before(x, id)})
              IN  /\ number \in 1 .. Len(head) /\ Restored(ids)[id] = SubSeq(head, 1, number)
                  /\ Restored(ids)[id] \in Seq(Contents) /\ Len(Restored(ids)[id]) = number
         /\ \A id \in ids : latest_block(eth) + 1 + Cardinality({x \in ids : Before(x, id)}) <= Len(head)
                              => id \in DOMAIN Restored(ids)
<1> DEFINE number(id) == latest_block(eth) + 1 + Cardinality({x \in ids : Before(x, id)})
<1>1. ASSUME NEW id PROVE number(id) \in Nat /\ number(id) >= 1
  <2>1. latest_block(eth) \in Nat
    BY LatestBlockFacts
  <2>2. Cardinality({x \in ids : Before(x, id)}) \in Nat
    BY RankTyped
  <2> QED
    BY <2>1, <2>2
<1>2. Restored(ids) = [id \in {x \in ids : number(x) <= Len(head)} |-> SubSeq(head, 1, number(id))]
  BY DEF Restored
<1> HIDE DEF number
<1>3. DOMAIN Restored(ids) = {x \in ids : number(x) <= Len(head)}
  BY <1>2
<1>4. ASSUME NEW id \in DOMAIN Restored(ids)
      PROVE  /\ number(id) \in 1 .. Len(head) /\ Restored(ids)[id] = SubSeq(head, 1, number(id))
             /\ Restored(ids)[id] \in Seq(Contents) /\ Len(Restored(ids)[id]) = number(id)
  <2>1. number(id) \in 1 .. Len(head) /\ Restored(ids)[id] = SubSeq(head, 1, number(id))
    BY <1>1, <1>2, <1>3
  <2> QED
    BY <2>1
<1> QED
  BY <1>3, <1>4 DEF number

(* The finalized block of the storage.                                     *)
LEMMA FinalizedBlockTyped ==
  ASSUME eth \in EthTables
  PROVE  /\ FinalizedBlock.kind \in {"None", "Pending", "Produced"}
         /\ FinalizedBlock.hash \in Seq(Contents) /\ FinalizedBlock.id \in IdSet \cup {<<0, 0>>}
         /\ FinalizedBlock.kind # "None" =>
              /\ FinalizedBlock.id \in ViewIds(sol, eth) /\ sol[FinalizedBlock.id[1]].status = "Finalized"
              /\ \A id \in ViewIds(sol, eth) : sol[id[1]].status = "Finalized" =>
                   id = FinalizedBlock.id \/ Before(id, FinalizedBlock.id)
         /\ FinalizedBlock.kind = "None" => \A id \in ViewIds(sol, eth) : sol[id[1]].status # "Finalized"
         /\ FinalizedBlock.kind = "Produced" =>
              IsProduced(eth, FinalizedBlock.id) /\ FinalizedBlock.hash = Row(eth, FinalizedBlock.id).hash
         /\ FinalizedBlock.kind = "Pending" => ~IsProduced(eth, FinalizedBlock.id)
<1> DEFINE final == {id \in ViewIds(sol, eth) : sol[id[1]].status = "Finalized"}
           last == LastId(final)
<1>1. final \subseteq IdSet /\ final \subseteq ViewIds(sol, eth)
  BY ViewTyped
<1>2. CASE final = {}
  <2>1. FinalizedIds(sol, eth) = {}
    BY <1>2 DEF FinalizedIds
  <2>2. FinalizedBlock = NoFinal
    BY <2>1 DEF FinalizedBlock
  <2> QED
    BY <1>2, <2>2 DEF NoFinal, Genesis
<1>3. CASE final # {}
  <2>1. last \in final /\ \A b \in final : last = b \/ Before(b, last)
    <3> HIDE DEF final
    <3> QED
      BY <1>1, <1>3, IdExtremes
  <2>2. FinalizedIds(sol, eth) = {last}
    BY <1>3 DEF FinalizedIds
  <2> HIDE DEF last
  <2>3. (CHOOSE x \in {last} : TRUE) = last
    OBVIOUS
  <2>4. FinalizedBlock = IF IsProduced(eth, last)
                         THEN [kind |-> "Produced", hash |-> Row(eth, last).hash, id |-> last]
                         ELSE [kind |-> "Pending", hash |-> Genesis, id |-> last]
    BY <2>2, <2>3 DEF FinalizedBlock
  <2>5. last \in IdSet /\ last \in ViewIds(sol, eth) /\ last \in Ids(eth)
    BY <1>1, <2>1, ViewTyped
  <2>6. Row(eth, last).hash \in Seq(Contents)
    BY <2>5, IdsTyped DEF EthRow
  <2>7. CASE IsProduced(eth, last)
    <3>1. FinalizedBlock = [kind |-> "Produced", hash |-> Row(eth, last).hash, id |-> last]
      BY <2>4, <2>7
    <3> QED
      BY <2>1, <2>5, <2>6, <2>7, <3>1
  <2>8. CASE ~IsProduced(eth, last)
    <3>1. FinalizedBlock = [kind |-> "Pending", hash |-> Genesis, id |-> last] /\ Genesis \in Seq(Contents)
      BY <2>4, <2>8 DEF Genesis
    <3> QED
      BY <2>1, <2>5, <2>8, <3>1
  <2> QED
    BY <2>7, <2>8
<1> QED
  BY <1>2, <1>3

(* parent_hash is the hash of the last produced block of the view.         *)
LEMMA ParentHashTyped ==
  ASSUME eth \in EthTables
  PROVE  LET seen == {id \in ViewIds(sol, eth) : IsProduced(eth, id)}
         IN  /\ seen = {} => ParentHash(sol, eth) = {}
             /\ seen # {} => /\ ParentHash(sol, eth) = {Row(eth, LastId(seen)).hash}
                             /\ Row(eth, LastId(seen)).hash \in Seq(Contents)
                             /\ LastId(seen) \in seen
                             /\ \A b \in seen : LastId(seen) = b \/ Before(b, LastId(seen))
<1> DEFINE seen == {id \in ViewIds(sol, eth) : IsProduced(eth, id)}
<1>1. seen \subseteq IdSet /\ seen \subseteq Ids(eth)
  BY ViewTyped
<1>2. seen = {} => ParentHash(sol, eth) = {}
  BY DEF ParentHash
<1>3. ASSUME seen # {}
      PROVE  /\ ParentHash(sol, eth) = {Row(eth, LastId(seen)).hash}
             /\ Row(eth, LastId(seen)).hash \in Seq(Contents) /\ LastId(seen) \in seen
             /\ \A b \in seen : LastId(seen) = b \/ Before(b, LastId(seen))
  <2>1. ParentHash(sol, eth) = {Row(eth, LastId(seen)).hash}
    BY <1>3 DEF ParentHash
  <2> HIDE DEF seen
  <2>2. LastId(seen) \in seen /\ \A b \in seen : LastId(seen) = b \/ Before(b, LastId(seen))
    BY <1>1, <1>3, IdExtremes
  <2>3. Row(eth, LastId(seen)).hash \in Seq(Contents)
    BY <1>1, <2>2, IdsTyped DEF EthRow
  <2> QED
    BY <2>1, <2>2, <2>3
<1> QED
  BY <1>2, <1>3

(* restore_blocks, or the start of produce_blocks.                         *)
LEMMA PendingInv ==
  ASSUME IndexerInv, NothingPending \/ RestoreBlocks \/ StartProducing
  PROVE  IndexerInv'
<1> USE DEF IndexerInv
<1>0. /\ pc = "pending" /\ UNCHANGED <<solVars, eth, gethVars, reorgs, missed, faults>>
      /\ GethInv' /\ faults' \in 0 .. MaxFaults /\ eth \in EthTables
  BY DEF NothingPending, RestoreBlocks, StartProducing, GethInv, QueueInv, RowsInv, gethVars
<1>1. CASE NothingPending
  <2>1. ParseInv' /\ ProduceInv' /\ parsed' = parsed
    BY <1>0, <1>1, NextBatchTyped DEF NothingPending, Working, solVars
  <2> QED
    BY <1>0, <2>1, IndexerKeeps
<1>2. PendingIds(sol, eth) \subseteq Ids(eth) /\ PendingIds(sol, eth) \subseteq IdSet
  BY <1>0, ViewTyped
<1>3. CASE RestoreBlocks
  <2>1. UNCHANGED parseVars /\ pc' \in {"register", "dead"}
    BY <1>3 DEF RestoreBlocks
  <2>2. ParseInv' /\ parsed' = parsed
    BY <1>0, <2>1 DEF ParseInv, parseVars, PCs, Working, solVars
  <2>3. CASE pc' = "register"
    <3>1. produced' = Restored(PendingIds(sol, eth)) /\ pending' = {} /\ UNCHANGED <<parent, finalBlock>>
      BY <1>3, <2>3 DEF RestoreBlocks
    <3>2. DOMAIN produced' \subseteq IdSet /\ \A id \in DOMAIN produced' : produced'[id] \in Seq(Contents)
      BY <1>0, <1>2, <3>1, RestoredTyped DEF GethInv
    <3>3. ProduceInv'
      BY <2>3, <3>1, <3>2 DEF ProduceInv
    <3> QED
      BY <1>0, <2>2, <3>3, IndexerKeeps
  <2>4. CASE pc' = "dead"
    <3>1. UNCHANGED produceVars
      BY <1>3, <2>4 DEF RestoreBlocks
    <3>2. ProduceInv'
      BY <2>4, <3>1 DEF ProduceInv, Producing, produceVars
    <3> QED
      BY <1>0, <2>2, <3>2, IndexerKeeps
  <2> QED
    BY <2>1, <2>3, <2>4
<1>4. CASE StartProducing
  <2>1. UNCHANGED parseVars /\ pc' \in {"build", "dead"}
    BY <1>4 DEF StartProducing
  <2>2. ParseInv' /\ parsed' = parsed
    BY <1>0, <2>1 DEF ParseInv, parseVars, PCs, Working, solVars
  <2>3. CASE pc' = "build"
    <3> DEFINE on == ParentHash(sol, eth)
    <3>1. /\ parent' = IF on = {} THEN Genesis ELSE CHOOSE h \in on : TRUE
          /\ pending' = PendingIds(sol, eth) /\ finalBlock' = FinalizedBlock /\ produced' = NoBlocks
      BY <1>4, <2>3 DEF StartProducing
    <3>2. parent' \in Seq(Contents)
      <4>1. on = {} \/ \E h \in Seq(Contents) : on = {h}
        BY <1>0, ParentHashTyped
      <4> HIDE DEF on
      <4> QED
        BY <3>1, <4>1 DEF Genesis
    <3>3. DOMAIN produced' = {}
      BY <3>1 DEF NoBlocks
    <3>4. /\ finalBlock'.kind \in {"None", "Pending", "Produced"}
          /\ finalBlock'.hash \in Seq(Contents) /\ finalBlock'.id \in IdSet \cup {<<0, 0>>}
      BY <1>0, <3>1, FinalizedBlockTyped
    <3>5. ProduceInv'
      BY <1>0, <1>2, <2>3, <3>1, <3>2, <3>3, <3>4 DEF ProduceInv
    <3> QED
      BY <1>0, <2>2, <3>5, IndexerKeeps
  <2>4. CASE pc' = "dead"
    <3>1. UNCHANGED produceVars
      BY <1>4, <2>4 DEF StartProducing
    <3>2. ProduceInv'
      BY <2>4, <3>1 DEF ProduceInv, Producing, produceVars
    <3> QED
      BY <1>0, <2>2, <3>2, IndexerKeeps
  <2> QED
    BY <2>1, <2>3, <2>4
<1> QED
  BY <1>1, <1>3, <1>4

(* The two forkchoice updates of a block, and the end of the loop.         *)
LEMMA ProduceStepInv ==
  ASSUME IndexerInv, ForkchoiceParent \/ ForkchoiceNew \/ EndProducing
  PROVE  IndexerInv'
<1> USE DEF IndexerInv
<1>0. CurrentFinalized \in Seq(Contents)
  BY DEF CurrentFinalized, ProduceInv, GethInv, Genesis
<1>1. CASE ForkchoiceParent
  <2>1. /\ pc = "build" /\ pending # {} /\ pc' = "switched" /\ head' = parent /\ gethFinal' = CurrentFinalized
        /\ UNCHANGED <<solVars, eth, known, reorgs, parseVars, produceVars, missed, faults>>
    BY <1>1 DEF ForkchoiceParent, ProducedEnough
  <2>2. GethInv'
    BY <1>0, <2>1 DEF GethInv, ProduceInv
  <2>3. ParseInv' /\ parsed' = parsed
    BY <2>1 DEF ParseInv, parseVars, PCs, Working, solVars
  <2>4. ProduceInv' /\ faults' \in 0 .. MaxFaults
    BY <2>1 DEF ProduceInv, Producing, produceVars, QueueInv
  <2> QED
    BY <2>1, <2>2, <2>3, <2>4, IndexerKeeps
<1>2. CASE ForkchoiceNew
  <2> DEFINE id == FirstId(pending)
             hash == Append(parent, Content(id, Row(eth, id).ver))
  <2>1. /\ pc = "switched" /\ pc' = "build"
        /\ UNCHANGED <<solVars, eth, reorgs, parseVars, finalBlock, missed, faults>>
        /\ head' = hash /\ known' = known \cup {hash} /\ parent' = hash /\ pending' = pending \ {id}
        /\ produced' = [x \in DOMAIN produced \cup {id} |-> IF x = id THEN hash ELSE produced[x]]
        /\ gethFinal' \in {hash, CurrentFinalized}
    BY <1>2 DEF ForkchoiceNew
  <2>2. pending # {} /\ pending \subseteq Ids(eth) /\ eth \in EthTables /\ parent \in Seq(Contents)
    BY <2>1 DEF ProduceInv, Producing, RowsInv
  <2>3. hash \in Seq(Contents)
    BY <2>2, BuiltTyped
  <2>4. gethFinal' \in Seq(Contents)
    BY <1>0, <2>1, <2>3
  <2> QED
    BY <2>1, <2>2, <2>4, BuildStepInv
<1>3. CASE EndProducing
  <2>1. /\ pc = "build" /\ UNCHANGED <<solVars, eth, gethVars, reorgs, missed, faults>>
        /\ NextBatch \/ (pc' = "register" /\ UNCHANGED <<parseVars, produceVars>>)
    BY <1>3 DEF EndProducing
  <2>2. GethInv' /\ faults' \in 0 .. MaxFaults
    BY <2>1 DEF GethInv, gethVars, QueueInv
  <2>3. CASE NextBatch
    <3>1. ParseInv' /\ ProduceInv' /\ parsed' = parsed
      BY <2>1, <2>3, NextBatchTyped DEF Working, solVars
    <3> QED
      BY <2>1, <2>2, <3>1, IndexerKeeps
  <2>4. CASE pc' = "register" /\ UNCHANGED <<parseVars, produceVars>>
    <3>1. ParseInv' /\ parsed' = parsed
      BY <2>1, <2>4 DEF ParseInv, parseVars, PCs, Working, solVars
    <3>2. ProduceInv'
      BY <2>1, <2>4 DEF ProduceInv, Producing, produceVars
    <3> QED
      BY <2>1, <2>2, <3>1, <3>2, IndexerKeeps
  <2> QED
    BY <2>1, <2>3, <2>4
<1> QED
  BY <1>1, <1>2, <1>3

(* Rows that are rewritten in place keep their slots and versions.         *)
LEMMA InPlaceInv ==
  ASSUME IndexerInv, eth' \in EthTables, SameBlocks(eth, eth'), ParseInv', ProduceInv',
         parsed' = parsed, UNCHANGED <<solVars, gethVars, reorgs, missed, faults>>
  PROVE  IndexerInv'
<1> USE DEF IndexerInv
<1>1. SolInv' /\ QueueInv' /\ GethInv'
  BY DEF SolInv, QueueInv, GethInv, solVars, gethVars
<1>2. RowsInv'
  BY DEF RowsInv, SameBlocks, solVars
<1>3. StaleInv'
  BY DEF StaleInv, SameBlocks, NoticedBelow, Noticed, solVars
<1> QED
  BY <1>1, <1>2, <1>3

(* Such a rewrite keeps the ids.                                           *)
LEMMA SameIds ==
  ASSUME NEW e, NEW f, SameBlocks(e, f)
  PROVE  Ids(f) = Ids(e)
  BY DEF SameBlocks, Ids

(* The two transactions of blocks_produced.                                *)
LEMMA RegisterInv ==
  ASSUME IndexerInv, RegisterProduced \/ RegisterReceipts
  PROVE  IndexerInv'
<1> USE DEF IndexerInv
<1>0. eth \in EthTables
  BY DEF RowsInv
<1>1. CASE RegisterProduced
  <2>1. /\ pc = "register" /\ pc' = "receipts" /\ eth' = block_produced(eth, produced)
        /\ UNCHANGED <<solVars, gethVars, reorgs, parseVars, produceVars, missed, faults>>
    BY <1>1 DEF RegisterProduced
  <2>2. eth' \in EthTables /\ SameBlocks(eth, eth')
    BY <1>0, <2>1, BlockProducedFacts DEF ProduceInv
  <2>3. Ids(eth') = Ids(eth)
    BY <2>2, SameIds
  <2>4. ParseInv' /\ parsed' = parsed
    BY <2>1 DEF ParseInv, parseVars, PCs, Working, solVars
  <2>5. ProduceInv'
    BY <2>1, <2>3 DEF ProduceInv, Producing, produceVars
  <2> QED
    BY <2>1, <2>2, <2>4, <2>5, InPlaceInv
<1>2. CASE RegisterReceipts
  <2>1. /\ pc = "receipts" /\ eth' = store_receipts(eth, DOMAIN produced)
        /\ UNCHANGED <<solVars, gethVars, reorgs, missed, faults>>
        /\ \/ NextBatch
           \/ pc' = "build" /\ produced' = NoBlocks /\ UNCHANGED <<parseVars, pending, parent, finalBlock>>
    BY <1>2 DEF RegisterReceipts
  <2>2. eth' \in EthTables /\ SameBlocks(eth, eth')
    BY <1>0, <2>1, StoreReceiptsFacts
  <2>3. Ids(eth') = Ids(eth)
    BY <2>2, SameIds
  <2>4. CASE NextBatch
    <3>1. ParseInv' /\ ProduceInv' /\ parsed' = parsed
      BY <2>1, <2>4, NextBatchTyped DEF Working, solVars
    <3> QED
      BY <2>1, <2>2, <3>1, InPlaceInv
  <2>5. CASE pc' = "build" /\ produced' = NoBlocks /\ UNCHANGED <<parseVars, pending, parent, finalBlock>>
    <3>1. ParseInv' /\ parsed' = parsed
      BY <2>1, <2>5 DEF ParseInv, parseVars, PCs, Working, solVars
    <3>2. ProduceInv'
      BY <2>1, <2>3, <2>5 DEF ProduceInv, Producing, NoBlocks
    <3> QED
      BY <2>1, <2>2, <3>1, <3>2, InPlaceInv
  <2> QED
    BY <2>1, <2>4, <2>5
<1> QED
  BY <1>1, <1>2

-----------------------------------------------------------------------------
(* Failures.                                                               *)

(* A new process has seen no event; those under way are missed.            *)
LEMMA StartProcessInv ==
  ASSUME IndexerInv, StartProcess, UNCHANGED <<sol, eth, gethVars>>, faults' \in 0 .. MaxFaults
  PROVE  IndexerInv'
<1> USE DEF IndexerInv, StartProcess
<1>1. reorgs \in Seq(Slots) /\ {reorgs[i] : i \in DOMAIN reorgs} \subseteq Slots /\ changed \subseteq Slots
  BY DEF QueueInv, SolInv
<1>2. SolInv' /\ GethInv'
  BY DEF SolInv, GethInv, gethVars
<1>3. QueueInv'
  BY <1>1 DEF QueueInv
<1>4. ParseInv'
  BY StorageAssumption DEF ParseInv, PCs, Working, NoParse
<1>5. ProduceInv'
  BY NoProductionTyped
<1>6. RowsInv'
  BY DEF RowsInv, NoParse
<1>7. Noticed \subseteq Noticed'
  BY DEF Noticed
<1>8. StaleInv'
  BY <1>7 DEF StaleInv, NoticedBelow, NoParse
<1> QED
  BY <1>2, <1>3, <1>4, <1>5, <1>6, <1>8

(* Faults.                                                                 *)
LEMMA FaultInv ==
  ASSUME IndexerInv,
         CallFails \/ Crash \/ Restart \/ (\E n \in 0 .. Len(head) : GethLosesBlocks(n)) \/ UNCHANGED vars
  PROVE  IndexerInv'
<1> USE DEF IndexerInv
<1>0. faults < MaxFaults => faults + 1 \in 0 .. MaxFaults
  BY IndexerAssumption DEF QueueInv
<1>1. CASE CallFails
  <2>1. /\ faults' \in 0 .. MaxFaults /\ pc' = "dead" /\ NoProduction
        /\ UNCHANGED <<solVars, eth, gethVars, reorgs, parseVars, missed>>
    BY <1>0, <1>1 DEF CallFails
  <2>2. ProduceInv' /\ GethInv'
    BY <2>1, NoProductionTyped DEF GethInv, gethVars
  <2>3. ParseInv' /\ parsed' = parsed
    BY <2>1 DEF ParseInv, parseVars, PCs, Working, solVars
  <2> QED
    BY <2>1, <2>2, <2>3, IndexerKeeps
<1>2. CASE Crash
  BY <1>0, <1>2, StartProcessInv DEF Crash
<1>3. CASE Restart
  <2>1. faults' \in 0 .. MaxFaults
    BY <1>3 DEF Restart, QueueInv
  <2> QED
    BY <1>3, <2>1, StartProcessInv DEF Restart
<1>4. ASSUME NEW n \in 0 .. Len(head), GethLosesBlocks(n) PROVE IndexerInv'
  <2>1. /\ faults' \in 0 .. MaxFaults /\ n \in Len(gethFinal) .. (Len(head) - 1)
        /\ head' = SubSeq(head, 1, n) /\ known' = {SubSeq(head, 1, i) : i \in 0 .. n}
        /\ UNCHANGED <<solVars, eth, gethFinal, reorgs, pc, parseVars, produceVars, missed>>
    BY <1>0, <1>4 DEF GethLosesBlocks
  <2>2. \A i \in 0 .. n : SubSeq(head, 1, i) \in Seq(Contents)
    <3>1. head \in Seq(Contents) /\ Len(head) \in Nat
      BY DEF GethInv
    <3> SUFFICES ASSUME NEW i \in 0 .. n PROVE SubSeq(head, 1, i) \in Seq(Contents)
      OBVIOUS
    <3>2. i \in 0 .. Len(head)
      BY <3>1
    <3> QED
      BY <3>1, <3>2
  <2>3. GethInv'
    <3>1. n \in 0 .. n
      BY DEF GethInv
    <3> QED
      BY <2>1, <2>2, <3>1 DEF GethInv
  <2>4. ParseInv' /\ parsed' = parsed
    BY <2>1 DEF ParseInv, parseVars, solVars
  <2>5. ProduceInv'
    BY <2>1 DEF ProduceInv, produceVars
  <2> QED
    BY <2>1, <2>3, <2>4, <2>5, IndexerKeeps
<1>5. CASE UNCHANGED vars
  <2>1. GethInv' /\ faults' \in 0 .. MaxFaults
    BY <1>5 DEF vars, GethInv, gethVars, QueueInv
  <2>2. ParseInv' /\ parsed' = parsed
    BY <1>5 DEF vars, ParseInv, parseVars, solVars
  <2>3. ProduceInv'
    BY <1>5 DEF vars, ProduceInv, produceVars
  <2>4. UNCHANGED <<solVars, eth, reorgs, missed>>
    BY <1>5 DEF vars
  <2> QED
    BY <2>1, <2>2, <2>3, <2>4, IndexerKeeps
<1> QED
  BY <1>1, <1>2, <1>3, <1>4, <1>5

(* Every step preserves the invariant.                                     *)
LEMMA IndexerInvStep == IndexerInv /\ [Next]_vars => IndexerInv'
<1> SUFFICES ASSUME IndexerInv, [Next]_vars PROVE IndexerInv'
  OBVIOUS
<1>1. CASE LoaderStep
  BY <1>1, LoaderStoresInv, LoaderMarksInv, LoaderUpdatesInv, LoaderSendsInv DEF LoaderStep
<1>2. CASE IndexerStep
  BY <1>2, PreRunInv, StartReproducingInv, RebuildInv, HandleReorgInv, RunInv, ParseSlotInv,
     RegisterParseInv, PendingInv, ProduceStepInv, RegisterInv, FaultInv DEF IndexerStep, Sleep
<1>3. CASE FaultStep
  BY <1>3, LoaderSendsInv, FaultInv DEF FaultStep
<1>4. CASE UNCHANGED vars
  BY <1>4, FaultInv
<1> QED
  BY <1>1, <1>2, <1>3, <1>4 DEF Next

(* The invariant holds in every state of the rollup indexer.               *)
THEOREM IndexerInvariant == Spec => []IndexerInv
<1> QED
  BY InitIndexerInv, IndexerInvStep, PTL DEF Spec

(* The steps that record something in the history variables.               *)
LEMMA HistoryKept ==
  ASSUME [Next]_vars
  PROVE  /\ late' = late \/ \E s \in Slots : late' = late \cup {s}
         /\ \/ cut' = cut
            \/ CallFails /\ cut' = cut \cup HalfRegistered
            \/ Crash /\ cut' = cut \cup HalfRegistered
            \/ HandleReorg /\ cut' = {id \in cut : id[1] < Head(reorgs)}
<1>1. CASE LoaderStep
  BY <1>1 DEF LoaderStep, LoaderStores, LoaderMarksFinalized, LoaderUpdatesBlocks, LoaderSendsReorg, solVars
<1>2. CASE FaultStep
  BY <1>2 DEF FaultStep, LoaderExits, CallFails, Crash, Restart, GethLosesBlocks, solVars
<1>3. CASE UNCHANGED vars
  BY <1>3 DEF vars, solVars
<1>4. CASE IndexerStep
  <2>1. CASE \/ PreRun \/ StartReproducing \/ RebuildBlock \/ CheckReproduced \/ ChannelClosed \/ BeginSync
             \/ ParseSlot \/ NothingPending \/ RestoreBlocks
    BY <2>1 DEF PreRun, StartReproducing, RebuildBlock, CheckReproduced, ChannelClosed, BeginSync,
                ParseSlot, NothingPending, RestoreBlocks, solVars
  <2>2. CASE \/ StartProducing \/ ForkchoiceParent \/ ForkchoiceNew \/ EndProducing \/ HandleReorg
             \/ RegisterParseResults \/ RegisterProduced \/ RegisterReceipts
    BY <2>2 DEF StartProducing, ForkchoiceParent, ForkchoiceNew, EndProducing, HandleReorg,
                RegisterParseResults, RegisterProduced, RegisterReceipts, solVars
  <2> QED
    BY <1>3, <1>4, <2>1, <2>2 DEF IndexerStep, Sleep
<1> QED
  BY <1>1, <1>2, <1>3, <1>4 DEF Next

LEMMA HistoryInvStep == IndexerInv /\ HistoryInv /\ [Next]_vars => HistoryInv'
<1> SUFFICES ASSUME IndexerInv, HistoryInv, [Next]_vars PROVE HistoryInv'
  OBVIOUS
<1>1. HalfRegistered \subseteq IdSet
  BY DEF HalfRegistered, IndexerInv, ProduceInv
<1> QED
  BY <1>1, HistoryKept DEF HistoryInv

(* The rollup indexer keeps its types, with every fault and any number of  *)
(* reorgs: the cursors stay within the slots and a block is only built of  *)
(* a row that exists.                                                      *)
THEOREM RollupTypeCorrect == Spec => []TypeOK
<1>1. Init => HistoryInv
  BY DEF Init, HistoryInv
<1> QED
  BY <1>1, IndexerInvariant, IndexerInvTyped, HistoryInvStep, PTL DEF Spec

(* While the indexer waits for new slots, a block that was made from a     *)
(* replaced Solana block is left only where the reorg event of a slot at   *)
(* or below its own was never received.                                    *)
THEOREM StaleOnlyIfMissedCorrect == Spec => []StaleOnlyIfMissed
<1>1. IndexerInv => StaleOnlyIfMissed
  <2> SUFFICES ASSUME IndexerInv, InSync, NEW id \in Ids(eth), Row(eth, id).ver # sol[id[1]].ver
               PROVE  \E m \in missed : m <= id[1]
    BY DEF StaleOnlyIfMissed
  <2> USE DEF IndexerInv, InSync
  <2>1. id[1] \in Slots /\ id[2] \in DOMAIN eth[id[1]] /\ Row(eth, id) = eth[id[1]][id[2]]
    BY IdsTyped DEF RowsInv
  <2>2. NoticedBelow(id[1])
    BY <2>1 DEF StaleInv
  <2>3. Noticed = missed
    BY DEF Noticed
  <2> QED
    BY <2>2, <2>3 DEF NoticedBelow
<1> QED
  BY <1>1, IndexerInvariant, PTL

-----------------------------------------------------------------------------
(* Receipts.                                                               *)

(* A produced row without receipts is one whose receipts are next, or one  *)
(* whose registration was cut short.                                       *)
ReceiptsInv ==
  \A s \in Slots : \A i \in DOMAIN eth[s] :
    eth[s][i].hash # Genesis /\ eth[s][i].receipt # TRUE =>
      <<s, i>> \in cut \/ (pc = "receipts" /\ <<s, i>> \in DOMAIN produced)

LEMMA ReceiptsStep ==
  ASSUME IndexerInv, ReceiptsInv, [Next]_vars
  PROVE  ReceiptsInv'
<1> USE DEF ReceiptsInv
<1>0. eth \in EthTables /\ \A id \in DOMAIN produced : produced[id] \in Seq(Contents)
  BY DEF IndexerInv, RowsInv, ProduceInv
<1>1. CASE RegisterProduced
  <2>1. /\ pc = "register" /\ pc' = "receipts" /\ eth' = block_produced(eth, produced)
        /\ produced' = produced /\ cut' = cut
    BY <1>1 DEF RegisterProduced, produceVars
  <2>2. /\ \A s \in Slots : DOMAIN eth'[s] = DOMAIN eth[s]
        /\ \A s \in Slots : \A i \in DOMAIN eth[s] :
             (<<s, i>> \in DOMAIN produced /\ eth[s][i].hash = Genesis) \/ eth'[s][i] = eth[s][i]
    BY <1>0, <2>1, BlockProducedFacts DEF SameBlocks
  <2>3. ASSUME NEW s \in Slots, NEW i \in DOMAIN eth'[s], eth'[s][i].hash # Genesis, eth'[s][i].receipt # TRUE
        PROVE  <<s, i>> \in cut' \/ <<s, i>> \in DOMAIN produced'
    <3>1. CASE <<s, i>> \in DOMAIN produced
      BY <2>1, <3>1
    <3>2. CASE eth'[s][i] = eth[s][i]
      BY <2>1, <2>2, <2>3, <3>2
    <3> QED
      BY <2>2, <2>3, <3>1, <3>2
  <2> QED
    BY <2>1, <2>3
<1>2. CASE RegisterReceipts
  <2>1. pc = "receipts" /\ eth' = store_receipts(eth, DOMAIN produced) /\ cut' = cut
    BY <1>2 DEF RegisterReceipts
  <2>2. /\ \A s \in Slots : DOMAIN eth'[s] = DOMAIN eth[s]
        /\ \A s \in Slots : \A i \in DOMAIN eth[s] :
             /\ eth'[s][i].hash = eth[s][i].hash
             /\ eth'[s][i].receipt = (<<s, i>> \in DOMAIN produced \/ eth[s][i].receipt)
    BY <1>0, <2>1, StoreReceiptsFacts DEF SameBlocks
  <2>3. ASSUME NEW s \in Slots, NEW i \in DOMAIN eth[s], eth[s][i].hash # Genesis, <<s, i>> \notin cut
        PROVE  eth'[s][i].receipt = TRUE
    <3>1. (<<s, i>> \in DOMAIN produced) \/ eth[s][i].receipt = TRUE
      BY <2>1, <2>3
    <3>2. (<<s, i>> \in DOMAIN produced \/ eth[s][i].receipt) = TRUE
      BY <3>1
    <3> QED
      BY <2>2, <3>2
  <2>4. ASSUME NEW s \in Slots, NEW i \in DOMAIN eth'[s], eth'[s][i].hash # Genesis, <<s, i>> \notin cut'
        PROVE  eth'[s][i].receipt = TRUE
    <3>1. i \in DOMAIN eth[s]
      BY <2>2, <2>4
    <3>2. eth[s][i].hash # Genesis /\ <<s, i>> \notin cut
      BY <2>1, <2>2, <2>4, <3>1
    <3> QED
      BY <2>3, <3>1, <3>2
  <2> QED
    BY <2>4
<1>3. CASE RegisterParseResults
  <2>1. pc = "parse" /\ eth' = register_parse_results(eth, parsed) /\ cut' = cut
    BY <1>3 DEF RegisterParseResults
  <2>2. \A s \in Slots : \A i \in DOMAIN eth'[s] :
          (i \in DOMAIN eth[s] /\ eth'[s][i] = eth[s][i]) \/ eth'[s][i].hash = Genesis
    <3> SUFFICES ASSUME NEW s \in Slots, NEW i \in DOMAIN eth'[s], i \notin DOMAIN eth[s] \/ eth'[s][i] # eth[s][i]
                 PROVE  eth'[s][i].hash = Genesis
      OBVIOUS
    <3>1. eth'[s][i] = [ver |-> parsed[s], hash |-> Genesis, receipt |-> FALSE]
      BY <1>0, <2>1, RegisterFacts DEF IndexerInv, ParseInv
    <3> QED
      BY <3>1
  <2> QED
    BY <2>1, <2>2
<1>4. CASE HandleReorg
  <2>1. /\ pc = "run" /\ eth' = [s \in Slots |-> IF s >= Head(reorgs) THEN << >> ELSE eth[s]]
        /\ cut' = {id \in cut : id[1] < Head(reorgs)} /\ Head(reorgs) \in Slots
    BY <1>4 DEF HandleReorg, clean_from_slot, IndexerInv, QueueInv
  <2>2. ASSUME NEW s \in Slots, NEW i \in DOMAIN eth'[s], eth'[s][i].hash # Genesis, eth'[s][i].receipt # TRUE
        PROVE  <<s, i>> \in cut'
    <3>1. ~(s >= Head(reorgs)) /\ eth'[s] = eth[s]
      BY <2>1, <2>2
    <3>2. s < Head(reorgs)
      BY <2>1, <3>1, StorageAssumption DEF Slots
    <3>3. <<s, i>> \in cut
      BY <2>1, <2>2, <3>1
    <3> QED
      BY <2>1, <3>2, <3>3
  <2> QED
    BY <2>2
<1>5. CASE /\ eth' = eth /\ cut \subseteq cut'
           /\ pc = "receipts" => (pc' = pc /\ produced' = produced) \/ DOMAIN produced \subseteq cut'
  BY <1>5
<1>6. CASE LoaderStep
  BY <1>5, <1>6 DEF LoaderStep, LoaderStores, LoaderMarksFinalized, LoaderUpdatesBlocks, LoaderSendsReorg,
                    produceVars
<1>7. CASE UNCHANGED vars
  BY <1>5, <1>7 DEF vars, produceVars
<1>8. CASE FaultStep
  <2>1. CASE CallFails \/ Crash
    <3>1. eth' = eth /\ cut' = cut \cup HalfRegistered
      BY <2>1 DEF CallFails, Crash
    <3> QED
      BY <1>5, <3>1 DEF HalfRegistered
  <2> QED
    BY <1>5, <1>8, <2>1 DEF FaultStep, LoaderExits, Restart, GethLosesBlocks, produceVars
<1>9. CASE IndexerStep
  <2>1. CASE \/ PreRun \/ StartReproducing \/ RebuildBlock \/ CheckReproduced \/ ChannelClosed \/ BeginSync
             \/ ParseSlot \/ NothingPending \/ RestoreBlocks
    BY <1>5, <2>1 DEF PreRun, StartReproducing, RebuildBlock, CheckReproduced, ChannelClosed, BeginSync,
                      ParseSlot, NothingPending, RestoreBlocks
  <2>2. CASE StartProducing \/ ForkchoiceParent \/ ForkchoiceNew \/ EndProducing
    BY <1>5, <2>2 DEF StartProducing, ForkchoiceParent, ForkchoiceNew, EndProducing
  <2> QED
    BY <1>1, <1>2, <1>3, <1>4, <1>7, <1>9, <2>1, <2>2 DEF IndexerStep, Sleep
<1> QED
  BY <1>6, <1>7, <1>8, <1>9 DEF Next

(* A block with a hash lacks its receipts only while they are being        *)
(* written, or where a crash or a failed call came between the two         *)
(* transactions of blocks_produced: for every number of blocks per slot,   *)
(* with every fault and reorg, and whether the block was produced or       *)
(* restored.                                                               *)
THEOREM ReceiptsStoredCorrect == Spec => []ReceiptsStored
<1>1. Init => ReceiptsInv
  BY DEF Init, ReceiptsInv
<1>2. IndexerInv /\ ReceiptsInv /\ [Next]_vars => ReceiptsInv'
  BY ReceiptsStep
<1>3. IndexerInv /\ ReceiptsInv => ReceiptsStored
  <2> SUFFICES ASSUME IndexerInv, ReceiptsInv, NEW id \in ProducedIds(eth), id \notin cut \cup HalfRegistered
               PROVE  Row(eth, id).receipt
    BY DEF ReceiptsStored
  <2>1. id \in Ids(eth) /\ eth \in EthTables /\ Row(eth, id).hash # Genesis
    BY DEF ProducedIds, IsProduced, IndexerInv, RowsInv
  <2>2. /\ id[1] \in Slots /\ id[2] \in DOMAIN eth[id[1]] /\ Row(eth, id) = eth[id[1]][id[2]]
        /\ id = <<id[1], id[2]>>
    BY <2>1, IdsTyped DEF Ids
  <2>3. <<id[1], id[2]>> \notin cut /\ ~(pc = "receipts" /\ <<id[1], id[2]>> \in DOMAIN produced)
    BY <2>2 DEF HalfRegistered
  <2>4. Row(eth, id).receipt = TRUE
    BY <2>1, <2>2, <2>3 DEF ReceiptsInv
  <2> QED
    BY <2>4
<1> QED
  BY <1>1, <1>2, <1>3, IndexerInvariant, PTL DEF Spec

-----------------------------------------------------------------------------
(* No slot is passed over.                                                 *)

(* The stored slots from the first one to index up to n have all of their  *)
(* Ethereum blocks, but for those that were inserted.                      *)
Complete(table, e, inserted, n) ==
  \A s \in Slots \ inserted :
    StartSlot <= s /\ s < n /\ Stored(table, s) => Len(e[s]) >= Count[s][table[s].ver]

(* Without reorgs there is no event, and what is below the cursor, and     *)
(* below a slot that has Ethereum blocks, is complete.                     *)
PassedInv ==
  /\ reorgs = << >> /\ changed = {}
  /\ \A s \in Slots : eth[s] # << >> => StartSlot <= s /\ Complete(sol, eth, late, s + 1)
  /\ pc = "reproduce" => fromSlot <= get_max_slot_produced(eth) + 1
  /\ pc = "rebuild" => current <= get_max_slot_produced(eth) + 1
  /\ pc = "run" => /\ StartSlot <= fromSlot /\ Complete(sol, eth, late, fromSlot)
                   /\ fromSlot = StartSlot \/ fromSlot <= LastSlot(sol)
  /\ pc \in Working => StartSlot <= current /\ current < toSlot
  /\ pc = "parse" => /\ Complete(sol, eth, late, current) /\ current <= next /\ next <= BatchEnd(current, toSlot)
                     /\ \A s \in Slots : parsed[s] # 0 => current <= s /\ s < next
                     /\ \A s \in Slots \ late : current <= s /\ s < next => parsed[s] = sol[s].ver
  /\ pc \in Working \ {"parse"} => Complete(sol, eth, late, BatchEnd(current, toSlot))

(* A step that changes neither table.                                      *)
LEMMA CompleteStays ==
  ASSUME IndexerInv, UNCHANGED <<sol, eth, late>> \/ (UNCHANGED <<sol, late>> /\ SameBlocks(eth, eth')), NEW n, Complete(sol, eth, late, n)
  PROVE  Complete(sol', eth', late', n)
  BY DEF Complete, SameBlocks

(* Completeness up to a slot includes completeness below it.               *)
LEMMA CompleteBelow ==
  ASSUME NEW table, NEW e, NEW l, NEW m \in Nat, NEW n \in Nat, m <= n, Complete(table, e, l, n)
  PROVE  Complete(table, e, l, m)
  BY StorageAssumption, IndexerAssumption DEF Complete, Slots

(* A step of the loader.                                                   *)
LEMMA LoaderPassed ==
  ASSUME MaxReorgs = 0, IndexerInv, PassedInv, LoaderStep \/ LoaderExits
  PROVE  PassedInv'
<1> USE DEF PassedInv
<1>0. /\ LastSlot(sol) \in Nat /\ StartSlot \in Nat /\ Slots \subseteq Nat /\ fromSlot \in Nat /\ toSlot \in Nat
      /\ current \in Nat /\ next \in Nat
  BY LastSlotBounds, StorageAssumption, IndexerAssumption DEF Slots, IndexerInv, ParseInv
<1> DEFINE Same(s) == sol'[s].ver = sol[s].ver /\ (Stored(sol', s) <=> Stored(sol, s))
<1> DEFINE Grown == /\ UNCHANGED <<eth, pc, parseVars>> /\ reorgs' = << >> /\ changed' = {}
                    /\ late \subseteq late' /\ \A s \in Slots \ late' : s <= LastSlot(sol) => Same(s)
                    /\ \A s \in Slots : Stored(sol, s) => Stored(sol', s)
<1>1. Grown
  <2>1. ASSUME NEW s \in Slots, NEW p \in 0 .. MaxSlot, NEW status \in {"Confirmed", "Finalized"},
               LoaderStores(s, p, status)
        PROVE  Grown
    <3>1. /\ ~Stored(sol, s) /\ late' = IF s < LastSlot(sol) THEN late \cup {s} ELSE late
          /\ sol' = [sol EXCEPT ![s] = [status |-> status, ver |-> 1, parent |-> p]]
          /\ UNCHANGED <<eth, pc, parseVars, reorgs, changed>>
      BY <2>1 DEF LoaderStores
    <3>2. s \in late' \/ ~(s <= LastSlot(sol))
      <4>1. CASE s < LastSlot(sol)
        BY <3>1, <4>1
      <4>2. s # LastSlot(sol)
        BY <1>0, <3>1, LastSlotBounds, StorageAssumption DEF Slots
      <4> QED
        BY <1>0, <4>1, <4>2
    <3>3. \A t \in Slots : t # s => sol'[t] = sol[t]
      BY <3>1 DEF IndexerInv, SolInv
    <3> QED
      BY <3>1, <3>2, <3>3 DEF Stored
  <2>2. ASSUME NEW s \in Slots, NEW S \in SUBSET ForkOf(s), LoaderMarksFinalized(s, S) PROVE Grown
    <3>1. /\ Cardinality(S) + Cardinality({t \in Slots : sol[t].ver = 2}) <= 0 /\ changed' = S
          /\ sol' = [t \in Slots |-> IF t \in ForkOf(s) THEN [sol[t] EXCEPT !.status = "Finalized"]
                                     ELSE sol[t]]
          /\ UNCHANGED <<eth, late, pc, parseVars, reorgs>>
      BY <2>2 DEF LoaderMarksFinalized
    <3>2. ForkOf(s) \subseteq {t \in Slots : Stored(sol, t)}
      <4>1. Branch(sol, s) \subseteq {t \in Slots : Stored(sol, t)}
        BY BranchStored DEF IndexerInv, SolInv
      <4> QED
        BY <4>1 DEF ForkOf
    <3>3. S = {}
      <4>1. IsFiniteSet(Slots)
        BY StorageAssumption, FS_Interval DEF Slots
      <4>2. S \subseteq Slots /\ {t \in Slots : sol[t].ver = 2} \subseteq Slots
        BY <3>2
      <4>3. IsFiniteSet(S) /\ IsFiniteSet({t \in Slots : sol[t].ver = 2})
        BY <4>1, <4>2, FS_Subset
      <4>4. Cardinality(S) \in Nat /\ Cardinality({t \in Slots : sol[t].ver = 2}) \in Nat
        BY <4>3, FS_CardinalityType
      <4>5. Cardinality(S) = 0
        BY <3>1, <4>4
      <4> QED
        BY <4>3, <4>5, FS_EmptySet
    <3>4. ASSUME NEW t \in Slots PROVE sol'[t].ver = sol[t].ver /\ (Stored(sol', t) <=> Stored(sol, t))
      <4>1. sol[t] \in SolRow
        BY DEF IndexerInv, SolInv
      <4>2. CASE t \in ForkOf(s)
        <5>1. sol'[t] = [sol[t] EXCEPT !.status = "Finalized"]
          BY <3>1, <4>2
        <5> QED
          BY <3>2, <4>1, <4>2, <5>1 DEF SolRow, Stored
      <4>3. CASE t \notin ForkOf(s)
        BY <3>1, <4>3 DEF Stored
      <4> QED
        BY <4>2, <4>3
    <3> QED
      BY <3>1, <3>3, <3>4
  <2>3. ~LoaderUpdatesBlocks /\ ~LoaderSendsReorg
    BY DEF LoaderUpdatesBlocks, LoaderSendsReorg, IndexerInv, SolInv
  <2>4. CASE LoaderExits
    BY <2>4 DEF LoaderExits, Stored
  <2> QED
    BY <2>1, <2>2, <2>3, <2>4 DEF LoaderStep
<1>2. LastSlot(sol) <= LastSlot(sol') /\ LastSlot(sol') \in Nat
  BY <1>1, LastSlotGrows, LastSlotBounds, StorageAssumption
<1>3. ASSUME NEW n \in Nat, n <= LastSlot(sol) \/ n = StartSlot, Complete(sol, eth, late, n) PROVE Complete(sol', eth', late', n)
  BY <1>0, <1>1, <1>3 DEF Complete
<1>4. ASSUME NEW s \in Slots, eth[s] # << >> PROVE StartSlot <= s /\ Complete(sol', eth', late', s + 1)
  <2>1. s < LastSlot(sol)
    BY <1>4 DEF IndexerInv, RowsInv
  <2>2. s + 1 \in Nat /\ s + 1 <= LastSlot(sol)
    BY <1>0, <2>1
  <2> QED
    BY <1>3, <1>4, <2>2
<1>5. ASSUME pc = "run"
      PROVE  StartSlot <= fromSlot /\ Complete(sol', eth', late', fromSlot) /\ (fromSlot = StartSlot \/ fromSlot <= LastSlot(sol'))
  <2>1. fromSlot \in Nat /\ (fromSlot <= LastSlot(sol) \/ fromSlot = StartSlot) /\ Complete(sol, eth, late, fromSlot)
    BY <1>0, <1>5
  <2>2. Complete(sol', eth', late', fromSlot)
    <3>1. fromSlot' = fromSlot
      BY <1>1 DEF parseVars
    <3> QED
      BY <1>3, <2>1, <3>1
  <2> QED
    BY <1>0, <1>2, <1>5, <2>1, <2>2
<1>6. ASSUME pc \in Working
      PROVE  /\ toSlot <= LastSlot(sol) /\ BatchEnd(current, toSlot) \in 0 .. toSlot
  BY <1>0, <1>6, BatchEndFacts DEF IndexerInv, ParseInv
<1>7. ASSUME pc = "parse"
      PROVE  /\ Complete(sol', eth', late', current)
             /\ \A s \in Slots \ late' : current <= s /\ s < next => parsed[s] = sol'[s].ver
  <2>1. toSlot <= LastSlot(sol) /\ BatchEnd(current, toSlot) \in 0 .. toSlot
    BY <1>6, <1>7 DEF Working
  <2>2. current <= LastSlot(sol) /\ next <= LastSlot(sol)
    BY <1>0, <1>7, <2>1
  <2>3. ASSUME NEW s \in Slots \ late', s < next PROVE sol'[s].ver = sol[s].ver
    <3>1. s <= LastSlot(sol)
      BY <1>0, <2>2, <2>3
    <3> QED
      BY <1>1, <3>1
  <2>4. Complete(sol', eth', late', current)
    <3>1. current' = current
      BY <1>1 DEF parseVars
    <3> QED
      BY <1>0, <1>3, <1>7, <2>2, <3>1
  <2>5. ASSUME NEW s \in Slots \ late', current <= s, s < next PROVE parsed[s] = sol'[s].ver
    <3>1. s \notin late
      BY <1>1, <2>5
    <3> QED
      BY <1>7, <2>3, <2>5, <3>1
  <2> QED
    BY <2>4, <2>5
<1>8. ASSUME pc \in Working \ {"parse"} PROVE Complete(sol', eth', late', BatchEnd(current, toSlot))
  <2>1. toSlot <= LastSlot(sol) /\ BatchEnd(current, toSlot) \in 0 .. toSlot
    BY <1>6, <1>8
  <2>2. BatchEnd(current, toSlot) \in Nat /\ BatchEnd(current, toSlot) <= LastSlot(sol)
    BY <1>0, <2>1
  <2>3. UNCHANGED <<current, toSlot>>
    BY <1>1 DEF parseVars
  <2> QED
    BY <1>3, <1>8, <2>2, <2>3
<1>9. UNCHANGED <<eth, pc, fromSlot, toSlot, current, next, parsed>>
  BY <1>1 DEF parseVars
<1> QED
  BY <1>1, <1>4, <1>5, <1>7, <1>8, <1>9 DEF BatchEnd

(* A step of the indexer or a fault that leaves the Solana blocks and the  *)
(* Ethereum blocks of every slot in place.                                 *)
LEMMA TablesPassed ==
  ASSUME IndexerInv, PassedInv, UNCHANGED <<sol, late>>, eth' = eth \/ SameBlocks(eth, eth')
  PROVE  /\ \A n : Complete(sol, eth, late, n) => Complete(sol', eth', late', n)
         /\ \A s \in Slots : eth'[s] # << >> => StartSlot <= s /\ Complete(sol', eth', late', s + 1)
<1>1. ASSUME NEW n, Complete(sol, eth, late, n) PROVE Complete(sol', eth', late', n)
  BY <1>1, CompleteStays
<1>2. ASSUME NEW s \in Slots, eth'[s] # << >> PROVE StartSlot <= s /\ Complete(sol', eth', late', s + 1)
  <2>1. eth[s] # << >>
    <3>1. CASE eth' = eth
      BY <1>2, <3>1
    <3>2. CASE SameBlocks(eth, eth')
      BY <1>2, <3>2 DEF SameBlocks
    <3> QED
      BY <3>1, <3>2
  <2> QED
    BY <1>1, <2>1 DEF PassedInv
<1> QED
  BY <1>1, <1>2

(* The start sequence: the cursor starts at a slot that has blocks.        *)
LEMMA StartPassed ==
  ASSUME IndexerInv, PassedInv, PreRun \/ StartReproducing \/ RebuildBlock \/ CheckReproduced
  PROVE  PassedInv'
<1>0. /\ LastSlot(sol) \in Nat /\ StartSlot \in Nat /\ Slots \subseteq Nat /\ fromSlot \in Nat /\ current \in Nat
      /\ eth \in EthTables /\ RowsInv
  BY LastSlotBounds, StorageAssumption, IndexerAssumption DEF Slots, IndexerInv, ParseInv, RowsInv
<1>1. UNCHANGED <<sol, late, eth, reorgs, changed>>
  BY DEF PreRun, StartReproducing, RebuildBlock, CheckReproduced, solVars
<1>2. ASSUME NEW id \in ProducedIds(eth)
      PROVE  /\ id[1] \in Slots /\ StartSlot <= id[1] /\ Complete(sol, eth, late, id[1] + 1) /\ id[1] < LastSlot(sol)
             /\ id[1] <= get_max_slot_produced(eth) /\ get_max_slot_produced(eth) \in Nat
             /\ Complete(sol, eth, late, id[1])
  <2>1. id \in Ids(eth)
    BY <1>0, <1>2, ProducedTyped
  <2>2. id[1] \in Slots /\ eth[id[1]] # << >>
    BY <1>0, <2>1, IdsTyped
  <2>3. StartSlot <= id[1] /\ Complete(sol, eth, late, id[1] + 1) /\ id[1] < LastSlot(sol)
    BY <2>2 DEF PassedInv, IndexerInv, RowsInv
  <2>4. id[1] <= get_max_slot_produced(eth) /\ get_max_slot_produced(eth) \in Nat
    BY <1>0, <1>2, MaxProducedFacts
  <2>5. Complete(sol, eth, late, id[1])
    <3>1. PICK s \in Slots : s = id[1]
      BY <2>2
    <3>2. s \in Nat /\ s + 1 \in Nat /\ s <= s + 1
      BY <1>0
    <3>3. Complete(sol, eth, late, s + 1)
      BY <2>3, <3>1
    <3>4. Complete(sol, eth, late, s)
      BY <3>2, <3>3, CompleteBelow
    <3> QED
      BY <3>1, <3>4
  <2> QED
    BY <2>2, <2>3, <2>4, <2>5
<1>3. /\ reorgs' = << >> /\ changed' = {}
      /\ \A s \in Slots : eth'[s] # << >> => StartSlot <= s /\ Complete(sol', eth', late', s + 1)
  BY <1>1 DEF PassedInv
<1>4. CASE PreRun
  <2>1. CASE pc' = "dead"
    BY <1>3, <2>1 DEF PassedInv, Working
  <2>2. CASE \E n : fromSlot' \in SlotsForEthBlock(eth, n) /\ pc' \in {"reproduce", "run"}
    <3>1. PICK id \in ProducedIds(eth) : fromSlot' = id[1] /\ pc' \in {"reproduce", "run"}
      BY <1>0, <2>2, SlotsForTyped
    <3>a. /\ fromSlot' \in Slots /\ StartSlot <= fromSlot' /\ fromSlot' < LastSlot(sol)
          /\ fromSlot' <= get_max_slot_produced(eth) /\ get_max_slot_produced(eth) \in Nat
          /\ Complete(sol, eth, late, fromSlot')
      BY <1>2, <3>1
    <3>2. fromSlot' <= get_max_slot_produced(eth) + 1
      BY <1>0, <3>a
    <3>3. StartSlot <= fromSlot' /\ Complete(sol', eth', late', fromSlot') /\ fromSlot' <= LastSlot(sol')
      BY <1>0, <1>1, <3>a
    <3> QED
      BY <1>1, <1>3, <3>1, <3>2, <3>3 DEF PassedInv, Working
  <2>3. CASE pc' = "run" /\ fromSlot' = StartSlot
    <3>1. Complete(sol', eth', late', StartSlot)
      BY <1>0 DEF Complete
    <3> QED
      BY <1>0, <1>3, <2>3, <3>1 DEF PassedInv, Working
  <2> QED
    BY <1>4, <2>1, <2>2, <2>3 DEF PreRun
<1>5. CASE pc \in {"reproduce", "rebuild"}
  <2>1. PICK id \in ProducedIds(eth) : id[1] = get_max_slot_produced(eth)
    <3>1. ProducedIds(eth) # {} /\ ProducedIds(eth) \subseteq IdSet
      BY <1>0, <1>5, ProducedTyped DEF IndexerInv, ParseInv
    <3> QED
      BY <3>1, IdExtremes DEF get_max_slot_produced
  <2> DEFINE max == get_max_slot_produced(eth)
  <2>2. max \in Nat /\ StartSlot <= max /\ Complete(sol, eth, late, max + 1) /\ max < LastSlot(sol)
    BY <1>2, <2>1
  <2>3. get_max_slot_produced(eth') = max
    BY <1>1
  <2> HIDE DEF max
  <2>4. CASE StartReproducing
    <3>1. pc = "reproduce" /\ fromSlot <= max + 1 /\ BatchEnd(fromSlot, max + 1) <= max + 1
      <4>1. pc = "reproduce" /\ fromSlot <= max + 1
        BY <2>4 DEF StartReproducing, PassedInv, max
      <4>2. max + 1 \in Nat
        BY <2>2
      <4> QED
        BY <1>0, <4>1, <4>2, BatchEndFacts
    <3>2. \/ pc' = "reproduce" /\ fromSlot' <= max + 1
          \/ pc' = "rebuild" /\ current' <= max + 1
          \/ pc' = "dead"
          \/ pc' = "run" /\ fromSlot' = fromSlot /\ ~(fromSlot < max + 1)
      BY <2>4, <3>1 DEF StartReproducing, max
    <3>3. CASE pc' = "run" /\ fromSlot' = fromSlot /\ ~(fromSlot < max + 1)
      <4>1. fromSlot' = max + 1
        BY <1>0, <2>2, <3>1, <3>3
      <4>2. StartSlot <= fromSlot' /\ Complete(sol', eth', late', fromSlot') /\ fromSlot' <= LastSlot(sol')
        BY <1>0, <1>1, <2>2, <4>1
      <4> QED
        BY <1>3, <3>3, <4>2 DEF PassedInv, Working
    <3> QED
      BY <1>3, <2>3, <3>2, <3>3 DEF PassedInv, Working
  <2>5. CASE RebuildBlock
    BY <1>3, <2>3, <2>5 DEF RebuildBlock, PassedInv, Working, parseVars, max
  <2>6. CASE CheckReproduced
    <3>1. pc' = "dead" \/ (pc' = "reproduce" /\ fromSlot' = current /\ current <= max + 1)
      BY <2>6 DEF CheckReproduced, PassedInv, max
    <3> QED
      BY <1>3, <2>3, <3>1 DEF PassedInv, Working
  <2> QED
    BY <1>5, <2>4, <2>5, <2>6 DEF PreRun
<1> QED
  BY <1>4, <1>5 DEF StartReproducing, RebuildBlock, CheckReproduced

(* What the main loop does with its cursors.                               *)
LEMMA BatchPassed ==
  ASSUME IndexerInv, PassedInv, pc \in Working \ {"parse"}, NextBatch, UNCHANGED <<sol, late, reorgs, changed>>,
         eth' = eth \/ SameBlocks(eth, eth')
  PROVE  PassedInv'
<1>0. /\ current \in Nat /\ toSlot \in Nat /\ StartSlot \in Nat /\ toSlot <= LastSlot(sol) /\ parsed = NoParse
  BY IndexerAssumption DEF IndexerInv, ParseInv, Working, Slots
<1> DEFINE end == BatchEnd(current, toSlot)
<1>1. /\ StartSlot <= current /\ current < toSlot /\ Complete(sol, eth, late, end)
  BY DEF PassedInv
<1>2. end \in Nat /\ end <= toSlot /\ current < end
  BY <1>0, <1>1, BatchEndFacts
<1>3. Complete(sol', eth', late', end) /\ \A s \in Slots : eth'[s] # << >> => StartSlot <= s /\ Complete(sol', eth', late', s + 1)
  BY <1>1, TablesPassed
<1> HIDE DEF end
<1>4. /\ current' = end /\ next' = end /\ toSlot' = toSlot /\ parsed' = NoParse
      /\ (pc' = "parse" /\ end < toSlot) \/ (pc' = "run" /\ fromSlot' = toSlot /\ end = toSlot)
  BY <1>0, <1>2 DEF NextBatch, end
<1>5. CASE pc' = "run" /\ fromSlot' = toSlot /\ end = toSlot
  BY <1>0, <1>1, <1>2, <1>3, <1>5 DEF PassedInv, Working
<1>6. CASE pc' = "parse" /\ end < toSlot
  <2>1. end < BatchEnd(end, toSlot)
    BY <1>0, <1>2, <1>6, BatchEndFacts
  <2>2. StartSlot <= end /\ BatchEnd(end, toSlot) \in Nat
    BY <1>0, <1>1, <1>2, BatchEndFacts
  <2>3. \A s \in Slots : parsed'[s] = 0 /\ ~(end <= s /\ s < end)
    BY <1>2, <1>4, StorageAssumption DEF NoParse, Slots
  <2>4. next' <= BatchEnd(current', toSlot')
    BY <1>2, <1>4, <2>1, <2>2
  <2>5. /\ \A s \in Slots : parsed'[s] # 0 => current' <= s /\ s < next'
        /\ \A s \in Slots \ late' : current' <= s /\ s < next' => parsed'[s] = sol'[s].ver
    BY <1>4, <2>3
  <2> QED
    BY <1>2, <1>3, <1>4, <1>6, <2>2, <2>4, <2>5 DEF PassedInv, Working
<1> QED
  BY <1>4, <1>5, <1>6

(* The cursor enters a range at a slot up to which all is complete.        *)
LEMMA RunPassed ==
  ASSUME IndexerInv, PassedInv, HandleReorg \/ ChannelClosed \/ BeginSync
  PROVE  PassedInv'
<1>0. fromSlot \in Nat /\ LastSlot(sol) \in Nat /\ StartSlot \in Nat
  BY LastSlotBounds, StorageAssumption, IndexerAssumption DEF Slots, IndexerInv, ParseInv
<1>1. ~HandleReorg
  BY DEF HandleReorg, PassedInv
<1>2. CASE ChannelClosed
  BY <1>2 DEF ChannelClosed, PassedInv, Working, solVars
<1>3. CASE BeginSync
  <2>1. /\ pc = "run" /\ fromSlot < LastSlot(sol) /\ toSlot' = LastSlot(sol) /\ current' = fromSlot
        /\ next' = fromSlot /\ parsed' = NoParse /\ pc' = "parse" /\ UNCHANGED <<sol, late, changed, eth, reorgs>>
    BY <1>3 DEF BeginSync, solVars
  <2>2. StartSlot <= fromSlot /\ Complete(sol, eth, late, fromSlot)
    BY <2>1 DEF PassedInv
  <2>3. next' <= BatchEnd(current', toSlot')
    <3>1. fromSlot < BatchEnd(fromSlot, LastSlot(sol)) /\ BatchEnd(fromSlot, LastSlot(sol)) \in Nat
      BY <1>0, <2>1, BatchEndFacts
    <3> QED
      BY <1>0, <2>1, <3>1
  <2>4. \A s \in Slots : parsed'[s] = 0 /\ ~(current' <= s /\ s < next')
    BY <1>0, <2>1, StorageAssumption DEF NoParse, Slots
  <2> QED
    BY <1>0, <2>1, <2>2, <2>3, <2>4 DEF PassedInv, Working
<1> QED
  BY <1>1, <1>2, <1>3

(* A batch is parsed slot by slot.                                         *)
LEMMA ParseSlotPassed ==
  ASSUME IndexerInv, PassedInv, ParseSlot
  PROVE  PassedInv'
<1>0. /\ current \in Nat /\ next \in Nat /\ toSlot \in Nat /\ Slots \subseteq Nat /\ StartSlot \in Nat
      /\ parsed \in [Slots -> {0} \cup ContentVersions]
  BY StorageAssumption, IndexerAssumption DEF IndexerInv, ParseInv, Slots
<1>1. /\ pc = "parse" /\ pc' = "parse" /\ next < BatchEnd(current, toSlot) /\ next' = next + 1
      /\ parsed' = [parsed EXCEPT ![next] = sol[next].ver]
      /\ UNCHANGED <<sol, late, changed, eth, reorgs, toSlot, current, fromSlot>>
  BY DEF ParseSlot, solVars
<1>2. BatchEnd(current, toSlot) \in Nat
  BY <1>0, BatchEndFacts
<1>3. ASSUME NEW s \in Slots
      PROVE  /\ parsed'[s] # 0 => current' <= s /\ s < next'
             /\ s \notin late' /\ current' <= s /\ s < next' => parsed'[s] = sol'[s].ver
  <2>1. /\ parsed[s] # 0 => current <= s /\ s < next
        /\ s \notin late /\ current <= s /\ s < next => parsed[s] = sol[s].ver
        /\ current <= next
    BY <1>1 DEF PassedInv
  <2>2. CASE s = next
    BY <1>0, <1>1, <2>1, <2>2
  <2>3. CASE s # next
    BY <1>0, <1>1, <2>1, <2>3
  <2> QED
    BY <2>2, <2>3
<1>4. current <= next + 1 /\ next + 1 <= BatchEnd(current, toSlot)
  BY <1>0, <1>1, <1>2 DEF PassedInv
<1> QED
  BY <1>1, <1>3, <1>4 DEF PassedInv, Working

(* The parse results make the batch complete.                              *)
LEMMA RegisterParsePassed ==
  ASSUME IndexerInv, PassedInv, RegisterParseResults
  PROVE  PassedInv'
<1>0. /\ current \in Nat /\ next \in Nat /\ toSlot \in Nat /\ Slots \subseteq Nat /\ StartSlot \in Nat
      /\ parsed \in [Slots -> {0} \cup ContentVersions] /\ eth \in EthTables /\ sol \in [Slots -> SolRow]
  BY StorageAssumption, IndexerAssumption DEF IndexerInv, ParseInv, Slots, RowsInv, SolInv
<1>1. /\ pc = "parse" /\ pc' = "pending" /\ next = BatchEnd(current, toSlot)
      /\ eth' = register_parse_results(eth, parsed) /\ UNCHANGED <<sol, late, changed, reorgs, toSlot, current, fromSlot>>
  BY DEF RegisterParseResults, solVars
<1>2. /\ StartSlot <= current /\ Complete(sol, eth, late, current) /\ current <= next
      /\ \A s \in Slots : parsed[s] # 0 => current <= s /\ s < next
      /\ \A s \in Slots \ late : current <= s /\ s < next => parsed[s] = sol[s].ver
  BY <1>1 DEF PassedInv, Working
<1> DEFINE f == register_parse_results(eth, parsed)
<1>a. /\ f \in EthTables
      /\ \A s \in Slots : /\ parsed[s] = 0 => f[s] = eth[s]
                          /\ parsed[s] # 0 => Len(f[s]) >= Count[s][parsed[s]]
                          /\ Len(eth[s]) <= Len(f[s])
  <2>1. f \in EthTables
    BY <1>0, RegisterFacts
  <2>2. \A s \in Slots : parsed[s] = 0 => f[s] = eth[s]
    BY DEF register_parse_results
  <2>3. \A s \in Slots : parsed[s] # 0 => Len(f[s]) >= Count[s][parsed[s]]
    BY <1>0, RegisterFacts
  <2>4. \A s \in Slots : Len(eth[s]) <= Len(f[s])
    BY <1>0, RegisterFacts
  <2> QED
    BY <2>1, <2>2, <2>3, <2>4
<1>b. eth' = f
  BY <1>1
<1> HIDE DEF f
<1>3. /\ eth' \in EthTables
      /\ \A s \in Slots : /\ parsed[s] = 0 => eth'[s] = eth[s]
                          /\ parsed[s] # 0 => Len(eth'[s]) >= Count[s][parsed[s]]
                          /\ Len(eth[s]) <= Len(eth'[s])
  BY <1>a, <1>b
<1>4. ASSUME NEW n \in Nat, Complete(sol, eth, late, n) PROVE Complete(sol', eth', late', n)
  <2> SUFFICES ASSUME NEW s \in Slots \ late, StartSlot <= s, s < n, Stored(sol, s)
               PROVE  Len(eth'[s]) >= Count[s][sol[s].ver]
    BY <1>1 DEF Complete
  <2>1. Len(eth[s]) >= Count[s][sol[s].ver] /\ Len(eth[s]) <= Len(eth'[s])
    BY <1>3, <1>4 DEF Complete
  <2>2. Len(eth[s]) \in Nat /\ Len(eth'[s]) \in Nat
    BY <1>0, <1>3, SlotRows
  <2>3. Count[s][sol[s].ver] \in Nat
    BY <1>0, StorageAssumption DEF IndexerInv, SolInv, SolRow
  <2> QED
    BY <2>1, <2>2, <2>3
<1>5. Complete(sol', eth', late', next)
  <2> SUFFICES ASSUME NEW s \in Slots \ late, StartSlot <= s, s < next, Stored(sol, s)
               PROVE  Len(eth'[s]) >= Count[s][sol[s].ver]
    BY <1>1 DEF Complete
  <2>1. CASE s < current
    BY <1>0, <1>1, <1>2, <1>4, <2>1 DEF Complete
  <2>2. CASE current <= s
    <3>1. parsed[s] = sol[s].ver /\ sol[s].ver # 0
      BY <1>2, <2>2 DEF IndexerInv, SolInv
    <3> QED
      BY <1>3, <3>1
  <2>3. s \in Nat
    BY <1>0
  <2> QED
    BY <1>0, <2>1, <2>2, <2>3
<1>6. ASSUME NEW s \in Slots, eth'[s] # << >> PROVE StartSlot <= s /\ Complete(sol', eth', late', s + 1)
  <2>1. CASE eth[s] # << >>
    BY <1>0, <1>4, <2>1 DEF PassedInv
  <2>2. CASE parsed[s] # 0
    <3>1. current <= s /\ s < next
      BY <1>2, <2>2
    <3> QED
      BY <1>0, <1>2, <1>5, <3>1 DEF Complete
  <2> QED
    BY <1>3, <1>6, <2>1, <2>2
<1> QED
  BY <1>1, <1>2, <1>5, <1>6 DEF PassedInv, Working

(* A step between the parsing of two batches, in which no cursor moves.    *)
LEMMA CursorsPassed ==
  ASSUME IndexerInv, PassedInv, UNCHANGED <<sol, late, changed, reorgs, parseVars>>,
         eth' = eth \/ SameBlocks(eth, eth'), pc \in Working \ {"parse"}, pc' \in Working \ {"parse"}
  PROVE  PassedInv'
<1>1. /\ \A n : Complete(sol, eth, late, n) => Complete(sol', eth', late', n)
      /\ \A s \in Slots : eth'[s] # << >> => StartSlot <= s /\ Complete(sol', eth', late', s + 1)
  BY TablesPassed
<1>2. UNCHANGED <<current, toSlot>>
  BY DEF parseVars
<1> QED
  BY <1>1, <1>2 DEF PassedInv, Working

(* Production changes no cursor until a batch is done.                     *)
LEMMA ProductionPassed ==
  ASSUME IndexerInv, PassedInv,
         \/ NothingPending \/ RestoreBlocks \/ StartProducing \/ ForkchoiceParent \/ ForkchoiceNew \/ EndProducing
         \/ RegisterProduced \/ RegisterReceipts
  PROVE  PassedInv'
<1>0. eth \in EthTables /\ \A id \in DOMAIN produced : produced[id] \in Seq(Contents)
  BY DEF IndexerInv, RowsInv, ProduceInv
<1>1. /\ pc \in Working \ {"parse"} /\ UNCHANGED <<sol, late, changed, reorgs>>
      /\ eth' = eth \/ SameBlocks(eth, eth')
  BY <1>0, BlockProducedFacts, StoreReceiptsFacts
     DEF NothingPending, RestoreBlocks, StartProducing, ForkchoiceParent, ForkchoiceNew, EndProducing,
         RegisterProduced, RegisterReceipts, Working, solVars
<1>2. \/ NextBatch
      \/ UNCHANGED parseVars /\ pc' \in Working \ {"parse"}
      \/ pc' = "dead"
  BY DEF NothingPending, RestoreBlocks, StartProducing, ForkchoiceParent, ForkchoiceNew, EndProducing,
         RegisterProduced, RegisterReceipts, Working
<1>3. CASE pc' = "dead"
  BY <1>1, <1>3, TablesPassed DEF PassedInv, Working
<1> QED
  BY <1>1, <1>2, <1>3, BatchPassed, CursorsPassed

(* A fault ends the task or starts it again: only the tables count.        *)
LEMMA FaultPassed ==
  ASSUME IndexerInv, PassedInv,
         CallFails \/ Crash \/ Restart \/ (\E n \in 0 .. Len(head) : GethLosesBlocks(n)) \/ UNCHANGED vars
  PROVE  PassedInv'
<1>1. CASE CallFails \/ Crash \/ Restart \/ \E n \in 0 .. Len(head) : GethLosesBlocks(n)
  <2>1. pc' \in {"dead", "start"} /\ UNCHANGED <<sol, late, eth>> /\ reorgs' = << >> /\ changed' = {}
    BY <1>1 DEF CallFails, Crash, Restart, GethLosesBlocks, StartProcess, PassedInv, solVars
  <2> QED
    BY <2>1, TablesPassed DEF PassedInv, Working
<1>2. CASE UNCHANGED vars
  BY <1>2 DEF PassedInv, vars, solVars, parseVars
<1> QED
  BY <1>1, <1>2

(* What the indexer has passed is complete in every state, as long as no   *)
(* finalized block replaces a confirmed one.                               *)
THEOREM PassedInvariant ==
  ASSUME MaxReorgs = 0
  PROVE  Spec => []PassedInv
<1>1. Init => PassedInv
  BY DEF Init, PassedInv, Working
<1>2. IndexerInv /\ PassedInv /\ [Next]_vars => PassedInv'
  <2> SUFFICES ASSUME IndexerInv, PassedInv, [Next]_vars PROVE PassedInv'
    OBVIOUS
  <2>1. CASE LoaderStep \/ LoaderExits
    BY <2>1, LoaderPassed
  <2>2. CASE PreRun \/ StartReproducing \/ RebuildBlock \/ CheckReproduced
    BY <2>2, StartPassed
  <2>3. CASE HandleReorg \/ ChannelClosed \/ BeginSync
    BY <2>3, RunPassed
  <2>4. CASE ParseSlot
    BY <2>4, ParseSlotPassed
  <2>5. CASE RegisterParseResults
    BY <2>5, RegisterParsePassed
  <2>6. CASE \/ NothingPending \/ RestoreBlocks \/ StartProducing \/ ForkchoiceParent \/ ForkchoiceNew
             \/ EndProducing \/ RegisterProduced \/ RegisterReceipts
    BY <2>6, ProductionPassed
  <2>7. CASE CallFails \/ Crash \/ Restart \/ (\E n \in 0 .. Len(head) : GethLosesBlocks(n)) \/ UNCHANGED vars
    BY <2>7, FaultPassed
  <2> QED
    BY <2>1, <2>2, <2>3, <2>4, <2>5, <2>6, <2>7 DEF Next, IndexerStep, FaultStep, Sleep
<1> QED
  BY <1>1, <1>2, IndexerInvariant, PTL DEF Spec

(* While no finalized block replaces a confirmed one, the slots the        *)
(* indexer has passed have all of their Ethereum blocks, but for those the *)
(* loader inserted below its last slot: for every number of blocks per     *)
(* slot, every batch size, with forks of confirmed blocks and slots the    *)
(* loader has passed over, and with every fault, a crash in the middle of  *)
(* a batch included.                                                       *)
THEOREM NoSlotLostCorrect ==
  ASSUME MaxReorgs = 0
  PROVE  Spec => []NoSlotLost
<1>1. IndexerInv /\ PassedInv => NoSlotLost
  <2> SUFFICES ASSUME IndexerInv, PassedInv, pc = "run", NEW s \in StartSlot .. (fromSlot - 1), Stored(sol, s),
                      s \notin late
               PROVE  Len(eth[s]) >= Count[s][sol[s].ver]
    BY DEF NoSlotLost, InSync
  <2>1. Complete(sol, eth, late, fromSlot) /\ fromSlot \in Nat
    BY DEF PassedInv, IndexerInv, ParseInv
  <2>2. s \in Slots /\ StartSlot <= s /\ s < fromSlot
    BY <2>1, IndexerAssumption DEF Stored, Slots
  <2> QED
    BY <2>1, <2>2 DEF Complete
<1> QED
  BY <1>1, IndexerInvariant, PassedInvariant, PTL

-----------------------------------------------------------------------------
(***************************************************************************)
(* Which blocks the rollup indexer registers, when the rollup has a single *)
(* possible chain.  Every hash is then determined by its length: the proof *)
(* follows block numbers, through crashes, failed calls, restored and      *)
(* rebuilt blocks and a producer that loses blocks.                        *)
(***************************************************************************)

(* The conditions under which the rollup has a single possible chain: no   *)
(* replaced block, no fork of confirmed blocks, no slot the loader passes  *)
(* over, and at most one Ethereum block per slot.                          *)
OneChain ==
  /\ MaxReorgs = 0 /\ Orphans = FALSE /\ Gaps = FALSE
  /\ \A s \in Slots : Count[s][1] <= 1

BuiltSlots(e) == {s \in Slots : e[s] # << >>}
Done(e, s) == e[s][1].hash # Genesis

(* The number of the block of slot s, when B are the slots with a block.   *)
Pos(B, s) == Cardinality({t \in B : t <= s})

(* The only hash a block may have: the blocks of B one after the other,    *)
(* without a gap, up to some number.                                       *)
Canon(B, h) ==
  /\ h \in Seq(Contents)
  /\ \A i \in 1 .. Len(h) : h[i][1] \in B /\ Pos(B, h[i][1]) = i /\ h[i] = <<h[i][1], 1, 1>>

(* The block ids of a set of slots.                                        *)
Firsts(S) == S \X {1}

-----------------------------------------------------------------------------
(* Block numbers.                                                          *)

(* The slots up to one are finitely many.                                  *)
LEMMA PosFinite ==
  ASSUME NEW B, B \subseteq Slots, NEW s
  PROVE  IsFiniteSet(B) /\ IsFiniteSet({t \in B : t <= s}) /\ Pos(B, s) \in Nat
<1>1. IsFiniteSet(Slots)
  BY StorageAssumption, FS_Interval DEF Slots
<1>2. IsFiniteSet(B)
  BY <1>1, FS_Subset
<1>3. {t \in B : t <= s} \in SUBSET B
  OBVIOUS
<1>4. IsFiniteSet({t \in B : t <= s})
  BY <1>2, <1>3, FS_Subset
<1> QED
  BY <1>2, <1>4, FS_CardinalityType DEF Pos

(* Numbers follow the order of the slots.                                  *)
LEMMA PosOrder ==
  ASSUME NEW B, B \subseteq Slots, NEW s \in B, NEW t \in B
  PROVE  /\ Pos(B, s) \in Nat \ {0} /\ Pos(B, t) \in Nat \ {0}
         /\ s < t <=> Pos(B, s) < Pos(B, t)
         /\ s = t <=> Pos(B, s) = Pos(B, t)
<1>0. B \subseteq Nat
  BY StorageAssumption DEF Slots
<1>1. ASSUME NEW u \in B PROVE Pos(B, u) \in Nat \ {0}
  <2>1. u \in {v \in B : v <= u}
    BY <1>0
  <2>2. {v \in B : v <= u} # {}
    BY <2>1
  <2> QED
    BY <2>2, PosFinite, FS_EmptySet DEF Pos
<1>2. ASSUME NEW u \in B, NEW v \in B, u < v PROVE Pos(B, u) < Pos(B, v)
  <2> DEFINE U == {w \in B : w <= u}
             V == {w \in B : w <= v}
  <2>1. U \subseteq V
    <3>1. ASSUME NEW w \in U PROVE w \in V
      <4>1. w \in B /\ w <= u /\ w \in Nat /\ u \in Nat /\ v \in Nat
        BY <1>0
      <4> QED
        BY <1>2, <4>1
    <3> QED
      BY <3>1
  <2>2. v \in V /\ v \notin U
    BY <1>0, <1>2
  <2>3. IsFiniteSet(V) /\ Cardinality(U) \in Nat /\ Cardinality(V) \in Nat
    BY PosFinite DEF Pos
  <2> HIDE DEF U, V
  <2>4. Cardinality(U) <= Cardinality(V) /\ Cardinality(U) # Cardinality(V)
    BY <2>1, <2>2, <2>3, FS_Subset
  <2>5. Cardinality(U) < Cardinality(V)
    BY <2>3, <2>4
  <2> QED
    BY <2>5 DEF U, V, Pos
<1>3. s \in Nat /\ t \in Nat
  BY <1>0
<1>4. s < t => Pos(B, s) < Pos(B, t)
  BY <1>2
<1>5. t < s => Pos(B, t) < Pos(B, s)
  BY <1>2
<1>6. s = t => Pos(B, s) = Pos(B, t)
  OBVIOUS
<1>7. Pos(B, s) \in Nat \ {0} /\ Pos(B, t) \in Nat \ {0}
  BY <1>1
<1> QED
  BY <1>3, <1>4, <1>5, <1>6, <1>7

(* The number that follows n.                                              *)
LEMMA PosNext ==
  ASSUME NEW B, B \subseteq Slots, NEW n \in Nat, n = 0 \/ \E t \in B : Pos(B, t) = n,
         NEW s \in B, \A u \in B : u < s <=> Pos(B, u) <= n
  PROVE  Pos(B, s) = n + 1
<1>0. B \subseteq Nat
  BY StorageAssumption DEF Slots
<1>1. CASE n = 0
  <2>1. \A u \in B : ~(u < s)
    <3>1. ASSUME NEW u \in B, u < s PROVE FALSE
      BY <1>1, <3>1, PosOrder
    <3> QED
      BY <3>1
  <2>2. {t \in B : t <= s} = {s}
    <3>1. ASSUME NEW t \in B PROVE t <= s <=> t = s
      <4>1. t \in Nat /\ s \in Nat /\ ~(t < s)
        BY <1>0, <2>1
      <4> QED
        BY <4>1
    <3> QED
      BY <3>1
  <2> QED
    BY <1>1, <2>2, FS_Singleton DEF Pos
<1>2. CASE \E t \in B : Pos(B, t) = n
  <2>1. PICK t \in B : Pos(B, t) = n
    BY <1>2
  <2> DEFINE T == {u \in B : u <= t}
  <2>2. t < s
    BY <2>1
  <2>3. ASSUME NEW u \in B PROVE u < s <=> u <= t
    <3>1. u < s <=> Pos(B, u) <= Pos(B, t)
      BY <2>1
    <3>2. u \in Nat /\ t \in Nat
      BY <1>0
    <3>3. /\ Pos(B, u) \in Nat /\ Pos(B, t) \in Nat
          /\ (u < t <=> Pos(B, u) < Pos(B, t)) /\ (u = t <=> Pos(B, u) = Pos(B, t))
      BY PosOrder
    <3> QED
      BY <3>1, <3>2, <3>3
  <2>4. {u \in B : u <= s} = T \cup {s} /\ s \notin T
    <3>1. ASSUME NEW u \in B PROVE u <= s <=> (u <= t \/ u = s)
      <4>1. u \in Nat /\ s \in Nat
        BY <1>0
      <4> QED
        BY <2>3, <4>1
    <3>2. ~(s <= t)
      <4>1. t \in Nat /\ s \in Nat
        BY <1>0
      <4> QED
        BY <2>2, <4>1
    <3> QED
      BY <3>1, <3>2
  <2>5. IsFiniteSet(T) /\ Cardinality(T) = n
    BY <2>1, PosFinite DEF Pos
  <2> HIDE DEF T
  <2> QED
    BY <2>4, <2>5, FS_AddElement DEF Pos
<1> QED
  BY <1>1, <1>2

(* New slots above all the others leave the numbers as they are.           *)
LEMMA PosGrows ==
  ASSUME NEW B, NEW C, C \subseteq Slots, B \subseteq C, \A s \in B, t \in C : t \notin B => s < t,
         NEW s \in B
  PROVE  Pos(C, s) = Pos(B, s)
<1>1. C \subseteq Nat
  BY StorageAssumption DEF Slots
<1>2. {t \in C : t <= s} = {t \in B : t <= s}
  <2>1. ASSUME NEW t \in C, t <= s PROVE t \in B
    <3>1. t \in Nat /\ s \in Nat
      BY <1>1
    <3> QED
      BY <2>1, <3>1
  <2> QED
    BY <2>1
<1> QED
  BY <1>2 DEF Pos

-----------------------------------------------------------------------------
(* The chain.                                                              *)

(* Two hashes of the chain with the same length are the same.              *)
LEMMA CanonEqual ==
  ASSUME NEW B, B \subseteq Slots, NEW g, NEW h, Canon(B, g), Canon(B, h), Len(g) = Len(h)
  PROVE  g = h
<1>1. g \in Seq(Contents) /\ h \in Seq(Contents)
  BY DEF Canon
<1>2. ASSUME NEW i \in 1 .. Len(g) PROVE g[i] = h[i]
  <2>1. /\ g[i][1] \in B /\ h[i][1] \in B /\ Pos(B, g[i][1]) = Pos(B, h[i][1])
        /\ g[i] = <<g[i][1], 1, 1>> /\ h[i] = <<h[i][1], 1, 1>>
    BY DEF Canon
  <2>2. g[i][1] = h[i][1]
    BY <2>1, PosOrder
  <2> QED
    BY <2>1, <2>2
<1> QED
  BY <1>1, <1>2

(* A prefix of the chain.                                                  *)
LEMMA CanonPrefix ==
  ASSUME NEW B, NEW h, Canon(B, h), NEW n \in 0 .. Len(h)
  PROVE  Canon(B, SubSeq(h, 1, n)) /\ Len(SubSeq(h, 1, n)) = n
<1> DEFINE g == SubSeq(h, 1, n)
<1>1. h \in Seq(Contents)
  BY DEF Canon
<1>2. g \in Seq(Contents) /\ Len(g) = n /\ \A i \in 1 .. n : g[i] = h[i]
  BY <1>1
<1> HIDE DEF g
<1>3. ASSUME NEW i \in 1 .. Len(g) PROVE g[i][1] \in B /\ Pos(B, g[i][1]) = i /\ g[i] = <<g[i][1], 1, 1>>
  <2>1. g[i] = h[i] /\ i \in 1 .. Len(h)
    BY <1>1, <1>2
  <2> QED
    BY <2>1 DEF Canon
<1>4. Canon(B, g)
  BY <1>2, <1>3 DEF Canon
<1> QED
  BY <1>2, <1>4 DEF g

(* Of two hashes of the chain the shorter one is a prefix of the other.    *)
LEMMA CanonIsPrefix ==
  ASSUME NEW B, B \subseteq Slots, NEW g, NEW h, Canon(B, g), Canon(B, h), Len(g) <= Len(h)
  PROVE  g = SubSeq(h, 1, Len(g)) /\ IsPrefixOf(g, h)
<1>1. Len(g) \in 0 .. Len(h)
  BY DEF Canon
<1>2. Canon(B, SubSeq(h, 1, Len(g))) /\ Len(SubSeq(h, 1, Len(g))) = Len(g)
  BY <1>1, CanonPrefix
<1>3. g = SubSeq(h, 1, Len(g))
  BY <1>2, CanonEqual
<1> QED
  BY <1>3 DEF IsPrefixOf

(* The next block of the chain.                                            *)
LEMMA CanonAppend ==
  ASSUME NEW B, B \subseteq Slots, NEW h, Canon(B, h), NEW s \in B, Pos(B, s) = Len(h) + 1
  PROVE  Canon(B, Append(h, <<s, 1, 1>>)) /\ Len(Append(h, <<s, 1, 1>>)) = Len(h) + 1
<1> DEFINE g == Append(h, <<s, 1, 1>>)
<1>1. h \in Seq(Contents) /\ <<s, 1, 1>> \in Contents
  BY DEF Canon, Contents, ContentVersions
<1>2. g \in Seq(Contents) /\ Len(g) = Len(h) + 1 /\ Len(h) \in Nat
      /\ (\A i \in 1 .. Len(h) : g[i] = h[i]) /\ g[Len(h) + 1] = <<s, 1, 1>>
  BY <1>1
<1> HIDE DEF g
<1>3. ASSUME NEW i \in 1 .. Len(g) PROVE g[i][1] \in B /\ Pos(B, g[i][1]) = i /\ g[i] = <<g[i][1], 1, 1>>
  <2>1. CASE i \in 1 .. Len(h)
    BY <1>2, <2>1 DEF Canon
  <2>2. CASE i = Len(h) + 1
    BY <1>2, <2>2
  <2> QED
    BY <1>2, <2>1, <2>2
<1> QED
  BY <1>2, <1>3 DEF Canon, g

(* New slots above the others.                                             *)
LEMMA CanonGrows ==
  ASSUME NEW B, NEW C, C \subseteq Slots, B \subseteq C, \A s \in B, t \in C : t \notin B => s < t,
         NEW h, Canon(B, h)
  PROVE  Canon(C, h)
<1>1. ASSUME NEW i \in 1 .. Len(h) PROVE h[i][1] \in C /\ Pos(C, h[i][1]) = i /\ h[i] = <<h[i][1], 1, 1>>
  <2>1. h[i][1] \in B /\ Pos(B, h[i][1]) = i /\ h[i] = <<h[i][1], 1, 1>>
    BY DEF Canon
  <2>2. Pos(C, h[i][1]) = Pos(B, h[i][1])
    BY <2>1, PosGrows
  <2> QED
    BY <2>1, <2>2
<1> QED
  BY <1>1 DEF Canon

(* The start of the chain.                                                 *)
LEMMA CanonGenesis ==
  ASSUME NEW B
  PROVE  Canon(B, Genesis) /\ Len(Genesis) = 0 /\ \A h : Canon(B, h) => (Len(h) = 0 <=> h = Genesis)
  BY DEF Canon, Genesis

(* The slot of the last block of a hash.                                   *)
LEMMA CanonLast ==
  ASSUME NEW B, NEW h, Canon(B, h)
  PROVE  Len(h) \in Nat /\ (Len(h) = 0 \/ \E t \in B : Pos(B, t) = Len(h))
<1>1. Len(h) \in Nat
  BY DEF Canon
<1>2. ASSUME Len(h) # 0 PROVE \E t \in B : Pos(B, t) = Len(h)
  <2>1. Len(h) \in 1 .. Len(h)
    BY <1>1, <1>2
  <2> QED
    BY <2>1 DEF Canon
<1> QED
  BY <1>1, <1>2

(* Of the blocks after a hash of the chain, the first one is next.         *)
LEMMA FirstIsNext ==
  ASSUME NEW B, B \subseteq Slots, NEW h, Canon(B, h), NEW S, S \subseteq B, S # {},
         \A t \in S : Pos(B, t) > Len(h),
         \A t \in S, u \in B : Pos(B, u) > Len(h) /\ u < t => u \in S
  PROVE  /\ FirstId(Firsts(S)) \in Firsts(S) /\ FirstId(Firsts(S))[1] \in S
         /\ FirstId(Firsts(S)) = <<FirstId(Firsts(S))[1], 1>>
         /\ Pos(B, FirstId(Firsts(S))[1]) = Len(h) + 1
<1> DEFINE id == FirstId(Firsts(S))
<1>0. Slots \subseteq Nat
  BY StorageAssumption DEF Slots
<1>1. Firsts(S) \subseteq IdSet /\ Firsts(S) # {}
  <2>1. PICK t \in S : TRUE
    OBVIOUS
  <2>2. <<t, 1>> \in Firsts(S)
    BY DEF Firsts
  <2>3. S \subseteq Slots
    OBVIOUS
  <2>4. Firsts(S) \subseteq IdSet
    BY <2>3 DEF Firsts, IdSet
  <2> QED
    BY <2>2, <2>4
<1>2. id \in Firsts(S) /\ \A b \in Firsts(S) : id = b \/ Before(id, b)
  BY <1>1, IdExtremes
<1> HIDE DEF id
<1>3. id[1] \in S /\ id = <<id[1], 1>>
  BY <1>2 DEF Firsts
<1>4. PICK s \in S : s = id[1]
  BY <1>3
<1>5. ASSUME NEW t \in S PROVE s <= t
  <2>1. <<t, 1>> \in Firsts(S)
    BY DEF Firsts
  <2>2. id = <<t, 1>> \/ Before(id, <<t, 1>>)
    BY <1>2, <2>1
  <2>3. s \in Nat /\ t \in Nat
    BY <1>0
  <2> QED
    BY <1>3, <1>4, <2>2, <2>3 DEF Before
<1>6. ASSUME NEW u \in B PROVE u < s <=> Pos(B, u) <= Len(h)
  <2>1. Len(h) \in Nat /\ Pos(B, u) \in Nat /\ Pos(B, s) \in Nat /\ u \in Nat /\ s \in Nat /\ Pos(B, s) > Len(h)
    BY <1>0, CanonLast, PosFinite
  <2>2. ASSUME u < s, ~(Pos(B, u) <= Len(h)) PROVE FALSE
    <3>1. u \in S
      BY <2>1, <2>2
    <3> QED
      BY <1>5, <2>1, <2>2, <3>1
  <2>3. ASSUME Pos(B, u) <= Len(h) PROVE u < s
    <3>1. Pos(B, u) < Pos(B, s)
      BY <2>1, <2>3
    <3> QED
      BY <3>1, PosOrder
  <2> QED
    BY <2>2, <2>3
<1>7. Pos(B, s) = Len(h) + 1
  <2>1. Len(h) \in Nat /\ (Len(h) = 0 \/ \E t \in B : Pos(B, t) = Len(h))
    BY CanonLast
  <2> QED
    BY <1>6, <2>1, PosNext
<1> QED
  BY <1>2, <1>3, <1>4, <1>7 DEF id
-----------------------------------------------------------------------------
(* The invariant.                                                          *)

(* The stored slots are one chain.                                         *)
LinearInv ==
  /\ \A s \in Slots : sol[s].ver \in {0, 1}
  /\ \A s \in Slots : Stored(sol, s) /\ sol[s].parent # 0 => Stored(sol, sol[s].parent)
  /\ \A s, t \in Slots : Stored(sol, s) /\ Stored(sol, t) /\ t < s => t <= sol[s].parent

(* Blocks are produced from the first slot on, with the hash of the chain. *)
OnChain(e) ==
  /\ \A s \in BuiltSlots(e) :
       /\ Len(e[s]) = 1 /\ e[s][1].ver = 1
       /\ Done(e, s) => Canon(BuiltSlots(e), e[s][1].hash) /\ Len(e[s][1].hash) = Pos(BuiltSlots(e), s)
  /\ \A s, t \in BuiltSlots(e) : s < t /\ Done(e, t) => Done(e, s)

(* op-geth holds that chain up to some number.                             *)
ProducerInv ==
  /\ \A h \in known \cup {gethFinal} : Canon(BuiltSlots(eth), h)
  /\ head \in known
  /\ \A h \in known : \A i \in 0 .. Len(h) : SubSeq(h, 1, i) \in known

(* Blocks are rebuilt only while the producer is behind.                   *)
ReproduceInv ==
  /\ pc = "reproduce" => /\ fromSlot \in BuiltSlots(eth) /\ Done(eth, fromSlot)
                         /\ Len(head) <= latest_block(eth)
  /\ pc = "rebuild" =>
       /\ Expected(fromSlot, current) # {} /\ Len(head) <= latest_block(eth) /\ parent \in known
       /\ DOMAIN produced \subseteq Slots \X {1}
       /\ pending = Firsts({t \in BuiltSlots(eth) : t < current /\ Pos(BuiltSlots(eth), t) > Len(parent)})

(* The task is within produce_blocks with blocks left to produce.          *)
Carrying == pc \in {"build", "switched"} \/ (pc \in {"register", "receipts"} /\ pending # {})

(* Unregistered blocks up to number n.                                     *)
NewUpTo(n) == Firsts({t \in BuiltSlots(eth) : ~Done(eth, t) /\ Pos(BuiltSlots(eth), t) <= n})

(* The storage is never ahead of the producer in the main loop; the        *)
(* blocks left to produce are those above the parent, and the produced,    *)
(* unregistered ones are those up to it.                                   *)
BuildInv ==
  /\ pc \in {"run"} \cup Working => latest_block(eth) <= Len(head)
  /\ Carrying => /\ parent \in known /\ latest_block(eth) <= Len(parent)
                 /\ pending = Firsts({t \in BuiltSlots(eth) : Pos(BuiltSlots(eth), t) > Len(parent)})
  /\ pc \in {"build", "switched", "register"} =>
       \A id \in DOMAIN produced : Canon(BuiltSlots(eth), produced[id]) /\ Len(produced[id]) = Pos(BuiltSlots(eth), id[1])
  /\ pc \in {"build", "switched"} => /\ DOMAIN produced = NewUpTo(Len(parent))
                                     /\ DOMAIN produced # {} => head = parent
  /\ pc = "switched" => head = parent
  /\ pc = "register" => \E n \in 0 .. Len(head) : DOMAIN produced = NewUpTo(n) /\ (pending # {} => n = Len(parent))
  /\ pc = "receipts" /\ pending # {} => NewUpTo(Len(parent)) = {}

(* A Finalized slot with Ethereum blocks is not below slot t.              *)
FinalAbove(t) == \E f \in BuiltSlots(eth) : t <= f /\ sol[f].status = "Finalized"

(* The blocks of a hash come from slots that are final by their place in   *)
(* the chain.                                                              *)
AllFinal(h) == \A i \in 1 .. Len(h) : FinalAbove(h[i][1])

(* What op-geth is told to finalize.                                       *)
FinalInv ==
  /\ AllFinal(gethFinal)
  /\ head = Genesis => gethFinal = Genesis
  /\ Len(gethFinal) <= Len(head) \/ Len(gethFinal) <= latest_block(eth) + 1
  /\ Carrying =>
       /\ finalBlock.kind = "Produced" =>
            /\ Canon(BuiltSlots(eth), finalBlock.hash) /\ AllFinal(finalBlock.hash)
            /\ Len(gethFinal) <= Len(finalBlock.hash) /\ Len(finalBlock.hash) <= Len(parent) /\ finalBlock.hash # Genesis
       /\ finalBlock.kind = "Pending" =>
            finalBlock.id[1] \in BuiltSlots(eth) /\ sol[finalBlock.id[1]].status = "Finalized"
       /\ Len(gethFinal) <= Len(parent) + 1
       /\ parent = Genesis => gethFinal = Genesis

ChainInv == LinearInv /\ OnChain(eth) /\ ProducerInv /\ ReproduceInv /\ BuildInv /\ FinalInv

-----------------------------------------------------------------------------
(* The tables of a single chain.                                           *)

(* With one row per slot, a block is its slot.                             *)
LEMMA OneRowIds ==
  ASSUME NEW e \in EthTables, \A s \in BuiltSlots(e) : Len(e[s]) = 1
  PROVE  /\ Ids(e) = Firsts(BuiltSlots(e))
         /\ ProducedIds(e) = Firsts({s \in BuiltSlots(e) : Done(e, s)})
         /\ \A s \in BuiltSlots(e) : /\ s \in Slots /\ Row(e, <<s, 1>>) = e[s][1] /\ e[s][1] \in EthRow
                                     /\ IsProduced(e, <<s, 1>>) <=> Done(e, s)
<1>1. ASSUME NEW s \in BuiltSlots(e)
      PROVE  /\ s \in Slots /\ DOMAIN e[s] = {1} /\ Row(e, <<s, 1>>) = e[s][1] /\ e[s][1] \in EthRow
             /\ <<s, 1>> \in Ids(e)
  <2>1. s \in Slots /\ Len(e[s]) = 1
    BY DEF BuiltSlots
  <2>2. DOMAIN e[s] = {1}
    BY <2>1, SlotRows
  <2>3. <<s, 1>> \in Ids(e) /\ Row(e, <<s, 1>>) = e[s][1]
    BY <2>1, <2>2, IdsTyped
  <2> QED
    BY <2>1, <2>2, <2>3, SlotRows
<1>2. ASSUME NEW id \in Ids(e) PROVE id[1] \in BuiltSlots(e) /\ id = <<id[1], 1>>
  <2>1. id[1] \in Slots /\ id[2] \in DOMAIN e[id[1]] /\ id = <<id[1], id[2]>> /\ e[id[1]] # << >>
    BY IdsTyped
  <2>2. id[1] \in BuiltSlots(e)
    BY <2>1 DEF BuiltSlots
  <2>3. id[2] = 1
    BY <1>1, <2>1, <2>2
  <2> QED
    BY <2>1, <2>2, <2>3
<1>3. Ids(e) = Firsts(BuiltSlots(e))
  <2>1. ASSUME NEW id \in Ids(e) PROVE id \in Firsts(BuiltSlots(e))
    BY <1>2 DEF Firsts
  <2>2. ASSUME NEW id \in Firsts(BuiltSlots(e)) PROVE id \in Ids(e)
    <3>1. PICK s \in BuiltSlots(e) : id = <<s, 1>>
      BY DEF Firsts
    <3> QED
      BY <1>1, <3>1
  <2> QED
    BY <2>1, <2>2
<1>4. \A s \in BuiltSlots(e) : IsProduced(e, <<s, 1>>) <=> Done(e, s)
  BY <1>1 DEF IsProduced, Done
<1>5. ProducedIds(e) = Firsts({s \in BuiltSlots(e) : Done(e, s)})
  <2>1. ASSUME NEW id \in ProducedIds(e) PROVE id \in Firsts({s \in BuiltSlots(e) : Done(e, s)})
    <3>1. id \in Ids(e) /\ IsProduced(e, id)
      BY DEF ProducedIds
    <3>2. id[1] \in BuiltSlots(e) /\ id = <<id[1], 1>>
      BY <1>2, <3>1
    <3>3. Done(e, id[1])
      BY <1>4, <3>1, <3>2
    <3> QED
      BY <3>2, <3>3 DEF Firsts
  <2>2. ASSUME NEW id \in Firsts({s \in BuiltSlots(e) : Done(e, s)}) PROVE id \in ProducedIds(e)
    <3>1. PICK s \in BuiltSlots(e) : id = <<s, 1>> /\ Done(e, s)
      BY DEF Firsts
    <3> QED
      BY <1>1, <1>4, <3>1 DEF ProducedIds
  <2> QED
    BY <2>1, <2>2
<1> QED
  BY <1>1, <1>3, <1>4, <1>5

(* The blocks up to latest_block are the produced ones.                    *)
LEMMA LatestFacts ==
  ASSUME NEW e \in EthTables, OnChain(e)
  PROVE  /\ latest_block(e) \in Nat /\ BuiltSlots(e) \subseteq Slots
         /\ \A s \in BuiltSlots(e) : Done(e, s) <=> Pos(BuiltSlots(e), s) <= latest_block(e)
         /\ latest_block(e) = 0 \/ \E s \in BuiltSlots(e) : Done(e, s) /\ Pos(BuiltSlots(e), s) = latest_block(e)
<1> DEFINE B == BuiltSlots(e)
           L == latest_block(e)
<1>1. B \subseteq Slots /\ L \in Nat
  BY LatestBlockFacts DEF BuiltSlots
<1>2. /\ ProducedIds(e) = Firsts({s \in B : Done(e, s)})
      /\ \A s \in B : Row(e, <<s, 1>>) = e[s][1]
  BY OneRowIds DEF OnChain
<1>3. ASSUME NEW s \in B, Done(e, s) PROVE Pos(B, s) <= L
  <2>1. <<s, 1>> \in ProducedIds(e)
    BY <1>2, <1>3 DEF Firsts
  <2>2. Len(Row(e, <<s, 1>>).hash) <= L
    BY <2>1, LatestBlockFacts
  <2> QED
    BY <1>2, <1>3, <2>2 DEF OnChain
<1>4. ASSUME L # 0 PROVE \E s \in B : Done(e, s) /\ Pos(B, s) = L
  <2>1. ProducedIds(e) # {}
    BY <1>4, LatestBlockFacts
  <2>2. PICK id \in ProducedIds(e) : L = Len(Row(e, id).hash)
    BY <2>1, LatestBlockFacts
  <2>3. PICK s \in B : id = <<s, 1>> /\ Done(e, s)
    BY <1>2 DEF Firsts
  <2> QED
    BY <1>2, <2>2, <2>3 DEF OnChain
<1>5. ASSUME NEW s \in B, Pos(B, s) <= L PROVE Done(e, s)
  <2>1. Pos(B, s) \in Nat \ {0}
    BY <1>1, PosOrder
  <2>2. L # 0
    BY <1>1, <1>5, <2>1
  <2>3. PICK t \in B : Done(e, t) /\ Pos(B, t) = L
    BY <1>4, <2>2
  <2>4. s < t \/ s = t
    <3>1. Pos(B, s) < Pos(B, t) \/ Pos(B, s) = Pos(B, t)
      BY <1>1, <1>5, <2>1, <2>3
    <3> QED
      BY <1>1, <3>1, PosOrder
  <2> QED
    BY <2>3, <2>4 DEF OnChain
<1> QED
  BY <1>1, <1>3, <1>4, <1>5

(* A walk reaches the slots it is not stopped above of.                    *)
LEMMA WalkReaches ==
  ASSUME NEW Down, NEW par, NEW g, g = Upward(Down, par, g), NEW Good, NEW u \in Slots,
         NEW top \in Slots, top \in Good, u <= top,
         \A t \in Slots : t \in Good /\ u < t /\ t <= top =>
            t \in Down /\ par[t] \in Good /\ par[t] \in Slots /\ u <= par[t] /\ par[t] < t
  PROVE  u \in g[top]
<1> DEFINE Reach == {k \in 0 .. MaxSlot : \A t \in Slots : t <= k /\ t \in Good /\ u <= t /\ t <= top => u \in g[t]}
<1>0. MaxSlot \in Nat /\ Slots = 1 .. MaxSlot
  BY StorageAssumption DEF Slots
<1>1. \A t \in Slots : g[t] = {t} \cup IF t \in Down THEN g[par[t]] ELSE {}
  BY DEF Upward
<1>2. 0 \in Reach
  BY <1>0
<1>3. ASSUME NEW k \in 1 .. MaxSlot, k - 1 \in Reach PROVE k \in Reach
  <2> SUFFICES ASSUME NEW t \in Slots, t <= k, t \in Good, u <= t, t <= top PROVE u \in g[t]
    BY <1>0, <1>3
  <2>1. CASE t = u
    BY <1>1, <2>1
  <2>2. CASE u < t
    <3>1. t \in Down /\ par[t] \in Good /\ par[t] \in Slots /\ u <= par[t] /\ par[t] < t
      BY <2>2
    <3>2. PICK p \in Slots : p = par[t]
      BY <3>1
    <3>3. p <= k - 1 /\ p <= top
      BY <1>0, <3>1, <3>2
    <3>4. u \in g[p]
      BY <1>3, <3>1, <3>2, <3>3
    <3> QED
      BY <1>1, <3>1, <3>2, <3>4
  <2> QED
    BY <1>0, <2>1, <2>2
<1>4. MaxSlot \in Reach
  <2> HIDE DEF Reach
  <2>1. 0 .. MaxSlot \subseteq Reach
    BY <1>0, <1>2, <1>3, IntervalInduction
  <2> QED
    BY <1>0, <2>1
<1> QED
  BY <1>0, <1>4

(* A recursive query over the parents is a walk.                           *)
LEMMA BranchIsWalk ==
  ASSUME NEW table, LowerParents(table), NEW s, Stored(table, s)
  PROVE  \E g : /\ g = Upward({t \in Slots : Stored(table, table[t].parent)}, [t \in Slots |-> table[t].parent], g)
                /\ Branch(table, s) = g[s]
<1> DEFINE up[t \in Slots] ==
             {t} \cup IF Stored(table, table[t].parent) THEN up[table[t].parent] ELSE {}
           Eq(g) == g = [t \in Slots |->
             {t} \cup IF Stored(table, table[t].parent) THEN g[table[t].parent] ELSE {}]
           Down == {t \in Slots : Stored(table, table[t].parent)}
           par == [t \in Slots |-> table[t].parent]
<1>1. \A t \in Slots : t \in Down => par[t] \in 1 .. (t - 1)
  BY StorageAssumption DEF LowerParents, Stored, Slots
<1>2. \A g : Upward(Down, par, g) = [t \in Slots |->
             {t} \cup IF Stored(table, table[t].parent) THEN g[table[t].parent] ELSE {}]
  BY DEF Upward
<1>3. \E g : Eq(g)
  <2>1. PICK g : g = Upward(Down, par, g)
    <3> HIDE DEF Down, par
    <3> QED
      BY <1>1, WalkExists
  <2>2. Eq(g)
    BY <1>2, <2>1
  <2> QED
    BY <2>2
<1>4. Eq(CHOOSE g : Eq(g))
  BY <1>3, Zenon
<1>5. Eq(up)
  BY <1>4, Zenon
<1>6. Branch(table, s) = up[s]
  BY DEF Branch
<1> HIDE DEF up
<1>7. up = Upward(Down, par, up)
  BY <1>2, <1>5
<1> QED
  BY <1>6, <1>7

(* The recursive part of pending_blocks_with_slot_statuses2 is a walk.     *)
LEMMA WalkedIsWalk ==
  ASSUME NEW table, LowerParents(table), NEW e, Ids(e) # {}
  PROVE  \E g : /\ g = Upward({t \in Slots : Descends(table, e, t)}, [t \in Slots |-> table[t].parent], g)
                /\ WalkedSlots(table, e) = g[TopSlot(e)]
<1> DEFINE walk[t \in Slots] ==
             {t} \cup IF Descends(table, e, t) THEN walk[table[t].parent] ELSE {}
           Eq(g) == g = [t \in Slots |->
             {t} \cup IF Descends(table, e, t) THEN g[table[t].parent] ELSE {}]
           Down == {t \in Slots : Descends(table, e, t)}
           par == [t \in Slots |-> table[t].parent]
<1>1. \A t \in Slots : t \in Down => par[t] \in 1 .. (t - 1)
  BY StorageAssumption DEF LowerParents, Stored, Slots, Descends
<1>2. \A g : Upward(Down, par, g) = [t \in Slots |->
             {t} \cup IF Descends(table, e, t) THEN g[table[t].parent] ELSE {}]
  BY DEF Upward
<1>3. \E g : Eq(g)
  <2>1. PICK g : g = Upward(Down, par, g)
    <3> HIDE DEF Down, par
    <3> QED
      BY <1>1, WalkExists
  <2>2. Eq(g)
    BY <1>2, <2>1
  <2> QED
    BY <2>2
<1>4. Eq(CHOOSE g : Eq(g))
  BY <1>3, Zenon
<1>5. Eq(walk)
  BY <1>4, Zenon
<1>6. WalkedSlots(table, e) = walk[TopSlot(e)]
  BY DEF WalkedSlots
<1> HIDE DEF walk
<1>7. walk = Upward(Down, par, walk)
  BY <1>2, <1>5
<1> QED
  BY <1>6, <1>7

(* On a single chain a fork holds all stored slots up to its last one.     *)
LEMMA BranchReaches ==
  ASSUME SolInv, LinearInv, NEW s, NEW u, Stored(sol, s), Stored(sol, u), u <= s
  PROVE  u \in Branch(sol, s)
<1>0. Slots \subseteq Nat /\ s \in Slots /\ u \in Slots
  BY StorageAssumption DEF Slots, Stored
<1> DEFINE Down == {t \in Slots : Stored(sol, sol[t].parent)}
           par == [t \in Slots |-> sol[t].parent]
           Good == {t \in Slots : Stored(sol, t)}
<1>1. PICK g : g = Upward(Down, par, g) /\ Branch(sol, s) = g[s]
  BY BranchIsWalk DEF SolInv
<1>2. ASSUME NEW t \in Slots, t \in Good, u < t
      PROVE  t \in Down /\ par[t] \in Good /\ par[t] \in Slots /\ u <= par[t] /\ par[t] < t
  <2>1. u <= sol[t].parent /\ sol[t].parent \in 0 .. (t - 1)
    BY <1>0, <1>2 DEF LinearInv, SolInv, LowerParents
  <2>2. sol[t].parent # 0 /\ sol[t].parent < t
    BY <1>0, <2>1, StorageAssumption DEF Slots
  <2>3. Stored(sol, sol[t].parent)
    BY <1>2, <2>2 DEF LinearInv
  <2> QED
    BY <1>0, <2>1, <2>2, <2>3 DEF Stored
<1>3. s \in Good
  BY <1>0
<1> HIDE DEF Down, par, Good
<1>a. \A t \in Slots : t \in Good /\ u < t /\ t <= s =>
        t \in Down /\ par[t] \in Good /\ par[t] \in Slots /\ u <= par[t] /\ par[t] < t
  BY <1>2
<1>b. g = Upward(Down, par, g) /\ s \in Slots /\ u \in Slots
  BY <1>0, <1>1
<1>4. u \in g[s]
  BY <1>3, <1>a, <1>b, WalkReaches
<1> QED
  BY <1>1, <1>4

(* The walk from the highest block passes every stored slot that is not    *)
(* below a final slot with a produced block.                               *)
LEMMA WalkedReaches ==
  ASSUME SolInv, LinearInv, RowsInv, Ids(eth) # {}, NEW u, Stored(sol, u), u <= TopSlot(eth),
         \A id \in ProducedIds(eth) : u < id[1] => sol[id[1]].status # "Finalized"
  PROVE  u \in WalkedSlots(sol, eth)
<1> DEFINE top == TopSlot(eth)
<1>0. Slots \subseteq Nat /\ u \in Slots
  BY StorageAssumption DEF Slots, Stored
<1>1. top \in Slots /\ Stored(sol, top)
  <2>1. Ids(eth) \subseteq IdSet
    BY IdsTyped DEF RowsInv
  <2>2. LastId(Ids(eth)) \in Ids(eth)
    BY <2>1, IdExtremes
  <2>3. LastId(Ids(eth))[1] \in Slots /\ eth[LastId(Ids(eth))[1]] # << >>
    BY <2>2, IdsTyped DEF RowsInv
  <2> QED
    BY <2>3 DEF TopSlot, RowsInv
<1> DEFINE Down == {t \in Slots : Descends(sol, eth, t)}
           par == [t \in Slots |-> sol[t].parent]
           Good == {t \in Slots : Stored(sol, t)}
<1>2. PICK g : g = Upward(Down, par, g) /\ WalkedSlots(sol, eth) = g[top]
  BY WalkedIsWalk DEF SolInv
<1>3. ASSUME NEW t \in Slots, t \in Good, u < t
      PROVE  t \in Down /\ par[t] \in Good /\ par[t] \in Slots /\ u <= par[t] /\ par[t] < t
  <2>1. u <= sol[t].parent /\ sol[t].parent \in 0 .. (t - 1)
    BY <1>0, <1>3 DEF LinearInv, SolInv, LowerParents
  <2>2. sol[t].parent # 0 /\ sol[t].parent < t
    BY <1>0, <2>1, StorageAssumption DEF Slots
  <2>3. Stored(sol, sol[t].parent)
    BY <1>3, <2>2 DEF LinearInv
  <2>4. Descends(sol, eth, t)
    <3>1. sol[t].status = "Finalized" => ~ \E id \in ProducedIds(eth) : id[1] = t
      BY <1>3
    <3> QED
      BY <2>3, <3>1 DEF Descends
  <2> QED
    BY <1>0, <2>1, <2>2, <2>3, <2>4 DEF Stored
<1>4. top \in Good
  BY <1>1
<1> HIDE DEF Down, par, Good, top
<1>5. u <= top
  BY DEF top
<1>6. u \in g[top]
  BY <1>0, <1>1, <1>2, <1>3, <1>4, <1>5, WalkReaches
<1> QED
  BY <1>2, <1>6

(* What get_pending_blocks returns: all unproduced blocks, the last        *)
(* produced one as their parent, and no final block above its finalized    *)
(* one.                                                                    *)
LEMMA PendingFacts ==
  ASSUME SolInv, LinearInv, RowsInv, OnChain(eth)
  PROVE  /\ PendingIds(sol, eth) = Firsts({s \in BuiltSlots(eth) : ~Done(eth, s)})
         /\ PendingIds(sol, eth) # {} =>
              /\ latest_block(eth) = 0 => ParentHash(sol, eth) = {}
              /\ latest_block(eth) # 0 =>
                   \E h : ParentHash(sol, eth) = {h} /\ Canon(BuiltSlots(eth), h) /\ Len(h) = latest_block(eth)
              /\ \A s \in BuiltSlots(eth) : sol[s].status = "Finalized" =>
                   \E v \in BuiltSlots(eth) : s <= v /\ <<v, 1>> \in ViewIds(sol, eth) /\ sol[v].status = "Finalized"
<1> DEFINE B == BuiltSlots(eth)
           L == latest_block(eth)
<1>0. Slots \subseteq Nat /\ eth \in EthTables /\ B \subseteq Slots /\ B \subseteq Nat
  BY StorageAssumption DEF Slots, RowsInv, BuiltSlots
<1>1. /\ Ids(eth) = Firsts(B) /\ ProducedIds(eth) = Firsts({s \in B : Done(eth, s)})
      /\ \A s \in B : Row(eth, <<s, 1>>) = eth[s][1] /\ (IsProduced(eth, <<s, 1>>) <=> Done(eth, s))
  BY <1>0, OneRowIds DEF OnChain
<1>2. /\ L \in Nat /\ \A s \in B : Done(eth, s) <=> Pos(B, s) <= L
      /\ L = 0 \/ \E s \in B : Done(eth, s) /\ Pos(B, s) = L
  BY <1>0, LatestFacts
<1>3. ASSUME NEW s \in B
      PROVE  /\ Ids(eth) # {} /\ TopSlot(eth) \in B /\ s <= TopSlot(eth) /\ Stored(sol, s)
  <2>1. <<s, 1>> \in Ids(eth)
    BY <1>1 DEF Firsts
  <2>2. Ids(eth) \subseteq IdSet /\ Ids(eth) # {}
    BY <1>0, <2>1, IdsTyped
  <2>3. LastId(Ids(eth)) \in Ids(eth) /\ (LastId(Ids(eth)) = <<s, 1>> \/ Before(<<s, 1>>, LastId(Ids(eth))))
    BY <2>1, <2>2, IdExtremes
  <2>4. PICK t \in B : LastId(Ids(eth)) = <<t, 1>>
    BY <1>1, <2>3 DEF Firsts
  <2>5. s <= t
    <3>1. s \in Nat /\ t \in Nat
      BY <1>0
    <3> QED
      BY <2>3, <2>4, <3>1 DEF Before
  <2>6. TopSlot(eth) = t
    BY <2>4 DEF TopSlot
  <2>7. Stored(sol, s)
    BY DEF RowsInv, BuiltSlots
  <2> QED
    BY <2>2, <2>5, <2>6, <2>7
<1>4. ASSUME NEW s \in B, \A t \in B : s < t /\ Done(eth, t) => sol[t].status # "Finalized"
      PROVE  s \in WalkedSlots(sol, eth)
  <2>1. ASSUME NEW id \in ProducedIds(eth), s < id[1] PROVE sol[id[1]].status # "Finalized"
    <3>1. PICK t \in B : id = <<t, 1>> /\ Done(eth, t)
      BY <1>1 DEF Firsts
    <3> QED
      BY <1>4, <2>1, <3>1
  <2> QED
    BY <1>3, <2>1, WalkedReaches
<1>5. ASSUME NEW s \in B, ~Done(eth, s) PROVE <<s, 1>> \in PendingIds(sol, eth)
  <2>1. s \in WalkedSlots(sol, eth)
    BY <1>4, <1>5 DEF OnChain
  <2>2. <<s, 1>> \in Ids(eth) /\ ~IsProduced(eth, <<s, 1>>)
    BY <1>1, <1>5 DEF Firsts
  <2> QED
    BY <2>1, <2>2 DEF PendingIds, ViewIds
<1>6. ASSUME NEW id \in PendingIds(sol, eth) PROVE id \in Firsts({s \in B : ~Done(eth, s)})
  <2>1. id \in Ids(eth) /\ ~IsProduced(eth, id)
    BY DEF PendingIds, ViewIds
  <2>2. PICK s \in B : id = <<s, 1>>
    BY <1>1, <2>1 DEF Firsts
  <2> QED
    BY <1>1, <2>1, <2>2 DEF Firsts
<1>7. PendingIds(sol, eth) = Firsts({s \in B : ~Done(eth, s)})
  <2>1. ASSUME NEW id \in Firsts({s \in B : ~Done(eth, s)}) PROVE id \in PendingIds(sol, eth)
    <3>1. PICK s \in B : id = <<s, 1>> /\ ~Done(eth, s)
      BY DEF Firsts
    <3> QED
      BY <1>5, <3>1
  <2> QED
    BY <1>6, <2>1
<1>8. ASSUME PendingIds(sol, eth) # {}
      PROVE  \A s \in B : Done(eth, s) => s # TopSlot(eth)
  <2>1. PICK id \in PendingIds(sol, eth) : TRUE
    BY <1>8
  <2>2. PICK u \in B : ~Done(eth, u)
    BY <1>6 DEF Firsts
  <2> SUFFICES ASSUME NEW s \in B, Done(eth, s), s = TopSlot(eth) PROVE FALSE
    OBVIOUS
  <2>3. u <= s /\ u \in Nat /\ s \in Nat
    BY <1>0, <1>3
  <2>4. u < s \/ u = s
    BY <2>3
  <2> QED
    BY <2>2, <2>4 DEF OnChain
<1>9. ASSUME PendingIds(sol, eth) # {}, NEW s \in B, s \in WalkedSlots(sol, eth) PROVE <<s, 1>> \in ViewIds(sol, eth)
  <2>1. <<s, 1>> \in Ids(eth)
    BY <1>1 DEF Firsts
  <2>2. s = TopSlot(eth) => ~IsProduced(eth, <<s, 1>>)
    BY <1>1, <1>8, <1>9
  <2> QED
    BY <1>9, <2>1, <2>2 DEF ViewIds
<1> DEFINE seen == {id \in ViewIds(sol, eth) : IsProduced(eth, id)}
<1>10. ASSUME NEW id \in seen PROVE \E t \in B : id = <<t, 1>> /\ Done(eth, t)
  <2>1. id \in Ids(eth) /\ IsProduced(eth, id)
    BY DEF ViewIds
  <2>2. PICK s \in B : id = <<s, 1>>
    BY <1>1, <2>1 DEF Firsts
  <2> QED
    BY <1>1, <2>1, <2>2
<1>11. /\ seen = {} => ParentHash(sol, eth) = {}
       /\ seen # {} => /\ ParentHash(sol, eth) = {Row(eth, LastId(seen)).hash}
                       /\ LastId(seen) \in seen
                       /\ \A b \in seen : LastId(seen) = b \/ Before(b, LastId(seen))
  BY <1>0, ParentHashTyped
<1> HIDE DEF seen
<1>12. ASSUME L = 0 PROVE seen = {}
  <2> SUFFICES ASSUME NEW id \in seen PROVE FALSE
    OBVIOUS
  <2>1. PICK t \in B : Done(eth, t)
    BY <1>10
  <2>2. Pos(B, t) <= 0 /\ Pos(B, t) \in Nat \ {0}
    BY <1>0, <1>2, <1>12, <2>1, PosOrder
  <2> QED
    BY <2>2
<1>13. ASSUME PendingIds(sol, eth) # {}, L # 0
       PROVE  \E h : ParentHash(sol, eth) = {h} /\ Canon(B, h) /\ Len(h) = L
  <2>1. PICK s \in B : Done(eth, s) /\ Pos(B, s) = L
    BY <1>2, <1>13
  <2>2. \A t \in B : s < t => ~Done(eth, t)
    <3>1. ASSUME NEW t \in B, s < t, Done(eth, t) PROVE FALSE
      <4>1. Pos(B, s) < Pos(B, t)
        BY <1>0, <3>1, PosOrder
      <4>2. Pos(B, t) <= L /\ Pos(B, t) \in Nat
        BY <1>0, <1>2, <3>1, PosFinite
      <4> QED
        BY <1>2, <2>1, <4>1, <4>2
    <3> QED
      BY <3>1
  <2>3. <<s, 1>> \in seen
    BY <1>1, <1>4, <1>9, <1>13, <2>1, <2>2 DEF seen
  <2>4. PICK t \in B : LastId(seen) = <<t, 1>> /\ Done(eth, t)
    BY <1>10, <1>11, <2>3
  <2>5. t = s
    <3>1. <<t, 1>> = <<s, 1>> \/ Before(<<s, 1>>, <<t, 1>>)
      BY <1>11, <2>3, <2>4
    <3>2. s \in Nat /\ t \in Nat /\ ~(s < t)
      BY <1>0, <2>2, <2>4
    <3> QED
      BY <3>1, <3>2 DEF Before
  <2>6. ParentHash(sol, eth) = {eth[s][1].hash}
    BY <1>1, <1>11, <2>3, <2>4, <2>5
  <2> QED
    BY <2>1, <2>6 DEF OnChain
<1>14. ASSUME PendingIds(sol, eth) # {}, NEW s \in B, sol[s].status = "Finalized"
       PROVE  \E v \in B : s <= v /\ <<v, 1>> \in ViewIds(sol, eth) /\ sol[v].status = "Finalized"
  <2> DEFINE F == {t \in B : s <= t /\ sol[t].status = "Finalized"}
  <2>1. s \in F /\ F \subseteq 0 .. MaxSlot /\ MaxSlot \in Nat
    BY <1>0, <1>14, StorageAssumption DEF Slots
  <2>2. PICK v \in F : \A t \in F : t <= v
    BY <2>1, GreatestElement
  <2>3. v \in B /\ s <= v /\ sol[v].status = "Finalized"
    OBVIOUS
  <2>4. ASSUME NEW t \in B, v < t PROVE sol[t].status # "Finalized"
    <3>1. t \in Nat /\ s \in Nat /\ v \in Nat
      BY <1>0, <2>3
    <3>2. s <= t /\ ~(t <= v)
      BY <2>3, <2>4, <3>1
    <3> QED
      BY <2>2, <3>2
  <2>5. v \in WalkedSlots(sol, eth)
    BY <1>4, <2>3, <2>4
  <2>6. <<v, 1>> \in ViewIds(sol, eth)
    BY <1>9, <1>14, <2>3, <2>5
  <2> QED
    BY <2>3, <2>6
<1> QED
  BY <1>7, <1>11, <1>12, <1>13, <1>14

(* The number restore_blocks gives to a pending block is its number in the *)
(* chain.                                                                  *)
LEMMA RestoredNumber ==
  ASSUME eth \in EthTables, OnChain(eth), NEW s \in BuiltSlots(eth), ~Done(eth, s)
  PROVE  latest_block(eth) + 1
           + Cardinality({x \in Firsts({t \in BuiltSlots(eth) : ~Done(eth, t)}) : Before(x, <<s, 1>>)})
         = Pos(BuiltSlots(eth), s)
<1> DEFINE B == BuiltSlots(eth)
           L == latest_block(eth)
           Old == {t \in B : Done(eth, t)}
           New == {t \in B : ~Done(eth, t) /\ t < s}
           Ranked == {x \in Firsts({t \in B : ~Done(eth, t)}) : Before(x, <<s, 1>>)}
<1>0. B \subseteq Slots /\ B \subseteq Nat
  BY StorageAssumption DEF Slots, BuiltSlots
<1>1. /\ L \in Nat /\ \A t \in B : Done(eth, t) <=> Pos(B, t) <= L
      /\ L = 0 \/ \E t \in B : Done(eth, t) /\ Pos(B, t) = L
  BY LatestFacts
<1>2. IsFiniteSet(B) /\ IsFiniteSet(Old) /\ IsFiniteSet(New)
  <2>1. IsFiniteSet(B)
    BY <1>0, PosFinite
  <2>2. Old \in SUBSET B /\ New \in SUBSET B
    OBVIOUS
  <2> QED
    BY <2>1, <2>2, FS_Subset
<1>3. Cardinality(Old) = L
  <2>1. CASE L = 0
    <3>1. ASSUME NEW t \in Old PROVE FALSE
      <4>1. t \in B /\ Pos(B, t) <= 0
        BY <1>1, <2>1
      <4>2. Pos(B, t) \in Nat \ {0}
        BY <1>0, <4>1, PosOrder
      <4> QED
        BY <4>1, <4>2
    <3>2. Old = {}
      BY <3>1
    <3> QED
      BY <2>1, <3>2, FS_EmptySet
  <2>2. ASSUME NEW u \in B, Pos(B, u) = L PROVE Cardinality(Old) = L
    <3>1. ASSUME NEW t \in B PROVE t <= u <=> Done(eth, t)
      <4>1. /\ Pos(B, t) \in Nat /\ Pos(B, u) \in Nat
            /\ (t < u <=> Pos(B, t) < Pos(B, u)) /\ (t = u <=> Pos(B, t) = Pos(B, u))
        BY <1>0, PosOrder
      <4>2. t \in Nat /\ u \in Nat
        BY <1>0
      <4>3. Done(eth, t) <=> Pos(B, t) <= Pos(B, u)
        BY <1>1, <2>2
      <4> QED
        BY <4>1, <4>2, <4>3
    <3>2. Old = {t \in B : t <= u}
      BY <3>1
    <3> QED
      BY <2>2, <3>2 DEF Pos
  <2> QED
    BY <1>1, <2>1, <2>2
<1>4. Cardinality(Ranked) = Cardinality(New)
  <2> DEFINE f == [t \in New |-> <<t, 1>>]
  <2>1. ASSUME NEW t \in New PROVE <<t, 1>> \in Ranked
    BY DEF Firsts, Before
  <2>2. ASSUME NEW x \in Ranked PROVE \E t \in New : x = <<t, 1>>
    <3>1. PICK t \in B : x = <<t, 1>> /\ ~Done(eth, t) /\ Before(x, <<s, 1>>)
      BY DEF Firsts
    <3>2. t < s
      BY <3>1 DEF Before
    <3> QED
      BY <3>1, <3>2
  <2>3. f \in Bijection(New, Ranked)
    <3> HIDE DEF New, Ranked
    <3>1. f \in [New -> Ranked]
      BY <2>1
    <3>2. \A a, b \in New : f[a] = f[b] => a = b
      OBVIOUS
    <3>3. \A x \in Ranked : \E t \in New : f[t] = x
      BY <2>2
    <3> QED
      BY <3>1, <3>2, <3>3 DEF Bijection, Injection, Surjection, IsInjective
  <2>4. ExistsBijection(New, Ranked)
    BY <2>3 DEF ExistsBijection
  <2> QED
    BY <1>2, <2>4, FS_Bijection
<1>5. {t \in B : t <= s} = (Old \cup New) \cup {s} /\ s \notin Old \cup New /\ Old \cap New = {}
  <2>1. ASSUME NEW t \in B PROVE t <= s <=> (Done(eth, t) \/ (~Done(eth, t) /\ t < s) \/ t = s)
    <3>1. t \in Nat /\ s \in Nat
      BY <1>0
    <3>2. Done(eth, t) => t < s
      <4>1. ASSUME Done(eth, t), s < t PROVE FALSE
        BY <4>1 DEF OnChain
      <4> QED
        BY <3>1, <4>1
    <3> QED
      BY <3>1, <3>2
  <2>2. ~(s < s)
    BY <1>0
  <2> QED
    BY <2>1, <2>2
<1>6. Cardinality(Old \cup New) = Cardinality(Old) + Cardinality(New) /\ IsFiniteSet(Old \cup New)
  <2> HIDE DEF Old, New
  <2>1. Cardinality(Old) \in Nat /\ Cardinality(New) \in Nat
    BY <1>2, FS_CardinalityType
  <2>2. Cardinality(Old \cup New) = Cardinality(Old) + Cardinality(New) - 0 /\ IsFiniteSet(Old \cup New)
    BY <1>2, <1>5, FS_Union, FS_EmptySet
  <2> QED
    BY <2>1, <2>2
<1>7. Cardinality(New) \in Nat
  BY <1>2, FS_CardinalityType
<1> HIDE DEF Old, New, Ranked
<1>8. Cardinality({t \in B : t <= s}) = Cardinality(Old \cup New) + 1
  BY <1>5, <1>6, FS_AddElement
<1>9. Pos(B, s) = L + 1 + Cardinality(Ranked)
  BY <1>1, <1>3, <1>4, <1>6, <1>7, <1>8 DEF Pos
<1> QED
  BY <1>9 DEF Ranked

(* restore_blocks gives every pending block that the producer has the hash *)
(* of the chain.                                                           *)
LEMMA RestoredFacts ==
  ASSUME eth \in EthTables, OnChain(eth), Canon(BuiltSlots(eth), head), 
         NEW ids, ids = Firsts({t \in BuiltSlots(eth) : ~Done(eth, t)})
  PROVE  /\ DOMAIN Restored(ids) = NewUpTo(Len(head))
         /\ \A id \in DOMAIN Restored(ids) : /\ Canon(BuiltSlots(eth), Restored(ids)[id])
                                             /\ Len(Restored(ids)[id]) = Pos(BuiltSlots(eth), id[1])
<1> DEFINE B == BuiltSlots(eth)
           L == latest_block(eth)
           rank(id) == Cardinality({x \in ids : Before(x, id)})
<1>0. ids \subseteq IdSet /\ head \in Seq(Contents)
  BY DEF Firsts, IdSet, BuiltSlots, Canon
<1>1. /\ DOMAIN Restored(ids) \subseteq ids
      /\ \A id \in DOMAIN Restored(ids) : L + 1 + rank(id) \in 1 .. Len(head)
                                            /\ Restored(ids)[id] = SubSeq(head, 1, L + 1 + rank(id))
      /\ \A id \in ids : L + 1 + rank(id) <= Len(head) => id \in DOMAIN Restored(ids)
  <2>1. DOMAIN Restored(ids) \subseteq ids
    BY <1>0, RestoredTyped
  <2>2. ASSUME NEW id \in DOMAIN Restored(ids)
        PROVE  L + 1 + rank(id) \in 1 .. Len(head) /\ Restored(ids)[id] = SubSeq(head, 1, L + 1 + rank(id))
    BY <1>0, RestoredTyped, ZenonT(60)
  <2>3. ASSUME NEW id \in ids, L + 1 + rank(id) <= Len(head) PROVE id \in DOMAIN Restored(ids)
    BY <1>0, <2>3, RestoredTyped, ZenonT(60)
  <2> HIDE DEF rank, L
  <2> QED
    BY <2>1, <2>2, <2>3
<1>2. ASSUME NEW s \in B, ~Done(eth, s) PROVE L + 1 + rank(<<s, 1>>) = Pos(B, s)
  BY <1>2, RestoredNumber
<1> HIDE DEF rank
<1>3. ASSUME NEW id \in DOMAIN Restored(ids)
      PROVE  id \in NewUpTo(Len(head)) /\ Canon(B, Restored(ids)[id]) /\ Len(Restored(ids)[id]) = Pos(B, id[1])
  <2>1. id \in ids
    BY <1>1
  <2>2. PICK s \in B : id = <<s, 1>> /\ ~Done(eth, s)
    BY <2>1 DEF Firsts
  <2>3. L + 1 + rank(id) = Pos(B, s)
    BY <1>2, <2>2
  <2>4. Pos(B, s) \in 1 .. Len(head) /\ Restored(ids)[id] = SubSeq(head, 1, Pos(B, s))
    BY <1>1, <2>3
  <2>5. Pos(B, s) \in 0 .. Len(head) /\ Pos(B, s) <= Len(head)
    BY <1>0, <2>4
  <2>6. Canon(B, Restored(ids)[id]) /\ Len(Restored(ids)[id]) = Pos(B, s)
    <3>1. ASSUME NEW n \in 0 .. Len(head) PROVE Canon(B, SubSeq(head, 1, n)) /\ Len(SubSeq(head, 1, n)) = n
      BY CanonPrefix
    <3> HIDE DEF B
    <3> QED
      BY <2>4, <2>5, <3>1
  <2>7. id \in NewUpTo(Len(head))
    BY <2>2, <2>5 DEF NewUpTo, Firsts
  <2> QED
    BY <2>2, <2>6, <2>7
<1>4. ASSUME NEW id \in NewUpTo(Len(head)) PROVE id \in DOMAIN Restored(ids)
  <2>1. PICK s \in B : id = <<s, 1>> /\ ~Done(eth, s) /\ Pos(B, s) <= Len(head)
    BY DEF NewUpTo, Firsts
  <2>2. id \in ids
    BY <2>1 DEF Firsts
  <2>3. L + 1 + rank(id) <= Len(head)
    BY <1>2, <2>1
  <2> QED
    BY <1>1, <2>2, <2>3
<1> QED
  BY <1>3, <1>4

-----------------------------------------------------------------------------
(* The steps.                                                              *)

(* At the start there is no block.                                         *)
LEMMA InitChainInv == Init => ChainInv
<1> SUFFICES ASSUME Init PROVE ChainInv
  OBVIOUS
<1>0. BuiltSlots(eth) = {} /\ head = Genesis /\ known = {Genesis} /\ gethFinal = Genesis /\ pc = "start"
  BY DEF Init, BuiltSlots
<1>1. LinearInv
  BY DEF Init, LinearInv, Stored, NoSlot
<1>2. OnChain(eth)
  BY <1>0 DEF OnChain
<1>3. ProducerInv
  <2>1. \A h \in known : \A i \in 0 .. Len(h) : SubSeq(h, 1, i) \in known
    BY <1>0 DEF Genesis
  <2> QED
    BY <1>0, <2>1, CanonGenesis DEF ProducerInv
<1>4. ReproduceInv /\ BuildInv
  BY <1>0 DEF ReproduceInv, BuildInv, Working, Carrying
<1>5. FinalInv
  BY <1>0 DEF FinalInv, Carrying, AllFinal, FinalAbove, Genesis
<1> QED
  BY <1>1, <1>2, <1>3, <1>4, <1>5 DEF ChainInv

(* What is final stays so while statuses and slots with blocks are kept.   *)
LEMMA FinalKept ==
  ASSUME NEW e, NEW f, NEW old, NEW new, NEW h, BuiltSlots(e) \subseteq BuiltSlots(f),
         \A s \in Slots : old[s].status = "Finalized" => new[s].status = "Finalized",
         \A i \in 1 .. Len(h) : \E t \in BuiltSlots(e) : h[i][1] <= t /\ old[t].status = "Finalized"
  PROVE  \A i \in 1 .. Len(h) : \E t \in BuiltSlots(f) : h[i][1] <= t /\ new[t].status = "Finalized"
<1> SUFFICES ASSUME NEW i \in 1 .. Len(h)
             PROVE  \E t \in BuiltSlots(f) : h[i][1] <= t /\ new[t].status = "Finalized"
  OBVIOUS
<1>1. PICK t \in BuiltSlots(e) : h[i][1] <= t /\ old[t].status = "Finalized"
  OBVIOUS
<1>2. t \in BuiltSlots(f) /\ t \in Slots
  BY <1>1 DEF BuiltSlots
<1> QED
  BY <1>1, <1>2

LEMMA AllFinalKept ==
  ASSUME BuiltSlots(eth) \subseteq BuiltSlots(eth'),
         \A s \in Slots : sol[s].status = "Finalized" => sol'[s].status = "Finalized"
  PROVE  /\ gethFinal' = gethFinal /\ AllFinal(gethFinal) => AllFinal(gethFinal)'
         /\ finalBlock' = finalBlock /\ AllFinal(finalBlock.hash) => AllFinal(finalBlock.hash)'
<1>1. ASSUME NEW h, \A i \in 1 .. Len(h) : \E t \in BuiltSlots(eth) : h[i][1] <= t /\ sol[t].status = "Finalized"
      PROVE  \A i \in 1 .. Len(h) : \E t \in BuiltSlots(eth') : h[i][1] <= t /\ sol'[t].status = "Finalized"
  BY <1>1, FinalKept
<1>2. ASSUME gethFinal' = gethFinal, AllFinal(gethFinal) PROVE AllFinal(gethFinal)'
  <2>1. \A i \in 1 .. Len(gethFinal) : \E t \in BuiltSlots(eth') : gethFinal[i][1] <= t /\ sol'[t].status = "Finalized"
    BY <1>1, <1>2 DEF AllFinal, FinalAbove
  <2> QED
    BY <1>2, <2>1 DEF AllFinal, FinalAbove
<1>3. ASSUME finalBlock' = finalBlock, AllFinal(finalBlock.hash) PROVE AllFinal(finalBlock.hash)'
  <2>1. PICK h : h = finalBlock.hash
    OBVIOUS
  <2>2. \A i \in 1 .. Len(h) : \E t \in BuiltSlots(eth') : h[i][1] <= t /\ sol'[t].status = "Finalized"
    BY <1>1, <1>3, <2>1 DEF AllFinal, FinalAbove
  <2> QED
    BY <1>3, <2>1, <2>2 DEF AllFinal, FinalAbove
<1> QED
  BY <1>2, <1>3

(* A step that changes only Solana blocks, none of which loses its status. *)
LEMMA SolFrame ==
  ASSUME ChainInv, LinearInv', \A s \in Slots : sol[s].status = "Finalized" => sol'[s].status = "Finalized",
         UNCHANGED <<eth, gethVars, pc, parseVars, produceVars>>
  PROVE  ChainInv'
<1>0. UNCHANGED <<eth, head, known, gethFinal, pc, fromSlot, current, pending, parent, finalBlock, produced>>
  BY DEF gethVars, parseVars, produceVars
<1>1. OnChain(eth)' /\ ProducerInv' /\ ReproduceInv' /\ BuildInv'
  <2>1. OnChain(eth)' /\ ProducerInv'
    BY <1>0 DEF ChainInv, ProducerInv
  <2>2. ReproduceInv'
    BY <1>0 DEF ChainInv, ReproduceInv, Expected
  <2>4. Carrying' = Carrying
    BY <1>0 DEF Carrying
  <2>5. BuildInv'
    BY <1>0, <2>4 DEF ChainInv, BuildInv, NewUpTo
  <2> QED
    BY <2>1, <2>2, <2>5
<1>3. AllFinal(gethFinal)'
  BY <1>0, AllFinalKept DEF ChainInv, FinalInv
<1>4. ASSUME Carrying, finalBlock.kind = "Produced" PROVE AllFinal(finalBlock.hash)'
  BY <1>0, <1>4, AllFinalKept DEF ChainInv, FinalInv
<1>5. Carrying' = Carrying
  BY <1>0 DEF Carrying
<1>6. ASSUME Carrying, finalBlock.kind = "Pending"
      PROVE  finalBlock.id[1] \in BuiltSlots(eth) /\ sol'[finalBlock.id[1]].status = "Finalized"
  <2>1. finalBlock.id[1] \in BuiltSlots(eth) /\ sol[finalBlock.id[1]].status = "Finalized"
    BY <1>6 DEF ChainInv, FinalInv
  <2>2. finalBlock.id[1] \in Slots
    BY <2>1 DEF BuiltSlots
  <2> QED
    BY <2>1, <2>2
<1>7. FinalInv'
  BY <1>0, <1>3, <1>4, <1>5, <1>6 DEF ChainInv, FinalInv
<1> QED
  BY <1>1, <1>7 DEF ChainInv

(* A new slot follows the last one.                                        *)
LEMMA LoaderStoresChain ==
  ASSUME OneChain, IndexerInv, ChainInv, NEW s \in Slots, NEW p \in 0 .. MaxSlot,
         NEW status \in {"Confirmed", "Finalized"}, LoaderStores(s, p, status)
  PROVE  ChainInv'
<1>0. Slots \subseteq Nat /\ LastSlot(sol) \in Nat
  BY StorageAssumption, LastSlotBounds DEF Slots
<1>1. /\ s > LastSlot(sol) /\ p = LastSlot(sol)
      /\ sol' = [sol EXCEPT ![s] = [status |-> status, ver |-> 1, parent |-> p]]
      /\ UNCHANGED <<eth, gethVars, pc, parseVars, produceVars>>
  <2>1. /\ s > LastSlot(sol) /\ p < s /\ (p = 0 \/ Stored(sol, p))
        /\ \A t \in (p + 1) .. (s - 1) : ~Stored(sol, t)
        /\ sol' = [sol EXCEPT ![s] = [status |-> status, ver |-> 1, parent |-> p]]
        /\ UNCHANGED <<eth, gethVars, pc, parseVars, produceVars>>
    BY DEF LoaderStores, OneChain
  <2>2. p \in Nat /\ s \in Nat
    BY <1>0, StorageAssumption
  <2>3. p <= LastSlot(sol)
    BY <1>0, <2>1, LastSlotBounds DEF Stored
  <2>4. ~(p < LastSlot(sol))
    <3> SUFFICES ASSUME p < LastSlot(sol) PROVE FALSE
      OBVIOUS
    <3>1. LastSlot(sol) # 0 /\ LastSlot(sol) \in (p + 1) .. (s - 1)
      BY <1>0, <2>1, <2>2
    <3> QED
      BY <2>1, <3>1, LastSlotBounds
  <2> QED
    BY <1>0, <2>1, <2>2, <2>3, <2>4
<1>2. sol'[s] = [status |-> status, ver |-> 1, parent |-> p] /\ \A t \in Slots : t # s => sol'[t] = sol[t]
  BY <1>1 DEF IndexerInv, SolInv
<1>3. \A t \in Slots : Stored(sol, t) => t <= p /\ t < s
  <2>1. ASSUME NEW t \in Slots, Stored(sol, t) PROVE t <= p /\ t < s
    <3>1. t <= LastSlot(sol) /\ t \in Nat /\ s \in Nat
      BY <1>0, <2>1, LastSlotBounds
    <3> QED
      BY <1>0, <1>1, <3>1
  <2> QED
    BY <2>1
<1>4. Stored(sol', s) /\ ~Stored(sol, s) /\ \A t \in Slots : t # s => (Stored(sol', t) <=> Stored(sol, t))
  <2>1. ~(s < s)
    BY <1>0
  <2> QED
    BY <1>2, <1>3, <2>1 DEF Stored
<1>5. p # 0 => Stored(sol, p)
  BY <1>1, LastSlotBounds
<1>6. \A t \in Slots : sol'[t].ver \in {0, 1}
  BY <1>2 DEF ChainInv, LinearInv
<1>7. ASSUME NEW t \in Slots, Stored(sol', t), sol'[t].parent # 0 PROVE Stored(sol', sol'[t].parent)
  <2>1. CASE t = s
    BY <1>2, <1>4, <1>5, <1>7, <2>1 DEF Stored
  <2>2. CASE t # s
    <3>1. Stored(sol, sol[t].parent) /\ sol'[t] = sol[t]
      BY <1>2, <1>4, <1>7, <2>2 DEF ChainInv, LinearInv
    <3> QED
      BY <1>4, <3>1 DEF Stored
  <2> QED
    BY <2>1, <2>2
<1>8. ASSUME NEW t \in Slots, NEW u \in Slots, Stored(sol', t), Stored(sol', u), u < t PROVE u <= sol'[t].parent
  <2>1. u # s
    <3>1. ASSUME u = s PROVE FALSE
      <4>1. t # s /\ t \in Nat /\ s \in Nat
        BY <1>0, <1>8, <3>1
      <4>2. t < s
        BY <1>3, <1>4, <1>8, <4>1
      <4> QED
        BY <1>8, <3>1, <4>1, <4>2
    <3> QED
      BY <3>1
  <2>2. Stored(sol, u)
    BY <1>4, <1>8, <2>1
  <2>3. CASE t = s
    BY <1>2, <1>3, <2>2, <2>3
  <2>4. CASE t # s
    BY <1>2, <1>4, <1>8, <2>2, <2>4 DEF ChainInv, LinearInv
  <2> QED
    BY <2>3, <2>4
<1>10. LinearInv'
  BY <1>6, <1>7, <1>8 DEF LinearInv
<1>11. \A t \in Slots : sol[t].status = "Finalized" => sol'[t].status = "Finalized"
  BY <1>2, <1>4 DEF Stored
<1> QED
  BY <1>1, <1>10, <1>11, SolFrame

(* set_finalized_slot changes no parent.                                   *)
LEMMA LoaderMarksChain ==
  ASSUME OneChain, IndexerInv, ChainInv, NEW s \in Slots, NEW S \in SUBSET ForkOf(s), LoaderMarksFinalized(s, S)
  PROVE  ChainInv'
<1>1. /\ sol' = [t \in Slots |-> IF t \in ForkOf(s) THEN [sol[t] EXCEPT !.status = "Finalized"] ELSE sol[t]]
      /\ UNCHANGED <<eth, gethVars, pc, parseVars, produceVars>>
  BY DEF LoaderMarksFinalized
<1>2. ForkOf(s) \subseteq {t \in Slots : Stored(sol, t)}
  <2>1. Branch(sol, s) \subseteq {t \in Slots : Stored(sol, t)}
    BY BranchStored DEF IndexerInv, SolInv
  <2> QED
    BY <2>1 DEF ForkOf
<1>3. ASSUME NEW t \in Slots
      PROVE  /\ sol'[t].ver = sol[t].ver /\ sol'[t].parent = sol[t].parent
             /\ Stored(sol', t) <=> Stored(sol, t)
             /\ sol[t].status = "Finalized" => sol'[t].status = "Finalized"
  <2>1. sol[t] \in SolRow
    BY DEF IndexerInv, SolInv
  <2>2. CASE t \in ForkOf(s)
    <3>1. sol'[t] = [sol[t] EXCEPT !.status = "Finalized"]
      BY <1>1, <2>2
    <3>2. sol'[t].status = "Finalized" /\ sol'[t].ver = sol[t].ver /\ sol'[t].parent = sol[t].parent
      BY <2>1, <3>1 DEF SolRow
    <3> QED
      BY <1>2, <2>2, <3>2 DEF Stored
  <2>3. CASE t \notin ForkOf(s)
    BY <1>1, <2>3 DEF Stored
  <2> QED
    BY <2>2, <2>3
<1>4. \A t \in Slots : sol'[t].ver \in {0, 1}
  BY <1>3 DEF ChainInv, LinearInv
<1>5. ASSUME NEW t \in Slots, Stored(sol', t), sol'[t].parent # 0 PROVE Stored(sol', sol'[t].parent)
  <2>1. Stored(sol, sol[t].parent) /\ sol'[t].parent = sol[t].parent
    BY <1>3, <1>5 DEF ChainInv, LinearInv
  <2>2. sol[t].parent \in Slots
    BY <2>1 DEF Stored
  <2> QED
    BY <1>3, <2>1, <2>2
<1>6. \A t, u \in Slots : Stored(sol', t) /\ Stored(sol', u) /\ u < t => u <= sol'[t].parent
  BY <1>3 DEF ChainInv, LinearInv
<1>7. LinearInv'
  BY <1>4, <1>5, <1>6 DEF LinearInv
<1> QED
  BY <1>1, <1>3, <1>7, SolFrame

(* The loader.                                                             *)
LEMMA LoaderChain ==
  ASSUME OneChain, IndexerInv, PassedInv, ChainInv, LoaderStep \/ LoaderExits
  PROVE  ChainInv'
<1>1. ~LoaderUpdatesBlocks /\ ~LoaderSendsReorg
  BY DEF LoaderUpdatesBlocks, LoaderSendsReorg, IndexerInv, SolInv, PassedInv
<1>2. CASE LoaderExits
  <2>1. UNCHANGED <<sol, eth, gethVars, pc, parseVars, produceVars>>
    BY <1>2 DEF LoaderExits
  <2>2. LinearInv'
    BY <2>1 DEF LinearInv, ChainInv
  <2> QED
    BY <2>1, <2>2, SolFrame
<1> QED
  BY <1>1, <1>2, LoaderStoresChain, LoaderMarksChain DEF LoaderStep

(* A step that changes neither the tables nor the producer, and enters no  *)
(* state in which blocks are built.                                        *)
LEMMA IdleFrame ==
  ASSUME ChainInv, UNCHANGED <<sol, eth, gethVars>>,
         pc' \notin {"reproduce", "rebuild", "build", "switched", "register", "receipts"},
         pc' \in {"run"} \cup Working => latest_block(eth) <= Len(head)
  PROVE  ChainInv'
<1>0. UNCHANGED <<sol, eth, head, known, gethFinal>> /\ ~Carrying'
  BY DEF gethVars, Carrying
<1>1. LinearInv' /\ OnChain(eth)' /\ ProducerInv'
  BY <1>0 DEF ChainInv, LinearInv, ProducerInv
<1>2. ReproduceInv'
  BY DEF ReproduceInv
<1>3. BuildInv'
  BY <1>0 DEF BuildInv
<1>4. AllFinal(gethFinal)'
  BY <1>0 DEF AllFinal, FinalAbove, ChainInv, FinalInv
<1>5. FinalInv'
  BY <1>0, <1>4 DEF ChainInv, FinalInv
<1> QED
  BY <1>1, <1>2, <1>3, <1>5 DEF ChainInv

(* Numbers and lengths that occur in the steps.                            *)
LEMMA ChainTyped ==
  ASSUME IndexerInv, ChainInv
  PROVE  /\ eth \in EthTables /\ BuiltSlots(eth) \subseteq Slots /\ BuiltSlots(eth) \subseteq Nat /\ Slots \subseteq Nat
         /\ latest_block(eth) \in Nat
         /\ Len(head) \in Nat /\ Len(parent) \in Nat /\ Len(gethFinal) \in Nat /\ Len(finalBlock.hash) \in Nat
         /\ \A s \in BuiltSlots(eth) : Pos(BuiltSlots(eth), s) \in Nat \ {0}
         /\ \A s \in BuiltSlots(eth) : Done(eth, s) <=> Pos(BuiltSlots(eth), s) <= latest_block(eth)
         /\ Ids(eth) = Firsts(BuiltSlots(eth)) /\ ProducedIds(eth) = Firsts({s \in BuiltSlots(eth) : Done(eth, s)})
         /\ \A s \in BuiltSlots(eth) : Row(eth, <<s, 1>>) = eth[s][1] /\ eth[s][1].ver = 1
         /\ Canon(BuiltSlots(eth), head) /\ Canon(BuiltSlots(eth), gethFinal)
<1>1. eth \in EthTables /\ OnChain(eth) /\ BuiltSlots(eth) \subseteq Slots /\ Slots \subseteq Nat
  BY StorageAssumption DEF IndexerInv, RowsInv, ChainInv, BuiltSlots, Slots
<1>2. Len(head) \in Nat /\ Len(parent) \in Nat /\ Len(gethFinal) \in Nat /\ Len(finalBlock.hash) \in Nat
  BY DEF IndexerInv, GethInv, ProduceInv
<1>3. \A s \in BuiltSlots(eth) : Pos(BuiltSlots(eth), s) \in Nat \ {0}
  BY <1>1, PosOrder
<1>4. /\ latest_block(eth) \in Nat
      /\ \A s \in BuiltSlots(eth) : Done(eth, s) <=> Pos(BuiltSlots(eth), s) <= latest_block(eth)
  BY <1>1, LatestFacts
<1>5. /\ Ids(eth) = Firsts(BuiltSlots(eth)) /\ ProducedIds(eth) = Firsts({s \in BuiltSlots(eth) : Done(eth, s)})
      /\ \A s \in BuiltSlots(eth) : Row(eth, <<s, 1>>) = eth[s][1] /\ eth[s][1].ver = 1
  BY <1>1, OneRowIds DEF OnChain
<1>6. Canon(BuiltSlots(eth), head) /\ Canon(BuiltSlots(eth), gethFinal)
  BY DEF ChainInv, ProducerInv
<1> QED
  BY <1>1, <1>2, <1>3, <1>4, <1>5, <1>6

(* pre_run compares the producer with the storage.                         *)
LEMMA PreRunChain ==
  ASSUME IndexerInv, ChainInv, PreRun
  PROVE  ChainInv'
<1>0. UNCHANGED <<sol, eth, gethVars, produceVars>> /\ latest_block(eth) \in Nat /\ Len(head) \in Nat
  BY ChainTyped DEF PreRun, solVars
<1>1. CASE pc' = "dead" \/ (pc' = "run" /\ latest_block(eth) <= Len(head))
  BY <1>0, <1>1, IdleFrame DEF Working
<1>2. CASE latest_block(eth) > Len(head) /\ pc' = "reproduce" /\ fromSlot' \in SlotsForEthBlock(eth, Len(head) + 1)
  <2>0. UNCHANGED <<sol, eth, head, known, gethFinal>> /\ ~Carrying'
    BY <1>0, <1>2 DEF gethVars, Carrying
  <2>1. LinearInv' /\ OnChain(eth)' /\ ProducerInv'
    BY <2>0 DEF ChainInv, LinearInv, ProducerInv
  <2>2. PICK id \in ProducedIds(eth) : id[1] = fromSlot'
    BY <1>2, SlotsForTyped, ChainTyped
  <2>3. fromSlot' \in BuiltSlots(eth) /\ Done(eth, fromSlot')
    BY <2>2, ChainTyped DEF Firsts
  <2>4. Len(head) <= latest_block(eth)
    BY <1>0, <1>2
  <2>5. ReproduceInv' /\ BuildInv'
    BY <1>2, <2>0, <2>3, <2>4 DEF ReproduceInv, BuildInv, Working
  <2>6. AllFinal(gethFinal)'
    BY <2>0 DEF AllFinal, FinalAbove, ChainInv, FinalInv
  <2>7. FinalInv'
    BY <2>0, <2>6 DEF ChainInv, FinalInv
  <2> QED
    BY <2>1, <2>5, <2>7 DEF ChainInv
<1>3. \/ latest_block(eth) > Len(head) /\ pc' = "reproduce" /\ fromSlot' \in SlotsForEthBlock(eth, Len(head) + 1)
      \/ pc' = "dead"
      \/ pc' = "run" /\ latest_block(eth) <= Len(head)
  BY <1>0 DEF PreRun
<1> QED
  BY <1>1, <1>2, <1>3

(* Reproduction starts on the block below the first one to rebuild.        *)
LEMMA StartReproducingChain ==
  ASSUME IndexerInv, PassedInv, ChainInv, StartReproducing
  PROVE  ChainInv'
<1> DEFINE B == BuiltSlots(eth)
           max == get_max_slot_produced(eth)
           end == BatchEnd(fromSlot, max + 1)
           ids == Expected(fromSlot, end)
           S == {t \in B : Done(eth, t) /\ fromSlot <= t /\ t < end}
<1>0. /\ pc = "reproduce" /\ fromSlot \in B /\ Done(eth, fromSlot) /\ Len(head) <= latest_block(eth)
      /\ UNCHANGED <<sol, eth, head, known, gethFinal>>
  BY DEF StartReproducing, ChainInv, ReproduceInv, solVars, gethVars
<1>1. /\ B \subseteq Slots /\ B \subseteq Nat /\ ProducedIds(eth) = Firsts({s \in B : Done(eth, s)})
      /\ \A s \in B : Row(eth, <<s, 1>>) = eth[s][1]
  BY ChainTyped
<1>2. /\ max \in Nat /\ max \in B /\ Done(eth, max) /\ \A t \in B : Done(eth, t) => t <= max
  <2>1. ProducedIds(eth) # {} /\ ProducedIds(eth) \subseteq IdSet
    BY <1>0, ProducedTyped DEF IndexerInv, ParseInv, RowsInv
  <2>2. LastId(ProducedIds(eth)) \in ProducedIds(eth)
    BY <2>1, IdExtremes
  <2>3. max \in B /\ Done(eth, max)
    BY <1>1, <2>2 DEF Firsts, get_max_slot_produced
  <2>4. ASSUME NEW t \in B, Done(eth, t) PROVE t <= max
    <3>1. <<t, 1>> \in ProducedIds(eth)
      BY <1>1, <2>4 DEF Firsts
    <3> QED
      BY <2>1, <3>1, MaxProducedFacts DEF IndexerInv
  <2> QED
    BY <1>1, <2>3, <2>4
<1> HIDE DEF max
<1>3. fromSlot \in Nat /\ fromSlot < max + 1 /\ end \in Nat /\ end <= max + 1 /\ fromSlot < end
  <2>1. fromSlot \in Nat /\ fromSlot <= max /\ max + 1 \in Nat
    BY <1>0, <1>1, <1>2
  <2>2. fromSlot < max + 1
    BY <1>2, <2>1
  <2> QED
    BY <2>1, <2>2, BatchEndFacts
<1> HIDE DEF end
<1>4. ids = Firsts(S) /\ fromSlot \in S /\ S \subseteq B
  <2>1. ASSUME NEW id \in ids PROVE id \in Firsts(S)
    <3>1. id \in ProducedIds(eth) /\ id[1] >= fromSlot /\ id[1] < end
      BY DEF Expected
    <3>2. PICK t \in B : id = <<t, 1>> /\ Done(eth, t)
      BY <1>1, <3>1 DEF Firsts
    <3>3. fromSlot <= t /\ t < end
      <4>1. t \in Nat
        BY <1>1
      <4> QED
        BY <1>3, <3>1, <3>2, <4>1
    <3> QED
      BY <3>2, <3>3 DEF Firsts
  <2>2. ASSUME NEW id \in Firsts(S) PROVE id \in ids
    <3>1. PICK t \in B : id = <<t, 1>> /\ Done(eth, t) /\ fromSlot <= t /\ t < end
      BY DEF Firsts
    <3>2. id \in ProducedIds(eth)
      BY <1>1, <3>1 DEF Firsts
    <3>3. t >= fromSlot
      <4>1. t \in Nat
        BY <1>1
      <4> QED
        BY <1>3, <3>1, <4>1
    <3> QED
      BY <3>1, <3>2, <3>3 DEF Expected
  <2>3. fromSlot \in S
    BY <1>0, <1>3
  <2> QED
    BY <2>1, <2>2, <2>3
<1> HIDE DEF ids
<1>5. ids # {} /\ ids \subseteq IdSet
  <2>1. <<fromSlot, 1>> \in ids
    BY <1>4 DEF Firsts
  <2>2. ids \subseteq ProducedIds(eth)
    BY DEF ids, Expected
  <2>3. ProducedIds(eth) \subseteq IdSet
    BY ProducedTyped DEF IndexerInv, RowsInv
  <2> QED
    BY <2>1, <2>2, <2>3
<1>6. PICK f \in S : FirstId(ids) = <<f, 1>> /\ \A t \in S : f <= t
  <2>1. FirstId(ids) \in ids /\ \A b \in ids : FirstId(ids) = b \/ Before(FirstId(ids), b)
    BY <1>5, IdExtremes
  <2>2. PICK f \in S : FirstId(ids) = <<f, 1>>
    <3> HIDE DEF S
    <3>1. FirstId(ids) \in S \X {1}
      BY <1>4, <2>1 DEF Firsts
    <3> QED
      BY <3>1
  <2>3. ASSUME NEW t \in S PROVE f <= t
    <3>1. <<t, 1>> \in ids
      BY <1>4 DEF Firsts
    <3>2. <<f, 1>> = <<t, 1>> \/ Before(<<f, 1>>, <<t, 1>>)
      BY <2>1, <2>2, <3>1
    <3>3. f \in Nat /\ t \in Nat
      BY <1>1, <1>4
    <3> QED
      BY <3>2, <3>3 DEF Before
  <2> QED
    BY <2>2, <2>3
<1> DEFINE first == eth[f][1].hash
<1>7. f \in B /\ Done(eth, f) /\ fromSlot <= f /\ f < end /\ Canon(B, first) /\ Len(first) = Pos(B, f) /\ Row(eth, <<f, 1>>).hash = first
  BY <1>1 DEF ChainInv, OnChain
<1>8. Pos(B, f) \in Nat \ {0}
  BY <1>7, ChainTyped
<1> HIDE DEF first
<1>9. /\ current' = end /\ fromSlot' = fromSlot /\ pending' = ids /\ parent' = SubSeq(first, 1, Len(first) - 1)
      /\ produced' = NoBlocks /\ pc' = IF parent' \in known THEN "rebuild" ELSE "dead"
  BY <1>3, <1>5, <1>6, <1>7 DEF StartReproducing, max, end, ids
<1>10. CASE pc' = "dead"
  BY <1>0, <1>10, IdleFrame DEF Working, gethVars
<1>11. CASE pc' = "rebuild" /\ parent' \in known
  <2>1. Len(parent') = Pos(B, f) - 1
    <3>1. Len(first) - 1 \in 0 .. Len(first)
      BY <1>7, <1>8
    <3>2. Len(parent') = Len(first) - 1
      BY <1>7, <1>9, <3>1, CanonPrefix
    <3> QED
      BY <1>7, <3>2
  <2>2. S = {t \in B : t < end /\ Pos(B, t) > Len(parent')}
    <3>1. ASSUME NEW t \in B PROVE (Done(eth, t) /\ fromSlot <= t /\ t < end) <=> (t < end /\ Pos(B, t) > Len(parent'))
      <4>1. /\ Pos(B, t) \in Nat /\ (t < f <=> Pos(B, t) < Pos(B, f)) /\ t \in Nat /\ f \in Nat
        BY <1>1, <1>7, PosOrder
      <4>2. Pos(B, t) > Len(parent') <=> f <= t
        BY <1>8, <2>1, <4>1
      <4>3. ASSUME Done(eth, t), fromSlot <= t, t < end PROVE f <= t
        BY <1>6, <4>3
      <4>4. ASSUME t < end, f <= t PROVE Done(eth, t) /\ fromSlot <= t
        <5>1. t <= max /\ fromSlot <= t
          BY <1>2, <1>3, <1>7, <4>1, <4>4
        <5>2. t = max \/ t < max
          BY <1>2, <4>1, <5>1
        <5> QED
          BY <1>2, <5>1, <5>2 DEF ChainInv, OnChain
      <4> QED
        BY <4>2, <4>3, <4>4
    <3> QED
      BY <3>1
  <2>3. Expected(fromSlot, current)' # {}
    BY <1>0, <1>5, <1>9 DEF ids, Expected
  <2>4. DOMAIN produced' \subseteq Slots \X {1}
    BY <1>9 DEF NoBlocks
  <2>5. ReproduceInv'
    BY <1>0, <1>4, <1>9, <1>11, <2>2, <2>3, <2>4 DEF ReproduceInv
  <2>6. BuildInv' /\ ~Carrying'
    BY <1>11 DEF BuildInv, Working, Carrying
  <2>7. LinearInv' /\ OnChain(eth)' /\ ProducerInv'
    BY <1>0 DEF ChainInv, LinearInv, ProducerInv
  <2>8. AllFinal(gethFinal)'
    BY <1>0 DEF AllFinal, FinalAbove, ChainInv, FinalInv
  <2>9. FinalInv'
    BY <1>0, <2>6, <2>8 DEF ChainInv, FinalInv
  <2> QED
    BY <2>5, <2>6, <2>7, <2>9 DEF ChainInv
<1> QED
  BY <1>9, <1>10, <1>11

(* The block built next, and the ids of the blocks of X above number n.    *)
NextId == FirstId(pending)
NextHash == Append(parent, Content(NextId, Row(eth, NextId).ver))
After(X, n) == Firsts({t \in X : Pos(BuiltSlots(eth), t) > n})

(* The block built next is the one after the parent in the chain.          *)
LEMMA NextBlock ==
  ASSUME IndexerInv, ChainInv, parent \in known,
         NEW X, X \subseteq BuiltSlots(eth), \A t \in X, u \in BuiltSlots(eth) : u < t => u \in X,
         pending # {}, pending = After(X, Len(parent))
  PROVE  /\ NextId[1] \in X /\ NextId = <<NextId[1], 1>> /\ Pos(BuiltSlots(eth), NextId[1]) = Len(parent) + 1
         /\ Canon(BuiltSlots(eth), NextHash) /\ Len(NextHash) = Len(parent) + 1 /\ NextHash # Genesis
         /\ \A i \in 1 .. Len(parent) : NextHash[i] = parent[i]
         /\ NextHash[Len(NextHash)] = <<NextId[1], 1, 1>>
         /\ \A h \in known \cup {NextHash} : Canon(BuiltSlots(eth), h)
         /\ \A h \in known \cup {NextHash} : \A i \in 0 .. Len(h) : SubSeq(h, 1, i) \in known \cup {NextHash}
         /\ pending \ {NextId} = After(X, Len(NextHash))
<1> DEFINE B == BuiltSlots(eth)
           S == {t \in X : Pos(B, t) > Len(parent)}
           id == NextId
           hash == NextHash
<1>0. /\ B \subseteq Slots /\ Len(parent) \in Nat /\ \A s \in B : Pos(B, s) \in Nat \ {0}
      /\ \A s \in B : Row(eth, <<s, 1>>) = eth[s][1] /\ eth[s][1].ver = 1
  BY ChainTyped
<1>1. /\ \A h \in known : Canon(B, h)
      /\ \A h \in known : \A i \in 0 .. Len(h) : SubSeq(h, 1, i) \in known
  BY DEF ChainInv, ProducerInv
<1>2. Canon(B, parent)
  BY <1>1
<1>b. S \subseteq B /\ S # {} /\ (\A t \in S : Pos(B, t) > Len(parent)) /\ pending = Firsts(S) /\ id = FirstId(Firsts(S))
  BY DEF After, Firsts, NextId
<1>c. \A t \in S, u \in B : Pos(B, u) > Len(parent) /\ u < t => u \in S
  OBVIOUS
<1> HIDE DEF S
<1>3. id[1] \in S /\ id = <<id[1], 1>> /\ Pos(B, id[1]) = Len(parent) + 1
  <2>1. /\ FirstId(Firsts(S))[1] \in S /\ FirstId(Firsts(S)) = <<FirstId(Firsts(S))[1], 1>>
        /\ Pos(B, FirstId(Firsts(S))[1]) = Len(parent) + 1
    <3> HIDE DEF B
    <3> QED
      BY <1>0, <1>2, <1>b, <1>c, FirstIsNext
  <2> QED
    BY <1>b, <2>1
<1> HIDE DEF id, hash
<1>4. PICK s \in S : s = id[1]
  BY <1>3
<1>5. s \in B /\ s \in X /\ id = <<s, 1>> /\ Pos(B, s) = Len(parent) + 1
  BY <1>3, <1>4, <1>b DEF S
<1>6. Row(eth, id).ver = 1
  BY <1>0, <1>5
<1>7. hash = Append(parent, <<s, 1, 1>>)
  BY <1>5, <1>6 DEF Content, id, hash, NextHash
<1>8. Canon(B, hash) /\ Len(hash) = Len(parent) + 1
  <2>1. /\ Canon(B, Append(parent, <<s, 1, 1>>))
        /\ Len(Append(parent, <<s, 1, 1>>)) = Len(parent) + 1
    BY <1>0, <1>2, <1>5, CanonAppend
  <2> QED
    BY <1>7, <2>1
<1>9. parent \in Seq(Contents) /\ hash \in Seq(Contents)
  BY <1>2, <1>8 DEF Canon
<1>10. hash # Genesis /\ hash[Len(hash)] = <<s, 1, 1>> /\ \A i \in 1 .. Len(parent) : hash[i] = parent[i]
  <2>1. hash # Genesis
    BY <1>0, <1>8 DEF Genesis
  <2>2. <<s, 1, 1>> \in Contents
    BY <1>0, <1>5 DEF Contents, ContentVersions
  <2>3. hash[Len(parent) + 1] = <<s, 1, 1>> /\ \A i \in 1 .. Len(parent) : hash[i] = parent[i]
    BY <1>7, <1>9, <2>2
  <2> QED
    BY <1>8, <2>1, <2>3
<1>11. \A h \in known \cup {hash} : Canon(B, h)
  BY <1>1, <1>8
<1>12. ASSUME NEW h \in known \cup {hash}, NEW i \in 0 .. Len(h) PROVE SubSeq(h, 1, i) \in known \cup {hash}
  <2>1. CASE h \in known
    BY <1>1, <2>1
  <2>2. CASE h = hash /\ i = Len(hash)
    BY <1>9, <2>2
  <2>3. CASE h = hash /\ i # Len(hash)
    <3>1. i \in 0 .. Len(parent) /\ i \in 0 .. Len(hash)
      BY <1>0, <1>8, <2>3
    <3>2. Canon(B, SubSeq(hash, 1, i)) /\ Len(SubSeq(hash, 1, i)) = i
      BY <1>8, <3>1, CanonPrefix
    <3>3. Canon(B, SubSeq(parent, 1, i)) /\ Len(SubSeq(parent, 1, i)) = i
      BY <1>2, <3>1, CanonPrefix
    <3>4. SubSeq(hash, 1, i) = SubSeq(parent, 1, i)
      BY <1>0, <3>2, <3>3, CanonEqual
    <3> QED
      BY <1>1, <2>3, <3>1, <3>4
  <2> QED
    BY <2>1, <2>2, <2>3
<1>13. pending \ {id} = After(X, Len(hash))
  <2>1. ASSUME NEW t \in X PROVE (t \in S /\ t # s) <=> Pos(B, t) > Len(hash)
    <3>1. t \in B
      OBVIOUS
    <3>2. (t = s <=> Pos(B, t) = Pos(B, s)) /\ Pos(B, t) \in Nat
      BY <1>0, <1>5, <3>1, PosOrder
    <3>3. t \in S <=> Pos(B, t) > Len(parent)
      BY DEF S
    <3> QED
      BY <1>0, <1>5, <1>8, <3>2, <3>3
  <2>2. pending \ {id} = Firsts({t \in S : t # s})
    BY <1>5, <1>b DEF Firsts
  <2>3. {t \in S : t # s} = {t \in X : Pos(B, t) > Len(hash)}
    BY <2>1 DEF S
  <2> QED
    BY <2>2, <2>3 DEF After
<1> QED
  BY <1>4, <1>5, <1>8, <1>10, <1>11, <1>12, <1>13 DEF id, hash

(* A rebuilt block is the block of the chain again.                        *)
LEMMA RebuildChain ==
  ASSUME IndexerInv, PassedInv, ChainInv, RebuildBlock
  PROVE  ChainInv'
<1> DEFINE B == BuiltSlots(eth)
           X == {t \in B : t < current}
           hash == NextHash
<1>0. /\ pc = "rebuild" /\ pc' = "rebuild" /\ pending # {}
      /\ head' = hash /\ known' = known \cup {hash} /\ parent' = hash /\ pending' = pending \ {NextId}
      /\ produced' = [x \in DOMAIN produced \cup {NextId} |-> IF x = NextId THEN hash ELSE produced[x]]
      /\ UNCHANGED <<sol, eth, gethFinal, fromSlot, current>>
  BY DEF RebuildBlock, ProducedEnough, solVars, parseVars, NextId, NextHash
<1>a. {t \in B : t < current /\ Pos(B, t) > Len(parent)} = {t \in X : Pos(B, t) > Len(parent)}
  OBVIOUS
<1>1. /\ Expected(fromSlot, current) # {} /\ Len(head) <= latest_block(eth) /\ parent \in known
      /\ DOMAIN produced \subseteq Slots \X {1} /\ pending = After(X, Len(parent))
  BY <1>0, <1>a DEF ChainInv, ReproduceInv, After
<1>2. /\ B \subseteq Slots /\ B \subseteq Nat /\ Len(parent) \in Nat /\ latest_block(eth) \in Nat /\ Len(head) \in Nat
      /\ Len(gethFinal) \in Nat
      /\ (\A s \in B : Pos(B, s) \in Nat \ {0}) /\ \A s \in B : Done(eth, s) <=> Pos(B, s) <= latest_block(eth)
      /\ ProducedIds(eth) = Firsts({s \in B : Done(eth, s)})
  BY ChainTyped
<1>3. X \subseteq B
  OBVIOUS
<1>4. ASSUME NEW t \in X, NEW u \in B, u < t PROVE u \in X
  <2>1. u \in Nat /\ t \in Nat /\ current \in Nat /\ t < current
    BY <1>2, <1>3 DEF IndexerInv, ParseInv
  <2> QED
    BY <1>4, <2>1
<1> HIDE DEF X, hash
<1>5. /\ NextId[1] \in X /\ NextId = <<NextId[1], 1>> /\ Pos(B, NextId[1]) = Len(parent) + 1
      /\ Canon(B, hash) /\ Len(hash) = Len(parent) + 1 /\ hash # Genesis
      /\ \A h \in known \cup {hash} : Canon(B, h)
      /\ \A h \in known \cup {hash} : \A i \in 0 .. Len(h) : SubSeq(h, 1, i) \in known \cup {hash}
      /\ pending \ {NextId} = After(X, Len(hash))
  BY <1>0, <1>1, <1>3, <1>4, NextBlock DEF hash
<1>6. PICK s \in X : NextId = <<s, 1>> /\ Pos(B, s) = Len(parent) + 1
  BY <1>5
<1>7. Len(hash) <= latest_block(eth)
  <2>1. s \in B /\ s < current
    BY DEF X
  <2>2. ProducedIds(eth) # {} /\ ProducedIds(eth) \subseteq IdSet
    BY <1>0, ProducedTyped DEF IndexerInv, ParseInv, RowsInv
  <2>3. LastId(ProducedIds(eth)) \in ProducedIds(eth)
    BY <2>2, IdExtremes
  <2>4. PICK m \in B : m = get_max_slot_produced(eth) /\ Done(eth, m)
    <3>1. LastId(ProducedIds(eth))[1] \in B /\ Done(eth, LastId(ProducedIds(eth))[1])
      BY <1>2, <2>3 DEF Firsts
    <3> QED
      BY <3>1 DEF get_max_slot_produced
  <2>5. current <= m + 1 /\ current \in Nat
    BY <1>0, <2>4 DEF PassedInv, IndexerInv, ParseInv
  <2>6. s = m \/ s < m
    <3>1. s \in Nat /\ m \in Nat
      BY <1>2, <2>1
    <3> QED
      BY <2>1, <2>5, <3>1
  <2>7. Done(eth, s)
    BY <2>1, <2>4, <2>6 DEF ChainInv, OnChain
  <2> QED
    BY <1>2, <1>5, <1>6, <2>1, <2>7
<1>8. pending' = Firsts({t \in B : t < current' /\ Pos(B, t) > Len(parent')})
  <2>1. {t \in X : Pos(B, t) > Len(hash)} = {t \in B : t < current /\ Pos(B, t) > Len(hash)}
    BY DEF X
  <2> QED
    BY <1>0, <1>5, <2>1 DEF After
<1>9. DOMAIN produced' \subseteq Slots \X {1}
  <2>1. NextId \in Slots \X {1}
    BY <1>2, <1>3, <1>6
  <2>2. DOMAIN produced' = DOMAIN produced \cup {NextId}
    BY <1>0
  <2> QED
    BY <1>1, <2>1, <2>2
<1>10. Expected(fromSlot, current)' # {}
  BY <1>0, <1>1 DEF Expected
<1>11. ReproduceInv'
  BY <1>0, <1>7, <1>8, <1>9, <1>10 DEF ReproduceInv
<1>12. BuildInv' /\ ~Carrying'
  BY <1>0 DEF BuildInv, Working, Carrying
<1>13. LinearInv' /\ OnChain(eth)'
  BY <1>0 DEF ChainInv, LinearInv
<1>14. ProducerInv'
  <2>1. Canon(B, gethFinal)
    BY DEF ChainInv, ProducerInv
  <2>2. \A h \in known' \cup {gethFinal'} : Canon(B, h)
    BY <1>0, <1>5, <2>1
  <2>3. \A h \in known' : \A i \in 0 .. Len(h) : SubSeq(h, 1, i) \in known'
    BY <1>0, <1>5
  <2> QED
    BY <1>0, <2>2, <2>3 DEF ProducerInv
<1>15. FinalInv'
  <2>1. AllFinal(gethFinal)'
    BY <1>0 DEF AllFinal, FinalAbove, ChainInv, FinalInv
  <2>2. Len(gethFinal) <= latest_block(eth) + 1
    BY <1>1, <1>2 DEF ChainInv, FinalInv
  <2> QED
    BY <1>0, <1>5, <1>12, <2>1, <2>2 DEF FinalInv
<1> QED
  BY <1>11, <1>12, <1>13, <1>14, <1>15 DEF ChainInv

(* Without the right key no reproduced block is recognised: the task ends. *)
LEMMA CheckReproducedChain ==
  ASSUME IndexerInv, ChainInv, CheckReproduced
  PROVE  ChainInv'
<1>1. pc = "rebuild" /\ UNCHANGED <<sol, eth, gethVars>>
  BY DEF CheckReproduced, solVars
<1>2. Expected(fromSlot, current) # {} /\ DOMAIN produced \subseteq Slots \X {1}
  BY <1>1 DEF ChainInv, ReproduceInv
<1>3. PICK id \in Expected(fromSlot, current) : TRUE
  BY <1>2
<1>4. id \in ProducedIds(eth)
  BY DEF Expected
<1>5. Row(eth, id).hash \in Seq(Contents) /\ Row(eth, id).hash # << >>
  BY <1>4, ProducedTyped DEF IndexerInv, RowsInv
<1>6. Len(Row(eth, id).hash) + 1 # 1
  BY <1>5
<1>7. ~Reproduced(id)
  BY <1>2, <1>6 DEF Reproduced
<1>8. pc' = "dead"
  BY <1>7 DEF CheckReproduced
<1> QED
  BY <1>1, <1>8, IdleFrame DEF Working

(* The steps that only move cursors, the failed call and the new process.  *)
LEMMA IdleStepsChain ==
  ASSUME IndexerInv, ChainInv,
         ChannelClosed \/ BeginSync \/ ParseSlot \/ NothingPending \/ CallFails \/ Crash \/ Restart
  PROVE  ChainInv'
<1>1. UNCHANGED <<sol, eth, gethVars>>
  BY DEF ChannelClosed, BeginSync, ParseSlot, NothingPending, CallFails, Crash, Restart, solVars
<1>2. \/ pc' \in {"start", "dead", "exited"}
      \/ pc \in {"run"} \cup Working /\ pc' \in {"run", "parse"}
  BY DEF ChannelClosed, BeginSync, ParseSlot, NothingPending, NextBatch, CallFails, Crash, Restart, StartProcess, Working
<1>3. pc' \in {"run"} \cup Working => latest_block(eth) <= Len(head)
  BY <1>2 DEF ChainInv, BuildInv, Working
<1>4. pc' \notin {"reproduce", "rebuild", "build", "switched", "register", "receipts"}
  BY <1>2
<1> QED
  BY <1>1, <1>3, <1>4, IdleFrame

(* A step that changes nothing.                                            *)
LEMMA StutterChain ==
  ASSUME ChainInv, UNCHANGED vars
  PROVE  ChainInv'
<1>1. UNCHANGED <<sol, eth, gethVars, pc, parseVars, produceVars>>
  BY DEF vars, solVars
<1>2. LinearInv'
  BY <1>1 DEF LinearInv, ChainInv
<1> QED
  BY <1>1, <1>2, SolFrame

(* op-geth loses the blocks above a number, and none that is final.        *)
LEMMA GethLosesChain ==
  ASSUME IndexerInv, ChainInv, NEW n \in 0 .. Len(head), GethLosesBlocks(n)
  PROVE  ChainInv'
<1> DEFINE B == BuiltSlots(eth)
<1>0. /\ pc = "start" /\ pc' = "start" /\ n \in Len(gethFinal) .. (Len(head) - 1)
      /\ head' = SubSeq(head, 1, n) /\ known' = {SubSeq(head, 1, i) : i \in 0 .. n}
      /\ UNCHANGED <<sol, eth, gethFinal>>
  BY DEF GethLosesBlocks, solVars
<1>1. B \subseteq Slots /\ Canon(B, head) /\ Canon(B, gethFinal) /\ Len(head) \in Nat /\ Len(gethFinal) \in Nat
  BY ChainTyped
<1>2. ASSUME NEW i \in 0 .. n PROVE Canon(B, SubSeq(head, 1, i)) /\ Len(SubSeq(head, 1, i)) = i
  <2>1. i \in 0 .. Len(head)
    BY <1>1
  <2> QED
    BY <1>1, <2>1, CanonPrefix
<1>3. n \in Nat /\ n \in 0 .. n /\ Len(gethFinal) <= n
  BY <1>0, <1>1
<1> HIDE DEF B
<1>4. head' \in known' /\ Canon(B, head') /\ Len(head') = n
  BY <1>0, <1>2, <1>3
<1>5. ASSUME NEW h \in known' PROVE Canon(B, h) /\ \A i \in 0 .. Len(h) : SubSeq(h, 1, i) \in known'
  <2>1. PICK j \in 0 .. n : h = SubSeq(head, 1, j)
    BY <1>0
  <2>2. Canon(B, h) /\ Len(h) = j
    BY <1>2, <2>1
  <2>3. ASSUME NEW i \in 0 .. Len(h) PROVE SubSeq(h, 1, i) \in known'
    <3>1. Canon(B, SubSeq(h, 1, i)) /\ Len(SubSeq(h, 1, i)) = i
      BY <2>2, CanonPrefix
    <3>2. i \in 0 .. n
      BY <1>3, <2>2
    <3>3. SubSeq(h, 1, i) = SubSeq(head, 1, i)
      BY <1>1, <1>2, <3>1, <3>2, CanonEqual
    <3> QED
      BY <1>0, <3>2, <3>3
  <2> QED
    BY <2>2, <2>3
<1>6. ProducerInv'
  <2>1. BuiltSlots(eth)' = B
    BY <1>0 DEF B, BuiltSlots
  <2>2. \A h \in known' \cup {gethFinal'} : Canon(B, h)
    BY <1>0, <1>1, <1>5
  <2> QED
    BY <1>4, <1>5, <2>1, <2>2 DEF ProducerInv
<1>7. LinearInv' /\ OnChain(eth)' /\ ~Carrying'
  BY <1>0 DEF ChainInv, LinearInv, Carrying
<1>8. ReproduceInv' /\ BuildInv'
  BY <1>0, <1>7 DEF ReproduceInv, BuildInv, Working
<1>9. FinalInv'
  <2>1. AllFinal(gethFinal)'
    BY <1>0 DEF AllFinal, FinalAbove, ChainInv, FinalInv
  <2>2. head' = Genesis => gethFinal = Genesis
    <3>1. ASSUME head' = Genesis PROVE gethFinal = Genesis
      <4>1. Len(gethFinal) = 0
        BY <1>1, <1>3, <1>4, <3>1, CanonGenesis
      <4> QED
        BY <1>1, <4>1, CanonGenesis
    <3> QED
      BY <3>1
  <2> QED
    BY <1>0, <1>3, <1>4, <1>7, <2>1, <2>2 DEF FinalInv
<1> QED
  BY <1>6, <1>7, <1>8, <1>9 DEF ChainInv

(* restore_blocks registers the blocks of the producer.                    *)
LEMMA RestoreChain ==
  ASSUME IndexerInv, ChainInv, RestoreBlocks
  PROVE  ChainInv'
<1>0. pc = "pending" /\ UNCHANGED <<sol, eth, head, known, gethFinal>> /\ latest_block(eth) <= Len(head)
  BY DEF RestoreBlocks, solVars, gethVars, ChainInv, BuildInv, Working
<1>1. CASE pc' = "dead"
  BY <1>0, <1>1, IdleFrame DEF Working, gethVars
<1>2. CASE pc' = "register" /\ pending' = {} /\ produced' = Restored(PendingIds(sol, eth))
  <2>1. PendingIds(sol, eth) = Firsts({s \in BuiltSlots(eth) : ~Done(eth, s)})
    BY PendingFacts DEF IndexerInv, ChainInv
  <2>2. eth \in EthTables /\ OnChain(eth) /\ Canon(BuiltSlots(eth), head) /\ Len(head) \in Nat
    BY ChainTyped DEF ChainInv
  <2>3. /\ DOMAIN produced' = NewUpTo(Len(head))
        /\ \A id \in DOMAIN produced' : /\ Canon(BuiltSlots(eth), produced'[id])
                                        /\ Len(produced'[id]) = Pos(BuiltSlots(eth), id[1])
    BY <1>2, <2>1, <2>2, RestoredFacts
  <2>4. Len(head) \in 0 .. Len(head)
    BY <2>2
  <2>5. ~Carrying'
    BY <1>2 DEF Carrying
  <2>6. NewUpTo(Len(head))' = NewUpTo(Len(head))
    BY <1>0 DEF NewUpTo
  <2>7. \E n \in 0 .. Len(head)' : DOMAIN produced' = NewUpTo(n)' /\ (pending' # {} => n = Len(parent)')
    BY <1>0, <1>2, <2>3, <2>4, <2>6
  <2>8. BuildInv'
    BY <1>0, <1>2, <2>3, <2>5, <2>7 DEF BuildInv
  <2>9. LinearInv' /\ OnChain(eth)' /\ ProducerInv' /\ ReproduceInv'
    BY <1>0, <1>2 DEF ChainInv, LinearInv, ProducerInv, ReproduceInv
  <2>10. AllFinal(gethFinal)'
    BY <1>0 DEF AllFinal, FinalAbove, ChainInv, FinalInv
  <2>11. FinalInv'
    BY <1>0, <2>5, <2>10 DEF ChainInv, FinalInv
  <2> QED
    BY <2>8, <2>9, <2>11 DEF ChainInv
<1>3. pc' = "dead" \/ (pc' = "register" /\ pending' = {} /\ produced' = Restored(PendingIds(sol, eth)))
  BY DEF RestoreBlocks
<1> QED
  BY <1>1, <1>2, <1>3

(* A hash whose slots are not above a final one is final.                  *)
LEMMA FinalBelow ==
  ASSUME NEW h, NEW s \in BuiltSlots(eth), sol[s].status = "Finalized", \A i \in 1 .. Len(h) : h[i][1] <= s
  PROVE  AllFinal(h)
  BY DEF AllFinal, FinalAbove

(* The slots of a hash of the chain are not above that of a block with its *)
(* number.                                                                 *)
LEMMA CanonBelow ==
  ASSUME NEW B, B \subseteq Slots, NEW h, Canon(B, h), NEW s \in B, Len(h) <= Pos(B, s)
  PROVE  \A i \in 1 .. Len(h) : h[i][1] <= s
<1> SUFFICES ASSUME NEW i \in 1 .. Len(h) PROVE h[i][1] <= s
  OBVIOUS
<1>0. B \subseteq Nat
  BY StorageAssumption DEF Slots
<1>1. PICK t \in B : t = h[i][1] /\ Pos(B, t) = i
  BY DEF Canon
<1>2. /\ Pos(B, s) \in Nat /\ Len(h) \in Nat /\ t \in Nat /\ s \in Nat
      /\ (s < t <=> Pos(B, s) < Pos(B, t))
  BY <1>0, PosOrder, CanonLast
<1>3. ~(Pos(B, s) < Pos(B, t))
  BY <1>1, <1>2
<1> QED
  BY <1>1, <1>2, <1>3

(* The finalized block of get_pending_blocks: no final block of the        *)
(* producer is above it.                                                   *)
LEMMA FinalizedChain ==
  ASSUME IndexerInv, ChainInv, PendingIds(sol, eth) # {}
  PROVE  /\ FinalizedBlock.kind = "Produced" =>
              /\ Canon(BuiltSlots(eth), FinalizedBlock.hash) /\ AllFinal(FinalizedBlock.hash)
              /\ Len(gethFinal) <= Len(FinalizedBlock.hash) /\ Len(FinalizedBlock.hash) <= latest_block(eth)
              /\ FinalizedBlock.hash # Genesis
         /\ FinalizedBlock.kind = "Pending" =>
              FinalizedBlock.id[1] \in BuiltSlots(eth) /\ sol[FinalizedBlock.id[1]].status = "Finalized"
<1> DEFINE B == BuiltSlots(eth)
           fb == FinalizedBlock
<1>0. /\ eth \in EthTables /\ B \subseteq Slots /\ B \subseteq Nat /\ Ids(eth) = Firsts(B)
      /\ \A s \in B : Row(eth, <<s, 1>>) = eth[s][1] /\ (Done(eth, s) <=> Pos(B, s) <= latest_block(eth))
      /\ Len(gethFinal) \in Nat /\ Canon(B, gethFinal)
  BY ChainTyped
<1>1. ASSUME fb.kind # "None"
      PROVE  /\ fb.id \in ViewIds(sol, eth) /\ sol[fb.id[1]].status = "Finalized"
             /\ \A id \in ViewIds(sol, eth) : sol[id[1]].status = "Finalized" => id = fb.id \/ Before(id, fb.id)
             /\ fb.kind = "Produced" => IsProduced(eth, fb.id) /\ fb.hash = Row(eth, fb.id).hash
  BY <1>0, <1>1, FinalizedBlockTyped
<1> HIDE DEF fb
<1>2. ASSUME fb.kind # "None" PROVE \E s \in B : fb.id = <<s, 1>> /\ sol[s].status = "Finalized"
  <2>1. fb.id \in Firsts(B)
    BY <1>0, <1>1, <1>2, ViewTyped
  <2> QED
    BY <1>1, <1>2, <2>1 DEF Firsts
<1>3. ASSUME fb.kind = "Produced"
      PROVE  /\ Canon(B, fb.hash) /\ AllFinal(fb.hash) /\ Len(gethFinal) <= Len(fb.hash)
             /\ Len(fb.hash) <= latest_block(eth) /\ fb.hash # Genesis
  <2>1. PICK s \in B : fb.id = <<s, 1>> /\ sol[s].status = "Finalized"
    BY <1>2, <1>3
  <2>2. fb.hash = eth[s][1].hash /\ Done(eth, s)
    BY <1>0, <1>1, <1>3, <2>1 DEF IsProduced, Done
  <2>3. Canon(B, fb.hash) /\ Len(fb.hash) = Pos(B, s) /\ fb.hash # Genesis
    BY <2>2 DEF ChainInv, OnChain, Done
  <2>4. Pos(B, s) \in Nat /\ Pos(B, s) <= latest_block(eth)
    BY <1>0, <2>2, PosFinite
  <2>5. AllFinal(fb.hash)
    <3>0. Len(fb.hash) <= Pos(B, s)
      BY <2>3, <2>4
    <3>1. \A i \in 1 .. Len(fb.hash) : fb.hash[i][1] <= s
      <4> HIDE DEF B
      <4> QED
        BY <1>0, <2>3, <3>0, CanonBelow
    <3> QED
      BY <1>0, <2>1, <2>3, <3>1, FinalBelow
  <2>6. Len(gethFinal) <= Pos(B, s)
    <3>1. CASE Len(gethFinal) = 0
      BY <2>4, <3>1
    <3>2. CASE Len(gethFinal) # 0
      <4>1. Len(gethFinal) \in 1 .. Len(gethFinal)
        BY <1>0, <3>2
      <4>2. PICK g \in B : g = gethFinal[Len(gethFinal)][1] /\ Pos(B, g) = Len(gethFinal)
        BY <1>0, <4>1 DEF Canon
      <4>3. PICK f \in B : g <= f /\ sol[f].status = "Finalized"
        BY <4>1, <4>2 DEF ChainInv, FinalInv, AllFinal, FinalAbove
      <4>4. PICK v \in B : f <= v /\ <<v, 1>> \in ViewIds(sol, eth) /\ sol[v].status = "Finalized"
        BY <4>3, PendingFacts DEF IndexerInv, ChainInv
      <4>5. <<v, 1>> = <<s, 1>> \/ Before(<<v, 1>>, <<s, 1>>)
        BY <1>1, <1>3, <2>1, <4>4
      <4>6. g \in Nat /\ f \in Nat /\ v \in Nat /\ s \in Nat
        BY <1>0
      <4>7. v <= s
        BY <4>5, <4>6 DEF Before
      <4>8. g < s \/ g = s
        BY <4>3, <4>4, <4>6, <4>7
      <4>9. Pos(B, g) < Pos(B, s) \/ Pos(B, g) = Pos(B, s)
        BY <1>0, <4>8, PosOrder
      <4> QED
        BY <1>0, <2>4, <4>2, <4>9
    <3> QED
      BY <3>1, <3>2
  <2> QED
    BY <2>3, <2>4, <2>5, <2>6
<1>4. ASSUME fb.kind = "Pending" PROVE fb.id[1] \in B /\ sol[fb.id[1]].status = "Finalized"
  BY <1>0, <1>2, <1>4
<1> QED
  BY <1>3, <1>4 DEF fb

(* produce_blocks starts on the last registered block.                     *)
LEMMA StartProducingChain ==
  ASSUME IndexerInv, ChainInv, StartProducing
  PROVE  ChainInv'
<1> DEFINE B == BuiltSlots(eth)
           L == latest_block(eth)
<1>0. /\ pc = "pending" /\ UNCHANGED <<sol, eth, head, known, gethFinal>> /\ L <= Len(head)
      /\ PendingIds(sol, eth) # {} /\ ~MustRestore
  BY DEF StartProducing, solVars, gethVars, ChainInv, BuildInv, Working
<1>1. CASE pc' = "dead"
  BY <1>0, <1>1, IdleFrame DEF Working, gethVars
<1>2. CASE pc' # "dead"
  <2> DEFINE on == ParentHash(sol, eth)
  <2>1. /\ IF on = {} THEN head = Genesis ELSE on \subseteq known
        /\ parent' = IF on = {} THEN Genesis ELSE CHOOSE h \in on : TRUE
        /\ pending' = PendingIds(sol, eth) /\ finalBlock' = FinalizedBlock
        /\ produced' = NoBlocks /\ pc' = "build"
    BY <1>2 DEF StartProducing
  <2>2. /\ PendingIds(sol, eth) = Firsts({s \in B : ~Done(eth, s)})
        /\ L = 0 => on = {}
        /\ L # 0 => \E h : on = {h} /\ Canon(B, h) /\ Len(h) = L
    BY <1>0, PendingFacts DEF IndexerInv, ChainInv
  <2>3. /\ L \in Nat /\ B \subseteq Slots /\ Len(head) \in Nat /\ Len(gethFinal) \in Nat
        /\ \A s \in B : Pos(B, s) \in Nat \ {0} /\ (Done(eth, s) <=> Pos(B, s) <= L)
    BY ChainTyped
  <2> HIDE DEF on, B, L
  <2>4. /\ parent' \in known /\ Len(parent') = L
        /\ parent' = Genesis => gethFinal = Genesis
    <3>1. CASE L = 0
      <4>1. parent' = Genesis /\ head = Genesis
        BY <2>1, <2>2, <3>1
      <4>2. head \in known /\ gethFinal = Genesis
        BY <4>1 DEF ChainInv, ProducerInv, FinalInv
      <4> QED
        BY <3>1, <4>1, <4>2, CanonGenesis
    <3>2. CASE L # 0
      <4>1. PICK h : on = {h} /\ Canon(B, h) /\ Len(h) = L
        BY <2>2, <3>2
      <4>2. parent' = h /\ h \in known
        BY <2>1, <4>1
      <4>3. h # Genesis
        BY <3>2, <4>1, CanonGenesis
      <4> QED
        BY <4>1, <4>2, <4>3
    <3> QED
      BY <3>1, <3>2
  <2>5. pending' = Firsts({t \in B : Pos(B, t) > Len(parent')})
    <3>1. {t \in B : Pos(B, t) > L} = {s \in B : ~Done(eth, s)}
      <4>1. ASSUME NEW s \in B PROVE Pos(B, s) > L <=> ~Done(eth, s)
        BY <2>3
      <4> QED
        BY <4>1
    <3> QED
      BY <2>1, <2>2, <2>4, <3>1
  <2>6. DOMAIN produced' = {} /\ NewUpTo(Len(parent))' = {}
    <3>1. {t \in B : ~Done(eth, t) /\ Pos(B, t) <= L} = {}
      BY <2>3
    <3>2. NewUpTo(Len(parent))' = Firsts({t \in B : ~Done(eth, t) /\ Pos(B, t) <= L})
      BY <1>0, <2>4 DEF NewUpTo, B
    <3>3. Firsts({}) = {}
      BY DEF Firsts
    <3>4. NewUpTo(Len(parent))' = {}
      BY <3>1, <3>2, <3>3
    <3> QED
      BY <2>1, <3>4 DEF NoBlocks
  <2>7. BuildInv'
    <3>1. L <= Len(head)' /\ L <= Len(parent)' /\ parent' \in known'
      BY <1>0, <2>3, <2>4
    <3>2. BuiltSlots(eth)' = B /\ latest_block(eth)' = L
      BY <1>0 DEF B, L
    <3> QED
      BY <2>1, <2>5, <2>6, <3>1, <3>2 DEF BuildInv
  <2>8. LinearInv' /\ OnChain(eth)' /\ ProducerInv' /\ ReproduceInv'
    BY <1>0, <2>1 DEF ChainInv, LinearInv, ProducerInv, ReproduceInv
  <2>9. FinalInv'
    <3>1. AllFinal(gethFinal)'
      BY <1>0 DEF AllFinal, FinalAbove, ChainInv, FinalInv
    <3>2. Len(gethFinal) <= L + 1
      <4>1. ~(L + 1 < Len(head))
        BY <1>0 DEF MustRestore, L
      <4>2. Len(gethFinal) <= Len(head) \/ Len(gethFinal) <= L + 1
        BY DEF ChainInv, FinalInv, L
      <4> QED
        BY <2>3, <4>1, <4>2
    <3>3. /\ FinalizedBlock.kind = "Produced" =>
              /\ Canon(B, FinalizedBlock.hash) /\ AllFinal(FinalizedBlock.hash)
              /\ Len(gethFinal) <= Len(FinalizedBlock.hash) /\ Len(FinalizedBlock.hash) <= L
              /\ FinalizedBlock.hash # Genesis
          /\ FinalizedBlock.kind = "Pending" =>
              FinalizedBlock.id[1] \in BuiltSlots(eth) /\ sol[FinalizedBlock.id[1]].status = "Finalized"
      BY <1>0, FinalizedChain DEF B, L
    <3>4. ASSUME finalBlock'.kind = "Produced" PROVE AllFinal(finalBlock.hash)'
      BY <1>0, <2>1, <3>3, <3>4 DEF AllFinal, FinalAbove
    <3>5. finalBlock'.kind = "Produced" =>
            /\ Canon(B, finalBlock'.hash) /\ AllFinal(finalBlock.hash)'
            /\ Len(gethFinal)' <= Len(finalBlock'.hash) /\ Len(finalBlock'.hash) <= Len(parent') /\ finalBlock'.hash # Genesis
      BY <1>0, <2>1, <2>4, <3>3, <3>4
    <3>6. finalBlock'.kind = "Pending" => finalBlock'.id[1] \in BuiltSlots(eth)' /\ sol'[finalBlock'.id[1]].status = "Finalized"
      BY <1>0, <2>1, <3>3
    <3>7. BuiltSlots(eth)' = B /\ latest_block(eth)' = L
      BY <1>0 DEF B, L
    <3>8. head' = Genesis => gethFinal' = Genesis
      BY <1>0 DEF ChainInv, FinalInv
    <3> QED
      BY <1>0, <2>4, <3>1, <3>2, <3>5, <3>6, <3>7, <3>8 DEF FinalInv
  <2> QED
    BY <2>7, <2>8, <2>9 DEF ChainInv
<1> QED
  BY <1>1, <1>2

(* The finalized block sent with a forkchoice update never goes back.      *)
LEMMA CurrentFinalizedChain ==
  ASSUME IndexerInv, ChainInv, Carrying
  PROVE  /\ Canon(BuiltSlots(eth), CurrentFinalized) /\ AllFinal(CurrentFinalized)
         /\ Len(CurrentFinalized) \in Nat /\ Len(gethFinal) <= Len(CurrentFinalized)
         /\ Len(CurrentFinalized) <= Len(parent) + 1
         /\ Len(CurrentFinalized) <= Len(parent) \/ CurrentFinalized = gethFinal
         /\ finalBlock.kind = "Produced" => CurrentFinalized = finalBlock.hash
         /\ parent = Genesis => CurrentFinalized = Genesis
<1> DEFINE B == BuiltSlots(eth)
<1>0. /\ B \subseteq Slots /\ Len(parent) \in Nat /\ Len(gethFinal) \in Nat /\ Len(finalBlock.hash) \in Nat
      /\ Canon(B, gethFinal)
  BY ChainTyped
<1>1. /\ AllFinal(gethFinal) /\ Len(gethFinal) <= Len(parent) + 1 /\ (parent = Genesis => gethFinal = Genesis)
      /\ finalBlock.kind = "Produced" =>
           /\ Canon(B, finalBlock.hash) /\ AllFinal(finalBlock.hash) /\ Len(gethFinal) <= Len(finalBlock.hash)
           /\ Len(finalBlock.hash) <= Len(parent) /\ finalBlock.hash # Genesis
  BY DEF ChainInv, FinalInv
<1>2. Canon(B, Genesis) /\ Len(Genesis) = 0 /\ AllFinal(Genesis)
  BY CanonGenesis DEF AllFinal, FinalAbove
<1> HIDE DEF B
<1>3. CASE finalBlock.kind = "Produced"
  <2>1. CurrentFinalized = finalBlock.hash
    BY <1>3 DEF CurrentFinalized
  <2>2. parent # Genesis
    <3>1. ASSUME parent = Genesis PROVE FALSE
      <4>1. Len(finalBlock.hash) = 0
        BY <1>0, <1>1, <1>2, <1>3, <3>1
      <4> QED
        BY <1>1, <1>3, <4>1, CanonGenesis
    <3> QED
      BY <3>1
  <2> QED
    BY <1>0, <1>1, <1>3, <2>1, <2>2 DEF B
<1>4. CASE finalBlock.kind # "Produced" /\ parent = Genesis
  <2>1. CurrentFinalized = Genesis /\ gethFinal = Genesis
    BY <1>1, <1>4 DEF CurrentFinalized
  <2> QED
    BY <1>0, <1>1, <1>2, <1>4, <2>1 DEF B
<1>5. CASE finalBlock.kind # "Produced" /\ parent # Genesis
  <2>1. CurrentFinalized = gethFinal
    BY <1>5 DEF CurrentFinalized
  <2> QED
    BY <1>0, <1>1, <1>5, <2>1 DEF B
<1> QED
  BY <1>3, <1>4, <1>5

(* The first forkchoice update.                                            *)
LEMMA ForkchoiceParentChain ==
  ASSUME IndexerInv, ChainInv, ForkchoiceParent
  PROVE  ChainInv'
<1> DEFINE B == BuiltSlots(eth)
           L == latest_block(eth)
<1>0. /\ pc = "build" /\ pc' = "switched" /\ head' = parent /\ gethFinal' = CurrentFinalized /\ pending # {}
      /\ UNCHANGED <<sol, eth, known, pending, parent, finalBlock, produced>>
  BY DEF ForkchoiceParent, ProducedEnough, solVars, produceVars
<1>1. Carrying /\ Carrying'
  BY <1>0 DEF Carrying
<1>2. /\ L \in Nat /\ B \subseteq Slots /\ Len(head) \in Nat /\ Len(gethFinal) \in Nat /\ Len(parent) \in Nat
      /\ \A s \in B : Pos(B, s) \in Nat \ {0} /\ (Done(eth, s) <=> Pos(B, s) <= L)
  BY ChainTyped
<1>3. /\ Canon(B, CurrentFinalized) /\ AllFinal(CurrentFinalized)
      /\ Len(CurrentFinalized) \in Nat /\ Len(gethFinal) <= Len(CurrentFinalized)
      /\ Len(CurrentFinalized) <= Len(parent) + 1
      /\ Len(CurrentFinalized) <= Len(parent) \/ CurrentFinalized = gethFinal
      /\ finalBlock.kind = "Produced" => CurrentFinalized = finalBlock.hash
      /\ parent = Genesis => CurrentFinalized = Genesis
  BY <1>1, CurrentFinalizedChain
<1>4. /\ parent \in known /\ L <= Len(parent) /\ DOMAIN produced = NewUpTo(Len(parent))
      /\ DOMAIN produced # {} => head = parent
  BY <1>0, <1>1 DEF ChainInv, BuildInv
<1>5. Len(gethFinal') <= Len(head') \/ Len(gethFinal') <= L + 1
  <2>1. CASE Len(CurrentFinalized) <= Len(parent)
    BY <1>0, <2>1
  <2>2. CASE CurrentFinalized = gethFinal /\ DOMAIN produced # {}
    BY <1>0, <1>4, <2>2 DEF ChainInv, FinalInv
  <2>3. CASE DOMAIN produced = {}
    <3>1. \A t \in B : Pos(B, t) <= Len(parent) => Done(eth, t)
      <4>1. ASSUME NEW t \in B, Pos(B, t) <= Len(parent), ~Done(eth, t) PROVE FALSE
        <5>1. <<t, 1>> \in NewUpTo(Len(parent))
          BY <4>1 DEF NewUpTo, Firsts
        <5> QED
          BY <1>4, <2>3, <5>1
      <4> QED
        BY <4>1
    <3>2. Canon(B, parent)
      BY <1>4 DEF ChainInv, ProducerInv
    <3>3. Len(parent) = 0 \/ \E t \in B : Pos(B, t) = Len(parent)
      BY <3>2, CanonLast
    <3> HIDE DEF B, L
    <3>4. Len(parent) <= L
      <4>1. CASE Len(parent) = 0
        BY <1>2, <4>1
      <4>2. ASSUME NEW t \in B, Pos(B, t) = Len(parent) PROVE Len(parent) <= L
        <5>1. Done(eth, t)
          BY <1>2, <3>1, <4>2
        <5> QED
          BY <1>2, <4>2, <5>1
      <4> QED
        BY <3>3, <4>1, <4>2
    <3> QED
      BY <1>0, <1>2, <1>3, <3>4
  <2> QED
    BY <1>3, <2>1, <2>2, <2>3
<1>6. LinearInv' /\ OnChain(eth)' /\ ReproduceInv'
  BY <1>0 DEF ChainInv, LinearInv, ReproduceInv
<1>7. ProducerInv'
  BY <1>0, <1>3, <1>4 DEF ChainInv, ProducerInv
<1>8. BuildInv'
  <2>1. NewUpTo(Len(parent))' = NewUpTo(Len(parent))
    BY <1>0 DEF NewUpTo
  <2> QED
    BY <1>0, <1>1, <1>4, <2>1 DEF ChainInv, BuildInv
<1>9. FinalInv'
  <2>1. AllFinal(gethFinal)'
    BY <1>0, <1>3 DEF AllFinal, FinalAbove
  <2>2. ASSUME finalBlock.kind = "Produced" PROVE AllFinal(finalBlock.hash)'
    BY <1>0, <1>3, <2>2 DEF AllFinal, FinalAbove
  <2>3. finalBlock'.kind = "Produced" =>
          /\ Canon(B, finalBlock'.hash) /\ AllFinal(finalBlock.hash)'
          /\ Len(gethFinal)' <= Len(finalBlock'.hash) /\ Len(finalBlock'.hash) <= Len(parent') /\ finalBlock'.hash # Genesis
    <3>1. finalBlock.kind = "Produced" => Len(finalBlock.hash) <= Len(parent) /\ finalBlock.hash # Genesis
      BY <1>1 DEF ChainInv, FinalInv
    <3> QED
      BY <1>0, <1>3, <2>2, <3>1
  <2>4. finalBlock'.kind = "Pending" => finalBlock'.id[1] \in BuiltSlots(eth)' /\ sol'[finalBlock'.id[1]].status = "Finalized"
    BY <1>0, <1>1 DEF ChainInv, FinalInv
  <2>5. BuiltSlots(eth)' = B /\ latest_block(eth)' = L
    BY <1>0
  <2> QED
    BY <1>0, <1>3, <1>5, <2>1, <2>3, <2>4, <2>5 DEF FinalInv
<1> QED
  BY <1>6, <1>7, <1>8, <1>9 DEF ChainInv

(* The new block becomes the head.                                         *)
LEMMA ForkchoiceNewChain ==
  ASSUME IndexerInv, ChainInv, ForkchoiceNew
  PROVE  ChainInv' /\ Len(gethFinal) <= Len(gethFinal')
<1> DEFINE B == BuiltSlots(eth)
           L == latest_block(eth)
           hash == NextHash
           marks == finalBlock.kind = "Pending" /\ ~Before(finalBlock.id, NextId)
<1>0. /\ pc = "switched" /\ pc' = "build" /\ pending # {}
      /\ head' = hash /\ known' = known \cup {hash} /\ parent' = hash /\ pending' = pending \ {NextId}
      /\ produced' = [x \in DOMAIN produced \cup {NextId} |-> IF x = NextId THEN hash ELSE produced[x]]
      /\ gethFinal' = IF marks THEN hash ELSE CurrentFinalized
      /\ UNCHANGED <<sol, eth, finalBlock>>
  BY DEF ForkchoiceNew, IndexerInv, ProduceInv, solVars, NextId, NextHash
<1>1. Carrying /\ Carrying'
  BY <1>0 DEF Carrying
<1>2. /\ L \in Nat /\ B \subseteq Slots /\ B \subseteq Nat /\ Len(head) \in Nat /\ Len(gethFinal) \in Nat /\ Len(parent) \in Nat
      /\ \A s \in B : Pos(B, s) \in Nat \ {0} /\ (Done(eth, s) <=> Pos(B, s) <= L)
  BY ChainTyped
<1>3. /\ Canon(B, CurrentFinalized) /\ AllFinal(CurrentFinalized)
      /\ Len(CurrentFinalized) \in Nat /\ Len(gethFinal) <= Len(CurrentFinalized)
      /\ Len(CurrentFinalized) <= Len(parent) + 1
      /\ finalBlock.kind = "Produced" => CurrentFinalized = finalBlock.hash
  BY <1>1, CurrentFinalizedChain
<1>4. /\ parent \in known /\ L <= Len(parent) /\ DOMAIN produced = NewUpTo(Len(parent))
      /\ \A id \in DOMAIN produced : Canon(B, produced[id]) /\ Len(produced[id]) = Pos(B, id[1])
      /\ pending = After(B, Len(parent))
  BY <1>0, <1>1 DEF ChainInv, BuildInv, After
<1>5. /\ NextId[1] \in B /\ NextId = <<NextId[1], 1>> /\ Pos(B, NextId[1]) = Len(parent) + 1
      /\ Canon(B, hash) /\ Len(hash) = Len(parent) + 1 /\ hash # Genesis
      /\ \A h \in known \cup {hash} : Canon(B, h)
      /\ \A h \in known \cup {hash} : \A i \in 0 .. Len(h) : SubSeq(h, 1, i) \in known \cup {hash}
      /\ pending \ {NextId} = After(B, Len(hash))
  BY <1>0, <1>4, NextBlock
<1> HIDE DEF hash, marks
<1>6. PICK s \in B : NextId = <<s, 1>> /\ Pos(B, s) = Len(parent) + 1
  BY <1>5
<1>7. ~Done(eth, s)
  BY <1>2, <1>4, <1>6
<1>8. DOMAIN produced' = NewUpTo(Len(hash))
  <2>1. ASSUME NEW t \in B
        PROVE  (~Done(eth, t) /\ Pos(B, t) <= Len(hash)) <=> ((~Done(eth, t) /\ Pos(B, t) <= Len(parent)) \/ t = s)
    <3>1. (t = s <=> Pos(B, t) = Pos(B, s)) /\ Pos(B, t) \in Nat
      BY <1>2, PosOrder
    <3> QED
      BY <1>2, <1>5, <1>6, <1>7, <3>1
  <2>2. {t \in B : ~Done(eth, t) /\ Pos(B, t) <= Len(hash)} = {t \in B : ~Done(eth, t) /\ Pos(B, t) <= Len(parent)} \cup {s}
    BY <2>1
  <2>3. NewUpTo(Len(hash)) = NewUpTo(Len(parent)) \cup {NextId}
    BY <1>6, <2>2 DEF NewUpTo, Firsts
  <2>4. DOMAIN produced' = DOMAIN produced \cup {NextId}
    BY <1>0
  <2> QED
    BY <1>4, <2>3, <2>4
<1>9. ASSUME NEW id \in DOMAIN produced' PROVE Canon(B, produced'[id]) /\ Len(produced'[id]) = Pos(B, id[1])
  <2>1. CASE id = NextId
    BY <1>0, <1>5, <1>9, <2>1
  <2>2. CASE id # NextId
    BY <1>0, <1>4, <1>9, <2>2
  <2> QED
    BY <2>1, <2>2
<1>10. /\ Canon(B, gethFinal') /\ AllFinal(gethFinal') /\ Len(gethFinal') \in Nat
       /\ Len(gethFinal) <= Len(gethFinal') /\ Len(gethFinal') <= Len(hash)
  <2>1. CASE marks
    <3>1. finalBlock.id[1] \in BuiltSlots(eth) /\ sol[finalBlock.id[1]].status = "Finalized" /\ Len(gethFinal) <= Len(parent) + 1
      BY <1>1, <2>1 DEF ChainInv, FinalInv, marks
    <3>2. PICK f \in B : f = finalBlock.id[1]
      BY <3>1
    <3>3. f \in Nat /\ s \in Nat
      BY <1>2
    <3>4. s <= f
      BY <1>6, <2>1, <3>2, <3>3 DEF marks, Before
    <3>5. Len(hash) <= Pos(B, s)
      BY <1>2, <1>5, <1>6
    <3>6. \A i \in 1 .. Len(hash) : hash[i][1] <= s
      <4> HIDE DEF B
      <4> QED
        BY <1>2, <1>5, <3>5, CanonBelow
    <3>7. \A i \in 1 .. Len(hash) : hash[i][1] <= f
      <4>1. ASSUME NEW i \in 1 .. Len(hash) PROVE hash[i][1] <= f
        <5>1. PICK t \in B : t = hash[i][1]
          BY <1>5 DEF Canon
        <5>2. t \in Nat /\ t <= s
          BY <1>2, <3>6, <5>1
        <5> QED
          BY <3>3, <3>4, <5>1, <5>2
      <4> QED
        BY <4>1
    <3>8. AllFinal(hash)
      BY <3>1, <3>2, <3>7, FinalBelow
    <3>9. gethFinal' = hash
      BY <1>0, <2>1
    <3> QED
      BY <1>2, <1>5, <3>1, <3>8, <3>9
  <2>2. CASE ~marks
    <3>1. gethFinal' = CurrentFinalized
      BY <1>0, <2>2
    <3> QED
      BY <1>2, <1>3, <1>5, <3>1
  <2> QED
    BY <2>1, <2>2
<1>11. LinearInv' /\ OnChain(eth)' /\ ReproduceInv'
  BY <1>0 DEF ChainInv, LinearInv, ReproduceInv
<1>12. ProducerInv'
  <2>1. \A h \in known' \cup {gethFinal'} : Canon(B, h)
    BY <1>0, <1>5, <1>10
  <2>2. \A h \in known' : \A i \in 0 .. Len(h) : SubSeq(h, 1, i) \in known'
    BY <1>0, <1>5
  <2>3. head' \in known' /\ BuiltSlots(eth)' = B
    BY <1>0
  <2> QED
    BY <2>1, <2>2, <2>3 DEF ProducerInv
<1>13. BuildInv'
  <2>1. NewUpTo(Len(parent))' = NewUpTo(Len(hash))
    BY <1>0 DEF NewUpTo
  <2>2. L <= Len(head)' /\ L <= Len(parent)' /\ parent' \in known'
    BY <1>0, <1>2, <1>4, <1>5
  <2>3. pending' = Firsts({t \in B : Pos(B, t) > Len(parent')})
    BY <1>0, <1>5 DEF After
  <2>4. BuiltSlots(eth)' = B /\ latest_block(eth)' = L
    BY <1>0
  <2> QED
    BY <1>0, <1>8, <1>9, <2>1, <2>2, <2>3, <2>4 DEF BuildInv
<1>14. FinalInv'
  <2>1. AllFinal(gethFinal)'
    BY <1>0, <1>10 DEF AllFinal, FinalAbove
  <2>2. head' # Genesis /\ parent' # Genesis /\ Len(gethFinal') <= Len(head') /\ Len(gethFinal') <= Len(parent') + 1
    BY <1>0, <1>2, <1>5, <1>10
  <2>3. ASSUME finalBlock.kind = "Produced" PROVE gethFinal' = finalBlock.hash
    BY <1>0, <1>3, <2>3 DEF marks
  <2>4. finalBlock'.kind = "Produced" =>
          /\ Canon(B, finalBlock'.hash) /\ AllFinal(finalBlock.hash)'
          /\ Len(gethFinal)' <= Len(finalBlock'.hash) /\ Len(finalBlock'.hash) <= Len(parent') /\ finalBlock'.hash # Genesis
    <3> SUFFICES ASSUME finalBlock'.kind = "Produced"
                 PROVE  /\ Canon(B, finalBlock'.hash) /\ AllFinal(finalBlock.hash)'
                        /\ Len(gethFinal)' <= Len(finalBlock'.hash) /\ Len(finalBlock'.hash) <= Len(parent')
                        /\ finalBlock'.hash # Genesis
      OBVIOUS
    <3>1. finalBlock' = finalBlock /\ gethFinal' = finalBlock'.hash
      BY <1>0, <2>3
    <3>2. finalBlock.hash # Genesis
      BY <1>1, <3>1 DEF ChainInv, FinalInv
    <3>3. AllFinal(finalBlock.hash)'
      BY <2>1, <3>1 DEF AllFinal, FinalAbove
    <3>4. Len(finalBlock'.hash) <= Len(parent')
      BY <1>0, <1>10, <3>1
    <3>5. Len(gethFinal)' <= Len(finalBlock'.hash)
      BY <1>10, <3>1
    <3> QED
      BY <1>10, <3>1, <3>2, <3>3, <3>4, <3>5
  <2>5. finalBlock'.kind = "Pending" => finalBlock'.id[1] \in BuiltSlots(eth)' /\ sol'[finalBlock'.id[1]].status = "Finalized"
    BY <1>0, <1>1 DEF ChainInv, FinalInv
  <2>6. BuiltSlots(eth)' = B
    BY <1>0
  <2> QED
    BY <2>1, <2>2, <2>4, <2>5, <2>6 DEF FinalInv
<1> QED
  BY <1>10, <1>11, <1>12, <1>13, <1>14 DEF ChainInv

(* The end of produce_blocks: what was built is registered.                *)
LEMMA EndProducingChain ==
  ASSUME IndexerInv, ChainInv, EndProducing
  PROVE  ChainInv'
<1>0. pc = "build" /\ UNCHANGED <<sol, eth, head, known, gethFinal>> /\ latest_block(eth) <= Len(head) /\ Carrying
  BY DEF EndProducing, solVars, gethVars, ChainInv, BuildInv, Working, Carrying
<1>1. CASE DOMAIN produced = {}
  <2>1. pc' \in {"run", "parse"}
    BY <1>1 DEF EndProducing, NextBatch
  <2> QED
    BY <1>0, <2>1, IdleFrame DEF gethVars
<1>2. CASE DOMAIN produced # {}
  <2>0. pc' = "register" /\ UNCHANGED <<pending, parent, finalBlock, produced>>
    BY <1>2 DEF EndProducing, produceVars
  <2>1. NewUpTo(Len(parent))' = NewUpTo(Len(parent))
    BY <1>0, <2>0 DEF NewUpTo
  <2>2. DOMAIN produced = NewUpTo(Len(parent)) /\ head = parent /\ Len(parent) \in Nat
    BY <1>0, <1>2, ChainTyped DEF ChainInv, BuildInv
  <2>3. Len(parent) \in 0 .. Len(head)
    BY <2>2
  <2>4. \E n \in 0 .. Len(head)' : DOMAIN produced' = NewUpTo(n)' /\ (pending' # {} => n = Len(parent)')
    BY <1>0, <2>0, <2>1, <2>2, <2>3
  <2>5. /\ parent' \in known' /\ latest_block(eth)' <= Len(parent)'
        /\ pending' = Firsts({t \in BuiltSlots(eth)' : Pos(BuiltSlots(eth)', t) > Len(parent')})
        /\ \A id \in DOMAIN produced' : Canon(BuiltSlots(eth)', produced'[id]) /\ Len(produced'[id]) = Pos(BuiltSlots(eth)', id[1])
    BY <1>0, <2>0 DEF ChainInv, BuildInv
  <2>6. BuildInv'
    BY <1>0, <2>0, <2>4, <2>5 DEF BuildInv
  <2>7. LinearInv' /\ OnChain(eth)' /\ ProducerInv' /\ ReproduceInv'
    BY <1>0, <2>0 DEF ChainInv, LinearInv, ProducerInv, ReproduceInv
  <2>8. AllFinal(gethFinal)' /\ (finalBlock.kind = "Produced" => AllFinal(finalBlock.hash)')
    BY <1>0, <2>0 DEF AllFinal, FinalAbove, ChainInv, FinalInv
  <2>9. FinalInv'
    BY <1>0, <2>0, <2>8 DEF ChainInv, FinalInv
  <2> QED
    BY <2>6, <2>7, <2>9 DEF ChainInv
<1> QED
  BY <1>1, <1>2

(* latest_block only depends on the numbers of the produced blocks.        *)
LEMMA LatestOrder ==
  ASSUME NEW e \in EthTables, NEW f \in EthTables, OnChain(e), OnChain(f),
         \A s \in BuiltSlots(e) : Done(e, s) =>
           s \in BuiltSlots(f) /\ Done(f, s) /\ Pos(BuiltSlots(f), s) = Pos(BuiltSlots(e), s)
  PROVE  latest_block(e) <= latest_block(f)
<1>1. /\ latest_block(e) \in Nat
      /\ latest_block(e) = 0 \/ \E s \in BuiltSlots(e) : Done(e, s) /\ Pos(BuiltSlots(e), s) = latest_block(e)
  BY LatestFacts
<1>2. latest_block(f) \in Nat /\ \A s \in BuiltSlots(f) : Done(f, s) => Pos(BuiltSlots(f), s) <= latest_block(f)
  BY LatestFacts
<1> QED
  BY <1>1, <1>2

(* The first transaction of blocks_produced registers what was built.      *)
LEMMA RegisterProducedChain ==
  ASSUME IndexerInv, ChainInv, RegisterProduced
  PROVE  ChainInv'
<1> DEFINE B == BuiltSlots(eth)
           L == latest_block(eth)
           M == latest_block(eth')
<1>0. /\ pc = "register" /\ pc' = "receipts" /\ eth' = block_produced(eth, produced)
      /\ UNCHANGED <<sol, head, known, gethFinal, pending, parent, finalBlock, produced>>
  BY DEF RegisterProduced, solVars, gethVars, produceVars
<1>1. /\ L \in Nat /\ B \subseteq Slots /\ B \subseteq Nat /\ Len(head) \in Nat /\ Len(gethFinal) \in Nat /\ Len(parent) \in Nat
      /\ eth \in EthTables /\ L <= Len(head)
      /\ \A s \in B : Pos(B, s) \in Nat \ {0} /\ (Done(eth, s) <=> Pos(B, s) <= L)
  BY <1>0, ChainTyped DEF ChainInv, BuildInv, Working
<1>2. PICK n \in 0 .. Len(head) : DOMAIN produced = NewUpTo(n) /\ (pending # {} => n = Len(parent))
  BY <1>0 DEF ChainInv, BuildInv
<1>3. \A id \in DOMAIN produced : Canon(B, produced[id]) /\ Len(produced[id]) = Pos(B, id[1])
  BY <1>0 DEF ChainInv, BuildInv
<1>4. /\ eth' \in EthTables /\ SameBlocks(eth, eth')
      /\ \A s \in Slots : \A i \in DOMAIN eth[s] :
           IF <<s, i>> \in DOMAIN produced /\ eth[s][i].hash = Genesis
           THEN eth'[s][i].hash = produced[<<s, i>>] ELSE eth'[s][i] = eth[s][i]
  BY <1>0, <1>1, BlockProducedFacts DEF IndexerInv, ProduceInv
<1>5. BuiltSlots(eth') = B
  BY <1>4 DEF BuiltSlots, SameBlocks
<1>6. ASSUME NEW s \in B
      PROVE  /\ Len(eth'[s]) = 1 /\ eth'[s][1].ver = 1
             /\ Done(eth', s) <=> Done(eth, s) \/ Pos(B, s) <= n
             /\ Done(eth', s) => Canon(B, eth'[s][1].hash) /\ Len(eth'[s][1].hash) = Pos(B, s)
  <2>1. s \in Slots /\ Len(eth[s]) = 1 /\ DOMAIN eth[s] = {1} /\ eth[s][1].ver = 1
    <3>1. s \in Slots /\ Len(eth[s]) = 1 /\ eth[s][1].ver = 1
      BY <1>1 DEF ChainInv, OnChain
    <3> QED
      BY <1>1, <3>1, SlotRows
  <2>2. Len(eth'[s]) = 1 /\ eth'[s][1].ver = 1
    BY <1>4, <2>1 DEF SameBlocks
  <2>3. IF <<s, 1>> \in DOMAIN produced /\ ~Done(eth, s)
        THEN eth'[s][1].hash = produced[<<s, 1>>] ELSE eth'[s][1] = eth[s][1]
    BY <1>4, <2>1 DEF Done
  <2>4. <<s, 1>> \in DOMAIN produced <=> ~Done(eth, s) /\ Pos(B, s) <= n
    BY <1>2 DEF NewUpTo, Firsts
  <2>5. CASE Done(eth, s)
    <3>1. eth'[s][1] = eth[s][1]
      BY <2>3, <2>5
    <3>2. Canon(B, eth[s][1].hash) /\ Len(eth[s][1].hash) = Pos(B, s)
      BY <2>5 DEF ChainInv, OnChain
    <3> QED
      BY <2>2, <2>5, <3>1, <3>2 DEF Done
  <2>6. CASE ~Done(eth, s) /\ Pos(B, s) <= n
    <3>1. eth'[s][1].hash = produced[<<s, 1>>] /\ Canon(B, produced[<<s, 1>>]) /\ Len(produced[<<s, 1>>]) = Pos(B, s)
      BY <1>3, <2>3, <2>4, <2>6
    <3>2. produced[<<s, 1>>] # Genesis
      BY <1>1, <3>1, CanonGenesis
    <3> QED
      BY <2>2, <2>6, <3>1, <3>2 DEF Done
  <2>7. CASE ~Done(eth, s) /\ ~(Pos(B, s) <= n)
    <3>1. eth'[s][1] = eth[s][1]
      BY <2>3, <2>4, <2>7
    <3> QED
      BY <2>2, <2>7, <3>1 DEF Done
  <2> QED
    BY <2>5, <2>6, <2>7
<1>7. ASSUME NEW s \in B, NEW t \in B, s < t, Done(eth', t) PROVE Done(eth', s)
  <2>1. CASE Done(eth, t)
    <3>1. Done(eth, s)
      BY <1>7, <2>1 DEF ChainInv, OnChain
    <3> QED
      BY <1>6, <3>1
  <2>2. CASE Pos(B, t) <= n
    <3>1. Pos(B, s) < Pos(B, t)
      BY <1>1, <1>7, PosOrder
    <3>2. Pos(B, s) <= n
      BY <1>1, <2>2, <3>1
    <3> QED
      BY <1>6, <3>2
  <2> QED
    BY <1>6, <1>7, <2>1, <2>2
<1>8. OnChain(eth')
  <2> HIDE DEF B
  <2> QED
    BY <1>5, <1>6, <1>7 DEF OnChain
<1>9. /\ M \in Nat /\ \A s \in B : Done(eth', s) <=> Pos(B, s) <= M
      /\ M = 0 \/ \E s \in B : Done(eth', s) /\ Pos(B, s) = M
  BY <1>4, <1>5, <1>8, LatestFacts
<1>10. L <= M
  <2>1. OnChain(eth) /\ \A s \in BuiltSlots(eth) : Done(eth, s) =>
           s \in BuiltSlots(eth') /\ Done(eth', s) /\ Pos(BuiltSlots(eth'), s) = Pos(BuiltSlots(eth), s)
    BY <1>5, <1>6 DEF ChainInv
  <2> QED
    BY <1>1, <1>4, <1>8, <2>1, LatestOrder
<1> HIDE DEF B, L, M
<1>11. ASSUME NEW m \in Nat, L <= m, n <= m PROVE M <= m
  <2>1. CASE M = 0
    BY <1>11, <2>1
  <2>2. ASSUME NEW s \in B, Done(eth', s), Pos(B, s) = M PROVE M <= m
    <3>1. Pos(B, s) <= L \/ Pos(B, s) <= n
      BY <1>1, <1>6, <2>2
    <3> QED
      BY <1>1, <1>9, <1>11, <2>2, <3>1
  <2> QED
    BY <1>9, <2>1, <2>2
<1>12. M <= Len(head)
  BY <1>1, <1>11
<1>13. Carrying' = (pending # {}) /\ (pending # {} => Carrying)
  BY <1>0 DEF Carrying
<1>14. ASSUME pending # {}
       PROVE  parent \in known /\ M <= Len(parent) /\ NewUpTo(Len(parent))' = {}
              /\ pending = Firsts({t \in B : Pos(B, t) > Len(parent)})
  <2>1. parent \in known /\ L <= Len(parent) /\ n = Len(parent) /\ pending = Firsts({t \in B : Pos(B, t) > Len(parent)})
    BY <1>2, <1>13, <1>14 DEF ChainInv, BuildInv, B, L
  <2>2. {t \in B : ~Done(eth', t) /\ Pos(B, t) <= Len(parent)} = {}
    BY <1>6, <2>1
  <2>3. NewUpTo(Len(parent))' = Firsts({t \in B : ~Done(eth', t) /\ Pos(B, t) <= Len(parent)})
    BY <1>0, <1>5 DEF NewUpTo
  <2>4. Firsts({}) = {}
    BY DEF Firsts
  <2>5. M <= Len(parent)
    BY <1>1, <1>11, <2>1
  <2>6. NewUpTo(Len(parent))' = {}
    BY <2>2, <2>3, <2>4
  <2> QED
    BY <2>1, <2>5, <2>6
<1>15. LinearInv' /\ OnChain(eth)' /\ ReproduceInv'
  BY <1>0, <1>8 DEF ChainInv, LinearInv, ReproduceInv
<1>16. ProducerInv'
  <2>1. \A h \in known \cup {gethFinal} : Canon(B, h)
    BY DEF ChainInv, ProducerInv, B
  <2>2. head \in known /\ \A h \in known : \A i \in 0 .. Len(h) : SubSeq(h, 1, i) \in known
    BY DEF ChainInv, ProducerInv
  <2> QED
    BY <1>0, <1>5, <2>1, <2>2 DEF ProducerInv
<1>17. BuildInv'
  <2>1. latest_block(eth)' = M /\ BuiltSlots(eth)' = B
    BY <1>5 DEF M
  <2> QED
    BY <1>0, <1>12, <1>13, <1>14, <2>1 DEF BuildInv
<1>18. FinalInv'
  <2>1. AllFinal(gethFinal)' /\ (Carrying /\ finalBlock.kind = "Produced" => AllFinal(finalBlock.hash)')
    <3>1. /\ gethFinal' = gethFinal /\ sol' = sol /\ BuiltSlots(eth') = BuiltSlots(eth)
          /\ Carrying => finalBlock' = finalBlock
      BY <1>0, <1>5 DEF B
    <3> QED
      BY <3>1, AllFinalKept DEF ChainInv, FinalInv
  <2>2. Len(gethFinal) <= Len(head) \/ Len(gethFinal) <= M + 1
    <3>1. Len(gethFinal) <= Len(head) \/ Len(gethFinal) <= L + 1
      BY DEF ChainInv, FinalInv, L
    <3> QED
      BY <1>1, <1>9, <1>10, <3>1
  <2>3. Carrying =>
       /\ finalBlock.kind = "Produced" =>
            /\ Canon(B, finalBlock.hash)
            /\ Len(gethFinal) <= Len(finalBlock.hash) /\ Len(finalBlock.hash) <= Len(parent) /\ finalBlock.hash # Genesis
       /\ finalBlock.kind = "Pending" =>
            finalBlock.id[1] \in BuiltSlots(eth) /\ sol[finalBlock.id[1]].status = "Finalized"
       /\ Len(gethFinal) <= Len(parent) + 1
       /\ parent = Genesis => gethFinal = Genesis
    BY DEF ChainInv, FinalInv, B
  <2>4. head = Genesis => gethFinal = Genesis
    BY DEF ChainInv, FinalInv
  <2>5. latest_block(eth)' = M /\ BuiltSlots(eth)' = B
    BY <1>5 DEF M
  <2> QED
    BY <1>0, <1>13, <2>1, <2>2, <2>3, <2>4, <2>5 DEF FinalInv, B
<1> QED
  BY <1>15, <1>16, <1>17, <1>18 DEF ChainInv

(* The second transaction of blocks_produced leaves the hashes alone.      *)
LEMMA RegisterReceiptsChain ==
  ASSUME IndexerInv, ChainInv, RegisterReceipts
  PROVE  ChainInv'
<1> DEFINE B == BuiltSlots(eth)
           L == latest_block(eth)
<1>0. /\ pc = "receipts" /\ eth' = store_receipts(eth, DOMAIN produced)
      /\ UNCHANGED <<sol, head, known, gethFinal>>
      /\ \/ pc' \in {"run", "parse"}
         \/ pending # {} /\ pc' = "build" /\ produced' = NoBlocks /\ UNCHANGED <<pending, parent, finalBlock>>
  BY DEF RegisterReceipts, NextBatch, solVars, gethVars
<1>1. /\ B \subseteq Slots /\ eth \in EthTables /\ L <= Len(head)
  BY <1>0, ChainTyped DEF ChainInv, BuildInv, Working
<1>2. /\ eth' \in EthTables /\ SameBlocks(eth, eth')
      /\ \A s \in Slots : \A i \in DOMAIN eth[s] : eth'[s][i].hash = eth[s][i].hash
  <2> DEFINE f == store_receipts(eth, DOMAIN produced)
  <2>1. f \in EthTables /\ SameBlocks(eth, f)
    BY <1>1, StoreReceiptsFacts
  <2>a. eth' = store_receipts(eth, DOMAIN produced) /\ eth \in EthTables
    BY <1>0, <1>1
  <2>2. /\ \A s \in Slots : DOMAIN eth'[s] = DOMAIN eth[s]
        /\ \A s \in Slots : \A i \in DOMAIN eth[s] :
             /\ eth'[s][i].hash = eth[s][i].hash
             /\ eth'[s][i].receipt = (<<s, i>> \in DOMAIN produced \/ eth[s][i].receipt)
    BY <2>a, StoreReceiptsFacts DEF SameBlocks
  <2>3. \A s \in Slots : \A i \in DOMAIN eth[s] : eth'[s][i].hash = eth[s][i].hash
    BY <2>2
  <2> HIDE DEF f
  <2>4. eth' = f
    BY <1>0 DEF f
  <2> QED
    BY <2>1, <2>3, <2>4
<1>3. BuiltSlots(eth') = B
  BY <1>2 DEF BuiltSlots, SameBlocks
<1>4. ASSUME NEW s \in B
      PROVE  Len(eth'[s]) = 1 /\ eth'[s][1].ver = 1 /\ eth'[s][1].hash = eth[s][1].hash
  <2>1. s \in Slots /\ Len(eth[s]) = 1 /\ eth[s][1].ver = 1
    BY <1>1 DEF ChainInv, OnChain
  <2>2. DOMAIN eth[s] = {1}
    BY <1>1, <2>1, SlotRows
  <2> QED
    BY <1>2, <2>1, <2>2 DEF SameBlocks
<1>5. \A s \in B : Done(eth', s) <=> Done(eth, s)
  BY <1>4 DEF Done
<1>6. OnChain(eth')
  <2>1. /\ \A s \in B : Done(eth, s) => Canon(B, eth[s][1].hash) /\ Len(eth[s][1].hash) = Pos(B, s)
        /\ \A s, t \in B : s < t /\ Done(eth, t) => Done(eth, s)
    BY DEF ChainInv, OnChain
  <2> HIDE DEF B
  <2> QED
    BY <1>3, <1>4, <1>5, <2>1 DEF OnChain
<1>7. latest_block(eth') = L
  <2>1. OnChain(eth) /\ L \in Nat /\ latest_block(eth') \in Nat
    BY <1>1, <1>2, LatestBlockFacts DEF ChainInv
  <2>2. L <= latest_block(eth')
    BY <1>1, <1>2, <1>3, <1>5, <1>6, <2>1, LatestOrder
  <2>3. latest_block(eth') <= L
    BY <1>1, <1>2, <1>3, <1>5, <1>6, <2>1, LatestOrder
  <2> QED
    BY <2>1, <2>2, <2>3
<1> HIDE DEF B, L
<1>8. LinearInv' /\ OnChain(eth)' /\ ReproduceInv'
  BY <1>0, <1>6 DEF ChainInv, LinearInv, ReproduceInv
<1>9. ProducerInv'
  <2>1. \A h \in known \cup {gethFinal} : Canon(B, h)
    BY DEF ChainInv, ProducerInv, B
  <2>2. head \in known /\ \A h \in known : \A i \in 0 .. Len(h) : SubSeq(h, 1, i) \in known
    BY DEF ChainInv, ProducerInv
  <2> QED
    BY <1>0, <1>3, <2>1, <2>2 DEF ProducerInv
<1>10. latest_block(eth)' = L /\ BuiltSlots(eth)' = B
  BY <1>3, <1>7
<1>11. /\ AllFinal(gethFinal)' /\ (head = Genesis => gethFinal = Genesis)
       /\ Len(gethFinal) <= Len(head) \/ Len(gethFinal) <= L + 1
  <2>1. gethFinal' = gethFinal /\ sol' = sol /\ BuiltSlots(eth') = BuiltSlots(eth)
    BY <1>0, <1>3 DEF B
  <2> QED
    BY <2>1, AllFinalKept DEF ChainInv, FinalInv, L
<1>12. CASE pc' \in {"run", "parse"}
  <2>1. BuildInv' /\ ~Carrying'
    BY <1>0, <1>1, <1>10, <1>12 DEF BuildInv, Working, Carrying
  <2>2. FinalInv'
    BY <1>0, <1>10, <1>11, <2>1 DEF FinalInv
  <2> QED
    BY <1>8, <1>9, <2>1, <2>2 DEF ChainInv
<1>13. CASE pending # {} /\ pc' = "build" /\ produced' = NoBlocks /\ UNCHANGED <<pending, parent, finalBlock>>
  <2>0. Carrying
    BY <1>0, <1>13 DEF Carrying
  <2>1. /\ parent \in known /\ L <= Len(parent) /\ NewUpTo(Len(parent)) = {}
        /\ pending = Firsts({t \in B : Pos(B, t) > Len(parent)})
    BY <1>0, <1>13, <2>0 DEF ChainInv, BuildInv, B, L
  <2>2. NewUpTo(Len(parent))' = {}
    <3>1. NewUpTo(Len(parent))' = Firsts({t \in B : ~Done(eth', t) /\ Pos(B, t) <= Len(parent)})
      BY <1>3, <1>13 DEF NewUpTo
    <3>2. {t \in B : ~Done(eth', t) /\ Pos(B, t) <= Len(parent)} = {t \in B : ~Done(eth, t) /\ Pos(B, t) <= Len(parent)}
      BY <1>5
    <3>3. NewUpTo(Len(parent)) = Firsts({t \in B : ~Done(eth, t) /\ Pos(B, t) <= Len(parent)})
      BY DEF NewUpTo, B
    <3> QED
      BY <2>1, <3>1, <3>2, <3>3
  <2>3. DOMAIN produced' = {}
    BY <1>13 DEF NoBlocks
  <2>4. BuildInv'
    BY <1>0, <1>1, <1>10, <1>13, <2>1, <2>2, <2>3 DEF BuildInv
  <2>5. finalBlock.kind = "Produced" => AllFinal(finalBlock.hash)'
    <3>1. finalBlock' = finalBlock /\ sol' = sol /\ BuiltSlots(eth') = BuiltSlots(eth)
      BY <1>0, <1>3, <1>13 DEF B
    <3> QED
      BY <2>0, <3>1, AllFinalKept DEF ChainInv, FinalInv
  <2>6. /\ finalBlock.kind = "Produced" =>
             /\ Canon(B, finalBlock.hash)
             /\ Len(gethFinal) <= Len(finalBlock.hash) /\ Len(finalBlock.hash) <= Len(parent) /\ finalBlock.hash # Genesis
        /\ finalBlock.kind = "Pending" =>
             finalBlock.id[1] \in BuiltSlots(eth) /\ sol[finalBlock.id[1]].status = "Finalized"
        /\ Len(gethFinal) <= Len(parent) + 1
        /\ parent = Genesis => gethFinal = Genesis
    BY <2>0 DEF ChainInv, FinalInv, B
  <2>7. FinalInv'
    BY <1>0, <1>10, <1>11, <1>13, <2>5, <2>6 DEF FinalInv, B
  <2> QED
    BY <1>8, <1>9, <2>4, <2>7 DEF ChainInv
<1> QED
  BY <1>0, <1>12, <1>13

(* The blocks of a parsed batch lie above all earlier ones.                *)
LEMMA RegisterParseChain ==
  ASSUME OneChain, late = {}, IndexerInv, PassedInv, ChainInv, RegisterParseResults
  PROVE  ChainInv'
<1> DEFINE B == BuiltSlots(eth)
           C == BuiltSlots(eth')
           L == latest_block(eth)
<1>0. /\ pc = "parse" /\ pc' = "pending" /\ eth' = register_parse_results(eth, parsed)
      /\ UNCHANGED <<sol, head, known, gethFinal>>
  BY DEF RegisterParseResults, solVars, gethVars
<1>1. /\ B \subseteq Slots /\ B \subseteq Nat /\ Slots \subseteq Nat /\ eth \in EthTables /\ L <= Len(head)
      /\ StartSlot \in Nat /\ current \in Nat /\ parsed \in [Slots -> {0} \cup ContentVersions]
  BY <1>0, ChainTyped, IndexerAssumption DEF ChainInv, BuildInv, Working, IndexerInv, ParseInv
<1>2. ASSUME NEW s \in Slots, parsed[s] # 0
      PROVE  /\ parsed[s] = 1 /\ sol[s].ver = 1 /\ Stored(sol, s) /\ StartSlot <= s /\ Count[s][1] <= 1
  <2>0. s \in Slots \ late
    OBVIOUS
  <2>1. /\ StartSlot <= current /\ (parsed[s] # 0 => current <= s /\ s < next)
        /\ current <= s /\ s < next => parsed[s] = sol[s].ver
    BY <1>0, <2>0 DEF PassedInv, Working
  <2>2. current <= s /\ parsed[s] = sol[s].ver
    BY <1>2, <2>1
  <2>3. sol[s].ver \in {0, 1}
    BY DEF ChainInv, LinearInv
  <2>4. Stored(sol, s)
    BY <1>2 DEF IndexerInv, RowsInv
  <2>5. StartSlot <= s
    BY <1>1, <2>1, <2>2
  <2> QED
    BY <1>2, <2>2, <2>3, <2>4, <2>5 DEF OneChain
<1>3. eth' \in EthTables
  BY <1>0, <1>1, RegisterFacts
<1> DEFINE f == register_parse_results(eth, parsed)
<1>a. \A s \in Slots : parsed[s] = 0 => f[s] = eth[s]
  BY DEF register_parse_results
<1>b. \A s \in Slots : parsed[s] # 0 => (Count[s][parsed[s]] <= 1 /\ Len(eth[s]) <= 1 => Len(f[s]) <= 1)
  BY <1>1, RegisterFacts
<1>c. \A s \in Slots : Len(eth[s]) <= Len(f[s])
  BY <1>1, RegisterFacts
<1>d. \A s \in Slots : f[s] # << >> /\ eth[s] = << >> => parsed[s] # 0 /\ Count[s][parsed[s]] # 0
  <2> SUFFICES ASSUME NEW s \in Slots, f[s] # << >>, eth[s] = << >> PROVE parsed[s] # 0 /\ Count[s][parsed[s]] # 0
    OBVIOUS
  <2>1. parsed[s] # 0
    <3>1. parsed[s] = 0 => f[s] = eth[s]
      BY <1>a
    <3> HIDE DEF f
    <3> QED
      BY <3>1
  <2>2. ASSUME Count[s][parsed[s]] = 0 PROVE FALSE
    <3>1. Len(eth[s]) = 0
      BY <1>1
    <3>2. DOMAIN f[s] = 1 .. (IF Len(eth[s]) > Count[s][parsed[s]] THEN Len(eth[s]) ELSE Count[s][parsed[s]])
      BY <2>1 DEF register_parse_results
    <3>3. f \in EthTables
      BY <1>1, RegisterFacts
    <3> HIDE DEF f
    <3>4. DOMAIN f[s] = {}
      BY <2>2, <3>1, <3>2
    <3>5. f[s] \in Seq(EthRow) /\ DOMAIN f[s] = 1 .. Len(f[s]) /\ Len(f[s]) \in 0 .. 2
      BY <3>3, SlotRows
    <3>6. Len(f[s]) = 0
      <4>1. ASSUME NEW n \in 0 .. 2, 1 .. n = {} PROVE n = 0
        <5>1. 1 \notin 1 .. n
          BY <4>1
        <5> QED
          BY <5>1
      <4> QED
        BY <3>4, <3>5, <4>1, Zenon
    <3> QED
      BY <3>5, <3>6
  <2> QED
    BY <2>1, <2>2
<1>e. \A s \in Slots : \A i \in DOMAIN f[s] :
        IF i \in DOMAIN eth[s] THEN f[s][i] = eth[s][i]
        ELSE parsed[s] # 0 /\ f[s][i] = [ver |-> parsed[s], hash |-> Genesis, receipt |-> FALSE]
  <2> SUFFICES ASSUME NEW s \in Slots, NEW i \in DOMAIN f[s]
               PROVE  IF i \in DOMAIN eth[s] THEN f[s][i] = eth[s][i]
                      ELSE parsed[s] # 0 /\ f[s][i] = [ver |-> parsed[s], hash |-> Genesis, receipt |-> FALSE]
    OBVIOUS
  <2>1. CASE parsed[s] = 0
    <3>1. f[s] = eth[s]
      BY <1>a, <2>1
    <3> HIDE DEF f
    <3> QED
      BY <3>1
  <2>2. CASE parsed[s] # 0
    BY <2>2 DEF register_parse_results
  <2> QED
    BY <2>1, <2>2
<1>f. eth' = f
  BY <1>0
<1> HIDE DEF f
<1>4. ASSUME NEW s \in Slots
      PROVE  /\ parsed[s] = 0 => eth'[s] = eth[s]
             /\ parsed[s] # 0 => (Count[s][parsed[s]] <= 1 /\ Len(eth[s]) <= 1 => Len(eth'[s]) <= 1)
             /\ Len(eth[s]) <= Len(eth'[s])
             /\ eth'[s] # << >> /\ eth[s] = << >> => parsed[s] # 0 /\ Count[s][parsed[s]] # 0
             /\ \A i \in DOMAIN eth'[s] :
                  IF i \in DOMAIN eth[s] THEN eth'[s][i] = eth[s][i]
                  ELSE parsed[s] # 0 /\ eth'[s][i] = [ver |-> parsed[s], hash |-> Genesis, receipt |-> FALSE]
  BY <1>a, <1>b, <1>c, <1>d, <1>e, <1>f, Zenon
<1>5. ASSUME NEW s \in Slots
      PROVE  /\ Len(eth[s]) \in Nat /\ Len(eth'[s]) \in Nat /\ DOMAIN eth[s] = 1 .. Len(eth[s]) /\ DOMAIN eth'[s] = 1 .. Len(eth'[s])
             /\ (eth[s] = << >> <=> Len(eth[s]) = 0) /\ (eth'[s] = << >> <=> Len(eth'[s]) = 0)
             /\ (s \in B <=> Len(eth[s]) # 0) /\ (s \in C <=> Len(eth'[s]) # 0)
             /\ Len(eth[s]) <= 1
  <2>1. eth[s] \in Seq(EthRow) /\ eth'[s] \in Seq(EthRow)
    BY <1>1, <1>3, SlotRows
  <2>2. Len(eth[s]) \in Nat /\ Len(eth'[s]) \in Nat /\ DOMAIN eth[s] = 1 .. Len(eth[s]) /\ DOMAIN eth'[s] = 1 .. Len(eth'[s])
        /\ (eth[s] = << >> <=> Len(eth[s]) = 0) /\ (eth'[s] = << >> <=> Len(eth'[s]) = 0)
    BY <2>1
  <2>3. (s \in B <=> Len(eth[s]) # 0) /\ (s \in C <=> Len(eth'[s]) # 0)
    BY <2>2 DEF BuiltSlots
  <2>4. s \in B => Len(eth[s]) = 1
    BY DEF ChainInv, OnChain
  <2> HIDE DEF B, C
  <2>5. Len(eth[s]) <= 1
    <3>1. Len(eth[s]) = 0 \/ Len(eth[s]) = 1
      BY <2>3, <2>4, Zenon
    <3>2. ASSUME NEW n, n = 0 \/ n = 1 PROVE n <= 1
      BY <3>2
    <3> QED
      BY <3>1, <3>2, Zenon
  <2> QED
    BY <2>2, <2>3, <2>5
<1> HIDE DEF B, C
<1>6. B \subseteq C /\ C \subseteq Slots
  <2>1. ASSUME NEW s \in B PROVE s \in C
    <3>1. /\ s \in Slots /\ Len(eth[s]) \in Nat /\ Len(eth'[s]) \in Nat /\ Len(eth[s]) # 0 /\ Len(eth[s]) <= Len(eth'[s])
          /\ s \in C <=> Len(eth'[s]) # 0
      BY <1>1, <1>4, <1>5
    <3> QED
      BY <3>1
  <2>2. C \subseteq Slots
    BY DEF BuiltSlots, C
  <2> QED
    BY <2>1, <2>2
<1>7. ASSUME NEW s \in B, NEW t \in C, t \notin B PROVE s < t
  <2>0. s \in Slots /\ t \in Slots /\ s \in Nat /\ t \in Nat /\ s # t
    BY <1>1, <1>6, <1>7
  <2>1. eth[t] = << >> /\ eth'[t] # << >> /\ Len(eth[t]) = 0
    BY <1>5, <1>7, <2>0
  <2>2. parsed[t] # 0 /\ Count[t][parsed[t]] # 0
    BY <1>4, <2>0, <2>1
  <2>3. parsed[t] = 1 /\ sol[t].ver = 1 /\ Stored(sol, t) /\ StartSlot <= t
    BY <1>2, <2>0, <2>2
  <2>4. ASSUME t < s PROVE FALSE
    <3>1. eth[s] # << >>
      BY DEF BuiltSlots, B
    <3>2. Complete(sol, eth, late, s + 1)
      BY <2>0, <3>1 DEF PassedInv
    <3>3. t \in Slots \ late /\ t < s + 1
      BY <2>0, <2>4
    <3>4. Len(eth[t]) >= Count[t][sol[t].ver]
      BY <2>3, <3>2, <3>3 DEF Complete
    <3>5. Count[t][1] \in 0 .. 2
      BY <2>0, StorageAssumption DEF ContentVersions
    <3> QED
      BY <2>1, <2>2, <2>3, <3>4, <3>5
  <2> QED
    BY <2>0, <2>4
<1>8. ASSUME NEW s \in B PROVE eth'[s][1] = eth[s][1]
  <2>1. s \in Slots /\ s \in C
    BY <1>6
  <2>2. 1 \in DOMAIN eth[s] /\ 1 \in DOMAIN eth'[s]
    BY <1>5, <2>1
  <2> QED
    BY <1>4, <2>1, <2>2
<1>9. ASSUME NEW s \in C, s \notin B PROVE eth'[s][1] = [ver |-> 1, hash |-> Genesis, receipt |-> FALSE]
  <2>1. s \in Slots /\ 1 \in DOMAIN eth'[s] /\ 1 \notin DOMAIN eth[s]
    BY <1>5, <1>6, <1>9
  <2>2. parsed[s] # 0 /\ eth'[s][1] = [ver |-> parsed[s], hash |-> Genesis, receipt |-> FALSE]
    BY <1>4, <2>1
  <2> QED
    BY <1>2, <2>1, <2>2
<1>10. ASSUME NEW s \in C PROVE Len(eth'[s]) = 1
  <2>1. s \in Slots /\ Len(eth'[s]) \in Nat /\ Len(eth'[s]) # 0 /\ Len(eth[s]) <= 1
    BY <1>5, <1>6
  <2>2. Len(eth'[s]) <= 1
    <3>1. CASE parsed[s] = 0
      BY <1>4, <2>1, <3>1
    <3>2. CASE parsed[s] # 0
      BY <1>2, <1>4, <2>1, <3>2
    <3> QED
      BY <3>1, <3>2
  <2>3. ASSUME NEW n \in Nat, n # 0, n <= 1 PROVE n = 1
    BY <2>3
  <2> QED
    BY <2>1, <2>2, <2>3, Zenon
<1>11. \A s \in B : (Done(eth', s) <=> Done(eth, s)) /\ Pos(C, s) = Pos(B, s)
  <2>1. \A s \in B : Done(eth', s) <=> Done(eth, s)
    BY <1>8 DEF Done
  <2>2. ASSUME NEW s \in B PROVE Pos(C, s) = Pos(B, s)
    <3> QED
      BY <1>6, <1>7, PosGrows
  <2> QED
    BY <2>1, <2>2
<1>12. \A s \in C : Done(eth', s) => s \in B
  BY <1>9 DEF Done
<1>13. ASSUME NEW h, Canon(B, h) PROVE Canon(C, h)
  <2> QED
    BY <1>6, <1>7, <1>13, CanonGrows
<1>14. OnChain(eth')
  <2>1. /\ \A s \in B : eth[s][1].ver = 1
        /\ \A s \in B : Done(eth, s) => Canon(B, eth[s][1].hash) /\ Len(eth[s][1].hash) = Pos(B, s)
        /\ \A s, t \in B : s < t /\ Done(eth, t) => Done(eth, s)
    BY DEF ChainInv, OnChain, B
  <2>2. ASSUME NEW s \in C PROVE Len(eth'[s]) = 1 /\ eth'[s][1].ver = 1
    <3>1. CASE s \in B
      BY <1>8, <1>10, <2>1, <3>1
    <3>2. CASE s \notin B
      BY <1>9, <1>10, <3>2
    <3> QED
      BY <3>1, <3>2
  <2>3. ASSUME NEW s \in C, Done(eth', s) PROVE Canon(C, eth'[s][1].hash) /\ Len(eth'[s][1].hash) = Pos(C, s)
    <3>1. s \in B /\ Done(eth, s) /\ Pos(C, s) = Pos(B, s) /\ eth'[s][1] = eth[s][1]
      BY <1>8, <1>11, <1>12, <2>3
    <3> QED
      BY <1>13, <2>1, <3>1
  <2>4. ASSUME NEW s \in C, NEW t \in C, s < t, Done(eth', t) PROVE Done(eth', s)
    <3>1. t \in B /\ Done(eth, t)
      BY <1>11, <1>12, <2>4
    <3>2. s \in B
      <4>1. ASSUME s \notin B PROVE FALSE
        <5>1. t < s /\ s \in Nat /\ t \in Nat
          BY <1>1, <1>6, <1>7, <3>1, <4>1
        <5> QED
          BY <2>4, <5>1
      <4> QED
        BY <4>1
    <3> QED
      BY <1>11, <2>1, <2>4, <3>1, <3>2
  <2> QED
    BY <2>2, <2>3, <2>4 DEF OnChain, C
<1>15. latest_block(eth') = L
  <2>1. OnChain(eth) /\ L \in Nat /\ latest_block(eth') \in Nat
    BY <1>1, <1>3, LatestBlockFacts DEF ChainInv
  <2>2. L <= latest_block(eth')
    BY <1>1, <1>3, <1>6, <1>11, <1>14, <2>1, LatestOrder DEF B, C
  <2>3. latest_block(eth') <= L
    BY <1>1, <1>3, <1>11, <1>12, <1>14, <2>1, LatestOrder DEF B, C
  <2> QED
    BY <2>1, <2>2, <2>3
<1>16. LinearInv' /\ OnChain(eth)' /\ ReproduceInv' /\ ~Carrying'
  BY <1>0, <1>14 DEF ChainInv, LinearInv, ReproduceInv, Carrying
<1>17. ProducerInv'
  <2>1. \A h \in known \cup {gethFinal} : Canon(C, h)
    <3>1. \A h \in known \cup {gethFinal} : Canon(B, h)
      BY DEF ChainInv, ProducerInv, B
    <3> QED
      BY <1>13, <3>1
  <2>2. head \in known /\ \A h \in known : \A i \in 0 .. Len(h) : SubSeq(h, 1, i) \in known
    BY DEF ChainInv, ProducerInv
  <2> QED
    BY <1>0, <2>1, <2>2 DEF ProducerInv, C
<1>18. BuildInv'
  BY <1>0, <1>1, <1>15, <1>16 DEF BuildInv
<1>19. FinalInv'
  <2>1. /\ AllFinal(gethFinal)' /\ (head = Genesis => gethFinal = Genesis)
        /\ Len(gethFinal) <= Len(head) \/ Len(gethFinal) <= L + 1
    <3>1. gethFinal' = gethFinal /\ sol' = sol /\ BuiltSlots(eth) \subseteq BuiltSlots(eth')
      BY <1>0, <1>6 DEF B, C
    <3> QED
      BY <3>1, AllFinalKept DEF ChainInv, FinalInv
  <2> QED
    BY <1>0, <1>15, <1>16, <2>1 DEF FinalInv
<1> QED
  BY <1>16, <1>17, <1>18, <1>19 DEF ChainInv

(* No slot is stored below the last one.                                   *)
NoneLate == late = {}

LEMMA NoneLateStep ==
  ASSUME OneChain, late = {}, [Next]_vars
  PROVE  late' = {}
<1>1. CASE LoaderStep
  <2>1. ASSUME NEW s \in Slots, NEW p \in 0 .. MaxSlot, NEW status \in {"Confirmed", "Finalized"},
               LoaderStores(s, p, status)
        PROVE  late' = {}
    <3>1. s > LastSlot(sol) /\ late' = IF s < LastSlot(sol) THEN late \cup {s} ELSE late
      BY <2>1 DEF LoaderStores, OneChain
    <3>2. s \in Nat /\ LastSlot(sol) \in Nat
      BY StorageAssumption, LastSlotBounds DEF Slots
    <3> QED
      BY <3>1, <3>2
  <2> QED
    BY <1>1, <2>1 DEF LoaderStep, LoaderMarksFinalized, LoaderUpdatesBlocks, LoaderSendsReorg, solVars
<1>2. CASE FaultStep
  BY <1>2 DEF FaultStep, LoaderExits, CallFails, Crash, Restart, GethLosesBlocks, solVars
<1>3. CASE UNCHANGED vars
  BY <1>3 DEF vars, solVars
<1>4. CASE IndexerStep
  <2>1. CASE \/ PreRun \/ StartReproducing \/ RebuildBlock \/ CheckReproduced \/ ChannelClosed \/ BeginSync
             \/ ParseSlot \/ NothingPending \/ RestoreBlocks
    BY <2>1 DEF PreRun, StartReproducing, RebuildBlock, CheckReproduced, ChannelClosed, BeginSync,
                ParseSlot, NothingPending, RestoreBlocks, solVars
  <2>2. CASE \/ StartProducing \/ ForkchoiceParent \/ ForkchoiceNew \/ EndProducing \/ HandleReorg
             \/ RegisterParseResults \/ RegisterProduced \/ RegisterReceipts
    BY <2>2 DEF StartProducing, ForkchoiceParent, ForkchoiceNew, EndProducing, HandleReorg,
                RegisterParseResults, RegisterProduced, RegisterReceipts, solVars
  <2> QED
    BY <1>3, <1>4, <2>1, <2>2 DEF IndexerStep, Sleep
<1> QED
  BY <1>1, <1>2, <1>3, <1>4 DEF Next

(* Every step preserves the invariant.                                     *)
LEMMA ChainInvStep ==
  ASSUME OneChain, late = {}, IndexerInv, PassedInv, ChainInv, [Next]_vars
  PROVE  ChainInv'
<1>1. CASE LoaderStep \/ LoaderExits
  BY <1>1, LoaderChain
<1>2. CASE PreRun \/ StartReproducing \/ RebuildBlock \/ CheckReproduced
  BY <1>2, PreRunChain, StartReproducingChain, RebuildChain, CheckReproducedChain
<1>3. CASE HandleReorg
  BY <1>3 DEF HandleReorg, PassedInv
<1>4. CASE ChannelClosed \/ BeginSync \/ ParseSlot \/ NothingPending \/ CallFails \/ Crash \/ Restart
  BY <1>4, IdleStepsChain
<1>5. CASE RegisterParseResults
  BY <1>5, RegisterParseChain
<1>6. CASE RestoreBlocks \/ StartProducing \/ ForkchoiceParent \/ ForkchoiceNew \/ EndProducing
  BY <1>6, RestoreChain, StartProducingChain, ForkchoiceParentChain, ForkchoiceNewChain, EndProducingChain
<1>7. CASE RegisterProduced \/ RegisterReceipts
  BY <1>7, RegisterProducedChain, RegisterReceiptsChain
<1>8. CASE \E n \in 0 .. Len(head) : GethLosesBlocks(n)
  BY <1>8, GethLosesChain
<1>9. CASE UNCHANGED vars \/ Sleep
  BY <1>9, StutterChain DEF Sleep
<1> QED
  BY <1>1, <1>2, <1>3, <1>4, <1>5, <1>6, <1>7, <1>8, <1>9 DEF Next, IndexerStep, FaultStep

(* The invariant holds in every state of a single chain.                   *)
THEOREM ChainInvariant ==
  ASSUME OneChain
  PROVE  Spec => [](IndexerInv /\ PassedInv /\ ChainInv /\ NoneLate)
<1>1. Spec => []PassedInv
  BY PassedInvariant DEF OneChain
<1>2. IndexerInv /\ PassedInv /\ ChainInv /\ NoneLate /\ [Next]_vars => ChainInv' /\ NoneLate'
  BY ChainInvStep, NoneLateStep DEF NoneLate
<1>3. Init => NoneLate
  BY DEF Init, NoneLate
<1> QED
  BY <1>1, <1>2, <1>3, InitChainInv, IndexerInvariant, PTL DEF Spec

-----------------------------------------------------------------------------
(* What follows.                                                           *)

(* A produced row: its slot and its place in the chain.                    *)
LEMMA ProducedRow ==
  ASSUME IndexerInv, ChainInv, NEW id \in ProducedIds(eth)
  PROVE  \E s \in BuiltSlots(eth) :
           /\ id = <<s, 1>> /\ Done(eth, s) /\ Row(eth, id) = eth[s][1] /\ Row(eth, id).ver = 1
           /\ Canon(BuiltSlots(eth), Row(eth, id).hash) /\ Len(Row(eth, id).hash) = Pos(BuiltSlots(eth), s)
<1>1. PICK s \in BuiltSlots(eth) : id = <<s, 1>> /\ Done(eth, s)
  BY ChainTyped DEF Firsts
<1>2. Row(eth, id) = eth[s][1] /\ Row(eth, id).ver = 1
  BY <1>1, ChainTyped
<1>3. Canon(BuiltSlots(eth), eth[s][1].hash) /\ Len(eth[s][1].hash) = Pos(BuiltSlots(eth), s)
  BY <1>1 DEF ChainInv, OnChain
<1> QED
  BY <1>1, <1>2, <1>3

(* On a single chain, with crashes, failed calls and lost blocks at any    *)
(* moment, the hash registered for a block is that of a block built from   *)
(* its own transactions: restore_blocks, which matches blocks by counting, *)
(* never takes the block of another slot.                                  *)
THEOREM RegisteredAsBuiltCorrect ==
  ASSUME OneChain
  PROVE  Spec => []RegisteredAsBuilt
<1>1. IndexerInv /\ ChainInv => RegisteredAsBuilt
  <2> SUFFICES ASSUME IndexerInv, ChainInv, NEW id \in ProducedIds(eth)
               PROVE  Row(eth, id).hash[Len(Row(eth, id).hash)] = Content(id, Row(eth, id).ver)
    BY DEF RegisteredAsBuilt
  <2> DEFINE B == BuiltSlots(eth)
             h == Row(eth, id).hash
  <2>1. PICK s \in B : id = <<s, 1>> /\ Row(eth, id).ver = 1 /\ Canon(B, h) /\ Len(h) = Pos(B, s)
    BY ProducedRow
  <2>2. B \subseteq Slots /\ Pos(B, s) \in Nat \ {0}
    BY ChainTyped
  <2> HIDE DEF B, h
  <2>3. Len(h) \in 1 .. Len(h)
    BY <2>1, <2>2
  <2>4. PICK t \in B : t = h[Len(h)][1] /\ Pos(B, t) = Len(h) /\ h[Len(h)] = <<t, 1, 1>>
    BY <2>1, <2>3 DEF Canon
  <2>5. t = s
    BY <2>1, <2>2, <2>4, PosOrder
  <2>6. Content(id, Row(eth, id).ver) = <<s, 1, 1>>
    BY <2>1 DEF Content
  <2> QED
    BY <2>4, <2>5, <2>6 DEF h
<1> QED
  BY <1>1, ChainInvariant, PTL

(* On a single chain no two registered blocks have the same number.        *)
THEOREM OneBlockPerNumberCorrect ==
  ASSUME OneChain
  PROVE  Spec => []OneBlockPerNumber
<1>1. IndexerInv /\ ChainInv => OneBlockPerNumber
  <2> SUFFICES ASSUME IndexerInv, ChainInv, NEW a \in ProducedIds(eth), NEW b \in ProducedIds(eth),
                      Len(Row(eth, a).hash) = Len(Row(eth, b).hash)
               PROVE  a = b
    BY DEF OneBlockPerNumber
  <2> DEFINE B == BuiltSlots(eth)
  <2>1. PICK s \in B : a = <<s, 1>> /\ Len(Row(eth, a).hash) = Pos(B, s)
    BY ProducedRow
  <2>2. PICK t \in B : b = <<t, 1>> /\ Len(Row(eth, b).hash) = Pos(B, t)
    BY ProducedRow
  <2>3. B \subseteq Slots /\ Pos(B, s) = Pos(B, t)
    BY <2>1, <2>2, ChainTyped
  <2> HIDE DEF B
  <2>4. s = t
    BY <2>3, PosOrder
  <2> QED
    BY <2>1, <2>2, <2>4
<1> QED
  BY <1>1, ChainInvariant, PTL

(* On a single chain, once the main loop runs, the storage registers only  *)
(* blocks the producer holds on the chain of its head, whatever the        *)
(* producer has lost before.                                               *)
THEOREM StorageFollowsProducerCorrect ==
  ASSUME OneChain
  PROVE  Spec => []StorageFollowsProducer
<1>1. IndexerInv /\ ChainInv => StorageFollowsProducer
  <2> SUFFICES ASSUME IndexerInv, ChainInv, pc \in {"run", "parse", "pending", "build", "register", "receipts"},
                      NEW id \in Current
               PROVE  Row(eth, id).hash \in known /\ IsPrefixOf(Row(eth, id).hash, head)
    BY DEF StorageFollowsProducer
  <2> DEFINE B == BuiltSlots(eth)
             h == Row(eth, id).hash
  <2>1. PICK s \in B : Done(eth, s) /\ Canon(B, h) /\ Len(h) = Pos(B, s)
    BY ProducedRow DEF Current
  <2>2. /\ B \subseteq Slots /\ Pos(B, s) \in Nat /\ Pos(B, s) <= latest_block(eth) /\ latest_block(eth) \in Nat
        /\ Len(head) \in Nat /\ Canon(B, head)
    BY <2>1, ChainTyped
  <2>3. latest_block(eth) <= Len(head)
    BY DEF ChainInv, BuildInv, Working
  <2> HIDE DEF B, h
  <2>4. Len(h) <= Len(head) /\ Len(h) \in 0 .. Len(head)
    BY <2>1, <2>2, <2>3
  <2>5. h = SubSeq(head, 1, Len(h)) /\ IsPrefixOf(h, head)
    BY <2>1, <2>2, <2>4, CanonIsPrefix
  <2>6. SubSeq(head, 1, Len(h)) \in known
    BY <2>4 DEF ChainInv, ProducerInv
  <2> QED
    BY <2>5, <2>6 DEF h
<1> QED
  BY <1>1, ChainInvariant, PTL

(* On a single chain every block op-geth was told to finalize was built    *)
(* from the stored content of a slot that a Finalized slot follows; that   *)
(* the status of its own slot may still be Confirmed does not matter.      *)
THEOREM FinalizedOnFinalBranchCorrect ==
  ASSUME OneChain
  PROVE  Spec => []FinalizedOnFinalBranch
<1>1. IndexerInv /\ ChainInv => FinalizedOnFinalBranch
  <2> SUFFICES ASSUME IndexerInv, ChainInv, NEW i \in 1 .. Len(gethFinal)
               PROVE  /\ sol[gethFinal[i][1]].ver = gethFinal[i][3]
                      /\ \E f \in FinalSlots : gethFinal[i][1] \in Branch(sol, f)
    BY DEF FinalizedOnFinalBranch
  <2>1. PICK t \in BuiltSlots(eth) : t = gethFinal[i][1] /\ gethFinal[i] = <<t, 1, 1>>
    BY ChainTyped DEF Canon
  <2>2. PICK f \in BuiltSlots(eth) : t <= f /\ sol[f].status = "Finalized"
    BY <2>1 DEF ChainInv, FinalInv, AllFinal, FinalAbove
  <2>3. t \in Slots /\ f \in Slots /\ Stored(sol, t) /\ Stored(sol, f)
    BY DEF BuiltSlots, IndexerInv, RowsInv
  <2>4. sol[t].ver \in {0, 1} /\ sol[t].ver # 0
    BY <2>3 DEF ChainInv, LinearInv, IndexerInv, SolInv
  <2>5. t \in Branch(sol, f)
    BY <2>2, <2>3, BranchReaches DEF IndexerInv, ChainInv
  <2>6. f \in FinalSlots
    BY <2>2, <2>3 DEF FinalSlots
  <2> QED
    BY <2>1, <2>4, <2>5, <2>6
<1> QED
  BY <1>1, ChainInvariant, PTL

(* On a single chain what op-geth was told is final stays final: neither   *)
(* forkchoice update of advance_rollup_state sends an older finalized      *)
(* block, the first one after a restart included.                          *)
THEOREM FinalityNeverRevertedCorrect ==
  ASSUME OneChain
  PROVE  Spec => FinalityNeverReverted
<1>1. IndexerInv /\ PassedInv /\ ChainInv /\ NoneLate /\ [Next]_vars => [IsPrefixOf(gethFinal, gethFinal')]_gethFinal
  <2> SUFFICES ASSUME IndexerInv, PassedInv, ChainInv, NoneLate, [Next]_vars, gethFinal' # gethFinal
               PROVE  IsPrefixOf(gethFinal, gethFinal')
    OBVIOUS
  <2>1. ForkchoiceParent \/ ForkchoiceNew
    <3>1. CASE LoaderStep
      BY <3>1 DEF LoaderStep, LoaderStores, LoaderMarksFinalized, LoaderUpdatesBlocks, LoaderSendsReorg, gethVars
    <3>2. CASE FaultStep
      BY <3>2 DEF FaultStep, LoaderExits, CallFails, Crash, Restart, GethLosesBlocks, gethVars
    <3>3. CASE IndexerStep
      <4>1. CASE PreRun \/ StartReproducing \/ RebuildBlock \/ CheckReproduced
        BY <4>1 DEF PreRun, StartReproducing, RebuildBlock, CheckReproduced, gethVars
      <4>2. CASE HandleReorg \/ ChannelClosed \/ BeginSync \/ Sleep \/ ParseSlot \/ RegisterParseResults
        BY <4>2 DEF HandleReorg, ChannelClosed, BeginSync, Sleep, ParseSlot, RegisterParseResults, gethVars, vars
      <4>3. CASE NothingPending \/ RestoreBlocks \/ StartProducing \/ EndProducing \/ RegisterProduced \/ RegisterReceipts
        BY <4>3 DEF NothingPending, RestoreBlocks, StartProducing, EndProducing, RegisterProduced, RegisterReceipts, gethVars
      <4> QED
        BY <3>3, <4>1, <4>2, <4>3 DEF IndexerStep
    <3>4. CASE UNCHANGED vars
      BY <3>4 DEF vars, gethVars
    <3> QED
      BY <3>1, <3>2, <3>3, <3>4 DEF Next
  <2>2. Len(gethFinal) <= Len(gethFinal') /\ eth' = eth
    <3>1. CASE ForkchoiceParent
      <4>1. gethFinal' = CurrentFinalized /\ eth' = eth /\ Carrying
        BY <3>1 DEF ForkchoiceParent, Carrying
      <4> QED
        BY <4>1, CurrentFinalizedChain
    <3>2. CASE ForkchoiceNew
      BY <3>2, ForkchoiceNewChain DEF ForkchoiceNew
    <3> QED
      BY <2>1, <3>1, <3>2
  <2>3. ChainInv'
    BY ChainInvStep DEF NoneLate
  <2>4. Canon(BuiltSlots(eth), gethFinal) /\ Canon(BuiltSlots(eth), gethFinal') /\ BuiltSlots(eth) \subseteq Slots
    BY <2>2, <2>3, ChainTyped DEF ChainInv, ProducerInv
  <2> QED
    BY <2>2, <2>4, CanonIsPrefix
<1> QED
  BY <1>1, ChainInvariant, PTL DEF Spec, FinalityNeverReverted

(* On a single chain every produced block is on the current Solana fork.   *)
LEMMA AllProducedCurrent ==
  ASSUME IndexerInv, ChainInv
  PROVE  Current = Firsts({s \in BuiltSlots(eth) : Done(eth, s)})
<1> DEFINE B == BuiltSlots(eth)
<1>1. /\ Ids(eth) = Firsts(B) /\ ProducedIds(eth) = Firsts({s \in B : Done(eth, s)})
  BY OneRowIds DEF ChainInv, OnChain, IndexerInv, RowsInv
<1>2. B \subseteq Slots /\ Slots \subseteq Nat /\ \A s \in B : Stored(sol, s)
  BY StorageAssumption DEF BuiltSlots, IndexerInv, RowsInv, Slots
<1>3. ASSUME NEW s \in B PROVE s \in Branch(sol, TopSlot(eth))
  <2>1. <<s, 1>> \in Ids(eth)
    BY <1>1 DEF Firsts
  <2>2. Ids(eth) \subseteq IdSet /\ Ids(eth) # {}
    BY <2>1, IdsTyped DEF IndexerInv, RowsInv
  <2>3. LastId(Ids(eth)) \in Ids(eth) /\ (LastId(Ids(eth)) = <<s, 1>> \/ Before(<<s, 1>>, LastId(Ids(eth))))
    BY <2>1, <2>2, IdExtremes
  <2>4. PICK t \in B : LastId(Ids(eth)) = <<t, 1>>
    BY <1>1, <2>3 DEF Firsts
  <2>5. s = t \/ s < t
    BY <2>3, <2>4 DEF Before
  <2>6. s \in Nat /\ t \in Nat /\ Stored(sol, s) /\ Stored(sol, t)
    BY <1>2
  <2>7. s <= t
    BY <2>5, <2>6
  <2>8. TopSlot(eth) = t
    BY <2>4 DEF TopSlot
  <2>9. SolInv /\ LinearInv
    BY DEF IndexerInv, ChainInv
  <2>10. s \in Branch(sol, t)
    BY <2>6, <2>7, <2>9, BranchReaches
  <2> QED
    BY <2>8, <2>10
<1>4. ASSUME NEW id \in ProducedIds(eth) PROVE id[1] \in B
  BY <1>1 DEF Firsts
<1> HIDE DEF B
<1>5. Current = ProducedIds(eth)
  BY <1>3, <1>4 DEF Current
<1> QED
  BY <1>1, <1>5 DEF B

(* On a single chain the produced blocks are built one on the other, in    *)
(* the order of their slots and without a gap, whatever was lost, restored *)
(* or rebuilt on the way.                                                  *)
THEOREM ProducedFormOneChainCorrect ==
  ASSUME OneChain
  PROVE  Spec => []ProducedFormOneChain
<1>1. IndexerInv /\ ChainInv => ProducedFormOneChain
  <2> DEFINE below(b) == {a \in Current : Before(a, b)}
             hash(b) == Row(eth, b).hash
             B == BuiltSlots(eth)
             D == {s \in B : Done(eth, s)}
  <2> SUFFICES ASSUME IndexerInv, ChainInv, NEW b \in Current
               PROVE  SubSeq(hash(b), 1, Len(hash(b)) - 1) =
                        IF below(b) = {} THEN Genesis ELSE Row(eth, LastId(below(b))).hash
    BY Zenon DEF ProducedFormOneChain
  <2>1. Current = Firsts(D) /\ Current \subseteq ProducedIds(eth)
    BY AllProducedCurrent DEF Current
  <2>2. B \subseteq Slots /\ B \subseteq Nat /\ D \subseteq B
    BY StorageAssumption DEF BuiltSlots, Slots
  <2>3. \A s, t \in B : s < t /\ t \in D => s \in D
    BY DEF ChainInv, OnChain
  <2>4. ASSUME NEW a \in Current
        PROVE  a[1] \in D /\ a = <<a[1], 1>> /\ Canon(B, hash(a)) /\ Len(hash(a)) = Pos(B, a[1])
    <3>1. a[1] \in D /\ a = <<a[1], 1>>
      BY <2>1 DEF Firsts
    <3>2. PICK s \in B : a = <<s, 1>> /\ Canon(B, hash(a)) /\ Len(hash(a)) = Pos(B, s)
      BY <2>1, ProducedRow
    <3> QED
      BY <3>1, <3>2
  <2> HIDE DEF B, D, hash
  <2>5. PICK t \in D : t = b[1] /\ b = <<t, 1>> /\ t \in B /\ Canon(B, hash(b)) /\ Len(hash(b)) = Pos(B, t)
    BY <2>2, <2>4
  <2>6. \A s \in D : <<s, 1>> \in Current
    BY <2>1 DEF Firsts
  <2>7. ASSUME NEW n \in Nat, Pos(B, t) = n + 1
        PROVE  /\ SubSeq(hash(b), 1, Len(hash(b)) - 1) = SubSeq(hash(b), 1, n)
               /\ Canon(B, SubSeq(hash(b), 1, n)) /\ Len(SubSeq(hash(b), 1, n)) = n
    <3>1. Len(hash(b)) - 1 = n /\ n \in 0 .. Len(hash(b))
      BY <2>5, <2>7
    <3> QED
      BY <2>5, <3>1, CanonPrefix
  <2>8. CASE below(b) = {}
    <3>1. ASSUME NEW u \in B PROVE u < t <=> Pos(B, u) <= 0
      <4>1. ~(u < t)
        <5> SUFFICES ASSUME u < t PROVE FALSE
          OBVIOUS
        <5>1. <<u, 1>> \in Current
          BY <2>3, <2>5, <2>6
        <5>2. Before(<<u, 1>>, b)
          BY <2>5 DEF Before
        <5> QED
          BY <2>8, <5>1, <5>2
      <4>2. Pos(B, u) \in Nat \ {0}
        BY <2>2, PosOrder
      <4> QED
        BY <4>1, <4>2
    <3>2. Pos(B, t) = 0 + 1
      <4> DEFINE n == 0
      <4>1. n \in Nat /\ n = 0 /\ \A u \in B : u < t <=> Pos(B, u) <= n
        BY <3>1
      <4> HIDE DEF n
      <4>2. Pos(B, t) = n + 1
        BY <2>2, <2>5, <4>1, PosNext
      <4> QED
        BY <4>1, <4>2
    <3>3. PICK g : g = SubSeq(hash(b), 1, Len(hash(b)) - 1)
      OBVIOUS
    <3>4. Canon(B, g) /\ Len(g) = 0
      BY <2>7, <3>2, <3>3
    <3>5. g = Genesis
      BY <3>4, CanonGenesis
    <3> QED
      BY <2>8, <3>3, <3>5
  <2>9. CASE below(b) # {}
    <3> DEFINE a == LastId(below(b))
    <3>1. below(b) \subseteq IdSet
      <4>1. ASSUME NEW c \in Current PROVE c \in IdSet
        BY <2>2, <2>4 DEF IdSet
      <4> QED
        BY <4>1
    <3>2. a \in below(b) /\ \A c \in below(b) : a = c \/ Before(c, a)
      BY <2>9, <3>1, IdExtremes
    <3> HIDE DEF a
    <3>3. PICK u \in D : /\ u = a[1] /\ a = <<u, 1>> /\ u \in B
                         /\ Canon(B, hash(a)) /\ Len(hash(a)) = Pos(B, u)
      BY <2>2, <2>4, <3>2
    <3>4. u < t
      BY <2>5, <3>2, <3>3 DEF Before
    <3>5. ASSUME NEW v \in B PROVE v < t <=> Pos(B, v) <= Pos(B, u)
      <4>0. v \in Nat /\ u \in Nat /\ t \in Nat
        BY <2>2, <2>5, <3>3
      <4>1. /\ Pos(B, v) \in Nat /\ Pos(B, u) \in Nat
            /\ (v < u <=> Pos(B, v) < Pos(B, u)) /\ (v = u <=> Pos(B, v) = Pos(B, u))
        <5>1. B \subseteq Slots /\ u \in B
          BY <2>2, <3>3
        <5> QED
          BY <5>1, PosOrder
      <4>2. ASSUME v < t PROVE v <= u
        <5>1. <<v, 1>> \in Current
          BY <2>3, <2>5, <2>6, <4>2
        <5>2. Before(<<v, 1>>, b)
          BY <2>5, <4>2 DEF Before
        <5>3. a = <<v, 1>> \/ Before(<<v, 1>>, a)
          BY <3>2, <5>1, <5>2
        <5>4. u = v \/ v < u
          BY <3>3, <5>3 DEF Before
        <5> QED
          BY <4>0, <5>4
      <4> QED
        BY <3>4, <4>0, <4>1, <4>2
    <3>6. Pos(B, u) \in Nat /\ Pos(B, t) = Pos(B, u) + 1
      <4>1. Pos(B, u) \in Nat
        BY <2>2, PosFinite
      <4> QED
        BY <2>2, <2>5, <3>3, <3>5, <4>1, PosNext
    <3>7. SubSeq(hash(b), 1, Len(hash(b)) - 1) = hash(a)
      <4> DEFINE n == Pos(B, u)
      <4>1. /\ SubSeq(hash(b), 1, Len(hash(b)) - 1) = SubSeq(hash(b), 1, n)
            /\ Canon(B, SubSeq(hash(b), 1, n)) /\ Len(SubSeq(hash(b), 1, n)) = n
        BY <2>7, <3>6
      <4> QED
        BY <2>2, <3>3, <4>1, CanonEqual
    <3> QED
      BY <2>9, <3>7 DEF a, hash
  <2> QED
    BY <2>8, <2>9
<1> QED
  BY <1>1, ChainInvariant, PTL
=============================================================================
