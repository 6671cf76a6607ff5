-------------------------- MODULE SlotBlocksProofs --------------------------
(***************************************************************************)
(* From the log of a Solana transaction to the blocks of a slot: for every *)
(* result of an execution, order of the lines and cut of the log, for any  *)
(* number of transactions and slots and in both parse modes.               *)
(***************************************************************************)
EXTENDS SlotBlocks, NatLemmas, SequenceTheorems

-----------------------------------------------------------------------------
(* One line, read by one parser.                                           *)

TagOf(parser) ==
  CASE parser = "event" -> "EVENT_LOG"
    [] parser = "reason" -> "EXIT_REASON"
    [] parser = "value" -> "GAS_VALUE"
    [] parser = "price" -> "GAS_PRICE"
    [] parser = "recipient" -> "GAS_RECIPIENT"

(* One step of consume.                                                    *)
ReadItem(parser, p, item) == IF p.state = "Err" THEN p ELSE advance(parser, p, item)

(* consume ends where a sequence of such steps ends.                       *)
LEMMA ConsumeReads ==
  ASSUME NEW parser, NEW line, line.data, Len(line.items) \in Nat,
         NEW g, g[0] = default(parser),
         \A i \in 1 .. Len(line.items) : g[i] = ReadItem(parser, g[i - 1], line.items[i])
  PROVE  consume(parser, line) = g[Len(line.items)]
<1> DEFINE n == Len(line.items)
           read[i \in 0 .. n] ==
             IF i = 0 THEN default(parser)
             ELSE IF read[i - 1].state = "Err" THEN read[i - 1]
             ELSE advance(parser, read[i - 1], line.items[i])
           Eq(f) == f = [i \in 0 .. n |->
                           IF i = 0 THEN default(parser)
                           ELSE IF f[i - 1].state = "Err" THEN f[i - 1]
                           ELSE advance(parser, f[i - 1], line.items[i])]
           h == [i \in 0 .. n |-> g[i]]
<1>1. consume(parser, line) = read[n]
  BY DEF consume
<1>2. Eq(h)
  <2> DEFINE e(i) == IF i = 0 THEN default(parser)
                     ELSE IF h[i - 1].state = "Err" THEN h[i - 1]
                     ELSE advance(parser, h[i - 1], line.items[i])
  <2>1. ASSUME NEW i \in 0 .. n PROVE h[i] = e(i)
    <3>1. CASE i = 0
      BY <3>1
    <3>2. CASE i # 0
      <4>1. i \in 1 .. n /\ i - 1 \in 0 .. n
        BY <3>2
      <4> QED
        BY <3>2, <4>1 DEF ReadItem
    <3> QED
      BY <3>1, <3>2
  <2> HIDE DEF e
  <2>2. h = [i \in 0 .. n |-> e(i)]
    BY <2>1
  <2> QED
    BY <2>2 DEF e
<1>3. Eq(CHOOSE f : Eq(f))
  BY <1>2, Zenon
<1>4. Eq(read)
  BY <1>3, Zenon
<1> HIDE DEF read, h
<1>5. read[0] = g[0]
  <2>1. 0 \in 0 .. n
    OBVIOUS
  <2> QED
    BY <1>4, <2>1
<1>6. ASSUME NEW i \in 1 .. n, read[i - 1] = g[i - 1] PROVE read[i] = g[i]
  <2>1. i \in 0 .. n /\ i # 0
    OBVIOUS
  <2>2. read[i] = ReadItem(parser, read[i - 1], line.items[i])
    BY <1>4, <2>1 DEF ReadItem
  <2> QED
    BY <1>6, <2>2
<1>7. read[n] = g[n]
  <2>1. n \in Nat /\ \A i \in 1 .. n : read[i - 1] = g[i - 1] => read[i] = g[i]
    BY <1>6
  <2> HIDE DEF n
  <2>2. \A i \in 0 .. n : read[i] = g[i]
    <3>1. Alike(read, g, n)
      BY <1>5, <2>1 DEF Alike
    <3>2. Equal(read, g, n)
      BY <2>1, <3>1, AlikeEqual, Zenon
    <3> QED
      BY <3>2 DEF Equal
  <2> QED
    BY <2>1, <2>2
<1> QED
  BY <1>1, <1>7

(* A parser does not stir before its tag.                                  *)
LEMMA Untouched ==
  ASSUME NEW parser \in Parsers, NEW line, Len(line.items) \in Nat,
         line.data => \A i \in 1 .. Len(line.items) : ~Is(line.items[i], TagOf(parser))
  PROVE  consume(parser, line) = default(parser)
<1>1. CASE ~line.data
  BY <1>1 DEF consume
<1>2. CASE line.data
  <2> DEFINE g == [i \in 0 .. Len(line.items) |-> default(parser)]
  <2>1. ASSUME NEW i \in 1 .. Len(line.items)
        PROVE  ReadItem(parser, default(parser), line.items[i]) = default(parser)
    <3>1. ~Is(line.items[i], TagOf(parser))
      BY <1>2
    <3>2. default(parser).state = "Init"
      BY DEF default, EventInit, ReasonInit, GasInit
    <3>3. advance(parser, default(parser), line.items[i]) = default(parser)
      BY <3>1, <3>2 DEF Parsers, TagOf, advance, EventAdvance, ReasonAdvance, GasValueAdvance,
         GasPriceAdvance, GasRecipientAdvance, GasAdvance
    <3> QED
      BY <3>2, <3>3 DEF ReadItem
  <2>2. g[0] = default(parser) /\ g[Len(line.items)] = default(parser)
    OBVIOUS
  <2>3. \A i \in 1 .. Len(line.items) : g[i] = ReadItem(parser, g[i - 1], line.items[i])
    BY <2>1
  <2> HIDE DEF g
  <2> QED
    BY <1>2, <2>2, <2>3, ConsumeReads
<1> QED
  BY <1>1, <1>2

-----------------------------------------------------------------------------
(* The lines of a log, read by all parsers.                                *)

(* A line whose items bear no tag but one.                                 *)
OneTag(line, tag) ==
  /\ Len(line.items) \in Nat
  /\ \A i \in 1 .. Len(line.items) : line.items[i][2] \in {"", tag}

(* A line no parser but one stirs at.                                      *)
OnlyFor(parser, line) == \A q \in Parsers : q # parser => consume(q, line) = default(q)

LEMMA ItemFacts ==
  /\ \A item \in Items : /\ item[2] = "" /\ Length(item) \in Nat /\ Value(item) \in Nat
  /\ \A len, v : /\ Length(Item(len, v)) = len /\ Value(Item(len, v)) = v
                 /\ Item(len, v)[2] = ""
  /\ \A tag : Tag(tag)[2] = tag
  BY DEF Items, Length, Value, Item, Tag

LEMMA TagOnly ==
  ASSUME NEW parser \in Parsers, NEW line, OneTag(line, TagOf(parser))
  PROVE  OnlyFor(parser, line)
<1> SUFFICES ASSUME NEW q \in Parsers, q # parser PROVE consume(q, line) = default(q)
  BY DEF OnlyFor
<1>1. TagOf(q) # TagOf(parser) /\ TagOf(q) # ""
  BY DEF TagOf, Parsers
<1>2. \A i \in 1 .. Len(line.items) : ~Is(line.items[i], TagOf(q))
  BY <1>1 DEF OneTag, Is
<1>3. Len(line.items) \in Nat
  BY DEF OneTag
<1> QED
  BY <1>2, <1>3, Untouched

LEMMA NoTag ==
  ASSUME NEW line, line.data => OneTag(line, ""), Len(line.items) \in Nat
  PROVE  \A q \in Parsers : consume(q, line) = default(q)
<1> SUFFICES ASSUME NEW q \in Parsers PROVE consume(q, line) = default(q)
  OBVIOUS
<1>1. TagOf(q) # ""
  BY DEF TagOf, Parsers
<1>2. line.data => \A i \in 1 .. Len(line.items) : ~Is(line.items[i], TagOf(q))
  BY <1>1 DEF OneTag, Is
<1> QED
  BY <1>2, Untouched

(* Two sequences joined, and a sequence of one item or none.               *)
LEMMA Joined ==
  ASSUME NEW S, NEW s \in Seq(S), NEW t \in Seq(S)
  PROVE  /\ s \o t \in Seq(S) /\ Len(s \o t) = Len(s) + Len(t)
         /\ \A i \in 1 .. Len(s) : (s \o t)[i] = s[i]
         /\ \A i \in 1 .. Len(t) : (s \o t)[Len(s) + i] = t[i]
<1>1. Len(s) \in Nat /\ Len(t) \in Nat
  OBVIOUS
<1>2. /\ s \o t \in Seq(S) /\ Len(s \o t) = Len(s) + Len(t)
      /\ \A i \in 1 .. Len(s) + Len(t) :
           (s \o t)[i] = IF i <= Len(s) THEN s[i] ELSE t[i - Len(s)]
  BY ConcatProperties
<1>3. ASSUME NEW i \in 1 .. Len(s) PROVE (s \o t)[i] = s[i]
  <2>1. i \in 1 .. Len(s) + Len(t) /\ i <= Len(s)
    BY <1>1
  <2> QED
    BY <1>2, <2>1
<1>4. ASSUME NEW i \in 1 .. Len(t) PROVE (s \o t)[Len(s) + i] = t[i]
  <2>1. Len(s) + i \in 1 .. Len(s) + Len(t) /\ ~(Len(s) + i <= Len(s)) /\ (Len(s) + i) - Len(s) = i
    BY <1>1
  <2> QED
    BY <1>2, <2>1
<1> QED
  BY <1>2, <1>3, <1>4

(* The first elements of a sequence, one by one.                           *)
LEMMA FirstElements ==
  ASSUME NEW S, NEW s \in Seq(S)
  PROVE  /\ SubSeq(s, 1, 0) = <<>> /\ SubSeq(s, 1, Len(s)) = s
         /\ \A k \in 1 .. Len(s) : /\ Append(SubSeq(s, 1, k - 1), s[k]) = SubSeq(s, 1, k)
                                   /\ Len(SubSeq(s, 1, k - 1)) = k - 1
<1>1. SubSeq(s, 1, 0) = <<>>
  BY SubSeqEmpty
<1>2. SubSeq(s, 1, Len(s)) = s
  BY SubSeqFull
<1>3. ASSUME NEW k \in 1 .. Len(s)
      PROVE  /\ Append(SubSeq(s, 1, k - 1), s[k]) = SubSeq(s, 1, k)
             /\ Len(SubSeq(s, 1, k - 1)) = k - 1
  <2>1. Len(s) \in Nat /\ 1 \in 1 .. Len(s) /\ 1 \in Int /\ k - 1 \in Int /\ s[k] \in S
    OBVIOUS
  <2>2. SubSeq(s, 1, k) = SubSeq(s, 1, k - 1) \o <<s[k]>>
    BY <2>1, SubSeqRecursiveSecond
  <2>3. \A i \in 1 .. (k - 1) : s[i] \in S
    OBVIOUS
  <2>4. SubSeq(s, 1, k - 1) \in Seq(S)
        /\ Len(SubSeq(s, 1, k - 1)) = IF 1 <= k - 1 THEN (k - 1) - 1 + 1 ELSE 0
    BY <2>1, <2>3, SubSeqProperties
  <2>5. Len(SubSeq(s, 1, k - 1)) = k - 1
    BY <2>4
  <2>6. Append(SubSeq(s, 1, k - 1), s[k]) = SubSeq(s, 1, k - 1) \o <<s[k]>>
    BY <2>1, <2>4, AppendIsConcat
  <2> QED
    BY <2>2, <2>5, <2>6
<1> QED
  BY <1>1, <1>2, <1>3

Count(item) == IF item = NoItem THEN 0 ELSE 1

LEMMA PresentFacts ==
  ASSUME NEW S, NEW item \in S
  PROVE  /\ Present(item) \in Seq(S) /\ Len(Present(item)) = Count(item) /\ Count(item) \in 0 .. 1
         /\ item # NoItem => Present(item)[1] = item /\ Count(item) = 1
         /\ item = NoItem => Count(item) = 0
<1>1. CASE item = NoItem
  BY <1>1 DEF Present, Count
<1>2. CASE item # NoItem
  BY <1>2 DEF Present, Count
<1> QED
  BY <1>1, <1>2

(* The items of an event.                                                  *)
LEMMA EventItems ==
  ASSUME NEW e \in Logs
  PROVE  LET items == EventLine(e).items
             n     == Len(e.topics)
         IN  /\ n \in Nat /\ Count(e.data) \in 0 .. 1
             /\ Len(items) = 3 + n + Count(e.data)
             /\ items[1] = Tag("EVENT_LOG") /\ items[2] = e.address /\ items[3] = Item(1, n)
             /\ \A k \in 1 .. n : items[3 + k] = e.topics[k]
             /\ e.data # NoItem => items[3 + n + 1] = e.data /\ Count(e.data) = 1
             /\ e.data = NoItem => Count(e.data) = 0
<1> DEFINE head == <<Tag("EVENT_LOG"), e.address, Item(1, Len(e.topics))>>
           S == {Tag("EVENT_LOG"), e.address, Item(1, Len(e.topics)), e.data} \cup ItemsOf(32)
           n == Len(e.topics)
           tail == Present(e.data)
           front == head \o e.topics
<1>1. e.topics \in Seq(S) /\ n \in Nat
  BY DEF Logs
<1>2. head \in Seq(S) /\ Len(head) = 3 /\ head[1] = Tag("EVENT_LOG") /\ head[2] = e.address
      /\ head[3] = Item(1, n)
  OBVIOUS
<1>3. e.data \in S
  OBVIOUS
<1>4. EventLine(e).items = front \o tail
  BY DEF EventLine
<1> HIDE DEF head, S, n
<1>5. /\ tail \in Seq(S) /\ Len(tail) = Count(e.data) /\ Count(e.data) \in 0 .. 1
      /\ e.data # NoItem => tail[1] = e.data /\ Count(e.data) = 1
      /\ e.data = NoItem => Count(e.data) = 0
  BY <1>3, PresentFacts
<1>6. /\ front \in Seq(S) /\ Len(front) = 3 + Len(e.topics)
      /\ \A i \in 1 .. 3 : front[i] = head[i]
      /\ \A i \in 1 .. Len(e.topics) : front[3 + i] = e.topics[i]
  <2>1. /\ front \in Seq(S) /\ Len(front) = Len(head) + Len(e.topics)
        /\ \A i \in 1 .. Len(head) : front[i] = head[i]
        /\ \A i \in 1 .. Len(e.topics) : front[Len(head) + i] = e.topics[i]
    <3>1. head \in Seq(S) /\ e.topics \in Seq(S)
      BY <1>1, <1>2
    <3> QED
      BY <3>1, Joined
  <2> HIDE DEF front
  <2> QED
    BY <1>2, <2>1
<1> HIDE DEF front, tail
<1>7. /\ Len(front \o tail) = Len(front) + Len(tail)
      /\ \A i \in 1 .. Len(front) : (front \o tail)[i] = front[i]
      /\ \A i \in 1 .. Len(tail) : (front \o tail)[Len(front) + i] = tail[i]
  BY <1>5, <1>6, Joined
<1>8. n = Len(e.topics)
  BY DEF n
<1>9. \A i \in 1 .. 3 : i \in 1 .. Len(front)
  BY <1>1, <1>6, <1>8
<1>10. \A k \in 1 .. n : 3 + k \in 1 .. Len(front)
  BY <1>1, <1>6, <1>8
<1>11. e.data # NoItem => (front \o tail)[3 + n + 1] = e.data
  BY <1>1, <1>5, <1>6, <1>7, <1>8
<1>12. \A k \in 1 .. n : (front \o tail)[3 + k] = e.topics[k]
  BY <1>6, <1>7, <1>8, <1>10
<1>13. (front \o tail)[1] = head[1] /\ (front \o tail)[2] = head[2] /\ (front \o tail)[3] = head[3]
  BY <1>6, <1>7, <1>9
<1>14. Len(front \o tail) = 3 + n + Count(e.data)
  BY <1>5, <1>6, <1>7, <1>8
<1> QED
  BY <1>1, <1>2, <1>4, <1>5, <1>8, <1>11, <1>12, <1>13, <1>14

(* An event is read as it is written.                                      *)
EventRead(e) ==
  [state |-> "Data", topics_len |-> Len(e.topics), address |-> e.address, topics |-> e.topics,
   data |-> e.data]

(* The parser after i items of an event.                                   *)
EventAt(e, i) ==
  CASE i = 0 -> EventInit
    [] i = 1 -> [EventInit EXCEPT !.state = "Address"]
    [] i = 2 -> [EventInit EXCEPT !.state = "TopicsLen", !.address = e.address]
    [] i >= 3 /\ i <= 3 + Len(e.topics) ->
         [state |-> IF i = 3 + Len(e.topics) THEN "Data" ELSE "Topics", topics_len |-> Len(e.topics),
          address |-> e.address, topics |-> SubSeq(e.topics, 1, i - 3), data |-> NoItem]
    [] OTHER -> EventRead(e)

LEMMA EventSteps ==
  ASSUME NEW e \in Logs, NEW i \in 1 .. Len(EventLine(e).items)
  PROVE  EventAt(e, i) = ReadItem("event", EventAt(e, i - 1), EventLine(e).items[i])
<1> DEFINE item == EventLine(e).items[i]
           n == Len(e.topics)
           p == EventAt(e, i - 1)
<1>1. /\ n \in Nat /\ Count(e.data) \in 0 .. 1
      /\ Len(EventLine(e).items) = 3 + n + Count(e.data)
      /\ EventLine(e).items[1] = Tag("EVENT_LOG") /\ EventLine(e).items[2] = e.address
      /\ EventLine(e).items[3] = Item(1, n)
      /\ \A k \in 1 .. n : EventLine(e).items[3 + k] = e.topics[k]
      /\ e.data # NoItem => EventLine(e).items[3 + n + 1] = e.data /\ Count(e.data) = 1
      /\ e.data = NoItem => Count(e.data) = 0
  BY EventItems
<1>2. /\ e.address \in ItemsOf(20) /\ e.topics \in Seq(ItemsOf(32))
  BY DEF Logs
<1>3. ReadItem("event", p, item) = IF p.state = "Err" THEN p ELSE EventAdvance(p, item)
  BY DEF ReadItem, advance
<1> SUFFICES EventAt(e, i) = IF p.state = "Err" THEN p ELSE EventAdvance(p, item)
  BY <1>3
<1> HIDE DEF p, item
<1>4. CASE i = 1
  <2>1. item = Tag("EVENT_LOG") /\ p = EventInit
    BY <1>1, <1>4 DEF item, p, EventAt
  <2>2. EventAt(e, i) = [EventInit EXCEPT !.state = "Address"]
    BY <1>4 DEF EventAt
  <2> QED
    BY <2>1, <2>2 DEF EventInit, EventAdvance, Is, Tag
<1>5. CASE i = 2
  <2>1. item = e.address /\ p = [EventInit EXCEPT !.state = "Address"]
    BY <1>1, <1>5 DEF item, p, EventAt
  <2>2. EventAt(e, i) = [EventInit EXCEPT !.state = "TopicsLen", !.address = e.address]
    BY <1>5 DEF EventAt
  <2>3. Length(item) = 20
    BY <1>2, <2>1 DEF ItemsOf
  <2> QED
    BY <2>1, <2>2, <2>3 DEF EventInit, EventAdvance
<1>6. CASE i = 3
  <2>1. item = Item(1, n) /\ p = [EventInit EXCEPT !.state = "TopicsLen", !.address = e.address]
    BY <1>1, <1>6 DEF item, p, EventAt
  <2>2. EventAt(e, i) =
          [state |-> IF n = 0 THEN "Data" ELSE "Topics", topics_len |-> n,
           address |-> e.address, topics |-> SubSeq(e.topics, 1, 0), data |-> NoItem]
    BY <1>1, <1>6 DEF EventAt
  <2>3. Length(item) = 1 /\ Value(item) = n
    BY <2>1, ItemFacts
  <2>4. SubSeq(e.topics, 1, 0) = <<>>
    BY <1>2, FirstElements
  <2>5. EventAdvance(p, item) =
          [p EXCEPT !.topics_len = n, !.state = IF n > 0 THEN "Topics" ELSE "Data"]
    BY <2>1, <2>3 DEF EventAdvance, EventInit
  <2>6. p = [state |-> "TopicsLen", topics_len |-> 0, address |-> e.address, topics |-> <<>>,
             data |-> NoItem]
    BY <2>1 DEF EventInit
  <2>7. (IF n > 0 THEN "Topics" ELSE "Data") = IF n = 0 THEN "Data" ELSE "Topics"
    BY <1>1
  <2>8. EventAdvance(p, item) =
          [state |-> IF n = 0 THEN "Data" ELSE "Topics", topics_len |-> n,
           address |-> e.address, topics |-> <<>>, data |-> NoItem]
    BY <2>5, <2>6, <2>7
  <2>9. p.state # "Err"
    BY <2>6
  <2> QED
    BY <2>2, <2>4, <2>8, <2>9
<1>7. CASE i > 3 /\ i <= 3 + n
  <2> DEFINE k == i - 3
  <2>1. k \in 1 .. n /\ 3 + k = i /\ k - 1 \in 0 .. n
    <3>1. n \in Nat /\ i \in Int
      BY <1>1
    <3> QED
      BY <1>7, <3>1
  <2>2. item = e.topics[k]
    BY <1>1, <2>1 DEF item
  <2>3. p = [state |-> "Topics", topics_len |-> n,
             address |-> e.address, topics |-> SubSeq(e.topics, 1, k - 1), data |-> NoItem]
    <3>1. i \in Nat /\ n \in Nat
      BY <1>1
    <3>2. /\ i - 1 >= 3 /\ i - 1 <= 3 + n /\ i - 1 # 3 + n /\ (i - 1) - 3 = k - 1
          /\ i - 1 # 0 /\ i - 1 # 1 /\ i - 1 # 2
      BY <3>1, <1>7
    <3> HIDE DEF k
    <3> QED
      BY <3>2 DEF p, EventAt
  <2>4. EventAt(e, i) =
          [state |-> IF k = n THEN "Data" ELSE "Topics", topics_len |-> n,
           address |-> e.address, topics |-> SubSeq(e.topics, 1, k), data |-> NoItem]
    <3>1. i >= 3 /\ i <= 3 + n /\ (i = 3 + n <=> k = n) /\ i # 0 /\ i # 1 /\ i # 2
      BY <1>1, <1>7
    <3> QED
      BY <3>1 DEF EventAt
  <2> HIDE DEF k
  <2>5. Length(item) = 32
    BY <1>1, <1>2, <2>1, <2>2 DEF ItemsOf
  <2>6. /\ Append(SubSeq(e.topics, 1, k - 1), item) = SubSeq(e.topics, 1, k)
        /\ Len(SubSeq(e.topics, 1, k - 1)) + 1 = k
    <3>1. e.topics \in Seq(ItemsOf(32)) /\ k \in 1 .. Len(e.topics)
      BY <1>2, <2>1
    <3>2. /\ Append(SubSeq(e.topics, 1, k - 1), e.topics[k]) = SubSeq(e.topics, 1, k)
          /\ Len(SubSeq(e.topics, 1, k - 1)) = k - 1
      BY <3>1, FirstElements
    <3> QED
      BY <2>1, <2>2, <3>2
  <2>7. EventAdvance(p, item) =
          [p EXCEPT !.topics = Append(@, item),
                    !.state = IF Len(p.topics) + 1 = p.topics_len THEN "Data" ELSE "Topics"]
    BY <2>3, <2>5 DEF EventAdvance
  <2>8. EventAdvance(p, item) =
          [state |-> IF k = n THEN "Data" ELSE "Topics", topics_len |-> n,
           address |-> e.address, topics |-> SubSeq(e.topics, 1, k), data |-> NoItem]
    BY <2>3, <2>6, <2>7
  <2>9. p.state # "Err"
    BY <2>3
  <2> QED
    BY <2>4, <2>8, <2>9
<1>8. CASE i > 3 + n
  <2>1. e.data # NoItem /\ i = 3 + n + 1
    BY <1>1, <1>8
  <2>2. item = e.data
    BY <1>1, <2>1 DEF item
  <2>3. p = [state |-> "Data", topics_len |-> n,
             address |-> e.address, topics |-> SubSeq(e.topics, 1, n), data |-> NoItem]
    <3>1. /\ i - 1 = 3 + n /\ i - 1 >= 3 /\ i - 1 <= 3 + n /\ (i - 1) - 3 = n
          /\ i - 1 # 0 /\ i - 1 # 1 /\ i - 1 # 2
      BY <1>1, <2>1
    <3> QED
      BY <3>1 DEF p, EventAt
  <2>4. SubSeq(e.topics, 1, n) = e.topics
    BY <1>2, FirstElements
  <2>5. EventAt(e, i) = EventRead(e)
    BY <1>1, <2>1 DEF EventAt
  <2> QED
    BY <2>2, <2>3, <2>4, <2>5 DEF EventAdvance, EventRead
<1> QED
  BY <1>1, <1>4, <1>5, <1>6, <1>7, <1>8

LEMMA EventLineRead ==
  ASSUME NEW e \in Logs
  PROVE  consume("event", EventLine(e)) = EventRead(e) /\ OnlyFor("event", EventLine(e))
<1> DEFINE line == EventLine(e)
           m == Len(line.items)
           n == Len(e.topics)
           g == [i \in 0 .. m |-> EventAt(e, i)]
<1>1. /\ n \in Nat /\ Count(e.data) \in 0 .. 1
      /\ m = 3 + n + Count(e.data)
      /\ line.items[1] = Tag("EVENT_LOG") /\ line.items[2] = e.address
      /\ line.items[3] = Item(1, n)
      /\ \A k \in 1 .. n : line.items[3 + k] = e.topics[k]
      /\ e.data # NoItem => line.items[3 + n + 1] = e.data /\ Count(e.data) = 1
      /\ e.data = NoItem => Count(e.data) = 0
  BY EventItems
<1>2. /\ e.address \in Items /\ e.topics \in Seq(ItemsOf(32)) /\ e.data \in Items
  BY DEF Logs, ItemsOf
<1>3. \A i \in 1 .. m : EventAt(e, i) = ReadItem("event", EventAt(e, i - 1), line.items[i])
  BY EventSteps
<1>4. line.data
  BY DEF EventLine
<1> HIDE DEF line, m
<1>5. m = Len(line.items) /\ m \in Nat
  BY <1>1 DEF m
<1>6. consume("event", line) = g[m]
  <2>1. g[0] = default("event")
    BY <1>5 DEF EventAt, default
  <2>2. \A i \in 1 .. m : g[i] = ReadItem("event", g[i - 1], line.items[i])
    BY <1>3, <1>5
  <2> HIDE DEF g
  <2> QED
    BY <1>4, <1>5, <2>1, <2>2, ConsumeReads
<1>7. g[m] = EventRead(e)
  <2>1. g[m] = EventAt(e, m)
    BY <1>5
  <2> HIDE DEF g
  <2>2. CASE e.data = NoItem
    <3>1. m = 3 + n /\ m - 3 = n /\ m >= 3 /\ m <= 3 + n /\ m # 0 /\ m # 1 /\ m # 2
      BY <1>1, <2>2
    <3>2. SubSeq(e.topics, 1, n) = e.topics
      BY <1>2, FirstElements
    <3> QED
      BY <1>1, <2>1, <2>2, <3>1, <3>2 DEF EventAt, EventRead
  <2>3. CASE e.data # NoItem
    BY <1>1, <2>1, <2>3 DEF EventAt, EventRead
  <2> QED
    BY <2>2, <2>3
<1>8. OneTag(line, TagOf("event"))
  <2>1. ASSUME NEW i \in 1 .. m PROVE line.items[i][2] \in {"", "EVENT_LOG"}
    <3>1. CASE i = 1
      BY <1>1, <3>1, ItemFacts
    <3>2. CASE i = 2
      BY <1>1, <1>2, <3>2, ItemFacts
    <3>3. CASE i = 3
      <4>1. line.items[i] = Item(1, n)
        BY <1>1, <3>3
      <4>2. Item(1, n)[2] = ""
        BY DEF Item
      <4> QED
        BY <4>1, <4>2
    <3>4. CASE i > 3 /\ i <= 3 + n
      <4>1. i - 3 \in 1 .. n /\ 3 + (i - 3) = i
        BY <1>1, <3>4
      <4>2. e.topics[i - 3] \in Items
        BY <1>2, <4>1 DEF ItemsOf
      <4> QED
        BY <1>1, <4>1, <4>2, ItemFacts
    <3>5. CASE i > 3 + n
      <4>1. e.data # NoItem /\ i = 3 + n + 1
        BY <1>1, <3>5
      <4> QED
        BY <1>1, <1>2, <4>1, ItemFacts
    <3> QED
      <4>1. i = 1 \/ i = 2 \/ i = 3 \/ (i > 3 /\ i <= 3 + n) \/ i > 3 + n
        BY <1>1, <1>5
      <4> QED
        BY <4>1, <3>1, <3>2, <3>3, <3>4, <3>5
  <2>2. TagOf("event") = "EVENT_LOG"
    BY DEF TagOf
  <2> QED
    BY <1>5, <2>1, <2>2 DEF OneTag
<1>9. OnlyFor("event", line)
  <2>1. "event" \in Parsers
    BY DEF Parsers
  <2> QED
    BY <1>8, <2>1, TagOnly
<1> QED
  BY <1>6, <1>7, <1>9 DEF line

(* The line of the exit reason: an item is there when it is not the empty  *)
(* one.                                                                    *)
LEMMA ReasonItems ==
  ASSUME NEW o \in Results
  PROVE  LET items == ResultLine("exit", o).items
             r     == o.exit_reason
         IN  /\ Len(items) = 3 + Count(r.reason) + Count(r.return_value)
             /\ items[1] = Tag("EXIT_REASON") /\ items[2] = r.code /\ items[3] = Item(8, 1)
             /\ Count(r.reason) = 1 => items[4] = r.reason
             /\ Count(r.reason) = 0 => r.reason = NoItem /\ Count(r.return_value) = 0
             /\ Count(r.return_value) = 1 => items[5] = r.return_value
             /\ Count(r.return_value) = 0 => r.return_value = NoItem
             /\ Count(r.reason) \in 0 .. 1 /\ Count(r.return_value) \in 0 .. 1
             /\ r.code \in ItemsOf(1) /\ r.reason \in Items /\ r.return_value \in Items
<1> DEFINE r == o.exit_reason
           head == <<Tag("EXIT_REASON"), r.code, Item(8, 1)>>
           S == {Tag("EXIT_REASON"), r.code, Item(8, 1), r.reason, r.return_value}
           one == Present(r.reason)
           two == Present(r.return_value)
           front == head \o one
<1>1. /\ r.code \in ItemsOf(1) /\ r.reason \in Items /\ r.return_value \in Items
      /\ r.reason = NoItem => r.return_value = NoItem
  BY DEF Results, Reasons
<1>2. head \in Seq(S) /\ Len(head) = 3 /\ head[1] = Tag("EXIT_REASON") /\ head[2] = r.code
      /\ head[3] = Item(8, 1)
  OBVIOUS
<1>3. r.reason \in S /\ r.return_value \in S
  OBVIOUS
<1>4. ResultLine("exit", o).items = front \o two
  BY DEF ResultLine
<1> HIDE DEF head, S, r
<1>5. /\ one \in Seq(S) /\ Len(one) = Count(r.reason) /\ Count(r.reason) \in 0 .. 1
      /\ r.reason # NoItem => one[1] = r.reason /\ Count(r.reason) = 1
      /\ r.reason = NoItem => Count(r.reason) = 0
  BY <1>3, PresentFacts
<1>6. /\ two \in Seq(S) /\ Len(two) = Count(r.return_value) /\ Count(r.return_value) \in 0 .. 1
      /\ r.return_value # NoItem => two[1] = r.return_value /\ Count(r.return_value) = 1
      /\ r.return_value = NoItem => Count(r.return_value) = 0
  BY <1>3, PresentFacts
<1> HIDE DEF one, two
<1>7. /\ front \in Seq(S) /\ Len(front) = 3 + Len(one)
      /\ \A i \in 1 .. 3 : front[i] = head[i]
      /\ \A i \in 1 .. Len(one) : front[3 + i] = one[i]
  <2>1. /\ front \in Seq(S) /\ Len(front) = Len(head) + Len(one)
        /\ \A i \in 1 .. Len(head) : front[i] = head[i]
        /\ \A i \in 1 .. Len(one) : front[Len(head) + i] = one[i]
    <3>1. head \in Seq(S) /\ one \in Seq(S)
      BY <1>2, <1>5
    <3> QED
      BY <3>1, Joined
  <2> HIDE DEF front
  <2> QED
    BY <1>2, <2>1
<1> HIDE DEF front
<1>8. /\ Len(front \o two) = Len(front) + Len(two)
      /\ \A i \in 1 .. Len(front) : (front \o two)[i] = front[i]
      /\ \A i \in 1 .. Len(two) : (front \o two)[Len(front) + i] = two[i]
  <2>1. front \in Seq(S) /\ two \in Seq(S)
    BY <1>6, <1>7
  <2> QED
    BY <2>1, Joined
<1>9. Len(front) \in Nat /\ (\A i \in 1 .. 3 : i \in 1 .. Len(front))
  BY <1>5, <1>7
<1>10. (front \o two)[1] = head[1] /\ (front \o two)[2] = head[2] /\ (front \o two)[3] = head[3]
  BY <1>7, <1>8, <1>9
<1>11. Count(r.reason) = 1 => (front \o two)[4] = r.reason
  BY <1>5, <1>7, <1>8
<1>12. Count(r.return_value) = 1 => (front \o two)[5] = r.return_value
  BY <1>1, <1>5, <1>6, <1>7, <1>8
<1>13. Len(front \o two) = 3 + Count(r.reason) + Count(r.return_value)
  BY <1>5, <1>6, <1>7, <1>8
<1>14. /\ Count(r.reason) = 0 => r.reason = NoItem /\ Count(r.return_value) = 0
       /\ Count(r.return_value) = 0 => r.return_value = NoItem
  BY <1>1, <1>5, <1>6
<1> QED
  BY <1>1, <1>2, <1>4, <1>5, <1>6, <1>10, <1>11, <1>12, <1>13, <1>14 DEF r

ReasonState(state, code, reason, return_value) ==
  [state |-> state, code |-> code, reason |-> reason, return_value |-> return_value]

(* The parser after i items of the line.                                   *)
ReasonAt(r, i) ==
  CASE i = 0 -> ReasonState("Init", NoItem, NoItem, NoItem)
    [] i = 1 -> ReasonState("Code", NoItem, NoItem, NoItem)
    [] i = 2 -> ReasonState("ReasonLen", r.code, NoItem, NoItem)
    [] i = 3 -> ReasonState("Reason", r.code, NoItem, NoItem)
    [] i = 4 -> ReasonState("ReturnValue", r.code, r.reason, NoItem)
    [] i = 5 -> ReasonState("ReturnValue", r.code, r.reason, r.return_value)

LEMMA ReasonLineRead ==
  ASSUME NEW o \in Results
  PROVE  LET line == ResultLine("exit", o)
             p    == consume("reason", line)
         IN  p.state # "Err" /\ ReasonFound(p) /\ ExitReason(p) = o.exit_reason
             /\ OnlyFor("reason", line)
<1> DEFINE line == ResultLine("exit", o)
           r == o.exit_reason
           m == Len(line.items)
           g == [i \in 0 .. m |-> ReasonAt(r, i)]
<1>1. /\ m = 3 + Count(r.reason) + Count(r.return_value)
      /\ line.items[1] = Tag("EXIT_REASON") /\ line.items[2] = r.code /\ line.items[3] = Item(8, 1)
      /\ Count(r.reason) = 1 => line.items[4] = r.reason
      /\ Count(r.reason) = 0 => r.reason = NoItem /\ Count(r.return_value) = 0
      /\ Count(r.return_value) = 1 => line.items[5] = r.return_value
      /\ Count(r.return_value) = 0 => r.return_value = NoItem
      /\ Count(r.reason) \in 0 .. 1 /\ Count(r.return_value) \in 0 .. 1
      /\ r.code \in ItemsOf(1) /\ r.reason \in Items /\ r.return_value \in Items
  BY ReasonItems
<1>2. r \in [code : ItemsOf(1), reason : Items, return_value : Items]
  BY DEF Results, Reasons
<1>3. line.data
  BY DEF ResultLine
<1> HIDE DEF line, m, r
<1>4. m = Len(line.items) /\ m \in 3 .. 5 /\ m \in Nat
  BY <1>1 DEF m
<1>11. m \in 3 .. 5
  BY <1>4
<1>5. ASSUME NEW i \in 1 .. m
      PROVE  ReasonAt(r, i) = ReadItem("reason", ReasonAt(r, i - 1), line.items[i])
  <2> DEFINE p == ReasonAt(r, i - 1)
             item == line.items[i]
  <2>1. ReadItem("reason", p, item) = IF p.state = "Err" THEN p ELSE ReasonAdvance(p, item)
    BY DEF ReadItem, advance
  <2> SUFFICES ReasonAt(r, i) = IF p.state = "Err" THEN p ELSE ReasonAdvance(p, item)
    BY <2>1
  <2>2. p = ReasonAt(r, i - 1) /\ item = line.items[i]
    OBVIOUS
  <2> HIDE DEF p, item
  <2>3. CASE i = 1
    <3>1. /\ p = ReasonState("Init", NoItem, NoItem, NoItem) /\ item = Tag("EXIT_REASON")
          /\ ReasonAt(r, i) = ReasonState("Code", NoItem, NoItem, NoItem)
      BY <1>1, <2>2, <2>3 DEF ReasonAt
    <3> QED
      BY <3>1 DEF ReasonState, ReasonAdvance, Is, Tag
  <2>4. CASE i = 2
    <3>1. /\ p = ReasonState("Code", NoItem, NoItem, NoItem) /\ item = r.code
          /\ ReasonAt(r, i) = ReasonState("ReasonLen", r.code, NoItem, NoItem)
      BY <1>1, <2>2, <2>4 DEF ReasonAt
    <3>2. Length(item) = 1
      BY <1>1, <3>1 DEF ItemsOf
    <3> QED
      BY <3>1, <3>2 DEF ReasonState, ReasonAdvance
  <2>5. CASE i = 3
    <3>1. /\ p = ReasonState("ReasonLen", r.code, NoItem, NoItem) /\ item = Item(8, 1)
          /\ ReasonAt(r, i) = ReasonState("Reason", r.code, NoItem, NoItem)
      BY <1>1, <2>2, <2>5 DEF ReasonAt
    <3>2. Length(item) = 8
      BY <3>1, ItemFacts
    <3> QED
      BY <3>1, <3>2 DEF ReasonState, ReasonAdvance
  <2>6. CASE i = 4
    <3>1. Count(r.reason) = 1
      BY <1>1, <2>6
    <3>2. /\ p = ReasonState("Reason", r.code, NoItem, NoItem) /\ item = r.reason
          /\ ReasonAt(r, i) = ReasonState("ReturnValue", r.code, r.reason, NoItem)
      BY <1>1, <2>2, <2>6, <3>1 DEF ReasonAt
    <3> QED
      BY <3>2 DEF ReasonState, ReasonAdvance
  <2>7. CASE i = 5
    <3>1. Count(r.return_value) = 1
      BY <1>1, <2>7
    <3>2. /\ p = ReasonState("ReturnValue", r.code, r.reason, NoItem) /\ item = r.return_value
          /\ ReasonAt(r, i) = ReasonState("ReturnValue", r.code, r.reason, r.return_value)
      BY <1>1, <2>2, <2>7, <3>1 DEF ReasonAt
    <3> QED
      BY <3>2 DEF ReasonState, ReasonAdvance
  <2>8. i = 1 \/ i = 2 \/ i = 3 \/ i = 4 \/ i = 5
    BY <1>11
  <2> QED
    BY <2>3, <2>4, <2>5, <2>6, <2>7, <2>8
<1>6. consume("reason", line) = g[m]
  <2>1. g[0] = default("reason")
    BY <1>4 DEF ReasonAt, ReasonState, default, ReasonInit
  <2>2. \A i \in 1 .. m : g[i] = ReadItem("reason", g[i - 1], line.items[i])
    BY <1>5, <1>4
  <2> HIDE DEF g
  <2> QED
    BY <1>3, <1>4, <2>1, <2>2, ConsumeReads
<1>7. g[m] = ReasonAt(r, m)
  BY <1>4
<1> HIDE DEF g
<1>8. /\ g[m].state # "Err" /\ ReasonFound(g[m]) /\ ExitReason(g[m]) = r
  <2>1. CASE m = 3
    <3>1. r.reason = NoItem /\ r.return_value = NoItem
      BY <1>1, <2>1
    <3>2. g[m] = ReasonState("Reason", r.code, NoItem, NoItem)
      BY <1>7, <2>1 DEF ReasonAt
    <3> QED
      BY <1>2, <3>1, <3>2 DEF ReasonState, ReasonFound, ExitReason
  <2>2. CASE m = 4
    <3>1. r.return_value = NoItem
      BY <1>1, <2>2
    <3>2. g[m] = ReasonState("ReturnValue", r.code, r.reason, NoItem)
      BY <1>7, <2>2 DEF ReasonAt
    <3> QED
      BY <1>2, <3>1, <3>2 DEF ReasonState, ReasonFound, ExitReason
  <2>3. CASE m = 5
    <3>1. g[m] = ReasonState("ReturnValue", r.code, r.reason, r.return_value)
      BY <1>7, <2>3 DEF ReasonAt
    <3> QED
      BY <1>2, <3>1 DEF ReasonState, ReasonFound, ExitReason
  <2> QED
    BY <1>4, <2>1, <2>2, <2>3
<1>9. OneTag(line, TagOf("reason"))
  <2>1. ASSUME NEW i \in 1 .. m PROVE line.items[i][2] \in {"", "EXIT_REASON"}
    <3>1. CASE i = 1
      BY <1>1, <3>1, ItemFacts
    <3>2. CASE i = 2
      BY <1>1, <3>2, ItemFacts DEF ItemsOf
    <3>3. CASE i = 3
      <4>1. Item(8, 1)[2] = ""
        BY DEF Item
      <4> QED
        BY <1>1, <3>3, <4>1
    <3>4. CASE i = 4
      <4>1. Count(r.reason) = 1
        BY <1>1, <3>4
      <4> QED
        BY <1>1, <3>4, <4>1, ItemFacts
    <3>5. CASE i = 5
      <4>1. Count(r.return_value) = 1
        BY <1>1, <3>5
      <4> QED
        BY <1>1, <3>5, <4>1, ItemFacts
    <3>6. i = 1 \/ i = 2 \/ i = 3 \/ i = 4 \/ i = 5
      BY <1>11
    <3> QED
      BY <3>1, <3>2, <3>3, <3>4, <3>5, <3>6
  <2>2. TagOf("reason") = "EXIT_REASON"
    BY DEF TagOf
  <2> QED
    BY <1>4, <2>1, <2>2 DEF OneTag
<1>10. OnlyFor("reason", line)
  <2>1. "reason" \in Parsers
    BY DEF Parsers
  <2> QED
    BY <1>9, <2>1, TagOnly
<1> QED
  BY <1>6, <1>8, <1>10 DEF line, r

(* A line of gas.                                                          *)
GasState(state, val) == [state |-> state, val |-> val]

LEMMA GasTag ==
  ASSUME NEW tag, NEW len, NEW item, item[2] = tag
  PROVE  GasAdvance(tag, len, GasState("Init", NoItem), item) = GasState("Value", NoItem)
  BY DEF GasAdvance, GasState, Is

LEMMA GasVal ==
  ASSUME NEW tag, NEW len, NEW item, item[1] = len
  PROVE  GasAdvance(tag, len, GasState("Value", NoItem), item) = GasState("Found", item)
  BY DEF GasAdvance, GasState, Length

LEMMA GasLineRead ==
  ASSUME NEW parser \in {"value", "price", "recipient"}, NEW line, NEW len, NEW v,
         line.data, Len(line.items) = 2,
         line.items[1] = Tag(TagOf(parser)), line.items[2] = Item(len, v),
         len = IF parser = "recipient" THEN 20 ELSE 32
  PROVE  /\ consume(parser, line) = GasState("Found", Item(len, v))
         /\ OnlyFor(parser, line)
<1> DEFINE g == [i \in 0 .. 2 |-> CASE i = 0 -> GasInit
                                    [] i = 1 -> GasState("Value", NoItem)
                                    [] i = 2 -> GasState("Found", Item(len, v))]
<1>1. /\ Len(line.items) = 2 /\ line.items[1] = Tag(TagOf(parser)) /\ line.items[2] = Item(len, v)
  OBVIOUS
<1>2. g[0] = GasInit /\ g[1] = GasState("Value", NoItem)
      /\ g[2] = GasState("Found", Item(len, v))
  OBVIOUS
<1> HIDE DEF g
<1>3. GasInit = GasState("Init", NoItem)
  BY DEF GasInit, GasState
<1>4. \A p, item : advance(parser, p, item) = GasAdvance(TagOf(parser), len, p, item)
  BY DEF advance, GasValueAdvance, GasPriceAdvance, GasRecipientAdvance, TagOf
<1> DEFINE one == line.items[1]
           two == line.items[2]
           tag == TagOf(parser)
<1>12. one = Tag(tag) /\ two = Item(len, v)
  BY <1>1
<1> HIDE DEF one, two, tag
<1>11. one[2] = tag /\ two[2] = "" /\ two[1] = len
  BY <1>12 DEF Item, Tag
<1>13. GasState("Init", NoItem).state # "Err" /\ GasState("Value", NoItem).state # "Err"
  BY DEF GasState
<1>5. g[1] = ReadItem(parser, g[0], one)
  <2>1. GasAdvance(tag, len, GasState("Init", NoItem), one) = GasState("Value", NoItem)
    BY <1>11, GasTag, Zenon
  <2>2. advance(parser, g[0], one) = GasAdvance(tag, len, g[0], one)
    BY <1>4 DEF tag
  <2> QED
    BY <1>2, <1>3, <1>13, <2>1, <2>2 DEF ReadItem
<1>6. g[2] = ReadItem(parser, g[1], two)
  <2>1. GasAdvance(tag, len, GasState("Value", NoItem), two) = GasState("Found", two)
    BY <1>11, GasVal, Zenon
  <2>2. advance(parser, g[1], two) = GasAdvance(tag, len, g[1], two)
    BY <1>4 DEF tag
  <2> QED
    BY <1>2, <1>12, <1>13, <2>1, <2>2 DEF ReadItem
<1>7. default(parser) = GasInit
  BY DEF default
<1>8. consume(parser, line) = g[2]
  <2>1. \A i \in 1 .. Len(line.items) : g[i] = ReadItem(parser, g[i - 1], line.items[i])
    <3>1. ASSUME NEW i \in 1 .. Len(line.items)
          PROVE  g[i] = ReadItem(parser, g[i - 1], line.items[i])
      <4>1. (i = 1 /\ i - 1 = 0) \/ (i = 2 /\ i - 1 = 1)
        BY <1>1
      <4> QED
        BY <4>1, <1>5, <1>6 DEF one, two
    <3> QED
      BY <3>1
  <2>2. g[0] = default(parser) /\ Len(line.items) \in Nat
    BY <1>1, <1>2, <1>7
  <2>3. consume(parser, line) = g[Len(line.items)]
    <3> HIDE DEF g
    <3>1. line.data
      OBVIOUS
    <3> QED
      BY <3>1, <2>1, <2>2, ConsumeReads
  <2> QED
    BY <1>1, <2>3
<1>9. OneTag(line, TagOf(parser))
  <2>1. ASSUME NEW i \in 1 .. Len(line.items) PROVE line.items[i][2] \in {"", TagOf(parser)}
    <3>1. i = 1 \/ i = 2
      BY <1>1
    <3>2. line.items[1][2] = TagOf(parser) /\ line.items[2][2] = ""
      BY <1>11 DEF one, two, tag
    <3> QED
      BY <3>1, <3>2
  <2>2. Len(line.items) \in Nat
    BY <1>1
  <2> QED
    BY <2>1, <2>2 DEF OneTag
<1>10. OnlyFor(parser, line)
  <2>1. parser \in Parsers
    BY DEF Parsers
  <2> QED
    BY <1>9, <2>1, TagOnly
<1> QED
  BY <1>2, <1>8, <1>10

-----------------------------------------------------------------------------
(* What a line changes in the LogParser.                                   *)

LogState == [ok : BOOLEAN, events : Seq(Logs), exited : BOOLEAN,
             exit_reason : [code : Items, reason : Items, return_value : Items],
             gas_value : Nat, gas_price : Nat, gas_recipient : Nat]

LogRecord(events, exited, exit_reason, value, price, recipient) ==
  [ok |-> TRUE, events |-> events, exited |-> exited, exit_reason |-> exit_reason,
   gas_value |-> value, gas_price |-> price, gas_recipient |-> recipient]

LineParsed(l, event, reason, value, price, recipient) ==
  [ok |-> TRUE,
   events |-> IF EventFound(event) THEN Append(l.events, Event(event)) ELSE l.events,
   exited |-> l.exited \/ ReasonFound(reason),
   exit_reason |-> IF ReasonFound(reason) THEN ExitReason(reason) ELSE l.exit_reason,
   gas_value |-> IF value.state = "Found" THEN Value(value.val) ELSE l.gas_value,
   gas_price |-> IF price.state = "Found" THEN Value(price.val) ELSE l.gas_price,
   gas_recipient |-> IF recipient.state = "Found" THEN Value(recipient.val) ELSE l.gas_recipient]

LEMMA ParseLineFacts ==
  ASSUME NEW l \in LogState, l.ok, NEW line,
         \A parser \in Parsers : consume(parser, line).state # "Err"
  PROVE  ParseLine(l, line) =
           LineParsed(l, consume("event", line), consume("reason", line), consume("value", line),
                      consume("price", line), consume("recipient", line))
<1> DEFINE event     == consume("event", line)
           reason    == consume("reason", line)
           value     == consume("value", line)
           price     == consume("price", line)
           recipient == consume("recipient", line)
<1>1. "Err" \notin {event.state, reason.state, value.state, price.state, recipient.state}
  BY DEF Parsers
<1>2. ParseLine(l, line) =
        [l EXCEPT
             !.events = IF EventFound(event) THEN Append(@, Event(event)) ELSE @,
             !.exited = @ \/ ReasonFound(reason),
             !.exit_reason = IF ReasonFound(reason) THEN ExitReason(reason) ELSE @,
             !.gas_value = IF value.state = "Found" THEN Value(value.val) ELSE @,
             !.gas_price = IF price.state = "Found" THEN Value(price.val) ELSE @,
             !.gas_recipient = IF recipient.state = "Found" THEN Value(recipient.val) ELSE @]
  BY <1>1 DEF ParseLine
<1> HIDE DEF event, reason, value, price, recipient
<1>3. l = [ok |-> TRUE, events |-> l.events, exited |-> l.exited, exit_reason |-> l.exit_reason,
           gas_value |-> l.gas_value, gas_price |-> l.gas_price, gas_recipient |-> l.gas_recipient]
  BY DEF LogState
<1>4. ParseLine(l, line) = LineParsed(l, event, reason, value, price, recipient)
  BY <1>2, <1>3 DEF LineParsed
<1> QED
  BY <1>4 DEF event, reason, value, price, recipient

LEMMA Defaults ==
  /\ \A parser \in Parsers : default(parser).state = "Init"
  /\ ~EventFound(default("event")) /\ ~ReasonFound(default("reason"))
  BY DEF default, EventInit, ReasonInit, GasInit, EventFound, ReasonFound

LEMMA SameLog ==
  ASSUME NEW l \in LogState, l.ok
  PROVE  l = [ok |-> TRUE, events |-> l.events, exited |-> l.exited, exit_reason |-> l.exit_reason,
              gas_value |-> l.gas_value, gas_price |-> l.gas_price,
              gas_recipient |-> l.gas_recipient]
  BY DEF LogState

LEMMA QuietLine ==
  ASSUME NEW l \in LogState, l.ok, NEW line,
         \A parser \in Parsers : consume(parser, line) = default(parser)
  PROVE  ParseLine(l, line) = l
<1>1. ParseLine(l, line) =
        LineParsed(l, default("event"), default("reason"), default("value"), default("price"),
                   default("recipient"))
  <2>1. \A parser \in Parsers : consume(parser, line).state # "Err"
    BY Defaults
  <2>2. {"event", "reason", "value", "price", "recipient"} = Parsers
    BY DEF Parsers
  <2> QED
    BY <2>1, <2>2, ParseLineFacts
<1>2. /\ default("value").state # "Found" /\ default("price").state # "Found"
      /\ default("recipient").state # "Found"
  BY Defaults DEF Parsers
<1>3. l.exited \in BOOLEAN
  BY DEF LogState
<1> QED
  BY <1>1, <1>2, <1>3, Defaults, SameLog DEF LineParsed

LEMMA EventParsed ==
  ASSUME NEW l \in LogState, l.ok, NEW e \in Logs
  PROVE  ParseLine(l, EventLine(e)) =
           LogRecord(Append(l.events, e), l.exited, l.exit_reason, l.gas_value, l.gas_price,
                     l.gas_recipient)
<1> DEFINE line == EventLine(e)
<1>1. /\ consume("event", line) = EventRead(e) /\ consume("reason", line) = default("reason")
      /\ consume("value", line) = default("value") /\ consume("price", line) = default("price")
      /\ consume("recipient", line) = default("recipient")
  BY EventLineRead DEF OnlyFor, Parsers
<1> HIDE DEF line
<1>2. EventRead(e).state = "Data" /\ EventFound(EventRead(e)) /\ Event(EventRead(e)) = e
  BY DEF EventRead, EventFound, Event, Logs
<1>3. /\ default("value").state # "Found" /\ default("price").state # "Found"
      /\ default("recipient").state # "Found"
  BY Defaults DEF Parsers
<1>4. \A parser \in Parsers : consume(parser, line).state # "Err"
  BY <1>1, <1>2, Defaults DEF Parsers
<1>5. ParseLine(l, line) =
        LineParsed(l, EventRead(e), default("reason"), default("value"), default("price"),
                   default("recipient"))
  BY <1>1, <1>4, ParseLineFacts
<1>6. l.exited \in BOOLEAN
  BY DEF LogState
<1>7. ParseLine(l, line) =
        [ok |-> TRUE, events |-> Append(l.events, e), exited |-> l.exited,
         exit_reason |-> l.exit_reason, gas_value |-> l.gas_value, gas_price |-> l.gas_price,
         gas_recipient |-> l.gas_recipient]
  BY <1>2, <1>3, <1>5, <1>6, Defaults DEF LineParsed
<1> QED
  BY <1>7 DEF line, LogRecord

LEMMA ExitParsed ==
  ASSUME NEW l \in LogState, l.ok, NEW o \in Results
  PROVE  ParseLine(l, ResultLine("exit", o)) =
           LogRecord(l.events, TRUE, o.exit_reason, l.gas_value, l.gas_price, l.gas_recipient)
<1> DEFINE line == ResultLine("exit", o)
           p == consume("reason", line)
<1>1. p.state # "Err" /\ ReasonFound(p) /\ ExitReason(p) = o.exit_reason /\ OnlyFor("reason", line)
  BY ReasonLineRead
<1> HIDE DEF line
<1>2. /\ consume("event", line) = default("event") /\ consume("value", line) = default("value")
      /\ consume("price", line) = default("price") /\ consume("recipient", line) = default("recipient")
  BY <1>1 DEF OnlyFor, Parsers
<1>3. /\ default("value").state # "Found" /\ default("price").state # "Found"
      /\ default("recipient").state # "Found"
  BY Defaults DEF Parsers
<1>4. \A parser \in Parsers : consume(parser, line).state # "Err"
  BY <1>1, <1>2, Defaults DEF Parsers
<1>5. ParseLine(l, line) =
        LineParsed(l, default("event"), p, default("value"), default("price"), default("recipient"))
  BY <1>2, <1>4, ParseLineFacts
<1>7. ParseLine(l, line) =
        [ok |-> TRUE, events |-> l.events, exited |-> TRUE,
         exit_reason |-> o.exit_reason, gas_value |-> l.gas_value, gas_price |-> l.gas_price,
         gas_recipient |-> l.gas_recipient]
  BY <1>1, <1>3, <1>5, Defaults DEF LineParsed
<1> QED
  BY <1>7 DEF line, LogRecord

LEMMA GasParsed ==
  ASSUME NEW l \in LogState, l.ok, NEW o \in Results
  PROVE  /\ ParseLine(l, ResultLine("value", o)) =
          LogRecord(l.events, l.exited, l.exit_reason, o.gas_value, l.gas_price, l.gas_recipient)
         /\ ParseLine(l, ResultLine("price", o)) =
              LogRecord(l.events, l.exited, l.exit_reason, l.gas_value, o.gas_price, l.gas_recipient)
         /\ o.gas_recipient # NoRecipient =>
              ParseLine(l, ResultLine("recipient", o)) =
                LogRecord(l.events, l.exited, l.exit_reason, l.gas_value, l.gas_price, o.gas_recipient)
         /\ o.gas_recipient = NoRecipient => ParseLine(l, ResultLine("recipient", o)) = l
<1> DEFINE Line(parser) == ResultLine(parser, o)
<1>1. /\ default("value").state # "Found" /\ default("price").state # "Found"
      /\ default("recipient").state # "Found"
  BY Defaults DEF Parsers
<1>2. l.exited \in BOOLEAN
  BY DEF LogState
<1>3. ParseLine(l, Line("value")) =
          LogRecord(l.events, l.exited, l.exit_reason, o.gas_value, l.gas_price, l.gas_recipient)
  <2>1. consume("value", Line("value")) = GasState("Found", Item(32, o.gas_value))
        /\ OnlyFor("value", Line("value"))
    <3>1. /\ Line("value").data /\ Len(Line("value").items) = 2
          /\ Line("value").items[1] = Tag(TagOf("value"))
          /\ Line("value").items[2] = Item(32, o.gas_value)
      BY DEF ResultLine, TagOf
    <3> HIDE DEF Line
    <3> QED
      BY <3>1, GasLineRead
  <2> HIDE DEF Line
  <2>2. /\ consume("event", Line("value")) = default("event")
        /\ consume("reason", Line("value")) = default("reason")
        /\ consume("price", Line("value")) = default("price")
        /\ consume("recipient", Line("value")) = default("recipient")
    BY <2>1 DEF OnlyFor, Parsers
  <2>3. \A parser \in Parsers : consume(parser, Line("value")).state # "Err"
    BY <2>1, <2>2, Defaults DEF Parsers, GasState
  <2>4. Value(Item(32, o.gas_value)) = o.gas_value
    BY DEF Value, Item
  <2>5. ParseLine(l, Line("value")) =
          [ok |-> TRUE, events |-> l.events, exited |-> l.exited,
           exit_reason |-> l.exit_reason, gas_value |-> o.gas_value, gas_price |-> l.gas_price,
           gas_recipient |-> l.gas_recipient]
    BY <1>1, <1>2, <2>1, <2>2, <2>3, <2>4, ParseLineFacts, Defaults DEF LineParsed, GasState
  <2> QED
    BY <2>5 DEF LogRecord
<1>4. ParseLine(l, Line("price")) =
          LogRecord(l.events, l.exited, l.exit_reason, l.gas_value, o.gas_price, l.gas_recipient)
  <2>1. consume("price", Line("price")) = GasState("Found", Item(32, o.gas_price))
        /\ OnlyFor("price", Line("price"))
    <3>1. /\ Line("price").data /\ Len(Line("price").items) = 2
          /\ Line("price").items[1] = Tag(TagOf("price"))
          /\ Line("price").items[2] = Item(32, o.gas_price)
      BY DEF ResultLine, TagOf
    <3> HIDE DEF Line
    <3> QED
      BY <3>1, GasLineRead
  <2> HIDE DEF Line
  <2>2. /\ consume("event", Line("price")) = default("event")
        /\ consume("reason", Line("price")) = default("reason")
        /\ consume("value", Line("price")) = default("value")
        /\ consume("recipient", Line("price")) = default("recipient")
    BY <2>1 DEF OnlyFor, Parsers
  <2>3. \A parser \in Parsers : consume(parser, Line("price")).state # "Err"
    BY <2>1, <2>2, Defaults DEF Parsers, GasState
  <2>4. Value(Item(32, o.gas_price)) = o.gas_price
    BY DEF Value, Item
  <2>5. ParseLine(l, Line("price")) =
          [ok |-> TRUE, events |-> l.events, exited |-> l.exited,
           exit_reason |-> l.exit_reason, gas_value |-> l.gas_value, gas_price |-> o.gas_price,
           gas_recipient |-> l.gas_recipient]
    BY <1>1, <1>2, <2>1, <2>2, <2>3, <2>4, ParseLineFacts, Defaults DEF LineParsed, GasState
  <2> QED
    BY <2>5 DEF LogRecord
<1>5. ASSUME o.gas_recipient # NoRecipient
      PROVE  ParseLine(l, Line("recipient")) =
          LogRecord(l.events, l.exited, l.exit_reason, l.gas_value, l.gas_price, o.gas_recipient)
  <2>1. consume("recipient", Line("recipient")) = GasState("Found", Item(20, o.gas_recipient))
        /\ OnlyFor("recipient", Line("recipient"))
    <3>1. /\ Line("recipient").data /\ Len(Line("recipient").items) = 2
          /\ Line("recipient").items[1] = Tag(TagOf("recipient"))
          /\ Line("recipient").items[2] = Item(20, o.gas_recipient)
      BY <1>5 DEF ResultLine, TagOf
    <3> HIDE DEF Line
    <3> QED
      BY <3>1, GasLineRead
  <2> HIDE DEF Line
  <2>2. /\ consume("event", Line("recipient")) = default("event")
        /\ consume("reason", Line("recipient")) = default("reason")
        /\ consume("value", Line("recipient")) = default("value")
        /\ consume("price", Line("recipient")) = default("price")
    BY <2>1 DEF OnlyFor, Parsers
  <2>3. \A parser \in Parsers : consume(parser, Line("recipient")).state # "Err"
    BY <2>1, <2>2, Defaults DEF Parsers, GasState
  <2>4. Value(Item(20, o.gas_recipient)) = o.gas_recipient
    BY DEF Value, Item
  <2>5. ParseLine(l, Line("recipient")) =
          [ok |-> TRUE, events |-> l.events, exited |-> l.exited,
           exit_reason |-> l.exit_reason, gas_value |-> l.gas_value, gas_price |-> l.gas_price,
           gas_recipient |-> o.gas_recipient]
    BY <1>1, <1>2, <2>1, <2>2, <2>3, <2>4, ParseLineFacts, Defaults DEF LineParsed, GasState
  <2> QED
    BY <2>5 DEF LogRecord
<1>6. ASSUME o.gas_recipient = NoRecipient PROVE ParseLine(l, Line("recipient")) = l
  <2>1. Line("recipient").data /\ Line("recipient").items = <<>>
    BY <1>6 DEF ResultLine
  <2> HIDE DEF Line
  <2>2. Len(Line("recipient").items) = 0
    BY <2>1
  <2>3. Len(Line("recipient").items) \in Nat /\ OneTag(Line("recipient"), "")
    <3>1. Len(Line("recipient").items) \in Nat
      BY <2>2
    <3>2. \A i \in 1 .. Len(Line("recipient").items) : Line("recipient").items[i][2] \in {"", ""}
      <4>1. \A i \in 1 .. 0 : FALSE
        OBVIOUS
      <4> QED
        BY <2>2, <4>1, Zenon
    <3> QED
      BY <3>1, <3>2, Zenon DEF OneTag
  <2>4. \A parser \in Parsers : consume(parser, Line("recipient")) = default(parser)
    BY <2>3, NoTag
  <2> QED
    BY <2>4, QuietLine
<1> QED
  BY <1>3, <1>4, <1>5, <1>6

LEMMA OthersParsed ==
  ASSUME NEW l \in LogState, l.ok
  PROVE  ParseLine(l, OtherLine) = l /\ ParseLine(l, TextLine) = l
<1>1. \A parser \in Parsers : consume(parser, OtherLine) = default(parser)
  <2>1. /\ Len(OtherLine.items) = 2 /\ OtherLine.items[1] = Item(20, 9)
        /\ OtherLine.items[2] = Item(32, 9)
    BY DEF OtherLine
  <2>2. Item(20, 9)[2] = "" /\ Item(32, 9)[2] = ""
    BY DEF Item
  <2>3. \A i \in 1 .. 2 : OtherLine.items[i][2] \in {"", ""}
    <3>1. OtherLine.items[1][2] = "" /\ OtherLine.items[2][2] = ""
      BY <2>1, <2>2
    <3>2. \A i \in 1 .. 2 : i = 1 \/ i = 2
      OBVIOUS
    <3> QED
      BY <3>1, <3>2
  <2>4. OneTag(OtherLine, "") /\ Len(OtherLine.items) \in Nat
    <3>1. Len(OtherLine.items) = 2
      BY <2>1
    <3>2. Len(OtherLine.items) \in Nat
      BY <3>1
    <3>3. \A i \in 1 .. Len(OtherLine.items) : OtherLine.items[i][2] \in {"", ""}
      BY <3>1, <2>3
    <3> QED
      BY <3>2, <3>3, Zenon DEF OneTag
  <2> QED
    BY <2>4, NoTag
<1>2. \A parser \in Parsers : consume(parser, TextLine) = default(parser)
  <2>1. Len(TextLine.items) \in Nat /\ ~TextLine.data
    BY DEF TextLine
  <2> QED
    BY <2>1, NoTag
<1> QED
  BY <1>1, <1>2, QuietLine

-----------------------------------------------------------------------------
(* A log, whole or cut.                                                    *)

Kinds == Report \cup {"other", "text"}

LEMMA LinesFacts ==
  ASSUME NEW o \in Results, NEW order \in Seq(Kinds)
  PROVE  LET n == Len(o.logs)
         IN  /\ n \in Nat /\ Len(order) \in Nat /\ Len(Lines(o, order)) = 1 + n + Len(order)
             /\ Lines(o, order)[1] = OtherLine
             /\ \A i \in 1 .. n : Lines(o, order)[1 + i] = EventLine(o.logs[i])
             /\ \A i \in 1 .. Len(order) : Lines(o, order)[1 + n + i] = LineOf(order[i], o)
             /\ \E S : Lines(o, order) \in Seq(S)
<1> DEFINE n == Len(o.logs)
           q == Len(order)
           events == [i \in DOMAIN o.logs |-> EventLine(o.logs[i])]
           rest == [i \in DOMAIN order |-> LineOf(order[i], o)]
           S == {OtherLine} \cup {EventLine(o.logs[i]) : i \in 1 .. n}
                  \cup {LineOf(order[i], o) : i \in 1 .. q}
           head == <<OtherLine>>
           front == head \o events
<1>1. o.logs \in Seq(Logs)
  BY DEF Results
<1>2. n \in Nat /\ q \in Nat /\ DOMAIN o.logs = 1 .. n /\ DOMAIN order = 1 .. q
  BY <1>1
<1>3. head \in Seq(S) /\ Len(head) = 1 /\ head[1] = OtherLine
  OBVIOUS
<1>4. events \in Seq(S) /\ Len(events) = n /\ \A i \in 1 .. n : events[i] = EventLine(o.logs[i])
  BY <1>2
<1>5. rest \in Seq(S) /\ Len(rest) = q /\ \A i \in 1 .. q : rest[i] = LineOf(order[i], o)
  BY <1>2
<1>6. Lines(o, order) = front \o rest
  BY DEF Lines
<1> HIDE DEF S, head, events, rest
<1>7. /\ front \in Seq(S) /\ Len(front) = 1 + n /\ front[1] = OtherLine
      /\ \A i \in 1 .. n : front[1 + i] = events[i]
  <2>1. /\ front \in Seq(S) /\ Len(front) = Len(head) + Len(events)
        /\ \A i \in 1 .. Len(head) : front[i] = head[i]
        /\ \A i \in 1 .. Len(events) : front[Len(head) + i] = events[i]
    <3>1. head \in Seq(S) /\ events \in Seq(S)
      BY <1>3, <1>4
    <3> QED
      BY <3>1, Joined
  <2> HIDE DEF front
  <2>2. 1 \in 1 .. 1
    OBVIOUS
  <2> QED
    BY <1>3, <1>4, <2>1, <2>2
<1> HIDE DEF front
<1>8. /\ front \o rest \in Seq(S) /\ Len(front \o rest) = Len(front) + Len(rest)
      /\ \A i \in 1 .. Len(front) : (front \o rest)[i] = front[i]
      /\ \A i \in 1 .. Len(rest) : (front \o rest)[Len(front) + i] = rest[i]
  <2>1. front \in Seq(S) /\ rest \in Seq(S)
    BY <1>5, <1>7
  <2> QED
    BY <2>1, Joined
<1>9. 1 \in 1 .. (1 + n) /\ \A i \in 1 .. n : 1 + i \in 1 .. (1 + n)
  BY <1>2
<1>10. (front \o rest)[1] = OtherLine
  BY <1>7, <1>8, <1>9
<1>11. \A i \in 1 .. n : (front \o rest)[1 + i] = EventLine(o.logs[i])
  BY <1>4, <1>7, <1>8, <1>9
<1>12. \A i \in 1 .. q : (front \o rest)[1 + n + i] = LineOf(order[i], o)
  BY <1>5, <1>7, <1>8
<1>13. Len(front \o rest) = 1 + n + q
  BY <1>5, <1>7, <1>8
<1>14. \E T : front \o rest \in Seq(T)
  BY <1>8
<1> QED
  BY <1>2, <1>6, <1>10, <1>11, <1>12, <1>13, <1>14

(* What is known after k lines.                                            *)
Seen(o, order, kind, k) ==
  \E i \in 1 .. Len(order) : order[i] = kind /\ 1 + Len(o.logs) + i <= k

EventsBy(o, k) == IF k = 0 THEN 0 ELSE IF k <= 1 + Len(o.logs) THEN k - 1 ELSE Len(o.logs)

After(o, order, k) ==
  LogRecord(SubSeq(o.logs, 1, EventsBy(o, k)),
            Seen(o, order, "exit", k),
            IF Seen(o, order, "exit", k) THEN o.exit_reason ELSE NoReason,
            IF Seen(o, order, "value", k) THEN o.gas_value ELSE 0,
            IF Seen(o, order, "price", k) THEN o.gas_price ELSE 0,
            IF Seen(o, order, "recipient", k) THEN o.gas_recipient ELSE NoRecipient)

LEMMA AfterType ==
  ASSUME NEW o \in Results, NEW order \in Seq(Kinds), NEW k \in Nat
  PROVE  After(o, order, k) \in LogState /\ After(o, order, k).ok
<1>1. /\ o.logs \in Seq(Logs) /\ o.exit_reason \in [code : Items, reason : Items, return_value : Items]
      /\ o.gas_value \in Nat /\ o.gas_price \in Nat /\ o.gas_recipient \in Nat
  BY DEF Results, Reasons, ItemsOf
<1>2. NoReason \in [code : Items, reason : Items, return_value : Items]
  BY DEF NoReason, ExitReason, ReasonInit, NoItem, Item, Items
<1>3. EventsBy(o, k) \in 0 .. Len(o.logs)
  BY <1>1 DEF EventsBy
<1>4. SubSeq(o.logs, 1, EventsBy(o, k)) \in Seq(Logs)
  <2>1. EventsBy(o, k) \in Int /\ 1 \in Int /\ \A i \in 1 .. EventsBy(o, k) : o.logs[i] \in Logs
    BY <1>1, <1>3
  <2> QED
    BY <2>1, SubSeqProperties
<1>5. \A kind : Seen(o, order, kind, k) \in BOOLEAN
  BY DEF Seen
<1> QED
  BY <1>1, <1>2, <1>4, <1>5 DEF After, LogRecord, LogState, NoRecipient

(* The lines before those after the events.                                *)
LEMMA SeenStep ==
  ASSUME NEW o \in Results, NEW order \in Seq(Kinds), NEW k \in Nat, NEW kind
  PROVE  /\ k <= 1 + Len(o.logs) => ~Seen(o, order, kind, k)
         /\ \A j \in 1 .. Len(order) : k = 1 + Len(o.logs) + j =>
              (Seen(o, order, kind, k) <=> Seen(o, order, kind, k - 1) \/ order[j] = kind)
<1>1. Len(o.logs) \in Nat /\ Len(order) \in Nat
  BY DEF Results
<1>2. ASSUME k <= 1 + Len(o.logs) PROVE ~Seen(o, order, kind, k)
  BY <1>1, <1>2 DEF Seen
<1>3. ASSUME NEW j \in 1 .. Len(order), k = 1 + Len(o.logs) + j
      PROVE  Seen(o, order, kind, k) <=> Seen(o, order, kind, k - 1) \/ order[j] = kind
  <2>1. ASSUME Seen(o, order, kind, k) PROVE Seen(o, order, kind, k - 1) \/ order[j] = kind
    <3>1. PICK i \in 1 .. Len(order) : order[i] = kind /\ 1 + Len(o.logs) + i <= k
      BY <2>1 DEF Seen
    <3>2. i = j \/ 1 + Len(o.logs) + i <= k - 1
      BY <1>1, <1>3, <3>1
    <3> QED
      BY <3>1, <3>2 DEF Seen
  <2>2. ASSUME Seen(o, order, kind, k - 1) PROVE Seen(o, order, kind, k)
    <3>1. PICK i \in 1 .. Len(order) : order[i] = kind /\ 1 + Len(o.logs) + i <= k - 1
      BY <2>2 DEF Seen
    <3>2. 1 + Len(o.logs) + i <= k
      BY <1>1, <3>1
    <3> QED
      BY <3>1, <3>2 DEF Seen
  <2>3. ASSUME order[j] = kind PROVE Seen(o, order, kind, k)
    <3>1. 1 + Len(o.logs) + j <= k
      BY <1>1, <1>3
    <3> QED
      BY <2>3, <3>1 DEF Seen
  <2> QED
    BY <2>1, <2>2, <2>3
<1> QED
  BY <1>2, <1>3

LEMMA AfterStep ==
  ASSUME NEW o \in Results, NEW order \in Seq(Kinds), NEW k \in 1 .. Len(Lines(o, order))
  PROVE  After(o, order, k) = ParseLine(After(o, order, k - 1), Lines(o, order)[k])
<1> DEFINE n == Len(o.logs)
           l == After(o, order, k - 1)
           line == Lines(o, order)[k]
<1>1. /\ n \in Nat /\ Len(order) \in Nat /\ Len(Lines(o, order)) = 1 + n + Len(order)
      /\ Lines(o, order)[1] = OtherLine
      /\ \A i \in 1 .. n : Lines(o, order)[1 + i] = EventLine(o.logs[i])
      /\ \A i \in 1 .. Len(order) : Lines(o, order)[1 + n + i] = LineOf(order[i], o)
  BY LinesFacts
<1>2. k \in Nat /\ k - 1 \in Nat
  BY <1>1
<1>3. l \in LogState /\ l.ok
  BY <1>2, AfterType
<1>4. o.logs \in Seq(Logs) /\ o.gas_recipient \in Nat
  BY DEF Results
<1>5. CASE k = 1
  <2>1. line = OtherLine
    BY <1>1, <1>5
  <2>2. \A kind : ~Seen(o, order, kind, k) /\ ~Seen(o, order, kind, k - 1)
    <3>1. k <= 1 + Len(o.logs) /\ k - 1 <= 1 + Len(o.logs)
      BY <1>1, <1>5
    <3> QED
      BY <1>2, <3>1, SeenStep
  <2>3. EventsBy(o, k) = EventsBy(o, k - 1)
    BY <1>1, <1>5 DEF EventsBy
  <2>4. After(o, order, k) = l
    <3>1. Seen(o, order, "exit", k) = Seen(o, order, "exit", k - 1)
      BY <2>2 DEF Seen
    <3> QED
      BY <2>2, <2>3, <3>1 DEF After
  <2> HIDE DEF l, line
  <2>5. ParseLine(l, line) = l
    BY <1>3, <2>1, OthersParsed
  <2> QED
    BY <2>4, <2>5 DEF l, line
<1>6. CASE k > 1 /\ k <= 1 + n
  <2> DEFINE i == k - 1
             e == o.logs[i]
  <2>1. i \in 1 .. n /\ 1 + i = k
    BY <1>1, <1>6
  <2>2. line = EventLine(e) /\ e \in Logs
    BY <1>1, <1>4, <2>1
  <2>3. \A kind : ~Seen(o, order, kind, k) /\ ~Seen(o, order, kind, k - 1)
    <3>1. k <= 1 + Len(o.logs) /\ k - 1 <= 1 + Len(o.logs)
      BY <1>1, <1>2, <1>6
    <3> QED
      BY <1>2, <3>1, SeenStep
  <2>4. EventsBy(o, k) = i /\ EventsBy(o, k - 1) = i - 1
    BY <1>1, <1>2, <1>6 DEF EventsBy
  <2>5. Append(SubSeq(o.logs, 1, i - 1), e) = SubSeq(o.logs, 1, i)
    <3>1. i \in 1 .. Len(o.logs)
      BY <2>1
    <3> HIDE DEF i
    <3> QED
      BY <1>4, <3>1, FirstElements
  <2>6. l = LogRecord(SubSeq(o.logs, 1, i - 1), Seen(o, order, "exit", k - 1), NoReason, 0, 0, NoRecipient)
    BY <2>3, <2>4 DEF After
  <2>7. After(o, order, k) =
          LogRecord(SubSeq(o.logs, 1, i), Seen(o, order, "exit", k), NoReason, 0, 0, NoRecipient)
    BY <2>3, <2>4 DEF After
  <2>8. Seen(o, order, "exit", k - 1) = Seen(o, order, "exit", k)
    BY <2>3 DEF Seen
  <2> DEFINE before == Seen(o, order, "exit", k - 1)
  <2>9. /\ l.events = SubSeq(o.logs, 1, i - 1) /\ l.exited = before
        /\ l.exit_reason = NoReason /\ l.gas_value = 0 /\ l.gas_price = 0
        /\ l.gas_recipient = NoRecipient
    <3> HIDE DEF before, i
    <3>1. l = LogRecord(SubSeq(o.logs, 1, i - 1), before, NoReason, 0, 0, NoRecipient)
      BY <2>6 DEF before, i
    <3> HIDE DEF l
    <3> QED
      BY <3>1 DEF LogRecord
  <2> HIDE DEF l, line, i, e, before
  <2>10. ParseLine(l, line) =
           LogRecord(Append(l.events, e), l.exited, l.exit_reason, l.gas_value, l.gas_price,
                     l.gas_recipient)
    BY <1>3, <2>2, EventParsed
  <2>11. ParseLine(l, line) = LogRecord(SubSeq(o.logs, 1, i), before, NoReason, 0, 0, NoRecipient)
    BY <2>5, <2>9, <2>10
  <2> QED
    BY <2>7, <2>8, <2>11 DEF l, line, before
<1>7. CASE k > 1 + n
  <2> DEFINE j == k - 1 - n
             kind == order[j]
             events == SubSeq(o.logs, 1, n)
  <2>1. j \in 1 .. Len(order) /\ 1 + n + j = k /\ k = 1 + n + j
    BY <1>1, <1>2, <1>7
  <2>2. line = LineOf(kind, o)
    BY <1>1, <2>1
  <2>3. kind \in Kinds
    <3> HIDE DEF j
    <3> QED
      BY <2>1, ElementOfSeq
  <2>4. \A q : Seen(o, order, q, k) <=> Seen(o, order, q, k - 1) \/ kind = q
    <3> HIDE DEF j
    <3>1. j \in 1 .. Len(order) /\ k = 1 + Len(o.logs) + j
      BY <2>1
    <3> QED
      BY <1>2, <3>1, SeenStep
  <2>5. EventsBy(o, k) = n /\ EventsBy(o, k - 1) = n
    BY <1>1, <1>2, <1>7 DEF EventsBy
  <2> DEFINE X(q) == Seen(o, order, q, k - 1)
  <2>6. l = LogRecord(events, X("exit"), IF X("exit") THEN o.exit_reason ELSE NoReason,
                      IF X("value") THEN o.gas_value ELSE 0, IF X("price") THEN o.gas_price ELSE 0,
                      IF X("recipient") THEN o.gas_recipient ELSE NoRecipient)
    BY <2>5 DEF After
  <2>7. After(o, order, k) =
          LogRecord(events, Seen(o, order, "exit", k),
                    IF X("exit") \/ kind = "exit" THEN o.exit_reason ELSE NoReason,
                    IF X("value") \/ kind = "value" THEN o.gas_value ELSE 0,
                    IF X("price") \/ kind = "price" THEN o.gas_price ELSE 0,
                    IF X("recipient") \/ kind = "recipient" THEN o.gas_recipient ELSE NoRecipient)
    BY <2>4, <2>5 DEF After
  <2>8. \A q : X(q) \in BOOLEAN /\ Seen(o, order, q, k) \in BOOLEAN
    BY DEF Seen
  <2>9. \A q : Seen(o, order, q, k) = (X(q) \/ kind = q)
    BY <2>4, <2>8, Zenon
  <2> HIDE DEF X, l, line, j, kind, events
  <2>10. /\ l.events = events /\ l.exited = X("exit")
         /\ l.exit_reason = (IF X("exit") THEN o.exit_reason ELSE NoReason)
         /\ l.gas_value = (IF X("value") THEN o.gas_value ELSE 0)
         /\ l.gas_price = (IF X("price") THEN o.gas_price ELSE 0)
         /\ l.gas_recipient = (IF X("recipient") THEN o.gas_recipient ELSE NoRecipient)
    BY <2>6 DEF LogRecord
  <2>11. After(o, order, k) = ParseLine(l, line)
    <3>1. CASE kind \in {"other", "text"}
      <4>1. line = OtherLine \/ line = TextLine
        BY <2>2, <3>1 DEF LineOf
      <4>2. ParseLine(l, line) = l
        BY <1>3, <4>1, OthersParsed
      <4>3. Seen(o, order, "exit", k) = X("exit")
        BY <2>8, <2>9, <3>1
      <4> QED
        BY <2>6, <2>7, <3>1, <4>2, <4>3
    <3>2. CASE kind = "exit"
      <4>1. line = ResultLine("exit", o)
        BY <2>2, <3>2 DEF LineOf
      <4>2. ParseLine(l, line) =
              LogRecord(l.events, TRUE, o.exit_reason, l.gas_value, l.gas_price, l.gas_recipient)
        BY <1>3, <4>1, ExitParsed
      <4>3. Seen(o, order, "exit", k) = TRUE
        BY <2>8, <2>9, <3>2
      <4> QED
        BY <2>7, <2>10, <3>2, <4>2, <4>3
    <3>3. CASE kind = "value"
      <4>1. line = ResultLine("value", o)
        BY <2>2, <3>3 DEF LineOf
      <4>2. ParseLine(l, line) =
              LogRecord(l.events, l.exited, l.exit_reason, o.gas_value, l.gas_price, l.gas_recipient)
        BY <1>3, <4>1, GasParsed
      <4>3. Seen(o, order, "exit", k) = X("exit")
        BY <2>8, <2>9, <3>3
      <4> QED
        BY <2>7, <2>10, <3>3, <4>2, <4>3
    <3>4. CASE kind = "price"
      <4>1. line = ResultLine("price", o)
        BY <2>2, <3>4 DEF LineOf
      <4>2. ParseLine(l, line) =
              LogRecord(l.events, l.exited, l.exit_reason, l.gas_value, o.gas_price, l.gas_recipient)
        BY <1>3, <4>1, GasParsed
      <4>3. Seen(o, order, "exit", k) = X("exit")
        BY <2>8, <2>9, <3>4
      <4> QED
        BY <2>7, <2>10, <3>4, <4>2, <4>3
    <3>5. CASE kind = "recipient"
      <4>1. line = ResultLine("recipient", o)
        BY <2>2, <3>5 DEF LineOf
      <4>2. ParseLine(l, line) =
              LogRecord(l.events, l.exited, l.exit_reason, l.gas_value, l.gas_price, o.gas_recipient)
        <5>1. CASE o.gas_recipient # NoRecipient
          BY <1>3, <4>1, <5>1, GasParsed
        <5>2. CASE o.gas_recipient = NoRecipient
          <6>1. ParseLine(l, line) = l
            BY <1>3, <4>1, <5>2, GasParsed
          <6>2. l.gas_recipient = o.gas_recipient
            BY <2>10, <5>2
          <6>3. l = LogRecord(l.events, l.exited, l.exit_reason, l.gas_value, l.gas_price,
                              l.gas_recipient)
            BY <1>3, SameLog DEF LogRecord
          <6> QED
            BY <6>1, <6>2, <6>3
        <5> QED
          BY <5>1, <5>2
      <4>3. Seen(o, order, "exit", k) = X("exit")
        BY <2>8, <2>9, <3>5
      <4> QED
        BY <2>7, <2>10, <3>5, <4>2, <4>3
    <3> QED
      BY <2>3, <3>1, <3>2, <3>3, <3>4, <3>5 DEF Kinds, Report
  <2> QED
    BY <2>11 DEF l, line
<1> QED
  BY <1>1, <1>2, <1>5, <1>6, <1>7

(* A log cut after any number of lines.                                    *)
LEMMA ParseLog ==
  ASSUME NEW o \in Results, NEW order \in Seq(Kinds), NEW ls,
         Len(ls) \in 0 .. Len(Lines(o, order)),
         \A k \in 1 .. Len(ls) : ls[k] = Lines(o, order)[k]
  PROVE  parse(ls) = After(o, order, Len(ls))
<1> DEFINE m == Len(ls)
           parsed[k \in 0 .. m] == IF k = 0 THEN NewLogParser ELSE ParseLine(parsed[k - 1], ls[k])
           Eq(f) == f = [k \in 0 .. m |-> IF k = 0 THEN NewLogParser ELSE ParseLine(f[k - 1], ls[k])]
           h == [k \in 0 .. m |-> After(o, order, k)]
<1>1. parse(ls) = parsed[m]
  BY DEF parse
<1>2. Len(Lines(o, order)) \in Nat
  BY LinesFacts
<1>3. m \in Nat
  BY <1>2
<1>4. After(o, order, 0) = NewLogParser
  <2>1. \A kind : ~Seen(o, order, kind, 0)
    <3>1. 0 \in Nat /\ 0 <= 1 + Len(o.logs)
      BY DEF Results
    <3> QED
      BY <3>1, SeenStep
  <2>2. SubSeq(o.logs, 1, EventsBy(o, 0)) = <<>>
    <3>1. o.logs \in Seq(Logs) /\ EventsBy(o, 0) = 0
      BY DEF Results, EventsBy
    <3> QED
      BY <3>1, FirstElements
  <2>3. Seen(o, order, "exit", 0) = FALSE
    BY <2>1 DEF Seen
  <2> QED
    BY <2>1, <2>2, <2>3 DEF After, LogRecord, NewLogParser
<1>5. ASSUME NEW k \in 1 .. m
      PROVE  After(o, order, k) = ParseLine(After(o, order, k - 1), ls[k])
  <2>1. k \in 1 .. Len(Lines(o, order))
    BY <1>2
  <2> QED
    BY <2>1, AfterStep
<1>6. Eq(h)
  <2> DEFINE e(k) == IF k = 0 THEN NewLogParser ELSE ParseLine(h[k - 1], ls[k])
  <2>1. ASSUME NEW k \in 0 .. m PROVE h[k] = e(k)
    <3>1. CASE k = 0
      BY <1>4, <3>1
    <3>2. CASE k # 0
      <4>1. k \in 1 .. m /\ k - 1 \in 0 .. m
        BY <1>3, <3>2
      <4> QED
        BY <1>5, <3>2, <4>1
    <3> QED
      BY <3>1, <3>2
  <2> HIDE DEF e
  <2>2. h = [k \in 0 .. m |-> e(k)]
    BY <2>1
  <2> QED
    BY <2>2 DEF e
<1>7. Eq(CHOOSE f : Eq(f))
  BY <1>6, Zenon
<1>8. Eq(parsed)
  BY <1>7, Zenon
<1> HIDE DEF parsed, m
<1>9. parsed[0] = h[0]
  <2>1. 0 \in 0 .. m
    BY <1>3
  <2>2. parsed[0] = NewLogParser
    BY <1>8, <2>1
  <2> QED
    BY <1>4, <2>1, <2>2
<1>10. \A k \in 1 .. m : parsed[k - 1] = h[k - 1] => parsed[k] = h[k]
  <2> SUFFICES ASSUME NEW k \in 1 .. m, parsed[k - 1] = h[k - 1] PROVE parsed[k] = h[k]
    OBVIOUS
  <2>1. k \in 0 .. m /\ k - 1 \in 0 .. m /\ k # 0
    BY <1>3
  <2>2. parsed[k] = ParseLine(parsed[k - 1], ls[k])
    BY <1>8, <2>1
  <2>3. h[k] = After(o, order, k) /\ h[k - 1] = After(o, order, k - 1)
    BY <2>1
  <2> HIDE DEF h
  <2> QED
    BY <1>5, <2>2, <2>3
<1>11. h[m] = After(o, order, m)
  BY <1>3
<1> HIDE DEF h
<1>12. \A k \in 0 .. m : parsed[k] = h[k]
  <2>1. Alike(parsed, h, m)
    BY <1>9, <1>10 DEF Alike
  <2>2. Equal(parsed, h, m)
    BY <1>3, <2>1, AlikeEqual, Zenon
  <2> QED
    BY <2>2 DEF Equal
<1>13. parsed[m] = After(o, order, m)
  BY <1>3, <1>11, <1>12
<1> QED
  BY <1>1, <1>13 DEF m

(* A log that is whole gives back the result that was executed; a cut one  *)
(* nothing, or a result with the same exit reason.                         *)
LEMMA WholeLog ==
  ASSUME NEW o \in Outcomes, NEW order \in Orders
  PROVE  parse_transaction_meta(Lines(o, order)) = {o}
<1> DEFINE ls == Lines(o, order)
           l == After(o, order, Len(ls))
<1>1. o \in Results /\ order \in Seq(Kinds)
      /\ \A kind \in Report : \E i \in DOMAIN order : order[i] = kind
  BY SlotBlocksAssumption DEF Kinds
<1>2. Len(o.logs) \in Nat /\ Len(order) \in Nat /\ Len(ls) = 1 + Len(o.logs) + Len(order)
  BY <1>1, LinesFacts
<1>3. parse(ls) = l
  <2>1. Len(ls) \in 0 .. Len(ls)
    BY <1>2
  <2> QED
    BY <1>1, <2>1, ParseLog
<1>4. \A kind \in Report : Seen(o, order, kind, Len(ls))
  <2> SUFFICES ASSUME NEW kind \in Report PROVE Seen(o, order, kind, Len(ls))
    OBVIOUS
  <2>1. PICK i \in DOMAIN order : order[i] = kind
    BY <1>1
  <2>2. i \in 1 .. Len(order)
    BY <1>1
  <2>3. 1 + Len(o.logs) + i <= Len(ls)
    BY <1>2, <2>2
  <2> QED
    BY <2>1, <2>2, <2>3 DEF Seen
<1>5. SubSeq(o.logs, 1, EventsBy(o, Len(ls))) = o.logs
  <2>1. EventsBy(o, Len(ls)) = Len(o.logs) /\ o.logs \in Seq(Logs)
    BY <1>1, <1>2 DEF EventsBy, Results
  <2> QED
    BY <2>1, FirstElements
<1>6. Seen(o, order, "exit", Len(ls)) = TRUE
  BY <1>4 DEF Report, Seen
<1>7. l = LogRecord(o.logs, TRUE, o.exit_reason, o.gas_value, o.gas_price, o.gas_recipient)
  BY <1>4, <1>5, <1>6 DEF After, Report
<1>8. o = TxResult(o.exit_reason, o.logs, o.gas_value, o.gas_price, o.gas_recipient)
  BY <1>1 DEF Results, TxResult
<1> HIDE DEF ls, l
<1>9. parse_transaction_meta(ls) = {o}
  BY <1>3, <1>7, <1>8 DEF parse_transaction_meta, ResultIn, LogRecord, TxResult
<1> QED
  BY <1>9 DEF ls

LEMMA CutLog ==
  ASSUME NEW o \in Outcomes, NEW order \in Orders, NEW k \in Nat, k < Len(Lines(o, order))
  PROVE  \A r \in parse_transaction_meta(SubSeq(Lines(o, order), 1, k)) :
           r \in Results /\ r.exit_reason = o.exit_reason
<1> DEFINE all == Lines(o, order)
           ls == SubSeq(all, 1, k)
           l == After(o, order, k)
<1>1. o \in Results /\ order \in Seq(Kinds)
  BY SlotBlocksAssumption DEF Kinds
<1>2. Len(all) \in Nat /\ \E S : all \in Seq(S)
  BY <1>1, LinesFacts
<1>3. PICK S : all \in Seq(S)
  BY <1>2
<1>4. Len(ls) = k /\ \A i \in 1 .. k : ls[i] = all[i]
  <2>1. 1 \in Int /\ k \in Int /\ \A i \in 1 .. k : all[i] \in S
    BY <1>2, <1>3
  <2>2. /\ Len(ls) = IF 1 <= k THEN k - 1 + 1 ELSE 0
        /\ \A i \in 1 .. k - 1 + 1 : ls[i] = all[1 + i - 1]
    BY <2>1, SubSeqProperties
  <2> HIDE DEF ls, all
  <2>3. k - 1 + 1 = k /\ \A i \in 1 .. k : 1 + i - 1 = i
    OBVIOUS
  <2> QED
    BY <2>2, <2>3
<1>5. parse(ls) = l
  <2>1. Len(ls) \in 0 .. Len(all) /\ \A i \in 1 .. Len(ls) : ls[i] = all[i]
    BY <1>2, <1>4
  <2> HIDE DEF ls
  <2> QED
    BY <1>1, <1>4, <2>1, ParseLog
<1>6. l \in LogState
  BY <1>1, AfterType
<1> SUFFICES ASSUME NEW r \in parse_transaction_meta(ls)
             PROVE  r \in Results /\ r.exit_reason = o.exit_reason
  OBVIOUS
<1>7. l.exited = Seen(o, order, "exit", k)
      /\ l.exit_reason = IF Seen(o, order, "exit", k) THEN o.exit_reason ELSE NoReason
  BY DEF After, LogRecord
<1> HIDE DEF ls, l
<1>8. l.exited /\ r = TxResult(l.exit_reason, l.events, l.gas_value, l.gas_price, l.gas_recipient)
  BY <1>5 DEF parse_transaction_meta, ResultIn
<1>9. l.exit_reason = o.exit_reason
  BY <1>7, <1>8
<1>10. o.exit_reason \in Reasons
  BY <1>1 DEF Results
<1> QED
  BY <1>6, <1>8, <1>9, <1>10 DEF LogState, TxResult, Results

-----------------------------------------------------------------------------
(* The inductive invariant.                                                *)

IsSeq(s) == \E S : s \in Seq(S)

(* A transaction executed in one of the first t turns.                     *)
GoodEntry(e, t) ==
  \/ /\ e.tx = RollupTx(e.tx.id) /\ e.tx.id \in 1 .. t
     /\ e.whole => ResultOf(e) = {e.outcome}
     /\ \A r \in ResultOf(e) : r.exit_reason = e.outcome.exit_reason /\ r.gas_value \in Nat
  \/ e.tx = DepositTx(e.tx.id)

(* No rollup transaction is in both.                                       *)
Apart(exe, others) ==
  \A i \in DOMAIN exe, j \in DOMAIN others : exe[i].tx.type = "rollup" => exe[i].tx # others[j].tx

Executed(exe, t) ==
  /\ \A i \in DOMAIN exe : GoodEntry(exe[i], t)
  /\ \A i, j \in DOMAIN exe : exe[i].tx.type = "rollup" /\ exe[i].tx = exe[j].tx => i = j

(* Transactions before and after the round of create_eth_blocks.           *)
FreshTx(tx, s) ==
  tx = RollupTx(tx.id) \/ tx = DepositTx(tx.id) \/ tx = create_l1_attributes_tx(s, s)
FinalTx(tx, s) ==
  \/ tx = RollupTx(tx.id)
  \/ tx.type = "deposit" /\ tx.source = create_user_deposit_source_hash(s, tx.source.n)
  \/ tx = create_l1_attributes_tx(s, s)

(* No two transactions have both type and content in common.               *)
Distinct(txs) ==
  \A k, l \in DOMAIN txs : txs[k].tx.type = txs[l].tx.type /\ txs[k].tx.id = txs[l].tx.id => k = l

SlotDone(mode, h, s, t) ==
  /\ Executed(h.executed, t)
  /\ IsSeq(h.transactions) /\ IsSeq(h.eth_blocks)
  /\ Reported(h.executed, h.transactions)
  /\ Partitioned(mode, h.transactions, h.eth_blocks)
  /\ Distinct(h.transactions)
  /\ \A k \in DOMAIN h.transactions : FinalTx(h.transactions[k].tx, s)

SlotOpen(exe, txs, p, s) ==
  /\ IsSeq(txs) /\ p \in 1 .. (Len(txs) + 1)
  /\ \A k \in DOMAIN txs : /\ txs[k] = [tx |-> txs[k].tx, result |-> txs[k].result]
                           /\ txs[k].result.gas_value \in Nat
                           /\ IF k < p THEN FinalTx(txs[k].tx, s) ELSE FreshTx(txs[k].tx, s)
  /\ Reported(exe, txs)
  /\ Distinct(txs)

(* The blocks and the block at hand after the transactions before p.       *)
Built(mode, txs, p, blocks, cut, btxs, gas, recipient) ==
  LET c == cut[Len(blocks)]
  IN  /\ cut \in [0 .. Len(blocks) -> 0 .. (p - 1)]
      /\ CutInto(mode, txs, blocks, cut)
      /\ btxs = [k \in 1 .. (p - 1 - c) |-> txs[c + k].tx]
      /\ gas = GasUpTo(txs)[p - 1] - GasUpTo(txs)[c]
      /\ mode = "EngineApi" => \A k \in (c + 1) .. (p - 1) : txs[k].result.gas_recipient = recipient

(* Where a block ends, the recipient changes.                              *)
Changes(mode, blocks, btxs, recipient) ==
  /\ btxs = <<>> => blocks = <<>>
  /\ mode = "SingleState" => blocks = <<>>
  /\ mode = "EngineApi" =>
       /\ \A b \in 2 .. Len(blocks) : blocks[b].gas_recipient # blocks[b - 1].gas_recipient
       /\ blocks # <<>> => blocks[Len(blocks)].gas_recipient # recipient

BlocksInv ==
  /\ SlotOpen(executed, transactions, pos, slot)
  /\ IsSeq(eth_blocks)
  /\ \E cut : Built(parse_mode, transactions, pos, eth_blocks, cut, block_txs, block_gas_used, gas_recipient)
  /\ Changes(parse_mode, eth_blocks, block_txs, gas_recipient)

HistoryInv ==
  /\ DOMAIN history = 1 .. (IF stage = "done" THEN slot ELSE slot - 1)
  /\ \A s \in DOMAIN history : /\ SlotDone(parse_mode, history[s], s, turn)
                               /\ Apart(history[s].executed, executed)
  /\ \A s, t \in DOMAIN history : s # t => Apart(history[s].executed, history[t].executed)

SlotInv ==
  /\ parse_mode \in {"EngineApi", "SingleState"} /\ stage \in {"execute", "blocks", "done"}
  /\ slot \in 1 .. MaxSlot /\ turn \in Nat
  /\ IsSeq(executed) /\ Executed(executed, turn)
  /\ stage = "blocks" => BlocksInv
  /\ HistoryInv

LEMMA SeqFacts ==
  ASSUME NEW s, IsSeq(s)
  PROVE  Len(s) \in Nat /\ DOMAIN s = 1 .. Len(s)
<1>1. PICK S : s \in Seq(S)
  BY DEF IsSeq
<1> QED
  BY <1>1

LEMMA Appended ==
  ASSUME NEW s, IsSeq(s), NEW x
  PROVE  /\ IsSeq(Append(s, x)) /\ Len(Append(s, x)) = Len(s) + 1
         /\ DOMAIN Append(s, x) = 1 .. (Len(s) + 1)
         /\ \A i \in 1 .. Len(s) : Append(s, x)[i] = s[i]
         /\ Append(s, x)[Len(s) + 1] = x
<1>1. PICK S : s \in Seq(S)
  BY DEF IsSeq
<1> DEFINE T == S \cup {x}
<1>2. s \in Seq(T) /\ x \in T
  BY <1>1, SeqMonotonic
<1> HIDE DEF T
<1>3. /\ Append(s, x) \in Seq(T) /\ Len(Append(s, x)) = Len(s) + 1
      /\ \A i \in 1 .. Len(s) : Append(s, x)[i] = s[i]
      /\ Append(s, x)[Len(s) + 1] = x
  BY <1>2, AppendProperties
<1>4. IsSeq(Append(s, x))
  BY <1>3 DEF IsSeq
<1>5. DOMAIN Append(s, x) = 1 .. Len(Append(s, x))
  BY <1>4, SeqFacts
<1> QED
  BY <1>3, <1>4, <1>5

LEMMA TypesOfTxs ==
  /\ \A id : RollupTx(id).type = "rollup" /\ RollupTx(id).id = id
  /\ \A d : DepositTx(d).type = "deposit" /\ DepositTx(d).id = d
  /\ \A s : create_l1_attributes_tx(s, s).type = "system" /\ create_l1_attributes_tx(s, s).id = 0
  BY DEF RollupTx, DepositTx, create_l1_attributes_tx

-----------------------------------------------------------------------------
(* Executions.                                                             *)

LEMMA ExecutedLater ==
  ASSUME NEW exe, NEW t \in Nat, Executed(exe, t)
  PROVE  Executed(exe, t + 1)
<1>1. \A id \in 1 .. t : id \in 1 .. (t + 1)
  OBVIOUS
<1>2. ASSUME NEW i \in DOMAIN exe PROVE GoodEntry(exe[i], t + 1)
  <2>1. GoodEntry(exe[i], t)
    BY DEF Executed
  <2> QED
    BY <1>1, <2>1 DEF GoodEntry
<1> QED
  BY <1>2 DEF Executed

LEMMA RunStep ==
  ASSUME SlotInv, NEW tx, NEW o, NEW lines, NEW whole, Run(tx, o, lines, whole),
         GoodEntry([tx |-> tx, outcome |-> o, lines |-> lines, whole |-> whole], turn + 1),
         tx.type = "rollup" => tx.id = turn + 1
  PROVE  SlotInv'
<1> DEFINE e == [tx |-> tx, outcome |-> o, lines |-> lines, whole |-> whole]
           n == Len(executed)
<1>1. /\ stage = "execute" /\ turn' = turn + 1 /\ executed' = Append(executed, e)
      /\ parse_mode' = parse_mode /\ slot' = slot /\ stage' = stage /\ history' = history
  BY DEF Run, config
<1>2. /\ turn \in Nat /\ IsSeq(executed) /\ Executed(executed, turn) /\ HistoryInv
      /\ parse_mode \in {"EngineApi", "SingleState"} /\ slot \in 1 .. MaxSlot
  BY DEF SlotInv
<1>3. n \in Nat /\ DOMAIN executed = 1 .. n
  BY <1>2, SeqFacts
<1>4. e.tx = tx /\ GoodEntry(e, turn + 1)
  OBVIOUS
<1> HIDE DEF e
<1>5. /\ IsSeq(executed') /\ DOMAIN executed' = 1 .. (n + 1)
      /\ \A i \in 1 .. n : executed'[i] = executed[i]
      /\ executed'[n + 1] = e
  BY <1>1, <1>2, Appended
<1>6. \A exe : Executed(exe, turn) => Executed(exe, turn')
  BY <1>1, <1>2, ExecutedLater
(* The new transaction is none of the old ones.                            *)
<1>7. ASSUME NEW exe, Executed(exe, turn), NEW i \in DOMAIN exe
      PROVE  exe[i].tx.type = "rollup" => exe[i].tx # e.tx
  <2> SUFFICES ASSUME exe[i].tx.type = "rollup", exe[i].tx = e.tx PROVE FALSE
    OBVIOUS
  <2>1. GoodEntry(exe[i], turn)
    BY <1>7 DEF Executed
  <2>2. exe[i].tx.id \in 1 .. turn
    BY <2>1, TypesOfTxs DEF GoodEntry
  <2>3. exe[i].tx.id = turn + 1
    BY <1>4
  <2> QED
    BY <1>2, <2>2, <2>3
<1>8. Executed(executed', turn')
  <2>1. ASSUME NEW i \in DOMAIN executed' PROVE GoodEntry(executed'[i], turn')
    <3>1. i \in 1 .. n \/ i = n + 1
      BY <1>3, <1>5
    <3>2. CASE i \in 1 .. n
      BY <1>2, <1>3, <1>5, <1>6, <3>2 DEF Executed
    <3>3. CASE i = n + 1
      BY <1>1, <1>4, <1>5, <3>3
    <3> QED
      BY <3>1, <3>2, <3>3
  <2>2. ASSUME NEW i \in DOMAIN executed', NEW j \in DOMAIN executed',
               executed'[i].tx.type = "rollup", executed'[i].tx = executed'[j].tx
        PROVE  i = j
    <3>1. (i \in 1 .. n \/ i = n + 1) /\ (j \in 1 .. n \/ j = n + 1)
      BY <1>3, <1>5
    <3>2. CASE i \in 1 .. n /\ j \in 1 .. n
      BY <1>2, <1>3, <1>5, <2>2, <3>2 DEF Executed
    <3>3. CASE i \in 1 .. n /\ j = n + 1
      BY <1>2, <1>3, <1>5, <1>7, <2>2, <3>3
    <3>4. CASE i = n + 1 /\ j \in 1 .. n
      BY <1>2, <1>3, <1>5, <1>7, <2>2, <3>4
    <3> QED
      BY <3>1, <3>2, <3>3, <3>4
  <2> QED
    BY <2>1, <2>2 DEF Executed
<1>9. HistoryInv'
  <2>1. DOMAIN history' = 1 .. (IF stage' = "done" THEN slot' ELSE slot' - 1)
    BY <1>1, <1>2 DEF HistoryInv
  <2>2. ASSUME NEW s \in DOMAIN history'
        PROVE  SlotDone(parse_mode', history'[s], s, turn') /\ Apart(history'[s].executed, executed')
    <3>1. SlotDone(parse_mode, history[s], s, turn) /\ Apart(history[s].executed, executed)
      BY <1>1, <1>2 DEF HistoryInv
    <3>2. SlotDone(parse_mode', history'[s], s, turn')
      BY <1>1, <1>6, <3>1 DEF SlotDone
    <3>3. Executed(history[s].executed, turn)
      BY <3>1 DEF SlotDone
    <3>4. ASSUME NEW i \in DOMAIN history[s].executed, NEW j \in DOMAIN executed',
                 history[s].executed[i].tx.type = "rollup"
          PROVE  history[s].executed[i].tx # executed'[j].tx
      <4>1. j \in 1 .. n \/ j = n + 1
        BY <1>3, <1>5
      <4>2. CASE j \in 1 .. n
        BY <1>3, <1>5, <3>1, <3>4, <4>2 DEF Apart
      <4>3. CASE j = n + 1
        BY <1>5, <1>7, <3>3, <3>4, <4>3
      <4> QED
        BY <4>1, <4>2, <4>3
    <3> QED
      BY <1>1, <3>2, <3>4 DEF Apart
  <2>3. \A s, t \in DOMAIN history' : s # t => Apart(history'[s].executed, history'[t].executed)
    BY <1>1, <1>2 DEF HistoryInv
  <2> QED
    BY <2>1, <2>2, <2>3 DEF HistoryInv
<1> QED
  BY <1>1, <1>2, <1>5, <1>8, <1>9 DEF SlotInv

LEMMA ExecuteTxStep ==
  ASSUME SlotInv, NEW o \in Outcomes, NEW order \in Orders, ExecuteTx(o, order)
  PROVE  SlotInv'
<1> DEFINE tx == RollupTx(turn + 1)
           e(lines, whole) == [tx |-> tx, outcome |-> o, lines |-> lines, whole |-> whole]
<1>1. turn \in Nat /\ turn + 1 \in 1 .. (turn + 1)
  BY DEF SlotInv
<1>2. tx.type = "rollup" /\ tx.id = turn + 1 /\ tx = RollupTx(tx.id)
  BY TypesOfTxs
<1>3. o \in Results
  BY SlotBlocksAssumption
<1>4. \A lines, whole : /\ e(lines, whole).tx = tx /\ e(lines, whole).outcome = o
                        /\ e(lines, whole).whole = whole
                        /\ ResultOf(e(lines, whole)) = parse_transaction_meta(lines)
  BY <1>2 DEF ResultOf
<1> HIDE DEF tx
<1>5. CASE Run(tx, o, Lines(o, order), TRUE)
  <2>1. ResultOf(e(Lines(o, order), TRUE)) = {o}
    BY <1>4, WholeLog
  <2>2. o.gas_value \in Nat
    BY <1>3 DEF Results
  <2> DEFINE x == e(Lines(o, order), TRUE)
  <2>3. x.tx = tx /\ x.outcome = o /\ ResultOf(x) = {o}
    BY <1>4, <2>1
  <2> HIDE DEF x
  <2>4. GoodEntry(x, turn + 1)
    BY <1>1, <1>2, <2>2, <2>3 DEF GoodEntry
  <2> QED
    BY <1>2, <1>5, <2>4, RunStep DEF x
<1>6. ASSUME NEW k \in Cuts, k < Len(Lines(o, order)),
             Run(tx, o, SubSeq(Lines(o, order), 1, k), FALSE)
      PROVE  SlotInv'
  <2> DEFINE x == e(SubSeq(Lines(o, order), 1, k), FALSE)
  <2>1. k \in Nat
    BY SlotBlocksAssumption
  <2>2. \A r \in ResultOf(x) : r \in Results /\ r.exit_reason = o.exit_reason
    <3>1. ResultOf(x) = parse_transaction_meta(SubSeq(Lines(o, order), 1, k))
      BY <1>4
    <3>2. \A r \in parse_transaction_meta(SubSeq(Lines(o, order), 1, k)) :
             r \in Results /\ r.exit_reason = o.exit_reason
      BY <1>6, <2>1, CutLog
    <3> HIDE DEF x
    <3> QED
      BY <3>1, <3>2
  <2>3. x.tx = tx /\ x.outcome = o /\ x.whole = FALSE
    BY <1>4
  <2> HIDE DEF x
  <2>4. \A r \in ResultOf(x) : r.exit_reason = x.outcome.exit_reason /\ r.gas_value \in Nat
    BY <2>2, <2>3 DEF Results
  <2>5. GoodEntry(x, turn + 1)
    BY <1>1, <1>2, <2>3, <2>4 DEF GoodEntry
  <2> QED
    BY <1>2, <1>6, <2>5, RunStep DEF x
<1> QED
  BY <1>5, <1>6 DEF ExecuteTx, tx

LEMMA ExecuteDepositStep ==
  ASSUME SlotInv, NEW d \in Deposits, ExecuteDeposit(d)
  PROVE  SlotInv'
<1> DEFINE e == [tx |-> DepositTx(d), outcome |-> DefaultResult, lines |-> <<>>, whole |-> TRUE]
<1>1. e.tx = DepositTx(d)
  OBVIOUS
<1> HIDE DEF e
<1>2. GoodEntry(e, turn + 1)
  BY <1>1, TypesOfTxs DEF GoodEntry
<1>3. DepositTx(d).type # "rollup"
  BY TypesOfTxs
<1>4. Run(DepositTx(d), DefaultResult, <<>>, TRUE)
  BY DEF ExecuteDeposit
<1> QED
  BY <1>2, <1>3, <1>4, RunStep DEF e

-----------------------------------------------------------------------------
(* finalize_slot and the L1 attributes.                                    *)

(* The result reported for an execution.                                   *)
TheResult(e) == CHOOSE r \in ResultOf(e) : TRUE

LEMMA ResultFacts ==
  ASSUME NEW e, NEW t, GoodEntry(e, t)
  PROVE  /\ e.tx.type = "rollup" =>
              /\ e.whole => ResultOf(e) # {} /\ TheResult(e) = e.outcome
              /\ ResultOf(e) # {} => /\ TheResult(e).exit_reason = e.outcome.exit_reason
                                     /\ TheResult(e).gas_value \in Nat
         /\ e.tx.type # "rollup" =>
              e.tx.type = "deposit" /\ ResultOf(e) # {} /\ TheResult(e).gas_value \in Nat
         /\ FreshTx(e.tx, 0) /\ e.tx.type # "system"
<1>1. ResultOf(e) # {} => TheResult(e) \in ResultOf(e)
  <2> SUFFICES ASSUME ResultOf(e) # {} PROVE TheResult(e) \in ResultOf(e)
    OBVIOUS
  <2>1. PICK r : r \in ResultOf(e)
    OBVIOUS
  <2> QED
    BY <2>1, Zenon DEF TheResult
<1>2. CASE /\ e.tx = RollupTx(e.tx.id)
           /\ e.whole => ResultOf(e) = {e.outcome}
           /\ \A r \in ResultOf(e) : r.exit_reason = e.outcome.exit_reason /\ r.gas_value \in Nat
  <2>1. e.tx.type = "rollup"
    BY <1>2, TypesOfTxs
  <2>2. e.whole => ResultOf(e) # {} /\ TheResult(e) = e.outcome
    BY <1>1, <1>2
  <2>3. ResultOf(e) # {} => /\ TheResult(e).exit_reason = e.outcome.exit_reason
                            /\ TheResult(e).gas_value \in Nat
    BY <1>1, <1>2
  <2>4. FreshTx(e.tx, 0)
    BY <1>2 DEF FreshTx
  <2> QED
    BY <2>1, <2>2, <2>3, <2>4
<1>3. CASE e.tx = DepositTx(e.tx.id)
  <2>1. e.tx.type = "deposit"
    BY <1>3, TypesOfTxs
  <2>2. ResultOf(e) = {DefaultResult}
    BY <2>1 DEF ResultOf
  <2>3. TheResult(e) = DefaultResult
    BY <1>1, <2>2
  <2>4. DefaultResult.gas_value \in Nat
    BY DEF DefaultResult, TxResult
  <2>5. FreshTx(e.tx, 0)
    BY <1>3 DEF FreshTx
  <2> QED
    BY <2>1, <2>2, <2>3, <2>4, <2>5
<1> QED
  BY <1>2, <1>3 DEF GoodEntry

(* The transactions, off of them in front, are those that count, by the    *)
(* increasing map f.                                                       *)
FinalizedBy(txs, off, n, f, exe) ==
  /\ n \in Nat /\ IsSeq(txs) /\ Len(txs) = off + n /\ off \in 0 .. 1
  /\ \A k \in 1 .. n : /\ f[k] \in DOMAIN exe
                       /\ txs[off + k] = [tx |-> exe[f[k]].tx, result |-> TheResult(exe[f[k]])]
                       /\ ResultOf(exe[f[k]]) # {}
                       /\ \A j \in 1 .. (f[k] - 1) : exe[j].tx = exe[f[k]].tx => ResultOf(exe[j]) = {}
  /\ \A k, l \in 1 .. n : k < l => f[k] < f[l]
  /\ \A i \in DOMAIN exe :
       /\ ResultOf(exe[i]) # {}
       /\ \A j \in 1 .. (i - 1) : exe[j].tx = exe[i].tx => ResultOf(exe[j]) = {}
       => \E k \in 1 .. n : f[k] = i

LEMMA FunctionIsSeq ==
  ASSUME NEW n \in Nat, NEW F, F = [k \in 1 .. n |-> F[k]]
  PROVE  IsSeq(F) /\ Len(F) = n
<1> DEFINE S == {F[k] : k \in 1 .. n}
<1>1. F \in [1 .. n -> S]
  OBVIOUS
<1> HIDE DEF S
<1>2. F \in Seq(S) /\ Len(F) = n
  BY <1>1
<1> QED
  BY <1>2 DEF IsSeq

LEMMA FinalizedFacts ==
  ASSUME IsSeq(executed)
  PROVE  \E n, f : FinalizedBy(Finalized, 0, n, f, executed)
<1> DEFINE found == {i \in DOMAIN executed : Counts(i)}
           n == Cardinality(found)
           f == InOrder(found)
           val(k) == [tx |-> executed[f[k]].tx, result |-> TheResult(executed[f[k]])]
           F == [k \in 1 .. n |-> val(k)]
<1>1. Len(executed) \in Nat /\ DOMAIN executed = 1 .. Len(executed)
  BY SeqFacts
<1>2. found \subseteq Nat /\ IsFiniteSet(found)
  <2>1. IsFiniteSet(1 .. Len(executed))
    BY <1>1, FS_Interval
  <2>2. found \subseteq 1 .. Len(executed)
    BY <1>1
  <2> HIDE DEF found
  <2>3. IsFiniteSet(found)
    BY <2>1, <2>2, FS_Subset
  <2> QED
    BY <1>1, <2>2, <2>3
<1>3. Finalized = F
  BY DEF Finalized, TheResult
<1>4. \A i \in found : i \in DOMAIN executed /\ Counts(i)
  OBVIOUS
<1>5. \A i \in DOMAIN executed : Counts(i) => i \in found
  OBVIOUS
<1> HIDE DEF found
<1>6. /\ n \in Nat /\ f \in [1 .. n -> found]
      /\ \A k, l \in 1 .. n : k < l => f[k] < f[l]
      /\ \A x \in found : \E k \in 1 .. n : f[k] = x
  BY <1>2, InOrderFacts
<1> HIDE DEF n, f
<1>7. DOMAIN F = 1 .. n /\ F = [k \in 1 .. n |-> F[k]] /\ \A k \in 1 .. n : F[k] = val(k)
  OBVIOUS
<1> HIDE DEF F
<1>8. IsSeq(F) /\ Len(F) = 0 + n /\ 0 \in 0 .. 1
  <2>1. IsSeq(F) /\ Len(F) = n
    BY <1>6, <1>7, FunctionIsSeq
  <2> QED
    BY <1>6, <2>1
<1>9. ASSUME NEW k \in 1 .. n
      PROVE  /\ f[k] \in DOMAIN executed
             /\ F[0 + k] = val(k)
             /\ ResultOf(executed[f[k]]) # {}
             /\ \A j \in 1 .. (f[k] - 1) :
                  executed[j].tx = executed[f[k]].tx => ResultOf(executed[j]) = {}
  <2>1. f[k] \in found /\ 0 + k = k
    BY <1>6
  <2>2. Counts(f[k])
    BY <1>4, <2>1
  <2>3. /\ ResultOf(executed[f[k]]) # {}
        /\ \A j \in 1 .. (f[k] - 1) :
             executed[j].tx = executed[f[k]].tx => ResultOf(executed[j]) = {}
    BY <2>2, Zenon DEF Counts
  <2> QED
    BY <1>4, <1>7, <2>1, <2>3
<1>10. ASSUME NEW i \in DOMAIN executed, ResultOf(executed[i]) # {},
              \A j \in 1 .. (i - 1) : executed[j].tx = executed[i].tx => ResultOf(executed[j]) = {}
       PROVE  \E k \in 1 .. n : f[k] = i
  <2>1. Counts(i)
    BY <1>10, Zenon DEF Counts
  <2> QED
    BY <1>5, <1>6, <2>1
<1>11. FinalizedBy(F, 0, n, f, executed)
  BY <1>6, <1>8, <1>9, <1>10 DEF FinalizedBy
<1> QED
  BY <1>3, <1>11

(* parse_transactions puts at most the L1 attributes in front.             *)
LEMMA ParsedFacts ==
  ASSUME IsSeq(executed)
  PROVE  \E off, n, f : /\ FinalizedBy(parse_transactions, off, n, f, executed)
                        /\ off = 1 => parse_transactions[1] =
                             [tx |-> create_l1_attributes_tx(slot, slot), result |-> DefaultResult]
<1> DEFINE sys == [tx |-> create_l1_attributes_tx(slot, slot), result |-> DefaultResult]
           F == Finalized
           all == <<sys>> \o F
<1>1. PICK n, f : FinalizedBy(F, 0, n, f, executed)
  BY FinalizedFacts
<1>2. CASE parse_transactions = F
  BY <1>1, <1>2
<1>3. CASE parse_transactions = all
  <2>1. n \in Nat /\ IsSeq(F) /\ Len(F) = n
    BY <1>1 DEF FinalizedBy
  <2> HIDE DEF F, sys
  <2>2. PICK S : F \in Seq(S)
    BY <2>1 DEF IsSeq
  <2> DEFINE T == S \cup {sys}
  <2>3. F \in Seq(T) /\ <<sys>> \in Seq(T) /\ Len(<<sys>>) = 1 /\ <<sys>>[1] = sys
    BY <2>2, SeqMonotonic
  <2> HIDE DEF T
  <2> DEFINE one == <<sys>>
  <2> HIDE DEF one
  <2>4. F \in Seq(T) /\ one \in Seq(T) /\ Len(one) = 1 /\ one[1] = sys
    BY <2>3 DEF one
  <2>5. /\ one \o F \in Seq(T) /\ Len(one \o F) = Len(one) + Len(F)
        /\ \A i \in 1 .. Len(one) : (one \o F)[i] = one[i]
        /\ \A i \in 1 .. Len(F) : (one \o F)[Len(one) + i] = F[i]
    <3>1. F \in Seq(T) /\ one \in Seq(T)
      BY <2>4
    <3> QED
      BY <3>1, Joined
  <2>6. all = one \o F
    BY DEF one
  <2> HIDE DEF all
  <2>7. IsSeq(all) /\ Len(all) = 1 + n /\ all[1] = sys /\ 1 \in 0 .. 1
    BY <2>1, <2>4, <2>5, <2>6 DEF IsSeq
  <2>8. \A k \in 1 .. n : all[1 + k] = F[0 + k]
    BY <2>1, <2>4, <2>5, <2>6
  <2>9. FinalizedBy(all, 1, n, f, executed)
    BY <1>1, <2>7, <2>8 DEF FinalizedBy
  <2> QED
    BY <1>3, <2>7, <2>9 DEF sys
<1> QED
  BY <1>2, <1>3 DEF parse_transactions

LEMMA SealedSlot ==
  ASSUME NEW txs, NEW off, NEW n, NEW f, NEW exe, NEW t, NEW s \in Nat,
         FinalizedBy(txs, off, n, f, exe), IsSeq(exe), Executed(exe, t),
         off = 1 => txs[1] = [tx |-> create_l1_attributes_tx(s, s), result |-> DefaultResult]
  PROVE  SlotOpen(exe, txs, 1, s)
<1>1. Len(exe) \in Nat /\ DOMAIN exe = 1 .. Len(exe)
  BY SeqFacts
<1>2. /\ n \in Nat /\ IsSeq(txs) /\ Len(txs) = off + n /\ off \in 0 .. 1
      /\ DOMAIN txs = 1 .. (off + n)
  BY SeqFacts DEF FinalizedBy
<1>3. ASSUME NEW k \in DOMAIN txs
      PROVE  \/ off = 1 /\ k = 1
             \/ k - off \in 1 .. n /\ off + (k - off) = k
  BY <1>2
<1>4. ASSUME NEW k \in 1 .. n
      PROVE  /\ f[k] \in DOMAIN exe
             /\ txs[off + k].tx = exe[f[k]].tx
             /\ txs[off + k].result = TheResult(exe[f[k]])
             /\ txs[off + k] = [tx |-> txs[off + k].tx, result |-> txs[off + k].result]
             /\ ResultOf(exe[f[k]]) # {}
             /\ GoodEntry(exe[f[k]], t)
  <2> DEFINE e == exe[f[k]]
             x == txs[off + k]
  <2>1. f[k] \in DOMAIN exe /\ x = [tx |-> e.tx, result |-> TheResult(e)] /\ ResultOf(e) # {}
    BY DEF FinalizedBy
  <2>2. GoodEntry(e, t)
    BY <2>1 DEF Executed
  <2> HIDE DEF e, x
  <2>3. x.tx = e.tx /\ x.result = TheResult(e) /\ x = [tx |-> x.tx, result |-> x.result]
    BY <2>1
  <2> QED
    BY <2>1, <2>2, <2>3 DEF e, x
<1>5. off = 1 => /\ txs[1].tx = create_l1_attributes_tx(s, s) /\ txs[1].result = DefaultResult
                 /\ txs[1] = [tx |-> txs[1].tx, result |-> txs[1].result]
  <2> SUFFICES ASSUME off = 1
               PROVE  /\ txs[1].tx = create_l1_attributes_tx(s, s) /\ txs[1].result = DefaultResult
                      /\ txs[1] = [tx |-> txs[1].tx, result |-> txs[1].result]
    OBVIOUS
  <2>1. txs[1] = [tx |-> create_l1_attributes_tx(s, s), result |-> DefaultResult]
    OBVIOUS
  <2> QED
    BY <2>1
<1>6. \A k, l \in 1 .. n : k < l => f[k] < f[l]
  BY DEF FinalizedBy
(* An execution counts at its first result.                                *)
<1>7. ASSUME NEW k \in 1 .. n, NEW j \in DOMAIN exe, exe[j].tx = exe[f[k]].tx, ResultOf(exe[j]) # {}
      PROVE  f[k] <= j
  <2>1. \A i \in 1 .. (f[k] - 1) : exe[i].tx = exe[f[k]].tx => ResultOf(exe[i]) = {}
    BY DEF FinalizedBy
  <2>2. j \notin 1 .. (f[k] - 1)
    BY <1>7, <2>1
  <2>3. f[k] \in 1 .. Len(exe) /\ j \in 1 .. Len(exe)
    BY <1>1, <1>4
  <2> QED
    BY <1>1, <2>2, <2>3
<1>8. \A k \in DOMAIN txs : /\ txs[k] = [tx |-> txs[k].tx, result |-> txs[k].result]
                            /\ txs[k].result.gas_value \in Nat /\ FreshTx(txs[k].tx, s)
  <2> SUFFICES ASSUME NEW k \in DOMAIN txs
               PROVE  /\ txs[k] = [tx |-> txs[k].tx, result |-> txs[k].result]
                      /\ txs[k].result.gas_value \in Nat /\ FreshTx(txs[k].tx, s)
    OBVIOUS
  <2>1. CASE off = 1 /\ k = 1
    <3>1. DefaultResult.gas_value \in Nat
      BY DEF DefaultResult, TxResult
    <3> QED
      BY <1>5, <2>1, <3>1 DEF FreshTx
  <2>2. CASE k - off \in 1 .. n /\ off + (k - off) = k
    <3> DEFINE e == exe[f[k - off]]
    <3>1. /\ txs[k] = [tx |-> txs[k].tx, result |-> txs[k].result]
          /\ txs[k].tx = e.tx /\ txs[k].result = TheResult(e) /\ ResultOf(e) # {} /\ GoodEntry(e, t)
      BY <1>4, <2>2
    <3> HIDE DEF e
    <3>2. TheResult(e).gas_value \in Nat /\ FreshTx(e.tx, 0) /\ e.tx.type # "system"
      BY <3>1, ResultFacts
    <3>3. FreshTx(e.tx, s)
      BY <3>2, TypesOfTxs DEF FreshTx
    <3> QED
      BY <3>1, <3>2, <3>3
  <2> QED
    BY <1>3, <2>1, <2>2
<1>9. Distinct(txs)
  <2> SUFFICES ASSUME NEW k \in DOMAIN txs, NEW l \in DOMAIN txs,
                      txs[k].tx.type = txs[l].tx.type, txs[k].tx.id = txs[l].tx.id
               PROVE  k = l
    BY DEF Distinct
  <2>1. \A q \in DOMAIN txs : q - off \in 1 .. n /\ off + (q - off) = q => txs[q].tx.type # "system"
    <3> SUFFICES ASSUME NEW q \in DOMAIN txs, q - off \in 1 .. n, off + (q - off) = q
                 PROVE  txs[q].tx.type # "system"
      OBVIOUS
    <3>1. GoodEntry(exe[f[q - off]], t) /\ txs[q].tx = exe[f[q - off]].tx
      BY <1>4
    <3> QED
      BY <3>1, ResultFacts
  <2>2. off = 1 => txs[1].tx.type = "system"
    BY <1>5, TypesOfTxs
  <2>3. CASE off = 1 /\ k = 1
    BY <1>3, <2>1, <2>2, <2>3
  <2>4. CASE off = 1 /\ l = 1
    BY <1>3, <2>1, <2>2, <2>4
  <2>5. CASE /\ k - off \in 1 .. n /\ off + (k - off) = k
             /\ l - off \in 1 .. n /\ off + (l - off) = l
    <3> DEFINE i == f[k - off]
               j == f[l - off]
    <3>1. /\ i \in DOMAIN exe /\ GoodEntry(exe[i], t) /\ txs[k].tx = exe[i].tx /\ ResultOf(exe[i]) # {}
          /\ j \in DOMAIN exe /\ GoodEntry(exe[j], t) /\ txs[l].tx = exe[j].tx /\ ResultOf(exe[j]) # {}
      BY <1>4, <2>5
    <3>2. exe[i].tx = exe[j].tx
      <4>1. exe[i].tx.type = exe[j].tx.type /\ exe[i].tx.id = exe[j].tx.id
        BY <3>1
      <4> HIDE DEF i, j
      <4> QED
        BY <3>1, <4>1, TypesOfTxs DEF GoodEntry
    <3>3. i <= j /\ j <= i
      BY <1>7, <2>5, <3>1, <3>2
    <3>4. i = j
      BY <1>1, <3>1, <3>3
    <3>5. k - off = l - off
      <4>1. ~(k - off < l - off) /\ ~(l - off < k - off)
        BY <1>6, <2>5, <3>1, <3>4, <1>1
      <4> QED
        BY <4>1, <2>5
    <3> QED
      BY <2>5, <3>5
  <2> QED
    BY <1>3, <2>3, <2>4, <2>5
<1>10. Reported(exe, txs)
  <2>1. ASSUME NEW i \in DOMAIN exe, exe[i].tx.type = "rollup", exe[i].whole
        PROVE  \E k \in DOMAIN txs : txs[k] = [tx |-> exe[i].tx, result |-> exe[i].outcome]
    <3>1. GoodEntry(exe[i], t)
      BY DEF Executed
    <3>2. ResultOf(exe[i]) # {} /\ TheResult(exe[i]) = exe[i].outcome
      BY <2>1, <3>1, ResultFacts
    <3>3. \A j \in 1 .. (i - 1) : exe[j].tx # exe[i].tx
      <4> SUFFICES ASSUME NEW j \in 1 .. (i - 1), exe[j].tx = exe[i].tx PROVE FALSE
        OBVIOUS
      <4>1. j \in DOMAIN exe /\ i # j
        BY <1>1
      <4> QED
        BY <2>1, <4>1 DEF Executed
    <3>4. PICK k \in 1 .. n : f[k] = i
      BY <3>2, <3>3 DEF FinalizedBy
    <3>5. off + k \in DOMAIN txs
      BY <1>2
    <3>6. txs[off + k] = [tx |-> exe[i].tx, result |-> exe[i].outcome]
      BY <1>4, <3>2, <3>4
    <3> QED
      BY <3>5, <3>6
  <2>2. ASSUME NEW k \in DOMAIN txs, txs[k].tx.type = "rollup"
        PROVE  /\ k - off \in 1 .. n /\ off + (k - off) = k /\ f[k - off] \in DOMAIN exe
               /\ exe[f[k - off]].tx = txs[k].tx
               /\ exe[f[k - off]].outcome.exit_reason = txs[k].result.exit_reason
    <3>1. ~(off = 1 /\ k = 1)
      BY <1>5, <2>2, TypesOfTxs
    <3>2. k - off \in 1 .. n /\ off + (k - off) = k
      BY <1>3, <3>1
    <3> DEFINE e == exe[f[k - off]]
    <3>3. /\ f[k - off] \in DOMAIN exe /\ txs[k].tx = e.tx /\ txs[k].result = TheResult(e)
          /\ ResultOf(e) # {} /\ GoodEntry(e, t)
      BY <1>4, <3>2
    <3>4. e.outcome.exit_reason = TheResult(e).exit_reason
      <4> HIDE DEF e
      <4> QED
        BY <2>2, <3>3, ResultFacts
    <3> QED
      BY <3>2, <3>3, <3>4
  <2>3. ASSUME NEW i \in DOMAIN exe, NEW j \in DOMAIN exe, NEW k \in DOMAIN txs, NEW l \in DOMAIN txs,
               txs[k].tx.type = "rollup", exe[i].tx = txs[k].tx, exe[j].tx = txs[l].tx, k < l
        PROVE  i < j
    <3>1. k - off \in 1 .. n /\ f[k - off] \in DOMAIN exe /\ exe[f[k - off]].tx = txs[k].tx
      BY <2>2, <2>3
    <3>2. f[k - off] = i
      BY <2>3, <3>1 DEF Executed
    <3>3. l - off \in 1 .. n /\ off + (l - off) = l /\ k - off < l - off
      BY <1>2, <1>3, <2>3, <3>1
    <3>4. f[k - off] < f[l - off]
      BY <1>6, <3>1, <3>3
    <3>5. /\ f[l - off] \in DOMAIN exe /\ txs[l].tx = exe[f[l - off]].tx
      BY <1>4, <3>3
    <3>6. f[l - off] <= j
      <4>1. CASE ResultOf(exe[j]) # {}
        BY <1>7, <2>3, <3>3, <3>5, <4>1
      <4>2. CASE ResultOf(exe[j]) = {}
        <5>1. GoodEntry(exe[j], t)
          BY DEF Executed
        <5>2. exe[j].tx.type = "rollup"
          BY <4>2, <5>1, ResultFacts
        <5>3. f[l - off] = j
          BY <2>3, <3>5, <5>2 DEF Executed
        <5> QED
          BY <1>1, <5>3
      <4> QED
        BY <4>1, <4>2
    <3> QED
      BY <1>1, <3>2, <3>4, <3>5, <3>6
  <2> QED
    BY <2>1, <2>2, <2>3 DEF Reported
<1>11. 1 \in 1 .. (Len(txs) + 1) /\ \A k \in DOMAIN txs : ~(k < 1)
  BY <1>2
<1> QED
  BY <1>2, <1>8, <1>9, <1>10, <1>11 DEF SlotOpen

-----------------------------------------------------------------------------
(* The gas of the first transactions.                                      *)

GasTyped(txs) == Len(txs) \in Nat /\ \A k \in 1 .. Len(txs) : txs[k].result.gas_value \in Nat

LEMMA GasFacts ==
  ASSUME NEW txs, GasTyped(txs)
  PROVE  /\ GasUpTo(txs)[0] = 0
         /\ \A k \in 1 .. Len(txs) : GasUpTo(txs)[k] = GasUpTo(txs)[k - 1] + txs[k].result.gas_value
         /\ \A k \in 0 .. Len(txs) : GasUpTo(txs)[k] \in Nat
<1> DEFINE n == Len(txs)
           v == [k \in 1 .. n |-> txs[k].result.gas_value]
           gas[k \in 0 .. n] == IF k = 0 THEN 0 ELSE gas[k - 1] + txs[k].result.gas_value
           Eq(f) == f = [k \in 0 .. n |-> IF k = 0 THEN 0 ELSE f[k - 1] + txs[k].result.gas_value]
<1>1. GasUpTo(txs) = gas
  BY DEF GasUpTo
<1>2. n \in Nat /\ \A k \in 1 .. n : v[k] \in Nat
  BY DEF GasTyped
<1>3. \A k \in 1 .. n : v[k] = txs[k].result.gas_value
  OBVIOUS
<1>4. PICK g : Totals(g, n, v)
  <2> HIDE DEF v, n
  <2> QED
    BY <1>2, TotalsExist
<1>5. Eq(g)
  <2> DEFINE e(k) == IF k = 0 THEN 0 ELSE g[k - 1] + txs[k].result.gas_value
  <2>1. ASSUME NEW k \in 0 .. n PROVE g[k] = e(k)
    <3>1. CASE k = 0
      BY <1>4, <3>1 DEF Totals
    <3>2. CASE k # 0
      <4>1. k \in 1 .. n
        BY <1>2, <3>2
      <4> HIDE DEF v, n
      <4> QED
        BY <1>3, <1>4, <3>2, <4>1 DEF Totals
    <3> QED
      BY <3>1, <3>2
  <2> HIDE DEF e
  <2>2. g \in [0 .. n -> Nat]
    BY <1>4 DEF Totals
  <2>3. g = [k \in 0 .. n |-> e(k)]
    BY <2>1, <2>2
  <2> QED
    BY <2>3 DEF e
<1>6. Eq(CHOOSE f : Eq(f))
  BY <1>5, Zenon
<1>7. Eq(gas)
  BY <1>6, Zenon
<1> HIDE DEF gas, n
<1>8. gas[0] = 0
  <2>1. 0 \in 0 .. n
    BY <1>2
  <2> QED
    BY <1>7, <2>1
<1>9. \A k \in 1 .. n : gas[k] = gas[k - 1] + txs[k].result.gas_value
  <2> SUFFICES ASSUME NEW k \in 1 .. n PROVE gas[k] = gas[k - 1] + txs[k].result.gas_value
    OBVIOUS
  <2>1. k \in 0 .. n /\ k # 0
    BY <1>2
  <2> QED
    BY <1>7, <2>1
<1>10. \A k \in 0 .. n : gas[k] = g[k]
  <2>1. gas[0] = g[0]
    BY <1>4, <1>8 DEF Totals
  <2>2. \A k \in 1 .. n : gas[k - 1] = g[k - 1] => gas[k] = g[k]
    BY <1>3, <1>4, <1>9 DEF Totals
  <2>3. Alike(gas, g, n)
    BY <2>1, <2>2 DEF Alike
  <2>4. Equal(gas, g, n)
    BY <1>2, <2>3, AlikeEqual, Zenon
  <2> QED
    BY <2>4 DEF Equal
<1>11. \A k \in 0 .. n : gas[k] \in Nat
  BY <1>4, <1>10 DEF Totals
<1> QED
  BY <1>1, <1>8, <1>9, <1>11 DEF n

LEMMA GasSame ==
  ASSUME NEW txs, NEW u, GasTyped(txs), Len(u) = Len(txs),
         \A k \in 1 .. Len(txs) : u[k].result = txs[k].result
  PROVE  GasTyped(u) /\ \A k \in 0 .. Len(txs) : GasUpTo(u)[k] = GasUpTo(txs)[k]
<1> DEFINE n == Len(txs)
           f == GasUpTo(u)
           g == GasUpTo(txs)
<1>1. GasTyped(u) /\ n \in Nat
  BY DEF GasTyped
<1>2. f[0] = 0 /\ \A k \in 1 .. n : f[k] = f[k - 1] + u[k].result.gas_value
  BY <1>1, GasFacts
<1>3. g[0] = 0 /\ \A k \in 1 .. n : g[k] = g[k - 1] + txs[k].result.gas_value
  BY GasFacts
<1>4. Alike(f, g, n)
  <2> HIDE DEF f, g
  <2> QED
    BY <1>2, <1>3 DEF Alike
<1>5. Equal(f, g, n)
  BY <1>1, <1>4, AlikeEqual, Zenon
<1> QED
  BY <1>1, <1>5 DEF Equal

-----------------------------------------------------------------------------
(* The rounds of create_eth_blocks.                                        *)

(* A round touches none of the transactions before.                        *)
LEMMA BuiltSame ==
  ASSUME NEW mode, NEW txs, NEW u, NEW p, NEW blocks, NEW cut, NEW btxs, NEW gas, NEW recipient,
         Built(mode, txs, p, blocks, cut, btxs, gas, recipient), IsSeq(blocks),
         GasTyped(txs), Len(u) = Len(txs), p \in 1 .. (Len(txs) + 1),
         \A k \in 1 .. Len(txs) : u[k].result = txs[k].result,
         \A k \in 1 .. (p - 1) : u[k].tx = txs[k].tx
  PROVE  Built(mode, u, p, blocks, cut, btxs, gas, recipient)
<1> DEFINE L == Len(blocks)
           c == cut[L]
<1>1. Len(txs) \in Nat /\ p - 1 \in 0 .. Len(txs) /\ L \in Nat /\ DOMAIN blocks = 1 .. L
  BY SeqFacts DEF GasTyped
<1>2. \A k \in 0 .. Len(txs) : GasUpTo(u)[k] = GasUpTo(txs)[k]
  BY GasSame
<1>3. /\ cut \in [0 .. L -> 0 .. (p - 1)]
      /\ CutInto(mode, txs, blocks, cut)
      /\ btxs = [k \in 1 .. (p - 1 - c) |-> txs[c + k].tx]
      /\ gas = GasUpTo(txs)[p - 1] - GasUpTo(txs)[c]
      /\ mode = "EngineApi" => \A k \in (c + 1) .. (p - 1) : txs[k].result.gas_recipient = recipient
  BY DEF Built
<1> HIDE DEF L
<1>4. c \in 0 .. (p - 1)
  BY <1>1, <1>3
<1> HIDE DEF c
<1>5. ASSUME NEW first \in 0 .. (p - 1), NEW last \in 0 .. (p - 1)
      PROVE  /\ [k \in 1 .. (last - first) |-> u[first + k].tx]
                  = [k \in 1 .. (last - first) |-> txs[first + k].tx]
             /\ GasUpTo(u)[first] = GasUpTo(txs)[first] /\ GasUpTo(u)[last] = GasUpTo(txs)[last]
             /\ \A k \in (first + 1) .. last : u[k].result = txs[k].result
  <2>1. \A k \in 1 .. (last - first) : u[first + k].tx = txs[first + k].tx
    <3> SUFFICES ASSUME NEW k \in 1 .. (last - first) PROVE u[first + k].tx = txs[first + k].tx
      OBVIOUS
    <3>1. first + k \in 1 .. (p - 1)
      BY <1>1
    <3> QED
      BY <3>1
  <2>2. \A k \in (first + 1) .. last : k \in 1 .. Len(txs)
    BY <1>1
  <2>3. first \in 0 .. Len(txs) /\ last \in 0 .. Len(txs)
    BY <1>1
  <2> QED
    BY <1>2, <2>1, <2>2, <2>3
<1>6. CutInto(mode, u, blocks, cut)
  <2>1. cut[0] = 0
    BY <1>3 DEF CutInto
  <2>2. ASSUME NEW b \in DOMAIN blocks PROVE IsBlock(mode, blocks[b], u, cut[b - 1], cut[b])
    <3>1. cut[b - 1] \in 0 .. (p - 1) /\ cut[b] \in 0 .. (p - 1)
      BY <1>1, <1>3
    <3>2. IsBlock(mode, blocks[b], txs, cut[b - 1], cut[b])
      BY <1>3 DEF CutInto
    <3> DEFINE first == cut[b - 1]
               last == cut[b]
    <3>3. IsBlock(mode, blocks[b], txs, first, last) /\ first \in 0 .. (p - 1) /\ last \in 0 .. (p - 1)
      BY <3>1, <3>2
    <3> HIDE DEF first, last
    <3>4. IsBlock(mode, blocks[b], u, first, last)
      BY <1>5, <3>3 DEF IsBlock
    <3> QED
      BY <3>4 DEF first, last
  <2> QED
    BY <2>1, <2>2 DEF CutInto
<1>7. p - 1 \in 0 .. (p - 1)
  BY <1>1
<1>8. /\ btxs = [k \in 1 .. (p - 1 - c) |-> u[c + k].tx]
      /\ gas = GasUpTo(u)[p - 1] - GasUpTo(u)[c]
      /\ mode = "EngineApi" => \A k \in (c + 1) .. (p - 1) : u[k].result.gas_recipient = recipient
  BY <1>3, <1>4, <1>5, <1>7
<1> QED
  BY <1>3, <1>6, <1>8 DEF Built, L, c

(* The next transaction joins the block at hand.                           *)
LEMMA BuiltJoin ==
  ASSUME NEW mode, NEW u, NEW p, NEW blocks, NEW cut, NEW btxs, NEW gas, NEW recipient,
         Built(mode, u, p, blocks, cut, btxs, gas, recipient), IsSeq(blocks),
         GasTyped(u), p \in 1 .. Len(u),
         mode = "EngineApi" => u[p].result.gas_recipient = recipient
  PROVE  Built(mode, u, p + 1, blocks, cut, Append(btxs, u[p].tx), gas + u[p].result.gas_value,
               recipient)
<1> DEFINE L == Len(blocks)
           c == cut[L]
<1>1. Len(u) \in Nat /\ p \in Nat /\ p - 1 \in 0 .. Len(u) /\ L \in Nat /\ (p + 1) - 1 = p
  BY SeqFacts DEF GasTyped
<1>2. /\ GasUpTo(u)[p] = GasUpTo(u)[p - 1] + u[p].result.gas_value
      /\ GasUpTo(u)[p - 1] \in Nat /\ u[p].result.gas_value \in Nat
  BY <1>1, GasFacts DEF GasTyped
<1>3. /\ cut \in [0 .. L -> 0 .. (p - 1)]
      /\ CutInto(mode, u, blocks, cut)
      /\ btxs = [k \in 1 .. (p - 1 - c) |-> u[c + k].tx]
      /\ gas = GasUpTo(u)[p - 1] - GasUpTo(u)[c]
      /\ mode = "EngineApi" => \A k \in (c + 1) .. (p - 1) : u[k].result.gas_recipient = recipient
  BY DEF Built
<1> HIDE DEF L
<1>4. c \in 0 .. (p - 1) /\ cut \in [0 .. L -> 0 .. p]
  BY <1>1, <1>3
<1> HIDE DEF c
<1>5. GasUpTo(u)[c] \in Nat
  <2>1. c \in 0 .. Len(u)
    BY <1>1, <1>4
  <2> QED
    BY <2>1, GasFacts
<1>6. Append(btxs, u[p].tx) = [k \in 1 .. (p - c) |-> u[c + k].tx]
  <2> DEFINE m == p - 1 - c
             S == {u[c + k].tx : k \in 1 .. (m + 1)}
  <2>1. m \in Nat /\ m + 1 = p - c /\ c + (m + 1) = p
    BY <1>1, <1>4
  <2> HIDE DEF m
  <2>2. btxs = [k \in 1 .. m |-> u[c + k].tx]
    BY <1>3 DEF m
  <2>3. Append(btxs, u[c + (m + 1)].tx) = [k \in 1 .. (m + 1) |-> u[c + k].tx]
    BY <2>1, <2>2
  <2> QED
    BY <2>1, <2>3
<1>7. gas + u[p].result.gas_value = GasUpTo(u)[p] - GasUpTo(u)[c]
  BY <1>2, <1>3, <1>5
<1>8. mode = "EngineApi" => \A k \in (c + 1) .. p : u[k].result.gas_recipient = recipient
  BY <1>1, <1>3, <1>4
<1>9. cut \in [0 .. Len(blocks) -> 0 .. p]
  BY <1>4 DEF L
<1> QED
  BY <1>1, <1>3, <1>6, <1>7, <1>8, <1>9 DEF Built, L, c

(* The block at hand is closed.                                            *)
LEMMA BlockClosed ==
  ASSUME NEW mode, NEW u, NEW p, NEW blocks, NEW cut, NEW btxs, NEW gas, NEW recipient,
         Built(mode, u, p, blocks, cut, btxs, gas, recipient), IsSeq(blocks),
         GasTyped(u), p \in 1 .. (Len(u) + 1), btxs # <<>>
  PROVE  \E last : /\ last \in [0 .. (Len(blocks) + 1) -> 0 .. (p - 1)]
                   /\ CutInto(mode, u, Append(blocks, EthBlock(btxs, gas, recipient)), last)
                   /\ last[Len(blocks) + 1] = p - 1
<1> DEFINE L == Len(blocks)
           c == cut[L]
           B == EthBlock(btxs, gas, recipient)
           last == [b \in 0 .. (L + 1) |-> IF b = L + 1 THEN p - 1 ELSE cut[b]]
<1>1. Len(u) \in Nat /\ p - 1 \in Nat /\ L \in Nat /\ DOMAIN blocks = 1 .. L
  BY SeqFacts DEF GasTyped
<1>2. /\ cut \in [0 .. L -> 0 .. (p - 1)]
      /\ CutInto(mode, u, blocks, cut)
      /\ btxs = [k \in 1 .. (p - 1 - c) |-> u[c + k].tx]
      /\ gas = GasUpTo(u)[p - 1] - GasUpTo(u)[c]
      /\ mode = "EngineApi" => \A k \in (c + 1) .. (p - 1) : u[k].result.gas_recipient = recipient
  BY DEF Built
<1>3. /\ DOMAIN Append(blocks, B) = 1 .. (L + 1)
      /\ \A b \in 1 .. L : Append(blocks, B)[b] = blocks[b]
      /\ Append(blocks, B)[L + 1] = B
  BY Appended
<1> HIDE DEF L
<1>4. c \in 0 .. (p - 1) /\ c \in Nat
  BY <1>1, <1>2
<1>5. c < p - 1
  <2> SUFFICES ASSUME ~(c < p - 1) PROVE FALSE
    OBVIOUS
  <2>1. p - 1 - c = 0
    BY <1>1, <1>4
  <2> HIDE DEF c
  <2>2. btxs = [k \in 1 .. 0 |-> u[c + k].tx]
    BY <1>2, <2>1
  <2>3. btxs = <<>>
    BY <2>2
  <2> QED
    BY <2>3
<1>6. /\ last \in [0 .. (L + 1) -> 0 .. (p - 1)] /\ last[L + 1] = p - 1
      /\ \A b \in 0 .. L : last[b] = cut[b]
  <2>1. \A b \in 0 .. L : b # L + 1 /\ b \in 0 .. (L + 1)
    BY <1>1
  <2>2. \A b \in 0 .. (L + 1) : b # L + 1 => b \in 0 .. L
    BY <1>1
  <2>3. p - 1 \in 0 .. (p - 1) /\ L + 1 \in 0 .. (L + 1)
    BY <1>1
  <2> QED
    BY <1>2, <2>1, <2>2, <2>3
<1>7. B.transactions = btxs /\ B.gas_used = gas /\ B.gas_recipient = recipient
  BY DEF EthBlock
<1> HIDE DEF last, B
<1>8. IsBlock(mode, B, u, c, p - 1)
  BY <1>2, <1>5, <1>7 DEF IsBlock
<1>9. CutInto(mode, u, Append(blocks, B), last)
  <2>1. last[0] = 0
    <3>1. 0 \in 0 .. L /\ cut[0] = 0
      BY <1>1, <1>2 DEF CutInto
    <3> QED
      BY <1>6, <3>1
  <2>2. ASSUME NEW b \in 1 .. (L + 1)
        PROVE  IsBlock(mode, Append(blocks, B)[b], u, last[b - 1], last[b])
    <3>1. CASE b \in 1 .. L
      <4>1. b \in 0 .. L /\ b - 1 \in 0 .. L
        BY <1>1, <3>1
      <4>2. IsBlock(mode, blocks[b], u, cut[b - 1], cut[b])
        BY <1>1, <1>2, <3>1 DEF CutInto
      <4> QED
        BY <1>3, <1>6, <3>1, <4>1, <4>2
    <3>2. CASE b = L + 1
      <4>1. b - 1 = L /\ L \in 0 .. L
        BY <1>1, <3>2
      <4> QED
        BY <1>3, <1>6, <1>8, <3>2, <4>1
    <3> QED
      BY <1>1, <3>1, <3>2
  <2> QED
    BY <1>3, <2>1, <2>2 DEF CutInto
<1> QED
  BY <1>6, <1>9 DEF L, B

LEMMA RoundFacts ==
  ASSUME SlotInv, Round
  PROVE  LET u == transactions'
         IN  /\ IsSeq(transactions) /\ GasTyped(transactions) /\ pos \in 1 .. Len(transactions)
             /\ IsSeq(u) /\ Len(u) = Len(transactions) /\ GasTyped(u)
             /\ \A k \in 1 .. Len(transactions) : u[k].result = transactions[k].result
             /\ \A k \in 1 .. Len(transactions) : k # pos => u[k].tx = transactions[k].tx
             /\ u[pos].tx = Updated
             /\ SlotOpen(executed, u, pos + 1, slot)
<1> DEFINE txs == transactions
           u == transactions'
           n == Len(txs)
           old == txs[pos]
<1>1. /\ stage = "blocks" /\ pos \in DOMAIN txs
      /\ u = [txs EXCEPT ![pos].tx = Updated]
  BY DEF Round
<1>2. SlotOpen(executed, txs, pos, slot) /\ Executed(executed, turn)
  BY <1>1 DEF SlotInv, BlocksInv
<1>3. n \in Nat /\ DOMAIN txs = 1 .. n /\ IsSeq(txs)
  BY <1>2, SeqFacts DEF SlotOpen
<1>4. /\ \A k \in 1 .. n : txs[k] = [tx |-> txs[k].tx, result |-> txs[k].result]
      /\ \A k \in 1 .. n : txs[k].result.gas_value \in Nat
      /\ \A k \in 1 .. n : IF k < pos THEN FinalTx(txs[k].tx, slot) ELSE FreshTx(txs[k].tx, slot)
      /\ Reported(executed, txs) /\ Distinct(txs)
  BY <1>2, <1>3 DEF SlotOpen
<1>5. pos \in 1 .. n /\ pos \in Nat
  BY <1>1, <1>3
<1>6. FreshTx(old.tx, slot)
  BY <1>4, <1>5
<1>7. Updated = update_if_user_deposited_tx(old.tx, slot, block_log_index)
  BY DEF Updated, Current
<1>8. /\ Updated.type = old.tx.type /\ Updated.id = old.tx.id
      /\ old.tx.type # "deposit" => Updated = old.tx
      /\ old.tx.type = "deposit" => /\ Updated.source = create_user_deposit_source_hash(slot, block_log_index)
                                    /\ Updated.source.n = block_log_index
                                    /\ Updated.source # NoSource
  <2>1. CASE old.tx.type # "deposit"
    BY <1>7, <2>1 DEF update_if_user_deposited_tx
  <2>2. CASE old.tx.type = "deposit"
    <3>1. old.tx = DepositTx(old.tx.id)
      BY <1>6, <2>2, TypesOfTxs DEF FreshTx
    <3> DEFINE d == old.tx.id
               src == create_user_deposit_source_hash(slot, block_log_index)
    <3>2. Updated = [DepositTx(d) EXCEPT !.source = src]
      BY <1>7, <2>2, <3>1 DEF update_if_user_deposited_tx
    <3> HIDE DEF d, src
    <3>3. Updated.type = "deposit" /\ Updated.id = d /\ Updated.source = src
      BY <3>2 DEF DepositTx
    <3>4. src.n = block_log_index /\ src.kind = "user" /\ NoSource.kind = "zero"
      BY DEF src, create_user_deposit_source_hash, NoSource
    <3>5. src # NoSource
      BY <3>4
    <3> QED
      BY <2>2, <3>3, <3>4, <3>5 DEF d, src
  <2> QED
    BY <2>1, <2>2
<1>9. FinalTx(Updated, slot)
  <2>1. CASE old.tx.type # "deposit"
    BY <1>6, <1>8, <2>1, TypesOfTxs DEF FreshTx, FinalTx
  <2>2. CASE old.tx.type = "deposit"
    BY <1>8, <2>2 DEF FinalTx
  <2> QED
    BY <2>1, <2>2
<1>10. u[pos] = [old EXCEPT !.tx = Updated] /\ \A k \in 1 .. n : k # pos => u[k] = txs[k]
  BY <1>1, <1>3
<1>11. DOMAIN u = 1 .. n /\ u = [k \in 1 .. n |-> u[k]]
  BY <1>1, <1>3
<1>12. u[pos].tx = Updated /\ u[pos].result = old.result
       /\ u[pos] = [tx |-> Updated, result |-> old.result]
  <2>1. old = [tx |-> old.tx, result |-> old.result]
    BY <1>4, <1>5
  <2> HIDE DEF old
  <2> QED
    BY <1>10, <2>1
<1> HIDE DEF u, old, txs
<1>13. IsSeq(u) /\ Len(u) = n
  BY <1>3, <1>11, FunctionIsSeq
<1>14. \A k \in 1 .. n : u[k].result = txs[k].result
  BY <1>10, <1>12 DEF old
<1>15. \A k \in 1 .. n : k # pos => u[k].tx = txs[k].tx
  BY <1>10
<1>16. \A k \in 1 .. n : u[k].tx.type = txs[k].tx.type /\ u[k].tx.id = txs[k].tx.id
  BY <1>8, <1>12, <1>15 DEF old
<1>17. GasTyped(txs) /\ GasTyped(u)
  BY <1>3, <1>4, <1>13, <1>14 DEF GasTyped
<1>18. Distinct(u)
  BY <1>3, <1>4, <1>11, <1>16 DEF Distinct
<1>19. \A k \in 1 .. n : txs[k].tx.type = "rollup" => u[k].tx = txs[k].tx /\ u[k] = txs[k]
  <2> SUFFICES ASSUME NEW k \in 1 .. n, txs[k].tx.type = "rollup"
               PROVE  u[k].tx = txs[k].tx /\ u[k] = txs[k]
    OBVIOUS
  <2>1. CASE k # pos
    BY <1>10, <2>1
  <2>2. CASE k = pos
    <3>1. Updated = old.tx
      BY <1>8, <2>2 DEF old
    <3>2. txs[k] = [tx |-> old.tx, result |-> old.result]
      BY <1>4, <2>2 DEF old
    <3> QED
      BY <1>12, <2>2, <3>1, <3>2 DEF old
  <2> QED
    BY <2>1, <2>2
(* No execution is named like a deposit that has its hash.                 *)
<1>20. \A j \in DOMAIN executed, l \in 1 .. n : executed[j].tx = u[l].tx => executed[j].tx = txs[l].tx
  <2> SUFFICES ASSUME NEW j \in DOMAIN executed, NEW l \in 1 .. n, executed[j].tx = u[l].tx
               PROVE  executed[j].tx = txs[l].tx
    OBVIOUS
  <2>1. CASE l # pos
    BY <1>15, <2>1
  <2>2. CASE l = pos /\ old.tx.type # "deposit"
    BY <1>8, <1>12, <2>2 DEF old
  <2>3. CASE l = pos /\ old.tx.type = "deposit"
    <3>1. GoodEntry(executed[j], turn)
      BY <1>2 DEF Executed
    <3>2. executed[j].tx = Updated /\ Updated.type = "deposit"
      BY <1>8, <1>12, <2>3
    <3>3. executed[j].tx = DepositTx(executed[j].tx.id)
      BY <3>1, <3>2, TypesOfTxs DEF GoodEntry
    <3>4. \A d : DepositTx(d).source = NoSource
      BY DEF DepositTx
    <3>5. Updated.source = NoSource
      BY <3>2, <3>3, <3>4
    <3> QED
      BY <1>8, <2>3, <3>5
  <2> QED
    BY <2>1, <2>2, <2>3
<1>21. Reported(executed, u)
  <2>1. ASSUME NEW i \in DOMAIN executed, executed[i].tx.type = "rollup", executed[i].whole
        PROVE  \E k \in DOMAIN u : u[k] = [tx |-> executed[i].tx, result |-> executed[i].outcome]
    <3>1. PICK k \in 1 .. n : txs[k] = [tx |-> executed[i].tx, result |-> executed[i].outcome]
      BY <1>3, <1>4, <2>1 DEF Reported
    <3>2. txs[k].tx.type = "rollup"
      BY <2>1, <3>1
    <3> QED
      BY <1>11, <1>19, <3>1, <3>2
  <2>2. ASSUME NEW k \in DOMAIN u, u[k].tx.type = "rollup"
        PROVE  \E i \in DOMAIN executed : /\ executed[i].tx = u[k].tx
                                          /\ executed[i].outcome.exit_reason = u[k].result.exit_reason
    <3>1. k \in DOMAIN txs /\ txs[k].tx.type = "rollup" /\ u[k] = txs[k]
      BY <1>3, <1>11, <1>16, <1>19, <2>2
    <3> QED
      BY <1>4, <3>1 DEF Reported
  <2>3. ASSUME NEW i \in DOMAIN executed, NEW j \in DOMAIN executed, NEW k \in DOMAIN u, NEW l \in DOMAIN u,
               u[k].tx.type = "rollup", executed[i].tx = u[k].tx, executed[j].tx = u[l].tx, k < l
        PROVE  i < j
    <3>1. /\ k \in DOMAIN txs /\ l \in DOMAIN txs /\ txs[k].tx.type = "rollup"
          /\ executed[i].tx = txs[k].tx /\ executed[j].tx = txs[l].tx
      BY <1>3, <1>11, <1>16, <1>20, <2>3
    <3> QED
      BY <1>4, <2>3, <3>1 DEF Reported
  <2> QED
    BY <2>1, <2>2, <2>3 DEF Reported
<1>22. ASSUME NEW k \in DOMAIN u
       PROVE  /\ u[k] = [tx |-> u[k].tx, result |-> u[k].result]
              /\ u[k].result.gas_value \in Nat
              /\ IF k < pos + 1 THEN FinalTx(u[k].tx, slot) ELSE FreshTx(u[k].tx, slot)
  <2>1. k \in 1 .. n
    BY <1>11
  <2>2. u[k].result.gas_value \in Nat
    BY <1>4, <1>14, <2>1
  <2>3. CASE k = pos
    <3>1. k < pos + 1
      BY <1>5, <2>3
    <3>2. u[k] = [tx |-> u[k].tx, result |-> u[k].result]
      BY <1>12, <2>3
    <3> QED
      BY <1>9, <1>12, <2>2, <2>3, <3>1, <3>2
  <2>4. CASE k # pos
    <3>1. u[k] = txs[k]
      BY <1>10, <2>1, <2>4
    <3>2. k < pos + 1 <=> k < pos
      BY <1>5, <2>1, <2>4
    <3>3. txs[k] = [tx |-> txs[k].tx, result |-> txs[k].result]
      BY <1>4, <2>1
    <3>4. IF k < pos THEN FinalTx(txs[k].tx, slot) ELSE FreshTx(txs[k].tx, slot)
      BY <1>4, <2>1
    <3> QED
      BY <2>2, <3>1, <3>2, <3>3, <3>4
  <2> QED
    BY <2>3, <2>4
<1>23. pos + 1 \in 1 .. (Len(u) + 1)
  BY <1>3, <1>5, <1>13
<1>24. SlotOpen(executed, u, pos + 1, slot)
  BY <1>13, <1>18, <1>21, <1>22, <1>23 DEF SlotOpen
<1> QED
  BY <1>3, <1>5, <1>12, <1>13, <1>14, <1>15, <1>17, <1>24 DEF u, txs

LEMMA RoundFrame ==
  ASSUME SlotInv, Round, BlocksInv'
  PROVE  SlotInv'
<1>1. /\ parse_mode' = parse_mode /\ slot' = slot /\ executed' = executed /\ stage' = stage
      /\ turn' = turn /\ history' = history
  BY DEF Round, config
<1>2. HistoryInv'
  BY <1>1 DEF SlotInv, HistoryInv
<1> QED
  BY <1>1, <1>2 DEF SlotInv

(* What the invariant says of the blocks, with the transactions of after   *)
(* the round.                                                              *)
LEMMA RoundBuilt ==
  ASSUME SlotInv, Round
  PROVE  /\ IsSeq(eth_blocks) /\ Changes(parse_mode, eth_blocks, block_txs, gas_recipient)
         /\ GasTyped(transactions') /\ pos \in 1 .. Len(transactions')
         /\ transactions'[pos].tx = Updated
         /\ transactions'[pos].result = Current.result
         /\ \E cut : Built(parse_mode, transactions', pos, eth_blocks, cut, block_txs, block_gas_used,
                           gas_recipient)
<1> DEFINE txs == transactions
           u == transactions'
<1>1. BlocksInv
  BY DEF SlotInv, Round
<1>2. /\ IsSeq(txs) /\ GasTyped(txs) /\ pos \in 1 .. Len(txs)
      /\ IsSeq(u) /\ Len(u) = Len(txs) /\ GasTyped(u)
      /\ \A k \in 1 .. Len(txs) : u[k].result = txs[k].result
      /\ \A k \in 1 .. Len(txs) : k # pos => u[k].tx = txs[k].tx
      /\ u[pos].tx = Updated
  BY RoundFacts
<1>3. IsSeq(eth_blocks) /\ Changes(parse_mode, eth_blocks, block_txs, gas_recipient)
  BY <1>1 DEF BlocksInv
<1>4. PICK cut : Built(parse_mode, txs, pos, eth_blocks, cut, block_txs, block_gas_used, gas_recipient)
  BY <1>1 DEF BlocksInv
<1>5. u[pos].result = Current.result
  BY <1>2 DEF Current
<1> HIDE DEF u, txs
<1>6. pos \in 1 .. (Len(txs) + 1) /\ \A k \in 1 .. (pos - 1) : k \in 1 .. Len(txs) /\ k # pos
  BY <1>2 DEF GasTyped
<1>7. \A k \in 1 .. (pos - 1) : u[k].tx = txs[k].tx
  BY <1>2, <1>6
<1>8. Built(parse_mode, u, pos, eth_blocks, cut, block_txs, block_gas_used, gas_recipient)
  BY <1>2, <1>3, <1>4, <1>6, <1>7, BuiltSame
<1> QED
  BY <1>2, <1>3, <1>5, <1>8 DEF u

LEMMA BuiltTxs ==
  ASSUME NEW mode, NEW u, NEW p, NEW blocks, NEW cut, NEW btxs, NEW gas, NEW recipient,
         Built(mode, u, p, blocks, cut, btxs, gas, recipient), IsSeq(blocks), p \in Nat \ {0}
  PROVE  IsSeq(btxs) /\ cut[Len(blocks)] \in 0 .. (p - 1) /\ Len(btxs) = p - 1 - cut[Len(blocks)]
<1> DEFINE c == cut[Len(blocks)]
           m == p - 1 - c
<1>1. Len(blocks) \in Nat
  BY SeqFacts
<1>2. cut \in [0 .. Len(blocks) -> 0 .. (p - 1)] /\ btxs = [k \in 1 .. m |-> u[c + k].tx]
  BY DEF Built
<1>3. c \in 0 .. (p - 1)
  BY <1>1, <1>2
<1>4. m \in Nat
  BY <1>3
<1> HIDE DEF m, c
<1>5. btxs = [k \in 1 .. m |-> btxs[k]]
  BY <1>2
<1>6. IsSeq(btxs) /\ Len(btxs) = m
  BY <1>4, <1>5, FunctionIsSeq
<1> QED
  BY <1>3, <1>6 DEF m, c

(* A round with a block at hand that fits it keeps the invariant.          *)
LEMMA RoundInv ==
  ASSUME SlotInv, Round, IsSeq(eth_blocks'), NEW cut,
         Built(parse_mode, transactions', pos + 1, eth_blocks', cut, block_txs', block_gas_used',
               gas_recipient'),
         Changes(parse_mode, eth_blocks', block_txs', gas_recipient')
  PROVE  SlotInv'
<1>1. /\ parse_mode' = parse_mode /\ slot' = slot /\ executed' = executed /\ pos' = pos + 1
  BY DEF Round, config
<1>2. SlotOpen(executed, transactions', pos + 1, slot)
  BY RoundFacts
<1>3. BlocksInv'
  BY <1>1, <1>2 DEF BlocksInv
<1> QED
  BY <1>3, RoundFrame

LEMMA JoinStep ==
  ASSUME SlotInv, Round, Join,
         parse_mode = "EngineApi" => Current.result.gas_recipient = gas_recipient
  PROVE  SlotInv'
<1> DEFINE u == transactions'
<1>1. /\ IsSeq(eth_blocks) /\ Changes(parse_mode, eth_blocks, block_txs, gas_recipient)
      /\ GasTyped(u) /\ pos \in 1 .. Len(u) /\ u[pos].tx = Updated /\ u[pos].result = Current.result
  BY RoundBuilt
<1>2. PICK cut : Built(parse_mode, u, pos, eth_blocks, cut, block_txs, block_gas_used, gas_recipient)
  BY RoundBuilt
<1>3. /\ block_txs' = Append(block_txs, Updated)
      /\ block_gas_used' = block_gas_used + Current.result.gas_value
      /\ gas_recipient' = gas_recipient /\ eth_blocks' = eth_blocks
  BY DEF Join
<1> HIDE DEF u
<1>4. Built(parse_mode, u, pos + 1, eth_blocks, cut, Append(block_txs, u[pos].tx),
            block_gas_used + u[pos].result.gas_value, gas_recipient)
  BY <1>1, <1>2, BuiltJoin
<1>5. Built(parse_mode, u, pos + 1, eth_blocks', cut, block_txs', block_gas_used', gas_recipient')
  BY <1>1, <1>3, <1>4
<1>6. block_txs' # <<>>
  <2>1. pos \in Nat \ {0}
    BY <1>1
  <2>2. IsSeq(block_txs)
    BY <1>1, <1>2, <2>1, BuiltTxs
  <2>3. Len(block_txs') = Len(block_txs) + 1 /\ Len(block_txs) \in Nat
    BY <1>3, <2>2, Appended, SeqFacts
  <2>4. Len(<<>>) = 0
    OBVIOUS
  <2> QED
    BY <2>3, <2>4
<1>7. Changes(parse_mode, eth_blocks', block_txs', gas_recipient')
  BY <1>1, <1>3, <1>6 DEF Changes
<1> QED
  BY <1>1, <1>3, <1>5, <1>7, RoundInv DEF u

LEMMA FirstRecipientStep ==
  ASSUME SlotInv, FirstRecipient
  PROVE  SlotInv'
<1> DEFINE u == transactions'
<1>1. /\ Round /\ parse_mode = "EngineApi" /\ block_txs = <<>>
      /\ block_txs' = <<Updated>> /\ block_gas_used' = Current.result.gas_value
      /\ gas_recipient' = Current.result.gas_recipient /\ eth_blocks' = eth_blocks
  BY DEF FirstRecipient
<1>2. /\ IsSeq(eth_blocks) /\ Changes(parse_mode, eth_blocks, block_txs, gas_recipient)
      /\ GasTyped(u) /\ pos \in 1 .. Len(u) /\ u[pos].tx = Updated /\ u[pos].result = Current.result
  BY <1>1, RoundBuilt
<1>3. PICK cut : Built(parse_mode, u, pos, eth_blocks, cut, block_txs, block_gas_used, gas_recipient)
  BY <1>1, RoundBuilt
<1> HIDE DEF u
<1>4. eth_blocks = <<>>
  BY <1>1, <1>2 DEF Changes
<1>5. Len(eth_blocks) = 0 /\ DOMAIN eth_blocks = {}
  BY <1>4
<1>6. pos \in Nat \ {0} /\ Len(u) \in Nat
  BY <1>2 DEF GasTyped
<1>7. cut[0] = 0 /\ cut \in [0 .. 0 -> 0 .. (pos - 1)]
  BY <1>3, <1>5 DEF Built, CutInto
<1>8. pos = 1
  <2>1. Len(block_txs) = pos - 1 - cut[Len(eth_blocks)]
    BY <1>2, <1>3, <1>6, BuiltTxs
  <2>2. Len(block_txs) = 0
    BY <1>1
  <2> QED
    BY <1>5, <1>6, <1>7, <2>1, <2>2
<1>9. /\ GasUpTo(u)[0] = 0 /\ GasUpTo(u)[1] = u[1].result.gas_value /\ u[1].result.gas_value \in Nat
  <2>1. 1 \in 1 .. Len(u) /\ 1 - 1 = 0
    BY <1>2, <1>8
  <2>2. u[1].result.gas_value \in Nat
    BY <1>2, <2>1 DEF GasTyped
  <2>3. GasUpTo(u)[0] = 0 /\ GasUpTo(u)[1] = GasUpTo(u)[1 - 1] + u[1].result.gas_value
    BY <1>2, <2>1, GasFacts
  <2> QED
    BY <2>1, <2>2, <2>3
<1>10. Built(parse_mode, u, pos + 1, eth_blocks', cut, block_txs', block_gas_used', gas_recipient')
  <2>1. pos + 1 = 2 /\ 2 - 1 = 1
    BY <1>8
  <2>2. cut \in [0 .. 0 -> 0 .. 1] /\ Len(eth_blocks') = 0
    BY <1>1, <1>5, <1>7, <1>8
  <2>3. CutInto(parse_mode, u, eth_blocks', cut)
    BY <1>1, <1>5, <1>7 DEF CutInto
  <2>4. block_txs' = [k \in 1 .. 1 |-> u[0 + k].tx]
    BY <1>1, <1>2, <1>8
  <2>5. block_gas_used' = GasUpTo(u)[1] - GasUpTo(u)[0]
    BY <1>1, <1>2, <1>8, <1>9
  <2>6. \A k \in 1 .. 1 : u[k].result.gas_recipient = gas_recipient'
    BY <1>1, <1>2, <1>8
  <2>7. Built(parse_mode, u, 2, eth_blocks', cut, block_txs', block_gas_used', gas_recipient')
    BY <1>7, <2>1, <2>2, <2>3, <2>4, <2>5, <2>6 DEF Built
  <2> QED
    BY <2>1, <2>7
<1>11. Changes(parse_mode, eth_blocks', block_txs', gas_recipient')
  BY <1>1, <1>4, <1>5 DEF Changes
<1> QED
  BY <1>1, <1>2, <1>10, <1>11, RoundInv DEF u

LEMMA NewRecipientStep ==
  ASSUME SlotInv, NewRecipient
  PROVE  SlotInv'
<1> DEFINE u == transactions'
           B == EthBlock(block_txs, block_gas_used, gas_recipient)
           L == Len(eth_blocks)
<1>1. /\ Round /\ parse_mode = "EngineApi" /\ block_txs # <<>>
      /\ Current.result.gas_recipient # gas_recipient
      /\ eth_blocks' = Append(eth_blocks, B)
      /\ block_txs' = <<Updated>> /\ block_gas_used' = Current.result.gas_value
      /\ gas_recipient' = Current.result.gas_recipient
  BY DEF NewRecipient
<1>2. /\ IsSeq(eth_blocks) /\ Changes(parse_mode, eth_blocks, block_txs, gas_recipient)
      /\ GasTyped(u) /\ pos \in 1 .. Len(u) /\ u[pos].tx = Updated /\ u[pos].result = Current.result
  BY <1>1, RoundBuilt
<1>3. PICK cut : Built(parse_mode, u, pos, eth_blocks, cut, block_txs, block_gas_used, gas_recipient)
  BY <1>1, RoundBuilt
<1> HIDE DEF u
<1>4. pos \in Nat \ {0} /\ Len(u) \in Nat /\ pos \in 1 .. (Len(u) + 1)
  BY <1>2 DEF GasTyped
<1>5. PICK last : /\ last \in [0 .. (L + 1) -> 0 .. (pos - 1)]
                  /\ CutInto(parse_mode, u, Append(eth_blocks, B), last)
                  /\ last[L + 1] = pos - 1
  BY <1>1, <1>2, <1>3, <1>4, BlockClosed
<1>6. /\ IsSeq(eth_blocks') /\ Len(eth_blocks') = L + 1 /\ L \in Nat
      /\ \A b \in 1 .. L : eth_blocks'[b] = eth_blocks[b]
      /\ eth_blocks'[L + 1] = B
  <2> HIDE DEF B
  <2> QED
    BY <1>1, <1>2, Appended, SeqFacts
<1>7. B.gas_recipient = gas_recipient
  BY DEF EthBlock
<1> HIDE DEF B, L
<1>8. /\ GasUpTo(u)[pos] = GasUpTo(u)[pos - 1] + u[pos].result.gas_value
      /\ GasUpTo(u)[pos - 1] \in Nat /\ u[pos].result.gas_value \in Nat
  <2>1. pos - 1 \in 0 .. Len(u)
    BY <1>2, <1>4
  <2> QED
    BY <1>2, <2>1, GasFacts DEF GasTyped
<1>9. Built(parse_mode, u, pos + 1, eth_blocks', last, block_txs', block_gas_used', gas_recipient')
  <2>1. (pos + 1) - 1 = pos /\ (pos - 1) + 1 = pos /\ pos - (pos - 1) = 1
    BY <1>4
  <2>2. last \in [0 .. (L + 1) -> 0 .. pos]
    BY <1>4, <1>5
  <2>3. block_txs' = [k \in 1 .. 1 |-> u[(pos - 1) + k].tx]
    <3>1. \A k \in 1 .. 1 : (pos - 1) + k = pos
      BY <1>4
    <3>2. block_txs' = [k \in 1 .. 1 |-> u[pos].tx]
      BY <1>1, <1>2
    <3> QED
      BY <3>1, <3>2
  <2>4. block_gas_used' = GasUpTo(u)[pos] - GasUpTo(u)[pos - 1]
    BY <1>1, <1>2, <1>8
  <2>5. \A k \in pos .. pos : u[k].result.gas_recipient = gas_recipient'
    BY <1>1, <1>2, <1>4
  <2>6. CutInto(parse_mode, u, eth_blocks', last)
    BY <1>1, <1>5
  <2>7. last[Len(eth_blocks')] = pos - 1 /\ Len(eth_blocks') = L + 1
    BY <1>5, <1>6
  <2> QED
    BY <2>1, <2>2, <2>3, <2>4, <2>5, <2>6, <2>7 DEF Built
<1>10. Changes(parse_mode, eth_blocks', block_txs', gas_recipient')
  <2>1. block_txs' # <<>>
    BY <1>1
  <2>2. eth_blocks'[Len(eth_blocks')].gas_recipient # gas_recipient'
    BY <1>1, <1>6, <1>7
  <2>3. ASSUME NEW b \in 2 .. (L + 1)
        PROVE  eth_blocks'[b].gas_recipient # eth_blocks'[b - 1].gas_recipient
    <3>1. CASE b \in 2 .. L
      <4>1. b \in 1 .. L /\ b - 1 \in 1 .. L
        BY <1>6, <3>1
      <4>2. eth_blocks[b].gas_recipient # eth_blocks[b - 1].gas_recipient
        BY <1>1, <1>2, <3>1 DEF Changes, L
      <4> QED
        BY <1>6, <4>1, <4>2
    <3>2. CASE b = L + 1
      <4>1. b - 1 = L /\ L \in 1 .. L
        BY <1>6, <3>2
      <4>2. eth_blocks # <<>>
        <5>1. Len(<<>>) = 0
          OBVIOUS
        <5> QED
          BY <4>1, <5>1 DEF L
      <4>3. eth_blocks[L].gas_recipient # gas_recipient
        BY <1>1, <1>2, <4>2 DEF Changes, L
      <4> QED
        BY <1>6, <1>7, <3>2, <4>1, <4>3
    <3> QED
      BY <1>6, <3>1, <3>2
  <2> QED
    BY <1>1, <1>6, <2>1, <2>2, <2>3 DEF Changes
<1> QED
  BY <1>1, <1>6, <1>9, <1>10, RoundInv DEF u

LEMMA SealStep ==
  ASSUME SlotInv, Seal
  PROVE  SlotInv'
<1>1. /\ stage = "execute" /\ transactions' = parse_transactions /\ stage' = "blocks"
      /\ pos' = 1 /\ block_txs' = <<>> /\ block_gas_used' = 0 /\ eth_blocks' = <<>>
      /\ parse_mode' = parse_mode /\ slot' = slot /\ executed' = executed /\ turn' = turn
      /\ history' = history
  BY DEF Seal, config
<1>2. IsSeq(executed) /\ Executed(executed, turn) /\ slot \in Nat
  BY SlotBlocksAssumption DEF SlotInv
<1> DEFINE u == parse_transactions
<1>3. PICK off, n, f : /\ FinalizedBy(u, off, n, f, executed)
                       /\ off = 1 => u[1] =
                            [tx |-> create_l1_attributes_tx(slot, slot), result |-> DefaultResult]
  BY <1>2, ParsedFacts
<1> HIDE DEF u
<1>4. SlotOpen(executed, u, 1, slot)
  BY <1>2, <1>3, SealedSlot
<1>5. GasTyped(u)
  <2>1. Len(u) \in Nat /\ DOMAIN u = 1 .. Len(u)
    BY <1>4, SeqFacts DEF SlotOpen
  <2> QED
    BY <1>4, <2>1 DEF SlotOpen, GasTyped
<1>6. IsSeq(<<>>)
  <2>1. <<>> \in Seq({})
    OBVIOUS
  <2> QED
    BY <2>1 DEF IsSeq
<1> DEFINE cut == [b \in 0 .. 0 |-> 0]
<1>7. Built(parse_mode, u, 1, <<>>, cut, <<>>, 0, gas_recipient')
  <2>1. Len(<<>>) = 0 /\ DOMAIN <<>> = {} /\ 1 - 1 = 0 /\ 0 - 0 = 0
    OBVIOUS
  <2>2. cut[0] = 0 /\ cut \in [0 .. 0 -> 0 .. 0]
    OBVIOUS
  <2> HIDE DEF cut
  <2>3. CutInto(parse_mode, u, <<>>, cut)
    BY <2>1, <2>2 DEF CutInto
  <2>4. <<>> = [k \in 1 .. 0 |-> u[0 + k].tx]
    OBVIOUS
  <2>5. 0 = GasUpTo(u)[0] - GasUpTo(u)[0]
    BY <1>5, GasFacts
  <2>6. \A k \in 1 .. 0 : u[k].result.gas_recipient = gas_recipient'
    OBVIOUS
  <2> QED
    BY <2>1, <2>2, <2>3, <2>4, <2>5, <2>6 DEF Built
<1>8. Changes(parse_mode, <<>>, <<>>, gas_recipient')
  BY DEF Changes
<1> HIDE DEF cut
<1>9. BlocksInv'
  BY <1>1, <1>4, <1>6, <1>7, <1>8 DEF BlocksInv, u
<1>10. HistoryInv'
  BY <1>1 DEF SlotInv, HistoryInv
<1> QED
  BY <1>1, <1>9, <1>10 DEF SlotInv

(* The slot is done: the blocks partition its transactions.                *)
LEMMA ClosedBlocks ==
  ASSUME NEW mode \in {"EngineApi", "SingleState"}, NEW u, NEW p, NEW blocks, NEW cut, NEW btxs,
         NEW gas, NEW recipient, NEW all,
         Built(mode, u, p, blocks, cut, btxs, gas, recipient), IsSeq(blocks), GasTyped(u),
         p = Len(u) + 1, Changes(mode, blocks, btxs, recipient),
         all = IF btxs = <<>> THEN blocks ELSE Append(blocks, EthBlock(btxs, gas, recipient))
  PROVE  IsSeq(all) /\ Partitioned(mode, u, all)
<1> DEFINE L == Len(blocks)
           B == EthBlock(btxs, gas, recipient)
<1>1. /\ L \in Nat /\ DOMAIN blocks = 1 .. L /\ Len(u) \in Nat /\ p - 1 = Len(u)
      /\ p \in 1 .. (Len(u) + 1) /\ p \in Nat \ {0}
  BY SeqFacts DEF GasTyped
<1>2. Len(<<>>) = 0
  OBVIOUS
<1>3. CASE btxs = <<>>
  <2>1. blocks = <<>> /\ all = blocks
    BY <1>3 DEF Changes
  <2>2. L = 0
    BY <1>2, <2>1
  <2>3. cut \in [0 .. L -> 0 .. (p - 1)] /\ CutInto(mode, u, blocks, cut)
    BY DEF Built
  <2>4. Len(btxs) = p - 1 - cut[L] /\ cut[L] \in 0 .. (p - 1)
    BY <1>1, BuiltTxs
  <2>5. cut[L] = Len(u)
    BY <1>1, <1>2, <1>3, <2>4
  <2>6. cut \in [0 .. L -> 0 .. Len(u)]
    BY <1>1, <2>3
  <2>7. \A b \in 2 .. L : FALSE
    BY <2>2
  <2>8. L <= 1
    BY <2>2
  <2> QED
    BY <2>1, <2>3, <2>5, <2>6, <2>7, <2>8 DEF Partitioned
<1>4. CASE btxs # <<>>
  <2>1. all = Append(blocks, B)
    BY <1>4
  <2>2. PICK last : /\ last \in [0 .. (L + 1) -> 0 .. (p - 1)]
                    /\ CutInto(mode, u, Append(blocks, B), last)
                    /\ last[L + 1] = p - 1
    BY <1>1, <1>4, BlockClosed
  <2>3. B.gas_recipient = recipient
    BY DEF EthBlock
  <2> HIDE DEF B
  <2>4. /\ IsSeq(all) /\ Len(all) = L + 1 /\ all[L + 1] = B
        /\ \A b \in 1 .. L : all[b] = blocks[b]
    BY <2>1, Appended
  <2>5. \E c \in [0 .. Len(all) -> 0 .. Len(u)] : CutInto(mode, u, all, c) /\ c[Len(all)] = Len(u)
    BY <1>1, <2>1, <2>2, <2>4
  <2>6. ASSUME mode = "EngineApi", NEW b \in 2 .. Len(all)
        PROVE  all[b].gas_recipient # all[b - 1].gas_recipient
    <3>1. b \in 2 .. L \/ b = L + 1
      BY <1>1, <2>4
    <3>2. CASE b \in 2 .. L
      <4>1. b \in 1 .. L /\ b - 1 \in 1 .. L
        BY <1>1, <3>2
      <4>2. blocks[b].gas_recipient # blocks[b - 1].gas_recipient
        BY <2>6, <3>2 DEF Changes
      <4> QED
        BY <2>4, <4>1, <4>2
    <3>3. CASE b = L + 1
      <4>1. b - 1 = L /\ L \in 1 .. L
        BY <1>1, <2>4, <3>3
      <4>2. blocks # <<>>
        BY <1>2, <4>1
      <4>3. blocks[L].gas_recipient # recipient
        BY <2>6, <4>2 DEF Changes
      <4> QED
        BY <2>3, <2>4, <3>3, <4>1, <4>3
    <3> QED
      BY <3>1, <3>2, <3>3
  <2>7. ASSUME mode = "SingleState" PROVE Len(all) <= 1
    <3>1. blocks = <<>>
      BY <2>7 DEF Changes
    <3>2. L = 0
      BY <1>2, <3>1
    <3> QED
      BY <2>4, <3>2
  <2> QED
    BY <2>4, <2>5, <2>6, <2>7 DEF Partitioned
<1> QED
  BY <1>3, <1>4

LEMMA CloseStep ==
  ASSUME SlotInv, Close
  PROVE  SlotInv'
<1> DEFINE all == IF block_txs = <<>> THEN eth_blocks
                  ELSE Append(eth_blocks, EthBlock(block_txs, block_gas_used, gas_recipient))
           h == [executed |-> executed, transactions |-> transactions, eth_blocks |-> all]
<1>1. /\ stage = "blocks" /\ pos = Len(transactions) + 1
      /\ history' = [s \in 1 .. slot |-> IF s < slot THEN history[s] ELSE h]
      /\ executed' = <<>> /\ parse_mode' = parse_mode /\ turn' = turn
      /\ IF slot < MaxSlot THEN slot' = slot + 1 /\ stage' = "execute"
         ELSE stage' = "done" /\ slot' = slot
  BY DEF Close, config
<1>2. /\ parse_mode \in {"EngineApi", "SingleState"} /\ slot \in 1 .. MaxSlot /\ turn \in Nat
      /\ IsSeq(executed) /\ Executed(executed, turn) /\ BlocksInv /\ HistoryInv
  BY <1>1 DEF SlotInv
<1>3. MaxSlot \in Nat /\ slot \in Nat
  BY <1>2, SlotBlocksAssumption
<1>4. /\ SlotOpen(executed, transactions, pos, slot) /\ IsSeq(eth_blocks)
      /\ Changes(parse_mode, eth_blocks, block_txs, gas_recipient)
  BY <1>2 DEF BlocksInv
<1>5. PICK cut : Built(parse_mode, transactions, pos, eth_blocks, cut, block_txs, block_gas_used,
                       gas_recipient)
  BY <1>2 DEF BlocksInv
<1>6. Len(transactions) \in Nat /\ DOMAIN transactions = 1 .. Len(transactions)
  BY <1>4, SeqFacts DEF SlotOpen
<1>7. GasTyped(transactions)
  BY <1>4, <1>6 DEF SlotOpen, GasTyped
<1>8. IsSeq(all) /\ Partitioned(parse_mode, transactions, all)
  BY <1>1, <1>2, <1>4, <1>5, <1>7, ClosedBlocks
<1>9. ASSUME NEW k \in DOMAIN transactions PROVE FinalTx(transactions[k].tx, slot)
  <2>1. k < pos
    BY <1>1, <1>6
  <2> QED
    BY <1>4, <2>1 DEF SlotOpen
<1>10. h.executed = executed /\ h.transactions = transactions /\ h.eth_blocks = all
  OBVIOUS
<1> HIDE DEF all
<1> HIDE DEF h
<1>11. SlotDone(parse_mode, h, slot, turn)
  BY <1>2, <1>4, <1>8, <1>9, <1>10 DEF SlotDone, SlotOpen
<1>12. stage # "done" /\ DOMAIN history = 1 .. (slot - 1)
  BY <1>1, <1>2 DEF HistoryInv
<1>13. /\ DOMAIN history' = 1 .. slot /\ history'[slot] = h
       /\ \A s \in 1 .. (slot - 1) : history'[s] = history[s]
  <2>1. slot \in 1 .. slot /\ ~(slot < slot)
    BY <1>2, <1>3
  <2>2. \A s \in 1 .. (slot - 1) : s \in 1 .. slot /\ s < slot
    BY <1>3
  <2> QED
    BY <1>1, <2>1, <2>2
<1>14. \A s \in 1 .. slot : s \in 1 .. (slot - 1) \/ s = slot
  BY <1>3
<1>15. /\ stage' \in {"execute", "done"} /\ slot' \in 1 .. MaxSlot
       /\ (IF stage' = "done" THEN slot' ELSE slot' - 1) = slot
  BY <1>1, <1>2, <1>3
<1>16. IsSeq(executed') /\ DOMAIN executed' = {}
  <2>1. <<>> \in Seq({}) /\ DOMAIN <<>> = {}
    OBVIOUS
  <2> QED
    BY <1>1, <2>1 DEF IsSeq
<1>17. HistoryInv'
  <2>1. DOMAIN history' = 1 .. (IF stage' = "done" THEN slot' ELSE slot' - 1)
    BY <1>13, <1>15
  <2>2. ASSUME NEW s \in DOMAIN history'
        PROVE  SlotDone(parse_mode', history'[s], s, turn') /\ Apart(history'[s].executed, executed')
    <3>1. SlotDone(parse_mode, history'[s], s, turn)
      BY <1>2, <1>11, <1>12, <1>13, <1>14 DEF HistoryInv
    <3> QED
      BY <1>1, <1>16, <3>1 DEF Apart
  <2>3. ASSUME NEW s \in DOMAIN history', NEW t \in DOMAIN history', s # t
        PROVE  Apart(history'[s].executed, history'[t].executed)
    <3>1. CASE s \in 1 .. (slot - 1) /\ t \in 1 .. (slot - 1)
      BY <1>2, <1>12, <1>13, <2>3, <3>1 DEF HistoryInv
    <3>2. CASE s \in 1 .. (slot - 1) /\ t = slot
      BY <1>2, <1>10, <1>12, <1>13, <3>2 DEF HistoryInv
    <3>3. CASE s = slot /\ t \in 1 .. (slot - 1)
      <4>1. Apart(history[t].executed, executed)
        BY <1>2, <1>12, <3>3 DEF HistoryInv
      <4>2. Apart(executed, history[t].executed)
        BY <4>1 DEF Apart
      <4> QED
        BY <1>10, <1>13, <3>3, <4>2
    <3> QED
      BY <1>13, <1>14, <2>3, <3>1, <3>2, <3>3
  <2> QED
    BY <2>1, <2>2, <2>3 DEF HistoryInv
<1>18. Executed(executed', turn')
  BY <1>16 DEF Executed
<1> QED
  BY <1>1, <1>2, <1>15, <1>16, <1>17, <1>18 DEF SlotInv

-----------------------------------------------------------------------------
(* The invariant holds.                                                    *)

LEMMA InitInv ==
  ASSUME Init
  PROVE  SlotInv
<1>1. /\ parse_mode \in {"EngineApi", "SingleState"} /\ slot = 1 /\ executed = <<>>
      /\ stage = "execute" /\ turn = 0 /\ history = <<>>
  BY DEF Init
<1>2. <<>> \in Seq({}) /\ DOMAIN <<>> = {} /\ 1 .. (1 - 1) = {}
  OBVIOUS
<1>3. IsSeq(executed) /\ Executed(executed, turn)
  BY <1>1, <1>2 DEF IsSeq, Executed
<1>4. HistoryInv
  BY <1>1, <1>2 DEF HistoryInv
<1>5. slot \in 1 .. MaxSlot
  BY <1>1, SlotBlocksAssumption
<1> QED
  BY <1>1, <1>3, <1>4, <1>5 DEF SlotInv

LEMMA NextInv ==
  ASSUME SlotInv, [Next]_vars
  PROVE  SlotInv'
<1>1. ASSUME NEW o \in Outcomes, NEW order \in Orders, ExecuteTx(o, order)
      PROVE  SlotInv'
  BY <1>1, ExecuteTxStep
<1>2. ASSUME NEW d \in Deposits, ExecuteDeposit(d)
      PROVE  SlotInv'
  BY <1>2, ExecuteDepositStep
<1>3. CASE Seal
  BY <1>3, SealStep
<1>4. CASE SameRecipient
  <2>1. Round /\ Join /\ Current.result.gas_recipient = gas_recipient
    BY <1>4 DEF SameRecipient
  <2> QED
    BY <2>1, JoinStep
<1>5. CASE FirstRecipient
  BY <1>5, FirstRecipientStep
<1>6. CASE NewRecipient
  BY <1>6, NewRecipientStep
<1>7. CASE SingleBlock
  <2>1. Round /\ Join /\ parse_mode # "EngineApi"
    BY <1>7 DEF SingleBlock
  <2> QED
    BY <2>1, JoinStep
<1>8. CASE Close
  BY <1>8, CloseStep
<1>9. CASE UNCHANGED vars
  <2>1. /\ parse_mode' = parse_mode /\ slot' = slot /\ executed' = executed /\ stage' = stage
        /\ transactions' = transactions /\ pos' = pos /\ block_txs' = block_txs
        /\ block_gas_used' = block_gas_used /\ gas_recipient' = gas_recipient
        /\ eth_blocks' = eth_blocks /\ turn' = turn /\ history' = history
    BY <1>9 DEF vars, config, blockVars
  <2>2. BlocksInv <=> BlocksInv'
    BY <2>1 DEF BlocksInv
  <2>3. HistoryInv <=> HistoryInv'
    BY <2>1 DEF HistoryInv
  <2> QED
    BY <2>1, <2>2, <2>3 DEF SlotInv
<1> QED
  BY <1>1, <1>2, <1>3, <1>4, <1>5, <1>6, <1>7, <1>8, <1>9 DEF Next

(***************************************************************************)
(* The inductive invariant of create_eth_blocks and of the slots before:   *)
(* between two rounds the closed blocks and the block at hand are a cut of *)
(* the transactions so far, and what was executed was reported.            *)
(***************************************************************************)
THEOREM SlotBlocksInvariant == Spec => []SlotInv
<1>1. Init => SlotInv
  BY InitInv
<1>2. SlotInv /\ [Next]_vars => SlotInv'
  BY NextInv
<1> QED
  BY <1>1, <1>2, PTL DEF Spec

(***************************************************************************)
(* Every transaction whose log is whole is reported with the result it was *)
(* executed with, and none with another exit reason than its own           *)
(* (parse_transaction_meta, finalize_slot).                                *)
(***************************************************************************)
THEOREM ReportedAsExecutedCorrect == Spec => []ReportedAsExecuted
<1>1. SlotInv => ReportedAsExecuted
  BY DEF SlotInv, HistoryInv, SlotDone, ReportedAsExecuted
<1> QED
  BY <1>1, SlotBlocksInvariant, PTL

(***************************************************************************)
(* The blocks of a slot are its transactions, cut where the gas recipient  *)
(* changes, with the gas of those they hold (create_eth_blocks).           *)
(***************************************************************************)
THEOREM BlocksPartitionSlotCorrect == Spec => []BlocksPartitionSlot
<1>1. SlotInv => BlocksPartitionSlot
  BY DEF SlotInv, HistoryInv, SlotDone, BlocksPartitionSlot
<1> QED
  BY <1>1, SlotBlocksInvariant, PTL

-----------------------------------------------------------------------------
(* Hashes.                                                                 *)

LEMMA CutMonotone ==
  ASSUME NEW n \in Nat, NEW N \in Nat, NEW cut \in [0 .. n -> 0 .. N],
         \A b \in 1 .. n : cut[b - 1] < cut[b]
  PROVE  \A b \in 0 .. n : \A a \in 0 .. b : cut[a] <= cut[b]
<1> DEFINE Done == {b \in 0 .. n : \A a \in 0 .. b : cut[a] <= cut[b]}
<1>1. \A b \in 0 .. n : cut[b] \in 0 .. N
  OBVIOUS
<1>2. 0 \in Done
  <2>1. \A a \in 0 .. 0 : a = 0
    OBVIOUS
  <2>2. cut[0] <= cut[0] /\ 0 \in 0 .. n
    BY <1>1
  <2> QED
    BY <2>1, <2>2
<1>3. ASSUME NEW k \in 1 .. n, k - 1 \in Done PROVE k \in Done
  <2>1. k \in 0 .. n /\ k - 1 \in 0 .. n
    OBVIOUS
  <2>2. cut[k - 1] < cut[k] /\ cut[k] \in 0 .. N /\ cut[k - 1] \in 0 .. N
    BY <1>1, <2>1
  <2>3. ASSUME NEW a \in 0 .. k PROVE cut[a] <= cut[k]
    <3>1. a = k \/ a \in 0 .. (k - 1)
      OBVIOUS
    <3>2. CASE a \in 0 .. (k - 1)
      <4>1. cut[a] <= cut[k - 1]
        BY <1>3, <3>2
      <4>2. cut[a] \in 0 .. N
        <5>1. a \in 0 .. n
          BY <3>2
        <5> QED
          BY <1>1, <5>1
      <4> QED
        BY <2>2, <4>1, <4>2
    <3> QED
      BY <2>2, <3>1, <3>2
  <2> QED
    BY <2>1, <2>3
<1> HIDE DEF Done
<1>4. 0 .. n \subseteq Done
  BY <1>2, <1>3, IntervalInduction
<1> QED
  BY <1>4 DEF Done

(* The blocks have no position in common.                                  *)
LEMMA OneBlock ==
  ASSUME NEW mode, NEW txs, NEW blocks, IsSeq(txs), IsSeq(blocks),
         NEW cut \in [0 .. Len(blocks) -> 0 .. Len(txs)], CutInto(mode, txs, blocks, cut),
         NEW b \in DOMAIN blocks, NEW i \in DOMAIN blocks[b].transactions
  PROVE  /\ cut[b - 1] + i \in DOMAIN txs
         /\ blocks[b].transactions[i] = txs[cut[b - 1] + i].tx
         /\ \A c \in DOMAIN blocks : \A j \in DOMAIN blocks[c].transactions :
              cut[b - 1] + i = cut[c - 1] + j => b = c /\ i = j
<1> DEFINE L == Len(blocks)
           N == Len(txs)
<1>1. L \in Nat /\ DOMAIN blocks = 1 .. L /\ N \in Nat /\ DOMAIN txs = 1 .. N
  BY SeqFacts
<1>2. \A d \in 1 .. L : /\ d \in 0 .. L /\ d - 1 \in 0 .. L
                        /\ cut[d - 1] \in 0 .. N /\ cut[d] \in 0 .. N
  BY <1>1
<1>3. ASSUME NEW d \in 1 .. L
      PROVE  /\ cut[d - 1] < cut[d]
             /\ blocks[d].transactions = [k \in 1 .. (cut[d] - cut[d - 1]) |-> txs[cut[d - 1] + k].tx]
  BY <1>1 DEF CutInto, IsBlock
<1> HIDE DEF L, N
<1>4. ASSUME NEW d \in 1 .. L, NEW k \in DOMAIN blocks[d].transactions
      PROVE  /\ k \in 1 .. (cut[d] - cut[d - 1])
             /\ cut[d - 1] + k \in (cut[d - 1] + 1) .. cut[d]
             /\ blocks[d].transactions[k] = txs[cut[d - 1] + k].tx
  <2>1. k \in 1 .. (cut[d] - cut[d - 1]) /\ blocks[d].transactions[k] = txs[cut[d - 1] + k].tx
    BY <1>3
  <2>2. cut[d - 1] \in 0 .. N /\ cut[d] \in 0 .. N
    BY <1>2
  <2>3. cut[d - 1] + k \in (cut[d - 1] + 1) .. cut[d]
    BY <1>1, <2>1, <2>2
  <2> QED
    BY <2>1, <2>3
<1>5. \A d \in 0 .. L : \A a \in 0 .. d : cut[a] <= cut[d]
  BY <1>1, <1>3, CutMonotone DEF L, N
<1>6. b \in 1 .. L
  BY <1>1
<1>7. cut[b - 1] + i \in 1 .. N
  <2>1. cut[b - 1] + i \in (cut[b - 1] + 1) .. cut[b]
    BY <1>4, <1>6
  <2>2. cut[b - 1] \in 0 .. N /\ cut[b] \in 0 .. N
    BY <1>2, <1>6
  <2>3. \A x \in 0 .. N, y \in 0 .. N : (x + 1) .. y \subseteq 1 .. N
    BY <1>1
  <2> QED
    BY <2>1, <2>2, <2>3
<1>8. ASSUME NEW c \in 1 .. L, NEW j \in DOMAIN blocks[c].transactions,
             cut[b - 1] + i = cut[c - 1] + j
      PROVE  b = c /\ i = j
  <2> DEFINE x == cut[b - 1] + i
  <2>1. x \in (cut[b - 1] + 1) .. cut[b] /\ x \in (cut[c - 1] + 1) .. cut[c]
    BY <1>4, <1>6, <1>8
  <2>2. /\ cut[b - 1] \in Nat /\ cut[b] \in Nat /\ cut[c - 1] \in Nat /\ cut[c] \in Nat
    <3>1. /\ cut[b - 1] \in 0 .. N /\ cut[b] \in 0 .. N
          /\ cut[c - 1] \in 0 .. N /\ cut[c] \in 0 .. N
      BY <1>2, <1>6
    <3>2. 0 .. N \subseteq Nat
      BY <1>1
    <3> QED
      BY <3>1, <3>2
  <2>3. b < c => cut[b] <= cut[c - 1]
    <3>1. b < c => b \in 0 .. (c - 1) /\ c - 1 \in 0 .. L
      BY <1>1, <1>6
    <3> QED
      BY <1>5, <3>1
  <2>4. c < b => cut[c] <= cut[b - 1]
    <3>1. c < b => c \in 0 .. (b - 1) /\ b - 1 \in 0 .. L
      BY <1>1, <1>6
    <3> QED
      BY <1>5, <3>1
  <2>5. i \in Int /\ j \in Int
    <3>1. i \in 1 .. (cut[b] - cut[b - 1]) /\ j \in 1 .. (cut[c] - cut[c - 1])
      BY <1>4, <1>6
    <3> QED
      BY <3>1
  <2> HIDE DEF x
  <2>6. ~(b < c) /\ ~(c < b)
    <3> DEFINE b0 == cut[b - 1]
               b1 == cut[b]
               c0 == cut[c - 1]
               c1 == cut[c]
    <3>1. /\ x \in (b0 + 1) .. b1 /\ x \in (c0 + 1) .. c1
          /\ b0 \in Nat /\ b1 \in Nat /\ c0 \in Nat /\ c1 \in Nat
          /\ b < c => b1 <= c0
          /\ c < b => c1 <= b0
      BY <2>1, <2>2, <2>3, <2>4
    <3> HIDE DEF b0, b1, c0, c1
    <3>2. ~(b1 <= c0) /\ ~(c1 <= b0)
      BY <3>1
    <3> QED
      BY <3>1, <3>2
  <2>7. b = c
    BY <1>1, <1>6, <2>6
  <2> QED
    BY <1>8, <2>2, <2>5, <2>7
<1> QED
  BY <1>1, <1>4, <1>6, <1>7, <1>8

(* Every transaction of a block has a position of its own in the slot.     *)
Placed(txs, blocks, cut) ==
  \A b \in DOMAIN blocks : \A i \in DOMAIN blocks[b].transactions :
    /\ cut[b - 1] + i \in DOMAIN txs
    /\ blocks[b].transactions[i] = txs[cut[b - 1] + i].tx
    /\ \A c \in DOMAIN blocks : \A j \in DOMAIN blocks[c].transactions :
         cut[b - 1] + i = cut[c - 1] + j => b = c /\ i = j

LEMMA PlacesInSlot ==
  ASSUME SlotInv, NEW s \in DOMAIN history
  PROVE  \E cut : Placed(history[s].transactions, history[s].eth_blocks, cut)
<1> DEFINE txs == history[s].transactions
           blocks == history[s].eth_blocks
<1>1. IsSeq(txs) /\ IsSeq(blocks) /\ Partitioned(parse_mode, txs, blocks)
  BY DEF SlotInv, HistoryInv, SlotDone
<1> HIDE DEF txs, blocks
<1>2. PICK cut \in [0 .. Len(blocks) -> 0 .. Len(txs)] : CutInto(parse_mode, txs, blocks, cut)
  BY <1>1 DEF Partitioned
<1>3. Placed(txs, blocks, cut)
  <2> SUFFICES ASSUME NEW b \in DOMAIN blocks, NEW i \in DOMAIN blocks[b].transactions
               PROVE  /\ cut[b - 1] + i \in DOMAIN txs
                      /\ blocks[b].transactions[i] = txs[cut[b - 1] + i].tx
                      /\ \A c \in DOMAIN blocks : \A j \in DOMAIN blocks[c].transactions :
                           cut[b - 1] + i = cut[c - 1] + j => b = c /\ i = j
    BY DEF Placed
  <2> QED
    BY <1>1, <1>2, OneBlock
<1> QED
  BY <1>3 DEF txs, blocks

(* Equal transactions of two slots are one transaction of one slot.        *)
LEMMA OneTransaction ==
  ASSUME SlotInv, NEW s \in DOMAIN history, NEW t \in DOMAIN history,
         NEW k \in DOMAIN history[s].transactions, NEW l \in DOMAIN history[t].transactions,
         history[s].transactions[k].tx = history[t].transactions[l].tx
  PROVE  s = t /\ k = l
<1> DEFINE x == history[s].transactions[k].tx
           y == history[t].transactions[l].tx
<1>1. HistoryInv
  BY DEF SlotInv
<1>2. SlotDone(parse_mode, history[s], s, turn) /\ SlotDone(parse_mode, history[t], t, turn)
  BY <1>1 DEF HistoryInv
<1>3. FinalTx(x, s) /\ FinalTx(y, t)
  BY <1>2 DEF SlotDone
<1>4. x = y
  OBVIOUS
<1>5. x.type \in {"rollup", "deposit", "system"}
  BY <1>3, TypesOfTxs DEF FinalTx
<1>6. s = t
  <2>1. CASE x.type = "rollup"
    <3>1. PICK i \in DOMAIN history[s].executed : history[s].executed[i].tx = x
      BY <1>2, <2>1 DEF SlotDone, Reported
    <3>2. PICK j \in DOMAIN history[t].executed : history[t].executed[j].tx = y
      BY <1>2, <1>4, <2>1 DEF SlotDone, Reported
    <3>3. s # t => Apart(history[s].executed, history[t].executed)
      BY <1>1 DEF HistoryInv
    <3> HIDE DEF x, y
    <3> QED
      BY <1>4, <2>1, <3>1, <3>2, <3>3 DEF Apart
  <2>2. CASE x.type = "deposit"
    <3> HIDE DEF x, y
    <3>1. x.source = create_user_deposit_source_hash(s, x.source.n)
      BY <1>3, <2>2, TypesOfTxs DEF FinalTx
    <3>2. y.source = create_user_deposit_source_hash(t, y.source.n)
      BY <1>3, <1>4, <2>2, TypesOfTxs DEF FinalTx
    <3>3. \A q, n : create_user_deposit_source_hash(q, n).blockhash = q
      BY DEF create_user_deposit_source_hash
    <3>4. x.source.blockhash = s
      BY <3>1, <3>3
    <3>5. y.source.blockhash = t
      BY <3>2, <3>3
    <3> QED
      BY <1>4, <3>4, <3>5
  <2>3. CASE x.type = "system"
    <3> HIDE DEF x, y
    <3>1. x = create_l1_attributes_tx(s, s)
      BY <1>3, <2>3, TypesOfTxs DEF FinalTx
    <3>2. y = create_l1_attributes_tx(t, t)
      BY <1>3, <1>4, <2>3, TypesOfTxs DEF FinalTx
    <3>3. \A q : create_l1_attributes_tx(q, q).source.n = q
      BY DEF create_l1_attributes_tx, create_l1_attributes_source_hash
    <3>4. x.source.n = s
      BY <3>1, <3>3
    <3>5. y.source.n = t
      BY <3>2, <3>3
    <3> QED
      BY <1>4, <3>4, <3>5
  <2> QED
    BY <1>5, <2>1, <2>2, <2>3
<1>7. k = l
  BY <1>2, <1>6 DEF SlotDone, Distinct
<1> QED
  BY <1>6, <1>7

(***************************************************************************)
(* No transaction hash occurs twice in the blocks of the rollup, for any   *)
(* number of slots and any repetition of deposits                          *)
(* (update_if_user_deposited_tx, create_eth_blocks).                       *)
(***************************************************************************)
THEOREM HashesUniqueCorrect == Spec => []HashesUnique
<1>1. ASSUME SlotInv PROVE HashesUnique
  <2> SUFFICES ASSUME NEW s \in DOMAIN history, NEW t \in DOMAIN history,
                      NEW b \in DOMAIN history[s].eth_blocks, NEW c \in DOMAIN history[t].eth_blocks,
                      NEW i \in DOMAIN history[s].eth_blocks[b].transactions,
                      NEW j \in DOMAIN history[t].eth_blocks[c].transactions,
                      history[s].eth_blocks[b].transactions[i] = history[t].eth_blocks[c].transactions[j]
               PROVE  s = t /\ b = c /\ i = j
    BY DEF HashesUnique
  <2>1. PICK cut : Placed(history[s].transactions, history[s].eth_blocks, cut)
    BY <1>1, PlacesInSlot
  <2>2. PICK cut2 : Placed(history[t].transactions, history[t].eth_blocks, cut2)
    BY <1>1, PlacesInSlot
  <2> DEFINE k == cut[b - 1] + i
             l == cut2[c - 1] + j
             m == cut[c - 1] + j
  <2>3. /\ k \in DOMAIN history[s].transactions
        /\ history[s].eth_blocks[b].transactions[i] = history[s].transactions[k].tx
    BY <2>1 DEF Placed
  <2>4. /\ l \in DOMAIN history[t].transactions
        /\ history[t].eth_blocks[c].transactions[j] = history[t].transactions[l].tx
    BY <2>2 DEF Placed
  <2> HIDE DEF k, l
  <2>5. s = t
    <3>1. history[s].transactions[k].tx = history[t].transactions[l].tx
      BY <2>3, <2>4
    <3> QED
      BY <1>1, <2>3, <2>4, <3>1, OneTransaction
  <2>6. /\ m \in DOMAIN history[s].transactions
        /\ history[s].eth_blocks[c].transactions[j] = history[s].transactions[m].tx
    BY <2>1, <2>5 DEF Placed
  <2> HIDE DEF m
  <2>7. history[s].transactions[k].tx = history[s].transactions[m].tx
    BY <2>3, <2>5, <2>6
  <2>8. k = m
    BY <1>1, <2>3, <2>6, <2>7, OneTransaction
  <2>9. b = c /\ i = j
    BY <2>1, <2>5, <2>8 DEF Placed, k, m
  <2> QED
    BY <2>5, <2>9
<1> QED
  BY <1>1, SlotBlocksInvariant, PTL

=============================================================================
