------------------------------ MODULE LogParser ------------------------------
(***************************************************************************)
(* LogParser: what a rollup transaction did, read from the log of the      *)
(* Solana transaction that executed it.                                    *)
(*                                                                         *)
(* A log line is [data, items]: whether it starts with "Program data: ",   *)
(* and the byte strings in it.  An item is <<len, tag, v>>: its length,    *)
(* the tag it is equal to, if any, and its value as a number.  The base64  *)
(* encoding is left out.  Five state machines read each line from the      *)
(* start; "Err" is the state after an error.                               *)
(***************************************************************************)
EXTENDS Integers, Sequences

Item(len, v) == <<len, "", v>>
Tag(tag) == <<12, tag, 0>>
Length(item) == item[1]
Is(item, tag) == item[2] = tag
Value(item) == item[3]
NoItem == Item(0, 0)
Items == Nat \X {""} \X Nat

Err(p) == [p EXCEPT !.state = "Err"]

-----------------------------------------------------------------------------
(* EventParser *)

EventInit == [state |-> "Init", topics_len |-> 0, address |-> NoItem, topics |-> <<>>,
              data |-> NoItem]

EventParser ==
  [state : {"Init", "Address", "TopicsLen", "Topics", "Data", "Err"}, topics_len : Nat,
   address : Items, topics : Seq(Items), data : Items]

(* Mutant of EventAdvance: no data is expected after the last topic.       *)
EventAdvanceNoData(p, item) ==
  CASE p.state = "Init" -> IF Is(item, "EVENT_LOG") THEN [p EXCEPT !.state = "Address"] ELSE p
    [] p.state = "Address" -> [p EXCEPT !.address = item, !.state = "TopicsLen"]
    [] p.state = "TopicsLen" -> [p EXCEPT !.topics_len = Value(item), !.state = "Topics"]
    [] p.state = "Topics" -> IF Length(item) # 32 THEN Err(p) ELSE [p EXCEPT !.topics = Append(@, item)]

EventAdvance(p, item) ==
  CASE p.state = "Init" ->
         IF Is(item, "EVENT_LOG") THEN [p EXCEPT !.state = "Address"] ELSE p
    [] p.state = "Address" ->
         IF Length(item) # 20 THEN Err(p) ELSE [p EXCEPT !.address = item, !.state = "TopicsLen"]
    [] p.state = "TopicsLen" ->
         IF Length(item) # 1 THEN Err(p)
         ELSE [p EXCEPT !.topics_len = Value(item), !.state = IF Value(item) > 0 THEN "Topics" ELSE "Data"]
    [] p.state = "Topics" ->
         IF Length(item) # 32 THEN Err(p)
         ELSE [p EXCEPT !.topics = Append(@, item),
                        !.state = IF Len(p.topics) + 1 = p.topics_len THEN "Data" ELSE "Topics"]
    [] p.state = "Data" -> [p EXCEPT !.data = item]

EventFound(p) == p.state \in {"Topics", "Data"}
Event(p) == [address |-> p.address, topics |-> p.topics, data |-> p.data]

-----------------------------------------------------------------------------
(* ExitReasonParser; the length of the reason is read and not used.        *)

ReasonInit == [state |-> "Init", code |-> NoItem, reason |-> NoItem, return_value |-> NoItem]

ExitReasonParser ==
  [state : {"Init", "Code", "ReasonLen", "Reason", "ReturnValue", "Err"},
   code : Items, reason : Items, return_value : Items]

ReasonAdvance(p, item) ==
  CASE p.state = "Init" ->
         IF Is(item, "EXIT_REASON") THEN [p EXCEPT !.state = "Code"] ELSE p
    [] p.state = "Code" ->
         IF Length(item) # 1 THEN Err(p) ELSE [p EXCEPT !.code = item, !.state = "ReasonLen"]
    [] p.state = "ReasonLen" ->
         IF Length(item) # 8 THEN Err(p) ELSE [p EXCEPT !.state = "Reason"]
    [] p.state = "Reason" -> [p EXCEPT !.reason = item, !.state = "ReturnValue"]
    [] p.state = "ReturnValue" -> [p EXCEPT !.return_value = item]

ReasonFound(p) == p.state \in {"Reason", "ReturnValue"}
ExitReason(p) == [code |-> p.code, reason |-> p.reason, return_value |-> p.return_value]

-----------------------------------------------------------------------------
(* GasValueParser, GasPriceParser and GasRecipientParser: an item of the   *)
(* given length after the tag.                                             *)

GasInit == [state |-> "Init", val |-> NoItem]

GasParser == [state : {"Init", "Value", "Found", "Err"}, val : Items]

GasAdvance(tag, len, p, item) ==
  CASE p.state = "Init" -> IF Is(item, tag) THEN [p EXCEPT !.state = "Value"] ELSE p
    [] p.state = "Value" ->
         IF Length(item) # len THEN Err(p) ELSE [p EXCEPT !.val = item, !.state = "Found"]
    [] p.state = "Found" -> p

GasValueAdvance(p, item) == GasAdvance("GAS_VALUE", 32, p, item)
GasPriceAdvance(p, item) == GasAdvance("GAS_PRICE", 32, p, item)
GasRecipientAdvance(p, item) == GasAdvance("GAS_RECIPIENT", 20, p, item)

-----------------------------------------------------------------------------
(* The five implementations of Parser.                                     *)

Parsers == {"event", "reason", "value", "price", "recipient"}

default(parser) ==
  IF parser = "event" THEN EventInit ELSE IF parser = "reason" THEN ReasonInit ELSE GasInit

advance(parser, p, item) ==
  CASE parser = "event" -> EventAdvance(p, item)
    [] parser = "reason" -> ReasonAdvance(p, item)
    [] parser = "value" -> GasValueAdvance(p, item)
    [] parser = "price" -> GasPriceAdvance(p, item)
    [] parser = "recipient" -> GasRecipientAdvance(p, item)

(* consume: all items of a line through advance, up to the first error.    *)
consume(parser, line) ==
  LET read[i \in 0 .. Len(line.items)] ==
        IF i = 0 THEN default(parser)
        ELSE IF read[i - 1].state = "Err" THEN read[i - 1]
        ELSE advance(parser, read[i - 1], line.items[i])
  IN  IF line.data THEN read[Len(line.items)] ELSE default(parser)

-----------------------------------------------------------------------------
(* LogParser::parse: what is found on a later line replaces what was found *)
(* before, except events, which are collected.                             *)

NoRecipient == 0
NoReason == ExitReason(ReasonInit)
NewLogParser == [ok |-> TRUE, events |-> <<>>, exited |-> FALSE, exit_reason |-> NoReason,
                 gas_value |-> 0, gas_price |-> 0, gas_recipient |-> NoRecipient]

ParseLine(l, line) ==
  LET event     == consume("event", line)
      reason    == consume("reason", line)
      value     == consume("value", line)
      price     == consume("price", line)
      recipient == consume("recipient", line)
  IN  IF ~l.ok THEN l
      ELSE IF "Err" \in {event.state, reason.state, value.state, price.state, recipient.state}
      THEN [l EXCEPT !.ok = FALSE]
      ELSE [l EXCEPT
             !.events = IF EventFound(event) THEN Append(@, Event(event)) ELSE @,
             !.exited = @ \/ ReasonFound(reason),
             !.exit_reason = IF ReasonFound(reason) THEN ExitReason(reason) ELSE @,
             !.gas_value = IF value.state = "Found" THEN Value(value.val) ELSE @,
             !.gas_price = IF price.state = "Found" THEN Value(price.val) ELSE @,
             !.gas_recipient = IF recipient.state = "Found" THEN Value(recipient.val) ELSE @]

parse(lines) ==
  LET parsed[k \in 0 .. Len(lines)] ==
        IF k = 0 THEN NewLogParser ELSE ParseLine(parsed[k - 1], lines[k])
  IN  parsed[Len(lines)]

(* The state machines start in states of theirs.                           *)
ASSUME ParserStates ==
  /\ EventInit \in EventParser /\ ReasonInit \in ExitReasonParser /\ GasInit \in GasParser
  /\ NewLogParser \in [ok : BOOLEAN, events : Seq({}), exited : BOOLEAN,
                       exit_reason : [code : Items, reason : Items, return_value : Items],
                       gas_value : Nat, gas_price : Nat, gas_recipient : Nat]

(* TxResult.  The values of gas not found are zero.                        *)
TxResult(exit_reason, logs, value, price, recipient) ==
  [exit_reason |-> exit_reason, logs |-> logs, gas_value |-> value, gas_price |-> price,
   gas_recipient |-> recipient]

DefaultResult == TxResult(NoReason, <<>>, 0, 0, NoRecipient)

(* parse_transaction_meta: no result, or an error, are both the empty set. *)
ResultIn(l) ==
  IF l.ok /\ l.exited
  THEN {TxResult(l.exit_reason, l.events, l.gas_value, l.gas_price, l.gas_recipient)}
  ELSE {}
parse_transaction_meta(lines) == ResultIn(parse(lines))
=============================================================================
