---------------------------- MODULE SolanaClient ----------------------------
(***************************************************************************)
(* MultiplexedSolanaClient: a request is sent to all RPC providers at once *)
(* and repeated, and in the end put to the emergency providers.            *)
(*                                                                         *)
(* An operator is the set of the outcomes a call may have, given the set   *)
(* of answers a provider may give at that time.  The delay between two     *)
(* attempts is left out: a call that succeeds after a while is a call      *)
(* that was made later.                                                    *)
(***************************************************************************)
EXTENDS Integers, Sequences, SequencesExt

CONSTANTS
  NumProviders,    \* number of providers
  NumEmergency,    \* number of emergency providers, 0 for None
  NumRetries       \* num_retries

(* With zero retries the counter of plex_with_retries underflows.          *)
ASSUME ClientAssumption ==
  NumProviders \in Nat \ {0} /\ NumEmergency \in Nat /\ NumRetries \in Nat \ {0}

(* ClientResult: Ok with a value, or the kind of an error, with the code   *)
(* of an RpcResponseError.                                                 *)
Answer(kind, code, val) == [kind |-> kind, code |-> code, val |-> val]
Ok(val) == Answer("Ok", 0, val)
RpcResponseError(code, any) == Answer("RpcResponseError", code, any)
ClientError(kind, any) == Answer(kind, 0, any)

(* The first Ok that arrives.  When all have failed, the error of the last *)
(* provider of the list.                                                   *)
plex(answers) ==
  LET oks == {i \in DOMAIN answers : answers[i].kind = "Ok"}
  IN  IF oks # {} THEN {answers[i] : i \in oks} ELSE {Last(answers)}

(* ProgramResult<Option<T>>.                                               *)
Outcome(tag, val) == [tag |-> tag, val |-> val]

process_plex_result(r) ==
  Outcome(CASE r.kind = "Ok" -> "Some"
            [] r.kind \in {"SerdeJson", "RpcError"} -> "None"
            [] r.kind = "RpcResponseError" ->
                 CASE r.code = -32011 -> "Panic"  \* no transaction history
                   [] r.code = -32007 -> "None"   \* slot skipped
                   [] OTHER -> "Err"              \* -32005, -32009, -32004, ...
            [] OTHER -> "Err", r.val)

Attempt(n, possible) ==
  {process_plex_result(r) : r \in UNION {plex(answers) : answers \in [1 .. n -> possible]}}

IsErr(o) == o.tag = "Err"

(* The outcomes with k attempts left.                                      *)
plex_with_retries(possible) ==
  LET first == Attempt(NumProviders, possible)
      failed == {o \in first : IsErr(o)}
      emergency == IF NumEmergency = 0 THEN failed ELSE Attempt(NumEmergency, possible)
      outcomes[k \in 0 .. NumRetries] ==
        IF k = 0 THEN emergency
        ELSE {o \in first : ~IsErr(o)} \cup IF failed = {} THEN {} ELSE outcomes[k - 1]
  IN  outcomes[NumRetries]
=============================================================================
