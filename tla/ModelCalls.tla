----------------------------- MODULE ModelCalls -----------------------------
(***************************************************************************)
(* Calls of a language model, by any job or request: the ceiling a day that *)
(* all processes share (domain/llm/daily_cap.py), and how one call deals    *)
(* with the provider's limits, errors and unusable replies                  *)
(* (adapters/openai_compat.py, adapters/anthropic.py).                      *)
(*                                                                         *)
(* A reply is usable or not; texts, schemas and prices are left out, what a *)
(* call costs is the number of replies it was charged for.  A call without a *)
(* schema is one whose replies never mismatch.  Every process has the same   *)
(* clock.                                                                   *)
(***************************************************************************)
EXTENDS Naturals

CONSTANTS Callers,   \* calls that may overlap
          Limit,     \* llm_daily_call_limit
          MAX_RATE_LIMIT_WAITS,
          MaxDays,   \* bound
          MaxCalls   \* bound: calls that are made

ModelCallsAssumption ==
  /\ Limit \in Nat \ {0} /\ MAX_RATE_LIMIT_WAITS \in Nat
  /\ MaxDays \in Nat \ {0} /\ MaxCalls \in Nat

VARIABLES
  adapter,   \* settings.llm_provider
  today,
  redis,     \* whether Redis answers
  counter,   \* llm:calls:<day>
  call,      \* what each caller's call is doing
  begun,     \* how many calls there have been
  admitted,  \* ghost: counted calls that went on to the provider, a day
  paused     \* ghost: days on which GET /meta has said that AI is paused

cVars == <<adapter, today, redis, counter, call, begun, admitted, paused>>

Days == 1..MaxDays
Idle == [at |-> "idle", post |-> 1, attempt |-> 0, waits |-> 0,
         replies |-> 0, spent |-> 0, result |-> "none"]

Init ==
  /\ adapter \in {"openai_compat", "anthropic"} /\ today = 1 /\ redis = TRUE
  /\ counter = [d \in Days |-> 0] /\ admitted = [d \in Days |-> 0]
  /\ call = [c \in Callers |-> Idle] /\ begun = 0 /\ paused = {}

-----------------------------------------------------------------------------
(* DailyCappedLLM.complete: the script counts the call, then it is made.     *)

\* mutant: what was counted before this call is compared
AdmitsByThoseBefore(d) == counter[d] <= Limit

Admits(d) == counter[d] + 1 <= Limit

Begins(c) ==
  /\ call[c].at \in {"idle", "done"} /\ begun < MaxCalls /\ begun' = begun + 1
  /\ call' = [call EXCEPT ![c] =
       IF redis /\ ~Admits(today) THEN [Idle EXCEPT !.at = "done", !.result = "paused"]
                                  ELSE [Idle EXCEPT !.at = "posts"]]
  /\ counter'  = [counter EXCEPT ![today] = IF redis THEN @ + 1 ELSE @]
  /\ admitted' = [admitted EXCEPT ![today] = IF redis /\ Admits(today) THEN @ + 1 ELSE @]
  /\ UNCHANGED <<adapter, today, redis, paused>>

(* ai_paused, as GET /meta shows it. *)
SaysPaused ==
  /\ redis /\ counter[today] >= Limit /\ paused' = paused \cup {today}
  /\ UNCHANGED <<adapter, today, redis, counter, call, begun, admitted>>

-----------------------------------------------------------------------------
(* OpenAICompatAdapter._post and _complete.                                 *)

Outside == <<adapter, today, redis, counter, begun, admitted, paused>>

Posting(c, by) == call[c].at = "posts" /\ adapter = by
Sets(c, next)  == call' = [call EXCEPT ![c] = next] /\ UNCHANGED Outside
Over(q, result) ==
  [q EXCEPT !.at = "done", !.result = result, !.post = 1, !.attempt = 0, !.waits = 0]
Ends(c, result) == Sets(c, Over(call[c], result))

(* A time-out or a transport error is not tried again. *)
NoAnswer(c) == Posting(c, "openai_compat") /\ Ends(c, "unavailable")

(* 429, with a retry-after that is short enough to wait for, or not. *)
WaitsOut(c) ==
  /\ Posting(c, "openai_compat") /\ call[c].waits < MAX_RATE_LIMIT_WAITS
  /\ Sets(c, [call[c] EXCEPT !.at = "sleeps", !.waits = @ + 1])
TooBusy(c) == Posting(c, "openai_compat") /\ Ends(c, "unavailable")

(* 500, 502, 503, 504 *)
ServerError(c) ==
  /\ Posting(c, "openai_compat")
  /\ IF call[c].attempt = 0 THEN Sets(c, [call[c] EXCEPT !.at = "sleeps"])
                            ELSE Ends(c, "unavailable")

(* The next turn of the loop. *)
TriesAgain(c) ==
  /\ call[c].at = "sleeps" /\ call[c].attempt < MAX_RATE_LIMIT_WAITS
  /\ Sets(c, [call[c] EXCEPT !.at = "posts", !.attempt = @ + 1])
LoopEnds(c) ==
  /\ call[c].at = "sleeps" /\ call[c].attempt = MAX_RATE_LIMIT_WAITS
  /\ Ends(c, "fell_through")

(* The provider refuses the request, or the reply has not the shape of one. *)
Refused(c)   == Posting(c, "openai_compat") /\ Ends(c, "error")
Malformed(c) ==
  /\ Posting(c, "openai_compat")
  /\ Sets(c, [Over(call[c], "error") EXCEPT !.replies = @ + 1])

(* What the result says it cost: `spent' has every reply. *)
Spent(q) == q.replies

Answers(c) ==
  LET q == [call[c] EXCEPT !.replies = @ + 1] IN
  /\ Posting(c, "openai_compat")
  /\ Sets(c, [Over(q, "ok") EXCEPT !.spent = Spent(q)])

(* A reply that does not match the schema, charged for unless the provider   *)
(* itself has noticed: one retry that quotes the problem.                    *)
Mismatch(c, charged) ==
  LET q == [call[c] EXCEPT !.replies = @ + charged] IN
  /\ Posting(c, "openai_compat")
  /\ IF q.post = 1
     THEN Sets(c, [q EXCEPT !.post = 2, !.attempt = 0, !.waits = 0])
     ELSE Sets(c, Over(q, "invalid"))

-----------------------------------------------------------------------------
(* AnthropicAdapter.complete: one request; no retry of its own.              *)

ClaudeAnswers(c) ==
  /\ Posting(c, "anthropic")
  /\ Sets(c, [call[c] EXCEPT !.at = "done", !.result = "ok", !.replies = 1, !.spent = 1])
ClaudeFails(c) ==
  \/ Posting(c, "anthropic") /\ Ends(c, "error")
  \/ /\ Posting(c, "anthropic")
     /\ Sets(c, [call[c] EXCEPT !.at = "done", !.result = "invalid", !.replies = 1])

-----------------------------------------------------------------------------
(* Redis comes and goes, and keeps what it counted; the day ends.            *)
Outage ==
  /\ redis' = ~redis
  /\ UNCHANGED <<adapter, today, counter, call, begun, admitted, paused>>
Midnight ==
  /\ today < MaxDays /\ today' = today + 1
  /\ UNCHANGED <<adapter, redis, counter, call, begun, admitted, paused>>

Next ==
  \/ SaysPaused \/ Outage \/ Midnight
  \/ \E c \in Callers :
       \/ Begins(c) \/ NoAnswer(c) \/ WaitsOut(c) \/ TooBusy(c) \/ ServerError(c)
       \/ TriesAgain(c) \/ LoopEnds(c)
       \/ Refused(c) \/ Malformed(c) \/ Answers(c) \/ \E charged \in {0, 1} : Mismatch(c, charged)
       \/ ClaudeAnswers(c) \/ ClaudeFails(c)
Spec == Init /\ [][Next]_cVars

-----------------------------------------------------------------------------
(* All callers together start no more counted calls a day than the limit     *)
(* allows, and none on a day that was said to be paused, unless Redis was    *)
(* away; a call tells the whole cost of what it returns, the reply that was   *)
(* asked for again included (DailyCappedLLM, OpenAICompatAdapter, ai_paused). *)
ModelCallsHold ==
  /\ \A d \in Days : admitted[d] <= Limit /\ (d \in paused => admitted[d] = Limit)
  /\ \A c \in Callers : call[c].result = "ok" => call[c].spent = call[c].replies

(* "the loop always returns or raises" (openai_compat.py:325): a wait is for  *)
(* one more request.  A 5xx, then two 429s: the second wait is the last turn. *)
LoopReturnsOrRaises == \A c \in Callers : call[c].result # "fell_through"
=============================================================================
