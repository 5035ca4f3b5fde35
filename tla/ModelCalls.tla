----------------------------- MODULE ModelCalls -----------------------------
(***************************************************************************)
(* A streamed call of the model, and everything that is sent for it.       *)
(*                                                                         *)
(*   shinku/llm/runtime_chat_stream.py  preflight, stream, reconnect,      *)
(*                                      rescue                             *)
(*   shinku/llm/runtime_json_call.py    the requests that are not streamed *)
(*   shinku/llm/runtime_transport.py    retries, and hints left out        *)
(*   shinku/llm/request_ledger.py       a row for each request sent        *)
(*   shinku/llm/circuit_breaker.py      failures in a row                  *)
(*                                                                         *)
(* Callers share the switch and nothing else.  What a response says is     *)
(* whether it can be used.  Left out: deadlines and pauses, which only     *)
(* fail a request, and for how long the switch is open: nothing asks it.   *)
(***************************************************************************)
EXTENDS Naturals

CONSTANTS
    Callers,
    HttpAttempts,       \* RuntimePolicy
    StreamAttempts,
    Threshold           \* circuit_failure_threshold

(* What the constants are.                                                 *)
CallsAssumption == {HttpAttempts, StreamAttempts, Threshold} \subseteq Nat \ {0}

VARIABLES
    call,       \* each caller's call
    breaker     \* the switch: failures in a row, times it opened

callsVars == <<call, breaker>>

Ceiling == (IF HttpAttempts > StreamAttempts THEN HttpAttempts ELSE StreamAttempts) + 1

(* left: attempt_budget; http, try: attempts of this dispatch, streams of  *)
(* this call; out, parts: _ChatStreamProgress; direct: why the hints were  *)
(* left out.  History: requests sent, rows begun and ended, the requests   *)
(* whose output was passed on.                                             *)
NoCall == [at |-> "idle", kind |-> "stream", left |-> Ceiling, http |-> 1, try |-> 1,
           direct |-> "no", out |-> FALSE, parts |-> FALSE, plain |-> FALSE,
           sent |-> 0, begun |-> 0, ended |-> 0, shown |-> {}]

CallsInit ==
    /\ call = [c \in Callers |-> NoCall]
    /\ breaker = [streak |-> 0, trips |-> 0]

Does(c, next) == call' = [call EXCEPT ![c] = next]

(* dispatch_completion is entered, with a payload of its own.              *)
Dispatch(now, kind) ==
    [now EXCEPT !.at = "send", !.kind = kind, !.http = 1, !.direct = "no", !.parts = FALSE]

-----------------------------------------------------------------------------
(* stream_chat: a required tool is asked for without a stream first; a     *)
(* task's reply is never rescued.                                          *)
Call(c) ==
    /\ call[c].at = "idle"
    /\ \E kind \in {"preflight", "stream"}, plain \in BOOLEAN :
          Does(c, [Dispatch(NoCall, kind) EXCEPT !.plain = plain])
    /\ UNCHANGED breaker

(* record_failure.                                                         *)
Counted == [streak |-> IF breaker.streak < Threshold THEN breaker.streak + 1 ELSE Threshold,
            trips |-> IF breaker.streak + 1 >= Threshold THEN 1 ELSE breaker.trips]

(* Mutant: what was passed on is forgotten with the rest of the attempt.   *)
NothingCame(now) == ~now.parts

(* A reconnect is for a stream of which nothing came, ever.                *)
Silent(now) == ~now.out /\ ~now.parts

(* _recover_stream_reply, for a reply that cannot be used.                 *)
Rescued(now) ==
    IF now.plain \/ now.left = 0 THEN [now EXCEPT !.at = "done"] ELSE Dispatch(now, "rescue")

(* What comes of an exception that leaves dispatch_completion, or of a     *)
(* response that cannot be used.                                           *)
Raised(now) ==
    CASE now.kind = "preflight" -> Dispatch(now, "stream")
      [] now.kind = "rescue" -> [now EXCEPT !.at = "done"]
      [] now.kind = "stream" ->
            IF now.try < StreamAttempts /\ now.left > 0 /\ Silent(now)
            THEN [Dispatch(now, "stream") EXCEPT !.try = @ + 1]
            ELSE Rescued(now)

-----------------------------------------------------------------------------
(* send, up to the provider: the budget of attempts, whose end counts as a *)
(* failure of the provider; the task's own, whose refusal does not; then   *)
(* the row of the ledger.                                                  *)
Send(c) ==
    LET now == call[c] IN
    /\ now.at = "send"
    /\ IF now.left = 0
       THEN /\ Does(c, Raised(now))
            /\ breaker' = IF now.direct = "no" THEN Counted ELSE breaker
       ELSE /\ \/ Does(c, [now EXCEPT !.at = "create", !.left = @ - 1, !.sent = @ + 1, !.begun = @ + 1])
               \/ Does(c, Raised([now EXCEPT !.left = @ - 1]))
            /\ UNCHANGED breaker

(* The provider answers; of a stream the row stays open.                   *)
Respond(c) ==
    LET now == call[c] IN
    /\ now.at = "create"
    /\ breaker' = IF now.direct = "rejected" THEN breaker ELSE [streak |-> 0, trips |-> 0]
    /\ IF now.kind = "stream"
       THEN Does(c, [now EXCEPT !.at = "read"])
       ELSE \E usable \in BOOLEAN :
            LET read == [now EXCEPT !.ended = @ + 1] IN
            Does(c, IF usable THEN [read EXCEPT !.at = "done"] ELSE Raised(read))

(* The client does not know an argument: once more without the hints, if   *)
(* there were any.                                                         *)
Mistyped(c) ==
    LET now == [call[c] EXCEPT !.ended = @ + 1] IN
    /\ call[c].at = "create"
    /\ \/ now.direct = "no" /\ Does(c, [now EXCEPT !.at = "send", !.direct = "mistyped"])
       \/ Does(c, Raised(now))
    /\ UNCHANGED breaker

(* A failure that may pass is retried, within both budgets, and not        *)
(* counted.                                                                *)
Stumble(c) ==
    LET now == [call[c] EXCEPT !.ended = @ + 1] IN
    /\ call[c].at = "create" /\ now.direct = "no" /\ now.http < HttpAttempts
    /\ Does(c, IF now.left > 0 THEN [now EXCEPT !.at = "send", !.http = @ + 1]
               ELSE Raised(now))
    /\ UNCHANGED breaker

(* Any other is counted; when the provider rejects the hints, once more    *)
(* without them.                                                           *)
FailRequest(c) ==
    LET now == [call[c] EXCEPT !.ended = @ + 1] IN
    /\ call[c].at = "create"
    /\ \/ now.direct = "no" /\ Does(c, [now EXCEPT !.at = "send", !.direct = "rejected"])
       \/ Does(c, Raised(now))
    /\ breaker' = IF now.direct = "no" THEN Counted ELSE breaker

-----------------------------------------------------------------------------
(* A chunk: text, of which the tap may pass something on.                  *)
Chunk(c) ==
    LET now == call[c] IN
    /\ now.at = "read"
    /\ \E out \in BOOLEAN :
          Does(c, [now EXCEPT !.parts = TRUE, !.out = @ \/ out,
                              !.shown = IF out THEN @ \cup {now.sent} ELSE @])
    /\ UNCHANGED breaker

(* The stream breaks; what came may be a reply.                            *)
Break(c) ==
    LET read == [call[c] EXCEPT !.ended = @ + 1] IN
    /\ call[c].at = "read"
    /\ \/ read.parts /\ ~read.plain /\ Does(c, [read EXCEPT !.at = "done"])
       \/ Does(c, Raised(read))
    /\ UNCHANGED breaker

(* It ends, or is left early for a tool: _finish_chat_stream.              *)
Finish(c) ==
    LET read == [call[c] EXCEPT !.ended = @ + 1] IN
    /\ call[c].at = "read"
    /\ \/ read.parts /\ Does(c, [read EXCEPT !.at = "done"])
       \/ Does(c, Rescued(read))
    /\ UNCHANGED breaker

(* The consumer stops listening.                                           *)
Abandon(c) ==
    /\ call[c].at = "read"
    /\ Does(c, [call[c] EXCEPT !.at = "done", !.ended = @ + 1])
    /\ UNCHANGED breaker

CallsNext ==
    \E c \in Callers :
        \/ Call(c) \/ Send(c) \/ Respond(c) \/ Mistyped(c) \/ Stumble(c) \/ FailRequest(c)
        \/ Chunk(c) \/ Break(c) \/ Finish(c) \/ Abandon(c)

CallsSpec == CallsInit /\ [][CallsNext]_callsVars

-----------------------------------------------------------------------------
CallsTypeOK ==
    /\ \A c \in Callers :
          LET now == call[c] IN
          /\ now.at \in {"idle", "send", "create", "read", "done"}
          /\ now.kind \in {"preflight", "stream", "rescue"} /\ now.left \in 0..Ceiling
          /\ now.http \in 1..HttpAttempts /\ now.try \in 1..StreamAttempts
    /\ breaker.streak \in 0..Threshold /\ breaker.trips \in 0..1

(* Preflight, retries, reconnects, requests without hints and the rescue   *)
(* together stay within one number of requests; each request is in the     *)
(* ledger before it is sent, and its row is ended before the next one.     *)
RequestsAreBounded ==
    \A c \in Callers :
        LET now == call[c] IN
        /\ now.sent <= Ceiling - now.left
        /\ now.begun = now.sent
        /\ now.begun - now.ended = (IF now.at \in {"create", "read"} THEN 1 ELSE 0)

(* What the listener heard is of one response.                             *)
OneVoice ==
    \A c \in Callers : \A i, j \in call[c].shown : i = j
=============================================================================
