----------------------------- MODULE ModelGateway -----------------------------
(***************************************************************************)
(* The one way out to a model in a learning batch, and what it may spend.  *)
(*                                                                         *)
(*   goozam/model_gateway.py         ModelGateway, its process, and the    *)
(*                                   summary of its ledger                 *)
(*   shinku/llm/request_ledger.py    JsonCallLedger                        *)
(*                                                                         *)
(* A batch is one process in a directory of its own that is never reused.  *)
(* Tokens stand for cost as well.  The provider is free in what it answers *)
(* and charges.                                                            *)
(***************************************************************************)
EXTENDS Naturals, FiniteSets, FiniteSetsExt

CONSTANTS
    Clients,       \* who calls complete
    MaxRequests,   \* limits.requests
    MaxTokens,     \* limits.tokens
    Reserved       \* context_tokens + max_output_tokens

(* What the constants are.                                                 *)
GatewayAssumption == {MaxRequests, MaxTokens, Reserved} \subseteq Nat \ {0}

VARIABLES
    gate,       \* memory: [alive, late, requests, tokens, stopped, healthy, lock]
    revoked,    \* the file that revokes the batch
    rows,       \* calls.jsonl: the latest status of a request
    closing,    \* closed.json: what it says, or that it is not there
    charged     \* history: what the provider used, per request

gatewayVars == <<gate, revoked, rows, closing, charged>>

Calls == 1..MaxRequests
Unlocked == "none"
NotClosed == [there |-> FALSE, requests |-> 0, healthy |-> FALSE]

GatewayInit ==
    /\ gate = [alive |-> TRUE, late |-> FALSE, requests |-> 0, tokens |-> 0, stopped |-> FALSE,
               healthy |-> TRUE, lock |-> Unlocked]
    /\ revoked = FALSE
    /\ rows = [n \in Calls |-> "none"]
    /\ closing = NotClosed
    /\ charged = [n \in Calls |-> 0]

(* Mutant: a batch goes on until its tokens are spent.                     *)
AffordableUntilSpent == gate.requests < MaxRequests /\ gate.tokens < MaxTokens

(* What a call may use at most has to fit before it is made.               *)
AffordableReserve == gate.requests < MaxRequests /\ gate.tokens + Reserved <= MaxTokens

Refused == gate.stopped \/ revoked \/ gate.late \/ ~AffordableReserve

(* complete, up to the request: every refusal stops the batch for good. A  *)
(* row that cannot be written refuses this call only.                      *)
Dispatch(c) ==
    /\ gate.alive /\ gate.lock = Unlocked
    /\ \/ Refused /\ gate' = [gate EXCEPT !.stopped = TRUE] /\ UNCHANGED rows
       \/ ~Refused /\ gate' = [gate EXCEPT !.healthy = FALSE] /\ UNCHANGED rows
       \/ /\ ~Refused
          /\ rows' = [rows EXCEPT ![gate.requests + 1] = "started"]
          /\ gate' = [gate EXCEPT !.requests = @ + 1, !.lock = c]
    /\ UNCHANGED <<revoked, closing, charged>>

(* The provider answers with its usage, or not; it may even exceed what it *)
(* declared.  The final row is written before anything is decided, and     *)
(* only what is known to be complete lets the batch go on.                 *)
Settle(c) ==
    LET n == gate.requests IN
    /\ gate.alive /\ gate.lock = c
    /\ \E used \in 0..(Reserved + 1), status \in {"completed", "failed"} :
          /\ status = "completed" => used <= Reserved
          /\ charged' = [charged EXCEPT ![n] = used]
          /\ LET tokens == gate.tokens + (IF status = "completed" THEN used ELSE 0) IN
             \/ /\ rows' = [rows EXCEPT ![n] = status]
                /\ gate' = [gate EXCEPT !.tokens = tokens, !.lock = Unlocked,
                                        !.stopped = @ \/ status = "failed" \/ revoked]
             \/ /\ UNCHANGED rows
                /\ gate' = [gate EXCEPT !.tokens = tokens, !.lock = Unlocked,
                                        !.stopped = TRUE, !.healthy = FALSE]
    /\ UNCHANGED <<revoked, closing>>

Revoke == ~revoked /\ revoked' = TRUE /\ UNCHANGED <<gate, rows, closing, charged>>

Deadline == gate.alive /\ ~gate.late /\ gate' = [gate EXCEPT !.late = TRUE]
    /\ UNCHANGED <<revoked, rows, closing, charged>>

(* The alarm, a kill, or a crash; the provider goes on with what it has.   *)
Killed ==
    /\ gate.alive /\ gate' = [gate EXCEPT !.alive = FALSE]
    /\ IF gate.lock = Unlocked THEN UNCHANGED charged
       ELSE \E used \in 0..Reserved : charged' = [charged EXCEPT ![gate.requests] = used]
    /\ UNCHANGED <<revoked, rows, closing>>

(* The server hears of its end between two requests, and leaves a count.   *)
ClosesOrderly ==
    /\ gate.alive /\ gate.lock = Unlocked
    /\ closing' = [there |-> TRUE, requests |-> gate.requests, healthy |-> gate.healthy]
    /\ gate' = [gate EXCEPT !.alive = FALSE]
    /\ UNCHANGED <<revoked, rows, charged>>

GatewayNext ==
    \/ \E c \in Clients : Dispatch(c) \/ Settle(c)
    \/ Revoke \/ Deadline \/ Killed \/ ClosesOrderly

GatewaySpec == GatewayInit /\ [][GatewayNext]_gatewayVars

(* summarize_batch                                                         *)
LedgerComplete ==
    closing.there /\ closing.healthy /\ closing.requests = Cardinality({n \in Calls : rows[n] # "none"})

CostKnown == LedgerComplete /\ \A n \in Calls : rows[n] \in {"none", "completed"}

-----------------------------------------------------------------------------
(* Properties *)

GatewayTypeOK ==
    /\ gate \in [alive : BOOLEAN, late : BOOLEAN, requests : 0..MaxRequests, tokens : Nat,
                 stopped : BOOLEAN, healthy : BOOLEAN, lock : Clients \cup {Unlocked}]
    /\ revoked \in BOOLEAN
    /\ rows \in [Calls -> {"none", "started", "completed", "failed"}]
    /\ closing \in [there : BOOLEAN, requests : 0..MaxRequests, healthy : BOOLEAN]
    /\ charged \in [Calls -> 0..(Reserved + 1)]

Total == MapThenSumSet(LAMBDA n : charged[n], Calls)

(* Failures, lost answers, revocation and a process killed in mid-call: a  *)
(* batch is not charged beyond its limit, a provider that exceeds what it  *)
(* declared exceeds it once; whatever the provider was asked has a row;    *)
(* after a call of unknown cost there is no other; and a cost that is      *)
(* reported as known is all there was.                                     *)
SpendIsBounded ==
    /\ Total <= MaxTokens + Cardinality({n \in Calls : charged[n] > Reserved})
    /\ Cardinality({n \in Calls : charged[n] > Reserved}) <= 1
    /\ \A n \in Calls : charged[n] > 0 => rows[n] # "none"
    /\ \A n \in Calls : rows[n] \in {"started", "failed"} => \A m \in Calls : m > n => rows[m] = "none"
    /\ CostKnown => Total = gate.tokens
=============================================================================
