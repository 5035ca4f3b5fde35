----------------------------- MODULE AgentLoop -----------------------------
(***************************************************************************)
(* The loop of one task: plan, call tools, take the answer to the gate.    *)
(*                                                                         *)
(*   shinku/agent/loop_pipeline.py    slices, rounds, how a run closes     *)
(*   shinku/agent/loop_decisions.py   what the model decides               *)
(*   shinku/agent/loop_tools.py       which calls are let through          *)
(*   shinku/agent/loop.py             a call, and its record before and    *)
(*                                    after                                *)
(*   shinku/agent/loop_progress.py    what a call's result changes         *)
(*   shinku/agent/progress.py         whether anything is getting on       *)
(*   shinku/agent/loop_completion.py  the gate                             *)
(*                                                                         *)
(* Sliced runs, whose process may die and whose task is then recovered: a  *)
(* call that was under way is left to a review and the task does not go    *)
(* on.  A call is its signature; what it reads or prints is a version of   *)
(* the world.  What the model decides and what the gate says is any        *)
(* choice.  Left out: the modes that answer from sources (research, local  *)
(* and history answers), execution sessions, notes and contracts.          *)
(***************************************************************************)
EXTENDS Naturals, Sequences

CONSTANTS
    Reads,          \* calls that observe
    Searches,       \* ... those of them that discover sources
    Writes,         \* calls that change something
    Guarded,        \* ... those of them that need the user's word
    MaxRounds,      \* rounds of a slice
    MaxIdle,        \* plans in a row without a call: 6
    MaxStall,       \* max_consecutive_observations: 4, and two more
    MaxSearches,    \* max_source_discovery_calls: 4
    MaxFailures,    \* failed attempts at one call: 3
    MaxRejected,    \* answers the gate refused: 3
    MaxLedger,      \* _ledger_tool_limit: 128, or 2048
    MaxRestarts     \* bound of the exploration

Calls == Reads \cup Writes

(* What the constants are.                                                 *)
LoopAssumption ==
    /\ Searches \subseteq Reads /\ Guarded \subseteq Writes /\ Reads \cap Writes = {}
    /\ {MaxRounds, MaxIdle, MaxStall, MaxSearches, MaxFailures, MaxRejected, MaxLedger} \subseteq Nat \ {0}
    /\ MaxRestarts \in Nat

VARIABLES
    at,         \* where the loop is, or how it ended
    count,      \* rounds and the counters that end a run
    tried,      \* signature_attempts: per call, attempts that did not succeed
    refused,    \* duplicate_rejections: per call
    won,        \* successful_signatures: the epoch of the last success, or Never
    batch,      \* the calls of this round: left to admit, ready, approved
    seen,       \* fingerprints of results
    disk,       \* the saved task: recorded changes, the call under way
    world,      \* how often each change was made, and not reported as failed
    cancel      \* agent_task_interrupt says so

loopVars == <<at, count, tried, refused, won, batch, seen, disk, world, cancel>>

Never == 0
NoBatch == [left |-> <<>>, ready |-> <<>>, approved |-> FALSE]
NoCounts == [rounds |-> 0, end |-> MaxRounds, idle |-> 0, before |-> 0, tools |-> 0, searches |-> 0,
             stalled |-> 0, rejected |-> 0, epoch |-> 1, restarts |-> 0]

LoopInit ==
    /\ at = "plan" /\ count = NoCounts /\ batch = NoBatch /\ seen = {} /\ cancel = FALSE
    /\ tried = [c \in Calls |-> 0] /\ refused = [c \in Calls |-> 0] /\ won = [c \in Calls |-> Never]
    /\ disk = [done |-> {}, underWay |-> {}, failed |-> [c \in Calls |-> 0]]
    /\ world = [c \in Writes |-> 0]

Ledgers == <<tried, refused, won>>
Outside == <<disk, world, cancel>>

(* check_interruption.                                                     *)
Interrupted == cancel /\ at' = "canceled" /\ UNCHANGED <<count, Ledgers, batch, seen, Outside>>

-----------------------------------------------------------------------------
(* A plan *)

(* The plans in a row that called nothing, this one included.              *)
Idle == IF count.rounds > 0 /\ count.tools = count.before THEN count.idle + 1 ELSE 0

Planned == [count EXCEPT !.idle = Idle, !.before = count.tools, !.rounds = @ + 1]

(* _review_completion_gate.                                                *)
Answer ==
    \/ at' = "completed" /\ count' = Planned
    \/ /\ count' = [Planned EXCEPT !.rejected = @ + 1]
       /\ at' = IF count.rejected + 1 >= MaxRejected THEN "failed" ELSE "plan"

(* plan_next_decision: an answer, a question, nothing that can be used, an *)
(* error, or up to two calls.                                              *)
Plan ==
    /\ at = "plan" /\ ~cancel /\ count.rounds < count.end
    /\ IF Idle >= MaxIdle
       THEN at' = "blocked" /\ count' = [count EXCEPT !.idle = Idle] /\ UNCHANGED batch
       ELSE \/ Answer /\ UNCHANGED batch
            \/ at' \in {"plan", "waiting", "failed"} /\ count' = Planned /\ UNCHANGED batch
            \/ /\ at' = "admit" /\ count' = Planned
               /\ \E c, d \in Calls : batch' \in {[NoBatch EXCEPT !.left = <<c>>], [NoBatch EXCEPT !.left = <<c, d>>]}
    /\ UNCHANGED <<Ledgers, seen, Outside>>

(* _close_run: the next slice goes on from the checkpoint.                 *)
Yield ==
    /\ at = "plan" /\ count.rounds = count.end
    /\ at' = IF cancel THEN "canceled" ELSE "yielded"
    /\ UNCHANGED <<count, Ledgers, batch, seen, Outside>>

NextSlice ==
    /\ at = "yielded" /\ at' = "plan"
    /\ count' = [count EXCEPT !.end = count.rounds + MaxRounds]
    /\ UNCHANGED <<Ledgers, batch, seen, Outside>>

-----------------------------------------------------------------------------
(* The calls of a plan *)

(* close_repeated_tools: one more round, in which nothing is called.       *)
CloseRepeated == at' = IF cancel THEN "canceled" ELSE "blocked"

Reread(c) == c \in Reads /\ won[c] < count.epoch

(* Mutant: the records of an earlier process are not asked.                *)
RepeatedHere(c) ==
    \/ \E k \in 1..Len(batch.ready) : batch.ready[k] = c
    \/ won[c] # Never /\ ~Reread(c)

(* It succeeded already and nothing changed since, here or in the process  *)
(* the task is recovered from; or it is in this round.                     *)
Repeated(c) ==
    \/ \E k \in 1..Len(batch.ready) : batch.ready[k] = c
    \/ won[c] # Never /\ ~Reread(c)
    \/ count.restarts > 0 /\ c \in disk.done

Exhausted(c) == tried[c] >= MaxFailures \/ disk.failed[c] >= MaxFailures

(* _admit_invocation.                                                      *)
Admit ==
    LET c == Head(batch.left)
        rest == [batch EXCEPT !.left = Tail(@)] IN
    /\ at = "admit" /\ batch.left # <<>>
    /\ CASE c \in Searches /\ count.searches >= MaxSearches ->
              /\ count' = [count EXCEPT !.tools = @ + 1] /\ batch' = rest /\ UNCHANGED <<at, Ledgers>>
         [] ~(c \in Searches /\ count.searches >= MaxSearches) /\ Repeated(c) ->
              /\ refused' = [refused EXCEPT ![c] = @ + 1]
              /\ IF refused[c] + 1 >= 2
                 THEN CloseRepeated /\ batch' = NoBatch /\ count' = [count EXCEPT !.tools = @ + 1, !.rounds = @ + 1]
                 ELSE batch' = rest /\ count' = [count EXCEPT !.tools = @ + 1] /\ UNCHANGED at
              /\ UNCHANGED <<tried, won>>
         [] OTHER ->
              /\ IF Exhausted(c)
                 THEN /\ CloseRepeated /\ batch' = NoBatch /\ count' = [count EXCEPT !.rounds = @ + 1]
                      /\ UNCHANGED tried
                 ELSE /\ batch' = [rest EXCEPT !.ready = Append(@, c)]
                      /\ tried' = [tried EXCEPT ![c] = @ + 1]
                      /\ UNCHANGED <<at, count>>
              /\ UNCHANGED <<refused, won>>
    /\ UNCHANGED <<seen, Outside>>

(* _request_batch_approval: the whole batch waits for a word on one call.  *)
Batched ==
    /\ at = "admit" /\ batch.left = <<>>
    /\ at' = IF Len(batch.ready) + count.tools > MaxLedger THEN "blocked"
             ELSE IF \E k \in 1..Len(batch.ready) : batch.ready[k] \in Guarded
             THEN IF cancel THEN "canceled" ELSE "asking" ELSE "execute"
    /\ batch' = IF at' \in {"execute", "asking"} THEN batch ELSE NoBatch
    /\ UNCHANGED <<count, Ledgers, seen, Outside>>

(* execute_approved_calls, in another slice: all of them, whether or not   *)
(* anything gets on.                                                       *)
Approved ==
    /\ at = "asking" /\ at' = "execute" /\ batch' = [batch EXCEPT !.approved = TRUE]
    /\ count' = [count EXCEPT !.rounds = @ + 1, !.end = count.rounds + MaxRounds]
    /\ tried' = [c \in Calls |-> IF \E k \in 1..Len(batch.ready) : batch.ready[k] = c THEN tried[c] + 1 ELSE tried[c]]
    /\ UNCHANGED <<refused, won, seen, Outside>>

-----------------------------------------------------------------------------
(* A call *)

(* Mutant: a call is recorded only when it has returned.                   *)
RecordNothing(c) == disk' = disk

(* Before a side effect: a process that dies leaves an unknown receipt.    *)
RecordStart(c) == disk' = [disk EXCEPT !.underWay = {c}]

(* _execute_and_record, up to the call and what it does to the world.      *)
StartCall ==
    /\ at = "execute" /\ batch.ready # <<>> /\ ~cancel
    /\ LET c == Head(batch.ready) IN
       /\ RecordStart(c)
       /\ \E effect \in IF c \in Writes THEN {0, 1} ELSE {0} :
             world' = IF c \in Writes THEN [world EXCEPT ![c] = @ + effect] ELSE world
    /\ at' = "calling"
    /\ UNCHANGED <<count, Ledgers, batch, seen, cancel>>

(* The results a call may have.  One that changed something may still be   *)
(* reported as failed; one that reports success did.                       *)
Outcomes(c) ==
    {[ok |-> ok, print |-> <<c, ok, IF c \in Reads /\ ok THEN count.epoch ELSE 0>>] :
        ok \in IF c \in Writes /\ world[c] = 0 THEN {FALSE} ELSE {TRUE, FALSE}}

(* ProgressLedger.observe.                                                 *)
Progress(c, outcome) == IF c \in Writes THEN outcome.ok ELSE outcome.print \notin seen

(* note_loop_execution, and the limits behind it.                          *)
EndCall ==
    LET c == Head(batch.ready) IN
    /\ at = "calling"
    /\ \E outcome \in Outcomes(c) :
       LET stalled == IF Progress(c, outcome) THEN 0 ELSE count.stalled + 1
           epoch == IF outcome.ok /\ c \in Writes THEN count.epoch + 1 ELSE count.epoch IN
       /\ seen' = seen \cup {outcome.print}
       /\ count' = [count EXCEPT !.tools = @ + 1, !.stalled = stalled, !.epoch = epoch,
                                 !.rejected = IF Progress(c, outcome) THEN 0 ELSE @,
                                 !.searches = IF c \in Searches THEN @ + 1 ELSE @]
       /\ refused' = [refused EXCEPT ![c] = 0]
       /\ tried' = IF outcome.ok THEN [tried EXCEPT ![c] = 0] ELSE tried
       /\ won' = [won EXCEPT ![c] = IF outcome.ok THEN epoch ELSE Never]
       /\ disk' = [done |-> IF outcome.ok /\ c \in Writes THEN disk.done \cup {c} ELSE disk.done,
                   underWay |-> {},
                   failed |-> [disk.failed EXCEPT ![c] =
                       IF outcome.ok THEN 0 ELSE IF @ < MaxFailures THEN @ + 1 ELSE @]]
       /\ world' = IF c \in Writes /\ ~outcome.ok THEN [world EXCEPT ![c] = 0] ELSE world
       /\ IF stalled >= MaxStall + 2 /\ ~batch.approved
          THEN at' = "blocked" /\ batch' = NoBatch
          ELSE at' = "execute" /\ batch' = [batch EXCEPT !.ready = Tail(@)]
    /\ UNCHANGED cancel

BatchDone ==
    /\ at = "execute" /\ batch.ready = <<>> /\ at' = "plan" /\ batch' = NoBatch
    /\ UNCHANGED <<count, Ledgers, seen, Outside>>

-----------------------------------------------------------------------------
CancelTask ==
    /\ at \in {"plan", "admit", "execute", "calling", "yielded"} /\ ~cancel /\ cancel' = TRUE
    /\ UNCHANGED <<at, count, Ledgers, batch, seen, disk, world>>

Notice ==
    \/ at = "plan" /\ count.rounds < count.end /\ Interrupted
    \/ at = "execute" /\ batch.ready # <<>> /\ Interrupted

(* The process dies, and the task is recovered: the records of the calls,  *)
(* of their failures and of what was seen come back, the checkpoint does   *)
(* not.  With a call under way nothing goes on before a review.            *)
RestartBot ==
    /\ at \notin {"completed", "failed", "blocked", "canceled", "review"} /\ count.restarts < MaxRestarts
    /\ at' = IF disk.underWay # {} THEN "review" ELSE "plan"
    /\ count' = [NoCounts EXCEPT !.tools = count.tools, !.stalled = count.stalled, !.restarts = count.restarts + 1]
    /\ tried' = [c \in Calls |-> 0] /\ refused' = [c \in Calls |-> 0] /\ won' = [c \in Calls |-> Never]
    /\ batch' = NoBatch /\ cancel' = FALSE
    /\ UNCHANGED <<seen, disk, world>>

LoopNext ==
    \/ Plan \/ Yield \/ NextSlice \/ Admit \/ Batched \/ Approved
    \/ StartCall \/ EndCall \/ BatchDone
    \/ CancelTask \/ Notice \/ RestartBot

LoopSpec == LoopInit /\ [][LoopNext]_loopVars

-----------------------------------------------------------------------------
LoopTypeOK ==
    /\ at \in {"plan", "admit", "asking", "execute", "calling", "yielded", "waiting",
               "completed", "failed", "blocked", "canceled", "review"}
    /\ \A c \in Calls : {tried[c], refused[c], won[c], disk.failed[c]} \subseteq Nat
    /\ disk.done \subseteq Writes /\ disk.underWay \subseteq Calls
    /\ world \in [Writes -> Nat] /\ cancel \in BOOLEAN

(* A change that was made and not reported as failed is not made again,    *)
(* whatever slice, approval or process asks for it; and the saved task     *)
(* tells of it, as made or as under way.                                   *)
ChangesAreKnown ==
    \A c \in Writes : world[c] <= 1 /\ (world[c] = 1 => c \in disk.done \cup disk.underWay)

(* No run goes on for ever: each process ends it, yields and approvals     *)
(* included, within rounds that the limits fix, however the model decides. *)
LoopIsBounded == count.rounds <= (MaxIdle + 1) * (MaxLedger + 1) + 1
=============================================================================
