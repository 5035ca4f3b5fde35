---------------------------- MODULE SummaryWorker ----------------------------
(***************************************************************************)
(* Background summaries of results: shinku/agent_runtime/summary_worker.py *)
(*                                                                         *)
(* One summary is made of each version of a result, by a thread that takes *)
(* one of a few slots; its row is pending until the deadline.  Callers     *)
(* request and read at any time, a generator may overrun its deadline, the *)
(* result may be followed by another version, or be forbidden, and the     *)
(* process may start again.  Left out: rows that cannot be decoded,        *)
(* results that carry their own brief, sizes.                              *)
(***************************************************************************)
EXTENDS Naturals, FiniteSets

CONSTANTS
    Versions,   \* the versions of the result
    Callers,
    Slots,      \* max_workers
    Timeout,    \* timeout_seconds
    MaxClock    \* bound of the exploration: the time

(* What the constants are.                                                 *)
SummaryAssumption == {Slots, Timeout} \subseteq Nat \ {0} /\ MaxClock \in Nat

VARIABLES
    clock,
    source,     \* the version load_result gives, or none
    row,        \* agent_delivery_summaries, by version
    caller,     \* request() of each caller: where it is, version, deadline
    thread,     \* _run of each version: where it is, deadline
    slots,      \* slots in use
    made,       \* history: how often a summary of each version was generated
    told        \* history: what a caller first heard a row had come to

summaryVars == <<clock, source, row, caller, thread, slots, made, told>>

NoRow == [status |-> "none", deadline |-> 0]
Idle == [at |-> "idle", version |-> 0, deadline |-> 0]
NoThread == [at |-> "none", deadline |-> 0]

SummaryInit ==
    /\ clock = 0 /\ source \in Versions
    /\ row = [v \in Versions |-> NoRow]
    /\ caller = [c \in Callers |-> Idle]
    /\ thread = [v \in Versions |-> NoThread]
    /\ slots = 0
    /\ made = [v \in Versions |-> 0] /\ told = [v \in Versions |-> "none"]

-----------------------------------------------------------------------------
(* _original: the result is there, is that version, and may be read.       *)
Readable(v) == source = v

(* _read: a row that is overdue is settled by whoever reads it.            *)
Overdue(v) == row[v].status = "pending" /\ clock >= row[v].deadline
Read(v) == IF Overdue(v) THEN [row EXCEPT ![v].status = "fallback"] ELSE row

Settled(status) == status \in {"ready", "fallback"}
Hears(v, status) ==
    told' = IF Settled(status) /\ told[v] = "none" THEN [told EXCEPT ![v] = status] ELSE told

ReadSummary(v) ==
    /\ Readable(v) /\ row[v].status # "none"
    /\ row' = Read(v) /\ Hears(v, row'[v].status)
    /\ UNCHANGED <<clock, source, caller, thread, slots, made>>

(* request: a row answers it, a place is taken for the others.             *)
Request(c, v) ==
    /\ caller[c] = Idle
    /\ Readable(v) /\ row[v].status = "none"
    /\ caller' = [caller EXCEPT ![c] = [at |-> "unseen", version |-> v, deadline |-> 0]]
    /\ UNCHANGED <<clock, source, row, thread, slots, made, told>>

TakeSlot(c) ==
    /\ caller[c].at = "unseen"
    /\ IF slots < Slots
       THEN /\ slots' = slots + 1
            /\ caller' = [caller EXCEPT ![c].at = "inserting", ![c].deadline = clock + Timeout]
       ELSE caller' = [caller EXCEPT ![c] = Idle] /\ UNCHANGED slots
    /\ UNCHANGED <<clock, source, row, thread, made, told>>

(* Mutant: the row is not looked for again when it is written.             *)
TakenBefore(v) == FALSE

(* Another caller may have written the row meanwhile.                      *)
Taken(v) == row[v].status # "none"

Insert(c) ==
    LET v == caller[c].version IN
    /\ caller[c].at = "inserting"
    /\ caller' = [caller EXCEPT ![c] = Idle]
    /\ \/ /\ Taken(v) /\ slots' = slots - 1 /\ Hears(v, row[v].status)
          /\ UNCHANGED <<row, thread>>
       \/ /\ ~Taken(v)
          /\ row' = [row EXCEPT ![v] = [status |-> "pending", deadline |-> caller[c].deadline]]
          /\ thread' = [thread EXCEPT ![v] = [at |-> "begun", deadline |-> caller[c].deadline]]
          /\ UNCHANGED <<slots, told>>
       \/ /\ ~Taken(v) /\ slots' = slots - 1        \* the write, or the start, raises
          /\ row' \in {row, [row EXCEPT ![v] = [status |-> "pending", deadline |-> caller[c].deadline]]}
          /\ UNCHANGED <<thread, told>>
    /\ UNCHANGED <<clock, source, made>>

-----------------------------------------------------------------------------
(* _run *)

Current(v) == Readable(v) /\ clock < thread[v].deadline

Goes(v, at) == thread' = [thread EXCEPT ![v].at = at]

(* The details are read, the budget admits the call, and they are read     *)
(* once more before it is made.                                            *)
Admit(v) ==
    /\ thread[v].at = "begun"
    /\ \E at \in {"fallback"} \cup (IF Current(v) THEN {"admitted"} ELSE {}) : Goes(v, at)
    /\ UNCHANGED <<clock, source, row, caller, slots, made, told>>

Generate(v) ==
    /\ thread[v].at = "admitted"
    /\ IF Current(v) THEN Goes(v, "generating") /\ made' = [made EXCEPT ![v] = @ + 1]
       ELSE Goes(v, "fallback") /\ UNCHANGED made
    /\ UNCHANGED <<clock, source, row, caller, slots, told>>

(* It returns, however late; it may have failed.                           *)
Generated(v) ==
    /\ thread[v].at = "generating"
    /\ \E at \in {"fallback"} \cup (IF Current(v) THEN {"ready"} ELSE {}) : Goes(v, at)
    /\ UNCHANGED <<clock, source, row, caller, slots, made, told>>

(* Mutant: an outcome is kept whenever the row still waits for it.         *)
OutcomeLate(v) == thread[v].at

(* Too late is too late, even if nobody has noticed yet.                   *)
Outcome(v) == IF clock >= thread[v].deadline THEN "fallback" ELSE thread[v].at

Settle(v) ==
    /\ Settled(thread[v].at)
    /\ row' = IF row[v].status = "pending" THEN [row EXCEPT ![v].status = Outcome(v)] ELSE row
    /\ thread' = [thread EXCEPT ![v] = NoThread] /\ slots' = slots - 1
    /\ UNCHANGED <<clock, source, caller, made, told>>

-----------------------------------------------------------------------------
Pass ==
    /\ clock < MaxClock /\ clock' = clock + 1
    /\ UNCHANGED <<source, row, caller, thread, slots, made, told>>

(* A new version, or an authority that is taken away.                      *)
ChangeSource ==
    /\ source' \in (Versions \cup {0}) \ {source}
    /\ UNCHANGED <<clock, row, caller, thread, slots, made, told>>

Restart ==
    /\ caller' = [c \in Callers |-> Idle]
    /\ thread' = [v \in Versions |-> NoThread] /\ slots' = 0
    /\ UNCHANGED <<clock, source, row, made, told>>

SummaryNext ==
    \/ \E v \in Versions :
          \/ ReadSummary(v) \/ Admit(v) \/ Generate(v) \/ Generated(v) \/ Settle(v)
          \/ \E c \in Callers : Request(c, v)
    \/ \E c \in Callers : TakeSlot(c) \/ Insert(c)
    \/ Pass \/ ChangeSource \/ Restart

SummarySpec == SummaryInit /\ [][SummaryNext]_summaryVars

-----------------------------------------------------------------------------
SummaryTypeOK ==
    /\ \A v \in Versions :
          /\ row[v].status \in {"none", "pending", "ready", "fallback"}
          /\ thread[v].at \in {"none", "begun", "admitted", "generating", "ready", "fallback"}
    /\ \A c \in Callers : caller[c].at \in {"idle", "unseen", "inserting"}
    /\ slots \in 0..Slots

(* The slots are those of the threads and of the requests on their way to  *)
(* one, so a generator that overruns keeps its own; a version is generated *)
(* once at most, over restarts and requests that cross; a summary is ready *)
(* only if it was in time; and what a caller heard of it stays so.         *)
SummariesAreSettled ==
    /\ slots = Cardinality({v \in Versions : thread[v] # NoThread})
               + Cardinality({c \in Callers : caller[c].at = "inserting"})
    /\ \A v \in Versions :
          /\ made[v] <= 1
          /\ thread[v] # NoThread => thread[v].deadline = row[v].deadline
          /\ told[v] # "none" => row[v].status = told[v]
          /\ row[v].status = "ready" => told[v] # "fallback" /\ made[v] = 1

(* A row becomes ready before its deadline, or not at all.                 *)
ReadyInTime ==
    \A v \in Versions : row'[v].status = "ready" /\ row[v].status # "ready" => clock < row[v].deadline
=============================================================================
