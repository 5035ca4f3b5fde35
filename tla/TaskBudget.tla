----------------------------- MODULE TaskBudget -----------------------------
(***************************************************************************)
(* The budget of a task that is worked on again and again.                 *)
(*                                                                         *)
(*   shinku/agent/budget.py         the ledger a work spends from          *)
(*   shinku/agent/budget_policy.py  what a task is allotted, and grants    *)
(*   shinku/qq/budget_control.py    a message that grants and goes on      *)
(*   shinku/qq/task_contracts.py    the work takes over the saved ledger   *)
(*   shinku/qq/task_checkpoint.py   the work saves its own                 *)
(*   shinku/agent/task_state.py     the saved task, with its revision      *)
(*                                                                         *)
(* One task and one of its four limits, the tokens: requests and tools are *)
(* counted and refused the same way, without a reconciliation, and time by *)
(* the clock.  Several calls of the model may be under way in one work.    *)
(* Messages of the conversation are handled one at a time, the works they  *)
(* begin are not.  Left out: continuous mode, which counts and never       *)
(* refuses; recovery reviews; a task that was a foreground query.          *)
(***************************************************************************)
EXTENDS Naturals, Sequences

CONSTANTS
    Callers,    \* threads of one work that call the model
    Messages,   \* the messages that continue the task, or grant it more
    Allotted,   \* limits_for: the tokens of the first allotment
    Added,      \* ... and of a grant
    Ceiling,    \* ABSOLUTE_LIMITS
    MaxGrants,  \* grants a task may ever have: 16
    Reserved,   \* what a call reserves
    MaxSpent    \* bound of the exploration: tokens ever spent

(* What the constants are.                                                 *)
BudgetAssumption ==
    {Allotted, Added, Ceiling, MaxGrants, Reserved, MaxSpent} \subseteq Nat \ {0} /\ Allotted <= Ceiling

VARIABLES
    task,       \* the saved task: status, ledger and grants
    work,       \* what each message began: the copy of the task it carries,
                \* and whether the revision of that copy still is the task's
    budget,     \* the TaskBudget of the work that runs
    call,       \* each caller: is a request of his under way?
    spent,      \* history: tokens the provider really produced
    lost,       \* history: those that died with a process before a checkpoint
    excess      \* history: by how much reports exceeded their reservations

budgetVars == <<task, work, budget, call, spent, lost, excess>>

Ledger(used, limit, reason) == [used |-> used, limit |-> limit, reason |-> reason]
NoWork == [at |-> "none", copy |-> <<>>, current |-> FALSE]
NoBudget == Ledger(0, 0, FALSE)

BudgetInit ==
    /\ task = [status |-> "partial", ledger |-> Ledger(0, Allotted, FALSE), grants |-> <<>>]
    /\ work = [m \in Messages |-> NoWork]
    /\ budget = NoBudget
    /\ call = [c \in Callers |-> FALSE]
    /\ spent = 0 /\ lost = 0 /\ excess = 0

Works(place) == {m \in Messages : work[m].at = place}
Active == Works("queued") \cup Works("running")
History == UNCHANGED <<spent, lost, excess>>

-----------------------------------------------------------------------------
(* A message *)

(* grant_budget: on a copy, which nobody sees until the work has claimed   *)
(* the task; only the stop is cleared, the counters stay.                  *)
Grantable(m) ==
    /\ task.status = "blocked" /\ task.ledger.reason
    /\ \A k \in 1..Len(task.grants) : task.grants[k] # m
    /\ Len(task.grants) < MaxGrants
    /\ task.ledger.limit + Added <= Ceiling

Granted(m) ==
    [task EXCEPT !.grants = Append(@, m),
                 !.ledger = Ledger(@.used, @.limit + Added, FALSE)]

(* route_budget_control, or a message that continues the task as it is.    *)
(* A message may be handled again, after a restart for one.                *)
Prepare(m) ==
    /\ work[m].at = "none" /\ Works("prepared") = {}
    /\ \E copy \in {task} \cup (IF Grantable(m) THEN {Granted(m)} ELSE {}) :
          work' = [work EXCEPT ![m] = [at |-> "prepared", copy |-> copy, current |-> TRUE]]
    /\ UNCHANGED <<task, budget, call>> /\ History

(* _resolve_handoff: refused while a work of the task is active.           *)
EnqueueWork(m) ==
    /\ work[m].at = "prepared"
    /\ work' = [work EXCEPT ![m] = IF Active = {} THEN [@ EXCEPT !.at = "queued"] ELSE NoWork]
    /\ UNCHANGED <<task, budget, call>> /\ History

-----------------------------------------------------------------------------
(* A work *)

(* Mutant: the copy is saved whatever happened since it was taken.         *)
AnyRevision(m) == work[m].at = "queued"

(* save: the copy is of the task as it is saved now.                       *)
SameRevision(m) == work[m].current

Save(status, ledger) == task' = [task EXCEPT !.status = status, !.ledger = ledger]

(* A save of the task is a revision later than every copy of it.           *)
Outdated == [m \in Messages |-> [work[m] EXCEPT !.current = FALSE]]

(* absorb_prior: a fresh budget takes over counters, limit and stop.       *)
Absorbed(prior) == Ledger(prior.used, prior.limit, prior.reason \/ prior.used >= prior.limit)

(* commit_prepared_agent_task, which first claims the task.                *)
Commit(m) ==
    LET copy == work[m].copy IN
    /\ work[m].at = "queued" /\ Works("running") = {}
    /\ IF SameRevision(m)
       THEN /\ budget' = Absorbed(copy.ledger)
            /\ task' = [copy EXCEPT !.status = "running", !.ledger = Absorbed(copy.ledger)]
            /\ work' = [Outdated EXCEPT ![m] = [NoWork EXCEPT !.at = "running"]]
       ELSE work' = [work EXCEPT ![m] = NoWork] /\ UNCHANGED <<task, budget>>
    /\ UNCHANGED call /\ History

(* checkpoint_task: reservations under way are in the snapshot.            *)
Checkpoint ==
    /\ Works("running") # {} /\ budget # task.ledger
    /\ Save("running", budget) /\ work' = Outdated
    /\ UNCHANGED <<budget, call>> /\ History

EndWork(m) ==
    /\ work[m].at = "running" /\ \A c \in Callers : ~call[c]
    /\ Save(IF budget.reason THEN "blocked" ELSE "partial", budget)
    /\ work' = [Outdated EXCEPT ![m] = NoWork] /\ budget' = NoBudget
    /\ UNCHANGED call /\ History

-----------------------------------------------------------------------------
(* A call of the model *)

(* reserve_request: refused, it leaves the reason behind.                  *)
Fits == budget.used + Reserved <= budget.limit

Reserve(c) ==
    /\ Works("running") # {} /\ ~call[c] /\ ~budget.reason /\ spent < MaxSpent
    /\ IF Fits
       THEN call' = [call EXCEPT ![c] = TRUE] /\ budget' = [budget EXCEPT !.used = @ + Reserved]
       ELSE budget' = [budget EXCEPT !.reason = TRUE] /\ UNCHANGED call
    /\ UNCHANGED <<task, work>> /\ History

(* reconcile: what the provider reports takes the place of what was        *)
(* reserved; the report may be larger.                                     *)
Reconcile(c) ==
    /\ call[c] /\ call' = [call EXCEPT ![c] = FALSE]
    /\ \E count \in {0, 1, Reserved + 1} :
          LET used == budget.used - Reserved + count IN
          /\ budget' = [budget EXCEPT !.used = used, !.reason = @ \/ used >= budget.limit]
          /\ spent' = spent + count
          /\ excess' = IF count > Reserved THEN excess + count - Reserved ELSE excess
    /\ UNCHANGED <<task, work, lost>>

(* No usage, or an error: the reservation stays.                           *)
FailCall(c) ==
    /\ call[c] /\ call' = [call EXCEPT ![c] = FALSE]
    /\ \E count \in {0, Reserved} : spent' = spent + count
    /\ UNCHANGED <<task, work, budget, lost, excess>>

-----------------------------------------------------------------------------
(* The process dies: works and messages under way are gone, and with them  *)
(* what was spent since the last checkpoint.                               *)
RestartBot ==
    /\ Works("prepared") \cup Active # {}
    /\ work' = [m \in Messages |-> NoWork]
    /\ budget' = NoBudget /\ call' = [c \in Callers |-> FALSE]
    /\ lost' = IF spent - lost > task.ledger.used THEN spent - task.ledger.used ELSE lost
    /\ UNCHANGED <<task, spent, excess>>

BudgetNext ==
    \/ \E m \in Messages : Prepare(m) \/ EnqueueWork(m) \/ Commit(m) \/ EndWork(m)
    \/ Checkpoint \/ RestartBot
    \/ \E c \in Callers : Reserve(c) \/ Reconcile(c) \/ FailCall(c)

BudgetSpec == BudgetInit /\ [][BudgetNext]_budgetVars

-----------------------------------------------------------------------------
BudgetTypeOK ==
    /\ task.status \in {"partial", "blocked", "running"}
    /\ \A l \in {task.ledger, budget} : l.used \in Nat /\ l.limit \in 0..Ceiling /\ l.reason \in BOOLEAN
    /\ \A m \in Messages : work[m].at \in {"none", "prepared", "queued", "running"}
    /\ call \in [Callers -> BOOLEAN] /\ {spent, lost, excess} \subseteq Nat

(* The ledger that counts is that of the work that runs, or else the saved *)
(* one.  Nothing that was spent is missing from it but what died with a    *)
(* process before it was saved; it exceeds its limit only by what reports  *)
(* exceeded their reservations; and that limit is the first allotment and  *)
(* one addition for each granting message, however often it was handled.   *)
SpendSpansWorks ==
    LET ledger == IF Works("running") = {} THEN task.ledger ELSE budget IN
    /\ spent <= ledger.used + lost
    /\ ledger.used <= ledger.limit + excess
    /\ ledger.limit = Allotted + Added * Len(task.grants)
    /\ \A j, k \in 1..Len(task.grants) : task.grants[j] = task.grants[k] => j = k
=============================================================================
