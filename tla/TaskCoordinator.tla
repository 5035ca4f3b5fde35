--------------------------- MODULE TaskCoordinator ---------------------------
(***************************************************************************)
(* AgentTaskCoordinator (shinku/tasks/coordinator.py): the process-local   *)
(* table of background work, the thread pool that runs it, and the SQLite  *)
(* mirror that survives a restart.                                         *)
(*                                                                         *)
(* Every public method holds the coordinator's lock, so each is one        *)
(* action.  A worker thread is not under the lock between taking an item   *)
(* from the pool's queue ("picked"), entering _run ("executing") and the   *)
(* return of the handler; those are separate actions, and everything else  *)
(* interleaves with them.                                                  *)
(***************************************************************************)
EXTENDS Naturals, Sequences, FiniteSets

CONSTANTS
    Tasks,          \* work identifiers
    Workers,        \* the threads of the pool
    Requests,       \* the kinds of submission the hosts make
    NoTarget,       \* "no Agent ledger named" in a request
    MaxPending,     \* max_pending_tasks
    MaxPersisted,   \* max_persisted_records
    MaxAttempt,     \* bound on the attempts explored for one record
    Faults          \* which of {"store", "dispatch"} may fail

ASSUME CoordinatorAssumption ==
    /\ MaxPending \in Nat \ {0}
    /\ MaxPersisted \in Nat \ {0}
    /\ MaxAttempt \in Nat
    /\ Faults \subseteq {"store", "dispatch"}
    /\ \A q \in Requests : /\ DOMAIN q = {"scope", "target", "fresh", "query"}
                           /\ q.fresh \in BOOLEAN /\ q.query \in BOOLEAN
    /\ IsFiniteSet(Tasks)

VARIABLES
    records,    \* _records: task -> AgentTaskRecord (status "absent": none)
    disk,       \* the rows of agent_task_records
    queue,      \* the pool's FIFO of (task, attempt) items not yet picked
    pc,         \* per worker: "idle", "picked" or "executing"
    job,        \* per worker: the item it holds
    closed,     \* _closed
    finalizers, \* on_cancel callbacks taken under the lock, not yet called
    lost        \* history: attempts that were executing when a process died

vars == <<records, disk, queue, pc, job, closed, finalizers, lost>>

-----------------------------------------------------------------------------
(* The workflow vocabulary of tasks/status.py and its legal transitions;   *)
(* aliases of historical names are already normalized.                     *)

WorkflowStatuses ==
    {"queued", "running", "waiting_user", "completed", "failed",
     "blocked", "canceled", "cleaned"}

TerminalStatuses == {"completed", "failed", "canceled", "cleaned"}

(* The statuses a handler may return explicitly (AgentTaskOutcome).        *)
OutcomeStatuses ==
    {"completed", "failed", "canceled", "blocked", "waiting_user"}

(* _WORKFLOW_EDGES: a live task may move anywhere; a finished one may only *)
(* keep its status or be cleaned.                                          *)
Edges(source) ==
    IF source \in TerminalStatuses THEN {source, "cleaned"}
                                   ELSE WorkflowStatuses

(* validate_workflow_transition, as a predicate: FALSE is the ValueError.  *)
CanMove(source, target, reopen) ==
    \/ target \in Edges(source)
    \/ /\ reopen
       /\ source \in {"completed", "failed", "canceled"}
       /\ target = "queued"

-----------------------------------------------------------------------------
Scopes  == {q.scope : q \in Requests}
Targets == {q.target : q \in Requests} \cup {NoTarget}
Futures == {"none", "pending", "running", "done", "canceled"}

Record ==
    [status : WorkflowStatuses \cup {"absent"},
     attempt : Nat, scope : Scopes \cup {NoTarget}, target : Targets,
     fresh : BOOLEAN, query : BOOLEAN,
     notice : {"none", "claimed", "recorded"},
     claimed : Nat,            \* the attempt that claimed the target, or 0
     cancelReq : BOOLEAN,      \* cancel_requested, and the cancel event
     active : BOOLEAN,         \* worker_active
     handler : BOOLEAN, cleanup : BOOLEAN,   \* handler, on_cancel present
     fut : Futures, recovered : BOOLEAN]

Absent ==
    [status |-> "absent", attempt |-> 0, scope |-> NoTarget,
     target |-> NoTarget, fresh |-> FALSE, query |-> FALSE,
     notice |-> "none", claimed |-> 0, cancelReq |-> FALSE,
     active |-> FALSE, handler |-> FALSE, cleanup |-> FALSE,
     fut |-> "none", recovered |-> FALSE]

-----------------------------------------------------------------------------
(* State of one record.                                                    *)

Exists(r)      == r.status # "absent"

(* Mutant: only the future is looked at, not the worker.                   *)
ActiveByFuture(r) == r.status = "queued" /\ r.fut \in {"pending", "running"}

Active(r)      == r.active \/ (r.status = "queued" /\ r.fut \in {"pending", "running"})
Outstanding(r) == r.status = "queued" \/ Active(r)
Finished(r)    == r.status \in TerminalStatuses /\ ~Active(r)

OutstandingTasks == {t \in Tasks : Outstanding(records[t])}

(* Mutant: off by one at the cap.                                          *)
AdmissibleOneMore == Cardinality(OutstandingTasks) <= MaxPending

Admissible       == Cardinality(OutstandingTasks) < MaxPending

(* as_dict: handler, event, future and on_cancel are never written.        *)
Stored(r) == [r EXCEPT !.handler = FALSE, !.cleanup = FALSE, !.fut = "none"]

(* Mutant: finished records are failed too.                                *)
InterruptedAlways(r) ==
    Exists(r) /\ ~(r.status \in {"waiting_user", "blocked"} /\ ~r.active)

(* _load_records: unfinished work becomes failed, except a wait whose      *)
(* worker had left; nothing executable comes back.                         *)
Interrupted(r) ==
    /\ Exists(r)
    /\ r.status \notin TerminalStatuses
    /\ ~(r.status \in {"waiting_user", "blocked"} /\ ~r.active)

(* Mutant: unfinished work is put back in the queue.                       *)
LoadedRunnable(r) ==
    IF Interrupted(r)
    THEN [r EXCEPT !.status = "queued", !.recovered = TRUE, !.active = FALSE]
    ELSE [r EXCEPT !.active = FALSE]

Loaded(r) ==
    IF Interrupted(r)
    THEN [r EXCEPT !.status = "failed", !.recovered = TRUE, !.active = FALSE]
    ELSE [r EXCEPT !.active = FALSE]

-----------------------------------------------------------------------------
(* _persist_record: history beyond the cap is dropped from memory and from *)
(* disk, then the one record is upserted.  Which finished records are the  *)
(* oldest is left open.                                                    *)

Victims(recs) ==
    LET done == {t \in Tasks : Finished(recs[t])}
    IN  {V \in SUBSET done :
            IF Cardinality(done) > MaxPersisted
            THEN Cardinality(V) + MaxPersisted = Cardinality(done)
            ELSE V = {}}

Drop(recs, V) == [t \in Tasks |-> IF t \in V THEN Absent ELSE recs[t]]

(* Mutant: rows of forgotten records stay on disk.                         *)
SavedKeepingRows(recs, t) ==
    \E V \in Victims(recs) :
        /\ records' = Drop(recs, V)
        /\ disk' = [disk EXCEPT ![t] = Stored(recs[t])]

(* Mutant: the row is taken from the record before the change.             *)
SavedTooEarly(recs, t) ==
    \E V \in Victims(recs) :
        /\ records' = Drop(recs, V)
        /\ disk' = Drop([disk EXCEPT ![t] = Stored(records[t])], V)

Saved(recs, t) ==
    \E V \in Victims(recs) :
        /\ records' = Drop(recs, V)
        /\ disk' = Drop([disk EXCEPT ![t] = Stored(recs[t])], V)

(* The write raises: memory has changed, the disk has not, and the rest of *)
(* the calling method is skipped.                                          *)
SaveLost(recs) ==
    /\ "store" \in Faults
    /\ \E V \in Victims(recs) : records' = Drop(recs, V)
    /\ UNCHANGED disk

Save(recs, t) == Saved(recs, t) \/ SaveLost(recs)

With(t, r) == [records EXCEPT ![t] = r]

(* Mutant: a yielded slice goes back to the head of the queue.             *)
DispatchedFirst(recs, t) ==
    /\ Saved([recs EXCEPT ![t].fut = "pending"], t)
    /\ queue' = <<<<t, recs[t].attempt>>>> \o queue

(* _dispatch_record after a successful write: the item joins the tail of   *)
(* the pool's queue, or the pool refuses it and the record fails.          *)
Dispatched(recs, t) ==
    /\ Saved([recs EXCEPT ![t].fut = "pending"], t)
    /\ queue' = Append(queue, <<t, recs[t].attempt>>)

Failed(recs, t) == [recs EXCEPT ![t].status = "failed"]

Refused(recs, t) ==
    /\ "dispatch" \in Faults
    /\ Saved(Failed(recs, t), t)
    /\ UNCHANGED queue

(* The pool refuses the item and the write of the failure raises as well:  *)
(* memory ends as failed, the disk keeps the row the write before left.    *)
RefusalLost(recs, failed, t) ==
    /\ {"store", "dispatch"} \subseteq Faults
    /\ \E W \in Victims(recs), V \in Victims(failed) :
          /\ W \subseteq V
          /\ records' = Drop(failed, V)
          /\ disk' = Drop([disk EXCEPT ![t] = Stored(recs[t])], W)
    /\ UNCHANGED queue

Enqueue(recs, t) ==
    \/ Dispatched(recs, t)
    \/ Refused(recs, t)
    \/ RefusalLost(recs, Failed(recs, t), t)
    \/ SaveLost(recs) /\ UNCHANGED queue

(* Future.cancel on a pending item: it never reaches a worker.             *)
Unqueue(j) ==
    IF \E k \in 1..Len(queue) : queue[k] = j
    THEN LET k == CHOOSE k \in 1..Len(queue) : queue[k] = j
         IN  [i \in 1..(Len(queue) - 1) |-> queue[IF i < k THEN i ELSE i + 1]]
    ELSE queue

-----------------------------------------------------------------------------
(* Calls of the hosts.                                                     *)

Init ==
    /\ records = [t \in Tasks |-> Absent]
    /\ disk = [t \in Tasks |-> Absent]
    /\ queue = <<>>
    /\ pc = [w \in Workers |-> "idle"]
    /\ job = [w \in Workers |-> <<>>]
    /\ closed = FALSE
    /\ finalizers = {}
    /\ lost = [t \in Tasks |-> {}]

Reopenable(r, q) ==
    /\ r.scope = q.scope
    /\ ~Outstanding(r)
    /\ r.status # "cleaned"
    /\ CanMove(r.status, "queued", TRUE)

TargetFree(t, q) ==
    \A o \in Tasks \ {t} :
        ~ /\ Outstanding(records[o])
          /\ records[o].scope = q.scope
          /\ records[o].target = q.target

(* Mutant: a reopened record starts counting again.                        *)
NewRecordFirstAttempt(t, q) ==
    [Absent EXCEPT !.status = "queued", !.attempt = 1,
                   !.scope = q.scope, !.target = q.target,
                   !.fresh = q.fresh, !.query = q.query,
                   !.handler = TRUE, !.cleanup = TRUE]

NewRecord(t, q) ==
    [Absent EXCEPT !.status = "queued", !.attempt = records[t].attempt + 1,
                   !.scope = q.scope, !.target = q.target,
                   !.fresh = q.fresh, !.query = q.query,
                   !.handler = TRUE, !.cleanup = TRUE]

Submit(t, q, reopen, defer) ==
    /\ ~closed
    /\ Admissible
    /\ Exists(records[t]) => reopen /\ Reopenable(records[t], q)
    /\ records[t].attempt < MaxAttempt
    /\ q.target # NoTarget => TargetFree(t, q)
    /\ LET recs == With(t, NewRecord(t, q))
       IN  IF defer THEN Save(recs, t) /\ UNCHANGED queue ELSE Enqueue(recs, t)
    /\ lost' = IF Exists(records[t]) THEN lost ELSE [lost EXCEPT ![t] = {}]
    /\ UNCHANGED <<pc, job, closed, finalizers>>

(* dispatch: start a deferred submission once.                             *)
Dispatch(t) ==
    LET r == records[t] IN
    /\ ~closed
    /\ r.status = "queued" /\ r.fut = "none" /\ ~r.cancelReq
    /\ \/ /\ records' = With(t, [r EXCEPT !.fut = "pending"])
          /\ queue' = Append(queue, <<t, r.attempt>>)
          /\ UNCHANGED disk
       \/ /\ "dispatch" \in Faults
          /\ Save(Failed(records, t), t)
          /\ UNCHANGED queue
    /\ UNCHANGED <<pc, job, closed, finalizers, lost>>

(* Mutant: every canceled record counts as stopped.                        *)
StoppableAlways(r) == TRUE

(* The record cancel leaves behind: stopped if its future is missing, can  *)
(* still be withdrawn or is over; else only marked.                        *)
Stoppable(r) == r.fut \in {"none", "pending", "canceled"} \/ ~Active(r)

(* Mutant: a status outside the vocabulary (an alias).                     *)
CanceledAlias(r) ==
    IF Stoppable(r)
    THEN [r EXCEPT !.status = "cancelled", !.cancelReq = TRUE, !.cleanup = FALSE,
                   !.fut = IF @ = "pending" THEN "canceled" ELSE @]
    ELSE [r EXCEPT !.cancelReq = TRUE]

Canceled(r) ==
    IF Stoppable(r)
    THEN [r EXCEPT !.status = "canceled", !.cancelReq = TRUE,
                   !.fut = IF @ = "pending" THEN "canceled" ELSE @,
                   !.handler = @ /\ ~r.fresh, !.cleanup = FALSE]
    ELSE [r EXCEPT !.cancelReq = TRUE]

(* Mutant: the callback is taken from a running record too.                *)
OwedEarly(t) ==
    IF records[t].cleanup THEN {<<t, records[t].attempt>>} ELSE {}

(* The callback a cancellation has to call.                                *)
Owed(t) ==
    IF Stoppable(records[t]) /\ records[t].cleanup
    THEN {<<t, records[t].attempt>>} ELSE {}

Cancel(t) ==
    LET r == records[t]
        recs == With(t, Canceled(r))
    IN
    /\ Exists(r) /\ r.status \notin TerminalStatuses
    /\ \/ Saved(recs, t) /\ finalizers' = finalizers \cup Owed(t)
       \/ SaveLost(recs) /\ UNCHANGED finalizers
    /\ queue' = IF r.fut = "pending" THEN Unqueue(<<t, r.attempt>>) ELSE queue
    /\ UNCHANGED <<pc, job, closed, lost>>

(* cancel calls on_cancel after it has left the lock.                      *)
RunFinalizer(f) ==
    /\ f \in finalizers
    /\ finalizers' = finalizers \ {f}
    /\ UNCHANGED <<records, disk, queue, pc, job, closed, lost>>

(* retry keeps the record, its target and its metadata; unlike submit it   *)
(* does not look for another record on the same target.                    *)
Retry(t) ==
    LET r == records[t] IN
    /\ ~closed /\ ~Active(r)
    /\ r.status \in {"failed", "canceled"}
    /\ ~r.fresh /\ r.handler
    /\ Admissible
    /\ r.attempt < MaxAttempt
    /\ Enqueue(With(t, [r EXCEPT !.status = "queued", !.attempt = @ + 1,
                                 !.cancelReq = FALSE]), t)
    /\ UNCHANGED <<pc, job, closed, finalizers, lost>>

(* claim_handoff_notice and record_handoff_delivery, called by a host that *)
(* holds the attempt number of an earlier answer.                          *)
ClaimNotice(t, a) ==
    LET r == records[t] IN
    /\ r.attempt = a /\ ~r.cancelReq /\ r.status = "queued"
    /\ r.query /\ r.notice = "none"
    /\ Save(With(t, [r EXCEPT !.notice = "claimed"]), t)
    /\ UNCHANGED <<queue, pc, job, closed, finalizers, lost>>

RecordNotice(t, a) ==
    LET r == records[t] IN
    /\ r.attempt = a /\ r.notice = "claimed"
    /\ Save(With(t, [r EXCEPT !.notice = "recorded"]), t)
    /\ UNCHANGED <<queue, pc, job, closed, finalizers, lost>>

-----------------------------------------------------------------------------
(* The pool's workers.                                                     *)

Idle(w) ==
    /\ pc' = [pc EXCEPT ![w] = "idle"]
    /\ job' = [job EXCEPT ![w] = <<>>]

(* The pool takes the oldest item; its future can no longer be withdrawn.  *)
Pick(w) ==
    LET t == Head(queue)[1] IN
    /\ pc[w] = "idle" /\ queue # <<>>
    /\ pc' = [pc EXCEPT ![w] = "picked"]
    /\ job' = [job EXCEPT ![w] = Head(queue)]
    /\ queue' = Tail(queue)
    /\ records' = With(t, [records[t] EXCEPT
                            !.fut = IF @ = "pending" THEN "running" ELSE @])
    /\ UNCHANGED <<disk, closed, finalizers, lost>>

Runnable(t, a) ==
    /\ records[t].attempt = a /\ ~records[t].cancelReq
    /\ CanMove(records[t].status, "running", FALSE)

(* The first half of _run.  Work canceled or superseded since it was       *)
(* picked is left as it is; a failed write leaves it marked as running.    *)
Start(w) ==
    LET t == job[w][1]
        a == job[w][2]
        r == records[t]
        begun == [r EXCEPT !.status = "running", !.active = TRUE]
        ended == [r EXCEPT !.fut = IF r.attempt = a /\ @ = "running" THEN "done" ELSE @]
    IN
    /\ pc[w] = "picked"
    /\ \/ /\ ~Runnable(t, a)
          /\ records' = With(t, ended)
          /\ Idle(w)
          /\ UNCHANGED disk
       \/ /\ Runnable(t, a)
          /\ Saved(With(t, begun), t)
          /\ pc' = [pc EXCEPT ![w] = "executing"]
          /\ UNCHANGED job
       \/ /\ Runnable(t, a)
          /\ SaveLost(With(t, [begun EXCEPT !.fut = "done"]))
          /\ Idle(w)
    /\ UNCHANGED <<queue, closed, finalizers, lost>>

Executing(w, t) == pc[w] = "executing" /\ job[w][1] = t

(* Mutant: the claim does not look at the other records.                   *)
Unclaimed(t, q) == TRUE

(* claim_target, called by the handler of a live attempt.                  *)
(* No other live record of the scope names the target.                     *)
Claimable(t, q) ==
    \A o \in Tasks \ {t} :
        ~ /\ records[o].scope = records[t].scope
          /\ records[o].active \/ records[o].status = "queued"
          /\ records[o].target = q.target

ClaimTarget(w, q) ==
    LET t == job[w][1]
        r == records[t]
    IN
    /\ pc[w] = "executing"
    /\ r.attempt = job[w][2] /\ r.active /\ q.target # NoTarget
    /\ Claimable(t, q)
    /\ Save(With(t, [r EXCEPT !.target = q.target, !.claimed = r.attempt]), t)
    /\ UNCHANGED <<queue, pc, job, closed, finalizers, lost>>

(* update_progress: host counters are abstracted; the record is rewritten. *)
UpdateProgress(w) ==
    LET t == job[w][1] IN
    /\ pc[w] = "executing"
    /\ records[t].attempt = job[w][2] /\ records[t].active
    /\ Save(records, t)
    /\ UNCHANGED <<queue, pc, job, closed, finalizers, lost>>

(* A record whose worker has left, with its final status.                  *)
Ended(r, status) ==
    [r EXCEPT !.status = status, !.active = FALSE, !.cleanup = FALSE,
              !.handler = @ /\ ~r.fresh, !.fut = "done"]

(* The second half of _run when the handler gave a final answer.  If the   *)
(* write raises, the except branch runs: it cannot fail a completed record *)
(* and keeps a canceled one, but fails any other.                          *)
Settle(r, t, status) ==
    \/ Saved(With(t, Ended(r, status)), t)
    \/ /\ status \in {"completed", "canceled"}
       /\ SaveLost(With(t, Ended(r, status)))
    \/ /\ "store" \in Faults
       /\ status \notin {"completed", "canceled"}
       /\ Save(With(t, Ended(r, "failed")), t)

(* Mutant: the answer of the handler wins.                                 *)
CancelIgnored(r) == FALSE

(* A cancellation the handler did not see wins over its answer.            *)
CancelWins(r) == r.status = "canceled" \/ r.cancelReq

(* The handler yields.  A canceled attempt ends; while the coordinator is  *)
(* closing, a continuation is an ordinary value and the record completes.  *)
Yield(r, t) ==
    LET next == [r EXCEPT !.status = "queued", !.active = FALSE,
                          !.handler = TRUE, !.cleanup = TRUE, !.fut = "done"]
    IN  \/ CancelWins(r) /\ Settle(r, t, "canceled") /\ UNCHANGED queue
        \/ ~CancelWins(r) /\ closed /\ Settle(r, t, "completed") /\ UNCHANGED queue
        \/ ~CancelWins(r) /\ ~closed /\ Dispatched(With(t, next), t)
        \/ /\ ~CancelWins(r) /\ ~closed /\ Faults # {}
           /\ Save(With(t, Ended(r, "failed")), t)
           /\ UNCHANGED queue
        \/ /\ ~CancelWins(r) /\ ~closed
           /\ RefusalLost(With(t, next), With(t, Ended(r, "failed")), t)

(* The handler answers.                                                    *)
Answer(r, t, status) ==
    /\ Settle(r, t, IF CancelWins(r) THEN "canceled" ELSE status)
    /\ UNCHANGED queue

(* The handler raises.                                                     *)
Raise(r, t) ==
    /\ Save(With(t, Ended(r, IF CancelWins(r) THEN "canceled" ELSE "failed")), t)
    /\ UNCHANGED queue

(* The handler is back; a superseded attempt writes nothing.               *)
Finish(w) ==
    LET t == job[w][1]
        r == records[t]
    IN
    /\ pc[w] = "executing"
    /\ Idle(w)
    /\ IF r.attempt # job[w][2]
       THEN UNCHANGED <<records, disk, queue>>
       ELSE \/ Yield(r, t)
            \/ \E status \in OutcomeStatuses : Answer(r, t, status)
            \/ Raise(r, t)
    /\ UNCHANGED <<closed, finalizers, lost>>

-----------------------------------------------------------------------------
(* The end of the process.                                                 *)

(* shutdown(wait=True) only closes admission and lets the queue drain.     *)
Shutdown ==
    /\ ~closed /\ closed' = TRUE
    /\ UNCHANGED <<records, disk, queue, pc, job, finalizers, lost>>

(* The table after the records of S have been canceled, and its rows after *)
(* those of R have been written.                                           *)
Swept(S) == [t \in Tasks |-> IF t \in S THEN Canceled(records[t]) ELSE records[t]]

Written(recs, R) == [t \in Tasks |-> IF t \in R THEN Stored(recs[t]) ELSE disk[t]]

(* shutdown(wait=False) cancels every live record under the lock, callbacks*)
(* included, and withdraws what is still queued.                           *)
SweepAll ==
    LET swept == Swept(OutstandingTasks) IN
    /\ \E V \in Victims(swept) :
          /\ records' = Drop(swept, V)
          /\ disk' = Drop(Written(swept, OutstandingTasks), V)
    /\ queue' = <<>>

(* The write for one of them raises: those before it are canceled, it is   *)
(* canceled in memory only, and its callback is lost.  The others keep     *)
(* their items, because the pool itself is not shut down.                  *)
SweepStopsAt(t, S) ==
    LET swept == Swept(S \cup {t})
        kept == {k \in 1..Len(queue) : queue[k][1] \notin S \cup {t}}
    IN
    /\ "store" \in Faults
    /\ \E W \in Victims(Swept(S)), V \in Victims(swept) :
          /\ W \subseteq V
          /\ records' = Drop(swept, V)
          /\ disk' = Drop(Written(swept, S), W)
    /\ \E order \in [1..Cardinality(kept) -> kept] :
          /\ \A i, k \in DOMAIN order : i < k => order[i] < order[k]
          /\ queue' = [i \in DOMAIN order |-> queue[order[i]]]

ShutdownNow ==
    /\ closed' = TRUE
    /\ \/ SweepAll
       \/ \E t \in OutstandingTasks :
             \E S \in SUBSET (OutstandingTasks \ {t}) : SweepStopsAt(t, S)
    /\ UNCHANGED <<pc, job, finalizers, lost>>

(* The process dies, at any point, and a new one loads the table.          *)
Restart ==
    LET loaded == [t \in Tasks |-> Loaded(disk[t])] IN
    /\ \E V \in Victims(loaded) :
          /\ records' = Drop(loaded, V)
          /\ disk' = Drop(loaded, V)
    /\ queue' = <<>>
    /\ pc' = [w \in Workers |-> "idle"]
    /\ job' = [w \in Workers |-> <<>>]
    /\ closed' = FALSE
    /\ finalizers' = {}
    /\ lost' = [t \in Tasks |->
                  lost[t] \cup {a \in 1..MaxAttempt :
                      \E w \in Workers : pc[w] = "executing" /\ job[w] = <<t, a>>}]

-----------------------------------------------------------------------------
Call ==
    \/ \E t \in Tasks, q \in Requests, reopen, defer \in BOOLEAN :
          Submit(t, q, reopen, defer)
    \/ \E t \in Tasks : Dispatch(t) \/ Cancel(t) \/ Retry(t)
    \/ \E t \in Tasks, a \in 1..MaxAttempt : ClaimNotice(t, a) \/ RecordNotice(t, a)
    \/ \E f \in finalizers : RunFinalizer(f)

Step(w) ==
    \/ Pick(w) \/ Start(w) \/ Finish(w) \/ UpdateProgress(w)
    \/ \E q \in Requests : ClaimTarget(w, q)

Next == Call \/ (\E w \in Workers : Step(w)) \/ Shutdown \/ ShutdownNow \/ Restart

Spec == Init /\ [][Next]_vars

-----------------------------------------------------------------------------
(* Type invariant.                                                         *)
Items == Tasks \X Nat

TypeOK ==
    /\ records \in [Tasks -> Record]
    /\ disk \in [Tasks -> Record]
    /\ queue \in Seq(Items)
    /\ pc \in [Workers -> {"idle", "picked", "executing"}]
    /\ job \in [Workers -> Items \cup {<<>>}]
    /\ \A w \in Workers : pc[w] # "idle" => job[w] \in Items
    /\ closed \in BOOLEAN
    /\ finalizers \subseteq Items
    /\ lost \in [Tasks -> SUBSET Nat]

(* Two threads never execute the same piece of work, not even two attempts *)
(* of it: reopening, retrying and continuing all wait for the worker.      *)
NoOverlap ==
    \A v, w \in Workers :
        /\ v # w /\ pc[v] = "executing" /\ pc[w] = "executing"
        => job[v][1] # job[w][1]

(* "No false stopped receipt": while a handler runs, its record says       *)
(* running, for that attempt, whatever was requested meanwhile.            *)
StoppedMeansStopped ==
    \A w \in Workers :
        pc[w] = "executing" =>
            /\ records[job[w][1]].status = "running"
            /\ records[job[w][1]].attempt = job[w][2]

(* Write-ahead: a handler runs only while the disk says its attempt is     *)
(* running, so that a crash at any moment finds it and fails it.           *)
DurableBeforeEffects ==
    \A w \in Workers :
        pc[w] = "executing" =>
            /\ disk[job[w][1]].status = "running"
            /\ disk[job[w][1]].attempt = job[w][2]

(* An attempt whose thread died with the process is never executed again.  *)
NoReplay ==
    \A w \in Workers :
        pc[w] = "executing" => job[w][2] \notin lost[job[w][1]]

(* claim_target: at most one live attempt of a scope owns an Agent ledger, *)
(* although submit, claim_target and retry look at the table at different  *)
(* times, and retry does not look at the other records at all.             *)
Owner(t) ==
    /\ Outstanding(records[t])
    /\ records[t].claimed = records[t].attempt
    /\ records[t].target # NoTarget

OneOwner ==
    \A s, t \in Tasks :
        /\ s # t /\ Owner(s) /\ Owner(t)
        /\ records[s].scope = records[t].scope
        => records[s].target # records[t].target

(* Memory and disk agree whenever the lock is free, if no write fails.     *)
DiskMirrorsMemory == \A t \in Tasks : disk[t] = Stored(records[t])

(* Admission keeps the live work slices included, under the cap.  *)
PendingBound == Cardinality(OutstandingTasks) <= MaxPending

(* cancel calls on_cancel after it has left the lock.  Whatever happens to *)
(* the record in between, the attempt that is cleaned up is over: its      *)
(* record says canceled or counts a later attempt.  (Another record may    *)
(* work on the same ledger by then; only the ledger's revision protects    *)
(* that one.)                                                              *)
FinalizerAfterStop ==
    \A f \in finalizers :
        LET r == records[f[1]] IN
        \/ r.attempt > f[2]
        \/ r.attempt = f[2] /\ r.status = "canceled"

(* Who writes an Agent ledger: at any time one attempt that owns it, and   *)
(* cleanups of attempts that are over.  That a cleanup keeps out of the    *)
(* way of another record's owner is not part of it.                        *)
LedgerWriters == OneOwner /\ FinalizerAfterStop

(* A finished attempt stays as it ended, across retries, reopenings,       *)
(* crashes and late workers, until a new attempt or until it is forgotten. *)
FinishedIsFinal ==
    [][\A t \in Tasks :
          /\ records[t].status \in TerminalStatuses
          /\ Exists(records'[t])
          /\ records'[t].attempt = records[t].attempt
          => records'[t].status = records[t].status]_vars

-----------------------------------------------------------------------------
(* The coordinator keeps the promise of TaskLifecycle.                     *)
Phase(t) ==
    IF ~Exists(records[t])                     THEN "absent"
    ELSE IF \E w \in Workers : Executing(w, t) THEN "working"
    ELSE IF Outstanding(records[t])            THEN "admitted"
    ELSE "settled"

Lifecycle == INSTANCE TaskLifecycle
    WITH phase   <- [t \in Tasks |-> Phase(t)],
         attempt <- [t \in Tasks |-> records[t].attempt]

(* Every behaviour of the coordinator is one of TaskLifecycle: a settled   *)
(* attempt is never worked on again, work begins only after admission.     *)
KeepsLifecycle == Lifecycle!Spec

-----------------------------------------------------------------------------
(* Liveness.  The pool's threads run whenever they have something to do,   *)
(* and handlers return: they are cooperative, bounded slices.              *)
Fairness ==
    \A w \in Workers : WF_vars(Pick(w)) /\ WF_vars(Start(w)) /\ WF_vars(Finish(w))

FairSpec == Spec /\ Fairness

(* FIFO service: queued work slices included, reaches a worker or *)
(* is withdrawn, even if other work keeps yielding for ever.               *)
QueuedWorkServed ==
    \A t \in Tasks : records[t].fut = "pending" ~> records[t].fut # "pending"

(* A cancellation requested while a handler runs ends in a final status,   *)
(* after which the record may be forgotten.                                *)
RunningCancelSettles ==
    \A t \in Tasks :
        records[t].active /\ records[t].cancelReq
            ~> records[t].status \in TerminalStatuses \cup {"absent"}

-----------------------------------------------------------------------------
(* A promise of the text around the code that the code does not keep.      *)

(* tests/test_agent_async_processor.py: canceling queued work cancels it.  *)
(* A cancel that lands between the pool taking the item and _run taking    *)
(* the lock leaves the record queued, with nothing left to run it.         *)
CancelSettles ==
    \A t \in Tasks :
        records[t].status = "queued" /\ records[t].cancelReq /\ ~closed
            ~> records[t].status # "queued" \/ closed
==================================================
