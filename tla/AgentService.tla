---------------------------- MODULE AgentService ----------------------------
(***************************************************************************)
(* AgentService (shinku/agent_runtime/service.py): the port a host uses to *)
(* submit, cancel, supplement and resume an Agent task.  It keeps the      *)
(* durable ledger of the task (AgentTaskStore) and drives the coordinator  *)
(* of TaskCoordinator, which keeps a record of its own for the same work.  *)
(*                                                                         *)
(* A host's call holds the service lock from its first read to its last    *)
(* write; between those the coordinator's threads move on and the process  *)
(* may die, so a call is a sequence of stages.  The handler holds the lock *)
(* only while it writes the ledger.                                        *)
(*                                                                         *)
(* Abstracted: authorization and budgets (granted), materials, handles     *)
(* (the caller has read the latest one), the expiry of a view.             *)
(***************************************************************************)
EXTENDS TaskCoordinator

CONSTANTS
    Host,       \* the one authenticated scope
    Recovery,   \* recovery_enabled
    Explored    \* the calls and failures explored

Request(t) == [scope |-> Host, target |-> t, fresh |-> TRUE, query |-> FALSE]

(* Every task is submitted as the service submits it.                      *)
ServiceRequests == {Request(t) : t \in Tasks}

ASSUME ServiceAssumption ==
    /\ Recovery \in BOOLEAN
    /\ Explored \subseteq {"cancel", "resume", "supplement", "raise", "stop"}
    /\ Requests = ServiceRequests
    /\ "store" \notin Faults

VARIABLES
    ledger,     \* AgentTaskStore: task -> row
    sessions,   \* _sessions: the process-local session of a task
    call,       \* the host's call that holds the service lock
    slice,      \* per worker: where its handler is, and what it will return
    unknown     \* history: tasks with a mutating call whose end nobody saw

service == <<ledger, sessions, call, slice, unknown>>
all     == <<vars, service>>

Concluded  == {"completed", "failed", "canceled"}
Verdicts   == OutcomeStatuses \cup {"partial", "unverified"}
LedgerStatuses == {"absent", "queued", "running"} \cup (Verdicts \ {"unverified"})
Resumable  == {"failed", "blocked", "waiting_user", "partial", "canceled"}
InFlight   == {"queued", "running"}                          \* _ACTIVE
Exported   == {"completed", "partial", "failed", "blocked", "canceled", "unverified"}

NoResult  == [attempt |-> 0, status |-> "none", current |-> FALSE]
NoLedger  == [status |-> "absent", attempt |-> 0, cancelReq |-> FALSE,
              inflight |-> FALSE, effects |-> FALSE, result |-> NoResult]
NoSession == [attempt |-> 0, recheck |-> FALSE]
Free      == [op |-> "none", t |-> NoTarget, at |-> "free", flag |-> FALSE]
Out       == [at |-> "out", want |-> "none"]

HasResult(l) == l.result # NoResult

ServiceInit ==
    /\ Init
    /\ ledger = [t \in Tasks |-> NoLedger]
    /\ sessions = [t \in Tasks |-> NoSession]
    /\ call = Free
    /\ slice = [w \in Workers |-> Out]
    /\ unknown = {}

(* A saved row has a new revision: a result bound to the old one stays     *)
(* readable but is no longer the current one.                              *)
Revised(l) == [l EXCEPT !.result.current = FALSE]

(* Mutant: the verdict of the result becomes the status of the row.        *)
SealedRaw(l, verdict) ==
    [l EXCEPT !.status = verdict,
              !.result = [attempt |-> l.attempt, status |-> verdict, current |-> TRUE]]

(* The result is exported for the revision it is saved with; work that the *)
(* exporter cannot verify is completed in the row, unverified in the result*)
Sealed(l, verdict) ==
    [l EXCEPT !.status = IF verdict = "unverified" THEN "completed" ELSE verdict,
              !.result = [attempt |-> l.attempt, status |-> verdict, current |-> TRUE]]

-----------------------------------------------------------------------------
(* What the coordinator answers.                                           *)

(* submit would not raise.                                                 *)
Accepts(t, reopen) ==
    /\ ~closed /\ Admissible
    /\ Exists(records[t]) => reopen /\ Reopenable(records[t], Request(t))
    /\ TargetFree(t, Request(t))

Busy(t) ==
    Exists(records[t]) /\ (records[t].active \/ records[t].status \in InFlight)

(* The record was failed because the last process died.                    *)
Restarted(t) == Recovery /\ records[t].recovered

-----------------------------------------------------------------------------
(* submit and resume: the ledger first, then the coordinator.              *)

AskSubmit(t) ==
    /\ call = Free
    /\ ledger[t].status = "absent"
    /\ ledger' = [ledger EXCEPT ![t] = [NoLedger EXCEPT !.status = "queued", !.attempt = 1]]
    /\ call' = [op |-> "submit", t |-> t, at |-> "queue", flag |-> FALSE]
    /\ UNCHANGED <<vars, sessions, slice, unknown>>

(* Mutant: a committed result does not stop recovery.                      *)
ContinuableTwice(l) == ~l.inflight

(* The recovery gate: a committed result is only delivered, a mutating call*)
(* without a receipt needs a review from outside.                          *)
Continuable(l) == ~(l.status = "completed" /\ HasResult(l)) /\ ~l.inflight

(* Without recovery, effects may only be continued from their checkpoint.  *)
Checkpointed(t) ==
    ~ledger[t].inflight /\ (ledger[t].effects => sessions[t] # NoSession)

(* Mutant: the worker of the last attempt is not looked at.                *)
ResumeAllowedWhileBusy(t) ==
    /\ ledger[t].status \in Resumable \/ Restarted(t)
    /\ IF Recovery THEN Continuable(ledger[t]) ELSE Checkpointed(t)

ResumeAllowed(t) ==
    /\ ~Busy(t)
    /\ ledger[t].status \in Resumable \/ Restarted(t)
    /\ IF Recovery THEN Continuable(ledger[t]) ELSE Checkpointed(t)

(* Mutant: the row keeps the last result.                                  *)
ReopenedWithResult(l) ==
    [l EXCEPT !.status = "queued", !.attempt = @ + 1, !.cancelReq = FALSE]

(* Mutant: the attempt is not counted.                                     *)
ReopenedSame(l) ==
    [l EXCEPT !.status = "queued", !.cancelReq = FALSE, !.result = NoResult]

(* A new attempt, without the last one's result.                           *)
Reopened(l) ==
    [l EXCEPT !.status = "queued", !.attempt = @ + 1, !.cancelReq = FALSE,
              !.result = NoResult]

AskResume(t) ==
    /\ "resume" \in Explored
    /\ call = Free
    /\ ledger[t].status # "absent" /\ ledger[t].attempt < MaxAttempt
    /\ ResumeAllowed(t)
    /\ ledger' = [ledger EXCEPT ![t] = Reopened(@)]
    /\ call' = [op |-> "resume", t |-> t, at |-> "queue", flag |-> Exists(records[t])]
    /\ UNCHANGED <<vars, sessions, slice, unknown>>

(* _queue: a new session, then a deferred submission.                      *)
Queue ==
    LET t == call.t IN
    /\ call.at = "queue"
    /\ sessions' = [sessions EXCEPT ![t] =
                        [attempt |-> ledger[t].attempt,
                         recheck |-> Recovery /\ call.op = "resume"]]
    /\ \/ /\ Submit(t, Request(t), call.flag, TRUE)
          /\ call' = [call EXCEPT !.at = "dispatch"]
       \/ /\ ~Accepts(t, call.flag)
          /\ call' = [call EXCEPT !.at = "failed"]
          /\ UNCHANGED vars
    /\ UNCHANGED <<ledger, slice, unknown>>

Startable(t) ==
    ~closed /\ records[t].status = "queued" /\ records[t].fut = "none" /\ ~records[t].cancelReq

QueueDispatch ==
    LET t == call.t IN
    /\ call.at = "dispatch"
    /\ \/ Dispatch(t) /\ call' = IF queue' # queue THEN Free ELSE [call EXCEPT !.at = "failed"]
       \/ /\ ~Startable(t)
          /\ call' = [call EXCEPT !.at = "failed"]
          /\ UNCHANGED vars
    /\ UNCHANGED <<ledger, sessions, slice, unknown>>

(* The coordinator refused: the new attempt is blocked, its number spent.  *)
AdmissionFailed ==
    /\ call.at = "failed"
    /\ ledger' = [ledger EXCEPT ![call.t] = [Revised(@) EXCEPT !.status = "blocked"]]
    /\ call' = Free
    /\ UNCHANGED <<vars, sessions, slice, unknown>>

-----------------------------------------------------------------------------
(* cancel: the coordinator first, then the ledger.                         *)

AskCancel(t) ==
    /\ "cancel" \in Explored
    /\ call = Free
    /\ ledger[t].status # "absent"
    /\ ~(ledger[t].status \in Concluded /\ HasResult(ledger[t]))
    /\ Cancel(t)
    /\ call' = [op |-> "cancel", t |-> t, at |-> "record",
                flag |-> records'[t].status = "canceled" /\ ~records'[t].active]
    /\ UNCHANGED <<ledger, sessions, slice, unknown>>

(* Mutant: every accepted cancellation is recorded as a stop.              *)
RecordCancelAsStop ==
    LET t == call.t IN
    /\ call.at = "record"
    /\ ledger' = [ledger EXCEPT ![t] = [Sealed(@, "canceled") EXCEPT !.cancelReq = TRUE]]
    /\ call' = Free
    /\ UNCHANGED <<vars, sessions, slice, unknown>>

(* Only work that has really stopped gets a canceled result.               *)
RecordCancel ==
    LET t == call.t IN
    /\ call.at = "record"
    /\ ledger' = [ledger EXCEPT ![t] =
                    [(IF call.flag THEN Sealed(@, "canceled") ELSE Revised(@))
                        EXCEPT !.cancelReq = TRUE]]
    /\ call' = Free
    /\ UNCHANGED <<vars, sessions, slice, unknown>>

(* supplement: new material for a task that is not running; a completed one*)
(* becomes partial, its result that of an older revision.                  *)
Supplement(t) ==
    /\ "supplement" \in Explored
    /\ call = Free /\ ~Busy(t)
    /\ ledger[t].status \in Resumable \cup {"completed"}
    /\ ledger' = [ledger EXCEPT ![t] =
                    [Revised(@) EXCEPT !.status =
                        IF ledger[t].status = "completed" THEN "partial" ELSE ledger[t].status]]
    /\ UNCHANGED <<vars, sessions, call, slice, unknown>>

-----------------------------------------------------------------------------
(* The handler: _run_slice, and the points where the Agent loop calls back.*)

At(w, place)  == slice[w].at = place
Goto(w, place) == slice' = [slice EXCEPT ![w] = [at |-> place, want |-> "none"]]
Leaving(w, place, want) == slice' = [slice EXCEPT ![w] = [at |-> place, want |-> want]]

(* The session of a handler is the one its closure was built with.         *)
Mine(w) == job[w][2] = records[job[w][1]].attempt

(* A resumed task is reviewed again before its first step.                 *)
Enter(w) ==
    LET t == job[w][1] IN
    /\ Start(w)
    /\ IF pc'[w] # "executing"
       THEN UNCHANGED <<slice, sessions>>
       ELSE /\ sessions' = [sessions EXCEPT ![t].recheck = FALSE]
            /\ \/ (sessions[t].recheck => Continuable(ledger[t])) /\ Goto(w, "run")
               \/ sessions[t].recheck /\ Leaving(w, "back", "blocked")
    /\ UNCHANGED <<ledger, call, unknown>>

(* interrupt: the event, then the row.                                     *)
Interrupt(t) ==
    IF records[t].cancelReq THEN "canceled"
    ELSE IF ledger[t].attempt # sessions[t].attempt THEN "blocked"
    ELSE IF ledger[t].cancelReq THEN "canceled"
    ELSE "none"

(* _check_interruption: read before every step, without the lock.          *)
CheckInterrupt(w) ==
    LET t == job[w][1] IN
    /\ At(w, "run")
    /\ IF Interrupt(t) = "none" THEN Goto(w, "clear") ELSE Leaving(w, "final", Interrupt(t))
    /\ UNCHANGED <<vars, ledger, sessions, call, unknown>>

(* _write: under the service lock, and only for the row's attempt.         *)
Writable(t) == call = Free /\ ledger[t].attempt = sessions[t].attempt

(* Mutant: the call is made before the row says so.                        *)
StartToolFirst(w) ==
    LET t == job[w][1] IN
    /\ At(w, "clear") /\ Writable(t)
    /\ ledger' = [ledger EXCEPT ![t] = [Revised(@) EXCEPT !.status = "running"]]
    /\ Goto(w, "tool")
    /\ UNCHANGED <<vars, sessions, call, unknown>>

(* A mutating call: written down as in flight, then made.                  *)
StartTool(w) ==
    LET t == job[w][1] IN
    /\ At(w, "clear") /\ Writable(t)
    /\ ledger' = [ledger EXCEPT ![t] =
                    [Revised(@) EXCEPT !.status = "running", !.inflight = TRUE]]
    /\ Goto(w, "tool")
    /\ UNCHANGED <<vars, sessions, call, unknown>>

(* The call has returned and its receipt is in the row.                    *)
EndTool(w) ==
    LET t == job[w][1] IN
    /\ At(w, "tool") /\ Writable(t)
    /\ ledger' = [ledger EXCEPT ![t] =
                    [Revised(@) EXCEPT !.status = "running", !.inflight = FALSE,
                                       !.effects = TRUE]]
    /\ Goto(w, "run")
    /\ UNCHANGED <<vars, sessions, call, unknown>>

(* The loop gives its answer: observed as running until it is committed,   *)
(* except the statuses that are not final.                                 *)
Observed(want) ==
    IF want = "yielded" THEN "queued"
    ELSE IF want \in Exported THEN "running" ELSE want

Decide(w, want) ==
    LET t == job[w][1] IN
    /\ \/ At(w, "clear")
       \/ At(w, "final") /\ want = slice[w].want
    /\ Writable(t)
    /\ ledger' = [ledger EXCEPT ![t] = [Revised(@) EXCEPT !.status = Observed(want)]]
    /\ Leaving(w, "back", want)
    /\ UNCHANGED <<vars, sessions, call, unknown>>

(* Anything raised on the way leaves the row as it was.                    *)
SliceRaises(w) ==
    LET t == job[w][1] IN
    /\ slice[w].at \in {"clear", "tool", "final", "commit"}
    /\ \/ "raise" \in Explored
       \/ call = Free /\ ~Writable(t)
    /\ unknown' = IF At(w, "tool") THEN unknown \cup {t} ELSE unknown
    /\ Goto(w, "raise")
    /\ UNCHANGED <<vars, ledger, sessions, call>>

(* The executor is back: a continuation only if the event is not set.      *)
ReadEvent(w) ==
    LET t == job[w][1] IN
    /\ At(w, "back")
    /\ IF records[t].cancelReq
       THEN Leaving(w, "commit", "canceled")
       ELSE Leaving(w, IF slice[w].want = "yielded" THEN "yield" ELSE "commit", slice[w].want)
    /\ UNCHANGED <<vars, ledger, sessions, call, unknown>>

(* The result is sealed with the revision that is saved.                   *)
Commit(w) ==
    LET t == job[w][1] IN
    /\ At(w, "commit") /\ Writable(t)
    /\ ledger' = [ledger EXCEPT ![t] = Sealed(@, slice[w].want)]
    /\ Leaving(w, "answer", IF slice[w].want \in OutcomeStatuses
                            THEN slice[w].want ELSE "blocked")
    /\ UNCHANGED <<vars, sessions, call, unknown>>

(* The coordinator takes the return value.                                 *)
Return(w) ==
    LET t == job[w][1]
        r == records[t]
    IN
    /\ slice[w].at \in {"yield", "answer", "raise"}
    /\ IF ~Mine(w)
       THEN UNCHANGED <<records, disk, queue>>
       ELSE \/ At(w, "yield") /\ Yield(r, t)
            \/ At(w, "answer") /\ Answer(r, t, slice[w].want)
            \/ At(w, "raise") /\ Raise(r, t)
    /\ Idle(w)
    /\ slice' = [slice EXCEPT ![w] = Out]
    /\ UNCHANGED <<closed, finalizers, lost, ledger, sessions, call, unknown>>

-----------------------------------------------------------------------------
(* The process.                                                            *)

Die ==
    /\ Restart
    /\ unknown' = unknown \cup {job[w][1] : w \in {v \in Workers : At(v, "tool")}}
    /\ sessions' = [t \in Tasks |-> NoSession]
    /\ call' = Free
    /\ slice' = [w \in Workers |-> Out]
    /\ UNCHANGED ledger

Stop ==
    /\ "stop" \in Explored
    /\ Shutdown \/ ShutdownNow
    /\ UNCHANGED service

Take(w)    == Pick(w) /\ UNCHANGED service
Cleanup    == (\E f \in finalizers : RunFinalizer(f)) /\ UNCHANGED service

HostCall ==
    \/ \E t \in Tasks : AskSubmit(t) \/ AskResume(t) \/ AskCancel(t) \/ Supplement(t)
    \/ Queue \/ QueueDispatch \/ AdmissionFailed \/ RecordCancel \/ Cleanup

Handler(w) ==
    \/ Take(w) \/ Enter(w) \/ CheckInterrupt(w) \/ StartTool(w) \/ EndTool(w)
    \/ \E want \in Verdicts \cup {"yielded"} : Decide(w, want)
    \/ SliceRaises(w) \/ ReadEvent(w) \/ Commit(w) \/ Return(w)

ServiceNext == HostCall \/ (\E w \in Workers : Handler(w)) \/ Die \/ Stop

ServiceSpec == ServiceInit /\ [][ServiceNext]_all

-----------------------------------------------------------------------------
(* What a host is shown (TaskViewReader._derive), for a coordinator that   *)
(* can be reached: the row and the record, reconciled.                     *)

(* A result committed just before the process died outlives the record     *)
(* that the restart failed.                                                *)
CommittedAfterRestart(t) ==
    LET l == ledger[t] r == records[t] IN
    /\ r.status = "failed" /\ r.recovered /\ ~r.active /\ ~r.cancelReq
    /\ r.attempt = l.attempt
    /\ HasResult(l) /\ l.result.current /\ l.result.attempt = l.attempt
    /\ l.result.status = l.status /\ l.status \in Exported
    /\ ~l.cancelReq

Shown(l) ==
    IF l.status = "completed" /\ l.result.status # "completed" THEN "unverified" ELSE l.status

(* A row and a record of one attempt.                                      *)
Reconciled(t) ==
    LET l == ledger[t]
        r == records[t]
        ended == r.status \in {"failed", "canceled"}
    IN
    IF r.status = "canceled" /\ r.active THEN "unknown"
    ELSE IF /\ ended /\ l.status \in Concluded \cup {"partial"}
            /\ l.status # r.status /\ ~CommittedAfterRestart(t) THEN "conflict"
    ELSE IF ended /\ l.status \in InFlight THEN r.status
    ELSE IF r.status = "completed" /\ l.status \in InFlight THEN "unverified"
    ELSE Shown(l)

View(t) ==
    LET l == ledger[t] IN
    IF l.status = "absent" THEN "absent"
    ELSE IF ~Exists(records[t])
         THEN IF l.status \in InFlight THEN "unknown" ELSE Shown(l)
    ELSE IF records[t].attempt # l.attempt THEN "conflict"
    ELSE Reconciled(t)

Settles == {"completed", "unverified", "failed", "canceled", "partial", "blocked"}

Acting(w, t) == slice[w].at \in {"run", "clear", "tool"} /\ job[w][1] = t

-----------------------------------------------------------------------------
ServiceTypeOK ==
    /\ TypeOK
    /\ \A t \in Tasks :
          /\ ledger[t].status \in LedgerStatuses
          /\ ledger[t].attempt \in 0..MaxAttempt
          /\ ledger[t].result.status \in Verdicts \cup {"none"}
          /\ sessions[t].attempt \in 0..MaxAttempt
    /\ call.at \in {"free", "queue", "dispatch", "failed", "record"}
    /\ \A w \in Workers :
          slice[w].at # "out" <=> pc[w] = "executing"
    /\ unknown \subseteq Tasks

(* A host that is shown an end, a stop included, may rely on it: no thread *)
(* of this process is still taking steps or calling tools for the task.    *)
EndIsQuiet ==
    \A t \in Tasks, w \in Workers :
        Acting(w, t) => View(t) \notin Settles

(* The row has one writer: whatever handler is on its way belongs to the   *)
(* row's own attempt, so no older attempt's work is mixed with a new one's.*)
OneWriter ==
    \A w \in Workers :
        pc[w] = "executing" =>
            /\ sessions[job[w][1]].attempt = ledger[job[w][1]].attempt
            /\ Mine(w)

(* A result is that of the row's attempt, and the current one says what    *)
(* the row says.                                                           *)
ResultBelongs ==
    \A t \in Tasks :
        HasResult(ledger[t]) =>
            /\ ledger[t].result.attempt = ledger[t].attempt
            /\ ledger[t].result.current => Shown(ledger[t]) = ledger[t].result.status

(* "Recovery never replays": once a mutating call's end is not known, the  *)
(* task is not worked on again, whatever the host asks, crashes included.  *)
UnknownIsNotRepeated ==
    \A w \in Workers : pc[w] = "executing" /\ ~At(w, "raise") => job[w][1] \notin unknown

(* A committed result is delivered, never executed again: its task takes   *)
(* no further attempt unless new material reopened it.                     *)
CommittedIsFinal ==
    [][\A t \in Tasks :
          ledger[t].status = "completed" => ledger'[t].attempt = ledger[t].attempt]_all

(* Whatever waits for the coordinator has its row on disk before: a crash  *)
(* never finds work without the ledger that explains it.                   *)
LedgerFirst ==
    \A t \in Tasks :
        records[t].status \in InFlight =>
            ledger[t].status # "absent" /\ records[t].attempt <= ledger[t].attempt

(* The row leads and the work follows: it is there before any work, and    *)
(* whoever works writes for the attempt the row is at.                     *)
LedgerLeads == OneWriter /\ LedgerFirst

-----------------------------------------------------------------------------
(* Promises of the tests that the code does not keep.                      *)

AtRest(t) == call = Free /\ \A w \in Workers : pc[w] = "idle"

(* tests/test_agent_runtime_boundary.py: a canceled task that has settled  *)
(* is shown as canceled.  A cancel that lands between the handler's look at*)
(* the event and its commit leaves a result beside a canceled record.      *)
CancelIsShown ==
    \A t \in Tasks :
        /\ AtRest(t)
        /\ records[t].status = "canceled" /\ records[t].attempt = ledger[t].attempt
        => View(t) = "canceled"

(* tests/test_agent_recovery.py: a resumed task that completes is shown as *)
(* completed.  An attempt the coordinator refused is counted by the row and*)
(* not by the record; from then on they never agree again.                 *)
ResumedIsShown ==
    \A t \in Tasks :
        /\ AtRest(t)
        /\ records[t].status = "completed" /\ ledger[t].result.status = "completed"
        => View(t) = "completed"
=============================================================================
