------------------------------ MODULE Workbench ------------------------------
(***************************************************************************)
(* A conversation of the local workbench: shinku/angelos/workbench.py.     *)
(*                                                                         *)
(* A message becomes a turn, whose request is prepared by a thread of the  *)
(* pool and handed to the Agent's service as a task.  One lock is held by  *)
(* every method from its first read to its last write, and is free while a *)
(* request is prepared; the service moves on its own.  Of a task there is  *)
(* whether it is worked on, waits for its user, or has ended.  Every       *)
(* method first refreshes what is shown of the turns; a read may fail.     *)
(* Left out: models, workspaces and attachments, the caps on what waits.   *)
(***************************************************************************)
EXTENDS Naturals, FiniteSets

CONSTANT Turns      \* the messages sent

VARIABLES
    turn,           \* stage, whether it has a task's id, whether it shows a
                    \* question, why it was ended by the user
    thread,         \* _prepare of each turn
    task,           \* the service's task of each turn
    memory,         \* turns whose result the Agent's memory keeps
    conversation,   \* open, forgetting (in remove_conversation), removed
    closed,         \* close() was called
    accepted        \* history: turns whose request reached the service

workbenchVars == <<turn, thread, task, memory, conversation, closed, accepted>>

NoTurn == [stage |-> "none", id |-> FALSE, question |-> FALSE]

WorkbenchInit ==
    /\ turn = [t \in Turns |-> NoTurn]
    /\ thread = [t \in Turns |-> "none"] /\ task = [t \in Turns |-> "none"]
    /\ memory = {} /\ conversation = "open" /\ closed = FALSE /\ accepted = {}

-----------------------------------------------------------------------------
(* The lock is free, and there is a conversation to read.                  *)
Free == conversation = "open" /\ \A t \in Turns : thread[t] # "submitting"

Unfinished == {"preparing", "submitting", "executing"}

(* Mutant: what is being prepared does not keep the next one waiting.      *)
BusyExecuting(now, but) == \E t \in Turns \ {but} : now[t].stage \in {"submitting", "executing"}

(* conversation_busy, of the turns as they are now, without one of them.   *)
Busy(now, but) == \E t \in Turns \ {but} : now[t].stage \in Unfinished

(* What a read of its task makes of a turn.                                *)
Seen(t) ==
    [turn[t] EXCEPT !.stage = IF task[t] = "none" THEN "interrupted"
                              ELSE IF task[t] = "active" THEN @ ELSE "finished",
                    !.question = task[t] = "waiting"]

(* refresh: each turn that may have changed is read, or cannot be.         *)
Refreshes ==
    LET due == {t \in Turns : turn[t].stage = "executing" \/ turn[t].question}
    IN {[t \in Turns |-> IF t \in read THEN Seen(t) ELSE turn[t]] : read \in SUBSET due}

(* ... and the results of finished ones are kept, if the memory takes them. *)
Captures(now) ==
    \E kept \in SUBSET {t \in Turns : now[t].stage = "finished"} : memory' = memory \cup kept

Refresh ==
    /\ Free
    /\ \E now \in Refreshes : turn' = now /\ Captures(now)
    /\ UNCHANGED <<thread, task, conversation, closed, accepted>>

(* send; the pool takes nothing after close, and the turn then waits.      *)
Send(t) ==
    /\ Free /\ turn[t].stage = "none"
    /\ \E now \in Refreshes :
          /\ ~Busy(now, t)
          /\ turn' = [now EXCEPT ![t].stage = "preparing"]
          /\ Captures(now)
    /\ thread' = IF closed THEN thread ELSE [thread EXCEPT ![t] = "queued"]
    /\ UNCHANGED <<task, conversation, closed, accepted>>

-----------------------------------------------------------------------------
(* _prepare *)

Threads(t, at) == thread' = [thread EXCEPT ![t] = at]
Stage(t, stage) == turn' = [turn EXCEPT ![t].stage = stage]
Apart == UNCHANGED <<memory, conversation, closed>>

(* The pool takes the turn and the model is asked, without the lock.       *)
Prepare(t) ==
    /\ thread[t] = "queued" /\ ~closed
    /\ Threads(t, "preparing")
    /\ UNCHANGED <<turn, task, accepted>> /\ Apart

Fail(t) ==
    /\ thread[t] = "preparing"
    /\ Threads(t, "failing")
    /\ UNCHANGED <<turn, task, accepted>> /\ Apart

(* Mutant: a late answer is taken.                                         *)
WantedLate(t) == ~closed

(* The turn may have been canceled, or the workbench stopped, meanwhile.   *)
Wanted(t) == ~closed /\ turn[t].stage = "preparing"

(* Under the lock again: dropped, a reply, or a request, which may be too  *)
(* large.                                                                  *)
Prepared(t) ==
    /\ thread[t] = "preparing" /\ Free
    /\ \/ ~Wanted(t) /\ Threads(t, "none") /\ UNCHANGED turn
       \/ Wanted(t) /\ Stage(t, "replied") /\ Threads(t, "none")
       \/ Wanted(t) /\ Threads(t, "failing") /\ UNCHANGED turn
       \/ /\ Wanted(t) /\ Threads(t, "submitting")
          /\ turn' = [turn EXCEPT ![t].stage = "submitting", ![t].id = TRUE]
    /\ UNCHANGED <<task, accepted>> /\ Apart

(* The conversation is gone when the answer comes: the read raises.        *)
Gone(t) ==
    /\ thread[t] \in {"preparing", "failing"} /\ conversation = "removed"
    /\ Threads(t, "none")
    /\ UNCHANGED <<turn, task, accepted>> /\ Apart

(* submit, with the lock kept: taken, or refused before or after its row   *)
(* was written.                                                            *)
Submit(t) ==
    /\ thread[t] = "submitting"
    /\ \/ /\ task' = [task EXCEPT ![t] = "active"] /\ accepted' = accepted \cup {t}
          /\ Stage(t, "executing") /\ Threads(t, "none")
       \/ /\ \E s \in {"none", "ended"} : task' = [task EXCEPT ![t] = s]
          /\ Threads(t, "failing") /\ UNCHANGED <<turn, accepted>>
    /\ Apart

(* The exception handler takes the lock for itself.                        *)
Failed(t) ==
    /\ thread[t] = "failing" /\ Free
    /\ Threads(t, "none")
    /\ IF turn[t].stage \in {"canceled", "replied"} THEN UNCHANGED turn
       ELSE Stage(t, IF turn[t].id THEN "executing" ELSE "failed")
    /\ UNCHANGED <<task, accepted>> /\ Apart

-----------------------------------------------------------------------------
(* control *)

(* A preparation is canceled where it is; its thread goes on.              *)
CancelPreparing(t) ==
    /\ Free
    /\ \E now \in Refreshes :
          /\ now[t].stage = "preparing"
          /\ turn' = [now EXCEPT ![t].stage = "canceled"] /\ Captures(now)
    /\ UNCHANGED <<thread, task, conversation, closed, accepted>>

(* The other actions read the task, act on it, mark the turn as executing, *)
(* and refresh once more, which is a step of its own here.                 *)
Controls(t, allowed(_), result) ==
    /\ Free
    /\ turn[t].id /\ task[t] # "none"
    /\ \E now \in Refreshes :
          /\ allowed(now)
          /\ turn' = [now EXCEPT ![t].stage = "executing"]
          /\ Captures(now)
    /\ \E s \in result : task' = [task EXCEPT ![t] = s]
    /\ UNCHANGED <<thread, conversation, closed, accepted>>

Any(now) == TRUE

(* A worker is asked to stop; what only waits has ended.                   *)
CancelTask(t) ==
    \/ task[t] = "active" /\ Controls(t, Any, {"active", "ended"})
    \/ task[t] = "waiting" /\ Controls(t, Any, {"ended"})

ResumeTask(t) ==
    LET Allowed(now) == ~Busy(now, t) /\ ~now[t].question
    IN task[t] = "ended" /\ Controls(t, Allowed, {"active"})

AnswerTask(t) ==
    LET Allowed(now) == ~Busy(now, t)
    IN task[t] = "waiting" /\ Controls(t, Allowed, {"active"})

SupplementTask(t) == task[t] \in {"waiting", "ended"} /\ Controls(t, Any, {task[t]})

(* remove_conversation: nothing is under way, nothing is asked, no task is *)
(* worked on; then the memory of it goes, and then the conversation.       *)
Forget ==
    /\ Free
    /\ \A t \in Turns : turn[t].stage \notin Unfinished /\ ~turn[t].question /\ (turn[t].id => task[t] # "active")
    /\ memory' = {} /\ conversation' = "forgetting"
    /\ UNCHANGED <<turn, thread, task, closed, accepted>>

Remove ==
    /\ conversation = "forgetting"
    /\ conversation' = "removed"
    /\ UNCHANGED <<turn, thread, task, memory, closed, accepted>>

CloseWorkbench ==
    /\ ~closed
    /\ closed' = TRUE
    /\ thread' = [t \in Turns |-> IF thread[t] = "queued" THEN "none" ELSE thread[t]]
    /\ UNCHANGED <<turn, task, memory, conversation, accepted>>

(* The process ends with whatever it is doing, and begins again: the tasks *)
(* of the service have ended with it, and turns that were on their way are *)
(* marked.                                                                 *)
Restart ==
    /\ thread' = [t \in Turns |-> "none"] /\ closed' = FALSE
    /\ task' = [t \in Turns |-> IF task[t] = "active" THEN "ended" ELSE task[t]]
    /\ turn' = [t \in Turns |->
          IF turn[t].stage \in {"preparing", "submitting"} /\ conversation # "removed"
          THEN [turn[t] EXCEPT !.stage = IF turn[t].id THEN "executing" ELSE "interrupted"]
          ELSE turn[t]]
    /\ conversation' = IF conversation = "removed" THEN "removed" ELSE "open"
    /\ UNCHANGED <<memory, accepted>>

(* The service's worker.                                                   *)
Work(t) ==
    /\ task[t] = "active"
    /\ \E s \in {"waiting", "ended"} : task' = [task EXCEPT ![t] = s]
    /\ UNCHANGED <<turn, thread, accepted>> /\ Apart

WorkbenchNext ==
    \/ \E t \in Turns :
          \/ Send(t) \/ Prepare(t) \/ Fail(t) \/ Prepared(t) \/ Gone(t) \/ Submit(t) \/ Failed(t)
          \/ CancelPreparing(t) \/ CancelTask(t) \/ ResumeTask(t) \/ AnswerTask(t) \/ SupplementTask(t)
          \/ Work(t)
    \/ Refresh \/ Forget \/ Remove \/ CloseWorkbench \/ Restart

WorkbenchSpec == WorkbenchInit /\ [][WorkbenchNext]_workbenchVars

-----------------------------------------------------------------------------
WorkbenchTypeOK ==
    /\ \A t \in Turns :
          /\ turn[t].stage \in {"none", "preparing", "submitting", "executing", "finished", "replied",
                                "canceled", "failed", "interrupted"}
          /\ thread[t] \in {"none", "queued", "preparing", "submitting", "failing"}
          /\ task[t] \in {"none", "active", "waiting", "ended"}
    /\ memory \subseteq Turns /\ conversation \in {"open", "forgetting", "removed"}

(* Of one conversation one task is worked on at a time, and it is one the  *)
(* user is shown as such; a preparation he canceled has not reached the    *)
(* service and never will; and what he removed is neither worked on nor    *)
(* remembered, whatever was still being prepared.                          *)
OneTaskShown ==
    /\ Cardinality({t \in Turns : task[t] = "active"}) <= 1
    /\ \A t \in Turns : task[t] = "active" => turn[t].stage \in {"submitting", "executing"}
    /\ \A t \in Turns : turn[t].stage = "canceled" => t \notin accepted
    /\ conversation = "removed" => memory = {} /\ \A t \in Turns : task[t] # "active"
=============================================================================
