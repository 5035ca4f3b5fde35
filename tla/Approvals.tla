----------------------------- MODULE Approvals -----------------------------
(***************************************************************************)
(* A tool call waits for the user's word.                                  *)
(*                                                                         *)
(*   shinku/agent/pending.py        the requests of a conversation, first  *)
(*                                  in first out, in a file                *)
(*   shinku/qq/approval_resume.py   a message that answers the first one   *)
(*   shinku/qq/background_tasks.py  the work that asks, and that goes on   *)
(*   shinku/agent/loop_tools.py     the calls that were approved           *)
(*                                                                         *)
(* One conversation, whose messages are handled one at a time (as          *)
(* TurnDispatch shows); the works it began are not.  A slice, which holds  *)
(* the checkpoint and the budget of a work, is in memory; requests and     *)
(* records are on disk.  What a message means is the model's word.  Only   *)
(* the asynchronous Agent is modelled, and only messages of the task's own *)
(* requester: others are turned away before anything changes.              *)
(***************************************************************************)
EXTENDS Naturals, Sequences

CONSTANTS
    Tasks,      \* the tasks of this conversation
    Asks,       \* the requests a task may make: 1..n
    WorkIds     \* the works a task may have: 1..n

(* What the constants are.                                                 *)
ApprovalsAssumption == Asks \subseteq Nat \ {0} /\ WorkIds \subseteq Nat \ {0} /\ 1 \in WorkIds

VARIABLES
    queue,      \* the pending requests: [task, ask, work, old]
    live,       \* _slice_sessions: works that can go on
    record,     \* the coordinator's record of each work
    carries,    \* the approved calls a queued work will begin with
    turn,       \* the message being handled, and the request it answers
    said,       \* history: what the user said to each request
    ran,        \* history: how often the calls of a request were executed
    lives       \* history: requests of the process that runs now

approvalVars == <<queue, live, record, carries, turn, said, ran, lives>>

Works == Tasks \X WorkIds
AskedFor == Tasks \X Asks

Idle == [at |-> "idle", head |-> <<>>]
NoWork == [status |-> "none", cancel |-> FALSE]
Name(request) == <<request.task, request.ask>>

ApprovalsInit ==
    /\ queue = <<>> /\ live = {} /\ turn = Idle /\ lives = {}
    /\ record = [w \in Works |-> NoWork]
    /\ carries = [w \in Works |-> {}]
    /\ said = [r \in AskedFor |-> "nothing"]
    /\ ran = [r \in AskedFor |-> 0]

Busy(w) == record[w].status \in {"queued", "running", "asking"}
Becomes(w, status) == record' = [record EXCEPT ![w].status = status]
History == UNCHANGED <<said, ran, lives>>

-----------------------------------------------------------------------------
(* The work of a task *)

Enqueue(w, calls) ==
    /\ record' = [record EXCEPT ![w] = [status |-> "queued", cancel |-> FALSE]]
    /\ live' = live \cup {w}
    /\ carries' = [carries EXCEPT ![w] = calls]

StartWork(w) ==
    /\ record[w].status = "queued" /\ Becomes(w, "running")
    /\ UNCHANGED <<queue, live, carries, turn>> /\ History

(* execute_approved_calls: the calls themselves, before any planning.      *)
RunApproved(w) ==
    /\ record[w].status = "running" /\ ~record[w].cancel /\ carries[w] # {}
    /\ ran' = [r \in AskedFor |-> IF r \in carries[w] THEN ran[r] + 1 ELSE ran[r]]
    /\ carries' = [carries EXCEPT ![w] = {}]
    /\ UNCHANGED <<queue, live, record, turn, said, lives>>

(* The loop stops at a call that needs a word; the request is put before   *)
(* the coordinator hears of it.                                            *)
Ask(w) ==
    /\ record[w].status = "running" /\ ~record[w].cancel /\ carries[w] = {}
    /\ \E ask \in Asks :
          /\ \A k \in 1..Len(queue) : Name(queue[k]) # <<w[1], ask>>
          /\ said[<<w[1], ask>>] = "nothing" /\ <<w[1], ask>> \notin lives
          /\ queue' = Append(queue, [task |-> w[1], ask |-> ask, work |-> w, old |-> FALSE])
          /\ lives' = lives \cup {<<w[1], ask>>}
    /\ Becomes(w, "asking")
    /\ UNCHANGED <<live, carries, turn, said, ran>>

(* _finish_work: whoever waits for a word keeps his slice.                 *)
EndWork(w) ==
    /\ \/ record[w].status = "running" /\ Becomes(w, IF record[w].cancel THEN "canceled" ELSE "over")
          /\ live' = live \ {w}
       \/ record[w].status = "asking" /\ Becomes(w, IF record[w].cancel THEN "canceled" ELSE "waiting")
          /\ UNCHANGED live
    /\ carries' = [carries EXCEPT ![w] = {}]
    /\ UNCHANGED <<queue, turn>> /\ History

(* coordinator.cancel, and _cancel_queued_work for what was queued.        *)
Canceled(w) ==
    record' = [record EXCEPT ![w] =
        [status |-> IF @.status \in {"queued", "waiting"} THEN "canceled" ELSE @.status,
         cancel |-> @.cancel \/ @.status \in {"queued", "waiting", "running", "asking"}]]

-----------------------------------------------------------------------------
(* A message *)

(* Nothing is pending, or the message is passive chatter of a group, or    *)
(* Look has just removed a request that was too old: it may begin a task,  *)
(* or stop what it did begin.                                              *)
Chat ==
    /\ turn = Idle /\ turn' = [Idle EXCEPT !.at = "chat"]
    /\ UNCHANGED <<queue, live, record, carries>> /\ History

ChatEnds(t) ==
    /\ turn.at = "chat" /\ turn' = Idle
    /\ \/ \E n \in WorkIds :
             /\ \A m \in WorkIds : ~Busy(<<t, m>>)
             /\ record[<<t, n>>] = NoWork /\ \A m \in WorkIds : m < n => record[<<t, m>>] # NoWork
             /\ Enqueue(<<t, n>>, {})
       \/ \E n \in WorkIds :
             /\ Busy(<<t, n>>) /\ Canceled(<<t, n>>)
             /\ live' = IF record[<<t, n>>].status = "queued" THEN live \ {<<t, n>>} ELSE live
             /\ UNCHANGED carries
    /\ UNCHANGED queue /\ History

(* Mutant: what is removed is the newest request.                          *)
RestButNewest == SubSeq(queue, 1, Len(queue) - 1)

(* delete: the first request of the conversation.                          *)
Rest == Tail(queue)

(* _validate_pending_turn and _check_pending_task: the Agent is switched   *)
(* off, or the work was canceled, or the request is too old: it is         *)
(* removed.  Without its slice, or with its budget spent, it stays.  Else  *)
(* the model is asked what was meant.                                      *)
Look ==
    /\ turn = Idle /\ queue # <<>>
    /\ LET head == Head(queue) IN
       \/ /\ queue' = Rest /\ UNCHANGED turn          \* agent_disabled
       \/ /\ head.work \in live
          /\ IF record[head.work].cancel \/ head.old
             THEN queue' = Rest /\ UNCHANGED turn
             ELSE turn' = [at |-> "consent", head |-> head] /\ UNCHANGED queue
    /\ UNCHANGED <<live, record, carries>> /\ History

Unclear ==
    /\ turn.at = "consent" /\ turn' = Idle
    /\ UNCHANGED <<queue, live, record, carries>> /\ History

(* _deny_pending: the request goes, its slice goes, its work is canceled.  *)
Deny ==
    LET w == turn.head.work IN
    /\ turn.at = "consent" /\ turn' = Idle
    /\ said' = [said EXCEPT ![Name(turn.head)] = "no"]
    /\ queue' = Rest
    /\ live' = live \ {w} /\ Canceled(w)
    /\ UNCHANGED <<carries, ran, lives>>

(* _resume_approved: removed before anything is begun.                     *)
Approve ==
    /\ turn.at = "consent" /\ turn' = [turn EXCEPT !.at = "approved"]
    /\ said' = [said EXCEPT ![Name(turn.head)] = "yes"]
    /\ queue' = Rest
    /\ UNCHANGED <<live, record, carries, ran, lives>>

(* enqueue_agent_task: the work goes on with its slice, or, if that was    *)
(* dropped meanwhile, another one begins; refused, it is not tried again.  *)
Resume ==
    LET t == turn.head.task
        w == turn.head.work IN
    /\ turn.at = "approved" /\ turn' = Idle
    /\ \/ UNCHANGED <<live, record, carries>>   \* still active, or not admitted
       \/ /\ \A n \in WorkIds : ~Busy(<<t, n>>)
          /\ \E v \in {t} \X WorkIds :
                /\ IF w \in live THEN v = w ELSE record[v] = NoWork
                /\ Enqueue(v, {Name(turn.head)})
    /\ UNCHANGED queue /\ History

-----------------------------------------------------------------------------
(* _submit_work of any conversation drops slices nobody will go on with.   *)
PruneSlice(w) ==
    /\ w \in live /\ ~Busy(w)
    /\ \/ record[w].cancel \/ record[w].status \in {"over", "canceled"}
       \/ record[w].status = "waiting" /\ \A k \in 1..Len(queue) : queue[k].work = w => queue[k].old
    /\ live' = live \ {w}
    /\ UNCHANGED <<queue, record, carries, turn>> /\ History

(* approval_ttl_seconds.                                                   *)
Age ==
    /\ \E k \in 1..Len(queue) : queue[k].old = FALSE /\ queue' = [queue EXCEPT ![k].old = TRUE]
    /\ UNCHANGED <<live, record, carries, turn>> /\ History

(* The process dies: slices, messages and works do not come back.          *)
RestartBot ==
    /\ live' = {} /\ turn' = Idle /\ lives' = {}
    /\ carries' = [w \in Works |-> {}]
    /\ record' = [w \in Works |-> IF Busy(w) THEN [record[w] EXCEPT !.status = "over"] ELSE record[w]]
    /\ UNCHANGED <<queue, said, ran>>

ApprovalsNext ==
    \/ \E w \in Works : StartWork(w) \/ RunApproved(w) \/ Ask(w) \/ EndWork(w) \/ PruneSlice(w)
    \/ Chat \/ (\E t \in Tasks : ChatEnds(t))
    \/ Look \/ Unclear \/ Deny \/ Approve \/ Resume
    \/ Age \/ RestartBot

ApprovalsSpec == ApprovalsInit /\ [][ApprovalsNext]_approvalVars

-----------------------------------------------------------------------------
ApprovalsTypeOK ==
    /\ live \subseteq Works
    /\ \A k \in 1..Len(queue) : Name(queue[k]) \in AskedFor /\ queue[k].work \in Works
    /\ \A w \in Works : record[w].status \in {"none", "queued", "running", "asking", "waiting", "over", "canceled"}
    /\ turn.at \in {"idle", "chat", "consent", "approved"}
    /\ \A r \in AskedFor : said[r] \in {"nothing", "yes", "no"}

(* The calls of a request are executed only after a yes to that very       *)
(* request, and once; nothing that was answered is asked again; and what   *)
(* is about to be executed was asked by the process that runs now.         *)
ApprovalsAreExact ==
    /\ \A r \in AskedFor : ran[r] <= 1 /\ (ran[r] = 1 => said[r] = "yes")
    /\ \A k \in 1..Len(queue) : said[Name(queue[k])] = "nothing"
    /\ \A w \in Works : \A r \in carries[w] : said[r] = "yes" /\ ran[r] = 0 /\ r \in lives
=============================================================================
