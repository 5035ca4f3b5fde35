----------------------------- MODULE Delegation -----------------------------
(***************************************************************************)
(* A conversation's host asks an Agent in another process to do something. *)
(*                                                                         *)
(*   shinku/qq/delegation.py            QQDelegationHost: what a message   *)
(*                   asks for, the thread that polls, and its heartbeat    *)
(*   shinku/agent_runtime/delegation.py DelegationGateway: the lease a     *)
(*                   host's authority is good for                          *)
(*   shinku/agent_runtime/task_revision.py  supplements that wait for the  *)
(*                   worker to stop                                        *)
(*   shinku/agent_runtime/delegation_http.py  one call: it may be lost, or *)
(*                   its answer; nothing is tried again                    *)
(*                                                                         *)
(* One task of one conversation: Ask submits it, the other messages resume *)
(* it, supplement it or cancel it.  A message may be delivered again.      *)
(* What the service does with a task is modelled in AgentService; here a   *)
(* worker takes it and ends it.  A version is the state it stands for: no  *)
(* state comes back.  Time is what is left of the lease, and an authority  *)
(* is current or old: an old one never comes back.  What the host's row    *)
(* says of the task is only shown.  The host words its results with an     *)
(* expression model.                                                       *)
(***************************************************************************)
EXTENDS Naturals, FiniteSets

CONSTANTS
    Ask, Others,    \* the message that submits, and those that follow
    Lease,          \* lease_seconds
    MaxDelivery     \* bound of the deliveries of one message explored

Messages == {Ask} \cup Others

(* What the constants are.                                                 *)
DelegationAssumption ==
    /\ Ask \notin Others
    /\ Lease \in Nat \ {0} /\ MaxDelivery \in Nat

VARIABLES
    command,    \* agent_remote_commands: the messages that claimed theirs
    ref,        \* agent_remote_references: whether the task has its row
    reserved,   \* expressions reserved for publication, by attempt
    handler,    \* per message: the thread that serves it, then polls, and
                \* whether the authority it polls under is an old one
    beat,       \* per message: the heartbeat of its poll
    task,       \* the Agent's ledger: [attempt, status, cancel, inputs]
    note,       \* the attempt a pending supplement was made for, or 0
    lease,      \* leases: what is left of it, and whether its authority is old
    worker,     \* who works on the task, whether under this very lease, and
                \* history: whether its lease lapsed once
    begun,      \* history: attempts that a message began
    published   \* history: texts sent, by attempt

delegationVars == <<command, ref, reserved, handler, beat,
                    task, note, lease, worker, begun, published>>

Attempts == 1..(2 * Cardinality(Messages))
NoTask == [attempt |-> 0, status |-> "none", cancel |-> FALSE, inputs |-> 0]
NoLease == [left |-> 0, old |-> FALSE]
NoWorker == [at |-> "none", same |-> FALSE, lapsed |-> FALSE]
Served == [at |-> "new", asks |-> "none", seen |-> NoTask, old |-> FALSE, deliveries |-> 0]
NoBeat == [at |-> "off", failed |-> FALSE]

DelegationInit ==
    /\ command = {} /\ ref = FALSE /\ reserved = {}
    /\ handler = [m \in Messages |-> Served]
    /\ beat = [m \in Messages |-> NoBeat]
    /\ task = NoTask /\ note = 0 /\ lease = NoLease /\ worker = NoWorker
    /\ begun = [m \in Messages |-> 0]
    /\ published = [a \in Attempts |-> 0]

(* The task was submitted, and nobody has polled for it.                   *)
DelegationAsked ==
    /\ command = {Ask} /\ ref = TRUE /\ reserved = {}
    /\ handler = [m \in Messages |-> IF m = Ask THEN [Served EXCEPT !.at = "over"] ELSE Served]
    /\ beat = [m \in Messages |-> NoBeat]
    /\ task = [NoTask EXCEPT !.attempt = 1, !.status = "queued"]
    /\ note = 0 /\ lease = [left |-> Lease, old |-> FALSE] /\ worker = NoWorker
    /\ begun = [m \in Messages |-> IF m = Ask THEN 1 ELSE 0]
    /\ published = [a \in Attempts |-> 0]

-----------------------------------------------------------------------------
(* The gateway *)

Live == lease.left > 0

(* Mutant: a lease of the same host and authority goes on, lapsed or not.  *)
ContinuesLapsed == ~lease.old

(* The lease is the same one only while it has not lapsed and the host's   *)
(* authority has not changed; else it gets a generation of its own.        *)
Continues == Live /\ ~lease.old

Keeps(same, lapsed) ==
    worker' = IF worker = NoWorker THEN worker
              ELSE [worker EXCEPT !.same = @ /\ same, !.lapsed = @ \/ lapsed]

(* Any call that names the task refreshes its lease before it does         *)
(* anything.                                                               *)
Refresh ==
    /\ lease' = [left |-> Lease, old |-> FALSE]
    /\ Keeps(Continues, ~Live \/ lease.old)

Active == task.status \in {"queued", "running"}

(* _cancel: queued work is canceled, a worker is asked to stop.            *)
Stopped ==
    IF task.status = "queued" THEN [task EXCEPT !.status = "canceled"]
    ELSE [task EXCEPT !.cancel = TRUE]

(* _supplement: another version; what was completed is reopened.           *)
Supplemented ==
    [task EXCEPT !.status = IF @ = "completed" THEN "partial" ELSE @, !.inputs = @ + 1]

(* drain: the worker is asked to stop, and the supplement waits; or it is  *)
(* applied.                                                                *)
Drained ==
    IF note = 0 THEN task ELSE IF Active THEN Stopped ELSE Supplemented

NoteLeft == IF Active THEN note ELSE 0

(* status, handoff and resume drain before they look.                      *)
Drain == task' = Drained /\ note' = NoteLeft

(* still_authorized of the grant a worker holds.                           *)
Current == Live /\ worker.same

-----------------------------------------------------------------------------
(* A message *)

At(m, at) == handler[m].at = at
Goes(m, at) ==
    handler' = [handler EXCEPT ![m] =
        IF at = "over" THEN [Served EXCEPT !.at = at, !.deliveries = handler[m].deliveries]
        ELSE [@ EXCEPT !.at = at]]
HostRows == UNCHANGED <<command, ref, reserved, published>>
AgentRows == UNCHANGED <<task, note, lease, worker, begun>>
Otherwise == UNCHANGED <<command, ref, reserved, beat, published>>

(* Mutant: a message that was served before may be served again.           *)
ClaimableAgain(m) == TRUE

(* INSERT OR IGNORE: nothing with an effect is asked for a message twice.  *)
Claimable(m) == m \notin command

Receive(m) ==
    /\ At(m, "new")
    /\ command' = command \cup {m}
    /\ \/ ~Claimable(m) /\ Goes(m, "over")
       \/ Claimable(m) /\ m = Ask /\ Goes(m, "claimed")
       \/ Claimable(m) /\ m # Ask /\ ~ref /\ Goes(m, "over")
       \/ /\ Claimable(m) /\ m # Ask /\ ref
          /\ \E asks \in {"resume", "revise", "cancel"} :
                handler' = [handler EXCEPT ![m].at = "known", ![m].asks = asks]
    /\ UNCHANGED <<ref, reserved, beat, published>> /\ AgentRows

(* _claim: the task has a row before anything is asked of the Agent.       *)
Link(m) ==
    /\ At(m, "claimed")
    /\ ref' = TRUE
    /\ Goes(m, IF ref THEN "over" ELSE "linked")
    /\ UNCHANGED <<command, reserved, beat, published>> /\ AgentRows

(* A call, or its answer, is lost: the reply says so, and rows stay.       *)
Lost(m) ==
    /\ handler[m].at \in {"linked", "known", "viewed", "revised"}
    /\ Goes(m, "over") /\ Otherwise /\ AgentRows

(* The handle the Agent answers with, if the answer arrives.               *)
Answered(m) ==
    \/ handler' = [handler EXCEPT ![m].at = "answered", ![m].seen = task']
    \/ Goes(m, "over")

(* submit is idempotent by its key; the answer may be lost on its way.     *)
SubmitTask(m) ==
    /\ At(m, "linked")
    /\ Refresh
    /\ IF task = NoTask
       THEN /\ task' = [NoTask EXCEPT !.attempt = 1, !.status = "queued"]
            /\ begun' = [begun EXCEPT ![m] = @ + 1]
       ELSE UNCHANGED <<task, begun>>
    /\ Answered(m)
    /\ UNCHANGED note /\ Otherwise

(* status, and the context it is compared with.                            *)
View(m) ==
    /\ At(m, "known") /\ task # NoTask
    /\ Refresh /\ Drain
    /\ handler' = [handler EXCEPT ![m].at = "viewed", ![m].seen = Drained]
    /\ UNCHANGED begun /\ Otherwise

(* resume: refused over another version, or while somebody works.          *)
ResumeTask(m) ==
    /\ handler[m].at \in {"viewed", "revised"} /\ handler[m].asks \in {"resume", "revise"}
    /\ At(m, "viewed") => handler[m].asks = "resume"
    /\ Refresh
    /\ IF Drained = handler[m].seen /\ ~Active /\ task.status # "completed"
       THEN /\ task' = [Drained EXCEPT !.attempt = @ + 1, !.status = "queued", !.cancel = FALSE]
            /\ note' = NoteLeft
            /\ begun' = [begun EXCEPT ![m] = @ + 1]
            /\ Answered(m)
       ELSE Drain /\ UNCHANGED begun /\ Goes(m, "over")
    /\ Otherwise

(* Mutant: a supplement is taken for whatever attempt is current.          *)
NotedAnyway(m) == 1

(* revise: the supplement is written down for the attempt that was seen.   *)
Noted(m) == handler[m].seen.attempt

ReviseTask(m) ==
    /\ At(m, "viewed") /\ handler[m].asks = "revise"
    /\ Refresh
    /\ IF task = handler[m].seen /\ note = 0
       THEN /\ note' = IF Active THEN Noted(m) ELSE 0
            /\ task' = IF Active THEN Stopped ELSE Supplemented
            /\ IF Active THEN Goes(m, "over")
               ELSE \/ handler' = [handler EXCEPT ![m].at = "revised", ![m].seen = task']
                    \/ Goes(m, "over")
       ELSE UNCHANGED <<task, note>> /\ Goes(m, "over")
    /\ UNCHANGED begun /\ Otherwise

CancelTask(m) ==
    /\ At(m, "viewed") /\ handler[m].asks = "cancel"
    /\ Refresh
    /\ task' = IF task = handler[m].seen /\ Active THEN Stopped ELSE task
    /\ Goes(m, "over") /\ UNCHANGED <<note, begun>> /\ Otherwise

(* The row is saved and a thread begins to poll, or is not admitted.       *)
StartPoll(m) ==
    /\ At(m, "answered")
    /\ \/ /\ Goes(m, "polling")
          /\ beat' = [beat EXCEPT ![m] = [at |-> "on", failed |-> FALSE]]
       \/ Goes(m, "over") /\ UNCHANGED beat
    /\ UNCHANGED <<command, ref, reserved, published>> /\ AgentRows

-----------------------------------------------------------------------------
(* Polling *)

(* _guard: the authority the poll began under still stands.                *)
Guard(m) == ~handler[m].old

(* The heartbeat's guard passed; its call waits for the client's lock.     *)
BeatDue(m) ==
    /\ beat[m].at = "on" /\ Guard(m)
    /\ beat' = [beat EXCEPT ![m].at = "due"]
    /\ UNCHANGED handler /\ HostRows /\ AgentRows

(* renew, maybe after the poll has ended; or it does not get through.      *)
Renew(m) ==
    /\ beat[m].at = "due"
    /\ \/ /\ Refresh
          /\ beat' = [beat EXCEPT ![m].at = IF At(m, "over") THEN "off" ELSE "on"]
       \/ /\ beat' = [beat EXCEPT ![m] = [at |-> "off", failed |-> TRUE]]
          /\ UNCHANGED <<lease, worker>>
    /\ UNCHANGED <<handler, task, note, begun>> /\ HostRows

(* revoke: the lease goes, or, if another attempt runs, is only refreshed; *)
(* or the call is lost.                                                    *)
Revoke(m) ==
    \/ task.attempt = handler[m].seen.attempt /\ lease' = NoLease /\ Keeps(FALSE, TRUE)
    \/ task.attempt # handler[m].seen.attempt /\ Refresh
    \/ UNCHANGED <<lease, worker>>

BeatRevokes(m) ==
    /\ beat[m].at = "on" /\ ~Guard(m)
    /\ Revoke(m)
    /\ beat' = [beat EXCEPT ![m] = [at |-> "off", failed |-> TRUE]]
    /\ UNCHANGED <<handler, task, note, begun>> /\ HostRows

Ended(m) == beat' = [beat EXCEPT ![m].at = IF @ = "on" THEN "off" ELSE @]

(* Authority changed, the heartbeat failed, the user or the deadline       *)
(* stopped it: the host lets go of the Agent and says what it knows.       *)
StopPoll(m) ==
    /\ At(m, "polling")
    /\ Revoke(m) /\ Ended(m)
    /\ Goes(m, "over")
    /\ UNCHANGED <<command, ref, reserved, published, task, note, begun>>

Result == task.status \in {"completed", "partial", "blocked", "canceled"}

(* handoff: nothing yet, or a result.                                      *)
Handoff(m) ==
    /\ At(m, "polling") /\ Guard(m) /\ ~beat[m].failed
    /\ Refresh /\ Drain
    /\ handler' = [handler EXCEPT ![m].seen = Drained,
                                  ![m].at = IF Result THEN "publishing" ELSE @]
    /\ UNCHANGED <<command, ref, reserved, published, beat, begun>>

(* Mutant: each poll publishes what it brought.                            *)
ReservableAlways(a) == TRUE

(* reserve_publication: one expression of a result is sent once.           *)
Reservable(a) == a \notin reserved

Fresh(m) == Guard(m) /\ Drained = handler[m].seen

Reserve(m) ==
    LET a == handler[m].seen.attempt IN
    /\ At(m, "publishing")
    /\ Refresh /\ Drain
    /\ IF Fresh(m) /\ Reservable(a)
       THEN Goes(m, "sending") /\ reserved' = reserved \cup {a} /\ UNCHANGED beat
       ELSE /\ Goes(m, "over") /\ Ended(m) /\ UNCHANGED reserved
    /\ UNCHANGED <<command, ref, published, begun>>

(* _deliver, under the guard once more.                                    *)
Send(m) ==
    LET a == handler[m].seen.attempt IN
    /\ At(m, "sending")
    /\ Refresh /\ Drain
    /\ \/ Fresh(m) /\ published' = [published EXCEPT ![a] = @ + 1]
       \/ UNCHANGED published
    /\ Goes(m, "over") /\ Ended(m)
    /\ UNCHANGED <<command, ref, reserved, begun>>

-----------------------------------------------------------------------------
(* The Agent's worker *)

Ends(status) ==
    /\ task' = [task EXCEPT !.status = status]
    /\ worker' = NoWorker
    /\ UNCHANGED <<handler, beat, note, lease, begun>> /\ HostRows

(* A worker takes the task under a live lease, or finds no authority.      *)
TakeTask ==
    /\ task.status = "queued" /\ worker = NoWorker /\ Live
    /\ task' = [task EXCEPT !.status = "running"]
    /\ worker' = [at |-> "working", same |-> TRUE, lapsed |-> FALSE]
    /\ UNCHANGED <<handler, beat, note, lease, begun>> /\ HostRows

TakeDenied == task.status = "queued" /\ worker = NoWorker /\ ~Live /\ Ends("blocked")

(* A look at the grant before a tool call, and at the cancellation.        *)
EndTask ==
    /\ worker.at = "working"
    /\ \/ task.cancel /\ Ends("canceled")
       \/ ~task.cancel /\ ~Current /\ Ends("blocked")
       \/ ~task.cancel /\ Current /\ \E s \in {"completed", "partial"} : Ends(s)

-----------------------------------------------------------------------------
(* The world *)

Elapse ==
    /\ Live
    /\ lease' = IF lease.left = 1 THEN NoLease ELSE [lease EXCEPT !.left = @ - 1]
    /\ Keeps(TRUE, lease.left = 1)
    /\ UNCHANGED <<handler, beat, task, note, begun>> /\ HostRows

(* commands.authority_revision() goes up: what was polled or leased under  *)
(* it before is of old authority.                                          *)
ChangeAuthority ==
    /\ handler' = [m \in Messages |-> [handler[m] EXCEPT !.old = handler[m].at \in {"polling", "publishing", "sending"}]]
    /\ lease' = [lease EXCEPT !.old = Live]
    /\ UNCHANGED <<beat, task, note, worker, begun>> /\ HostRows

(* The platform delivers a message once more.                              *)
DeliverAgain(m) ==
    /\ At(m, "over") /\ handler[m].deliveries < MaxDelivery
    /\ handler' = [handler EXCEPT ![m] = [Served EXCEPT !.deliveries = handler[m].deliveries + 1]]
    /\ UNCHANGED beat /\ HostRows /\ AgentRows

(* The host's process dies; its rows and the Agent remain.                 *)
CrashHost ==
    /\ handler' = [m \in Messages |->
          IF At(m, "new") THEN handler[m]
          ELSE [Served EXCEPT !.at = "over", !.deliveries = handler[m].deliveries]]
    /\ beat' = [m \in Messages |-> NoBeat]
    /\ HostRows /\ AgentRows

HandlerStep(m) ==
    \/ Receive(m) \/ Link(m) \/ Lost(m) \/ SubmitTask(m) \/ View(m) \/ ResumeTask(m) \/ ReviseTask(m)
    \/ CancelTask(m) \/ StartPoll(m) \/ BeatDue(m) \/ Renew(m) \/ BeatRevokes(m)
    \/ StopPoll(m) \/ Handoff(m) \/ Reserve(m) \/ Send(m) \/ DeliverAgain(m)

DelegationNext ==
    \/ \E m \in Messages : HandlerStep(m)
    \/ TakeTask \/ TakeDenied \/ EndTask
    \/ Elapse \/ ChangeAuthority \/ CrashHost

DelegationSpec == DelegationInit /\ [][DelegationNext]_delegationVars

-----------------------------------------------------------------------------
Statuses == {"none", "queued", "running", "completed", "partial", "blocked", "canceled"}

DelegationTypeOK ==
    /\ command \subseteq Messages /\ reserved \subseteq Attempts
    /\ ref \in BOOLEAN
    /\ \A m \in Messages :
          /\ handler[m].at \in {"new", "claimed", "linked", "known", "viewed", "revised", "answered",
                                "polling", "publishing", "sending", "over"}
          /\ beat[m].at \in {"off", "on", "due"}
    /\ task.attempt \in Nat /\ task.status \in Statuses
    /\ note \in Nat /\ lease.left \in 0..Lease /\ worker.at \in {"none", "working"}

(* Replays, lost answers, crashes and two polls of one task: a message     *)
(* begins one attempt at most, and none of which the host has no row; a    *)
(* result is sent once; a worker whose lease lapsed once, was revoked or   *)
(* changed its authority does not find itself authorized again, whoever    *)
(* renews it; and a supplement that waits still finds the attempt it was   *)
(* made for, so that it can be applied.                                    *)
DelegationIsSingle ==
    /\ \A m \in Messages : begun[m] <= 1
    /\ task # NoTask => ref /\ Ask \in command
    /\ \A a \in Attempts : published[a] <= 1
    /\ worker # NoWorker /\ Current => ~worker.lapsed
    /\ note # 0 => note = task.attempt
=============================================================================
