-------------------------- MODULE SupervisorHandoff --------------------------
(***************************************************************************)
(* One character takes a task from another and hands it to an executor:    *)
(* shinku/qq/supervisor_handoff.py.                                        *)
(*                                                                         *)
(* The task it took (the outer one) is worked on in attempts, each begun   *)
(* by a person; each attempt is one call of SupervisorExecutor.run.  What  *)
(* it does is done by a task of the executor, behind calls that may be     *)
(* lost, or land after the caller has given up.  The gateway, its leases   *)
(* and its workers are those of Delegation: here a worker may end at any   *)
(* time.  An input is one request of the person.  Left out: materials,     *)
(* what the reviewer and the expression say, a downstream task that waits  *)
(* for its user.                                                           *)
(***************************************************************************)
EXTENDS Naturals, FiniteSets

CONSTANTS
    MaxAttempts,    \* bounds of the exploration: attempts of the outer task
    MaxInputs       \* ... and requests it ever has

(* What the constants are.                                                 *)
HandoffAssumption == {MaxAttempts, MaxInputs} \subseteq Nat \ {0}

VARIABLES
    outer,      \* the task that was taken: attempt, requests, status
    link,       \* supervisor_links: the downstream task and what it was told
    results,    \* supervisor_results, by attempt
    run,        \* the call of run(): where it is, the view it read, why it
                \* should stop
    down,       \* the executor's task
    note,       \* the supplement that waits for its worker: attempt, inputs
    late,       \* a call the caller gave up and that may still land
    told        \* history: submissions sent; requests of each attempt

handoffVars == <<outer, link, results, run, down, note, late, told>>

Attempts == 1..MaxAttempts
Inputs == 1..MaxInputs

NoLink == [stage |-> "none", inputs |-> 0, outer |-> 0]
NoRun == [at |-> "idle", seen |-> "none", stop |-> "no"]
NoTask == [attempt |-> 0, status |-> "none", cancel |-> FALSE, inputs |-> {}, notes |-> 0]
NoNote == [attempt |-> 0, inputs |-> {}]
NoCall == [op |-> "none", seen |-> NoTask, inputs |-> {}]
NoResult == [status |-> "none", inputs |-> {}]

HandoffInit ==
    /\ outer = [attempt |-> 1, requests |-> 1, status |-> "working"]
    /\ link = NoLink /\ results = [n \in Attempts |-> NoResult]
    /\ run = [NoRun EXCEPT !.at = "enter"]
    /\ down = NoTask /\ note = NoNote /\ late = NoCall
    /\ told = [submits |-> 0, requests |-> [n \in Attempts |-> 1]]

-----------------------------------------------------------------------------
(* The executor: what a call does to its task, when it lands *)

Active(t) == t.status \in {"queued", "running"}

(* submit is idempotent by its key.                                        *)
Submitted(t, inputs) ==
    IF t = NoTask THEN [t EXCEPT !.attempt = 1, !.status = "queued", !.inputs = inputs] ELSE t

(* cancel: queued work ends, a worker is asked to stop.                    *)
Canceled(t) ==
    IF t.status = "queued" THEN [t EXCEPT !.status = "canceled"] ELSE [t EXCEPT !.cancel = TRUE]

Supplemented(t, inputs) ==
    [t EXCEPT !.status = IF @ = "completed" THEN "partial" ELSE @,
              !.inputs = @ \cup inputs, !.notes = @ + 1]

(* drain: a supplement waits until the worker has stopped.                 *)
Drained ==
    IF note = NoNote THEN down ELSE IF Active(down) THEN Canceled(down) ELSE Supplemented(down, note.inputs)
Undrained == IF Active(down) THEN note ELSE NoNote

(* The handle must be that of the task as it is.                           *)
Lands(call) ==
    \/ /\ call.op = "submit"
       /\ down' = Submitted(down, call.inputs) /\ UNCHANGED note
    \/ /\ call.op = "revise" /\ down = call.seen /\ note = NoNote
       /\ IF Active(down)
          THEN down' = Canceled(down) /\ note' = [attempt |-> down.attempt, inputs |-> call.inputs]
          ELSE down' = Supplemented(down, call.inputs) /\ UNCHANGED note
    \/ /\ call.op = "resume" /\ note = NoNote /\ down = call.seen
       /\ ~Active(down) /\ down.status # "completed"
       /\ down' = [down EXCEPT !.attempt = @ + 1, !.status = "queued", !.cancel = FALSE]
       /\ UNCHANGED note
    \/ /\ call.op = "cancel" /\ down = call.seen /\ Active(down)
       /\ down' = Canceled(down) /\ UNCHANGED note

(* A worker of the executor takes the task, or ends it.                    *)
Work ==
    /\ \/ /\ down.status = "queued"
          /\ \E s \in {"running", "blocked"} : down' = [down EXCEPT !.status = s]
       \/ /\ down.status = "running"
          /\ \E s \in IF down.cancel THEN {"canceled"} ELSE {"completed", "partial", "blocked"} :
                down' = [down EXCEPT !.status = s]
    /\ UNCHANGED <<outer, link, results, run, note, late, told>>

LandLate ==
    /\ late # NoCall
    /\ \/ Lands(late)
       \/ UNCHANGED <<down, note>>
    /\ late' = NoCall
    /\ UNCHANGED <<outer, link, results, run, told>>

-----------------------------------------------------------------------------
(* SupervisorExecutor.run *)

At(at) == run.at = at
Goes(at) == run' = [run EXCEPT !.at = at]
Stopping == run.stop # "no"
Sees(t, at) == run' = [run EXCEPT !.seen = t, !.at = at]

Ends(status) == outer' = [outer EXCEPT !.status = status] /\ run' = NoRun

(* The exception handler asks for a stop if anything was handed over.      *)
Breaks == Goes("stopping") /\ UNCHANGED outer

Agent == <<down, note, late>>

(* current() refuses, or a look at link, materials or client raises.       *)
RefuseRun ==
    /\ At("enter")
    /\ Ends("ended")
    /\ UNCHANGED <<link, results, told>> /\ UNCHANGED Agent

(* What was handed over before is not asked about again.                   *)
EnterRun ==
    /\ At("enter") /\ ~Stopping
    /\ Goes(IF link = NoLink THEN "reviewing" ELSE IF link.outer # outer.attempt THEN "viewing" ELSE "polling")
    /\ UNCHANGED <<outer, link, results, told>> /\ UNCHANGED Agent

(* The reviewer answers, asks back, fails, or hands the task over.         *)
Review ==
    /\ At("reviewing")
    /\ \/ Ends("ended")
       \/ ~Stopping /\ Goes("placing") /\ UNCHANGED outer
    /\ UNCHANGED <<link, results, told>> /\ UNCHANGED Agent

(* Mutant: the downstream task is written down when it was accepted.       *)
PlacedLater == NoLink

(* The place is taken before the submission leaves.                        *)
Placed == [stage |-> "submitting", inputs |-> outer.requests, outer |-> outer.attempt]

Place ==
    /\ At("placing")
    /\ link' = Placed
    /\ Goes("submitting")
    /\ UNCHANGED <<outer, results, told>> /\ UNCHANGED Agent

Accepted(inputs) == [stage |-> "accepted", inputs |-> inputs, outer |-> outer.attempt]

(* A call is answered, or given up: then it may land some time, or never.  *)
Calls(call, answered) ==
    \/ ~Stopping /\ Lands(call) /\ answered /\ UNCHANGED <<late, outer>>
    \/ ~Stopping /\ late' = call /\ Breaks /\ UNCHANGED <<link, down, note>>
    \/ Breaks /\ UNCHANGED <<link, Agent>>

Submit ==
    /\ At("submitting")
    /\ Calls([NoCall EXCEPT !.op = "submit", !.inputs = 1..outer.requests],
             link' = Accepted(outer.requests) /\ Goes("polling"))
    /\ told' = [told EXCEPT !.submits = IF Stopping THEN @ ELSE @ + 1]
    /\ UNCHANGED results

(* A later attempt looks at the task it has; an unknown one is left alone. *)
View ==
    /\ At("viewing")
    /\ \/ /\ down # NoTask
          /\ down' = Drained /\ note' = Undrained
          /\ Sees(Drained, "viewed") /\ UNCHANGED outer
       \/ Breaks /\ UNCHANGED <<down, note>>
    /\ UNCHANGED <<link, results, late, told>>

(* Mutant: the supplements count as told however the call went.            *)
UntoldAnyway == {}

(* The requests the downstream task was not told.                          *)
Untold == (link.inputs + 1)..outer.requests

(* revise, which must have been applied: a supplement that waits is not    *)
(* enough.                                                                 *)
Revise ==
    /\ At("viewed") /\ Untold # {}
    /\ Calls([op |-> "revise", seen |-> run.seen, inputs |-> Untold],
             /\ IF note' = NoNote THEN Sees(down', "revised") ELSE Goes("stopping")
             /\ UNCHANGED link)
    /\ UNCHANGED <<results, told>>

(* What still works or has completed is only watched.                      *)
Watch ==
    /\ At("viewed") /\ Untold = {} /\ (run.seen.status = "completed" \/ Active(run.seen))
    /\ link' = Accepted(outer.requests)
    /\ Goes("polling")
    /\ UNCHANGED <<outer, results, told>> /\ UNCHANGED Agent

Resume ==
    /\ \/ At("revised")
       \/ At("viewed") /\ Untold = {} /\ run.seen.status # "completed" /\ ~Active(run.seen)
    /\ Calls([NoCall EXCEPT !.op = "resume", !.seen = run.seen],
             link' = Accepted(outer.requests) /\ Goes("polling"))
    /\ UNCHANGED <<results, told>>

HasResult(t) == t.status \in {"completed", "partial", "blocked", "canceled"}

(* renew and result, with the view it is compared with.                    *)
Poll ==
    /\ At("polling")
    /\ \/ ~Stopping /\ down' = Drained /\ note' = Undrained /\ UNCHANGED outer
          /\ IF HasResult(Drained) THEN Sees(Drained, "expressing") ELSE UNCHANGED run
       \/ Breaks /\ UNCHANGED <<down, note>>
    /\ UNCHANGED <<link, results, late, told>>

(* The result is worded and kept for this attempt.                         *)
Keep ==
    /\ At("expressing")
    /\ \/ /\ ~Stopping
          /\ results' = [results EXCEPT ![outer.attempt] = [status |-> run.seen.status, inputs |-> run.seen.inputs]]
          /\ Goes("kept") /\ UNCHANGED outer
       \/ Breaks /\ UNCHANGED results
    /\ UNCHANGED <<link, told>> /\ UNCHANGED Agent

Return ==
    /\ At("kept")
    /\ Ends(IF run.seen.status = "completed" THEN "completed" ELSE "ended")
    /\ UNCHANGED <<link, results, told>> /\ UNCHANGED Agent

(* status, and then cancel and revoke.                                     *)
LookToStop ==
    /\ At("stopping")
    /\ \/ /\ down # NoTask
          /\ down' = Drained /\ note' = Undrained
          /\ Sees(Drained, "canceling") /\ UNCHANGED <<outer, link>>
       \/ /\ link' = IF link = NoLink THEN link ELSE [link EXCEPT !.stage = "unconfirmed"]
          /\ Ends("ended") /\ UNCHANGED <<down, note>>
    /\ UNCHANGED <<results, late, told>>

(* Mutant: a cancellation that was accepted is taken for a stop.           *)
SaysStoppedAlways(t) == TRUE

(* The receipt says stopped when nobody works any more.                    *)
SaysStopped(t) == t.status = "canceled"

CancelDown ==
    LET call == [NoCall EXCEPT !.op = "cancel", !.seen = run.seen] IN
    /\ At("canceling")
    /\ \/ /\ Lands(call)
          /\ link' = [link EXCEPT !.stage = IF SaysStopped(down') THEN "stopped" ELSE "unconfirmed"]
          /\ UNCHANGED late
       \/ late' = call /\ link' = [link EXCEPT !.stage = "unconfirmed"] /\ UNCHANGED <<down, note>>
       \/ link' = [link EXCEPT !.stage = "unconfirmed"] /\ UNCHANGED Agent
    /\ Ends("ended")
    /\ UNCHANGED <<results, told>>

-----------------------------------------------------------------------------
(* The world *)

(* The person cancels, mutes, or changes an authority.                     *)
Interrupt ==
    /\ run.at # "idle" /\ ~Stopping
    /\ \E why \in {"canceled", "changed"} : run' = [run EXCEPT !.stop = why]
    /\ UNCHANGED <<outer, link, results, told>> /\ UNCHANGED Agent

(* ... and goes on with the task, with or without a further request.       *)
Continue ==
    /\ run.at = "idle" /\ outer.attempt < MaxAttempts
    /\ \E n \in (IF outer.status = "completed" THEN {1} ELSE {0, 1}) :
          /\ outer.requests + n <= MaxInputs
          /\ outer' = [attempt |-> outer.attempt + 1, requests |-> outer.requests + n, status |-> "working"]
          /\ told' = [told EXCEPT !.requests[outer.attempt + 1] = outer.requests + n]
    /\ run' = [NoRun EXCEPT !.at = "enter"]
    /\ UNCHANGED <<link, results>> /\ UNCHANGED Agent

(* The process dies; recover_supervisor_workers marks its task blocked.    *)
Crash ==
    /\ run.at # "idle"
    /\ outer' = [outer EXCEPT !.status = "ended"] /\ run' = [NoRun EXCEPT !.stop = "died"]
    /\ UNCHANGED <<link, results, told>> /\ UNCHANGED Agent

HandoffNext ==
    \/ RefuseRun \/ EnterRun \/ Review \/ Place \/ Submit \/ View \/ Revise \/ Watch \/ Resume
    \/ Poll \/ Keep \/ Return \/ LookToStop \/ CancelDown
    \/ Work \/ LandLate \/ Interrupt \/ Continue \/ Crash

HandoffSpec == HandoffInit /\ [][HandoffNext]_handoffVars

-----------------------------------------------------------------------------
HandoffTypeOK ==
    /\ outer.attempt \in Attempts /\ outer.requests \in Inputs
    /\ outer.status \in {"working", "ended", "completed"}
    /\ link.stage \in {"none", "submitting", "accepted", "stopped", "unconfirmed"}
    /\ run.at \in {"idle", "enter", "reviewing", "placing", "submitting", "viewing", "viewed",
                   "revised", "polling", "expressing", "kept", "stopping", "canceling"}
    /\ down.inputs \subseteq Inputs /\ note.inputs \subseteq Inputs
    /\ late.op \in {"none", "submit", "revise", "resume", "cancel"}

(* However often the person goes on and whatever was lost, the task is     *)
(* submitted once; a result that is kept for an attempt answers every      *)
(* request of that attempt; and a stop that was confirmed is one: nobody   *)
(* works on the task until the person goes on with it, whatever call is    *)
(* still on its way.                                                       *)
HandoffIsSingle ==
    /\ told.submits <= 1
    /\ \A n \in Attempts : results[n] # NoResult => 1..told.requests[n] \subseteq results[n].inputs
    /\ link.stage = "stopped" /\ link.outer = outer.attempt => ~Active(down)
=============================================================================
