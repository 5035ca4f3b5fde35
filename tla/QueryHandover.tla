----------------------------- MODULE QueryHandover -----------------------------
(***************************************************************************)
(* A question that took too long is handed to one background worker:       *)
(* shinku/qq/query_continuation.py and agent_runtime/query_handoff.py, on  *)
(* the coordinator and the dispatcher of background work.                  *)
(*                                                                         *)
(* The turn of a message reads sources.  When its share is used up it may  *)
(* be promoted: under a lock, and once the model and the contract agree,   *)
(* its reads and what is left of its budget go to a work whose key is made *)
(* from the message.  Meanwhile the user stops, changes what is allowed or *)
(* cancels; a submission raises although it was kept, on disk or not; the  *)
(* message is delivered again; the process dies, and with it the live      *)
(* checkpoint without which the work may not run.                          *)
(* Left out: what a review must quote, which reads are legal next, tokens  *)
(* and seconds of the budget, approvals, the pruning of old records.       *)
(***************************************************************************)
EXTENDS Naturals, FiniteSets

CONSTANTS
    Turns,          \* deliveries of one message
    MaxFront,       \* reads until a turn may be promoted
    MaxReads,       \* reads of the whole budget
    MaxRechecks,    \* reviews of a turn
    MaxRevision     \* bound of the exploration: changes of authority

(* What the constants are.                                                 *)
HandoverAssumption == {MaxFront, MaxReads, MaxRechecks, MaxRevision} \subseteq Nat \ {0}

VARIABLES
    turn,       \* each turn: its step, authority, reads and reviews
    lock,       \* who holds _query_handoff_lock
    record,     \* the coordinator's: status, the state of the notice, and
                \* whether it is on disk
    checkpoint, \* the live one: whose turn, its authority and reads
    worker,     \* the background worker
    revision,   \* of the authority
    late,       \* the turns whose deadline has passed
    told,       \* history: notices shown
    runs,       \* history: the turns whose work began to run
    stale       \* history: background reads under a changed authority

handoverVars == <<turn, lock, record, checkpoint, worker, revision, late, told, runs, stale>>

Nobody == "nobody"
Fresh == [at |-> "none", revision |-> 0, reads |-> 0, rechecks |-> 0]
NoRecord == [status |-> "none", notice |-> "none", saved |-> FALSE]
NoCheckpoint == [of |-> Nobody, revision |-> 0, reads |-> 0]

HandoverInit ==
    /\ turn = [t \in Turns |-> Fresh]
    /\ lock = Nobody /\ record = NoRecord
    /\ checkpoint = NoCheckpoint /\ worker = "none"
    /\ revision = 1 /\ late = {}
    /\ told = 0 /\ runs = {} /\ stale = 0

-----------------------------------------------------------------------------
At(t, step) == turn' = [turn EXCEPT ![t].at = step]
Exists == record.status # "none"
Authorized(t) == turn[t].revision = revision
Remaining(t) == turn[t].reads < MaxReads

(* A message arrives; one whose key is known is only reported.             *)
Arrive(t) ==
    /\ turn[t].at = "none"
    /\ turn' = [turn EXCEPT ![t] = [Fresh EXCEPT !.at = IF Exists THEN "linked" ELSE "reading",
                                                 !.revision = revision]]
    /\ UNCHANGED <<lock, record, checkpoint, worker, revision, late, told, runs, stale>>

Read(t) ==
    /\ turn[t].at = "reading" /\ turn[t].reads < MaxFront
    /\ Authorized(t)
    /\ turn' = [turn EXCEPT ![t].reads = @ + 1]
    /\ UNCHANGED <<lock, record, checkpoint, worker, revision, late, told, runs, stale>>

(* The answer of the foreground, whatever it has.                          *)
Answer(t) ==
    /\ turn[t].at = "reading"
    /\ At(t, "answered")
    /\ UNCHANGED <<lock, record, checkpoint, worker, revision, late, told, runs, stale>>

(* try_continue_query up to the review                                     *)
Promotable(t) == turn[t].reads >= MaxFront /\ Authorized(t) /\ Remaining(t) /\ t \notin late

TryContinue(t) ==
    /\ turn[t].at = "reading" /\ Promotable(t)
    /\ lock = Nobody
    /\ IF Exists THEN At(t, "linked") /\ UNCHANGED lock
       ELSE /\ turn[t].rechecks < MaxRechecks
            /\ turn' = [turn EXCEPT ![t].at = "reviewing", ![t].rechecks = @ + 1]
            /\ lock' = t
    /\ UNCHANGED <<record, checkpoint, worker, revision, late, told, runs, stale>>

(* The model has reviewed the progress, or prepared the contract; it may   *)
(* refuse, and the authority, the budget and the deadline are looked at    *)
(* again after each.                                                       *)
Continues(t) == Authorized(t) /\ Remaining(t) /\ t \notin late

Judge(t) ==
    /\ turn[t].at \in {"reviewing", "preparing"}
    /\ \/ /\ Continues(t)
          /\ At(t, IF turn[t].at = "reviewing" THEN "preparing" ELSE "submitting")
          /\ UNCHANGED lock
       \/ At(t, "reading") /\ lock' = Nobody
    /\ UNCHANGED <<record, checkpoint, worker, revision, late, told, runs, stale>>

(* _submit_work: a key that exists is refused.  A save that fails leaves   *)
(* the record in memory: it is looked up and found, or the look-up fails   *)
(* too.                                                                    *)
Kept(t, saved) ==
    /\ record' = [NoRecord EXCEPT !.status = "queued", !.saved = saved]
    /\ checkpoint' = [of |-> t, revision |-> turn[t].revision, reads |-> turn[t].reads]

Submit(t) ==
    /\ turn[t].at = "submitting"
    /\ \/ /\ ~Exists /\ \E saved \in BOOLEAN : Kept(t, saved)
          /\ \/ At(t, "confirming") /\ UNCHANGED lock
             \/ At(t, "unknown") /\ lock' = Nobody
       \/ At(t, "rejected") /\ lock' = Nobody /\ UNCHANGED <<record, checkpoint>>
    /\ UNCHANGED <<worker, revision, late, told, runs, stale>>

(* The record is read again, and its one notice claimed before it is sent; *)
(* a claim that is not saved sends nothing.                                *)
Claimable == record.status = "queued" /\ record.notice = "none"

Confirm(t) ==
    /\ turn[t].at = "confirming"
    /\ IF record.status # "queued" THEN At(t, "unknown") /\ lock' = Nobody /\ UNCHANGED record
       ELSE At(t, "claiming") /\ UNCHANGED <<lock, record>>
    /\ UNCHANGED <<checkpoint, worker, revision, late, told, runs, stale>>

Claim(t) ==
    /\ turn[t].at = "claiming"
    /\ \/ /\ Claimable /\ record' = [record EXCEPT !.notice = "claimed", !.saved = TRUE]
          /\ At(t, "noticing") /\ UNCHANGED lock
       \/ /\ record' = IF Claimable THEN [record EXCEPT !.notice = "claimed"] ELSE record
          /\ At(t, "handed") /\ lock' = Nobody
    /\ UNCHANGED <<checkpoint, worker, revision, late, told, runs, stale>>

Notify(t) ==
    /\ turn[t].at = "noticing"
    /\ At(t, "recording")
    /\ \E shown \in {0, 1} : told' = told + shown
    /\ UNCHANGED <<lock, record, checkpoint, worker, revision, late, runs, stale>>

RecordNotice(t) ==
    /\ turn[t].at = "recording"
    /\ record' = IF record.notice = "claimed" THEN [record EXCEPT !.notice = "recorded", !.saved = TRUE] ELSE record
    /\ At(t, "handed") /\ lock' = Nobody
    /\ UNCHANGED <<checkpoint, worker, revision, late, told, runs, stale>>

-----------------------------------------------------------------------------
(* The turn dispatches the work as it ends, if it knows that it is queued; *)
(* what it does not know of stays there.                                   *)
StartWorker ==
    /\ record.status = "queued" /\ checkpoint.of # Nobody /\ worker = "none"
    /\ turn[checkpoint.of].at = "handed"
    /\ record' = [record EXCEPT !.status = "running", !.saved = TRUE]
    /\ worker' = "validating"
    /\ UNCHANGED <<turn, lock, checkpoint, revision, late, told, runs, stale>>

(* The task is continued in another work, which has no live checkpoint.    *)
ContinueTask ==
    /\ record.status \in {"ended", "interrupted"} /\ worker = "none"
    /\ worker' = "validating"
    /\ UNCHANGED <<turn, lock, record, checkpoint, revision, late, told, runs, stale>>

(* Mutant: the reads of the foreground are not counted.                    *)
UnspentAfresh == TRUE

(* validate, and what the loop asks before each tool                       *)
Unchanged == checkpoint.revision = revision /\ checkpoint.of \notin late
Unspent == checkpoint.reads < MaxReads

EndWork ==
    /\ record' = IF record.status = "running" THEN [record EXCEPT !.status = "ended"] ELSE record
    /\ worker' = "none" /\ checkpoint' = NoCheckpoint

Validate ==
    /\ worker = "validating"
    /\ IF checkpoint.of # Nobody /\ Unchanged
       THEN /\ worker' = "running" /\ runs' = runs \cup {checkpoint.of}
            /\ UNCHANGED <<record, checkpoint>>
       ELSE EndWork /\ UNCHANGED runs
    /\ UNCHANGED <<turn, lock, revision, late, told, stale>>

CheckTool ==
    /\ worker = "running"
    /\ IF checkpoint.revision = revision /\ Unspent
       THEN worker' = "cleared" /\ UNCHANGED <<record, checkpoint>>
       ELSE EndWork
    /\ UNCHANGED <<turn, lock, revision, late, told, runs, stale>>

ReadBehind ==
    /\ worker = "cleared"
    /\ worker' = "running"
    /\ checkpoint' = [checkpoint EXCEPT !.reads = @ + 1]
    /\ stale' = IF checkpoint.revision = revision THEN stale ELSE stale + 1
    /\ UNCHANGED <<turn, lock, record, revision, late, told, runs>>

Finish ==
    /\ worker = "running" /\ EndWork
    /\ UNCHANGED <<turn, lock, revision, late, told, runs, stale>>

CancelQueued ==
    /\ record.status = "queued"
    /\ record' = [record EXCEPT !.status = "ended", !.saved = TRUE]
    /\ checkpoint' = NoCheckpoint
    /\ UNCHANGED <<turn, lock, worker, revision, late, told, runs, stale>>

-----------------------------------------------------------------------------
ChangeAuthority ==
    /\ revision < MaxRevision /\ revision' = revision + 1
    /\ UNCHANGED <<turn, lock, record, checkpoint, worker, late, told, runs, stale>>

DeadlinePasses(t) ==
    /\ turn[t].at \notin {"none", "gone"} /\ t \notin late
    /\ late' = late \cup {t}
    /\ UNCHANGED <<turn, lock, record, checkpoint, worker, revision, told, runs, stale>>

(* What was queued or ran is interrupted, what is not on disk is gone; the *)
(* message may come again.                                                 *)
Restart ==
    /\ \E t \in Turns : turn[t].at \notin {"none", "gone"}
    /\ record' = IF ~record.saved THEN NoRecord
                 ELSE IF record.status \in {"queued", "running"} THEN [record EXCEPT !.status = "interrupted"]
                 ELSE record
    /\ turn' = [t \in Turns |-> IF turn[t].at = "none" THEN Fresh ELSE [turn[t] EXCEPT !.at = "gone"]]
    /\ lock' = Nobody /\ checkpoint' = NoCheckpoint /\ worker' = "none"
    /\ UNCHANGED <<revision, late, told, runs, stale>>

HandoverNext ==
    \/ \E t \in Turns :
          \/ Arrive(t) \/ Read(t) \/ Answer(t) \/ TryContinue(t) \/ Judge(t) \/ Submit(t)
          \/ Confirm(t) \/ Claim(t) \/ Notify(t) \/ RecordNotice(t) \/ DeadlinePasses(t)
    \/ StartWorker \/ ContinueTask \/ Validate \/ CheckTool \/ ReadBehind \/ Finish \/ CancelQueued
    \/ ChangeAuthority \/ Restart

HandoverSpec == HandoverInit /\ [][HandoverNext]_handoverVars

-----------------------------------------------------------------------------
HandoverTypeOK ==
    /\ lock \in Turns \cup {Nobody} /\ checkpoint.of \in Turns \cup {Nobody}
    /\ record.status \in {"none", "queued", "running", "ended", "interrupted"}
    /\ record.notice \in {"none", "claimed", "recorded"}
    /\ worker \in {"none", "validating", "running", "cleared"}
    /\ revision \in 1..MaxRevision

(* A message is handed over once, announced once and run once, however     *)
(* often it is delivered, whatever a submission hides and whoever dies;    *)
(* and what runs is the work of a turn that knows of it, and told the user *)
(* nothing else.                                                           *)
HandoverIsSingle ==
    /\ told <= 1
    /\ Cardinality(runs) <= 1
    /\ \A t \in runs : turn[t].at \in {"handed", "gone"}

(* The foreground and the background spend one budget, and a change of     *)
(* authority lets one read through at most, which had begun.               *)
HandoverIsBounded ==
    /\ checkpoint.reads <= MaxReads
    /\ stale <= 1
=============================================================================
