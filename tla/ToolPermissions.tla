--------------------------- MODULE ToolPermissions ---------------------------
(***************************************************************************)
(* The permission level of the workbench, and the calls that wait for a    *)
(* word: shinku/angelos/permissions.py.                                    *)
(*                                                                         *)
(* Each task runs its calls one after another; the user may change the     *)
(* level, approve, deny, cancel, or do nothing, at any moment.  A call     *)
(* stands for its arguments.  Left out: what a read-only grant hides from  *)
(* the planner, and the file a level is written to, which is replaced in   *)
(* one step.                                                               *)
(***************************************************************************)
EXTENDS Naturals, Sequences

CONSTANTS
    Tasks,
    Delegated,      \* those of another host, whose approvals are kept
    Reads,          \* calls that only observe
    Effects,        \* the others
    MaxRevisions,   \* bounds of the exploration: changes of the level
    MaxRuns         \* ... and calls executed

Calls == Reads \cup Effects

(* What the constants are.                                                 *)
PermissionsAssumption ==
    Delegated \subseteq Tasks /\ Reads \cap Effects = {} /\ {MaxRevisions, MaxRuns} \subseteq Nat \ {0}

Levels == {"zayin", "he", "waw", "aleph"}

VARIABLES
    levels,     \* the level of every revision so far; the last one holds
    grant,      \* the revision a task was authorized under, or 0
    check,      \* where each task's call is
    pending,    \* its request, as the user sees it
    rejected,   \* _angelos_denied_calls of each run
    cancel,     \* agent_task_interrupt
    ran         \* history: the calls executed, each with the user's word

permissionVars == <<levels, grant, check, pending, rejected, cancel, ran>>

revision == Len(levels)
level == levels[revision]
NoCheck == [at |-> "idle", call |-> "none", word |-> "none"]
NoRequest == [revision |-> 0, decision |-> "none"]

PermissionsInit ==
    /\ levels \in {<<l>> : l \in Levels}
    /\ grant = [t \in Tasks |-> 0] /\ check = [t \in Tasks |-> NoCheck]
    /\ pending = [t \in Tasks |-> NoRequest] /\ rejected = [t \in Tasks |-> {}]
    /\ cancel = [t \in Tasks |-> FALSE] /\ ran = <<>>

Step(t, place) == check' = [check EXCEPT ![t].at = place]
Refuse(t) == check' = [check EXCEPT ![t] = NoCheck]

-----------------------------------------------------------------------------
(* The user *)

(* select: every request that waits is revoked, decided or not.            *)
Select(l) ==
    /\ l # level /\ Len(levels) < MaxRevisions
    /\ levels' = Append(levels, l)
    /\ pending' = [t \in Tasks |-> IF pending[t].revision = 0 THEN NoRequest
                                   ELSE [pending[t] EXCEPT !.decision = "revoked"]]
    /\ UNCHANGED <<grant, check, rejected, cancel, ran>>

(* decide: once, and under the revision the request was made under.        *)
Decide(t, decision) ==
    /\ pending[t].revision = revision /\ pending[t].decision = "none"
    /\ pending' = [pending EXCEPT ![t].decision = decision]
    /\ check' = [check EXCEPT ![t].word = decision]
    /\ UNCHANGED <<levels, grant, rejected, cancel, ran>>

CancelRun(t) ==
    /\ grant[t] # 0 /\ ~cancel[t] /\ cancel' = [cancel EXCEPT ![t] = TRUE]
    /\ UNCHANGED <<levels, grant, check, pending, rejected, ran>>

-----------------------------------------------------------------------------
(* A task *)

(* restrict: a run, with a context of its own.                             *)
Authorize(t) ==
    /\ check[t].at = "idle" /\ (grant[t] # revision \/ cancel[t])
    /\ grant' = [grant EXCEPT ![t] = revision]
    /\ rejected' = [rejected EXCEPT ![t] = {}] /\ cancel' = [cancel EXCEPT ![t] = FALSE]
    /\ UNCHANGED <<levels, check, pending, ran>>

(* Mutant: the level counts, whichever revision the grant is of.           *)
AnyRevision(t) == grant[t] # 0

Current(t) == grant[t] = revision

Forbidden(c) == level = "zayin" \/ (level = "he" /\ c \in Effects)
Unasked(t, c) == t \notin Delegated /\ (level # "waw" \/ c \in Reads)

(* check, under the first lock.                                            *)
Enter(t, c) ==
    /\ check[t].at = "idle" /\ grant[t] # 0 /\ Len(ran) < MaxRuns
    /\ Current(t) /\ ~Forbidden(c)
    /\ \/ Unasked(t, c) /\ check' = [check EXCEPT ![t] = [NoCheck EXCEPT !.at = "cleared", !.call = c]]
       \/ /\ ~Unasked(t, c) /\ c \notin rejected[t]
          /\ check' = [check EXCEPT ![t] = [NoCheck EXCEPT !.at = "asking", !.call = c]]
    /\ UNCHANGED <<levels, grant, pending, rejected, cancel, ran>>

(* ... and the second: the request is put up.                              *)
Ask(t) ==
    /\ check[t].at = "asking"
    /\ IF grant[t] # revision THEN Refuse(t) /\ UNCHANGED pending
       ELSE /\ Step(t, "waiting")
            /\ pending' = [pending EXCEPT ![t] = [revision |-> revision, decision |-> "none"]]
    /\ UNCHANGED <<levels, grant, rejected, cancel, ran>>

(* interrupted.                                                            *)
Interrupted(t) == grant[t] # revision \/ cancel[t]

(* A wait ended without a word, which may come all the same before the     *)
(* request is taken down: the run was interrupted, or it took too long.    *)
GiveUp(t) ==
    /\ check[t].at = "waiting" /\ Step(t, "refused")
    /\ UNCHANGED <<levels, grant, pending, rejected, cancel, ran>>

(* The event is set; the last look at the run.                             *)
Wake(t) ==
    /\ check[t].at = "waiting" /\ pending[t].decision # "none"
    /\ Step(t, IF Interrupted(t) THEN "refused" ELSE "reading")
    /\ UNCHANGED <<levels, grant, pending, rejected, cancel, ran>>

ReadDecision(t) ==
    LET approved == pending[t].decision = "approve" IN
    /\ check[t].at = "reading"
    /\ rejected' = [rejected EXCEPT ![t] = IF approved THEN @ ELSE @ \cup {check[t].call}]
    /\ Step(t, IF approved THEN "approved" ELSE "refused")
    /\ UNCHANGED <<levels, grant, pending, cancel, ran>>

(* finally: the request is taken down, and the call goes on or not.        *)
TakeDown(t) ==
    /\ check[t].at \in {"refused", "approved"}
    /\ pending' = [pending EXCEPT ![t] = NoRequest]
    /\ IF check[t].at = "approved" THEN Step(t, "cleared") ELSE Refuse(t)
    /\ UNCHANGED <<levels, grant, rejected, cancel, ran>>

(* ControlledTool.execute.                                                 *)
Run(t) ==
    /\ check[t].at = "cleared" /\ Refuse(t)
    /\ ran' = Append(ran, [task |-> t, call |-> check[t].call, under |-> grant[t], word |-> check[t].word])
    /\ UNCHANGED <<levels, grant, pending, rejected, cancel>>

(* The process starts again: the level was kept, its revision was not.     *)
RestartHost ==
    /\ Len(levels) < MaxRevisions /\ levels' = Append(levels, level)
    /\ grant' = [t \in Tasks |-> 0] /\ check' = [t \in Tasks |-> NoCheck]
    /\ pending' = [t \in Tasks |-> NoRequest] /\ rejected' = [t \in Tasks |-> {}]
    /\ cancel' = [t \in Tasks |-> FALSE]
    /\ UNCHANGED ran

PermissionsNext ==
    \/ \E l \in Levels : Select(l)
    \/ RestartHost
    \/ \E t \in Tasks :
          \/ \E d \in {"approve", "deny"} : Decide(t, d)
          \/ \E c \in Calls : Enter(t, c)
          \/ CancelRun(t) \/ Authorize(t) \/ Ask(t) \/ GiveUp(t) \/ Wake(t)
          \/ ReadDecision(t) \/ TakeDown(t) \/ Run(t)

PermissionsSpec == PermissionsInit /\ [][PermissionsNext]_permissionVars

-----------------------------------------------------------------------------
PermissionsTypeOK ==
    /\ levels \in Seq(Levels) /\ grant \in [Tasks -> 0..Len(levels)]
    /\ \A t \in Tasks :
          /\ check[t].at \in {"idle", "asking", "waiting", "reading", "approved", "refused", "cleared"}
          /\ pending[t].decision \in {"none", "approve", "deny", "revoked"}
          /\ rejected[t] \subseteq Calls
    /\ cancel \in [Tasks -> BOOLEAN]

(* What was executed was allowed by the level its task was authorized      *)
(* under, not by an earlier or a later one; and where that level, or the   *)
(* host the task came from, asks for a word, the user approved this very   *)
(* request and did not deny it.                                            *)
RunsAreAllowed ==
    \A k \in 1..Len(ran) :
        LET e == ran[k]
            under == levels[e.under] IN
        /\ under = "aleph" \/ under = "waw" \/ (under = "he" /\ e.call \in Reads)
        /\ e.task \in Delegated \/ (under = "waw" /\ e.call \in Effects) => e.word = "approve"
=============================================================================
