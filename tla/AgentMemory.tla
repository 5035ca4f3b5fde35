----------------------------- MODULE AgentMemory -----------------------------
(***************************************************************************)
(* The memory agents keep of earlier tasks: shinku/agent_memory, with the  *)
(* workbench that fills it and deletes its conversations                   *)
(* (angelos/workbench.py).                                                 *)
(*                                                                         *)
(* One task of one conversation.  Its experience is captured when it has a *)
(* result, once per result; a statement of its user is remembered when an  *)
(* agent is asked to; either can be forgotten, and then both are, with     *)
(* whatever still comes of the task.  A recall finds rows, looks each one  *)
(* up at its source, and hands on those that are as they were.  Left out:  *)
(* texts, the search, workspaces and rights (ToolPermissions).             *)
(***************************************************************************)
EXTENDS Naturals

CONSTANT MaxVersion     \* how many results the task may have

VARIABLES
    task,       \* whether it is active, and the version of its result
    turn,       \* the conversation: whether it exists, the result it shows,
                \* the version it has had captured
    rows,       \* what is remembered: the experience's version, a statement
    tombstone,  \* the source was forgotten
    bench,      \* who has the lock of the workbench, and what was read
    recall      \* where a recall is, whether the source had been forgotten
                \* when it began, what it found, what it handed on

agentMemoryVars == <<task, turn, rows, tombstone, bench, recall>>

None == 0
Kinds == {"experience", "statement"}
NoRow == [version |-> None, deleted |-> FALSE]
AgentMemoryAssumption == MaxVersion \in Nat \ {0}

Idle == [at |-> "idle", late |-> FALSE, found |-> {}, handed |-> {}]

AgentMemoryInit ==
    /\ task = [active |-> TRUE, version |-> None]
    /\ turn = [exists |-> TRUE, result |-> None, indexed |-> None]
    /\ rows = [k \in Kinds |-> NoRow]
    /\ tombstone = FALSE
    /\ bench = [at |-> "free", version |-> None]
    /\ recall = Idle

Live(k) == rows[k].version # None /\ ~rows[k].deleted

-----------------------------------------------------------------------------
(* The task, of another service *)

Finish ==
    /\ task.active /\ task.version < MaxVersion
    /\ task' = [active |-> FALSE, version |-> task.version + 1]
    /\ UNCHANGED <<turn, rows, tombstone, bench, recall>>

Continue ==
    /\ ~task.active /\ turn.exists /\ bench.at = "free"
    /\ task' = [task EXCEPT !.active = TRUE]
    /\ UNCHANGED <<turn, rows, tombstone, bench, recall>>

-----------------------------------------------------------------------------
(* AgentMemoryStore, one transaction each *)

(* Mutant: only the row itself can be forgotten.                           *)
RowForgotten(k) == rows[k].deleted

(* A row of a forgotten source, or a forgotten row, is not written again.  *)
Forgotten(k) == tombstone \/ rows[k].deleted

Put(k, version) ==
    rows' = IF Forgotten(k) THEN rows ELSE [rows EXCEPT ![k].version = version]

(* Every row of the source is withdrawn, and its later ones are barred.    *)
Withdraw ==
    /\ rows' = [k \in Kinds |-> IF rows[k].version = None THEN rows[k] ELSE [rows[k] EXCEPT !.deleted = TRUE]]
    /\ tombstone' = (tombstone \/ \E k \in Kinds : Live(k))

-----------------------------------------------------------------------------
(* Workbench.refresh, holding its lock *)

(* The conversation takes over the result; one that has not been captured  *)
(* is, if it is still the result of the task.                              *)
Refresh ==
    /\ bench.at = "free" /\ turn.exists
    /\ turn' = IF task.active THEN turn ELSE [turn EXCEPT !.result = task.version]
    /\ bench' = IF turn'.result \notin {None, turn.indexed} THEN [at |-> "capture", version |-> None] ELSE bench
    /\ UNCHANGED <<task, rows, tombstone, recall>>

ReadSource ==
    /\ bench.at = "capture"
    /\ bench' = IF ~task.active /\ task.version = turn.result
                THEN [at |-> "write", version |-> task.version] ELSE [at |-> "free", version |-> None]
    /\ UNCHANGED <<task, turn, rows, tombstone, recall>>

WriteExperience ==
    /\ bench.at = "write"
    /\ \/ Put("experience", bench.version) /\ turn' = [turn EXCEPT !.indexed = turn.result]
       \/ UNCHANGED <<rows, turn>>
    /\ bench' = [at |-> "free", version |-> None]
    /\ UNCHANGED <<task, tombstone, recall>>

(* remove_conversation, of a task that is seen to be over: its memory      *)
(* first.                                                                  *)
Remove ==
    /\ bench.at = "free" /\ turn.exists /\ ~task.active /\ turn.result = task.version
    /\ Withdraw
    /\ bench' = [at |-> "removing", version |-> None]
    /\ UNCHANGED <<task, turn, recall>>

Removed ==
    /\ bench.at = "removing"
    /\ \E done \in BOOLEAN : turn' = [turn EXCEPT !.exists = ~done]
    /\ bench' = [at |-> "free", version |-> None]
    /\ UNCHANGED <<task, rows, tombstone, recall>>

-----------------------------------------------------------------------------
(* The tools of an agent, which is at work on the task or on another *)

(* manage: the words of the task's user, as he said them.                  *)
Remember ==
    /\ task.active /\ turn.exists
    /\ Put("statement", 1)
    /\ UNCHANGED <<task, turn, tombstone, bench, recall>>

(* ... or one row, with all of its source, if it can be found.             *)
Forget ==
    /\ \E k \in Kinds : rows[k].version # None
    /\ Withdraw
    /\ UNCHANGED <<task, turn, bench, recall>>

Search ==
    /\ recall.at = "idle"
    /\ recall' = [Idle EXCEPT !.at = "found", !.late = tombstone,
                          !.found = {<<k, rows[k].version>> : k \in {x \in Kinds : Live(x)}}]
    /\ UNCHANGED <<task, turn, rows, tombstone, bench>>

(* _resolve: a row whose source is gone or has changed is a gap.           *)
AsItWas(row) ==
    /\ turn.exists
    /\ row[1] = "experience" => ~task.active /\ task.version = row[2]

Resolve ==
    /\ recall.at = "found"
    /\ recall' = [recall EXCEPT !.at = "done", !.handed = {row \in recall.found : AsItWas(row)}]
    /\ UNCHANGED <<task, turn, rows, tombstone, bench>>

(* The next recall.                                                        *)
Again ==
    /\ recall.at = "done"
    /\ recall' = Idle
    /\ UNCHANGED <<task, turn, rows, tombstone, bench>>

AgentMemoryNext ==
    \/ Finish \/ Continue \/ Refresh \/ ReadSource \/ WriteExperience \/ Remove \/ Removed
    \/ Remember \/ Forget \/ Search \/ Resolve \/ Again

AgentMemorySpec == AgentMemoryInit /\ [][AgentMemoryNext]_agentMemoryVars

-----------------------------------------------------------------------------
AgentMemoryTypeOK ==
    /\ task \in [active : BOOLEAN, version : 0..MaxVersion]
    /\ turn \in [exists : BOOLEAN, result : 0..MaxVersion, indexed : 0..MaxVersion]
    /\ rows \in [Kinds -> [version : 0..MaxVersion, deleted : BOOLEAN]]
    /\ tombstone \in BOOLEAN
    /\ bench.at \in {"free", "capture", "write", "removing"}
    /\ recall.at \in {"idle", "found", "done"}

(* What the user has forgotten stays forgotten: nothing is remembered of    *)
(* its source again, not even by a capture that read the result before, a  *)
(* later result or a further statement; a recall begun after it hands      *)
(* nothing on; and no memory outlives its conversation.                    *)
ForgottenStays ==
    /\ tombstone \/ ~turn.exists => \A k \in Kinds : ~Live(k)
    /\ recall.at = "done" /\ recall.late => recall.handed = {}
=============================================================================
