--------------------------- MODULE QuestionAnswers ---------------------------
(***************************************************************************)
(* A task that waits for its user, and his answers:                        *)
(* shinku/agent_runtime/questions.py on the agent's service.               *)
(*                                                                         *)
(* A question is known by the revision its result was sealed at.  An       *)
(* answer is a supplement, saved twice, and then a resumption, saved and   *)
(* queued: the service's lock is held throughout, but a step may be        *)
(* refused, and the process may die between any two writes.  Users hold    *)
(* views as old as they like and send what they sent before.  The life of  *)
(* the worker is AgentService's: here it may stop at any of its writes.    *)
(* Left out: the limit of 16 supplements, materials, what the grant is.    *)
(***************************************************************************)
EXTENDS Naturals, FiniteSets, Sequences

CONSTANTS
    Texts,          \* what may be answered
    MaxRevision,    \* bounds of the exploration: revisions of the task
    MaxAttempts     \* ... and attempts

(* What the constants are.                                                 *)
QuestionAssumption == {MaxRevision, MaxAttempts} \subseteq Nat \ {0}

VARIABLES
    task,       \* the saved task: status, attempt, revision, whether it was
                \* canceled, the question of its result, the answer it was
                \* resumed with
    answers,    \* its supplements of questions: text and version
    record,     \* the coordinator's: active, ended, or cut off by a restart
    lock,       \* what is under way under the service's lock
    begun,      \* history: the question answered by each attempt that began
    touched     \* history: the waiting task was supplemented otherwise

questionVars == <<task, answers, record, lock, begun, touched>>

Questions == 1..MaxRevision
NoAnswer == [text |-> "none", version |-> 0]
Unlocked == [at |-> "none", question |-> 0]

QuestionsInit ==
    /\ task = [status |-> "running", attempt |-> 1, revision |-> 1, canceled |-> FALSE,
               question |-> 0, resumed |-> 0]
    /\ answers = [q \in Questions |-> NoAnswer]
    /\ record = "active" /\ lock = Unlocked
    /\ begun = <<0>> /\ touched = FALSE

-----------------------------------------------------------------------------
(* Every save moves the revision.                                          *)
Saved(t) == task' = [t EXCEPT !.revision = task.revision + 1]
CanSave == task.revision < MaxRevision

Free == lock.at = "none"
Active == record = "active"

(* answer_question up to its first write *)

(* Mutant: only a supplement that was saved twice may be gone on with.     *)
RetryableTwice(q) == task.revision = answers[q].version + 2

(* A kept answer stands as long as nothing but itself was saved since.     *)
Retryable(q) == task.revision \in {answers[q].version + 1, answers[q].version + 2}

Asked(q) == ~task.canceled /\ task.status = "waiting" /\ task.question = q

(* A new answer, to the task as the user saw it.                           *)
AnswerQuestion(q, text, version) ==
    /\ Free /\ CanSave
    /\ Asked(q) /\ answers[q] = NoAnswer
    /\ version = task.revision
    /\ ~Active
    /\ answers' = [answers EXCEPT ![q] = [text |-> text, version |-> version]]
    /\ Saved(task)
    /\ lock' = [at |-> "supplemented", question |-> q]
    /\ touched' = FALSE
    /\ UNCHANGED <<record, begun>>

(* The same answer again, whichever view it is sent from; any other is a   *)
(* conflict, and one that was resumed with is only reported.               *)
AnswerAgain(q, text) ==
    /\ Free
    /\ answers[q].text = text
    /\ task.resumed # q
    /\ Asked(q) /\ Retryable(q)
    /\ lock' = [at |-> "resuming", question |-> q]
    /\ UNCHANGED <<task, answers, record, begun, touched>>

-----------------------------------------------------------------------------
(* ... and from there, still under the lock *)

(* The material checkpoint, the second save of the supplement.             *)
Checkpoint ==
    /\ lock.at = "supplemented" /\ CanSave
    /\ Saved(task)
    /\ lock' = IF lock.question = 0 THEN Unlocked ELSE [lock EXCEPT !.at = "resuming"]
    /\ UNCHANGED <<answers, record, begun, touched>>

(* A write that failed, a grant or a review that refuses: what was saved   *)
(* stays.                                                                  *)
Refused ==
    /\ lock.at \in {"supplemented", "resuming"}
    /\ lock' = Unlocked
    /\ UNCHANGED <<task, answers, record, begun, touched>>

(* _resume                                                                 *)
Resumable == task.status \in {"waiting", "blocked", "canceled"} \/ record = "cut"

Reopened(q) ==
    /\ ~Active /\ Resumable /\ CanSave /\ task.attempt < MaxAttempts
    /\ Saved([task EXCEPT !.status = "queued", !.attempt = @ + 1, !.canceled = FALSE,
                          !.question = 0, !.resumed = q])
    /\ lock' = [at |-> "queueing", question |-> q]
    /\ UNCHANGED <<answers, record, begun, touched>>

ResumeAnswered == lock.at = "resuming" /\ Reopened(lock.question)

(* The coordinator admits it, or the task is marked.                       *)
QueueTask ==
    /\ lock.at = "queueing"
    /\ \/ record' = "active" /\ begun' = Append(begun, lock.question) /\ UNCHANGED task
       \/ CanSave /\ Saved([task EXCEPT !.status = "blocked"]) /\ UNCHANGED <<record, begun>>
    /\ lock' = Unlocked
    /\ UNCHANGED <<answers, touched>>

-----------------------------------------------------------------------------
(* The other calls, each with the handle of the task as it is *)

ResumeTask == Free /\ Reopened(0)

Supplement ==
    /\ Free /\ CanSave /\ ~Active
    /\ task.status \in {"waiting", "blocked"}
    /\ Saved(task)
    /\ lock' = [at |-> "supplemented", question |-> 0]
    /\ touched' = TRUE
    /\ UNCHANGED <<answers, record, begun>>

(* What only waits is closed; a worker is asked to stop.                   *)
CancelTask ==
    /\ Free /\ CanSave
    /\ task.status \notin {"completed", "canceled"}
    /\ IF Active THEN Saved([task EXCEPT !.canceled = TRUE]) /\ UNCHANGED record
       ELSE Saved([task EXCEPT !.canceled = TRUE, !.status = "canceled", !.question = 0]) /\ record' = "ended"
    /\ UNCHANGED <<answers, lock, begun, touched>>

(* The worker: it starts, and commits its result before it lets go.        *)
Observe ==
    /\ Free /\ CanSave /\ Active /\ task.status = "queued"
    /\ Saved([task EXCEPT !.status = "running"])
    /\ UNCHANGED <<answers, record, lock, begun, touched>>

Commit ==
    /\ Free /\ CanSave /\ Active /\ task.status \in {"queued", "running"}
    /\ \E s \in {"waiting", "completed", "blocked"} \cup (IF task.canceled THEN {"canceled"} ELSE {}) :
          Saved([task EXCEPT !.status = s,
                             !.question = IF s = "waiting" THEN task.revision + 1 ELSE 0])
    /\ touched' = FALSE
    /\ UNCHANGED <<answers, record, lock, begun>>

Leave ==
    /\ Active /\ task.status \notin {"queued", "running"}
    /\ record' = "ended"
    /\ UNCHANGED <<task, answers, lock, begun, touched>>

Restart ==
    /\ record' = IF Active THEN "cut" ELSE record
    /\ lock' = Unlocked
    /\ UNCHANGED <<task, answers, begun, touched>>

QuestionsNext ==
    \/ \E q \in Questions, text \in Texts :
          AnswerAgain(q, text) \/ \E version \in 1..MaxRevision : AnswerQuestion(q, text, version)
    \/ Checkpoint \/ Refused \/ ResumeAnswered \/ QueueTask
    \/ ResumeTask \/ Supplement \/ CancelTask \/ Observe \/ Commit \/ Leave \/ Restart

QuestionsSpec == QuestionsInit /\ [][QuestionsNext]_questionVars

-----------------------------------------------------------------------------
QuestionsTypeOK ==
    /\ task.status \in {"queued", "running", "waiting", "blocked", "completed", "canceled"}
    /\ task.attempt \in 1..MaxAttempts /\ task.revision \in 1..MaxRevision
    /\ task.question \in 0..MaxRevision /\ task.resumed \in 0..MaxRevision
    /\ record \in {"active", "ended", "cut"}
    /\ lock.at \in {"none", "supplemented", "resuming", "queueing"}
    /\ Len(begun) <= task.attempt

(* An answer begins one attempt of the task at most, which finds it in the *)
(* ledger, whatever was refused or cut off on the way and however often it *)
(* is sent.  Until it does, it can be sent again, unless the task was      *)
(* supplemented otherwise while it waited.                                 *)
AnswersAreKept ==
    /\ \A q \in Questions : Cardinality({n \in DOMAIN begun : begun[n] = q}) <= 1
    /\ \A n \in DOMAIN begun : begun[n] # 0 => answers[begun[n]] # NoAnswer
    /\ \A q \in Questions :
          Free /\ Asked(q) /\ answers[q] # NoAnswer /\ ~touched => Retryable(q)
=============================================================================
