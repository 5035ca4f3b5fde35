---------------------------- MODULE GoozamLearning ----------------------------
(***************************************************************************)
(* Experiences of finished tasks: proposed by a model, evaluated, turned   *)
(* on by a person, recalled by later tasks.                                *)
(*                                                                         *)
(*   goozam/learning.py    LearningStore: candidates and their versions    *)
(*   goozam/proposals.py   ProposalRunner: one model request per source    *)
(*                         version, with its record on disk                *)
(*   goozam/plugin.py      Controls, GoozmaPlugin: the switch, recall and  *)
(*                         propose under it                                *)
(*                                                                         *)
(* A candidate is the source version it was proposed from.  Sources live   *)
(* in other ledgers and change by themselves; what changed once does not   *)
(* come back.  One scope; trials are left out.                             *)
(***************************************************************************)
EXTENDS Naturals, FiniteSets

CONSTANTS
    Candidates,   \* source versions a candidate may be proposed from
    Proposers, Evaluators, Recallers,   \* threads that propose, evaluate, recall
    ActiveLimit,  \* 5
    MaxAssessed,   \* bound of the versions a row is evaluated, or revoked again, at
    MaxSwitched   \* bound of the switch's changes explored

(* What the constants are.                                                 *)
LearningAssumption == ActiveLimit \in Nat \ {0} /\ {MaxAssessed, MaxSwitched} \subseteq Nat

VARIABLES
    row,        \* candidates: [status, version]
    changed,    \* candidates whose source, or whose assessment's, has changed
    folder,     \* proposals/: what is on disk of a run
    switch,     \* controls: [mode, revision]
    runner,     \* per runner: [at, key, version, seen, verdict]
    requests,   \* history: model requests of a source version
    gained      \* history: candidates whose last assessment was a gain

learningVars == <<row, changed, folder, switch, runner, requests, gained>>

Runners == Proposers \cup Evaluators \cup Recallers
Modes == {"off", "learn", "use"}
Absent == [status |-> "none", version |-> 0]
Free == [at |-> "idle", key |-> "none", version |-> 0,
         seen |-> [mode |-> "off", revision |-> 0], items |-> {}]

LearningInit ==
    /\ row = [k \in Candidates |-> Absent] /\ changed = {}
    /\ folder = [k \in Candidates |-> "none"]
    /\ switch = [mode |-> "off", revision |-> 0]
    /\ runner = [r \in Runners |-> Free]
    /\ requests = [k \in Candidates |-> 0] /\ gained = {}

RunnerAt(r, at) == runner[r].at = at
Becomes(k, status) == row' = [row EXCEPT ![k].status = status, ![k].version = @ + 1]
Having(status) == {k \in Candidates : row[k].status = status}
Admitted(r) == switch.mode # "off" /\ switch = runner[r].seen

-----------------------------------------------------------------------------
(* GoozmaPlugin.propose and ProposalRunner.propose                         *)

BeginBatch(r, k) ==
    /\ RunnerAt(r, "idle") /\ switch.mode # "off" /\ k \notin changed
    /\ runner' = [runner EXCEPT ![r] = [Free EXCEPT !.at = "proposing", !.key = k, !.seen = switch]]
    /\ UNCHANGED <<row, changed, folder, switch, requests, gained>>

(* mkdir: one run per source version; an incomplete one waits for review.  *)
Fresh(k) == folder[k] = "none"

(* The switch is looked at again before the folder is taken.               *)
TakeFolder(r) ==
    LET k == runner[r].key IN
    /\ RunnerAt(r, "proposing")
    /\ \/ /\ Admitted(r) /\ Fresh(k)
          /\ folder' = [folder EXCEPT ![k] = "started"]
          /\ requests' = [requests EXCEPT ![k] = @ + 1]
          /\ runner' = [runner EXCEPT ![r].at = "requesting"]
       \/ /\ ~Admitted(r) \/ ~Fresh(k)
          /\ runner' = [runner EXCEPT ![r] = Free] /\ UNCHANGED <<folder, requests>>
    /\ UNCHANGED <<row, changed, switch, gained>>

(* The reply becomes a candidate if the source is still what it was; a     *)
(* candidate there already is left as it is, revoked or not.               *)
Proposed(r) ==
    LET k == runner[r].key IN
    /\ RunnerAt(r, "requesting")
    /\ row' = IF k \notin changed /\ row[k] = Absent
              THEN [row EXCEPT ![k] = [status |-> "candidate", version |-> 1]] ELSE row
    /\ runner' = [runner EXCEPT ![r].at = "recording"]
    /\ UNCHANGED <<changed, folder, switch, requests, gained>>

(* The reply was a skip, or invalid, or the source changed.                *)
NotProposed(r) ==
    /\ RunnerAt(r, "requesting")
    /\ runner' = [runner EXCEPT ![r].at = "recording"]
    /\ UNCHANGED <<row, changed, folder, switch, requests, gained>>

RecordRun(r) ==
    /\ RunnerAt(r, "recording")
    /\ folder' = [folder EXCEPT ![runner[r].key] = "result"]
    /\ runner' = [runner EXCEPT ![r] = Free]
    /\ UNCHANGED <<row, changed, switch, requests, gained>>

-----------------------------------------------------------------------------
(* LearningStore                                                           *)

(* evaluate, its first transaction; the evaluator runs outside of any.     *)
BeginEvaluate(r, k) ==
    /\ RunnerAt(r, "idle")
    /\ row[k].status \in {"candidate", "no_gain"} /\ k \notin changed
    /\ row[k].version <= MaxAssessed
    /\ runner' = [runner EXCEPT ![r] = [Free EXCEPT !.at = "evaluating", !.key = k,
                                                    !.version = row[k].version]]
    /\ UNCHANGED <<row, changed, folder, switch, requests, gained>>

(* Mutant: only a revocation in between is noticed.                        *)
UnrevokedSince(r) == row[runner[r].key].status # "revoked"

(* evaluate, its second transaction: nothing else has touched the row.     *)
UntouchedSince(r) ==
    LET k == runner[r].key IN row[k].version = runner[r].version /\ row[k].status # "revoked"

EndEvaluate(r) ==
    LET k == runner[r].key IN
    /\ RunnerAt(r, "evaluating")
    /\ \/ UNCHANGED <<row, gained>>             \* invalid, no holdout, or touched
       \/ /\ UntouchedSince(r) /\ k \notin changed
          /\ \/ Becomes(k, "evaluated") /\ gained' = gained \cup {k}
             \/ Becomes(k, "no_gain") /\ gained' = gained \ {k}
    /\ runner' = [runner EXCEPT ![r] = Free]
    /\ UNCHANGED <<changed, folder, switch, requests>>

(* activate, of a candidate that was assessed and is still fresh.          *)
ActivateExperience(k) ==
    /\ row[k].status = "evaluated" /\ k \notin changed
    /\ Cardinality(Having("active")) < ActiveLimit
    /\ Becomes(k, "active")
    /\ UNCHANGED <<changed, folder, switch, runner, requests, gained>>

(* revoke looks at no status: a row revoked before gets a new version.     *)
RevokeExperience(k) ==
    /\ row[k].status # "none"
    /\ row[k].status = "revoked" => row[k].version <= MaxAssessed
    /\ Becomes(k, "revoked")
    /\ UNCHANGED <<changed, folder, switch, runner, requests, gained>>

-----------------------------------------------------------------------------
(* Controls, and GoozmaPlugin.recall                                       *)

(* select: a page that has seen this revision sets a mode.                 *)
Select(mode) ==
    /\ mode # switch.mode /\ switch.revision < MaxSwitched
    /\ switch' = [mode |-> mode, revision |-> switch.revision + 1]
    /\ UNCHANGED <<row, changed, folder, runner, requests, gained>>

BeginRecall(r) ==
    /\ runner[r].at \in {"idle", "handed"} /\ switch.mode = "use"
    /\ runner' = [runner EXCEPT ![r] = [Free EXCEPT !.at = "recalling", !.seen = switch]]
    /\ UNCHANGED <<row, changed, folder, switch, requests, gained>>

ReadExperiences(r) ==
    /\ RunnerAt(r, "recalling")
    /\ runner' = [runner EXCEPT ![r].at = "read", ![r].items = Having("active") \ changed]
    /\ UNCHANGED <<row, changed, folder, switch, requests, gained>>

(* What was read is thrown away if the switch was touched meanwhile.       *)
HandOut(r) ==
    /\ RunnerAt(r, "read")
    /\ runner' = [runner EXCEPT ![r].at = "handed",
                                ![r].items = IF switch = runner[r].seen THEN @ ELSE {}]
    /\ UNCHANGED <<row, changed, folder, switch, requests, gained>>

-----------------------------------------------------------------------------
(* Around it *)

SourceChanges(k) == k \notin changed /\ changed' = changed \cup {k}
    /\ UNCHANGED <<row, folder, switch, runner, requests, gained>>

(* The batch's process ends; its folder stays.                             *)
BatchDies(r) == ~RunnerAt(r, "idle") /\ runner' = [runner EXCEPT ![r] = Free]
    /\ UNCHANGED <<row, changed, folder, switch, requests, gained>>

LearningNext ==
    \/ \E r \in Proposers : \/ \E k \in Candidates : BeginBatch(r, k)
                           \/ TakeFolder(r) \/ Proposed(r) \/ NotProposed(r) \/ RecordRun(r) \/ BatchDies(r)
    \/ \E r \in Evaluators : EndEvaluate(r) \/ \E k \in Candidates : BeginEvaluate(r, k)
    \/ \E r \in Recallers : BeginRecall(r) \/ ReadExperiences(r) \/ HandOut(r)
    \/ \E k \in Candidates : ActivateExperience(k) \/ RevokeExperience(k) \/ SourceChanges(k)
    \/ \E mode \in Modes : Select(mode)

LearningSpec == LearningInit /\ [][LearningNext]_learningVars

-----------------------------------------------------------------------------
(* Properties *)

LearningTypeOK ==
    /\ row \in [Candidates -> [status : {"none", "candidate", "no_gain", "evaluated", "active", "revoked"},
                               version : Nat]]
    /\ changed \subseteq Candidates /\ gained \subseteq Candidates
    /\ folder \in [Candidates -> {"none", "started", "result"}]
    /\ switch \in [mode : Modes, revision : 0..MaxSwitched]
    /\ runner \in [Runners ->
          [at : {"idle", "proposing", "requesting", "recording", "evaluating",
                 "recalling", "read", "handed"},
           key : Candidates \cup {"none"}, version : Nat,
           seen : [mode : Modes, revision : Nat], items : SUBSET Candidates]]
    /\ requests \in [Candidates -> 0..1]

(* Evaluations, activations and revocations cross each other, processes    *)
(* die and batches are repeated: an experience is active only after an     *)
(* assessment that gained, stops being active only by revocation, and is   *)
(* not revived, however often it is revoked; no more are active than       *)
(* allowed; and what a recall hands out was earned, and the switch has     *)
(* stood at "use" since it began.                                          *)
ExperienceIsEarned ==
    [][/\ \A k \in Candidates :
             /\ row'[k].status \in {"evaluated", "active"} => k \in gained'
             /\ row[k].status = "active" => row'[k].status \in {"active", "revoked"}
             /\ row[k].status = "revoked" => row'[k].status = "revoked"
       /\ Cardinality({k \in Candidates : row'[k].status = "active"}) <= ActiveLimit
       /\ \A r \in Runners : runner'[r].at = "handed" /\ runner'[r].items # {} =>
             /\ runner'[r].items \subseteq gained
             /\ RunnerAt(r, "read") => switch.mode = "use"
       /\ \A k \in Candidates : requests'[k] <= 1]_learningVars
=============================================================================
