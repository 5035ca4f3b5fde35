-------------------------- MODULE ComponentProofs --------------------------
(***************************************************************************)
(* Theorems about components that share no state with each other, which    *)
(* MCComponents explores side by side on small instances: here for every   *)
(* set of tasks, calls, messages and threads and for every limit.  They    *)
(* are the permission levels of the workbench (ToolPermissions), the       *)
(* user's word to a request (Approvals), the budget that spans the works   *)
(* of a task (TaskBudget), the token budget of the model gateway           *)
(* (ModelGateway), the translations of a batch (BatchTask), the exchange   *)
(* with other agents (PeerExchange), the summaries of a conversation       *)
(* (SummaryWorker), the reviews of memory (LifecycleReview), the           *)
(* handover of a long query (QueryHandover) and a conversation of the      *)
(* local workbench (Workbench).                                            *)
(*                                                                         *)
(* Each theorem is about the specification of one component.  Where two of *)
(* them have a constant or a variable of one name, it is declared once.    *)
(***************************************************************************)
EXTENDS Naturals, Sequences, FiniteSets, SequenceTheorems, FiniteSetTheorems,
        WellFoundedInduction, TLAPS

CONSTANTS
    Tasks,
    Delegated, Reads, Effects, MaxRevisions, MaxRuns,   \* ToolPermissions
    Asks, WorkIds,                                      \* Approvals
    Callers, Messages, Allotted, Added, Ceiling,
    MaxGrants, Reserved, MaxSpent,                      \* TaskBudget
    Clients, MaxRequests, MaxTokens,                    \* ModelGateway
    Chunks, Runners, MaxCalls, MaxSeconds, Lease,
    MaxClock,                                           \* BatchTask
    People, Agents, Allowance, Fresh, Keep, MaxNow,     \* PeerExchange
    Versions, Slots, Timeout,                           \* SummaryWorker
    Records, Queued, Day, Daily, Interval, MaxStops,    \* LifecycleReview
    Turns, MaxFront, MaxReads, MaxRechecks, MaxRevision \* QueryHandover, Workbench

VARIABLES
    levels, grant, check, pending, rejected, cancel, ran,
    queue, live, record, carries, turn, said, lives,
    task, work, budget, call, spent, lost, excess,
    gate, revoked, rows, closing, charged,
    now, job, chunks, runner,
    sent, answered, humanAt, events, granted, renewals,
    clock, source, brief, caller, thread, slots, made, told,
    memory, forgetting, turns, worker, calls, asked, evidence,
    lock, checkpoint, revision, late, runs, stale,
    conversation, closed, accepted

Rights == INSTANCE ToolPermissions
Words == INSTANCE Approvals
Spend == INSTANCE TaskBudget
Gateway == INSTANCE ModelGateway
Batch == INSTANCE BatchTask WITH row <- job
Peers == INSTANCE PeerExchange WITH grants <- granted
Summaries == INSTANCE SummaryWorker WITH row <- brief
Reviews == INSTANCE LifecycleReview WITH request <- asked
Query == INSTANCE QueryHandover
Bench == INSTANCE Workbench

-----------------------------------------------------------------------------
(* The permission levels.  A call is looked at under two locks, waits for  *)
(* a word without one, and is executed later still, while the level moves. *)
(* What ties the run to the level is the revision the task was granted:    *)
(* once it was checked, and until it is over, the grant stays, and so does *)
(* the level that had that number.                                         *)

Places == {"idle", "asking", "waiting", "reading", "approved", "refused", "cleared"}
CheckRow == [at : Places, call : Rights!Calls \cup {"none"}, word : {"none", "approve", "deny"}]
RequestRow == [revision : Nat, decision : {"none", "approve", "deny", "revoked"}]
RunRow == [task : Tasks, call : Rights!Calls, under : Nat, word : {"none", "approve", "deny"}]

(* The level of revision n lets c run, if the user does not object.        *)
Permits(n, c) ==
    /\ n \in 1..Len(levels)
    /\ \/ levels[n] = "aleph" \/ levels[n] = "waw"
       \/ levels[n] = "he" /\ c \in Reads

(* ... and this word was enough.                                           *)
Suffices(t, n, c, word) ==
    t \in Delegated \/ (levels[n] = "waw" /\ c \in Effects) => word = "approve"

RightsTyped ==
    /\ levels \in Seq(Rights!Levels) /\ levels # <<>>
    /\ grant \in [Tasks -> 0..Len(levels)]
    /\ check \in [Tasks -> CheckRow] /\ pending \in [Tasks -> RequestRow]
    /\ rejected \in [Tasks -> SUBSET Rights!Calls]
    /\ cancel \in [Tasks -> BOOLEAN] /\ ran \in Seq(RunRow)

(* A call on its way is of a kind the level of its grant permits, and when *)
(* nothing stands before it any more, the word it has was enough.  Its     *)
(* request is up only while it waits, and what was decided is what it was  *)
(* told.                                                                   *)
RowOK(t, n, row, request) ==
    /\ row.at # "idle" => row.call \in Rights!Calls /\ Permits(n, row.call)
    /\ row.at = "cleared" => Suffices(t, n, row.call, row.word)
    /\ row.at = "approved" => row.word = "approve"
    /\ row.at \in {"idle", "asking", "cleared"} => request = Rights!NoRequest
    /\ row.at \in {"reading", "approved"} => request.decision # "none"
    /\ request.decision \in {"approve", "deny"} => row.word = request.decision
    /\ request.revision = 0 => request.decision = "none"

ChecksOK == \A t \in Tasks : RowOK(t, grant[t], check[t], pending[t])

RunsOK ==
    \A k \in 1..Len(ran) : /\ Permits(ran[k].under, ran[k].call)
                           /\ Suffices(ran[k].task, ran[k].under, ran[k].call, ran[k].word)

RightsInv == RightsTyped /\ ChecksOK /\ RunsOK

(* What was permitted under a revision stays so: levels are only added.    *)
LevelsGrow == levels' = levels \/ \E l \in Rights!Levels : levels' = Append(levels, l)

LEMMA LevelsStay ==
    ASSUME RightsTyped, LevelsGrow
    PROVE  /\ levels' \in Seq(Rights!Levels) /\ levels' # <<>> /\ Len(levels') >= Len(levels)
           /\ \A n \in 1..Len(levels) : n \in 1..Len(levels') /\ levels'[n] = levels[n]
<1>1. levels \in Seq(Rights!Levels) /\ levels # <<>> /\ Len(levels) \in Nat
  BY DEF RightsTyped
<1>2. CASE levels' = levels
  BY <1>1, <1>2
<1>3. ASSUME NEW l \in Rights!Levels, levels' = Append(levels, l)
      PROVE  /\ levels' \in Seq(Rights!Levels) /\ Len(levels') = Len(levels) + 1
             /\ \A n \in 1..Len(levels) : levels'[n] = levels[n]
  BY <1>1, <1>3
<1>4. CASE \E l \in Rights!Levels : levels' = Append(levels, l)
  <2>1. /\ levels' \in Seq(Rights!Levels) /\ Len(levels') = Len(levels) + 1
        /\ \A n \in 1..Len(levels) : levels'[n] = levels[n]
    BY <1>3, <1>4
  <2>2. levels' # <<>>
    BY <1>1, <2>1
  <2> QED BY <1>1, <2>1, <2>2
<1> QED BY <1>2, <1>4 DEF LevelsGrow

LEMMA RowStays ==
    ASSUME RightsTyped, LevelsGrow, NEW t \in Tasks, NEW n, NEW row, NEW request,
           RowOK(t, n, row, request)
    PROVE  RowOK(t, n, row, request)'
<1>1. \A c : Permits(n, c) => Permits(n, c)'
  BY LevelsStay DEF Permits
<1>2. \A c, w : Permits(n, c) /\ Suffices(t, n, c, w) => Suffices(t, n, c, w)'
  BY LevelsStay DEF Permits, Suffices
<1> QED BY <1>1, <1>2 DEF RowOK

LEMMA RunsStay ==
    ASSUME RightsTyped, RunsOK, LevelsGrow, ran' = ran
    PROVE  RunsOK'
<1> SUFFICES ASSUME NEW k \in 1..Len(ran)
             PROVE  /\ Permits(ran[k].under, ran[k].call)'
                    /\ Suffices(ran[k].task, ran[k].under, ran[k].call, ran[k].word)'
  BY DEF RunsOK
<1>1. /\ Permits(ran[k].under, ran[k].call)
      /\ Suffices(ran[k].task, ran[k].under, ran[k].call, ran[k].word)
  BY DEF RunsOK
<1> QED BY <1>1, LevelsStay DEF Permits, Suffices

(* A task's row and its request are replaced.                              *)
LEMMA RowPut ==
    ASSUME RightsInv, NEW t \in Tasks, NEW row \in CheckRow, NEW request \in RequestRow,
           check' = [check EXCEPT ![t] = row], pending' = [pending EXCEPT ![t] = request],
           RowOK(t, grant[t], row, request),
           UNCHANGED <<levels, grant>>
    PROVE  /\ check' \in [Tasks -> CheckRow] /\ pending' \in [Tasks -> RequestRow]
           /\ ChecksOK'
<1>1. /\ check \in [Tasks -> CheckRow] /\ pending \in [Tasks -> RequestRow]
  BY DEF RightsInv, RightsTyped
<1>2. /\ check' \in [Tasks -> CheckRow] /\ check'[t] = row
      /\ \A u \in Tasks \ {t} : check'[u] = check[u]
  BY <1>1
<1>3. /\ pending' \in [Tasks -> RequestRow] /\ pending'[t] = request
      /\ \A u \in Tasks \ {t} : pending'[u] = pending[u]
  BY <1>1
<1>4. ASSUME NEW u \in Tasks PROVE RowOK(u, grant[u], check'[u], pending'[u])
  <2>1. CASE u = t
    BY <1>2, <1>3, <2>1
  <2>2. CASE u # t
    BY <1>2, <1>3, <2>2 DEF RightsInv, ChecksOK
  <2> QED BY <2>1, <2>2
<1>5. ASSUME NEW u \in Tasks PROVE RowOK(u, grant[u], check[u], pending[u])'
  BY <1>4 DEF RowOK, Permits, Suffices
<1> QED BY <1>2, <1>3, <1>5 DEF ChecksOK

(* No call on its way, and no request.                                     *)
LEMMA NothingAsked ==
    /\ Rights!NoCheck \in CheckRow /\ Rights!NoRequest \in RequestRow
    /\ Rights!NoCheck.at = "idle" /\ Rights!NoCheck.word = "none"
    /\ Rights!NoRequest.revision = 0 /\ Rights!NoRequest.decision = "none"
    /\ \A t, n : RowOK(t, n, Rights!NoCheck, Rights!NoRequest)
BY DEF Rights!NoCheck, Rights!NoRequest, CheckRow, RequestRow, Places, RowOK

LEMMA RightsStart ==
    ASSUME Rights!PermissionsInit
    PROVE  RightsInv
<1>1. levels \in Seq(Rights!Levels) /\ levels # <<>>
  <2>1. PICK l \in Rights!Levels : levels = <<l>>
    BY DEF Rights!PermissionsInit
  <2> QED BY <2>1
<1>2. /\ grant \in [Tasks -> 0..Len(levels)]
      /\ check \in [Tasks -> CheckRow] /\ pending \in [Tasks -> RequestRow]
  BY <1>1, NothingAsked DEF Rights!PermissionsInit
<1>a. /\ rejected \in [Tasks -> SUBSET Rights!Calls] /\ cancel \in [Tasks -> BOOLEAN]
      /\ ran \in Seq(RunRow) /\ Len(ran) = 0
  BY DEF Rights!PermissionsInit
<1>3. ChecksOK
  BY NothingAsked DEF Rights!PermissionsInit, ChecksOK
<1> QED BY <1>1, <1>2, <1>a, <1>3 DEF RightsInv, RightsTyped, RunsOK

(* The user's part.                                                        *)
LEMMA UserKeepsRights ==
    ASSUME RightsInv
    PROVE  /\ \A l \in Rights!Levels : Rights!Select(l) => RightsInv'
           /\ Rights!RestartHost => RightsInv'
           /\ \A t \in Tasks : \A d \in {"approve", "deny"} : Rights!Decide(t, d) => RightsInv'
           /\ \A t \in Tasks : Rights!CancelRun(t) => RightsInv'
<1>. USE DEF RightsInv
<1>1. ASSUME NEW l \in Rights!Levels, Rights!Select(l) PROVE RightsInv'
  <2>1. LevelsGrow
    BY <1>1 DEF Rights!Select, LevelsGrow
  <2>2. pending' \in [Tasks -> RequestRow]
    <3>1. ASSUME NEW t \in Tasks
          PROVE  [pending[t] EXCEPT !.decision = "revoked"] \in RequestRow
      BY DEF RightsTyped, RequestRow
    <3> QED BY <1>1, <3>1, NothingAsked DEF Rights!Select
  <2>3. ASSUME NEW t \in Tasks PROVE RowOK(t, grant[t], check[t], pending'[t])
    <3>1. PICK request \in RequestRow : request = pending[t]
      BY DEF RightsTyped
    <3>2. RowOK(t, grant[t], check[t], request)
      BY <3>1 DEF ChecksOK
    <3>3. CASE request.revision = 0
      <4>1. pending'[t] = Rights!NoRequest
        BY <1>1, <3>1, <3>3 DEF Rights!Select
      <4>2. check[t].at \notin {"reading", "approved"}
        BY <3>2, <3>3 DEF RowOK
      <4> QED BY <3>2, <4>1, <4>2, NothingAsked DEF RowOK
    <3>4. CASE request.revision # 0
      <4>1. PICK new : new = [request EXCEPT !.decision = "revoked"]
        OBVIOUS
      <4>2. new.decision = "revoked" /\ new.revision = request.revision
        BY <4>1 DEF RequestRow
      <4>3. pending'[t] = new
        BY <1>1, <3>1, <3>4, <4>1 DEF Rights!Select
      <4> QED BY <3>2, <3>4, <4>2, <4>3, NothingAsked DEF RowOK
    <3> QED BY <3>3, <3>4
  <2>4. ChecksOK'
    <3> SUFFICES ASSUME NEW t \in Tasks PROVE RowOK(t, grant[t], check[t], pending[t])'
      BY DEF ChecksOK
    <3>1. RowOK(t, grant[t], check[t], pending'[t])
      BY <2>3
    <3>2. UNCHANGED <<grant, check>>
      BY <1>1 DEF Rights!Select
    <3> QED BY <2>1, <3>1, <3>2, LevelsStay DEF RowOK, Permits, Suffices
  <2>5. RunsOK'
    BY <1>1, <2>1, RunsStay DEF Rights!Select
  <2>6. RightsTyped'
    <3>1. UNCHANGED <<grant, check, rejected, cancel, ran>>
      BY <1>1 DEF Rights!Select
    <3> QED BY <2>1, <2>2, <3>1, LevelsStay DEF RightsTyped
  <2> QED BY <2>4, <2>5, <2>6
<1>2. ASSUME Rights!RestartHost PROVE RightsInv'
  <2>1. Rights!level \in Rights!Levels
    BY DEF RightsTyped, Rights!level, Rights!revision
  <2>2. LevelsGrow
    BY <1>2, <2>1 DEF Rights!RestartHost, LevelsGrow
  <2>3. /\ grant' = [t \in Tasks |-> 0] /\ check' = [t \in Tasks |-> Rights!NoCheck]
        /\ pending' = [t \in Tasks |-> Rights!NoRequest]
        /\ rejected' = [t \in Tasks |-> {}] /\ cancel' = [t \in Tasks |-> FALSE] /\ ran' = ran
    BY <1>2 DEF Rights!RestartHost
  <2>4. RightsTyped'
    <3>1. check' \in [Tasks -> CheckRow] /\ pending' \in [Tasks -> RequestRow]
      BY <2>3, NothingAsked
    <3>2. grant' \in [Tasks -> 0..Len(levels')]
      BY <2>2, <2>3, LevelsStay
    <3> QED BY <2>2, <2>3, <3>1, <3>2, LevelsStay DEF RightsTyped
  <2>5. ASSUME NEW t \in Tasks PROVE RowOK(t, grant[t], check[t], pending[t])'
    <3>1. check'[t] = Rights!NoCheck /\ pending'[t] = Rights!NoRequest
      BY <2>3
    <3> QED BY <3>1, NothingAsked DEF RowOK
  <2> QED BY <2>2, <2>3, <2>4, <2>5, RunsStay DEF ChecksOK
<1>3. ASSUME NEW t \in Tasks, NEW d \in {"approve", "deny"}, Rights!Decide(t, d) PROVE RightsInv'
  <2>1. PICK row \in CheckRow : row = check[t]
    BY DEF RightsTyped
  <2>2. PICK request \in RequestRow : request = pending[t]
    BY DEF RightsTyped
  <2>3. PICK heard : heard = [row EXCEPT !.word = d]
    OBVIOUS
  <2>4. PICK answer : answer = [request EXCEPT !.decision = d]
    OBVIOUS
  <2>5. heard \in CheckRow /\ heard.at = row.at /\ heard.call = row.call /\ heard.word = d
    BY <2>3 DEF CheckRow
  <2>6. answer \in RequestRow /\ answer.revision = request.revision /\ answer.decision = d
    BY <2>4 DEF RequestRow
  <2>7. request.revision # 0 /\ request.decision = "none"
    BY <1>3, <2>2 DEF Rights!Decide, Rights!revision, RightsTyped
  <2>8. RowOK(t, grant[t], row, request)
    BY <2>1, <2>2 DEF ChecksOK
  <2>9. RowOK(t, grant[t], heard, answer)
    BY <2>5, <2>6, <2>7, <2>8, NothingAsked DEF RowOK
  <2>10. /\ check' = [check EXCEPT ![t] = heard] /\ pending' = [pending EXCEPT ![t] = answer]
    BY <1>3, <2>1, <2>2, <2>3, <2>4 DEF Rights!Decide
  <2>11. UNCHANGED <<levels, grant, rejected, cancel, ran>>
    BY <1>3 DEF Rights!Decide
  <2>12. /\ check' \in [Tasks -> CheckRow] /\ pending' \in [Tasks -> RequestRow] /\ ChecksOK'
    BY <2>5, <2>6, <2>9, <2>10, <2>11, RowPut
  <2>13. RunsOK'
    BY <2>11, RunsStay DEF LevelsGrow
  <2> QED BY <2>11, <2>12, <2>13 DEF RightsTyped
<1>4. ASSUME NEW t \in Tasks, Rights!CancelRun(t) PROVE RightsInv'
  <2>1. UNCHANGED <<levels, grant, check, pending, rejected, ran>>
    BY <1>4 DEF Rights!CancelRun
  <2>2. cancel' \in [Tasks -> BOOLEAN]
    BY <1>4 DEF Rights!CancelRun, RightsTyped
  <2>3. RunsOK'
    BY <2>1, RunsStay DEF LevelsGrow
  <2>4. ChecksOK'
    BY <2>1 DEF ChecksOK, RowOK, Permits, Suffices
  <2> QED BY <2>1, <2>2, <2>3, <2>4 DEF RightsTyped
<1> QED BY <1>1, <1>2, <1>3, <1>4

(* A step of a task that moves its row and its request, and may add to     *)
(* what it was refused.                                                    *)
LEMMA StepKeepsRights ==
    ASSUME RightsInv, NEW t \in Tasks, NEW row \in CheckRow, NEW request \in RequestRow,
           check' = [check EXCEPT ![t] = row], pending' = [pending EXCEPT ![t] = request],
           RowOK(t, grant[t], row, request),
           rejected' \in [Tasks -> SUBSET Rights!Calls], UNCHANGED <<levels, grant, cancel, ran>>
    PROVE  RightsInv'
<1>1. check' \in [Tasks -> CheckRow] /\ pending' \in [Tasks -> RequestRow] /\ ChecksOK'
  BY RowPut
<1>2. RunsOK'
  BY RunsStay DEF LevelsGrow, RightsInv
<1> QED BY <1>1, <1>2 DEF RightsInv, RightsTyped

LEMMA TaskKeepsRights ==
    ASSUME Rights!PermissionsAssumption, RightsInv, NEW t \in Tasks
    PROVE  /\ \A c \in Rights!Calls : Rights!Enter(t, c) => RightsInv'
           /\ Rights!Authorize(t) => RightsInv'
           /\ Rights!Ask(t) => RightsInv'
           /\ Rights!GiveUp(t) => RightsInv'
           /\ Rights!Wake(t) => RightsInv'
           /\ Rights!ReadDecision(t) => RightsInv'
           /\ Rights!TakeDown(t) => RightsInv'
           /\ Rights!Run(t) => RightsInv'
<1>1. PICK row \in CheckRow : row = check[t]
  BY DEF RightsInv, RightsTyped
<1>2. PICK request \in RequestRow : request = pending[t]
  BY DEF RightsInv, RightsTyped
<1>3. /\ levels \in Seq(Rights!Levels) /\ Rights!revision \in 1..Len(levels)
      /\ grant[t] \in 0..Len(levels) /\ rejected[t] \subseteq Rights!Calls
      /\ rejected \in [Tasks -> SUBSET Rights!Calls]
      /\ pending' = pending => pending' = [pending EXCEPT ![t] = request]
  BY <1>2 DEF RightsInv, RightsTyped, Rights!revision
<1>4. RowOK(t, grant[t], row, request)
  BY <1>1, <1>2 DEF RightsInv, ChecksOK
<1>5. ASSUME NEW place \in Places
      PROVE  \E new \in CheckRow : /\ new = [row EXCEPT !.at = place]
                                   /\ new.at = place /\ new.call = row.call /\ new.word = row.word
  <2>1. PICK new : new = [row EXCEPT !.at = place]
    OBVIOUS
  <2>2. new \in CheckRow /\ new.at = place /\ new.call = row.call /\ new.word = row.word
    BY <2>1, <1>5 DEF CheckRow
  <2> QED BY <2>1, <2>2
(* The row only comes to another place, beside the same request.           *)
<1>6. ASSUME NEW place \in Places, Rights!Step(t, place),
             \A new \in CheckRow :
                 new.at = place /\ new.call = row.call /\ new.word = row.word
                     => RowOK(t, grant[t], new, request),
             rejected' \in [Tasks -> SUBSET Rights!Calls],
             UNCHANGED <<levels, grant, pending, cancel, ran>>
      PROVE  RightsInv'
  <2>1. PICK new \in CheckRow :
            /\ new = [row EXCEPT !.at = place]
            /\ new.at = place /\ new.call = row.call /\ new.word = row.word
    BY <1>5
  <2>2. check' = [check EXCEPT ![t] = new]
    BY <1>1, <1>6, <2>1 DEF Rights!Step
  <2> QED BY <1>3, <1>6, <2>1, <2>2, StepKeepsRights
<1>7. ASSUME NEW c \in Rights!Calls, Rights!Enter(t, c) PROVE RightsInv'
  <2>1. PICK begun : begun = [Rights!NoCheck EXCEPT !.at = "asking", !.call = c]
    OBVIOUS
  <2>2. PICK clear : clear = [Rights!NoCheck EXCEPT !.at = "cleared", !.call = c]
    OBVIOUS
  <2>3. /\ begun \in CheckRow /\ begun.at = "asking" /\ begun.call = c /\ begun.word = "none"
    BY <2>1 DEF CheckRow, Places, Rights!NoCheck
  <2>4. /\ clear \in CheckRow /\ clear.at = "cleared" /\ clear.call = c /\ clear.word = "none"
    BY <2>2 DEF CheckRow, Places, Rights!NoCheck
  <2>5. Permits(grant[t], c) /\ levels[grant[t]] = Rights!level
    BY <1>3, <1>7 DEF Rights!Enter, Rights!Current, Rights!Forbidden, Permits, Rights!level,
                      Rights!Levels, Rights!Calls
  <2>6. request = Rights!NoRequest
    BY <1>1, <1>4, <1>7 DEF Rights!Enter, RowOK
  <2>7. RowOK(t, grant[t], begun, request)
    BY <2>3, <2>5, <2>6, NothingAsked DEF RowOK
  <2>8. Rights!Unasked(t, c) => RowOK(t, grant[t], clear, request)
    <3>1. Rights!Unasked(t, c) => Suffices(t, grant[t], c, "none")
      BY <2>5 DEF Rights!Unasked, Suffices, Rights!PermissionsAssumption
    <3> QED BY <2>4, <2>5, <2>6, <3>1, NothingAsked DEF RowOK
  <2>9. UNCHANGED <<levels, grant, pending, rejected, cancel, ran>>
    BY <1>7 DEF Rights!Enter
  <2>10. CASE Rights!Unasked(t, c) /\ check' = [check EXCEPT ![t] = clear]
    BY <1>3, <2>4, <2>8, <2>9, <2>10, StepKeepsRights
  <2>11. CASE check' = [check EXCEPT ![t] = begun]
    BY <1>3, <2>3, <2>7, <2>9, <2>11, StepKeepsRights
  <2>12. \/ Rights!Unasked(t, c) /\ check' = [check EXCEPT ![t] = clear]
         \/ check' = [check EXCEPT ![t] = begun]
    BY <1>7, <2>1, <2>2 DEF Rights!Enter
  <2> QED BY <2>10, <2>11, <2>12
<1>8. ASSUME Rights!Authorize(t) PROVE RightsInv'
  <2>1. /\ row.at = "idle" /\ UNCHANGED <<levels, check, pending, ran>>
        /\ grant' = [grant EXCEPT ![t] = Rights!revision]
        /\ rejected' = [rejected EXCEPT ![t] = {}] /\ cancel' = [cancel EXCEPT ![t] = FALSE]
    BY <1>1, <1>8 DEF Rights!Authorize
  <2>2. /\ grant' \in [Tasks -> 0..Len(levels)] /\ \A u \in Tasks \ {t} : grant'[u] = grant[u]
        /\ rejected' \in [Tasks -> SUBSET Rights!Calls] /\ cancel' \in [Tasks -> BOOLEAN]
    BY <1>3, <2>1 DEF RightsInv, RightsTyped
  <2>3. ASSUME NEW u \in Tasks PROVE RowOK(u, grant'[u], check[u], pending[u])
    <3>1. CASE u = t
      BY <1>1, <1>2, <1>4, <2>1, <3>1 DEF RowOK
    <3>2. CASE u # t
      BY <2>2, <3>2 DEF RightsInv, ChecksOK
    <3> QED BY <3>1, <3>2
  <2>4. ChecksOK'
    BY <2>1, <2>3 DEF ChecksOK, RowOK, Permits, Suffices
  <2>5. RunsOK'
    BY <2>1, RunsStay DEF LevelsGrow, RightsInv
  <2> QED BY <2>1, <2>2, <2>4, <2>5 DEF RightsInv, RightsTyped
<1>9. ASSUME Rights!Ask(t) PROVE RightsInv'
  <2>1. row.at = "asking" /\ UNCHANGED <<levels, grant, rejected, cancel, ran>>
    BY <1>1, <1>9 DEF Rights!Ask
  <2>2. request = Rights!NoRequest /\ row.call \in Rights!Calls /\ Permits(grant[t], row.call)
    BY <1>4, <2>1 DEF RowOK
  <2>3. CASE grant[t] # Rights!revision
    <3>1. check' = [check EXCEPT ![t] = Rights!NoCheck] /\ pending' = pending
      BY <1>9, <2>3 DEF Rights!Ask, Rights!Refuse
    <3> QED BY <1>3, <2>1, <2>2, <3>1, NothingAsked, StepKeepsRights
  <2>4. CASE grant[t] = Rights!revision
    <3>1. PICK up : up = [revision |-> Rights!revision, decision |-> "none"]
      OBVIOUS
    <3>2. up \in RequestRow /\ up.decision = "none"
      BY <1>3, <3>1 DEF RequestRow
    <3>3. PICK new \in CheckRow :
              /\ new = [row EXCEPT !.at = "waiting"]
              /\ new.at = "waiting" /\ new.call = row.call /\ new.word = row.word
      BY <1>5 DEF Places
    <3>4. check' = [check EXCEPT ![t] = new] /\ pending' = [pending EXCEPT ![t] = up]
      BY <1>1, <1>9, <2>4, <3>1, <3>3 DEF Rights!Ask, Rights!Step
    <3>5. RowOK(t, grant[t], new, up)
      BY <2>2, <3>2, <3>3 DEF RowOK
    <3>6. rejected' \in [Tasks -> SUBSET Rights!Calls]
      BY <1>3, <2>1
    <3> QED BY <2>1, <3>2, <3>3, <3>4, <3>5, <3>6, StepKeepsRights
  <2> QED BY <2>3, <2>4
<1>10. ASSUME Rights!GiveUp(t) PROVE RightsInv'
  <2>1. /\ row.at = "waiting" /\ Rights!Step(t, "refused")
        /\ UNCHANGED <<levels, grant, pending, rejected, cancel, ran>>
    BY <1>1, <1>10 DEF Rights!GiveUp
  <2> QED BY <1>3, <1>4, <1>6, <2>1 DEF RowOK, Places
<1>11. ASSUME Rights!Wake(t) PROVE RightsInv'
  <2>1. /\ row.at = "waiting" /\ request.decision # "none"
        /\ Rights!Step(t, "refused") \/ Rights!Step(t, "reading")
        /\ UNCHANGED <<levels, grant, pending, rejected, cancel, ran>>
    BY <1>1, <1>2, <1>11 DEF Rights!Wake
  <2> QED BY <1>3, <1>4, <1>6, <2>1 DEF RowOK, Places
<1>12. ASSUME Rights!ReadDecision(t) PROVE RightsInv'
  <2>1. /\ row.at = "reading" /\ UNCHANGED <<levels, grant, pending, cancel, ran>>
        /\ \/ request.decision = "approve" /\ Rights!Step(t, "approved")
           \/ Rights!Step(t, "refused")
    BY <1>1, <1>2, <1>12 DEF Rights!ReadDecision
  <2>2. rejected' \in [Tasks -> SUBSET Rights!Calls]
    <3>1. row.call \in Rights!Calls
      BY <1>4, <2>1 DEF RowOK
    <3>2. PICK more \in SUBSET Rights!Calls : rejected' = [rejected EXCEPT ![t] = more]
      BY <1>1, <1>3, <1>12, <3>1 DEF Rights!ReadDecision
    <3> QED BY <1>3, <3>2
  <2> QED BY <1>4, <1>6, <2>1, <2>2 DEF RowOK, Places
<1>13. ASSUME Rights!TakeDown(t) PROVE RightsInv'
  <2>1. /\ row.at \in {"refused", "approved"} /\ UNCHANGED <<levels, grant, rejected, cancel, ran>>
        /\ pending' = [pending EXCEPT ![t] = Rights!NoRequest]
        /\ \/ row.at = "approved" /\ Rights!Step(t, "cleared")
           \/ check' = [check EXCEPT ![t] = Rights!NoCheck]
    BY <1>1, <1>13 DEF Rights!TakeDown, Rights!Refuse
  <2>2. rejected' \in [Tasks -> SUBSET Rights!Calls]
    BY <1>3, <2>1
  <2>3. CASE check' = [check EXCEPT ![t] = Rights!NoCheck]
    BY <2>1, <2>2, <2>3, NothingAsked, StepKeepsRights
  <2>4. CASE row.at = "approved" /\ Rights!Step(t, "cleared")
    <3>1. PICK new \in CheckRow :
              /\ new = [row EXCEPT !.at = "cleared"]
              /\ new.at = "cleared" /\ new.call = row.call /\ new.word = row.word
      BY <1>5 DEF Places
    <3>2. check' = [check EXCEPT ![t] = new]
      BY <1>1, <2>4, <3>1 DEF Rights!Step
    <3>3. RowOK(t, grant[t], new, Rights!NoRequest)
      BY <1>4, <2>4, <3>1, NothingAsked DEF RowOK, Suffices
    <3> QED BY <2>1, <2>2, <3>1, <3>2, <3>3, NothingAsked, StepKeepsRights
  <2> QED BY <2>1, <2>3, <2>4
<1>14. ASSUME Rights!Run(t) PROVE RightsInv'
  <2>1. /\ row.at = "cleared" /\ check' = [check EXCEPT ![t] = Rights!NoCheck]
        /\ UNCHANGED <<levels, grant, pending, rejected, cancel>>
    BY <1>1, <1>14 DEF Rights!Run, Rights!Refuse
  <2>2. PICK run : run = [task |-> t, call |-> row.call, under |-> grant[t], word |-> row.word]
    OBVIOUS
  <2>3. /\ run.task = t /\ run.call = row.call /\ run.under = grant[t] /\ run.word = row.word
        /\ ran' = Append(ran, run)
    BY <1>1, <1>14, <2>2 DEF Rights!Run
  <2>4. /\ row.call \in Rights!Calls /\ Permits(grant[t], row.call)
        /\ Suffices(t, grant[t], row.call, row.word) /\ request = Rights!NoRequest
    BY <1>4, <2>1 DEF RowOK
  <2>5. run \in RunRow
    BY <1>3, <2>2, <2>4 DEF RunRow, CheckRow
  <2>6. check' \in [Tasks -> CheckRow] /\ pending' \in [Tasks -> RequestRow] /\ ChecksOK'
    BY <1>3, <2>1, <2>4, NothingAsked, RowPut
  <2>7. /\ ran \in Seq(RunRow) /\ ran' \in Seq(RunRow) /\ Len(ran') = Len(ran) + 1
        /\ \A k \in 1..Len(ran) : ran'[k] = ran[k]
        /\ ran'[Len(ran) + 1] = run
    BY <2>3, <2>5 DEF RightsInv, RightsTyped
  <2>8. ASSUME NEW k \in 1..Len(ran')
        PROVE  /\ Permits(ran'[k].under, ran'[k].call)
               /\ Suffices(ran'[k].task, ran'[k].under, ran'[k].call, ran'[k].word)
    <3>1. CASE k \in 1..Len(ran)
      BY <2>7, <3>1 DEF RightsInv, RunsOK
    <3>2. CASE k = Len(ran) + 1
      BY <2>3, <2>4, <2>7, <3>2
    <3>3. Len(ran) \in Nat
      BY <2>7
    <3> QED BY <2>7, <3>1, <3>2, <3>3
  <2>9. RunsOK'
    BY <2>1, <2>8 DEF RunsOK, Permits, Suffices
  <2> QED BY <2>1, <2>6, <2>7, <2>9 DEF RightsInv, RightsTyped
<1> QED BY <1>7, <1>8, <1>9, <1>10, <1>11, <1>12, <1>13, <1>14

(* Every reachable state keeps the levels, the grants, the calls on their  *)
(* way and those that ran in the relation RightsInv states.                *)
THEOREM RightsInvariance ==
    ASSUME Rights!PermissionsAssumption
    PROVE  Rights!PermissionsSpec => []RightsInv
<1>1. ASSUME RightsInv, [Rights!PermissionsNext]_Rights!permissionVars PROVE RightsInv'
  <2>1. CASE Rights!PermissionsNext
    BY <1>1, <2>1, UserKeepsRights, TaskKeepsRights DEF Rights!PermissionsNext
  <2>2. CASE UNCHANGED Rights!permissionVars
    BY <1>1, <2>2 DEF Rights!permissionVars, RightsInv, RightsTyped, ChecksOK, RowOK, RunsOK,
                      Permits, Suffices
  <2> QED BY <1>1, <2>1, <2>2
<1> QED BY <1>1, RightsStart, PTL DEF Rights!PermissionsSpec

(* What was executed was allowed by the level its task was authorized      *)
(* under, and where that level or its host asks for a word, the user       *)
(* approved this very call, however the level moved, whoever timed out and *)
(* whenever the host began again.                                          *)
THEOREM RunsStayAllowed ==
    ASSUME Rights!PermissionsAssumption
    PROVE  Rights!PermissionsSpec => []Rights!RunsAreAllowed
<1>1. RightsInv => Rights!RunsAreAllowed
  BY DEF RightsInv, RunsOK, Permits, Suffices, Rights!RunsAreAllowed
<1> QED BY <1>1, RightsInvariance, PTL

-----------------------------------------------------------------------------
(* The user's word.  Requests are on disk and outlive the process; slices, *)
(* and what a message stands for, do not.  A request is asked once, is     *)
(* taken from the queue as it is answered, and its calls are in one place  *)
(* at most from then on: the message that approved them, or one work.      *)

RequestIn == [task : Tasks, ask : Asks, work : Words!Works, old : BOOLEAN]
Statuses == {"none", "queued", "running", "asking", "waiting", "over", "canceled"}

WordsTyped ==
    /\ queue \in Seq(RequestIn) /\ live \subseteq Words!Works
    /\ record \in [Words!Works -> [status : Statuses, cancel : BOOLEAN]]
    /\ carries \in [Words!Works -> SUBSET Words!AskedFor]
    /\ turn \in [at : {"idle", "chat", "consent", "approved"}, head : RequestIn \cup {<<>>}]
    /\ said \in [Words!AskedFor -> {"nothing", "yes", "no"}]
    /\ ran \in [Words!AskedFor -> {0, 1}] /\ lives \subseteq Words!AskedFor

(* What waits was not answered, is there once, and was asked for by a work *)
(* that exists: if that work has its slice, in this life of the process.   *)
Waits(r) ==
    /\ said[Words!Name(r)] = "nothing"
    /\ record[r.work].status # "none"
    /\ r.work \in live => Words!Name(r) \in lives

QueueOK ==
    /\ \A k \in 1..Len(queue) : Waits(queue[k])
    /\ \A j, k \in 1..Len(queue) : Words!Name(queue[j]) = Words!Name(queue[k]) => j = k

(* What was approved and not executed yet.                                 *)
Approved(r) == said[r] = "yes" /\ ran[r] = 0 /\ r \in lives

CarriesOK ==
    /\ \A r \in Words!AskedFor : ran[r] = 1 => said[r] = "yes"
    /\ \A w \in Words!Works : \A r \in carries[w] : Approved(r)
    /\ \A v, w \in Words!Works : v # w => carries[v] \cap carries[w] = {}

(* The message being handled is about the first request; or has just       *)
(* approved one that nobody executes yet.                                  *)
First(r) ==
    /\ queue # <<>> /\ Words!Name(queue[1]) = Words!Name(r) /\ queue[1].work = r.work
    /\ Words!Name(r) \in lives

Held(r) ==
    /\ Approved(Words!Name(r))
    /\ \A w \in Words!Works : Words!Name(r) \notin carries[w]

TurnOK ==
    /\ turn.at \in {"consent", "approved"} => turn.head \in RequestIn
    /\ turn.at = "consent" => First(turn.head)
    /\ turn.at = "approved" => Held(turn.head)

WordsInv == WordsTyped /\ QueueOK /\ CarriesOK /\ TurnOK

LEMMA WordsStart ==
    ASSUME Words!ApprovalsAssumption, Words!ApprovalsInit
    PROVE  WordsInv
<1>1. queue = <<>> /\ live = {} /\ lives = {} /\ turn = [at |-> "idle", head |-> <<>>]
  BY DEF Words!ApprovalsInit, Words!Idle
<1>2. /\ record \in [Words!Works -> [status : Statuses, cancel : BOOLEAN]]
      /\ carries \in [Words!Works -> SUBSET Words!AskedFor]
      /\ \A w \in Words!Works : carries[w] = {}
  BY DEF Words!ApprovalsInit, Words!NoWork, Statuses
<1>3. /\ said \in [Words!AskedFor -> {"nothing", "yes", "no"}]
      /\ ran \in [Words!AskedFor -> {0, 1}] /\ \A r \in Words!AskedFor : ran[r] = 0
  BY DEF Words!ApprovalsInit
<1>4. WordsTyped
  BY <1>1, <1>2, <1>3 DEF WordsTyped
<1>5. QueueOK /\ CarriesOK /\ TurnOK
  BY <1>1, <1>2, <1>3 DEF QueueOK, CarriesOK, TurnOK
<1> QED BY <1>4, <1>5 DEF WordsInv

(* What most steps leave true: a record is not forgotten, and whoever has  *)
(* a slice now had one or is new.                                          *)
RecordsStay ==
    \A w \in Words!Works :
        record[w].status # "none" => /\ record'[w].status # "none"
                                     /\ w \in live' => w \in live

CarriesShrink == \A w \in Words!Works : carries'[w] \subseteq carries[w]

LEMMA Named ==
    ASSUME WordsTyped
    PROVE  /\ \A r \in RequestIn : Words!Name(r) \in Words!AskedFor /\ r.work \in Words!Works
           /\ \A k \in 1..Len(queue) : queue[k] \in RequestIn
           /\ Len(queue) \in Nat
<1>1. \A r \in RequestIn : r.task \in Tasks /\ r.ask \in Asks /\ r.work \in Words!Works
  BY DEF RequestIn
<1>2. \A r \in RequestIn : Words!Name(r) \in Words!AskedFor
  BY <1>1 DEF Words!Name, Words!AskedFor
<1>3. queue \in Seq(RequestIn)
  BY DEF WordsTyped
<1> HIDE DEF RequestIn
<1> QED BY <1>1, <1>2, <1>3

LEMMA QueueIs ==
    ASSUME \A k \in 1..Len(queue') : \A r : r = queue'[k] => Waits(r)',
           \A j, k \in 1..Len(queue') :
               Words!Name(queue'[j]) = Words!Name(queue'[k]) => j = k
    PROVE  QueueOK'
<1>1. ASSUME NEW k \in 1..Len(queue') PROVE Waits(queue[k])'
  BY DEF Waits, Words!Name
<1> QED BY <1>1 DEF QueueOK, Words!Name

LEMMA WaitStays ==
    ASSUME NEW r \in RequestIn, r.work \in Words!Works, Waits(r), RecordsStay,
           lives \subseteq lives', said'[Words!Name(r)] = said[Words!Name(r)]
    PROVE  Waits(r)'
<1>1. Words!Name(r)' = Words!Name(r)
  BY DEF Words!Name
<1> QED BY <1>1 DEF Waits, RecordsStay

LEMMA QueueStays ==
    ASSUME WordsTyped, QueueOK, RecordsStay, lives \subseteq lives', said' = said, queue' = queue
    PROVE  QueueOK'
<1>1. ASSUME NEW k \in 1..Len(queue), NEW r, r = queue[k] PROVE Waits(r)'
  BY <1>1, Named, WaitStays DEF QueueOK
<1>2. \A j, k \in 1..Len(queue) : Words!Name(queue[j]) = Words!Name(queue[k]) => j = k
  BY DEF QueueOK
<1> QED BY <1>1, <1>2, QueueIs

LEMMA CarriesStay ==
    ASSUME WordsTyped, CarriesOK, CarriesShrink, lives \subseteq lives',
           said' = said, ran' = ran
    PROVE  CarriesOK'
<1>1. \A r : Approved(r) => Approved(r)'
  BY DEF Approved
<1> QED BY <1>1 DEF CarriesOK, CarriesShrink

LEMMA SameTurn ==
    ASSUME TurnOK, turn' = turn,
           \A r \in RequestIn : /\ First(r) => First(r)'
                                /\ Held(r) => Held(r)'
    PROVE  TurnOK'
<1>1. CASE turn.head \in RequestIn
  <2>1. PICK r \in RequestIn : r = turn.head
    BY <1>1
  <2>2. turn'.head = r
    BY <2>1
  <2>3. (First(r)' => First(turn.head)') /\ (Held(r)' => Held(turn.head)')
    BY <2>2 DEF First, Held, Approved, Words!Name
  <2> QED BY <2>1, <2>2, <2>3 DEF TurnOK
<1>2. CASE turn.head \notin RequestIn
  BY <1>2 DEF TurnOK
<1> QED BY <1>1, <1>2

LEMMA TurnStays ==
    ASSUME TurnOK, CarriesShrink, lives \subseteq lives', said' = said, ran' = ran, turn' = turn,
           queue # <<>> => /\ queue' # <<>> /\ Words!Name(queue'[1]) = Words!Name(queue[1])
                           /\ queue'[1].work = queue[1].work
    PROVE  TurnOK'
<1>1. \A r : Words!Name(r)' = Words!Name(r) /\ (Approved(r) => Approved(r)')
  BY DEF Words!Name, Approved
<1>2. ASSUME NEW r \in RequestIn, First(r) PROVE First(r)'
  <2>1. /\ queue' # <<>> /\ Words!Name(queue'[1]) = Words!Name(r) /\ queue'[1].work = r.work
        /\ Words!Name(r) \in lives'
    BY <1>2 DEF First
  <2> QED BY <2>1 DEF First, Words!Name
<1>3. ASSUME NEW r \in RequestIn, Held(r) PROVE Held(r)'
  BY <1>1, <1>3 DEF Held, CarriesShrink
<1> QED BY <1>2, <1>3, SameTurn

LEMMA StepBeside ==
    ASSUME WordsInv, WordsTyped', RecordsStay, CarriesShrink,
           UNCHANGED <<queue, turn, said, ran, lives>>
    PROVE  WordsInv'
BY QueueStays, CarriesStay, TurnStays DEF WordsInv

(* A work's record is replaced.                                            *)
Record == [status : Statuses, cancel : BOOLEAN]

LEMMA RecordPut ==
    ASSUME WordsTyped, NEW w \in Words!Works, NEW new \in Record,
           record' = [record EXCEPT ![w] = new],
           record[w].status # "none" => new.status # "none"
    PROVE  /\ record' \in [Words!Works -> Record]
           /\ \A v \in Words!Works : record[v].status # "none" => record'[v].status # "none"
<1>1. record \in [Words!Works -> Record]
  BY DEF WordsTyped, Record
<1>2. record' \in [Words!Works -> Record] /\ record'[w] = new
      /\ \A v \in Words!Works \ {w} : record'[v] = record[v]
  BY <1>1
<1> QED BY <1>2

LEMMA Becoming ==
    ASSUME WordsTyped, NEW w \in Words!Works, NEW status \in Statuses \ {"none"},
           Words!Becomes(w, status)
    PROVE  /\ record' \in [Words!Works -> Record]
           /\ \A v \in Words!Works : record[v].status # "none" => record'[v].status # "none"
<1>1. PICK row \in Record : row = record[w]
  BY DEF WordsTyped, Record
<1>2. PICK new : new = [row EXCEPT !.status = status]
  OBVIOUS
<1>3. new \in Record /\ new.status = status
  BY <1>2 DEF Record
<1>4. record' = [record EXCEPT ![w] = new]
  BY <1>1, <1>2 DEF Words!Becomes
<1> QED BY <1>3, <1>4, RecordPut

LEMMA Canceling ==
    ASSUME WordsTyped, NEW w \in Words!Works, Words!Canceled(w)
    PROVE  /\ record' \in [Words!Works -> Record]
           /\ \A v \in Words!Works : record[v].status # "none" => record'[v].status # "none"
<1>1. PICK row \in Record : row = record[w]
  BY DEF WordsTyped, Record
<1>2. PICK new :
          new = [status |-> IF row.status \in {"queued", "waiting"} THEN "canceled" ELSE row.status,
                 cancel |-> row.cancel \/ row.status \in {"queued", "waiting", "running", "asking"}]
  OBVIOUS
<1>3. new \in Record /\ (row.status # "none" => new.status # "none")
  <2>1. row.status \in Statuses /\ row.cancel \in BOOLEAN
    BY DEF Record
  <2>2. (row.cancel \/ row.status \in {"queued", "waiting", "running", "asking"}) \in BOOLEAN
    OBVIOUS
  <2> QED BY <1>2, <2>1, <2>2 DEF Record, Statuses
<1>4. record' = [record EXCEPT ![w] = new]
  BY <1>1, <1>2 DEF Words!Canceled
<1> QED BY <1>1, <1>3, <1>4, RecordPut

(* The steps of a work, and of what looks after slices and requests.       *)
LEMMA WorkKeepsWords ==
    ASSUME WordsInv, NEW w \in Words!Works
    PROVE  /\ Words!StartWork(w) => WordsInv'
           /\ Words!RunApproved(w) => WordsInv'
           /\ Words!Ask(w) => WordsInv'
           /\ Words!EndWork(w) => WordsInv'
           /\ Words!PruneSlice(w) => WordsInv'
<1>. USE DEF WordsInv
<1>1. ASSUME Words!StartWork(w) PROVE WordsInv'
  <2>1. Words!Becomes(w, "running") /\ UNCHANGED <<queue, live, carries, turn, said, ran, lives>>
    BY <1>1 DEF Words!StartWork, Words!History
  <2>2. /\ record' \in [Words!Works -> Record]
        /\ \A v \in Words!Works : record[v].status # "none" => record'[v].status # "none"
    BY <2>1, Becoming DEF Statuses
  <2>3. WordsTyped'
    BY <2>1, <2>2 DEF WordsTyped, Record
  <2> QED BY <2>1, <2>2, <2>3, StepBeside DEF RecordsStay, CarriesShrink
<1>2. ASSUME Words!EndWork(w) PROVE WordsInv'
  <2>1. /\ carries' = [carries EXCEPT ![w] = {}] /\ UNCHANGED <<queue, turn, said, ran, lives>>
        /\ live' \subseteq live
    BY <1>2 DEF Words!EndWork, Words!History
  <2>2. /\ record' \in [Words!Works -> Record]
        /\ \A v \in Words!Works : record[v].status # "none" => record'[v].status # "none"
    <3>1. PICK status \in Statuses \ {"none"} : Words!Becomes(w, status)
      BY <1>2 DEF Words!EndWork, Statuses
    <3> QED BY <3>1, Becoming
  <2>3. /\ carries' \in [Words!Works -> SUBSET Words!AskedFor] /\ CarriesShrink
    BY <2>1 DEF WordsTyped, CarriesShrink
  <2>4. WordsTyped'
    BY <2>1, <2>2, <2>3 DEF WordsTyped, Record
  <2> QED BY <2>1, <2>2, <2>3, <2>4, StepBeside DEF RecordsStay
<1>3. ASSUME Words!PruneSlice(w) PROVE WordsInv'
  <2>1. live' \subseteq live /\ UNCHANGED <<queue, record, carries, turn, said, ran, lives>>
    BY <1>3 DEF Words!PruneSlice, Words!History
  <2>2. WordsTyped'
    BY <2>1 DEF WordsTyped
  <2> QED BY <2>1, <2>2, StepBeside DEF RecordsStay, CarriesShrink
<1>4. ASSUME Words!RunApproved(w) PROVE WordsInv'
  <2>1. /\ carries' = [carries EXCEPT ![w] = {}]
        /\ ran' = [r \in Words!AskedFor |-> IF r \in carries[w] THEN ran[r] + 1 ELSE ran[r]]
        /\ UNCHANGED <<queue, live, record, turn, said, lives>>
    BY <1>4 DEF Words!RunApproved
  <2>2. /\ carries' \in [Words!Works -> SUBSET Words!AskedFor] /\ carries'[w] = {}
        /\ \A v \in Words!Works \ {w} : carries'[v] = carries[v]
    BY <2>1 DEF WordsTyped
  <2>3. \A r \in carries[w] : r \in Words!AskedFor /\ ran[r] = 0 /\ said[r] = "yes"
    BY DEF WordsTyped, CarriesOK, Approved
  <2>4. /\ ran' \in [Words!AskedFor -> {0, 1}]
        /\ \A r \in Words!AskedFor \ carries[w] : ran'[r] = ran[r]
        /\ \A r \in Words!AskedFor : ran'[r] = 1 => ran[r] = 1 \/ r \in carries[w]
    BY <2>1, <2>3 DEF WordsTyped
  <2>5. \A r \in Words!AskedFor \ carries[w] : Approved(r) => Approved(r)'
    BY <2>1, <2>4 DEF Approved
  <2>6. WordsTyped'
    BY <2>1, <2>2, <2>4 DEF WordsTyped
  <2>7. CarriesOK'
    <3>1. ASSUME NEW v \in Words!Works, NEW r \in carries'[v] PROVE Approved(r)'
      <4>1. v # w /\ r \in carries[v] /\ r \notin carries[w] /\ r \in Words!AskedFor
        BY <2>2, <3>1 DEF CarriesOK, WordsTyped
      <4> QED BY <2>5, <4>1 DEF CarriesOK
    <3>2. \A r \in Words!AskedFor : ran'[r] = 1 => said'[r] = "yes"
      BY <2>1, <2>3, <2>4 DEF CarriesOK
    <3>3. \A u, v \in Words!Works : u # v => carries'[u] \cap carries'[v] = {}
      BY <2>2 DEF CarriesOK
    <3> QED BY <3>1, <3>2, <3>3 DEF CarriesOK
  <2>8. QueueOK'
    BY <2>1, QueueStays DEF RecordsStay
  <2>9. TurnOK'
    <3>1. \A r : Words!Name(r)' = Words!Name(r)
      BY DEF Words!Name
    <3>2. ASSUME NEW r \in RequestIn, First(r) PROVE First(r)'
      BY <2>1, <3>1, <3>2 DEF First, Words!Name
    <3>3. ASSUME NEW r \in RequestIn, Held(r) PROVE Held(r)'
      <4>1. \A v \in Words!Works : carries'[v] \subseteq carries[v]
        BY <2>2
      <4>2. Approved(Words!Name(r))'
        BY <2>5, <3>1, <3>3, Named DEF Held
      <4> QED BY <3>1, <3>3, <4>1, <4>2 DEF Held
    <3> QED BY <2>1, <3>2, <3>3, SameTurn
  <2> QED BY <2>6, <2>7, <2>8, <2>9
<1>5. ASSUME Words!Ask(w) PROVE WordsInv'
  <2>1. PICK ask \in Asks :
            /\ \A k \in 1..Len(queue) : Words!Name(queue[k]) # <<w[1], ask>>
            /\ said[<<w[1], ask>>] = "nothing"
            /\ queue' = Append(queue, [task |-> w[1], ask |-> ask, work |-> w, old |-> FALSE])
            /\ lives' = lives \cup {<<w[1], ask>>}
    BY <1>5 DEF Words!Ask
  <2>2. Words!Becomes(w, "asking") /\ UNCHANGED <<live, carries, turn, said, ran>>
    BY <1>5 DEF Words!Ask
  <2>3. PICK new : new = [task |-> w[1], ask |-> ask, work |-> w, old |-> FALSE]
    OBVIOUS
  <2>4. /\ new \in RequestIn /\ new.work = w /\ Words!Name(new) = <<w[1], ask>>
        /\ <<w[1], ask>> \in Words!AskedFor
    <3>1. w[1] \in Tasks
      BY DEF Words!Works
    <3> QED BY <2>3, <3>1 DEF RequestIn, Words!Name, Words!AskedFor
  <2>5. /\ queue \in Seq(RequestIn) /\ queue' \in Seq(RequestIn) /\ Len(queue') = Len(queue) + 1
        /\ Len(queue) \in Nat
        /\ \A k \in 1..Len(queue) : queue'[k] = queue[k]
        /\ queue'[Len(queue) + 1] = new
    <3>1. queue \in Seq(RequestIn) /\ queue' = Append(queue, new)
      BY <2>1, <2>3 DEF WordsTyped
    <3> HIDE DEF RequestIn
    <3> QED BY <2>4, <3>1
  <2>6. /\ record' \in [Words!Works -> Record]
        /\ \A v \in Words!Works : record[v].status # "none" => record'[v].status # "none"
        /\ record'[w].status = "asking"
    <3>1. record'[w].status = "asking"
      BY <2>2 DEF Words!Becomes, WordsTyped
    <3> QED BY <2>2, <3>1, Becoming DEF Statuses
  <2>7. WordsTyped'
    BY <2>1, <2>2, <2>4, <2>5, <2>6 DEF WordsTyped, Record
  <2>8. CarriesOK'
    BY <2>1, <2>2, CarriesStay DEF CarriesShrink
  <2>9. QueueOK'
    <3>1. ASSUME NEW k \in 1..Len(queue'), NEW r, r = queue'[k] PROVE Waits(r)'
      <4>1. CASE k \in 1..Len(queue)
        BY <2>1, <2>2, <2>5, <2>6, <3>1, <4>1, Named, WaitStays DEF QueueOK, RecordsStay
      <4>2. CASE k = Len(queue) + 1
        BY <2>1, <2>2, <2>4, <2>5, <2>6, <3>1, <4>2 DEF Waits, Words!Name
      <4> QED BY <2>5, <4>1, <4>2
    <3>2. ASSUME NEW j \in 1..Len(queue'), NEW k \in 1..Len(queue'),
                 Words!Name(queue'[j]) = Words!Name(queue'[k])
          PROVE  j = k
      <4>1. CASE j \in 1..Len(queue) /\ k \in 1..Len(queue)
        BY <2>5, <3>2, <4>1 DEF QueueOK
      <4>2. CASE j \in 1..Len(queue) /\ k = Len(queue) + 1
        BY <2>1, <2>4, <2>5, <3>2, <4>2
      <4>3. CASE j = Len(queue) + 1 /\ k \in 1..Len(queue)
        BY <2>1, <2>4, <2>5, <3>2, <4>3
      <4> QED BY <2>5, <4>1, <4>2, <4>3
    <3> QED BY <3>1, <3>2, QueueIs
  <2>10. TurnOK'
    BY <2>1, <2>2, <2>5, TurnStays DEF CarriesShrink
  <2> QED BY <2>7, <2>8, <2>9, <2>10
<1> QED BY <1>1, <1>2, <1>3, <1>4, <1>5

(* The first request is taken away.                                        *)
LEMMA QueueTail ==
    ASSUME WordsTyped, QueueOK, queue # <<>>, queue' = Tail(queue), RecordsStay,
           lives \subseteq lives',
           \A r \in RequestIn :
               Words!Name(r) # Words!Name(queue[1]) => said'[Words!Name(r)] = said[Words!Name(r)]
    PROVE  queue' \in Seq(RequestIn) /\ QueueOK'
<1>1. /\ queue \in Seq(RequestIn) /\ queue' \in Seq(RequestIn)
      /\ Len(queue) \in Nat /\ Len(queue) >= 1 /\ Len(queue') = Len(queue) - 1
      /\ \A k \in 1..Len(queue') : queue'[k] = queue[k + 1] /\ k + 1 \in 1..Len(queue)
  <2>1. queue \in Seq(RequestIn)
    BY DEF WordsTyped
  <2> HIDE DEF RequestIn
  <2> QED BY <2>1
<1>2. ASSUME NEW k \in 1..Len(queue'), NEW r, r = queue'[k] PROVE Waits(r)'
  <2>1. r = queue[k + 1] /\ k + 1 \in 1..Len(queue) /\ k + 1 # 1
    BY <1>1, <1>2
  <2>2. r \in RequestIn /\ Waits(r) /\ 1 \in 1..Len(queue)
    BY <1>1, <2>1, Named DEF QueueOK
  <2>3. Words!Name(r) # Words!Name(queue[1])
    BY <2>1, <2>2 DEF QueueOK
  <2> QED BY <2>2, <2>3, Named, WaitStays
<1>3. ASSUME NEW j \in 1..Len(queue'), NEW k \in 1..Len(queue'),
             Words!Name(queue'[j]) = Words!Name(queue'[k])
      PROVE  j = k
  <2>1. j + 1 = k + 1
    BY <1>1, <1>3 DEF QueueOK
  <2> QED BY <1>1, <2>1
<1> QED BY <1>1, <1>2, <1>3, QueueIs

(* The first request is answered.                                          *)
LEMMA Answered ==
    ASSUME WordsTyped, QueueOK, CarriesOK, RecordsStay, NEW r \in RequestIn, First(r),
           NEW word \in {"yes", "no"}, said' = [said EXCEPT ![Words!Name(r)] = word],
           queue' = Tail(queue), UNCHANGED <<carries, ran, lives>>
    PROVE  /\ queue' \in Seq(RequestIn) /\ QueueOK' /\ CarriesOK'
           /\ said' \in [Words!AskedFor -> {"nothing", "yes", "no"}]
           /\ word = "yes" => Held(r)'
<1>1. /\ Words!Name(r) \in Words!AskedFor /\ Words!Name(r) \in lives
      /\ queue # <<>> /\ Words!Name(queue[1]) = Words!Name(r)
  BY Named DEF First
<1>2. /\ said' \in [Words!AskedFor -> {"nothing", "yes", "no"}] /\ said'[Words!Name(r)] = word
      /\ \A n \in Words!AskedFor : n # Words!Name(r) => said'[n] = said[n]
  BY <1>1 DEF WordsTyped
<1>3. queue' \in Seq(RequestIn) /\ QueueOK'
  BY <1>1, <1>2, Named, QueueTail
<1>4. said[Words!Name(r)] = "nothing"
  <2>1. 1 \in 1..Len(queue)
    BY <1>1 DEF WordsTyped
  <2> QED BY <1>1, <2>1 DEF QueueOK, Waits
<1>5. ran[Words!Name(r)] = 0
  BY <1>1, <1>4 DEF WordsTyped, CarriesOK
<1>6. ASSUME NEW w \in Words!Works, NEW n \in carries[w]
      PROVE  n \in Words!AskedFor /\ n # Words!Name(r) /\ Approved(n)'
  <2>1. n \in Words!AskedFor /\ Approved(n)
    BY <1>6 DEF WordsTyped, CarriesOK
  <2>2. n # Words!Name(r)
    BY <1>4, <2>1 DEF Approved
  <2> QED BY <1>2, <2>1, <2>2 DEF Approved
<1>7. CarriesOK'
  <2>1. \A n \in Words!AskedFor : ran'[n] = 1 => said'[n] = "yes"
    BY <1>2, <1>5 DEF CarriesOK
  <2>2. \A w \in Words!Works : \A n \in carries'[w] : Approved(n)'
    BY <1>6
  <2>3. \A v, w \in Words!Works : v # w => carries'[v] \cap carries'[w] = {}
    BY DEF CarriesOK
  <2> QED BY <2>1, <2>2, <2>3 DEF CarriesOK
<1>8. word = "yes" => Held(r)'
  <2>1. word = "yes" => Approved(Words!Name(r))'
    BY <1>1, <1>2, <1>5 DEF Approved, Words!Name
  <2>2. \A w \in Words!Works : Words!Name(r) \notin carries'[w]
    BY <1>6
  <2> QED BY <2>1, <2>2 DEF Held, Words!Name
<1> QED BY <1>2, <1>3, <1>7, <1>8

(* A work is begun, or goes on, with calls that were approved and are in   *)
(* nobody's hands.                                                         *)
LEMMA Enqueued ==
    ASSUME WordsTyped, QueueOK, CarriesOK, NEW w \in Words!Works,
           NEW given \in SUBSET Words!AskedFor,
           \A n \in given : Approved(n) /\ \A v \in Words!Works : n \notin carries[v],
           Words!Enqueue(w, given), w \in live \/ record[w].status = "none",
           UNCHANGED <<queue, said, ran, lives>>
    PROVE  /\ record' \in [Words!Works -> Record] /\ live' \subseteq Words!Works
           /\ carries' \in [Words!Works -> SUBSET Words!AskedFor]
           /\ QueueOK' /\ CarriesOK'
<1>1. PICK new \in Record : /\ new.status = "queued"
                            /\ record' = [record EXCEPT ![w] = new]
  <2>1. PICK new : new = [status |-> "queued", cancel |-> FALSE]
    OBVIOUS
  <2>2. new \in Record /\ new.status = "queued"
    BY <2>1 DEF Record, Statuses
  <2>3. record' = [record EXCEPT ![w] = new]
    BY <2>1 DEF Words!Enqueue
  <2> QED BY <2>2, <2>3
<1>2. /\ record' \in [Words!Works -> Record]
      /\ \A v \in Words!Works : record[v].status # "none" => record'[v].status # "none"
  BY <1>1, RecordPut
<1>3. live' = live \cup {w} /\ live' \subseteq Words!Works
  BY DEF Words!Enqueue, WordsTyped
<1>4. RecordsStay
  BY <1>2, <1>3 DEF RecordsStay
<1>5. /\ carries' \in [Words!Works -> SUBSET Words!AskedFor] /\ carries'[w] = given
      /\ \A v \in Words!Works \ {w} : carries'[v] = carries[v]
  BY DEF Words!Enqueue, WordsTyped
<1>6. \A n : Approved(n) => Approved(n)'
  BY DEF Approved
<1>7. CarriesOK'
  <2>1. \A n \in Words!AskedFor : ran'[n] = 1 => said'[n] = "yes"
    BY DEF CarriesOK
  <2>2. \A v \in Words!Works : \A n \in carries'[v] : Approved(n)'
    BY <1>5, <1>6 DEF CarriesOK
  <2>3. \A u, v \in Words!Works : u # v => carries'[u] \cap carries'[v] = {}
    BY <1>5 DEF CarriesOK
  <2> QED BY <2>1, <2>2, <2>3 DEF CarriesOK
<1> QED BY <1>2, <1>3, <1>4, <1>5, <1>7, QueueStays

LEMMA IdleTurn ==
    ASSUME turn' = Words!Idle
    PROVE  /\ turn' \in [at : {"idle", "chat", "consent", "approved"}, head : RequestIn \cup {<<>>}]
           /\ TurnOK'
<1>1. turn'.at = "idle" /\ turn' = [at |-> "idle", head |-> <<>>]
  BY DEF Words!Idle
<1> QED BY <1>1 DEF TurnOK

LEMMA OneReplaced ==
    ASSUME NEW S, NEW s \in Seq(S), NEW i \in 1..Len(s), NEW e \in S,
           NEW q, q = [s EXCEPT ![i] = e]
    PROVE  /\ q \in Seq(S) /\ Len(q) = Len(s)
           /\ \A j \in 1..Len(s) : q[j] = IF j = i THEN e ELSE s[j]
BY ExceptSeq

(* The steps of a message, of the clock and of the process.                *)
LEMMA MessageKeepsWords ==
    ASSUME WordsInv
    PROVE  /\ Words!Chat => WordsInv'
           /\ \A t \in Tasks : Words!ChatEnds(t) => WordsInv'
           /\ Words!Look => WordsInv'
           /\ Words!Unclear => WordsInv'
           /\ Words!Deny => WordsInv'
           /\ Words!Approve => WordsInv'
           /\ Words!Resume => WordsInv'
           /\ Words!Age => WordsInv'
           /\ Words!RestartBot => WordsInv'
<1>. USE DEF WordsInv
<1>1. ASSUME Words!Chat PROVE WordsInv'
  <2>1. /\ turn' = [Words!Idle EXCEPT !.at = "chat"]
        /\ UNCHANGED <<queue, live, record, carries, said, ran, lives>>
    BY <1>1 DEF Words!Chat, Words!History
  <2>2. /\ turn' = [at |-> "chat", head |-> <<>>] /\ turn'.at = "chat"
    BY <2>1 DEF Words!Idle
  <2>a. turn' \in [at : {"idle", "chat", "consent", "approved"}, head : RequestIn \cup {<<>>}]
    BY <2>2
  <2>3. WordsTyped'
    BY <2>1, <2>a DEF WordsTyped
  <2>4. QueueOK' /\ CarriesOK'
    BY <2>1, QueueStays, CarriesStay DEF RecordsStay, CarriesShrink
  <2>5. TurnOK'
    BY <2>2 DEF TurnOK
  <2> QED BY <2>3, <2>4, <2>5
<1>2. ASSUME NEW t \in Tasks, Words!ChatEnds(t) PROVE WordsInv'
  <2>1. turn' = Words!Idle /\ UNCHANGED <<queue, said, ran, lives>>
    BY <1>2 DEF Words!ChatEnds, Words!History
  <2>2. ASSUME NEW n \in WorkIds, record[<<t, n>>] = Words!NoWork, Words!Enqueue(<<t, n>>, {})
        PROVE  WordsInv'
    <3>1. <<t, n>> \in Words!Works /\ record[<<t, n>>].status = "none"
      BY <2>2 DEF Words!Works, Words!NoWork
    <3>2. /\ record' \in [Words!Works -> Record] /\ live' \subseteq Words!Works
          /\ carries' \in [Words!Works -> SUBSET Words!AskedFor]
          /\ QueueOK' /\ CarriesOK'
      BY <2>1, <2>2, <3>1, Enqueued
    <3> QED BY <2>1, <3>2, IdleTurn DEF WordsTyped, Record
  <2>3. ASSUME NEW n \in WorkIds, Words!Canceled(<<t, n>>), live' \subseteq live,
               UNCHANGED carries
        PROVE  WordsInv'
    <3>1. /\ record' \in [Words!Works -> Record]
          /\ \A v \in Words!Works : record[v].status # "none" => record'[v].status # "none"
      <4>1. <<t, n>> \in Words!Works
        BY DEF Words!Works
      <4> QED BY <2>3, <4>1, Canceling
    <3>2. QueueOK' /\ CarriesOK'
      BY <2>1, <2>3, <3>1, QueueStays, CarriesStay DEF RecordsStay, CarriesShrink
    <3> QED BY <2>1, <2>3, <3>1, <3>2, IdleTurn DEF WordsTyped, Record
  <2> QED BY <1>2, <2>2, <2>3 DEF Words!ChatEnds
<1>3. ASSUME Words!Look PROVE WordsInv'
  <2>1. /\ turn = Words!Idle /\ queue # <<>>
        /\ UNCHANGED <<live, record, carries, said, ran, lives>>
        /\ \/ queue' = Tail(queue) /\ UNCHANGED turn
           \/ /\ Head(queue).work \in live /\ turn' = [at |-> "consent", head |-> Head(queue)]
              /\ UNCHANGED queue
    BY <1>3 DEF Words!Look, Words!Rest, Words!History
  <2>2. CarriesOK'
    BY <2>1, CarriesStay DEF CarriesShrink
  <2>3. CASE queue' = Tail(queue) /\ UNCHANGED turn
    <3>1. queue' \in Seq(RequestIn) /\ QueueOK'
      BY <2>1, <2>3, QueueTail DEF RecordsStay
    <3>2. TurnOK'
      BY <2>1, <2>3, IdleTurn
    <3> QED BY <2>1, <2>2, <2>3, <3>1, <3>2 DEF WordsTyped
  <2>4. CASE /\ Head(queue).work \in live /\ turn' = [at |-> "consent", head |-> Head(queue)]
             /\ UNCHANGED queue
    <3>1. 1 \in 1..Len(queue) /\ Head(queue) = queue[1]
      BY <2>1 DEF WordsTyped
    <3>2. PICK r \in RequestIn : r = queue[1]
      BY <3>1, Named
    <3>3. turn' = [at |-> "consent", head |-> r] /\ turn'.at = "consent" /\ turn'.head = r
      BY <2>4, <3>1, <3>2
    <3>4. Words!Name(r) \in lives
      BY <2>4, <3>1, <3>2 DEF QueueOK, Waits
    <3>5. TurnOK'
      BY <2>1, <2>4, <3>2, <3>3, <3>4 DEF TurnOK, First, Words!Name
    <3>6. QueueOK'
      BY <2>1, <2>4, QueueStays DEF RecordsStay
    <3>7. WordsTyped'
      BY <2>1, <2>4, <3>3 DEF WordsTyped
    <3> QED BY <2>2, <3>5, <3>6, <3>7
  <2> QED BY <2>1, <2>3, <2>4
<1>4. ASSUME Words!Unclear PROVE WordsInv'
  <2>1. turn' = Words!Idle /\ UNCHANGED <<queue, live, record, carries, said, ran, lives>>
    BY <1>4 DEF Words!Unclear, Words!History
  <2>2. QueueOK' /\ CarriesOK'
    BY <2>1, QueueStays, CarriesStay DEF RecordsStay, CarriesShrink
  <2> QED BY <2>1, <2>2, IdleTurn DEF WordsTyped
<1>5. ASSUME Words!Deny PROVE WordsInv'
  <2>1. /\ turn.at = "consent" /\ turn' = Words!Idle
        /\ said' = [said EXCEPT ![Words!Name(turn.head)] = "no"]
        /\ queue' = Tail(queue) /\ live' = live \ {turn.head.work}
        /\ Words!Canceled(turn.head.work) /\ UNCHANGED <<carries, ran, lives>>
    BY <1>5 DEF Words!Deny, Words!Rest
  <2>2. PICK r \in RequestIn : r = turn.head /\ First(r)
    BY <2>1 DEF TurnOK
  <2>3. /\ record' \in [Words!Works -> Record]
        /\ \A v \in Words!Works : record[v].status # "none" => record'[v].status # "none"
    BY <2>1, <2>2, Named, Canceling
  <2>4. /\ queue' \in Seq(RequestIn) /\ QueueOK' /\ CarriesOK'
        /\ said' \in [Words!AskedFor -> {"nothing", "yes", "no"}]
    BY <2>1, <2>2, <2>3, Answered DEF RecordsStay
  <2> QED BY <2>1, <2>3, <2>4, IdleTurn DEF WordsTyped, Record
<1>6. ASSUME Words!Approve PROVE WordsInv'
  <2>1. /\ turn.at = "consent" /\ turn' = [turn EXCEPT !.at = "approved"]
        /\ said' = [said EXCEPT ![Words!Name(turn.head)] = "yes"]
        /\ queue' = Tail(queue) /\ UNCHANGED <<live, record, carries, ran, lives>>
    BY <1>6 DEF Words!Approve, Words!Rest
  <2>2. PICK r \in RequestIn : r = turn.head /\ First(r)
    BY <2>1 DEF TurnOK
  <2>3. turn' = [at |-> "approved", head |-> r] /\ turn'.at = "approved" /\ turn'.head = r
    BY <2>1, <2>2 DEF WordsTyped
  <2>4. /\ queue' \in Seq(RequestIn) /\ QueueOK' /\ CarriesOK' /\ Held(r)'
        /\ said' \in [Words!AskedFor -> {"nothing", "yes", "no"}]
    BY <2>1, <2>2, Answered DEF RecordsStay
  <2>5. TurnOK'
    <3>1. Held(turn.head)'
      BY <2>3, <2>4 DEF Held, Approved, Words!Name
    <3> QED BY <2>3, <3>1 DEF TurnOK
  <2> QED BY <2>1, <2>3, <2>4, <2>5 DEF WordsTyped
<1>7. ASSUME Words!Resume PROVE WordsInv'
  <2>1. turn.at = "approved" /\ turn' = Words!Idle /\ UNCHANGED <<queue, said, ran, lives>>
    BY <1>7 DEF Words!Resume, Words!History
  <2>2. PICK r \in RequestIn : r = turn.head /\ Held(r)
    BY <2>1 DEF TurnOK
  <2>3. CASE UNCHANGED <<live, record, carries>>
    <3>1. QueueOK' /\ CarriesOK'
      BY <2>1, <2>3, QueueStays, CarriesStay DEF RecordsStay, CarriesShrink
    <3> QED BY <2>1, <2>3, <3>1, IdleTurn DEF WordsTyped
  <2>4. CASE \E v \in {r.task} \X WorkIds :
                /\ IF r.work \in live THEN v = r.work ELSE record[v] = Words!NoWork
                /\ Words!Enqueue(v, {Words!Name(r)})
    <3>1. PICK v \in {r.task} \X WorkIds :
                /\ IF r.work \in live THEN v = r.work ELSE record[v] = Words!NoWork
                /\ Words!Enqueue(v, {Words!Name(r)})
      BY <2>4
    <3>2. v \in Words!Works
      <4>1. r.task \in Tasks
        BY DEF RequestIn
      <4> QED BY <3>1, <4>1 DEF Words!Works
    <3>3. v \in live \/ record[v].status = "none"
      BY <3>1 DEF Words!NoWork
    <3>4. /\ {Words!Name(r)} \in SUBSET Words!AskedFor
          /\ Approved(Words!Name(r)) /\ \A u \in Words!Works : Words!Name(r) \notin carries[u]
      BY <2>2, Named DEF Held
    <3>5. /\ record' \in [Words!Works -> Record] /\ live' \subseteq Words!Works
          /\ carries' \in [Words!Works -> SUBSET Words!AskedFor]
          /\ QueueOK' /\ CarriesOK'
      BY <2>1, <3>1, <3>2, <3>3, <3>4, Enqueued
    <3> QED BY <2>1, <3>5, IdleTurn DEF WordsTyped, Record
  <2> QED BY <1>7, <2>2, <2>3, <2>4 DEF Words!Resume
<1>8. ASSUME Words!Age PROVE WordsInv'
  <2>1. PICK k \in 1..Len(queue) : queue' = [queue EXCEPT ![k].old = TRUE]
    BY <1>8 DEF Words!Age
  <2>2. UNCHANGED <<live, record, carries, turn, said, ran, lives>>
    BY <1>8 DEF Words!Age, Words!History
  <2>3. PICK r \in RequestIn : r = queue[k]
    BY <2>1, Named
  <2>4. PICK new : new = [r EXCEPT !.old = TRUE]
    OBVIOUS
  <2>5. new \in RequestIn /\ Words!Name(new) = Words!Name(r) /\ new.work = r.work
    BY <2>4 DEF RequestIn, Words!Name
  <2>6. queue' = [queue EXCEPT ![k] = new]
    BY <2>1, <2>3, <2>4
  <2>7. /\ queue' \in Seq(RequestIn) /\ Len(queue') = Len(queue)
        /\ \A j \in 1..Len(queue) : queue'[j] = IF j = k THEN new ELSE queue[j]
    <3>1. queue \in Seq(RequestIn)
      BY DEF WordsTyped
    <3>2. new \in RequestIn /\ k \in 1..Len(queue)
      BY <2>1, <2>5
    <3> QED BY <2>6, <3>1, <3>2, OneReplaced
  <2>8. \A j \in 1..Len(queue) : /\ Words!Name(queue'[j]) = Words!Name(queue[j])
                                 /\ queue'[j].work = queue[j].work
    BY <2>3, <2>5, <2>7
  <2>9. QueueOK'
    <3>1. ASSUME NEW j \in 1..Len(queue'), NEW s, s = queue'[j] PROVE Waits(s)'
      <4>1. Waits(queue[j]) /\ Words!Name(s) = Words!Name(queue[j]) /\ s.work = queue[j].work
        BY <2>7, <2>8, <3>1 DEF QueueOK
      <4> QED BY <2>2, <4>1 DEF Waits, Words!Name
    <3>2. \A i, j \in 1..Len(queue') : Words!Name(queue'[i]) = Words!Name(queue'[j]) => i = j
      BY <2>7, <2>8 DEF QueueOK
    <3> QED BY <3>1, <3>2, QueueIs
  <2>10. TurnOK'
    <3>1. queue # <<>> => /\ queue' # <<>> /\ Words!Name(queue'[1]) = Words!Name(queue[1])
                          /\ queue'[1].work = queue[1].work
      <4>1. queue \in Seq(RequestIn) /\ 1 \in 1..Len(queue) /\ queue' # <<>>
        BY <2>1, <2>7 DEF WordsTyped
      <4> QED BY <2>8, <4>1
    <3> QED BY <2>2, <3>1, TurnStays DEF CarriesShrink
  <2>11. CarriesOK'
    BY <2>2, CarriesStay DEF CarriesShrink
  <2> QED BY <2>2, <2>7, <2>9, <2>10, <2>11 DEF WordsTyped
<1>9. ASSUME Words!RestartBot PROVE WordsInv'
  <2>1. /\ live' = {} /\ turn' = Words!Idle /\ lives' = {}
        /\ carries' = [w \in Words!Works |-> {}] /\ UNCHANGED <<queue, said, ran>>
    BY <1>9 DEF Words!RestartBot
  <2>2. \A w \in Words!Works : \E row \in Record :
            /\ row = [record[w] EXCEPT !.status = "over"] /\ row.status = "over"
    <3>1. ASSUME NEW w \in Words!Works
          PROVE  \E row \in Record : /\ row = [record[w] EXCEPT !.status = "over"]
                                     /\ row.status = "over"
      <4>1. PICK old \in Record : old = record[w]
        BY DEF WordsTyped, Record
      <4>2. PICK row : row = [old EXCEPT !.status = "over"]
        OBVIOUS
      <4>3. row \in Record /\ row.status = "over"
        BY <4>2 DEF Record, Statuses
      <4> QED BY <4>1, <4>2, <4>3
    <3> QED BY <3>1
  <2>3. /\ record' \in [Words!Works -> Record]
        /\ \A w \in Words!Works : record[w].status # "none" => record'[w].status # "none"
    <3>1. /\ record' = [w \in Words!Works |-> IF Words!Busy(w) THEN [record[w] EXCEPT !.status = "over"]
                                              ELSE record[w]]
          /\ record \in [Words!Works -> Record]
      BY <1>9 DEF Words!RestartBot, WordsTyped, Record
    <3> QED BY <2>2, <3>1
  <2>4. WordsTyped'
    BY <2>1, <2>3, IdleTurn DEF WordsTyped, Record
  <2>5. QueueOK'
    <3>1. ASSUME NEW k \in 1..Len(queue'), NEW r, r = queue'[k] PROVE Waits(r)'
      <4>1. r \in RequestIn /\ r.work \in Words!Works /\ Waits(r)
        BY <2>1, <3>1, Named DEF QueueOK
      <4> QED BY <2>1, <2>3, <4>1 DEF Waits, Words!Name
    <3> QED BY <2>1, <3>1, QueueIs DEF QueueOK
  <2>6. CarriesOK'
    BY <2>1 DEF CarriesOK
  <2> QED BY <2>1, <2>4, <2>5, <2>6, IdleTurn
<1> QED BY <1>1, <1>2, <1>3, <1>4, <1>5, <1>6, <1>7, <1>8, <1>9

(* Every reachable state keeps the requests, the slices, the answers and   *)
(* the calls still to be executed in the relation WordsInv states.         *)
THEOREM WordsInvariance ==
    ASSUME Words!ApprovalsAssumption
    PROVE  Words!ApprovalsSpec => []WordsInv
<1>1. ASSUME WordsInv, [Words!ApprovalsNext]_Words!approvalVars PROVE WordsInv'
  <2>1. CASE Words!ApprovalsNext
    BY <1>1, <2>1, WorkKeepsWords, MessageKeepsWords DEF Words!ApprovalsNext
  <2>2. CASE UNCHANGED Words!approvalVars
    <3>1. UNCHANGED <<queue, live, record, carries, turn, said, ran, lives>>
      BY <2>2 DEF Words!approvalVars
    <3>2. WordsTyped'
      BY <1>1, <3>1 DEF WordsInv, WordsTyped
    <3> QED BY <1>1, <3>1, <3>2, StepBeside DEF RecordsStay, CarriesShrink
  <2> QED BY <1>1, <2>1, <2>2
<1> QED BY <1>1, WordsStart, PTL DEF Words!ApprovalsSpec

(* The calls of a request are executed after a yes to that very request    *)
(* and once; nothing that was answered is asked again; and what is about   *)
(* to be executed was asked by the process that runs now, whatever is      *)
(* cancelled, forgotten, pruned or restarted in between.                   *)
THEOREM WordsAreKept ==
    ASSUME Words!ApprovalsAssumption
    PROVE  Words!ApprovalsSpec => []Words!ApprovalsAreExact
<1>1. WordsInv => Words!ApprovalsAreExact
  <2> SUFFICES ASSUME WordsInv PROVE Words!ApprovalsAreExact
    OBVIOUS
  <2>1. \A r \in Words!AskedFor : ran[r] <= 1 /\ (ran[r] = 1 => said[r] = "yes")
    BY DEF WordsInv, WordsTyped, CarriesOK
  <2>2. \A k \in 1..Len(queue) : said[Words!Name(queue[k])] = "nothing"
    BY DEF WordsInv, QueueOK, Waits
  <2>3. \A w \in Words!Works : \A r \in carries[w] : said[r] = "yes" /\ ran[r] = 0 /\ r \in lives
    BY DEF WordsInv, CarriesOK, Approved
  <2> QED BY <2>1, <2>2, <2>3 DEF Words!ApprovalsAreExact
<1> QED BY <1>1, WordsInvariance, PTL

-----------------------------------------------------------------------------
(* The budget.  A work counts on a ledger of its own and the task on the   *)
(* one saved last, so what a death loses is what they differ by.  While    *)
(* the copy a message carries is current, the task is still as it was      *)
(* copied, and one grant more than it at most.                             *)

LedgerRow == [used : Nat, limit : 0..Ceiling, reason : BOOLEAN]
SavedTask == [status : {"partial", "blocked", "running"}, ledger : LedgerRow, grants : Seq(Messages)]
WorkRow == [at : {"none", "prepared", "queued", "running"}, copy : SavedTask \cup {<<>>},
            current : BOOLEAN]

BudgetTyped ==
    /\ task \in SavedTask /\ budget \in LedgerRow
    /\ work \in [Messages -> WorkRow] /\ call \in [Callers -> BOOLEAN]
    /\ spent \in Nat /\ lost \in Nat /\ excess \in Nat

InFlight == {c \in Callers : call[c]}
Reservations == Reserved * Cardinality(InFlight)
Running == Spend!Works("running")

(* What a saved task was allotted, and by whom.                            *)
Earned(t) ==
    /\ t.ledger.limit = Allotted + Added * Len(t.grants)
    /\ \A j, k \in 1..Len(t.grants) : t.grants[j] = t.grants[k] => j = k
    /\ t.ledger.used <= t.ledger.limit + excess

CopyOK(m) ==
    work[m].at \in {"prepared", "queued"} /\ work[m].current =>
        \/ work[m].copy = task
        \/ Spend!Grantable(m) /\ work[m].copy = Spend!Granted(m)

WorkOK ==
    /\ \A m, n \in Running : m = n
    /\ Running # {} => budget.limit = task.ledger.limit
    /\ Running = {} => InFlight = {}

SpentOK ==
    /\ spent + Reservations <= (IF Running = {} THEN task.ledger.used ELSE budget.used) + lost
    /\ Running # {} => Reservations <= budget.used /\ budget.used <= budget.limit + excess

BudgetInv ==
    /\ BudgetTyped /\ Earned(task) /\ WorkOK /\ SpentOK
    /\ \A m \in Messages : CopyOK(m)

(* What the theorems assume of the budget: its limits are positive, and    *)
(* the threads of a work are finitely many.                                *)
LimitsGiven == Spend!BudgetAssumption /\ IsFiniteSet(Callers)

LEMMA Limits ==
    ASSUME LimitsGiven
    PROVE  /\ Allotted \in Nat /\ Added \in Nat /\ Ceiling \in Nat /\ MaxGrants \in Nat
           /\ Reserved \in Nat /\ MaxSpent \in Nat /\ Allotted <= Ceiling
BY DEF LimitsGiven, Spend!BudgetAssumption

(* What is reserved, as calls begin and end.                               *)
LEMMA ReservationsCount ==
    ASSUME LimitsGiven
    PROVE  /\ IsFiniteSet(InFlight) /\ Cardinality(InFlight) \in Nat /\ Reservations \in Nat
           /\ InFlight = {} => Reservations = 0
<1>1. IsFiniteSet(InFlight)
  BY FS_Subset DEF LimitsGiven, InFlight
<1>2. Cardinality(InFlight) \in Nat /\ (InFlight = {} => Cardinality(InFlight) = 0)
  BY <1>1, FS_CardinalityType, FS_EmptySet
<1> QED BY <1>1, <1>2, Limits DEF Reservations

LEMMA CallBegins ==
    ASSUME LimitsGiven, BudgetTyped, NEW c \in Callers, ~call[c], call' = [call EXCEPT ![c] = TRUE]
    PROVE  /\ call' \in [Callers -> BOOLEAN]
           /\ Reservations' = Reservations + Reserved /\ Reservations' \in Nat
<1>1. call \in [Callers -> BOOLEAN]
  BY DEF BudgetTyped
<1>2. InFlight' = InFlight \cup {c} /\ c \notin InFlight
  BY <1>1 DEF InFlight
<1>3. Cardinality(InFlight') = Cardinality(InFlight) + 1
  BY <1>2, ReservationsCount, FS_AddElement
<1>4. Reserved * (Cardinality(InFlight) + 1) = Reserved * Cardinality(InFlight) + Reserved
  BY ReservationsCount, Limits
<1> QED BY <1>1, <1>3, <1>4, ReservationsCount, Limits DEF Reservations

LEMMA CallEnds ==
    ASSUME LimitsGiven, BudgetTyped, NEW c \in Callers, call[c], call' = [call EXCEPT ![c] = FALSE]
    PROVE  /\ call' \in [Callers -> BOOLEAN]
           /\ Reservations = Reservations' + Reserved /\ Reservations' \in Nat
<1>1. call \in [Callers -> BOOLEAN]
  BY DEF BudgetTyped
<1>2. InFlight' = InFlight \ {c} /\ c \in InFlight
  BY <1>1 DEF InFlight
<1>3. /\ Cardinality(InFlight') = Cardinality(InFlight) - 1 /\ IsFiniteSet(InFlight')
      /\ Cardinality(InFlight') \in Nat
  BY <1>2, ReservationsCount, FS_RemoveElement, FS_CardinalityType
<1>4. \A n \in Nat : Reserved * (n + 1) = Reserved * n + Reserved /\ Reserved * n \in Nat
  BY Limits
<1>5. Cardinality(InFlight) = Cardinality(InFlight') + 1
  BY <1>3, ReservationsCount
<1> QED BY <1>1, <1>3, <1>4, <1>5 DEF Reservations

(* A grant: one addition, for a message that has had none.                 *)
LEMMA GrantEarned ==
    ASSUME LimitsGiven, BudgetTyped, Earned(task), NEW m \in Messages, Spend!Grantable(m)
    PROVE  /\ Spend!Granted(m) \in SavedTask /\ Earned(Spend!Granted(m))
           /\ Spend!Granted(m).ledger.used = task.ledger.used
<1>1. PICK ledger : ledger = [used |-> task.ledger.used, limit |-> task.ledger.limit + Added,
                              reason |-> FALSE]
  OBVIOUS
<1>2. PICK grants : grants = Append(task.grants, m)
  OBVIOUS
<1>3. PICK t : t = [task EXCEPT !.grants = grants, !.ledger = ledger]
  OBVIOUS
<1>4. Spend!Granted(m) = t
  BY <1>1, <1>2, <1>3 DEF Spend!Granted, Spend!Ledger
<1>5. /\ task.ledger.used \in Nat /\ task.ledger.limit \in Nat
      /\ task.grants \in Seq(Messages) /\ Len(task.grants) \in Nat
  BY Limits DEF BudgetTyped, SavedTask, LedgerRow
<1>6. ledger \in LedgerRow /\ ledger.limit = task.ledger.limit + Added /\ ledger.used = task.ledger.used
  BY <1>1, <1>5, Limits DEF LedgerRow, Spend!Grantable
<1>7. /\ grants \in Seq(Messages) /\ Len(grants) = Len(task.grants) + 1
      /\ \A k \in 1..Len(task.grants) : grants[k] = task.grants[k]
      /\ grants[Len(task.grants) + 1] = m
  BY <1>2, <1>5
<1>8. t \in SavedTask /\ t.ledger = ledger /\ t.grants = grants
  BY <1>3, <1>6, <1>7 DEF BudgetTyped, SavedTask
<1>9. ledger.limit = Allotted + Added * Len(grants)
  <2>1. Added * (Len(task.grants) + 1) = Added * Len(task.grants) + Added
    BY <1>5, Limits
  <2>2. task.ledger.limit = Allotted + Added * Len(task.grants)
    BY DEF Earned
  <2>3. Added * Len(grants) = Added * Len(task.grants) + Added
    BY <1>7, <2>1
  <2>4. PICK earned \in Int : earned = Added * Len(task.grants)
    BY <1>5, Limits
  <2> QED BY <1>6, <2>2, <2>3, <2>4, Limits
<1>10. ASSUME NEW j \in 1..Len(grants), NEW k \in 1..Len(grants), grants[j] = grants[k]
       PROVE  j = k
  <2>1. \A n \in 1..Len(task.grants) : grants[n] # m
    BY <1>7 DEF Spend!Grantable
  <2>2. CASE j \in 1..Len(task.grants) /\ k \in 1..Len(task.grants)
    BY <1>7, <1>10, <2>2 DEF Earned
  <2> QED BY <1>5, <1>7, <1>10, <2>1, <2>2
<1>11. ledger.used <= ledger.limit + excess
  <2>1. task.ledger.used <= task.ledger.limit + excess /\ excess \in Nat
    BY DEF Earned, BudgetTyped
  <2>2. Added \in Nat
    BY Limits
  <2> QED BY <1>5, <1>6, <2>1, <2>2
<1> QED BY <1>4, <1>6, <1>8, <1>9, <1>10, <1>11 DEF Earned

LEMMA BudgetStart ==
    ASSUME LimitsGiven, Spend!BudgetInit
    PROVE  BudgetInv
<1>1. /\ task = [status |-> "partial", ledger |-> [used |-> 0, limit |-> Allotted, reason |-> FALSE],
                 grants |-> <<>>]
      /\ budget = [used |-> 0, limit |-> 0, reason |-> FALSE]
      /\ work = [m \in Messages |-> [at |-> "none", copy |-> <<>>, current |-> FALSE]]
      /\ call = [c \in Callers |-> FALSE] /\ spent = 0 /\ lost = 0 /\ excess = 0
  BY DEF Spend!BudgetInit, Spend!Ledger, Spend!NoBudget, Spend!NoWork
<1>2. BudgetTyped
  <2>1. [used |-> 0, limit |-> Allotted, reason |-> FALSE] \in LedgerRow /\ budget \in LedgerRow
    BY <1>1, Limits DEF LedgerRow
  <2>2. task \in SavedTask
    BY <1>1, <2>1 DEF SavedTask
  <2>3. work \in [Messages -> WorkRow]
    BY <1>1 DEF WorkRow
  <2> QED BY <1>1, <2>1, <2>2, <2>3 DEF BudgetTyped
<1>3. task.ledger.used = 0 /\ task.ledger.limit = Allotted /\ task.grants = <<>> /\ Len(task.grants) = 0
  BY <1>1
<1>4. Earned(task)
  <2>1. Added * 0 = 0
    BY Limits
  <2> QED BY <1>1, <1>3, <2>1, Limits DEF Earned
<1>5. Running = {} /\ InFlight = {} /\ \A m \in Messages : CopyOK(m)
  BY <1>1 DEF Running, Spend!Works, InFlight, CopyOK
<1>6. WorkOK /\ SpentOK
  BY <1>1, <1>3, <1>5, ReservationsCount DEF WorkOK, SpentOK
<1> QED BY <1>2, <1>4, <1>5, <1>6 DEF BudgetInv

(* What a message began moves on, and no work begins or ends.              *)
LEMMA WorkMoves ==
    ASSUME LimitsGiven, BudgetInv, NEW m \in Messages, NEW row \in WorkRow,
           work[m].at # "running", row.at # "running", work' = [work EXCEPT ![m] = row],
           UNCHANGED <<task, budget, call, spent, lost, excess>>, CopyOK(m)'
    PROVE  BudgetInv'
<1>1. BudgetTyped'
  BY DEF BudgetInv, BudgetTyped
<1>2. \A n \in Messages : n # m => work'[n] = work[n]
  BY DEF BudgetInv, BudgetTyped
<1>3. work'[m] = row
  BY DEF BudgetInv, BudgetTyped
<1>4. Running' = Running /\ InFlight' = InFlight
  BY <1>2, <1>3 DEF Running, Spend!Works, InFlight
<1>5. \A n \in Messages : CopyOK(n)'
  <2>1. ASSUME NEW n \in Messages, n # m PROVE CopyOK(n)'
    <3>1. work'[n] = work[n] /\ task' = task /\ CopyOK(n)
      BY <1>2, <2>1 DEF BudgetInv
    <3>2. Spend!Grantable(n)' = Spend!Grantable(n) /\ Spend!Granted(n)' = Spend!Granted(n)
      BY <3>1 DEF Spend!Grantable, Spend!Granted
    <3> QED BY <3>1, <3>2 DEF CopyOK
  <2> QED BY <2>1
<1>6. WorkOK' /\ SpentOK'
  BY <1>4 DEF BudgetInv, WorkOK, SpentOK, Reservations
<1> QED BY <1>1, <1>5, <1>6 DEF BudgetInv, Earned

LEMMA PrepareKeepsBudget ==
    ASSUME LimitsGiven, BudgetInv, NEW m \in Messages, Spend!Prepare(m)
    PROVE  BudgetInv'
<1>1. PICK copy : /\ copy = task \/ (Spend!Grantable(m) /\ copy = Spend!Granted(m))
                  /\ work' = [work EXCEPT ![m] = [at |-> "prepared", copy |-> copy, current |-> TRUE]]
  BY DEF Spend!Prepare
<1>2. copy \in SavedTask
  BY <1>1, GrantEarned DEF BudgetInv, BudgetTyped
<1>3. PICK row : row = [at |-> "prepared", copy |-> copy, current |-> TRUE]
  OBVIOUS
<1>4. row \in WorkRow /\ row.at = "prepared" /\ row.copy = copy
  BY <1>2, <1>3 DEF WorkRow
<1>5. work[m].at = "none" /\ UNCHANGED <<task, budget, call, spent, lost, excess>>
  BY DEF Spend!Prepare, Spend!History
<1>6. work'[m].copy = copy
  BY <1>1, <1>3, <1>4 DEF BudgetInv, BudgetTyped
<1>7. CopyOK(m)'
  <2>1. task' = task /\ (Spend!Grantable(m) => Spend!Grantable(m)') /\ Spend!Granted(m)' = Spend!Granted(m)
    BY <1>5 DEF Spend!Grantable, Spend!Granted
  <2> QED BY <1>1, <1>6, <2>1 DEF CopyOK
<1> QED BY <1>1, <1>3, <1>4, <1>5, <1>7, WorkMoves

LEMMA NoWorkIs ==
    /\ Spend!NoWork \in WorkRow /\ Spend!NoWork.at = "none" /\ ~Spend!NoWork.current
BY DEF Spend!NoWork, WorkRow

LEMMA EnqueueKeepsBudget ==
    ASSUME LimitsGiven, BudgetInv, NEW m \in Messages, Spend!EnqueueWork(m)
    PROVE  BudgetInv'
<1>1. PICK old \in WorkRow : old = work[m]
  BY DEF BudgetInv, BudgetTyped
<1>2. PICK queued : queued = [old EXCEPT !.at = "queued"]
  OBVIOUS
<1>3. /\ queued \in WorkRow /\ queued.at = "queued"
      /\ queued.copy = old.copy /\ queued.current = old.current
  BY <1>2 DEF WorkRow
<1>4. PICK row : row = (IF Spend!Active = {} THEN queued ELSE Spend!NoWork)
  OBVIOUS
<1>5. /\ old.at = "prepared" /\ work' = [work EXCEPT ![m] = row]
      /\ UNCHANGED <<task, budget, call, spent, lost, excess>>
  BY <1>1, <1>2, <1>4 DEF Spend!EnqueueWork, Spend!History
<1>6. /\ row \in WorkRow /\ row.at # "running"
      /\ row.at = "queued" => row.copy = old.copy /\ row.current = old.current
      /\ row.at \in {"none", "queued"}
  BY <1>3, <1>4, NoWorkIs
<1>7. work'[m] = row
  BY <1>5 DEF BudgetInv, BudgetTyped
<1>8. CopyOK(m)'
  <2>1. task' = task /\ (Spend!Grantable(m) => Spend!Grantable(m)') /\ Spend!Granted(m)' = Spend!Granted(m)
    BY <1>5 DEF Spend!Grantable, Spend!Granted
  <2>2. CopyOK(m)
    BY DEF BudgetInv
  <2> QED BY <1>1, <1>5, <1>6, <1>7, <2>1, <2>2 DEF CopyOK
<1> QED BY <1>1, <1>5, <1>6, <1>8, WorkMoves

(* After a save no copy is current.                                        *)
LEMMA OutdatedIs ==
    ASSUME BudgetTyped
    PROVE  /\ Spend!Outdated \in [Messages -> WorkRow]
           /\ \A m \in Messages : Spend!Outdated[m].at = work[m].at /\ ~Spend!Outdated[m].current
<1>1. ASSUME NEW m \in Messages
      PROVE  \E row \in WorkRow : /\ row = Spend!Outdated[m]
                                  /\ row.at = work[m].at /\ ~row.current
  <2>1. PICK old \in WorkRow : old = work[m]
    BY DEF BudgetTyped
  <2>2. PICK row : row = [old EXCEPT !.current = FALSE]
    OBVIOUS
  <2>3. row \in WorkRow /\ row.at = old.at /\ ~row.current
    BY <2>2 DEF WorkRow
  <2> QED BY <2>1, <2>2, <2>3 DEF Spend!Outdated
<1> QED BY <1>1 DEF Spend!Outdated

(* What a work saves is what it counted, within what the task was granted. *)
LEMMA Saved ==
    ASSUME LimitsGiven, BudgetInv, Running # {}, UNCHANGED excess,
           NEW status \in {"partial", "blocked", "running"}, Spend!Save(status, budget)
    PROVE  task' \in SavedTask /\ task'.ledger = budget /\ Earned(task)'
<1>1. PICK t \in SavedTask : t = task
  BY DEF BudgetInv, BudgetTyped
<1>2. PICK ledger \in LedgerRow : ledger = budget
  BY DEF BudgetInv, BudgetTyped
<1>3. PICK new : new = [t EXCEPT !.status = status, !.ledger = ledger]
  OBVIOUS
<1>4. new \in SavedTask /\ new.ledger = ledger /\ new.grants = t.grants
  BY <1>3 DEF SavedTask
<1>5. task' = new
  BY <1>1, <1>2, <1>3 DEF Spend!Save
<1>6. ledger.limit = t.ledger.limit /\ ledger.used <= ledger.limit + excess
  BY <1>1, <1>2 DEF BudgetInv, WorkOK, SpentOK
<1> QED BY <1>1, <1>2, <1>4, <1>5, <1>6 DEF BudgetInv, Earned

LEMMA CheckpointKeepsBudget ==
    ASSUME LimitsGiven, BudgetInv, Spend!Checkpoint
    PROVE  BudgetInv'
<1>1. /\ Running # {} /\ Spend!Save("running", budget) /\ work' = Spend!Outdated
      /\ UNCHANGED <<budget, call, spent, lost, excess>>
  BY DEF Spend!Checkpoint, Spend!History, Running
<1>2. task' \in SavedTask /\ task'.ledger = budget /\ Earned(task)'
  BY <1>1, Saved
<1>3. /\ work' \in [Messages -> WorkRow]
      /\ \A m \in Messages : work'[m].at = work[m].at /\ ~work'[m].current
  BY <1>1, OutdatedIs DEF BudgetInv
<1>4. BudgetTyped'
  BY <1>1, <1>2, <1>3 DEF BudgetInv, BudgetTyped
<1>5. Running' = Running /\ InFlight' = InFlight /\ \A m \in Messages : CopyOK(m)'
  BY <1>1, <1>3 DEF Running, Spend!Works, InFlight, CopyOK
<1>6. WorkOK' /\ SpentOK'
  BY <1>1, <1>2, <1>5 DEF BudgetInv, WorkOK, SpentOK, Reservations
<1> QED BY <1>2, <1>4, <1>5, <1>6 DEF BudgetInv

LEMMA EndKeepsBudget ==
    ASSUME LimitsGiven, BudgetInv, NEW m \in Messages, Spend!EndWork(m)
    PROVE  BudgetInv'
<1>1. /\ m \in Running /\ InFlight = {}
      /\ work' = [Spend!Outdated EXCEPT ![m] = Spend!NoWork] /\ budget' = Spend!NoBudget
      /\ UNCHANGED <<call, spent, lost, excess>>
  BY DEF Spend!EndWork, Spend!History, Running, Spend!Works, InFlight
<1>2. PICK status \in {"partial", "blocked", "running"} : Spend!Save(status, budget)
  BY DEF Spend!EndWork
<1>3. task' \in SavedTask /\ task'.ledger = budget /\ Earned(task)'
  BY <1>1, <1>2, Saved
<1>4. /\ work' \in [Messages -> WorkRow] /\ work'[m].at = "none"
      /\ \A n \in Messages : ~work'[n].current /\ (n # m => work'[n].at = work[n].at)
  BY <1>1, OutdatedIs, NoWorkIs DEF BudgetInv
<1>5. budget' \in LedgerRow
  BY <1>1, Limits DEF LedgerRow, Spend!NoBudget, Spend!Ledger
<1>6. BudgetTyped'
  BY <1>1, <1>3, <1>4, <1>5 DEF BudgetInv, BudgetTyped
<1>7. Running' = {}
  BY <1>1, <1>4 DEF BudgetInv, WorkOK, Running, Spend!Works
<1>8. InFlight' = {} /\ \A n \in Messages : CopyOK(n)'
  BY <1>1, <1>4 DEF InFlight, CopyOK
<1>9. SpentOK'
  <2>1. Reservations' = Reservations
    BY <1>1, <1>8 DEF Reservations
  <2>2. spent + Reservations <= budget.used + lost
    BY <1>1 DEF BudgetInv, SpentOK
  <2> QED BY <1>1, <1>3, <1>7, <2>1, <2>2 DEF SpentOK
<1> QED BY <1>3, <1>6, <1>7, <1>8, <1>9 DEF BudgetInv, WorkOK

(* A work takes over the ledger of the copy it claims the task with: what  *)
(* was spent is neither forgotten nor counted twice.                       *)
LEMMA CommitKeepsBudget ==
    ASSUME LimitsGiven, BudgetInv, NEW m \in Messages, Spend!Commit(m)
    PROVE  BudgetInv'
<1>1. /\ work[m].at = "queued" /\ Running = {} /\ InFlight = {}
      /\ UNCHANGED <<call, spent, lost, excess>>
  BY DEF Spend!Commit, Spend!History, Running, BudgetInv, WorkOK
<1>2. CASE work[m].current
  <2>1. PICK t : t = work[m].copy
    OBVIOUS
  <2>2. t \in SavedTask /\ Earned(t) /\ t.ledger.used = task.ledger.used
    BY <1>1, <1>2, <2>1, GrantEarned DEF BudgetInv, BudgetTyped, CopyOK
  <2>3. PICK ledger : ledger = [used |-> t.ledger.used, limit |-> t.ledger.limit,
                                reason |-> t.ledger.reason \/ t.ledger.used >= t.ledger.limit]
    OBVIOUS
  <2>4. ledger \in LedgerRow /\ ledger.used = t.ledger.used /\ ledger.limit = t.ledger.limit
    BY <2>2, <2>3 DEF SavedTask, LedgerRow
  <2>5. PICK new : new = [t EXCEPT !.status = "running", !.ledger = ledger]
    OBVIOUS
  <2>6. new \in SavedTask /\ new.ledger = ledger /\ new.grants = t.grants
    BY <2>2, <2>4, <2>5 DEF SavedTask
  <2>7. PICK row : row = [Spend!NoWork EXCEPT !.at = "running"]
    OBVIOUS
  <2>8. row \in WorkRow /\ row.at = "running" /\ ~row.current
    BY <2>7 DEF WorkRow, Spend!NoWork
  <2>9. budget' = ledger /\ task' = new /\ work' = [Spend!Outdated EXCEPT ![m] = row]
    BY <1>2, <2>1, <2>3, <2>5, <2>7
    DEF Spend!Commit, Spend!SameRevision, Spend!Absorbed, Spend!Ledger
  <2>10. /\ work' \in [Messages -> WorkRow] /\ work'[m].at = "running"
         /\ \A n \in Messages : ~work'[n].current /\ (n # m => work'[n].at = work[n].at)
    BY <2>8, <2>9, OutdatedIs DEF BudgetInv
  <2>11. BudgetTyped'
    BY <1>1, <2>4, <2>6, <2>9, <2>10 DEF BudgetInv, BudgetTyped
  <2>12. Earned(task)'
    <3>1. Earned(new)
      BY <2>2, <2>4, <2>6 DEF Earned
    <3> QED BY <1>1, <2>9, <3>1 DEF Earned
  <2>13. Running' = {m}
    BY <1>1, <2>10 DEF Running, Spend!Works
  <2>14. InFlight' = {} /\ \A n \in Messages : CopyOK(n)'
    BY <1>1, <2>10 DEF InFlight, CopyOK
  <2>15. SpentOK'
    <3>1. Reservations = 0 /\ Reservations' = 0
      BY <1>1, <2>14, ReservationsCount DEF Reservations
    <3>2. spent + Reservations <= task.ledger.used + lost /\ ledger.used <= ledger.limit + excess
      BY <1>1, <2>2, <2>4 DEF BudgetInv, SpentOK, Earned
    <3>3. ledger.used \in Nat
      BY <2>4 DEF LedgerRow
    <3> QED BY <1>1, <2>2, <2>4, <2>9, <2>13, <3>1, <3>2, <3>3 DEF SpentOK
  <2>16. WorkOK'
    BY <2>6, <2>9, <2>13, <2>14 DEF WorkOK
  <2> QED BY <2>11, <2>12, <2>14, <2>15, <2>16 DEF BudgetInv
<1>3. CASE ~work[m].current
  <2>1. work' = [work EXCEPT ![m] = Spend!NoWork] /\ UNCHANGED <<task, budget>>
    BY <1>3 DEF Spend!Commit, Spend!SameRevision
  <2>2. work'[m] = Spend!NoWork
    BY <2>1 DEF BudgetInv, BudgetTyped
  <2>3. CopyOK(m)'
    BY <2>2, NoWorkIs DEF CopyOK
  <2> QED BY <1>1, <2>1, <2>3, NoWorkIs, WorkMoves
<1> QED BY <1>2, <1>3

-----------------------------------------------------------------------------
(* A call changes what the work has counted, and nothing of the task.      *)
LEMMA CallMoves ==
    ASSUME LimitsGiven, BudgetInv, UNCHANGED <<task, work, lost>>, Running # {},
           budget' \in LedgerRow, budget'.limit = budget.limit,
           call' \in [Callers -> BOOLEAN],
           spent' \in Nat, excess' \in Nat, excess <= excess',
           Reservations' <= budget'.used, budget'.used <= budget'.limit + excess',
           spent' + Reservations' <= budget'.used + lost
    PROVE  BudgetInv'
<1>1. BudgetTyped'
  BY DEF BudgetInv, BudgetTyped
<1>2. Running' = Running
  BY DEF Running, Spend!Works
<1>3. Earned(task)'
  <2>1. task.ledger.used \in Nat /\ task.ledger.limit \in Nat /\ excess \in Nat
    <3>1. task.ledger \in LedgerRow /\ excess \in Nat
      BY DEF BudgetInv, BudgetTyped, SavedTask
    <3> QED BY <3>1, Limits DEF LedgerRow
  <2>2. task.ledger.used <= task.ledger.limit + excess
    BY DEF BudgetInv, Earned
  <2>3. task.ledger.used <= task.ledger.limit + excess'
    BY <2>1, <2>2
  <2> QED BY <2>3 DEF BudgetInv, Earned
<1>4. WorkOK' /\ SpentOK'
  BY <1>2 DEF BudgetInv, WorkOK, SpentOK
<1>5. ASSUME NEW m \in Messages PROVE CopyOK(m)'
  <2>1. work' = work /\ task' = task /\ CopyOK(m)
    BY DEF BudgetInv
  <2>2. Spend!Grantable(m)' = Spend!Grantable(m) /\ Spend!Granted(m)' = Spend!Granted(m)
    BY <2>1 DEF Spend!Grantable, Spend!Granted
  <2> QED BY <2>1, <2>2 DEF CopyOK
<1> QED BY <1>1, <1>3, <1>4, <1>5 DEF BudgetInv

(* The numbers of the work that runs.                                      *)
LEMMA Counted ==
    ASSUME LimitsGiven, BudgetInv
    PROVE  /\ budget.used \in Nat /\ budget.limit \in Nat /\ budget.reason \in BOOLEAN
           /\ spent \in Nat /\ lost \in Nat /\ excess \in Nat /\ Reservations \in Nat
           /\ Running # {} => /\ spent + Reservations <= budget.used + lost
                              /\ Reservations <= budget.used
                              /\ budget.used <= budget.limit + excess
           /\ \A c \in Callers : call[c] => Running # {}
<1>1. /\ budget.used \in Nat /\ budget.limit \in Nat /\ budget.reason \in BOOLEAN
      /\ spent \in Nat /\ lost \in Nat /\ excess \in Nat /\ Reservations \in Nat
  BY Limits, ReservationsCount DEF BudgetInv, BudgetTyped, LedgerRow
<1>2. Running # {} => /\ spent + Reservations <= budget.used + lost
                      /\ Reservations <= budget.used
                      /\ budget.used <= budget.limit + excess
  BY DEF BudgetInv, SpentOK
<1>3. \A c \in Callers : call[c] => Running # {}
  BY DEF BudgetInv, WorkOK, InFlight
<1> QED BY <1>1, <1>2, <1>3

LEMMA ReserveKeepsBudget ==
    ASSUME LimitsGiven, BudgetInv, NEW c \in Callers, Spend!Reserve(c)
    PROVE  BudgetInv'
<1>1. Running # {} /\ ~call[c] /\ UNCHANGED <<task, work, spent, lost, excess>>
  BY DEF Spend!Reserve, Spend!History, Running
<1>2. PICK ledger \in LedgerRow : ledger = budget
  BY DEF BudgetInv, BudgetTyped
<1>3. CASE Spend!Fits
  <2>1. PICK new : new = [ledger EXCEPT !.used = @ + Reserved]
    OBVIOUS
  <2>2. new \in LedgerRow /\ new.used = ledger.used + Reserved /\ new.limit = ledger.limit
    BY <2>1, Limits DEF LedgerRow
  <2>3. budget' = new /\ call' = [call EXCEPT ![c] = TRUE] /\ ledger.used + Reserved <= ledger.limit
    BY <1>2, <1>3, <2>1 DEF Spend!Reserve, Spend!Fits
  <2>4. /\ call' \in [Callers -> BOOLEAN]
        /\ Reservations' = Reservations + Reserved /\ Reservations' \in Nat
    BY <1>1, <2>3, CallBegins DEF BudgetInv
  <2>5. /\ Reservations' <= budget'.used /\ budget'.used <= budget'.limit + excess
        /\ spent + Reservations' <= budget'.used + lost
    BY <1>1, <1>2, <2>2, <2>3, <2>4, Counted, Limits
  <2> QED BY <1>1, <1>2, <2>2, <2>3, <2>4, <2>5, Counted, CallMoves
<1>4. CASE ~Spend!Fits
  <2>1. PICK new : new = [ledger EXCEPT !.reason = TRUE]
    OBVIOUS
  <2>2. new \in LedgerRow /\ new.used = ledger.used /\ new.limit = ledger.limit
    BY <2>1 DEF LedgerRow
  <2>3. budget' = new /\ call' = call
    BY <1>2, <1>4, <2>1 DEF Spend!Reserve
  <2>4. call' \in [Callers -> BOOLEAN] /\ Reservations' = Reservations
    BY <2>3 DEF BudgetInv, BudgetTyped, Reservations, InFlight
  <2> QED BY <1>1, <1>2, <2>2, <2>3, <2>4, Counted, CallMoves
<1> QED BY <1>3, <1>4

LEMMA ReconcileKeepsBudget ==
    ASSUME LimitsGiven, BudgetInv, NEW c \in Callers, Spend!Reconcile(c)
    PROVE  BudgetInv'
<1>1. call[c] /\ call' = [call EXCEPT ![c] = FALSE] /\ UNCHANGED <<task, work, lost>>
  BY DEF Spend!Reconcile
<1>2. PICK ledger \in LedgerRow : ledger = budget
  BY DEF BudgetInv, BudgetTyped
<1>3. /\ call' \in [Callers -> BOOLEAN]
      /\ Reservations = Reservations' + Reserved /\ Reservations' \in Nat
  BY <1>1, CallEnds DEF BudgetInv
<1>4. PICK count \in {0, 1, Reserved + 1} :
          /\ budget' = [ledger EXCEPT !.used = ledger.used - Reserved + count,
                                      !.reason = @ \/ ledger.used - Reserved + count >= ledger.limit]
          /\ spent' = spent + count
          /\ excess' = IF count > Reserved THEN excess + count - Reserved ELSE excess
  BY <1>2 DEF Spend!Reconcile
<1>5. Running # {} /\ count \in Nat
  BY <1>1, <1>4, Counted, Limits
<1>6. PICK used : used = ledger.used - Reserved + count
  OBVIOUS
<1>7. used \in Nat /\ Reservations' <= used /\ spent' + Reservations' <= used + lost
  BY <1>2, <1>3, <1>4, <1>5, <1>6, Counted, Limits
<1>8. spent' \in Nat /\ excess' \in Nat /\ excess <= excess' /\ used <= ledger.limit + excess'
  BY <1>2, <1>4, <1>5, <1>6, Counted, Limits
<1>9. PICK new : new = [ledger EXCEPT !.used = used, !.reason = @ \/ used >= ledger.limit]
  OBVIOUS
<1>10. new \in LedgerRow /\ new.used = used /\ new.limit = ledger.limit
  BY <1>7, <1>9 DEF LedgerRow
<1>11. budget' = new
  BY <1>4, <1>6, <1>9
<1> QED BY <1>1, <1>2, <1>3, <1>5, <1>7, <1>8, <1>10, <1>11, CallMoves

LEMMA FailKeepsBudget ==
    ASSUME LimitsGiven, BudgetInv, NEW c \in Callers, Spend!FailCall(c)
    PROVE  BudgetInv'
<1>1. /\ call[c] /\ call' = [call EXCEPT ![c] = FALSE]
      /\ UNCHANGED <<task, work, budget, lost, excess>>
  BY DEF Spend!FailCall
<1>2. PICK count \in {0, Reserved} : spent' = spent + count
  BY DEF Spend!FailCall
<1>3. /\ call' \in [Callers -> BOOLEAN]
      /\ Reservations = Reservations' + Reserved /\ Reservations' \in Nat
  BY <1>1, CallEnds DEF BudgetInv
<1>4. /\ Running # {} /\ budget' \in LedgerRow /\ budget' = budget
  BY <1>1, Counted DEF BudgetInv, BudgetTyped
<1>5. /\ spent' \in Nat /\ Reservations' <= budget.used /\ budget.used <= budget.limit + excess
      /\ spent' + Reservations' <= budget.used + lost
  BY <1>2, <1>3, <1>4, Counted, Limits
<1> QED BY <1>1, <1>3, <1>4, <1>5, Counted, CallMoves

(* What dies with a process is what its last checkpoint did not have.      *)
LEMMA RestartKeepsBudget ==
    ASSUME LimitsGiven, BudgetInv, Spend!RestartBot
    PROVE  BudgetInv'
<1>1. /\ work' = [m \in Messages |-> Spend!NoWork] /\ budget' = Spend!NoBudget
      /\ call' = [c \in Callers |-> FALSE] /\ UNCHANGED <<task, spent, excess>>
      /\ lost' = IF spent - lost > task.ledger.used THEN spent - task.ledger.used ELSE lost
  BY DEF Spend!RestartBot
<1>2. task.ledger.used \in Nat /\ spent \in Nat /\ lost \in Nat
  BY DEF BudgetInv, BudgetTyped, SavedTask, LedgerRow
<1>3. lost' \in Nat /\ spent <= task.ledger.used + lost'
  BY <1>1, <1>2
<1>4. budget' \in LedgerRow
  BY <1>1, Limits DEF LedgerRow, Spend!NoBudget, Spend!Ledger
<1>5. BudgetTyped'
  BY <1>1, <1>3, <1>4, NoWorkIs DEF BudgetInv, BudgetTyped
<1>6. Running' = {} /\ InFlight' = {} /\ \A m \in Messages : CopyOK(m)'
  BY <1>1, NoWorkIs DEF Running, Spend!Works, InFlight, CopyOK
<1>7. Reservations' = 0
  <2>1. Cardinality({}) = 0
    BY FS_EmptySet
  <2> QED BY <1>6, <2>1, Limits DEF Reservations
<1>8. SpentOK'
  BY <1>1, <1>2, <1>3, <1>6, <1>7 DEF SpentOK
<1> QED BY <1>1, <1>5, <1>6, <1>8 DEF BudgetInv, WorkOK, Earned

(* Every reachable state keeps the saved ledger, the copies, the budget of *)
(* the work and the calls under way in the relation BudgetInv states.      *)
THEOREM BudgetInvariance ==
    ASSUME LimitsGiven
    PROVE  Spend!BudgetSpec => []BudgetInv
<1>1. ASSUME BudgetInv, [Spend!BudgetNext]_Spend!budgetVars PROVE BudgetInv'
  <2>1. ASSUME NEW m \in Messages,
               Spend!Prepare(m) \/ Spend!EnqueueWork(m) \/ Spend!Commit(m) \/ Spend!EndWork(m)
        PROVE  BudgetInv'
    BY <1>1, <2>1, PrepareKeepsBudget, EnqueueKeepsBudget, CommitKeepsBudget, EndKeepsBudget
  <2>2. ASSUME Spend!Checkpoint \/ Spend!RestartBot PROVE BudgetInv'
    BY <1>1, <2>2, CheckpointKeepsBudget, RestartKeepsBudget
  <2>3. ASSUME NEW c \in Callers, Spend!Reserve(c) \/ Spend!Reconcile(c) \/ Spend!FailCall(c)
        PROVE  BudgetInv'
    BY <1>1, <2>3, ReserveKeepsBudget, ReconcileKeepsBudget, FailKeepsBudget
  <2>4. CASE UNCHANGED Spend!budgetVars
    <3>1. UNCHANGED <<task, work, budget, call, spent, lost, excess>>
      BY <2>4 DEF Spend!budgetVars
    <3>2. \A m \in Messages : CopyOK(m)'
      BY <1>1, <3>1 DEF BudgetInv, CopyOK, Spend!Grantable, Spend!Granted
    <3>3. Running' = Running /\ InFlight' = InFlight /\ Reservations' = Reservations
      BY <3>1 DEF Running, Spend!Works, InFlight, Reservations
    <3>4. BudgetTyped' /\ Earned(task)'
      BY <1>1, <3>1 DEF BudgetInv, BudgetTyped, Earned
    <3>5. WorkOK' /\ SpentOK'
      BY <1>1, <3>1, <3>3 DEF BudgetInv, WorkOK, SpentOK
    <3> QED BY <3>2, <3>4, <3>5 DEF BudgetInv
  <2> QED BY <1>1, <2>1, <2>2, <2>3, <2>4 DEF Spend!BudgetNext
<1> QED BY <1>1, BudgetStart, PTL DEF Spend!BudgetSpec

(* Nothing that was spent is missing from the ledger that counts but what  *)
(* died unsaved with a process; the ledger exceeds its limit only by what  *)
(* the reports of calls exceeded their reservations; and the limit is the  *)
(* first allotment and one addition for each message that granted it.      *)
THEOREM SpendStaysBounded ==
    ASSUME LimitsGiven
    PROVE  Spend!BudgetSpec => []Spend!SpendSpansWorks
<1>1. BudgetInv => Spend!SpendSpansWorks
  <2> SUFFICES ASSUME BudgetInv PROVE Spend!SpendSpansWorks
    OBVIOUS
  <2>1. PICK ledger : ledger = (IF Running = {} THEN task.ledger ELSE budget)
    OBVIOUS
  <2>2. /\ ledger.used \in Nat /\ spent + Reservations <= ledger.used + lost
        /\ spent \in Nat /\ lost \in Nat /\ Reservations \in Nat
    BY <2>1, Counted DEF BudgetInv, BudgetTyped, SavedTask, LedgerRow, SpentOK
  <2>3. spent <= ledger.used + lost
    BY <2>2
  <2>4. ledger.used <= ledger.limit + excess /\ ledger.limit = Allotted + Added * Len(task.grants)
    BY <2>1 DEF BudgetInv, Earned, WorkOK, SpentOK
  <2>5. \A j, k \in 1..Len(task.grants) : task.grants[j] = task.grants[k] => j = k
    BY DEF BudgetInv, Earned
  <2> QED BY <2>1, <2>3, <2>4, <2>5 DEF Spend!SpendSpansWorks, Running
<1> QED BY <1>1, BudgetInvariance, PTL

-----------------------------------------------------------------------------
(* Sums over a set.  MapThenSumSet is a fold: a function of the subsets of *)
(* a set, each of which is worth one element more than the rest of it.     *)
(* That there is such a function, and how it changes with the summands, is *)
(* proved of the least number of elements for which it would fail.         *)

One(s) == CHOOSE x \in s : TRUE

Adds(sum, value, S) ==
    sum = [s \in SUBSET S |-> IF s = {} THEN 0 ELSE value[One(s)] + sum[s \ {One(s)}]]

LEMMA LeastNumber ==
    ASSUME NEW S, S \subseteq Nat, S # {}
    PROVE  \E x \in S : \A y \in S : x <= y
<1>1. PICK x \in S : \A y \in S : <<y, x>> \notin OpToRel(<, Nat)
  BY WFMin, NatLessThanWellFounded, Zenon
<1>2. ASSUME NEW y \in S PROVE x <= y
  <2>1. ~(y < x)
    BY <1>1 DEF OpToRel
  <2>2. x \in Nat /\ y \in Nat
    OBVIOUS
  <2> QED BY <2>1, <2>2
<1> QED BY <1>2

(* A set of numbers that has 0 and what follows is that of all of them.    *)
LEMMA AllNumbers ==
    ASSUME NEW S, 0 \in S, \A n \in Nat : n \in S => n + 1 \in S
    PROVE  Nat \subseteq S
<1> SUFFICES ASSUME Nat \ S # {} PROVE FALSE
  OBVIOUS
<1>1. PICK n \in Nat \ S : \A k \in Nat \ S : n <= k
  BY LeastNumber
<1>2. n # 0 /\ n - 1 \in Nat /\ n - 1 \in S
  BY <1>1
<1>3. (n - 1) + 1 \in S
  BY <1>2
<1> QED BY <1>1, <1>2, <1>3

LEMMA OneOfThem ==
    ASSUME NEW S, IsFiniteSet(S), NEW s \in SUBSET S, s # {}
    PROVE  /\ One(s) \in s /\ s \ {One(s)} \in SUBSET S
           /\ Cardinality(s) \in Nat /\ Cardinality(s) > 0
           /\ Cardinality(s \ {One(s)}) = Cardinality(s) - 1
<1>1. One(s) \in s
  BY DEF One
<1>2. IsFiniteSet(s)
  BY FS_Subset
<1>3. Cardinality(s) \in Nat /\ Cardinality(s) # 0
  BY <1>2, FS_CardinalityType, FS_EmptySet
<1>4. Cardinality(s \ {One(s)}) = Cardinality(s) - 1
  BY <1>1, <1>2, FS_RemoveElement
<1>5. s \ {One(s)} \in SUBSET S /\ Cardinality(s) > 0
  BY <1>3
<1> QED BY <1>1, <1>3, <1>4, <1>5

LEMMA SumExists ==
    ASSUME NEW S, IsFiniteSet(S), NEW value
    PROVE  \E sum : Adds(sum, value, S)
<1> DEFINE Step(sum) == [s \in SUBSET S |-> IF s = {} THEN 0 ELSE value[One(s)] + sum[s \ {One(s)}]]
           Upto(n) == \E sum : /\ sum = [s \in SUBSET S |-> sum[s]]
                               /\ \A s \in SUBSET S : Cardinality(s) <= n => sum[s] = Step(sum)[s]
           Good == {n \in Nat : Upto(n)}
<1>1. 0 \in Good
  <2>1. PICK sum : sum = [s \in SUBSET S |-> 0]
    OBVIOUS
  <2>2. ASSUME NEW s \in SUBSET S, Cardinality(s) <= 0 PROVE sum[s] = Step(sum)[s]
    <3>1. s # {} => Cardinality(s) \in Nat /\ Cardinality(s) > 0
      BY OneOfThem
    <3>2. s = {}
      BY <2>2, <3>1
    <3> QED BY <2>1, <3>2
  <2> QED BY <2>1, <2>2
<1>2. ASSUME NEW n \in Nat, n \in Good PROVE n + 1 \in Good
  <2>1. PICK sum : \A s \in SUBSET S : Cardinality(s) <= n => sum[s] = Step(sum)[s]
    BY <1>2
  <2>2. PICK next : next = Step(sum)
    OBVIOUS
  <2>3. ASSUME NEW s \in SUBSET S, Cardinality(s) <= n + 1 PROVE next[s] = Step(next)[s]
    <3>1. CASE s = {}
      BY <2>2, <3>1
    <3>2. CASE s # {}
      <4>1. PICK rest : rest = s \ {One(s)}
        OBVIOUS
      <4>2. rest \in SUBSET S /\ Cardinality(rest) <= n
        BY <2>3, <3>2, <4>1, OneOfThem
      <4>3. next[rest] = sum[rest]
        BY <2>1, <2>2, <4>2
      <4>4. next[s] = value[One(s)] + sum[rest] /\ Step(next)[s] = value[One(s)] + next[rest]
        BY <2>2, <3>2, <4>1
      <4> QED BY <4>3, <4>4
    <3> QED BY <3>1, <3>2
  <2>4. next = [s \in SUBSET S |-> next[s]]
    BY <2>2
  <2>5. Upto(n + 1)
    <3> HIDE DEF Step
    <3>1. \A s \in SUBSET S : Cardinality(s) <= n + 1 => next[s] = Step(next)[s]
      BY <2>3
    <3> QED BY <2>4, <3>1
  <2> HIDE DEF Upto
  <2> QED BY <2>5
<1>3. PICK most \in Nat : most = Cardinality(S)
  BY FS_CardinalityType
<1>4. Upto(most)
  <2> HIDE DEF Upto
  <2>1. \A n \in Nat : n \in Good => n + 1 \in Good
    BY <1>2
  <2>2. Nat \subseteq Good
    <3> HIDE DEF Good
    <3> QED BY <1>1, <2>1, AllNumbers
  <2> QED BY <2>2
<1>5. PICK sum : /\ sum = [s \in SUBSET S |-> sum[s]]
                 /\ \A s \in SUBSET S : Cardinality(s) <= most => sum[s] = Step(sum)[s]
  BY <1>4
<1>6. \A s \in SUBSET S : Cardinality(s) <= most
  BY <1>3, FS_Subset
<1>7. sum = Step(sum)
  BY <1>5, <1>6
<1> QED BY <1>7 DEF Adds

LEMMA SumIs ==
    ASSUME NEW S, IsFiniteSet(S), NEW value, NEW sum, Adds(sum, value, S)
    PROVE  /\ sum[{}] = 0
           /\ \A s \in SUBSET S : s # {} => sum[s] = value[One(s)] + sum[s \ {One(s)}]
<1>1. \A s \in SUBSET S : sum[s] = IF s = {} THEN 0 ELSE value[One(s)] + sum[s \ {One(s)}]
  BY DEF Adds
<1> QED BY <1>1

(* What holds of the empty set and, with any other, of it without one      *)
(* element, holds of all subsets.                                          *)
LEMMA AllSubsets ==
    ASSUME NEW S, IsFiniteSet(S), NEW Good, {} \in Good,
           \A s \in SUBSET S : s # {} /\ s \ {One(s)} \in Good => s \in Good
    PROVE  SUBSET S \subseteq Good
<1> DEFINE Sized == {n \in Nat : \A s \in SUBSET S : Cardinality(s) = n => s \in Good}
<1>1. 0 \in Sized
  <2>1. ASSUME NEW s \in SUBSET S, Cardinality(s) = 0 PROVE s = {}
    <3>1. s # {} => Cardinality(s) > 0 /\ Cardinality(s) \in Nat
      BY OneOfThem
    <3> QED BY <2>1, <3>1
  <2> QED BY <2>1
<1>2. ASSUME NEW n \in Nat, n \in Sized PROVE n + 1 \in Sized
  <2>1. ASSUME NEW s \in SUBSET S, Cardinality(s) = n + 1 PROVE s \in Good
    <3>1. s # {}
      BY <2>1, FS_EmptySet
    <3>2. s \ {One(s)} \in SUBSET S /\ Cardinality(s \ {One(s)}) = n
      BY <2>1, <3>1, OneOfThem
    <3> QED BY <1>2, <3>1, <3>2
  <2> QED BY <2>1
<1>3. Nat \subseteq Sized
  <2> HIDE DEF Sized
  <2> QED BY <1>1, <1>2, AllNumbers
<1>4. \A s \in SUBSET S : Cardinality(s) \in Nat
  BY FS_Subset, FS_CardinalityType
<1> QED BY <1>3, <1>4

LEMMA SumOfNumbers ==
    ASSUME NEW S, IsFiniteSet(S), NEW value \in [S -> Nat], NEW sum, Adds(sum, value, S)
    PROVE  \A s \in SUBSET S : sum[s] \in Nat
<1> DEFINE Good == {s \in SUBSET S : sum[s] \in Nat}
<1>1. {} \in Good
  BY SumIs
<1>2. ASSUME NEW s \in SUBSET S, s # {}, s \ {One(s)} \in Good PROVE s \in Good
  <2>1. sum[s] = value[One(s)] + sum[s \ {One(s)}]
    BY <1>2, SumIs
  <2>2. One(s) \in S
    BY <1>2, OneOfThem
  <2> QED BY <1>2, <2>1, <2>2
<1>3. SUBSET S \subseteq Good
  <2> HIDE DEF Good
  <2> QED BY <1>1, <1>2, AllSubsets
<1> QED BY <1>3

LEMMA SumOfZeros ==
    ASSUME NEW S, IsFiniteSet(S), NEW value, \A x \in S : value[x] = 0, NEW sum, Adds(sum, value, S)
    PROVE  sum[S] = 0
<1> DEFINE Good == {s \in SUBSET S : sum[s] = 0}
<1>1. {} \in Good
  BY SumIs
<1>2. ASSUME NEW s \in SUBSET S, s # {}, s \ {One(s)} \in Good PROVE s \in Good
  <2>1. sum[s] = value[One(s)] + sum[s \ {One(s)}]
    BY <1>2, SumIs
  <2>2. One(s) \in S
    BY <1>2, OneOfThem
  <2> QED BY <1>2, <2>1, <2>2
<1>3. SUBSET S \subseteq Good
  <2> HIDE DEF Good
  <2> QED BY <1>1, <1>2, AllSubsets
<1> QED BY <1>3

(* One summand moves, and the sum by as much.                              *)
LEMMA SumMoves ==
    ASSUME NEW S, IsFiniteSet(S), NEW before \in [S -> Nat], NEW after \in [S -> Nat], NEW c \in S,
           \A x \in S : x # c => after[x] = before[x],
           NEW old, Adds(old, before, S), NEW new, Adds(new, after, S)
    PROVE  new[S] + before[c] = old[S] + after[c]
<1> DEFINE Good == {s \in SUBSET S : IF c \in s THEN new[s] + before[c] = old[s] + after[c]
                                     ELSE new[s] = old[s]}
<1>1. {} \in Good
  BY SumIs
<1>2. ASSUME NEW s \in SUBSET S, s # {}, s \ {One(s)} \in Good PROVE s \in Good
  <2>0. new[s] = after[One(s)] + new[s \ {One(s)}] /\ old[s] = before[One(s)] + old[s \ {One(s)}]
    BY <1>2, SumIs
  <2>1. One(s) \in s /\ One(s) \in S /\ s \ {One(s)} \in SUBSET S
    BY <1>2, OneOfThem
  <2>2. new[s \ {One(s)}] \in Nat /\ old[s \ {One(s)}] \in Nat
    BY <2>1, SumOfNumbers
  <2>3. after[One(s)] \in Nat /\ before[One(s)] \in Nat /\ after[c] \in Nat /\ before[c] \in Nat
    BY <2>1
  <2>4. CASE One(s) = c
    <3>1. new[s \ {One(s)}] = old[s \ {One(s)}]
      BY <1>2, <2>4
    <3> QED BY <2>0, <2>1, <2>2, <2>3, <2>4, <3>1
  <2>5. CASE One(s) # c
    <3>1. after[One(s)] = before[One(s)]
      BY <2>1, <2>5
    <3>2. c \in s <=> c \in s \ {One(s)}
      BY <2>5
    <3> QED BY <1>2, <2>0, <2>1, <2>2, <2>3, <3>1, <3>2
  <2> QED BY <2>4, <2>5
<1>3. SUBSET S \subseteq Good
  <2> HIDE DEF Good
  <2> QED BY <1>1, <1>2, AllSubsets
<1> QED BY <1>3

LEMMA OneSum ==
    ASSUME NEW S, IsFiniteSet(S), NEW value, NEW old, Adds(old, value, S), NEW new, Adds(new, value, S)
    PROVE  new[S] = old[S]
<1> DEFINE Good == {s \in SUBSET S : new[s] = old[s]}
<1>1. {} \in Good
  BY SumIs
<1>2. ASSUME NEW s \in SUBSET S, s # {}, s \ {One(s)} \in Good PROVE s \in Good
  BY <1>2, SumIs
<1>3. SUBSET S \subseteq Good
  <2> HIDE DEF Good
  <2> QED BY <1>1, <1>2, AllSubsets
<1> QED BY <1>3

-----------------------------------------------------------------------------
(* What a learning batch spends.  The provider may fail to answer, exceed  *)
(* what it declared, or go on after the process is gone; what keeps the    *)
(* sum bounded is that only a call whose cost is known lets another one    *)
(* follow.                                                                 *)

(* Requests have rows in the order they were made, all but the last of     *)
(* them complete.                                                          *)
RowsOK ==
    /\ \A n \in Gateway!Calls : n > gate.requests => rows[n] = "none" /\ charged[n] = 0
    /\ \A n \in Gateway!Calls :
         /\ n <= gate.requests => rows[n] # "none"
         /\ n < gate.requests => rows[n] = "completed" /\ charged[n] <= Reserved

(* A call under way is the last request and had room for what it reserved. *)
UnderWay(total) ==
    gate.lock # Gateway!Unlocked =>
        /\ gate.requests > 0 /\ rows[gate.requests] = "started"
        /\ charged[gate.requests] <= Reserved
        /\ gate.alive => charged[gate.requests] = 0
        /\ total = gate.tokens + charged[gate.requests]
        /\ gate.tokens + Reserved <= MaxTokens

LastIsComplete == gate.requests > 0 => rows[gate.requests] = "completed"

(* Between two calls the total is known, unless the batch was stopped for  *)
(* one whose cost is not, or whose row could not be written.               *)
Between(total) ==
    gate.lock = Gateway!Unlocked =>
        /\ total <= MaxTokens + 1
        /\ total > MaxTokens => gate.requests > 0 /\ charged[gate.requests] > Reserved
        /\ gate.healthy /\ LastIsComplete => total = gate.tokens
        /\ ~gate.stopped => /\ LastIsComplete /\ total = gate.tokens /\ total <= MaxTokens
                            /\ gate.requests > 0 => charged[gate.requests] <= Reserved

ChargesOK == \E sum : Adds(sum, charged, Gateway!Calls) /\ UnderWay(sum[Gateway!Calls]) /\ Between(sum[Gateway!Calls])

ClosingOK ==
    closing.there => /\ ~gate.alive /\ gate.lock = Gateway!Unlocked
                     /\ closing.healthy = gate.healthy

GateRow == [alive : BOOLEAN, late : BOOLEAN, requests : 0..MaxRequests, tokens : Nat,
            stopped : BOOLEAN, healthy : BOOLEAN, lock : Clients \cup {Gateway!Unlocked}]

GatewayInv == Gateway!GatewayTypeOK /\ RowsOK /\ ChargesOK /\ ClosingOK

GatewayGiven == Gateway!GatewayAssumption /\ Gateway!Unlocked \notin Clients

LEMMA GatewayLimits ==
    ASSUME GatewayGiven
    PROVE  /\ MaxRequests \in Nat /\ MaxTokens \in Nat /\ Reserved \in Nat
           /\ Gateway!Calls \subseteq Nat \ {0} /\ IsFiniteSet(Gateway!Calls)
<1>1. MaxRequests \in Nat /\ MaxTokens \in Nat /\ Reserved \in Nat
  BY DEF GatewayGiven, Gateway!GatewayAssumption
<1>2. IsFiniteSet(Gateway!Calls)
  BY <1>1, FS_Interval DEF Gateway!Calls
<1> QED BY <1>1, <1>2 DEF Gateway!Calls

LEMMA GatewayStart ==
    ASSUME GatewayGiven, Gateway!GatewayInit
    PROVE  GatewayInv
<1>1. /\ gate = [alive |-> TRUE, late |-> FALSE, requests |-> 0, tokens |-> 0, stopped |-> FALSE,
                 healthy |-> TRUE, lock |-> Gateway!Unlocked]
      /\ revoked = FALSE /\ closing = [there |-> FALSE, requests |-> 0, healthy |-> FALSE]
      /\ rows = [n \in Gateway!Calls |-> "none"] /\ charged = [n \in Gateway!Calls |-> 0]
  BY DEF Gateway!GatewayInit, Gateway!NotClosed
<1>2. Gateway!GatewayTypeOK
  <2>1. gate \in GateRow
    BY <1>1, GatewayLimits DEF GateRow
  <2>2. closing \in [there : BOOLEAN, requests : 0..MaxRequests, healthy : BOOLEAN]
    BY <1>1, GatewayLimits
  <2>3. charged \in [Gateway!Calls -> 0..(Reserved + 1)]
    BY <1>1, GatewayLimits
  <2> QED BY <1>1, <2>1, <2>2, <2>3 DEF GateRow, Gateway!GatewayTypeOK
<1>3. RowsOK /\ ClosingOK
  BY <1>1, GatewayLimits DEF RowsOK, ClosingOK
<1>4. ChargesOK
  <2>1. \A n \in Gateway!Calls : charged[n] = 0
    BY <1>1
  <2>2. PICK sum : Adds(sum, charged, Gateway!Calls)
    BY SumExists, GatewayLimits
  <2>3. sum[Gateway!Calls] = 0
    BY <2>1, <2>2, SumOfZeros, GatewayLimits
  <2>4. UnderWay(0) /\ Between(0)
    BY <1>1, GatewayLimits DEF UnderWay, Between, LastIsComplete
  <2> QED BY <2>2, <2>3, <2>4 DEF ChargesOK
<1> QED BY <1>2, <1>3, <1>4 DEF GatewayInv

LEMMA GatewayTypes ==
    ASSUME GatewayGiven, Gateway!GatewayTypeOK
    PROVE  /\ gate.alive \in BOOLEAN /\ gate.stopped \in BOOLEAN /\ gate.healthy \in BOOLEAN
           /\ gate.requests \in 0..MaxRequests /\ gate.requests \in Nat /\ gate.tokens \in Nat
           /\ gate.lock \in Clients \cup {Gateway!Unlocked}
           /\ charged \in [Gateway!Calls -> Nat]
           /\ gate.requests > 0 => gate.requests \in Gateway!Calls
           /\ closing.there \in BOOLEAN /\ closing.healthy \in BOOLEAN
<1>1. charged \in [Gateway!Calls -> Nat]
  BY GatewayLimits DEF Gateway!GatewayTypeOK
<1>2. gate.requests \in 0..MaxRequests
  BY DEF Gateway!GatewayTypeOK
<1>3. gate.requests \in Nat /\ (gate.requests > 0 => gate.requests \in Gateway!Calls)
  BY <1>2, GatewayLimits DEF Gateway!Calls
<1> QED BY <1>1, <1>2, <1>3 DEF Gateway!GatewayTypeOK

(* A step that charges nothing keeps the sum.                              *)
LEMMA NothingCharged ==
    ASSUME GatewayGiven, GatewayInv, UNCHANGED charged,
           \A total \in Nat : UnderWay(total) /\ Between(total) => UnderWay(total)' /\ Between(total)'
    PROVE  ChargesOK'
<1>1. PICK sum : Adds(sum, charged, Gateway!Calls) /\ UnderWay(sum[Gateway!Calls]) /\ Between(sum[Gateway!Calls])
  BY DEF GatewayInv, ChargesOK
<1>2. sum[Gateway!Calls] \in Nat
  BY <1>1, GatewayLimits, GatewayTypes, SumOfNumbers DEF GatewayInv
<1>3. PICK total \in Nat : total = sum[Gateway!Calls]
  BY <1>2
<1>4. UnderWay(total)' /\ Between(total)'
  BY <1>1, <1>3
<1> QED BY <1>1, <1>3, <1>4 DEF ChargesOK


LEMMA DispatchKeepsGateway ==
    ASSUME GatewayGiven, GatewayInv, NEW c \in Clients, Gateway!Dispatch(c)
    PROVE  GatewayInv'
<1>1. PICK old \in GateRow : old = gate
  BY DEF GatewayInv, GateRow, Gateway!GatewayTypeOK
<1>2. gate.alive /\ gate.lock = Gateway!Unlocked /\ UNCHANGED <<revoked, closing, charged>> /\ ~closing.there
  BY DEF Gateway!Dispatch, GatewayInv, ClosingOK
<1>3. CASE gate' = [gate EXCEPT !.stopped = TRUE] /\ UNCHANGED rows
  <2>1. PICK new : new = [old EXCEPT !.stopped = TRUE]
    OBVIOUS
  <2>2. new \in GateRow /\ new.requests = old.requests /\ new.tokens = old.tokens /\ new.lock = old.lock
        /\ new.alive = old.alive /\ new.healthy = old.healthy /\ new.stopped
    BY <2>1 DEF GateRow
  <2>3. gate' = new
    BY <1>1, <1>3, <2>1
  <2>4. Gateway!GatewayTypeOK' /\ RowsOK' /\ ClosingOK'
    BY <1>1, <1>2, <1>3, <2>2, <2>3 DEF GatewayInv, GateRow, Gateway!GatewayTypeOK, RowsOK, ClosingOK
  <2>5. ChargesOK'
    BY <1>1, <1>2, <1>3, <2>2, <2>3, NothingCharged DEF UnderWay, Between, LastIsComplete
  <2> QED BY <2>4, <2>5 DEF GatewayInv
<1>4. CASE gate' = [gate EXCEPT !.healthy = FALSE] /\ UNCHANGED rows
  <2>1. PICK new : new = [old EXCEPT !.healthy = FALSE]
    OBVIOUS
  <2>2. new \in GateRow /\ new.requests = old.requests /\ new.tokens = old.tokens /\ new.lock = old.lock
        /\ new.alive = old.alive /\ new.stopped = old.stopped /\ ~new.healthy
    BY <2>1 DEF GateRow
  <2>3. gate' = new
    BY <1>1, <1>4, <2>1
  <2>4. Gateway!GatewayTypeOK' /\ RowsOK' /\ ClosingOK'
    BY <1>1, <1>2, <1>4, <2>2, <2>3 DEF GatewayInv, GateRow, Gateway!GatewayTypeOK, RowsOK, ClosingOK
  <2>5. ChargesOK'
    BY <1>1, <1>2, <1>4, <2>2, <2>3, NothingCharged DEF UnderWay, Between, LastIsComplete
  <2> QED BY <2>4, <2>5 DEF GatewayInv
<1>5. CASE /\ ~Gateway!Refused
           /\ rows' = [rows EXCEPT ![gate.requests + 1] = "started"]
           /\ gate' = [gate EXCEPT !.requests = @ + 1, !.lock = c]
  <2>1. PICK n \in Nat : n = gate.requests + 1
    BY GatewayTypes DEF GatewayInv
  <2>2. PICK new : new = [old EXCEPT !.requests = n, !.lock = c]
    OBVIOUS
  <2>3. gate' = new
    BY <1>1, <1>5, <2>1, <2>2
  <2>4. ~gate.stopped /\ gate.requests < MaxRequests /\ gate.tokens + Reserved <= MaxTokens
    BY <1>5 DEF Gateway!Refused, Gateway!AffordableReserve
  <2>5. n \in 0..MaxRequests /\ n \in Gateway!Calls /\ n > 0
    BY <2>1, <2>4, GatewayLimits, GatewayTypes DEF GatewayInv, Gateway!Calls
  <2>6. new \in GateRow /\ new.requests = n /\ new.tokens = old.tokens /\ new.lock = c
        /\ new.alive = old.alive /\ new.healthy = old.healthy /\ new.stopped = old.stopped
    BY <2>2, <2>5 DEF GateRow
  <2>7. rows' = [rows EXCEPT ![n] = "started"]
    BY <1>5, <2>1
  <2>8. rows' \in [Gateway!Calls -> {"none", "started", "completed", "failed"}]
    BY <2>7 DEF GatewayInv, Gateway!GatewayTypeOK
  <2>9. Gateway!GatewayTypeOK' /\ ClosingOK'
    BY <1>1, <1>2, <2>3, <2>6, <2>8 DEF GatewayInv, GateRow, Gateway!GatewayTypeOK, ClosingOK
  <2>10. PICK sum : /\ Adds(sum, charged, Gateway!Calls) /\ UnderWay(sum[Gateway!Calls])
                    /\ Between(sum[Gateway!Calls])
    BY DEF GatewayInv, ChargesOK
  <2>11. PICK total \in Nat : total = sum[Gateway!Calls]
    BY <2>10, GatewayLimits, GatewayTypes, SumOfNumbers DEF GatewayInv
  <2>12. LastIsComplete /\ total = gate.tokens /\ (gate.requests > 0 => charged[gate.requests] <= Reserved)
    BY <1>2, <2>4, <2>10, <2>11 DEF Between
  <2>13. RowsOK'
    <3>1. ASSUME NEW k \in Gateway!Calls, k > n PROVE rows'[k] = "none" /\ charged'[k] = 0
      <4>1. k > gate.requests /\ k # n
        BY <2>1, <3>1, GatewayLimits, GatewayTypes DEF GatewayInv
      <4> QED BY <1>2, <2>7, <4>1, <3>1 DEF GatewayInv, RowsOK, Gateway!GatewayTypeOK
    <3>2. ASSUME NEW k \in Gateway!Calls
          PROVE  /\ k <= n => rows'[k] # "none"
                 /\ k < n => rows'[k] = "completed" /\ charged'[k] <= Reserved
      <4>1. k = n \/ k < gate.requests \/ (k = gate.requests /\ gate.requests > 0) \/ k > n
        BY <2>1, GatewayLimits, GatewayTypes DEF GatewayInv
      <4>2. CASE k = n
        BY <2>5, <2>7, <4>2 DEF GatewayInv, Gateway!GatewayTypeOK
      <4>3. CASE k < gate.requests
        <5>1. k # n /\ k <= gate.requests
          BY <2>1, <4>3, GatewayLimits, GatewayTypes DEF GatewayInv
        <5> QED BY <1>2, <2>7, <4>3, <5>1 DEF GatewayInv, RowsOK, Gateway!GatewayTypeOK
      <4>4. CASE k = gate.requests /\ gate.requests > 0
        <5>1. k # n
          BY <2>1, <4>4, GatewayTypes DEF GatewayInv
        <5> QED BY <1>2, <2>7, <2>12, <4>4, <5>1 DEF GatewayInv, Gateway!GatewayTypeOK, LastIsComplete
      <4>5. CASE k > n
        BY <4>5, <2>5, GatewayLimits
      <4> QED BY <4>1, <4>2, <4>3, <4>4, <4>5
    <3> QED BY <2>3, <2>6, <3>1, <3>2 DEF RowsOK
  <2>14. ChargesOK'
    <3>1. charged[n] = 0
      BY <2>1, <2>5, GatewayTypes DEF GatewayInv, RowsOK
    <3>2. rows'[n] = "started"
      BY <2>5, <2>7 DEF GatewayInv, Gateway!GatewayTypeOK
    <3>3. c # Gateway!Unlocked
      BY DEF GatewayGiven
    <3>4. UnderWay(total)' /\ Between(total)'
      BY <1>1, <1>2, <2>3, <2>4, <2>5, <2>6, <2>12, <3>1, <3>2, <3>3, GatewayLimits, GatewayTypes
      DEF UnderWay, Between, GatewayInv
    <3> QED BY <1>2, <2>10, <2>11, <3>4 DEF ChargesOK
  <2> QED BY <2>9, <2>13, <2>14 DEF GatewayInv
<1> QED BY <1>3, <1>4, <1>5 DEF Gateway!Dispatch

LEMMA RestKeepsGateway ==
    ASSUME GatewayGiven, GatewayInv,
           Gateway!Revoke \/ Gateway!Deadline \/ Gateway!ClosesOrderly \/ UNCHANGED Gateway!gatewayVars
    PROVE  GatewayInv'
<1>1. PICK old \in GateRow : old = gate
  BY DEF GatewayInv, GateRow, Gateway!GatewayTypeOK
<1>2. UNCHANGED <<rows, charged>> /\ revoked' \in BOOLEAN
  BY DEF Gateway!Revoke, Gateway!Deadline, Gateway!ClosesOrderly, Gateway!gatewayVars, GatewayInv,
         Gateway!GatewayTypeOK
<1>3. ASSUME NEW new \in GateRow, gate' = new, new.requests = old.requests, new.tokens = old.tokens,
             new.lock = old.lock, new.healthy = old.healthy, new.stopped = old.stopped,
             new.alive => old.alive,
             closing' \in [there : BOOLEAN, requests : 0..MaxRequests, healthy : BOOLEAN], ClosingOK'
      PROVE  GatewayInv'
  <2>1. Gateway!GatewayTypeOK'
    BY <1>2, <1>3 DEF GatewayInv, GateRow, Gateway!GatewayTypeOK
  <2>2. RowsOK'
    BY <1>1, <1>2, <1>3 DEF GatewayInv, RowsOK
  <2>3. ChargesOK'
    BY <1>1, <1>2, <1>3, NothingCharged DEF UnderWay, Between, LastIsComplete
  <2> QED BY <1>3, <2>1, <2>2, <2>3 DEF GatewayInv
<1>4. closing \in [there : BOOLEAN, requests : 0..MaxRequests, healthy : BOOLEAN]
  BY DEF GatewayInv, Gateway!GatewayTypeOK
<1>5. CASE UNCHANGED <<gate, closing>>
  BY <1>1, <1>3, <1>4, <1>5 DEF GatewayInv, ClosingOK
<1>6. CASE Gateway!Deadline
  <2>1. PICK new : new = [old EXCEPT !.late = TRUE]
    OBVIOUS
  <2>2. /\ new \in GateRow /\ new.requests = old.requests /\ new.tokens = old.tokens
        /\ new.lock = old.lock /\ new.healthy = old.healthy /\ new.stopped = old.stopped
        /\ new.alive = old.alive
    BY <2>1 DEF GateRow
  <2>3. gate' = new /\ UNCHANGED closing
    BY <1>1, <1>6, <2>1 DEF Gateway!Deadline
  <2>4. ClosingOK'
    BY <1>1, <2>2, <2>3 DEF GatewayInv, ClosingOK
  <2> QED BY <1>3, <1>4, <2>2, <2>3, <2>4
<1>7. CASE Gateway!ClosesOrderly
  <2>1. PICK new : new = [old EXCEPT !.alive = FALSE]
    OBVIOUS
  <2>2. /\ new \in GateRow /\ new.requests = old.requests /\ new.tokens = old.tokens
        /\ new.lock = old.lock /\ new.healthy = old.healthy /\ new.stopped = old.stopped
        /\ ~new.alive
    BY <2>1 DEF GateRow
  <2>3. /\ gate' = new /\ gate.lock = Gateway!Unlocked
        /\ closing' = [there |-> TRUE, requests |-> gate.requests, healthy |-> gate.healthy]
    BY <1>1, <1>7, <2>1 DEF Gateway!ClosesOrderly
  <2>4. ClosingOK' /\ closing' \in [there : BOOLEAN, requests : 0..MaxRequests, healthy : BOOLEAN]
    BY <1>1, <2>2, <2>3, GatewayTypes DEF ClosingOK, GatewayInv
  <2> QED BY <1>3, <2>2, <2>3, <2>4
<1> QED BY <1>5, <1>6, <1>7 DEF Gateway!Revoke, Gateway!gatewayVars


(* What a request is charged moves the sum.                                *)
LEMMA OneCharged ==
    ASSUME GatewayGiven, charged \in [Gateway!Calls -> Nat], NEW n \in Gateway!Calls, NEW used \in Nat,
           charged' = [charged EXCEPT ![n] = used], NEW old, Adds(old, charged, Gateway!Calls)
    PROVE  \E new : /\ Adds(new, charged', Gateway!Calls) /\ new[Gateway!Calls] \in Nat
                    /\ new[Gateway!Calls] + charged[n] = old[Gateway!Calls] + used
<1>1. PICK after : after = [charged EXCEPT ![n] = used]
  OBVIOUS
<1>2. after \in [Gateway!Calls -> Nat] /\ after[n] = used
      /\ \A k \in Gateway!Calls : k # n => after[k] = charged[k]
  BY <1>1
<1>3. PICK new : Adds(new, after, Gateway!Calls)
  BY SumExists, GatewayLimits
<1>4. new[Gateway!Calls] + charged[n] = old[Gateway!Calls] + after[n]
  <2>1. PICK before \in [Gateway!Calls -> Nat] : before = charged
    OBVIOUS
  <2>2. PICK S : S = Gateway!Calls
    OBVIOUS
  <2>3. /\ IsFiniteSet(S) /\ before \in [S -> Nat] /\ after \in [S -> Nat] /\ n \in S
        /\ \A x \in S : x # n => after[x] = before[x]
        /\ Adds(old, before, S) /\ Adds(new, after, S)
    BY <1>2, <1>3, <2>1, <2>2, GatewayLimits
  <2>4. new[S] + before[n] = old[S] + after[n]
    BY <2>3, SumMoves
  <2> QED BY <2>1, <2>2, <2>4
<1>5. new[Gateway!Calls] \in Nat
  BY <1>2, <1>3, SumOfNumbers, GatewayLimits
<1> QED BY <1>1, <1>2, <1>3, <1>4, <1>5

LEMMA KillKeepsGateway ==
    ASSUME GatewayGiven, GatewayInv, Gateway!Killed
    PROVE  GatewayInv'
<1>1. PICK old \in GateRow : old = gate
  BY DEF GatewayInv, GateRow, Gateway!GatewayTypeOK
<1>2. PICK new : new = [old EXCEPT !.alive = FALSE]
  OBVIOUS
<1>3. /\ new \in GateRow /\ new.requests = old.requests /\ new.tokens = old.tokens
      /\ new.lock = old.lock /\ new.healthy = old.healthy /\ new.stopped = old.stopped
      /\ ~new.alive
  BY <1>2 DEF GateRow
<1>4. gate' = new /\ gate.alive /\ UNCHANGED <<revoked, rows, closing>>
  BY <1>1, <1>2 DEF Gateway!Killed
<1>5. ClosingOK'
  BY <1>1, <1>3, <1>4 DEF GatewayInv, ClosingOK
<1>6. ASSUME charged' \in [Gateway!Calls -> 0..(Reserved + 1)] PROVE Gateway!GatewayTypeOK'
  BY <1>3, <1>4, <1>6 DEF GatewayInv, GateRow, Gateway!GatewayTypeOK
<1>7. CASE gate.lock = Gateway!Unlocked
  <2>1. UNCHANGED charged
    BY <1>7 DEF Gateway!Killed
  <2>2. Gateway!GatewayTypeOK'
    BY <1>6, <2>1 DEF GatewayInv, Gateway!GatewayTypeOK
  <2>3. RowsOK'
    BY <1>1, <1>3, <1>4, <2>1 DEF GatewayInv, RowsOK
  <2>4. ChargesOK'
    BY <1>1, <1>3, <1>4, <2>1, NothingCharged DEF UnderWay, Between, LastIsComplete
  <2> QED BY <1>5, <2>2, <2>3, <2>4 DEF GatewayInv
<1>8. CASE gate.lock # Gateway!Unlocked
  <2>1. PICK used \in 0..Reserved : charged' = [charged EXCEPT ![gate.requests] = used]
    BY <1>8 DEF Gateway!Killed
  <2>2. PICK n : n = gate.requests
    OBVIOUS
  <2>3. PICK sum : Adds(sum, charged, Gateway!Calls) /\ UnderWay(sum[Gateway!Calls])
    BY DEF GatewayInv, ChargesOK
  <2>4. /\ n > 0 /\ n \in Gateway!Calls /\ n \in Nat /\ rows[n] = "started" /\ charged[n] = 0
        /\ sum[Gateway!Calls] = gate.tokens + charged[n] /\ gate.tokens + Reserved <= MaxTokens
    BY <1>4, <1>8, <2>2, <2>3, GatewayTypes DEF UnderWay, GatewayInv
  <2>5. used \in Nat /\ used <= Reserved /\ used \in 0..(Reserved + 1)
    BY GatewayLimits
  <2>6. PICK after : /\ Adds(after, charged', Gateway!Calls) /\ after[Gateway!Calls] \in Nat
                     /\ after[Gateway!Calls] + charged[n] = sum[Gateway!Calls] + used
    BY <2>1, <2>2, <2>3, <2>4, <2>5, GatewayTypes, OneCharged DEF GatewayInv
  <2>7. after[Gateway!Calls] = gate.tokens + used
    BY <2>4, <2>5, <2>6, GatewayTypes DEF GatewayInv
  <2>8. charged' \in [Gateway!Calls -> 0..(Reserved + 1)]
    BY <2>1, <2>2, <2>4, <2>5 DEF GatewayInv, Gateway!GatewayTypeOK
  <2>9. charged'[n] = used /\ \A k \in Gateway!Calls : k # n => charged'[k] = charged[k]
    BY <2>1, <2>2, <2>4, GatewayTypes DEF GatewayInv
  <2>10. RowsOK'
    <3>1. \A k \in Gateway!Calls : k > n \/ k < n => k # n
      BY <2>4, GatewayLimits
    <3> QED BY <1>1, <1>3, <1>4, <2>2, <2>9, <3>1 DEF GatewayInv, RowsOK
  <2>11. ChargesOK'
    <3>1. UnderWay(after[Gateway!Calls])'
      BY <1>1, <1>3, <1>4, <2>2, <2>4, <2>5, <2>7, <2>9 DEF UnderWay
    <3>2. Between(after[Gateway!Calls])'
      BY <1>1, <1>3, <1>4, <1>8 DEF Between
    <3> QED BY <2>6, <3>1, <3>2 DEF ChargesOK
  <2> QED BY <1>5, <1>6, <2>8, <2>10, <2>11 DEF GatewayInv
<1> QED BY <1>7, <1>8

LEMMA SettleKeepsGateway ==
    ASSUME GatewayGiven, GatewayInv, NEW c \in Clients, Gateway!Settle(c)
    PROVE  GatewayInv'
<1>1. PICK old \in GateRow : old = gate
  BY DEF GatewayInv, GateRow, Gateway!GatewayTypeOK
<1>2. PICK n : n = gate.requests
  OBVIOUS
<1>3. PICK used \in 0..(Reserved + 1), status \in {"completed", "failed"} :
          /\ status = "completed" => used <= Reserved
          /\ charged' = [charged EXCEPT ![n] = used]
          /\ LET tokens == gate.tokens + (IF status = "completed" THEN used ELSE 0) IN
             \/ /\ rows' = [rows EXCEPT ![n] = status]
                /\ gate' = [gate EXCEPT !.tokens = tokens, !.lock = Gateway!Unlocked,
                                        !.stopped = @ \/ status = "failed" \/ revoked]
             \/ /\ UNCHANGED rows
                /\ gate' = [gate EXCEPT !.tokens = tokens, !.lock = Gateway!Unlocked,
                                        !.stopped = TRUE, !.healthy = FALSE]
  BY <1>2 DEF Gateway!Settle
<1>4. /\ gate.alive /\ gate.lock = c /\ gate.lock # Gateway!Unlocked /\ UNCHANGED <<revoked, closing>>
      /\ ~closing.there
  BY DEF Gateway!Settle, GatewayGiven, GatewayInv, ClosingOK
<1>5. PICK sum : Adds(sum, charged, Gateway!Calls) /\ UnderWay(sum[Gateway!Calls])
  BY DEF GatewayInv, ChargesOK
<1>6. /\ n > 0 /\ n \in Gateway!Calls /\ n \in Nat /\ rows[n] = "started" /\ charged[n] = 0
      /\ sum[Gateway!Calls] = gate.tokens + charged[n] /\ gate.tokens + Reserved <= MaxTokens
  BY <1>2, <1>4, <1>5, GatewayTypes DEF UnderWay, GatewayInv
<1>7. used \in Nat /\ used <= Reserved + 1
  BY GatewayLimits
<1>8. PICK after : /\ Adds(after, charged', Gateway!Calls) /\ after[Gateway!Calls] \in Nat
                   /\ after[Gateway!Calls] + charged[n] = sum[Gateway!Calls] + used
  BY <1>3, <1>5, <1>6, <1>7, GatewayTypes, OneCharged DEF GatewayInv
<1>9. PICK tokens \in Nat : tokens = gate.tokens + (IF status = "completed" THEN used ELSE 0)
  BY <1>7, GatewayTypes DEF GatewayInv
<1>10. /\ after[Gateway!Calls] = gate.tokens + used
       /\ after[Gateway!Calls] <= MaxTokens + 1
       /\ after[Gateway!Calls] > MaxTokens => used > Reserved
       /\ status = "completed" => after[Gateway!Calls] = tokens /\ tokens <= MaxTokens
  BY <1>3, <1>6, <1>7, <1>8, <1>9, GatewayTypes, GatewayLimits DEF GatewayInv
<1>11. charged' \in [Gateway!Calls -> 0..(Reserved + 1)]
  BY <1>3, <1>6 DEF GatewayInv, Gateway!GatewayTypeOK
<1>12. charged'[n] = used /\ \A k \in Gateway!Calls : k # n => charged'[k] = charged[k]
  BY <1>3, <1>6, GatewayTypes DEF GatewayInv
<1>13. ASSUME NEW new \in GateRow, gate' = new, new.requests = n, new.tokens = tokens,
              new.lock = Gateway!Unlocked,
              \/ /\ rows' = [rows EXCEPT ![n] = status] /\ (new.stopped \/ status = "completed")
              \/ UNCHANGED rows /\ new.stopped /\ ~new.healthy
       PROVE  GatewayInv'
  <2>1. rows' \in [Gateway!Calls -> {"none", "started", "completed", "failed"}]
    BY <1>13 DEF GatewayInv, Gateway!GatewayTypeOK
  <2>2. Gateway!GatewayTypeOK' /\ ClosingOK'
    BY <1>4, <1>11, <1>13, <2>1 DEF GatewayInv, GateRow, Gateway!GatewayTypeOK, ClosingOK
  <2>3. /\ \A k \in Gateway!Calls : k # n => rows'[k] = rows[k]
        /\ rows'[n] # "none"
        /\ rows'[n] = "completed" => status = "completed"
        /\ new.healthy \/ ~new.stopped => rows'[n] = status
        /\ ~new.stopped => status = "completed"
    BY <1>6, <1>13 DEF GatewayInv, Gateway!GatewayTypeOK
  <2>4. RowsOK'
    <3>1. \A k \in Gateway!Calls : k > n \/ k < n => k # n
      BY <1>6, GatewayLimits
    <3> QED BY <1>2, <1>12, <1>13, <2>3, <3>1 DEF GatewayInv, RowsOK
  <2>5. ChargesOK'
    <3>1. UnderWay(after[Gateway!Calls])'
      BY <1>13 DEF UnderWay
    <3>2. ~new.stopped => charged'[n] <= Reserved
      BY <1>3, <1>12, <2>3
    <3>3. Between(after[Gateway!Calls])'
      BY <1>6, <1>10, <1>12, <1>13, <2>3, <3>2 DEF Between, LastIsComplete
    <3> QED BY <1>8, <3>1, <3>3 DEF ChargesOK
  <2> QED BY <2>2, <2>4, <2>5 DEF GatewayInv
<1>14. CASE /\ rows' = [rows EXCEPT ![n] = status]
            /\ gate' = [gate EXCEPT !.tokens = tokens, !.lock = Gateway!Unlocked,
                                    !.stopped = @ \/ status = "failed" \/ revoked]
  <2>1. PICK ended \in BOOLEAN : ended = (gate.stopped \/ status = "failed" \/ revoked)
    OBVIOUS
  <2>2. PICK new : new = [old EXCEPT !.tokens = tokens, !.lock = Gateway!Unlocked, !.stopped = ended]
    OBVIOUS
  <2>3. /\ new \in GateRow /\ new.requests = old.requests /\ new.tokens = tokens
        /\ new.lock = Gateway!Unlocked /\ new.stopped = ended
    BY <2>2 DEF GateRow
  <2>4. gate' = new /\ (new.stopped \/ status = "completed")
    BY <1>1, <1>14, <2>1, <2>2, <2>3
  <2> QED BY <1>1, <1>2, <1>13, <1>14, <2>3, <2>4
<1>15. CASE /\ UNCHANGED rows
            /\ gate' = [gate EXCEPT !.tokens = tokens, !.lock = Gateway!Unlocked,
                                    !.stopped = TRUE, !.healthy = FALSE]
  <2>1. PICK new : new = [old EXCEPT !.tokens = tokens, !.lock = Gateway!Unlocked, !.stopped = TRUE,
                                     !.healthy = FALSE]
    OBVIOUS
  <2>2. /\ new \in GateRow /\ new.requests = old.requests /\ new.tokens = tokens
        /\ new.lock = Gateway!Unlocked /\ new.stopped /\ ~new.healthy
    BY <2>1 DEF GateRow
  <2>3. gate' = new
    BY <1>1, <1>15, <2>1
  <2> QED BY <1>1, <1>2, <1>13, <1>15, <2>2, <2>3
<1> QED BY <1>3, <1>9, <1>14, <1>15

LEMMA GatewayStep ==
    ASSUME GatewayGiven, GatewayInv, [Gateway!GatewayNext]_Gateway!gatewayVars
    PROVE  GatewayInv'
BY DispatchKeepsGateway, SettleKeepsGateway, KillKeepsGateway, RestKeepsGateway DEF Gateway!GatewayNext

(* Every reachable state keeps the rows, what was charged and the gate in  *)
(* the relation GatewayInv states.                                         *)
THEOREM GatewayInvariance ==
    ASSUME GatewayGiven
    PROVE  Gateway!GatewaySpec => []GatewayInv
BY GatewayStart, GatewayStep, PTL DEF Gateway!GatewaySpec

(* The fold that the total is, is such a sum.                              *)
LEMMA ChargesAdd ==
    ASSUME GatewayGiven, charged \in [Gateway!Calls -> Nat]
    PROVE  \E sum : Adds(sum, charged, Gateway!Calls) /\ Gateway!Total = sum[Gateway!Calls]
<1> DEFINE Folds(sum) == sum = [s \in SUBSET Gateway!Calls |->
                IF s = {} THEN 0 ELSE charged[CHOOSE x \in s : TRUE] + sum[s \ {CHOOSE x \in s : TRUE}]]
<1>1. ASSUME NEW sum PROVE Folds(sum) <=> Adds(sum, charged, Gateway!Calls)
  BY DEF Adds, One
<1>2. \E sum : Folds(sum)
  <2>1. PICK sum : Adds(sum, charged, Gateway!Calls)
    BY SumExists, GatewayLimits
  <2>2. Folds(sum)
    BY <1>1, <2>1
  <2> HIDE DEF Folds
  <2> QED BY <2>2
<1>3. Folds(CHOOSE sum : Folds(sum))
  BY <1>2
<1>4. Gateway!Total = (CHOOSE sum : Folds(sum))[Gateway!Calls]
  BY DEF Gateway!Total, Gateway!MapThenSumSet, Gateway!MapThenFoldSet
<1> QED BY <1>1, <1>3, <1>4

(* A batch is not charged beyond its limit but for the one excess of a     *)
(* provider that does not keep what it declared; after a call of unknown   *)
(* cost there is no other; and a cost reported as known is all there was.  *)
THEOREM ChargesStayBounded ==
    ASSUME GatewayGiven
    PROVE  Gateway!GatewaySpec => []Gateway!SpendIsBounded
<1>1. GatewayInv => Gateway!SpendIsBounded
  <2> SUFFICES ASSUME GatewayInv PROVE Gateway!SpendIsBounded
    OBVIOUS
  <2>1. PICK sum : /\ Adds(sum, charged, Gateway!Calls) /\ UnderWay(sum[Gateway!Calls])
                   /\ Between(sum[Gateway!Calls])
    BY DEF GatewayInv, ChargesOK
  <2>2. PICK fold : Adds(fold, charged, Gateway!Calls) /\ Gateway!Total = fold[Gateway!Calls]
    BY ChargesAdd, GatewayTypes DEF GatewayInv
  <2>3. PICK total \in Nat : total = sum[Gateway!Calls] /\ total = Gateway!Total
    BY <2>1, <2>2, OneSum, GatewayLimits, GatewayTypes, SumOfNumbers DEF GatewayInv
  <2>4. PICK over : over = {n \in Gateway!Calls : charged[n] > Reserved}
    OBVIOUS
  <2>5. over \subseteq {gate.requests}
    <3>1. ASSUME NEW n \in Gateway!Calls, charged[n] > Reserved PROVE n = gate.requests
      <4>1. n > gate.requests \/ n < gate.requests \/ n = gate.requests
        BY GatewayLimits, GatewayTypes DEF GatewayInv
      <4>2. ~(n < gate.requests)
        BY <3>1, GatewayLimits, GatewayTypes DEF GatewayInv, RowsOK
      <4>3. ~(n > gate.requests)
        BY <3>1, GatewayLimits DEF GatewayInv, RowsOK
      <4> QED BY <4>1, <4>2, <4>3
    <3> QED BY <2>4, <3>1
  <2>6. Cardinality({}) = 0 /\ Cardinality({gate.requests}) = 1
    BY FS_EmptySet, FS_Singleton
  <2>7. over = {} \/ over = {gate.requests}
    BY <2>5
  <2>8. total > MaxTokens => over = {gate.requests} /\ total <= MaxTokens + 1
    <3>1. ASSUME total > MaxTokens PROVE gate.lock = Gateway!Unlocked
      <4> SUFFICES ASSUME gate.lock # Gateway!Unlocked PROVE FALSE
        OBVIOUS
      <4>1. PICK last \in Nat : last = charged[gate.requests]
        BY <2>1, GatewayTypes DEF UnderWay, GatewayInv
      <4> QED BY <2>1, <2>3, <3>1, <4>1, GatewayLimits, GatewayTypes DEF UnderWay, GatewayInv
    <3>2. ASSUME total > MaxTokens PROVE gate.requests \in over /\ total <= MaxTokens + 1
      BY <2>1, <2>3, <2>4, <3>1, <3>2, GatewayTypes DEF Between, GatewayInv
    <3> QED BY <2>7, <3>2
  <2>9. Cardinality(over) <= 1 /\ total <= MaxTokens + Cardinality(over)
    <3>1. total <= MaxTokens \/ (over = {gate.requests} /\ total <= MaxTokens + 1)
      BY <2>8, GatewayLimits
    <3> QED BY <2>6, <2>7, <3>1, GatewayLimits
  <2>10. \A n \in Gateway!Calls : charged[n] > 0 => rows[n] # "none"
    <3>1. \A n \in Gateway!Calls : n > gate.requests \/ n <= gate.requests
      BY GatewayLimits, GatewayTypes DEF GatewayInv
    <3> QED BY <3>1 DEF GatewayInv, RowsOK
  <2>11. ASSUME NEW n \in Gateway!Calls, rows[n] \in {"started", "failed"}, NEW m \in Gateway!Calls, m > n
         PROVE  rows[m] = "none"
    <3>1. ~(n < gate.requests)
      BY <2>11 DEF GatewayInv, RowsOK
    <3>2. m > gate.requests
      BY <2>11, <3>1, GatewayLimits, GatewayTypes DEF GatewayInv
    <3> QED BY <3>2 DEF GatewayInv, RowsOK
  <2>12. ASSUME Gateway!CostKnown PROVE total = gate.tokens
    <3>1. gate.lock = Gateway!Unlocked /\ gate.healthy
      BY <2>12 DEF Gateway!CostKnown, Gateway!LedgerComplete, GatewayInv, ClosingOK
    <3>2. LastIsComplete
      <4> SUFFICES ASSUME gate.requests > 0 PROVE rows[gate.requests] = "completed"
        BY DEF LastIsComplete
      <4>1. gate.requests \in Gateway!Calls /\ gate.requests <= gate.requests
        BY GatewayTypes DEF GatewayInv
      <4> QED BY <2>12, <4>1 DEF Gateway!CostKnown, GatewayInv, RowsOK
    <3> QED BY <2>1, <2>3, <3>1, <3>2 DEF Between
  <2>13. Gateway!Cardinality(over) = Cardinality(over)
    BY DEF Gateway!Cardinality, Cardinality, Gateway!IsFiniteSet, IsFiniteSet
  <2> QED BY <2>3, <2>4, <2>9, <2>10, <2>11, <2>12, <2>13 DEF Gateway!SpendIsBounded
<1> QED BY <1>1, GatewayInvariance, PTL

-----------------------------------------------------------------------------
(* A batch.  Whoever works on it may be gone, late or replaced between two *)
(* transactions, so that a verdict stands has to follow from what is in    *)
(* the store: nobody has a lease on what is completed, and what is         *)
(* canceled says so twice.                                                 *)

JobRow == [status : {"queued", "running", "paused"} \cup Batch!Verdict, cancel : BOOLEAN,
           lease : Runners \cup {Batch!Nobody}, until : Nat, started : Nat, calls : Nat, seconds : Nat]
ChunkRow == [calls : Nat, translated : BOOLEAN]
RunnerRow == [at : {"away", "next", "call", "progress", "ending", "closing", "published"},
              chunk : Chunks \cup {0}, failures : {0, 1}]

BatchTyped ==
    /\ now \in 0..MaxClock /\ job \in JobRow
    /\ chunks \in [Chunks -> ChunkRow] /\ runner \in [Runners -> RunnerRow]

AllTranslated == \A c \in Chunks : chunks[c].translated

VerdictsOK ==
    /\ job.status = "canceled" <=> job.cancel
    /\ job.status = "completed" => job.lease = Batch!Nobody /\ AllTranslated

PublishedOK == \A r \in Runners : runner[r].at = "published" => AllTranslated

(* No second is charged twice: those since the call under way began are    *)
(* not charged yet.                                                        *)
TimeOK ==
    /\ job.seconds <= now
    /\ job.started # Batch!Never => job.seconds <= job.started /\ job.started <= now

(* The calls of the chunks, as a function, and their sum.                  *)
Paid == [c \in Chunks |-> chunks[c].calls]
CallsOK == job.calls <= MaxCalls /\ \E sum : Adds(sum, Paid, Chunks) /\ job.calls = sum[Chunks]

BatchInv == BatchTyped /\ VerdictsOK /\ PublishedOK /\ TimeOK /\ CallsOK

BatchGiven ==
    /\ IsFiniteSet(Chunks) /\ Chunks \subseteq Nat /\ Batch!Nobody \notin Runners
    /\ {MaxCalls, MaxSeconds, Lease, MaxClock} \subseteq Nat

LEMMA BatchLimits ==
    ASSUME BatchGiven
    PROVE  /\ IsFiniteSet(Chunks) /\ Chunks \subseteq Nat
           /\ MaxCalls \in Nat /\ MaxSeconds \in Nat /\ Lease \in Nat /\ MaxClock \in Nat
           /\ Batch!Never \in Nat /\ Batch!Never > MaxClock
BY DEF BatchGiven, Batch!Never

LEMMA BatchStart ==
    ASSUME BatchGiven, Batch!BatchInit
    PROVE  BatchInv
<1>1. /\ now = 0
      /\ job = [status |-> "queued", cancel |-> FALSE, lease |-> Batch!Nobody, until |-> 0,
                started |-> Batch!Never, calls |-> 0, seconds |-> 0]
      /\ chunks = [c \in Chunks |-> [calls |-> 0, translated |-> FALSE]]
      /\ runner = [r \in Runners |-> [at |-> "away", chunk |-> 0, failures |-> 0]]
  BY DEF Batch!BatchInit, Batch!Away
<1>2. BatchTyped
  <2>1. job \in JobRow
    BY <1>1, BatchLimits DEF JobRow
  <2>2. chunks \in [Chunks -> ChunkRow]
    BY <1>1 DEF ChunkRow
  <2>3. runner \in [Runners -> RunnerRow]
    BY <1>1 DEF RunnerRow
  <2> QED BY <1>1, <2>1, <2>2, <2>3, BatchLimits DEF BatchTyped
<1>3. VerdictsOK /\ PublishedOK /\ TimeOK
  BY <1>1 DEF VerdictsOK, PublishedOK, TimeOK
<1>4. CallsOK
  <2>1. \A c \in Chunks : Paid[c] = 0
    BY <1>1 DEF Paid
  <2>2. PICK sum : Adds(sum, Paid, Chunks)
    BY SumExists, BatchLimits
  <2>3. sum[Chunks] = 0
    BY <2>1, <2>2, SumOfZeros, BatchLimits
  <2> QED BY <1>1, <2>2, <2>3, BatchLimits DEF CallsOK
<1> QED BY <1>2, <1>3, <1>4 DEF BatchInv


LEMMA CallsStay ==
    ASSUME CallsOK, job'.calls = job.calls, \A c \in Chunks : chunks'[c].calls = chunks[c].calls
    PROVE  CallsOK'
<1>1. Paid' = Paid
  BY DEF Paid
<1> QED BY <1>1 DEF CallsOK

(* A step of a runner, put together.                                       *)
LEMMA BatchMoves ==
    ASSUME BatchGiven, BatchInv, UNCHANGED now,
           NEW r \in Runners, NEW new \in RunnerRow, runner' = [runner EXCEPT ![r] = new],
           new.at = "published" => AllTranslated,
           job' \in JobRow, chunks' \in [Chunks -> ChunkRow],
           \A c \in Chunks : chunks[c].translated => chunks'[c].translated,
           job.status \in Batch!Verdict => job'.status = job.status,
           VerdictsOK', TimeOK', CallsOK'
    PROVE  BatchInv' /\ Batch!VerdictKept
<1>1. BatchTyped'
  BY DEF BatchInv, BatchTyped
<1>2. AllTranslated => AllTranslated'
  BY DEF AllTranslated
<1>3. PublishedOK'
  BY <1>2 DEF BatchInv, BatchTyped, PublishedOK
<1>4. Batch!VerdictKept
  <2>1. job'.status = "completed" => \A c \in Chunks : chunks'[c].translated
    BY DEF VerdictsOK, AllTranslated
  <2> QED BY <2>1 DEF Batch!VerdictKept
<1> QED BY <1>1, <1>3, <1>4 DEF BatchInv

(* ... and one that leaves the store alone.                                *)
LEMMA RunnerMoves ==
    ASSUME BatchGiven, BatchInv, UNCHANGED <<now, job, chunks>>,
           NEW r \in Runners, NEW new \in RunnerRow, runner' = [runner EXCEPT ![r] = new],
           new.at = "published" => AllTranslated
    PROVE  BatchInv' /\ Batch!VerdictKept
<1>1. VerdictsOK' /\ TimeOK'
  BY DEF BatchInv, VerdictsOK, AllTranslated, TimeOK
<1>2. CallsOK'
  BY CallsStay DEF BatchInv
<1> QED BY <1>1, <1>2, BatchMoves DEF BatchInv, BatchTyped

LEMMA RunnerAt ==
    ASSUME BatchTyped, NEW r \in Runners,
           NEW place \in {"away", "next", "call", "progress", "ending", "closing", "published"},
           Batch!Goto(r, place)
    PROVE  \E new \in RunnerRow : new.at = place /\ runner' = [runner EXCEPT ![r] = new]
<1>1. PICK old \in RunnerRow : old = runner[r]
  BY DEF BatchTyped
<1>2. PICK new : new = [old EXCEPT !.at = place]
  OBVIOUS
<1>3. new \in RunnerRow /\ new.at = place
  BY <1>2 DEF RunnerRow
<1> QED BY <1>1, <1>2, <1>3 DEF Batch!Goto

LEMMA AwayIs == Batch!Away \in RunnerRow /\ Batch!Away.at = "away"
BY DEF Batch!Away, RunnerRow

LEMMA AwayAt ==
    ASSUME NEW place \in {"progress", "closing", "published"}
    PROVE  [Batch!Away EXCEPT !.at = place] \in RunnerRow /\ [Batch!Away EXCEPT !.at = place].at = place
BY DEF Batch!Away, RunnerRow

(* What is charged was not charged before.                                 *)
LEMMA Charged ==
    ASSUME BatchGiven, BatchInv, NEW limit \in Nat
    PROVE  Batch!Charge(limit) \in Nat /\ job.seconds + Batch!Charge(limit) <= now
<1>1. job.seconds \in Nat /\ job.started \in Nat /\ now \in Nat
  BY BatchLimits DEF BatchInv, BatchTyped, JobRow
<1>2. CASE job.started = Batch!Never
  BY <1>1, <1>2 DEF Batch!Charge, BatchInv, TimeOK
<1>3. CASE job.started # Batch!Never
  <2>1. /\ job.seconds <= job.started /\ job.started <= now
        /\ Batch!Charge(limit) = Batch!Min({limit, now - job.started})
    BY <1>3 DEF BatchInv, TimeOK, Batch!Charge
  <2>2. PICK since \in Nat : since = now - job.started
    BY <1>1, <2>1
  <2>3. \E x \in {limit, since} : \A y \in {limit, since} : x <= y
    BY LeastNumber
  <2>4. Batch!Min({limit, since}) \in {limit, since} /\ Batch!Min({limit, since}) <= since
    BY <2>3 DEF Batch!Min
  <2> QED BY <1>1, <2>1, <2>2, <2>4
<1> QED BY <1>2, <1>3

LEMMA ClaimKeepsBatch ==
    ASSUME BatchGiven, BatchInv, NEW r \in Runners, Batch!Claim(r)
    PROVE  BatchInv' /\ Batch!VerdictKept
<1>1. /\ ~job.cancel /\ job.status # "completed" /\ Batch!Goto(r, "next")
      /\ UNCHANGED <<now, chunks>>
  BY DEF Batch!Claim
<1>2. PICK old \in JobRow : old = job
  BY DEF BatchInv, BatchTyped
<1>3. PICK seconds \in Nat : seconds = old.seconds + Batch!Charge(Lease) /\ seconds <= now
  BY <1>2, Charged, BatchLimits DEF JobRow
<1>4. PICK new : new = [old EXCEPT !.seconds = seconds, !.lease = r, !.until = now + Lease,
                                   !.started = Batch!Never, !.status = "running"]
  OBVIOUS
<1>5. /\ new \in JobRow /\ new.status = "running" /\ new.cancel = old.cancel /\ new.calls = old.calls
      /\ new.seconds = seconds /\ new.started = Batch!Never
  <2>1. now + Lease \in Nat /\ Batch!Never \in Nat
    BY BatchLimits DEF BatchInv, BatchTyped
  <2> QED BY <1>3, <1>4, <2>1 DEF JobRow
<1>6. job' = new
  BY <1>2, <1>3, <1>4 DEF Batch!Claim, Batch!Overdue
<1>7. VerdictsOK' /\ TimeOK'
  BY <1>1, <1>2, <1>3, <1>5, <1>6 DEF VerdictsOK, TimeOK
<1>8. CallsOK'
  BY <1>1, <1>2, <1>5, <1>6, CallsStay DEF BatchInv
<1>9. job.status \notin Batch!Verdict
  BY <1>1 DEF BatchInv, VerdictsOK, Batch!Verdict
<1>10. PICK row \in RunnerRow : row.at = "next" /\ runner' = [runner EXCEPT ![r] = row]
  BY <1>1, RunnerAt DEF BatchInv
<1>11. chunks' \in [Chunks -> ChunkRow] /\ job' \in JobRow
  BY <1>1, <1>5, <1>6 DEF BatchInv, BatchTyped
<1> QED BY <1>1, <1>7, <1>8, <1>9, <1>10, <1>11, BatchMoves

(* The first chunk that is missing.                                        *)
LEMMA FirstMissing ==
    ASSUME BatchGiven, Batch!Missing # {}
    PROVE  Batch!Min(Batch!Missing) \in Chunks
<1>1. Batch!Missing \subseteq Nat /\ Batch!Missing \subseteq Chunks
  BY BatchLimits DEF Batch!Missing
<1>2. \E x \in Batch!Missing : \A y \in Batch!Missing : x <= y
  BY <1>1, LeastNumber
<1> QED BY <1>1, <1>2 DEF Batch!Min

(* A call is paid for by the job and by its chunk.                         *)
LEMMA PayKeepsBatch ==
    ASSUME BatchGiven, BatchInv, NEW r \in Runners, UNCHANGED now,
           ~job.cancel, Batch!Missing # {}, Batch!Affordable, Batch!Leased(r),
           job' = [job EXCEPT !.calls = @ + 1, !.started = now, !.until = now + Lease],
           chunks' = [chunks EXCEPT ![Batch!Min(Batch!Missing)].calls = @ + 1],
           runner' = [runner EXCEPT ![r] = [@ EXCEPT !.at = "call", !.chunk = Batch!Min(Batch!Missing)]]
    PROVE  BatchInv' /\ Batch!VerdictKept
<1>1. PICK first \in Chunks : first = Batch!Min(Batch!Missing)
  BY FirstMissing
<1>2. PICK old \in JobRow : old = job
  BY DEF BatchInv, BatchTyped
<1>0. PICK count \in Nat, until \in Nat : count = old.calls + 1 /\ until = now + Lease
  BY BatchLimits DEF JobRow, BatchInv, BatchTyped
<1>3. PICK new : new = [old EXCEPT !.calls = count, !.started = now, !.until = until]
  OBVIOUS
<1>4. now \in Nat /\ now <= MaxClock /\ now + Lease \in Nat
  BY BatchLimits DEF BatchInv, BatchTyped
<1>5. /\ new \in JobRow /\ new.status = old.status /\ new.cancel = old.cancel /\ new.lease = old.lease
      /\ new.calls = old.calls + 1 /\ new.started = now /\ new.seconds = old.seconds
  BY <1>0, <1>3, <1>4 DEF JobRow
<1>6. job' = new
  BY <1>0, <1>2, <1>3
<1>7. PICK chunk \in ChunkRow : chunk = chunks[first]
  BY DEF BatchInv, BatchTyped
<1>8. PICK paid : paid = [chunk EXCEPT !.calls = @ + 1]
  OBVIOUS
<1>9. paid \in ChunkRow /\ paid.calls = chunk.calls + 1 /\ paid.translated = chunk.translated
  BY <1>8 DEF ChunkRow
<1>10. /\ chunks' = [chunks EXCEPT ![first] = paid] /\ chunks' \in [Chunks -> ChunkRow]
       /\ chunks'[first] = paid /\ \A c \in Chunks : c # first => chunks'[c] = chunks[c]
  BY <1>1, <1>7, <1>8, <1>9 DEF BatchInv, BatchTyped
<1>11. \A c \in Chunks : chunks'[c].translated = chunks[c].translated
  BY <1>7, <1>9, <1>10
<1>12. CallsOK'
  <2>1. PICK sum : Adds(sum, Paid, Chunks) /\ job.calls = sum[Chunks]
    BY DEF BatchInv, CallsOK
  <2>2. Paid \in [Chunks -> Nat] /\ Paid' \in [Chunks -> Nat]
    BY <1>10 DEF BatchInv, BatchTyped, Paid, ChunkRow
  <2>3. PICK total : Adds(total, Paid', Chunks)
    BY SumExists, BatchLimits
  <2>4. Paid'[first] = Paid[first] + 1 /\ \A c \in Chunks : c # first => Paid'[c] = Paid[c]
    BY <1>7, <1>9, <1>10 DEF Paid
  <2>5. total[Chunks] + Paid[first] = sum[Chunks] + Paid'[first]
    BY <2>1, <2>2, <2>3, <2>4, SumMoves, BatchLimits
  <2>6. sum[Chunks] \in Nat /\ total[Chunks] \in Nat /\ Paid[first] \in Nat
    BY <2>1, <2>2, <2>3, SumOfNumbers, BatchLimits
  <2>7. total[Chunks] = sum[Chunks] + 1
    BY <2>4, <2>5, <2>6
  <2>8. old.calls < MaxCalls /\ old.calls \in Nat
    BY <1>2 DEF Batch!Affordable, JobRow
  <2> QED BY <1>2, <1>5, <1>6, <2>1, <2>3, <2>7, <2>8, BatchLimits DEF CallsOK
<1>13. VerdictsOK'
  BY <1>2, <1>5, <1>6, <1>11 DEF BatchInv, VerdictsOK, AllTranslated
<1>14. TimeOK'
  BY <1>2, <1>4, <1>5, <1>6 DEF BatchInv, TimeOK
<1>15. PICK was \in RunnerRow : was = runner[r]
  BY DEF BatchInv, BatchTyped
<1>16. PICK row : row = [was EXCEPT !.at = "call", !.chunk = first]
  OBVIOUS
<1>17. row \in RunnerRow /\ row.at = "call" /\ runner' = [runner EXCEPT ![r] = row]
  BY <1>1, <1>15, <1>16 DEF RunnerRow
<1>18. /\ job' \in JobRow /\ job'.status = job.status
       /\ \A c \in Chunks : chunks[c].translated => chunks'[c].translated
  BY <1>2, <1>5, <1>6, <1>11
<1> QED BY <1>10, <1>12, <1>13, <1>14, <1>17, <1>18, BatchMoves


LEMMA ReserveKeepsBatch ==
    ASSUME BatchGiven, BatchInv, NEW r \in Runners, Batch!Reserve(r)
    PROVE  BatchInv' /\ Batch!VerdictKept
<1>1. Batch!Leased(r) /\ UNCHANGED now
  BY DEF Batch!Reserve
<1>2. CASE Batch!Goto(r, "ending") /\ UNCHANGED <<job, chunks>>
  <2>1. PICK row \in RunnerRow : row.at = "ending" /\ runner' = [runner EXCEPT ![r] = row]
    BY <1>2, RunnerAt DEF BatchInv
  <2> QED BY <1>1, <1>2, <2>1, RunnerMoves
<1>3. CASE /\ ~job.cancel /\ job' = [job EXCEPT !.status = "paused"]
           /\ Batch!Goto(r, "ending") /\ UNCHANGED chunks
  <2>1. PICK old \in JobRow : old = job
    BY DEF BatchInv, BatchTyped
  <2>2. PICK new : new = [old EXCEPT !.status = "paused"]
    OBVIOUS
  <2>3. /\ new \in JobRow /\ new.status = "paused" /\ new.cancel = old.cancel
        /\ new.calls = old.calls /\ new.started = old.started /\ new.seconds = old.seconds
    BY <2>2 DEF JobRow
  <2>4. job' = new
    BY <1>3, <2>1, <2>2
  <2>5. job.lease # Batch!Nobody
    BY <1>1 DEF Batch!Leased, BatchGiven
  <2>6. job.status \notin Batch!Verdict
    BY <1>3, <2>5 DEF BatchInv, VerdictsOK, Batch!Verdict
  <2>7. VerdictsOK' /\ TimeOK'
    BY <1>1, <1>3, <2>1, <2>3, <2>4 DEF BatchInv, VerdictsOK, TimeOK
  <2>8. CallsOK'
    BY <1>3, <2>1, <2>3, <2>4, CallsStay DEF BatchInv
  <2>9. PICK row \in RunnerRow : row.at = "ending" /\ runner' = [runner EXCEPT ![r] = row]
    BY <1>3, RunnerAt DEF BatchInv
  <2>10. job' \in JobRow /\ chunks' \in [Chunks -> ChunkRow]
    BY <1>3, <2>3, <2>4 DEF BatchInv, BatchTyped
  <2> QED BY <1>1, <1>3, <2>6, <2>7, <2>8, <2>9, <2>10, BatchMoves
<1>4. CASE /\ ~job.cancel /\ Batch!Missing # {} /\ Batch!Affordable
           /\ job' = [job EXCEPT !.calls = @ + 1, !.started = now, !.until = now + Lease]
           /\ chunks' = [chunks EXCEPT ![Batch!Min(Batch!Missing)].calls = @ + 1]
           /\ runner' = [runner EXCEPT ![r] = [@ EXCEPT !.at = "call", !.chunk = Batch!Min(Batch!Missing)]]
  BY <1>1, <1>4, PayKeepsBatch
<1> QED BY <1>2, <1>3, <1>4 DEF Batch!Reserve

LEMMA FinishKeepsBatch ==
    ASSUME BatchGiven, BatchInv, NEW r \in Runners,
           NEW want \in {"translated", "too_long", "failed"}, Batch!FinishCall(r, want)
    PROVE  BatchInv' /\ Batch!VerdictKept
<1>1. Batch!Leased(r) /\ UNCHANGED now
  BY DEF Batch!FinishCall
<1>2. PICK old \in JobRow : old = job
  BY DEF BatchInv, BatchTyped
<1>3. PICK seconds \in Nat : seconds = old.seconds + Batch!Charge(MaxClock) /\ seconds <= now
  BY <1>2, Charged, BatchLimits DEF JobRow
<1>4. PICK billed : billed = [old EXCEPT !.seconds = seconds, !.started = Batch!Never]
  OBVIOUS
<1>5. /\ billed \in JobRow /\ billed.status = old.status /\ billed.cancel = old.cancel
      /\ billed.lease = old.lease /\ billed.calls = old.calls
      /\ billed.seconds = seconds /\ billed.started = Batch!Never
  BY <1>3, <1>4, BatchLimits DEF JobRow
<1>6. PICK paused : paused = [billed EXCEPT !.status = "paused"]
  OBVIOUS
<1>7. /\ paused \in JobRow /\ paused.status = "paused" /\ paused.cancel = old.cancel
      /\ paused.calls = old.calls /\ paused.seconds = seconds /\ paused.started = Batch!Never
  BY <1>5, <1>6 DEF JobRow
<1>8. job' = IF want = "too_long" /\ ~old.cancel THEN paused ELSE billed
  BY <1>2, <1>3, <1>4, <1>6 DEF Batch!FinishCall
<1>9. /\ job' \in JobRow /\ job'.calls = job.calls /\ job'.cancel = job.cancel
      /\ job'.seconds <= now /\ job'.started = Batch!Never
      /\ \/ job'.status = job.status /\ job'.lease = job.lease
         \/ ~job.cancel /\ job'.status = "paused"
  BY <1>2, <1>3, <1>5, <1>7, <1>8
<1>10. job.lease # Batch!Nobody /\ job.status # "completed"
  BY <1>1 DEF Batch!Leased, BatchGiven, BatchInv, VerdictsOK
<1>11. /\ chunks' \in [Chunks -> ChunkRow]
       /\ \A c \in Chunks : /\ chunks[c].translated => chunks'[c].translated
                            /\ chunks'[c].calls = chunks[c].calls
  <2>1. CASE chunks' = chunks
    BY <2>1 DEF BatchInv, BatchTyped
  <2>2. CASE chunks' = [chunks EXCEPT ![runner[r].chunk].translated = TRUE]
    <3>1. ASSUME NEW c \in Chunks
          PROVE  \E row \in ChunkRow : /\ chunks'[c] = row /\ row.calls = chunks[c].calls
                                       /\ chunks[c].translated => row.translated
      <4>1. PICK was \in ChunkRow : was = chunks[c]
        BY DEF BatchInv, BatchTyped
      <4>2. PICK row : row = [was EXCEPT !.translated = TRUE]
        OBVIOUS
      <4>3. row \in ChunkRow /\ row.calls = was.calls /\ row.translated
        BY <4>2 DEF ChunkRow
      <4>4. chunks'[c] = row \/ chunks'[c] = was
        BY <2>2, <4>1, <4>2 DEF BatchInv, BatchTyped
      <4> QED BY <4>1, <4>3, <4>4
    <3>2. chunks' = [c \in Chunks |-> chunks'[c]]
      BY <2>2 DEF BatchInv, BatchTyped
    <3> QED BY <3>1, <3>2
  <2> QED BY <2>1, <2>2 DEF Batch!FinishCall
<1>12. VerdictsOK'
  BY <1>9, <1>10 DEF BatchInv, VerdictsOK
<1>13. TimeOK'
  BY <1>1, <1>9 DEF TimeOK
<1>14. CallsOK'
  BY <1>9, <1>11, CallsStay DEF BatchInv
<1>15. job.status \in Batch!Verdict => job'.status = job.status
  BY <1>9, <1>10 DEF BatchInv, VerdictsOK, Batch!Verdict
<1>16. PICK row : runner' = [runner EXCEPT ![r] = row] /\ row \in RunnerRow /\ row.at # "published"
  <2>1. CASE want = "failed"
    <3>1. PICK row : row = [at |-> IF runner[r].failures = 1 THEN "ending" ELSE "next", chunk |-> 0,
                            failures |-> IF runner[r].failures = 1 THEN 0 ELSE 1]
      OBVIOUS
    <3>2. row \in RunnerRow /\ row.at # "published"
      BY <3>1 DEF RunnerRow
    <3>3. runner' = [runner EXCEPT ![r] = row]
      BY <2>1, <3>1 DEF Batch!FinishCall
    <3> QED BY <3>2, <3>3
  <2>2. CASE want # "failed"
    <3>1. PICK row : row = [Batch!Away EXCEPT !.at = "progress"]
      OBVIOUS
    <3>2. row \in RunnerRow /\ row.at = "progress"
      BY <3>1, AwayAt
    <3>3. runner' = [runner EXCEPT ![r] = row]
      BY <2>2, <3>1 DEF Batch!FinishCall
    <3> QED BY <3>2, <3>3
  <2> QED BY <2>1, <2>2
<1> QED BY <1>1, <1>9, <1>11, <1>12, <1>13, <1>14, <1>15, <1>16, BatchMoves

LEMMA CloseKeepsBatch ==
    ASSUME BatchGiven, BatchInv, NEW r \in Runners, Batch!Close(r)
    PROVE  BatchInv' /\ Batch!VerdictKept
<1>1. /\ runner[r].at \in {"closing", "published"} /\ Batch!Leased(r) /\ UNCHANGED <<now, chunks>>
      /\ job' = [job EXCEPT !.status = Batch!Conclusion(r), !.lease = Batch!Nobody, !.until = 0]
      /\ runner' = [runner EXCEPT ![r] = Batch!Away]
  BY DEF Batch!Close, Batch!Quit
<1>2. job.lease # Batch!Nobody /\ job.status # "completed"
  BY <1>1 DEF Batch!Leased, BatchGiven, BatchInv, VerdictsOK
<1>3. PICK old \in JobRow : old = job
  BY DEF BatchInv, BatchTyped
<1>4. PICK status : status = Batch!Conclusion(r)
  OBVIOUS
<1>5. /\ status \in {"queued", "running", "paused"} \cup Batch!Verdict
      /\ status = "canceled" <=> old.cancel
      /\ status = "completed" => runner[r].at = "published"
  BY <1>2, <1>3, <1>4
  DEF Batch!Conclusion, Batch!ConclusionPublished, JobRow, BatchInv, VerdictsOK, Batch!Verdict
<1>6. PICK new : new = [old EXCEPT !.status = status, !.lease = Batch!Nobody, !.until = 0]
  OBVIOUS
<1>7. /\ new \in JobRow /\ new.status = status /\ new.cancel = old.cancel /\ new.lease = Batch!Nobody
      /\ new.calls = old.calls /\ new.started = old.started /\ new.seconds = old.seconds
  BY <1>5, <1>6 DEF JobRow
<1>8. job' = new
  BY <1>1, <1>3, <1>4, <1>6
<1>9. runner[r].at = "published" => AllTranslated
  BY DEF BatchInv, PublishedOK
<1>10. VerdictsOK' /\ TimeOK'
  BY <1>1, <1>3, <1>5, <1>7, <1>8, <1>9 DEF BatchInv, VerdictsOK, AllTranslated, TimeOK
<1>11. CallsOK'
  BY <1>1, <1>3, <1>7, <1>8, CallsStay DEF BatchInv
<1>12. job.status \in Batch!Verdict => job'.status = job.status
  BY <1>2, <1>3, <1>5, <1>7, <1>8 DEF BatchInv, VerdictsOK, Batch!Verdict
<1>13. job' \in JobRow /\ chunks' \in [Chunks -> ChunkRow]
  BY <1>1, <1>7, <1>8 DEF BatchInv, BatchTyped
<1> QED BY <1>1, <1>10, <1>11, <1>12, <1>13, AwayIs, BatchMoves

LEMMA PublishKeepsBatch ==
    ASSUME BatchGiven, BatchInv, NEW r \in Runners, Batch!Publish(r)
    PROVE  BatchInv' /\ Batch!VerdictKept
<1>1. UNCHANGED <<now, job, chunks>>
  BY DEF Batch!Publish
<1>2. PICK place \in {"closing", "published"} :
          /\ runner' = [runner EXCEPT ![r] = [Batch!Away EXCEPT !.at = place]]
          /\ place = "published" => Batch!Missing = {}
  BY DEF Batch!Publish
<1>3. PICK row : row = [Batch!Away EXCEPT !.at = place]
  OBVIOUS
<1>4. row \in RunnerRow /\ row.at = place
  BY <1>3, AwayAt
<1>5. place = "published" => AllTranslated
  BY <1>2 DEF Batch!Missing, AllTranslated
<1> QED BY <1>1, <1>2, <1>3, <1>4, <1>5, RunnerMoves

LEMMA OthersKeepBatch ==
    ASSUME BatchGiven, BatchInv, NEW r \in Runners,
           Batch!Progress(r) \/ Batch!Fail(r) \/ Batch!LeaseLost(r) \/ Batch!Crash(r)
    PROVE  BatchInv' /\ Batch!VerdictKept
<1>1. UNCHANGED <<now, job, chunks>>
  BY DEF Batch!Progress, Batch!Fail, Batch!LeaseLost, Batch!Crash
<1>2. CASE Batch!Progress(r)
  <2>1. PICK place \in {"next", "ending"} : Batch!Goto(r, place)
    BY <1>2 DEF Batch!Progress
  <2>2. PICK row \in RunnerRow : row.at = place /\ runner' = [runner EXCEPT ![r] = row]
    BY <2>1, RunnerAt DEF BatchInv
  <2> QED BY <1>1, <2>2, RunnerMoves
<1>3. CASE Batch!Fail(r)
  <2>1. PICK row : row = [Batch!Away EXCEPT !.at = "closing"]
    OBVIOUS
  <2>2. row \in RunnerRow /\ row.at = "closing" /\ runner' = [runner EXCEPT ![r] = row]
    BY <1>3, <2>1, AwayAt DEF Batch!Fail
  <2> QED BY <1>1, <2>2, RunnerMoves
<1>4. CASE Batch!LeaseLost(r) \/ Batch!Crash(r)
  <2>1. runner' = [runner EXCEPT ![r] = Batch!Away]
    BY <1>4 DEF Batch!LeaseLost, Batch!Crash, Batch!Quit
  <2> QED BY <1>1, <2>1, AwayIs, RunnerMoves
<1> QED BY <1>2, <1>3, <1>4

LEMMA CancelKeepsBatch ==
    ASSUME BatchGiven, BatchInv, Batch!Cancel
    PROVE  BatchInv' /\ Batch!VerdictKept
<1>1. /\ job.status # "completed" /\ job' = [job EXCEPT !.cancel = TRUE, !.status = "canceled"]
      /\ UNCHANGED <<now, chunks, runner>>
  BY DEF Batch!Cancel
<1>2. PICK old \in JobRow : old = job
  BY DEF BatchInv, BatchTyped
<1>3. PICK new : new = [old EXCEPT !.cancel = TRUE, !.status = "canceled"]
  OBVIOUS
<1>4. /\ new \in JobRow /\ new.status = "canceled" /\ new.cancel = TRUE
      /\ new.calls = old.calls /\ new.started = old.started /\ new.seconds = old.seconds
  BY <1>3 DEF JobRow, Batch!Verdict
<1>5. job' = new
  BY <1>1, <1>2, <1>3
<1>6. BatchTyped'
  BY <1>1, <1>4, <1>5 DEF BatchInv, BatchTyped
<1>7. VerdictsOK' /\ TimeOK' /\ PublishedOK'
  BY <1>1, <1>2, <1>4, <1>5 DEF BatchInv, VerdictsOK, TimeOK, PublishedOK, AllTranslated
<1>8. CallsOK'
  BY <1>1, <1>2, <1>4, <1>5, CallsStay DEF BatchInv
<1>9. Batch!VerdictKept
  BY <1>1, <1>2, <1>4, <1>5 DEF Batch!VerdictKept, Batch!Verdict
<1> QED BY <1>6, <1>7, <1>8, <1>9 DEF BatchInv

LEMMA PassKeepsBatch ==
    ASSUME BatchGiven, BatchInv, Batch!Pass
    PROVE  BatchInv' /\ Batch!VerdictKept
<1>1. now < MaxClock /\ now' = now + 1 /\ UNCHANGED <<job, chunks, runner>>
  BY DEF Batch!Pass
<1>2. now \in Nat /\ job.seconds \in Nat /\ job.started \in Nat
  BY BatchLimits DEF BatchInv, BatchTyped, JobRow
<1>3. BatchTyped' /\ TimeOK'
  BY <1>1, <1>2, BatchLimits DEF BatchInv, BatchTyped, TimeOK
<1>4. VerdictsOK' /\ PublishedOK'
  BY <1>1 DEF BatchInv, VerdictsOK, PublishedOK, AllTranslated
<1>5. CallsOK'
  BY <1>1, CallsStay DEF BatchInv
<1>6. Batch!VerdictKept
  BY <1>1 DEF BatchInv, VerdictsOK, AllTranslated, Batch!VerdictKept
<1> QED BY <1>3, <1>4, <1>5, <1>6 DEF BatchInv

LEMMA BatchStep ==
    ASSUME BatchGiven, BatchInv, [Batch!BatchNext]_Batch!batchVars
    PROVE  BatchInv' /\ (Batch!VerdictKept \/ UNCHANGED Batch!batchVars)
<1>1. ASSUME NEW r \in Runners, Batch!Run(r) PROVE BatchInv' /\ Batch!VerdictKept
  BY <1>1, ClaimKeepsBatch, ReserveKeepsBatch, FinishKeepsBatch, CloseKeepsBatch, PublishKeepsBatch,
     OthersKeepBatch
  DEF Batch!Run
<1>2. CASE UNCHANGED Batch!batchVars
  <2>1. UNCHANGED <<now, job, chunks, runner>>
    BY <1>2 DEF Batch!batchVars
  <2>2. CallsOK'
    BY <2>1, CallsStay DEF BatchInv
  <2> QED BY <1>2, <2>1, <2>2
      DEF BatchInv, BatchTyped, VerdictsOK, PublishedOK, TimeOK, AllTranslated
<1> QED BY <1>1, <1>2, CancelKeepsBatch, PassKeepsBatch DEF Batch!BatchNext

(* Every reachable state keeps the job, its chunks and its runners in the  *)
(* relation BatchInv states.                                               *)
THEOREM BatchInvariance ==
    ASSUME BatchGiven
    PROVE  Batch!BatchSpec => []BatchInv
BY BatchStart, BatchStep, PTL DEF Batch!BatchSpec

(* A chunk once translated stays translated, a canceled job stays canceled *)
(* although a run was about to complete it, and a completed one stays      *)
(* completed and has every chunk.                                          *)
THEOREM VerdictStays ==
    ASSUME BatchGiven
    PROVE  Batch!BatchSpec => Batch!VerdictStands
<1>1. BatchInv /\ [Batch!BatchNext]_Batch!batchVars => [Batch!VerdictKept]_Batch!batchVars
  BY BatchStep
<1> QED BY <1>1, BatchInvariance, PTL DEF Batch!BatchSpec, Batch!VerdictStands

(* The fold that BudgetSpansRuns takes is such a sum.                      *)
LEMMA CallsAdd ==
    ASSUME IsFiniteSet(Chunks)
    PROVE  \E sum : /\ Adds(sum, Paid, Chunks)
                    /\ Batch!MapThenSumSet(LAMBDA c : chunks[c].calls, Chunks) = sum[Chunks]
<1> DEFINE Folds(sum) == sum = [s \in SUBSET Chunks |->
                IF s = {} THEN 0 ELSE chunks[CHOOSE x \in s : TRUE].calls + sum[s \ {CHOOSE x \in s : TRUE}]]
<1>1. ASSUME NEW sum PROVE Folds(sum) <=> Adds(sum, Paid, Chunks)
  BY OneOfThem DEF Adds, One, Paid
<1>2. \E sum : Folds(sum)
  <2>1. PICK sum : Adds(sum, Paid, Chunks)
    BY SumExists
  <2>2. Folds(sum)
    BY <1>1, <2>1
  <2> HIDE DEF Folds
  <2> QED BY <2>2
<1>3. Folds(CHOOSE sum : Folds(sum))
  BY <1>2
<1>4. Batch!MapThenSumSet(LAMBDA c : chunks[c].calls, Chunks) = (CHOOSE sum : Folds(sum))[Chunks]
  BY DEF Batch!MapThenSumSet, Batch!MapThenFoldSet
<1> QED BY <1>1, <1>3, <1>4

(* The budget is the job's and not the run's: the calls paid for are the   *)
(* calls made and no more than the budget, and no second is charged twice. *)
THEOREM BatchIsBounded ==
    ASSUME BatchGiven
    PROVE  Batch!BatchSpec => []Batch!BudgetSpansRuns
<1>1. BatchInv => Batch!BudgetSpansRuns
  <2> SUFFICES ASSUME BatchInv PROVE Batch!BudgetSpansRuns
    OBVIOUS
  <2>1. PICK sum : Adds(sum, Paid, Chunks) /\ job.calls = sum[Chunks]
    BY DEF BatchInv, CallsOK
  <2>2. PICK fold : /\ Adds(fold, Paid, Chunks)
                    /\ Batch!MapThenSumSet(LAMBDA c : chunks[c].calls, Chunks) = fold[Chunks]
    BY CallsAdd, BatchLimits
  <2>3. sum[Chunks] = fold[Chunks]
    BY <2>1, <2>2, OneSum, BatchLimits
  <2> QED BY <2>1, <2>2, <2>3 DEF Batch!BudgetSpansRuns, BatchInv, CallsOK, TimeOK
<1> QED BY <1>1, BatchInvariance, PTL

-----------------------------------------------------------------------------
(* Other agents.  The events are forgotten, so that a message was answered *)
(* has to follow from something else: whoever makes them forgotten spoke   *)
(* later than the messages they are of.                                    *)

Everyone == People \cup Agents

PeersTyped ==
    /\ now \in Nat /\ sent \in [Everyone -> Nat] /\ \A m \in Everyone : sent[m] <= now
    /\ answered \in 0..Allowance /\ humanAt \in Nat
    /\ DOMAIN events \subseteq Everyone /\ granted \in [Agents -> Nat] /\ renewals \subseteq People

(* What is remembered was sent before, and of the people nothing newer     *)
(* than what opened the window.                                            *)
EventsOK ==
    \A m \in DOMAIN events :
        /\ events[m] \in Nat /\ sent[m] > 0 /\ sent[m] <= events[m] /\ events[m] <= now
        /\ m \in People => sent[m] <= humanAt

(* What was answered is remembered, or older than the window.              *)
AnswersOK ==
    \A m \in Agents : /\ granted[m] <= 1
                      /\ granted[m] = 1 => sent[m] > 0 /\ (m \in DOMAIN events \/ sent[m] < humanAt)

(* What opened a window is remembered, or not fresh any more.              *)
RenewalsOK ==
    /\ \A m \in renewals : sent[m] > 0 /\ (m \in DOMAIN events \/ sent[m] + Fresh < now)
    /\ humanAt > 0 => \E m \in renewals : sent[m] = humanAt

(* What is left of the window is not given away yet.                       *)
AllowanceOK ==
    Cardinality(Peers!Granted) + (Allowance - answered) <= Allowance * (1 + Cardinality(renewals))

PeersInv == PeersTyped /\ EventsOK /\ AnswersOK /\ RenewalsOK /\ AllowanceOK

(* What the theorems assume of the exchange: nobody is both a person and   *)
(* an agent's message, and there are finitely many of them.                *)
PeersGiven ==
    /\ Peers!PeerAssumption /\ People \cap Agents = {}
    /\ IsFiniteSet(People) /\ IsFiniteSet(Agents)

LEMMA PeerLimits ==
    ASSUME PeersGiven
    PROVE  Allowance \in Nat /\ Fresh \in Nat /\ Keep \in Nat /\ Fresh < Keep
BY DEF PeersGiven, Peers!PeerAssumption

LEMMA PeersCount ==
    ASSUME PeersGiven, PeersTyped
    PROVE  /\ IsFiniteSet(Peers!Granted) /\ Cardinality(Peers!Granted) \in Nat
           /\ IsFiniteSet(renewals) /\ Cardinality(renewals) \in Nat
<1>1. Peers!Granted \subseteq Agents /\ renewals \subseteq People
  BY DEF Peers!Granted, PeersTyped
<1> QED BY <1>1, FS_Subset, FS_CardinalityType DEF PeersGiven

LEMMA PeersStart ==
    ASSUME PeersGiven, Peers!PeerInit
    PROVE  PeersInv
<1>1. /\ now = 1 /\ sent = [m \in People \cup Agents |-> 0] /\ answered = 0 /\ humanAt = 0
      /\ events = [m \in {} |-> 0] /\ granted = [m \in Agents |-> 0] /\ renewals = {}
  BY DEF Peers!PeerInit, Peers!Unsent
<1>2. DOMAIN events = {}
  BY <1>1
<1>3. PeersTyped /\ EventsOK /\ AnswersOK /\ RenewalsOK
  BY <1>1, <1>2, PeerLimits DEF PeersTyped, EventsOK, AnswersOK, RenewalsOK, Everyone
<1>4. AllowanceOK
  <2>1. Peers!Granted = {} /\ Cardinality({}) = 0
    BY <1>1, FS_EmptySet DEF Peers!Granted
  <2>2. Allowance * (1 + 0) = Allowance
    BY PeerLimits
  <2> QED BY <1>1, <2>1, <2>2, PeerLimits DEF AllowanceOK
<1> QED BY <1>3, <1>4 DEF PeersInv

LEMMA SendKeepsPeers ==
    ASSUME PeersGiven, PeersInv, NEW m \in Everyone, Peers!Send(m)
    PROVE  PeersInv'
<1>1. /\ sent[m] = 0 /\ sent' = [sent EXCEPT ![m] = now]
      /\ UNCHANGED <<now, answered, humanAt, events, granted, renewals>>
  BY DEF Peers!Send, Peers!Unsent
<1>2. \A k \in Everyone : sent[k] > 0 => sent'[k] = sent[k]
  BY <1>1 DEF PeersInv, PeersTyped
<1>3. PeersTyped'
  BY <1>1 DEF PeersInv, PeersTyped
<1>4. EventsOK'
  BY <1>1, <1>2 DEF PeersInv, PeersTyped, EventsOK
<1>5. AnswersOK'
  BY <1>1, <1>2 DEF PeersInv, AnswersOK, Everyone
<1>6. RenewalsOK'
  BY <1>1, <1>2 DEF PeersInv, PeersTyped, RenewalsOK, Everyone
<1>7. AllowanceOK'
  BY <1>1 DEF PeersInv, AllowanceOK, Peers!Granted
<1> QED BY <1>3, <1>4, <1>5, <1>6, <1>7 DEF PeersInv

LEMMA TickKeepsPeers ==
    ASSUME PeersGiven, PeersInv, Peers!Tick
    PROVE  PeersInv'
<1>1. now' = now + 1 /\ UNCHANGED <<sent, answered, humanAt, events, granted, renewals>>
  BY DEF Peers!Tick
<1>2. now \in Nat /\ \A m \in Everyone : sent[m] \in Nat
  BY DEF PeersInv, PeersTyped
<1>3. PeersTyped' /\ EventsOK'
  BY <1>1, <1>2 DEF PeersInv, PeersTyped, EventsOK
<1>4. AnswersOK' /\ AllowanceOK'
  BY <1>1 DEF PeersInv, AnswersOK, AllowanceOK, Peers!Granted
<1>5. RenewalsOK'
  BY <1>1, <1>2, PeerLimits DEF PeersInv, PeersTyped, RenewalsOK, Everyone
<1> QED BY <1>3, <1>4, <1>5 DEF PeersInv

(* An answer: its message had none, because it is not remembered and not   *)
(* older than the window.                                                  *)
LEMMA ClaimKeepsPeers ==
    ASSUME PeersGiven, PeersInv, NEW m \in Agents, Peers!Claim(m)
    PROVE  PeersInv'
<1>1. /\ sent[m] # 0 /\ sent[m] >= humanAt /\ answered < Allowance /\ m \notin DOMAIN events
      /\ events' = [k \in DOMAIN events \cup {m} |-> IF k = m THEN now ELSE events[k]]
      /\ answered' = answered + 1 /\ granted' = [granted EXCEPT ![m] = @ + 1]
      /\ UNCHANGED <<now, sent, humanAt, renewals>>
  BY DEF Peers!Claim, Peers!Remember, Peers!Unsent
<1>2. /\ now \in Nat /\ sent[m] \in Nat /\ sent[m] <= now /\ humanAt \in Nat /\ answered \in Nat
      /\ m \in Everyone /\ m \notin People
  BY DEF PeersInv, PeersTyped, Everyone, PeersGiven
<1>3. granted[m] = 0 /\ granted'[m] = 1 /\ \A k \in Agents : k # m => granted'[k] = granted[k]
  BY <1>1, <1>2 DEF PeersInv, PeersTyped, AnswersOK
<1>4. /\ DOMAIN events' = DOMAIN events \cup {m} /\ events'[m] = now
      /\ \A k \in DOMAIN events : events'[k] = events[k]
  BY <1>1
<1>5. PeersTyped'
  <2>1. granted' \in [Agents -> Nat]
    BY <1>1 DEF PeersInv, PeersTyped
  <2>2. answered' \in 0..Allowance
    BY <1>1, <1>2, PeerLimits
  <2> QED BY <1>1, <1>2, <1>4, <2>1, <2>2 DEF PeersInv, PeersTyped
<1>6. EventsOK'
  BY <1>1, <1>2, <1>4 DEF PeersInv, EventsOK
<1>7. AnswersOK' /\ RenewalsOK'
  BY <1>1, <1>2, <1>3, <1>4 DEF PeersInv, AnswersOK, RenewalsOK
<1>8. AllowanceOK'
  <2>1. Peers!Granted' = Peers!Granted \cup {m} /\ m \notin Peers!Granted
    BY <1>3 DEF Peers!Granted
  <2>2. Cardinality(Peers!Granted') = Cardinality(Peers!Granted) + 1 /\ Cardinality(Peers!Granted) \in Nat
    BY <2>1, PeersCount, FS_AddElement DEF PeersInv
  <2>3. PICK most : most = Allowance * (1 + Cardinality(renewals))
    OBVIOUS
  <2>4. Cardinality(Peers!Granted) + (Allowance - answered) <= most /\ most \in Nat
    BY <2>3, PeersCount, PeerLimits DEF PeersInv, AllowanceOK
  <2>5. Cardinality(Peers!Granted') + (Allowance - answered') <= most
    BY <1>1, <1>2, <2>2, <2>4, PeerLimits
  <2> QED BY <1>1, <2>3, <2>5 DEF AllowanceOK
<1> QED BY <1>5, <1>6, <1>7, <1>8 DEF PeersInv

(* What a person's fresh message makes forgotten was sent before it, and   *)
(* before the window it is in.                                             *)
LEMMA ForgottenIsOlder ==
    ASSUME PeersGiven, PeersInv, NEW m \in People, now - sent[m] <= Fresh,
           NEW k \in DOMAIN events, k \notin Peers!Remembered
    PROVE  sent[k] < sent[m] /\ sent[k] + Fresh < now
<1>1. /\ events[k] \in Nat /\ sent[k] \in Nat /\ sent[m] \in Nat /\ now \in Nat
      /\ sent[k] <= events[k]
  BY DEF PeersInv, PeersTyped, EventsOK, Everyone
<1>2. now - events[k] > Keep
  BY <1>1, PeerLimits DEF Peers!Remembered
<1> QED BY <1>1, <1>2, PeerLimits

LEMMA ObserveKeepsPeers ==
    ASSUME PeersGiven, PeersInv, NEW m \in People, Peers!Observe(m)
    PROVE  PeersInv'
<1>1. sent[m] # 0 /\ now - sent[m] <= Fresh /\ UNCHANGED <<now, sent, granted>>
  BY DEF Peers!Observe, Peers!Unsent
<1>2. /\ now \in Nat /\ sent[m] \in Nat /\ sent[m] <= now /\ humanAt \in Nat /\ m \in Everyone
      /\ answered \in 0..Allowance
  BY DEF PeersInv, PeersTyped, Everyone
<1>3. Peers!Remembered \subseteq DOMAIN events
  BY DEF Peers!Remembered
<1>4. \A k \in DOMAIN events : k \in Peers!Remembered \/ (sent[k] < sent[m] /\ sent[k] + Fresh < now)
  BY <1>1, ForgottenIsOlder
<1>5. CASE m \in Peers!Remembered
  <2>1. /\ events' = [k \in Peers!Remembered |-> events[k]]
        /\ UNCHANGED <<answered, humanAt, renewals>>
    BY <1>5 DEF Peers!Observe
  <2>2. DOMAIN events' = Peers!Remembered /\ \A k \in Peers!Remembered : events'[k] = events[k]
    BY <2>1
  <2>3. PeersTyped' /\ EventsOK'
    BY <1>1, <1>3, <2>1, <2>2 DEF PeersInv, PeersTyped, EventsOK
  <2>4. sent[m] <= humanAt
    BY <1>3, <1>5 DEF PeersInv, EventsOK
  <2>5. AnswersOK'
    <3>1. ASSUME NEW k \in Agents, granted[k] = 1 PROVE k \in DOMAIN events' \/ sent[k] < humanAt
      <4>1. sent[k] \in Nat
        BY DEF PeersInv, PeersTyped, Everyone
      <4> QED BY <1>2, <1>4, <2>2, <2>4, <3>1, <4>1 DEF PeersInv, AnswersOK
    <3> QED BY <1>1, <2>1, <3>1 DEF PeersInv, AnswersOK
  <2>6. RenewalsOK'
    BY <1>1, <1>4, <2>1, <2>2 DEF PeersInv, RenewalsOK
  <2>7. AllowanceOK'
    BY <1>1, <2>1 DEF PeersInv, AllowanceOK, Peers!Granted
  <2> QED BY <2>3, <2>5, <2>6, <2>7 DEF PeersInv
<1>6. CASE m \notin Peers!Remembered
  <2>1. /\ events' = [k \in Peers!Remembered \cup {m} |-> IF k = m THEN now ELSE events[k]]
        /\ renewals' = renewals \cup {m}
        /\ IF humanAt <= sent[m] THEN answered' = 0 /\ humanAt' = sent[m]
           ELSE UNCHANGED <<answered, humanAt>>
    BY <1>6 DEF Peers!Observe, Peers!Remember
  <2>2. /\ DOMAIN events' = Peers!Remembered \cup {m} /\ events'[m] = now
        /\ \A k \in Peers!Remembered : events'[k] = events[k]
    BY <1>6, <2>1
  <2>3. /\ humanAt' \in Nat /\ humanAt <= humanAt' /\ sent[m] <= humanAt'
        /\ answered' \in 0..Allowance /\ answered' <= answered
    BY <1>2, <2>1, PeerLimits
  <2>4. PeersTyped'
    BY <1>1, <1>2, <1>3, <2>1, <2>2, <2>3 DEF PeersInv, PeersTyped
  <2>5. EventsOK'
    <3>1. ASSUME NEW k \in Peers!Remembered
          PROVE  /\ events'[k] \in Nat /\ sent[k] > 0 /\ sent[k] <= events'[k] /\ events'[k] <= now
                 /\ k \in People => sent[k] <= humanAt'
      <4>1. k \in DOMAIN events /\ events'[k] = events[k]
        BY <1>3, <2>2, <3>1
      <4>2. sent[k] \in Nat
        BY <4>1 DEF PeersInv, PeersTyped
      <4>3. k \in People => sent[k] <= humanAt
        BY <4>1 DEF PeersInv, EventsOK
      <4> QED BY <1>2, <2>3, <4>1, <4>2, <4>3 DEF PeersInv, EventsOK
    <3> QED BY <1>1, <1>2, <2>2, <2>3, <3>1 DEF EventsOK
  <2>6. AnswersOK'
    <3>1. ASSUME NEW k \in Agents, granted[k] = 1 PROVE k \in DOMAIN events' \/ sent[k] < humanAt'
      <4>1. sent[k] \in Nat /\ (k \in DOMAIN events \/ sent[k] < humanAt)
        BY <3>1 DEF PeersInv, PeersTyped, Everyone, AnswersOK
      <4> QED BY <1>2, <1>4, <2>2, <2>3, <4>1
    <3> QED BY <1>1, <3>1 DEF PeersInv, AnswersOK
  <2>7. m \notin renewals
    BY <1>1, <1>2, <1>4, <1>6, PeerLimits DEF PeersInv, RenewalsOK
  <2>8. RenewalsOK'
    <3>1. \A k \in renewals' : sent[k] > 0 /\ (k \in DOMAIN events' \/ sent[k] + Fresh < now)
      BY <1>1, <1>2, <1>4, <2>1, <2>2 DEF PeersInv, RenewalsOK
    <3>2. humanAt' > 0 => \E k \in renewals' : sent[k] = humanAt'
      BY <2>1 DEF PeersInv, RenewalsOK
    <3> QED BY <1>1, <3>1, <3>2 DEF RenewalsOK
  <2>9. AllowanceOK'
    <3>1. Cardinality(renewals') = Cardinality(renewals) + 1 /\ Cardinality(renewals) \in Nat
      BY <2>1, <2>7, PeersCount, FS_AddElement DEF PeersInv
    <3>2. \A n \in Nat : Allowance * (1 + (n + 1)) = Allowance * (1 + n) + Allowance
                         /\ Allowance * (1 + n) \in Nat
      BY PeerLimits
    <3>3. PICK most \in Nat : /\ most = Allowance * (1 + Cardinality(renewals))
                              /\ most + Allowance = Allowance * (1 + Cardinality(renewals'))
      BY <3>1, <3>2
    <3>4. Cardinality(Peers!Granted) + (Allowance - answered) <= most /\ Cardinality(Peers!Granted) \in Nat
      BY <3>3, PeersCount DEF PeersInv, AllowanceOK
    <3>5. Cardinality(Peers!Granted) + (Allowance - answered') <= most + Allowance
      BY <1>2, <2>3, <3>4, PeerLimits
    <3>6. Peers!Granted' = Peers!Granted
      BY <1>1 DEF Peers!Granted
    <3> QED BY <3>3, <3>5, <3>6 DEF AllowanceOK
  <2> QED BY <2>4, <2>5, <2>6, <2>8, <2>9 DEF PeersInv
<1> QED BY <1>5, <1>6

(* Every reachable state keeps the events, the answers and the windows in  *)
(* the relation PeersInv states.                                           *)
THEOREM PeersInvariance ==
    ASSUME PeersGiven
    PROVE  Peers!PeerSpec => []PeersInv
<1>1. ASSUME PeersInv, [Peers!PeerNext]_Peers!peerVars PROVE PeersInv'
  <2>1. CASE Peers!PeerNext
    BY <1>1, <2>1, ObserveKeepsPeers, ClaimKeepsPeers, SendKeepsPeers, TickKeepsPeers
    DEF Peers!PeerNext, Everyone
  <2>2. CASE UNCHANGED Peers!peerVars
    <3>1. UNCHANGED <<now, sent, answered, humanAt, events, granted, renewals>>
      BY <2>2 DEF Peers!peerVars
    <3> QED BY <1>1, <3>1
        DEF PeersInv, PeersTyped, EventsOK, AnswersOK, RenewalsOK, AllowanceOK, Peers!Granted
  <2> QED BY <1>1, <2>1, <2>2
<1> QED BY <1>1, PeersStart, PTL DEF Peers!PeerSpec

(* Each message of a person buys one allowance, once, and each message of  *)
(* an agent gets one answer, however late and often they arrive and        *)
(* although the events are forgotten.                                      *)
THEOREM PeersStayRationed ==
    ASSUME PeersGiven
    PROVE  Peers!PeerSpec => []Peers!PeersAreRationed
<1>1. PeersInv => Peers!PeersAreRationed
  <2> SUFFICES ASSUME PeersInv PROVE Peers!PeersAreRationed
    OBVIOUS
  <2>1. PICK most \in Nat : most = Allowance * (1 + Cardinality(renewals))
    BY PeersCount, PeerLimits DEF PeersInv
  <2>2. /\ answered \in 0..Allowance /\ Cardinality(Peers!Granted) \in Nat
        /\ Cardinality(Peers!Granted) + (Allowance - answered) <= most
    BY <2>1, PeersCount DEF PeersInv, PeersTyped, AllowanceOK
  <2>3. Cardinality(Peers!Granted) <= most
    BY <2>2, PeerLimits
  <2>4. \A m \in Agents : granted[m] <= 1
    BY DEF PeersInv, AnswersOK
  <2>5. humanAt > 0 => \E m \in renewals : sent[m] = humanAt
    BY DEF PeersInv, RenewalsOK
  <2>6. Peers!Cardinality(Peers!Granted) <= Allowance * (1 + Peers!Cardinality(renewals))
    BY <2>1, <2>3 DEF Peers!Cardinality, Cardinality, Peers!IsFiniteSet, IsFiniteSet
  <2> QED BY <2>4, <2>5, <2>6 DEF Peers!PeersAreRationed
<1> QED BY <1>1, PeersInvariance, PTL

-----------------------------------------------------------------------------
(* Summaries.  A row outlives the process, a thread and a request do not;  *)
(* whoever comes too late has to find that in the row.                     *)

BriefRow == [status : {"none", "pending", "ready", "fallback"}, deadline : Nat]
CallerRow == [at : {"idle", "unseen", "inserting"}, version : Versions \cup {0}, deadline : Nat]
ThreadRow == [at : {"none", "begun", "admitted", "generating", "ready", "fallback"}, deadline : Nat]

SummaryTyped ==
    /\ clock \in Nat /\ slots \in 0..Slots
    /\ brief \in [Versions -> BriefRow] /\ thread \in [Versions -> ThreadRow]
    /\ caller \in [Callers -> CallerRow]
    /\ \A c \in Callers : caller[c].at # "idle" => caller[c].version \in Versions
    /\ made \in [Versions -> Nat] /\ told \in [Versions -> {"none", "ready", "fallback"}]

Busy == {v \in Versions : thread[v] # Summaries!NoThread}
Going == {c \in Callers : caller[c].at = "inserting"}
SlotsOK == slots = Cardinality(Busy) + Cardinality(Going)

(* What has a thread has a row of the same deadline; what has no row was   *)
(* never generated and nobody heard of it; a thread that has generated, or *)
(* a row that is ready, did so once; and what was heard is in the row.     *)
BriefOK(old, run, count, heard) ==
    /\ run.at = "none" => run = Summaries!NoThread
    /\ run.at # "none" => old.status # "none" /\ run.deadline = old.deadline
    /\ old.status = "none" => count = 0 /\ heard = "none"
    /\ run.at \in {"begun", "admitted"} => count = 0
    /\ run.at \in {"generating", "ready"} \/ old.status = "ready" => count = 1
    /\ count <= 1
    /\ heard # "none" => old.status = heard

BriefsOK == \A v \in Versions : BriefOK(brief[v], thread[v], made[v], told[v])

SummaryInv == SummaryTyped /\ SlotsOK /\ BriefsOK

SummaryGiven ==
    Summaries!SummaryAssumption /\ IsFiniteSet(Versions) /\ IsFiniteSet(Callers)

LEMMA SummaryLimits ==
    ASSUME SummaryGiven
    PROVE  /\ Slots \in Nat /\ Timeout \in Nat
           /\ IsFiniteSet(Versions) /\ IsFiniteSet(Callers)
BY DEF SummaryGiven, Summaries!SummaryAssumption

LEMMA SlotsCount ==
    ASSUME SummaryGiven
    PROVE  /\ IsFiniteSet(Busy) /\ Cardinality(Busy) \in Nat
           /\ IsFiniteSet(Going) /\ Cardinality(Going) \in Nat
<1>1. Busy \subseteq Versions /\ Going \subseteq Callers
  BY DEF Busy, Going
<1> QED BY <1>1, FS_Subset, FS_CardinalityType DEF SummaryGiven

LEMMA SummaryStart ==
    ASSUME SummaryGiven, Summaries!SummaryInit
    PROVE  SummaryInv
<1>1. /\ clock = 0 /\ slots = 0
      /\ brief = [v \in Versions |-> [status |-> "none", deadline |-> 0]]
      /\ caller = [c \in Callers |-> [at |-> "idle", version |-> 0, deadline |-> 0]]
      /\ thread = [v \in Versions |-> Summaries!NoThread]
      /\ made = [v \in Versions |-> 0] /\ told = [v \in Versions |-> "none"]
  BY DEF Summaries!SummaryInit, Summaries!NoRow, Summaries!Idle
<1>2. SummaryTyped
  <2>1. brief \in [Versions -> BriefRow]
    BY <1>1 DEF BriefRow
  <2>2. thread \in [Versions -> ThreadRow]
    BY <1>1 DEF ThreadRow, Summaries!NoThread
  <2>3. caller \in [Callers -> CallerRow]
    BY <1>1 DEF CallerRow
  <2> QED BY <1>1, <2>1, <2>2, <2>3, SummaryLimits DEF SummaryTyped
<1>3. SlotsOK
  <2>1. Busy = {} /\ Going = {}
    BY <1>1 DEF Busy, Going
  <2> QED BY <1>1, <2>1, FS_EmptySet DEF SlotsOK
<1>4. BriefsOK
  BY <1>1 DEF BriefsOK, BriefOK, Summaries!NoThread
<1> QED BY <1>2, <1>3, <1>4 DEF SummaryInv

(* A step at one version, put together.                                    *)
OnlyAt(v) ==
    /\ brief' \in [Versions -> BriefRow] /\ thread' \in [Versions -> ThreadRow]
    /\ made' \in [Versions -> Nat] /\ told' \in [Versions -> {"none", "ready", "fallback"}]
    /\ \A k \in Versions : k # v => /\ brief'[k] = brief[k] /\ thread'[k] = thread[k]
                                    /\ made'[k] = made[k] /\ told'[k] = told[k]

CallersStayTyped ==
    /\ caller' \in [Callers -> CallerRow]
    /\ \A c \in Callers : caller'[c].at # "idle" => caller'[c].version \in Versions

LEMMA VersionStep ==
    ASSUME SummaryInv, NEW v \in Versions, OnlyAt(v),
           BriefOK(brief'[v], thread'[v], made'[v], told'[v]),
           UNCHANGED clock, slots' \in 0..Slots, SlotsOK', CallersStayTyped,
           brief'[v].status = "ready" /\ brief[v].status # "ready" => clock < brief[v].deadline
    PROVE  SummaryInv' /\ Summaries!ReadyInTime
<1>1. ASSUME NEW k \in Versions PROVE BriefOK(brief'[k], thread'[k], made'[k], told'[k])
  <2>1. CASE k # v
    <3>1. brief'[k] = brief[k] /\ thread'[k] = thread[k] /\ made'[k] = made[k] /\ told'[k] = told[k]
      BY <2>1 DEF OnlyAt
    <3>2. BriefOK(brief[k], thread[k], made[k], told[k])
      BY DEF SummaryInv, BriefsOK
    <3> QED BY <3>1, <3>2
  <2> QED BY <2>1
<1>2. BriefsOK'
  BY <1>1 DEF BriefsOK
<1>3. SummaryTyped'
  BY DEF SummaryInv, SummaryTyped, OnlyAt, CallersStayTyped
<1>4. ASSUME NEW k \in Versions, brief'[k].status = "ready", brief[k].status # "ready"
      PROVE  clock < brief[k].deadline
  BY <1>4 DEF OnlyAt
<1> QED BY <1>2, <1>3, <1>4 DEF SummaryInv, Summaries!ReadyInTime

(* What is not changed, as a change of nothing.                            *)
LEMMA SameVersion ==
    ASSUME SummaryTyped, NEW v \in Versions
    PROVE  /\ brief = [brief EXCEPT ![v] = brief[v]] /\ thread = [thread EXCEPT ![v] = thread[v]]
           /\ made = [made EXCEPT ![v] = made[v]] /\ told = [told EXCEPT ![v] = told[v]]
           /\ brief[v] \in BriefRow /\ thread[v] \in ThreadRow /\ made[v] \in Nat
           /\ told[v] \in {"none", "ready", "fallback"}
BY DEF SummaryTyped

(* The slots do not move.                                                  *)
LEMMA SlotsStay ==
    ASSUME SlotsOK, Busy' = Busy, Going' = Going, UNCHANGED slots
    PROVE  SlotsOK'
BY DEF SlotsOK

(* What a reader hears is what the row says, for the first time.           *)
LEMMA HearsIs ==
    ASSUME SummaryTyped, NEW v \in Versions, NEW status \in {"pending", "ready", "fallback"},
           Summaries!Hears(v, status)
    PROVE  \E heard \in {"none", "ready", "fallback"} :
              /\ told' = [told EXCEPT ![v] = heard]
              /\ heard = told[v] \/ (told[v] = "none" /\ heard = status)
<1>1. CASE status \in {"ready", "fallback"} /\ told[v] = "none"
  <2>1. told' = [told EXCEPT ![v] = status]
    BY <1>1 DEF Summaries!Hears, Summaries!Settled
  <2> QED BY <1>1, <2>1
<1>2. CASE ~(status \in {"ready", "fallback"} /\ told[v] = "none")
  <2>1. told' = told
    BY <1>2 DEF Summaries!Hears, Summaries!Settled
  <2> QED BY <2>1, SameVersion
<1> QED BY <1>1, <1>2

LEMMA ReadKeepsSummary ==
    ASSUME SummaryGiven, SummaryInv, NEW v \in Versions, Summaries!ReadSummary(v)
    PROVE  SummaryInv' /\ Summaries!ReadyInTime
<1>1. PICK old \in BriefRow : old = brief[v]
  BY DEF SummaryInv, SummaryTyped
<1>2. PICK new : new = IF old.status = "pending" /\ clock >= old.deadline
                       THEN [old EXCEPT !.status = "fallback"] ELSE old
  OBVIOUS
<1>3. /\ new \in BriefRow /\ new.deadline = old.deadline
      /\ new = old \/ (old.status = "pending" /\ new.status = "fallback")
  BY <1>2 DEF BriefRow
<1>4. brief' = [brief EXCEPT ![v] = new] /\ old.status # "none"
      /\ UNCHANGED <<clock, source, caller, thread, slots, made>>
  BY <1>1, <1>2, SameVersion DEF Summaries!ReadSummary, Summaries!Read, Summaries!Overdue, SummaryInv
<1>5. brief'[v] = new /\ new.status \in {"pending", "ready", "fallback"}
  BY <1>1, <1>3, <1>4 DEF SummaryInv, SummaryTyped, BriefRow
<1>6. Summaries!Hears(v, new.status)
  BY <1>5 DEF Summaries!ReadSummary
<1>7. PICK heard \in {"none", "ready", "fallback"} :
              /\ told' = [told EXCEPT ![v] = heard]
              /\ heard = told[v] \/ (told[v] = "none" /\ heard = new.status)
  BY <1>5, <1>6, HearsIs DEF SummaryInv
<1>8. BriefOK(old, thread[v], made[v], told[v])
  BY <1>1 DEF SummaryInv, BriefsOK
<1>9. BriefOK(new, thread[v], made[v], heard)
  BY <1>3, <1>4, <1>5, <1>7, <1>8 DEF BriefOK
<1>10. SlotsOK'
  BY <1>4, SlotsStay DEF Busy, Going, SummaryInv
<1>11. CallersStayTyped /\ slots' \in 0..Slots /\ UNCHANGED clock
  BY <1>4 DEF SummaryInv, SummaryTyped, CallersStayTyped
<1>12. OnlyAt(v) /\ thread'[v] = thread[v] /\ made'[v] = made[v] /\ told'[v] = heard
  BY <1>3, <1>4, <1>7 DEF OnlyAt, SummaryInv, SummaryTyped
<1>13. brief'[v].status = "ready" => brief[v].status = "ready"
  BY <1>1, <1>3, <1>5
<1> QED BY <1>5, <1>9, <1>10, <1>11, <1>12, <1>13, VersionStep

LEMMA TakeSlotKeepsSummary ==
    ASSUME SummaryGiven, SummaryInv, NEW c \in Callers, Summaries!TakeSlot(c)
    PROVE  SummaryInv' /\ Summaries!ReadyInTime
<1>1. /\ caller[c].at = "unseen" /\ UNCHANGED <<clock, source, brief, thread, made, told>>
      /\ caller[c] \in CallerRow /\ c \notin Going
  BY DEF Summaries!TakeSlot, SummaryInv, SummaryTyped, Going
<1>2. PICK old \in CallerRow : old = caller[c]
  BY <1>1
<1>3. Busy' = Busy /\ BriefsOK' /\ Summaries!ReadyInTime
  BY <1>1 DEF Busy, SummaryInv, BriefsOK, Summaries!ReadyInTime
<1>4. ASSUME NEW new \in CallerRow, caller' = [caller EXCEPT ![c] = new],
             new.at # "idle" => new.version \in Versions
      PROVE  /\ caller' \in [Callers -> CallerRow]
             /\ \A k \in Callers : caller'[k].at # "idle" => caller'[k].version \in Versions
             /\ Going' = IF new.at = "inserting" THEN Going \cup {c} ELSE Going \ {c}
  BY <1>4 DEF SummaryInv, SummaryTyped, Going
<1>5. CASE slots < Slots
  <2>1. PICK until \in Nat : until = clock + Timeout
    BY SummaryLimits DEF SummaryInv, SummaryTyped
  <2>2. PICK new : new = [old EXCEPT !.at = "inserting", !.deadline = until]
    OBVIOUS
  <2>3. new \in CallerRow /\ new.at = "inserting" /\ new.version = old.version
    BY <2>2 DEF CallerRow
  <2>4. caller' = [caller EXCEPT ![c] = new] /\ slots' = slots + 1
    BY <1>2, <1>5, <2>1, <2>2 DEF Summaries!TakeSlot
  <2>5. old.version \in Versions
    BY <1>1, <1>2 DEF SummaryInv, SummaryTyped
  <2>6. /\ caller' \in [Callers -> CallerRow]
        /\ \A k \in Callers : caller'[k].at # "idle" => caller'[k].version \in Versions
        /\ Going' = Going \cup {c}
    BY <1>4, <2>3, <2>4, <2>5
  <2>7. Cardinality(Going \cup {c}) = Cardinality(Going) + 1
    BY <1>1, SlotsCount, FS_AddElement
  <2>8. SlotsOK'
    BY <1>3, <2>4, <2>6, <2>7, SlotsCount DEF SlotsOK, SummaryInv
  <2>9. slots' \in 0..Slots
    BY <1>5, <2>4, SummaryLimits DEF SummaryInv, SummaryTyped
  <2>10. SummaryTyped'
    BY <1>1, <2>6, <2>9 DEF SummaryInv, SummaryTyped
  <2> QED BY <1>3, <2>8, <2>10 DEF SummaryInv
<1>6. CASE ~(slots < Slots)
  <2>1. Summaries!Idle \in CallerRow /\ Summaries!Idle.at = "idle"
    BY DEF Summaries!Idle, CallerRow
  <2>2. caller' = [caller EXCEPT ![c] = Summaries!Idle] /\ UNCHANGED slots
    BY <1>6 DEF Summaries!TakeSlot
  <2>3. /\ caller' \in [Callers -> CallerRow]
        /\ \A k \in Callers : caller'[k].at # "idle" => caller'[k].version \in Versions
        /\ Going' = Going
    BY <1>1, <1>4, <2>1, <2>2
  <2>4. SlotsOK'
    BY <1>3, <2>2, <2>3, SlotsStay DEF SummaryInv
  <2>5. SummaryTyped'
    BY <1>1, <2>2, <2>3 DEF SummaryInv, SummaryTyped
  <2> QED BY <1>3, <2>4, <2>5 DEF SummaryInv
<1> QED BY <1>5, <1>6


LEMMA BusyMoves ==
    ASSUME SummaryTyped, NEW v \in Versions, NEW run, thread' = [thread EXCEPT ![v] = run]
    PROVE  Busy' = IF run # Summaries!NoThread THEN Busy \cup {v} ELSE Busy \ {v}
BY DEF SummaryTyped, Busy

(* A thread goes on; its version may be generated now.                     *)
LEMMA ThreadKeepsSummary ==
    ASSUME SummaryGiven, SummaryInv, NEW v \in Versions,
           Summaries!Admit(v) \/ Summaries!Generate(v) \/ Summaries!Generated(v)
    PROVE  SummaryInv' /\ Summaries!ReadyInTime
<1>1. PICK old \in ThreadRow : old = thread[v]
  BY DEF SummaryInv, SummaryTyped
<1>2. /\ UNCHANGED <<clock, source, brief, caller, slots, told>>
      /\ old.at \in {"begun", "admitted", "generating"}
  BY <1>1 DEF Summaries!Admit, Summaries!Generate, Summaries!Generated
<1>3. PICK place \in {"admitted", "generating", "ready", "fallback"}, count \in Nat :
          /\ thread' = [thread EXCEPT ![v].at = place] /\ made' = [made EXCEPT ![v] = count]
          /\ place = "admitted" => old.at = "begun"
          /\ place = "ready" => old.at = "generating"
          /\ IF place = "generating" THEN old.at = "admitted" /\ count = made[v] + 1 ELSE count = made[v]
  <2>1. made = [made EXCEPT ![v] = made[v]] /\ made[v] \in Nat /\ made[v] + 1 \in Nat
    BY SameVersion DEF SummaryInv
  <2>2. CASE Summaries!Admit(v)
    <3>1. PICK place \in {"admitted", "fallback"} : thread' = [thread EXCEPT ![v].at = place]
      BY <2>2 DEF Summaries!Admit, Summaries!Goes
    <3>2. UNCHANGED made /\ old.at = "begun"
      BY <1>1, <2>2 DEF Summaries!Admit
    <3> QED BY <2>1, <3>1, <3>2
  <2>3. CASE Summaries!Generated(v)
    <3>1. PICK place \in {"ready", "fallback"} : thread' = [thread EXCEPT ![v].at = place]
      BY <2>3 DEF Summaries!Generated, Summaries!Goes
    <3>2. UNCHANGED made /\ old.at = "generating"
      BY <1>1, <2>3 DEF Summaries!Generated
    <3> QED BY <2>1, <3>1, <3>2
  <2>4. CASE Summaries!Generate(v)
    <3>1. old.at = "admitted"
      BY <1>1, <2>4 DEF Summaries!Generate
    <3>2. CASE Summaries!Current(v)
      <4>1. thread' = [thread EXCEPT ![v].at = "generating"] /\ made' = [made EXCEPT ![v] = made[v] + 1]
        BY <2>4, <3>2 DEF Summaries!Generate, Summaries!Goes
      <4> QED BY <2>1, <3>1, <4>1
    <3>3. CASE ~Summaries!Current(v)
      <4>1. thread' = [thread EXCEPT ![v].at = "fallback"] /\ UNCHANGED made
        BY <2>4, <3>3 DEF Summaries!Generate, Summaries!Goes
      <4> QED BY <2>1, <3>1, <4>1
    <3> QED BY <3>2, <3>3
  <2> QED BY <2>2, <2>3, <2>4
<1>4. PICK new : new = [old EXCEPT !.at = place]
  OBVIOUS
<1>5. new \in ThreadRow /\ new.at = place /\ new.deadline = old.deadline
  BY <1>4 DEF ThreadRow
<1>6. thread' = [thread EXCEPT ![v] = new]
  BY <1>1, <1>3, <1>4
<1>7. new # Summaries!NoThread /\ old # Summaries!NoThread
  BY <1>2, <1>3, <1>5 DEF Summaries!NoThread
<1>8. SlotsOK'
  <2>1. Busy' = Busy
    BY <1>1, <1>6, <1>7, BusyMoves DEF SummaryInv, Busy
  <2> QED BY <1>2, <2>1, SlotsStay DEF SummaryInv, Going
<1>9. BriefOK(brief[v], old, made[v], told[v])
  BY <1>1 DEF SummaryInv, BriefsOK
<1>10. made[v] \in Nat
  BY SameVersion DEF SummaryInv
<1>11. BriefOK(brief[v], new, count, told[v])
  <2>1. place = "ready" => made[v] = 1
    BY <1>3, <1>9 DEF BriefOK, SummaryInv
  <2>2. place # "generating" => count = made[v]
    BY <1>3
  <2>3. place = "generating" => made[v] = 0 /\ count = 1
    BY <1>3, <1>9 DEF BriefOK
  <2>4. brief[v].status = "ready" => made[v] = 1 /\ place # "generating"
    BY <1>9, <2>3 DEF BriefOK
  <2>5. count \in {0, 1} /\ (new.at \in {"generating", "ready"} => count = 1)
        /\ (new.at = "admitted" => count = 0)
    BY <1>2, <1>3, <1>5, <1>9, <2>1, <2>2, <2>3 DEF BriefOK
  <2>6. brief[v].status # "none" /\ new.deadline = brief[v].deadline /\ new.at # "none" /\ new.at # "begun"
    BY <1>2, <1>3, <1>5, <1>9 DEF BriefOK
  <2>7. (brief[v].status = "ready" => count = 1) /\ (told[v] # "none" => brief[v].status = told[v])
    BY <1>9, <2>2, <2>4 DEF BriefOK
  <2> QED BY <2>5, <2>6, <2>7 DEF BriefOK
<1>12. CallersStayTyped /\ slots' \in 0..Slots /\ UNCHANGED clock
  BY <1>2 DEF SummaryInv, SummaryTyped, CallersStayTyped
<1>13. OnlyAt(v) /\ thread'[v] = new /\ made'[v] = count /\ told'[v] = told[v] /\ brief'[v] = brief[v]
  BY <1>2, <1>3, <1>5, <1>6 DEF OnlyAt, SummaryInv, SummaryTyped
<1> QED BY <1>8, <1>11, <1>12, <1>13, VersionStep


LEMMA CallerLeaves ==
    ASSUME SummaryGiven, SummaryInv, NEW c \in Callers, caller[c].at = "inserting",
           caller' = [caller EXCEPT ![c] = Summaries!Idle]
    PROVE  /\ CallersStayTyped /\ Going' = Going \ {c}
           /\ Cardinality(Going') = Cardinality(Going) - 1
           /\ Cardinality(Going) > 0 /\ Cardinality(Going) \in Nat
<1>1. Summaries!Idle \in CallerRow /\ Summaries!Idle.at = "idle"
  BY DEF Summaries!Idle, CallerRow
<1>2. CallersStayTyped /\ Going' = Going \ {c} /\ c \in Going
  BY <1>1 DEF SummaryInv, SummaryTyped, CallersStayTyped, Going
<1>3. IsFiniteSet(Going) /\ Cardinality(Going) \in Nat
  BY SlotsCount
<1>4. Cardinality(Going \ {c}) = Cardinality(Going) - 1
  BY <1>2, <1>3, FS_RemoveElement
<1>5. Cardinality(Going) # 0
  BY <1>2, <1>3, FS_EmptySet
<1> QED BY <1>2, <1>3, <1>4, <1>5

LEMMA InsertKeepsSummary ==
    ASSUME SummaryGiven, SummaryInv, NEW c \in Callers, Summaries!Insert(c)
    PROVE  SummaryInv' /\ Summaries!ReadyInTime
<1>1. PICK v : v = caller[c].version
  OBVIOUS
<1>2. /\ caller[c].at = "inserting" /\ UNCHANGED <<clock, source, made>>
      /\ caller' = [caller EXCEPT ![c] = Summaries!Idle] /\ v \in Versions
  BY <1>1 DEF Summaries!Insert, SummaryInv, SummaryTyped
<1>3. /\ CallersStayTyped /\ Going' = Going \ {c} /\ Cardinality(Going') = Cardinality(Going) - 1
      /\ Cardinality(Going) > 0 /\ Cardinality(Going) \in Nat /\ Cardinality(Busy) \in Nat
  BY <1>2, CallerLeaves, SlotsCount
<1>4. BriefOK(brief[v], thread[v], made[v], told[v])
  BY <1>2 DEF SummaryInv, BriefsOK
<1>5. slots \in Nat /\ slots <= Slots /\ slots = Cardinality(Busy) + Cardinality(Going) /\ slots > 0
  BY <1>3, SummaryLimits DEF SummaryInv, SlotsOK, SummaryTyped
<1>6. slots - 1 \in 0..Slots /\ slots \in 0..Slots
  BY <1>5, SummaryLimits
<1>7. PICK until \in Nat : until = caller[c].deadline
  BY DEF SummaryInv, SummaryTyped, CallerRow
<1>8. PICK new : new = [status |-> "pending", deadline |-> until]
  OBVIOUS
<1>9. new \in BriefRow /\ new.status = "pending" /\ new.deadline = until
  BY <1>8 DEF BriefRow
<1>10. CASE Summaries!Taken(v) /\ slots' = slots - 1 /\ Summaries!Hears(v, brief[v].status)
            /\ UNCHANGED <<brief, thread>>
  <2>1. brief[v].status \in {"pending", "ready", "fallback"}
    BY <1>2, <1>10 DEF Summaries!Taken, SummaryInv, SummaryTyped, BriefRow
  <2>2. PICK heard \in {"none", "ready", "fallback"} :
              /\ told' = [told EXCEPT ![v] = heard]
              /\ heard = told[v] \/ (told[v] = "none" /\ heard = brief[v].status)
    BY <1>2, <1>10, <2>1, HearsIs DEF SummaryInv
  <2>3. OnlyAt(v) /\ thread'[v] = thread[v] /\ made'[v] = made[v] /\ told'[v] = heard /\ brief'[v] = brief[v]
    BY <1>2, <1>10, <2>2 DEF OnlyAt, SummaryInv, SummaryTyped
  <2>4. BriefOK(brief[v], thread[v], made[v], heard)
    BY <1>4, <2>1, <2>2 DEF BriefOK
  <2>5. Busy' = Busy
    BY <1>10 DEF Busy
  <2>6. SlotsOK' /\ slots' \in 0..Slots
    BY <1>3, <1>5, <1>6, <1>10, <2>5 DEF SlotsOK
  <2> QED BY <1>2, <1>3, <2>3, <2>4, <2>6, VersionStep
<1>11. CASE /\ ~Summaries!Taken(v) /\ UNCHANGED <<slots, told>>
            /\ brief' = [brief EXCEPT ![v] = new]
            /\ thread' = [thread EXCEPT ![v] = [at |-> "begun", deadline |-> until]]
  <2>1. PICK run : run = [at |-> "begun", deadline |-> until]
    OBVIOUS
  <2>2. run \in ThreadRow /\ run.at = "begun" /\ run.deadline = until
    BY <2>1 DEF ThreadRow
  <2>3. thread' = [thread EXCEPT ![v] = run]
    BY <1>11, <2>1
  <2>4. OnlyAt(v) /\ thread'[v] = run /\ made'[v] = made[v] /\ told'[v] = told[v] /\ brief'[v] = new
    BY <1>2, <1>9, <1>11, <2>2, <2>3 DEF OnlyAt, SummaryInv, SummaryTyped
  <2>5. brief[v].status = "none" /\ made[v] = 0 /\ told[v] = "none" /\ thread[v] = Summaries!NoThread
    BY <1>4, <1>11 DEF Summaries!Taken, BriefOK
  <2>6. BriefOK(new, run, made[v], told[v])
    BY <1>9, <2>2, <2>5 DEF BriefOK
  <2>7. v \notin Busy /\ run # Summaries!NoThread
    BY <2>2, <2>5 DEF Busy, Summaries!NoThread
  <2>8. Busy' = Busy \cup {v}
    <3>1. SummaryTyped
      BY DEF SummaryInv
    <3>2. Busy' = IF run # Summaries!NoThread THEN Busy \cup {v} ELSE Busy \ {v}
      BY <1>2, <2>3, <3>1 DEF Busy, SummaryTyped
    <3> QED BY <2>7, <3>2
  <2>9. Cardinality(Busy \cup {v}) = Cardinality(Busy) + 1
    BY <2>7, SlotsCount, FS_AddElement
  <2>10. SlotsOK'
    BY <1>3, <1>5, <1>11, <2>8, <2>9 DEF SlotsOK
  <2>11. slots' \in 0..Slots /\ brief'[v].status # "ready"
    BY <1>6, <1>9, <1>11, <2>4
  <2> QED BY <1>2, <1>3, <2>4, <2>6, <2>10, <2>11, VersionStep
<1>12. CASE /\ ~Summaries!Taken(v) /\ slots' = slots - 1
            /\ brief' = brief \/ brief' = [brief EXCEPT ![v] = new]
            /\ UNCHANGED <<thread, told>>
  <2>1. OnlyAt(v) /\ thread'[v] = thread[v] /\ made'[v] = made[v] /\ told'[v] = told[v]
        /\ (brief'[v] = new \/ brief'[v] = brief[v])
    BY <1>2, <1>9, <1>12 DEF OnlyAt, SummaryInv, SummaryTyped
  <2>2. /\ brief[v].status = "none" /\ made[v] = 0 /\ told[v] = "none"
        /\ thread[v] = Summaries!NoThread /\ thread[v].at = "none"
    BY <1>4, <1>12 DEF Summaries!Taken, BriefOK
  <2>3. BriefOK(new, thread[v], made[v], told[v])
    BY <1>9, <2>2 DEF BriefOK
  <2>4. Busy' = Busy
    BY <1>12 DEF Busy
  <2>5. SlotsOK' /\ slots' \in 0..Slots
    BY <1>3, <1>5, <1>6, <1>12, <2>4 DEF SlotsOK
  <2>6. BriefOK(brief'[v], thread'[v], made'[v], told'[v]) /\ brief'[v].status # "ready"
    BY <1>4, <1>9, <2>1, <2>2, <2>3
  <2> QED BY <1>2, <1>3, <2>1, <2>5, <2>6, VersionStep
<1> QED BY <1>1, <1>7, <1>8, <1>10, <1>11, <1>12 DEF Summaries!Insert

LEMMA SettleKeepsSummary ==
    ASSUME SummaryGiven, SummaryInv, NEW v \in Versions, Summaries!Settle(v)
    PROVE  SummaryInv' /\ Summaries!ReadyInTime
<1>1. /\ thread[v].at \in {"ready", "fallback"} /\ thread' = [thread EXCEPT ![v] = Summaries!NoThread]
      /\ slots' = slots - 1 /\ UNCHANGED <<clock, source, caller, made, told>>
  BY DEF Summaries!Settle, Summaries!Settled
<1>2. BriefOK(brief[v], thread[v], made[v], told[v])
  BY DEF SummaryInv, BriefsOK
<1>3. PICK old \in BriefRow : old = brief[v]
  BY DEF SummaryInv, SummaryTyped
<1>4. PICK outcome \in {"ready", "fallback"} :
         /\ brief' = IF old.status = "pending" THEN [brief EXCEPT ![v].status = outcome] ELSE brief
         /\ outcome = "ready" => clock < thread[v].deadline /\ thread[v].at = "ready"
  <2>1. Summaries!Outcome(v) = IF clock >= thread[v].deadline THEN "fallback" ELSE thread[v].at
    BY DEF Summaries!Outcome
  <2>2. thread[v].deadline \in Nat /\ clock \in Nat
    BY DEF SummaryInv, SummaryTyped, ThreadRow
  <2>3. Summaries!Outcome(v) \in {"ready", "fallback"}
    BY <1>1, <2>1
  <2>4. Summaries!Outcome(v) = "ready" => clock < thread[v].deadline /\ thread[v].at = "ready"
    BY <2>1, <2>2
  <2> QED BY <1>3, <2>3, <2>4 DEF Summaries!Settle
<1>5. PICK new : new = IF old.status = "pending" THEN [old EXCEPT !.status = outcome] ELSE old
  OBVIOUS
<1>6. /\ new \in BriefRow /\ new.deadline = old.deadline
      /\ old.status = "pending" => new.status = outcome
      /\ old.status # "pending" => new = old
  BY <1>5 DEF BriefRow
<1>7. brief' = [brief EXCEPT ![v] = new]
  BY <1>3, <1>4, <1>5, SameVersion DEF SummaryInv
<1>8. Summaries!NoThread \in ThreadRow /\ Summaries!NoThread.at = "none"
  BY DEF Summaries!NoThread, ThreadRow
<1>9. /\ OnlyAt(v) /\ thread'[v] = Summaries!NoThread /\ made'[v] = made[v] /\ told'[v] = told[v]
      /\ brief'[v] = new
  BY <1>1, <1>6, <1>7, <1>8 DEF OnlyAt, SummaryInv, SummaryTyped
<1>10. BriefOK(new, Summaries!NoThread, made[v], told[v])
  <2>1. new.status = "ready" => made[v] = 1
    BY <1>2, <1>3, <1>4, <1>6 DEF BriefOK
  <2>2. told[v] # "none" => new.status = told[v]
    <3>1. told[v] # "none" => old.status = told[v] /\ told[v] \in {"ready", "fallback"}
      BY <1>2, <1>3 DEF BriefOK, SummaryInv, SummaryTyped
    <3> QED BY <1>6, <3>1
  <2>3. new.status # "none"
    BY <1>1, <1>2, <1>3, <1>6 DEF BriefOK
  <2> QED BY <1>2, <1>8, <2>1, <2>2, <2>3 DEF BriefOK
<1>11. /\ v \in Busy /\ Busy' = Busy \ {v} /\ Going' = Going
  <2>1. v \in Busy
    BY <1>1, <1>8 DEF Busy
  <2>2. Busy' = Busy \ {v}
    BY <1>1, BusyMoves DEF SummaryInv
  <2>3. Going' = Going
    BY <1>1 DEF Going
  <2> QED BY <2>1, <2>2, <2>3
<1>12. SlotsOK' /\ slots' \in 0..Slots
  <2>1. Cardinality(Busy \ {v}) = Cardinality(Busy) - 1 /\ Cardinality(Busy) # 0
    BY <1>11, SlotsCount, FS_RemoveElement, FS_EmptySet
  <2>2. slots = Cardinality(Busy) + Cardinality(Going) /\ slots \in 0..Slots
    BY DEF SummaryInv, SlotsOK, SummaryTyped
  <2>3. slots' = Cardinality(Busy') + Cardinality(Going')
    BY <1>1, <1>11, <2>1, <2>2, SlotsCount
  <2>4. slots' \in 0..Slots
    BY <1>1, <2>1, <2>2, SlotsCount, SummaryLimits
  <2> QED BY <2>3, <2>4 DEF SlotsOK
<1>13. CallersStayTyped /\ UNCHANGED clock
  BY <1>1 DEF SummaryInv, SummaryTyped, CallersStayTyped
<1>14. new.status = "ready" /\ brief[v].status # "ready" => clock < brief[v].deadline
  <2>1. thread[v].deadline = brief[v].deadline
    BY <1>1, <1>2 DEF BriefOK
  <2> QED BY <1>3, <1>4, <1>6, <2>1
<1> QED BY <1>9, <1>10, <1>12, <1>13, <1>14, VersionStep

LEMMA RestKeepsSummary ==
    ASSUME SummaryGiven, SummaryInv,
           \/ \E c \in Callers, v \in Versions : Summaries!Request(c, v)
           \/ Summaries!Pass \/ Summaries!ChangeSource \/ Summaries!Restart
           \/ UNCHANGED Summaries!summaryVars
    PROVE  SummaryInv' /\ Summaries!ReadyInTime
<1>1. UNCHANGED <<brief, made, told>>
  BY DEF Summaries!Request, Summaries!Pass, Summaries!ChangeSource, Summaries!Restart,
         Summaries!summaryVars
<1>2. Summaries!ReadyInTime
  BY <1>1 DEF Summaries!ReadyInTime
<1>3. clock' \in Nat
  BY DEF Summaries!Request, Summaries!Pass, Summaries!ChangeSource, Summaries!Restart,
         Summaries!summaryVars, SummaryInv, SummaryTyped
<1>4. CASE Summaries!Restart
  <2>1. /\ caller' = [c \in Callers |-> [at |-> "idle", version |-> 0, deadline |-> 0]]
        /\ thread' = [v \in Versions |-> Summaries!NoThread] /\ slots' = 0
    BY <1>4 DEF Summaries!Restart, Summaries!Idle
  <2>2. caller' \in [Callers -> CallerRow]
    BY <2>1 DEF CallerRow
  <2>3. thread' \in [Versions -> ThreadRow] /\ Summaries!NoThread.at = "none"
    BY <2>1 DEF ThreadRow, Summaries!NoThread
  <2>4. Busy' = {} /\ Going' = {}
    BY <2>1 DEF Busy, Going
  <2>5. SlotsOK'
    BY <2>1, <2>4, FS_EmptySet DEF SlotsOK
  <2>6. SummaryTyped'
    BY <1>1, <1>3, <2>1, <2>2, <2>3, SummaryLimits DEF SummaryInv, SummaryTyped
  <2>7. ASSUME NEW v \in Versions PROVE BriefOK(brief'[v], thread'[v], made'[v], told'[v])
    <3>1. BriefOK(brief[v], thread[v], made[v], told[v]) /\ thread'[v] = Summaries!NoThread
      BY <2>1 DEF SummaryInv, BriefsOK
    <3> QED BY <1>1, <2>3, <3>1 DEF BriefOK
  <2> QED BY <1>2, <2>5, <2>6, <2>7 DEF SummaryInv, BriefsOK
<1>5. CASE ~Summaries!Restart
  <2>1. UNCHANGED <<thread, slots>> /\ CallersStayTyped /\ Going' = Going
    <3>1. ASSUME NEW c \in Callers, NEW v \in Versions, Summaries!Request(c, v)
          PROVE  UNCHANGED <<thread, slots>> /\ CallersStayTyped /\ Going' = Going
      <4>1. PICK new : new = [at |-> "unseen", version |-> v, deadline |-> 0]
        OBVIOUS
      <4>2. new \in CallerRow /\ new.at = "unseen" /\ new.version = v
        BY <4>1 DEF CallerRow
      <4>3. caller' = [caller EXCEPT ![c] = new] /\ caller[c].at = "idle" /\ UNCHANGED <<thread, slots>>
        BY <3>1, <4>1 DEF Summaries!Request, Summaries!Idle
      <4> QED BY <4>2, <4>3 DEF SummaryInv, SummaryTyped, CallersStayTyped, Going
    <3>2. CASE UNCHANGED <<thread, slots, caller>>
      BY <3>2 DEF SummaryInv, SummaryTyped, CallersStayTyped, Going
    <3> QED BY <1>5, <3>1, <3>2 DEF Summaries!Pass, Summaries!ChangeSource, Summaries!summaryVars
  <2>2. SlotsOK'
    BY <2>1, SlotsStay DEF SummaryInv, Busy
  <2>3. SummaryTyped'
    BY <1>1, <1>3, <2>1 DEF SummaryInv, SummaryTyped, CallersStayTyped
  <2>4. BriefsOK'
    BY <1>1, <2>1 DEF SummaryInv, BriefsOK
  <2> QED BY <1>2, <2>2, <2>3, <2>4 DEF SummaryInv
<1> QED BY <1>4, <1>5

LEMMA SummaryStep ==
    ASSUME SummaryGiven, SummaryInv, [Summaries!SummaryNext]_Summaries!summaryVars
    PROVE  SummaryInv' /\ Summaries!ReadyInTime
BY ReadKeepsSummary, TakeSlotKeepsSummary, InsertKeepsSummary, ThreadKeepsSummary, SettleKeepsSummary,
   RestKeepsSummary
DEF Summaries!SummaryNext

(* Every reachable state keeps the rows, the threads and the requests of   *)
(* summaries in the relation SummaryInv states.                            *)
THEOREM SummaryInvariance ==
    ASSUME SummaryGiven
    PROVE  Summaries!SummarySpec => []SummaryInv
BY SummaryStart, SummaryStep, PTL DEF Summaries!SummarySpec

(* The slots are those of the threads and of the requests on their way, a  *)
(* version is generated once at most, over restarts and requests that      *)
(* cross, and what a caller heard of it stays so.                          *)
THEOREM SummariesStaySettled ==
    ASSUME SummaryGiven
    PROVE  Summaries!SummarySpec => []Summaries!SummariesAreSettled
<1>1. SummaryInv => Summaries!SummariesAreSettled
  <2> SUFFICES ASSUME SummaryInv PROVE Summaries!SummariesAreSettled
    OBVIOUS
  <2>1. Summaries!Cardinality(Busy) = Cardinality(Busy) /\ Summaries!Cardinality(Going) = Cardinality(Going)
    BY DEF Summaries!Cardinality, Cardinality, Summaries!IsFiniteSet, IsFiniteSet
  <2>2. slots = Summaries!Cardinality({v \in Versions : thread[v] # Summaries!NoThread})
                + Summaries!Cardinality({c \in Callers : caller[c].at = "inserting"})
    BY <2>1 DEF SummaryInv, SlotsOK, Busy, Going
  <2>3. ASSUME NEW v \in Versions
        PROVE  /\ made[v] <= 1
               /\ thread[v] # Summaries!NoThread => thread[v].deadline = brief[v].deadline
               /\ told[v] # "none" => brief[v].status = told[v]
               /\ brief[v].status = "ready" => told[v] # "fallback" /\ made[v] = 1
    <3>1. BriefOK(brief[v], thread[v], made[v], told[v])
      BY DEF SummaryInv, BriefsOK
    <3> QED BY <3>1 DEF BriefOK
  <2> QED BY <2>2, <2>3 DEF Summaries!SummariesAreSettled
<1> QED BY <1>1, SummaryInvariance, PTL

(* A summary becomes ready before its deadline or not at all, however late *)
(* its generator returns.                                                  *)
THEOREM ReadyOnlyInTime ==
    ASSUME SummaryGiven
    PROVE  Summaries!SummarySpec => [][Summaries!ReadyInTime]_Summaries!summaryVars
<1>1. SummaryInv /\ [Summaries!SummaryNext]_Summaries!summaryVars
        => [Summaries!ReadyInTime]_Summaries!summaryVars
  BY SummaryStep
<1> QED BY <1>1, SummaryInvariance, PTL DEF Summaries!SummarySpec

-----------------------------------------------------------------------------
(* Reviews of memory.  The opinion of a model arrives long after the turn  *)
(* it is about: the queue may have been stopped, emptied or lost, and the  *)
(* memory forgotten or condensed.  Evidence is written in one transaction, *)
(* so it is enough that what the worker holds belongs to a turn there was. *)

QueuedRow == [message : Messages, generation : Nat]
EvidenceRow == [message : Messages, when : Nat \ {0}, text : 1..2]
InHand == {"taken", "waiting", "applying", "writing"}

MemoriesOK == memory \in [Records -> [status : {"active", "forgotten"}, text : 1..2]]

PlaceOK(t) ==
    /\ t = [at |-> t.at, when |-> t.when, copies |-> t.copies]
    /\ t.at # "none" => t.when \in Nat \ {0}

TurnsOK == turns = [m \in Messages |-> turns[m]] /\ \A m \in Messages : PlaceOK(turns[m])

(* A job is about a turn there was; so is what the worker has in hand.     *)
Waited(jobs) == \A n \in DOMAIN jobs : turns[jobs[n].message].at # "none"

JobsOK ==
    /\ queue = [jobs |-> queue.jobs, generation |-> queue.generation, seen |-> queue.seen,
                stopped |-> queue.stopped, stops |-> queue.stops]
    /\ queue.jobs \in Seq(QueuedRow) /\ queue.generation \in Nat
    /\ Waited(queue.jobs)

HandOK(w) ==
    /\ w = [at |-> w.at, message |-> w.message, generation |-> w.generation,
            copies |-> w.copies, yes |-> w.yes]
    /\ w.at \in {"none", "idle"} \cup InHand
    /\ w.at \in InHand => w.message \in Messages /\ turns[w.message].at # "none"

(* The worker takes a job when no request is under way, and its own is the *)
(* next.                                                                   *)
AskedOK ==
    /\ asked = [alive |-> asked.alive, yes |-> asked.yes] /\ asked.alive \in {0, 1}
    /\ worker.at = "taken" => asked.alive = 0

DayOK == calls = [day |-> calls.day, count |-> calls.count] /\ calls.count \in 0..Daily

EvidenceOK == evidence \in [Records -> Seq(EvidenceRow)] /\ Reviews!EvidenceIsSingle

ReviewInv ==
    /\ clock \in Nat \ {0} /\ MemoriesOK /\ TurnsOK /\ JobsOK /\ HandOK(worker) /\ AskedOK /\ DayOK
    /\ EvidenceOK

ReviewGiven == Reviews!ReviewAssumption

LEMMA ReviewLimits ==
    ASSUME ReviewGiven
    PROVE  Daily \in Nat /\ Interval \in Nat
BY DEF ReviewGiven, Reviews!ReviewAssumption

LEMMA ReviewStart ==
    ASSUME ReviewGiven, Reviews!ReviewInit
    PROVE  ReviewInv
<1>1. /\ clock = 1 /\ memory = [r \in Records |-> [status |-> "active", text |-> 1]]
      /\ turns = [m \in Messages |-> Reviews!NoTurn]
      /\ queue = Reviews!NoQueue /\ worker = Reviews!NoWork
      /\ calls = [day |-> 0, count |-> 0] /\ asked = [alive |-> 0, yes |-> {}]
      /\ evidence = [r \in Records |-> <<>>]
  BY DEF Reviews!ReviewInit
<1>2. MemoriesOK
  BY <1>1 DEF MemoriesOK
<1>3. TurnsOK
  BY <1>1 DEF TurnsOK, PlaceOK, Reviews!NoTurn
<1>4. JobsOK
  BY <1>1 DEF JobsOK, Waited, Reviews!NoQueue
<1>5. HandOK(worker) /\ AskedOK
  BY <1>1 DEF HandOK, AskedOK, InHand, Reviews!NoWork
<1>6. DayOK
  BY <1>1, ReviewLimits DEF DayOK
<1>7. EvidenceOK
  BY <1>1 DEF EvidenceOK, Reviews!EvidenceIsSingle
<1> QED BY <1>1, <1>2, <1>3, <1>4, <1>5, <1>6, <1>7 DEF ReviewInv

(* What nobody touched stays as it was.                                    *)
LEMMA ReviewStays ==
    ASSUME ReviewInv
    PROVE  /\ UNCHANGED memory => MemoriesOK'
           /\ UNCHANGED turns => TurnsOK'
           /\ UNCHANGED <<turns, queue>> => JobsOK'
           /\ UNCHANGED <<turns, worker>> => HandOK(worker)'
           /\ UNCHANGED <<worker, asked>> => AskedOK'
           /\ UNCHANGED calls => DayOK'
           /\ UNCHANGED evidence => EvidenceOK' /\ Reviews!ReviewIsCurrent
<1>1. ASSUME UNCHANGED evidence PROVE EvidenceOK' /\ Reviews!ReviewIsCurrent
  BY <1>1 DEF ReviewInv, EvidenceOK, Reviews!EvidenceIsSingle, Reviews!ReviewIsCurrent
<1>2. UNCHANGED turns => TurnsOK'
  BY DEF ReviewInv, TurnsOK
<1>3. ASSUME UNCHANGED <<turns, queue>> PROVE JobsOK'
  BY <1>3 DEF ReviewInv, JobsOK, Waited
<1>4. UNCHANGED <<turns, worker>> => HandOK(worker)'
  BY DEF ReviewInv, HandOK
<1>5. UNCHANGED <<worker, asked>> => AskedOK'
  BY DEF ReviewInv, AskedOK
<1>6. (UNCHANGED memory => MemoriesOK') /\ (UNCHANGED calls => DayOK')
  BY DEF ReviewInv, MemoriesOK, DayOK
<1> QED BY <1>1, <1>2, <1>3, <1>4, <1>5, <1>6

LEMMA MemoryKeepsReviews ==
    ASSUME ReviewGiven, ReviewInv, NEW r \in Records, Reviews!Forget(r) \/ Reviews!Condense(r)
    PROVE  ReviewInv' /\ Reviews!ReviewIsCurrent
<1>1. UNCHANGED <<clock, turns, queue, worker, calls, asked, evidence>>
  BY DEF Reviews!Forget, Reviews!Condense
<1>2. PICK old \in [status : {"active", "forgotten"}, text : 1..2] : old = memory[r]
  BY DEF ReviewInv, MemoriesOK
<1>3. PICK new \in [status : {"active", "forgotten"}, text : 1..2] : memory' = [memory EXCEPT ![r] = new]
  <2>1. CASE Reviews!Forget(r)
    <3>1. PICK new : new = [old EXCEPT !.status = "forgotten"]
      OBVIOUS
    <3>2. new \in [status : {"active", "forgotten"}, text : 1..2]
      BY <3>1
    <3>3. memory' = [memory EXCEPT ![r] = new]
      BY <1>2, <2>1, <3>1 DEF Reviews!Forget
    <3> QED BY <3>2, <3>3
  <2>2. CASE Reviews!Condense(r)
    <3>1. PICK new : new = [old EXCEPT !.text = 2]
      OBVIOUS
    <3>2. new \in [status : {"active", "forgotten"}, text : 1..2]
      BY <3>1
    <3>3. memory' = [memory EXCEPT ![r] = new]
      BY <1>2, <2>2, <3>1 DEF Reviews!Condense
    <3> QED BY <3>2, <3>3
  <2> QED BY <2>1, <2>2
<1>4. MemoriesOK'
  BY <1>3 DEF ReviewInv, MemoriesOK
<1>5. clock' \in Nat \ {0}
  BY <1>1 DEF ReviewInv
<1> QED BY <1>1, <1>4, <1>5, ReviewStays DEF ReviewInv

(* The queue changes: its jobs go, or lose their first, or get one more.   *)
LEMMA QueueMoves ==
    ASSUME queue' = [jobs |-> queue'.jobs, generation |-> queue'.generation, seen |-> queue'.seen,
                     stopped |-> queue'.stopped, stops |-> queue'.stops],
           queue'.jobs \in Seq(QueuedRow), queue'.generation \in Nat, Waited(queue'.jobs),
           \A m \in Messages : turns[m].at # "none" => turns'[m].at # "none"
    PROVE  JobsOK'
<1>1. ASSUME NEW n \in DOMAIN queue'.jobs PROVE turns'[queue'.jobs[n].message].at # "none"
  <2>1. PICK jobs \in Seq(QueuedRow) : jobs = queue'.jobs
    OBVIOUS
  <2>2. jobs[n] \in QueuedRow
    BY <2>1
  <2>3. jobs[n].message \in Messages
    BY <2>2 DEF QueuedRow
  <2> QED BY <2>1, <2>3 DEF Waited
<1> QED BY <1>1 DEF JobsOK, Waited

LEMMA JobsAre ==
    ASSUME ReviewInv
    PROVE  /\ queue = [jobs |-> queue.jobs, generation |-> queue.generation, seen |-> queue.seen,
                       stopped |-> queue.stopped, stops |-> queue.stops]
           /\ queue.jobs \in Seq(QueuedRow) /\ queue.generation \in Nat /\ Waited(queue.jobs)
           /\ <<>> \in Seq(QueuedRow) /\ Waited(<<>>)
BY DEF ReviewInv, JobsOK, Waited

LEMMA EmptyKeepsReviews ==
    ASSUME ReviewGiven, ReviewInv, Reviews!Stop \/ \E r \in Records : Reviews!Invalidate(r)
    PROVE  ReviewInv' /\ Reviews!ReviewIsCurrent
<1>1. UNCHANGED <<clock, memory, turns, worker, calls, asked, evidence>>
  BY DEF Reviews!Stop, Reviews!Invalidate
<1>2. PICK stopped, stops :
         queue' = [jobs |-> <<>>, generation |-> queue.generation + 1, seen |-> queue.seen,
                   stopped |-> stopped, stops |-> stops]
  BY JobsAre DEF Reviews!Stop, Reviews!Invalidate, Reviews!Invalidated
<1>3. PICK generation \in Nat : generation = queue.generation + 1
  BY JobsAre
<1>4. JobsOK'
  <2>1. queue'.jobs = <<>> /\ queue'.generation = generation
    BY <1>2, <1>3
  <2>2. queue' = [jobs |-> queue'.jobs, generation |-> queue'.generation, seen |-> queue'.seen,
                  stopped |-> queue'.stopped, stops |-> queue'.stops]
    BY <1>2
  <2>3. queue'.jobs \in Seq(QueuedRow) /\ Waited(queue'.jobs)
    BY <2>1, JobsAre
  <2> QED BY <1>1, <2>1, <2>2, <2>3, QueueMoves
<1>5. clock' \in Nat \ {0}
  BY <1>1 DEF ReviewInv
<1> QED BY <1>1, <1>4, <1>5, ReviewStays DEF ReviewInv


LEMMA TurnKeepsReviews ==
    ASSUME ReviewGiven, ReviewInv, NEW m \in Messages,
           Reviews!Retrieve(m) \/ Reviews!AskForReview(m) \/ Reviews!Enqueue(m)
    PROVE  ReviewInv' /\ Reviews!ReviewIsCurrent
<1>1. UNCHANGED <<clock, memory, worker, calls, asked, evidence>>
  BY DEF Reviews!Retrieve, Reviews!AskForReview, Reviews!Enqueue
<1>2. PICK old : old = turns[m] /\ PlaceOK(old)
  BY DEF ReviewInv, TurnsOK
<1>3. PICK new : turns' = [turns EXCEPT ![m] = new] /\ PlaceOK(new) /\ new.at # "none"
  <2>1. CASE Reviews!Retrieve(m)
    <3>1. PICK new : new = [at |-> "holding", when |-> clock,
                            copies |-> [r \in Reviews!Active |-> memory[r].text]]
      OBVIOUS
    <3>2. PlaceOK(new) /\ new.at # "none"
      BY <3>1 DEF PlaceOK, ReviewInv
    <3>3. turns' = [turns EXCEPT ![m] = new]
      BY <2>1, <3>1 DEF Reviews!Retrieve
    <3> QED BY <3>2, <3>3
  <2>2. ASSUME NEW place \in {"asking", "holding"}, turns' = [turns EXCEPT ![m].at = place],
               old.at # "none"
        PROVE  \E new : turns' = [turns EXCEPT ![m] = new] /\ PlaceOK(new) /\ new.at # "none"
    <3>1. PICK new : new = [old EXCEPT !.at = place]
      OBVIOUS
    <3>2. new = [at |-> place, when |-> old.when, copies |-> old.copies]
      BY <1>2, <3>1 DEF PlaceOK
    <3>3. PlaceOK(new) /\ new.at # "none"
      BY <1>2, <2>2, <3>2 DEF PlaceOK
    <3>4. turns' = [turns EXCEPT ![m] = new]
      BY <1>2, <2>2, <3>1
    <3> QED BY <3>3, <3>4
  <2>3. CASE Reviews!AskForReview(m)
    BY <1>2, <2>2, <2>3 DEF Reviews!AskForReview
  <2>4. CASE Reviews!Enqueue(m)
    BY <1>2, <2>2, <2>4 DEF Reviews!Enqueue
  <2> QED BY <2>1, <2>3, <2>4
<1>4. TurnsOK' /\ turns'[m].at # "none" /\ \A k \in Messages : turns[k].at # "none" => turns'[k].at # "none"
  <2>1. turns = [k \in Messages |-> turns[k]] /\ \A k \in Messages : PlaceOK(turns[k])
    BY DEF ReviewInv, TurnsOK
  <2>2. turns' = [k \in Messages |-> turns'[k]]
    BY <1>3, <2>1
  <2>3. \A k \in Messages : turns'[k] = IF k = m THEN new ELSE turns[k]
    BY <1>3, <2>1
  <2> QED BY <1>3, <2>1, <2>2, <2>3 DEF TurnsOK
<1>5. HandOK(worker)'
  <2>1. HandOK(worker)
    BY DEF ReviewInv
  <2> QED BY <1>1, <1>4, <2>1 DEF HandOK
<1>6. JobsOK'
  <2>1. CASE UNCHANGED queue
    BY <1>4, <2>1, JobsAre, QueueMoves
  <2>2. CASE /\ queue' = [queue EXCEPT !.jobs = Append(@, [message |-> m, generation |-> queue.generation]),
                                       !.seen = @ \cup {m}]
             /\ turns[m].at = "asking"
    <3>1. PICK entry : entry = [message |-> m, generation |-> queue.generation]
      OBVIOUS
    <3>2. entry \in QueuedRow /\ entry.message = m
      BY <3>1, JobsAre DEF QueuedRow
    <3>3. PICK jobs \in Seq(QueuedRow) : jobs = queue.jobs /\ Waited(jobs)
      BY JobsAre
    <3>4. queue' = [jobs |-> Append(jobs, entry), generation |-> queue.generation,
                    seen |-> queue.seen \cup {m}, stopped |-> queue.stopped, stops |-> queue.stops]
      BY <2>2, <3>1, <3>3, JobsAre
    <3>5. Append(jobs, entry) \in Seq(QueuedRow)
      BY <3>2, <3>3
    <3>6. Waited(Append(jobs, entry))
      <4>1. ASSUME NEW n \in DOMAIN Append(jobs, entry)
            PROVE  turns[Append(jobs, entry)[n].message].at # "none"
        <5>1. n \in DOMAIN jobs \/ Append(jobs, entry)[n] = entry
          BY <3>3
        <5>2. n \in DOMAIN jobs => Append(jobs, entry)[n] = jobs[n]
          BY <3>3
        <5> QED BY <2>2, <3>2, <3>3, <5>1, <5>2 DEF Waited
      <4> QED BY <4>1 DEF Waited
    <3>7. queue'.jobs = Append(jobs, entry) /\ queue'.generation \in Nat
          /\ queue' = [jobs |-> queue'.jobs, generation |-> queue'.generation, seen |-> queue'.seen,
                       stopped |-> queue'.stopped, stops |-> queue'.stops]
      BY <3>4, JobsAre
    <3> QED BY <1>4, <3>5, <3>6, <3>7, QueueMoves
  <2> QED BY <2>1, <2>2 DEF Reviews!Retrieve, Reviews!AskForReview, Reviews!Enqueue
<1>7. clock' \in Nat \ {0}
  BY <1>1 DEF ReviewInv
<1> QED BY <1>1, <1>4, <1>5, <1>6, <1>7, ReviewStays DEF ReviewInv

(* The worker's record, with another place or nothing in hand.             *)
LEMMA HandMoves ==
    ASSUME ReviewInv, NEW place \in {"none", "idle"} \cup InHand, NEW copies, NEW yes
    PROVE  /\ [Reviews!NoWork EXCEPT !.at = "idle"] = [at |-> "idle", message |-> 0, generation |-> 0,
                                                       copies |-> Reviews!NoCopies, yes |-> {}]
           /\ HandOK([Reviews!NoWork EXCEPT !.at = "idle"])
           /\ HandOK(Reviews!NoWork) /\ Reviews!NoWork.at = "none"
           /\ worker.at \in InHand =>
                 HandOK([at |-> place, message |-> worker.message, generation |-> worker.generation,
                         copies |-> copies, yes |-> yes])
<1>1. [Reviews!NoWork EXCEPT !.at = "idle"] = [at |-> "idle", message |-> 0, generation |-> 0,
                                               copies |-> Reviews!NoCopies, yes |-> {}]
  BY DEF Reviews!NoWork
<1>2. HandOK([Reviews!NoWork EXCEPT !.at = "idle"])
  BY <1>1 DEF HandOK, InHand
<1>3. HandOK(Reviews!NoWork) /\ Reviews!NoWork.at = "none"
  BY DEF HandOK, InHand, Reviews!NoWork
<1>4. ASSUME worker.at \in InHand
      PROVE  HandOK([at |-> place, message |-> worker.message, generation |-> worker.generation,
                     copies |-> copies, yes |-> yes])
  BY <1>4 DEF HandOK, ReviewInv
<1> QED BY <1>1, <1>2, <1>3, <1>4

LEMMA TakeKeepsReviews ==
    ASSUME ReviewGiven, ReviewInv, Reviews!TakeJob
    PROVE  ReviewInv' /\ Reviews!ReviewIsCurrent
<1>1. /\ UNCHANGED <<clock, memory, forgetting, turns, asked, evidence>> /\ asked.alive = 0
      /\ queue.jobs # <<>> /\ queue' = [queue EXCEPT !.jobs = Tail(@)]
  BY DEF Reviews!TakeJob, Reviews!Quiet
<1>2. PICK jobs \in Seq(QueuedRow) : jobs = queue.jobs /\ Waited(jobs) /\ jobs # <<>>
  BY <1>1, JobsAre
<1>3. PICK entry : entry = Head(jobs)
  OBVIOUS
<1>4. entry \in QueuedRow /\ Tail(jobs) \in Seq(QueuedRow) /\ turns[entry.message].at # "none" /\ Waited(Tail(jobs))
  <2>1. 1 \in DOMAIN jobs /\ jobs[1] = entry /\ jobs[1] \in QueuedRow /\ Tail(jobs) \in Seq(QueuedRow)
    BY <1>2, <1>3
  <2>2. \A n \in DOMAIN Tail(jobs) : n + 1 \in DOMAIN jobs /\ Tail(jobs)[n] = jobs[n + 1]
    BY <1>2
  <2> QED BY <1>2, <2>1, <2>2 DEF Waited
<1>5. JobsOK'
  <2>1. queue' = [jobs |-> Tail(jobs), generation |-> queue.generation, seen |-> queue.seen,
                  stopped |-> queue.stopped, stops |-> queue.stops]
    BY <1>1, <1>2, JobsAre
  <2>2. queue'.jobs = Tail(jobs) /\ queue'.generation \in Nat
          /\ queue' = [jobs |-> queue'.jobs, generation |-> queue'.generation, seen |-> queue'.seen,
                       stopped |-> queue'.stopped, stops |-> queue'.stops]
    BY <2>1, JobsAre
  <2> QED BY <1>1, <1>4, <2>2, QueueMoves
<1>6. HandOK(worker)' /\ AskedOK' /\ DayOK'
  <2>1. CASE UNCHANGED <<calls, worker>>
    BY <1>1, <2>1, ReviewStays
  <2>2. CASE /\ Reviews!Affordable /\ calls' = [day |-> Reviews!Today, count |-> Reviews!Spent + 1]
             /\ worker' = [Reviews!NoWork EXCEPT !.at = "taken", !.message = entry.message,
                                                 !.generation = entry.generation]
    <3>1. worker' = [at |-> "taken", message |-> entry.message, generation |-> entry.generation,
                     copies |-> Reviews!NoCopies, yes |-> {}]
      BY <2>2 DEF Reviews!NoWork
    <3>2. worker'.at = "taken" /\ worker'.message = entry.message /\ entry.message \in Messages
      BY <1>4, <3>1 DEF QueuedRow
    <3>3. HandOK(worker)'
      BY <1>1, <1>4, <3>1, <3>2 DEF HandOK, InHand
    <3>4. AskedOK'
      BY <1>1 DEF ReviewInv, AskedOK
    <3>5. Reviews!Spent \in Nat /\ Reviews!Spent < Daily
      BY <2>2, ReviewLimits DEF Reviews!Spent, Reviews!Affordable, ReviewInv, DayOK
    <3>6. PICK count \in 0..Daily : count = Reviews!Spent + 1
      BY <3>5, ReviewLimits
    <3>7. DayOK'
      BY <2>2, <3>6 DEF DayOK
    <3> QED BY <3>3, <3>4, <3>7
  <2> QED BY <1>2, <1>3, <2>1, <2>2 DEF Reviews!TakeJob
<1>7. clock' \in Nat \ {0}
  BY <1>1 DEF ReviewInv
<1> QED BY <1>1, <1>5, <1>6, <1>7, ReviewStays DEF ReviewInv

LEMMA RequestKeepsReviews ==
    ASSUME ReviewGiven, ReviewInv,
           Reviews!SendRequest \/ Reviews!RequestEnds \/ Reviews!Collect
    PROVE  ReviewInv' /\ Reviews!ReviewIsCurrent
<1>1. UNCHANGED <<clock, memory, turns, queue, calls, evidence>>
  BY DEF Reviews!SendRequest, Reviews!RequestEnds, Reviews!Collect
<1>2. HandOK(worker) /\ AskedOK
  BY DEF ReviewInv
<1>3. HandOK(worker)' /\ AskedOK'
  <2>1. CASE Reviews!SendRequest
    <3>1. worker.at = "taken" /\ worker.at \in InHand /\ asked.alive = 0
      BY <1>2, <2>1 DEF Reviews!SendRequest, InHand, AskedOK
    <3>2. CASE worker' = [Reviews!NoWork EXCEPT !.at = "idle"] /\ UNCHANGED asked
      <4>1. HandOK(worker)' /\ worker'.at = "idle"
        BY <1>1, <3>2, HandMoves DEF HandOK
      <4> QED BY <1>2, <3>2, <4>1 DEF AskedOK
    <3>3. ASSUME NEW copies, worker' = [worker EXCEPT !.at = "waiting", !.copies = copies],
                 asked' = [alive |-> asked.alive + 1, yes |-> {}]
          PROVE  HandOK(worker)' /\ AskedOK'
      <4>1. worker' = [at |-> "waiting", message |-> worker.message, generation |-> worker.generation,
                       copies |-> copies, yes |-> worker.yes]
        BY <1>2, <3>3 DEF HandOK
      <4>2. HandOK(worker)' /\ worker'.at = "waiting"
        BY <1>1, <1>2, <3>1, <4>1 DEF HandOK, InHand
      <4> QED BY <3>1, <3>3, <4>2 DEF AskedOK
    <3> QED BY <2>1, <3>2, <3>3 DEF Reviews!SendRequest
  <2>2. CASE Reviews!RequestEnds
    <3>1. PICK yes : asked' = [alive |-> asked.alive - 1, yes |-> yes] /\ asked.alive > 0
      BY <2>2 DEF Reviews!RequestEnds
    <3>2. UNCHANGED worker
      BY <2>2 DEF Reviews!RequestEnds
    <3>3. HandOK(worker)'
      BY <1>1, <3>2, ReviewStays
    <3>4. AskedOK'
      BY <1>2, <3>1, <3>2 DEF AskedOK
    <3> QED BY <3>3, <3>4
  <2>3. CASE Reviews!Collect
    <3>1. worker.at = "waiting" /\ worker.at \in InHand /\ asked' = [asked EXCEPT !.yes = {}]
      BY <2>3 DEF Reviews!Collect, InHand
    <3>2. asked' = [alive |-> asked.alive, yes |-> {}]
      BY <1>2, <3>1 DEF AskedOK
    <3>3. CASE worker' = [worker EXCEPT !.at = "applying", !.yes = asked.yes]
      <4>1. worker' = [at |-> "applying", message |-> worker.message, generation |-> worker.generation,
                       copies |-> worker.copies, yes |-> asked.yes]
        BY <1>2, <3>3 DEF HandOK
      <4>2. HandOK(worker)' /\ worker'.at = "applying"
        BY <1>1, <1>2, <3>1, <4>1 DEF HandOK, InHand
      <4> QED BY <1>2, <3>2, <4>2 DEF AskedOK
    <3>4. CASE worker' = [Reviews!NoWork EXCEPT !.at = "idle"]
      <4>1. HandOK(worker)' /\ worker'.at = "idle"
        BY <1>1, <3>4, HandMoves DEF HandOK
      <4> QED BY <1>2, <3>2, <4>1 DEF AskedOK
    <3> QED BY <2>3, <3>3, <3>4 DEF Reviews!Collect
  <2> QED BY <2>1, <2>2, <2>3
<1>4. clock' \in Nat \ {0}
  BY <1>1 DEF ReviewInv
<1> QED BY <1>1, <1>3, <1>4, ReviewStays DEF ReviewInv


LEMMA PlaceKeepsReviews ==
    ASSUME ReviewGiven, ReviewInv,
           Reviews!PickNext \/ Reviews!Finish \/ Reviews!Leave \/ Reviews!Start
    PROVE  ReviewInv' /\ Reviews!ReviewIsCurrent
<1>1. UNCHANGED <<clock, memory, turns, calls, asked, evidence>>
  BY DEF Reviews!PickNext, Reviews!Finish, Reviews!Leave, Reviews!Start
<1>2. HandOK(worker) /\ AskedOK
  BY DEF ReviewInv
<1>3. HandOK(worker)' /\ worker'.at # "taken"
  <2>1. CASE worker' = [Reviews!NoWork EXCEPT !.at = "idle"]
    BY <1>1, <2>1, HandMoves DEF HandOK
  <2>2. CASE worker' = Reviews!NoWork
    BY <1>1, <2>2, HandMoves DEF HandOK
  <2>3. CASE worker.at = "applying" /\ worker' = [worker EXCEPT !.at = "writing"]
    <3>1. worker' = [at |-> "writing", message |-> worker.message, generation |-> worker.generation,
                     copies |-> worker.copies, yes |-> worker.yes]
      BY <1>2, <2>3 DEF HandOK
    <3> QED BY <1>1, <1>2, <2>3, <3>1 DEF HandOK, InHand
  <2> QED BY <2>1, <2>2, <2>3 DEF Reviews!PickNext, Reviews!Finish, Reviews!Leave, Reviews!Start
<1>4. AskedOK'
  BY <1>1, <1>2, <1>3 DEF AskedOK
<1>5. JobsOK'
  <2>1. CASE UNCHANGED queue
    BY <1>1, <2>1, ReviewStays
  <2>2. CASE queue' = [queue EXCEPT !.stopped = FALSE]
    <3>1. queue' = [jobs |-> queue.jobs, generation |-> queue.generation, seen |-> queue.seen,
                    stopped |-> FALSE, stops |-> queue.stops]
      BY <2>2, JobsAre
    <3>2. queue'.jobs = queue.jobs /\ queue'.generation = queue.generation
          /\ queue' = [jobs |-> queue'.jobs, generation |-> queue'.generation, seen |-> queue'.seen,
                       stopped |-> queue'.stopped, stops |-> queue'.stops]
      BY <3>1
    <3> QED BY <1>1, <3>2, JobsAre, QueueMoves
  <2> QED BY <2>1, <2>2 DEF Reviews!PickNext, Reviews!Finish, Reviews!Leave, Reviews!Start
<1>6. clock' \in Nat \ {0}
  BY <1>1 DEF ReviewInv
<1> QED BY <1>1, <1>3, <1>4, <1>5, <1>6, ReviewStays DEF ReviewInv

(* Evidence that comes later than the last, is later than all before it.   *)
LEMMA EvidenceGrows ==
    ASSUME Interval \in Nat, NEW list \in Seq(EvidenceRow), NEW new \in EvidenceRow,
           \A i, j \in DOMAIN list : i < j => /\ list[i].message # list[j].message
                                              /\ list[j].when - list[i].when >= Interval,
           \A i \in DOMAIN list : list[i].message # new.message,
           list # <<>> => new.when - list[Len(list)].when >= Interval
    PROVE  \A i, j \in DOMAIN Append(list, new) : i < j =>
              /\ Append(list, new)[i].message # Append(list, new)[j].message
              /\ Append(list, new)[j].when - Append(list, new)[i].when >= Interval
<1> SUFFICES ASSUME NEW i \in DOMAIN Append(list, new), NEW j \in DOMAIN Append(list, new), i < j
             PROVE  /\ Append(list, new)[i].message # Append(list, new)[j].message
                    /\ Append(list, new)[j].when - Append(list, new)[i].when >= Interval
  OBVIOUS
<1>1. PICK n \in Nat : n = Len(list)
  OBVIOUS
<1>2. i \in 1..n /\ j \in 1..(n + 1) /\ DOMAIN list = 1..n
  BY <1>1
<1>3. Append(list, new)[i] = list[i] /\ list[i] \in EvidenceRow
  BY <1>1, <1>2
<1>4. CASE j \in 1..n
  <2>1. Append(list, new)[j] = list[j]
    BY <1>1, <1>4
  <2> QED BY <1>2, <1>3, <1>4, <2>1
<1>5. CASE j = n + 1
  <2>1. Append(list, new)[j] = new
    BY <1>1, <1>5
  <2>2. n \in DOMAIN list /\ list # <<>> /\ list[n] \in EvidenceRow
    BY <1>1, <1>2
  <2>3. new.when \in Nat /\ list[n].when \in Nat /\ list[i].when \in Nat
    BY <1>3, <2>2 DEF EvidenceRow
  <2>4. new.when - list[n].when >= Interval
    BY <1>1, <2>2
  <2>5. i = n \/ list[n].when - list[i].when >= Interval
    BY <1>2, <2>2
  <2>6. new.when - list[i].when >= Interval
    BY <2>3, <2>4, <2>5
  <2> QED BY <1>2, <1>3, <2>1, <2>6
<1> QED BY <1>2, <1>4, <1>5

LEMMA ReinforceKeepsReviews ==
    ASSUME ReviewGiven, ReviewInv, NEW r \in Records, Reviews!Reinforce(r)
    PROVE  ReviewInv' /\ Reviews!ReviewIsCurrent
<1>1. /\ UNCHANGED <<clock, memory, forgetting, turns, queue, calls, asked>>
      /\ worker.at = "writing"
      /\ worker' = [worker EXCEPT !.at = "applying", !.yes = @ \ {r}]
  BY DEF Reviews!Reinforce
<1>2. HandOK(worker) /\ AskedOK
  BY DEF ReviewInv
<1>3. HandOK(worker)' /\ worker'.at = "applying"
  <2>1. worker' = [at |-> "applying", message |-> worker.message, generation |-> worker.generation,
                   copies |-> worker.copies, yes |-> worker.yes \ {r}]
    BY <1>1, <1>2 DEF HandOK
  <2> QED BY <1>1, <1>2, <2>1 DEF HandOK, InHand
<1>4. AskedOK'
  BY <1>1, <1>2, <1>3 DEF AskedOK
<1>5. EvidenceOK' /\ Reviews!ReviewIsCurrent
  <2>1. CASE UNCHANGED evidence
    BY <2>1, ReviewStays
  <2>2. CASE /\ Reviews!Acceptable(r)
             /\ evidence' = [evidence EXCEPT ![r] = Append(@,
                    [message |-> worker.message, when |-> turns[worker.message].when,
                     text |-> worker.copies[r]])]
    <3>1. PICK new : new = [message |-> worker.message, when |-> turns[worker.message].when,
                            text |-> worker.copies[r]]
      OBVIOUS
    <3>2. PICK list \in Seq(EvidenceRow) : list = evidence[r]
      BY DEF ReviewInv, EvidenceOK
    <3>3. evidence' = [evidence EXCEPT ![r] = Append(list, new)]
      BY <2>2, <3>1, <3>2
    <3>4. /\ memory[r].status = "active" /\ memory[r].text = worker.copies[r]
          /\ memory[r].text \in 1..2
      BY <2>2 DEF Reviews!Acceptable, Reviews!Valid, Reviews!Active, ReviewInv, MemoriesOK
    <3>5. worker.message \in Messages /\ turns[worker.message].when \in Nat \ {0}
      BY <1>1, <1>2 DEF HandOK, InHand, ReviewInv, TurnsOK, PlaceOK
    <3>6. /\ new \in EvidenceRow /\ new.text = memory[r].text /\ new.message = worker.message
          /\ new.when = turns[worker.message].when
      BY <3>1, <3>4, <3>5 DEF EvidenceRow
    <3>7. \A i \in DOMAIN list : list[i].message # new.message
      BY <2>2, <3>2, <3>6 DEF Reviews!Acceptable, Reviews!Known
    <3>8. list # <<>> => new.when - list[Len(list)].when >= Interval
      <4> SUFFICES ASSUME list # <<>> PROVE new.when - list[Len(list)].when >= Interval
        OBVIOUS
      <4>1. Reviews!Last(r) = list[Len(list)].when
        BY <3>2 DEF Reviews!Last
      <4>2. list[Len(list)] \in EvidenceRow
        BY <3>2
      <4>3. list[Len(list)].when > 0
        BY <4>2 DEF EvidenceRow
      <4> QED BY <2>2, <3>6, <4>1, <4>3 DEF Reviews!Acceptable
    <3>9. \A i, j \in DOMAIN list : i < j => /\ list[i].message # list[j].message
                                             /\ list[j].when - list[i].when >= Interval
      BY <3>2 DEF ReviewInv, EvidenceOK, Reviews!EvidenceIsSingle
    <3>10. \A i, j \in DOMAIN Append(list, new) : i < j =>
              /\ Append(list, new)[i].message # Append(list, new)[j].message
              /\ Append(list, new)[j].when - Append(list, new)[i].when >= Interval
      BY <3>6, <3>7, <3>8, <3>9, EvidenceGrows, ReviewLimits
    <3>11. Append(list, new) \in Seq(EvidenceRow) /\ Len(Append(list, new)) = Len(list) + 1
           /\ Append(list, new)[Len(list) + 1] = new
      BY <3>2, <3>6
    <3>12. PICK longer : longer = Append(list, new)
      OBVIOUS
    <3>13. /\ evidence' \in [Records -> Seq(EvidenceRow)] /\ evidence'[r] = longer
           /\ \A k \in Records : k # r => evidence'[k] = evidence[k]
      BY <3>3, <3>11, <3>12 DEF ReviewInv, EvidenceOK
    <3>14. EvidenceOK'
      <4>1. ASSUME NEW k \in Records, NEW i \in DOMAIN evidence'[k], NEW j \in DOMAIN evidence'[k], i < j
            PROVE  /\ evidence'[k][i].message # evidence'[k][j].message
                   /\ evidence'[k][j].when - evidence'[k][i].when >= Interval
        <5>1. CASE k = r
          BY <3>10, <3>12, <3>13, <4>1, <5>1
        <5>2. CASE k # r
          BY <3>13, <4>1, <5>2 DEF ReviewInv, EvidenceOK, Reviews!EvidenceIsSingle
        <5> QED BY <5>1, <5>2
      <4> QED BY <3>13, <4>1 DEF EvidenceOK, Reviews!EvidenceIsSingle
    <3>15. Reviews!ReviewIsCurrent
      <4>1. evidence'[r][Len(evidence'[r])].text = memory[r].text
        BY <3>6, <3>11, <3>12, <3>13
      <4> QED BY <3>4, <3>13, <4>1 DEF Reviews!ReviewIsCurrent
    <3> QED BY <3>14, <3>15
  <2> QED BY <2>1, <2>2 DEF Reviews!Reinforce
<1>6. clock' \in Nat \ {0}
  BY <1>1 DEF ReviewInv
<1> QED BY <1>1, <1>3, <1>4, <1>5, <1>6, ReviewStays DEF ReviewInv

LEMMA RestartKeepsReviews ==
    ASSUME ReviewGiven, ReviewInv, Reviews!Restart
    PROVE  ReviewInv' /\ Reviews!ReviewIsCurrent
<1>1. /\ worker' = Reviews!NoWork /\ calls' = [day |-> 0, count |-> 0]
      /\ asked' = [alive |-> 0, yes |-> {}] /\ turns' = [m \in Messages |-> Reviews!NoTurn]
      /\ UNCHANGED <<clock, memory, evidence>>
      /\ queue' = [Reviews!NoQueue EXCEPT !.stops = queue.stops + 1]
  BY DEF Reviews!Restart
<1>2. TurnsOK'
  BY <1>1 DEF TurnsOK, PlaceOK, Reviews!NoTurn
<1>3. JobsOK'
  <2>1. PICK stops : queue' = [jobs |-> <<>>, generation |-> 0, seen |-> {}, stopped |-> FALSE,
                               stops |-> stops]
    BY <1>1 DEF Reviews!NoQueue
  <2> QED BY <2>1 DEF JobsOK, Waited
<1>4. HandOK(worker)' /\ AskedOK'
  BY <1>1 DEF HandOK, AskedOK, InHand, Reviews!NoWork
<1>5. DayOK'
  BY <1>1, ReviewLimits DEF DayOK
<1>6. clock' \in Nat \ {0}
  BY <1>1 DEF ReviewInv
<1> QED BY <1>1, <1>2, <1>3, <1>4, <1>5, <1>6, ReviewStays DEF ReviewInv

LEMMA TickKeepsReviews ==
    ASSUME ReviewGiven, ReviewInv, Reviews!Tick \/ UNCHANGED Reviews!reviewVars
    PROVE  ReviewInv' /\ Reviews!ReviewIsCurrent
<1>1. UNCHANGED <<memory, turns, queue, worker, calls, asked, evidence>>
  BY DEF Reviews!Tick, Reviews!reviewVars
<1>2. clock' \in Nat \ {0}
  BY DEF Reviews!Tick, Reviews!reviewVars, ReviewInv
<1> QED BY <1>1, <1>2, ReviewStays DEF ReviewInv

LEMMA ReviewStep ==
    ASSUME ReviewGiven, ReviewInv, [Reviews!ReviewNext]_Reviews!reviewVars
    PROVE  ReviewInv' /\ Reviews!ReviewIsCurrent
<1>1. ASSUME NEW r \in Records,
             Reviews!Forget(r) \/ Reviews!Invalidate(r) \/ Reviews!Condense(r) \/ Reviews!Reinforce(r)
      PROVE  ReviewInv' /\ Reviews!ReviewIsCurrent
  BY <1>1, MemoryKeepsReviews, EmptyKeepsReviews, ReinforceKeepsReviews
<1>2. ASSUME NEW m \in Messages, Reviews!Retrieve(m) \/ Reviews!AskForReview(m) \/ Reviews!Enqueue(m)
      PROVE  ReviewInv' /\ Reviews!ReviewIsCurrent
  BY <1>2, TurnKeepsReviews
<1>3. CASE \/ Reviews!TakeJob \/ Reviews!SendRequest \/ Reviews!RequestEnds \/ Reviews!Collect
           \/ Reviews!PickNext \/ Reviews!Finish
  BY <1>3, TakeKeepsReviews, RequestKeepsReviews, PlaceKeepsReviews
<1>4. CASE \/ Reviews!Start \/ Reviews!Stop \/ Reviews!Leave \/ Reviews!Restart \/ Reviews!Tick
           \/ UNCHANGED Reviews!reviewVars
  BY <1>4, PlaceKeepsReviews, EmptyKeepsReviews, RestartKeepsReviews, TickKeepsReviews
<1> QED BY <1>1, <1>2, <1>3, <1>4 DEF Reviews!ReviewNext

(* Every reachable state keeps the queue, the worker and the evidence in   *)
(* the relation ReviewInv states.                                          *)
THEOREM ReviewInvariance ==
    ASSUME ReviewGiven
    PROVE  Reviews!ReviewSpec => []ReviewInv
BY ReviewStart, ReviewStep, PTL DEF Reviews!ReviewSpec

(* One request is under way at a time, although a worker gives up on it,   *)
(* and one life of the process sends no more in a day than allowed.  The   *)
(* counter is not kept: a restart within the day begins again at zero.     *)
THEOREM ReviewsStayRationed ==
    ASSUME ReviewGiven
    PROVE  Reviews!ReviewSpec => []Reviews!ReviewsAreRationed
<1>1. ReviewInv => Reviews!ReviewsAreRationed
  BY ReviewLimits DEF ReviewInv, AskedOK, DayOK, Reviews!ReviewsAreRationed
<1> QED BY <1>1, ReviewInvariance, PTL

(* A message reinforces a memory once, and no memory in bursts, whatever   *)
(* is delivered again or forgotten by a restart.                           *)
THEOREM EvidenceStaysSingle ==
    ASSUME ReviewGiven
    PROVE  Reviews!ReviewSpec => []Reviews!EvidenceIsSingle
<1>1. ReviewInv => Reviews!EvidenceIsSingle
  BY DEF ReviewInv, EvidenceOK
<1> QED BY <1>1, ReviewInvariance, PTL

(* A memory is reinforced on the strength of the text that is stored at    *)
(* that moment.                                                            *)
THEOREM ReviewsStayCurrent ==
    ASSUME ReviewGiven
    PROVE  Reviews!ReviewSpec => Reviews!ReviewStaysCurrent
<1>1. ReviewInv /\ [Reviews!ReviewNext]_Reviews!reviewVars
        => [Reviews!ReviewIsCurrent]_Reviews!reviewVars
  BY ReviewStep
<1> QED BY <1>1, ReviewInvariance, PTL DEF Reviews!ReviewSpec, Reviews!ReviewStaysCurrent

-----------------------------------------------------------------------------
(* Questions that are handed over.  The lock is one for the promotion of a *)
(* message, the record outlives the process, the checkpoint does not: that *)
(* the work runs once is in the record, that it is announced once is in    *)
(* what the record has on disk.                                            *)

Promoting == {"reviewing", "preparing", "submitting", "confirming", "claiming", "noticing", "recording"}
Steps == {"none", "reading", "linked", "answered", "rejected", "unknown", "handed", "gone"} \cup Promoting

TurnRow == [at : Steps, revision : Nat, reads : Nat, rechecks : Nat]
HandedRow == [status : {"none", "queued", "running", "ended", "interrupted"},
            notice : {"none", "claimed", "recorded"}, saved : BOOLEAN]
LiveRow == [of : Turns \cup {Query!Nobody}, revision : Nat, reads : Nat]

HandoverTyped ==
    /\ turn \in [Turns -> TurnRow] /\ lock \in Turns \cup {Query!Nobody}
    /\ record \in HandedRow /\ checkpoint \in LiveRow
    /\ worker \in {"none", "validating", "running", "cleared"}
    /\ revision \in Nat /\ told \in {0, 1} /\ runs \subseteq Turns /\ stale \in {0, 1}

(* A notice is sent after its claim is on disk, by whoever has the lock.   *)
PromotedOK(t, row) ==
    /\ row.at \in Promoting => lock = t
    /\ row.at = "submitting" => row.reads < MaxReads
    /\ row.at = "noticing" => /\ told = 0 /\ record.notice = "claimed" /\ record.saved
                              /\ record.status # "none"
    /\ row.revision <= revision

PromotionsOK == \A t \in Turns : PromotedOK(t, turn[t])

(* What became of the work decides who may still run it.                   *)
StatusOK ==
    /\ record.status = "none" => checkpoint = Query!NoCheckpoint /\ worker = "none" /\ runs = {} /\ told = 0
    /\ record.status = "queued" => worker = "none" /\ runs = {}
    /\ record.status = "running" =>
          /\ record.saved /\ worker # "none"
          /\ checkpoint.of \in Turns /\ turn[checkpoint.of].at = "handed"
          /\ runs = IF worker = "validating" THEN {} ELSE {checkpoint.of}
    /\ record.status \in {"ended", "interrupted"} =>
          checkpoint = Query!NoCheckpoint /\ worker \in {"none", "validating"}
    /\ runs # {} => record.saved
    /\ told = 1 => record.notice # "none" /\ record.saved

RunOnce ==
    /\ \A t, u \in runs : t = u
    /\ \A t \in runs : turn[t].at \in {"handed", "gone"}

(* A read under a changed authority is the last one.                       *)
ReadsOK ==
    /\ checkpoint.reads <= MaxReads /\ checkpoint.revision <= revision
    /\ worker = "cleared" => checkpoint.reads < MaxReads
    /\ stale = 1 => /\ runs # {} /\ worker # "cleared"
                    /\ worker = "running" => checkpoint.revision < revision

HandoverInv == HandoverTyped /\ PromotionsOK /\ StatusOK /\ RunOnce /\ ReadsOK

HandoverGiven == Query!HandoverAssumption /\ Query!Nobody \notin Turns

LEMMA HandoverLimits ==
    ASSUME HandoverGiven
    PROVE  MaxReads \in Nat /\ Query!Nobody \notin Turns
BY DEF HandoverGiven, Query!HandoverAssumption

LEMMA HandoverStart ==
    ASSUME HandoverGiven, Query!HandoverInit
    PROVE  HandoverInv
<1>1. PICK fresh \in TurnRow : fresh = Query!Fresh /\ fresh.at = "none" /\ fresh.revision = 0
  <2>1. PICK fresh : fresh = Query!Fresh
    OBVIOUS
  <2>2. fresh \in TurnRow /\ fresh.at = "none" /\ fresh.revision = 0
    BY <2>1 DEF TurnRow, Steps, Query!Fresh
  <2> QED BY <2>1, <2>2
<1>2. turn = [t \in Turns |-> fresh] /\ lock = Query!Nobody /\ record = Query!NoRecord
      /\ checkpoint = Query!NoCheckpoint /\ worker = "none" /\ revision = 1 /\ told = 0 /\ runs = {} /\ stale = 0
  BY <1>1 DEF Query!HandoverInit
<1>3. record \in HandedRow /\ record.status = "none"
  BY <1>2 DEF HandedRow, Query!NoRecord
<1>4. checkpoint \in LiveRow /\ checkpoint.reads = 0 /\ checkpoint.revision = 0
  BY <1>2 DEF LiveRow, Query!NoCheckpoint
<1>5. HandoverTyped
  BY <1>1, <1>2, <1>3, <1>4 DEF HandoverTyped
<1>6. PromotionsOK
  BY <1>1, <1>2 DEF PromotionsOK, PromotedOK, Promoting
<1>7. StatusOK /\ RunOnce /\ ReadsOK
  BY <1>2, <1>3, <1>4, HandoverLimits DEF StatusOK, RunOnce, ReadsOK
<1> QED BY <1>5, <1>6, <1>7 DEF HandoverInv

-----------------------------------------------------------------------------
(* A turn that moves is the one with the lock, or there is no lock, or it  *)
(* moves beside whoever has it.                                            *)
LEMMA TurnMoves ==
    ASSUME HandoverGiven, HandoverInv, NEW t \in Turns, NEW new \in TurnRow,
           turn' = [turn EXCEPT ![t] = new], PromotedOK(t, new)', revision' = revision,
           \/ lock \in {t, Query!Nobody}
           \/ UNCHANGED <<lock, told, record>>,
           turn[t].at \notin {"handed", "gone"}, lock' \in {lock, t, Query!Nobody}
    PROVE  /\ turn' \in [Turns -> TurnRow] /\ lock' \in Turns \cup {Query!Nobody} /\ PromotionsOK'
           /\ \A u \in Turns : turn[u].at \in {"handed", "gone"} => turn'[u] = turn[u]
<1>1. turn' \in [Turns -> TurnRow] /\ lock' \in Turns \cup {Query!Nobody}
  BY DEF HandoverInv, HandoverTyped
<1>2. \A u \in Turns : turn'[u] = IF u = t THEN new ELSE turn[u]
  BY DEF HandoverInv, HandoverTyped
<1>3. ASSUME NEW u \in Turns, u # t PROVE PromotedOK(u, turn[u])'
  <2>1. PromotedOK(u, turn[u]) /\ turn'[u] = turn[u]
    BY <1>2, <1>3 DEF HandoverInv, PromotionsOK
  <2> QED BY <1>3, <2>1, HandoverLimits DEF PromotedOK, Promoting
<1>4. PromotionsOK'
  BY <1>2, <1>3 DEF PromotionsOK
<1> QED BY <1>1, <1>2, <1>4

(* What a turn does beside the record leaves it as it is.                  *)
LEMMA RecordStays ==
    ASSUME HandoverInv, UNCHANGED <<record, checkpoint, worker, revision, told, runs, stale>>,
           \A u \in Turns : turn[u].at \in {"handed", "gone"} => turn'[u] = turn[u]
    PROVE  StatusOK' /\ RunOnce' /\ ReadsOK'
<1>1. StatusOK' /\ RunOnce'
  BY DEF HandoverInv, HandoverTyped, StatusOK, RunOnce
<1>2. ReadsOK'
  BY DEF HandoverInv, ReadsOK
<1> QED BY <1>1, <1>2


LEMMA TurnKeepsHandover ==
    ASSUME HandoverGiven, HandoverInv, NEW t \in Turns,
           \/ Query!Arrive(t) \/ Query!Read(t) \/ Query!Answer(t) \/ Query!TryContinue(t) \/ Query!Judge(t)
    PROVE  HandoverInv'
<1>1. PICK row \in TurnRow : row = turn[t] /\ PromotedOK(t, row)
  BY DEF HandoverInv, HandoverTyped, PromotionsOK
<1>2. PICK reads \in Nat : reads = row.reads
  BY DEF TurnRow
<1>3. PICK rechecks \in Nat : rechecks = row.rechecks
  BY DEF TurnRow
<1>4. PICK own \in Nat : own = row.revision /\ own <= revision
  BY <1>1 DEF TurnRow, PromotedOK
<1>5. /\ UNCHANGED <<record, checkpoint, worker, revision, told, runs, stale>>
      /\ row.at \notin {"handed", "gone"} /\ revision \in Nat
      /\ \/ lock \in {t, Query!Nobody} \/ UNCHANGED lock
      /\ lock' \in {lock, t, Query!Nobody}
  <2>1. row.at \in {"reviewing", "preparing"} => lock = t
    BY <1>1 DEF PromotedOK, Promoting
  <2> QED BY <1>1, <2>1 DEF Query!Arrive, Query!Read, Query!Answer, Query!TryContinue, Query!Judge,
                            HandoverInv, HandoverTyped
<1>6. PICK new \in TurnRow : turn' = [turn EXCEPT ![t] = new] /\ PromotedOK(t, new)'
  <2>1. CASE Query!Arrive(t)
    <3>1. PICK new : new = [Query!Fresh EXCEPT !.at = IF Query!Exists THEN "linked" ELSE "reading",
                                               !.revision = revision]
      OBVIOUS
    <3>2. new \in TurnRow /\ new.at \in {"linked", "reading"} /\ new.revision = revision
      BY <1>5, <3>1 DEF Query!Fresh, TurnRow, Steps
    <3>3. turn' = [turn EXCEPT ![t] = new]
      BY <2>1, <3>1 DEF Query!Arrive
    <3>4. PromotedOK(t, new)'
      BY <1>5, <3>2 DEF PromotedOK, Promoting
    <3> QED BY <3>2, <3>3, <3>4
  <2>2. CASE Query!Read(t)
    <3>1. PICK more \in Nat : more = row.reads + 1
      BY <1>2
    <3>2. PICK new : new = [row EXCEPT !.reads = more]
      OBVIOUS
    <3>3. new \in TurnRow /\ new.at = row.at /\ row.at = "reading" /\ new.revision = own
      BY <1>1, <1>4, <2>2, <3>1, <3>2 DEF TurnRow, Query!Read
    <3>4. turn' = [turn EXCEPT ![t] = new]
      BY <1>1, <2>2, <3>1, <3>2 DEF Query!Read
    <3>5. PromotedOK(t, new)'
      BY <1>4, <1>5, <3>3 DEF PromotedOK, Promoting
    <3> QED BY <3>3, <3>4, <3>5
  <2>3. ASSUME NEW place \in {"answered", "linked", "preparing", "submitting", "reading"}, Query!At(t, place),
               place \in {"preparing", "submitting"} => lock' = t /\ reads < MaxReads
        PROVE  \E new \in TurnRow : turn' = [turn EXCEPT ![t] = new] /\ PromotedOK(t, new)'
    <3>1. PICK new : new = [row EXCEPT !.at = place]
      OBVIOUS
    <3>2. new \in TurnRow /\ new.at = place /\ new.revision = own /\ new.reads = reads
      BY <1>2, <1>4, <2>3, <3>1 DEF TurnRow, Steps, Promoting
    <3>3. turn' = [turn EXCEPT ![t] = new]
      BY <1>1, <2>3, <3>1 DEF Query!At
    <3>4. PromotedOK(t, new)'
      BY <1>2, <1>4, <1>5, <2>3, <3>2 DEF PromotedOK, Promoting
    <3> QED BY <3>2, <3>3, <3>4
  <2>4. CASE Query!Answer(t)
    BY <2>3, <2>4 DEF Query!Answer
  <2>5. CASE Query!TryContinue(t)
    <3>1. CASE Query!Exists
      BY <2>3, <2>5, <3>1 DEF Query!TryContinue
    <3>2. CASE ~Query!Exists
      <4>1. PICK more \in Nat : more = row.rechecks + 1
        BY <1>3
      <4>2. PICK new : new = [row EXCEPT !.at = "reviewing", !.rechecks = more]
        OBVIOUS
      <4>3. new \in TurnRow /\ new.at = "reviewing" /\ new.revision = own
        BY <1>4, <4>1, <4>2 DEF TurnRow, Steps, Promoting
      <4>4. turn' = [turn EXCEPT ![t].at = "reviewing", ![t].rechecks = @ + 1] /\ lock' = t
        BY <2>5, <3>2 DEF Query!TryContinue
      <4>5. turn' = [turn EXCEPT ![t] = new]
        BY <1>1, <4>1, <4>2, <4>4
      <4>6. PromotedOK(t, new)'
        BY <1>4, <1>5, <4>3, <4>4 DEF PromotedOK, Promoting
      <4> QED BY <4>3, <4>5, <4>6
    <3> QED BY <3>1, <3>2
  <2>6. CASE Query!Judge(t)
    <3>1. lock = t
      BY <1>1, <2>6 DEF Query!Judge, PromotedOK, Promoting
    <3>2. CASE Query!Continues(t) /\ Query!At(t, IF row.at = "reviewing" THEN "preparing" ELSE "submitting")
               /\ UNCHANGED lock
      <4>1. reads < MaxReads
        BY <1>1, <1>2, <3>2 DEF Query!Continues, Query!Remaining
      <4>2. CASE row.at = "reviewing"
        BY <2>3, <3>1, <3>2, <4>1, <4>2
      <4>3. CASE row.at # "reviewing"
        BY <2>3, <3>1, <3>2, <4>1, <4>3
      <4> QED BY <4>2, <4>3
    <3>3. CASE Query!At(t, "reading")
      BY <2>3, <3>3
    <3> QED BY <1>1, <2>6, <3>2, <3>3 DEF Query!Judge
  <2> QED BY <2>1, <2>2, <2>4, <2>5, <2>6
<1>7. /\ turn' \in [Turns -> TurnRow] /\ lock' \in Turns \cup {Query!Nobody} /\ PromotionsOK'
      /\ \A u \in Turns : turn[u].at \in {"handed", "gone"} => turn'[u] = turn[u]
  BY <1>1, <1>5, <1>6, TurnMoves
<1>8. StatusOK' /\ RunOnce' /\ ReadsOK'
  BY <1>5, <1>7, RecordStays
<1> QED BY <1>5, <1>7, <1>8 DEF HandoverInv, HandoverTyped


(* The turn that has the lock and moves on, with the record as it is now.  *)
LEMMA PromotedMoves ==
    ASSUME HandoverGiven, HandoverInv, NEW t \in Turns, turn[t].at \in Promoting,
           NEW place \in Steps, place # "submitting", Query!At(t, place), revision' = revision,
           place \in Promoting => lock' = t, lock' \in {lock, Query!Nobody},
           place = "noticing" => told' = 0 /\ record'.notice = "claimed" /\ record'.saved /\ record'.status # "none"
    PROVE  /\ turn' \in [Turns -> TurnRow] /\ lock' \in Turns \cup {Query!Nobody} /\ PromotionsOK'
           /\ \A u \in Turns : turn[u].at \in {"handed", "gone"} => turn'[u] = turn[u]
<1>1. PICK row \in TurnRow : row = turn[t] /\ PromotedOK(t, row)
  BY DEF HandoverInv, HandoverTyped, PromotionsOK
<1>2. PICK new : new = [row EXCEPT !.at = place]
  OBVIOUS
<1>3. new \in TurnRow /\ new.at = place /\ new.revision = row.revision
  BY <1>2 DEF TurnRow
<1>4. turn' = [turn EXCEPT ![t] = new]
  BY <1>1, <1>2 DEF Query!At
<1>5. lock = t /\ row.revision <= revision
  BY <1>1 DEF PromotedOK
<1>6. PromotedOK(t, new)'
  BY <1>3, <1>5 DEF PromotedOK
<1>7. turn[t].at \notin {"handed", "gone"}
  BY DEF Promoting
<1> QED BY <1>3, <1>4, <1>5, <1>6, <1>7, TurnMoves

LEMMA SubmitKeepsHandover ==
    ASSUME HandoverGiven, HandoverInv, NEW t \in Turns, Query!Submit(t)
    PROVE  HandoverInv'
<1>1. turn[t].at = "submitting" /\ turn[t].at \in Promoting /\ turn[t].reads < MaxReads /\ lock = t
      /\ turn[t].reads \in Nat /\ turn[t].revision \in Nat /\ turn[t].revision <= revision
  BY DEF Query!Submit, Promoting, HandoverInv, HandoverTyped, PromotionsOK, PromotedOK, TurnRow
<1>2. UNCHANGED <<worker, revision, told, runs, stale>>
  BY DEF Query!Submit
<1>3. PICK place \in {"confirming", "unknown", "rejected"} :
         Query!At(t, place) /\ lock' = IF place = "confirming" THEN lock ELSE Query!Nobody
  BY DEF Query!Submit
<1>4. /\ turn' \in [Turns -> TurnRow] /\ lock' \in Turns \cup {Query!Nobody} /\ PromotionsOK'
      /\ \A u \in Turns : turn[u].at \in {"handed", "gone"} => turn'[u] = turn[u]
  BY <1>1, <1>2, <1>3, PromotedMoves DEF Steps, Promoting
<1>5. CASE UNCHANGED <<record, checkpoint>>
  BY <1>2, <1>4, <1>5, RecordStays DEF HandoverInv, HandoverTyped
<1>6. ASSUME NEW saved \in BOOLEAN, ~Query!Exists, Query!Kept(t, saved) PROVE HandoverInv'
  <2>1. record' = [status |-> "queued", notice |-> "none", saved |-> saved]
    BY <1>6 DEF Query!Kept, Query!NoRecord
  <2>2. checkpoint' = [of |-> t, revision |-> turn[t].revision, reads |-> turn[t].reads]
    BY <1>6 DEF Query!Kept
  <2>3. record' \in HandedRow /\ record'.status = "queued"
    BY <2>1 DEF HandedRow
  <2>4. checkpoint' \in LiveRow /\ checkpoint'.reads = turn[t].reads /\ checkpoint'.revision = turn[t].revision
    BY <1>1, <2>2 DEF LiveRow
  <2>5. worker = "none" /\ runs = {} /\ told = 0
    BY <1>6 DEF Query!Exists, HandoverInv, StatusOK
  <2>6. StatusOK' /\ RunOnce'
    BY <1>2, <2>3, <2>5 DEF StatusOK, RunOnce
  <2>7. ReadsOK'
    BY <1>1, <1>2, <2>4, <2>5, HandoverLimits DEF ReadsOK, HandoverInv
  <2> QED BY <1>2, <1>4, <2>3, <2>4, <2>6, <2>7 DEF HandoverInv, HandoverTyped
<1> QED BY <1>5, <1>6 DEF Query!Submit

(* What the record is told of its notice, by whoever has the lock.         *)
LEMMA NoticeStays ==
    ASSUME HandoverInv, UNCHANGED <<checkpoint, worker, revision, runs, stale>>,
           \A u \in Turns : turn[u].at \in {"handed", "gone"} => turn'[u] = turn[u],
           record' \in HandedRow, record'.status = record.status, record.saved => record'.saved,
           told' \in {0, 1}, told' = 1 => record'.notice # "none" /\ record'.saved /\ record.status # "none"
    PROVE  StatusOK' /\ RunOnce' /\ ReadsOK'
<1>1. StatusOK' /\ RunOnce'
  BY DEF HandoverInv, HandoverTyped, StatusOK, RunOnce
<1>2. ReadsOK'
  BY DEF HandoverInv, ReadsOK
<1> QED BY <1>1, <1>2

LEMMA NoticeKeepsHandover ==
    ASSUME HandoverGiven, HandoverInv, NEW t \in Turns,
           Query!Confirm(t) \/ Query!Claim(t) \/ Query!Notify(t) \/ Query!RecordNotice(t)
    PROVE  HandoverInv'
<1>1. turn[t].at \in Promoting
  BY DEF Query!Confirm, Query!Claim, Query!Notify, Query!RecordNotice, Promoting
<1>2. UNCHANGED <<checkpoint, worker, revision, runs, stale>>
  BY DEF Query!Confirm, Query!Claim, Query!Notify, Query!RecordNotice
<1>3. PICK row \in HandedRow : row = record
  BY DEF HandoverInv, HandoverTyped
<1>4. lock = t /\ told \in {0, 1}
      /\ (turn[t].at = "noticing" => told = 0 /\ row.notice = "claimed" /\ row.saved /\ row.status # "none")
      /\ (told = 1 => row.notice # "none" /\ row.saved /\ row.status # "none")
  BY <1>1, <1>3 DEF HandoverInv, HandoverTyped, PromotionsOK, PromotedOK, StatusOK
<1>5. PICK place \in {"unknown", "claiming", "noticing", "handed", "recording"} :
         /\ Query!At(t, place) /\ lock' = IF place \in {"unknown", "handed"} THEN Query!Nobody ELSE lock
         /\ place = "noticing" => /\ told' = 0 /\ record'.notice = "claimed" /\ record'.saved
                                  /\ record'.status # "none"
         /\ record' \in HandedRow /\ record'.status = record.status /\ (record.saved => record'.saved)
         /\ told' \in {0, 1} /\ (told' = 1 => record'.notice # "none" /\ record'.saved /\ record.status # "none")
  <2>1. CASE Query!Confirm(t)
    BY <1>3, <1>4, <2>1 DEF Query!Confirm
  <2>2. CASE Query!Claim(t)
    <3>1. PICK firm : firm = [row EXCEPT !.notice = "claimed", !.saved = TRUE]
      OBVIOUS
    <3>2. PICK loose : loose = [row EXCEPT !.notice = "claimed"]
      OBVIOUS
    <3>3. /\ firm \in HandedRow /\ firm.status = row.status /\ firm.notice = "claimed" /\ firm.saved
          /\ loose \in HandedRow /\ loose.status = row.status /\ loose.notice = "claimed" /\ loose.saved = row.saved
      BY <3>1, <3>2 DEF HandedRow
    <3>4. told' = told /\ \/ /\ Query!Claimable /\ record' = firm /\ Query!At(t, "noticing") /\ UNCHANGED lock
                          \/ /\ record' = (IF Query!Claimable THEN loose ELSE row)
                             /\ Query!At(t, "handed") /\ lock' = Query!Nobody
      BY <1>3, <2>2, <3>1, <3>2 DEF Query!Claim
    <3>5. Query!Claimable => row.notice = "none" /\ row.status # "none" /\ told = 0
      BY <1>3, <1>4 DEF Query!Claimable
    <3> QED BY <1>3, <1>4, <3>3, <3>4, <3>5
  <2>3. CASE Query!Notify(t)
    <3>1. told' \in {0, 1}
      BY <1>4, <2>3 DEF Query!Notify
    <3> QED BY <1>3, <1>4, <2>3, <3>1 DEF Query!Notify
  <2>4. CASE Query!RecordNotice(t)
    <3>1. PICK new : new = [row EXCEPT !.notice = "recorded", !.saved = TRUE]
      OBVIOUS
    <3>2. new \in HandedRow /\ new.status = row.status /\ new.notice = "recorded" /\ new.saved
      BY <3>1 DEF HandedRow
    <3>3. record' = IF row.notice = "claimed" THEN new ELSE row
      BY <1>3, <2>4, <3>1 DEF Query!RecordNotice
    <3> QED BY <1>3, <1>4, <2>4, <3>2, <3>3 DEF Query!RecordNotice
  <2> QED BY <2>1, <2>2, <2>3, <2>4
<1>6. /\ turn' \in [Turns -> TurnRow] /\ lock' \in Turns \cup {Query!Nobody} /\ PromotionsOK'
      /\ \A u \in Turns : turn[u].at \in {"handed", "gone"} => turn'[u] = turn[u]
  <2>1. place \in Steps /\ place # "submitting" /\ (place \in Promoting => lock' = t)
    BY <1>4, <1>5 DEF Steps, Promoting
  <2> QED BY <1>1, <1>2, <1>4, <1>5, <2>1, PromotedMoves
<1>7. StatusOK' /\ RunOnce' /\ ReadsOK'
  BY <1>2, <1>5, <1>6, NoticeStays
<1> QED BY <1>2, <1>5, <1>6, <1>7 DEF HandoverInv, HandoverTyped


-----------------------------------------------------------------------------
(* The work and the world around it.  The turns stay where they are.       *)

(* What keeps the promotions, when no turn moves.                          *)
LEMMA PromotionsStay ==
    ASSUME HandoverInv, UNCHANGED <<turn, lock, told>>, revision' \in Nat, revision' >= revision,
           record'.notice = record.notice, record.saved => record'.saved,
           record.status # "none" => record'.status # "none"
    PROVE  PromotionsOK'
<1>1. ASSUME NEW t \in Turns PROVE PromotedOK(t, turn[t])'
  <2>1. PromotedOK(t, turn[t]) /\ turn[t].revision \in Nat /\ revision \in Nat
    BY DEF HandoverInv, HandoverTyped, PromotionsOK, TurnRow
  <2> QED BY <2>1 DEF PromotedOK
<1> QED BY <1>1 DEF PromotionsOK

LEMMA EndOfWork ==
    ASSUME HandoverGiven, HandoverInv, Query!EndWork, record.status # "queued", record.status # "none",
           UNCHANGED <<turn, lock, revision, told, stale, runs>>
    PROVE  HandoverInv'
<1>1. PICK row \in HandedRow : row = record
  BY DEF HandoverInv, HandoverTyped
<1>2. PICK ended : ended = [row EXCEPT !.status = "ended"]
  OBVIOUS
<1>3. ended \in HandedRow /\ ended.status = "ended" /\ ended.notice = row.notice /\ ended.saved = row.saved
  BY <1>2 DEF HandedRow
<1>4. record' = (IF row.status = "running" THEN ended ELSE row) /\ worker' = "none"
      /\ checkpoint' = Query!NoCheckpoint
  BY <1>1, <1>2 DEF Query!EndWork
<1>5. record' \in HandedRow /\ record'.notice = row.notice /\ record'.saved = row.saved
      /\ record'.status \in {"ended", "interrupted"}
  BY <1>1, <1>3, <1>4 DEF HandedRow
<1>6. checkpoint' \in LiveRow /\ checkpoint'.reads = 0 /\ checkpoint'.revision = 0
  BY <1>4 DEF LiveRow, Query!NoCheckpoint
<1>7. revision \in Nat /\ MaxReads \in Nat
  BY HandoverLimits DEF HandoverInv, HandoverTyped
<1>8. PromotionsOK'
  BY <1>1, <1>5, <1>7, PromotionsStay
<1>9. StatusOK' /\ RunOnce'
  BY <1>1, <1>4, <1>5 DEF HandoverInv, StatusOK, RunOnce
<1>10. ReadsOK'
  BY <1>4, <1>6, <1>7 DEF HandoverInv, ReadsOK
<1> QED BY <1>4, <1>5, <1>6, <1>8, <1>9, <1>10 DEF HandoverInv, HandoverTyped

LEMMA StartKeepsHandover ==
    ASSUME HandoverGiven, HandoverInv, Query!StartWorker \/ Query!ContinueTask \/ Query!CancelQueued
    PROVE  HandoverInv'
<1>1. PICK row \in HandedRow : row = record
  BY DEF HandoverInv, HandoverTyped
<1>2. revision \in Nat /\ MaxReads \in Nat
  BY HandoverLimits DEF HandoverInv, HandoverTyped
<1>3. ASSUME NEW status \in {"running", "ended"}, record' = [record EXCEPT !.status = status, !.saved = TRUE]
      PROVE  /\ record' \in HandedRow /\ record'.status = status /\ record'.notice = record.notice
             /\ record'.saved
  <2>1. PICK new : new = [row EXCEPT !.status = status, !.saved = TRUE]
    OBVIOUS
  <2>2. new \in HandedRow /\ new.status = status /\ new.notice = row.notice /\ new.saved
    BY <2>1 DEF HandedRow
  <2> QED BY <1>1, <1>3, <2>1, <2>2
<1>4. CASE Query!StartWorker
  <2>1. /\ record' \in HandedRow /\ record'.status = "running" /\ record'.notice = record.notice
        /\ record'.saved
    BY <1>3, <1>4 DEF Query!StartWorker
  <2>2. PromotionsOK'
    BY <1>2, <1>4, <2>1, PromotionsStay DEF Query!StartWorker
  <2>3. StatusOK' /\ RunOnce'
    BY <1>2, <1>4, <2>1, HandoverLimits DEF Query!StartWorker, HandoverInv, HandoverTyped, LiveRow, StatusOK, RunOnce
  <2>4. ReadsOK'
    BY <1>4 DEF Query!StartWorker, HandoverInv, ReadsOK
  <2> QED BY <1>4, <2>1, <2>2, <2>3, <2>4 DEF Query!StartWorker, HandoverInv, HandoverTyped
<1>5. CASE Query!ContinueTask
  <2>1. PromotionsOK'
    BY <1>2, <1>5, PromotionsStay DEF Query!ContinueTask
  <2>2. StatusOK' /\ RunOnce' /\ ReadsOK'
    BY <1>5 DEF Query!ContinueTask, HandoverInv, StatusOK, RunOnce, ReadsOK
  <2> QED BY <1>5, <2>1, <2>2 DEF Query!ContinueTask, HandoverInv, HandoverTyped
<1>6. CASE Query!CancelQueued
  <2>1. /\ record' \in HandedRow /\ record'.status = "ended" /\ record'.notice = record.notice
        /\ record'.saved
    BY <1>3, <1>6 DEF Query!CancelQueued
  <2>2. checkpoint' = Query!NoCheckpoint /\ checkpoint' \in LiveRow /\ checkpoint'.reads = 0
        /\ checkpoint'.revision = 0
    BY <1>6 DEF Query!CancelQueued, LiveRow, Query!NoCheckpoint
  <2>3. PromotionsOK'
    BY <1>2, <1>6, <2>1, PromotionsStay DEF Query!CancelQueued
  <2>4. StatusOK' /\ RunOnce' /\ ReadsOK'
    BY <1>2, <1>6, <2>1, <2>2 DEF Query!CancelQueued, HandoverInv, StatusOK, RunOnce, ReadsOK
  <2> QED BY <1>6, <2>1, <2>2, <2>3, <2>4 DEF Query!CancelQueued, HandoverInv, HandoverTyped
<1> QED BY <1>4, <1>5, <1>6

LEMMA WorkerKeepsHandover ==
    ASSUME HandoverGiven, HandoverInv,
           Query!Validate \/ Query!CheckTool \/ Query!ReadBehind \/ Query!Finish
    PROVE  HandoverInv'
<1>1. worker # "none" /\ record.status \notin {"none", "queued"}
  BY DEF Query!Validate, Query!CheckTool, Query!ReadBehind, Query!Finish, HandoverInv, StatusOK
<1>2. UNCHANGED <<turn, lock, revision, told>> /\ revision \in Nat
  BY DEF Query!Validate, Query!CheckTool, Query!ReadBehind, Query!Finish, HandoverInv, HandoverTyped
<1>3. CASE Query!EndWork /\ UNCHANGED <<runs, stale>>
  BY <1>1, <1>2, <1>3, EndOfWork
<1>4. CASE UNCHANGED record /\ ~(Query!EndWork /\ UNCHANGED <<runs, stale>>)
  <2>1. PromotionsOK'
    BY <1>2, <1>4, PromotionsStay
  <2>2. CASE Query!Validate
    <3>1. /\ worker = "validating" /\ checkpoint.of # Query!Nobody /\ worker' = "running"
          /\ runs' = runs \cup {checkpoint.of} /\ UNCHANGED <<checkpoint, stale>>
      BY <1>4, <2>2 DEF Query!Validate
    <3>2. record.status = "running" /\ runs = {} /\ checkpoint.of \in Turns /\ turn[checkpoint.of].at = "handed"
      BY <1>1, <3>1 DEF HandoverInv, HandoverTyped, HandedRow, StatusOK, Query!NoCheckpoint
    <3>3. StatusOK' /\ RunOnce'
      BY <1>2, <1>4, <3>1, <3>2 DEF HandoverInv, StatusOK, RunOnce
    <3>4. ReadsOK'
      BY <1>2, <3>1, <3>2 DEF HandoverInv, HandoverTyped, ReadsOK
    <3> QED BY <1>2, <1>4, <2>1, <3>1, <3>2, <3>3, <3>4 DEF HandoverInv, HandoverTyped
  <2>3. CASE Query!CheckTool
    <3>1. /\ worker = "running" /\ checkpoint.revision = revision /\ checkpoint.reads < MaxReads
          /\ worker' = "cleared" /\ UNCHANGED <<checkpoint, runs, stale>>
      BY <1>4, <2>3 DEF Query!CheckTool, Query!Unspent
    <3>2. StatusOK' /\ RunOnce'
      BY <1>2, <1>4, <3>1 DEF HandoverInv, StatusOK, RunOnce
    <3>3. ReadsOK'
      BY <1>2, <3>1 DEF HandoverInv, HandoverTyped, ReadsOK
    <3> QED BY <1>2, <1>4, <2>1, <3>1, <3>2, <3>3 DEF HandoverInv, HandoverTyped
  <2>4. CASE Query!ReadBehind
    <3>1. PICK alive \in LiveRow : alive = checkpoint
      BY DEF HandoverInv, HandoverTyped
    <3>2. PICK more \in Nat : more = alive.reads + 1
      BY DEF LiveRow
    <3>3. PICK new : new = [alive EXCEPT !.reads = more]
      OBVIOUS
    <3>4. new \in LiveRow /\ new.of = alive.of /\ new.revision = alive.revision /\ new.reads = more
      BY <3>2, <3>3 DEF LiveRow
    <3>5. /\ worker = "cleared" /\ worker' = "running" /\ checkpoint' = new /\ UNCHANGED runs
          /\ stale' = IF alive.revision = revision THEN stale ELSE stale + 1
      BY <2>4, <3>1, <3>2, <3>3 DEF Query!ReadBehind
    <3>6. /\ record.status = "running" /\ alive.of \in Turns /\ turn[alive.of].at = "handed" /\ runs = {alive.of}
          /\ record.saved
      BY <1>1, <3>1, <3>5 DEF HandoverInv, HandoverTyped, HandedRow, StatusOK
    <3>7. StatusOK' /\ RunOnce'
      BY <1>2, <1>4, <3>4, <3>5, <3>6 DEF HandoverInv, StatusOK, RunOnce
    <3>8. /\ stale = 0 /\ alive.reads < MaxReads /\ alive.revision <= revision /\ alive.reads \in Nat
          /\ alive.revision \in Nat
      BY <3>1, <3>5 DEF HandoverInv, HandoverTyped, ReadsOK, LiveRow
    <3>9. ReadsOK' /\ stale' \in {0, 1}
      BY <1>2, <3>2, <3>4, <3>5, <3>6, <3>8, HandoverLimits DEF ReadsOK
    <3> QED BY <1>2, <1>4, <2>1, <3>4, <3>5, <3>7, <3>9 DEF HandoverInv, HandoverTyped
  <2>5. CASE Query!Finish
    BY <1>4, <2>5 DEF Query!Finish
  <2> QED BY <2>2, <2>3, <2>4, <2>5
<1> QED BY <1>3, <1>4 DEF Query!Validate, Query!CheckTool, Query!ReadBehind, Query!Finish

LEMMA WorldKeepsHandover ==
    ASSUME HandoverGiven, HandoverInv,
           \/ Query!ChangeAuthority \/ \E t \in Turns : Query!DeadlinePasses(t)
           \/ UNCHANGED Query!handoverVars
    PROVE  HandoverInv'
<1>1. /\ UNCHANGED <<turn, lock, record, checkpoint, worker, told, runs, stale>>
      /\ revision \in Nat /\ revision' \in Nat /\ revision' >= revision
  BY DEF Query!ChangeAuthority, Query!DeadlinePasses, Query!handoverVars, HandoverInv, HandoverTyped
<1>2. PromotionsOK'
  BY <1>1, PromotionsStay
<1>3. checkpoint.revision \in Nat
  BY DEF HandoverInv, HandoverTyped, LiveRow
<1>4. StatusOK' /\ RunOnce' /\ ReadsOK'
  BY <1>1, <1>3 DEF HandoverInv, StatusOK, RunOnce, ReadsOK
<1> QED BY <1>1, <1>2, <1>4 DEF HandoverInv, HandoverTyped

LEMMA RestartKeepsHandover ==
    ASSUME HandoverGiven, HandoverInv, Query!Restart
    PROVE  HandoverInv'
<1>1. PICK row \in HandedRow : row = record
  BY DEF HandoverInv, HandoverTyped
<1>2. PICK broken : broken = [row EXCEPT !.status = "interrupted"]
  OBVIOUS
<1>3. broken \in HandedRow /\ broken.status = "interrupted" /\ broken.notice = row.notice /\ broken.saved = row.saved
  BY <1>2 DEF HandedRow
<1>4. record' = IF ~row.saved THEN Query!NoRecord
                ELSE IF row.status \in {"queued", "running"} THEN broken ELSE row
  BY <1>1, <1>2 DEF Query!Restart
<1>5. Query!NoRecord \in HandedRow /\ Query!NoRecord.status = "none" /\ Query!NoRecord.saved = FALSE
  BY DEF HandedRow, Query!NoRecord
<1>6. /\ record' \in HandedRow /\ record'.status \in {"none", "ended", "interrupted"}
      /\ row.saved => record'.saved /\ record'.notice = row.notice
      /\ record'.status = "none" => ~row.saved \/ row.status = "none"
  BY <1>3, <1>4, <1>5 DEF HandedRow
<1>7. checkpoint' = Query!NoCheckpoint /\ checkpoint' \in LiveRow /\ checkpoint'.reads = 0
      /\ checkpoint'.revision = 0 /\ worker' = "none" /\ lock' = Query!Nobody
      /\ UNCHANGED <<revision, told, runs, stale>> /\ revision \in Nat
  BY DEF Query!Restart, LiveRow, Query!NoCheckpoint, HandoverInv, HandoverTyped
<1>8. ASSUME NEW t \in Turns
      PROVE  /\ turn'[t] \in TurnRow /\ turn'[t].at \in {"none", "gone"} /\ turn'[t].revision <= revision
             /\ turn[t].at \in {"handed", "gone"} => turn'[t].at = "gone"
  <2>1. PICK old \in TurnRow : old = turn[t] /\ old.revision <= revision
    BY DEF HandoverInv, HandoverTyped, PromotionsOK, PromotedOK
  <2>2. PICK gone : gone = [old EXCEPT !.at = "gone"]
    OBVIOUS
  <2>3. gone \in TurnRow /\ gone.at = "gone" /\ gone.revision = old.revision
    BY <2>2 DEF TurnRow, Steps
  <2>4. Query!Fresh \in TurnRow /\ Query!Fresh.at = "none" /\ Query!Fresh.revision = 0
    BY DEF TurnRow, Steps, Query!Fresh
  <2>5. turn'[t] = IF old.at = "none" THEN Query!Fresh ELSE gone
    BY <2>1, <2>2 DEF Query!Restart
  <2> QED BY <1>7, <2>1, <2>3, <2>4, <2>5
<1>9. turn' \in [Turns -> TurnRow] /\ PromotionsOK'
  <2>1. turn' = [t \in Turns |-> turn'[t]]
    BY DEF Query!Restart
  <2> QED BY <1>7, <1>8, <2>1 DEF PromotionsOK, PromotedOK, Promoting
<1>10. StatusOK' /\ RunOnce'
  BY <1>1, <1>6, <1>7, <1>8 DEF HandoverInv, HandoverTyped, StatusOK, RunOnce
<1>11. ReadsOK'
  BY <1>7, HandoverLimits DEF HandoverInv, ReadsOK
<1> QED BY <1>6, <1>7, <1>9, <1>10, <1>11 DEF HandoverInv, HandoverTyped

(* Every reachable state keeps the turns, the record and the checkpoint in *)
(* the relation HandoverInv states.                                        *)
THEOREM HandoverInvariance ==
    ASSUME HandoverGiven
    PROVE  Query!HandoverSpec => []HandoverInv
<1>1. ASSUME HandoverInv, [Query!HandoverNext]_Query!handoverVars PROVE HandoverInv'
  BY <1>1, TurnKeepsHandover, SubmitKeepsHandover, NoticeKeepsHandover, StartKeepsHandover,
     WorkerKeepsHandover, WorldKeepsHandover, RestartKeepsHandover DEF Query!HandoverNext
<1> QED BY <1>1, HandoverStart, PTL DEF Query!HandoverSpec

(* A message is handed over once, announced once and run once, by a turn   *)
(* that knows of it, however often it is delivered and whoever dies; the   *)
(* foreground and the background spend one budget, and a change of         *)
(* authority lets one read through at most.                                *)
THEOREM HandoverStaysSingle ==
    ASSUME HandoverGiven
    PROVE  Query!HandoverSpec => [](Query!HandoverIsSingle /\ Query!HandoverIsBounded)
<1>1. ASSUME HandoverInv PROVE Query!HandoverIsSingle
  <2>1. Cardinality(runs) <= 1
    <3>1. CASE runs = {}
      BY <3>1, FS_EmptySet
    <3>2. CASE runs # {}
      <4>1. PICK t : t \in runs
        BY <3>2
      <4>2. \A u \in runs : u = t
        BY <1>1, <4>1 DEF HandoverInv, RunOnce
      <4>3. runs = {t}
        BY <4>1, <4>2
      <4>4. Cardinality({t}) = 1
        BY FS_Singleton, Zenon
      <4> QED BY <4>3, <4>4
    <3> QED BY <3>1, <3>2
  <2>2. told <= 1
    BY <1>1 DEF HandoverInv, HandoverTyped
  <2>3. \A t \in runs : turn[t].at \in {"handed", "gone"}
    BY <1>1 DEF HandoverInv, RunOnce
  <2> QED BY <2>1, <2>2, <2>3
      DEF Query!HandoverIsSingle, Query!Cardinality, Cardinality, Query!IsFiniteSet, IsFiniteSet
<1>2. HandoverInv => Query!HandoverIsBounded
  BY DEF HandoverInv, HandoverTyped, ReadsOK, Query!HandoverIsBounded
<1> QED BY <1>1, <1>2, HandoverInvariance, PTL

-----------------------------------------------------------------------------
(* The workbench.  A request is prepared without the lock, so whether      *)
(* another one is under way was looked at long before: of the turns that   *)
(* are prepared, submitted or worked on there is one at a time.            *)

BenchRow == [stage : {"none", "preparing", "submitting", "executing", "finished", "replied", "canceled",
                      "failed", "interrupted"},
             id : BOOLEAN, question : BOOLEAN]

BenchTyped ==
    /\ turn \in [Turns -> BenchRow]
    /\ thread \in [Turns -> {"none", "queued", "preparing", "submitting", "failing"}]
    /\ task \in [Turns -> {"none", "active", "waiting", "ended"}]
    /\ memory \subseteq Turns /\ conversation \in {"open", "forgetting", "removed"}

(* A turn that is worked on, or will be without being asked again.         *)
Claims(row, state) == state = "active" \/ row.stage \in {"preparing", "submitting"}

OneClaims == \A t, u \in Turns : Claims(turn[t], task[t]) /\ Claims(turn[u], task[u]) => t = u

ShownOK ==
    \A t \in Turns :
        /\ task[t] = "active" => turn[t].stage = "executing" /\ turn[t].id
        /\ thread[t] = "submitting" => turn[t].stage = "submitting" /\ turn[t].id
        /\ turn[t].stage \in {"none", "preparing", "canceled"} => t \notin accepted
        /\ turn[t].stage \in {"none", "preparing", "submitting"} => ~turn[t].question

RemovedOK ==
    conversation # "open" =>
        memory = {} /\ \A t \in Turns : task[t] # "active" /\ thread[t] # "submitting"

BenchInv == BenchTyped /\ OneClaims /\ ShownOK /\ RemovedOK

LEMMA BenchStart ==
    ASSUME Bench!WorkbenchInit
    PROVE  BenchInv
<1>1. PICK none \in BenchRow : none = Bench!NoTurn /\ none.stage = "none"
  <2>1. PICK none : none = Bench!NoTurn
    OBVIOUS
  <2>2. none \in BenchRow /\ none.stage = "none"
    BY <2>1 DEF BenchRow, Bench!NoTurn
  <2> QED BY <2>1, <2>2
<1>2. turn = [t \in Turns |-> none]
  BY <1>1 DEF Bench!WorkbenchInit
<1> QED BY <1>1, <1>2
        DEF Bench!WorkbenchInit, Bench!NoTurn, BenchInv, BenchTyped, OneClaims, Claims, ShownOK, RemovedOK

(* A refresh leaves alone what is worked on, and what has not begun.       *)
LEMMA Refreshed ==
    ASSUME BenchInv, NEW seen \in Bench!Refreshes
    PROVE  /\ seen \in [Turns -> BenchRow]
           /\ \A t \in Turns :
                 /\ seen[t].id = turn[t].id
                 /\ turn[t].stage \in {"none", "preparing", "submitting"} => seen[t] = turn[t]
                 /\ \/ seen[t].stage = turn[t].stage
                    \/ task[t] # "active" /\ seen[t].stage \in {"interrupted", "finished"}
<1>1. PICK read \in SUBSET {t \in Turns : turn[t].stage = "executing" \/ turn[t].question} :
         seen = [t \in Turns |-> IF t \in read THEN Bench!Seen(t) ELSE turn[t]]
  BY DEF Bench!Refreshes
<1>2. ASSUME NEW t \in Turns
      PROVE  /\ Bench!Seen(t) \in BenchRow /\ Bench!Seen(t).id = turn[t].id
             /\ \/ Bench!Seen(t).stage = turn[t].stage
                \/ task[t] # "active" /\ Bench!Seen(t).stage \in {"interrupted", "finished"}
  <2>1. PICK old \in BenchRow : old = turn[t]
    BY DEF BenchInv, BenchTyped
  <2>2. PICK stage \in {"interrupted", "finished", old.stage} :
           /\ task[t] = "active" => stage = old.stage
           /\ stage = IF task[t] = "none" THEN "interrupted"
                      ELSE IF task[t] = "active" THEN old.stage ELSE "finished"
    OBVIOUS
  <2>3. PICK asks \in BOOLEAN : asks = (task[t] = "waiting")
    OBVIOUS
  <2>4. PICK new : new = [old EXCEPT !.stage = stage, !.question = asks]
    OBVIOUS
  <2>5. new \in BenchRow /\ new.id = old.id /\ new.stage = stage
    BY <2>2, <2>4 DEF BenchRow
  <2>6. Bench!Seen(t) = new
    BY <2>1, <2>2, <2>3, <2>4 DEF Bench!Seen
  <2> QED BY <2>1, <2>2, <2>5, <2>6
<1>3. \A t \in Turns : turn[t] \in BenchRow
  BY DEF BenchInv, BenchTyped
<1>4. ASSUME NEW t \in Turns, turn[t].stage \in {"none", "preparing", "submitting"} PROVE seen[t] = turn[t]
  <2>1. t \notin read
    BY <1>1, <1>4 DEF BenchInv, ShownOK
  <2> QED BY <1>1, <2>1
<1> QED BY <1>1, <1>2, <1>3, <1>4

(* Only what was finished is kept.                                         *)
LEMMA CapturesSome ==
    ASSUME BenchInv, NEW seen, Bench!Captures(seen)
    PROVE  memory' \subseteq Turns
BY DEF Bench!Captures, BenchInv, BenchTyped

(* When no other turn is under way, nothing else claims to be worked on.   *)
LEMMA NobodyElse ==
    ASSUME BenchInv, NEW seen \in Bench!Refreshes, NEW t \in Turns, ~Bench!Busy(seen, t)
    PROVE  \A u \in Turns \ {t} : ~Claims(turn[u], task[u]) /\ ~Claims(seen[u], task[u])
<1>1. ASSUME NEW u \in Turns \ {t} PROVE ~Claims(turn[u], task[u]) /\ ~Claims(seen[u], task[u])
  <2>1. seen[u].stage \notin {"preparing", "submitting", "executing"}
    BY <1>1 DEF Bench!Busy, Bench!Unfinished
  <2>2. \/ seen[u].stage = turn[u].stage
        \/ task[u] # "active" /\ seen[u].stage \in {"interrupted", "finished"}
    BY <1>1, Refreshed
  <2>3. task[u] = "active" => turn[u].stage = "executing"
    BY <1>1 DEF BenchInv, ShownOK
  <2>4. task[u] # "active"
    BY <2>1, <2>2, <2>3
  <2>5. turn[u].stage \notin {"preparing", "submitting"}
    BY <1>1, <2>1, Refreshed
  <2> QED BY <2>1, <2>4, <2>5 DEF Claims
<1> QED BY <1>1


-----------------------------------------------------------------------------
(* One turn moves, or its task does, and nothing else claims to be worked  *)
(* on if this one begins to.                                               *)
LEMMA OneMoves ==
    ASSUME BenchInv, NEW t \in Turns, turn' \in [Turns -> BenchRow],
           \A u \in Turns \ {t} : /\ task'[u] = task[u] /\ (thread'[u] = thread[u] \/ thread'[u] # "submitting")
                                  /\ turn'[u].id = turn[u].id
                                  /\ turn[u].stage \in {"none", "preparing", "submitting"} => turn'[u] = turn[u]
                                  /\ \/ turn'[u].stage = turn[u].stage
                                     \/ /\ task[u] # "active" /\ thread[u] # "submitting"
                                        /\ turn'[u].stage \in {"interrupted", "finished"},
           \/ ~Claims(turn'[t], task'[t])
           \/ Claims(turn[t], task[t])
           \/ \A u \in Turns \ {t} : ~Claims(turn[u], task[u]),
           accepted \subseteq accepted', accepted' \subseteq accepted \cup {t},
           task'[t] = "active" => turn'[t].stage = "executing" /\ turn'[t].id,
           thread'[t] = "submitting" => turn'[t].stage = "submitting" /\ turn'[t].id,
           turn'[t].stage \in {"none", "preparing", "canceled"} => t \notin accepted',
           turn'[t].stage \in {"none", "preparing", "submitting"} => ~turn'[t].question
    PROVE  OneClaims' /\ ShownOK'
<1>1. \A u \in Turns \ {t} : Claims(turn'[u], task'[u]) => Claims(turn[u], task[u])
  BY DEF Claims
<1>2. OneClaims'
  BY <1>1 DEF BenchInv, OneClaims
<1>3. ASSUME NEW u \in Turns \ {t}
      PROVE  /\ task'[u] = "active" => turn'[u].stage = "executing" /\ turn'[u].id
             /\ thread'[u] = "submitting" => turn'[u].stage = "submitting" /\ turn'[u].id
             /\ turn'[u].stage \in {"none", "preparing", "canceled"} => u \notin accepted'
             /\ turn'[u].stage \in {"none", "preparing", "submitting"} => ~turn'[u].question
  <2>1. /\ task[u] = "active" => turn[u].stage = "executing" /\ turn[u].id
        /\ thread[u] = "submitting" => turn[u].stage = "submitting" /\ turn[u].id
        /\ turn[u].stage \in {"none", "preparing", "canceled"} => u \notin accepted
        /\ turn[u].stage \in {"none", "preparing", "submitting"} => ~turn[u].question
    BY DEF BenchInv, ShownOK
  <2> QED BY <1>3, <2>1
<1>4. ShownOK'
  BY <1>3 DEF ShownOK
<1> QED BY <1>2, <1>4

(* What the user does, under the lock: the turns are refreshed, and one    *)
(* of them gets another stage, or its task another state.                  *)
LEMMA UserKeepsBench ==
    ASSUME BenchInv, NEW t \in Turns, NEW seen \in Bench!Refreshes, Bench!Free, Bench!Captures(seen),
           NEW stage \in {"preparing", "canceled", "executing", "same"},
           turn' = IF stage = "same" THEN seen ELSE [seen EXCEPT ![t].stage = stage],
           thread' \in [Turns -> {"none", "queued", "preparing", "submitting", "failing"}],
           \A u \in Turns : thread'[u] # "submitting",
           NEW s \in {"none", "active", "waiting", "ended"}, task' = [task EXCEPT ![t] = s],
           stage # "executing" => s = task[t],
           stage = "executing" => turn[t].id /\ (s = "active" => task[t] = "active" \/ ~Bench!Busy(seen, t)),
           stage = "preparing" => turn[t].stage = "none" /\ ~Bench!Busy(seen, t),
           stage = "canceled" => seen[t].stage = "preparing",
           UNCHANGED <<conversation, accepted>>
    PROVE  BenchInv'
<1>1. PICK old \in BenchRow : old = seen[t]
  BY Refreshed
<1>2. PICK new \in BenchRow : /\ new.id = old.id /\ new.question = old.question
                              /\ new.stage = IF stage = "same" THEN old.stage ELSE stage
                              /\ turn' = [seen EXCEPT ![t] = new]
  <2>1. PICK new : new = [old EXCEPT !.stage = stage]
    OBVIOUS
  <2>2. stage # "same" => /\ new \in BenchRow /\ new.id = old.id /\ new.question = old.question
                          /\ new.stage = stage /\ turn' = [seen EXCEPT ![t] = new]
    BY <1>1, <2>1 DEF BenchRow
  <2>3. stage = "same" => turn' = [seen EXCEPT ![t] = old]
    BY <1>1, Refreshed
  <2> QED BY <2>2, <2>3
<1>3. /\ turn' \in [Turns -> BenchRow] /\ turn'[t] = new
      /\ \A u \in Turns \ {t} : turn'[u] = seen[u]
  BY <1>2, Refreshed
<1>4. \A u \in Turns : thread[u] # "submitting"
  BY DEF Bench!Free
<1>5. /\ task' \in [Turns -> {"none", "active", "waiting", "ended"}] /\ task'[t] = s
      /\ \A u \in Turns \ {t} : task'[u] = task[u]
  BY DEF BenchInv, BenchTyped
<1>6. /\ task[t] = "active" => turn[t].stage = "executing" /\ turn[t].id
      /\ turn[t].stage \in {"none", "preparing", "canceled"} => t \notin accepted
      /\ turn[t].stage \in {"none", "preparing", "submitting"} => ~turn[t].question
  BY DEF BenchInv, ShownOK
<1>7. /\ old.id = turn[t].id
      /\ turn[t].stage \in {"none", "preparing", "submitting"} => old = turn[t]
      /\ \/ old.stage = turn[t].stage
         \/ task[t] # "active" /\ old.stage \in {"interrupted", "finished"}
  BY <1>1, Refreshed
<1>8. ~Bench!Busy(seen, t) => \A u \in Turns \ {t} : ~Claims(turn[u], task[u])
  BY NobodyElse
<1>9. OneClaims' /\ ShownOK'
  <2>1. \A u \in Turns \ {t} : /\ task'[u] = task[u] /\ (thread'[u] = thread[u] \/ thread'[u] # "submitting")
                               /\ turn'[u].id = turn[u].id
                               /\ turn[u].stage \in {"none", "preparing", "submitting"} => turn'[u] = turn[u]
                               /\ \/ turn'[u].stage = turn[u].stage
                                  \/ /\ task[u] # "active" /\ thread[u] # "submitting"
                                     /\ turn'[u].stage \in {"interrupted", "finished"}
    BY <1>3, <1>4, <1>5, Refreshed
  <2>2. \/ ~Claims(turn'[t], task'[t])
        \/ Claims(turn[t], task[t])
        \/ \A u \in Turns \ {t} : ~Claims(turn[u], task[u])
    <3>1. CASE stage = "same"
      BY <1>1, <1>2, <1>3, <1>5, <1>7, <3>1 DEF Claims
    <3>2. CASE stage = "preparing"
      BY <1>8, <3>2
    <3>3. CASE stage = "canceled"
      BY <1>1, <1>7, <3>3 DEF Claims
    <3>4. CASE stage = "executing" /\ s # "active"
      BY <1>2, <1>3, <1>5, <3>4 DEF Claims
    <3>5. CASE stage = "executing" /\ s = "active"
      <4>1. task[t] = "active" \/ ~Bench!Busy(seen, t)
        BY <3>5
      <4>2. task[t] = "active" => Claims(turn[t], task[t])
        BY DEF Claims
      <4> QED BY <1>8, <4>1, <4>2
    <3> QED BY <3>1, <3>2, <3>3, <3>4, <3>5
  <2>3. task'[t] = "active" => turn'[t].stage = "executing" /\ turn'[t].id
    <3>1. CASE stage = "executing"
      BY <1>2, <1>3, <1>7, <3>1
    <3>2. CASE stage # "executing" /\ s = "active"
      <4>1. task[t] = "active" /\ turn[t].stage = "executing" /\ turn[t].id /\ old.stage = "executing"
        BY <1>6, <1>7, <3>2
      <4>2. stage = "same"
        BY <1>1, <3>2, <4>1
      <4> QED BY <1>2, <1>3, <1>7, <4>1, <4>2
    <3> QED BY <1>5, <3>1, <3>2
  <2>4. /\ turn'[t].stage \in {"none", "preparing", "canceled"} => t \notin accepted'
        /\ turn'[t].stage \in {"none", "preparing", "submitting"} => ~turn'[t].question
    BY <1>1, <1>2, <1>3, <1>6, <1>7
  <2>5. /\ accepted \subseteq accepted' /\ accepted' \subseteq accepted \cup {t}
        /\ thread'[t] = "submitting" => turn'[t].stage = "submitting" /\ turn'[t].id
        /\ turn' \in [Turns -> BenchRow]
    BY <1>3
  <2> QED BY <2>1, <2>2, <2>3, <2>4, <2>5, OneMoves
<1>10. RemovedOK'
  BY DEF Bench!Free, RemovedOK
<1>11. memory' \subseteq Turns
  BY CapturesSome
<1> QED BY <1>3, <1>5, <1>9, <1>10, <1>11 DEF BenchInv, BenchTyped

LEMMA NothingSubmits ==
    ASSUME BenchInv, Bench!Free, UNCHANGED thread
    PROVE  /\ thread' \in [Turns -> {"none", "queued", "preparing", "submitting", "failing"}]
           /\ \A u \in Turns : thread'[u] # "submitting"
BY DEF BenchInv, BenchTyped, Bench!Free

LEMMA SameTask ==
    ASSUME BenchInv, NEW t \in Turns, UNCHANGED task
    PROVE  task[t] \in {"none", "active", "waiting", "ended"} /\ task' = [task EXCEPT ![t] = task[t]]
BY DEF BenchInv, BenchTyped

LEMMA SendKeepsBench ==
    ASSUME BenchInv, NEW t \in Turns, Bench!Send(t) \/ Bench!CancelPreparing(t)
    PROVE  BenchInv'
<1>1. CASE Bench!Send(t)
  <2>1. PICK seen \in Bench!Refreshes : /\ ~Bench!Busy(seen, t) /\ Bench!Captures(seen)
                                        /\ turn' = [seen EXCEPT ![t].stage = "preparing"]
    BY <1>1 DEF Bench!Send
  <2>2. /\ thread' \in [Turns -> {"none", "queued", "preparing", "submitting", "failing"}]
        /\ \A u \in Turns : thread'[u] # "submitting"
    BY <1>1 DEF Bench!Send, Bench!Free, BenchInv, BenchTyped
  <2>3. Bench!Free /\ turn[t].stage = "none" /\ UNCHANGED <<task, conversation, accepted>>
    BY <1>1 DEF Bench!Send
  <2> QED BY <2>1, <2>2, <2>3, SameTask, UserKeepsBench
<1>2. CASE Bench!CancelPreparing(t)
  <2>1. PICK seen \in Bench!Refreshes : /\ seen[t].stage = "preparing" /\ Bench!Captures(seen)
                                        /\ turn' = [seen EXCEPT ![t].stage = "canceled"]
    BY <1>2 DEF Bench!CancelPreparing
  <2>2. Bench!Free /\ UNCHANGED <<task, thread, conversation, accepted>>
    BY <1>2 DEF Bench!CancelPreparing
  <2> QED BY <2>1, <2>2, SameTask, NothingSubmits, UserKeepsBench
<1> QED BY <1>1, <1>2


LEMMA ControlKeepsBench ==
    ASSUME BenchInv, NEW t \in Turns,
           \/ Bench!CancelTask(t) \/ Bench!ResumeTask(t) \/ Bench!AnswerTask(t) \/ Bench!SupplementTask(t)
    PROVE  BenchInv'
<1>1. \E seen \in Bench!Refreshes : \E s \in {"active", "waiting", "ended"} :
         /\ Bench!Free /\ turn[t].id /\ Bench!Captures(seen)
         /\ turn' = [seen EXCEPT ![t].stage = "executing"] /\ task' = [task EXCEPT ![t] = s]
         /\ UNCHANGED <<thread, conversation, accepted>>
         /\ s = "active" => task[t] = "active" \/ ~Bench!Busy(seen, t)
  <2>1. CASE Bench!CancelTask(t)
    BY <2>1 DEF Bench!CancelTask, Bench!Controls
  <2>2. CASE Bench!ResumeTask(t)
    BY <2>2 DEF Bench!ResumeTask, Bench!Controls
  <2>3. CASE Bench!AnswerTask(t)
    BY <2>3 DEF Bench!AnswerTask, Bench!Controls
  <2>4. CASE Bench!SupplementTask(t)
    BY <2>4 DEF Bench!SupplementTask, Bench!Controls
  <2> QED BY <2>1, <2>2, <2>3, <2>4
<1>2. PICK seen \in Bench!Refreshes, s \in {"active", "waiting", "ended"} :
         /\ Bench!Free /\ turn[t].id /\ Bench!Captures(seen)
         /\ turn' = [seen EXCEPT ![t].stage = "executing"] /\ task' = [task EXCEPT ![t] = s]
         /\ UNCHANGED <<thread, conversation, accepted>>
         /\ s = "active" => task[t] = "active" \/ ~Bench!Busy(seen, t)
  BY <1>1
<1> QED BY <1>2, NothingSubmits, UserKeepsBench

LEMMA RefreshKeepsBench ==
    ASSUME BenchInv, Bench!Refresh
    PROVE  BenchInv'
<1>1. PICK seen \in Bench!Refreshes : turn' = seen /\ Bench!Captures(seen)
  BY DEF Bench!Refresh
<1>2. Bench!Free /\ UNCHANGED <<task, thread, conversation, accepted>>
  BY DEF Bench!Refresh
<1>3. CASE Turns = {}
  BY <1>1, <1>2, <1>3, Refreshed, CapturesSome DEF BenchInv, BenchTyped, OneClaims, ShownOK, RemovedOK, Bench!Free
<1>4. ASSUME NEW t \in Turns PROVE BenchInv'
  BY <1>1, <1>2, SameTask, NothingSubmits, UserKeepsBench
<1> QED BY <1>3, <1>4

-----------------------------------------------------------------------------
(* The threads, and the service.                                           *)

(* A turn goes where its thread puts it.                                   *)
LEMMA ThreadMoves ==
    ASSUME BenchInv, NEW t \in Turns,
           thread' \in [Turns -> {"none", "queued", "preparing", "submitting", "failing"}],
           turn' \in [Turns -> BenchRow], task' \in [Turns -> {"none", "active", "waiting", "ended"}],
           \A u \in Turns \ {t} : turn'[u] = turn[u] /\ thread'[u] = thread[u] /\ task'[u] = task[u],
           ~Claims(turn'[t], task'[t]) \/ Claims(turn[t], task[t]),
           accepted \subseteq accepted', accepted' \subseteq accepted \cup {t},
           task'[t] = "active" => turn'[t].stage = "executing" /\ turn'[t].id,
           thread'[t] = "submitting" => turn'[t].stage = "submitting" /\ turn'[t].id,
           turn'[t].stage \in {"none", "preparing", "canceled"} => t \notin accepted',
           turn'[t].stage \in {"none", "preparing", "submitting"} => ~turn'[t].question,
           UNCHANGED <<memory, conversation>>,
           conversation # "open" => task'[t] # "active" /\ thread'[t] # "submitting"
    PROVE  BenchInv'
<1>1. OneClaims' /\ ShownOK'
  BY OneMoves
<1>2. RemovedOK'
  BY DEF BenchInv, RemovedOK
<1> QED BY <1>1, <1>2 DEF BenchInv, BenchTyped

LEMMA ThreadKeepsBench ==
    ASSUME BenchInv, NEW t \in Turns,
           \/ Bench!Prepare(t) \/ Bench!Fail(t) \/ Bench!Prepared(t) \/ Bench!Gone(t) \/ Bench!Submit(t)
           \/ Bench!Failed(t) \/ Bench!Work(t)
    PROVE  BenchInv'
<1>1. PICK old \in BenchRow : old = turn[t]
  BY DEF BenchInv, BenchTyped
<1>2. /\ task[t] = "active" => old.stage = "executing" /\ old.id
      /\ thread[t] = "submitting" => old.stage = "submitting" /\ old.id
      /\ old.stage \in {"none", "preparing", "canceled"} => t \notin accepted
      /\ old.stage \in {"none", "preparing", "submitting"} => ~old.question
      /\ conversation # "open" => task[t] # "active" /\ thread[t] # "submitting"
  BY <1>1 DEF BenchInv, ShownOK, RemovedOK
<1>3. /\ turn \in [Turns -> BenchRow] /\ task \in [Turns -> {"none", "active", "waiting", "ended"}]
      /\ thread \in [Turns -> {"none", "queued", "preparing", "submitting", "failing"}]
  BY DEF BenchInv, BenchTyped
<1>4. ASSUME NEW place \in {"none", "preparing", "failing"}, Bench!Threads(t, place),
             turn' = turn, NEW s \in {"none", "active", "waiting", "ended"}, task' = [task EXCEPT ![t] = s],
             s = "active" => task[t] = "active", UNCHANGED <<accepted, memory, conversation>>
      PROVE  BenchInv'
  <2>1. thread' = [thread EXCEPT ![t] = place]
    BY <1>4 DEF Bench!Threads
  <2>2. ~Claims(turn'[t], task'[t]) \/ Claims(turn[t], task[t])
    BY <1>3, <1>4 DEF Claims
  <2>3. /\ thread' \in [Turns -> {"none", "queued", "preparing", "submitting", "failing"}]
        /\ turn' \in [Turns -> BenchRow] /\ task' \in [Turns -> {"none", "active", "waiting", "ended"}]
        /\ \A u \in Turns \ {t} : turn'[u] = turn[u] /\ thread'[u] = thread[u] /\ task'[u] = task[u]
        /\ thread'[t] = place /\ task'[t] = s /\ turn'[t] = old
    BY <1>1, <1>3, <1>4, <2>1
  <2> QED BY <1>2, <1>4, <2>2, <2>3, ThreadMoves
<1>5. ASSUME NEW place \in {"none", "submitting"}, Bench!Threads(t, place), NEW new \in BenchRow,
             turn' = [turn EXCEPT ![t] = new],
             new.stage \in {"replied", "executing", "failed", "submitting"}, new.question = old.question,
             NEW s \in {task[t], "active"}, task' = [task EXCEPT ![t] = s],
             new.stage = "submitting" => old.stage = "preparing",
             place = "submitting" => new.stage = "submitting" /\ new.id /\ conversation = "open",
             s = "active" => new.stage = "executing" /\ new.id
                                /\ (task[t] = "active" \/ thread[t] = "submitting"),
             accepted \subseteq accepted', accepted' \subseteq accepted \cup {t},
             UNCHANGED <<memory, conversation>>
      PROVE  BenchInv'
  <2>1. thread' = [thread EXCEPT ![t] = place]
    BY <1>5 DEF Bench!Threads
  <2>2. /\ thread' \in [Turns -> {"none", "queued", "preparing", "submitting", "failing"}]
        /\ turn' \in [Turns -> BenchRow] /\ task' \in [Turns -> {"none", "active", "waiting", "ended"}]
        /\ \A u \in Turns \ {t} : turn'[u] = turn[u] /\ thread'[u] = thread[u] /\ task'[u] = task[u]
        /\ thread'[t] = place /\ task'[t] = s /\ turn'[t] = new
    BY <1>3, <1>5, <2>1
  <2>3. ~Claims(turn'[t], task'[t]) \/ Claims(turn[t], task[t])
    BY <1>1, <1>2, <1>5, <2>2 DEF Claims
  <2>4. conversation # "open" => s # "active" /\ place # "submitting"
    BY <1>2, <1>5
  <2>5. new.stage \in {"none", "preparing", "submitting"} => ~new.question
    BY <1>2, <1>5
  <2>6. /\ task'[t] = "active" => turn'[t].stage = "executing" /\ turn'[t].id
        /\ thread'[t] = "submitting" => turn'[t].stage = "submitting" /\ turn'[t].id
        /\ turn'[t].stage \in {"none", "preparing", "canceled"} => t \notin accepted'
        /\ turn'[t].stage \in {"none", "preparing", "submitting"} => ~turn'[t].question
        /\ conversation # "open" => task'[t] # "active" /\ thread'[t] # "submitting"
    BY <1>5, <2>2, <2>4, <2>5
  <2> QED BY <1>5, <2>2, <2>3, <2>6, ThreadMoves
<1>6. task[t] \in {"none", "active", "waiting", "ended"} /\ task = [task EXCEPT ![t] = task[t]]
  BY <1>3
<1>7. CASE Bench!Prepare(t) \/ Bench!Fail(t) \/ Bench!Gone(t)
  BY <1>4, <1>6, <1>7 DEF Bench!Prepare, Bench!Fail, Bench!Gone, Bench!Apart
<1>8. CASE Bench!Prepared(t)
  <2>1. CASE turn' = turn /\ (Bench!Threads(t, "none") \/ Bench!Threads(t, "failing"))
    BY <1>4, <1>6, <1>8, <2>1 DEF Bench!Prepared, Bench!Apart
  <2>2. CASE Bench!Wanted(t) /\ Bench!Stage(t, "replied") /\ Bench!Threads(t, "none")
    <3>1. PICK new : new = [old EXCEPT !.stage = "replied"]
      OBVIOUS
    <3>2. new \in BenchRow /\ new.stage = "replied" /\ new.question = old.question
      BY <3>1 DEF BenchRow
    <3>3. turn' = [turn EXCEPT ![t] = new]
      BY <1>1, <2>2, <3>1 DEF Bench!Stage
    <3>4. UNCHANGED <<task, accepted, memory, conversation>> /\ task[t] # "active"
      BY <1>1, <1>2, <1>8, <2>2, <3>2, <3>3 DEF Bench!Prepared, Bench!Apart, Bench!Wanted, Bench!Threads
    <3> QED BY <1>5, <1>6, <2>2, <3>2, <3>3, <3>4
  <2>3. CASE /\ Bench!Wanted(t) /\ Bench!Threads(t, "submitting")
             /\ turn' = [turn EXCEPT ![t].stage = "submitting", ![t].id = TRUE]
    <3>1. PICK new : new = [old EXCEPT !.stage = "submitting", !.id = TRUE]
      OBVIOUS
    <3>2. new \in BenchRow /\ new.stage = "submitting" /\ new.question = old.question /\ new.id
      BY <3>1 DEF BenchRow
    <3>3. turn' = [turn EXCEPT ![t] = new]
      BY <1>1, <2>3, <3>1
    <3>4. UNCHANGED <<task, accepted, memory, conversation>> /\ task[t] # "active" /\ conversation = "open"
          /\ old.stage = "preparing"
      BY <1>1, <1>2, <1>8, <2>3 DEF Bench!Prepared, Bench!Apart, Bench!Wanted, Bench!Free
    <3> QED BY <1>5, <1>6, <2>3, <3>2, <3>3, <3>4
  <2> QED BY <1>8, <2>1, <2>2, <2>3 DEF Bench!Prepared
<1>9. CASE Bench!Submit(t)
  <2>1. thread[t] = "submitting" /\ conversation = "open" /\ UNCHANGED <<memory, conversation>>
    BY <1>2, <1>9 DEF Bench!Submit, Bench!Apart, BenchInv, BenchTyped
  <2>2. CASE /\ task' = [task EXCEPT ![t] = "active"] /\ accepted' = accepted \cup {t}
             /\ Bench!Stage(t, "executing") /\ Bench!Threads(t, "none")
    <3>1. PICK new : new = [old EXCEPT !.stage = "executing"]
      OBVIOUS
    <3>2. new \in BenchRow /\ new.stage = "executing" /\ new.question = old.question /\ new.id = old.id
      BY <3>1 DEF BenchRow
    <3>3. turn' = [turn EXCEPT ![t] = new]
      BY <1>1, <2>2, <3>1 DEF Bench!Stage
    <3> QED BY <1>2, <1>5, <2>1, <2>2, <3>2, <3>3
  <2>3. ASSUME NEW s \in {"none", "ended"}, task' = [task EXCEPT ![t] = s], Bench!Threads(t, "failing"),
               UNCHANGED <<turn, accepted>>
        PROVE  BenchInv'
    BY <1>4, <2>1, <2>3
  <2> QED BY <1>9, <2>2, <2>3 DEF Bench!Submit
<1>10. CASE Bench!Failed(t)
  <2>1. Bench!Threads(t, "none") /\ UNCHANGED <<task, accepted, memory, conversation>>
    BY <1>10 DEF Bench!Failed, Bench!Apart
  <2>2. CASE turn' = turn
    BY <1>4, <1>6, <2>1, <2>2
  <2>3. CASE turn' # turn
    <3>1. PICK stage \in {"executing", "failed"} : /\ Bench!Stage(t, stage)
                                                   /\ stage = IF old.id THEN "executing" ELSE "failed"
      BY <1>1, <1>10, <2>3 DEF Bench!Failed
    <3>2. PICK new : new = [old EXCEPT !.stage = stage]
      OBVIOUS
    <3>3. new \in BenchRow /\ new.stage = stage /\ new.question = old.question /\ new.id = old.id
      BY <3>2 DEF BenchRow
    <3>4. turn' = [turn EXCEPT ![t] = new]
      BY <1>1, <3>1, <3>2 DEF Bench!Stage
    <3> QED BY <1>2, <1>5, <1>6, <2>1, <3>1, <3>3, <3>4
  <2> QED BY <2>2, <2>3
<1>11. CASE Bench!Work(t)
  <2>1. PICK s \in {"waiting", "ended"} : task' = [task EXCEPT ![t] = s]
    BY <1>11 DEF Bench!Work
  <2>2. UNCHANGED <<turn, thread, accepted, memory, conversation>>
    BY <1>11 DEF Bench!Work, Bench!Apart
  <2>3. ~Claims(turn'[t], task'[t]) \/ Claims(turn[t], task[t])
    BY <1>3, <2>1, <2>2 DEF Claims
  <2>4. /\ task' \in [Turns -> {"none", "active", "waiting", "ended"}] /\ task'[t] = s
        /\ \A u \in Turns \ {t} : turn'[u] = turn[u] /\ thread'[u] = thread[u] /\ task'[u] = task[u]
    BY <1>3, <2>1, <2>2
  <2> QED BY <1>1, <1>2, <1>3, <2>2, <2>3, <2>4, ThreadMoves
<1> QED BY <1>7, <1>8, <1>9, <1>10, <1>11

LEMMA EndsKeepBench ==
    ASSUME BenchInv, Bench!Forget \/ Bench!Remove \/ Bench!CloseWorkbench \/ UNCHANGED Bench!workbenchVars
    PROVE  BenchInv'
<1>1. CASE Bench!Forget
  <2>1. \A t \in Turns : task[t] # "active" /\ thread[t] # "submitting"
    BY <1>1 DEF Bench!Forget, Bench!Free, BenchInv, ShownOK
  <2> QED BY <1>1, <2>1 DEF Bench!Forget, BenchInv, BenchTyped, OneClaims, ShownOK, RemovedOK
<1>2. CASE Bench!Remove
  BY <1>2 DEF Bench!Remove, BenchInv, BenchTyped, OneClaims, ShownOK, RemovedOK
<1>3. CASE Bench!CloseWorkbench
  <2>1. UNCHANGED <<turn, task, memory, conversation, accepted>>
    BY <1>3 DEF Bench!CloseWorkbench
  <2>2. /\ thread' \in [Turns -> {"none", "queued", "preparing", "submitting", "failing"}]
        /\ \A t \in Turns : thread'[t] = "submitting" => thread[t] = "submitting"
    BY <1>3 DEF Bench!CloseWorkbench, BenchInv, BenchTyped
  <2> QED BY <2>1, <2>2 DEF BenchInv, BenchTyped, OneClaims, ShownOK, RemovedOK
<1>4. CASE UNCHANGED Bench!workbenchVars
  BY <1>4 DEF Bench!workbenchVars, BenchInv, BenchTyped, OneClaims, ShownOK, RemovedOK
<1> QED BY <1>1, <1>2, <1>3, <1>4

LEMMA RestartKeepsBench ==
    ASSUME BenchInv, Bench!Restart
    PROVE  BenchInv'
<1>1. ASSUME NEW t \in Turns
      PROVE  /\ turn'[t] \in BenchRow /\ turn'[t].id = turn[t].id /\ turn'[t].question = turn[t].question
             /\ \/ turn'[t].stage = turn[t].stage
                \/ turn'[t].stage \in {"executing", "interrupted"}
  <2>1. PICK old \in BenchRow : old = turn[t]
    BY DEF BenchInv, BenchTyped
  <2>2. PICK stage \in {"executing", "interrupted"} : stage = IF old.id THEN "executing" ELSE "interrupted"
    OBVIOUS
  <2>3. PICK new : new = [old EXCEPT !.stage = stage]
    OBVIOUS
  <2>4. new \in BenchRow /\ new.id = old.id /\ new.question = old.question /\ new.stage = stage
    BY <2>3 DEF BenchRow
  <2>5. turn'[t] = IF old.stage \in {"preparing", "submitting"} /\ conversation # "removed" THEN new ELSE old
    BY <2>1, <2>2, <2>3 DEF Bench!Restart
  <2> QED BY <2>1, <2>4, <2>5
<1>2. turn' \in [Turns -> BenchRow]
  <2>1. turn' = [t \in Turns |-> turn'[t]]
    BY DEF Bench!Restart
  <2> QED BY <1>1, <2>1
<1>3. /\ thread' = [t \in Turns |-> "none"] /\ conversation' \in {"open", "removed"}
      /\ conversation' # "open" => conversation = "removed"
      /\ task' \in [Turns -> {"none", "active", "waiting", "ended"}]
      /\ \A t \in Turns : task'[t] # "active"
      /\ UNCHANGED <<memory, accepted>>
  BY DEF Bench!Restart, BenchInv, BenchTyped
<1>4. OneClaims'
  BY <1>1, <1>3 DEF BenchInv, OneClaims, Claims
<1>5. ShownOK'
  BY <1>1, <1>3 DEF BenchInv, ShownOK
<1>6. RemovedOK'
  BY <1>3 DEF BenchInv, RemovedOK
<1> QED BY <1>2, <1>3, <1>4, <1>5, <1>6 DEF BenchInv, BenchTyped

(* Every reachable state keeps the turns, their threads and their tasks in *)
(* the relation BenchInv states.                                           *)
THEOREM BenchInvariance == Bench!WorkbenchSpec => []BenchInv
<1>1. ASSUME BenchInv, [Bench!WorkbenchNext]_Bench!workbenchVars PROVE BenchInv'
  BY <1>1, SendKeepsBench, ControlKeepsBench, RefreshKeepsBench, ThreadKeepsBench, EndsKeepBench,
     RestartKeepsBench DEF Bench!WorkbenchNext
<1> QED BY <1>1, BenchStart, PTL DEF Bench!WorkbenchSpec

(* Of one conversation one task is worked on at a time, and it is shown as *)
(* such; a preparation that was canceled never reaches the service; what   *)
(* was removed is neither worked on nor remembered.                        *)
THEOREM OneTaskStaysShown == Bench!WorkbenchSpec => []Bench!OneTaskShown
<1>1. ASSUME BenchInv PROVE Bench!OneTaskShown
  <2> DEFINE Active == {t \in Turns : task[t] = "active"}
  <2>1. Cardinality(Active) <= 1
    <3>1. CASE Active = {}
      BY <3>1, FS_EmptySet
    <3>2. CASE Active # {}
      <4>1. PICK t : t \in Active
        BY <3>2
      <4>2. \A u \in Active : u = t
        BY <1>1, <4>1 DEF BenchInv, OneClaims, Claims
      <4>3. Active = {t}
        BY <4>1, <4>2
      <4>4. Cardinality({t}) = 1
        BY FS_Singleton, Zenon
      <4> QED BY <4>3, <4>4
    <3> QED BY <3>1, <3>2
  <2>2. Bench!Cardinality(Active) = Cardinality(Active)
    BY DEF Bench!Cardinality, Cardinality, Bench!IsFiniteSet, IsFiniteSet
  <2>3. \A t \in Turns : /\ task[t] = "active" => turn[t].stage \in {"submitting", "executing"}
                         /\ turn[t].stage = "canceled" => t \notin accepted
    BY <1>1 DEF BenchInv, ShownOK
  <2>4. conversation = "removed" => memory = {} /\ \A t \in Turns : task[t] # "active"
    BY <1>1 DEF BenchInv, RemovedOK
  <2> QED BY <2>1, <2>2, <2>3, <2>4 DEF Bench!OneTaskShown
<1> QED BY <1>1, BenchInvariance, PTL

=============================================================================
