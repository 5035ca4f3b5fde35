------------------------- MODULE AgentServiceProofs -------------------------
(***************************************************************************)
(* Theorems about AgentService for every number of tasks and threads, with *)
(* and without recovery.                                                   *)
(*                                                                         *)
(* The service keeps two accounts of one piece of work, the ledger's row   *)
(* and the coordinator's record, and writes them in stages with everything *)
(* else in between.  That they agree is not inductive; ServiceInv says     *)
(* what ties them: a live record has the session of the row's attempt      *)
(* (TasksOK), work that may still act keeps its row in flight (SlicesOK),  *)
(* and a host's call that is half done has left the record as the missing  *)
(* half expects it (CallOK).  Every step of the service is a step of the   *)
(* coordinator, whose invariants are used as they were proved.             *)
(***************************************************************************)
EXTENDS AgentService, TaskCoordinatorProofs

Results == [attempt : Nat, status : Verdicts \cup {"none"}, current : BOOLEAN]

LedgerRows ==
    [status : LedgerStatuses, attempt : Nat, cancelReq : BOOLEAN,
     inflight : BOOLEAN, effects : BOOLEAN, result : Results]

SessionRows == [attempt : Nat, recheck : BOOLEAN]

HostCalls ==
    [op : {"none", "submit", "resume", "cancel"}, t : Tasks \cup {NoTarget},
     at : {"free", "queue", "dispatch", "failed", "record"}, flag : BOOLEAN]

Places ==
    {"out", "run", "clear", "tool", "final", "back", "commit", "yield", "answer", "raise"}

Slices == [at : Places, want : Verdicts \cup {"none", "yielded"}]

ServiceTyped ==
    /\ ledger \in [Tasks -> LedgerRows]
    /\ sessions \in [Tasks -> SessionRows]
    /\ call \in HostCalls
    /\ call.at # "free" => call.t \in Tasks
    /\ slice \in [Workers -> Slices]
    /\ unknown \subseteq Tasks

(* A record that a worker will take, or has taken and not started.         *)
Pooled(r) == r.status = "queued" /\ r.fut \in {"pending", "running"}

Live(r) == r.status \in InFlight

(* A row by itself: its result, if any, is that of its attempt.            *)
RowOK(l) ==
    /\ l.status = "absent" => l.attempt = 0 /\ ~l.inflight
    /\ l.status = "completed" => l.result.status # "none"
    /\ HasResult(l) => /\ l.result.attempt = l.attempt
                       /\ l.result.current => Shown(l) = l.result.status

(* The row and the record of one task.                                     *)
TaskOK(t) ==
    /\ RowOK(ledger[t])
    /\ records[t].attempt <= ledger[t].attempt
    /\ Live(records[t]) => /\ sessions[t].attempt = ledger[t].attempt
                           /\ ledger[t].status # "absent"
    /\ Pooled(records[t]) => ledger[t].status \in InFlight
    /\ t \in unknown => ledger[t].inflight /\ records[t].status # "queued"

TasksOK == \A t \in Tasks : TaskOK(t)

(* A handler that is at s and the row l it writes.                         *)
Fits(s, l) ==
    /\ s.at \in {"run", "clear", "tool", "yield"} => l.status \in InFlight
    /\ s.at = "back" /\ s.want = "yielded" => l.status \in InFlight
    /\ s.at = "tool" => l.inflight
    /\ s.at = "final" => s.want \in {"blocked", "canceled"}
    /\ s.at = "back" => s.want # "none"
    /\ s.at = "commit" => s.want \in Verdicts
    /\ s.at = "answer" => s.want \in OutcomeStatuses

SliceOK(w) ==
    /\ slice[w].at # "out" <=> pc[w] = "executing"
    /\ slice[w].at # "out" => Fits(slice[w], ledger[job[w][1]])
    /\ slice[w].at \notin {"out", "raise"} => job[w][1] \notin unknown

SlicesOK == \A w \in Workers : SliceOK(w)

(* The record while a host's call is under way.                            *)
CallOK ==
    LET t == call.t IN
    /\ call.at = "queue" => /\ ~Live(records[t]) /\ ~ledger[t].inflight
                            /\ records[t].attempt < ledger[t].attempt
    /\ call.at \in {"queue", "dispatch"} => ledger[t].status = "queued"
    /\ call.at \in {"queue", "dispatch", "failed"} =>
          ~Pooled(records[t]) /\ records[t].status # "running"
    /\ call.at = "record" /\ call.flag =>
          records[t].status \in {"canceled", "absent"} /\ ~records[t].active

(* The inductive invariant.                                                *)
ServiceInv ==
    /\ Inv /\ HistoryInv
    /\ ServiceTyped /\ TasksOK /\ SlicesOK /\ CallOK

-----------------------------------------------------------------------------
(* Rows of the ledger.                                                     *)

(* A saved row: only its result is dated back.                             *)
LEMMA RevisedFields ==
    ASSUME NEW l \in LedgerRows, RowOK(l)
    PROVE  LET m == Revised(l) IN
           /\ m \in LedgerRows
           /\ m.status = l.status /\ m.attempt = l.attempt /\ m.inflight = l.inflight
           /\ m.result.status = l.result.status /\ m.result.current = FALSE
           /\ HasResult(m) => m.result.attempt = m.attempt
<1> DEFINE m == Revised(l)
           x == [l.result EXCEPT !.current = FALSE]
<1>1. l.result \in Results
  BY DEF LedgerRows
<1>2. /\ x \in Results /\ x.status = l.result.status /\ x.attempt = l.result.attempt
      /\ x.current = FALSE
  BY <1>1 DEF Results
<1>3. l.result = NoResult => x = NoResult
  <2>1. NoResult \in Results /\ NoResult.current = FALSE
    BY DEF NoResult, Results
  <2> QED BY <1>1, <2>1 DEF Results
<1>4. m = [l EXCEPT !.result = x]
  BY DEF Revised
<1> HIDE DEF m, x
<1>5. /\ m \in LedgerRows /\ m.result = x
      /\ m.status = l.status /\ m.attempt = l.attempt /\ m.inflight = l.inflight
  BY <1>2, <1>4 DEF LedgerRows
<1> QED BY <1>2, <1>3, <1>5 DEF m, RowOK, HasResult

(* What a write may do to a row without a new result: neither finish it    *)
(* nor forget it.                                                          *)
LEMMA WrittenFields ==
    ASSUME NEW l \in LedgerRows, RowOK(l), NEW m \in LedgerRows,
           m.attempt = l.attempt, m.result = Revised(l).result,
           m.status = l.status \/ m.status \notin {"absent", "completed"},
           m.status = "absent" => m.inflight = l.inflight
    PROVE  RowOK(m)
<1>1. /\ Revised(l).status = l.status /\ Revised(l).attempt = l.attempt
      /\ Revised(l).result.status = l.result.status
      /\ Revised(l).result.current = FALSE
      /\ HasResult(Revised(l)) => Revised(l).result.attempt = l.attempt
  BY RevisedFields
<1> DEFINE x == Revised(l).result
<1>2. /\ x.status = l.result.status /\ x.current = FALSE
      /\ x # NoResult => x.attempt = l.attempt
      /\ m.result = x
  BY <1>1 DEF HasResult
<1> HIDE DEF x
<1> QED BY <1>2 DEF RowOK, HasResult

(* A sealed row: what is committed is shown.                               *)
LEMMA SealedFields ==
    ASSUME NEW l \in LedgerRows, RowOK(l), NEW v \in Verdicts
    PROVE  LET m == Sealed(l, v) IN
           /\ m \in LedgerRows
           /\ m.status = IF v = "unverified" THEN "completed" ELSE v
           /\ m.attempt = l.attempt /\ m.inflight = l.inflight
           /\ m.result = [attempt |-> l.attempt, status |-> v, current |-> TRUE]
<1> DEFINE x == [attempt |-> l.attempt, status |-> v, current |-> TRUE]
           s == IF v = "unverified" THEN "completed" ELSE v
           m == Sealed(l, v)
<1>1. x \in Results
  BY DEF LedgerRows, Results
<1>2. s \in LedgerStatuses
  BY DEF LedgerStatuses, Verdicts, OutcomeStatuses
<1>3. m = [l EXCEPT !.status = s, !.result = x]
  BY DEF Sealed
<1> HIDE DEF m, x, s
<1>4. /\ m \in LedgerRows /\ m.result = x /\ m.status = s
      /\ m.attempt = l.attempt /\ m.inflight = l.inflight
  BY <1>1, <1>2, <1>3 DEF LedgerRows
<1> QED BY <1>4 DEF m, x, s

(* A row that carries the current result of its attempt.                   *)
LEMMA SealedOK ==
    ASSUME NEW m \in LedgerRows, NEW v \in Verdicts,
           m.status = IF v = "unverified" THEN "completed" ELSE v,
           m.result = [attempt |-> m.attempt, status |-> v, current |-> TRUE]
    PROVE  RowOK(m)
<1>1. v # "none" /\ v # "absent" /\ m.status # "absent"
  BY DEF Verdicts, OutcomeStatuses
<1>2. m.result.status = v /\ m.result.attempt = m.attempt
  OBVIOUS
<1>3. Shown(m) = v
  BY <1>2 DEF Shown
<1> QED BY <1>1, <1>2, <1>3 DEF RowOK

(* A row for a new attempt.                                                *)
LEMMA ReopenedFields ==
    ASSUME NEW l \in LedgerRows
    PROVE  LET m == Reopened(l) IN
           /\ m \in LedgerRows /\ RowOK(m)
           /\ m.status = "queued" /\ m.attempt = l.attempt + 1 /\ m.inflight = l.inflight
<1> DEFINE m == Reopened(l)
           a == l.attempt + 1
<1>1. a \in Nat /\ NoResult \in Results
  BY DEF LedgerRows, NoResult, Results
<1>2. m = [l EXCEPT !.status = "queued", !.attempt = a, !.cancelReq = FALSE,
                    !.result = NoResult]
  BY DEF Reopened
<1> HIDE DEF m, a
<1>3. /\ m \in LedgerRows /\ m.status = "queued" /\ m.attempt = a
      /\ m.inflight = l.inflight /\ m.result = NoResult
  BY <1>1, <1>2 DEF LedgerRows, LedgerStatuses
<1>4. RowOK(m)
  BY <1>3 DEF RowOK, HasResult
<1> QED BY <1>3, <1>4 DEF m, a

(* The row before the first attempt, and the row of the first attempt.     *)
LEMMA FirstFields ==
    LET m == [NoLedger EXCEPT !.status = "queued", !.attempt = 1] IN
    /\ NoLedger \in LedgerRows /\ RowOK(NoLedger)
    /\ NoLedger.status = "absent" /\ NoLedger.attempt = 0
    /\ m \in LedgerRows /\ RowOK(m)
    /\ m.status = "queued" /\ m.attempt = 1 /\ ~m.inflight
<1>1. NoResult \in Results
  BY DEF NoResult, Results
<1>2. NoLedger \in LedgerRows /\ [NoLedger EXCEPT !.status = "queued", !.attempt = 1] \in LedgerRows
  BY <1>1 DEF NoLedger, LedgerRows, LedgerStatuses
<1>3. RowOK(NoLedger)
  BY DEF NoLedger, RowOK, HasResult
<1> QED BY <1>1, <1>2, <1>3 DEF NoLedger, RowOK, HasResult

-----------------------------------------------------------------------------
(* What the coordinator does to records, as far as the service cares.      *)

(* A record goes on, ends or is forgotten, and does not come to life.      *)
Calm(r, s) ==
    /\ s.attempt <= r.attempt
    /\ s.status = "queued" => r.status = "queued"
    /\ s.status = "running" => r.status = "running"
    /\ Pooled(s) => Pooled(r)
    /\ r.status \in {"canceled", "absent"} /\ ~r.active =>
          s.status \in {"canceled", "absent"} /\ ~s.active

AllCalm == \A u \in Tasks : Calm(records[u], records'[u])

CalmBut(t) == \A u \in Tasks \ {t} : Calm(records[u], records'[u])

(* A record that stays or is forgotten.                                    *)
LEMMA CalmSelf ==
    ASSUME NEW r \in Record
    PROVE  Calm(r, r) /\ Calm(r, Absent)
BY DEF Calm, Record, Absent, Pooled

(* A change of one record.                                                 *)
LEMMA ShapedCalm ==
    ASSUME TypeOK, NEW t \in Tasks, NEW r \in Record, Shaped(With(t, r))
    PROVE  /\ CalmBut(t)
           /\ records'[t] = r \/ (records'[t] = Absent /\ Finished(r))
<1>1. \A u \in Tasks : \/ records'[u] = With(t, r)[u]
                       \/ records'[u] = Absent /\ Finished(With(t, r)[u])
  BY DEF Shaped
<1>2. /\ With(t, r)[t] = r
      /\ \A u \in Tasks : records[u] \in Record /\ (u # t => With(t, r)[u] = records[u])
  BY WithType
<1>3. ASSUME NEW u \in Tasks \ {t} PROVE Calm(records[u], records'[u])
  <2>1. records[u] \in Record /\ (records'[u] = records[u] \/ records'[u] = Absent)
    BY <1>1, <1>2
  <2> QED BY <2>1, CalmSelf
<1> QED BY <1>1, <1>2, <1>3 DEF CalmBut

(* The record may end up forgotten; it is then calm as well.               *)
LEMMA ForgottenCalm ==
    ASSUME NEW o \in Record, NEW r \in Record, Calm(o, r), NEW s,
           s = r \/ s = Absent
    PROVE  Calm(o, s)
BY CalmSelf

(* A change of one record that is calm is calm for all.                    *)
LEMMA CalmStep ==
    ASSUME TypeOK, NEW t \in Tasks, NEW r \in Record, Shaped(With(t, r)),
           Calm(records[t], r)
    PROVE  AllCalm
<1>1. records[t] \in Record
  BY DEF TypeOK
<1>2. Calm(records[t], records'[t])
  BY <1>1, ShapedCalm, ForgottenCalm
<1> QED BY <1>2, ShapedCalm DEF AllCalm, CalmBut

(* _request_cancel, unless the record has settled as canceled before.      *)
LEMMA CanceledCalm ==
    ASSUME NEW r \in Record
    PROVE  /\ Canceled(r) \in Record
           /\ r.status \notin {"canceled", "absent"} \/ r.active => Calm(r, Canceled(r))
<1> DEFINE s == Canceled(r)
<1>1. s \in Record
  BY RecordTypes
<1>2. /\ s.attempt = r.attempt
      /\ \/ s.status = "canceled"
         \/ s.status = r.status /\ s.fut = r.fut
  <2>1. CASE Stoppable(r)
    <3> DEFINE f == IF r.fut = "pending" THEN "canceled" ELSE r.fut
               h == r.handler /\ ~r.fresh
    <3>1. s = [r EXCEPT !.status = "canceled", !.cancelReq = TRUE, !.fut = f,
                        !.handler = h, !.cleanup = FALSE]
      BY <2>1 DEF Canceled
    <3> HIDE DEF s, f, h
    <3> QED BY <3>1 DEF Record
  <2>2. CASE ~Stoppable(r)
    <3>1. s = [r EXCEPT !.cancelReq = TRUE]
      BY <2>2 DEF Canceled
    <3> HIDE DEF s
    <3> QED BY <3>1 DEF Record
  <2> QED BY <2>1, <2>2
<1> HIDE DEF s
<1>3. r.status \notin {"canceled", "absent"} \/ r.active => Calm(r, s)
  BY <1>1, <1>2 DEF Calm, Pooled, Record
<1> QED BY <1>1, <1>3 DEF s

(* AskCancel: canceled at once, or marked.                                 *)
LEMMA CancelCalm ==
    ASSUME Inv, NEW t \in Tasks, Cancel(t)
    PROVE  AllCalm
<1>1. Save(With(t, Canceled(records[t])), t) /\ records[t] \in Record
  BY DEF Cancel, Save, Inv, TypeOK
<1>2. records[t].status \notin {"canceled", "absent"}
  BY DEF Cancel, Exists, TerminalStatuses
<1> QED BY <1>1, <1>2, CanceledCalm, SaveShaped, CalmStep DEF Inv

(* Queue: a deferred submission.                                           *)
LEMMA SubmitMakes ==
    ASSUME Inv, NEW t \in Tasks, NEW q \in Requests, NEW reopen \in BOOLEAN,
           Submit(t, q, reopen, TRUE)
    PROVE  /\ CalmBut(t)
           /\ records'[t].status = "queued" /\ ~Pooled(records'[t])
           /\ records'[t].attempt = records[t].attempt + 1
<1> DEFINE n == NewRecord(t, q)
<1>1. n \in Record /\ n.status = "queued"
  BY NewRecordType
<1>2. n.attempt = records[t].attempt + 1 /\ n.active = FALSE /\ n.fut = "none"
  BY DEF NewRecord, Absent
<1>3. Save(With(t, n), t)
  BY DEF Submit
<1> HIDE DEF n
<1>4. ~Finished(n)
  BY <1>1 DEF Finished, TerminalStatuses
<1>5. CalmBut(t) /\ records'[t] = n
  BY <1>1, <1>3, <1>4, SaveShaped, ShapedCalm DEF Inv
<1> QED BY <1>1, <1>2, <1>5 DEF Pooled

(* QueueDispatch: into the pool, or refused.                               *)
LEMMA DispatchMakes ==
    ASSUME Inv, NEW t \in Tasks, Dispatch(t)
    PROVE  \/ /\ CalmBut(t) /\ queue' # queue
              /\ records'[t].status = "queued" /\ records[t].status = "queued"
              /\ records'[t].attempt = records[t].attempt
           \/ AllCalm /\ queue' = queue
<1> DEFINE r == records[t]
           p == [r EXCEPT !.fut = "pending"]
           f == [r EXCEPT !.status = "failed"]
<1>1. r \in Record /\ r.status = "queued"
  BY DEF Dispatch, Inv, TypeOK
<1>2. \/ /\ records' = With(t, p) /\ disk' = disk
         /\ queue' = Append(queue, <<t, r.attempt>>)
      \/ Save(With(t, f), t) /\ queue' = queue
  <2>1. Failed(records, t) = With(t, f)
    BY DEF Inv, TypeOK, With, Failed
  <2> QED BY <2>1 DEF Dispatch
<1>3. CASE /\ records' = With(t, p) /\ disk' = disk
           /\ queue' = Append(queue, <<t, r.attempt>>)
  <2>1. Shaped(With(t, p))
    BY <1>3, FutureShaped DEF Inv, Futures
  <2>2. queue' # queue
    <3>1. queue \in Seq(Items) /\ <<t, r.attempt>> \in Items
      BY <1>1 DEF Inv, TypeOK, Items, Record
    <3>2. Len(Append(queue, <<t, r.attempt>>)) = Len(queue) + 1 /\ Len(queue) \in Nat
      BY <3>1
    <3> QED BY <1>3, <3>2
  <2> HIDE DEF r
  <2>3. p \in Record /\ p.status = "queued" /\ p.attempt = r.attempt
    BY <1>1 DEF Record, Futures
  <2> HIDE DEF p
  <2>4. ~Finished(p)
    BY <2>3 DEF Finished, TerminalStatuses
  <2>5. CalmBut(t) /\ records'[t] = p
    BY <2>1, <2>3, <2>4, ShapedCalm DEF Inv
  <2> QED BY <1>1, <2>2, <2>3, <2>5 DEF r
<1>4. CASE Save(With(t, f), t) /\ queue' = queue
  <2> HIDE DEF r
  <2>1. /\ f \in Record /\ f.status = "failed" /\ f.attempt = r.attempt
        /\ r.attempt \in Nat
    BY <1>1 DEF Record, WorkflowStatuses
  <2> HIDE DEF f
  <2>2. Calm(r, f)
    BY <1>1, <2>1 DEF Calm, Pooled
  <2> QED BY <1>4, <2>1, <2>2, SaveShaped, CalmStep DEF Inv, r
<1> QED BY <1>2, <1>3, <1>4

(* Take: what the pool picks it had before.                                *)
LEMMA PickCalm ==
    ASSUME Inv, NEW w \in Workers, Pick(w)
    PROVE  AllCalm
<1> DEFINE t == Head(queue)[1]
           f == IF records[t].fut = "pending" THEN "running" ELSE records[t].fut
           r == [records[t] EXCEPT !.fut = f]
<1>1. 1 \in 1..Len(queue) /\ Head(queue) = queue[1] /\ t \in Tasks
  BY DEF Pick, Inv, TypeOK, Items
<1>2. /\ records[t] \in Record /\ records[t].status = "queued"
      /\ records[t].fut = "pending" /\ f \in Futures
  BY <1>1 DEF Inv, TypeOK, QueueInv, QueuedOK, Futures
<1>3. records' = With(t, r) /\ disk' = disk
  BY DEF Pick
<1> HIDE DEF t, f
<1>4. Shaped(With(t, r))
  BY <1>1, <1>2, <1>3, FutureShaped DEF Inv
<1>5. /\ r \in Record /\ r.status = records[t].status
      /\ r.attempt = records[t].attempt /\ records[t].attempt \in Nat
  BY <1>2 DEF Record
<1> HIDE DEF r
<1>6. Calm(records[t], r)
  BY <1>2, <1>5 DEF Calm, Pooled
<1> QED BY <1>1, <1>4, <1>5, <1>6, CalmStep DEF Inv

(* Enter: withdrawn since it was picked, or running.                       *)
LEMMA StartMakes ==
    ASSUME Inv, NEW w \in Workers, Start(w)
    PROVE  LET t == job[w][1] IN
           /\ pc'[w] # "executing" => AllCalm
           /\ pc'[w] = "executing" =>
                 /\ t \in Tasks /\ CalmBut(t) /\ job' = job
                 /\ Pooled(records[t]) /\ records'[t].status = "running"
                 /\ records'[t].attempt = records[t].attempt
           /\ \A v \in Workers \ {w} : pc'[v] = pc[v] /\ job'[v] = job[v]
<1> DEFINE t == job[w][1]
           a == job[w][2]
           r == records[t]
           f == IF r.attempt = a /\ r.fut = "running" THEN "done" ELSE r.fut
           ended == [r EXCEPT !.fut = f]
           begun == [r EXCEPT !.status = "running", !.active = TRUE]
<1>1. pc[w] = "picked" /\ pc \in [Workers -> {"idle", "picked", "executing"}]
  BY DEF Start, Inv, TypeOK
<1>2. t \in Tasks /\ r \in Record
  BY <1>1, OnlyItem
<1>3. r.status = "queued" /\ r.fut = "running" /\ Pooled(r)
  BY <1>1 DEF Inv, WorkersInv, PickedOK, Pooled
<1>4. ~SaveLost(With(t, [begun EXCEPT !.fut = "done"]))
  BY ServiceAssumption DEF SaveLost
<1>5. \/ records' = With(t, ended) /\ disk' = disk /\ Idle(w)
      \/ Save(With(t, begun), t) /\ pc' = [pc EXCEPT ![w] = "executing"] /\ job' = job
  BY <1>4 DEF Start, Save
<1>6. \A v \in Workers \ {w} : pc'[v] = pc[v] /\ job'[v] = job[v]
  BY <1>5 DEF Idle, Inv, TypeOK
<1>7. CASE records' = With(t, ended) /\ disk' = disk /\ Idle(w)
  <2>1. pc'[w] # "executing"
    BY <1>1, <1>7 DEF Idle
  <2>2. f \in Futures
    BY <1>3 DEF Futures
  <2> HIDE DEF f
  <2>3. Shaped(With(t, ended))
    <3> HIDE DEF t
    <3> QED BY <1>2, <1>7, <2>2, FutureShaped DEF Inv
  <2> HIDE DEF r
  <2>4. /\ ended \in Record /\ ended.attempt = r.attempt /\ ended.status = "queued"
        /\ r.attempt \in Nat
    BY <1>2, <1>3, <2>2 DEF Record
  <2> HIDE DEF ended
  <2>5. Calm(r, ended)
    BY <1>3, <2>4 DEF Calm
  <2>6. AllCalm
    <3> HIDE DEF t
    <3> QED BY <1>2, <2>3, <2>4, <2>5, CalmStep DEF Inv, r
  <2> QED BY <1>6, <2>1, <2>6
<1>8. CASE Save(With(t, begun), t) /\ pc' = [pc EXCEPT ![w] = "executing"] /\ job' = job
  <2> HIDE DEF r
  <2>1. begun \in Record /\ begun.status = "running" /\ begun.attempt = r.attempt
    BY <1>2 DEF Record, WorkflowStatuses
  <2> HIDE DEF begun
  <2>2. ~Finished(begun)
    BY <2>1 DEF Finished, TerminalStatuses
  <2>3. CalmBut(t) /\ records'[t] = begun
    <3> HIDE DEF t
    <3> QED BY <1>2, <1>8, <2>1, <2>2, SaveShaped, ShapedCalm DEF Inv
  <2>4. pc'[w] = "executing"
    BY <1>1, <1>8
  <2> QED BY <1>2, <1>3, <1>6, <1>8, <2>1, <2>3, <2>4 DEF r
<1> QED BY <1>5, <1>7, <1>8

(* A record that was executed and has ended.                               *)
LEMMA EndedCalm ==
    ASSUME Inv, NEW t \in Tasks, records[t].status = "running",
           NEW s \in OutcomeStatuses, Save(With(t, Ended(records[t], s)), t)
    PROVE  AllCalm
<1> DEFINE r == records[t]
           e == Ended(r, s)
<1>1. r \in Record /\ s \in WorkflowStatuses /\ s \notin {"queued", "running", "absent"}
  BY DEF Inv, TypeOK, OutcomeStatuses, WorkflowStatuses
<1>2. e \in Record /\ e.attempt = r.attempt
  BY <1>1, EndedFields
<1>3. e.status = s
  <2> DEFINE h == r.handler /\ ~r.fresh
  <2>1. e = [r EXCEPT !.status = s, !.active = FALSE, !.cleanup = FALSE,
                      !.handler = h, !.fut = "done"]
    BY DEF Ended
  <2> HIDE DEF e, h, r
  <2> QED BY <1>1, <2>1 DEF Record
<1>4. r.attempt \in Nat /\ r.status = "running"
  BY <1>1 DEF Record
<1> HIDE DEF e, r
<1>5. Calm(r, e)
  BY <1>1, <1>2, <1>3, <1>4 DEF Calm, Pooled
<1> QED BY <1>2, <1>5, SaveShaped, CalmStep DEF Inv, e, r

(* A settlement of a running record.                                       *)
LEMMA SettleCalm ==
    ASSUME Inv, NEW t \in Tasks, records[t].status = "running",
           NEW s \in OutcomeStatuses, Settle(records[t], t, s)
    PROVE  AllCalm
<1>1. \E z \in OutcomeStatuses : Save(With(t, Ended(records[t], z)), t)
  BY DEF Settle, Save, OutcomeStatuses
<1> QED BY <1>1, EndedCalm

(* Return: the attempt ends, or its next slice is in the pool.             *)
LEMMA YieldMakes ==
    ASSUME Inv, NEW t \in Tasks, records[t].status = "running", Yield(records[t], t)
    PROVE  \/ AllCalm
           \/ /\ CalmBut(t) /\ records'[t].status = "queued"
              /\ records'[t].attempt = records[t].attempt
<1> DEFINE r == records[t]
           next == [r EXCEPT !.status = "queued", !.active = FALSE,
                             !.handler = TRUE, !.cleanup = TRUE, !.fut = "done"]
<1>1. \/ \E s \in OutcomeStatuses : Settle(r, t, s) \/ Save(With(t, Ended(r, s)), t)
      \/ Saved([With(t, next) EXCEPT ![t].fut = "pending"], t)
  BY ServiceAssumption DEF Yield, OutcomeStatuses, Dispatched, RefusalLost
<1>2. (\E s \in OutcomeStatuses : Settle(r, t, s) \/ Save(With(t, Ended(r, s)), t)) => AllCalm
  BY SettleCalm, EndedCalm
<1>3. ASSUME Saved([With(t, next) EXCEPT ![t].fut = "pending"], t)
      PROVE  /\ CalmBut(t) /\ records'[t].status = "queued"
             /\ records'[t].attempt = r.attempt
  <2> DEFINE p == [next EXCEPT !.fut = "pending"]
  <2>1. [With(t, next) EXCEPT ![t].fut = "pending"] = With(t, p)
    BY DEF Inv, TypeOK, With
  <2>2. r \in Record
    BY DEF Inv, TypeOK
  <2> HIDE DEF r
  <2>3. next \in Record /\ next.status = "queued" /\ next.attempt = r.attempt
    BY <2>2 DEF Record, WorkflowStatuses, Futures
  <2>4. Saved(With(t, p), t)
    BY <1>3, <2>1
  <2> HIDE DEF next
  <2>5. p \in Record /\ p.status = "queued" /\ p.attempt = r.attempt
    BY <2>3 DEF Record, Futures
  <2> HIDE DEF p
  <2>6. ~Finished(p)
    BY <2>5 DEF Finished, TerminalStatuses
  <2> QED BY <2>4, <2>5, <2>6, SaveShaped, ShapedCalm DEF Inv, Save
<1> QED BY <1>1, <1>2, <1>3

(* The handler's outcome or exception, taken by the coordinator.           *)
LEMMA AnswerCalm ==
    ASSUME Inv, NEW t \in Tasks, records[t].status = "running",
           \/ \E s \in OutcomeStatuses : Answer(records[t], t, s)
           \/ Raise(records[t], t)
    PROVE  AllCalm
<1>1. CASE Raise(records[t], t)
  BY <1>1, EndedCalm DEF Raise, OutcomeStatuses
<1>2. ASSUME NEW s \in OutcomeStatuses, Answer(records[t], t, s) PROVE AllCalm
  BY <1>2, SettleCalm DEF Answer, OutcomeStatuses
<1> QED BY <1>1, <1>2

(* Stop: everything outstanding is canceled or marked.                     *)
LEMMA ShutdownNowCalm ==
    ASSUME Inv, HistoryInv, ShutdownNow
    PROVE  AllCalm
<1>1. PICK S \in SUBSET OutstandingTasks : \E V : records' = Drop(Swept(S), V)
  BY DEF ShutdownNow, SweepAll, SweepStopsAt
<1>2. ASSUME NEW u \in Tasks PROVE Calm(records[u], records'[u])
  <2> DEFINE s == Swept(S)[u]
  <2>1. records[u] \in Record
    BY DEF Inv, TypeOK
  <2>2. s \in Record /\ Calm(records[u], s)
    <3>1. CASE u \in S
      <4>1. records[u].status \notin {"canceled", "absent"} \/ records[u].active
        BY <3>1 DEF OutstandingTasks, Outstanding, Active
      <4>2. s = Canceled(records[u])
        BY <3>1 DEF Swept
      <4> HIDE DEF s
      <4> QED BY <2>1, <4>1, <4>2, CanceledCalm
    <3>2. CASE u \notin S
      <4>1. s = records[u]
        BY <3>2 DEF Swept
      <4> HIDE DEF s
      <4> QED BY <2>1, <4>1, CalmSelf
    <3> QED BY <3>1, <3>2
  <2>3. records'[u] = s \/ records'[u] = Absent
    BY <1>1 DEF Drop
  <2> HIDE DEF s
  <2> QED BY <2>1, <2>2, <2>3, ForgottenCalm
<1> QED BY <1>2 DEF AllCalm

(* Die: what was live has failed; nothing comes back with a new number.    *)
LEMMA RestartCalm ==
    ASSUME Inv, HistoryInv, Restart
    PROVE  \A u \in Tasks : /\ ~Live(records'[u])
                            /\ records'[u].attempt <= records[u].attempt
<1> SUFFICES ASSUME NEW u \in Tasks
             PROVE  ~Live(records'[u]) /\ records'[u].attempt <= records[u].attempt
  OBVIOUS
<1>1. disk[u] = Stored(records[u]) /\ records[u] \in Record
  BY ServiceAssumption DEF HistoryInv, MirrorIfStored, StoreHolds, DiskMirrorsMemory, Inv, TypeOK
<1>2. disk[u] \in Record /\ disk[u].attempt = records[u].attempt /\ records[u].attempt \in Nat
  BY <1>1, StoredFields DEF Record
<1>3. records'[u] = Loaded(disk[u]) \/ records'[u] = Absent
  BY DEF Restart, Drop
<1>4. /\ Loaded(disk[u]).attempt = disk[u].attempt
      /\ Loaded(disk[u]).status \notin {"queued", "running"}
  <2> DEFINE r == disk[u]
  <2>1. r \in Record
    BY <1>2
  <2> HIDE DEF r
  <2>2. /\ Loaded(r).attempt = r.attempt /\ Loaded(r).status # "queued"
        /\ r.status = "running" => Loaded(r).status = "failed"
    BY <2>1, LoadedFields
  <2>3. Loaded(r).status \in {"failed", r.status}
    BY <2>1 DEF Loaded, Record
  <2> QED BY <2>2, <2>3 DEF r
<1> QED BY <1>2, <1>3, <1>4 DEF Live, InFlight, Absent

-----------------------------------------------------------------------------
(* Every step of the service is one of the coordinator, or leaves it alone.*)

(* Who executes, works for the running attempt of a task, alone.           *)
LEMMA Executors ==
    ASSUME Inv, NEW w \in Workers, pc[w] = "executing"
    PROVE  /\ job[w][1] \in Tasks
           /\ records[job[w][1]].status = "running"
           /\ records[job[w][1]].attempt = job[w][2]
           /\ \A v \in Workers \ {w} : pc[v] = "executing" => job[v][1] # job[w][1]
<1>1. job[w][1] \in Tasks
  BY OnlyItem
<1>2. /\ records[job[w][1]].status = "running"
      /\ records[job[w][1]].attempt = job[w][2]
  BY DEF Inv, WorkersInv, ExecOK
<1> QED BY <1>1, <1>2 DEF Inv, OneItemPerTask

(* The stages of a host's call.                                            *)
LEMMA HostSteps ==
    ASSUME ServiceInv, HostCall
    PROVE  [Next]_vars
<1>1. CASE \E t \in Tasks : AskSubmit(t) \/ AskResume(t) \/ AskCancel(t) \/ Supplement(t)
  BY <1>1 DEF AskSubmit, AskResume, AskCancel, Supplement, Next, Call
<1>2. CASE Queue
  <2>1. call.t \in Tasks /\ call.flag \in BOOLEAN
    BY <1>2 DEF Queue, ServiceInv, ServiceTyped, HostCalls
  <2>2. Request(call.t) \in Requests
    BY <2>1, ServiceAssumption DEF ServiceRequests
  <2> QED BY <1>2, <2>1, <2>2 DEF Queue, Next, Call
<1>3. CASE QueueDispatch
  <2>1. call.t \in Tasks
    BY <1>3 DEF QueueDispatch, ServiceInv, ServiceTyped
  <2> QED BY <1>3, <2>1 DEF QueueDispatch, Next, Call
<1>4. CASE AdmissionFailed \/ RecordCancel
  BY <1>4 DEF AdmissionFailed, RecordCancel
<1>5. CASE Cleanup
  BY <1>5 DEF Cleanup, Next, Call
<1> QED BY <1>1, <1>2, <1>3, <1>4, <1>5 DEF HostCall

(* A handler that comes back is always the current one.                    *)
LEMMA ReturnStep ==
    ASSUME ServiceInv, NEW w \in Workers, Return(w)
    PROVE  /\ Finish(w)
           /\ LET t == job[w][1] IN
              \/ At(w, "yield") /\ Yield(records[t], t)
              \/ \E s \in OutcomeStatuses : Answer(records[t], t, s)
              \/ Raise(records[t], t)
<1>1. pc[w] = "executing" /\ Fits(slice[w], ledger[job[w][1]])
  BY DEF Return, ServiceInv, SlicesOK, SliceOK
<1>2. Mine(w) /\ records[job[w][1]].attempt = job[w][2]
  BY <1>1, Executors DEF Mine, ServiceInv
<1>3. At(w, "answer") => slice[w].want \in OutcomeStatuses
  BY <1>1 DEF At, Fits
<1> QED BY <1>1, <1>2, <1>3 DEF Return, Finish

(* The steps of a handler.                                                 *)
LEMMA HandlerSteps ==
    ASSUME ServiceInv, NEW w \in Workers, Handler(w)
    PROVE  [Next]_vars
<1>1. Take(w) \/ Enter(w) => Next
  BY DEF Take, Enter, Next, Step
<1>2. Return(w) => Next
  BY ReturnStep DEF Next, Step
<1>3. ASSUME \/ CheckInterrupt(w) \/ StartTool(w) \/ EndTool(w) \/ SliceRaises(w)
             \/ ReadEvent(w) \/ Commit(w)
             \/ \E want \in Verdicts \cup {"yielded"} : Decide(w, want)
      PROVE  UNCHANGED vars
  BY <1>3 DEF CheckInterrupt, StartTool, EndTool, SliceRaises, ReadEvent, Commit, Decide
<1> QED BY <1>1, <1>2, <1>3 DEF Handler

(* Every step of the service.                                              *)
LEMMA ServiceSteps ==
    ASSUME ServiceInv, [ServiceNext]_all
    PROVE  [Next]_vars
<1>1. CASE UNCHANGED all
  BY <1>1 DEF all
<1>2. CASE Die \/ Stop
  BY <1>2 DEF Die, Stop, Next
<1> QED BY <1>1, <1>2, HostSteps, HandlerSteps DEF ServiceNext

(* The coordinator's invariants go along.                                  *)
LEMMA CoordinatorKept ==
    ASSUME ServiceInv, [ServiceNext]_all
    PROVE  Inv' /\ HistoryInv'
BY ServiceSteps, InvInductive, HistoryStep DEF ServiceInv

-----------------------------------------------------------------------------
(* What a step leaves alone.                                               *)

(* The task's row is as it was, and its record did not come to life.       *)
LEMMA TaskKept ==
    ASSUME ServiceInv, Inv', NEW t \in Tasks, Calm(records[t], records'[t]),
           ledger'[t] = ledger[t], sessions'[t].attempt = sessions[t].attempt,
           t \in unknown' => t \in unknown
    PROVE  TaskOK(t)'
<1>1. TaskOK(t)
  BY DEF ServiceInv, TasksOK
<1>2. /\ records[t].attempt \in Nat /\ records'[t].attempt \in Nat
      /\ ledger[t].attempt \in Nat
  BY DEF ServiceInv, ServiceTyped, Inv, TypeOK, Record, LedgerRows
<1>3. RowOK(ledger'[t])
  BY <1>1 DEF TaskOK
<1>4. Live(records'[t]) => Live(records[t])
  BY DEF Calm, Live, InFlight
<1>5. records'[t].attempt <= ledger'[t].attempt
  BY <1>1, <1>2 DEF TaskOK, Calm
<1> QED BY <1>1, <1>3, <1>4, <1>5 DEF TaskOK, Calm

(* The handler stays where it is, and its row still fits it.               *)
LEMMA SliceKept ==
    ASSUME ServiceInv, NEW w \in Workers, slice'[w] = slice[w],
           pc'[w] = "executing" <=> pc[w] = "executing",
           pc[w] = "executing" =>
              /\ job'[w] = job[w]
              /\ \/ ledger'[job[w][1]] = ledger[job[w][1]]
                 \/ /\ ledger[job[w][1]].status \in InFlight =>
                          ledger'[job[w][1]].status \in InFlight
                    /\ ledger'[job[w][1]].inflight = ledger[job[w][1]].inflight
              /\ job[w][1] \in unknown' => job[w][1] \in unknown
    PROVE  SliceOK(w)'
<1>1. SliceOK(w)
  BY DEF ServiceInv, SlicesOK
<1>2. CASE pc[w] # "executing"
  BY <1>1, <1>2 DEF SliceOK
<1>3. CASE pc[w] = "executing"
  <2>1. Fits(slice[w], ledger[job[w][1]]) /\ slice[w].at # "out"
    BY <1>1, <1>3 DEF SliceOK
  <2>2. Fits(slice[w], ledger'[job[w][1]])
    BY <1>3, <2>1 DEF Fits
  <2> QED BY <1>1, <1>3, <2>1, <2>2 DEF SliceOK
<1> QED BY <1>2, <1>3

(* The call waits, and nothing it waits with has moved.                    *)
LEMMA CallKept ==
    ASSUME ServiceInv, Inv', call' = call,
           call.at # "free" => ledger' = ledger /\ Calm(records[call.t], records'[call.t])
    PROVE  CallOK'
<1>1. CASE call.at = "free"
  BY <1>1 DEF CallOK
<1>2. CASE call.at # "free"
  <2>1. call.t \in Tasks
    BY <1>2 DEF ServiceInv, ServiceTyped
  <2>2. /\ records[call.t].attempt \in Nat /\ records'[call.t].attempt \in Nat
        /\ ledger[call.t].attempt \in Nat
    BY <2>1 DEF ServiceInv, ServiceTyped, Inv, TypeOK, Record, LedgerRows
  <2>3. CallOK /\ Calm(records[call.t], records'[call.t]) /\ ledger' = ledger
    BY <1>2 DEF ServiceInv
  <2>4. Live(records'[call.t]) => Live(records[call.t])
    BY <2>3 DEF Calm, Live, InFlight
  <2>5. records[call.t].attempt < ledger[call.t].attempt =>
           records'[call.t].attempt < ledger[call.t].attempt
    BY <2>2, <2>3 DEF Calm
  <2> QED BY <2>3, <2>4, <2>5 DEF CallOK, Calm
<1> QED BY <1>1, <1>2

(* Steps that leave the records, the ledger and the handlers to themselves.*)
LEMMA StillCalm ==
    ASSUME ServiceInv, records' = records
    PROVE  AllCalm
<1>1. \A u \in Tasks : records[u] \in Record
  BY DEF ServiceInv, Inv, TypeOK
<1> QED BY <1>1, CalmSelf DEF AllCalm

(* Nothing was written and no record came to life.                         *)
LEMMA TasksKept ==
    ASSUME ServiceInv, Inv', AllCalm, ledger' = ledger, unknown' = unknown,
           \A u \in Tasks : sessions'[u].attempt = sessions[u].attempt
    PROVE  TasksOK'
BY TaskKept DEF AllCalm, TasksOK

(* No handler and no row has moved.                                        *)
LEMMA SlicesKept ==
    ASSUME ServiceInv, slice' = slice, pc' = pc, job' = job, ledger' = ledger,
           unknown' = unknown
    PROVE  SlicesOK'
BY SliceKept DEF SlicesOK

-----------------------------------------------------------------------------
(* The stages of a host's call that write the ledger.                      *)

(* A host's call writes m over the row of t: what m has to be for the      *)
(* record and the handlers of t to fit it.                                 *)
LEMMA HostRow ==
    ASSUME ServiceInv, Inv', NEW t \in Tasks, NEW m \in LedgerRows, RowOK(m),
           UNCHANGED <<vars, sessions, slice, unknown>>,
           ledger' = [ledger EXCEPT ![t] = m],
           records[t].attempt <= m.attempt,
           Live(records[t]) => m.attempt = ledger[t].attempt /\ m.status # "absent",
           Pooled(records[t]) => m.status \in InFlight,
           records[t].status = "running" =>
              /\ ledger[t].status \in InFlight => m.status \in InFlight
              /\ m.inflight = ledger[t].inflight,
           t \in unknown => m.inflight
    PROVE  ledger' \in [Tasks -> LedgerRows] /\ TasksOK' /\ SlicesOK'
<1>1. /\ ledger' \in [Tasks -> LedgerRows] /\ ledger'[t] = m
      /\ \A u \in Tasks \ {t} : ledger'[u] = ledger[u]
  BY DEF ServiceInv, ServiceTyped
<1>2. /\ records' = records /\ pc' = pc /\ job' = job
      /\ sessions' = sessions /\ slice' = slice /\ unknown' = unknown
  BY DEF vars
<1>3. AllCalm
  BY <1>2, StillCalm
<1>4. ASSUME NEW u \in Tasks PROVE TaskOK(u)'
  <2>1. CASE u # t
    BY <1>1, <1>2, <1>3, <2>1, TaskKept DEF AllCalm
  <2>2. CASE u = t
    <3>1. TaskOK(t)
      BY DEF ServiceInv, TasksOK
    <3> QED BY <1>1, <1>2, <2>2, <3>1 DEF TaskOK
  <2> QED BY <2>1, <2>2
<1>5. ASSUME NEW w \in Workers PROVE SliceOK(w)'
  <2>1. pc[w] = "executing" =>
           job[w][1] \in Tasks /\ records[job[w][1]].status = "running"
    BY Executors DEF ServiceInv
  <2>2. pc[w] = "executing" =>
           \/ ledger'[job[w][1]] = ledger[job[w][1]]
           \/ /\ ledger[job[w][1]].status \in InFlight =>
                       ledger'[job[w][1]].status \in InFlight
              /\ ledger'[job[w][1]].inflight = ledger[job[w][1]].inflight
    BY <1>1, <2>1
  <2> QED BY <1>2, <2>2, SliceKept
<1> QED BY <1>1, <1>4, <1>5 DEF TasksOK, SlicesOK

(* What every step has to show.                                            *)
Kept == ServiceTyped /\ TasksOK /\ SlicesOK /\ CallOK

(* What is known of every row.                                             *)
LEMMA RowFacts ==
    ASSUME ServiceInv, NEW t \in Tasks
    PROVE  /\ ledger[t] \in LedgerRows /\ RowOK(ledger[t])
           /\ ledger[t].attempt \in Nat /\ records[t].attempt \in Nat
           /\ ledger[t].inflight \in BOOLEAN
           /\ records[t].attempt <= ledger[t].attempt
BY DEF ServiceInv, ServiceTyped, LedgerRows, TasksOK, TaskOK, Inv, TypeOK, Record

(* submit: a first row for a task nobody knows.                            *)
LEMMA AskSubmitKept ==
    ASSUME ServiceInv, Inv', NEW t \in Tasks, AskSubmit(t)
    PROVE  Kept'
<1> DEFINE m == [NoLedger EXCEPT !.status = "queued", !.attempt = 1]
<1>1. ledger[t].status = "absent" /\ ledger' = [ledger EXCEPT ![t] = m]
  BY DEF AskSubmit
<1>2. /\ call' = [op |-> "submit", t |-> t, at |-> "queue", flag |-> FALSE]
      /\ UNCHANGED <<vars, sessions, slice, unknown>>
  BY DEF AskSubmit
<1>3. m \in LedgerRows /\ RowOK(m) /\ m.status = "queued" /\ m.attempt = 1 /\ ~m.inflight
  BY FirstFields
<1> HIDE DEF m
<1>4. ~Live(records[t]) /\ ~Pooled(records[t]) /\ records[t].attempt = 0 /\ t \notin unknown
  <2>1. TaskOK(t)
    BY DEF ServiceInv, TasksOK
  <2>2. ledger[t].attempt = 0 /\ ~ledger[t].inflight
    BY <1>1, <2>1 DEF TaskOK, RowOK
  <2> QED BY <1>1, <2>1, <2>2, RowFacts DEF TaskOK, Live, Pooled, InFlight
<1>5. ledger' \in [Tasks -> LedgerRows] /\ TasksOK' /\ SlicesOK'
  <2>1. records[t].attempt <= m.attempt /\ records[t].status # "running"
    BY <1>3, <1>4 DEF Live, InFlight
  <2> QED BY <1>1, <1>2, <1>3, <1>4, <2>1, HostRow
<1>6. call' \in HostCalls /\ call'.t = t /\ call'.at = "queue"
  BY <1>2 DEF HostCalls
<1>7. ledger'[t] = m /\ records' = records
  BY <1>1, <1>2 DEF vars, ServiceInv, ServiceTyped
<1>8. CallOK'
  BY <1>3, <1>4, <1>6, <1>7 DEF CallOK, Live, InFlight
<1>9. ServiceTyped'
  BY <1>2, <1>5, <1>6 DEF ServiceInv, ServiceTyped
<1> QED BY <1>5, <1>8, <1>9 DEF Kept

(* resume: a new attempt for a task nobody works for.                      *)
LEMMA AskResumeKept ==
    ASSUME ServiceInv, Inv', NEW t \in Tasks, AskResume(t)
    PROVE  Kept'
<1> DEFINE m == Reopened(ledger[t])
<1>1. ledger' = [ledger EXCEPT ![t] = m] /\ ResumeAllowed(t)
  BY DEF AskResume
<1>2. /\ call' = [op |-> "resume", t |-> t, at |-> "queue", flag |-> Exists(records[t])]
      /\ UNCHANGED <<vars, sessions, slice, unknown>>
  BY DEF AskResume
<1>3. /\ m \in LedgerRows /\ RowOK(m) /\ m.status = "queued"
      /\ m.attempt = ledger[t].attempt + 1 /\ m.inflight = ledger[t].inflight
  BY RowFacts, ReopenedFields
<1> HIDE DEF m
<1>4. ~Live(records[t]) /\ ~Pooled(records[t]) /\ records[t].status # "running"
  BY <1>1 DEF ResumeAllowed, Busy, Exists, Live, Pooled, InFlight
<1>5. ~ledger[t].inflight
  BY <1>1 DEF ResumeAllowed, Continuable, Checkpointed
<1>6. t \notin unknown
  BY <1>5 DEF ServiceInv, TasksOK, TaskOK
<1>7. records[t].attempt < m.attempt
  BY <1>3, RowFacts
<1>8. ledger' \in [Tasks -> LedgerRows] /\ TasksOK' /\ SlicesOK'
  <2>1. records[t].attempt <= m.attempt
    BY <1>3, RowFacts
  <2> QED BY <1>1, <1>2, <1>3, <1>4, <1>6, <2>1, HostRow
<1>9. call' \in HostCalls /\ call'.t = t /\ call'.at = "queue"
  BY <1>2 DEF HostCalls, Exists
<1>10. ledger'[t] = m /\ records' = records
  BY <1>1, <1>2 DEF vars, ServiceInv, ServiceTyped
<1>11. CallOK'
  BY <1>3, <1>4, <1>5, <1>7, <1>9, <1>10 DEF CallOK
<1>12. ServiceTyped'
  BY <1>2, <1>8, <1>9 DEF ServiceInv, ServiceTyped
<1> QED BY <1>8, <1>11, <1>12 DEF Kept

(* AdmissionFailed: what the pool refused is blocked, its number spent.    *)
LEMMA AdmissionFailedKept ==
    ASSUME ServiceInv, Inv', AdmissionFailed
    PROVE  Kept'
<1> DEFINE t == call.t
           l == ledger[t]
           m == [Revised(l) EXCEPT !.status = "blocked"]
<1>1. /\ call.at = "failed" /\ call' = Free
      /\ ledger' = [ledger EXCEPT ![t] = m]
      /\ UNCHANGED <<vars, sessions, slice, unknown>>
  BY DEF AdmissionFailed
<1>2. t \in Tasks
  BY <1>1 DEF ServiceInv, ServiceTyped
<1>3. ~Pooled(records[t]) /\ records[t].status # "running"
  BY <1>1 DEF ServiceInv, CallOK
<1>4. l \in LedgerRows /\ RowOK(l)
  BY <1>2, RowFacts
<1> HIDE DEF l
<1>5. /\ m \in LedgerRows /\ m.status = "blocked" /\ m.attempt = l.attempt
      /\ m.inflight = l.inflight /\ m.result = Revised(l).result
  <2> DEFINE x == Revised(l)
  <2>1. x \in LedgerRows /\ x.attempt = l.attempt /\ x.inflight = l.inflight
    BY <1>4, RevisedFields
  <2> HIDE DEF x
  <2>2. LET y == [x EXCEPT !.status = "blocked"]
        IN  /\ y \in LedgerRows /\ y.status = "blocked" /\ y.attempt = x.attempt
            /\ y.inflight = x.inflight /\ y.result = x.result
    BY <2>1 DEF LedgerRows, LedgerStatuses, Verdicts, OutcomeStatuses
  <2> QED BY <2>1, <2>2 DEF x
<1> HIDE DEF m
<1>6. RowOK(m)
  BY <1>4, <1>5, WrittenFields
<1>7. t \in unknown => m.inflight
  BY <1>2, <1>5 DEF ServiceInv, TasksOK, TaskOK, l
<1>8. records[t].attempt <= m.attempt
  BY <1>2, <1>5, RowFacts DEF l
<1>9. ledger' \in [Tasks -> LedgerRows] /\ TasksOK' /\ SlicesOK'
  <2> HIDE DEF t
  <2> QED BY <1>1, <1>2, <1>3, <1>5, <1>6, <1>7, <1>8, HostRow DEF l
<1>10. call' \in HostCalls /\ call'.at = "free"
  BY <1>1 DEF Free, HostCalls
<1>11. CallOK'
  BY <1>10 DEF CallOK
<1>12. ServiceTyped'
  BY <1>1, <1>9, <1>10 DEF ServiceInv, ServiceTyped
<1> QED BY <1>9, <1>11, <1>12 DEF Kept

(* Supplement: the task is not running, and keeps its attempt.             *)
LEMMA SupplementKept ==
    ASSUME ServiceInv, Inv', NEW t \in Tasks, Supplement(t)
    PROVE  Kept'
<1> DEFINE l == ledger[t]
           s == IF l.status = "completed" THEN "partial" ELSE l.status
           m == [Revised(l) EXCEPT !.status = s]
<1>1. l \in LedgerRows /\ RowOK(l)
  BY RowFacts
<1>2. /\ ~Busy(t) /\ call' = call /\ UNCHANGED <<vars, sessions, slice, unknown>>
      /\ l.status \in Resumable \cup {"completed"}
  BY DEF Supplement
<1>3. ledger' = [ledger EXCEPT ![t] = m]
  BY DEF Supplement
<1>4. call.at = "free"
  BY DEF Supplement, Free
<1>5. ~Live(records[t]) /\ ~Pooled(records[t]) /\ records[t].status # "running"
  BY <1>2 DEF Busy, Exists, Live, Pooled, InFlight
<1> HIDE DEF l
<1>6. s \in LedgerStatuses \ {"absent", "completed"}
  BY <1>2 DEF Resumable, LedgerStatuses, Verdicts, OutcomeStatuses
<1> HIDE DEF s
<1>7. /\ m \in LedgerRows /\ m.status = s /\ m.attempt = l.attempt
      /\ m.inflight = l.inflight /\ m.result = Revised(l).result
  <2> DEFINE x == Revised(l)
  <2>1. x \in LedgerRows /\ x.attempt = l.attempt /\ x.inflight = l.inflight
    BY <1>1, RevisedFields
  <2> HIDE DEF x
  <2>2. LET y == [x EXCEPT !.status = s]
        IN  /\ y \in LedgerRows /\ y.status = s /\ y.attempt = x.attempt
            /\ y.inflight = x.inflight /\ y.result = x.result
    BY <1>6, <2>1 DEF LedgerRows
  <2> QED BY <2>1, <2>2 DEF x
<1> HIDE DEF m
<1>8. RowOK(m)
  BY <1>1, <1>6, <1>7, WrittenFields
<1>9. t \in unknown => m.inflight
  BY <1>7 DEF ServiceInv, TasksOK, TaskOK, l
<1>10. records[t].attempt <= m.attempt
  BY <1>7, RowFacts DEF l
<1>11. ledger' \in [Tasks -> LedgerRows] /\ TasksOK' /\ SlicesOK'
  BY <1>2, <1>3, <1>5, <1>7, <1>8, <1>9, <1>10, HostRow
<1>12. CallOK'
  BY <1>2, <1>4, CallKept
<1>13. ServiceTyped'
  BY <1>2, <1>11 DEF ServiceInv, ServiceTyped
<1> QED BY <1>11, <1>12, <1>13 DEF Kept

(* RecordCancel: a canceled result only for a record that has stopped.     *)
LEMMA RecordCancelKept ==
    ASSUME ServiceInv, Inv', RecordCancel
    PROVE  Kept'
<1> DEFINE t == call.t
           l == ledger[t]
           x == IF call.flag THEN Sealed(l, "canceled") ELSE Revised(l)
           m == [x EXCEPT !.cancelReq = TRUE]
<1>1. /\ call.at = "record" /\ call' = Free
      /\ ledger' = [ledger EXCEPT ![t] = m]
      /\ UNCHANGED <<vars, sessions, slice, unknown>>
  BY DEF RecordCancel
<1>2. t \in Tasks /\ call.flag \in BOOLEAN
  BY <1>1 DEF ServiceInv, ServiceTyped, HostCalls
<1>3. call.flag => records[t].status \in {"canceled", "absent"}
  BY <1>1 DEF ServiceInv, CallOK
<1>4. l \in LedgerRows /\ RowOK(l) /\ "canceled" \in Verdicts
  BY <1>2, RowFacts DEF Verdicts, OutcomeStatuses
<1>5. TaskOK(t)
  BY <1>2 DEF ServiceInv, TasksOK
<1> HIDE DEF l
<1>6. /\ x \in LedgerRows /\ x.attempt = l.attempt /\ x.inflight = l.inflight
      /\ call.flag => /\ x.status = "canceled"
                      /\ x.result = [attempt |-> l.attempt, status |-> "canceled",
                                     current |-> TRUE]
      /\ ~call.flag => x.status = l.status /\ x.result = Revised(l).result
  <2>1. CASE call.flag
    <3>1. x = Sealed(l, "canceled")
      BY <2>1
    <3> HIDE DEF x
    <3> QED BY <1>4, <2>1, <3>1, SealedFields
  <2>2. CASE ~call.flag
    <3>1. x = Revised(l)
      BY <2>2
    <3> HIDE DEF x
    <3> QED BY <1>4, <2>2, <3>1, RevisedFields
  <2> QED BY <1>2, <2>1, <2>2
<1> HIDE DEF x
<1>7. /\ m \in LedgerRows /\ m.attempt = x.attempt /\ m.inflight = x.inflight
      /\ m.status = x.status /\ m.result = x.result
  BY <1>6 DEF LedgerRows
<1> HIDE DEF m
<1>8. RowOK(m)
  <2>1. CASE call.flag
    BY <1>4, <1>6, <1>7, <2>1, SealedOK
  <2>2. CASE ~call.flag
    BY <1>4, <1>6, <1>7, <2>2, WrittenFields
  <2> QED BY <2>1, <2>2
<1>9. /\ t \in unknown => m.inflight
      /\ records[t].attempt <= m.attempt
      /\ Live(records[t]) => m.attempt = ledger[t].attempt /\ m.status # "absent"
      /\ Pooled(records[t]) => m.status \in InFlight
      /\ records[t].status = "running" =>
            /\ ledger[t].status \in InFlight => m.status \in InFlight
            /\ m.inflight = ledger[t].inflight
  <2>1. CASE call.flag
    BY <1>3, <1>5, <1>6, <1>7, <2>1 DEF TaskOK, Live, Pooled, InFlight, l
  <2>2. CASE ~call.flag
    BY <1>5, <1>6, <1>7, <2>2 DEF TaskOK, l
  <2> QED BY <2>1, <2>2
<1>10. ledger' \in [Tasks -> LedgerRows] /\ TasksOK' /\ SlicesOK'
  <2> HIDE DEF t
  <2> QED BY <1>1, <1>2, <1>7, <1>8, <1>9, HostRow
<1>11. call' \in HostCalls /\ call'.at = "free"
  BY <1>1 DEF Free, HostCalls
<1>12. CallOK'
  BY <1>11 DEF CallOK
<1>13. ServiceTyped'
  BY <1>1, <1>10, <1>11 DEF ServiceInv, ServiceTyped
<1> QED BY <1>10, <1>12, <1>13 DEF Kept

-----------------------------------------------------------------------------
(* The stages of a host's call that call the coordinator.                  *)

(* cancel: the record is canceled or marked; the row follows later.        *)
LEMMA AskCancelKept ==
    ASSUME ServiceInv, Inv', NEW t \in Tasks, AskCancel(t)
    PROVE  Kept'
<1> DEFINE flag == records'[t].status = "canceled" /\ ~records'[t].active
<1>1. /\ Cancel(t) /\ UNCHANGED <<ledger, sessions, slice, unknown>>
      /\ call' = [op |-> "cancel", t |-> t, at |-> "record", flag |-> flag]
  BY DEF AskCancel
<1>2. AllCalm /\ pc' = pc /\ job' = job
  BY <1>1, CancelCalm DEF ServiceInv, Cancel
<1>3. TasksOK' /\ SlicesOK'
  BY <1>1, <1>2, TasksKept, SlicesKept
<1>4. flag \in BOOLEAN
  OBVIOUS
<1>5. flag => records'[t].status = "canceled" /\ ~records'[t].active
  OBVIOUS
<1> HIDE DEF flag
<1>6. /\ call' \in HostCalls /\ call'.t = t /\ call'.at = "record"
      /\ call'.flag = flag
  BY <1>1, <1>4 DEF HostCalls
<1>7. CallOK'
  BY <1>5, <1>6 DEF CallOK
<1>8. ServiceTyped'
  BY <1>1, <1>6 DEF ServiceInv, ServiceTyped
<1> QED BY <1>3, <1>7, <1>8 DEF Kept

(* Queue: the session of the row's attempt, then the submission.           *)
LEMMA QueueKept ==
    ASSUME ServiceInv, Inv', Queue
    PROVE  Kept'
<1> DEFINE t == call.t
           new == [attempt |-> ledger[t].attempt,
                   recheck |-> Recovery /\ call.op = "resume"]
<1>1. /\ call.at = "queue" /\ UNCHANGED <<ledger, slice, unknown>>
      /\ sessions' = [sessions EXCEPT ![t] = new]
  BY DEF Queue
<1>2. t \in Tasks /\ call.flag \in BOOLEAN /\ call \in HostCalls
  BY <1>1 DEF ServiceInv, ServiceTyped, HostCalls
<1>3. /\ ~Live(records[t]) /\ ~ledger[t].inflight /\ ledger[t].status = "queued"
      /\ records[t].attempt < ledger[t].attempt
      /\ ~Pooled(records[t]) /\ records[t].status # "running"
  BY <1>1 DEF ServiceInv, CallOK
<1>4. /\ ledger[t].attempt \in Nat /\ records[t].attempt \in Nat
      /\ RowOK(ledger[t])
  BY <1>2, RowFacts
<1>5. t \notin unknown
  BY <1>2, <1>3 DEF ServiceInv, TasksOK, TaskOK
<1>6. /\ sessions' \in [Tasks -> SessionRows]
      /\ sessions'[t].attempt = ledger[t].attempt
      /\ \A u \in Tasks \ {t} : sessions'[u] = sessions[u]
  <2>1. new \in SessionRows /\ new.attempt = ledger[t].attempt
    BY <1>4, ServiceAssumption DEF SessionRows
  <2> HIDE DEF new, t
  <2> QED BY <1>1, <1>2, <2>1 DEF ServiceInv, ServiceTyped
<1>7. \/ /\ Submit(t, Request(t), call.flag, TRUE)
         /\ call' = [call EXCEPT !.at = "dispatch"]
      \/ call' = [call EXCEPT !.at = "failed"] /\ UNCHANGED vars
  BY DEF Queue
<1>8. /\ call' \in HostCalls /\ call'.t = t
      /\ call'.at = "dispatch" \/ call'.at = "failed"
  BY <1>2, <1>7 DEF HostCalls
<1>9. ServiceTyped'
  BY <1>1, <1>2, <1>6, <1>8 DEF ServiceInv, ServiceTyped
<1>10. CASE /\ Submit(t, Request(t), call.flag, TRUE)
            /\ call' = [call EXCEPT !.at = "dispatch"]
  <2>1. Request(t) \in Requests
    BY <1>2, ServiceAssumption DEF ServiceRequests
  <2>2. /\ CalmBut(t)
        /\ records'[t].status = "queued" /\ ~Pooled(records'[t])
        /\ records'[t].attempt = records[t].attempt + 1
    <3> HIDE DEF t
    <3> QED BY <1>2, <1>10, <2>1, SubmitMakes DEF ServiceInv
  <2>3. pc' = pc /\ job' = job
    BY <1>10 DEF Submit
  <2>4. ASSUME NEW u \in Tasks PROVE TaskOK(u)'
    <3>1. CASE u # t
      <4> HIDE DEF t
      <4> QED BY <1>1, <1>6, <2>2, <3>1, TaskKept DEF CalmBut
    <3>2. CASE u = t
      <4>1. records'[t].attempt <= ledger'[t].attempt
        BY <1>1, <1>3, <1>4, <2>2
      <4>2. RowOK(ledger'[t]) /\ t \notin unknown' /\ ledger'[t].status = "queued"
        BY <1>1, <1>3, <1>4, <1>5
      <4> HIDE DEF t
      <4> QED BY <1>1, <1>6, <2>2, <3>2, <4>1, <4>2 DEF TaskOK, InFlight
    <3> QED BY <3>1, <3>2
  <2>5. SlicesOK'
    BY <1>1, <2>3, SlicesKept
  <2>6. call'.at = "dispatch"
    BY <1>2, <1>10 DEF HostCalls
  <2>7. CallOK'
    BY <1>1, <1>3, <1>8, <2>2, <2>6 DEF CallOK
  <2> QED BY <1>9, <2>4, <2>5, <2>7 DEF Kept, TasksOK
<1>11. CASE call' = [call EXCEPT !.at = "failed"] /\ UNCHANGED vars
  <2>1. records' = records /\ pc' = pc /\ job' = job
    BY <1>11 DEF vars
  <2>2. AllCalm
    BY <2>1, StillCalm
  <2>3. ASSUME NEW u \in Tasks PROVE TaskOK(u)'
    <3>1. CASE u # t
      <4> HIDE DEF t
      <4> QED BY <1>1, <1>6, <2>2, <3>1, TaskKept DEF AllCalm
    <3>2. CASE u = t
      <4>1. TaskOK(t)
        BY <1>2 DEF ServiceInv, TasksOK
      <4> HIDE DEF t
      <4> QED BY <1>1, <1>3, <1>5, <2>1, <3>2, <4>1 DEF TaskOK
    <3> QED BY <3>1, <3>2
  <2>4. SlicesOK'
    BY <1>1, <2>1, SlicesKept
  <2>5. call'.at = "failed"
    BY <1>2, <1>11 DEF HostCalls
  <2>6. CallOK'
    BY <1>3, <1>8, <2>1, <2>5 DEF CallOK
  <2> QED BY <1>9, <2>3, <2>4, <2>6 DEF Kept, TasksOK
<1> QED BY <1>7, <1>10, <1>11

(* dispatch: the record goes to the pool, its row is queued.               *)
LEMMA QueueDispatchKept ==
    ASSUME ServiceInv, Inv', QueueDispatch
    PROVE  Kept'
<1> DEFINE t == call.t
<1>1. /\ call.at = "dispatch" /\ UNCHANGED <<ledger, sessions, slice, unknown>>
      /\ \/ Dispatch(t) /\ call' = IF queue' # queue THEN Free ELSE [call EXCEPT !.at = "failed"]
         \/ call' = [call EXCEPT !.at = "failed"] /\ UNCHANGED vars
  BY DEF QueueDispatch
<1>2. t \in Tasks /\ call \in HostCalls
  BY <1>1 DEF ServiceInv, ServiceTyped
<1>3. TaskOK(t) /\ ledger[t].status = "queued"
  BY <1>1, <1>2 DEF ServiceInv, CallOK, TasksOK
<1>4. /\ ~Pooled(records[t]) /\ records[t].status # "running"
  BY <1>1 DEF ServiceInv, CallOK
<1>5. pc' = pc /\ job' = job
  BY <1>1 DEF Dispatch, vars
<1>6. SlicesOK'
  BY <1>1, <1>5, SlicesKept
<1>7. /\ call' = [call EXCEPT !.at = "failed"] =>
            call' \in HostCalls /\ call'.t = t /\ call'.at = "failed"
      /\ call' = Free => call' \in HostCalls /\ call'.at = "free"
  <2>1. LET c == [call EXCEPT !.at = "failed"]
        IN  c \in HostCalls /\ c.t = t /\ c.at = "failed"
    BY <1>2 DEF HostCalls
  <2>2. Free \in HostCalls /\ Free.at = "free"
    BY DEF HostCalls, Free
  <2> QED BY <2>1, <2>2
<1>8. ServiceTyped'
  <2>1. call' \in HostCalls /\ (call'.at # "free" => call'.t = t)
    BY <1>1, <1>7
  <2> QED BY <1>1, <1>2, <2>1 DEF ServiceInv, ServiceTyped
<1>9. CASE AllCalm /\ call' = [call EXCEPT !.at = "failed"]
  <2>1. TasksOK'
    BY <1>1, <1>9, TasksKept
  <2>2. Calm(records[t], records'[t])
    BY <1>2, <1>9 DEF AllCalm
  <2>3. CallOK'
    BY <1>4, <1>7, <1>9, <2>2 DEF CallOK, Calm
  <2> QED BY <1>6, <1>8, <2>1, <2>3 DEF Kept
<1>10. CASE /\ Dispatch(t) /\ queue' # queue /\ call' = Free /\ CalmBut(t)
            /\ records'[t].status = "queued" /\ records[t].status = "queued"
            /\ records'[t].attempt = records[t].attempt
  <2>1. ASSUME NEW u \in Tasks PROVE TaskOK(u)'
    <3>1. CASE u # t
      <4> HIDE DEF t
      <4> QED BY <1>1, <1>10, <3>1, TaskKept DEF CalmBut
    <3>2. CASE u = t
      <4>1. ledger'[t].status \in InFlight
        BY <1>1, <1>3 DEF InFlight
      <4> HIDE DEF t
      <4> QED BY <1>1, <1>3, <1>10, <3>2, <4>1 DEF TaskOK, Live, InFlight
    <3> QED BY <3>1, <3>2
  <2>2. CallOK'
    BY <1>7, <1>10 DEF CallOK
  <2> QED BY <1>6, <1>8, <2>1, <2>2 DEF Kept, TasksOK
<1>11. CASE UNCHANGED vars /\ call' = [call EXCEPT !.at = "failed"]
  BY <1>9, <1>11, StillCalm DEF vars
<1>12. CASE Dispatch(t) /\ call' = IF queue' # queue THEN Free ELSE [call EXCEPT !.at = "failed"]
  <2>1. \/ /\ CalmBut(t) /\ queue' # queue
           /\ records'[t].status = "queued" /\ records[t].status = "queued"
           /\ records'[t].attempt = records[t].attempt
        \/ AllCalm /\ queue' = queue
    <3> HIDE DEF t
    <3> QED BY <1>2, <1>12, DispatchMakes DEF ServiceInv
  <2> QED BY <1>9, <1>10, <1>12, <2>1
<1> QED BY <1>1, <1>11, <1>12

-----------------------------------------------------------------------------
(* The handler's own steps.                                                *)

(* A handler that works moves to s and leaves its row as m.                *)
LEMMA HandlerRow ==
    ASSUME ServiceInv, Inv', NEW w \in Workers,
           slice[w].at \notin {"out", "raise"},
           NEW s \in Slices, s.at # "out", slice' = [slice EXCEPT ![w] = s],
           NEW m \in LedgerRows, ledger' = [ledger EXCEPT ![job[w][1]] = m],
           RowOK(m), m.attempt = ledger[job[w][1]].attempt, m.status # "absent",
           Fits(s, m),
           \/ unknown' = unknown
           \/ unknown' = unknown \cup {job[w][1]} /\ s.at = "raise" /\ m.inflight,
           m = ledger[job[w][1]] \/ call = Free,
           UNCHANGED <<vars, sessions, call>>
    PROVE  Kept'
<1> DEFINE t == job[w][1]
<1>1. /\ pc[w] = "executing" /\ t \notin unknown
  BY DEF ServiceInv, SlicesOK, SliceOK
<1>2. /\ t \in Tasks /\ records[t].status = "running"
      /\ \A v \in Workers \ {w} : pc[v] = "executing" => job[v][1] # t
  BY <1>1, Executors DEF ServiceInv
<1>3. /\ ledger' \in [Tasks -> LedgerRows] /\ ledger'[t] = m
      /\ \A u \in Tasks \ {t} : ledger'[u] = ledger[u]
  BY <1>2 DEF ServiceInv, ServiceTyped
<1>4. /\ slice' \in [Workers -> Slices] /\ slice'[w] = s
      /\ \A v \in Workers \ {w} : slice'[v] = slice[v]
  BY DEF ServiceInv, ServiceTyped
<1>5. /\ records' = records /\ pc' = pc /\ job' = job
      /\ sessions' = sessions /\ call' = call
  BY DEF vars
<1>6. AllCalm
  BY <1>5, StillCalm
<1>7. unknown' \subseteq unknown \cup {t} /\ (t \in unknown' => s.at = "raise" /\ m.inflight)
  BY <1>1
<1>8. TaskOK(t)
  BY <1>2 DEF ServiceInv, TasksOK
<1> HIDE DEF t
<1>9. ASSUME NEW u \in Tasks PROVE TaskOK(u)'
  <2>1. CASE u # t
    BY <1>3, <1>5, <1>6, <1>7, <2>1, TaskKept DEF AllCalm
  <2>2. CASE u = t
    <3>1. ~Pooled(records[t]) /\ records[t].status # "queued"
      BY <1>2 DEF Pooled
    <3>2. m.attempt = ledger[t].attempt
      BY DEF t
    <3> QED BY <1>3, <1>5, <1>7, <1>8, <2>2, <3>1, <3>2 DEF TaskOK
  <2> QED BY <2>1, <2>2
<1>10. ASSUME NEW v \in Workers PROVE SliceOK(v)'
  <2>1. CASE v = w
    <3>1. pc'[w] = "executing" /\ job'[w][1] = t
      BY <1>1, <1>5 DEF t
    <3> QED BY <1>3, <1>4, <1>7, <2>1, <3>1 DEF SliceOK
  <2>2. CASE v # w
    <3>1. pc[v] = "executing" => job[v][1] \in Tasks \ {t}
      BY <1>2, <2>2, Executors DEF ServiceInv
    <3>2. pc[v] = "executing" =>
             /\ ledger'[job[v][1]] = ledger[job[v][1]]
             /\ job[v][1] \in unknown' => job[v][1] \in unknown
      BY <1>3, <1>7, <3>1
    <3> QED BY <1>4, <1>5, <2>2, <3>2, SliceKept
  <2> QED BY <2>1, <2>2
<1>11. CallOK'
  <2>1. call.at # "free" => ledger' = ledger
    <3>1. CASE m = ledger[t]
      BY <1>2, <1>3, <3>1 DEF ServiceInv, ServiceTyped, t
    <3>2. CASE call = Free
      BY <3>2 DEF Free
    <3> QED BY <3>1, <3>2 DEF t
  <2>2. call.at # "free" => Calm(records[call.t], records'[call.t])
    BY <1>6 DEF AllCalm, ServiceInv, ServiceTyped
  <2> QED BY <1>5, <2>1, <2>2, CallKept
<1>12. ServiceTyped'
  BY <1>2, <1>3, <1>4, <1>5, <1>7 DEF ServiceInv, ServiceTyped
<1> QED BY <1>9, <1>10, <1>11, <1>12 DEF Kept, TasksOK, SlicesOK

(* The handler's row before it writes.                                     *)
LEMMA HandlerFacts ==
    ASSUME ServiceInv, NEW w \in Workers, slice[w].at \notin {"out", "raise"}
    PROVE  LET l == ledger[job[w][1]] IN
           /\ job[w][1] \in Tasks
           /\ l \in LedgerRows /\ RowOK(l) /\ l.status # "absent"
           /\ Fits(slice[w], l) /\ slice[w] \in Slices
           /\ ledger = [ledger EXCEPT ![job[w][1]] = l]
<1>1. pc[w] = "executing" /\ Fits(slice[w], ledger[job[w][1]])
  BY DEF ServiceInv, SlicesOK, SliceOK
<1>2. job[w][1] \in Tasks /\ Live(records[job[w][1]])
  BY <1>1, Executors DEF ServiceInv, Live, InFlight
<1>3. TaskOK(job[w][1])
  BY <1>2 DEF ServiceInv, TasksOK
<1> QED BY <1>1, <1>2, <1>3, RowFacts DEF TaskOK, ServiceInv, ServiceTyped

(* A step that does not write.                                             *)
LEMMA HandlerMoves ==
    ASSUME ServiceInv, Inv', NEW w \in Workers,
           slice[w].at \notin {"out", "raise"},
           NEW s \in Slices, s.at # "out", slice' = [slice EXCEPT ![w] = s],
           Fits(s, ledger[job[w][1]]),
           UNCHANGED <<vars, ledger, sessions, call, unknown>>
    PROVE  Kept'
<1> DEFINE m == ledger[job[w][1]]
<1>1. /\ m \in LedgerRows /\ RowOK(m) /\ m.status # "absent"
      /\ ledger' = [ledger EXCEPT ![job[w][1]] = m]
  BY HandlerFacts
<1> QED BY <1>1, HandlerRow

(* _check_interruption.                                                    *)
LEMMA CheckInterruptKept ==
    ASSUME ServiceInv, Inv', NEW w \in Workers, CheckInterrupt(w)
    PROVE  Kept'
<1> DEFINE t == job[w][1]
<1>1. slice[w].at = "run" /\ UNCHANGED <<vars, ledger, sessions, call, unknown>>
  BY DEF CheckInterrupt, At
<1>2. Fits(slice[w], ledger[t])
  BY <1>1, HandlerFacts
<1>3. CASE Goto(w, "clear")
  <2>1. [at |-> "clear", want |-> "none"] \in Slices
    BY DEF Slices, Places
  <2>2. Fits([at |-> "clear", want |-> "none"], ledger[t])
    BY <1>1, <1>2 DEF Fits
  <2> QED BY <1>1, <1>3, <2>1, <2>2, HandlerMoves DEF Goto
<1>4. ASSUME NEW i \in {"canceled", "blocked"}, Leaving(w, "final", i) PROVE Kept'
  <2>1. [at |-> "final", want |-> i] \in Slices
    BY DEF Slices, Places, Verdicts, OutcomeStatuses
  <2>2. Fits([at |-> "final", want |-> i], ledger[t])
    BY DEF Fits
  <2> QED BY <1>1, <1>4, <2>1, <2>2, HandlerMoves DEF Leaving
<1>5. Goto(w, "clear") \/ (\E i \in {"canceled", "blocked"} : Leaving(w, "final", i))
  BY DEF CheckInterrupt, Interrupt
<1> QED BY <1>3, <1>4, <1>5

(* The look at the event after the loop is back.                           *)
LEMMA ReadEventKept ==
    ASSUME ServiceInv, Inv', NEW w \in Workers, ReadEvent(w)
    PROVE  Kept'
<1> DEFINE t == job[w][1]
<1>1. slice[w].at = "back" /\ UNCHANGED <<vars, ledger, sessions, call, unknown>>
  BY DEF ReadEvent, At
<1>2. /\ Fits(slice[w], ledger[t]) /\ slice[w].want \in Verdicts \cup {"yielded"}
      /\ slice[w].want = "yielded" => ledger[t].status \in InFlight
  BY <1>1, HandlerFacts DEF Fits, Slices
<1>3. ASSUME NEW v \in Verdicts, Leaving(w, "commit", v) PROVE Kept'
  <2>1. [at |-> "commit", want |-> v] \in Slices
    BY DEF Slices, Places
  <2>2. Fits([at |-> "commit", want |-> v], ledger[t])
    BY DEF Fits
  <2> QED BY <1>1, <1>3, <2>1, <2>2, HandlerMoves DEF Leaving
<1>4. ASSUME Leaving(w, "yield", "yielded"), slice[w].want = "yielded" PROVE Kept'
  <2>1. [at |-> "yield", want |-> "yielded"] \in Slices
    BY DEF Slices, Places
  <2>2. Fits([at |-> "yield", want |-> "yielded"], ledger[t])
    BY <1>2, <1>4 DEF Fits
  <2> QED BY <1>1, <1>4, <2>1, <2>2, HandlerMoves DEF Leaving
<1>5. "canceled" \in Verdicts /\ "yielded" \notin Verdicts
  BY DEF Verdicts, OutcomeStatuses
<1>6. \/ \E v \in Verdicts : Leaving(w, "commit", v)
      \/ Leaving(w, "yield", "yielded") /\ slice[w].want = "yielded"
  BY <1>2, <1>5 DEF ReadEvent
<1> QED BY <1>3, <1>4, <1>6

(* Anything raised leaves the row; in a call, its end is not known.        *)
LEMMA SliceRaisesKept ==
    ASSUME ServiceInv, Inv', NEW w \in Workers, SliceRaises(w)
    PROVE  Kept'
<1> DEFINE t == job[w][1]
           l == ledger[t]
           s == [at |-> "raise", want |-> "none"]
<1>1. /\ slice[w].at \in {"clear", "tool", "final", "commit"}
      /\ unknown' = IF slice[w].at = "tool" THEN unknown \cup {t} ELSE unknown
      /\ slice' = [slice EXCEPT ![w] = s]
      /\ UNCHANGED <<vars, ledger, sessions, call>>
  BY DEF SliceRaises, At, Goto
<1>2. /\ l \in LedgerRows /\ RowOK(l) /\ l.status # "absent" /\ Fits(slice[w], l)
      /\ ledger' = [ledger EXCEPT ![t] = l]
  BY <1>1, HandlerFacts
<1>3. slice[w].at = "tool" => l.inflight
  BY <1>2 DEF Fits
<1>4. s \in Slices /\ s.at = "raise" /\ Fits(s, l)
  BY DEF Slices, Places, Fits
<1>5. slice[w].at \notin {"out", "raise"}
  BY <1>1
<1> HIDE DEF s
<1> QED BY <1>1, <1>2, <1>3, <1>4, <1>5, HandlerRow

(* A write that keeps the result, dated back.                              *)
LEMMA HandlerWrites ==
    ASSUME ServiceInv, Inv', NEW w \in Workers,
           slice[w].at \notin {"out", "raise"}, call = Free,
           NEW s \in Slices, s.at # "out", slice' = [slice EXCEPT ![w] = s],
           NEW m \in LedgerRows, ledger' = [ledger EXCEPT ![job[w][1]] = m],
           m.attempt = ledger[job[w][1]].attempt,
           m.result = Revised(ledger[job[w][1]]).result,
           m.status \notin {"absent", "completed"}, Fits(s, m),
           UNCHANGED <<vars, sessions, call, unknown>>
    PROVE  Kept'
<1>1. RowOK(m)
  BY HandlerFacts, WrittenFields
<1> QED BY <1>1, HandlerRow

(* A mutating call: in flight before it is made, until its receipt is in.  *)
LEMMA ToolKept ==
    ASSUME ServiceInv, Inv', NEW w \in Workers, StartTool(w) \/ EndTool(w)
    PROVE  Kept'
<1> DEFINE t == job[w][1]
           l == ledger[t]
           x == Revised(l)
<1>1. /\ slice[w].at \in {"clear", "tool"} /\ call = Free
      /\ UNCHANGED <<vars, sessions, call, unknown>>
  BY DEF StartTool, EndTool, At, Writable
<1>2. l \in LedgerRows /\ RowOK(l)
  BY <1>1, HandlerFacts
<1>3. x \in LedgerRows /\ x.attempt = l.attempt
  <2> HIDE DEF l
  <2> QED BY <1>2, RevisedFields
<1>4. CASE StartTool(w)
  <2> DEFINE m == [x EXCEPT !.status = "running", !.inflight = TRUE]
  <2>1. ledger' = [ledger EXCEPT ![t] = m] /\ Goto(w, "tool")
    BY <1>4 DEF StartTool
  <2>2. /\ m \in LedgerRows /\ m.attempt = l.attempt /\ m.result = x.result
        /\ m.status = "running" /\ m.inflight = TRUE
    <3> HIDE DEF x, l
    <3> QED BY <1>3 DEF LedgerRows, LedgerStatuses
  <2> HIDE DEF m
  <2>3. /\ [at |-> "tool", want |-> "none"] \in Slices
        /\ Fits([at |-> "tool", want |-> "none"], m)
    BY <2>2 DEF Slices, Places, Fits, InFlight
  <2> QED BY <1>1, <2>1, <2>2, <2>3, HandlerWrites DEF Goto
<1>5. CASE EndTool(w)
  <2> DEFINE m == [x EXCEPT !.status = "running", !.inflight = FALSE, !.effects = TRUE]
  <2>1. ledger' = [ledger EXCEPT ![t] = m] /\ Goto(w, "run")
    BY <1>5 DEF EndTool
  <2>2. /\ m \in LedgerRows /\ m.attempt = l.attempt /\ m.result = x.result
        /\ m.status = "running"
    <3> HIDE DEF x, l
    <3> QED BY <1>3 DEF LedgerRows, LedgerStatuses
  <2> HIDE DEF m
  <2>3. /\ [at |-> "run", want |-> "none"] \in Slices
        /\ Fits([at |-> "run", want |-> "none"], m)
    BY <2>2 DEF Slices, Places, Fits, InFlight
  <2> QED BY <1>1, <2>1, <2>2, <2>3, HandlerWrites DEF Goto
<1> QED BY <1>4, <1>5

(* The loop's answer is observed in the row.                               *)
LEMMA DecideKept ==
    ASSUME ServiceInv, Inv', NEW w \in Workers, NEW want \in Verdicts \cup {"yielded"},
           Decide(w, want)
    PROVE  Kept'
<1> DEFINE t == job[w][1]
           l == ledger[t]
           x == Revised(l)
           m == [x EXCEPT !.status = Observed(want)]
           s == [at |-> "back", want |-> want]
<1>1. /\ slice[w].at \in {"clear", "final"} /\ call = Free
      /\ ledger' = [ledger EXCEPT ![t] = m] /\ slice' = [slice EXCEPT ![w] = s]
      /\ UNCHANGED <<vars, sessions, call, unknown>>
  BY DEF Decide, At, Writable, Leaving
<1>2. l \in LedgerRows /\ RowOK(l)
  BY <1>1, HandlerFacts
<1>3. x \in LedgerRows /\ x.attempt = l.attempt
  <2> HIDE DEF l
  <2> QED BY <1>2, RevisedFields
<1>4. /\ Observed(want) \in LedgerStatuses \ {"absent", "completed"}
      /\ want = "yielded" => Observed(want) \in InFlight
  BY DEF Observed, Exported, Verdicts, OutcomeStatuses, LedgerStatuses, InFlight
<1>5. /\ m \in LedgerRows /\ m.attempt = l.attempt /\ m.result = x.result
      /\ m.status = Observed(want)
  <2> HIDE DEF x, l
  <2> QED BY <1>3, <1>4 DEF LedgerRows
<1>6. s \in Slices /\ s.at = "back" /\ s.want = want /\ want # "none"
  BY DEF Slices, Places, Verdicts, OutcomeStatuses
<1> HIDE DEF m, s
<1>7. Fits(s, m)
  BY <1>4, <1>5, <1>6 DEF Fits
<1> QED BY <1>1, <1>4, <1>5, <1>6, <1>7, HandlerWrites

(* Commit: the result of the attempt, with the row it is saved in.         *)
LEMMA CommitKept ==
    ASSUME ServiceInv, Inv', NEW w \in Workers, Commit(w)
    PROVE  Kept'
<1> DEFINE t == job[w][1]
           l == ledger[t]
           v == slice[w].want
           m == Sealed(l, v)
           a == IF v \in OutcomeStatuses THEN v ELSE "blocked"
           s == [at |-> "answer", want |-> a]
<1>1. /\ slice[w].at = "commit" /\ call = Free
      /\ ledger' = [ledger EXCEPT ![t] = m] /\ slice' = [slice EXCEPT ![w] = s]
      /\ UNCHANGED <<vars, sessions, call, unknown>>
  BY DEF Commit, At, Writable, Leaving
<1>2. l \in LedgerRows /\ RowOK(l) /\ Fits(slice[w], l)
  BY <1>1, HandlerFacts
<1>3. v \in Verdicts
  BY <1>1, <1>2 DEF Fits
<1>4. a \in OutcomeStatuses
  BY DEF OutcomeStatuses
<1> HIDE DEF v, a
<1>5. /\ m \in LedgerRows /\ m.attempt = l.attempt
      /\ m.status = IF v = "unverified" THEN "completed" ELSE v
      /\ m.result = [attempt |-> l.attempt, status |-> v, current |-> TRUE]
  <2> HIDE DEF l
  <2> QED BY <1>2, <1>3, SealedFields
<1> HIDE DEF m
<1>6. RowOK(m) /\ m.status # "absent"
  <2>1. RowOK(m)
    BY <1>3, <1>5, SealedOK
  <2>2. m.status # "absent"
    BY <1>3, <1>5 DEF Verdicts, OutcomeStatuses
  <2> QED BY <2>1, <2>2
<1>7. s \in Slices /\ s.at = "answer" /\ Fits(s, m)
  BY <1>4 DEF Slices, Places, Verdicts, Fits
<1>8. slice[w].at \notin {"out", "raise"}
  BY <1>1
<1> HIDE DEF s
<1> QED BY <1>1, <1>5, <1>6, <1>7, <1>8, HandlerRow

-----------------------------------------------------------------------------
(* The handler between the pool and the coordinator.                       *)

(* A thread takes the work off the queue.                                  *)
LEMMA TakeKept ==
    ASSUME ServiceInv, Inv', NEW w \in Workers, Take(w)
    PROVE  Kept'
<1>1. Pick(w) /\ UNCHANGED service /\ pc[w] = "idle"
  BY DEF Take, Pick
<1>2. /\ ledger' = ledger /\ sessions' = sessions /\ call' = call
      /\ slice' = slice /\ unknown' = unknown
  BY <1>1 DEF service
<1>3. AllCalm
  BY <1>1, PickCalm DEF ServiceInv
<1>4. TasksOK' /\ CallOK' /\ ServiceTyped'
  <2>1. call.at # "free" => call.t \in Tasks
    BY DEF ServiceInv, ServiceTyped
  <2>2. call.at # "free" => Calm(records[call.t], records'[call.t])
    BY <1>3, <2>1 DEF AllCalm
  <2> QED BY <1>2, <1>3, <2>2, TasksKept, CallKept DEF ServiceInv, ServiceTyped
<1>5. ASSUME NEW v \in Workers PROVE SliceOK(v)'
  <2>1. /\ pc'[v] = "executing" <=> pc[v] = "executing"
        /\ pc[v] = "executing" => job'[v] = job[v]
    BY <1>1 DEF Pick, ServiceInv, Inv, TypeOK
  <2> QED BY <1>2, <2>1, SliceKept
<1> QED BY <1>4, <1>5 DEF Kept, SlicesOK

(* The attempt starts, and its handler is entered.                         *)
LEMMA EnterKept ==
    ASSUME ServiceInv, Inv', NEW w \in Workers, Enter(w)
    PROVE  Kept'
<1> DEFINE t == job[w][1]
<1>1. /\ Start(w) /\ UNCHANGED <<ledger, call, unknown>> /\ pc[w] = "picked"
  BY DEF Enter, Start
<1>2. /\ pc'[w] # "executing" => AllCalm
      /\ pc'[w] = "executing" =>
            /\ t \in Tasks /\ CalmBut(t) /\ job' = job
            /\ Pooled(records[t]) /\ records'[t].status = "running"
            /\ records'[t].attempt = records[t].attempt
      /\ \A v \in Workers \ {w} : pc'[v] = pc[v] /\ job'[v] = job[v]
  BY <1>1, StartMakes DEF ServiceInv
<1>3. ASSUME NEW v \in Workers \ {w}, slice'[v] = slice[v] PROVE SliceOK(v)'
  BY <1>1, <1>2, <1>3, SliceKept
<1>4. CASE pc'[w] # "executing"
  <2>1. slice' = slice /\ sessions' = sessions
    BY <1>4 DEF Enter
  <2>2. AllCalm
    BY <1>2, <1>4
  <2>3. call.at # "free" => Calm(records[call.t], records'[call.t])
    BY <2>2 DEF AllCalm, ServiceInv, ServiceTyped
  <2>4. TasksOK' /\ CallOK' /\ ServiceTyped'
    BY <1>1, <2>1, <2>2, <2>3, TasksKept, CallKept DEF ServiceInv, ServiceTyped
  <2>5. SliceOK(w)'
    BY <1>1, <1>4, <2>1, SliceKept
  <2> QED BY <1>3, <2>1, <2>4, <2>5 DEF Kept, SlicesOK
<1>5. CASE pc'[w] = "executing"
  <2>1. /\ t \in Tasks /\ CalmBut(t) /\ job' = job
        /\ Pooled(records[t]) /\ records'[t].status = "running"
        /\ records'[t].attempt = records[t].attempt
    BY <1>2, <1>5
  <2>2. TaskOK(t) /\ records[t].status = "queued"
    BY <2>1 DEF ServiceInv, TasksOK, Pooled
  <2>3. /\ ledger[t].status \in InFlight /\ t \notin unknown
        /\ sessions[t].attempt = ledger[t].attempt
    BY <2>1, <2>2 DEF TaskOK, Live, InFlight
  <2>4. /\ sessions' \in [Tasks -> SessionRows]
        /\ \A u \in Tasks : sessions'[u].attempt = sessions[u].attempt
    <3>1. sessions' = [sessions EXCEPT ![t].recheck = FALSE]
      BY <1>5 DEF Enter
    <3>2. sessions \in [Tasks -> SessionRows]
      BY DEF ServiceInv, ServiceTyped
    <3> HIDE DEF t
    <3> QED BY <2>1, <3>1, <3>2 DEF SessionRows
  <2>5. PICK s \in {[at |-> "run", want |-> "none"], [at |-> "back", want |-> "blocked"]} :
           slice' = [slice EXCEPT ![w] = s]
    BY <1>5 DEF Enter, Goto, Leaving
  <2>6. s \in Slices /\ s.at \notin {"out", "raise"} /\ Fits(s, ledger[t])
    <3>1. CASE s = [at |-> "run", want |-> "none"]
      BY <2>3, <3>1 DEF Fits, Slices, Places
    <3>2. CASE s = [at |-> "back", want |-> "blocked"]
      BY <3>2 DEF Fits, Slices, Places, Verdicts, OutcomeStatuses
    <3> QED BY <2>5, <3>1, <3>2
  <2>7. /\ slice' \in [Workers -> Slices] /\ slice'[w] = s
        /\ \A v \in Workers \ {w} : slice'[v] = slice[v]
    BY <2>5, <2>6 DEF ServiceInv, ServiceTyped
  <2>8. SliceOK(w)'
    BY <1>1, <1>5, <2>1, <2>3, <2>6, <2>7 DEF SliceOK
  <2>9. ASSUME NEW u \in Tasks PROVE TaskOK(u)'
    <3>1. CASE u # t
      <4> HIDE DEF t
      <4> QED BY <1>1, <2>1, <2>4, <3>1, TaskKept DEF CalmBut
    <3>2. CASE u = t
      <4> HIDE DEF t
      <4> QED BY <1>1, <2>1, <2>2, <2>3, <2>4, <3>2 DEF TaskOK, Pooled, InFlight
    <3> QED BY <3>1, <3>2
  <2>10. CallOK'
    <3>1. call.at # "free" => call.t \in Tasks
      BY DEF ServiceInv, ServiceTyped
    <3>2. CASE call.at = "free" \/ call.t # t
      <4>1. call.at # "free" => Calm(records[call.t], records'[call.t])
        BY <2>1, <3>1, <3>2 DEF CalmBut
      <4> QED BY <1>1, <4>1, CallKept
    <3>3. CASE call.at # "free" /\ call.t = t
      <4>1. call.at = "record" /\ ~call.flag
        <5>1. call.at \in {"queue", "dispatch", "failed", "record"}
          BY <3>3 DEF ServiceInv, ServiceTyped, HostCalls
        <5>2. call.at \notin {"queue", "dispatch", "failed"}
          BY <2>1, <3>3 DEF ServiceInv, CallOK
        <5>3. call.at = "record" => ~call.flag
          BY <2>2, <3>3 DEF ServiceInv, CallOK
        <5> QED BY <5>1, <5>2, <5>3
      <4> QED BY <1>1, <4>1 DEF CallOK
    <3> QED BY <3>2, <3>3
  <2>11. ServiceTyped'
    BY <1>1, <2>4, <2>7 DEF ServiceInv, ServiceTyped
  <2> QED BY <1>3, <2>7, <2>8, <2>9, <2>10, <2>11 DEF Kept, TasksOK, SlicesOK
<1> QED BY <1>4, <1>5

(* The handler is back, and the coordinator has settled the record.        *)
LEMMA ReturnKept ==
    ASSUME ServiceInv, Inv', NEW w \in Workers, Return(w)
    PROVE  Kept'
<1> DEFINE t == job[w][1]
<1>1. /\ Idle(w) /\ slice' = [slice EXCEPT ![w] = Out]
      /\ UNCHANGED <<ledger, sessions, call, unknown>>
      /\ slice[w].at \in {"yield", "answer", "raise"}
  BY DEF Return
<1>2. /\ pc[w] = "executing" /\ Fits(slice[w], ledger[t])
      /\ slice[w].at # "raise" => t \notin unknown
  BY <1>1 DEF ServiceInv, SlicesOK, SliceOK
<1>3. t \in Tasks /\ records[t].status = "running"
  BY <1>2, Executors DEF ServiceInv
<1>4. /\ pc'[w] = "idle"
      /\ \A v \in Workers \ {w} : pc'[v] = pc[v] /\ job'[v] = job[v]
  BY <1>1 DEF Idle, ServiceInv, Inv, TypeOK
<1>5. /\ slice' \in [Workers -> Slices] /\ slice'[w] = Out /\ Out.at = "out"
      /\ \A v \in Workers \ {w} : slice'[v] = slice[v]
  <2>1. Out \in Slices /\ Out.at = "out"
    BY DEF Out, Slices, Places
  <2> QED BY <1>1, <2>1 DEF ServiceInv, ServiceTyped
<1>6. SlicesOK'
  <2>1. SliceOK(w)'
    BY <1>4, <1>5 DEF SliceOK
  <2>2. ASSUME NEW v \in Workers \ {w} PROVE SliceOK(v)'
    BY <1>1, <1>4, <1>5, SliceKept
  <2> QED BY <2>1, <2>2 DEF SlicesOK
<1>7. ServiceTyped'
  BY <1>1, <1>5 DEF ServiceInv, ServiceTyped
<1>8. \/ AllCalm
      \/ /\ slice[w].at = "yield" /\ CalmBut(t) /\ records'[t].status = "queued"
         /\ records'[t].attempt = records[t].attempt
  <2>1. \/ At(w, "yield") /\ Yield(records[t], t)
        \/ \E s \in OutcomeStatuses : Answer(records[t], t, s)
        \/ Raise(records[t], t)
    BY ReturnStep
  <2> HIDE DEF t
  <2> QED BY <1>3, <2>1, YieldMakes, AnswerCalm DEF ServiceInv, At
<1>9. CASE AllCalm
  <2>1. call.at # "free" => Calm(records[call.t], records'[call.t])
    BY <1>9 DEF AllCalm, ServiceInv, ServiceTyped
  <2> QED BY <1>1, <1>6, <1>7, <1>9, <2>1, TasksKept, CallKept DEF Kept
<1>10. CASE /\ slice[w].at = "yield" /\ CalmBut(t) /\ records'[t].status = "queued"
            /\ records'[t].attempt = records[t].attempt
  <2>1. ledger[t].status \in InFlight /\ t \notin unknown
    BY <1>2, <1>10 DEF Fits
  <2>2. TaskOK(t) /\ Live(records[t])
    BY <1>3 DEF ServiceInv, TasksOK, Live, InFlight
  <2>3. ASSUME NEW u \in Tasks PROVE TaskOK(u)'
    <3>1. CASE u # t
      <4> HIDE DEF t
      <4> QED BY <1>1, <1>10, <3>1, TaskKept DEF CalmBut
    <3>2. CASE u = t
      <4> HIDE DEF t
      <4> QED BY <1>1, <1>10, <2>1, <2>2, <3>2 DEF TaskOK
    <3> QED BY <3>1, <3>2
  <2>4. CallOK'
    <3>1. call.at # "free" => call.t \in Tasks
      BY DEF ServiceInv, ServiceTyped
    <3>2. CASE call.at = "free" \/ call.t # t
      <4>1. call.at # "free" => Calm(records[call.t], records'[call.t])
        BY <1>10, <3>1, <3>2 DEF CalmBut
      <4> QED BY <1>1, <4>1, CallKept
    <3>3. CASE call.at # "free" /\ call.t = t
      <4>1. call.at = "record" /\ ~call.flag
        <5>1. call.at \in {"queue", "dispatch", "failed", "record"}
          BY <3>3 DEF ServiceInv, ServiceTyped, HostCalls
        <5>2. call.at \notin {"queue", "dispatch", "failed"}
          BY <1>3, <3>3 DEF ServiceInv, CallOK
        <5>3. call.at = "record" => ~call.flag
          BY <1>3, <3>3 DEF ServiceInv, CallOK
        <5> QED BY <5>1, <5>2, <5>3
      <4> QED BY <1>1, <4>1 DEF CallOK
    <3> QED BY <3>2, <3>3
  <2> QED BY <1>6, <1>7, <2>3, <2>4 DEF Kept, TasksOK
<1> QED BY <1>8, <1>9, <1>10

-----------------------------------------------------------------------------
(* The process.                                                            *)

(* Die: only the ledger is left, and it says what was in flight.           *)
LEMMA DieKept ==
    ASSUME ServiceInv, Inv', Die
    PROVE  Kept'
<1> DEFINE seen == {job[w][1] : w \in {v \in Workers : At(v, "tool")}}
<1>1. /\ Restart /\ ledger' = ledger /\ call' = Free
      /\ unknown' = unknown \cup seen
      /\ sessions' = [t \in Tasks |-> NoSession]
      /\ slice' = [w \in Workers |-> Out]
      /\ pc' = [w \in Workers |-> "idle"]
  BY DEF Die, Restart
<1>2. \A u \in Tasks : ~Live(records'[u]) /\ records'[u].attempt <= records[u].attempt
  BY <1>1, RestartCalm DEF ServiceInv
<1>3. ASSUME NEW u \in seen PROVE u \in Tasks /\ ledger[u].inflight
  <2>1. PICK w \in Workers : slice[w].at = "tool" /\ u = job[w][1]
    BY DEF At
  <2>2. Fits(slice[w], ledger[u]) /\ u \in Tasks
    BY <2>1, HandlerFacts
  <2> QED BY <2>1, <2>2 DEF Fits
<1> HIDE DEF seen
<1>4. ASSUME NEW u \in Tasks PROVE TaskOK(u)'
  <2>1. TaskOK(u)
    BY DEF ServiceInv, TasksOK
  <2>2. /\ records[u].attempt \in Nat /\ records'[u].attempt \in Nat
        /\ ledger[u].attempt \in Nat
    BY DEF ServiceInv, ServiceTyped, Inv, TypeOK, Record, LedgerRows
  <2>3. records'[u].attempt <= ledger'[u].attempt
    BY <1>1, <1>2, <2>1, <2>2 DEF TaskOK
  <2>4. ~Live(records'[u]) /\ ~Pooled(records'[u]) /\ records'[u].status # "queued"
    BY <1>2 DEF Live, Pooled, InFlight
  <2>5. u \in unknown' => ledger'[u].inflight
    BY <1>1, <1>3, <2>1 DEF TaskOK
  <2> QED BY <1>1, <2>1, <2>3, <2>4, <2>5 DEF TaskOK
<1>5. SlicesOK'
  BY <1>1 DEF SlicesOK, SliceOK, Out
<1>6. call' \in HostCalls /\ call'.at = "free"
  BY <1>1 DEF Free, HostCalls
<1>7. CallOK'
  BY <1>6 DEF CallOK
<1>8. ServiceTyped'
  <2>1. sessions' \in [Tasks -> SessionRows]
    BY <1>1 DEF NoSession, SessionRows
  <2>2. slice' \in [Workers -> Slices]
    BY <1>1 DEF Out, Slices, Places
  <2>3. unknown' \subseteq Tasks
    BY <1>1, <1>3 DEF ServiceInv, ServiceTyped
  <2> QED BY <1>1, <1>6, <2>1, <2>2, <2>3 DEF ServiceInv, ServiceTyped
<1> QED BY <1>4, <1>5, <1>7, <1>8 DEF Kept, TasksOK

(* Steps that touch neither threads nor service.                           *)
LEMMA QuietKept ==
    ASSUME ServiceInv, Inv', AllCalm, UNCHANGED <<pc, job, service>>
    PROVE  Kept'
<1>1. /\ ledger' = ledger /\ sessions' = sessions /\ call' = call
      /\ slice' = slice /\ unknown' = unknown /\ pc' = pc /\ job' = job
  BY DEF service
<1>2. call.at # "free" => Calm(records[call.t], records'[call.t])
  BY DEF AllCalm, ServiceInv, ServiceTyped
<1> QED BY <1>1, <1>2, TasksKept, SlicesKept, CallKept DEF Kept, ServiceInv, ServiceTyped

(* shutdown, finalizers, and steps that change nothing.                    *)
LEMMA StopKept ==
    ASSUME ServiceInv, Inv', Stop \/ Cleanup \/ UNCHANGED all
    PROVE  Kept'
<1>1. CASE Stop
  <2>1. Shutdown => AllCalm
    BY StillCalm DEF Shutdown
  <2>2. AllCalm /\ UNCHANGED <<pc, job, service>>
    BY <1>1, <2>1, ShutdownNowCalm DEF Stop, Shutdown, ShutdownNow, ServiceInv
  <2> QED BY <2>2, QuietKept
<1>2. CASE Cleanup
  BY <1>2, StillCalm, QuietKept DEF Cleanup, RunFinalizer
<1>3. CASE UNCHANGED all
  BY <1>3, StillCalm, QuietKept DEF all, vars
<1> QED BY <1>1, <1>2, <1>3

-----------------------------------------------------------------------------
(* The inductive invariant.                                                *)

(* Nothing was submitted yet.                                              *)
LEMMA ServiceStart == ServiceInit => ServiceInv
<1> SUFFICES ASSUME ServiceInit PROVE ServiceInv
  OBVIOUS
<1>1. Init /\ Inv /\ HistoryInv
  BY InitInv, HistoryInit DEF ServiceInit
<1>2. /\ ledger = [t \in Tasks |-> NoLedger] /\ sessions = [t \in Tasks |-> NoSession]
      /\ call = Free /\ slice = [w \in Workers |-> Out] /\ unknown = {}
      /\ pc = [w \in Workers |-> "idle"] /\ records = [t \in Tasks |-> Absent]
  BY DEF ServiceInit, Init
<1>3. ServiceTyped
  <2>1. NoLedger \in LedgerRows
    BY FirstFields
  <2>2. NoSession \in SessionRows /\ Out \in Slices /\ Free \in HostCalls /\ Free.at = "free"
    BY DEF NoSession, SessionRows, Out, Slices, Places, Free, HostCalls
  <2> QED BY <1>2, <2>1, <2>2 DEF ServiceTyped
<1>4. ASSUME NEW t \in Tasks PROVE TaskOK(t)
  <2>1. records[t] = Absent /\ ledger[t] = NoLedger /\ t \notin unknown
    BY <1>2
  <2>2. RowOK(NoLedger) /\ NoLedger.attempt = 0
    BY FirstFields
  <2> QED BY <2>1, <2>2 DEF TaskOK, Absent, Live, Pooled, InFlight
<1>5. SlicesOK
  BY <1>2 DEF SlicesOK, SliceOK, Out
<1>6. CallOK
  BY <1>2 DEF CallOK, Free
<1> QED BY <1>1, <1>3, <1>4, <1>5, <1>6 DEF ServiceInv, TasksOK

(* One case per action: every stage of a host's call, every step of the    *)
(* handler and every way the process ends keep the invariant.              *)
THEOREM ServiceInductive == ServiceInv /\ [ServiceNext]_all => ServiceInv'
<1> SUFFICES ASSUME ServiceInv, [ServiceNext]_all PROVE ServiceInv'
  OBVIOUS
<1>1. Inv' /\ HistoryInv'
  BY CoordinatorKept
<1>2. ASSUME NEW t \in Tasks, AskSubmit(t) \/ AskResume(t) \/ AskCancel(t) \/ Supplement(t)
      PROVE  Kept'
  BY <1>1, <1>2, AskSubmitKept, AskResumeKept, AskCancelKept, SupplementKept
<1>3. ASSUME HostCall PROVE Kept'
  BY <1>1, <1>2, <1>3, QueueKept, QueueDispatchKept, AdmissionFailedKept, RecordCancelKept,
     StopKept DEF HostCall
<1>4. ASSUME NEW w \in Workers, Handler(w) PROVE Kept'
  BY <1>1, <1>4, TakeKept, EnterKept, CheckInterruptKept, ToolKept, DecideKept,
     SliceRaisesKept, ReadEventKept, CommitKept, ReturnKept DEF Handler
<1>5. ASSUME Die PROVE Kept'
  BY <1>1, <1>5, DieKept
<1>6. ASSUME Stop \/ UNCHANGED all PROVE Kept'
  BY <1>1, <1>6, StopKept
<1>7. Kept'
  BY <1>3, <1>4, <1>5, <1>6 DEF ServiceNext
<1> QED BY <1>1, <1>7 DEF ServiceInv, Kept

(* The ledger, the records, the sessions and the handlers agree in every   *)
(* reachable state.                                                        *)
THEOREM ServiceInvariance == ServiceSpec => []ServiceInv
BY ServiceStart, ServiceInductive, PTL DEF ServiceSpec

(* A host that is shown an end may rely on it: while a handler still takes *)
(* steps or calls tools for a task, TaskViewReader._derive shows the task  *)
(* in flight or in conflict, whatever calls, restarts and commits came     *)
(* before.                                                                 *)
THEOREM EndsAreQuiet == ServiceSpec => []EndIsQuiet
<1>1. ServiceInv => EndIsQuiet
  <2> SUFFICES ASSUME ServiceInv, NEW t \in Tasks, NEW w \in Workers, Acting(w, t)
               PROVE  View(t) \notin Settles
    BY DEF EndIsQuiet
  <2>1. slice[w].at \in {"run", "clear", "tool"} /\ job[w][1] = t
    BY DEF Acting
  <2>2. pc[w] = "executing" /\ Fits(slice[w], ledger[t])
    BY <2>1 DEF ServiceInv, SlicesOK, SliceOK
  <2>3. ledger[t].status \in {"queued", "running"}
    BY <2>1, <2>2 DEF Fits, InFlight
  <2>4. records[t].status = "running"
    BY <2>1, <2>2, Executors DEF ServiceInv
  <2>5. Exists(records[t]) /\ Shown(ledger[t]) = ledger[t].status
    BY <2>3, <2>4 DEF Exists, Shown
  <2>6. CASE records[t].attempt # ledger[t].attempt
    <3>1. View(t) = "conflict"
      BY <2>3, <2>5, <2>6 DEF View
    <3> QED BY <3>1 DEF Settles
  <2>7. CASE records[t].attempt = ledger[t].attempt
    <3>1. View(t) = Shown(ledger[t])
      BY <2>3, <2>4, <2>5, <2>7 DEF View, Reconciled
    <3> QED BY <2>3, <2>5, <3>1 DEF Settles
  <2> QED BY <2>6, <2>7
<1> QED BY <1>1, ServiceInvariance, PTL

(* The row leads and the work follows (_queue and _write): whoever works   *)
(* for a task does so for the attempt its row is at, and whatever waits for*)
(* the coordinator has a row that is as far as its record.                 *)
THEOREM RowsLead == ServiceSpec => []LedgerLeads
<1>1. ServiceInv => OneWriter
  <2> SUFFICES ASSUME ServiceInv, NEW w \in Workers, pc[w] = "executing"
               PROVE  /\ sessions[job[w][1]].attempt = ledger[job[w][1]].attempt
                      /\ Mine(w)
    BY DEF OneWriter
  <2>1. /\ job[w][1] \in Tasks /\ Live(records[job[w][1]])
        /\ records[job[w][1]].attempt = job[w][2]
    BY Executors DEF ServiceInv, Live, InFlight
  <2> QED BY <2>1 DEF ServiceInv, TasksOK, TaskOK, Mine
<1>2. ServiceInv => LedgerFirst
  BY DEF ServiceInv, TasksOK, TaskOK, Live, LedgerFirst
<1> QED BY <1>1, <1>2, ServiceInvariance, PTL DEF LedgerLeads

(* A result is that of the row's attempt, and the current one says what the*)
(* row says: no late commit, admission failure or cancellation leaves an   *)
(* older attempt's result readable as the new one's.                       *)
THEOREM ResultsBelong == ServiceSpec => []ResultBelongs
<1>1. ServiceInv => ResultBelongs
  BY DEF ServiceInv, TasksOK, TaskOK, RowOK, ResultBelongs
<1> QED BY <1>1, ServiceInvariance, PTL

(* "Recovery never replays": once the end of a mutating call is not known, *)
(* no handler works on the task again, with recovery and without it, over  *)
(* any number of crashes, resumes and retries.                             *)
THEOREM UnknownIsLeftAlone == ServiceSpec => []UnknownIsNotRepeated
<1>1. ServiceInv => UnknownIsNotRepeated
  BY DEF ServiceInv, SlicesOK, SliceOK, At, UnknownIsNotRepeated
<1> QED BY <1>1, ServiceInvariance, PTL

-----------------------------------------------------------------------------
(* A committed result takes no further attempt.                            *)

(* A write that does not count an attempt.                                 *)
LEMMA SameAttempt ==
    ASSUME ServiceInv, NEW u \in Tasks, NEW m, m.attempt = ledger[u].attempt,
           ledger' = [ledger EXCEPT ![u] = m], NEW t \in Tasks
    PROVE  ledger'[t].attempt = ledger[t].attempt
BY DEF ServiceInv, ServiceTyped

(* The stages of a host's call: a resume asks first whether there is still *)
(* something to do, with recovery at the gate, without it by the status.   *)
LEMMA HostCommitted ==
    ASSUME ServiceInv, HostCall, NEW t \in Tasks, ledger[t].status = "completed"
    PROVE  ledger'[t].attempt = ledger[t].attempt
<1>1. ASSUME NEW u \in Tasks, AskSubmit(u) PROVE ledger'[t].attempt = ledger[t].attempt
  BY <1>1 DEF AskSubmit, ServiceInv, ServiceTyped
<1>2. ASSUME NEW u \in Tasks, AskResume(u) PROVE ledger'[t].attempt = ledger[t].attempt
  <2>1. ~ResumeAllowed(t)
    <3>1. HasResult(ledger[t])
      <4>1. ledger[t].result.status # "none"
        BY RowFacts DEF RowOK
      <4> QED BY <4>1 DEF HasResult, NoResult
    <3> QED BY <3>1 DEF ResumeAllowed, Restarted, Continuable, Resumable
  <2>2. u # t /\ ledger' = [ledger EXCEPT ![u] = Reopened(ledger[u])]
    BY <1>2, <2>1 DEF AskResume
  <2> QED BY <2>2 DEF ServiceInv, ServiceTyped
<1>3. ASSUME NEW u \in Tasks, AskCancel(u) PROVE ledger'[t].attempt = ledger[t].attempt
  BY <1>3 DEF AskCancel
<1>4. ASSUME NEW u \in Tasks, Supplement(u) PROVE ledger'[t].attempt = ledger[t].attempt
  <2> DEFINE s == IF ledger[u].status = "completed" THEN "partial" ELSE ledger[u].status
             m == [Revised(ledger[u]) EXCEPT !.status = s]
  <2>1. ledger' = [ledger EXCEPT ![u] = m]
    BY <1>4 DEF Supplement
  <2>2. Revised(ledger[u]) \in LedgerRows /\ Revised(ledger[u]).attempt = ledger[u].attempt
    BY RowFacts, RevisedFields
  <2>3. m.attempt = ledger[u].attempt
    BY <2>2 DEF LedgerRows
  <2> HIDE DEF m
  <2> QED BY <2>1, <2>3, SameAttempt
<1>5. CASE Queue \/ QueueDispatch \/ Cleanup
  BY <1>5 DEF Queue, QueueDispatch, Cleanup, service
<1>6. CASE AdmissionFailed
  <2> DEFINE m == [Revised(ledger[call.t]) EXCEPT !.status = "blocked"]
  <2>1. call.t \in Tasks /\ ledger' = [ledger EXCEPT ![call.t] = m]
    BY <1>6 DEF AdmissionFailed, ServiceInv, ServiceTyped
  <2>2. /\ Revised(ledger[call.t]) \in LedgerRows
        /\ Revised(ledger[call.t]).attempt = ledger[call.t].attempt
    BY <2>1, RowFacts, RevisedFields
  <2>3. m.attempt = ledger[call.t].attempt
    BY <2>2 DEF LedgerRows
  <2> HIDE DEF m
  <2> QED BY <2>1, <2>3, SameAttempt
<1>7. CASE RecordCancel
  <2> DEFINE l == ledger[call.t]
             n == IF call.flag THEN Sealed(l, "canceled") ELSE Revised(l)
             m == [n EXCEPT !.cancelReq = TRUE]
  <2>1. call.t \in Tasks /\ ledger' = [ledger EXCEPT ![call.t] = m]
    BY <1>7 DEF RecordCancel, ServiceInv, ServiceTyped
  <2>2. n \in LedgerRows /\ n.attempt = l.attempt
    <3>1. l \in LedgerRows /\ RowOK(l) /\ "canceled" \in Verdicts
      BY <2>1, RowFacts DEF Verdicts, OutcomeStatuses
    <3>2. Sealed(l, "canceled") \in LedgerRows /\ Sealed(l, "canceled").attempt = l.attempt
      <4> HIDE DEF l
      <4> QED BY <3>1, SealedFields
    <3>3. Revised(l) \in LedgerRows /\ Revised(l).attempt = l.attempt
      <4> HIDE DEF l
      <4> QED BY <3>1, RevisedFields
    <3> QED BY <3>2, <3>3
  <2> HIDE DEF n
  <2>3. m.attempt = l.attempt
    BY <2>2 DEF LedgerRows
  <2> HIDE DEF m
  <2> QED BY <2>1, <2>3, SameAttempt
<1> QED BY <1>1, <1>2, <1>3, <1>4, <1>5, <1>6, <1>7 DEF HostCall

(* The handler's writes are for the attempt the row is at.                 *)
LEMMA HandlerCommitted ==
    ASSUME ServiceInv, NEW w \in Workers, Handler(w), NEW t \in Tasks
    PROVE  ledger'[t].attempt = ledger[t].attempt
<1> DEFINE l == ledger[job[w][1]]
<1>1. CASE Take(w) \/ Enter(w) \/ CheckInterrupt(w) \/ SliceRaises(w) \/ ReadEvent(w) \/ Return(w)
  BY <1>1 DEF Take, Enter, CheckInterrupt, SliceRaises, ReadEvent, Return, service
<1>2. ASSUME slice[w].at \notin {"out", "raise"}
      PROVE  /\ job[w][1] \in Tasks /\ RowOK(l) /\ l \in LedgerRows
             /\ Revised(l) \in LedgerRows /\ Revised(l).attempt = l.attempt
  <2>1. job[w][1] \in Tasks /\ RowOK(l) /\ l \in LedgerRows
    BY <1>2, HandlerFacts
  <2> HIDE DEF l
  <2> QED BY <2>1, RevisedFields
<1>3. CASE StartTool(w)
  <2> DEFINE m == [Revised(l) EXCEPT !.status = "running", !.inflight = TRUE]
  <2>1. ledger' = [ledger EXCEPT ![job[w][1]] = m] /\ slice[w].at \notin {"out", "raise"}
    BY <1>3 DEF StartTool, At
  <2>2. m.attempt = l.attempt
    BY <1>2, <2>1 DEF LedgerRows
  <2> HIDE DEF m
  <2> QED BY <1>2, <2>1, <2>2, SameAttempt
<1>4. CASE EndTool(w)
  <2> DEFINE m == [Revised(l) EXCEPT !.status = "running", !.inflight = FALSE, !.effects = TRUE]
  <2>1. ledger' = [ledger EXCEPT ![job[w][1]] = m] /\ slice[w].at \notin {"out", "raise"}
    BY <1>4 DEF EndTool, At
  <2>2. m.attempt = l.attempt
    BY <1>2, <2>1 DEF LedgerRows
  <2> HIDE DEF m
  <2> QED BY <1>2, <2>1, <2>2, SameAttempt
<1>5. ASSUME NEW want \in Verdicts \cup {"yielded"}, Decide(w, want)
      PROVE  ledger'[t].attempt = ledger[t].attempt
  <2> DEFINE s == Observed(want)
             m == [Revised(l) EXCEPT !.status = s]
  <2>1. ledger' = [ledger EXCEPT ![job[w][1]] = m] /\ slice[w].at \notin {"out", "raise"}
    BY <1>5 DEF Decide, At
  <2> HIDE DEF s
  <2>2. m.attempt = l.attempt
    BY <1>2, <2>1 DEF LedgerRows
  <2> HIDE DEF m
  <2> QED BY <1>2, <2>1, <2>2, SameAttempt
<1>6. CASE Commit(w)
  <2> DEFINE m == Sealed(l, slice[w].want)
  <2>1. ledger' = [ledger EXCEPT ![job[w][1]] = m] /\ slice[w].at = "commit"
    BY <1>6 DEF Commit, At
  <2>2. slice[w].want \in Verdicts
    BY <2>1, HandlerFacts DEF Fits
  <2>3. m.attempt = l.attempt
    <3>1. RowOK(l) /\ l \in LedgerRows
      BY <1>2, <2>1
    <3> HIDE DEF l
    <3> QED BY <2>2, <3>1, SealedFields
  <2> HIDE DEF m
  <2> QED BY <1>2, <2>1, <2>3, SameAttempt
<1> QED BY <1>1, <1>3, <1>4, <1>5, <1>6 DEF Handler

(* A committed result is delivered and never executed again: its task takes*)
(* no further attempt, by retry, resume or restart, unless new material    *)
(* reopened it (supplement makes it partial first).                        *)
THEOREM CommittedStays == ServiceSpec => CommittedIsFinal
<1>1. ASSUME ServiceInv, [ServiceNext]_all, NEW t \in Tasks, ledger[t].status = "completed"
      PROVE  ledger'[t].attempt = ledger[t].attempt
  <2>1. CASE UNCHANGED all \/ Die \/ Stop
    BY <2>1 DEF all, service, Die, Stop
  <2> QED BY <1>1, <2>1, HostCommitted, HandlerCommitted DEF ServiceNext
<1>2. ServiceInv /\ [ServiceNext]_all =>
         [\A t \in Tasks : ledger[t].status = "completed" =>
                              ledger'[t].attempt = ledger[t].attempt]_all
  BY <1>1
<1> QED BY <1>2, ServiceInvariance, PTL DEF ServiceSpec, CommittedIsFinal
=============================================================================
