------------------------ MODULE TaskCoordinatorProofs ------------------------
(***************************************************************************)
(* Theorems about TaskCoordinator for every number of tasks and threads,   *)
(* every cap and every pattern of storage and dispatch failures.           *)
(*                                                                         *)
(* The safety properties are not inductive: that a handler is alone with   *)
(* its task follows from where the task's only work item is.  Inv says so: *)
(* an item waits in the pool's queue (its future is pending), is held by a *)
(* thread that has not started (running, status queued), or is executed    *)
(* (status running, worker active, start recorded on disk); and no task    *)
(* has two items.                                                          *)
(***************************************************************************)
EXTENDS TaskCoordinator, FiniteSetTheorems, TLAPS

(* The item a thread has picked but not started.                           *)
PickedOK(w) ==
    LET r == records[job[w][1]] IN
    pc[w] = "picked" =>
        /\ r.status = "queued" /\ r.fut = "running"
        /\ r.attempt = job[w][2]

(* The item a thread is executing.                                         *)
ExecOK(w) ==
    LET r == records[job[w][1]]
        d == disk[job[w][1]]
    IN
    pc[w] = "executing" =>
        /\ r.status = "running" /\ r.fut = "running" /\ r.active
        /\ r.attempt = job[w][2]
        /\ d.status = "running" /\ d.attempt = job[w][2]

(* An item in the pool's queue.                                            *)
QueuedOK(k) ==
    LET r == records[queue[k][1]] IN
    /\ r.status = "queued" /\ r.fut = "pending"
    /\ r.attempt = queue[k][2]

WorkersInv == \A w \in Workers : PickedOK(w) /\ ExecOK(w)

QueueInv == \A k \in 1..Len(queue) : QueuedOK(k)

OneItemPerTask ==
    /\ \A v, w \in Workers :
          v # w /\ pc[v] # "idle" /\ pc[w] # "idle" => job[v][1] # job[w][1]
    /\ \A i, k \in 1..Len(queue) : i # k => queue[i][1] # queue[k][1]

(* The inductive invariant.                                                *)
Inv == TypeOK /\ WorkersInv /\ QueueInv /\ OneItemPerTask

-----------------------------------------------------------------------------
(* Lemmas about the helpers.                                               *)

(* Every record value the helpers build is a record.                       *)
LEMMA RecordTypes ==
    /\ Absent \in Record
    /\ \A r \in Record : Stored(r) \in Record /\ Loaded(r) \in Record
    /\ \A r \in Record : Canceled(r) \in Record
    /\ \A r \in Record, s \in WorkflowStatuses : Ended(r, s) \in Record
<1>1. Absent \in Record
  BY DEF Absent, Record, WorkflowStatuses, Targets, Scopes, Futures
<1>2. ASSUME NEW r \in Record PROVE Stored(r) \in Record
  BY DEF Record, Stored, Futures
<1>3. ASSUME NEW r \in Record PROVE Loaded(r) \in Record
  BY DEF Record, Loaded, WorkflowStatuses
<1>4. ASSUME NEW r \in Record PROVE Canceled(r) \in Record
  <2>1. [r EXCEPT !.status = "canceled", !.cancelReq = TRUE,
                   !.fut = IF @ = "pending" THEN "canceled" ELSE @,
                   !.handler = @ /\ ~r.fresh, !.cleanup = FALSE] \in Record
    <3> DEFINE f == IF r.fut = "pending" THEN "canceled" ELSE r.fut
               h == r.handler /\ ~r.fresh
    <3>1. f \in Futures
      BY DEF Record, Futures
    <3>2. h \in BOOLEAN
      OBVIOUS
    <3> HIDE DEF f, h
    <3>3. [r EXCEPT !.status = "canceled", !.cancelReq = TRUE, !.fut = f,
                    !.handler = h, !.cleanup = FALSE] \in Record
      BY <3>1, <3>2 DEF Record, WorkflowStatuses
    <3> QED BY <3>3 DEF f, h
  <2>2. [r EXCEPT !.cancelReq = TRUE] \in Record
    BY DEF Record
  <2> QED BY <2>1, <2>2 DEF Canceled
<1>5. ASSUME NEW r \in Record, NEW s \in WorkflowStatuses PROVE Ended(r, s) \in Record
  <2> DEFINE h == r.handler /\ ~r.fresh
  <2>1. h \in BOOLEAN
    OBVIOUS
  <2> HIDE DEF h
  <2>2. [r EXCEPT !.status = s, !.active = FALSE, !.cleanup = FALSE,
                  !.handler = h, !.fut = "done"] \in Record
    BY <2>1 DEF Record, Futures
  <2> QED BY <2>2 DEF Ended, h
<1> QED BY <1>1, <1>2, <1>3, <1>4, <1>5

(* Pruning touches finished records only.                                  *)
LEMMA DropKeepsUnfinished ==
    ASSUME NEW recs, NEW V \in Victims(recs), NEW u \in Tasks
    PROVE  /\ Drop(recs, V)[u] = recs[u] \/ Drop(recs, V)[u] = Absent
           /\ ~Finished(recs[u]) => u \notin V /\ Drop(recs, V)[u] = recs[u]
BY DEF Victims, Drop

(* A write stores the record it is called for and leaves the other         *)
(* unfinished records alone, in memory and on disk.                        *)
LEMMA SavedEffect ==
    ASSUME TypeOK, NEW recs \in [Tasks -> Record], NEW t \in Tasks, Saved(recs, t)
    PROVE  /\ records' \in [Tasks -> Record] /\ disk' \in [Tasks -> Record]
           /\ \A u \in Tasks : ~Finished(recs[u]) =>
                /\ records'[u] = recs[u]
                /\ disk'[u] = IF u = t THEN Stored(recs[t]) ELSE disk[u]
<1> DEFINE d == [disk EXCEPT ![t] = Stored(recs[t])]
<1>1. PICK V \in Victims(recs) : records' = Drop(recs, V) /\ disk' = Drop(d, V)
  BY DEF Saved
<1>2. d \in [Tasks -> Record]
  BY RecordTypes DEF TypeOK
<1>3. ASSUME NEW u \in Tasks, ~Finished(recs[u]) PROVE u \notin V
  BY <1>3, DropKeepsUnfinished
<1>4. \A u \in Tasks : d[u] = IF u = t THEN Stored(recs[t]) ELSE disk[u]
  BY DEF TypeOK
<1> HIDE DEF d
<1> QED BY <1>1, <1>2, <1>3, <1>4, RecordTypes DEF Drop

(* A lost write changes memory only.                                       *)
LEMMA LostEffect ==
    ASSUME NEW recs \in [Tasks -> Record], SaveLost(recs)
    PROVE  /\ records' \in [Tasks -> Record] /\ disk' = disk
           /\ \A u \in Tasks : ~Finished(recs[u]) => records'[u] = recs[u]
BY RecordTypes, DropKeepsUnfinished DEF SaveLost, Drop

-----------------------------------------------------------------------------
(* Steps that change one record.  What they must respect of everybody      *)
(* else is stated once: T is the task they may change.                     *)

OthersKept(t) ==
    \A u \in Tasks \ {t} : ~Finished(records[u]) =>
        records'[u] = records[u] /\ disk'[u] = disk[u]

TablesTyped == records' \in [Tasks -> Record] /\ disk' \in [Tasks -> Record]

(* The work items of the other tasks stay consistent with their records.   *)
LEMMA OtherItems ==
    ASSUME Inv, NEW t \in Tasks, OthersKept(t)
    PROVE  /\ \A w \in Workers :
                 /\ pc'[w] = pc[w] /\ job'[w] = job[w]
                 /\ pc[w] # "idle" => job[w][1] # t
                 => PickedOK(w)' /\ ExecOK(w)'
           /\ \A k \in 1..Len(queue) : queue[k][1] # t =>
                 records'[queue[k][1]] = records[queue[k][1]]
<1>1. ASSUME NEW w \in Workers, pc'[w] = pc[w], job'[w] = job[w],
             pc[w] # "idle" => job[w][1] # t
      PROVE  PickedOK(w)' /\ ExecOK(w)'
  <2>1. CASE pc[w] = "idle"
    BY <1>1, <2>1 DEF PickedOK, ExecOK
  <2>2. CASE pc[w] # "idle"
    <3>1. job[w][1] \in Tasks /\ job[w][1] # t
      BY <1>1, <2>2 DEF Inv, TypeOK, Items
    <3>2. ~Finished(records[job[w][1]])
      BY <2>2, <3>1 DEF Inv, TypeOK, WorkersInv, PickedOK, ExecOK, Finished, Active, TerminalStatuses
    <3>3. /\ records'[job[w][1]] = records[job[w][1]]
          /\ disk'[job[w][1]] = disk[job[w][1]]
      BY <3>1, <3>2 DEF OthersKept
    <3> QED BY <1>1, <3>3 DEF Inv, WorkersInv, PickedOK, ExecOK
  <2> QED BY <2>1, <2>2
<1>2. ASSUME NEW k \in 1..Len(queue), queue[k][1] # t
      PROVE  records'[queue[k][1]] = records[queue[k][1]]
  <2>1. queue[k][1] \in Tasks
    BY DEF Inv, TypeOK, Items
  <2>2. ~Finished(records[queue[k][1]])
    BY DEF Inv, QueueInv, QueuedOK, Finished, TerminalStatuses
  <2> QED BY <1>2, <2>1, <2>2 DEF OthersKept
<1> QED BY <1>1, <1>2

(* A record with no worker and nothing in the pool has no work item.       *)
LEMMA IdleTaskHasNoItem ==
    ASSUME Inv, NEW t \in Tasks,
           ~(records[t].status = "running" /\ records[t].active),
           ~(records[t].status = "queued" /\ records[t].fut \in {"pending", "running"})
    PROVE  /\ \A w \in Workers : pc[w] # "idle" => job[w][1] # t
           /\ \A k \in 1..Len(queue) : queue[k][1] # t
BY DEF Inv, TypeOK, WorkersInv, QueueInv, PickedOK, ExecOK, QueuedOK

(* The items after the step are items of before, and none is of task t.    *)
Withdrawn(t) ==
    /\ \A w \in Workers :
          \/ pc'[w] = "idle"
          \/ /\ pc'[w] = pc[w] /\ job'[w] = job[w]
             /\ pc[w] # "idle" => job[w][1] # t
    /\ queue' \in Seq(Items)
    /\ \A k \in 1..Len(queue') :
          queue'[k][1] # t /\ (\E m \in 1..Len(queue) : queue'[k] = queue[m])
    /\ \A i, k \in 1..Len(queue') : i # k => queue'[i][1] # queue'[k][1]

(* The same, for a step that may give t an item at the end of the queue.   *)
Detached(t) ==
    /\ \A w \in Workers :
          \/ pc'[w] = "idle"
          \/ /\ pc'[w] = pc[w] /\ job'[w] = job[w]
             /\ pc[w] # "idle" => job[w][1] # t
    /\ \A k \in 1..Len(queue) : queue[k][1] # t

(* The part of Inv that speaks of work items, after a step.                *)
ItemsInv == WorkersInv /\ QueueInv /\ OneItemPerTask

LEMMA WithdrawnStep ==
    ASSUME Inv, NEW t \in Tasks, OthersKept(t), Withdrawn(t)
    PROVE  ItemsInv'
<1>1. WorkersInv'
  <2> SUFFICES ASSUME NEW w \in Workers PROVE PickedOK(w)' /\ ExecOK(w)'
    BY DEF WorkersInv
  <2>1. CASE pc'[w] = "idle"
    BY <2>1 DEF PickedOK, ExecOK
  <2>2. CASE pc'[w] # "idle"
    BY <2>2, OtherItems DEF Withdrawn
  <2> QED BY <2>1, <2>2
<1>2. QueueInv'
  <2> SUFFICES ASSUME NEW k \in 1..Len(queue') PROVE QueuedOK(k)'
    BY DEF QueueInv
  <2>1. PICK m \in 1..Len(queue) : queue'[k] = queue[m]
    BY DEF Withdrawn
  <2>2. queue[m][1] # t
    BY <2>1 DEF Withdrawn
  <2>3. records'[queue[m][1]] = records[queue[m][1]]
    BY <2>2, OtherItems
  <2> QED BY <2>1, <2>3 DEF Inv, QueueInv, QueuedOK
<1>3. OneItemPerTask'
  BY DEF Inv, OneItemPerTask, Withdrawn
<1> QED BY <1>1, <1>2, <1>3 DEF ItemsInv

LEMMA DetachedStep ==
    ASSUME Inv, NEW t \in Tasks, OthersKept(t), Detached(t), queue' = queue
    PROVE  ItemsInv'
<1>1. Withdrawn(t)
  BY DEF Detached, Withdrawn, Inv, TypeOK, OneItemPerTask
<1> QED BY <1>1, WithdrawnStep

(* Saving one record keeps the unfinished others.                          *)
LEMMA SaveKeepsOthers ==
    ASSUME TypeOK, NEW t \in Tasks, NEW r \in Record, Save(With(t, r), t)
    PROVE  /\ TablesTyped /\ OthersKept(t)
           /\ ~Finished(r) => /\ records'[t] = r
                              /\ disk'[t] = Stored(r) \/ disk'[t] = disk[t]
<1> DEFINE recs == With(t, r)
<1>1. recs \in [Tasks -> Record] /\ recs[t] = r
  BY DEF TypeOK, With
<1>2. \A u \in Tasks \ {t} : recs[u] = records[u]
  BY DEF TypeOK, With
<1>3. Saved(recs, t) \/ SaveLost(recs)
  BY DEF Save
<1> HIDE DEF recs
<1>4. CASE Saved(recs, t)
  BY <1>1, <1>2, <1>4, SavedEffect DEF TablesTyped, OthersKept
<1>5. CASE SaveLost(recs)
  BY <1>1, <1>2, <1>5, LostEffect DEF TablesTyped, OthersKept, TypeOK
<1> QED BY <1>3, <1>4, <1>5

(* Saving a record whose items are gone.                                   *)
LEMMA SaveStep ==
    ASSUME Inv, NEW t \in Tasks, NEW r \in Record, Save(With(t, r), t),
           Detached(t), queue' = queue
    PROVE  TablesTyped /\ ItemsInv'
<1>3. TablesTyped /\ OthersKept(t)
  BY SaveKeepsOthers DEF Inv
<1> QED BY <1>3, DetachedStep

(* A task without items gets one at the end of the queue.                  *)
LEMMA AppendStep ==
    ASSUME Inv, NEW t \in Tasks, TablesTyped, OthersKept(t), Detached(t),
           records'[t].status = "queued", records'[t].fut = "pending",
           queue' = Append(queue, <<t, records'[t].attempt>>)
    PROVE  ItemsInv' /\ queue' \in Seq(Items)
<1> DEFINE a == records'[t].attempt
<1>1. a \in Nat
  BY DEF TablesTyped, Record
<1> HIDE DEF a
<1>2. /\ queue' \in Seq(Items) /\ Len(queue') = Len(queue) + 1
      /\ queue'[Len(queue) + 1] = <<t, a>>
      /\ \A k \in 1..Len(queue) : queue'[k] = queue[k]
  BY <1>1 DEF Inv, TypeOK, Items, a
<1>3. WorkersInv'
  <2> SUFFICES ASSUME NEW w \in Workers PROVE PickedOK(w)' /\ ExecOK(w)'
    BY DEF WorkersInv
  <2>1. CASE pc'[w] = "idle"
    BY <2>1 DEF PickedOK, ExecOK
  <2>2. CASE pc'[w] # "idle"
    BY <2>2, OtherItems DEF Detached
  <2> QED BY <2>1, <2>2
<1>4. QueueInv'
  <2> SUFFICES ASSUME NEW k \in 1..Len(queue') PROVE QueuedOK(k)'
    BY DEF QueueInv
  <2>1. CASE k = Len(queue) + 1
    BY <1>2, <2>1 DEF QueuedOK, a
  <2>2. CASE k # Len(queue) + 1
    <3>1. k \in 1..Len(queue) /\ queue'[k] = queue[k]
      BY <1>2, <2>2 DEF Inv, TypeOK
    <3>2. records'[queue[k][1]] = records[queue[k][1]]
      BY <3>1, OtherItems DEF Detached
    <3> QED BY <3>1, <3>2 DEF Inv, QueueInv, QueuedOK
  <2> QED BY <2>1, <2>2
<1>5. OneItemPerTask'
  <2>1. \A i, k \in 1..Len(queue') : i # k => queue'[i][1] # queue'[k][1]
    <3> SUFFICES ASSUME NEW i \in 1..Len(queue'), NEW k \in 1..Len(queue'), i # k
                 PROVE  queue'[i][1] # queue'[k][1]
      OBVIOUS
    <3>1. \A n \in 1..Len(queue') : n = Len(queue) + 1 \/ n \in 1..Len(queue)
      BY <1>2 DEF Inv, TypeOK
    <3> QED BY <1>2, <3>1 DEF Inv, OneItemPerTask, Detached
  <2> QED BY <2>1 DEF Inv, OneItemPerTask, Detached
<1> QED BY <1>2, <1>3, <1>4, <1>5 DEF ItemsInv

(* What the pool refuses and the disk does not take either: the others are *)
(* kept, whatever is forgotten of the finished ones.                       *)
LEMMA RefusalKeepsOthers ==
    ASSUME TypeOK, NEW t \in Tasks, NEW r \in Record, NEW e \in Record,
           RefusalLost(With(t, r), With(t, e), t)
    PROVE  TablesTyped /\ OthersKept(t) /\ queue' = queue
<1> DEFINE recs == With(t, r)
           failed == With(t, e)
           rows == [disk EXCEPT ![t] = Stored(recs[t])]
<1>1. PICK W \in Victims(recs), V \in Victims(failed) :
          W \subseteq V /\ records' = Drop(failed, V) /\ disk' = Drop(rows, W)
  BY DEF RefusalLost
<1>2. /\ recs \in [Tasks -> Record] /\ failed \in [Tasks -> Record]
      /\ \A u \in Tasks \ {t} : failed[u] = records[u]
  BY DEF TypeOK, With
<1>3. rows \in [Tasks -> Record] /\ \A u \in Tasks \ {t} : rows[u] = disk[u]
  BY <1>2, RecordTypes DEF TypeOK
<1>4. queue' = queue
  BY DEF RefusalLost
<1> HIDE DEF recs, failed, rows
<1>5. ASSUME NEW u \in Tasks \ {t}, ~Finished(records[u])
      PROVE  records'[u] = records[u] /\ disk'[u] = disk[u]
  <2>1. u \notin V /\ u \notin W
    BY <1>1, <1>2, <1>5, DropKeepsUnfinished
  <2> QED BY <1>1, <1>2, <1>3, <2>1 DEF Drop
<1>6. TablesTyped
  BY <1>1, <1>2, <1>3, RecordTypes DEF TablesTyped, Drop
<1> QED BY <1>4, <1>5, <1>6 DEF OthersKept

(* Admitting a record whose items are gone.                                *)
LEMMA EnqueueStep ==
    ASSUME Inv, NEW t \in Tasks, NEW r \in Record,
           r.status = "queued",
           Enqueue(With(t, r), t), Detached(t)
    PROVE  TablesTyped /\ ItemsInv' /\ queue' \in Seq(Items)
<1> DEFINE recs == [With(t, r) EXCEPT ![t].fut = "pending"]
           p == [r EXCEPT !.fut = "pending"]
<1>1. CASE Dispatched(With(t, r), t)
  <2>1. /\ p \in Record /\ p.status = "queued" /\ p.fut = "pending"
        /\ p.attempt = r.attempt
    BY DEF Record, Futures
  <2>2. recs = With(t, p) /\ With(t, r)[t] = r
    BY DEF Inv, TypeOK, With
  <2>3. Saved(With(t, p), t) /\ queue' = Append(queue, <<t, r.attempt>>)
    BY <1>1, <2>2 DEF Dispatched
  <2> HIDE DEF recs, p
  <2>4. TablesTyped /\ OthersKept(t) /\ (~Finished(p) => records'[t] = p)
    BY <2>1, <2>3, SaveKeepsOthers DEF Inv, Save
  <2>5. records'[t] = p
    BY <2>1, <2>4 DEF Finished, TerminalStatuses
  <2> QED BY <2>1, <2>3, <2>4, <2>5, AppendStep
<1> DEFINE e == [r EXCEPT !.status = "failed"]
<1>5. e \in Record /\ Failed(With(t, r), t) = With(t, e)
  BY DEF Record, WorkflowStatuses, Inv, TypeOK, With, Failed
<1> HIDE DEF e
<1>2. CASE Refused(With(t, r), t)
  BY <1>2, <1>5, SaveStep DEF Refused, Save, Inv, TypeOK
<1>4. CASE RefusalLost(With(t, r), Failed(With(t, r), t), t)
  BY <1>4, <1>5, RefusalKeepsOthers, DetachedStep DEF Inv, TypeOK
<1>3. CASE SaveLost(With(t, r)) /\ UNCHANGED queue
  BY <1>3, SaveStep DEF Save, Inv, TypeOK
<1> QED BY <1>1, <1>2, <1>3, <1>4 DEF Enqueue

(* Saving a record whose item, if any, stays where it is.                  *)
LEMMA TouchStep ==
    ASSUME Inv, NEW t \in Tasks, NEW r \in Record, Save(With(t, r), t),
           r.status = records[t].status, r.fut = records[t].fut,
           r.active = records[t].active, r.attempt = records[t].attempt,
           UNCHANGED <<queue, pc, job>>
    PROVE  TablesTyped /\ ItemsInv'
<1>3. TablesTyped /\ OthersKept(t)
  BY SaveKeepsOthers DEF Inv
<1>4. ~Finished(records[t]) =>
          records'[t] = r /\ (disk'[t] = Stored(r) \/ disk'[t] = disk[t])
  <2>1. Finished(r) <=> Finished(records[t])
    BY DEF Finished, Active
  <2> QED BY <2>1, SaveKeepsOthers DEF Inv
<1>5. Stored(r).status = r.status /\ Stored(r).attempt = r.attempt
  BY DEF Stored, Record
<1>6. WorkersInv'
  <2> SUFFICES ASSUME NEW w \in Workers, pc[w] # "idle" PROVE PickedOK(w)' /\ ExecOK(w)'
    BY DEF WorkersInv, PickedOK, ExecOK
  <2>1. CASE job[w][1] # t
    BY <1>3, <2>1, OtherItems
  <2>2. CASE job[w][1] = t
    <3>1. ~Finished(records[t])
      BY <2>2 DEF Inv, TypeOK, WorkersInv, PickedOK, ExecOK, Finished, TerminalStatuses
    <3> QED BY <1>4, <1>5, <2>2, <3>1 DEF Inv, WorkersInv, PickedOK, ExecOK
  <2> QED BY <2>1, <2>2
<1>7. QueueInv'
  <2> SUFFICES ASSUME NEW k \in 1..Len(queue) PROVE QueuedOK(k)'
    BY DEF QueueInv
  <2>1. CASE queue[k][1] # t
    BY <1>3, <2>1, OtherItems DEF Inv, QueueInv, QueuedOK
  <2>2. CASE queue[k][1] = t
    <3>1. ~Finished(records[t])
      BY <2>2 DEF Inv, QueueInv, QueuedOK, Finished, TerminalStatuses
    <3> QED BY <1>4, <2>2, <3>1 DEF Inv, QueueInv, QueuedOK
  <2> QED BY <2>1, <2>2
<1>8. OneItemPerTask'
  BY DEF Inv, OneItemPerTask
<1> QED BY <1>3, <1>6, <1>7, <1>8 DEF ItemsInv

(* A withdrawn item is gone from the queue, and nothing else is.           *)
LEMMA UnqueueEffect ==
    ASSUME Inv, NEW t \in Tasks,
           records[t].fut = "pending"
    PROVE  LET q == Unqueue(<<t, records[t].attempt>>) IN
           /\ q \in Seq(Items)
           /\ \A k \in 1..Len(q) :
                 q[k][1] # t /\ (\E m \in 1..Len(queue) : q[k] = queue[m])
           /\ \A i, k \in 1..Len(q) : i # k => q[i][1] # q[k][1]
<1> SUFFICES ASSUME NEW q, q = Unqueue(<<t, records[t].attempt>>)
             PROVE  /\ q \in Seq(Items)
                    /\ \A k \in 1..Len(q) :
                          q[k][1] # t /\ (\E m \in 1..Len(queue) : q[k] = queue[m])
                    /\ \A i, k \in 1..Len(q) : i # k => q[i][1] # q[k][1]
  OBVIOUS
<1> DEFINE j == <<t, records[t].attempt>>
<1>1. \A k \in 1..Len(queue) : queue[k] \in Items /\ queue[k] = <<queue[k][1], queue[k][2]>>
  BY DEF Inv, TypeOK, Items
<1>2. \A k \in 1..Len(queue) : queue[k][1] = t => queue[k] = j
  BY <1>1 DEF Inv, QueueInv, QueuedOK
<1>3. \A k \in 1..Len(queue) : queue[k] = j => queue[k][1] = t
  BY <1>1
<1>4. \A i, k \in 1..Len(queue) : i # k => queue[i][1] # queue[k][1]
  BY DEF Inv, OneItemPerTask
<1>5. queue \in Seq(Items) /\ Len(queue) \in Nat
  BY DEF Inv, TypeOK
<1> HIDE DEF j
<1>6. CASE ~(\E k \in 1..Len(queue) : queue[k] = j)
  BY <1>2, <1>4, <1>5, <1>6 DEF Unqueue, j
<1>7. CASE \E k \in 1..Len(queue) : queue[k] = j
  <2> DEFINE n == CHOOSE k \in 1..Len(queue) : queue[k] = j
             from(i) == IF i < n THEN i ELSE i + 1
  <2>1. n \in 1..Len(queue) /\ queue[n] = j
    BY <1>7
  <2>2. q = [i \in 1..(Len(queue) - 1) |-> queue[from(i)]]
    BY <1>7 DEF Unqueue, j
  <2> HIDE DEF n
  <2>3. \A i \in 1..(Len(queue) - 1) : from(i) \in 1..Len(queue) /\ from(i) # n
    BY <1>5, <2>1
  <2>4. \A i, k \in 1..(Len(queue) - 1) : i # k => from(i) # from(k)
    BY <1>5, <2>1
  <2> HIDE DEF from
  <2>5. Len(queue) - 1 \in Nat
    BY <1>5, <2>1
  <2>6. q \in Seq(Items) /\ Len(q) = Len(queue) - 1
    <3> DEFINE m == Len(queue) - 1
    <3>1. q \in [1..m -> Items]
      BY <1>1, <2>2, <2>3
    <3>2. m \in Nat
      BY <2>5
    <3> HIDE DEF m
    <3>3. q \in Seq(Items) /\ Len(q) = m
      BY <3>1, <3>2
    <3> QED BY <3>3 DEF m
  <2>7. \A i \in 1..Len(q) : q[i] = queue[from(i)] /\ from(i) \in 1..Len(queue) /\ from(i) # n
    BY <2>2, <2>3, <2>6
  <2>8. \A i \in 1..Len(q) : q[i][1] # t
    BY <1>2, <1>3, <1>4, <2>1, <2>7
  <2>9. \A i, k \in 1..Len(q) : i # k => q[i][1] # q[k][1]
    <3> SUFFICES ASSUME NEW i \in 1..Len(q), NEW k \in 1..Len(q), i # k
                 PROVE  q[i][1] # q[k][1]
      OBVIOUS
    <3>1. from(i) # from(k)
      BY <2>4, <2>6
    <3>2. queue[from(i)][1] # queue[from(k)][1]
      BY <1>4, <2>7, <3>1
    <3> QED BY <2>7, <3>2
  <2> QED BY <2>6, <2>7, <2>8, <2>9
<1> QED BY <1>6, <1>7

-----------------------------------------------------------------------------
(* The invariant holds initially and is kept by every action.              *)

LEMMA InitInv == Init => Inv
<1> SUFFICES ASSUME Init PROVE Inv
  OBVIOUS
<1>1. TypeOK
  <2>1. <<>> \in Seq(Items)
    OBVIOUS
  <2> QED BY <2>1, RecordTypes DEF Init, TypeOK
<1>2. WorkersInv
  BY DEF Init, WorkersInv, PickedOK, ExecOK
<1>3. QueueInv /\ OneItemPerTask
  BY DEF Init, QueueInv, OneItemPerTask
<1> QED BY <1>1, <1>2, <1>3 DEF Inv

(* The record of a new submission.                                         *)
LEMMA NewRecordType ==
    ASSUME Inv, NEW t \in Tasks, NEW q \in Requests
    PROVE  NewRecord(t, q) \in Record /\ NewRecord(t, q).status = "queued"
<1>1. /\ q.scope \in Scopes /\ q.target \in Targets
      /\ q.fresh \in BOOLEAN /\ q.query \in BOOLEAN
  BY CoordinatorAssumption DEF Scopes, Targets
<1>2. records[t].attempt + 1 \in Nat
  BY DEF Inv, TypeOK, Record
<1> QED BY <1>1, <1>2 DEF NewRecord, Absent, Record, WorkflowStatuses, Targets, Futures

LEMMA SubmitInv ==
    ASSUME Inv, NEW t \in Tasks, NEW q \in Requests,
           NEW reopen \in BOOLEAN, NEW defer \in BOOLEAN, Submit(t, q, reopen, defer)
    PROVE  Inv'
<1>1. /\ ~(records[t].status = "running" /\ records[t].active)
      /\ ~(records[t].status = "queued" /\ records[t].fut \in {"pending", "running"})
  BY DEF Submit, Exists, Reopenable, Outstanding, Active
<1>2. Detached(t)
  BY <1>1, IdleTaskHasNoItem DEF Submit, Detached
<1>3. TablesTyped /\ ItemsInv' /\ queue' \in Seq(Items)
  <2>1. CASE defer
    BY <1>2, <2>1, NewRecordType, SaveStep DEF Submit, Inv, TypeOK
  <2>2. CASE ~defer
    BY <1>2, <2>2, NewRecordType, EnqueueStep DEF Submit
  <2> QED BY <2>1, <2>2
<1>4. TypeOK'
  BY <1>3 DEF Submit, TablesTyped, Inv, TypeOK
<1> QED BY <1>3, <1>4 DEF Inv, ItemsInv

LEMMA DispatchInv ==
    ASSUME Inv, NEW t \in Tasks, Dispatch(t)
    PROVE  Inv'
<1>1. Detached(t)
  BY IdleTaskHasNoItem DEF Dispatch, Detached
<1>2. records[t] \in Record /\ records[t].status = "queued"
  BY DEF Dispatch, Inv, TypeOK
<1>3. TablesTyped /\ ItemsInv' /\ queue' \in Seq(Items)
  <2>1. CASE Save(Failed(records, t), t) /\ UNCHANGED queue
    <3> DEFINE e == [records[t] EXCEPT !.status = "failed"]
    <3>1. e \in Record /\ Failed(records, t) = With(t, e)
      BY <1>2 DEF Record, WorkflowStatuses, Inv, TypeOK, With, Failed
    <3> HIDE DEF e
    <3> QED BY <1>1, <2>1, <3>1, SaveStep DEF Inv, TypeOK
  <2>2. CASE /\ records' = With(t, [records[t] EXCEPT !.fut = "pending"])
             /\ queue' = Append(queue, <<t, records[t].attempt>>)
             /\ UNCHANGED disk
    <3> DEFINE p == [records[t] EXCEPT !.fut = "pending"]
    <3>1. p \in Record /\ p.status = "queued" /\ p.fut = "pending"
          /\ p.attempt = records[t].attempt
      BY <1>2 DEF Record, Futures
    <3> HIDE DEF p
    <3>2. TablesTyped /\ OthersKept(t) /\ records'[t] = p
      BY <2>2, <3>1 DEF TablesTyped, OthersKept, With, Inv, TypeOK, p
    <3> QED BY <1>1, <2>2, <3>1, <3>2, AppendStep
  <2> QED BY <2>1, <2>2 DEF Dispatch
<1>4. TypeOK'
  BY <1>3 DEF Dispatch, TablesTyped, Inv, TypeOK
<1> QED BY <1>3, <1>4 DEF Inv, ItemsInv

LEMMA CancelInv ==
    ASSUME Inv, NEW t \in Tasks, Cancel(t)
    PROVE  Inv'
<1> DEFINE r == records[t]
           c == Canceled(r)
<1>1. r \in Record /\ c \in Record
  BY RecordTypes DEF Inv, TypeOK
<1>2. Save(With(t, c), t)
  BY DEF Cancel, Save
<1>3. TablesTyped /\ ItemsInv' /\ queue' \in Seq(Items)
  <2>1. CASE Stoppable(r)
    <3>1. \A w \in Workers : pc[w] # "idle" => job[w][1] # t
      BY <2>1 DEF Stoppable, Active, Inv, TypeOK, WorkersInv, PickedOK, ExecOK
    <3>2. CASE r.fut = "pending"
      <4>1. queue' = Unqueue(<<t, r.attempt>>)
        BY <3>2 DEF Cancel
      <4>2. /\ queue' \in Seq(Items)
            /\ \A k \in 1..Len(queue') :
                  queue'[k][1] # t /\ (\E m \in 1..Len(queue) : queue'[k] = queue[m])
            /\ \A i, k \in 1..Len(queue') : i # k => queue'[i][1] # queue'[k][1]
        <5> DEFINE q == Unqueue(<<t, r.attempt>>)
        <5>1. /\ q \in Seq(Items)
              /\ \A k \in 1..Len(q) :
                    q[k][1] # t /\ (\E m \in 1..Len(queue) : q[k] = queue[m])
              /\ \A i, k \in 1..Len(q) : i # k => q[i][1] # q[k][1]
          BY <3>2, UnqueueEffect
        <5>2. queue' = q
          BY <4>1
        <5> HIDE DEF q
        <5> QED BY <5>1, <5>2
      <4>3. Withdrawn(t)
        BY <3>1, <4>2 DEF Withdrawn, Cancel
      <4>4. TablesTyped /\ OthersKept(t)
        BY <1>1, <1>2, SaveKeepsOthers DEF Inv
      <4> QED BY <4>2, <4>3, <4>4, WithdrawnStep
    <3>3. CASE r.fut # "pending"
      <4>1. queue' = queue
        BY <3>3 DEF Cancel
      <4>2. \A k \in 1..Len(queue) : queue[k][1] # t
        BY <3>3 DEF Inv, QueueInv, QueuedOK
      <4>3. Detached(t)
        BY <3>1, <4>2 DEF Detached, Cancel
      <4> QED BY <1>1, <1>2, <4>1, <4>3, SaveStep DEF Inv, TypeOK
    <3> QED BY <3>2, <3>3
  <2>2. CASE ~Stoppable(r)
    <3>1. c = [r EXCEPT !.cancelReq = TRUE] /\ r.fut # "pending"
      BY <2>2 DEF Canceled, Stoppable
    <3>2. c.status = r.status /\ c.fut = r.fut /\ c.active = r.active /\ c.attempt = r.attempt
      BY <1>1, <3>1 DEF Record
    <3>3. UNCHANGED <<queue, pc, job>>
      BY <3>1 DEF Cancel
    <3> QED BY <1>1, <1>2, <3>2, <3>3, TouchStep DEF Inv, TypeOK
  <2> QED BY <2>1, <2>2
<1>4. finalizers' \subseteq Items
  BY <1>1 DEF Cancel, Owed, Items, Inv, TypeOK, Record
<1>5. TypeOK'
  BY <1>3, <1>4 DEF Cancel, TablesTyped, Inv, TypeOK
<1> QED BY <1>3, <1>5 DEF Inv, ItemsInv

LEMMA RetryInv ==
    ASSUME Inv, NEW t \in Tasks, Retry(t)
    PROVE  Inv'
<1> DEFINE n == [records[t] EXCEPT !.status = "queued", !.attempt = @ + 1,
                                   !.cancelReq = FALSE]
<1>1. n \in Record /\ n.status = "queued"
  <2>1. records[t] \in Record
    BY DEF Inv, TypeOK
  <2> DEFINE a == records[t].attempt + 1
  <2>2. a \in Nat
    BY <2>1 DEF Record
  <2> HIDE DEF a
  <2>3. LET m == [records[t] EXCEPT !.status = "queued", !.attempt = a, !.cancelReq = FALSE]
        IN  m \in Record /\ m.status = "queued"
    BY <2>1, <2>2 DEF Record, WorkflowStatuses
  <2> QED BY <2>3 DEF a
<1>2. Detached(t)
  BY IdleTaskHasNoItem DEF Retry, Active, Detached
<1>3. Enqueue(With(t, n), t)
  BY DEF Retry
<1> HIDE DEF n
<1>4. TablesTyped /\ ItemsInv' /\ queue' \in Seq(Items)
  BY <1>1, <1>2, <1>3, EnqueueStep
<1>5. TypeOK'
  BY <1>4 DEF Retry, TablesTyped, Inv, TypeOK
<1> QED BY <1>4, <1>5 DEF Inv, ItemsInv

(* Steps that only rewrite a record's other fields.                        *)
LEMMA TouchInv ==
    ASSUME Inv, NEW t \in Tasks, NEW r \in Record, Save(With(t, r), t),
           r.status = records[t].status, r.fut = records[t].fut,
           r.active = records[t].active, r.attempt = records[t].attempt,
           UNCHANGED <<queue, pc, job, closed, finalizers, lost>>
    PROVE  Inv'
<1>1. TablesTyped /\ ItemsInv'
  BY TouchStep
<1>2. TypeOK'
  BY <1>1 DEF TablesTyped, Inv, TypeOK
<1> QED BY <1>1, <1>2 DEF Inv, ItemsInv

LEMMA NoticeInv ==
    ASSUME Inv, NEW t \in Tasks, NEW a \in 1..MaxAttempt,
           ClaimNotice(t, a) \/ RecordNotice(t, a)
    PROVE  Inv'
<1>1. records[t] \in Record
  BY DEF Inv, TypeOK
<1>2. \A n \in {"claimed", "recorded"} :
         LET r == [records[t] EXCEPT !.notice = n] IN
         /\ r \in Record
         /\ r.status = records[t].status /\ r.fut = records[t].fut
         /\ r.active = records[t].active /\ r.attempt = records[t].attempt
  BY <1>1 DEF Record
<1> QED BY <1>2, TouchInv DEF ClaimNotice, RecordNotice

LEMMA ClaimTargetInv ==
    ASSUME Inv, NEW w \in Workers, NEW q \in Requests, ClaimTarget(w, q)
    PROVE  Inv'
<1> DEFINE t == job[w][1]
           r == [records[t] EXCEPT !.target = q.target, !.claimed = records[t].attempt]
<1>1. t \in Tasks /\ records[t] \in Record
  BY DEF ClaimTarget, Inv, TypeOK, Items
<1>2. /\ r \in Record
      /\ r.status = records[t].status /\ r.fut = records[t].fut
      /\ r.active = records[t].active /\ r.attempt = records[t].attempt
  BY <1>1 DEF Record, Targets
<1>3. Save(With(t, r), t) /\ UNCHANGED <<queue, pc, job, closed, finalizers, lost>>
  BY DEF ClaimTarget
<1> HIDE DEF t, r
<1> QED BY <1>1, <1>2, <1>3, TouchInv

LEMMA UpdateProgressInv ==
    ASSUME Inv, NEW w \in Workers, UpdateProgress(w)
    PROVE  Inv'
<1> DEFINE t == job[w][1]
<1>1. t \in Tasks /\ records[t] \in Record
  BY DEF UpdateProgress, Inv, TypeOK, Items
<1>2. With(t, records[t]) = records
  BY DEF With, Inv, TypeOK
<1> QED BY <1>1, <1>2, TouchInv DEF UpdateProgress

-----------------------------------------------------------------------------
(* The steps of the threads.                                               *)

(* The item of a busy thread is the only one of its task.                  *)
LEMMA OnlyItem ==
    ASSUME Inv, NEW w \in Workers, pc[w] # "idle"
    PROVE  /\ job[w] \in Items /\ job[w][1] \in Tasks /\ job[w][2] \in Nat
           /\ records[job[w][1]] \in Record
           /\ \A v \in Workers \ {w} : pc[v] # "idle" => job[v][1] # job[w][1]
           /\ \A k \in 1..Len(queue) : queue[k][1] # job[w][1]
<1>1. job[w] \in Items /\ job[w][1] \in Tasks /\ job[w][2] \in Nat
  BY DEF Inv, TypeOK, Items
<1>2. records[job[w][1]].fut = "running"
  BY DEF Inv, TypeOK, WorkersInv, PickedOK, ExecOK
<1> QED BY <1>1, <1>2 DEF Inv, TypeOK, QueueInv, QueuedOK, OneItemPerTask

(* A thread that lets go of its item leaves its task without one.          *)
LEMMA LettingGo ==
    ASSUME Inv, NEW w \in Workers, pc[w] # "idle", Idle(w)
    PROVE  /\ Detached(job[w][1])
           /\ pc' \in [Workers -> {"idle", "picked", "executing"}]
           /\ job' \in [Workers -> Items \cup {<<>>}]
           /\ \A v \in Workers : pc'[v] # "idle" => job'[v] \in Items
BY OnlyItem DEF Idle, Detached, Inv, TypeOK

LEMMA PickInv ==
    ASSUME Inv, NEW w \in Workers, Pick(w)
    PROVE  Inv'
<1> DEFINE j == Head(queue)
           t == j[1]
           r == [records[t] EXCEPT !.fut = IF @ = "pending" THEN "running" ELSE @]
<1>1. /\ queue \in Seq(Items) /\ Len(queue) \in Nat /\ 1 \in 1..Len(queue)
      /\ j = queue[1] /\ j \in Items /\ t \in Tasks
  BY DEF Pick, Inv, TypeOK, Items
<1>2. /\ queue' \in Seq(Items) /\ Len(queue') = Len(queue) - 1
      /\ \A k \in 1..Len(queue') : queue'[k] = queue[k + 1] /\ k + 1 \in 1..Len(queue)
  BY <1>1 DEF Pick
<1>3. /\ r \in Record /\ r.status = "queued" /\ r.fut = "running"
      /\ r.attempt = j[2]
  <2>1. records[t] \in Record
    BY <1>1 DEF Inv, TypeOK
  <2>2. records[t].status = "queued" /\ records[t].fut = "pending" /\ records[t].attempt = j[2]
    BY <1>1 DEF Inv, QueueInv, QueuedOK
  <2> HIDE DEF t, j
  <2> QED BY <2>1, <2>2 DEF Record, Futures
<1>4. /\ records' \in [Tasks -> Record] /\ records'[t] = r /\ disk' = disk
      /\ \A u \in Tasks \ {t} : records'[u] = records[u]
  BY <1>1, <1>3 DEF Pick, With, Inv, TypeOK
<1>5. /\ pc[w] = "idle"
      /\ pc' = [pc EXCEPT ![w] = "picked"] /\ job' = [job EXCEPT ![w] = j]
      /\ UNCHANGED <<closed, finalizers, lost>>
  BY DEF Pick
<1>6. records[t].fut = "pending"
  BY <1>1 DEF Inv, QueueInv, QueuedOK
<1> HIDE DEF r
<1>7. \A v \in Workers : pc[v] # "idle" => job[v][1] # t
  BY <1>6 DEF Inv, TypeOK, WorkersInv, PickedOK, ExecOK
<1>8. \A k \in 1..Len(queue') : queue'[k][1] # t
  <2> SUFFICES ASSUME NEW k \in 1..Len(queue') PROVE queue'[k][1] # t
    OBVIOUS
  <2>1. k + 1 # 1 /\ k + 1 \in 1..Len(queue) /\ queue'[k] = queue[k + 1]
    BY <1>2
  <2> QED BY <1>1, <2>1 DEF Inv, OneItemPerTask
<1>9. OthersKept(t)
  BY <1>4 DEF OthersKept
<1> HIDE DEF t, j
<1>10. WorkersInv'
  <2> SUFFICES ASSUME NEW v \in Workers PROVE PickedOK(v)' /\ ExecOK(v)'
    BY DEF WorkersInv
  <2>1. CASE v = w
    BY <1>3, <1>4, <1>5, <2>1 DEF PickedOK, ExecOK, Inv, TypeOK, t
  <2>2. CASE v # w
    <3>1. pc'[v] = pc[v] /\ job'[v] = job[v]
      BY <1>5, <2>2
    <3> QED BY <1>1, <1>7, <1>9, <3>1, OtherItems
  <2> QED BY <2>1, <2>2
<1>11. QueueInv'
  <2> SUFFICES ASSUME NEW k \in 1..Len(queue') PROVE QueuedOK(k)'
    BY DEF QueueInv
  <2>1. queue'[k] = queue[k + 1] /\ k + 1 \in 1..Len(queue)
    BY <1>2
  <2>2. queue[k + 1][1] # t
    BY <1>8, <2>1
  <2>3. records'[queue[k + 1][1]] = records[queue[k + 1][1]]
    BY <1>1, <1>9, <2>1, <2>2, OtherItems
  <2> QED BY <2>1, <2>3 DEF Inv, QueueInv, QueuedOK
<1>12. OneItemPerTask'
  <2>1. \A u, v \in Workers :
           u # v /\ pc'[u] # "idle" /\ pc'[v] # "idle" => job'[u][1] # job'[v][1]
    BY <1>5, <1>7 DEF Inv, TypeOK, OneItemPerTask, t
  <2>2. \A i, k \in 1..Len(queue') : i # k => queue'[i][1] # queue'[k][1]
    <3> SUFFICES ASSUME NEW i \in 1..Len(queue'), NEW k \in 1..Len(queue'), i # k
                 PROVE  queue'[i][1] # queue'[k][1]
      OBVIOUS
    <3>1. i + 1 # k + 1
      BY <1>2
    <3> QED BY <1>2, <3>1 DEF Inv, OneItemPerTask
  <2> QED BY <2>1, <2>2 DEF OneItemPerTask
<1>13. TypeOK'
  BY <1>1, <1>2, <1>4, <1>5 DEF Inv, TypeOK
<1> QED BY <1>10, <1>11, <1>12, <1>13 DEF Inv

LEMMA StartInv ==
    ASSUME Inv, NEW w \in Workers, Start(w)
    PROVE  Inv'
<1> DEFINE t == job[w][1]
           a == job[w][2]
           r == records[t]
           begun == [r EXCEPT !.status = "running", !.active = TRUE]
           ended == [r EXCEPT !.fut = IF r.attempt = a /\ @ = "running" THEN "done" ELSE @]
<1>1. pc[w] = "picked" /\ UNCHANGED <<queue, closed, finalizers, lost>>
  BY DEF Start
<1>2. t \in Tasks /\ r \in Record
  BY <1>1, OnlyItem
<1>3. r.status = "queued" /\ r.fut = "running" /\ r.attempt = a
  BY <1>1 DEF Inv, WorkersInv, PickedOK
<1>4. CASE records' = With(t, ended) /\ Idle(w) /\ UNCHANGED disk
  <2>1. ended \in Record
    BY <1>2 DEF Record, Futures
  <2>2. TablesTyped /\ OthersKept(t)
    BY <1>2, <1>4, <2>1 DEF TablesTyped, OthersKept, With, Inv, TypeOK
  <2> HIDE DEF ended
  <2>3. Detached(t)
    BY <1>1, <1>4, LettingGo
  <2>4. ItemsInv'
    BY <1>1, <1>2, <2>2, <2>3, DetachedStep
  <2>5. TypeOK'
    BY <1>1, <1>4, <2>2, LettingGo DEF TablesTyped, Inv, TypeOK
  <2> QED BY <2>4, <2>5 DEF Inv, ItemsInv
<1>5. CASE Saved(With(t, begun), t) /\ pc' = [pc EXCEPT ![w] = "executing"] /\ job' = job
  <2>1. /\ begun \in Record /\ begun.status = "running" /\ begun.active
        /\ begun.fut = "running" /\ begun.attempt = a
    BY <1>2, <1>3 DEF Record, WorkflowStatuses
  <2>2. With(t, begun) \in [Tasks -> Record] /\ With(t, begun)[t] = begun
    BY <1>2, <2>1 DEF Inv, TypeOK, With
  <2> HIDE DEF begun, r
  <2>3. ~Finished(begun)
    BY <2>1 DEF Finished, Active
  <2>4. TablesTyped /\ OthersKept(t) /\ records'[t] = begun
    BY <1>2, <1>5, <2>1, <2>3, SaveKeepsOthers DEF Inv, Save
  <2>5. disk'[t] = Stored(begun)
    BY <1>2, <1>5, <2>2, <2>3, SavedEffect DEF Inv
  <2>6. Stored(begun).status = "running" /\ Stored(begun).attempt = a
    BY <2>1 DEF Stored, Record
  <2>7. WorkersInv'
    <3> SUFFICES ASSUME NEW v \in Workers PROVE PickedOK(v)' /\ ExecOK(v)'
      BY DEF WorkersInv
    <3>1. CASE v = w
      BY <1>5, <2>1, <2>4, <2>5, <2>6, <3>1 DEF PickedOK, ExecOK, Inv, TypeOK
    <3>2. CASE v # w
      <4>1. pc'[v] = pc[v] /\ job'[v] = job[v]
        BY <1>5, <3>2 DEF Inv, TypeOK
      <4>2. pc[v] # "idle" => job[v][1] # t
        BY <1>1, <3>2, OnlyItem
      <4> QED BY <1>2, <2>4, <4>1, <4>2, OtherItems
    <3> QED BY <3>1, <3>2
  <2>8. QueueInv'
    <3> SUFFICES ASSUME NEW k \in 1..Len(queue) PROVE QueuedOK(k)'
      BY <1>1 DEF QueueInv
    <3>1. queue[k][1] # t
      BY <1>1, OnlyItem
    <3>2. records'[queue[k][1]] = records[queue[k][1]]
      BY <1>2, <2>4, <3>1, OtherItems
    <3> QED BY <1>1, <3>2 DEF Inv, QueueInv, QueuedOK
  <2>9. OneItemPerTask'
    BY <1>1, <1>5 DEF Inv, TypeOK, OneItemPerTask
  <2>10. TypeOK'
    BY <1>1, <1>5, <2>4 DEF TablesTyped, Inv, TypeOK
  <2> QED BY <2>7, <2>8, <2>9, <2>10 DEF Inv
<1>6. CASE SaveLost(With(t, [begun EXCEPT !.fut = "done"])) /\ Idle(w)
  <2>1. [begun EXCEPT !.fut = "done"] \in Record
    BY <1>2 DEF Record, WorkflowStatuses, Futures
  <2>2. TablesTyped /\ ItemsInv'
    BY <1>1, <1>2, <1>6, <2>1, LettingGo, SaveStep DEF Save
  <2>3. TypeOK'
    BY <1>1, <1>6, <2>2, LettingGo DEF TablesTyped, Inv, TypeOK
  <2> QED BY <2>2, <2>3 DEF Inv, ItemsInv
<1> QED BY <1>4, <1>5, <1>6 DEF Start

(* However a handler's final answer is recorded, one record is saved.      *)
LEMMA SettleSaves ==
    ASSUME NEW t, NEW r \in Record, NEW status \in WorkflowStatuses, Settle(r, t, status)
    PROVE  \E e \in Record : Save(With(t, e), t)
BY RecordTypes DEF Settle, Save, WorkflowStatuses

LEMMA FinishInv ==
    ASSUME Inv, NEW w \in Workers, Finish(w)
    PROVE  Inv'
<1> DEFINE t == job[w][1]
           r == records[t]
<1>1. pc[w] = "executing" /\ Idle(w) /\ UNCHANGED <<closed, finalizers, lost>>
  BY DEF Finish
<1>2. t \in Tasks /\ r \in Record /\ Detached(t)
  BY <1>1, OnlyItem, LettingGo
<1>3. r.attempt = job[w][2]
  BY <1>1 DEF Inv, WorkersInv, ExecOK
<1>4. \/ (\E e \in Record : Save(With(t, e), t)) /\ queue' = queue
      \/ \E e \in Record : e.status = "queued" /\ Dispatched(With(t, e), t)
      \/ \E e, f \in Record : RefusalLost(With(t, e), With(t, f), t)
  <2>1. CASE Yield(r, t)
    <3> DEFINE next == [r EXCEPT !.status = "queued", !.active = FALSE,
                                 !.handler = TRUE, !.cleanup = TRUE, !.fut = "done"]
    <3>1. next \in Record /\ next.status = "queued"
      BY <1>2 DEF Record, WorkflowStatuses, Futures
    <3>2. \/ (\E s \in WorkflowStatuses : Settle(r, t, s)) /\ queue' = queue
          \/ Dispatched(With(t, next), t)
          \/ Save(With(t, Ended(r, "failed")), t) /\ queue' = queue
          \/ RefusalLost(With(t, next), With(t, Ended(r, "failed")), t)
      BY <2>1 DEF Yield, WorkflowStatuses
    <3> HIDE DEF next
    <3>3. "failed" \in WorkflowStatuses
      BY DEF WorkflowStatuses
    <3> QED BY <1>2, <3>1, <3>2, <3>3, SettleSaves, RecordTypes
  <2>2. ASSUME NEW s \in OutcomeStatuses, Answer(r, t, s)
        PROVE  (\E e \in Record : Save(With(t, e), t)) /\ queue' = queue
    <3>1. queue' = queue
      BY <2>2 DEF Answer
    <3>2. (IF CancelWins(r) THEN "canceled" ELSE s) \in WorkflowStatuses
      BY DEF OutcomeStatuses, WorkflowStatuses
    <3> QED BY <1>2, <2>2, <3>1, <3>2, SettleSaves DEF Answer
  <2>3. CASE Raise(r, t)
    <3>1. (IF CancelWins(r) THEN "canceled" ELSE "failed") \in WorkflowStatuses
      BY DEF WorkflowStatuses
    <3> QED BY <1>2, <2>3, <3>1, RecordTypes DEF Raise
  <2>4. Yield(r, t) \/ (\E s \in OutcomeStatuses : Answer(r, t, s)) \/ Raise(r, t)
    BY <1>3 DEF Finish
  <2> QED BY <2>1, <2>2, <2>3, <2>4
<1> HIDE DEF t, r
<1>5. TablesTyped /\ ItemsInv' /\ queue' \in Seq(Items)
  <2>1. ASSUME NEW e \in Record, NEW f \in Record, RefusalLost(With(t, e), With(t, f), t)
        PROVE  TablesTyped /\ ItemsInv' /\ queue' \in Seq(Items)
    BY <1>2, <2>1, RefusalKeepsOthers, DetachedStep DEF Inv, TypeOK
  <2>2. ASSUME NEW e \in Record, e.status = "queued", Dispatched(With(t, e), t)
        PROVE  TablesTyped /\ ItemsInv' /\ queue' \in Seq(Items)
    BY <1>2, <2>2, EnqueueStep DEF Enqueue
  <2> QED BY <1>2, <1>4, <2>1, <2>2, SaveStep DEF Inv, TypeOK
<1>6. TypeOK'
  BY <1>1, <1>4, <1>5, LettingGo DEF TablesTyped, Inv, TypeOK
<1> QED BY <1>5, <1>6 DEF Inv, ItemsInv

-----------------------------------------------------------------------------
(* The end of the process.                                                 *)

(* Pruning keeps the tables typed.                                         *)
LEMMA DropType ==
    ASSUME NEW recs \in [Tasks -> Record], NEW V
    PROVE  Drop(recs, V) \in [Tasks -> Record]
BY RecordTypes DEF Drop

(* An empty queue satisfies its part of the invariant.                     *)
LEMMA EmptyQueue ==
    ASSUME queue' = <<>>
    PROVE  /\ queue' \in Seq(Items) /\ QueueInv'
           /\ \A i, k \in 1..Len(queue') : i # k => queue'[i][1] # queue'[k][1]
BY DEF QueueInv

(* Canceling some of the records keeps the tables typed, and leaves what a *)
(* worker holds as it is but for the request.                              *)
LEMMA SweptType ==
    ASSUME TypeOK, NEW S
    PROVE  /\ Swept(S) \in [Tasks -> Record]
           /\ \A R : Written(Swept(S), R) \in [Tasks -> Record]
<1>1. Swept(S) \in [Tasks -> Record]
  BY RecordTypes DEF TypeOK, Swept
<1>2. \A t \in Tasks : Stored(Swept(S)[t]) \in Record
  BY <1>1, RecordTypes
<1> QED BY <1>1, <1>2 DEF TypeOK, Written

LEMMA SweptRunning ==
    ASSUME TypeOK, NEW S, NEW V \in Victims(Swept(S)), NEW u \in Tasks,
           records[u].fut = "running",
           records[u].status = "queued" \/ records[u].active,
           records[u].status \notin TerminalStatuses
    PROVE  LET m == Swept(S)[u] IN
           /\ u \notin V
           /\ m.status = records[u].status /\ m.fut = records[u].fut
           /\ m.active = records[u].active /\ m.attempt = records[u].attempt
           /\ Stored(m).status = m.status /\ Stored(m).attempt = m.attempt
<1>1. records[u] \in Record /\ ~Stoppable(records[u])
  BY DEF TypeOK, Stoppable, Active
<1>2. \/ Swept(S)[u] = records[u]
      \/ Swept(S)[u] = [records[u] EXCEPT !.cancelReq = TRUE]
  BY <1>1 DEF Swept, Canceled
<1> DEFINE m == Swept(S)[u]
<1>3. /\ m \in Record /\ m.status = records[u].status /\ m.fut = records[u].fut
      /\ m.active = records[u].active /\ m.attempt = records[u].attempt
  BY <1>1, <1>2 DEF Record
<1> HIDE DEF m
<1>4. Stored(m).status = m.status /\ Stored(m).attempt = m.attempt
  BY <1>3 DEF Record, Stored
<1>5. ~Finished(m)
  BY <1>3 DEF Finished
<1> QED BY <1>3, <1>4, <1>5, DropKeepsUnfinished DEF m

(* However far shutdown gets, what the workers hold stays consistent.      *)
LEMMA SweptWorkers ==
    ASSUME Inv, NEW S, NEW R, NEW V \in Victims(Swept(S)), NEW W, W \subseteq V,
           records' = Drop(Swept(S), V), disk' = Drop(Written(Swept(S), R), W),
           UNCHANGED <<pc, job>>
    PROVE  TablesTyped /\ WorkersInv'
<1>1. TablesTyped
  BY SweptType, DropType DEF Inv, TablesTyped
<1>2. ASSUME NEW w \in Workers, pc[w] # "idle" PROVE PickedOK(w)' /\ ExecOK(w)'
  <2> DEFINE u == job[w][1]
             m == Swept(S)[u]
  <2>1. /\ u \in Tasks
        /\ records[u].fut = "running"
        /\ records[u].status = "queued" \/ records[u].active
        /\ records[u].status \notin TerminalStatuses
    BY <1>2, OnlyItem DEF Inv, TypeOK, WorkersInv, PickedOK, ExecOK, TerminalStatuses
  <2>2. /\ u \notin V
        /\ m.status = records[u].status /\ m.fut = records[u].fut
        /\ m.active = records[u].active /\ m.attempt = records[u].attempt
        /\ Stored(m).status = m.status /\ Stored(m).attempt = m.attempt
    BY <2>1, SweptRunning DEF Inv
  <2> HIDE DEF m
  <2>3. records'[u] = m
    BY <2>1, <2>2 DEF Drop, m
  <2>4. disk'[u] = Stored(m) \/ disk'[u] = disk[u]
    BY <2>1, <2>2 DEF Drop, Written, m
  <2> QED BY <2>2, <2>3, <2>4 DEF Inv, WorkersInv, PickedOK, ExecOK
<1> QED BY <1>1, <1>2 DEF WorkersInv, PickedOK, ExecOK

LEMMA SweepAllInv ==
    ASSUME Inv, SweepAll, UNCHANGED <<pc, job, finalizers, lost>>, closed' = TRUE
    PROVE  Inv'
<1>1. PICK V \in Victims(Swept(OutstandingTasks)) :
          /\ records' = Drop(Swept(OutstandingTasks), V)
          /\ disk' = Drop(Written(Swept(OutstandingTasks), OutstandingTasks), V)
  BY DEF SweepAll
<1>2. queue' = <<>>
  BY DEF SweepAll
<1>3. TablesTyped /\ WorkersInv'
  BY <1>1, SweptWorkers
<1>4. OneItemPerTask'
  BY <1>2, EmptyQueue DEF Inv, OneItemPerTask
<1>5. TypeOK'
  BY <1>2, <1>3, EmptyQueue DEF TablesTyped, Inv, TypeOK
<1> QED BY <1>2, <1>3, <1>4, <1>5, EmptyQueue DEF Inv

(* A write fails under shutdown: the items that stay are those of records  *)
(* the loop did not reach, in their order.                                 *)
LEMMA SweepStopsInv ==
    ASSUME Inv, NEW t \in Tasks, NEW S, SweepStopsAt(t, S),
           UNCHANGED <<pc, job, finalizers, lost>>, closed' = TRUE
    PROVE  Inv'
<1> DEFINE D == S \cup {t}
           kept == {k \in 1..Len(queue) : queue[k][1] \notin D}
           n == Cardinality(kept)
<1>1. PICK V \in Victims(Swept(D)) :
          /\ records' = Drop(Swept(D), V)
          /\ \E W : W \subseteq V /\ disk' = Drop(Written(Swept(D), S), W)
  BY DEF SweepStopsAt
<1>2. TablesTyped /\ WorkersInv'
  BY <1>1, SweptWorkers
<1>3. PICK order \in [1..n -> kept] :
          /\ \A i, k \in 1..n : i < k => order[i] < order[k]
          /\ queue' = [i \in 1..n |-> queue[order[i]]]
  BY DEF SweepStopsAt
<1>4. n \in Nat
  <2>1. IsFiniteSet(1..Len(queue)) /\ kept \subseteq 1..Len(queue)
    BY FS_Interval DEF Inv, TypeOK
  <2> QED BY <2>1, FS_Subset, FS_CardinalityType
<1> HIDE DEF n
<1>5. /\ queue' \in Seq(Items) /\ Len(queue') = n
      /\ \A i \in 1..n : /\ queue'[i] = queue[order[i]]
                         /\ order[i] \in 1..Len(queue)
                         /\ queue[order[i]][1] \notin D
  <2>1. \A k \in 1..Len(queue) : queue[k] \in Items
    BY DEF Inv, TypeOK
  <2>2. \A i \in 1..n : queue[order[i]] \in Items
    BY <1>3, <2>1
  <2> QED BY <1>3, <1>4, <2>2
<1>6. QueueInv'
  <2> SUFFICES ASSUME NEW i \in 1..n PROVE QueuedOK(i)'
    BY <1>5 DEF QueueInv
  <2> DEFINE u == queue[order[i]][1]
  <2>1. /\ u \in Tasks /\ u \notin D /\ queue'[i] = queue[order[i]]
        /\ records[u].status = "queued" /\ records[u].fut = "pending"
        /\ records[u].attempt = queue[order[i]][2]
    BY <1>5 DEF Inv, TypeOK, Items, QueueInv, QueuedOK
  <2> HIDE DEF D
  <2>2. Swept(D)[u] = records[u]
    BY <2>1 DEF Swept
  <2>3. u \notin V
    BY <2>1, <2>2, DropKeepsUnfinished DEF Finished, TerminalStatuses
  <2>4. records'[u] = records[u]
    BY <1>1, <2>1, <2>2, <2>3 DEF Drop
  <2> QED BY <2>1, <2>4 DEF QueuedOK
<1>7. \A i, k \in 1..n : i # k => queue'[i][1] # queue'[k][1]
  <2> SUFFICES ASSUME NEW i \in 1..n, NEW k \in 1..n, i # k
               PROVE  queue'[i][1] # queue'[k][1]
    OBVIOUS
  <2>1. order[i] # order[k]
    <3>1. i < k \/ k < i
      BY <1>4
    <3>2. order[i] \in Nat /\ order[k] \in Nat
      BY <1>5 DEF Inv, TypeOK
    <3> QED BY <1>3, <3>1, <3>2
  <2> QED BY <1>5, <2>1 DEF Inv, OneItemPerTask
<1>8. OneItemPerTask'
  BY <1>5, <1>7 DEF Inv, OneItemPerTask
<1>9. TypeOK'
  BY <1>2, <1>5 DEF TablesTyped, Inv, TypeOK
<1> QED BY <1>2, <1>6, <1>8, <1>9 DEF Inv

LEMMA ShutdownNowInv ==
    ASSUME Inv, ShutdownNow
    PROVE  Inv'
<1>1. CASE SweepAll
  BY <1>1, SweepAllInv DEF ShutdownNow
<1>2. ASSUME NEW t \in Tasks, NEW S, SweepStopsAt(t, S) PROVE Inv'
  BY <1>2, SweepStopsInv DEF ShutdownNow
<1> QED BY <1>1, <1>2 DEF ShutdownNow, OutstandingTasks

LEMMA RestartInv ==
    ASSUME Inv, Restart
    PROVE  Inv'
<1>1. [t \in Tasks |-> Loaded(disk[t])] \in [Tasks -> Record]
  BY RecordTypes DEF Inv, TypeOK
<1>2. TablesTyped
  BY <1>1, DropType DEF Restart, TablesTyped
<1>3. \A w \in Workers : pc'[w] = "idle"
  BY DEF Restart
<1>4. queue' = <<>>
  BY DEF Restart
<1>5. WorkersInv' /\ OneItemPerTask'
  BY <1>3, <1>4, EmptyQueue DEF WorkersInv, PickedOK, ExecOK, OneItemPerTask
<1>6. lost' \in [Tasks -> SUBSET Nat]
  BY CoordinatorAssumption DEF Restart, Inv, TypeOK
<1>7. TypeOK'
  BY <1>2, <1>4, <1>6, EmptyQueue DEF Restart, TablesTyped, Inv, TypeOK
<1> QED BY <1>4, <1>5, <1>7, EmptyQueue DEF Inv

-----------------------------------------------------------------------------
(* Every action of the model keeps Inv.                                    *)
THEOREM InvInductive == Inv /\ [Next]_vars => Inv'
<1> SUFFICES ASSUME Inv, [Next]_vars PROVE Inv'
  OBVIOUS
<1>1. CASE UNCHANGED vars
  BY <1>1 DEF vars, Inv, TypeOK, WorkersInv, QueueInv, OneItemPerTask, PickedOK, ExecOK, QueuedOK
<1>2. CASE Call
  <2>1. ASSUME NEW f \in finalizers, RunFinalizer(f) PROVE Inv'
    BY <2>1 DEF RunFinalizer, Inv, TypeOK, WorkersInv, QueueInv, OneItemPerTask, PickedOK, ExecOK, QueuedOK
  <2> QED BY <1>2, <2>1, SubmitInv, DispatchInv, CancelInv, RetryInv, NoticeInv DEF Call
<1>3. ASSUME NEW w \in Workers, Step(w) PROVE Inv'
  BY <1>3, PickInv, StartInv, FinishInv, UpdateProgressInv, ClaimTargetInv DEF Step
<1>4. CASE Shutdown
  BY <1>4 DEF Shutdown, Inv, TypeOK, WorkersInv, QueueInv, OneItemPerTask, PickedOK, ExecOK, QueuedOK
<1> QED BY <1>1, <1>2, <1>3, <1>4, ShutdownNowInv, RestartInv DEF Next

(* Inv holds in every reachable state.                                     *)
THEOREM Invariance == Spec => []Inv
BY InitInv, InvInductive, PTL DEF Spec

(* Every reachable state is well typed: __post_init__, the mutators and    *)
(* the loader of coordinator.py never build an ill-formed record, and a    *)
(* busy thread always holds an item.                                       *)
THEOREM TypeCorrect == Spec => []TypeOK
<1>1. Inv => TypeOK
  BY DEF Inv
<1> QED BY <1>1, Invariance, PTL

(* Two threads never execute the same piece of work, for every number of   *)
(* threads: submit(reopen), retry and a yielded slice all wait for the     *)
(* worker in coordinator.py to leave.                                      *)
THEOREM NeverOverlaps == Spec => []NoOverlap
<1>1. Inv => NoOverlap
  BY DEF Inv, OneItemPerTask, NoOverlap
<1> QED BY <1>1, Invariance, PTL

(* No false stopped receipt: while a handler runs, the record a host reads *)
(* says running for that attempt, whatever cancel, retry or a shutdown did.*)
THEOREM NoFalseStop == Spec => []StoppedMeansStopped
<1>1. Inv => StoppedMeansStopped
  BY DEF Inv, WorkersInv, ExecOK, StoppedMeansStopped
<1> QED BY <1>1, Invariance, PTL

(* Write-ahead: _run enters the handler only after the row of its attempt  *)
(* says running, and nothing rewrites the row before the handler is back,  *)
(* whichever writes of other records fail.                                 *)
THEOREM WriteAhead == Spec => []DurableBeforeEffects
<1>1. Inv => DurableBeforeEffects
  BY DEF Inv, WorkersInv, ExecOK, DurableBeforeEffects
<1> QED BY <1>1, Invariance, PTL

-----------------------------------------------------------------------------
(***************************************************************************)
(* Theorems about what the coordinator's table remembers: that an attempt  *)
(* lost with its process is never executed again, that admission and the   *)
(* ownership of Agent ledgers hold across every step, and, where no write  *)
(* fails, that the disk mirrors the table, that a final status is final,   *)
(* and that the whole implements TaskLifecycle.                            *)
(*                                                                         *)
(* None of them is inductive.  A lost attempt comes back through the disk, *)
(* so HistoryInv says of both tables that it lies in the past of its       *)
(* record; a claim made by an earlier attempt stays in the record, so it   *)
(* must never be from a later one.  Each action is summarised once, as a   *)
(* change of one record before pruning (Shaped), and the invariant is      *)
(* proved from the summary.                                                *)
(***************************************************************************)

StoreHolds == "store" \notin Faults

(* There are tasks enough for one to be forgotten.                         *)
Forgetful == Cardinality(Tasks) > MaxPersisted

(* Attempt a of record r is over.                                          *)
Past(r, a) ==
    \/ a < r.attempt
    \/ a = r.attempt /\ r.status \in TerminalStatuses

LostIsPast ==
    \A t \in Tasks : \A a \in lost[t] :
        /\ Exists(records[t]) => Past(records[t], a)
        /\ Exists(disk[t]) => Past(disk[t], a)

ClaimsAreOld ==
    \A t \in Tasks :
        /\ records[t].claimed <= records[t].attempt
        /\ disk[t].claimed <= disk[t].attempt

(* A worker that has not left keeps its record running.                    *)
Sound(r) == r.active => r.status = "running" /\ r.fut \in {"running", "done"}

ActiveRuns == \A t \in Tasks : Sound(records[t])

MirrorIfStored == StoreHolds => DiskMirrorsMemory

HistoryInv ==
    /\ LostIsPast
    /\ ClaimsAreOld
    /\ ActiveRuns
    /\ MirrorIfStored
    /\ PendingBound
    /\ OneOwner

-----------------------------------------------------------------------------
(* The summary of a step.                                                  *)

(* The attempt that record s counts was not over in record r.              *)
NotOver(r, s) ==
    \/ r.attempt < s.attempt
    \/ /\ r.attempt = s.attempt
       /\ Exists(r) /\ r.status \notin TerminalStatuses

(* Of two writes of record r the second was lost: the table says s, the    *)
(* row d is of the same attempt, which was not over before the step.       *)
Halfway(r, s, d) ==
    /\ ~StoreHolds
    /\ d \in Record /\ d.attempt = s.attempt /\ d.claimed = s.claimed
    /\ NotOver(r, s)

(* The step changes the table to recs, then forgets finished records; each *)
(* row is kept, deleted or rewritten, from recs unless a write was lost.   *)
Shaped(recs) ==
    /\ recs \in [Tasks -> Record]
    /\ \A u \in Tasks :
          /\ \/ records'[u] = recs[u]
             \/ Forgetful /\ records'[u] = Absent /\ Finished(recs[u])
          /\ \/ disk'[u] = disk[u] \/ disk'[u] = Absent
             \/ disk'[u] = Stored(recs[u])
             \/ Halfway(records[u], recs[u], disk'[u])
    /\ StoreHolds /\ DiskMirrorsMemory =>
          \A u \in Tasks : disk'[u] = Stored(records'[u])

(* The same attempt goes on: what has ended stays so, and nothing becomes  *)
(* live or reappears.                                                      *)
Continues(r, s) ==
    /\ Exists(s) <=> Exists(r)
    /\ s.attempt = r.attempt
    /\ r.status \in TerminalStatuses => s.status = r.status
    /\ Outstanding(s) => Outstanding(r)
    /\ Sound(r) => Sound(s)

SameClaim(r, s) ==
    s.scope = r.scope /\ s.target = r.target /\ s.claimed = r.claimed

Quiet ==
    /\ lost' = lost
    /\ \E recs :
          /\ Shaped(recs)
          /\ \A u \in Tasks : /\ Continues(records[u], recs[u])
                              /\ SameClaim(records[u], recs[u])

QuietOn(t) ==
    /\ lost' = lost
    /\ \E r \in Record : /\ Shaped(With(t, r))
                         /\ Continues(records[t], r) /\ SameClaim(records[t], r)

(* A record is admitted as a new attempt, or claims a free target.         *)
Renews(t, r) ==
    /\ Admissible
    /\ r.attempt = records[t].attempt + 1
    /\ r.claimed <= records[t].attempt
    /\ ~r.active /\ Exists(r) /\ ~Outstanding(records[t])
    /\ Shaped(With(t, r))
    /\ \/ Exists(records[t]) /\ lost' = lost
       \/ ~Exists(records[t]) /\ lost' = [lost EXCEPT ![t] = {}]

Claims(t, r) ==
    /\ Continues(records[t], r)
    /\ r.scope = records[t].scope /\ r.claimed = r.attempt
    /\ \A o \in Tasks \ {t} :
          Outstanding(records[o]) /\ records[o].scope = r.scope
             => records[o].target # r.target
    /\ Shaped(With(t, r))
    /\ lost' = lost

Summary ==
    \/ Quiet
    \/ \E t \in Tasks, r \in Record : Renews(t, r) \/ Claims(t, r)

-----------------------------------------------------------------------------
(* Lemmas about the helpers.                                               *)

LEMMA StoredFields ==
    ASSUME NEW r \in Record
    PROVE  LET s == Stored(r) IN
           /\ s \in Record
           /\ s.status = r.status /\ s.attempt = r.attempt
           /\ s.claimed = r.claimed /\ s.active = r.active
           /\ Stored(s) = s
<1> DEFINE s == Stored(r)
<1>1. s \in Record
  BY RecordTypes
<1>2. /\ s.status = r.status /\ s.attempt = r.attempt
      /\ s.claimed = r.claimed /\ s.active = r.active
      /\ s.handler = FALSE /\ s.cleanup = FALSE /\ s.fut = "none"
  BY DEF Stored, Record
<1> HIDE DEF s
<1>3. Stored(s) = s
  BY <1>1, <1>2 DEF Stored, Record
<1> QED BY <1>1, <1>2, <1>3 DEF s

(* A record is as it would be stored when nothing unwritten is in it.      *)
LEMMA StoredOfBare ==
    ASSUME NEW r \in Record
    PROVE  Stored(r) = r <=> ~r.handler /\ ~r.cleanup /\ r.fut = "none"
<1>1. ASSUME ~r.handler, ~r.cleanup, r.fut = "none" PROVE Stored(r) = r
  <2>1. r.handler = FALSE /\ r.cleanup = FALSE
    BY <1>1 DEF Record
  <2> QED BY <1>1, <2>1 DEF Stored, Record
<1>2. /\ Stored(r).handler = FALSE /\ Stored(r).cleanup = FALSE
      /\ Stored(r).fut = "none"
  BY DEF Stored, Record
<1> QED BY <1>1, <1>2

LEMMA LoadedFields ==
    ASSUME NEW r \in Record
    PROVE  LET s == Loaded(r) IN
           /\ s \in Record
           /\ s.attempt = r.attempt /\ s.claimed = r.claimed
           /\ r.status \in TerminalStatuses => s.status = r.status
           /\ r.status = "running" => s.status = "failed"
           /\ ~s.active /\ s.status # "queued"
           /\ Exists(s) => Exists(r)
           /\ Stored(r) = r => Stored(s) = s
<1>1. Loaded(r) \in Record
  BY RecordTypes
<1>2. CASE Interrupted(r)
  <2>1. Loaded(r) = [r EXCEPT !.status = "failed", !.recovered = TRUE, !.active = FALSE]
    BY <1>2 DEF Loaded
  <2> DEFINE s == Loaded(r)
  <2>2. /\ s.status = "failed" /\ s.attempt = r.attempt /\ s.claimed = r.claimed
        /\ ~s.active /\ s.handler = r.handler /\ s.cleanup = r.cleanup /\ s.fut = r.fut
    BY <2>1 DEF Record
  <2> HIDE DEF s
  <2>3. Stored(r) = r => Stored(s) = s
    BY <1>1, <2>2, StoredOfBare DEF s
  <2> QED BY <1>1, <1>2, <2>2, <2>3 DEF s, Interrupted, Exists
<1>3. CASE ~Interrupted(r)
  <2>1. Loaded(r) = [r EXCEPT !.active = FALSE]
    BY <1>3 DEF Loaded
  <2>2. r.status # "running" /\ r.status # "queued"
    BY <1>3 DEF Interrupted, Exists, TerminalStatuses
  <2> DEFINE s == Loaded(r)
  <2>3. /\ s.status = r.status /\ s.attempt = r.attempt /\ s.claimed = r.claimed
        /\ ~s.active /\ s.handler = r.handler /\ s.cleanup = r.cleanup /\ s.fut = r.fut
    BY <2>1 DEF Record
  <2> HIDE DEF s
  <2>4. Stored(r) = r => Stored(s) = s
    BY <1>1, <2>3, StoredOfBare DEF s
  <2> QED BY <1>1, <2>2, <2>3, <2>4 DEF s, Exists
<1> QED BY <1>2, <1>3

LEMMA AbsentFields ==
    /\ Stored(Absent) = Absent /\ ~Exists(Absent) /\ ~Outstanding(Absent)
    /\ Absent \in Record /\ Absent.claimed = 0 /\ Absent.attempt = 0
<1>1. Absent \in Record
  BY RecordTypes
<1>2. Stored(Absent) = Absent
  BY <1>1, StoredOfBare DEF Absent
<1> QED BY <1>1, <1>2 DEF Absent, Exists, Outstanding, Active

LEMMA ContinuesSelf == \A r : Continues(r, r) /\ SameClaim(r, r)
BY DEF Continues, SameClaim

LEMMA WithType ==
    ASSUME TypeOK, NEW t \in Tasks, NEW r \in Record
    PROVE  /\ With(t, r) \in [Tasks -> Record] /\ With(t, r)[t] = r
           /\ \A u \in Tasks \ {t} : With(t, r)[u] = records[u]
           /\ \A u \in Tasks : records[u] \in Record
BY DEF TypeOK, With

(* _prune_records_locked: nothing is forgotten while there are no more     *)
(* tasks than the history keeps.                                           *)
LEMMA VictimsAreMany ==
    ASSUME NEW recs, NEW V \in Victims(recs)
    PROVE  \A t \in V : Forgetful /\ Finished(recs[t])
<1> DEFINE done == {t \in Tasks : Finished(recs[t])}
<1>1. V \subseteq done
  BY DEF Victims
<1>2. Cardinality(done) <= MaxPersisted => V = {}
  <2>1. done \subseteq Tasks
    OBVIOUS
  <2>2. Cardinality(done) \in Nat
    BY <2>1, FS_Subset, FS_CardinalityType, CoordinatorAssumption
  <2>3. ~(Cardinality(done) > MaxPersisted) => V = {}
    BY DEF Victims
  <2> HIDE DEF done
  <2> QED BY <2>2, <2>3, CoordinatorAssumption
<1>3. V # {} => Forgetful
  <2>1. IsFiniteSet(done) /\ Cardinality(done) <= Cardinality(Tasks)
    BY FS_Subset, CoordinatorAssumption
  <2>2. Cardinality(done) \in Nat /\ Cardinality(Tasks) \in Nat /\ MaxPersisted \in Nat
    BY <2>1, FS_CardinalityType, CoordinatorAssumption
  <2> HIDE DEF done
  <2> QED BY <1>2, <2>1, <2>2 DEF Forgetful
<1> QED BY <1>1, <1>3

(* Saving one record is a change of that record.                           *)
LEMMA SaveShaped ==
    ASSUME TypeOK, NEW t \in Tasks, NEW r \in Record, Save(With(t, r), t)
    PROVE  Shaped(With(t, r))
<1> DEFINE recs == With(t, r)
           rows == [disk EXCEPT ![t] = Stored(recs[t])]
<1>1. /\ recs \in [Tasks -> Record]
      /\ \A u \in Tasks \ {t} : recs[u] = records[u]
  BY WithType
<1>2. /\ rows[t] = Stored(recs[t])
      /\ \A u \in Tasks \ {t} : rows[u] = disk[u]
  BY DEF TypeOK
<1>3. Saved(recs, t) \/ SaveLost(recs)
  BY DEF Save
<1>4. CASE Saved(recs, t)
  <2>1. PICK V \in Victims(recs) : records' = Drop(recs, V) /\ disk' = Drop(rows, V)
    BY <1>4 DEF Saved
  <2> HIDE DEF recs, rows
  <2>2. ASSUME NEW u \in Tasks
        PROVE  /\ records'[u] = IF u \in V THEN Absent ELSE recs[u]
               /\ disk'[u] = IF u \in V THEN Absent ELSE rows[u]
               /\ u \in V => Forgetful /\ Finished(recs[u])
    BY <2>1, VictimsAreMany DEF Drop
  <2>3. \A u \in Tasks : DiskMirrorsMemory => disk'[u] = Stored(records'[u])
    BY <1>1, <1>2, <2>2, AbsentFields DEF DiskMirrorsMemory
  <2>4. Shaped(recs)
    BY <1>1, <1>2, <2>2, <2>3 DEF Shaped
  <2> QED BY <2>4 DEF recs
<1>5. CASE SaveLost(recs)
  <2> HIDE DEF recs
  <2>1. PICK V \in Victims(recs) : records' = Drop(recs, V)
    BY <1>5 DEF SaveLost
  <2>2. \A u \in V : Forgetful /\ Finished(recs[u])
    BY VictimsAreMany
  <2>3. Shaped(recs)
    BY <1>1, <1>5, <2>1, <2>2 DEF SaveLost, Drop, Shaped, StoreHolds
  <2> QED BY <2>3 DEF recs
<1> QED BY <1>3, <1>4, <1>5

(* A change of what is never written leaves the rows alone.                *)
LEMMA FutureShaped ==
    ASSUME TypeOK, NEW t \in Tasks, NEW f \in Futures,
           records' = With(t, [records[t] EXCEPT !.fut = f]), disk' = disk
    PROVE  Shaped(With(t, [records[t] EXCEPT !.fut = f]))
<1> DEFINE r == [records[t] EXCEPT !.fut = f]
<1>1. r \in Record /\ Stored(r) = Stored(records[t])
  <2> DEFINE o == records[t]
  <2>1. o \in Record
    BY DEF TypeOK
  <2> HIDE DEF o
  <2>2. [o EXCEPT !.fut = f] \in Record
    BY <2>1 DEF Record
  <2>3. Stored([o EXCEPT !.fut = f]) = Stored(o)
    BY <2>1 DEF Record, Stored
  <2> QED BY <2>2, <2>3 DEF o
<1> HIDE DEF r
<1>2. /\ With(t, r) \in [Tasks -> Record] /\ With(t, r)[t] = r
      /\ \A u \in Tasks \ {t} : With(t, r)[u] = records[u]
  BY <1>1, WithType
<1>3. records' = With(t, r) /\ disk' = disk
  BY DEF r
<1>4. Shaped(With(t, r))
  BY <1>1, <1>2, <1>3 DEF Shaped, DiskMirrorsMemory
<1> QED BY <1>4 DEF r

(* One record goes on, the others are as they were.                        *)
LEMMA OneQuiet ==
    ASSUME TypeOK, NEW t \in Tasks, NEW r \in Record, Shaped(With(t, r)),
           lost' = lost, Continues(records[t], r), SameClaim(records[t], r)
    PROVE  QuietOn(t) /\ Quiet
<1>1. \A u \in Tasks : /\ Continues(records[u], With(t, r)[u])
                       /\ SameClaim(records[u], With(t, r)[u])
  <2> SUFFICES ASSUME NEW u \in Tasks
               PROVE  /\ Continues(records[u], With(t, r)[u])
                      /\ SameClaim(records[u], With(t, r)[u])
    OBVIOUS
  <2>1. CASE u = t
    BY <2>1, WithType
  <2>2. CASE u # t
    <3>1. With(t, r)[u] = records[u]
      BY <2>2, WithType
    <3> QED BY <3>1, ContinuesSelf
  <2> QED BY <2>1, <2>2
<1> QED BY <1>1 DEF Quiet, QuietOn

(* A refusal whose write is lost leaves the row of the write before.       *)
LEMMA RefusalShaped ==
    ASSUME TypeOK, NEW t \in Tasks, NEW r \in Record, NEW e \in Record,
           e.attempt = r.attempt, e.claimed = r.claimed, NotOver(records[t], r),
           RefusalLost(With(t, r), With(t, e), t)
    PROVE  Shaped(With(t, e))
<1> DEFINE recs == With(t, r)
           failed == With(t, e)
           rows == [disk EXCEPT ![t] = Stored(recs[t])]
<1>1. PICK W \in Victims(recs), V \in Victims(failed) :
          W \subseteq V /\ records' = Drop(failed, V) /\ disk' = Drop(rows, W)
  BY DEF RefusalLost
<1>2. /\ failed \in [Tasks -> Record] /\ recs[t] = r /\ failed[t] = e
      /\ \A u \in Tasks \ {t} : failed[u] = records[u]
  BY WithType
<1>3. rows[t] = Stored(r) /\ \A u \in Tasks \ {t} : rows[u] = disk[u]
  BY <1>2 DEF TypeOK
<1>4. ~StoreHolds
  BY DEF RefusalLost, StoreHolds
<1>5. Halfway(records[t], e, Stored(r))
  BY <1>4, StoredFields DEF Halfway, NotOver
<1> HIDE DEF recs, failed, rows
<1>6. \A u \in V : Forgetful /\ Finished(failed[u])
  BY VictimsAreMany
<1>7. ASSUME NEW u \in Tasks
      PROVE  /\ \/ records'[u] = failed[u]
                \/ Forgetful /\ records'[u] = Absent /\ Finished(failed[u])
             /\ \/ disk'[u] = disk[u] \/ disk'[u] = Absent
                \/ Halfway(records[u], failed[u], disk'[u])
  <2>1. disk'[u] = Absent \/ disk'[u] = rows[u]
    BY <1>1 DEF Drop
  <2>2. rows[u] = disk[u] \/ (u = t /\ rows[u] = Stored(r))
    BY <1>3
  <2> QED BY <1>1, <1>2, <1>5, <1>6, <2>1, <2>2 DEF Drop
<1>8. Shaped(failed)
  BY <1>2, <1>4, <1>7 DEF Shaped
<1> QED BY <1>8 DEF failed

(* Admission: what is saved is the record as queued, as refused by the     *)
(* pool, or as it was before the write failed.                             *)
LEMMA EnqueueShaped ==
    ASSUME TypeOK, NEW t \in Tasks, NEW r \in Record, r.status = "queued",
           NotOver(records[t], r), Enqueue(With(t, r), t)
    PROVE  \E s \in Record :
              /\ Shaped(With(t, s))
              /\ s.attempt = r.attempt /\ s.active = r.active /\ SameClaim(r, s)
              /\ Exists(s)
<1> DEFINE p == [r EXCEPT !.fut = "pending"]
           f == [r EXCEPT !.status = "failed"]
<1>1. /\ p \in Record /\ p.attempt = r.attempt /\ p.active = r.active /\ SameClaim(r, p)
      /\ f \in Record /\ f.attempt = r.attempt /\ f.active = r.active /\ SameClaim(r, f)
      /\ Exists(p) /\ Exists(f) /\ Exists(r)
  BY DEF Record, Futures, WorkflowStatuses, SameClaim, Exists
<1>2. /\ [With(t, r) EXCEPT ![t].fut = "pending"] = With(t, p)
      /\ Failed(With(t, r), t) = With(t, f)
  BY DEF TypeOK, With, Failed
<1> HIDE DEF p, f
<1>3. \/ Save(With(t, p), t) \/ Save(With(t, f), t) \/ Save(With(t, r), t)
      \/ RefusalLost(With(t, r), With(t, f), t)
  BY <1>2 DEF Enqueue, Dispatched, Refused, Save
<1>4. RefusalLost(With(t, r), With(t, f), t) => Shaped(With(t, f))
  BY <1>1, RefusalShaped DEF SameClaim
<1> QED BY <1>1, <1>3, <1>4, SaveShaped, ContinuesSelf

-----------------------------------------------------------------------------
(* The summary of every action but Restart.                                *)

(* Rewriting fields that no clause speaks of.                              *)
LEMMA SameContinues ==
    ASSUME NEW r, NEW s, s.status = r.status, s.attempt = r.attempt,
           s.active = r.active, s.fut = r.fut
    PROVE  Continues(r, s)
BY DEF Continues, Exists, Outstanding, Active, Sound

(* A live attempt may become anything, if its worker leaves.               *)
LEMMA LiveContinues ==
    ASSUME NEW r, NEW s, Exists(r), Exists(s), Outstanding(r),
           r.status \notin TerminalStatuses, s.attempt = r.attempt, Sound(r) => Sound(s)
    PROVE  Continues(r, s)
BY DEF Continues

LEMMA CanceledContinues ==
    ASSUME NEW r \in Record, Exists(r), r.status \notin TerminalStatuses
    PROVE  /\ Canceled(r) \in Record
           /\ Continues(r, Canceled(r)) /\ SameClaim(r, Canceled(r))
<1> DEFINE s == Canceled(r)
<1>1. s \in Record
  BY RecordTypes
<1>2. /\ s.attempt = r.attempt /\ s.active = r.active
      /\ s.scope = r.scope /\ s.target = r.target /\ s.claimed = r.claimed
      /\ Stoppable(r) => s.status = "canceled"
      /\ ~Stoppable(r) => s.status = r.status /\ s.fut = r.fut
  <2>1. CASE Stoppable(r)
    <3> DEFINE f == IF r.fut = "pending" THEN "canceled" ELSE r.fut
               h == r.handler /\ ~r.fresh
    <3>1. s = [r EXCEPT !.status = "canceled", !.cancelReq = TRUE, !.fut = f,
                        !.handler = h, !.cleanup = FALSE]
      BY <2>1 DEF Canceled
    <3> HIDE DEF s, f, h
    <3> QED BY <2>1, <3>1 DEF Record
  <2>2. CASE ~Stoppable(r)
    <3>1. s = [r EXCEPT !.cancelReq = TRUE]
      BY <2>2 DEF Canceled
    <3> HIDE DEF s
    <3> QED BY <2>2, <3>1 DEF Record
  <2> QED BY <2>1, <2>2
<1> HIDE DEF s
<1>3. Outstanding(s) => Outstanding(r)
  BY <1>2 DEF Outstanding, Active
<1>4. Sound(r) => Sound(s)
  BY <1>2 DEF Sound, Stoppable, Active
<1>5. Continues(r, s) /\ SameClaim(r, s)
  BY <1>2, <1>3, <1>4 DEF Continues, SameClaim, Exists
<1> QED BY <1>1, <1>5 DEF s

LEMMA SubmitSummary ==
    ASSUME Inv, ActiveRuns, NEW t \in Tasks, NEW q \in Requests,
           NEW reopen \in BOOLEAN, NEW defer \in BOOLEAN, Submit(t, q, reopen, defer)
    PROVE  Summary
<1> DEFINE n == NewRecord(t, q)
<1>1. n \in Record /\ n.status = "queued"
  BY NewRecordType
<1>2. n.attempt = records[t].attempt + 1 /\ n.claimed = 0 /\ n.active = FALSE
  BY DEF NewRecord, Absent
<1>3. IF defer THEN Save(With(t, n), t) ELSE Enqueue(With(t, n), t)
  BY DEF Submit
<1> HIDE DEF n
<1>4. PICK s \in Record :
         /\ Shaped(With(t, s))
         /\ s.attempt = n.attempt /\ s.active = n.active /\ s.claimed = 0
         /\ Exists(s)
  <2>1. CASE defer
    BY <1>1, <1>2, <1>3, <2>1, SaveShaped DEF Inv, Exists
  <2>2. CASE ~defer
    <3>1. records[t].attempt \in Nat
      BY DEF Inv, TypeOK, Record
    <3>2. NotOver(records[t], n)
      BY <1>2, <3>1 DEF NotOver
    <3> QED BY <1>1, <1>2, <1>3, <2>2, <3>2, EnqueueShaped DEF Inv, SameClaim
  <2> QED BY <2>1, <2>2
<1>5. records[t].attempt \in Nat
  BY DEF Inv, TypeOK, Record
<1>6. ~Outstanding(records[t])
  BY DEF Submit, Reopenable, Exists, Outstanding, Active, ActiveRuns, Sound
<1>7. Renews(t, s)
  BY <1>2, <1>4, <1>5, <1>6 DEF Renews, Submit
<1> QED BY <1>7 DEF Summary

LEMMA RetrySummary ==
    ASSUME Inv, ClaimsAreOld, NEW t \in Tasks, Retry(t)
    PROVE  Summary
<1> DEFINE r == records[t]
           n == [r EXCEPT !.status = "queued", !.attempt = @ + 1, !.cancelReq = FALSE]
<1>1. r \in Record /\ r.attempt \in Nat /\ r.claimed <= r.attempt
  BY DEF Inv, TypeOK, Record, ClaimsAreOld
<1>2. r.active = FALSE /\ Exists(r) /\ ~Outstanding(r)
  BY <1>1 DEF Retry, Active, Exists, Outstanding, Record
<1>3. Enqueue(With(t, n), t) /\ Admissible /\ lost' = lost
  BY DEF Retry
<1> HIDE DEF r
<1>4. /\ n \in Record /\ n.status = "queued" /\ n.attempt = r.attempt + 1
      /\ n.claimed = r.claimed /\ n.active = FALSE
  <2> DEFINE a == r.attempt + 1
  <2>1. a \in Nat
    BY <1>1
  <2> HIDE DEF a
  <2>2. LET m == [r EXCEPT !.status = "queued", !.attempt = a, !.cancelReq = FALSE]
        IN  /\ m \in Record /\ m.status = "queued" /\ m.attempt = a
            /\ m.claimed = r.claimed /\ m.active = r.active
    BY <1>1, <2>1 DEF Record, WorkflowStatuses
  <2> QED BY <1>2, <2>2 DEF a
<1> HIDE DEF n
<1>5. PICK s \in Record :
         /\ Shaped(With(t, s))
         /\ s.attempt = n.attempt /\ s.active = n.active /\ s.claimed = n.claimed
         /\ Exists(s)
  <2>1. NotOver(records[t], n)
    BY <1>1, <1>4 DEF NotOver, r
  <2> QED BY <1>3, <1>4, <2>1, EnqueueShaped DEF Inv, SameClaim
<1>6. Renews(t, s)
  BY <1>1, <1>2, <1>3, <1>4, <1>5 DEF Renews, r
<1> QED BY <1>6 DEF Summary

LEMMA DispatchSummary ==
    ASSUME Inv, NEW t \in Tasks, Dispatch(t)
    PROVE  Summary
<1> DEFINE r == records[t]
           p == [r EXCEPT !.fut = "pending"]
           f == [r EXCEPT !.status = "failed"]
<1>1. r \in Record /\ r.status = "queued" /\ lost' = lost
  BY DEF Dispatch, Inv, TypeOK
<1>2. \/ records' = With(t, p) /\ disk' = disk
      \/ Save(With(t, f), t)
  <2>1. Failed(records, t) = With(t, f)
    BY DEF Inv, TypeOK, With, Failed
  <2> QED BY <2>1 DEF Dispatch
<1>3. records' = With(t, p) /\ disk' = disk => Shaped(With(t, p))
  BY FutureShaped DEF Inv, Futures
<1> HIDE DEF r
<1>4. /\ p \in Record /\ p.attempt = r.attempt /\ p.active = r.active /\ SameClaim(r, p)
      /\ p.status = r.status /\ f.status = "failed"
      /\ f \in Record /\ f.attempt = r.attempt /\ f.active = r.active /\ SameClaim(r, f)
  BY <1>1 DEF Record, Futures, WorkflowStatuses, SameClaim
<1>5. Save(With(t, f), t) => Shaped(With(t, f))
  BY <1>4, SaveShaped DEF Inv
<1> HIDE DEF p, f
<1>6. Continues(r, p) /\ Continues(r, f)
  BY <1>1, <1>4, LiveContinues DEF Exists, Outstanding, Sound, TerminalStatuses
<1>7. Quiet
  BY <1>1, <1>2, <1>3, <1>4, <1>5, <1>6, OneQuiet DEF Inv, r
<1> QED BY <1>7 DEF Summary

LEMMA CancelSummary ==
    ASSUME Inv, NEW t \in Tasks, Cancel(t)
    PROVE  Summary
<1>1. Save(With(t, Canceled(records[t])), t) /\ lost' = lost
  BY DEF Cancel, Save
<1>2. /\ records[t] \in Record /\ Exists(records[t])
      /\ records[t].status \notin TerminalStatuses
  BY DEF Cancel, Inv, TypeOK
<1>3. Quiet
  BY <1>1, <1>2, CanceledContinues, SaveShaped, OneQuiet DEF Inv
<1> QED BY <1>3 DEF Summary

LEMMA NoticeSummary ==
    ASSUME Inv, NEW t \in Tasks, NEW a \in 1..MaxAttempt,
           ClaimNotice(t, a) \/ RecordNotice(t, a)
    PROVE  Summary
<1>1. records[t] \in Record
  BY DEF Inv, TypeOK
<1>2. PICK n \in {"claimed", "recorded"} :
         Save(With(t, [records[t] EXCEPT !.notice = n]), t) /\ lost' = lost
  BY DEF ClaimNotice, RecordNotice
<1> DEFINE r == [records[t] EXCEPT !.notice = n]
<1>3. /\ r \in Record
      /\ r.status = records[t].status /\ r.fut = records[t].fut
      /\ r.active = records[t].active /\ r.attempt = records[t].attempt
      /\ SameClaim(records[t], r)
  BY <1>1 DEF Record, SameClaim
<1> HIDE DEF r
<1>4. Save(With(t, r), t)
  BY <1>2 DEF r
<1>5. Quiet
  BY <1>2, <1>3, <1>4, SameContinues, SaveShaped, OneQuiet DEF Inv
<1> QED BY <1>5 DEF Summary

LEMMA UpdateProgressSummary ==
    ASSUME Inv, NEW w \in Workers, UpdateProgress(w)
    PROVE  Summary
<1> DEFINE t == job[w][1]
<1>1. t \in Tasks /\ records[t] \in Record
  BY DEF UpdateProgress, Inv, TypeOK, Items
<1>2. With(t, records[t]) = records
  BY DEF With, Inv, TypeOK
<1>3. Save(With(t, records[t]), t) /\ lost' = lost
  BY <1>2 DEF UpdateProgress
<1> HIDE DEF t
<1>4. Quiet
  BY <1>1, <1>3, ContinuesSelf, SaveShaped, OneQuiet DEF Inv
<1> QED BY <1>4 DEF Summary

LEMMA ClaimTargetSummary ==
    ASSUME Inv, NEW w \in Workers, NEW q \in Requests, ClaimTarget(w, q)
    PROVE  Summary
<1> DEFINE t == job[w][1]
           r == [records[t] EXCEPT !.target = q.target, !.claimed = records[t].attempt]
<1>1. t \in Tasks /\ records[t] \in Record
  BY DEF ClaimTarget, Inv, TypeOK, Items
<1>2. /\ r \in Record
      /\ r.status = records[t].status /\ r.fut = records[t].fut
      /\ r.active = records[t].active /\ r.attempt = records[t].attempt
      /\ r.scope = records[t].scope /\ r.target = q.target /\ r.claimed = r.attempt
  BY <1>1 DEF Record, Targets
<1>3. Save(With(t, r), t) /\ lost' = lost /\ Claimable(t, q)
  BY DEF ClaimTarget
<1> HIDE DEF t, r
<1>4. Shaped(With(t, r))
  BY <1>1, <1>2, <1>3, SaveShaped DEF Inv
<1>5. Continues(records[t], r)
  BY <1>2, SameContinues
<1>6. Claims(t, r)
  BY <1>2, <1>3, <1>4, <1>5 DEF Claims, Claimable, Outstanding, Active
<1> QED BY <1>1, <1>2, <1>6 DEF Summary

LEMMA PickSummary ==
    ASSUME Inv, NEW w \in Workers, Pick(w)
    PROVE  Summary
<1> DEFINE t == Head(queue)[1]
           f == IF records[t].fut = "pending" THEN "running" ELSE records[t].fut
           r == [records[t] EXCEPT !.fut = f]
<1>1. 1 \in 1..Len(queue) /\ Head(queue) = queue[1] /\ t \in Tasks
  BY DEF Pick, Inv, TypeOK, Items
<1>2. records[t] \in Record /\ records[t].status = "queued" /\ f \in Futures
  BY <1>1 DEF Inv, TypeOK, QueueInv, QueuedOK, Futures
<1>3. records' = With(t, r) /\ disk' = disk /\ lost' = lost
  BY DEF Pick
<1> HIDE DEF t, f
<1>4. Shaped(With(t, r))
  BY <1>1, <1>2, <1>3, FutureShaped DEF Inv
<1>5. /\ r \in Record /\ r.status = records[t].status /\ r.active = records[t].active
      /\ r.attempt = records[t].attempt /\ SameClaim(records[t], r)
  BY <1>2 DEF Record, SameClaim
<1> HIDE DEF r
<1>6. Continues(records[t], r)
  BY <1>2, <1>5, LiveContinues DEF Exists, Outstanding, Sound, TerminalStatuses
<1>7. Quiet
  BY <1>1, <1>3, <1>4, <1>5, <1>6, OneQuiet DEF Inv
<1> QED BY <1>7 DEF Summary

LEMMA StartSummary ==
    ASSUME Inv, NEW w \in Workers, Start(w)
    PROVE  QuietOn(job[w][1]) /\ Summary
<1> DEFINE t == job[w][1]
           a == job[w][2]
           r == records[t]
           f == IF r.attempt = a /\ r.fut = "running" THEN "done" ELSE r.fut
           ended == [r EXCEPT !.fut = f]
           begun == [r EXCEPT !.status = "running", !.active = TRUE]
           stuck == [begun EXCEPT !.fut = "done"]
<1>1. pc[w] = "picked" /\ lost' = lost
  BY DEF Start
<1>2. t \in Tasks /\ r \in Record
  BY <1>1, OnlyItem
<1>3. r.status = "queued" /\ r.fut = "running"
  BY <1>1 DEF Inv, WorkersInv, PickedOK
<1>4. \/ records' = With(t, ended) /\ disk' = disk
      \/ Save(With(t, begun), t)
      \/ Save(With(t, stuck), t)
  BY DEF Start, Save
<1>5. records' = With(t, ended) /\ disk' = disk => Shaped(With(t, ended))
  <2>1. f \in Futures
    BY <1>3 DEF Futures
  <2> HIDE DEF f, t
  <2> QED BY <1>2, <2>1, FutureShaped DEF Inv
<1>6. Exists(r) /\ Outstanding(r) /\ r.status \notin TerminalStatuses
  BY <1>3 DEF Exists, Outstanding, TerminalStatuses
<1> HIDE DEF r
<1>7. /\ ended \in Record /\ ended.attempt = r.attempt /\ SameClaim(r, ended)
      /\ ended.active = r.active /\ ended.status = "queued"
  <2>1. f \in Futures
    BY <1>3 DEF Futures
  <2> HIDE DEF f
  <2> QED BY <1>2, <1>3, <2>1 DEF Record, SameClaim
<1>8. /\ begun \in Record /\ begun.attempt = r.attempt /\ SameClaim(r, begun)
      /\ begun.status = "running" /\ begun.fut = "running"
  BY <1>2, <1>3 DEF Record, WorkflowStatuses, SameClaim
<1> HIDE DEF ended, begun
<1>9. /\ stuck \in Record /\ stuck.attempt = r.attempt /\ SameClaim(r, stuck)
      /\ stuck.status = "running" /\ stuck.fut = "done"
  BY <1>8 DEF Record, Futures, SameClaim
<1> HIDE DEF stuck
<1>10. Continues(r, ended) /\ Continues(r, begun) /\ Continues(r, stuck)
  BY <1>3, <1>6, <1>7, <1>8, <1>9, LiveContinues DEF Sound, Exists
<1>11. Save(With(t, begun), t) => Shaped(With(t, begun))
  BY <1>2, <1>8, SaveShaped DEF Inv
<1>12. Save(With(t, stuck), t) => Shaped(With(t, stuck))
  BY <1>2, <1>9, SaveShaped DEF Inv
<1> HIDE DEF t
<1>13. QuietOn(t) /\ Quiet
  BY <1>1, <1>2, <1>4, <1>5, <1>7, <1>8, <1>9, <1>10, <1>11, <1>12, OneQuiet DEF Inv, r
<1> QED BY <1>13 DEF Summary, t

LEMMA EndedFields ==
    ASSUME NEW r \in Record, NEW status \in WorkflowStatuses
    PROVE  /\ Ended(r, status) \in Record
           /\ Ended(r, status).attempt = r.attempt
           /\ Ended(r, status).active = FALSE /\ Exists(Ended(r, status))
           /\ SameClaim(r, Ended(r, status))
<1>1. Ended(r, status) \in Record
  BY RecordTypes
<1> DEFINE h == r.handler /\ ~r.fresh
<1>2. Ended(r, status) = [r EXCEPT !.status = status, !.active = FALSE,
                                   !.cleanup = FALSE, !.handler = h, !.fut = "done"]
  BY DEF Ended
<1> HIDE DEF h
<1> QED BY <1>1, <1>2 DEF Record, SameClaim, Exists, WorkflowStatuses

LEMMA FinishSummary ==
    ASSUME Inv, NEW w \in Workers, Finish(w)
    PROVE  QuietOn(job[w][1]) /\ Summary
<1> DEFINE t == job[w][1]
           r == records[t]
           next == [r EXCEPT !.status = "queued", !.active = FALSE,
                             !.handler = TRUE, !.cleanup = TRUE, !.fut = "done"]
<1>1. pc[w] = "executing" /\ lost' = lost
  BY DEF Finish
<1>2. t \in Tasks /\ r \in Record
  BY <1>1, OnlyItem
<1>3. r.attempt = job[w][2] /\ r.status = "running" /\ r.active
  BY <1>1 DEF Inv, WorkersInv, ExecOK
<1>4. \/ \E s \in WorkflowStatuses : Settle(r, t, s) \/ Save(With(t, Ended(r, s)), t)
      \/ Dispatched(With(t, next), t)
      \/ RefusalLost(With(t, next), With(t, Ended(r, "failed")), t)
  <2>1. Yield(r, t) \/ (\E s \in OutcomeStatuses : Answer(r, t, s)) \/ Raise(r, t)
    BY <1>3 DEF Finish
  <2> QED BY <2>1 DEF Yield, Answer, Raise, OutcomeStatuses, WorkflowStatuses
<1>5. Exists(r) /\ Outstanding(r) /\ r.status \notin TerminalStatuses
  BY <1>3 DEF Exists, Outstanding, Active, TerminalStatuses
<1> HIDE DEF t, r
<1>6. /\ next \in Record /\ next.status = "queued" /\ next.attempt = r.attempt
      /\ next.active = FALSE /\ SameClaim(r, next)
  BY <1>2 DEF Record, WorkflowStatuses, Futures, SameClaim
<1> HIDE DEF next
<1>10. NotOver(records[t], next)
  BY <1>5, <1>6 DEF NotOver, r
<1>7. \E e \in Record : /\ Shaped(With(t, e))
                        /\ e.attempt = r.attempt /\ ~e.active /\ SameClaim(r, e) /\ Exists(e)
  <2>1. ASSUME NEW s \in WorkflowStatuses, Settle(r, t, s) \/ Save(With(t, Ended(r, s)), t)
        PROVE  \E z \in WorkflowStatuses : Save(With(t, Ended(r, z)), t)
    BY <2>1 DEF Settle, Save, WorkflowStatuses
  <2>2. ASSUME NEW z \in WorkflowStatuses, Save(With(t, Ended(r, z)), t)
        PROVE  Shaped(With(t, Ended(r, z)))
    BY <1>2, <2>2, EndedFields, SaveShaped DEF Inv
  <2>3. CASE Dispatched(With(t, next), t)
    <3>1. PICK e \in Record :
             /\ Shaped(With(t, e))
             /\ e.attempt = next.attempt /\ e.active = next.active /\ SameClaim(next, e)
             /\ Exists(e)
      BY <1>2, <1>6, <1>10, <2>3, EnqueueShaped DEF Inv, Enqueue
    <3> QED BY <1>6, <3>1 DEF SameClaim
  <2>4. CASE RefusalLost(With(t, next), With(t, Ended(r, "failed")), t)
    <3>1. "failed" \in WorkflowStatuses
      BY DEF WorkflowStatuses
    <3> DEFINE e == Ended(r, "failed")
    <3>2. /\ e \in Record /\ e.attempt = r.attempt /\ ~e.active
          /\ SameClaim(r, e) /\ Exists(e)
      BY <1>2, <3>1, EndedFields
    <3> HIDE DEF e
    <3>3. RefusalLost(With(t, next), With(t, e), t)
      BY <2>4 DEF e
    <3>4. Shaped(With(t, e))
      BY <1>2, <1>6, <1>10, <3>2, <3>3, RefusalShaped DEF Inv, SameClaim
    <3> QED BY <3>2, <3>4
  <2> QED BY <1>2, <1>4, <2>1, <2>2, <2>3, <2>4, EndedFields
<1>8. PICK e \in Record : /\ Shaped(With(t, e))
                          /\ e.attempt = r.attempt /\ ~e.active /\ SameClaim(r, e) /\ Exists(e)
  BY <1>7
<1>9. Continues(r, e)
  BY <1>5, <1>8, LiveContinues DEF Sound
<1>11. QuietOn(t) /\ Quiet
  BY <1>1, <1>2, <1>8, <1>9, OneQuiet DEF Inv, r
<1> QED BY <1>11 DEF Summary, t

(* However far shutdown gets, each record is canceled or as it was, and    *)
(* each row is written, deleted or as it was.                              *)
LEMMA SweptShaped ==
    ASSUME Inv, ActiveRuns, NEW S \in SUBSET OutstandingTasks, NEW R \in SUBSET S,
           NEW V \in Victims(Swept(S)), NEW W, W \subseteq V,
           StoreHolds => R = S /\ W = V,
           records' = Drop(Swept(S), V), disk' = Drop(Written(Swept(S), R), W),
           lost' = lost
    PROVE  Quiet
<1> DEFINE swept == Swept(S)
           rows == Written(Swept(S), R)
<1>3. ASSUME NEW u \in Tasks
      PROVE  /\ swept[u] \in Record
             /\ Continues(records[u], swept[u]) /\ SameClaim(records[u], swept[u])
             /\ rows[u] = disk[u] \/ rows[u] = Stored(swept[u])
             /\ StoreHolds /\ disk[u] = Stored(records[u]) => rows[u] = Stored(swept[u])
  <2>1. records[u] \in Record
    BY DEF Inv, TypeOK
  <2>2. CASE u \in S
    <3>1. Exists(records[u]) /\ records[u].status \notin TerminalStatuses
      BY <2>2 DEF OutstandingTasks, ActiveRuns, Sound, Exists, Outstanding, Active, TerminalStatuses
    <3>2. swept[u] = Canceled(records[u])
      BY <2>2 DEF Swept
    <3>3. /\ rows[u] = disk[u] \/ rows[u] = Stored(swept[u])
          /\ StoreHolds => rows[u] = Stored(swept[u])
      BY <2>2 DEF Written
    <3> HIDE DEF swept, rows
    <3> QED BY <2>1, <3>1, <3>2, <3>3, CanceledContinues
  <2>3. CASE u \notin S
    <3>1. swept[u] = records[u] /\ rows[u] = disk[u]
      BY <2>3 DEF Swept, Written
    <3> HIDE DEF swept, rows
    <3> QED BY <2>1, <3>1, ContinuesSelf
  <2> QED BY <2>2, <2>3
<1>4. swept \in [Tasks -> Record]
  BY SweptType DEF Inv
<1>5. records' = Drop(swept, V) /\ disk' = Drop(rows, W)
  OBVIOUS
<1>7. V \in Victims(swept)
  OBVIOUS
<1> HIDE DEF swept, rows
<1>6. Shaped(swept)
  <2>1. ASSUME NEW u \in Tasks
        PROVE  /\ records'[u] = IF u \in V THEN Absent ELSE swept[u]
               /\ disk'[u] = IF u \in W THEN Absent ELSE rows[u]
               /\ u \in V => Forgetful /\ Finished(swept[u])
    BY <1>5, <1>7, VictimsAreMany DEF Drop
  <2>2. \A u \in Tasks : StoreHolds /\ DiskMirrorsMemory => disk'[u] = Stored(records'[u])
    BY <1>3, <2>1, AbsentFields DEF DiskMirrorsMemory
  <2> QED BY <1>3, <1>4, <2>1, <2>2 DEF Shaped
<1> QED BY <1>3, <1>6 DEF Quiet

LEMMA ShutdownNowSummary ==
    ASSUME Inv, ActiveRuns, ShutdownNow
    PROVE  Summary
<1>1. lost' = lost
  BY DEF ShutdownNow
<1>2. CASE SweepAll
  <2> DEFINE S == OutstandingTasks
  <2>1. PICK V \in Victims(Swept(S)) :
           records' = Drop(Swept(S), V) /\ disk' = Drop(Written(Swept(S), S), V)
    BY <1>2 DEF SweepAll
  <2> HIDE DEF S
  <2>2. S \in SUBSET OutstandingTasks
    BY DEF S
  <2> QED BY <1>1, <2>1, <2>2, SweptShaped DEF Summary
<1>3. ASSUME NEW t \in OutstandingTasks, NEW S \in SUBSET (OutstandingTasks \ {t}),
             SweepStopsAt(t, S)
      PROVE  Summary
  <2> DEFINE D == S \cup {t}
  <2>1. PICK V \in Victims(Swept(D)) :
           /\ records' = Drop(Swept(D), V)
           /\ \E W : W \subseteq V /\ disk' = Drop(Written(Swept(D), S), W)
    BY <1>3 DEF SweepStopsAt
  <2>2. ~StoreHolds
    BY <1>3 DEF SweepStopsAt, StoreHolds
  <2>3. D \in SUBSET OutstandingTasks /\ S \in SUBSET D
    OBVIOUS
  <2> HIDE DEF D
  <2> QED BY <1>1, <2>1, <2>2, <2>3, SweptShaped DEF Summary
<1> QED BY <1>2, <1>3 DEF ShutdownNow

(* Nothing changes in the tables.                                          *)
LEMMA StillSummary ==
    ASSUME Inv, UNCHANGED <<records, disk, lost>>
    PROVE  Summary
<1>1. Shaped(records)
  BY DEF Shaped, DiskMirrorsMemory, Inv, TypeOK
<1> QED BY <1>1, ContinuesSelf DEF Summary, Quiet

LEMMA NextSummary ==
    ASSUME Inv, HistoryInv, [Next]_vars, ~Restart
    PROVE  Summary
<1>1. CASE UNCHANGED vars
  BY <1>1, StillSummary DEF vars
<1>2. CASE Call
  <2>1. ASSUME NEW f \in finalizers, RunFinalizer(f) PROVE Summary
    BY <2>1, StillSummary DEF RunFinalizer
  <2> QED BY <1>2, <2>1, SubmitSummary, DispatchSummary, CancelSummary,
             RetrySummary, NoticeSummary DEF Call, HistoryInv
<1>3. ASSUME NEW w \in Workers, Step(w) PROVE Summary
  BY <1>3, PickSummary, StartSummary, FinishSummary, UpdateProgressSummary,
     ClaimTargetSummary DEF Step
<1>4. CASE Shutdown
  BY <1>4, StillSummary DEF Shutdown
<1> QED BY <1>1, <1>2, <1>3, <1>4, ShutdownNowSummary DEF Next, HistoryInv

-----------------------------------------------------------------------------
(* A step of each shape keeps the invariant.                               *)

LEMMA HistoryInit == Init => HistoryInv
<1> SUFFICES ASSUME Init PROVE HistoryInv
  OBVIOUS
<1>1. \A t \in Tasks : records[t] = Absent /\ disk[t] = Absent /\ lost[t] = {}
  BY DEF Init
<1>2. OutstandingTasks = {}
  BY <1>1, AbsentFields DEF OutstandingTasks
<1>3. PendingBound
  BY <1>2, FS_EmptySet, CoordinatorAssumption DEF PendingBound
<1>4. OneOwner
  BY <1>1, AbsentFields DEF OneOwner, Owner
<1>5. LostIsPast /\ ClaimsAreOld /\ ActiveRuns
  BY <1>1, AbsentFields DEF LostIsPast, ClaimsAreOld, ActiveRuns, Sound, Absent
<1>6. MirrorIfStored
  BY <1>1, AbsentFields DEF MirrorIfStored, DiskMirrorsMemory
<1> QED BY <1>3, <1>4, <1>5, <1>6 DEF HistoryInv

(* The records and rows after a step are records.                          *)
LEMMA ShapedTypes ==
    ASSUME Inv, NEW recs, Shaped(recs), NEW u \in Tasks
    PROVE  /\ recs[u] \in Record /\ records[u] \in Record /\ disk[u] \in Record
           /\ recs[u].attempt \in Nat /\ records[u].attempt \in Nat
           /\ disk[u].attempt \in Nat /\ lost[u] \subseteq Nat
<1>1. recs[u] \in Record /\ records[u] \in Record /\ disk[u] \in Record
  BY DEF Shaped, Inv, TypeOK
<1>2. lost[u] \subseteq Nat
  BY DEF Inv, TypeOK
<1> QED BY <1>1, <1>2 DEF Record

(* What both tables say of a task follows from what recs and its old row   *)
(* say.                                                                    *)
LEMMA ShapedPast ==
    ASSUME Inv, NEW recs, Shaped(recs), NEW u \in Tasks, NEW a,
           Exists(recs[u]) => Past(recs[u], a),
           Exists(disk[u]) => Past(disk[u], a),
           Exists(records[u]) => Past(records[u], a),
           Exists(records[u]) \/ recs[u].attempt = records[u].attempt, a \in Nat
    PROVE  /\ Exists(records'[u]) => Past(records'[u], a)
           /\ Exists(disk'[u]) => Past(disk'[u], a)
<1>1. /\ Stored(recs[u]).status = recs[u].status
      /\ Stored(recs[u]).attempt = recs[u].attempt
  BY ShapedTypes, StoredFields
<1>2. Exists(Stored(recs[u])) => Past(Stored(recs[u]), a)
  BY <1>1 DEF Exists, Past
<1>3. Halfway(records[u], recs[u], disk'[u]) => Past(disk'[u], a)
  BY ShapedTypes DEF Halfway, NotOver, Past
<1> QED BY <1>2, <1>3, AbsentFields DEF Shaped

LEMMA ShapedClaims ==
    ASSUME Inv, ClaimsAreOld, NEW recs, Shaped(recs),
           \A u \in Tasks : recs[u].claimed <= recs[u].attempt
    PROVE  ClaimsAreOld'
<1> SUFFICES ASSUME NEW u \in Tasks
             PROVE  /\ records'[u].claimed <= records'[u].attempt
                    /\ disk'[u].claimed <= disk'[u].attempt
  BY DEF ClaimsAreOld
<1>1. /\ Stored(recs[u]).claimed = recs[u].claimed
      /\ Stored(recs[u]).attempt = recs[u].attempt
  BY ShapedTypes, StoredFields
<1>2. Absent.claimed <= Absent.attempt
  BY AbsentFields
<1>3. recs[u].claimed <= recs[u].attempt /\ disk[u].claimed <= disk[u].attempt
  BY DEF ClaimsAreOld
<1>4. records'[u] = recs[u] \/ records'[u] = Absent
  BY DEF Shaped
<1>5. \/ disk'[u] = disk[u] \/ disk'[u] = Absent \/ disk'[u] = Stored(recs[u])
      \/ disk'[u].claimed = recs[u].claimed /\ disk'[u].attempt = recs[u].attempt
  BY DEF Shaped, Halfway
<1>6. Stored(recs[u]).claimed <= Stored(recs[u]).attempt
  BY <1>1, <1>3
<1>7. records'[u].claimed <= records'[u].attempt
  BY <1>2, <1>3, <1>4
<1>8. disk'[u].claimed <= disk'[u].attempt
  BY <1>2, <1>3, <1>5, <1>6
<1> QED BY <1>7, <1>8

LEMMA ShapedRest ==
    ASSUME MirrorIfStored, NEW recs, Shaped(recs), \A u \in Tasks : Sound(recs[u])
    PROVE  MirrorIfStored' /\ ActiveRuns'
<1>1. MirrorIfStored'
  BY DEF MirrorIfStored, Shaped, DiskMirrorsMemory, StoreHolds
<1>2. Sound(Absent)
  BY DEF Sound, Absent
<1>3. ActiveRuns'
  BY <1>2 DEF ActiveRuns, Shaped
<1> QED BY <1>1, <1>3

(* Live work that was live before keeps the number under the cap.          *)
LEMMA FewerPending ==
    ASSUME NEW S, IsFiniteSet(S), Cardinality(S) <= MaxPending,
           OutstandingTasks' \subseteq S
    PROVE  PendingBound'
<1>1. IsFiniteSet(OutstandingTasks') /\ Cardinality(OutstandingTasks') <= Cardinality(S)
  BY FS_Subset
<1>2. /\ Cardinality(S) \in Nat /\ Cardinality(OutstandingTasks') \in Nat
      /\ MaxPending \in Nat
  BY <1>1, FS_CardinalityType, CoordinatorAssumption
<1>3. Cardinality(OutstandingTasks') <= MaxPending
  BY <1>1, <1>2
<1> QED BY <1>3 DEF PendingBound

LEMMA PendingFinite == IsFiniteSet(OutstandingTasks) /\ Cardinality(OutstandingTasks) \in Nat
<1>1. OutstandingTasks \subseteq Tasks
  BY DEF OutstandingTasks
<1> QED BY <1>1, FS_Subset, FS_CardinalityType, CoordinatorAssumption

LEMMA QuietKeeps ==
    ASSUME Inv, HistoryInv, Quiet
    PROVE  HistoryInv'
<1>1. PICK recs :
         /\ Shaped(recs)
         /\ \A u \in Tasks : /\ Continues(records[u], recs[u])
                             /\ SameClaim(records[u], recs[u])
  BY DEF Quiet
<1>2. lost' = lost
  BY DEF Quiet
<1>3. LostIsPast'
  <2> SUFFICES ASSUME NEW t \in Tasks, NEW a \in lost[t]
               PROVE  /\ Exists(records'[t]) => Past(records'[t], a)
                      /\ Exists(disk'[t]) => Past(disk'[t], a)
    BY <1>2 DEF LostIsPast
  <2>1. Exists(recs[t]) => Past(recs[t], a)
    BY <1>1 DEF HistoryInv, LostIsPast, Continues, Past
  <2>2. Exists(disk[t]) => Past(disk[t], a)
    BY DEF HistoryInv, LostIsPast
  <2>3. Exists(records[t]) => Past(records[t], a)
    BY DEF HistoryInv, LostIsPast
  <2>4. recs[t].attempt = records[t].attempt /\ a \in Nat
    BY <1>1 DEF Continues, Inv, TypeOK
  <2> QED BY <1>1, <2>1, <2>2, <2>3, <2>4, ShapedPast
<1>4. ClaimsAreOld'
  <2>1. \A u \in Tasks : recs[u].claimed <= recs[u].attempt
    BY <1>1 DEF HistoryInv, ClaimsAreOld, Continues, SameClaim
  <2> QED BY <1>1, <2>1, ShapedClaims DEF HistoryInv
<1>5. MirrorIfStored' /\ ActiveRuns'
  <2>1. \A u \in Tasks : Sound(recs[u])
    BY <1>1 DEF HistoryInv, ActiveRuns, Continues
  <2> QED BY <1>1, <2>1, ShapedRest DEF HistoryInv
<1>6. PendingBound'
  <2>1. OutstandingTasks' \subseteq OutstandingTasks
    <3> SUFFICES ASSUME NEW u \in Tasks, Outstanding(records'[u])
                 PROVE  Outstanding(records[u])
      BY DEF OutstandingTasks
    <3> QED BY <1>1, AbsentFields DEF Shaped, Continues
  <2> QED BY <2>1, PendingFinite, FewerPending DEF HistoryInv, PendingBound
<1>7. OneOwner'
  <2>1. ASSUME NEW u \in Tasks, Owner(u)'
        PROVE  /\ Owner(u)
               /\ records'[u].scope = records[u].scope
               /\ records'[u].target = records[u].target
    <3>1. records'[u] = recs[u]
      BY <1>1, <2>1, AbsentFields DEF Shaped, Owner
    <3> QED BY <1>1, <2>1, <3>1 DEF Owner, Continues, SameClaim
  <2> QED BY <2>1 DEF HistoryInv, OneOwner
<1> QED BY <1>3, <1>4, <1>5, <1>6, <1>7 DEF HistoryInv

LEMMA RenewsKeeps ==
    ASSUME Inv, HistoryInv, NEW t \in Tasks, NEW r \in Record, Renews(t, r)
    PROVE  HistoryInv'
<1> DEFINE recs == With(t, r)
<1>1. /\ recs[t] = r /\ \A u \in Tasks \ {t} : recs[u] = records[u]
      /\ Shaped(recs)
  BY WithType DEF Renews, Inv
<1> HIDE DEF recs
<1>2. /\ records[t].attempt \in Nat /\ r.attempt = records[t].attempt + 1
      /\ r.claimed <= records[t].attempt /\ r.claimed \in Nat /\ ~r.active
  BY DEF Renews, Inv, TypeOK, Record
<1>3. LostIsPast'
  <2> SUFFICES ASSUME NEW u \in Tasks, NEW a \in lost'[u]
               PROVE  /\ Exists(records'[u]) => Past(records'[u], a)
                      /\ Exists(disk'[u]) => Past(disk'[u], a)
    BY DEF LostIsPast
  <2>1. a \in lost[u] /\ (u = t => Exists(records[t]))
    BY DEF Renews, Inv, TypeOK
  <2>2. a \in Nat
    BY <2>1 DEF Inv, TypeOK
  <2>3. Exists(recs[u]) => Past(recs[u], a)
    <3>1. CASE u = t
      <4>1. Past(records[t], a)
        BY <2>1, <3>1 DEF HistoryInv, LostIsPast
      <4>2. a < r.attempt
        BY <1>2, <2>2, <4>1 DEF Past
      <4> QED BY <1>1, <3>1, <4>2 DEF Past
    <3>2. CASE u # t
      BY <1>1, <2>1, <3>2 DEF HistoryInv, LostIsPast
    <3> QED BY <3>1, <3>2
  <2>4. Exists(disk[u]) => Past(disk[u], a)
    BY <2>1 DEF HistoryInv, LostIsPast
  <2>5. Exists(records[u]) => Past(records[u], a)
    BY <2>1 DEF HistoryInv, LostIsPast
  <2>6. Exists(records[u]) \/ recs[u].attempt = records[u].attempt
    BY <1>1, <2>1
  <2> QED BY <1>1, <2>2, <2>3, <2>4, <2>5, <2>6, ShapedPast
<1>4. ClaimsAreOld'
  <2>1. \A u \in Tasks : recs[u].claimed <= recs[u].attempt
    BY <1>1, <1>2 DEF HistoryInv, ClaimsAreOld
  <2> QED BY <1>1, <2>1, ShapedClaims DEF HistoryInv
<1>5. MirrorIfStored' /\ ActiveRuns'
  <2>1. \A u \in Tasks : Sound(recs[u])
    BY <1>1, <1>2 DEF HistoryInv, ActiveRuns, Sound
  <2> QED BY <1>1, <2>1, ShapedRest DEF HistoryInv
<1>6. PendingBound'
  <2> DEFINE S == OutstandingTasks \cup {t}
  <2>1. OutstandingTasks' \subseteq S
    <3> SUFFICES ASSUME NEW u \in Tasks \ {t}, Outstanding(records'[u])
                 PROVE  Outstanding(records[u])
      BY DEF OutstandingTasks
    <3> QED BY <1>1, AbsentFields DEF Shaped
  <2>2. IsFiniteSet(S) /\ Cardinality(S) <= Cardinality(OutstandingTasks) + 1
    BY PendingFinite, FS_AddElement
  <2>3. Cardinality(S) \in Nat
    BY <2>2, FS_CardinalityType
  <2>4. Cardinality(S) <= MaxPending
    BY <2>2, <2>3, PendingFinite, CoordinatorAssumption DEF Renews, Admissible
  <2> HIDE DEF S
  <2> QED BY <2>1, <2>2, <2>4, FewerPending
<1>7. OneOwner'
  <2>1. ASSUME NEW u \in Tasks, Owner(u)'
        PROVE  /\ Owner(u) /\ records'[u] = records[u]
    <3>1. records'[u] = recs[u]
      BY <1>1, <2>1, AbsentFields DEF Shaped, Owner
    <3>2. u # t
      BY <1>1, <1>2, <2>1, <3>1 DEF Owner
    <3> QED BY <1>1, <2>1, <3>1, <3>2 DEF Owner
  <2> QED BY <2>1 DEF HistoryInv, OneOwner
<1> QED BY <1>3, <1>4, <1>5, <1>6, <1>7 DEF HistoryInv

LEMMA ClaimsKeeps ==
    ASSUME Inv, HistoryInv, NEW t \in Tasks, NEW r \in Record, Claims(t, r)
    PROVE  HistoryInv'
<1> DEFINE recs == With(t, r)
<1>1. /\ recs[t] = r /\ \A u \in Tasks \ {t} : recs[u] = records[u]
      /\ Shaped(recs)
  BY WithType DEF Claims, Inv
<1> HIDE DEF recs
<1>2. \A u \in Tasks : Continues(records[u], recs[u])
  BY <1>1, ContinuesSelf DEF Claims
<1>3. r.attempt \in Nat /\ r.claimed = r.attempt /\ lost' = lost
  BY DEF Claims, Record
<1>4. LostIsPast'
  <2> SUFFICES ASSUME NEW u \in Tasks, NEW a \in lost[u]
               PROVE  /\ Exists(records'[u]) => Past(records'[u], a)
                      /\ Exists(disk'[u]) => Past(disk'[u], a)
    BY <1>3 DEF LostIsPast
  <2>1. Exists(recs[u]) => Past(recs[u], a)
    BY <1>2 DEF HistoryInv, LostIsPast, Continues, Past
  <2>2. Exists(disk[u]) => Past(disk[u], a)
    BY DEF HistoryInv, LostIsPast
  <2>3. Exists(records[u]) => Past(records[u], a)
    BY DEF HistoryInv, LostIsPast
  <2>4. recs[u].attempt = records[u].attempt /\ a \in Nat
    BY <1>2 DEF Continues, Inv, TypeOK
  <2> QED BY <1>1, <2>1, <2>2, <2>3, <2>4, ShapedPast
<1>5. ClaimsAreOld'
  <2>1. \A u \in Tasks : recs[u].claimed <= recs[u].attempt
    BY <1>1, <1>3 DEF HistoryInv, ClaimsAreOld
  <2> QED BY <1>1, <2>1, ShapedClaims DEF HistoryInv
<1>6. MirrorIfStored' /\ ActiveRuns'
  <2>1. \A u \in Tasks : Sound(recs[u])
    BY <1>2 DEF HistoryInv, ActiveRuns, Continues
  <2> QED BY <1>1, <2>1, ShapedRest DEF HistoryInv
<1>7. PendingBound'
  <2>1. OutstandingTasks' \subseteq OutstandingTasks
    <3> SUFFICES ASSUME NEW u \in Tasks, Outstanding(records'[u])
                 PROVE  Outstanding(records[u])
      BY DEF OutstandingTasks
    <3> QED BY <1>1, <1>2, AbsentFields DEF Shaped, Continues
  <2> QED BY <2>1, PendingFinite, FewerPending DEF HistoryInv, PendingBound
<1>8. OneOwner'
  <2>1. ASSUME NEW u \in Tasks \ {t}, Owner(u)'
        PROVE  Owner(u) /\ Outstanding(records[u]) /\ records'[u] = records[u]
    <3>1. records'[u] = recs[u]
      BY <1>1, <2>1, AbsentFields DEF Shaped, Owner
    <3> QED BY <1>1, <2>1, <3>1 DEF Owner
  <2>2. Owner(t)' => records'[t] = r
    BY <1>1, AbsentFields DEF Shaped, Owner
  <2>3. ASSUME NEW u \in Tasks \ {t}, Owner(u)', Owner(t)',
               records'[u].scope = records'[t].scope
        PROVE  records'[u].target # records'[t].target
    BY <2>1, <2>2, <2>3 DEF Claims
  <2> QED BY <2>1, <2>3 DEF HistoryInv, OneOwner
<1> QED BY <1>4, <1>5, <1>6, <1>7, <1>8 DEF HistoryInv

(* A new process finds every unfinished attempt ended: the lost ones are   *)
(* past, nothing is live, and what it loaded is what the rows now say.     *)
LEMMA RestartKeeps ==
    ASSUME Inv, HistoryInv, Restart
    PROVE  HistoryInv'
<1> DEFINE loaded == [t \in Tasks |-> Loaded(disk[t])]
<1>1. PICK V \in Victims(loaded) : records' = Drop(loaded, V) /\ disk' = Drop(loaded, V)
  BY DEF Restart
<1>2. ASSUME NEW u \in Tasks
      PROVE  /\ disk[u] \in Record /\ loaded[u] = Loaded(disk[u])
             /\ records'[u] = disk'[u]
             /\ records'[u] = loaded[u] \/ records'[u] = Absent
  BY <1>1 DEF Drop, Inv, TypeOK
<1> HIDE DEF loaded
<1>3. LostIsPast'
  <2> SUFFICES ASSUME NEW u \in Tasks, NEW a \in lost'[u], Exists(records'[u])
               PROVE  Past(records'[u], a)
    BY <1>2 DEF LostIsPast
  <2>1. /\ records'[u] = Loaded(disk[u])
        /\ Exists(disk[u]) /\ Loaded(disk[u]).attempt = disk[u].attempt
    BY <1>2, AbsentFields, LoadedFields
  <2>2. CASE a \in lost[u]
    <3>1. Past(disk[u], a)
      BY <2>1, <2>2 DEF HistoryInv, LostIsPast
    <3> QED BY <1>2, <2>1, <3>1, LoadedFields DEF Past
  <2>3. CASE \E w \in Workers : pc[w] = "executing" /\ job[w] = <<u, a>>
    <3>1. disk[u].status = "running" /\ disk[u].attempt = a
      BY <2>3 DEF Inv, WorkersInv, ExecOK
    <3> QED BY <1>2, <2>1, <3>1, LoadedFields DEF Past, TerminalStatuses
  <2> QED BY <2>2, <2>3 DEF Restart
<1>4. ClaimsAreOld' /\ ActiveRuns'
  <2> SUFFICES ASSUME NEW u \in Tasks
               PROVE  /\ records'[u].claimed <= records'[u].attempt
                      /\ Sound(records'[u])
    BY <1>2 DEF ClaimsAreOld, ActiveRuns
  <2>1. CASE records'[u] = Absent
    BY <2>1, AbsentFields DEF Absent, Sound
  <2>2. CASE records'[u] = Loaded(disk[u])
    BY <1>2, <2>2, LoadedFields DEF HistoryInv, ClaimsAreOld, Sound
  <2> QED BY <1>2, <2>1, <2>2
<1>5. MirrorIfStored'
  <2> SUFFICES ASSUME StoreHolds, NEW u \in Tasks PROVE disk'[u] = Stored(records'[u])
    BY DEF MirrorIfStored, DiskMirrorsMemory, StoreHolds
  <2>1. Stored(disk[u]) = disk[u]
    BY StoredFields DEF HistoryInv, MirrorIfStored, DiskMirrorsMemory, Inv, TypeOK
  <2>2. Stored(Loaded(disk[u])) = Loaded(disk[u])
    BY <1>2, <2>1, LoadedFields
  <2> QED BY <1>2, <2>2, AbsentFields
<1>6. \A u \in Tasks : ~Outstanding(records'[u])
  BY <1>2, LoadedFields, AbsentFields DEF Outstanding, Active
<1>7. PendingBound'
  <2>1. OutstandingTasks' \subseteq OutstandingTasks
    BY <1>6 DEF OutstandingTasks
  <2> QED BY <2>1, PendingFinite, FewerPending DEF HistoryInv, PendingBound
<1>8. OneOwner'
  BY <1>6 DEF OneOwner, Owner
<1> QED BY <1>3, <1>4, <1>5, <1>7, <1>8 DEF HistoryInv

LEMMA HistoryStep ==
    ASSUME Inv, HistoryInv, [Next]_vars
    PROVE  HistoryInv'
<1>1. CASE Restart
  BY <1>1, RestartKeeps
<1>2. CASE ~Restart
  BY <1>2, NextSummary, QuietKeeps, RenewsKeeps, ClaimsKeeps DEF Summary
<1> QED BY <1>1, <1>2

-----------------------------------------------------------------------------
(* HistoryInv holds in every reachable state.                              *)
THEOREM HistoryInvariance == Spec => []HistoryInv
<1>1. Inv /\ HistoryInv /\ [Next]_vars => HistoryInv'
  BY HistoryStep
<1> QED BY <1>1, HistoryInit, Invariance, PTL DEF Spec

(* An attempt whose thread died with the process is never executed again:  *)
(* _load_records fails it, and submit and retry count on from it, whatever *)
(* writes failed before the crash.                                         *)
THEOREM LostStaysLost == Spec => []NoReplay
<1>1. Inv /\ HistoryInv => NoReplay
  <2> SUFFICES ASSUME Inv, HistoryInv, NEW w \in Workers, pc[w] = "executing"
               PROVE  job[w][2] \notin lost[job[w][1]]
    BY DEF NoReplay
  <2> DEFINE t == job[w][1]
             a == job[w][2]
  <2>1. t \in Tasks /\ records[t].status = "running" /\ records[t].attempt = a
    BY OnlyItem DEF Inv, WorkersInv, ExecOK
  <2>2. a \in Nat
    BY OnlyItem
  <2> HIDE DEF t, a
  <2>3. Exists(records[t]) /\ ~Past(records[t], a)
    BY <2>1, <2>2 DEF Exists, Past, TerminalStatuses
  <2>4. a \notin lost[t]
    BY <2>1, <2>3 DEF HistoryInv, LostIsPast
  <2> QED BY <2>4 DEF t, a
<1> QED BY <1>1, Invariance, HistoryInvariance, PTL

(* Admission in submit and retry keeps the live work, slices that yielded  *)
(* included, under max_pending_tasks, for every cap.                       *)
THEOREM AdmissionHolds == Spec => []PendingBound
<1>1. HistoryInv => PendingBound
  BY DEF HistoryInv
<1> QED BY <1>1, HistoryInvariance, PTL

(* claim_target: at most one live attempt of a scope owns an Agent ledger, *)
(* although retry does not look at the other records.                      *)
THEOREM LedgerHasOneOwner == Spec => []OneOwner
<1>1. HistoryInv => OneOwner
  BY DEF HistoryInv
<1> QED BY <1>1, HistoryInvariance, PTL

(* Attempt a of record r was canceled, or a later one has been admitted.   *)
Over(r, a) ==
    \/ r.attempt > a
    \/ r.attempt = a /\ r.status = "canceled"

(* The record of an attempt that is owed a cleanup has not been forgotten. *)
OwedIsRemembered == \A f \in finalizers : Exists(records[f[1]])

(* A step that does not forget the record keeps an attempt canceled.       *)
LEMMA OverStays ==
    ASSUME Inv, HistoryInv, [Next]_vars, ~Restart, NEW t \in Tasks, NEW a \in Nat,
           Over(records[t], a)
    PROVE  /\ Exists(records'[t]) => Over(records'[t], a)
           /\ ~Forgetful => Over(records'[t], a)
<1>0. records[t] \in Record /\ records[t].attempt \in Nat
  BY DEF Inv, TypeOK, Record
<1>1. ASSUME NEW recs, Shaped(recs), Over(recs[t], a)
      PROVE  /\ Exists(records'[t]) => Over(records'[t], a)
             /\ ~Forgetful => Over(records'[t], a)
  BY <1>1, AbsentFields DEF Shaped
<1>2. CASE Quiet
  <2>1. PICK recs : Shaped(recs) /\ Continues(records[t], recs[t])
    BY <1>2 DEF Quiet
  <2>2. Over(recs[t], a)
    BY <2>1 DEF Continues, Over, TerminalStatuses
  <2> QED BY <1>1, <2>1, <2>2
<1>3. ASSUME NEW u \in Tasks, NEW r \in Record, Renews(u, r)
      PROVE  Over(With(u, r)[t], a)
  <2>1. CASE u # t
    BY <2>1, WithType DEF Inv
  <2>2. CASE u = t
    <3>1. With(u, r)[t] = r
      BY <2>2, WithType DEF Inv
    <3>2. r.attempt = records[t].attempt + 1
      BY <1>3, <2>2 DEF Renews
    <3> QED BY <1>0, <3>1, <3>2 DEF Over
  <2> QED BY <2>1, <2>2
<1>4. ASSUME NEW u \in Tasks, NEW r \in Record, Claims(u, r)
      PROVE  Over(With(u, r)[t], a)
  <2>1. CASE u # t
    BY <2>1, WithType DEF Inv
  <2>2. CASE u = t
    <3>1. With(u, r)[t] = r
      BY <2>2, WithType DEF Inv
    <3> QED BY <1>4, <2>2, <3>1 DEF Claims, Continues, Over, TerminalStatuses
  <2> QED BY <2>1, <2>2
<1> QED BY <1>1, <1>2, <1>3, <1>4, NextSummary DEF Summary, Renews, Claims

(* Only cancel adds a cleanup, of the attempt it stops.                    *)
LEMMA NewlyOwed ==
    ASSUME Inv, [Next]_vars, ~Restart, NEW f \in finalizers', f \notin finalizers
    PROVE  /\ Exists(records'[f[1]]) => Over(records'[f[1]], f[2])
           /\ ~Forgetful => Over(records'[f[1]], f[2])
<1>1. PICK t \in Tasks : Cancel(t) /\ Saved(With(t, Canceled(records[t])), t) /\ f \in Owed(t)
  <2>1. ASSUME NEW w \in Workers, Step(w) PROVE finalizers' = finalizers
    BY <2>1 DEF Step, Pick, Start, Finish, UpdateProgress, ClaimTarget
  <2>2. Shutdown \/ ShutdownNow \/ UNCHANGED vars => finalizers' = finalizers
    BY DEF Shutdown, ShutdownNow, vars
  <2>3. Call
    BY <2>1, <2>2 DEF Next
  <2>4. \E t \in Tasks : Cancel(t)
    BY <2>3 DEF Call, Submit, Dispatch, Retry, ClaimNotice, RecordNotice, RunFinalizer
  <2> QED BY <2>4 DEF Cancel
<1>2. /\ Stoppable(records[t]) /\ f = <<t, records[t].attempt>>
      /\ records[t] \in Record /\ records[t].attempt \in Nat
  BY <1>1 DEF Owed, Inv, TypeOK, Record
<1>3. /\ Exists(records[t]) /\ records[t].status \notin TerminalStatuses
      /\ Shaped(With(t, Canceled(records[t])))
  BY <1>1, <1>2, SaveShaped, CanceledContinues DEF Inv, Save, Cancel
<1>4. /\ Canceled(records[t]) \in Record
      /\ Canceled(records[t]).status = "canceled"
      /\ Canceled(records[t]).attempt = records[t].attempt
  <2>1. Canceled(records[t]).status = "canceled"
    BY <1>2 DEF Canceled, Record
  <2> QED BY <1>2, <1>3, <2>1, CanceledContinues DEF Continues
<1>5. With(t, Canceled(records[t]))[t] = Canceled(records[t])
  BY <1>4, WithType DEF Inv
<1>6. Over(Canceled(records[t]), records[t].attempt)
  BY <1>4 DEF Over
<1> QED BY <1>2, <1>3, <1>5, <1>6, AbsentFields DEF Shaped

LEMMA OwedStep ==
    ASSUME Inv, HistoryInv, FinalizerAfterStop, [Next]_vars
    PROVE  /\ OwedIsRemembered' => FinalizerAfterStop'
           /\ ~Forgetful => FinalizerAfterStop'
<1>1. CASE Restart
  BY <1>1 DEF Restart, FinalizerAfterStop
<1>2. ASSUME ~Restart, NEW f \in finalizers'
      PROVE  /\ Exists(records'[f[1]]) => Over(records'[f[1]], f[2])
             /\ ~Forgetful => Over(records'[f[1]], f[2])
  <2>1. CASE f \in finalizers
    <3>1. f[1] \in Tasks /\ f[2] \in Nat
      BY <2>1 DEF Inv, TypeOK, Items
    <3>2. Over(records[f[1]], f[2])
      BY <2>1 DEF FinalizerAfterStop, Over
    <3> QED BY <1>2, <3>1, <3>2, OverStays
  <2>2. CASE f \notin finalizers
    BY <1>2, <2>2, NewlyOwed
  <2> QED BY <2>1, <2>2
<1> QED BY <1>1, <1>2 DEF FinalizerAfterStop, Over, OwedIsRemembered

(* A cleanup runs only for an attempt that was canceled, or that a later   *)
(* one has followed, as long as no task is forgotten between its           *)
(* cancellation and its cleanup: a task that is submitted again under a    *)
(* forgotten id counts its attempts from one.                              *)
THEOREM CleanupFollowsStopWhileRemembered ==
    Spec /\ []OwedIsRemembered => []FinalizerAfterStop
<1>1. Init => FinalizerAfterStop
  BY DEF Init, FinalizerAfterStop
<1>2. /\ Inv /\ HistoryInv /\ FinalizerAfterStop /\ OwedIsRemembered' /\ [Next]_vars
      => FinalizerAfterStop'
  BY OwedStep
<1> QED BY <1>1, <1>2, Invariance, HistoryInvariance, PTL DEF Spec

(* As many tasks as the history keeps are never forgotten, so of them the  *)
(* cleanup follows the stop without a condition on the behaviour, and      *)
(* never runs beside the handler of its own attempt.  It may run beside    *)
(* that of another record which has taken over the same ledger: the        *)
(* theorem promises nothing there.                                         *)
THEOREM CleanupFollowsStop ==
    ASSUME Cardinality(Tasks) <= MaxPersisted
    PROVE  /\ Spec => []LedgerWriters
           /\ Spec => [](\A w \in Workers : pc[w] = "executing" => job[w] \notin finalizers)
<1>1. ~Forgetful
  BY FS_CardinalityType, CoordinatorAssumption DEF Forgetful
<1>2. Init => FinalizerAfterStop
  BY DEF Init, FinalizerAfterStop
<1>3. Inv /\ HistoryInv /\ FinalizerAfterStop /\ [Next]_vars => FinalizerAfterStop'
  BY <1>1, OwedStep
<1>4. ASSUME Inv, FinalizerAfterStop, NEW w \in Workers,
             pc[w] = "executing", job[w] \in finalizers
      PROVE  FALSE
  <2>1. /\ records[job[w][1]].status = "running" /\ records[job[w][1]].attempt = job[w][2]
        /\ job[w][2] \in Nat
    BY <1>4, OnlyItem DEF Inv, WorkersInv, ExecOK
  <2> QED BY <1>4, <2>1 DEF FinalizerAfterStop
<1>5. Inv /\ FinalizerAfterStop =>
          \A w \in Workers : pc[w] = "executing" => job[w] \notin finalizers
  BY <1>4
<1>6. Spec => []FinalizerAfterStop
  BY <1>2, <1>3, Invariance, HistoryInvariance, PTL DEF Spec
<1>7. Spec => [](\A w \in Workers : pc[w] = "executing" => job[w] \notin finalizers)
  BY <1>5, <1>6, Invariance, PTL
<1>8. OneOwner /\ FinalizerAfterStop => LedgerWriters
  BY DEF LedgerWriters
<1>9. Spec => []LedgerWriters
  BY <1>6, <1>8, LedgerHasOneOwner, PTL
<1> QED BY <1>7, <1>9

(* _persist_record after every change: where no write fails, the rows are  *)
(* the table whenever the lock is free, pruning included.                  *)
THEOREM DiskIsTheTable == Spec => [](StoreHolds => DiskMirrorsMemory)
<1>1. HistoryInv => (StoreHolds => DiskMirrorsMemory)
  BY DEF HistoryInv, MirrorIfStored
<1> QED BY <1>1, HistoryInvariance, PTL

(* Where no write fails, a finished attempt stays as it ended, through     *)
(* late workers, retries of other tasks, pruning and crashes.              *)
THEOREM FinishedStays ==
    ASSUME StoreHolds
    PROVE  Spec => FinishedIsFinal
<1> DEFINE Final == \A t \in Tasks :
              /\ records[t].status \in TerminalStatuses
              /\ Exists(records'[t])
              /\ records'[t].attempt = records[t].attempt
              => records'[t].status = records[t].status
<1>1. ASSUME Inv, HistoryInv, [Next]_vars PROVE Final
  <2> SUFFICES ASSUME NEW t \in Tasks,
                      records[t].status \in TerminalStatuses,
                      Exists(records'[t]),
                      records'[t].attempt = records[t].attempt
               PROVE  records'[t].status = records[t].status
    OBVIOUS
  <2>1. CASE Restart
    <3>1. records'[t] = Loaded(disk[t])
      BY <2>1, AbsentFields DEF Restart, Drop
    <3>2. disk[t] \in Record /\ disk[t].status = records[t].status
      BY <1>1, StoredFields DEF HistoryInv, MirrorIfStored, DiskMirrorsMemory, Inv, TypeOK
    <3> QED BY <3>1, <3>2, LoadedFields
  <2>2. CASE Quiet
    BY <2>2, AbsentFields DEF Quiet, Shaped, Continues
  <2>3. ASSUME NEW u \in Tasks, NEW r \in Record, Renews(u, r)
        PROVE  records'[t].status = records[t].status
    <3>1. Shaped(With(u, r)) /\ r.attempt = records[u].attempt + 1
      BY <2>3 DEF Renews
    <3>2. records'[t] = With(u, r)[t]
      BY <3>1, AbsentFields DEF Shaped
    <3>3. t # u
      <4>1. records[u].attempt \in Nat
        BY <1>1 DEF Inv, TypeOK, Record
      <4> QED BY <1>1, <3>1, <3>2, <4>1, WithType DEF Inv
    <3> QED BY <1>1, <3>2, <3>3, WithType DEF Inv
  <2>4. ASSUME NEW u \in Tasks, NEW r \in Record, Claims(u, r)
        PROVE  records'[t].status = records[t].status
    <3>1. Shaped(With(u, r)) /\ Continues(records[u], r)
      BY <2>4 DEF Claims
    <3>2. records'[t] = With(u, r)[t]
      BY <3>1, AbsentFields DEF Shaped
    <3>3. CASE t = u
      BY <1>1, <3>1, <3>2, <3>3, WithType DEF Inv, Continues
    <3>4. CASE t # u
      BY <1>1, <3>2, <3>4, WithType DEF Inv
    <3> QED BY <3>3, <3>4
  <2> QED BY <1>1, <2>1, <2>2, <2>3, <2>4, NextSummary DEF Summary
<1>2. Inv /\ HistoryInv /\ [Next]_vars => [Final]_vars
  BY <1>1
<1> QED BY <1>2, Invariance, HistoryInvariance, PTL DEF Spec, FinishedIsFinal

-----------------------------------------------------------------------------
(* The coordinator implements TaskLifecycle.                               *)

Exec(t) == \E w \in Workers : Executing(w, t)

SameExec(t) == Exec(t)' <=> Exec(t)

(* What TaskLifecycle sees of a task, before and after a step.             *)
Seen(t, p, a) == Phase(t)' = p /\ records'[t].attempt = a

LEMMA ExecFacts ==
    ASSUME Inv, NEW t \in Tasks, Exec(t)
    PROVE  Exists(records[t]) /\ Outstanding(records[t]) /\ records[t].status = "running"
BY DEF Exec, Executing, Inv, WorkersInv, ExecOK, Exists, Outstanding, Active

LEMMA PhaseIs ==
    ASSUME NEW t \in Tasks
    PROVE  /\ ~Exists(records[t]) => Phase(t) = "absent"
           /\ Exists(records[t]) /\ Exec(t) => Phase(t) = "working"
           /\ Exists(records[t]) /\ ~Exec(t) /\ Outstanding(records[t])
                => Phase(t) = "admitted"
           /\ Exists(records[t]) /\ ~Exec(t) /\ ~Outstanding(records[t])
                => Phase(t) = "settled"
           /\ Phase(t) \in {"absent", "admitted", "working", "settled"}
BY DEF Phase, Exec

(* The steps of TaskLifecycle in terms of Seen.                            *)
LEMMA Mapped ==
    ASSUME NEW t \in Tasks
    PROVE  /\ Seen(t, Phase(t), records[t].attempt) => Lifecycle!Rest(t)
           /\ Phase(t) = "settled" /\ Seen(t, "absent", 0) => Lifecycle!Rest(t)
           /\ Phase(t) \in {"admitted", "working"} =>
                 /\ Seen(t, "settled", records[t].attempt) => Lifecycle!Settle(t)
                 /\ Seen(t, "absent", 0) => Lifecycle!Settle(t)
           /\ Phase(t) = "working" /\ Seen(t, "admitted", records[t].attempt)
                 => Lifecycle!Yield(t)
           /\ Phase(t) = "admitted" /\ Seen(t, "working", records[t].attempt)
                 => Lifecycle!Begin(t)
           /\ Phase(t) \in {"absent", "settled"} =>
                 /\ Seen(t, "admitted", records[t].attempt + 1) => Lifecycle!Admit(t)
                 /\ Seen(t, "settled", records[t].attempt + 1) => Lifecycle!Refuse(t)
                 /\ Seen(t, "absent", 0) => Lifecycle!Refuse(t)
<1>1. Seen(t, Phase(t), records[t].attempt) => Lifecycle!Rest(t)
  BY DEF Seen, Lifecycle!Become, Lifecycle!Keep, Lifecycle!Rest
<1>2. Seen(t, "absent", 0) => Lifecycle!Forget(t)
  BY DEF Seen, Lifecycle!Become, Lifecycle!Forget
<1>3. Phase(t) = "settled" /\ Seen(t, "absent", 0) => Lifecycle!Rest(t)
  BY <1>2 DEF Lifecycle!Rest
<1>4. Phase(t) \in {"admitted", "working"} =>
         /\ Seen(t, "settled", records[t].attempt) => Lifecycle!Settle(t)
         /\ Seen(t, "absent", 0) => Lifecycle!Settle(t)
  BY <1>2 DEF Seen, Lifecycle!Become, Lifecycle!Settle
<1>5. Phase(t) = "working" /\ Seen(t, "admitted", records[t].attempt)
         => Lifecycle!Yield(t)
  BY DEF Seen, Lifecycle!Become, Lifecycle!Yield
<1>6. Phase(t) = "admitted" /\ Seen(t, "working", records[t].attempt)
         => Lifecycle!Begin(t)
  BY DEF Seen, Lifecycle!Become, Lifecycle!Begin
<1>7. Phase(t) \in {"absent", "settled"} =>
         /\ Seen(t, "admitted", records[t].attempt + 1) => Lifecycle!Admit(t)
         /\ Seen(t, "settled", records[t].attempt + 1) => Lifecycle!Refuse(t)
         /\ Seen(t, "absent", 0) => Lifecycle!Refuse(t)
  BY <1>2 DEF Seen, Lifecycle!Become, Lifecycle!Admit, Lifecycle!Refuse
<1> QED BY <1>1, <1>3, <1>4, <1>5, <1>6, <1>7

(* A task that is not the step's is at rest.                               *)
LEMMA OtherRests ==
    ASSUME Inv, NEW recs, Shaped(recs), NEW u \in Tasks,
           recs[u] = records[u], SameExec(u)
    PROVE  Lifecycle!Rest(u)
<1>1. CASE records'[u] = records[u]
  <2>1. Phase(u)' = Phase(u)
    BY <1>1 DEF Phase, SameExec, Exec
  <2> QED BY <1>1, <2>1, Mapped DEF Seen
<1>2. CASE records'[u] = Absent /\ Finished(records[u])
  <2>1. Exists(records[u]) /\ ~Outstanding(records[u])
    BY <1>2 DEF Finished, Exists, Outstanding, TerminalStatuses
  <2>2. Phase(u) = "settled"
    BY <2>1, ExecFacts, PhaseIs
  <2>3. Phase(u)' = "absent" /\ records'[u].attempt = 0
    BY <1>2, AbsentFields DEF Phase
  <2> QED BY <2>2, <2>3, Mapped DEF Seen
<1> QED BY <1>1, <1>2 DEF Shaped

(* The attempt of a task goes on where it was, or is over.                 *)
LEMMA ContinuingTask ==
    ASSUME Inv, Inv', NEW recs, Shaped(recs), NEW u \in Tasks,
           Continues(records[u], recs[u]), SameExec(u)
    PROVE  Lifecycle!Rest(u) \/ Lifecycle!Settle(u)
<1> DEFINE r == records[u]
           s == recs[u]
<1>1. /\ s.attempt = r.attempt /\ (Exists(s) <=> Exists(r))
      /\ Outstanding(s) => Outstanding(r)
  BY DEF Continues
<1>2. records'[u] = s \/ (records'[u] = Absent /\ Finished(s))
  BY DEF Shaped
<1>3. Exec(u)' => Exists(records'[u])
  BY DEF Exec, Executing, Inv, WorkersInv, ExecOK, Exists
<1>4. Finished(s) => Exists(s)
  BY DEF Finished, Exists, TerminalStatuses
<1>5. CASE ~Exists(r)
  <2>1. records'[u] = s /\ ~Exists(s)
    BY <1>1, <1>2, <1>4, <1>5
  <2>2. Phase(u) = "absent" /\ Phase(u)' = "absent"
    BY <1>5, <2>1 DEF Phase
  <2> QED BY <1>1, <2>1, <2>2, Mapped DEF Seen
<1>6. CASE Exists(r) /\ Exec(u)
  <2>1. Exec(u)' /\ records'[u] = s
    BY <1>2, <1>3, <1>6, AbsentFields DEF SameExec
  <2>2. Phase(u) = "working" /\ Phase(u)' = "working"
    BY <1>1, <1>6, <2>1 DEF Phase, Exec
  <2> QED BY <1>1, <2>1, <2>2, Mapped DEF Seen
<1>7. CASE Exists(r) /\ ~Exec(u)
  <2>1. ~Exec(u)'
    BY <1>7 DEF SameExec
  <2>2. CASE records'[u] = Absent
    <3>1. Phase(u) \in {"admitted", "settled"}
      BY <1>7, PhaseIs
    <3>2. Phase(u)' = "absent" /\ records'[u].attempt = 0
      BY <2>2, AbsentFields DEF Phase
    <3> QED BY <3>1, <3>2, Mapped DEF Seen
  <2>3. CASE records'[u] = s /\ Outstanding(s)
    <3>1. Phase(u) = "admitted"
      BY <1>1, <1>7, <2>3, PhaseIs
    <3>2. Phase(u)' = "admitted"
      BY <1>1, <1>7, <2>1, <2>3 DEF Phase, Exec
    <3> QED BY <1>1, <2>3, <3>1, <3>2, Mapped DEF Seen
  <2>4. CASE records'[u] = s /\ ~Outstanding(s)
    <3>1. Phase(u) \in {"admitted", "settled"}
      BY <1>7, PhaseIs
    <3>2. Phase(u)' = "settled"
      BY <1>1, <1>7, <2>1, <2>4 DEF Phase, Exec
    <3> QED BY <1>1, <2>4, <3>1, <3>2, Mapped DEF Seen
  <2> QED BY <1>2, <2>2, <2>3, <2>4
<1> QED BY <1>5, <1>6, <1>7

(* The phases after a step are phases.                                     *)
LEMMA LifecycleTypes ==
    ASSUME Inv'
    PROVE  /\ [t \in Tasks |-> Phase(t)]' \in
                  [Tasks -> {"absent", "admitted", "working", "settled"}]
           /\ [t \in Tasks |-> records[t].attempt]' \in [Tasks -> Nat]
<1>1. \A t \in Tasks : Phase(t)' \in {"absent", "admitted", "working", "settled"}
  BY DEF Phase
<1>2. \A t \in Tasks : records'[t].attempt \in Nat
  BY DEF Inv, TypeOK, Record
<1> QED BY <1>1, <1>2

LEMMA AllRest ==
    ASSUME Inv', \A t \in Tasks : Lifecycle!Rest(t) \/ Lifecycle!Settle(t)
    PROVE  Lifecycle!Next
BY LifecycleTypes DEF Lifecycle!Next

LEMMA OneMoves ==
    ASSUME Inv', NEW t \in Tasks,
           \/ Lifecycle!Admit(t) \/ Lifecycle!Refuse(t)
           \/ Lifecycle!Begin(t) \/ Lifecycle!Yield(t),
           \A u \in Tasks \ {t} : Lifecycle!Rest(u)
    PROVE  Lifecycle!Next
BY LifecycleTypes DEF Lifecycle!Next

(* A step that neither starts nor ends an execution.                       *)
LEMMA SameExecStep ==
    ASSUME Inv, Inv', Summary, \A u \in Tasks : SameExec(u)
    PROVE  Lifecycle!Next
<1>1. CASE Quiet
  BY <1>1, ContinuingTask, AllRest DEF Quiet
<1>2. ASSUME NEW t \in Tasks, NEW r \in Record, Claims(t, r)
      PROVE  Lifecycle!Next
  <2> DEFINE recs == With(t, r)
  <2>1. Shaped(recs) /\ recs[t] = r /\ \A u \in Tasks \ {t} : recs[u] = records[u]
    BY <1>2, WithType DEF Claims, Inv
  <2> HIDE DEF recs
  <2>2. \A u \in Tasks : Continues(records[u], recs[u])
    BY <1>2, <2>1, ContinuesSelf DEF Claims
  <2> QED BY <2>1, <2>2, ContinuingTask, AllRest
<1>3. ASSUME NEW t \in Tasks, NEW r \in Record, Renews(t, r)
      PROVE  Lifecycle!Next
  <2> DEFINE recs == With(t, r)
  <2>1. Shaped(recs) /\ recs[t] = r /\ \A u \in Tasks \ {t} : recs[u] = records[u]
    BY <1>3, WithType DEF Renews, Inv
  <2> HIDE DEF recs
  <2>2. \A u \in Tasks \ {t} : Lifecycle!Rest(u)
    BY <2>1, OtherRests
  <2>3. ~Exec(t) /\ ~Exec(t)'
    BY <1>3, ExecFacts DEF SameExec, Renews
  <2>4. Phase(t) \in {"absent", "settled"}
    BY <1>3, <2>3, PhaseIs DEF Renews
  <2>5. r.attempt = records[t].attempt + 1
    BY <1>3 DEF Renews
  <2>6. CASE records'[t] = Absent
    <3>1. Phase(t)' = "absent" /\ records'[t].attempt = 0
      BY <2>6, AbsentFields DEF Phase
    <3> QED BY <2>2, <2>4, <3>1, Mapped, OneMoves DEF Seen
  <2>7. CASE records'[t] = r /\ Outstanding(r)
    <3>1. Exists(r)
      BY <1>3 DEF Renews
    <3>2. Phase(t)' = "admitted"
      BY <2>3, <2>7, <3>1 DEF Phase, Exec
    <3> QED BY <2>2, <2>4, <2>5, <2>7, <3>2, Mapped, OneMoves DEF Seen
  <2>8. CASE records'[t] = r /\ ~Outstanding(r) /\ Exists(r)
    <3>1. Phase(t)' = "settled"
      BY <2>3, <2>8 DEF Phase, Exec
    <3> QED BY <2>2, <2>4, <2>5, <2>8, <3>1, Mapped, OneMoves DEF Seen
  <2> QED BY <1>3, <2>1, <2>6, <2>7, <2>8 DEF Shaped, Renews
<1> QED BY <1>1, <1>2, <1>3 DEF Summary

(* Which executions a step starts or ends.                                 *)
LEMMA ExecUnchanged ==
    ASSUME UNCHANGED <<pc, job>>
    PROVE  \A u \in Tasks : SameExec(u)
BY DEF SameExec, Exec, Executing

LEMMA CallExec ==
    ASSUME Call \/ Shutdown \/ ShutdownNow
    PROVE  \A u \in Tasks : SameExec(u)
<1>1. UNCHANGED <<pc, job>>
  BY DEF Call, Submit, Dispatch, Cancel, Retry, ClaimNotice, RecordNotice, RunFinalizer,
         Shutdown, ShutdownNow
<1> QED BY <1>1, ExecUnchanged

LEMMA PickExec ==
    ASSUME Inv, NEW w \in Workers, Pick(w)
    PROVE  \A u \in Tasks : SameExec(u)
<1>1. pc[w] = "idle" /\ pc' = [pc EXCEPT ![w] = "picked"]
      /\ job' = [job EXCEPT ![w] = Head(queue)]
  BY DEF Pick
<1>2. pc'[w] = "picked" /\ \A v \in Workers \ {w} : pc'[v] = pc[v] /\ job'[v] = job[v]
  BY <1>1 DEF Inv, TypeOK
<1> QED BY <1>1, <1>2 DEF SameExec, Exec, Executing

LEMMA StartMoves ==
    ASSUME Inv, Inv', NEW w \in Workers, Start(w)
    PROVE  Lifecycle!Next
<1>0. PICK t \in Tasks : t = job[w][1]
  BY OnlyItem DEF Start
<1>1. pc[w] = "picked" /\ t = job[w][1]
  BY <1>0 DEF Start
<1>2. PICK r \in Record : /\ Shaped(With(t, r))
                          /\ Continues(records[t], r) /\ SameClaim(records[t], r)
  BY <1>1, StartSummary DEF QuietOn
<1>3. \A v \in Workers \ {w} : pc'[v] = pc[v] /\ job'[v] = job[v]
  BY DEF Start, Idle, Inv, TypeOK
<1>4. /\ With(t, r)[t] = r /\ \A u \in Tasks \ {t} : With(t, r)[u] = records[u]
  BY <1>1, <1>2, WithType DEF Inv
<1>5. records[t].status = "queued"
  BY <1>1 DEF Inv, WorkersInv, PickedOK
<1>6. ~Exec(t)
  BY <1>5, ExecFacts
<1>7. CASE pc'[w] = "idle"
  <2>1. \A u \in Tasks : SameExec(u)
    BY <1>1, <1>3, <1>7 DEF SameExec, Exec, Executing
  <2>2. Summary
    BY StartSummary
  <2> QED BY <2>1, <2>2, SameExecStep
<1>8. CASE pc'[w] # "idle"
  <2>1. pc'[w] = "executing" /\ job'[w] = job[w]
    BY <1>8 DEF Start, Idle, Inv, TypeOK
  <2>2. \A u \in Tasks \ {t} : SameExec(u)
    BY <1>1, <1>3, <2>1 DEF SameExec, Exec, Executing
  <2>3. \A u \in Tasks \ {t} : Lifecycle!Rest(u)
    BY <1>2, <1>4, <2>2, OtherRests
  <2>4. Exec(t)' /\ records'[t].status = "running"
    BY <1>1, <2>1 DEF Exec, Executing, Inv, WorkersInv, ExecOK
  <2>5. records'[t].attempt = records[t].attempt
    BY <1>1, <1>2, <1>4, <2>4, AbsentFields DEF Shaped, Continues, Absent
  <2>6. Phase(t) = "admitted"
    BY <1>1, <1>5, <1>6, PhaseIs DEF Exists, Outstanding
  <2>7. Phase(t)' = "working"
    BY <2>4 DEF Phase, Exec, Exists
  <2>8. Lifecycle!Begin(t)
    BY <1>1, <2>5, <2>6, <2>7, Mapped DEF Seen
  <2> QED BY <1>1, <2>3, <2>8, OneMoves
<1> QED BY <1>7, <1>8

LEMMA FinishMoves ==
    ASSUME Inv, Inv', NEW w \in Workers, Finish(w)
    PROVE  Lifecycle!Next
<1>0. PICK t \in Tasks : t = job[w][1]
  BY OnlyItem DEF Finish
<1>1. pc[w] = "executing" /\ t = job[w][1] /\ Exec(t)
  BY <1>0 DEF Finish, Exec, Executing
<1>2. PICK r \in Record : /\ Shaped(With(t, r))
                          /\ Continues(records[t], r) /\ SameClaim(records[t], r)
  BY <1>1, FinishSummary DEF QuietOn
<1>3. pc'[w] = "idle" /\ \A v \in Workers \ {w} : pc'[v] = pc[v] /\ job'[v] = job[v]
  BY DEF Finish, Idle, Inv, TypeOK
<1>4. /\ With(t, r)[t] = r /\ \A u \in Tasks \ {t} : With(t, r)[u] = records[u]
  BY <1>1, <1>2, WithType DEF Inv
<1>5. ~Exec(t)'
  BY <1>1, <1>3, OnlyItem DEF Exec, Executing
<1>6. \A u \in Tasks \ {t} : SameExec(u)
  BY <1>1, <1>3 DEF SameExec, Exec, Executing
<1>7. \A u \in Tasks \ {t} : Lifecycle!Rest(u)
  BY <1>2, <1>4, <1>6, OtherRests
<1>8. Phase(t) = "working" /\ Exists(records[t]) /\ Exists(r)
      /\ r.attempt = records[t].attempt
  BY <1>1, <1>2, ExecFacts, PhaseIs DEF Continues
<1>9. records'[t] = r \/ (records'[t] = Absent /\ Finished(r))
  BY <1>1, <1>2, <1>4 DEF Shaped
<1>10. CASE records'[t] = Absent
  <2>1. Phase(t)' = "absent" /\ records'[t].attempt = 0
    BY <1>10, AbsentFields DEF Phase
  <2>2. Lifecycle!Settle(t)
    BY <1>1, <1>8, <2>1, Mapped DEF Seen
  <2> QED BY <1>7, <2>2, AllRest
<1>11. CASE records'[t] = r /\ Outstanding(r)
  <2>1. Phase(t)' = "admitted"
    BY <1>5, <1>8, <1>11 DEF Phase, Exec
  <2>2. Lifecycle!Yield(t)
    BY <1>1, <1>8, <1>11, <2>1, Mapped DEF Seen
  <2> QED BY <1>1, <1>7, <2>2, OneMoves
<1>12. CASE records'[t] = r /\ ~Outstanding(r)
  <2>1. Phase(t)' = "settled"
    BY <1>5, <1>8, <1>12 DEF Phase, Exec
  <2>2. Lifecycle!Settle(t)
    BY <1>1, <1>8, <1>12, <2>1, Mapped DEF Seen
  <2> QED BY <1>7, <2>2, AllRest
<1> QED BY <1>9, <1>10, <1>11, <1>12

(* The new process forgets or settles whatever was live.                   *)
LEMMA RestartMoves ==
    ASSUME Inv, Inv', HistoryInv, StoreHolds, Restart
    PROVE  Lifecycle!Next
<1> SUFFICES ASSUME NEW u \in Tasks PROVE Lifecycle!Rest(u) \/ Lifecycle!Settle(u)
  BY AllRest
<1> DEFINE s == Loaded(disk[u])
<1>1. /\ disk[u] \in Record /\ disk[u].attempt = records[u].attempt
      /\ disk[u].status = records[u].status
  BY StoredFields DEF HistoryInv, MirrorIfStored, DiskMirrorsMemory, Inv, TypeOK
<1>2. s.attempt = records[u].attempt /\ ~Outstanding(s) /\ (Exists(s) => Exists(records[u]))
  BY <1>1, LoadedFields DEF Outstanding, Active, Exists
<1>3. Exists(records[u]) => Exists(s)
  <2>1. Loaded(disk[u]).status \in {"failed", disk[u].status}
    BY <1>1 DEF Loaded, Record
  <2> QED BY <1>1, <2>1 DEF Exists
<1>4. records'[u] = s \/ (records'[u] = Absent /\ Finished(s))
  BY DEF Restart, Drop, Victims
<1>5. ~Exec(u)'
  BY DEF Restart, Exec, Executing
<1> HIDE DEF s
<1>6. CASE ~Exists(records[u])
  <2>1. records'[u] = s /\ ~Exists(s)
    BY <1>2, <1>4, <1>6 DEF Finished, Exists, TerminalStatuses
  <2>2. Phase(u) = "absent" /\ Phase(u)' = "absent"
    BY <1>6, <2>1 DEF Phase
  <2> QED BY <1>2, <2>1, <2>2, Mapped DEF Seen
<1>7. CASE Exists(records[u]) /\ records'[u] = s
  <2>1. Phase(u)' = "settled"
    BY <1>2, <1>3, <1>5, <1>7 DEF Phase, Exec
  <2>2. Phase(u) \in {"admitted", "working", "settled"}
    BY <1>7 DEF Phase
  <2> QED BY <1>2, <1>7, <2>1, <2>2, Mapped DEF Seen
<1>8. CASE Exists(records[u]) /\ records'[u] = Absent
  <2>1. Phase(u)' = "absent" /\ records'[u].attempt = 0
    BY <1>8, AbsentFields DEF Phase
  <2>2. Phase(u) \in {"admitted", "working", "settled"}
    BY <1>8 DEF Phase
  <2> QED BY <2>1, <2>2, Mapped DEF Seen
<1> QED BY <1>4, <1>6, <1>7, <1>8

LEMMA StepMoves ==
    ASSUME Inv, Inv', HistoryInv, StoreHolds, [Next]_vars
    PROVE  Lifecycle!Next
<1>1. CASE UNCHANGED vars
  BY <1>1, StillSummary, ExecUnchanged, SameExecStep DEF vars
<1>2. CASE Call \/ Shutdown \/ ShutdownNow
  <2>1. CASE Restart
    BY <2>1, RestartMoves
  <2>2. CASE ~Restart
    BY <1>2, <2>2, NextSummary, CallExec, SameExecStep
  <2> QED BY <2>1, <2>2
<1>3. ASSUME NEW w \in Workers, Step(w) PROVE Lifecycle!Next
  <2>1. CASE Pick(w)
    BY <2>1, PickSummary, PickExec, SameExecStep
  <2>2. CASE UpdateProgress(w)
    BY <2>2, UpdateProgressSummary, ExecUnchanged, SameExecStep DEF UpdateProgress
  <2>3. ASSUME NEW q \in Requests, ClaimTarget(w, q) PROVE Lifecycle!Next
    BY <2>3, ClaimTargetSummary, ExecUnchanged, SameExecStep DEF ClaimTarget
  <2> QED BY <1>3, <2>1, <2>2, <2>3, StartMoves, FinishMoves DEF Step
<1> QED BY <1>1, <1>2, <1>3, RestartMoves DEF Next

(* Where no write fails, the coordinator, its threads, its disk and its    *)
(* crashes keep the promise of TaskLifecycle, for any number of tasks,     *)
(* threads and attempts, refusals of the pool included.                    *)
THEOREM ImplementsLifecycle ==
    ASSUME StoreHolds
    PROVE  Spec => KeepsLifecycle
<1>1. Init => Lifecycle!Init
  <2> SUFFICES ASSUME Init PROVE Lifecycle!Init
    OBVIOUS
  <2>1. \A t \in Tasks : Phase(t) = "absent" /\ records[t].attempt = 0
    BY AbsentFields DEF Init, Phase
  <2> QED BY <2>1 DEF Lifecycle!Init
<1>2. Inv /\ Inv' /\ HistoryInv /\ [Next]_vars => [Lifecycle!Next]_(Lifecycle!vars)
  BY StepMoves
<1> QED BY <1>1, <1>2, Invariance, HistoryInvariance, PTL
        DEF Spec, KeepsLifecycle, Lifecycle!Spec
=============================================================================
