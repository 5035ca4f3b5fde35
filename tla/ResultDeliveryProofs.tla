------------------------ MODULE ResultDeliveryProofs ------------------------
(***************************************************************************)
(* Theorems about ResultDelivery, for any consumers, revisions and bounds: *)
(* its type correctness, that no result is sent or worded twice, that the  *)
(* account kept of it is true and never taken back, and that it implements *)
(* AtMostOncePublication.                                                  *)
(*                                                                         *)
(* Typed strengthens TypeOK by what a consumer carries to the steps that   *)
(* write it into a status.  Published says who may still put a result on   *)
(* the wire: the one consumer between archive.reserve_delivery and the     *)
(* receipt, while the archived delivery is "sending" (or "uncertain", once *)
(* a recovery has given up on it).  Accounted says what a consumer about   *)
(* to settle has read: the receipt in the archive, which nothing replaces. *)
(***************************************************************************)
EXTENDS ResultDelivery, TLAPS

Notes == Receipts \cup WordingStatuses \cup {"stale", "sending"}

Texts == {"ready", "fallback", "discarded", "retryable"}

Carries(t) == /\ t \in Threads
              /\ t.at # "idle" => t.event \in Revisions
              /\ t.at = "store" => t.note \in Texts
              /\ t.at = "drop" => t.note \in {"stale", "suppressed"}

Typed == /\ TypeOK
         /\ \A c \in Consumers : Carries(threads[c])

(* c has reserved the publication of r and has not reported back.          *)
Publishing == {"reserved", "send", "receipt", "withhold"}

Holder(c, r) == threads[c].at \in Publishing /\ threads[c].event = r

(* What the receipt in hand says agrees with the n messages on the wire.   *)
Honest(note, n) == /\ note \in Receipts
                   /\ note = "sent" => n = 1
                   /\ note \in {"suppressed", "dry_run"} => n = 0

HolderOK(c, r) ==
    Holder(c, r) =>
        /\ wordings[r].delivery \in {"sending", "uncertain"}
        /\ IF threads[c].at = "receipt" THEN Honest(threads[c].note, sent[r])
                                        ELSE sent[r] = 0

ResultOK(r) == /\ sent[r] \in {0, 1}
               /\ wordings[r].delivery = "not_sent" => sent[r] = 0

Published ==
    /\ \A r \in Revisions : ResultOK(r)
    /\ \A c \in Consumers, r \in Revisions : HolderOK(c, r)
    /\ \A c, d \in Consumers, r \in Revisions :
          Holder(c, r) /\ Holder(d, r) => c = d

(* The model is called only when there is no record, and there is one then.*)
Worded == \A r \in Revisions : /\ calls[r] \in {0, 1}
                               /\ wordings[r].status = "none" => calls[r] = 0

IInv == Typed /\ Published /\ Worded

-----------------------------------------------------------------------------
(* What the transactions of the outbox return *)

LEMMA SweptTypes ==
  ASSUME NEW rows \in [Revisions -> Events]
  PROVE  Swept(rows) \in [Revisions -> Events]
BY DEF Swept, Events, EventStatuses, Unresolved

LEMMA RowType ==
  ASSUME Typed, NEW c \in Consumers, threads[c].at # "idle"
  PROVE  Row(c) \in Events /\ threads[c].event \in Revisions
BY SweptTypes DEF Typed, TypeOK, Carries, Row

LEMMA SweepTypes ==
  ASSUME Typed, Sweep
  PROVE  events' \in [Revisions -> Events]
BY SweptTypes DEF Sweep, Typed, TypeOK

LEMMA ChangeTypes ==
  ASSUME Typed, NEW c \in Consumers, NEW row \in Events, ChangeClaim(c, row)
  PROVE  events' \in [Revisions -> Events]
BY SweptTypes DEF ChangeClaim, Typed, TypeOK

LEMMA OutcomeTypes ==
  ASSUME NEW note
  PROVE  /\ Outcome(note) \in EventStatuses
         /\ Known(note) \in DeliveryStatuses
BY DEF Outcome, Known, EventStatuses, Settled, Unresolved, Receipts, DeliveryStatuses

LEMMA FinishedTypes ==
  ASSUME NEW row \in Events, NEW status \in EventStatuses,
         NEW delivery \in DeliveryStatuses
  PROVE  FinishedRow(row, status, delivery) \in Events
BY DEF FinishedRow, Events

LEMMA RetriedTypes ==
  ASSUME NEW row \in Events
  PROVE  RetriedRow(row) \in Events
BY DEF RetriedRow, Events, EventStatuses, Unresolved

-----------------------------------------------------------------------------
(* What a consumer takes to its next step *)

LEMMA GotoTypes ==
  ASSUME Typed, NEW c \in Consumers, threads[c].at # "idle",
         NEW step \in Steps, NEW note \in Notes, Goto(c, step, note),
         step = "store" => note \in Texts,
         step = "drop" => note \in {"stale", "suppressed"}
  PROVE  /\ threads' \in [Consumers -> Threads]
         /\ \A d \in Consumers : Carries(threads'[d])
<1> DEFINE t == [threads[c] EXCEPT !.at = step, !.note = note]
<1>1. threads \in [Consumers -> Threads] /\ threads[c].event \in Revisions
  BY DEF Typed, TypeOK, Carries
<1>2. t \in Threads /\ t.at = step /\ t.note = note /\ t.event = threads[c].event
  BY <1>1 DEF Threads, Notes
<1>3. threads' = [threads EXCEPT ![c] = t]
  BY <1>1 DEF Goto, Threads
<1>4. Carries(t)
  BY <1>1, <1>2 DEF Carries
<1> HIDE DEF t
<1> QED BY <1>1, <1>2, <1>3, <1>4 DEF Typed

LEMMA LeaveTypes ==
  ASSUME Typed, NEW c \in Consumers, Leave(c)
  PROVE  /\ threads' \in [Consumers -> Threads]
         /\ \A d \in Consumers : Carries(threads'[d])
<1>1. Idle \in Threads /\ Carries(Idle)
  BY DeliveryAssumption DEF Idle, Threads, Steps, WordingStatuses, Carries
<1> QED BY <1>1 DEF Leave, Typed, TypeOK

LEMMA FollowTypes ==
  ASSUME Typed, NEW c \in Consumers, threads[c].at # "idle",
         NEW w \in Wordings, Follow(c, w)
  PROVE  /\ threads' \in [Consumers -> Threads]
         /\ \A d \in Consumers : Carries(threads'[d])
<1>1. CASE Goto(c, "retry", "none")
  BY <1>1, GotoTypes DEF Steps, Notes, WordingStatuses
<1>2. CASE Goto(c, "drop", "suppressed")
  BY <1>2, GotoTypes DEF Steps, Notes, Receipts
<1>3. CASE Goto(c, "publish", "none")
  BY <1>3, GotoTypes DEF Steps, Notes, WordingStatuses
<1>4. CASE w.delivery # "not_sent" /\ Goto(c, "settle", w.delivery)
  <2>1. w.delivery \in Notes
    BY <1>4 DEF Wordings, DeliveryStatuses, Notes
  <2> QED BY <1>4, <2>1, GotoTypes DEF Steps
<1> QED BY <1>1, <1>2, <1>3, <1>4 DEF Follow

-----------------------------------------------------------------------------
(* Every action keeps Typed *)

LEMMA InitTyped == Init => Typed
<1> SUFFICES ASSUME Init PROVE Typed
  OBVIOUS
<1>1. NoEvent \in Events
  BY DeliveryAssumption DEF NoEvent, Events, EventStatuses, DeliveryStatuses
<1>2. NoWording \in Wordings
  BY DEF NoWording, Wordings, WordingStatuses, DeliveryStatuses
<1>3. Idle \in Threads /\ Carries(Idle)
  BY DeliveryAssumption DEF Idle, Threads, Steps, WordingStatuses, Carries
<1>4. task \in [present : BOOLEAN, revision : 0..MaxRevision, result : 0..MaxRevision]
  BY DeliveryAssumption DEF Init
<1> QED BY <1>1, <1>2, <1>3, <1>4 DEF Init, Typed, TypeOK

LEMMA LedgerTyped ==
  ASSUME Typed, SaveResult \/ SaveProgress \/ Prune \/ HostChanges
  PROVE  Typed'
<1>1. CASE SaveResult
  <2>1. /\ task' \in [present : BOOLEAN, revision : 0..MaxRevision, result : 0..MaxRevision]
        /\ task.revision + 1 \in Revisions
    <3>1. /\ task \in [present : BOOLEAN, revision : 0..MaxRevision, result : 0..MaxRevision]
          /\ task.revision + 1 \in 1..MaxRevision
      BY <1>1, DeliveryAssumption DEF SaveResult, Typed, TypeOK
    <3> DEFINE next == task.revision + 1
    <3>2. task' = [task EXCEPT !.revision = next, !.result = next]
      BY <1>1, <3>1 DEF SaveResult
    <3>3. next \in 1..MaxRevision /\ next \in 0..MaxRevision
      BY <3>1, DeliveryAssumption
    <3> HIDE DEF next
    <3> QED BY <3>1, <3>2, <3>3 DEF Revisions, next
  <2>2. Appended(events, task.revision + 1) \in [Revisions -> Events]
    BY <2>1 DEF Appended, Typed, TypeOK, Events, EventStatuses, Unresolved
  <2>3. events' \in [Revisions -> Events]
    BY <1>1, <2>2, SweptTypes DEF SaveResult
  <2> QED BY <1>1, <2>1, <2>3 DEF SaveResult, Typed, TypeOK
<1>2. CASE SaveProgress
  <2>1. task' \in [present : BOOLEAN, revision : 0..MaxRevision, result : 0..MaxRevision]
    BY <1>2, DeliveryAssumption DEF SaveProgress, Typed, TypeOK
  <2> QED BY <1>2, <2>1, SweptTypes DEF SaveProgress, Typed, TypeOK
<1>3. CASE Prune
  BY <1>3, SweptTypes DEF Prune, Typed, TypeOK
<1>4. CASE HostChanges
  BY <1>4 DEF HostChanges, Typed, TypeOK
<1> QED BY <1>1, <1>2, <1>3, <1>4

LEMMA TimeTyped ==
  ASSUME Typed, NEW r \in Revisions, Time(r)
  PROVE  Typed'
<1>1. CASE LeaseEnds(r)
  BY <1>1 DEF LeaseEnds, Typed, TypeOK, Events
<1>2. CASE GenerationOverdue(r)
  BY <1>2 DEF GenerationOverdue, Typed, TypeOK, Wordings
<1>3. CASE RetentionEnds(r)
  BY <1>3 DEF RetentionEnds, Typed, TypeOK, Events
<1> QED BY <1>1, <1>2, <1>3 DEF Time

LEMMA ClaimTyped ==
  ASSUME Typed, NEW c \in Consumers, NEW r \in Revisions, Claim(c, r)
  PROVE  Typed'
<1> DEFINE rows == Swept(events)
<1>1. rows \in [Revisions -> Events]
  BY SweptTypes DEF Typed, TypeOK
<1> HIDE DEF rows
<1>2. CASE ~Claimable(rows[r])
  BY <1>1, <1>2 DEF Claim, Sweep, Typed, TypeOK, rows
<1>3. CASE Claimable(rows[r])
  <2>1. ClaimedRow(rows[r]) \in Events
    <3>1. rows[r] \in Events /\ rows[r].attempts \in 0..MaxAttempts
      BY <1>1 DEF Events
    <3>2. CASE rows[r].attempts >= MaxAttempts
      BY <3>1, <3>2 DEF ClaimedRow, Events, EventStatuses, Unresolved
    <3>3. CASE ~(rows[r].attempts >= MaxAttempts)
      <4>1. rows[r].attempts + 1 \in 0..MaxAttempts
        BY <3>1, <3>3, DeliveryAssumption
      <4> QED BY <3>1, <3>3, <4>1 DEF ClaimedRow, Events, EventStatuses, Unresolved
    <3> QED BY <3>2, <3>3
  <2>2. events' \in [Revisions -> Events]
    BY <1>1, <1>3, <2>1 DEF Claim, rows
  <2>3. CASE ClaimedRow(rows[r]).status # "processing"
    BY <1>3, <2>2, <2>3 DEF Claim, Typed, TypeOK, rows
  <2>4. CASE ClaimedRow(rows[r]).status = "processing"
    <3> DEFINE t == [at |-> "claimed", event |-> r, note |-> "none",
                     claim |-> rows[r].attempts + 1]
    <3>1. rows[r] \in Events /\ rows[r].attempts \in 0..MaxAttempts
      BY <1>1 DEF Events
    <3>2. ~(rows[r].attempts >= MaxAttempts)
      BY <2>4, <3>1 DEF ClaimedRow, Events
    <3>3. t \in Threads /\ Carries(t)
      <4>1. rows[r].attempts + 1 \in 0..MaxAttempts
        BY <3>1, <3>2, DeliveryAssumption
      <4> QED BY <4>1 DEF Threads, Steps, WordingStatuses, Carries
    <3>4. threads' = [threads EXCEPT ![c] = t]
      BY <1>3, <2>4 DEF Claim, rows
    <3> HIDE DEF t
    <3> QED BY <1>3, <2>2, <3>3, <3>4 DEF Claim, Typed, TypeOK
  <2> QED BY <2>3, <2>4
<1> QED BY <1>2, <1>3

LEMMA CrashTyped ==
  ASSUME Typed, NEW c \in Consumers, Crash(c)
  PROVE  Typed'
BY LeaveTypes DEF Crash, Typed, TypeOK

(* A guard looks, sweeps at most, and sends its thread on.                 *)
LEMMA GuardTyped ==
  ASSUME Typed, NEW c \in Consumers,
         Check(c) \/ Prepare(c) \/ Generate(c) \/ Publish(c) \/ Recheck(c)
  PROVE  Typed'
<1>1. events' \in [Revisions -> Events]
  BY SweepTypes DEF Check, Prepare, Generate, Publish, Recheck, Typed, TypeOK
<1>2. /\ threads' \in [Consumers -> Threads]
      /\ \A d \in Consumers : Carries(threads'[d])
  <2> USE GotoTypes DEF Steps, Notes, WordingStatuses, Receipts, Texts
  <2>1. CASE Check(c)
    BY <2>1 DEF Check
  <2>2. CASE Prepare(c)
    BY <2>2 DEF Prepare
  <2>3. CASE Generate(c)
    BY <2>3 DEF Generate
  <2>4. CASE Publish(c)
    BY <2>4 DEF Publish
  <2>5. CASE Recheck(c)
    BY <2>5 DEF Recheck
  <2> QED BY <2>1, <2>2, <2>3, <2>4, <2>5
<1>3. UNCHANGED <<task, wordings, host, sent, calls>>
  BY DEF Check, Prepare, Generate, Publish, Recheck
<1> QED BY <1>1, <1>2, <1>3 DEF Typed, TypeOK

LEMMA OpenTyped ==
  ASSUME Typed, NEW c \in Consumers, Open(c)
  PROVE  Typed'
<1> DEFINE r == threads[c].event
<1>1. r \in Revisions /\ threads[c].at # "idle"
  BY DEF Open, Typed, Carries
<1>2. /\ threads' \in [Consumers -> Threads]
      /\ \A d \in Consumers : Carries(threads'[d])
  BY <1>1, GotoTypes DEF Open, Steps, Notes, WordingStatuses
<1>3. wordings' \in [Revisions -> Wordings]
  BY <1>1 DEF Open, Typed, TypeOK, Wordings, WordingStatuses
<1>4. calls' \in [Revisions -> Nat]
  BY <1>1 DEF Open, Typed, TypeOK
<1> QED BY <1>2, <1>3, <1>4 DEF Open, Typed, TypeOK

LEMMA RecoveredTypes ==
  ASSUME NEW w \in Wordings
  PROVE  Recovered(w) \in Wordings
BY DEF Recovered, Wordings, WordingStatuses, DeliveryStatuses, Receipts

LEMMA RecoverTyped ==
  ASSUME Typed, NEW c \in Consumers, Recover(c)
  PROVE  Typed'
<1> DEFINE r == threads[c].event
<1>1. r \in Revisions /\ threads[c].at # "idle"
  BY DEF Recover, Typed, Carries
<1>2. wordings[r] \in Wordings /\ Recovered(wordings[r]) \in Wordings
  BY <1>1, RecoveredTypes DEF Typed, TypeOK
<1>3. /\ threads' \in [Consumers -> Threads]
      /\ \A d \in Consumers : Carries(threads'[d])
  BY <1>1, <1>2, GotoTypes, FollowTypes DEF Recover, Steps, Notes, WordingStatuses
<1>4. wordings' \in [Revisions -> Wordings]
  BY <1>1, <1>2 DEF Recover, Typed, TypeOK
<1> QED BY <1>3, <1>4 DEF Recover, Typed, TypeOK

LEMMA StoredTypes ==
  ASSUME NEW w \in Wordings, NEW status \in WordingStatuses
  PROVE  StoredWording(w, status) \in Wordings
BY DEF StoredWording, Wordings

LEMMA StoreTyped ==
  ASSUME Typed, NEW c \in Consumers, Store(c)
  PROVE  Typed'
<1> DEFINE r == threads[c].event
<1>1. /\ r \in Revisions /\ threads[c].at # "idle"
      /\ threads[c].note \in WordingStatuses
  BY DEF Store, Typed, Carries, Texts, WordingStatuses
<1>2. ASSUME NEW status \in WordingStatuses,
             wordings' = [wordings EXCEPT ![r] = StoredWording(@, status)],
             Follow(c, StoredWording(wordings[r], status))
      PROVE  Typed'
  <2>1. StoredWording(wordings[r], status) \in Wordings
    BY <1>1, StoredTypes DEF Typed, TypeOK
  <2>2. wordings' \in [Revisions -> Wordings]
    BY <1>1, <1>2, <2>1 DEF Typed, TypeOK
  <2> QED BY <1>1, <1>2, <2>1, <2>2, FollowTypes DEF Store, Typed, TypeOK
<1>3. CASE Goto(c, "retry", "none") /\ UNCHANGED wordings
  BY <1>1, <1>3, GotoTypes DEF Store, Typed, TypeOK, Steps, Notes, WordingStatuses
<1> QED BY <1>1, <1>2, <1>3 DEF Store, WordingStatuses

LEMMA ReserveTyped ==
  ASSUME Typed, NEW c \in Consumers, Reserve(c)
  PROVE  Typed'
<1> DEFINE r == threads[c].event
<1>1. r \in Revisions /\ threads[c].at # "idle"
  BY DEF Reserve, Typed, Carries
<1>2. /\ threads' \in [Consumers -> Threads]
      /\ \A d \in Consumers : Carries(threads'[d])
  BY <1>1, GotoTypes DEF Reserve, Steps, Notes, WordingStatuses, Receipts
<1>3. wordings' \in [Revisions -> Wordings]
  BY <1>1 DEF Reserve, Typed, TypeOK, Wordings, DeliveryStatuses
<1> QED BY <1>2, <1>3 DEF Reserve, Typed, TypeOK

LEMMA SendTyped ==
  ASSUME Typed, NEW c \in Consumers, Send(c)
  PROVE  Typed'
<1> DEFINE r == threads[c].event
<1>1. r \in Revisions /\ threads[c].at # "idle"
  BY DEF Send, Typed, Carries
<1>2. /\ threads' \in [Consumers -> Threads]
      /\ \A d \in Consumers : Carries(threads'[d])
  BY <1>1, GotoTypes DEF Send, Steps, Notes, Receipts
<1>3. sent' \in [Revisions -> Nat]
  BY <1>1 DEF Send, Typed, TypeOK
<1>4. events' \in [Revisions -> Events]
  BY SweepTypes DEF Send, Typed, TypeOK
<1> QED BY <1>2, <1>3, <1>4 DEF Send, Typed, TypeOK

LEMMA ReceiptedTypes ==
  ASSUME NEW w \in Wordings, NEW receipt \in DeliveryStatuses
  PROVE  Receipted(w, receipt) \in Wordings
BY DEF Receipted, Wordings

LEMMA RecordTyped ==
  ASSUME Typed, NEW c \in Consumers, Record(c), threads[c].note \in Receipts
  PROVE  Typed'
<1> DEFINE r == threads[c].event
<1>1. r \in Revisions /\ threads[c].at # "idle"
  BY DEF Record, Typed, Carries
<1>2. /\ wordings[r] \in Wordings
      /\ Receipted(wordings[r], threads[c].note) \in Wordings
  BY <1>1, ReceiptedTypes DEF Typed, TypeOK, DeliveryStatuses
<1>3. ASSUME NEW w \in Wordings,
             Goto(c, "settle", IF w.delivery = "not_sent" THEN threads[c].note
                                                          ELSE w.delivery)
      PROVE  /\ threads' \in [Consumers -> Threads]
             /\ \A d \in Consumers : Carries(threads'[d])
  <2>1. (IF w.delivery = "not_sent" THEN threads[c].note ELSE w.delivery) \in Notes
    BY DEF Wordings, DeliveryStatuses, Notes
  <2> QED BY <1>1, <1>3, <2>1, GotoTypes DEF Steps
<1>4. /\ threads' \in [Consumers -> Threads]
      /\ \A d \in Consumers : Carries(threads'[d])
  BY <1>2, <1>3 DEF Record
<1>5. wordings' \in [Revisions -> Wordings]
  BY <1>1, <1>2 DEF Record, Typed, TypeOK
<1> QED BY <1>4, <1>5 DEF Record, Typed, TypeOK

LEMMA WithholdTyped ==
  ASSUME Typed, NEW c \in Consumers, Withhold(c)
  PROVE  Typed'
<1> DEFINE r == threads[c].event
<1>1. r \in Revisions /\ threads[c].at # "idle"
  BY DEF Withhold, Typed, Carries
<1>2. Receipted(wordings[r], "suppressed") \in Wordings
  BY <1>1, ReceiptedTypes DEF Typed, TypeOK, DeliveryStatuses, Receipts
<1>3. /\ threads' \in [Consumers -> Threads]
      /\ \A d \in Consumers : Carries(threads'[d])
  BY <1>1, GotoTypes DEF Withhold, Steps, Notes, WordingStatuses, Receipts
<1>4. wordings' \in [Revisions -> Wordings]
  BY <1>1, <1>2 DEF Withhold, Typed, TypeOK
<1> QED BY <1>3, <1>4 DEF Withhold, Typed, TypeOK

(* The four ways a consumer lets go of an event.                           *)
LEMMA CloseTyped ==
  ASSUME Typed, NEW c \in Consumers,
         Settle(c) \/ Drop(c) \/ RetryLater(c) \/ Rescue(c)
  PROVE  Typed'
<1> DEFINE r == threads[c].event
<1>1. /\ r \in Revisions /\ threads[c].at # "idle" /\ Row(c) \in Events
      /\ threads[c].at = "drop" => threads[c].note \in EventStatuses
  <2>1. threads[c].at # "idle"
    BY DEF Settle, Drop, RetryLater, Rescue
  <2> QED BY <2>1, RowType DEF Typed, Carries, EventStatuses, Settled
<1>2. events' \in [Revisions -> Events]
  <2>1. CASE Settle(c)
    BY <1>1, <2>1, OutcomeTypes, FinishedTypes, ChangeTypes DEF Settle, Typed, TypeOK
  <2>2. CASE Drop(c)
    <3>1. Row(c).delivery \in DeliveryStatuses
      BY <1>1 DEF Events
    <3> QED BY <1>1, <2>2, <3>1, FinishedTypes, ChangeTypes DEF Drop, Typed, TypeOK
  <2>3. CASE RetryLater(c)
    BY <1>1, <2>3, RetriedTypes, ChangeTypes DEF RetryLater, Typed, TypeOK
  <2>4. CASE Rescue(c)
    BY <1>1, <2>4, OutcomeTypes, FinishedTypes, RetriedTypes, ChangeTypes DEF Rescue, Typed, TypeOK
  <2> QED BY <2>1, <2>2, <2>3, <2>4
<1>3. /\ threads' \in [Consumers -> Threads]
      /\ \A d \in Consumers : Carries(threads'[d])
  BY <1>1, GotoTypes, LeaveTypes DEF Settle, Drop, RetryLater, Rescue, Steps, Notes, WordingStatuses
<1> QED BY <1>2, <1>3 DEF Settle, Drop, RetryLater, Rescue, Typed, TypeOK

LEMMA TypedInductive ==
  ASSUME Typed, Published, [Next]_vars
  PROVE  Typed'
<1>1. CASE UNCHANGED vars
  BY <1>1 DEF vars, Typed, TypeOK
<1>2. ASSUME NEW c \in Consumers, Work(c)
      PROVE  Typed'
  <2>1. CASE Record(c)
    <3>1. threads[c].event \in Revisions /\ Holder(c, threads[c].event)
      BY <2>1 DEF Record, Holder, Publishing, Typed, Carries
    <3>2. threads[c].note \in Receipts
      BY <2>1, <3>1 DEF Record, Published, HolderOK, Honest
    <3> QED BY <2>1, <3>2, RecordTyped
  <2> QED BY <1>2, <2>1, GuardTyped, OpenTyped, RecoverTyped, StoreTyped,
             ReserveTyped, SendTyped, WithholdTyped, CloseTyped DEF Work
<1> QED BY <1>1, <1>2, LedgerTyped, TimeTyped, ClaimTyped, CrashTyped DEF Next

-----------------------------------------------------------------------------
(* Every action keeps Published *)

(* Nobody starts publishing, nothing is sent, no delivery is written.      *)
Quiet == /\ \A d \in Consumers :
               threads'[d] = threads[d] \/ threads'[d].at \notin Publishing
         /\ \A r \in Revisions : wordings'[r].delivery = wordings[r].delivery
         /\ sent' = sent

LEMMA QuietStep ==
  ASSUME Published, Quiet
  PROVE  Published'
BY DEF Published, Quiet, ResultOK, HolderOK, Holder

(* What Goto and Leave do to the threads.                                  *)
LEMMA GotoEffect ==
  ASSUME Typed, NEW c \in Consumers, NEW step, NEW note, Goto(c, step, note)
  PROVE  /\ threads'[c].at = step /\ threads'[c].note = note
         /\ threads'[c].event = threads[c].event
         /\ \A d \in Consumers : d # c => threads'[d] = threads[d]
BY DEF Goto, Typed, TypeOK, Threads

LEMMA LeaveEffect ==
  ASSUME Typed, NEW c \in Consumers, Leave(c)
  PROVE  /\ threads'[c].at = "idle"
         /\ \A d \in Consumers : d # c => threads'[d] = threads[d]
BY DEF Leave, Idle, Typed, TypeOK

LEMMA FollowEffect ==
  ASSUME Typed, NEW c \in Consumers, NEW w, Follow(c, w)
  PROVE  /\ threads'[c].at \notin Publishing
         /\ \A d \in Consumers : d # c => threads'[d] = threads[d]
BY GotoEffect DEF Follow, Publishing

LEMMA StoredDelivery ==
  ASSUME NEW w \in Wordings, NEW status
  PROVE  StoredWording(w, status).delivery = w.delivery
BY DEF StoredWording, Wordings

(* Most of Next is quiet.                                                  *)
LEMMA QuietActions ==
  ASSUME Typed, NEW c \in Consumers,
         \/ Check(c) \/ Prepare(c) \/ Generate(c) \/ Publish(c) \/ Open(c)
         \/ Store(c) \/ Settle(c) \/ Drop(c) \/ RetryLater(c) \/ Rescue(c)
         \/ Crash(c)
  PROVE  Quiet
<1>1. CASE Check(c)
  BY <1>1, GotoEffect DEF Check, Quiet, Publishing
<1>2. CASE Prepare(c)
  BY <1>2, GotoEffect DEF Prepare, Quiet, Publishing
<1>3. CASE Generate(c)
  BY <1>3, GotoEffect DEF Generate, Quiet, Publishing
<1>4. CASE Publish(c)
  BY <1>4, GotoEffect DEF Publish, Quiet, Publishing
<1>5. CASE Open(c)
  BY <1>5, GotoEffect DEF Open, Quiet, Publishing, Typed, TypeOK, Wordings
<1>6. CASE Store(c)
  <2>1. \A r \in Revisions : wordings'[r].delivery = wordings[r].delivery
    <3>1. threads[c].event \in Revisions
      BY <1>6 DEF Store, Typed, Carries
    <3>2. ASSUME NEW status,
                 wordings' = [wordings EXCEPT ![threads[c].event] =
                                 StoredWording(@, status)]
          PROVE  \A r \in Revisions : wordings'[r].delivery = wordings[r].delivery
      BY <3>1, <3>2, StoredDelivery DEF Typed, TypeOK
    <3> QED BY <1>6, <3>2 DEF Store
  <2>2. /\ threads'[c].at \notin Publishing
        /\ \A d \in Consumers : d # c => threads'[d] = threads[d]
    BY <1>6, FollowEffect, GotoEffect DEF Store, Publishing
  <2> QED BY <1>6, <2>1, <2>2 DEF Store, Quiet
<1>7. CASE Settle(c) \/ Drop(c) \/ RetryLater(c) \/ Rescue(c)
  <2>1. /\ threads'[c].at \notin Publishing
        /\ \A d \in Consumers : d # c => threads'[d] = threads[d]
    BY <1>7, GotoEffect, LeaveEffect DEF Settle, Drop, RetryLater, Rescue, Publishing
  <2> QED BY <1>7, <2>1 DEF Settle, Drop, RetryLater, Rescue, Quiet
<1>8. CASE Crash(c)
  BY <1>8, LeaveEffect DEF Crash, Quiet, Publishing
<1> QED BY <1>1, <1>2, <1>3, <1>4, <1>5, <1>6, <1>7, <1>8

LEMMA QuietSurroundings ==
  ASSUME Typed,
         \/ SaveResult \/ SaveProgress \/ Prune \/ HostChanges
         \/ \E r \in Revisions : Time(r)
         \/ \E c \in Consumers, r \in Revisions : Claim(c, r)
  PROVE  Quiet
<1>1. ASSUME NEW r \in Revisions, Time(r)
      PROVE  Quiet
  <2>1. CASE GenerationOverdue(r)
    BY <1>1, <2>1 DEF GenerationOverdue, Quiet, Typed, TypeOK, Wordings
  <2> QED BY <1>1, <2>1 DEF Time, LeaseEnds, RetentionEnds, Quiet
<1>2. ASSUME NEW c \in Consumers, NEW r \in Revisions, Claim(c, r)
      PROVE  Quiet
  BY <1>2 DEF Claim, Quiet, Publishing, Typed, TypeOK
<1> QED BY <1>1, <1>2 DEF SaveResult, SaveProgress, Prune, HostChanges, Quiet

(* archive.reserve_delivery: nobody else is publishing, nothing was sent.  *)
LEMMA ReservePublished ==
  ASSUME Typed, Published, NEW c \in Consumers, Reserve(c)
  PROVE  Published'
<1> DEFINE r == threads[c].event
<1>1. r \in Revisions
  BY DEF Reserve, Typed, Carries
<1>2. CASE Quiet
  BY <1>2, QuietStep
<1>3. CASE /\ Reservable(wordings[r])
           /\ wordings' = [wordings EXCEPT ![r].delivery = "sending"]
           /\ Goto(c, "reserved", "none")
  <2>1. sent[r] = 0 /\ \A d \in Consumers : ~Holder(d, r)
    BY <1>1, <1>3 DEF Reservable, Published, ResultOK, HolderOK
  <2>2. \A q \in Revisions : wordings'[q].delivery =
            IF q = r THEN "sending" ELSE wordings[q].delivery
    BY <1>1, <1>3 DEF Typed, TypeOK, Wordings
  <2>3. /\ threads'[c].at = "reserved" /\ threads'[c].event = r
        /\ \A d \in Consumers : d # c => threads'[d] = threads[d]
    BY <1>3, GotoEffect
  <2>4. sent' = sent
    BY DEF Reserve
  <2> QED BY <1>1, <2>1, <2>2, <2>3, <2>4 DEF Published, ResultOK, HolderOK, Holder, Publishing
<1>4. Quiet \/ /\ Reservable(wordings[r])
               /\ wordings' = [wordings EXCEPT ![r].delivery = "sending"]
               /\ Goto(c, "reserved", "none")
  BY GotoEffect DEF Reserve, Quiet, Publishing
<1> QED BY <1>2, <1>3, <1>4

(* The publisher stays the publisher, or stops being one.                  *)
LEMMA RecheckPublished ==
  ASSUME Typed, Published, NEW c \in Consumers, Recheck(c)
  PROVE  Published'
<1> DEFINE r == threads[c].event
<1>1. r \in Revisions /\ Holder(c, r) /\ threads[c].at = "reserved"
  BY DEF Recheck, Typed, Carries, Holder, Publishing
<1>2. /\ threads'[c].at \in {"send", "rescue", "withhold"} /\ threads'[c].event = r
      /\ \A d \in Consumers : d # c => threads'[d] = threads[d]
  BY GotoEffect DEF Recheck
<1>3. wordings' = wordings /\ sent' = sent
  BY DEF Recheck
<1> QED BY <1>1, <1>2, <1>3 DEF Published, ResultOK, HolderOK, Holder, Publishing

(* The message leaves, once: until now nothing of this result was sent.    *)
LEMMA SendPublished ==
  ASSUME Typed, Published, NEW c \in Consumers, Send(c)
  PROVE  Published'
<1> DEFINE r == threads[c].event
<1>1. r \in Revisions /\ Holder(c, r) /\ threads[c].at = "send"
  BY DEF Send, Typed, Carries, Holder, Publishing
<1>2. /\ sent[r] = 0 /\ wordings[r].delivery \in {"sending", "uncertain"}
      /\ \A d \in Consumers : Holder(d, r) => d = c
  BY <1>1 DEF Published, HolderOK
<1>3. \E receipt \in Receipts, n \in {0, 1} :
          /\ Goto(c, "receipt", receipt)
          /\ sent' = [sent EXCEPT ![r] = @ + n]
          /\ Honest(receipt, n)
  <2>1. /\ Honest("suppressed", 0) /\ Honest("dry_run", 0) /\ Honest("uncertain", 0)
        /\ \A receipt \in {"sent", "partial", "uncertain"} : Honest(receipt, 1)
        /\ {"suppressed", "dry_run", "sent", "partial", "uncertain"} \subseteq Receipts
    BY DEF Honest, Receipts
  <2> QED BY <2>1 DEF Send
<1> PICK receipt \in Receipts, n \in {0, 1} :
          /\ Goto(c, "receipt", receipt)
          /\ sent' = [sent EXCEPT ![r] = @ + n]
          /\ Honest(receipt, n)
  BY <1>3
<1>4. /\ threads'[c].at = "receipt" /\ threads'[c].note = receipt
      /\ threads'[c].event = r
      /\ \A d \in Consumers : d # c => threads'[d] = threads[d]
  BY GotoEffect
<1>5. \A q \in Revisions : sent'[q] = IF q = r THEN n ELSE sent[q]
  BY <1>1, <1>2 DEF Typed, TypeOK
<1>6. wordings' = wordings
  BY DEF Send
<1>7. \A q \in Revisions : ResultOK(q)'
  BY <1>2, <1>5, <1>6 DEF Published, ResultOK
<1>8. \A d \in Consumers, q \in Revisions : HolderOK(d, q)'
  BY <1>1, <1>2, <1>4, <1>5, <1>6 DEF Published, HolderOK, Holder, Publishing
<1>9. \A d, e \in Consumers, q \in Revisions : (Holder(d, q) /\ Holder(e, q))' => d = e
  BY <1>1, <1>4 DEF Published, Holder
<1> QED BY <1>7, <1>8, <1>9 DEF Published

(* A delivery is written by its only publisher, who is done with it.       *)
LEMMA ReceiptPublished ==
  ASSUME Typed, Published, NEW c \in Consumers, Record(c) \/ Withhold(c)
  PROVE  Published'
<1> DEFINE r == threads[c].event
<1>1. r \in Revisions /\ Holder(c, r)
  BY DEF Record, Withhold, Typed, Carries, Holder, Publishing
<1>2. /\ \A d \in Consumers : Holder(d, r) => d = c
      /\ wordings[r].delivery \in {"sending", "uncertain"}
      /\ threads[c].at = "receipt" => threads[c].note \in Receipts
  BY <1>1 DEF Published, HolderOK, Honest
<1>3. /\ threads'[c].at \notin Publishing
      /\ \A d \in Consumers : d # c => threads'[d] = threads[d]
  BY GotoEffect DEF Record, Withhold, Publishing
<1>4. PICK w \in {wordings[r], Receipted(wordings[r], threads[c].note),
                  Receipted(wordings[r], "suppressed")} :
          /\ wordings' = [wordings EXCEPT ![r] = w]
          /\ w.delivery # "not_sent"
  <2>1. wordings = [wordings EXCEPT ![r] = wordings[r]]
    BY DEF Typed, TypeOK
  <2>2. Receipted(wordings[r], "suppressed").delivery # "not_sent"
    BY <1>1, <1>2 DEF Receipted, Typed, TypeOK, Wordings
  <2>3. CASE Record(c)
    <3>1. Receipted(wordings[r], threads[c].note).delivery # "not_sent"
      BY <1>1, <1>2, <2>3 DEF Record, Receipted, Typed, TypeOK, Wordings, Receipts
    <3> QED BY <1>2, <2>1, <2>3, <3>1 DEF Record
  <2>4. CASE Withhold(c)
    BY <1>2, <2>1, <2>2, <2>4 DEF Withhold
  <2> QED BY <2>3, <2>4
<1>5. \A q \in Revisions : q # r => wordings'[q] = wordings[q]
  BY <1>4 DEF Typed, TypeOK
<1>6. wordings'[r].delivery # "not_sent"
  BY <1>1, <1>4 DEF Typed, TypeOK
<1>7. sent' = sent
  BY DEF Record, Withhold
<1> QED BY <1>2, <1>3, <1>5, <1>6, <1>7 DEF Published, ResultOK, HolderOK, Holder

(* archive.recover_interrupted gives up on a publication, never undoes it. *)
LEMMA RecoveredDelivery ==
  ASSUME NEW w \in Wordings
  PROVE  Recovered(w).delivery = IF w.delivery = "sending" THEN "uncertain" ELSE w.delivery
BY DEF Recovered, Wordings

LEMMA RecoverPublished ==
  ASSUME Typed, Published, NEW c \in Consumers, Recover(c)
  PROVE  Published'
<1> DEFINE r == threads[c].event
<1>1. r \in Revisions /\ wordings[r] \in Wordings
  BY DEF Recover, Typed, TypeOK, Carries
<1>2. \A q \in Revisions : wordings'[q].delivery \in {wordings[q].delivery} \cup
          (IF wordings[q].delivery = "sending" THEN {"uncertain"} ELSE {})
  BY <1>1, RecoveredDelivery DEF Recover, Typed, TypeOK
<1>3. /\ threads'[c].at \notin Publishing
      /\ \A d \in Consumers : d # c => threads'[d] = threads[d]
  BY FollowEffect, GotoEffect DEF Recover, Publishing
<1>4. sent' = sent
  BY DEF Recover
<1> QED BY <1>2, <1>3, <1>4 DEF Published, ResultOK, HolderOK, Holder

LEMMA PublishedInductive ==
  ASSUME Typed, Published, [Next]_vars
  PROVE  Published'
<1>1. CASE UNCHANGED vars
  BY <1>1, QuietStep DEF vars, Quiet
<1>2. ASSUME NEW c \in Consumers, Work(c) \/ Crash(c)
      PROVE  Published'
  BY <1>2, QuietActions, QuietStep, ReservePublished, RecheckPublished, SendPublished,
     ReceiptPublished, RecoverPublished DEF Work
<1> QED BY <1>1, <1>2, QuietSurroundings, QuietStep DEF Next

-----------------------------------------------------------------------------
(* Every action keeps Worded: a record never goes away, and only the       *)
(* consumer that creates it calls the model.                               *)

LEMMA WordedInductive ==
  ASSUME Typed, Worded, [Next]_vars
  PROVE  Worded'
<1> DEFINE Kept == /\ calls' = calls
                   /\ \A r \in Revisions : wordings'[r].status = "none"
                                              => wordings[r].status = "none"
<1>1. Kept => Worded'
  BY DEF Worded
<1>2. ASSUME NEW c \in Consumers, NEW w \in Wordings,
             threads[c].at # "idle", w.status # "none", calls' = calls,
             wordings' = [wordings EXCEPT ![threads[c].event] = w]
      PROVE  Kept
  BY <1>2 DEF Typed, TypeOK, Carries
<1>3. ASSUME NEW c \in Consumers, Work(c)
      PROVE  Worded'
  <2> DEFINE r == threads[c].event
  <2>1. threads[c].at # "idle"
    BY <1>3 DEF Work, Check, Prepare, Open, Recover, Generate, Store, Publish, Reserve,
       Recheck, Send, Record, Withhold, Settle, Drop, RetryLater, Rescue
  <2>2. r \in Revisions /\ wordings[r] \in Wordings
    BY <2>1 DEF Typed, TypeOK, Carries
  <2>3. CASE Open(c)
    <3>1. CASE wordings[r].status # "none"
      BY <1>1, <2>3, <3>1 DEF Open
    <3>2. CASE wordings[r].status = "none" /\ wordings' # wordings
      <4>1. /\ \A q \in Revisions : calls'[q] = IF q = r THEN calls[r] + 1 ELSE calls[q]
            /\ calls[r] = 0
        BY <2>2, <2>3, <3>2 DEF Open, Typed, TypeOK, Worded
      <4>2. /\ wordings'[r].status = "processing"
            /\ \A q \in Revisions : q # r => wordings'[q] = wordings[q]
        BY <2>2, <2>3, <3>2 DEF Open, Typed, TypeOK, Wordings
      <4> QED BY <4>1, <4>2 DEF Worded
    <3>3. CASE wordings' = wordings
      <4>1. ~(/\ wordings' = [wordings EXCEPT ![r].status = "processing"]
              /\ wordings[r].status = "none")
        BY <2>2, <3>3 DEF Typed, TypeOK, Wordings
      <4> QED BY <1>1, <2>3, <3>3, <4>1 DEF Open
    <3> QED BY <3>1, <3>2, <3>3
  <2>4. CASE Recover(c)
    <3>1. /\ Recovered(wordings[r]) \in Wordings
          /\ Recovered(wordings[r]).status = "none" => wordings[r].status = "none"
      BY <2>2, RecoveredTypes DEF Recovered, Wordings
    <3>2. \A q \in Revisions : wordings'[q] \in {wordings[q], Recovered(wordings[q])}
      BY <2>2, <2>4 DEF Recover, Typed, TypeOK
    <3>3. \A q \in Revisions : q # r => wordings'[q] = wordings[q]
      BY <2>2, <2>4 DEF Recover, Typed, TypeOK
    <3> QED BY <1>1, <2>4, <3>1, <3>2, <3>3 DEF Recover
  <2>5. CASE Store(c)
    <3>1. ASSUME NEW status \in Texts,
                 wordings' = [wordings EXCEPT ![r] = StoredWording(@, status)]
          PROVE  Kept
      <4>1. StoredWording(wordings[r], status).status = "none" => wordings[r].status = "none"
        BY <2>2 DEF StoredWording, Wordings, Texts
      <4>2. \A q \in Revisions : wordings'[q] =
               IF q = r THEN StoredWording(wordings[r], status) ELSE wordings[q]
        BY <2>2, <3>1 DEF Typed, TypeOK
      <4> QED BY <2>5, <4>1, <4>2 DEF Store
    <3>2. threads[c].note \in Texts /\ "discarded" \in Texts
      BY <2>5 DEF Store, Typed, Carries, Texts
    <3> QED BY <1>1, <2>5, <3>1, <3>2 DEF Store
  <2>6. CASE Reserve(c) \/ Record(c) \/ Withhold(c)
    <3>1. \A q \in Revisions : wordings'[q].status = wordings[q].status
      BY <2>2, <2>6 DEF Reserve, Record, Withhold, Receipted, Typed, TypeOK, Wordings
    <3> QED BY <1>1, <2>6, <3>1 DEF Reserve, Record, Withhold
  <2> QED BY <1>1, <1>3, <2>3, <2>4, <2>5, <2>6 DEF Work, Check, Prepare, Generate,
             Publish, Recheck, Send, Settle, Drop, RetryLater, Rescue
<1>4. ASSUME NEW r \in Revisions, Time(r)
      PROVE  Worded'
  BY <1>1, <1>4 DEF Time, LeaseEnds, GenerationOverdue, RetentionEnds, Typed, TypeOK, Wordings
<1>5. CASE UNCHANGED vars
  BY <1>1, <1>5 DEF vars
<1> QED BY <1>1, <1>3, <1>4, <1>5 DEF Next, SaveResult, SaveProgress, Prune, HostChanges,
           Claim, Crash

-----------------------------------------------------------------------------
LEMMA InitIInv == Init => IInv
<1> SUFFICES ASSUME Init PROVE IInv
  OBVIOUS
<1>1. Published
  BY DEF Init, Published, ResultOK, HolderOK, Holder, Publishing, Idle
<1>2. Worded
  BY DEF Init, Worded
<1> QED BY <1>1, <1>2, InitTyped DEF IInv

(* Every action of the model keeps IInv.                                   *)
THEOREM DeliveryInductive == IInv /\ [Next]_vars => IInv'
BY TypedInductive, PublishedInductive, WordedInductive DEF IInv

(* IInv holds in every reachable state.                                    *)
THEOREM DeliveryInvariance == Spec => []IInv
BY InitIInv, DeliveryInductive, PTL DEF Spec

(* Every reachable state is well typed: what a consumer of events.py       *)
(* carries to finish is a status the outbox and the archive know.          *)
THEOREM DeliveryTypeCorrect == Spec => []TypeOK
<1>1. IInv => TypeOK
  BY DEF IInv, Typed
<1> QED BY <1>1, DeliveryInvariance, PTL

(* No result is put on the wire twice, for any number of consumers,        *)
(* claims, crashes and lost writes: reserve_delivery of archive.py hands   *)
(* the right to publish out once, and nothing gives it back.               *)
THEOREM SentAtMostOnce == Spec => []AtMostOneSend
<1>1. IInv => AtMostOneSend
  BY DEF IInv, Published, ResultOK, AtMostOneSend
<1> QED BY <1>1, DeliveryInvariance, PTL

(* No result is worded twice by a paid model call: archive.claim creates   *)
(* one record, and an overdue one falls back to the template.              *)
THEOREM GeneratedAtMostOnce == Spec => []OneGeneration
<1>1. IInv => OneGeneration
  BY DEF IInv, Worded, OneGeneration
<1> QED BY <1>1, DeliveryInvariance, PTL

-----------------------------------------------------------------------------
(* The account that the outbox and the archive keep *)

(* What the archive says was sent is on the wire, and a dry run is not.    *)
Truthful(r) == /\ wordings[r].delivery = "sent" => sent[r] = 1
               /\ wordings[r].delivery = "dry_run" => sent[r] = 0

(* A consumer settles its event as done only with the archived receipt.    *)
Reports(c) ==
    threads[c].at = "settle" /\ threads[c].note \in {"sent", "dry_run"}
        => wordings[threads[c].event].delivery = threads[c].note

(* A revision that was not saved yet has no event.                         *)
Unwritten == \A r \in Revisions : r > task.revision => events[r].status = "none"

Accounted == /\ \A r \in Revisions : Truthful(r)
             /\ \A c \in Consumers : Reports(c)
             /\ Unwritten
             /\ AccountIsTrue

(* What a step may do to the delivery of a result and to the wire: nothing *)
(* once a receipt is archived, and the receipt agrees with the wire.       *)
Delivers(r) ==
    LET old == wordings[r].delivery  new == wordings'[r].delivery IN
    \/ new = old /\ sent'[r] = sent[r]
    \/ new = old /\ old \in {"sending", "uncertain"}
    \/ old = "not_sent" /\ new = "sending"
    \/ /\ old = "sending" /\ new \in Receipts /\ sent'[r] = sent[r]
       /\ new = "sent" => sent[r] = 1
       /\ new = "dry_run" => sent[r] = 0

LEMMA DeliveryStep ==
  ASSUME Typed, Published, [Next]_vars
  PROVE  \A r \in Revisions : Delivers(r)
<1> USE DEF Delivers
<1>1. CASE Quiet
  BY <1>1 DEF Quiet
<1>2. ASSUME NEW c \in Consumers, Reserve(c) \/ Recheck(c)
      PROVE  \A r \in Revisions : Delivers(r)
  <2>1. sent' = sent /\ threads[c].event \in Revisions
    BY <1>2 DEF Reserve, Recheck, Typed, Carries
  <2>2. \A r \in Revisions : \/ wordings'[r].delivery = wordings[r].delivery
                             \/ /\ wordings[r].delivery = "not_sent"
                                /\ wordings'[r].delivery = "sending"
    BY <1>2, <2>1 DEF Reserve, Recheck, Reservable, Typed, TypeOK, Wordings
  <2> QED BY <2>1, <2>2
<1>3. ASSUME NEW c \in Consumers, Send(c)
      PROVE  \A r \in Revisions : Delivers(r)
  <2>1. /\ threads[c].event \in Revisions /\ Holder(c, threads[c].event)
        /\ wordings' = wordings
    BY <1>3 DEF Send, Typed, Carries, Holder, Publishing
  <2>2. wordings[threads[c].event].delivery \in {"sending", "uncertain"}
    BY <2>1 DEF Published, HolderOK
  <2>3. \A r \in Revisions : r # threads[c].event => sent'[r] = sent[r]
    BY <1>3, <2>1 DEF Send, Typed, TypeOK
  <2> QED BY <2>1, <2>2, <2>3
<1>4. ASSUME NEW c \in Consumers, Record(c)
      PROVE  \A r \in Revisions : Delivers(r)
  <2> DEFINE q == threads[c].event
  <2>1. q \in Revisions /\ Holder(c, q) /\ sent' = sent /\ threads[c].at = "receipt"
    BY <1>4 DEF Record, Typed, Carries, Holder, Publishing
  <2>2. Honest(threads[c].note, sent[q])
    BY <2>1 DEF Published, HolderOK
  <2>3. Receipted(wordings[q], threads[c].note).delivery =
            IF wordings[q].delivery = "sending" THEN threads[c].note
                                                ELSE wordings[q].delivery
    BY <2>1 DEF Receipted, Typed, TypeOK, Wordings
  <2>4. \/ wordings' = wordings
        \/ wordings' = [wordings EXCEPT ![q] = Receipted(@, threads[c].note)]
    BY <1>4 DEF Record
  <2>5. \A r \in Revisions : wordings'[r].delivery =
            IF r = q /\ wordings' # wordings /\ wordings[q].delivery = "sending"
            THEN threads[c].note ELSE wordings[r].delivery
    BY <2>1, <2>3, <2>4 DEF Typed, TypeOK
  <2> QED BY <2>1, <2>2, <2>5 DEF Honest
<1>5. ASSUME NEW c \in Consumers, Withhold(c)
      PROVE  \A r \in Revisions : Delivers(r)
  <2> DEFINE q == threads[c].event
  <2>1. q \in Revisions /\ sent' = sent
    BY <1>5 DEF Withhold, Typed, Carries
  <2>2. Receipted(wordings[q], "suppressed").delivery =
            IF wordings[q].delivery = "sending" THEN "suppressed"
                                                ELSE wordings[q].delivery
    BY <2>1 DEF Receipted, Typed, TypeOK, Wordings
  <2>3. \A r \in Revisions : wordings'[r].delivery \in {wordings[r].delivery} \cup
            (IF wordings[r].delivery = "sending" THEN {"suppressed"} ELSE {})
    BY <1>5, <2>1, <2>2 DEF Withhold, Typed, TypeOK
  <2> QED BY <2>1, <2>3 DEF Receipts
<1>6. ASSUME NEW c \in Consumers, Recover(c)
      PROVE  \A r \in Revisions : Delivers(r)
  <2>1. /\ threads[c].event \in Revisions /\ sent' = sent
        /\ wordings[threads[c].event] \in Wordings
    BY <1>6 DEF Recover, Typed, TypeOK, Carries
  <2>2. \A r \in Revisions : wordings'[r].delivery \in {wordings[r].delivery} \cup
            (IF wordings[r].delivery = "sending" THEN {"uncertain"} ELSE {})
    BY <1>6, <2>1, RecoveredDelivery DEF Recover, Typed, TypeOK
  <2> QED BY <2>1, <2>2 DEF Receipts
<1>7. CASE UNCHANGED vars
  BY <1>1, <1>7 DEF vars, Quiet
<1> QED BY <1>1, <1>2, <1>3, <1>4, <1>5, <1>6, <1>7, QuietActions, QuietSurroundings
        DEF Next, Work

(* What a step may do to the status of one event.                          *)
Moves(r) ==
    LET old == events[r].status  new == events'[r].status IN
    \/ new = old
    \/ old \in Unresolved /\ new = "expired"
    \/ /\ old = "none" /\ new \in {"pending", "expired"}
       /\ SaveResult /\ r = task.revision + 1
    \/ /\ old \in {"pending", "processing"}
       /\ new \in {"pending", "processing", "failed", "uncertain", "stale", "suppressed"}
    \/ /\ old = "processing" /\ new = "done"
       /\ wordings'[r].delivery = wordings[r].delivery
       /\ wordings[r].delivery \in {"sent", "dry_run"}

LEMMA SweptStatus ==
  ASSUME NEW rows \in [Revisions -> Events], NEW r \in Revisions
  PROVE  /\ Swept(rows)[r].status \in {rows[r].status} \cup
               (IF rows[r].status \in Unresolved THEN {"expired"} ELSE {})
         /\ Swept(rows)[r] \in Events
         /\ rows[r].old /\ rows[r].status \in Unresolved => Swept(rows)[r].status = "expired"
BY SweptTypes DEF Swept, Events

LEMMA OutcomeMeans ==
  ASSUME NEW note
  PROVE  /\ Outcome(note) \in {"done", "uncertain", "failed", "suppressed"}
         /\ Outcome(note) = "done" => note \in {"sent", "dry_run"}
BY DEF Outcome, Known, Receipts

LEMMA SweepMoves ==
  ASSUME Typed, Sweep \/ UNCHANGED events
  PROVE  \A r \in Revisions : Moves(r)
BY SweptStatus DEF Sweep, Moves, Typed, TypeOK

(* The claim's holder writes a status of its own.                          *)
LEMMA ChangeMoves ==
  ASSUME Typed, NEW c \in Consumers, threads[c].at # "idle",
         NEW row \in Events, ChangeClaim(c, row),
         \/ row.status \in {"pending", "failed", "uncertain", "stale", "suppressed"}
         \/ /\ row.status = "done"
            /\ wordings' = wordings
            /\ wordings[threads[c].event].delivery \in {"sent", "dry_run"}
  PROVE  \A r \in Revisions : Moves(r)
<1>1. events \in [Revisions -> Events] /\ threads[c].event \in Revisions
  BY DEF Typed, TypeOK, Carries
<1>2. CASE ~Owns(c)
  BY <1>2, SweepMoves DEF ChangeClaim, Sweep
<1>3. CASE Owns(c)
  <2>1. events[threads[c].event].status = "processing"
    BY <1>1, <1>3, SweptStatus DEF Owns, Holds, Row
  <2>2. events'[threads[c].event] = row
    BY <1>1, <1>3, SweptTypes DEF ChangeClaim
  <2>3. \A r \in Revisions : r # threads[c].event => events'[r] = Swept(events)[r]
    BY <1>1, <1>3, SweptTypes DEF ChangeClaim
  <2> QED BY <1>1, <2>1, <2>2, <2>3, SweptStatus DEF Moves
<1> QED BY <1>2, <1>3

LEMMA CloseMoves ==
  ASSUME Typed, Accounted, NEW c \in Consumers,
         Settle(c) \/ Drop(c) \/ RetryLater(c) \/ Rescue(c)
  PROVE  \A r \in Revisions : Moves(r)
<1>1. threads[c].at # "idle" /\ Row(c) \in Events
  BY RowType DEF Settle, Drop, RetryLater, Rescue
<1>2. ASSUME NEW note, ChangeClaim(c, FinishedRow(Row(c), Outcome(note), Known(note))),
             wordings' = wordings,
             note \in {"sent", "dry_run"} =>
                wordings[threads[c].event].delivery \in {"sent", "dry_run"}
      PROVE  \A r \in Revisions : Moves(r)
  <2> DEFINE row == FinishedRow(Row(c), Outcome(note), Known(note))
  <2>1. row \in Events /\ row.status = Outcome(note)
    BY <1>1, OutcomeTypes, FinishedTypes DEF FinishedRow, Events
  <2> HIDE DEF row
  <2> QED BY <1>1, <1>2, <2>1, OutcomeMeans, ChangeMoves DEF row
<1>3. ASSUME ChangeClaim(c, RetriedRow(Row(c)))
      PROVE  \A r \in Revisions : Moves(r)
  <2> DEFINE row == RetriedRow(Row(c))
  <2>1. row \in Events /\ row.status \in {"pending", "failed"}
    BY <1>1, RetriedTypes DEF RetriedRow, Events
  <2> HIDE DEF row
  <2> QED BY <1>1, <1>3, <2>1, ChangeMoves DEF row
<1>4. CASE Settle(c)
  <2>1. CASE UNCHANGED events
    BY <2>1, SweepMoves
  <2> QED BY <1>2, <1>4, <2>1 DEF Settle, Accounted, Reports
<1>5. CASE Drop(c)
  <2>1. CASE UNCHANGED events
    BY <2>1, SweepMoves
  <2>2. CASE ChangeClaim(c, FinishedRow(Row(c), threads[c].note, Row(c).delivery))
    <3> DEFINE row == FinishedRow(Row(c), threads[c].note, Row(c).delivery)
    <3>1. threads[c].note \in {"stale", "suppressed"} /\ Row(c).delivery \in DeliveryStatuses
      BY <1>1, <1>5 DEF Drop, Typed, Carries, Events
    <3>2. row \in Events /\ row.status \in {"stale", "suppressed"}
      BY <1>1, <3>1, FinishedTypes DEF FinishedRow, Events, EventStatuses, Settled
    <3> HIDE DEF row
    <3> QED BY <1>1, <2>2, <3>2, ChangeMoves DEF row
  <2> QED BY <1>5, <2>1, <2>2 DEF Drop
<1>6. CASE RetryLater(c)
  <2>1. CASE UNCHANGED events
    BY <2>1, SweepMoves
  <2> QED BY <1>3, <1>6, <2>1 DEF RetryLater
<1>7. CASE Rescue(c)
  <2>1. CASE UNCHANGED events
    BY <2>1, SweepMoves
  <2> QED BY <1>2, <1>3, <1>7, <2>1 DEF Rescue
<1> QED BY <1>4, <1>5, <1>6, <1>7

LEMMA ClaimMoves ==
  ASSUME Typed, NEW c \in Consumers, NEW r \in Revisions, Claim(c, r)
  PROVE  \A q \in Revisions : Moves(q)
<1> DEFINE rows == Swept(events)
<1>1. rows \in [Revisions -> Events] /\ events \in [Revisions -> Events]
  BY SweptTypes DEF Typed, TypeOK
<1>2. CASE ~Claimable(rows[r])
  BY <1>2, SweepMoves DEF Claim
<1>3. CASE Claimable(rows[r])
  <2>1. events' = [rows EXCEPT ![r] = ClaimedRow(rows[r])]
    BY <1>3 DEF Claim
  <2>2. /\ rows[r].status \in {"pending", "processing"}
        /\ rows[r] \in Events
        /\ ClaimedRow(rows[r]).status \in {"processing", "failed"}
    <3>1. rows[r].status \in {"pending", "processing"} /\ rows[r] \in Events
      BY <1>1, <1>3 DEF Claimable
    <3> HIDE DEF rows
    <3> QED BY <3>1 DEF ClaimedRow, Events
  <2>3. events[r].status = rows[r].status
    BY <1>1, <2>2, SweptStatus
  <2>4. \A q \in Revisions : q # r => events'[q] = rows[q]
    BY <1>1, <2>1
  <2>5. events'[r] = ClaimedRow(rows[r])
    BY <1>1, <2>1
  <2> QED BY <1>1, <2>2, <2>3, <2>4, <2>5, SweptStatus DEF Moves
<1> QED BY <1>2, <1>3

LEMMA SaveMoves ==
  ASSUME Typed, Unwritten, SaveResult
  PROVE  \A r \in Revisions : Moves(r)
<1> DEFINE n == task.revision + 1
           rows == Appended(events, n)
<1>1. n \in Revisions /\ task.present /\ events \in [Revisions -> Events] /\ n > task.revision
  BY DeliveryAssumption DEF SaveResult, Typed, TypeOK, Revisions
<1>2. /\ rows \in [Revisions -> Events]
      /\ rows[n].status = "pending"
      /\ \A r \in Revisions : r # n => rows[r] = events[r]
  BY <1>1 DEF Appended, Events, EventStatuses, Unresolved
<1>3. events[n].status = "none"
  BY <1>1 DEF Unwritten
<1>4. events' = Swept(rows)
  BY DEF SaveResult
<1> HIDE DEF rows
<1> QED BY <1>1, <1>2, <1>3, <1>4, SweptStatus DEF Moves

LEMMA EventStep ==
  ASSUME Typed, Accounted, [Next]_vars
  PROVE  \A r \in Revisions : Moves(r)
<1>1. CASE SaveResult
  BY <1>1, SaveMoves DEF Accounted
<1>2. CASE SaveProgress \/ Prune \/ HostChanges \/ UNCHANGED vars
  BY <1>2, SweepMoves DEF SaveProgress, Prune, HostChanges, Sweep, vars
<1>3. ASSUME NEW r \in Revisions, Time(r)
      PROVE  \A q \in Revisions : Moves(q)
  <2>1. \A q \in Revisions : events'[q].status = events[q].status
    BY <1>3 DEF Time, LeaseEnds, GenerationOverdue, RetentionEnds, Typed, TypeOK, Events
  <2> QED BY <2>1 DEF Moves
<1>4. ASSUME NEW c \in Consumers, Work(c) \/ Crash(c)
      PROVE  \A r \in Revisions : Moves(r)
  <2>1. CASE Settle(c) \/ Drop(c) \/ RetryLater(c) \/ Rescue(c)
    BY <2>1, CloseMoves
  <2> QED BY <1>4, <2>1, SweepMoves DEF Work, Crash, Check, Prepare, Open, Recover,
             Generate, Store, Publish, Reserve, Recheck, Send, Record, Withhold
<1> QED BY <1>1, <1>2, <1>3, <1>4, ClaimMoves DEF Next

(* What a step may do to the ledger row.                                   *)
LEMMA LedgerStep ==
  ASSUME Typed, [Next]_vars
  PROVE  /\ task.revision \in Nat /\ task'.revision \in Nat
         /\ task'.revision >= task.revision
         /\ SaveResult => task'.revision = task.revision + 1
         /\ task.present =>
               task'.present \/ \A r \in Revisions : events'[r].status \notin Unresolved
         /\ task'.present => task.present
<1>1. task \in [present : BOOLEAN, revision : 0..MaxRevision, result : 0..MaxRevision]
  BY DEF Typed, TypeOK
<1>2. task.revision \in Nat
  BY <1>1, DeliveryAssumption
<1>3. CASE SaveResult
  <2>1. task'.revision = task.revision + 1 /\ task'.present = task.present
    BY <1>1, <1>3 DEF SaveResult
  <2> QED BY <1>2, <1>3, <2>1
<1>4. CASE SaveProgress
  <2>1. task'.revision = task.revision + 1 /\ task'.present = task.present
    BY <1>1, <1>4 DEF SaveProgress
  <2>2. task.revision = task.revision + 1 => FALSE
    BY <1>2
  <2>3. SaveResult => task'.revision = task.revision + 1
    BY <2>1
  <2> QED BY <1>2, <2>1, <2>3
<1>5. CASE Prune
  <2>1. task'.revision = task.revision /\ task'.present = FALSE
    BY <1>1, <1>5 DEF Prune
  <2>2. \A r \in Revisions : events'[r].status \notin Unresolved
    BY <1>5 DEF Prune, Pinned
  <2>3. SaveResult => task'.revision = task.revision + 1
    BY <1>1 DEF SaveResult
  <2> QED BY <1>2, <2>1, <2>2, <2>3
<1>6. CASE task' = task
  <2>1. SaveResult => task'.revision = task.revision + 1
    BY <1>1 DEF SaveResult
  <2> QED BY <1>2, <1>6, <2>1
<1> QED BY <1>3, <1>4, <1>5, <1>6 DEF Next, vars, HostChanges, Claim, Time, LeaseEnds,
    GenerationOverdue, RetentionEnds, Work, Crash, Check, Prepare, Open, Recover, Generate,
    Store, Publish, Reserve, Recheck, Send, Record, Withhold, Settle, Drop, RetryLater, Rescue

(* A consumer that goes on to settle carries what the archive says.        *)
LEMMA FollowReports ==
  ASSUME Typed, NEW c \in Consumers, NEW w, Follow(c, w),
         wordings' = [wordings EXCEPT ![threads[c].event] = w],
         threads[c].event \in Revisions
  PROVE  Reports(c)'
<1>1. wordings'[threads[c].event] = w
  BY DEF Typed, TypeOK
<1>2. CASE Goto(c, "retry", "none") \/ Goto(c, "drop", "suppressed") \/ Goto(c, "publish", "none")
  BY <1>2, GotoEffect DEF Reports
<1>3. CASE Goto(c, "settle", w.delivery)
  <2>1. threads'[c].event = threads[c].event /\ threads'[c].note = w.delivery
    BY <1>3, GotoEffect
  <2> QED BY <1>1, <2>1 DEF Reports
<1> QED BY <1>2, <1>3 DEF Follow

LEMMA ReportStep ==
  ASSUME Typed, Published, NEW c \in Consumers, Work(c)
  PROVE  /\ \A d \in Consumers : d # c => threads'[d] = threads[d]
         /\ threads'[c] = threads[c] \/ Reports(c)'
<1> DEFINE r == threads[c].event
<1>1. CASE Check(c) \/ Prepare(c) \/ Generate(c) \/ Publish(c) \/ Recheck(c)
  BY <1>1, GotoEffect DEF Check, Prepare, Generate, Publish, Recheck, Reports
<1>2. CASE Open(c) \/ Reserve(c) \/ Withhold(c)
  BY <1>2, GotoEffect DEF Open, Reserve, Withhold, Reports
<1>3. CASE Send(c)
  BY <1>3, GotoEffect DEF Send, Reports
<1>4. CASE Settle(c) \/ Drop(c) \/ RetryLater(c) \/ Rescue(c)
  BY <1>4, GotoEffect, LeaveEffect DEF Settle, Drop, RetryLater, Rescue, Reports
<1>5. CASE Recover(c)
  <2>1. r \in Revisions
    BY <1>5 DEF Recover, Typed, Carries
  <2>2. CASE Goto(c, "rescue", "none")
    BY <2>2, GotoEffect DEF Reports
  <2>3. CASE /\ wordings' = [wordings EXCEPT ![r] = Recovered(wordings[r])]
             /\ Follow(c, Recovered(wordings[r]))
    BY <2>1, <2>3, FollowReports, FollowEffect
  <2> QED BY <1>5, <2>2, <2>3 DEF Recover
<1>6. CASE Store(c)
  <2>1. r \in Revisions
    BY <1>6 DEF Store, Typed, Carries
  <2>2. CASE Goto(c, "retry", "none")
    BY <2>2, GotoEffect DEF Reports
  <2>3. ASSUME NEW status,
               wordings' = [wordings EXCEPT ![r] = StoredWording(@, status)],
               Follow(c, StoredWording(wordings[r], status))
        PROVE  /\ \A d \in Consumers : d # c => threads'[d] = threads[d]
               /\ Reports(c)'
    BY <2>1, <2>3, FollowReports, FollowEffect
  <2> QED BY <1>6, <2>2, <2>3 DEF Store
<1>7. CASE Record(c)
  <2>1. /\ r \in Revisions /\ threads[c].at = "receipt" /\ Holder(c, r)
        /\ wordings[r] \in Wordings
    BY <1>7 DEF Record, Typed, TypeOK, Carries, Holder, Publishing
  <2>2. wordings[r].delivery \in {"sending", "uncertain"} /\ threads[c].note \in Receipts
    BY <2>1 DEF Published, HolderOK, Honest
  <2>3. PICK w \in {wordings[r], Receipted(wordings[r], threads[c].note)} :
            /\ wordings' = [wordings EXCEPT ![r] = w]
            /\ Goto(c, "settle", IF w.delivery = "not_sent" THEN threads[c].note
                                                            ELSE w.delivery)
    <3>1. wordings = [wordings EXCEPT ![r] = wordings[r]]
      BY <2>1 DEF Typed, TypeOK
    <3> QED BY <1>7, <3>1 DEF Record
  <2>4. w.delivery # "not_sent"
    BY <2>1, <2>2, <2>3 DEF Receipted, Wordings, Receipts
  <2>5. Goto(c, "settle", w.delivery)
    BY <2>3, <2>4
  <2>6. /\ threads'[c].event = r /\ threads'[c].note = w.delivery
        /\ \A d \in Consumers : d # c => threads'[d] = threads[d]
    BY <2>5, GotoEffect
  <2>7. wordings'[r] = w
    BY <2>1, <2>3 DEF Typed, TypeOK
  <2> QED BY <2>6, <2>7 DEF Reports
<1> QED BY <1>1, <1>2, <1>3, <1>4, <1>5, <1>6, <1>7 DEF Work

LEMMA ReportsInductive ==
  ASSUME Typed, Published, Accounted, [Next]_vars
  PROVE  \A c \in Consumers : Reports(c)'
<1>1. ASSUME NEW c \in Consumers, threads'[c] = threads[c]
      PROVE  Reports(c)'
  <2>1. CASE threads[c].at # "settle"
    BY <1>1, <2>1 DEF Reports
  <2>2. CASE threads[c].at = "settle"
    <3>1. threads[c].event \in Revisions
      BY <2>2 DEF Typed, Carries
    <3>2. Delivers(threads[c].event)
      BY <3>1, DeliveryStep
    <3> QED BY <1>1, <3>2 DEF Reports, Delivers, Accounted
  <2> QED BY <2>1, <2>2
<1>2. ASSUME NEW c \in Consumers, Work(c), NEW d \in Consumers
      PROVE  Reports(d)'
  BY <1>1, <1>2, ReportStep
<1>3. ASSUME NEW c \in Consumers, Crash(c), NEW d \in Consumers
      PROVE  Reports(d)'
  BY <1>1, <1>3, LeaveEffect DEF Crash, Reports
<1>4. ASSUME NEW c \in Consumers, NEW r \in Revisions, Claim(c, r), NEW d \in Consumers
      PROVE  Reports(d)'
  <2>1. threads'[d] = threads[d] \/ threads'[d].at = "claimed"
    BY <1>4 DEF Claim, Typed, TypeOK
  <2> QED BY <1>1, <2>1 DEF Reports
<1>5. CASE UNCHANGED threads
  BY <1>1, <1>5
<1> QED BY <1>2, <1>3, <1>4, <1>5 DEF Next, vars, SaveResult, SaveProgress, Prune,
           HostChanges, Time, LeaseEnds, GenerationOverdue, RetentionEnds

LEMMA AccountedInductive ==
  ASSUME Typed, Published, Accounted, [Next]_vars
  PROVE  Accounted'
<1>1. ASSUME NEW r \in Revisions
      PROVE  /\ Truthful(r)'
             /\ r > task'.revision => events'[r].status = "none"
             /\ events'[r].status = "done" =>
                   \/ wordings'[r].delivery = "sent" /\ sent'[r] = 1
                   \/ wordings'[r].delivery = "dry_run" /\ sent'[r] = 0
             /\ events'[r].status \in Unresolved => task'.present
  <2>1. Delivers(r) /\ Moves(r)
    BY DeliveryStep, EventStep
  <2>2. Truthful(r) /\ (r > task.revision => events[r].status = "none")
    BY DEF Accounted, Unwritten
  <2>3. Truthful(r)'
    BY <2>1, <2>2 DEF Delivers, Truthful
  <2>4. r > task'.revision => events'[r].status = "none"
    <3>1. SUFFICES ASSUME r > task'.revision PROVE events'[r].status = "none"
      OBVIOUS
    <3>2. r \in Nat /\ r > task.revision /\ events[r].status = "none"
      BY <2>2, <3>1, LedgerStep DEF Revisions
    <3>3. CASE events'[r].status = events[r].status
      BY <3>2, <3>3
    <3>4. CASE events'[r].status # events[r].status
      <4>1. SaveResult /\ r = task.revision + 1
        BY <2>1, <3>2, <3>4 DEF Moves, Unresolved
      <4> QED BY <3>1, <3>2, <4>1, LedgerStep
    <3> QED BY <3>3, <3>4
  <2>5. events'[r].status = "done" =>
           \/ wordings'[r].delivery = "sent" /\ sent'[r] = 1
           \/ wordings'[r].delivery = "dry_run" /\ sent'[r] = 0
    <3>1. events[r].status = "done" =>
           \/ wordings[r].delivery = "sent" /\ sent[r] = 1
           \/ wordings[r].delivery = "dry_run" /\ sent[r] = 0
      BY DEF Accounted, AccountIsTrue, DoneMeansDelivered
    <3> QED BY <2>1, <2>2, <2>3, <3>1 DEF Moves, Delivers, Truthful
  <2>6. events'[r].status \in Unresolved => task'.present
    <3>1. events[r].status \in Unresolved => task.present
      BY DEF Accounted, AccountIsTrue, UnresolvedIsPinned
    <3> QED BY <2>1, <3>1, LedgerStep DEF Moves, Unresolved, SaveResult
  <2> QED BY <2>3, <2>4, <2>5, <2>6
<1>2. \A c \in Consumers : Reports(c)'
  BY ReportsInductive
<1> QED BY <1>1, <1>2 DEF Accounted, Unwritten, AccountIsTrue, DoneMeansDelivered,
           UnresolvedIsPinned

(* AccountIsTrue with what it rests on.                                    *)
THEOREM AccountInductive == IInv /\ Accounted /\ [Next]_vars => Accounted'
BY AccountedInductive DEF IInv

(* Accounted holds in every reachable state.                               *)
THEOREM AccountInvariance == Spec => []Accounted
<1>1. Init => Accounted
  BY DEF Init, Accounted, Truthful, Reports, Unwritten, AccountIsTrue, DoneMeansDelivered,
         UnresolvedIsPinned, Idle, NoEvent, NoWording, Unresolved
<1> QED BY <1>1, AccountInductive, DeliveryInvariance, PTL DEF Spec

(* What the outbox says can be relied on, in every reachable state: finish *)
(* marks an event done only after a receipt that says the message was      *)
(* delivered (or a dry run), however late the consumer is, and a ledger is *)
(* pruned only when nothing of it is unresolved.                           *)
THEOREM AccountStaysTrue == Spec => []AccountIsTrue
<1>1. Accounted => AccountIsTrue
  BY DEF Accounted
<1> QED BY <1>1, AccountInvariance, PTL

-----------------------------------------------------------------------------
(* archive.finish and recover_interrupted write a text only over           *)
(* "processing".                                                           *)
LEMMA TextStep ==
  ASSUME Typed, [Next]_vars
  PROVE  \A r \in Revisions :
            wordings[r].status \in Texts => wordings'[r].status = wordings[r].status
<1>1. ASSUME NEW c \in Consumers, Work(c)
      PROVE  \A r \in Revisions :
                wordings[r].status \in Texts => wordings'[r].status = wordings[r].status
  <2> DEFINE q == threads[c].event
  <2>1. q \in Revisions /\ wordings[q] \in Wordings
    BY <1>1 DEF Work, Check, Prepare, Open, Recover, Generate, Store, Publish, Reserve,
       Recheck, Send, Record, Withhold, Settle, Drop, RetryLater, Rescue, Typed, TypeOK, Carries
  <2>2. CASE Open(c)
    BY <2>1, <2>2 DEF Open, Typed, TypeOK, Wordings, Texts
  <2>3. CASE Recover(c)
    <3>1. wordings[q].status \in Texts => Recovered(wordings[q]).status = wordings[q].status
      BY <2>1 DEF Recovered, Wordings, Texts
    <3> QED BY <2>1, <2>3, <3>1 DEF Recover, Typed, TypeOK
  <2>4. CASE Store(c)
    <3>1. \A status : wordings[q].status \in Texts => StoredWording(wordings[q], status) = wordings[q]
      BY DEF StoredWording, Texts
    <3>2. PICK status : \/ wordings' = wordings
                        \/ wordings' = [wordings EXCEPT ![q] = StoredWording(@, status)]
      BY <2>4 DEF Store
    <3> QED BY <2>1, <3>1, <3>2 DEF Typed, TypeOK
  <2>5. CASE Reserve(c) \/ Record(c) \/ Withhold(c)
    <3>1. \A receipt : Receipted(wordings[q], receipt).status = wordings[q].status
      BY <2>1 DEF Receipted, Wordings
    <3>2. CASE Reserve(c)
      BY <2>1, <3>2 DEF Reserve, Typed, TypeOK, Wordings
    <3>3. CASE Record(c) \/ Withhold(c)
      <4>1. PICK receipt : \/ wordings' = wordings
                          \/ wordings' = [wordings EXCEPT ![q] = Receipted(@, receipt)]
        BY <3>3 DEF Record, Withhold
      <4> QED BY <2>1, <3>1, <4>1 DEF Typed, TypeOK
    <3> QED BY <2>5, <3>2, <3>3
  <2>6. CASE UNCHANGED wordings
    BY <2>6
  <2> QED BY <1>1, <2>2, <2>3, <2>4, <2>5, <2>6 DEF Work, Check, Prepare, Generate,
             Publish, Recheck, Send, Settle, Drop, RetryLater, Rescue
<1>2. ASSUME NEW r \in Revisions, Time(r)
      PROVE  \A q \in Revisions : wordings'[q].status = wordings[q].status
  BY <1>2 DEF Time, LeaseEnds, GenerationOverdue, RetentionEnds, Typed, TypeOK, Wordings
<1>3. CASE UNCHANGED wordings
  BY <1>3
<1> QED BY <1>1, <1>2, <1>3 DEF Next, vars, SaveResult, SaveProgress, Prune, HostChanges,
           Claim, Crash

(* Neither the event of a result nor its text is taken back: a consumer    *)
(* that lost its lease, a model answer after the fallback, a second        *)
(* recovery and the retention sweep leave what is settled as it is.        *)
THEOREM NothingTakenBack == Spec => NothingIsTakenBack
<1>1. ASSUME Typed, Accounted, [Next]_vars, NEW r \in Revisions
      PROVE  LET old == events[r].status  new == events'[r].status IN
             /\ old \in Settled => new = old
             /\ old \in {"failed", "uncertain"} => new \in {old, "expired"}
  BY <1>1, EventStep DEF Moves, Settled, Unresolved
<1>2. ASSUME Typed, [Next]_vars, NEW r \in Revisions
      PROVE  wordings[r].status \in {"ready", "fallback", "discarded", "retryable"}
                => wordings'[r].status = wordings[r].status
  BY <1>2, TextStep DEF Texts
<1>3. IInv /\ Accounted /\ [Next]_vars =>
         /\ [\A r \in Revisions :
               LET old == events[r].status  new == events'[r].status IN
               /\ old \in Settled => new = old
               /\ old \in {"failed", "uncertain"} => new \in {old, "expired"}]_vars
         /\ [\A r \in Revisions :
               wordings[r].status \in {"ready", "fallback", "discarded", "retryable"}
                  => wordings'[r].status = wordings[r].status]_vars
  BY <1>1, <1>2 DEF IInv
<1> QED BY <1>3, DeliveryInvariance, AccountInvariance, PTL
        DEF Spec, NothingIsTakenBack, SettledIsFinal, TextIsFinal

-----------------------------------------------------------------------------
(* The refinement of AtMostOncePublication *)

LEMMA QuietStutters ==
  ASSUME Quiet
  PROVE  UNCHANGED Promise!vars
BY DEF Quiet, Promise!vars, Account

LEMMA ReserveBegins ==
  ASSUME Typed, Published, NEW c \in Consumers, Reserve(c)
  PROVE  [Promise!Next]_(Promise!vars)
<1> DEFINE r == threads[c].event
<1>1. r \in Revisions
  BY DEF Reserve, Typed, Carries
<1>2. CASE wordings' = wordings
  BY <1>2 DEF Reserve, Promise!vars
<1>3. CASE Reservable(wordings[r]) /\ wordings' = [wordings EXCEPT ![r].delivery = "sending"]
  <2>1. /\ wordings[r].delivery = "not_sent" /\ wordings'[r].delivery = "sending"
        /\ \A q \in Revisions : q # r => wordings'[q] = wordings[q]
    BY <1>1, <1>3 DEF Reservable, Typed, TypeOK, Wordings
  <2>2. /\ Account(wordings[r]) = "none" /\ Account(wordings'[r]) = "begun"
    BY <2>1 DEF Account
  <2>3. Promise!Begin(r)
    BY <1>1, <2>1, <2>2 DEF Reserve, Promise!Begin
  <2> QED BY <1>1, <2>3 DEF Promise!Next
<1> QED BY <1>2, <1>3 DEF Reserve

LEMMA SendTransmits ==
  ASSUME Typed, Published, NEW c \in Consumers, Send(c)
  PROVE  [Promise!Next]_(Promise!vars)
<1>0. PICK r \in Revisions : r = threads[c].event
  BY DEF Send, Typed, Carries
<1>1. r \in Revisions /\ Holder(c, r) /\ threads[c].at = "send"
  BY <1>0 DEF Send, Holder, Publishing
<1>2. sent[r] = 0 /\ wordings[r].delivery \in {"sending", "uncertain"}
  BY <1>1 DEF Published, HolderOK
<1>3. PICK n \in {0, 1} : sent' = [sent EXCEPT ![r] = @ + n]
  BY <1>0 DEF Send
<1>4. \A q \in Revisions : sent'[q] = IF q = r THEN n ELSE sent[q]
  BY <1>1, <1>2, <1>3 DEF Typed, TypeOK
<1>5. wordings' = wordings
  BY DEF Send
<1>6. CASE n = 0
  BY <1>2, <1>4, <1>5, <1>6 DEF Promise!vars
<1>7. CASE n = 1
  <2>1. Account(wordings[r]) \in {"begun", "unknown"}
    BY <1>2 DEF Account
  <2>2. Promise!Transmit(r)
    <3>1. r \notin {q \in Revisions : sent[q] > 0}
      BY <1>2
    <3>2. {q \in Revisions : sent'[q] > 0} = {q \in Revisions : sent[q] > 0} \cup {r}
      BY <1>1, <1>2, <1>4, <1>7
    <3> QED BY <1>1, <1>5, <2>1, <3>1, <3>2 DEF Promise!Transmit
  <2> QED BY <1>1, <2>2 DEF Promise!Next
<1> QED BY <1>6, <1>7

(* A new delivery of r that was being sent closes its account, honestly.   *)
LEMMA Concludes ==
  ASSUME Typed, NEW r \in Revisions, NEW w \in Wordings,
         wordings' = [wordings EXCEPT ![r] = w], sent' = sent,
         \/ w.delivery = wordings[r].delivery
         \/ /\ wordings[r].delivery = "sending"
            /\ w.delivery \notin {"not_sent", "sending"}
            /\ w.delivery = "sent" => sent[r] > 0
            /\ w.delivery \in {"suppressed", "dry_run"} => ~(sent[r] > 0)
  PROVE  [Promise!Next]_(Promise!vars)
<1>1. \A q \in Revisions : wordings'[q] = IF q = r THEN w ELSE wordings[q]
  BY DEF Typed, TypeOK
<1>2. CASE w.delivery = wordings[r].delivery
  BY <1>1, <1>2 DEF Promise!vars, Account
<1>3. CASE w.delivery # wordings[r].delivery
  <2>1. Account(wordings[r]) = "begun"
    BY <1>3 DEF Account
  <2>2. Account(w) \in {"delivered", "withheld", "unknown"}
    BY <1>3 DEF Account
  <2>3. /\ Account(w) = "delivered" => sent[r] > 0
        /\ Account(w) = "withheld" => ~(sent[r] > 0)
    BY <1>3 DEF Account
  <2>4. Promise!Conclude(r)
    <3> DEFINE acct == [q \in Revisions |-> Account(wordings[q])]
    <3>1. acct' = [acct EXCEPT ![r] = Account(w)]
      <4>1. \A q \in Revisions : Account(wordings[q])' = IF q = r THEN Account(w)
                                                         ELSE Account(wordings[q])
        BY <1>1 DEF Account
      <4>2. acct' = [q \in Revisions |-> Account(wordings[q])']
        OBVIOUS
      <4> QED BY <4>1, <4>2
    <3>2. acct[r] = "begun"
      BY <2>1
    <3>3. /\ Account(w) = "delivered" => r \in {q \in Revisions : sent[q] > 0}
          /\ Account(w) = "withheld" => r \notin {q \in Revisions : sent[q] > 0}
      BY <2>3
    <3> HIDE DEF acct
    <3> QED BY <2>2, <3>1, <3>2, <3>3 DEF Promise!Conclude, acct
  <2> QED BY <2>4 DEF Promise!Next
<1> QED BY <1>2, <1>3

LEMMA ReceiptConcludes ==
  ASSUME Typed, Published, NEW c \in Consumers, Record(c) \/ Withhold(c)
  PROVE  [Promise!Next]_(Promise!vars)
<1> DEFINE r == threads[c].event
<1>1. /\ r \in Revisions /\ Holder(c, r) /\ wordings[r] \in Wordings
      /\ Record(c) => threads[c].at = "receipt"
      /\ Withhold(c) => threads[c].at = "withhold"
  BY DEF Record, Withhold, Typed, TypeOK, Carries, Holder, Publishing
<1>2. sent' = sent
  BY DEF Record, Withhold
<1>3. CASE wordings' = wordings
  BY <1>2, <1>3 DEF Promise!vars
<1>4. CASE Record(c) /\ wordings' = [wordings EXCEPT ![r] = Receipted(@, threads[c].note)]
  <2>1. Honest(threads[c].note, sent[r])
    BY <1>1, <1>4 DEF Published, HolderOK
  <2>2. Receipted(wordings[r], threads[c].note) \in Wordings
    BY <1>1, <2>1, ReceiptedTypes DEF Honest, DeliveryStatuses
  <2>3. Receipted(wordings[r], threads[c].note).delivery =
            IF wordings[r].delivery = "sending" THEN threads[c].note
                                                ELSE wordings[r].delivery
    BY <1>1 DEF Receipted, Wordings
  <2>4. /\ threads[c].note \notin {"not_sent", "sending"}
        /\ threads[c].note = "sent" => sent[r] > 0
        /\ threads[c].note \in {"suppressed", "dry_run"} => ~(sent[r] > 0)
    BY <2>1 DEF Honest, Receipts
  <2> DEFINE w == Receipted(wordings[r], threads[c].note)
  <2>5. wordings' = [wordings EXCEPT ![r] = w]
    BY <1>4
  <2> HIDE DEF w
  <2> QED BY <1>1, <1>2, <2>2, <2>3, <2>4, <2>5, Concludes DEF w
<1>5. CASE Withhold(c) /\ wordings' = [wordings EXCEPT ![r] = Receipted(@, "suppressed")]
  <2>1. sent[r] = 0
    BY <1>1, <1>5 DEF Published, HolderOK
  <2>2. Receipted(wordings[r], "suppressed") \in Wordings
    BY <1>1, ReceiptedTypes DEF DeliveryStatuses, Receipts
  <2>3. Receipted(wordings[r], "suppressed").delivery =
            IF wordings[r].delivery = "sending" THEN "suppressed"
                                                ELSE wordings[r].delivery
    BY <1>1 DEF Receipted, Wordings
  <2> DEFINE w == Receipted(wordings[r], "suppressed")
  <2>4. wordings' = [wordings EXCEPT ![r] = w]
    BY <1>5
  <2>5. /\ "suppressed" \notin {"not_sent", "sending"}
        /\ "suppressed" # "sent"
        /\ ~(sent[r] > 0)
    BY <2>1
  <2>6. w \in Wordings /\ w.delivery = IF wordings[r].delivery = "sending"
                                       THEN "suppressed" ELSE wordings[r].delivery
    BY <2>2, <2>3
  <2> HIDE DEF w
  <2>7. CASE wordings[r].delivery = "sending"
    BY <1>1, <1>2, <2>4, <2>5, <2>6, <2>7, Concludes
  <2>8. CASE wordings[r].delivery # "sending"
    BY <1>1, <1>2, <2>4, <2>6, <2>8, Concludes
  <2> QED BY <2>7, <2>8
<1> QED BY <1>3, <1>4, <1>5 DEF Record, Withhold

LEMMA RecoverConcludes ==
  ASSUME Typed, NEW c \in Consumers, Recover(c)
  PROVE  [Promise!Next]_(Promise!vars)
<1> DEFINE r == threads[c].event
           w == Recovered(wordings[r])
<1>1. r \in Revisions /\ wordings[r] \in Wordings
  BY DEF Recover, Typed, TypeOK, Carries
<1>2. sent' = sent
  BY DEF Recover
<1>3. CASE wordings' = wordings
  BY <1>2, <1>3 DEF Promise!vars
<1>4. CASE wordings' = [wordings EXCEPT ![r] = w]
  <2>1. w \in Wordings
    BY <1>1, RecoveredTypes
  <2>2. w.delivery = IF wordings[r].delivery = "sending" THEN "uncertain"
                                                         ELSE wordings[r].delivery
    BY <1>1, RecoveredDelivery
  <2> HIDE DEF w
  <2> QED BY <1>1, <1>2, <1>4, <2>1, <2>2, Concludes
<1> QED BY <1>3, <1>4 DEF Recover

LEMMA StepImplements ==
  ASSUME Typed, Published, [Next]_vars
  PROVE  [Promise!Next]_(Promise!vars)
<1>1. CASE UNCHANGED vars
  BY <1>1, QuietStutters DEF vars, Quiet
<1>2. ASSUME NEW c \in Consumers, Work(c) \/ Crash(c)
      PROVE  [Promise!Next]_(Promise!vars)
  <2>1. CASE Recheck(c)
    BY <2>1 DEF Recheck, Promise!vars
  <2> QED BY <1>2, <2>1, QuietActions, QuietStutters, ReserveBegins, SendTransmits,
             ReceiptConcludes, RecoverConcludes DEF Work
<1> QED BY <1>1, <1>2, QuietSurroundings, QuietStutters DEF Next

(* The outbox, the archive, their consumers and the QQ publisher keep the  *)
(* promise of AtMostOncePublication: one publication at most, and an       *)
(* account of it that is never wrong about what left.                      *)
THEOREM Implements == Spec => KeepsPromise
<1>1. Init => Promise!Init
  <2> SUFFICES ASSUME Init PROVE Promise!Init
    OBVIOUS
  <2>1. \A r \in Revisions : Account(wordings[r]) = "none"
    BY DEF Init, Account, NoWording
  <2>2. {r \in Revisions : sent[r] > 0} = {}
    BY DEF Init
  <2> QED BY <2>1, <2>2 DEF Promise!Init
<1>2. IInv /\ [Next]_vars => [Promise!Next]_(Promise!vars)
  BY StepImplements DEF IInv
<1> QED BY <1>1, <1>2, DeliveryInvariance, PTL DEF Spec, KeepsPromise, Promise!Spec
=============================================================================
