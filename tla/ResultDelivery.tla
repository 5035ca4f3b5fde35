--------------------------- MODULE ResultDelivery ---------------------------
(***************************************************************************)
(* How a finished task's result reaches the user at most once.             *)
(*                                                                         *)
(*   shinku/agent/task_state.py           the ledger row, its revision     *)
(*   shinku/agent_runtime/result_events.py  the outbox in the same database *)
(*   shinku/result_expression/archive.py  the wording and its receipt      *)
(*   shinku/result_expression/events.py   a consumer of one event          *)
(*   shinku/qq/result_expression.py       the publisher it calls           *)
(*                                                                         *)
(* One ledger is modelled; its results are named by the revision that      *)
(* sealed them.  Every SQLite transaction is one step, and so is every     *)
(* guard (its reads only ever get staler).  Consumers are threads of any   *)
(* process that opens the database: they crash alone or together.  Hashes, *)
(* wording and material projections are abstracted; time is the three      *)
(* deadlines that can pass: lease, generation, retention.                  *)
(***************************************************************************)
EXTENDS Naturals, FiniteSets, TLC

CONSTANTS Consumers,    \* threads running ResultEventConsumer.consume
          MaxRevision,  \* bound on the ledger's revision
          MaxAttempts,  \* ResultEventStore.max_attempts
          MaxEntries,   \* ResultEventStore.max_entries
          Faults        \* may reads and writes of the database raise?

ASSUME DeliveryAssumption ==
    /\ MaxRevision \in Nat \ {0}
    /\ MaxAttempts \in Nat \ {0}
    /\ MaxEntries \in Nat \ {0}
    /\ Faults \in BOOLEAN

Revisions == 1..MaxRevision

Unresolved == {"pending", "processing", "failed", "uncertain"}
Settled == {"done", "stale", "suppressed"}
EventStatuses == {"none", "expired"} \cup Unresolved \cup Settled

(* What publication of a wording came to.                                  *)
Receipts == {"sent", "failed", "uncertain", "partial", "dry_run", "suppressed"}
DeliveryStatuses == {"not_sent", "sending"} \cup Receipts

Events == [status : EventStatuses, attempts : 0..MaxAttempts,
           lease : BOOLEAN, old : BOOLEAN, delivery : DeliveryStatuses]

(* "retryable": discarded because the host's state could not be read.      *)
WordingStatuses ==
    {"none", "processing", "ready", "fallback", "discarded", "retryable"}

Wordings == [status : WordingStatuses, due : BOOLEAN,
             delivery : DeliveryStatuses]

(* Where a consumer is, the event it claimed, the claim's number, and what *)
(* it carries to its next step.                                            *)
Steps == {"idle", "claimed", "prepare", "open", "recover", "generate",
          "store", "publish", "reserve", "reserved", "send", "receipt",
          "withhold", "settle", "retry", "drop", "rescue"}

Threads == [at : Steps, event : {0} \cup Revisions, claim : 0..MaxAttempts,
            note : Receipts \cup WordingStatuses \cup {"stale", "sending"}]

VARIABLES task,      \* the ledger row: present, revision, revision of its result
          events,    \* agent_result_events, by revision
          wordings,  \* agent_result_expressions, by revision
          threads,   \* the consumers
          host,      \* does the host still authorize this publication?
          sent,      \* outside world: times a result was put on the wire
          calls      \* outside world: model calls bought for a wording

vars == <<task, events, wordings, threads, host, sent, calls>>

Idle == [at |-> "idle", event |-> 0, claim |-> 0, note |-> "none"]

NoEvent == [status |-> "none", attempts |-> 0, lease |-> FALSE, old |-> FALSE,
            delivery |-> "not_sent"]

NoWording == [status |-> "none", due |-> FALSE, delivery |-> "not_sent"]

Init == /\ task = [present |-> TRUE, revision |-> 0, result |-> 0]
        /\ events = [r \in Revisions |-> NoEvent]
        /\ wordings = [r \in Revisions |-> NoWording]
        /\ threads = [c \in Consumers |-> Idle]
        /\ host = "ok"
        /\ sent = [r \in Revisions |-> 0]
        /\ calls = [r \in Revisions |-> 0]

-----------------------------------------------------------------------------
(* The outbox *)

(* _expire: opens every transaction of the outbox.                         *)
Swept(rows) ==
    [r \in Revisions |->
        IF rows[r].old /\ rows[r].status \in Unresolved
        THEN [rows[r] EXCEPT !.status = "expired", !.lease = FALSE]
        ELSE rows[r]]

Sweep == events' = Swept(events)

(* The row still belongs to this consumer's claim.                         *)
Holds(c, row) == /\ row.status = "processing"
                 /\ row.attempts = threads[c].claim
                 /\ row.lease

Row(c) == Swept(events)[threads[c].event]

Owns(c) == Holds(c, Row(c))

(* Mutant: a publication of unknown outcome is claimed again.              *)
ClaimableAgain(row) == row.status \in {"pending", "uncertain"}

(* claim: a pending event, or one whose holder let its lease run out.      *)
Claimable(row) == \/ row.status = "pending"
                  \/ row.status = "processing" /\ ~row.lease

(* Mutant: the claim budget is not looked at.                              *)
ClaimedAlways(row) == [row EXCEPT !.status = "processing", !.lease = TRUE,
                                  !.attempts = @ + 1]

(* A claim spends one attempt; without one left the event has failed.      *)
ClaimedRow(row) ==
    IF row.attempts >= MaxAttempts
    THEN [row EXCEPT !.status = "failed", !.lease = FALSE]
    ELSE [row EXCEPT !.status = "processing", !.lease = TRUE,
                     !.attempts = @ + 1]

(* finish and retry, under the claim.                                      *)
FinishedRow(row, status, delivery) ==
    [row EXCEPT !.status = status, !.delivery = delivery, !.lease = FALSE]

RetriedRow(row) ==
    [row EXCEPT !.status = IF row.attempts < MaxAttempts THEN "pending"
                                                         ELSE "failed",
                !.lease = FALSE]

(* _change_claim: the sweep, then the change if the claim is still ours.   *)
ChangeClaim(c, row) ==
    events' = IF Owns(c) THEN [Swept(events) EXCEPT ![threads[c].event] = row]
                         ELSE Swept(events)

-----------------------------------------------------------------------------
(* The wordings *)

(* Mutant: a late answer replaces the text that was kept.                  *)
StoredLate(w, status) == [w EXCEPT !.status = status]

(* archive.finish: never replaces a wording that is already settled.       *)
StoredWording(w, status) ==
    IF w.status = "processing" THEN [w EXCEPT !.status = status] ELSE w

(* archive.reserve_delivery.                                               *)
Reservable(w) == /\ w.status \in {"ready", "fallback"}
                 /\ w.delivery = "not_sent"

(* Mutant: an overdue generation is simply started again.                  *)
RecoveredAnew(w) == IF w.status = "processing" /\ w.due THEN NoWording ELSE w

(* Mutant: an interrupted publication is taken not to have happened.       *)
RecoveredUnsent(w) ==
    [w EXCEPT !.status = IF w.status = "processing" /\ w.due
                         THEN "fallback" ELSE @,
              !.delivery = IF @ = "sending" THEN "not_sent" ELSE @]

(* archive.recover_interrupted: an overdue generation falls back, and a    *)
(* publication somebody began has an unknown outcome.                      *)
Recovered(w) ==
    [w EXCEPT !.status = IF w.status = "processing" /\ w.due
                         THEN "fallback" ELSE @,
              !.delivery = IF @ = "sending" THEN "uncertain" ELSE @]

(* Mutant: a late receipt replaces the one archived.                       *)
ReceiptedAlways(w, receipt) == [w EXCEPT !.delivery = receipt]

(* archive.delivery: only the publication under way takes a receipt.       *)
Receipted(w, receipt) ==
    IF w.delivery = "sending" THEN [w EXCEPT !.delivery = receipt] ELSE w

(* Mutant: whatever left the host counts as delivered.                     *)
OutcomeGenerous(receipt) ==
    IF receipt \in {"suppressed", "failed"} THEN receipt ELSE "done"

(* events._outcome: what a receipt settles the event as.                   *)
Known(receipt) == IF receipt \in Receipts THEN receipt ELSE "uncertain"

Outcome(receipt) ==
    CASE Known(receipt) \in {"sent", "dry_run"} -> "done"
      [] Known(receipt) \in {"uncertain", "partial"} -> "uncertain"
      [] OTHER -> Known(receipt)

-----------------------------------------------------------------------------
(* The ledger *)

Entries == Cardinality({r \in Revisions : events[r].status # "none"})

(* append_in_transaction, inside the save: no room undoes the whole save.  *)
Appended(rows, r) == [rows EXCEPT ![r].status = "pending"]

(* save of a sealed terminal result: the row and its event, or neither.    *)
SaveResult ==
    /\ task.present
    /\ task.revision < MaxRevision
    /\ Entries < MaxEntries
    /\ task' = [task EXCEPT !.revision = @ + 1, !.result = task.revision + 1]
    /\ events' = Swept(Appended(events, task.revision + 1))
    /\ UNCHANGED <<wordings, threads, host, sent, calls>>

(* Any other save keeps the result of an earlier revision as history.      *)
SaveProgress ==
    /\ task.present
    /\ task.revision < MaxRevision
    /\ task' = [task EXCEPT !.revision = @ + 1]
    /\ events' = Swept(events)
    /\ UNCHANGED <<wordings, threads, host, sent, calls>>

(* Mutant: only work that is still queued pins its ledger.                 *)
PinnedLess(rows) ==
    \E r \in Revisions : rows[r].status \in {"pending", "processing"}

(* prune_tasks_in_transaction, on somebody else's save or listing: age or  *)
(* capacity may evict the row unless an unresolved event pins it.          *)
Pinned(rows) == \E r \in Revisions : rows[r].status \in Unresolved

Prune ==
    /\ task.present
    /\ events' = Swept(events)
    /\ ~Pinned(Swept(events))
    /\ task' = [task EXCEPT !.present = FALSE]
    /\ UNCHANGED <<wordings, threads, host, sent, calls>>

-----------------------------------------------------------------------------
(* A consumer *)

(* The thread goes on at another step, carrying note.                      *)
Goto(c, step, note) ==
    threads' = [threads EXCEPT ![c].at = step, ![c].note = note]

Leave(c) == threads' = [threads EXCEPT ![c] = Idle]

(* The guards: the claim, the ledger, then the host.  A read that raises   *)
(* makes the reason "unavailable".                                         *)
Superseded(r) == ~task.present \/ task.revision # r

Reason(c) == IF ~Owns(c) THEN "lost"
             ELSE IF Superseded(threads[c].event) THEN "stale"
             ELSE host

Reasons(c) == {Reason(c)} \cup (IF Faults THEN {"unavailable"} ELSE {})

(* consume, the claim: also exhausts an event claimed too often.           *)
Claim(c, r) ==
    LET rows == Swept(events) IN
    /\ threads[c].at = "idle"
    /\ events[r].status # "none"
    /\ IF Claimable(rows[r])
       THEN /\ events' = [rows EXCEPT ![r] = ClaimedRow(@)]
            /\ IF ClaimedRow(rows[r]).status = "processing"
               THEN threads' = [threads EXCEPT ![c] =
                        [at |-> "claimed", event |-> r, note |-> "none",
                         claim |-> rows[r].attempts + 1]]
               ELSE UNCHANGED threads
       ELSE Sweep /\ UNCHANGED threads
    /\ UNCHANGED <<task, wordings, host, sent, calls>>

(* consume, the first guard.                                               *)
Check(c) ==
    /\ threads[c].at = "claimed"
    /\ Sweep
    /\ \E reason \in Reasons(c) :
         CASE reason = "ok" -> Goto(c, "prepare", "none")
           [] reason = "unavailable" -> Goto(c, "retry", "none")
           [] OTHER -> Goto(c, "drop", "stale")
    /\ UNCHANGED <<task, wordings, host, sent, calls>>

(* prepare, its own guard: a refusal discards without leaving a record.    *)
Prepare(c) ==
    /\ threads[c].at = "prepare"
    /\ Sweep
    /\ \E reason \in Reasons(c) :
         CASE reason = "ok" -> Goto(c, "open", "none")
           [] reason = "unavailable" -> Goto(c, "retry", "none")
           [] OTHER -> Goto(c, "drop", "suppressed")
    /\ UNCHANGED <<task, wordings, host, sent, calls>>

(* archive.claim: whoever creates the record generates the wording.        *)
Open(c) ==
    LET r == threads[c].event IN
    /\ threads[c].at = "open"
    /\ \/ /\ wordings[r].status = "none"
          /\ wordings' = [wordings EXCEPT ![r].status = "processing"]
          /\ calls' = [calls EXCEPT ![r] = @ + 1]
          /\ Goto(c, "generate", "none")
       \/ /\ wordings[r].status # "none"
          /\ Goto(c, "recover", "none")
          /\ UNCHANGED <<wordings, calls>>
       \/ Faults /\ Goto(c, "retry", "none") /\ UNCHANGED <<wordings, calls>>
    /\ UNCHANGED <<task, events, host, sent>>

(* consume, with the record prepare returned.                              *)
Follow(c, w) ==
    IF w.status \in {"processing", "retryable"} THEN Goto(c, "retry", "none")
    ELSE IF w.status = "discarded" THEN Goto(c, "drop", "suppressed")
    ELSE IF w.delivery = "not_sent" THEN Goto(c, "publish", "none")
    ELSE Goto(c, "settle", w.delivery)

(* recover_interrupted, for a consumer that found a record.                *)
Recover(c) ==
    LET r == threads[c].event IN
    /\ threads[c].at = "recover"
    /\ \/ /\ wordings' = [wordings EXCEPT ![r] = Recovered(@)]
          /\ Follow(c, Recovered(wordings[r]))
       \/ Faults /\ Goto(c, "rescue", "none") /\ UNCHANGED wordings
    /\ UNCHANGED <<task, events, host, sent, calls>>

(* prepare, the model answered, was refused or timed out: the last guard   *)
(* decides whether the candidate, the template or nothing is kept.         *)
Generate(c) ==
    /\ threads[c].at = "generate"
    /\ Sweep
    /\ \E reason \in Reasons(c), text \in {"ready", "fallback"} :
         CASE reason = "ok" -> Goto(c, "store", text)
           [] reason = "unavailable" -> Goto(c, "store", "retryable")
           [] OTHER -> Goto(c, "store", "discarded")
    /\ UNCHANGED <<task, wordings, host, sent, calls>>

(* archive.finish; if it raises, a second one discards, or nothing is kept. *)
Store(c) ==
    LET r == threads[c].event
        Keep(status) ==
            /\ wordings' = [wordings EXCEPT ![r] = StoredWording(@, status)]
            /\ Follow(c, StoredWording(wordings[r], status))
    IN  /\ threads[c].at = "store"
        /\ \/ Keep(threads[c].note)
           \/ Faults /\ Keep("discarded")
           \/ Faults /\ Goto(c, "retry", "none") /\ UNCHANGED wordings
        /\ UNCHANGED <<task, events, host, sent, calls>>

(* reserve_publication, its guard: the host first, the lease only then.    *)
Publish(c) ==
    /\ threads[c].at = "publish"
    /\ \E reason \in Reasons(c) :
         IF reason = "ok" THEN Goto(c, "reserve", "none")
                          ELSE Goto(c, "settle", "suppressed")
    /\ IF host = "ok" THEN Sweep ELSE UNCHANGED events
    /\ UNCHANGED <<task, wordings, host, sent, calls>>

(* archive.reserve_delivery: not reserved means not published by us.       *)
Reserve(c) ==
    LET r == threads[c].event IN
    /\ threads[c].at = "reserve"
    /\ \/ /\ Reservable(wordings[r])
          /\ wordings' = [wordings EXCEPT ![r].delivery = "sending"]
          /\ Goto(c, "reserved", "none")
       \/ /\ ~Reservable(wordings[r]) \/ Faults
          /\ Goto(c, "settle", "suppressed")
          /\ UNCHANGED wordings
    /\ UNCHANGED <<task, events, host, sent, calls>>

(* publish_expression, after the memory hook: the guard once more.         *)
Recheck(c) ==
    /\ threads[c].at = "reserved"
    /\ \E reason \in Reasons(c) :
         CASE reason = "ok" -> Goto(c, "send", "none")
           [] reason = "unavailable" -> Goto(c, "rescue", "none")
           [] OTHER -> Goto(c, "withhold", "none")
    /\ IF host = "ok" THEN Sweep ELSE UNCHANGED events
    /\ UNCHANGED <<task, wordings, host, sent, calls>>

(* _deliver_text: the guard stops it before the first bubble; without a    *)
(* sender it is a dry run; otherwise bubbles leave, and the platform       *)
(* confirms all, some, or tells nothing (arrived or not).                  *)
Send(c) ==
    LET r == threads[c].event
        Wire(receipt, n) == /\ Goto(c, "receipt", receipt)
                            /\ sent' = [sent EXCEPT ![r] = @ + n]
    IN  /\ threads[c].at = "send"
        /\ \/ \E reason \in Reasons(c) :
                 reason # "ok" /\ Wire("suppressed", 0)
           \/ /\ Reason(c) = "ok"
              /\ \/ Wire("dry_run", 0)
                 \/ \E receipt \in {"sent", "partial", "uncertain"} :
                       Wire(receipt, 1)
                 \/ Wire("uncertain", 0)
        /\ IF host = "ok" THEN Sweep ELSE UNCHANGED events
        /\ UNCHANGED <<task, wordings, host, calls>>

(* record_delivery of what _deliver_text reported (a failure is only       *)
(* traced), then the archived receipt is what the event will be told.      *)
Record(c) ==
    LET r == threads[c].event
        Tell(w) == Goto(c, "settle", IF w.delivery = "not_sent"
                                     THEN threads[c].note ELSE w.delivery)
    IN  /\ threads[c].at = "receipt"
        /\ \/ /\ wordings' = [wordings EXCEPT ![r] =
                                  Receipted(@, threads[c].note)]
              /\ Tell(Receipted(wordings[r], threads[c].note))
           \/ Faults /\ Tell(wordings[r]) /\ UNCHANGED wordings
        /\ UNCHANGED <<task, events, host, sent, calls>>

(* record_delivery of a publication withdrawn after it was reserved.       *)
Withhold(c) ==
    LET r == threads[c].event IN
    /\ threads[c].at = "withhold"
    /\ \/ /\ wordings' = [wordings EXCEPT ![r] = Receipted(@, "suppressed")]
          /\ Goto(c, "settle", "suppressed")
       \/ Faults /\ Goto(c, "rescue", "none") /\ UNCHANGED wordings
    /\ UNCHANGED <<task, events, host, sent, calls>>

(* consume, the last step: the outcome of the receipt.                     *)
Settle(c) ==
    LET receipt == threads[c].note
        done == FinishedRow(Row(c), Outcome(receipt), Known(receipt))
    IN  /\ threads[c].at = "settle"
        /\ \/ ChangeClaim(c, done) /\ Leave(c)
           \/ Faults /\ Goto(c, "rescue", "none") /\ UNCHANGED events
        /\ UNCHANGED <<task, wordings, host, sent, calls>>

(* consume, nothing to publish: the event is closed or tried again.        *)
Drop(c) ==
    /\ threads[c].at = "drop"
    /\ \/ /\ ChangeClaim(c, FinishedRow(Row(c), threads[c].note, Row(c).delivery))
          /\ Leave(c)
       \/ Faults /\ Goto(c, "rescue", "none") /\ UNCHANGED events
    /\ UNCHANGED <<task, wordings, host, sent, calls>>

RetryLater(c) ==
    /\ threads[c].at = "retry"
    /\ \/ ChangeClaim(c, RetriedRow(Row(c))) /\ Leave(c)
       \/ Faults /\ Goto(c, "rescue", "none") /\ UNCHANGED events
    /\ UNCHANGED <<task, wordings, host, sent, calls>>

(* consume, the except branch: a publication that began settles the event, *)
(* otherwise it is tried again; a second failure leaves the lease to run.  *)
Rescue(c) ==
    LET w == wordings[threads[c].event]
        done == FinishedRow(Row(c), Outcome(w.delivery), Known(w.delivery))
    IN  /\ threads[c].at = "rescue"
        /\ \/ w.delivery # "not_sent" /\ ChangeClaim(c, done)
           \/ w.delivery = "not_sent" /\ ChangeClaim(c, RetriedRow(Row(c)))
           \/ Faults /\ UNCHANGED events
        /\ Leave(c)
        /\ UNCHANGED <<task, wordings, host, sent, calls>>

-----------------------------------------------------------------------------
(* Surroundings *)

(* The process dies, or is stopped, at any step; the database survives.    *)
Crash(c) == /\ threads[c].at # "idle"
            /\ Leave(c)
            /\ UNCHANGED <<task, events, wordings, host, sent, calls>>

(* A lease runs out while its holder is slow or gone.                      *)
LeaseEnds(r) ==
    /\ events[r].lease
    /\ events' = [events EXCEPT ![r].lease = FALSE]
    /\ UNCHANGED <<task, wordings, threads, host, sent, calls>>

(* processing_until passes.                                                *)
GenerationOverdue(r) ==
    /\ wordings[r].status = "processing" /\ ~wordings[r].due
    /\ wordings' = [wordings EXCEPT ![r].due = TRUE]
    /\ UNCHANGED <<task, events, threads, host, sent, calls>>

(* The retention of an event passes; the next transaction sweeps it.       *)
RetentionEnds(r) ==
    /\ events[r].status \in Unresolved /\ ~events[r].old
    /\ events' = [events EXCEPT ![r].old = TRUE]
    /\ UNCHANGED <<task, wordings, threads, host, sent, calls>>

(* Authority, a mute switch or a cancellation changes the host's answer.   *)
HostChanges ==
    /\ host' = IF host = "ok" THEN "refused" ELSE "ok"
    /\ UNCHANGED <<task, events, wordings, threads, sent, calls>>

-----------------------------------------------------------------------------
Work(c) == \/ Check(c) \/ Prepare(c) \/ Open(c) \/ Recover(c)
           \/ Generate(c) \/ Store(c)
           \/ Publish(c) \/ Reserve(c) \/ Recheck(c) \/ Send(c)
           \/ Record(c) \/ Withhold(c)
           \/ Settle(c) \/ Drop(c) \/ RetryLater(c) \/ Rescue(c)

Time(r) == LeaseEnds(r) \/ GenerationOverdue(r) \/ RetentionEnds(r)

Next == \/ SaveResult \/ SaveProgress \/ Prune \/ HostChanges
        \/ \E c \in Consumers : Work(c) \/ Crash(c)
        \/ \E c \in Consumers, r \in Revisions : Claim(c, r)
        \/ \E r \in Revisions : Time(r)

Spec == Init /\ [][Next]_vars

-----------------------------------------------------------------------------
(* Properties *)

TypeOK ==
    /\ task \in [present : BOOLEAN, revision : 0..MaxRevision,
                 result : 0..MaxRevision]
    /\ events \in [Revisions -> Events]
    /\ wordings \in [Revisions -> Wordings]
    /\ threads \in [Consumers -> Threads]
    /\ host \in {"ok", "refused"}
    /\ sent \in [Revisions -> Nat]
    /\ calls \in [Revisions -> Nat]

(* Crashes, expired leases, late consumers and retries never put one       *)
(* result on the wire twice.                                               *)
AtMostOneSend == \A r \in Revisions : sent[r] <= 1

(* Nor do they pay a model twice to word it.                               *)
OneGeneration == \A r \in Revisions : calls[r] <= 1

(* An event is done only when the platform confirmed the whole message, or *)
(* when there was no sender to use.                                        *)
DoneMeansDelivered ==
    \A r \in Revisions :
        events[r].status = "done" =>
            \/ wordings[r].delivery = "sent" /\ sent[r] = 1
            \/ wordings[r].delivery = "dry_run" /\ sent[r] = 0

(* As long as somebody still has to look at a result's delivery, its       *)
(* ledger is not evicted.                                                  *)
UnresolvedIsPinned ==
    \A r \in Revisions : events[r].status \in Unresolved => task.present

(* What the outbox says can be relied on: "done" was delivered, and what   *)
(* is open can still be looked at.                                         *)
AccountIsTrue == DoneMeansDelivered /\ UnresolvedIsPinned

(* A settled event stays as it is; one that needs a human only expires.    *)
SettledIsFinal ==
    [][\A r \in Revisions :
         LET old == events[r].status  new == events'[r].status IN
         /\ old \in Settled => new = old
         /\ old \in {"failed", "uncertain"} => new \in {old, "expired"}]_vars

(* The text of a result is chosen once: an answer that arrives after the   *)
(* fallback, or after a discard, changes nothing.                          *)
TextIsFinal ==
    [][\A r \in Revisions :
         wordings[r].status \in {"ready", "fallback", "discarded", "retryable"}
            => wordings'[r].status = wordings[r].status]_vars

(* Neither the event nor the text of a result is taken back.               *)
NothingIsTakenBack == SettledIsFinal /\ TextIsFinal

(* What the comment at result_expression/events.py:101 says of recovery:   *)
(* it inspects the publication record first, so it closes no event as      *)
(* stale whose result was published.                                       *)
RecoveryInspectsPublication ==
    \A r \in Revisions :
        events[r].status = "stale" =>
            wordings[r].delivery \notin {"sent", "partial", "uncertain"}

(* One publication at most, with an honest account of it.                  *)
Account(w) ==
    CASE w.delivery = "not_sent" -> "none"
      [] w.delivery = "sending" -> "begun"
      [] w.delivery = "sent" -> "delivered"
      [] w.delivery \in {"suppressed", "dry_run"} -> "withheld"
      [] OTHER -> "unknown"

Promise == INSTANCE AtMostOncePublication
             WITH Results <- Revisions,
                  account <- [r \in Revisions |-> Account(wordings[r])],
                  onWire <- {r \in Revisions : sent[r] > 0}

(* The outbox, the archive and their consumers implement it.               *)
KeepsPromise == Promise!Spec

(* For TLC: no definition tells consumers apart.                            *)
Symmetry == Permutations(Consumers)
=============================================================================
