------------------------- MODULE ConversationTurns -------------------------
(***************************************************************************)
(* The ledger of a conversation's turns, and the digest that may speak     *)
(* unasked in it.                                                          *)
(*                                                                         *)
(*   shinku/conversation/runtime.py   ConversationRuntime, one transaction *)
(*                                    per call                             *)
(*   shinku/conversation/models.py    turn states, evidence, permits       *)
(*   shinku/qq/agent_bridge.py        handle, who begins and ends a turn   *)
(*   shinku/qq/background_tasks.py    the worker a turn is handed to       *)
(*   shinku/qq/group_digest_host.py   process_group_digest                 *)
(*                                                                         *)
(* One private channel of one requester: channels share nothing but the    *)
(* pruning.  Time is counted in steps of the code's windows.  A write of   *)
(* a turn may fail, which the bridge traces and otherwise ignores.         *)
(***************************************************************************)
EXTENDS Naturals, FiniteSets

CONSTANTS
    UserTurns,   \* turns of the user
    Digest,      \* the turn the digest reserves
    Quiet,       \* quiet_seconds after an inbound message (90)
    PermitAge,   \* how long a permit may be used (120)
    Unresolved,  \* unresolved_quiet_seconds (600)
    Lease,       \* lease_seconds (1920)
    Retention,   \* retention_seconds (86400)
    MaxTurns,    \* max_turns kept by the pruning (512, at least 16)
    MaxClock,    \* bound of the exploration, not of the code
    MaxRevision, \* bound of the channel's revisions explored
    MaxLost      \* bound of the writes that fail

(* What the constants are.                                                 *)
ConversationAssumption ==
    /\ Digest \notin UserTurns
    /\ {Quiet, PermitAge, Unresolved, Lease, Retention, MaxTurns, MaxClock} \subseteq Nat
    /\ PermitAge < Retention /\ Quiet < Retention
    /\ Lease > 0 /\ MaxTurns > 0 /\ {MaxRevision, MaxLost} \subseteq Nat

VARIABLES
    clock,      \* self.clock()
    rows,       \* conversation_turns
    channel,    \* the row of conversation_channels; revision 0: none
    front,      \* per user turn: where the thread of handle is
    worker,     \* per user turn: where the background worker is
    digest,     \* where the digest is, and the permit it holds
    slot,       \* the day's claim in the proactive ledger, never released
    lost,       \* writes that failed so far, of MaxLost
    moved,      \* history: what the channel saw since the digest's permit
    delivered,  \* history: turns whose text went out
    posted      \* history: digests sent

conversationVars == <<clock, rows, channel, front, worker, digest, slot,
                      lost, moved, delivered, posted>>

TurnIds == UserTurns \cup {Digest}

Open == {"running", "queued"}
NoRow == [status |-> "none"]
NoPermit == [allowed |-> FALSE, revision |-> 0, at |-> 0]
NoChannel == [revision |-> 0, inbound |-> 0, at |-> 0]

ConversationInit ==
    /\ clock = 1 /\ channel = NoChannel
    /\ rows = [t \in TurnIds |-> NoRow]
    /\ front = [t \in UserTurns |-> [at |-> "new", status |-> "running"]]
    /\ worker = [t \in UserTurns |-> [at |-> "none", status |-> "running"]]
    /\ digest = [at |-> "idle", permit |-> NoPermit] /\ slot = FALSE
    /\ lost = 0 /\ moved = "still" /\ delivered = {} /\ posted = 0

-----------------------------------------------------------------------------
(* ConversationRuntime *)

KeptTurns(rs) == {t \in TurnIds : rs[t] # NoRow}

ActiveTurn(row) == row # NoRow /\ row.phase # "finished" /\ row.status \in Open

Leased(row) == ActiveTurn(row) /\ row.lease > clock

(* _prune: a row under a lease stays; of the others, what is too old goes  *)
(* and whatever is not among the newest.  Turns of other channels take     *)
(* places too: room is what they leave.                                    *)
Pruned(rs, room) ==
    LET newer(t) == {u \in KeptTurns(rs) : rs[u].updated > rs[t].updated}
    IN  [t \in TurnIds |->
            IF /\ rs[t] # NoRow /\ ~Leased(rs[t])
               /\ \/ Cardinality(newer(t)) >= room
                  \/ clock - rs[t].updated > Retention
            THEN NoRow ELSE rs[t]]

(* _revision *)
Revised(ch, inbound) ==
    [revision |-> ch.revision + 1,
     inbound |-> IF inbound THEN clock ELSE ch.inbound, at |-> clock]

(* begin: its own channel is the newest.                                   *)
Opened(origin, phase) ==
    [status |-> "running", phase |-> phase, origin |-> origin, task |-> FALSE,
     attempt |-> 0, evidence |-> "none", sent |-> FALSE,
     updated |-> clock, lease |-> clock + Lease]

Begun(t, origin, phase) ==
    /\ \E room \in 1..MaxTurns : rows' = Pruned([rows EXCEPT ![t] = Opened(origin, phase)], room)
    /\ channel' = Revised(channel, origin # "scheduled")

(* step: only an active row, whose lease it renews; `row` is what it says. *)
Stepped(t, row, queued) ==
    IF ~ActiveTurn(rows[t]) THEN UNCHANGED <<rows, channel>>
    ELSE /\ rows' = [rows EXCEPT ![t] =
                [row EXCEPT !.status = IF queued THEN "queued" ELSE "running",
                            !.updated = clock, !.lease = clock + Lease]]
         /\ channel' = Revised(channel, FALSE)

(* Mutant: whoever ends a turn last writes its receipt.                    *)
EndableAlways(t) == rows[t] # NoRow

(* finish: only an active row; its lease is not asked.                     *)
Endable(t) == ActiveTurn(rows[t])

(* AnswerEvidence.bound_to: another text than the verified one.            *)
Bound(evidence, same) == IF evidence = "resolved" /\ ~same THEN "unresolved" ELSE evidence

(* finish, and the older turns that waited on the user for this task.      *)
Continues(t, status, prior) ==
    /\ rows[t].task /\ status # "waiting_user"
    /\ prior # t /\ rows[prior] # NoRow
    /\ rows[prior].status = "waiting_user" /\ rows[prior].task
    /\ rows[t].attempt >= rows[prior].attempt

Finished(t, status, sent, same) ==
    IF ~Endable(t) THEN UNCHANGED <<rows, channel>>
    ELSE /\ rows' = [u \in TurnIds |->
                IF u = t THEN [rows[t] EXCEPT !.status = status, !.phase = "finished",
                        !.sent = sent, !.evidence = Bound(@, same),
                        !.updated = clock, !.lease = 0]
                ELSE IF Continues(t, status, u)
                     THEN [rows[u] EXCEPT !.status = "continued", !.updated = clock]
                     ELSE rows[u]]
         /\ channel' = Revised(channel, FALSE)

(* _proactive: nobody is being served or was just heard, and no answer is  *)
(* owed to the user.                                                       *)
Owed(row) ==
    /\ clock - row.updated < Unresolved
    /\ row.origin # "scheduled" /\ row.status # "continued"
    /\ row.status = "waiting_user" \/ row.evidence = "unresolved"

Allowed(exclude) ==
    /\ \A t \in KeptTurns(rows) \ exclude : ~Leased(rows[t]) /\ ~Owed(rows[t])
    /\ ~(channel.inbound > 0 /\ clock - channel.inbound < Quiet)

(* Mutant: a message is reserved whatever was said meanwhile.              *)
StillCurrentAlways(permit, exclude) ==
    permit.allowed /\ clock - permit.at <= PermitAge /\ Allowed(exclude)

(* validate_proactive, and the same test inside reserve_proactive.         *)
StillCurrent(permit, exclude) ==
    /\ permit.allowed /\ clock - permit.at <= PermitAge
    /\ Allowed(exclude) /\ permit.revision = channel.revision

-----------------------------------------------------------------------------
(* Turns of the user                                                       *)

(* A write, or its loss.                                                   *)
Written(operation) ==
    \/ operation /\ UNCHANGED lost
    \/ lost < MaxLost /\ lost' = lost + 1 /\ UNCHANGED <<rows, channel>>

Elsewhere == UNCHANGED <<clock, digest, slot, moved, posted>>

Seat(at) == [at |-> at, status |-> "running"]

(* observe_message: the notice of a message, before it is batched.         *)
Notice(t) ==
    /\ front[t].at = "new"
    /\ Written(channel' = Revised(channel, TRUE) /\ UNCHANGED rows)
    /\ front' = [front EXCEPT ![t].at = "noticed"]
    /\ Elsewhere /\ UNCHANGED <<worker, delivered>>

(* handle, as a turn is taken from its queue.                              *)
HandleMessage(t) ==
    /\ front[t].at = "noticed"
    /\ Written(Begun(t, "user", "context"))
    /\ front' = [front EXCEPT ![t].at = "open"]
    /\ Elsewhere /\ UNCHANGED <<worker, delivered>>

(* A query of the turn, and its verifier's verdict.                        *)
VerifyQuery(t) ==
    /\ front[t].at = "open" /\ worker[t].at = "none"
    /\ rows[t] # NoRow /\ rows[t].evidence = "none"
    /\ Written(Stepped(t, [rows[t] EXCEPT !.phase = "verification", !.evidence = "resolved"], FALSE))
    /\ Elsewhere /\ UNCHANGED <<front, worker, delivered>>

(* _deliver_text: a step, the text, and then its receipt.                  *)
Deliver(t) ==
    /\ Written(Stepped(t, [rows[t] EXCEPT !.phase = "delivery"], FALSE))
    /\ \/ delivered' = delivered \cup {t}
       \/ UNCHANGED delivered
    /\ Elsewhere

(* The receipt: _deliver_text writes one, and so does whoever called it.   *)
WriteReceipt(t, seat) ==
    /\ \E same \in BOOLEAN : Written(Finished(t, seat.status, t \in delivered, same))
    /\ Elsewhere /\ UNCHANGED delivered

Results == {"completed", "waiting_user"}

Closing(at) == IF at = "delivered" THEN "closing" ELSE "done"

FrontDeliver(t) ==
    /\ front[t].at = "open" /\ Deliver(t)
    /\ \E status \in Results :
          front' = [front EXCEPT ![t] = [at |-> "delivered", status |-> status]]
    /\ UNCHANGED worker

FrontReceipt(t) ==
    /\ front[t].at \in {"delivered", "closing"} /\ WriteReceipt(t, front[t])
    /\ front' = [front EXCEPT ![t].at = Closing(@)]
    /\ UNCHANGED worker

(* _submit_work: the task is admitted, then the turn is marked queued.     *)
Submit(t) ==
    /\ front[t].at = "open"
    /\ worker' = [worker EXCEPT ![t].at = "deferred"]
    /\ front' = [front EXCEPT ![t].at = "submitted"]
    /\ Elsewhere /\ UNCHANGED <<rows, channel, lost, delivered>>

MarkQueued(t) ==
    /\ front[t].at = "submitted"
    /\ \E attempt \in 0..1 :
          Written(Stepped(t, [rows[t] EXCEPT !.phase = "execution", !.task = TRUE,
                                             !.attempt = attempt], TRUE))
    /\ front' = [front EXCEPT ![t].at = "queued"]
    /\ Elsewhere /\ UNCHANGED <<worker, delivered>>

(* handle dispatches the task; if it could not, the turn ends as failed.   *)
Dispatch(t) ==
    /\ front[t].at = "queued"
    /\ \/ /\ worker[t].at = "deferred"
          /\ worker' = [worker EXCEPT ![t].at = "ready"]
          /\ front' = [front EXCEPT ![t].at = "done"]
       \/ /\ worker' = [worker EXCEPT ![t].at = IF @ = "deferred" THEN "done" ELSE @]
          /\ front' = [front EXCEPT ![t] = [at |-> "closing", status |-> "failed"]]
    /\ Elsewhere /\ UNCHANGED <<rows, channel, lost, delivered>>

WorkerStart(t) ==
    /\ worker[t].at = "ready"
    /\ Written(Stepped(t, [rows[t] EXCEPT !.phase = "execution", !.task = TRUE], FALSE))
    /\ worker' = [worker EXCEPT ![t].at = "running"]
    /\ Elsewhere /\ UNCHANGED <<front, delivered>>

(* A slice ends without a result: the checkpoint marks the turn queued.    *)
WorkerYield(t) ==
    /\ worker[t].at = "running" /\ channel.revision < MaxRevision
    /\ Written(Stepped(t, [rows[t] EXCEPT !.phase = "execution"], TRUE))
    /\ worker' = [worker EXCEPT ![t].at = "ready"]
    /\ Elsewhere /\ UNCHANGED <<front, delivered>>

WorkerDeliver(t) ==
    /\ worker[t].at = "running" /\ Deliver(t)
    /\ \E status \in Results :
          worker' = [worker EXCEPT ![t] = [at |-> "delivered", status |-> status]]
    /\ UNCHANGED front

(* _deliver_text, then _finish_work; or queued_cancel of a waiting task.   *)
WorkerReceipt(t) ==
    /\ worker[t].at \in {"delivered", "closing"} /\ WriteReceipt(t, worker[t])
    /\ worker' = [worker EXCEPT ![t].at = Closing(@)]
    /\ UNCHANGED front

CancelQueued(t) ==
    /\ worker[t].at \in {"deferred", "ready"}
    /\ worker' = [worker EXCEPT ![t] = [at |-> "closing", status |-> "failed"]]
    /\ Elsewhere /\ UNCHANGED <<front, rows, channel, lost, delivered>>

(* The process is gone, and with it whoever was at work; rows stay.        *)
CrashTurns ==
    /\ front' = [t \in UserTurns |-> IF front[t].at = "new" THEN front[t] ELSE Seat("done")]
    /\ worker' = [t \in UserTurns |-> Seat("done")]
    /\ Elsewhere /\ UNCHANGED <<rows, channel, lost, delivered>>

TurnNext ==
    \/ \E t \in UserTurns :
          \/ Notice(t) \/ HandleMessage(t) \/ VerifyQuery(t) \/ FrontDeliver(t) \/ FrontReceipt(t)
          \/ Submit(t) \/ MarkQueued(t) \/ Dispatch(t)
          \/ WorkerStart(t) \/ WorkerYield(t) \/ WorkerDeliver(t) \/ WorkerReceipt(t)
          \/ CancelQueued(t)
    \/ CrashTurns

-----------------------------------------------------------------------------
(* process_group_digest.  Until it sends, whatever fails or changes ends   *)
(* it; the day's slot stays claimed, and nothing of the day is sent again. *)

Goes(at) == digest' = [digest EXCEPT !.at = at]
Apart == UNCHANGED <<clock, front, worker, lost, delivered>>

Drafting == digest.at \in {"permitted", "claimed", "drafted"}

(* Whatever the user's turns may write, as one of them did.                *)
Stir(t) ==
    /\ channel.revision < MaxRevision
    /\ \/ channel' = Revised(channel, TRUE) /\ UNCHANGED rows
       \/ rows[t] = NoRow /\ Begun(t, "user", "context")
       \/ \E e \in {"none", "unresolved"} :
             /\ rows[t] # NoRow /\ ActiveTurn(rows[t])
             /\ Stepped(t, [rows[t] EXCEPT !.evidence = e], FALSE)
       \/ \E status \in Results :
             rows[t] # NoRow /\ Endable(t) /\ Finished(t, status, FALSE, TRUE)
    /\ moved' = IF Drafting /\ moved = "still" THEN "moved" ELSE moved
    /\ Apart /\ UNCHANGED <<digest, slot, posted>>

Permit ==
    /\ digest.at = "idle" /\ ~slot /\ Allowed({})
    /\ digest' = [at |-> "permitted",
                  permit |-> [allowed |-> TRUE, revision |-> channel.revision, at |-> clock]]
    /\ moved' = "still"
    /\ Apart /\ UNCHANGED <<rows, channel, slot, posted>>

(* The material is read, then the slot is claimed, or nothing is.          *)
ClaimSlot ==
    /\ digest.at = "permitted"
    /\ \/ Goes("idle") /\ UNCHANGED slot
       \/ Goes("claimed") /\ slot' = TRUE
    /\ Apart /\ UNCHANGED <<rows, channel, moved, posted>>

(* The model's answer, the material read again, and the first check.       *)
Generate ==
    /\ digest.at = "claimed"
    /\ \/ Goes("over")
       \/ StillCurrent(digest.permit, {}) /\ Goes("drafted")
    /\ Apart /\ UNCHANGED <<rows, channel, slot, moved, posted>>

(* reserve_proactive                                                       *)
Reserve ==
    /\ digest.at = "drafted"
    /\ \/ /\ StillCurrent(digest.permit, {}) /\ rows[Digest] = NoRow
          /\ Begun(Digest, "scheduled", "delivery")
          /\ digest' = [at |-> "reserved",
                        permit |-> [allowed |-> TRUE, revision |-> channel'.revision, at |-> clock]]
       \/ Goes("withdrawn") /\ UNCHANGED <<rows, channel>>
    /\ Apart /\ UNCHANGED <<slot, moved, posted>>

(* The last check, and then one call of the transport.                     *)
Recheck ==
    /\ digest.at = "reserved"
    /\ \/ StillCurrent(digest.permit, {Digest}) /\ Goes("sending")
       \/ Goes("withdrawn")
    /\ Apart /\ UNCHANGED <<rows, channel, slot, moved, posted>>

Post ==
    /\ digest.at = "sending"
    /\ \E sent \in BOOLEAN : Goes(IF sent THEN "sent" ELSE "uncertain")
    /\ posted' = posted + 1
    /\ Apart /\ UNCHANGED <<rows, channel, slot, moved>>

(* finish, tried again by the finally block if it raised.                  *)
CloseDigest ==
    /\ digest.at \in {"sent", "uncertain", "withdrawn"}
    /\ \/ Finished(Digest, IF digest.at = "sent" THEN "chat"
                            ELSE IF digest.at = "uncertain" THEN "failed" ELSE "ignored",
                    digest.at = "sent", TRUE)
       \/ UNCHANGED <<rows, channel>>
    /\ Goes("over")
    /\ Apart /\ UNCHANGED <<slot, moved, posted>>

(* A turn that begins in another channel prunes here as well.  A channel   *)
(* without turns is forgotten with them, and its revisions start again.    *)
OtherBegins ==
    /\ \E room \in 0..(MaxTurns - 1) : rows' = Pruned(rows, room)
    /\ channel' = IF clock - channel.at > Retention /\ KeptTurns(rows') = {}
                  THEN NoChannel ELSE channel
    /\ moved' = IF Drafting /\ channel' # channel THEN "forgotten" ELSE moved
    /\ Apart /\ UNCHANGED <<digest, slot, posted>>

Pass ==
    /\ clock < MaxClock /\ clock' = clock + 1
    /\ UNCHANGED <<rows, channel, front, worker, digest, slot, lost, moved, delivered, posted>>

CrashDigest ==
    /\ digest' = [at |-> "idle", permit |-> NoPermit]
    /\ Apart /\ UNCHANGED <<rows, channel, slot, moved, posted>>

DigestNext ==
    \/ Permit \/ ClaimSlot \/ Generate \/ Reserve \/ Recheck \/ Post \/ CloseDigest
    \/ (\E t \in UserTurns : Stir(t)) \/ OtherBegins \/ Pass \/ CrashDigest

(* Turns among themselves, without the clock, and the digest among them.   *)
TurnSpec == ConversationInit /\ [][TurnNext]_conversationVars
DigestSpec == ConversationInit /\ [][DigestNext]_conversationVars

-----------------------------------------------------------------------------
(* Properties *)

Places == {"new", "noticed", "open", "delivered", "closing", "done", "submitted", "queued"}
Stations == {"none", "deferred", "ready", "running", "delivered", "closing", "refused", "done"}

Rows == [status : Open \cup Results \cup {"failed", "chat", "ignored", "continued"},
         phase : {"context", "verification", "execution", "delivery", "finished"},
         origin : {"user", "scheduled"}, task : BOOLEAN, attempt : 0..1,
         evidence : {"none", "unresolved", "resolved"}, sent : BOOLEAN,
         updated : Nat, lease : Nat]

ConversationTypeOK ==
    /\ clock \in Nat /\ slot \in BOOLEAN /\ moved \in {"still", "moved", "forgotten"} /\ posted \in Nat
    /\ rows \in [TurnIds -> Rows \cup {NoRow}]
    /\ channel \in [revision : Nat, inbound : Nat, at : Nat]
    /\ front \in [UserTurns -> [at : Places, status : Results \cup {"failed", "running"}]]
    /\ worker \in [UserTurns -> [at : Stations, status : Results \cup {"failed", "running"}]]
    /\ digest \in [at : {"idle", "permitted", "claimed", "drafted", "reserved", "sending",
                         "sent", "uncertain", "withdrawn", "over"},
                   permit : [allowed : BOOLEAN, revision : Nat, at : Nat]]
    /\ delivered \subseteq UserTurns /\ lost \in Nat

(* The digest speaks once a day at most, whatever crashes, and only if     *)
(* nothing was recorded in the channel from the permit its text was made   *)
(* under to the reservation, as long as the channel was neither pruned nor *)
(* forgotten in between.                                                   *)
DigestIsConsiderate ==
    /\ posted <= 1 /\ (posted = 1 => slot)
    /\ digest.at = "reserved" => moved # "moved"

(* agent_bridge.py:419 says it of every message: one that arrives while    *)
(* the text is made invalidates it.  Not if the channel was pruned first:  *)
(* its revisions start again, and may be back where the permit saw them.   *)
DraftIsInvalidated == digest.at = "reserved" => moved = "still"

(* Thread, worker and canceller may all end one turn: the first receipt    *)
(* stands, and says "sent" only of a text that went out.  A turn that      *)
(* waits on the user is closed only by a later one of its own task.        *)
ReceiptKept ==
    \A t \in TurnIds :
        rows[t] # NoRow /\ rows'[t] # NoRow /\ rows[t].phase = "finished" =>
            /\ [rows'[t] EXCEPT !.status = rows[t].status, !.updated = rows[t].updated] = rows[t]
            /\ rows'[t].status # rows[t].status =>
                  /\ rows[t].status = "waiting_user" /\ rows'[t].status = "continued"
                  /\ \E u \in TurnIds :
                        /\ rows[u] # NoRow /\ rows'[u] # NoRow
                        /\ rows[u].phase # "finished" /\ rows'[u].phase = "finished"

(* No step takes back a receipt.                                           *)
ReceiptsStand == [][ReceiptKept]_rows
=============================================================================
