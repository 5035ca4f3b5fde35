---------------------------- MODULE TurnDispatch ----------------------------
(***************************************************************************)
(* From a group message to the handler of a turn.                          *)
(*                                                                         *)
(*   shinku/qq/host.py        handle_event, one webhook thread per message  *)
(*   shinku/qq/adapter.py     ingest_message, under the ingress lock       *)
(*   shinku/qq/attention.py   AttentionBatcher, the short window           *)
(*   shinku/qq/turns.py       NapCatTurnDispatcher, under its own lock     *)
(*   shinku/qq/group_reply_review.py, reply_delivery.py                    *)
(*                            what the handler of an ambient turn consults *)
(*                                                                         *)
(* A webhook thread takes the ingress lock, lets it go, reads the images   *)
(* (a download), and only then takes the dispatcher's lock; a timer thread *)
(* and other webhook threads run in between.  Attention, admission and the *)
(* model are choices; deadlines may pass at every guard.  Only groups and  *)
(* the asynchronous dispatcher of cli.py are modelled, and of the retained *)
(* visual context only that the model may ask which picture is meant.      *)
(***************************************************************************)
EXTENDS Naturals, FiniteSets, SequencesExt

CONSTANTS
    Messages,       \* admitted messages, each with its webhook thread
    Conversations,  \* group conversations
    Profiles,       \* what a message can be, see MessageProfiles
    Pool,           \* max_workers of the executor
    TurnCap,        \* turns of one conversation an ambient turn may join (2)
    TotalCap,       \* turns of all conversations (24)
    ReviewCap,      \* later messages one review may cover (16)
    HistoryCap,     \* ambient arrivals remembered per conversation (32)
    None            \* no profile yet

(* "mention": addressed to the bot; "command": slash commands and pokes,   *)
(* which are never merged; "ambient": a candidate nobody addressed;        *)
(* "chat": attention schedules nothing.                                    *)
Kinds == {"mention", "command", "ambient", "chat"}
MessageProfiles == [conv : Conversations, kind : Kinds, image : BOOLEAN]

ASSUME TurnsAssumption ==
    /\ Profiles \subseteq MessageProfiles
    /\ None \notin MessageProfiles
    /\ {Pool, TurnCap, TotalCap, HistoryCap} \subseteq Nat \ {0}
    /\ ReviewCap \in Nat

VARIABLES
    profile,    \* per message: what arrived, once it has
    thread,     \* per message: "new", "ingested" or "submitted"
    closed,     \* per message: the older batch its arrival closed
    batch,      \* AttentionBatcher._messages
    timer,      \* is a timer armed?
    fired,      \* timers that went off and wait for the lock
    arrived,    \* messages in the order of _ingress_sequence
    visuals,    \* _visuals: messages whose images wait for their turn
    queues,     \* _conversation_queues
    pending,    \* _pending_turn_counts
    revisions,  \* _turn_revisions and _explicit_turn_revisions
    running,    \* _running_conversations
    jobs,       \* the executor's queue of drains
    drain,      \* per conversation: "none", "waiting", "loop" or "busy"
    ended,      \* conversations whose last drain is over, callback to come
    work,       \* per conversation: the handler's turn and where it is
    stage,      \* of close: "open", "closing", "shut" (the executor)
    handled,    \* history: messages a handler is done with
    refused     \* history: messages of turns nobody handled

inbox == <<profile, thread, closed, batch, timer, fired, arrived>>
turns == <<queues, pending, revisions, running, jobs, drain, ended, refused>>
vars == <<inbox, visuals, turns, work, stage, handled>>

-----------------------------------------------------------------------------
Conv(m) == profile[m].conv
IsExplicit(m) == profile[m].kind \in {"mention", "command"}
IsScheduled(m) == profile[m].kind # "chat"
Apart(m) == profile[m].kind = "command"

Ambient(t) == t.mode = "autonomous"
Explicit(t) == ~Ambient(t)

NoTurn == [ids |-> <<>>, mode |-> "immediate", origin |-> 0, rev |-> 0,
           images |-> {}]

Idle == [turn |-> NoTurn, at |-> "idle", shown |-> {}, reviewed |-> 0]

Init ==
    /\ profile = [m \in Messages |-> None]
    /\ thread = [m \in Messages |-> "new"]
    /\ closed = [m \in Messages |-> <<>>]
    /\ batch = <<>> /\ timer = FALSE /\ fired = 0 /\ arrived = <<>>
    /\ visuals = {}
    /\ queues = [c \in Conversations |-> <<>>]
    /\ pending = [c \in Conversations |-> 0]
    /\ revisions = [c \in Conversations |-> [last |-> 0, explicit |-> 0]]
    /\ running = {} /\ jobs = <<>> /\ ended = {}
    /\ drain = [c \in Conversations |-> "none"]
    /\ work = [c \in Conversations |-> Idle]
    /\ stage = "open" /\ handled = {} /\ refused = {}

-----------------------------------------------------------------------------
(* What the dispatcher remembers of arrivals: positions in arrived are     *)
(* sequence numbers, the last HistoryCap of a conversation are kept.       *)

Sequences(c, arr) == {i \in DOMAIN arr : Conv(arr[i]) = c}

Newer(c, arr, i) == {j \in Sequences(c, arr) : j > i}

(* _ambient_arrivals, and the last one dropped from it.                    *)
Window(c) == {i \in Sequences(c, arrived) :
                 Cardinality(Newer(c, arrived, i)) < HistoryCap}

Floor(c) == LET gone == Sequences(c, arrived) \ Window(c)
            IN  IF gone = {} THEN 0 ELSE Max(gone)

(* _message_sequences of a turn's own messages; if none of them has been   *)
(* submitted yet, everything so far.                                       *)
Origin(ids, arr) ==
    LET own == {i \in DOMAIN arr : arr[i] \in ToSet(ids)}
    IN  IF own = {} THEN Len(arr) ELSE Max(own)

-----------------------------------------------------------------------------
(* NapCatTurnDispatcher                                                    *)

(* Mutant: a batch of candidates keeps the empty mode it starts with.      *)
ModeUnset(b) == IF \E m \in ToSet(b) : IsExplicit(m) THEN "immediate" ELSE ""

Mode(b) == IF \E m \in ToSet(b) : IsExplicit(m) THEN "immediate" ELSE "autonomous"

(* _build_turn_locked: images leave _visuals for their turn.               *)
Turn(b, arr) ==
    LET c == Conv(Head(b)) IN
    [ids |-> b, mode |-> Mode(b), origin |-> Origin(b, arr),
     rev |-> revisions[c].last + 1, images |-> visuals \cap ToSet(b)]

(* Mutant: explicit turns queue behind ambient ones.                       *)
QueuedLast(q, t) == Append(q, t)

(* Explicit turns keep their order and precede queued ambient ones.        *)
Queued(q, t) ==
    LET ambient == {i \in DOMAIN q : Ambient(q[i])} IN
    IF Ambient(t) \/ ambient = {} THEN Append(q, t)
    ELSE InsertAt(q, Min(ambient), t)

(* Where the candidates stand that an ambient turn t replaces.             *)
Obsolete(c, t) ==
    IF Ambient(t) THEN {i \in DOMAIN queues[c] : Ambient(queues[c][i])} ELSE {}

(* q without the elements at the positions in gone, in their order.        *)
Without(q, gone) ==
    LET left == DOMAIN q \ gone
    IN  [k \in 1..Cardinality(left) |->
            q[CHOOSE i \in left : Cardinality({j \in left : j <= i}) = k]]

Total == MapThenSumSet(LAMBDA c : pending[c], Conversations)

(* autonomous_queue_full, counted as if the older candidates were gone.    *)
Full(c, t) ==
    LET n == Cardinality(Obsolete(c, t)) IN
    Ambient(t) /\ (pending[c] - n >= TurnCap \/ Total - n >= TotalCap)

Members(q) == UNION {ToSet(q[i].ids) : i \in DOMAIN q}

(* Mutant: the coalesced turns stay in the count.                          *)
CountedAnyway(c, t) == pending[c] + 1

(* The turns of c once t has joined and replaced older candidates.         *)
Counted(c, t) == pending[c] - Cardinality(Obsolete(c, t)) + 1

(* A turn joins its conversation's queue, and a drain is started if none   *)
(* is running; its future replaces that of a drain that is over.           *)
Accept(c, t) ==
    /\ queues' = [queues EXCEPT ![c] = Queued(Without(@, Obsolete(c, t)), t)]
    /\ pending' = [pending EXCEPT ![c] = Counted(c, t)]
    /\ revisions' = [revisions EXCEPT ![c] =
            [last |-> t.rev, explicit |-> IF Explicit(t) THEN t.rev ELSE @.explicit]]
    /\ refused' = refused \cup UNION {ToSet(queues[c][i].ids) : i \in Obsolete(c, t)}
    /\ IF c \in running THEN UNCHANGED <<running, jobs, drain, ended>>
       ELSE /\ running' = running \cup {c}
            /\ jobs' = Append(jobs, c)
            /\ drain' = [drain EXCEPT ![c] = "waiting"]
            /\ ended' = ended \ {c}

(* The executor has been shut down: the turn is taken back.                *)
Reject(c, t) ==
    /\ revisions' = [revisions EXCEPT ![c] = [last |-> 0, explicit |-> 0]]
    /\ refused' = refused \cup ToSet(t.ids)
    /\ UNCHANGED <<queues, pending, running, jobs, drain, ended>>

(* _dispatch_locked of a batch, or of none.                                *)
Dispatch(b, arr) ==
    IF b = <<>> THEN UNCHANGED turns
    ELSE LET c == Conv(Head(b))
             t == Turn(b, arr)
         IN  \/ /\ Full(c, t)
                /\ refused' = refused \cup ToSet(b)
                /\ UNCHANGED <<queues, pending, revisions, running, jobs, drain, ended>>
             \/ ~Full(c, t) /\ (stage # "shut" \/ c \in running) /\ Accept(c, t)
             \/ ~Full(c, t) /\ stage = "shut" /\ c \notin running /\ Reject(c, t)

-----------------------------------------------------------------------------
(* Webhook threads and the timer                                           *)

(* push: what ends the open batch, late if the window has passed.  *)
Closes(p, late) ==
    /\ batch # <<>>
    /\ \/ late \/ Conv(Head(batch)) # p.conv
       \/ p.kind = "command" \/ \E o \in ToSet(batch) : Apart(o)

(* ingest_message, under the ingress lock.                                 *)
Ingest(m, p, late) ==
    /\ thread[m] = "new"
    /\ thread' = [thread EXCEPT ![m] = "ingested"]
    /\ profile' = [profile EXCEPT ![m] = p]
    /\ IF p.kind = "chat" THEN UNCHANGED <<batch, closed>>
       ELSE IF Closes(p, late)
            THEN batch' = <<m>> /\ closed' = [closed EXCEPT ![m] = batch]
            ELSE batch' = Append(batch, m) /\ UNCHANGED closed
    /\ UNCHANGED <<timer, fired, arrived, visuals, turns, work, stage, handled>>

(* Mutant: the older batch is dispatched only if the newcomer counts too.  *)
ClosedByCandidate(m) == IF IsExplicit(m) THEN closed[m] ELSE <<>>

(* The batch its own arrival took out of the batcher.                      *)
ClosedBy(m) == closed[m]

(* submit, after the images have been read: the arrival is recorded, the   *)
(* older batch goes first, then the images are kept and the timer armed.   *)
Submit(m) ==
    LET arr == Append(arrived, m)
        older == ClosedBy(m)
    IN
    /\ thread[m] = "ingested"
    /\ thread' = [thread EXCEPT ![m] = "submitted"]
    /\ arrived' = arr
    /\ Dispatch(older, arr)
    /\ closed' = [closed EXCEPT ![m] = <<>>]
    /\ visuals' = (visuals \ ToSet(older)) \cup
                  (IF profile[m].image /\ IsScheduled(m) THEN {m} ELSE {})
    /\ timer' = (timer \/ IsScheduled(m))
    /\ UNCHANGED <<profile, batch, fired, work, stage, handled>>

(* The timer goes off; its thread still has to get the lock.               *)
Fire ==
    /\ timer /\ timer' = FALSE
    /\ fired' = fired + 1
    /\ UNCHANGED <<profile, thread, closed, batch, arrived, visuals, turns,
                   work, stage, handled>>

(* flush: cancels whichever timer is armed and dispatches what is there.   *)
FlushBatch ==
    /\ timer' = FALSE
    /\ batch' = <<>>
    /\ Dispatch(batch, arrived)
    /\ visuals' = visuals \ ToSet(batch)
    /\ UNCHANGED <<profile, thread, closed, arrived, work, handled>>

Flush ==
    /\ fired > 0 /\ fired' = fired - 1
    /\ FlushBatch
    /\ UNCHANGED stage

(* close: one more flush, then the executor takes nothing new.             *)
CloseFlush ==
    /\ stage = "open" /\ stage' = "closing"
    /\ FlushBatch
    /\ UNCHANGED fired

CloseShutdown ==
    /\ stage = "closing" /\ stage' = "shut"
    /\ UNCHANGED <<inbox, visuals, turns, work, handled>>

-----------------------------------------------------------------------------
(* _drain_conversation: one worker per conversation                        *)

Serving == {c \in Conversations : drain[c] \in {"loop", "busy"}}

(* A thread of the pool becomes free for the oldest drain.                 *)
Serve ==
    /\ jobs # <<>> /\ Cardinality(Serving) < Pool
    /\ drain' = [drain EXCEPT ![Head(jobs)] = "loop"]
    /\ jobs' = Tail(jobs)
    /\ UNCHANGED <<inbox, visuals, queues, pending, revisions, running, ended,
                   refused, work, stage, handled>>

Take(c) ==
    /\ drain[c] = "loop" /\ queues[c] # <<>>
    /\ drain' = [drain EXCEPT ![c] = "busy"]
    /\ work' = [work EXCEPT ![c] = [Idle EXCEPT
            !.turn = Head(queues[c]), !.at = "start",
            !.reviewed = Head(queues[c]).origin]]
    /\ queues' = [queues EXCEPT ![c] = Tail(@)]
    /\ UNCHANGED <<inbox, visuals, pending, revisions, running, jobs, ended,
                   refused, stage, handled>>

(* Mutant: the drain decides to leave before it looks at the queue.        *)
LeavesEarly(c) == drain[c] = "loop"

(* Nothing is left, as seen under the lock.                                *)
Leaves(c) == drain[c] = "loop" /\ queues[c] = <<>>

Leave(c) ==
    /\ Leaves(c)
    /\ drain' = [drain EXCEPT ![c] = "none"]
    /\ running' = running \ {c}
    /\ ended' = ended \cup {c}
    /\ UNCHANGED <<inbox, visuals, queues, pending, revisions, jobs, refused,
                   work, stage, handled>>

(* _forget_completed, the callback of the last drain's future.             *)
Forget(c) ==
    /\ c \in ended
    /\ ended' = ended \ {c}
    /\ revisions' = [revisions EXCEPT ![c] = [last |-> 0, explicit |-> 0]]
    /\ UNCHANGED <<inbox, visuals, queues, pending, running, jobs, drain,
                   refused, work, stage, handled>>

(* The handler returned or raised, at whatever point.                      *)
Finish(c) ==
    /\ drain[c] = "busy"
    /\ drain' = [drain EXCEPT ![c] = "loop"]
    /\ work' = [work EXCEPT ![c] = Idle]
    /\ pending' = [pending EXCEPT ![c] = @ - 1]
    /\ handled' = handled \cup ToSet(work[c].turn.ids)
    /\ UNCHANGED <<inbox, visuals, queues, revisions, running, jobs, ended,
                   refused, stage>>

-----------------------------------------------------------------------------
(* The guard of an ambient turn, and the handler's use of it.  A guard     *)
(* that refuses, or a deadline that has passed, leaves only Finish.        *)

Later(c) == {i \in Window(c) : i > work[c].turn.origin}

(* updates(): raises when it cannot show all there is to review.           *)
Readable(c) ==
    /\ Floor(c) <= work[c].turn.origin
    /\ Cardinality(Later(c)) <= ReviewCap
    /\ \A i \in Later(c) : ~profile[arrived[i]].image

(* An explicit message arrived, or an explicit turn was scheduled.         *)
Preempted(c) ==
    \/ \E i \in Sequences(c, arrived) :
          i > work[c].turn.origin /\ profile[arrived[i]].kind \in {"mention", "command"}
    \/ revisions[c].explicit > work[c].turn.rev

(* Phase "queue": a newer candidate has been scheduled or submitted.       *)
Overtaken(c) ==
    \/ revisions[c].last # work[c].turn.rev
    \/ LET scheduled == {i \in Sequences(c, arrived) : IsScheduled(arrived[i])}
       IN  /\ scheduled # {}
           /\ arrived[Max(scheduled)] \notin ToSet(work[c].turn.ids)

Passes(c, phase) ==
    /\ ~Preempted(c) /\ Readable(c)
    /\ phase = "queue" => ~Overtaken(c)
    /\ phase = "publish" => Newer(c, arrived, work[c].reviewed) = {}

At(c, step) == drain[c] = "busy" /\ Ambient(work[c].turn) /\ work[c].at = step

Goto(c, step) == work' = [work EXCEPT ![c].at = step]

Rest == UNCHANGED <<inbox, visuals, turns, stage, handled>>

(* run_chat_decision asks before the model, then again with its draft.     *)
Decide(c) == At(c, "start") /\ Passes(c, "queue") /\ Goto(c, "draft") /\ Rest
Draft(c)  == At(c, "draft") /\ Passes(c, "reply") /\ Goto(c, "read") /\ Rest

(* Or the model cannot tell which retained picture is meant: it asks, with *)
(* no review, and that bubble leaves without a look at the guard.          *)
Clarify(c) == At(c, "draft") /\ Passes(c, "reply") /\ Goto(c, "ask") /\ Rest

(* review_group_reply: what the reviewer is shown.                         *)
Read(c) ==
    /\ At(c, "read") /\ Readable(c)
    /\ work' = [work EXCEPT ![c].at = "review", ![c].shown = Later(c)]
    /\ Rest

(* Mutant: whatever came meanwhile is acknowledged with the rest.          *)
UnchangedAlways(c) == Readable(c)

(* acknowledge: only if what was shown is still all there is.              *)
Unchanged(c) == Readable(c) /\ Later(c) = work[c].shown

Acknowledge(c) ==
    /\ At(c, "review") /\ Unchanged(c)
    /\ work' = [work EXCEPT ![c].at = "publish",
            ![c].reviewed = IF Window(c) = {} THEN work[c].turn.origin ELSE Max(Window(c))]
    /\ Rest

(* _publication_block_reason, before each bubble, and the bubble.          *)
Publish(c) == At(c, "publish") /\ Passes(c, "publish") /\ Goto(c, "send") /\ Rest
Send(c)    == At(c, "send") /\ Goto(c, "publish") /\ Rest

-----------------------------------------------------------------------------
Webhook(m) == (\E p \in Profiles, late \in BOOLEAN : Ingest(m, p, late)) \/ Submit(m)

Drain(c) == Take(c) \/ Leave(c) \/ Forget(c) \/ Finish(c)

Answer(c) ==
    \/ Decide(c) \/ Draft(c) \/ Clarify(c) \/ Read(c) \/ Acknowledge(c)
    \/ Publish(c) \/ Send(c)

Next ==
    \/ \E m \in Messages : Webhook(m)
    \/ Fire \/ Flush \/ CloseFlush \/ CloseShutdown \/ Serve
    \/ \E c \in Conversations : Drain(c) \/ Answer(c)

Spec == Init /\ [][Next]_vars

-----------------------------------------------------------------------------
(* Properties *)

Turns == [ids : Seq(Messages), mode : {"immediate", "autonomous"}, origin : Nat,
          rev : Nat, images : SUBSET Messages]

Steps == {"idle", "start", "draft", "ask", "read", "review", "publish", "send"}

TurnsTypeOK ==
    /\ profile \in [Messages -> Profiles \cup {None}]
    /\ thread \in [Messages -> {"new", "ingested", "submitted"}]
    /\ closed \in [Messages -> Seq(Messages)]
    /\ batch \in Seq(Messages) /\ arrived \in Seq(Messages)
    /\ timer \in BOOLEAN /\ fired \in Nat /\ stage \in {"open", "closing", "shut"}
    /\ queues \in [Conversations -> Seq(Turns)]
    /\ pending \in [Conversations -> Nat]
    /\ revisions \in [Conversations -> [last : Nat, explicit : Nat]]
    /\ running \subseteq Conversations /\ ended \subseteq Conversations
    /\ jobs \in Seq(Conversations)
    /\ drain \in [Conversations -> {"none", "waiting", "loop", "busy"}]
    /\ work \in [Conversations ->
            [turn : Turns, at : Steps, shown : SUBSET Nat, reviewed : Nat]]
    /\ visuals \cup handled \cup refused \subseteq Messages

(* The counts that admit ambient turns never drift from the turns there    *)
(* are: a drift would close the conversation to ambient turns for good.    *)
CountsAreExact ==
    \A c \in Conversations :
        pending[c] = Len(queues[c]) + (IF drain[c] = "busy" THEN 1 ELSE 0)

(* Whatever waits has somebody coming for it: a batch has a timer or a     *)
(* webhook thread that will arm one, a queue has a drain in the executor.  *)
NobodyStranded ==
    /\ batch # <<>> => \/ timer \/ fired > 0
                       \/ \E m \in ToSet(batch) : thread[m] = "ingested"
    /\ \A c \in Conversations :
          queues[c] # <<>> => drain[c] # "none" /\ c \in running
    /\ \A c \in Conversations : drain[c] = "waiting" <=> c \in ToSet(jobs)

(* Where a message that was addressed to the bot is.                       *)
Places(m) ==
    (IF m \in ToSet(batch) THEN {<<"batch">>} ELSE {})
    \cup {<<"closed", o>> : o \in {o \in Messages : m \in ToSet(closed[o])}}
    \cup {<<"queued", c>> : c \in {c \in Conversations : m \in Members(queues[c])}}
    \cup {<<"work", c>> : c \in {c \in Conversations : m \in ToSet(work[c].turn.ids)}}
    \cup (IF m \in handled THEN {<<"handled">>} ELSE {})
    \cup (IF m \in refused THEN {<<"refused">>} ELSE {})

(* It is always in exactly one place, and turned away only by an executor  *)
(* that has been shut down: neither ambient limits nor a concurrent flush  *)
(* lose it, hand it over twice, or let it be coalesced.                    *)
CallsKeptOnce ==
    \A m \in Messages :
        profile[m] # None /\ IsExplicit(m) =>
            Cardinality(Places(m)) = 1 /\ (m \in refused => stage = "shut")

(* Of one conversation at most one ambient turn waits, behind every call.  *)
AmbientWaits ==
    \A c \in Conversations : \A i \in DOMAIN queues[c] :
        Ambient(queues[c][i]) => i = Len(queues[c])

(* However flushes, drains and limits interleave, what waits is served,    *)
(* calls are kept, and before what merely happened to be said.             *)
NothingIsLost == NobodyStranded /\ CallsKeptOnce /\ AmbientWaits

(* A bubble of an ambient reply leaves only when the reviewer was shown    *)
(* every message submitted since, none of them addressed to the bot, and   *)
(* no call of the conversation waits behind it.  (Not so the question of   *)
(* Clarify, which nobody reviews.)                                         *)
PublishIsCurrent ==
    [][\A c \in Conversations :
          work[c].at = "publish" /\ work'[c].at = "send" =>
              /\ Newer(c, arrived, work[c].turn.origin) \subseteq work[c].shown
              /\ \A i \in work[c].shown : ~IsExplicit(arrived[i])
              /\ \A i \in DOMAIN queues[c] : Ambient(queues[c][i])]_vars

(* docs/contracts/c4_18_turn_dispatcher.md: each image stays with the id   *)
(* of its message.  A flush or a newer message may dispatch a batch while  *)
(* the webhook thread of one of its messages is still reading the image,   *)
(* long before anything is closed.                                         *)
ImagesStayWithTheirMessages ==
    stage = "open" => \A c \in Conversations : \A i \in DOMAIN queues[c] :
        \A m \in ToSet(queues[c][i].ids) :
            profile[m].image => m \in queues[c][i].images
=============================================================================
