---------------------------- MODULE AozoraKernel ----------------------------
(***************************************************************************)
(* The decision kernel of aozora.                                          *)
(*                                                                         *)
(*   aozora/store.py      events, attempts, entries and the outbox, one    *)
(*                        SQLite transaction per method                    *)
(*   aozora/kernel.py     handle: begin, ask the model, finish or fail     *)
(*   aozora/__main__.py   emit: claim, print, acknowledge                  *)
(*                                                                         *)
(* The model is asked outside every transaction and answers anything.      *)
(* Callers are threads of any process that opens the database; they die,   *)
(* and the operator cancels, retries and verifies, between any two         *)
(* transactions.  Texts, hashes, identities and the byte limits of a       *)
(* projection are left out.                                                *)
(***************************************************************************)
EXTENDS Naturals, Sequences, FiniteSetsExt

CONSTANTS
    Events,         \* event ids
    Scopes,         \* conversations
    ScopeOf,        \* the scope of each event
    Attention,      \* keys of the matters kept open
    Understandings, \* keys of the tentative understandings
    Callers,        \* threads in handle or emit
    Window,         \* how many latest events and deliveries are projected (8)
    Capacity,       \* how many entries of one kind may be current (16)
    MaxAttempt,     \* bound on the attempts, at all events together
    MaxVersion      \* bound on the versions of one entry

Keys == Attention \cup Understandings

ASSUME KernelAssumption ==
    /\ ScopeOf \in [Events -> Scopes]
    /\ Attention \cap Understandings = {}
    /\ {Window, Capacity, MaxAttempt, MaxVersion} \subseteq Nat \ {0}

VARIABLES
    arrived,    \* the table events, in the order of seq
    attempts,   \* per event, the status of each attempt
    context,    \* per event, the context stored with its running attempt
    entries,    \* per scope and key, what the model made of it
    outbox,     \* the deliveries, in the order of rowid
    caller      \* per thread, what it is about to do

vars == <<arrived, attempts, context, entries, outbox, caller>>

AttemptStatuses == {"running", "completed", "failed", "cancelled"}
EntryStatuses == {"none", "open", "completed", "dropped", "tentative"}
DeliveryStatuses == {"prepared", "unknown", "delivered", "failed"}

Entry == [version : 0..MaxVersion, status : EntryStatuses,
          evidence : SUBSET Events]

(* What a decision is based on: the events it may cite, the versions it    *)
(* sees (0: none), and where the deliveries it was told of stand.          *)
Context == [known : SUBSET Events, seen : [Keys -> 0..MaxVersion],
            deliveries : SUBSET (Nat \X DeliveryStatuses)]

NoContext == [known |-> {}, seen |-> [k \in Keys |-> 0], deliveries |-> {}]

(* shown counts what reached the terminal.                                 *)
Delivery == [event : Events, attempt : Nat \ {0},
             status : DeliveryStatuses, shown : Nat]

Steps == {"idle", "thinking", "failing", "interrupted", "claimed", "written"}

(* about: the event that is handled, or the delivery that is printed.      *)
Idle == [at |-> "idle", about |-> 0, attempt |-> 0]

-----------------------------------------------------------------------------
(* The projection *)

LastOf(e) == attempts[e][Len(attempts[e])]
Running(e) == attempts[e] # <<>> /\ LastOf(e) = "running"

(* Mutant: the events of the other conversations are counted in.           *)
RecentAnywhere(s, log) ==
    {log[i] : i \in {i \in DOMAIN log : Len(log) - i < Window}}

(* The last Window events of the scope s.                                  *)
Recent(s, log) ==
    LET of == {i \in DOMAIN log : ScopeOf[log[i]] = s}
    IN  {log[i] : i \in {i \in of : Cardinality({j \in of : j > i}) < Window}}

(* The last Window deliveries of s, and where each stands.                 *)
Told(s) ==
    LET of == {d \in DOMAIN outbox : ScopeOf[outbox[d].event] = s}
    IN  {<<d, outbox[d].status>> :
            d \in {d \in of : Cardinality({j \in of : j > d}) < Window}}

(* A matter that was closed is not projected any more.                     *)
Visible(s, k) ==
    /\ entries[s][k].version > 0
    /\ k \in Attention => entries[s][k].status = "open"

(* _snapshot, with what begin adds to it for the event e itself.           *)
Snapshot(e, log) ==
    LET s == ScopeOf[e]
        visible == {k \in Keys : Visible(s, k)}
    IN  [known |-> Recent(s, log) \cup {e}
                     \cup UNION {entries[s][k].evidence : k \in visible},
         seen |-> [k \in Keys |->
                     IF k \in visible THEN entries[s][k].version ELSE 0],
         deliveries |-> Told(s)]

-----------------------------------------------------------------------------
(* Kernel.handle *)

(* Mutant: any finished attempt may be retried.                            *)
RetryableAgain(e) == attempts[e] # <<>> => ~Running(e)

(* A new event, or one whose last attempt came to nothing and is retried   *)
(* explicitly; the others are answered from the table.                     *)
Retryable(e) == attempts[e] # <<>> => LastOf(e) \in {"failed", "cancelled"}

(* Store.begin: one decision at a time in the whole database.              *)
Begin(c, e) ==
    LET log == IF attempts[e] = <<>> THEN Append(arrived, e) ELSE arrived
    IN  /\ caller[c] = Idle
        /\ Retryable(e)
        /\ \A x \in Events : ~Running(x)
        /\ MapThenSumSet(LAMBDA x : Len(attempts[x]), Events) < MaxAttempt
        /\ arrived' = log
        /\ attempts' = [attempts EXCEPT ![e] = Append(@, "running")]
        /\ context' = [context EXCEPT ![e] = Snapshot(e, log)]
        /\ caller' = [caller EXCEPT ![c] =
               [at |-> "thinking", about |-> e, attempt |-> Len(attempts[e]) + 1]]
        /\ UNCHANGED <<entries, outbox>>

(* What a decision may ask of one entry; the event that would be refused,  *)
(* if there is one, stands for all that are cited.                         *)
Change == [version : 0..MaxVersion, evidence : {{x} : x \in Events},
           status : EntryStatuses \ {"none"}]

(* finish takes the change w of the entry k: its evidence was shown, its   *)
(* version is the one that was seen, and what is new starts open.  The     *)
(* bound on versions is MaxVersion.                                        *)
Accepted(e, k, w) ==
    LET old == entries[ScopeOf[e]][k] IN
    /\ w.status \in IF k \in Attention THEN {"open", "completed", "dropped"}
                                       ELSE {"tentative"}
    /\ w.evidence \subseteq context[e].known
    /\ w.version < MaxVersion
    /\ IF old.version > 0
       THEN context[e].seen[k] > 0 /\ w.version = context[e].seen[k]
       ELSE w.version = 0 /\ (k \in Attention => w.status = "open")

Current(board, kind) == {k \in kind : board[k].status \in {"open", "tentative"}}

(* Mutant: what the user was sent meanwhile does not matter.               *)
UnmovedAnyway(e) == TRUE

(* No delivery the model was told of has moved since.                      *)
Unmoved(e) == \A told \in context[e].deliveries : outbox[told[1]].status = told[2]

(* The attempt a caller works on is still the one that may commit.         *)
Eligible(c) ==
    LET e == caller[c].about IN
    Len(attempts[e]) = caller[c].attempt /\ Running(e)

(* The context of an attempt that has ended is never read again.           *)
Kept(table) ==
    [e \in Events |->
        IF table[e] # <<>> /\ table[e][Len(table[e])] = "running"
        THEN context[e] ELSE NoContext]

(* Store.finish, for a decision that changes the entries in D and may      *)
(* leave a reply for the outbox.                                           *)
Commit(c) ==
    LET e == caller[c].about
        s == ScopeOf[e]
    IN  /\ caller[c].at = "thinking"
        /\ Eligible(c)
        /\ Unmoved(e)
        /\ \E D \in SUBSET Keys : \E w \in [D -> Change] :
              /\ \A k \in D : Accepted(e, k, w[k])
              /\ entries' = [entries EXCEPT ![s] = [k \in Keys |->
                    IF k \in D THEN [w[k] EXCEPT !.version = @ + 1] ELSE @[k]]]
              /\ \A kind \in {Attention, Understandings} :
                    Cardinality(Current(entries'[s], kind)) <= Capacity
        /\ \/ UNCHANGED outbox
           \/ outbox' = Append(outbox, [event |-> e, attempt |-> caller[c].attempt,
                                        status |-> "prepared", shown |-> 0])
        /\ attempts' = [attempts EXCEPT ![e][caller[c].attempt] = "completed"]
        /\ context' = Kept(attempts')
        /\ caller' = [caller EXCEPT ![c] = Idle]
        /\ UNCHANGED arrived

(* The model fails, or finish refuses what it said: handle calls fail, or  *)
(* cancel when it is interrupted.                                          *)
Raise(c) ==
    /\ caller[c].at = "thinking"
    /\ \E at \in {"failing", "interrupted"} :
          caller' = [caller EXCEPT ![c].at = at]
    /\ UNCHANGED <<arrived, attempts, context, entries, outbox>>

(* Mutant: fail does not ask what became of the attempt.                   *)
EndedAnyway(e, n, status) == [attempts EXCEPT ![e][n] = status]

(* UPDATE attempts ... WHERE status = 'running'.                           *)
Ended(e, n, status) ==
    [attempts EXCEPT ![e][n] = IF @ = "running" THEN status ELSE @]

(* Store.fail, and Store.cancel with the attempt that was interrupted.     *)
GiveUp(c) ==
    /\ \/ /\ caller[c].at = "failing"
          /\ attempts' = Ended(caller[c].about, caller[c].attempt, "failed")
       \/ /\ caller[c].at = "interrupted"
          /\ attempts' = IF Eligible(c)
                THEN Ended(caller[c].about, caller[c].attempt, "cancelled")
                ELSE attempts
    /\ context' = Kept(attempts')
    /\ caller' = [caller EXCEPT ![c] = Idle]
    /\ UNCHANGED <<arrived, entries, outbox>>

(* Mutant: the status is spelled as the rest of the repository spells it.  *)
CancelMisspelt(e) ==
    /\ Running(e)
    /\ attempts' = Ended(e, Len(attempts[e]), "canceled")
    /\ context' = Kept(attempts')
    /\ UNCHANGED <<arrived, entries, outbox, caller>>

(* The operator's cancel, of whichever attempt is the last.                *)
Cancel(e) ==
    /\ Running(e)
    /\ attempts' = Ended(e, Len(attempts[e]), "cancelled")
    /\ context' = Kept(attempts')
    /\ UNCHANGED <<arrived, entries, outbox, caller>>

-----------------------------------------------------------------------------
(* emit *)

(* Mutant: a delivery whose fate is not known may be claimed again.        *)
ClaimableTwice(d) == outbox[d].status \in {"prepared", "unknown"}

Claimable(d) == outbox[d].status = "prepared"

(* Store.claim_delivery hands the text out once.                           *)
Claim(c, d) ==
    /\ caller[c] = Idle
    /\ Claimable(d)
    /\ outbox' = [outbox EXCEPT ![d].status = "unknown"]
    /\ caller' = [caller EXCEPT ![c] = [at |-> "claimed", about |-> d, attempt |-> 0]]
    /\ UNCHANGED <<arrived, attempts, context, entries>>

(* write and flush.  A write that raises is a crash, before or after.      *)
Write(c) ==
    /\ caller[c].at = "claimed"
    /\ outbox' = [outbox EXCEPT ![caller[c].about].shown = @ + 1]
    /\ caller' = [caller EXCEPT ![c].at = "written"]
    /\ UNCHANGED <<arrived, attempts, context, entries>>

(* Store.resolve_delivery: only what was claimed, and only once.           *)
Resolved(d, verdict) ==
    [outbox EXCEPT ![d].status = IF @ = "unknown" THEN verdict ELSE @]

Receipt(c) ==
    /\ caller[c].at = "written"
    /\ outbox' = Resolved(caller[c].about, "delivered")
    /\ caller' = [caller EXCEPT ![c] = Idle]
    /\ UNCHANGED <<arrived, attempts, context, entries>>

(* The operator looks at the terminal and resolves what an interrupted     *)
(* emit left behind; that nobody is printing it is the operator's duty.    *)
Verify(d) ==
    /\ outbox[d].status = "unknown"
    /\ \A c \in Callers : caller[c].at \in {"claimed", "written"} => caller[c].about # d
    /\ outbox' = Resolved(d, IF outbox[d].shown > 0 THEN "delivered" ELSE "failed")
    /\ UNCHANGED <<arrived, attempts, context, entries, caller>>

(* The process of a caller dies, or the database refuses its last write.   *)
Crash(c) ==
    /\ caller[c] # Idle
    /\ caller' = [caller EXCEPT ![c] = Idle]
    /\ UNCHANGED <<arrived, attempts, context, entries, outbox>>

-----------------------------------------------------------------------------
Init ==
    /\ arrived = <<>>
    /\ attempts = [e \in Events |-> <<>>]
    /\ context = [e \in Events |-> NoContext]
    /\ entries = [s \in Scopes |-> [k \in Keys |->
          [version |-> 0, status |-> "none", evidence |-> {}]]]
    /\ outbox = <<>>
    /\ caller = [c \in Callers |-> Idle]

Handle(c) == (\E e \in Events : Begin(c, e)) \/ Commit(c) \/ Raise(c) \/ GiveUp(c)
Emit(c) == (\E d \in DOMAIN outbox : Claim(c, d)) \/ Write(c) \/ Receipt(c)

Next ==
    \/ \E c \in Callers : Handle(c) \/ Emit(c) \/ Crash(c)
    \/ \E e \in Events : Cancel(e)
    \/ \E d \in DOMAIN outbox : Verify(d)

Spec == Init /\ [][Next]_vars

-----------------------------------------------------------------------------
(* Properties *)

(* Type invariant.                                                         *)
KernelTypeOK ==
    /\ arrived \in Seq(Events)
    /\ attempts \in [Events -> Seq(AttemptStatuses)]
    /\ context \in [Events -> Context]
    /\ entries \in [Scopes -> [Keys -> Entry]]
    /\ outbox \in Seq(Delivery)
    /\ caller \in [Callers -> [at : Steps, about : {0} \cup Events \cup Nat, attempt : Nat]]

(* The model thinks outside every transaction, yet what it decides is      *)
(* committed only over the very state it was shown: whoever cancelled,     *)
(* retried, decided or delivered meanwhile, nothing is overwritten and no  *)
(* reply rests on a projection that has changed.                           *)
DecidesOnThePresent ==
    [][\A e \in Events :
          /\ Running(e)
          /\ attempts'[e] = [attempts[e] EXCEPT ![Len(attempts[e])] = "completed"]
          => context[e] = Snapshot(e, arrived)]_vars

(* An event is decided once and leaves one reply at most, that of the      *)
(* attempt that completed.                                                 *)
DecidedOnce ==
    /\ \A e \in Events :
          Cardinality({n \in DOMAIN attempts[e] : attempts[e][n] = "completed"}) <= 1
    /\ \A d \in DOMAIN outbox :
          /\ attempts[outbox[d].event][outbox[d].attempt] = "completed"
          /\ \A o \in DOMAIN outbox : outbox[o].event = outbox[d].event => o = d

(* How an attempt ended stays as it was: the late failure or interruption  *)
(* of a thread changes neither a cancelled attempt nor a later one.        *)
EndedStays ==
    [][\A e \in Events : \A n \in DOMAIN attempts[e] :
          attempts[e][n] # "running" => attempts'[e][n] = attempts[e][n]]_vars

(* A reply is printed at most once, and its status never claims that it    *)
(* was when it was not, nor that it was not when it was.                   *)
ShownOnce ==
    \A d \in DOMAIN outbox :
        /\ outbox[d].shown <= 1
        /\ outbox[d].status \in {"prepared", "failed"} => outbox[d].shown = 0
        /\ outbox[d].status = "delivered" => outbox[d].shown = 1

(* Nothing a conversation keeps, and nothing the model is shown for it,    *)
(* rests on an event of another one.                                       *)
ScopesStayApart ==
    /\ \A s \in Scopes, k \in Keys : \A e \in entries[s][k].evidence : ScopeOf[e] = s
    /\ \A e \in Events : \A x \in context[e].known : ScopeOf[x] = ScopeOf[e]

(* An event is decided once, its reply printed once, and neither rests on  *)
(* another conversation.                                                   *)
OncePerEvent == DecidedOnce /\ ShownOnce /\ ScopesStayApart

(* What was decided was decided on the present, and how an attempt ended   *)
(* is not rewritten.                                                       *)
DecisionsStand == DecidesOnThePresent /\ EndedStays
=============================================================================
