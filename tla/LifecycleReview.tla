---------------------------- MODULE LifecycleReview ----------------------------
(***************************************************************************)
(* A model's opinion whether a turn used a memory, and what it may change: *)
(* shinku/memory/lifecycle_review.py, with the reinforcement that follows  *)
(* in lifecycle.py and the turns of service_usage.py that ask for it.      *)
(*                                                                         *)
(* A turn holds copies of the memories it was shown.  Its job waits in a   *)
(* queue, a worker sends it to the model on a thread of its own, waits for *)
(* so long, and writes memory by memory what it thinks of the answer; all  *)
(* the while memories are forgotten and condensed, and the queue is        *)
(* stopped and started.  The queue is in memory, the evidence is not.      *)
(*                                                                         *)
(* A text is a number: 1 what was said, 2 its extract.  Left out: what is  *)
(* too sensitive to review, the words of a decision, the tiers that a      *)
(* reinforcement leads to, and the other ways to be reinforced.            *)
(***************************************************************************)
EXTENDS Naturals, FiniteSets, Sequences

CONSTANTS
    Records,        \* memories
    Messages,       \* messages whose turns are evidence
    Queued,         \* how many jobs may wait
    Fresh,          \* how old a turn may be when its job begins
    Day,            \* how long a day is
    Daily,          \* requests in a day
    Interval,       \* time between two reinforcements of a memory
    MaxClock, MaxStops   \* bounds of the exploration

(* What the constants are.                                                 *)
ReviewAssumption ==
    /\ {Queued, Day} \subseteq Nat \ {0}
    /\ {Fresh, Daily, Interval, MaxClock, MaxStops} \subseteq Nat

VARIABLES
    clock,
    memory,     \* what is stored: status and text
    forgetting, \* memories marked as forgotten, their copies not yet dropped
    turns,      \* each turn: when it was, and its copies of memories
    queue,      \* jobs, generation, the turns queued, whether it is stopped
    worker,     \* its thread and what it has in hand
    calls,      \* requests sent in this life of the process: day and number
    request,    \* the requests under way, and the answer of the last
    evidence    \* what reinforced each memory: message, its time and the text

reviewVars == <<clock, memory, forgetting, turns, queue, worker, calls, request, evidence>>

NoCopies == [r \in {} |-> 0]
NoTurn == [at |-> "none", when |-> 0, copies |-> NoCopies]
NoWork == [at |-> "none", message |-> 0, generation |-> 0, copies |-> NoCopies, yes |-> {}]
NoQueue == [jobs |-> <<>>, generation |-> 0, seen |-> {}, stopped |-> FALSE, stops |-> 0]

ReviewInit ==
    /\ clock = 1
    /\ memory = [r \in Records |-> [status |-> "active", text |-> 1]]
    /\ forgetting = {}
    /\ turns = [m \in Messages |-> NoTurn]
    /\ queue = NoQueue /\ worker = NoWork
    /\ calls = [day |-> 0, count |-> 0]
    /\ request = [alive |-> 0, yes |-> {}]
    /\ evidence = [r \in Records |-> <<>>]

-----------------------------------------------------------------------------
(* The memories *)

Active == {r \in Records : memory[r].status = "active"}
Forgotten == {r \in Records : memory[r].status = "forgotten"}

(* A copy stands while the memory is active and says the same.             *)
Valid(copies) == {r \in DOMAIN copies \cap Active : memory[r].text = copies[r]}
Only(copies, some) == [r \in some |-> copies[r]]

(* forget: a transaction, and then its listeners, of which the queue drops *)
(* all its jobs and the one in hand.                                       *)
Forget(r) ==
    /\ r \in Active
    /\ memory' = [memory EXCEPT ![r].status = "forgotten"]
    /\ forgetting' = forgetting \cup {r}
    /\ UNCHANGED <<clock, turns, queue, worker, calls, request, evidence>>

Invalidated(q) == [q EXCEPT !.generation = @ + 1, !.jobs = <<>>]

Invalidate(r) ==
    /\ r \in forgetting
    /\ forgetting' = forgetting \ {r}
    /\ queue' = Invalidated(queue)
    /\ UNCHANGED <<clock, memory, turns, worker, calls, request, evidence>>

Condense(r) ==
    /\ r \in Active /\ memory[r].text = 1
    /\ memory' = [memory EXCEPT ![r].text = 2]
    /\ UNCHANGED <<clock, forgetting, turns, queue, worker, calls, request, evidence>>

-----------------------------------------------------------------------------
(* The turns *)

(* finalize_usage, or a message that comes back to what was said: copies   *)
(* of memories that were active when they were read.                       *)
Retrieve(m) ==
    /\ turns[m].at = "none"
    /\ turns' = [turns EXCEPT ![m] = [at |-> "holding", when |-> clock,
                                      copies |-> [r \in Active |-> memory[r].text]]]
    /\ UNCHANGED <<clock, memory, forgetting, queue, worker, calls, request, evidence>>

(* enqueue: it looks whether the queue is stopped, and then takes the      *)
(* lock: once for a message in the life of the process, unless it is full, *)
(* and of the generation of the moment.  Messages are delivered more than  *)
(* once, so the turn may ask again.                                        *)
AskForReview(m) ==
    /\ turns[m].at = "holding" /\ DOMAIN turns[m].copies # {}
    /\ ~queue.stopped
    /\ turns' = [turns EXCEPT ![m].at = "asking"]
    /\ UNCHANGED <<clock, memory, forgetting, queue, worker, calls, request, evidence>>

Enqueue(m) ==
    /\ turns[m].at = "asking"
    /\ turns' = [turns EXCEPT ![m].at = "holding"]
    /\ IF m \in queue.seen \/ Len(queue.jobs) = Queued THEN UNCHANGED queue
       ELSE queue' = [queue EXCEPT !.jobs = Append(@, [message |-> m, generation |-> queue.generation]),
                                   !.seen = @ \cup {m}]
    /\ UNCHANGED <<clock, memory, forgetting, worker, calls, request, evidence>>

-----------------------------------------------------------------------------
(* The worker *)

(* _process_one up to the request: nothing while another is under way.  A  *)
(* job that is stale, or over the day's number, is dropped.                *)
Today == clock \div Day
Spent == IF calls.day = Today THEN calls.count ELSE 0
Due(job) ==
    /\ job.generation = queue.generation
    /\ clock - turns[job.message].when <= Fresh
Affordable == Spent < Daily

(* Mutant: it may be under way for as long as it likes.                    *)
QuietAtLast == TRUE

Quiet == request.alive = 0

TakeJob ==
    /\ worker.at = "idle" /\ ~queue.stopped
    /\ Quiet
    /\ queue.jobs # <<>>
    /\ LET job == Head(queue.jobs) IN
       IF Due(job) /\ Affordable
       THEN /\ calls' = [day |-> Today, count |-> Spent + 1]
            /\ worker' = [NoWork EXCEPT !.at = "taken", !.message = job.message,
                                        !.generation = job.generation]
       ELSE UNCHANGED <<calls, worker>>
    /\ queue' = [queue EXCEPT !.jobs = Tail(@)]
    /\ UNCHANGED <<clock, memory, forgetting, turns, request, evidence>>

(* Only copies that still stand are sent.                                  *)
SendRequest ==
    /\ worker.at = "taken"
    /\ LET copies == turns[worker.message].copies
           valid == Valid(copies) IN
       IF valid = {}
       THEN worker' = [NoWork EXCEPT !.at = "idle"] /\ UNCHANGED request
       ELSE /\ worker' = [worker EXCEPT !.at = "waiting", !.copies = Only(copies, valid)]
            /\ request' = [alive |-> request.alive + 1, yes |-> {}]
    /\ UNCHANGED <<clock, memory, forgetting, turns, queue, calls, evidence>>

(* The request's thread ends: with a decision on each memory, or an error. *)
RequestEnds ==
    /\ request.alive > 0
    /\ \E yes \in SUBSET DOMAIN worker.copies : request' = [alive |-> request.alive - 1, yes |-> yes]
    /\ UNCHANGED <<clock, memory, forgetting, turns, queue, worker, calls, evidence>>

(* It waits until that, until it is tired, or until it is stopped, and     *)
(* then looks again at all three.                                          *)
Usable == request.alive = 0 /\ ~queue.stopped /\ worker.generation = queue.generation

Collect ==
    /\ worker.at = "waiting"
    /\ worker' = IF Usable THEN [worker EXCEPT !.at = "applying", !.yes = request.yes]
                 ELSE [NoWork EXCEPT !.at = "idle"]
    /\ request' = [request EXCEPT !.yes = {}]
    /\ UNCHANGED <<clock, memory, forgetting, turns, queue, calls, evidence>>

(* Before each memory it looks at the queue, lets go of its lock and only  *)
(* then enters the store.                                                  *)
Standing == ~queue.stopped /\ worker.generation = queue.generation

PickNext ==
    /\ worker.at = "applying" /\ worker.yes # {}
    /\ worker' = IF Standing THEN [worker EXCEPT !.at = "writing"]
                 ELSE [NoWork EXCEPT !.at = "idle"]
    /\ UNCHANGED <<clock, memory, forgetting, turns, queue, calls, request, evidence>>

(* _reinforce, one transaction: the copy must still stand, the message be  *)
(* new to this memory, not older than its last evidence and not too soon   *)
(* after it.                                                               *)
Known(r) == {evidence[r][n].message : n \in DOMAIN evidence[r]}
Last(r) == IF evidence[r] = <<>> THEN 0 ELSE evidence[r][Len(evidence[r])].when
Acceptable(r) ==
    LET when == turns[worker.message].when IN
    /\ r \in Valid(worker.copies)
    /\ worker.message \notin Known(r)
    /\ when >= Last(r)
    /\ Last(r) > 0 => when - Last(r) >= Interval

Reinforce(r) ==
    /\ worker.at = "writing" /\ r \in worker.yes
    /\ evidence' = IF ~Acceptable(r) THEN evidence
                   ELSE [evidence EXCEPT ![r] = Append(@,
                            [message |-> worker.message, when |-> turns[worker.message].when,
                             text |-> worker.copies[r]])]
    /\ worker' = [worker EXCEPT !.at = "applying", !.yes = @ \ {r}]
    /\ UNCHANGED <<clock, memory, forgetting, turns, queue, calls, request>>

Finish ==
    /\ worker.at = "applying" /\ worker.yes = {}
    /\ worker' = [NoWork EXCEPT !.at = "idle"]
    /\ UNCHANGED <<clock, memory, forgetting, turns, queue, calls, request, evidence>>

-----------------------------------------------------------------------------
(* start and stop *)

(* It is not started twice, not even while the last one is still ending.   *)
Start ==
    /\ worker.at = "none"
    /\ queue' = [queue EXCEPT !.stopped = FALSE]
    /\ worker' = [NoWork EXCEPT !.at = "idle"]
    /\ UNCHANGED <<clock, memory, forgetting, turns, calls, request, evidence>>

(* stop waits a while for the worker and returns in any case.              *)
Stop ==
    /\ queue.stops < MaxStops
    /\ queue' = [Invalidated(queue) EXCEPT !.stopped = TRUE, !.stops = @ + 1]
    /\ UNCHANGED <<clock, memory, forgetting, turns, worker, calls, request, evidence>>

Leave ==
    /\ worker.at = "idle" /\ queue.stopped
    /\ worker' = NoWork
    /\ UNCHANGED <<clock, memory, forgetting, turns, queue, calls, request, evidence>>

(* The process dies: the queue, what it has seen and the day's number are  *)
(* gone, and so are the turns' copies; a message may come again.           *)
Restart ==
    /\ queue.stops < MaxStops
    /\ queue' = [NoQueue EXCEPT !.stops = queue.stops + 1]
    /\ worker' = NoWork
    /\ calls' = [day |-> 0, count |-> 0]
    /\ request' = [alive |-> 0, yes |-> {}]
    /\ turns' = [m \in Messages |-> NoTurn]
    /\ forgetting' = {}
    /\ UNCHANGED <<clock, memory, evidence>>

Tick ==
    /\ clock < MaxClock /\ clock' = clock + 1
    /\ UNCHANGED <<memory, forgetting, turns, queue, worker, calls, request, evidence>>

ReviewNext ==
    \/ \E r \in Records : Forget(r) \/ Invalidate(r) \/ Condense(r) \/ Reinforce(r)
    \/ \E m \in Messages : Retrieve(m) \/ AskForReview(m) \/ Enqueue(m)
    \/ TakeJob \/ SendRequest \/ RequestEnds \/ Collect \/ PickNext \/ Finish
    \/ Start \/ Stop \/ Leave \/ Restart \/ Tick

ReviewSpec == ReviewInit /\ [][ReviewNext]_reviewVars

-----------------------------------------------------------------------------
ReviewTypeOK ==
    /\ clock \in 1..MaxClock
    /\ memory \in [Records -> [status : {"active", "forgotten"}, text : 1..2]]
    /\ forgetting \subseteq Forgotten
    /\ Len(queue.jobs) <= Queued /\ queue.seen \subseteq Messages
    /\ worker.at \in {"none", "idle", "taken", "waiting", "applying", "writing"}
    /\ request.alive \in Nat

(* One request at a time, although a worker gives up on the one under way, *)
(* and no more in a day than allowed, in one life of the process: a        *)
(* restart within the day begins to count again.                           *)
ReviewsAreRationed ==
    /\ request.alive <= 1
    /\ calls.count <= Daily

(* A message reinforces a memory once, whatever is delivered again or      *)
(* forgotten by a restart, and a memory is not reinforced in bursts.       *)
EvidenceIsSingle ==
    \A r \in Records : \A i, j \in DOMAIN evidence[r] : i < j =>
        /\ evidence[r][i].message # evidence[r][j].message
        /\ evidence[r][j].when - evidence[r][i].when >= Interval

(* A memory is reinforced on the strength of the text that is stored at    *)
(* that moment: an opinion on what was forgotten or condensed since it was *)
(* copied, sent or answered counts for nothing.                            *)
ReviewIsCurrent ==
    \A r \in Records : evidence'[r] # evidence[r] =>
        /\ memory[r].status = "active"
        /\ evidence'[r][Len(evidence'[r])].text = memory[r].text

ReviewStaysCurrent == [][ReviewIsCurrent]_reviewVars
=============================================================================
