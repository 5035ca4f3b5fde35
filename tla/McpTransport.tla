----------------------------- MODULE McpTransport -----------------------------
(***************************************************************************)
(* Calls of an external tool server: shinku/hosts/mcp.py.                  *)
(*                                                                         *)
(* Callers, one at a time, ask the server for its catalogue and then call  *)
(* an admitted tool, through jobs that a worker thread with an event loop  *)
(* takes from a queue.  Nothing is tried again.  The worker may die, hang  *)
(* or be closed between any two steps, the server may change its schema,   *)
(* authority may change at any time, and a wait of a caller may run out.   *)
(* Each caller makes one call.  Left out: arguments, sizes, the admission  *)
(* of the tool, which was done.                                            *)
(***************************************************************************)
EXTENDS Naturals, FiniteSets, Sequences, SequencesExt

CONSTANT Callers

VARIABLES
    caller,     \* where call() is, and what came of it
    lock,       \* who holds the transport
    jobs,       \* the queue of the worker
    coming,     \* jobs handed to the loop that it has not queued yet
    worker,     \* where the worker is, and the job it has
    future,     \* what the worker said of each caller's job
    world,      \* whether the call is authorized, the schema is the admitted
                \* one, the transport is closing
    served      \* history: how often the server began each caller's call

mcpVars == <<caller, lock, jobs, coming, worker, future, world, served>>

NoJob == [of |-> "none", method |-> "none"]
Job(c) == [of |-> c, method |-> IF caller[c].at \in {"starting", "listing"} THEN "list" ELSE "call"]

McpInit ==
    /\ caller = [c \in Callers |-> [at |-> "idle", result |-> "none"]]
    /\ lock = "none" /\ jobs = <<>> /\ coming = {}
    /\ worker = [at |-> "none", job |-> NoJob]
    /\ future = [c \in Callers |-> "none"]
    /\ world = [allowed |-> TRUE, schema |-> TRUE, closing |-> FALSE]
    /\ served = [c \in Callers |-> 0]

-----------------------------------------------------------------------------
(* call, in the thread of its caller *)

Goes(c, at) == caller' = [caller EXCEPT ![c].at = at]

(* The call has ended for its caller, who lets the next one in.            *)
Ends(c, result) ==
    /\ caller' = [caller EXCEPT ![c] = [at |-> "done", result |-> result]]
    /\ lock' = "none"

Thread == <<jobs, coming, worker, served>>

(* The guard, and then the lock.                                           *)
Enter(c) ==
    /\ caller[c].at = "idle" /\ lock = "none"
    /\ IF world.allowed THEN Goes(c, "starting") /\ lock' = c
       ELSE caller' = [caller EXCEPT ![c] = [at |-> "done", result |-> "refused"]] /\ UNCHANGED lock
    /\ UNCHANGED <<future, world>> /\ UNCHANGED Thread

(* _start: the first one makes the worker and waits until it is connected. *)
Up == worker.at \notin {"none", "connecting", "ended"}

StartWorker(c) ==
    /\ caller[c].at \in {"starting", "called"} /\ worker.at = "none"
    /\ ~world.closing /\ world.allowed
    /\ worker' = [worker EXCEPT !.at = "connecting"]
    /\ UNCHANGED <<caller, lock, jobs, coming, future, world, served>>

(* The guard refuses, the transport is closed, or there is no worker; a    *)
(* wait for it that runs out closes the transport.                         *)
Refuse(c) ==
    /\ caller[c].at \in {"starting", "called"}
    /\ \/ ~world.allowed \/ world.closing
       \/ worker.at \in {"connecting", "ended"}
    /\ world' = [world EXCEPT !.closing = @ \/ world.allowed]
    /\ Ends(c, "refused")
    /\ UNCHANGED future /\ UNCHANGED Thread

(* The job is handed to the loop, whether or not it still runs.            *)
Hand(c) ==
    /\ caller[c].at \in {"starting", "called"}
    /\ world.allowed /\ ~world.closing /\ Up
    /\ coming' = coming \cup {Job(c)}
    /\ future' = [future EXCEPT ![c] = "none"]
    /\ Goes(c, IF caller[c].at = "starting" THEN "listing" ELSE "calling")
    /\ UNCHANGED <<lock, jobs, worker, world, served>>

(* The loop did not queue it in time: a bare TimeoutError.                 *)
PutTimesOut(c) ==
    /\ caller[c].at \in {"listing", "calling"} /\ Job(c) \in coming
    /\ Ends(c, "raised")
    /\ UNCHANGED <<future, world>> /\ UNCHANGED Thread

(* The catalogue came: the tool must be as it was admitted.                *)
Listed(c) ==
    /\ caller[c].at = "listing" /\ future[c] \in {"admitted", "changed"}
    /\ IF future[c] = "admitted" THEN Goes(c, "called") /\ UNCHANGED lock ELSE Ends(c, "refused")
    /\ UNCHANGED <<future, world>> /\ UNCHANGED Thread

(* The worker's answer to the call, or its error to either job.            *)
Returns(c) ==
    /\ caller[c].at \in {"listing", "calling"} /\ future[c] \in {"answer", "refused", "unknown"}
    /\ Ends(c, future[c])
    /\ UNCHANGED <<future, world>> /\ UNCHANGED Thread

(* The worker did not answer: the transport is closed.                     *)
Unresponsive(c) ==
    /\ caller[c].at \in {"listing", "calling"} /\ future[c] = "none" /\ Job(c) \notin coming
    /\ world' = [world EXCEPT !.closing = TRUE]
    /\ Ends(c, IF caller[c].at = "calling" THEN "unknown" ELSE "refused")
    /\ UNCHANGED future /\ UNCHANGED Thread

-----------------------------------------------------------------------------
(* _serve, in the loop of the worker *)

Outside == UNCHANGED <<caller, lock, world>>

Connect ==
    /\ worker.at = "connecting"
    /\ \E at \in {"waiting", "ended"} : worker' = [worker EXCEPT !.at = at]
    /\ UNCHANGED <<jobs, coming, future, served>> /\ Outside

(* The put of a job, when the loop gets to it; never when it has ended.    *)
Queue(j) ==
    /\ j \in coming /\ worker.at # "ended"
    /\ coming' = coming \ {j} /\ jobs' = Append(jobs, j)
    /\ UNCHANGED <<worker, future, served>> /\ Outside

Says(j, what) == future' = [future EXCEPT ![j.of] = what]

(* The next job, which its guard may refuse before it is begun; it was     *)
(* waited for before the transport was closed, perhaps.                    *)
Take ==
    /\ worker.at = "waiting" /\ jobs # <<>>
    /\ jobs' = Tail(jobs)
    /\ IF world.allowed
       THEN worker' = [at |-> "begun", job |-> Head(jobs)] /\ UNCHANGED future
       ELSE Says(Head(jobs), "refused") /\ UNCHANGED worker
    /\ UNCHANGED <<coming, served>> /\ Outside

(* Mutant: only a wait that ran out leaves the effect open.                *)
BegunAndWaited(j) == j.method = "call" /\ world.allowed /\ ~world.closing

(* A call that was begun may have had its effect.                          *)
MayHaveEffect(j) == j.method = "call"

Idle(what) ==
    /\ Says(worker.job, what)
    /\ worker' = [at |-> "waiting", job |-> NoJob]

Error == Idle(IF MayHaveEffect(worker.job) THEN "unknown" ELSE "refused")

(* The guard and the closing flag are looked at once more, and then the    *)
(* request leaves.                                                         *)
Send ==
    /\ worker.at = "begun" /\ world.allowed /\ ~world.closing
    /\ worker' = [worker EXCEPT !.at = "running"]
    /\ served' = IF worker.job.method = "call" THEN [served EXCEPT ![worker.job.of] = @ + 1] ELSE served
    /\ UNCHANGED <<jobs, coming, future>> /\ Outside

(* ... as long as the answer is out; it may also fail or be too late.      *)
Break ==
    /\ \/ worker.at \in {"begun", "running"} /\ (~world.allowed \/ world.closing)
       \/ worker.at = "running"
    /\ Error
    /\ UNCHANGED <<jobs, coming, served>> /\ Outside

Answer ==
    /\ worker.at = "running" /\ world.allowed
    /\ Idle(IF worker.job.method = "call" THEN "answer" ELSE IF world.schema THEN "admitted" ELSE "changed")
    /\ UNCHANGED <<jobs, coming, served>> /\ Outside

(* Once it is closing, what waits has not been sent.                       *)
Drain ==
    /\ worker.at = "waiting" /\ world.closing
    /\ worker' = [at |-> "ended", job |-> NoJob] /\ jobs' = <<>>
    /\ future' = [c \in Callers |-> IF \E j \in ToSet(jobs) : j.of = c THEN "refused" ELSE future[c]]
    /\ UNCHANGED <<coming, served>> /\ Outside

(* The connection breaks: nobody hears of the jobs it had.                 *)
Die ==
    /\ worker.at \notin {"none", "ended"}
    /\ worker' = [at |-> "ended", job |-> NoJob] /\ jobs' = <<>>
    /\ UNCHANGED <<coming, future, served>> /\ Outside

-----------------------------------------------------------------------------
(* The world *)

World(w) ==
    /\ world' = w
    /\ UNCHANGED <<caller, lock, future>> /\ UNCHANGED Thread

Close == ~world.closing /\ World([world EXCEPT !.closing = TRUE])
ChangeAuthority == World([world EXCEPT !.allowed = ~@])
ChangeSchema == World([world EXCEPT !.schema = ~@])

McpNext ==
    \/ \E c \in Callers :
          \/ Enter(c) \/ StartWorker(c) \/ Refuse(c) \/ Hand(c) \/ PutTimesOut(c) \/ Listed(c)
          \/ Returns(c) \/ Unresponsive(c)
    \/ \E j \in coming : Queue(j)
    \/ Connect \/ Take \/ Send \/ Break \/ Answer \/ Drain \/ Die
    \/ Close \/ ChangeAuthority \/ ChangeSchema

McpSpec == McpInit /\ [][McpNext]_mcpVars

-----------------------------------------------------------------------------
McpTypeOK ==
    /\ \A c \in Callers :
          /\ caller[c].at \in {"idle", "starting", "listing", "called", "calling", "done"}
          /\ caller[c].result \in {"none", "answer", "refused", "unknown", "raised"}
          /\ future[c] \in {"none", "answer", "admitted", "changed", "refused", "unknown"}
    /\ lock \in Callers \cup {"none"}
    /\ worker.at \in {"none", "connecting", "waiting", "begun", "running", "ended"}

(* The calls the server may still begin.                                   *)
Underway(c) ==
    LET j == [of |-> c, method |-> "call"]
    IN (j \in coming \cup ToSet(jobs) /\ worker.at # "ended") \/ (worker.at = "begun" /\ worker.job = j)

(* A call reaches the server once at most; one whose caller was told that  *)
(* it had no effect was not sent and never will be, whatever died or was   *)
(* late; an answer is the answer to the caller's own call; and one caller  *)
(* at a time has a job with the worker.                                    *)
CallsAreHonest ==
    /\ \A c \in Callers :
          /\ served[c] <= 1
          /\ caller[c].result = "refused" => served[c] = 0 /\ ~Underway(c)
          /\ caller[c].result = "answer" => served[c] = 1
    /\ \A c \in Callers : caller[c].at \in {"starting", "listing", "called", "calling"} <=> lock = c
=============================================================================
