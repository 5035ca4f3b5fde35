------------------------------ MODULE BatchTask ------------------------------
(***************************************************************************)
(* A finite batch that outlives the runs that work on it                   *)
(* (shinku/agent/batch_task.py).  BatchTaskStore keeps one row per job and *)
(* one per chunk in SQLite; every method is one IMMEDIATE transaction and  *)
(* so one action.  BatchRunner.run claims the job under a lease of Lease   *)
(* ticks, reserves and pays for each call before it makes it, and ends the *)
(* lease.  Runners stand for tool invocations: a runner may die at any     *)
(* point, or be so slow that its lease lapses and another takes over, and  *)
(* the user may cancel between any two steps.                              *)
(*                                                                         *)
(* Left out: the length of translations (a chunk either fits into what is  *)
(* left of max_output_chars or not, an input), the reasons' wording and    *)
(* what publish writes.                                                    *)
(***************************************************************************)
EXTENDS Naturals, FiniteSetsExt

CONSTANTS
    Chunks,       \* ordinals, a range 1..n
    Runners,      \* concurrent invocations of BatchRunner.run
    MaxCalls,     \* budget.max_calls
    MaxSeconds,   \* budget.max_seconds, in ticks
    Lease,        \* 900 seconds, in ticks
    MaxClock      \* bound on the model's clock

VARIABLES
    now,          \* the store's clock
    row,          \* the job's payload
    chunks,       \* the rows of batch_chunks: calls made and translated or not
    runner        \* the local state of each invocation

batchVars == <<now, row, chunks, runner>>

Nobody  == "nobody"
Never   == MaxClock + 1
Verdict == {"completed", "canceled"}

(* chunk is 0 when the runner holds no reserved chunk.                     *)
Away == [at |-> "away", chunk |-> 0, failures |-> 0]

BatchInit ==
    /\ now = 0
    /\ row = [status |-> "queued", cancel |-> FALSE, lease |-> Nobody, until |-> 0,
              started |-> Never, calls |-> 0, seconds |-> 0]
    /\ chunks = [c \in Chunks |-> [calls |-> 0, translated |-> FALSE]]
    /\ runner = [r \in Runners |-> Away]

-----------------------------------------------------------------------------
(* The store.                                                              *)

Missing == {c \in Chunks : ~chunks[c].translated}

(* Mutant: the lapsed call is charged but stays on the books.              *)
OverdueKept == row.started

(* A call that was begun and never accounted for is charged at the most    *)
(* its lease allowed, and struck off.                                      *)
Overdue == Never

Charge(limit) == IF row.started = Never THEN 0 ELSE Min({limit, now - row.started})

(* A token names its runner: a runner that claims again has lost the old   *)
(* one by then.                                                            *)
Leased(r) == row.lease = r

-----------------------------------------------------------------------------
(* One invocation.                                                         *)

Goto(r, place) == runner' = [runner EXCEPT ![r] = [@ EXCEPT !.at = place]]
Quit(r)        == runner' = [runner EXCEPT ![r] = Away]

(* claim: refused while a lease is running, answered with the job as it    *)
(* stands once it is over.                                                 *)
Claim(r) ==
    /\ runner[r].at = "away"
    /\ ~row.cancel /\ row.status # "completed"
    /\ row.lease # Nobody => row.until <= now
    /\ row' = [row EXCEPT !.seconds = @ + Charge(Lease), !.lease = r, !.until = now + Lease,
                          !.started = Overdue, !.status = "running"]
    /\ Goto(r, "next")
    /\ UNCHANGED <<now, chunks>>

(* reserve: pays for the first missing chunk, or leaves the loop.          *)
Affordable == row.calls < MaxCalls

Reserve(r) ==
    /\ runner[r].at = "next" /\ Leased(r)
    /\ UNCHANGED now
    /\ \/ /\ row.cancel \/ Missing = {}
          /\ Goto(r, "ending")
          /\ UNCHANGED <<row, chunks>>
       \/ /\ ~row.cancel /\ Missing # {}
          /\ ~Affordable \/ row.seconds >= MaxSeconds
          /\ row' = [row EXCEPT !.status = "paused"]
          /\ Goto(r, "ending")
          /\ UNCHANGED chunks
       \/ /\ ~row.cancel /\ Missing # {}
          /\ Affordable /\ row.seconds < MaxSeconds
          /\ row' = [row EXCEPT !.calls = @ + 1, !.started = now, !.until = now + Lease]
          /\ chunks' = [chunks EXCEPT ![Min(Missing)].calls = @ + 1]
          /\ runner' = [runner EXCEPT ![r] = [@ EXCEPT !.at = "call", !.chunk = Min(Missing)]]

(* finish_call: the time is charged whatever came back, and the answer of  *)
(* a canceled job is thrown away.  `want` is what the call came to.        *)
FinishCall(r, want) ==
    LET billed == [row EXCEPT !.seconds = @ + Charge(MaxClock), !.started = Never]
        c      == runner[r].chunk
        twice  == runner[r].failures = 1
    IN  /\ runner[r].at = "call" /\ Leased(r)
        /\ row' = IF want = "too_long" /\ ~row.cancel THEN [billed EXCEPT !.status = "paused"]
                  ELSE billed
        /\ chunks' = IF want = "translated" /\ ~row.cancel
                     THEN [chunks EXCEPT ![c].translated = TRUE] ELSE chunks
        /\ runner' = [runner EXCEPT ![r] =
               IF want = "failed"
               THEN [at |-> IF twice THEN "ending" ELSE "next", chunk |-> 0,
                     failures |-> IF twice THEN 0 ELSE 1]
               ELSE [Away EXCEPT !.at = "progress"]]
        /\ UNCHANGED now

(* on_progress, and the job read again: the loop ends unless it runs.      *)
Progress(r) ==
    /\ runner[r].at = "progress"
    /\ Goto(r, IF row.status = "running" THEN "next" ELSE "ending")
    /\ UNCHANGED <<now, row, chunks>>

(* After the loop: the job is read once more and published when every      *)
(* chunk is there.                                                         *)
Publish(r) ==
    /\ runner[r].at = "ending"
    /\ runner' = [runner EXCEPT ![r] = [Away EXCEPT !.at =
           IF row.status = "running" /\ Missing = {} THEN "published" ELSE "closing"]]
    /\ UNCHANGED <<now, row, chunks>>

(* finish                                                                  *)
(* Mutant: the artifact that was published decides, canceled or not.       *)
ConclusionPublished(r) ==
    IF runner[r].at = "published" THEN "completed"
    ELSE IF row.status = "running" THEN "paused"
    ELSE row.status

Conclusion(r) ==
    IF row.cancel THEN "canceled" ELSE ConclusionPublished(r)

Close(r) ==
    /\ runner[r].at \in {"closing", "published"} /\ Leased(r)
    /\ row' = [row EXCEPT !.status = Conclusion(r), !.lease = Nobody, !.until = 0]
    /\ Quit(r)
    /\ UNCHANGED <<now, chunks>>

(* guard, on_progress or publish raise, or the database refuses to account *)
(* for a call or to finish: the run ends, and finishes once more, without  *)
(* an artifact.                                                            *)
Fail(r) ==
    /\ runner[r].at \in {"next", "call", "progress", "ending", "published"}
    /\ runner' = [runner EXCEPT ![r] = [Away EXCEPT !.at = "closing"]]
    /\ UNCHANGED <<now, row, chunks>>

(* Any transaction of a runner whose lease another one has taken raises    *)
(* batch_lease_lost, and so does the finish that follows.                  *)
LeaseLost(r) ==
    /\ runner[r].at \in {"next", "call", "closing", "published"} /\ ~Leased(r)
    /\ Quit(r)
    /\ UNCHANGED <<now, row, chunks>>

(* The process of a runner ends: its lease stands until it lapses.         *)
Crash(r) ==
    /\ runner[r].at # "away"
    /\ Quit(r)
    /\ UNCHANGED <<now, row, chunks>>

-----------------------------------------------------------------------------
(* The user, and time.                                                     *)

Cancel ==
    /\ row.status # "completed"
    /\ row' = [row EXCEPT !.cancel = TRUE, !.status = "canceled"]
    /\ UNCHANGED <<now, chunks, runner>>

Pass ==
    /\ now < MaxClock
    /\ now' = now + 1
    /\ UNCHANGED <<row, chunks, runner>>

Run(r) ==
    \/ Claim(r) \/ Reserve(r) \/ Progress(r) \/ Publish(r) \/ Close(r)
    \/ \E want \in {"translated", "too_long", "failed"} : FinishCall(r, want)
    \/ Fail(r) \/ LeaseLost(r) \/ Crash(r)

BatchNext == (\E r \in Runners : Run(r)) \/ Cancel \/ Pass

BatchSpec == BatchInit /\ [][BatchNext]_batchVars

-----------------------------------------------------------------------------
BatchTypeOK ==
    /\ now \in 0..MaxClock
    /\ row \in [status : {"queued", "running", "paused"} \cup Verdict, cancel : BOOLEAN,
                lease : Runners \cup {Nobody}, until : 0..(MaxClock + Lease),
                started : 0..Never, calls : Nat, seconds : Nat]
    /\ chunks \in [Chunks -> [calls : Nat, translated : BOOLEAN]]
    /\ runner \in [Runners -> [at : {"away", "next", "call", "progress", "ending",
                                     "closing", "published"},
                               chunk : Chunks \cup {0}, failures : {0, 1}]]

(* The budget is the job's and not the run's: whatever crashes, lapses,    *)
(* fails and is claimed again, the calls paid for are the calls made and   *)
(* never more than the budget, and no second is charged twice (reserve,    *)
(* claim and finish_call of BatchTaskStore).                               *)
BudgetSpansRuns ==
    /\ row.calls = MapThenSumSet(LAMBDA c : chunks[c].calls, Chunks)
    /\ row.calls <= MaxCalls
    /\ row.seconds <= now

(* A chunk once translated stays translated, a canceled job stays canceled *)
(* although a run was about to complete it, and a completed one stays      *)
(* completed and has every chunk (cancel, finish_call and finish).         *)
VerdictKept ==
    /\ \A c \in Chunks : chunks[c].translated => chunks'[c].translated
    /\ row.status \in Verdict => row'.status = row.status
    /\ row'.status = "completed" => \A c \in Chunks : chunks'[c].translated

VerdictStands == [][VerdictKept]_batchVars
=============================================================================
