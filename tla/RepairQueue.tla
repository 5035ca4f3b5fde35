----------------------------- MODULE RepairQueue -----------------------------
(***************************************************************************)
(* Self-maintenance: failures become repair jobs, one at a time.           *)
(*                                                                         *)
(*   shinku/maintenance/queue.py   RepairQueue: a ledger of jobs, one per  *)
(*                                 error code and running version          *)
(*   shinku/maintenance/host.py    MaintenanceHost: the loop that owns the *)
(*                                 lock file, collects and runs            *)
(*                                                                         *)
(* The ledger and the evidence files outlive every process; the lock goes  *)
(* with its holder.  What the runner does inside is a choice of outcome.   *)
(***************************************************************************)
EXTENDS Naturals, FiniteSets

CONSTANTS
    Codes,        \* error codes that are seen
    Repairable,   \* those that classify_failure calls "repair"
    Hosts,        \* processes that may run the loop
    MaxPerDay,    \* policy.max_jobs_per_day
    Day,          \* 86400
    EventTtl,     \* policy.event_ttl_seconds
    MaxDate,      \* bound of the clock explored
    MaxVersion    \* bound of the deployments explored

(* What the constants are.                                                 *)
RepairAssumption ==
    /\ Repairable \subseteq Codes
    /\ {MaxPerDay, Day, EventTtl, MaxDate, MaxVersion} \subseteq Nat \ {0}

VARIABLES
    date,        \* the wall clock
    version,     \* policy.version()
    authorized,  \* policy.authorized()
    job,         \* maintenance_jobs: [status, created, updated]
    evidence,    \* the evidence files that exist
    holder,      \* the process whose flock is held, or "none"
    host,        \* per process: [at, key, stopping]
    starts       \* history: when each job was claimed

repairVars == <<date, version, authorized, job, evidence, holder, host, starts>>

Keys == Codes \X (1..MaxVersion)
NoJob == [status |-> "none", created |-> 0, updated |-> 0]
NoKey == CHOOSE k \in Keys : TRUE
Counted == {"running", "candidate_ready", "failed", "stale", "revoked", "interrupted"}
Off == [at |-> "off", key |-> NoKey, stopping |-> FALSE]

RepairInit ==
    /\ date = 1 /\ version = 1 /\ authorized = TRUE
    /\ job = [k \in Keys |-> NoJob] /\ evidence = {}
    /\ holder = "none" /\ host = [h \in Hosts |-> Off]
    /\ starts = [k \in Keys |-> {}]

In(status) == {k \in Keys : job[k].status = status}
HostAt(h, at) == host[h].at = at
HostTo(h, at) == host' = [host EXCEPT ![h].at = at]
World == UNCHANGED <<date, version, authorized>>
Ledger == UNCHANGED <<job, evidence, starts>>

-----------------------------------------------------------------------------
(* The loop *)

Start(h) ==
    /\ HostAt(h, "off") /\ ~host[h].stopping /\ authorized
    /\ HostTo(h, "starting")
    /\ World /\ Ledger /\ UNCHANGED holder

(* Mutant: the jobs a crash left are tried again.                          *)
InterruptedAgain ==
    [k \in Keys |-> IF k \in In("running")
                    THEN [job[k] EXCEPT !.status = "queued", !.updated = date] ELSE job[k]]

(* interrupted: what is running has no owner, for the lock was free.       *)
Interrupted ==
    [k \in Keys |-> IF k \in In("running")
                    THEN [job[k] EXCEPT !.status = "interrupted", !.updated = date] ELSE job[k]]

(* _acquire: a lock that is held, or no authorization, ends the loop.      *)
AcquireLock(h) ==
    /\ HostAt(h, "starting")
    /\ \/ /\ authorized /\ holder = "none"
          /\ holder' = h /\ job' = Interrupted /\ HostTo(h, "looping")
       \/ /\ ~authorized \/ holder # "none"
          /\ HostTo(h, "ended") /\ UNCHANGED <<holder, job>>
    /\ World /\ UNCHANGED <<evidence, starts>>

(* enqueue: one row per code and version, whatever happened to it since.   *)
Enqueued(events) ==
    [k \in Keys |->
        IF k \in events /\ job[k] = NoJob
        THEN [status |-> IF k[1] \in Repairable THEN "queued" ELSE "diagnosis_only",
              created |-> date, updated |-> date]
        ELSE job[k]]

(* tick, up to the claim: a collector that fails is no reason to stop.     *)
Collect(h) ==
    /\ HostAt(h, "looping") /\ ~host[h].stopping /\ authorized
    /\ \E events \in SUBSET {k \in Keys : k[2] = version} : job' = Enqueued(events)
    /\ HostTo(h, "collected")
    /\ World /\ UNCHANGED <<evidence, holder, starts>>

SpentToday ==
    Cardinality({k \in Keys : job[k].status \in Counted /\ job[k].updated + Day >= date})

(* claim: the oldest queued job, or none of them ever again.               *)
Claim(h) ==
    /\ HostAt(h, "collected")
    /\ \/ /\ SpentToday >= MaxPerDay
          /\ job' = [k \in Keys |-> IF k \in In("queued")
                        THEN [job[k] EXCEPT !.status = "budget_blocked", !.updated = date]
                        ELSE job[k]]
          /\ HostTo(h, "looping") /\ UNCHANGED starts
       \/ /\ SpentToday < MaxPerDay /\ In("queued") = {}
          /\ HostTo(h, "looping") /\ UNCHANGED <<job, starts>>
       \/ /\ SpentToday < MaxPerDay
          /\ \E k \in In("queued") :
                /\ \A j \in In("queued") : job[k].created <= job[j].created
                /\ job' = [job EXCEPT ![k].status = "running", ![k].updated = date]
                /\ starts' = [starts EXCEPT ![k] = @ \cup {date}]
                /\ host' = [host EXCEPT ![h].at = "claimed", ![h].key = k]
    /\ World /\ UNCHANGED <<evidence, holder>>

(* finish; a job that is not running is not the caller's, and ends its     *)
(* loop, which gives the lock back.                                        *)
Finish(h, status) ==
    LET k == host[h].key IN
    IF job[k].status = "running"
    THEN /\ job' = [job EXCEPT ![k].status = status, ![k].updated = date]
         /\ HostTo(h, "looping") /\ UNCHANGED holder
    ELSE HostTo(h, "ended") /\ holder' = "none" /\ UNCHANGED job

Unless(h, status) == IF host[h].stopping THEN "interrupted" ELSE status

(* The event of a job was seen at some time up to the row's creation.      *)
Fresh(k, observed) == k[2] = version /\ date <= observed + EventTtl

(* tick, from the claim to the runner's start: authorization, version and  *)
(* age are looked at again, and the evidence file must be new.  More       *)
(* evidence may be read before that, which may fail.                       *)
Prepare(h) ==
    LET k == host[h].key IN
    /\ HostAt(h, "claimed")
    /\ \/ ~authorized /\ Finish(h, Unless(h, "revoked")) /\ UNCHANGED evidence
       \/ /\ authorized /\ \E observed \in 0..job[k].created : ~Fresh(k, observed)
          /\ Finish(h, "stale") /\ UNCHANGED evidence
       \/ /\ authorized /\ Fresh(k, job[k].created)
          /\ Finish(h, Unless(h, "failed")) /\ UNCHANGED evidence
       \/ /\ authorized /\ Fresh(k, job[k].created) /\ k \notin evidence
          /\ evidence' = evidence \cup {k}
          /\ HostTo(h, "running") /\ UNCHANGED <<job, holder>>
    /\ World /\ UNCHANGED starts

(* The runner returns a candidate or raises; without authorization even a  *)
(* candidate is revoked.                                                   *)
RunnerReturns(h) ==
    /\ HostAt(h, "running")
    /\ \/ authorized /\ Finish(h, "candidate_ready")
       \/ ~authorized /\ Finish(h, Unless(h, "revoked"))
       \/ Finish(h, Unless(h, "failed"))
    /\ World /\ UNCHANGED <<evidence, starts>>

Leave(h) ==
    /\ HostAt(h, "looping") /\ (host[h].stopping \/ ~authorized)
    /\ holder' = "none" /\ HostTo(h, "ended")
    /\ World /\ Ledger

(* stop: asks, waits five seconds and goes on, whatever the loop does.     *)
StopHost(h) ==
    /\ ~host[h].stopping /\ host' = [host EXCEPT ![h].stopping = TRUE]
    /\ World /\ Ledger /\ UNCHANGED holder

-----------------------------------------------------------------------------
(* Around it *)

(* The process ends; the system takes its lock, and another may start.     *)
ProcessDies(h) ==
    /\ ~HostAt(h, "off")
    /\ holder' = IF holder = h THEN "none" ELSE holder
    /\ host' = [host EXCEPT ![h] = Off]
    /\ World /\ Ledger

Authorize == authorized' = ~authorized /\ UNCHANGED <<date, version, job, evidence, holder, host, starts>>
Deploy == version < MaxVersion /\ version' = version + 1
    /\ UNCHANGED <<date, authorized, job, evidence, holder, host, starts>>
Wait == date < MaxDate /\ date' = date + 1
    /\ UNCHANGED <<version, authorized, job, evidence, holder, host, starts>>

RepairNext ==
    \/ \E h \in Hosts :
          \/ Start(h) \/ AcquireLock(h) \/ Collect(h) \/ Claim(h) \/ Prepare(h)
          \/ RunnerReturns(h) \/ Leave(h) \/ StopHost(h) \/ ProcessDies(h)
    \/ Authorize \/ Deploy \/ Wait

RepairSpec == RepairInit /\ [][RepairNext]_repairVars

-----------------------------------------------------------------------------
(* Properties *)

RepairTypeOK ==
    /\ date \in 1..MaxDate /\ version \in 1..MaxVersion /\ authorized \in BOOLEAN
    /\ job \in [Keys -> [status : Counted \cup {"none", "queued", "diagnosis_only", "budget_blocked"},
                         created : 0..MaxDate, updated : 0..MaxDate]]
    /\ evidence \subseteq Keys
    /\ holder \in Hosts \cup {"none"}
    /\ host \in [Hosts -> [at : {"off", "starting", "looping", "collected", "claimed", "running", "ended"},
                           key : Keys, stopping : BOOLEAN]]
    /\ starts \in [Keys -> SUBSET (1..MaxDate)]

(* Across crashes, second processes and withdrawn authorizations: a repair *)
(* is begun once or, when the day's limit refused it, never; one runs at a *)
(* time, under the lock; and no day sees more of them than the policy      *)
(* allows, whichever day it is counted from.                               *)
RepairsAreRationed ==
    /\ \A k \in Keys : Cardinality(starts[k]) <= 1
    /\ \A k \in In("queued") \cup In("budget_blocked") \cup In("diagnosis_only") : starts[k] = {}
    /\ \A h \in Hosts : host[h].at \in {"claimed", "running"} =>
          holder = h /\ In("running") = {host[h].key}
    /\ \A d \in 1..MaxDate :
          Cardinality({k \in Keys : \E t \in starts[k] : d <= t /\ t <= d + Day}) <= MaxPerDay
=============================================================================
