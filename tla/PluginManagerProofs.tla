------------------------ MODULE PluginManagerProofs ------------------------
(***************************************************************************)
(* Theorems about PluginManager for every set of plugins, every relation   *)
(* of dependency and every number of threads and calls.                    *)
(*                                                                         *)
(* That a plugin is closed after its last use is not inductive: a thread   *)
(* that is about to close has looked at the lease and at the dependents    *)
(* some steps before.  PluginInv says what it may go on relying on: the    *)
(* count of a lease is the number of threads that call; a lease that was   *)
(* stopped and has drained stays so; and a plugin that is no longer active *)
(* gets no new dependents.  It does not matter which plugins a thread      *)
(* disables, and in which order: the invariant speaks of a thread only     *)
(* where it is busy with a plugin.                                         *)
(***************************************************************************)
EXTENDS MCLive, TaskCoordinatorProofs

Calling(p) == {t \in Threads : thread[t].at = "calling" /\ thread[t].on = p}

Stopped(p) == Status(p) \notin {"pending", "active"}

Tables ==
    /\ plugin \in [Plugins -> [status : {"pending", "active", "draining", "failed", "disabled"},
                               instance : BOOLEAN, ready : BOOLEAN, started : BOOLEAN,
                               done : BOOLEAN]]
    /\ lease \in [Plugins -> [running : Nat, stopping : BOOLEAN, cleanup : BOOLEAN]]
    /\ closes \in [Plugins -> Nat]
    /\ thread = [t \in Threads |-> [at |-> thread[t].at, on |-> thread[t].on,
                                    todo |-> thread[t].todo, failed |-> thread[t].failed,
                                    scan |-> thread[t].scan]]

(* A plugin and its lease.                                                 *)
PluginOK(p) ==
    /\ Status(p) = "pending" =>
          /\ ~plugin[p].instance /\ ~plugin[p].started /\ ~plugin[p].ready
          /\ lease[p].running = 0
    /\ lease[p].stopping \/ plugin[p].ready \/ plugin[p].started => Stopped(p)
    /\ plugin[p].ready => lease[p].stopping /\ lease[p].running = 0
    /\ plugin[p].started => lease[p].running = 0 /\ ~Waiting(p)
    /\ closes[p] = IF plugin[p].started THEN 1 ELSE 0
    /\ lease[p].running = Cardinality(Calling(p))
    /\ plugin[p].instance => \A d \in DependsOn[p] : Status(d) # "pending"

(* A thread that has begun to end a plugin.                                *)
ThreadOK(t) ==
    LET p == thread[t].on IN
    p \in Plugins =>
        /\ thread[t].at = "sealing" => Stopped(p)
        /\ thread[t].at = "drained" => lease[p].stopping /\ lease[p].running = 0
        /\ thread[t].at = "cleaning" => plugin[p].ready /\ ~Waiting(p)

PluginInv ==
    /\ Tables
    /\ \A p \in Plugins : PluginOK(p)
    /\ \A t \in Threads : ThreadOK(t)
-----------------------------------------------------------------------------
(* How a thread moves.                                                     *)

(* Thread t comes to x, busy with o; the others stay where they are.       *)
Moves(t, x, o) ==
    /\ thread' = [u \in Threads |-> [at |-> thread'[u].at, on |-> thread'[u].on,
                                     todo |-> thread'[u].todo, failed |-> thread'[u].failed,
                                     scan |-> thread'[u].scan]]
    /\ thread'[t].at = x /\ thread'[t].on = o
    /\ \A u \in Threads \ {t} : thread'[u] = thread[u]

(* A thread's record is replaced by another one.                           *)
LEMMA Replaced ==
    ASSUME Tables, NEW t \in Threads, NEW x, NEW o, NEW d, NEW f, NEW s,
           thread' = [thread EXCEPT ![t] = [at |-> x, on |-> o, todo |-> d,
                                            failed |-> f, scan |-> s]]
    PROVE  Moves(t, x, o)
<1> DEFINE r == [at |-> x, on |-> o, todo |-> d, failed |-> f, scan |-> s]
<1>1. /\ DOMAIN thread = Threads
      /\ \A u \in Threads :
            thread[u] = [at |-> thread[u].at, on |-> thread[u].on, todo |-> thread[u].todo,
                         failed |-> thread[u].failed, scan |-> thread[u].scan]
  BY DEF Tables
<1>2. /\ r.at = x /\ r.on = o
      /\ r = [at |-> r.at, on |-> r.on, todo |-> r.todo, failed |-> r.failed, scan |-> r.scan]
  OBVIOUS
<1>3. thread' = [thread EXCEPT ![t] = r]
  OBVIOUS
<1> HIDE DEF r
<1>4. /\ thread' = [u \in Threads |-> IF u = t THEN r ELSE thread[u]]
  BY <1>1, <1>3
<1>5. \A u \in Threads : thread'[u] = IF u = t THEN r ELSE thread[u]
  BY <1>4
<1>6. /\ thread'[t] = r
      /\ \A u \in Threads \ {t} : thread'[u] = thread[u]
  BY <1>5
<1>7. \A u \in Threads :
         thread'[u] = [at |-> thread'[u].at, on |-> thread'[u].on, todo |-> thread'[u].todo,
                       failed |-> thread'[u].failed, scan |-> thread'[u].scan]
  <2> TAKE u \in Threads
  <2>1. CASE u = t
    BY <1>2, <1>6, <2>1
  <2>2. CASE u # t
    BY <1>1, <1>6, <2>2
  <2> QED BY <2>1, <2>2
<1>8. thread' = [u \in Threads |-> thread'[u]]
  BY <1>4, <1>5
<1>9. thread' = [u \in Threads |-> [at |-> thread'[u].at, on |-> thread'[u].on,
                                    todo |-> thread'[u].todo, failed |-> thread'[u].failed,
                                    scan |-> thread'[u].scan]]
  BY <1>7, <1>8
<1> QED BY <1>2, <1>6, <1>9 DEF Moves

(* The forms in which the actions write it.                                *)
LEMMA Forms ==
    ASSUME Tables, NEW t \in Threads, NEW x, NEW o, NEW d, NEW f, NEW s
    PROVE  /\ Goes(t, x) => Moves(t, x, thread[t].on)
           /\ thread' = [thread EXCEPT ![t].at = x, ![t].on = o] => Moves(t, x, o)
           /\ thread' = [thread EXCEPT ![t].at = x, ![t].todo = d, ![t].failed = f]
                 => Moves(t, x, thread[t].on)
           /\ thread' = [thread EXCEPT ![t].at = x, ![t].on = o, ![t].todo = d, ![t].failed = f]
                 => Moves(t, x, o)
           /\ thread' = [thread EXCEPT ![t].todo = d, ![t].failed = f]
                 => Moves(t, thread[t].at, thread[t].on)
           /\ thread' = [thread EXCEPT ![t].at = x, ![t].scan = s] => Moves(t, x, thread[t].on)
           /\ thread' = [thread EXCEPT ![t].at = x, ![t].on = o, ![t].scan = s] => Moves(t, x, o)
<1>1. thread[t] = [at |-> thread[t].at, on |-> thread[t].on, todo |-> thread[t].todo,
                   failed |-> thread[t].failed, scan |-> thread[t].scan]
  BY DEF Tables
<1> DEFINE Put(r) == thread' = [thread EXCEPT ![t] = r]
<1>2. Goes(t, x) => Put([at |-> x, on |-> thread[t].on, todo |-> thread[t].todo,
                         failed |-> thread[t].failed, scan |-> thread[t].scan])
  BY <1>1 DEF Goes
<1>3. thread' = [thread EXCEPT ![t].at = x, ![t].on = o]
         => Put([at |-> x, on |-> o, todo |-> thread[t].todo,
                 failed |-> thread[t].failed, scan |-> thread[t].scan])
  BY <1>1
<1>4. thread' = [thread EXCEPT ![t].at = x, ![t].todo = d, ![t].failed = f]
         => Put([at |-> x, on |-> thread[t].on, todo |-> d,
                 failed |-> f, scan |-> thread[t].scan])
  BY <1>1
<1>5. thread' = [thread EXCEPT ![t].at = x, ![t].on = o, ![t].todo = d, ![t].failed = f]
         => Put([at |-> x, on |-> o, todo |-> d, failed |-> f, scan |-> thread[t].scan])
  BY <1>1
<1>6. thread' = [thread EXCEPT ![t].todo = d, ![t].failed = f]
         => Put([at |-> thread[t].at, on |-> thread[t].on, todo |-> d,
                 failed |-> f, scan |-> thread[t].scan])
  BY <1>1
<1>7. thread' = [thread EXCEPT ![t].at = x, ![t].scan = s]
         => Put([at |-> x, on |-> thread[t].on, todo |-> thread[t].todo,
                 failed |-> thread[t].failed, scan |-> s])
  BY <1>1
<1>8. thread' = [thread EXCEPT ![t].at = x, ![t].on = o, ![t].scan = s]
         => Put([at |-> x, on |-> o, todo |-> thread[t].todo,
                 failed |-> thread[t].failed, scan |-> s])
  BY <1>1
<1>9. ASSUME NEW a, NEW b, NEW i, NEW j, NEW k,
             Put([at |-> a, on |-> b, todo |-> i, failed |-> j, scan |-> k])
      PROVE  Moves(t, a, b)
  BY <1>9, Replaced
<1> HIDE DEF Put
<1> QED BY <1>2, <1>3, <1>4, <1>5, <1>6, <1>7, <1>8, <1>9, Zenon

-----------------------------------------------------------------------------
(* What a step leaves alone.                                               *)

(* Nothing about the leases' calls changes when a thread that is not in a  *)
(* call moves somewhere else.                                              *)
LEMMA CallsKept ==
    ASSUME NEW t \in Threads, NEW x, NEW o, Moves(t, x, o),
           thread[t].at # "calling", x # "calling", NEW p \in Plugins
    PROVE  Calling(p)' = Calling(p)
BY DEF Moves, Calling

(* A plugin that has stopped stays stopped; what is ready, sealed or done  *)
(* stays so; and only a plugin whose dependencies are active is built.     *)
Onward ==
    \A p \in Plugins :
        /\ Stopped(p) => Stopped(p)'
        /\ Status(p) # "pending" => Status(p)' # "pending"
        /\ plugin[p].ready => plugin'[p].ready
        /\ lease[p].stopping => lease'[p].stopping /\ lease'[p].running <= lease[p].running
        /\ plugin[p].done => plugin'[p].done
        /\ plugin'[p].instance /\ ~plugin'[p].done =>
              \/ plugin[p].instance /\ ~plugin[p].done
              \/ \A d \in DependsOn[p] : Status(d) = "active"

(* No new dependent waits for a plugin that has stopped.                   *)
LEMMA WaitingKept ==
    ASSUME Onward, NEW p \in Plugins, Stopped(p), ~Waiting(p)
    PROVE  ~Waiting(p)'
BY DEF Onward, Waiting, Dependents, Stopped

(* Who was about to end a plugin can go on.                                *)
LEMMA OtherThreadsKept ==
    ASSUME PluginInv, Tables', Onward, NEW t \in Threads, thread'[t] = thread[t]
    PROVE  ThreadOK(t)'
<1> DEFINE p == thread[t].on
<1>1. CASE p \notin Plugins
  BY <1>1 DEF ThreadOK
<1>2. CASE p \in Plugins
  <2>1. ThreadOK(t) /\ PluginOK(p)
    BY <1>2 DEF PluginInv
  <2>2. thread[t].at = "cleaning" => ~Waiting(p)'
    BY <1>2, <2>1, WaitingKept DEF ThreadOK, PluginOK
  <2>3. lease[p].running \in Nat /\ lease'[p].running \in Nat
    BY <1>2 DEF PluginInv, Tables
  <2> QED BY <1>2, <2>1, <2>2, <2>3 DEF ThreadOK, Onward
<1> QED BY <1>1, <1>2

(* A plugin whose marks, lease and calls are as they were.                 *)
LEMMA PluginKept ==
    ASSUME PluginInv, Onward, NEW p \in Plugins, Calling(p)' = Calling(p),
           lease'[p] = lease[p], closes'[p] = closes[p],
           \/ plugin'[p].status = plugin[p].status
           \/ plugin[p].status # "pending" /\ plugin'[p].status \notin {"pending", "active"},
           plugin'[p].instance = plugin[p].instance, plugin'[p].ready = plugin[p].ready,
           plugin'[p].started = plugin[p].started
    PROVE  PluginOK(p)'
<1>1. PluginOK(p)
  BY DEF PluginInv
<1>2. plugin[p].started => ~Waiting(p)'
  BY <1>1, WaitingKept DEF PluginOK
<1>3. Status(p)' = "pending" => Status(p) = "pending"
  BY DEF Status
<1>4. lease[p].stopping \/ plugin[p].ready \/ plugin[p].started => Stopped(p)'
  BY <1>1 DEF PluginOK, Stopped, Onward
<1>5. lease'[p].running = Cardinality(Calling(p)')
  BY <1>1 DEF PluginOK
<1>6. Status(p)' = "pending" =>
         /\ ~plugin'[p].instance /\ ~plugin'[p].started /\ ~plugin'[p].ready
         /\ lease'[p].running = 0
  BY <1>1, <1>3 DEF PluginOK
<1>7. /\ lease'[p].stopping \/ plugin'[p].ready \/ plugin'[p].started => Stopped(p)'
      /\ plugin'[p].ready => lease'[p].stopping /\ lease'[p].running = 0
      /\ plugin'[p].started => lease'[p].running = 0 /\ ~Waiting(p)'
  BY <1>1, <1>2, <1>4 DEF PluginOK
<1>8. closes'[p] = IF plugin'[p].started THEN 1 ELSE 0
  BY <1>1 DEF PluginOK
<1>9. plugin'[p].instance => \A d \in DependsOn[p] : Status(d)' # "pending"
  <2>1. DependsOn[p] \subseteq Plugins
    BY PluginAssumption
  <2> QED BY <1>1, <2>1 DEF PluginOK, Onward
<1> QED BY <1>5, <1>6, <1>7, <1>8, <1>9 DEF PluginOK

(* What every step has to show.                                            *)
Kept == Tables /\ (\A p \in Plugins : PluginOK(p)) /\ (\A t \in Threads : ThreadOK(t))

-----------------------------------------------------------------------------
(* Steps that change nothing but a thread.                                 *)

(* Where plugins and leases stay as they are, nothing goes back.            *)
LEMMA Still ==
    ASSUME PluginInv, UNCHANGED <<plugin, lease>>
    PROVE  Onward
<1>1. \A p \in Plugins : lease[p].running \in Nat
  BY DEF PluginInv, Tables
<1> QED BY <1>1 DEF Onward, Stopped, Status

(* A thread that only moves keeps everything, if it may be where it comes. *)
LEMMA RoamKept ==
    ASSUME PluginInv, NEW t \in Threads, NEW x, NEW o, Moves(t, x, o),
           thread[t].at # "calling", x # "calling",
           UNCHANGED <<plugin, lease, closes>>,
           x \in {"sealing", "drained"} => o \notin Plugins,
           x = "cleaning" /\ o \in Plugins => plugin[o].ready /\ ~Waiting(o)
    PROVE  Kept'
<1>1. Tables'
  BY DEF PluginInv, Tables, Moves
<1>2. Onward
  BY Still
<1>3. ASSUME NEW p \in Plugins PROVE PluginOK(p)'
  <2>1. Calling(p)' = Calling(p)
    BY CallsKept
  <2>2. plugin' = plugin /\ lease' = lease /\ closes' = closes
    OBVIOUS
  <2> QED BY <1>2, <2>1, <2>2, PluginKept
<1>4. ASSUME NEW u \in Threads PROVE ThreadOK(u)'
  <2>1. CASE u = t
    BY <2>1 DEF Moves, ThreadOK, Waiting
  <2>2. CASE u # t
    BY <1>1, <1>2, <2>2, OtherThreadsKept DEF Moves
  <2> QED BY <2>1, <2>2
<1> QED BY <1>1, <1>3, <1>4 DEF Kept

(* Disable and Conflict, whatever order they come to disable in.           *)
LEMMA DisableKept ==
    ASSUME PluginInv, NEW t \in Threads, NEW p \in Plugins, Disable(t, p) \/ Conflict(t, p)
    PROVE  Kept'
<1>1. PICK d, f : Sets(t, d, f)
  BY DEF Disable, Conflict
<1>2. Moves(t, "disabling", thread[t].on)
  BY <1>1, Forms DEF Sets, PluginInv
<1>3. thread[t].at # "calling" /\ UNCHANGED <<plugin, lease, closes>>
  BY DEF Disable, Conflict
<1> QED BY <1>2, <1>3, RoamKept

(* A thread begins to close only what it sees to be drained and unused.    *)
LEMMA LookKept ==
    ASSUME PluginInv, NEW t \in Threads, Look(t)
    PROVE  Kept'
<1>1. thread[t].at = "scanning" /\ UNCHANGED <<plugin, lease, closes>>
  BY DEF Look
<1>2. CASE Goes(t, IF thread[t].todo = <<>> THEN "idle" ELSE "disabling")
  <2> DEFINE x == IF thread[t].todo = <<>> THEN "idle" ELSE "disabling"
  <2>1. x \in {"idle", "disabling"}
    OBVIOUS
  <2>2. Goes(t, x)
    BY <1>2
  <2> HIDE DEF x
  <2>3. Moves(t, x, thread[t].on)
    BY <2>2, Forms DEF PluginInv
  <2> QED BY <1>1, <2>1, <2>3, RoamKept
<1>3. CASE ~Goes(t, IF thread[t].todo = <<>> THEN "idle" ELSE "disabling")
  <2> DEFINE o == Head(thread[t].scan)
             x == IF Closable(o) THEN "cleaning" ELSE thread[t].at
  <2>1. thread' = [thread EXCEPT ![t].at = x, ![t].on = o, ![t].scan = Tail(thread[t].scan)]
    BY <1>3 DEF Look
  <2>2. x \in {"cleaning", "scanning"} /\ (x = "cleaning" => Closable(o))
    BY <1>1
  <2> HIDE DEF x, o
  <2>3. Moves(t, x, o)
    BY <2>1, Forms DEF PluginInv
  <2> QED BY <1>1, <2>2, <2>3, RoamKept DEF Closable
<1> QED BY <1>2, <1>3

-----------------------------------------------------------------------------
(* start.                                                                  *)

(* A plugin that waits to be built is used by nobody and needed by none.   *)
LEMMA PendingFacts ==
    ASSUME PluginInv, NEW p \in Plugins, Status(p) = "pending"
    PROVE  /\ ~lease[p].stopping /\ ~plugin[p].instance /\ ~plugin[p].ready
           /\ ~plugin[p].started /\ lease[p].running = 0 /\ closes[p] = 0
           /\ \A q \in Plugins : p \in DependsOn[q] => ~plugin[q].instance
BY DEF PluginInv, PluginOK, Stopped

(* One plugin changes while it is pending, and stops to be.                *)
LEMMA StartKept ==
    ASSUME PluginInv, NEW p \in Plugins, Status(p) = "pending",
           UNCHANGED <<lease, thread>>, Tables',
           \A q \in Plugins \ {p} : plugin'[q] = plugin[q] /\ closes'[q] = closes[q],
           plugin'[p].status # "pending", ~plugin'[p].ready,
           plugin'[p].instance => \A d \in DependsOn[p] : Status(d) = "active",
           plugin'[p].done \/ ~plugin[p].done,
           plugin'[p].started => plugin'[p].status # "active",
           closes'[p] = IF plugin'[p].started THEN 1 ELSE 0
    PROVE  Kept'
<1>1. /\ ~lease[p].stopping /\ ~plugin[p].instance /\ ~plugin[p].ready
      /\ ~plugin[p].started /\ lease[p].running = 0
      /\ \A q \in Plugins : p \in DependsOn[q] => ~plugin[q].instance
  BY PendingFacts
<1>2. \A q \in Plugins : lease[q].running \in Nat /\ DependsOn[q] \subseteq Plugins
  BY PluginAssumption DEF PluginInv, Tables
<1>3. p \notin DependsOn[p] \/ ~plugin'[p].instance
  BY DEF Status
<1>4. Onward
  <2>1. ASSUME NEW q \in Plugins \ {p} PROVE plugin'[q] = plugin[q]
    OBVIOUS
  <2> QED BY <1>1, <1>2, <2>1 DEF Onward, Stopped, Status
<1>5. \A q \in Plugins : Calling(q)' = Calling(q)
  BY DEF Calling
<1>6. ASSUME NEW q \in Plugins \ {p} PROVE PluginOK(q)'
  <2>1. plugin'[q] = plugin[q] /\ closes'[q] = closes[q] /\ lease' = lease
    OBVIOUS
  <2> QED BY <1>4, <1>5, <2>1, PluginKept
<1>7. PluginOK(p)'
  <2>1. lease'[p].running = Cardinality(Calling(p)')
    BY <1>5 DEF PluginInv, PluginOK
  <2>2. ~Waiting(p)'
    <3>1. ASSUME NEW q \in Plugins, p \in DependsOn[q] PROVE ~plugin'[q].instance
      BY <1>1, <1>3, <3>1
    <3> QED BY <3>1 DEF Waiting, Dependents
  <2>3. plugin'[p].instance => \A d \in DependsOn[p] : Status(d)' # "pending"
    BY <1>2, <1>3 DEF Status
  <2> QED BY <1>1, <2>1, <2>2, <2>3 DEF PluginOK, Stopped, Status
<1>8. ASSUME NEW t \in Threads PROVE ThreadOK(t)'
  BY <1>4, OtherThreadsKept
<1> QED BY <1>6, <1>7, <1>8 DEF Kept

(* Activate and Refuse: start builds a plugin, gives it up, or leaves it.  *)
LEMMA ActivateKept ==
    ASSUME PluginInv, NEW p \in Plugins, Activate(p) \/ Refuse(p)
    PROVE  Kept'
<1>1. Status(p) = "pending" /\ UNCHANGED <<lease, thread>>
  BY DEF Activate, Refuse
<1>2. /\ ~plugin[p].instance /\ ~plugin[p].ready /\ ~plugin[p].started /\ closes[p] = 0
  BY <1>1, PendingFacts
<1>3. plugin[p] \in [status : {"pending", "active", "draining", "failed", "disabled"},
                     instance : BOOLEAN, ready : BOOLEAN, started : BOOLEAN, done : BOOLEAN]
  BY DEF PluginInv, Tables
<1>4. ASSUME NEW r \in [status : {"pending", "active", "draining", "failed", "disabled"},
                        instance : BOOLEAN, ready : BOOLEAN, started : BOOLEAN, done : BOOLEAN],
             plugin' = [plugin EXCEPT ![p] = r],
             r.status # "pending", ~r.ready,
             r.instance => \A d \in DependsOn[p] : Status(d) = "active",
             r.done \/ ~plugin[p].done,
             r.started => r.status # "active",
             closes' = [closes EXCEPT ![p] = IF r.started THEN 1 ELSE 0]
      PROVE  Kept'
  <2>1. Tables'
    BY <1>1, <1>4 DEF PluginInv, Tables
  <2>2. /\ plugin'[p] = r /\ closes'[p] = IF r.started THEN 1 ELSE 0
        /\ \A q \in Plugins \ {p} : plugin'[q] = plugin[q] /\ closes'[q] = closes[q]
    BY <1>4 DEF PluginInv, Tables
  <2> QED BY <1>1, <1>4, <2>1, <2>2, StartKept
<1>5. closes = [closes EXCEPT ![p] = 0]
  BY <1>2 DEF PluginInv, Tables
<1>6. CASE Activate(p)
  <2>1. \A d \in DependsOn[p] : Status(d) = "active"
    BY <1>6 DEF Activate
  <2>2. CASE /\ plugin' = [plugin EXCEPT ![p].status = "active", ![p].instance = TRUE]
             /\ UNCHANGED closes
    <3> DEFINE r == [plugin[p] EXCEPT !.status = "active", !.instance = TRUE]
    <3>1. /\ r \in [status : {"pending", "active", "draining", "failed", "disabled"},
                    instance : BOOLEAN, ready : BOOLEAN, started : BOOLEAN, done : BOOLEAN]
          /\ r.status = "active" /\ ~r.ready /\ r.done = plugin[p].done /\ ~r.started
      BY <1>2, <1>3
    <3>2. plugin' = [plugin EXCEPT ![p] = r]
      BY <2>2
    <3> HIDE DEF r
    <3> QED BY <1>3, <1>4, <1>5, <2>1, <2>2, <3>1, <3>2
  <2>3. CASE /\ plugin' = [plugin EXCEPT ![p].status = "failed", ![p].instance = TRUE,
                                         ![p].started = TRUE, ![p].done = TRUE]
             /\ closes' = [closes EXCEPT ![p] = @ + 1]
    <3> DEFINE r == [plugin[p] EXCEPT !.status = "failed", !.instance = TRUE,
                                      !.started = TRUE, !.done = TRUE]
    <3>1. /\ r \in [status : {"pending", "active", "draining", "failed", "disabled"},
                    instance : BOOLEAN, ready : BOOLEAN, started : BOOLEAN, done : BOOLEAN]
          /\ r.status = "failed" /\ ~r.ready /\ r.done /\ r.started
      BY <1>2, <1>3
    <3>2. plugin' = [plugin EXCEPT ![p] = r]
      BY <2>3
    <3>3. closes' = [closes EXCEPT ![p] = IF r.started THEN 1 ELSE 0]
      BY <1>2, <2>3, <3>1
    <3> HIDE DEF r
    <3> QED BY <1>4, <2>1, <3>1, <3>2, <3>3
  <2> QED BY <1>6, <2>2, <2>3 DEF Activate
<1>7. CASE Refuse(p)
  <2>1. PICK s \in {"failed", "disabled"} :
           plugin' = [plugin EXCEPT ![p].status = s] /\ UNCHANGED closes
    BY <1>7 DEF Refuse
  <2> DEFINE r == [plugin[p] EXCEPT !.status = s]
  <2>2. /\ r \in [status : {"pending", "active", "draining", "failed", "disabled"},
                  instance : BOOLEAN, ready : BOOLEAN, started : BOOLEAN, done : BOOLEAN]
        /\ r.status = s /\ ~r.ready /\ ~r.instance /\ r.done = plugin[p].done /\ ~r.started
    BY <1>2, <1>3
  <2>3. plugin' = [plugin EXCEPT ![p] = r]
    BY <2>1
  <2> HIDE DEF r
  <2> QED BY <1>3, <1>4, <1>5, <2>1, <2>2, <2>3
<1> QED BY <1>6, <1>7

-----------------------------------------------------------------------------
(* Calls.                                                                  *)

(* EnterCall: one call more, of a plugin that has neither stopped nor      *)
(* begun to close.                                                         *)
LEMMA EnterKept ==
    ASSUME PluginInv, NEW t \in Threads, NEW p \in Plugins, EnterCall(t, p)
    PROVE  Kept'
<1>1. /\ thread[t].at = "idle" /\ Moves(t, "calling", p)
      /\ plugin' = plugin /\ closes' = closes
  BY Forms DEF EnterCall, PluginInv
<1>2. /\ ~lease[p].stopping /\ ~plugin[p].ready /\ ~plugin[p].started
      /\ Status(p) # "pending"
  BY DEF EnterCall, Published, Started, PluginInv, PluginOK
<1>3. /\ lease[p].running \in Nat
      /\ lease' \in [Plugins -> [running : Nat, stopping : BOOLEAN, cleanup : BOOLEAN]]
      /\ lease'[p].running = lease[p].running + 1
      /\ lease'[p].stopping = lease[p].stopping
      /\ \A q \in Plugins \ {p} : lease'[q] = lease[q]
  <2> DEFINE n == lease[p].running + 1
             l == [lease[p] EXCEPT !.running = n]
  <2>1. lease[p] \in [running : Nat, stopping : BOOLEAN, cleanup : BOOLEAN] /\ n \in Nat
    BY DEF PluginInv, Tables
  <2>2. lease' = [lease EXCEPT ![p] = l]
    BY DEF EnterCall
  <2> HIDE DEF n
  <2>3. /\ l \in [running : Nat, stopping : BOOLEAN, cleanup : BOOLEAN]
        /\ l.running = n /\ l.stopping = lease[p].stopping
    BY <2>1
  <2> HIDE DEF l
  <2> QED BY <2>1, <2>2, <2>3 DEF PluginInv, Tables, n
<1>4. Tables'
  BY <1>1, <1>3 DEF PluginInv, Tables, Moves
<1>5. Onward
  <2>1. \A q \in Plugins : lease[q].running \in Nat
    BY DEF PluginInv, Tables
  <2> QED BY <1>1, <1>2, <1>3, <2>1 DEF Onward, Stopped, Status
<1>6. ASSUME NEW q \in Plugins \ {p} PROVE PluginOK(q)'
  <2>1. Calling(q)' = Calling(q)
    BY <1>1 DEF Calling, Moves
  <2>2. lease'[q] = lease[q]
    BY <1>3
  <2> QED BY <1>1, <1>5, <2>1, <2>2, PluginKept
<1>7. PluginOK(p)'
  <2>1. Calling(p)' = Calling(p) \cup {t} /\ t \notin Calling(p)
    BY <1>1 DEF Calling, Moves
  <2>2. IsFiniteSet(Calling(p))
    <3>1. Calling(p) \subseteq Threads
      BY DEF Calling
    <3> QED BY <3>1, FS_Subset, PluginAssumption
  <2>3. Cardinality(Calling(p)') = Cardinality(Calling(p)) + 1
    BY <2>1, <2>2, FS_AddElement
  <2>4. lease'[p].running = Cardinality(Calling(p)')
    BY <1>3, <2>3 DEF PluginInv, PluginOK
  <2>5. closes[p] = 0 /\ (plugin[p].instance => \A d \in DependsOn[p] : Status(d) # "pending")
    BY <1>2 DEF PluginInv, PluginOK
  <2> QED BY <1>1, <1>2, <1>3, <2>4, <2>5 DEF PluginOK, Stopped, Status
<1>8. ASSUME NEW u \in Threads PROVE ThreadOK(u)'
  <2>1. CASE u = t
    BY <1>1, <2>1 DEF Moves, ThreadOK
  <2>2. CASE u # t
    BY <1>1, <1>4, <1>5, <2>2, OtherThreadsKept DEF Moves
  <2> QED BY <2>1, <2>2
<1> QED BY <1>4, <1>6, <1>7, <1>8 DEF Kept

(* LeaveCall: one call less; the last one of a stopped plugin is its drain.*)
LEMMA LeaveKept ==
    ASSUME PluginInv, NEW t \in Threads, LeaveCall(t), NEW p, p = thread[t].on
    PROVE  Kept'
<1> DEFINE x == IF Owes(p) THEN "drained" ELSE "idle"
<1>1. /\ thread[t].at = "calling" /\ plugin' = plugin /\ closes' = closes
      /\ x \in {"drained", "idle"} /\ (x = "drained" => Owes(p))
  BY DEF LeaveCall
<1>2. Moves(t, x, p)
  <2>1. Goes(t, x)
    BY DEF LeaveCall
  <2> HIDE DEF x
  <2> QED BY <2>1, Forms DEF PluginInv
<1> HIDE DEF x
<1>3. p \in Plugins =>
         /\ t \in Calling(p) /\ IsFiniteSet(Calling(p))
         /\ lease[p].running = Cardinality(Calling(p)) /\ lease[p].running \in Nat
         /\ Calling(p)' = Calling(p) \ {t}
  <2>1. Calling(p) \subseteq Threads
    BY DEF Calling
  <2>2. p \in Plugins => t \in Calling(p) /\ Calling(p)' = Calling(p) \ {t}
    BY <1>1, <1>2 DEF Calling, Moves
  <2> QED BY <2>1, <2>2, FS_Subset, PluginAssumption DEF PluginInv, PluginOK, Tables
<1>4. p \in Plugins =>
         /\ lease[p].running > 0
         /\ Cardinality(Calling(p)') = lease[p].running - 1
  BY <1>3, FS_RemoveElement, FS_EmptySet
<1>5. /\ lease' \in [Plugins -> [running : Nat, stopping : BOOLEAN, cleanup : BOOLEAN]]
      /\ \A q \in Plugins \ {p} : lease'[q] = lease[q]
      /\ p \in Plugins => /\ lease'[p].running = lease[p].running - 1
                          /\ lease'[p].stopping = lease[p].stopping
  <2>0. p \in Plugins => lease[p] \in [running : Nat, stopping : BOOLEAN, cleanup : BOOLEAN]
    BY DEF PluginInv, Tables
  <2> DEFINE n == lease[p].running - 1
             c == IF Owes(p) THEN FALSE ELSE lease[p].cleanup
             l == [lease[p] EXCEPT !.running = n, !.cleanup = c]
  <2>1. lease' = [lease EXCEPT ![p] = l]
    BY DEF LeaveCall
  <2>2. p \in Plugins => n \in Nat /\ c \in BOOLEAN
    <3>1. p \in Plugins => lease[p].running \in Nat /\ lease[p].cleanup \in BOOLEAN
      BY <2>0
    <3>2. p \in Plugins => n \in Nat
      BY <1>4, <3>1
    <3>3. p \in Plugins => c \in BOOLEAN
      BY <3>1
    <3> QED BY <3>2, <3>3
  <2> HIDE DEF n, c
  <2>3. p \in Plugins =>
           /\ l \in [running : Nat, stopping : BOOLEAN, cleanup : BOOLEAN]
           /\ l.running = n /\ l.stopping = lease[p].stopping
    BY <2>0, <2>2
  <2> HIDE DEF l
  <2> QED BY <2>1, <2>3 DEF PluginInv, Tables, n
<1>6. Tables'
  BY <1>1, <1>2, <1>5 DEF PluginInv, Tables, Moves
<1>7. Onward
  <2>1. \A q \in Plugins : lease[q].running \in Nat
    BY DEF PluginInv, Tables
  <2>2. \A q \in Plugins : /\ lease'[q].stopping = lease[q].stopping
                           /\ lease'[q].running <= lease[q].running
    BY <1>5, <2>1
  <2> QED BY <1>1, <2>1, <2>2 DEF Onward, Stopped, Status
<1>8. ASSUME NEW q \in Plugins PROVE PluginOK(q)'
  <2>1. CASE q # p
    <3>1. Calling(q)' = Calling(q)
      BY <1>1, <1>2, <2>1 DEF Calling, Moves
    <3>2. lease'[q] = lease[q]
      BY <1>5, <2>1
    <3> QED BY <1>1, <1>7, <3>1, <3>2, PluginKept
  <2>2. CASE q = p
    <3>1. PluginOK(p) /\ ~plugin[p].ready /\ ~plugin[p].started /\ Status(p) # "pending"
      BY <1>4, <2>2 DEF PluginInv, PluginOK
    <3>2. lease'[p].running = Cardinality(Calling(p)')
      BY <1>4, <1>5, <2>2
    <3>3. closes[p] = 0 /\ (plugin[p].instance => \A d \in DependsOn[p] : Status(d) # "pending")
      BY <3>1 DEF PluginOK
    <3>4. ~lease[p].stopping \/ Stopped(p)
      BY <3>1 DEF PluginOK
    <3> QED BY <1>1, <1>5, <2>2, <3>1, <3>2, <3>3, <3>4 DEF PluginOK, Stopped, Status
  <2> QED BY <2>1, <2>2
<1>9. ASSUME NEW u \in Threads PROVE ThreadOK(u)'
  <2>1. CASE u = t
    <3>1. thread'[t].at = x /\ thread'[t].on = p
      BY <1>2 DEF Moves
    <3>2. x = "drained" /\ p \in Plugins => lease'[p].stopping /\ lease'[p].running = 0
      BY <1>1, <1>5 DEF Owes
    <3> QED BY <1>1, <2>1, <3>1, <3>2 DEF ThreadOK
  <2>2. CASE u # t
    BY <1>2, <1>6, <1>7, <2>2, OtherThreadsKept DEF Moves
  <2> QED BY <2>1, <2>2
<1> QED BY <1>6, <1>8, <1>9 DEF Kept

-----------------------------------------------------------------------------
(* Ending a plugin.                                                        *)

PluginRows ==
    [status : {"pending", "active", "draining", "failed", "disabled"},
     instance : BOOLEAN, ready : BOOLEAN, started : BOOLEAN, done : BOOLEAN]

(* A thread moves, and the marks or the lease of one plugin change.        *)
LEMMA ChangeKept ==
    ASSUME PluginInv, NEW t \in Threads, NEW x, NEW o, Moves(t, x, o),
           thread[t].at # "calling", x # "calling", Tables', Onward, NEW p \in Plugins,
           \A q \in Plugins \ {p} :
               plugin'[q] = plugin[q] /\ lease'[q] = lease[q] /\ closes'[q] = closes[q],
           PluginOK(p)', ThreadOK(t)'
    PROVE  Kept'
<1>1. ASSUME NEW q \in Plugins \ {p} PROVE PluginOK(q)'
  <2>1. Calling(q)' = Calling(q)
    BY CallsKept
  <2>2. plugin'[q] = plugin[q] /\ lease'[q] = lease[q] /\ closes'[q] = closes[q]
    OBVIOUS
  <2> QED BY <2>1, <2>2, PluginKept
<1>2. ASSUME NEW u \in Threads \ {t} PROVE ThreadOK(u)'
  BY <1>2, OtherThreadsKept DEF Moves
<1> QED BY <1>1, <1>2 DEF Kept

(* What one plugin's marks may become.                                     *)
Marked(p, r) ==
    /\ r \in PluginRows
    /\ \/ r.status = plugin[p].status
       \/ Status(p) # "pending" /\ r.status \notin {"pending", "active"}
    /\ r.instance = plugin[p].instance
    /\ plugin[p].ready => r.ready
    /\ plugin[p].done => r.done
    /\ r.ready => Stopped(p) /\ lease[p].stopping /\ lease[p].running = 0
    /\ r.started => plugin[p].started \/ (r.ready /\ ~Waiting(p))

Marks(p, r) ==
    /\ Marked(p, r)
    /\ plugin' = [plugin EXCEPT ![p] = r] /\ lease' = lease
    /\ closes' = [closes EXCEPT ![p] = IF r.started THEN 1 ELSE 0]

(* A plugin's marks change, and nothing of any lease.                      *)
LEMMA MarkedKept ==
    ASSUME PluginInv, NEW t \in Threads, NEW x, NEW o, Moves(t, x, o),
           thread[t].at # "calling", x # "calling",
           NEW p \in Plugins, NEW r, Marks(p, r),
           x = "sealing" => o = p /\ r.status \notin {"pending", "active"},
           x \notin {"drained", "cleaning"}
    PROVE  Kept'
<1>0. /\ Marked(p, r) /\ plugin' = [plugin EXCEPT ![p] = r] /\ lease' = lease
      /\ closes' = [closes EXCEPT ![p] = IF r.started THEN 1 ELSE 0]
  BY DEF Marks
<1>1. /\ plugin' \in [Plugins -> PluginRows] /\ plugin'[p] = r
      /\ \A q \in Plugins \ {p} : plugin'[q] = plugin[q]
  BY <1>0 DEF PluginInv, Tables, PluginRows, Marked
<1>2. /\ closes' \in [Plugins -> Nat]
      /\ \A q \in Plugins \ {p} : closes'[q] = closes[q]
      /\ closes'[p] = IF r.started THEN 1 ELSE 0
  <2> DEFINE n == IF r.started THEN 1 ELSE 0
  <2>1. n \in Nat /\ closes' = [closes EXCEPT ![p] = n]
    BY <1>0
  <2> HIDE DEF n
  <2>2. /\ closes' \in [Plugins -> Nat] /\ closes'[p] = n
        /\ \A q \in Plugins \ {p} : closes'[q] = closes[q]
    BY <2>1 DEF PluginInv, Tables
  <2> QED BY <2>2 DEF n
<1>3. Tables'
  BY <1>0, <1>1, <1>2 DEF PluginInv, Tables, PluginRows, Moves
<1>4. Onward
  <2>1. \A q \in Plugins : lease[q].running \in Nat
    BY DEF PluginInv, Tables
  <2> QED BY <1>0, <1>1, <2>1 DEF Onward, Stopped, Status, Marked
<1>5. PluginOK(p)
  BY DEF PluginInv
<1>6. PluginOK(p)'
  <2>1. lease'[p].running = Cardinality(Calling(p)')
    BY <1>0, <1>5, CallsKept DEF PluginOK
  <2>2. r.started => Stopped(p) /\ lease[p].running = 0 /\ ~Waiting(p)
    BY <1>0, <1>5 DEF PluginOK, Marked
  <2>3. r.started => ~Waiting(p)'
    BY <1>4, <2>2, WaitingKept
  <2>4. r.instance => \A d \in DependsOn[p] : Status(d)' # "pending"
    <3>1. DependsOn[p] \subseteq Plugins
      BY PluginAssumption
    <3> QED BY <1>0, <1>4, <1>5, <3>1 DEF PluginOK, Onward, Marked
  <2>5. closes'[p] = IF r.started THEN 1 ELSE 0
    BY <1>2
  <2>6. r.status = "pending" => /\ ~r.instance /\ ~r.started /\ ~r.ready
                                /\ lease[p].running = 0
    BY <1>0, <1>5, <2>2 DEF PluginOK, Stopped, Status, Marked
  <2>7. lease[p].stopping \/ r.ready \/ r.started => r.status \notin {"pending", "active"}
    BY <1>0, <1>5, <2>2 DEF PluginOK, Stopped, Status, Marked
  <2> QED BY <1>0, <1>1, <2>1, <2>2, <2>3, <2>4, <2>5, <2>6, <2>7
          DEF PluginOK, Stopped, Status, Marked
<1>7. ThreadOK(t)'
  BY <1>1 DEF Moves, ThreadOK, Stopped, Status
<1> QED BY <1>0, <1>1, <1>2, <1>3, <1>4, <1>6, <1>7, ChangeKept

(* A plugin's record is replaced by nothing where there is no plugin.      *)
LEMMA NoPlugin ==
    ASSUME PluginInv, NEW p, p \notin Plugins, NEW r
    PROVE  /\ [plugin EXCEPT ![p] = r] = plugin
           /\ [lease EXCEPT ![p] = r] = lease
           /\ [closes EXCEPT ![p] = r] = closes
BY DEF PluginInv, Tables

(* _disable_record, under the lock.                                        *)
LEMMA MarkKept ==
    ASSUME PluginInv, NEW t \in Threads, Mark(t)
    PROVE  Kept'
<1>1. thread[t].at = "disabling" /\ UNCHANGED <<lease, closes>>
  BY DEF Mark
<1>2. CASE Goes(t, "idle") /\ UNCHANGED plugin
  <2>1. Moves(t, "idle", thread[t].on)
    BY <1>2, Forms DEF PluginInv
  <2> QED BY <1>1, <1>2, <2>1, RoamKept
<1>3. CASE /\ thread' = [thread EXCEPT ![t].todo = Tail(@), ![t].failed = FALSE]
           /\ UNCHANGED plugin
  <2>1. Moves(t, "disabling", thread[t].on)
    BY <1>1, <1>3, Forms DEF PluginInv
  <2> QED BY <1>1, <1>3, <2>1, RoamKept
<1>4. ASSUME NEW p, NEW s \in {"failed", "draining"}, Status(p) = "active",
             plugin' = [plugin EXCEPT ![p].status = s],
             thread' = [thread EXCEPT ![t].at = "sealing", ![t].on = p,
                                      ![t].todo = Tail(@), ![t].failed = FALSE]
      PROVE  Kept'
  <2>0. PICK r : r = [plugin[p] EXCEPT !.status = s]
    OBVIOUS
  <2>1. Moves(t, "sealing", p) /\ plugin' = [plugin EXCEPT ![p] = r]
    BY <1>4, <2>0, Forms DEF PluginInv
  <2>2. CASE p \notin Plugins
    <3>1. plugin' = plugin
      BY <2>1, <2>2, NoPlugin
    <3> QED BY <1>1, <2>1, <2>2, <3>1, RoamKept
  <2>3. CASE p \in Plugins
    <3>1. plugin[p] \in PluginRows
      BY <2>3 DEF PluginInv, Tables, PluginRows
    <3>2. /\ r \in PluginRows /\ r.status = s
          /\ r.instance = plugin[p].instance /\ r.ready = plugin[p].ready
          /\ r.done = plugin[p].done /\ r.started = plugin[p].started
      BY <2>0, <3>1 DEF PluginRows
    <3>3. /\ ~plugin[p].ready /\ closes \in [Plugins -> Nat]
          /\ closes[p] = IF r.started THEN 1 ELSE 0
      BY <1>4, <2>3, <3>2 DEF PluginInv, PluginOK, Stopped, Tables
    <3>4. r.status \notin {"pending", "active"}
      BY <3>2
    <3>5. closes' = [closes EXCEPT ![p] = IF r.started THEN 1 ELSE 0]
      BY <1>1, <2>3, <3>3
    <3>6. Marked(p, r)
      BY <1>4, <3>2, <3>3, <3>4 DEF Marked
    <3>7. Marks(p, r)
      BY <1>1, <2>1, <3>5, <3>6 DEF Marks
    <3> QED BY <1>1, <2>1, <2>3, <3>4, <3>7, MarkedKept
  <2> QED BY <2>2, <2>3
<1> QED BY <1>2, <1>3, <1>4 DEF Mark

(* Seal: the lease of a plugin that has stopped lets nobody in any more.   *)
LEMMA SealKept ==
    ASSUME PluginInv, NEW t \in Threads, Seal(t), NEW p, p = thread[t].on
    PROVE  Kept'
<1> DEFINE x == IF lease[p].running > 0 THEN "disabling" ELSE "drained"
           c == lease[p].cleanup \/ lease[p].running > 0
           l == [lease[p] EXCEPT !.stopping = TRUE, !.cleanup = c]
<1>1. /\ thread[t].at = "sealing" /\ plugin' = plugin /\ closes' = closes
      /\ lease' = [lease EXCEPT ![p] = l]
      /\ x \in {"disabling", "drained"} /\ (x = "drained" => ~(lease[p].running > 0))
  BY DEF Seal
<1>2. Moves(t, x, p)
  <2>1. Goes(t, x)
    BY DEF Seal
  <2> HIDE DEF x
  <2>2. Moves(t, x, thread[t].on)
    BY <2>1, Forms DEF PluginInv
  <2> QED BY <2>2
<1>3. CASE p \notin Plugins
  <2> HIDE DEF x, l
  <2>1. UNCHANGED <<plugin, lease, closes>>
    BY <1>1, <1>3, NoPlugin
  <2> QED BY <1>1, <1>2, <1>3, <2>1, RoamKept
<1>4. CASE p \in Plugins
  <2>1. lease[p] \in [running : Nat, stopping : BOOLEAN, cleanup : BOOLEAN]
    BY <1>4 DEF PluginInv, Tables
  <2>2. c \in BOOLEAN
    BY <2>1
  <2> HIDE DEF c, x
  <2>3. /\ l \in [running : Nat, stopping : BOOLEAN, cleanup : BOOLEAN]
        /\ l.stopping /\ l.running = lease[p].running
    BY <2>1, <2>2
  <2> HIDE DEF l
  <2>4. /\ lease' \in [Plugins -> [running : Nat, stopping : BOOLEAN, cleanup : BOOLEAN]]
        /\ lease'[p] = l /\ \A q \in Plugins \ {p} : lease'[q] = lease[q]
    BY <1>1, <1>4, <2>3 DEF PluginInv, Tables
  <2>5. Tables'
    BY <1>1, <1>2, <2>4 DEF PluginInv, Tables, Moves
  <2>6. Onward
    <3>1. \A q \in Plugins : lease[q].running \in Nat
      BY DEF PluginInv, Tables
    <3> QED BY <1>1, <2>3, <2>4, <3>1 DEF Onward, Stopped, Status
  <2>7. PluginOK(p) /\ Stopped(p)
    BY <1>1, <1>4 DEF PluginInv, ThreadOK
  <2>8. PluginOK(p)'
    <3>1. Calling(p)' = Calling(p)
      BY <1>1, <1>2, <1>4, CallsKept
    <3>2. lease'[p].stopping /\ lease'[p].running = lease[p].running
      BY <2>3, <2>4
    <3>3. (~Waiting(p))' = ~Waiting(p) /\ Status(p)' = Status(p) /\ Stopped(p)'
      BY <1>1, <2>7 DEF Waiting, Dependents, Status, Stopped
    <3>4. \A d \in DependsOn[p] : Status(d)' = Status(d)
      BY <1>1 DEF Status
    <3>5. plugin'[p] = plugin[p] /\ closes'[p] = closes[p]
      BY <1>1
    <3> QED BY <2>7, <3>1, <3>2, <3>3, <3>4, <3>5 DEF PluginOK
  <2>9. ThreadOK(t)'
    <3>1. thread'[t].at = x /\ thread'[t].on = p
      BY <1>2 DEF Moves
    <3>2. x = "drained" => lease'[p].stopping /\ lease'[p].running = 0
      <4>1. lease[p].running \in Nat
        BY <2>1
      <4> QED BY <1>1, <2>3, <2>4, <4>1
    <3> QED BY <1>1, <3>1, <3>2 DEF ThreadOK
  <2>10. \A q \in Plugins \ {p} :
            plugin'[q] = plugin[q] /\ lease'[q] = lease[q] /\ closes'[q] = closes[q]
    BY <1>1, <2>4
  <2> QED BY <1>1, <1>2, <1>4, <2>5, <2>6, <2>8, <2>9, <2>10, ChangeKept
<1> QED BY <1>3, <1>4

(* A thread goes on scanning once the marks of a plugin are set, whether   *)
(* or not it is one.                                                       *)
LEMMA MarksKept ==
    ASSUME PluginInv, NEW t \in Threads, NEW x \in {"scanning", "closing"},
           NEW p, Moves(t, x, p), thread[t].at # "calling", NEW r, lease' = lease,
           plugin' = [plugin EXCEPT ![p] = r],
           p \notin Plugins => closes' = closes,
           p \in Plugins =>
              /\ Marked(p, r)
              /\ closes' = [closes EXCEPT ![p] = IF r.started THEN 1 ELSE 0]
    PROVE  Kept'
<1>1. CASE p \in Plugins
  <2>1. Marks(p, r)
    BY <1>1 DEF Marks
  <2> QED BY <1>1, <2>1, MarkedKept
<1>2. CASE p \notin Plugins
  <2>1. UNCHANGED <<plugin, lease, closes>>
    BY <1>2, NoPlugin
  <2> QED BY <1>2, <2>1, RoamKept
<1> QED BY <1>1, <1>2

(* Ready: its thread has seen the lease drained.                           *)
LEMMA ReadyKept ==
    ASSUME PluginInv, NEW t \in Threads, Ready(t), NEW p, p = thread[t].on
    PROVE  Kept'
<1>0. PICK r : r = [plugin[p] EXCEPT !.ready = TRUE]
  OBVIOUS
<1>1. /\ thread[t].at = "drained" /\ lease' = lease /\ closes' = closes
      /\ plugin' = [plugin EXCEPT ![p] = r]
  BY <1>0 DEF Ready
<1>2. Moves(t, "scanning", p)
  BY Forms DEF Ready, PluginInv
<1>3. p \in Plugins =>
         /\ Marked(p, r)
         /\ closes' = [closes EXCEPT ![p] = IF r.started THEN 1 ELSE 0]
  <2> SUFFICES ASSUME p \in Plugins
               PROVE  /\ Marked(p, r)
                      /\ closes' = [closes EXCEPT ![p] = IF r.started THEN 1 ELSE 0]
    OBVIOUS
  <2>1. plugin[p] \in PluginRows
    BY DEF PluginInv, Tables, PluginRows
  <2>2. /\ r \in PluginRows /\ r.status = plugin[p].status /\ r.ready
        /\ r.instance = plugin[p].instance /\ r.done = plugin[p].done
        /\ r.started = plugin[p].started
    BY <1>0, <2>1 DEF PluginRows
  <2>3. lease[p].stopping /\ lease[p].running = 0 /\ PluginOK(p)
    BY <1>1 DEF PluginInv, ThreadOK
  <2>4. Stopped(p) /\ closes[p] = IF r.started THEN 1 ELSE 0
    BY <2>2, <2>3 DEF PluginOK
  <2>5. closes \in [Plugins -> Nat]
    BY DEF PluginInv, Tables
  <2>6. closes' = [closes EXCEPT ![p] = IF r.started THEN 1 ELSE 0]
    BY <1>1, <2>4, <2>5
  <2> QED BY <2>2, <2>3, <2>4, <2>6 DEF Marked
<1> QED BY <1>1, <1>2, <1>3, MarksKept

(* BeginClose: whoever comes first has seen what it waited for be over,    *)
(* and it has stayed so.                                                   *)
LEMMA BeginCloseKept ==
    ASSUME PluginInv, NEW t \in Threads, BeginClose(t), NEW p, p = thread[t].on
    PROVE  Kept'
<1>1. thread[t].at = "cleaning" /\ lease' = lease
  BY DEF BeginClose
<1>2. CASE plugin[p].started
  <2>1. PICK s : thread' = [thread EXCEPT ![t].at = "scanning", ![t].scan = s]
    BY <1>2 DEF BeginClose
  <2>2. Moves(t, "scanning", thread[t].on)
    BY <2>1, Forms DEF PluginInv
  <2>3. UNCHANGED <<plugin, closes>>
    BY <1>2 DEF BeginClose
  <2> QED BY <1>1, <2>2, <2>3, RoamKept
<1>3. CASE ~plugin[p].started
  <2>0. PICK r : r = [plugin[p] EXCEPT !.started = TRUE]
    OBVIOUS
  <2>1. /\ plugin' = [plugin EXCEPT ![p] = r]
        /\ closes' = [closes EXCEPT ![p] = closes[p] + 1] /\ Goes(t, "closing")
    BY <1>3, <2>0 DEF BeginClose
  <2>2. Moves(t, "closing", p)
    <3>1. Moves(t, "closing", thread[t].on)
      BY <2>1, Forms DEF PluginInv
    <3> QED BY <3>1
  <2>3. p \notin Plugins => closes' = closes
    BY <2>1, NoPlugin
  <2>4. p \in Plugins =>
           /\ Marked(p, r)
           /\ closes' = [closes EXCEPT ![p] = IF r.started THEN 1 ELSE 0]
    <3> SUFFICES ASSUME p \in Plugins
                 PROVE  /\ Marked(p, r)
                        /\ closes' = [closes EXCEPT ![p] = IF r.started THEN 1 ELSE 0]
      OBVIOUS
    <3>1. plugin[p] \in PluginRows
      BY DEF PluginInv, Tables, PluginRows
    <3>2. /\ r \in PluginRows /\ r.status = plugin[p].status /\ r.started
          /\ r.instance = plugin[p].instance /\ r.done = plugin[p].done
          /\ r.ready = plugin[p].ready
      BY <2>0, <3>1 DEF PluginRows
    <3>3. plugin[p].ready /\ ~Waiting(p) /\ PluginOK(p)
      BY <1>1 DEF PluginInv, ThreadOK
    <3>4. closes[p] = 0 /\ lease[p].stopping /\ lease[p].running = 0 /\ Stopped(p)
      BY <1>3, <3>3 DEF PluginOK
    <3>5. Marked(p, r)
      BY <3>2, <3>3, <3>4 DEF Marked
    <3>6. closes[p] + 1 = IF r.started THEN 1 ELSE 0
      BY <3>2, <3>4
    <3> QED BY <2>1, <3>5, <3>6
  <2> QED BY <1>1, <2>1, <2>2, <2>3, <2>4, MarksKept
<1> QED BY <1>2, <1>3

(* EndClose: the plugin is done, and what it used may go.                  *)
LEMMA EndCloseKept ==
    ASSUME PluginInv, NEW t \in Threads, EndClose(t), NEW p, p = thread[t].on
    PROVE  Kept'
<1>0. PICK s : s = IF plugin[p].status = "draining" THEN "disabled" ELSE plugin[p].status
  OBVIOUS
<1>1. PICK r : r = [plugin[p] EXCEPT !.done = TRUE, !.status = s]
  OBVIOUS
<1>2. /\ thread[t].at = "closing" /\ lease' = lease /\ closes' = closes
      /\ plugin' = [plugin EXCEPT ![p] = r]
  BY <1>0, <1>1 DEF EndClose
<1>3. Moves(t, "scanning", p)
  <2>1. PICK d : thread' = [thread EXCEPT ![t].at = "scanning", ![t].scan = d]
    BY DEF EndClose
  <2>2. Moves(t, "scanning", thread[t].on)
    BY <2>1, Forms DEF PluginInv
  <2> QED BY <2>2
<1>4. p \in Plugins =>
         /\ Marked(p, r)
         /\ closes' = [closes EXCEPT ![p] = IF r.started THEN 1 ELSE 0]
  <2> SUFFICES ASSUME p \in Plugins
               PROVE  /\ Marked(p, r)
                      /\ closes' = [closes EXCEPT ![p] = IF r.started THEN 1 ELSE 0]
    OBVIOUS
  <2>1. plugin[p] \in PluginRows
    BY DEF PluginInv, Tables, PluginRows
  <2>2. s \in {"pending", "active", "draining", "failed", "disabled"}
    BY <1>0, <2>1 DEF PluginRows
  <2>3. /\ r \in PluginRows /\ r.status = s /\ r.done
        /\ r.instance = plugin[p].instance /\ r.ready = plugin[p].ready
        /\ r.started = plugin[p].started
    BY <1>1, <2>1, <2>2 DEF PluginRows
  <2>4. PluginOK(p) /\ closes \in [Plugins -> Nat]
    BY DEF PluginInv, Tables
  <2>5. closes[p] = IF r.started THEN 1 ELSE 0
    BY <2>3, <2>4 DEF PluginOK
  <2>6. closes' = [closes EXCEPT ![p] = IF r.started THEN 1 ELSE 0]
    BY <1>2, <2>4, <2>5
  <2>7. \/ s = plugin[p].status
        \/ Status(p) # "pending" /\ s \notin {"pending", "active"}
    BY <1>0 DEF Status
  <2>8. r.ready => Stopped(p) /\ lease[p].stopping /\ lease[p].running = 0
    BY <2>3, <2>4 DEF PluginOK
  <2> QED BY <2>3, <2>6, <2>7, <2>8 DEF Marked
<1> QED BY <1>2, <1>3, <1>4, MarksKept

-----------------------------------------------------------------------------
(* The theorems.                                                           *)

(* Nothing is built, called or closed at first.                            *)
LEMMA PluginStarts ==
    ASSUME PluginInit
    PROVE  PluginInv
<1>1. Tables
  BY DEF PluginInit, Tables, Resting
<1>2. ASSUME NEW p \in Plugins PROVE PluginOK(p)
  <2>1. Calling(p) = {}
    BY DEF PluginInit, Calling, Resting
  <2> QED BY <2>1, FS_EmptySet DEF PluginInit, PluginOK, Stopped, Status
<1>3. ASSUME NEW t \in Threads PROVE ThreadOK(t)
  BY DEF PluginInit, ThreadOK, Resting
<1> QED BY <1>1, <1>2, <1>3 DEF PluginInv

(* Every step of every thread keeps PluginInv.                             *)
LEMMA PluginInductive ==
    ASSUME PluginInv, [PluginNext]_pluginVars
    PROVE  PluginInv'
<1>1. ASSUME Kept' PROVE PluginInv'
  BY <1>1 DEF Kept, PluginInv
<1>2. ASSUME NEW p \in Plugins, Activate(p) \/ Refuse(p) PROVE PluginInv'
  BY <1>1, <1>2, ActivateKept
<1>3. ASSUME NEW t \in Threads, NEW p \in Plugins,
             EnterCall(t, p) \/ Disable(t, p) \/ Conflict(t, p)
      PROVE  PluginInv'
  BY <1>1, <1>3, EnterKept, DisableKept
<1>4. ASSUME NEW t \in Threads, PluginStep(t) PROVE PluginInv'
  <2>1. CASE LeaveCall(t)
    BY <1>1, <2>1, LeaveKept
  <2>2. CASE Mark(t)
    BY <1>1, <2>2, MarkKept
  <2>3. CASE Seal(t)
    BY <1>1, <2>3, SealKept
  <2>4. CASE Ready(t)
    BY <1>1, <2>4, ReadyKept
  <2>5. CASE Look(t)
    BY <1>1, <2>5, LookKept
  <2>6. CASE BeginClose(t)
    BY <1>1, <2>6, BeginCloseKept
  <2>7. CASE EndClose(t)
    BY <1>1, <2>7, EndCloseKept
  <2> QED BY <1>4, <2>1, <2>2, <2>3, <2>4, <2>5, <2>6, <2>7 DEF PluginStep
<1>5. CASE UNCHANGED pluginVars
  <2>1. UNCHANGED <<plugin, lease, thread, closes>>
    BY <1>5 DEF pluginVars
  <2>2. Tables' /\ Onward
    BY <2>1, Still DEF PluginInv, Tables
  <2>3. ASSUME NEW p \in Plugins PROVE PluginOK(p)'
    <3>1. Calling(p)' = Calling(p)
      BY <2>1 DEF Calling
    <3>2. plugin'[p] = plugin[p] /\ lease'[p] = lease[p] /\ closes'[p] = closes[p]
      BY <2>1
    <3> QED BY <2>2, <3>1, <3>2, PluginKept
  <2>4. ASSUME NEW t \in Threads PROVE ThreadOK(t)'
    BY <2>1, <2>2, OtherThreadsKept
  <2>5. Kept'
    BY <2>2, <2>3, <2>4 DEF Kept
  <2> QED BY <1>1, <2>5
<1> QED BY <1>2, <1>3, <1>4, <1>5 DEF PluginNext

(* PluginInv holds in every state the plugins of an instance come to.      *)
THEOREM PluginInvariance == PluginSpec => []PluginInv
<1>1. PluginInit => PluginInv
  BY PluginStarts
<1>2. PluginInv /\ [PluginNext]_pluginVars => PluginInv'
  BY PluginInductive
<1> QED BY <1>1, <1>2, PTL DEF PluginSpec

(* Whichever threads call, disable and drain, and however many plugins     *)
(* depend on one another: manager.py closes a plugin once, after the last  *)
(* call of it has returned and after everything that uses it was closed.   *)
THEOREM UseEndsFirst == PluginSpec => []ClosedAfterUse
<1>1. ASSUME PluginInv, NEW p \in Plugins, closes[p] > 0
      PROVE  /\ closes[p] = 1
             /\ lease[p].running = 0
             /\ \A q \in Dependents(p) : plugin[q].instance => plugin[q].done
  <2>1. PluginOK(p)
    BY <1>1 DEF PluginInv
  <2>2. plugin[p].started
    BY <1>1, <2>1 DEF PluginOK
  <2> QED BY <2>1, <2>2 DEF PluginOK, Waiting
<1>2. PluginInv => ClosedAfterUse
  BY <1>1 DEF ClosedAfterUse
<1> QED BY <1>2, PluginInvariance, PTL

-----------------------------------------------------------------------------
(* What the table holds.                                                   *)

Places == {"idle", "calling", "disabling", "sealing", "drained", "scanning",
           "cleaning", "closing"}

ThreadRow == [at : Places, on : Plugins, todo : Seq(Plugins), failed : BOOLEAN,
              scan : Seq(Plugins)]

(* There are plugins, and the order in which they are disabled is one of   *)
(* plugins: manager.py:152 activates no plugin of a cycle, so that         *)
(* _disable_dependents, which follows the active ones, comes to an end.    *)
OrderIsGiven ==
    /\ Records \in Seq(Plugins) /\ Records # <<>>
    /\ DependentsFirst \in [Plugins -> Seq(Plugins)]

ThreadsTyped == thread \in [Threads -> ThreadRow] /\ calls \in 0..MaxCalls

(* Sequences of plugins stay sequences of plugins.                         *)
LEMMA Sequels ==
    ASSUME OrderIsGiven
    PROVE  /\ Records[1] \in Plugins
           /\ Reverse(Records) \in Seq(Plugins)
           /\ \A s, u \in Seq(Plugins) : s \o u \in Seq(Plugins)
           /\ \A s \in Seq(Plugins), p \in Plugins : Append(s, p) \in Seq(Plugins)
           /\ \A p \in Plugins : <<p>> \in Seq(Plugins)
           /\ \A s \in Seq(Plugins) :
                 s # <<>> => Head(s) \in Plugins /\ Tail(s) \in Seq(Plugins)
<1>1. Reverse(Records) \in Seq(Plugins)
  BY DEF OrderIsGiven, Reverse
<1>2. Records[1] \in Plugins
  BY DEF OrderIsGiven
<1> QED BY <1>1, <1>2

(* A thread's record, changed in one of the ways the actions change it.    *)
LEMMA RowChanges ==
    ASSUME NEW r \in ThreadRow, NEW x \in Places, NEW o \in Plugins,
           NEW d \in Seq(Plugins), NEW f \in BOOLEAN, NEW s \in Seq(Plugins)
    PROVE  /\ [r EXCEPT !.at = x] \in ThreadRow
           /\ [r EXCEPT !.at = x, !.on = o] \in ThreadRow
           /\ [r EXCEPT !.at = x, !.scan = s] \in ThreadRow
           /\ [r EXCEPT !.at = x, !.on = o, !.scan = s] \in ThreadRow
           /\ [r EXCEPT !.at = x, !.todo = d, !.failed = f] \in ThreadRow
           /\ [r EXCEPT !.at = x, !.on = o, !.todo = d, !.failed = f] \in ThreadRow
           /\ [r EXCEPT !.todo = d, !.failed = f] \in ThreadRow
BY DEF ThreadRow

(* Every step of every thread keeps the rows in shape.                     *)
LEMMA ThreadsKeepShape ==
    ASSUME OrderIsGiven, PluginInv, ThreadsTyped, [PluginNext]_pluginVars
    PROVE  ThreadsTyped'
<1>. USE PluginAssumption
<1>1. ASSUME NEW t \in Threads, NEW r \in ThreadRow, thread' = [thread EXCEPT ![t] = r]
      PROVE  thread' \in [Threads -> ThreadRow]
  BY <1>1 DEF ThreadsTyped
<1>2. ASSUME NEW t \in Threads
      PROVE  /\ thread[t] \in ThreadRow /\ thread[t].on \in Plugins
             /\ thread[t].todo \in Seq(Plugins) /\ thread[t].scan \in Seq(Plugins)
             /\ thread[t].at \in Places
  BY <1>2 DEF ThreadsTyped, ThreadRow
<1>3. ASSUME NEW p \in Plugins, Activate(p) \/ Refuse(p) PROVE ThreadsTyped'
  BY <1>3 DEF Activate, Refuse, ThreadsTyped
<1>4. ASSUME NEW t \in Threads, NEW p \in Plugins,
             EnterCall(t, p) \/ Disable(t, p) \/ Conflict(t, p)
      PROVE  ThreadsTyped'
  <2>1. CASE EnterCall(t, p)
    <3>1. [thread[t] EXCEPT !.at = "calling", !.on = p] \in ThreadRow
      BY <1>2, RowChanges DEF Places
    <3>2. thread' = [thread EXCEPT ![t] = [thread[t] EXCEPT !.at = "calling", !.on = p]]
      BY <2>1 DEF EnterCall
    <3>3. calls' \in 0..MaxCalls
      BY <2>1 DEF EnterCall, ThreadsTyped
    <3> QED BY <1>1, <3>1, <3>2, <3>3 DEF ThreadsTyped
  <2>2. ASSUME NEW d \in Seq(Plugins), NEW f \in BOOLEAN, Sets(t, d, f), UNCHANGED calls
        PROVE  ThreadsTyped'
    <3>. "disabling" \in Places
      BY DEF Places
    <3>1. [thread[t] EXCEPT !.at = "disabling", !.todo = d, !.failed = f] \in ThreadRow
      BY <1>2, <2>2, RowChanges
    <3>2. thread' = [thread EXCEPT ![t] =
                        [thread[t] EXCEPT !.at = "disabling", !.todo = d, !.failed = f]]
      BY <2>2 DEF Sets
    <3> QED BY <1>1, <2>2, <3>1, <3>2 DEF ThreadsTyped
  <2>3. DependentsFirst[p] \in Seq(Plugins)
    BY DEF OrderIsGiven
  <2>4. CASE Disable(t, p)
    <3>1. Append(DependentsFirst[p], p) \in Seq(Plugins)
      BY <2>3, Sequels
    <3> QED BY <2>2, <2>4, <3>1 DEF Disable
  <2>5. CASE Conflict(t, p)
    <3>1. <<p>> \o DependentsFirst[p] \in Seq(Plugins)
      BY <2>3, Sequels
    <3> QED BY <2>2, <2>5, <3>1 DEF Conflict
  <2> QED BY <1>4, <2>1, <2>4, <2>5
<1>5. ASSUME NEW t \in Threads, NEW x \in Places, Goes(t, x), UNCHANGED calls
      PROVE  ThreadsTyped'
  <2>1. [thread[t] EXCEPT !.at = x] \in ThreadRow
    BY <1>2, RowChanges
  <2>2. thread' = [thread EXCEPT ![t] = [thread[t] EXCEPT !.at = x]]
    BY <1>5 DEF Goes
  <2> QED BY <1>1, <1>5, <2>1, <2>2 DEF ThreadsTyped
<1>6. ASSUME NEW t \in Threads, NEW s \in Seq(Plugins),
             thread' = [thread EXCEPT ![t].at = "scanning", ![t].scan = s], UNCHANGED calls
      PROVE  ThreadsTyped'
  <2>1. [thread[t] EXCEPT !.at = "scanning", !.scan = s] \in ThreadRow
    BY <1>2, RowChanges DEF Places
  <2>2. thread' = [thread EXCEPT ![t] = [thread[t] EXCEPT !.at = "scanning", !.scan = s]]
    BY <1>6
  <2> QED BY <1>1, <1>6, <2>1, <2>2 DEF ThreadsTyped
<1>7. ASSUME NEW t \in Threads, PluginStep(t) PROVE ThreadsTyped'
  <2>1. CASE LeaveCall(t)
    <3>1. PICK x \in Places : Goes(t, x) /\ UNCHANGED calls
      BY <2>1 DEF LeaveCall, Places
    <3> QED BY <1>5, <3>1
  <2>2. CASE Mark(t)
    <3>1. CASE thread[t].todo = <<>>
      <4>1. Goes(t, "idle") /\ UNCHANGED calls
        BY <2>2, <3>1 DEF Mark
      <4> QED BY <1>5, <4>1 DEF Places
    <3>2. CASE thread[t].todo # <<>>
      <4> DEFINE p == Head(thread[t].todo)
                 d == Tail(thread[t].todo)
      <4>1. p \in Plugins /\ d \in Seq(Plugins)
        BY <1>2, <3>2, Sequels
      <4>2. UNCHANGED calls
        BY <2>2 DEF Mark
      <4>3. \/ thread' = [thread EXCEPT ![t].at = "sealing", ![t].on = p,
                                        ![t].todo = d, ![t].failed = FALSE]
            \/ thread' = [thread EXCEPT ![t].todo = d, ![t].failed = FALSE]
        BY <2>2, <3>2 DEF Mark
      <4> HIDE DEF p, d
      <4>4. \/ thread' = [thread EXCEPT ![t] = [thread[t] EXCEPT !.at = "sealing", !.on = p,
                                                                !.todo = d, !.failed = FALSE]]
            \/ thread' = [thread EXCEPT ![t] = [thread[t] EXCEPT !.todo = d, !.failed = FALSE]]
        BY <4>3
      <4>a. PICK row \in ThreadRow : row = thread[t]
        BY <1>2
      <4>b. PICK new : new = [row EXCEPT !.at = "sealing", !.on = p, !.todo = d, !.failed = FALSE]
        OBVIOUS
      <4>c. PICK next : next = [row EXCEPT !.todo = d, !.failed = FALSE]
        OBVIOUS
      <4>d. new \in ThreadRow
        BY <4>1, <4>b DEF ThreadRow, Places
      <4>e. next \in ThreadRow
        BY <4>1, <4>c DEF ThreadRow
      <4>f. \/ thread' = [thread EXCEPT ![t] = new]
            \/ thread' = [thread EXCEPT ![t] = next]
        BY <4>4, <4>a, <4>b, <4>c, Zenon
      <4>6. thread' \in [Threads -> ThreadRow]
        BY <1>1, <4>d, <4>e, <4>f
      <4> QED BY <4>2, <4>6 DEF ThreadsTyped
    <3> QED BY <3>1, <3>2
  <2>3. CASE Seal(t)
    <3>1. PICK x \in Places : Goes(t, x) /\ UNCHANGED calls
      BY <2>3 DEF Seal, Places
    <3> QED BY <1>5, <3>1
  <2>4. CASE Ready(t)
    BY <1>6, <2>4, Sequels DEF Ready
  <2>5. CASE Look(t)
    <3>1. CASE thread[t].scan = <<>>
      <4>1. PICK x \in Places : Goes(t, x) /\ UNCHANGED calls
        BY <2>5, <3>1 DEF Look, Places
      <4> QED BY <1>5, <4>1
    <3>2. CASE thread[t].scan # <<>>
      <4> DEFINE p == Head(thread[t].scan)
                 s == Tail(thread[t].scan)
                 x == IF Closable(p) THEN "cleaning" ELSE thread[t].at
      <4>1. p \in Plugins /\ s \in Seq(Plugins)
        BY <1>2, <3>2, Sequels
      <4>2. UNCHANGED calls
        BY <2>5 DEF Look
      <4>3. thread' = [thread EXCEPT ![t] = [thread[t] EXCEPT !.at = x, !.on = p, !.scan = s]]
        BY <2>5, <3>2 DEF Look
      <4>4. x \in Places
        BY <1>2 DEF Places
      <4> HIDE DEF p, s, x
      <4>5. [thread[t] EXCEPT !.at = x, !.on = p, !.scan = s] \in ThreadRow
        BY <1>2, <4>1, <4>4, RowChanges
      <4> QED BY <1>1, <4>2, <4>3, <4>5 DEF ThreadsTyped
    <3> QED BY <3>1, <3>2
  <2>6. CASE BeginClose(t)
    <3>1. CASE plugin[thread[t].on].started
      <4>1. Reverse(Records) \o thread[t].scan \in Seq(Plugins)
        BY <1>2, Sequels
      <4>2. /\ thread' = [thread EXCEPT ![t].at = "scanning",
                                        ![t].scan = Reverse(Records) \o thread[t].scan]
            /\ UNCHANGED calls
        BY <2>6, <3>1 DEF BeginClose
      <4> QED BY <1>6, <4>1, <4>2
    <3>2. CASE ~plugin[thread[t].on].started
      <4>1. Goes(t, "closing") /\ UNCHANGED calls
        BY <2>6, <3>2 DEF BeginClose
      <4> QED BY <1>5, <4>1 DEF Places
    <3> QED BY <3>1, <3>2
  <2>7. CASE EndClose(t)
    <3>1. Reverse(Records) \o thread[t].scan \in Seq(Plugins)
      BY <1>2, Sequels
    <3>2. /\ thread' = [thread EXCEPT ![t].at = "scanning",
                                      ![t].scan = Reverse(Records) \o thread[t].scan]
          /\ UNCHANGED calls
      BY <2>7 DEF EndClose
    <3> QED BY <1>6, <3>1, <3>2
  <2> QED BY <1>7, <2>1, <2>2, <2>3, <2>4, <2>5, <2>6, <2>7 DEF PluginStep
<1>8. CASE UNCHANGED pluginVars
  BY <1>8 DEF pluginVars, ThreadsTyped
<1> QED BY <1>3, <1>4, <1>7, <1>8 DEF PluginNext

(* The two invariants say that the manager's tables are well typed: no     *)
(* more calls of a plugin run than there are threads, and it is closed     *)
(* once at most.                                                           *)
LEMMA TypedTables ==
    ASSUME PluginInv, ThreadsTyped
    PROVE  PluginTypeOK
<1>1. ASSUME NEW p \in Plugins
      PROVE  lease[p].running \in 0..Cardinality(Threads) /\ closes[p] \in 0..1
  <2>1. Calling(p) \subseteq Threads
    BY DEF Calling
  <2>2. /\ lease[p].running = Cardinality(Calling(p))
        /\ closes[p] \in 0..1
    BY DEF PluginInv, PluginOK
  <2>3. /\ Cardinality(Calling(p)) \in Nat /\ Cardinality(Threads) \in Nat
        /\ Cardinality(Calling(p)) <= Cardinality(Threads)
    BY <2>1, PluginAssumption, FS_Subset, FS_CardinalityType
  <2> QED BY <2>2, <2>3
<1>2. /\ plugin \in [Plugins -> [status : {"pending", "active", "draining", "failed", "disabled"},
                                 instance : BOOLEAN, ready : BOOLEAN, started : BOOLEAN,
                                 done : BOOLEAN]]
      /\ lease \in [Plugins -> [running : Nat, stopping : BOOLEAN, cleanup : BOOLEAN]]
      /\ closes \in [Plugins -> Nat]
  BY DEF PluginInv, Tables
<1>3. lease \in [Plugins -> [running : 0..Cardinality(Threads), stopping : BOOLEAN, cleanup : BOOLEAN]]
  BY <1>1, <1>2
<1>4. closes \in [Plugins -> 0..1]
  BY <1>1, <1>2
<1>5. \A t \in Threads :
          /\ thread[t].at \in Places
          /\ thread[t].on \in Plugins /\ thread[t].failed \in BOOLEAN
          /\ thread[t].todo \in Seq(Plugins) /\ thread[t].scan \in Seq(Plugins)
  BY DEF ThreadsTyped, ThreadRow
<1> QED BY <1>2, <1>3, <1>4, <1>5 DEF PluginTypeOK, ThreadsTyped, Places

(* Threads rest at first.                                                  *)
LEMMA ThreadsStartTyped ==
    ASSUME OrderIsGiven, PluginInit
    PROVE  ThreadsTyped
<1>1. <<>> \in Seq(Plugins)
  OBVIOUS
<1>2. Resting \in ThreadRow
  BY <1>1, Sequels DEF Resting, ThreadRow, Places
<1> QED BY <1>2, PluginAssumption DEF PluginInit, ThreadsTyped

-----------------------------------------------------------------------------
(* The coordinator and the plugins together, as they are checked for       *)
(* liveness.                                                               *)

(* Whatever the tables of the plugins and of the pool go through, the      *)
(* plugins' are well typed, and the pool's in memory are what its database *)
(* holds (coordinator.py writes the row before it lets go of the lock).    *)
THEOREM TablesAreTyped ==
    ASSUME OrderIsGiven, StoreHolds
    PROVE  LiveSpec => []LiveTypeOK
<1> DEFINE PluginsKept == PluginInv /\ ThreadsTyped
<1>1. LiveInit => PluginsKept
  BY PluginStarts, ThreadsStartTyped DEF LiveInit
<1>2. PluginsKept /\ [LiveNext]_<<part, vars, pluginVars>> => PluginsKept'
  <2> SUFFICES ASSUME PluginsKept, [LiveNext]_<<part, vars, pluginVars>> PROVE PluginsKept'
    OBVIOUS
  <2>1. [PluginNext]_pluginVars
    BY DEF LiveNext, PoolMoves, PluginsMove
  <2> QED BY <2>1, PluginInductive, ThreadsKeepShape
<1>3. PluginsKept => PluginTypeOK
  BY TypedTables
<1>4. LiveSpec => Spec
  <2>1. LiveInit => Init
    BY DEF LiveInit
  <2>2. [LiveNext]_<<part, vars, pluginVars>> => [Next]_vars
    BY DEF LiveNext, PoolMoves, PluginsMove
  <2> QED BY <2>1, <2>2, PTL DEF LiveSpec, Spec
<1>5. (StoreHolds => DiskMirrorsMemory) => DiskMirrorsMemory
  OBVIOUS
<1>6. PluginTypeOK /\ DiskMirrorsMemory => LiveTypeOK
  BY DEF LiveTypeOK
<1> HIDE DEF PluginsKept
<1>7. LiveSpec => []PluginsKept
  BY <1>1, <1>2, PTL DEF LiveSpec
<1> QED BY <1>3, <1>4, <1>5, <1>6, <1>7, DiskIsTheTable, PTL

(* A plugin is closed after its use whatever the coordinator does.         *)
THEOREM UseEndsFirstBesideThePool == LiveSpec => []ClosedAfterUse
<1>1. LiveInit => PluginInit
  BY DEF LiveInit
<1>2. [LiveNext]_<<part, vars, pluginVars>> => [PluginNext]_pluginVars
  BY DEF LiveNext, PoolMoves, PluginsMove
<1>3. LiveSpec => PluginSpec
  BY <1>1, <1>2, PTL DEF LiveSpec, PluginSpec
<1> QED BY <1>3, UseEndsFirst, PTL
=============================================================================
