---------------------------- MODULE PluginManager ----------------------------
(***************************************************************************)
(* The plugins of one instance: started in dependency order, called        *)
(* through leases, disabled dependents first, closed once they drain.      *)
(*                                                                         *)
(*   shinku/plugins/manager.py   _Lease, _PluginTool, PluginManager        *)
(*                                                                         *)
(* start runs alone; afterwards tools are called, published and disabled   *)
(* by any thread.  A thread's stack is flattened: `todo` is what is left   *)
(* of disabling, `scan` of the nested rounds of _drain_cleanups.           *)
(***************************************************************************)
EXTENDS Naturals, FiniteSets, Sequences, SequencesExt

CONSTANTS
    Records,      \* the plugins, in the order they were declared
    DependsOn,    \* manifest.depends_on
    Threads,      \* threads that call tools, publish or disable
    MaxCalls      \* bound of the calls explored

Plugins == ToSet(Records)

ASSUME PluginAssumption ==
    /\ DependsOn \in [Plugins -> SUBSET Plugins]
    /\ MaxCalls \in Nat /\ IsFiniteSet(Threads)

VARIABLES
    plugin,     \* per plugin: status, instance, and the marks of its cleanup
    lease,      \* per plugin: _Lease
    thread,     \* per thread: what it is doing
    calls,      \* history: calls that began
    closes      \* history: how often close was called

pluginVars == <<plugin, lease, thread, calls, closes>>

Resting == [at |-> "idle", on |-> Records[1], todo |-> <<>>, failed |-> FALSE, scan |-> <<>>]

PluginInit ==
    /\ plugin = [p \in Plugins |-> [status |-> "pending", instance |-> FALSE,
                                    ready |-> FALSE, started |-> FALSE, done |-> FALSE]]
    /\ lease = [p \in Plugins |-> [running |-> 0, stopping |-> FALSE, cleanup |-> FALSE]]
    /\ thread = [t \in Threads |-> Resting]
    /\ calls = 0 /\ closes = [p \in Plugins |-> 0]

Status(p) == plugin[p].status
Started == \A p \in Plugins : Status(p) # "pending"
Goes(t, at) == thread' = [thread EXCEPT ![t].at = at]
Dependents(p) == {q \in Plugins : p \in DependsOn[q]}

-----------------------------------------------------------------------------
(* start *)

(* _activate: what fails after it was built is closed at once.             *)
Activate(p) ==
    /\ Status(p) = "pending"
    /\ \A d \in DependsOn[p] : Status(d) = "active"
    /\ \/ plugin' = [plugin EXCEPT ![p].status = "active", ![p].instance = TRUE] /\ UNCHANGED closes
       \/ /\ plugin' = [plugin EXCEPT ![p].status = "failed", ![p].instance = TRUE,
                                      ![p].started = TRUE, ![p].done = TRUE]
          /\ closes' = [closes EXCEPT ![p] = @ + 1]
    /\ UNCHANGED <<lease, thread, calls>>

(* A plugin that is switched off or for another host, and a plugin whose   *)
(* dependency is not there, is never built.                                *)
Refuse(p) ==
    /\ Status(p) = "pending"
    /\ plugin' = [plugin EXCEPT ![p].status =
                     IF \E d \in DependsOn[p] : Status(d) \in {"failed", "disabled"}
                     THEN "failed" ELSE "disabled"]
    /\ UNCHANGED <<lease, thread, calls, closes>>

-----------------------------------------------------------------------------
(* A call of a tool *)

(* Its handlers are out once it was active; an old loop keeps them.        *)
Published(p) == plugin[p].instance /\ (plugin[p].started => plugin[p].ready)

EnterCall(t, p) ==
    /\ Started /\ thread[t].at = "idle" /\ calls < MaxCalls
    /\ Published(p) /\ ~lease[p].stopping
    /\ lease' = [lease EXCEPT ![p].running = @ + 1]
    /\ calls' = calls + 1
    /\ thread' = [thread EXCEPT ![t].at = "calling", ![t].on = p]
    /\ UNCHANGED <<plugin, closes>>

(* Mutant: the last call of a stopped plugin leaves its cleanup to others. *)
OwesNever(p) == FALSE

(* leave: the last call of a stopped plugin takes its cleanup along.       *)
Owes(p) == lease[p].stopping /\ lease[p].running = 1 /\ lease[p].cleanup

LeaveCall(t) ==
    LET p == thread[t].on IN
    /\ thread[t].at = "calling"
    /\ lease' = [lease EXCEPT ![p].running = @ - 1,
                              ![p].cleanup = IF Owes(p) THEN FALSE ELSE @]
    /\ Goes(t, IF Owes(p) THEN "drained" ELSE "idle")
    /\ UNCHANGED <<plugin, calls, closes>>

-----------------------------------------------------------------------------
(* Disabling *)

(* _disable_dependents: whoever depends on p, deepest first, in reverse    *)
(* order of declaration.                                                   *)
DependentsFirst[p \in Plugins] ==
    FoldLeft(LAMBDA done, q : IF q \in Dependents(p) THEN done \o DependentsFirst[q] \o <<q>> ELSE done,
             <<>>, Reverse(Records))

Sets(t, todo, failed) == thread' = [thread EXCEPT ![t].at = "disabling", ![t].todo = todo,
                                                  ![t].failed = failed]

(* disable; close disables what is active, one after the other.            *)
Disable(t, p) ==
    /\ Started /\ thread[t].at = "idle"
    /\ Status(p) = "active"
    /\ Sets(t, Append(DependentsFirst[p], p), FALSE)
    /\ UNCHANGED <<plugin, lease, calls, closes>>

(* register_tools and read_capabilities: a name that is taken disables the *)
(* plugin as failed, and its dependents after it.                          *)
Conflict(t, p) ==
    /\ Started /\ thread[t].at = "idle"
    /\ Status(p) = "active"
    /\ Sets(t, <<p>> \o DependentsFirst[p], TRUE)
    /\ UNCHANGED <<plugin, lease, calls, closes>>

(* _disable_record, under the lock: one thread alone takes a plugin on.    *)
(* Only the plugin in conflict fails; its dependents drain.                *)
Mark(t) ==
    /\ thread[t].at = "disabling"
    /\ \/ /\ thread[t].todo = <<>> /\ Goes(t, "idle") /\ UNCHANGED plugin
       \/ /\ thread[t].todo # <<>>
          /\ LET p == Head(thread[t].todo) IN
             IF Status(p) = "active"
             THEN /\ plugin' = [plugin EXCEPT ![p].status = IF thread[t].failed THEN "failed" ELSE "draining"]
                  /\ thread' = [thread EXCEPT ![t].at = "sealing", ![t].on = p,
                                              ![t].todo = Tail(@), ![t].failed = FALSE]
             ELSE /\ thread' = [thread EXCEPT ![t].todo = Tail(@), ![t].failed = FALSE]
                  /\ UNCHANGED plugin
    /\ UNCHANGED <<lease, calls, closes>>

(* _Lease.stop: no call enters any more; the cleanup waits for the calls.  *)
Seal(t) ==
    LET p == thread[t].on IN
    /\ thread[t].at = "sealing"
    /\ lease' = [lease EXCEPT ![p].stopping = TRUE, ![p].cleanup = (@ \/ lease[p].running > 0)]
    /\ Goes(t, IF lease[p].running > 0 THEN "disabling" ELSE "drained")
    /\ UNCHANGED <<plugin, calls, closes>>

-----------------------------------------------------------------------------
(* Closing *)

(* _ready_to_close, and the round of _drain_cleanups it begins.            *)
Ready(t) ==
    /\ thread[t].at = "drained"
    /\ plugin' = [plugin EXCEPT ![thread[t].on].ready = TRUE]
    /\ thread' = [thread EXCEPT ![t].at = "scanning", ![t].scan = Reverse(Records)]
    /\ UNCHANGED <<lease, calls, closes>>

(* Mutant: a dependent that began to close no longer needs what it uses.   *)
WaitingStarted(p) == \E q \in Dependents(p) : plugin[q].instance /\ ~plugin[q].started

(* A dependent that is not closed keeps what it depends on.                *)
Waiting(p) == \E q \in Dependents(p) : plugin[q].instance /\ ~plugin[q].done

Closable(p) == plugin[p].ready /\ ~plugin[p].started /\ ~Waiting(p)

(* One plugin is looked at under the lock; the end of the scan returns to  *)
(* what the thread was disabling, if anything.                             *)
Look(t) ==
    /\ thread[t].at = "scanning"
    /\ \/ /\ thread[t].scan = <<>>
          /\ Goes(t, IF thread[t].todo = <<>> THEN "idle" ELSE "disabling")
       \/ /\ thread[t].scan # <<>>
          /\ thread' = [thread EXCEPT ![t].at = IF Closable(Head(thread[t].scan)) THEN "cleaning" ELSE @,
                                      ![t].on = Head(thread[t].scan), ![t].scan = Tail(@)]
    /\ UNCHANGED <<plugin, lease, calls, closes>>

(* _cleanup: whoever comes second goes on without it.                      *)
BeginClose(t) ==
    LET p == thread[t].on IN
    /\ thread[t].at = "cleaning"
    /\ \/ /\ plugin[p].started
          /\ thread' = [thread EXCEPT ![t].at = "scanning", ![t].scan = Reverse(Records) \o @]
          /\ UNCHANGED <<plugin, closes>>
       \/ /\ ~plugin[p].started
          /\ plugin' = [plugin EXCEPT ![p].started = TRUE]
          /\ closes' = [closes EXCEPT ![p] = @ + 1]
          /\ Goes(t, "closing")
    /\ UNCHANGED <<lease, calls>>

EndClose(t) ==
    LET p == thread[t].on IN
    /\ thread[t].at = "closing"
    /\ plugin' = [plugin EXCEPT ![p].done = TRUE,
                                ![p].status = IF @ = "draining" THEN "disabled" ELSE @]
    /\ thread' = [thread EXCEPT ![t].at = "scanning", ![t].scan = Reverse(Records) \o @]
    /\ UNCHANGED <<lease, calls, closes>>

PluginStep(t) ==
    LeaveCall(t) \/ Mark(t) \/ Seal(t) \/ Ready(t) \/ Look(t) \/ BeginClose(t) \/ EndClose(t)

PluginNext ==
    \/ \E p \in Plugins : Activate(p) \/ Refuse(p)
    \/ \E t \in Threads : \/ \E p \in Plugins : EnterCall(t, p) \/ Disable(t, p) \/ Conflict(t, p)
                          \/ PluginStep(t)

(* A thread goes on with what it began, and a call of a tool returns.      *)
PluginFairness == \A t \in Threads : WF_pluginVars(PluginStep(t))

PluginSpec == PluginInit /\ [][PluginNext]_pluginVars /\ PluginFairness

-----------------------------------------------------------------------------
(* Properties *)

PluginTypeOK ==
    /\ plugin \in [Plugins -> [status : {"pending", "active", "draining", "failed", "disabled"},
                               instance : BOOLEAN, ready : BOOLEAN, started : BOOLEAN, done : BOOLEAN]]
    /\ lease \in [Plugins -> [running : 0..Cardinality(Threads), stopping : BOOLEAN, cleanup : BOOLEAN]]
    /\ \A t \in Threads :
          /\ thread[t].at \in {"idle", "calling", "disabling", "sealing", "drained",
                               "scanning", "cleaning", "closing"}
          /\ thread[t].on \in Plugins /\ thread[t].failed \in BOOLEAN
          /\ thread[t].todo \in Seq(Plugins) /\ thread[t].scan \in Seq(Plugins)
    /\ calls \in 0..MaxCalls
    /\ closes \in [Plugins -> 0..1]

(* Whichever threads disable, call and drain: a plugin is closed once, and *)
(* not while a call of it runs or a plugin that depends on it still has    *)
(* its resources.                                                          *)
ClosedAfterUse ==
    \A p \in Plugins : closes[p] > 0 =>
        /\ closes[p] = 1
        /\ lease[p].running = 0
        /\ \A q \in Dependents(p) : plugin[q].instance => plugin[q].done

(* A plugin that is disabled or fails is closed in the end: no order of    *)
(* two threads leaves its close to neither.                                *)
StoppedIsClosed ==
    \A p \in Plugins :
        (plugin[p].instance /\ Status(p) \in {"draining", "failed"}) ~> plugin[p].done
=============================================================================
