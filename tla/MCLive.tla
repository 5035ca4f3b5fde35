------------------------------- MODULE MCLive -------------------------------
(***************************************************************************)
(* What must happen in the end: the task coordinator under fair workers,   *)
(* and the plugin manager under threads that come back from their calls.   *)
(* They share no state: the first state says which one, `part`, moves.     *)
(***************************************************************************)
EXTENDS MCTaskCoordinator, PluginManager

VARIABLE part                               \* who moves

(* Two plugins, the second needs the first.                                *)
MCPlugins == <<1, 2>>
MCDependsOn == (1 :> {}) @@ (2 :> {1})

LiveInit == part \in {"pool", "plugins"} /\ Init /\ PluginInit

PoolMoves == part = "pool" /\ Next /\ UNCHANGED <<part, pluginVars>>

PluginsMove == part = "plugins" /\ PluginNext /\ UNCHANGED <<part, vars>>

LiveNext == PoolMoves \/ PluginsMove

LiveSpec ==
    /\ LiveInit /\ [][LiveNext]_<<part, vars, pluginVars>>
    /\ Fairness /\ PluginFairness

-----------------------------------------------------------------------------
(* What the plugin manager keeps is well typed; what the coordinator keeps *)
(* in memory is what its database holds, evictions included.               *)
LiveTypeOK == PluginTypeOK /\ DiskMirrorsMemory
=============================================================================
