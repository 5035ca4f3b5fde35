---------------------------- MODULE TaskLifecycle ----------------------------
(***************************************************************************)
(* What the task coordinator promises the hosts, without locks, threads,   *)
(* futures or a database.  A piece of work is absent, admitted, being      *)
(* worked on, or settled; an attempt that has settled never comes back,    *)
(* only a new attempt does; finished history may be forgotten.             *)
(***************************************************************************)
EXTENDS Naturals

CONSTANT Tasks

VARIABLES
    phase,      \* task -> "absent", "admitted", "working" or "settled"
    attempt     \* task -> the number of its current attempt, 0 when absent

vars == <<phase, attempt>>

Become(t, p, a) == phase'[t] = p /\ attempt'[t] = a

Keep(t)   == Become(t, phase[t], attempt[t])
Forget(t) == Become(t, "absent", 0)

Admit(t) ==
    phase[t] \in {"absent", "settled"} /\ Become(t, "admitted", attempt[t] + 1)

(* The pool does not take it: the new attempt is over at once.             *)
Refuse(t) ==
    /\ phase[t] \in {"absent", "settled"}
    /\ Become(t, "settled", attempt[t] + 1) \/ Forget(t)

Begin(t) == phase[t] = "admitted" /\ Become(t, "working", attempt[t])
Yield(t) == phase[t] = "working" /\ Become(t, "admitted", attempt[t])

(* The attempt is over: it is remembered as settled, or already forgotten. *)
Settle(t) ==
    /\ phase[t] \in {"admitted", "working"}
    /\ Become(t, "settled", attempt[t]) \/ Forget(t)

Rest(t) == Keep(t) \/ (phase[t] = "settled" /\ Forget(t))

Init ==
    /\ phase = [t \in Tasks |-> "absent"]
    /\ attempt = [t \in Tasks |-> 0]

(* Everything in progress is stopped at once, or one task moves.           *)
Next ==
    /\ phase' \in [Tasks -> {"absent", "admitted", "working", "settled"}]
    /\ attempt' \in [Tasks -> Nat]
    /\ \/ \A t \in Tasks : Rest(t) \/ Settle(t)
       \/ \E t \in Tasks :
             /\ Admit(t) \/ Refuse(t) \/ Begin(t) \/ Yield(t)
             /\ \A u \in Tasks \ {t} : Rest(u)

Spec == Init /\ [][Next]_vars
=============================================================================
