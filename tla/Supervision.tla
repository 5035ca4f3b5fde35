------------------------------ MODULE Supervision ------------------------------
(***************************************************************************)
(* One supervisor and the backends it starts: shinku/supervisor.py.        *)
(*                                                                         *)
(* The supervisor starts a backend, asks a port whether somebody there is  *)
(* well, and starts another when the backend ended badly or was unwell for *)
(* too long.  A backend may end, hang and recover at any moment, ignore    *)
(* the request to stop, and outlive even the wait after it was killed.     *)
(* The port answers for whoever holds it.  The user may interrupt at any   *)
(* point, more than once.  Time is order: the startup timeout has passed,  *)
(* or has not.  Left out: an interrupt between the birth of a process and  *)
(* the assignment that makes it the child, and the supervisor's own death. *)
(***************************************************************************)
EXTENDS Naturals, FiniteSets

CONSTANTS
    Backends,       \* processes
    MaxRestarts,    \* the budget of restarts
    Limitless,      \* there is no such budget: max_restarts = -1
    Failures        \* failed probes until a backend is given up: 3

(* What the constants are.                                                 *)
SupervisionAssumption == MaxRestarts \in Nat /\ Limitless \in BOOLEAN /\ Failures \in Nat \ {0}

VARIABLES
    backend,    \* each process: its state, the code it ended with, whether it
                \* was killed
    port,       \* who answers at the port
    boss,       \* the supervisor: its step, child, restarts, failed probes and code
    excused     \* history: processes it stopped waiting for: those it had
                \* killed, and the one the user did not let it stop

superVars == <<backend, port, boss, excused>>

Nobody == "nobody"
Unborn == [state |-> "unborn", code |-> 0, killed |-> FALSE]

SupervisionInit ==
    /\ backend = [b \in Backends |-> Unborn]
    /\ port = Nobody
    /\ boss = [at |-> "start", child |-> Nobody, restarts |-> 0, failed |-> 0, late |-> FALSE,
               after |-> "none", code |-> 0]
    /\ excused = {}

-----------------------------------------------------------------------------
Alive == {b \in Backends : backend[b].state \in {"well", "hung"}}
Child == boss.child
ChildEnded == Child # Nobody /\ Child \notin Alive

(* run, _start_child                                                       *)
StartChild ==
    /\ boss.at = "start"
    /\ \E b \in Backends :
          /\ backend[b] = Unborn
          /\ backend' = [backend EXCEPT ![b].state = "hung"]
          /\ boss' = [boss EXCEPT !.at = "monitor", !.child = b, !.failed = 0, !.late = FALSE]
    /\ UNCHANGED <<port, excused>>

StartFails ==
    /\ boss.at = "start"
    /\ boss' = [boss EXCEPT !.at = "ended", !.code = 1]
    /\ UNCHANGED <<backend, port, excused>>

(* _monitor_child: the child has ended ...                                 *)
Outcome(code) == [boss EXCEPT !.at = "outcome", !.child = Nobody, !.after = "none", !.code = code]

SeeEnd ==
    /\ boss.at = "monitor" /\ ChildEnded
    /\ boss' = Outcome(backend[Child].code)
    /\ UNCHANGED <<backend, port, excused>>

(* ... or the port is asked; a backend that is given up is first stopped.  *)
Answers == port \in Backends /\ backend[port].state = "well"
GivenUp(failed) == boss.late /\ failed >= Failures

Probe ==
    /\ boss.at = "monitor" /\ ~ChildEnded
    /\ LET failed == IF boss.failed < Failures THEN boss.failed + 1 ELSE Failures IN
       boss' = IF Answers THEN [boss EXCEPT !.failed = 0]
               ELSE IF GivenUp(failed) THEN [boss EXCEPT !.at = "stop", !.after = "outcome", !.failed = failed]
               ELSE [boss EXCEPT !.failed = failed]
    /\ UNCHANGED <<backend, port, excused>>

StartupPasses ==
    /\ boss.at = "monitor" /\ ~boss.late
    /\ boss' = [boss EXCEPT !.late = TRUE]
    /\ UNCHANGED <<backend, port, excused>>

(* run: a good end is the end; a bad one costs a restart, while there are. *)
Restartable == Limitless \/ boss.restarts < MaxRestarts

Decide ==
    /\ boss.at = "outcome"
    /\ boss' = IF boss.code # 0 /\ Restartable
               THEN [boss EXCEPT !.at = "start", !.restarts = @ + 1]
               ELSE [boss EXCEPT !.at = "ended"]
    /\ UNCHANGED <<backend, port, excused>>

-----------------------------------------------------------------------------
(* _stop_child: it is asked, waited for, killed, waited for, and let go.   *)
(* After an interrupt that is done once more on the way out.               *)
Ended == [boss EXCEPT !.at = "ended", !.child = Nobody, !.code = 130]
Stopped == CASE boss.after = "outcome" -> Outcome(1)
             [] boss.after = "interrupt" -> [boss EXCEPT !.at = "stop", !.after = "last"]
             [] boss.after = "last" -> Ended

AskToStop ==
    /\ boss.at = "stop"
    /\ IF Child \in Alive
       THEN boss' = [boss EXCEPT !.at = "stopping"]
       ELSE boss' = Stopped
    /\ UNCHANGED <<backend, port, excused>>

WaitEnds ==
    /\ boss.at \in {"stopping", "killing"} /\ ChildEnded
    /\ boss' = Stopped
    /\ UNCHANGED <<backend, port, excused>>

Kill ==
    /\ boss.at = "stopping" /\ ~ChildEnded
    /\ backend' = [backend EXCEPT ![Child].killed = TRUE]
    /\ boss' = [boss EXCEPT !.at = "killing"]
    /\ UNCHANGED <<port, excused>>

LetGo ==
    /\ boss.at = "killing" /\ ~ChildEnded
    /\ excused' = excused \cup {Child}
    /\ boss' = Stopped
    /\ UNCHANGED <<backend, port>>

(* Ctrl-C: the child, if there is one, is stopped; once more, and it is    *)
(* stopped from the beginning, on the way out; and then no more.           *)
Interrupt ==
    /\ boss.at # "ended"
    /\ boss' = IF Child = Nobody \/ boss.after = "last" THEN Ended
               ELSE [boss EXCEPT !.at = "stop",
                                 !.after = IF @ = "interrupt" THEN "last" ELSE "interrupt"]
    /\ excused' = IF boss.after = "last" THEN excused \cup {Child} ELSE excused
    /\ UNCHANGED <<backend, port>>

-----------------------------------------------------------------------------
(* The backends.  One that finds the port taken ends badly.                *)
Bind(b) ==
    /\ b \in Alive /\ port # b
    /\ IF port = Nobody
       THEN port' = b /\ backend' = [backend EXCEPT ![b].state = "well"]
       ELSE backend' = [backend EXCEPT ![b].state = "dead", ![b].code = 1] /\ UNCHANGED port
    /\ UNCHANGED <<boss, excused>>

Freed(b) == IF port = b THEN Nobody ELSE port

End(b) ==
    /\ b \in Alive
    /\ \E code \in {0, 1} :
          /\ code = 0 => ~backend[b].killed
          /\ backend' = [backend EXCEPT ![b].state = "dead", ![b].code = code]
    /\ port' = Freed(b)
    /\ UNCHANGED <<boss, excused>>

Sway(b) ==
    /\ b \in Alive /\ port = b
    /\ \E state \in {"well", "hung"} : backend' = [backend EXCEPT ![b].state = state]
    /\ UNCHANGED <<port, boss, excused>>

SupervisionNext ==
    \/ StartChild \/ StartFails \/ SeeEnd \/ Probe \/ StartupPasses \/ Decide
    \/ AskToStop \/ WaitEnds \/ Kill \/ LetGo \/ Interrupt
    \/ \E b \in Backends : Bind(b) \/ End(b) \/ Sway(b)

SupervisionSpec == SupervisionInit /\ [][SupervisionNext]_superVars

-----------------------------------------------------------------------------
SupervisionTypeOK ==
    /\ backend \in [Backends -> [state : {"unborn", "well", "hung", "dead"}, code : {0, 1},
                                 killed : BOOLEAN]]
    /\ port \in Backends \cup {Nobody}
    /\ boss.at \in {"start", "monitor", "outcome", "stop", "stopping", "killing", "ended"}
    /\ boss.child \in Backends \cup {Nobody} /\ boss.failed \in 0..Failures
    /\ excused \subseteq Backends

(* Whoever interrupts and whatever hangs: a backend runs beside the child, *)
(* or after the supervisor has ended, only if it was killed and waited for *)
(* in vain, or if the user interrupted the last attempt.                   *)
NobodyIsLeftBehind ==
    \A b \in Alive \ {boss.child} :
        /\ b \in excused
        /\ backend[b].killed \/ boss.after = "last"

(* The budget bounds the processes of a supervisor, and it says that all   *)
(* is well only after a good end.                                          *)
RestartsAreBounded ==
    /\ ~Limitless => Cardinality({b \in Backends : backend[b] # Unborn}) <= MaxRestarts + 1
    /\ boss.at = "ended" /\ boss.code = 0 => \E b \in Backends : backend[b].state = "dead" /\ backend[b].code = 0
=============================================================================
