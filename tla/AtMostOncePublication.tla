----------------------- MODULE AtMostOncePublication -----------------------
(***************************************************************************)
(* What the delivery of finished results promises, whoever consumes them:  *)
(* each result is put on the wire at most once, and the account kept of it *)
(* never says "withheld" of a result that left, nor "delivered" of one     *)
(* that did not.  "unknown" is the only honest answer when the publisher   *)
(* was interrupted, and a slow publisher may still act after it was given. *)
(***************************************************************************)
CONSTANT Results

VARIABLES account,  \* what the archive says of each result
          onWire    \* the results that really left

vars == <<account, onWire>>

Init == /\ account = [r \in Results |-> "none"]
        /\ onWire = {}

(* Somebody reserves the right to publish.                                 *)
Begin(r) == /\ account[r] = "none"
            /\ account' = [account EXCEPT ![r] = "begun"]
            /\ UNCHANGED onWire

(* The message leaves.                                                     *)
Transmit(r) == /\ account[r] \in {"begun", "unknown"}
               /\ r \notin onWire
               /\ onWire' = onWire \cup {r}
               /\ UNCHANGED account

(* The account is closed, once.                                            *)
Conclude(r) ==
    /\ account[r] = "begun"
    /\ \E verdict \in {"delivered", "withheld", "unknown"} :
         /\ verdict = "delivered" => r \in onWire
         /\ verdict = "withheld" => r \notin onWire
         /\ account' = [account EXCEPT ![r] = verdict]
    /\ UNCHANGED onWire

Next == \E r \in Results : Begin(r) \/ Transmit(r) \/ Conclude(r)

Spec == Init /\ [][Next]_vars
=============================================================================
