------------------------- MODULE MCTaskCoordinator -------------------------
(* Small instances of TaskCoordinator for TLC.                             *)
EXTENDS TaskCoordinator, TLC

Request(target, fresh) ==
    [scope |-> "owner", target |-> target, fresh |-> fresh, query |-> FALSE]

(* A query that goes on in the background on a ledger of its own, which is *)
(* not replayed and whose owner is told, and local work to be retried.     *)
MCRequests == {[Request("ledger", TRUE) EXCEPT !.query = TRUE], Request(NoTarget, FALSE)}

(* One kind of retryable work on one ledger, where failures are explored.  *)
MCOneRequest == {Request("ledger", FALSE)}

(* A query whose outcome its owner must be told of.                        *)
MCQuery == {[Request(NoTarget, FALSE) EXCEPT !.query = TRUE]}

(* No definition of the specification tells tasks or threads apart.        *)
Symmetry == Permutations(Tasks) \cup Permutations(Workers)
=============================================================================
