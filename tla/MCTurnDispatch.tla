--------------------------- MODULE MCTurnDispatch ---------------------------
(* Small instances of TurnDispatch for TLC.                                *)
EXTENDS TurnDispatch

Profile(c, k, i) == [conv |-> c, kind |-> k, image |-> i]

(* A call, a candidate and a picture nobody reacts to in one group, and    *)
(* commands from a second group.                                           *)
MCProfiles ==
    {Profile("g1", k, FALSE) : k \in {"mention", "ambient"}}
    \cup {Profile("g1", "chat", TRUE), Profile("g2", "command", FALSE)}

(* Mentions with and without an image.                                     *)
MCPictures == {Profile("g1", "mention", i) : i \in BOOLEAN}

(* No definition of the specification tells messages apart.                *)
Symmetry == Permutations(Messages)
=============================================================================
