------------------------------ MODULE MCMemory ------------------------------
(***************************************************************************)
(* What the programs keep of a conversation, and what becomes of it: the   *)
(* Aozora kernel, the memory store, the projections made from it, the      *)
(* experiences Goozam learns and the ledger of turns among which a digest  *)
(* may speak.  They share no state: the first state says which one, `part`,*)
(* moves in a behaviour, so that their states add up instead of            *)
(* multiplying.                                                            *)
(***************************************************************************)
EXTENDS AozoraKernel, MemoryStore, Projection, GoozamLearning, ConversationTurns, TLC

CONSTANTS
    Parts,      \* the components explored
    a, b,       \* two threads of whatever kind a part has
    x, y, z     \* events, jobs or candidates

VARIABLE part                               \* who moves

(* Two events of one conversation and one of another.                      *)
MCScopeOf == (x :> "room") @@ (y :> "room") @@ (z :> "other")

(* The threads are alike, and so are the two events, jobs or candidates.   *)
Symmetry == Permutations({a, b}) \cup Permutations({x, y})

ASSUME MemoriesAssumption ==
    /\ Parts \subseteq {"kernel", "memory", "projection", "learning", "digest"}
    /\ MemoryAssumption /\ ProjectionAssumption
    /\ LearningAssumption /\ ConversationAssumption

-----------------------------------------------------------------------------
MemoriesInit ==
    /\ part \in Parts
    /\ Init /\ MemoryInit /\ ProjectionInit /\ LearningInit /\ ConversationInit

KernelMoves ==
    /\ part = "kernel" /\ Next
    /\ UNCHANGED <<part, memoryVars, projectionVars, learningVars, conversationVars>>

MemoryMoves ==
    /\ part = "memory" /\ MemoryNext
    /\ UNCHANGED <<part, vars, projectionVars, learningVars, conversationVars>>

ProjectionMoves ==
    /\ part = "projection" /\ ProjectionNext
    /\ UNCHANGED <<part, vars, memoryVars, learningVars, conversationVars>>

LearningMoves ==
    /\ part = "learning" /\ LearningNext
    /\ UNCHANGED <<part, vars, memoryVars, projectionVars, conversationVars>>

DigestMoves ==
    /\ part = "digest" /\ DigestNext
    /\ UNCHANGED <<part, vars, memoryVars, projectionVars, learningVars>>

MemoriesNext ==
    KernelMoves \/ MemoryMoves \/ ProjectionMoves \/ LearningMoves \/ DigestMoves

memoriesVars ==
    <<part, vars, memoryVars, projectionVars, learningVars, conversationVars>>

MemoriesSpec == MemoriesInit /\ [][MemoriesNext]_memoriesVars

-----------------------------------------------------------------------------
(* The type invariants of the components, each where it moves.             *)
MemoriesTypeOK ==
    \/ part = "kernel" /\ KernelTypeOK
    \/ part = "memory" /\ MemoryTypeOK
    \/ part = "projection" /\ ProjectionTypeOK
    \/ part = "learning" /\ LearningTypeOK
    \/ part = "digest" /\ ConversationTypeOK

(* What was forgotten is not recalled: no query that begins afterwards     *)
(* answers with it (MemoryStore), and no projection that was under way     *)
(* brings it back into what later turns read (Projection).                 *)
ForgottenIsGone == NothingForgottenIsRecalled /\ NothingIsResurrected
=============================================================================
