---------------------------- MODULE MCComponents ----------------------------
(***************************************************************************)
(* Components that share no state with each other, explored side by side:  *)
(* the first state says which one, `part`, moves in a behaviour, so that   *)
(* their states add up instead of multiplying.                             *)
(***************************************************************************)
EXTENDS AgentService, TLC

CONSTANTS
    Parts,      \* the components explored
    h1, h2      \* two threads, or processes, of whatever kind a part has

VARIABLES
    part,                                       \* who moves
    s1, s2, s3, s4, s5, s6, s7, s8, s9, s10, s11    \* the state of that part

(* The threads of a part are alike.                                        *)
Symmetry == Permutations({h1, h2})

(* Two turns of the user.                                                  *)
Talk == INSTANCE ConversationTurns WITH
    clock <- s1, rows <- s2, channel <- s3, front <- s4, worker <- s5, digest <- s6,
    slot <- s7, lost <- s8, moved <- s9, delivered <- s10, posted <- s11,
    UserTurns <- {"u1", "u2"}, Digest <- "digest", Quiet <- 1, PermitAge <- 1,
    Unresolved <- 2, Lease <- 3, Retention <- 3, MaxTurns <- 2,
    MaxClock <- 5, MaxRevision <- 4, MaxLost <- 0

Files == INSTANCE FileDelivery WITH
    try <- s1, granted <- s2, file <- s3, asked <- s4, tool <- s5, taken <- s6,
    sender <- s7, sends <- s8,
    Paths <- {"p1"}, Contents <- {"c1", "c2"}, Senders <- {h1, h2},
    Capacity <- 2, MaxTry <- 2

Repairs == INSTANCE RepairQueue WITH
    date <- s1, version <- s2, authorized <- s3, job <- s4, evidence <- s5,
    holder <- s6, host <- s7, starts <- s8,
    Codes <- {"c1"}, Repairable <- {"c1"}, Hosts <- {h1, h2},
    MaxPerDay <- 1, Day <- 1, EventTtl <- 1, MaxDate <- 3, MaxVersion <- 2

Batch == INSTANCE BatchTask WITH
    now <- s1, row <- s2, chunks <- s3, runner <- s4,
    Chunks <- {1, 2}, Runners <- {h1, h2},
    MaxCalls <- 3, MaxSeconds <- 2, Lease <- 2, MaxClock <- 4

Gateway == INSTANCE ModelGateway WITH
    gate <- s1, revoked <- s2, rows <- s3, closing <- s4, charged <- s5,
    Clients <- {h1, h2}, MaxRequests <- 3, MaxTokens <- 4, Reserved <- 2

(* A message that asks for a task, delivered three times.                  *)
Asked == INSTANCE Delegation WITH
    command <- s1, ref <- s2, reserved <- s3, handler <- s4, beat <- s5, task <- s6,
    note <- s7, lease <- s8, worker <- s9, begun <- s10, published <- s11,
    Ask <- "ask", Others <- {}, Lease <- 1, MaxDelivery <- 2

(* Two messages about a task that was asked for.                           *)
Follows == INSTANCE Delegation WITH
    command <- s1, ref <- s2, reserved <- s3, handler <- s4, beat <- s5, task <- s6,
    note <- s7, lease <- s8, worker <- s9, begun <- s10, published <- s11,
    Ask <- "ask", Others <- {h1, h2}, Lease <- 1, MaxDelivery <- 0

(* Two tasks that ask for one call each, and one that asks for two and may *)
(* have to go on in another work.                                          *)
Both == INSTANCE Approvals WITH
    queue <- s1, live <- s2, record <- s3, carries <- s4, turn <- s5, said <- s6,
    ran <- s7, lives <- s8,
    Tasks <- {h1, h2}, Asks <- {1}, WorkIds <- {1}

Twice == INSTANCE Approvals WITH
    queue <- s1, live <- s2, record <- s3, carries <- s4, turn <- s5, said <- s6,
    ran <- s7, lives <- s8,
    Tasks <- {h1}, Asks <- {1, 2}, WorkIds <- {1, 2}

(* A work of two threads, granted more by two messages.                    *)
Budget == INSTANCE TaskBudget WITH
    task <- s1, work <- s2, budget <- s3, call <- s4, spent <- s5, lost <- s6, excess <- s7,
    Callers <- {h1, h2}, Messages <- {h1, h2}, Allotted <- 3, Added <- 2, Ceiling <- 5,
    MaxGrants <- 2, Reserved <- 2, MaxSpent <- 4

(* A call that observes, and changes of which one needs the user's word.   *)
Loop == INSTANCE AgentLoop WITH
    at <- s1, count <- s2, tried <- s3, refused <- s4, won <- s5, batch <- s6, seen <- s7,
    disk <- s8, world <- s9, cancel <- s10,
    Reads <- {"search"}, Searches <- {"search"}, Writes <- {"send"}, Guarded <- {"send"},
    MaxRounds <- 2, MaxIdle <- 2, MaxStall <- 1, MaxSearches <- 2, MaxFailures <- 2,
    MaxRejected <- 2, MaxLedger <- 3, MaxRestarts <- 1

Calls == INSTANCE ModelCalls WITH
    call <- s1, breaker <- s2,
    Callers <- {h1}, HttpAttempts <- 2, StreamAttempts <- 3, Threshold <- 2

(* A task of the workbench, and one of another host.                       *)
Rights == INSTANCE ToolPermissions WITH
    levels <- s1, grant <- s2, check <- s3, pending <- s4, rejected <- s5, cancel <- s6, ran <- s7,
    Tasks <- {"task"}, Delegated <- {}, Reads <- {"read"}, Effects <- {"write"},
    MaxRevisions <- 3, MaxRuns <- 2

Kept == INSTANCE ToolPermissions WITH
    levels <- s1, grant <- s2, check <- s3, pending <- s4, rejected <- s5, cancel <- s6, ran <- s7,
    Tasks <- {"task"}, Delegated <- {"task"}, Reads <- {"read"}, Effects <- {"write"},
    MaxRevisions <- 3, MaxRuns <- 2

(* A task one character hands to another, in three attempts.               *)
Handoff == INSTANCE SupervisorHandoff WITH
    outer <- s1, link <- s2, results <- s3, run <- s4, down <- s5, note <- s6, late <- s7, told <- s8,
    MaxAttempts <- 3, MaxInputs <- 2

Bench == INSTANCE Workbench WITH
    turn <- s1, thread <- s2, task <- s3, memory <- s4, conversation <- s5, closed <- s6,
    accepted <- s7,
    Turns <- {h1, h2}

Mcp == INSTANCE McpTransport WITH
    caller <- s1, lock <- s2, jobs <- s3, coming <- s4, worker <- s5, future <- s6, world <- s7,
    served <- s8,
    Callers <- {h1, h2}

Questions == INSTANCE QuestionAnswers WITH
    task <- s1, answers <- s2, record <- s3, lock <- s4, begun <- s5, touched <- s6,
    Texts <- {h1, h2}, MaxRevision <- 10, MaxAttempts <- 3

(* Two versions of a result whose requests compete for one slot.           *)
Summaries == INSTANCE SummaryWorker WITH
    clock <- s1, source <- s2, row <- s3, caller <- s4, thread <- s5, slots <- s6,
    made <- s7, told <- s8,
    Versions <- {1, 2}, Callers <- {h1, h2}, Slots <- 1, Timeout <- 1, MaxClock <- 2

Reply == INSTANCE ReplyTurn WITH
    turn <- s1, calls <- s2, gate <- s3, window <- s4, reviewed <- s5, shown <- s6, work <- s7,
    trace <- s8,
    MaxLater <- 1, MaxRevision <- 2, MaxTools <- 2

Sending == INSTANCE ReplyDelivery WITH
    reply <- s1, gate <- s2, answers <- s3, shown <- s4, misread <- s5, late <- s6, memory <- s7,
    Bubbles <- 2

(* A message of a person, and two of other agents.                         *)
Peers == INSTANCE PeerExchange WITH
    now <- s1, sent <- s2, answered <- s3, humanAt <- s4, events <- s5, grants <- s6, renewals <- s7,
    People <- {"p1"}, Agents <- {h1, h2}, Allowance <- 1, Fresh <- 1, Keep <- 2, MaxNow <- 5

Memories == INSTANCE AgentMemory WITH
    task <- s1, turn <- s2, rows <- s3, tombstone <- s4, bench <- s5, recall <- s6,
    MaxVersion <- 2

Reviews == INSTANCE LifecycleReview WITH
    clock <- s1, memory <- s2, forgetting <- s3, turns <- s4, queue <- s5, worker <- s6,
    calls <- s7, request <- s8, evidence <- s9,
    Records <- {"r1"}, Messages <- {1, 2}, Queued <- 1, Fresh <- 1, Day <- 2, Daily <- 1,
    Interval <- 1, MaxClock <- 2, MaxStops <- 1

Boss == INSTANCE Supervision WITH
    backend <- s1, port <- s2, boss <- s3, excused <- s4,
    Backends <- {h1, h2, "b3"}, MaxRestarts <- 1, Limitless <- FALSE, Failures <- 2

(* A message that is delivered twice.                                      *)
Query == INSTANCE QueryHandover WITH
    turn <- s1, lock <- s2, record <- s3, checkpoint <- s4, worker <- s5, revision <- s6,
    late <- s7, told <- s8, runs <- s9, stale <- s10,
    Turns <- {h1, h2}, MaxFront <- 1, MaxReads <- 2, MaxRechecks <- 1, MaxRevision <- 2

ASSUME /\ Reviews!ReviewAssumption /\ Boss!SupervisionAssumption /\ Query!HandoverAssumption
ASSUME /\ Reply!ReplyTurnAssumption /\ Sending!DeliveryAssumption
       /\ Peers!PeerAssumption /\ Memories!AgentMemoryAssumption
ASSUME Questions!QuestionAssumption /\ Summaries!SummaryAssumption
ASSUME Handoff!HandoffAssumption
ASSUME /\ Budget!BudgetAssumption /\ Loop!LoopAssumption /\ Calls!CallsAssumption
       /\ Rights!PermissionsAssumption /\ Kept!PermissionsAssumption
ASSUME /\ Asked!DelegationAssumption /\ Follows!DelegationAssumption
       /\ Both!ApprovalsAssumption /\ Twice!ApprovalsAssumption
ASSUME /\ Talk!ConversationAssumption
       /\ Files!FileAssumption /\ Repairs!RepairAssumption /\ Gateway!GatewayAssumption

-----------------------------------------------------------------------------
(* A part of n variables has no use for the others.                        *)
Uses(n) ==
    /\ IF n < 1 THEN s1 = 0 /\ s2 = 0 ELSE TRUE
    /\ IF n < 4 THEN s3 = 0 /\ s4 = 0 ELSE TRUE
    /\ IF n < 5 THEN s5 = 0 ELSE TRUE
    /\ IF n < 6 THEN s6 = 0 ELSE TRUE
    /\ IF n < 7 THEN s7 = 0 ELSE TRUE
    /\ IF n < 8 THEN s8 = 0 ELSE TRUE
    /\ IF n < 9 THEN s9 = 0 ELSE TRUE
    /\ IF n < 10 THEN s10 = 0 ELSE TRUE
    /\ IF n < 11 THEN s11 = 0 ELSE TRUE

ComponentsInit ==
    /\ part \in Parts
    /\ ServiceInit
    /\ \/ part = "service" /\ Uses(0)
       \/ part = "talk" /\ Talk!ConversationInit
       \/ part = "files" /\ Files!FileInit /\ s3 = [p \in {"p1"} |-> "c1"] /\ Uses(8)
       \/ part = "repairs" /\ Repairs!RepairInit /\ Uses(8)
       \/ part = "batch" /\ Batch!BatchInit /\ Uses(4)
       \/ part = "gateway" /\ Gateway!GatewayInit /\ Uses(5)
       \/ part = "asks" /\ Asked!DelegationInit
       \/ part = "follows" /\ Follows!DelegationAsked
       \/ part = "approvals" /\ Both!ApprovalsInit /\ Uses(8)
       \/ part = "twice" /\ Twice!ApprovalsInit /\ Uses(8)
       \/ part = "budget" /\ Budget!BudgetInit /\ Uses(7)
       \/ part = "loop" /\ Loop!LoopInit /\ Uses(10)
       \/ part = "calls" /\ Calls!CallsInit /\ Uses(2)
       \/ part = "rights" /\ Rights!PermissionsInit /\ Uses(7)
       \/ part = "kept" /\ Kept!PermissionsInit /\ Uses(7)
       \/ part = "handoff" /\ Handoff!HandoffInit /\ Uses(8)
       \/ part = "bench" /\ Bench!WorkbenchInit /\ Uses(7)
       \/ part = "mcp" /\ Mcp!McpInit /\ Uses(8)
       \/ part = "questions" /\ Questions!QuestionsInit /\ Uses(6)
       \/ part = "summaries" /\ Summaries!SummaryInit /\ Uses(8)
       \/ part = "reply" /\ Reply!ReplyTurnInit /\ Uses(8)
       \/ part = "bubbles" /\ Sending!DeliveryInit /\ Uses(7)
       \/ part = "peers" /\ Peers!PeerInit /\ Uses(7)
       \/ part = "memories" /\ Memories!AgentMemoryInit /\ Uses(6)
       \/ part = "reviews" /\ Reviews!ReviewInit /\ Uses(9)
       \/ part = "boss" /\ Boss!SupervisionInit /\ Uses(4)
       \/ part = "query" /\ Query!HandoverInit /\ Uses(10)

upTo8 == <<s1, s2, s3, s4, s5, s6, s7, s8>>
from5 == <<s5, s6, s7, s8, s9, s10, s11>>
from6 == <<s6, s7, s8, s9, s10, s11>>
from9 == <<s9, s10, s11>>

ServiceMoves == part = "service" /\ ServiceNext /\ UNCHANGED <<upTo8, from9>>

OtherMoves ==
    /\ \/ part = "talk" /\ Talk!TurnNext
       \/ part = "files" /\ Files!FileNext /\ UNCHANGED from9
       \/ part = "repairs" /\ Repairs!RepairNext /\ UNCHANGED from9
       \/ part = "batch" /\ Batch!BatchNext /\ UNCHANGED from5
       \/ part = "gateway" /\ Gateway!GatewayNext /\ UNCHANGED from6
       \/ part = "asks" /\ Asked!DelegationNext
       \/ part = "follows" /\ Follows!DelegationNext
       \/ part = "approvals" /\ Both!ApprovalsNext /\ UNCHANGED from9
       \/ part = "twice" /\ Twice!ApprovalsNext /\ UNCHANGED from9
       \/ part = "budget" /\ Budget!BudgetNext /\ UNCHANGED <<s8, from9>>
       \/ part = "loop" /\ Loop!LoopNext /\ UNCHANGED s11
       \/ part = "calls" /\ Calls!CallsNext /\ UNCHANGED <<s3, s4, from5>>
       \/ part = "rights" /\ Rights!PermissionsNext /\ UNCHANGED <<s8, from9>>
       \/ part = "kept" /\ Kept!PermissionsNext /\ UNCHANGED <<s8, from9>>
       \/ part = "handoff" /\ Handoff!HandoffNext /\ UNCHANGED from9
       \/ part = "bench" /\ Bench!WorkbenchNext /\ UNCHANGED <<s8, from9>>
       \/ part = "mcp" /\ Mcp!McpNext /\ UNCHANGED from9
       \/ part = "questions" /\ Questions!QuestionsNext /\ UNCHANGED <<s7, s8, from9>>
       \/ part = "summaries" /\ Summaries!SummaryNext /\ UNCHANGED from9
       \/ part = "reply" /\ Reply!ReplyTurnNext /\ UNCHANGED from9
       \/ part = "bubbles" /\ Sending!DeliveryNext /\ UNCHANGED <<s8, from9>>
       \/ part = "peers" /\ Peers!PeerNext /\ UNCHANGED <<s8, from9>>
       \/ part = "memories" /\ Memories!AgentMemoryNext /\ UNCHANGED <<s7, s8, from9>>
       \/ part = "reviews" /\ Reviews!ReviewNext /\ UNCHANGED <<s10, s11>>
       \/ part = "boss" /\ Boss!SupervisionNext /\ UNCHANGED from5
       \/ part = "query" /\ Query!HandoverNext /\ UNCHANGED s11
    /\ UNCHANGED all

ComponentsNext == (ServiceMoves \/ OtherMoves) /\ UNCHANGED part

allVars == <<part, all, upTo8, from9>>

ComponentsSpec == ComponentsInit /\ [][ComponentsNext]_allVars

-----------------------------------------------------------------------------
(* The type invariants of the components, each where it moves.             *)
ComponentsTypeOK ==
    \/ part = "service" /\ ServiceTypeOK
    \/ part = "talk" /\ Talk!ConversationTypeOK
    \/ part = "files" /\ Files!FileTypeOK
    \/ part = "repairs" /\ Repairs!RepairTypeOK
    \/ part = "batch" /\ Batch!BatchTypeOK
    \/ part = "gateway" /\ Gateway!GatewayTypeOK
    \/ part = "asks" /\ Asked!DelegationTypeOK
    \/ part = "follows" /\ Follows!DelegationTypeOK
    \/ part = "approvals" /\ Both!ApprovalsTypeOK
    \/ part = "twice" /\ Twice!ApprovalsTypeOK
    \/ part = "budget" /\ Budget!BudgetTypeOK
    \/ part = "loop" /\ Loop!LoopTypeOK
    \/ part = "calls" /\ Calls!CallsTypeOK
    \/ part = "rights" /\ Rights!PermissionsTypeOK
    \/ part = "kept" /\ Kept!PermissionsTypeOK
    \/ part = "handoff" /\ Handoff!HandoffTypeOK
    \/ part = "bench" /\ Bench!WorkbenchTypeOK
    \/ part = "mcp" /\ Mcp!McpTypeOK
    \/ part = "questions" /\ Questions!QuestionsTypeOK
    \/ part = "summaries" /\ Summaries!SummaryTypeOK
    \/ part = "reply" /\ Reply!ReplyTurnTypeOK
    \/ part = "bubbles" /\ Sending!DeliveryTypeOK
    \/ part = "peers" /\ Peers!PeerTypeOK
    \/ part = "memories" /\ Memories!AgentMemoryTypeOK
    \/ part = "reviews" /\ Reviews!ReviewTypeOK
    \/ part = "boss" /\ Boss!SupervisionTypeOK
    \/ part = "query" /\ Query!HandoverTypeOK

(* However often a file is asked for and by whichever thread it is served, *)
(* one id is sent once (FileDelivery); however often a message arrives and *)
(* whatever of its calls is lost, it begins one attempt of a delegated     *)
(* task, whose result is sent once (Delegation); and however late or wrong *)
(* an answer comes, the calls of a request are executed once, after a yes  *)
(* to that request (Approvals); and whichever slice or process asks again, *)
(* a change that was made is not made once more (AgentLoop).  No call runs *)
(* but as the level of its task and the user's word allow (ToolPermissions *)
(* - a word is for one call), a listener hears one response of the model   *)
(* (ModelCalls), a task is handed to an executor once and a stop of it     *)
(* that was confirmed is one (SupervisorHandoff), and the workbench shows  *)
(* the one task it has under way (Workbench).  A call of an external tool  *)
(* that is said to have had no effect has none (McpTransport), an answer   *)
(* begins one attempt and is not lost before (QuestionAnswers), and a      *)
(* result is summarized once (SummaryWorker).  A reply answers what was    *)
(* reviewed and no more (ReplyTurn), its receipt is what was shown         *)
(* (ReplyDelivery), and what was forgotten is not remembered again         *)
(* (AgentMemory).  A message reinforces a memory once (LifecycleReview), a *)
(* backend runs once (Supervision), and a question is handed over,         *)
(* announced and run once (QueryHandover).                                 *)
EffectsAreSingle ==
    /\ part = "files" => Files!EffectsAreSingle
    /\ part = "asks" => Asked!DelegationIsSingle
    /\ part = "follows" => Follows!DelegationIsSingle
    /\ part = "approvals" => Both!ApprovalsAreExact
    /\ part = "twice" => Twice!ApprovalsAreExact
    /\ part = "loop" => Loop!ChangesAreKnown
    /\ part = "rights" => Rights!RunsAreAllowed
    /\ part = "kept" => Kept!RunsAreAllowed
    /\ part = "calls" => Calls!OneVoice
    /\ part = "handoff" => Handoff!HandoffIsSingle
    /\ part = "bench" => Bench!OneTaskShown
    /\ part = "mcp" => Mcp!CallsAreHonest
    /\ part = "questions" => Questions!AnswersAreKept
    /\ part = "summaries" => Summaries!SummariesAreSettled
    /\ part = "reply" => Reply!ReplyIsCurrent
    /\ part = "bubbles" => Sending!ReceiptIsHonest
    /\ part = "memories" => Memories!ForgottenStays
    /\ part = "reviews" => Reviews!EvidenceIsSingle
    /\ part = "boss" => Boss!NobodyIsLeftBehind
    /\ part = "query" => Query!HandoverIsSingle

(* Nobody spends more than was allowed, whoever dies, is late or starts    *)
(* again: a learning batch on its model (ModelGateway), a translation on   *)
(* its calls and its time (BatchTask), the repairs of a day (RepairQueue), *)
(* a task on the tokens of all its works (TaskBudget) and on the rounds of *)
(* its loop (AgentLoop), a call of the model on requests (ModelCalls), a   *)
(* turn on questions (ReplyTurn), other agents on answers (PeerExchange),  *)
(* reviews of memory on requests (LifecycleReview), the supervisor on      *)
(* processes (Supervision), a question that is handed over on reads        *)
(* (QueryHandover).                                                        *)
BudgetsHold ==
    /\ part = "gateway" => Gateway!SpendIsBounded
    /\ part = "batch" => Batch!BudgetSpansRuns
    /\ part = "repairs" => Repairs!RepairsAreRationed
    /\ part = "budget" => Budget!SpendSpansWorks
    /\ part = "loop" => Loop!LoopIsBounded
    /\ part = "calls" => Calls!RequestsAreBounded
    /\ part = "reply" => Reply!QuestionsAreBounded
    /\ part = "peers" => Peers!PeersAreRationed
    /\ part = "reviews" => Reviews!ReviewsAreRationed
    /\ part = "boss" => Boss!RestartsAreBounded
    /\ part = "query" => Query!HandoverIsBounded

(* Whoever else still wants to end it, what a turn (ConversationTurns) or  *)
(* a batch (BatchTask) was closed with stands; and a summary that is ready *)
(* was so in time (SummaryWorker); an opinion counts only for the memory   *)
(* as it is when it is written down (LifecycleReview).                     *)
ReceiptsStand ==
    [][/\ part = "talk" => Talk!ReceiptKept
       /\ part = "batch" => Batch!VerdictKept
       /\ part = "summaries" => Summaries!ReadyInTime
       /\ part = "reviews" => Reviews!ReviewIsCurrent]_allVars
=============================================================================
