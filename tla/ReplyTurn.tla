------------------------------ MODULE ReplyTurn ------------------------------
(***************************************************************************)
(* One turn of a QQ conversation from its admission to its reply, or to    *)
(* the work it leaves behind: shinku/qq/turn_pipeline.py and what it calls *)
(* (turn_preparation, turn_routing, chat_decision, group_reply_review,     *)
(* task_admission, background_tasks), as agent_bridge.py puts it together. *)
(*                                                                         *)
(* A turn was meant for the character, or is ambient: talk of a group it   *)
(* may join.  While the models think, the group goes on talking, a user    *)
(* speaks to the character, time passes, and commands of other turns take  *)
(* and give back authority.  Left out: what is said, the approval a turn   *)
(* may answer (Approvals), the sending bubble by bubble (ReplyDelivery),   *)
(* and the mode that decides on tasks before it chats.                     *)
(***************************************************************************)
EXTENDS Naturals

CONSTANTS
    MaxLater,       \* how many more messages arrive in the group
    MaxRevision,    \* how often authority changes
    MaxTools        \* how many tools a work may use

VARIABLES
    turn,       \* its kind, where it is, what the model decided and so on
    calls,      \* how often each kind of question was put to a model
    gate,       \* the command state: stopped, tools allowed, its revision
    window,     \* what came after the turn, as its dispatcher saw it
    reviewed,   \* how much of that counts as reviewed
    shown,      \* history: what was sent, and what it had not been checked for
    work,       \* the background work of the turn
    trace       \* who has written how the turn ended

turnVars == <<turn, calls, gate, window, reviewed, shown, work, trace>>

ReplyTurnAssumption ==
    /\ MaxLater \in Nat \ {0} /\ MaxRevision \in Nat \ {0} /\ MaxTools \in Nat \ {0}

Authority == [stopped : BOOLEAN, tools : BOOLEAN, revision : 0..MaxRevision]

ReplyTurnInit ==
    /\ turn \in [kind : {"direct", "ambient"}, at : {"control"}, images : BOOLEAN,
                 decision : {"none"}, valid : {FALSE}, marked : {FALSE}, asks : {FALSE}, read : {0}]
    /\ calls = [images |-> 0, main |-> 0, repair |-> 0, review |-> 0]
    /\ gate = [stopped |-> FALSE, tools |-> TRUE, revision |-> 0]
    /\ window = [later |-> 0, explicit |-> FALSE, age |-> 0, readable |-> TRUE]
    /\ reviewed = 0
    /\ shown = [chat |-> FALSE, blind |-> FALSE]
    /\ work = [at |-> "none", revision |-> 0, since |-> 0, tools |-> 0]
    /\ trace = "open"

-----------------------------------------------------------------------------
(* Whether the reply of an ambient turn still has a place                  *)

Ambient == turn.kind = "ambient"

(* Somebody spoke to the character, too much time passed, or what came     *)
(* cannot be read; a turn that waits also yields to any later message, and *)
(* a reply about to go out to one that was not reviewed.                   *)
Stale(phase) ==
    /\ Ambient
    /\ \/ window.explicit \/ ~window.readable \/ window.age = 2
       \/ phase = "queue" /\ (window.later > 0 \/ window.age > 0)
       \/ phase = "publish" /\ window.later > reviewed

Goes(at) == turn' = [turn EXCEPT !.at = at]
Asked(what) == calls' = [calls EXCEPT ![what] = @ + 1]

(* The turn ends, and its trace is closed by the thread that had it.       *)
Ends == Goes("done") /\ trace' = "foreground"
World == UNCHANGED <<gate, window>>

-----------------------------------------------------------------------------
(* handle_qq_turn *)

(* Before anything is asked of a model; what is left of the turn's input   *)
(* is then recorded, and its authority noted.                              *)
Control ==
    /\ turn.at = "control"
    /\ IF gate.stopped THEN Ends /\ UNCHANGED work
       ELSE Goes("decide") /\ work' = [work EXCEPT !.revision = gate.revision] /\ UNCHANGED trace
    /\ UNCHANGED <<calls, reviewed, shown>> /\ World

(* An ambient turn that waited too long does not begin; which of the       *)
(* pictures is meant is asked first, when there are any to choose from.    *)
Decide ==
    /\ turn.at = "decide"
    /\ IF Stale("queue") THEN Ends ELSE Goes(IF turn.images THEN "images" ELSE "ask") /\ UNCHANGED trace
    /\ UNCHANGED <<calls, reviewed, shown, work>> /\ World

(* The answers of a model, each dropped when the turn went stale meanwhile *)

Silent == Ends /\ UNCHANGED shown

(* A choice the protocol refuses is asked for once more; one that was made *)
(* leads to the actual request; more than one candidate leads to a         *)
(* question to the user, which no review sees.                             *)
ChooseImages ==
    /\ turn.at = "images" /\ Asked("images")
    /\ IF Stale("reply") THEN Silent
       ELSE /\ \/ Goes("ask")
               \/ calls.images = 0 /\ UNCHANGED turn
               \/ turn' = [turn EXCEPT !.at = "route", !.decision = "wait", !.valid = TRUE, !.asks = TRUE]
               \/ turn' = [turn EXCEPT !.at = "publish", !.decision = "failed"]
            /\ UNCHANGED <<shown, trace>>
    /\ UNCHANGED <<reviewed, work>> /\ World

(* What the model says is parsed: a reply, silence, where tools are        *)
(* offered a call, or a promise or a call that needs correcting, or        *)
(* nothing at all.                                                         *)
Answers == {"final", "silence"} \cup (IF gate.tools THEN {"tool", "malformed"} ELSE {})

Decided(d, valid) ==
    turn' = [turn EXCEPT !.at = IF valid /\ (Ambient \/ d = "silence") THEN "review" ELSE "route",
                         !.decision = d, !.valid = valid]

Ask ==
    /\ turn.at = "ask" /\ Asked("main")
    /\ IF Stale("reply") THEN Silent
       ELSE /\ \/ \E d \in Answers :
                    IF d = "malformed" THEN Goes("repair") ELSE Decided(d, TRUE)
               \/ Decided("failed", FALSE)
            /\ UNCHANGED <<shown, trace>>
    /\ UNCHANGED <<reviewed, work>> /\ World

(* One correction, whose answer is taken as it is.                         *)
Repair ==
    /\ turn.at = "repair" /\ Asked("repair")
    /\ IF Stale("reply") THEN Silent
       ELSE /\ \/ \E d \in {"final", "silence", "tool"} : Decided(d, TRUE)
               \/ Decided("failed", FALSE)
            /\ UNCHANGED <<shown, trace>>
    /\ UNCHANGED <<reviewed, work>> /\ World

(* A reply to ambient talk is reviewed together with what came since; an   *)
(* explicit turn only when it would end in silence.                        *)
Review ==
    /\ turn.at = "review" /\ Asked("review")
    /\ turn' = [turn EXCEPT !.at = IF Ambient /\ turn.decision # "silence" THEN "acknowledge" ELSE "route",
                            !.read = window.later]
    /\ UNCHANGED <<reviewed, shown, work, trace>> /\ World

(* Mutant: what came during the review counts as reviewed.                 *)
AnyCovered == window.readable

(* The review covers what it was shown: nothing may have come since.       *)
StillCovered == window.readable /\ window.later = turn.read

Acknowledge ==
    /\ turn.at = "acknowledge"
    /\ \/ /\ StillCovered
          /\ turn' = [turn EXCEPT !.at = "route", !.marked = turn.decision = "final"]
          /\ reviewed' = window.later
       \/ turn' = [turn EXCEPT !.at = "route", !.decision = "silence"] /\ UNCHANGED reviewed
    /\ UNCHANGED <<calls, shown, work, trace>> /\ World

(* select_chat_route: ambient talk may be left alone, a farewell that was  *)
(* answered too; any other silence becomes a reply.                        *)
Route ==
    /\ turn.at = "route"
    /\ \/ Stale("reply") /\ Silent
       \/ ~Stale("reply") /\ turn.decision = "silence" /\ Silent
       \/ /\ ~Stale("reply") /\ UNCHANGED <<shown, trace>>
          /\ IF turn.decision = "tool" THEN Goes("admit")
             ELSE /\ ~(Ambient /\ turn.decision = "silence")
                  /\ Goes("direct")
    /\ UNCHANGED <<calls, reviewed, work>> /\ World

(* deliver_direct_chat: checked for promises and claims, and once more for *)
(* its place.                                                              *)
Direct ==
    /\ turn.at = "direct"
    /\ IF Stale("reply") THEN Silent ELSE Goes("publish") /\ UNCHANGED <<shown, trace>>
    /\ UNCHANGED <<calls, reviewed, work>> /\ World

(* A reply goes out unless replies are stopped, it is ambient without a    *)
(* decision of the model, or what was reviewed is not all there is.        *)
MayPublish ==
    /\ ~gate.stopped
    /\ Ambient => turn.valid
    /\ turn.marked => ~Stale("publish")

Publish ==
    /\ turn.at = "publish"
    /\ \/ MayPublish /\ shown' = [chat |-> TRUE, blind |-> Ambient /\ ~turn.asks /\ window.later > turn.read]
       \/ ~MayPublish /\ UNCHANGED shown
    /\ Ends
    /\ UNCHANGED <<calls, reviewed, work>> /\ World

-----------------------------------------------------------------------------
(* Work a turn leaves behind *)

(* dispatch_agent_request: refused without authority; a task that cannot   *)
(* be prepared or queued ends the turn.                                    *)
Admit ==
    /\ turn.at = "admit"
    /\ \/ gate.tools /\ Goes("handoff") /\ work' = [work EXCEPT !.at = "queued"] /\ UNCHANGED trace
       \/ Ends /\ UNCHANGED work
    /\ UNCHANGED <<calls, reviewed, shown>> /\ World

(* The work is started, and its trace is the worker's; one that could not  *)
(* be started, or was cancelled first, is a failure of the turn.           *)
Dispatch ==
    /\ turn.at = "handoff"
    /\ \/ work.at = "queued" /\ Goes("done") /\ work' = [work EXCEPT !.at = "checked"] /\ UNCHANGED trace
       \/ /\ work' = [work EXCEPT !.at = IF @ = "queued" THEN "failed" ELSE @]
          /\ Ends
    /\ UNCHANGED <<calls, reviewed, shown>> /\ World

Cancel ==
    /\ work.at = "queued"
    /\ work' = [work EXCEPT !.at = "cancelled"] /\ trace' = "worker"
    /\ UNCHANGED <<turn, calls, reviewed, shown>> /\ World

(* _interruption_reason: authority, and the revision the turn began with.  *)
Uninterrupted == gate.tools /\ ~gate.stopped /\ gate.revision = work.revision

(* Before each tool and when the loop ends; a worker may also stop itself. *)
CheckWork ==
    /\ work.at = "checked"
    /\ work' = [work EXCEPT !.at = IF Uninterrupted /\ work.tools < MaxTools THEN "running" ELSE "finishing"]
    /\ UNCHANGED <<turn, calls, reviewed, shown, trace>> /\ World

UseTool ==
    /\ work.at = "running"
    /\ work' = [work EXCEPT !.at = "checked", !.tools = @ + 1,
                            !.since = IF gate.revision # work.revision THEN @ + 1 ELSE @]
    /\ UNCHANGED <<turn, calls, reviewed, shown, trace>> /\ World

FinishWork ==
    /\ work.at \in {"checked", "finishing"}
    /\ work' = [work EXCEPT !.at = "ended"] /\ trace' = "worker"
    /\ UNCHANGED <<turn, calls, reviewed, shown>> /\ World

-----------------------------------------------------------------------------
(* The world *)

Others == UNCHANGED <<turn, calls, reviewed, shown, work, trace>>

(* Another message of the group, addressed to the character or not, one    *)
(* the review cannot read perhaps.                                         *)
Arrive ==
    /\ window.later < MaxLater
    /\ \E explicit, readable \in BOOLEAN :
          window' = [window EXCEPT !.later = @ + 1, !.explicit = @ \/ explicit, !.readable = @ /\ readable]
    /\ UNCHANGED gate /\ Others

Age == window.age < 2 /\ window' = [window EXCEPT !.age = @ + 1] /\ UNCHANGED gate /\ Others

(* /stop, /start and /agent, of which each that changes something counts.  *)
Command ==
    /\ gate.revision < MaxRevision
    /\ \/ gate' = [gate EXCEPT !.stopped = ~@, !.revision = @ + 1]
       \/ gate' = [gate EXCEPT !.tools = ~@, !.revision = @ + 1]
    /\ UNCHANGED window /\ Others

ReplyTurnNext ==
    \/ Control \/ Decide \/ ChooseImages \/ Ask \/ Repair \/ Review \/ Acknowledge \/ Route \/ Direct
    \/ Publish \/ Admit \/ Dispatch \/ Cancel \/ CheckWork \/ UseTool \/ FinishWork
    \/ Arrive \/ Age \/ Command

ReplyTurnSpec == ReplyTurnInit /\ [][ReplyTurnNext]_turnVars

-----------------------------------------------------------------------------
ReplyTurnTypeOK ==
    /\ turn.at \in {"control", "decide", "images", "ask", "repair", "review", "acknowledge", "route",
                    "direct", "publish", "admit", "handoff", "done"}
    /\ turn.decision \in {"none", "final", "silence", "tool", "wait", "failed"}
    /\ gate \in Authority
    /\ reviewed \in 0..MaxLater /\ turn.read \in 0..MaxLater
    /\ work.at \in {"none", "queued", "cancelled", "failed", "checked", "running", "finishing", "ended"}
    /\ work.tools \in 0..MaxTools /\ work.since \in 0..MaxTools
    /\ trace \in {"open", "foreground", "worker"}

(* Nothing of the group's talk is answered past a message nobody has       *)
(* reviewed, however long the models took and whichever way the decision   *)
(* came about - but for the question which picture is meant; a work uses   *)
(* one more tool at most once its authority was touched, even if it was    *)
(* given back; and what a worker wrote of the end of the turn stands.      *)
ReplyIsCurrent ==
    /\ ~shown.blind
    /\ work.since <= 1
    /\ work.at = "ended" => trace = "worker"

(* A turn asks a model five questions at most.                             *)
QuestionsAreBounded ==
    /\ calls.images <= 2 /\ \A what \in {"main", "repair", "review"} : calls[what] <= 1
=============================================================================
