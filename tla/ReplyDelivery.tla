---------------------------- MODULE ReplyDelivery ----------------------------
(***************************************************************************)
(* One reply sent to a group as several bubbles and perhaps a voice:       *)
(* shinku/qq/reply_delivery.py with the transport under it (napcat.py,     *)
(* delivery.py) and what the host keeps of it (agent_bridge.py).           *)
(*                                                                         *)
(* The first bubble that goes out quotes the message it answers, or        *)
(* mentions its sender.  While the bubbles go out a user may stop all      *)
(* replies and start them again, and the result may lose its binding; an   *)
(* answer of the transport may be lost, and one that says the bubble was   *)
(* not sent may be wrong: an HTTP error or an unreadable body is read as a *)
(* refusal.  Left out: the texts, a missing sender, the desktop.           *)
(***************************************************************************)
EXTENDS Naturals, FiniteSets

CONSTANT Bubbles    \* how many a reply has

VARIABLES
    reply,      \* what kind of reply it is, whether a voice goes with it,
                \* where it is, the bubble that is next and the final status
    gate,       \* whether replies are enabled, and the result still bound
    answers,    \* what the transport answered for each bubble, and the voice
    shown,      \* history: what the group has seen, and what of it quotes
    misread,    \* history: a bubble that was seen counts as refused
    late,       \* history: sends begun since the gate last closed
    memory      \* what the conversation's memory holds of the reply

deliveryVars == <<reply, gate, answers, shown, misread, late, memory>>

DeliveryAssumption == Bubbles \in Nat \ {0}

Texts == 1..Bubbles
Voice == Bubbles + 1

NotKept == [bubbles |-> {}, complete |-> FALSE]

DeliveryInit ==
    /\ reply \in [kind : {"command", "chat", "completed"}, voiced : BOOLEAN, at : {"admit"},
                  next : {1}, status : {"none"}]
    /\ gate = [open |-> TRUE, bound |-> TRUE]
    /\ answers = [b \in Texts \cup {Voice} |-> "none"]
    /\ shown = [bubbles |-> {}, quoting |-> {}] /\ misread = FALSE
    /\ late = 0
    /\ memory = NotKept

-----------------------------------------------------------------------------
(* What is known of the transport so far *)

Sent == {b \in DOMAIN answers : answers[b] = "sent"}
Known == {b \in DOMAIN answers : answers[b] \in {"sent", "partial"}}
Failed == {b \in DOMAIN answers : answers[b] \notin {"none", "sent"}}

(* /stop closes the gate for all but commands, a result that lost its      *)
(* binding, or a group that moved on, for every reply.                     *)
Closed == (reply.kind # "command" /\ ~gate.open) \/ ~gate.bound

(* Mutant: what may have been shown without an answer does not count.      *)
NothingKnown == Known = {}

(* The quote, or the mention, goes with a bubble while nothing was sent    *)
(* and nothing may have been.                                              *)
FirstNotice == Known = {} /\ \A b \in Texts : answers[b] # "unknown"

Goes(at) == reply' = [reply EXCEPT !.at = at]
Learns(b, what) == answers' = [answers EXCEPT ![b] = what]

-----------------------------------------------------------------------------
(* deliver_qq_reply *)

(* A closed gate refuses the reply before anything is prepared.            *)
Admit ==
    /\ reply.at = "admit"
    /\ reply' = IF Closed THEN [reply EXCEPT !.at = "done", !.status = "suppressed"]
                ELSE [reply EXCEPT !.at = "texts"]
    /\ UNCHANGED <<gate, answers, shown, misread, late, memory>>

(* ... looked at again after the pause before each bubble.                 *)
MayGoOn == ~Closed

NextBubble ==
    /\ reply.at = "texts" /\ reply.next \in Texts
    /\ \/ ~MayGoOn /\ Learns(reply.next, "suppressed") /\ Goes("settle")
       \/ /\ MayGoOn
          /\ \/ Goes("sending") /\ UNCHANGED answers
             \/ Learns(reply.next, "empty") /\ reply' = [reply EXCEPT !.next = @ + 1]
    /\ UNCHANGED <<gate, shown, misread, late, memory>>

(* What the transport says of a message that was, or was not, shown; a     *)
(* known id means it was.                                                  *)
Answered(seen) ==
    IF seen THEN {"sent", "partial", "unknown", "rejected"} ELSE {"unknown", "rejected"}

Begun == late' = IF Closed THEN late + 1 ELSE late

SendBubble ==
    /\ reply.at = "sending"
    /\ \E seen \in BOOLEAN : \E a \in Answered(seen) :
          /\ Learns(reply.next, a)
          /\ shown' = IF ~seen THEN shown
                      ELSE [bubbles |-> shown.bubbles \cup {reply.next},
                            quoting |-> IF FirstNotice THEN shown.quoting \cup {reply.next} ELSE shown.quoting]
          /\ misread' = (misread \/ (seen /\ a = "rejected"))
    /\ reply' = [reply EXCEPT !.at = "texts", !.next = @ + 1]
    /\ Begun
    /\ UNCHANGED <<gate, memory>>

(* A completed result is read aloud once all its text is out.              *)
StartVoice ==
    /\ reply.at = "texts" /\ reply.next \notin Texts
    /\ \/ /\ reply.kind = "completed" /\ reply.voiced /\ Failed = {}
          /\ IF Closed THEN Learns(Voice, "suppressed") /\ Goes("settle") ELSE Goes("voice") /\ UNCHANGED answers
       \/ (reply.kind # "completed" \/ ~reply.voiced \/ Failed # {}) /\ Goes("settle") /\ UNCHANGED answers
    /\ UNCHANGED <<gate, shown, misread, late, memory>>

(* The rendering takes its time or fails; the gate is looked at once more. *)
RenderVoice ==
    /\ reply.at = "voice"
    /\ \/ Goes("settle") /\ UNCHANGED answers
       \/ Closed /\ Learns(Voice, "suppressed") /\ Goes("settle")
       \/ ~Closed /\ Goes("speaking") /\ UNCHANGED answers
    /\ UNCHANGED <<gate, shown, misread, late, memory>>

SendVoice ==
    /\ reply.at = "speaking"
    /\ \E seen \in BOOLEAN : \E a \in Answered(seen) :
          /\ Learns(Voice, a)
          /\ shown' = IF seen THEN [shown EXCEPT !.bubbles = @ \cup {Voice}] ELSE shown
    /\ Goes("settle") /\ Begun
    /\ UNCHANGED <<gate, misread, memory>>

(* The host keeps what was surely sent, as complete only when nothing      *)
(* failed and they make up the text; the memory may refuse it, which       *)
(* changes nothing of the reply.                                           *)
Receipt == [bubbles |-> Sent \ {Voice}, complete |-> Failed = {}]

(* Its status is that of the first failure, unless something is known to   *)
(* have been sent.                                                         *)
First(S) == CHOOSE b \in S : \A c \in S : b <= c

Settle ==
    /\ reply.at = "settle"
    /\ reply' = [reply EXCEPT !.at = "done",
                              !.status = CASE Failed = {} -> "sent"
                                           [] Failed # {} /\ Known # {} -> "partial"
                                           [] OTHER -> answers[First(Failed)]]
    /\ \/ /\ Known # {} /\ Receipt.bubbles # {}
          /\ \E whole \in BOOLEAN : memory' = [Receipt EXCEPT !.complete = @ /\ whole]
       \/ UNCHANGED memory
    /\ UNCHANGED <<gate, answers, shown, misread, late>>

-----------------------------------------------------------------------------
(* /stop, /start and a result that is no longer the one that was bound     *)

Stop ==
    /\ gate.open /\ gate' = [gate EXCEPT !.open = FALSE]
    /\ late' = IF Closed THEN late ELSE 0
    /\ UNCHANGED <<reply, answers, shown, misread, memory>>

Start ==
    /\ ~gate.open /\ gate' = [gate EXCEPT !.open = TRUE]
    /\ UNCHANGED <<reply, answers, shown, misread, late, memory>>

Unbind ==
    /\ gate.bound /\ gate' = [gate EXCEPT !.bound = FALSE]
    /\ late' = IF Closed THEN late ELSE 0
    /\ UNCHANGED <<reply, answers, shown, misread, memory>>

DeliveryNext ==
    \/ Admit \/ NextBubble \/ SendBubble \/ StartVoice \/ RenderVoice \/ SendVoice \/ Settle
    \/ Stop \/ Start \/ Unbind

DeliverySpec == DeliveryInit /\ [][DeliveryNext]_deliveryVars

-----------------------------------------------------------------------------
DeliveryTypeOK ==
    /\ reply.at \in {"admit", "texts", "sending", "voice", "speaking", "settle", "done"}
    /\ reply.next \in 1..(Bubbles + 1)
    /\ reply.status \in {"none", "sent", "partial", "suppressed", "empty", "unknown", "rejected"}
    /\ answers \in [Texts \cup {Voice} -> {"none", "sent", "partial", "suppressed", "empty", "unknown", "rejected"}]
    /\ late \in Nat
    /\ memory.bubbles \subseteq Texts

(* The group is notified once, however many bubbles had no answer, unless  *)
(* a refusal was misread; after a stop one bubble may still go out, the    *)
(* one that had passed the check, and no other; and what is told of the    *)
(* reply is what happened: "sent" that all of it was seen, "suppressed"    *)
(* that nothing was, and the memory holds only what was seen, as complete  *)
(* only when that is everything.                                           *)
ReceiptIsHonest ==
    /\ Cardinality(shown.quoting) <= 1 \/ misread
    /\ late <= 1
    /\ reply.status = "sent" => Texts \subseteq shown.bubbles
    /\ reply.status = "suppressed" => shown.bubbles = {}
    /\ memory.bubbles \subseteq shown.bubbles
    /\ memory.complete => memory.bubbles = Texts
=============================================================================
