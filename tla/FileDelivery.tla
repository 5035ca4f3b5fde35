---------------------------- MODULE FileDelivery ----------------------------
(***************************************************************************)
(* A file an Agent task hands to the conversation it came from.            *)
(*                                                                         *)
(*   shinku/agent_runtime/file_delivery.py   TaskFileDelivery: the tool    *)
(*                  asks for a file and waits for its receipt              *)
(*   shinku/qq/file_delivery.py              QQFileDelivery: the host      *)
(*                  occupies, fetches, sends and acknowledges it           *)
(*   shinku/qq/delegation.py                 _poll, whose threads forward  *)
(*   shinku/agent_runtime/service.py         _resume, a further attempt    *)
(*                                                                         *)
(* Two processes with a ledger each, and nothing but calls between them.   *)
(* One task of one conversation; its request covers every file here.  The  *)
(* service runs without recovery_enabled; with it, no task resumes after a *)
(* send.                                                                   *)
(***************************************************************************)
EXTENDS Naturals, FiniteSets

CONSTANTS
    Paths,        \* files the task may send
    Contents,     \* what a file may contain
    Senders,      \* threads of the host that poll for the task
    Capacity,     \* files of one attempt (16)
    MaxTry        \* bound of the attempts explored

(* What the constants are.                                                 *)
FileAssumption ==
    /\ Paths # {} /\ Contents # {}
    /\ Capacity \in Nat \ {0} /\ MaxTry \in Nat \ {0}

VARIABLES
    try,        \* execution_attempt
    granted,    \* the lease of the task is live and the task not canceled
    file,       \* what is on disk
    asked,      \* agent_file_deliveries
    tool,       \* the tool call: [at, id]
    taken,      \* qq_file_deliveries: the status of an id
    sender,     \* per thread: where _one is, and what it learned
    sends       \* history: per id, how often the transport was called

fileVars == <<try, granted, file, asked, tool, taken, sender, sends>>

(* The id of a delivery is a hash of scope, task, attempt and path.        *)
Ids == (1..MaxTry) \X Paths
Unasked == [status |-> "none"]
Unsettled == {"pending", "claimed"}
NoTool == [at |-> "idle", id |-> <<1, CHOOSE p \in Paths : TRUE>>]
NoSend == [at |-> "idle", id |-> NoTool.id, status |-> "uncertain"]

FileInit ==
    /\ try = 1 /\ granted = TRUE
    /\ file \in [Paths -> Contents]
    /\ asked = [i \in Ids |-> Unasked] /\ tool = NoTool
    /\ taken = [i \in Ids |-> "none"]
    /\ sender = [s \in Senders |-> NoSend]
    /\ sends = [i \in Ids |-> 0]

-----------------------------------------------------------------------------
(* The Agent's side: TaskFileDelivery                                      *)

Asked(status) == {i \in Ids : asked[i].status = status}

(* current and row: the attempt is the task's, and it is still authorized. *)
Authorized(i) == granted /\ i[1] = try

(* request, up to the row it waits for.  An unknown effect of the task     *)
(* refuses everything; a file confirmed with this content is not sent      *)
(* again; the same path with another content is refused.                   *)
Request(p) ==
    LET i == <<try, p>> IN
    /\ tool.at = "idle" /\ granted
    /\ Asked("uncertain") = {}
    /\ \A j \in Asked("sent") : <<j[2], asked[j].content>> # <<p, file[p]>>
    /\ IF asked[i] = Unasked
       THEN /\ Cardinality({j \in Ids : j[1] = try /\ asked[j] # Unasked}) < Capacity
            /\ asked' = [asked EXCEPT ![i] = [status |-> "pending", content |-> file[p]]]
       ELSE asked[i].content = file[p] /\ UNCHANGED asked
    /\ tool' = [at |-> "waiting", id |-> i]
    /\ UNCHANGED <<try, granted, file, taken, sender, sends>>

(* A look at the row ends the wait when it is settled, or when the task is *)
(* no longer this attempt's: then the row is left as it is.                *)
Look ==
    /\ tool.at = "waiting"
    /\ ~Authorized(tool.id) \/ asked[tool.id].status \notin Unsettled
    /\ tool' = NoTool
    /\ UNCHANGED <<try, granted, file, asked, taken, sender, sends>>

(* The deadline, or an interrupt: seen after the row was read ...          *)
Expire ==
    /\ tool.at = "waiting"
    /\ Authorized(tool.id) /\ asked[tool.id].status \in Unsettled
    /\ tool' = [tool EXCEPT !.at = "giving up"]
    /\ UNCHANGED <<try, granted, file, asked, taken, sender, sends>>

(* ... and before it is marked, if it is still unsettled.                  *)
Doubted(i) == [asked EXCEPT ![i].status = IF @ \in Unsettled THEN "uncertain" ELSE @]

GiveUp ==
    /\ tool.at = "giving up"
    /\ asked' = Doubted(tool.id)
    /\ tool' = NoTool
    /\ UNCHANGED <<try, granted, file, taken, sender, sends>>

-----------------------------------------------------------------------------
(* The host's side: QQFileDelivery._one, one thread of it                  *)

At(s, at) == sender[s].at = at
Step(s, at) == sender' = [sender EXCEPT ![s].at = at]
Learns(s, at, status) == sender' = [sender EXCEPT ![s].at = at, ![s].status = status]
AgentSide == UNCHANGED <<try, granted, file, asked, tool>>

(* forward: what pending lists.                                            *)
List(s) ==
    /\ At(s, "idle") /\ granted
    /\ \E i \in Asked("pending") \cup Asked("claimed") :
          /\ i[1] = try
          /\ sender' = [sender EXCEPT ![s] = [at |-> "listed", id |-> i, status |-> "uncertain"]]
    /\ AgentSide /\ UNCHANGED <<taken, sends>>

Unknown == {i \in Ids : taken[i] \in {"started", "uncertain"}}

(* Mutant: only the file itself is asked whether it was started.           *)
OccupiableAlone(i) == taken[i] = "none"

(* A new file is occupied only while no effect of the task is unknown.     *)
Occupiable(i) == taken[i] = "none" /\ Unknown = {}

(* The durable reservation.  One that is found started is of a thread that *)
(* died or is at work: its outcome is unknown, and only acknowledged.      *)
Occupy(s) ==
    LET i == sender[s].id IN
    /\ At(s, "listed")
    /\ \/ /\ Authorized(i) /\ Occupiable(i)
          /\ taken' = [taken EXCEPT ![i] = "started"] /\ Step(s, "occupied")
       \/ /\ Authorized(i) /\ taken[i] # "none"
          /\ taken' = [taken EXCEPT ![i] = IF @ = "started" THEN "uncertain" ELSE @]
          /\ Learns(s, "recorded", taken'[i])
       \/ /\ ~Authorized(i) \/ (taken[i] = "none" /\ ~Occupiable(i))
          /\ UNCHANGED taken /\ Step(s, "idle")
    /\ AgentSide /\ UNCHANGED sends

(* payload: the bytes, if row and source are what they were; claims it.    *)
Fetch(s) ==
    LET i == sender[s].id IN
    /\ At(s, "occupied")
    /\ \/ /\ Authorized(i) /\ asked[i].status \in Unsettled
          /\ file[i[2]] = asked[i].content
          /\ asked' = [asked EXCEPT ![i].status = "claimed"] /\ Step(s, "fetched")
       \/ UNCHANGED asked /\ Learns(s, "learned", "failed")
    /\ UNCHANGED <<try, granted, file, tool, taken, sends>>

(* One call of the transport, after a last look at the task.               *)
Send(s) ==
    LET i == sender[s].id IN
    /\ At(s, "fetched")
    /\ \/ /\ Authorized(i)
          /\ sends' = [sends EXCEPT ![i] = @ + 1]
          /\ \E status \in {"sent", "failed", "uncertain"} : Learns(s, "learned", status)
       \/ ~Authorized(i) /\ Learns(s, "learned", "failed") /\ UNCHANGED sends
    /\ AgentSide /\ UNCHANGED taken

Record(s) ==
    /\ At(s, "learned")
    /\ taken' = [taken EXCEPT ![sender[s].id] = sender[s].status]
    /\ Step(s, "recorded")
    /\ AgentSide /\ UNCHANGED sends

(* acknowledge: a row that is settled takes no other receipt, and nothing  *)
(* nobody fetched was sent.                                                *)
Accepts(i, status) ==
    /\ Authorized(i)
    /\ asked[i].status \in Unsettled
    /\ ~(status = "sent" /\ asked[i].status = "pending")

Acknowledge(s) ==
    LET i == sender[s].id IN
    /\ At(s, "recorded")
    /\ asked' = IF Accepts(i, sender[s].status)
                THEN [asked EXCEPT ![i].status = sender[s].status] ELSE asked
    /\ Step(s, "idle")
    /\ UNCHANGED <<try, granted, file, tool, taken, sends>>

-----------------------------------------------------------------------------
(* Around them.  The lease may lapse, be revoked, and be there again.      *)

Revoke == granted /\ granted' = FALSE
    /\ UNCHANGED <<try, file, asked, tool, taken, sender, sends>>

Regrant == ~granted /\ granted' = TRUE
    /\ UNCHANGED <<try, file, asked, tool, taken, sender, sends>>

(* _resume: the tool has returned, and its worker with it.                 *)
ResumeTask ==
    /\ tool.at = "idle" /\ try < MaxTry
    /\ try' = try + 1 /\ granted' = TRUE
    /\ UNCHANGED <<file, asked, tool, taken, sender, sends>>

Edit == \E p \in Paths, c \in Contents :
    /\ c # file[p] /\ file' = [file EXCEPT ![p] = c]
    /\ UNCHANGED <<try, granted, asked, tool, taken, sender, sends>>

(* TaskFileDelivery.__init__, as the Agent's process starts again.         *)
RestartAgent ==
    /\ asked' = [i \in Ids |-> IF asked[i].status \in Unsettled
                               THEN [asked[i] EXCEPT !.status = "uncertain"] ELSE asked[i]]
    /\ tool' = NoTool /\ granted' = FALSE
    /\ UNCHANGED <<try, file, taken, sender, sends>>

CrashHost ==
    /\ sender' = [s \in Senders |-> NoSend]
    /\ UNCHANGED <<try, granted, file, asked, tool, taken, sends>>

FileNext ==
    \/ \E p \in Paths : Request(p)
    \/ Look \/ Expire \/ GiveUp
    \/ \E s \in Senders : List(s) \/ Occupy(s) \/ Fetch(s) \/ Send(s) \/ Record(s) \/ Acknowledge(s)
    \/ Revoke \/ Regrant \/ ResumeTask \/ Edit \/ RestartAgent \/ CrashHost

FileSpec == FileInit /\ [][FileNext]_fileVars

-----------------------------------------------------------------------------
(* Properties *)

FileTypeOK ==
    /\ try \in 1..MaxTry /\ granted \in BOOLEAN
    /\ file \in [Paths -> Contents]
    /\ asked \in [Ids -> {Unasked} \cup
          [status : Unsettled \cup {"sent", "failed", "uncertain"}, content : Contents]]
    /\ tool \in [at : {"idle", "waiting", "giving up"}, id : Ids]
    /\ taken \in [Ids -> {"none", "started", "sent", "failed", "uncertain"}]
    /\ sender \in [Senders -> [at : {"idle", "listed", "occupied", "fetched", "learned", "recorded"},
                               id : Ids, status : {"sent", "failed", "uncertain"}]]
    /\ sends \in [Ids -> Nat]

(* Whatever tool, host threads and restarts do to each other: a delivery   *)
(* reaches the transport once; while the fate of one is unknown no other   *)
(* of the task is begun; what the Agent is told was sent, the host had     *)
(* sent; and a file the Agent holds for sent is not asked for again.       *)
EffectsAreSingle ==
    /\ \A i \in Ids : sends[i] <= 1
    /\ Cardinality(Unknown) <= 1
    /\ \A i \in Asked("sent") : sends[i] = 1
    /\ \A j \in Asked("sent"), i \in Ids :
          i[1] > j[1] /\ i[2] = j[2] => asked[i] = Unasked \/ asked[i].content # asked[j].content

(* file_delivery.py:157 says a confirmed file is not sent again by an      *)
(* explicit continuation.  The host's confirmation may come too late: a    *)
(* lease that lapsed as the file went out refuses its receipt, and nothing *)
(* remembers the file when the next attempt asks for it.                   *)
ConfirmedIsNotResent ==
    \A i, j \in Ids :
        taken[i] = "sent" /\ taken[j] = "sent" /\ i[2] = j[2]
        /\ asked[i].content = asked[j].content => i = j
=============================================================================
