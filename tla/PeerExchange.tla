----------------------------- MODULE PeerExchange -----------------------------
(***************************************************************************)
(* How often the character answers the other agents of a group:            *)
(* shinku/qq/peer_exchange.py.                                             *)
(*                                                                         *)
(* Agents that answer each other would never stop: a conversation allows   *)
(* two answers to registered agents until a person speaks again.  Messages *)
(* carry the time they were sent at and arrive late, out of order and more *)
(* than once.  Every step is one transaction of the store, so a restart    *)
(* changes nothing.  Left out: private talk, whose allowance is never      *)
(* renewed, and the accounts that are exempt there.                        *)
(***************************************************************************)
EXTENDS Naturals, FiniteSets

CONSTANTS
    People, Agents,     \* messages of people, and of registered agents
    Allowance,          \* answers to agents until a person speaks
    Fresh,              \* how old a person's message may be when it arrives
    Keep,               \* how long an event is remembered
    MaxNow

VARIABLES
    now,
    sent,       \* when each message was sent, if it was
    answered,   \* the answers of the current window
    humanAt,    \* when the person spoke who opened it
    events,     \* the messages remembered, and when they were
    grants,     \* history: the answers allowed to each agent's message
    renewals    \* history: the people's messages that were taken as new

peerVars == <<now, sent, answered, humanAt, events, grants, renewals>>

Unsent == 0
PeerAssumption == Allowance \in Nat /\ Fresh \in Nat /\ Keep \in Nat /\ Fresh < Keep

PeerInit ==
    /\ now = 1
    /\ sent = [m \in People \cup Agents |-> Unsent]
    /\ answered = 0 /\ humanAt = 0
    /\ events = [m \in {} |-> 0]
    /\ grants = [m \in Agents |-> 0] /\ renewals = {}

Remember(m, remembered) ==
    events' = [k \in remembered \cup {m} |-> IF k = m THEN now ELSE events[k]]

(* Mutant: events are dropped as soon as a message is no longer fresh.     *)
KeptWhileFresh == {m \in DOMAIN events : now - events[m] < Fresh}

(* Old events are dropped when a person speaks.                            *)
Remembered == {m \in DOMAIN events : now - events[m] <= Keep}

(* observe: a message that is fresh and not known opens a new window, if   *)
(* it was sent after the one that opened the current one.                  *)
Observe(m) ==
    /\ sent[m] # Unsent /\ now - sent[m] <= Fresh
    /\ IF m \in Remembered
       THEN events' = [k \in Remembered |-> events[k]] /\ UNCHANGED <<answered, humanAt, renewals>>
       ELSE /\ Remember(m, Remembered)
            /\ renewals' = renewals \cup {m}
            /\ IF humanAt <= sent[m] THEN answered' = 0 /\ humanAt' = sent[m] ELSE UNCHANGED <<answered, humanAt>>
    /\ UNCHANGED <<now, sent, grants>>

(* claim: an answer to an agent, unless its message is older than what the *)
(* person said, the window is used up, or the message is known; it is used *)
(* up whatever becomes of the answer.                                      *)
Claim(m) ==
    /\ sent[m] # Unsent /\ sent[m] >= humanAt
    /\ answered < Allowance
    /\ m \notin DOMAIN events
    /\ Remember(m, DOMAIN events)
    /\ answered' = answered + 1
    /\ grants' = [grants EXCEPT ![m] = @ + 1]
    /\ UNCHANGED <<now, sent, humanAt, renewals>>

Send(m) ==
    /\ sent[m] = Unsent /\ sent' = [sent EXCEPT ![m] = now]
    /\ UNCHANGED <<now, answered, humanAt, events, grants, renewals>>

Tick == now < MaxNow /\ now' = now + 1 /\ UNCHANGED <<sent, answered, humanAt, events, grants, renewals>>

PeerNext ==
    \/ \E m \in People : Observe(m)
    \/ \E m \in Agents : Claim(m)
    \/ \E m \in People \cup Agents : Send(m)
    \/ Tick

PeerSpec == PeerInit /\ [][PeerNext]_peerVars

-----------------------------------------------------------------------------
PeerTypeOK ==
    /\ now \in 1..MaxNow /\ sent \in [People \cup Agents -> 0..MaxNow]
    /\ answered \in 0..Allowance /\ humanAt \in 0..MaxNow
    /\ DOMAIN events \subseteq People \cup Agents
    /\ renewals \subseteq People

(* Each message of a person buys one allowance, once, and each message of  *)
(* an agent gets one answer, however late and often they arrive and        *)
(* although the events are forgotten.                                      *)
Granted == {m \in Agents : grants[m] > 0}

PeersAreRationed ==
    /\ \A m \in Agents : grants[m] <= 1
    /\ Cardinality(Granted) <= Allowance * (1 + Cardinality(renewals))
    /\ humanAt > 0 => \E m \in renewals : sent[m] = humanAt
=============================================================================
