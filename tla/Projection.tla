------------------------------ MODULE Projection ------------------------------
(***************************************************************************)
(* Reading sources for a turn, with a model's help, while they change.     *)
(*                                                                         *)
(*   shinku/memory/projection/jobs.py       SingleFlight: one call at a    *)
(*                          time, shared by those who ask for the same     *)
(*   shinku/memory/projection/semantics.py  SemanticProcessor.process      *)
(*   shinku/memory/projection/engine.py     project: read, process,        *)
(*                          validate again, render                         *)
(*   shinku/memory/store.py                 forgetting, and its listeners  *)
(*                                                                         *)
(* The sources a request selects are one value with a version: forgetting  *)
(* or changing any of them makes another.  A result is the version it was  *)
(* drawn from.  The generation is only ever compared with that of a job:   *)
(* a job has `same` until the next clear.                                  *)
(***************************************************************************)
EXTENDS Naturals, FiniteSets

CONSTANTS
    Readers,      \* threads that project
    Calls,        \* job objects that may exist
    DailyCalls,   \* policy.semantic_daily_calls
    MaxSource    \* bound of the changes explored

NoCall == "none"

(* What the constants are.                                                 *)
ProjectionAssumption ==
    NoCall \notin Calls /\ DailyCalls \in Nat /\ MaxSource \in Nat \ {0}

VARIABLES
    current,      \* the version of the sources
    listening,    \* a forget has committed and its listeners are to come
    closed, pending, cache,   \* SingleFlight
    flight,       \* per job: [at, key, same, result, abandoned]
    spent,        \* calls of the day
    reader        \* per thread: where it is, what it read and holds

projectionVars ==
    <<current, listening, closed, pending, cache, flight, spent, reader>>

Versions == 1..MaxSource
Nothing == 0
Grounded == [at |-> "none", key |-> 1, same |-> FALSE, result |-> Nothing, abandoned |-> FALSE]
Away == [at |-> "idle", read |-> 1, on |-> NoCall, checkpoint |-> Nothing]

ProjectionInit ==
    /\ current = 1 /\ listening = FALSE
    /\ closed = FALSE /\ pending = NoCall
    /\ cache = [v \in Versions |-> Nothing]
    /\ flight = [c \in Calls |-> Grounded] /\ spent = 0
    /\ reader = [r \in Readers |-> Away]

ReaderAt(r, at) == reader[r].at = at
Sources == UNCHANGED <<current, listening>>

(* clear, and stop: a new generation, an empty cache.                      *)
Clear ==
    /\ cache' = [v \in Versions |-> Nothing]
    /\ flight' = [c \in Calls |-> [flight[c] EXCEPT !.same = FALSE]]

-----------------------------------------------------------------------------
(* SingleFlight.run *)

(* A value that is cached, and not past its time, is handed out.           *)
Hit(r) == cache[reader[r].read] # Nothing

TakeCached(r) ==
    /\ ReaderAt(r, "asking") /\ ~closed /\ Hit(r)
    /\ reader' = [reader EXCEPT ![r].at = "answered", ![r].checkpoint = cache[reader[r].read]]
    /\ Sources /\ UNCHANGED <<closed, pending, cache, flight, spent>>

(* Stopped, busy with another key, or out of calls: no result.             *)
GoWithout(r) ==
    /\ ReaderAt(r, "asking")
    /\ \/ closed
       \/ ~closed /\ pending # NoCall /\ flight[pending].key # reader[r].read
       \/ ~closed /\ pending = NoCall /\ spent >= DailyCalls
    /\ reader' = [reader EXCEPT ![r].at = "answered"]
    /\ Sources /\ UNCHANGED <<closed, pending, cache, flight, spent>>

Join(r) ==
    /\ ReaderAt(r, "asking") /\ ~closed
    /\ pending # NoCall /\ flight[pending].key = reader[r].read
    /\ reader' = [reader EXCEPT ![r].at = "waiting", ![r].on = pending]
    /\ Sources /\ UNCHANGED <<closed, pending, cache, flight, spent>>

Launch(r) ==
    /\ ReaderAt(r, "asking") /\ ~closed /\ pending = NoCall /\ spent < DailyCalls
    /\ spent' = spent + 1
    /\ \E c \in Calls :
          /\ flight[c].at \in {"none", "landed"} /\ \A q \in Readers : reader[q].on # c
          /\ flight' = [flight EXCEPT ![c] =
                [Grounded EXCEPT !.at = "calling", !.key = reader[r].read, !.same = TRUE]]
          /\ pending' = c
          /\ reader' = [reader EXCEPT ![r].at = "waiting", ![r].on = c]
    /\ Sources /\ UNCHANGED <<closed, cache>>

(* Mutant: a late result is kept if somebody still waits for it.           *)
WantedByWaiters(c) == ~flight[c].abandoned

(* work: what nobody gave up, and no clear came after, is kept.            *)
Wanted(c) == ~flight[c].abandoned /\ flight[c].same

Returns(c) ==
    /\ flight[c].at = "calling"
    /\ \/ /\ Wanted(c)
          /\ flight' = [flight EXCEPT ![c].at = "returned", ![c].result = flight[c].key]
          /\ cache' = [cache EXCEPT ![flight[c].key] = flight[c].key]
       \/ flight' = [flight EXCEPT ![c].at = "returned"] /\ UNCHANGED cache
    /\ Sources /\ UNCHANGED <<closed, pending, spent, reader>>

(* The slot is freed, then the event set.                                  *)
Land(c) ==
    /\ flight[c].at = "returned"
    /\ pending' = IF pending = c THEN NoCall ELSE pending
    /\ flight' = [flight EXCEPT ![c].at = "landed"]
    /\ Sources /\ UNCHANGED <<closed, cache, spent, reader>>

(* The wait ends, with the event or without; the result is taken under the *)
(* lock, where whoever waited in vain abandons the call for all.           *)
Wake(r) ==
    LET c == reader[r].on
        stale == ~flight[c].same \/ flight[c].abandoned IN
    /\ ReaderAt(r, "waiting")
    /\ \/ /\ flight[c].at = "landed"
          /\ reader' = [reader EXCEPT ![r].at = "answered", ![r].on = NoCall,
                                      ![r].checkpoint = IF stale THEN Nothing ELSE flight[c].result]
          /\ UNCHANGED <<cache, flight>>
       \/ /\ flight' = [flight EXCEPT ![c].abandoned = TRUE]
          /\ cache' = [cache EXCEPT ![reader[r].read] = Nothing]
          /\ reader' = [reader EXCEPT ![r].at = "answered", ![r].on = NoCall]
    /\ Sources /\ UNCHANGED <<closed, pending, spent>>

Expires(v) ==
    /\ cache[v] # Nothing /\ cache' = [cache EXCEPT ![v] = Nothing]
    /\ Sources /\ UNCHANGED <<closed, pending, flight, spent, reader>>

-----------------------------------------------------------------------------
(* ProjectionEngine.project *)

(* The sources are read; the model is asked only when it is needed.        *)
ReadSources(r) ==
    /\ ReaderAt(r, "idle")
    /\ \E at \in {"asking", "answered"} :
          reader' = [reader EXCEPT ![r] = [Away EXCEPT !.at = at, !.read = current]]
    /\ Sources /\ UNCHANGED <<closed, pending, cache, flight, spent>>

(* A source that is not as it was read takes the model's answer with it.   *)
KeptAnswer(r) == IF reader[r].read = current THEN reader[r].checkpoint ELSE Nothing

(* Every source is read again, whatever the model did or a cache answered; *)
(* what changed is left out of the view and the cache thrown away.  If     *)
(* they cannot be read, the view shows none of them.                       *)
Validate(r) ==
    /\ ReaderAt(r, "answered")
    /\ \/ /\ reader' = [reader EXCEPT ![r].at = "idle", ![r].checkpoint = KeptAnswer(r)]
          /\ IF reader[r].read # current THEN Clear ELSE UNCHANGED <<cache, flight>>
       \/ /\ reader' = [reader EXCEPT ![r].at = "idle", ![r].checkpoint = Nothing]
          /\ UNCHANGED <<cache, flight>>
    /\ Sources /\ UNCHANGED <<closed, pending, spent>>

-----------------------------------------------------------------------------
(* Around it *)

(* A source is forgotten; the listeners hear of it after the commit.       *)
SourceForgotten ==
    /\ ~listening /\ current < MaxSource
    /\ current' = current + 1 /\ listening' = TRUE
    /\ UNCHANGED <<closed, pending, cache, flight, spent, reader>>

Invalidate ==
    /\ listening /\ listening' = FALSE
    /\ Clear
    /\ UNCHANGED <<current, closed, pending, spent, reader>>

(* stop                                                                    *)
Stop ==
    /\ ~closed /\ closed' = TRUE
    /\ Clear
    /\ Sources /\ UNCHANGED <<pending, spent, reader>>

NextDay ==
    /\ spent > 0 /\ spent' = 0
    /\ Sources /\ UNCHANGED <<closed, pending, cache, flight, reader>>

ProjectionNext ==
    \/ \E r \in Readers : 
          \/ ReadSources(r) \/ TakeCached(r) \/ GoWithout(r) \/ Join(r) \/ Launch(r)
          \/ Wake(r) \/ Validate(r)
    \/ \E c \in Calls : Returns(c) \/ Land(c)
    \/ \E v \in Versions : Expires(v)
    \/ SourceForgotten \/ Invalidate \/ Stop \/ NextDay

ProjectionSpec == ProjectionInit /\ [][ProjectionNext]_projectionVars

-----------------------------------------------------------------------------
(* Properties *)

ProjectionTypeOK ==
    /\ current \in Versions /\ listening \in BOOLEAN
    /\ closed \in BOOLEAN /\ pending \in Calls \cup {NoCall}
    /\ cache \in [Versions -> {Nothing} \cup Versions]
    /\ flight \in [Calls -> [at : {"none", "calling", "returned", "landed"}, key : Versions,
                             same : BOOLEAN, result : {Nothing} \cup Versions, abandoned : BOOLEAN]]
    /\ spent \in 0..DailyCalls
    /\ reader \in [Readers -> [at : {"idle", "asking", "waiting", "answered"}, read : Versions,
                               on : Calls \cup {NoCall}, checkpoint : {Nothing} \cup Versions]]

(* engine.py: exact versions keep late replies from resurrecting changed   *)
(* sources.  However calls, clears, timeouts and other readers interleave, *)
(* a view shows only what the sources hold as it is validated, one call of *)
(* the model is out at a time, and once a forget has been announced no     *)
(* call that was out before it puts its result into the cache.             *)
NothingIsResurrected ==
    [][/\ \A r \in Readers : ReaderAt(r, "answered") /\ reader'[r].at = "idle" =>
             reader'[r].checkpoint \in {Nothing, current}
       /\ Cardinality({c \in Calls : flight'[c].at = "calling"}) <= 1
       /\ \A v \in Versions : cache[v] = Nothing /\ cache'[v] # Nothing =>
             /\ ~closed
             /\ \E c \in Calls : flight[c].at = "calling" /\ flight[c].same]_projectionVars
=============================================================================
