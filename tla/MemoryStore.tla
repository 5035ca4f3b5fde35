----------------------------- MODULE MemoryStore -----------------------------
(***************************************************************************)
(* What the memory store derives from a memory, and what becomes of it     *)
(* when the memory is forgotten, corrected away or condensed: the rows of  *)
(* memory_events and memory_lifecycle, the persistent vectors, the query's *)
(* vector cache and the daily summary (shinku/memory/store_records.py,     *)
(* store_maintenance.py, store_embedding_index.py, store_semantic_query.py *)
(* and lifecycle.py).  A method is one transaction under the store's lock, *)
(* and so one action, except where the code lets go of the lock to compute *)
(* something: the indexer and a query encode texts, the rollup composes    *)
(* its summary, and forget clears the derived caches in a second section.  *)
(*                                                                         *)
(* One scope.  A text is a number: 0 the empty text, 1 what was said, 2    *)
(* its extract.  No two events say the same.  Ages, strengths and the      *)
(* fitness of an extract are inputs.  Left out: facts, pins, task cards,   *)
(* the day's boundary, scores and the search for keywords.                 *)
(***************************************************************************)
EXTENDS Naturals, FiniteSets

CONSTANTS
    Messages,    \* messages of one finished day
    Day,         \* its summary
    Queries      \* concurrent calls of semantic_candidates

(* What the constants are.                                                 *)
MemoryAssumption == Day \notin Messages

Records == Messages \cup {Day}

VARIABLES
    events,      \* memory_events
    life,        \* memory_lifecycle
    vec,         \* memory_embeddings: the text each vector was made from
    queryCache,  \* _l1_semantic_cache
    revoked,     \* memory_revocations: the sources
    forgetter,   \* "idle", or "clearing" between the two sections of forget
    indexer,     \* backfill_embeddings: the rows read, to be written
    rollup,      \* rollup_daily_summaries: the rows read
    query        \* the local state and the answer of each query

memoryVars ==
    <<events, life, vec, queryCache, revoked, forgetter, indexer, rollup, query>>

Gone   == [status |-> "absent", text |-> 0, parents |-> {}]
NoLife == [row |-> FALSE, tier |-> 1, brief |-> FALSE, reclaimed |-> FALSE]
Still  == [at |-> "idle", saw |-> {}]
Unasked == [at |-> "idle", saw |-> {}, missing |-> {}, answer |-> {}]

MemoryInit ==
    /\ events = [r \in Records |-> Gone]
    /\ life = [e \in Messages |-> NoLife]
    /\ vec = [r \in Records |-> 0]
    /\ queryCache = {} /\ revoked = {}
    /\ forgetter = "idle" /\ indexer = Still /\ rollup = Still
    /\ query = [q \in Queries |-> Unasked]

-----------------------------------------------------------------------------
(* What is in the table.                                                   *)

Active == {r \in Records : events[r].status = "active"}

(* A row read earlier is still what the table says: status and text.       *)
(* Mutant: that it is still there is enough.                               *)
StandsSomehow(p) == events[p[1]].status # "absent"

Stands(p) == events[p[1]].status = "active" /\ events[p[1]].text = p[2]

Seen(some) == {<<r, events[r].text>> : r \in some}

Untouched == UNCHANGED <<forgetter, indexer, rollup, query>>

(* record_event of a message: a source once known is never stored again,   *)
(* and a revoked one not even after its row was purged.                    *)
RecordEvent(e) ==
    /\ e \notin revoked /\ events[e] = Gone
    /\ events' = [events EXCEPT ![e] = [Gone EXCEPT !.status = "active", !.text = 1]]
    /\ life' = [life EXCEPT ![e] = [NoLife EXCEPT !.row = TRUE]]
    /\ UNCHANGED <<vec, queryCache, revoked>> /\ Untouched

-----------------------------------------------------------------------------
(* forget and reset_all.                                                   *)

(* What is forgotten with the records that matched.                        *)
Linked(matched) ==
    matched \cup {r \in Records : events[r].parents \cap matched # {} /\ events[r] # Gone}

(* Only active and expired rows match.                                     *)
Forget(matched, purge) ==
    LET lost == Linked(matched)
    IN  /\ forgetter = "idle"
        /\ matched # {} /\ \A r \in matched : events[r].status \in {"active", "expired"}
        /\ revoked' = revoked \cup lost
        /\ events' = [r \in Records |-> IF r \notin lost THEN events[r]
                                      ELSE IF purge THEN Gone
                                      ELSE [events[r] EXCEPT !.status = "forgotten"]]
        /\ life' = [e \in Messages |-> IF e \in lost THEN NoLife ELSE life[e]]
        /\ vec' = [r \in Records |-> IF r \in lost THEN 0 ELSE vec[r]]
        /\ queryCache' = {p \in queryCache : p[1] \notin lost}
        /\ forgetter' = "clearing"
        /\ UNCHANGED <<indexer, rollup, query>>

ResetAll ==
    /\ forgetter = "idle"
    /\ revoked' = revoked \cup {r \in Records : events[r] # Gone}
    /\ events' = [r \in Records |-> Gone]
    /\ life' = [e \in Messages |-> NoLife]
    /\ vec' = [r \in Records |-> 0]
    /\ queryCache' = {}
    /\ forgetter' = "clearing"
    /\ UNCHANGED <<indexer, rollup, query>>

ClearDerivedCaches ==
    /\ forgetter = "clearing"
    /\ queryCache' = {}
    /\ forgetter' = "idle"
    /\ UNCHANGED <<events, life, vec, revoked, indexer, rollup, query>>

-----------------------------------------------------------------------------
(* The lifecycle: reinforce, and scan with leave to reclaim.               *)

(* _reinforce of the record as a turn saw it; `tier` is what it has earned.*)
Reinforce(e, text, tier) ==
    /\ Stands(<<e, text>>) /\ tier >= life[e].tier
    /\ life' = [life EXCEPT ![e] = [@ EXCEPT !.row = TRUE, !.tier = tier, !.brief = FALSE]]
    /\ UNCHANGED <<events, vec, queryCache, revoked>> /\ Untouched

Demote(e) ==
    /\ life[e].tier = 2
    /\ life' = [life EXCEPT ![e].tier = 1]
    /\ UNCHANGED <<events, vec>>

Summarize(e) ==
    /\ life[e].tier = 1 /\ ~life[e].reclaimed /\ ~life[e].brief
    /\ life' = [life EXCEPT ![e].brief = TRUE]
    /\ UNCHANGED <<events, vec>>

(* The original gives way to its extract, one transaction with the vector. *)
ReclaimRaw(e) ==
    /\ life[e].tier = 1 /\ ~life[e].reclaimed /\ life[e].brief
    /\ events' = [events EXCEPT ![e].text = 2]
    /\ life' = [life EXCEPT ![e] = [@ EXCEPT !.brief = FALSE, !.reclaimed = TRUE]]
    /\ vec' = [vec EXCEPT ![e] = 0]

(* Both ways an original may end: short and cold, or condensed and cold.   *)
Expire(e) ==
    /\ life[e].tier = 1 /\ ~life[e].brief
    /\ events' = [events EXCEPT ![e] = [@ EXCEPT !.text = 0, !.status = "expired"]]
    /\ life' = [life EXCEPT ![e].reclaimed = TRUE]
    /\ vec' = [vec EXCEPT ![e] = 0]

(* scan comes to at most one of these for a row that has grown cold.       *)
Scan(e) ==
    /\ events[e].status = "active" /\ life[e].row
    /\ Demote(e) \/ Summarize(e) \/ ReclaimRaw(e) \/ Expire(e)
    /\ UNCHANGED <<queryCache, revoked>> /\ Untouched

-----------------------------------------------------------------------------
(* backfill_embeddings: read, encode without the lock, write what stands.  *)

IndexRead ==
    /\ indexer.at = "idle"
    /\ indexer' = [at |-> "encoding", saw |-> Seen({r \in Active : vec[r] # events[r].text})]
    /\ indexer'.saw # {}
    /\ UNCHANGED <<events, life, vec, queryCache, revoked, forgetter, rollup, query>>

(* Mutant: what was encoded is kept.                                       *)
WritableRead(saw) == saw

Writable(saw) == {p \in saw : Stands(p)}

IndexWrite ==
    /\ indexer.at = "encoding"
    /\ vec' = [r \in Records |->
           LET texts == {p[2] : p \in {w \in Writable(indexer.saw) : w[1] = r}}
           IN  IF texts = {} THEN vec[r] ELSE CHOOSE t \in texts : TRUE]
    /\ indexer' = Still
    /\ UNCHANGED <<events, life, queryCache, revoked, forgetter, rollup, query>>

-----------------------------------------------------------------------------
(* rollup_daily_summaries: read the day, compose, record the summary if    *)
(* every message it was composed from stands.                              *)

RollupRead ==
    /\ rollup.at = "idle"
    /\ rollup' = [at |-> "composing", saw |-> Seen(Active \cap Messages)]
    /\ rollup'.saw # {}
    /\ UNCHANGED <<events, life, vec, queryCache, revoked, forgetter, indexer, query>>

RollupWrite ==
    /\ rollup.at = "composing"
    /\ rollup' = Still
    /\ events' = IF Day \notin revoked /\ events[Day] = Gone /\ \A p \in rollup.saw : Stands(p)
               THEN [events EXCEPT ![Day] = [status |-> "active", text |-> 1,
                                           parents |-> {p[1] : p \in rollup.saw}]]
               ELSE events
    /\ UNCHANGED <<life, vec, queryCache, revoked, forgetter, indexer, query>>

-----------------------------------------------------------------------------
(* semantic_candidates: the messages without a vector are encoded for the  *)
(* query alone and kept in a small cache.                                  *)

Query(q, step) ==
    /\ query' = [query EXCEPT ![q] = step]
    /\ UNCHANGED <<events, life, vec, revoked, forgetter, indexer, rollup>>

(* read_semantic_sources                                                   *)
QueryRead(q) ==
    /\ query[q].at = "idle"
    /\ Query(q, [Unasked EXCEPT !.at = "read",
                                !.saw = Seen({e \in Active \cap Messages :
                                    life[e].tier = 1 /\ vec[e] # events[e].text})])
    /\ query'[q].saw # {}
    /\ UNCHANGED queryCache

(* fill_l1_query_cache: what has to be encoded, and what is kept of it.    *)
QueryMissing(q) ==
    /\ query[q].at = "read"
    /\ Query(q, [query[q] EXCEPT !.at = "encoding", !.missing = query[q].saw \ queryCache])
    /\ UNCHANGED queryCache

QueryFill(q) ==
    /\ query[q].at = "encoding"
    /\ queryCache' = queryCache \cup Writable(query[q].missing)
    /\ Query(q, [query[q] EXCEPT !.at = "scoring", !.missing = {}])

(* score_l1_vectors: whatever the query saw and the cache still knows.     *)
QueryScore(q) ==
    /\ query[q].at = "scoring"
    /\ Query(q, [query[q] EXCEPT !.at = "idle", !.saw = {}, !.answer = query[q].saw \cap queryCache])
    /\ UNCHANGED queryCache

Ask(q) == QueryRead(q) \/ QueryMissing(q) \/ QueryFill(q) \/ QueryScore(q)

MemoryNext ==
    \/ \E e \in Messages : \/ RecordEvent(e) \/ Scan(e)
                         \/ \E text \in {1, 2}, tier \in {2, 3} : Reinforce(e, text, tier)
    \/ \E matched \in SUBSET Records, purge \in BOOLEAN : Forget(matched, purge)
    \/ ResetAll \/ ClearDerivedCaches
    \/ IndexRead \/ IndexWrite \/ RollupRead \/ RollupWrite
    \/ \E q \in Queries : Ask(q)

MemorySpec == MemoryInit /\ [][MemoryNext]_memoryVars

-----------------------------------------------------------------------------
Texts(some) == SUBSET (some \X (1..2))

MemoryTypeOK ==
    /\ events \in [Records -> [status : {"absent", "active", "expired", "forgotten"},
                               text : 0..2, parents : SUBSET Messages]]
    /\ life \in [Messages -> [row : BOOLEAN, tier : 1..3, brief : BOOLEAN, reclaimed : BOOLEAN]]
    /\ vec \in [Records -> 0..2]
    /\ queryCache \in Texts(Messages)
    /\ revoked \subseteq Records
    /\ forgetter \in {"idle", "clearing"}
    /\ indexer \in [at : {"idle", "encoding"}, saw : Texts(Records)]
    /\ rollup \in [at : {"idle", "composing"}, saw : Texts(Messages)]
    /\ query \in [Queries -> [at : {"idle", "read", "encoding", "scoring"}, saw : Texts(Messages),
                              missing : Texts(Messages), answer : Texts(Messages)]]

(* Whatever the indexer, the rollup and the queries had read before, what  *)
(* is derived follows its source: of a forgotten memory neither a vector   *)
(* nor a lifecycle row nor a cached vector remains or comes back, no       *)
(* summary in use was composed from one, and a vector speaks of the text   *)
(* that is there (forget, record_event, write_backfill_vectors, scan).     *)
DerivedFollowsSource ==
    /\ \A e \in revoked \cap Messages :
           vec[e] = 0 /\ ~life[e].row /\ \A p \in queryCache : p[1] # e
    /\ \A r \in Records : vec[r] # 0 => events[r].text = vec[r]
    /\ events[Day].status = "active" => events[Day].parents \cap revoked = {}

(* An answer never quotes what was forgotten by the time it was scored,    *)
(* although the query read it, and may have cached it, before (forget and  *)
(* fill_l1_query_cache).                                                   *)
NothingForgottenIsRecalled ==
    [][\A q \in Queries : query'[q].answer # query[q].answer
           => \A p \in query'[q].answer : p[1] \notin revoked]_memoryVars
=============================================================================
