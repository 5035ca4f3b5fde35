------------------------- MODULE TurnDispatchProofs -------------------------
(***************************************************************************)
(* Theorems about TurnDispatch, for every set of messages, conversations   *)
(* and profiles, every pool and every limit.                               *)
(*                                                                         *)
(* A step either leaves the queues alone, lets a turn join one, or moves a *)
(* drain (TurnsCases); where a step takes each message is established      *)
(* action by action (the ...Places lemmas).  The parts of the invariant    *)
(* DispatchInv follow from these two.                                      *)
(***************************************************************************)
EXTENDS TurnDispatch, SequenceTheorems, FiniteSetTheorems, WellFoundedInduction, TLAPS

(* Among natural numbers there is a least one, and a greatest one if they  *)
(* are bounded.                                                            *)
LEMMA LeastNat ==
  ASSUME NEW T, T \subseteq Nat, T # {}
  PROVE  \E x \in T : \A y \in T : x <= y
<1> DEFINE R == OpToRel(<, Nat)
<1>1. IsWellFoundedOn(R, Nat)
  BY NatLessThanWellFounded
<1> HIDE DEF R
<1>2. PICK x \in T : \A y \in T : ~(<<y, x>> \in R)
  BY <1>1, WFMin
<1>3. \A y \in T : ~(y < x)
  BY <1>2 DEF R, OpToRel
<1> QED BY <1>3

(* A bounded, inhabited set of naturals has its Max.                       *)
LEMMA MaxNat ==
  ASSUME NEW S, NEW n \in Nat, \A x \in S : x \in Nat /\ x <= n, S # {}
  PROVE  Max(S) \in S /\ \A x \in S : x <= Max(S)
<1> DEFINE T == {k \in Nat : \A x \in S : x <= k}
<1>1. PICK k \in T : \A y \in T : k <= y
  <2>1. n \in T /\ T \subseteq Nat
    OBVIOUS
  <2> HIDE DEF T
  <2> QED BY <2>1, LeastNat
<1>2. k \in S
  <2>1. SUFFICES ASSUME k \notin S PROVE FALSE
    OBVIOUS
  <2>2. \A x \in S : x < k
    BY <2>1
  <2>3. k - 1 \in T
    BY <2>2
  <2> QED BY <1>1, <2>3
<1>3. \A x \in S : k >= x /\ x <= k
  BY <1>2
<1>4. \E x \in S : \A y \in S : x >= y
  BY <1>2, <1>3
<1> HIDE DEF T
<1>5. Max(S) \in S /\ \A y \in S : Max(S) >= y
  BY <1>4 DEF Max
<1> QED BY <1>5

-----------------------------------------------------------------------------
(* The queue of a conversation *)

AmbientLast(q) == \A i \in DOMAIN q : Ambient(q[i]) => i = Len(q)
Replaced(q, t) == IF Ambient(t) THEN {i \in DOMAIN q : Ambient(q[i])} ELSE {}
Joined(q, t) == Queued(Without(q, Replaced(q, t)), t)

(* Without drops a suffix as a list comprehension does: the rest keeps its *)
(* order.                                                                  *)
LEMMA WithoutFacts ==
  ASSUME NEW S, NEW q \in Seq(S), NEW n \in Nat, NEW gone, DOMAIN q \ gone = 1..n
  PROVE  Without(q, gone) = [k \in 1..n |-> q[k]] /\ Without(q, gone) \in Seq(S)
<1> DEFINE left == DOMAIN q \ gone
<1>1. left = 1..n /\ Cardinality(left) = n
  <2>1. Cardinality(1..n) = n
    BY FS_Interval
  <2> QED BY <2>1
<1> HIDE DEF left
<1>2. ASSUME NEW k \in 1..n
      PROVE  (CHOOSE i \in left : Cardinality({j \in left : j <= i}) = k) = k
  <2>1. \A i \in left : Cardinality({j \in left : j <= i}) = i
    <3> TAKE i \in left
    <3>1. {j \in left : j <= i} = 1..i
      BY <1>1
    <3>2. Cardinality(1..i) = i
      BY <1>1, FS_Interval
    <3> QED BY <3>1, <3>2
  <2> QED BY <1>1, <2>1
<1>3. Without(q, gone) = [k \in 1..Cardinality(left) |->
          q[CHOOSE i \in left : Cardinality({j \in left : j <= i}) = k]]
  BY DEF Without, left
<1>4. Without(q, gone) = [k \in 1..n |-> q[k]]
  BY <1>1, <1>2, <1>3
<1>5. \A k \in 1..n : q[k] \in S
  BY <1>1, ElementOfSeq, LenProperties DEF left
<1> QED BY <1>4, <1>5

(* In a queue whose only ambient turn is its last, a new candidate         *)
(* replaces that one or none.                                              *)
LEMMA ReplacedFacts ==
  ASSUME NEW q \in Seq(Turns), NEW t, AmbientLast(q)
  PROVE  \/ /\ Replaced(q, t) = {} /\ DOMAIN q \ Replaced(q, t) = 1..Len(q)
            /\ Cardinality(Replaced(q, t)) = 0
         \/ /\ Ambient(t) /\ Replaced(q, t) = {Len(q)} /\ Len(q) > 0
            /\ DOMAIN q \ Replaced(q, t) = 1..(Len(q) - 1)
            /\ Cardinality(Replaced(q, t)) = 1
<1>1. DOMAIN q = 1..Len(q) /\ Len(q) \in Nat
  BY LenProperties
<1>2. Replaced(q, t) \subseteq {Len(q)} /\ Replaced(q, t) \subseteq DOMAIN q
  BY DEF Replaced, AmbientLast
<1>3. CASE Replaced(q, t) = {}
  BY <1>1, <1>3, FS_EmptySet
<1>4. CASE Replaced(q, t) = {Len(q)}
  <2>1. Ambient(t) /\ Len(q) \in DOMAIN q
    BY <1>2, <1>4 DEF Replaced
  <2>2. Cardinality(Replaced(q, t)) = 1
    BY <1>4, FS_Singleton
  <2>3. (1..Len(q)) \ {Len(q)} = 1..(Len(q) - 1) /\ Len(q) > 0
    BY <1>1, <2>1
  <2> QED BY <1>1, <1>4, <2>1, <2>2, <2>3
<1> QED BY <1>2, <1>3, <1>4

(* Where what stands in the queue r stood in the queue q: t is the         *)
(* newcomer, the others keep their order.                                  *)
Came(q, t, gone, r, at, from) ==
    /\ at \in DOMAIN r /\ r[at] = t
    /\ from \in [DOMAIN r -> Nat]
    /\ \A i \in DOMAIN r : i # at => from[i] \in DOMAIN q \ gone /\ r[i] = q[from[i]]
    /\ \A i, j \in DOMAIN r : i # at /\ j # at /\ from[i] = from[j] => i = j
    /\ \A j \in DOMAIN q \ gone : \E i \in DOMAIN r : i # at /\ from[i] = j

(* A turn that queues up last stands behind what was left of the queue.    *)
LEMMA LastFacts ==
  ASSUME NEW q \in Seq(Turns), NEW t \in Turns, NEW n \in Nat, n <= Len(q),
         NEW gone, DOMAIN q \ gone = 1..n, NEW r, r = Append([k \in 1..n |-> q[k]], t)
  PROVE  /\ r \in Seq(Turns) /\ Len(r) = n + 1
         /\ \A i \in DOMAIN r : i # n + 1 => r[i] = q[i]
         /\ r[n + 1] = t
         /\ \E at, from : Came(q, t, gone, r, at, from)
<1> DEFINE s == [k \in 1..n |-> q[k]]
<1>1. s \in Seq(Turns) /\ Len(s) = n
  <2>1. \A k \in 1..n : q[k] \in Turns
    BY ElementOfSeq, LenProperties
  <2>2. s \in Seq(Turns)
    BY <2>1
  <2> QED BY <2>2, LenProperties
<1>2. /\ Append(s, t) \in Seq(Turns) /\ Len(Append(s, t)) = n + 1
      /\ \A i \in 1..n : Append(s, t)[i] = s[i]
      /\ Append(s, t)[n + 1] = t
  BY <1>1, AppendProperties
<1>3. /\ r \in Seq(Turns) /\ Len(r) = n + 1 /\ DOMAIN r = 1..(n + 1)
      /\ \A i \in 1..n : r[i] = q[i]
      /\ r[n + 1] = t
  BY <1>2, LenProperties
<1> DEFINE f == [i \in DOMAIN r |-> i]
<1>4. Came(q, t, gone, r, n + 1, f)
  BY <1>3 DEF Came
<1> HIDE DEF f
<1>5. \E at, from : Came(q, t, gone, r, at, from)
  BY <1>4
<1>6. \A i \in DOMAIN r : i # n + 1 => r[i] = q[i]
  BY <1>3
<1> QED BY <1>3, <1>5, <1>6

(* A turn that joins a queue leaves its ambient turn last, and everything  *)
(* but what it replaces in place.                                          *)
LEMMA JoinedFacts ==
  ASSUME NEW q \in Seq(Turns), NEW t \in Turns, AmbientLast(q)
  PROVE  /\ Joined(q, t) \in Seq(Turns)
         /\ Len(Joined(q, t)) = Len(q) - Cardinality(Replaced(q, t)) + 1
         /\ AmbientLast(Joined(q, t))
         /\ \E at, from : Came(q, t, Replaced(q, t), Joined(q, t), at, from)
<1> DEFINE gone == Replaced(q, t)
           r == Joined(q, t)
           n == Len(q) - Cardinality(gone)
           s == [k \in 1..n |-> q[k]]
<1>1. DOMAIN q = 1..Len(q) /\ Len(q) \in Nat
  BY LenProperties
<1>2. n \in Nat /\ n <= Len(q) /\ DOMAIN q \ gone = 1..n
  BY <1>1, ReplacedFacts
<1>3. Without(q, gone) = s /\ s \in Seq(Turns) /\ Len(s) = n /\ DOMAIN s = 1..n
  <2> HIDE DEF gone, n
  <2>1. Without(q, gone) = s /\ Without(q, gone) \in Seq(Turns)
    BY <1>2, WithoutFacts
  <2> QED BY <1>2, <2>1, LenProperties
<1>4. r = Queued(s, t)
  BY <1>3 DEF Joined
<1>5. \A i \in 1..n : ~Ambient(q[i]) \/ (~Ambient(t) /\ i = Len(q))
  BY <1>1, <1>2, ReplacedFacts DEF AmbientLast, Replaced
<1> DEFINE ambient == {i \in DOMAIN s : Ambient(s[i])}
<1>6. CASE Ambient(t) \/ ambient = {}
  <2>1. r = Append(s, t)
    BY <1>4, <1>6 DEF Queued
  <2> HIDE DEF gone, n, r
  <2>2. /\ r \in Seq(Turns) /\ Len(r) = n + 1
        /\ \A i \in DOMAIN r : i # n + 1 => r[i] = q[i]
        /\ \E at, from : Came(q, t, gone, r, at, from)
    <3>1. r = Append([k \in 1..n |-> q[k]], t)
      BY <2>1
    <3> HIDE DEF s
    <3>2. /\ r \in Seq(Turns) /\ Len(r) = n + 1 /\ r[n + 1] = t
          /\ \A i \in DOMAIN r : i # n + 1 => r[i] = q[i]
      BY <1>2, <3>1, LastFacts
    <3>3. \E at, from : Came(q, t, gone, r, at, from)
      BY <1>2, <3>1, LastFacts
    <3> QED BY <3>2, <3>3
  <2>3. \A i \in 1..n : ~Ambient(q[i])
    BY <1>3, <1>5, <1>6
  <2>4. AmbientLast(r)
    BY <1>2, <2>2, <2>3, LenProperties DEF AmbientLast
  <2> QED BY <2>2, <2>4 DEF n, r, gone
<1>7. CASE ~Ambient(t) /\ ambient # {}
  <2>1. ambient = {Len(q)} /\ n = Len(q) /\ n > 0 /\ gone = {} /\ Ambient(q[n])
    <3>1. gone = {}
      BY <1>7 DEF Replaced
    <3>2. \A j \in 1..n : s[j] = q[j]
      OBVIOUS
    <3> HIDE DEF gone, n, s
    <3>3. PICK i \in 1..n : Ambient(s[i])
      BY <1>3, <1>7
    <3>4. i = Len(q) /\ n = Len(q) /\ Ambient(q[i])
      <4>1. Ambient(q[i]) /\ i \in DOMAIN q
        BY <1>1, <1>2, <3>2, <3>3
      <4>2. i = Len(q)
        BY <4>1 DEF AmbientLast
      <4>3. n = Len(q)
        <5>1. n \in Nat /\ n <= Len(q) /\ i \in Nat /\ i <= n
          BY <1>2
        <5> QED BY <4>2, <5>1
      <4> QED BY <4>1, <4>2, <4>3
    <3>5. \A j \in 1..n : Ambient(s[j]) => j = Len(q)
      BY <1>1, <3>2, <3>4 DEF AmbientLast
    <3>6. ambient = {Len(q)}
      BY <1>3, <3>3, <3>4, <3>5
    <3> QED BY <1>1, <3>1, <3>4, <3>6
  <2>2. Min(ambient) = n
    <3>1. Min({n}) = n
      BY <1>2 DEF Min
    <3> QED BY <2>1, <3>1
  <2>3. s = q
    BY <1>1, <2>1, SeqEqual
  <2>4. r = SubSeq(q, 1, n - 1) \o <<t>> \o SubSeq(q, n, Len(q))
    BY <1>4, <1>7, <2>2, <2>3 DEF Queued, InsertAt
  <2> HIDE DEF gone, n, r, s, ambient
  <2>5. /\ r \in Seq(Turns) /\ Len(r) = n + 1
        /\ \A i \in 1..(n - 1) : r[i] = q[i]
        /\ r[n] = t /\ r[n + 1] = q[n]
    <3> DEFINE u == SubSeq(q, 1, n - 1)
               v == SubSeq(q, n, n)
    <3>1. u \in Seq(Turns) /\ Len(u) = n - 1 /\ \A i \in 1..(n - 1) : u[i] = q[i]
      BY <1>1, <1>2, <2>1, SubSeqProperties
    <3>2. v \in Seq(Turns) /\ Len(v) = 1 /\ v[1] = q[n]
      BY <1>1, <1>2, <2>1, SubSeqProperties
    <3>3. r = (u \o <<t>>) \o v
      BY <2>1, <2>4
    <3> HIDE DEF u, v
    <3>4. /\ u \o <<t>> \in Seq(Turns) /\ Len(u \o <<t>>) = n
          /\ \A i \in 1..(n - 1) : (u \o <<t>>)[i] = q[i]
          /\ (u \o <<t>>)[n] = t
      <4>1. <<t>> \in Seq(Turns) /\ Len(<<t>>) = 1 /\ <<t>>[1] = t
        OBVIOUS
      <4> DEFINE z == <<t>>
      <4> HIDE DEF z
      <4>2. z \in Seq(Turns) /\ Len(z) = 1 /\ z[1] = t
        BY <4>1 DEF z
      <4>3. /\ u \o z \in Seq(Turns) /\ Len(u \o z) = Len(u) + Len(z)
            /\ \A i \in 1..(Len(u) + Len(z)) :
                  (u \o z)[i] = IF i <= Len(u) THEN u[i] ELSE z[i - Len(u)]
        BY <3>1, <4>2, ConcatProperties
      <4>4. Len(u \o z) = n
        BY <1>2, <3>1, <4>2, <4>3
      <4>5. \A i \in 1..(n - 1) : (u \o z)[i] = q[i]
        BY <1>2, <3>1, <4>2, <4>3
      <4>6. (u \o z)[n] = t
        <5>1. n \in 1..(Len(u) + Len(z)) /\ ~(n <= Len(u)) /\ n - Len(u) = 1
          BY <1>2, <2>1, <3>1, <4>2
        <5> QED BY <4>2, <4>3, <5>1
      <4> QED BY <4>3, <4>4, <4>5, <4>6 DEF z
    <3> DEFINE w == u \o <<t>>
    <3> HIDE DEF w
    <3>5. w \in Seq(Turns) /\ Len(w) = n /\ (\A i \in 1..(n - 1) : w[i] = q[i]) /\ w[n] = t
      BY <3>4 DEF w
    <3>6. r = w \o v
      BY <3>3 DEF w
    <3>7. /\ r \in Seq(Turns) /\ Len(r) = n + 1
          /\ \A i \in 1..(n + 1) : r[i] = IF i <= n THEN w[i] ELSE v[i - n]
      <4>1. /\ w \o v \in Seq(Turns) /\ Len(w \o v) = Len(w) + Len(v)
            /\ \A i \in 1..(Len(w) + Len(v)) :
                  (w \o v)[i] = IF i <= Len(w) THEN w[i] ELSE v[i - Len(w)]
        BY <3>2, <3>5, ConcatProperties
      <4> QED BY <1>2, <3>2, <3>5, <3>6, <4>1
    <3>8. \A i \in 1..n : r[i] = w[i]
      BY <1>2, <3>7
    <3>9. r[n + 1] = v[1]
      BY <1>2, <3>7
    <3> QED BY <1>2, <2>1, <3>2, <3>5, <3>7, <3>8, <3>9
  <2>6. DOMAIN r = 1..(n + 1)
    BY <2>5, LenProperties
  <2>7. AmbientLast(r)
    BY <1>1, <1>2, <1>7, <2>1, <2>5, <2>6 DEF AmbientLast
  <2> DEFINE f == [i \in DOMAIN r |-> IF i < n THEN i ELSE n]
  <2>8. Came(q, t, gone, r, n, f)
    BY <1>1, <1>2, <2>1, <2>5, <2>6 DEF Came
  <2> QED BY <2>5, <2>7, <2>8 DEF n, r, gone
<1> QED BY <1>6, <1>7

-----------------------------------------------------------------------------
(* The invariant *)

Busy(c) == drain[c] = "busy"

(* Messages that wait or have waited for a turn.                           *)
Scheduled == {m \in Messages : profile[m] # None /\ IsScheduled(m)}

(* A webhook thread has a batch to dispatch only between its two critical  *)
(* sections.                                                               *)
ThreadsOK ==
    \A m \in Messages : /\ thread[m] = "new" <=> profile[m] = None
                        /\ thread[m] # "ingested" => closed[m] = <<>>

ArrivedOK == \A i \in DOMAIN arrived : thread[arrived[i]] = "submitted"

BatchArmed ==
    batch # <<>> => timer \/ fired > 0 \/ \E m \in ToSet(batch) : thread[m] = "ingested"

(* The executor, the queues and the workers tell the same story.           *)
DrainsOK ==
    /\ \A i, j \in DOMAIN jobs : jobs[i] = jobs[j] => i = j
    /\ \A c \in Conversations :
          /\ c \in running <=> drain[c] # "none"
          /\ queues[c] # <<>> => drain[c] # "none"
          /\ drain[c] = "waiting" <=> c \in ToSet(jobs)
          /\ c \in ended => drain[c] = "none"
          /\ ~Busy(c) => work[c] = Idle

(* A queued turn is called ambient when nobody in it called.               *)
ModesOK == \A c \in Conversations : \A i \in DOMAIN queues[c] :
               queues[c][i].mode = Mode(queues[c][i].ids)

(* Every scheduled message is in one place, the others nowhere, and no two *)
(* turns of a queue share one.                                             *)
OnePlace == \A m \in Messages :
               IF m \in Scheduled THEN \E p : Places(m) = {p} ELSE Places(m) = {}

TurnsApart == \A c \in Conversations : \A i, j \in DOMAIN queues[c] :
                 i # j => ToSet(queues[c][i].ids) \cap ToSet(queues[c][j].ids) = {}

RefusedOK == \A m \in refused : IsExplicit(m) => stage = "shut"

(* While an ambient turn is handled, every call in the queue came later.   *)
RevisionsOK ==
    \A c \in Conversations :
        /\ \A i \in DOMAIN queues[c] : queues[c][i].rev <= revisions[c].last
        /\ Busy(c) => work[c].turn.rev <= revisions[c].last
        /\ Busy(c) /\ Ambient(work[c].turn) =>
              \A i \in DOMAIN queues[c] :
                  Explicit(queues[c][i]) => revisions[c].explicit > work[c].turn.rev

(* What has been reviewed was shown.                                       *)
ShownOK ==
    \A c \in Conversations :
        work[c].at \in {"publish", "send"} =>
            /\ work[c].reviewed <= work[c].turn.origin \/ work[c].reviewed <= Len(arrived)
            /\ work[c].shown \subseteq Newer(c, arrived, work[c].turn.origin)
            /\ \A i \in Newer(c, arrived, work[c].turn.origin) :
                  i <= work[c].reviewed => i \in work[c].shown

-----------------------------------------------------------------------------
(* A batch is dispatched *)

(* An idle worker has a turn of nothing.                                   *)
LEMMA NothingTyped == NoTurn \in Turns /\ Idle \in
    [turn : Turns, at : Steps, shown : SUBSET Nat, reviewed : Nat]
BY DEF NoTurn, Turns, Idle, Steps

(* _build_turn_locked makes a turn of the conversation, one revision ahead *)
(* of the last.                                                            *)
LEMMA TurnTyped ==
  ASSUME TurnsTypeOK, NEW b \in Seq(Messages), b # <<>>, ToSet(b) \subseteq Scheduled,
         NEW arr \in Seq(Messages)
  PROVE  /\ Conv(Head(b)) \in Conversations
         /\ Turn(b, arr) \in Turns
         /\ Turn(b, arr).ids = b
         /\ Turn(b, arr).mode = Mode(b)
         /\ Turn(b, arr).rev = revisions[Conv(Head(b))].last + 1
<1> DEFINE c == Conv(Head(b))
<1>1. Head(b) \in ToSet(b) /\ Head(b) \in Messages
  BY LenProperties DEF ToSet
<1>2. c \in Conversations
  BY <1>1, TurnsAssumption DEF Scheduled, TurnsTypeOK, Conv, MessageProfiles
<1>3. Origin(b, arr) \in Nat
  <2> DEFINE own == {i \in DOMAIN arr : arr[i] \in ToSet(b)}
  <2>1. Len(arr) \in Nat /\ \A x \in own : x \in Nat /\ x <= Len(arr)
    BY LenProperties
  <2>2. Origin(b, arr) = IF own = {} THEN Len(arr) ELSE Max(own)
    BY DEF Origin
  <2> HIDE DEF own
  <2> QED BY <2>1, <2>2, MaxNat
<1>4. revisions[c].last + 1 \in Nat /\ visuals \cap ToSet(b) \subseteq Messages
  BY <1>2 DEF TurnsTypeOK
<1>5. Mode(b) \in {"immediate", "autonomous"}
  BY DEF Mode
<1> QED BY <1>2, <1>3, <1>4, <1>5 DEF Turn, Turns

(* What _dispatch_locked may come to: nothing to do, refused as ambient,   *)
(* accepted, or refused by an executor that has been shut down.            *)
Turned(b, t, c) == t.ids = b /\ t.mode = Mode(b) /\ t.rev = revisions[c].last + 1

(* The outcomes of _dispatch_locked.                                       *)
LEMMA DispatchCases ==
  ASSUME TurnsTypeOK, NEW b \in Seq(Messages), ToSet(b) \subseteq Scheduled,
         NEW arr \in Seq(Messages), Dispatch(b, arr)
  PROVE  \/ UNCHANGED turns /\ b = <<>>
         \/ /\ b # <<>> /\ Mode(b) = "autonomous"
            /\ refused' = refused \cup ToSet(b)
            /\ UNCHANGED <<queues, pending, revisions, running, jobs, drain, ended>>
         \/ /\ b # <<>>
            /\ \E c \in Conversations, t \in Turns : Turned(b, t, c) /\ Accept(c, t)
         \/ /\ b # <<>> /\ stage = "shut"
            /\ \E c \in Conversations, t \in Turns :
                  c \notin running /\ Turned(b, t, c) /\ Reject(c, t)
<1>1. CASE b = <<>>
  BY <1>1 DEF Dispatch
<1>2. CASE b # <<>>
  <2> DEFINE c == Conv(Head(b))
             t == Turn(b, arr)
  <2>1. c \in Conversations /\ t \in Turns /\ Turned(b, t, c)
    BY <1>2, TurnTyped DEF Turned
  <2>2. \/ /\ Full(c, t)
           /\ refused' = refused \cup ToSet(b)
           /\ UNCHANGED <<queues, pending, revisions, running, jobs, drain, ended>>
        \/ Accept(c, t)
        \/ stage = "shut" /\ c \notin running /\ Reject(c, t)
    BY <1>2 DEF Dispatch
  <2>3. Full(c, t) => Mode(b) = "autonomous"
    BY <2>1 DEF Full, Ambient, Turned
  <2> HIDE DEF c, t
  <2> QED BY <1>2, <2>1, <2>2, <2>3
<1> QED BY <1>1, <1>2

(* The accepted turn joins its queue.                                      *)
LEMMA AcceptQueue ==
  ASSUME TurnsTypeOK, AmbientWaits, NEW c \in Conversations, NEW t \in Turns, Accept(c, t)
  PROVE  /\ AmbientLast(queues[c]) /\ queues[c] \in Seq(Turns)
         /\ Obsolete(c, t) = Replaced(queues[c], t)
         /\ queues'[c] = Joined(queues[c], t)
         /\ \A d \in Conversations : d # c => queues'[d] = queues[d]
         /\ queues' \in [Conversations -> Seq(Turns)]
         /\ Len(queues'[c]) = Len(queues[c]) - Cardinality(Obsolete(c, t)) + 1
         /\ \E at, from : Came(queues[c], t, Obsolete(c, t), queues'[c], at, from)
<1>1. queues[c] \in Seq(Turns) /\ AmbientLast(queues[c])
  BY DEF TurnsTypeOK, AmbientWaits, AmbientLast
<1>2. Obsolete(c, t) = Replaced(queues[c], t)
  BY DEF Obsolete, Replaced
<1>3. queues' = [queues EXCEPT ![c] = Joined(queues[c], t)]
  BY <1>2 DEF Accept, Joined
<1>4. queues'[c] = Joined(queues[c], t) /\ \A d \in Conversations : d # c => queues'[d] = queues[d]
  BY <1>3 DEF TurnsTypeOK
<1>5. Joined(queues[c], t) \in Seq(Turns)
  BY <1>1, JoinedFacts
<1>6. queues' \in [Conversations -> Seq(Turns)]
  BY <1>3, <1>5 DEF TurnsTypeOK
<1>7. Len(queues'[c]) = Len(queues[c]) - Cardinality(Obsolete(c, t)) + 1
  BY <1>1, <1>2, <1>4, JoinedFacts
<1>8. \E at, from : Came(queues[c], t, Obsolete(c, t), queues'[c], at, from)
  BY <1>1, <1>2, <1>4, JoinedFacts
<1> QED BY <1>1, <1>2, <1>4, <1>6, <1>7, <1>8

-----------------------------------------------------------------------------
(* The places of a message *)

(* The places outside the queues: the inbox, the workers and the end.      *)
Held(m) ==
    (IF m \in ToSet(batch) THEN {<<"batch">>} ELSE {})
    \cup {<<"closed", o>> : o \in {o \in Messages : m \in ToSet(closed[o])}}
    \cup {<<"work", c>> : c \in {c \in Conversations : m \in ToSet(work[c].turn.ids)}}
    \cup (IF m \in handled THEN {<<"handled">>} ELSE {})

Lined(m) ==
    {<<"queued", c>> : c \in {c \in Conversations : m \in Members(queues[c])}}
    \cup (IF m \in refused THEN {<<"refused">>} ELSE {})

(* No place is both held and lined up.                                     *)
LEMMA PlacesSplit ==
  ASSUME NEW m
  PROVE  Places(m) = Held(m) \cup Lined(m) /\ Held(m) \cap Lined(m) = {}
<1>1. Places(m) = Held(m) \cup Lined(m)
  BY DEF Places, Held, Lined
<1>2. \A p \in Held(m) : p[1] \in {"batch", "closed", "work", "handled"}
  BY DEF Held
<1>3. \A p \in Lined(m) : p[1] \in {"queued", "refused"}
  BY DEF Lined
<1> QED BY <1>1, <1>2, <1>3

(* What it says of a message to be held at a place.                        *)
LEMMA HeldFacts ==
  ASSUME NEW m
  PROVE  /\ <<"batch">> \in Held(m) <=> m \in ToSet(batch)
         /\ \A o \in Messages : <<"closed", o>> \in Held(m) <=> m \in ToSet(closed[o])
         /\ \A c \in Conversations : <<"work", c>> \in Held(m) <=> m \in ToSet(work[c].turn.ids)
         /\ <<"handled">> \in Held(m) <=> m \in handled
<1> DEFINE C == {<<"closed", o>> : o \in {o \in Messages : m \in ToSet(closed[o])}}
           W == {<<"work", c>> : c \in {c \in Conversations : m \in ToSet(work[c].turn.ids)}}
<1>1. \A p \in C : p[1] = "closed"
  OBVIOUS
<1>2. \A p \in W : p[1] = "work"
  OBVIOUS
<1>3. \A o \in Messages : <<"closed", o>> \in C <=> m \in ToSet(closed[o])
  OBVIOUS
<1>4. \A c \in Conversations : <<"work", c>> \in W <=> m \in ToSet(work[c].turn.ids)
  OBVIOUS
<1>5. /\ <<"batch">>[1] = "batch" /\ <<"handled">>[1] = "handled"
      /\ \A o : <<"closed", o>>[1] = "closed" /\ <<"work", o>>[1] = "work"
  OBVIOUS
<1>6. Held(m) = (IF m \in ToSet(batch) THEN {<<"batch">>} ELSE {}) \cup C \cup W
                    \cup (IF m \in handled THEN {<<"handled">>} ELSE {})
  BY DEF Held
<1> HIDE DEF C, W
<1>7. <<"batch">> \in Held(m) <=> m \in ToSet(batch)
  BY <1>1, <1>2, <1>5, <1>6
<1>8. <<"handled">> \in Held(m) <=> m \in handled
  BY <1>1, <1>2, <1>5, <1>6
<1>9. ASSUME NEW o \in Messages
      PROVE  <<"closed", o>> \in Held(m) <=> m \in ToSet(closed[o])
  BY <1>2, <1>3, <1>5, <1>6
<1>10. ASSUME NEW c \in Conversations
       PROVE  <<"work", c>> \in Held(m) <=> m \in ToSet(work[c].turn.ids)
  BY <1>1, <1>4, <1>5, <1>6
<1> QED BY <1>7, <1>8, <1>9, <1>10

(* What it says of a message to be queued, or refused.                     *)
LEMMA LinedFacts ==
  ASSUME NEW m
  PROVE  /\ \A c \in Conversations : <<"queued", c>> \in Lined(m) <=> m \in Members(queues[c])
         /\ <<"refused">> \in Lined(m) <=> m \in refused
<1> DEFINE Q == {<<"queued", c>> : c \in {c \in Conversations : m \in Members(queues[c])}}
<1>1. \A p \in Q : p[1] = "queued"
  OBVIOUS
<1>2. \A c \in Conversations : <<"queued", c>> \in Q <=> m \in Members(queues[c])
  OBVIOUS
<1>3. <<"refused">>[1] = "refused" /\ \A c : <<"queued", c>>[1] = "queued"
  OBVIOUS
<1>4. Lined(m) = Q \cup (IF m \in refused THEN {<<"refused">>} ELSE {})
  BY DEF Lined
<1> HIDE DEF Q
<1> QED BY <1>1, <1>2, <1>3, <1>4

(* A batch that is held somewhere is of scheduled messages, none of which  *)
(* is in a queue or refused.                                               *)
LEMMA HeldApart ==
  ASSUME OnePlace, NEW m \in Messages, NEW p \in Held(m)
  PROVE  m \in Scheduled /\ Held(m) = {p} /\ Lined(m) = {}
<1>1. p \in Places(m) /\ Places(m) = Held(m) \cup Lined(m) /\ Held(m) \cap Lined(m) = {}
  BY PlacesSplit
<1>2. m \in Scheduled
  BY <1>1 DEF OnePlace
<1>3. PICK q : Places(m) = {q}
  BY <1>2 DEF OnePlace
<1> QED BY <1>1, <1>2, <1>3

(* A message that is queued or refused is nowhere else.                    *)
LEMMA LinedApart ==
  ASSUME OnePlace, NEW m \in Messages, NEW p \in Lined(m)
  PROVE  m \in Scheduled /\ Lined(m) = {p} /\ Held(m) = {}
<1>1. p \in Places(m) /\ Places(m) = Held(m) \cup Lined(m) /\ Held(m) \cap Lined(m) = {}
  BY PlacesSplit
<1>2. m \in Scheduled
  BY <1>1 DEF OnePlace
<1>3. PICK q : Places(m) = {q}
  BY <1>2 DEF OnePlace
<1> QED BY <1>1, <1>2, <1>3

-----------------------------------------------------------------------------
(* What a step does behind the dispatcher's lock *)

Loose(b) == /\ b \in Seq(Messages) /\ ToSet(b) \subseteq Scheduled
            /\ \A m \in ToSet(b) : Lined(m) = {}

(* The open batch, and one a webhook thread carries, are of messages no    *)
(* turn has.                                                               *)
LEMMA BatchLoose ==
  ASSUME TurnsTypeOK, OnePlace
  PROVE  Loose(batch) /\ \A o \in Messages : Loose(closed[o])
<1>1. batch \in Seq(Messages) /\ \A o \in Messages : closed[o] \in Seq(Messages)
  BY DEF TurnsTypeOK
<1>2. ToSet(batch) \subseteq Messages /\ \A o \in Messages : ToSet(closed[o]) \subseteq Messages
  BY <1>1, ElementOfSeq, LenProperties DEF ToSet
<1>3. \A m \in ToSet(batch) : m \in Scheduled /\ Lined(m) = {}
  BY <1>2, HeldFacts, HeldApart
<1>4. \A o \in Messages : \A m \in ToSet(closed[o]) : m \in Scheduled /\ Lined(m) = {}
  BY <1>2, HeldFacts, HeldApart
<1> QED BY <1>1, <1>3, <1>4 DEF Loose

WorkItem == [turn : Turns, at : Steps, shown : SUBSET Nat, reviewed : Nat]

(* The handler goes on with its turn.                                      *)
Answers(c) ==
    /\ Busy(c) /\ UNCHANGED <<inbox, visuals, turns, stage, handled>>
    /\ \E w \in WorkItem : w.turn = work[c].turn /\ work' = [work EXCEPT ![c] = w]

(* The remembered arrivals are sequence numbers, the newest of them is     *)
(* their Max.                                                              *)
LEMMA WindowFacts ==
  ASSUME TurnsTypeOK, NEW c
  PROVE  /\ Window(c) \subseteq Nat
         /\ Window(c) # {} => /\ Max(Window(c)) \in Window(c)
                              /\ \A i \in Window(c) : i <= Max(Window(c))
         /\ \A i \in Window(c) : i <= Len(arrived)
<1>1. Len(arrived) \in Nat /\ DOMAIN arrived = 1..Len(arrived)
  BY LenProperties DEF TurnsTypeOK
<1>2. \A i \in Window(c) : i \in Nat /\ i <= Len(arrived)
  BY <1>1 DEF Window, Sequences
<1> QED BY <1>1, <1>2, MaxNat

(* Whatever the handler of an ambient turn does, it stays with its turn    *)
(* and touches nothing else.                                               *)
LEMMA AnswerStep ==
  ASSUME TurnsTypeOK, NEW c \in Conversations, Answer(c)
  PROVE  Answers(c)
<1>1. work[c] \in WorkItem /\ Busy(c)
  BY DEF TurnsTypeOK, WorkItem, Answer, Decide, Draft, Clarify, Read, Acknowledge, Publish, Send, At, Busy
<1>2. UNCHANGED <<inbox, visuals, turns, stage, handled>>
  BY DEF Answer, Decide, Draft, Clarify, Read, Acknowledge, Publish, Send, Rest
<1>3. ASSUME NEW x \in WorkItem, NEW at \in Steps
      PROVE  [x EXCEPT !.at = at] \in WorkItem /\ [x EXCEPT !.at = at].turn = x.turn
  BY DEF WorkItem
<1>4. \A at \in Steps : Goto(c, at) => \E w \in WorkItem : w.turn = work[c].turn
                                              /\ work' = [work EXCEPT ![c] = w]
  BY <1>1, <1>3 DEF Goto, TurnsTypeOK
<1>5. {"draft", "ask", "read", "review", "publish", "send"} \subseteq Steps
  BY DEF Steps
<1>6. Later(c) \subseteq Nat
  BY WindowFacts DEF Later
<1>7. CASE Read(c)
  <2>1. work' = [work EXCEPT ![c] = [work[c] EXCEPT !.at = "review", !.shown = Later(c)]]
    BY <1>7 DEF Read, TurnsTypeOK
  <2> DEFINE w == [work[c] EXCEPT !.at = "review", !.shown = Later(c)]
  <2>2. w \in WorkItem /\ w.turn = work[c].turn
    <3> DEFINE x == work[c]
               shown == Later(c)
    <3>1. x \in WorkItem /\ shown \in SUBSET Nat /\ "review" \in Steps
      BY <1>1, <1>5, <1>6
    <3>2. w = [x EXCEPT !.at = "review", !.shown = shown]
      OBVIOUS
    <3> HIDE DEF x, shown, w
    <3>3. w \in WorkItem /\ w.turn = x.turn
      BY <3>1, <3>2 DEF WorkItem
    <3> QED BY <3>3 DEF x
  <2> HIDE DEF w
  <2>3. work' = [work EXCEPT ![c] = w]
    BY <2>1 DEF w
  <2> QED BY <1>1, <1>2, <2>2, <2>3 DEF Answers
<1>8. CASE Acknowledge(c)
  <2> DEFINE r == IF Window(c) = {} THEN work[c].turn.origin ELSE Max(Window(c))
  <2>1. r \in Nat
    BY <1>1, WindowFacts DEF WorkItem, Turns
  <2>2. work' = [work EXCEPT ![c] = [work[c] EXCEPT !.at = "publish", !.reviewed = r]]
    BY <1>8 DEF Acknowledge, TurnsTypeOK
  <2> DEFINE w == [work[c] EXCEPT !.at = "publish", !.reviewed = r]
  <2> HIDE DEF r
  <2>3. w \in WorkItem /\ w.turn = work[c].turn
    <3> DEFINE x == work[c]
    <3>1. x \in WorkItem /\ "publish" \in Steps
      BY <1>1, <1>5
    <3>2. w = [x EXCEPT !.at = "publish", !.reviewed = r]
      OBVIOUS
    <3> HIDE DEF x, w
    <3>3. w \in WorkItem /\ w.turn = x.turn
      BY <2>1, <3>1, <3>2 DEF WorkItem
    <3> QED BY <3>3 DEF x
  <2>4. work' = [work EXCEPT ![c] = w]
    BY <2>2 DEF w
  <2> HIDE DEF w
  <2> QED BY <1>1, <1>2, <2>3, <2>4 DEF Answers
<1> QED BY <1>1, <1>2, <1>4, <1>5, <1>7, <1>8 DEF Answer, Decide, Draft, Clarify, Publish, Send, Answers

(* What any step means to the dispatcher: nothing, a batch, a free thread, *)
(* a drain or an answer.                                                   *)
LEMMA TurnsStep ==
  ASSUME TurnsTypeOK, OnePlace, [Next]_vars
  PROVE  \/ UNCHANGED <<turns, work>>
         \/ \E b \in Seq(Messages), arr \in Seq(Messages) :
               Loose(b) /\ Dispatch(b, arr) /\ UNCHANGED work
         \/ Serve
         \/ \E c \in Conversations : Drain(c) \/ Answers(c)
<1>1. arrived \in Seq(Messages) /\ batch \in Seq(Messages)
  BY DEF TurnsTypeOK
<1>2. ASSUME NEW m \in Messages, Submit(m)
      PROVE  \E b \in Seq(Messages), arr \in Seq(Messages) :
               Loose(b) /\ Dispatch(b, arr) /\ UNCHANGED work
  <2>1. Append(arrived, m) \in Seq(Messages) /\ closed[m] \in Seq(Messages)
    BY <1>1, AppendProperties DEF TurnsTypeOK
  <2> QED BY <1>2, <2>1, BatchLoose DEF Submit, ClosedBy
<1>3. ASSUME FlushBatch
      PROVE  \E b \in Seq(Messages), arr \in Seq(Messages) :
               Loose(b) /\ Dispatch(b, arr) /\ UNCHANGED work
  BY <1>1, <1>3, BatchLoose DEF FlushBatch
<1>4. ASSUME NEW m \in Messages, NEW p \in Profiles, NEW late \in BOOLEAN, Ingest(m, p, late)
      PROVE  UNCHANGED <<turns, work>>
  BY <1>4 DEF Ingest
<1>5. Fire \/ CloseShutdown \/ UNCHANGED vars => UNCHANGED <<turns, work>>
  BY DEF Fire, CloseShutdown, vars
<1> QED BY <1>2, <1>3, <1>4, <1>5, AnswerStep DEF Next, Webhook, Flush, CloseFlush

(* The same, seen from the queues: nothing but the handler moves, a turn   *)
(* is accepted or taken back, or a drain moves.                            *)
Admits(c, t, b) == Loose(b) /\ b # <<>> /\ Turned(b, t, c) /\ Accept(c, t)

(* The same steps as the queues of the conversations see them.             *)
LEMMA TurnsCases ==
  ASSUME TurnsTypeOK, OnePlace, [Next]_vars
  PROVE  \/ /\ UNCHANGED <<queues, pending, revisions, running, jobs, drain, ended>>
            /\ UNCHANGED work \/ \E c \in Conversations : Answers(c)
         \/ UNCHANGED work /\ \E c \in Conversations, t \in Turns, b \in Seq(Messages) :
               Admits(c, t, b)
         \/ UNCHANGED work /\ \E c \in Conversations, t \in Turns :
               c \notin running /\ Reject(c, t)
         \/ Serve
         \/ \E c \in Conversations : Drain(c)
<1>1. ASSUME NEW b \in Seq(Messages), NEW arr \in Seq(Messages), Loose(b), Dispatch(b, arr),
             UNCHANGED work
      PROVE  \/ UNCHANGED <<queues, pending, revisions, running, jobs, drain, ended, work>>
             \/ UNCHANGED work /\ \E c \in Conversations, t \in Turns, d \in Seq(Messages) :
                   Admits(c, t, d)
             \/ UNCHANGED work /\ \E c \in Conversations, t \in Turns :
                   c \notin running /\ Reject(c, t)
  BY <1>1, DispatchCases DEF Loose, turns, Admits
<1>2. \A c \in Conversations : Answers(c) =>
          UNCHANGED <<queues, pending, revisions, running, jobs, drain, ended>>
  BY DEF Answers, turns
<1> QED BY <1>1, <1>2, TurnsStep DEF turns

(* What stands where after Append.                                         *)
LEMMA AppendFacts ==
  ASSUME NEW S, NEW s \in Seq(S), NEW x \in S
  PROVE  /\ Append(s, x) \in Seq(S) /\ Append(s, x) # <<>>
         /\ DOMAIN Append(s, x) = 1..(Len(s) + 1) /\ Len(Append(s, x)) = Len(s) + 1
         /\ \A i \in DOMAIN s : Append(s, x)[i] = s[i]
         /\ Append(s, x)[Len(s) + 1] = x
         /\ ToSet(Append(s, x)) = ToSet(s) \cup {x}
<1>1. /\ Append(s, x) \in Seq(S) /\ Len(Append(s, x)) = Len(s) + 1
      /\ \A i \in 1..Len(s) : Append(s, x)[i] = s[i]
      /\ Append(s, x)[Len(s) + 1] = x
  BY AppendProperties
<1>2. DOMAIN s = 1..Len(s) /\ Len(s) \in Nat /\ DOMAIN Append(s, x) = 1..(Len(s) + 1)
  BY <1>1, LenProperties
<1>3. Append(s, x) # <<>>
  BY <1>1, <1>2, EmptySeq
<1> DEFINE r == Append(s, x)
<1> HIDE DEF r
<1>4. ToSet(r) = ToSet(s) \cup {x}
  <2>1. DOMAIN r = 1..(Len(s) + 1) /\ (\A i \in 1..Len(s) : r[i] = s[i]) /\ r[Len(s) + 1] = x
    BY <1>1, <1>2 DEF r
  <2>2. ToSet(r) \subseteq ToSet(s) \cup {x}
    BY <1>2, <2>1 DEF ToSet
  <2>3. ToSet(s) \subseteq ToSet(r)
    BY <1>2, <2>1 DEF ToSet
  <2>4. x \in ToSet(r)
    <3>1. Len(s) + 1 \in DOMAIN r
      BY <1>2, <2>1
    <3> QED BY <2>1, <3>1 DEF ToSet
  <2> QED BY <2>2, <2>3, <2>4
<1> QED BY <1>1, <1>2, <1>3, <1>4 DEF r

(* What stands where after Head has been taken.                            *)
LEMMA TailFacts ==
  ASSUME NEW S, NEW s \in Seq(S), s # <<>>
  PROVE  /\ Head(s) = s[1] /\ Head(s) \in S /\ 1 \in DOMAIN s
         /\ Tail(s) \in Seq(S) /\ Len(Tail(s)) = Len(s) - 1 /\ Len(s) \in Nat \ {0}
         /\ \A i \in DOMAIN Tail(s) : i + 1 \in DOMAIN s /\ Tail(s)[i] = s[i + 1]
         /\ \A i \in DOMAIN s : i # 1 => i - 1 \in DOMAIN Tail(s)
<1>1. Len(s) \in Nat /\ DOMAIN s = 1..Len(s)
  BY LenProperties
<1>2. Len(s) # 0
  BY EmptySeq
<1>3. /\ Tail(s) \in Seq(S) /\ Len(Tail(s)) = Len(s) - 1 /\ Head(s) \in S
      /\ \A i \in 1..(Len(s) - 1) : Tail(s)[i] = s[i + 1]
  BY HeadTailProperties
<1>4. DOMAIN Tail(s) = 1..(Len(s) - 1)
  BY <1>3, LenProperties
<1>5. Head(s) = s[1]
  OBVIOUS
<1>6. Len(s) \in Nat \ {0} /\ 1 \in DOMAIN s
  BY <1>1, <1>2
<1>7. \A i \in DOMAIN Tail(s) : i + 1 \in DOMAIN s /\ Tail(s)[i] = s[i + 1]
  BY <1>1, <1>3, <1>4
<1>8. \A i \in DOMAIN s : i # 1 => i - 1 \in DOMAIN Tail(s)
  BY <1>1, <1>4
<1> QED BY <1>3, <1>5, <1>6, <1>7, <1>8

-----------------------------------------------------------------------------
(* The counts *)

(* _pending_turn_counts follows the queue and the worker through every     *)
(* step.                                                                   *)
LEMMA CountsStep ==
  ASSUME TurnsTypeOK, OnePlace, AmbientWaits, DrainsOK, CountsAreExact, [Next]_vars
  PROVE  CountsAreExact' /\ pending' \in [Conversations -> Nat]
<1>1. /\ pending \in [Conversations -> Nat] /\ queues \in [Conversations -> Seq(Turns)]
      /\ drain \in [Conversations -> {"none", "waiting", "loop", "busy"}]
  BY DEF TurnsTypeOK
<1>2. \A c \in Conversations : Len(queues[c]) \in Nat
  BY <1>1, LenProperties
<1>3. CASE UNCHANGED <<queues, pending, drain>>
  BY <1>1, <1>3 DEF CountsAreExact
<1>4. ASSUME NEW c \in Conversations, NEW t \in Turns, Accept(c, t)
      PROVE  CountsAreExact' /\ pending' \in [Conversations -> Nat]
  <2>1. /\ Len(queues'[c]) = Len(queues[c]) - Cardinality(Obsolete(c, t)) + 1
        /\ \A d \in Conversations : d # c => queues'[d] = queues[d]
        /\ queues' \in [Conversations -> Seq(Turns)]
    BY <1>4, AcceptQueue
  <2>2. Len(queues'[c]) \in Nat
    BY <2>1, LenProperties
  <2>3. Cardinality(Obsolete(c, t)) \in {0, 1} /\ Cardinality(Obsolete(c, t)) <= Len(queues[c])
    BY <1>2, <1>4, AcceptQueue, ReplacedFacts
  <2>4. /\ pending'[c] = pending[c] - Cardinality(Obsolete(c, t)) + 1
        /\ \A d \in Conversations : d # c => pending'[d] = pending[d]
        /\ DOMAIN pending' = Conversations
        /\ pending' = [pending EXCEPT ![c] = Counted(c, t)]
    BY <1>1, <1>4 DEF Accept, Counted
  <2>5. \A d \in Conversations : drain'[d] = "busy" <=> drain[d] = "busy"
    BY <1>1, <1>4 DEF Accept, DrainsOK
  <2>6. pending[c] = Len(queues[c]) + (IF drain[c] = "busy" THEN 1 ELSE 0)
    BY DEF CountsAreExact
  <2>7. Counted(c, t) \in Nat
    BY <1>1, <1>2, <2>3, <2>6 DEF Counted
  <2>8. pending' \in [Conversations -> Nat]
    BY <1>1, <2>4, <2>7
  <2>9. pending'[c] = Len(queues'[c]) + (IF drain'[c] = "busy" THEN 1 ELSE 0)
    BY <1>1, <1>2, <2>1, <2>3, <2>4, <2>5, <2>6
  <2>10. ASSUME NEW d \in Conversations, d # c
         PROVE  pending'[d] = Len(queues'[d]) + (IF drain'[d] = "busy" THEN 1 ELSE 0)
    BY <2>1, <2>4, <2>5, <2>10 DEF CountsAreExact
  <2> QED BY <2>8, <2>9, <2>10 DEF CountsAreExact
<1>5. CASE Serve
  <2>1. Head(jobs) \in Conversations /\ Head(jobs) \in ToSet(jobs)
    BY <1>5, TailFacts DEF Serve, TurnsTypeOK, ToSet
  <2>2. drain[Head(jobs)] = "waiting"
    BY <2>1 DEF DrainsOK
  <2>3. \A d \in Conversations : drain'[d] = "busy" <=> drain[d] = "busy"
    BY <1>1, <1>5, <2>1, <2>2 DEF Serve
  <2> QED BY <1>1, <1>5, <2>3 DEF Serve, CountsAreExact
<1>6. ASSUME NEW c \in Conversations, Take(c)
      PROVE  CountsAreExact' /\ pending' \in [Conversations -> Nat]
  <2>1. Len(Tail(queues[c])) = Len(queues[c]) - 1
    BY <1>1, <1>6, TailFacts DEF Take
  <2>2. /\ queues' = [queues EXCEPT ![c] = Tail(queues[c])]
        /\ drain' = [drain EXCEPT ![c] = "busy"] /\ drain[c] = "loop" /\ pending' = pending
    BY <1>6 DEF Take
  <2>3. pending[c] = Len(queues[c])
    <3>1. pending[c] = Len(queues[c]) + 0
      BY <2>2 DEF CountsAreExact
    <3> QED BY <1>2, <3>1
  <2>4. pending'[c] = Len(queues'[c]) + 1 /\ drain'[c] = "busy"
    <3>1. queues'[c] = Tail(queues[c]) /\ drain'[c] = "busy" /\ pending'[c] = pending[c]
      BY <1>1, <2>2
    <3>2. Len(queues[c]) \in Nat
      BY <1>2
    <3> QED BY <2>1, <2>3, <3>1, <3>2
  <2>5. \A d \in Conversations : d # c =>
            queues'[d] = queues[d] /\ drain'[d] = drain[d] /\ pending'[d] = pending[d]
    BY <1>1, <2>2
  <2>6. \A d \in Conversations :
            pending'[d] = Len(queues'[d]) + (IF drain'[d] = "busy" THEN 1 ELSE 0)
    BY <2>4, <2>5 DEF CountsAreExact
  <2> QED BY <1>1, <2>2, <2>6 DEF CountsAreExact
<1>7. ASSUME NEW c \in Conversations, Leave(c)
      PROVE  CountsAreExact' /\ pending' \in [Conversations -> Nat]
  BY <1>1, <1>7 DEF Leave, Leaves, CountsAreExact
<1>8. ASSUME NEW c \in Conversations, Finish(c)
      PROVE  CountsAreExact' /\ pending' \in [Conversations -> Nat]
  <2>1. /\ pending' = [pending EXCEPT ![c] = pending[c] - 1] /\ drain[c] = "busy"
        /\ drain' = [drain EXCEPT ![c] = "loop"] /\ queues' = queues
    BY <1>8 DEF Finish
  <2>2. pending[c] = Len(queues[c]) + 1
    BY <2>1 DEF CountsAreExact
  <2>3. pending[c] - 1 \in Nat
    BY <1>2, <2>2
  <2> QED BY <1>1, <1>2, <2>1, <2>2, <2>3 DEF CountsAreExact
<1>9. CASE \E c \in Conversations : Forget(c)
  BY <1>3, <1>9 DEF Forget
<1>10. CASE \E c \in Conversations, t \in Turns : Reject(c, t)
  BY <1>3, <1>10 DEF Reject
<1> QED BY <1>3, <1>4, <1>5, <1>6, <1>7, <1>8, <1>9, <1>10, TurnsCases DEF Drain, Admits

-----------------------------------------------------------------------------
(* The drains *)

(* A conversation is running exactly while a drain of it is in the         *)
(* executor, and at most one is.                                           *)
LEMMA DrainsStep ==
  ASSUME TurnsTypeOK, OnePlace, AmbientWaits, DrainsOK, [Next]_vars
  PROVE  DrainsOK' /\ jobs' \in Seq(Conversations)
<1>1. /\ jobs \in Seq(Conversations) /\ queues \in [Conversations -> Seq(Turns)]
      /\ drain \in [Conversations -> {"none", "waiting", "loop", "busy"}]
      /\ work \in [Conversations -> WorkItem]
      /\ running \subseteq Conversations /\ ended \subseteq Conversations
  BY DEF TurnsTypeOK, WorkItem
<1>2. CASE UNCHANGED <<queues, running, jobs, drain, ended, work>>
  BY <1>1, <1>2 DEF DrainsOK, Busy
<1>3. ASSUME NEW c \in Conversations, Answers(c)
      PROVE  DrainsOK' /\ jobs' \in Seq(Conversations)
  BY <1>1, <1>3 DEF DrainsOK, Busy, Answers, turns
<1>4. ASSUME NEW c \in Conversations, NEW t \in Turns, Accept(c, t), UNCHANGED work
      PROVE  DrainsOK' /\ jobs' \in Seq(Conversations)
  <2>1. \A d \in Conversations : d # c => queues'[d] = queues[d]
    BY <1>4, AcceptQueue
  <2>2. CASE c \in running
    BY <1>1, <1>4, <2>1, <2>2 DEF Accept, DrainsOK, Busy
  <2>3. CASE c \notin running
    <3>1. /\ running' = running \cup {c} /\ jobs' = Append(jobs, c)
          /\ drain' = [drain EXCEPT ![c] = "waiting"] /\ ended' = ended \ {c}
      BY <1>4, <2>3 DEF Accept
    <3>2. drain[c] = "none" /\ c \notin ToSet(jobs) /\ ~Busy(c)
      BY <2>3 DEF DrainsOK, Busy
    <3>3. /\ jobs' \in Seq(Conversations) /\ ToSet(jobs') = ToSet(jobs) \cup {c}
          /\ DOMAIN jobs' = 1..(Len(jobs) + 1) /\ jobs'[Len(jobs) + 1] = c
          /\ \A i \in DOMAIN jobs : jobs'[i] = jobs[i]
      BY <1>1, <3>1, AppendFacts
    <3>4. Len(jobs) \in Nat /\ DOMAIN jobs = 1..Len(jobs)
      BY <1>1, LenProperties
    <3>5. \A i \in DOMAIN jobs : jobs[i] # c
      BY <3>2 DEF ToSet
    <3>6. \A i, j \in DOMAIN jobs : jobs[i] = jobs[j] => i = j
      BY DEF DrainsOK
    <3>7. \A i \in DOMAIN jobs' : i \in DOMAIN jobs \/ i = Len(jobs) + 1
      BY <3>3, <3>4
    <3>8. \A i, j \in DOMAIN jobs' : jobs'[i] = jobs'[j] => i = j
      BY <3>3, <3>5, <3>6, <3>7
    <3>9. ASSUME NEW d \in Conversations
          PROVE  /\ d \in running' <=> drain'[d] # "none"
                 /\ queues'[d] # <<>> => drain'[d] # "none"
                 /\ drain'[d] = "waiting" <=> d \in ToSet(jobs')
                 /\ d \in ended' => drain'[d] = "none"
                 /\ drain'[d] # "busy" => work'[d] = Idle
      BY <1>1, <1>4, <2>1, <3>1, <3>2, <3>3 DEF DrainsOK, Busy
    <3> QED BY <3>3, <3>8, <3>9 DEF DrainsOK, Busy
  <2> QED BY <2>2, <2>3
<1>5. CASE Serve
  <2> DEFINE c == Head(jobs)
  <2>1. /\ c \in Conversations /\ c = jobs[1] /\ 1 \in DOMAIN jobs
        /\ Tail(jobs) \in Seq(Conversations)
        /\ \A i \in DOMAIN Tail(jobs) : i + 1 \in DOMAIN jobs /\ Tail(jobs)[i] = jobs[i + 1]
        /\ \A i \in DOMAIN jobs : i # 1 => i - 1 \in DOMAIN Tail(jobs)
    BY <1>1, <1>5, TailFacts DEF Serve
  <2>2. /\ jobs' = Tail(jobs) /\ drain' = [drain EXCEPT ![c] = "loop"]
        /\ UNCHANGED <<queues, running, ended, work>>
    BY <1>5 DEF Serve
  <2>3. \A i, j \in DOMAIN jobs : jobs[i] = jobs[j] => i = j
    BY DEF DrainsOK
  <2>4. Len(jobs) \in Nat /\ DOMAIN jobs = 1..Len(jobs)
    BY <1>1, LenProperties
  <2>5. c \in ToSet(jobs)
    BY <2>1 DEF ToSet
  <2> HIDE DEF c
  <2>6. Len(Tail(jobs)) \in Nat /\ DOMAIN Tail(jobs) = 1..Len(Tail(jobs))
    BY <2>1, LenProperties
  <2>7. \A i, j \in DOMAIN jobs' : jobs'[i] = jobs'[j] => i = j
    BY <2>1, <2>2, <2>3, <2>6
  <2>8. ToSet(jobs') = ToSet(jobs) \ {c}
    <3>1. ASSUME NEW i \in DOMAIN Tail(jobs)
          PROVE  Tail(jobs)[i] \in ToSet(jobs) /\ Tail(jobs)[i] # c
      <4>1. i + 1 \in DOMAIN jobs /\ i + 1 # 1 /\ Tail(jobs)[i] = jobs[i + 1]
        BY <2>1, <2>6
      <4> QED BY <2>1, <2>3, <4>1 DEF ToSet
    <3>2. ASSUME NEW i \in DOMAIN jobs, jobs[i] # c
          PROVE  jobs[i] \in ToSet(Tail(jobs))
      <4>1. i # 1 /\ i - 1 \in DOMAIN Tail(jobs)
        BY <2>1, <3>2
      <4>2. Tail(jobs)[i - 1] = jobs[i]
        BY <2>1, <2>4, <4>1
      <4> QED BY <4>1, <4>2 DEF ToSet
    <3> QED BY <2>2, <3>1, <3>2 DEF ToSet
  <2>9. drain[c] = "waiting"
    BY <2>1, <2>5 DEF DrainsOK
  <2>10. ASSUME NEW d \in Conversations
         PROVE  /\ d \in running' <=> drain'[d] # "none"
                /\ queues'[d] # <<>> => drain'[d] # "none"
                /\ drain'[d] = "waiting" <=> d \in ToSet(jobs')
                /\ d \in ended' => drain'[d] = "none"
                /\ drain'[d] # "busy" => work'[d] = Idle
    BY <1>1, <2>1, <2>2, <2>8, <2>9 DEF DrainsOK, Busy
  <2> QED BY <2>1, <2>2, <2>7, <2>10 DEF DrainsOK, Busy
<1>6. ASSUME NEW c \in Conversations, Drain(c)
      PROVE  DrainsOK' /\ jobs' \in Seq(Conversations)
  <2>1. CASE Take(c)
    BY <1>1, <2>1 DEF Take, DrainsOK, Busy
  <2>2. CASE Leave(c)
    BY <1>1, <2>2 DEF Leave, Leaves, DrainsOK, Busy
  <2>3. CASE Forget(c)
    BY <1>1, <2>3 DEF Forget, DrainsOK, Busy
  <2>4. CASE Finish(c)
    BY <1>1, <2>4 DEF Finish, DrainsOK, Busy
  <2> QED BY <1>6, <2>1, <2>2, <2>3, <2>4 DEF Drain
<1>7. CASE UNCHANGED work /\ \E c \in Conversations, t \in Turns : Reject(c, t)
  BY <1>2, <1>7 DEF Reject
<1> QED BY <1>2, <1>3, <1>4, <1>5, <1>6, <1>7, TurnsCases DEF Admits

-----------------------------------------------------------------------------
(* The inbox *)

(* A batch that waits keeps its timer, or a webhook thread that will arm   *)
(* one.                                                                    *)
LEMMA InboxStep ==
  ASSUME TurnsTypeOK, OnePlace, ThreadsOK, ArrivedOK, BatchArmed, [Next]_vars
  PROVE  ThreadsOK' /\ ArrivedOK' /\ BatchArmed'
<1>1. /\ profile \in [Messages -> Profiles \cup {None}]
      /\ thread \in [Messages -> {"new", "ingested", "submitted"}]
      /\ closed \in [Messages -> Seq(Messages)]
      /\ batch \in Seq(Messages) /\ arrived \in Seq(Messages) /\ fired \in Nat
      /\ timer \in BOOLEAN
  BY DEF TurnsTypeOK
<1>2. None \notin Profiles
  BY TurnsAssumption
<1>3. ASSUME NEW m \in Messages, NEW p \in Profiles, NEW late \in BOOLEAN, Ingest(m, p, late)
      PROVE  ThreadsOK' /\ ArrivedOK' /\ BatchArmed'
  <2>1. /\ thread[m] = "new" /\ thread' = [thread EXCEPT ![m] = "ingested"]
        /\ profile' = [profile EXCEPT ![m] = p] /\ UNCHANGED <<arrived, timer, fired>>
    BY <1>3 DEF Ingest
  <2>2. closed' = closed \/ closed' = [closed EXCEPT ![m] = batch]
    BY <1>3 DEF Ingest
  <2>3. batch' = batch \/ m \in ToSet(batch')
    <3>1. batch' = batch \/ batch' = <<m>> \/ batch' = Append(batch, m)
      BY <1>3 DEF Ingest
    <3>2. m \in ToSet(Append(batch, m))
      BY <1>1, AppendFacts
    <3>3. m \in ToSet(<<m>>)
      BY DEF ToSet
    <3> QED BY <3>1, <3>2, <3>3
  <2>4. ThreadsOK'
    BY <1>1, <1>2, <2>1, <2>2 DEF ThreadsOK
  <2>5. ArrivedOK'
    <3>1. \A i \in DOMAIN arrived : arrived[i] \in Messages
      BY <1>1, ElementOfSeq, LenProperties
    <3> QED BY <1>1, <2>1, <3>1 DEF ArrivedOK
  <2>6. \A n \in Messages : thread[n] = "ingested" => thread'[n] = "ingested"
    BY <1>1, <2>1
  <2>7. BatchArmed'
    <3>1. thread'[m] = "ingested"
      BY <1>1, <2>1
    <3>2. \A n \in ToSet(batch) : n \in Messages
      BY <1>1, ElementOfSeq, LenProperties DEF ToSet
    <3> QED BY <2>1, <2>3, <2>6, <3>1, <3>2 DEF BatchArmed
  <2> QED BY <2>4, <2>5, <2>7
<1>4. ASSUME NEW m \in Messages, Submit(m)
      PROVE  ThreadsOK' /\ ArrivedOK' /\ BatchArmed'
  <2>1. /\ thread[m] = "ingested" /\ thread' = [thread EXCEPT ![m] = "submitted"]
        /\ arrived' = Append(arrived, m) /\ closed' = [closed EXCEPT ![m] = <<>>]
        /\ timer' = (timer \/ IsScheduled(m)) /\ UNCHANGED <<profile, batch, fired>>
    BY <1>4 DEF Submit
  <2>2. ThreadsOK'
    BY <1>1, <2>1 DEF ThreadsOK
  <2>3. ArrivedOK'
    <3>1. \A i \in DOMAIN arrived : arrived[i] \in Messages
      BY <1>1, ElementOfSeq, LenProperties
    <3>2. /\ DOMAIN arrived' = 1..(Len(arrived) + 1) /\ arrived'[Len(arrived) + 1] = m
          /\ \A i \in DOMAIN arrived : arrived'[i] = arrived[i]
      BY <1>1, <2>1, AppendFacts
    <3>3. Len(arrived) \in Nat /\ DOMAIN arrived = 1..Len(arrived)
      BY <1>1, LenProperties
    <3>4. \A i \in DOMAIN arrived' : i \in DOMAIN arrived \/ i = Len(arrived) + 1
      BY <3>2, <3>3
    <3>5. thread'[m] = "submitted" /\ \A n \in Messages : n # m => thread'[n] = thread[n]
      BY <1>1, <2>1
    <3> QED BY <3>1, <3>2, <3>4, <3>5 DEF ArrivedOK
  <2>4. BatchArmed'
    <3>1. \A n \in ToSet(batch) : n \in Messages /\ n \in Scheduled
      <4>1. \A n \in ToSet(batch) : n \in Scheduled
        BY BatchLoose DEF Loose
      <4> QED BY <4>1 DEF Scheduled
    <3>2. ASSUME NEW n \in ToSet(batch), thread[n] = "ingested", thread'[n] # "ingested"
          PROVE  timer' = TRUE
      <4>1. n = m
        BY <1>1, <2>1, <3>1, <3>2
      <4>2. IsScheduled(m)
        BY <3>1, <4>1 DEF Scheduled
      <4> QED BY <2>1, <4>2
    <3> QED BY <2>1, <3>2 DEF BatchArmed
  <2> QED BY <2>2, <2>3, <2>4
<1>5. CASE Fire
  BY <1>1, <1>5 DEF Fire, ThreadsOK, ArrivedOK, BatchArmed
<1>6. CASE Flush \/ CloseFlush
  BY <1>6 DEF Flush, CloseFlush, FlushBatch, ThreadsOK, ArrivedOK, BatchArmed
<1>7. CASE UNCHANGED inbox
  BY <1>7 DEF inbox, ThreadsOK, ArrivedOK, BatchArmed
<1>8. CloseShutdown \/ Serve => UNCHANGED inbox
  BY DEF CloseShutdown, Serve
<1>9. \A c \in Conversations : Drain(c) \/ Answer(c) => UNCHANGED inbox
  BY DEF Drain, Take, Leave, Forget, Finish, Answer, Decide, Draft, Clarify, Read, Acknowledge,
         Publish, Send, Rest
<1>10. UNCHANGED vars => UNCHANGED inbox
  BY DEF vars
<1> QED BY <1>3, <1>4, <1>5, <1>6, <1>7, <1>8, <1>9, <1>10 DEF Next, Webhook

-----------------------------------------------------------------------------
(* The types *)

(* The types of what the webhook threads and the batcher keep.             *)
LEMMA InboxTyped ==
  ASSUME TurnsTypeOK, [Next]_vars
  PROVE  /\ profile' \in [Messages -> Profiles \cup {None}]
         /\ thread' \in [Messages -> {"new", "ingested", "submitted"}]
         /\ closed' \in [Messages -> Seq(Messages)]
         /\ batch' \in Seq(Messages) /\ arrived' \in Seq(Messages)
         /\ timer' \in BOOLEAN /\ fired' \in Nat /\ stage' \in {"open", "closing", "shut"}
         /\ visuals' \cup handled' \subseteq Messages
<1> DEFINE Goal == /\ profile' \in [Messages -> Profiles \cup {None}]
                   /\ thread' \in [Messages -> {"new", "ingested", "submitted"}]
                   /\ closed' \in [Messages -> Seq(Messages)]
                   /\ batch' \in Seq(Messages) /\ arrived' \in Seq(Messages)
                   /\ timer' \in BOOLEAN /\ fired' \in Nat
                   /\ stage' \in {"open", "closing", "shut"}
                   /\ visuals' \cup handled' \subseteq Messages
<1>1. /\ profile \in [Messages -> Profiles \cup {None}]
      /\ thread \in [Messages -> {"new", "ingested", "submitted"}]
      /\ closed \in [Messages -> Seq(Messages)]
      /\ batch \in Seq(Messages) /\ arrived \in Seq(Messages)
      /\ timer \in BOOLEAN /\ fired \in Nat /\ stage \in {"open", "closing", "shut"}
      /\ visuals \subseteq Messages /\ handled \subseteq Messages
  BY DEF TurnsTypeOK
<1>2. <<>> \in Seq(Messages) /\ \A m \in Messages : <<m>> \in Seq(Messages)
  OBVIOUS
<1>3. ASSUME NEW m \in Messages, NEW p \in Profiles, NEW late \in BOOLEAN, Ingest(m, p, late)
      PROVE  Goal
  <2>1. Append(batch, m) \in Seq(Messages)
    BY <1>1, AppendFacts
  <2>2. batch' \in Seq(Messages)
    BY <1>1, <1>2, <1>3, <2>1 DEF Ingest
  <2>3. closed' \in [Messages -> Seq(Messages)]
    BY <1>1, <1>3 DEF Ingest
  <2> QED BY <1>1, <1>3, <2>2, <2>3 DEF Ingest
<1>4. ASSUME NEW m \in Messages, Submit(m)
      PROVE  Goal
  <2>1. Append(arrived, m) \in Seq(Messages)
    BY <1>1, AppendFacts
  <2>2. timer' \in BOOLEAN
    BY <1>4 DEF Submit
  <2>3. visuals' \cup handled' \subseteq Messages
    BY <1>1, <1>4 DEF Submit
  <2>4. /\ thread' = [thread EXCEPT ![m] = "submitted"] /\ arrived' = Append(arrived, m)
        /\ closed' = [closed EXCEPT ![m] = <<>>] /\ UNCHANGED <<profile, batch, fired, stage>>
    BY <1>4 DEF Submit
  <2> QED BY <1>1, <1>2, <2>1, <2>2, <2>3, <2>4
<1>5. CASE Fire
  <2>1. timer' \in BOOLEAN
    BY <1>5 DEF Fire
  <2>2. /\ fired' = fired + 1
        /\ UNCHANGED <<profile, thread, closed, batch, arrived, visuals, stage, handled>>
    BY <1>5 DEF Fire
  <2> QED BY <1>1, <2>1, <2>2
<1>6. CASE Flush \/ CloseFlush
  <2>1. timer' \in BOOLEAN
    BY <1>6 DEF Flush, CloseFlush, FlushBatch
  <2>2. fired' \in Nat /\ stage' \in {"open", "closing", "shut"}
    BY <1>1, <1>6 DEF Flush, CloseFlush
  <2>3. /\ batch' = <<>> /\ visuals' = visuals \ ToSet(batch)
        /\ UNCHANGED <<profile, thread, closed, arrived, work, handled>>
    BY <1>6 DEF Flush, CloseFlush, FlushBatch
  <2> QED BY <1>1, <1>2, <2>1, <2>2, <2>3
<1>7. CASE CloseShutdown \/ Serve
  BY <1>1, <1>7 DEF CloseShutdown, Serve, inbox
<1>8. ASSUME NEW c \in Conversations, Drain(c)
      PROVE  Goal
  <2>1. ToSet(work[c].turn.ids) \subseteq Messages
    <3>1. work[c].turn.ids \in Seq(Messages)
      BY DEF TurnsTypeOK, Turns
    <3> QED BY <3>1, ElementOfSeq, LenProperties DEF ToSet
  <2> QED BY <1>1, <1>8, <2>1 DEF Drain, Take, Leave, Forget, Finish, inbox
<1>9. ASSUME NEW c \in Conversations, Answer(c)
      PROVE  Goal
  BY <1>1, <1>9, AnswerStep DEF Answers, inbox
<1>10. CASE UNCHANGED vars
  BY <1>1, <1>10 DEF vars, inbox
<1> QED BY <1>3, <1>4, <1>5, <1>6, <1>7, <1>8, <1>9, <1>10 DEF Next, Webhook

(* Only messages are refused.                                              *)
LEMMA RefusedTyped ==
  ASSUME TurnsTypeOK, OnePlace, AmbientWaits, [Next]_vars
  PROVE  refused' \subseteq Messages
<1>1. refused \subseteq Messages /\ \A c \in Conversations : queues[c] \in Seq(Turns)
  BY DEF TurnsTypeOK
<1>2. \A ids \in Seq(Messages) : ToSet(ids) \subseteq Messages
  BY ElementOfSeq, LenProperties DEF ToSet
<1>3. ASSUME NEW b \in Seq(Messages), NEW arr \in Seq(Messages), Loose(b), Dispatch(b, arr)
      PROVE  refused' \subseteq Messages
  <2>1. ASSUME NEW c \in Conversations, NEW t \in Turns, Accept(c, t)
        PROVE  refused' \subseteq Messages
    <3>1. \A i \in DOMAIN queues[c] : queues[c][i].ids \in Seq(Messages)
      <4>1. \A i \in DOMAIN queues[c] : queues[c][i] \in Turns
        BY <1>1, ElementOfSeq, LenProperties
      <4> QED BY <4>1 DEF Turns
    <3>2. Obsolete(c, t) \subseteq DOMAIN queues[c]
      BY DEF Obsolete
    <3>3. \A i \in Obsolete(c, t) : ToSet(queues[c][i].ids) \subseteq Messages
      BY <1>2, <3>1, <3>2
    <3>4. refused' = refused \cup UNION {ToSet(queues[c][i].ids) : i \in Obsolete(c, t)}
      BY <2>1 DEF Accept
    <3> QED BY <1>1, <3>3, <3>4
  <2>2. ASSUME NEW c \in Conversations, NEW t \in Turns, Turned(b, t, c), Reject(c, t)
        PROVE  refused' \subseteq Messages
    BY <1>1, <1>2, <2>2 DEF Reject, Turned
  <2> QED BY <1>1, <1>2, <1>3, <2>1, <2>2, DispatchCases DEF Loose, turns
<1>4. ASSUME NEW c \in Conversations, Drain(c) \/ Answers(c)
      PROVE  refused' = refused
  BY <1>4 DEF Drain, Take, Leave, Forget, Finish, Answers, turns
<1>5. Serve \/ UNCHANGED turns => refused' = refused
  BY DEF Serve, turns
<1> QED BY <1>1, <1>3, <1>4, <1>5, TurnsStep

Revision == [last : Nat, explicit : Nat]

(* Every step keeps the types.                                             *)
LEMMA TypeStep ==
  ASSUME TurnsTypeOK, OnePlace, AmbientWaits, DrainsOK, CountsAreExact, [Next]_vars
  PROVE  TurnsTypeOK'
<1>1. /\ queues \in [Conversations -> Seq(Turns)]
      /\ revisions \in [Conversations -> Revision]
      /\ running \subseteq Conversations /\ ended \subseteq Conversations
      /\ drain \in [Conversations -> {"none", "waiting", "loop", "busy"}]
      /\ work \in [Conversations -> WorkItem]
  BY DEF TurnsTypeOK, WorkItem, Revision
<1>2. [last |-> 0, explicit |-> 0] \in Revision /\ Idle \in WorkItem
  BY NothingTyped DEF WorkItem, Revision
<1> DEFINE Goal == /\ queues' \in [Conversations -> Seq(Turns)]
                   /\ revisions' \in [Conversations -> Revision]
                   /\ running' \subseteq Conversations /\ ended' \subseteq Conversations
                   /\ drain' \in [Conversations -> {"none", "waiting", "loop", "busy"}]
                   /\ work' \in [Conversations -> WorkItem]
<1>3. ASSUME UNCHANGED <<queues, revisions, running, drain, ended, work>>
      PROVE  Goal
  BY <1>1, <1>3
<1>4. ASSUME NEW c \in Conversations, Answers(c)
      PROVE  Goal
  BY <1>1, <1>4 DEF Answers, turns
<1>5. ASSUME NEW c \in Conversations, NEW t \in Turns, Accept(c, t), UNCHANGED work
      PROVE  Goal
  <2>1. queues' \in [Conversations -> Seq(Turns)]
    BY <1>5, AcceptQueue
  <2>2. t.rev \in Nat /\ revisions[c].explicit \in Nat
    BY <1>1 DEF Turns, Revision
  <2> DEFINE r == [last |-> t.rev,
                   explicit |-> IF Explicit(t) THEN t.rev ELSE revisions[c].explicit]
  <2>3. r \in Revision
    BY <2>2 DEF Revision
  <2>4. revisions' = [revisions EXCEPT ![c] = r]
    BY <1>5 DEF Accept
  <2> HIDE DEF r
  <2>5. revisions' \in [Conversations -> Revision]
    BY <1>1, <2>3, <2>4
  <2> QED BY <1>1, <1>5, <2>1, <2>5 DEF Accept
<1>6. ASSUME NEW c \in Conversations, NEW t, Reject(c, t), UNCHANGED work
      PROVE  Goal
  <2>1. revisions' = [revisions EXCEPT ![c] = [last |-> 0, explicit |-> 0]]
    BY <1>6 DEF Reject
  <2>2. revisions' \in [Conversations -> Revision]
    BY <1>1, <1>2, <2>1
  <2> QED BY <1>1, <1>6, <2>2 DEF Reject
<1>7. ASSUME Serve
      PROVE  Goal
  BY <1>1, <1>7 DEF Serve
<1>8. ASSUME NEW c \in Conversations, Take(c)
      PROVE  Goal
  <2>1. Head(queues[c]) \in Turns /\ Tail(queues[c]) \in Seq(Turns)
    BY <1>1, <1>8, TailFacts DEF Take
  <2> DEFINE h == Head(queues[c])
             w == [Idle EXCEPT !.turn = h, !.at = "start", !.reviewed = h.origin]
  <2>2. work' = [work EXCEPT ![c] = w]
    BY <1>8 DEF Take
  <2> HIDE DEF h
  <2>3. w \in WorkItem
    <3>1. h \in Turns /\ h.origin \in Nat
      BY <2>1 DEF h, Turns
    <3> QED BY <1>2, <3>1 DEF WorkItem, Steps
  <2> HIDE DEF w
  <2> QED BY <1>1, <1>8, <2>1, <2>2, <2>3 DEF Take
<1>9. ASSUME NEW c \in Conversations, Leave(c) \/ Forget(c) \/ Finish(c)
      PROVE  Goal
  <2>1. revisions' \in [Conversations -> Revision]
    <3>1. \/ revisions' = revisions
          \/ revisions' = [revisions EXCEPT ![c] = [last |-> 0, explicit |-> 0]]
      BY <1>9 DEF Leave, Forget, Finish
    <3> QED BY <1>1, <1>2, <3>1
  <2>2. CASE Leave(c) \/ Forget(c)
    BY <1>1, <2>1, <2>2 DEF Leave, Forget
  <2>3. CASE Finish(c)
    BY <1>1, <1>2, <2>1, <2>3 DEF Finish
  <2> QED BY <1>9, <2>2, <2>3
<1>10. Goal
  BY <1>3, <1>4, <1>5, <1>6, <1>7, <1>8, <1>9, TurnsCases DEF Admits, Drain
<1> QED BY <1>10, InboxTyped, RefusedTyped, CountsStep, DrainsStep DEF TurnsTypeOK, WorkItem, Revision

-----------------------------------------------------------------------------
(* The order of a queue, and what its turns are called *)

(* What a message is never changes once it has arrived.                    *)
LEMMA ProfileKept ==
  ASSUME TurnsTypeOK, ThreadsOK, [Next]_vars, NEW m \in Messages
  PROVE  profile[m] # None => profile'[m] = profile[m]
<1>1. profile \in [Messages -> Profiles \cup {None}]
  BY DEF TurnsTypeOK
<1>2. ASSUME NEW n \in Messages, NEW p \in Profiles, NEW late \in BOOLEAN, Ingest(n, p, late)
      PROVE  profile[m] # None => profile'[m] = profile[m]
  <2>1. profile[n] = None /\ profile' = [profile EXCEPT ![n] = p]
    BY <1>2 DEF Ingest, ThreadsOK
  <2> QED BY <1>1, <2>1
<1>3. \A n \in Messages : Submit(n) => profile' = profile
  BY DEF Submit
<1>4. Fire \/ Flush \/ CloseFlush \/ CloseShutdown \/ Serve \/ UNCHANGED vars => profile' = profile
  BY DEF Fire, Flush, CloseFlush, FlushBatch, CloseShutdown, Serve, vars, inbox
<1>5. \A c \in Conversations : Drain(c) \/ Answer(c) => profile' = profile
  BY AnswerStep DEF Drain, Take, Leave, Forget, Finish, Answers, inbox
<1> QED BY <1>2, <1>3, <1>4, <1>5 DEF Next, Webhook

(* A scheduled message stays scheduled, and called or not as it was.       *)
LEMMA ScheduledKept ==
  ASSUME TurnsTypeOK, ThreadsOK, [Next]_vars, NEW m \in Scheduled
  PROVE  m \in Scheduled' /\ (IsExplicit(m)' <=> IsExplicit(m))
<1>1. m \in Messages /\ profile[m] # None
  BY DEF Scheduled
<1>2. profile'[m] = profile[m]
  BY <1>1, ProfileKept
<1> QED BY <1>1, <1>2 DEF Scheduled, IsScheduled, IsExplicit

(* Whether somebody called in a batch of scheduled messages never changes. *)
LEMMA ModeKept ==
  ASSUME TurnsTypeOK, ThreadsOK, [Next]_vars, NEW b, ToSet(b) \subseteq Scheduled
  PROVE  (\E m \in ToSet(b) : IsExplicit(m)') <=> \E m \in ToSet(b) : IsExplicit(m)
BY ScheduledKept

(* The turns of a queue are of scheduled messages.                         *)
LEMMA QueuedScheduled ==
  ASSUME TurnsTypeOK, OnePlace, NEW c \in Conversations, NEW i \in DOMAIN queues[c]
  PROVE  /\ queues[c][i] \in Turns
         /\ ToSet(queues[c][i].ids) \subseteq Messages
         /\ ToSet(queues[c][i].ids) \subseteq Scheduled
         /\ ToSet(queues[c][i].ids) \subseteq Members(queues[c])
<1>1. queues[c] \in Seq(Turns)
  BY DEF TurnsTypeOK
<1>2. queues[c][i] \in Turns
  BY <1>1, ElementOfSeq, LenProperties
<1>3. queues[c][i].ids \in Seq(Messages)
  BY <1>2 DEF Turns
<1>4. ToSet(queues[c][i].ids) \subseteq Messages
  BY <1>3, ElementOfSeq, LenProperties DEF ToSet
<1>5. ToSet(queues[c][i].ids) \subseteq Members(queues[c])
  BY DEF Members
<1>6. \A m \in ToSet(queues[c][i].ids) : m \in Scheduled
  BY <1>4, <1>5, LinedFacts, LinedApart
<1> QED BY <1>2, <1>4, <1>5, <1>6

(* Where the turns of a queue come from in a step: they stood there, or    *)
(* one of them has just been accepted.                                     *)
Stayed(c, from) ==
    /\ \A i \in DOMAIN queues'[c] :
          from[i] \in DOMAIN queues[c] /\ queues'[c][i] = queues[c][from[i]]
    /\ \A i, j \in DOMAIN queues'[c] : from[i] = from[j] => i = j

(* In every queue an ambient turn stays last, whoever joins or leaves it.  *)
LEMMA QueueStep ==
  ASSUME TurnsTypeOK, OnePlace, AmbientWaits, [Next]_vars, NEW d \in Conversations
  PROVE  \/ AmbientLast(queues'[d]) /\ \E from : Stayed(d, from)
         \/ \E t \in Turns, b \in Seq(Messages) :
               Admits(d, t, b) /\ AmbientLast(queues'[d])
<1>1. queues[d] \in Seq(Turns) /\ AmbientLast(queues[d]) /\ queues \in [Conversations -> Seq(Turns)]
  BY DEF TurnsTypeOK, AmbientWaits, AmbientLast
<1> DEFINE same == [i \in DOMAIN queues[d] |-> i]
           next == [i \in DOMAIN Tail(queues[d]) |-> i + 1]
<1>2. ASSUME queues'[d] = queues[d]
      PROVE  AmbientLast(queues'[d]) /\ \E from : Stayed(d, from)
  <2>1. Stayed(d, same)
    BY <1>2 DEF Stayed
  <2> HIDE DEF same
  <2> QED BY <1>1, <1>2, <2>1
<1>3. ASSUME Take(d)
      PROVE  AmbientLast(queues'[d]) /\ \E from : Stayed(d, from)
  <2>1. queues'[d] = Tail(queues[d]) /\ queues[d] # <<>>
    BY <1>1, <1>3 DEF Take
  <2>2. /\ Tail(queues[d]) \in Seq(Turns) /\ Len(Tail(queues[d])) = Len(queues[d]) - 1
        /\ Len(queues[d]) \in Nat
        /\ \A i \in DOMAIN Tail(queues[d]) :
              i + 1 \in DOMAIN queues[d] /\ Tail(queues[d])[i] = queues[d][i + 1]
    BY <1>1, <2>1, TailFacts
  <2>3. DOMAIN Tail(queues[d]) \subseteq Nat
    BY <2>2, LenProperties
  <2>4. Stayed(d, next)
    BY <2>1, <2>2, <2>3 DEF Stayed
  <2> HIDE DEF next
  <2>5. AmbientLast(queues'[d])
    BY <1>1, <2>1, <2>2, <2>3 DEF AmbientLast
  <2> QED BY <2>4, <2>5
<1>4. ASSUME NEW c \in Conversations, NEW t \in Turns, NEW b \in Seq(Messages), Admits(c, t, b)
      PROVE  queues'[d] = queues[d] \/ (c = d /\ AmbientLast(queues'[d]))
  <2>1. /\ queues'[c] = Joined(queues[c], t) /\ queues[c] \in Seq(Turns)
        /\ AmbientLast(queues[c])
        /\ \A e \in Conversations : e # c => queues'[e] = queues[e]
    BY <1>4, AcceptQueue DEF Admits
  <2>2. AmbientLast(queues'[c])
    BY <2>1, JoinedFacts
  <2> QED BY <2>1, <2>2
<1>5. ASSUME NEW c \in Conversations, Drain(c)
      PROVE  queues'[d] = queues[d] \/ Take(d)
  BY <1>1, <1>5 DEF Drain, Take, Leave, Forget, Finish
<1>6. Serve \/ (\E c \in Conversations, t \in Turns : Reject(c, t)) => queues' = queues
  BY DEF Serve, Reject
<1> HIDE DEF same, next
<1> QED BY <1>2, <1>3, <1>4, <1>5, <1>6, TurnsCases

(* Turns of a queue keep apart, ambient ones last, and called what they    *)
(* are.                                                                    *)
LEMMA QueuesStep ==
  ASSUME TurnsTypeOK, OnePlace, ThreadsOK, AmbientWaits, TurnsApart, ModesOK, [Next]_vars
  PROVE  AmbientWaits' /\ TurnsApart' /\ ModesOK'
<1>1. AmbientWaits'
  BY QueueStep DEF AmbientWaits, AmbientLast
<1>2. ASSUME NEW d \in Conversations
      PROVE  /\ \A i, j \in DOMAIN queues'[d] : i # j =>
                   ToSet(queues'[d][i].ids) \cap ToSet(queues'[d][j].ids) = {}
             /\ \A i \in DOMAIN queues'[d] : queues'[d][i].mode = Mode(queues[d][i].ids)'
  <2>1. \A i \in DOMAIN queues[d] :
            /\ queues[d][i].mode = Mode(queues[d][i].ids)
            /\ (\E m \in ToSet(queues[d][i].ids) : IsExplicit(m)')
                  <=> \E m \in ToSet(queues[d][i].ids) : IsExplicit(m)
    BY QueuedScheduled, ModeKept DEF ModesOK
  <2>2. \A i, j \in DOMAIN queues[d] : i # j =>
            ToSet(queues[d][i].ids) \cap ToSet(queues[d][j].ids) = {}
    BY DEF TurnsApart
  <2>3. ASSUME NEW from, Stayed(d, from)
        PROVE  /\ \A i, j \in DOMAIN queues'[d] : i # j =>
                     ToSet(queues'[d][i].ids) \cap ToSet(queues'[d][j].ids) = {}
               /\ \A i \in DOMAIN queues'[d] : queues'[d][i].mode = Mode(queues[d][i].ids)'
    <3>1. \A i, j \in DOMAIN queues'[d] : i # j =>
              ToSet(queues'[d][i].ids) \cap ToSet(queues'[d][j].ids) = {}
      <4> SUFFICES ASSUME NEW i \in DOMAIN queues'[d], NEW j \in DOMAIN queues'[d], i # j
                   PROVE  ToSet(queues'[d][i].ids) \cap ToSet(queues'[d][j].ids) = {}
        OBVIOUS
      <4>1. /\ from[i] \in DOMAIN queues[d] /\ queues'[d][i] = queues[d][from[i]]
            /\ from[j] \in DOMAIN queues[d] /\ queues'[d][j] = queues[d][from[j]]
            /\ from[i] # from[j]
        BY <2>3 DEF Stayed
      <4> QED BY <2>2, <4>1
    <3>2. \A i \in DOMAIN queues'[d] : queues'[d][i].mode = Mode(queues[d][i].ids)'
      <4> TAKE i \in DOMAIN queues'[d]
      <4>1. PICK j \in DOMAIN queues[d] : queues'[d][i] = queues[d][j]
        BY <2>3 DEF Stayed
      <4>2. /\ queues[d][j].mode = Mode(queues[d][j].ids)
            /\ (\E m \in ToSet(queues[d][j].ids) : IsExplicit(m)')
                  <=> \E m \in ToSet(queues[d][j].ids) : IsExplicit(m)
        BY <2>1
      <4> QED BY <4>1, <4>2 DEF Mode
    <3> QED BY <3>1, <3>2
  <2>4. ASSUME NEW t \in Turns, NEW b \in Seq(Messages), Admits(d, t, b)
        PROVE  /\ \A i, j \in DOMAIN queues'[d] : i # j =>
                     ToSet(queues'[d][i].ids) \cap ToSet(queues'[d][j].ids) = {}
               /\ \A i \in DOMAIN queues'[d] : queues'[d][i].mode = Mode(queues[d][i].ids)'
    <3> DEFINE gone == Obsolete(d, t)
    <3> HIDE DEF gone
    <3>1. \E at, from : Came(queues[d], t, gone, queues'[d], at, from)
      BY <2>4, AcceptQueue DEF Admits, gone
    <3>2. PICK at, from : Came(queues[d], t, gone, queues'[d], at, from)
      BY <3>1
    <3>3. /\ Loose(b) /\ t.ids = b /\ t.mode = Mode(b)
      BY <2>4 DEF Admits, Turned
    <3>4. (\E m \in ToSet(b) : IsExplicit(m)') <=> \E m \in ToSet(b) : IsExplicit(m)
      BY <3>3, ModeKept DEF Loose
    <3>5. \A j \in DOMAIN queues[d] : ToSet(b) \cap ToSet(queues[d][j].ids) = {}
      BY <3>3, LinedFacts, QueuedScheduled DEF Loose
    <3>6. /\ queues'[d][at] = t
          /\ \A i \in DOMAIN queues'[d] : i # at =>
                from[i] \in DOMAIN queues[d] /\ queues'[d][i] = queues[d][from[i]]
          /\ \A i, j \in DOMAIN queues'[d] : i # at /\ j # at /\ from[i] = from[j] => i = j
      BY <3>2 DEF Came
    <3>7. \A i, j \in DOMAIN queues'[d] : i # j =>
              ToSet(queues'[d][i].ids) \cap ToSet(queues'[d][j].ids) = {}
      <4> SUFFICES ASSUME NEW i \in DOMAIN queues'[d], NEW j \in DOMAIN queues'[d], i # j
                   PROVE  ToSet(queues'[d][i].ids) \cap ToSet(queues'[d][j].ids) = {}
        OBVIOUS
      <4>1. CASE i # at /\ j # at
        <5>1. /\ from[i] \in DOMAIN queues[d] /\ queues'[d][i] = queues[d][from[i]]
              /\ from[j] \in DOMAIN queues[d] /\ queues'[d][j] = queues[d][from[j]]
              /\ from[i] # from[j]
          BY <3>6, <4>1
        <5> QED BY <2>2, <5>1
      <4>2. CASE i = at
        <5>1. from[j] \in DOMAIN queues[d] /\ queues'[d][j] = queues[d][from[j]]
          BY <3>6, <4>2
        <5>2. queues'[d][i].ids = b
          BY <3>3, <3>6, <4>2
        <5> QED BY <3>5, <5>1, <5>2
      <4>3. CASE j = at
        <5>1. from[i] \in DOMAIN queues[d] /\ queues'[d][i] = queues[d][from[i]]
          BY <3>6, <4>3
        <5>2. queues'[d][j].ids = b
          BY <3>3, <3>6, <4>3
        <5>3. ToSet(b) \cap ToSet(queues[d][from[i]].ids) = {}
          BY <3>5, <5>1
        <5> QED BY <5>1, <5>2, <5>3
      <4> QED BY <4>1, <4>2, <4>3
    <3>8. \A i \in DOMAIN queues'[d] : queues'[d][i].mode = Mode(queues[d][i].ids)'
      <4> TAKE i \in DOMAIN queues'[d]
      <4>1. CASE i = at
        BY <3>3, <3>4, <3>6, <4>1 DEF Mode
      <4>2. CASE i # at
        <5>1. PICK j \in DOMAIN queues[d] : queues'[d][i] = queues[d][j]
          BY <3>6, <4>2
        <5>2. /\ queues[d][j].mode = Mode(queues[d][j].ids)
              /\ (\E m \in ToSet(queues[d][j].ids) : IsExplicit(m)')
                    <=> \E m \in ToSet(queues[d][j].ids) : IsExplicit(m)
          BY <2>1
        <5> QED BY <5>1, <5>2 DEF Mode
      <4> QED BY <4>1, <4>2
    <3> QED BY <3>7, <3>8
  <2> QED BY <2>3, <2>4, QueueStep
<1> QED BY <1>1, <1>2 DEF TurnsApart, ModesOK

-----------------------------------------------------------------------------
(* Where a step takes a message *)

(* A message neither queued nor refused anew is lined up as before.        *)
LEMMA LinedSame ==
  ASSUME NEW m, \A c \in Conversations : m \in Members(queues'[c]) <=> m \in Members(queues[c]),
         m \in refused' <=> m \in refused
  PROVE  Lined(m)' = Lined(m)
BY DEF Lined

(* A message nobody takes from where it is held stays held there.          *)
LEMMA HeldSame ==
  ASSUME NEW m, m \in ToSet(batch') <=> m \in ToSet(batch),
         \A o \in Messages : m \in ToSet(closed'[o]) <=> m \in ToSet(closed[o]),
         \A c \in Conversations : m \in ToSet(work'[c].turn.ids) <=> m \in ToSet(work[c].turn.ids),
         m \in handled' <=> m \in handled
  PROVE  Held(m)' = Held(m)
BY DEF Held

(* A message in one queue and not refused is lined up there only.          *)
LEMMA LinedQueued ==
  ASSUME NEW m, NEW c \in Conversations, m \notin refused',
         \A d \in Conversations : m \in Members(queues'[d]) <=> d = c
  PROVE  Lined(m)' = {<<"queued", c>>}
BY DEF Lined

(* A message refused and in no queue is lined up there only.               *)
LEMMA LinedRefused ==
  ASSUME NEW m, m \in refused', \A d \in Conversations : m \notin Members(queues'[d])
  PROVE  Lined(m)' = {<<"refused">>}
BY DEF Lined

(* A dispatched message ends up queued or refused, and one that a newer    *)
(* candidate replaces is refused.                                          *)
Moves(b, m) == /\ m \in ToSet(b) => \E p : Lined(m)' = {p}
               /\ m \notin ToSet(b) => \/ Lined(m)' = Lined(m)
                                       \/ \E p, q : Lined(m) = {p} /\ Lined(m)' = {q}

(* An accepted turn takes its messages into one queue; those of a          *)
(* candidate it replaces are refused.                                      *)
LEMMA AcceptLined ==
  ASSUME TurnsTypeOK, OnePlace, AmbientWaits, TurnsApart, NEW c \in Conversations,
         NEW t \in Turns, NEW b \in Seq(Messages), Admits(c, t, b), NEW m \in Messages
  PROVE  Moves(b, m)
<1> DEFINE gone == Obsolete(c, t)
           lost == UNION {ToSet(queues[c][i].ids) : i \in gone}
<1>1. /\ queues[c] \in Seq(Turns) /\ gone \subseteq DOMAIN queues[c]
      /\ \A d \in Conversations : d # c => queues'[d] = queues[d]
      /\ \E at, from : Came(queues[c], t, gone, queues'[c], at, from)
  BY AcceptQueue DEF Admits, Obsolete
<1>2. refused' = refused \cup lost /\ t.ids = b /\ Loose(b)
  BY DEF Admits, Accept, Turned
<1>3. lost \subseteq Members(queues[c])
  BY <1>1 DEF Members
<1>4. \A x \in lost : \E i \in gone : x \in ToSet(queues[c][i].ids)
  OBVIOUS
<1>5. \A i \in gone : ToSet(queues[c][i].ids) \subseteq lost
  OBVIOUS
<1> HIDE DEF gone, lost
<1>6. ASSUME NEW x
      PROVE  x \in Members(queues'[c]) <=>
                \/ x \in ToSet(b)
                \/ \E j \in DOMAIN queues[c] \ gone : x \in ToSet(queues[c][j].ids)
  <2>1. PICK at, from : Came(queues[c], t, gone, queues'[c], at, from)
    BY <1>1
  <2>2. /\ at \in DOMAIN queues'[c] /\ queues'[c][at].ids = b
        /\ \A i \in DOMAIN queues'[c] : i # at =>
              from[i] \in DOMAIN queues[c] \ gone /\ queues'[c][i] = queues[c][from[i]]
        /\ \A j \in DOMAIN queues[c] \ gone : \E i \in DOMAIN queues'[c] : i # at /\ from[i] = j
    BY <1>2, <2>1 DEF Came
  <2>3. x \in Members(queues'[c]) <=> \E i \in DOMAIN queues'[c] : x \in ToSet(queues'[c][i].ids)
    BY DEF Members
  <2>4. ASSUME NEW i \in DOMAIN queues'[c], x \in ToSet(queues'[c][i].ids), x \notin ToSet(b)
        PROVE  \E j \in DOMAIN queues[c] \ gone : x \in ToSet(queues[c][j].ids)
    BY <2>2, <2>4
  <2>5. ASSUME NEW j \in DOMAIN queues[c] \ gone, x \in ToSet(queues[c][j].ids)
        PROVE  \E i \in DOMAIN queues'[c] : x \in ToSet(queues'[c][i].ids)
    BY <2>2, <2>5
  <2> QED BY <2>2, <2>3, <2>4, <2>5
<1>7. \A x : x \in Members(queues[c]) <=> \E j \in DOMAIN queues[c] : x \in ToSet(queues[c][j].ids)
  BY DEF Members
<1>8. ASSUME m \in ToSet(b)
      PROVE  \E p : Lined(m)' = {p}
  <2>1. Lined(m) = {}
    BY <1>2, <1>8 DEF Loose
  <2>2. m \notin refused /\ \A d \in Conversations : m \notin Members(queues[d])
    <3>1. /\ \A d \in Conversations : <<"queued", d>> \in Lined(m) <=> m \in Members(queues[d])
          /\ <<"refused">> \in Lined(m) <=> m \in refused
      BY LinedFacts
    <3>2. \A p : p \notin Lined(m)
      BY <2>1
    <3>3. m \notin refused
      BY <3>1, <3>2
    <3> QED BY <3>1, <3>2, <3>3
  <2>3. m \notin refused' /\ \A d \in Conversations : m \in Members(queues'[d]) <=> d = c
    BY <1>1, <1>2, <1>3, <1>6, <1>8, <2>2
  <2> QED BY <2>3, LinedQueued
<1>9. ASSUME m \notin ToSet(b), m \in lost
      PROVE  \E p, q : Lined(m) = {p} /\ Lined(m)' = {q}
  <2>1. <<"queued", c>> \in Lined(m)
    BY <1>3, <1>9, LinedFacts
  <2>2. Lined(m) = {<<"queued", c>>}
    BY <2>1, LinedApart
  <2>3. \A d \in Conversations : d # c => m \notin Members(queues[d])
    <3>1. \A d \in Conversations : <<"queued", d>> \in Lined(m) <=> m \in Members(queues[d])
      BY LinedFacts
    <3>2. \A d \in Conversations : d # c => <<"queued", d>> # <<"queued", c>>
      OBVIOUS
    <3>3. \A p : p \in Lined(m) => p = <<"queued", c>>
      BY <2>2
    <3> QED BY <3>1, <3>2, <3>3
  <2>4. ASSUME NEW j \in DOMAIN queues[c] \ gone
        PROVE  m \notin ToSet(queues[c][j].ids)
    <3>1. PICK i \in gone : m \in ToSet(queues[c][i].ids)
      BY <1>4, <1>9
    <3>2. i \in DOMAIN queues[c] /\ i # j
      BY <1>1, <2>4
    <3> QED BY <3>1, <3>2 DEF TurnsApart
  <2>5. \A d \in Conversations : m \notin Members(queues'[d])
    BY <1>1, <1>6, <1>9, <2>3, <2>4
  <2>6. Lined(m)' = {<<"refused">>}
    BY <1>2, <1>9, <2>5, LinedRefused
  <2> QED BY <2>2, <2>6
<1>10. ASSUME m \notin ToSet(b), m \notin lost
       PROVE  Lined(m)' = Lined(m)
  <2>1. \A j \in gone : m \notin ToSet(queues[c][j].ids)
    BY <1>5, <1>10
  <2>2. m \in Members(queues'[c]) <=> m \in Members(queues[c])
    <3>1. m \in Members(queues'[c]) <=>
              \E j \in DOMAIN queues[c] \ gone : m \in ToSet(queues[c][j].ids)
      BY <1>6, <1>10
    <3>2. (\E j \in DOMAIN queues[c] \ gone : m \in ToSet(queues[c][j].ids)) <=>
              \E j \in DOMAIN queues[c] : m \in ToSet(queues[c][j].ids)
      BY <2>1
    <3>3. m \in Members(queues[c]) <=> \E j \in DOMAIN queues[c] : m \in ToSet(queues[c][j].ids)
      BY <1>7
    <3> QED BY <3>1, <3>2, <3>3
  <2>3. \A d \in Conversations : m \in Members(queues'[d]) <=> m \in Members(queues[d])
    BY <1>1, <2>2
  <2>4. m \in refused' <=> m \in refused
    BY <1>2, <1>10
  <2> QED BY <2>3, <2>4, LinedSame
<1> QED BY <1>8, <1>9, <1>10 DEF Moves

(* Whatever a dispatch comes to, each of its messages is queued or         *)
(* refused, once.                                                          *)
LEMMA DispatchLined ==
  ASSUME TurnsTypeOK, OnePlace, AmbientWaits, TurnsApart, NEW b, Loose(b),
         NEW arr \in Seq(Messages), Dispatch(b, arr), NEW m \in Messages
  PROVE  Moves(b, m)
<1>1. b \in Seq(Messages) /\ ToSet(b) \subseteq Scheduled /\ \A x \in ToSet(b) : Lined(x) = {}
  BY DEF Loose
<1>2. ASSUME UNCHANGED turns, b = <<>>
      PROVE  Moves(b, m)
  <2>1. m \notin ToSet(b)
    BY <1>2 DEF ToSet
  <2>2. Lined(m)' = Lined(m)
    BY <1>2, LinedSame DEF turns
  <2> QED BY <2>1, <2>2 DEF Moves
<1>3. ASSUME refused' = refused \cup ToSet(b), queues' = queues
      PROVE  Moves(b, m)
  <2>1. m \in ToSet(b) => Lined(m)' = {<<"refused">>}
    <3>1. m \in ToSet(b) => \A d \in Conversations : m \notin Members(queues[d])
      BY <1>1, LinedFacts
    <3> QED BY <1>3, <3>1, LinedRefused
  <2>2. m \notin ToSet(b) => Lined(m)' = Lined(m)
    BY <1>3, LinedSame
  <2> QED BY <2>1, <2>2 DEF Moves
<1>4. ASSUME NEW c \in Conversations, NEW t \in Turns, b # <<>>, Turned(b, t, c), Accept(c, t)
      PROVE  Moves(b, m)
  BY <1>1, <1>4, AcceptLined DEF Admits
<1>5. ASSUME NEW c \in Conversations, NEW t \in Turns, Turned(b, t, c), Reject(c, t)
      PROVE  Moves(b, m)
  BY <1>3, <1>5 DEF Turned, Reject
<1> QED BY <1>1, <1>2, <1>3, <1>4, <1>5, DispatchCases

(* A message in the open batch is nowhere else.                            *)
LEMMA InBatch ==
  ASSUME OnePlace, NEW m \in Messages, m \in ToSet(batch)
  PROVE  /\ m \in Scheduled /\ Lined(m) = {} /\ Held(m) = {<<"batch">>}
         /\ \A o \in Messages : m \notin ToSet(closed[o])
         /\ \A c \in Conversations : m \notin ToSet(work[c].turn.ids)
         /\ m \notin handled
<1>1. <<"batch">> \in Held(m)
  BY HeldFacts
<1>2. m \in Scheduled /\ Lined(m) = {} /\ Held(m) = {<<"batch">>}
  BY <1>1, HeldApart
<1>3. \A p : p \in Held(m) => p = <<"batch">>
  BY <1>2
<1>4. /\ \A o \in Messages : <<"closed", o>> \in Held(m) <=> m \in ToSet(closed[o])
      /\ \A c \in Conversations : <<"work", c>> \in Held(m) <=> m \in ToSet(work[c].turn.ids)
      /\ <<"handled">> \in Held(m) <=> m \in handled
  BY HeldFacts
<1>5. <<"handled">> # <<"batch">> /\ \A o : <<"closed", o>> # <<"batch">> /\ <<"work", o>> # <<"batch">>
  OBVIOUS
<1> QED BY <1>2, <1>3, <1>4, <1>5

(* One in a batch that a webhook thread carries is nowhere else.           *)
LEMMA InClosed ==
  ASSUME OnePlace, NEW m \in Messages, NEW o \in Messages, m \in ToSet(closed[o])
  PROVE  /\ m \in Scheduled /\ Lined(m) = {} /\ Held(m) = {<<"closed", o>>}
         /\ m \notin ToSet(batch)
         /\ \A n \in Messages : n # o => m \notin ToSet(closed[n])
         /\ \A c \in Conversations : m \notin ToSet(work[c].turn.ids)
         /\ m \notin handled
<1>1. <<"closed", o>> \in Held(m)
  BY HeldFacts
<1>2. m \in Scheduled /\ Lined(m) = {} /\ Held(m) = {<<"closed", o>>}
  BY <1>1, HeldApart
<1>3. \A p : p \in Held(m) => p = <<"closed", o>>
  BY <1>2
<1>4. /\ <<"batch">> \in Held(m) <=> m \in ToSet(batch)
      /\ \A n \in Messages : <<"closed", n>> \in Held(m) <=> m \in ToSet(closed[n])
      /\ \A c \in Conversations : <<"work", c>> \in Held(m) <=> m \in ToSet(work[c].turn.ids)
      /\ <<"handled">> \in Held(m) <=> m \in handled
  BY HeldFacts
<1>5. /\ <<"handled">> # <<"closed", o>> /\ <<"batch">> # <<"closed", o>>
      /\ \A n : <<"work", n>> # <<"closed", o>> /\ (n # o => <<"closed", n>> # <<"closed", o>>)
  OBVIOUS
<1> QED BY <1>2, <1>3, <1>4, <1>5

(* One in the hands of a worker is nowhere else.                           *)
LEMMA InWork ==
  ASSUME OnePlace, NEW m \in Messages, NEW c \in Conversations, m \in ToSet(work[c].turn.ids)
  PROVE  /\ m \in Scheduled /\ Lined(m) = {} /\ Held(m) = {<<"work", c>>}
         /\ m \notin ToSet(batch)
         /\ \A o \in Messages : m \notin ToSet(closed[o])
         /\ \A d \in Conversations : d # c => m \notin ToSet(work[d].turn.ids)
         /\ m \notin handled
<1>1. <<"work", c>> \in Held(m)
  BY HeldFacts
<1>2. m \in Scheduled /\ Lined(m) = {} /\ Held(m) = {<<"work", c>>}
  BY <1>1, HeldApart
<1>3. \A p : p \in Held(m) => p = <<"work", c>>
  BY <1>2
<1>4. /\ <<"batch">> \in Held(m) <=> m \in ToSet(batch)
      /\ \A o \in Messages : <<"closed", o>> \in Held(m) <=> m \in ToSet(closed[o])
      /\ \A d \in Conversations : <<"work", d>> \in Held(m) <=> m \in ToSet(work[d].turn.ids)
      /\ <<"handled">> \in Held(m) <=> m \in handled
  BY HeldFacts
<1>5. /\ <<"handled">> # <<"work", c>> /\ <<"batch">> # <<"work", c>>
      /\ \A n : <<"closed", n>> # <<"work", c>> /\ (n # c => <<"work", n>> # <<"work", c>>)
  OBVIOUS
<1> QED BY <1>2, <1>3, <1>4, <1>5

(* One in a queue is nowhere else.                                         *)
LEMMA InQueue ==
  ASSUME OnePlace, NEW m \in Messages, NEW c \in Conversations, m \in Members(queues[c])
  PROVE  /\ m \in Scheduled /\ Held(m) = {} /\ Lined(m) = {<<"queued", c>>}
         /\ \A d \in Conversations : d # c => m \notin Members(queues[d])
         /\ m \notin refused
<1>1. /\ \A d \in Conversations : <<"queued", d>> \in Lined(m) <=> m \in Members(queues[d])
      /\ <<"refused">> \in Lined(m) <=> m \in refused
  BY LinedFacts
<1>2. m \in Scheduled /\ Held(m) = {} /\ Lined(m) = {<<"queued", c>>}
  BY <1>1, LinedApart
<1>3. \A p : p \in Lined(m) => p = <<"queued", c>>
  BY <1>2
<1>4. <<"refused">> # <<"queued", c>> /\ \A n : n # c => <<"queued", n>> # <<"queued", c>>
  OBVIOUS
<1> QED BY <1>1, <1>2, <1>3, <1>4

(* A message nowhere.                                                      *)
LEMMA Nowhere ==
  ASSUME NEW m, Held(m) = {}
  PROVE  /\ m \notin ToSet(batch) /\ m \notin handled
         /\ \A o \in Messages : m \notin ToSet(closed[o])
         /\ \A c \in Conversations : m \notin ToSet(work[c].turn.ids)
<1>1. /\ <<"batch">> \in Held(m) <=> m \in ToSet(batch)
      /\ \A o \in Messages : <<"closed", o>> \in Held(m) <=> m \in ToSet(closed[o])
      /\ \A d \in Conversations : <<"work", d>> \in Held(m) <=> m \in ToSet(work[d].turn.ids)
      /\ <<"handled">> \in Held(m) <=> m \in handled
  BY HeldFacts
<1>2. \A p : p \notin Held(m)
  OBVIOUS
<1> QED BY <1>1, <1>2

Placed(m) == \/ Places(m)' = Places(m) /\ (m \in Scheduled' <=> m \in Scheduled)
             \/ m \in Scheduled' /\ \E p : Places(m)' = {p}

(* After a step, too, the places are those of the two kinds.               *)
LEMMA PlacesSplitNext ==
  ASSUME NEW m
  PROVE  Places(m)' = Held(m)' \cup Lined(m)'
BY DEF Places, Held, Lined

(* Whether a message is scheduled depends on its profile alone.            *)
LEMMA ScheduledSame ==
  ASSUME NEW m \in Messages, profile'[m] = profile[m]
  PROVE  m \in Scheduled' <=> m \in Scheduled
BY DEF Scheduled, IsScheduled

(* Only what was held changes place.                                       *)
LEMMA HeldMoves ==
  ASSUME NEW m \in Messages, profile'[m] = profile[m], UNCHANGED <<queues, refused>>,
         \/ Held(m)' = Held(m)
         \/ m \in Scheduled /\ Lined(m) = {} /\ \E p : Held(m)' = {p}
  PROVE  Placed(m)
<1>1. Lined(m)' = Lined(m)
  BY LinedSame
<1>2. Places(m) = Held(m) \cup Lined(m) /\ Places(m)' = Held(m)' \cup Lined(m)'
  BY PlacesSplit, PlacesSplitNext
<1>3. m \in Scheduled' <=> m \in Scheduled
  BY ScheduledSame
<1>4. CASE Held(m)' = Held(m)
  BY <1>1, <1>2, <1>3, <1>4 DEF Placed
<1>5. CASE m \in Scheduled /\ Lined(m) = {} /\ \E p : Held(m)' = {p}
  BY <1>1, <1>2, <1>3, <1>5 DEF Placed
<1> QED BY <1>4, <1>5

(* A dispatch takes its messages from where they were held to their queue. *)
LEMMA DispatchPlaces ==
  ASSUME OnePlace, NEW b, Loose(b), NEW m \in Messages, Moves(b, m), profile' = profile,
         m \in ToSet(b) => Held(m)' = {}, m \notin ToSet(b) => Held(m)' = Held(m)
  PROVE  Placed(m)
<1>1. Places(m) = Held(m) \cup Lined(m) /\ Places(m)' = Held(m)' \cup Lined(m)'
  BY PlacesSplit, PlacesSplitNext
<1>2. m \in Scheduled' <=> m \in Scheduled
  BY ScheduledSame
<1>3. CASE m \in ToSet(b)
  <2>1. m \in Scheduled /\ \E p : Lined(m)' = {p}
    BY <1>3 DEF Loose, Moves
  <2> QED BY <1>1, <1>2, <1>3, <2>1 DEF Placed
<1>4. CASE m \notin ToSet(b) /\ Lined(m)' = Lined(m)
  BY <1>1, <1>2, <1>4 DEF Placed
<1>5. CASE m \notin ToSet(b) /\ Lined(m)' # Lined(m)
  <2>1. PICK p : \E q : Lined(m) = {p} /\ Lined(m)' = {q}
    BY <1>5 DEF Moves
  <2>2. p \in Lined(m) /\ \E q : Lined(m)' = {q}
    BY <2>1
  <2>3. m \in Scheduled /\ Held(m) = {}
    BY <2>2, LinedApart
  <2> QED BY <1>1, <1>2, <1>5, <2>2, <2>3 DEF Placed
<1> QED BY <1>3, <1>4, <1>5

(* A message found nowhere is held nowhere.                                *)
LEMMA HeldEmpty ==
  ASSUME NEW m, m \notin ToSet(batch'), m \notin handled',
         \A o \in Messages : m \notin ToSet(closed'[o]),
         \A c \in Conversations : m \notin ToSet(work'[c].turn.ids)
  PROVE  Held(m)' = {}
BY DEF Held

(* One found in the batch only is held there only.                         *)
LEMMA HeldBatch ==
  ASSUME NEW m, m \in ToSet(batch'), m \notin handled',
         \A o \in Messages : m \notin ToSet(closed'[o]),
         \A c \in Conversations : m \notin ToSet(work'[c].turn.ids)
  PROVE  Held(m)' = {<<"batch">>}
BY DEF Held

(* One found with one webhook thread only is held there only.              *)
LEMMA HeldClosed ==
  ASSUME NEW m, m \notin ToSet(batch'), m \notin handled', NEW n \in Messages,
         \A o \in Messages : m \in ToSet(closed'[o]) <=> o = n,
         \A c \in Conversations : m \notin ToSet(work'[c].turn.ids)
  PROVE  Held(m)' = {<<"closed", n>>}
BY DEF Held

(* One found with one worker only is held there only.                      *)
LEMMA HeldWork ==
  ASSUME NEW m, m \notin ToSet(batch'), m \notin handled', NEW d \in Conversations,
         \A o \in Messages : m \notin ToSet(closed'[o]),
         \A c \in Conversations : m \in ToSet(work'[c].turn.ids) <=> c = d
  PROVE  Held(m)' = {<<"work", d>>}
BY DEF Held

(* One that is only known as handled is held there only.                   *)
LEMMA HeldHandled ==
  ASSUME NEW m, m \notin ToSet(batch'), m \in handled',
         \A o \in Messages : m \notin ToSet(closed'[o]),
         \A c \in Conversations : m \notin ToSet(work'[c].turn.ids)
  PROVE  Held(m)' = {<<"handled">>}
BY DEF Held

(* A scheduled newcomer joins the batch, or closes the older one and       *)
(* carries it away.                                                        *)
LEMMA IngestPlaces ==
  ASSUME TurnsTypeOK, OnePlace, ThreadsOK, NEW n \in Messages, NEW p \in Profiles,
         NEW late \in BOOLEAN, Ingest(n, p, late), NEW m \in Messages
  PROVE  Placed(m)
<1>1. /\ profile \in [Messages -> Profiles \cup {None}]
      /\ closed \in [Messages -> Seq(Messages)] /\ batch \in Seq(Messages)
      /\ None \notin Profiles
  BY TurnsAssumption DEF TurnsTypeOK
<1>2. /\ thread[n] = "new" /\ profile' = [profile EXCEPT ![n] = p] /\ profile[n] = None
      /\ closed[n] = <<>>
      /\ UNCHANGED <<queues, refused, work, handled>>
  BY DEF Ingest, ThreadsOK, turns
<1>3. \/ p.kind = "chat" /\ UNCHANGED <<batch, closed>>
      \/ p.kind # "chat" /\ batch' = <<n>> /\ closed' = [closed EXCEPT ![n] = batch]
      \/ p.kind # "chat" /\ batch' = Append(batch, n) /\ closed' = closed
  <2>1. CASE p.kind = "chat"
    BY <2>1 DEF Ingest
  <2>2. CASE p.kind # "chat" /\ Closes(p, late)
    BY <2>2 DEF Ingest
  <2>3. CASE p.kind # "chat" /\ ~Closes(p, late)
    BY <2>3 DEF Ingest
  <2> QED BY <2>1, <2>2, <2>3
<1>4. ToSet(<<n>>) = {n} /\ ToSet(<<>>) = {} /\ ToSet(Append(batch, n)) = ToSet(batch) \cup {n}
  <2>1. ToSet(<<n>>) = {n} /\ ToSet(<<>>) = {}
    BY DEF ToSet
  <2>2. ToSet(Append(batch, n)) = ToSet(batch) \cup {n}
    BY <1>1, AppendFacts
  <2> QED BY <2>1, <2>2
<1>5. CASE m = n
  <2>1. m \notin Scheduled /\ Places(m) = {}
    BY <1>2, <1>5 DEF Scheduled, OnePlace
  <2>2. Held(m) = {} /\ Lined(m) = {} /\ Lined(m)' = {}
    BY <1>2, <2>1, PlacesSplit, LinedSame
  <2>3. profile'[m] = p
    BY <1>1, <1>2, <1>5
  <2>4. CASE p.kind = "chat"
    <3>1. m \notin Scheduled'
      BY <2>3, <2>4 DEF Scheduled, IsScheduled
    <3>2. Held(m)' = Held(m)
      BY <1>2, <1>3, <2>4, HeldSame
    <3> QED BY <2>1, <2>2, <3>1, <3>2, PlacesSplitNext DEF Placed
  <2>5. CASE p.kind # "chat"
    <3>1. m \in Scheduled'
      BY <1>1, <2>3, <2>5 DEF Scheduled, IsScheduled
    <3>2. /\ m \notin ToSet(batch) /\ m \notin handled
          /\ \A o \in Messages : m \notin ToSet(closed[o])
          /\ \A c \in Conversations : m \notin ToSet(work[c].turn.ids)
      BY <2>2, Nowhere
    <3>3. \A o \in Messages : closed'[o] = closed[o] \/ closed'[o] = batch
      BY <1>1, <1>3, <2>5
    <3>4. \A o \in Messages : m \notin ToSet(closed'[o])
      BY <3>2, <3>3
    <3>5. m \in ToSet(batch')
      BY <1>3, <1>4, <1>5, <2>5
    <3>6. Held(m)' = {<<"batch">>}
      BY <1>2, <3>2, <3>4, <3>5, HeldBatch
    <3> QED BY <2>2, <3>1, <3>6, PlacesSplitNext DEF Placed
  <2> QED BY <2>4, <2>5
<1>6. CASE m # n
  <2>1. profile'[m] = profile[m]
    BY <1>1, <1>2, <1>6
  <2>2. ASSUME closed' = closed, m \in ToSet(batch') <=> m \in ToSet(batch)
        PROVE  Placed(m)
    BY <1>2, <2>1, <2>2, HeldSame, HeldMoves
  <2>3. ASSUME batch' = <<n>>, closed' = [closed EXCEPT ![n] = batch]
        PROVE  Placed(m)
    <3>1. /\ closed'[n] = batch /\ closed[n] = <<>> /\ m \notin ToSet(batch')
          /\ \A o \in Messages : o # n => closed'[o] = closed[o]
      BY <1>1, <1>2, <1>4, <1>6, <2>3
    <3>2. CASE m \in ToSet(batch)
      <4>1. /\ m \in Scheduled /\ Lined(m) = {} /\ m \notin handled
            /\ \A o \in Messages : m \notin ToSet(closed[o])
            /\ \A c \in Conversations : m \notin ToSet(work[c].turn.ids)
        BY <3>2, InBatch
      <4>2. Held(m)' = {<<"closed", n>>}
        BY <1>2, <3>1, <3>2, <4>1, HeldClosed
      <4> QED BY <1>2, <2>1, <4>1, <4>2, HeldMoves
    <3>3. CASE m \notin ToSet(batch)
      <4>1. \A o \in Messages : m \in ToSet(closed'[o]) <=> m \in ToSet(closed[o])
        BY <1>4, <3>1, <3>3
      <4>2. Held(m)' = Held(m)
        BY <1>2, <3>1, <3>3, <4>1, HeldSame
      <4> QED BY <1>2, <2>1, <4>2, HeldMoves
    <3> QED BY <3>2, <3>3
  <2> QED BY <1>3, <1>4, <1>6, <2>2, <2>3
<1> QED BY <1>5, <1>6

(* A webhook thread hands over the batch it carries.                       *)
LEMMA SubmitPlaces ==
  ASSUME TurnsTypeOK, OnePlace, AmbientWaits, TurnsApart, NEW n \in Messages, Submit(n),
         NEW m \in Messages
  PROVE  Placed(m)
<1>1. /\ closed \in [Messages -> Seq(Messages)] /\ Append(arrived, n) \in Seq(Messages)
  BY AppendFacts DEF TurnsTypeOK
<1>2. /\ closed' = [closed EXCEPT ![n] = <<>>] /\ Dispatch(closed[n], Append(arrived, n))
      /\ UNCHANGED <<profile, batch, work, handled>>
  BY DEF Submit, ClosedBy
<1>3. Loose(closed[n])
  BY BatchLoose
<1>4. Moves(closed[n], m)
  BY <1>1, <1>2, <1>3, DispatchLined
<1>5. ToSet(<<>>) = {} /\ closed'[n] = <<>> /\ \A o \in Messages : o # n => closed'[o] = closed[o]
  BY <1>1, <1>2 DEF ToSet
<1>6. m \in ToSet(closed[n]) => Held(m)' = {}
  <2> SUFFICES ASSUME m \in ToSet(closed[n]) PROVE Held(m)' = {}
    OBVIOUS
  <2>1. /\ m \notin ToSet(batch) /\ m \notin handled
        /\ \A o \in Messages : o # n => m \notin ToSet(closed[o])
        /\ \A c \in Conversations : m \notin ToSet(work[c].turn.ids)
    BY InClosed
  <2> QED BY <1>2, <1>5, <2>1, HeldEmpty
<1>7. m \notin ToSet(closed[n]) => Held(m)' = Held(m)
  BY <1>2, <1>5, HeldSame
<1> QED BY <1>2, <1>3, <1>4, <1>6, <1>7, DispatchPlaces

(* A flush hands over the open batch.                                      *)
LEMMA FlushPlaces ==
  ASSUME TurnsTypeOK, OnePlace, AmbientWaits, TurnsApart, FlushBatch, NEW m \in Messages
  PROVE  Placed(m)
<1>1. /\ batch' = <<>> /\ Dispatch(batch, arrived)
      /\ UNCHANGED <<profile, closed, work, handled>>
  BY DEF FlushBatch
<1>2. Loose(batch) /\ arrived \in Seq(Messages)
  BY BatchLoose DEF TurnsTypeOK
<1>3. Moves(batch, m)
  BY <1>1, <1>2, DispatchLined
<1>4. ToSet(<<>>) = {}
  BY DEF ToSet
<1>5. m \in ToSet(batch) => Held(m)' = {}
  BY <1>1, <1>4, InBatch, HeldEmpty
<1>6. m \notin ToSet(batch) => Held(m)' = Held(m)
  BY <1>1, <1>4, HeldSame
<1> QED BY <1>1, <1>2, <1>3, <1>5, <1>6, DispatchPlaces

(* A worker takes the messages of the first turn of its queue.             *)
LEMMA TakePlaces ==
  ASSUME TurnsTypeOK, OnePlace, TurnsApart, DrainsOK, NEW c \in Conversations, Take(c),
         NEW m \in Messages
  PROVE  Placed(m)
<1> DEFINE q == queues[c]
           h == Head(q)
<1>1. /\ queues \in [Conversations -> Seq(Turns)] /\ work \in [Conversations -> WorkItem]
      /\ q \in Seq(Turns) /\ q # <<>>
  BY DEF TurnsTypeOK, WorkItem, Take
<1>2. /\ drain[c] = "loop" /\ work'[c].turn = h /\ queues'[c] = Tail(q)
      /\ \A d \in Conversations : d # c => work'[d] = work[d] /\ queues'[d] = queues[d]
      /\ UNCHANGED <<profile, batch, closed, handled, refused>>
  BY <1>1 DEF Take, Idle, inbox
<1>3. ToSet(work[c].turn.ids) = {}
  BY <1>2 DEF DrainsOK, Busy, Idle, NoTurn, ToSet
<1>4. /\ h = q[1] /\ 1 \in DOMAIN q
      /\ \A i \in DOMAIN Tail(q) : i + 1 \in DOMAIN q /\ Tail(q)[i] = q[i + 1]
      /\ \A i \in DOMAIN q : i # 1 => i - 1 \in DOMAIN Tail(q)
      /\ Tail(q) \in Seq(Turns)
  BY <1>1, TailFacts
<1>5. DOMAIN Tail(q) \subseteq Nat \ {0} /\ DOMAIN q \subseteq Nat
  BY <1>1, <1>4, LenProperties
<1>6. \A i, j \in DOMAIN q : i # j => ToSet(q[i].ids) \cap ToSet(q[j].ids) = {}
  BY DEF TurnsApart
<1>7. /\ m \in Members(q) <=> \E i \in DOMAIN q : m \in ToSet(q[i].ids)
      /\ m \in Members(Tail(q)) <=> \E i \in DOMAIN Tail(q) : m \in ToSet(Tail(q)[i].ids)
  BY DEF Members
<1> HIDE DEF q, h
<1>8. m \in Members(Tail(q)) => m \in Members(q) /\ m \notin ToSet(h.ids)
  <2> SUFFICES ASSUME NEW i \in DOMAIN Tail(q), m \in ToSet(Tail(q)[i].ids)
               PROVE  m \in Members(q) /\ m \notin ToSet(h.ids)
    BY <1>7
  <2>1. i + 1 \in DOMAIN q /\ Tail(q)[i] = q[i + 1] /\ i + 1 # 1
    BY <1>4, <1>5
  <2> QED BY <1>4, <1>6, <1>7, <2>1
<1>9. m \in Members(q) /\ m \notin ToSet(h.ids) => m \in Members(Tail(q))
  <2> SUFFICES ASSUME NEW i \in DOMAIN q, m \in ToSet(q[i].ids), m \notin ToSet(h.ids)
               PROVE  m \in Members(Tail(q))
    BY <1>7
  <2>1. i # 1 /\ i - 1 \in DOMAIN Tail(q)
    BY <1>4
  <2>2. Tail(q)[i - 1] = q[i]
    <3>1. (i - 1) + 1 = i
      BY <1>5
    <3> QED BY <1>4, <2>1, <3>1
  <2> QED BY <1>7, <2>1, <2>2
<1>10. Places(m) = Held(m) \cup Lined(m) /\ Places(m)' = Held(m)' \cup Lined(m)'
  BY PlacesSplit, PlacesSplitNext
<1>11. m \in Scheduled' <=> m \in Scheduled
  BY <1>2, ScheduledSame
<1>12. CASE m \in ToSet(h.ids)
  <2>1. m \in Members(queues[c])
    BY <1>4, <1>7, <1>12 DEF q
  <2>2. /\ m \in Scheduled /\ Held(m) = {} /\ m \notin refused
        /\ \A d \in Conversations : d # c => m \notin Members(queues[d])
    BY <2>1, InQueue
  <2>3. \A d \in Conversations : m \notin Members(queues'[d])
    BY <1>2, <1>8, <1>12, <2>2
  <2>4. Lined(m)' = {}
    BY <1>2, <2>2, <2>3 DEF Lined
  <2>5. Held(m)' = {<<"work", c>>}
    <3>1. /\ m \notin ToSet(batch) /\ m \notin handled
          /\ \A o \in Messages : m \notin ToSet(closed[o])
          /\ \A d \in Conversations : m \notin ToSet(work[d].turn.ids)
      BY <2>2, Nowhere
    <3> QED BY <1>2, <1>12, <3>1, HeldWork
  <2> QED BY <1>10, <1>11, <2>2, <2>4, <2>5 DEF Placed
<1>13. CASE m \notin ToSet(h.ids)
  <2>1. Held(m)' = Held(m)
    BY <1>2, <1>3, <1>13, HeldSame
  <2>2. \A d \in Conversations : m \in Members(queues'[d]) <=> m \in Members(queues[d])
    BY <1>2, <1>8, <1>9, <1>13 DEF q
  <2>3. Lined(m)' = Lined(m)
    BY <1>2, <2>2, LinedSame
  <2> QED BY <1>10, <1>11, <2>1, <2>3 DEF Placed
<1> QED BY <1>12, <1>13

(* A worker is done with the messages of its turn.                         *)
LEMMA FinishPlaces ==
  ASSUME TurnsTypeOK, OnePlace, NEW c \in Conversations, Finish(c), NEW m \in Messages
  PROVE  Placed(m)
<1>1. work \in [Conversations -> WorkItem]
  BY DEF TurnsTypeOK, WorkItem
<1>2. /\ work'[c] = Idle /\ \A d \in Conversations : d # c => work'[d] = work[d]
      /\ handled' = handled \cup ToSet(work[c].turn.ids)
      /\ UNCHANGED <<profile, batch, closed, queues, refused>>
  BY <1>1 DEF Finish, inbox
<1>3. ToSet(work'[c].turn.ids) = {}
  BY <1>2 DEF Idle, NoTurn, ToSet
<1>4. CASE m \in ToSet(work[c].turn.ids)
  <2>1. /\ m \in Scheduled /\ Lined(m) = {} /\ m \notin ToSet(batch)
        /\ \A o \in Messages : m \notin ToSet(closed[o])
        /\ \A d \in Conversations : d # c => m \notin ToSet(work[d].turn.ids)
    BY <1>4, InWork
  <2>2. \A d \in Conversations : m \notin ToSet(work'[d].turn.ids)
    BY <1>2, <1>3, <2>1
  <2>3. Held(m)' = {<<"handled">>}
    BY <1>2, <1>4, <2>1, <2>2, HeldHandled
  <2> QED BY <1>2, <2>1, <2>3, HeldMoves
<1>5. CASE m \notin ToSet(work[c].turn.ids)
  <2>1. Held(m)' = Held(m)
    BY <1>2, <1>3, <1>5, HeldSame
  <2> QED BY <1>2, <2>1, HeldMoves
<1> QED BY <1>4, <1>5

(* Through every step each scheduled message is in one place.              *)
LEMMA OnePlaceStep ==
  ASSUME TurnsTypeOK, OnePlace, ThreadsOK, AmbientWaits, TurnsApart, DrainsOK, [Next]_vars
  PROVE  OnePlace'
<1>1. ASSUME NEW m \in Messages
      PROVE  Placed(m)
  <2>1. ASSUME NEW c \in Conversations, Answer(c)
        PROVE  Placed(m)
    <3>1. /\ UNCHANGED <<profile, batch, closed, handled, queues, refused>>
          /\ \E w \in WorkItem : w.turn = work[c].turn /\ work' = [work EXCEPT ![c] = w]
      BY <2>1, AnswerStep DEF Answers, inbox, turns
    <3>2. \A d \in Conversations : work'[d].turn = work[d].turn
      BY <3>1 DEF TurnsTypeOK
    <3>3. Held(m)' = Held(m)
      BY <3>1, <3>2, HeldSame
    <3> QED BY <3>1, <3>3, HeldMoves
  <2>2. ASSUME UNCHANGED <<profile, batch, closed, work, handled, queues, refused>>
        PROVE  Placed(m)
    <3>1. Held(m)' = Held(m)
      BY <2>2, HeldSame
    <3> QED BY <2>2, <3>1, HeldMoves
  <2>3. Fire \/ CloseShutdown \/ Serve \/ UNCHANGED vars =>
            UNCHANGED <<profile, batch, closed, work, handled, queues, refused>>
    BY DEF Fire, CloseShutdown, Serve, vars, inbox, turns
  <2>4. \A c \in Conversations : Leave(c) \/ Forget(c) =>
            UNCHANGED <<profile, batch, closed, work, handled, queues, refused>>
    BY DEF Leave, Forget, inbox
  <2>5. \A n \in Messages : Webhook(n) => Placed(m)
    BY IngestPlaces, SubmitPlaces DEF Webhook
  <2>6. Flush \/ CloseFlush => Placed(m)
    BY FlushPlaces DEF Flush, CloseFlush
  <2>7. \A c \in Conversations : Drain(c) => Placed(m)
    BY <2>2, <2>4, TakePlaces, FinishPlaces DEF Drain
  <2> QED BY <2>1, <2>2, <2>3, <2>5, <2>6, <2>7 DEF Next
<1>2. ASSUME NEW m \in Messages
      PROVE  IF m \in Scheduled' THEN \E p : Places(m)' = {p} ELSE Places(m)' = {}
  <2>1. CASE Places(m)' = Places(m) /\ (m \in Scheduled' <=> m \in Scheduled)
    BY <2>1 DEF OnePlace
  <2>2. CASE m \in Scheduled' /\ \E p : Places(m)' = {p}
    BY <2>2
  <2> QED BY <1>1, <2>1, <2>2 DEF Placed
<1> QED BY <1>2 DEF OnePlace

-----------------------------------------------------------------------------
(* Whom the dispatcher turns away *)

(* A shut executor stays shut.                                             *)
LEMMA StageKept ==
  ASSUME [Next]_vars, stage = "shut"
  PROVE  stage' = "shut"
<1>1. \A m \in Messages : Webhook(m) => stage' = stage
  BY DEF Webhook, Ingest, Submit
<1>2. Fire \/ Flush \/ Serve \/ UNCHANGED vars => stage' = stage
  BY DEF Fire, Flush, Serve, vars
<1>3. \A c \in Conversations : Drain(c) \/ Answer(c) => stage' = stage
  BY DEF Drain, Take, Leave, Forget, Finish, Answer, Decide, Draft, Clarify, Read, Acknowledge,
         Publish, Send, Rest
<1>4. ~CloseFlush /\ ~CloseShutdown
  BY DEF CloseFlush, CloseShutdown
<1> QED BY <1>1, <1>2, <1>3, <1>4 DEF Next

(* The limits refuse, and newer candidates replace, nobody who called.     *)
LEMMA RefusedStep ==
  ASSUME TurnsTypeOK, OnePlace, ThreadsOK, AmbientWaits, ModesOK, RefusedOK, [Next]_vars
  PROVE  RefusedOK'
<1>1. refused \subseteq Messages
  BY DEF TurnsTypeOK
<1>2. \A m \in refused : m \in Scheduled
  BY <1>1, LinedFacts, LinedApart
<1>3. ASSUME NEW b, Loose(b), NEW arr \in Seq(Messages), Dispatch(b, arr),
             NEW m \in refused', m \notin refused
      PROVE  m \in Scheduled /\ (IsExplicit(m) => stage = "shut")
  <2>1. b \in Seq(Messages) /\ ToSet(b) \subseteq Scheduled
    BY <1>3 DEF Loose
  <2>2. ASSUME Mode(b) = "autonomous", refused' = refused \cup ToSet(b)
        PROVE  m \in Scheduled /\ ~IsExplicit(m)
    BY <1>3, <2>1, <2>2 DEF Mode
  <2>3. ASSUME NEW c \in Conversations, NEW t \in Turns, Accept(c, t)
        PROVE  m \in Scheduled /\ ~IsExplicit(m)
    <3>1. \E i \in Obsolete(c, t) : m \in ToSet(queues[c][i].ids)
      BY <1>3, <2>3 DEF Accept
    <3>2. PICK i \in Obsolete(c, t) : m \in ToSet(queues[c][i].ids)
      BY <3>1
    <3>3. i \in DOMAIN queues[c] /\ Ambient(queues[c][i])
      BY DEF Obsolete
    <3>4. m \in Scheduled
      BY <3>2, <3>3, QueuedScheduled
    <3>5. Mode(queues[c][i].ids) = "autonomous"
      BY <3>3 DEF ModesOK, Ambient
    <3>6. ~IsExplicit(m)
      BY <3>2, <3>5 DEF Mode
    <3> QED BY <3>4, <3>6
  <2>4. ASSUME NEW c \in Conversations, NEW t \in Turns, Turned(b, t, c), Reject(c, t)
        PROVE  m \in Scheduled
    BY <1>3, <2>1, <2>4 DEF Reject, Turned
  <2> QED BY <1>3, <2>1, <2>2, <2>3, <2>4, DispatchCases DEF turns
<1>4. ASSUME NEW m \in refused', m \notin refused
      PROVE  m \in Scheduled /\ (IsExplicit(m) => stage = "shut")
  <2>1. \A c \in Conversations : Drain(c) \/ Answers(c) => refused' = refused
    BY DEF Drain, Take, Leave, Forget, Finish, Answers, turns
  <2>2. Serve \/ UNCHANGED turns => refused' = refused
    BY DEF Serve, turns
  <2> QED BY <1>3, <1>4, <2>1, <2>2, TurnsStep
<1>5. ASSUME NEW m \in refused', IsExplicit(m)'
      PROVE  stage' = "shut"
  <2>1. m \in Scheduled /\ (IsExplicit(m) => stage = "shut")
    BY <1>2, <1>4 DEF RefusedOK
  <2>2. IsExplicit(m)
    BY <1>5, <2>1, ScheduledKept
  <2> QED BY <2>1, <2>2, StageKept
<1> QED BY <1>5 DEF RefusedOK

-----------------------------------------------------------------------------
(* The revisions of the turns *)

(* A call that queues up behind an ambient turn in progress is known to it *)
(* by its revision.                                                        *)
LEMMA RevisionsStep ==
  ASSUME TurnsTypeOK, OnePlace, AmbientWaits, DrainsOK, RevisionsOK, [Next]_vars
  PROVE  RevisionsOK'
<1>1. /\ queues \in [Conversations -> Seq(Turns)] /\ work \in [Conversations -> WorkItem]
      /\ revisions \in [Conversations -> Revision]
      /\ drain \in [Conversations -> {"none", "waiting", "loop", "busy"}]
  BY DEF TurnsTypeOK, WorkItem, Revision
<1>2. \A c \in Conversations : revisions[c].last \in Nat /\ revisions[c].explicit \in Nat
  BY <1>1 DEF Revision
<1>3. \A c \in Conversations : work[c].turn.rev \in Nat
  BY <1>1 DEF WorkItem, Turns
<1>4. \A c \in Conversations : \A i \in DOMAIN queues[c] : queues[c][i] \in Turns
  BY <1>1, ElementOfSeq, LenProperties
<1> DEFINE Fine(q, r, t, d) ==
              /\ \A i \in DOMAIN q : q[i].rev <= r.last
              /\ d = "busy" => t.rev <= r.last
              /\ d = "busy" /\ Ambient(t) =>
                    \A i \in DOMAIN q : Explicit(q[i]) => r.explicit > t.rev
<1>5. \A c \in Conversations : Fine(queues[c], revisions[c], work[c].turn, drain[c])
  BY DEF RevisionsOK, Busy
<1> DEFINE Next1(c) == Fine(queues'[c], revisions'[c], work'[c].turn, drain'[c])
<1>6. ASSUME NEW c \in Conversations, queues'[c] = queues[c], revisions'[c] = revisions[c],
             work'[c].turn = work[c].turn, drain'[c] = "busy" => drain[c] = "busy"
      PROVE  Next1(c)
  BY <1>5, <1>6
<1>7. ASSUME NEW c \in Conversations, queues'[c] = <<>>, drain'[c] # "busy"
      PROVE  Next1(c)
  BY <1>7
<1>8. ASSUME NEW c \in Conversations, NEW t \in Turns, NEW b \in Seq(Messages),
             Admits(c, t, b), UNCHANGED work
      PROVE  Next1(c)
  <2> DEFINE gone == Obsolete(c, t)
  <2>1. \E at, from : Came(queues[c], t, gone, queues'[c], at, from)
    BY <1>8, AcceptQueue DEF Admits
  <2> HIDE DEF gone
  <2>2. PICK at, from : Came(queues[c], t, gone, queues'[c], at, from)
    BY <2>1
  <2>3. \A i \in DOMAIN queues'[c] :
            queues'[c][i] = t \/ \E j \in DOMAIN queues[c] : queues'[c][i] = queues[c][j]
    BY <2>2 DEF Came
  <2>4. /\ t.rev = revisions[c].last + 1 /\ t.rev \in Nat
        /\ revisions'[c] = [last |-> t.rev,
               explicit |-> IF Explicit(t) THEN t.rev ELSE revisions[c].explicit]
    BY <1>1, <1>8 DEF Admits, Turned, Accept, Turns
  <2>5. drain'[c] = "busy" => drain[c] = "busy"
    BY <1>1, <1>8 DEF Admits, Accept
  <2>6. ASSUME NEW i \in DOMAIN queues'[c]
        PROVE  queues'[c][i].rev <= revisions'[c].last
    <3>1. CASE queues'[c][i] = t
      BY <2>4, <3>1
    <3>2. ASSUME NEW j \in DOMAIN queues[c], queues'[c][i] = queues[c][j]
          PROVE  queues'[c][i].rev <= revisions'[c].last
      <4>1. queues[c][j].rev \in Nat /\ queues[c][j].rev <= revisions[c].last
        BY <1>4, <1>5 DEF Turns
      <4> QED BY <1>2, <2>4, <3>2, <4>1
    <3> QED BY <2>3, <3>1, <3>2
  <2>7. drain'[c] = "busy" => work'[c].turn.rev <= revisions'[c].last
    <3>1. drain'[c] = "busy" => work[c].turn.rev <= revisions[c].last
      BY <1>5, <2>5
    <3> QED BY <1>2, <1>3, <1>8, <2>4, <3>1
  <2>8. ASSUME drain'[c] = "busy", Ambient(work[c].turn), NEW i \in DOMAIN queues'[c],
               Explicit(queues'[c][i])
        PROVE  revisions'[c].explicit > work[c].turn.rev
    <3>1. work[c].turn.rev <= revisions[c].last
      BY <1>5, <2>5, <2>8
    <3>2. CASE Explicit(t)
      BY <1>2, <1>3, <2>4, <3>1, <3>2
    <3>3. CASE ~Explicit(t)
      <4>1. PICK j \in DOMAIN queues[c] : queues'[c][i] = queues[c][j]
        BY <2>3, <2>8, <3>3
      <4>2. revisions[c].explicit > work[c].turn.rev
        BY <1>5, <2>5, <2>8, <4>1
      <4> QED BY <2>4, <3>3, <4>2
    <3> QED BY <3>2, <3>3
  <2>9. drain'[c] = "busy" /\ Ambient(work'[c].turn) =>
            \A i \in DOMAIN queues'[c] :
                Explicit(queues'[c][i]) => revisions'[c].explicit > work'[c].turn.rev
    BY <1>8, <2>8
  <2> QED BY <2>6, <2>7, <2>9
<1>9. ASSUME NEW c \in Conversations, Take(c)
      PROVE  Next1(c)
  <2>1. /\ queues'[c] = Tail(queues[c]) /\ queues[c] # <<>> /\ revisions' = revisions
        /\ work'[c].turn = Head(queues[c])
    BY <1>1, <1>9 DEF Take, Idle
  <2>2. /\ Head(queues[c]) = queues[c][1] /\ 1 \in DOMAIN queues[c]
        /\ Len(Tail(queues[c])) = Len(queues[c]) - 1 /\ Tail(queues[c]) \in Seq(Turns)
        /\ \A i \in DOMAIN Tail(queues[c]) :
              i + 1 \in DOMAIN queues[c] /\ Tail(queues[c])[i] = queues[c][i + 1]
    BY <1>1, <2>1, TailFacts
  <2>3. \A i \in DOMAIN queues'[c] : queues'[c][i].rev <= revisions'[c].last
    BY <1>5, <2>1, <2>2
  <2>4. work'[c].turn.rev <= revisions'[c].last
    BY <1>5, <2>1, <2>2
  <2>5. Ambient(work'[c].turn) => DOMAIN queues'[c] = {}
    <3>1. Ambient(work'[c].turn) => Len(queues[c]) = 1
      BY <2>1, <2>2 DEF AmbientWaits
    <3>2. DOMAIN Tail(queues[c]) = 1..Len(Tail(queues[c]))
      BY <2>2, LenProperties
    <3> QED BY <2>1, <2>2, <3>1, <3>2
  <2> QED BY <2>3, <2>4, <2>5
<1> HIDE DEF Fine
<1>10. ASSUME NEW c \in Conversations
       PROVE  Next1(c)
  <2>1. CASE UNCHANGED <<queues, revisions, drain, work>>
    BY <1>6, <2>1
  <2>2. ASSUME NEW d \in Conversations, Answers(d),
               UNCHANGED <<queues, revisions, drain>>
        PROVE  Next1(c)
    <3>1. work'[c].turn = work[c].turn
      BY <1>1, <2>2 DEF Answers
    <3> QED BY <1>6, <2>2, <3>1
  <2>3. ASSUME NEW d \in Conversations, NEW t \in Turns, NEW b \in Seq(Messages),
               Admits(d, t, b), UNCHANGED work
        PROVE  Next1(c)
    <3>1. CASE d = c
      BY <1>8, <2>3, <3>1
    <3>2. CASE d # c
      <4>1. queues'[c] = queues[c] /\ revisions'[c] = revisions[c] /\ drain'[c] = drain[c]
        BY <1>1, <2>3, <3>2 DEF Admits, Accept
      <4> QED BY <1>6, <2>3, <4>1
    <3> QED BY <3>1, <3>2
  <2>4. ASSUME NEW d \in Conversations, drain[d] = "none",
               revisions' = [revisions EXCEPT ![d] = [last |-> 0, explicit |-> 0]],
               UNCHANGED <<queues, drain, work>>
        PROVE  Next1(c)
    <3>1. CASE d = c
      <4>1. queues'[c] = <<>> /\ drain'[c] # "busy"
        BY <2>4, <3>1 DEF DrainsOK
      <4> QED BY <1>7, <4>1
    <3>2. CASE d # c
      BY <1>1, <1>6, <2>4, <3>2
    <3> QED BY <3>1, <3>2
  <2>5. ASSUME NEW d \in Conversations, NEW t \in Turns, d \notin running, Reject(d, t),
               UNCHANGED work
        PROVE  Next1(c)
    <3>1. drain[d] = "none"
      BY <1>1, <2>5 DEF DrainsOK
    <3> QED BY <2>4, <2>5, <3>1 DEF Reject
  <2>6. ASSUME NEW d \in Conversations, Forget(d)
        PROVE  Next1(c)
    <3>1. drain[d] = "none"
      BY <2>6 DEF DrainsOK, Forget
    <3> QED BY <2>4, <2>6, <3>1 DEF Forget
  <2>7. CASE Serve
    <3>1. drain'[c] = "busy" => drain[c] = "busy"
      BY <1>1, <2>7 DEF Serve
    <3> QED BY <1>6, <2>7, <3>1 DEF Serve
  <2>8. ASSUME NEW d \in Conversations, Leave(d)
        PROVE  Next1(c)
    <3>1. drain'[c] = "busy" => drain[c] = "busy"
      BY <1>1, <2>8 DEF Leave
    <3> QED BY <1>6, <2>8, <3>1 DEF Leave
  <2>9. ASSUME NEW d \in Conversations, Take(d)
        PROVE  Next1(c)
    <3>1. d # c => /\ queues'[c] = queues[c] /\ work'[c] = work[c] /\ drain'[c] = drain[c]
                   /\ revisions' = revisions
      BY <1>1, <2>9 DEF Take
    <3> QED BY <1>6, <1>9, <2>9, <3>1
  <2>10. ASSUME NEW d \in Conversations, Finish(d)
         PROVE  Next1(c)
    <3>1. CASE d # c
      <4>1. work'[c] = work[c] /\ drain'[c] = drain[c] /\ UNCHANGED <<queues, revisions>>
        BY <1>1, <2>10, <3>1 DEF Finish
      <4> QED BY <1>6, <4>1
    <3>2. CASE d = c
      <4>1. drain'[c] = "loop" /\ UNCHANGED <<queues, revisions>>
        BY <1>1, <2>10, <3>2 DEF Finish
      <4> QED BY <1>5, <4>1 DEF Fine
    <3> QED BY <3>1, <3>2
  <2> QED BY <2>1, <2>2, <2>3, <2>5, <2>6, <2>7, <2>8, <2>9, <2>10, TurnsCases DEF Drain
<1> QED BY <1>10 DEF Fine, RevisionsOK, Busy

-----------------------------------------------------------------------------
(* What the reviewer was shown *)

(* Sequence numbers are positions among the arrivals.                      *)
LEMMA SequencesFacts ==
  ASSUME TurnsTypeOK, NEW c
  PROVE  \A i \in Sequences(c, arrived) : i \in Nat \ {0} /\ i <= Len(arrived) /\ i \in DOMAIN arrived
BY LenProperties DEF TurnsTypeOK, Sequences

(* The sequence numbers of a conversation only grow.                       *)
LEMMA SequencesGrow ==
  ASSUME TurnsTypeOK, ThreadsOK, ArrivedOK, [Next]_vars, NEW c \in Conversations
  PROVE  /\ Len(arrived') \in Nat /\ Len(arrived) <= Len(arrived')
         /\ Sequences(c, arrived) \subseteq Sequences(c, arrived)'
         /\ \A i \in Sequences(c, arrived)' : i \in Sequences(c, arrived) \/ i > Len(arrived)
         /\ \A i \in Sequences(c, arrived)' : i \in Nat
<1>1. arrived \in Seq(Messages) /\ Len(arrived) \in Nat /\ DOMAIN arrived = 1..Len(arrived)
  BY LenProperties DEF TurnsTypeOK
<1>2. \/ arrived' = arrived
      \/ \E m \in Messages : arrived' = Append(arrived, m)
  <2>1. \A m \in Messages : Webhook(m) => arrived' = arrived \/ arrived' = Append(arrived, m)
    BY DEF Webhook, Ingest, Submit
  <2>2. Fire \/ Flush \/ CloseFlush \/ CloseShutdown \/ Serve \/ UNCHANGED vars => arrived' = arrived
    BY DEF Fire, Flush, CloseFlush, FlushBatch, CloseShutdown, Serve, vars, inbox
  <2>3. \A d \in Conversations : Drain(d) \/ Answer(d) => arrived' = arrived
    BY AnswerStep DEF Drain, Take, Leave, Forget, Finish, Answers, inbox
  <2> QED BY <2>1, <2>2, <2>3 DEF Next
<1>3. /\ Len(arrived') \in Nat /\ Len(arrived) <= Len(arrived') /\ DOMAIN arrived' = 1..Len(arrived')
      /\ \A i \in DOMAIN arrived : arrived'[i] = arrived[i]
  <2>1. CASE arrived' = arrived
    BY <1>1, <2>1
  <2>2. ASSUME NEW m \in Messages, arrived' = Append(arrived, m)
        PROVE  /\ Len(arrived') \in Nat /\ Len(arrived) <= Len(arrived')
               /\ DOMAIN arrived' = 1..Len(arrived')
               /\ \A i \in DOMAIN arrived : arrived'[i] = arrived[i]
    <3>1. /\ DOMAIN arrived' = 1..(Len(arrived) + 1) /\ Len(arrived') = Len(arrived) + 1
          /\ \A i \in DOMAIN arrived : arrived'[i] = arrived[i]
      BY <1>1, <2>2, AppendFacts
    <3> QED BY <1>1, <3>1
  <2> QED BY <1>2, <2>1, <2>2
<1>4. \A i \in DOMAIN arrived : arrived[i] \in Messages /\ profile[arrived[i]] # None
  <2>1. \A i \in DOMAIN arrived : arrived[i] \in Messages
    BY <1>1, ElementOfSeq
  <2> QED BY <2>1 DEF ArrivedOK, ThreadsOK
<1>5. \A i \in DOMAIN arrived : Conv(arrived[i])' = Conv(arrived[i])
  <2> TAKE i \in DOMAIN arrived
  <2>1. profile'[arrived[i]] = profile[arrived[i]]
    BY <1>4, ProfileKept
  <2> QED BY <1>3, <2>1 DEF Conv
<1>6. Sequences(c, arrived) \subseteq Sequences(c, arrived)'
  BY <1>1, <1>3, <1>5 DEF Sequences
<1>7. \A i \in Sequences(c, arrived)' : i \in Sequences(c, arrived) \/ i > Len(arrived)
  BY <1>1, <1>3, <1>5 DEF Sequences
<1>8. \A i \in Sequences(c, arrived)' : i \in Nat
  BY <1>3 DEF Sequences
<1> QED BY <1>3, <1>6, <1>7, <1>8

(* What an ambient turn still finds in the window is all that came after   *)
(* it, if nothing that came after it has been dropped.                     *)
LEMMA LaterIsNewer ==
  ASSUME TurnsTypeOK, NEW c \in Conversations, Readable(c)
  PROVE  Later(c) = Newer(c, arrived, work[c].turn.origin)
<1> DEFINE S == Sequences(c, arrived)
           gone == S \ Window(c)
           o == work[c].turn.origin
<1>1. o \in Nat
  BY DEF TurnsTypeOK, Turns
<1>2. Window(c) \subseteq S /\ \A i \in S : i \in Nat /\ i <= Len(arrived)
  BY SequencesFacts DEF Window
<1>3. Floor(c) = IF gone = {} THEN 0 ELSE Max(gone)
  BY DEF Floor
<1>4. Floor(c) <= o
  BY DEF Readable
<1>5. Len(arrived) \in Nat
  BY LenProperties DEF TurnsTypeOK
<1> HIDE DEF S, gone, o
<1>6. \A i \in gone : i <= o
  <2> SUFFICES ASSUME NEW i \in gone PROVE i <= o
    OBVIOUS
  <2>1. \A x \in gone : x \in Nat /\ x <= Len(arrived)
    BY <1>2 DEF gone
  <2>2. Max(gone) \in gone /\ \A x \in gone : x <= Max(gone)
    BY <1>5, <2>1, MaxNat
  <2> QED BY <1>1, <1>3, <1>4, <2>1, <2>2
<1>7. \A i \in S : i > o => i \in Window(c)
  BY <1>1, <1>2, <1>6 DEF gone
<1> QED BY <1>2, <1>7 DEF Later, Newer, S, o

(* How the handler of a conversation can come to be publishing.            *)
LEMMA HandlerStep ==
  ASSUME TurnsTypeOK, [Next]_vars, NEW c \in Conversations
  PROVE  \/ work'[c] = work[c]
         \/ work'[c].at \notin {"publish", "send"}
         \/ Acknowledge(c)
         \/ /\ Publish(c) \/ Send(c)
            /\ work[c].at \in {"publish", "send"} /\ work'[c].turn = work[c].turn
            /\ work'[c].shown = work[c].shown /\ work'[c].reviewed = work[c].reviewed
<1>1. work \in [Conversations -> WorkItem]
  BY DEF TurnsTypeOK, WorkItem
<1>2. ASSUME NEW d \in Conversations, Answer(d), d # c
      PROVE  work'[c] = work[c]
  BY <1>1, <1>2, AnswerStep DEF Answers
<1>3. Decide(c) \/ Draft(c) \/ Clarify(c) \/ Read(c) => work'[c].at \notin {"publish", "send"}
  BY <1>1 DEF Decide, Draft, Clarify, Read, Goto, WorkItem
<1>4. ASSUME Publish(c) \/ Send(c)
      PROVE  /\ work[c].at \in {"publish", "send"} /\ work'[c].turn = work[c].turn
             /\ work'[c].shown = work[c].shown /\ work'[c].reviewed = work[c].reviewed
  <2>1. work[c].at \in {"publish", "send"}
    BY <1>4 DEF Publish, Send, At
  <2>2. \E at : work' = [work EXCEPT ![c].at = at]
    BY <1>4 DEF Publish, Send, Goto
  <2>3. PICK at : work' = [work EXCEPT ![c].at = at]
    BY <2>2
  <2>4. work'[c] = [work[c] EXCEPT !.at = at]
    BY <1>1, <2>3
  <2>5. work[c] \in WorkItem
    BY <1>1
  <2> QED BY <2>1, <2>4, <2>5 DEF WorkItem
<1>5. ASSUME NEW d \in Conversations, Drain(d)
      PROVE  work'[c] = work[c] \/ work'[c].at \notin {"publish", "send"}
  <2>1. Take(d) => work'[d].at = "start" /\ (d # c => work'[c] = work[c])
    BY <1>1 DEF Take, Idle
  <2>2. Finish(d) => work'[d].at = "idle" /\ (d # c => work'[c] = work[c])
    BY <1>1 DEF Finish, Idle
  <2>3. Leave(d) \/ Forget(d) => work' = work
    BY DEF Leave, Forget
  <2> QED BY <1>5, <2>1, <2>2, <2>3 DEF Drain
<1>6. \A m \in Messages : Webhook(m) => work' = work
  BY DEF Webhook, Ingest, Submit
<1>7. Fire \/ Flush \/ CloseFlush \/ CloseShutdown \/ Serve \/ UNCHANGED vars => work' = work
  BY DEF Fire, Flush, CloseFlush, FlushBatch, CloseShutdown, Serve, vars
<1> QED BY <1>2, <1>3, <1>4, <1>5, <1>6, <1>7 DEF Next, Answer

(* What counts as reviewed while bubbles go out was shown to the reviewer. *)
LEMMA ShownStep ==
  ASSUME TurnsTypeOK, ThreadsOK, ArrivedOK, ShownOK, [Next]_vars
  PROVE  ShownOK'
<1> SUFFICES ASSUME NEW c \in Conversations, work'[c].at \in {"publish", "send"}
             PROVE  /\ \/ work'[c].reviewed <= work'[c].turn.origin
                       \/ work'[c].reviewed <= Len(arrived')
                    /\ work'[c].shown \subseteq
                          {i \in Sequences(c, arrived)' : i > work'[c].turn.origin}
                    /\ \A i \in Sequences(c, arrived)' : i > work'[c].turn.origin =>
                          (i <= work'[c].reviewed => i \in work'[c].shown)
  BY DEF ShownOK, Newer
<1>1. work \in [Conversations -> WorkItem] /\ Len(arrived) \in Nat
  BY LenProperties DEF TurnsTypeOK, WorkItem
<1>2. work[c].turn.origin \in Nat /\ work[c].reviewed \in Nat
  BY <1>1 DEF WorkItem, Turns
<1>3. /\ Len(arrived') \in Nat /\ Len(arrived) <= Len(arrived')
      /\ Sequences(c, arrived) \subseteq Sequences(c, arrived)'
      /\ \A i \in Sequences(c, arrived)' : i \in Sequences(c, arrived) \/ i > Len(arrived)
      /\ \A i \in Sequences(c, arrived)' : i \in Nat
  BY SequencesGrow
<1>4. CASE Acknowledge(c)
  <2>1. /\ Readable(c) /\ Later(c) = work[c].shown
        /\ work' = [work EXCEPT ![c].at = "publish",
               ![c].reviewed = IF Window(c) = {} THEN work[c].turn.origin ELSE Max(Window(c))]
        /\ UNCHANGED inbox
    BY <1>4 DEF Acknowledge, Unchanged, Rest
  <2>2. /\ work'[c].turn = work[c].turn /\ work'[c].shown = work[c].shown
        /\ work'[c].reviewed = IF Window(c) = {} THEN work[c].turn.origin ELSE Max(Window(c))
    <3>1. work[c] \in WorkItem
      BY <1>1
    <3> DEFINE r == IF Window(c) = {} THEN work[c].turn.origin ELSE Max(Window(c))
    <3>2. work'[c] = [work[c] EXCEPT !.at = "publish", !.reviewed = r]
      BY <1>1, <2>1
    <3> HIDE DEF r
    <3>3. work'[c].turn = work[c].turn /\ work'[c].shown = work[c].shown /\ work'[c].reviewed = r
      BY <3>1, <3>2 DEF WorkItem
    <3> QED BY <3>3 DEF r
  <2>3. Sequences(c, arrived)' = Sequences(c, arrived) /\ arrived' = arrived
    BY <2>1 DEF inbox, Sequences, Conv
  <2>4. work[c].shown = {i \in Sequences(c, arrived) : i > work[c].turn.origin}
    BY <2>1, LaterIsNewer DEF Newer
  <2>5. work'[c].reviewed <= work'[c].turn.origin \/ work'[c].reviewed <= Len(arrived')
    BY <1>2, <2>2, <2>3, WindowFacts
  <2> QED BY <2>2, <2>3, <2>4, <2>5
<1>5. CASE /\ work[c].at \in {"publish", "send"} /\ work'[c].turn = work[c].turn
           /\ work'[c].shown = work[c].shown /\ work'[c].reviewed = work[c].reviewed
  <2>1. /\ work[c].reviewed <= work[c].turn.origin \/ work[c].reviewed <= Len(arrived)
        /\ work[c].shown \subseteq {i \in Sequences(c, arrived) : i > work[c].turn.origin}
        /\ \A i \in Sequences(c, arrived) : i > work[c].turn.origin =>
              (i <= work[c].reviewed => i \in work[c].shown)
    BY <1>5 DEF ShownOK, Newer
  <2>2. work'[c].reviewed <= work'[c].turn.origin \/ work'[c].reviewed <= Len(arrived')
    BY <1>1, <1>2, <1>3, <1>5, <2>1
  <2>3. ASSUME NEW i \in Sequences(c, arrived)', i > work'[c].turn.origin,
               i <= work'[c].reviewed
        PROVE  i \in work'[c].shown
    <3>1. i \in Nat /\ (i \in Sequences(c, arrived) \/ i > Len(arrived))
      BY <1>3
    <3>2. i \in Sequences(c, arrived)
      BY <1>1, <1>2, <1>5, <2>1, <2>3, <3>1
    <3> QED BY <1>5, <2>1, <2>3, <3>2
  <2> QED BY <1>3, <1>5, <2>1, <2>2, <2>3
<1> QED BY <1>4, <1>5, HandlerStep

-----------------------------------------------------------------------------
(* The theorems *)

(* Everything the steps rely on, together.                                 *)
DispatchInv ==
    /\ TurnsTypeOK /\ CountsAreExact
    /\ ThreadsOK /\ ArrivedOK /\ BatchArmed /\ DrainsOK
    /\ AmbientWaits /\ TurnsApart /\ ModesOK
    /\ OnePlace /\ RefusedOK /\ RevisionsOK /\ ShownOK

(* Nothing has arrived yet.                                                *)
LEMMA DispatchInitially == Init => DispatchInv
<1> SUFFICES ASSUME Init PROVE DispatchInv
  OBVIOUS
<1>1. /\ profile = [m \in Messages |-> None] /\ thread = [m \in Messages |-> "new"]
      /\ closed = [m \in Messages |-> <<>>]
      /\ batch = <<>> /\ timer = FALSE /\ fired = 0 /\ arrived = <<>> /\ visuals = {}
      /\ queues = [c \in Conversations |-> <<>>] /\ pending = [c \in Conversations |-> 0]
      /\ revisions = [c \in Conversations |-> [last |-> 0, explicit |-> 0]]
      /\ running = {} /\ jobs = <<>> /\ ended = {}
      /\ drain = [c \in Conversations |-> "none"]
      /\ work = [c \in Conversations |-> Idle]
      /\ stage = "open" /\ handled = {} /\ refused = {}
  BY DEF Init
<1>2. ToSet(<<>>) = {} /\ DOMAIN <<>> = {} /\ Len(<<>>) = 0 /\ Members(<<>>) = {}
  BY DEF ToSet, Members
<1>3. Idle.turn.ids = <<>> /\ Idle.at = "idle"
  BY DEF Idle, NoTurn
<1>4. TurnsTypeOK
  <2>1. <<>> \in Seq(Messages) /\ <<>> \in Seq(Turns) /\ <<>> \in Seq(Conversations)
    BY EmptySeq
  <2>2. /\ profile \in [Messages -> Profiles \cup {None}]
        /\ thread \in [Messages -> {"new", "ingested", "submitted"}]
        /\ closed \in [Messages -> Seq(Messages)]
        /\ batch \in Seq(Messages) /\ arrived \in Seq(Messages)
        /\ fired \in Nat /\ stage \in {"open", "closing", "shut"}
    BY <1>1, <2>1
  <2>3. timer \in BOOLEAN
    BY <1>1
  <2>4. /\ queues \in [Conversations -> Seq(Turns)] /\ pending \in [Conversations -> Nat]
        /\ revisions \in [Conversations -> [last : Nat, explicit : Nat]]
        /\ drain \in [Conversations -> {"none", "waiting", "loop", "busy"}]
        /\ jobs \in Seq(Conversations)
    BY <1>1, <2>1
  <2>5. work \in [Conversations ->
            [turn : Turns, at : Steps, shown : SUBSET Nat, reviewed : Nat]]
    BY <1>1, NothingTyped
  <2>6. /\ running \subseteq Conversations /\ ended \subseteq Conversations
        /\ visuals \cup handled \cup refused \subseteq Messages
    BY <1>1
  <2> QED BY <2>2, <2>3, <2>4, <2>5, <2>6 DEF TurnsTypeOK
<1>5. CountsAreExact
  BY <1>1, <1>2 DEF CountsAreExact
<1>6. ThreadsOK /\ ArrivedOK /\ BatchArmed
  BY <1>1, <1>2 DEF ThreadsOK, ArrivedOK, BatchArmed
<1>7. DrainsOK
  BY <1>1, <1>2 DEF DrainsOK, Busy
<1>8. AmbientWaits /\ TurnsApart /\ ModesOK
  BY <1>1, <1>2 DEF AmbientWaits, TurnsApart, ModesOK
<1>9. OnePlace
  <2> SUFFICES ASSUME NEW m \in Messages PROVE m \notin Scheduled /\ Places(m) = {}
    BY DEF OnePlace
  <2>1. m \notin Scheduled
    BY <1>1 DEF Scheduled
  <2>2. /\ m \notin ToSet(batch) /\ m \notin handled /\ m \notin refused
        /\ \A o \in Messages : m \notin ToSet(closed[o])
        /\ \A c \in Conversations : m \notin Members(queues[c])
        /\ \A c \in Conversations : m \notin ToSet(work[c].turn.ids)
    BY <1>1, <1>2, <1>3
  <2> QED BY <2>1, <2>2 DEF Places
<1>10. RefusedOK /\ RevisionsOK
  BY <1>1, <1>2 DEF RefusedOK, RevisionsOK, Busy
<1>11. ShownOK
  BY <1>1, <1>3 DEF ShownOK
<1> QED BY <1>4, <1>5, <1>6, <1>7, <1>8, <1>9, <1>10, <1>11 DEF DispatchInv

(* Every step keeps the invariant.                                         *)
LEMMA DispatchInductive == DispatchInv /\ [Next]_vars => DispatchInv'
<1> SUFFICES ASSUME DispatchInv, [Next]_vars PROVE DispatchInv'
  OBVIOUS
<1>1. TurnsTypeOK' /\ CountsAreExact'
  BY TypeStep, CountsStep DEF DispatchInv
<1>2. ThreadsOK' /\ ArrivedOK' /\ BatchArmed'
  BY InboxStep DEF DispatchInv
<1>3. DrainsOK'
  BY DrainsStep DEF DispatchInv
<1>4. AmbientWaits' /\ TurnsApart' /\ ModesOK'
  BY QueuesStep DEF DispatchInv
<1>5. OnePlace' /\ RefusedOK'
  BY OnePlaceStep, RefusedStep DEF DispatchInv
<1>6. RevisionsOK' /\ ShownOK'
  BY RevisionsStep, ShownStep DEF DispatchInv
<1> QED BY <1>1, <1>2, <1>3, <1>4, <1>5, <1>6 DEF DispatchInv

(* The inductive invariant holds of every state the threads can reach.     *)
THEOREM DispatchInvariance == Spec => []DispatchInv
BY DispatchInitially, DispatchInductive, PTL DEF Spec

(* The state of ingress, dispatcher and handlers keeps its types.          *)
THEOREM TurnsTyped == Spec => []TurnsTypeOK
<1>1. DispatchInv => TurnsTypeOK
  BY DEF DispatchInv
<1> QED BY <1>1, DispatchInvariance, PTL

(* The count that admits ambient turns is the number of turns there are,   *)
(* whatever is coalesced, refused, taken or finished in between            *)
(* (qq/turns.py, _dispatch_locked and _drain_conversation).                *)
THEOREM CountsStayExact == Spec => []CountsAreExact
<1>1. DispatchInv => CountsAreExact
  BY DEF DispatchInv
<1> QED BY <1>1, DispatchInvariance, PTL

(* Whatever waits has a timer, a thread or a drain coming for it; a        *)
(* message that called is in exactly one place and refused only by a shut  *)
(* executor; ambient turns wait behind every call (qq/attention.py,        *)
(* qq/turns.py).                                                           *)
THEOREM NothingGetsLost == Spec => []NothingIsLost
<1>1. DispatchInv => NothingIsLost
  <2> SUFFICES ASSUME DispatchInv PROVE NothingIsLost
    OBVIOUS
  <2>1. NobodyStranded
    BY DEF DispatchInv, BatchArmed, DrainsOK, NobodyStranded
  <2>2. CallsKeptOnce
    <3> SUFFICES ASSUME NEW m \in Messages, profile[m] # None, IsExplicit(m)
                 PROVE  Cardinality(Places(m)) = 1 /\ (m \in refused => stage = "shut")
      BY DEF CallsKeptOnce
    <3>1. m \in Scheduled
      BY DEF Scheduled, IsScheduled, IsExplicit
    <3>2. PICK p : Places(m) = {p}
      BY <3>1 DEF DispatchInv, OnePlace
    <3>3. Cardinality({p}) = 1
      BY FS_Singleton
    <3> QED BY <3>2, <3>3 DEF DispatchInv, RefusedOK
  <2> QED BY <2>1, <2>2 DEF DispatchInv, NothingIsLost
<1> QED BY <1>1, DispatchInvariance, PTL

(* A bubble of an ambient reply goes out only if the reviewer was shown    *)
(* all that was submitted since, nobody called, and no call is queued      *)
(* (qq/group_reply_review.py, qq/reply_delivery.py).                       *)
THEOREM RepliesAreCurrent == Spec => PublishIsCurrent
<1> DEFINE Current(c) ==
      work[c].at = "publish" /\ work'[c].at = "send" =>
          /\ Newer(c, arrived, work[c].turn.origin) \subseteq work[c].shown
          /\ \A i \in work[c].shown : ~IsExplicit(arrived[i])
          /\ \A i \in DOMAIN queues[c] : Ambient(queues[c][i])
<1>1. DispatchInv /\ [Next]_vars => \A c \in Conversations : Current(c)
  <2> SUFFICES ASSUME DispatchInv, [Next]_vars, NEW c \in Conversations,
                      work[c].at = "publish", work'[c].at = "send"
               PROVE  /\ Newer(c, arrived, work[c].turn.origin) \subseteq work[c].shown
                      /\ \A i \in work[c].shown : ~IsExplicit(arrived[i])
                      /\ \A i \in DOMAIN queues[c] : Ambient(queues[c][i])
    OBVIOUS
  <2>1. work[c] \in WorkItem /\ TurnsTypeOK
    BY DEF DispatchInv, TurnsTypeOK, WorkItem
  <2>2. Publish(c)
    <3>1. Acknowledge(c) => work[c].at = "review"
      BY DEF Acknowledge, At
    <3>2. Send(c) => work[c].at = "send"
      BY DEF Send, At
    <3> QED BY <2>1, <3>1, <3>2, HandlerStep
  <2>3. /\ ~Preempted(c) /\ Newer(c, arrived, work[c].reviewed) = {}
        /\ Busy(c) /\ Ambient(work[c].turn)
    BY <2>2 DEF Publish, Passes, At, Busy
  <2>4. /\ work[c].shown \subseteq Newer(c, arrived, work[c].turn.origin)
        /\ \A i \in Newer(c, arrived, work[c].turn.origin) :
              i <= work[c].reviewed => i \in work[c].shown
    BY DEF DispatchInv, ShownOK
  <2>5. ASSUME NEW i \in Newer(c, arrived, work[c].turn.origin)
        PROVE  i \in work[c].shown /\ ~IsExplicit(arrived[i])
    <3>1. i \in Sequences(c, arrived) /\ i > work[c].turn.origin
      BY DEF Newer
    <3>2. i \in Nat /\ work[c].reviewed \in Nat
      BY <2>1, <3>1, SequencesFacts DEF WorkItem
    <3>3. i <= work[c].reviewed
      BY <2>3, <3>1, <3>2 DEF Newer
    <3> QED BY <2>3, <2>4, <3>1, <3>3 DEF Preempted, IsExplicit
  <2>6. \A i \in DOMAIN queues[c] : Ambient(queues[c][i])
    BY <2>3 DEF DispatchInv, RevisionsOK, Preempted, Explicit
  <2> QED BY <2>4, <2>5, <2>6
<1>2. DispatchInv /\ [Next]_vars => [\A c \in Conversations : Current(c)]_vars
  BY <1>1
<1> QED BY <1>2, DispatchInvariance, PTL DEF Spec, PublishIsCurrent
=============================================================================
