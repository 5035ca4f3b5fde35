----------------------------- MODULE MemoryProofs -----------------------------
(***************************************************************************)
(* Theorems about what is kept of a conversation, for every set of events, *)
(* messages, threads, model calls and experiences and all their bounds:    *)
(* the Aozora kernel, the memory store, the projections, the experiences   *)
(* Goozam learns, the digest, and the composition the instances are        *)
(* checked in.                                                             *)
(***************************************************************************)
EXTENDS MCMemory, SequenceTheorems, FiniteSetTheorems, TLAPS

-----------------------------------------------------------------------------
(* The Aozora kernel.  What a step may do to the attempts (AttemptStep),   *)
(* to the outbox (OutboxStep) and to the stored contexts (ContextStep) is  *)
(* established first; the parts of the invariant follow from these three.  *)

Handling(c) == caller[c].at \in {"thinking", "failing", "interrupted"}
Printing(c) == caller[c].at \in {"claimed", "written"}

(* A thread in handle works on an attempt that was begun.                  *)
HandlingOK(c) ==
    LET t == caller[c] IN
    Handling(c) => t.about \in Events /\ t.attempt \in DOMAIN attempts[t.about]

(* One in emit has a delivery in hand whose fate nobody has decided.       *)
PrintingOK(c) ==
    LET t == caller[c] IN
    Printing(c) => /\ t.about \in DOMAIN outbox
                   /\ outbox[t.about].status = "unknown"
                   /\ outbox[t.about].shown = IF t.at = "claimed" THEN 0 ELSE 1

CallersOK == \A c \in Callers : HandlingOK(c) /\ PrintingOK(c)

PrintsAlone ==
    \A c, d \in Callers :
        Printing(c) /\ Printing(d) /\ caller[c].about = caller[d].about => c = d

(* Only the last attempt of an event runs or has completed.                *)
LastOnly ==
    \A e \in Events : \A n \in DOMAIN attempts[e] :
        attempts[e][n] \in {"running", "completed"} => n = Len(attempts[e])

OneRuns == \A e, f \in Events : Running(e) /\ Running(f) => e = f

RepliesBelong ==
    \A d \in DOMAIN outbox :
        /\ outbox[d].attempt \in DOMAIN attempts[outbox[d].event]
        /\ attempts[outbox[d].event][outbox[d].attempt] = "completed"
        /\ \A o \in DOMAIN outbox : outbox[o].event = outbox[d].event => o = d

(* The deliveries that are told of.                                        *)
Latest(s) ==
    LET of == {d \in DOMAIN outbox : ScopeOf[outbox[d].event] = s}
    IN  {d \in of : Cardinality({j \in of : j > d}) < Window}

(* The stored context of a running attempt is what is there now, up to     *)
(* what became of the deliveries it names.                                 *)
UpToDate(e) ==
    LET now == Snapshot(e, arrived) IN
    /\ context[e].known = now.known
    /\ context[e].seen = now.seen
    /\ \A t \in context[e].deliveries : t[1] \in Latest(ScopeOf[e])
    /\ \A d \in Latest(ScopeOf[e]) : \E t \in context[e].deliveries : t[1] = d

Presented == \A e \in Events : Running(e) => UpToDate(e)

-----------------------------------------------------------------------------
(* Sequences of attempts and of deliveries *)

(* What begin and finish do to a table: a row is added.                    *)
LEMMA AppendFacts ==
  ASSUME NEW S, NEW s \in Seq(S), NEW v \in S
  PROVE  /\ Append(s, v) \in Seq(S)
         /\ Len(s) \in Nat /\ DOMAIN s = 1..Len(s)
         /\ Len(Append(s, v)) = Len(s) + 1
         /\ DOMAIN Append(s, v) = 1..(Len(s) + 1)
         /\ \A n \in DOMAIN s : Append(s, v)[n] = s[n]
         /\ Append(s, v)[Len(s) + 1] = v
         /\ Append(s, v) # <<>>
OBVIOUS

(* What UPDATE does to a table: one row changes.                           *)
LEMMA SetAtFacts ==
  ASSUME NEW S, NEW s \in Seq(S), NEW i \in DOMAIN s, NEW v \in S
  PROVE  /\ [s EXCEPT ![i] = v] \in Seq(S)
         /\ Len([s EXCEPT ![i] = v]) = Len(s)
         /\ DOMAIN [s EXCEPT ![i] = v] = DOMAIN s
         /\ \A n \in DOMAIN s : [s EXCEPT ![i] = v][n] = IF n = i THEN v ELSE s[n]
         /\ [s EXCEPT ![i] = v] # <<>>
<1>1. DOMAIN s = 1..Len(s) /\ Len(s) \in Nat
  BY LenProperties
<1>2. [s EXCEPT ![i] = v] \in Seq(S) /\ Len([s EXCEPT ![i] = v]) = Len(s)
  BY <1>1, ExceptSeq
<1>3. Len([s EXCEPT ![i] = v]) > 0
  BY <1>1, <1>2
<1> QED BY <1>1, <1>2, <1>3

(* An event that was handled has a last attempt.                           *)
LEMMA NoneOrLast ==
  ASSUME NEW s \in Seq(AttemptStatuses)
  PROVE  s # <<>> => Len(s) \in DOMAIN s /\ Len(s) \in Nat
OBVIOUS

-----------------------------------------------------------------------------
(* What a step does to the attempts: nothing, it begins one, or the one    *)
(* that runs ends.                                                         *)

Begins(e) == /\ Retryable(e) /\ \A u \in Events : ~Running(u)
             /\ attempts' = [attempts EXCEPT ![e] = Append(@, "running")]

Ends(e, status) ==
    /\ Running(e)
    /\ status \in {"completed", "failed", "cancelled"}
    /\ attempts' = [attempts EXCEPT ![e] = [@ EXCEPT ![Len(attempts[e])] = status]]

(* fail and cancel end the attempt that runs, or nothing.                  *)
LEMMA EndedFacts ==
  ASSUME attempts \in [Events -> Seq(AttemptStatuses)], LastOnly,
         NEW e \in Events, NEW n \in DOMAIN attempts[e],
         NEW status \in {"failed", "cancelled"}, attempts' = Ended(e, n, status)
  PROVE  attempts' = attempts \/ Ends(e, status)
<1> DEFINE s == attempts[e]
<1>1. s \in Seq(AttemptStatuses) /\ s # <<>>
  BY SetAtFacts
<1>2. attempts' = [attempts EXCEPT ![e] = [s EXCEPT ![n] =
                      IF s[n] = "running" THEN status ELSE s[n]]]
  BY DEF Ended
<1>3. CASE s[n] = "running"
  <2>1. n = Len(s)
    BY <1>3 DEF LastOnly
  <2> QED BY <1>1, <1>2, <1>3, <2>1 DEF Ends, Running, LastOf
<1>4. CASE s[n] # "running"
  <2>1. [s EXCEPT ![n] = s[n]] = s
    BY <1>1
  <2> QED BY <1>2, <1>4, <2>1
<1> QED BY <1>3, <1>4

(* The attempt that runs is the last.                                      *)
LEMMA RunningLast ==
  ASSUME attempts \in [Events -> Seq(AttemptStatuses)], NEW e \in Events, Running(e)
  PROVE  /\ attempts[e] \in Seq(AttemptStatuses)
         /\ Len(attempts[e]) \in DOMAIN attempts[e]
         /\ attempts[e][Len(attempts[e])] = "running"
BY NoneOrLast DEF Running, LastOf

(* Every step leaves the attempts as they are, begins one, or ends one.    *)
LEMMA AttemptStep ==
  ASSUME KernelTypeOK, LastOnly, CallersOK, [Next]_vars
  PROVE  \/ attempts' = attempts
         \/ \E e \in Events : Begins(e)
         \/ \E e \in Events, status \in {"completed", "failed", "cancelled"} : Ends(e, status)
<1>1. attempts \in [Events -> Seq(AttemptStatuses)]
  BY DEF KernelTypeOK
<1>2. ASSUME NEW c \in Callers, NEW e \in Events, Begin(c, e)
      PROVE  Begins(e)
  BY <1>2 DEF Begin, Begins
<1>3. ASSUME NEW c \in Callers, Commit(c)
      PROVE  \E e \in Events : Ends(e, "completed")
  <2> DEFINE e == caller[c].about
  <2>1. e \in Events /\ Running(e) /\ Len(attempts[e]) = caller[c].attempt
    BY <1>3 DEF Commit, CallersOK, HandlingOK, Handling, Eligible
  <2>2. attempts' = [attempts EXCEPT ![e] = [@ EXCEPT ![Len(attempts[e])] = "completed"]]
    BY <1>3, <2>1 DEF Commit
  <2> QED BY <2>1, <2>2 DEF Ends
<1>4. ASSUME NEW c \in Callers, GiveUp(c)
      PROVE  \/ attempts' = attempts
             \/ \E e \in Events, status \in {"failed", "cancelled"} : Ends(e, status)
  <2>1. caller[c].about \in Events /\ caller[c].attempt \in DOMAIN attempts[caller[c].about]
    BY <1>4 DEF GiveUp, CallersOK, HandlingOK, Handling
  <2>2. PICK status \in {"failed", "cancelled"} :
          \/ attempts' = attempts
          \/ attempts' = Ended(caller[c].about, caller[c].attempt, status)
    BY <1>4 DEF GiveUp
  <2> QED BY <1>1, <2>1, <2>2, EndedFacts
<1>5. ASSUME NEW e \in Events, Cancel(e)
      PROVE  attempts' = attempts \/ Ends(e, "cancelled")
  <2>1. Len(attempts[e]) \in DOMAIN attempts[e]
    BY <1>1, <1>5, RunningLast DEF Cancel
  <2> QED BY <1>1, <1>5, <2>1, EndedFacts DEF Cancel
<1> QED BY <1>2, <1>3, <1>4, <1>5 DEF Next, vars, Handle, Emit, Raise, Claim, Write,
           Receipt, Verify, Crash

(* What was begun stays begun, and what has ended stays as it ended.       *)
Grown(e) ==
    /\ DOMAIN attempts[e] \subseteq DOMAIN attempts'[e]
    /\ \A n \in DOMAIN attempts[e] :
          attempts[e][n] # "running" => attempts'[e][n] = attempts[e][n]

(* begin adds an attempt to an event that has no decision.                 *)
LEMMA BeginsFacts ==
  ASSUME attempts \in [Events -> Seq(AttemptStatuses)], LastOnly, OneRuns,
         NEW e \in Events, Begins(e)
  PROVE  /\ attempts' \in [Events -> Seq(AttemptStatuses)]
         /\ LastOnly' /\ OneRuns'
         /\ \A f \in Events : Grown(f) /\ (Running(f)' => f = e)
         /\ Len(attempts'[e]) = Len(attempts[e]) + 1
         /\ attempts[e] \in Seq(AttemptStatuses)
<1> DEFINE s == attempts[e]
           t == Append(s, "running")
<1>1. s \in Seq(AttemptStatuses) /\ "running" \in AttemptStatuses
  BY DEF AttemptStatuses
<1>2. /\ t \in Seq(AttemptStatuses)
      /\ Len(s) \in Nat /\ DOMAIN s = 1..Len(s)
      /\ Len(t) = Len(s) + 1
      /\ DOMAIN t = 1..(Len(s) + 1)
      /\ \A n \in DOMAIN s : t[n] = s[n]
      /\ t[Len(s) + 1] = "running"
  BY <1>1, AppendFacts
<1>3. /\ attempts'[e] = t /\ \A f \in Events : f # e => attempts'[f] = attempts[f]
      /\ attempts' \in [Events -> Seq(AttemptStatuses)]
  BY <1>2 DEF Begins
<1>4. \A n \in DOMAIN s : s[n] \notin {"running", "completed"}
  <2>1. SUFFICES ASSUME NEW n \in DOMAIN s, s[n] \in {"running", "completed"}
                 PROVE  FALSE
    OBVIOUS
  <2>2. n = Len(s) /\ s # <<>>
    BY <1>2, <2>1 DEF LastOnly
  <2> QED BY <2>1, <2>2 DEF Begins, Retryable, LastOf
<1> HIDE DEF t
<1>5. LastOnly'
  <2> SUFFICES ASSUME NEW f \in Events, NEW n \in DOMAIN attempts'[f],
                      attempts'[f][n] \in {"running", "completed"}
               PROVE  n = Len(attempts'[f])
    BY DEF LastOnly
  <2>1. CASE f # e
    BY <1>3, <2>1 DEF LastOnly
  <2>2. CASE f = e
    BY <1>2, <1>3, <1>4, <2>2
  <2> QED BY <2>1, <2>2
<1>6. \A f \in Events : Running(f)' => f = e
  BY <1>3 DEF Begins, Running, LastOf
<1>7. \A f \in Events : Grown(f)
  <2>1. \A f \in Events : f # e => Grown(f)
    BY <1>3 DEF Grown
  <2>2. DOMAIN s \subseteq DOMAIN t /\ \A n \in DOMAIN s : t[n] = s[n]
    BY <1>2
  <2>3. Grown(e)
    BY <1>3, <2>2 DEF Grown
  <2> QED BY <2>1, <2>3
<1>8. OneRuns'
  BY <1>6 DEF OneRuns
<1>9. Len(attempts'[e]) = Len(s) + 1
  BY <1>2, <1>3
<1> QED BY <1>1, <1>3, <1>5, <1>6, <1>7, <1>8, <1>9

(* An attempt ends once, and then none runs.                               *)
LEMMA EndsFacts ==
  ASSUME attempts \in [Events -> Seq(AttemptStatuses)], LastOnly, OneRuns,
         NEW e \in Events, NEW status, Ends(e, status)
  PROVE  /\ attempts' \in [Events -> Seq(AttemptStatuses)]
         /\ LastOnly' /\ OneRuns'
         /\ \A f \in Events : Grown(f) /\ ~Running(f)'
         /\ \A f \in Events : f # e => attempts'[f] = attempts[f]
         /\ DOMAIN attempts'[e] = DOMAIN attempts[e]
         /\ Len(attempts'[e]) = Len(attempts[e])
         /\ attempts'[e][Len(attempts[e])] = status
<1> DEFINE s == attempts[e]
           t == [s EXCEPT ![Len(s)] = status]
<1>1. s \in Seq(AttemptStatuses) /\ status \in AttemptStatuses /\ Len(s) \in DOMAIN s
  BY RunningLast DEF Ends, AttemptStatuses
<1>2. /\ t \in Seq(AttemptStatuses) /\ t # <<>>
      /\ Len(t) = Len(s) /\ DOMAIN t = DOMAIN s
      /\ \A n \in DOMAIN s : t[n] = IF n = Len(s) THEN status ELSE s[n]
  BY <1>1, SetAtFacts
<1>3. /\ attempts'[e] = t /\ \A f \in Events : f # e => attempts'[f] = attempts[f]
      /\ attempts' \in [Events -> Seq(AttemptStatuses)]
  BY <1>2 DEF Ends
<1> HIDE DEF t
<1>4. LastOnly'
  BY <1>2, <1>3 DEF LastOnly
<1>5. \A f \in Events : ~Running(f)'
  <2>1. ~Running(e)'
    BY <1>1, <1>2, <1>3 DEF Running, LastOf, Ends
  <2>2. \A f \in Events : f # e => ~Running(f)'
    BY <1>3 DEF Running, LastOf, Ends, OneRuns
  <2> QED BY <2>1, <2>2
<1>6. \A f \in Events : Grown(f)
  <2>1. s[Len(s)] = "running"
    BY RunningLast DEF Ends
  <2> QED BY <1>2, <1>3, <2>1 DEF Grown
<1> QED BY <1>1, <1>2, <1>3, <1>4, <1>5, <1>6 DEF OneRuns

(* No step takes an attempt back.                                          *)
LEMMA GrowthStep ==
  ASSUME KernelTypeOK, LastOnly, OneRuns, CallersOK, [Next]_vars
  PROVE  /\ attempts' \in [Events -> Seq(AttemptStatuses)]
         /\ LastOnly' /\ OneRuns'
         /\ \A e \in Events : Grown(e)
<1>1. attempts \in [Events -> Seq(AttemptStatuses)]
  BY DEF KernelTypeOK
<1>2. CASE attempts' = attempts
  BY <1>1, <1>2 DEF LastOnly, OneRuns, Running, LastOf, Grown
<1> QED BY <1>1, <1>2, AttemptStep, BeginsFacts, EndsFacts

-----------------------------------------------------------------------------
(* What a step does to the outbox: nothing, one more reply, or a delivery  *)
(* moves on.                                                               *)

Replies(e) ==
    \E n \in Nat \ {0} :
        outbox' = Append(outbox, [event |-> e, attempt |-> n,
                                  status |-> "prepared", shown |-> 0])

MovesOn(d) ==
    /\ d \in DOMAIN outbox /\ outbox' \in Seq(Delivery)
    /\ DOMAIN outbox' = DOMAIN outbox
    /\ outbox'[d].event = outbox[d].event
    /\ outbox'[d].attempt = outbox[d].attempt
    /\ \A o \in DOMAIN outbox : o # d => outbox'[o] = outbox[o]

(* A delivery moves on by an update of its row.                            *)
LEMMA SetRow ==
  ASSUME outbox \in Seq(Delivery), NEW d \in DOMAIN outbox, NEW r \in Delivery,
         r.event = outbox[d].event, r.attempt = outbox[d].attempt,
         outbox' = [outbox EXCEPT ![d] = r]
  PROVE  MovesOn(d) /\ outbox'[d] = r
BY SetAtFacts DEF MovesOn

(* ShownOnce, with what is known of a delivery in between.                 *)
ShownOK(r) ==
    /\ r.shown \in {0, 1}
    /\ r.status \in {"prepared", "failed"} => r.shown = 0
    /\ r.status = "delivered" => r.shown = 1

(* How one caller's step moves the delivery d from old to new.             *)
Prints(c, d) ==
    LET old == outbox[d]  new == outbox'[d]  at == caller[c].at IN
    \/ /\ at = "idle" /\ old.status = "prepared" /\ new.status = "unknown"
       /\ new.shown = old.shown
       /\ caller'[c] = [at |-> "claimed", about |-> d, attempt |-> 0]
    \/ /\ at = "claimed" /\ caller[c].about = d /\ new.status = old.status
       /\ new.shown = old.shown + 1
       /\ caller'[c] = [caller[c] EXCEPT !.at = "written"]
    \/ /\ at = "written" /\ caller[c].about = d /\ new.status = "delivered"
       /\ new.shown = old.shown
       /\ caller'[c] = Idle

(* claim_delivery hands out what was prepared.                             *)
LEMMA ClaimStep ==
  ASSUME KernelTypeOK, NEW c \in Callers, NEW d \in DOMAIN outbox, Claim(c, d)
  PROVE  MovesOn(d) /\ Prints(c, d)
<1> DEFINE r == [outbox[d] EXCEPT !.status = "unknown"]
<1>1. outbox \in Seq(Delivery) /\ outbox[d] \in Delivery
  BY ElementOfSeq, LenProperties DEF KernelTypeOK
<1>2. /\ r \in Delivery /\ r.event = outbox[d].event /\ r.attempt = outbox[d].attempt
      /\ r.status = "unknown" /\ r.shown = outbox[d].shown
  BY <1>1 DEF Delivery, DeliveryStatuses
<1>3. outbox' = [outbox EXCEPT ![d] = r]
  BY DEF Claim
<1>4. outbox[d].status = "prepared" /\ caller[c].at = "idle"
  BY DEF Claim, Claimable, Idle
<1>5. caller'[c] = [at |-> "claimed", about |-> d, attempt |-> 0]
  BY DEF Claim, KernelTypeOK
<1> HIDE DEF r
<1> QED BY <1>1, <1>2, <1>3, <1>4, <1>5, SetRow DEF Prints

(* emit prints what it was handed.                                         *)
LEMMA WriteStep ==
  ASSUME KernelTypeOK, NEW c \in Callers, CallersOK, Write(c)
  PROVE  MovesOn(caller[c].about) /\ Prints(c, caller[c].about)
<1> DEFINE d == caller[c].about
           r == [outbox[d] EXCEPT !.shown = @ + 1]
<1>1. outbox \in Seq(Delivery) /\ d \in DOMAIN outbox /\ caller[c].at = "claimed"
  BY DEF Write, CallersOK, PrintingOK, Printing, KernelTypeOK
<1>2. outbox[d] \in Delivery
  BY <1>1, ElementOfSeq, LenProperties
<1>3. /\ r \in Delivery /\ r.event = outbox[d].event /\ r.attempt = outbox[d].attempt
      /\ r.status = outbox[d].status /\ r.shown = outbox[d].shown + 1
  BY <1>2 DEF Delivery
<1>4. outbox' = [outbox EXCEPT ![d] = r]
  BY <1>1 DEF Write
<1>5. caller'[c] = [caller[c] EXCEPT !.at = "written"]
  BY DEF Write, KernelTypeOK
<1> HIDE DEF r
<1> QED BY <1>1, <1>3, <1>4, <1>5, SetRow DEF Prints

(* emit acknowledges what it has printed.                                  *)
LEMMA ReceiptStep ==
  ASSUME KernelTypeOK, NEW c \in Callers, CallersOK, Receipt(c)
  PROVE  MovesOn(caller[c].about) /\ Prints(c, caller[c].about)
<1> DEFINE d == caller[c].about
           r == [outbox[d] EXCEPT !.status = "delivered"]
<1>1. /\ outbox \in Seq(Delivery) /\ d \in DOMAIN outbox /\ caller[c].at = "written"
      /\ outbox[d].status = "unknown"
  BY DEF Receipt, CallersOK, PrintingOK, Printing, KernelTypeOK
<1>2. outbox[d] \in Delivery
  BY <1>1, ElementOfSeq, LenProperties
<1>3. /\ r \in Delivery /\ r.event = outbox[d].event /\ r.attempt = outbox[d].attempt
      /\ r.status = "delivered" /\ r.shown = outbox[d].shown
  BY <1>2 DEF Delivery, DeliveryStatuses
<1>4. outbox' = [outbox EXCEPT ![d] = r]
  BY <1>1 DEF Receipt, Resolved
<1>5. caller'[c] = Idle
  BY DEF Receipt, KernelTypeOK
<1> HIDE DEF r
<1> QED BY <1>1, <1>3, <1>4, <1>5, SetRow DEF Prints

(* The operator resolves a delivery that nobody has in hand.               *)
Verifies(d) ==
    /\ outbox[d].status = "unknown" /\ outbox'[d].shown = outbox[d].shown
    /\ outbox'[d].status = IF outbox[d].shown > 0 THEN "delivered" ELSE "failed"
    /\ \A c \in Callers : ~(Printing(c) /\ caller[c].about = d)
    /\ caller' = caller

(* The operator resolves what nobody prints.                               *)
LEMMA VerifyStep ==
  ASSUME KernelTypeOK, NEW d \in DOMAIN outbox, Verify(d)
  PROVE  MovesOn(d) /\ Verifies(d)
<1> DEFINE verdict == IF outbox[d].shown > 0 THEN "delivered" ELSE "failed"
           r == [outbox[d] EXCEPT !.status = verdict]
<1>1. outbox \in Seq(Delivery) /\ outbox[d] \in Delivery
  BY ElementOfSeq, LenProperties DEF KernelTypeOK
<1>2. /\ r \in Delivery /\ r.event = outbox[d].event /\ r.attempt = outbox[d].attempt
      /\ r.status = verdict /\ r.shown = outbox[d].shown
  BY <1>1 DEF Delivery, DeliveryStatuses
<1>3. outbox' = [outbox EXCEPT ![d] = r]
  BY <1>1 DEF Verify, Resolved
<1>4. /\ outbox[d].status = "unknown" /\ caller' = caller
      /\ \A c \in Callers : ~(Printing(c) /\ caller[c].about = d)
  BY DEF Verify, Printing
<1> HIDE DEF r
<1> QED BY <1>1, <1>2, <1>3, <1>4, SetRow DEF Verifies

(* Nobody takes up a delivery, and the outbox is left as it is.            *)
Silent ==
    /\ outbox' = outbox
    /\ \A c \in Callers : Printing(c)' => caller'[c] = caller[c]

(* Every step of every thread and of the operator, as the outbox sees it.  *)
LEMMA OutboxStep ==
  ASSUME KernelTypeOK, CallersOK, [Next]_vars
  PROVE  \/ Silent
         \/ \E c \in Callers : /\ Commit(c) /\ Replies(caller[c].about)
                               /\ outbox'[Len(outbox) + 1].attempt = caller[c].attempt
         \/ \E c \in Callers, d \in DOMAIN outbox :
               /\ MovesOn(d) /\ Prints(c, d) /\ attempts' = attempts
               /\ \A g \in Callers : g # c => caller'[g] = caller[g]
         \/ \E d \in DOMAIN outbox : MovesOn(d) /\ Verifies(d) /\ attempts' = attempts
<1>0. caller \in [Callers -> [at : Steps, about : {0} \cup Events \cup Nat, attempt : Nat]]
  BY DEF KernelTypeOK
<1>1. ASSUME NEW c \in Callers, NEW e \in Events, Begin(c, e)
      PROVE  Silent
  BY <1>0, <1>1 DEF Begin, Silent, Printing
<1>2. ASSUME NEW c \in Callers, Commit(c)
      PROVE  \/ Silent
             \/ /\ Replies(caller[c].about)
                /\ outbox'[Len(outbox) + 1].attempt = caller[c].attempt
  <2>1. caller'[c] = Idle /\ \A g \in Callers : g # c => caller'[g] = caller[g]
    BY <1>0, <1>2 DEF Commit
  <2>2. CASE outbox' = outbox
    BY <2>1, <2>2 DEF Silent, Printing, Idle
  <2>3. CASE outbox' = Append(outbox, [event |-> caller[c].about, attempt |-> caller[c].attempt,
                                       status |-> "prepared", shown |-> 0])
    <3>1. caller[c].attempt \in Nat \ {0}
      <4>1. /\ caller[c].about \in Events
            /\ caller[c].attempt \in DOMAIN attempts[caller[c].about]
        BY <1>2 DEF Commit, CallersOK, HandlingOK, Handling
      <4> QED BY <4>1, LenProperties DEF KernelTypeOK
    <3>2. outbox'[Len(outbox) + 1].attempt = caller[c].attempt
      BY <2>3 DEF KernelTypeOK
    <3> QED BY <2>3, <3>1, <3>2 DEF Replies
  <2> QED BY <1>2, <2>2, <2>3 DEF Commit
<1>3. ASSUME NEW c \in Callers, Raise(c) \/ GiveUp(c) \/ Crash(c)
      PROVE  Silent
  BY <1>0, <1>3 DEF Raise, GiveUp, Crash, Silent, Printing, Idle
<1>4. ASSUME NEW c \in Callers, NEW d \in DOMAIN outbox, Claim(c, d)
      PROVE  /\ MovesOn(d) /\ Prints(c, d) /\ attempts' = attempts
             /\ \A g \in Callers : g # c => caller'[g] = caller[g]
  BY <1>0, <1>4, ClaimStep DEF Claim
<1>5. ASSUME NEW c \in Callers, Write(c) \/ Receipt(c)
      PROVE  /\ MovesOn(caller[c].about) /\ Prints(c, caller[c].about) /\ attempts' = attempts
             /\ \A g \in Callers : g # c => caller'[g] = caller[g]
             /\ caller[c].about \in DOMAIN outbox
  <2>1. MovesOn(caller[c].about) /\ Prints(c, caller[c].about)
    BY <1>5, WriteStep, ReceiptStep
  <2> QED BY <1>0, <1>5, <2>1 DEF Write, Receipt, MovesOn
<1>6. ASSUME NEW d \in DOMAIN outbox, Verify(d)
      PROVE  MovesOn(d) /\ Verifies(d) /\ attempts' = attempts
  BY <1>6, VerifyStep DEF Verify
<1>7. ASSUME NEW e \in Events, Cancel(e)
      PROVE  Silent
  BY <1>7 DEF Cancel, Silent
<1>8. CASE UNCHANGED vars
  BY <1>8 DEF vars, Silent
<1> QED BY <1>1, <1>2, <1>3, <1>4, <1>5, <1>6, <1>7, <1>8 DEF Next, Handle, Emit

-----------------------------------------------------------------------------
(* One at a time prints a delivery, and its row says what became of it *)

Shown == \A d \in DOMAIN outbox : ShownOK(outbox[d])

(* The thread that prints keeps account of it.                             *)
LEMMA PrintsKeep ==
  ASSUME KernelTypeOK, \A c \in Callers : PrintingOK(c), PrintsAlone, Shown,
         NEW c \in Callers, NEW d \in DOMAIN outbox, MovesOn(d), Prints(c, d),
         \A g \in Callers : g # c => caller'[g] = caller[g]
  PROVE  (\A g \in Callers : PrintingOK(g)') /\ PrintsAlone' /\ Shown'
<1>1. ShownOK(outbox[d]) /\ PrintingOK(c)
  BY DEF Shown
<1>2. ShownOK(outbox'[d])
  BY <1>1 DEF Prints, ShownOK, PrintingOK, Printing
<1>3. Shown'
  BY <1>2 DEF Shown, MovesOn
<1>4. \A g \in Callers : g # c /\ Printing(g) => caller[g].about # d
  BY <1>1 DEF Prints, PrintingOK, Printing, PrintsAlone
<1>5. Printing(c)' => caller'[c].about = d
  BY DEF Prints, Printing, Idle, KernelTypeOK
<1>6. PrintsAlone'
  BY <1>4, <1>5 DEF PrintsAlone, Printing
<1>7. PrintingOK(c)'
  BY <1>1, <1>5 DEF PrintingOK, Prints, Printing, ShownOK, MovesOn, Idle, KernelTypeOK
<1>8. \A g \in Callers : g # c => PrintingOK(g)'
  BY <1>4 DEF PrintingOK, Printing, MovesOn
<1> QED BY <1>3, <1>6, <1>7, <1>8

(* The operator writes what the terminal shows.                            *)
LEMMA VerifiesKeep ==
  ASSUME \A c \in Callers : PrintingOK(c), PrintsAlone, Shown,
         NEW d \in DOMAIN outbox, MovesOn(d), Verifies(d)
  PROVE  (\A c \in Callers : PrintingOK(c)') /\ PrintsAlone' /\ Shown'
<1>1. ShownOK(outbox'[d])
  BY DEF Shown, ShownOK, Verifies
<1> QED BY <1>1 DEF Shown, PrintsAlone, PrintingOK, Printing, Verifies, MovesOn

(* A new reply is in nobody's hands.                                       *)
LEMMA RepliesKeep ==
  ASSUME KernelTypeOK, \A c \in Callers : PrintingOK(c), PrintsAlone, Shown,
         NEW c \in Callers, Commit(c), Replies(caller[c].about)
  PROVE  (\A g \in Callers : PrintingOK(g)') /\ PrintsAlone' /\ Shown'
<1>1. /\ outbox \in Seq(Delivery) /\ caller'[c] = Idle
      /\ \A g \in Callers : g # c => caller'[g] = caller[g]
  BY DEF Commit, KernelTypeOK
<1>2. PICK n \in Nat \ {0} :
        outbox' = Append(outbox, [event |-> caller[c].about, attempt |-> n,
                                  status |-> "prepared", shown |-> 0])
  BY DEF Replies
<1>3. /\ DOMAIN outbox \subseteq DOMAIN outbox'
      /\ \A d \in DOMAIN outbox : outbox'[d] = outbox[d]
      /\ \A d \in DOMAIN outbox' : d \in DOMAIN outbox \/ ShownOK(outbox'[d])
  BY <1>1, <1>2 DEF ShownOK
<1>4. ~Printing(c)'
  BY <1>1 DEF Printing, Idle
<1>5. Shown'
  BY <1>3 DEF Shown
<1>6. PrintsAlone'
  BY <1>1, <1>4 DEF PrintsAlone, Printing
<1>7. \A g \in Callers : PrintingOK(g)'
  BY <1>1, <1>3, <1>4 DEF PrintingOK, Printing
<1> QED BY <1>5, <1>6, <1>7

(* A reply is in the hands of one thread at a time.                        *)
LEMMA PrintingInductive ==
  ASSUME KernelTypeOK, CallersOK, PrintsAlone, Shown, [Next]_vars
  PROVE  (\A c \in Callers : PrintingOK(c)') /\ PrintsAlone' /\ Shown'
<1>1. \A c \in Callers : PrintingOK(c)
  BY DEF CallersOK
<1>2. CASE Silent
  BY <1>1, <1>2 DEF Silent, PrintingOK, PrintsAlone, Shown, Printing
<1> QED BY <1>1, <1>2, OutboxStep, PrintsKeep, VerifiesKeep, RepliesKeep

-----------------------------------------------------------------------------
(* Types *)

(* A projection is a context.                                              *)
LEMMA SnapshotType ==
  ASSUME entries \in [Scopes -> [Keys -> Entry]], outbox \in Seq(Delivery),
         NEW e \in Events, NEW log \in Seq(Events)
  PROVE  Snapshot(e, log) \in Context
<1> DEFINE s == ScopeOf[e]
           visible == {k \in Keys : Visible(s, k)}
<1>1. s \in Scopes /\ visible \subseteq Keys
  BY KernelAssumption
<1>2. Recent(s, log) \subseteq Events
  <2>1. \A i \in DOMAIN log : log[i] \in Events
    BY ElementOfSeq, LenProperties
  <2> HIDE DEF s
  <2> QED BY <2>1 DEF Recent
<1>3. UNION {entries[s][k].evidence : k \in visible} \subseteq Events
  BY <1>1 DEF Entry
<1>4. [k \in Keys |-> IF k \in visible THEN entries[s][k].version ELSE 0]
          \in [Keys -> 0..MaxVersion]
  BY <1>1, KernelAssumption DEF Entry
<1>5. Told(s) \in SUBSET (Nat \X DeliveryStatuses)
  <2>1. \A d \in DOMAIN outbox : d \in Nat /\ outbox[d] \in Delivery
    BY ElementOfSeq, LenProperties
  <2>2. \A d \in DOMAIN outbox : <<d, outbox[d].status>> \in Nat \X DeliveryStatuses
    BY <2>1 DEF Delivery
  <2> HIDE DEF s
  <2>3. Latest(s) \subseteq DOMAIN outbox
    BY DEF Latest
  <2>4. Told(s) = {<<d, outbox[d].status>> : d \in Latest(s)}
    BY DEF Told, Latest
  <2> QED BY <2>2, <2>3, <2>4
<1> HIDE DEF s, visible
<1>6. Recent(s, log) \cup {e} \cup UNION {entries[s][k].evidence : k \in visible} \in SUBSET Events
  BY <1>2, <1>3
<1> QED BY <1>4, <1>5, <1>6 DEF Snapshot, Context, s, visible

(* The contexts that are dropped leave contexts.                           *)
LEMMA KeptType ==
  ASSUME context \in [Events -> Context], NEW table
  PROVE  Kept(table) \in [Events -> Context]
<1>1. NoContext \in Context
  BY KernelAssumption DEF NoContext, Context
<1> QED BY <1>1 DEF Kept

(* finish changes entries of its own conversation, on the evidence shown.  *)
LEMMA CommitEntries ==
  ASSUME KernelTypeOK, CallersOK, NEW c \in Callers, Commit(c)
  PROVE  /\ entries' \in [Scopes -> [Keys -> Entry]]
         /\ \A s \in Scopes, k \in Keys :
               \/ entries'[s][k] = entries[s][k]
               \/ /\ s = ScopeOf[caller[c].about]
                  /\ entries'[s][k].evidence \subseteq context[caller[c].about].known
<1> DEFINE e == caller[c].about
           s == ScopeOf[e]
<1>1. e \in Events /\ s \in Scopes
  BY KernelAssumption DEF CallersOK, HandlingOK, Handling, Commit
<1> PICK D \in SUBSET Keys : \E w \in [D -> Change] :
        /\ \A k \in D : Accepted(e, k, w[k])
        /\ entries' = [entries EXCEPT ![s] = [k \in Keys |->
              IF k \in D THEN [w[k] EXCEPT !.version = @ + 1] ELSE @[k]]]
  BY DEF Commit
<1>2. PICK w \in [D -> Change] :
        /\ \A k \in D : Accepted(e, k, w[k])
        /\ entries' = [entries EXCEPT ![s] = [k \in Keys |->
              IF k \in D THEN [w[k] EXCEPT !.version = @ + 1] ELSE @[k]]]
  OBVIOUS
<1>3. \A k \in D : /\ [w[k] EXCEPT !.version = @ + 1] \in Entry
                   /\ [w[k] EXCEPT !.version = @ + 1].evidence \subseteq context[e].known
  <2> SUFFICES ASSUME NEW k \in D
               PROVE  /\ [w[k] EXCEPT !.version = @ + 1] \in Entry
                      /\ [w[k] EXCEPT !.version = @ + 1].evidence \subseteq context[e].known
    OBVIOUS
  <2> DEFINE u == w[k]
  <2>1. u \in Change /\ u.version < MaxVersion /\ u.evidence \subseteq context[e].known
    BY <1>2 DEF Accepted
  <2> HIDE DEF u
  <2>2. u.version + 1 \in 0..MaxVersion
    BY <2>1, KernelAssumption DEF Change
  <2>3. [u EXCEPT !.version = @ + 1] \in Entry
    BY <2>1, <2>2 DEF Change, Entry
  <2>4. [u EXCEPT !.version = @ + 1].evidence = u.evidence
    BY <2>1 DEF Change
  <2> QED BY <2>1, <2>3, <2>4 DEF u
<1>4. entries \in [Scopes -> [Keys -> Entry]]
  BY DEF KernelTypeOK
<1>5. [k \in Keys |-> IF k \in D THEN [w[k] EXCEPT !.version = @ + 1] ELSE entries[s][k]]
          \in [Keys -> Entry]
  BY <1>1, <1>3, <1>4
<1>6. entries' \in [Scopes -> [Keys -> Entry]]
  BY <1>2, <1>4, <1>5
<1>7. \A k \in Keys : entries'[s][k] =
          IF k \in D THEN [w[k] EXCEPT !.version = @ + 1] ELSE entries[s][k]
  BY <1>1, <1>2, <1>4
<1>8. \A q \in Scopes : q # s => entries'[q] = entries[q]
  BY <1>2, <1>4
<1>9. ASSUME NEW q \in Scopes, NEW k \in Keys
      PROVE  \/ entries'[q][k] = entries[q][k]
             \/ q = s /\ entries'[q][k].evidence \subseteq context[e].known
  <2>1. CASE q # s
    BY <1>8, <2>1
  <2>2. CASE q = s /\ k \in D
    BY <1>3, <1>7, <2>2
  <2>3. CASE q = s /\ k \notin D
    BY <1>7, <2>3
  <2> QED BY <2>1, <2>2, <2>3
<1> QED BY <1>6, <1>9

(* The stored contexts after a step.                                       *)
LEMMA ContextStep ==
  ASSUME KernelTypeOK, [Next]_vars
  PROVE  \/ context' = context /\ attempts' = attempts
         \/ \E c \in Callers, e \in Events :
               /\ Begin(c, e)
               /\ context' = [context EXCEPT ![e] = Snapshot(e, arrived')]
         \/ context' = Kept(attempts')
BY DEF Next, vars, Handle, Emit, Begin, Commit, Raise, GiveUp, Cancel, Claim, Write, Receipt,
       Verify, Crash

(* Each thread is at a step of handle or of emit, or idle.                 *)
LEMMA CallerType ==
  ASSUME KernelTypeOK, [Next]_vars
  PROVE  caller' \in [Callers -> [at : Steps, about : {0} \cup Events \cup Nat, attempt : Nat]]
<1> DEFINE T == [at : Steps, about : {0} \cup Events \cup Nat, attempt : Nat]
<1>1. caller \in [Callers -> T] /\ Idle \in T
  BY DEF KernelTypeOK, Idle, Steps
<1>2. ASSUME NEW c \in Callers, NEW t \in T, caller' = [caller EXCEPT ![c] = t]
      PROVE  caller' \in [Callers -> T]
  BY <1>1, <1>2
<1>3. ASSUME NEW c \in Callers, NEW at \in Steps, caller' = [caller EXCEPT ![c].at = at]
      PROVE  caller' \in [Callers -> T]
  <2>1. [caller[c] EXCEPT !.at = at] \in T
    BY <1>1
  <2> QED BY <1>1, <1>3, <2>1
<1>4. ASSUME NEW c \in Callers, NEW e \in Events, Begin(c, e)
      PROVE  caller' \in [Callers -> T]
  <2>1. Len(attempts[e]) + 1 \in Nat
    BY DEF KernelTypeOK
  <2>2. [at |-> "thinking", about |-> e, attempt |-> Len(attempts[e]) + 1] \in T
    BY <2>1 DEF Steps
  <2> HIDE DEF T
  <2> QED BY <1>2, <1>4, <2>2 DEF Begin
<1>5. ASSUME NEW c \in Callers, NEW d \in DOMAIN outbox, Claim(c, d)
      PROVE  caller' \in [Callers -> T]
  <2>1. d \in Nat
    BY LenProperties DEF KernelTypeOK
  <2>2. [at |-> "claimed", about |-> d, attempt |-> 0] \in T
    BY <2>1 DEF Steps
  <2> HIDE DEF T
  <2> QED BY <1>2, <1>5, <2>2 DEF Claim
<1> HIDE DEF T
<1>6. ASSUME NEW c \in Callers, Raise(c) \/ Write(c)
      PROVE  caller' \in [Callers -> T]
  <2>1. {"failing", "interrupted", "written"} \subseteq Steps
    BY DEF Steps
  <2> QED BY <1>3, <1>6, <2>1 DEF Raise, Write
<1>7. ASSUME NEW c \in Callers, Commit(c) \/ GiveUp(c) \/ Receipt(c) \/ Crash(c)
      PROVE  caller' \in [Callers -> T]
  BY <1>1, <1>2, <1>7 DEF Commit, GiveUp, Receipt, Crash
<1>8. caller' = caller => caller' \in [Callers -> T]
  BY <1>1
<1> QED BY <1>4, <1>5, <1>6, <1>7, <1>8 DEF Next, vars, Handle, Emit, Cancel, Verify, T

(* Every step keeps the tables well formed.                                *)
LEMMA TypeInductive ==
  ASSUME KernelTypeOK, CallersOK, LastOnly, OneRuns, [Next]_vars
  PROVE  KernelTypeOK'
<1>1. arrived' \in Seq(Events)
  <2>1. ASSUME NEW c \in Callers, NEW e \in Events, Begin(c, e)
        PROVE  arrived' \in Seq(Events)
    <3>1. arrived \in Seq(Events)
      BY DEF KernelTypeOK
    <3>2. Append(arrived, e) \in Seq(Events)
      BY <3>1, AppendFacts
    <3> QED BY <2>1, <3>1, <3>2 DEF Begin
  <2>2. arrived' = arrived \/ \E c \in Callers, e \in Events : Begin(c, e)
    BY DEF Next, vars, Handle, Emit, Commit, Raise, GiveUp, Cancel, Claim, Write, Receipt,
           Verify, Crash
  <2> QED BY <2>1, <2>2 DEF KernelTypeOK
<1>2. attempts' \in [Events -> Seq(AttemptStatuses)]
  BY GrowthStep
<1>3. context' \in [Events -> Context]
  <2>1. ASSUME NEW c \in Callers, NEW e \in Events, Begin(c, e),
               context' = [context EXCEPT ![e] = Snapshot(e, arrived')]
        PROVE  context' \in [Events -> Context]
    BY <1>1, <2>1, SnapshotType DEF KernelTypeOK
  <2> QED BY <2>1, ContextStep, KeptType DEF KernelTypeOK
<1>4. entries' \in [Scopes -> [Keys -> Entry]]
  <2>1. entries' = entries \/ \E c \in Callers : Commit(c)
    BY DEF Next, vars, Handle, Emit, Begin, Raise, GiveUp, Cancel, Claim, Write, Receipt,
           Verify, Crash
  <2> QED BY <2>1, CommitEntries DEF KernelTypeOK
<1>5. outbox' \in Seq(Delivery)
  <2>1. ASSUME NEW c \in Callers, Commit(c), Replies(caller[c].about)
        PROVE  outbox' \in Seq(Delivery)
    <3>1. caller[c].about \in Events
      BY <2>1 DEF CallersOK, HandlingOK, Handling, Commit
    <3>2. PICK n \in Nat \ {0} :
            outbox' = Append(outbox, [event |-> caller[c].about, attempt |-> n,
                                      status |-> "prepared", shown |-> 0])
      BY <2>1 DEF Replies
    <3>3. [event |-> caller[c].about, attempt |-> n, status |-> "prepared", shown |-> 0]
              \in Delivery
      BY <3>1 DEF Delivery, DeliveryStatuses
    <3> QED BY <3>2, <3>3, AppendFacts DEF KernelTypeOK
  <2> QED BY <2>1, OutboxStep DEF KernelTypeOK, Silent, MovesOn
<1>6. caller' \in [Callers -> [at : Steps, about : {0} \cup Events \cup Nat, attempt : Nat]]
  BY CallerType
<1> QED BY <1>1, <1>2, <1>3, <1>4, <1>5, <1>6 DEF KernelTypeOK

-----------------------------------------------------------------------------
(* The threads in handle *)

(* A thread is in handle because it began, or because it already was and   *)
(* goes on with the same attempt.                                          *)
LEMMA HandlingStep ==
  ASSUME KernelTypeOK, [Next]_vars, NEW c \in Callers
  PROVE  \/ \E e \in Events : Begin(c, e)
         \/ Handling(c)' => /\ Handling(c)
                            /\ caller'[c].about = caller[c].about
                            /\ caller'[c].attempt = caller[c].attempt
<1> DEFINE GoesTo == Handling(c)' => /\ Handling(c)
                                   /\ caller'[c].about = caller[c].about
                                   /\ caller'[c].attempt = caller[c].attempt
<1>1. caller \in [Callers -> [at : Steps, about : {0} \cup Events \cup Nat, attempt : Nat]]
  BY DEF KernelTypeOK
<1>2. ASSUME NEW g \in Callers, NEW e \in Events, Begin(g, e)
      PROVE  (\E f \in Events : Begin(c, f)) \/ GoesTo
  BY <1>1, <1>2 DEF Begin, Handling
<1>3. ASSUME NEW g \in Callers, Commit(g) \/ GiveUp(g) \/ Receipt(g) \/ Crash(g)
      PROVE  GoesTo
  BY <1>1, <1>3 DEF Commit, GiveUp, Receipt, Crash, Handling, Idle
<1>4. ASSUME NEW g \in Callers, Raise(g) \/ Write(g)
      PROVE  GoesTo
  BY <1>1, <1>4 DEF Raise, Write, Handling
<1>5. ASSUME NEW g \in Callers, NEW d \in DOMAIN outbox, Claim(g, d)
      PROVE  GoesTo
  BY <1>1, <1>5 DEF Claim, Handling
<1>6. caller' = caller => GoesTo
  BY DEF Handling
<1> HIDE DEF GoesTo
<1>7. (\E f \in Events : Begin(c, f)) \/ GoesTo
  BY <1>2, <1>3, <1>4, <1>5, <1>6 DEF Next, vars, Handle, Emit, Cancel, Verify
<1> QED BY <1>7 DEF GoesTo

(* A thread in handle works on an attempt that was begun.                  *)
LEMMA HandlingInductive ==
  ASSUME KernelTypeOK, CallersOK, LastOnly, OneRuns, [Next]_vars, NEW c \in Callers
  PROVE  HandlingOK(c)'
<1>1. attempts \in [Events -> Seq(AttemptStatuses)] /\ \A e \in Events : Grown(e)
  BY GrowthStep DEF KernelTypeOK
<1>2. ASSUME NEW e \in Events, Begin(c, e)
      PROVE  HandlingOK(c)'
  <2>1. /\ attempts[e] \in Seq(AttemptStatuses)
        /\ attempts'[e] = Append(attempts[e], "running")
        /\ caller'[c].about = e /\ caller'[c].attempt = Len(attempts[e]) + 1
    BY <1>1, <1>2 DEF Begin, KernelTypeOK
  <2>2. Len(attempts[e]) + 1 \in DOMAIN attempts'[e]
    BY <2>1
  <2> QED BY <2>1, <2>2 DEF HandlingOK
<1>3. CASE Handling(c)' => /\ Handling(c)
                           /\ caller'[c].about = caller[c].about
                           /\ caller'[c].attempt = caller[c].attempt
  BY <1>1, <1>3 DEF HandlingOK, CallersOK, Handling, Grown
<1> QED BY <1>2, <1>3, HandlingStep

-----------------------------------------------------------------------------
(* A reply is that of the attempt that completed *)

(* finish leaves one reply, for the attempt it completes.                  *)
LEMMA RepliesInductive ==
  ASSUME KernelTypeOK, CallersOK, LastOnly, OneRuns, RepliesBelong, [Next]_vars
  PROVE  RepliesBelong'
<1>1. /\ outbox \in Seq(Delivery) /\ attempts \in [Events -> Seq(AttemptStatuses)]
      /\ \A d \in DOMAIN outbox : outbox[d] \in Delivery
  BY ElementOfSeq, LenProperties DEF KernelTypeOK
<1>2. \A d \in DOMAIN outbox : outbox[d].event \in Events
  BY <1>1 DEF Delivery
<1>3. \A e \in Events : Grown(e)
  BY GrowthStep
<1>4. \A d \in DOMAIN outbox :
          /\ outbox[d].attempt \in DOMAIN attempts'[outbox[d].event]
          /\ attempts'[outbox[d].event][outbox[d].attempt] = "completed"
  BY <1>2, <1>3 DEF RepliesBelong, Grown
<1>5. CASE outbox' = outbox
  BY <1>4, <1>5 DEF RepliesBelong
<1>6. ASSUME NEW d \in DOMAIN outbox, MovesOn(d)
      PROVE  RepliesBelong'
  <2>1. /\ DOMAIN outbox' = DOMAIN outbox
        /\ \A o \in DOMAIN outbox : /\ outbox'[o].event = outbox[o].event
                                    /\ outbox'[o].attempt = outbox[o].attempt
    BY <1>6 DEF MovesOn
  <2> QED BY <1>4, <2>1 DEF RepliesBelong
<1>7. ASSUME NEW c \in Callers, Commit(c), Replies(caller[c].about),
             outbox'[Len(outbox) + 1].attempt = caller[c].attempt
      PROVE  RepliesBelong'
  <2> DEFINE e == caller[c].about
             n == Len(outbox) + 1
  <2>1. /\ e \in Events /\ Running(e) /\ Len(attempts[e]) = caller[c].attempt
        /\ caller[c].attempt \in DOMAIN attempts[e]
    BY <1>7 DEF Commit, CallersOK, HandlingOK, Handling, Eligible
  <2>2. PICK h \in Nat \ {0} :
          outbox' = Append(outbox, [event |-> e, attempt |-> h,
                                    status |-> "prepared", shown |-> 0])
    BY <1>7 DEF Replies
  <2>3. /\ DOMAIN outbox' = DOMAIN outbox \cup {n} /\ n \notin DOMAIN outbox
        /\ outbox'[n].event = e
        /\ \A d \in DOMAIN outbox : outbox'[d] = outbox[d]
    BY <1>1, <2>2
  <2>4. attempts' = [attempts EXCEPT ![e] = [@ EXCEPT ![Len(attempts[e])] = "completed"]]
    BY <1>7, <2>1 DEF Commit
  <2>5. Ends(e, "completed")
    BY <2>1, <2>4 DEF Ends
  <2>6. /\ caller[c].attempt \in DOMAIN attempts'[e]
        /\ attempts'[e][caller[c].attempt] = "completed"
    BY <1>1, <2>1, <2>5, EndsFacts
  <2>7. \A d \in DOMAIN outbox : outbox[d].event # e
    <3>1. attempts[e][Len(attempts[e])] = "running"
      BY <1>1, <2>1, RunningLast
    <3>2. SUFFICES ASSUME NEW d \in DOMAIN outbox, outbox[d].event = e
                   PROVE  FALSE
      OBVIOUS
    <3>3. attempts[e][outbox[d].attempt] = "completed" /\ outbox[d].attempt \in DOMAIN attempts[e]
      BY <3>2 DEF RepliesBelong
    <3> QED BY <2>1, <3>1, <3>3 DEF LastOnly
  <2> HIDE DEF e, n
  <2>8. \A d \in DOMAIN outbox' :
           /\ outbox'[d].attempt \in DOMAIN attempts'[outbox'[d].event]
           /\ attempts'[outbox'[d].event][outbox'[d].attempt] = "completed"
    <3> TAKE d \in DOMAIN outbox'
    <3>1. CASE d \in DOMAIN outbox
      BY <1>4, <2>3, <3>1
    <3>2. CASE d = n
      BY <1>7, <2>3, <2>6, <3>2 DEF n
    <3> QED BY <2>3, <3>1, <3>2
  <2>9. \A d, o \in DOMAIN outbox' : outbox'[o].event = outbox'[d].event => o = d
    BY <2>3, <2>7 DEF RepliesBelong
  <2> QED BY <2>8, <2>9 DEF RepliesBelong
<1> QED BY <1>5, <1>6, <1>7, OutboxStep DEF Silent

-----------------------------------------------------------------------------
(* Conversations *)

(* A projection cites events of its own conversation.                      *)
LEMMA ContextKnown ==
  ASSUME KernelTypeOK, ScopesStayApart, NEW e \in Events, NEW log \in Seq(Events)
  PROVE  \A u \in Snapshot(e, log).known : ScopeOf[u] = ScopeOf[e]
<1> DEFINE s == ScopeOf[e]
<1>1. s \in Scopes
  BY KernelAssumption
<1>2. \A u \in Recent(s, log) : ScopeOf[u] = s
  BY DEF Recent
<1>3. \A k \in Keys : \A u \in entries[s][k].evidence : ScopeOf[u] = s
  BY <1>1 DEF ScopesStayApart
<1> HIDE DEF s
<1>4. \A u \in Snapshot(e, log).known :
         u \in Recent(s, log) \/ u = e \/ \E k \in Keys : u \in entries[s][k].evidence
  BY DEF Snapshot, s
<1> QED BY <1>2, <1>3, <1>4 DEF s

(* Conversations stay apart.                                               *)
LEMMA ScopesInductive ==
  ASSUME KernelTypeOK, CallersOK, LastOnly, OneRuns, ScopesStayApart, [Next]_vars
  PROVE  ScopesStayApart'
<1>1. \A s \in Scopes, k \in Keys : \A e \in entries'[s][k].evidence : ScopeOf[e] = s
  <2>1. CASE entries' = entries
    BY <2>1 DEF ScopesStayApart
  <2>2. ASSUME NEW c \in Callers, Commit(c)
        PROVE  \A s \in Scopes, k \in Keys : \A e \in entries'[s][k].evidence : ScopeOf[e] = s
    <3>1. caller[c].about \in Events
      BY <2>2 DEF CallersOK, HandlingOK, Handling, Commit
    <3>2. \A u \in context[caller[c].about].known : ScopeOf[u] = ScopeOf[caller[c].about]
      BY <3>1 DEF ScopesStayApart
    <3> SUFFICES ASSUME NEW s \in Scopes, NEW k \in Keys, NEW e \in entries'[s][k].evidence
                 PROVE  ScopeOf[e] = s
      OBVIOUS
    <3>3. \/ entries'[s][k] = entries[s][k]
          \/ /\ s = ScopeOf[caller[c].about]
             /\ entries'[s][k].evidence \subseteq context[caller[c].about].known
      BY <2>2, CommitEntries
    <3> QED BY <3>2, <3>3 DEF ScopesStayApart
  <2>3. entries' = entries \/ \E c \in Callers : Commit(c)
    BY DEF Next, vars, Handle, Emit, Begin, Raise, GiveUp, Cancel, Claim, Write, Receipt,
           Verify, Crash
  <2> QED BY <2>1, <2>2, <2>3
<1>2. \A e \in Events : \A u \in context'[e].known : ScopeOf[u] = ScopeOf[e]
  <2>1. CASE context' = context
    BY <2>1 DEF ScopesStayApart
  <2>2. ASSUME NEW f \in Events, context' = [context EXCEPT ![f] = Snapshot(f, arrived')]
        PROVE  \A e \in Events : \A u \in context'[e].known : ScopeOf[u] = ScopeOf[e]
    <3>1. arrived' \in Seq(Events)
      BY TypeInductive DEF KernelTypeOK
    <3>2. \A u \in Snapshot(f, arrived').known : ScopeOf[u] = ScopeOf[f]
      BY <3>1, ContextKnown
    <3>3. \A e \in Events : context'[e] = IF e = f THEN Snapshot(f, arrived') ELSE context[e]
      BY <2>2 DEF KernelTypeOK
    <3> QED BY <3>2, <3>3 DEF ScopesStayApart
  <2>3. CASE context' = Kept(attempts')
    BY <2>3 DEF ScopesStayApart, Kept, NoContext
  <2> QED BY <2>1, <2>2, <2>3, ContextStep
<1> QED BY <1>1, <1>2 DEF ScopesStayApart

-----------------------------------------------------------------------------
(* What the model was shown is what is there *)

(* What is told of the deliveries, by their numbers.                       *)
LEMMA ToldOf ==
  ASSUME NEW s
  PROVE  Told(s) = {<<d, outbox[d].status>> : d \in Latest(s)}
BY DEF Told, Latest

(* A context stays fresh while only the fate of deliveries changes.        *)
LEMMA FreshKept ==
  ASSUME NEW e \in Events, UpToDate(e), context'[e] = context[e],
         arrived' = arrived, entries' = entries, DOMAIN outbox' = DOMAIN outbox,
         \A d \in DOMAIN outbox : outbox'[d].event = outbox[d].event
  PROVE  UpToDate(e)'
<1>1. Latest(ScopeOf[e])' = Latest(ScopeOf[e])
  BY DEF Latest
<1>2. /\ Snapshot(e, arrived)'.known = Snapshot(e, arrived).known
      /\ Snapshot(e, arrived)'.seen = Snapshot(e, arrived).seen
  BY DEF Snapshot, Recent, Visible
<1> QED BY <1>1, <1>2 DEF UpToDate

(* While an attempt runs, nothing moves under it but deliveries.           *)
LEMMA PresentedInductive ==
  ASSUME KernelTypeOK, CallersOK, LastOnly, OneRuns, Presented, [Next]_vars
  PROVE  Presented'
<1>1. attempts \in [Events -> Seq(AttemptStatuses)] /\ context \in [Events -> Context]
  BY DEF KernelTypeOK
<1> DEFINE SourcesStay == /\ arrived' = arrived /\ entries' = entries
                    /\ DOMAIN outbox' = DOMAIN outbox
                    /\ \A d \in DOMAIN outbox : outbox'[d].event = outbox[d].event
<1>2. ASSUME SourcesStay, attempts' = attempts,
             \A e \in Events : Running(e) => context'[e] = context[e]
      PROVE  Presented'
  <2>1. \A e \in Events : Running(e)' => Running(e)
    BY <1>2 DEF Running, LastOf
  <2> QED BY <1>2, <2>1, FreshKept DEF Presented
<1>3. ASSUME NEW e \in Events, NEW status, Ends(e, status)
      PROVE  Presented'
  BY <1>1, <1>3, EndsFacts DEF Presented
<1>4. ASSUME NEW c \in Callers, NEW e \in Events, Begin(c, e)
      PROVE  Presented'
  <2>1. \A f \in Events : Running(f)' => f = e
    BY <1>1, <1>4, BeginsFacts DEF Begin, Begins
  <2>2. context'[e] = Snapshot(e, arrived') /\ entries' = entries /\ outbox' = outbox
    BY <1>1, <1>4 DEF Begin
  <2>3. Snapshot(e, arrived)' = Snapshot(e, arrived')
    BY <2>2 DEF Snapshot, Visible, Told, Recent
  <2>4. context'[e].deliveries = {<<d, outbox[d].status>> : d \in Latest(ScopeOf[e])}
    BY <2>2, ToldOf DEF Snapshot
  <2>5. Latest(ScopeOf[e])' = Latest(ScopeOf[e])
    BY <2>2 DEF Latest
  <2>6. /\ \A t \in context'[e].deliveries : t[1] \in Latest(ScopeOf[e])
        /\ \A d \in Latest(ScopeOf[e]) : \E t \in context'[e].deliveries : t[1] = d
    <3>1. \A d \in Latest(ScopeOf[e]) : <<d, outbox[d].status>>[1] = d
      OBVIOUS
    <3>2. ASSUME NEW t \in context'[e].deliveries
          PROVE  t[1] \in Latest(ScopeOf[e])
      <4>1. PICK d \in Latest(ScopeOf[e]) : t = <<d, outbox[d].status>>
        BY <2>4
      <4> QED BY <3>1, <4>1
    <3>3. ASSUME NEW d \in Latest(ScopeOf[e])
          PROVE  \E t \in context'[e].deliveries : t[1] = d
      <4>1. <<d, outbox[d].status>> \in context'[e].deliveries
        BY <2>4
      <4> QED BY <3>1, <4>1
    <3> QED BY <3>2, <3>3
  <2>7. UpToDate(e)'
    BY <2>2, <2>3, <2>5, <2>6 DEF UpToDate
  <2> QED BY <2>1, <2>7 DEF Presented
<1>5. CASE context' = Kept(attempts') /\ SourcesStay /\ attempts' = attempts
  <2>1. \A e \in Events : Running(e) => context'[e] = context[e]
    BY <1>5 DEF Kept, Running, LastOf
  <2> QED BY <1>2, <1>5, <2>1
<1>6. CASE context' = context /\ SourcesStay /\ attempts' = attempts
  BY <1>2, <1>6
<1>7. ASSUME NEW c \in Callers, Commit(c)
      PROVE  Presented'
  <2> DEFINE e == caller[c].about
  <2>1. e \in Events /\ Running(e) /\ Len(attempts[e]) = caller[c].attempt
    BY <1>7 DEF Commit, CallersOK, HandlingOK, Handling, Eligible
  <2>2. attempts' = [attempts EXCEPT ![e] = [@ EXCEPT ![Len(attempts[e])] = "completed"]]
    BY <1>7, <2>1 DEF Commit
  <2>3. Ends(e, "completed")
    BY <2>1, <2>2 DEF Ends
  <2> QED BY <1>3, <2>1, <2>3
<1>8. ASSUME NEW c \in Callers, GiveUp(c)
      PROVE  Presented'
  <2>1. caller[c].about \in Events /\ caller[c].attempt \in DOMAIN attempts[caller[c].about]
    BY <1>8 DEF GiveUp, CallersOK, HandlingOK, Handling
  <2>2. PICK status \in {"failed", "cancelled"} :
          \/ attempts' = attempts
          \/ attempts' = Ended(caller[c].about, caller[c].attempt, status)
    BY <1>8 DEF GiveUp
  <2>3. attempts' = attempts \/ Ends(caller[c].about, status)
    BY <1>1, <2>1, <2>2, EndedFacts
  <2>4. context' = Kept(attempts') /\ SourcesStay
    BY <1>8 DEF GiveUp
  <2> QED BY <1>3, <1>5, <2>1, <2>3, <2>4
<1>9. ASSUME NEW e \in Events, Cancel(e)
      PROVE  Presented'
  <2>1. Len(attempts[e]) \in DOMAIN attempts[e]
    BY <1>1, <1>9, RunningLast DEF Cancel
  <2>2. attempts' = attempts \/ Ends(e, "cancelled")
    BY <1>1, <1>9, <2>1, EndedFacts DEF Cancel
  <2>3. context' = Kept(attempts') /\ SourcesStay
    BY <1>9 DEF Cancel
  <2> QED BY <1>3, <1>5, <2>2, <2>3
<1>10. ASSUME NEW d \in DOMAIN outbox, MovesOn(d),
              arrived' = arrived, entries' = entries, context' = context, attempts' = attempts
       PROVE  Presented'
  BY <1>6, <1>10 DEF MovesOn
<1>11. ASSUME NEW c \in Callers, NEW d \in DOMAIN outbox, Claim(c, d)
       PROVE  Presented'
  BY <1>10, <1>11, ClaimStep DEF Claim
<1>12. ASSUME NEW c \in Callers, Write(c) \/ Receipt(c)
       PROVE  Presented'
  <2>1. MovesOn(caller[c].about)
    BY <1>12, WriteStep, ReceiptStep
  <2> QED BY <1>10, <1>12, <2>1 DEF Write, Receipt, MovesOn
<1>13. ASSUME NEW d \in DOMAIN outbox, Verify(d)
       PROVE  Presented'
  BY <1>10, <1>13, VerifyStep DEF Verify
<1>14. ASSUME NEW c \in Callers, Raise(c) \/ Crash(c)
       PROVE  Presented'
  BY <1>6, <1>14 DEF Raise, Crash
<1>15. CASE UNCHANGED vars
  BY <1>6, <1>15 DEF vars
<1> HIDE DEF SourcesStay
<1> QED BY <1>4, <1>7, <1>8, <1>9, <1>11, <1>12, <1>13, <1>14, <1>15 DEF Next, Handle, Emit

-----------------------------------------------------------------------------
(* The invariant *)

KernelInv ==
    /\ KernelTypeOK
    /\ LastOnly /\ OneRuns
    /\ CallersOK /\ PrintsAlone /\ Shown
    /\ RepliesBelong
    /\ ScopesStayApart
    /\ Presented

(* The empty database.                                                     *)
LEMMA KernelInitial == Init => KernelInv
<1> SUFFICES ASSUME Init PROVE KernelInv
  OBVIOUS
<1>1. KernelTypeOK
  <2>1. NoContext \in Context
    BY KernelAssumption DEF NoContext, Context
  <2>2. [version |-> 0, status |-> "none", evidence |-> {}] \in Entry
    BY KernelAssumption DEF Entry, EntryStatuses
  <2>3. Idle \in [at : Steps, about : {0} \cup Events \cup Nat, attempt : Nat]
    BY DEF Idle, Steps
  <2>4. entries \in [Scopes -> [Keys -> Entry]]
    BY <2>2 DEF Init
  <2>5. caller \in [Callers -> [at : Steps, about : {0} \cup Events \cup Nat, attempt : Nat]]
    BY <2>3 DEF Init
  <2> QED BY <2>1, <2>4, <2>5 DEF Init, KernelTypeOK
<1>2. \A c \in Callers : ~Handling(c) /\ ~Printing(c)
  BY DEF Init, Idle, Handling, Printing
<1>3. CallersOK /\ PrintsAlone
  BY <1>2 DEF CallersOK, HandlingOK, PrintingOK, PrintsAlone
<1>4. \A e \in Events : ~Running(e)
  BY DEF Init, Running
<1>5. OneRuns /\ Presented
  BY <1>4 DEF OneRuns, Presented
<1>6. LastOnly /\ Shown /\ RepliesBelong
  BY DEF Init, LastOnly, Shown, RepliesBelong
<1>7. ScopesStayApart
  BY DEF Init, ScopesStayApart, NoContext
<1> QED BY <1>1, <1>3, <1>5, <1>6, <1>7 DEF KernelInv

(* Every step keeps the invariant.                                         *)
LEMMA KernelInductive == KernelInv /\ [Next]_vars => KernelInv'
<1> SUFFICES ASSUME KernelInv, [Next]_vars PROVE KernelInv'
  OBVIOUS
<1>1. KernelTypeOK'
  BY TypeInductive DEF KernelInv
<1>2. LastOnly' /\ OneRuns'
  BY GrowthStep DEF KernelInv
<1>3. (\A c \in Callers : PrintingOK(c)') /\ PrintsAlone' /\ Shown'
  BY PrintingInductive DEF KernelInv
<1>4. CallersOK'
  BY <1>3, HandlingInductive DEF KernelInv, CallersOK
<1>5. RepliesBelong'
  BY RepliesInductive DEF KernelInv
<1>6. ScopesStayApart'
  BY ScopesInductive DEF KernelInv
<1>7. Presented'
  BY PresentedInductive DEF KernelInv
<1> QED BY <1>1, <1>2, <1>3, <1>4, <1>5, <1>6, <1>7 DEF KernelInv

(* Every transaction of the store, every step of a thread in handle or in  *)
(* emit, every crash and every act of the operator keeps KernelInv.        *)
THEOREM KernelInvariance == Spec => []KernelInv
BY KernelInitial, KernelInductive, PTL DEF Spec

(* The tables of the store stay well formed: KernelTypeOK.                 *)
THEOREM KernelTyped == Spec => []KernelTypeOK
<1>1. KernelInv => KernelTypeOK
  BY DEF KernelInv
<1> QED BY <1>1, KernelInvariance, PTL

(* OncePerEvent is part of the invariant: an event has at most one         *)
(* completed attempt, since only the last can be one.                      *)
LEMMA OncePerEventFollows == KernelInv => OncePerEvent
<1> SUFFICES ASSUME KernelInv PROVE OncePerEvent
  OBVIOUS
<1>1. \A e \in Events :
         Cardinality({n \in DOMAIN attempts[e] : attempts[e][n] = "completed"}) <= 1
  <2> TAKE e \in Events
  <2> DEFINE done == {n \in DOMAIN attempts[e] : attempts[e][n] = "completed"}
  <2>1. done \subseteq {Len(attempts[e])}
    BY DEF KernelInv, LastOnly
  <2>2. done = {} \/ done = {Len(attempts[e])}
    BY <2>1
  <2>3. Cardinality(done) \in {0, 1}
    BY <2>2, FS_EmptySet, FS_Singleton, Zenon
  <2> HIDE DEF done
  <2>4. Cardinality(done) <= 1
    BY <2>3
  <2> QED BY <2>4 DEF done
<1>2. DecidedOnce
  BY <1>1 DEF KernelInv, RepliesBelong, DecidedOnce
<1>3. ShownOnce
  BY DEF KernelInv, Shown, ShownOK, ShownOnce
<1> QED BY <1>2, <1>3 DEF OncePerEvent, KernelInv

(* finish commits an event once and leaves it one reply; emit prints the   *)
(* reply once and its row says truly whether it did; neither the entries   *)
(* of a conversation nor the context of a decision cite another one.       *)
THEOREM DecidedAndPrintedOnce == Spec => []OncePerEvent
BY OncePerEventFollows, KernelInvariance, PTL

-----------------------------------------------------------------------------
(* The decisions *)

(* What finish checks, that no delivery of the context has moved, is all   *)
(* that may have changed: the context is the projection of now.            *)
LEMMA FreshUnmoved ==
  ASSUME KernelTypeOK, NEW e \in Events, UpToDate(e), Unmoved(e)
  PROVE  context[e] = Snapshot(e, arrived)
<1> DEFINE told == context[e].deliveries
           last == Latest(ScopeOf[e])
<1>1. context[e] \in Context
  BY DEF KernelTypeOK
<1>2. told \subseteq Nat \X DeliveryStatuses
  BY <1>1 DEF Context
<1>3. \A t \in told : t[1] \in last /\ t = <<t[1], outbox[t[1]].status>>
  BY <1>2 DEF UpToDate, Unmoved
<1>4. \A d \in last : <<d, outbox[d].status>> \in told
  <2> TAKE d \in last
  <2>1. PICK t \in told : t[1] = d
    BY DEF UpToDate
  <2> QED BY <1>3, <2>1
<1> HIDE DEF told, last
<1>5. told = {<<d, outbox[d].status>> : d \in last}
  BY <1>3, <1>4
<1>6. told = Snapshot(e, arrived).deliveries
  BY <1>5, ToldOf DEF Snapshot, last
<1>7. context[e] = [known |-> context[e].known, seen |-> context[e].seen, deliveries |-> told]
  BY <1>1 DEF Context, told
<1> QED BY <1>6, <1>7 DEF UpToDate, Snapshot

(* Only finish completes an attempt.                                       *)
LEMMA CompletedStep ==
  ASSUME KernelInv, [Next]_vars, NEW e \in Events, Running(e),
         attempts'[e] = [attempts[e] EXCEPT ![Len(attempts[e])] = "completed"]
  PROVE  \E c \in Callers : Commit(c) /\ caller[c].about = e
<1>1. /\ attempts \in [Events -> Seq(AttemptStatuses)]
      /\ KernelTypeOK /\ LastOnly /\ OneRuns /\ CallersOK
  BY DEF KernelInv, KernelTypeOK
<1>2. /\ attempts[e][Len(attempts[e])] = "running"
      /\ attempts'[e][Len(attempts[e])] = "completed"
  BY <1>1, RunningLast
<1>3. attempts' # attempts
  BY <1>2
<1>4. ASSUME NEW f \in Events, NEW status, Ends(f, status)
      PROVE  f = e /\ status = "completed"
  <2>1. f = e
    BY <1>1, <1>4 DEF Ends, OneRuns
  <2> QED BY <1>1, <1>2, <1>4, <2>1, EndsFacts
<1>5. ASSUME NEW c \in Callers, GiveUp(c)
      PROVE  FALSE
  <2>1. caller[c].about \in Events /\ caller[c].attempt \in DOMAIN attempts[caller[c].about]
    BY <1>1, <1>5 DEF GiveUp, CallersOK, HandlingOK, Handling
  <2>2. PICK status \in {"failed", "cancelled"} :
          attempts' = Ended(caller[c].about, caller[c].attempt, status)
    BY <1>3, <1>5 DEF GiveUp
  <2> QED BY <1>1, <1>3, <1>4, <2>1, <2>2, EndedFacts
<1>6. ASSUME NEW f \in Events, Cancel(f)
      PROVE  FALSE
  <2>1. Len(attempts[f]) \in DOMAIN attempts[f]
    BY <1>1, <1>6, RunningLast DEF Cancel
  <2> QED BY <1>1, <1>3, <1>4, <1>6, <2>1, EndedFacts DEF Cancel
<1>7. ASSUME NEW c \in Callers, NEW f \in Events, Begin(c, f)
      PROVE  FALSE
  BY <1>7 DEF Begin
<1>8. ASSUME NEW c \in Callers, Commit(c)
      PROVE  caller[c].about = e
  <2>1. /\ caller[c].about \in Events /\ Running(caller[c].about)
    BY <1>1, <1>8 DEF Commit, CallersOK, HandlingOK, Handling, Eligible
  <2> QED BY <1>1, <2>1 DEF OneRuns
<1> QED BY <1>3, <1>5, <1>6, <1>7, <1>8 DEF Next, vars, Handle, Emit, Raise, Claim, Write,
           Receipt, Verify, Crash

(* Whoever cancels, retries, decides or delivers while the model thinks:   *)
(* finish commits a decision only over the projection that begin showed,   *)
(* and no late fail or cancel rewrites how an attempt ended.               *)
THEOREM DecisionsAreKept == Spec => DecisionsStand
<1>1. ASSUME KernelInv, [Next]_vars, NEW e \in Events, Running(e),
             attempts'[e] = [attempts[e] EXCEPT ![Len(attempts[e])] = "completed"]
      PROVE  context[e] = Snapshot(e, arrived)
  <2>1. PICK c \in Callers : Commit(c) /\ caller[c].about = e
    BY <1>1, CompletedStep
  <2>2. Unmoved(e) /\ UpToDate(e)
    BY <1>1, <2>1 DEF Commit, KernelInv, Presented
  <2> QED BY <1>1, <2>2, FreshUnmoved DEF KernelInv
<1>2. KernelInv /\ [Next]_vars =>
        [\A e \in Events :
           /\ Running(e)
           /\ attempts'[e] = [attempts[e] EXCEPT ![Len(attempts[e])] = "completed"]
           => context[e] = Snapshot(e, arrived)]_vars
  BY <1>1
<1>3. KernelInv /\ [Next]_vars =>
        [\A e \in Events : \A n \in DOMAIN attempts[e] :
           attempts[e][n] # "running" => attempts'[e][n] = attempts[e][n]]_vars
  BY GrowthStep DEF KernelInv, Grown
<1>4. Spec => DecidesOnThePresent
  BY <1>2, KernelInvariance, PTL DEF Spec, DecidesOnThePresent
<1>5. Spec => EndedStays
  BY <1>3, KernelInvariance, PTL DEF Spec, EndedStays
<1> QED BY <1>4, <1>5 DEF DecisionsStand

-----------------------------------------------------------------------------
(* The memory store.  That a vector or a summary follows its source is not *)
(* inductive: what must be known besides is that nothing revoked is in use *)
(* again, that only a day's summary has sources, and that whatever a query *)
(* or the indexer still holds is only written where it stands.             *)

RevokedIsOut == \A r \in revoked : events[r].status \notin {"active", "expired"}

MessagesHaveNoSources == \A e \in Messages : events[e].parents = {}

ActiveHasText == \A r \in Records : events[r].status = "active" => events[r].text # 0

MemoryInv ==
    /\ MemoryTypeOK
    /\ RevokedIsOut
    /\ MessagesHaveNoSources
    /\ ActiveHasText
    /\ DerivedFollowsSource

EventRow == [status : {"absent", "active", "expired", "forgotten"},
             text : 0..2, parents : SUBSET Messages]
LifeRow == [row : BOOLEAN, tier : 1..3, brief : BOOLEAN, reclaimed : BOOLEAN]
Asked == [at : {"idle", "read", "encoding", "scoring"}, saw : Texts(Messages),
          missing : Texts(Messages), answer : Texts(Messages)]

LEMMA DayIsNoMessage == Day \notin Messages /\ Day \in Records /\ Messages \subseteq Records
BY MemoriesAssumption DEF MemoryAssumption, Records

(* The rows the store starts from.                                         *)
LEMMA BlankRows ==
    /\ Gone \in EventRow /\ Gone.status = "absent" /\ Gone.text = 0 /\ Gone.parents = {}
    /\ NoLife \in LifeRow /\ NoLife.row = FALSE
BY DEF Gone, NoLife, EventRow, LifeRow

(* Nothing that stands was revoked.                                        *)
LEMMA StandingIsKept ==
    ASSUME RevokedIsOut, NEW p, Stands(p)
    PROVE  p[1] \notin revoked
BY DEF RevokedIsOut, Stands

(* What was read of rows that are in use is a text of each.                *)
LEMMA SeenTexts ==
    ASSUME MemoryTypeOK, ActiveHasText, NEW some \in SUBSET Active
    PROVE  /\ Seen(some) \in Texts(Records)
           /\ some \subseteq Messages => Seen(some) \in Texts(Messages)
<1>1. \A r \in some : r \in Records /\ events[r].text \in 1..2
  BY DEF MemoryTypeOK, ActiveHasText, Active
<1> QED BY <1>1 DEF Seen, Texts

(* The parts of the invariant that speak of single records, of which a     *)
(* step changed some.                                                      *)
LEMMA RecordByRecord ==
    ASSUME MemoryInv,
           events' \in [Records -> EventRow],
           vec' \in [Records -> 0..2],
           revoked \subseteq revoked', revoked' \subseteq Records,
           \A r \in revoked' : events'[r].status \notin {"active", "expired"},
           \A e \in Messages : events'[e].parents = {},
           \A r \in Records : events'[r].status = "active" => events'[r].text # 0,
           \A e \in revoked' \cap Messages :
               vec'[e] = 0 /\ ~life'[e].row /\ \A p \in queryCache' : p[1] # e,
           \A r \in Records : vec'[r] # 0 => events'[r].text = vec'[r],
           events'[Day].status = "active" => events'[Day].parents \cap revoked' = {},
           life' \in [Messages -> LifeRow],
           queryCache' \in Texts(Messages),
           UNCHANGED <<indexer, rollup, query>>,
           forgetter' \in {"idle", "clearing"}
    PROVE  MemoryInv'
BY DEF MemoryInv, MemoryTypeOK, RevokedIsOut, MessagesHaveNoSources, ActiveHasText,
       DerivedFollowsSource, EventRow, LifeRow

LEMMA RecordEventKeeps ==
    ASSUME MemoryInv, NEW e \in Messages, RecordEvent(e)
    PROVE  MemoryInv'
<1>1. PICK blank \in EventRow, none \in LifeRow : blank = Gone /\ none = NoLife
  BY BlankRows
<1>2. PICK s \in {"absent", "active", "expired", "forgotten"}, n \in 0..2 : s = "active" /\ n = 1
  OBVIOUS
<1> DEFINE new == [blank EXCEPT !.status = s, !.text = n]
           lives == [none EXCEPT !.row = TRUE]
<1>3. /\ new \in EventRow /\ new.status = s /\ new.text = n /\ new.parents = blank.parents
      /\ lives \in LifeRow
  BY DEF EventRow, LifeRow
<1>4. /\ events' = [events EXCEPT ![e] = new] /\ life' = [life EXCEPT ![e] = lives]
      /\ e \notin revoked /\ events[e] = Gone
      /\ UNCHANGED <<vec, queryCache, revoked, forgetter, indexer, rollup, query>>
  BY <1>1, <1>2, Zenon DEF RecordEvent, Untouched
<1> HIDE DEF new, lives
<1>5. /\ events' \in [Records -> EventRow] /\ events'[e] = new
      /\ \A r \in Records \ {e} : events'[r] = events[r]
      /\ life' \in [Messages -> LifeRow]
      /\ \A m \in Messages \ {e} : life'[m] = life[m]
  BY <1>3, <1>4, DayIsNoMessage DEF MemoryInv, MemoryTypeOK, EventRow, LifeRow
<1>6. vec[e] = 0
  BY <1>4, BlankRows, DayIsNoMessage DEF MemoryInv, DerivedFollowsSource, MemoryTypeOK
<1> QED BY <1>1, <1>2, <1>3, <1>4, <1>5, <1>6, BlankRows, DayIsNoMessage, RecordByRecord
        DEF MemoryInv, MemoryTypeOK, RevokedIsOut, MessagesHaveNoSources, ActiveHasText,
            DerivedFollowsSource

LEMMA ForgetKeeps ==
    ASSUME MemoryInv, NEW matched \in SUBSET Records, NEW purge \in BOOLEAN,
           Forget(matched, purge)
    PROVE  MemoryInv'
<1> DEFINE linked == Linked(matched)
<1>1. /\ linked \subseteq Records /\ matched \subseteq linked
      /\ revoked' = revoked \cup linked
      /\ events' = [r \in Records |-> IF r \notin linked THEN events[r]
                                      ELSE IF purge THEN Gone
                                      ELSE [events[r] EXCEPT !.status = "forgotten"]]
      /\ life' = [e \in Messages |-> IF e \in linked THEN NoLife ELSE life[e]]
      /\ vec' = [r \in Records |-> IF r \in linked THEN 0 ELSE vec[r]]
      /\ queryCache' = {p \in queryCache : p[1] \notin linked}
      /\ forgetter' = "clearing"
      /\ UNCHANGED <<indexer, rollup, query>>
  BY DEF Forget, Linked
<1>2. events[Day].status = "active" /\ Day \notin linked
         => events[Day].parents \cap linked = {}
  <2>1. ASSUME events[Day].status = "active", Day \notin linked,
               NEW m \in events[Day].parents \cap linked
        PROVE  FALSE
    <3>1. m \in Messages /\ events[m].parents = {}
      BY <2>1, DayIsNoMessage DEF MemoryInv, MemoryTypeOK, MessagesHaveNoSources
    <3>2. m \in matched
      BY <2>1, <3>1 DEF Linked
    <3>3. events[Day] # Gone
      BY <2>1, BlankRows
    <3> QED BY <2>1, <3>2, <3>3, DayIsNoMessage DEF Linked
  <2> QED BY <2>1
<1> HIDE DEF linked
<1>3. ASSUME NEW r \in Records
      PROVE  /\ r \notin linked => events'[r] = events[r]
             /\ r \in linked => /\ events'[r].status \notin {"active", "expired"}
                              /\ events'[r].parents \in {{}, events[r].parents}
             /\ events'[r] \in EventRow
  <2>1. events[r] \in EventRow
    BY DEF MemoryInv, MemoryTypeOK, EventRow
  <2>2. CASE r \notin linked
    BY <1>1, <2>1, <2>2
  <2>3. CASE r \in linked /\ purge
    BY <1>1, <2>3, BlankRows
  <2>4. CASE r \in linked /\ ~purge
    <3>1. events'[r] = [events[r] EXCEPT !.status = "forgotten"]
      BY <1>1, <2>4
    <3>2. PICK old \in EventRow : old = events[r]
      BY <2>1
    <3>3. /\ events'[r] \in EventRow /\ events'[r].status = "forgotten"
          /\ events'[r].parents = old.parents
      <4>1. events'[r] = [old EXCEPT !.status = "forgotten"]
        BY <3>1, <3>2, Zenon
      <4> QED BY <4>1 DEF EventRow
    <3> QED BY <2>4, <3>2, <3>3
  <2> QED BY <2>2, <2>3, <2>4
<1>4. /\ events' \in [Records -> EventRow] /\ vec' \in [Records -> 0..2]
      /\ life' \in [Messages -> LifeRow] /\ queryCache' \in Texts(Messages)
  BY <1>1, <1>3, BlankRows DEF MemoryInv, MemoryTypeOK, LifeRow, Texts
<1>5. \A r \in revoked' : events'[r].status \notin {"active", "expired"}
  BY <1>1, <1>3 DEF MemoryInv, MemoryTypeOK, RevokedIsOut
<1>6. \A e \in Messages : events'[e].parents = {}
  BY <1>3, DayIsNoMessage DEF MemoryInv, MessagesHaveNoSources
<1>7. \A r \in Records : events'[r].status = "active" => events'[r].text # 0
  BY <1>3 DEF MemoryInv, ActiveHasText
<1>8. \A e \in revoked' \cap Messages :
          vec'[e] = 0 /\ ~life'[e].row /\ \A p \in queryCache' : p[1] # e
  BY <1>1, BlankRows, DayIsNoMessage DEF MemoryInv, DerivedFollowsSource
<1>9. \A r \in Records : vec'[r] # 0 => events'[r].text = vec'[r]
  BY <1>1, <1>3 DEF MemoryInv, DerivedFollowsSource
<1>10. events'[Day].status = "active" => events'[Day].parents \cap revoked' = {}
  BY <1>1, <1>2, <1>3, DayIsNoMessage DEF MemoryInv, DerivedFollowsSource
<1>11. revoked \subseteq revoked' /\ revoked' \subseteq Records
  BY <1>1 DEF MemoryInv, MemoryTypeOK
<1> QED BY <1>1, <1>4, <1>5, <1>6, <1>7, <1>8, <1>9, <1>10, <1>11, RecordByRecord

LEMMA ResetAllKeeps ==
    ASSUME MemoryInv, ResetAll
    PROVE  MemoryInv'
<1>1. /\ revoked' = revoked \cup {r \in Records : events[r] # Gone}
      /\ events' = [r \in Records |-> Gone] /\ life' = [e \in Messages |-> NoLife]
      /\ vec' = [r \in Records |-> 0] /\ queryCache' = {} /\ forgetter' = "clearing"
      /\ UNCHANGED <<indexer, rollup, query>>
  BY DEF ResetAll
<1>2. /\ events' \in [Records -> EventRow] /\ vec' \in [Records -> 0..2]
      /\ life' \in [Messages -> LifeRow] /\ queryCache' \in Texts(Messages)
      /\ revoked \subseteq revoked' /\ revoked' \subseteq Records
  BY <1>1, BlankRows DEF MemoryInv, MemoryTypeOK, Texts
<1>3. \A r \in Records : events'[r] = Gone /\ vec'[r] = 0
  BY <1>1
<1>4. \A e \in Messages : life'[e] = NoLife
  BY <1>1
<1> QED BY <1>1, <1>2, <1>3, <1>4, BlankRows, DayIsNoMessage, RecordByRecord

(* Where a row keeps its status, its sources and, unless its vector is     *)
(* dropped, its text.                                                      *)
LEMMA LifecycleKeeps ==
    ASSUME MemoryInv, NEW e \in Messages, events[e].status = "active",
           NEW new \in EventRow, events' = [events EXCEPT ![e] = new],
           new.parents = events[e].parents,
           new.status = "active" => new.text # 0,
           NEW v \in 0..2, vec' = [vec EXCEPT ![e] = v], v # 0 => new.text = v,
           NEW lives \in LifeRow, life' = [life EXCEPT ![e] = lives],
           UNCHANGED <<queryCache, revoked>>, Untouched
    PROVE  MemoryInv'
<1>1. /\ events' \in [Records -> EventRow] /\ events'[e] = new
      /\ \A r \in Records \ {e} : events'[r] = events[r]
      /\ vec' \in [Records -> 0..2] /\ vec'[e] = v
      /\ \A r \in Records \ {e} : vec'[r] = vec[r]
      /\ life' \in [Messages -> LifeRow]
      /\ \A m \in Messages \ {e} : life'[m] = life[m]
  BY DayIsNoMessage DEF MemoryInv, MemoryTypeOK, EventRow, LifeRow
<1>2. e \notin revoked
  BY DEF MemoryInv, RevokedIsOut
<1> QED BY <1>1, <1>2, DayIsNoMessage, RecordByRecord
        DEF MemoryInv, MemoryTypeOK, RevokedIsOut, MessagesHaveNoSources, ActiveHasText,
            DerivedFollowsSource, Untouched

LEMMA ReinforceKeeps ==
    ASSUME MemoryInv, NEW e \in Messages, NEW text \in {1, 2}, NEW tier \in {2, 3},
           Reinforce(e, text, tier)
    PROVE  MemoryInv'
<1>1. PICK old : old = life[e]
  OBVIOUS
<1>2. old \in LifeRow
  BY <1>1 DEF MemoryInv, MemoryTypeOK, LifeRow
<1>0. PICK lives : lives = [old EXCEPT !.row = TRUE, !.tier = tier, !.brief = FALSE]
  OBVIOUS
<1>3. lives \in LifeRow
  <2>1. tier \in 1..3
    OBVIOUS
  <2> QED BY <1>0, <1>2, <2>1 DEF LifeRow
<1>4. /\ events[e].status = "active" /\ life' = [life EXCEPT ![e] = lives]
      /\ UNCHANGED <<events, vec, queryCache, revoked>> /\ Untouched
  BY <1>0, <1>1 DEF Reinforce, Stands
<1>5. /\ events[e] \in EventRow /\ events' = [events EXCEPT ![e] = events[e]]
      /\ vec[e] \in 0..2 /\ vec' = [vec EXCEPT ![e] = vec[e]]
  BY <1>4, DayIsNoMessage DEF MemoryInv, MemoryTypeOK, EventRow
<1>6. /\ vec[e] # 0 => events[e].text = vec[e]
      /\ events[e].status = "active" => events[e].text # 0
  BY DayIsNoMessage DEF MemoryInv, DerivedFollowsSource, ActiveHasText
<1> QED BY <1>3, <1>4, <1>5, <1>6, LifecycleKeeps

LEMMA ScanKeeps ==
    ASSUME MemoryInv, NEW e \in Messages, Scan(e)
    PROVE  MemoryInv'
<1>1. PICK old, was : old = life[e] /\ was = events[e]
  OBVIOUS
<1>2. old \in LifeRow /\ was \in EventRow /\ vec[e] \in 0..2
  BY <1>1, DayIsNoMessage DEF MemoryInv, MemoryTypeOK, LifeRow, EventRow
<1>3. /\ events[e].status = "active" /\ UNCHANGED <<queryCache, revoked>> /\ Untouched
      /\ vec[e] # 0 => events[e].text = vec[e]
      /\ events[e].text # 0
  BY DayIsNoMessage DEF Scan, MemoryInv, DerivedFollowsSource, ActiveHasText
<1>4. /\ [old EXCEPT !.tier = 1] \in LifeRow /\ [old EXCEPT !.brief = TRUE] \in LifeRow
      /\ [old EXCEPT !.brief = FALSE, !.reclaimed = TRUE] \in LifeRow
      /\ [old EXCEPT !.reclaimed = TRUE] \in LifeRow
  <2>1. ASSUME NEW n \in 1..3
        PROVE  [old EXCEPT !.tier = n] \in LifeRow
    BY <1>2 DEF LifeRow
  <2>2. /\ [old EXCEPT !.brief = TRUE] \in LifeRow
        /\ [old EXCEPT !.brief = FALSE, !.reclaimed = TRUE] \in LifeRow
        /\ [old EXCEPT !.reclaimed = TRUE] \in LifeRow
    BY <1>2 DEF LifeRow
  <2>3. 1 \in 1..3
    OBVIOUS
  <2> QED BY <2>1, <2>2, <2>3, Zenon
<1>5. ASSUME NEW new \in LifeRow, life' = [life EXCEPT ![e] = new], UNCHANGED <<events, vec>>
      PROVE  MemoryInv'
  <2>1. events' = [events EXCEPT ![e] = was] /\ vec' = [vec EXCEPT ![e] = vec[e]]
    BY <1>1, <1>5, DayIsNoMessage DEF MemoryInv, MemoryTypeOK
  <2> QED BY <1>1, <1>2, <1>3, <1>5, <2>1, LifecycleKeeps
<1>6. CASE Demote(e)
  BY <1>1, <1>4, <1>5, <1>6 DEF Demote
<1>7. CASE Summarize(e)
  BY <1>1, <1>4, <1>5, <1>7 DEF Summarize
<1>8. CASE ReclaimRaw(e)
  <2> DEFINE new == [was EXCEPT !.text = 2]
             lives == [old EXCEPT !.brief = FALSE, !.reclaimed = TRUE]
  <2>1. new \in EventRow /\ new.text = 2 /\ new.parents = was.parents
    BY <1>2 DEF EventRow
  <2>2. /\ events' = [events EXCEPT ![e] = new] /\ vec' = [vec EXCEPT ![e] = 0]
        /\ life' = [life EXCEPT ![e] = lives]
    BY <1>1, <1>8 DEF ReclaimRaw
  <2>3. lives \in LifeRow /\ 0 \in 0..2
    BY <1>4
  <2> HIDE DEF new, lives
  <2>4. new.text # 0
    BY <2>1
  <2> QED BY <1>1, <1>3, <2>1, <2>2, <2>3, <2>4, LifecycleKeeps
<1>9. CASE Expire(e)
  <2>1. PICK n \in 0..2 : n = 0
    OBVIOUS
  <2>2. PICK s \in {"absent", "active", "expired", "forgotten"} : s = "expired"
    OBVIOUS
  <2> DEFINE new == [was EXCEPT !.text = n, !.status = s]
             lives == [old EXCEPT !.reclaimed = TRUE]
  <2>3. new \in EventRow /\ new.status = s /\ new.parents = was.parents
    BY <1>2 DEF EventRow
  <2>4. /\ events' = [events EXCEPT ![e] = new] /\ vec' = [vec EXCEPT ![e] = 0]
        /\ life' = [life EXCEPT ![e] = lives]
    BY <1>1, <1>9, <2>1, <2>2, Zenon DEF Expire
  <2>5. lives \in LifeRow /\ 0 \in 0..2
    BY <1>4
  <2> HIDE DEF new, lives
  <2> QED BY <1>1, <1>3, <2>3, <2>4, <2>5, <2>2, LifecycleKeeps
<1> QED BY <1>6, <1>7, <1>8, <1>9 DEF Scan

LEMMA IndexKeeps ==
    ASSUME MemoryInv, IndexRead \/ IndexWrite
    PROVE  MemoryInv'
<1>1. CASE IndexRead
  <2>1. /\ indexer' = [at |-> "encoding",
                       saw |-> Seen({r \in Active : vec[r] # events[r].text})]
        /\ UNCHANGED <<events, life, vec, queryCache, revoked, forgetter, rollup, query>>
    BY <1>1 DEF IndexRead
  <2>2. Seen({r \in Active : vec[r] # events[r].text}) \in Texts(Records)
    BY SeenTexts DEF MemoryInv
  <2>3. indexer' \in [at : {"idle", "encoding"}, saw : Texts(Records)]
    BY <2>1, <2>2
  <2> QED BY <2>1, <2>3 DEF MemoryInv, MemoryTypeOK, RevokedIsOut, MessagesHaveNoSources,
                            ActiveHasText, DerivedFollowsSource
<1>2. CASE IndexWrite
  <2>1. indexer.saw \in Texts(Records)
    BY DEF MemoryInv, MemoryTypeOK
  <2>2. ASSUME NEW r \in Records
        PROVE  \/ vec'[r] = vec[r]
               \/ /\ vec'[r] \in 1..2 /\ vec'[r] = events[r].text
                  /\ events[r].status = "active"
    <3> DEFINE texts == {p[2] : p \in {w \in Writable(indexer.saw) : w[1] = r}}
    <3>1. vec'[r] = IF texts = {} THEN vec[r] ELSE CHOOSE t \in texts : TRUE
      BY <1>2 DEF IndexWrite
    <3>2. ASSUME NEW t \in texts
          PROVE  t \in 1..2 /\ t = events[r].text /\ events[r].status = "active"
      <4>1. PICK p \in Writable(indexer.saw) : p[1] = r /\ t = p[2]
        OBVIOUS
      <4>2. p \in Records \X (1..2) /\ Stands(p)
        BY <2>1, <4>1 DEF Writable, Texts
      <4> QED BY <4>1, <4>2 DEF Stands
    <3>3. texts # {} => (CHOOSE t \in texts : TRUE) \in texts
      OBVIOUS
    <3> HIDE DEF texts
    <3> QED BY <3>1, <3>2, <3>3
  <2>3. /\ vec' \in [Records -> 0..2] /\ indexer' = Still
        /\ UNCHANGED <<events, life, queryCache, revoked, forgetter, rollup, query>>
    <3>1. /\ vec' = [r \in Records |-> vec'[r]] /\ indexer' = Still
          /\ UNCHANGED <<events, life, queryCache, revoked, forgetter, rollup, query>>
      BY <1>2 DEF IndexWrite
    <3>2. \A r \in Records : vec'[r] \in 0..2
      BY <2>2 DEF MemoryInv, MemoryTypeOK
    <3> QED BY <3>1, <3>2
  <2>4. MemoryTypeOK'
    BY <2>3 DEF MemoryInv, MemoryTypeOK, Still, Texts
  <2>5. DerivedFollowsSource'
    <3>1. \A r \in Records : vec'[r] # 0 => events'[r].text = vec'[r]
      BY <2>2, <2>3 DEF MemoryInv, DerivedFollowsSource
    <3>2. \A e \in revoked \cap Messages : vec'[e] = 0
      BY <2>2, DayIsNoMessage DEF MemoryInv, DerivedFollowsSource, RevokedIsOut
    <3> QED BY <2>3, <3>1, <3>2 DEF MemoryInv, DerivedFollowsSource
  <2> QED BY <2>3, <2>4, <2>5 DEF MemoryInv, RevokedIsOut, MessagesHaveNoSources, ActiveHasText
<1> QED BY <1>1, <1>2

LEMMA RollupKeeps ==
    ASSUME MemoryInv, RollupRead \/ RollupWrite
    PROVE  MemoryInv'
<1>1. CASE RollupRead
  <2>1. /\ rollup' = [at |-> "composing", saw |-> Seen(Active \cap Messages)]
        /\ UNCHANGED <<events, life, vec, queryCache, revoked, forgetter, indexer, query>>
    BY <1>1 DEF RollupRead
  <2>2. Seen(Active \cap Messages) \in Texts(Messages)
    BY SeenTexts DEF MemoryInv
  <2>3. rollup' \in [at : {"idle", "composing"}, saw : Texts(Messages)]
    BY <2>1, <2>2
  <2> QED BY <2>1, <2>3 DEF MemoryInv, MemoryTypeOK, RevokedIsOut, MessagesHaveNoSources,
                            ActiveHasText, DerivedFollowsSource
<1>2. CASE RollupWrite
  <2> DEFINE from == {p[1] : p \in rollup.saw}
             new == [status |-> "active", text |-> 1, parents |-> from]
  <2>1. /\ rollup' = Still
        /\ UNCHANGED <<life, vec, queryCache, revoked, forgetter, indexer, query>>
    BY <1>2 DEF RollupWrite
  <2>2. Still \in [at : {"idle", "composing"}, saw : Texts(Messages)]
    BY DEF Still, Texts
  <2>3. CASE events' = events
    BY <2>1, <2>2, <2>3 DEF MemoryInv, MemoryTypeOK, RevokedIsOut, MessagesHaveNoSources,
                            ActiveHasText, DerivedFollowsSource
  <2>4. CASE events' # events
    <3>1. /\ Day \notin revoked /\ events[Day] = Gone /\ \A p \in rollup.saw : Stands(p)
          /\ events' = [events EXCEPT ![Day] = new]
      BY <1>2, <2>4 DEF RollupWrite
    <3>2. from \subseteq Messages /\ from \cap revoked = {}
      <4>1. \A p \in rollup.saw : p[1] \in Messages
        BY DEF MemoryInv, MemoryTypeOK, Texts
      <4>2. \A p \in rollup.saw : p[1] \notin revoked
        BY <3>1, StandingIsKept DEF MemoryInv
      <4> QED BY <4>1, <4>2
    <3>3. new \in EventRow /\ new.status = "active" /\ new.text = 1 /\ new.parents = from
      BY <3>2 DEF EventRow
    <3> HIDE DEF new, from
    <3>4. /\ events' \in [Records -> EventRow] /\ events'[Day] = new
          /\ \A r \in Records \ {Day} : events'[r] = events[r]
      BY <3>1, <3>3, DayIsNoMessage DEF MemoryInv, MemoryTypeOK, EventRow
    <3>5. vec[Day] = 0
      BY <3>1, BlankRows, DayIsNoMessage DEF MemoryInv, DerivedFollowsSource, MemoryTypeOK
    <3>6. MemoryTypeOK'
      BY <2>1, <2>2, <3>4 DEF MemoryInv, MemoryTypeOK, EventRow
    <3>7. RevokedIsOut' /\ MessagesHaveNoSources' /\ ActiveHasText'
      BY <2>1, <3>1, <3>3, <3>4, DayIsNoMessage
         DEF MemoryInv, MemoryTypeOK, RevokedIsOut, MessagesHaveNoSources, ActiveHasText
    <3>8. DerivedFollowsSource'
      BY <2>1, <3>2, <3>3, <3>4, <3>5 DEF MemoryInv, DerivedFollowsSource
    <3> QED BY <3>6, <3>7, <3>8 DEF MemoryInv
  <2> QED BY <2>3, <2>4
<1> QED BY <1>1, <1>2

(* What a step of a query writes: itself, and texts that stand.            *)
LEMMA AskedKeeps ==
    ASSUME MemoryInv, NEW q \in Queries, NEW step \in Asked, Query(q, step),
           NEW found \in Texts(Messages), queryCache' = queryCache \cup Writable(found)
    PROVE  MemoryInv'
<1>1. /\ query' = [query EXCEPT ![q] = step]
      /\ UNCHANGED <<events, life, vec, revoked, forgetter, indexer, rollup>>
  BY DEF Query
<1>2. query' \in [Queries -> Asked]
  BY <1>1 DEF MemoryInv, MemoryTypeOK, Asked
<1>3. /\ Writable(found) \in Texts(Messages)
      /\ \A p \in Writable(found) : p[1] \notin revoked
  BY StandingIsKept DEF Writable, Texts, MemoryInv
<1>4. queryCache' \in Texts(Messages)
  BY <1>3 DEF MemoryInv, MemoryTypeOK, Texts
<1>5. \A r \in revoked \cap Messages : \A p \in queryCache' : p[1] # r
  BY <1>3 DEF MemoryInv, DerivedFollowsSource
<1>6. MemoryTypeOK'
  BY <1>1, <1>2, <1>4 DEF MemoryInv, MemoryTypeOK, Asked
<1>7. DerivedFollowsSource'
  BY <1>1, <1>5 DEF MemoryInv, DerivedFollowsSource
<1> QED BY <1>1, <1>6, <1>7 DEF MemoryInv, RevokedIsOut, MessagesHaveNoSources, ActiveHasText

LEMMA AskKeeps ==
    ASSUME MemoryInv, NEW q \in Queries, Ask(q)
    PROVE  MemoryInv'
<1>1. PICK was \in Asked : was = query[q]
  BY DEF MemoryInv, MemoryTypeOK, Asked
<1>2. {} \in Texts(Messages) /\ Writable({}) = {}
  BY DEF Texts, Writable
<1>3. /\ was.saw \in Texts(Messages) /\ was.missing \in Texts(Messages)
      /\ queryCache \in Texts(Messages)
  BY DEF Asked, MemoryInv, MemoryTypeOK
<1>4. CASE QueryRead(q)
  <2>1. PICK blank \in Asked : blank = Unasked
    BY <1>2 DEF Unasked, Asked
  <2>2. PICK some : some = Seen({e \in Active \cap Messages :
                                    life[e].tier = 1 /\ vec[e] # events[e].text})
    OBVIOUS
  <2>3. some \in Texts(Messages)
    BY <2>2, SeenTexts DEF MemoryInv
  <2>4. PICK s \in {"idle", "read", "encoding", "scoring"} : s = "read"
    OBVIOUS
  <2> DEFINE step == [blank EXCEPT !.at = s, !.saw = some]
  <2>5. Query(q, step) /\ UNCHANGED queryCache
    BY <1>4, <2>1, <2>2, <2>4, Zenon DEF QueryRead
  <2>6. step \in Asked
    BY <2>3 DEF Asked
  <2> HIDE DEF step
  <2>7. queryCache' = queryCache \cup Writable({})
    BY <1>2, <2>5
  <2> QED BY <1>2, <2>5, <2>6, <2>7, AskedKeeps
<1>5. CASE QueryMissing(q)
  <2>1. was.saw \ queryCache \in Texts(Messages)
    BY <1>3 DEF Texts
  <2>2. PICK s \in {"idle", "read", "encoding", "scoring"}, some \in Texts(Messages) :
            s = "encoding" /\ some = was.saw \ queryCache
    BY <2>1
  <2> DEFINE step == [was EXCEPT !.at = s, !.missing = some]
  <2>3. Query(q, step) /\ UNCHANGED queryCache
    BY <1>1, <1>5, <2>2, Zenon DEF QueryMissing
  <2>4. step \in Asked
    BY DEF Asked
  <2> HIDE DEF step
  <2>5. queryCache' = queryCache \cup Writable({})
    BY <1>2, <2>3
  <2> QED BY <1>2, <2>3, <2>4, <2>5, AskedKeeps
<1>6. CASE QueryFill(q)
  <2>1. PICK s \in {"idle", "read", "encoding", "scoring"}, some \in Texts(Messages) :
            s = "scoring" /\ some = {}
    BY <1>2
  <2> DEFINE step == [was EXCEPT !.at = s, !.missing = some]
  <2>2. Query(q, step)
    BY <1>1, <1>6, <2>1, Zenon DEF QueryFill
  <2>3. queryCache' = queryCache \cup Writable(was.missing)
    BY <1>1, <1>6 DEF QueryFill
  <2>4. step \in Asked
    BY DEF Asked
  <2> HIDE DEF step
  <2> QED BY <1>3, <2>2, <2>3, <2>4, AskedKeeps
<1>7. CASE QueryScore(q)
  <2>1. was.saw \cap queryCache \in Texts(Messages)
    BY <1>3 DEF Texts
  <2>2. PICK s \in {"idle", "read", "encoding", "scoring"},
             some \in Texts(Messages), known \in Texts(Messages) :
            s = "idle" /\ some = {} /\ known = was.saw \cap queryCache
    BY <1>2, <2>1
  <2> DEFINE step == [was EXCEPT !.at = s, !.saw = some, !.answer = known]
  <2>3. Query(q, step) /\ UNCHANGED queryCache
    BY <1>1, <1>7, <2>2, Zenon DEF QueryScore
  <2>4. step \in Asked
    BY DEF Asked
  <2> HIDE DEF step
  <2>5. queryCache' = queryCache \cup Writable({})
    BY <1>2, <2>3
  <2> QED BY <1>2, <2>3, <2>4, <2>5, AskedKeeps
<1> QED BY <1>4, <1>5, <1>6, <1>7 DEF Ask

LEMMA ClearDerivedCachesKeeps ==
    ASSUME MemoryInv, ClearDerivedCaches
    PROVE  MemoryInv'
BY DEF MemoryInv, MemoryTypeOK, RevokedIsOut, MessagesHaveNoSources, ActiveHasText,
       DerivedFollowsSource, ClearDerivedCaches, Texts

LEMMA MemoryStep ==
    ASSUME MemoryInv, [MemoryNext]_memoryVars
    PROVE  MemoryInv'
<1>1. CASE UNCHANGED memoryVars
  BY <1>1 DEF memoryVars, MemoryInv, MemoryTypeOK, RevokedIsOut, MessagesHaveNoSources,
              ActiveHasText, DerivedFollowsSource
<1>2. CASE MemoryNext
  BY <1>2, RecordEventKeeps, ScanKeeps, ReinforceKeeps, ForgetKeeps, ResetAllKeeps,
     ClearDerivedCachesKeeps, IndexKeeps, RollupKeeps, AskKeeps DEF MemoryNext
<1> QED BY <1>1, <1>2

LEMMA MemoryStarts ==
    ASSUME MemoryInit
    PROVE  MemoryInv
<1>1. /\ events \in [Records -> EventRow] /\ \A r \in Records : events[r] = Gone
      /\ life \in [Messages -> LifeRow]
      /\ vec \in [Records -> 0..2] /\ \A r \in Records : vec[r] = 0
      /\ queryCache = {} /\ revoked = {} /\ forgetter = "idle"
  BY BlankRows DEF MemoryInit
<1>2. /\ indexer \in [at : {"idle", "encoding"}, saw : Texts(Records)]
      /\ rollup \in [at : {"idle", "composing"}, saw : Texts(Messages)]
      /\ query \in [Queries -> Asked]
  BY DEF MemoryInit, Still, Unasked, Texts, Asked
<1>3. MemoryTypeOK
  BY <1>1, <1>2 DEF MemoryTypeOK, EventRow, LifeRow, Asked, Texts
<1> QED BY <1>1, <1>3, BlankRows, DayIsNoMessage
        DEF MemoryInv, RevokedIsOut, MessagesHaveNoSources, ActiveHasText, DerivedFollowsSource

(* The memory store keeps its invariant.                                   *)
THEOREM MemoryInvariance == MemorySpec => []MemoryInv
<1>1. MemoryInit => MemoryInv
  BY MemoryStarts
<1>2. MemoryInv /\ [MemoryNext]_memoryVars => MemoryInv'
  BY MemoryStep
<1> QED BY <1>1, <1>2, PTL DEF MemorySpec

(* Whatever was read before, what is derived follows its source: of a      *)
(* forgotten memory no vector, no lifecycle row and no cached vector       *)
(* remains or comes back, no summary in use was composed from one, and a   *)
(* vector speaks of the text that is there (forget, record_event,          *)
(* write_backfill_vectors, scan).                                          *)
THEOREM DerivedAlwaysFollowsSource == MemorySpec => []DerivedFollowsSource
<1>1. MemoryInv => DerivedFollowsSource
  BY DEF MemoryInv
<1> QED BY <1>1, MemoryInvariance, PTL

(* An answer is made of what the query saw and the cache still holds, and  *)
(* the cache holds nothing revoked (score_l1_vectors, forget).             *)
LEMMA AnswersStep ==
    ASSUME MemoryInv, [MemoryNext]_memoryVars, NEW q \in Queries,
           query'[q].answer # query[q].answer, NEW p \in query'[q].answer
    PROVE  p[1] \notin revoked
<1>1. query' # query
  OBVIOUS
<1>2. PICK o \in Queries : Ask(o)
  BY <1>1 DEF MemoryNext, memoryVars, RecordEvent, Scan, Reinforce, Forget, ResetAll,
              ClearDerivedCaches, IndexRead, IndexWrite, RollupRead, RollupWrite, Untouched
<1>3. PICK was \in Asked : was = query[o]
  BY DEF MemoryInv, MemoryTypeOK, Asked
<1>4. ASSUME NEW step, Query(o, step)
      PROVE  o = q /\ step = query'[q]
  BY <1>4 DEF Query, MemoryInv, MemoryTypeOK
<1>5. CASE QueryRead(o)
  <2>1. PICK blank : blank = Unasked
    OBVIOUS
  <2>2. PICK some : Query(o, [blank EXCEPT !.at = "read", !.saw = some])
    BY <1>5, <2>1 DEF QueryRead
  <2>3. blank \in Asked /\ blank.answer = {}
    BY <2>1 DEF Unasked, Asked, Texts
  <2>4. [blank EXCEPT !.at = "read", !.saw = some].answer = blank.answer
    BY <2>3 DEF Asked
  <2> QED BY <1>4, <2>2, <2>3, <2>4
<1>6. CASE QueryMissing(o)
  <2>1. PICK some : Query(o, [was EXCEPT !.at = "encoding", !.missing = some])
    BY <1>3, <1>6 DEF QueryMissing
  <2>2. [was EXCEPT !.at = "encoding", !.missing = some].answer = was.answer
    BY DEF Asked
  <2> QED BY <1>3, <1>4, <2>1, <2>2
<1>7. CASE QueryFill(o)
  <2>1. PICK some : Query(o, [was EXCEPT !.at = "scoring", !.missing = some])
    BY <1>3, <1>7 DEF QueryFill
  <2>2. [was EXCEPT !.at = "scoring", !.missing = some].answer = was.answer
    BY DEF Asked
  <2> QED BY <1>3, <1>4, <2>1, <2>2
<1>8. CASE QueryScore(o)
  <2>1. PICK some, known : /\ Query(o, [was EXCEPT !.at = "idle", !.saw = some, !.answer = known])
                           /\ known = was.saw \cap queryCache
    BY <1>3, <1>8 DEF QueryScore
  <2>2. [was EXCEPT !.at = "idle", !.saw = some, !.answer = known].answer = known
    BY DEF Asked
  <2>3. PICK to : Query(o, to) /\ to.answer = known
    BY <2>1, <2>2
  <2>4. query'[q].answer = known
    BY <1>4, <2>3, Zenon
  <2>5. p \in queryCache
    BY <2>1, <2>4
  <2>6. p[1] \in Messages
    BY <2>5 DEF MemoryInv, MemoryTypeOK, Texts
  <2> QED BY <2>5, <2>6 DEF MemoryInv, DerivedFollowsSource
<1> QED BY <1>2, <1>5, <1>6, <1>7, <1>8 DEF Ask

(* No answer of a query quotes what was forgotten by the time it was       *)
(* scored.                                                                 *)
THEOREM NothingForgottenIsEverRecalled == MemorySpec => NothingForgottenIsRecalled
<1>1. MemoryInv /\ [MemoryNext]_memoryVars
        => [\A q \in Queries : query'[q].answer # query[q].answer
               => \A p \in query'[q].answer : p[1] \notin revoked]_memoryVars
  BY AnswersStep
<1> QED BY <1>1, MemoryInvariance, PTL DEF MemorySpec, NothingForgottenIsRecalled

-----------------------------------------------------------------------------
(* The projections.  That a view shows only what the sources hold rests on *)
(* every value carrying its version from the call to the reader: a call    *)
(* that is out holds the slot, an answer is its call's, a reader waits on  *)
(* a call for what it read, and after stop no call is of this generation.  *)

FlightRow == [at : {"none", "calling", "returned", "landed"}, key : Versions,
              same : BOOLEAN, result : {Nothing} \cup Versions, abandoned : BOOLEAN]
ReaderRow == [at : {"idle", "asking", "waiting", "answered"}, read : Versions,
              on : Calls \cup {NoCall}, checkpoint : {Nothing} \cup Versions]

CallsArePending ==
    \A c \in Calls : flight[c].at \in {"calling", "returned"} => pending = c

AnswersAreTheirs ==
    /\ \A v \in Versions : cache[v] \in {Nothing, v}
    /\ \A c \in Calls : flight[c].result \in {Nothing, flight[c].key}

ReadersAreServed ==
    \A r \in Readers :
        /\ reader[r].checkpoint \in {Nothing, reader[r].read}
        /\ ReaderAt(r, "waiting") => /\ reader[r].on \in Calls
                                     /\ flight[reader[r].on].key = reader[r].read
        /\ ~ReaderAt(r, "waiting") => reader[r].on = NoCall

StoppedIsSevered == closed => \A c \in Calls : ~flight[c].same

ProjectionInv ==
    /\ ProjectionTypeOK
    /\ CallsArePending
    /\ AnswersAreTheirs
    /\ ReadersAreServed
    /\ StoppedIsSevered

LEMMA FirstVersion ==
    /\ Nothing \notin Versions /\ 1 \in Versions /\ Versions \subseteq Nat
    /\ NoCall \notin Calls
BY MemoriesAssumption DEF ProjectionAssumption, Nothing, Versions

(* One row of a table is replaced.                                         *)
LEMMA FlightPut ==
    ASSUME ProjectionInv, NEW c \in Calls, NEW new \in FlightRow,
           flight' = [flight EXCEPT ![c] = new]
    PROVE  /\ flight' \in [Calls -> FlightRow] /\ flight'[c] = new
           /\ \A d \in Calls \ {c} : flight'[d] = flight[d]
<1>1. flight \in [Calls -> FlightRow]
  BY DEF ProjectionInv, ProjectionTypeOK, FlightRow
<1> QED BY <1>1

LEMMA ReaderPut ==
    ASSUME ProjectionInv, NEW r \in Readers, NEW new \in ReaderRow,
           reader' = [reader EXCEPT ![r] = new]
    PROVE  /\ reader' \in [Readers -> ReaderRow] /\ reader'[r] = new
           /\ \A q \in Readers \ {r} : reader'[q] = reader[q]
<1>1. reader \in [Readers -> ReaderRow]
  BY DEF ProjectionInv, ProjectionTypeOK, ReaderRow
<1> QED BY <1>1

LEMMA RowsAreTyped ==
    ASSUME ProjectionInv
    PROVE  flight \in [Calls -> FlightRow] /\ reader \in [Readers -> ReaderRow]
BY DEF ProjectionInv, ProjectionTypeOK, FlightRow, ReaderRow

(* A step of one reader that asks nothing of the calls.                    *)
LEMMA ReaderMoves ==
    ASSUME ProjectionInv, NEW r \in Readers, reader' \in [Readers -> ReaderRow],
           \A q \in Readers \ {r} : reader'[q] = reader[q],
           reader'[r].checkpoint \in {Nothing, reader'[r].read},
           reader'[r].at # "waiting", reader'[r].on = NoCall,
           UNCHANGED <<current, listening, closed, pending, cache, flight, spent>>
    PROVE  ProjectionInv'
<1>1. ProjectionTypeOK'
  BY DEF ProjectionInv, ProjectionTypeOK, ReaderRow
<1>2. ReadersAreServed'
  BY DEF ProjectionInv, ReadersAreServed, ReaderAt
<1> QED BY <1>1, <1>2 DEF ProjectionInv, CallsArePending, AnswersAreTheirs, StoppedIsSevered

LEMMA ReadSourcesKeeps ==
    ASSUME ProjectionInv, NEW r \in Readers, ReadSources(r)
    PROVE  ProjectionInv'
<1>1. PICK at \in {"asking", "answered"} :
          reader' = [reader EXCEPT ![r] = [Away EXCEPT !.at = at, !.read = current]]
  BY DEF ReadSources
<1>2. PICK away \in ReaderRow : away = Away
  BY FirstVersion DEF Away, ReaderRow
<1>3. away.on = NoCall /\ away.checkpoint = Nothing
  BY <1>2 DEF Away
<1>4. current \in Versions
  BY DEF ProjectionInv, ProjectionTypeOK
<1> DEFINE new == [away EXCEPT !.at = at, !.read = current]
<1>5. /\ new \in ReaderRow /\ new.at = at /\ new.read = current
      /\ new.on = NoCall /\ new.checkpoint = Nothing
  BY <1>3, <1>4 DEF ReaderRow
<1>6. reader' = [reader EXCEPT ![r] = new]
  BY <1>1, <1>2, Zenon
<1> HIDE DEF new
<1>7. /\ reader' \in [Readers -> ReaderRow] /\ reader'[r] = new
      /\ \A q \in Readers \ {r} : reader'[q] = reader[q]
  BY <1>5, <1>6 DEF ProjectionInv, ProjectionTypeOK, ReaderRow
<1>8. UNCHANGED <<current, listening, closed, pending, cache, flight, spent>>
  BY DEF ReadSources, Sources
<1> QED BY <1>5, <1>7, <1>8, ReaderMoves

(* A reader that only moves on, with or without an answer.                 *)
LEMMA AnsweredRows ==
    ASSUME ProjectionInv, NEW r \in Readers, NEW v \in {Nothing} \cup Versions,
           NEW at \in {"idle", "answered"}, NEW c \in Calls \cup {NoCall}
    PROVE  /\ reader' = [reader EXCEPT ![r].at = at, ![r].checkpoint = v]
                => /\ reader' \in [Readers -> ReaderRow] /\ reader'[r].at = at
                   /\ reader'[r].read = reader[r].read /\ reader'[r].on = reader[r].on
                   /\ reader'[r].checkpoint = v
                   /\ \A q \in Readers \ {r} : reader'[q] = reader[q]
           /\ reader' = [reader EXCEPT ![r].at = at, ![r].on = c, ![r].checkpoint = v]
                => /\ reader' \in [Readers -> ReaderRow] /\ reader'[r].at = at
                   /\ reader'[r].read = reader[r].read /\ reader'[r].on = c
                   /\ reader'[r].checkpoint = v
                   /\ \A q \in Readers \ {r} : reader'[q] = reader[q]
BY DEF ProjectionInv, ProjectionTypeOK, ReaderRow

LEMMA TakeCachedKeeps ==
    ASSUME ProjectionInv, NEW r \in Readers, TakeCached(r)
    PROVE  ProjectionInv'
<1>1. PICK v : v = cache[reader[r].read]
  OBVIOUS
<1>2. /\ reader' = [reader EXCEPT ![r].at = "answered", ![r].checkpoint = v]
      /\ UNCHANGED <<current, listening, closed, pending, cache, flight, spent>>
      /\ reader[r].at = "asking"
  BY <1>1 DEF TakeCached, Sources, ReaderAt
<1>3. v \in {Nothing, reader[r].read} /\ reader[r].read \in Versions
  BY <1>1 DEF ProjectionInv, ProjectionTypeOK, AnswersAreTheirs
<1>4. reader[r].on = NoCall
  BY <1>2 DEF ProjectionInv, ReadersAreServed, ReaderAt
<1>5. /\ reader' \in [Readers -> ReaderRow] /\ reader'[r].at = "answered"
      /\ reader'[r].read = reader[r].read /\ reader'[r].on = reader[r].on
      /\ reader'[r].checkpoint = v
      /\ \A q \in Readers \ {r} : reader'[q] = reader[q]
  BY <1>2, <1>3 DEF ProjectionInv, ProjectionTypeOK, ReaderRow
<1> QED BY <1>2, <1>3, <1>4, <1>5, ReaderMoves

LEMMA GoWithoutKeeps ==
    ASSUME ProjectionInv, NEW r \in Readers, GoWithout(r)
    PROVE  ProjectionInv'
<1>1. /\ reader' = [reader EXCEPT ![r].at = "answered"]
      /\ UNCHANGED <<current, listening, closed, pending, cache, flight, spent>>
      /\ reader[r].at = "asking"
  BY DEF GoWithout, Sources, ReaderAt
<1>2. /\ reader' \in [Readers -> ReaderRow] /\ reader'[r].at = "answered"
      /\ reader'[r].read = reader[r].read /\ reader'[r].on = reader[r].on
      /\ reader'[r].checkpoint = reader[r].checkpoint
      /\ \A q \in Readers \ {r} : reader'[q] = reader[q]
  BY <1>1 DEF ProjectionInv, ProjectionTypeOK, ReaderRow
<1>3. reader[r].on = NoCall /\ reader[r].checkpoint \in {Nothing, reader[r].read}
  BY <1>1 DEF ProjectionInv, ReadersAreServed, ReaderAt
<1> QED BY <1>1, <1>2, <1>3, ReaderMoves

LEMMA JoinKeeps ==
    ASSUME ProjectionInv, NEW r \in Readers, Join(r)
    PROVE  ProjectionInv'
<1>1. /\ reader' = [reader EXCEPT ![r].at = "waiting", ![r].on = pending]
      /\ UNCHANGED <<current, listening, closed, pending, cache, flight, spent>>
      /\ pending \in Calls /\ flight[pending].key = reader[r].read
  BY DEF Join, Sources, ProjectionInv, ProjectionTypeOK
<1>2. /\ reader' \in [Readers -> ReaderRow] /\ reader'[r].at = "waiting"
      /\ reader'[r].read = reader[r].read /\ reader'[r].on = pending
      /\ reader'[r].checkpoint = reader[r].checkpoint
      /\ \A q \in Readers \ {r} : reader'[q] = reader[q]
  <2>1. PICK base \in ReaderRow : base = reader[r]
    BY RowsAreTyped
  <2>2. PICK new : new = [base EXCEPT !.at = "waiting", !.on = pending]
    OBVIOUS
  <2>3. /\ new \in ReaderRow /\ new.at = "waiting" /\ new.read = base.read
        /\ new.on = pending /\ new.checkpoint = base.checkpoint
    BY <1>1, <2>2 DEF ReaderRow
  <2>4. reader' = [reader EXCEPT ![r] = new]
    BY <1>1, <2>1, <2>2
  <2> QED BY <2>1, <2>3, <2>4, ReaderPut
<1>3. ProjectionTypeOK'
  BY <1>1, <1>2 DEF ProjectionInv, ProjectionTypeOK, ReaderRow
<1>4. ReadersAreServed'
  BY <1>1, <1>2 DEF ProjectionInv, ReadersAreServed, ReaderAt
<1> QED BY <1>1, <1>3, <1>4
        DEF ProjectionInv, CallsArePending, AnswersAreTheirs, StoppedIsSevered

(* One call of many changes, its key with it only if nobody waits on it.   *)
LEMMA FlightMoves ==
    ASSUME ProjectionInv, NEW c \in Calls, flight' \in [Calls -> FlightRow],
           \A d \in Calls \ {c} : flight'[d] = flight[d],
           flight'[c].key = flight[c].key,
           flight'[c].result \in {Nothing, flight'[c].key},
           flight'[c].same => flight[c].same,
           flight'[c].at \in {"calling", "returned"} => pending' = c,
           pending' = pending \/ (pending' = NoCall /\ pending = c),
           cache' \in [Versions -> {Nothing} \cup Versions],
           \A v \in Versions : cache'[v] \in {Nothing, v},
           UNCHANGED <<current, listening, closed, spent, reader>>
    PROVE  ProjectionInv'
<1>1. ProjectionTypeOK'
  BY DEF ProjectionInv, ProjectionTypeOK, FlightRow
<1>2. CallsArePending'
  BY DEF ProjectionInv, CallsArePending
<1>3. AnswersAreTheirs'
  BY DEF ProjectionInv, AnswersAreTheirs
<1>4. ReadersAreServed' /\ StoppedIsSevered'
  BY DEF ProjectionInv, ReadersAreServed, StoppedIsSevered, ReaderAt
<1> QED BY <1>1, <1>2, <1>3, <1>4 DEF ProjectionInv

LEMMA LaunchKeeps ==
    ASSUME ProjectionInv, NEW r \in Readers, Launch(r)
    PROVE  ProjectionInv'
<1>1. PICK c \in Calls :
          /\ \A q \in Readers : reader[q].on # c
          /\ flight' = [flight EXCEPT ![c] =
                [Grounded EXCEPT !.at = "calling", !.key = reader[r].read, !.same = TRUE]]
          /\ pending' = c
          /\ reader' = [reader EXCEPT ![r].at = "waiting", ![r].on = c]
  BY DEF Launch
<1>2. /\ ~closed /\ pending = NoCall /\ spent < DailyCalls /\ spent' = spent + 1
      /\ UNCHANGED <<current, listening, closed, cache>>
  BY DEF Launch, Sources
<1>3. PICK ground \in FlightRow : ground = Grounded
  BY FirstVersion DEF Grounded, FlightRow
<1>4. ground.result = Nothing
  BY <1>3 DEF Grounded
<1>5. PICK v \in Versions : v = reader[r].read
  BY DEF ProjectionInv, ProjectionTypeOK
<1> DEFINE new == [ground EXCEPT !.at = "calling", !.key = v, !.same = TRUE]
<1>6. new \in FlightRow /\ new.key = v /\ new.result = Nothing
  BY <1>4 DEF FlightRow
<1>7. flight' = [flight EXCEPT ![c] = new]
  BY <1>1, <1>3, <1>5, Zenon
<1> HIDE DEF new
<1>8. /\ flight' \in [Calls -> FlightRow] /\ flight'[c] = new
      /\ \A d \in Calls \ {c} : flight'[d] = flight[d]
  BY <1>6, <1>7 DEF ProjectionInv, ProjectionTypeOK, FlightRow
<1>9. /\ reader' \in [Readers -> ReaderRow] /\ reader'[r].at = "waiting"
      /\ reader'[r].read = reader[r].read /\ reader'[r].on = c
      /\ reader'[r].checkpoint = reader[r].checkpoint
      /\ \A q \in Readers \ {r} : reader'[q] = reader[q]
  BY <1>1 DEF ProjectionInv, ProjectionTypeOK, ReaderRow
<1>10. spent' \in 0..DailyCalls
  BY <1>2, MemoriesAssumption DEF ProjectionInv, ProjectionTypeOK, ProjectionAssumption
<1>11. ProjectionTypeOK'
  BY <1>1, <1>2, <1>8, <1>9, <1>10
     DEF ProjectionInv, ProjectionTypeOK, FlightRow, ReaderRow
<1>12. CallsArePending'
  BY <1>1, <1>2, <1>8, FirstVersion DEF ProjectionInv, CallsArePending
<1>13. AnswersAreTheirs'
  BY <1>2, <1>6, <1>8 DEF ProjectionInv, AnswersAreTheirs
<1>14. ReadersAreServed'
  <2>1. ASSUME NEW q \in Readers \ {r}, reader[q].at = "waiting"
        PROVE  flight'[reader[q].on] = flight[reader[q].on]
    BY <1>1, <1>8, <2>1 DEF ProjectionInv, ReadersAreServed, ReaderAt
  <2> QED BY <1>1, <1>5, <1>6, <1>8, <1>9, <2>1 DEF ProjectionInv, ReadersAreServed, ReaderAt
<1>15. StoppedIsSevered'
  BY <1>2 DEF StoppedIsSevered
<1> QED BY <1>11, <1>12, <1>13, <1>14, <1>15 DEF ProjectionInv

LEMMA ReturnsKeeps ==
    ASSUME ProjectionInv, NEW c \in Calls, Returns(c)
    PROVE  ProjectionInv'
<1>1. /\ flight[c].at = "calling"
      /\ UNCHANGED <<current, listening, closed, pending, spent, reader>>
  BY DEF Returns, Sources
<1>2. flight[c] \in FlightRow /\ flight[c].key \in Versions
  BY DEF ProjectionInv, ProjectionTypeOK, FlightRow
<1>3. pending = c
  BY <1>1 DEF ProjectionInv, CallsArePending
<1>4. CASE /\ flight' = [flight EXCEPT ![c].at = "returned", ![c].result = flight[c].key]
           /\ cache' = [cache EXCEPT ![flight[c].key] = flight[c].key]
  <2>1. PICK v \in Versions : v = flight[c].key
    BY <1>2
  <2>2. /\ flight' = [flight EXCEPT ![c].at = "returned", ![c].result = v]
        /\ cache' = [cache EXCEPT ![v] = v]
    BY <1>4, <2>1
  <2>3. /\ flight' \in [Calls -> FlightRow] /\ flight'[c].key = v /\ flight'[c].result = v
        /\ flight'[c].same = flight[c].same
        /\ \A d \in Calls \ {c} : flight'[d] = flight[d]
    <3>1. PICK base \in FlightRow : base = flight[c]
      BY RowsAreTyped
    <3>2. PICK new : new = [base EXCEPT !.at = "returned", !.result = v]
      OBVIOUS
    <3>3. /\ new \in FlightRow /\ new.result = v
          /\ new.key = base.key /\ new.same = base.same
      BY <2>1, <3>2 DEF FlightRow
    <3>4. flight' = [flight EXCEPT ![c] = new]
      BY <2>2, <3>1, <3>2
    <3> QED BY <2>1, <3>1, <3>3, <3>4, FlightPut
  <2>4. /\ cache' \in [Versions -> {Nothing} \cup Versions]
        /\ \A u \in Versions : cache'[u] \in {Nothing, u}
    BY <2>2 DEF ProjectionInv, ProjectionTypeOK, AnswersAreTheirs
  <2> QED BY <1>1, <1>3, <2>1, <2>3, <2>4, FlightMoves
<1>5. CASE flight' = [flight EXCEPT ![c].at = "returned"] /\ UNCHANGED cache
  <2>1. /\ flight' \in [Calls -> FlightRow] /\ flight'[c].key = flight[c].key
        /\ flight'[c].result = flight[c].result /\ flight'[c].same = flight[c].same
        /\ \A d \in Calls \ {c} : flight'[d] = flight[d]
    BY <1>5 DEF ProjectionInv, ProjectionTypeOK, FlightRow
  <2>2. /\ cache' \in [Versions -> {Nothing} \cup Versions]
        /\ \A u \in Versions : cache'[u] \in {Nothing, u}
        /\ flight[c].result \in {Nothing, flight[c].key}
    BY <1>5 DEF ProjectionInv, ProjectionTypeOK, AnswersAreTheirs
  <2> QED BY <1>1, <1>3, <2>1, <2>2, FlightMoves
<1> QED BY <1>4, <1>5 DEF Returns

LEMMA LandKeeps ==
    ASSUME ProjectionInv, NEW c \in Calls, Land(c)
    PROVE  ProjectionInv'
<1>1. /\ flight' = [flight EXCEPT ![c].at = "landed"]
      /\ pending' = IF pending = c THEN NoCall ELSE pending
      /\ UNCHANGED <<current, listening, closed, cache, spent, reader>>
  BY DEF Land, Sources
<1>2. /\ flight' \in [Calls -> FlightRow] /\ flight'[c].key = flight[c].key
      /\ flight'[c].result = flight[c].result /\ flight'[c].same = flight[c].same
      /\ flight'[c].at = "landed"
      /\ \A d \in Calls \ {c} : flight'[d] = flight[d]
  BY <1>1 DEF ProjectionInv, ProjectionTypeOK, FlightRow
<1>3. /\ cache' \in [Versions -> {Nothing} \cup Versions]
      /\ \A u \in Versions : cache'[u] \in {Nothing, u}
      /\ flight[c].result \in {Nothing, flight[c].key}
  BY <1>1 DEF ProjectionInv, ProjectionTypeOK, AnswersAreTheirs
<1>4. pending' = pending \/ (pending' = NoCall /\ pending = c)
  BY <1>1
<1> QED BY <1>1, <1>2, <1>3, <1>4, FlightMoves

LEMMA WakeKeeps ==
    ASSUME ProjectionInv, NEW r \in Readers, Wake(r)
    PROVE  ProjectionInv'
<1>1. PICK c \in Calls : c = reader[r].on
  BY DEF Wake, ProjectionInv, ReadersAreServed
<1>2. /\ reader[r].at = "waiting" /\ flight[c].key = reader[r].read
      /\ UNCHANGED <<current, listening, closed, pending, spent>>
  BY <1>1 DEF Wake, ReaderAt, Sources, ProjectionInv, ReadersAreServed
<1>3. /\ flight[c].result \in {Nothing, reader[r].read}
      /\ reader[r].checkpoint \in {Nothing, reader[r].read}
      /\ reader[r].read \in Versions
  BY <1>2 DEF ProjectionInv, AnswersAreTheirs, ReadersAreServed, ProjectionTypeOK
<1>4. CASE /\ reader' = [reader EXCEPT ![r].at = "answered", ![r].on = NoCall,
                    ![r].checkpoint = IF ~flight[c].same \/ flight[c].abandoned
                                      THEN Nothing ELSE flight[c].result]
           /\ UNCHANGED <<cache, flight>>
  <2>1. PICK v : v = IF ~flight[c].same \/ flight[c].abandoned
                     THEN Nothing ELSE flight[c].result
    OBVIOUS
  <2>2. v \in {Nothing, reader[r].read}
    BY <1>3, <2>1
  <2>3. reader' = [reader EXCEPT ![r].at = "answered", ![r].on = NoCall, ![r].checkpoint = v]
    BY <1>4, <2>1
  <2>4. /\ reader' \in [Readers -> ReaderRow] /\ reader'[r].at = "answered"
        /\ reader'[r].read = reader[r].read /\ reader'[r].on = NoCall
        /\ reader'[r].checkpoint = v
        /\ \A q \in Readers \ {r} : reader'[q] = reader[q]
    <3>1. PICK base \in ReaderRow : base = reader[r]
      BY RowsAreTyped
    <3>2. PICK new : new = [base EXCEPT !.at = "answered", !.on = NoCall, !.checkpoint = v]
      OBVIOUS
    <3>3. /\ new \in ReaderRow /\ new.at = "answered" /\ new.read = base.read
          /\ new.on = NoCall /\ new.checkpoint = v
      BY <1>3, <2>2, <3>2 DEF ReaderRow
    <3>4. reader' = [reader EXCEPT ![r] = new]
      BY <2>3, <3>1, <3>2
    <3> QED BY <3>1, <3>3, <3>4, ReaderPut
  <2> QED BY <1>2, <1>4, <2>2, <2>4, ReaderMoves
<1>5. CASE /\ flight' = [flight EXCEPT ![c].abandoned = TRUE]
           /\ cache' = [cache EXCEPT ![reader[r].read] = Nothing]
           /\ reader' = [reader EXCEPT ![r].at = "answered", ![r].on = NoCall]
  <2>1. /\ reader' \in [Readers -> ReaderRow] /\ reader'[r].at = "answered"
        /\ reader'[r].read = reader[r].read /\ reader'[r].on = NoCall
        /\ reader'[r].checkpoint = reader[r].checkpoint
        /\ \A q \in Readers \ {r} : reader'[q] = reader[q]
    <3>1. PICK base \in ReaderRow : base = reader[r]
      BY RowsAreTyped
    <3>2. PICK new : new = [base EXCEPT !.at = "answered", !.on = NoCall]
      OBVIOUS
    <3>3. /\ new \in ReaderRow /\ new.at = "answered" /\ new.read = base.read
          /\ new.on = NoCall /\ new.checkpoint = base.checkpoint
      BY <3>2 DEF ReaderRow
    <3>4. reader' = [reader EXCEPT ![r] = new]
      BY <1>5, <3>1, <3>2
    <3> QED BY <3>1, <3>3, <3>4, ReaderPut
  <2>2. /\ flight' \in [Calls -> FlightRow]
        /\ \A d \in Calls : /\ flight'[d].at = flight[d].at /\ flight'[d].key = flight[d].key
                            /\ flight'[d].same = flight[d].same
                            /\ flight'[d].result = flight[d].result
    <3>1. PICK base \in FlightRow : base = flight[c]
      BY RowsAreTyped
    <3>2. PICK new : new = [base EXCEPT !.abandoned = TRUE]
      OBVIOUS
    <3>3. /\ new \in FlightRow /\ new.at = base.at /\ new.key = base.key
          /\ new.same = base.same /\ new.result = base.result
      BY <3>2 DEF FlightRow
    <3>4. flight' = [flight EXCEPT ![c] = new]
      BY <1>5, <3>1, <3>2
    <3> QED BY <3>1, <3>3, <3>4, FlightPut
  <2>3. /\ cache' \in [Versions -> {Nothing} \cup Versions]
        /\ \A v \in Versions : cache'[v] \in {Nothing, v}
    BY <1>3, <1>5 DEF ProjectionInv, ProjectionTypeOK, AnswersAreTheirs
  <2>4. ProjectionTypeOK'
    BY <1>2, <2>1, <2>2, <2>3 DEF ProjectionInv, ProjectionTypeOK, FlightRow, ReaderRow
  <2>5. CallsArePending' /\ AnswersAreTheirs' /\ StoppedIsSevered'
    BY <1>2, <2>2, <2>3 DEF ProjectionInv, CallsArePending, AnswersAreTheirs, StoppedIsSevered
  <2>6. ReadersAreServed'
    BY <1>3, <2>1, <2>2 DEF ProjectionInv, ReadersAreServed, ReaderAt
  <2> QED BY <2>4, <2>5, <2>6 DEF ProjectionInv
<1> QED BY <1>1, <1>4, <1>5 DEF Wake

(* clear: no value is left, and whoever is out is of another generation.   *)
LEMMA Cleared ==
    ASSUME ProjectionInv, Clear
    PROVE  /\ cache' \in [Versions -> {Nothing} \cup Versions]
           /\ \A v \in Versions : cache'[v] = Nothing
           /\ flight' \in [Calls -> FlightRow]
           /\ \A d \in Calls : /\ flight'[d].at = flight[d].at /\ flight'[d].key = flight[d].key
                               /\ ~flight'[d].same /\ flight'[d].result = flight[d].result
<1>1. ASSUME NEW d \in Calls
      PROVE  LET new == [flight[d] EXCEPT !.same = FALSE]
             IN  /\ new \in FlightRow /\ new.at = flight[d].at /\ new.key = flight[d].key
                 /\ ~new.same /\ new.result = flight[d].result
  <2>1. PICK base \in FlightRow : base = flight[d]
    BY RowsAreTyped
  <2>2. PICK new : new = [base EXCEPT !.same = FALSE]
    OBVIOUS
  <2>3. /\ new \in FlightRow /\ new.at = base.at /\ new.key = base.key
        /\ ~new.same /\ new.result = base.result
    BY <2>2 DEF FlightRow
  <2> QED BY <2>1, <2>2, <2>3
<1>2. flight' = [d \in Calls |-> [flight[d] EXCEPT !.same = FALSE]]
  BY DEF Clear
<1>3. cache' = [v \in Versions |-> Nothing]
  BY DEF Clear
<1> QED BY <1>1, <1>2, <1>3

LEMMA ClearKeeps ==
    ASSUME ProjectionInv, Clear, reader' \in [Readers -> ReaderRow],
           \A r \in Readers : /\ reader'[r].on = reader[r].on /\ reader'[r].read = reader[r].read
                              /\ reader'[r].at = "waiting" <=> reader[r].at = "waiting"
                              /\ reader'[r].checkpoint \in {Nothing, reader[r].read},
           current' \in Versions, listening' \in BOOLEAN, closed' \in BOOLEAN,
           UNCHANGED <<pending, spent>>
    PROVE  ProjectionInv'
<1>1. ProjectionTypeOK'
  BY Cleared DEF ProjectionInv, ProjectionTypeOK, FlightRow, ReaderRow
<1>2. CallsArePending' /\ AnswersAreTheirs' /\ StoppedIsSevered'
  BY Cleared DEF ProjectionInv, CallsArePending, AnswersAreTheirs, StoppedIsSevered
<1>3. ReadersAreServed'
  BY Cleared DEF ProjectionInv, ReadersAreServed, ReaderAt
<1> QED BY <1>1, <1>2, <1>3 DEF ProjectionInv

LEMMA ValidateKeeps ==
    ASSUME ProjectionInv, NEW r \in Readers, Validate(r)
    PROVE  ProjectionInv'
<1>1. PICK v \in {Nothing, reader[r].read} :
          /\ reader' = [reader EXCEPT ![r].at = "idle", ![r].checkpoint = v]
          /\ Clear \/ UNCHANGED <<cache, flight>>
  <2>1. KeptAnswer(r) \in {Nothing, reader[r].read}
    BY DEF KeptAnswer, ProjectionInv, ReadersAreServed
  <2> QED BY <2>1 DEF Validate
<1>2. /\ reader[r].at = "answered"
      /\ UNCHANGED <<current, listening, closed, pending, spent>>
  BY DEF Validate, Sources, ReaderAt
<1>3. reader[r].read \in Versions /\ reader[r].on = NoCall
  BY <1>2 DEF ProjectionInv, ProjectionTypeOK, ReadersAreServed, ReaderAt
<1>4. /\ reader' \in [Readers -> ReaderRow] /\ reader'[r].at = "idle"
      /\ reader'[r].read = reader[r].read /\ reader'[r].on = reader[r].on
      /\ reader'[r].checkpoint = v
      /\ \A q \in Readers \ {r} : reader'[q] = reader[q]
  <2>1. PICK base \in ReaderRow : base = reader[r]
    BY RowsAreTyped
  <2>2. PICK new : new = [base EXCEPT !.at = "idle", !.checkpoint = v]
    OBVIOUS
  <2>3. /\ new \in ReaderRow /\ new.at = "idle" /\ new.read = base.read
        /\ new.on = base.on /\ new.checkpoint = v
    BY <1>1, <1>3, <2>2 DEF ReaderRow
  <2>4. reader' = [reader EXCEPT ![r] = new]
    BY <1>1, <2>1, <2>2
  <2> QED BY <2>1, <2>3, <2>4, ReaderPut
<1>5. CASE UNCHANGED <<cache, flight>>
  BY <1>1, <1>2, <1>3, <1>4, <1>5, ReaderMoves
<1>6. CASE Clear
  <2>1. \A q \in Readers : /\ reader'[q].on = reader[q].on /\ reader'[q].read = reader[q].read
                           /\ reader'[q].at = "waiting" <=> reader[q].at = "waiting"
                           /\ reader'[q].checkpoint \in {Nothing, reader[q].read}
    BY <1>1, <1>2, <1>4 DEF ProjectionInv, ReadersAreServed
  <2>2. current' \in Versions /\ listening' \in BOOLEAN /\ closed' \in BOOLEAN
    BY <1>2 DEF ProjectionInv, ProjectionTypeOK
  <2> QED BY <1>2, <1>4, <1>6, <2>1, <2>2, ClearKeeps
<1> QED BY <1>1, <1>5, <1>6

LEMMA AroundKeeps ==
    ASSUME ProjectionInv,
           \/ \E v \in Versions : Expires(v)
           \/ SourceForgotten \/ Invalidate \/ Stop \/ NextDay
    PROVE  ProjectionInv'
<1>1. CASE \E v \in Versions : Expires(v)
  <2>1. PICK v \in Versions : cache' = [cache EXCEPT ![v] = Nothing]
    BY <1>1 DEF Expires
  <2>2. UNCHANGED <<current, listening, closed, pending, flight, spent, reader>>
    BY <1>1 DEF Expires, Sources
  <2> QED BY <2>1, <2>2 DEF ProjectionInv, ProjectionTypeOK, CallsArePending, AnswersAreTheirs,
                            ReadersAreServed, ReaderAt, StoppedIsSevered
<1>2. CASE SourceForgotten
  <2>1. /\ current' \in Versions /\ listening' = TRUE
        /\ UNCHANGED <<closed, pending, cache, flight, spent, reader>>
    BY <1>2, MemoriesAssumption
       DEF SourceForgotten, ProjectionInv, ProjectionTypeOK, Versions, ProjectionAssumption
  <2> QED BY <2>1 DEF ProjectionInv, ProjectionTypeOK, CallsArePending, AnswersAreTheirs,
                      ReadersAreServed, ReaderAt, StoppedIsSevered
<1>3. ASSUME Clear, UNCHANGED <<pending, spent, reader>>,
             current' \in Versions, listening' \in BOOLEAN, closed' \in BOOLEAN
      PROVE  ProjectionInv'
  <2>1. /\ reader' \in [Readers -> ReaderRow]
        /\ \A r \in Readers : reader'[r].checkpoint \in {Nothing, reader[r].read}
    BY <1>3 DEF ProjectionInv, ProjectionTypeOK, ReadersAreServed, ReaderRow
  <2> QED BY <1>3, <2>1, ClearKeeps
<1>4. CASE Invalidate
  BY <1>3, <1>4 DEF Invalidate, ProjectionInv, ProjectionTypeOK
<1>5. CASE Stop
  BY <1>3, <1>5 DEF Stop, Sources, ProjectionInv, ProjectionTypeOK
<1>6. CASE NextDay
  <2>1. spent' \in 0..DailyCalls
    BY <1>6, MemoriesAssumption DEF NextDay, ProjectionAssumption
  <2>2. UNCHANGED <<current, listening, closed, pending, cache, flight, reader>>
    BY <1>6 DEF NextDay, Sources
  <2> QED BY <2>1, <2>2 DEF ProjectionInv, ProjectionTypeOK, CallsArePending, AnswersAreTheirs,
                            ReadersAreServed, ReaderAt, StoppedIsSevered
<1> QED BY <1>1, <1>2, <1>4, <1>5, <1>6

LEMMA ProjectionStep ==
    ASSUME ProjectionInv, [ProjectionNext]_projectionVars
    PROVE  ProjectionInv'
<1>1. CASE UNCHANGED projectionVars
  BY <1>1 DEF projectionVars, ProjectionInv, ProjectionTypeOK, CallsArePending,
              AnswersAreTheirs, ReadersAreServed, ReaderAt, StoppedIsSevered
<1>2. CASE ProjectionNext
  BY <1>2, ReadSourcesKeeps, TakeCachedKeeps, GoWithoutKeeps, JoinKeeps, LaunchKeeps,
     WakeKeeps, ValidateKeeps, ReturnsKeeps, LandKeeps, AroundKeeps DEF ProjectionNext
<1> QED BY <1>1, <1>2

LEMMA ProjectionStarts ==
    ASSUME ProjectionInit
    PROVE  ProjectionInv
<1>1. /\ flight \in [Calls -> FlightRow] /\ reader \in [Readers -> ReaderRow]
      /\ \A c \in Calls : flight[c] = Grounded
      /\ \A r \in Readers : reader[r] = Away
  BY FirstVersion DEF ProjectionInit, Grounded, Away, FlightRow, ReaderRow
<1>2. /\ current \in Versions /\ listening \in BOOLEAN /\ closed \in BOOLEAN
      /\ pending \in Calls \cup {NoCall} /\ cache \in [Versions -> {Nothing} \cup Versions]
  BY FirstVersion DEF ProjectionInit
<1>3. spent \in 0..DailyCalls
  BY MemoriesAssumption DEF ProjectionInit, ProjectionAssumption
<1>4. ProjectionTypeOK
  BY <1>1, <1>2, <1>3 DEF ProjectionTypeOK, FlightRow, ReaderRow
<1> QED BY <1>1, <1>4 DEF ProjectionInit, ProjectionInv, CallsArePending, AnswersAreTheirs,
                          ReadersAreServed, ReaderAt, StoppedIsSevered, Grounded, Away

(* The projections keep their invariant.                                   *)
THEOREM ProjectionInvariance == ProjectionSpec => []ProjectionInv
<1>1. ProjectionInit => ProjectionInv
  BY ProjectionStarts
<1>2. ProjectionInv /\ [ProjectionNext]_projectionVars => ProjectionInv'
  BY ProjectionStep
<1> QED BY <1>1, <1>2, PTL DEF ProjectionSpec

(* One call of the model is out at a time: it holds the slot.              *)
LEMMA OneCallIsOut ==
    ASSUME ProjectionInv, [ProjectionNext]_projectionVars
    PROVE  Cardinality({c \in Calls : flight'[c].at = "calling"}) <= 1
<1>1. {c \in Calls : flight'[c].at = "calling"} \subseteq {pending'}
  BY ProjectionStep DEF ProjectionInv, CallsArePending
<1>2. IsFiniteSet({pending'}) /\ Cardinality({pending'}) = 1
  BY FS_Singleton
<1> QED BY <1>1, <1>2, FS_Subset, FS_CardinalityType

(* What a reader shows once it has read its sources again.                 *)
LEMMA ShownIsCurrent ==
    ASSUME ProjectionInv, ProjectionNext, NEW r \in Readers,
           ReaderAt(r, "answered"), reader'[r].at = "idle"
    PROVE  reader'[r].checkpoint \in {Nothing, current}
<1>1. reader[r].at = "answered" /\ reader' # reader
  BY DEF ReaderAt
<1>2. PICK q \in Readers :
          \/ ReadSources(q) \/ TakeCached(q) \/ GoWithout(q) \/ Join(q) \/ Launch(q)
          \/ Wake(q) \/ Validate(q)
  BY <1>1 DEF ProjectionNext, Returns, Land, Expires, SourceForgotten, Invalidate, Stop, NextDay,
              Sources
<1>3. ASSUME q # r
      PROVE  reader'[r] = reader[r]
  <2>1. reader \in [Readers -> ReaderRow]
    BY DEF ProjectionInv, ProjectionTypeOK, ReaderRow
  <2>2. CASE ReadSources(q)
    BY <1>3, <2>1, <2>2 DEF ReadSources
  <2>3. CASE TakeCached(q) \/ GoWithout(q) \/ Join(q)
    BY <1>3, <2>1, <2>3 DEF TakeCached, GoWithout, Join
  <2>4. CASE Launch(q)
    BY <1>3, <2>1, <2>4 DEF Launch
  <2>5. CASE Wake(q)
    BY <1>3, <2>1, <2>5 DEF Wake
  <2>6. CASE Validate(q)
    BY <1>3, <2>1, <2>6 DEF Validate
  <2> QED BY <1>2, <2>2, <2>3, <2>4, <2>5, <2>6
<1>4. q = r
  BY <1>1, <1>3
<1>5. Validate(r)
  BY <1>1, <1>2, <1>4 DEF ReadSources, TakeCached, GoWithout, Join, Launch, Wake, ReaderAt
<1>6. KeptAnswer(r) \in {Nothing, current}
  BY DEF KeptAnswer, ProjectionInv, ReadersAreServed
<1>7. PICK v \in {Nothing, current} :
          reader' = [reader EXCEPT ![r].at = "idle", ![r].checkpoint = v]
  BY <1>5, <1>6 DEF Validate
<1> QED BY <1>7 DEF ProjectionInv, ProjectionTypeOK, ReaderRow

(* What comes into the cache is the result of a call no clear came after.  *)
LEMMA CachedIsWanted ==
    ASSUME ProjectionInv, ProjectionNext, NEW v \in Versions,
           cache[v] = Nothing, cache'[v] # Nothing
    PROVE  ~closed /\ \E c \in Calls : flight[c].at = "calling" /\ flight[c].same
<1>1. cache' # cache /\ ~Clear
  BY DEF Clear
<1>2. ASSUME NEW u, cache' = [cache EXCEPT ![u] = Nothing]
      PROVE  FALSE
  BY <1>2 DEF ProjectionInv, ProjectionTypeOK
<1>3. PICK c \in Calls : Returns(c)
  <2>1. ASSUME NEW r \in Readers
        PROVE  ~(\/ ReadSources(r) \/ TakeCached(r) \/ GoWithout(r) \/ Join(r) \/ Launch(r)
                 \/ Wake(r) \/ Validate(r))
    <3>1. ~Wake(r)
      BY <1>1, <1>2 DEF Wake
    <3>2. ~Validate(r)
      BY <1>1 DEF Validate
    <3> QED BY <1>1, <3>1, <3>2 DEF ReadSources, TakeCached, GoWithout, Join, Launch
  <2>2. ~\E u \in Versions : Expires(u)
    BY <1>2 DEF Expires
  <2> QED BY <1>1, <2>1, <2>2 DEF ProjectionNext, Land, SourceForgotten, Invalidate, Stop, NextDay
<1>4. flight[c].at = "calling" /\ flight[c].same
  BY <1>1, <1>3 DEF Returns, Wanted
<1> QED BY <1>4 DEF ProjectionInv, StoppedIsSevered

(* However calls, clears, timeouts and other readers interleave, a view    *)
(* shows only what the sources hold as it is validated, one call of the    *)
(* model is out at a time, and no call that was out before a forget was    *)
(* announced puts its result into the cache (SingleFlight, project).       *)
THEOREM NothingIsEverResurrected == ProjectionSpec => NothingIsResurrected
<1>1. ProjectionInv /\ [ProjectionNext]_projectionVars
        => [/\ \A r \in Readers : ReaderAt(r, "answered") /\ reader'[r].at = "idle" =>
                  reader'[r].checkpoint \in {Nothing, current}
            /\ Cardinality({c \in Calls : flight'[c].at = "calling"}) <= 1
            /\ \A v \in Versions : cache[v] = Nothing /\ cache'[v] # Nothing =>
                  /\ ~closed
                  /\ \E c \in Calls : flight[c].at = "calling" /\ flight[c].same]_projectionVars
  BY OneCallIsOut, ShownIsCurrent, CachedIsWanted
<1> QED BY <1>1, ProjectionInvariance, PTL DEF ProjectionSpec, NothingIsResurrected

-----------------------------------------------------------------------------
(* The experiences.  An evaluation, a recall and a person's decisions may  *)
(* cross: every change of a row counts its version on, so an evaluation    *)
(* that still fits the row found it neither active nor revoked, and what   *)
(* was active when it was read has been assessed for good.                 *)

RowOf == [status : {"none", "candidate", "no_gain", "evaluated", "active", "revoked"},
          version : Nat]
RunnerRow == [at : {"idle", "proposing", "requesting", "recording", "evaluating",
                    "recalling", "read", "handed"},
              key : Candidates \cup {"none"}, version : Nat,
              seen : [mode : Modes, revision : Nat], items : SUBSET Candidates]

ActiveIsEarned ==
    \A k \in Candidates : row[k].status \in {"evaluated", "active"} => k \in gained

FewAreActive == IsFiniteSet(Having("active")) /\ Cardinality(Having("active")) <= ActiveLimit

(* What one runner knows.                                                  *)
Informed(r) ==
    /\ runner[r].at \in {"recalling", "read"} => runner[r].seen.mode = "use"
    /\ runner[r].at \in {"read", "handed"} =>
           \A k \in runner[r].items : k \in gained /\ row[k].status \in {"active", "revoked"}
    /\ runner[r].at = "evaluating" =>
           /\ runner[r].key \in Candidates
           /\ runner[r].version <= row[runner[r].key].version
           /\ runner[r].version = row[runner[r].key].version
                  => row[runner[r].key].status \in {"candidate", "no_gain"}
    /\ runner[r].at \in {"proposing", "requesting", "recording"} => runner[r].key \in Candidates

RequestedOnce ==
    \A k \in Candidates : requests[k] <= 1 /\ (folder[k] = "none" => requests[k] = 0)

LearningInv ==
    /\ LearningTypeOK
    /\ ActiveIsEarned
    /\ FewAreActive
    /\ \A r \in Runners : Informed(r)
    /\ RequestedOnce

(* The step of a runner that changes no candidate.                         *)
LEMMA RunnerMoves ==
    ASSUME LearningInv, NEW r \in Runners, NEW new \in RunnerRow,
           runner' = [runner EXCEPT ![r] = new], Informed(r)',
           UNCHANGED <<row, changed, switch, gained>>,
           folder' \in [Candidates -> {"none", "started", "result"}],
           requests' \in [Candidates -> 0..1], RequestedOnce'
    PROVE  LearningInv'
<1>1. /\ runner' \in [Runners -> RunnerRow]
      /\ \A q \in Runners \ {r} : runner'[q] = runner[q]
  BY DEF LearningInv, LearningTypeOK, RunnerRow
<1>2. LearningTypeOK'
  BY <1>1 DEF LearningInv, LearningTypeOK, RunnerRow
<1>3. ASSUME NEW q \in Runners \ {r}
      PROVE  Informed(q)'
  BY <1>1 DEF LearningInv, Informed
<1>4. ActiveIsEarned' /\ FewAreActive'
  BY DEF LearningInv, ActiveIsEarned, FewAreActive, Having
<1> QED BY <1>2, <1>3, <1>4 DEF LearningInv

LEMMA FreeRow ==
    /\ Free \in RunnerRow /\ Free.at = "idle" /\ Free.items = {} /\ Free.key = "none"
    /\ Free.version = 0
BY DEF Free, RunnerRow, Modes

(* A runner that is done, or dies.                                         *)
LEMMA FreedKeeps ==
    ASSUME LearningInv, NEW r \in Runners, runner' = [runner EXCEPT ![r] = Free],
           UNCHANGED <<row, changed, switch, gained>>,
           folder' \in [Candidates -> {"none", "started", "result"}],
           requests' \in [Candidates -> 0..1], RequestedOnce'
    PROVE  LearningInv'
<1>1. runner'[r] = Free
  BY DEF LearningInv, LearningTypeOK
<1>2. Informed(r)'
  BY <1>1, FreeRow DEF Informed
<1> QED BY <1>2, FreeRow, RunnerMoves

LEMMA UnrequestedKeeps ==
    ASSUME LearningInv, UNCHANGED <<folder, requests>>
    PROVE  /\ folder' \in [Candidates -> {"none", "started", "result"}]
           /\ requests' \in [Candidates -> 0..1] /\ RequestedOnce'
BY DEF LearningInv, LearningTypeOK, RequestedOnce

LEMMA BatchKeeps ==
    ASSUME LearningInv, NEW r \in Proposers,
           (\E k \in Candidates : BeginBatch(r, k)) \/ TakeFolder(r) \/ NotProposed(r)
              \/ RecordRun(r) \/ BatchDies(r)
    PROVE  LearningInv'
<1>1. r \in Runners
  BY DEF Runners
<1>2. PICK was \in RunnerRow : was = runner[r]
  BY <1>1 DEF LearningInv, LearningTypeOK, RunnerRow
<1>3. ASSUME NEW k \in Candidates, BeginBatch(r, k)
      PROVE  LearningInv'
  <2>1. PICK blank \in RunnerRow : blank = Free
    BY FreeRow
  <2>2. switch \in [mode : Modes, revision : Nat]
    BY MemoriesAssumption DEF LearningInv, LearningTypeOK, LearningAssumption
  <2> DEFINE new == [blank EXCEPT !.at = "proposing", !.key = k, !.seen = switch]
  <2>3. new \in RunnerRow /\ new.at = "proposing" /\ new.key = k
    BY <2>2 DEF RunnerRow
  <2>4. runner' = [runner EXCEPT ![r] = new]
    BY <1>3, <2>1, Zenon DEF BeginBatch
  <2> HIDE DEF new
  <2>5. UNCHANGED <<row, changed, folder, switch, requests, gained>>
    BY <1>3 DEF BeginBatch
  <2>6. runner'[r] = new
    BY <1>1, <2>4 DEF LearningInv, LearningTypeOK
  <2>7. Informed(r)'
    BY <2>3, <2>6 DEF Informed
  <2> QED BY <1>1, <2>3, <2>4, <2>5, <2>7, UnrequestedKeeps, RunnerMoves
<1>4. CASE TakeFolder(r)
  <2>1. PICK k : k = was.key
    OBVIOUS
  <2>2. was.at = "proposing" /\ k \in Candidates /\ UNCHANGED <<row, changed, switch, gained>>
    BY <1>1, <1>2, <1>4, <2>1 DEF TakeFolder, RunnerAt, LearningInv, Informed
  <2>3. CASE /\ folder[k] = "none" /\ folder' = [folder EXCEPT ![k] = "started"]
             /\ requests' = [requests EXCEPT ![k] = @ + 1]
             /\ runner' = [runner EXCEPT ![r].at = "requesting"]
    <3>1. requests[k] = 0
      BY <2>2, <2>3 DEF LearningInv, RequestedOnce
    <3>2. /\ folder' \in [Candidates -> {"none", "started", "result"}]
          /\ requests' \in [Candidates -> 0..1]
      BY <2>2, <2>3, <3>1 DEF LearningInv, LearningTypeOK
    <3>3. RequestedOnce'
      BY <2>2, <2>3, <3>1 DEF LearningInv, LearningTypeOK, RequestedOnce
    <3> DEFINE new == [was EXCEPT !.at = "requesting"]
    <3>4. new \in RunnerRow /\ new.at = "requesting" /\ new.key = was.key
      BY DEF RunnerRow
    <3>5. runner' = [runner EXCEPT ![r] = new] /\ runner'[r] = new
      BY <1>1, <1>2, <2>3 DEF LearningInv, LearningTypeOK, RunnerRow
    <3> HIDE DEF new
    <3>6. Informed(r)'
      BY <2>1, <2>2, <3>4, <3>5 DEF Informed
    <3> QED BY <1>1, <2>2, <3>2, <3>3, <3>4, <3>5, <3>6, RunnerMoves
  <2>4. CASE runner' = [runner EXCEPT ![r] = Free] /\ UNCHANGED <<folder, requests>>
    BY <1>1, <2>2, <2>4, UnrequestedKeeps, FreedKeeps
  <2> QED BY <1>2, <1>4, <2>1, <2>3, <2>4 DEF TakeFolder, Fresh
<1>5. CASE NotProposed(r)
  <2> DEFINE new == [was EXCEPT !.at = "recording"]
  <2>1. new \in RunnerRow /\ new.at = "recording" /\ new.key = was.key
    BY DEF RunnerRow
  <2>2. runner' = [runner EXCEPT ![r] = new] /\ runner'[r] = new
    BY <1>1, <1>2, <1>5 DEF NotProposed, LearningInv, LearningTypeOK, RunnerRow
  <2> HIDE DEF new
  <2>3. /\ UNCHANGED <<row, changed, folder, switch, requests, gained>>
        /\ was.key \in Candidates
    BY <1>1, <1>2, <1>5 DEF NotProposed, RunnerAt, LearningInv, Informed
  <2>4. Informed(r)'
    BY <2>1, <2>2, <2>3 DEF Informed
  <2> QED BY <1>1, <2>1, <2>2, <2>3, <2>4, UnrequestedKeeps, RunnerMoves
<1>6. CASE RecordRun(r)
  <2>1. PICK k : k = was.key
    OBVIOUS
  <2>2. /\ k \in Candidates /\ folder' = [folder EXCEPT ![k] = "result"]
        /\ runner' = [runner EXCEPT ![r] = Free]
        /\ UNCHANGED <<row, changed, switch, requests, gained>>
    BY <1>1, <1>2, <1>6, <2>1 DEF RecordRun, RunnerAt, LearningInv, Informed
  <2>3. /\ folder' \in [Candidates -> {"none", "started", "result"}]
        /\ requests' \in [Candidates -> 0..1] /\ RequestedOnce'
    BY <2>2 DEF LearningInv, LearningTypeOK, RequestedOnce
  <2> QED BY <1>1, <2>2, <2>3, FreedKeeps
<1>7. CASE BatchDies(r)
  BY <1>1, <1>7, UnrequestedKeeps, FreedKeeps DEF BatchDies
<1> QED BY <1>3, <1>4, <1>5, <1>6, <1>7

LEMMA RecallKeeps ==
    ASSUME LearningInv, NEW r \in Recallers, BeginRecall(r) \/ ReadExperiences(r) \/ HandOut(r)
    PROVE  LearningInv'
<1>1. r \in Runners
  BY DEF Runners
<1>2. PICK was \in RunnerRow : was = runner[r]
  BY <1>1 DEF LearningInv, LearningTypeOK, RunnerRow
<1>3. CASE BeginRecall(r)
  <2>1. PICK blank \in RunnerRow : blank = Free
    BY FreeRow
  <2>2. switch \in [mode : Modes, revision : Nat]
    BY MemoriesAssumption DEF LearningInv, LearningTypeOK, LearningAssumption
  <2> DEFINE new == [blank EXCEPT !.at = "recalling", !.seen = switch]
  <2>3. new \in RunnerRow /\ new.at = "recalling" /\ new.seen = switch
    BY <2>2 DEF RunnerRow
  <2>4. runner' = [runner EXCEPT ![r] = new]
    BY <1>3, <2>1, Zenon DEF BeginRecall
  <2> HIDE DEF new
  <2>5. switch.mode = "use" /\ UNCHANGED <<row, changed, folder, switch, requests, gained>>
    BY <1>3 DEF BeginRecall
  <2>6. runner'[r] = new
    BY <1>1, <2>4 DEF LearningInv, LearningTypeOK
  <2>7. Informed(r)'
    BY <2>3, <2>5, <2>6 DEF Informed
  <2> QED BY <1>1, <2>3, <2>4, <2>5, <2>7, UnrequestedKeeps, RunnerMoves
<1>4. CASE ReadExperiences(r)
  <2>1. PICK some : some = Having("active") \ changed
    OBVIOUS
  <2>2. /\ some \subseteq Candidates
        /\ \A k \in some : k \in gained /\ row[k].status \in {"active", "revoked"}
    BY <2>1 DEF Having, LearningInv, ActiveIsEarned
  <2> DEFINE new == [was EXCEPT !.at = "read", !.items = some]
  <2>3. new \in RunnerRow /\ new.at = "read" /\ new.items = some /\ new.seen = was.seen
    BY <2>2 DEF RunnerRow
  <2>4. runner' = [runner EXCEPT ![r] = new] /\ runner'[r] = new
    BY <1>1, <1>2, <1>4, <2>1 DEF ReadExperiences, LearningInv, LearningTypeOK, RunnerRow
  <2> HIDE DEF new
  <2>5. /\ UNCHANGED <<row, changed, folder, switch, requests, gained>>
        /\ was.seen.mode = "use"
    BY <1>1, <1>2, <1>4 DEF ReadExperiences, RunnerAt, LearningInv, Informed
  <2>6. Informed(r)'
    BY <2>2, <2>3, <2>4, <2>5 DEF Informed
  <2> QED BY <1>1, <2>3, <2>4, <2>5, <2>6, UnrequestedKeeps, RunnerMoves
<1>5. CASE HandOut(r)
  <2>1. PICK some : some = IF switch = was.seen THEN was.items ELSE {}
    OBVIOUS
  <2>2. was.at = "read" /\ UNCHANGED <<row, changed, folder, switch, requests, gained>>
    BY <1>2, <1>5 DEF HandOut, RunnerAt
  <2>3. /\ some \subseteq Candidates
        /\ \A k \in some : k \in gained /\ row[k].status \in {"active", "revoked"}
    BY <1>1, <1>2, <2>1, <2>2 DEF LearningInv, Informed, RunnerRow
  <2> DEFINE new == [was EXCEPT !.at = "handed", !.items = some]
  <2>4. new \in RunnerRow /\ new.at = "handed" /\ new.items = some
    BY <2>3 DEF RunnerRow
  <2>5. runner' = [runner EXCEPT ![r] = new] /\ runner'[r] = new
    <3>1. runner' = [runner EXCEPT ![r].at = "handed", ![r].items = some]
      BY <1>1, <1>2, <1>5, <2>1 DEF HandOut, LearningInv, LearningTypeOK
    <3> QED BY <1>1, <1>2, <3>1 DEF LearningInv, LearningTypeOK, RunnerRow
  <2> HIDE DEF new
  <2>6. Informed(r)'
    BY <2>2, <2>3, <2>4, <2>5 DEF Informed
  <2> QED BY <1>1, <2>2, <2>4, <2>5, <2>6, UnrequestedKeeps, RunnerMoves
<1> QED BY <1>3, <1>4, <1>5

LEMMA BeginEvaluateKeeps ==
    ASSUME LearningInv, NEW r \in Evaluators, NEW k \in Candidates, BeginEvaluate(r, k)
    PROVE  LearningInv'
<1>1. r \in Runners
  BY DEF Runners
<1>2. PICK blank \in RunnerRow : blank = Free
  BY FreeRow
<1>3. row[k].version \in Nat /\ row[k].status \in {"candidate", "no_gain"}
  BY DEF BeginEvaluate, LearningInv, LearningTypeOK
<1> DEFINE new == [blank EXCEPT !.at = "evaluating", !.key = k, !.version = row[k].version]
<1>4. new \in RunnerRow /\ new.at = "evaluating" /\ new.key = k /\ new.version = row[k].version
  BY <1>3 DEF RunnerRow
<1>5. runner' = [runner EXCEPT ![r] = new]
  BY <1>2, Zenon DEF BeginEvaluate
<1> HIDE DEF new
<1>6. UNCHANGED <<row, changed, folder, switch, requests, gained>>
  BY DEF BeginEvaluate
<1>7. runner'[r] = new
  BY <1>1, <1>5 DEF LearningInv, LearningTypeOK
<1>8. Informed(r)'
  BY <1>3, <1>4, <1>6, <1>7 DEF Informed
<1> QED BY <1>1, <1>4, <1>5, <1>6, <1>8, UnrequestedKeeps, RunnerMoves

(* The row of a candidate changes, and its version with it.                *)
RowMoves(k, new) ==
    /\ row' = [row EXCEPT ![k] = new] /\ new.version = row[k].version + 1
    /\ row[k].status = "active" => new.status = "revoked"
    /\ row[k].status = "revoked" => new.status = "revoked"
    /\ new.status \in {"evaluated", "active"} => k \in gained'
    /\ new.status = "active" => Cardinality(Having("active")) < ActiveLimit
    /\ gained' \subseteq Candidates /\ gained \ {k} \subseteq gained'
    /\ row[k].status \in {"active", "revoked"} => gained' = gained

(* What such a change leaves as it should be, runners that do not move     *)
(* among it.                                                               *)
LEMMA RowChanges ==
    ASSUME LearningInv, NEW k \in Candidates, NEW new \in RowOf, RowMoves(k, new)
    PROVE  /\ row' \in [Candidates -> RowOf]
           /\ ActiveIsEarned' /\ FewAreActive'
           /\ \A r \in Runners : runner'[r] = runner[r] => Informed(r)'
<1>1. /\ row' \in [Candidates -> RowOf] /\ row'[k] = new
      /\ \A j \in Candidates \ {k} : row'[j] = row[j]
      /\ row[k].version \in Nat
  BY DEF LearningInv, LearningTypeOK, RowOf, RowMoves
<1>2. ActiveIsEarned'
  BY <1>1 DEF LearningInv, ActiveIsEarned, RowMoves
<1>3. FewAreActive'
  <2>1. IsFiniteSet(Having("active")) /\ Cardinality(Having("active")) <= ActiveLimit
    BY DEF LearningInv, FewAreActive
  <2>2. CASE new.status = "active"
    <3>1. Having("active")' = Having("active") \cup {k} /\ k \notin Having("active")
      BY <1>1, <2>2 DEF Having, RowMoves
    <3>2. /\ IsFiniteSet(Having("active")')
          /\ Cardinality(Having("active")') = Cardinality(Having("active")) + 1
      BY <2>1, <3>1, FS_AddElement
    <3>3. Cardinality(Having("active")) < ActiveLimit
      BY <2>2 DEF RowMoves
    <3> QED BY <2>1, <3>2, <3>3, FS_CardinalityType, MemoriesAssumption
            DEF FewAreActive, LearningAssumption
  <2>3. CASE new.status # "active"
    <3>1. Having("active")' \subseteq Having("active")
      BY <1>1, <2>3 DEF Having
    <3>2. /\ IsFiniteSet(Having("active")')
          /\ Cardinality(Having("active")') <= Cardinality(Having("active"))
      BY <2>1, <3>1, FS_Subset
    <3>3. Cardinality(Having("active")) \in Nat /\ Cardinality(Having("active")') \in Nat
      BY <2>1, <3>2, FS_CardinalityType
    <3> QED BY <2>1, <3>2, <3>3, MemoriesAssumption DEF FewAreActive, LearningAssumption
  <2> QED BY <2>2, <2>3
<1>4. ASSUME NEW r \in Runners, runner'[r] = runner[r]
      PROVE  Informed(r)'
  <2>1. Informed(r)
    BY DEF LearningInv
  <2>2. ASSUME runner[r].at \in {"read", "handed"}, NEW j \in runner[r].items
        PROVE  j \in gained' /\ row'[j].status \in {"active", "revoked"}
    <3>1. j \in Candidates /\ j \in gained /\ row[j].status \in {"active", "revoked"}
      BY <2>1, <2>2 DEF Informed, LearningInv, LearningTypeOK
    <3>2. CASE j # k
      BY <1>1, <3>1, <3>2 DEF RowMoves
    <3>3. CASE j = k
      <4>1. row[k].status = "active" \/ row[k].status = "revoked"
        BY <3>1, <3>3
      <4>2. new.status = "revoked" /\ row'[k].status = new.status
        BY <1>1, <4>1 DEF RowMoves
      <4>3. k \in gained'
        BY <3>1, <3>3, <4>1 DEF RowMoves
      <4> QED BY <3>3, <4>2, <4>3
    <3> QED BY <3>2, <3>3
  <2>3. ASSUME runner[r].at = "evaluating"
        PROVE  /\ runner[r].key \in Candidates
               /\ runner[r].version <= row'[runner[r].key].version
               /\ runner[r].version = row'[runner[r].key].version
                      => row'[runner[r].key].status \in {"candidate", "no_gain"}
    <3>1. /\ runner[r].key \in Candidates /\ runner[r].version \in Nat
          /\ runner[r].version <= row[runner[r].key].version
          /\ runner[r].version = row[runner[r].key].version
                 => row[runner[r].key].status \in {"candidate", "no_gain"}
      BY <2>1, <2>3 DEF Informed, LearningInv, LearningTypeOK
    <3> QED BY <1>1, <3>1 DEF RowMoves
  <2> QED BY <1>4, <2>1, <2>2, <2>3 DEF Informed
<1> QED BY <1>1, <1>2, <1>3, <1>4

LEMMA EndEvaluateKeeps ==
    ASSUME LearningInv, NEW r \in Evaluators, EndEvaluate(r)
    PROVE  LearningInv'
<1>1. /\ r \in Runners /\ runner' = [runner EXCEPT ![r] = Free]
      /\ runner[r].at = "evaluating" /\ UNCHANGED <<changed, folder, switch, requests>>
  BY DEF Runners, EndEvaluate, RunnerAt
<1>2. CASE UNCHANGED <<row, gained>>
  BY <1>1, <1>2, UnrequestedKeeps, FreedKeeps
<1>3. CASE ~UNCHANGED <<row, gained>>
  <2>1. PICK k \in Candidates : k = runner[r].key
    BY <1>1 DEF LearningInv, Informed
  <2>2. /\ row[k].status \in {"candidate", "no_gain"}
        /\ \/ Becomes(k, "evaluated") /\ gained' = gained \cup {k}
           \/ Becomes(k, "no_gain") /\ gained' = gained \ {k}
    BY <1>1, <1>3, <2>1 DEF EndEvaluate, UntouchedSince, LearningInv, Informed
  <2>3. PICK s \in {"evaluated", "no_gain"} :
            /\ row' = [row EXCEPT ![k].status = s, ![k].version = @ + 1]
            /\ gained' = IF s = "evaluated" THEN gained \cup {k} ELSE gained \ {k}
    BY <2>2 DEF Becomes
  <2>4. /\ row'[k].status = s /\ row'[k].version = row[k].version + 1
        /\ row' = [row EXCEPT ![k] = row'[k]] /\ row'[k] \in RowOf
    <3>1. /\ row \in [Candidates -> RowOf] /\ row' \in [Candidates -> RowOf]
          /\ row'[k].status = s /\ row'[k].version = row[k].version + 1
          /\ \A j \in Candidates \ {k} : row'[j] = row[j]
      BY <2>3 DEF LearningInv, LearningTypeOK, RowOf
    <3> QED BY <3>1
  <2>5. PICK new \in RowOf : new = row'[k]
    BY <2>4
  <2>6. RowMoves(k, new)
    BY <2>2, <2>3, <2>4, <2>5 DEF RowMoves, LearningInv, LearningTypeOK
  <2>7. /\ row' \in [Candidates -> RowOf]
        /\ ActiveIsEarned' /\ FewAreActive'
        /\ \A q \in Runners : runner'[q] = runner[q] => Informed(q)'
    BY <2>6, RowChanges
  <2>8. /\ runner' \in [Runners -> RunnerRow] /\ runner'[r] = Free
        /\ \A q \in Runners \ {r} : runner'[q] = runner[q]
    BY <1>1, FreeRow DEF LearningInv, LearningTypeOK, RunnerRow
  <2>9. Informed(r)'
    BY <2>8, FreeRow DEF Informed
  <2>10. LearningTypeOK'
    BY <1>1, <2>3, <2>7, <2>8 DEF LearningInv, LearningTypeOK, RunnerRow, RowOf
  <2> QED BY <1>1, <2>7, <2>8, <2>9, <2>10, UnrequestedKeeps DEF LearningInv
<1> QED BY <1>2, <1>3

(* A row that a person changes, or a reply: no runner forgets what it knew.*)
LEMMA RowKeeps ==
    ASSUME LearningInv, NEW k \in Candidates, NEW new \in RowOf, RowMoves(k, new),
           runner' \in [Runners -> RunnerRow], \A r \in Runners : Informed(r)',
           UNCHANGED <<changed, folder, switch, requests>>
    PROVE  LearningInv'
<1>1. row' \in [Candidates -> RowOf] /\ ActiveIsEarned' /\ FewAreActive'
  BY RowChanges
<1>2. LearningTypeOK'
  BY <1>1 DEF LearningInv, LearningTypeOK, RunnerRow, RowOf, RowMoves
<1> QED BY <1>1, <1>2, UnrequestedKeeps DEF LearningInv

LEMMA ProposedKeeps ==
    ASSUME LearningInv, NEW r \in Proposers, Proposed(r)
    PROVE  LearningInv'
<1>1. /\ r \in Runners /\ UNCHANGED <<changed, folder, switch, requests, gained>>
      /\ runner' = [runner EXCEPT ![r].at = "recording"] /\ runner[r].at = "requesting"
  BY DEF Runners, Proposed, RunnerAt
<1>2. PICK k \in Candidates : k = runner[r].key
  BY <1>1 DEF LearningInv, Informed
<1>3. /\ runner' \in [Runners -> RunnerRow] /\ runner'[r].at = "recording"
      /\ runner'[r].key = k /\ \A q \in Runners \ {r} : runner'[q] = runner[q]
  <2>1. runner \in [Runners -> RunnerRow]
    BY DEF LearningInv, LearningTypeOK, RunnerRow
  <2>2. PICK base \in RunnerRow : base = runner[r]
    BY <1>1, <2>1
  <2>3. PICK to : to = [base EXCEPT !.at = "recording"]
    OBVIOUS
  <2>4. to \in RunnerRow /\ to.at = "recording" /\ to.key = base.key
    BY <2>3 DEF RunnerRow
  <2>5. runner' = [runner EXCEPT ![r] = to]
    BY <1>1, <2>2, <2>3
  <2> QED BY <1>1, <1>2, <2>1, <2>2, <2>4, <2>5
<1>4. Informed(r)'
  BY <1>3 DEF Informed
<1>5. CASE row' = row
  <2>1. PICK to \in RunnerRow : to = runner'[r]
    BY <1>1, <1>3
  <2>2. runner' = [runner EXCEPT ![r] = to]
    BY <1>1, <1>3, <2>1 DEF LearningInv, LearningTypeOK, RunnerRow
  <2> QED BY <1>1, <1>4, <1>5, <2>2, UnrequestedKeeps, RunnerMoves
<1>6. CASE row' # row
  <2>1. row[k] = Absent /\ row' = [row EXCEPT ![k] = [status |-> "candidate", version |-> 1]]
    BY <1>2, <1>6 DEF Proposed
  <2>2. PICK new \in RowOf : new = [status |-> "candidate", version |-> 1]
    BY DEF RowOf
  <2>3. new.status = "candidate" /\ new.version = 1 /\ row' = [row EXCEPT ![k] = new]
    BY <2>1, <2>2
  <2>4. row[k].status = "none" /\ row[k].version = 0
    BY <2>1 DEF Absent
  <2>5. RowMoves(k, new)
    BY <1>1, <2>3, <2>4 DEF RowMoves, LearningInv, LearningTypeOK
  <2>6. \A q \in Runners : runner'[q] = runner[q] => Informed(q)'
    BY <2>5, RowChanges
  <2>7. \A q \in Runners : Informed(q)'
    BY <1>3, <1>4, <2>6
  <2> QED BY <1>1, <1>3, <2>5, <2>7, RowKeeps
<1> QED BY <1>5, <1>6

LEMMA DecidedKeeps ==
    ASSUME LearningInv, NEW k \in Candidates, ActivateExperience(k) \/ RevokeExperience(k)
    PROVE  LearningInv'
<1>1. PICK s \in {"active", "revoked"} :
          /\ Becomes(k, s)
          /\ s = "active" => /\ row[k].status = "evaluated"
                             /\ Cardinality(Having("active")) < ActiveLimit
          /\ row[k].status = "revoked" => s = "revoked"
          /\ s = "active" \/ s = "revoked"
  BY DEF ActivateExperience, RevokeExperience
<1>2. UNCHANGED <<changed, folder, switch, runner, requests, gained>>
  BY DEF ActivateExperience, RevokeExperience
<1>3. /\ row \in [Candidates -> RowOf] /\ row' \in [Candidates -> RowOf]
      /\ row'[k].status = s /\ row'[k].version = row[k].version + 1
      /\ \A j \in Candidates \ {k} : row'[j] = row[j]
  BY <1>1 DEF Becomes, LearningInv, LearningTypeOK, RowOf
<1>4. PICK new \in RowOf : new = row'[k]
  BY <1>3
<1>5. row' = [row EXCEPT ![k] = new]
  BY <1>3, <1>4
<1>6. RowMoves(k, new)
  BY <1>1, <1>2, <1>3, <1>4, <1>5
     DEF RowMoves, LearningInv, LearningTypeOK, ActiveIsEarned
<1>7. \A q \in Runners : runner'[q] = runner[q] => Informed(q)'
  BY <1>6, RowChanges
<1>8. runner' \in [Runners -> RunnerRow]
  BY <1>2 DEF LearningInv, LearningTypeOK, RunnerRow
<1> QED BY <1>2, <1>6, <1>7, <1>8, RowKeeps

LEMMA ElsewhereKeeps ==
    ASSUME LearningInv,
           (\E k \in Candidates : SourceChanges(k)) \/ (\E mode \in Modes : Select(mode))
    PROVE  LearningInv'
<1>1. /\ UNCHANGED <<row, folder, runner, requests, gained>>
      /\ changed' \subseteq Candidates
  BY DEF SourceChanges, Select, LearningInv, LearningTypeOK
<1>2. switch' \in [mode : Modes, revision : 0..MaxSwitched]
  <2>1. CASE \E k \in Candidates : SourceChanges(k)
    BY <2>1 DEF SourceChanges, LearningInv, LearningTypeOK
  <2>2. CASE \E mode \in Modes : Select(mode)
    <3>1. PICK mode \in Modes :
              /\ switch' = [mode |-> mode, revision |-> switch.revision + 1]
              /\ switch.revision < MaxSwitched
      BY <2>2 DEF Select
    <3>2. switch.revision + 1 \in 0..MaxSwitched
      BY <3>1, MemoriesAssumption DEF LearningInv, LearningTypeOK, LearningAssumption
    <3> QED BY <3>1, <3>2
  <2> QED BY <2>1, <2>2
<1>3. LearningTypeOK'
  BY <1>1, <1>2 DEF LearningInv, LearningTypeOK
<1> QED BY <1>1, <1>3 DEF LearningInv, ActiveIsEarned, FewAreActive, Having, Informed,
                          RequestedOnce

LEMMA LearningStep ==
    ASSUME LearningInv, [LearningNext]_learningVars
    PROVE  LearningInv'
<1>1. CASE UNCHANGED learningVars
  BY <1>1 DEF learningVars, LearningInv, LearningTypeOK, ActiveIsEarned, FewAreActive, Having,
              Informed, RequestedOnce
<1>2. CASE LearningNext
  BY <1>2, BatchKeeps, ProposedKeeps, RecallKeeps, BeginEvaluateKeeps, EndEvaluateKeeps,
     DecidedKeeps, ElsewhereKeeps DEF LearningNext
<1> QED BY <1>1, <1>2

LEMMA LearningStarts ==
    ASSUME LearningInit
    PROVE  LearningInv
<1>1. /\ row \in [Candidates -> RowOf] /\ \A k \in Candidates : row[k].status = "none"
      /\ runner \in [Runners -> RunnerRow] /\ \A r \in Runners : runner[r].at = "idle"
  BY FreeRow DEF LearningInit, Absent, RowOf
<1>2. switch \in [mode : Modes, revision : 0..MaxSwitched]
  BY MemoriesAssumption DEF LearningInit, LearningAssumption, Modes
<1>3. LearningTypeOK
  BY <1>1, <1>2 DEF LearningInit, LearningTypeOK, RowOf, RunnerRow
<1>4. Having("active") = {}
  BY <1>1 DEF Having
<1>5. FewAreActive
  BY <1>4, FS_EmptySet, MemoriesAssumption DEF FewAreActive, LearningAssumption
<1> QED BY <1>1, <1>3, <1>5 DEF LearningInit, LearningInv, ActiveIsEarned, Informed, RequestedOnce

(* The learning store and its runners keep their invariant.                *)
THEOREM LearningInvariance == LearningSpec => []LearningInv
<1>1. LearningInit => LearningInv
  BY LearningStarts
<1>2. LearningInv /\ [LearningNext]_learningVars => LearningInv'
  BY LearningStep
<1> QED BY <1>1, <1>2, PTL DEF LearningSpec

(* Only the hand-out hands anything out.                                   *)
LEMMA HandsOut ==
    ASSUME LearningInv, LearningNext, NEW r \in Runners,
           runner'[r] # runner[r], runner'[r].at = "handed"
    PROVE  HandOut(r)
<1>1. runner \in [Runners -> RunnerRow]
  BY DEF LearningInv, LearningTypeOK, RunnerRow
<1>2. ASSUME NEW q \in Runners, NEW new \in RunnerRow, new.at # "handed",
             runner' = [runner EXCEPT ![q] = new]
      PROVE  FALSE
  BY <1>1, <1>2
<1>3. ASSUME NEW q \in Runners, NEW at, at # "handed", runner' = [runner EXCEPT ![q].at = at]
      PROVE  FALSE
  BY <1>1, <1>3 DEF RunnerRow
<1>4. PICK blank \in RunnerRow : blank = Free
  BY FreeRow
<1>5. switch \in [mode : Modes, revision : Nat]
  BY MemoriesAssumption DEF LearningInv, LearningTypeOK, LearningAssumption
<1>6. ASSUME NEW q \in Proposers
      PROVE  /\ ~\E k \in Candidates : BeginBatch(q, k)
             /\ ~(TakeFolder(q) \/ Proposed(q) \/ NotProposed(q) \/ RecordRun(q) \/ BatchDies(q))
  <2>1. q \in Runners
    BY DEF Runners
  <2>2. ASSUME NEW k \in Candidates, BeginBatch(q, k)
        PROVE  FALSE
    <3> DEFINE new == [blank EXCEPT !.at = "proposing", !.key = k, !.seen = switch]
    <3>1. new \in RunnerRow /\ new.at = "proposing"
      BY <1>5 DEF RunnerRow
    <3>2. runner' = [runner EXCEPT ![q] = new]
      BY <1>4, <2>2, Zenon DEF BeginBatch
    <3> HIDE DEF new
    <3> QED BY <1>2, <2>1, <3>1, <3>2
  <2>3. runner' # [runner EXCEPT ![q] = Free]
    BY <1>2, <2>1, FreeRow
  <2>4. runner' # [runner EXCEPT ![q].at = "requesting"]
    BY <1>3, <2>1
  <2>5. runner' # [runner EXCEPT ![q].at = "recording"]
    BY <1>3, <2>1
  <2> QED BY <2>2, <2>3, <2>4, <2>5 DEF TakeFolder, Proposed, NotProposed, RecordRun, BatchDies
<1>7. ASSUME NEW q \in Evaluators
      PROVE  ~EndEvaluate(q) /\ ~\E k \in Candidates : BeginEvaluate(q, k)
  <2>1. q \in Runners
    BY DEF Runners
  <2>2. ASSUME NEW k \in Candidates, BeginEvaluate(q, k)
        PROVE  FALSE
    <3>1. row[k].version \in Nat
      BY DEF LearningInv, LearningTypeOK
    <3> DEFINE new == [blank EXCEPT !.at = "evaluating", !.key = k, !.version = row[k].version]
    <3>2. new \in RunnerRow /\ new.at = "evaluating"
      BY <3>1 DEF RunnerRow
    <3>3. runner' = [runner EXCEPT ![q] = new]
      BY <1>4, <2>2, Zenon DEF BeginEvaluate
    <3> HIDE DEF new
    <3> QED BY <1>2, <2>1, <3>2, <3>3
  <2>3. runner' # [runner EXCEPT ![q] = Free]
    BY <1>2, <2>1, FreeRow
  <2> QED BY <2>2, <2>3 DEF EndEvaluate
<1>8. ASSUME NEW q \in Recallers, BeginRecall(q) \/ ReadExperiences(q) \/ HandOut(q)
      PROVE  HandOut(q) /\ q = r
  <2>1. q \in Runners
    BY DEF Runners
  <2>2. ~BeginRecall(q)
    <3>1. ASSUME BeginRecall(q)
          PROVE  FALSE
      <4> DEFINE new == [blank EXCEPT !.at = "recalling", !.seen = switch]
      <4>1. new \in RunnerRow /\ new.at = "recalling"
        BY <1>5 DEF RunnerRow
      <4>2. runner' = [runner EXCEPT ![q] = new]
        BY <1>4, <3>1, Zenon DEF BeginRecall
      <4> HIDE DEF new
      <4> QED BY <1>2, <2>1, <4>1, <4>2
    <3> QED BY <3>1
  <2>3. ~ReadExperiences(q)
    <3>1. ASSUME ReadExperiences(q)
          PROVE  FALSE
      BY <1>1, <2>1, <3>1 DEF ReadExperiences, RunnerRow
    <3> QED BY <3>1
  <2>4. HandOut(q)
    BY <1>8, <2>2, <2>3
  <2>5. q = r
    BY <1>1, <2>1, <2>4 DEF HandOut, RunnerRow
  <2> QED BY <2>4, <2>5
<1>9. runner' # runner
  OBVIOUS
<1> QED BY <1>6, <1>7, <1>8, <1>9
        DEF LearningNext, ActivateExperience, RevokeExperience, SourceChanges, Select

(* What an active row may become, and that a revoked one stays revoked.    *)
LEMMA RowsAreFinal ==
    ASSUME LearningInv, LearningNext, NEW k \in Candidates
    PROVE  /\ row[k].status = "active" => row'[k].status \in {"active", "revoked"}
           /\ row[k].status = "revoked" => row'[k].status = "revoked"
<1>1. row \in [Candidates -> RowOf]
  BY DEF LearningInv, LearningTypeOK, RowOf
<1>2. CASE row' = row
  BY <1>2
<1>3. ASSUME NEW j \in Candidates, NEW s, Becomes(j, s),
             row[j].status \notin {"active", "revoked"} \/ s = "revoked"
      PROVE  /\ row[k].status = "active" => row'[k].status \in {"active", "revoked"}
             /\ row[k].status = "revoked" => row'[k].status = "revoked"
  BY <1>1, <1>3 DEF Becomes, RowOf
<1>4. ASSUME NEW r \in Proposers, Proposed(r), row' # row
      PROVE  /\ row[k].status = "active" => row'[k].status \in {"active", "revoked"}
             /\ row[k].status = "revoked" => row'[k].status = "revoked"
  <2>1. PICK j : j = runner[r].key
    OBVIOUS
  <2>2. row[j] = Absent /\ row' = [row EXCEPT ![j] = [status |-> "candidate", version |-> 1]]
    BY <1>4, <2>1 DEF Proposed
  <2>3. row[j].status = "none"
    BY <2>2 DEF Absent
  <2> QED BY <1>1, <2>2, <2>3
<1>5. ASSUME NEW r \in Evaluators, EndEvaluate(r), row' # row
      PROVE  /\ row[k].status = "active" => row'[k].status \in {"active", "revoked"}
             /\ row[k].status = "revoked" => row'[k].status = "revoked"
  <2>1. r \in Runners /\ runner[r].at = "evaluating"
    BY <1>5 DEF Runners, EndEvaluate, RunnerAt
  <2>2. PICK j \in Candidates : j = runner[r].key
    BY <2>1 DEF LearningInv, Informed
  <2>3. /\ row[j].status \in {"candidate", "no_gain"}
        /\ Becomes(j, "evaluated") \/ Becomes(j, "no_gain")
    BY <1>5, <2>1, <2>2 DEF EndEvaluate, UntouchedSince, LearningInv, Informed
  <2> QED BY <1>3, <2>3
<1>6. ASSUME NEW j \in Candidates, ActivateExperience(j) \/ RevokeExperience(j)
      PROVE  /\ row[k].status = "active" => row'[k].status \in {"active", "revoked"}
             /\ row[k].status = "revoked" => row'[k].status = "revoked"
  BY <1>3, <1>6 DEF ActivateExperience, RevokeExperience
<1> QED BY <1>2, <1>4, <1>5, <1>6
        DEF LearningNext, BeginBatch, TakeFolder, NotProposed, RecordRun, BatchDies, BeginEvaluate,
            BeginRecall, ReadExperiences, HandOut, SourceChanges, Select

(* Evaluations, activations, revocations and recalls cross each other:     *)
(* what is active was assessed for good, ends only by revocation and is    *)
(* not revived, no more are active than allowed, what a recall hands out   *)
(* was earned under a switch that stood at "use", and a source version is  *)
(* asked about once (evaluate, activate, revoke, recall, propose).         *)
THEOREM ExperienceIsAlwaysEarned == LearningSpec => ExperienceIsEarned
<1>1. ASSUME LearningInv, LearningNext
      PROVE  /\ \A k \in Candidates :
                   /\ row'[k].status \in {"evaluated", "active"} => k \in gained'
                   /\ row[k].status = "active" => row'[k].status \in {"active", "revoked"}
                   /\ row[k].status = "revoked" => row'[k].status = "revoked"
             /\ Cardinality({k \in Candidates : row'[k].status = "active"}) <= ActiveLimit
             /\ \A r \in Runners : runner'[r].at = "handed" /\ runner'[r].items # {} =>
                   /\ runner'[r].items \subseteq gained
                   /\ RunnerAt(r, "read") => switch.mode = "use"
             /\ \A k \in Candidates : requests'[k] <= 1
  <2>1. LearningInv'
    BY <1>1, LearningStep
  <2>2. Cardinality({k \in Candidates : row'[k].status = "active"}) <= ActiveLimit
    BY <2>1 DEF LearningInv, FewAreActive, Having
  <2>3. ASSUME NEW r \in Runners, runner'[r].at = "handed", runner'[r].items # {}
        PROVE  /\ runner'[r].items \subseteq gained
               /\ RunnerAt(r, "read") => switch.mode = "use"
    <3>1. Informed(r)
      BY <1>1 DEF LearningInv
    <3>2. CASE runner'[r] = runner[r]
      BY <2>3, <3>1, <3>2 DEF Informed, RunnerAt
    <3>3. CASE runner'[r] # runner[r]
      <4>1. HandOut(r)
        BY <1>1, <2>3, <3>3, HandsOut
      <4>2. /\ runner'[r].items = IF switch = runner[r].seen THEN runner[r].items ELSE {}
            /\ runner[r].at = "read"
        BY <1>1, <4>1 DEF HandOut, RunnerAt, LearningInv, LearningTypeOK
      <4> QED BY <2>3, <3>1, <4>2 DEF Informed
    <3> QED BY <3>2, <3>3
  <2> QED BY <1>1, <2>1, <2>2, <2>3, RowsAreFinal DEF LearningInv, ActiveIsEarned, RequestedOnce
<1>2. LearningInv /\ [LearningNext]_learningVars
        => [/\ \A k \in Candidates :
                  /\ row'[k].status \in {"evaluated", "active"} => k \in gained'
                  /\ row[k].status = "active" => row'[k].status \in {"active", "revoked"}
                  /\ row[k].status = "revoked" => row'[k].status = "revoked"
            /\ Cardinality({k \in Candidates : row'[k].status = "active"}) <= ActiveLimit
            /\ \A r \in Runners : runner'[r].at = "handed" /\ runner'[r].items # {} =>
                  /\ runner'[r].items \subseteq gained
                  /\ RunnerAt(r, "read") => switch.mode = "use"
            /\ \A k \in Candidates : requests'[k] <= 1]_learningVars
  BY <1>1
<1> QED BY <1>2, LearningInvariance, PTL DEF LearningSpec, ExperienceIsEarned

-----------------------------------------------------------------------------
(* The digest.  That it posts once rests on where it is and on the slot;   *)
(* that it reserves nothing stale rests on revisions only going up while   *)
(* the channel is remembered.                                              *)

RowsOrNone == Rows \cup {NoRow}
ChannelRow == [revision : Nat, inbound : Nat, at : Nat]
PermitRow == [allowed : BOOLEAN, revision : Nat, at : Nat]
DigestRow == [at : {"idle", "permitted", "claimed", "drafted", "reserved", "sending",
                    "sent", "uncertain", "withdrawn", "over"},
              permit : PermitRow]

(* Where the digest is tells what it has posted.                           *)
OncePosted ==
    /\ posted \in {0, 1}
    /\ posted = 1 => slot /\ digest.at \in {"idle", "sent", "uncertain", "over"}
    /\ ~slot => digest.at \in {"idle", "permitted"}
    /\ digest.at = "permitted" => ~slot

(* Whatever the channel saw since the permit made its revision greater,    *)
(* unless the channel was forgotten.                                       *)
MovesAreSeen ==
    /\ Drafting /\ moved = "still" => channel.revision = digest.permit.revision
    /\ Drafting /\ moved = "moved" => channel.revision > digest.permit.revision
    /\ digest.at = "reserved" => moved # "moved"

DigestInv ==
    /\ ConversationTypeOK
    /\ OncePosted
    /\ MovesAreSeen

LEMMA WindowsAreNumbers ==
    {Quiet, PermitAge, Unresolved, Lease, Retention, MaxTurns, MaxClock} \subseteq Nat
BY MemoriesAssumption DEF ConversationAssumption

LEMMA NoRowIsApart == NoRow \notin Rows
<1>1. NoRow.status = "none"
  BY DEF NoRow
<1>2. \A r \in Rows : r.status # "none"
  BY DEF Rows, Open, Results
<1> QED BY <1>1, <1>2

(* _prune keeps rows or drops them.                                        *)
LEMMA PrunedRows ==
    ASSUME NEW rs \in [TurnIds -> RowsOrNone], NEW room
    PROVE  Pruned(rs, room) \in [TurnIds -> RowsOrNone]
BY DEF Pruned, RowsOrNone

LEMMA RevisedRow ==
    ASSUME ConversationTypeOK, NEW inbound
    PROVE  /\ Revised(channel, inbound) \in ChannelRow
           /\ Revised(channel, inbound).revision = channel.revision + 1
BY DEF ConversationTypeOK, Revised, ChannelRow

LEMMA OpenedRow ==
    ASSUME ConversationTypeOK, NEW origin \in {"user", "scheduled"},
           NEW phase \in {"context", "delivery"}
    PROVE  Opened(origin, phase) \in Rows
<1>1. clock \in Nat /\ clock + Lease \in Nat
  BY WindowsAreNumbers DEF ConversationTypeOK
<1> QED BY <1>1 DEF Opened, Rows, Open

(* begin, step and finish, of whatever turn: rows stay rows, and if the    *)
(* table changes the revision goes up.                                     *)
LEMMA BegunRows ==
    ASSUME ConversationTypeOK, NEW t \in TurnIds, NEW origin \in {"user", "scheduled"},
           NEW phase \in {"context", "delivery"}, Begun(t, origin, phase)
    PROVE  /\ rows' \in [TurnIds -> RowsOrNone] /\ channel' \in ChannelRow
           /\ channel'.revision = channel.revision + 1
<1>1. PICK room : rows' = Pruned([rows EXCEPT ![t] = Opened(origin, phase)], room)
  BY DEF Begun
<1>2. [rows EXCEPT ![t] = Opened(origin, phase)] \in [TurnIds -> RowsOrNone]
  BY OpenedRow DEF ConversationTypeOK, RowsOrNone
<1>3. rows' \in [TurnIds -> RowsOrNone]
  BY <1>1, <1>2, PrunedRows
<1> QED BY <1>3, RevisedRow DEF Begun

LEMMA SteppedRows ==
    ASSUME ConversationTypeOK, NEW t \in TurnIds, NEW new \in Rows, NEW queued \in BOOLEAN,
           Stepped(t, new, queued), ActiveTurn(rows[t])
    PROVE  /\ rows' \in [TurnIds -> RowsOrNone] /\ channel' \in ChannelRow
           /\ channel'.revision = channel.revision + 1
<1>1. clock \in Nat /\ clock + Lease \in Nat
  BY WindowsAreNumbers DEF ConversationTypeOK
<1>2. PICK s \in {"running", "queued"} : s = IF queued THEN "queued" ELSE "running"
  OBVIOUS
<1>3. PICK m \in Nat : m = clock + Lease
  BY <1>1
<1> DEFINE next == [new EXCEPT !.status = s, !.updated = clock, !.lease = m]
<1>4. next \in Rows
  <2>1. s \in Open \cup Results \cup {"failed", "chat", "ignored", "continued"}
    BY DEF Open
  <2> QED BY <1>1, <2>1 DEF Rows
<1>5. rows' = [rows EXCEPT ![t] = next]
  BY <1>2, <1>3, Zenon DEF Stepped
<1> HIDE DEF next
<1>6. rows' \in [TurnIds -> RowsOrNone]
  BY <1>4, <1>5 DEF ConversationTypeOK, RowsOrNone
<1> QED BY <1>6, RevisedRow DEF Stepped

LEMMA FinishedRows ==
    ASSUME ConversationTypeOK, NEW t \in TurnIds, NEW sent \in BOOLEAN, NEW same \in BOOLEAN,
           NEW status \in Results \cup {"failed", "chat", "ignored"},
           Finished(t, status, sent, same), Endable(t)
    PROVE  /\ rows' \in [TurnIds -> RowsOrNone] /\ channel' \in ChannelRow
           /\ channel'.revision = channel.revision + 1
<1>1. clock \in Nat
  BY DEF ConversationTypeOK
<1>2. PICK old \in Rows : old = rows[t]
  BY DEF Endable, ActiveTurn, ConversationTypeOK
<1>3. PICK e \in {"none", "unresolved", "resolved"} : e = Bound(old.evidence, same)
  BY DEF Bound, Rows
<1> DEFINE next == [old EXCEPT !.status = status, !.phase = "finished", !.sent = sent,
                               !.evidence = e, !.updated = clock, !.lease = 0]
<1>4. next \in Rows
  BY <1>1 DEF Rows
<1>5. ASSUME NEW u \in TurnIds \ {t}
      PROVE  rows'[u] \in RowsOrNone
  <2>1. CASE rows'[u] = rows[u]
    BY <2>1 DEF ConversationTypeOK, RowsOrNone
  <2>2. CASE rows'[u] # rows[u]
    <3>1. /\ rows'[u] = [rows[u] EXCEPT !.status = "continued", !.updated = clock]
          /\ Continues(t, status, u)
      BY <2>2 DEF Finished
    <3>2. PICK was \in Rows : was = rows[u]
      BY <3>1 DEF Continues, ConversationTypeOK
    <3>3. [was EXCEPT !.status = "continued", !.updated = clock] \in Rows
      BY <1>1 DEF Rows
    <3> QED BY <3>1, <3>2, <3>3, Zenon DEF RowsOrNone
  <2> QED BY <2>1, <2>2
<1>6. rows'[t] = next
  BY <1>2, <1>3, Zenon DEF Finished
<1>7. rows' = [u \in TurnIds |-> rows'[u]]
  BY DEF Finished
<1> HIDE DEF next
<1>8. rows' \in [TurnIds -> RowsOrNone]
  <2>1. \A u \in TurnIds : rows'[u] \in RowsOrNone
    BY <1>4, <1>5, <1>6 DEF RowsOrNone
  <2> QED BY <1>7, <2>1
<1> QED BY <1>8, RevisedRow DEF Finished

LEMMA StirKeeps ==
    ASSUME DigestInv, NEW t \in UserTurns, Stir(t)
    PROVE  DigestInv'
<1>1. ConversationTypeOK /\ t \in TurnIds
  BY DEF DigestInv, TurnIds
<1>2. /\ rows' \in [TurnIds -> RowsOrNone] /\ channel' \in ChannelRow
      /\ channel'.revision = channel.revision + 1
  <2>1. CASE channel' = Revised(channel, TRUE) /\ UNCHANGED rows
    BY <1>1, <2>1, RevisedRow DEF ConversationTypeOK, RowsOrNone
  <2>2. CASE Begun(t, "user", "context")
    BY <1>1, <2>2, BegunRows
  <2>3. ASSUME NEW e \in {"none", "unresolved"}, rows[t] # NoRow, ActiveTurn(rows[t]),
               Stepped(t, [rows[t] EXCEPT !.evidence = e], FALSE)
        PROVE  /\ rows' \in [TurnIds -> RowsOrNone] /\ channel' \in ChannelRow
               /\ channel'.revision = channel.revision + 1
    <3>1. PICK old \in Rows : old = rows[t]
      BY <1>1, <2>3 DEF ConversationTypeOK
    <3> DEFINE new == [old EXCEPT !.evidence = e]
    <3>2. new \in Rows
      BY DEF Rows
    <3>3. Stepped(t, new, FALSE)
      BY <2>3, <3>1, Zenon
    <3> HIDE DEF new
    <3> QED BY <1>1, <2>3, <3>2, <3>3, SteppedRows
  <2>4. ASSUME NEW status \in Results, Endable(t), Finished(t, status, FALSE, TRUE)
        PROVE  /\ rows' \in [TurnIds -> RowsOrNone] /\ channel' \in ChannelRow
               /\ channel'.revision = channel.revision + 1
    BY <1>1, <2>4, FinishedRows
  <2> QED BY <2>1, <2>2, <2>3, <2>4 DEF Stir
<1>3. /\ moved' = IF Drafting /\ moved = "still" THEN "moved" ELSE moved
      /\ UNCHANGED <<clock, front, worker, lost, delivered, digest, slot, posted>>
  BY DEF Stir, Apart
<1>4. ConversationTypeOK'
  BY <1>1, <1>2, <1>3 DEF ConversationTypeOK, RowsOrNone, ChannelRow
<1>5. OncePosted'
  BY <1>3 DEF DigestInv, OncePosted
<1>6. /\ channel.revision \in Nat /\ channel'.revision = channel.revision + 1
      /\ digest.permit.revision \in Nat /\ Drafting' = Drafting
  BY <1>1, <1>2, <1>3 DEF ConversationTypeOK, Drafting
<1>7. MovesAreSeen'
  <2>1. ASSUME Drafting, moved' = "moved"
        PROVE  channel'.revision > digest'.permit.revision
    BY <1>1, <1>3, <1>6, <2>1 DEF DigestInv, MovesAreSeen, ConversationTypeOK
  <2>2. ~(Drafting /\ moved' = "still")
    BY <1>3
  <2>3. digest'.at = "reserved" => moved' # "moved"
    BY <1>3 DEF DigestInv, MovesAreSeen, Drafting
  <2> QED BY <1>6, <2>1, <2>2, <2>3 DEF MovesAreSeen
<1> QED BY <1>4, <1>5, <1>7 DEF DigestInv

(* A step of the digest that leaves the channel alone.                     *)
LEMMA DigestGoes ==
    ASSUME DigestInv, digest' \in DigestRow, slot' \in BOOLEAN, OncePosted',
           UNCHANGED <<rows, channel, moved>>, Apart,
           digest'.at \in {"permitted", "claimed", "drafted"}
               => Drafting /\ digest'.permit = digest.permit,
           digest'.at = "reserved" => moved # "moved"
    PROVE  DigestInv'
<1>1. ConversationTypeOK'
  BY DEF DigestInv, ConversationTypeOK, Apart, DigestRow, PermitRow, OncePosted
<1>2. MovesAreSeen'
  BY DEF DigestInv, MovesAreSeen, Drafting
<1> QED BY <1>1, <1>2 DEF DigestInv

LEMMA GoesTo ==
    ASSUME DigestInv,
           NEW at \in {"idle", "claimed", "drafted", "sending", "sent", "uncertain",
                       "withdrawn", "over"}, Goes(at)
    PROVE  digest' \in DigestRow /\ digest'.at = at /\ digest'.permit = digest.permit
BY DEF Goes, DigestInv, ConversationTypeOK, DigestRow, PermitRow

LEMMA PermitKeeps ==
    ASSUME DigestInv, Permit
    PROVE  DigestInv'
<1>1. channel.revision \in Nat /\ clock \in Nat
  BY DEF DigestInv, ConversationTypeOK
<1>2. /\ digest'.at = "permitted" /\ digest'.permit.revision = channel.revision
      /\ digest' \in DigestRow
  BY <1>1 DEF Permit, DigestRow, PermitRow
<1>3. ~slot /\ moved' = "still" /\ UNCHANGED <<rows, channel, slot, posted>> /\ Apart
  BY DEF Permit
<1>4. ConversationTypeOK'
  BY <1>2, <1>3 DEF DigestInv, ConversationTypeOK, Apart, DigestRow, PermitRow
<1>5. OncePosted'
  BY <1>2, <1>3 DEF DigestInv, OncePosted
<1>6. MovesAreSeen'
  BY <1>2, <1>3 DEF MovesAreSeen
<1> QED BY <1>4, <1>5, <1>6 DEF DigestInv

LEMMA ClaimSlotKeeps ==
    ASSUME DigestInv, ClaimSlot
    PROVE  DigestInv'
<1>1. /\ digest.at = "permitted" /\ UNCHANGED <<rows, channel, moved, posted>> /\ Apart
      /\ slot' \in BOOLEAN
  BY DEF ClaimSlot, DigestInv, ConversationTypeOK
<1>2. \/ digest'.at = "idle" /\ UNCHANGED slot
      \/ digest'.at = "claimed" /\ slot'
  BY GoesTo DEF ClaimSlot
<1>3. digest' \in DigestRow /\ digest'.permit = digest.permit
  BY GoesTo DEF ClaimSlot
<1>4. OncePosted'
  BY <1>1, <1>2 DEF DigestInv, OncePosted
<1> QED BY <1>1, <1>2, <1>3, <1>4, DigestGoes DEF Drafting

LEMMA GenerateKeeps ==
    ASSUME DigestInv, Generate
    PROVE  DigestInv'
<1>1. /\ digest.at = "claimed" /\ UNCHANGED <<rows, channel, slot, moved, posted>> /\ Apart
      /\ slot' \in BOOLEAN
  BY DEF Generate, DigestInv, ConversationTypeOK
<1>2. /\ digest'.at \in {"over", "drafted"}
      /\ digest' \in DigestRow /\ digest'.permit = digest.permit
  BY GoesTo DEF Generate
<1>3. OncePosted'
  BY <1>1, <1>2 DEF DigestInv, OncePosted
<1> QED BY <1>1, <1>2, <1>3, DigestGoes DEF Drafting

LEMMA ReserveKeeps ==
    ASSUME DigestInv, Reserve
    PROVE  DigestInv'
<1>1. /\ digest.at = "drafted" /\ UNCHANGED <<slot, moved, posted>> /\ Apart
      /\ slot' \in BOOLEAN
  BY DEF Reserve, DigestInv, ConversationTypeOK
<1>2. CASE /\ StillCurrent(digest.permit, {}) /\ Begun(Digest, "scheduled", "delivery")
           /\ digest' = [at |-> "reserved",
                  permit |-> [allowed |-> TRUE, revision |-> channel'.revision, at |-> clock]]
  <2>1. rows' \in [TurnIds -> RowsOrNone] /\ channel' \in ChannelRow
    BY <1>2, BegunRows DEF DigestInv, TurnIds
  <2>2. channel'.revision \in Nat /\ clock \in Nat
    BY <2>1 DEF ChannelRow, DigestInv, ConversationTypeOK
  <2>3. digest' \in DigestRow /\ digest'.at = "reserved"
    BY <1>2, <2>2 DEF DigestRow, PermitRow
  <2>4. moved # "moved"
    BY <1>1, <1>2 DEF StillCurrent, DigestInv, MovesAreSeen, Drafting, ConversationTypeOK
  <2>5. ConversationTypeOK'
    BY <1>1, <2>1, <2>3 DEF DigestInv, ConversationTypeOK, Apart, RowsOrNone, ChannelRow,
                            DigestRow, PermitRow
  <2>6. OncePosted'
    BY <1>1, <2>3 DEF DigestInv, OncePosted
  <2>7. MovesAreSeen'
    BY <1>1, <2>3, <2>4 DEF MovesAreSeen, Drafting
  <2> QED BY <2>5, <2>6, <2>7 DEF DigestInv
<1>3. CASE Goes("withdrawn") /\ UNCHANGED <<rows, channel>>
  <2>1. digest' \in DigestRow /\ digest'.at = "withdrawn"
    BY <1>3, GoesTo
  <2>2. OncePosted'
    BY <1>1, <2>1 DEF DigestInv, OncePosted
  <2> QED BY <1>1, <1>3, <2>1, <2>2, DigestGoes
<1> QED BY <1>2, <1>3 DEF Reserve

LEMMA RecheckKeeps ==
    ASSUME DigestInv, Recheck
    PROVE  DigestInv'
<1>1. /\ digest.at = "reserved" /\ UNCHANGED <<rows, channel, slot, moved, posted>> /\ Apart
      /\ slot' \in BOOLEAN
  BY DEF Recheck, DigestInv, ConversationTypeOK
<1>2. digest'.at \in {"sending", "withdrawn"} /\ digest' \in DigestRow
  BY GoesTo DEF Recheck
<1>3. OncePosted'
  BY <1>1, <1>2 DEF DigestInv, OncePosted
<1> QED BY <1>1, <1>2, <1>3, DigestGoes

LEMMA PostKeeps ==
    ASSUME DigestInv, Post
    PROVE  DigestInv'
<1>1. /\ digest.at = "sending" /\ UNCHANGED <<rows, channel, slot, moved>> /\ Apart
      /\ slot' \in BOOLEAN /\ posted' = posted + 1
  BY DEF Post, DigestInv, ConversationTypeOK
<1>2. digest'.at \in {"sent", "uncertain"} /\ digest' \in DigestRow
  BY GoesTo DEF Post
<1>3. OncePosted'
  BY <1>1, <1>2 DEF DigestInv, OncePosted
<1> QED BY <1>1, <1>2, <1>3, DigestGoes

LEMMA CloseDigestKeeps ==
    ASSUME DigestInv, CloseDigest
    PROVE  DigestInv'
<1>1. /\ digest.at \in {"sent", "uncertain", "withdrawn"}
      /\ UNCHANGED <<slot, moved, posted>> /\ Apart
  BY DEF CloseDigest
<1>2. digest' \in DigestRow /\ digest'.at = "over"
  BY GoesTo DEF CloseDigest
<1>3. rows' \in [TurnIds -> RowsOrNone] /\ channel' \in ChannelRow
  <2>1. ConversationTypeOK /\ Digest \in TurnIds
    BY DEF DigestInv, TurnIds
  <2>2. CASE UNCHANGED <<rows, channel>>
    BY <2>1, <2>2 DEF ConversationTypeOK, RowsOrNone, ChannelRow
  <2>3. CASE ~UNCHANGED <<rows, channel>>
    <3>1. PICK status \in {"chat", "failed", "ignored"}, sent \in BOOLEAN :
              Finished(Digest, status, sent, TRUE)
      BY <2>3 DEF CloseDigest
    <3>2. Endable(Digest)
      BY <2>3, <3>1 DEF Finished
    <3> QED BY <2>1, <3>1, <3>2, FinishedRows
  <2> QED BY <2>2, <2>3
<1>4. ConversationTypeOK'
  BY <1>1, <1>2, <1>3 DEF DigestInv, ConversationTypeOK, Apart, RowsOrNone, ChannelRow,
                          DigestRow, PermitRow
<1>5. OncePosted'
  BY <1>1, <1>2 DEF DigestInv, OncePosted
<1>6. MovesAreSeen'
  BY <1>2 DEF MovesAreSeen, Drafting
<1> QED BY <1>4, <1>5, <1>6 DEF DigestInv

LEMMA OtherBeginsKeeps ==
    ASSUME DigestInv, OtherBegins
    PROVE  DigestInv'
<1>1. /\ channel' \in {NoChannel, channel} /\ UNCHANGED <<digest, slot, posted>> /\ Apart
      /\ moved' = IF Drafting /\ channel' # channel THEN "forgotten" ELSE moved
  BY DEF OtherBegins
<1>2. rows' \in [TurnIds -> RowsOrNone]
  BY PrunedRows DEF OtherBegins, DigestInv, ConversationTypeOK, RowsOrNone
<1>3. channel' \in ChannelRow
  BY <1>1 DEF NoChannel, ChannelRow, DigestInv, ConversationTypeOK
<1>4. ConversationTypeOK'
  BY <1>1, <1>2, <1>3 DEF DigestInv, ConversationTypeOK, Apart, RowsOrNone, ChannelRow
<1>5. OncePosted'
  BY <1>1 DEF DigestInv, OncePosted
<1>6. MovesAreSeen'
  BY <1>1 DEF DigestInv, MovesAreSeen, Drafting
<1> QED BY <1>4, <1>5, <1>6 DEF DigestInv

LEMMA PassKeeps ==
    ASSUME DigestInv, Pass
    PROVE  DigestInv'
<1>1. clock' \in Nat
  BY DEF Pass, DigestInv, ConversationTypeOK
<1> QED BY <1>1 DEF Pass, DigestInv, ConversationTypeOK, OncePosted, MovesAreSeen, Drafting

LEMMA CrashDigestKeeps ==
    ASSUME DigestInv, CrashDigest
    PROVE  DigestInv'
<1>1. digest' \in DigestRow /\ digest'.at = "idle"
  BY DEF CrashDigest, NoPermit, DigestRow, PermitRow
<1>2. UNCHANGED <<rows, channel, slot, moved, posted>> /\ Apart /\ slot' \in BOOLEAN
  BY DEF CrashDigest, DigestInv, ConversationTypeOK
<1>3. OncePosted'
  BY <1>1, <1>2 DEF DigestInv, OncePosted
<1> QED BY <1>1, <1>2, <1>3, DigestGoes

LEMMA DigestStep ==
    ASSUME DigestInv, [DigestNext]_conversationVars
    PROVE  DigestInv'
<1>1. CASE UNCHANGED conversationVars
  BY <1>1 DEF conversationVars, DigestInv, ConversationTypeOK, OncePosted, MovesAreSeen, Drafting
<1>2. CASE DigestNext
  BY <1>2, PermitKeeps, ClaimSlotKeeps, GenerateKeeps, ReserveKeeps, RecheckKeeps, PostKeeps,
     CloseDigestKeeps, StirKeeps, OtherBeginsKeeps, PassKeeps, CrashDigestKeeps DEF DigestNext
<1> QED BY <1>1, <1>2

LEMMA DigestStarts ==
    ASSUME ConversationInit
    PROVE  DigestInv
<1>1. /\ digest \in DigestRow /\ digest.at = "idle" /\ channel \in ChannelRow
      /\ rows \in [TurnIds -> RowsOrNone]
  BY DEF ConversationInit, NoPermit, NoChannel, DigestRow, PermitRow, ChannelRow, RowsOrNone
<1>2. /\ front \in [UserTurns -> [at : Places, status : Results \cup {"failed", "running"}]]
      /\ worker \in [UserTurns -> [at : Stations, status : Results \cup {"failed", "running"}]]
  BY DEF ConversationInit, Places, Stations
<1>3. ConversationTypeOK
  BY <1>1, <1>2 DEF ConversationInit, ConversationTypeOK, DigestRow, PermitRow, ChannelRow, RowsOrNone
<1> QED BY <1>1, <1>3 DEF ConversationInit, DigestInv, OncePosted, MovesAreSeen, Drafting

(* The digest among the user's turns keeps its invariant.                  *)
THEOREM DigestInvariance == DigestSpec => []DigestInv
<1>1. ConversationInit => DigestInv
  BY DigestStarts
<1>2. DigestInv /\ [DigestNext]_conversationVars => DigestInv'
  BY DigestStep
<1> QED BY <1>1, <1>2, PTL DEF DigestSpec

(* The digest speaks once a day at most, whatever crashes, and reserves    *)
(* its message only if nothing was recorded in the channel since the       *)
(* permit, or if the channel was pruned or forgotten in between, for then  *)
(* its revisions begin again and nothing is promised (process_group_digest,*)
(* reserve_proactive; see DraftIsInvalidated).                             *)
THEOREM DigestStaysConsiderate == DigestSpec => []DigestIsConsiderate
<1>1. DigestInv => DigestIsConsiderate
  BY DEF DigestInv, OncePosted, MovesAreSeen, DigestIsConsiderate
<1> QED BY <1>1, DigestInvariance, PTL

-----------------------------------------------------------------------------
(* The composition.  In a behaviour one part moves and the others stay as  *)
(* they began; so each behaves as its own specification says, and what was *)
(* proved of it holds of the composition.                                  *)

LEMMA PartStays == MemoriesSpec => [](part \in Parts)
<1>1. MemoriesInit => part \in Parts
  BY DEF MemoriesInit
<1>2. part \in Parts /\ [MemoriesNext]_memoriesVars => (part \in Parts)'
  BY DEF MemoriesNext, KernelMoves, MemoryMoves, ProjectionMoves, LearningMoves, DigestMoves,
         memoriesVars
<1> QED BY <1>1, <1>2, PTL DEF MemoriesSpec

(* A step of the composition is a step of each part, or leaves it alone.   *)
LEMMA PartsStep ==
    ASSUME [MemoriesNext]_memoriesVars
    PROVE  /\ [Next]_vars /\ [MemoryNext]_memoryVars /\ [ProjectionNext]_projectionVars
           /\ [LearningNext]_learningVars /\ [DigestNext]_conversationVars
BY DEF MemoriesNext, KernelMoves, MemoryMoves, ProjectionMoves, LearningMoves, DigestMoves,
       memoriesVars

(* The composition implements each of its parts.                           *)
THEOREM PartsAreKept ==
    MemoriesSpec => Spec /\ MemorySpec /\ ProjectionSpec /\ LearningSpec /\ DigestSpec
<1>1. MemoriesInit => /\ Init /\ MemoryInit /\ ProjectionInit /\ LearningInit
                      /\ ConversationInit
  BY DEF MemoriesInit
<1>2. [MemoriesNext]_memoriesVars
        => /\ [Next]_vars /\ [MemoryNext]_memoryVars /\ [ProjectionNext]_projectionVars
           /\ [LearningNext]_learningVars /\ [DigestNext]_conversationVars
  BY PartsStep
<1> QED BY <1>1, <1>2, PTL
        DEF MemoriesSpec, Spec, MemorySpec, ProjectionSpec, LearningSpec, DigestSpec

(* In the composition every part has its type where it moves.              *)
THEOREM MemoriesAreTyped == MemoriesSpec => []MemoriesTypeOK
<1>1. /\ MemoryInv => MemoryTypeOK
      /\ ProjectionInv => ProjectionTypeOK
      /\ LearningInv => LearningTypeOK
      /\ DigestInv => ConversationTypeOK
  BY DEF MemoryInv, ProjectionInv, LearningInv, DigestInv
<1>2. /\ part \in Parts
      /\ KernelTypeOK /\ MemoryTypeOK /\ ProjectionTypeOK /\ LearningTypeOK
      /\ ConversationTypeOK
      => MemoriesTypeOK
  BY MemoriesAssumption DEF MemoriesTypeOK
<1> QED BY <1>1, <1>2, PartStays, PartsAreKept, KernelTyped, MemoryInvariance,
        ProjectionInvariance, LearningInvariance, DigestInvariance, PTL

(* Nothing forgotten is recalled, and nothing forgotten comes back into    *)
(* what later turns read, in the store and in the projections alike.       *)
THEOREM ForgottenStaysGone == MemoriesSpec => ForgottenIsGone
BY PartsAreKept, NothingForgottenIsEverRecalled, NothingIsEverResurrected, PTL
   DEF ForgottenIsGone

(* The other properties of the parts, in the composition the instances are *)
(* checked in.                                                             *)
THEOREM MemoriesAreKept ==
    MemoriesSpec => /\ []OncePerEvent /\ DecisionsStand
                    /\ []DerivedFollowsSource
                    /\ ExperienceIsEarned
                    /\ []DigestIsConsiderate
BY PartsAreKept, DecidedAndPrintedOnce, DecisionsAreKept, DerivedAlwaysFollowsSource,
   ExperienceIsAlwaysEarned, DigestStaysConsiderate, PTL
===============================================================================
