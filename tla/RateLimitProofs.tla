-------------------------- MODULE RateLimitProofs --------------------------
(***************************************************************************)
(* The cap and the spacing of the limiter, for any number of callers and   *)
(* whatever cap, spacing and window.                                       *)
(***************************************************************************)
EXTENDS RateLimit, FiniteSetTheorems, SequenceTheorems, TLAPS

Held == holder # NoOne

\* Only the holder of the lock sleeps or acts.
HolderInv == \A c \in Callers : pc[c] \in {"spacing", "acting"} <=> holder = c

\* In the queue are those that wait, each once.
QueueInv == /\ \A i \in 1..Len(queue) : pc[queue[i]] = "queued"
            /\ \A i, j \in 1..Len(queue) : queue[i] = queue[j] => i = j

\* A record is younger than the request it is of, the last is the youngest, and
\* an outcome is of a call that is over.
RecordInv == /\ \A c \in Callers : outcome[c] # "none" => pc[c] = "done"
             /\ \A c \in Callers : outcome[c] = "ok" => recent[c] <= hits[c]
             /\ \A c \in Callers : last = NoOne => recent[c] = Window
             /\ \A c \in Callers : last # NoOne => recent[last] <= recent[c]

\* Whoever holds the lock has found room, and none is taken meanwhile.
CapInv == /\ IsFiniteSet(Live) /\ Cardinality(Live) <= PerHour
          /\ Held => Cardinality(Live) < PerHour

\* The sleep that is left covers what is left of the spacing.
RestInv == Held => \A d \in Live : recent[d] + sleep >= Spacing \/ pc[holder] = "acting"

IInv == TypeOK /\ HolderInv /\ QueueInv /\ RecordInv /\ CapInv /\ RestInv

\* Taking one out of a queue leaves the others as they stood.
LEMMA TakenOut ==
  ASSUME NEW S, NEW s \in Seq(S), NEW i \in 1..Len(s)
  PROVE  /\ RemoveAt(s, i) \in Seq(S) /\ Len(RemoveAt(s, i)) = Len(s) - 1
         /\ \A k \in 1..(Len(s) - 1) : RemoveAt(s, i)[k] = IF k < i THEN s[k] ELSE s[k + 1]
<1> DEFINE l == SubSeq(s, 1, i - 1)
           r == SubSeq(s, i + 1, Len(s))
<1>1. Len(s) \in Nat /\ \A k \in 1..Len(s) : s[k] \in S
  BY LenProperties, ElementOfSeq
<1>2. l \in Seq(S) /\ Len(l) = i - 1 /\ \A k \in 1..(i - 1) : l[k] = s[k]
  BY <1>1, SubSeqProperties
<1>3. r \in Seq(S) /\ Len(r) = Len(s) - i /\ \A k \in 1..(Len(s) - i) : r[k] = s[i + k]
  BY <1>1, SubSeqProperties
<1> HIDE DEF l, r
<1>4. /\ l \o r \in Seq(S) /\ Len(l \o r) = Len(s) - 1
      /\ \A k \in 1..(Len(s) - 1) : (l \o r)[k] = IF k <= i - 1 THEN l[k] ELSE r[k - (i - 1)]
  <2>1. Len(l) + Len(r) = Len(s) - 1
    BY <1>1, <1>2, <1>3
  <2>2. /\ l \o r \in Seq(S) /\ Len(l \o r) = Len(l) + Len(r)
        /\ \A k \in 1..(Len(l) + Len(r)) : (l \o r)[k] = IF k <= Len(l) THEN l[k] ELSE r[k - Len(l)]
    BY <1>2, <1>3, ConcatProperties
  <2> QED
    BY <1>2, <2>1, <2>2
<1>5. RemoveAt(s, i) = l \o r
  BY DEF RemoveAt, l, r
<1> QED
  BY <1>1, <1>2, <1>3, <1>4, <1>5

\* The first of the queue is a caller that waits, and in it once.
LEMMA HeadOfQueue ==
  ASSUME TypeOK, QueueInv, queue # <<>>
  PROVE  /\ Head(queue) \in Callers /\ pc[Head(queue)] = "queued"
         /\ Tail(queue) \in Seq(Callers) /\ Len(Tail(queue)) = Len(queue) - 1
         /\ \A i \in 1..Len(Tail(queue)) : Tail(queue)[i] = queue[i + 1] /\ Tail(queue)[i] # Head(queue)
<1>1. Len(queue) \in Nat \ {0} /\ Head(queue) = queue[1]
  BY EmptySeq DEF TypeOK
<1>2. /\ Head(queue) \in Callers /\ Tail(queue) \in Seq(Callers) /\ Len(Tail(queue)) = Len(queue) - 1
      /\ \A i \in 1..Len(Tail(queue)) : Tail(queue)[i] = queue[i + 1]
  BY HeadTailProperties DEF TypeOK
<1> QED
  BY <1>1, <1>2 DEF QueueInv

\* Every step keeps the types.
LEMMA TypesStep ==
  ASSUME RateAssumption, IInv, Next PROVE TypeOK'
<1> USE DEF IInv, TypeOK, RateAssumption
<1>1. ASSUME NEW c \in Callers, Ask(c) PROVE TypeOK'
  BY <1>1 DEF Ask
<1>2. ASSUME NEW c \in Callers, Refuse(c) PROVE TypeOK'
  BY <1>2, HeadOfQueue DEF Refuse, Leave
<1>3. ASSUME NEW c \in Callers, Acquire(c) PROVE TypeOK'
  <2>1. Rest \in 0..Spacing
    BY DEF Rest, Live
  <2> QED
    BY <1>3, <2>1, HeadOfQueue DEF Acquire
<1>4. ASSUME NEW c \in Callers, Act(c) PROVE TypeOK'
  BY <1>4 DEF Act
<1>5. ASSUME NEW c \in Callers, Succeed(c) PROVE TypeOK'
  BY <1>5 DEF Succeed, Leave
<1>6. ASSUME NEW c \in Callers, Fail(c) PROVE TypeOK'
  BY <1>6 DEF Fail, Leave
<1>7. ASSUME NEW c \in Callers, HangUp(c) PROVE TypeOK'
  <2>1. queue' \in Seq(Callers)
    BY <1>7, TakenOut, LenProperties DEF HangUp
  <2> QED
    BY <1>7, <2>1 DEF HangUp, Leave
<1>8. ASSUME Tick PROVE TypeOK'
  BY <1>8 DEF Tick, Older
<1> QED
  BY <1>1, <1>2, <1>3, <1>4, <1>5, <1>6, <1>7, <1>8 DEF Next, Call

\* The lock is taken to sleep, and let go of with it.
LEMMA HolderStep ==
  ASSUME RateAssumption, IInv, Next PROVE HolderInv'
<1> USE DEF IInv, TypeOK, HolderInv, RateAssumption
<1>1. ASSUME NEW c \in Callers, Ask(c) PROVE HolderInv'
  BY <1>1 DEF Ask
<1>2. ASSUME NEW c \in Callers, Refuse(c) PROVE HolderInv'
  BY <1>2, HeadOfQueue DEF Refuse, Leave
<1>3. ASSUME NEW c \in Callers, Acquire(c) PROVE HolderInv'
  BY <1>3, HeadOfQueue DEF Acquire
<1>4. ASSUME NEW c \in Callers, Act(c) PROVE HolderInv'
  BY <1>4 DEF Act
<1>5. ASSUME NEW c \in Callers, Succeed(c) PROVE HolderInv'
  BY <1>5 DEF Succeed, Leave
<1>6. ASSUME NEW c \in Callers, Fail(c) PROVE HolderInv'
  BY <1>6 DEF Fail, Leave
<1>7. ASSUME NEW c \in Callers, HangUp(c) PROVE HolderInv'
  BY <1>7 DEF HangUp, Leave
<1>8. ASSUME Tick PROVE HolderInv'
  BY <1>8 DEF Tick, Older
<1> QED
  BY <1>1, <1>2, <1>3, <1>4, <1>5, <1>6, <1>7, <1>8 DEF Next, Call

\* Whoever stops waiting is out of the queue.
LEMMA QueueStep ==
  ASSUME RateAssumption, IInv, Next PROVE QueueInv'
<1> USE DEF IInv, TypeOK, QueueInv, RateAssumption
<1>1. ASSUME NEW c \in Callers, Ask(c) PROVE QueueInv'
  BY <1>1, SMTT(30) DEF Ask
<1>2. ASSUME NEW c \in Callers, Refuse(c) PROVE QueueInv'
  BY <1>2, HeadOfQueue, SMTT(30) DEF Refuse, Leave
<1>3. ASSUME NEW c \in Callers, Acquire(c) PROVE QueueInv'
  BY <1>3, HeadOfQueue, SMTT(30) DEF Acquire
<1>4. ASSUME NEW c \in Callers, Act(c) PROVE QueueInv'
  <2>1. \A i \in 1..Len(queue) : queue[i] \in Callers /\ queue[i] # c
    BY <1>4, ElementOfSeq DEF Act
  <2> QED
    BY <1>4, <2>1 DEF Act
<1>5. ASSUME NEW c \in Callers, Succeed(c) PROVE QueueInv'
  BY <1>5 DEF Succeed, Leave
<1>6. ASSUME NEW c \in Callers, Fail(c) PROVE QueueInv'
  BY <1>6 DEF Fail, Leave
<1>7. ASSUME NEW c \in Callers, HangUp(c) PROVE QueueInv'
  <2>1. Len(queue) \in Nat /\ DOMAIN queue = 1..Len(queue) /\ \A i \in 1..Len(queue) : queue[i] \in Callers
    BY LenProperties, ElementOfSeq
  <2>2. CASE \E i \in DOMAIN queue : queue[i] = c /\ queue' = RemoveAt(queue, i)
    <3>1. PICK i \in 1..Len(queue) : queue[i] = c /\ queue' = RemoveAt(queue, i)
      BY <2>1, <2>2
    <3>2. /\ Len(queue') = Len(queue) - 1
          /\ \A k \in 1..(Len(queue) - 1) : queue'[k] = IF k < i THEN queue[k] ELSE queue[k + 1]
      <4>1. queue \in Seq(Callers)
        OBVIOUS
      <4> QED
        BY ONLY <3>1, <4>1, TakenOut
    <3>3. \A k \in 1..(Len(queue) - 1) : queue'[k] # c
      <4>1. \A j \in 1..Len(queue) : j # i => queue[j] # c
        BY <3>1
      <4> QED
        BY ONLY <2>1, <3>2, <4>1
    <3>4. \A k \in 1..(Len(queue) - 1) : \E j \in 1..Len(queue) :
            queue'[k] = queue[j] /\ j = IF k < i THEN k ELSE k + 1
      BY ONLY <2>1, <3>2
    <3>5. \A k \in 1..Len(queue') : pc'[queue'[k]] = "queued"
      <4>1. \A d \in Callers : d # c => pc'[d] = pc[d]
        BY <1>7 DEF HangUp, Leave
      <4>2. \A j \in 1..Len(queue) : pc[queue[j]] = "queued"
        OBVIOUS
      <4> QED
        BY ONLY <2>1, <3>2, <3>3, <3>4, <4>1, <4>2, SMTT(30)
    <3>6. \A k, m \in 1..Len(queue') : queue'[k] = queue'[m] => k = m
      <4>1. \A j, n \in 1..Len(queue) : queue[j] = queue[n] => j = n
        OBVIOUS
      <4> QED
        BY ONLY <2>1, <3>1, <3>2, <4>1
    <3> QED
      BY <3>5, <3>6
  <2>3. CASE pc[c] # "queued" /\ queue' = queue
    BY <1>7, <2>1, <2>3 DEF HangUp, Leave
  <2> QED
    BY <1>7, <2>2, <2>3 DEF HangUp
<1>8. ASSUME Tick PROVE QueueInv'
  BY <1>8 DEF Tick, Older
<1> QED
  BY <1>1, <1>2, <1>3, <1>4, <1>5, <1>6, <1>7, <1>8 DEF Next, Call

\* A record is made of a call that acted before.
LEMMA RecordStep ==
  ASSUME RateAssumption, IInv, Next PROVE RecordInv'
<1> USE DEF IInv, TypeOK, HolderInv, RecordInv, RateAssumption
<1>1. ASSUME NEW c \in Callers, Ask(c) PROVE RecordInv'
  BY <1>1 DEF Ask
<1>2. ASSUME NEW c \in Callers, Refuse(c) PROVE RecordInv'
  BY <1>2, HeadOfQueue DEF Refuse, Leave
<1>3. ASSUME NEW c \in Callers, Acquire(c) PROVE RecordInv'
  BY <1>3, HeadOfQueue DEF Acquire
<1>4. ASSUME NEW c \in Callers, Act(c) PROVE RecordInv'
  BY <1>4 DEF Act
<1>5. ASSUME NEW c \in Callers, Succeed(c) PROVE RecordInv'
  BY <1>5 DEF Succeed, Leave
<1>6. ASSUME NEW c \in Callers, Fail(c) PROVE RecordInv'
  BY <1>6 DEF Fail, Leave
<1>7. ASSUME NEW c \in Callers, HangUp(c) PROVE RecordInv'
  BY <1>7 DEF HangUp, Leave
<1>8. ASSUME Tick PROVE RecordInv'
  BY <1>8, SMTT(30) DEF Tick, Older
<1> QED
  BY <1>1, <1>2, <1>3, <1>4, <1>5, <1>6, <1>7, <1>8 DEF Next, Call

\* The room that was found is there until the record is made.
LEMMA CapStep ==
  ASSUME RateAssumption, IInv, Next PROVE CapInv'
<1> USE DEF IInv, TypeOK, HolderInv, CapInv, Live, Held, RateAssumption
<1>1. ASSUME NEW c \in Callers, Ask(c) PROVE CapInv'
  <2>1. Live' = Live
    BY <1>1 DEF Ask
  <2> QED
    BY <1>1, <2>1 DEF Ask
<1>2. ASSUME NEW c \in Callers, Refuse(c) PROVE CapInv'
  <2>1. Live' = Live
    BY <1>2 DEF Refuse
  <2> QED
    BY <1>2, <2>1 DEF Refuse
<1>3. ASSUME NEW c \in Callers, Acquire(c) PROVE CapInv'
  <2>1. Live' = Live
    BY <1>3 DEF Acquire
  <2> QED
    BY <1>3, <2>1 DEF Acquire
<1>4. ASSUME NEW c \in Callers, Act(c) PROVE CapInv'
  <2>1. Live' = Live
    BY <1>4 DEF Act
  <2> QED
    BY <1>4, <2>1 DEF Act
<1>5. ASSUME NEW c \in Callers, Succeed(c) PROVE CapInv'
  <2>1. Live' = Live \cup {c} /\ Cardinality(Live) < PerHour /\ ~Held'
    BY <1>5 DEF Succeed
  <2>2. /\ IsFiniteSet(Live')
        /\ Cardinality(Live') = Cardinality(Live) \/ Cardinality(Live') = Cardinality(Live) + 1
    <3>1. IsFiniteSet(Live) /\ Live' = Live \cup {c}
      BY <2>1
    <3> QED
      BY ONLY <3>1, FS_AddElement, SMTT(30)
  <2>3. Cardinality(Live) \in Nat
    BY FS_CardinalityType
  <2> QED
    BY <2>1, <2>2, <2>3
<1>6. ASSUME NEW c \in Callers, Fail(c) PROVE CapInv'
  <2>1. Live' = Live
    BY <1>6 DEF Fail
  <2> QED
    BY <1>6, <2>1 DEF Fail
<1>7. ASSUME NEW c \in Callers, HangUp(c) PROVE CapInv'
  <2>1. Live' = Live
    BY <1>7 DEF HangUp
  <2> QED
    BY <1>7, <2>1 DEF HangUp
<1>8. ASSUME Tick PROVE CapInv'
  <2>1. Live' \subseteq Live /\ Held' = Held
    BY <1>8 DEF Tick, Older
  <2>2. IsFiniteSet(Live') /\ Cardinality(Live') <= Cardinality(Live)
    BY <2>1, FS_Subset
  <2>3. Cardinality(Live) \in Nat /\ Cardinality(Live') \in Nat
    BY <2>2, FS_CardinalityType
  <2> QED
    BY <2>1, <2>2, <2>3
<1> QED
  BY <1>1, <1>2, <1>3, <1>4, <1>5, <1>6, <1>7, <1>8 DEF Next, Call

\* The sleep runs down as the last record ages.
LEMMA RestStep ==
  ASSUME RateAssumption, IInv, Next PROVE RestInv'
<1> USE DEF IInv, TypeOK, HolderInv, RecordInv, RestInv, Live, Held, RateAssumption
<1>1. ASSUME NEW c \in Callers, Ask(c) PROVE RestInv'
  BY <1>1 DEF Ask
<1>2. ASSUME NEW c \in Callers, Refuse(c) PROVE RestInv'
  BY <1>2 DEF Refuse, Leave
<1>3. ASSUME NEW c \in Callers, Acquire(c) PROVE RestInv'
  BY <1>3, HeadOfQueue, SMTT(30) DEF Acquire, Rest
<1>4. ASSUME NEW c \in Callers, Act(c) PROVE RestInv'
  BY <1>4 DEF Act
<1>5. ASSUME NEW c \in Callers, Succeed(c) PROVE RestInv'
  BY <1>5 DEF Succeed, Leave
<1>6. ASSUME NEW c \in Callers, Fail(c) PROVE RestInv'
  BY <1>6 DEF Fail, Leave
<1>7. ASSUME NEW c \in Callers, HangUp(c) PROVE RestInv'
  BY <1>7 DEF HangUp, Leave
<1>8. ASSUME Tick PROVE RestInv'
  BY <1>8 DEF Tick, Older
<1> QED
  BY <1>1, <1>2, <1>3, <1>4, <1>5, <1>6, <1>7, <1>8 DEF Next, Call

-----------------------------------------------------------------------------
(* The invariant, and what follows from it.                                *)

LEMMA IInit == ASSUME RateAssumption PROVE Init => IInv
<1> SUFFICES ASSUME Init PROVE IInv
  OBVIOUS
<1>1. TypeOK /\ HolderInv /\ QueueInv /\ RecordInv /\ RestInv
  BY EmptySeq DEF RateAssumption, Init, TypeOK, HolderInv, QueueInv, RecordInv, RestInv, Held
<1>2. Live = {}
  BY DEF Init, Live
<1>3. CapInv
  BY <1>2, FS_EmptySet DEF RateAssumption, Init, CapInv, Held
<1> QED
  BY <1>1, <1>3 DEF IInv

LEMMA IStep == ASSUME RateAssumption PROVE IInv /\ [Next]_vars => IInv'
<1> SUFFICES ASSUME IInv, [Next]_vars PROVE IInv'
  OBVIOUS
<1>1. CASE Next
  BY <1>1, TypesStep, HolderStep, QueueStep, RecordStep, CapStep, RestStep DEF IInv
<1>2. CASE UNCHANGED vars
  BY <1>2 DEF vars, IInv, TypeOK, HolderInv, QueueInv, RecordInv, CapInv, RestInv, Live, Held
<1> QED
  BY <1>1, <1>2

\* The lock, the queue, the records and the sleep fit together throughout.
THEOREM Invariant == ASSUME RateAssumption PROVE Spec => []IInv
<1>1. Init => IInv
  BY IInit
<1>2. IInv /\ [Next]_vars => IInv'
  BY IStep
<1> QED
  BY <1>1, <1>2, PTL DEF Spec

\* The types of the limiter's state: no sleep is longer than the spacing.
THEOREM TypesKept == ASSUME RateAssumption PROVE Spec => []TypeOK
<1>1. IInv => TypeOK
  BY DEF IInv
<1> QED
  BY <1>1, Invariant, PTL

\* However many call, fail and hang up, no window sees more successful requests
\* than the cap, the one under way included.
THEOREM CapHolds == ASSUME RateAssumption PROVE Spec => []CapKept
<1> DEFINE Seen == {c \in Callers : hits[c] < Window /\ (outcome[c] = "ok" \/ pc[c] = "acting")}
<1>1. ASSUME IInv PROVE Cardinality(Seen) <= PerHour
  <2>1. IsFiniteSet(Live) /\ Cardinality(Live) \in Nat /\ Cardinality(Live) <= PerHour
    BY <1>1, FS_CardinalityType DEF IInv, CapInv
  <2>2. \A c \in Seen : c \in Live \/ c = holder
    BY <1>1 DEF IInv, TypeOK, HolderInv, RecordInv, Live, RateAssumption
  <2>3. CASE holder = NoOne
    <3>1. Seen \subseteq Live
      BY <2>2, <2>3 DEF RateAssumption
    <3> QED
      BY <2>1, <3>1, FS_Subset, FS_CardinalityType, 1 \in Nat DEF RateAssumption
  <2>4. CASE holder # NoOne
    <3>1. Seen \subseteq Live \cup {holder} /\ Cardinality(Live) < PerHour
      BY <1>1, <2>2, <2>4 DEF IInv, CapInv, Held
    <3>2. IsFiniteSet(Live \cup {holder}) /\ Cardinality(Live \cup {holder}) <= Cardinality(Live) + 1
      <4>1. IsFiniteSet(Live \cup {holder})
        BY <2>1, FS_AddElement
      <4>2. Cardinality(Live \cup {holder}) = IF holder \in Live THEN Cardinality(Live)
                                                               ELSE Cardinality(Live) + 1
        BY <2>1, FS_AddElement
      <4> QED
        BY <2>1, <4>1, <4>2
    <3>3. IsFiniteSet(Seen) /\ Cardinality(Seen) <= Cardinality(Live \cup {holder})
      BY <3>1, <3>2, FS_Subset
    <3>4. Cardinality(Seen) \in Nat /\ Cardinality(Live \cup {holder}) \in Nat
      BY <3>2, <3>3, FS_CardinalityType
    <3> QED
      BY <2>1, <3>1, <3>2, <3>3, <3>4 DEF RateAssumption
  <2> QED
    BY <2>3, <2>4
<1>2. IInv => CapKept
  BY <1>1 DEF CapKept
<1> QED
  BY <1>2, Invariant, PTL

\* No request goes out too soon after the last record, or beside another.
THEOREM SpacedOut == ASSUME RateAssumption PROVE Spec => SpacingBeforeAct
<1> DEFINE Spaced == \A c \in Callers : pc[c] = "spacing" /\ pc'[c] = "acting" =>
                       /\ \A d \in Live : recent[d] >= Spacing
                       /\ \A d \in Callers \ {c} : pc[d] \notin {"spacing", "acting"}
<1>1. ASSUME IInv, Next PROVE Spaced
  <2> SUFFICES ASSUME NEW c \in Callers, pc[c] = "spacing", pc'[c] = "acting"
               PROVE  /\ \A d \in Live : recent[d] >= Spacing
                      /\ \A d \in Callers \ {c} : pc[d] \notin {"spacing", "acting"}
    OBVIOUS
  <2>1. Act(c)
    BY <1>1, HeadOfQueue DEF IInv, TypeOK, Next, Call, Tick, Ask, Refuse, Acquire, Act, Succeed, Fail, HangUp, Leave
  <2>2. holder = c /\ sleep = 0
    BY <1>1, <2>1 DEF IInv, HolderInv, Act
  <2> QED
    BY <1>1, <2>2 DEF IInv, TypeOK, HolderInv, RestInv, Held, Live, RateAssumption
<1>2. ASSUME UNCHANGED vars PROVE Spaced
  BY <1>2 DEF vars
<1>3. IInv /\ [Next]_vars => [Spaced]_vars
  BY <1>1, <1>2
<1> QED
  BY <1>3, Invariant, PTL DEF SpacingBeforeAct, Spec
=============================================================================
