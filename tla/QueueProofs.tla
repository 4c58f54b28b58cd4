------------------------------ MODULE QueueProofs ------------------------------
(***************************************************************************)
(* Theorems about SubmissionQueue: memory and file agree, nothing is       *)
(* reported twice, and nothing is lost while drains succeed.               *)
(***************************************************************************)
EXTENDS SubmissionQueue, FiniteSetTheorems, SequenceTheorems, TLAPS

-----------------------------------------------------------------------------
(***************************************************************************)
(* Sequences.                                                              *)
(***************************************************************************)

\* What remains of a sequence when its first elements are dropped.
Suffix(s, m) == SubSeq(s, m, Len(s))

\* A suffix has the last elements, in their order, and repeats none that the
\* sequence does not repeat.
LEMMA SuffixFacts ==
  ASSUME NEW S, NEW s \in Seq(S), NEW m \in 1 .. Len(s) + 1
  PROVE  /\ Suffix(s, m) \in Seq(S)
         /\ Len(Suffix(s, m)) = Len(s) - m + 1
         /\ ToSet(Suffix(s, m)) = {s[i] : i \in m .. Len(s)}
         /\ ToSet(Suffix(s, m)) \subseteq ToSet(s)
         /\ IsInjective(s) => IsInjective(Suffix(s, m))
<1> DEFINE t == Suffix(s, m)
<1>1. Len(s) \in Nat /\ DOMAIN s = 1 .. Len(s) /\ s \in [1 .. Len(s) -> S]
  BY LenProperties
<1>2. \A i \in m .. Len(s) : s[i] \in S
  BY <1>1
<1>3. /\ t \in Seq(S)
      /\ Len(t) = Len(s) - m + 1
      /\ \A i \in 1 .. Len(s) - m + 1 : t[i] = s[m + i - 1]
  <2>1. /\ t \in Seq(S)
        /\ Len(t) = IF m <= Len(s) THEN Len(s) - m + 1 ELSE 0
        /\ \A i \in 1 .. Len(s) - m + 1 : t[i] = s[m + i - 1]
    BY <1>1, <1>2, SubSeqProperties DEF Suffix
  <2> QED BY <1>1, <2>1
<1>4. DOMAIN t = 1 .. Len(s) - m + 1
  BY <1>3, LenProperties
<1> HIDE DEF t
<1>5. ToSet(t) = {s[i] : i \in m .. Len(s)}
  <2>1. ASSUME NEW i \in DOMAIN t PROVE \E j \in m .. Len(s) : t[i] = s[j]
    <3>1. m + i - 1 \in m .. Len(s) /\ t[i] = s[m + i - 1]
      BY <1>1, <1>3, <1>4
    <3> QED BY <3>1
  <2>2. ASSUME NEW j \in m .. Len(s) PROVE \E i \in DOMAIN t : t[i] = s[j]
    <3>1. j - m + 1 \in DOMAIN t /\ m + (j - m + 1) - 1 = j
      BY <1>1, <1>4
    <3>2. t[j - m + 1] = s[j]
      BY <1>3, <1>4, <3>1
    <3> QED BY <3>1, <3>2
  <2> QED BY <2>1, <2>2 DEF ToSet
<1>6. ToSet(t) \subseteq ToSet(s)
  <2>1. m .. Len(s) \subseteq DOMAIN s
    BY <1>1
  <2>2. ToSet(s) = {s[i] : i \in DOMAIN s}
    BY DEF ToSet
  <2> QED
    BY <1>5, <2>1, <2>2, Zenon
<1>7. ASSUME IsInjective(s) PROVE IsInjective(t)
  <2> SUFFICES ASSUME NEW i \in DOMAIN t, NEW j \in DOMAIN t, t[i] = t[j] PROVE i = j
    BY DEF IsInjective
  <2>1. m + i - 1 \in DOMAIN s /\ m + j - 1 \in DOMAIN s
    BY <1>1, <1>4
  <2>2. s[m + i - 1] = s[m + j - 1]
    BY <1>3, <1>4
  <2>3. m + i - 1 = m + j - 1
    BY <1>7, <2>1, <2>2 DEF IsInjective
  <2> QED BY <1>1, <1>4, <2>3
<1> QED BY <1>3, <1>5, <1>6, <1>7 DEF t

\* The newest n are a suffix of at most n.
LEMMA NewestIsSuffix ==
  ASSUME NEW S, NEW s \in Seq(S), NEW n \in Nat
  PROVE  /\ \E m \in 1 .. Len(s) + 1 : Newest(s, n) = Suffix(s, m)
         /\ Newest(s, n) \in Seq(S)
         /\ Len(Newest(s, n)) <= n /\ Len(Newest(s, n)) <= Len(s)
         /\ ToSet(Newest(s, n)) \subseteq ToSet(s)
         /\ IsInjective(s) => IsInjective(Newest(s, n))
<1>1. Len(s) \in Nat
  BY LenProperties
<1>2. PICK m \in 1 .. Len(s) + 1 : Newest(s, n) = Suffix(s, m) /\ Len(s) - m + 1 <= n
  <2>1. CASE Len(s) <= n
    <3>1. Newest(s, n) = Suffix(s, 1)
      BY <2>1, SubSeqFull DEF Newest, Suffix
    <3> QED BY <1>1, <2>1, <3>1
  <2>2. CASE ~ (Len(s) <= n)
    <3>1. Newest(s, n) = Suffix(s, Len(s) - n + 1)
      BY <2>2 DEF Newest, Suffix
    <3> QED BY <1>1, <2>2, <3>1
  <2> QED BY <2>1, <2>2
<1>3. Len(Suffix(s, m)) = Len(s) - m + 1
  BY SuffixFacts
<1> QED BY <1>1, <1>2, <1>3, SuffixFacts

\* The rest after the head.
LEMMA TailFacts ==
  ASSUME NEW S, NEW s \in Seq(S), s # <<>>
  PROVE  /\ Head(s) \in S /\ Tail(s) \in Seq(S) /\ Len(Tail(s)) < Len(s)
         /\ ToSet(s) = {Head(s)} \union ToSet(Tail(s))
         /\ IsInjective(s) => IsInjective(Tail(s)) /\ Head(s) \notin ToSet(Tail(s))
<1>1. Len(s) \in Nat \ {0} /\ DOMAIN s = 1 .. Len(s)
  BY EmptySeq, LenProperties
<1>2. Tail(s) = Suffix(s, 2) /\ 2 \in 1 .. Len(s) + 1
  BY <1>1, TailIsSubSeq DEF Suffix
<1>3. Head(s) = s[1] /\ 1 \in DOMAIN s
  BY <1>1
<1>4. /\ ToSet(Suffix(s, 2)) = {s[i] : i \in 2 .. Len(s)}
      /\ Len(Suffix(s, 2)) = Len(s) - 2 + 1
      /\ IsInjective(s) => IsInjective(Suffix(s, 2))
  BY <1>2, SuffixFacts
<1>5. ToSet(s) = {Head(s)} \union ToSet(Tail(s))
  <2>1. ToSet(s) = {s[i] : i \in 1 .. Len(s)}
    BY <1>1 DEF ToSet
  <2>2. 1 .. Len(s) = {1} \union 2 .. Len(s)
    BY <1>1
  <2>3. {s[i] : i \in {1} \union 2 .. Len(s)} = {s[1]} \union {s[i] : i \in 2 .. Len(s)}
    OBVIOUS
  <2> QED BY <1>2, <1>3, <1>4, <2>1, <2>2, <2>3
<1>6. ASSUME IsInjective(s) PROVE Head(s) \notin ToSet(Tail(s))
  <2>1. \A i \in 2 .. Len(s) : i \in DOMAIN s /\ i # 1
    BY <1>1
  <2>2. \A i \in 2 .. Len(s) : s[i] # s[1]
    BY <1>3, <1>6, <2>1 DEF IsInjective
  <2> QED BY <1>2, <1>3, <1>4, <2>2
<1>7. Head(s) \in S /\ Tail(s) \in Seq(S) /\ Len(Tail(s)) < Len(s)
  <2>1. Len(Tail(s)) = Len(s) - 1
    BY HeadTailProperties
  <2> QED BY <1>1, <2>1, HeadTailProperties
<1> QED BY <1>2, <1>4, <1>5, <1>6, <1>7

\* One more at the end.
LEMMA AppendFacts ==
  ASSUME NEW S, NEW s \in Seq(S), NEW e \in S
  PROVE  /\ Append(s, e) \in Seq(S)
         /\ ToSet(Append(s, e)) = ToSet(s) \union {e}
         /\ IsInjective(s) /\ e \notin ToSet(s) => IsInjective(Append(s, e))
<1> DEFINE t == Append(s, e)
<1>1. Len(s) \in Nat /\ DOMAIN s = 1 .. Len(s)
  BY LenProperties
<1>2. /\ t \in Seq(S) /\ Len(t) = Len(s) + 1
      /\ \A i \in 1 .. Len(s) : t[i] = s[i]
      /\ t[Len(s) + 1] = e
  BY AppendProperties
<1>3. DOMAIN t = 1 .. Len(s) + 1
  BY <1>2, LenProperties
<1> HIDE DEF t
<1>4. ToSet(t) = ToSet(s) \union {e}
  <2>1. \A i \in DOMAIN t : t[i] \in ToSet(s) \union {e}
    BY <1>1, <1>2, <1>3 DEF ToSet
  <2>2. \A i \in DOMAIN s : i \in DOMAIN t /\ t[i] = s[i]
    BY <1>1, <1>2, <1>3
  <2>3. Len(s) + 1 \in DOMAIN t
    BY <1>1, <1>3
  <2> QED BY <1>2, <2>1, <2>2, <2>3 DEF ToSet
<1>5. ASSUME IsInjective(s), e \notin ToSet(s) PROVE IsInjective(t)
  BY <1>1, <1>2, <1>3, <1>5 DEF IsInjective, ToSet
<1> QED BY <1>2, <1>4, <1>5 DEF t

-----------------------------------------------------------------------------
(***************************************************************************)
(* What the operations of the queue do.                                    *)
(***************************************************************************)

FileOK == file.version \in {"current", "future"} /\ file.entries \in Seq(WorkIds)

\* Saving keeps a suffix in memory, and writes the same unless the disk fails.
LEMMA SaveFacts ==
  ASSUME NEW q \in Seq(WorkIds), Len(q) <= MaxQueue, FileOK, Save(q)
  PROVE  /\ queue' \in Seq(WorkIds) /\ Len(queue') <= MaxQueue
         /\ ToSet(queue') \subseteq ToSet(q)
         /\ IsInjective(q) => IsInjective(queue')
         /\ FileOK'
         /\ "disk" \notin faults => file' = [version |-> "current", entries |-> queue']
<1>1. MaxQueue \in Nat /\ MaxFileEntries \in Nat
  BY QueueAssumption
<1>2. queue' \in {q} \union Truncated(q)
  BY DEF Save
<1>3. \/ file' = [version |-> "current", entries |-> queue']
      \/ "disk" \in faults /\ file' = file
      \/ /\ "disk" \in faults
         /\ \E n \in 0 .. Len(queue') :
              file' = [version |-> "current", entries |-> SubSeq(queue', 1, n)]
  BY DEF Save
<1>4. Len(q) \in Nat
  BY LenProperties
<1>5. /\ queue' \in Seq(WorkIds) /\ Len(queue') <= MaxQueue
      /\ ToSet(queue') \subseteq ToSet(q)
      /\ IsInjective(q) => IsInjective(queue')
  <2>1. CASE queue' = q
    BY <2>1
  <2>2. CASE queue' \in Truncated(q)
    <3>1. PICK n \in Nat : queue' = Newest(q, n)
      BY <1>4, <2>2 DEF Truncated, Kept, Halvings
    <3>2. /\ Newest(q, n) \in Seq(WorkIds) /\ Len(Newest(q, n)) <= Len(q)
          /\ ToSet(Newest(q, n)) \subseteq ToSet(q)
          /\ IsInjective(q) => IsInjective(Newest(q, n))
      BY NewestIsSuffix
    <3>3. Len(Newest(q, n)) \in Nat
      BY <3>2, LenProperties
    <3> QED BY <1>1, <1>4, <3>1, <3>2, <3>3
  <2> QED BY <1>2, <2>1, <2>2
<1>6. FileOK'
  <2>1. CASE file' = file
    BY <2>1 DEF FileOK
  <2>2. CASE file' = [version |-> "current", entries |-> queue']
    BY <1>5, <2>2 DEF FileOK
  <2>3. ASSUME NEW n \in 0 .. Len(queue'), file' = [version |-> "current", entries |-> SubSeq(queue', 1, n)]
        PROVE  FileOK'
    <3>1. Len(queue') \in Nat /\ \A i \in 1 .. n : queue'[i] \in WorkIds
      BY <1>5, LenProperties
    <3>2. SubSeq(queue', 1, n) \in Seq(WorkIds)
      BY <3>1, SubSeqProperties
    <3> QED BY <2>3, <3>2 DEF FileOK
  <2> QED BY <1>3, <2>1, <2>2, <2>3
<1> QED BY <1>3, <1>5, <1>6

\* Enqueuing takes one submission in; what leaves memory counts as discarded.
LEMMA EnqueueFacts ==
  ASSUME queue \in Seq(WorkIds), FileOK, NEW w \in WorkIds, Enqueue(w)
  PROVE  /\ queue' \in Seq(WorkIds) /\ Len(queue') <= MaxQueue
         /\ ToSet(queue') \subseteq ToSet(queue) \union {w}
         /\ IsInjective(queue) /\ w \notin ToSet(queue) => IsInjective(queue')
         /\ FileOK'
         /\ "disk" \notin faults => file' = [version |-> "current", entries |-> queue']
         /\ discarded' = discarded \union ((ToSet(queue) \union {w}) \ ToSet(queue'))
<1> DEFINE a == Append(queue, w)
           q == Newest(a, MaxQueue)
<1>1. MaxQueue \in Nat
  BY QueueAssumption
<1>2. /\ a \in Seq(WorkIds)
      /\ ToSet(a) = ToSet(queue) \union {w}
      /\ IsInjective(queue) /\ w \notin ToSet(queue) => IsInjective(a)
  BY AppendFacts
<1>3. Save(q) /\ discarded' = discarded \union (ToSet(a) \ ToSet(queue'))
  BY DEF Enqueue
<1> HIDE DEF a
<1>4. /\ q \in Seq(WorkIds) /\ Len(q) <= MaxQueue
      /\ ToSet(q) \subseteq ToSet(a)
      /\ IsInjective(a) => IsInjective(q)
  BY <1>1, <1>2, NewestIsSuffix
<1> HIDE DEF q
<1>5. /\ queue' \in Seq(WorkIds) /\ Len(queue') <= MaxQueue
      /\ ToSet(queue') \subseteq ToSet(q)
      /\ IsInjective(q) => IsInjective(queue')
      /\ FileOK'
      /\ "disk" \notin faults => file' = [version |-> "current", entries |-> queue']
  BY <1>3, <1>4, SaveFacts
<1> QED BY <1>2, <1>3, <1>4, <1>5

\* Draining takes the young ones among the first submissions into the batch,
\* each once; what is neither in the batch nor in memory any more counts as
\* discarded.
LEMMA DrainFacts ==
  ASSUME queue \in Seq(WorkIds), Len(queue) <= MaxQueue, FileOK, Drain
  PROVE  /\ queue' \in Seq(WorkIds) /\ Len(queue') <= MaxQueue
         /\ batch' \in Seq(WorkIds) /\ Len(batch') <= MaxCount
         /\ FileOK'
         /\ "disk" \notin faults => file' = [version |-> "current", entries |-> queue']
         /\ ToSet(queue') \subseteq ToSet(queue) /\ ToSet(batch') \subseteq ToSet(queue)
         /\ discarded' \subseteq discarded \union ToSet(queue)
         /\ discarded \union ToSet(queue) \subseteq discarded' \union ToSet(queue') \union ToSet(batch')
         /\ IsInjective(queue) =>
              /\ IsInjective(queue') /\ IsInjective(batch')
              /\ ToSet(queue') \intersect ToSet(batch') = {}
<1>1. PICK n \in 1 .. Len(queue) : Pops(n) /\ Save(Suffix(queue, n + 1)) /\ Returns(n)
  BY DEF Drain, Suffix
<1>2. Len(queue) \in Nat /\ DOMAIN queue = 1 .. Len(queue) /\ n \in Nat /\ n + 1 \in 1 .. Len(queue) + 1
  BY LenProperties
<1> DEFINE rest == Suffix(queue, n + 1)
<1>3. /\ rest \in Seq(WorkIds)
      /\ Len(rest) = Len(queue) - (n + 1) + 1
      /\ ToSet(rest) = {queue[i] : i \in n + 1 .. Len(queue)}
      /\ IsInjective(queue) => IsInjective(rest)
  <2>1. PICK m \in 1 .. Len(queue) + 1 : m = n + 1
    BY <1>2
  <2>2. /\ Suffix(queue, m) \in Seq(WorkIds)
        /\ Len(Suffix(queue, m)) = Len(queue) - m + 1
        /\ ToSet(Suffix(queue, m)) = {queue[i] : i \in m .. Len(queue)}
        /\ IsInjective(queue) => IsInjective(Suffix(queue, m))
    BY SuffixFacts
  <2> QED
    BY <2>1, <2>2
<1>4. Len(rest) <= MaxQueue
  BY <1>2, <1>3, QueueAssumption
<1>5. Save(rest)
  BY <1>1
<1>6. discarded' = discarded \union {queue[i] : i \in (1 .. n) \ Young(n)} \union (ToSet(rest) \ ToSet(queue'))
  BY <1>1 DEF Returns, Suffix
<1> HIDE DEF rest
<1>7. /\ queue' \in Seq(WorkIds) /\ Len(queue') <= MaxQueue
      /\ ToSet(queue') \subseteq ToSet(rest)
      /\ IsInjective(rest) => IsInjective(queue')
      /\ FileOK'
      /\ "disk" \notin faults => file' = [version |-> "current", entries |-> queue']
  BY <1>3, <1>4, <1>5, SaveFacts
<1>8. Young(n) \subseteq 1 .. n /\ 1 .. n \subseteq DOMAIN queue
  BY <1>2 DEF Young
<1>9. IsFiniteSet(Young(n)) /\ Cardinality(Young(n)) \in Nat
  <2>1. IsFiniteSet(1 .. n)
    BY <1>2, FS_Interval
  <2>2. IsFiniteSet(Young(n))
    BY <1>8, <2>1, FS_Subset
  <2> QED BY <2>2, FS_CardinalityType
<1>10. PICK f \in Ascending(Young(n)) : batch' = [i \in DOMAIN f |-> queue[f[i]]]
  BY <1>1 DEF Returns
<1>11. /\ f \in [1 .. Cardinality(Young(n)) -> Young(n)]
       /\ DOMAIN f = 1 .. Cardinality(Young(n))
       /\ {f[i] : i \in DOMAIN f} = Young(n)
       /\ \A i, j \in DOMAIN f : i < j => f[i] < f[j]
  BY <1>10 DEF Ascending, ToSet
<1>12. DOMAIN batch' = DOMAIN f /\ \A i \in DOMAIN f : batch'[i] = queue[f[i]]
  BY <1>10
<1>13. batch' \in Seq(WorkIds) /\ Len(batch') = Cardinality(Young(n))
  <2>1. \A i \in DOMAIN f : queue[f[i]] \in WorkIds
    BY <1>8, <1>11, LenProperties
  <2>2. batch' \in [1 .. Cardinality(Young(n)) -> WorkIds]
    BY <1>10, <1>11, <2>1
  <2>3. batch' \in Seq(WorkIds)
    BY <1>9, <2>2
  <2> QED BY <1>9, <1>11, <1>12, <2>3, LenProperties
<1>14. Len(batch') <= MaxCount
  BY <1>1, <1>13 DEF Pops
<1>15. ToSet(batch') = {queue[i] : i \in Young(n)}
  BY <1>11, <1>12 DEF ToSet
<1>16. ToSet(queue) = {queue[i] : i \in Young(n)} \union {queue[i] : i \in (1 .. n) \ Young(n)} \union ToSet(rest)
  <2>1. DOMAIN queue = Young(n) \union ((1 .. n) \ Young(n)) \union (n + 1 .. Len(queue))
    BY <1>2, <1>8
  <2> QED BY <1>3, <2>1 DEF ToSet
<1>17. ASSUME IsInjective(queue)
       PROVE  IsInjective(batch') /\ ToSet(queue') \intersect ToSet(batch') = {}
  <2>1. \A i, j \in DOMAIN f : f[i] = f[j] => i = j
    BY <1>2, <1>8, <1>9, <1>11
  <2>2. \A i \in DOMAIN f : f[i] \in DOMAIN queue
    BY <1>8, <1>11
  <2>3. IsInjective(batch')
    BY <1>12, <1>17, <2>1, <2>2 DEF IsInjective
  <2>4. \A i \in Young(n), j \in n + 1 .. Len(queue) : i \in DOMAIN queue /\ j \in DOMAIN queue /\ i # j
    BY <1>2, <1>8
  <2>5. \A i \in Young(n), j \in n + 1 .. Len(queue) : queue[i] # queue[j]
    BY <1>17, <2>4 DEF IsInjective
  <2> QED BY <1>3, <1>7, <1>15, <2>3, <2>5
<1> QED BY <1>3, <1>6, <1>7, <1>13, <1>14, <1>15, <1>16, <1>17

-----------------------------------------------------------------------------
(***************************************************************************)
(* The invariant.                                                          *)
(***************************************************************************)

\* A pass is in hand while it is being reported, a batch while it is drained.
PhaseInv ==
  /\ phase = "reporting" <=> current # NoWork
  /\ phase = "draining" <=> batch # <<>>

\* Without lost replies and disk errors no submission is in two places, and
\* what is pending or reported was accepted once.
PlaceInv ==
  faults \intersect {"loss", "disk"} = {} =>
    /\ IsInjective(queue) /\ IsInjective(batch)
    /\ ToSet(queue) \intersect ToSet(batch) = {}
    /\ current \notin ToSet(queue)
    /\ Pending \intersect reported = {}
    /\ Pending \union reported \subseteq accepted

IInv ==
  /\ TypeOK /\ PhaseInv
  /\ RestartRecoversQueue
  /\ PlaceInv

\* The elements of a sequence are of its type.
LEMMA ElementFacts ==
  ASSUME NEW S, NEW s \in Seq(S)
  PROVE  ToSet(s) \subseteq S /\ (s = <<>> <=> ToSet(s) = {})
<1>1. Len(s) \in Nat /\ DOMAIN s = 1 .. Len(s) /\ s \in [1 .. Len(s) -> S]
  BY LenProperties
<1>2. ToSet(s) \subseteq S
  BY <1>1 DEF ToSet
<1>3. s # <<>> => 1 \in DOMAIN s
  BY <1>1, EmptySeq
<1>4. s = <<>> => DOMAIN s = {}
  BY <1>1, EmptySeq
<1> QED BY <1>2, <1>3, <1>4 DEF ToSet

\* A backoff is never longer than the longest one.
LEMMA DelayBounded ==
  ASSUME NEW n PROVE Delay(n) \in 0 .. MaxDelay
BY QueueAssumption DEF Delay

LEMMA TypeStep == TypeOK /\ PhaseInv /\ [Next]_vars => TypeOK' /\ PhaseInv'
<1> SUFFICES ASSUME TypeOK, PhaseInv, [Next]_vars PROVE TypeOK' /\ PhaseInv'
  OBVIOUS
<1> USE QueueAssumption
<1>0. FileOK /\ queue \in Seq(WorkIds) /\ Len(queue) <= MaxQueue
  BY DEF TypeOK, FileOK
<1>1. CASE Refresh
  BY <1>1 DEF Refresh, TypeOK, PhaseInv, Phases, queueVars, drainVars
<1>2. CASE SkipDrain
  BY <1>2 DEF SkipDrain, TypeOK, PhaseInv, Phases, queueVars, drainVars
<1>3. CASE StartDrain
  <2>1. /\ queue' \in Seq(WorkIds) /\ Len(queue') <= MaxQueue
        /\ batch' \in Seq(WorkIds) /\ Len(batch') <= MaxCount
        /\ FileOK'
        /\ discarded' \subseteq discarded \union ToSet(queue)
    BY <1>0, <1>3, DrainFacts DEF StartDrain
  <2>2. discarded' \subseteq WorkIds
    BY <1>0, <2>1, ElementFacts DEF TypeOK
  <2>3. phase' = IF batch' = <<>> THEN "validate" ELSE "draining"
    BY <1>3 DEF StartDrain
  <2>4. PhaseInv'
    BY <1>3, <2>3 DEF StartDrain, PhaseInv
  <2> QED BY <1>3, <2>1, <2>2, <2>3, <2>4 DEF StartDrain, TypeOK, Phases, FileOK
<1>4. CASE ReportQueued
  <2>1. batch \in Seq(WorkIds) /\ batch # <<>>
    BY <1>4 DEF ReportQueued, TypeOK, PhaseInv
  <2>2. Head(batch) \in WorkIds /\ Tail(batch) \in Seq(WorkIds) /\ Len(Tail(batch)) < Len(batch)
    BY <2>1, TailFacts
  <2>3. Len(Tail(batch)) <= MaxCount
    BY <2>1, <2>2, LenProperties DEF TypeOK
  <2>4. phase' \in Phases /\ failures' \in 0 .. MaxDelay /\ wait' \in 0 .. MaxDelay
    <3>1. CASE batch' = <<>>
      BY <1>4, <3>1 DEF ReportQueued, Phases
    <3>2. CASE batch' # <<>>
      BY <1>4, <3>2 DEF ReportQueued, TypeOK
    <3> QED BY <3>1, <3>2
  <2>5. reported' \subseteq WorkIds /\ batch' = Tail(batch) /\ progress' = TRUE
    BY <1>4, <2>2 DEF ReportQueued, TypeOK
  <2>6. UNCHANGED <<queue, file, discarded, available, current, age, accepted, faults>>
    BY <1>4 DEF ReportQueued, queueVars
  <2>7. PhaseInv'
    BY <1>4 DEF ReportQueued, PhaseInv
  <2> QED BY <2>2, <2>3, <2>4, <2>5, <2>6, <2>7 DEF TypeOK
<1>5. CASE QueuedReportFails
  <2>1. batch \in Seq(WorkIds) /\ batch # <<>>
    BY <1>5 DEF QueuedReportFails, TypeOK, PhaseInv
  <2>2. Head(batch) \in WorkIds
    BY <2>1, TailFacts
  <2>3. /\ queue' \in Seq(WorkIds) /\ Len(queue') <= MaxQueue
        /\ FileOK'
        /\ discarded' = discarded \union ((ToSet(queue) \union {Head(batch)}) \ ToSet(queue'))
    BY <1>0, <1>5, <2>2, EnqueueFacts DEF QueuedReportFails
  <2>4. discarded' \subseteq WorkIds
    BY <1>0, <2>2, <2>3, ElementFacts DEF TypeOK
  <2>5. failures' \in 0 .. MaxDelay /\ wait' \in 0 .. MaxDelay
    BY <1>5, DelayBounded DEF QueuedReportFails, TypeOK, OneMore
  <2>6. reported' \subseteq WorkIds
    BY <1>5, <2>2 DEF QueuedReportFails, TypeOK
  <2>7. batch' = <<>> /\ phase' = "validate"
        /\ UNCHANGED <<progress, available, current, age, accepted, faults>>
    BY <1>5 DEF QueuedReportFails
  <2>8. batch' \in Seq(WorkIds) /\ Len(batch') <= MaxCount
    BY <2>7, EmptySeq
  <2>9. PhaseInv'
    BY <1>5, <2>7 DEF QueuedReportFails, PhaseInv
  <2> QED BY <2>3, <2>4, <2>5, <2>6, <2>7, <2>8, <2>9 DEF TypeOK, Phases, FileOK
<1>6. CASE ReportSubmission
  <2>1. current \in WorkIds
    BY <1>6 DEF ReportSubmission, TypeOK, PhaseInv
  <2>2. \/ UNCHANGED <<queue, file, discarded, age>>
        \/ Enqueue(current) /\ age' = [age EXCEPT ![current] = 0]
    BY <1>6 DEF ReportSubmission, queueVars
  <2>3. /\ queue' \in Seq(WorkIds) /\ Len(queue') <= MaxQueue /\ FileOK'
        /\ discarded' \subseteq WorkIds
    <3>1. CASE UNCHANGED <<queue, file, discarded, age>>
      BY <1>0, <3>1 DEF TypeOK, FileOK
    <3>2. CASE Enqueue(current)
      <4>1. /\ queue' \in Seq(WorkIds) /\ Len(queue') <= MaxQueue
            /\ FileOK'
            /\ discarded' = discarded \union ((ToSet(queue) \union {current}) \ ToSet(queue'))
        BY <1>0, <2>1, <3>2, EnqueueFacts
      <4> QED BY <1>0, <2>1, <4>1, ElementFacts DEF TypeOK
    <3> QED BY <2>2, <3>1, <3>2
  <2>4. age' \in [WorkIds -> 0 .. MaxAge + 1]
    <3>1. CASE UNCHANGED <<queue, file, discarded, age>>
      BY <3>1 DEF TypeOK
    <3>2. CASE age' = [age EXCEPT ![current] = 0]
      BY <2>1, <3>2 DEF TypeOK
    <3> QED BY <2>2, <3>1, <3>2
  <2>5. reported' \subseteq WorkIds
    BY <1>6, <2>1 DEF ReportSubmission, TypeOK
  <2>6. current' = NoWork /\ phase' = "validate" /\ phase = "reporting"
        /\ UNCHANGED <<batch, progress, failures, wait, available, accepted, faults>>
    BY <1>6 DEF ReportSubmission, drainVars
  <2>7. PhaseInv'
    BY <2>6 DEF PhaseInv
  <2> QED BY <2>3, <2>4, <2>5, <2>6, <2>7 DEF TypeOK, Phases, FileOK
<1>7. CASE EndCycle
  BY <1>7 DEF EndCycle, TypeOK, PhaseInv, Phases, queueVars, drainVars
<1>8. ASSUME NEW w \in WorkIds, Pass(w) PROVE TypeOK' /\ PhaseInv'
  BY <1>8 DEF Pass, TypeOK, PhaseInv, Phases, queueVars, drainVars
<1>9. CASE Tick
  <2>1. age' \in [WorkIds -> 0 .. MaxAge + 1]
    BY <1>9 DEF Tick, TypeOK, TooOld
  <2>2. wait' \in 0 .. MaxDelay
    BY <1>9 DEF Tick, TypeOK
  <2>3. UNCHANGED <<queue, file, discarded, batch, progress, failures, available, phase, current,
                    accepted, reported, faults>>
    BY <1>9 DEF Tick, queueVars
  <2> QED BY <2>1, <2>2, <2>3 DEF TypeOK, PhaseInv
<1>10. CASE Crash
  <2>1. queue' \in Seq(WorkIds) /\ Len(queue') <= MaxQueue
    <3>1. CASE queue' = <<>>
      BY <3>1, EmptySeq, QueueAssumption
    <3>2. CASE queue' = Newest(file.entries, MaxQueue)
      BY <3>2, NewestIsSuffix, QueueAssumption DEF TypeOK
    <3> QED BY <1>10, <3>1, <3>2 DEF Crash, Loaded
  <2>2. batch' = <<>> /\ batch' \in Seq(WorkIds) /\ Len(batch') <= MaxCount
    BY <1>10, EmptySeq DEF Crash
  <2>3. /\ progress' = FALSE /\ failures' = 0 /\ wait' = 0 /\ available' = TRUE
        /\ phase' = "refresh" /\ current' = NoWork
        /\ UNCHANGED <<file, discarded, age, accepted, reported, faults>>
    BY <1>10 DEF Crash
  <2>4. 0 \in 0 .. MaxDelay
    OBVIOUS
  <2>5. PhaseInv'
    BY <2>2, <2>3 DEF PhaseInv
  <2> QED BY <2>1, <2>2, <2>3, <2>4, <2>5 DEF TypeOK, Phases
<1>11. CASE UNCHANGED vars
  BY <1>11 DEF vars, queueVars, drainVars, TypeOK, PhaseInv
<1> QED BY <1>1, <1>2, <1>3, <1>4, <1>5, <1>6, <1>7, <1>8, <1>9, <1>10, <1>11 DEF Next, Cycle

\* Memory and file stay the same sequence.
LEMMA RestartStep ==
  TypeOK /\ PhaseInv /\ RestartRecoversQueue /\ TypeOK' /\ [Next]_vars => RestartRecoversQueue'
<1> SUFFICES ASSUME TypeOK, PhaseInv, RestartRecoversQueue, TypeOK', [Next]_vars, "disk" \notin faults'
             PROVE  Loaded(file') = queue'
  BY DEF RestartRecoversQueue
<1>0. /\ FileOK /\ queue \in Seq(WorkIds) /\ Len(queue) <= MaxQueue
      /\ queue' \in Seq(WorkIds) /\ Len(queue') <= MaxQueue
  BY DEF TypeOK, FileOK
<1>1. faults' = faults
  BY DEF Next, Cycle, vars, Refresh, SkipDrain, StartDrain, ReportQueued, QueuedReportFails,
         ReportSubmission, EndCycle, Pass, Tick, Crash
<1>2. CASE UNCHANGED <<queue, file>>
  BY <1>1, <1>2 DEF RestartRecoversQueue, Loaded, HeaderRead
<1>3. CASE file' = [version |-> "current", entries |-> queue']
  <2>1. Newest(queue', MaxQueue) = queue'
    BY <1>0 DEF Newest
  <2> QED BY <1>3, <2>1 DEF Loaded
<1>4. CASE StartDrain
  BY <1>0, <1>1, <1>3, <1>4, DrainFacts DEF StartDrain
<1>5. CASE QueuedReportFails
  <2>1. Head(batch) \in WorkIds
    BY <1>5, TailFacts DEF QueuedReportFails, TypeOK, PhaseInv
  <2> QED BY <1>0, <1>1, <1>3, <1>5, <2>1, EnqueueFacts DEF QueuedReportFails
<1>6. CASE ReportSubmission
  <2>1. current \in WorkIds
    BY <1>6 DEF ReportSubmission, TypeOK, PhaseInv
  <2>2. UNCHANGED <<queue, file>> \/ Enqueue(current)
    BY <1>6 DEF ReportSubmission, queueVars
  <2> QED BY <1>0, <1>1, <1>2, <1>3, <2>1, <2>2, EnqueueFacts
<1>7. CASE Crash
  BY <1>7 DEF Crash, Loaded, HeaderRead
<1>8. CASE Refresh \/ SkipDrain \/ ReportQueued \/ EndCycle \/ (\E w \in WorkIds : Pass(w)) \/ Tick
           \/ UNCHANGED vars
  <2>1. UNCHANGED <<queue, file>>
    BY <1>8 DEF Refresh, SkipDrain, ReportQueued, EndCycle, Pass, Tick, vars, queueVars
  <2> QED BY <1>2, <2>1
<1> QED BY <1>4, <1>5, <1>6, <1>7, <1>8 DEF Next, Cycle

\* Every submission stays in one place, or is reported and in none.
LEMMA PlaceStep ==
  TypeOK /\ PhaseInv /\ RestartRecoversQueue /\ PlaceInv /\ [Next]_vars => PlaceInv'
<1> SUFFICES ASSUME TypeOK, PhaseInv, RestartRecoversQueue, PlaceInv, [Next]_vars,
                    faults' \intersect {"loss", "disk"} = {}
             PROVE  PlaceInv'
  BY DEF PlaceInv
<1> USE QueueAssumption
<1>0. /\ FileOK /\ queue \in Seq(WorkIds) /\ Len(queue) <= MaxQueue
      /\ batch \in Seq(WorkIds)
      /\ ToSet(queue) \subseteq WorkIds /\ ToSet(batch) \subseteq WorkIds
      /\ ToSet(<<>>) = {} /\ IsInjective(<<>>)
  <2>1. FileOK /\ queue \in Seq(WorkIds) /\ Len(queue) <= MaxQueue /\ batch \in Seq(WorkIds)
    BY DEF TypeOK, FileOK
  <2>2. ToSet(queue) \subseteq WorkIds /\ ToSet(batch) \subseteq WorkIds
    BY <2>1, ElementFacts
  <2>3. ToSet(<<>>) = {} /\ IsInjective(<<>>)
    BY DEF ToSet, IsInjective
  <2> QED
    BY <2>1, <2>2, <2>3
<1>1. faults' = faults
  BY DEF Next, Cycle, vars, Refresh, SkipDrain, StartDrain, ReportQueued, QueuedReportFails,
         ReportSubmission, EndCycle, Pass, Tick, Crash
<1>2. /\ "loss" \notin faults /\ "disk" \notin faults
      /\ IsInjective(queue) /\ IsInjective(batch)
      /\ ToSet(queue) \intersect ToSet(batch) = {}
      /\ current \notin ToSet(queue)
      /\ (ToSet(queue) \union ToSet(batch) \union ({current} \ {NoWork})) \intersect reported = {}
      /\ ToSet(queue) \union ToSet(batch) \union ({current} \ {NoWork}) \union reported \subseteq accepted
  BY <1>1 DEF PlaceInv, Pending
<1>3. CASE UNCHANGED <<queue, batch, current, reported, accepted>>
  BY <1>2, <1>3 DEF PlaceInv, Pending
<1>4. CASE StartDrain
  <2>1. /\ ToSet(queue') \subseteq ToSet(queue) /\ ToSet(batch') \subseteq ToSet(queue)
        /\ IsInjective(queue') /\ IsInjective(batch')
        /\ ToSet(queue') \intersect ToSet(batch') = {}
    BY <1>0, <1>2, <1>4, DrainFacts DEF StartDrain
  <2>2. UNCHANGED <<current, reported, accepted>>
    BY <1>4 DEF StartDrain
  <2> QED BY <1>2, <2>1, <2>2 DEF PlaceInv, Pending
<1>5. CASE ReportQueued
  <2>1. batch # <<>> /\ current = NoWork
    BY <1>5 DEF ReportQueued, PhaseInv
  <2>2. /\ ToSet(batch) = {Head(batch)} \union ToSet(Tail(batch))
        /\ IsInjective(Tail(batch)) /\ Head(batch) \notin ToSet(Tail(batch))
    BY <1>0, <1>2, <2>1, TailFacts
  <2>3. /\ reported' = reported \union {Head(batch)} /\ batch' = Tail(batch)
        /\ UNCHANGED <<queue, current, accepted>>
    BY <1>5 DEF ReportQueued, queueVars
  <2> QED BY <1>2, <2>1, <2>2, <2>3 DEF PlaceInv, Pending
<1>6. CASE QueuedReportFails
  <2>1. batch # <<>> /\ current = NoWork
    BY <1>6 DEF QueuedReportFails, PhaseInv
  <2>2. Head(batch) \in ToSet(batch) /\ Head(batch) \in WorkIds
    BY <1>0, <2>1, TailFacts
  <2>3. /\ ToSet(queue') \subseteq ToSet(queue) \union {Head(batch)}
        /\ IsInjective(queue) /\ Head(batch) \notin ToSet(queue) => IsInjective(queue')
    BY <1>0, <1>6, <2>2, EnqueueFacts DEF QueuedReportFails
  <2>4. batch' = <<>> /\ UNCHANGED <<current, reported, accepted>>
    BY <1>2, <1>6 DEF QueuedReportFails
  <2>5. NoWork \notin ToSet(queue')
    BY <1>0, <2>2, <2>3
  <2> QED BY <1>0, <1>2, <2>1, <2>2, <2>3, <2>4, <2>5 DEF PlaceInv, Pending
<1>7. CASE ReportSubmission
  <2>1. current \in WorkIds /\ batch = <<>>
    BY <1>7 DEF ReportSubmission, TypeOK, PhaseInv
  <2>2. batch' = batch /\ current' = NoWork /\ accepted' = accepted
    BY <1>7 DEF ReportSubmission, drainVars
  <2>3. \/ reported' = reported \union {current} /\ queue' = queue
        \/ reported' = reported /\ Enqueue(current)
    BY <1>2, <1>7 DEF ReportSubmission, queueVars
  <2>4. CASE reported' = reported \union {current} /\ queue' = queue
    BY <1>0, <1>2, <2>1, <2>2, <2>4 DEF PlaceInv, Pending
  <2>5. CASE reported' = reported /\ Enqueue(current)
    <3>1. /\ ToSet(queue') \subseteq ToSet(queue) \union {current}
          /\ IsInjective(queue')
      BY <1>0, <1>2, <2>1, <2>5, EnqueueFacts
    <3>2. NoWork \notin ToSet(queue')
      BY <1>0, <2>1, <3>1
    <3> QED BY <1>0, <1>2, <2>1, <2>2, <2>5, <3>1, <3>2 DEF PlaceInv, Pending
  <2> QED BY <2>3, <2>4, <2>5
<1>8. ASSUME NEW w \in WorkIds, Pass(w) PROVE PlaceInv'
  <2>1. batch = <<>> /\ current = NoWork
    BY <1>8 DEF Pass, PhaseInv
  <2>2. /\ w \notin accepted /\ accepted' = accepted \union {w} /\ current' = w
        /\ UNCHANGED <<queue, batch, reported>>
    BY <1>8 DEF Pass, queueVars, drainVars
  <2> QED BY <1>2, <2>1, <2>2 DEF PlaceInv, Pending
<1>9. CASE Crash
  <2>1. queue' = queue
    BY <1>2, <1>9 DEF Crash, RestartRecoversQueue
  <2>2. batch' = <<>> /\ current' = NoWork /\ UNCHANGED <<reported, accepted>>
    BY <1>9 DEF Crash
  <2> QED BY <1>0, <1>2, <2>1, <2>2 DEF PlaceInv, Pending
<1>10. CASE Refresh \/ SkipDrain \/ EndCycle \/ Tick \/ UNCHANGED vars
  <2>1. UNCHANGED <<queue, batch, current, reported, accepted>>
    BY <1>10 DEF Refresh, SkipDrain, EndCycle, Tick, vars, queueVars, drainVars
  <2> QED BY <1>3, <2>1
<1> QED BY <1>4, <1>5, <1>6, <1>7, <1>8, <1>9, <1>10 DEF Next, Cycle

\* What a batch still holds after its first submission.
Rest == {batch[i] : i \in 2 .. Len(batch)}

\* What leaves the queue, the batch and the hand in a step of a process that
\* lives is reported or discarded, but for the rest of a batch that failed.
LEMMA LossStep ==
  ASSUME TypeOK, PhaseInv, [Next]_vars, ~ Crash
  PROVE  Lost' \subseteq Lost \union (IF batch' = <<>> THEN Rest ELSE {})
<1>0. /\ FileOK /\ queue \in Seq(WorkIds) /\ Len(queue) <= MaxQueue
      /\ batch \in Seq(WorkIds)
  BY DEF TypeOK, FileOK
<1> DEFINE Held == ToSet(queue) \union ToSet(batch) \union ({current} \ {NoWork})
<1>1. /\ Lost = accepted \ (reported \union Held \union discarded)
      /\ Lost' = accepted' \ (reported' \union Held' \union discarded')
  BY DEF Lost, Pending
<1>2. ASSUME accepted' \subseteq accepted \union Held', reported \subseteq reported',
             Held \union discarded \subseteq reported' \union Held' \union discarded'
      PROVE  Lost' \subseteq Lost
  BY <1>1, <1>2
<1>3. CASE StartDrain
  <2>1. discarded \union ToSet(queue) \subseteq discarded' \union ToSet(queue') \union ToSet(batch')
    BY <1>0, <1>3, DrainFacts DEF StartDrain
  <2>2. phase = "drain" /\ UNCHANGED <<current, reported, accepted>>
    BY <1>3 DEF StartDrain
  <2>3. ToSet(batch) = {}
    BY <1>0, <2>2, ElementFacts DEF PhaseInv
  <2> QED BY <1>2, <2>1, <2>2, <2>3
<1>4. CASE ReportQueued
  <2>1. batch # <<>>
    BY <1>4 DEF ReportQueued, PhaseInv
  <2>2. ToSet(batch) = {Head(batch)} \union ToSet(Tail(batch))
    BY <1>0, <2>1, TailFacts
  <2>3. /\ reported' = reported \union {Head(batch)} /\ batch' = Tail(batch)
        /\ UNCHANGED <<queue, discarded, current, accepted>>
    BY <1>4 DEF ReportQueued, queueVars
  <2> QED BY <1>2, <2>2, <2>3
<1>5. CASE QueuedReportFails
  <2>1. batch # <<>> /\ batch' = <<>> /\ reported \subseteq reported'
        /\ Enqueue(Head(batch)) /\ UNCHANGED <<current, accepted>>
    BY <1>5 DEF QueuedReportFails, PhaseInv
  <2>2. Head(batch) \in WorkIds /\ Head(batch) = batch[1]
    BY <1>0, <2>1, TailFacts
  <2>3. discarded' = discarded \union ((ToSet(queue) \union {Head(batch)}) \ ToSet(queue'))
    BY <1>0, <2>1, <2>2, EnqueueFacts
  <2>4. ToSet(batch) \subseteq {Head(batch)} \union Rest
    <3>1. Len(batch) \in Nat /\ ToSet(batch) = {batch[i] : i \in 1 .. Len(batch)}
      BY <1>0, LenProperties DEF ToSet
    <3>2. \A i \in 1 .. Len(batch) : i = 1 \/ i \in 2 .. Len(batch)
      BY <3>1
    <3> QED BY <2>2, <3>1, <3>2 DEF Rest
  <2> QED BY <1>1, <2>1, <2>3, <2>4
<1>6. CASE ReportSubmission
  <2>1. current \in WorkIds
    BY <1>6 DEF ReportSubmission, TypeOK, PhaseInv
  <2>2. batch' = batch /\ accepted' = accepted /\ reported \subseteq reported'
    BY <1>6 DEF ReportSubmission, drainVars
  <2>3. \/ reported' = reported \union {current} /\ UNCHANGED <<queue, discarded>>
        \/ Enqueue(current)
    BY <1>6 DEF ReportSubmission, queueVars
  <2>4. CASE reported' = reported \union {current} /\ UNCHANGED <<queue, discarded>>
    BY <1>2, <2>2, <2>4
  <2>5. CASE Enqueue(current)
    <3>1. discarded' = discarded \union ((ToSet(queue) \union {current}) \ ToSet(queue'))
      BY <1>0, <2>1, <2>5, EnqueueFacts
    <3> QED BY <1>2, <2>2, <3>1
  <2> QED BY <2>3, <2>4, <2>5
<1>7. ASSUME NEW w \in WorkIds, Pass(w) PROVE Lost' \subseteq Lost
  <2>1. current = NoWork /\ w # NoWork
    BY <1>7, QueueAssumption DEF Pass, PhaseInv
  <2>2. /\ accepted' = accepted \union {w} /\ current' = w
        /\ UNCHANGED <<queue, discarded, batch, reported>>
    BY <1>7 DEF Pass, queueVars, drainVars
  <2> QED BY <1>2, <2>1, <2>2
<1>8. CASE Refresh \/ SkipDrain \/ EndCycle \/ Tick \/ UNCHANGED vars
  <2>1. UNCHANGED <<queue, discarded, batch, current, reported, accepted>>
    BY <1>8 DEF Refresh, SkipDrain, EndCycle, Tick, vars, queueVars, drainVars
  <2> QED BY <1>2, <2>1
<1> QED BY <1>3, <1>4, <1>5, <1>6, <1>7, <1>8 DEF Next, Cycle

\* What a process finds when it starts.
LEMMA Start == Init => IInv
<1> SUFFICES ASSUME Init PROVE IInv
  OBVIOUS
<1> USE QueueAssumption
<1>1. /\ file \in [version : {"current", "future"}, entries : Seq(WorkIds)]
      /\ IsInjective(file.entries)
  BY DEF Init
<1>2. /\ ToSet(<<>>) = {} /\ IsInjective(<<>>)
      /\ <<>> \in Seq(WorkIds) /\ Len(<<>>) = 0
  BY EmptySeq DEF ToSet, IsInjective
<1>3. queue \in Seq(WorkIds) /\ Len(queue) <= MaxQueue /\ IsInjective(queue)
  <2>1. CASE queue = <<>>
    BY <1>2, <2>1
  <2>2. CASE queue = Newest(file.entries, MaxQueue)
    BY <1>1, <2>2, NewestIsSuffix
  <2> QED BY <2>1, <2>2 DEF Init, Loaded
<1>4. ToSet(queue) \subseteq WorkIds
  BY <1>3, ElementFacts
<1>5. TypeOK
  <2>1. 0 \in 0 .. MaxDelay /\ 0 \in 0 .. MaxAge + 1 /\ 0 <= MaxCount
    OBVIOUS
  <2>2. file.version \in {"current", "future"} /\ file.entries \in Seq(WorkIds)
    BY <1>1
  <2>3. age \in [WorkIds -> 0 .. MaxAge + 1]
    BY <2>1 DEF Init
  <2> QED BY <1>2, <1>3, <1>4, <2>1, <2>2, <2>3 DEF Init, TypeOK, Phases
<1>6. PhaseInv /\ RestartRecoversQueue
  BY DEF Init, PhaseInv, RestartRecoversQueue
<1>7. PlaceInv
  BY <1>2, <1>3, <1>4 DEF Init, PlaceInv, Pending
<1> QED BY <1>5, <1>6, <1>7 DEF IInv

\* The conjunction is inductive.
THEOREM Invariance == Spec => []IInv
<1>1. Init => IInv
  BY Start
<1>2. IInv /\ [Next]_vars => IInv'
  BY TypeStep, RestartStep, PlaceStep DEF IInv
<1> QED BY <1>1, <1>2, PTL DEF Spec

-----------------------------------------------------------------------------
(***************************************************************************)
(* The theorems.                                                           *)
(***************************************************************************)

\* The queue never outgrows its deque, a batch never what a drain may take,
\* and the backoff never its longest, whatever fails.
THEOREM TypeCorrect == Spec => []TypeOK
<1>1. IInv => TypeOK
  BY DEF IInv
<1> QED BY <1>1, Invariance, PTL

\* A process that restarts at any point of an enqueue, a drain or a truncation
\* has the queue it had, for a queue and a file of any size, while the disk
\* works.
THEOREM RestartsRecoverQueue == Spec => []RestartRecoversQueue
<1>1. IInv => RestartRecoversQueue
  BY DEF IInv
<1> QED BY <1>1, Invariance, PTL

\* What is in the queue, the batch or the file is not at the API, so that no
\* submission is reported twice, across crashes in the middle of a drain.
THEOREM NothingReportedTwice == Spec => []PendingNotReported
<1>1. IInv => PendingNotReported
  <2> SUFFICES ASSUME IInv, faults \intersect {"loss", "disk"} = {}
               PROVE  (Pending \union ToSet(Loaded(file))) \intersect reported = {}
    BY DEF PendingNotReported
  <2>1. Pending \intersect reported = {}
    BY DEF IInv, PlaceInv
  <2>2. Loaded(file) = queue
    BY DEF IInv, RestartRecoversQueue
  <2> QED BY <2>1, <2>2 DEF Pending
<1> QED BY <1>1, Invariance, PTL

\* Whatever fails, a process that lives loses no accepted submission but the
\* rest of a batch of which a report failed; and one that dies with a working
\* disk none but the batch and the submission it is reporting.
THEOREM LossesBounded == Spec => LossesAreBounded
<1>1. IInv /\ [Next]_vars =>
        [/\ "crash" \notin faults =>
              Lost' \subseteq Lost \union (IF batch' = <<>> THEN {batch[i] : i \in 2 .. Len(batch)} ELSE {})
         /\ "disk" \notin faults => Lost' \subseteq Lost \union ToSet(batch) \union {current}]_vars
  <2> SUFFICES ASSUME IInv, [Next]_vars
               PROVE  /\ "crash" \notin faults =>
                           Lost' \subseteq Lost \union (IF batch' = <<>> THEN Rest ELSE {})
                      /\ "disk" \notin faults => Lost' \subseteq Lost \union ToSet(batch) \union {current}
    BY DEF Rest
  <2>1. CASE ~ Crash
    <3>1. Lost' \subseteq Lost \union (IF batch' = <<>> THEN Rest ELSE {})
      BY <2>1, LossStep DEF IInv
    <3>2. Rest \subseteq ToSet(batch)
      <4>1. Len(batch) \in Nat /\ ToSet(batch) = {batch[i] : i \in 1 .. Len(batch)}
        BY LenProperties DEF ToSet, IInv, TypeOK
      <4> QED BY <4>1 DEF Rest
    <3> QED BY <3>1, <3>2
  <2>2. CASE Crash
    <3>1. "crash" \in faults /\ queue' = Loaded(file) /\ UNCHANGED <<accepted, reported, discarded>>
      BY <2>2 DEF Crash
    <3>2. "disk" \notin faults => queue' = queue
      BY <3>1 DEF IInv, RestartRecoversQueue
    <3> QED BY <3>1, <3>2 DEF Lost, Pending
  <2> QED BY <2>1, <2>2
<1> QED BY <1>1, Invariance, PTL DEF Spec, LossesAreBounded

=============================================================================
