----------------------------- MODULE SyncProofs -----------------------------
(***************************************************************************)
(* Proofs about FiberSemaphore with WorkerGroup and about ThreadPool, for  *)
(* any number of fibers, threads, permits and tasks.                       *)
(***************************************************************************)
EXTENDS FiberSemaphore, ThreadPool, FiniteSetTheorems, SequenceTheorems, TLAPS

-----------------------------------------------------------------------------
(* FiberSemaphore *)

SemUsers == SemFibers \cup {GroupUser}
OnTheWay(s) == {f \in semQueue : SemOf(f) = s}

SmType ==
  /\ m_concurrency \in [Sems -> Nat] /\ notified \in [Sems -> Nat] /\ passed \in [Sems -> Nat]
  /\ m_waiters \in [Sems -> Seq(SemUsers)] /\ arrivals \in [Sems -> Seq(SemUsers)]
  /\ resumed \in [Sems -> Seq(SemUsers)]
  /\ semPc \in [SemUsers -> {"free", "yielding", "held"}]
  /\ semQueue \subseteq SemUsers /\ IsFiniteSet(semQueue)

(* A fiber in m_waiters has called wait() of that semaphore, is there once  *)
(* and has not been scheduled; who has been scheduled has called wait().    *)
WaitersInv ==
  /\ \A s \in Sems : \A i \in DOMAIN m_waiters[s] :
       /\ semPc[m_waiters[s][i]] # "free" /\ SemOf(m_waiters[s][i]) = s
       /\ m_waiters[s][i] \notin semQueue
       /\ \A k \in DOMAIN m_waiters[s] : m_waiters[s][i] = m_waiters[s][k] => i = k
  /\ \A f \in semQueue : semPc[f] # "free"

SemInv(s) ==
  /\ SemConcurrency[s] + notified[s] = m_concurrency[s] + passed[s] + Cardinality(OnTheWay(s))
  /\ m_waiters[s] # <<>> => m_concurrency[s] = 0
  /\ arrivals[s] = resumed[s] \o m_waiters[s]

(* Nobody has ever notified the semaphore of the group.                     *)
GroupInv ==
  /\ m_concurrency["group"] = 0 /\ notified["group"] = 0 /\ passed["group"] = 0
  /\ GroupUser \notin semQueue /\ jobs = 0

SmInv == SmType /\ WaitersInv /\ (\A s \in Sems : SemInv(s)) /\ GroupInv

LEMMA Arrive ==
  ASSUME NEW f \in SemUsers, NEW r \in Seq(SemUsers), NEW w \in Seq(SemUsers)
  PROVE  Append(r \o w, f) = r \o Append(w, f)
  <1>1. <<f>> \in Seq(SemUsers) /\ r \o w \in Seq(SemUsers)
    BY ConcatProperties
  <1>2. Append(r \o w, f) = (r \o w) \o <<f>> /\ Append(w, f) = w \o <<f>>
    BY <1>1, AppendIsConcat
  <1>3. (r \o w) \o <<f>> = r \o (w \o <<f>>)
    BY <1>1, ConcatAssociative
  <1> QED
    BY <1>2, <1>3

LEMMA Leave ==
  ASSUME NEW S, NEW r \in Seq(S), NEW w \in Seq(S), w # <<>>
  PROVE  r \o w = Append(r, Head(w)) \o Tail(w)
  <1>1. /\ Head(w) \in S /\ Tail(w) \in Seq(S) /\ <<Head(w)>> \in Seq(S)
    BY HeadTailProperties
  <1>2. w = <<Head(w)>> \o Tail(w)
    <2>1. w = Append(<<>>, Head(w)) \o Tail(w)
      OBVIOUS
    <2> QED
      BY <1>1, <2>1
  <1>3. r \o (<<Head(w)>> \o Tail(w)) = (r \o <<Head(w)>>) \o Tail(w)
    BY <1>1, ConcatAssociative
  <1>4. Append(r, Head(w)) = r \o <<Head(w)>>
    BY <1>1, AppendIsConcat
  <1> QED
    BY <1>2, <1>3, <1>4

LEMMA OneLess ==
  ASSUME NEW S, IsFiniteSet(S), NEW x \in S
  PROVE  IsFiniteSet(S \ {x}) /\ Cardinality(S \ {x}) = Cardinality(S) - 1
  BY FS_RemoveElement

LEMMA OneMore ==
  ASSUME NEW S, IsFiniteSet(S), NEW x, x \notin S
  PROVE  IsFiniteSet(S \cup {x}) /\ Cardinality(S \cup {x}) = Cardinality(S) + 1
  BY FS_AddElement

LEMMA OneMoreEach ==
  ASSUME NEW a \in Nat, NEW b \in Nat, NEW c \in Nat, NEW d \in Nat, NEW e \in Nat,
         a + b = c + d + e
  PROVE  a + (b + 1) = c + d + (e + 1) /\ a + (b + 1) = (c + 1) + d + e
  OBVIOUS

LEMMA SmFacts ==
  ASSUME SmInv
  PROVE  /\ SmType /\ \A f \in SemUsers : SemOf(f) \in Sems
         /\ SemConcurrency \in [Sems -> Nat]
         /\ \A s \in Sems : IsFiniteSet(OnTheWay(s)) /\ Cardinality(OnTheWay(s)) \in Nat
         /\ "group" \in Sems
  <1>1. \A s \in Sems : IsFiniteSet(OnTheWay(s)) /\ Cardinality(OnTheWay(s)) \in Nat
    <2> SUFFICES ASSUME NEW s \in Sems PROVE IsFiniteSet(OnTheWay(s)) /\ Cardinality(OnTheWay(s)) \in Nat
      OBVIOUS
    <2>1. OnTheWay(s) \in SUBSET semQueue /\ IsFiniteSet(semQueue)
      BY DEF OnTheWay, SmInv, SmType
    <2> QED
      BY <2>1, FS_Subset, FS_CardinalityType
  <1> QED
    BY <1>1, FiberSemaphoreAssumption DEF SmInv, SemOf, Sems, SemConcurrency

LEMMA SmInitInv == SmInit => SmInv
  <1> SUFFICES ASSUME SmInit PROVE SmInv
    OBVIOUS
  <1>1. \A s \in Sems : OnTheWay(s) = {}
    BY DEF SmInit, OnTheWay
  <1>2. \A s \in Sems : SemInv(s)
    <2>1. \A s \in Sems : SemConcurrency[s] \in Nat
      BY FiberSemaphoreAssumption DEF SemConcurrency, Sems
    <2>2. <<>> \o <<>> = <<>>
      OBVIOUS
    <2>3. ASSUME NEW s \in Sems PROVE SemInv(s)
      <3>1. Cardinality(OnTheWay(s)) = 0
        BY <1>1, FS_EmptySet
      <3>2. /\ m_concurrency[s] = SemConcurrency[s] /\ notified[s] = 0 /\ passed[s] = 0
            /\ m_waiters[s] = <<>> /\ arrivals[s] = <<>> /\ resumed[s] = <<>>
        BY DEF SmInit
      <3>3. SemConcurrency[s] + 0 = SemConcurrency[s] + 0 + 0
        BY <2>1
      <3>4. /\ SemConcurrency[s] + notified[s] = m_concurrency[s] + passed[s] + Cardinality(OnTheWay(s))
            /\ m_waiters[s] # <<>> => m_concurrency[s] = 0
        BY ONLY <3>1, <3>2, <3>3
      <3>5. arrivals[s] = resumed[s] \o m_waiters[s]
        BY <2>2, <3>2, Zenon
      <3> QED
        BY <3>4, <3>5 DEF SemInv
    <2> QED
      BY <2>3
  <1>3. SmType
    BY FS_EmptySet, FiberSemaphoreAssumption DEF SmInit, SmType, SemConcurrency, SemUsers, Sems
  <1> QED
    BY <1>2, <1>3 DEF SmInit, SmInv, WaitersInv, GroupInv, SemConcurrency, Sems

(* A permit is taken at once, from a semaphore that has one.                *)
LEMMA TakePermit ==
  ASSUME SmInv, NEW s \in Sems, m_concurrency[s] > 0,
         m_concurrency' = [m_concurrency EXCEPT ![s] = @ - 1],
         passed' = [passed EXCEPT ![s] = @ + 1], s # "group" => jobs' = jobs,
         UNCHANGED <<m_waiters, semPc, semQueue, notified, arrivals, resumed>>
  PROVE  SmInv'
  <1>1. s # "group" /\ jobs' = jobs
    BY DEF SmInv, GroupInv
  <1>2. SmType' /\ WaitersInv' /\ GroupInv'
    BY <1>1 DEF SmInv, SmType, WaitersInv, GroupInv
  <1>3. ASSUME NEW r \in Sems PROVE SemInv(r)'
    <2>1. /\ OnTheWay(r)' = OnTheWay(r) /\ SemInv(r) /\ SemConcurrency[r] \in Nat
          /\ Cardinality(OnTheWay(r)) \in Nat
      BY SmFacts DEF SmInv, OnTheWay
    <2>2. /\ m_concurrency[r] \in Nat /\ passed[r] \in Nat /\ notified[r] \in Nat
          /\ m_concurrency'[r] = IF r = s THEN m_concurrency[r] - 1 ELSE m_concurrency[r]
          /\ passed'[r] = IF r = s THEN passed[r] + 1 ELSE passed[r]
      BY DEF SmInv, SmType
    <2>3. SemConcurrency[r] + notified[r] = m_concurrency'[r] + passed'[r] + Cardinality(OnTheWay(r))
      <3>1. SemConcurrency[r] + notified[r] = m_concurrency[r] + passed[r] + Cardinality(OnTheWay(r))
        BY <2>1 DEF SemInv
      <3>2. CASE r = s
        <4>1. m_concurrency'[r] = m_concurrency[r] - 1 /\ passed'[r] = passed[r] + 1
          BY <2>2, <3>2
        <4> QED
          BY ONLY <2>1, <2>2, <3>1, <4>1
      <3>3. CASE r # s
        BY <2>2, <3>1, <3>3
      <3> QED
        BY <3>2, <3>3
    <2>4. m_waiters[r] # <<>> => m_concurrency'[r] = 0
      BY <2>1, <2>2 DEF SemInv
    <2> QED
      BY <2>1, <2>3, <2>4 DEF SemInv
  <1> QED
    BY <1>2, <1>3 DEF SmInv

LEMMA JoinWaiters ==
  ASSUME SmInv, NEW f \in SemUsers, NEW s, s = SemOf(f), semPc[f] = "free", m_concurrency[s] = 0,
         m_waiters' = [m_waiters EXCEPT ![s] = Append(@, f)],
         arrivals' = [arrivals EXCEPT ![s] = Append(@, f)],
         semPc' = [semPc EXCEPT ![f] = "yielding"],
         UNCHANGED <<m_concurrency, passed, semQueue, notified, resumed, jobs>>
  PROVE  SmInv'
  <1>0. SmType /\ s \in Sems
    BY SmFacts
  <1>1. SmType' /\ GroupInv'
    BY <1>0 DEF SmInv, SmType, GroupInv
  <1>2. /\ m_waiters'[s] = Append(m_waiters[s], f) /\ \A r \in Sems : r # s => m_waiters'[r] = m_waiters[r]
        /\ arrivals'[s] = Append(arrivals[s], f) /\ \A r \in Sems : r # s => arrivals'[r] = arrivals[r]
        /\ semPc'[f] = "yielding" /\ \A g \in SemUsers : g # f => semPc'[g] = semPc[g]
        /\ f \notin semQueue
    BY <1>0 DEF SmInv, SmType, WaitersInv
  <1>3. \A r \in Sems : \A i \in DOMAIN m_waiters[r] :
          m_waiters[r][i] \in SemUsers /\ m_waiters[r][i] # f /\ semPc'[m_waiters[r][i]] # "free"
    BY <1>0, <1>2 DEF SmInv, SmType, WaitersInv
  <1>4. WaitersInv'
    <2>1. ASSUME NEW r \in Sems, NEW i \in DOMAIN m_waiters'[r]
          PROVE  /\ semPc'[m_waiters'[r][i]] # "free" /\ SemOf(m_waiters'[r][i]) = r
                 /\ m_waiters'[r][i] \notin semQueue'
                 /\ \A k \in DOMAIN m_waiters'[r] : m_waiters'[r][i] = m_waiters'[r][k] => i = k
      <3>1. CASE r # s
        BY <1>2, <1>3, <2>1, <3>1 DEF SmInv, WaitersInv
      <3>2. CASE r = s
        <4>1. /\ DOMAIN m_waiters'[r] = 1..(Len(m_waiters[s]) + 1) /\ DOMAIN m_waiters[s] = 1..Len(m_waiters[s])
              /\ \A k \in 1..Len(m_waiters[s]) : m_waiters'[r][k] = m_waiters[s][k]
              /\ m_waiters'[r][Len(m_waiters[s]) + 1] = f /\ Len(m_waiters[s]) \in Nat
          BY <1>0, <1>2, <3>2 DEF SmType
        <4> QED
          BY <1>0, <1>2, <1>3, <2>1, <3>2, <4>1 DEF SmInv, WaitersInv
      <3> QED
        BY <3>1, <3>2
    <2>2. \A g \in semQueue' : semPc'[g] # "free"
      BY <1>0, <1>2 DEF SmInv, WaitersInv, SmType
    <2> QED
      BY <2>1, <2>2 DEF WaitersInv, SemOf
  <1>5. ASSUME NEW r \in Sems PROVE SemInv(r)'
    <2>1. OnTheWay(r)' = OnTheWay(r) /\ SemInv(r)
      BY DEF SmInv, OnTheWay
    <2>2. arrivals'[r] = resumed'[r] \o m_waiters'[r]
      <3>1. CASE r = s
        <4>1. arrivals[s] = resumed[s] \o m_waiters[s]
          BY <2>1, <3>1 DEF SemInv
        <4>2. arrivals'[s] = Append(arrivals[s], f) /\ resumed'[s] = resumed[s] /\ m_waiters'[s] = Append(m_waiters[s], f)
          BY <1>2
        <4>3. resumed[s] \in Seq(SemUsers) /\ m_waiters[s] \in Seq(SemUsers) /\ f \in SemUsers
          BY <1>0 DEF SmType
        <4>4. \A x, y \in Seq(SemUsers) : Append(x \o y, f) = x \o Append(y, f)
          BY Arrive, Zenon
        <4>5. Append(resumed[s] \o m_waiters[s], f) = resumed[s] \o Append(m_waiters[s], f)
          BY <4>3, <4>4, Zenon
        <4> QED
          BY <3>1, <4>1, <4>2, <4>5, Zenon
      <3> QED
        BY <1>2, <2>1, <3>1 DEF SemInv
    <2> QED
      BY <1>2, <2>1, <2>2 DEF SemInv
  <1> QED
    BY <1>1, <1>4, <1>5 DEF SmInv

LEMMA NotifyInv ==
  ASSUME SmInv, NEW s \in Sems, SemNotify(s), DoWork(s)
  PROVE  SmInv'
  <1>0. SmType /\ s # "group" /\ jobs' = jobs
    BY SmFacts DEF SmInv, GroupInv, DoWork
  <1>1. CASE /\ m_waiters[s] = <<>> /\ m_concurrency' = [m_concurrency EXCEPT ![s] = @ + 1]
             /\ UNCHANGED <<m_waiters, semQueue, resumed>>
    <2>1. SmType' /\ WaitersInv' /\ GroupInv'
      BY <1>0, <1>1 DEF SemNotify, SmInv, SmType, WaitersInv, GroupInv
    <2>2. ASSUME NEW r \in Sems PROVE SemInv(r)'
      <3>1. /\ OnTheWay(r)' = OnTheWay(r) /\ SemInv(r) /\ SemConcurrency[r] \in Nat
            /\ Cardinality(OnTheWay(r)) \in Nat
        BY <1>1, SmFacts DEF SmInv, OnTheWay
      <3>2. /\ m_concurrency[r] \in Nat /\ passed[r] \in Nat /\ notified[r] \in Nat
            /\ m_concurrency'[r] = IF r = s THEN m_concurrency[r] + 1 ELSE m_concurrency[r]
            /\ notified'[r] = IF r = s THEN notified[r] + 1 ELSE notified[r]
            /\ UNCHANGED <<passed, arrivals, m_waiters, resumed>>
        BY <1>0, <1>1 DEF SmType, SemNotify
      <3>3. SemConcurrency[r] + notified'[r] = m_concurrency'[r] + passed[r] + Cardinality(OnTheWay(r))
        <4>1. SemConcurrency[r] + notified[r] = m_concurrency[r] + passed[r] + Cardinality(OnTheWay(r))
          BY <3>1 DEF SemInv
        <4>2. CASE r = s
          <5>1. m_concurrency'[r] = m_concurrency[r] + 1 /\ notified'[r] = notified[r] + 1
            BY <3>2, <4>2
          <5> QED
            BY <3>1, <3>2, <4>1, <5>1, OneMoreEach
        <4>3. CASE r # s
          BY <3>2, <4>1, <4>3
        <4> QED
          BY <4>2, <4>3
      <3>4. m_waiters[r] # <<>> => m_concurrency'[r] = 0
        BY <1>1, <3>1, <3>2 DEF SemInv
      <3> QED
        BY <3>1, <3>2, <3>3, <3>4 DEF SemInv
    <2> QED
      BY <2>1, <2>2 DEF SmInv
  <1>2. CASE /\ m_waiters[s] # <<>> /\ m_waiters' = [m_waiters EXCEPT ![s] = Tail(@)]
             /\ semQueue' = semQueue \cup {Head(m_waiters[s])}
             /\ resumed' = [resumed EXCEPT ![s] = Append(@, Head(m_waiters[s]))]
             /\ UNCHANGED m_concurrency
    <2> SUFFICES ASSUME NEW h, NEW w, w = m_waiters[s], h = Head(w) PROVE SmInv'
      OBVIOUS
    <2>1. /\ w \in Seq(SemUsers) /\ Len(w) \in Nat \ {0} /\ DOMAIN w = 1..Len(w) /\ h = w[1] /\ h \in SemUsers
          /\ Tail(w) \in Seq(SemUsers) /\ DOMAIN Tail(w) = 1..(Len(w) - 1)
          /\ \A i \in 1..(Len(w) - 1) : Tail(w)[i] = w[i + 1]
      BY <1>0, <1>2, HeadTailProperties DEF SmType
    <2>2. SemOf(h) = s /\ h \notin semQueue /\ semPc[h] # "free" /\ h # GroupUser
      BY <1>0, <2>1 DEF SmInv, WaitersInv, SemOf
    <2>3. /\ m_waiters'[s] = Tail(w) /\ \A r \in Sems : r # s => m_waiters'[r] = m_waiters[r]
          /\ resumed'[s] = Append(resumed[s], h) /\ \A r \in Sems : r # s => resumed'[r] = resumed[r]
          /\ notified'[s] = notified[s] + 1 /\ \A r \in Sems : r # s => notified'[r] = notified[r]
          /\ UNCHANGED <<m_concurrency, semPc, passed, arrivals>> /\ semQueue' = semQueue \cup {h}
      BY <1>0, <1>2 DEF SmType, SemNotify
    <2>4. SmType'
      <3>1. IsFiniteSet(semQueue') /\ semQueue' \subseteq SemUsers
        BY <1>0, <2>1, <2>3, FS_AddElement DEF SmType
      <3>2. Append(resumed[s], h) \in Seq(SemUsers)
        BY <1>0, <2>1 DEF SmType
      <3>3. m_waiters' \in [Sems -> Seq(SemUsers)] /\ resumed' \in [Sems -> Seq(SemUsers)]
        BY <1>0, <1>2, <2>1, <3>2 DEF SmType
      <3>4. notified' \in [Sems -> Nat]
        BY <1>0 DEF SmType, SemNotify
      <3> QED
        BY <1>0, <2>3, <3>1, <3>3, <3>4 DEF SmType
    <2>5. GroupInv'
      BY <1>0, <2>2, <2>3 DEF SmInv, GroupInv, Sems
    <2>6. WaitersInv'
      <3>1. ASSUME NEW r \in Sems, NEW i \in DOMAIN m_waiters'[r]
            PROVE  /\ semPc'[m_waiters'[r][i]] # "free" /\ SemOf(m_waiters'[r][i]) = r
                   /\ m_waiters'[r][i] \notin semQueue'
                   /\ \A k \in DOMAIN m_waiters'[r] : m_waiters'[r][i] = m_waiters'[r][k] => i = k
        <4>1. CASE r # s
          BY <2>2, <2>3, <3>1, <4>1 DEF SmInv, WaitersInv
        <4>2. CASE r = s
          <5>1. i + 1 \in DOMAIN w /\ 1 \in DOMAIN w /\ i \in 1..(Len(w) - 1) /\ m_waiters'[r][i] = w[i + 1]
            <6>1. m_waiters'[r] = Tail(w)
              BY <2>3, <4>2
            <6>2. i \in 1..(Len(w) - 1)
              BY <2>1, <3>1, <6>1
            <6>3. i + 1 \in 1..Len(w) /\ 1 \in 1..Len(w)
              BY <2>1, <6>2
            <6> QED
              BY <2>1, <6>1, <6>2, <6>3
          <5>2. w[i + 1] # h
            BY <2>1, <5>1 DEF SmInv, WaitersInv
          <5>3. \A k \in DOMAIN m_waiters'[r] : m_waiters'[r][i] = m_waiters'[r][k] => i = k
            <6> SUFFICES ASSUME NEW k \in 1..(Len(w) - 1), w[i + 1] = w[k + 1] PROVE i = k
              <7>1. /\ DOMAIN m_waiters'[r] = 1..(Len(w) - 1)
                    /\ \A k \in 1..(Len(w) - 1) : m_waiters'[r][k] = w[k + 1]
                BY <2>1, <2>3, <4>2
              <7> QED
                BY <5>1, <7>1, Zenon
            <6>1. k + 1 \in DOMAIN w
              BY <2>1
            <6>2. i + 1 = k + 1
              BY <5>1, <6>1 DEF SmInv, WaitersInv
            <6> QED
              BY <5>1, <6>2
          <5> QED
            BY <2>3, <4>2, <5>1, <5>2, <5>3 DEF SmInv, WaitersInv
        <4> QED
          BY <4>1, <4>2
      <3>2. \A g \in semQueue' : semPc'[g] # "free"
        BY <2>2, <2>3 DEF SmInv, WaitersInv
      <3> QED
        BY <3>1, <3>2 DEF WaitersInv, SemOf
    <2>7. ASSUME NEW r \in Sems PROVE SemInv(r)'
      <3>1. SemInv(r) /\ SemConcurrency[r] \in Nat /\ Cardinality(OnTheWay(r)) \in Nat /\ IsFiniteSet(OnTheWay(r))
        BY SmFacts DEF SmInv
      <3>2. CASE r # s
        <4>1. OnTheWay(r)' = OnTheWay(r)
          BY <2>2, <2>3, <3>2 DEF OnTheWay, SemOf
        <4> QED
          BY <2>3, <3>1, <3>2, <4>1 DEF SemInv
      <3>3. CASE r = s
        <4>1. OnTheWay(r)' = OnTheWay(r) \cup {h} /\ h \notin OnTheWay(r)
          BY <2>2, <2>3, <3>3 DEF OnTheWay, SemOf
        <4>2. Cardinality(OnTheWay(r)') = Cardinality(OnTheWay(r)) + 1
          BY <3>1, <4>1, OneMore
        <4>3. resumed[r] \o w = Append(resumed[r], h) \o Tail(w)
          <5>1. resumed[r] \in Seq(SemUsers)
            BY <1>0 DEF SmType
          <5> QED
            BY <1>2, <2>1, <3>3, <5>1, Leave
        <4>4. SemConcurrency[r] + notified'[r] = m_concurrency'[r] + passed'[r] + Cardinality(OnTheWay(r)')
          <5>1. m_concurrency[r] \in Nat /\ passed[r] \in Nat /\ notified[r] \in Nat
            BY <1>0 DEF SmType
          <5>2. SemConcurrency[r] + notified[r] = m_concurrency[r] + passed[r] + Cardinality(OnTheWay(r))
            BY <3>1 DEF SemInv
          <5>3. notified'[r] = notified[r] + 1 /\ m_concurrency'[r] = m_concurrency[r] /\ passed'[r] = passed[r]
            BY <2>3, <3>3
          <5> QED
            BY <3>1, <4>2, <5>1, <5>2, <5>3, OneMoreEach
        <4>5. arrivals'[r] = resumed'[r] \o m_waiters'[r]
          BY <2>3, <3>1, <3>3, <4>3 DEF SemInv
        <4>6. m_concurrency'[r] = 0
          BY <1>2, <3>1, <3>3 DEF SemInv
        <4> QED
          BY <4>4, <4>5, <4>6 DEF SemInv
      <3> QED
        BY <3>2, <3>3
    <2> QED
      BY <2>4, <2>5, <2>6, <2>7 DEF SmInv
  <1> QED
    BY <1>1, <1>2 DEF SemNotify

LEMMA ResumeInv ==
  ASSUME SmInv, NEW f \in SemUsers, SemResume(f), GroupResume(f)
  PROVE  SmInv'
  <1> SUFFICES ASSUME NEW s, s = SemOf(f) PROVE SmInv'
    OBVIOUS
  <1>0. /\ SmType /\ s \in Sems /\ f # GroupUser /\ s # "group" /\ f \in semQueue /\ jobs' = jobs
        /\ semPc' = [semPc EXCEPT ![f] = "free"] /\ semQueue' = semQueue \ {f}
        /\ passed' = [passed EXCEPT ![s] = @ + 1]
        /\ UNCHANGED <<m_concurrency, m_waiters, notified, arrivals, resumed>>
    BY SmFacts DEF SemResume, GroupResume, SmInv, GroupInv, SemOf
  <1>1. IsFiniteSet(semQueue') /\ semQueue' \subseteq SemUsers
    BY <1>0, OneLess DEF SmType
  <1>2. SmType' /\ GroupInv'
    BY <1>0, <1>1 DEF SmInv, SmType, GroupInv
  <1>3. \A r \in Sems : \A i \in DOMAIN m_waiters[r] : m_waiters[r][i] \in SemUsers /\ m_waiters[r][i] # f
    BY <1>0 DEF SmInv, SmType, WaitersInv
  <1>4. WaitersInv'
    BY <1>0, <1>3 DEF SmInv, SmType, WaitersInv, SemOf
  <1>5. ASSUME NEW r \in Sems PROVE SemInv(r)'
    <2>1. SemInv(r) /\ SemConcurrency[r] \in Nat /\ Cardinality(OnTheWay(r)) \in Nat /\ IsFiniteSet(OnTheWay(r))
      BY SmFacts DEF SmInv
    <2>2. CASE r # s
      <3>1. OnTheWay(r)' = OnTheWay(r)
        BY <1>0, <2>2 DEF OnTheWay, SemOf
      <3> QED
        BY <1>0, <2>1, <2>2, <3>1 DEF SemInv, SmType
    <2>3. CASE r = s
      <3>1. OnTheWay(r)' = OnTheWay(r) \ {f} /\ f \in OnTheWay(r)
        BY <1>0, <2>3 DEF OnTheWay, SemOf
      <3>2. Cardinality(OnTheWay(r)') = Cardinality(OnTheWay(r)) - 1
        BY <2>1, <3>1, OneLess
      <3> QED
        BY <1>0, <2>1, <2>3, <3>2 DEF SemInv, SmType
    <2> QED
      BY <2>2, <2>3
  <1> QED
    BY <1>2, <1>4, <1>5 DEF SmInv

LEMMA SmStepInv == SmInv /\ [SmNext]_smvars => SmInv'
  <1> SUFFICES ASSUME SmInv, [SmNext]_smvars PROVE SmInv'
    OBVIOUS
  <1>0. SmType /\ \A f \in SemUsers : SemOf(f) \in Sems
    BY SmFacts
  <1>a. ASSUME UNCHANGED <<m_concurrency, m_waiters, semPc, semQueue, notified, passed, arrivals, resumed, jobs>>
        PROVE  SmInv'
    BY <1>a DEF SmInv, SmType, WaitersInv, SemInv, GroupInv, OnTheWay, SemOf
  <1>1. ASSUME NEW f \in SemUsers, SemWait(f), GroupWait(f) PROVE SmInv'
    <2>1. CASE m_concurrency[SemOf(f)] > 0
      <3>1. SemOf(f) # "group" /\ f # GroupUser
        BY <2>1 DEF SmInv, GroupInv, SemOf
      <3> QED
        BY <1>0, <1>1, <2>1, <3>1, TakePermit DEF SemWait, GroupWait
    <2>2. CASE m_concurrency[SemOf(f)] = 0
      <3>1. semPc'[f] = "yielding" /\ jobs' = jobs
        BY <1>0, <1>1, <2>2 DEF SemWait, GroupWait, SmType
      <3> QED
        BY <1>0, <1>1, <2>2, <3>1, JoinWaiters DEF SemWait
    <2> QED
      BY <1>1, <2>1, <2>2 DEF SemWait
  <1>2. ASSUME NEW f \in SemUsers, SemResume(f), GroupResume(f) PROVE SmInv'
    BY <1>2, ResumeInv
  <1>3. ASSUME NEW f \in SemUsers, SemYield(f), UNCHANGED jobs PROVE SmInv'
    <2>1. SmType' /\ GroupInv'
      BY <1>0, <1>3 DEF SemYield, SmInv, SmType, GroupInv
    <2>2. \A g \in SemUsers : semPc'[g] = "free" <=> semPc[g] = "free"
      BY <1>0, <1>3 DEF SemYield, SmType
    <2>3. \A r \in Sems : \A i \in DOMAIN m_waiters[r] : m_waiters[r][i] \in SemUsers
      BY <1>0 DEF SmType
    <2>4. WaitersInv'
      BY <1>0, <1>3, <2>2, <2>3 DEF SemYield, SmInv, SmType, WaitersInv, SemOf
    <2>5. \A r \in Sems : SemInv(r)'
      BY <1>3 DEF SemYield, SmInv, SemInv, OnTheWay, SemOf
    <2> QED
      BY <2>1, <2>4, <2>5 DEF SmInv
  <1>4. ASSUME NEW f \in SemFibers, SemTryWait(f), UNCHANGED jobs PROVE SmInv'
    <2>1. SemOf(f) \in Sems
      BY <1>0 DEF SemUsers
    <2> QED
      BY <1>4, <2>1, TakePermit DEF SemTryWait
  <1>5. ASSUME NEW s \in Sems, SemNotify(s), DoWork(s) PROVE SmInv'
    BY <1>5, NotifyInv
  <1>6. CASE WaitAll
    BY <1>6, <1>a DEF WaitAll
  <1>7. CASE UNCHANGED smvars
    BY <1>7, <1>a DEF smvars
  <1> QED
    BY <1>1, <1>2, <1>3, <1>4, <1>5, <1>6, <1>7 DEF SmNext, SemUsers

(* No permit is lost or made, waiters go on in the order they came, and a   *)
(* WorkerGroup never runs a job.                                            *)
THEOREM PermitsAreKept == SmSpec => []PermitsKept
  <1>1. SmInv => PermitsKept
    BY DEF SmInv, SmType, WaitersInv, SemInv, GroupInv, OnTheWay, PermitsKept
  <1> QED
    BY <1>1, SmInitInv, SmStepInv, PTL DEF SmSpec

-----------------------------------------------------------------------------
(* ThreadPool *)

Section == {"section", "pop", "unlock", "quitUnlock", "initSet", "initUnlock", "stopSet", "stopUnlock"}
Early   == {"initLock", "initSet", "initUnlock", "create"}      \* no thread has been made
Quit    == {"quitUnlock", "quitDrop", "done"}
Holds   == {"pop", "unlock", "run"}
WorkerPcs == {"none", "wait", "lock", "section", "drop"} \cup Holds \cup Quit
CallerPcs == {"idle", "lock", "section", "unlock", "notify", "drop"}
OwnerPcs  == Early \cup {"initDrop", "ready", "stopSet", "stopUnlock", "notifyAll", "join",
                         "endDrop", "over"}

TpType ==
  /\ DOMAIN tpPc = Actors /\ \A w \in PoolThreads : tpPc[w] \in WorkerPcs
  /\ tpPc["caller"] \in CallerPcs /\ tpPc["owner"] \in OwnerPcs
  /\ mutexHolder \in Actors \cup {"nobody"}
  /\ m_tasks \in Seq(Nat) /\ pushed \in 0..MaxTasks /\ poolSem \in Nat
  /\ inHand \in [PoolThreads -> 0..MaxTasks] /\ ran \in [0..MaxTasks -> 0..1]
  /\ tpPc["caller"] \in {"lock", "section"} => pushed < MaxTasks

(* Who is between lock() and unlock() holds m_mutex.                        *)
MutexInv == \A a \in Actors : tpPc[a] \in Section <=> mutexHolder = a

(* m_state and the threads follow the owner.                                *)
OwnerInv ==
  /\ m_state = CASE tpPc["owner"] \in {"initLock", "initSet", "endDrop", "over"} -> "STOP"
                 [] tpPc["owner"] \in {"initUnlock", "create", "initDrop", "ready", "stopSet"} -> "RUNNING"
                 [] OTHER -> "STOPPING"
  /\ \A w \in PoolThreads : tpPc[w] = "none" <=> tpPc["owner"] \in Early
  /\ tpPc["owner"] \in {"endDrop", "over"} => \A w \in PoolThreads : tpPc[w] = "done"
  /\ (\E w \in PoolThreads : tpPc[w] \in Quit) => tpPc["owner"] \in {"join", "endDrop", "over"}

(* Until the destructor notifies them all there is a task for every thread  *)
(* that has been woken and a wake-up for every other task.                  *)
Woken == {w \in PoolThreads : tpPc[w] \in {"lock", "section", "pop"}}
WakeInv ==
  tpPc["owner"] \notin {"join", "endDrop", "over"} =>
    Len(m_tasks) = poolSem + Cardinality(Woken)
                     + (IF tpPc["caller"] \in {"unlock", "notify"} THEN 1 ELSE 0)

(* The tasks that threads have moved out of the queue: it holds the others, *)
(* in the order they came, after the place that is still to be popped.      *)
Popping == \E w \in PoolThreads : tpPc[w] = "pop"
Taken == pushed - Len(m_tasks) + (IF Popping THEN 1 ELSE 0)
QueueInv ==
  /\ Taken \in 0..pushed
  /\ Popping => m_tasks # <<>>
  /\ \A i \in DOMAIN m_tasks : m_tasks[i] = IF Popping /\ i = 1 THEN 0 ELSE pushed - Len(m_tasks) + i

(* Each of them has run or is in one thread's hand.                         *)
HandInv ==
  /\ \A w \in PoolThreads : IF tpPc[w] \in Holds THEN inHand[w] \in 1..Taken /\ ran[inHand[w]] = 0
                            ELSE inHand[w] = 0
  /\ \A w, v \in PoolThreads : inHand[w] = inHand[v] /\ inHand[w] # 0 => w = v
  /\ \A t \in 1..Taken : ran[t] = 1 \/ \E w \in PoolThreads : inHand[w] = t
  /\ \A t \in 1..MaxTasks : t > Taken => ran[t] = 0
  /\ ran[0] = 0

(* Once a thread has found the queue empty only late tasks come.            *)
LateInv ==
  (\E w \in PoolThreads : tpPc[w] \in Quit) => \A t \in 1..pushed : t > Taken => t \in late

TpGood == TpType /\ MutexInv /\ OwnerInv /\ WakeInv /\ QueueInv /\ HandInv /\ LateInv
TpInv == ~stolen => TpGood /\ ~emptyPop

LEMMA Goto ==
  ASSUME TpGood, NEW a \in Actors, NEW n, TpGoto(a, n)
  PROVE  DOMAIN tpPc' = Actors /\ tpPc'[a] = n /\ \A b \in Actors : b # a => tpPc'[b] = tpPc[b]
  BY DEF TpGood, TpType, TpGoto

LEMMA ActorFacts ==
  /\ "owner" \in Actors /\ "caller" \in Actors /\ \A w \in PoolThreads : w \in Actors
  /\ "nobody" \notin Actors /\ "owner" \notin PoolThreads /\ "caller" \notin PoolThreads
  /\ \A a \in Actors : a \in PoolThreads \/ a = "owner" \/ a = "caller"
  BY ThreadPoolAssumption DEF Actors

LEMMA WokenFinite ==
  /\ IsFiniteSet(Woken) /\ Cardinality(Woken) \in Nat
  /\ IsFiniteSet(Woken') /\ Cardinality(Woken') \in Nat
  <1>1. Woken \in SUBSET PoolThreads /\ Woken' \in SUBSET PoolThreads
    BY DEF Woken
  <1> QED
    BY <1>1, ThreadPoolAssumption, FS_Subset, FS_CardinalityType

(* Who takes the mutex that nobody holds enters a section; who leaves one,  *)
(* or holds nothing, leaves the mutex with nobody.                          *)
LEMMA MutexMoves ==
  ASSUME TpGood, NEW a \in Actors, NEW n, TpGoto(a, n),
         \/ mutexHolder \in {a, "nobody"} /\ mutexHolder' = (IF n \in Section THEN a ELSE "nobody")
         \/ mutexHolder' = mutexHolder /\ (n \in Section <=> tpPc[a] \in Section)
  PROVE  MutexInv' /\ mutexHolder' \in Actors \cup {"nobody"}
  <1>1. mutexHolder' \in Actors \cup {"nobody"}
    BY DEF TpGood, TpType
  <1>2. ASSUME NEW b \in Actors PROVE tpPc'[b] \in Section <=> mutexHolder' = b
    BY <1>2, Goto, ActorFacts DEF TpGood, MutexInv
  <1> QED
    BY <1>1, <1>2 DEF MutexInv

LEMMA QueueStays ==
  ASSUME TpGood, UNCHANGED <<m_tasks, inHand, pushed, ran, late>>,
         \A w \in PoolThreads :
           /\ tpPc'[w] \in Holds <=> tpPc[w] \in Holds
           /\ tpPc'[w] = "pop" <=> tpPc[w] = "pop"
           /\ tpPc'[w] \in Quit => tpPc[w] \in Quit
  PROVE  QueueInv' /\ HandInv' /\ LateInv'
  <1>1. (Popping' <=> Popping) /\ QueueInv /\ HandInv /\ LateInv
    BY DEF Popping, TpGood
  <1>2. Taken' = Taken
    BY <1>1 DEF Taken
  <1>3. QueueInv'
    BY <1>1, <1>2 DEF QueueInv
  <1>4. HandInv'
    BY <1>1, <1>2 DEF HandInv
  <1> QED
    BY <1>1, <1>2, <1>3, <1>4 DEF LateInv

(* A thread moves on and leaves the queue alone.                            *)
LEMMA WorkerMoves ==
  ASSUME TpGood, NEW w \in PoolThreads, NEW n \in WorkerPcs, TpGoto(w, n),
         n # "none", tpPc[w] \notin {"none", "done"},
         (n \in Holds <=> tpPc[w] \in Holds), (n = "pop" <=> tpPc[w] = "pop"), (n \in Quit => tpPc[w] \in Quit),
         MutexInv' /\ mutexHolder' \in Actors \cup {"nobody"},
         UNCHANGED <<m_state, m_tasks, inHand, pushed, ran, late>>,
         poolSem' \in Nat, poolSem' + Cardinality(Woken') = poolSem + Cardinality(Woken)
  PROVE  TpGood'
  <1>1. /\ DOMAIN tpPc' = Actors /\ tpPc'[w] = n /\ \A v \in PoolThreads : v # w => tpPc'[v] = tpPc[v]
        /\ tpPc'["owner"] = tpPc["owner"] /\ tpPc'["caller"] = tpPc["caller"]
    BY Goto, ActorFacts
  <1>2. TpType'
    BY <1>1 DEF TpGood, TpType
  <1>3. OwnerInv'
    <2>1. OwnerInv
      BY DEF TpGood
    <2> QED
      BY <1>1, <2>1 DEF OwnerInv
  <1>4. WakeInv'
    <2>1. WakeInv /\ Len(m_tasks) \in Nat /\ poolSem \in Nat
      BY DEF TpGood, TpType
    <2> QED
      BY <1>1, <2>1, WokenFinite DEF WakeInv
  <1>5. QueueInv' /\ HandInv' /\ LateInv'
    BY <1>1, QueueStays
  <1> QED
    BY <1>2, <1>3, <1>4, <1>5 DEF TpGood

LEMMA WokenStays ==
  ASSUME TpGood, \A v \in PoolThreads :
           tpPc'[v] \in {"lock", "section", "pop"} <=> tpPc[v] \in {"lock", "section", "pop"}
  PROVE  Cardinality(Woken') = Cardinality(Woken)
  <1>1. Woken' = Woken
    BY DEF Woken
  <1> QED
    BY <1>1

(* The front of the queue is moved out, or the pool is left empty.          *)
LEMMA TakeFrontInv ==
  ASSUME TpGood, NEW w \in PoolThreads, TakeFront(w)
  PROVE  TpGood' /\ (emptyPop' => emptyPop)
  <1>0. TpType /\ MutexInv /\ OwnerInv /\ WakeInv /\ QueueInv /\ HandInv /\ LateInv
    BY DEF TpGood
  <1>1. tpPc[w] = "section" /\ mutexHolder' = mutexHolder /\ UNCHANGED <<m_state, poolSem, pushed, late, ran>>
    BY DEF TakeFront
  <1>2. \A v \in PoolThreads : v # w => tpPc[v] \notin Section
    BY <1>0, <1>1, ActorFacts DEF MutexInv, Section
  <1>3. ~Popping
    BY <1>1, <1>2 DEF Popping, Section
  <1>4. /\ m_state # "STOP"
        /\ m_tasks = <<>> => tpPc["owner"] = "join" /\ m_state = "STOPPING"
    <2>1. tpPc["owner"] \notin Early /\ tpPc["owner"] \notin {"endDrop", "over"}
      BY <1>0, <1>1 DEF OwnerInv
    <2>2. tpPc["owner"] # "join" => Len(m_tasks) > 0
      <3>1. w \in Woken
        BY <1>1 DEF Woken
      <3>2. Cardinality(Woken) # 0
        BY <3>1, WokenFinite, FS_EmptySet
      <3> QED
        BY <1>0, <2>1, <3>2, WokenFinite DEF WakeInv, TpType
    <2>3. m_tasks = <<>> => Len(m_tasks) = 0
      OBVIOUS
    <2> QED
      BY <1>0, <2>1, <2>2, <2>3 DEF OwnerInv, TpType, OwnerPcs, Early
  <1>5. CASE m_tasks = <<>> /\ TpGoto(w, "quitUnlock") /\ UNCHANGED <<m_tasks, inHand, emptyPop>>
    <2>1. /\ DOMAIN tpPc' = Actors /\ tpPc'[w] = "quitUnlock" /\ \A v \in PoolThreads : v # w => tpPc'[v] = tpPc[v]
          /\ tpPc'["owner"] = "join" /\ tpPc["owner"] = "join" /\ tpPc'["caller"] = tpPc["caller"]
      BY <1>4, <1>5, Goto, ActorFacts
    <2>2. MutexInv' /\ mutexHolder' \in Actors \cup {"nobody"}
      BY <1>1, <1>5, MutexMoves, ActorFacts DEF Section
    <2>3. TpType'
      BY <1>0, <1>1, <1>5, <2>1, <2>2 DEF TpType, WorkerPcs, Quit
    <2>4. OwnerInv'
      BY <1>0, <1>1, <2>1 DEF OwnerInv, Quit, Early
    <2>5. WakeInv'
      BY <2>1 DEF WakeInv
    <2>6. ~Popping' /\ Taken' = Taken /\ Taken = pushed
      <3>1. ~Popping'
        BY <1>3, <2>1 DEF Popping
      <3>2. Len(m_tasks) = 0 /\ pushed \in Nat
        BY <1>0, <1>5, ThreadPoolAssumption DEF TpType
      <3> QED
        BY <1>1, <1>3, <1>5, <3>1, <3>2 DEF Taken
    <2>7. QueueInv'
      BY <1>0, <1>1, <1>3, <1>5, <2>6 DEF QueueInv
    <2>8. HandInv'
      BY <1>0, <1>1, <1>5, <2>1, <2>6 DEF HandInv, Holds
    <2>9. LateInv'
      BY <1>0, <1>1, <2>6, ThreadPoolAssumption DEF LateInv, TpType
    <2> QED
      BY <1>5, <2>2, <2>3, <2>4, <2>5, <2>7, <2>8, <2>9 DEF TpGood
  <1>6. CASE /\ m_tasks # <<>> /\ TpGoto(w, "pop") /\ inHand' = [inHand EXCEPT ![w] = Head(m_tasks)]
             /\ m_tasks' = <<0>> \o Tail(m_tasks)
    <2>1. /\ DOMAIN tpPc' = Actors /\ tpPc'[w] = "pop" /\ \A v \in PoolThreads : v # w => tpPc'[v] = tpPc[v]
          /\ tpPc'["owner"] = tpPc["owner"] /\ tpPc'["caller"] = tpPc["caller"]
      BY <1>6, Goto, ActorFacts
    <2>2. MutexInv' /\ mutexHolder' \in Actors \cup {"nobody"}
      BY <1>1, <1>6, MutexMoves, ActorFacts DEF Section
    <2>3. /\ Len(m_tasks) \in Nat \ {0} /\ pushed \in Nat /\ DOMAIN m_tasks = 1..Len(m_tasks)
          /\ Head(m_tasks) = m_tasks[1] /\ m_tasks' \in Seq(Nat)
          /\ Len(m_tasks') = Len(m_tasks) /\ DOMAIN m_tasks' = 1..Len(m_tasks)
          /\ m_tasks'[1] = 0 /\ \A i \in 2..Len(m_tasks) : m_tasks'[i] = m_tasks[i]
      <3>1. m_tasks \in Seq(Nat) /\ Tail(m_tasks) \in Seq(Nat) /\ Len(m_tasks) \in Nat \ {0}
        BY <1>0, <1>6 DEF TpType
      <3>2. Len(Tail(m_tasks)) = Len(m_tasks) - 1 /\ \A i \in 1..(Len(m_tasks) - 1) : Tail(m_tasks)[i] = m_tasks[i + 1]
        BY <3>1
      <3>3. pushed \in Nat
        BY <1>0, ThreadPoolAssumption DEF TpType
      <3> QED
        BY <1>6, <3>1, <3>2, <3>3
    <2>4. Taken = pushed - Len(m_tasks) /\ Taken' = Taken + 1 /\ Popping' /\ Taken \in 0..pushed /\ Taken' \in 1..pushed
      <3>1. Popping'
        BY <2>1 DEF Popping
      <3>2. Taken = pushed - Len(m_tasks) /\ Taken' = pushed - Len(m_tasks) + 1
        BY <1>1, <1>3, <2>3, <3>1 DEF Taken
      <3> QED
        BY <1>0, <2>3, <3>1, <3>2 DEF QueueInv
    <2>5. Head(m_tasks) = Taken' /\ pushed \in 0..MaxTasks /\ MaxTasks \in Nat
      <3>1. m_tasks[1] = pushed - Len(m_tasks) + 1
        BY <1>0, <1>3, <2>3 DEF QueueInv
      <3> QED
        BY <1>0, <2>3, <2>4, <3>1, ThreadPoolAssumption DEF TpType
    <2>6. inHand'[w] = Taken' /\ \A v \in PoolThreads : v # w => inHand'[v] = inHand[v]
      BY <1>0, <1>6, <2>5 DEF TpType
    <2>7. inHand' \in [PoolThreads -> 0..MaxTasks]
      BY <1>0, <1>6, <2>4, <2>5 DEF TpType
    <2>8. TpType'
      BY <1>0, <1>1, <2>1, <2>2, <2>3, <2>7 DEF TpType, WorkerPcs, Holds
    <2>9. OwnerInv'
      BY <1>0, <1>1, <2>1 DEF OwnerInv, Quit, Early
    <2>10. WakeInv'
      <3>1. Cardinality(Woken') = Cardinality(Woken)
        BY <1>1, <2>1, WokenStays
      <3> QED
        BY <1>0, <1>1, <2>1, <2>3, <3>1 DEF WakeInv
    <2>11. QueueInv'
      <3>1. m_tasks' # <<>>
        BY <2>3
      <3>2. ASSUME NEW i \in DOMAIN m_tasks'
            PROVE  m_tasks'[i] = IF Popping' /\ i = 1 THEN 0 ELSE pushed' - Len(m_tasks') + i
        BY <1>0, <1>1, <1>3, <2>3, <2>4 DEF QueueInv
      <3> QED
        BY <1>1, <2>4, <3>1, <3>2 DEF QueueInv
    <2>12. HandInv'
      <3>1. inHand[w] = 0 /\ \A v \in PoolThreads : inHand[v] \in 0..Taken
        BY <1>0, <1>1, <2>4 DEF HandInv, Holds
      <3>2. ran[Taken'] = 0
        BY <1>0, <2>4, <2>5 DEF HandInv
      <3>3. ASSUME NEW v \in PoolThreads
            PROVE  IF tpPc'[v] \in Holds THEN inHand'[v] \in 1..Taken' /\ ran[inHand'[v]] = 0 ELSE inHand'[v] = 0
        BY <1>0, <2>1, <2>4, <2>6, <3>2 DEF HandInv, Holds
      <3>4. \A u, v \in PoolThreads : inHand'[u] = inHand'[v] /\ inHand'[u] # 0 => u = v
        BY <1>0, <2>4, <2>6, <3>1 DEF HandInv
      <3>5. \A t \in 1..Taken' : ran[t] = 1 \/ \E v \in PoolThreads : inHand'[v] = t
        BY <1>0, <2>4, <2>6, <3>1 DEF HandInv
      <3>6. (\A t \in 1..MaxTasks : t > Taken' => ran[t] = 0) /\ ran[0] = 0
        BY <1>0, <2>4 DEF HandInv
      <3> QED
        BY <1>1, <3>3, <3>4, <3>5, <3>6 DEF HandInv
    <2>13. LateInv'
      <3>1. (\E v \in PoolThreads : tpPc'[v] \in Quit) => \E v \in PoolThreads : tpPc[v] \in Quit
        BY <2>1 DEF Quit
      <3> QED
        BY <1>0, <1>1, <2>4, <3>1 DEF LateInv
    <2>14. emptyPop' => emptyPop
      BY <1>6, <1>4 DEF TakeFront
    <2> QED
      BY <2>2, <2>8, <2>9, <2>10, <2>11, <2>12, <2>13, <2>14 DEF TpGood
  <1>7. CASE m_tasks = <<>>
    BY <1>4, <1>5, <1>7 DEF TakeFront
  <1>8. CASE m_tasks # <<>>
    BY <1>4, <1>6, <1>8 DEF TakeFront
  <1> QED
    BY <1>7, <1>8

LEMMA PopFrontInv ==
  ASSUME TpGood, NEW w \in PoolThreads, PopFront(w)
  PROVE  TpGood' /\ (emptyPop' => emptyPop)
  <1>0. TpType /\ MutexInv /\ OwnerInv /\ WakeInv /\ QueueInv /\ HandInv /\ LateInv
    BY DEF TpGood
  <1>1. /\ tpPc[w] = "pop" /\ TpGoto(w, "unlock")
        /\ UNCHANGED <<m_state, poolSem, mutexHolder, inHand, pushed, late, ran>>
    BY DEF PopFront
  <1>2. \A v \in PoolThreads : v # w => tpPc[v] \notin Section
    BY <1>0, <1>1, ActorFacts DEF MutexInv, Section
  <1>3. /\ DOMAIN tpPc' = Actors /\ tpPc'[w] = "unlock" /\ \A v \in PoolThreads : v # w => tpPc'[v] = tpPc[v]
        /\ tpPc'["owner"] = tpPc["owner"] /\ tpPc'["caller"] = tpPc["caller"]
    BY <1>1, Goto, ActorFacts
  <1>4. Popping /\ ~Popping'
    BY <1>1, <1>2, <1>3 DEF Popping, Section
  <1>5. m_tasks # <<>> /\ m_tasks' = Tail(m_tasks) /\ (emptyPop' => emptyPop)
    BY <1>0, <1>4 DEF QueueInv, PopFront
  <1>6. /\ Len(m_tasks) \in Nat \ {0} /\ pushed \in Nat /\ DOMAIN m_tasks = 1..Len(m_tasks)
        /\ m_tasks' \in Seq(Nat) /\ Len(m_tasks') = Len(m_tasks) - 1
        /\ DOMAIN m_tasks' = 1..(Len(m_tasks) - 1)
        /\ \A i \in 1..(Len(m_tasks) - 1) : m_tasks'[i] = m_tasks[i + 1]
    <2>1. m_tasks \in Seq(Nat) /\ pushed \in Nat
      BY <1>0, ThreadPoolAssumption DEF TpType
    <2> QED
      BY <1>5, <2>1
  <1>7. Taken' = Taken
    BY <1>1, <1>4, <1>6 DEF Taken
  <1>8. MutexInv' /\ mutexHolder' \in Actors \cup {"nobody"}
    BY <1>1, MutexMoves, ActorFacts DEF Section
  <1>9. TpType'
    BY <1>0, <1>1, <1>3, <1>6, <1>8 DEF TpType, WorkerPcs, Holds
  <1>10. OwnerInv'
    BY <1>0, <1>1, <1>3 DEF OwnerInv, Quit, Early
  <1>11. WakeInv'
    <2>1. Woken' = Woken \ {w} /\ w \in Woken
      BY <1>1, <1>3 DEF Woken
    <2>2. Cardinality(Woken') = Cardinality(Woken) - 1
      BY <2>1, WokenFinite, OneLess
    <2>3. poolSem' = poolSem /\ poolSem \in Nat /\ Len(m_tasks') = Len(m_tasks) - 1 /\ Len(m_tasks) \in Nat
      BY <1>0, <1>1, <1>6 DEF TpType
    <2>4. Cardinality(Woken) \in Nat
      BY WokenFinite
    <2>5. tpPc["owner"] \notin {"join", "endDrop", "over"} =>
            Len(m_tasks) = poolSem + Cardinality(Woken)
                             + (IF tpPc["caller"] \in {"unlock", "notify"} THEN 1 ELSE 0)
      BY <1>0 DEF WakeInv
    <2> QED
      BY <1>3, <2>2, <2>3, <2>4, <2>5 DEF WakeInv
  <1>12. QueueInv'
    <2>1. ASSUME NEW i \in DOMAIN m_tasks' PROVE m_tasks'[i] = pushed' - Len(m_tasks') + i
      <3>1. m_tasks[i + 1] = pushed - Len(m_tasks) + (i + 1)
        BY <1>0, <1>6 DEF QueueInv
      <3> QED
        BY <1>1, <1>6, <3>1
    <2> QED
      BY <1>0, <1>1, <1>4, <1>7, <2>1 DEF QueueInv
  <1>13. HandInv'
    BY <1>0, <1>1, <1>3, <1>7 DEF HandInv, Holds
  <1>14. LateInv'
    BY <1>0, <1>1, <1>3, <1>7 DEF LateInv, Quit
  <1> QED
    BY <1>5, <1>8, <1>9, <1>10, <1>11, <1>12, <1>13, <1>14 DEF TpGood

LEMMA RunTaskInv ==
  ASSUME TpGood, NEW w \in PoolThreads, RunTask(w)
  PROVE  TpGood'
  <1>0. TpType /\ MutexInv /\ OwnerInv /\ WakeInv /\ QueueInv /\ HandInv /\ LateInv
    BY DEF TpGood
  <1>1. /\ tpPc[w] = "run" /\ TpGoto(w, "drop")
        /\ UNCHANGED <<m_state, m_tasks, poolSem, mutexHolder, pushed, late>>
    BY DEF RunTask
  <1>2. /\ DOMAIN tpPc' = Actors /\ tpPc'[w] = "drop" /\ \A v \in PoolThreads : v # w => tpPc'[v] = tpPc[v]
        /\ tpPc'["owner"] = tpPc["owner"] /\ tpPc'["caller"] = tpPc["caller"]
    BY <1>1, Goto, ActorFacts
  <1>3. inHand[w] \in 1..Taken /\ ran[inHand[w]] = 0 /\ Taken \in 0..pushed /\ pushed \in 0..MaxTasks /\ MaxTasks \in Nat
    BY <1>0, <1>1, ThreadPoolAssumption DEF HandInv, Holds, QueueInv, TpType
  <1>4. /\ inHand[w] \in 1..MaxTasks /\ ran' = [ran EXCEPT ![inHand[w]] = 1] /\ inHand' = [inHand EXCEPT ![w] = 0]
    BY <1>0, <1>3 DEF RunTask, TpType
  <1>5. /\ ran'[inHand[w]] = 1 /\ \A t \in 0..MaxTasks : t # inHand[w] => ran'[t] = ran[t]
        /\ inHand'[w] = 0 /\ \A v \in PoolThreads : v # w => inHand'[v] = inHand[v]
    BY <1>0, <1>3, <1>4 DEF TpType
  <1>6. (Popping' <=> Popping) /\ Taken' = Taken
    <2>1. Popping' <=> Popping
      BY <1>1, <1>2 DEF Popping
    <2> QED
      BY <1>1, <2>1 DEF Taken
  <1>7. MutexInv' /\ mutexHolder' \in Actors \cup {"nobody"}
    BY <1>1, MutexMoves, ActorFacts DEF Section
  <1>8. TpType'
    <2>1. inHand' \in [PoolThreads -> 0..MaxTasks] /\ ran' \in [0..MaxTasks -> 0..1]
      BY <1>0, <1>3, <1>4 DEF TpType
    <2> QED
      BY <1>0, <1>1, <1>2, <1>7, <2>1 DEF TpType, WorkerPcs
  <1>9. OwnerInv'
    BY <1>0, <1>1, <1>2 DEF OwnerInv, Quit, Early
  <1>10. WakeInv'
    <2>1. Cardinality(Woken') = Cardinality(Woken)
      BY <1>1, <1>2, WokenStays
    <2> QED
      BY <1>0, <1>1, <1>2, <2>1 DEF WakeInv
  <1>11. QueueInv'
    BY <1>0, <1>1, <1>6 DEF QueueInv
  <1>12. HandInv'
    <2>1. \A v \in PoolThreads : inHand[v] \in 0..MaxTasks
      BY <1>0 DEF TpType
    <2>2. ASSUME NEW v \in PoolThreads
          PROVE  IF tpPc'[v] \in Holds THEN inHand'[v] \in 1..Taken' /\ ran'[inHand'[v]] = 0 ELSE inHand'[v] = 0
      BY <1>0, <1>2, <1>3, <1>5, <1>6, <2>1 DEF HandInv, Holds
    <2>3. \A u, v \in PoolThreads : inHand'[u] = inHand'[v] /\ inHand'[u] # 0 => u = v
      BY <1>0, <1>5 DEF HandInv
    <2>4. ASSUME NEW t \in 1..Taken' PROVE ran'[t] = 1 \/ \E v \in PoolThreads : inHand'[v] = t
      <3>1. t \in 1..Taken /\ t \in 0..MaxTasks
        BY <1>3, <1>6
      <3> QED
        BY <1>0, <1>5, <3>1 DEF HandInv
    <2>5. \A t \in 1..MaxTasks : t > Taken' => ran'[t] = 0
      BY <1>0, <1>3, <1>5, <1>6 DEF HandInv
    <2>6. ran'[0] = 0
      BY <1>0, <1>3, <1>5 DEF HandInv
    <2> QED
      BY <2>2, <2>3, <2>4, <2>5, <2>6 DEF HandInv
  <1>13. LateInv'
    BY <1>0, <1>1, <1>2, <1>6 DEF LateInv, Quit
  <1> QED
    BY <1>7, <1>8, <1>9, <1>10, <1>11, <1>12, <1>13 DEF TpGood

(* ~stolen' says that the mutex was the actor's own, or nobody's.           *)
LEMMA Releases ==
  ASSUME NEW a \in Actors, Release(a), ~stolen'
  PROVE  mutexHolder \in {a, "nobody"} /\ mutexHolder' = "nobody" /\ ~stolen
  BY Zenon DEF Release

LEMMA WorkerInv ==
  ASSUME TpGood, ~stolen', NEW w \in PoolThreads, Worker(w)
  PROVE  TpGood' /\ (emptyPop' => emptyPop)
  <1>0. TpType /\ MutexInv /\ w \in Actors /\ poolSem \in Nat
    BY ActorFacts DEF TpGood, TpType
  <1>1. CASE WaitTask(w)
    <2>1. /\ tpPc[w] = "wait" /\ TpGoto(w, "lock") /\ poolSem' = poolSem - 1 /\ poolSem > 0
          /\ UNCHANGED <<m_state, m_tasks, mutexHolder, inHand, pushed, late, ran, emptyPop>>
      BY <1>1 DEF WaitTask
    <2>2. Woken' = Woken \cup {w} /\ w \notin Woken
      BY <1>0, <2>1, Goto, ActorFacts DEF Woken
    <2>3. Cardinality(Woken') = Cardinality(Woken) + 1
      BY <2>2, WokenFinite, OneMore
    <2>4. poolSem' + Cardinality(Woken') = poolSem + Cardinality(Woken) /\ poolSem' \in Nat
      BY <1>0, <2>1, <2>3, WokenFinite
    <2>5. MutexInv' /\ mutexHolder' \in Actors \cup {"nobody"}
      BY <1>0, <2>1, MutexMoves DEF Section
    <2> QED
      BY <2>1, <2>4, <2>5, WorkerMoves DEF WorkerPcs, Holds, Quit
  <1>2. CASE Lock(w, "lock", "section")
    <2>1. /\ tpPc[w] = "lock" /\ TpGoto(w, "section") /\ mutexHolder = "nobody" /\ mutexHolder' = w
          /\ UNCHANGED <<m_state, m_tasks, poolSem, inHand, pushed, late, ran, emptyPop>>
      BY <1>2 DEF Lock
    <2>2. MutexInv' /\ mutexHolder' \in Actors \cup {"nobody"}
      BY <1>0, <2>1, MutexMoves DEF Section
    <2>3. Cardinality(Woken') = Cardinality(Woken)
      BY <1>0, <2>1, Goto, ActorFacts, WokenStays
    <2> QED
      BY <1>0, <2>1, <2>2, <2>3, WorkerMoves DEF WorkerPcs, Holds, Quit
  <1>a. ASSUME NEW at, NEW n, <<at, n>> \in {<<"unlock", "run">>, <<"drop", "wait">>,
                                             <<"quitUnlock", "quitDrop">>, <<"quitDrop", "done">>},
               tpPc[w] = at, Release(w), TpGoto(w, n),
               UNCHANGED <<m_state, m_tasks, poolSem, inHand, pushed, late, ran, emptyPop>>
        PROVE  TpGood' /\ (emptyPop' => emptyPop)
    <2>1. mutexHolder \in {w, "nobody"} /\ mutexHolder' = "nobody"
      BY <1>0, <1>a, Releases
    <2>2. MutexInv' /\ mutexHolder' \in Actors \cup {"nobody"}
      BY <1>0, <1>a, <2>1, MutexMoves DEF Section
    <2>3. Cardinality(Woken') = Cardinality(Woken)
      BY <1>0, <1>a, Goto, ActorFacts, WokenStays
    <2>4. /\ n \in WorkerPcs /\ n # "none" /\ at \notin {"none", "done"} /\ (n \in Holds <=> at \in Holds)
          /\ (n = "pop" <=> at = "pop") /\ (n \in Quit => at \in Quit)
      BY <1>a DEF WorkerPcs, Holds, Quit
    <2> QED
      BY <1>0, <1>a, <2>2, <2>3, <2>4, WorkerMoves
  <1>3. CASE Unlock(w, "unlock", "run") \/ DropLock(w, "drop", "wait")
             \/ Unlock(w, "quitUnlock", "quitDrop") \/ DropLock(w, "quitDrop", "done")
    BY <1>3, <1>a DEF Unlock, DropLock
  <1>4. CASE TakeFront(w)
    BY <1>4, TakeFrontInv
  <1>5. CASE PopFront(w)
    BY <1>5, PopFrontInv
  <1>6. CASE RunTask(w)
    BY <1>6, RunTaskInv DEF RunTask
  <1> QED
    BY <1>1, <1>2, <1>3, <1>4, <1>5, <1>6 DEF Worker

(* enqueue: only Push uses the queue.                                       *)
LEMMA CallerMoves ==
  ASSUME TpGood, NEW n \in CallerPcs, TpGoto("caller", n),
         MutexInv' /\ mutexHolder' \in Actors \cup {"nobody"},
         n \in {"lock", "section"} => pushed < MaxTasks,
         UNCHANGED <<m_state, m_tasks, inHand, pushed, ran, late>>, poolSem' \in Nat,
         \/ poolSem' = poolSem /\ (n \in {"unlock", "notify"} <=> tpPc["caller"] \in {"unlock", "notify"})
         \/ poolSem' = poolSem + 1 /\ n \notin {"unlock", "notify"} /\ tpPc["caller"] \in {"unlock", "notify"}
  PROVE  TpGood'
  <1>1. /\ DOMAIN tpPc' = Actors /\ tpPc'["caller"] = n /\ \A v \in PoolThreads : tpPc'[v] = tpPc[v]
        /\ tpPc'["owner"] = tpPc["owner"]
    BY Goto, ActorFacts
  <1>2. TpType'
    BY <1>1 DEF TpGood, TpType
  <1>3. OwnerInv'
    <2>1. OwnerInv
      BY DEF TpGood
    <2> QED
      BY <1>1, <2>1 DEF OwnerInv
  <1>4. WakeInv'
    <2>1. WakeInv /\ Len(m_tasks) \in Nat /\ poolSem \in Nat
      BY DEF TpGood, TpType
    <2>2. Cardinality(Woken') = Cardinality(Woken)
      BY <1>1, WokenStays
    <2> QED
      BY <1>1, <2>1, <2>2, WokenFinite DEF WakeInv
  <1>5. QueueInv' /\ HandInv' /\ LateInv'
    BY <1>1, QueueStays
  <1> QED
    BY <1>2, <1>3, <1>4, <1>5 DEF TpGood

LEMMA PushInv ==
  ASSUME TpGood, Push
  PROVE  TpGood'
  <1>0. TpType /\ MutexInv /\ OwnerInv /\ WakeInv /\ QueueInv /\ HandInv /\ LateInv
    BY DEF TpGood
  <1>1. /\ tpPc["caller"] = "section" /\ TpGoto("caller", "unlock") /\ pushed' = pushed + 1
        /\ m_tasks' = Append(m_tasks, pushed + 1)
        /\ late' = (IF m_state = "RUNNING" THEN late ELSE late \cup {pushed + 1})
        /\ UNCHANGED <<m_state, poolSem, mutexHolder, inHand, ran>>
    BY DEF Push
  <1>2. /\ DOMAIN tpPc' = Actors /\ tpPc'["caller"] = "unlock" /\ \A v \in PoolThreads : tpPc'[v] = tpPc[v]
        /\ tpPc'["owner"] = tpPc["owner"]
    BY <1>1, Goto, ActorFacts
  <1>3. ~Popping /\ ~Popping'
    <2>1. mutexHolder = "caller"
      BY <1>0, <1>1, ActorFacts DEF MutexInv, Section
    <2> QED
      BY <1>0, <1>2, <2>1, ActorFacts DEF Popping, MutexInv, Section
  <1>4. /\ Len(m_tasks) \in Nat /\ pushed \in Nat /\ pushed + 1 <= MaxTasks /\ MaxTasks \in Nat
        /\ DOMAIN m_tasks = 1..Len(m_tasks) /\ m_tasks' \in Seq(Nat)
        /\ Len(m_tasks') = Len(m_tasks) + 1 /\ DOMAIN m_tasks' = 1..(Len(m_tasks) + 1)
        /\ m_tasks'[Len(m_tasks) + 1] = pushed + 1
        /\ \A i \in 1..Len(m_tasks) : m_tasks'[i] = m_tasks[i]
    <2>1. m_tasks \in Seq(Nat) /\ pushed \in Nat /\ pushed < MaxTasks /\ MaxTasks \in Nat
      BY <1>0, <1>1, ThreadPoolAssumption DEF TpType
    <2> QED
      BY <1>1, <2>1
  <1>5. Taken' = Taken /\ Taken = pushed - Len(m_tasks) /\ Taken \in 0..pushed
    <2>1. Taken = pushed - Len(m_tasks) /\ Taken' = pushed + 1 - (Len(m_tasks) + 1)
      BY <1>1, <1>3, <1>4 DEF Taken
    <2> QED
      BY <1>0, <1>4, <2>1 DEF QueueInv
  <1>6. MutexInv' /\ mutexHolder' \in Actors \cup {"nobody"}
    BY <1>1, MutexMoves, ActorFacts DEF Section
  <1>7. TpType'
    BY <1>0, <1>1, <1>2, <1>4, <1>6 DEF TpType, CallerPcs
  <1>8. OwnerInv'
    BY <1>0, <1>1, <1>2 DEF OwnerInv
  <1>9. WakeInv'
    <2>1. Cardinality(Woken') = Cardinality(Woken)
      BY <1>2, WokenStays
    <2> QED
      BY <1>0, <1>1, <1>2, <1>4, <2>1, WokenFinite DEF WakeInv, TpType
  <1>10. QueueInv'
    <2>1. ASSUME NEW i \in DOMAIN m_tasks' PROVE m_tasks'[i] = pushed' - Len(m_tasks') + i
      <3>1. CASE i \in 1..Len(m_tasks)
        <4>1. m_tasks[i] = pushed - Len(m_tasks) + i
          BY <1>0, <1>3, <1>4, <3>1 DEF QueueInv
        <4> QED
          BY <1>1, <1>4, <3>1, <4>1
      <3>2. CASE i = Len(m_tasks) + 1
        BY <1>1, <1>4, <3>2
      <3> QED
        BY <1>4, <3>1, <3>2
    <2> QED
      BY <1>1, <1>3, <1>4, <1>5, <2>1 DEF QueueInv
  <1>11. HandInv'
    BY <1>0, <1>1, <1>2, <1>5 DEF HandInv
  <1>12. LateInv'
    <2> SUFFICES ASSUME NEW v \in PoolThreads, tpPc[v] \in Quit, NEW t \in 1..(pushed + 1), t > Taken
                 PROVE  t \in late'
      BY <1>1, <1>2, <1>5 DEF LateInv
    <2>1. m_state # "RUNNING"
      BY <1>0 DEF OwnerInv
    <2>2. t = pushed + 1 \/ t \in late
      BY <1>0, <1>4 DEF LateInv
    <2> QED
      BY <1>1, <2>1, <2>2
  <1> QED
    BY <1>6, <1>7, <1>8, <1>9, <1>10, <1>11, <1>12 DEF TpGood

LEMMA CallerInv ==
  ASSUME TpGood, ~stolen', Caller
  PROVE  TpGood' /\ (emptyPop' => emptyPop)
  <1>0. TpType /\ MutexInv /\ "caller" \in Actors /\ poolSem \in Nat /\ "nobody" \notin Actors
    BY ActorFacts DEF TpGood, TpType
  <1>1. CASE EnqueueTest
    <2>1. /\ tpPc["caller"] = "idle" /\ TpGoto("caller", "lock") /\ pushed < MaxTasks
          /\ UNCHANGED <<m_state, m_tasks, poolSem, mutexHolder, inHand, pushed, late, ran, emptyPop>>
      BY <1>1 DEF EnqueueTest
    <2>2. MutexInv' /\ mutexHolder' \in Actors \cup {"nobody"}
      BY <1>0, <2>1, MutexMoves DEF Section
    <2> QED
      BY <1>0, <2>1, <2>2, CallerMoves DEF CallerPcs
  <1>2. CASE Lock("caller", "lock", "section")
    <2>1. /\ tpPc["caller"] = "lock" /\ TpGoto("caller", "section") /\ mutexHolder = "nobody" /\ mutexHolder' = "caller"
          /\ UNCHANGED <<m_state, m_tasks, poolSem, inHand, pushed, late, ran, emptyPop>>
      BY <1>2 DEF Lock
    <2>2. MutexInv' /\ mutexHolder' \in Actors \cup {"nobody"}
      BY <1>0, <2>1, MutexMoves DEF Section
    <2>3. pushed < MaxTasks
      BY <1>0, <2>1 DEF TpType
    <2> QED
      BY <1>0, <2>1, <2>2, <2>3, CallerMoves DEF CallerPcs
  <1>3. CASE Push
    BY <1>3, PushInv DEF Push
  <1>a. ASSUME NEW at, NEW n, <<at, n>> \in {<<"unlock", "notify">>, <<"drop", "idle">>},
               tpPc["caller"] = at, Release("caller"), TpGoto("caller", n),
               UNCHANGED <<m_state, m_tasks, poolSem, inHand, pushed, late, ran, emptyPop>>
        PROVE  TpGood' /\ (emptyPop' => emptyPop)
    <2>1. mutexHolder \in {"caller", "nobody"} /\ mutexHolder' = "nobody"
      BY <1>0, <1>a, Releases
    <2>2. MutexInv' /\ mutexHolder' \in Actors \cup {"nobody"}
      BY <1>0, <1>a, <2>1, MutexMoves DEF Section
    <2> QED
      BY <1>0, <1>a, <2>2, CallerMoves DEF CallerPcs
  <1>4. CASE Unlock("caller", "unlock", "notify") \/ DropLock("caller", "drop", "idle")
    BY <1>4, <1>a DEF Unlock, DropLock
  <1>5. CASE EnqueueNotify
    <2>1. /\ tpPc["caller"] = "notify" /\ TpGoto("caller", "drop") /\ poolSem' = poolSem + 1
          /\ UNCHANGED <<m_state, m_tasks, mutexHolder, inHand, pushed, late, ran, emptyPop>>
      BY <1>5 DEF EnqueueNotify
    <2>2. MutexInv' /\ mutexHolder' \in Actors \cup {"nobody"}
      BY <1>0, <2>1, MutexMoves DEF Section
    <2> QED
      BY <1>0, <2>1, <2>2, CallerMoves DEF CallerPcs
  <1> QED
    BY <1>1, <1>2, <1>3, <1>4, <1>5 DEF Caller

(* init() and the destructor leave the queue alone.                         *)
LEMMA OwnerMoves ==
  ASSUME TpGood, NEW n \in OwnerPcs, TpGoto("owner", n),
         MutexInv' /\ mutexHolder' \in Actors \cup {"nobody"},
         UNCHANGED <<m_tasks, inHand, pushed, ran, late>>, poolSem' \in Nat,
         n \in {"join", "endDrop", "over"} \/ (poolSem' = poolSem /\ tpPc["owner"] \notin {"join", "endDrop", "over"}),
         OwnerInv'
  PROVE  TpGood'
  <1>1. /\ DOMAIN tpPc' = Actors /\ tpPc'["owner"] = n /\ \A v \in PoolThreads : tpPc'[v] = tpPc[v]
        /\ tpPc'["caller"] = tpPc["caller"]
    BY Goto, ActorFacts
  <1>2. TpType'
    BY <1>1 DEF TpGood, TpType
  <1>4. WakeInv'
    <2>1. WakeInv
      BY DEF TpGood
    <2>2. Cardinality(Woken') = Cardinality(Woken)
      BY <1>1, WokenStays
    <2> QED
      BY <1>1, <2>1, <2>2 DEF WakeInv
  <1>5. QueueInv' /\ HandInv' /\ LateInv'
    BY <1>1, QueueStays
  <1> QED
    BY <1>2, <1>4, <1>5 DEF TpGood

LEMMA OwnerStepInv ==
  ASSUME TpGood, ~stolen', Owner
  PROVE  TpGood' /\ (emptyPop' => emptyPop)
  <1>0. TpType /\ MutexInv /\ OwnerInv /\ "owner" \in Actors /\ poolSem \in Nat /\ "nobody" \notin Actors
    BY ActorFacts DEF TpGood, TpType
  <1>1. ASSUME NEW at, NEW n, <<at, n>> \in {<<"initLock", "initSet">>, <<"ready", "stopSet">>},
               Lock("owner", at, n)
        PROVE  TpGood' /\ (emptyPop' => emptyPop)
    <2>1. /\ tpPc["owner"] = at /\ TpGoto("owner", n) /\ mutexHolder = "nobody" /\ mutexHolder' = "owner"
          /\ UNCHANGED <<m_state, m_tasks, poolSem, inHand, pushed, late, ran, emptyPop>>
      BY <1>1 DEF Lock
    <2>2. MutexInv' /\ mutexHolder' \in Actors \cup {"nobody"}
      BY <1>0, <1>1, <2>1, MutexMoves DEF Section
    <2>3. OwnerInv'
      BY <1>0, <1>1, <2>1, Goto, ActorFacts DEF OwnerInv, Early, Quit
    <2> QED
      BY <1>0, <1>1, <2>1, <2>2, <2>3, OwnerMoves DEF OwnerPcs, Early
  <1>2. ASSUME NEW at, NEW st, NEW n,
               <<at, st, n>> \in {<<"initSet", "RUNNING", "initUnlock">>, <<"stopSet", "STOPPING", "stopUnlock">>},
               SetState(at, st, n)
        PROVE  TpGood' /\ (emptyPop' => emptyPop)
    <2>1. /\ tpPc["owner"] = at /\ TpGoto("owner", n) /\ m_state' = st
          /\ UNCHANGED <<m_tasks, poolSem, mutexHolder, inHand, pushed, late, ran, emptyPop>>
      BY <1>2 DEF SetState
    <2>2. MutexInv' /\ mutexHolder' \in Actors \cup {"nobody"}
      BY <1>0, <1>2, <2>1, MutexMoves DEF Section
    <2>3. OwnerInv'
      BY <1>0, <1>2, <2>1, Goto, ActorFacts DEF OwnerInv, Early, Quit
    <2> QED
      BY <1>0, <1>2, <2>1, <2>2, <2>3, OwnerMoves DEF OwnerPcs, Early
  <1>3. ASSUME NEW at, NEW n,
               <<at, n>> \in {<<"initUnlock", "create">>, <<"initDrop", "ready">>,
                              <<"stopUnlock", "notifyAll">>, <<"endDrop", "over">>},
               tpPc["owner"] = at, Release("owner"), TpGoto("owner", n),
               UNCHANGED <<m_state, m_tasks, poolSem, inHand, pushed, late, ran, emptyPop>>
        PROVE  TpGood' /\ (emptyPop' => emptyPop)
    <2>1. mutexHolder \in {"owner", "nobody"} /\ mutexHolder' = "nobody"
      BY <1>0, <1>3, Releases
    <2>2. MutexInv' /\ mutexHolder' \in Actors \cup {"nobody"}
      BY <1>0, <1>3, <2>1, MutexMoves DEF Section
    <2>3. OwnerInv'
      BY <1>0, <1>3, Goto, ActorFacts DEF OwnerInv, Early, Quit
    <2> QED
      BY <1>0, <1>3, <2>2, <2>3, OwnerMoves DEF OwnerPcs, Early
  <1>4. CASE CreateThreads
    <2>1. /\ tpPc["owner"] = "create" /\ DOMAIN tpPc' = Actors /\ tpPc'["owner"] = "initDrop"
          /\ tpPc'["caller"] = tpPc["caller"]
          /\ \A v \in PoolThreads : tpPc'[v] = "wait" /\ tpPc[v] = "none"
          /\ UNCHANGED <<m_state, m_tasks, poolSem, mutexHolder, inHand, pushed, late, ran, emptyPop>>
      BY <1>0, <1>4, ActorFacts DEF CreateThreads, OwnerInv, Early
    <2>2. MutexInv'
      BY <1>0, <2>1, ActorFacts DEF MutexInv, Section
    <2>3. TpType'
      BY <1>0, <2>1 DEF TpType, WorkerPcs, OwnerPcs
    <2>4. OwnerInv'
      BY <1>0, <2>1 DEF OwnerInv, Early, Quit
    <2>5. Cardinality(Woken') = Cardinality(Woken)
      BY <2>1, WokenStays
    <2>6. WakeInv'
      BY <2>1, <2>5 DEF TpGood, WakeInv
    <2>7. QueueInv' /\ HandInv' /\ LateInv'
      BY <2>1, QueueStays DEF Holds, Quit
    <2> QED
      BY <2>1, <2>2, <2>3, <2>4, <2>6, <2>7 DEF TpGood
  <1>5. CASE NotifyAll
    <2>1. /\ tpPc["owner"] = "notifyAll" /\ TpGoto("owner", "join") /\ poolSem' = poolSem + Cardinality(PoolThreads)
          /\ UNCHANGED <<m_state, m_tasks, mutexHolder, inHand, pushed, late, ran, emptyPop>>
      BY <1>5 DEF NotifyAll
    <2>2. MutexInv' /\ mutexHolder' \in Actors \cup {"nobody"}
      BY <1>0, <2>1, MutexMoves DEF Section
    <2>3. OwnerInv'
      BY <1>0, <2>1, Goto, ActorFacts DEF OwnerInv, Early, Quit
    <2>4. poolSem' \in Nat
      BY <1>0, <2>1, FS_CardinalityType, ThreadPoolAssumption
    <2> QED
      BY <2>1, <2>2, <2>3, <2>4, OwnerMoves DEF OwnerPcs
  <1>6. CASE Join
    <2>1. /\ tpPc["owner"] = "join" /\ TpGoto("owner", "endDrop") /\ m_state' = "STOP"
          /\ \A w \in PoolThreads : tpPc[w] = "done"
          /\ UNCHANGED <<m_tasks, poolSem, mutexHolder, inHand, pushed, late, ran, emptyPop>>
      BY <1>6 DEF Join, SetState
    <2>2. MutexInv' /\ mutexHolder' \in Actors \cup {"nobody"}
      BY <1>0, <2>1, MutexMoves DEF Section
    <2>3. OwnerInv'
      BY <1>0, <2>1, Goto, ActorFacts DEF OwnerInv, Early, Quit
    <2> QED
      BY <1>0, <2>1, <2>2, <2>3, OwnerMoves DEF OwnerPcs
  <1> QED
    BY <1>1, <1>2, <1>3, <1>4, <1>5, <1>6 DEF Owner, Unlock, DropLock

LEMMA TpInitInv == TpInit => TpInv
  <1> SUFFICES ASSUME TpInit PROVE TpGood /\ ~emptyPop
    BY DEF TpInv
  <1>1. /\ DOMAIN tpPc = Actors /\ tpPc["owner"] = "initLock" /\ tpPc["caller"] = "idle"
        /\ \A w \in PoolThreads : tpPc[w] = "none"
    BY ActorFacts DEF TpInit
  <1>2. ~Popping /\ Taken = 0
    BY <1>1 DEF Popping, Taken, TpInit
  <1>3. TpType
    BY <1>1, ThreadPoolAssumption DEF TpInit, TpType, WorkerPcs, CallerPcs, OwnerPcs, Early
  <1>4. MutexInv
    BY <1>1, ActorFacts DEF TpInit, MutexInv, Section
  <1>5. OwnerInv
    BY <1>1 DEF TpInit, OwnerInv, Early, Quit
  <1>6. WakeInv
    <2>1. Woken = {}
      BY <1>1 DEF Woken
    <2> QED
      BY <1>1, <2>1, FS_EmptySet DEF TpInit, WakeInv
  <1>7. QueueInv /\ HandInv /\ LateInv
    BY <1>1, <1>2, ThreadPoolAssumption DEF TpInit, QueueInv, HandInv, LateInv, Holds, Quit
  <1> QED
    BY <1>3, <1>4, <1>5, <1>6, <1>7 DEF TpGood, TpInit

LEMMA TpStepInv == TpInv /\ [TpNext]_tpvars => TpInv'
  <1> SUFFICES ASSUME TpInv, [TpNext]_tpvars, ~stolen' PROVE TpGood' /\ ~emptyPop'
    BY DEF TpInv
  <1>1. CASE UNCHANGED tpvars
    BY <1>1 DEF tpvars, TpInv, TpGood, TpType, MutexInv, OwnerInv, WakeInv, QueueInv, HandInv, LateInv,
                Woken, Popping, Taken
  <1>2. CASE TpNext
    <2>1. ~stolen
      BY <1>2, Zenon DEF TpNext, Worker, Caller, Owner, WaitTask, Lock, TakeFront, PopFront, Unlock, RunTask,
         DropLock, Release, EnqueueTest, Push, EnqueueNotify, SetState, CreateThreads, NotifyAll, Join
    <2>2. TpGood /\ ~emptyPop
      BY <2>1 DEF TpInv
    <2> QED
      BY <1>2, <2>2, WorkerInv, CallerInv, OwnerStepInv DEF TpNext
  <1> QED
    BY <1>1, <1>2

(* While no scoped lock's destructor has set free the mutex of another      *)
(* thread, a pool that has threads runs every task once and none twice, but *)
(* those whose enqueue overlapped the destructor.                           *)
THEOREM TasksRunOnce == PoolThreads # {} /\ TpSpec => []TasksOnce
  <1> SUFFICES ASSUME PoolThreads # {} PROVE TpSpec => []TasksOnce
    OBVIOUS
  <1>1. ASSUME TpInv PROVE TasksOnce
    <2> SUFFICES ASSUME ~stolen PROVE TasksOnce
      BY DEF TasksOnce
    <2>0. TpType /\ MutexInv /\ OwnerInv /\ QueueInv /\ HandInv /\ LateInv /\ ~emptyPop
      BY <1>1 DEF TpInv, TpGood
    <2>1. Cardinality({a \in Actors : tpPc[a] \in Section}) <= 1
      <3>1. {a \in Actors : tpPc[a] \in Section} \in SUBSET {mutexHolder}
        BY <2>0 DEF MutexInv
      <3>2. IsFiniteSet({mutexHolder}) /\ Cardinality({mutexHolder}) = 1
        BY FS_Singleton
      <3> QED
        BY <3>1, <3>2, FS_Subset
    <2>2. ran[0] = 0 /\ \A t \in 1..MaxTasks : ran[t] <= 1
      BY <2>0, ThreadPoolAssumption DEF HandInv, TpType
    <2>3. ASSUME tpPc["owner"] = "over", NEW t \in 1..pushed PROVE ran[t] = 1 \/ t \in late
      <3>1. \A w \in PoolThreads : tpPc[w] = "done" /\ inHand[w] = 0
        BY <2>0, <2>3 DEF OwnerInv, HandInv, Holds
      <3>2. CASE t \in 1..Taken
        BY <2>0, <3>1, <3>2 DEF HandInv
      <3>3. CASE t > Taken
        BY <1>1, <2>0, <3>1, <3>3 DEF LateInv, Quit
      <3>4. Taken \in 0..pushed /\ pushed \in Nat
        BY <2>0, ThreadPoolAssumption DEF QueueInv, TpType
      <3> QED
        BY <3>2, <3>3, <3>4
    <2> QED
      BY <2>0, <2>1, <2>2, <2>3 DEF TasksOnce, Section
  <1> QED
    BY <1>1, TpInitInv, TpStepInv, PTL DEF TpSpec

=============================================================================
