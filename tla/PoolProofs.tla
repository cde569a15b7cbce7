----------------------------- MODULE PoolProofs -----------------------------
(***************************************************************************)
(* Proofs about HttpPool and MySQLPool, for any number of callers and      *)
(* connections.                                                            *)
(***************************************************************************)
EXTENDS HttpPool, MySQLPool, FiniteSetTheorems, TLAPS

-----------------------------------------------------------------------------
(* HttpConnectionPool *)

Pcs == {"idle", "front", "pop", "delete", "connect", "drop", "send", "recv", "release", "return", "push"}

HpType ==
  /\ m_conns \in Seq(Conns) /\ m_total \in Int /\ connected \subseteq Conns
  /\ m_request \in [Conns -> Nat] /\ replies \in [Conns -> Seq(Callers \cup {Leftover})]
  /\ cpc \in [Callers -> Pcs] /\ using \in [Callers -> Conns \cup {NoConn}]
  /\ invalid \in [Callers -> SUBSET Conns] /\ DOMAIN result = Callers /\ DOMAIN hand = Callers

(* A caller has a connection while it talks on it, and connections to       *)
(* delete only before that.                                                 *)
StageInv ==
  \A c \in Callers :
    /\ IsFiniteSet(invalid[c]) /\ (cpc[c] \notin {"front", "pop", "delete"} => invalid[c] = {})
    /\ cpc[c] \in {"idle", "pop", "connect"} => using[c] = NoConn
    /\ cpc[c] \in {"send", "recv", "release", "return", "push"} => using[c] \in Conns

(* Who is in the list holds the lock, unless it was set free under it; and  *)
(* what it read there is still the front.                                   *)
LockInv == \A c \in Callers : InConns(c) => hpMutex = c \/ hpStolen
HandInv == \A c \in Callers : cpc[c] = "pop" => m_conns # <<>> /\ hand[c] = m_conns[1]

(* A connection is in one place.                                            *)
OnePlace ==
  /\ \A i, k \in DOMAIN m_conns : m_conns[i] = m_conns[k] => i = k
  /\ \A c, d \in Callers : using[c] = using[d] /\ using[c] # NoConn => c = d
  /\ \A c \in Callers : using[c] \notin Pooled
  /\ \A c, d \in Callers : using[c] \notin invalid[d]
  /\ \A c \in Callers : invalid[c] \cap Pooled = {}
  /\ \A c, d \in Callers : c # d => invalid[c] \cap invalid[d] = {}

(* No reply is on the way on an open connection, but the one that its user  *)
(* waits for, as long as all replies on it were read to their end.          *)
QuietInv ==
  /\ \A n \in Pooled \cap connected : n \in spoilt \/ replies[n] = <<>>
  /\ \A c \in Callers : cpc[c] # "recv" /\ using[c] \in connected => using[c] \in spoilt \/ replies[using[c]] = <<>>
  /\ \A c \in Callers : cpc[c] = "recv" => using[c] \in connected /\ (using[c] \in spoilt \/ replies[using[c]] = <<c>>)

HpInv ==
  /\ HpType /\ StageInv /\ LockInv /\ HandInv /\ OnePlace /\ QuietInv
  /\ IsFiniteSet(Existing) /\ m_total = Cardinality(Existing) /\ ReplyIsOwn

LEMMA HpInitInv == HpInit => HpInv
  <1> SUFFICES ASSUME HpInit PROVE HpInv
    OBVIOUS
  <1>1. Pooled = {} /\ InUse = {} /\ Existing = {}
    BY DEF HpInit, Pooled, InUse, Existing
  <1>2. HpType
    BY DEF HpInit, HpType, Pcs
  <1>3. StageInv
    BY FS_EmptySet DEF HpInit, StageInv
  <1>4. OnePlace
    BY <1>1 DEF HpInit, OnePlace
  <1>5. QuietInv
    BY <1>1 DEF HpInit, QuietInv
  <1>6. IsFiniteSet(Existing) /\ m_total = Cardinality(Existing) /\ ReplyIsOwn
    BY <1>1, FS_EmptySet, HttpPoolAssumption DEF HpInit, ReplyIsOwn
  <1>7. LockInv /\ HandInv
    BY DEF HpInit, LockInv, HandInv, InConns
  <1> QED
    BY <1>2, <1>3, <1>4, <1>5, <1>6, <1>7 DEF HpInv

LEMMA HpFacts ==
  ASSUME HpInv
  PROVE  /\ HpType /\ StageInv /\ OnePlace /\ QuietInv /\ NoConn \notin Conns
         /\ Pooled \subseteq Conns /\ Existing \subseteq Conns
         /\ \A c \in Callers : invalid[c] \subseteq Existing /\ (using[c] # NoConn => using[c] \in Existing)
         /\ Pooled \subseteq Existing /\ InUse \subseteq Existing
  <1>1. Pooled \subseteq Conns
    BY DEF HpInv, HpType, Pooled
  <1>2. InUse \subseteq Conns /\ \A c \in Callers : using[c] # NoConn => using[c] \in InUse
    BY DEF HpInv, HpType, InUse
  <1>3. UNION {invalid[c] : c \in Callers} \subseteq Conns
    BY DEF HpInv, HpType
  <1>4. \A c \in Callers : invalid[c] \subseteq UNION {invalid[d] : d \in Callers}
    OBVIOUS
  <1> QED
    BY <1>1, <1>2, <1>3, <1>4, HttpPoolAssumption DEF HpInv, Existing, NoConn

(* What exists depends on where the connections are.                        *)
LEMMA ExistingStays ==
  ASSUME HpInv, UNCHANGED <<m_conns, using, invalid, m_total>>
  PROVE  IsFiniteSet(Existing') /\ m_total' = Cardinality(Existing') /\ Pooled' = Pooled
  <1>1. Existing' = Existing /\ Pooled' = Pooled
    BY DEF Existing, Pooled, InUse
  <1> QED
    BY <1>1 DEF HpInv

(* Where a connection is stays as it was.                                   *)
LEMMA PlacesStay ==
  ASSUME HpInv, UNCHANGED <<m_conns, using, invalid>>
  PROVE  OnePlace'
  BY DEF HpInv, OnePlace, Pooled

(* Nobody enters the list, and the lock and the list are left alone.        *)
LEMMA ListLeftAlone ==
  ASSUME HpInv, UNCHANGED <<m_conns, hplock, hand>>,
         \A d \in Callers : (InConns(d)' => InConns(d)) /\ (cpc'[d] = "pop" => cpc[d] = "pop")
  PROVE  LockInv' /\ HandInv'
  BY DEF HpInv, LockInv, HandInv, hplock

(* The list is the caller's alone.                                          *)
LEMMA ListIsOwn ==
  ASSUME ~Overlap, NEW c \in Callers, InConns(c)
  PROVE  \A d \in Callers : d # c => ~InConns(d) /\ cpc[d] # "pop"
  BY DEF Overlap, InConns

(* To free the lock leaves it with who holds it, or it is stolen.           *)
LEMMA FreeKeepsLock ==
  ASSUME HpInv, NEW c \in Callers, FreeConns(c), ~InConns(c)',
         \A d \in Callers : d # c => cpc'[d] = cpc[d]
  PROVE  LockInv'
  BY HttpPoolAssumption DEF HpInv, LockInv, FreeConns, InConns, Nobody

LEMMA LockConnsInv ==
  ASSUME HpInv, NEW c \in Callers, LockConns(c, "idle", "front") \/ LockConns(c, "return", "push")
  PROVE  HpInv'
  <1>0. HpType /\ StageInv /\ OnePlace /\ QuietInv /\ NoConn \notin Conns
    BY HpFacts
  <1>1. /\ hpMutex' = c
        /\ \/ cpc[c] = "idle" /\ cpc' = [cpc EXCEPT ![c] = "front"]
           \/ cpc[c] = "return" /\ cpc' = [cpc EXCEPT ![c] = "push"]
        /\ hpMutex = Nobody
        /\ UNCHANGED <<m_conns, m_total, m_request, connected, replies, spoilt, hpStolen, hand, using, invalid, result>>
    BY DEF LockConns, HpGoto
  <1>2. /\ \/ cpc[c] = "idle" /\ cpc'[c] = "front"
           \/ cpc[c] = "return" /\ cpc'[c] = "push"
        /\ \A d \in Callers : d # c => cpc'[d] = cpc[d]
    BY <1>0, <1>1 DEF HpType
  <1>3. HpType'
    BY <1>0, <1>1 DEF HpType, Pcs
  <1>4. StageInv'
    BY <1>0, <1>1, <1>2 DEF StageInv
  <1>5. QuietInv'
    BY <1>0, <1>1, <1>2, ExistingStays DEF QuietInv
  <1>6. LockInv' /\ HandInv'
    BY <1>1, <1>2, HttpPoolAssumption DEF HpInv, LockInv, HandInv, InConns, Nobody
  <1>7. ReplyIsOwn'
    BY <1>1, <1>2 DEF HpInv, ReplyIsOwn
  <1> QED
    BY <1>1, <1>3, <1>4, <1>5, <1>6, <1>7, ExistingStays, PlacesStay DEF HpInv

LEMMA TakeConnInv ==
  ASSUME HpInv, NEW c \in Callers, TakeConn(c)
  PROVE  HpInv'
  <1>0. HpType /\ StageInv /\ OnePlace /\ QuietInv /\ NoConn \notin Conns
    BY HpFacts
  <1>1. /\ cpc[c] = "front" /\ cpc' = [cpc EXCEPT ![c] = "pop"] /\ using[c] = NoConn /\ m_conns # <<>>
        /\ hand' = [hand EXCEPT ![c] = Head(m_conns)]
        /\ UNCHANGED <<m_conns, m_total, m_request, connected, replies, spoilt, hpMutex, hpStolen, using, invalid, result>>
    BY DEF TakeConn, HpGoto, hplock
  <1>2. cpc'[c] = "pop" /\ \A d \in Callers : d # c => cpc'[d] = cpc[d]
    BY <1>0, <1>1 DEF HpType
  <1>3. HpType'
    BY <1>0, <1>1 DEF HpType, Pcs
  <1>4. StageInv'
    BY <1>0, <1>1, <1>2 DEF StageInv
  <1>5. QuietInv'
    BY <1>0, <1>1, <1>2, ExistingStays DEF QuietInv
  <1>6. LockInv'
    BY <1>1, <1>2 DEF HpInv, LockInv, InConns
  <1>7. HandInv'
    <2>1. Head(m_conns) = m_conns[1] /\ hand'[c] = m_conns[1] /\ \A d \in Callers : d # c => hand'[d] = hand[d]
      BY <1>0, <1>1 DEF HpType
    <2> QED
      BY <1>1, <1>2, <2>1 DEF HpInv, HandInv
  <1>8. ReplyIsOwn'
    BY <1>1, <1>2 DEF HpInv, ReplyIsOwn
  <1> QED
    BY <1>1, <1>3, <1>4, <1>5, <1>6, <1>7, <1>8, ExistingStays, PlacesStay DEF HpInv

LEMMA PopConnInv ==
  ASSUME HpInv, ~Overlap, NEW c \in Callers, PopConn(c)
  PROVE  HpInv'
  <1>0. HpType /\ StageInv /\ OnePlace /\ QuietInv /\ NoConn \notin Conns
    BY HpFacts
  <1>1. /\ cpc[c] = "pop" /\ cpc' = [cpc EXCEPT ![c] = "front"] /\ m_conns' = SubSeq(m_conns, 2, Len(m_conns))
        /\ hand' = [hand EXCEPT ![c] = NoConn]
        /\ UNCHANGED <<m_total, m_request, connected, replies, spoilt, hpMutex, hpStolen, result>>
    BY DEF PopConn, HpGoto, hplock
  <1>2. using[c] = NoConn /\ m_conns # <<>> /\ hand[c] = m_conns[1]
    BY <1>0, <1>1 DEF HpInv, HandInv, StageInv
  <1>3. Len(m_conns) \in Nat /\ Len(m_conns) > 0
    BY <1>0, <1>2 DEF HpType
  <1> SUFFICES ASSUME NEW L \in Nat, L = Len(m_conns), L > 0, NEW h, h = hand[c] PROVE HpInv'
    BY <1>3, Zenon
  <1>4. /\ m_conns \in Seq(Conns) /\ DOMAIN m_conns = 1..L /\ h \in Conns
        /\ m_conns' \in Seq(Conns) /\ DOMAIN m_conns' = 1..(L - 1)
        /\ \A k \in 1..(L - 1) : k + 1 \in 1..L /\ m_conns'[k] = m_conns[k + 1]
    BY <1>0, <1>1, <1>2 DEF HpType
  <1>5. Pooled' = Pooled \ {h} /\ h \in Pooled
    <2>1. \A j, k \in 1..L : m_conns[j] = m_conns[k] => j = k
      BY <1>0, <1>4 DEF OnePlace
    <2>2. \A n \in Pooled' : \E k \in 1..(L - 1) : n = m_conns[k + 1] /\ k + 1 \in 1..L
      BY <1>4 DEF Pooled
    <2>3. Pooled' \subseteq Pooled \ {h}
      BY <1>2, <1>4, <2>1, <2>2 DEF Pooled
    <2>4. ASSUME NEW n \in Pooled, n # h PROVE n \in Pooled'
      <3>1. PICK k \in 1..L : n = m_conns[k]
        BY <1>4 DEF Pooled
      <3>2. k - 1 \in 1..(L - 1) /\ (k - 1) + 1 = k
        BY <1>2, <2>4, <3>1
      <3>3. m_conns'[k - 1] = m_conns[k]
        BY <1>4, <3>2
      <3> QED
        BY <1>4, <3>1, <3>2, <3>3 DEF Pooled
    <2>5. h \in Pooled
      BY <1>2, <1>4 DEF Pooled
    <2> QED
      BY <2>3, <2>4, <2>5
  <1>6. cpc'[c] = "front" /\ \A d \in Callers : d # c => cpc'[d] = cpc[d]
    BY <1>0, <1>1 DEF HpType
  <1>7. LockInv'
    BY <1>1, <1>6 DEF HpInv, LockInv, InConns
  <1>8. HandInv'
    BY <1>1, <1>6, ListIsOwn DEF HandInv, InConns
  <1>9. (\A d \in Callers : using[d] # h /\ h \notin invalid[d]) /\ \A d \in Callers : NoConn \notin invalid[d]
    BY <1>0, <1>5 DEF OnePlace, HpType
  <1>10. \A j, k \in DOMAIN m_conns' : m_conns'[j] = m_conns'[k] => j = k
    <2> SUFFICES ASSUME NEW j \in 1..(L - 1), NEW k \in 1..(L - 1), m_conns[j + 1] = m_conns[k + 1] PROVE j = k
      BY <1>4
    <2>1. j + 1 \in DOMAIN m_conns /\ k + 1 \in DOMAIN m_conns
      BY <1>4
    <2>2. j + 1 = k + 1
      BY <1>0, <2>1 DEF OnePlace
    <2> QED
      BY <2>2
  <1>11. \A n : n \in Existing <=> n \in Pooled \/ (\E d \in Callers : n = using[d] /\ n # NoConn)
                                    \/ (\E d \in Callers : n \in invalid[d])
    BY DEF Existing, InUse
  <1>12. \A n : n \in Existing' <=> n \in Pooled' \/ (\E d \in Callers : n = using'[d] /\ n # NoConn)
                                     \/ (\E d \in Callers : n \in invalid'[d])
    BY DEF Existing, InUse
  <1>13. CASE Usable(h) /\ using' = [using EXCEPT ![c] = h] /\ UNCHANGED invalid
    <2>1. using'[c] = h /\ (\A d \in Callers : d # c => using'[d] = using[d]) /\ h \in connected
      BY <1>0, <1>13 DEF HpType, Usable
    <2>2. HpType'
      BY <1>0, <1>1, <1>4, <1>13 DEF HpType, Pcs
    <2>3. StageInv'
      BY <1>0, <1>1, <1>6, <1>13, <2>1 DEF StageInv
    <2>4. OnePlace'
      BY <1>0, <1>5, <1>9, <1>10, <1>13, <2>1 DEF OnePlace
    <2>5. QuietInv'
      BY SMTT(60), <1>0, <1>1, <1>5, <1>6, <2>1 DEF QuietInv
    <2>6. Existing' = Existing
      <3>1. ASSUME NEW n \in Existing PROVE n \in Existing'
        BY <1>0, <1>2, <1>4, <1>5, <1>11, <1>12, <1>13, <2>1
      <3>2. ASSUME NEW n \in Existing' PROVE n \in Existing
        BY <1>5, <1>11, <1>12, <1>13, <2>1
      <3> QED
        BY <3>1, <3>2
    <2>7. ReplyIsOwn'
      BY <1>1, <1>6, <2>1 DEF HpInv, ReplyIsOwn
    <2> QED
      BY <1>1, <1>7, <1>8, <2>2, <2>3, <2>4, <2>5, <2>6, <2>7 DEF HpInv
  <1>14. CASE invalid' = [invalid EXCEPT ![c] = @ \cup {h}] /\ UNCHANGED using
    <2>1. invalid'[c] = invalid[c] \cup {h} /\ \A d \in Callers : d # c => invalid'[d] = invalid[d]
      BY <1>0, <1>14 DEF HpType
    <2>2. HpType'
      BY <1>0, <1>1, <1>4, <1>14 DEF HpType, Pcs
    <2>3. StageInv'
      <3>1. IsFiniteSet(invalid[c] \cup {h})
        BY <1>0, FS_AddElement DEF StageInv
      <3> QED
        BY <1>0, <1>1, <1>2, <1>6, <1>14, <2>1, <3>1 DEF StageInv
    <2>4. OnePlace'
      BY <1>0, <1>5, <1>9, <1>10, <1>14, <2>1 DEF OnePlace
    <2>5. QuietInv'
      BY <1>0, <1>1, <1>5, <1>6, <1>14 DEF QuietInv
    <2>6. Existing' = Existing
      <3>1. ASSUME NEW n \in Existing PROVE n \in Existing'
        BY <1>5, <1>11, <1>12, <1>14, <2>1
      <3>2. ASSUME NEW n \in Existing' PROVE n \in Existing
        BY <1>5, <1>11, <1>12, <1>14, <2>1
      <3> QED
        BY <3>1, <3>2
    <2>7. ReplyIsOwn'
      BY <1>1, <1>6, <1>14 DEF HpInv, ReplyIsOwn
    <2> QED
      BY <1>1, <1>7, <1>8, <2>2, <2>3, <2>4, <2>5, <2>6, <2>7 DEF HpInv
  <1> QED
    BY <1>13, <1>14 DEF PopConn

(* lock.unlock() and the destructor of the ScopedLock                       *)
LEMMA FreeConnsInv ==
  ASSUME HpInv, NEW c \in Callers, UnlockConns(c) \/ DropConnsLock(c)
  PROVE  HpInv'
  <1>0. HpType /\ StageInv /\ OnePlace /\ QuietInv /\ NoConn \notin Conns
    BY HpFacts
  <1>1. /\ FreeConns(c)
        /\ \/ cpc[c] = "front" /\ cpc' = [cpc EXCEPT ![c] = "delete"]
           \/ cpc[c] = "drop" /\ cpc' = [cpc EXCEPT ![c] = IF using[c] = NoConn THEN "idle" ELSE "send"]
        /\ UNCHANGED <<m_conns, m_total, m_request, connected, replies, spoilt, hand, using, invalid, result>>
    BY DEF UnlockConns, DropConnsLock, HpGoto
  <1>2. /\ \/ cpc[c] = "front" /\ cpc'[c] = "delete"
           \/ cpc[c] = "drop" /\ cpc'[c] = (IF using[c] = NoConn THEN "idle" ELSE "send")
        /\ \A d \in Callers : d # c => cpc'[d] = cpc[d]
    BY <1>0, <1>1 DEF HpType
  <1>3. HpType'
    BY <1>0, <1>1 DEF HpType, Pcs
  <1>4. StageInv'
    <2>1. using[c] = NoConn \/ using[c] \in Conns
      BY <1>0 DEF HpType
    <2> QED
      BY <1>0, <1>1, <1>2, <2>1 DEF StageInv
  <1>5. QuietInv'
    <2>1. cpc'[c] # "recv" /\ cpc[c] # "recv"
      BY <1>2
    <2> QED
      BY <1>0, <1>1, <1>2, <2>1, ExistingStays DEF QuietInv
  <1>6. LockInv'
    <2>1. ~InConns(c)'
      BY <1>2 DEF InConns
    <2> QED
      BY <1>1, <1>2, <2>1, FreeKeepsLock
  <1>7. HandInv'
    BY <1>1, <1>2 DEF HpInv, HandInv
  <1>8. ReplyIsOwn'
    BY <1>1, <1>2 DEF HpInv, ReplyIsOwn
  <1> QED
    BY <1>1, <1>3, <1>4, <1>5, <1>6, <1>7, <1>8, ExistingStays, PlacesStay DEF HpInv

LEMMA DeleteInvalidInv ==
  ASSUME HpInv, NEW c \in Callers, DeleteInvalid(c)
  PROVE  HpInv'
  <1>0. HpType /\ StageInv /\ OnePlace /\ QuietInv /\ NoConn \notin Conns
    BY HpFacts
  <1>1. /\ cpc[c] = "delete" /\ m_total' = m_total - Cardinality(invalid[c])
        /\ invalid' = [invalid EXCEPT ![c] = {}] /\ connected' = connected \ invalid[c]
        /\ cpc' = [cpc EXCEPT ![c] = IF using[c] = NoConn THEN "connect" ELSE "drop"]
        /\ UNCHANGED <<m_conns, m_request, replies, spoilt, hplock, hand, using, result>>
    BY DEF DeleteInvalid, HpGoto
  <1>2. /\ invalid'[c] = {} /\ \A d \in Callers : d # c => invalid'[d] = invalid[d]
        /\ cpc'[c] = (IF using[c] = NoConn THEN "connect" ELSE "drop")
        /\ \A d \in Callers : d # c => cpc'[d] = cpc[d]
        /\ Pooled' = Pooled
    BY <1>0, <1>1 DEF HpType, Pooled
  <1>3. Existing' = Existing \ invalid[c]
    <2>1. \A n : n \in Existing <=> n \in Pooled \/ (\E d \in Callers : n = using[d] /\ n # NoConn)
                                      \/ (\E d \in Callers : n \in invalid[d])
      BY DEF Existing, InUse
    <2>2. \A n : n \in Existing' <=> n \in Pooled' \/ (\E d \in Callers : n = using'[d] /\ n # NoConn)
                                       \/ (\E d \in Callers : n \in invalid'[d])
      BY DEF Existing, InUse
    <2>3. ASSUME NEW n \in Existing, n \notin invalid[c] PROVE n \in Existing'
      BY <1>1, <1>2, <2>1, <2>2, <2>3
    <2>4. ASSUME NEW n \in Existing' PROVE n \in Existing /\ n \notin invalid[c]
      BY <1>0, <1>1, <1>2, <2>1, <2>2 DEF OnePlace
    <2> QED
      BY <2>3, <2>4
  <1>4. IsFiniteSet(Existing') /\ m_total' = Cardinality(Existing')
    <2>1. Existing \cap invalid[c] = invalid[c] /\ IsFiniteSet(Existing) /\ m_total = Cardinality(Existing)
      BY HpFacts DEF HpInv
    <2>2. IsFiniteSet(Existing \ invalid[c])
          /\ Cardinality(Existing \ invalid[c]) = Cardinality(Existing) - Cardinality(Existing \cap invalid[c])
      BY <2>1, FS_Difference
    <2> QED
      BY <1>1, <1>3, <2>1, <2>2
  <1>5. HpType'
    <2>1. m_total' \in Int
      <3>1. Cardinality(invalid[c]) \in Nat
        BY <1>0, FS_CardinalityType DEF StageInv
      <3> QED
        BY <1>0, <1>1, <3>1 DEF HpType
    <2> QED
      BY <1>0, <1>1, <2>1 DEF HpType, Pcs
  <1>6. StageInv'
    BY <1>0, <1>1, <1>2, FS_EmptySet DEF StageInv, HpType
  <1>7. OnePlace'
    BY <1>0, <1>1, <1>2 DEF OnePlace
  <1>8. QuietInv'
    BY <1>0, <1>1, <1>2 DEF QuietInv, OnePlace
  <1>9. LockInv' /\ HandInv'
    BY <1>1, <1>2, ListLeftAlone DEF InConns
  <1>10. ReplyIsOwn'
    BY <1>1, <1>2 DEF HpInv, ReplyIsOwn
  <1> QED
    BY <1>1, <1>4, <1>5, <1>6, <1>7, <1>8, <1>9, <1>10 DEF HpInv

LEMMA ConnectInv ==
  ASSUME HpInv, NEW c \in Callers, Connect(c)
  PROVE  HpInv'
  <1>0. HpType /\ StageInv /\ OnePlace /\ QuietInv /\ NoConn \notin Conns
    BY HpFacts
  <1>1. PICK n \in Conns \ Existing :
          /\ using' = [using EXCEPT ![c] = n] /\ m_request' = [m_request EXCEPT ![n] = 0]
          /\ replies' = [replies EXCEPT ![n] = <<>>] /\ connected' = connected \cup {n}
          /\ spoilt' = spoilt \ {n}
    BY DEF Connect
  <1>2. /\ cpc[c] = "connect" /\ m_total' = m_total + 1 /\ cpc' = [cpc EXCEPT ![c] = "drop"] /\ using[c] = NoConn
        /\ UNCHANGED <<m_conns, hplock, hand, invalid, result>> /\ Pooled' = Pooled
    BY <1>0 DEF Connect, HpGoto, StageInv, Pooled
  <1>3. /\ using'[c] = n /\ \A d \in Callers : d # c => using'[d] = using[d]
        /\ replies'[n] = <<>> /\ \A k \in Conns : k # n => replies'[k] = replies[k]
        /\ cpc'[c] = "drop" /\ \A d \in Callers : d # c => cpc'[d] = cpc[d]
    BY <1>0, <1>1, <1>2 DEF HpType
  <1>4. /\ n \notin Pooled /\ \A d \in Callers : using[d] # n /\ n \notin invalid[d]
    BY <1>0, HpFacts
  <1>5. Existing' = Existing \cup {n}
    <2>1. \A m : m \in Existing <=> m \in Pooled \/ (\E d \in Callers : m = using[d] /\ m # NoConn)
                                      \/ (\E d \in Callers : m \in invalid[d])
      BY DEF Existing, InUse
    <2>2. \A m : m \in Existing' <=> m \in Pooled' \/ (\E d \in Callers : m = using'[d] /\ m # NoConn)
                                       \/ (\E d \in Callers : m \in invalid'[d])
      BY DEF Existing, InUse
    <2>3. ASSUME NEW m \in Existing PROVE m \in Existing'
      BY <1>2, <1>3, <2>1, <2>2
    <2>4. n \in Existing'
      BY <1>0, <1>3, <2>2
    <2>5. ASSUME NEW m \in Existing' PROVE m \in Existing \cup {n}
      BY <1>2, <1>3, <2>1, <2>2
    <2> QED
      BY <2>3, <2>4, <2>5
  <1>6. IsFiniteSet(Existing') /\ m_total' = Cardinality(Existing')
    BY <1>2, <1>5, FS_AddElement DEF HpInv
  <1>7. HpType'
    <2>1. <<>> \in Seq(Callers \cup {Leftover})
      OBVIOUS
    <2>2. m_request' \in [Conns -> Nat] /\ replies' \in [Conns -> Seq(Callers \cup {Leftover})] /\ using' \in [Callers -> Conns \cup {NoConn}]
      BY <1>0, <1>1, <2>1 DEF HpType
    <2> QED
      BY <1>0, <1>1, <1>2, <2>2 DEF HpType, Pcs
  <1>8. StageInv'
    BY <1>0, <1>1, <1>2, <1>3 DEF StageInv
  <1>9. OnePlace'
    BY <1>0, <1>2, <1>3, <1>4 DEF OnePlace
  <1>10. QuietInv'
    BY <1>0, <1>1, <1>2, <1>3, <1>4, HpFacts DEF QuietInv, HpType
  <1>11. LockInv' /\ HandInv'
    BY <1>2, <1>3, ListLeftAlone DEF InConns
  <1>12. ReplyIsOwn'
    BY <1>1, <1>2, <1>3, <1>4 DEF HpInv, ReplyIsOwn
  <1> QED
    BY <1>2, <1>6, <1>7, <1>8, <1>9, <1>10, <1>11, <1>12 DEF HpInv

LEMMA ConnectFailsInv ==
  ASSUME HpInv, NEW c \in Callers, ConnectFails(c)
  PROVE  HpInv'
  <1>0. HpType /\ StageInv /\ OnePlace /\ QuietInv /\ NoConn \notin Conns
    BY HpFacts
  <1>1. /\ cpc[c] = "connect" /\ cpc' = [cpc EXCEPT ![c] = "drop"] /\ DOMAIN result' = DOMAIN result
        /\ \A d \in Callers : d # c => result'[d] = result[d]
        /\ UNCHANGED <<m_conns, m_total, m_request, connected, replies, spoilt, hplock, hand, using, invalid>>
    BY <1>0 DEF ConnectFails, HpGoto, HpType
  <1>2. cpc'[c] = "drop" /\ \A d \in Callers : d # c => cpc'[d] = cpc[d]
    BY <1>0, <1>1 DEF HpType
  <1>3. HpType'
    BY <1>0, <1>1 DEF HpType, Pcs
  <1>4. StageInv'
    BY <1>0, <1>1, <1>2 DEF StageInv
  <1>5. QuietInv'
    BY <1>0, <1>1, <1>2, ExistingStays DEF QuietInv
  <1>6. ReplyIsOwn'
    BY <1>1, <1>2 DEF HpInv, ReplyIsOwn
  <1>7. LockInv' /\ HandInv'
    BY <1>1, <1>2, ListLeftAlone DEF InConns
  <1> QED
    BY <1>1, <1>3, <1>4, <1>5, <1>6, <1>7, ExistingStays, PlacesStay DEF HpInv

LEMMA SendRequestInv ==
  ASSUME HpInv, NEW c \in Callers, SendRequest(c)
  PROVE  HpInv'
  <1>0. HpType /\ StageInv /\ OnePlace /\ QuietInv /\ NoConn \notin Conns
    BY HpFacts
  <1>1. /\ cpc[c] = "send" /\ using[c] \in Conns
        /\ UNCHANGED <<m_conns, m_total, m_request, connected, spoilt, hplock, hand, using, invalid>> /\ Pooled' = Pooled
    BY <1>0, ExistingStays DEF SendRequest, StageInv
  <1> SUFFICES ASSUME NEW n \in Conns, n = using[c] PROVE HpInv'
    BY <1>1
  <1>2. CASE /\ n \in connected /\ replies' = [replies EXCEPT ![n] = Append(@, c)]
             /\ cpc' = [cpc EXCEPT ![c] = "recv"] /\ UNCHANGED result
    <2>1. Append(replies[n], c) \in Seq(Callers \cup {Leftover}) /\ (n \in spoilt \/ Append(replies[n], c) = <<c>>)
      <3>1. n \in spoilt \/ replies[n] = <<>>
        BY <1>0, <1>1, <1>2 DEF QuietInv
      <3>2. replies[n] \in Seq(Callers \cup {Leftover}) /\ c \in Callers \cup {Leftover}
        BY <1>0 DEF HpType
      <3>3. Append(replies[n], c) \in Seq(Callers \cup {Leftover})
        BY <3>2
      <3>4. replies[n] = <<>> => Append(replies[n], c) = <<c>>
        OBVIOUS
      <3> QED
        BY <3>1, <3>3, <3>4
    <2>2. /\ replies'[n] = Append(replies[n], c) /\ \A k \in Conns : k # n => replies'[k] = replies[k]
          /\ cpc'[c] = "recv" /\ \A d \in Callers : d # c => cpc'[d] = cpc[d]
      BY <1>0, <1>2 DEF HpType
    <2>3. HpType'
      <3>1. replies' \in [Conns -> Seq(Callers \cup {Leftover})]
        BY <1>0, <1>2, <2>1 DEF HpType
      <3> QED
        BY <1>0, <1>1, <1>2, <3>1 DEF HpType, Pcs
    <2>4. StageInv'
      BY <1>0, <1>1, <2>2 DEF StageInv
    <2>5. QuietInv'
      <3>1. \A d \in Callers : d # c => using[d] # n
        BY <1>0, <1>1 DEF OnePlace
      <3>2. n \notin Pooled
        BY <1>0 DEF OnePlace
      <3>3. \A m \in Pooled' \cap connected' : m \in spoilt' \/ replies'[m] = <<>>
        BY <1>0, <1>1, <2>2, <3>2 DEF QuietInv, HpType
      <3>4. ASSUME NEW d \in Callers, cpc'[d] # "recv", using'[d] \in connected'
            PROVE  using'[d] \in spoilt' \/ replies'[using'[d]] = <<>>
        <4>1. d # c /\ using[d] # n /\ using[d] \in Conns /\ cpc[d] # "recv"
          BY <1>0, <1>1, <2>2, <3>1, <3>4 DEF HpType
        <4> QED
          BY <1>0, <1>1, <2>2, <3>4, <4>1 DEF QuietInv
      <3>5. ASSUME NEW d \in Callers, cpc'[d] = "recv"
            PROVE  using'[d] \in connected' /\ (using'[d] \in spoilt' \/ replies'[using'[d]] = <<d>>)
        <4>1. CASE d = c
          BY <1>1, <1>2, <2>1, <2>2, <4>1
        <4>2. CASE d # c
          <5>1. using[d] # n /\ cpc[d] = "recv" /\ using[d] \in Conns
            BY <1>0, <2>2, <3>1, <3>5, <4>2 DEF StageInv
          <5> QED
            BY <1>0, <1>1, <2>2, <5>1 DEF QuietInv
        <4> QED
          BY <4>1, <4>2
      <3> QED
        BY <3>3, <3>4, <3>5 DEF QuietInv
    <2>6. LockInv' /\ HandInv'
      BY <1>1, <2>2, ListLeftAlone DEF InConns
    <2>7. ReplyIsOwn'
      BY <1>1, <1>2, <2>2 DEF HpInv, ReplyIsOwn
    <2> QED
      BY <1>1, <2>3, <2>4, <2>5, <2>6, <2>7, ExistingStays, PlacesStay DEF HpInv
  <1>3. ASSUME NEW e \in {"SEND_CLOSE_BY_PEER", "SEND_SOCKET_ERROR"}, result' = [result EXCEPT ![c] = e],
               cpc' = [cpc EXCEPT ![c] = "release"], UNCHANGED replies
        PROVE  HpInv'
    <2>1. cpc'[c] = "release" /\ \A d \in Callers : d # c => cpc'[d] = cpc[d]
      BY <1>0, <1>3 DEF HpType
    <2>2. HpType'
      BY <1>0, <1>1, <1>3 DEF HpType, Pcs
    <2>3. StageInv'
      BY <1>0, <1>1, <2>1 DEF StageInv
    <2>4. QuietInv'
      BY <1>0, <1>1, <1>3, <2>1 DEF QuietInv
    <2>5. ReplyIsOwn'
      <3>1. result'[c] = e /\ e \notin Callers /\ \A d \in Callers : d # c => result'[d] = result[d]
        BY <1>0, <1>3, HttpPoolAssumption DEF HpType
      <3> QED
        BY <1>1, <2>1, <3>1 DEF HpInv, ReplyIsOwn
    <2>6. LockInv' /\ HandInv'
      BY <1>1, <2>1, ListLeftAlone DEF InConns
    <2> QED
      BY <1>1, <2>2, <2>3, <2>4, <2>5, <2>6, ExistingStays, PlacesStay DEF HpInv
  <1> QED
    BY <1>2, <1>3 DEF SendRequest, HpGoto

LEMMA RecvInv ==
  ASSUME HpInv, NEW c \in Callers, RecvResponse(c) \/ RecvFails(c)
  PROVE  HpInv'
  <1>0. HpType /\ StageInv /\ OnePlace /\ QuietInv /\ NoConn \notin Conns
    BY HpFacts
  <1>1. /\ cpc[c] = "recv" /\ using[c] \in Conns /\ cpc' = [cpc EXCEPT ![c] = "release"]
        /\ UNCHANGED <<m_conns, m_total, m_request, hplock, hand, using, invalid>> /\ Pooled' = Pooled
    BY <1>0, ExistingStays DEF RecvResponse, RecvFails, HpGoto, StageInv
  <1> SUFFICES ASSUME NEW n \in Conns, n = using[c] PROVE HpInv'
    BY <1>1
  <1>a. n \in spoilt \/ replies[n] = <<c>>
    BY <1>0, <1>1 DEF QuietInv
  <1>2. /\ cpc'[c] = "release" /\ \A d \in Callers : d # c => cpc'[d] = cpc[d]
    BY <1>0, <1>1 DEF HpType
  <1>3. StageInv'
    BY <1>0, <1>1, <1>2 DEF StageInv
  <1>4. (\A d \in Callers : d # c => using[d] # n) /\ n \notin Pooled
    BY <1>0, <1>1 DEF OnePlace
  <1>b. LockInv' /\ HandInv'
    BY <1>1, <1>2, ListLeftAlone DEF InConns
  <1>5. ASSUME NEW r \in Seq(Callers \cup {Leftover}), replies[n] # <<>>, result' = [result EXCEPT ![c] = Head(replies[n])],
               UNCHANGED connected, replies' = [replies EXCEPT ![n] = r],
               \/ r = Tail(replies[n]) /\ UNCHANGED spoilt
               \/ spoilt' = spoilt \cup {n}
        PROVE  HpInv'
    <2>1. n \in spoilt' \/ (replies[n] = <<c>> /\ Head(<<c>>) = c /\ Tail(<<c>>) = <<>>)
      BY <1>5, <1>a
    <2>2. /\ replies'[n] = r /\ \A k \in Conns : k # n => replies'[k] = replies[k]
          /\ n \in spoilt' \/ r = <<>>
      BY <1>0, <1>5, <2>1 DEF HpType
    <2>3. HpType'
      BY <1>0, <1>1, <1>5 DEF HpType, Pcs
    <2>4. QuietInv'
      <3>0. \A k \in Conns : k # n => (k \in spoilt' <=> k \in spoilt)
        BY <1>5
      <3>1. \A m \in Pooled' \cap connected' : m \in spoilt' \/ replies'[m] = <<>>
        BY <1>0, <1>1, <1>4, <1>5, <2>2, <3>0 DEF QuietInv, HpType
      <3>2. ASSUME NEW d \in Callers, cpc'[d] # "recv", using'[d] \in connected'
            PROVE  using'[d] \in spoilt' \/ replies'[using'[d]] = <<>>
        <4>1. CASE d = c
          BY <1>1, <2>2, <4>1
        <4>2. CASE d # c
          <5>1. using[d] # n /\ cpc[d] # "recv" /\ using[d] \in Conns /\ using[d] \in connected
            BY <1>0, <1>1, <1>2, <1>4, <1>5, <3>2, <4>2 DEF HpType
          <5> QED
            BY <1>0, <1>1, <2>2, <3>0, <5>1 DEF QuietInv
        <4> QED
          BY <4>1, <4>2
      <3>3. ASSUME NEW d \in Callers, cpc'[d] = "recv"
            PROVE  using'[d] \in connected' /\ (using'[d] \in spoilt' \/ replies'[using'[d]] = <<d>>)
        <4>1. d # c /\ using[d] # n /\ cpc[d] = "recv" /\ using[d] \in Conns
          BY <1>0, <1>2, <1>4, <3>3 DEF StageInv
        <4> QED
          BY <1>0, <1>1, <1>5, <2>2, <3>0, <4>1 DEF QuietInv
      <3> QED
        BY <3>1, <3>2, <3>3 DEF QuietInv
    <2>5. ReplyIsOwn'
      <3>1. result'[c] = Head(replies[n]) /\ \A d \in Callers : d # c => result'[d] = result[d]
        BY <1>0, <1>5 DEF HpType
      <3>2. n \in spoilt' \/ result'[c] = c
        BY <2>1, <3>1
      <3>3. ASSUME NEW d \in Callers, d # c, cpc'[d] = "release", result'[d] \in Callers
            PROVE  result'[d] = d \/ using'[d] \in spoilt'
        BY <1>1, <1>2, <1>5, <3>1, <3>3 DEF HpInv, ReplyIsOwn
      <3> QED
        BY <1>1, <3>2, <3>3 DEF ReplyIsOwn
    <2> QED
      BY <1>1, <1>3, <1>b, <2>3, <2>4, <2>5, ExistingStays, PlacesStay DEF HpInv
  <1>6. CASE RecvFails(c)
    <2>1. /\ result' = [result EXCEPT ![c] = "TIMEOUT"] /\ connected' = connected \ {n} /\ UNCHANGED <<replies, spoilt>>
      BY <1>6 DEF RecvFails
    <2>2. HpType'
      BY <1>0, <1>1, <2>1 DEF HpType, Pcs
    <2>3. QuietInv'
      BY <1>0, <1>1, <1>2, <1>4, <2>1 DEF QuietInv
    <2>4. ReplyIsOwn'
      <3>1. result'[c] \notin Callers /\ \A d \in Callers : d # c => result'[d] = result[d]
        BY <1>0, <2>1, HttpPoolAssumption DEF HpType
      <3> QED
        BY <1>1, <1>2, <2>1, <3>1 DEF HpInv, ReplyIsOwn
    <2> QED
      BY <1>1, <1>3, <1>b, <2>2, <2>3, <2>4, ExistingStays, PlacesStay DEF HpInv
  <1>7. CASE RecvResponse(c)
    <2>1. /\ replies[n] # <<>> /\ result' = [result EXCEPT ![c] = Head(replies[n])] /\ UNCHANGED connected
          /\ \/ replies' = [replies EXCEPT ![n] = Tail(@)] /\ UNCHANGED spoilt
             \/ replies' = [replies EXCEPT ![n] = <<Leftover>> \o Tail(@)] /\ spoilt' = spoilt \cup {n}
      BY <1>7 DEF RecvResponse
    <2>2. replies[n] \in Seq(Callers \cup {Leftover})
      BY <1>0 DEF HpType
    <2>3. Tail(replies[n]) \in Seq(Callers \cup {Leftover}) /\ <<Leftover>> \in Seq(Callers \cup {Leftover})
      BY <2>1, <2>2
    <2>4. <<Leftover>> \o Tail(replies[n]) \in Seq(Callers \cup {Leftover})
      BY <2>3
    <2>5. CASE replies' = [replies EXCEPT ![n] = Tail(@)] /\ UNCHANGED spoilt
      BY <1>5, <2>1, <2>3, <2>5
    <2>6. CASE replies' = [replies EXCEPT ![n] = <<Leftover>> \o Tail(@)] /\ spoilt' = spoilt \cup {n}
      BY <1>5, <2>1, <2>4, <2>6
    <2> QED
      BY <2>1, <2>5, <2>6
  <1> QED
    BY <1>6, <1>7

LEMMA ReleaseInv ==
  ASSUME HpInv, NEW c \in Callers, ReleasePtr(c)
  PROVE  HpInv'
  <1>0. HpType /\ StageInv /\ OnePlace /\ QuietInv /\ NoConn \notin Conns
    BY HpFacts
  <1>a. cpc[c] = "release" /\ using[c] \in Conns
    BY <1>0 DEF ReleasePtr, StageInv
  <1> SUFFICES ASSUME NEW n \in Conns, n = using[c] PROVE HpInv'
    BY <1>a
  <1>1. /\ m_request' = [m_request EXCEPT ![n] = @ + 1]
        /\ UNCHANGED <<replies, spoilt, hplock, hand, invalid, result>>
        /\ \/ /\ m_total' = m_total - 1 /\ connected' = connected \ {n} /\ using' = [using EXCEPT ![c] = NoConn]
              /\ cpc' = [cpc EXCEPT ![c] = "idle"] /\ UNCHANGED m_conns
           \/ cpc' = [cpc EXCEPT ![c] = "return"] /\ UNCHANGED <<m_conns, m_total, connected, using>>
    BY DEF ReleasePtr, HpGoto
  <1>2. cpc'[c] \in {"idle", "return"} /\ \A d \in Callers : d # c => cpc'[d] = cpc[d]
    BY <1>0, <1>1 DEF HpType
  <1>3. n \notin Pooled /\ \A d \in Callers : n \notin invalid[d] /\ (d # c => using[d] # n)
    BY <1>0 DEF OnePlace
  <1>4. /\ using' \in [Callers -> Conns \cup {NoConn}] /\ cpc' \in [Callers -> Pcs] /\ m_request' \in [Conns -> Nat]
    <2>1. cpc' \in [Callers -> Pcs]
      BY <1>0, <1>1 DEF HpType, Pcs
    <2>2. using' \in [Callers -> Conns \cup {NoConn}]
      BY <1>0, <1>1 DEF HpType
    <2>3. m_request' \in [Conns -> Nat]
      BY <1>0, <1>1 DEF HpType
    <2> QED
      BY <2>1, <2>2, <2>3
  <1>5. LockInv' /\ HandInv'
    BY <1>1, <1>2, ListLeftAlone DEF InConns
  <1>6. \A m : m \in Existing <=> m \in Pooled \/ (\E d \in Callers : m = using[d] /\ m # NoConn)
                                    \/ (\E d \in Callers : m \in invalid[d])
    BY DEF Existing, InUse
  <1>7. \A m : m \in Existing' <=> m \in Pooled' \/ (\E d \in Callers : m = using'[d] /\ m # NoConn)
                                     \/ (\E d \in Callers : m \in invalid'[d])
    BY DEF Existing, InUse
  <1>8. \A d \in Callers : NoConn \notin invalid[d]
    BY <1>0 DEF HpType
  <1>9. CASE /\ m_total' = m_total - 1 /\ connected' = connected \ {n} /\ using' = [using EXCEPT ![c] = NoConn]
             /\ cpc' = [cpc EXCEPT ![c] = "idle"] /\ UNCHANGED m_conns
    <2>a. /\ using'[c] = NoConn /\ \A d \in Callers : d # c => using'[d] = using[d]
          /\ cpc'[c] = "idle"
      BY <1>0, <1>9 DEF HpType
    <2>b. StageInv'
      BY <1>0, <1>1, <1>2, <1>a, <2>a DEF StageInv
    <2>c. ReplyIsOwn'
      BY <1>1, <1>2, <2>a DEF HpInv, ReplyIsOwn
    <2>0. Pooled' = Pooled
      BY <1>9 DEF Pooled
    <2>1. Existing' = Existing \ {n} /\ n \in Existing
      <3>1. ASSUME NEW m \in Existing, m # n PROVE m \in Existing'
        BY <1>1, <1>2, <1>6, <1>7, <2>0, <2>a, <3>1
      <3>2. ASSUME NEW m \in Existing' PROVE m \in Existing /\ m # n
        BY <1>1, <1>2, <1>3, <1>6, <1>7, <2>0, <2>a, <1>0
      <3> QED
        BY <1>6, <3>1, <3>2, <1>0
    <2>2. IsFiniteSet(Existing') /\ m_total' = Cardinality(Existing')
      BY <1>9, <2>1, FS_RemoveElement DEF HpInv
    <2>3. OnePlace'
      BY <1>0, <1>1, <1>2, <1>8, <1>9, <2>0, <2>a, HpFacts DEF OnePlace
    <2>4. QuietInv'
      BY <1>0, <1>1, <1>2, <1>3, <1>9, <2>0, <2>a DEF QuietInv, HpType
    <2>5. HpType'
      BY <1>0, <1>1, <1>4, <1>9 DEF HpType
    <2> QED
      BY <1>1, <1>5, <2>b, <2>c, <2>2, <2>3, <2>4, <2>5 DEF HpInv
  <1>10. CASE cpc' = [cpc EXCEPT ![c] = "return"] /\ UNCHANGED <<m_conns, m_total, connected, using>>
    <2>1. cpc'[c] = "return"
      BY <1>0, <1>10 DEF HpType
    <2>2. HpType'
      BY <1>0, <1>1, <1>4, <1>10 DEF HpType
    <2>5. StageInv'
      BY <1>0, <1>1, <1>2, <1>10, <1>a, <2>1 DEF StageInv
    <2>3. QuietInv'
      BY <1>0, <1>1, <1>2, <1>10, <1>a, <2>1, ExistingStays DEF QuietInv
    <2>4. ReplyIsOwn'
      BY <1>1, <1>2, <1>10, <2>1 DEF HpInv, ReplyIsOwn
    <2> QED
      BY <1>1, <1>5, <1>10, <2>2, <2>3, <2>4, <2>5, ExistingStays, PlacesStay DEF HpInv
  <1> QED
    BY <1>1, <1>9, <1>10

LEMMA PushConnInv ==
  ASSUME HpInv, ~Overlap, NEW c \in Callers, PushConn(c)
  PROVE  HpInv'
  <1>0. HpType /\ StageInv /\ OnePlace /\ QuietInv /\ NoConn \notin Conns
    BY HpFacts
  <1>a. cpc[c] = "push" /\ using[c] \in Conns
    BY <1>0 DEF PushConn, StageInv
  <1> SUFFICES ASSUME NEW n \in Conns, n = using[c] PROVE HpInv'
    BY <1>a
  <1>1. /\ m_conns' = Append(m_conns, n) /\ using' = [using EXCEPT ![c] = NoConn] /\ FreeConns(c)
        /\ cpc' = [cpc EXCEPT ![c] = "idle"]
        /\ UNCHANGED <<m_total, m_request, connected, replies, spoilt, hand, invalid, result>>
    BY DEF PushConn, HpGoto
  <1>2. /\ using'[c] = NoConn /\ \A d \in Callers : d # c => using'[d] = using[d]
        /\ cpc'[c] = "idle" /\ \A d \in Callers : d # c => cpc'[d] = cpc[d]
    BY <1>0, <1>1 DEF HpType
  <1>3. n \notin Pooled /\ \A d \in Callers : n \notin invalid[d] /\ (d # c => using[d] # n)
    BY <1>0 DEF OnePlace
  <1>4. StageInv'
    BY <1>0, <1>1, <1>2, <1>a DEF StageInv
  <1>5. /\ using' \in [Callers -> Conns \cup {NoConn}] /\ cpc' \in [Callers -> Pcs]
    BY <1>0, <1>1 DEF HpType, Pcs
  <1>b. LockInv' /\ HandInv'
    <2>1. ~InConns(c)'
      BY <1>2 DEF InConns
    <2>2. \A d \in Callers : d # c => cpc[d] # "pop"
      BY <1>a, ListIsOwn DEF InConns
    <2>3. HandInv'
      BY <1>2, <2>2 DEF HandInv
    <2> QED
      BY <1>1, <1>2, <2>1, <2>3, FreeKeepsLock
  <1>c. ReplyIsOwn'
    BY <1>1, <1>2 DEF HpInv, ReplyIsOwn
  <1>6. \A m : m \in Existing <=> m \in Pooled \/ (\E d \in Callers : m = using[d] /\ m # NoConn)
                                    \/ (\E d \in Callers : m \in invalid[d])
    BY DEF Existing, InUse
  <1>7. \A m : m \in Existing' <=> m \in Pooled' \/ (\E d \in Callers : m = using'[d] /\ m # NoConn)
                                     \/ (\E d \in Callers : m \in invalid'[d])
    BY DEF Existing, InUse
  <1>8. \A d \in Callers : NoConn \notin invalid[d]
    BY <1>0 DEF HpType
  <1>10. Len(m_conns) \in Nat
    BY <1>0 DEF HpType
  <1> SUFFICES ASSUME NEW L \in Nat, L = Len(m_conns) PROVE HpInv'
    BY <1>10, Zenon
  <1>11. /\ m_conns' \in Seq(Conns) /\ DOMAIN m_conns = 1..L /\ DOMAIN m_conns' = 1..(L + 1)
        /\ m_conns'[L + 1] = n /\ \A k \in 1..L : m_conns'[k] = m_conns[k]
    BY <1>0, <1>1 DEF HpType
  <1>12. Pooled' = Pooled \cup {n}
    BY <1>11 DEF Pooled
  <1>13. Existing' = Existing
    <2>1. ASSUME NEW m \in Existing PROVE m \in Existing'
      BY <1>1, <1>2, <1>6, <1>7, <1>12, <2>1
    <2>2. ASSUME NEW m \in Existing' PROVE m \in Existing
      BY <1>1, <1>2, <1>6, <1>7, <1>12, <1>0
    <2> QED
      BY <2>1, <2>2
  <1>14. OnePlace'
    <2>1. \A j, k \in DOMAIN m_conns' : m_conns'[j] = m_conns'[k] => j = k
      <3> SUFFICES ASSUME NEW j \in 1..(L + 1), NEW k \in 1..(L + 1), m_conns'[j] = m_conns'[k] PROVE j = k
        BY <1>11
      <3>1. \A i \in 1..L : m_conns[i] # n
        BY <1>3, <1>11 DEF Pooled
      <3>2. CASE j \in 1..L /\ k \in 1..L
        BY <1>0, <1>11, <3>2 DEF OnePlace
      <3>3. CASE j = L + 1 \/ k = L + 1
        BY <1>11, <3>1, <3>3
      <3> QED
        BY <3>2, <3>3
    <2>2. \A d \in Callers : using'[d] \notin Pooled'
      BY <1>0, <1>2, <1>3, <1>12, HpFacts DEF OnePlace
    <2>3. \A d, e \in Callers : using'[d] \notin invalid'[e]
      BY <1>0, <1>1, <1>2, <1>8 DEF OnePlace
    <2>4. \A d \in Callers : invalid'[d] \cap Pooled' = {}
      BY <1>0, <1>1, <1>3, <1>12 DEF OnePlace
    <2>5. \A d, e \in Callers : using'[d] = using'[e] /\ using'[d] # NoConn => d = e
      BY <1>0, <1>2 DEF OnePlace
    <2> QED
      BY <1>0, <1>1, <2>1, <2>2, <2>3, <2>4, <2>5 DEF OnePlace
  <1>15. QuietInv'
    <2>1. n \in connected => n \in spoilt \/ replies[n] = <<>>
      BY <1>0, <1>a DEF QuietInv
    <2>2. using'[c] \notin connected
      BY <1>0, <1>2 DEF HpType
    <2>3. \A m \in Pooled' \cap connected' : m \in spoilt' \/ replies'[m] = <<>>
      BY <1>0, <1>1, <1>12, <2>1 DEF QuietInv
    <2>4. \A d \in Callers : cpc'[d] # "recv" /\ using'[d] \in connected'
                             => using'[d] \in spoilt' \/ replies'[using'[d]] = <<>>
      BY <1>0, <1>1, <1>2, <2>2 DEF QuietInv
    <2>5. ASSUME NEW d \in Callers, cpc'[d] = "recv"
          PROVE  using'[d] \in connected' /\ (using'[d] \in spoilt' \/ replies'[using'[d]] = <<d>>)
      <3>1. d # c /\ cpc[d] = "recv" /\ using'[d] = using[d]
        BY <1>2, <2>5
      <3> QED
        BY <1>0, <1>1, <3>1 DEF QuietInv
    <2> QED
      BY <2>3, <2>4, <2>5 DEF QuietInv
  <1>16. HpType'
    BY <1>0, <1>1, <1>5, <1>11 DEF HpType
  <1> QED
    BY <1>1, <1>4, <1>b, <1>c, <1>13, <1>14, <1>15, <1>16 DEF HpInv

LEMMA HpStepInv == HpInv /\ [HpNext]_hpvars => HpInv'
  <1> SUFFICES ASSUME HpInv, [HpNext]_hpvars PROVE HpInv'
    OBVIOUS
  <1>0. HpType /\ StageInv /\ OnePlace /\ QuietInv
    BY HpFacts
  <1>1. ASSUME NEW n \in Conns, SocketCloses(n) PROVE HpInv'
    <2>1. /\ n \notin InUse /\ connected' = connected \ {n}
          /\ UNCHANGED <<m_conns, m_total, m_request, replies, spoilt, hplock, cpc, hand, using, invalid, result>>
      BY <1>1 DEF SocketCloses
    <2>2. \A c \in Callers : using[c] # n
      BY <2>1, HpFacts DEF InUse
    <2>3. QuietInv'
      BY <1>0, <2>1, <2>2, ExistingStays DEF QuietInv
    <2>4. HpType' /\ StageInv' /\ ReplyIsOwn'
      BY <1>0, <2>1 DEF HpType, StageInv, HpInv, ReplyIsOwn
    <2>5. LockInv' /\ HandInv'
      BY <2>1, ListLeftAlone DEF InConns
    <2> QED
      BY <2>1, <2>3, <2>4, <2>5, ExistingStays, PlacesStay DEF HpInv
  <1>2. CASE UNCHANGED hpvars
    <2>1. HpType' /\ StageInv' /\ ReplyIsOwn'
      BY <1>0, <1>2 DEF hpvars, HpType, StageInv, HpInv, ReplyIsOwn
    <2>2. QuietInv'
      BY <1>0, <1>2, ExistingStays DEF hpvars, QuietInv
    <2>3. LockInv' /\ HandInv'
      BY <1>2, ListLeftAlone DEF hpvars, InConns
    <2> QED
      BY <1>2, <2>1, <2>2, <2>3, ExistingStays, PlacesStay DEF hpvars, HpInv
  <1> QED
    BY <1>1, <1>2, LockConnsInv, TakeConnInv, PopConnInv, FreeConnsInv, DeleteInvalidInv, ConnectInv, ConnectFailsInv,
       SendRequestInv, RecvInv, ReleaseInv, PushConnInv
       DEF HpNext, GetConnection

LEMMA OneToOne ==
  ASSUME NEW S, NEW T, NEW f \in [S -> T],
         \A a, b \in S : f[a] = f[b] => a = b, \A t \in T : \E a \in S : f[a] = t
  PROVE  ExistsBijection(S, T)
  <1>1. f \in Bijection(S, T)
    BY DEF Bijection, Injection, Surjection, IsInjective
  <1> QED
    BY <1>1 DEF ExistsBijection

LEMMA DisjointUnion ==
  ASSUME NEW S, NEW T, IsFiniteSet(S), IsFiniteSet(T), S \cap T = {}
  PROVE  IsFiniteSet(S \cup T) /\ Cardinality(S \cup T) = Cardinality(S) + Cardinality(T)
  <1>1. Cardinality(S) \in Nat /\ Cardinality(T) \in Nat /\ Cardinality(S \cap T) = 0
    BY FS_CardinalityType, FS_EmptySet
  <1>2. IsFiniteSet(S \cup T) /\ Cardinality(S \cup T) = Cardinality(S) + Cardinality(T) - Cardinality(S \cap T)
    BY FS_Union
  <1> QED
    BY <1>1, <1>2

LEMMA CountSeq ==
  ASSUME NEW S, NEW s \in Seq(S), \A i, k \in DOMAIN s : s[i] = s[k] => i = k
  PROVE  IsFiniteSet({s[i] : i \in DOMAIN s}) /\ Cardinality({s[i] : i \in DOMAIN s}) = Len(s)
  <1> DEFINE T == {s[i] : i \in DOMAIN s}
  <1>1. Len(s) \in Nat /\ DOMAIN s = 1..Len(s)
    OBVIOUS
  <1>2. s \in [1..Len(s) -> T] /\ \A t \in T : \E i \in 1..Len(s) : s[i] = t
    BY <1>1
  <1>3. ExistsBijection(1..Len(s), T)
    BY <1>1, <1>2, OneToOne
  <1> QED
    BY <1>1, <1>3, FS_NatBijection, FS_CountingElements

(* Until a second unlock lets two callers into the list, m_total counts the *)
(* connections there are, each of which is in one place.                    *)
THEOREM PoolIsCounted == HpSpec => []PoolCounts
  <1>1. HpInv => PoolCounts
    <2> SUFFICES ASSUME HpInv PROVE PoolCounts
      OBVIOUS
    <2>0. HpType /\ StageInv /\ OnePlace /\ NoConn \notin Conns /\ IsFiniteSet(Existing)
      BY HpFacts DEF HpInv
    <2> DEFINE U == {c \in Callers : using[c] # NoConn}
               D == UNION {invalid[c] : c \in Callers}
    <2>1. Cardinality(Pooled) = Len(m_conns) /\ Len(m_conns) \in Nat
      <3>1. m_conns \in Seq(Conns) /\ \A i, k \in DOMAIN m_conns : m_conns[i] = m_conns[k] => i = k
        BY <2>0 DEF HpType, OnePlace
      <3>2. Cardinality({m_conns[i] : i \in DOMAIN m_conns}) = Len(m_conns)
        BY <3>1, CountSeq, Zenon
      <3>3. Len(m_conns) \in Nat
        BY <3>1
      <3> QED
        BY <3>2, <3>3 DEF Pooled
    <2>2. Cardinality(InUse) = Cardinality(U)
      <3> DEFINE f == [c \in U |-> using[c]]
      <3>1. /\ f \in [U -> InUse] /\ \A a, b \in U : f[a] = f[b] => a = b
            /\ \A t \in InUse : \E a \in U : f[a] = t
        BY <2>0 DEF OnePlace, InUse
      <3>2. IsFiniteSet(U)
        <4>1. U \in SUBSET Callers
          OBVIOUS
        <4> QED
          BY <4>1, HttpPoolAssumption, FS_Subset
      <3>3. ExistsBijection(U, InUse)
        BY <3>1, OneToOne
      <3> QED
        BY <3>2, <3>3, FS_Bijection
    <2>3. IsFiniteSet(Pooled) /\ IsFiniteSet(InUse) /\ IsFiniteSet(D)
      <3>1. Pooled \in SUBSET Existing /\ InUse \in SUBSET Existing /\ D \in SUBSET Existing
        BY DEF Existing
      <3> QED
        BY <2>0, <3>1, FS_Subset
    <2>4. Pooled \cap InUse = {} /\ (Pooled \cup InUse) \cap D = {}
      BY <2>0 DEF OnePlace, InUse
    <2>5. Cardinality(Pooled \cup InUse) = Cardinality(Pooled) + Cardinality(InUse) /\ IsFiniteSet(Pooled \cup InUse)
      BY <2>3, <2>4, DisjointUnion
    <2>6. Cardinality((Pooled \cup InUse) \cup D) = Cardinality(Pooled \cup InUse) + Cardinality(D)
      BY <2>3, <2>4, <2>5, DisjointUnion
    <2>7. Existing = (Pooled \cup InUse) \cup D
      BY DEF Existing
    <2> HIDE DEF U, D
    <2>8. Cardinality(Existing) = Len(m_conns) + Cardinality(U) + Cardinality(D)
      BY <2>1, <2>2, <2>5, <2>6, <2>7
    <2>9. Overlap => hpStolen
      BY DEF HpInv, LockInv, Overlap
    <2> QED
      BY <2>8, <2>9 DEF PoolCounts, HpInv, U, D
  <1> QED
    BY <1>1, HpInitInv, HpStepInv, PTL DEF HpSpec

(* Until then no caller gets the reply to another's request on a connection *)
(* whose replies were all read to their end.                                *)
THEOREM RepliesAreOwn == HpSpec => []ReplyIsOwn
  <1>1. HpInv => ReplyIsOwn
    BY DEF HpInv
  <1> QED
    BY <1>1, HpInitInv, HpStepInv, PTL DEF HpSpec

-----------------------------------------------------------------------------
(* MySQLManager *)

Ages == 0..2
Session == [up : BOOLEAN, hasError : BOOLEAN, age : Ages, dbname : {"gone", "", "db"},
            selected : {"", "db"}, open : Users \cup {NoOne}, left : BOOLEAN, renewed : BOOLEAN]
Transaction == [auto : BOOLEAN, isFinished : BOOLEAN, hasError : BOOLEAN, live : BOOLEAN]

LEMMA AgesAre == 0 \in Ages /\ 2 \in Ages /\ \A a \in Ages : a < 2 => a + 1 \in Ages
  BY DEF Ages

MyType ==
  /\ mysqlConns \in Seq(MySQLs) /\ mysql \in [MySQLs -> Session]
  /\ held \in [Users -> MySQLs \cup {NoOne}] /\ trans \in [Users -> Transaction]
  /\ \A c \in MySQLs : mysql[c].dbname = "gone" => mysql[c] = NoMySQL

(* An object is idle once, or held by one user, or lost.                    *)
MyPlaces ==
  /\ Len(mysqlConns) <= PoolSize
  /\ \A i, k \in DOMAIN mysqlConns : mysqlConns[i] = mysqlConns[k] => i = k
  /\ Idle \subseteq Live /\ \A u \in Users : held[u] \in (Live \ Idle) \cup {NoOne}
  /\ \A u, v \in Users : held[u] = held[v] /\ held[u] # NoOne => u = v
  /\ \A c \in Live : c \in Idle \/ (\E u \in Users : held[u] = c) \/ (mysql[c].hasError /\ ~mysql[c].up)

(* A MySQLTransaction keeps its connection, and is finished when the server *)
(* has ended the transaction.                                               *)
TransInv ==
  \A u \in Users : trans[u].live =>
    held[u] # NoOne /\ (trans[u].isFinished => mysql[held[u]].open # u)

MyInv == MyType /\ MyPlaces /\ TransInv /\ SessionsClean

(* A call of get() or freeMySQL() has no transaction open, and its object   *)
(* from the one step to the other; who is in the lists holds the lock,      *)
(* unless it was set free under it.                                         *)
CallInv ==
  /\ DOMAIN mpc = MyActors
  /\ \A u \in Users :
       /\ mpc[u] # "out" => ~trans[u].live
       /\ mpc[u] \in {"get", "new"} => held[u] = NoOne
       /\ mpc[u] \in {"check", "free"} => held[u] # NoOne
MyLockInv == \A a \in MyActors : InMySQLs(a) => myMutex = a \/ myStolen

Clean(m) == m.up /\ m.dbname # "" => m.selected = m.dbname \/ m.renewed

LEMMA MyFacts ==
  ASSUME MyInv
  PROVE  /\ MyType /\ MyPlaces /\ TransInv /\ SessionsClean
         /\ NoOne \notin Users /\ NoOne \notin MySQLs /\ PoolSize \in Nat
         /\ Live \subseteq MySQLs /\ Idle \subseteq MySQLs
         /\ \A c \in MySQLs : mysql[c] \in Session /\ (c \in Live <=> mysql[c].dbname # "gone")
         /\ \A c \in Live : Clean(mysql[c])
  <1>1. MyType /\ MyPlaces /\ TransInv /\ SessionsClean
    BY DEF MyInv
  <1>2. NoMySQL.dbname = "gone"
    BY DEF NoMySQL
  <1>3. \A c \in MySQLs : mysql[c] \in Session /\ (c \in Live <=> mysql[c].dbname # "gone")
    BY <1>1, <1>2 DEF MyType, Live
  <1>4. \A c \in Live : Clean(mysql[c])
    BY <1>1 DEF SessionsClean, Clean
  <1> QED
    BY <1>1, <1>3, <1>4, MySQLPoolAssumption DEF Live, Idle, MyType, NoOne

(* One session changes and is still there.                                  *)
LEMMA OneSession ==
  ASSUME MyInv, NEW c \in MySQLs, NEW n \in Session, n.dbname # "gone", mysql' = [mysql EXCEPT ![c] = n]
  PROVE  /\ mysql'[c] = n /\ \A d \in MySQLs : d # c => mysql'[d] = mysql[d]
         /\ mysql' \in [MySQLs -> Session] /\ Live' = Live \cup {c}
         /\ \A d \in MySQLs : mysql'[d].dbname = "gone" => mysql'[d] = NoMySQL
  <1>1. /\ mysql'[c] = n /\ (\A d \in MySQLs : d # c => mysql'[d] = mysql[d]) /\ mysql' \in [MySQLs -> Session]
    BY MyFacts DEF MyType
  <1>a. NoMySQL.dbname = "gone"
    BY DEF NoMySQL
  <1>2. n # NoMySQL
    BY <1>a
  <1>3. Live' = Live \cup {c}
    BY <1>1, <1>2 DEF Live
  <1>4. \A d \in MySQLs : mysql'[d].dbname = "gone" => mysql'[d] = NoMySQL
    BY <1>1, MyFacts DEF MyType
  <1> QED
    BY <1>1, <1>3, <1>4

LEMMA HeldFacts ==
  ASSUME MyInv, NEW u \in Users, NEW c, c = held[u], c # NoOne, NEW m, m = mysql[c]
  PROVE  /\ c \in Live /\ c \in MySQLs /\ m \in Session /\ m.dbname # "gone" /\ Clean(m)
         /\ m.open \in Users \cup {NoOne}
         /\ m.open # NoOne => (m.left \/ (m.open = u /\ trans[u].live))
  <1>0. MyType /\ MyPlaces /\ SessionsClean
    BY MyFacts
  <1>1. c \in Live /\ c \in MySQLs /\ m \in Session /\ m.dbname # "gone" /\ Clean(m)
    BY <1>0, MyFacts DEF MyPlaces
  <1>2. m.open \in Users \cup {NoOne}
    BY <1>1 DEF Session
  <1>3. m.open # NoOne => (m.left \/ (m.open = u /\ trans[u].live))
    BY <1>0, <1>1, <1>2 DEF SessionsClean, MyPlaces
  <1> QED
    BY <1>1, <1>2, <1>3

(* The user of a connection works with it.                                  *)
LEMMA HeldStep ==
  ASSUME MyInv, NEW u \in Users, NEW c, c = held[u], c # NoOne, NEW n \in Session, n.dbname # "gone",
         mysql' = [mysql EXCEPT ![c] = n], Clean(n),
         trans' \in [Users -> Transaction], \A v \in Users : v # u => trans'[v] = trans[v],
         UNCHANGED <<mysqlConns, held>>,
         n.open # NoOne => (n.left \/ (n.open = u /\ trans'[u].live)),
         trans'[u].live /\ trans'[u].isFinished => n.open # u
  PROVE  MyInv'
  <1>0. /\ MyType /\ MyPlaces /\ TransInv /\ SessionsClean /\ NoOne \notin Users /\ NoOne \notin MySQLs
        /\ c \in Live /\ c \in MySQLs /\ c \notin Idle
    BY MyFacts DEF MyPlaces
  <1>1. /\ mysql'[c] = n /\ \A d \in MySQLs : d # c => mysql'[d] = mysql[d]
        /\ mysql' \in [MySQLs -> Session] /\ Live' = Live
        /\ \A d \in MySQLs : mysql'[d].dbname = "gone" => mysql'[d] = NoMySQL
    <2>1. Live' = Live \cup {c}
      BY <1>0, OneSession, Zenon
    <2>2. Live \cup {c} = Live
      BY <1>0
    <2> QED
      BY <1>0, <2>1, <2>2, OneSession, Zenon
  <1>2. Idle' = Idle
    BY DEF Idle
  <1>3. MyType'
    BY <1>0, <1>1 DEF MyType
  <1>4. MyPlaces'
    <2>1. \A d \in Live' : d \in Idle' \/ (\E v \in Users : held'[v] = d) \/ (mysql'[d].hasError /\ ~mysql'[d].up)
      BY <1>0, <1>1, <1>2, MyFacts DEF MyPlaces
    <2> QED
      BY <1>0, <1>1, <1>2, <2>1 DEF MyPlaces
  <1>5. TransInv'
    <2>1. ASSUME NEW v \in Users, trans'[v].live
          PROVE  held'[v] # NoOne /\ (trans'[v].isFinished => mysql'[held'[v]].open # v)
      <3>1. CASE v = u
        BY <1>1, <2>1, <3>1
      <3>2. CASE v # u
        <4>1. held[v] # NoOne /\ held[v] # c /\ held[v] \in MySQLs
          BY <1>0, <2>1, <3>2 DEF TransInv, MyPlaces, MyType
        <4> QED
          BY <1>0, <1>1, <2>1, <3>2, <4>1 DEF TransInv
      <3> QED
        BY <3>1, <3>2
    <2> QED
      BY <2>1 DEF TransInv
  <1>6. SessionsClean'
    <2>1. ASSUME NEW d \in Live', mysql'[d].open # NoOne
          PROVE  mysql'[d].left \/ (held'[mysql'[d].open] = d /\ trans'[mysql'[d].open].live)
      <3>1. CASE d = c
        BY <1>1, <2>1, <3>1
      <3>2. CASE d # c
        <4>0. d \in MySQLs /\ d \in Live /\ mysql'[d] = mysql[d] /\ mysql[d] \in Session
          BY <1>0, <1>1, <2>1, <3>2, MyFacts
        <4>1. mysql[d].open \in Users
          BY <2>1, <4>0 DEF Session
        <4>2. mysql[d].left \/ (held[mysql[d].open] = d /\ trans[mysql[d].open].live)
          BY <1>0, <2>1, <4>0, <4>1 DEF SessionsClean
        <4> QED
          BY <1>1, <3>2, <4>0, <4>1, <4>2
      <3> QED
        BY <3>1, <3>2
    <2>2. ASSUME NEW d \in Live' PROVE Clean(mysql'[d])
      BY <1>0, <1>1, <2>2, MyFacts
    <2> QED
      BY <2>1, <2>2 DEF SessionsClean, Clean
  <1> QED
    BY <1>3, <1>4, <1>5, <1>6 DEF MyInv

(* mysql_query ends, begins or leaves a transaction as it was.              *)
LEMMA QueryFields ==
  ASSUME NEW m \in Session, NEW ok \in BOOLEAN, NEW op \in Users \cup {NoOne}, NEW q, q = Query(m, ok, op)
  PROVE  /\ q \in Session /\ q.dbname = m.dbname /\ (Clean(m) => Clean(q))
         /\ ok => q.open = op
         /\ ~ok => q.open = m.open
         /\ m.left => (q.left \/ q.open = NoOne)
  <1>1. /\ q.up = m.up /\ q.dbname = m.dbname /\ q.selected = m.selected /\ q.renewed = m.renewed
        /\ q.open = (IF ok THEN op ELSE m.open) /\ q.left = (IF ok /\ op = NoOne THEN FALSE ELSE m.left)
    BY DEF Query, Session
  <1>2. q \in Session
    BY DEF Query, Session
  <1>3. (ok => q.open = op) /\ (~ok => q.open = m.open)
    BY <1>1
  <1>4. m.left => (q.left \/ q.open = NoOne)
    BY <1>1
  <1>5. Clean(m) => Clean(q)
    BY <1>1 DEF Clean
  <1> QED
    BY <1>1, <1>2, <1>3, <1>4, <1>5

LEMMA ExecuteInv ==
  ASSUME MyInv, NEW u \in Users, NEW ok \in BOOLEAN, Execute(u, ok)
  PROVE  MyInv'
  <1> SUFFICES ASSUME NEW c, c = held[u], NEW m, m = mysql[c], NEW n, n = Query(m, ok, m.open) PROVE MyInv'
    OBVIOUS
  <1>0. /\ MyType /\ MyPlaces /\ TransInv /\ SessionsClean /\ c # NoOne
    BY MyFacts DEF Execute, CanAnswer
  <1>1. c \in Live /\ c \in MySQLs /\ m \in Session /\ m.dbname # "gone" /\ Clean(m) /\ m.open \in Users \cup {NoOne}
    BY <1>0, HeldFacts
  <1>2. mysql' = [mysql EXCEPT ![c] = n] /\ UNCHANGED <<mysqlConns, held>>
    BY <1>0, <1>1 DEF Execute, MyType
  <1>3. n \in Session /\ n.dbname # "gone" /\ Clean(n) /\ n.open = m.open /\ (m.left => (n.left \/ n.open = NoOne))
    BY <1>1, QueryFields
  <1>4. /\ trans' \in [Users -> Transaction] /\ \A v \in Users : v # u => trans'[v] = trans[v]
        /\ trans'[u].live = trans[u].live /\ trans'[u].isFinished = trans[u].isFinished
    BY <1>0 DEF Execute, MyType, Transaction
  <1>5. m.open # NoOne => (m.left \/ (m.open = u /\ trans[u].live))
    BY <1>0, HeldFacts
  <1>6. trans[u].live /\ trans[u].isFinished => m.open # u
    BY <1>0 DEF TransInv
  <1>7. /\ n.open # NoOne => (n.left \/ (n.open = u /\ trans'[u].live))
        /\ trans'[u].live /\ trans'[u].isFinished => n.open # u
    BY <1>3, <1>4, <1>5, <1>6, Zenon
  <1> QED
    BY <1>0, <1>1, <1>2, <1>3, <1>4, <1>7, HeldStep, Zenon

LEMMA UseInv ==
  ASSUME MyInv, NEW u \in Users, NEW ok \in BOOLEAN, Use(u, ok)
  PROVE  MyInv'
  <1> SUFFICES ASSUME NEW c, c = held[u], NEW m, m = mysql[c], NEW n,
                      n = IF m.dbname = "db" THEN m
                          ELSE IF ok THEN [m EXCEPT !.dbname = "db", !.selected = "db", !.hasError = FALSE]
                          ELSE [m EXCEPT !.dbname = "", !.hasError = TRUE]
               PROVE  MyInv'
    OBVIOUS
  <1>0. /\ MyType /\ MyPlaces /\ TransInv /\ SessionsClean /\ c # NoOne
    BY MyFacts DEF Use, CanAnswer
  <1>1. c \in Live /\ c \in MySQLs /\ m \in Session /\ m.dbname # "gone" /\ Clean(m)
    BY <1>0, HeldFacts
  <1>2. mysql' = [mysql EXCEPT ![c] = n] /\ UNCHANGED <<mysqlConns, held, trans>>
    BY <1>0, <1>1 DEF Use, MyType
  <1>3. n \in Session /\ n.dbname # "gone" /\ n.open = m.open /\ n.left = m.left
    BY <1>1 DEF Session
  <1>4. Clean(n)
    BY <1>1 DEF Session, Clean
  <1>5. m.open # NoOne => (m.left \/ (m.open = u /\ trans[u].live))
    BY <1>0, HeldFacts
  <1>6. trans[u].live /\ trans[u].isFinished => m.open # u
    BY <1>0 DEF TransInv
  <1>7. /\ trans' \in [Users -> Transaction] /\ \A v \in Users : v # u => trans'[v] = trans[v]
        /\ trans'[u] = trans[u]
    BY <1>0, <1>2 DEF MyType
  <1>8. /\ n.open # NoOne => (n.left \/ (n.open = u /\ trans'[u].live))
        /\ trans'[u].live /\ trans'[u].isFinished => n.open # u
    BY <1>3, <1>5, <1>6, <1>7
  <1> QED
    BY <1>0, <1>1, <1>2, <1>3, <1>4, <1>7, <1>8, HeldStep, ZenonT(30)

LEMMA OpenTransactionInv ==
  ASSUME MyInv, NEW u \in Users, NEW auto \in BOOLEAN, NEW ok \in BOOLEAN, OpenTransaction(u, auto, ok)
  PROVE  MyInv'
  <1> SUFFICES ASSUME NEW c, c = held[u], NEW m, m = mysql[c] PROVE MyInv'
    OBVIOUS
  <1>0. /\ MyType /\ MyPlaces /\ TransInv /\ SessionsClean /\ c # NoOne /\ ~trans[u].live
    BY MyFacts DEF OpenTransaction, CanAnswer
  <1>1. c \in Live /\ c \in MySQLs /\ m \in Session /\ m.dbname # "gone" /\ Clean(m)
    BY <1>0, HeldFacts
  <1>2. CASE ok
    <2> SUFFICES ASSUME NEW q, q = Query(m, TRUE, u), NEW n, n = [q EXCEPT !.left = FALSE],
                        NEW t, t = [auto |-> auto, isFinished |-> FALSE, hasError |-> FALSE, live |-> TRUE]
                 PROVE  MyInv'
      OBVIOUS
    <2>1. mysql' = [mysql EXCEPT ![c] = n] /\ trans' = [trans EXCEPT ![u] = t] /\ UNCHANGED <<mysqlConns, held>>
      BY <1>0, <1>1, <1>2 DEF OpenTransaction, MyType
    <2>2. q \in Session /\ q.dbname = m.dbname /\ Clean(q) /\ q.open = u
      <3>1. /\ q.up = m.up /\ q.dbname = m.dbname /\ q.selected = m.selected /\ q.renewed = m.renewed
            /\ q.open = u /\ q \in Session
        <4>1. u \in Users /\ u # NoOne
          BY MyFacts
        <4>2. q = [m EXCEPT !.hasError = FALSE, !.open = u]
          BY <1>1, <4>1 DEF Query, Session
        <4> QED
          BY ONLY <1>1, <4>1, <4>2 DEF Session
      <3> QED
        BY ONLY <1>1, <3>1 DEF Clean
    <2>3. n \in Session /\ n.dbname = q.dbname /\ n.open = u
      BY <2>2 DEF Session
    <2>4. Clean(n)
      BY <2>2 DEF Session, Clean
    <2>5. t \in Transaction /\ t.live /\ ~t.isFinished
      BY DEF Transaction
    <2>6. trans' \in [Users -> Transaction] /\ trans'[u] = t /\ \A v \in Users : v # u => trans'[v] = trans[v]
      BY <1>0, <2>1, <2>5 DEF MyType
    <2> QED
      BY <1>0, <1>1, <2>1, <2>2, <2>3, <2>4, <2>5, <2>6, HeldStep
  <1>3. CASE ~ok
    <2>1. PICK o \in BOOLEAN : mysql' = [mysql EXCEPT ![c] = Query(m, o, NoOne)]
      <3>1. m.up \in BOOLEAN
        BY <1>1 DEF Session
      <3>2. mysql' = [mysql EXCEPT ![c] = IF auto THEN Query(m, FALSE, NoOne) ELSE Query(m, m.up, NoOne)]
        BY <1>0, <1>1, <1>3 DEF OpenTransaction, MyType
      <3> QED
        BY <3>1, <3>2
    <2> SUFFICES ASSUME NEW n, n = Query(m, o, NoOne) PROVE MyInv'
      OBVIOUS
    <2>2. UNCHANGED <<mysqlConns, held, trans>>
      BY <1>3 DEF OpenTransaction
    <2>3. /\ n \in Session /\ n.dbname # "gone" /\ Clean(n) /\ n.open \in {m.open, NoOne}
          /\ m.left => (n.left \/ n.open = NoOne)
      BY <1>1, QueryFields
    <2>4. m.open # NoOne => (m.left \/ (m.open = u /\ trans[u].live))
      BY <1>0, HeldFacts
    <2> QED
      BY <1>0, <1>1, <2>1, <2>2, <2>3, <2>4, HeldStep DEF MyType
  <1> QED
    BY <1>2, <1>3

LEMMA EndCallInv ==
  ASSUME MyInv, NEW u \in Users, NEW commit \in BOOLEAN, NEW ok \in BOOLEAN, EndCall(u, commit, ok)
  PROVE  MyInv'
  <1> SUFFICES ASSUME NEW c, c = held[u], NEW m, m = mysql[c], NEW n, n = Query(m, ok, NoOne) PROVE MyInv'
    OBVIOUS
  <1>0. /\ MyType /\ MyPlaces /\ TransInv /\ SessionsClean /\ c # NoOne /\ trans[u].live /\ ~trans[u].isFinished
    BY MyFacts DEF EndCall, CanAnswer, Asks
  <1>1. c \in Live /\ c \in MySQLs /\ m \in Session /\ m.dbname # "gone" /\ Clean(m)
    BY <1>0, HeldFacts
  <1>2. mysql' = [mysql EXCEPT ![c] = n] /\ UNCHANGED <<mysqlConns, held>>
    BY <1>0, <1>1 DEF EndCall, Finish, MyType
  <1>3. /\ trans' \in [Users -> Transaction] /\ \A v \in Users : v # u => trans'[v] = trans[v]
        /\ trans'[u].live = trans[u].live /\ trans'[u].isFinished = ok
    <2>1. trans' = [trans EXCEPT ![u] = [trans[u] EXCEPT !.isFinished = ok, !.hasError = @ \/ ~ok]]
      BY <1>0 DEF EndCall, MyType
    <2>2. trans[u] \in Transaction /\ trans[u].hasError \in BOOLEAN
      BY <1>0 DEF MyType, Transaction
    <2> DEFINE t == [trans[u] EXCEPT !.isFinished = ok, !.hasError = @ \/ ~ok]
    <2>3. t \in Transaction /\ t.live = trans[u].live /\ t.isFinished = ok
      BY <2>2 DEF Transaction
    <2> HIDE DEF t
    <2>4. trans' = [trans EXCEPT ![u] = t]
      BY <2>1 DEF t
    <2> QED
      BY <1>0, <2>3, <2>4 DEF MyType
  <1>4. /\ n \in Session /\ n.dbname # "gone" /\ Clean(n)
        /\ (ok => n.open = NoOne) /\ (~ok => n.open = m.open) /\ (m.left => (n.left \/ n.open = NoOne))
    BY <1>1, QueryFields
  <1>5. m.open # NoOne => (m.left \/ (m.open = u /\ trans[u].live))
    BY <1>0, HeldFacts
  <1>6. /\ n.open # NoOne => (n.left \/ (n.open = u /\ trans'[u].live))
        /\ trans'[u].live /\ trans'[u].isFinished => n.open # u
    <2>1. NoOne # u
      BY MyFacts
    <2> QED
      BY <1>3, <1>4, <1>5, <2>1, Zenon
  <1> QED
    BY <1>0, <1>1, <1>2, <1>3, <1>4, <1>6, HeldStep, Zenon

LEMMA EndTransactionInv ==
  ASSUME MyInv, NEW u \in Users, NEW ok \in BOOLEAN, EndTransaction(u, ok)
  PROVE  MyInv'
  <1> SUFFICES ASSUME NEW c, c = held[u], NEW m, m = mysql[c], NEW t, t = trans[u],
                      NEW q, q = Finish(u, t.auto, ok), NEW l,
                      l = (q.left \/ (t.auto /\ t.hasError) \/ (Asks(t, t.auto) /\ ~ok)),
                      NEW n, n = [q EXCEPT !.left = l]
               PROVE  MyInv'
    OBVIOUS
  <1>0. /\ MyType /\ MyPlaces /\ TransInv /\ SessionsClean /\ c # NoOne /\ t.live /\ t \in Transaction
    BY MyFacts DEF EndTransaction, CanAnswer, MyType
  <1>1. c \in Live /\ c \in MySQLs /\ m \in Session /\ m.dbname # "gone" /\ Clean(m)
    BY <1>0, HeldFacts
  <1>2. mysql' = [mysql EXCEPT ![c] = n] /\ trans' = [trans EXCEPT ![u] = NoTrans] /\ UNCHANGED <<mysqlConns, held>>
    BY DEF EndTransaction
  <1>3. /\ trans' \in [Users -> Transaction] /\ \A v \in Users : v # u => trans'[v] = trans[v]
        /\ ~trans'[u].live
    <2>1. NoTrans \in Transaction /\ ~NoTrans.live
      BY DEF NoTrans, Transaction
    <2> QED
      BY <1>0, <1>2, <2>1 DEF MyType
  <1>4. m.open # NoOne => (m.left \/ m.open = u)
    BY <1>0, HeldFacts
  <1>5. t.isFinished => m.open # u
    BY <1>0 DEF TransInv
  <1>6. /\ q \in Session /\ q.dbname # "gone" /\ Clean(q)
        /\ q.open # NoOne => l
    <2>1. CASE Asks(t, t.auto)
      <3>1. q = Query(m, ok, NoOne)
        BY <2>1 DEF Finish
      <3>2. /\ q \in Session /\ q.dbname # "gone" /\ Clean(q) /\ (ok => q.open = NoOne)
        BY <1>1, <3>1, QueryFields
      <3> QED
        BY <2>1, <3>2
    <2>2. CASE ~Asks(t, t.auto)
      <3>1. q = m
        BY <2>2 DEF Finish
      <3>2. t.isFinished \/ (t.auto /\ t.hasError)
        BY <2>2 DEF Asks
      <3> QED
        BY <1>1, <1>4, <1>5, <3>1, <3>2
    <2> QED
      BY <2>1, <2>2
  <1>7. l \in BOOLEAN
    BY Zenon
  <1>8. n \in Session /\ n.dbname = q.dbname /\ n.open = q.open /\ n.left = l
    BY <1>6, <1>7 DEF Session
  <1>9. Clean(n)
    BY <1>6 DEF Session, Clean
  <1> QED
    BY <1>0, <1>1, <1>2, <1>3, <1>6, <1>8, <1>9, HeldStep

(* One session changes, and the transactions that are open elsewhere stay.  *)
LEMMA OthersStay ==
  ASSUME MyInv, NEW c \in MySQLs, \A d \in MySQLs : d # c => mysql'[d] = mysql[d],
         UNCHANGED trans, \A v \in Users : trans[v].live => held'[v] = held[v],
         Live' \subseteq Live \cup {c}, Clean(mysql'[c]), mysql'[c].open \in {mysql[c].open, NoOne},
         mysql'[c].open # NoOne =>
           (mysql'[c].left \/ (held[mysql'[c].open] = c /\ trans[mysql'[c].open].live))
  PROVE  TransInv' /\ SessionsClean'
  <1>0. MyType /\ MyPlaces /\ TransInv /\ SessionsClean /\ NoOne \notin Users /\ NoOne \notin MySQLs
    BY MyFacts
  <1>1. TransInv'
    <2> SUFFICES ASSUME NEW v \in Users, trans[v].live
                 PROVE  held'[v] # NoOne /\ (trans[v].isFinished => mysql'[held'[v]].open # v)
      BY DEF TransInv
    <2>1. held'[v] = held[v] /\ held[v] # NoOne /\ held[v] \in MySQLs /\ (trans[v].isFinished => mysql[held[v]].open # v)
      BY <1>0 DEF TransInv, MyType
    <2> QED
      BY <1>0, <2>1
  <1>2. ASSUME NEW d \in Live'
        PROVE  /\ Clean(mysql'[d])
               /\ mysql'[d].open # NoOne => (mysql'[d].left \/ (held'[mysql'[d].open] = d /\ trans'[mysql'[d].open].live))
    <2>1. CASE d = c
      <3>1. mysql[c].open \in Users \cup {NoOne}
        BY MyFacts DEF Session
      <3> QED
        BY <2>1, <3>1
    <2>2. CASE d # c
      <3>1. d \in Live /\ d \in MySQLs /\ mysql'[d] = mysql[d] /\ Clean(mysql[d]) /\ mysql[d].open \in Users \cup {NoOne}
        BY <1>2, <2>2, MyFacts DEF Session
      <3>2. mysql[d].open # NoOne => (mysql[d].left \/ (held[mysql[d].open] = d /\ trans[mysql[d].open].live))
        BY <1>0, <3>1 DEF SessionsClean
      <3> QED
        BY <3>1, <3>2
    <2> QED
      BY <2>1, <2>2
  <1> QED
    BY <1>1, <1>2 DEF SessionsClean, Clean

LEMMA NotHeld ==
  ASSUME MyInv, NEW c \in Live, \A v \in Users : held[v] = c => ~trans[v].live
  PROVE  mysql[c].open # NoOne => mysql[c].left
  <1>1. mysql[c].open \in Users \cup {NoOne}
    BY MyFacts DEF Session
  <1> QED
    BY <1>1, MyFacts DEF SessionsClean

LEMMA HeadFacts ==
  ASSUME MyInv, mysqlConns # <<>>, mysqlConns' = Tail(mysqlConns), NEW c, c = Head(mysqlConns)
  PROVE  /\ c \in Idle /\ c \in MySQLs /\ c \in Live /\ Idle' = Idle \ {c}
         /\ mysqlConns' \in Seq(MySQLs) /\ Len(mysqlConns') <= PoolSize
         /\ \A i, k \in DOMAIN mysqlConns' : mysqlConns'[i] = mysqlConns'[k] => i = k
  <1>0. MyType /\ MyPlaces /\ PoolSize \in Nat
    BY MyFacts
  <1>1. Len(mysqlConns) \in Nat
    BY <1>0 DEF MyType
  <1> SUFFICES ASSUME NEW L \in Nat, L = Len(mysqlConns)
               PROVE  /\ c \in Idle /\ c \in MySQLs /\ c \in Live /\ Idle' = Idle \ {c}
                      /\ mysqlConns' \in Seq(MySQLs) /\ Len(mysqlConns') <= PoolSize
                      /\ \A i, k \in DOMAIN mysqlConns' : mysqlConns'[i] = mysqlConns'[k] => i = k
    BY <1>1, Zenon
  <1>2. /\ L # 0 /\ DOMAIN mysqlConns = 1..L /\ c = mysqlConns[1] /\ mysqlConns' \in Seq(MySQLs)
        /\ Len(mysqlConns') = L - 1 /\ DOMAIN mysqlConns' = 1..(L - 1)
        /\ \A i \in 1..(L - 1) : mysqlConns'[i] = mysqlConns[i + 1]
    BY <1>0 DEF MyType
  <1>3. \A i, k \in 1..L : mysqlConns[i] = mysqlConns[k] => i = k
    BY <1>0, <1>2 DEF MyPlaces
  <1>4. c \in Idle /\ c \in Live /\ c \in MySQLs
    BY <1>0, <1>2, MyFacts DEF Idle, MyPlaces
  <1>5. Idle' = Idle \ {c}
    <2>1. ASSUME NEW d \in Idle, d # c PROVE d \in Idle'
      <3>1. PICK i \in 1..L : d = mysqlConns[i]
        BY <1>2 DEF Idle
      <3>2. i - 1 \in 1..(L - 1) /\ (i - 1) + 1 = i
        BY <1>2, <2>1, <3>1
      <3>3. mysqlConns'[i - 1] = d
        BY <1>2, <3>1, <3>2
      <3> QED
        BY <1>2, <3>2, <3>3 DEF Idle
    <2>2. ASSUME NEW d \in Idle' PROVE d \in Idle /\ d # c
      <3>1. PICK i \in 1..(L - 1) : d = mysqlConns[i + 1]
        BY <1>2 DEF Idle
      <3>2. i + 1 \in 1..L /\ i + 1 # 1 /\ 1 \in 1..L
        BY <3>1
      <3> QED
        BY <1>2, <1>3, <3>1, <3>2 DEF Idle
    <2> QED
      BY <2>1, <2>2
  <1>6. \A i, k \in DOMAIN mysqlConns' : mysqlConns'[i] = mysqlConns'[k] => i = k
    <2> SUFFICES ASSUME NEW i \in 1..(L - 1), NEW k \in 1..(L - 1), mysqlConns[i + 1] = mysqlConns[k + 1] PROVE i = k
      BY <1>2
    <2>1. i + 1 \in 1..L /\ k + 1 \in 1..L
      OBVIOUS
    <2>2. i + 1 = k + 1
      BY <1>3, <2>1
    <2> QED
      BY <2>2
  <1> QED
    BY <1>0, <1>2, <1>4, <1>5, <1>6 DEF MyPlaces

LEMMA GetIdleInv ==
  ASSUME MyInv, CallInv, NEW u \in Users, GetIdle(u)
  PROVE  MyInv'
  <1> SUFFICES ASSUME NEW c, c = Head(mysqlConns) PROVE MyInv'
    OBVIOUS
  <1>0. MyType /\ MyPlaces /\ TransInv /\ SessionsClean /\ NoOne \notin Users /\ NoOne \notin MySQLs
    BY MyFacts
  <1>1. /\ held[u] = NoOne /\ mysqlConns # <<>> /\ mysqlConns' = Tail(mysqlConns) /\ UNCHANGED <<mysql, trans>>
        /\ held' = [held EXCEPT ![u] = c]
    BY DEF GetIdle, CallInv
  <1>2. /\ c \in Idle /\ c \in MySQLs /\ c \in Live /\ Idle' = Idle \ {c}
        /\ mysqlConns' \in Seq(MySQLs) /\ Len(mysqlConns') <= PoolSize
        /\ \A i, k \in DOMAIN mysqlConns' : mysqlConns'[i] = mysqlConns'[k] => i = k
    BY <1>1, HeadFacts
  <1>3. held'[u] = c /\ (\A v \in Users : v # u => held'[v] = held[v]) /\ held' \in [Users -> MySQLs \cup {NoOne}]
    BY <1>0, <1>1, <1>2 DEF MyType
  <1>4. Live' = Live
    BY <1>1 DEF Live
  <1>5. TransInv' /\ SessionsClean'
    <2>1. \A v \in Users : trans[v].live => held'[v] = held[v]
      BY <1>0, <1>1, <1>3 DEF TransInv
    <2>2. mysql[c].open # NoOne => mysql[c].left
      BY <1>0, <1>2, NotHeld DEF MyPlaces
    <2>3. Clean(mysql[c])
      BY <1>2, MyFacts
    <2> QED
      BY <1>1, <1>2, <1>4, <2>1, <2>2, <2>3, OthersStay
  <1>6. MyType'
    BY <1>0, <1>1, <1>2, <1>3 DEF MyType
  <1>7. MyPlaces'
    <2>1. Idle' \subseteq Live' /\ \A v \in Users : held'[v] \in (Live' \ Idle') \cup {NoOne}
      BY <1>0, <1>2, <1>3, <1>4 DEF MyPlaces
    <2>2. \A v, w \in Users : held'[v] = held'[w] /\ held'[v] # NoOne => v = w
      BY <1>0, <1>2, <1>3 DEF MyPlaces
    <2>3. \A d \in Live' : d \in Idle' \/ (\E v \in Users : held'[v] = d) \/ (mysql'[d].hasError /\ ~mysql'[d].up)
      <3> SUFFICES ASSUME NEW d \in Live PROVE d \in Idle' \/ (\E v \in Users : held'[v] = d) \/ (mysql[d].hasError /\ ~mysql[d].up)
        BY <1>1, <1>4
      <3>1. CASE d = c
        BY <1>3, <3>1
      <3>2. CASE d # c
        <4>1. d # NoOne
          BY <1>0, MyFacts
        <4>2. d \in Idle \/ (\E v \in Users : held[v] = d) \/ (mysql[d].hasError /\ ~mysql[d].up)
          BY <1>0 DEF MyPlaces
        <4> QED
          BY <1>1, <1>2, <1>3, <3>2, <4>1, <4>2
      <3> QED
        BY <3>1, <3>2
    <2> QED
      BY <1>2, <2>1, <2>2, <2>3 DEF MyPlaces
  <1> QED
    BY <1>5, <1>6, <1>7 DEF MyInv

LEMMA CheckIdleInv ==
  ASSUME MyInv, CallInv, NEW u \in Users, NEW reconnects \in BOOLEAN, CheckIdle(u, reconnects)
  PROVE  MyInv'
  <1> SUFFICES ASSUME NEW c, c = held[u], NEW m, m = mysql[c], NEW n,
                      n = IF ~NeedCheck(m) THEN [m EXCEPT !.age = 0]
                          ELSE IF m.up THEN [m EXCEPT !.age = 0, !.hasError = FALSE]
                          ELSE IF reconnects THEN Reconnect(m)
                          ELSE [m EXCEPT !.hasError = TRUE]
               PROVE  MyInv'
    OBVIOUS
  <1>0. MyType /\ MyPlaces /\ TransInv /\ SessionsClean /\ NoOne \notin Users /\ NoOne \notin MySQLs
    BY MyFacts
  <1>1. /\ c # NoOne /\ ~trans[u].live /\ UNCHANGED <<mysqlConns, trans>>
        /\ mysql' = [mysql EXCEPT ![c] = n]
        /\ \/ held' = held
           \/ held' = [held EXCEPT ![u] = NoOne] /\ NeedCheck(m) /\ ~m.up /\ ~reconnects
    BY DEF CheckIdle, CallInv
  <1>2. c \in MySQLs /\ c \in Live /\ c \notin Idle /\ Idle' = Idle
    BY <1>0, <1>1, HeldFacts DEF MyPlaces, Idle
  <1>a. m \in Session /\ m.dbname # "gone" /\ Clean(m)
    BY <1>1, HeldFacts
  <1>b. \A v \in Users : v # u => held[v] # c
    BY <1>0, <1>1 DEF MyPlaces
  <1>c. m.open # NoOne => m.left
    BY <1>1, <1>2, <1>b, NotHeld
  <1>3. m \in Session /\ m.dbname # "gone" /\ Clean(m) /\ (m.open # NoOne => m.left)
    BY <1>a, <1>c
  <1>4. n \in Session /\ n.dbname = m.dbname
    <2>1. Reconnect(m) \in Session /\ Reconnect(m).dbname = m.dbname
      BY <1>3, AgesAre DEF Session, Reconnect, NoOne
    <2>2. /\ [m EXCEPT !.age = 0] \in Session /\ [m EXCEPT !.age = 0].dbname = m.dbname
          /\ [m EXCEPT !.hasError = TRUE] \in Session /\ [m EXCEPT !.hasError = TRUE].dbname = m.dbname
      BY <1>3, AgesAre DEF Session
    <2>3. /\ [m EXCEPT !.age = 0, !.hasError = FALSE] \in Session
          /\ [m EXCEPT !.age = 0, !.hasError = FALSE].dbname = m.dbname
      BY <1>3, AgesAre DEF Session
    <2> QED
      BY <2>1, <2>2, <2>3, Zenon
  <1>5. Clean(n) /\ n.open \in {m.open, NoOne} /\ (n.open # NoOne => n.left)
    <2>1. CASE n = Reconnect(m)
      <3>1. n.open = NoOne /\ (n.dbname # "" => n.renewed)
        BY <1>3, <2>1 DEF Session, Reconnect
      <3> QED
        BY <3>1 DEF Clean
    <2>2. CASE n \in {[m EXCEPT !.age = 0], [m EXCEPT !.age = 0, !.hasError = FALSE],
                      [m EXCEPT !.hasError = TRUE]}
      <3>1. /\ n.open = m.open /\ n.left = m.left /\ n.up = m.up /\ n.dbname = m.dbname
            /\ n.selected = m.selected /\ n.renewed = m.renewed
        BY <1>3, <2>2 DEF Session
      <3> QED
        BY <1>3, <3>1 DEF Clean
    <2> QED
      BY <2>1, <2>2
  <1>6. /\ mysql'[c] = n /\ \A d \in MySQLs : d # c => mysql'[d] = mysql[d]
        /\ mysql' \in [MySQLs -> Session] /\ Live' = Live \cup {c}
        /\ \A d \in MySQLs : mysql'[d].dbname = "gone" => mysql'[d] = NoMySQL
    BY <1>1, <1>2, <1>3, <1>4, OneSession, ZenonT(60)
  <1>7. (\A v \in Users : v # u => held'[v] = held[v]) /\ held' \in [Users -> MySQLs \cup {NoOne}]
    BY <1>0, <1>1 DEF MyType
  <1>8. held'[u] = c \/ (held'[u] = NoOne /\ n.hasError /\ ~n.up)
    <2>1. CASE held' = held
      BY <2>1
    <2>2. CASE held' = [held EXCEPT ![u] = NoOne] /\ NeedCheck(m) /\ ~m.up /\ ~reconnects
      <3>1. n = [m EXCEPT !.hasError = TRUE]
        BY <2>2
      <3>2. held'[u] = NoOne
        BY <1>0, <2>2 DEF MyType
      <3>3. n.hasError /\ n.up = m.up
        BY <1>3, <3>1 DEF Session
      <3> QED
        BY <2>2, <3>2, <3>3
    <2> QED
      BY <1>1, <2>1, <2>2
  <1>9. TransInv' /\ SessionsClean'
    <2>1. \A v \in Users : trans[v].live => held'[v] = held[v]
      BY <1>1, <1>7
    <2> QED
      BY <1>1, <1>2, <1>5, <1>6, <2>1, OthersStay
  <1>10. MyType'
    BY <1>0, <1>1, <1>6, <1>7 DEF MyType
  <1>11. MyPlaces'
    <2>1. Idle' \subseteq Live' /\ \A v \in Users : held'[v] \in (Live' \ Idle') \cup {NoOne}
      BY <1>0, <1>2, <1>6, <1>7, <1>8 DEF MyPlaces
    <2>2. \A v, w \in Users : held'[v] = held'[w] /\ held'[v] # NoOne => v = w
      BY <1>0, <1>b, <1>7, <1>8 DEF MyPlaces
    <2>3. \A d \in Live' : d \in Idle' \/ (\E v \in Users : held'[v] = d) \/ (mysql'[d].hasError /\ ~mysql'[d].up)
      <3> SUFFICES ASSUME NEW d \in Live' PROVE d \in Idle' \/ (\E v \in Users : held'[v] = d) \/ (mysql'[d].hasError /\ ~mysql'[d].up)
        OBVIOUS
      <3>1. CASE d = c
        BY <1>6, <1>8, <3>1
      <3>2. CASE d # c
        <4>1. d \in Live /\ d \in MySQLs /\ mysql'[d] = mysql[d] /\ d # NoOne
          BY <1>0, <1>6, <3>2, MyFacts
        <4>2. d \in Idle \/ (\E v \in Users : held[v] = d) \/ (mysql[d].hasError /\ ~mysql[d].up)
          BY <1>0, <4>1 DEF MyPlaces
        <4> QED
          BY <1>1, <1>2, <1>7, <3>2, <4>1, <4>2
      <3> QED
        BY <3>1, <3>2
    <2> QED
      BY <1>0, <1>1, <1>2, <2>1, <2>2, <2>3 DEF MyPlaces
  <1> QED
    BY <1>9, <1>10, <1>11 DEF MyInv

LEMMA NewMySQLInv ==
  ASSUME MyInv, CallInv, NEW u \in Users, NewMySQL(u), ~UNCHANGED <<mysql, held>>
  PROVE  MyInv'
  <1>0. MyType /\ MyPlaces /\ TransInv /\ SessionsClean /\ NoOne \notin Users /\ NoOne \notin MySQLs
    BY MyFacts
  <1>1. PICK c \in MySQLs \ Live : mysql' = [mysql EXCEPT ![c] = NewSession] /\ held' = [held EXCEPT ![u] = c]
    BY DEF NewMySQL
  <1>2. held[u] = NoOne /\ UNCHANGED <<mysqlConns, trans>> /\ Idle' = Idle
    BY DEF NewMySQL, CallInv, Idle
  <1>3. NewSession \in Session /\ NewSession.dbname # "gone" /\ NewSession.open = NoOne /\ Clean(NewSession)
    BY AgesAre DEF NewSession, NoMySQL, Session, Clean, NoOne
  <1>4. /\ mysql'[c] = NewSession /\ \A d \in MySQLs : d # c => mysql'[d] = mysql[d]
        /\ mysql' \in [MySQLs -> Session] /\ Live' = Live \cup {c}
        /\ \A d \in MySQLs : mysql'[d].dbname = "gone" => mysql'[d] = NoMySQL
    BY <1>1, <1>3, OneSession, Zenon
  <1>5. held'[u] = c /\ \A v \in Users : v # u => held'[v] = held[v]
    BY <1>0, <1>1 DEF MyType
  <1>6. TransInv' /\ SessionsClean'
    <2>1. \A v \in Users : trans[v].live => held'[v] = held[v]
      BY <1>0, <1>2, <1>5 DEF TransInv
    <2> QED
      BY <1>2, <1>3, <1>4, <2>1, OthersStay
  <1>7. MyType'
    BY <1>0, <1>1, <1>2, <1>4 DEF MyType
  <1>8. c \notin Idle /\ \A v \in Users : held[v] # c
    BY <1>0 DEF MyPlaces
  <1>9. MyPlaces'
    <2>1. Idle' \subseteq Live' /\ \A v \in Users : held'[v] \in (Live' \ Idle') \cup {NoOne}
      BY <1>0, <1>2, <1>4, <1>5, <1>8 DEF MyPlaces
    <2>2. \A v, w \in Users : held'[v] = held'[w] /\ held'[v] # NoOne => v = w
      BY <1>0, <1>5, <1>8 DEF MyPlaces
    <2>3. \A d \in Live' : d \in Idle' \/ (\E v \in Users : held'[v] = d) \/ (mysql'[d].hasError /\ ~mysql'[d].up)
      <3> SUFFICES ASSUME NEW d \in Live' PROVE d \in Idle' \/ (\E v \in Users : held'[v] = d) \/ (mysql'[d].hasError /\ ~mysql'[d].up)
        OBVIOUS
      <3>1. CASE d = c
        BY <1>5, <3>1
      <3>2. CASE d # c
        <4>1. d \in Live /\ d \in MySQLs /\ mysql'[d] = mysql[d] /\ d # NoOne
          BY <1>0, <1>4, <3>2, MyFacts
        <4>2. d \in Idle \/ (\E v \in Users : held[v] = d) \/ (mysql[d].hasError /\ ~mysql[d].up)
          BY <1>0, <4>1 DEF MyPlaces
        <4> QED
          BY <1>2, <1>5, <4>1, <4>2
      <3> QED
        BY <3>1, <3>2
    <2> QED
      BY <1>0, <1>2, <2>1, <2>2, <2>3 DEF MyPlaces
  <1> QED
    BY <1>6, <1>7, <1>9 DEF MyInv

LEMMA FreeMySQLInv ==
  ASSUME MyInv, CallInv, NEW u \in Users, FreeMySQL(u)
  PROVE  MyInv'
  <1>0. MyType /\ MyPlaces /\ TransInv /\ SessionsClean /\ NoOne \notin Users /\ NoOne \notin MySQLs /\ PoolSize \in Nat
    BY MyFacts
  <1> SUFFICES ASSUME NEW c, c = held[u], NEW m, m = mysql[c] PROVE MyInv'
    OBVIOUS
  <1>1. c # NoOne /\ ~trans[u].live /\ held' = [held EXCEPT ![u] = NoOne] /\ UNCHANGED trans
    BY DEF FreeMySQL, CallInv
  <1>2. c \in Live /\ c \in MySQLs /\ m \in Session /\ m.dbname # "gone" /\ Clean(m) /\ c \notin Idle
    BY <1>0, <1>1, HeldFacts DEF MyPlaces
  <1>3. held'[u] = NoOne /\ (\A v \in Users : v # u => held'[v] = held[v]) /\ held' \in [Users -> MySQLs \cup {NoOne}]
    BY <1>0, <1>1 DEF MyType
  <1>4. \A v \in Users : (trans[v].live => held'[v] = held[v]) /\ (v # u => held[v] # c)
    BY <1>0, <1>1, <1>3 DEF MyPlaces
  <1>5. m.open # NoOne => m.left
    BY <1>1, <1>2, <1>4, NotHeld
  <1>6. CASE Len(mysqlConns) < PoolSize /\ mysqlConns' = Append(mysqlConns, c) /\ UNCHANGED mysql
    <2>0. Len(mysqlConns) \in Nat
      BY <1>0 DEF MyType
    <2> SUFFICES ASSUME NEW L \in Nat, L = Len(mysqlConns) PROVE MyInv'
      BY <2>0, Zenon
    <2>1. /\ mysqlConns' \in Seq(MySQLs) /\ DOMAIN mysqlConns = 1..L /\ DOMAIN mysqlConns' = 1..(L + 1)
          /\ mysqlConns'[L + 1] = c /\ Len(mysqlConns') = L + 1 /\ \A k \in 1..L : mysqlConns'[k] = mysqlConns[k]
      BY <1>0, <1>2, <1>6 DEF MyType
    <2>2. Idle' = Idle \cup {c} /\ Live' = Live
      BY <1>6, <2>1 DEF Idle, Live
    <2>3. TransInv' /\ SessionsClean'
      BY <1>1, <1>2, <1>4, <1>5, <1>6, <2>2, OthersStay
    <2>4. MyType'
      BY <1>0, <1>1, <1>3, <1>6, <2>1 DEF MyType
    <2>5. \A j, k \in DOMAIN mysqlConns' : mysqlConns'[j] = mysqlConns'[k] => j = k
      <3> SUFFICES ASSUME NEW j \in 1..(L + 1), NEW k \in 1..(L + 1), mysqlConns'[j] = mysqlConns'[k] PROVE j = k
        BY <2>1
      <3>1. \A i \in 1..L : mysqlConns[i] # c
        BY <1>2, <2>1 DEF Idle
      <3>2. CASE j \in 1..L /\ k \in 1..L
        BY <1>0, <2>1, <3>2 DEF MyPlaces
      <3>3. CASE j = L + 1 \/ k = L + 1
        BY <2>1, <3>1, <3>3
      <3> QED
        BY <3>2, <3>3
    <2>6. \A d \in Live' : d \in Idle' \/ (\E v \in Users : held'[v] = d) \/ (mysql'[d].hasError /\ ~mysql'[d].up)
      BY <1>0, <1>3, <1>6, <2>2 DEF MyPlaces
    <2>7. MyPlaces'
      <3>1. Len(mysqlConns') <= PoolSize
        BY <1>0, <1>6, <2>1
      <3>2. Idle' \subseteq Live' /\ \A v \in Users : held'[v] \in (Live' \ Idle') \cup {NoOne}
        BY <1>0, <1>2, <1>3, <1>4, <2>2 DEF MyPlaces
      <3>3. \A v, w \in Users : held'[v] = held'[w] /\ held'[v] # NoOne => v = w
        BY <1>0, <1>3 DEF MyPlaces
      <3> QED
        BY <2>5, <2>6, <3>1, <3>2, <3>3 DEF MyPlaces
    <2> QED
      BY <2>3, <2>4, <2>7 DEF MyInv
  <1>7. CASE mysql' = [mysql EXCEPT ![c] = NoMySQL] /\ UNCHANGED mysqlConns
    <2>1. NoMySQL \in Session /\ NoMySQL.open = NoOne /\ Clean(NoMySQL)
      BY AgesAre DEF NoMySQL, Session, Clean, NoOne
    <2>2. /\ mysql'[c] = NoMySQL /\ (\A d \in MySQLs : d # c => mysql'[d] = mysql[d]) /\ mysql' \in [MySQLs -> Session]
      BY <1>0, <1>2, <1>7, <2>1 DEF MyType
    <2>3. Idle' = Idle /\ Live' = Live \ {c}
      BY <1>2, <1>7, <2>2 DEF Idle, Live
    <2>4. TransInv' /\ SessionsClean'
      BY <1>1, <1>2, <1>4, <2>1, <2>2, <2>3, OthersStay
    <2>5. MyType'
      BY <1>0, <1>1, <1>3, <1>7, <2>2 DEF MyType
    <2>6. MyPlaces'
      <3>1. Idle' \subseteq Live' /\ \A v \in Users : held'[v] \in (Live' \ Idle') \cup {NoOne}
        BY <1>0, <1>2, <1>3, <1>4, <2>3 DEF MyPlaces
      <3>2. \A v, w \in Users : held'[v] = held'[w] /\ held'[v] # NoOne => v = w
        BY <1>0, <1>3 DEF MyPlaces
      <3>3. \A d \in Live' : d \in Idle' \/ (\E v \in Users : held'[v] = d) \/ (mysql'[d].hasError /\ ~mysql'[d].up)
        BY <1>0, <1>3, <1>4, <2>2, <2>3, MyFacts DEF MyPlaces
      <3> QED
        BY <1>0, <1>7, <3>1, <3>2, <3>3 DEF MyPlaces
    <2> QED
      BY <2>4, <2>5, <2>6 DEF MyInv
  <1> QED
    BY <1>6, <1>7 DEF FreeMySQL

LEMMA CheckConnectionInv ==
  ASSUME MyInv, CheckConnection
  PROVE  MyInv'
  <1>0. MyType /\ MyPlaces /\ TransInv /\ SessionsClean /\ NoOne \notin Users /\ NoOne \notin MySQLs /\ PoolSize \in Nat
    BY MyFacts
  <1>a. PICK old \in SUBSET Idle :
          LET kept == {i \in DOMAIN mysqlConns : mysqlConns[i] \notin old}
          IN /\ \E f \in [1..Cardinality(kept) -> kept] :
                  /\ \A i, j \in DOMAIN f : i < j => f[i] < f[j]
                  /\ \A i \in kept : \E k \in DOMAIN f : f[k] = i
                  /\ mysqlConns' = [k \in DOMAIN f |-> mysqlConns[f[k]]]
             /\ mysql' = [c \in MySQLs |-> IF c \in old THEN NoMySQL ELSE mysql[c]]
    BY DEF CheckConnection
  <1> DEFINE kept == {i \in DOMAIN mysqlConns : mysqlConns[i] \notin old}
  <1>1. PICK f \in [1..Cardinality(kept) -> kept] :
          /\ \A i, j \in DOMAIN f : i < j => f[i] < f[j]
          /\ \A i \in kept : \E k \in DOMAIN f : f[k] = i
          /\ mysqlConns' = [k \in DOMAIN f |-> mysqlConns[f[k]]]
    BY <1>a
  <1>2. /\ mysql' = [c \in MySQLs |-> IF c \in old THEN NoMySQL ELSE mysql[c]]
        /\ UNCHANGED <<held, trans>>
    BY <1>a DEF CheckConnection
  <1>3. Cardinality(kept) \in Nat /\ Cardinality(kept) <= Len(mysqlConns) /\ Len(mysqlConns) \in Nat
        /\ DOMAIN mysqlConns = 1..Len(mysqlConns)
    <2>1. DOMAIN mysqlConns = 1..Len(mysqlConns) /\ Len(mysqlConns) \in Nat
      BY <1>0 DEF MyType
    <2>2. IsFiniteSet(1..Len(mysqlConns)) /\ Cardinality(1..Len(mysqlConns)) = Len(mysqlConns)
      BY <2>1, FS_Interval
    <2>3. kept \in SUBSET (1..Len(mysqlConns))
      BY <2>1
    <2> HIDE DEF kept
    <2> QED
      <3>1. IsFiniteSet(kept) /\ Cardinality(kept) <= Cardinality(1..Len(mysqlConns))
        BY <2>2, <2>3, FS_Subset
      <3> QED
        BY <2>1, <2>2, <3>1, FS_CardinalityType
  <1> SUFFICES ASSUME NEW N \in Nat, N = Cardinality(kept) PROVE MyInv'
    BY <1>3, Zenon
  <1>4. /\ DOMAIN f = 1..N /\ \A k \in 1..N : f[k] \in kept
        /\ DOMAIN mysqlConns' = 1..N /\ \A k \in 1..N : mysqlConns'[k] = mysqlConns[f[k]]
    <2> HIDE DEF kept
    <2> QED
      BY <1>1
  <1>5. mysqlConns' \in Seq(MySQLs) /\ Len(mysqlConns') <= PoolSize
    <2>1. \A k \in 1..N : mysqlConns[f[k]] \in MySQLs
      BY <1>0, <1>4 DEF MyType
    <2>2. mysqlConns' = [k \in 1..N |-> mysqlConns[f[k]]]
      <3> HIDE DEF kept
      <3> QED
        BY <1>1, <1>4
    <2>3. mysqlConns' \in Seq(MySQLs) /\ Len(mysqlConns') = N
      <3> HIDE DEF kept
      <3> QED
        BY <2>1, <2>2
    <2> QED
      BY <1>0, <1>3, <2>3 DEF MyPlaces
  <1>6. Idle' = Idle \ old
    <2>1. ASSUME NEW c \in Idle, c \notin old PROVE c \in Idle'
      <3>1. PICK i \in DOMAIN mysqlConns : c = mysqlConns[i]
        BY DEF Idle
      <3>2. i \in kept
        BY <2>1, <3>1
      <3>3. PICK k \in 1..N : f[k] = i
        BY <1>1, <1>4, <3>2
      <3> QED
        BY <1>4, <3>1, <3>3 DEF Idle
    <2>2. ASSUME NEW c \in Idle' PROVE c \in Idle /\ c \notin old
      <3>1. PICK k \in 1..N : c = mysqlConns[f[k]]
        BY <1>4 DEF Idle
      <3> QED
        BY <1>4, <3>1 DEF Idle
    <2> QED
      BY <2>1, <2>2
  <1>7. \A j, k \in DOMAIN mysqlConns' : mysqlConns'[j] = mysqlConns'[k] => j = k
    <2> SUFFICES ASSUME NEW j \in 1..N, NEW k \in 1..N, mysqlConns[f[j]] = mysqlConns[f[k]] PROVE j = k
      BY <1>4
    <2>1. f[j] = f[k] /\ f[j] \in 1..Len(mysqlConns)
      BY <1>0, <1>3, <1>4 DEF MyPlaces
    <2>2. ~(j < k) /\ ~(k < j)
      <3>1. (j < k => f[j] < f[k]) /\ (k < j => f[k] < f[j])
        <4> HIDE DEF kept
        <4> QED
          BY <1>1, <1>4
      <3> QED
        BY <1>3, <2>1, <3>1
    <2> QED
      BY <2>2
  <1> HIDE DEF kept
  <1>8. NoMySQL \in Session /\ NoMySQL.dbname = "gone"
    BY AgesAre DEF NoMySQL, Session, NoOne
  <1>9. \A d \in MySQLs :
          /\ d \in old => mysql'[d] = NoMySQL
          /\ d \notin old => mysql'[d] = mysql[d]
    BY <1>2
  <1>10. Live' = Live \ old
    BY <1>9 DEF Live
  <1>11. MyType'
    <2>1. mysql' \in [MySQLs -> Session]
      BY <1>0, <1>2, <1>8 DEF MyType
    <2>2. \A d \in MySQLs : mysql'[d].dbname = "gone" => mysql'[d] = NoMySQL
      BY <1>0, <1>9 DEF MyType
    <2> QED
      BY <1>0, <1>2, <1>5, <2>1, <2>2 DEF MyType
  <1>12. \A d \in Live' : mysql'[d] = mysql[d] /\ d \in Live /\ d \in MySQLs
    BY <1>9, <1>10, MyFacts
  <1>13. MyPlaces'
    <2>1. Idle' \subseteq Live' /\ \A v \in Users : held'[v] \in (Live' \ Idle') \cup {NoOne}
      BY <1>0, <1>2, <1>6, <1>10 DEF MyPlaces
    <2>2. \A d \in Live' : d \in Idle' \/ (\E v \in Users : held'[v] = d) \/ (mysql'[d].hasError /\ ~mysql'[d].up)
      BY <1>0, <1>2, <1>6, <1>10, <1>12 DEF MyPlaces
    <2> QED
      BY <1>0, <1>2, <1>5, <1>7, <2>1, <2>2 DEF MyPlaces
  <1>14. TransInv'
    <2>1. \A v \in Users : held[v] # NoOne => mysql'[held[v]] = mysql[held[v]]
      BY <1>0, <1>9, MyFacts DEF MyPlaces
    <2> QED
      BY <1>0, <1>2, <2>1 DEF TransInv
  <1>15. SessionsClean'
    BY <1>0, <1>2, <1>12 DEF SessionsClean
  <1> QED
    BY <1>11, <1>13, <1>14, <1>15 DEF MyInv

LEMMA AgeInv ==
  ASSUME MyInv, NEW c \in MySQLs, Age(c) \/ LoseSession(c)
  PROVE  MyInv'
  <1>0. MyType /\ MyPlaces /\ TransInv /\ SessionsClean /\ NoOne \notin Users /\ NoOne \notin MySQLs
    BY MyFacts
  <1> SUFFICES ASSUME NEW m, m = mysql[c], NEW n,
                      n \in {[m EXCEPT !.age = @ + 1], Lost(m)},
                      m # NoMySQL, n.age \in Ages,
                      mysql' = [mysql EXCEPT ![c] = n]
               PROVE  MyInv'
    <2>0. ~NoMySQL.up
      BY DEF NoMySQL
    <2>1. mysql[c] \in Session /\ (mysql[c].up => mysql[c] # NoMySQL) /\ (c \in Idle => mysql[c] # NoMySQL)
      BY <1>0, <2>0 DEF MyType, MyPlaces, Live
    <2>2. CASE Age(c)
      <3> DEFINE n == [mysql[c] EXCEPT !.age = @ + 1]
      <3>1. n.age \in Ages
        BY <2>1, <2>2, AgesAre DEF Age, Session
      <3>2. mysql' = [mysql EXCEPT ![c] = n] /\ mysql[c] # NoMySQL
        BY <1>0, <2>1, <2>2 DEF Age, MyType
      <3> QED
        BY <3>1, <3>2
    <2>3. CASE LoseSession(c)
      <3> DEFINE n == Lost(mysql[c])
      <3>1. n.age \in Ages
        BY <2>1 DEF Session, Lost
      <3>2. mysql' = [mysql EXCEPT ![c] = n] /\ mysql[c] # NoMySQL
        BY <1>0, <2>1, <2>3 DEF LoseSession, MyType
      <3> QED
        BY <3>1, <3>2
    <2> QED
      BY <2>2, <2>3
  <1>1. UNCHANGED <<mysqlConns, held, trans>> /\ Idle' = Idle
    BY DEF Age, LoseSession, Idle
  <1>2. c \in Live /\ m \in Session /\ m.dbname # "gone" /\ Clean(m)
    BY MyFacts DEF Live
  <1>3. /\ n \in Session /\ n.dbname = m.dbname /\ n.hasError = m.hasError
        /\ n.open \in {m.open, NoOne} /\ (n.open # NoOne => n.left = m.left \/ n.open = NoOne)
    BY <1>2 DEF Session, NoOne, Lost
  <1>4. Clean(n) /\ (n.up => m.up) /\ (n.open # NoOne => n.left = m.left /\ n.open = m.open)
    BY <1>2 DEF Session, Clean, Lost
  <1>5. /\ mysql'[c] = n /\ \A d \in MySQLs : d # c => mysql'[d] = mysql[d]
        /\ mysql' \in [MySQLs -> Session] /\ Live' = Live \cup {c}
        /\ \A d \in MySQLs : mysql'[d].dbname = "gone" => mysql'[d] = NoMySQL
    BY <1>2, <1>3, OneSession, Zenon
  <1>6. n.open # NoOne => (n.left \/ (held[n.open] = c /\ trans[n.open].live))
    BY <1>0, <1>2, <1>4 DEF SessionsClean
  <1>7. TransInv' /\ SessionsClean'
    BY <1>1, <1>3, <1>4, <1>5, <1>6, OthersStay
  <1>8. MyType'
    BY <1>0, <1>1, <1>5 DEF MyType
  <1>9. MyPlaces'
    <2>1. Live' = Live
      BY <1>2, <1>5
    <2>2. \A d \in Live' : d \in Idle' \/ (\E v \in Users : held'[v] = d) \/ (mysql'[d].hasError /\ ~mysql'[d].up)
      BY <1>0, <1>1, <1>3, <1>4, <1>5, <2>1, MyFacts DEF MyPlaces
    <2> QED
      BY <1>0, <1>1, <2>1, <2>2 DEF MyPlaces
  <1> QED
    BY <1>7, <1>8, <1>9 DEF MyInv

LEMMA MyInitInv == MyInit => MyInv /\ CallInv /\ MyLockInv
  <1> SUFFICES ASSUME MyInit PROVE MyInv /\ CallInv /\ MyLockInv
    OBVIOUS
  <1>1. Live = {} /\ Idle = {}
    BY DEF MyInit, Live, Idle
  <1>2. NoMySQL \in Session /\ NoTrans \in Transaction /\ ~NoTrans.live
    BY AgesAre DEF NoMySQL, Session, NoTrans, Transaction, NoOne
  <1>3. MyType
    BY <1>2 DEF MyInit, MyType
  <1>4. MyPlaces
    BY <1>1, MySQLPoolAssumption DEF MyInit, MyPlaces
  <1>5. TransInv /\ SessionsClean
    BY <1>1, <1>2 DEF MyInit, TransInv, SessionsClean
  <1>6. CallInv /\ MyLockInv
    BY DEF MyInit, CallInv, MyLockInv, InMySQLs, MyActors
  <1> QED
    BY <1>3, <1>4, <1>5, <1>6 DEF MyInv

LEMMA CoreStays ==
  ASSUME MyInv, UNCHANGED <<mysqlConns, mysql, held, trans>>
  PROVE  MyInv'
  <1>1. Live' = Live /\ Idle' = Idle
    BY DEF Live, Idle
  <1>2. MyType' /\ TransInv'
    BY DEF MyInv, MyType, TransInv
  <1>3. MyPlaces'
    BY <1>1 DEF MyInv, MyPlaces
  <1>4. SessionsClean'
    BY <1>1 DEF MyInv, SessionsClean
  <1> QED
    BY <1>2, <1>3, <1>4 DEF MyInv

LEMMA UserInv ==
  ASSUME MyInv, CallInv, MyLockInv, NEW u \in Users, NEW ok \in BOOLEAN, NEW commit \in BOOLEAN,
         \/ Execute(u, ok) \/ Use(u, ok) \/ EndTransaction(u, ok)
         \/ EndCall(u, commit, ok) \/ OpenTransaction(u, commit, ok)
  PROVE  MyInv' /\ CallInv' /\ MyLockInv'
  <1>1. MyInv'
    BY ExecuteInv, UseInv, EndTransactionInv, EndCallInv, OpenTransactionInv
  <1>2. mpc[u] = "out" /\ UNCHANGED <<held, mpc, myMutex, myStolen>>
    BY DEF Execute, Use, EndTransaction, EndCall, OpenTransaction, CanAnswer, mycalls
  <1>3. \A v \in Users : v # u => trans'[v] = trans[v]
    BY MyFacts DEF MyType, Execute, Use, EndTransaction, EndCall, OpenTransaction
  <1>4. CallInv'
    BY <1>2, <1>3 DEF CallInv
  <1>5. MyLockInv'
    BY <1>2 DEF MyLockInv, InMySQLs
  <1> QED
    BY <1>1, <1>4, <1>5

(* The calls of get(), freeMySQL() and checkConnection(): where an actor    *)
(* goes, and what it has there.                                             *)
LEMMA CallStep ==
  ASSUME CallInv, MyLockInv, NEW a \in MyActors, NEW pc \in {"out", "get", "check", "new", "drop", "free", "sweep"},
         MyGoto(a, pc), UNCHANGED trans, \A v \in Users : v # a => held'[v] = held[v],
         \/ myMutex' = a /\ myMutex = NoOne /\ UNCHANGED myStolen
         \/ FreeMySQLs(a) /\ pc \notin {"get", "free", "sweep"}
         \/ UNCHANGED <<myMutex, myStolen>> /\ pc \notin {"get", "free", "sweep"},
         a \in Users => /\ (pc # "out" => ~trans[a].live)
                         /\ (pc \in {"get", "new"} => held'[a] = NoOne)
                         /\ (pc \in {"check", "free"} => held'[a] # NoOne)
  PROVE  CallInv' /\ MyLockInv'
  <1>1. mpc'[a] = pc /\ (\A b \in MyActors : b # a => mpc'[b] = mpc[b]) /\ DOMAIN mpc' = MyActors
    BY DEF MyGoto, CallInv
  <1>2. CallInv'
    BY <1>1 DEF CallInv, MyActors
  <1>3. NoOne \notin MyActors
    BY MySQLPoolAssumption DEF MyActors, NoOne
  <1>4. MyLockInv'
    <2> SUFFICES ASSUME NEW b \in MyActors, mpc'[b] \in {"get", "free", "sweep"} PROVE myMutex' = b \/ myStolen'
      BY DEF MyLockInv, InMySQLs
    <2>1. CASE b = a
      BY <1>1, <2>1
    <2>2. CASE b # a
      <3>1. (myMutex = b \/ myStolen) /\ b # NoOne
        BY <1>1, <1>3, <2>2 DEF MyLockInv, InMySQLs
      <3> QED
        BY <2>2, <3>1 DEF FreeMySQLs
    <2> QED
      BY <2>1, <2>2
  <1> QED
    BY <1>2, <1>4

LEMMA PoolCallInv ==
  ASSUME MyInv, CallInv, MyLockInv, NEW u \in Users,
         \/ StartGet(u) \/ GetIdle(u) \/ GetNew(u) \/ NewMySQL(u) \/ StartFree(u) \/ FreeMySQL(u)
         \/ \E ok \in BOOLEAN : CheckIdle(u, ok)
  PROVE  MyInv' /\ CallInv' /\ MyLockInv'
  <1>0. /\ held \in [Users -> MySQLs \cup {NoOne}] /\ NoOne \notin MySQLs /\ u \in MyActors
        /\ mpc[u] # "out" => ~trans[u].live
    BY MyFacts DEF MyType, MyActors, CallInv
  <1>1. CASE StartGet(u)
    <2>1. LockMySQLs(u, "get") /\ held[u] = NoOne /\ ~trans[u].live
      BY <1>1, MyFacts DEF StartGet, TransInv
    <2>2. CallInv' /\ MyLockInv'
      BY <1>0, <2>1, CallStep DEF LockMySQLs
    <2> QED
      BY <2>1, <2>2, CoreStays DEF LockMySQLs
  <1>2. CASE StartFree(u)
    <2>1. LockMySQLs(u, "free") /\ held[u] # NoOne /\ ~trans[u].live
      BY <1>2 DEF StartFree
    <2>2. CallInv' /\ MyLockInv'
      BY <1>0, <2>1, CallStep DEF LockMySQLs
    <2> QED
      BY <2>1, <2>2, CoreStays DEF LockMySQLs
  <1>3. CASE GetIdle(u)
    <2>1. /\ mpc[u] = "get" /\ FreeMySQLs(u) /\ MyGoto(u, "check") /\ UNCHANGED trans
          /\ held' = [held EXCEPT ![u] = Head(mysqlConns)] /\ mysqlConns # <<>> /\ mysqlConns' = Tail(mysqlConns)
      BY <1>3 DEF GetIdle
    <2>2. Head(mysqlConns) \in MySQLs
      BY <2>1, HeadFacts
    <2>3. held'[u] # NoOne /\ \A v \in Users : v # u => held'[v] = held[v]
      BY <1>0, <2>1, <2>2
    <2>4. CallInv' /\ MyLockInv'
      BY <1>0, <2>1, <2>3, CallStep
    <2> QED
      BY <1>3, <2>4, GetIdleInv
  <1>4. CASE GetNew(u)
    <2>1. /\ mpc[u] = "get" /\ FreeMySQLs(u) /\ MyGoto(u, "new") /\ UNCHANGED <<mysqlConns, mysql, held, trans>>
          /\ held[u] = NoOne
      BY <1>4 DEF GetNew, CallInv
    <2>2. CallInv' /\ MyLockInv'
      BY <1>0, <2>1, CallStep
    <2> QED
      BY <2>1, <2>2, CoreStays
  <1>5. CASE NewMySQL(u)
    <2>1. /\ mpc[u] = "new" /\ MyGoto(u, "drop") /\ UNCHANGED <<mysqlConns, trans, myMutex, myStolen>>
      BY <1>5 DEF NewMySQL
    <2>2. \A v \in Users : v # u => held'[v] = held[v]
      BY <1>0, <1>5 DEF NewMySQL
    <2>3. CallInv' /\ MyLockInv'
      BY <1>0, <2>1, <2>2, CallStep
    <2>4. MyInv'
      <3>1. CASE UNCHANGED <<mysql, held>>
        BY <2>1, <3>1, CoreStays
      <3>2. CASE ~UNCHANGED <<mysql, held>>
        BY <1>5, <3>2, NewMySQLInv
      <3> QED
        BY <3>1, <3>2
    <2> QED
      BY <2>3, <2>4
  <1>6. CASE FreeMySQL(u)
    <2>1. /\ mpc[u] = "free" /\ FreeMySQLs(u) /\ MyGoto(u, "out") /\ held' = [held EXCEPT ![u] = NoOne] /\ UNCHANGED trans
      BY <1>6 DEF FreeMySQL
    <2>2. CallInv' /\ MyLockInv'
      BY <1>0, <2>1, CallStep
    <2> QED
      BY <1>6, <2>2, FreeMySQLInv
  <1>7. ASSUME NEW ok \in BOOLEAN, CheckIdle(u, ok) PROVE MyInv' /\ CallInv' /\ MyLockInv'
    <2>1. /\ mpc[u] = "check" /\ MyGoto(u, "drop") /\ UNCHANGED <<trans, myMutex, myStolen>>
          /\ held' = held \/ held' = [held EXCEPT ![u] = NoOne]
      BY <1>7 DEF CheckIdle
    <2>2. \A v \in Users : v # u => held'[v] = held[v]
      BY <1>0, <2>1
    <2>3. CallInv' /\ MyLockInv'
      BY <1>0, <2>1, <2>2, CallStep
    <2> QED
      BY <1>7, <2>3, CheckIdleInv
  <1> QED
    BY <1>1, <1>2, <1>3, <1>4, <1>5, <1>6, <1>7

LEMMA MyStepInv ==
  MyInv /\ CallInv /\ MyLockInv /\ [MyNext]_myvars => MyInv' /\ CallInv' /\ MyLockInv'
  <1> SUFFICES ASSUME MyInv, CallInv, MyLockInv, [MyNext]_myvars PROVE MyInv' /\ CallInv' /\ MyLockInv'
    OBVIOUS
  <1>0. "checker" \in MyActors /\ "checker" \notin Users /\ Users \subseteq MyActors
    BY MySQLPoolAssumption DEF MyActors
  <1>1. CASE UNCHANGED myvars
    <2>1. UNCHANGED <<mysqlConns, mysql, held, trans, mpc, myMutex, myStolen>>
      BY <1>1 DEF myvars, mycalls
    <2>2. CallInv' /\ MyLockInv'
      BY <2>1 DEF CallInv, MyLockInv, InMySQLs
    <2> QED
      BY <2>1, <2>2, CoreStays
  <1>2. CASE LockMySQLs("checker", "sweep")
    <2>1. CallInv' /\ MyLockInv'
      BY <1>0, <1>2, CallStep DEF LockMySQLs
    <2> QED
      BY <1>2, <2>1, CoreStays DEF LockMySQLs
  <1>3. CASE CheckConnection
    <2>1. FreeMySQLs("checker") /\ MyGoto("checker", "drop") /\ UNCHANGED <<held, trans>>
      BY <1>3 DEF CheckConnection
    <2>2. CallInv' /\ MyLockInv'
      BY <1>0, <2>1, CallStep
    <2> QED
      BY <1>3, <2>2, CheckConnectionInv
  <1>4. ASSUME NEW a \in MyActors, DropMySQLs(a) PROVE MyInv' /\ CallInv' /\ MyLockInv'
    <2>1. FreeMySQLs(a) /\ MyGoto(a, "out") /\ UNCHANGED <<mysqlConns, mysql, held, trans>>
      BY <1>4 DEF DropMySQLs
    <2>2. CallInv' /\ MyLockInv'
      BY <2>1, CallStep
    <2> QED
      BY <2>1, <2>2, CoreStays
  <1>5. ASSUME NEW c \in MySQLs, Age(c) \/ LoseSession(c) PROVE MyInv' /\ CallInv' /\ MyLockInv'
    <2>1. UNCHANGED <<held, trans, mpc, myMutex, myStolen>>
      BY <1>5 DEF Age, LoseSession, mycalls
    <2>2. CallInv' /\ MyLockInv'
      BY <2>1 DEF CallInv, MyLockInv, InMySQLs
    <2> QED
      BY <1>5, <2>2, AgeInv
  <1> QED
    BY <1>1, <1>2, <1>3, <1>4, <1>5, UserInv, PoolCallInv DEF MyNext

(* Until a second unlock lets two callers into the lists, a MySQL object is *)
(* idle once, one user's, or lost with its session.                         *)
THEOREM MySQLsAreHeld == MySpec => []PoolHolds
  <1>1. MyInv /\ MyLockInv => PoolHolds
    <2> SUFFICES ASSUME MyInv, MyLockInv PROVE PoolHolds
      OBVIOUS
    <2>0. MyType /\ MyPlaces /\ NoOne \notin MySQLs
      BY MyFacts
    <2>1. Len(mysqlConns) <= PoolSize
      BY <2>0 DEF MyPlaces
    <2>2. Cardinality(Idle) = Len(mysqlConns)
      <3>1. mysqlConns \in Seq(MySQLs) /\ \A i, k \in DOMAIN mysqlConns : mysqlConns[i] = mysqlConns[k] => i = k
        BY <2>0 DEF MyType, MyPlaces
      <3>2. Cardinality({mysqlConns[i] : i \in DOMAIN mysqlConns}) = Len(mysqlConns)
        BY <3>1, CountSeq, Zenon
      <3> QED
        BY <3>2 DEF Idle
    <2>3. ASSUME NEW c \in Live, NEW S, S = {u \in Users : held[u] = c}
          PROVE  /\ Cardinality(S) <= 1 /\ ~(c \in Idle /\ S # {})
                 /\ c \notin Idle /\ S = {} => mysql[c].hasError /\ ~mysql[c].up
      <3>1. Cardinality(S) <= 1
        <4>1. CASE S = {}
          BY <4>1, FS_EmptySet
        <4>2. CASE S # {}
          <5>1. PICK u \in Users : u \in S
            BY <2>3, <4>2
          <5>2. S = {u}
            BY <2>0, <2>3, <5>1, MyFacts DEF MyPlaces
          <5> QED
            <6>1. Cardinality(S) = 1
              BY <5>2, FS_Singleton
            <6> QED
              BY <6>1
        <4> QED
          BY <4>1, <4>2
      <3>2. ~(c \in Idle /\ S # {})
        BY <2>0, <2>3, MyFacts DEF MyPlaces
      <3>3. c \notin Idle /\ S = {} => mysql[c].hasError /\ ~mysql[c].up
        BY <2>0, <2>3 DEF MyPlaces
      <3> QED
        BY <3>1, <3>2, <3>3
    <2>4. \A c \in Idle \cup {held[u] : u \in Users} : c \in Live \cup {NoOne}
      BY <2>0 DEF MyPlaces
    <2>5. MyOverlap => myStolen
      BY DEF MyLockInv, MyOverlap
    <2> QED
      BY <2>1, <2>2, <2>3, <2>4, <2>5 DEF PoolHolds
  <1> QED
    BY <1>1, MyInitInv, MyStepInv, PTL DEF MySpec

(* No user gets a connection with another's transaction open on it, but one *)
(* that its MySQLTransaction left open.                                     *)
THEOREM SessionsAreClean == MySpec => []SessionsClean
  <1>1. MyInv => SessionsClean
    BY DEF MyInv
  <1> QED
    BY <1>1, MyInitInv, MyStepInv, PTL DEF MySpec

=============================================================================
