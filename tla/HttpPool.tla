------------------------------ MODULE HttpPool ------------------------------
(***************************************************************************)
(* HttpConnectionPool (http/http_connection.cc): callers that send a       *)
(* request on a pooled connection and give the connection back.            *)
(* HttpConnection::DoRequest is the same exchange on a connection of its   *)
(* own, which nobody gets afterwards.                                      *)
(*                                                                         *)
(* A connection is a name; a request is its caller's name.  A reply may    *)
(* arrive after the caller has given up on it, and recvResponse may leave  *)
(* bytes of a reply on the socket.  getConnection unlocks m_mutex by hand, *)
(* and the destructor of its ScopedLock unlocks it a second time.          *)
(***************************************************************************)
EXTENDS Integers, Sequences, FiniteSets

CONSTANTS Callers, Conns,
          MaxRequest   \* m_maxRequest

ASSUME HttpPoolAssumption ==
  /\ IsFiniteSet(Callers) /\ "none" \notin Conns
  /\ Callers \cap {"none", "nobody", "leftover", "POOL_GET_CONNECTION", "SEND_CLOSE_BY_PEER",
                   "SEND_SOCKET_ERROR", "TIMEOUT"} = {}

VARIABLES
  m_conns,     \* the idle connections, oldest first
  m_total,     \* m_total
  m_request,   \* conn -> requests it has carried, m_request
  connected,   \* the connections whose socket is open
  replies,     \* conn -> replies, or what is left of one, on the way or unread
  spoilt,      \* connections on which a reply was not read to its end (history)
  hpMutex,     \* who locked m_mutex, or "nobody"
  hpStolen,    \* a destructor set m_mutex free that another caller held (history)
  cpc,         \* caller -> where it is in doRequest
  hand,        \* caller -> the front of the list that it reads, or "none"
  using,       \* caller -> its connection, or "none"
  invalid,     \* caller -> connections getConnection took off the list to delete
  result       \* caller -> the outcome of its last request

hplock == <<hpMutex, hpStolen>>
hpvars == <<m_conns, m_total, m_request, connected, replies, spoilt, hplock, cpc, hand, using, invalid, result>>

NoConn == "none"
Nobody == "nobody"
Leftover == "leftover"
Pooled == {m_conns[i] : i \in DOMAIN m_conns}
InUse == {using[c] : c \in Callers} \ {NoConn}
Existing == Pooled \cup InUse \cup UNION {invalid[c] : c \in Callers}

(* conn->m_createTime + m_maxAliveTime > now, where m_createTime is never   *)
(* set: 0 and a 32-bit number of ms against the ms since 1970.              *)
m_createTime == 0
m_maxAliveTime == 2
now_ms == 3
TooOld == m_createTime + m_maxAliveTime > now_ms

HpInit ==
  /\ m_conns = <<>> /\ m_total = 0 /\ hpMutex = Nobody /\ hpStolen = FALSE
  /\ m_request = [n \in Conns |-> 0] /\ connected = {} /\ replies = [n \in Conns |-> <<>>]
  /\ spoilt = {} /\ cpc = [c \in Callers |-> "idle"]
  /\ hand = [c \in Callers |-> NoConn] /\ using = [c \in Callers |-> NoConn]
  /\ invalid = [c \in Callers |-> {}] /\ result = [c \in Callers |-> "none"]

(* Two callers are in the list m_conns at once: what becomes of it then is  *)
(* undefined, and no behaviour is followed any further.                     *)
InConns(c) == cpc[c] \in {"front", "pop", "push"}
Overlap == \E c, d \in Callers : c # d /\ InConns(c) /\ InConns(d)

HpGoto(c, pc) == cpc' = [cpc EXCEPT ![c] = pc]

Usable(n) == n \in connected /\ ~TooOld

(* lock() and unlock() of m_mutex; to unlock it sets it free, whoever holds *)
(* it.                                                                      *)
LockConns(c, at, next) ==
  /\ cpc[c] = at /\ hpMutex = Nobody /\ hpMutex' = c /\ HpGoto(c, next)
  /\ UNCHANGED <<m_conns, m_total, m_request, connected, replies, spoilt, hpStolen, hand, using, invalid, result>>
FreeConns(c) ==
  /\ hpMutex' = Nobody
  /\ hpStolen' = (hpStolen \/ hpMutex \notin {c, Nobody})

(* getConnection: the loop over the idle connections reads the front one    *)
TakeConn(c) ==
  /\ cpc[c] = "front" /\ using[c] = NoConn /\ m_conns # <<>> /\ HpGoto(c, "pop")
  /\ hand' = [hand EXCEPT ![c] = Head(m_conns)]
  /\ UNCHANGED <<m_conns, m_total, m_request, connected, replies, spoilt, hplock, using, invalid, result>>

(* and takes it off: the first usable one is it, those before are to go.    *)
PopConn(c) ==
  /\ cpc[c] = "pop" /\ HpGoto(c, "front")
  /\ m_conns' = SubSeq(m_conns, 2, Len(m_conns))
  /\ IF Usable(hand[c])
     THEN using' = [using EXCEPT ![c] = hand[c]] /\ UNCHANGED invalid
     ELSE invalid' = [invalid EXCEPT ![c] = @ \cup {hand[c]}] /\ UNCHANGED using
  /\ hand' = [hand EXCEPT ![c] = NoConn]
  /\ UNCHANGED <<m_total, m_request, connected, replies, spoilt, hplock, result>>

(* lock.unlock() after the loop                                             *)
UnlockConns(c) ==
  /\ cpc[c] = "front" /\ (using[c] # NoConn \/ m_conns = <<>>)
  /\ FreeConns(c) /\ HpGoto(c, "delete")
  /\ UNCHANGED <<m_conns, m_total, m_request, connected, replies, spoilt, hand, using, invalid, result>>

(* Mutant: m_total still counts the deleted connections.                    *)
DeleteInvalidUncounted(c) ==
  /\ cpc[c] = "delete"
  /\ invalid' = [invalid EXCEPT ![c] = {}] /\ connected' = connected \ invalid[c]
  /\ HpGoto(c, IF using[c] = NoConn THEN "connect" ELSE "drop")
  /\ UNCHANGED <<m_conns, m_total, m_request, replies, spoilt, hplock, hand, using, result>>

(* After the unlock the bad ones are deleted and counted.                   *)
DeleteInvalid(c) ==
  /\ cpc[c] = "delete"
  /\ m_total' = m_total - Cardinality(invalid[c])
  /\ invalid' = [invalid EXCEPT ![c] = {}] /\ connected' = connected \ invalid[c]
  /\ HpGoto(c, IF using[c] = NoConn THEN "connect" ELSE "drop")
  /\ UNCHANGED <<m_conns, m_request, replies, spoilt, hplock, hand, using, result>>

(* A new connection, or no address, no socket, or nobody who answers.       *)
Connect(c) ==
  /\ cpc[c] = "connect"
  /\ \E n \in Conns \ Existing :
       /\ using' = [using EXCEPT ![c] = n]
       /\ m_request' = [m_request EXCEPT ![n] = 0] /\ replies' = [replies EXCEPT ![n] = <<>>]
       /\ connected' = connected \cup {n} /\ spoilt' = spoilt \ {n}
  /\ m_total' = m_total + 1
  /\ HpGoto(c, "drop")
  /\ UNCHANGED <<m_conns, hplock, hand, invalid, result>>

ConnectFails(c) ==
  /\ cpc[c] = "connect"
  /\ result' = [result EXCEPT ![c] = "POOL_GET_CONNECTION"]
  /\ HpGoto(c, "drop")
  /\ UNCHANGED <<m_conns, m_total, m_request, connected, replies, spoilt, hplock, hand, using, invalid>>

(* ~ScopedLockImpl on the way out of getConnection: the second unlock       *)
DropConnsLock(c) ==
  /\ cpc[c] = "drop" /\ FreeConns(c)
  /\ HpGoto(c, IF using[c] = NoConn THEN "idle" ELSE "send")
  /\ UNCHANGED <<m_conns, m_total, m_request, connected, replies, spoilt, hand, using, invalid, result>>

(* sendRequest: the server will answer what it gets; on an error the        *)
(* connection goes back to the pool as it is, and fails its next user.      *)
SendRequest(c) ==
  /\ cpc[c] = "send"
  /\ \/ /\ using[c] \in connected
        /\ replies' = [replies EXCEPT ![using[c]] = Append(@, c)]
        /\ HpGoto(c, "recv")
        /\ UNCHANGED result
     \/ /\ result' \in {[result EXCEPT ![c] = e] : e \in {"SEND_CLOSE_BY_PEER", "SEND_SOCKET_ERROR"}}
        /\ HpGoto(c, "release")
        /\ UNCHANGED replies
  /\ UNCHANGED <<m_conns, m_total, m_request, connected, spoilt, hplock, hand, using, invalid>>

(* recvResponse has the next reply of the connection, or takes for one what *)
(* is left of the last.  A body that is neither chunked nor of a stated     *)
(* length it does not read: it stays on the socket.                         *)
RecvResponse(c) ==
  /\ cpc[c] = "recv" /\ replies[using[c]] # <<>>
  /\ result' = [result EXCEPT ![c] = Head(replies[using[c]])]
  /\ \/ replies' = [replies EXCEPT ![using[c]] = Tail(@)] /\ UNCHANGED spoilt
     \/ replies' = [replies EXCEPT ![using[c]] = <<Leftover>> \o Tail(@)] /\ spoilt' = spoilt \cup {using[c]}
  /\ HpGoto(c, "release")
  /\ UNCHANGED <<m_conns, m_total, m_request, connected, hplock, hand, using, invalid>>

(* Mutant: a connection whose reply did not come in time is not closed.     *)
RecvFailsStaysOpen(c) ==
  /\ cpc[c] = "recv"
  /\ result' = [result EXCEPT ![c] = "TIMEOUT"]
  /\ HpGoto(c, "release")
  /\ UNCHANGED <<m_conns, m_total, m_request, connected, replies, spoilt, hplock, hand, using, invalid>>

(* It fails, times out or meets the end: it closes the connection.          *)
RecvFails(c) ==
  /\ cpc[c] = "recv"
  /\ connected' = connected \ {using[c]}
  /\ result' = [result EXCEPT ![c] = "TIMEOUT"]
  /\ HpGoto(c, "release")
  /\ UNCHANGED <<m_conns, m_total, m_request, replies, spoilt, hplock, hand, using, invalid>>

(* ReleasePtr, when the last reference goes: count the request, delete a    *)
(* bad connection,                                                          *)
ReleasePtr(c) ==
  /\ cpc[c] = "release"
  /\ LET n == using[c]
         bad == n \notin connected \/ m_createTime + m_maxAliveTime >= now_ms
                  \/ m_request[n] + 1 >= MaxRequest
     IN /\ m_request' = [m_request EXCEPT ![n] = @ + 1]
        /\ \/ /\ bad /\ m_total' = m_total - 1 /\ connected' = connected \ {n}
              /\ using' = [using EXCEPT ![c] = NoConn] /\ HpGoto(c, "idle")
           \/ /\ ~bad /\ HpGoto(c, "return")
              /\ UNCHANGED <<m_total, connected, using>>
  /\ UNCHANGED <<m_conns, replies, spoilt, hplock, hand, invalid, result>>

(* or put it back, under the lock, which the destructor unlocks.            *)
PushConn(c) ==
  /\ cpc[c] = "push" /\ FreeConns(c) /\ HpGoto(c, "idle")
  /\ m_conns' = Append(m_conns, using[c]) /\ using' = [using EXCEPT ![c] = NoConn]
  /\ UNCHANGED <<m_total, m_request, connected, replies, spoilt, hand, invalid, result>>

(* Somebody who kept the Socket of an idle connection closes it.            *)
SocketCloses(n) ==
  /\ n \in connected \ InUse
  /\ connected' = connected \ {n}
  /\ UNCHANGED <<m_conns, m_total, m_request, replies, spoilt, hplock, cpc, hand, using, invalid, result>>

GetConnection(c) ==
  \/ LockConns(c, "idle", "front") \/ TakeConn(c) \/ PopConn(c) \/ UnlockConns(c) \/ DeleteInvalid(c)
  \/ Connect(c) \/ ConnectFails(c) \/ DropConnsLock(c)

HpNext ==
  /\ ~Overlap
  /\ \/ \E c \in Callers : \/ GetConnection(c) \/ SendRequest(c) \/ RecvResponse(c) \/ RecvFails(c)
                           \/ ReleasePtr(c) \/ LockConns(c, "return", "push") \/ PushConn(c)
     \/ \E n \in Conns : SocketCloses(n)

HpSpec == HpInit /\ [][HpNext]_hpvars
-----------------------------------------------------------------------------
(* Two callers are in m_conns at once only when a second unlock of          *)
(* getConnection has set free the lock of one.  Until then a connection is  *)
(* idle once, or used by one caller, or about to be deleted by one caller,  *)
(* and m_total counts exactly these, although it is changed outside the     *)
(* lock.                                                                    *)
PoolCounts ==
  /\ Overlap => hpStolen
  /\ m_total = Cardinality(Existing)
  /\ Cardinality(Existing) = Len(m_conns) + Cardinality({c \in Callers : using[c] # NoConn})
                               + Cardinality(UNION {invalid[c] : c \in Callers})

(* Until then the response that a caller gets answers its own request, also *)
(* after other callers gave up waiting on the connections it got, unless an *)
(* earlier reply on the connection was not read to its end.                 *)
ReplyIsOwn ==
  \A c \in Callers : cpc[c] = "release" /\ result[c] \in Callers => result[c] = c \/ using[c] \in spoilt
=============================================================================
