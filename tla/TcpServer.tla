----------------------------- MODULE TcpServer ------------------------------
(***************************************************************************)
(* TcpServer (src/tcp_server.cc) and the listening side of Socket          *)
(* (src/socket.cc): bind, start, stop, the accept fibers that start()      *)
(* makes and the task that stop() leaves for the accept worker.  A Socket  *)
(* lives as long as m_socks or a fiber refers to it and its destructor     *)
(* closes it.  m_socks has no lock: what bind() or a second task of stop() *)
(* does to it while a task of stop() walks it is undefined and left out.   *)
(***************************************************************************)
EXTENDS Naturals, Sequences, Functions

CONSTANTS Addrs,          \* the addresses a server is asked to bind
          MaxSockets,     \* sockets made in a run
          MaxStarts       \* calls of start(), and of stop()

ASSUME TcpServerAssumption == MaxSockets \in Nat /\ MaxStarts \in Nat

VARIABLES
  m_socks,       \* the sockets bound and listening, in order
  listener,      \* every socket made: [addr, open]
  m_isStop,
  accepters,     \* startAccept calls: [sock, start, pc, late]; start numbers
                 \* start(), late tells a wait begun just before close_f (history)
  stopTasks,     \* tasks of stop() that the accept worker has not finished
  stopAt,        \* the index in m_socks that the running task is at, or 0
  stopStep,      \* and the call it makes next there
  startCalls, stopCalls,
  accepted,      \* clients given to m_ioWorker: 0, 1 or more
  overlapped,    \* start() came before the last stop() was over (history)
  orphaned,      \* a bind failed while accept fibers were there (history)
  serverGone     \* the destructor has run

tsvars == <<m_socks, listener, m_isStop, accepters, stopTasks, stopAt, stopStep, startCalls,
            stopCalls, accepted, overlapped, orphaned, serverGone>>

TsInit ==
  /\ m_socks = <<>> /\ listener = <<>> /\ m_isStop = TRUE /\ accepters = {}
  /\ stopTasks = 0 /\ stopAt = 0 /\ stopStep = "cancelAll" /\ startCalls = 0 /\ stopCalls = 0 /\ accepted = 0
  /\ overlapped = FALSE /\ orphaned = FALSE /\ serverGone = FALSE

(* Socket::close, and the destructor of each socket nobody refers to        *)
CloseSockets(socks, which) ==
  [i \in DOMAIN socks |-> IF i \in which THEN [socks[i] EXCEPT !.open = FALSE] ELSE socks[i]]
Referred(list, fibers) == Range(list) \cup {f.sock : f \in fibers}

(* Socket::bind and Socket::listen of one address: the address is in use    *)
(* while another socket listens on it; each call may fail otherwise.        *)
CanBind(addr) == \A i \in DOMAIN listener : ~(listener[i].addr = addr /\ listener[i].open)

(* TcpServer::bind: a list of addresses, one of which may be there twice.   *)
(* When some of them fail (bad), m_socks is emptied, the sockets of earlier *)
(* calls included.                                                          *)
Bind(addrs, bad) ==
  /\ ~serverGone /\ stopAt = 0 /\ Len(listener) + Len(addrs) <= MaxSockets
  /\ \A k \in DOMAIN addrs \ bad :
        CanBind(addrs[k]) /\ \A j \in 1..(k - 1) : addrs[j] = addrs[k] => j \in bad
  /\ LET made == listener \o [k \in DOMAIN addrs |-> [addr |-> addrs[k], open |-> k \notin bad]]
     IN IF bad = {}
        THEN /\ m_socks' = m_socks \o [k \in DOMAIN addrs |-> Len(listener) + k]
             /\ listener' = made /\ UNCHANGED orphaned
        ELSE /\ m_socks' = <<>>
             /\ listener' = CloseSockets(made, DOMAIN made \ Referred(<<>>, accepters))
             /\ orphaned' = (orphaned \/ accepters # {})
  /\ UNCHANGED <<m_isStop, accepters, stopTasks, stopAt, stopStep, startCalls, stopCalls,
                 accepted, overlapped, serverGone>>

Start ==
  /\ ~serverGone /\ startCalls < MaxStarts
  /\ IF ~m_isStop THEN UNCHANGED <<m_isStop, startCalls, accepters, overlapped>>
     ELSE /\ m_isStop' = FALSE /\ startCalls' = startCalls + 1
          /\ accepters' = accepters \cup
               {[sock |-> m_socks[k], start |-> startCalls', pc |-> "queued",
                 late |-> FALSE] : k \in DOMAIN m_socks}
          /\ overlapped' = (overlapped \/ stopTasks > 0 \/ accepters # {})
  /\ UNCHANGED <<m_socks, listener, stopTasks, stopAt, stopStep, stopCalls, accepted,
                 orphaned, serverGone>>

Stop ==
  /\ ~serverGone /\ stopCalls < MaxStarts
  /\ m_isStop' = TRUE /\ stopTasks' = stopTasks + 1 /\ stopCalls' = stopCalls + 1
  /\ UNCHANGED <<m_socks, listener, accepters, stopAt, stopStep, startCalls, accepted,
                 overlapped, orphaned, serverGone>>

(* The task of stop(), on the accept worker: for each socket cancelAll(),   *)
(* then close(), whose hook calls cancelAll() once more before close_f().   *)
(* A fiber that was woken finds no client and may wait again between the    *)
(* last two, when the worker has another thread: nothing ends that wait.    *)
StopTask ==
  /\ stopTasks > 0 /\ stopAt = 0 /\ stopAt' = 1 /\ stopStep' = "cancelAll"
  /\ UNCHANGED <<m_socks, listener, m_isStop, accepters, stopTasks, startCalls, stopCalls,
                 accepted, overlapped, orphaned, serverGone>>

(* The wait in accept() is over; do_io calls accept_f again.                *)
Woken(f) == [f EXCEPT !.pc = "accept", !.late = FALSE]

(* Mutant: close() does not wake who waits.                                 *)
StopCancelsNobody ==
  /\ stopAt \in DOMAIN m_socks /\ stopStep \in {"cancelAll", "close"}
  /\ stopStep' = IF stopStep = "cancelAll" THEN "close" ELSE "close_f"
  /\ UNCHANGED <<m_socks, listener, m_isStop, accepters, stopTasks, stopAt, startCalls,
                 stopCalls, accepted, overlapped, orphaned, serverGone>>

StopCancels ==
  /\ stopAt \in DOMAIN m_socks /\ stopStep \in {"cancelAll", "close"}
  /\ accepters' = {IF f.sock = m_socks[stopAt] /\ f.pc = "waiting" THEN Woken(f) ELSE f :
                      f \in accepters}
  /\ stopStep' = IF stopStep = "cancelAll" THEN "close" ELSE "close_f"
  /\ UNCHANGED <<m_socks, listener, m_isStop, stopTasks, stopAt, startCalls, stopCalls,
                 accepted, overlapped, orphaned, serverGone>>

StopCloses ==
  /\ stopAt \in DOMAIN m_socks /\ stopStep = "close_f"
  /\ listener' = CloseSockets(listener, {m_socks[stopAt]})
  /\ stopAt' = stopAt + 1 /\ stopStep' = "cancelAll"
  /\ UNCHANGED <<m_socks, m_isStop, accepters, stopTasks, startCalls, stopCalls, accepted,
                 overlapped, orphaned, serverGone>>

StopTaskEnds ==
  /\ stopAt = Len(m_socks) + 1 /\ stopAt' = 0 /\ m_socks' = <<>>
  /\ stopTasks' = stopTasks - 1
  /\ UNCHANGED <<listener, m_isStop, accepters, stopStep, startCalls, stopCalls, accepted,
                 overlapped, orphaned, serverGone>>

(* startAccept: the test of m_isStop, then accept()                         *)
LoopTest(f) ==
  /\ f.pc \in {"queued", "loop"}
  /\ LET rest == accepters \ {f}
     IN IF m_isStop
        THEN /\ accepters' = rest
             /\ listener' = CloseSockets(listener, {f.sock} \ Referred(m_socks, rest))
        ELSE accepters' = rest \cup {[f EXCEPT !.pc = "accept"]} /\ UNCHANGED listener
  /\ UNCHANGED <<m_socks, m_isStop, stopTasks, stopAt, stopStep, startCalls, stopCalls,
                 accepted, overlapped, orphaned, serverGone>>

(* accept() returns: a client, or nothing when the socket is closed or the  *)
(* new one can not be set up; the fiber tests m_isStop again.               *)
AcceptReturns(f, client) ==
  /\ f.pc = "accept" /\ (client => listener[f.sock].open)
  /\ accepters' = (accepters \ {f}) \cup {[f EXCEPT !.pc = "loop"]}
  /\ accepted' = IF client /\ accepted < 2 THEN accepted + 1 ELSE accepted
  /\ UNCHANGED <<m_socks, listener, m_isStop, stopTasks, stopAt, stopStep, startCalls,
                 stopCalls, overlapped, orphaned, serverGone>>

(* There is no client: do_io has addEvent wait for one on an open socket.   *)
AcceptWaits(f) ==
  /\ f.pc = "accept" /\ listener[f.sock].open
  /\ LET late == /\ stopAt \in DOMAIN m_socks /\ m_socks[stopAt] = f.sock
                 /\ stopStep = "close_f"
     IN accepters' = (accepters \ {f}) \cup {[f EXCEPT !.pc = "waiting", !.late = late]}
  /\ UNCHANGED <<m_socks, listener, m_isStop, stopTasks, stopAt, stopStep, startCalls,
                 stopCalls, accepted, overlapped, orphaned, serverGone>>

ClientArrives(f) ==
  /\ f.pc = "waiting" /\ listener[f.sock].open
  /\ accepters' = (accepters \ {f}) \cup {Woken(f)}
  /\ UNCHANGED <<m_socks, listener, m_isStop, stopTasks, stopAt, stopStep, startCalls,
                 stopCalls, accepted, overlapped, orphaned, serverGone>>

(* The destructor: each task and fiber holds a reference.                   *)
Destroy ==
  /\ accepters = {} /\ stopTasks = 0 /\ ~serverGone /\ serverGone' = TRUE
  /\ listener' = CloseSockets(listener, Range(m_socks)) /\ m_socks' = <<>>
  /\ UNCHANGED <<m_isStop, accepters, stopTasks, stopAt, stopStep, startCalls, stopCalls,
                 accepted, overlapped, orphaned>>

TsNext ==
  \/ \E n \in 1..MaxSockets : \E addrs \in [1..n -> Addrs], bad \in SUBSET (1..n) : Bind(addrs, bad)
  \/ Start \/ Stop \/ StopTask \/ StopCancels \/ StopCloses \/ StopTaskEnds \/ Destroy
  \/ \E f \in accepters :
       \/ LoopTest(f) \/ AcceptWaits(f) \/ ClientArrives(f)
       \/ \E client \in BOOLEAN : AcceptReturns(f, client)

TsSpec == TsInit /\ [][TsNext]_tsvars
-----------------------------------------------------------------------------
(* Without a start() that overtakes the end of a stop(): a fiber never      *)
(* loops on a closed socket of a running server, at most one waits on a     *)
(* socket (addEvent aborts otherwise), and once the task of stop() is done  *)
(* no fiber has an open socket, unless a later bind that failed made the    *)
(* server forget the socket.  A fiber is left to wait on a closed socket    *)
(* only if it began to between the last cancelAll and close_f; the others   *)
(* have an accept() that fails before them, and then m_isStop.  But for     *)
(* what a task has closed, what m_socks holds is open; and every open       *)
(* socket is in m_socks or has its fiber.                                   *)
AcceptersEnd ==
  /\ \A f \in accepters : ~listener[f.sock].open /\ ~m_isStop => overlapped
  /\ \A f, g \in accepters : f.sock = g.sock /\ f # g => overlapped
  /\ m_isStop /\ stopTasks = 0 /\ ~overlapped /\ ~orphaned =>
       \A f \in accepters : ~listener[f.sock].open
  /\ \A f \in accepters : f.pc = "waiting" /\ ~listener[f.sock].open => f.late
  /\ stopAt = 0 => \A i \in DOMAIN listener : i \in Range(m_socks) => listener[i].open
  /\ \A i \in DOMAIN listener : listener[i].open => i \in Referred(m_socks, accepters)
=============================================================================
