---------------------------- MODULE ServiceProofs ----------------------------
(***************************************************************************)
(* Proofs about the services that are configured, started and stopped:     *)
(* FdManager under the hooks, ConfigVar and the file it is loaded from,    *)
(* the loggers that follow the configuration, the pid file of the daemon,  *)
(* the sockets of TcpServer and ServletDispatch; for any number of threads,*)
(* descriptors, listeners, loggers, launches, sockets and servlets.        *)
(***************************************************************************)
EXTENDS FdManager, ConfigVar, LogConfig, Application, TcpServer, Servlet, FiniteSetTheorems,
        SequenceTheorems, WellFoundedInduction, TLAPS

-----------------------------------------------------------------------------
(* FdManager *)

FdKernel == [open : BOOLEAN, socket : BOOLEAN, nonblock : BOOLEAN]
FdContexts == [isInit : BOOLEAN, isSocket : BOOLEAN, sysNonblock : BOOLEAN,
               userNonblock : BOOLEAN, recvTimeout : Int]
FdWants == [nonblock : BOOLEAN, timeout : Int]
FdPlaces(f) == {<<"get", f>>, <<"create", f>>}

FdType ==
  /\ kernel \in [Fds -> FdKernel] /\ m_datas \in [Fds -> FdContexts]
  /\ wanted \in [Fds -> FdWants]
  /\ lost \in [Fds -> SUBSET {"context", "flags", "blocking", "timeout"}]
  /\ fpc \in [FdThreads -> {<<"idle">>} \cup UNION {FdPlaces(f) : f \in Fds}]

(* Somebody is inside get(f, true).                                         *)
Making(f) == \E t \in FdThreads : fpc[t] \in FdPlaces(f)

(* One thread makes the context of a descriptor.                            *)
OneMaker ==
  \A t, u \in FdThreads, f \in Fds :
    fpc[t] \in FdPlaces(f) /\ fpc[u] \in FdPlaces(f) => t = u

(* Context c serves a descriptor of which the kernel holds k and the user   *)
(* wants w: an open socket has the one that FdCtx::init gave it, with what  *)
(* the user has asked for since; a closed number, a file or a pipe has none.*)
Serves(c, k, w, l) ==
  IF k.open /\ k.socket
  THEN /\ c.isInit /\ c.isSocket /\ c.sysNonblock
       /\ "blocking" \notin l => k.nonblock
       /\ "flags" \notin l => c.userNonblock = w.nonblock
       /\ "timeout" \notin l => WaitsFor(c.recvTimeout, w.timeout)
  ELSE c = NoCtx

(* A context is made for a socket that is open and new.                     *)
ContextTrue(f) ==
  /\ m_datas[f].isInit \/ m_datas[f] = NoCtx
  /\ Making(f) => /\ kernel[f].open /\ kernel[f].socket /\ wanted[f].timeout = NoTimeout
                  /\ wanted[f].nonblock => "flags" \in lost[f]
  /\ "context" \notin lost[f] =>
       IF Making(f) THEN m_datas[f] = NoCtx
       ELSE Serves(m_datas[f], kernel[f], wanted[f], lost[f])

FdInv == FdType /\ OneMaker /\ \A f \in Fds : ContextTrue(f)

(* What NoCtx and the records of new and closed descriptors are.            *)
LEMMA FdRecords ==
  /\ NoTimeout \in Int /\ NoTimeout < 0
  /\ NoCtx \in FdContexts /\ ~NoCtx.isInit /\ ~NoCtx.userNonblock
  /\ NoCtx.recvTimeout = NoTimeout
  /\ Closed \in FdKernel /\ ~Closed.open
  /\ \A n \in BOOLEAN : /\ Opened(n) \in FdWants /\ Opened(n).nonblock = n
                        /\ Opened(n).timeout = NoTimeout
  <1>1. NoTimeout \in Int /\ NoTimeout < 0
    BY DEF NoTimeout
  <1> QED
    BY <1>1 DEF NoCtx, FdContexts, Closed, FdKernel, Opened, FdWants

(* Whole milliseconds are at most one short of the microseconds asked for.  *)
LEMMA WholeMs ==
  ASSUME FdAssumption, NEW us \in Timevals
  PROVE  /\ us \in Nat /\ us \div UsecPerMs \in Int
         /\ WaitsFor(us \div UsecPerMs, us)
  <1>1. us \in Nat /\ UsecPerMs \in Nat /\ UsecPerMs > 0
    BY DEF FdAssumption
  <1> DEFINE q == us \div UsecPerMs
  <1>2. q \in Int /\ q * UsecPerMs <= us /\ us < q * UsecPerMs + UsecPerMs
    BY <1>1
  <1>3. us # NoTimeout
    BY <1>1, FdRecords
  <1> QED
    BY <1>1, <1>2, <1>3 DEF WaitsFor

LEMMA FdInitInv == FdInit => FdInv
  <1> SUFFICES ASSUME FdInit PROVE FdInv
    OBVIOUS
  <1>1. FdType
    BY FdRecords DEF FdInit, FdType
  <1>2. ASSUME NEW f \in Fds PROVE ContextTrue(f) /\ ~Making(f)
    BY FdRecords DEF FdInit, Making, FdPlaces, ContextTrue, Serves
  <1> QED
    BY <1>1, <1>2 DEF FdInv, OneMaker, Making

(* What a step has to show that concerns one descriptor only.               *)
LEMMA FdOthers ==
  ASSUME FdInv, FdType', NEW f \in Fds,
         \A g \in Fds : g # f =>
           /\ kernel'[g] = kernel[g] /\ m_datas'[g] = m_datas[g] /\ wanted'[g] = wanted[g]
           /\ lost'[g] = lost[g],
         \A t \in FdThreads, g \in Fds : g # f =>
           (fpc'[t] \in FdPlaces(g) <=> fpc[t] \in FdPlaces(g)),
         \A t, u \in FdThreads :
           fpc'[t] \in FdPlaces(f) /\ fpc'[u] \in FdPlaces(f) => t = u,
         ContextTrue(f)'
  PROVE  FdInv'
  <1>1. OneMaker'
    BY DEF FdInv, OneMaker
  <1>2. ASSUME NEW g \in Fds PROVE ContextTrue(g)'
    <2>1. CASE g # f
      <3>1. Making(g)' <=> Making(g)
        BY <2>1 DEF Making
      <3>2. ContextTrue(g)
        BY DEF FdInv
      <3> QED
        BY <2>1, <3>1, <3>2 DEF ContextTrue
    <2> QED
      BY <2>1
  <1> QED
    BY <1>1, <1>2 DEF FdInv

(* Threads are in one place.                                                *)
LEMMA FdPlacesDiffer ==
  /\ \A f \in Fds : <<"idle">> \notin FdPlaces(f)
  /\ \A f, g \in Fds : f # g => FdPlaces(f) \cap FdPlaces(g) = {}
  BY DEF FdPlaces

(* A number that the kernel opens has nobody inside get() for it.           *)
LEMMA KernelOpensInv ==
  ASSUME FdInv, NEW t \in FdThreads, NEW f \in Fds, NEW s \in BOOLEAN, NEW n \in BOOLEAN,
         KernelOpens(t, f, s, n)
  PROVE  /\ kernel' \in [Fds -> FdKernel] /\ wanted' \in [Fds -> FdWants]
         /\ kernel'[f].open /\ kernel'[f].socket = s
         /\ wanted'[f].nonblock = n /\ wanted'[f].timeout = NoTimeout
         /\ m_datas' = m_datas /\ ("context" \notin lost[f] => m_datas[f] = NoCtx)
         /\ m_datas[f].isInit \/ m_datas[f] = NoCtx
         /\ ~Making(f) /\ fpc[t] = <<"idle">>
         /\ \A g \in Fds : g # f => kernel'[g] = kernel[g] /\ wanted'[g] = wanted[g]
  <1> USE DEF KernelOpens
  <1> DEFINE k == [open |-> TRUE, socket |-> s, nonblock |-> n]
  <1>1. k \in FdKernel /\ k.open /\ k.socket = s /\ Opened(n) \in FdWants
    BY FdRecords DEF FdKernel
  <1>2. kernel' = [kernel EXCEPT ![f] = k] /\ wanted' = [wanted EXCEPT ![f] = Opened(n)]
    OBVIOUS
  <1>3. /\ ~Making(f) /\ ("context" \notin lost[f] => m_datas[f] = NoCtx)
        /\ m_datas[f].isInit \/ m_datas[f] = NoCtx
    BY DEF FdInv, ContextTrue, Serves
  <1> HIDE DEF k
  <1>4. /\ kernel' \in [Fds -> FdKernel] /\ wanted' \in [Fds -> FdWants]
        /\ kernel'[f] = k /\ wanted'[f] = Opened(n)
        /\ \A g \in Fds : g # f => kernel'[g] = kernel[g] /\ wanted'[g] = wanted[g]
    BY <1>1, <1>2 DEF FdInv, FdType
  <1> QED
    BY <1>1, <1>3, <1>4, FdRecords

LEMMA OpenFdInv ==
  ASSUME FdInv, NEW t \in FdThreads, NEW f \in Fds, NEW n \in BOOLEAN, OpenFd(t, f, n)
  PROVE  FdInv'
  <1> USE DEF OpenFd
  <1>0. KernelOpens(t, f, TRUE, n) /\ TRUE \in BOOLEAN
    OBVIOUS
  <1>1. /\ kernel' \in [Fds -> FdKernel] /\ wanted' \in [Fds -> FdWants]
        /\ kernel'[f].open /\ kernel'[f].socket = TRUE
        /\ wanted'[f].nonblock = n /\ wanted'[f].timeout = NoTimeout
        /\ m_datas' = m_datas /\ ("context" \notin lost[f] => m_datas[f] = NoCtx)
        /\ m_datas[f].isInit \/ m_datas[f] = NoCtx
        /\ ~Making(f) /\ fpc[t] = <<"idle">>
        /\ \A g \in Fds : g # f => kernel'[g] = kernel[g] /\ wanted'[g] = wanted[g]
    BY <1>0, KernelOpensInv, Zenon
  <1>2. <<"get", f>> \in UNION {FdPlaces(g) : g \in Fds}
    BY DEF FdPlaces
  <1>3. /\ lost' \in [Fds -> SUBSET {"context", "flags", "blocking", "timeout"}]
        /\ n => "flags" \in lost'[f]
        /\ "context" \in lost'[f] <=> "context" \in lost[f]
        /\ \A g \in Fds : g # f => lost'[g] = lost[g]
    BY DEF FdInv, FdType
  <1>4. FdType'
    BY <1>1, <1>2, <1>3 DEF FdInv, FdType
  <1>5. fpc'[t] = <<"get", f>> /\ Making(f)'
    BY DEF Making, FdPlaces, FdInv, FdType
  <1>6. ContextTrue(f)'
    BY <1>1, <1>3, <1>5 DEF ContextTrue
  <1>7. \A u \in FdThreads, g \in Fds : g # f =>
          (fpc'[u] \in FdPlaces(g) <=> fpc[u] \in FdPlaces(g))
    BY <1>1, <1>5, FdPlacesDiffer DEF FdInv, FdType, FdPlaces
  <1>8. \A u \in FdThreads : fpc'[u] \in FdPlaces(f) => u = t
    BY <1>1 DEF FdInv, FdType, Making
  <1> QED
    BY <1>1, <1>3, <1>4, <1>6, <1>7, <1>8, FdOthers

LEMMA OpenUnhookedInv ==
  ASSUME FdInv, NEW t \in FdThreads, NEW f \in Fds, NEW s \in BOOLEAN, NEW n \in BOOLEAN,
         OpenUnhooked(t, f, s, n)
  PROVE  FdInv'
  <1> USE DEF OpenUnhooked
  <1>1. KernelOpens(t, f, s, n) /\ fpc' = fpc
    OBVIOUS
  <1>2. /\ lost' \in [Fds -> SUBSET {"context", "flags", "blocking", "timeout"}]
        /\ s => "context" \in lost'[f]
        /\ ~s => lost'[f] = lost[f]
        /\ \A g \in Fds : g # f => lost'[g] = lost[g]
    BY DEF FdInv, FdType
  <1>3. FdType'
    BY <1>1, <1>2, KernelOpensInv DEF FdInv, FdType
  <1>4. ~Making(f)'
    BY <1>1, KernelOpensInv DEF Making
  <1>5. ContextTrue(f)'
    BY <1>1, <1>2, <1>4, KernelOpensInv DEF ContextTrue, Serves
  <1> QED
    BY <1>1, <1>2, <1>3, <1>4, <1>5, KernelOpensInv, FdOthers DEF Making

LEMMA GetLookupInv ==
  ASSUME FdInv, NEW t \in FdThreads, NEW f \in Fds, GetLookup(t, f)
  PROVE  FdInv'
  <1> USE DEF GetLookup
  <1>1. Making(f) /\ fpc[t] \in FdPlaces(f) /\ ~NoCtx.isInit
    BY FdRecords DEF Making, FdPlaces
  <1>2. FdType' /\ fpc'[t] = IF m_datas[f].isInit THEN <<"idle">> ELSE <<"create", f>>
    BY DEF FdInv, FdType, FdPlaces
  <1>3. /\ kernel[f].open /\ kernel[f].socket /\ (m_datas[f].isInit \/ m_datas[f] = NoCtx)
        /\ "context" \notin lost[f] => m_datas[f] = NoCtx
        /\ wanted[f].timeout = NoTimeout /\ (wanted[f].nonblock => "flags" \in lost[f])
    BY <1>1 DEF FdInv, ContextTrue
  <1>4. \A u \in FdThreads : fpc'[u] \in FdPlaces(f) => u = t
    BY <1>1 DEF FdInv, FdType, OneMaker
  <1>5. m_datas[f].isInit \/ Making(f)'
    BY <1>2 DEF Making, FdPlaces
  <1>6. ContextTrue(f)'
    BY <1>1, <1>3, <1>5 DEF ContextTrue
  <1>7. \A u \in FdThreads, g \in Fds : g # f =>
          (fpc'[u] \in FdPlaces(g) <=> fpc[u] \in FdPlaces(g))
    BY <1>1, <1>2, FdPlacesDiffer DEF FdInv, FdType, FdPlaces
  <1> QED
    BY <1>2, <1>4, <1>6, <1>7, FdOthers

LEMMA GetCreateInv ==
  ASSUME FdInv, NEW t \in FdThreads, NEW f \in Fds, GetCreate(t, f)
  PROVE  FdInv'
  <1> USE DEF GetCreate
  <1>1. /\ Making(f) /\ fpc[t] \in FdPlaces(f)
        /\ kernel[f].open /\ kernel[f].socket /\ wanted[f].timeout = NoTimeout
        /\ wanted[f].nonblock => "flags" \in lost[f]
    BY DEF FdInv, ContextTrue, Making, FdPlaces
  <1>2. /\ kernel'[f].open /\ kernel'[f].socket /\ kernel'[f].nonblock
        /\ kernel' \in [Fds -> FdKernel]
        /\ \A g \in Fds : g # f => kernel'[g] = kernel[g]
    BY <1>1 DEF FdInv, FdType, FdKernel
  <1>3. /\ FdCtxInit(f) \in FdContexts
        /\ FdCtxInit(f).isInit /\ FdCtxInit(f).isSocket
        /\ FdCtxInit(f).sysNonblock
        /\ FdCtxInit(f).userNonblock = FALSE /\ FdCtxInit(f).recvTimeout = NoTimeout
    BY <1>1, FdRecords DEF FdCtxInit, FdContexts, NoCtx
  <1>4. FdType' /\ m_datas'[f] = FdCtxInit(f) /\ fpc'[t] = <<"idle">>
    BY <1>2, <1>3 DEF FdInv, FdType
  <1>5. ~Making(f)'
    BY <1>1, <1>4, FdPlacesDiffer DEF FdInv, FdType, OneMaker, Making
  <1>6. ContextTrue(f)'
    <2>1. wanted'[f].nonblock \in BOOLEAN /\ ("flags" \notin lost'[f] => wanted'[f].nonblock = FALSE)
      BY <1>1 DEF FdInv, FdType, FdWants
    <2>2. WaitsFor(m_datas'[f].recvTimeout, wanted'[f].timeout)
      BY <1>1, <1>3, <1>4 DEF WaitsFor
    <2>3. Serves(m_datas'[f], kernel'[f], wanted'[f], lost'[f])
      BY <1>2, <1>3, <1>4, <2>1, <2>2 DEF Serves
    <2> QED
      BY <1>3, <1>4, <1>5, <2>3 DEF ContextTrue
  <1>7. \A g \in Fds : g # f =>
          /\ kernel'[g] = kernel[g] /\ m_datas'[g] = m_datas[g]
          /\ wanted'[g] = wanted[g] /\ lost'[g] = lost[g]
    BY <1>2 DEF FdInv, FdType
  <1>8. \A u \in FdThreads, g \in Fds : g # f =>
          (fpc'[u] \in FdPlaces(g) <=> fpc[u] \in FdPlaces(g))
    BY <1>1, <1>4, FdPlacesDiffer DEF FdInv, FdType
  <1>9. \A u \in FdThreads : fpc'[u] \notin FdPlaces(f)
    BY <1>5 DEF Making
  <1> QED
    BY <1>4, <1>6, <1>7, <1>8, <1>9, FdOthers

(* The calls on a descriptor in use leave the threads where they are.       *)
LEMMA FdUses ==
  ASSUME FdInv, FdType', NEW t \in FdThreads, NEW f \in Fds, UsedBy(t, f), UNCHANGED fpc,
         \A g \in Fds : g # f =>
           /\ kernel'[g] = kernel[g] /\ m_datas'[g] = m_datas[g] /\ wanted'[g] = wanted[g]
           /\ lost'[g] = lost[g],
         m_datas'[f].isInit \/ m_datas'[f] = NoCtx,
         "context" \notin lost'[f] => Serves(m_datas'[f], kernel'[f], wanted'[f], lost'[f])
  PROVE  FdInv'
  <1>1. ~Making(f)'
    BY DEF UsedBy, Making, FdPlaces
  <1>2. ContextTrue(f)'
    BY <1>1 DEF ContextTrue
  <1> QED
    BY <1>1, <1>2, FdOthers DEF Making

LEMMA InUse ==
  ASSUME FdInv, NEW t \in FdThreads, NEW f \in Fds, UsedBy(t, f), "context" \notin lost[f]
  PROVE  Serves(m_datas[f], kernel[f], wanted[f], lost[f])
  <1>1. ~Making(f)
    BY DEF UsedBy, Making, FdPlaces
  <1> QED
    BY <1>1 DEF FdInv, ContextTrue

(* Whether the flag goes to the kernel through fcntl or ioctl: a hooked     *)
(* socket shows it, and is non-blocking but after ioctl(fd, FIONBIO, 0).    *)
LEMMA FlagsInv ==
  ASSUME FdInv, NEW t \in FdThreads, NEW f \in Fds, NEW v \in BOOLEAN,
         FcntlSetFl(t, f, v) \/ IoctlFionbio(t, f, v)
  PROVE  FdInv'
  <1>1. UsedBy(t, f) /\ UNCHANGED fpc
    BY DEF FcntlSetFl, IoctlFionbio
  <1>2. /\ wanted' \in [Fds -> FdWants]
        /\ wanted'[f].nonblock = v /\ wanted'[f].timeout = wanted[f].timeout
        /\ \A g \in Fds : g # f => wanted'[g] = wanted[g]
    BY DEF FcntlSetFl, IoctlFionbio, FdInv, FdType, FdWants
  <1>3. /\ m_datas' \in [Fds -> FdContexts]
        /\ m_datas'[f].isInit = m_datas[f].isInit /\ m_datas'[f].isSocket = m_datas[f].isSocket
        /\ m_datas'[f].sysNonblock = m_datas[f].sysNonblock
        /\ m_datas'[f].recvTimeout = m_datas[f].recvTimeout
        /\ IF Hooked(f) THEN m_datas'[f].userNonblock = v ELSE m_datas' = m_datas
        /\ \A g \in Fds : g # f => m_datas'[g] = m_datas[g]
    BY DEF FcntlSetFl, IoctlFionbio, FdInv, FdType, FdContexts
  <1>4. /\ lost' \in [Fds -> SUBSET {"context", "flags", "blocking", "timeout"}]
        /\ "context" \in lost'[f] <=> "context" \in lost[f]
        /\ "timeout" \in lost'[f] <=> "timeout" \in lost[f]
        /\ \A g \in Fds : g # f => lost'[g] = lost[g]
    BY DEF FcntlSetFl, IoctlFionbio, FdInv, FdType
  <1>5. /\ kernel' \in [Fds -> FdKernel]
        /\ kernel'[f].open = kernel[f].open /\ kernel'[f].socket = kernel[f].socket
        /\ \A g \in Fds : g # f => kernel'[g] = kernel[g]
    BY DEF FcntlSetFl, IoctlFionbio, FdInv, FdType, FdKernel, FdContexts
  <1>6. ASSUME Hooked(f), m_datas[f].sysNonblock
        PROVE  "blocking" \notin lost'[f] => kernel'[f].nonblock
    BY <1>6 DEF FcntlSetFl, IoctlFionbio, FdInv, FdType, FdKernel, FdContexts
  <1>7. FdType'
    BY <1>1, <1>2, <1>3, <1>4, <1>5 DEF FdInv, FdType
  <1>8. ASSUME "context" \notin lost'[f]
        PROVE  Serves(m_datas'[f], kernel'[f], wanted'[f], lost'[f])
    <2>1. Serves(m_datas[f], kernel[f], wanted[f], lost[f])
      BY <1>1, <1>4, <1>8, InUse
    <2>2. CASE kernel[f].open /\ kernel[f].socket
      <3>1. Hooked(f) /\ m_datas[f].isInit /\ m_datas[f].isSocket /\ m_datas[f].sysNonblock
            /\ ("timeout" \notin lost[f] => WaitsFor(m_datas[f].recvTimeout, wanted[f].timeout))
        BY <2>1, <2>2 DEF Serves, Hooked
      <3> QED
        BY <1>2, <1>3, <1>4, <1>5, <1>6, <2>2, <3>1 DEF Serves
    <2>3. CASE ~(kernel[f].open /\ kernel[f].socket)
      <3>1. m_datas[f] = NoCtx /\ ~Hooked(f)
        BY <2>1, <2>3, FdRecords DEF Serves, Hooked
      <3> QED
        BY <1>3, <1>5, <2>3, <3>1 DEF Serves
    <2> QED
      BY <2>2, <2>3
  <1>9. m_datas'[f].isInit \/ m_datas'[f] = NoCtx
    BY <1>3 DEF FdInv, ContextTrue, Hooked
  <1> QED
    BY <1>1, <1>2, <1>3, <1>4, <1>5, <1>7, <1>8, <1>9, FdUses

LEMMA SetSockOptInv ==
  ASSUME FdAssumption, FdInv, NEW t \in FdThreads, NEW f \in Fds, NEW us \in Timevals,
         NEW h \in BOOLEAN, NEW a \in BOOLEAN, SetSockOpt(t, f, us, h, a)
  PROVE  FdInv'
  <1> USE DEF SetSockOpt
  <1> DEFINE q == us \div UsecPerMs
  <1>0. us \in Int /\ q \in Int /\ WaitsFor(q, us)
    BY WholeMs
  <1>1. m_datas' = IF h /\ m_datas[f].isInit THEN [m_datas EXCEPT ![f].recvTimeout = q] ELSE m_datas
    OBVIOUS
  <1> HIDE DEF q
  <1>2. /\ m_datas' \in [Fds -> FdContexts]
        /\ m_datas'[f].isInit = m_datas[f].isInit /\ m_datas'[f].isSocket = m_datas[f].isSocket
        /\ m_datas'[f].sysNonblock = m_datas[f].sysNonblock
        /\ m_datas'[f].userNonblock = m_datas[f].userNonblock
        /\ IF h /\ m_datas[f].isInit THEN m_datas'[f].recvTimeout = q ELSE m_datas' = m_datas
        /\ \A g \in Fds : g # f => m_datas'[g] = m_datas[g]
    BY <1>0, <1>1 DEF FdInv, FdType, FdContexts
  <1>3. /\ wanted' \in [Fds -> FdWants]
        /\ wanted'[f].nonblock = wanted[f].nonblock
        /\ wanted'[f].timeout = IF a THEN us ELSE wanted[f].timeout
        /\ \A g \in Fds : g # f => wanted'[g] = wanted[g]
    BY <1>0 DEF FdInv, FdType, FdWants
  <1>4. /\ lost' \in [Fds -> SUBSET {"context", "flags", "blocking", "timeout"}]
        /\ \A g \in Fds : g # f => lost'[g] = lost[g]
        /\ "context" \in lost'[f] <=> "context" \in lost[f]
        /\ "flags" \in lost'[f] <=> "flags" \in lost[f]
        /\ "blocking" \in lost'[f] <=> "blocking" \in lost[f]
        /\ "timeout" \notin lost'[f] => (h /\ a) \/ (~h /\ ~a /\ "timeout" \notin lost[f])
    <2> DEFINE L == SUBSET {"context", "flags", "blocking", "timeout"}
    <2>1. lost \in [Fds -> L]
      BY DEF FdInv, FdType
    <2>2. CASE h /\ a
      BY <2>1, <2>2
    <2>3. CASE h # a
      BY <2>1, <2>3
    <2>4. CASE ~h /\ ~a
      BY <2>1, <2>4
    <2> QED
      BY <2>2, <2>3, <2>4
  <1>5. FdType'
    BY <1>2, <1>3, <1>4 DEF FdInv, FdType
  <1>6. UsedBy(t, f) /\ kernel[f].open /\ kernel[f].socket /\ kernel' = kernel /\ fpc' = fpc
    BY DEF UsedBy
  <1>7. ASSUME "context" \notin lost'[f]
        PROVE  Serves(m_datas'[f], kernel'[f], wanted'[f], lost'[f])
    <2>1. Serves(m_datas[f], kernel[f], wanted[f], lost[f])
      BY <1>4, <1>6, <1>7, InUse
    <2>2. /\ m_datas[f].isInit /\ m_datas[f].isSocket /\ m_datas[f].sysNonblock
          /\ "blocking" \notin lost[f] => kernel[f].nonblock
          /\ "flags" \notin lost[f] => m_datas[f].userNonblock = wanted[f].nonblock
          /\ "timeout" \notin lost[f] => WaitsFor(m_datas[f].recvTimeout, wanted[f].timeout)
      BY <1>6, <2>1 DEF Serves
    <2>3. "timeout" \notin lost'[f] => WaitsFor(m_datas'[f].recvTimeout, wanted'[f].timeout)
      <3>1. CASE h /\ a
        BY <1>0, <1>2, <1>3, <2>2, <3>1
      <3>2. CASE ~h /\ ~a /\ "timeout" \notin lost[f]
        BY <1>2, <1>3, <2>2, <3>2
      <3> QED
        BY <1>4, <3>1, <3>2
    <2> QED
      BY <1>2, <1>3, <1>4, <1>6, <2>2, <2>3 DEF Serves
  <1>8. m_datas'[f].isInit \/ m_datas'[f] = NoCtx
    BY <1>2, Zenon DEF FdInv, ContextTrue
  <1> QED
    BY ZenonT(60), <1>2, <1>3, <1>4, <1>5, <1>6, <1>7, <1>8, FdUses

LEMMA CloseInv ==
  ASSUME FdInv, NEW t \in FdThreads, NEW f \in Fds, CloseFd(t, f) \/ CloseUnhooked(t, f)
  PROVE  FdInv'
  <1>1. UsedBy(t, f) /\ UNCHANGED <<fpc, wanted>>
    BY DEF CloseFd, CloseUnhooked
  <1>2. /\ kernel' \in [Fds -> FdKernel] /\ ~kernel'[f].open
        /\ m_datas' \in [Fds -> FdContexts]
        /\ m_datas'[f] = m_datas[f] \/ m_datas'[f] = NoCtx
        /\ \A g \in Fds : g # f => kernel'[g] = kernel[g] /\ m_datas'[g] = m_datas[g]
    BY FdRecords DEF CloseFd, CloseUnhooked, FdInv, FdType
  <1>3. /\ lost' \in [Fds -> SUBSET {"context", "flags", "blocking", "timeout"}]
        /\ \A g \in Fds : g # f => lost'[g] = lost[g]
    BY DEF CloseFd, CloseUnhooked, FdInv, FdType
  <1>4. "context" \notin lost'[f] => m_datas'[f] = NoCtx
    <2>1. CASE CloseFd(t, f)
      BY <2>1 DEF CloseFd, FdInv, FdType
    <2>2. CASE CloseUnhooked(t, f)
      <3>1. m_datas' = m_datas /\ lost'[f] = IF m_datas[f].isInit THEN {"context"} ELSE {}
        BY <2>2 DEF CloseUnhooked, FdInv, FdType
      <3> QED
        BY <3>1 DEF FdInv, ContextTrue
    <2> QED
      BY <2>1, <2>2
  <1>5. FdType'
    BY <1>1, <1>2, <1>3 DEF FdInv, FdType
  <1>6. m_datas'[f].isInit \/ m_datas'[f] = NoCtx
    BY <1>2 DEF FdInv, ContextTrue
  <1> QED
    BY <1>1, <1>2, <1>3, <1>4, <1>5, <1>6, FdUses DEF Serves

LEMMA FdStepInv == FdInv /\ [FdNext]_fdvars => FdInv'
  <1> SUFFICES ASSUME FdInv, [FdNext]_fdvars PROVE FdInv'
    OBVIOUS
  <1>1. CASE UNCHANGED fdvars
    BY <1>1 DEF fdvars, FdInv, FdType, OneMaker, ContextTrue, Making, Serves
  <1>2. CASE FdNext
    BY <1>2, FdAssumption, OpenFdInv, OpenUnhookedInv, GetLookupInv, GetCreateInv, FlagsInv,
       SetSockOptInv, CloseInv DEF FdNext
  <1> QED
    BY <1>1, <1>2

(* The hooks keep what a user asked of a socket apart from what the kernel  *)
(* has, whatever number the socket got and whoever had it before.           *)
THEOREM SocketsAreHonoured == FdSpec => []SocketsHonoured
  <1>1. FdInv => SocketsHonoured
    BY DEF FdInv, ContextTrue, Serves, Making, FdPlaces, SocketsHonoured, FcntlGetFl, Hooked
  <1> QED
    BY <1>1, FdInitInv, FdStepInv, PTL DEF FdSpec

-----------------------------------------------------------------------------
(* ConfigVar *)

CvType ==
  /\ m_val \in Good /\ m_cbs \in [Listeners -> Good \cup {Absent}]
  /\ conf_file \in [val : ConfVals, mtime : Nat] /\ s_file2modifytime \in Nat
  /\ lpc \in [Loaders -> {"idle", "compare", "forced", "parse", "notify", "store"}]
  /\ DOMAIN lval = Loaders
  /\ \A t \in Loaders : /\ lpc[t] \in {"compare", "forced"} => lval[t] \in Nat
                        /\ lpc[t] \in {"notify", "store"} => lval[t] \in Good

(* While a setValue is between its two locks the listeners already know the *)
(* value it will store, and no other setValue is there.                     *)
ToldInv ==
  ~setsOverlap /\ ~threw =>
    /\ \A t, u \in Loaders : lpc[t] = "store" /\ lpc[u] = "store" => t = u
    /\ \A t \in Loaders : lpc[t] = "store" =>
         \A l \in Listeners : m_cbs[l] \in {Absent, lval[t]}
    /\ (\A t \in Loaders : lpc[t] # "store") =>
         \A l \in Listeners : m_cbs[l] \in {Absent, m_val}

(* Recorded and observed times are not ahead of the file; and as long as    *)
(* the recorded time is that of the file, the value of the file has been    *)
(* stored, or is in the hands of the one load under way.                    *)
LoadInv ==
  /\ s_file2modifytime <= conf_file.mtime
  /\ \A t \in Loaders : lpc[t] \in {"compare", "forced"} => lval[t] <= conf_file.mtime
  /\ ~loadsOverlap => \A t, u \in Loaders : lpc[t] # "idle" /\ lpc[u] # "idle" => t = u
  /\ ~loadsOverlap /\ ~threw /\ ~failed /\ ~sameSecond /\ s_file2modifytime = conf_file.mtime =>
       /\ \A t \in Loaders : lpc[t] \in {"notify", "store"} => lval[t] = conf_file.val
       /\ (\A t \in Loaders : lpc[t] \notin {"parse", "notify", "store"}) => m_val = conf_file.val

CvInv == CvType /\ ToldInv /\ LoadInv

LEMMA CvInitInv == CvInit => CvInv
  BY ConfigVarAssumption DEF CvInit, CvInv, CvType, ToldInv, LoadInv, Good, FirstVal, Absent

LEMMA CvStepInv == CvInv /\ [CvNext]_cvvars => CvInv'
  <1> SUFFICES ASSUME CvInv, [CvNext]_cvvars PROVE CvInv'
    OBVIOUS
  <1> USE ConfigVarAssumption DEF CvInv, CvType, ToldInv, LoadInv, Good, Absent, Goto, cvHistory
  <1>1. ASSUME NEW v \in ConfVals, NEW s \in 0..1, EditFile(v, s) PROVE CvInv'
    <2>1. CvType'
      <3>1. conf_file' \in [val : ConfVals, mtime : Nat]
        BY <1>1, conf_file.mtime + s \in Nat DEF EditFile
      <3>2. UNCHANGED <<m_val, m_cbs, s_file2modifytime, lpc, lval>>
        BY <1>1 DEF EditFile
      <3> QED
        BY <3>1, <3>2
    <2>2. ToldInv'
      BY <1>1 DEF EditFile
    <2>3. LoadInv'
      <3>1. ~sameSecond' => s # 0
        BY <1>1, Zenon DEF EditFile
      <3>2. /\ conf_file'.mtime = conf_file.mtime + s
            /\ UNCHANGED <<m_val, s_file2modifytime, lpc, lval, loadsOverlap>>
        BY <1>1 DEF EditFile
      <3>3. /\ s_file2modifytime <= conf_file'.mtime
            /\ \A t \in Loaders : lpc[t] \in {"compare", "forced"} => lval[t] <= conf_file'.mtime
        BY <3>2
      <3>4. ~sameSecond' => s_file2modifytime # conf_file'.mtime
        BY <3>1, <3>2
      <3> QED
        BY <3>2, <3>3, <3>4
    <2> QED
      BY <2>1, <2>2, <2>3
  <1>2. ASSUME NEW t \in Loaders, NEW force \in BOOLEAN, LoadFromConfDir(t, force) PROVE CvInv'
    <2>1. CvType'
      BY <1>2 DEF LoadFromConfDir
    <2>2. ToldInv'
      BY <1>2 DEF LoadFromConfDir
    <2>3. LoadInv'
      <3>1. ~loadsOverlap' => ~loadsOverlap /\ \A u \in Loaders \ {t} : lpc[u] = "idle"
        BY <1>2, Zenon DEF LoadFromConfDir
      <3>2. /\ lpc[t] = "idle" /\ lval' = [lval EXCEPT ![t] = conf_file.mtime]
            /\ \E p \in {"forced", "compare"} : lpc' = [lpc EXCEPT ![t] = p]
            /\ UNCHANGED <<m_val, conf_file, s_file2modifytime, threw, failed, sameSecond>>
        BY <1>2 DEF LoadFromConfDir
      <3> QED
        BY <3>1, <3>2
    <2> QED
      BY <2>1, <2>2, <2>3
  <1>3. ASSUME NEW t \in Loaders, CompareTime(t) PROVE CvInv'
    BY <1>3 DEF CompareTime
  <1>4. ASSUME NEW t \in Loaders, ParseFile(t) PROVE CvInv'
    BY <1>4 DEF ParseFile
  <1>5. ASSUME NEW t \in Loaders, SetValueNotify(t) PROVE CvInv'
    <2>1. CvType'
      BY <1>5 DEF SetValueNotify, Told
    <2>2. ToldInv'
      <3>1. ~setsOverlap' => ~setsOverlap /\ \A u \in Loaders \ {t} : lpc[u] # "store"
        BY <1>5, Zenon DEF SetValueNotify
      <3>2. \/ lpc' = [lpc EXCEPT ![t] = "idle"] /\ m_cbs' = m_cbs /\ threw' = threw
            \/ lpc' = [lpc EXCEPT ![t] = "store"] /\ m_cbs' = Told(lval[t]) /\ threw' = threw
            \/ threw' = TRUE
        BY <1>5 DEF SetValueNotify
      <3>3. lpc[t] = "notify" /\ UNCHANGED <<m_val, lval>>
        BY <1>5 DEF SetValueNotify
      <3> QED
        BY <3>1, <3>2, <3>3 DEF Told
    <2>3. LoadInv'
      <3>1. \/ lpc' = [lpc EXCEPT ![t] = "idle"] /\ lval[t] = m_val /\ threw' = threw
            \/ lpc' = [lpc EXCEPT ![t] = "store"] /\ threw' = threw
            \/ threw' = TRUE
        BY <1>5 DEF SetValueNotify
      <3>2. /\ lpc[t] = "notify" /\ \E p \in {"idle", "store"} : lpc' = [lpc EXCEPT ![t] = p]
            /\ UNCHANGED <<m_val, conf_file, s_file2modifytime, lval, loadsOverlap, failed,
                           sameSecond>>
        BY <1>5 DEF SetValueNotify
      <3> QED
        BY <3>1, <3>2
    <2> QED
      BY <2>1, <2>2, <2>3
  <1>6. ASSUME NEW t \in Loaders, SetValueStore(t) PROVE CvInv'
    BY <1>6 DEF SetValueStore
  <1>7. ASSUME NEW l \in Listeners, AddListener(l) PROVE CvInv'
    <2>1. /\ m_cbs' = [m_cbs EXCEPT ![l] = m_val]
          /\ setsOverlap' = (setsOverlap \/ \E t \in Loaders : lpc[t] = "store")
          /\ UNCHANGED <<m_val, conf_file, s_file2modifytime, lpc, lval, loadsOverlap, threw, failed, sameSecond>>
      BY <1>7 DEF AddListener
    <2>2. setsOverlap' \in BOOLEAN /\ (~setsOverlap' => ~setsOverlap /\ \A t \in Loaders : lpc[t] # "store")
      BY <2>1, Zenon
    <2>3. CvType'
      BY <1>7, <2>2 DEF AddListener
    <2>4. ToldInv'
      BY <2>1, <2>2
    <2>5. LoadInv'
      BY <2>1
    <2> QED
      BY <2>3, <2>4, <2>5
  <1>8. ASSUME NEW l \in Listeners, DelListener(l) PROVE CvInv'
    BY <1>8 DEF DelListener
  <1>9. CASE ClearListener
    BY <1>9 DEF ClearListener
  <1>10. CASE UNCHANGED cvvars
    BY <1>10 DEF cvvars
  <1> HIDE DEF CvInv
  <1> QED
    BY <1>1, <1>2, <1>3, <1>4, <1>5, <1>6, <1>7, <1>8, <1>9, <1>10 DEF CvNext

(* Between loads the listeners know the stored value, and a file that the   *)
(* next load would skip is the one in force, but for the overlaps, errors   *)
(* and edits within a second that ListenersTold names.                      *)
THEOREM ListenersAreTold == CvSpec => []ListenersTold
  <1>1. CvInv => ListenersTold
    BY DEF CvInv, CvType, ToldInv, LoadInv, ListenersTold, LoadsDone
  <1> QED
    BY <1>1, CvInitInv, CvStepInv, PTL DEF CvSpec

-----------------------------------------------------------------------------
(* LogConfig *)

LgType ==
  /\ daemonArg \in {"unset", "d", "s"} /\ logCrashed \in BOOLEAN
  /\ logDefines \in [LogNamesAll -> LogDefine \cup {NoDefine}]
  /\ logAsked \in [LogNamesAll -> LogDefine \cup {NoDefine}]
  /\ DOMAIN m_loggers = LogNamesAll

(* What was asked for last is what the listener has seen last, but for      *)
(* appenders of the loggers whose change was ignored.                       *)
AskedInv ==
  ~logCrashed => \A n \in LogNamesAll :
    /\ SameDefine(logAsked[n], logDefines[n])
    /\ (logAsked[n] = NoDefine) <=> (logDefines[n] = NoDefine)
    /\ n \notin ignored => logAsked[n] = logDefines[n]

(* A logger is as a definition asks, in a daemon or not (d).                *)
LoggerIs(d, logger, def) ==
  /\ logger.level = def.level
  /\ {a.type : a \in logger.appenders} = def.appenders \ (IF d = "d" THEN {"Stdout"} ELSE {})
  /\ \A a \in logger.appenders : a.formatter = logger.formatter
  /\ def.formatter \in {"", logger.formatter}

(* The loggers are what the listener makes of the definitions it has seen.  *)
LoggersInv ==
  ~logCrashed =>
    /\ daemonArg = "unset" => \A n \in LogNamesAll : logDefines[n] = NoDefine
    /\ \A n \in LogNamesAll :
         IF logDefines[n] = NoDefine
         THEN \/ m_loggers[n] = FirstLogger(n)
              \/ m_loggers[n].level = 0 /\ m_loggers[n].appenders = {}
         ELSE n \notin ignored => LoggerIs(daemonArg, m_loggers[n], logDefines[n])

LgInv ==
  /\ LgType /\ AskedInv /\ LoggersInv
  /\ logCrashed => m_loggers["root"].appenders = {}

LEMMA LgInitInv == LgInit => LgInv
  BY DEF LgInit, LgInv, LgType, AskedInv, LoggersInv, SameDefine

(* What ApplyDefine makes of a logger is what the definition asks for.      *)
LEMMA ApplyDefineIs ==
  ASSUME NEW logger, NEW def PROVE LoggerIs(daemonArg, ApplyDefine(logger, def), def)
  <1> DEFINE f == IF def.formatter = "" THEN logger.formatter ELSE def.formatter
             types == IF daemonArg = "d" THEN def.appenders \ {"Stdout"} ELSE def.appenders
             made == ApplyDefine(logger, def)
  <1>1. /\ made.level = def.level /\ made.formatter = f
        /\ made.appenders = {[type |-> t, formatter |-> f] : t \in types}
    BY DEF ApplyDefine
  <1>2. types = def.appenders \ (IF daemonArg = "d" THEN {"Stdout"} ELSE {})
    OBVIOUS
  <1> HIDE DEF made, types, f
  <1>3. {a.type : a \in made.appenders} = types
    <2>1. ASSUME NEW t \in types PROVE \E a \in made.appenders : t = a.type
      <3>1. [type |-> t, formatter |-> f] \in made.appenders
        BY <1>1
      <3> QED
        BY <3>1
    <2>2. ASSUME NEW a \in made.appenders PROVE a.type \in types
      BY <1>1
    <2> QED
      BY <2>1, <2>2
  <1>4. \A a \in made.appenders : a.formatter = f
    BY <1>1
  <1>5. def.formatter \in {"", f}
    BY DEF f
  <1> QED
    BY <1>1, <1>2, <1>3, <1>4, <1>5 DEF LoggerIs, made

LEMMA LgStepInv == LgInv /\ [LgNext]_lgvars => LgInv'
  <1> SUFFICES ASSUME LgInv, [LgNext]_lgvars PROVE LgInv'
    OBVIOUS
  <1> USE DEF LgInv, LgType, AskedInv, LoggersInv
  <1>1. ASSUME NEW d \in {"d", "s"}, ParseArgs(d) PROVE LgInv'
    BY <1>1 DEF ParseArgs
  <1>2. ASSUME NEW new \in [LogNamesAll -> LogDefine \cup {NoDefine}], SetLogs(new) PROVE LgInv'
    <2>1. LgType'
      BY <1>2 DEF SetLogs, SameDefine, SameDefines, OnLoggerConfChanged
    <2>a. /\ logAsked' = new /\ daemonArg' = daemonArg /\ daemonArg # "unset" /\ ~logCrashed
      BY <1>2 DEF SetLogs
    <2>b. ASSUME NEW n \in LogNamesAll, n \notin ignored'
          PROVE \/ ~SameDefine(new[n], logDefines[n])
                \/ (new[n] = NoDefine) # (logDefines[n] = NoDefine)
                \/ n \notin ignored /\ new[n].appenders = logAsked[n].appenders
      BY <1>2, <2>b DEF SetLogs
    <2>c. ASSUME ~logCrashed'
          PROVE \/ SameDefines(new, logDefines) /\ UNCHANGED <<logDefines, m_loggers>>
                \/ logDefines' = new /\ m_loggers' = OnLoggerConfChanged(logDefines, new)
      BY <1>2, <2>c DEF SetLogs
    <2>d. ASSUME NEW n \in LogNamesAll, SameDefine(new[n], logDefines[n]),
                 new[n] # NoDefine, logDefines[n] # NoDefine,
                 new[n].appenders = logAsked[n].appenders, n \notin ignored
          PROVE new[n] = logDefines[n]
      <3>1. new[n] \in LogDefine /\ logDefines[n] \in LogDefine /\ logAsked[n] = logDefines[n]
        BY <2>d, <2>a
      <3> QED
        BY <3>1, <2>d DEF LogDefine, SameDefine
    <2>2. AskedInv'
      <3> SUFFICES ASSUME ~logCrashed', NEW n \in LogNamesAll
                   PROVE /\ SameDefine(new[n], logDefines'[n])
                         /\ (new[n] = NoDefine) <=> (logDefines'[n] = NoDefine)
                         /\ n \notin ignored' => new[n] = logDefines'[n]
        BY <2>a DEF SameDefine
      <3>1. CASE logDefines' = new
        BY <3>1 DEF SameDefine
      <3>2. CASE SameDefines(new, logDefines) /\ logDefines' = logDefines
        BY <3>2, <2>b, <2>d DEF SameDefines
      <3> QED
        BY <2>c, <3>1, <3>2
    <2>3. LoggersInv'
      <3> DEFINE Fits(n, logger, def, ign) ==
                   IF def = NoDefine
                   THEN logger = FirstLogger(n) \/ (logger.level = 0 /\ logger.appenders = {})
                   ELSE n \notin ign => LoggerIs(daemonArg, logger, def)
      <3>1. SUFFICES ASSUME ~logCrashed', NEW n \in LogNamesAll
                     PROVE Fits(n, m_loggers'[n], logDefines'[n], ignored')
        BY <2>a
      <3>2. Fits(n, m_loggers[n], logDefines[n], ignored)
        BY <2>a
      <3>3. CASE SameDefines(new, logDefines) /\ UNCHANGED <<logDefines, m_loggers>>
        BY <3>2, <3>3, <2>b DEF SameDefines
      <3>4. CASE logDefines' = new /\ m_loggers' = OnLoggerConfChanged(logDefines, new)
        <4>1. CASE new[n] = NoDefine /\ logDefines[n] = NoDefine
          BY <3>2, <3>4, <4>1 DEF OnLoggerConfChanged
        <4>2. CASE new[n] = NoDefine /\ logDefines[n] # NoDefine
          <5>1. m_loggers'[n] = RemoveLogger(m_loggers[n])
            BY <3>4, <4>2 DEF OnLoggerConfChanged
          <5> QED
            BY <5>1, <3>4, <4>2 DEF RemoveLogger
        <4>3. CASE new[n] # NoDefine /\ (logDefines[n] = NoDefine \/ ~SameDefine(new[n], logDefines[n]))
          <5>1. m_loggers'[n] = ApplyDefine(m_loggers[n], new[n])
            BY <3>4, <4>3 DEF OnLoggerConfChanged
          <5> QED
            BY <5>1, <3>4, <4>3, ApplyDefineIs
        <4>4. CASE new[n] # NoDefine /\ logDefines[n] # NoDefine /\ SameDefine(new[n], logDefines[n])
          <5>1. m_loggers'[n] = m_loggers[n]
            BY <3>4, <4>4 DEF OnLoggerConfChanged
          <5> QED
            BY <5>1, <3>2, <3>4, <4>4, <2>b, <2>d
        <4> QED
          BY <4>1, <4>2, <4>3, <4>4
      <3> QED
        BY <3>1, <2>c, <3>3, <3>4
    <2>4. (logCrashed => m_loggers["root"].appenders = {})'
      BY <1>2 DEF SetLogs, SameDefine, SameDefines, OnLoggerConfChanged
    <2> QED
      BY <2>1, <2>2, <2>3, <2>4
  <1>3. ASSUME NEW n \in LogNamesAll, NEW l \in Levels, LogTo(n, l) PROVE LgInv'
    <2>1. LgType'
      BY <1>3 DEF LogTo
    <2>2. AskedInv'
      BY <1>3 DEF LogTo
    <2>3. LoggersInv'
      BY <1>3 DEF LogTo
    <2>4. (logCrashed => m_loggers["root"].appenders = {})'
      BY <1>3 DEF LogTo
    <2> QED
      BY <2>1, <2>2, <2>3, <2>4
  <1>4. CASE UNCHANGED lgvars
    <2>1. LgType'
      BY <1>4 DEF lgvars
    <2>2. AskedInv'
      BY <1>4 DEF lgvars
    <2>3. LoggersInv'
      BY <1>4 DEF lgvars
    <2>4. (logCrashed => m_loggers["root"].appenders = {})'
      BY <1>4 DEF lgvars
    <2> QED
      BY <2>1, <2>2, <2>3, <2>4
  <1> HIDE DEF LgInv
  <1> QED
    BY <1>1, <1>2, <1>3, <1>4 DEF LgNext

(* After any sequence of reloads the loggers are as the configuration asks, *)
(* but for appenders that changed alone, which LogDefine::operator== does   *)
(* not see; and an event kills the program only through a root logger       *)
(* without appenders.                                                       *)
THEOREM LoggersDoFollow == LgSpec => []LoggersFollow
  <1>1. LgInv => LoggersFollow
    BY DEF LgInv, LgType, AskedInv, LoggersInv, LoggersFollow, LoggerIs
  <1> QED
    BY <1>1, LgInitInv, LgStepInv, PTL DEF LgSpec

-----------------------------------------------------------------------------
(* Application *)

Written == {"written", "loaded", "up"}
Unseen  == {"checked", "main", "crashed"}   \* launches that the check overlooks

ApType ==
  /\ phase \in [Launches -> {"off", "ended"} \cup Unseen \cup Written]
  /\ isDaemon \in [Launches -> BOOLEAN] /\ mainPid \in [Launches -> Nat]
  /\ pidfile \in Nat /\ lastPid \in Nat

(* Two launches are there at a time only after the check overlooked one     *)
(* that had not written the file yet, and only then the file may name       *)
(* another than a launch that has written it.                               *)
ApInv ==
  /\ ApType
  /\ \A l, k \in Launches :
       l # k /\ phase[l] \in Unseen \cup Written /\ phase[k] \in Unseen \cup Written
         => fooled \cap Unseen # {}
  /\ \A l \in Launches : phase[l] \in Written /\ pidfile # mainPid[l] => fooled \cap Unseen # {}
  /\ fooled \cap Written # {} => fooled \cap Unseen # {}

LEMMA ApInitInv == ApInit => ApInv
  BY DEF ApInit, ApInv, ApType, Unseen, Written

LEMMA ApStepInv == ApInv /\ [ApNext]_apvars => ApInv'
  <1> SUFFICES ASSUME ApInv, [ApNext]_apvars PROVE ApInv'
    OBVIOUS
  <1> USE DEF ApInv, ApType, Unseen, Written, Alive
  <1>1. ASSUME NEW l \in Launches, NEW d \in BOOLEAN, AppInit(l, d) PROVE ApInv'
    BY <1>1 DEF AppInit, IsRunningPidfile
  <1>2. ASSUME NEW l \in Launches, RealStart(l) PROVE ApInv'
    BY <1>2 DEF RealStart
  <1>3. ASSUME NEW l \in Launches, ForkFails(l) PROVE ApInv'
    BY <1>3 DEF ForkFails
  <1>4. ASSUME NEW l \in Launches, WritePidfile(l) PROVE ApInv'
    BY <1>4 DEF WritePidfile
  <1>5. ASSUME NEW l \in Launches, LoadModules(l) PROVE ApInv'
    BY <1>5 DEF LoadModules
  <1>6. ASSUME NEW l \in Launches, BindServers(l) PROVE ApInv'
    BY <1>6 DEF BindServers
  <1>7. ASSUME NEW l \in Launches, MainEnds(l) PROVE ApInv'
    BY <1>7 DEF MainEnds
  <1>8. ASSUME NEW l \in Launches, Crash(l) PROVE ApInv'
    BY <1>8 DEF Crash
  <1>9. CASE UNCHANGED apvars
    BY <1>9 DEF apvars
  <1> HIDE DEF ApInv
  <1> QED
    BY <1>1, <1>2, <1>3, <1>4, <1>5, <1>6, <1>7, <1>8, <1>9 DEF ApNext

(* While a server runs the pid file names it, across crashes and restarts,  *)
(* and two run at a time only after IsRunningPidfile overlooked one that    *)
(* had not written the file yet.                                            *)
THEOREM PidfileIsTrue == ApSpec => []PidfileTruth
  <1>1. ApInv => PidfileTruth
    <2> SUFFICES ASSUME ApInv PROVE PidfileTruth
      OBVIOUS
    <2> DEFINE running == {l \in Launches : phase[l] \in Alive}
    <2>1. ASSUME fooled = {} PROVE Cardinality(running) \in {0, 1}
      <3>1. \A l, k \in running : l = k
        BY <2>1 DEF ApInv, ApType, Unseen, Written, Alive
      <3> HIDE DEF running
      <3>2. CASE running = {}
        BY <3>2, FS_EmptySet
      <3>3. ASSUME NEW l \in running PROVE Cardinality(running) \in {0, 1}
        <4>1. running = {l}
          BY <3>1, <3>3
        <4> QED
          BY <4>1, FS_Singleton
      <3> QED
        BY <3>2, <3>3
    <2>2. fooled = {} => ~(Cardinality(running) > 1)
      <3> HIDE DEF running
      <3> QED
        BY <2>1
    <2> QED
      BY <2>2 DEF ApInv, ApType, Unseen, Written, Alive, PidfileTruth
  <1> QED
    BY <1>1, ApInitInv, ApStepInv, PTL DEF ApSpec

-----------------------------------------------------------------------------
(* TcpServer: the listening sockets by what they are to the server.         *)
Listening == [addr : Addrs, open : BOOLEAN]
Accepting == [sock : Nat, start : Nat, pc : {"queued", "loop", "accept", "waiting"},
              late : BOOLEAN]

Open == {i \in DOMAIN listener : listener[i].open}
Socks == Range(m_socks)
Watched == {f.sock : f \in accepters}

(* What the running task of stop() has closed.                              *)
Done == {m_socks[k] : k \in {j \in DOMAIN m_socks : j < stopAt}}

TsType ==
  /\ listener \in Seq(Listening) /\ m_socks \in Seq(DOMAIN listener)
  /\ accepters \subseteq Accepting /\ Watched \subseteq DOMAIN listener
  /\ m_isStop \in BOOLEAN /\ overlapped \in BOOLEAN /\ orphaned \in BOOLEAN
  /\ stopTasks \in Nat /\ startCalls \in Nat
  /\ stopAt \in 0..(Len(m_socks) + 1) /\ stopStep \in {"cancelAll", "close", "close_f"}
  /\ stopAt # 0 => stopTasks > 0

(* Only who began to wait after the last cancelAll waits when close_f comes.*)
NoneMissed ==
  \A f \in accepters : f.pc = "waiting" =>
    \/ f.late
    \/ /\ f.sock \in Open
       /\ ~(stopAt \in DOMAIN m_socks /\ stopStep = "close_f" /\ m_socks[stopAt] = f.sock)

(* The inductive invariant.  A server that is running has no task of stop() *)
(* left, and as long as nothing overtakes a stop() m_socks knows every open *)
(* socket that a fiber waits on: so the task closes them all.               *)
TsInv ==
  /\ TsType /\ NoneMissed
  /\ Socks \subseteq Open \cup Done /\ Done \cap Open = {}
  /\ Open \subseteq Socks \cup Watched
  /\ ~m_isStop /\ ~overlapped => stopTasks = 0 /\ Watched \subseteq Open
  /\ ~overlapped => \A f, g \in accepters : f.sock = g.sock => f = g
  /\ ~overlapped /\ ~orphaned => Watched \cap Open \subseteq Socks
  /\ m_isStop /\ stopTasks = 0 /\ ~overlapped /\ ~orphaned => Watched \cap Open = {}

(* Socket::close closes just these.                                         *)
LEMMA MadeClosed ==
  ASSUME NEW socks \in Seq(Listening), NEW W, NEW r, r = CloseSockets(socks, W)
  PROVE  /\ r \in Seq(Listening) /\ DOMAIN r = DOMAIN socks
         /\ \A i \in DOMAIN socks : r[i].open <=> socks[i].open /\ i \notin W
  <1>1. /\ Len(socks) \in Nat /\ DOMAIN socks = 1..Len(socks)
        /\ \A i \in DOMAIN socks : socks[i] \in Listening
    OBVIOUS
  <1>2. /\ DOMAIN r = DOMAIN socks
        /\ \A i \in DOMAIN socks : r[i] = IF i \in W THEN [socks[i] EXCEPT !.open = FALSE] ELSE socks[i]
    BY DEF CloseSockets
  <1>3. \A s \in Listening : [s EXCEPT !.open = FALSE] \in Listening /\ ~[s EXCEPT !.open = FALSE].open
    BY DEF Listening
  <1>4. \A i \in DOMAIN socks : r[i] \in Listening /\ (r[i].open <=> socks[i].open /\ i \notin W)
    BY <1>1, <1>2, <1>3
  <1>5. r = [i \in 1..Len(socks) |-> r[i]]
    BY <1>1 DEF CloseSockets
  <1>6. r \in [1..Len(socks) -> Listening]
    BY <1>1, <1>4, <1>5
  <1>7. r \in Seq(Listening)
    BY <1>1, <1>6
  <1> QED
    BY <1>2, <1>4, <1>7

LEMMA SocketsClosed ==
  ASSUME listener \in Seq(Listening), NEW W, listener' = CloseSockets(listener, W)
  PROVE  /\ listener' \in Seq(Listening) /\ DOMAIN listener' = DOMAIN listener
         /\ Open' = Open \ W
  <1>1. /\ listener' \in Seq(Listening) /\ DOMAIN listener' = DOMAIN listener
        /\ \A i \in DOMAIN listener : listener'[i].open <=> listener[i].open /\ i \notin W
    BY ONLY MadeClosed, listener \in Seq(Listening), listener' = CloseSockets(listener, W), Zenon
  <1> QED
    BY ONLY <1>1 DEF Open

LEMMA SocksKnown ==
  ASSUME TsType
  PROVE  Socks \subseteq DOMAIN listener /\ Open \subseteq DOMAIN listener
  BY DEF TsType, Socks, Open, Range

LEMMA NoSocks ==
  ASSUME m_socks' = <<>>
  PROVE  Socks' = {} /\ Done' = {} /\ Len(m_socks') = 0 /\ \A S : m_socks' \in Seq(S)
  BY DEF Socks, Done, Range

(* Without a running task nothing is half done.                             *)
LEMMA NoTask ==
  ASSUME TsType, stopAt = 0
  PROVE  Done = {} /\ stopAt \notin DOMAIN m_socks
  BY DEF TsType, Done

LEMMA StopTaskInv ==
  ASSUME TsInv, StopTask
  PROVE  TsInv'
  <1>1. /\ stopTasks > 0 /\ stopAt = 0 /\ stopAt' = 1 /\ stopStep' = "cancelAll"
        /\ UNCHANGED <<m_socks, listener, m_isStop, accepters, stopTasks, overlapped, orphaned,
                       startCalls>>
    BY DEF StopTask
  <1>2. Len(m_socks) \in Nat /\ DOMAIN m_socks = 1..Len(m_socks)
    BY DEF TsInv, TsType
  <1>3. Socks' = Socks /\ Watched' = Watched /\ Open' = Open /\ Done' = {} /\ Done = {}
    BY <1>1, <1>2, NoTask DEF Socks, Watched, Open, Done, TsInv
  <1>4. TsType'
    BY <1>1, <1>2, <1>3 DEF TsInv, TsType
  <1>5. NoneMissed'
    BY <1>1, <1>3 DEF TsInv, NoneMissed
  <1> QED
    BY <1>1, <1>3, <1>4, <1>5 DEF TsInv

(* Who waits on the socket that the task is at is woken.                    *)
LEMMA StopCancelsInv ==
  ASSUME TsInv, StopCancels
  PROVE  TsInv'
  <1> SUFFICES ASSUME NEW s, s = m_socks[stopAt],
                      NEW W, W = {f \in accepters : f.sock = s /\ f.pc = "waiting"}
               PROVE  TsInv'
    OBVIOUS
  <1>1. /\ stopStep' \in {"close", "close_f"} /\ stopAt \in DOMAIN m_socks
        /\ accepters' = {IF f \in W THEN Woken(f) ELSE f : f \in accepters}
        /\ UNCHANGED <<m_socks, listener, m_isStop, stopTasks, stopAt, overlapped, orphaned,
                       startCalls>>
    BY DEF StopCancels
  <1>2. \A f \in accepters : Woken(f) \in Accepting /\ Woken(f).sock = f.sock /\ Woken(f).pc = "accept"
    BY DEF TsInv, TsType, Accepting, Woken
  <1>3. accepters \subseteq Accepting
    BY DEF TsInv, TsType
  <1>4. \A g \in accepters' : \E f \in accepters :
          g.sock = f.sock /\ g \in Accepting /\ g = (IF f \in W THEN Woken(f) ELSE f)
    BY <1>1, <1>2, <1>3
  <1>5. Watched' = Watched
    <2>1. \A f \in accepters : \E g \in accepters' : g.sock = f.sock
      BY <1>1, <1>2
    <2> QED
      BY <1>4, <2>1 DEF Watched
  <1>6. Socks' = Socks /\ Open' = Open /\ Done' = Done
    BY <1>1 DEF Socks, Open, Done
  <1>7. TsType'
    BY <1>1, <1>4, <1>5 DEF TsInv, TsType
  <1>8. NoneMissed'
    <2> SUFFICES ASSUME NEW g \in accepters', g.pc = "waiting"
                 PROVE  g.late \/ (g.sock \in Open /\ g.sock # s)
      BY <1>1, <1>6 DEF NoneMissed
    <2>1. PICK f \in accepters : g = (IF f \in W THEN Woken(f) ELSE f)
      BY <1>4
    <2>2. g = f /\ f \notin W
      BY <1>2, <2>1
    <2> QED
      BY <2>2 DEF TsInv, NoneMissed
  <1>9. ~overlapped => \A f, g \in accepters' : f.sock = g.sock => f = g
    <2> SUFFICES ASSUME ~overlapped, NEW g \in accepters', NEW h \in accepters', g.sock = h.sock
                 PROVE  g = h
      OBVIOUS
    <2>1. PICK f \in accepters : g.sock = f.sock /\ g = (IF f \in W THEN Woken(f) ELSE f)
      BY <1>4
    <2>2. PICK e \in accepters : h.sock = e.sock /\ h = (IF e \in W THEN Woken(e) ELSE e)
      BY <1>4
    <2>3. e = f
      BY <2>1, <2>2 DEF TsInv
    <2> QED
      BY <2>1, <2>2, <2>3
  <1> QED
    BY <1>1, <1>5, <1>6, <1>7, <1>8, <1>9 DEF TsInv

LEMMA StopClosesInv ==
  ASSUME TsInv, StopCloses
  PROVE  TsInv'
  <1> SUFFICES ASSUME NEW s, s = m_socks[stopAt] PROVE TsInv'
    OBVIOUS
  <1>1. /\ stopAt \in DOMAIN m_socks /\ stopAt' = stopAt + 1 /\ stopStep = "close_f"
        /\ stopStep' = "cancelAll" /\ listener' = CloseSockets(listener, {s})
        /\ UNCHANGED <<m_socks, m_isStop, accepters, stopTasks, overlapped, orphaned, startCalls>>
    BY DEF StopCloses
  <1>2. /\ Len(m_socks) \in Nat /\ DOMAIN m_socks = 1..Len(m_socks) /\ stopAt \in Nat
        /\ stopAt # 0 /\ s \in Socks
    BY <1>1 DEF TsInv, TsType, Socks, Range
  <1>3. listener' \in Seq(Listening) /\ DOMAIN listener' = DOMAIN listener /\ Open' = Open \ {s}
    <2>1. listener \in Seq(Listening)
      BY DEF TsInv, TsType
    <2> QED
      BY ONLY <1>1, <2>1, SocketsClosed, Zenon
  <1>4. Done' = Done \cup {s}
    <2>1. \A j \in DOMAIN m_socks : j < stopAt + 1 <=> (j < stopAt \/ j = stopAt)
      BY <1>2
    <2> QED
      BY <1>1, <2>1 DEF Done
  <1>5. Socks' = Socks /\ Watched' = Watched
    BY <1>1 DEF Socks, Watched
  <1>6. TsType'
    <2>1. stopAt' \in 0..(Len(m_socks) + 1) /\ stopTasks > 0
      BY <1>1, <1>2 DEF TsInv, TsType
    <2> QED
      BY <1>1, <1>3, <1>5, <2>1 DEF TsInv, TsType
  <1>7. NoneMissed'
    <2> SUFFICES ASSUME NEW f \in accepters, f.pc = "waiting", ~f.late
                 PROVE  f.sock \in Open'
      BY <1>1 DEF NoneMissed
    <2> QED
      BY <1>1, <1>3 DEF TsInv, NoneMissed
  <1>8. stopTasks > 0 /\ stopTasks \in Nat
    BY <1>2 DEF TsInv, TsType
  <1> QED
    BY <1>1, <1>2, <1>3, <1>4, <1>5, <1>6, <1>7, <1>8 DEF TsInv

LEMMA StopTaskEndsInv ==
  ASSUME TsInv, StopTaskEnds
  PROVE  TsInv'
  <1>1. /\ stopAt = Len(m_socks) + 1 /\ stopAt' = 0 /\ m_socks' = <<>> /\ stopTasks' = stopTasks - 1
        /\ UNCHANGED <<listener, m_isStop, accepters, overlapped, orphaned, startCalls, stopStep>>
    BY DEF StopTaskEnds
  <1>2. Len(m_socks) \in Nat /\ DOMAIN m_socks = 1..Len(m_socks) /\ stopTasks > 0 /\ stopTasks \in Nat
    BY <1>1 DEF TsInv, TsType
  <1>3. Done = Socks
    <2>1. \A j \in DOMAIN m_socks : j < stopAt
      BY <1>1, <1>2
    <2> QED
      BY <2>1 DEF Done, Socks, Range
  <1>4. Socks \cap Open = {}
    BY <1>3 DEF TsInv
  <1>5. /\ Socks' = {} /\ Done' = {} /\ Watched' = Watched /\ Open' = Open
        /\ Len(m_socks') = 0 /\ m_socks' \in Seq(DOMAIN listener)
    BY <1>1, NoSocks DEF Watched, Open
  <1>6. stopTasks' \in Nat
    BY <1>1, <1>2
  <1>7. TsType'
    BY <1>1, <1>5, <1>6 DEF TsInv, TsType
  <1>8. NoneMissed'
    BY <1>1, <1>5 DEF TsInv, NoneMissed
  <1> QED
    BY <1>1, <1>2, <1>4, <1>5, <1>7, <1>8 DEF TsInv

LEMMA DestroyInv ==
  ASSUME TsInv, Destroy
  PROVE  TsInv'
  <1>1. /\ accepters = {} /\ m_socks' = <<>> /\ stopTasks = 0
        /\ UNCHANGED <<m_isStop, accepters, overlapped, orphaned, startCalls, stopTasks, stopAt,
                       stopStep>>
        /\ listener' = CloseSockets(listener, Socks)
    BY DEF Destroy, Socks
  <1>2. listener' \in Seq(Listening) /\ DOMAIN listener' = DOMAIN listener /\ Open' = Open \ Socks
    <2>1. listener \in Seq(Listening)
      BY DEF TsInv, TsType
    <2> QED
      BY ONLY <1>1, <2>1, SocketsClosed, Zenon
  <1>3. /\ Socks' = {} /\ Done' = {} /\ Len(m_socks') = 0 /\ m_socks' \in Seq(DOMAIN listener)
        /\ Watched' = Watched /\ Watched = {} /\ stopAt = 0 /\ Done = {}
    BY <1>1, NoSocks, NoTask DEF Watched, TsInv, TsType
  <1>4. NoneMissed'
    BY <1>1 DEF NoneMissed
  <1>5. TsType'
    BY <1>1, <1>2, <1>3 DEF TsInv, TsType
  <1> QED
    BY <1>1, <1>2, <1>3, <1>4, <1>5 DEF TsInv

LEMMA StopInv ==
  ASSUME TsInv, Stop
  PROVE  TsInv'
  <1>1. /\ m_isStop' = TRUE /\ stopTasks' = stopTasks + 1
        /\ UNCHANGED <<m_socks, listener, accepters, overlapped, orphaned, startCalls, stopAt, stopStep>>
    BY DEF Stop
  <1>2. /\ stopTasks' \in Nat /\ stopTasks' > 0 /\ stopTasks' # 0
        /\ Open' = Open /\ Socks' = Socks /\ Watched' = Watched /\ Done' = Done
    BY <1>1 DEF TsInv, TsType, Open, Socks, Watched, Done
  <1>3. TsType' /\ NoneMissed'
    BY <1>1, <1>2 DEF TsInv, TsType, NoneMissed
  <1> QED
    BY <1>1, <1>2, <1>3 DEF TsInv

LEMMA StartInv ==
  ASSUME TsInv, Start
  PROVE  TsInv'
  <1>1. CASE ~m_isStop
    <2>1. UNCHANGED <<m_socks, listener, accepters, overlapped, orphaned, startCalls, m_isStop, stopTasks,
                     stopAt, stopStep>>
      BY <1>1 DEF Start
    <2>2. Open' = Open /\ Socks' = Socks /\ Watched' = Watched /\ Done' = Done
      BY <2>1 DEF Open, Socks, Watched, Done
    <2>3. TsType' /\ NoneMissed'
      BY <2>1, <2>2 DEF TsInv, TsType, NoneMissed
    <2> QED
      BY <2>1, <2>2, <2>3 DEF TsInv
  <1>2. CASE m_isStop
    <2> DEFINE new == {[sock |-> m_socks[k], start |-> startCalls + 1, pc |-> "queued",
                     late |-> FALSE] : k \in DOMAIN m_socks}
    <2>1. /\ m_isStop' = FALSE /\ startCalls' = startCalls + 1 /\ accepters' = accepters \cup new
          /\ overlapped' = (overlapped \/ stopTasks > 0 \/ accepters # {})
          /\ UNCHANGED <<m_socks, listener, stopTasks, orphaned, stopAt, stopStep>>
      BY <1>2 DEF Start
    <2>2. /\ \A f \in new : f \in Accepting /\ f.sock \in Socks /\ f.pc # "waiting"
          /\ \A f, g \in new : f.sock = g.sock => f = g
      <3>1. /\ m_socks \in Seq(DOMAIN listener) /\ listener \in Seq(Listening) /\ startCalls + 1 \in Nat
            /\ DOMAIN listener \subseteq Nat
        BY DEF TsInv, TsType
      <3>2. ASSUME NEW k \in DOMAIN m_socks,
                   NEW f, f = [sock |-> m_socks[k], start |-> startCalls + 1, pc |-> "queued", late |-> FALSE]
            PROVE  f \in Accepting /\ f.sock \in Socks /\ f.pc # "waiting" /\ f.sock = m_socks[k]
        <4>1. m_socks[k] \in Nat /\ m_socks[k] \in Socks
          BY <3>1 DEF Socks, Range
        <4> QED
          BY <3>1, <3>2, <4>1 DEF Accepting
      <3> QED
        BY ZenonT(60), <3>2
    <2> HIDE DEF new
    <2>3. /\ Open' = Open /\ Socks' = Socks /\ Done' = Done
          /\ startCalls' \in Nat /\ overlapped' \in BOOLEAN
      BY <2>1 DEF Open, Socks, Done, TsInv, TsType
    <2>4. Watched' \subseteq Watched \cup Socks /\ Watched \subseteq Watched'
      BY <2>1, <2>2 DEF Watched
    <2>5. TsType'
      BY <2>1, <2>2, <2>3, <2>4, SocksKnown DEF TsInv, TsType
    <2>6. ~overlapped' => ~overlapped /\ stopTasks = 0 /\ accepters = {} /\ Watched = {} /\ accepters' = new
      <3>1. ~overlapped' => ~overlapped /\ ~(stopTasks > 0) /\ accepters = {}
        BY <2>1, Zenon
      <3>2. ~(stopTasks > 0) => stopTasks = 0
        BY DEF TsInv, TsType
      <3>3. accepters = {} => Watched = {} /\ accepters' = new
        BY <2>1 DEF Watched
      <3> QED
        BY <3>1, <3>2, <3>3
    <2>7. NoneMissed'
      BY <2>1, <2>2, <2>3 DEF TsInv, NoneMissed
    <2>8. stopTasks = 0 => Done = {}
      BY NoTask DEF TsInv, TsType
    <2> QED
      BY <2>1, <2>2, <2>3, <2>4, <2>5, <2>6, <2>7, <2>8 DEF TsInv
  <1> QED
    BY <1>1, <1>2 DEF TsInv, TsType

(* A fiber that takes a step and keeps its socket.                          *)
LEMMA FiberMoves ==
  ASSUME TsInv, NEW f \in accepters, NEW g \in Accepting, g.sock = f.sock,
         accepters' = (accepters \ {f}) \cup {g},
         UNCHANGED <<m_socks, listener, m_isStop, stopTasks, stopAt, stopStep, startCalls,
                     overlapped, orphaned>>,
         g.pc = "waiting" =>
           g.late \/ (g.sock \in Open /\ ~(stopAt \in DOMAIN m_socks /\ stopStep = "close_f" /\ m_socks[stopAt] = g.sock))
  PROVE  TsInv'
  <1>1. Socks' = Socks /\ Watched' = Watched /\ Open' = Open /\ Done' = Done
    BY DEF Socks, Watched, Open, Done
  <1>2. TsType'
    BY <1>1 DEF TsInv, TsType
  <1>3. NoneMissed'
    BY <1>1 DEF TsInv, NoneMissed
  <1> QED
    BY <1>1, <1>2, <1>3 DEF TsInv

(* A fiber that has seen m_isStop ends, and its socket with it.             *)
LEMMA LoopTestInv ==
  ASSUME TsInv, NEW f \in accepters, LoopTest(f)
  PROVE  TsInv'
  <1>1. /\ UNCHANGED <<m_socks, m_isStop, stopTasks, stopAt, stopStep, startCalls, overlapped,
                       orphaned>>
        /\ Socks' = Socks /\ Done' = Done
    BY DEF LoopTest, Socks, Done
  <1>2. CASE m_isStop
    <2>1. /\ accepters' = accepters \ {f}
          /\ listener' = CloseSockets(listener, {f.sock} \ (Socks \cup Watched'))
      BY <1>2 DEF LoopTest, Referred, Socks, Watched
    <2>2. /\ listener' \in Seq(Listening) /\ DOMAIN listener' = DOMAIN listener
          /\ Open' = Open \ ({f.sock} \ (Socks \cup Watched'))
      <3>1. listener \in Seq(Listening)
        BY DEF TsInv, TsType
      <3> QED
        BY ONLY <2>1, <3>1, SocketsClosed, Zenon
    <2>3. Socks' = Socks /\ Watched' \subseteq Watched /\ Watched \subseteq Watched' \cup {f.sock}
      BY <1>1, <2>1 DEF Socks, Watched
    <2>4. TsType'
      BY <1>1, <2>1, <2>2, <2>3 DEF TsInv, TsType
    <2>5. NoneMissed'
      <3>1. \A g \in accepters' : g \in accepters /\ g.sock \in Watched'
        BY <2>1 DEF Watched
      <3> QED
        BY <1>1, <2>2, <3>1 DEF TsInv, NoneMissed
    <2> QED
      BY <1>1, <1>2, <2>1, <2>2, <2>3, <2>4, <2>5 DEF TsInv
  <1>3. CASE ~m_isStop
    <2> DEFINE g == [f EXCEPT !.pc = "accept"]
    <2>1. accepters' = (accepters \ {f}) \cup {g} /\ UNCHANGED listener
      BY <1>3 DEF LoopTest
    <2>2. g \in Accepting /\ g.sock = f.sock /\ g.pc # "waiting"
      BY DEF TsInv, TsType, Accepting
    <2> HIDE DEF g
    <2> QED
      BY <1>1, <2>1, <2>2, FiberMoves
  <1> QED
    BY <1>2, <1>3

LEMMA AcceptReturnsInv ==
  ASSUME TsInv, NEW f \in accepters, NEW client \in BOOLEAN, AcceptReturns(f, client)
  PROVE  TsInv'
  <1> DEFINE g == [f EXCEPT !.pc = "loop"]
  <1>1. /\ accepters' = (accepters \ {f}) \cup {g}
        /\ UNCHANGED <<m_socks, listener, m_isStop, stopTasks, stopAt, stopStep, startCalls,
                       overlapped, orphaned>>
    BY DEF AcceptReturns
  <1>2. g \in Accepting /\ g.sock = f.sock /\ g.pc # "waiting"
    BY DEF TsInv, TsType, Accepting
  <1> HIDE DEF g
  <1> QED
    BY <1>1, <1>2, FiberMoves

LEMMA AcceptWaitsInv ==
  ASSUME TsInv, NEW f \in accepters, AcceptWaits(f)
  PROVE  TsInv'
  <1> SUFFICES ASSUME NEW l, l = (/\ stopAt \in DOMAIN m_socks /\ m_socks[stopAt] = f.sock
                                  /\ stopStep = "close_f")
               PROVE  TsInv'
    OBVIOUS
  <1> DEFINE g == [f EXCEPT !.pc = "waiting", !.late = l]
  <1>1. /\ accepters' = (accepters \ {f}) \cup {g} /\ listener[f.sock].open
        /\ UNCHANGED <<m_socks, listener, m_isStop, stopTasks, stopAt, stopStep, startCalls,
                       overlapped, orphaned>>
    BY DEF AcceptWaits
  <1>2. l \in BOOLEAN
    OBVIOUS
  <1>3. g \in Accepting /\ g.sock = f.sock /\ g.late = l
    BY ZenonT(60), <1>2 DEF TsInv, TsType, Accepting
  <1>4. f.sock \in Open
    BY <1>1 DEF TsInv, TsType, Watched, Open
  <1> HIDE DEF g
  <1>5. g.late \/ (g.sock \in Open /\ ~(stopAt \in DOMAIN m_socks /\ stopStep = "close_f" /\ m_socks[stopAt] = g.sock))
    BY <1>3, <1>4
  <1> QED
    BY <1>1, <1>3, <1>5, FiberMoves

LEMMA ClientArrivesInv ==
  ASSUME TsInv, NEW f \in accepters, ClientArrives(f)
  PROVE  TsInv'
  <1>1. /\ accepters' = (accepters \ {f}) \cup {Woken(f)}
        /\ UNCHANGED <<m_socks, listener, m_isStop, stopTasks, stopAt, stopStep, startCalls,
                       overlapped, orphaned>>
    BY DEF ClientArrives
  <1>2. Woken(f) \in Accepting /\ Woken(f).sock = f.sock /\ Woken(f).pc # "waiting"
    BY ZenonT(60) DEF TsInv, TsType, Accepting, Woken
  <1> QED
    BY <1>1, <1>2, FiberMoves

(* The sockets made by bind come after the others.                          *)
LEMMA BindInv ==
  ASSUME TsInv, NEW n \in 1..MaxSockets, NEW addrs \in [1..n -> Addrs], NEW bad \in SUBSET (1..n),
         Bind(addrs, bad)
  PROVE  TsInv'
  <1> SUFFICES ASSUME NEW L, L = Len(listener),
                      NEW new, new = [k \in 1..n |-> [addr |-> addrs[k], open |-> k \notin bad]],
                      NEW made, made = listener \o new
               PROVE  TsInv'
    OBVIOUS
  <1>0. /\ L \in Nat /\ n \in Nat /\ DOMAIN listener = 1..L /\ listener \in Seq(Listening) /\ DOMAIN addrs = 1..n
        /\ m_socks \in Seq(1..L)
    BY TcpServerAssumption DEF TsInv, TsType
  <1>1. new \in Seq(Listening) /\ Len(new) = n /\ \A k \in 1..n : new[k] \in Listening /\ (new[k].open <=> k \notin bad)
    <2>1. \A k \in 1..n : new[k] \in Listening /\ (new[k].open <=> k \notin bad)
      BY DEF Listening
    <2>2. new \in [1..n -> Listening]
      BY <2>1
    <2> QED
      BY <1>0, <2>1, <2>2
  <1>2. /\ made \in Seq(Listening) /\ DOMAIN made = 1..(L + n)
        /\ \A i \in 1..L : made[i] = listener[i]
        /\ \A k \in 1..n : made[L + k] = new[k]
    BY <1>0, <1>1
  <1>3. UNCHANGED <<m_isStop, accepters, stopTasks, stopAt, stopStep, startCalls, overlapped>>
        /\ stopAt = 0
    BY DEF Bind
  <1>4. Watched' = Watched
    BY <1>3 DEF Watched
  <1>a. Done = {} /\ Done' = {}
    <2>1. Done = {}
      BY <1>3, NoTask DEF TsInv
    <2>2. m_socks' \in Seq(Nat) => Done' = {}
      BY <1>3 DEF Done
    <2>3. m_socks' \in Seq(Nat)
      <3> DEFINE added == [k \in 1..n |-> L + k]
      <3>1. \A k \in 1..n : L + k \in Nat
        BY <1>0
      <3>2. added \in Seq(Nat)
        BY <1>0, <3>1
      <3>3. m_socks \in Seq(Nat) /\ <<>> \in Seq(Nat)
        BY <1>0
      <3>4. m_socks' = <<>> \/ m_socks' = m_socks \o added
        BY <1>0 DEF Bind
      <3> HIDE DEF added
      <3>5. \A p, q \in Seq(Nat) : p \o q \in Seq(Nat)
        OBVIOUS
      <3> QED
        BY <3>2, <3>3, <3>4, <3>5
    <2> QED
      BY <2>1, <2>2, <2>3
  <1>5. CASE bad = {}
    <2>1. /\ m_socks' = m_socks \o [k \in 1..n |-> L + k]
          /\ listener' = made /\ orphaned' = orphaned
      BY <1>0, <1>5 DEF Bind
    <2> SUFFICES ASSUME NEW added, added = [k \in 1..n |-> L + k] PROVE TsInv'
      OBVIOUS
    <2>2. added \in Seq(1..(L + n)) /\ Len(added) = n /\ Range(added) = (L + 1)..(L + n)
      <3>1. added \in [1..n -> 1..(L + n)]
        BY <1>0
      <3>2. ASSUME NEW i \in (L + 1)..(L + n) PROVE i \in Range(added)
        <4>1. i - L \in 1..n /\ added[i - L] = i
          BY <1>0
        <4> QED
          BY <3>1, <4>1 DEF Range
      <3>3. ASSUME NEW i \in Range(added) PROVE i \in (L + 1)..(L + n)
        BY <1>0, <3>3 DEF Range
      <3>4. Range(added) = (L + 1)..(L + n)
        BY <3>2, <3>3
      <3>5. added \in Seq(1..(L + n))
        BY <1>0, <3>1
      <3>6. Len(added) = n
        BY <1>0
      <3> QED
        BY <3>4, <3>5, <3>6
    <2>3. m_socks \in Seq(1..(L + n))
      BY <1>0
    <2>4. m_socks' \in Seq(1..(L + n)) /\ Socks' = Socks \cup (L + 1)..(L + n)
      <3>1. Range(m_socks \o added) = Range(m_socks) \cup Range(added)
        <4>1. /\ Len(m_socks) \in Nat /\ DOMAIN m_socks = 1..Len(m_socks) /\ DOMAIN added = 1..n
              /\ DOMAIN (m_socks \o added) = 1..(Len(m_socks) + n)
              /\ \A i \in 1..Len(m_socks) : (m_socks \o added)[i] = m_socks[i]
              /\ \A k \in 1..n : (m_socks \o added)[Len(m_socks) + k] = added[k]
          BY SMTT(60), <1>0, <2>2, <2>3
        <4>2. \A i \in 1..(Len(m_socks) + n) :
                i \in 1..Len(m_socks) \/ (i - Len(m_socks) \in 1..n /\ Len(m_socks) + (i - Len(m_socks)) = i)
          BY <1>0, <4>1
        <4>3. ASSUME NEW x \in Range(m_socks \o added) PROVE x \in Range(m_socks) \cup Range(added)
          <5>1. PICK i \in 1..(Len(m_socks) + n) : (m_socks \o added)[i] = x
            BY <4>1, <4>3 DEF Range
          <5>2. CASE i \in 1..Len(m_socks)
            BY <4>1, <5>1, <5>2 DEF Range
          <5>3. CASE i - Len(m_socks) \in 1..n /\ Len(m_socks) + (i - Len(m_socks)) = i
            <6>1. added[i - Len(m_socks)] = x
              BY <4>1, <5>1, <5>3
            <6> QED
              BY <4>1, <5>3, <6>1 DEF Range
          <5> QED
            BY <4>2, <5>2, <5>3
        <4>4. ASSUME NEW x \in Range(m_socks) PROVE x \in Range(m_socks \o added)
          <5>1. PICK i \in 1..Len(m_socks) : m_socks[i] = x
            BY <4>1, <4>4 DEF Range
          <5>2. i \in 1..(Len(m_socks) + n)
            BY <1>0, <4>1
          <5> QED
            BY <4>1, <5>1, <5>2 DEF Range
        <4>5. ASSUME NEW x \in Range(added) PROVE x \in Range(m_socks \o added)
          <5>1. PICK k \in 1..n : added[k] = x
            BY <4>1, <4>5 DEF Range
          <5>2. Len(m_socks) + k \in 1..(Len(m_socks) + n)
            BY <1>0, <4>1
          <5> QED
            BY <4>1, <5>1, <5>2 DEF Range
        <4> QED
          BY <4>3, <4>4, <4>5
      <3>2. m_socks \o added \in Seq(1..(L + n))
        BY <2>2, <2>3
      <3>3. m_socks' = m_socks \o added
        BY <2>1
      <3> QED
        BY <2>2, <3>1, <3>2, <3>3 DEF Socks
    <2>5. Open' = Open \cup (L + 1)..(L + n)
      <3>1. DOMAIN listener' = 1..(L + n) /\ \A i \in 1..L : listener'[i] = listener[i]
        BY <1>2, <2>1
      <3>2. \A i \in (L + 1)..(L + n) : i \in 1..(L + n) /\ listener'[i].open
        <4> SUFFICES ASSUME NEW i \in (L + 1)..(L + n) PROVE i \in 1..(L + n) /\ listener'[i].open
          OBVIOUS
        <4>1. i - L \in 1..n /\ L + (i - L) = i /\ i \in 1..(L + n)
          BY <1>0
        <4>2. made[i] = new[i - L]
          BY <1>2, <4>1
        <4> QED
          BY <1>1, <1>5, <2>1, <4>1, <4>2
      <3>3. \A i \in 1..(L + n) : i \in 1..L \/ i \in (L + 1)..(L + n)
        BY <1>0
      <3>4. \A i \in 1..L : i \in 1..(L + n)
        BY <1>0
      <3> QED
        BY <1>0, <3>1, <3>2, <3>3, <3>4 DEF Open
    <2>6. Watched \subseteq 1..L /\ Watched \subseteq 1..(L + n) /\ \A i \in Watched : i \notin (L + 1)..(L + n)
      BY <1>0 DEF TsInv, TsType
    <2>8. stopAt' \in 0..(Len(m_socks') + 1) /\ stopAt' \notin DOMAIN m_socks'
      <3>1. Len(m_socks') \in Nat /\ DOMAIN m_socks' = 1..Len(m_socks')
        BY <2>4
      <3> QED
        BY <1>3, <3>1
    <2>7. TsType'
      BY <1>2, <1>3, <1>4, <2>1, <2>4, <2>6, <2>8 DEF TsInv, TsType
    <2>9. NoneMissed'
      BY <1>3, <2>5, <2>8 DEF TsInv, NoneMissed
    <2> QED
      BY <1>3, <1>4, <1>a, <2>1, <2>4, <2>5, <2>6, <2>7, <2>9 DEF TsInv
  <1>6. CASE bad # {}
    <2>1. /\ m_socks' = <<>>
          /\ listener' = CloseSockets(made, DOMAIN made \ Watched)
          /\ orphaned' = (orphaned \/ accepters # {})
      <3>1. Range(<<>>) = {}
        BY DEF Range
      <3> QED
        BY <1>0, <1>6, <3>1 DEF Bind, Referred, Watched
    <2>2. /\ listener' \in Seq(Listening) /\ DOMAIN listener' = 1..(L + n)
          /\ \A i \in 1..(L + n) : listener'[i].open <=> made[i].open /\ i \in Watched
      <3>1. /\ listener' \in Seq(Listening) /\ DOMAIN listener' = DOMAIN made
            /\ \A i \in DOMAIN made : listener'[i].open <=> made[i].open /\ i \notin (DOMAIN made \ Watched)
        <4>1. made \in Seq(Listening) /\ listener' = CloseSockets(made, DOMAIN made \ Watched)
          BY <1>2, <2>1
        <4> QED
          BY ONLY <4>1, MadeClosed
      <3> QED
        BY <1>2, <3>1
    <2>3. Watched \subseteq 1..L /\ Watched \subseteq 1..(L + n)
      BY <1>0 DEF TsInv, TsType
    <2>4. Open' = Open \cap Watched
      BY <1>0, <1>2, <2>2, <2>3 DEF Open
    <2>5. Socks' = {} /\ m_socks' \in Seq(1..(L + n)) /\ Len(m_socks') = 0
      BY <2>1, NoSocks
    <2>6. orphaned' \in BOOLEAN /\ (~orphaned' => ~orphaned /\ accepters = {})
      BY <2>1, Zenon DEF TsInv, TsType
    <2>7. TsType'
      BY <1>3, <1>4, <2>2, <2>3, <2>5, <2>6 DEF TsInv, TsType
    <2>8. ~m_isStop /\ ~overlapped => Watched \subseteq Open'
      BY <2>4 DEF TsInv
    <2>9. accepters = {} => Watched = {}
      BY DEF Watched
    <2>11. stopAt' \notin DOMAIN m_socks'
      BY <1>3, <2>5
    <2>10. NoneMissed'
      <3>1. \A f \in accepters : f.sock \in Watched
        BY DEF Watched
      <3> QED
        BY <1>3, <2>4, <2>11, <3>1 DEF TsInv, NoneMissed
    <2> QED
      BY <1>3, <1>4, <1>a, <2>4, <2>5, <2>6, <2>7, <2>8, <2>9, <2>10 DEF TsInv
  <1> QED
    BY <1>5, <1>6

LEMMA TsInvInit == TsInit => TsInv
  <1> SUFFICES ASSUME TsInit PROVE TsInv
    OBVIOUS
  <1>1. Open = {} /\ Socks = {} /\ Watched = {} /\ Done = {}
    BY DEF TsInit, Open, Socks, Watched, Done, Range
  <1>2. listener \in Seq(Listening) /\ m_socks \in Seq(DOMAIN listener)
    BY DEF TsInit
  <1>3. accepters = {} /\ stopAt = 0 /\ Len(m_socks) = 0
    BY DEF TsInit
  <1>4. TsType
    <2>1. stopAt \in 0..(Len(m_socks) + 1)
      BY <1>3
    <2>2. accepters \subseteq Accepting /\ Watched \subseteq DOMAIN listener
      BY <1>1, <1>3
    <2> QED
      BY <1>2, <1>3, <2>1, <2>2 DEF TsInit, TsType
  <1> QED
    BY <1>1, <1>3, <1>4 DEF TsInit, TsInv, NoneMissed

LEMMA TsInvStep == TsInv /\ [TsNext]_tsvars => TsInv'
  <1> SUFFICES ASSUME TsInv, [TsNext]_tsvars PROVE TsInv'
    OBVIOUS
  <1>1. ASSUME NEW f \in accepters,
               \/ LoopTest(f) \/ AcceptWaits(f) \/ ClientArrives(f)
               \/ \E client \in BOOLEAN : AcceptReturns(f, client)
        PROVE  TsInv'
    BY <1>1, LoopTestInv, AcceptReturnsInv, AcceptWaitsInv, ClientArrivesInv
  <1>2. CASE UNCHANGED tsvars
    <2>1. Open' = Open /\ Socks' = Socks /\ Watched' = Watched /\ Done' = Done
      BY <1>2 DEF tsvars, Open, Socks, Watched, Done
    <2>2. TsType' /\ NoneMissed'
      BY <1>2, <2>1 DEF tsvars, TsInv, TsType, NoneMissed
    <2> QED
      BY <1>2, <2>1, <2>2 DEF tsvars, TsInv
  <1>3. CASE \E n \in 1..MaxSockets : \E addrs \in [1..n -> Addrs], bad \in SUBSET (1..n) : Bind(addrs, bad)
    BY <1>3, BindInv
  <1> QED
    BY <1>1, <1>2, <1>3, StartInv, StopInv, StopTaskInv, StopCancelsInv, StopClosesInv,
       StopTaskEndsInv, DestroyInv DEF TsNext

(* Whatever bind, start and stop do in which order: as long as no start()   *)
(* overtakes the end of a stop(), every fiber of startAccept that stop()    *)
(* leaves has a closed socket and waits there only if it began to between   *)
(* the last cancelAll and close_f, no two wait on one socket, and a socket  *)
(* is open just as long as the server or a fiber refers to it.              *)
THEOREM AcceptFibersEnd == TsSpec => []AcceptersEnd
  <1>1. TsInv => AcceptersEnd
    <2> SUFFICES ASSUME TsInv PROVE AcceptersEnd
      OBVIOUS
    <2>1. \A f \in accepters : f.sock \in DOMAIN listener /\ f.sock \in Watched
      BY DEF TsInv, TsType, Watched
    <2>2. \A f \in accepters : f.sock \in Open <=> listener[f.sock].open
      BY <2>1 DEF Open
    <2>3. \A i \in DOMAIN listener : i \in Open <=> listener[i].open
      BY DEF Open
    <2>4. /\ \A f \in accepters : ~listener[f.sock].open /\ ~m_isStop => overlapped
          /\ \A f, g \in accepters : f.sock = g.sock /\ f # g => overlapped
          /\ m_isStop /\ stopTasks = 0 /\ ~overlapped /\ ~orphaned => \A f \in accepters : ~listener[f.sock].open
      BY <2>1, <2>2 DEF TsInv
    <2>5. /\ stopAt = 0 => \A i \in DOMAIN listener : i \in Range(m_socks) => listener[i].open
          /\ \A i \in DOMAIN listener : listener[i].open => i \in Referred(m_socks, accepters)
      BY <2>3, NoTask DEF TsInv, Socks, Watched, Referred
    <2>6. \A f \in accepters : f.pc = "waiting" /\ ~listener[f.sock].open => f.late
      BY <2>2 DEF TsInv, NoneMissed
    <2> QED
      BY <2>4, <2>5, <2>6 DEF AcceptersEnd
  <1> QED
    BY <1>1, TsInvInit, TsInvStep, PTL DEF TsSpec

-----------------------------------------------------------------------------
(* ServletDispatch.  First, the least and the greatest of some numbers.     *)
LEMMA LeastIs ==
  ASSUME NEW S \in SUBSET Nat, S # {}
  PROVE  \E n \in S : \A m \in S : n <= m
  <1> DEFINE Less == OpToRel(<, Nat)
  <1>1. IsWellFoundedOn(Less, Nat)
    BY NatLessThanWellFounded
  <1>2. PICK n \in S : \A m \in S : <<m, n>> \notin Less
    <2> HIDE DEF Less
    <2> QED
      BY ONLY <1>1, S \subseteq Nat, WFMin, S # {}
  <1>3. \A m \in S : ~(m < n)
    BY <1>2 DEF OpToRel
  <1> QED
    BY <1>3

LEMMA MinIs ==
  ASSUME NEW S \in SUBSET Nat, S # {}
  PROVE  Min(S) \in S /\ \A n \in S : Min(S) <= n
  <1>1. \E m \in S : \A n \in S : m <= n
    BY LeastIs
  <1> QED
    BY <1>1 DEF Min

LEMMA MaxIs ==
  ASSUME NEW n \in Nat, NEW S \in SUBSET (1..n), S # {}
  PROVE  Max(S) \in S /\ \A k \in S : k <= Max(S)
  <1> DEFINE T == {n - k : k \in S}
  <1>1. T \in SUBSET Nat /\ T # {}
    <2>1. \A k \in S : k \in 1..n /\ n - k \in Nat
      OBVIOUS
    <2> QED
      BY <2>1
  <1>2. PICK m \in T : \A k \in T : m <= k
    <2> HIDE DEF T
    <2> QED
      BY <1>1, LeastIs
  <1>3. PICK x \in S : m = n - x
    BY <1>2
  <1>4. \A k \in S : k <= x
    <2> SUFFICES ASSUME NEW k \in S PROVE k <= x
      OBVIOUS
    <2>1. n - x <= n - k
      BY <1>2, <1>3
    <2> QED
      BY <2>1
  <1>5. \E y \in S : \A k \in S : y >= k
    BY <1>4
  <1>6. Max(S) \in S /\ \A k \in S : Max(S) >= k
    BY <1>5 DEF Max
  <1> QED
    BY <1>6

(* What the history says, of any history q.                                 *)
Kinds == {"add", "del", "addGlob", "delGlob", "default"}
Edits == Kinds \X (Uris \cup Globs \cup {"any"})

LastOf(q, kinds, key) ==
  LET at == {i \in DOMAIN q : q[i] \in kinds \X {key}} IN IF at = {} THEN 0 ELSE Max(at)
LivingOf(q, add, del, key) ==
  LET i == LastOf(q, {add, del}, key) IN IF i # 0 /\ q[i][1] = add THEN i ELSE 0

LEMMA LastOfIs ==
  ASSUME NEW q \in Seq(Edits), NEW kinds, NEW key, NEW x, x = LastOf(q, kinds, key)
  PROVE  /\ x \in 0..Len(q)
         /\ x # 0 => q[x] \in kinds \X {key}
         /\ \A i \in 1..Len(q) : q[i] \in kinds \X {key} => x # 0 /\ i <= x
  <1> SUFFICES ASSUME NEW at, at = {i \in DOMAIN q : q[i] \in kinds \X {key}}
               PROVE  /\ x \in 0..Len(q)
                      /\ x # 0 => q[x] \in kinds \X {key}
                      /\ \A i \in 1..Len(q) : q[i] \in kinds \X {key} => x # 0 /\ i <= x
    OBVIOUS
  <1>1. Len(q) \in Nat /\ DOMAIN q = 1..Len(q) /\ at \in SUBSET (1..Len(q))
    OBVIOUS
  <1>2. x = IF at = {} THEN 0 ELSE Max(at)
    BY DEF LastOf
  <1>3. CASE at = {}
    BY <1>1, <1>2, <1>3
  <1>4. CASE at # {}
    <2>1. x \in at /\ \A k \in at : k <= x
      BY <1>1, <1>2, <1>4, MaxIs
    <2> QED
      BY <1>1, <2>1
  <1> QED
    BY <1>3, <1>4

LEMMA AppendIs ==
  ASSUME NEW S, NEW q \in Seq(S), NEW e \in S
  PROVE  /\ Append(q, e) \in Seq(S) /\ Len(q) \in Nat /\ Len(Append(q, e)) = Len(q) + 1
         /\ DOMAIN Append(q, e) = 1..(Len(q) + 1)
         /\ \A i \in 1..Len(q) : Append(q, e)[i] = q[i]
         /\ Append(q, e)[Len(q) + 1] = e
  OBVIOUS

(* An edit of that kind and key is the last one, any other changes nothing. *)
LEMMA LastOfAppend ==
  ASSUME NEW q \in Seq(Edits), NEW e \in Edits, NEW kinds, NEW key
  PROVE  LastOf(Append(q, e), kinds, key) = IF e \in kinds \X {key} THEN Len(q) + 1 ELSE LastOf(q, kinds, key)
  <1>0. Len(q) \in Nat
    OBVIOUS
  <1> SUFFICES ASSUME NEW r, r = Append(q, e), NEW n \in Nat, n = Len(q),
                      NEW x, x = LastOf(q, kinds, key), NEW y, y = LastOf(r, kinds, key)
               PROVE  y = IF e \in kinds \X {key} THEN n + 1 ELSE x
    BY <1>0, Zenon
  <1>1. /\ r \in Seq(Edits) /\ Len(r) = n + 1 /\ r[n + 1] = e
        /\ \A i \in 1..n : r[i] = q[i]
    BY AppendIs
  <1>2. /\ x \in 0..n /\ (x # 0 => q[x] \in kinds \X {key})
        /\ \A i \in 1..n : q[i] \in kinds \X {key} => x # 0 /\ i <= x
    BY LastOfIs
  <1>3. /\ y \in 0..(n + 1) /\ (y # 0 => r[y] \in kinds \X {key})
        /\ \A i \in 1..(n + 1) : r[i] \in kinds \X {key} => y # 0 /\ i <= y
    <2>1. /\ y \in 0..Len(r) /\ (y # 0 => r[y] \in kinds \X {key})
          /\ \A i \in 1..Len(r) : r[i] \in kinds \X {key} => y # 0 /\ i <= y
      BY ONLY <1>1, y = LastOf(r, kinds, key), LastOfIs
    <2> QED
      BY <1>1, <2>1
  <1>4. CASE e \in kinds \X {key}
    <2>1. n + 1 \in 1..(n + 1)
      OBVIOUS
    <2>2. y # 0 /\ n + 1 <= y
      BY <1>1, <1>3, <1>4, <2>1
    <2> QED
      BY <1>3, <1>4, <2>2
  <1>5. CASE e \notin kinds \X {key}
    <2>1. y # n + 1
      BY <1>1, <1>3, <1>5
    <2>2. y \in 0..n
      BY <1>3, <2>1
    <2>3. y # 0 => y \in 1..n /\ q[y] \in kinds \X {key} /\ x # 0 /\ y <= x
      BY <1>1, <1>2, <1>3, <2>2
    <2>4. x # 0 => x \in 1..n /\ x \in 1..(n + 1) /\ r[x] \in kinds \X {key} /\ y # 0 /\ x <= y
      <3>1. x # 0 => x \in 1..n /\ x \in 1..(n + 1)
        BY <1>2
      <3>2. x # 0 => r[x] \in kinds \X {key}
        BY <1>1, <1>2, <3>1
      <3> QED
        BY <1>3, <3>1, <3>2
    <2>5. x = y
      BY <1>2, <2>2, <2>3, <2>4
    <2> QED
      BY <1>5, <2>5
  <1> QED
    BY <1>4, <1>5

LEMMA LivingOfAppend ==
  ASSUME NEW q \in Seq(Edits), NEW kind \in Kinds, NEW k, <<kind, k>> \in Edits,
         NEW add \in Kinds, NEW del \in Kinds, add # del, NEW key
  PROVE  /\ kind = add /\ k = key => LivingOf(Append(q, <<kind, k>>), add, del, key) = Len(q) + 1
         /\ kind = del /\ k = key => LivingOf(Append(q, <<kind, k>>), add, del, key) = 0
         /\ ~(kind \in {add, del} /\ k = key) =>
              LivingOf(Append(q, <<kind, k>>), add, del, key) = LivingOf(q, add, del, key)
  <1>0. Len(q) \in Nat
    OBVIOUS
  <1> SUFFICES ASSUME NEW e, e = <<kind, k>>, NEW r, r = Append(q, e), NEW n \in Nat, n = Len(q),
                      NEW x, x = LastOf(q, {add, del}, key), NEW y, y = LastOf(r, {add, del}, key)
               PROVE  /\ kind = add /\ k = key => LivingOf(r, add, del, key) = n + 1
                      /\ kind = del /\ k = key => LivingOf(r, add, del, key) = 0
                      /\ ~(kind \in {add, del} /\ k = key) => LivingOf(r, add, del, key) = LivingOf(q, add, del, key)
    BY <1>0, Zenon
  <1>1. e \in {add, del} \X {key} <=> kind \in {add, del} /\ k = key
    OBVIOUS
  <1>2. y = IF e \in {add, del} \X {key} THEN n + 1 ELSE x
    BY LastOfAppend
  <1>3. r[n + 1] = e /\ e[1] = kind /\ \A i \in 1..n : r[i] = q[i]
    BY AppendIs
  <1>4. x \in 0..n
    BY LastOfIs
  <1>5. LivingOf(r, add, del, key) = IF y # 0 /\ r[y][1] = add THEN y ELSE 0
    BY DEF LivingOf
  <1>6. LivingOf(q, add, del, key) = IF x # 0 /\ q[x][1] = add THEN x ELSE 0
    BY DEF LivingOf
  <1>7. CASE kind \in {add, del} /\ k = key
    <2>1. y = n + 1 /\ y # 0
      BY <1>1, <1>2, <1>7
    <2> QED
      BY <1>3, <1>5, <1>7, <2>1
  <1>8. CASE ~(kind \in {add, del} /\ k = key)
    <2>1. y = x /\ (x # 0 => r[x] = q[x])
      BY <1>1, <1>2, <1>3, <1>4, <1>8
    <2> QED
      BY <1>5, <1>6, <1>8, <2>1
  <1> QED
    BY <1>7, <1>8

-----------------------------------------------------------------------------
(* The patterns, in the order in which they are tried.                      *)
Pattern == Globs \X Nat

Increasing(globs) == \A i, j \in DOMAIN globs : i < j => globs[i][2] < globs[j][2]

LEMMA JoinIs ==
  ASSUME NEW S, NEW q \in Seq(S), NEW r \in Seq(S)
  PROVE  q \o r \in Seq(S) /\ Len(q \o r) = Len(q) + Len(r)
  OBVIOUS

(* A sequence without its element number a.                                 *)
LEMMA CutIs ==
  ASSUME NEW q \in Seq(Pattern), NEW a \in 1..Len(q), NEW r, r = SubSeq(q, 1, a - 1) \o SubSeq(q, a + 1, Len(q))
  PROVE  /\ r \in Seq(Pattern) /\ DOMAIN r = 1..(Len(q) - 1)
         /\ \A k \in 1..(Len(q) - 1) : r[k] = IF k < a THEN q[k] ELSE q[k + 1]
  <1> SUFFICES ASSUME NEW front, front = SubSeq(q, 1, a - 1), NEW rear, rear = SubSeq(q, a + 1, Len(q))
               PROVE  /\ r \in Seq(Pattern) /\ DOMAIN r = 1..(Len(q) - 1)
                      /\ \A k \in 1..(Len(q) - 1) : r[k] = IF k < a THEN q[k] ELSE q[k + 1]
    OBVIOUS
  <1>1. Len(q) \in Nat /\ a \in Nat /\ 1 <= a /\ a <= Len(q)
    OBVIOUS
  <1>2. front \in Seq(Pattern) /\ Len(front) = a - 1 /\ \A k \in 1..(a - 1) : front[k] = q[k]
    <2>1. 1 \in Int /\ a - 1 \in Int /\ \A k \in 1..(a - 1) : q[k] \in Pattern
      BY <1>1
    <2>2. /\ SubSeq(q, 1, a - 1) \in Seq(Pattern) /\ Len(SubSeq(q, 1, a - 1)) = IF 1 <= a - 1 THEN a - 1 - 1 + 1 ELSE 0
          /\ \A k \in 1..(a - 1 - 1 + 1) : SubSeq(q, 1, a - 1)[k] = q[1 + k - 1]
      BY <2>1, SubSeqProperties
    <2>3. /\ front \in Seq(Pattern) /\ Len(front) = IF 1 <= a - 1 THEN a - 1 - 1 + 1 ELSE 0
          /\ \A k \in 1..(a - 1 - 1 + 1) : front[k] = q[1 + k - 1]
      BY <2>2, Zenon
    <2> QED
      BY ONLY <1>1, <2>3
  <1>3. rear \in Seq(Pattern) /\ Len(rear) = Len(q) - a /\ \A k \in 1..(Len(q) - a) : rear[k] = q[k + a]
    <2>1. a + 1 \in Int /\ Len(q) \in Int /\ \A k \in (a + 1)..Len(q) : q[k] \in Pattern
      BY <1>1
    <2>2. /\ rear \in Seq(Pattern)
          /\ Len(rear) = IF a + 1 <= Len(q) THEN Len(q) - (a + 1) + 1 ELSE 0
          /\ \A k \in 1..(Len(q) - (a + 1) + 1) : rear[k] = q[(a + 1) + k - 1]
      BY <2>1, SubSeqProperties
    <2> QED
      BY ONLY <1>1, <2>2
  <1>4. r = front \o rear
    BY r = SubSeq(q, 1, a - 1) \o SubSeq(q, a + 1, Len(q)), front = SubSeq(q, 1, a - 1), rear = SubSeq(q, a + 1, Len(q))
  <1>5. r \in Seq(Pattern) /\ Len(r) = Len(q) - 1
    <2>1. front \o rear \in Seq(Pattern) /\ Len(front \o rear) = Len(front) + Len(rear)
      BY <1>2, <1>3, JoinIs
    <2>2. r \in Seq(Pattern) /\ Len(r) = Len(front) + Len(rear)
      BY ONLY <1>4, <2>1
    <2>3. Len(front) + Len(rear) = Len(q) - 1
      BY ONLY <1>1, <1>2, <1>3
    <2> QED
      BY ONLY <2>2, <2>3
  <1>6. DOMAIN r = 1..(Len(q) - 1)
    BY ONLY <1>5
  <1>7. ASSUME NEW k \in 1..(Len(q) - 1) PROVE r[k] = IF k < a THEN q[k] ELSE q[k + 1]
    <2>1. CASE k < a
      <3>1. k \in 1..(a - 1)
        BY <1>1, <2>1
      <3> QED
        BY ONLY <1>1, <1>2, <1>3, <1>4, <2>1, <3>1
    <2>2. CASE ~(k < a)
      <3>1. k - (a - 1) \in 1..(Len(q) - a) /\ (k - (a - 1)) + a = k + 1
        BY <1>1, <2>2
      <3>2. r[k] = rear[k - (a - 1)]
        BY ONLY <1>1, <1>2, <1>3, <1>4, <2>2, <3>1, k \in 1..(Len(q) - 1)
      <3> QED
        BY <1>3, <2>2, <3>1, <3>2
    <2> QED
      BY <2>1, <2>2
  <1> QED
    BY <1>5, <1>6, <1>7

(* The erase loop drops the entry of the pattern, and the rest keep their   *)
(* order.                                                                   *)
LEMMA EraseGlobIs ==
  ASSUME NEW globs \in Seq(Pattern), Increasing(globs),
         \A i, j \in DOMAIN globs : globs[i][1] = globs[j][1] => i = j,
         NEW glob, NEW r, r = EraseGlob(globs, glob)
  PROVE  /\ r \in Seq(Pattern) /\ Increasing(r)
         /\ \A k \in DOMAIN r : \E i \in DOMAIN globs : r[k] = globs[i] /\ globs[i][1] # glob
         /\ \A i \in DOMAIN globs : globs[i][1] # glob => \E k \in DOMAIN r : r[k] = globs[i]
  <1> SUFFICES ASSUME NEW at, at = {i \in DOMAIN globs : globs[i][1] = glob}
               PROVE  /\ r \in Seq(Pattern) /\ Increasing(r)
                      /\ \A k \in DOMAIN r : \E i \in DOMAIN globs : r[k] = globs[i] /\ globs[i][1] # glob
                      /\ \A i \in DOMAIN globs : globs[i][1] # glob => \E k \in DOMAIN r : r[k] = globs[i]
    OBVIOUS
  <1>0. Len(globs) \in Nat /\ DOMAIN globs = 1..Len(globs)
    OBVIOUS
  <1>1. CASE at = {}
    <2>1. r = globs
      BY <1>1 DEF EraseGlob
    <2>2. \A i \in DOMAIN globs : globs[i][1] # glob
      BY <1>1
    <2> QED
      BY <2>1, <2>2
  <1>2. CASE at # {}
    <2>1. at \in SUBSET Nat
      BY <1>0
    <2>2. Min(at) \in at
      BY <1>2, <2>1, MinIs
    <2>3. r = SubSeq(globs, 1, Min(at) - 1) \o SubSeq(globs, Min(at) + 1, Len(globs))
      BY <1>2 DEF EraseGlob
    <2> SUFFICES ASSUME NEW a \in 1..Len(globs), a = Min(at)
                 PROVE  /\ r \in Seq(Pattern) /\ Increasing(r)
                        /\ \A k \in DOMAIN r : \E i \in DOMAIN globs : r[k] = globs[i] /\ globs[i][1] # glob
                        /\ \A i \in DOMAIN globs : globs[i][1] # glob => \E k \in DOMAIN r : r[k] = globs[i]
      BY <1>0, <2>2
    <2>4. /\ r \in Seq(Pattern) /\ DOMAIN r = 1..(Len(globs) - 1)
          /\ \A k \in 1..(Len(globs) - 1) : r[k] = IF k < a THEN globs[k] ELSE globs[k + 1]
      <3>1. r = SubSeq(globs, 1, a - 1) \o SubSeq(globs, a + 1, Len(globs))
        BY <2>3
      <3> QED
        BY ONLY <3>1, CutIs, globs \in Seq(Pattern), a \in 1..Len(globs)
    <2>5. globs[a][1] = glob /\ \A i \in DOMAIN globs : i # a => globs[i][1] # glob
      BY <2>2
    <2> DEFINE old(k) == IF k < a THEN k ELSE k + 1
    <2>6. \A k \in DOMAIN r : old(k) \in DOMAIN globs /\ old(k) # a /\ r[k] = globs[old(k)]
      BY <1>0, <2>4
    <2>7. \A j, k \in DOMAIN r : j < k => old(j) < old(k)
      BY <1>0, <2>4
    <2>8. ASSUME NEW i \in DOMAIN globs, i # a PROVE \E k \in DOMAIN r : old(k) = i
      <3>1. CASE i < a
        <4>1. i \in DOMAIN r /\ old(i) = i
          BY <1>0, <2>4, <3>1
        <4> QED
          BY <4>1
      <3>2. CASE i > a
        <4>1. i - 1 \in DOMAIN r /\ old(i - 1) = i
          BY <1>0, <2>4, <3>2
        <4> QED
          BY <4>1
      <3> QED
        BY <1>0, <2>8, <3>1, <3>2
    <2> HIDE DEF old
    <2>9. Increasing(r)
      BY <2>6, <2>7 DEF Increasing
    <2>10. \A k \in DOMAIN r : \E i \in DOMAIN globs : r[k] = globs[i] /\ globs[i][1] # glob
      BY <2>5, <2>6
    <2>11. \A i \in DOMAIN globs : globs[i][1] # glob => \E k \in DOMAIN r : r[k] = globs[i]
      BY <2>5, <2>6, <2>8
    <2> QED
      BY <2>4, <2>9, <2>10, <2>11
  <1> QED
    BY <1>1, <1>2

-----------------------------------------------------------------------------
(* The inductive invariant: what each of the three tables holds is what the *)
(* history says, and the patterns stand in the order of their servlets.     *)
LivingGlob(g) == LivingOf(servletEdits, "addGlob", "delGlob", g)

SvType == servletEdits \in Seq(Edits) /\ m_exact \in [Uris -> Nat] /\ m_globs \in Seq(Pattern)

GlobsInOrder ==
  /\ Increasing(m_globs)
  /\ \A i \in DOMAIN m_globs : m_globs[i][2] # 0 /\ m_globs[i][2] = LivingGlob(m_globs[i][1])
  /\ \A g \in Globs : LivingGlob(g) # 0 => \E i \in DOMAIN m_globs : m_globs[i][1] = g

SvInv ==
  /\ SvType
  /\ \A u \in Uris : m_exact[u] = LivingOf(servletEdits, "add", "del", u)
  /\ GlobsInOrder
  /\ m_default = LastOf(servletEdits, {"default"}, "any")

(* A pattern is there once.                                                 *)
LEMMA PatternOnce ==
  ASSUME SvType, GlobsInOrder
  PROVE  \A i, j \in DOMAIN m_globs : m_globs[i][1] = m_globs[j][1] => i = j
  <1> SUFFICES ASSUME NEW i \in DOMAIN m_globs, NEW j \in DOMAIN m_globs, m_globs[i][1] = m_globs[j][1]
               PROVE  i = j
    OBVIOUS
  <1>1. m_globs[i][2] = m_globs[j][2] /\ m_globs[i][2] \in Nat
    BY DEF GlobsInOrder, SvType, Pattern
  <1>2. ~(i < j) /\ ~(j < i)
    BY <1>1 DEF GlobsInOrder, Increasing
  <1>3. i \in Nat /\ j \in Nat
    BY DEF SvType
  <1> QED
    BY <1>2, <1>3

(* What an edit of one kind leaves alone of what the history says.          *)
LEMMA EditIs ==
  ASSUME SvType, NEW kind \in Kinds, NEW key \in Uris \cup Globs \cup {"any"}, Edit(kind, key)
  PROVE  /\ servletEdits' \in Seq(Edits) /\ Len(servletEdits') = Len(servletEdits) + 1
         /\ servletEdits' = Append(servletEdits, <<kind, key>>) /\ <<kind, key>> \in Edits
         /\ kind \notin {"add", "del"} => \A u \in Uris :
              LivingOf(servletEdits', "add", "del", u) = LivingOf(servletEdits, "add", "del", u)
         /\ kind \notin {"addGlob", "delGlob"} => \A g \in Globs : LivingGlob(g)' = LivingGlob(g)
         /\ kind # "default" =>
              LastOf(servletEdits', {"default"}, "any") = LastOf(servletEdits, {"default"}, "any")
  <1>1. servletEdits' = Append(servletEdits, <<kind, key>>) /\ <<kind, key>> \in Edits /\ servletEdits \in Seq(Edits)
    BY DEF Edit, Edits, SvType
  <1>2. servletEdits' \in Seq(Edits) /\ Len(servletEdits') = Len(servletEdits) + 1
    BY <1>1, AppendIs
  <1>3. {"add", "del", "addGlob", "delGlob"} \subseteq Kinds
    BY DEF Kinds
  <1>4. ASSUME kind \notin {"add", "del"}, NEW u \in Uris
        PROVE  LivingOf(servletEdits', "add", "del", u) = LivingOf(servletEdits, "add", "del", u)
    BY <1>1, <1>3, <1>4, LivingOfAppend
  <1>5. ASSUME kind \notin {"addGlob", "delGlob"}, NEW g \in Globs
        PROVE  LivingGlob(g)' = LivingGlob(g)
    BY <1>1, <1>3, <1>5, LivingOfAppend DEF LivingGlob
  <1>6. ASSUME kind # "default"
        PROVE  LastOf(servletEdits', {"default"}, "any") = LastOf(servletEdits, {"default"}, "any")
    <2>1. <<kind, key>> \notin {"default"} \X {"any"}
      BY <1>6
    <2> QED
      BY <1>1, <2>1, LastOfAppend
  <1> QED
    BY <1>1, <1>2, <1>4, <1>5, <1>6

(* The table of patterns, when no edit concerns it.                         *)
LEMMA GlobsStay ==
  ASSUME SvType, GlobsInOrder, m_globs' = m_globs, \A g \in Globs : LivingGlob(g)' = LivingGlob(g)
  PROVE  GlobsInOrder'
  <1>1. \A i \in DOMAIN m_globs : m_globs[i][1] \in Globs
    BY DEF SvType, Pattern
  <1> QED
    BY <1>1 DEF GlobsInOrder, Increasing

LEMMA ExactStep ==
  ASSUME SvInv, NEW u \in Uris, NEW kind \in {"add", "del"}, Edit(kind, u),
         m_exact' = [m_exact EXCEPT ![u] = IF kind = "add" THEN Len(servletEdits') ELSE 0],
         UNCHANGED <<m_globs, m_default>>
  PROVE  SvInv'
  <1>2. /\ servletEdits' \in Seq(Edits) /\ Len(servletEdits') = Len(servletEdits) + 1
        /\ servletEdits' = Append(servletEdits, <<kind, u>>) /\ <<kind, u>> \in Edits
        /\ \A g \in Globs : LivingGlob(g)' = LivingGlob(g)
        /\ LastOf(servletEdits', {"default"}, "any") = LastOf(servletEdits, {"default"}, "any")
    BY EditIs DEF SvInv, Kinds
  <1>3. "add" \in Kinds /\ "del" \in Kinds /\ servletEdits \in Seq(Edits) /\ Len(servletEdits) \in Nat
    BY DEF Kinds, SvInv, SvType
  <1>4. /\ kind = "add" => LivingOf(servletEdits', "add", "del", u) = Len(servletEdits) + 1
        /\ kind = "del" => LivingOf(servletEdits', "add", "del", u) = 0
        /\ \A v \in Uris : v # u => LivingOf(servletEdits', "add", "del", v) = LivingOf(servletEdits, "add", "del", v)
    <2>1. ASSUME NEW v
          PROVE  /\ kind = "add" /\ u = v => LivingOf(servletEdits', "add", "del", v) = Len(servletEdits) + 1
                 /\ kind = "del" /\ u = v => LivingOf(servletEdits', "add", "del", v) = 0
                 /\ ~(kind \in {"add", "del"} /\ u = v) =>
                      LivingOf(servletEdits', "add", "del", v) = LivingOf(servletEdits, "add", "del", v)
      <3>1. kind \in Kinds
        BY <1>3
      <3>2. /\ kind = "add" /\ u = v => LivingOf(Append(servletEdits, <<kind, u>>), "add", "del", v) = Len(servletEdits) + 1
            /\ kind = "del" /\ u = v => LivingOf(Append(servletEdits, <<kind, u>>), "add", "del", v) = 0
            /\ ~(kind \in {"add", "del"} /\ u = v) =>
                 LivingOf(Append(servletEdits, <<kind, u>>), "add", "del", v) = LivingOf(servletEdits, "add", "del", v)
        BY ONLY <1>2, <1>3, <3>1, LivingOfAppend
      <3> QED
        BY <1>2, <3>2
    <2> QED
      BY <2>1
  <1>5. /\ m_exact' \in [Uris -> Nat]
        /\ kind = "add" => m_exact'[u] = Len(servletEdits) + 1
        /\ kind = "del" => m_exact'[u] = 0
        /\ \A v \in Uris : v # u => m_exact'[v] = m_exact[v]
    BY <1>2, <1>3 DEF SvInv, SvType
  <1>6. ASSUME NEW v \in Uris PROVE m_exact'[v] = LivingOf(servletEdits', "add", "del", v)
    <2>1. CASE v = u
      BY <1>4, <1>5, <2>1
    <2>2. CASE v # u
      BY <1>4, <1>5, <2>2 DEF SvInv
    <2> QED
      BY <2>1, <2>2
  <1>7. GlobsInOrder'
    BY <1>2, GlobsStay DEF SvInv
  <1> QED
    BY <1>2, <1>5, <1>6, <1>7 DEF SvInv, SvType

LEMMA DefaultStep ==
  ASSUME SvInv, setDefault
  PROVE  SvInv'
  <1>1. Edit("default", "any") /\ m_default' = Len(servletEdits') /\ UNCHANGED <<m_exact, m_globs>>
    BY DEF setDefault
  <1>2. /\ servletEdits' \in Seq(Edits) /\ Len(servletEdits') = Len(servletEdits) + 1
        /\ servletEdits' = Append(servletEdits, <<"default", "any">>) /\ <<"default", "any">> \in Edits
        /\ \A u \in Uris : LivingOf(servletEdits', "add", "del", u) = LivingOf(servletEdits, "add", "del", u)
        /\ \A g \in Globs : LivingGlob(g)' = LivingGlob(g)
    BY <1>1, EditIs DEF SvInv, Kinds
  <1>3. LastOf(servletEdits', {"default"}, "any") = Len(servletEdits) + 1
    <2>1. <<"default", "any">> \in {"default"} \X {"any"}
      OBVIOUS
    <2> QED
      BY <1>2, <2>1, LastOfAppend DEF SvInv, SvType
  <1>4. GlobsInOrder'
    BY <1>1, <1>2, GlobsStay DEF SvInv
  <1> QED
    BY <1>1, <1>2, <1>3, <1>4 DEF SvInv, SvType

(* addGlobServlet and delGlobServlet: the old entry goes, a new one comes   *)
(* last, where no servlet is younger.                                       *)
LEMMA GlobStep ==
  ASSUME SvInv, NEW glob \in Globs, NEW kind \in {"addGlob", "delGlob"}, Edit(kind, glob),
         NEW r, r = EraseGlob(m_globs, glob),
         m_globs' = IF kind = "addGlob" THEN Append(r, <<glob, Len(servletEdits')>>) ELSE r,
         UNCHANGED <<m_exact, m_default>>
  PROVE  SvInv'
  <1> SUFFICES ASSUME NEW n \in Nat, n = Len(servletEdits) PROVE SvInv'
    <2>1. Len(servletEdits) \in Nat
      BY DEF SvInv, SvType
    <2> QED
      BY <2>1, Zenon
  <1>1. /\ servletEdits' \in Seq(Edits) /\ Len(servletEdits') = n + 1
        /\ servletEdits' = Append(servletEdits, <<kind, glob>>) /\ <<kind, glob>> \in Edits
        /\ \A u \in Uris : LivingOf(servletEdits', "add", "del", u) = LivingOf(servletEdits, "add", "del", u)
        /\ LastOf(servletEdits', {"default"}, "any") = LastOf(servletEdits, {"default"}, "any")
    BY EditIs DEF SvInv, Kinds
  <1>2. "addGlob" \in Kinds /\ "delGlob" \in Kinds /\ kind \in Kinds /\ servletEdits \in Seq(Edits)
    BY DEF Kinds, SvInv, SvType
  <1>3. /\ kind = "addGlob" => LivingGlob(glob)' = n + 1
        /\ kind = "delGlob" => LivingGlob(glob)' = 0
        /\ \A g \in Globs : g # glob => LivingGlob(g)' = LivingGlob(g)
    BY <1>1, <1>2, LivingOfAppend DEF LivingGlob
  <1>4. \A g \in Globs : LivingGlob(g) \in 0..n
    <2>1. \A g \in Globs : LastOf(servletEdits, {"addGlob", "delGlob"}, g) \in 0..n
      BY <1>2, LastOfIs
    <2> QED
      BY <2>1 DEF LivingGlob, LivingOf
  <1>5. /\ r \in Seq(Pattern) /\ Increasing(r)
        /\ \A k \in DOMAIN r : \E i \in DOMAIN m_globs : r[k] = m_globs[i] /\ m_globs[i][1] # glob
        /\ \A i \in DOMAIN m_globs : m_globs[i][1] # glob => \E k \in DOMAIN r : r[k] = m_globs[i]
    BY PatternOnce, EraseGlobIs DEF SvInv, GlobsInOrder, SvType
  <1>6. \A k \in DOMAIN r : /\ r[k][1] \in Globs /\ r[k][1] # glob /\ r[k][2] # 0
                           /\ r[k][2] = LivingGlob(r[k][1])' /\ r[k][2] \in 0..n
    <2> SUFFICES ASSUME NEW k \in DOMAIN r
                 PROVE  /\ r[k][1] \in Globs /\ r[k][1] # glob /\ r[k][2] # 0
                        /\ r[k][2] = LivingGlob(r[k][1])' /\ r[k][2] \in 0..n
      OBVIOUS
    <2>1. PICK i \in DOMAIN m_globs : r[k] = m_globs[i] /\ m_globs[i][1] # glob
      BY <1>5
    <2>2. m_globs[i][2] # 0 /\ m_globs[i][2] = LivingGlob(m_globs[i][1])
      BY DEF SvInv, GlobsInOrder
    <2>3. r[k][1] \in Globs /\ r[k][1] # glob
      BY <2>1 DEF SvInv, SvType, Pattern
    <2>4. LivingGlob(r[k][1])' = LivingGlob(r[k][1])
      BY <1>3, <2>3
    <2> QED
      BY <1>4, <2>1, <2>2, <2>3, <2>4
  <1>7. \A g \in Globs : g # glob /\ LivingGlob(g)' # 0 => \E k \in DOMAIN r : r[k][1] = g
    <2> SUFFICES ASSUME NEW g \in Globs, g # glob, LivingGlob(g)' # 0 PROVE \E k \in DOMAIN r : r[k][1] = g
      OBVIOUS
    <2>1. LivingGlob(g) # 0
      BY <1>3
    <2>2. PICK i \in DOMAIN m_globs : m_globs[i][1] = g
      BY <2>1 DEF SvInv, GlobsInOrder
    <2> QED
      BY <1>5, <2>2
  <1>8. CASE kind = "delGlob"
    <2>1. m_globs' = r
      BY <1>8
    <2>2. LivingGlob(glob)' = 0
      BY <1>3, <1>8
    <2>3. GlobsInOrder'
      BY <1>5, <1>6, <1>7, <2>1, <2>2 DEF GlobsInOrder
    <2> QED
      BY <1>1, <1>5, <2>1, <2>3 DEF SvInv, SvType
  <1>9. CASE kind = "addGlob"
    <2> SUFFICES ASSUME NEW e, e = <<glob, n + 1>>, NEW L, L = Len(r) PROVE SvInv'
      OBVIOUS
    <2>1. m_globs' = Append(r, e) /\ e \in Pattern /\ e[1] = glob /\ e[2] = n + 1
      BY <1>1, <1>9 DEF Pattern
    <2>2. /\ m_globs' \in Seq(Pattern) /\ L \in Nat /\ DOMAIN r = 1..L /\ DOMAIN m_globs' = 1..(L + 1)
          /\ \A i \in 1..L : m_globs'[i] = r[i]
          /\ m_globs'[L + 1] = e
      <3>1. /\ Append(r, e) \in Seq(Pattern) /\ L \in Nat /\ DOMAIN Append(r, e) = 1..(L + 1)
            /\ \A i \in 1..L : Append(r, e)[i] = r[i]
            /\ Append(r, e)[L + 1] = e
        BY ONLY <1>5, <2>1, L = Len(r), AppendIs
      <3>2. DOMAIN r = 1..L
        BY ONLY <1>5, L = Len(r)
      <3> QED
        BY ONLY <2>1, <3>1, <3>2
    <2>3. LivingGlob(glob)' = n + 1
      BY <1>3, <1>9
    <2>4. \A i \in 1..(L + 1) : i \in 1..L \/ i = L + 1
      BY <2>2
    <2>5. \A i \in DOMAIN m_globs' : \A g : g = m_globs'[i][1] => m_globs'[i][2] # 0 /\ m_globs'[i][2] = LivingGlob(g)'
      <3> SUFFICES ASSUME NEW i \in 1..(L + 1), NEW g, g = m_globs'[i][1]
                   PROVE  m_globs'[i][2] # 0 /\ m_globs'[i][2] = LivingGlob(g)'
        BY <2>2
      <3>1. CASE i = L + 1
        BY <2>1, <2>2, <2>3, <3>1
      <3>2. CASE i \in 1..L
        BY <1>6, <2>2, <3>2
      <3> QED
        BY <2>4, <3>1, <3>2
    <2>6. Increasing(m_globs)'
      <3> SUFFICES ASSUME NEW i \in 1..(L + 1), NEW j \in 1..(L + 1), i < j
                   PROVE  m_globs'[i][2] < m_globs'[j][2]
        BY <2>2 DEF Increasing
      <3>1. i \in 1..L
        BY <2>2
      <3>2. CASE j = L + 1
        <4>1. r[i][2] \in 0..n /\ m_globs'[i] = r[i]
          BY <1>6, <2>2, <3>1
        <4> QED
          BY <2>1, <2>2, <3>2, <4>1
      <3>3. CASE j \in 1..L
        BY <1>5, <2>2, <3>1, <3>3 DEF Increasing
      <3> QED
        BY <2>4, <3>2, <3>3
    <2>7. \A g \in Globs : LivingGlob(g)' # 0 => \E i \in DOMAIN m_globs' : m_globs'[i][1] = g
      <3> SUFFICES ASSUME NEW g \in Globs, LivingGlob(g)' # 0 PROVE \E i \in 1..(L + 1) : m_globs'[i][1] = g
        BY <2>2
      <3>1. CASE g = glob
        <4>1. L + 1 \in 1..(L + 1)
          BY <2>2
        <4> QED
          BY <2>1, <2>2, <3>1, <4>1
      <3>2. CASE g # glob
        <4>1. PICK k \in 1..L : r[k][1] = g
          BY <1>7, <2>2, <3>2
        <4>2. k \in 1..(L + 1)
          BY <2>2
        <4> QED
          BY <2>2, <4>1, <4>2
      <3> QED
        BY <3>1, <3>2
    <2>8. GlobsInOrder'
      BY <2>5, <2>6, <2>7 DEF GlobsInOrder, LivingGlob
    <2> QED
      BY <1>1, <2>2, <2>8 DEF SvInv, SvType
  <1> QED
    BY <1>8, <1>9

LEMMA SvInvInit == SvInit => SvInv
  <1> SUFFICES ASSUME SvInit PROVE SvInv
    OBVIOUS
  <1>1. servletEdits = <<>> /\ m_globs = <<>> /\ m_exact = [u \in Uris |-> 0] /\ m_default = 0
    BY DEF SvInit
  <1>2. \A kinds, key : LastOf(servletEdits, kinds, key) = 0
    <2> SUFFICES ASSUME NEW kinds, NEW key PROVE LastOf(servletEdits, kinds, key) = 0
      OBVIOUS
    <2>1. DOMAIN servletEdits = {}
      BY <1>1
    <2> QED
      BY <2>1 DEF LastOf
  <1>3. \A add, del, key : LivingOf(servletEdits, add, del, key) = 0
    BY <1>2 DEF LivingOf
  <1>4. SvType
    BY <1>1 DEF SvType
  <1>5. GlobsInOrder
    BY <1>1, <1>3 DEF GlobsInOrder, Increasing, LivingGlob
  <1> QED
    BY <1>1, <1>2, <1>3, <1>4, <1>5 DEF SvInv

LEMMA SvInvStep == SvInv /\ [SvNext]_svvars => SvInv'
  <1> SUFFICES ASSUME SvInv, [SvNext]_svvars PROVE SvInv'
    OBVIOUS
  <1>1. ASSUME NEW u \in Uris, addServlet(u) PROVE SvInv'
    BY <1>1, ExactStep DEF addServlet
  <1>2. ASSUME NEW u \in Uris, delServlet(u) PROVE SvInv'
    BY <1>2, ExactStep DEF delServlet
  <1>3. ASSUME NEW g \in Globs, addGlobServlet(g) PROVE SvInv'
    BY <1>3, GlobStep DEF addGlobServlet
  <1>4. ASSUME NEW g \in Globs, delGlobServlet(g) PROVE SvInv'
    BY <1>4, GlobStep DEF delGlobServlet
  <1>5. CASE UNCHANGED svvars
    BY <1>5 DEF svvars, SvInv, SvType, GlobsInOrder, LivingGlob, Increasing
  <1> QED
    BY <1>1, <1>2, <1>3, <1>4, <1>5, DefaultStep DEF SvNext

(* The first pattern that matches is the one whose servlet is the oldest of *)
(* those that match.                                                        *)
LEMMA FirstIsOldest ==
  ASSUME SvInv, NEW u \in Uris,
         NEW matching, matching = {i \in DOMAIN m_globs : u \in m_globs[i][1]},
         NEW alive, alive = {LivingGlob(g) : g \in {h \in Globs : u \in h}} \ {0}
  PROVE  /\ matching = {} <=> alive = {}
         /\ matching # {} => m_globs[Min(matching)][2] = Min(alive)
  <1>1. \A i \in DOMAIN m_globs : /\ i \in Nat /\ m_globs[i][1] \in Globs /\ m_globs[i][2] \in Nat
                                 /\ m_globs[i][2] # 0 /\ m_globs[i][2] = LivingGlob(m_globs[i][1])
    BY DEF SvInv, SvType, Pattern, GlobsInOrder
  <1>2. \A i \in matching : m_globs[i][2] \in alive
    BY <1>1
  <1>3. ASSUME NEW x \in alive PROVE \E i \in matching : x = m_globs[i][2]
    <2>1. PICK g \in Globs : u \in g /\ x = LivingGlob(g) /\ x # 0
      OBVIOUS
    <2>2. PICK i \in DOMAIN m_globs : m_globs[i][1] = g
      BY <2>1 DEF SvInv, GlobsInOrder
    <2> QED
      BY <1>1, <2>1, <2>2
  <1>4. CASE matching = {}
    BY <1>3, <1>4
  <1>5. CASE matching # {}
    <2>1. matching \in SUBSET Nat /\ alive \in SUBSET Nat
      BY <1>1, <1>3
    <2>2. Min(matching) \in matching /\ \A i \in matching : Min(matching) <= i
      BY <1>5, <2>1, MinIs
    <2>3. alive # {} /\ m_globs[Min(matching)][2] \in alive
      BY <1>2, <2>2
    <2>4. Min(alive) \in alive /\ \A x \in alive : Min(alive) <= x
      BY <2>1, <2>3, MinIs
    <2>5. PICK i \in matching : Min(alive) = m_globs[i][2]
      BY <1>3, <2>4
    <2>6. i = Min(matching) \/ Min(matching) < i
      BY <2>1, <2>2
    <2>7. Min(matching) < i => m_globs[Min(matching)][2] < m_globs[i][2]
      BY <2>2 DEF SvInv, GlobsInOrder, Increasing
    <2>8. Min(alive) <= m_globs[Min(matching)][2] /\ Min(alive) \in Nat /\ m_globs[Min(matching)][2] \in Nat
      BY <2>1, <2>3, <2>4
    <2>9. m_globs[Min(matching)][2] = Min(alive)
      BY <2>5, <2>6, <2>7, <2>8
    <2> QED
      BY <1>5, <2>3, <2>9
  <1> QED
    BY <1>4, <1>5

(* After any edits a request gets the servlet that the history of the edits *)
(* says, though the dispatcher keeps no history: the exact one, else the    *)
(* oldest of the patterns that match, else the default.                     *)
THEOREM DispatchInOrder == SvSpec => []DispatchOrder
  <1>1. SvInv => DispatchOrder
    <2> SUFFICES ASSUME SvInv, NEW u \in Uris,
                        NEW matching, matching = {i \in DOMAIN m_globs : u \in m_globs[i][1]},
                        NEW alive, alive = {LivingGlob(g) : g \in {h \in Globs : u \in h}} \ {0}
                 PROVE  getMatchedServlet(u) =
                          IF Living("add", "del", u) # 0 THEN Living("add", "del", u)
                          ELSE IF alive # {} THEN Min(alive) ELSE LastEdit({"default"}, "any")
      BY DEF DispatchOrder, Living, LastEdit, LivingGlob, LivingOf, LastOf
    <2>1. m_exact[u] = Living("add", "del", u) /\ m_default = LastEdit({"default"}, "any")
      BY DEF SvInv, Living, LastEdit, LivingOf, LastOf
    <2>2. /\ matching = {} <=> alive = {}
          /\ matching # {} => m_globs[Min(matching)][2] = Min(alive)
      BY FirstIsOldest
    <2>3. getMatchedServlet(u) = IF m_exact[u] # 0 THEN m_exact[u]
                                 ELSE IF matching # {} THEN m_globs[Min(matching)][2] ELSE m_default
      BY DEF getMatchedServlet
    <2> QED
      BY <2>1, <2>2, <2>3
  <1> QED
    BY <1>1, SvInvInit, SvInvStep, PTL DEF SvSpec

=============================================================================
