----------------------------- MODULE FdManager ------------------------------
(***************************************************************************)
(* FdManager and FdCtx (src/fd_manager.cc) with the hooked calls that use  *)
(* them: socket and accept register a descriptor, fcntl, ioctl and         *)
(* setsockopt keep what the user asked for, close forgets it.  A thread    *)
(* whose hooks are off closes descriptors behind the manager's back.       *)
(***************************************************************************)
EXTENDS Integers, FiniteSets, Sequences

CONSTANTS FdThreads, Fds,
          UsecPerMs,     \* microseconds in a millisecond
          Timevals       \* the timeouts a user asks for, in microseconds

ASSUME FdAssumption == UsecPerMs \in Nat \ {0} /\ Timevals \subseteq Nat

VARIABLES
  kernel,      \* fd -> "closed", or the kernel's flags of an open descriptor
  m_datas,     \* fd -> its FdCtx, or NoCtx
  wanted,      \* fd -> what its user last asked for and got (history)
  lost,        \* fd -> what of it the manager has missed (history)
  fpc          \* thread -> <<"idle">>, or where it is in get(fd, true)

fdvars == <<kernel, m_datas, wanted, lost, fpc>>

NoTimeout == 0 - 1                                   \* (uint64_t)-1
Closed == [open |-> FALSE, socket |-> FALSE, nonblock |-> FALSE]
NoCtx  == [isInit |-> FALSE, isSocket |-> FALSE, sysNonblock |-> FALSE,
           userNonblock |-> FALSE, recvTimeout |-> NoTimeout]
Opened(nonblock) == [nonblock |-> nonblock, timeout |-> NoTimeout]

FdInit ==
  /\ kernel = [f \in Fds |-> Closed] /\ m_datas = [f \in Fds |-> NoCtx]
  /\ wanted = [f \in Fds |-> Opened(FALSE)] /\ lost = [f \in Fds |-> {}]
  /\ fpc = [t \in FdThreads |-> <<"idle">>]

(* The kernel gives out a closed number.                                    *)
KernelOpens(t, f, socket, nonblock) ==
  /\ fpc[t] = <<"idle">> /\ ~kernel[f].open
  /\ kernel' = [kernel EXCEPT ![f] = [open |-> TRUE, socket |-> socket, nonblock |-> nonblock]]
  /\ wanted' = [wanted EXCEPT ![f] = Opened(nonblock)]
  /\ UNCHANGED m_datas

(* socket() and accept() with hooks; SOCK_NONBLOCK is among the types that  *)
(* socket() takes.                                                          *)
OpenFd(t, f, nonblock) ==
  /\ KernelOpens(t, f, TRUE, nonblock)
  /\ fpc' = [fpc EXCEPT ![t] = <<"get", f>>]
  /\ lost' = [lost EXCEPT ![f] = IF nonblock THEN @ \cup {"flags"} ELSE @]

(* Files and pipes have no hook, nor has socket() on a thread without them. *)
OpenUnhooked(t, f, socket, nonblock) ==
  /\ KernelOpens(t, f, socket, nonblock)
  /\ lost' = [lost EXCEPT ![f] = IF socket THEN @ \cup {"context"} ELSE @]
  /\ UNCHANGED fpc

(* get(fd, true): what is there is taken for what it is; else the read lock *)
(* is given up before the write lock is asked for.                          *)
GetLookup(t, f) ==
  /\ fpc[t] = <<"get", f>>
  /\ fpc' = [fpc EXCEPT ![t] = IF m_datas[f].isInit THEN <<"idle">> ELSE <<"create", f>>]
  /\ UNCHANGED <<kernel, m_datas, wanted, lost>>

FdCtxInit(f) ==
  [NoCtx EXCEPT !.isInit = kernel[f].open, !.isSocket = kernel[f].socket,
                !.sysNonblock = kernel[f].socket]

GetCreate(t, f) ==
  /\ fpc[t] = <<"create", f>>
  /\ m_datas' = [m_datas EXCEPT ![f] = FdCtxInit(f)]
  /\ kernel' = [kernel EXCEPT ![f].nonblock = @ \/ kernel[f].socket]
  /\ fpc' = [fpc EXCEPT ![t] = <<"idle">>]
  /\ UNCHANGED <<wanted, lost>>

Hooked(f) == m_datas[f].isInit /\ m_datas[f].isSocket

(* A descriptor is used once the call that opened it has returned.          *)
UsedBy(t, f) == /\ fpc[t] = <<"idle">> /\ kernel[f].open
                /\ \A u \in FdThreads : fpc[u] \notin {<<"get", f>>, <<"create", f>>}

(* fcntl(fd, F_SETFL, flags), hooked on every thread                        *)
FcntlSetFl(t, f, nonblock) ==
  /\ UsedBy(t, f)
  /\ wanted' = [wanted EXCEPT ![f].nonblock = nonblock]
  /\ m_datas' = IF Hooked(f) THEN [m_datas EXCEPT ![f].userNonblock = nonblock] ELSE m_datas
  /\ kernel' = [kernel EXCEPT ![f].nonblock =
                  IF Hooked(f) THEN m_datas[f].sysNonblock ELSE nonblock]
  /\ lost' = [lost EXCEPT ![f] = @ \ {"flags", "blocking"}]
  /\ UNCHANGED fpc

(* fcntl(fd, F_GETFL)                                                       *)
FcntlGetFl(f) == IF Hooked(f) THEN m_datas[f].userNonblock ELSE kernel[f].nonblock

(* ioctl(fd, FIONBIO, &v) goes on to the kernel as it is.                   *)
IoctlFionbio(t, f, nonblock) ==
  /\ UsedBy(t, f)
  /\ wanted' = [wanted EXCEPT ![f].nonblock = nonblock]
  /\ m_datas' = IF Hooked(f) THEN [m_datas EXCEPT ![f].userNonblock = nonblock] ELSE m_datas
  /\ kernel' = [kernel EXCEPT ![f].nonblock = nonblock]
  /\ lost' = [lost EXCEPT ![f] = IF nonblock THEN @ \ {"flags", "blocking"}
                                             ELSE (@ \ {"flags"}) \cup {"blocking"}]
  /\ UNCHANGED fpc

(* setsockopt(fd, SOL_SOCKET, SO_RCVTIMEO, us): the context has the new     *)
(* timeout, in whole milliseconds, before the kernel accepts or refuses it; *)
(* on a thread without hooks the kernel alone is told.                      *)
SetSockOpt(t, f, us, hooked, accepted) ==
  /\ UsedBy(t, f) /\ kernel[f].socket
  /\ m_datas' = IF hooked /\ m_datas[f].isInit
                THEN [m_datas EXCEPT ![f].recvTimeout = us \div UsecPerMs] ELSE m_datas
  /\ wanted' = IF accepted THEN [wanted EXCEPT ![f].timeout = us] ELSE wanted
  /\ lost' = CASE hooked /\ accepted  -> [lost EXCEPT ![f] = @ \ {"timeout"}]
               [] hooked # accepted   -> [lost EXCEPT ![f] = @ \cup {"timeout"}]
               [] ~hooked /\ ~accepted -> lost
  /\ UNCHANGED <<kernel, fpc>>

(* Mutant: close() does not del the context.                                *)
CloseFdKeepsContext(t, f) ==
  /\ UsedBy(t, f)
  /\ kernel' = [kernel EXCEPT ![f] = Closed]
  /\ lost' = [lost EXCEPT ![f] = {}]
  /\ UNCHANGED <<m_datas, wanted, fpc>>

(* close() with hooks: cancelAll, del, close_f.                             *)
CloseFd(t, f) ==
  /\ UsedBy(t, f)
  /\ m_datas' = [m_datas EXCEPT ![f] = NoCtx]
  /\ kernel' = [kernel EXCEPT ![f] = Closed]
  /\ lost' = [lost EXCEPT ![f] = {}]
  /\ UNCHANGED <<wanted, fpc>>

(* close() on a thread without hooks leaves the context behind.             *)
CloseUnhooked(t, f) ==
  /\ UsedBy(t, f)
  /\ kernel' = [kernel EXCEPT ![f] = Closed]
  /\ lost' = [lost EXCEPT ![f] = IF m_datas[f].isInit THEN {"context"} ELSE {}]
  /\ UNCHANGED <<m_datas, wanted, fpc>>

FdNext ==
  \E t \in FdThreads, f \in Fds :
    \/ \E n \in BOOLEAN : OpenFd(t, f, n) \/ \E s \in BOOLEAN : OpenUnhooked(t, f, s, n)
    \/ GetLookup(t, f) \/ GetCreate(t, f) \/ CloseFd(t, f) \/ CloseUnhooked(t, f)
    \/ \E v \in BOOLEAN : FcntlSetFl(t, f, v) \/ IoctlFionbio(t, f, v)
    \/ \E us \in Timevals, h, a \in BOOLEAN : SetSockOpt(t, f, us, h, a)

FdSpec == FdInit /\ [][FdNext]_fdvars
-----------------------------------------------------------------------------
(* What was asked of a socket that its calls wait for ms milliseconds: no   *)
(* end if nothing was asked; else less than a millisecond short of it, so   *)
(* that the 0 which stands for "no end" is a wait of 0 ms.                  *)
WaitsFor(ms, asked) ==
  IF asked = NoTimeout THEN ms = NoTimeout
  ELSE ms * UsecPerMs <= asked /\ asked < ms * UsecPerMs + UsecPerMs

(* Whatever number a socket got, and whoever had the number before: its     *)
(* calls never block their thread in the kernel, its user is shown the      *)
(* flag, and its calls wait for the time, that the user set.  Exceptions:   *)
(* a socket that was opened, or whose number was closed, on a thread        *)
(* without hooks ("context"); one made blocking with ioctl ("blocking");    *)
(* SOCK_NONBLOCK, which init() forgets ("flags"); a timeout that the kernel *)
(* refused after the context took it, or set without hooks ("timeout").     *)
SocketsHonoured ==
  \A f \in Fds :
    /\ kernel[f].open /\ kernel[f].socket /\ "context" \notin lost[f]
    /\ \A t \in FdThreads : fpc[t] \notin {<<"get", f>>, <<"create", f>>}
    => /\ "blocking" \notin lost[f] => kernel[f].nonblock
       /\ "flags" \notin lost[f] => FcntlGetFl(f) = wanted[f].nonblock
       /\ "timeout" \notin lost[f] => WaitsFor(m_datas[f].recvTimeout, wanted[f].timeout)
=============================================================================
