---------------------------- MODULE Application -----------------------------
(***************************************************************************)
(* Starting and restarting the server: Application (src/application.cc),   *)
(* the daemon loop (src/daemon.cc) and the pid file                        *)
(* (FSUtil::IsRunningPidfile).  A launch is one invocation of the program; *)
(* as a daemon it forks its main process anew after a crash.  Process      *)
(* numbers are not used twice.                                             *)
(***************************************************************************)
EXTENDS Naturals, FiniteSets

CONSTANTS Launches, MaxForks     \* bound on the main processes of a run

VARIABLES
  phase,         \* by launch, see below
  isDaemon,      \* by launch: has("d")
  mainPid,       \* by launch: the pid of its last main process
  pidfile,       \* what the file holds, 0 if it is not there
  lastPid,       \* pids given out
  fooled         \* phases of other launches when a check let one pass (history)

apvars == <<phase, isDaemon, mainPid, pidfile, lastPid, fooled>>

(* "off"; "checked": init() has returned; "main": in Application::main;     *)
(* "written": the pid file holds its pid; "loaded": modules and workers are *)
(* there; "up": bound and started; "crashed": the parent sleeps before it   *)
(* forks again; "ended"                                                     *)
Alive == {"main", "written", "loaded", "up"}

ApInit ==
  /\ phase = [l \in Launches |-> "off"] /\ isDaemon = [l \in Launches |-> FALSE]
  /\ mainPid = [l \in Launches |-> 0] /\ pidfile = 0 /\ lastPid = 0 /\ fooled = {}

(* IsRunningPidfile: kill(pid, 0)                                           *)
IsRunningPidfile == \E l \in Launches : phase[l] \in Alive /\ mainPid[l] = pidfile

(* Application::init: configuration, modules and arguments, then the check  *)
AppInit(l, daemon) ==
  /\ phase[l] = "off" /\ isDaemon' = [isDaemon EXCEPT ![l] = daemon]
  /\ \/ IsRunningPidfile /\ phase' = [phase EXCEPT ![l] = "ended"] /\ UNCHANGED fooled
     \/ /\ ~IsRunningPidfile /\ phase' = [phase EXCEPT ![l] = "checked"]
        /\ fooled' = fooled \cup ({phase[k] : k \in Launches \ {l}} \ {"off", "ended"})
  /\ UNCHANGED <<mainPid, pidfile, lastPid>>

(* start_daemon: this process, or each turn of real_daemon, a forked child, *)
(* goes on in real_start.                                                   *)
RealStart(l) ==
  /\ phase[l] \in {"checked", "crashed"} /\ lastPid < MaxForks
  /\ lastPid' = lastPid + 1 /\ mainPid' = [mainPid EXCEPT ![l] = lastPid']
  /\ phase' = [phase EXCEPT ![l] = "main"]
  /\ UNCHANGED <<isDaemon, pidfile, fooled>>

(* fork fails: real_daemon returns -1.                                      *)
ForkFails(l) ==
  /\ phase[l] \in {"checked", "crashed"} /\ isDaemon[l]
  /\ phase' = [phase EXCEPT ![l] = "ended"]
  /\ UNCHANGED <<isDaemon, mainPid, pidfile, lastPid, fooled>>

(* Mutant: a pid file that is there is left as it is.                       *)
WritePidfileOnce(l) ==
  /\ phase[l] = "main" /\ pidfile' = (IF pidfile = 0 THEN mainPid[l] ELSE pidfile)
  /\ phase' = [phase EXCEPT ![l] = "written"]
  /\ UNCHANGED <<isDaemon, mainPid, lastPid, fooled>>

(* Application::main writes the pid file over whatever it holds             *)
WritePidfile(l) ==
  /\ phase[l] = "main" /\ pidfile' = mainPid[l] /\ phase' = [phase EXCEPT ![l] = "written"]
  /\ UNCHANGED <<isDaemon, mainPid, lastPid, fooled>>

(* run_fiber: onLoad of the modules, the workers and the addresses          *)
LoadModules(l) ==
  /\ phase[l] = "written" /\ phase' = [phase EXCEPT ![l] = "loaded"]
  /\ UNCHANGED <<isDaemon, mainPid, pidfile, lastPid, fooled>>

(* bind() of the servers, onServerReady, start(), onServerUp: the addresses *)
(* are free when no other launch has them.                                  *)
BindServers(l) ==
  /\ phase[l] = "loaded" /\ \A k \in Launches : phase[k] # "up"
  /\ phase' = [phase EXCEPT ![l] = "up"]
  /\ UNCHANGED <<isDaemon, mainPid, pidfile, lastPid, fooled>>

(* The main process ends with status 0: the pid file can not be opened, a   *)
(* module or an address is bad, bind() fails, or main returns.  The parent  *)
(* takes that, and status 9, for the end of the service.                    *)
MainEnds(l) ==
  /\ phase[l] \in Alive /\ phase' = [phase EXCEPT ![l] = "ended"]
  /\ UNCHANGED <<isDaemon, mainPid, pidfile, lastPid, fooled>>

(* It dies with another status: the parent waits and forks again.           *)
Crash(l) ==
  /\ phase[l] \in Alive
  /\ phase' = [phase EXCEPT ![l] = IF isDaemon[l] THEN "crashed" ELSE "ended"]
  /\ UNCHANGED <<isDaemon, mainPid, pidfile, lastPid, fooled>>

ApNext == \E l \in Launches :
  \/ \E d \in BOOLEAN : AppInit(l, d)
  \/ RealStart(l) \/ ForkFails(l) \/ WritePidfile(l) \/ LoadModules(l) \/ BindServers(l)
  \/ MainEnds(l) \/ Crash(l)

ApSpec == ApInit /\ [][ApNext]_apvars
-----------------------------------------------------------------------------
(* While a server runs, from the writing of the pid file on, the file names *)
(* it, across crashes and restarts, unless the check let another launch     *)
(* pass; and the check overlooks a server that has written the file only    *)
(* after it overlooked one that was about to write it: between its check    *)
(* and that, or before the daemon starts it again.                          *)
PidfileTruth ==
  /\ \A l \in Launches : phase[l] \in Alive \ {"main"} => pidfile = mainPid[l] \/ fooled # {}
  /\ fooled \cap {"written", "loaded", "up"} # {} => fooled \cap {"checked", "main", "crashed"} # {}
  /\ Cardinality({l \in Launches : phase[l] \in Alive}) > 1 => fooled # {}
=============================================================================
