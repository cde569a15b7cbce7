----------------------------- MODULE MCServices -----------------------------
(***************************************************************************)
(* The services around the scheduling core, for TLC: they share no state,  *)
(* so a behaviour exercises one of them, chosen at the start.              *)
(***************************************************************************)
EXTENDS FdManager, ConfigVar, LogConfig, TcpServer, Servlet, FiberSemaphore, ThreadPool,
        Application

VARIABLE part

Init ==
  /\ part \in {"fds", "config", "log", "server", "servlet", "semaphore", "threads", "launch"}
  /\ FdInit /\ CvInit /\ LgInit /\ TsInit /\ SvInit /\ SmInit /\ TpInit /\ ApInit

configured == <<cvvars, lgvars, apvars>>
serving    == <<tsvars, svvars>>
threading  == <<smvars, tpvars>>

Next ==
  \/ part = "fds" /\ FdNext /\ UNCHANGED <<part, configured, serving, threading>>
  \/ part = "config" /\ CvNext
       /\ UNCHANGED <<part, fdvars, lgvars, apvars, serving, threading>>
  \/ part = "log" /\ LgNext
       /\ UNCHANGED <<part, fdvars, cvvars, apvars, serving, threading>>
  \/ part = "server" /\ TsNext
       /\ UNCHANGED <<part, fdvars, configured, svvars, threading>>
  \/ part = "servlet" /\ SvNext
       /\ UNCHANGED <<part, fdvars, configured, tsvars, threading>>
  \/ part = "semaphore" /\ SmNext
       /\ UNCHANGED <<part, fdvars, configured, serving, tpvars>>
  \/ part = "threads" /\ TpNext
       /\ UNCHANGED <<part, fdvars, configured, serving, smvars>>
  \/ part = "launch" /\ ApNext
       /\ UNCHANGED <<part, fdvars, cvvars, lgvars, serving, threading>>
=============================================================================
