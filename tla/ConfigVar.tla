----------------------------- MODULE ConfigVar ------------------------------
(***************************************************************************)
(* One ConfigVar (include/config.h) with its listeners, and the threads    *)
(* that load it from a file (Config::LoadFromConfDir, src/config.cc).      *)
(*                                                                         *)
(* The program can reach the variable at these places only: under the read *)
(* lock (compare and call the listeners), under the write lock (store), in *)
(* addListener and delListener.  s_mutex covers one comparison.            *)
(***************************************************************************)
EXTENDS Naturals, Sequences, FiniteSets

CONSTANTS Loaders, Listeners,
          ConfVals,    \* values of the variable; "bad" is text that does not convert
          MaxEdits     \* bound: edits of the file

ASSUME ConfigVarAssumption == ConfVals \ {"bad"} # {} /\ "absent" \notin ConfVals /\ MaxEdits \in Nat

VARIABLES
  m_val, m_cbs,        \* m_cbs: listener -> what it was told last, or Absent
  conf_file,           \* the file: its value and its modification time
  s_file2modifytime,   \* the time recorded for the file
  lpc,                 \* loader -> where it is
  lval,                \* loader -> the value or the time it holds
  edits,
  setsOverlap,         \* setValue met another setValue, or a new listener (history)
  loadsOverlap,        \* two loads ran at once (history)
  threw,               \* a listener threw (history)
  failed,              \* a file that was recorded could not be used (history)
  sameSecond           \* an edit left the recorded time as it was (history)

cvvars == <<m_val, m_cbs, conf_file, s_file2modifytime, lpc, lval, edits, setsOverlap,
            loadsOverlap, threw, failed, sameSecond>>
cvHistory == <<setsOverlap, loadsOverlap, threw, failed, sameSecond>>

Absent == "absent"
Good == ConfVals \ {"bad"}
FirstVal == CHOOSE v \in Good : TRUE

CvInit ==
  /\ m_val = FirstVal /\ m_cbs = [l \in Listeners |-> Absent]
  /\ conf_file = [val |-> FirstVal, mtime |-> 1] /\ s_file2modifytime = 0
  /\ lpc = [t \in Loaders |-> "idle"] /\ lval = [t \in Loaders |-> "none"] /\ edits = 0
  /\ setsOverlap = FALSE /\ loadsOverlap = FALSE /\ threw = FALSE /\ failed = FALSE
  /\ sameSecond = FALSE

(* Somebody edits the file; st_mtime counts seconds.                        *)
EditFile(v, seconds) ==
  /\ edits < MaxEdits /\ edits' = edits + 1
  /\ conf_file' = [val |-> v, mtime |-> conf_file.mtime + seconds]
  /\ sameSecond' = (sameSecond \/ seconds = 0)
  /\ UNCHANGED <<m_val, m_cbs, s_file2modifytime, lpc, lval, setsOverlap, loadsOverlap, threw,
                 failed>>

Goto(t, place) == lpc' = [lpc EXCEPT ![t] = place]

(* LoadFromConfDir(path, force): lstat, before s_mutex is asked for.        *)
LoadFromConfDir(t, force) ==
  /\ lpc[t] = "idle"
  /\ Goto(t, IF force THEN "forced" ELSE "compare")
  /\ lval' = [lval EXCEPT ![t] = conf_file.mtime]
  /\ loadsOverlap' = (loadsOverlap \/ \E u \in Loaders \ {t} : lpc[u] # "idle")
  /\ UNCHANGED <<m_val, m_cbs, conf_file, s_file2modifytime, edits, setsOverlap, threw, failed,
                 sameSecond>>

CompareTime(t) ==
  /\ lpc[t] \in {"compare", "forced"}
  /\ IF lpc[t] = "compare" /\ s_file2modifytime = lval[t]
     THEN Goto(t, "idle") /\ UNCHANGED s_file2modifytime
     ELSE Goto(t, "parse") /\ s_file2modifytime' = lval[t]
  /\ UNCHANGED <<m_val, m_cbs, conf_file, lval, edits, cvHistory>>

(* LoadFile and LoadFromYaml: the text as it is now is converted and given  *)
(* to setValue; text that cannot be read or converted changes nothing.      *)
ParseFile(t) ==
  /\ lpc[t] = "parse"
  /\ \/ /\ conf_file.val \in Good
        /\ Goto(t, "notify") /\ lval' = [lval EXCEPT ![t] = conf_file.val]
        /\ UNCHANGED failed
     \/ Goto(t, "idle") /\ UNCHANGED lval /\ failed' = TRUE
  /\ UNCHANGED <<m_val, m_cbs, conf_file, s_file2modifytime, edits, setsOverlap, loadsOverlap,
                 threw, sameSecond>>

(* Mutant: the listeners are given the old value for the new one.           *)
ToldOld(v) == [l \in Listeners |-> IF m_cbs[l] = Absent THEN Absent ELSE m_val]

(* setValue under the read lock: nothing to do, or every listener is called *)
(* in the order of its id; one of them may throw, and the rest of setValue  *)
(* is skipped.                                                              *)
Told(v) == [l \in Listeners |-> IF m_cbs[l] = Absent THEN Absent ELSE v]

SetValueNotify(t) ==
  /\ lpc[t] = "notify"
  /\ setsOverlap' = (setsOverlap \/ \E u \in Loaders \ {t} : lpc[u] = "store")
  /\ IF lval[t] = m_val
     THEN Goto(t, "idle") /\ UNCHANGED <<m_cbs, threw>>
     ELSE \/ Goto(t, "store") /\ m_cbs' = Told(lval[t]) /\ UNCHANGED threw
          \/ /\ \E l \in Listeners : m_cbs[l] # Absent
             /\ Goto(t, "idle") /\ threw' = TRUE
             /\ \E ls \in SUBSET Listeners :
                  m_cbs' = [l \in Listeners |-> IF l \in ls THEN Told(lval[t])[l] ELSE m_cbs[l]]
  /\ UNCHANGED <<m_val, conf_file, s_file2modifytime, lval, edits, loadsOverlap, failed,
                 sameSecond>>

(* setValue under the write lock                                            *)
SetValueStore(t) ==
  /\ lpc[t] = "store"
  /\ m_val' = lval[t]
  /\ Goto(t, "idle")
  /\ UNCHANGED <<m_cbs, conf_file, s_file2modifytime, lval, edits, cvHistory>>

(* A listener is added; its owner takes the value as it is now.             *)
AddListener(l) ==
  /\ m_cbs[l] = Absent
  /\ m_cbs' = [m_cbs EXCEPT ![l] = m_val]
  /\ setsOverlap' = (setsOverlap \/ \E t \in Loaders : lpc[t] = "store")
  /\ UNCHANGED <<m_val, conf_file, s_file2modifytime, lpc, lval, edits, loadsOverlap, threw,
                 failed, sameSecond>>

DelListener(l) ==
  /\ m_cbs[l] # Absent
  /\ m_cbs' = [m_cbs EXCEPT ![l] = Absent]
  /\ UNCHANGED <<m_val, conf_file, s_file2modifytime, lpc, lval, edits, cvHistory>>

ClearListener ==
  /\ m_cbs' = [l \in Listeners |-> Absent]
  /\ UNCHANGED <<m_val, conf_file, s_file2modifytime, lpc, lval, edits, cvHistory>>

CvNext ==
  \/ \E v \in ConfVals, s \in 0..1 : EditFile(v, s)
  \/ \E t \in Loaders : \/ \E force \in BOOLEAN : LoadFromConfDir(t, force)
                        \/ CompareTime(t) \/ ParseFile(t) \/ SetValueNotify(t) \/ SetValueStore(t)
  \/ \E l \in Listeners : AddListener(l) \/ DelListener(l)
  \/ ClearListener

CvSpec == CvInit /\ [][CvNext]_cvvars
-----------------------------------------------------------------------------
LoadsDone == \A t \in Loaders : lpc[t] = "idle"

(* Between loads every listener knows the value, unless two setValue (or a  *)
(* setValue and an addListener) overlapped or a listener threw; and a file  *)
(* that the next load will skip is already in the variable, unless two      *)
(* loads overlapped, the file could not be used, a listener threw, or the   *)
(* file was edited twice in one second.                                     *)
ListenersTold ==
  LoadsDone =>
    /\ ~setsOverlap /\ ~threw => \A l \in Listeners : m_cbs[l] \in {Absent, m_val}
    /\ ~loadsOverlap /\ ~threw /\ ~failed /\ ~sameSecond /\ s_file2modifytime = conf_file.mtime
         => m_val = conf_file.val
=============================================================================
