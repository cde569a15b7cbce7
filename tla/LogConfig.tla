----------------------------- MODULE LogConfig ------------------------------
(***************************************************************************)
(* Loggers (src/log.cc) and the listener that sets them up from the        *)
(* configuration variable "logs".  A configuration maps the names of some  *)
(* loggers to a LogDefine; the formatter of an appender is its own or the  *)
(* one its logger had when it was added.  The listener and an event are    *)
(* atomic here: Logger has no lock, and two threads in one Logger race.    *)
(***************************************************************************)
EXTENDS Naturals, Sequences, FiniteSets

CONSTANTS
  LogNames,      \* the names of loggers besides "root"
  AppenderSets   \* the sets of appenders a configuration may ask for

VARIABLES
  daemonArg,     \* EnvMgr has("d"): "unset" before the arguments are parsed
  logDefines,    \* g_log_defines: name -> LogDefine or NoDefine
  logAsked,      \* the configuration that was last asked for (history)
  ignored,       \* names whose change was not noticed (history)
  m_loggers,     \* name -> its Logger
  logCrashed     \* an event came to the root logger and it had no appender

lgvars == <<daemonArg, logDefines, logAsked, ignored, m_loggers, logCrashed>>

LogNamesAll == LogNames \cup {"root"}
Levels == 0..1                              \* 0: UNKNOW, everything is logged
Formats == {"", "f"}                        \* "": not given
LogDefine == [level : Levels, formatter : Formats, appenders : AppenderSets]
NoDefine == [level |-> 0, formatter |-> "none", appenders |-> {}]

(* A Logger starts with DEBUG, the default format and no appender; the root *)
(* logger has one.                                                          *)
FirstLogger(n) ==
  [level |-> 1, formatter |-> "default",
   appenders |-> {[type |-> "Stdout", formatter |-> "default"] : r \in {n} \cap {"root"}}]

LgInit ==
  /\ daemonArg = "unset" /\ ignored = {} /\ logCrashed = FALSE
  /\ logDefines = [n \in LogNamesAll |-> NoDefine] /\ logAsked = logDefines
  /\ m_loggers = [n \in LogNamesAll |-> FirstLogger(n)]

ParseArgs(d) ==
  /\ daemonArg = "unset" /\ daemonArg' = d
  /\ UNCHANGED <<logDefines, logAsked, ignored, m_loggers, logCrashed>>

(* LogDefine::operator== compares the appenders with themselves.            *)
SameDefine(a, b) == a.level = b.level /\ a.formatter = b.formatter

(* ConfigVar's v == m_val on std::set<LogDefine>                            *)
SameDefines(v, w) ==
  \A n \in LogNamesAll : /\ (v[n] = NoDefine) <=> (w[n] = NoDefine)
                         /\ SameDefine(v[n], w[n])

(* Mutant: clearAppenders is not called.                                    *)
ApplyDefineAdds(logger, def) ==
  LET f == IF def.formatter = "" THEN logger.formatter ELSE def.formatter
      types == IF daemonArg = "d" THEN def.appenders \ {"Stdout"} ELSE def.appenders
  IN [level |-> def.level, formatter |-> f,
      appenders |-> logger.appenders \cup {[type |-> t, formatter |-> f] : t \in types}]

(* What the listener makes of a logger that is new or changed: appenders to *)
(* standard output are left out of a daemon.                                *)
ApplyDefine(logger, def) ==
  LET f == IF def.formatter = "" THEN logger.formatter ELSE def.formatter
      types == IF daemonArg = "d" THEN def.appenders \ {"Stdout"} ELSE def.appenders
  IN [level |-> def.level, formatter |-> f,
      appenders |-> {[type |-> t, formatter |-> f] : t \in types}]

RemoveLogger(logger) == [logger EXCEPT !.level = 0, !.appenders = {}]

(* The listener with the old and the new configuration                      *)
OnLoggerConfChanged(old, new) ==
  [n \in LogNamesAll |->
     IF new[n] # NoDefine
     THEN IF old[n] = NoDefine \/ ~SameDefine(new[n], old[n])
          THEN ApplyDefine(m_loggers[n], new[n]) ELSE m_loggers[n]
     ELSE IF old[n] # NoDefine THEN RemoveLogger(m_loggers[n]) ELSE m_loggers[n]]

(* The file is loaded: fromString, setValue.  The listener first writes an  *)
(* event of its own to the root logger.                                     *)
SetLogs(new) ==
  /\ daemonArg # "unset" /\ ~logCrashed
  /\ logAsked' = new
  /\ LET same == SameDefines(new, logDefines)
     IN /\ logCrashed' = (~same /\ m_loggers["root"].appenders = {})
        /\ IF same \/ logCrashed' THEN UNCHANGED <<logDefines, m_loggers>>
           ELSE /\ logDefines' = new
                /\ m_loggers' = OnLoggerConfChanged(logDefines, new)
  /\ ignored' = {n \in LogNamesAll :
       LET touched == ~SameDefine(new[n], logDefines[n])
                        \/ ((new[n] = NoDefine) /\ (logDefines[n] # NoDefine))
                        \/ ((new[n] # NoDefine) /\ (logDefines[n] = NoDefine))
       IN ~touched /\ (n \in ignored \/ new[n].appenders # logAsked[n].appenders)}
  /\ UNCHANGED daemonArg

(* Logger::log: an event of that level goes to the appenders, or to those   *)
(* of m_root, which the root logger does not have.                          *)
LogTo(name, level) ==
  /\ ~logCrashed /\ level >= m_loggers[name].level
  /\ LET target == IF m_loggers[name].appenders # {} THEN name ELSE "root"
     IN logCrashed' = (m_loggers[target].appenders = {} /\ level >= m_loggers[target].level)
  /\ UNCHANGED <<daemonArg, logDefines, logAsked, ignored, m_loggers>>

LgNext ==
  \/ \E d \in {"d", "s"} : ParseArgs(d)
  \/ \E new \in [LogNamesAll -> LogDefine \cup {NoDefine}] : SetLogs(new)
  \/ \E n \in LogNamesAll, l \in Levels : LogTo(n, l)

LgSpec == LgInit /\ [][LgNext]_lgvars
-----------------------------------------------------------------------------
(* After any sequence of reloads a logger has the level, the appenders and  *)
(* the formats that the configuration asks for, or none if it no longer     *)
(* names the logger, unless a reload changed nothing but appenders: that is *)
(* not noticed.  The program dies of an event only when the root logger was *)
(* left without an appender.                                                *)
LoggersFollow ==
  /\ ~logCrashed => \A n \in LogNamesAll \ ignored :
       logAsked[n] # NoDefine =>
         /\ m_loggers[n].level = logAsked[n].level
         /\ {a.type : a \in m_loggers[n].appenders}
              = logAsked[n].appenders \ (IF daemonArg = "d" THEN {"Stdout"} ELSE {})
         /\ \A a \in m_loggers[n].appenders : a.formatter = m_loggers[n].formatter
         /\ logAsked[n].formatter \in {"", m_loggers[n].formatter}
  /\ ~logCrashed => \A n \in LogNamesAll : logAsked[n] = NoDefine =>
       \/ m_loggers[n] = FirstLogger(n)
       \/ m_loggers[n].level = 0 /\ m_loggers[n].appenders = {}
  /\ logCrashed => m_loggers["root"].appenders = {}
=============================================================================
