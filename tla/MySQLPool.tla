----------------------------- MODULE MySQLPool ------------------------------
(***************************************************************************)
(* MySQLManager, MySQL and MySQLTransaction (db/mysql.cc).  The server is  *)
(* external: a session is up or down, has a database selected and may have *)
(* a transaction open, which BEGIN commits and a lost session rolls back.  *)
(* An object that a call took from the list belongs to that call alone, so *)
(* that what it does to it afterwards, check, ping() and connect() or      *)
(* delete, is one step.  get() and checkConnection() unlock m_mutex by     *)
(* hand, and the destructor of the ScopedLock unlocks it a second time.    *)
(***************************************************************************)
EXTENDS Naturals, Sequences, FiniteSets

CONSTANTS Users, MySQLs,    \* MySQLs: the MySQL objects a run may make
          PoolSize          \* m_poolSize, the parameter "pool"

ASSUME MySQLPoolAssumption ==
  IsFiniteSet(Users) /\ PoolSize \in Nat /\ "none" \notin Users \cup MySQLs /\ "checker" \notin Users

VARIABLES
  mpc,           \* user, or "checker": where it is in get, freeMySQL or checkConnection
  myMutex,       \* who locked m_mutex, or NoOne
  myStolen,      \* a destructor set m_mutex free that another held (history)
  mysqlConns,    \* m_conns: the idle connections, oldest first
  mysql,         \* object -> its state, or NoMySQL
  held,          \* user -> the object that its call of get() or its MySQL::ptr has
  trans          \* user -> its MySQLTransaction, or NoTrans

mycalls == <<mpc, myMutex, myStolen>>
myvars == <<mysqlConns, mysql, held, trans, mycalls>>

NoOne == "none"
NoMySQL == [up |-> FALSE, hasError |-> FALSE, age |-> 2, dbname |-> "gone",
            selected |-> "", open |-> NoOne, left |-> FALSE, renewed |-> FALSE]
NoTrans == [auto |-> FALSE, isFinished |-> TRUE, hasError |-> FALSE, live |-> FALSE]

(* A session that mysql_init has opened.  "age" is the time since its last  *)
(* use: 0 less than 5 s, 1 less than the sec of checkConnection, 2 more;    *)
(* "open" names the user whose work is not committed; "left" and "renewed"  *)
(* are history: the transaction was given up open; the session was opened   *)
(* again after use().                                                       *)
NewSession == [NoMySQL EXCEPT !.up = TRUE, !.age = 0, !.dbname = ""]

MyActors == Users \cup {"checker"}
Live == {c \in MySQLs : mysql[c] # NoMySQL}
Idle == {mysqlConns[i] : i \in DOMAIN mysqlConns}

MyInit ==
  /\ mysqlConns = <<>> /\ mysql = [c \in MySQLs |-> NoMySQL]
  /\ held = [u \in Users |-> NoOne] /\ trans = [u \in Users |-> NoTrans]
  /\ mpc = [a \in MyActors |-> "out"] /\ myMutex = NoOne /\ myStolen = FALSE

(* Two callers are in the lists at once: what becomes of them then is       *)
(* undefined, and no behaviour is followed any further.                     *)
InMySQLs(a) == mpc[a] \in {"get", "free", "sweep"}
MyOverlap == \E a, b \in MyActors : a # b /\ InMySQLs(a) /\ InMySQLs(b)

MyGoto(a, pc) == mpc' = [mpc EXCEPT ![a] = pc]

(* The scoped lock of get(), freeMySQL() or checkConnection()               *)
LockMySQLs(a, next) ==
  /\ mpc[a] = "out" /\ myMutex = NoOne /\ myMutex' = a /\ MyGoto(a, next)
  /\ UNCHANGED <<mysqlConns, mysql, held, trans, myStolen>>
(* unlock() and ~ScopedLockImpl set the mutex free, whoever holds it.       *)
FreeMySQLs(a) ==
  /\ myMutex' = NoOne
  /\ myStolen' = (myStolen \/ myMutex \notin {a, NoOne})
DropMySQLs(a) ==
  /\ mpc[a] = "drop" /\ FreeMySQLs(a) /\ MyGoto(a, "out")
  /\ UNCHANGED <<mysqlConns, mysql, held, trans>>

StartGet(u) == held[u] = NoOne /\ LockMySQLs(u, "get")
StartFree(u) == held[u] # NoOne /\ ~trans[u].live /\ LockMySQLs(u, "free")

(* isNeedCheck                                                              *)
NeedCheck(m) == m.age > 0 \/ m.hasError

(* connect() of an object whose session is gone: m_dbname keeps its value   *)
Reconnect(m) ==
  [m EXCEPT !.up = TRUE, !.hasError = FALSE, !.age = 0, !.selected = "",
            !.open = NoOne, !.left = FALSE, !.renewed = (m.dbname # "")]

(* get() with an idle connection: pop_front and unlock;                     *)
GetIdle(u) ==
  /\ mpc[u] = "get" /\ mysqlConns # <<>> /\ mysqlConns' = Tail(mysqlConns)
  /\ held' = [held EXCEPT ![u] = Head(mysqlConns)]
  /\ FreeMySQLs(u) /\ MyGoto(u, "check")
  /\ UNCHANGED <<mysql, trans>>

(* used within 5 s, or ping(), or connect(), whose failure loses the object *)
CheckIdle(u, reconnects) ==
  /\ mpc[u] = "check" /\ MyGoto(u, "drop")
  /\ LET m == mysql[held[u]]
         ok == ~NeedCheck(m) \/ m.up \/ reconnects
     IN /\ held' = IF ok THEN held ELSE [held EXCEPT ![u] = NoOne]
        /\ mysql' = [mysql EXCEPT ![held[u]] =
             IF ~NeedCheck(m) THEN [m EXCEPT !.age = 0]
             ELSE IF m.up THEN [m EXCEPT !.age = 0, !.hasError = FALSE]
             ELSE IF reconnects THEN Reconnect(m)
             ELSE [m EXCEPT !.hasError = TRUE]]
  /\ UNCHANGED <<mysqlConns, trans, myMutex, myStolen>>

(* get() with none: the parameters are read, unlock;                        *)
GetNew(u) ==
  /\ mpc[u] = "get" /\ mysqlConns = <<>> /\ FreeMySQLs(u) /\ MyGoto(u, "new")
  /\ UNCHANGED <<mysqlConns, mysql, held, trans>>

(* a new object, which is deleted when connect() fails                      *)
NewMySQL(u) ==
  /\ mpc[u] = "new" /\ MyGoto(u, "drop")
  /\ \/ \E c \in MySQLs \ Live :
          mysql' = [mysql EXCEPT ![c] = NewSession] /\ held' = [held EXCEPT ![u] = c]
     \/ UNCHANGED <<mysql, held>>
  /\ UNCHANGED <<mysqlConns, trans, myMutex, myStolen>>

(* MySQL::execute: mysql_query of one statement, and what it does to the    *)
(* open transaction                                                         *)
Query(m, ok, open) ==
  [m EXCEPT !.hasError = ~ok, !.open = IF ok THEN open ELSE @,
            !.left = IF ok /\ open = NoOne THEN FALSE ELSE @]
CanAnswer(u, ok) == mpc[u] = "out" /\ held[u] # NoOne /\ (ok => mysql[held[u]].up)

(* A statement of the user, through its transaction or not                  *)
Execute(u, ok) ==
  /\ CanAnswer(u, ok)
  /\ ~(trans[u].live /\ trans[u].isFinished)          \* else it returns -1
  /\ mysql' = [mysql EXCEPT ![held[u]] = Query(@, ok, @.open)]
  /\ trans' = IF trans[u].live /\ ~ok THEN [trans EXCEPT ![u].hasError = TRUE] ELSE trans
  /\ UNCHANGED <<mysqlConns, held, mycalls>>

(* use(): nothing is asked when m_dbname has the name already               *)
Use(u, ok) ==
  /\ CanAnswer(u, ok)
  /\ mysql' = [mysql EXCEPT ![held[u]] =
       IF @.dbname = "db" THEN @
       ELSE IF ok THEN [@ EXCEPT !.dbname = "db", !.selected = "db", !.hasError = FALSE]
       ELSE [@ EXCEPT !.dbname = "", !.hasError = TRUE]]
  /\ UNCHANGED <<mysqlConns, held, trans, mycalls>>

(* Create: BEGIN.  The object is destroyed again when that fails.           *)
OpenTransaction(u, auto, ok) ==
  /\ CanAnswer(u, ok) /\ ~trans[u].live
  /\ IF ok
     THEN /\ mysql' = [mysql EXCEPT ![held[u]] = [Query(@, TRUE, u) EXCEPT !.left = FALSE]]
          /\ trans' = [trans EXCEPT ![u] =
               [auto |-> auto, isFinished |-> FALSE, hasError |-> FALSE, live |-> TRUE]]
     ELSE /\ mysql' = [mysql EXCEPT ![held[u]] =
               IF auto THEN Query(@, FALSE, NoOne) ELSE Query(@, @.up, NoOne)]
          /\ UNCHANGED trans
  /\ UNCHANGED <<mysqlConns, held, mycalls>>

(* Mutant: rollback() gives up after an error as commit() does.             *)
AsksUnlessError(t, commit) == ~t.isFinished /\ ~t.hasError

(* commit() and rollback(): whether they ask the server at all              *)
Asks(t, commit) == ~t.isFinished /\ ~(commit /\ t.hasError)

(* the session after commit() or rollback()                                 *)
Finish(u, commit, ok) ==
  IF Asks(trans[u], commit) THEN Query(mysql[held[u]], ok, NoOne) ELSE mysql[held[u]]

EndCall(u, commit, ok) ==
  /\ CanAnswer(u, ok) /\ trans[u].live /\ Asks(trans[u], commit)
  /\ mysql' = [mysql EXCEPT ![held[u]] = Finish(u, commit, ok)]
  /\ trans' = [trans EXCEPT ![u].isFinished = ok, ![u].hasError = @ \/ ~ok]
  /\ UNCHANGED <<mysqlConns, held, mycalls>>

(* ~MySQLTransaction: commit() if m_autoCommit, else rollback()             *)
EndTransaction(u, ok) ==
  /\ CanAnswer(u, ok) /\ trans[u].live
  /\ LET m == Finish(u, trans[u].auto, ok)
     IN mysql' = [mysql EXCEPT ![held[u]] =
          [m EXCEPT !.left = m.left \/ (trans[u].auto /\ trans[u].hasError)
                               \/ (Asks(trans[u], trans[u].auto) /\ ~ok)]]
  /\ trans' = [trans EXCEPT ![u] = NoTrans]
  /\ UNCHANGED <<mysqlConns, held, mycalls>>

(* Mutant: one connection more than m_poolSize is kept.                     *)
FreeMySQLOneMore(u) ==
  /\ mpc[u] = "free" /\ FreeMySQLs(u) /\ MyGoto(u, "out") /\ held' = [held EXCEPT ![u] = NoOne]
  /\ IF Len(mysqlConns) <= PoolSize
     THEN mysqlConns' = Append(mysqlConns, held[u]) /\ UNCHANGED mysql
     ELSE mysql' = [mysql EXCEPT ![held[u]] = NoMySQL] /\ UNCHANGED mysqlConns
  /\ UNCHANGED trans

(* freeMySQL, when the last MySQL::ptr goes: keep it, or delete it          *)
FreeMySQL(u) ==
  /\ mpc[u] = "free" /\ FreeMySQLs(u) /\ MyGoto(u, "out") /\ held' = [held EXCEPT ![u] = NoOne]
  /\ IF Len(mysqlConns) < PoolSize
     THEN mysqlConns' = Append(mysqlConns, held[u]) /\ UNCHANGED mysql
     ELSE mysql' = [mysql EXCEPT ![held[u]] = NoMySQL] /\ UNCHANGED mysqlConns
  /\ UNCHANGED trans

(* checkConnection: idle ones that were not used for sec seconds go, if     *)
(* these were over when it read the time, before it had the lock.           *)
CheckConnection ==
  /\ mpc["checker"] = "sweep" /\ FreeMySQLs("checker") /\ MyGoto("checker", "drop")
  /\ \E old \in SUBSET {c \in Idle : mysql[c].age = 2} :
       LET kept == {i \in DOMAIN mysqlConns : mysqlConns[i] \notin old}
       IN /\ \E f \in [1..Cardinality(kept) -> kept] :          \* in their order
               /\ \A i, j \in DOMAIN f : i < j => f[i] < f[j]
               /\ \A i \in kept : \E k \in DOMAIN f : f[k] = i
               /\ mysqlConns' = [k \in DOMAIN f |-> mysqlConns[f[k]]]
          /\ mysql' = [c \in MySQLs |-> IF c \in old THEN NoMySQL ELSE mysql[c]]
  /\ UNCHANGED <<held, trans>>

(* Time passes (for idle objects: no other's age is read); the server or    *)
(* the network ends a session, and all that it kept.                        *)
Age(c) ==
  /\ c \in Idle /\ mysql[c].age < 2 /\ mysql' = [mysql EXCEPT ![c].age = @ + 1]
  /\ UNCHANGED <<mysqlConns, held, trans, mycalls>>
Lost(m) ==
  [m EXCEPT !.up = FALSE, !.selected = "", !.open = NoOne, !.left = FALSE, !.renewed = FALSE]
LoseSession(c) ==
  /\ mysql[c].up /\ mysql' = [mysql EXCEPT ![c] = Lost(@)]
  /\ UNCHANGED <<mysqlConns, held, trans, mycalls>>

MyNext ==
  /\ ~MyOverlap
  /\ \/ \E u \in Users, ok \in BOOLEAN :
          \/ CheckIdle(u, ok) \/ Execute(u, ok) \/ Use(u, ok) \/ EndTransaction(u, ok)
          \/ \E commit \in BOOLEAN : EndCall(u, commit, ok) \/ OpenTransaction(u, commit, ok)
     \/ \E u \in Users : StartGet(u) \/ GetIdle(u) \/ GetNew(u) \/ NewMySQL(u) \/ StartFree(u) \/ FreeMySQL(u)
     \/ LockMySQLs("checker", "sweep") \/ CheckConnection
     \/ \E a \in MyActors : DropMySQLs(a)
     \/ \E c \in MySQLs : Age(c) \/ LoseSession(c)

MySpec == MyInit /\ [][MyNext]_myvars
-----------------------------------------------------------------------------
(* Two callers are in the lists at once only when a second unlock has set   *)
(* free the lock of one.  Until then every MySQL object is idle once, or    *)
(* one user's, or was lost by a get() that could not reconnect it; at most  *)
(* PoolSize are idle.                                                       *)
PoolHolds ==
  /\ MyOverlap => myStolen
  /\ Len(mysqlConns) <= PoolSize /\ Cardinality(Idle) = Len(mysqlConns)
  /\ \A c \in Live :
       LET users == {u \in Users : held[u] = c}
       IN /\ Cardinality(users) <= 1 /\ ~(c \in Idle /\ users # {})
          /\ c \notin Idle /\ users = {} => mysql[c].hasError /\ ~mysql[c].up
  /\ \A c \in Idle \cup {held[u] : u \in Users} : c \in Live \cup {NoOne}

(* A transaction is open only on the connection of the user that began it,  *)
(* while its MySQLTransaction lives, unless the object was destroyed with   *)
(* auto_commit after a statement had failed, or its last COMMIT or ROLLBACK *)
(* failed; and m_dbname is the database of the session unless the session   *)
(* was opened again after use().                                            *)
SessionsClean ==
  \A c \in Live :
    /\ mysql[c].open # NoOne =>
         \/ mysql[c].left
         \/ held[mysql[c].open] = c /\ trans[mysql[c].open].live
    /\ mysql[c].up /\ mysql[c].dbname # "" =>
         mysql[c].selected = mysql[c].dbname \/ mysql[c].renewed
=============================================================================
