------------------------------ MODULE Servlet -------------------------------
(***************************************************************************)
(* ServletDispatch (http/servlet.cc): a map of exact URIs, a list of       *)
(* patterns and a default.  A servlet is named by the edit that added it.  *)
(* A pattern is the set of URIs that fnmatch accepts for it.  Every        *)
(* operation holds m_mutex throughout, so each is one step.                *)
(***************************************************************************)
EXTENDS Naturals, Sequences, FiniteSetsExt

CONSTANTS Uris, Globs,    \* Globs \subseteq SUBSET Uris
          MaxServlets     \* bound on the edits

VARIABLES m_exact,        \* m_datas: URI -> servlet, 0 for none
          m_globs,        \* <<pattern, servlet>>, in the order they are tried
          m_default,
          servletEdits           \* the edits made (history)

svvars == <<m_exact, m_globs, m_default, servletEdits>>

SvInit ==
  /\ m_exact = [u \in Uris |-> 0] /\ m_globs = <<>> /\ m_default = 0 /\ servletEdits = <<>>

Edit(kind, key) == Len(servletEdits) < MaxServlets /\ servletEdits' = Append(servletEdits, <<kind, key>>)

addServlet(uri) ==
  /\ Edit("add", uri) /\ m_exact' = [m_exact EXCEPT ![uri] = Len(servletEdits')]
  /\ UNCHANGED <<m_globs, m_default>>

delServlet(uri) ==
  /\ Edit("del", uri) /\ m_exact' = [m_exact EXCEPT ![uri] = 0]
  /\ UNCHANGED <<m_globs, m_default>>

(* The loop erases the first entry with that pattern.                       *)
EraseGlob(globs, glob) ==
  LET at == {i \in DOMAIN globs : globs[i][1] = glob}
  IN IF at = {} THEN globs
     ELSE SubSeq(globs, 1, Min(at) - 1) \o SubSeq(globs, Min(at) + 1, Len(globs))

(* Mutant: the earlier entry of the pattern stays in front.                 *)
addGlobServletAgain(glob) ==
  /\ Edit("addGlob", glob)
  /\ m_globs' = Append(m_globs, <<glob, Len(servletEdits')>>)
  /\ UNCHANGED <<m_exact, m_default>>

addGlobServlet(glob) ==
  /\ Edit("addGlob", glob)
  /\ m_globs' = Append(EraseGlob(m_globs, glob), <<glob, Len(servletEdits')>>)
  /\ UNCHANGED <<m_exact, m_default>>

delGlobServlet(glob) ==
  /\ Edit("delGlob", glob) /\ m_globs' = EraseGlob(m_globs, glob)
  /\ UNCHANGED <<m_exact, m_default>>

(* HttpServer::setName: a new NotFoundServlet                               *)
setDefault ==
  /\ Edit("default", "any") /\ m_default' = Len(servletEdits')
  /\ UNCHANGED <<m_exact, m_globs>>

SvNext ==
  \/ \E u \in Uris : addServlet(u) \/ delServlet(u)
  \/ \E g \in Globs : addGlobServlet(g) \/ delGlobServlet(g)
  \/ setDefault

getMatchedServlet(uri) ==
  LET matching == {i \in DOMAIN m_globs : uri \in m_globs[i][1]}
  IN IF m_exact[uri] # 0 THEN m_exact[uri]
     ELSE IF matching # {} THEN m_globs[Min(matching)][2] ELSE m_default

SvSpec == SvInit /\ [][SvNext]_svvars
-----------------------------------------------------------------------------
(* What the history says of a key: its last addition, if it is still there  *)
LastEdit(kinds, key) ==
  LET at == {i \in DOMAIN servletEdits : servletEdits[i] \in kinds \X {key}}
  IN IF at = {} THEN 0 ELSE Max(at)
Living(add, del, key) ==
  LET i == LastEdit({add, del}, key)
  IN IF i # 0 /\ servletEdits[i][1] = add THEN i ELSE 0

(* After any edits a request for a URI gets the servlet last added for just *)
(* that URI, else the one whose pattern matches it and was given its        *)
(* servlet first, else the default; a pattern that is given a new servlet   *)
(* goes behind the others.                                                  *)
DispatchOrder ==
  \A u \in Uris :
    LET globs == {Living("addGlob", "delGlob", g) : g \in {h \in Globs : u \in h}} \ {0}
    IN getMatchedServlet(u) =
         IF Living("add", "del", u) # 0 THEN Living("add", "del", u)
         ELSE IF globs # {} THEN Min(globs) ELSE LastEdit({"default"}, "any")
=============================================================================
