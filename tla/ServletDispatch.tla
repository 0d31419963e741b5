-------------------------- MODULE ServletDispatch --------------------------
(***************************************************************************)
(* ServletDispatch of http/servlet.cpp: the servlets of a server by the    *)
(* exact path of a request (m_datas) and by patterns (m_globs, tried in    *)
(* their order), each call under the lock of the table.  The two forms of  *)
(* addServlet and addGlobServlet differ only in who wraps the callback.    *)
(***************************************************************************)
EXTENDS Chars, FiniteSets, SequencesExt

CONSTANTS
  Uris,        \* paths that may have a servlet of their own
  Patterns,    \* patterns that may have one
  Servlets,
  NotFound,    \* m_default, and no servlet
  Paths,       \* paths of requests
  MaxCalls     \* bound: calls that change the table

ASSUME DispatchAssumption == NotFound \notin Servlets /\ MaxCalls \in Nat

VARIABLES
  m_datas,     \* path -> servlet, NotFound if it has none
  m_globs,     \* sequence of [uri, slt]
  calls        \* history: the calls so far

dispatchVars == <<m_datas, m_globs, calls>>

DispatchInit ==
  /\ m_datas = [u \in Uris |-> NotFound]
  /\ m_globs = <<>>
  /\ calls = <<>>

\* fnmatch without flags, for patterns of characters and "*".
fnmatch(p, t) ==
  LET fits[i \in 1 .. Len(p) + 1, j \in 1 .. Len(t) + 1] ==
        CASE i > Len(p) -> j > Len(t)
          [] i <= Len(p) /\ p[i] = "*" -> \E k \in j .. Len(t) + 1 : fits[i + 1, k]
          [] i <= Len(p) /\ p[i] # "*" -> j <= Len(t) /\ p[i] = t[j] /\ fits[i + 1, j + 1]
  IN  fits[1, 1]

-----------------------------------------------------------------------------
\* Mutated forms of the definitions below, one plausible slip each.
MutWithGlob(globs, uri, slt) == Append(globs, [uri |-> uri, slt |-> slt])

-----------------------------------------------------------------------------
Called(op, uri, slt) ==
  /\ Len(calls) < MaxCalls
  /\ calls' = Append(calls, [op |-> op, uri |-> uri, slt |-> slt])

addServlet(uri, slt) ==
  /\ Called("add", uri, slt)
  /\ m_datas' = [m_datas EXCEPT ![uri] = slt]
  /\ UNCHANGED m_globs

delServlet(uri) ==
  /\ Called("del", uri, NotFound)
  /\ m_datas' = [m_datas EXCEPT ![uri] = NotFound]
  /\ UNCHANGED m_globs

\* The vector without the first entry for uri.
WithoutGlob(globs, uri) ==
  LET at == {i \in 1 .. Len(globs) : globs[i].uri = uri}
  IN IF at = {} THEN globs
     ELSE RemoveAt(globs, CHOOSE i \in at : \A k \in at : i <= k)

WithGlob(globs, uri, slt) == Append(WithoutGlob(globs, uri), [uri |-> uri, slt |-> slt])

addGlobServlet(uri, slt) ==
  /\ Called("addGlob", uri, slt)
  /\ m_globs' = WithGlob(m_globs, uri, slt)
  /\ UNCHANGED m_datas

delGlobServlet(uri) ==
  /\ Called("delGlob", uri, NotFound)
  /\ m_globs' = WithoutGlob(m_globs, uri)
  /\ UNCHANGED m_datas

\* The exact path first, then the first pattern that fits, then m_default.
getMatchedServlet(path) ==
  LET fits == {i \in 1 .. Len(m_globs) : fnmatch(m_globs[i].uri, path)}
  IN CASE path \in Uris /\ m_datas[path] # NotFound -> m_datas[path]
       [] ~(path \in Uris /\ m_datas[path] # NotFound) /\ fits # {} ->
            m_globs[CHOOSE i \in fits : \A k \in fits : i <= k].slt
       [] OTHER -> NotFound

DispatchNext ==
  \/ \E u \in Uris, s \in Servlets : addServlet(u, s)
  \/ \E u \in Uris : delServlet(u)
  \/ \E p \in Patterns, s \in Servlets : addGlobServlet(p, s)
  \/ \E p \in Patterns : delGlobServlet(p)

DispatchSpec == DispatchInit /\ [][DispatchNext]_dispatchVars

-----------------------------------------------------------------------------
\* The i-th call is the last one of the kinds ops for its path or pattern.
IsLast(i, ops) ==
  /\ calls[i].op \in ops
  /\ \A k \in i + 1 .. Len(calls) : ~(calls[k].op \in ops /\ calls[k].uri = calls[i].uri)

\* The calls that gave a path and a pattern the servlet it has.
LastAdd == {i \in 1 .. Len(calls) : IsLast(i, {"add", "del"}) /\ calls[i].op = "add"}
LastAddGlob == {i \in 1 .. Len(calls) : IsLast(i, {"addGlob", "delGlob"}) /\ calls[i].op = "addGlob"}

\* What the history of the calls says of a path: the last call for it if that was
\* an addServlet; else, of the patterns whose last call was an addGlobServlet, the
\* one that fits and was added first.
Expected(path) ==
  LET exact == {i \in LastAdd : calls[i].uri = path}
      globs == {i \in LastAddGlob : fnmatch(calls[i].uri, path)}
      Earliest(I) == calls[CHOOSE i \in I : \A k \in I : i <= k].slt
  IN IF exact # {} THEN Earliest(exact) ELSE IF globs # {} THEN Earliest(globs) ELSE NotFound

\* The table answers every path as the history of the calls says, whatever was added
\* twice or removed in between (addServlet ... getMatchedServlet).
DispatchFollowsCalls == \A p \in Paths : getMatchedServlet(p) = Expected(p)
=============================================================================
